------------------------------- MODULE Accounts -------------------------------
(***************************************************************************)
(* Users and their Spotify accounts: the login callback, which creates or  *)
(* renews an account and opens a session (handlers/auth_spotify.go), and   *)
(* AccessToken, which every sync calls and which refreshes the account's   *)
(* tokens when they have expired (services/user/user.go).                  *)
(*                                                                         *)
(* A Login is one pass of a browser through the OAuth flow, a Caller one   *)
(* that may ask for an access token.  Of the tokens only the refresh token *)
(* is kept, a number; the access token is expired or not.  Two steps of a  *)
(* transaction are one here when nobody can tell: a row inserted under a   *)
(* unique key, and the commit that follows.                                *)
(***************************************************************************)
EXTENDS Integers, FiniteSets

CONSTANTS
    Login, Caller,
    Account,      \* external ids at Spotify
    UserId,       \* what newUserID may draw
    MaxTokens,    \* bound: the refresh tokens issued in a behaviour
    None

ASSUME AccountConstants ==
    /\ MaxTokens \in Nat
    /\ None \notin UserId /\ None \notin Account

VARIABLES
    issued,       \* refresh tokens issued so far
    live,         \* those that Spotify honours, each with its account
    users,        \* rows of users
    accounts,     \* rows of external_accounts, by external id
    sessions,     \* rows of sessions: the user of each login's session
    flow,         \* of each login
    job           \* of each caller

vars == <<issued, live, users, accounts, sessions, flow, job>>

Token == 1..MaxTokens

\* alone (history): the refresh that locked the row overlapped no other refresh
\* and no login of the account.
Row == [user : UserId, refresh : Token, expired : BOOLEAN, locked : BOOLEAN,
        alone : BOOLEAN]
NoRow == [user |-> None]
Known(a) == accounts[a] # NoRow

NoFlow == [at |-> "begin", account |-> None, refresh |-> 0, user |-> None]
NoJob == [at |-> "idle", account |-> None, refresh |-> 0, alone |-> TRUE]

Init ==
    /\ issued = 0 /\ live = {}
    /\ users = {}
    /\ accounts = [a \in Account |-> NoRow]
    /\ sessions = [b \in Login |-> None]
    /\ flow = [b \in Login |-> NoFlow]
    /\ job = [c \in Caller |-> NoJob]

-----------------------------------------------------------------------------
(* Spotify: it issues tokens, may replace a token that is used, and forgets *)
(* an account's tokens when the user revokes the app.                       *)

Honours(a, t) == [account |-> a, token |-> t] \in live
HasToken(a) == \E t \in live : t.account = a

Revoke(a) ==
    /\ HasToken(a)
    /\ live' = {t \in live : t.account # a}
    /\ UNCHANGED <<issued, users, accounts, sessions, flow, job>>

Expire(a) ==
    /\ Known(a) /\ ~accounts[a].expired
    /\ accounts' = [accounts EXCEPT ![a].expired = TRUE]
    /\ UNCHANGED <<issued, live, users, sessions, flow, job>>

\* A grant of account a gives token t.
Issue(a, t) ==
    /\ t = issued + 1 /\ t \in Token
    /\ issued' = t

\* The token t is used and n answered: t itself, or one that takes its place.
Rotate(a, t, n) ==
    \/ n = t /\ UNCHANGED <<issued, live>>
    \/ /\ Issue(a, n)
       /\ live' = (live \ {[account |-> a, token |-> t]})
                     \cup {[account |-> a, token |-> n]}

-----------------------------------------------------------------------------
(* Login. *)

Move(b, f) == flow' = [flow EXCEPT ![b] = f]

\* consumeOAuthState, ExchangeCode and GetMe: the state is gone, the account is known.
ExchangeCode(b, a) ==
    /\ flow[b].at = "begin"
    /\ \E t \in Token :
         /\ Issue(a, t)
         /\ live' = live \cup {[account |-> a, token |-> t]}
         /\ Move(b, [NoFlow EXCEPT !.at = "find", !.account = a, !.refresh = t])
    /\ UNCHANGED <<users, accounts, sessions, job>>

\* A callback answers an error, or its request is cut off, and is not retried.
Fail(b) ==
    /\ flow[b].at # "end"
    /\ Move(b, [NoFlow EXCEPT !.at = "end"])
    /\ UNCHANGED <<issued, live, users, accounts, sessions, job>>

FindAccount(b) ==
    LET a == flow[b].account IN
    /\ flow[b].at = "find"
    /\ IF Known(a) THEN Move(b, [flow[b] EXCEPT !.at = "update", !.user = accounts[a].user])
                   ELSE Move(b, [flow[b] EXCEPT !.at = "create"])
    /\ UNCHANGED <<issued, live, users, accounts, sessions, job>>

\* A login overlaps every refresh of its account that is under way.
Disturb(a, others) ==
    [c \in Caller |-> IF c \in others /\ job[c].at # "idle" /\ job[c].account = a
                      THEN [job[c] EXCEPT !.alone = FALSE] ELSE job[c]]

\* Mutant: the new user is not part of the transaction.
CreateUserApart(b, u) ==
    LET a == flow[b].account IN
    /\ flow[b].at = "create"
    /\ u \in UserId \ users
    /\ users' = users \cup {u}
    /\ IF Known(a)
       THEN /\ Move(b, [NoFlow EXCEPT !.at = "end"])
            /\ UNCHANGED <<accounts, job>>
       ELSE /\ accounts' = [accounts EXCEPT ![a] =
                  [user |-> u, refresh |-> flow[b].refresh, expired |-> FALSE,
                   locked |-> FALSE, alone |-> TRUE]]
            /\ Move(b, [flow[b] EXCEPT !.at = "session", !.user = u])
            /\ job' = Disturb(a, Caller)
    /\ UNCHANGED <<issued, live, sessions>>

\* The second of two first logins fails on the unique key and is Fail(b).
CreateUser(b, u) ==
    LET a == flow[b].account IN
    /\ flow[b].at = "create"
    /\ u \in UserId \ users
    /\ ~Known(a)
    /\ users' = users \cup {u}
    /\ accounts' = [accounts EXCEPT ![a] =
          [user |-> u, refresh |-> flow[b].refresh, expired |-> FALSE,
           locked |-> FALSE, alone |-> TRUE]]
    /\ Move(b, [flow[b] EXCEPT !.at = "session", !.user = u])
    /\ job' = Disturb(a, Caller)
    /\ UNCHANGED <<issued, live, sessions>>

\* The row of the user found and of the provider: the user's only account.
UpdateAccount(b) ==
    LET a == flow[b].account IN
    /\ flow[b].at = "update"
    /\ accounts' = [accounts EXCEPT ![a] =
          [@ EXCEPT !.refresh = flow[b].refresh, !.expired = FALSE, !.locked = FALSE]]
    /\ Move(b, [flow[b] EXCEPT !.at = "session"])
    /\ job' = Disturb(a, Caller)
    /\ UNCHANGED <<issued, live, users, sessions>>

CreateSession(b) ==
    /\ flow[b].at = "session"
    /\ sessions' = [sessions EXCEPT ![b] = flow[b].user]
    /\ Move(b, [flow[b] EXCEPT !.at = "end"])
    /\ UNCHANGED <<issued, live, users, accounts, job>>

Logout(b) ==
    /\ sessions[b] # None
    /\ sessions' = [sessions EXCEPT ![b] = None]
    /\ UNCHANGED <<issued, live, users, accounts, flow, job>>

-----------------------------------------------------------------------------
(* AccessToken.  A call that finds a token it can return, no account or one *)
(* that is locked changes nothing and is no step here.                      *)

Done(c) == job' = [job EXCEPT ![c] = NoJob]

\* Mutant: the token is taken as good, expired or not.
ReadAccountTrusting(c, a) ==
    /\ job[c].at = "idle" /\ Known(a) /\ ~accounts[a].locked
    /\ ~accounts[a].expired
    /\ UNCHANGED vars

ReadAccount(c, a) ==
    LET alone == \A d \in Caller : job[d].at # "idle" => job[d].account # a IN
    /\ job[c].at = "idle" /\ Known(a) /\ ~accounts[a].locked
    /\ accounts[a].expired
    /\ job' = [Disturb(a, Caller \ {c}) EXCEPT ![c] =
                 [at |-> "refresh", account |-> a, refresh |-> accounts[a].refresh,
                  alone |-> alone]]
    /\ UNCHANGED <<issued, live, users, accounts, sessions, flow>>

\* Mutant: an answer without a refresh token is taken as it is.
RefreshForgetting(c) ==
    /\ job[c].at = "refresh" /\ Honours(job[c].account, job[c].refresh)
    /\ job' = [job EXCEPT ![c].at = "store", ![c].refresh = 0]
    /\ UNCHANGED <<issued, live, users, accounts, sessions, flow>>

Refresh(c) ==
    LET a == job[c].account IN
    /\ job[c].at = "refresh" /\ Honours(a, job[c].refresh)
    /\ \E n \in Token :
         /\ Rotate(a, job[c].refresh, n)
         /\ job' = [job EXCEPT ![c].at = "store", ![c].refresh = n]
    /\ UNCHANGED <<users, accounts, sessions, flow>>

\* Spotify has answered, and the answer does not arrive.
LoseAnswer(c) ==
    LET a == job[c].account IN
    /\ job[c].at = "refresh" /\ Honours(a, job[c].refresh)
    /\ \E n \in Token : Rotate(a, job[c].refresh, n)
    /\ Done(c)
    /\ UNCHANGED <<users, accounts, sessions, flow>>

\* Mutant: whatever goes wrong locks the account.
RefuseAny(c) ==
    /\ job[c].at = "refresh"
    /\ job' = [job EXCEPT ![c].at = "lock"]
    /\ UNCHANGED <<issued, live, users, accounts, sessions, flow>>

\* 400: the token is dead, which the caller passes on as terminal.  (postToken takes
\* every 400 for an invalid_grant; Spotify is taken to answer 400 to nothing else.)
Refuse(c) ==
    /\ job[c].at = "refresh" /\ ~Honours(job[c].account, job[c].refresh)
    /\ job' = [job EXCEPT ![c].at = "lock"]
    /\ UNCHANGED <<issued, live, users, accounts, sessions, flow>>

\* The provider cannot be reached, an UPDATE fails, or the process ends.
GiveUp(c) ==
    /\ job[c].at # "idle"
    /\ Done(c)
    /\ UNCHANGED <<issued, live, users, accounts, sessions, flow>>

\* needs_reconnect is left as it is.
StoreTokens(c) ==
    /\ job[c].at = "store"
    /\ accounts' = [accounts EXCEPT ![job[c].account] =
          [@ EXCEPT !.refresh = job[c].refresh, !.expired = FALSE]]
    /\ Done(c)
    /\ UNCHANGED <<issued, live, users, sessions, flow>>

Lock(c) ==
    /\ job[c].at = "lock"
    /\ accounts' = [accounts EXCEPT ![job[c].account] =
          [@ EXCEPT !.locked = TRUE, !.alone = job[c].alone]]
    /\ Done(c)
    /\ UNCHANGED <<issued, live, users, sessions, flow>>

-----------------------------------------------------------------------------
Spotify == \E a \in Account : Revoke(a) \/ Expire(a)

LogIn(b) == \/ \E a \in Account : ExchangeCode(b, a)
            \/ FindAccount(b) \/ (\E u \in UserId : CreateUser(b, u))
            \/ UpdateAccount(b) \/ CreateSession(b) \/ Fail(b) \/ Logout(b)

AccessToken(c) == \/ \E a \in Account : ReadAccount(c, a)
                  \/ Refresh(c) \/ LoseAnswer(c) \/ Refuse(c) \/ GiveUp(c)
                  \/ StoreTokens(c) \/ Lock(c)

Next == Spotify \/ (\E b \in Login : LogIn(b)) \/ \E c \in Caller : AccessToken(c)

Spec == Init /\ [][Next]_vars

\* Tokens expire; the scheduler's jobs ask for a token over and over, one account
\* after the other; and Spotify, the database and the process do not fail for ever.
LiveSpec ==
    /\ Spec
    /\ \A a \in Account : /\ WF_vars(Expire(a))
                          /\ WF_vars(\E c \in Caller : ReadAccount(c, a))
    /\ \A c \in Caller : /\ WF_vars(AccessToken(c) /\ job[c].at # "idle")
                         /\ SF_vars(Refuse(c)) /\ SF_vars(Lock(c))

-----------------------------------------------------------------------------
(* Properties. *)

Flow == [at : {"begin", "find", "create", "update", "session", "end"},
         account : Account \cup {None}, refresh : 0..MaxTokens, user : UserId \cup {None}]
Job == [at : {"idle", "refresh", "store", "lock"}, account : Account \cup {None},
        refresh : 0..MaxTokens, alone : BOOLEAN]

TypeOK ==
    /\ issued \in 0..MaxTokens
    /\ live \subseteq [account : Account, token : Token]
    /\ users \subseteq UserId
    /\ accounts \in [Account -> Row \cup {NoRow}]
    /\ sessions \in [Login -> UserId \cup {None}]
    /\ flow \in [Login -> Flow]
    /\ job \in [Caller -> Job]

(***************************************************************************)
(* However first logins overlap and wherever they fail, every user has one *)
(* account, every account its own user, and a session is of such a user.   *)
(***************************************************************************)
UsersHaveAccounts ==
    /\ users = {accounts[a].user : a \in {x \in Account : Known(x)}}
    /\ \A a, b \in Account : /\ Known(a) /\ Known(b) /\ accounts[a].user = accounts[b].user
                             => a = b
    /\ \A b \in Login : sessions[b] # None => sessions[b] \in users

(***************************************************************************)
(* "Only lock the account for REAL terminal failures": an account is       *)
(* locked while its refresh token is good only when the refresh that       *)
(* locked it overlapped another one, or a login.                           *)
(***************************************************************************)
LockedIsDead ==
    \A a \in Account :
        Known(a) /\ accounts[a].locked /\ accounts[a].alone
            => ~Honours(a, accounts[a].refresh)

(***************************************************************************)
(* "lock this account; the refresh token is dead": an account whose stored *)
(* refresh token is dead - the user has revoked it, or the answer with its *)
(* successor was lost, or a call stored it late - is locked in the end, so *)
(* that the user is asked to reconnect, unless a login or another refresh  *)
(* has stored one that is good by then.  A good token that the row does    *)
(* not hold, such as one of a login that failed, is no help.               *)
(***************************************************************************)
DeadIsLocked ==
    \A a \in Account :
        (Known(a) /\ ~Honours(a, accounts[a].refresh))
            ~> (Known(a) /\ (accounts[a].locked \/ Honours(a, accounts[a].refresh)))
=============================================================================
