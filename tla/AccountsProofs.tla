--------------------------- MODULE AccountsProofs ---------------------------
(***************************************************************************)
(* Proofs about Accounts, for any number of logins, callers, accounts and  *)
(* tokens.  Three invariants, each resting on the ones before it:          *)
(*   - Base: the types, and what a login and a refresh know while they are *)
(*     under way (a login its token, a refresh a row that exists);         *)
(*   - OwnersInv: users and accounts correspond, and a login about to      *)
(*     write its session is of a user;                                     *)
(*   - LockedInv: no token is issued twice, so that a dead one stays dead, *)
(*     and a refresh that is alone has the row to itself.                  *)
(***************************************************************************)
EXTENDS Accounts, TLAPS

\* A call of AccessToken is under way.
Busy(c) == job[c].at # "idle"

\* What a login has learnt by the time it writes: its account and its own token, and
\* the user of the account it found.
FlowKnows(b) ==
    /\ flow[b].at \in {"find", "create", "update", "session"}
          => flow[b].account \in Account /\ flow[b].refresh \in Token
    /\ flow[b].at = "update"
          => Known(flow[b].account) /\ flow[b].user = accounts[flow[b].account].user
    /\ flow[b].at = "session" => flow[b].user \in UserId

\* A call of AccessToken is about an account that has a row, and has a token for it.
JobKnows(c) ==
    Busy(c) => /\ job[c].account \in Account /\ Known(job[c].account)
               /\ job[c].refresh \in Token

FlowsKnow == \A b \in Login : FlowKnows(b)
JobsKnow == \A c \in Caller : JobKnows(c)

Base == TypeOK /\ FlowsKnow /\ JobsKnow

-----------------------------------------------------------------------------
(* Rows and jobs. *)

LEMMA RowFacts ==
    ASSUME TypeOK, NEW a \in Account
    PROVE  /\ Known(a) <=> accounts[a] \in Row
           /\ Known(a) => /\ accounts[a].user \in UserId /\ accounts[a].refresh \in Token
                          /\ accounts[a].expired \in BOOLEAN /\ accounts[a].locked \in BOOLEAN
                          /\ accounts[a].alone \in BOOLEAN
<1>1. accounts[a] \in Row \cup {NoRow}
  BY DEF TypeOK
<1>2. \A r \in Row : r.user \in UserId
  BY DEF Row
<1>3. NoRow.user = None
  BY DEF NoRow
<1>4. NoRow \notin Row
  BY <1>2, <1>3, AccountConstants
<1> QED  BY <1>1, <1>4 DEF Known, Row

LEMMA JobFacts ==
    ASSUME TypeOK, NEW c \in Caller
    PROVE  /\ job[c] \in Job
           /\ job[c].at \in {"idle", "refresh", "store", "lock"}
           /\ job[c].account \in Account \cup {None}
           /\ job[c].refresh \in 0..MaxTokens
           /\ job[c].alone \in BOOLEAN
BY DEF TypeOK, Job

LEMMA FlowFacts ==
    ASSUME TypeOK, NEW b \in Login
    PROVE  /\ flow[b] \in Flow
           /\ flow[b].at \in {"begin", "find", "create", "update", "session", "end"}
           /\ flow[b].account \in Account \cup {None}
           /\ flow[b].refresh \in 0..MaxTokens
           /\ flow[b].user \in UserId \cup {None}
BY DEF TypeOK, Flow

\* Disturb touches nothing of a job but its alone mark, and takes that mark from the
\* jobs of the account.
LEMMA Disturbed ==
    ASSUME TypeOK, NEW a \in Account, NEW S \in SUBSET Caller
    PROVE  /\ Disturb(a, S) \in [Caller -> Job]
           /\ \A c \in Caller :
                /\ Disturb(a, S)[c].at = job[c].at
                /\ Disturb(a, S)[c].account = job[c].account
                /\ Disturb(a, S)[c].refresh = job[c].refresh
                /\ Disturb(a, S)[c].alone => job[c].alone
                /\ c \in S /\ Busy(c) /\ job[c].account = a => ~Disturb(a, S)[c].alone
<1>1. \A c \in Caller : 
        LET k == [job[c] EXCEPT !.alone = FALSE] IN
        /\ k \in Job /\ k.at = job[c].at /\ k.account = job[c].account
        /\ k.refresh = job[c].refresh /\ k.alone = FALSE
  BY DEF TypeOK, Job
<1>2. \A c \in Caller : job[c] \in Job
  BY DEF TypeOK
<1> DEFINE K(c) == [job[c] EXCEPT !.alone = FALSE]
<1>3. \A c \in Caller : /\ c \in S /\ Busy(c) /\ job[c].account = a => Disturb(a, S)[c] = K(c)
                        /\ ~(c \in S /\ Busy(c) /\ job[c].account = a) => Disturb(a, S)[c] = job[c]
  BY DEF Disturb, Busy
<1>4. Disturb(a, S) = [c \in Caller |-> Disturb(a, S)[c]]
  BY DEF Disturb
<1>5. \A c \in Caller : K(c) \in Job /\ K(c).at = job[c].at /\ K(c).account = job[c].account
        /\ K(c).refresh = job[c].refresh /\ K(c).alone = FALSE
  BY <1>1
<1> HIDE DEF K
<1>6. \A c \in Caller : Disturb(a, S)[c] \in Job
  BY <1>2, <1>3, <1>5
<1>7. Disturb(a, S) \in [Caller -> Job]
  BY <1>4, <1>6
<1>8. ASSUME NEW c \in Caller
      PROVE  /\ Disturb(a, S)[c].at = job[c].at
             /\ Disturb(a, S)[c].account = job[c].account
             /\ Disturb(a, S)[c].refresh = job[c].refresh
             /\ Disturb(a, S)[c].alone => job[c].alone
             /\ c \in S /\ Busy(c) /\ job[c].account = a => ~Disturb(a, S)[c].alone
  <2>1. CASE c \in S /\ Busy(c) /\ job[c].account = a
    <3>1. Disturb(a, S)[c] = K(c)
      BY <1>3, <2>1
    <3> QED  BY <3>1, <1>5
  <2>2. CASE ~(c \in S /\ Busy(c) /\ job[c].account = a)
    <3>1. Disturb(a, S)[c] = job[c]
      BY <1>3, <2>2
    <3> QED  BY <3>1, <2>2
  <2> QED  BY <2>1, <2>2
<1> QED  BY <1>7, <1>8

\* What an action may do to the parts: a login or a caller moves, the others stay.
LEMMA FlowMoves ==
    ASSUME TypeOK, NEW b \in Login, NEW f \in Flow, Move(b, f)
    PROVE  /\ flow' \in [Login -> Flow]
           /\ flow'[b] = f
           /\ \A x \in Login \ {b} : flow'[x] = flow[x]
BY DEF TypeOK, Move

LEMMA JobEnds ==
    ASSUME TypeOK, NEW c \in Caller, Done(c)
    PROVE  /\ job' \in [Caller -> Job]
           /\ job'[c].at = "idle" /\ job'[c].refresh = 0
           /\ \A d \in Caller \ {c} : job'[d] = job[d]
<1>1. NoJob \in Job /\ NoJob.at = "idle" /\ NoJob.refresh = 0
  BY AccountConstants DEF NoJob, Job
<1>2. job' = [job EXCEPT ![c] = NoJob]
  BY DEF Done
<1> QED  BY <1>1, <1>2 DEF TypeOK


LEMMA RowMoves ==
    ASSUME TypeOK, NEW a \in Account, NEW r \in Row, accounts' = [accounts EXCEPT ![a] = r]
    PROVE  /\ accounts' \in [Account -> Row \cup {NoRow}]
           /\ accounts'[a] = r /\ Known(a)'
           /\ \A x \in Account \ {a} : accounts'[x] = accounts[x]
<1>1. accounts'[a] = r /\ accounts' \in [Account -> Row \cup {NoRow}]
      /\ \A x \in Account \ {a} : accounts'[x] = accounts[x]
  BY DEF TypeOK
<1>2. r.user # NoRow.user
  BY AccountConstants DEF Row, NoRow
<1> QED  BY <1>1, <1>2 DEF Known

\* The rows that a login and a refresh write: one account's, under the user it has.
LEMMA RowWritten ==
    ASSUME Base, NEW a \in Account, NEW x \in Row,
           accounts' = [accounts EXCEPT ![a] = x], Known(a) => x.user = accounts[a].user
    PROVE  /\ accounts' \in [Account -> Row \cup {NoRow}]
           /\ \A y \in Account : Known(y) => Known(y)' /\ accounts'[y].user = accounts[y].user
<1>1. TypeOK
  BY DEF Base
<1>2. /\ accounts' \in [Account -> Row \cup {NoRow}]
      /\ accounts'[a] = x /\ Known(a)'
      /\ \A y \in Account \ {a} : accounts'[y] = accounts[y]
  BY <1>1, RowMoves
<1>3. ASSUME NEW y \in Account, Known(y)
      PROVE  Known(y)' /\ accounts'[y].user = accounts[y].user
  <2>1. CASE y = a
    BY <1>2, <1>3, <2>1
  <2>2. CASE y # a
    BY <1>2, <1>3, <2>2 DEF Known
  <2> QED  BY <2>1, <2>2
<1> QED  BY <1>2, <1>3

LEMMA ExpireRow ==
    ASSUME TypeOK, NEW a \in Account, Expire(a)
    PROVE  \E r \in Row : /\ accounts' = [accounts EXCEPT ![a] = r]
                          /\ r.user = accounts[a].user /\ r.refresh = accounts[a].refresh
                          /\ r.locked = accounts[a].locked /\ r.alone = accounts[a].alone
<1> DEFINE r == [accounts[a] EXCEPT !.expired = TRUE]
<1>1. accounts[a] \in Row
  BY RowFacts DEF Expire
<1>2. /\ r \in Row /\ r.user = accounts[a].user /\ r.refresh = accounts[a].refresh
      /\ r.locked = accounts[a].locked /\ r.alone = accounts[a].alone
  BY <1>1 DEF Row
<1>3. accounts' = [accounts EXCEPT ![a] = r]
  BY DEF Expire
<1> QED  BY <1>2, <1>3

LEMMA CreateRow ==
    ASSUME Base, NEW b \in Login, NEW u \in UserId, CreateUser(b, u)
    PROVE  \E r \in Row : /\ accounts' = [accounts EXCEPT ![flow[b].account] = r]
                          /\ r.user = u /\ r.refresh = flow[b].refresh
                          /\ r.locked = FALSE
<1> DEFINE r == [user |-> u, refresh |-> flow[b].refresh, expired |-> FALSE,
                 locked |-> FALSE, alone |-> TRUE]
<1>1. flow[b].refresh \in Token
  BY DEF Base, FlowsKnow, FlowKnows, CreateUser
<1>2. r \in Row /\ r.user = u /\ r.refresh = flow[b].refresh /\ r.locked = FALSE
  BY <1>1 DEF Row
<1>3. accounts' = [accounts EXCEPT ![flow[b].account] = r]
  BY DEF CreateUser
<1> QED  BY <1>2, <1>3

LEMMA UpdateRow ==
    ASSUME Base, NEW b \in Login, UpdateAccount(b)
    PROVE  \E r \in Row : /\ accounts' = [accounts EXCEPT ![flow[b].account] = r]
                          /\ r.user = accounts[flow[b].account].user
                          /\ r.refresh = flow[b].refresh
                          /\ r.locked = FALSE
<1> DEFINE a == flow[b].account
           r == [accounts[a] EXCEPT !.refresh = flow[b].refresh, !.expired = FALSE,
                                    !.locked = FALSE]
<1>1. a \in Account /\ flow[b].refresh \in Token /\ Known(a)
  BY DEF Base, FlowsKnow, FlowKnows, UpdateAccount
<1>2. accounts[a] \in Row
  BY <1>1, RowFacts DEF Base
<1>3. r \in Row /\ r.user = accounts[a].user /\ r.refresh = flow[b].refresh
      /\ r.locked = FALSE
  BY <1>1, <1>2 DEF Row
<1>4. accounts' = [accounts EXCEPT ![a] = r]
  BY DEF UpdateAccount
<1> QED  BY <1>3, <1>4

LEMMA StoreRow ==
    ASSUME Base, NEW c \in Caller, StoreTokens(c)
    PROVE  \E r \in Row : /\ accounts' = [accounts EXCEPT ![job[c].account] = r]
                          /\ r.user = accounts[job[c].account].user
                          /\ r.refresh = job[c].refresh
                          /\ r.locked = accounts[job[c].account].locked
                          /\ r.alone = accounts[job[c].account].alone
<1> DEFINE a == job[c].account
           r == [accounts[a] EXCEPT !.refresh = job[c].refresh, !.expired = FALSE]
<1>1. a \in Account /\ job[c].refresh \in Token /\ Known(a)
  BY DEF Base, JobsKnow, JobKnows, StoreTokens, Busy
<1>2. accounts[a] \in Row
  BY <1>1, RowFacts DEF Base
<1>3. r \in Row /\ r.user = accounts[a].user /\ r.refresh = job[c].refresh
      /\ r.locked = accounts[a].locked /\ r.alone = accounts[a].alone
  BY <1>1, <1>2 DEF Row
<1>4. accounts' = [accounts EXCEPT ![a] = r]
  BY DEF StoreTokens
<1> QED  BY <1>3, <1>4

LEMMA LockRow ==
    ASSUME Base, NEW c \in Caller, Lock(c)
    PROVE  \E r \in Row : /\ accounts' = [accounts EXCEPT ![job[c].account] = r]
                          /\ r.user = accounts[job[c].account].user
                          /\ r.refresh = accounts[job[c].account].refresh
                          /\ r.alone = job[c].alone
<1> DEFINE a == job[c].account
           r == [accounts[a] EXCEPT !.locked = TRUE, !.alone = job[c].alone]
<1>1. a \in Account /\ Known(a) /\ job[c].alone \in BOOLEAN
  BY JobFacts DEF Base, JobsKnow, JobKnows, Lock, Busy
<1>2. accounts[a] \in Row
  BY <1>1, RowFacts DEF Base
<1>3. r \in Row /\ r.user = accounts[a].user /\ r.refresh = accounts[a].refresh
      /\ r.alone = job[c].alone
  BY <1>1, <1>2 DEF Row
<1>4. accounts' = [accounts EXCEPT ![a] = r]
  BY DEF Lock
<1> QED  BY <1>3, <1>4


\* A row stays, and its user.
UserStays == \A a \in Account : Known(a) => Known(a)' /\ accounts'[a].user = accounts[a].user

LEMMA RowsNext ==
    ASSUME Base, [Next]_vars
    PROVE  accounts' \in [Account -> Row \cup {NoRow}] /\ UserStays
<1>0. TypeOK
  BY DEF Base
<1>1. CASE UNCHANGED accounts
  BY <1>0, <1>1 DEF TypeOK, UserStays, Known
<1>2. ASSUME NEW a \in Account, Expire(a)
      PROVE  accounts' \in [Account -> Row \cup {NoRow}] /\ UserStays
  <2>1. PICK r \in Row : accounts' = [accounts EXCEPT ![a] = r] /\ r.user = accounts[a].user
    BY <1>0, <1>2, ExpireRow
  <2>2. Known(a) => r.user = accounts[a].user
    BY <2>1
  <2> QED  BY <2>1, <2>2, RowWritten DEF UserStays
<1>3. ASSUME NEW b \in Login, NEW u \in UserId, CreateUser(b, u)
      PROVE  accounts' \in [Account -> Row \cup {NoRow}] /\ UserStays
  <2>1. PICK r \in Row : accounts' = [accounts EXCEPT ![flow[b].account] = r]
    BY <1>3, CreateRow
  <2>2. flow[b].account \in Account
    BY <1>3 DEF Base, FlowsKnow, FlowKnows, CreateUser
  <2>3. Known(flow[b].account) => r.user = accounts[flow[b].account].user
    BY <1>3 DEF CreateUser
  <2> QED  BY <2>1, <2>2, <2>3, RowWritten DEF UserStays
<1>4. ASSUME NEW b \in Login, UpdateAccount(b)
      PROVE  accounts' \in [Account -> Row \cup {NoRow}] /\ UserStays
  <2>1. PICK r \in Row : /\ accounts' = [accounts EXCEPT ![flow[b].account] = r]
                         /\ r.user = accounts[flow[b].account].user
    BY <1>4, UpdateRow
  <2>2. flow[b].account \in Account
    BY <1>4 DEF Base, FlowsKnow, FlowKnows, UpdateAccount
  <2>3. Known(flow[b].account) => r.user = accounts[flow[b].account].user
    BY <2>1
  <2> QED  BY <2>1, <2>2, <2>3, RowWritten DEF UserStays
<1>5. ASSUME NEW c \in Caller, StoreTokens(c) \/ Lock(c)
      PROVE  accounts' \in [Account -> Row \cup {NoRow}] /\ UserStays
  <2>1. PICK r \in Row : /\ accounts' = [accounts EXCEPT ![job[c].account] = r]
                         /\ r.user = accounts[job[c].account].user
    BY <1>5, StoreRow, LockRow
  <2>2. job[c].account \in Account
    BY <1>5 DEF Base, JobsKnow, JobKnows, Busy, StoreTokens, Lock
  <2>3. Known(job[c].account) => r.user = accounts[job[c].account].user
    BY <2>1
  <2> QED  BY <2>1, <2>2, <2>3, RowWritten DEF UserStays
<1> QED
  BY <1>1, <1>2, <1>3, <1>4, <1>5
  DEF Next, vars, Spotify, LogIn, AccessToken, Revoke, ExchangeCode, FindAccount,
      CreateSession, Fail, Logout, ReadAccount, Refresh, LoseAnswer, Refuse, GiveUp

-----------------------------------------------------------------------------
(* Types. *)

LEMMA FlowStays ==
    ASSUME Base, UserStays, NEW b \in Login, flow'[b] = flow[b]
    PROVE  FlowKnows(b)'
<1>1. FlowKnows(b)
  BY DEF Base, FlowsKnow
<1>2. flow[b].at = "update" => flow[b].account \in Account
  BY <1>1 DEF FlowKnows
<1> QED  BY <1>1, <1>2 DEF FlowKnows, UserStays

LEMMA JobStays ==
    ASSUME Base, UserStays, NEW c \in Caller, job'[c].at = job[c].at,
           job'[c].account = job[c].account, job'[c].refresh = job[c].refresh
    PROVE  JobKnows(c)'
<1>1. JobKnows(c)
  BY DEF Base, JobsKnow
<1> QED  BY <1>1 DEF JobKnows, UserStays, Busy

\* A login that moves by itself.
LEMMA FlowMoved ==
    ASSUME Base, UserStays, NEW b \in Login, NEW f \in Flow, Move(b, f), FlowKnows(b)'
    PROVE  flow' \in [Login -> Flow] /\ FlowsKnow'
<1>1. /\ flow' \in [Login -> Flow]
      /\ \A x \in Login \ {b} : flow'[x] = flow[x]
  BY FlowMoves DEF Base
<1>2. \A x \in Login : FlowKnows(x)'
  BY <1>1, FlowStays
<1> QED  BY <1>1, <1>2 DEF FlowsKnow

LEMMA FlowsStay ==
    ASSUME Base, UserStays, UNCHANGED flow
    PROVE  flow' \in [Login -> Flow] /\ FlowsKnow'
<1>1. \A x \in Login : FlowKnows(x)'
  BY FlowStays
<1> QED  BY <1>1 DEF FlowsKnow, Base, TypeOK

LEMMA JobsStay ==
    ASSUME Base, UserStays, UNCHANGED job
    PROVE  job' \in [Caller -> Job] /\ JobsKnow'
<1>1. \A x \in Caller : JobKnows(x)'
  BY JobStays
<1> QED  BY <1>1 DEF JobsKnow, Base, TypeOK

LEMMA JobsDisturbed ==
    ASSUME Base, UserStays, NEW a \in Account, job' = Disturb(a, Caller)
    PROVE  job' \in [Caller -> Job] /\ JobsKnow'
<1>1. TypeOK /\ Caller \in SUBSET Caller
  BY DEF Base
<1>2. /\ job' \in [Caller -> Job]
      /\ \A c \in Caller : /\ job'[c].at = job[c].at /\ job'[c].account = job[c].account
                           /\ job'[c].refresh = job[c].refresh
  BY <1>1, Disturbed
<1>3. \A x \in Caller : JobKnows(x)'
  BY <1>2, JobStays
<1> QED  BY <1>2, <1>3 DEF JobsKnow

LEMMA JobsEnd ==
    ASSUME Base, UserStays, NEW c \in Caller, Done(c)
    PROVE  job' \in [Caller -> Job] /\ JobsKnow'
<1>1. /\ job' \in [Caller -> Job] /\ job'[c].at = "idle"
      /\ \A d \in Caller \ {c} : job'[d] = job[d]
  BY JobEnds DEF Base
<1>2. JobKnows(c)'
  BY <1>1 DEF JobKnows, Busy
<1>3. \A x \in Caller : JobKnows(x)'
  BY <1>1, <1>2, JobStays
<1> QED  BY <1>1, <1>3 DEF JobsKnow

\* A refresh that goes on with its account and some token.
LEMMA JobMoves ==
    ASSUME Base, UserStays, NEW c \in Caller, Busy(c), NEW p \in {"store", "lock"}, NEW n \in Token,
           job' = [job EXCEPT ![c].at = p, ![c].refresh = n]
    PROVE  /\ job' \in [Caller -> Job] /\ JobsKnow'
           /\ job'[c].at = p /\ job'[c].account = job[c].account
           /\ job'[c].refresh = n /\ job'[c].alone = job[c].alone
           /\ \A d \in Caller \ {c} : job'[d] = job[d]
<1> DEFINE j == [job[c] EXCEPT !.at = p, !.refresh = n]
<1>0. n \in 0..MaxTokens
  BY AccountConstants DEF Token
<1>1. /\ j \in Job /\ j.at = p /\ j.account = job[c].account
      /\ j.refresh = n /\ j.alone = job[c].alone
  BY <1>0, JobFacts DEF Base, Job
<1>2. job' = [job EXCEPT ![c] = j]
  OBVIOUS
<1> HIDE DEF j
<1>3. /\ job' \in [Caller -> Job] /\ job'[c] = j
      /\ \A d \in Caller \ {c} : job'[d] = job[d]
  BY <1>1, <1>2 DEF Base, TypeOK
<1>4. JobKnows(c)
  BY DEF Base, JobsKnow
<1>5. JobKnows(c)'
  BY <1>1, <1>3, <1>4 DEF JobKnows, UserStays
<1>6. \A x \in Caller : JobKnows(x)'
  BY <1>3, <1>5, JobStays
<1> QED  BY <1>1, <1>3, <1>6 DEF JobsKnow


\* Spotify's tokens: a token that is honoured was honoured before or is the newest.
TokensGrow ==
    /\ issued' \in issued..MaxTokens
    /\ live' \subseteq [account : Account, token : Token]
    /\ \A t \in live' : t \in live \/ (t.token = issued' /\ issued' > issued)

LEMMA TokensStay ==
    ASSUME TypeOK, UNCHANGED issued, live' \subseteq live
    PROVE  TokensGrow
BY DEF TypeOK, TokensGrow

LEMMA TokenIssued ==
    ASSUME TypeOK, NEW a \in Account, NEW t \in Token, Issue(a, t),
           live' \subseteq live \cup {[account |-> a, token |-> t]}
    PROVE  TokensGrow
<1>1. issued \in 0..MaxTokens /\ t = issued + 1 /\ issued' = t /\ t \in 1..MaxTokens
  BY DEF TypeOK, Issue, Token
<1>2. issued' \in issued..MaxTokens /\ issued' > issued
  BY <1>1, AccountConstants
<1>3. [account |-> a, token |-> t] \in [account : Account, token : Token]
  OBVIOUS
<1> QED  BY <1>1, <1>2, <1>3 DEF TypeOK, TokensGrow

LEMMA TokenRotated ==
    ASSUME TypeOK, NEW a \in Account, NEW t, NEW n \in Token, Rotate(a, t, n)
    PROVE  TokensGrow
<1>1. CASE UNCHANGED <<issued, live>>
  BY <1>1, TokensStay
<1>2. CASE Issue(a, n) /\ live' = (live \ {[account |-> a, token |-> t]})
                                     \cup {[account |-> a, token |-> n]}
  BY <1>2, TokenIssued
<1> QED  BY <1>1, <1>2 DEF Rotate

LEMMA TokensNext ==
    ASSUME Base, [Next]_vars
    PROVE  TokensGrow
<1>0. TypeOK
  BY DEF Base
<1>1. CASE UNCHANGED <<issued, live>>
  BY <1>0, <1>1, TokensStay
<1>2. ASSUME NEW a \in Account, Revoke(a) PROVE TokensGrow
  BY <1>0, <1>2, TokensStay DEF Revoke
<1>3. ASSUME NEW b \in Login, NEW a \in Account, ExchangeCode(b, a) PROVE TokensGrow
  BY <1>0, <1>3, TokenIssued DEF ExchangeCode
<1>4. ASSUME NEW c \in Caller, Refresh(c) \/ LoseAnswer(c) PROVE TokensGrow
  <2>1. job[c].account \in Account
    BY <1>4 DEF Base, JobsKnow, JobKnows, Busy, Refresh, LoseAnswer
  <2> QED  BY <1>0, <1>4, <2>1, TokenRotated DEF Refresh, LoseAnswer
<1> QED
  BY <1>1, <1>2, <1>3, <1>4
  DEF Next, vars, Spotify, LogIn, AccessToken, Expire, FindAccount, CreateUser,
      UpdateAccount, CreateSession, Fail, Logout, ReadAccount, Refuse, GiveUp,
      StoreTokens, Lock

\* The logins.
LEMMA FlowsNext ==
    ASSUME Base, UserStays, [Next]_vars
    PROVE  flow' \in [Login -> Flow] /\ FlowsKnow'
<1>0. TypeOK /\ FlowsKnow
  BY DEF Base
<1> DEFINE Good == flow' \in [Login -> Flow] /\ FlowsKnow'
<1>1. CASE UNCHANGED flow
  BY <1>1, FlowsStay
<1>2. ASSUME NEW b \in Login, NEW a \in Account, ExchangeCode(b, a) PROVE Good
  <2>1. PICK t \in Token : Move(b, [NoFlow EXCEPT !.at = "find", !.account = a, !.refresh = t])
    BY <1>2 DEF ExchangeCode
  <2> DEFINE f == [NoFlow EXCEPT !.at = "find", !.account = a, !.refresh = t]
  <2>2. t \in 0..MaxTokens
    BY AccountConstants DEF Token
  <2>3. f \in Flow /\ f.at = "find" /\ f.account = a /\ f.refresh = t
    BY <2>2 DEF NoFlow, Flow
  <2> HIDE DEF f
  <2>4. flow'[b] = f
    BY <1>0, <2>1, <2>3, FlowMoves DEF f
  <2>5. FlowKnows(b)'
    BY <2>3, <2>4 DEF FlowKnows
  <2> QED  BY <2>1, <2>3, <2>5, FlowMoved DEF f
<1>3. ASSUME NEW b \in Login, Fail(b) PROVE Good
  <2> DEFINE f == [NoFlow EXCEPT !.at = "end"]
  <2>1. f \in Flow /\ f.at = "end"
    BY AccountConstants DEF NoFlow, Flow
  <2>2. Move(b, f)
    BY <1>3 DEF Fail
  <2> HIDE DEF f
  <2>3. flow'[b] = f
    BY <1>0, <2>1, <2>2, FlowMoves
  <2>4. FlowKnows(b)'
    BY <2>1, <2>3 DEF FlowKnows
  <2> QED  BY <2>1, <2>2, <2>4, FlowMoved
<1>4. ASSUME NEW b \in Login, FindAccount(b) PROVE Good
  <2>0. flow[b] \in Flow /\ flow[b].account \in Account /\ flow[b].refresh \in Token
    BY <1>0, <1>4, FlowFacts DEF FlowsKnow, FlowKnows, FindAccount
  <2>1. PICK a \in Account : a = flow[b].account
    BY <2>0
  <2>2. CASE Known(a)
    <3> DEFINE f == [flow[b] EXCEPT !.at = "update", !.user = accounts[a].user]
    <3>1. accounts[a].user \in UserId
      BY <1>0, <2>1, <2>2, RowFacts
    <3>2. /\ f \in Flow /\ f.at = "update" /\ f.account = a /\ f.refresh = flow[b].refresh
          /\ f.user = accounts[a].user
      BY <2>0, <2>1, <3>1 DEF Flow
    <3>3. Move(b, f)
      BY <1>4, <2>1, <2>2 DEF FindAccount
    <3> HIDE DEF f
    <3>4. flow'[b] = f
      BY <1>0, <3>2, <3>3, FlowMoves
    <3>5. Known(a)' /\ accounts'[a].user = accounts[a].user
      BY <2>2 DEF UserStays
    <3>6. FlowKnows(b)'
      BY <2>0, <3>2, <3>4, <3>5 DEF FlowKnows
    <3> QED  BY <3>2, <3>3, <3>6, FlowMoved
  <2>3. CASE ~Known(a)
    <3> DEFINE f == [flow[b] EXCEPT !.at = "create"]
    <3>1. f \in Flow /\ f.at = "create" /\ f.account = a /\ f.refresh = flow[b].refresh
      BY <2>0, <2>1 DEF Flow
    <3>2. Move(b, f)
      BY <1>4, <2>1, <2>3 DEF FindAccount
    <3> HIDE DEF f
    <3>3. flow'[b] = f
      BY <1>0, <3>1, <3>2, FlowMoves
    <3>4. FlowKnows(b)'
      BY <2>0, <3>1, <3>3 DEF FlowKnows
    <3> QED  BY <3>1, <3>2, <3>4, FlowMoved
  <2> QED  BY <2>2, <2>3
<1>5. ASSUME NEW b \in Login, NEW u \in UserId, CreateUser(b, u) PROVE Good
  <2> DEFINE f == [flow[b] EXCEPT !.at = "session", !.user = u]
  <2>1. flow[b] \in Flow /\ flow[b].account \in Account /\ flow[b].refresh \in Token
    BY <1>0, <1>5, FlowFacts DEF FlowsKnow, FlowKnows, CreateUser
  <2>2. /\ f \in Flow /\ f.at = "session" /\ f.account = flow[b].account
        /\ f.refresh = flow[b].refresh /\ f.user = u
    BY <2>1 DEF Flow
  <2>3. Move(b, f)
    BY <1>5 DEF CreateUser
  <2> HIDE DEF f
  <2>4. flow'[b] = f
    BY <1>0, <2>2, <2>3, FlowMoves
  <2>5. FlowKnows(b)'
    BY <2>1, <2>2, <2>4 DEF FlowKnows
  <2> QED  BY <2>2, <2>3, <2>5, FlowMoved
<1>6. ASSUME NEW b \in Login, UpdateAccount(b) PROVE Good
  <2> DEFINE f == [flow[b] EXCEPT !.at = "session"]
  <2>1. /\ flow[b] \in Flow /\ flow[b].account \in Account /\ flow[b].refresh \in Token
        /\ Known(flow[b].account) /\ flow[b].user = accounts[flow[b].account].user
    BY <1>0, <1>6, FlowFacts DEF FlowsKnow, FlowKnows, UpdateAccount
  <2>2. accounts[flow[b].account].user \in UserId
    BY <1>0, <2>1, RowFacts
  <2>3. /\ f \in Flow /\ f.at = "session" /\ f.account = flow[b].account
        /\ f.refresh = flow[b].refresh /\ f.user = flow[b].user
    BY <2>1 DEF Flow
  <2>4. Move(b, f)
    BY <1>6 DEF UpdateAccount
  <2> HIDE DEF f
  <2>5. flow'[b] = f
    BY <1>0, <2>3, <2>4, FlowMoves
  <2>6. FlowKnows(b)'
    BY <2>1, <2>2, <2>3, <2>5 DEF FlowKnows
  <2> QED  BY <2>3, <2>4, <2>6, FlowMoved
<1>7. ASSUME NEW b \in Login, CreateSession(b) PROVE Good
  <2> DEFINE f == [flow[b] EXCEPT !.at = "end"]
  <2>1. flow[b] \in Flow
    BY <1>0, FlowFacts
  <2>2. f \in Flow /\ f.at = "end"
    BY <2>1 DEF Flow
  <2>3. Move(b, f)
    BY <1>7 DEF CreateSession
  <2> HIDE DEF f
  <2>4. flow'[b] = f
    BY <1>0, <2>2, <2>3, FlowMoves
  <2>5. FlowKnows(b)'
    BY <2>2, <2>4 DEF FlowKnows
  <2> QED  BY <2>2, <2>3, <2>5, FlowMoved
<1> QED
  BY <1>1, <1>2, <1>3, <1>4, <1>5, <1>6, <1>7
  DEF Next, vars, Spotify, LogIn, AccessToken, Revoke, Expire, Logout, ReadAccount,
      Refresh, LoseAnswer, Refuse, GiveUp, StoreTokens, Lock

\* The calls of AccessToken.
LEMMA JobRead ==
    ASSUME Base, NEW c \in Caller, NEW a \in Account, ReadAccount(c, a)
    PROVE  /\ job' \in [Caller -> Job]
           /\ job'[c].at = "refresh" /\ job'[c].account = a
           /\ job'[c].refresh = accounts[a].refresh /\ accounts[a].refresh \in Token
           /\ job'[c].alone <=> \A d \in Caller : Busy(d) => job[d].account # a
           /\ \A d \in Caller \ {c} :
                /\ job'[d].at = job[d].at /\ job'[d].account = job[d].account
                /\ job'[d].refresh = job[d].refresh /\ (job'[d].alone => job[d].alone)
                /\ Busy(d) /\ job[d].account = a => ~job'[d].alone
<1> DEFINE alone == \A d \in Caller : job[d].at # "idle" => job[d].account # a
           j == [at |-> "refresh", account |-> a, refresh |-> accounts[a].refresh,
                 alone |-> alone]
           D == Disturb(a, Caller \ {c})
<1>1. TypeOK /\ Caller \ {c} \in SUBSET Caller
  BY DEF Base
<1>2. /\ D \in [Caller -> Job]
      /\ \A d \in Caller :
           /\ D[d].at = job[d].at /\ D[d].account = job[d].account
           /\ D[d].refresh = job[d].refresh /\ (D[d].alone => job[d].alone)
           /\ d \in Caller \ {c} /\ Busy(d) /\ job[d].account = a => ~D[d].alone
  BY <1>1, Disturbed
<1>3. accounts[a].refresh \in Token
  BY <1>1, RowFacts DEF ReadAccount
<1>4. accounts[a].refresh \in 0..MaxTokens /\ alone \in BOOLEAN
  BY <1>3, AccountConstants DEF Token
<1>5. job' = [D EXCEPT ![c] = j]
  BY DEF ReadAccount
<1>6. /\ j.at = "refresh" /\ j.account = a /\ j.refresh = accounts[a].refresh
      /\ j.alone = alone
  OBVIOUS
<1>7. alone <=> \A d \in Caller : Busy(d) => job[d].account # a
  BY DEF Busy
<1> HIDE DEF alone
<1>8. j \in Job
  BY <1>4 DEF Job
<1> HIDE DEF j, D
<1>9. job' \in [Caller -> Job] /\ job'[c] = j /\ \A d \in Caller \ {c} : job'[d] = D[d]
  BY <1>2, <1>5, <1>8
<1> QED  BY <1>2, <1>3, <1>6, <1>7, <1>9

LEMMA JobsNext ==
    ASSUME Base, UserStays, [Next]_vars
    PROVE  job' \in [Caller -> Job] /\ JobsKnow'
<1>0. TypeOK /\ FlowsKnow /\ JobsKnow
  BY DEF Base
<1> DEFINE Good == job' \in [Caller -> Job] /\ JobsKnow'
<1>1. CASE UNCHANGED job
  BY <1>1, JobsStay
<1>2. ASSUME NEW b \in Login, (\E u \in UserId : CreateUser(b, u)) \/ UpdateAccount(b)
      PROVE  Good
  <2>1. flow[b].account \in Account
    BY <1>0, <1>2 DEF FlowsKnow, FlowKnows, CreateUser, UpdateAccount
  <2> QED  BY <1>2, <2>1, JobsDisturbed DEF CreateUser, UpdateAccount
<1>3. ASSUME NEW c \in Caller, NEW a \in Account, ReadAccount(c, a) PROVE Good
  <2>1. /\ job' \in [Caller -> Job]
        /\ job'[c].account = a /\ job'[c].refresh \in Token
        /\ \A d \in Caller \ {c} :
             /\ job'[d].at = job[d].at /\ job'[d].account = job[d].account
             /\ job'[d].refresh = job[d].refresh
    BY <1>3, JobRead
  <2>2. Known(a)'
    BY <1>3 DEF UserStays, ReadAccount
  <2>3. JobKnows(c)'
    BY <2>1, <2>2 DEF JobKnows
  <2>4. \A d \in Caller : JobKnows(d)'
    BY <2>1, <2>3, JobStays
  <2> QED  BY <2>1, <2>4 DEF JobsKnow
<1>4. ASSUME NEW c \in Caller, Refresh(c) PROVE Good
  <2>1. Busy(c)
    BY <1>4 DEF Refresh, Busy
  <2>2. PICK n \in Token : job' = [job EXCEPT ![c].at = "store", ![c].refresh = n]
    BY <1>4 DEF Refresh
  <2> QED  BY <2>1, <2>2, JobMoves
<1>5. ASSUME NEW c \in Caller, Refuse(c) PROVE Good
  <2>1. Busy(c)
    BY <1>5 DEF Refuse, Busy
  <2>2. job[c].refresh \in Token
    BY <1>0, <2>1 DEF JobsKnow, JobKnows
  <2>3. job' = [job EXCEPT ![c].at = "lock", ![c].refresh = job[c].refresh]
    <3> DEFINE j == [job[c] EXCEPT !.at = "lock"]
               k == [job[c] EXCEPT !.at = "lock", !.refresh = job[c].refresh]
    <3>1. job[c] \in Job
      BY <1>0, JobFacts
    <3>2. j = k
      BY <3>1 DEF Job
    <3>3. job' = [job EXCEPT ![c] = j]
      BY <1>5 DEF Refuse
    <3>4. job' = [job EXCEPT ![c] = k]
      BY <3>2, <3>3
    <3> QED  BY <3>4
  <2> QED  BY <2>1, <2>2, <2>3, JobMoves
<1>6. ASSUME NEW c \in Caller, LoseAnswer(c) \/ GiveUp(c) \/ StoreTokens(c) \/ Lock(c)
      PROVE  Good
  BY <1>6, JobsEnd DEF LoseAnswer, GiveUp, StoreTokens, Lock
<1> QED
  BY <1>1, <1>2, <1>3, <1>4, <1>5, <1>6
  DEF Next, vars, Spotify, LogIn, AccessToken, Revoke, Expire, ExchangeCode, FindAccount,
      CreateSession, Fail, Logout


LEMMA BaseInit == Init => Base
<1> SUFFICES ASSUME Init PROVE Base
  OBVIOUS
<1>1. NoFlow \in Flow /\ NoFlow.at = "begin"
  BY AccountConstants DEF NoFlow, Flow
<1>2. NoJob \in Job /\ NoJob.at = "idle"
  BY AccountConstants DEF NoJob, Job
<1>3. \A b \in Login : flow[b] = NoFlow
  BY DEF Init
<1>4. \A c \in Caller : job[c] = NoJob
  BY DEF Init
<1>5. TypeOK
  BY <1>1, <1>2, AccountConstants DEF Init, TypeOK
<1>6. FlowsKnow
  BY <1>1, <1>3 DEF FlowsKnow, FlowKnows
<1>7. JobsKnow
  BY <1>2, <1>4 DEF JobsKnow, JobKnows, Busy
<1> QED  BY <1>5, <1>6, <1>7 DEF Base

LEMMA BaseNext == Base /\ [Next]_vars => Base'
<1> SUFFICES ASSUME Base, [Next]_vars PROVE Base'
  OBVIOUS
<1>0. TypeOK /\ FlowsKnow
  BY DEF Base
<1>1. accounts' \in [Account -> Row \cup {NoRow}] /\ UserStays
  BY RowsNext
<1>2. TokensGrow
  BY TokensNext
<1>3. flow' \in [Login -> Flow] /\ FlowsKnow'
  BY <1>1, FlowsNext
<1>4. job' \in [Caller -> Job] /\ JobsKnow'
  BY <1>1, JobsNext
<1>5. issued' \in 0..MaxTokens /\ live' \subseteq [account : Account, token : Token]
  BY <1>0, <1>2, AccountConstants DEF TypeOK, TokensGrow
<1>6. users' \subseteq UserId
  <2>1. CASE UNCHANGED users
    BY <1>0, <2>1 DEF TypeOK
  <2>2. ASSUME NEW b \in Login, NEW u \in UserId, CreateUser(b, u) PROVE users' \subseteq UserId
    BY <1>0, <2>2 DEF TypeOK, CreateUser
  <2> QED
    BY <2>1, <2>2
    DEF Next, vars, Spotify, LogIn, AccessToken, Revoke, Expire, ExchangeCode, FindAccount,
        UpdateAccount, CreateSession, Fail, Logout, ReadAccount, Refresh, LoseAnswer,
        Refuse, GiveUp, StoreTokens, Lock
<1>7. sessions' \in [Login -> UserId \cup {None}]
  <2>1. CASE UNCHANGED sessions
    BY <1>0, <2>1 DEF TypeOK
  <2>2. ASSUME NEW b \in Login, CreateSession(b) \/ Logout(b)
        PROVE  sessions' \in [Login -> UserId \cup {None}]
    BY <1>0, <2>2, FlowFacts DEF TypeOK, CreateSession, Logout
  <2> QED
    BY <2>1, <2>2
    DEF Next, vars, Spotify, LogIn, AccessToken, Revoke, Expire, ExchangeCode, FindAccount,
        CreateUser, UpdateAccount, Fail, ReadAccount, Refresh, LoseAnswer, Refuse, GiveUp,
        StoreTokens, Lock
<1> QED  BY <1>1, <1>3, <1>4, <1>5, <1>6, <1>7 DEF Base, TypeOK

\* Whatever logins, refreshes, revocations and failures overlap, every variable stays in
\* its set: in particular a job and a login always have a token to write.
THEOREM TypeCorrect == Spec => []TypeOK
<1>1. Base => TypeOK
  BY DEF Base
<1> QED  BY <1>1, BaseInit, BaseNext, PTL DEF Spec

LEMMA BaseAlways == Spec => []Base
BY BaseInit, BaseNext, PTL DEF Spec

\* A row of external_accounts is never deleted and never changes hands.
THEOREM AccountsKeepTheirUser == Spec => [][UserStays]_vars
<1>1. Base /\ [Next]_vars => [UserStays]_vars
  BY RowsNext
<1> QED  BY <1>1, BaseAlways, PTL DEF Spec

-----------------------------------------------------------------------------
(* Every user has one account and every account its own user. *)

LoginsAreUsers == \A b \in Login : flow[b].at = "session" => flow[b].user \in users

OwnersInv == UsersHaveAccounts /\ LoginsAreUsers

\* The account has a row, and it is the user's.
Owned(a, u) == Known(a) /\ accounts[a].user = u

OneEach ==
    /\ \A u \in UserId : u \in users <=> \E a \in Account : Owned(a, u)
    /\ \A a, b \in Account, u \in UserId : Owned(a, u) /\ Owned(b, u) => a = b
    /\ \A b \in Login : sessions[b] # None => sessions[b] \in users

LEMMA OwnersMeans == TypeOK => (UsersHaveAccounts <=> OneEach)
<1> SUFFICES ASSUME TypeOK PROVE UsersHaveAccounts <=> OneEach
  OBVIOUS
<1>1. users \subseteq UserId
  BY DEF TypeOK
<1>2. \A a \in Account : Known(a) => accounts[a].user \in UserId
  BY RowFacts
<1>3. {accounts[a].user : a \in {x \in Account : Known(x)}} =
        {u \in UserId : \E a \in Account : Owned(a, u)}
  BY <1>2 DEF Owned
<1>4. users = {u \in UserId : \E a \in Account : Owned(a, u)}
        <=> \A u \in UserId : u \in users <=> \E a \in Account : Owned(a, u)
  BY <1>1
<1>5. (\A a, b \in Account : Known(a) /\ Known(b) /\ accounts[a].user = accounts[b].user
                             => a = b)
        <=> \A a, b \in Account, u \in UserId : Owned(a, u) /\ Owned(b, u) => a = b
  BY <1>2 DEF Owned
<1> QED  BY <1>3, <1>4, <1>5 DEF UsersHaveAccounts, OneEach


LEMMA OwnersInit == Init => OwnersInv
<1> SUFFICES ASSUME Init PROVE OwnersInv
  OBVIOUS
<1>1. \A b \in Login : sessions[b] = None /\ flow[b].at = "begin"
  BY DEF Init, NoFlow
<1>2. users = {} /\ \A a \in Account : ~Known(a)
  BY DEF Init, Known
<1> QED  BY <1>1, <1>2 DEF OwnersInv, UsersHaveAccounts, LoginsAreUsers

\* Only the creation of a user gives an account a row; every other write is to a row.
LEMMA RowRewritten ==
    ASSUME Base, NEW a \in Account, Known(a), NEW r \in Row,
           accounts' = [accounts EXCEPT ![a] = r], r.user = accounts[a].user
    PROVE  \A x \in Account, u \in UserId : Owned(x, u)' <=> Owned(x, u)
<1>1. /\ accounts'[a] = r /\ Known(a)'
      /\ \A x \in Account \ {a} : accounts'[x] = accounts[x]
  BY RowMoves DEF Base
<1>2. ASSUME NEW x \in Account, NEW u \in UserId PROVE Owned(x, u)' <=> Owned(x, u)
  <2>1. CASE x = a
    BY <1>1, <2>1 DEF Owned
  <2>2. CASE x # a
    <3>1. accounts'[x] = accounts[x]
      BY <1>1, <2>2
    <3> QED  BY <3>1 DEF Owned, Known
  <2> QED  BY <2>1, <2>2
<1> QED  BY <1>2

LEMMA OwnersStay ==
    ASSUME Base, [Next]_vars, ~(\E b \in Login, u \in UserId : CreateUser(b, u))
    PROVE  \A x \in Account, u \in UserId : Owned(x, u)' <=> Owned(x, u)
<1> DEFINE Good == \A x \in Account, u \in UserId : Owned(x, u)' <=> Owned(x, u)
<1>0. TypeOK
  BY DEF Base
<1>1. CASE UNCHANGED accounts
  BY <1>1 DEF Owned, Known
<1>2. ASSUME NEW a \in Account, Expire(a) PROVE Good
  <2>1. PICK r \in Row : accounts' = [accounts EXCEPT ![a] = r] /\ r.user = accounts[a].user
    BY <1>0, <1>2, ExpireRow
  <2> QED  BY <1>2, <2>1, RowRewritten DEF Expire
<1>3. ASSUME NEW b \in Login, UpdateAccount(b) PROVE Good
  <2>1. PICK r \in Row : /\ accounts' = [accounts EXCEPT ![flow[b].account] = r]
                         /\ r.user = accounts[flow[b].account].user
    BY <1>3, UpdateRow
  <2>2. flow[b].account \in Account /\ Known(flow[b].account)
    BY <1>3 DEF Base, FlowsKnow, FlowKnows, UpdateAccount
  <2> QED  BY <2>1, <2>2, RowRewritten
<1>4. ASSUME NEW c \in Caller, StoreTokens(c) \/ Lock(c) PROVE Good
  <2>1. PICK r \in Row : /\ accounts' = [accounts EXCEPT ![job[c].account] = r]
                         /\ r.user = accounts[job[c].account].user
    BY <1>4, StoreRow, LockRow
  <2>2. job[c].account \in Account /\ Known(job[c].account)
    BY <1>4 DEF Base, JobsKnow, JobKnows, Busy, StoreTokens, Lock
  <2> QED  BY <2>1, <2>2, RowRewritten
<1> QED
  BY <1>1, <1>2, <1>3, <1>4
  DEF Next, vars, Spotify, LogIn, AccessToken, Revoke, ExchangeCode, FindAccount,
      CreateSession, Fail, Logout, ReadAccount, Refresh, LoseAnswer, Refuse, GiveUp

\* A login that has its session to write is of a user.
LEMMA LoginsAreUsersNext ==
    ASSUME Base, OwnersInv, [Next]_vars
    PROVE  LoginsAreUsers'
<1>0. TypeOK /\ FlowsKnow /\ LoginsAreUsers
  BY DEF Base, OwnersInv
<1>1. users \subseteq users'
  BY DEF Next, vars, Spotify, LogIn, AccessToken, Revoke, Expire, ExchangeCode, FindAccount,
         CreateUser, UpdateAccount, CreateSession, Fail, Logout, ReadAccount, Refresh,
         LoseAnswer, Refuse, GiveUp, StoreTokens, Lock
<1>2. ASSUME NEW b \in Login, flow'[b].at = "session", flow'[b] # flow[b]
      PROVE  flow'[b].user \in users'
  <2>1. ASSUME NEW x \in Login, NEW f \in Flow, Move(x, f) PROVE x = b /\ flow'[b] = f
    BY <1>0, <1>2, <2>1, FlowMoves
  <2>2. ASSUME NEW x \in Login, NEW u \in UserId, CreateUser(x, u)
        PROVE  flow'[b].user \in users'
    <3> DEFINE f == [flow[x] EXCEPT !.at = "session", !.user = u]
    <3>1. f \in Flow /\ f.user = u
      BY <1>0, FlowFacts DEF Flow
    <3>2. Move(x, f) /\ u \in users'
      BY <2>2 DEF CreateUser
    <3> HIDE DEF f
    <3> QED  BY <2>1, <3>1, <3>2
  <2>3. ASSUME NEW x \in Login, UpdateAccount(x) PROVE flow'[b].user \in users'
    <3> DEFINE f == [flow[x] EXCEPT !.at = "session"]
    <3>1. f \in Flow /\ f.user = flow[x].user
      BY <1>0, FlowFacts DEF Flow
    <3>2. Move(x, f)
      BY <2>3 DEF UpdateAccount
    <3>3. /\ flow[x].account \in Account /\ Known(flow[x].account)
          /\ flow[x].user = accounts[flow[x].account].user
      BY <1>0, <2>3 DEF FlowsKnow, FlowKnows, UpdateAccount
    <3>4. flow[x].user \in users
      BY <3>3 DEF OwnersInv, UsersHaveAccounts
    <3> HIDE DEF f
    <3> QED  BY <1>1, <2>1, <3>1, <3>2, <3>4
  <2>4. ASSUME NEW x \in Login, NEW f \in Flow, Move(x, f), f.at # "session" PROVE FALSE
    BY <1>2, <2>1, <2>4
  <2>5. ASSUME NEW x \in Login, NEW a \in Account, ExchangeCode(x, a) PROVE FALSE
    <3>1. PICK t \in Token : Move(x, [NoFlow EXCEPT !.at = "find", !.account = a, !.refresh = t])
      BY <2>5 DEF ExchangeCode
    <3>2. t \in 0..MaxTokens
      BY AccountConstants DEF Token
    <3> DEFINE f == [NoFlow EXCEPT !.at = "find", !.account = a, !.refresh = t]
    <3>3. f \in Flow /\ f.at # "session"
      BY <3>2 DEF NoFlow, Flow
    <3> HIDE DEF f
    <3> QED  BY <2>4, <3>1, <3>3 DEF f
  <2>6. ASSUME NEW x \in Login, Fail(x) PROVE FALSE
    <3> DEFINE f == [NoFlow EXCEPT !.at = "end"]
    <3>1. f \in Flow /\ f.at # "session"
      BY AccountConstants DEF NoFlow, Flow
    <3>2. Move(x, f)
      BY <2>6 DEF Fail
    <3> HIDE DEF f
    <3> QED  BY <2>4, <3>1, <3>2
  <2>7. ASSUME NEW x \in Login, CreateSession(x) PROVE FALSE
    <3> DEFINE f == [flow[x] EXCEPT !.at = "end"]
    <3>1. f \in Flow /\ f.at # "session"
      BY <1>0, FlowFacts DEF Flow
    <3>2. Move(x, f)
      BY <2>7 DEF CreateSession
    <3> HIDE DEF f
    <3> QED  BY <2>4, <3>1, <3>2
  <2>8. ASSUME NEW x \in Login, FindAccount(x) PROVE FALSE
    <3>0. flow[x] \in Flow /\ flow[x].account \in Account
      BY <1>0, <2>8, FlowFacts DEF FlowsKnow, FlowKnows, FindAccount
    <3> DEFINE a == flow[x].account
               f == [flow[x] EXCEPT !.at = "update", !.user = accounts[a].user]
               g == [flow[x] EXCEPT !.at = "create"]
    <3>1. CASE Known(a)
      <4>1. accounts[a].user \in UserId
        BY <1>0, <3>0, <3>1, RowFacts
      <4>2. f \in Flow /\ f.at # "session"
        BY <3>0, <4>1 DEF Flow
      <4>3. Move(x, f)
        BY <2>8, <3>1 DEF FindAccount
      <4> HIDE DEF f
      <4> QED  BY <2>4, <4>2, <4>3
    <3>2. CASE ~Known(a)
      <4>2. g \in Flow /\ g.at # "session"
        BY <3>0 DEF Flow
      <4>3. Move(x, g)
        BY <2>8, <3>2 DEF FindAccount
      <4> HIDE DEF g
      <4> QED  BY <2>4, <4>2, <4>3
    <3> QED  BY <3>1, <3>2
  <2> QED
    BY <1>2, <2>2, <2>3, <2>5, <2>6, <2>7, <2>8
    DEF Next, vars, Spotify, LogIn, AccessToken, Revoke, Expire, Logout, ReadAccount,
        Refresh, LoseAnswer, Refuse, GiveUp, StoreTokens, Lock
<1>3. \A b \in Login : flow'[b].at = "session" => flow'[b].user \in users'
  BY <1>0, <1>1, <1>2 DEF LoginsAreUsers
<1> QED  BY <1>3 DEF LoginsAreUsers

LEMMA OwnersNext == Base /\ OwnersInv /\ [Next]_vars => OwnersInv'
<1> SUFFICES ASSUME Base, OwnersInv, [Next]_vars PROVE OwnersInv'
  OBVIOUS
<1>0. TypeOK /\ TypeOK' /\ LoginsAreUsers
  BY BaseNext DEF Base, OwnersInv
<1>1. /\ \A u \in UserId : u \in users <=> \E a \in Account : Owned(a, u)
      /\ \A a, b \in Account, u \in UserId : Owned(a, u) /\ Owned(b, u) => a = b
      /\ \A b \in Login : sessions[b] # None => sessions[b] \in users
  BY <1>0, OwnersMeans DEF OwnersInv, OneEach
<1>2. \A b \in Login : sessions'[b] # None => sessions'[b] \in users'
  <2>1. CASE UNCHANGED sessions /\ users \subseteq users'
    BY <1>1, <2>1
  <2>2. ASSUME NEW x \in Login, CreateSession(x) \/ Logout(x)
        PROVE  \A b \in Login : sessions'[b] # None => sessions'[b] \in users'
    BY <1>0, <1>1, <2>2 DEF CreateSession, Logout, LoginsAreUsers, TypeOK
  <2> QED
    BY <2>1, <2>2
    DEF Next, vars, Spotify, LogIn, AccessToken, Revoke, Expire, ExchangeCode, FindAccount,
        CreateUser, UpdateAccount, Fail, ReadAccount, Refresh, LoseAnswer, Refuse, GiveUp,
        StoreTokens, Lock
<1>3. /\ \A u \in UserId : u \in users' <=> \E a \in Account : Owned(a, u)'
      /\ \A a, b \in Account, u \in UserId : Owned(a, u)' /\ Owned(b, u)' => a = b
  <2>1. ASSUME NEW l \in Login, NEW u \in UserId, CreateUser(l, u)
        PROVE  /\ \A v \in UserId : v \in users' <=> \E a \in Account : Owned(a, v)'
               /\ \A a, b \in Account, v \in UserId : Owned(a, v)' /\ Owned(b, v)' => a = b
    <3>1. PICK a \in Account : a = flow[l].account
      BY <2>1 DEF Base, FlowsKnow, FlowKnows, CreateUser
    <3>2. PICK r \in Row : accounts' = [accounts EXCEPT ![a] = r] /\ r.user = u
      BY <2>1, <3>1, CreateRow
    <3>3. /\ accounts'[a] = r /\ Known(a)'
          /\ \A x \in Account \ {a} : accounts'[x] = accounts[x]
      BY <1>0, <3>2, RowMoves
    <3>4. users' = users \cup {u} /\ u \notin users /\ ~Known(a)
      BY <2>1, <3>1 DEF CreateUser
    <3>5. \A x \in Account \ {a}, v \in UserId : Owned(x, v)' <=> Owned(x, v)
      BY <3>3 DEF Owned, Known
    <3>6. \A v \in UserId : (Owned(a, v)' <=> v = u) /\ ~Owned(a, v)
      BY <3>2, <3>3, <3>4 DEF Owned
    <3> QED  BY <1>1, <3>4, <3>5, <3>6
  <2>2. CASE ~(\E l \in Login, u \in UserId : CreateUser(l, u))
    <3>1. users' = users
      BY <2>2
      DEF Next, vars, Spotify, LogIn, AccessToken, Revoke, Expire, ExchangeCode, FindAccount,
          UpdateAccount, CreateSession, Fail, Logout, ReadAccount, Refresh, LoseAnswer,
          Refuse, GiveUp, StoreTokens, Lock
    <3>2. \A x \in Account, u \in UserId : Owned(x, u)' <=> Owned(x, u)
      BY <2>2, OwnersStay
    <3> QED  BY <1>1, <3>1, <3>2
  <2> QED  BY <2>1, <2>2
<1>4. LoginsAreUsers'
  BY LoginsAreUsersNext
<1>5. TypeOK' => (UsersHaveAccounts' <=> OneEach')
  BY OwnersMeans, PTL
<1> QED  BY <1>0, <1>2, <1>3, <1>4, <1>5 DEF OwnersInv, OneEach

\* However first logins of an account overlap, fail or are abandoned, each user of the
\* store has exactly one account, and no session is of a user without one.
THEOREM OwnersCorrect == Spec => []UsersHaveAccounts
<1>1. OwnersInv => UsersHaveAccounts
  BY DEF OwnersInv
<1> QED  BY <1>1, BaseAlways, OwnersInit, OwnersNext, PTL DEF Spec


-----------------------------------------------------------------------------
(* An account locked by a refresh that was alone has a dead token. *)

\* Every token anybody has was issued, so that a new one is nobody's.
OnlyIssued ==
    /\ \A t \in live : t.token <= issued
    /\ \A a \in Account : Known(a) => accounts[a].refresh <= issued
    /\ \A b \in Login : flow[b].refresh <= issued
    /\ \A c \in Caller : job[c].refresh <= issued

\* A refresh whose alone mark stands has had its account to itself: nobody else is
\* refreshing it, and its row has the token the refresh read.
AloneIsAlone ==
    \A c \in Caller : Busy(c) /\ job[c].alone =>
        /\ \A d \in Caller : Busy(d) /\ job[d].account = job[c].account => d = c
        /\ job[c].at \in {"refresh", "lock"}
              => accounts[job[c].account].refresh = job[c].refresh

\* No refresh of an account goes on once one that was alone has locked it.
LockedIsIdle ==
    \A a \in Account : Known(a) /\ accounts[a].locked /\ accounts[a].alone
        => \A c \in Caller : Busy(c) => job[c].account # a

RefusedIsDead ==
    \A c \in Caller : job[c].at = "lock" => ~Honours(job[c].account, job[c].refresh)

LockedInv == OnlyIssued /\ AloneIsAlone /\ LockedIsIdle /\ RefusedIsDead /\ LockedIsDead

LEMMA LockedInit == Init => LockedInv
<1> SUFFICES ASSUME Init PROVE LockedInv
  OBVIOUS
<1>1. \A c \in Caller : job[c].at = "idle" /\ job[c].refresh = 0
  BY DEF Init, NoJob
<1>2. live = {} /\ issued = 0 /\ \A a \in Account : ~Known(a)
  BY DEF Init, Known
<1>3. \A b \in Login : flow[b].refresh = 0
  BY DEF Init, NoFlow
<1> QED
  BY <1>1, <1>2, <1>3
  DEF LockedInv, OnlyIssued, AloneIsAlone, LockedIsIdle, RefusedIsDead, LockedIsDead, Busy

\* Once dead, a token that has been issued stays dead.
DeadStays ==
    \A a \in Account, t \in Token : t <= issued /\ ~Honours(a, t) => ~Honours(a, t)'

LEMMA TokensDie ==
    ASSUME TypeOK, TokensGrow
    PROVE  DeadStays
<1> SUFFICES ASSUME NEW a \in Account, NEW t \in Token, t <= issued, Honours(a, t)'
             PROVE  Honours(a, t)
  BY DEF DeadStays
<1>1. [account |-> a, token |-> t] \in live'
  BY DEF Honours
<1>2. issued \in Nat /\ issued' \in Nat /\ t \in Nat
  BY AccountConstants DEF TypeOK, TokensGrow, Token
<1>3. [account |-> a, token |-> t].token = t
  OBVIOUS
<1> QED  BY <1>1, <1>2, <1>3 DEF TokensGrow, Honours


\* The tokens are numbers, and the number issued only grows.
LEMMA Numbers ==
    ASSUME Base, TokensGrow
    PROVE  /\ issued \in Nat /\ issued' \in Nat /\ issued <= issued'
           /\ \A t \in live : t.token \in Nat
           /\ \A a \in Account : Known(a) => accounts[a].refresh \in Nat
           /\ \A b \in Login : flow[b].refresh \in Nat
           /\ \A c \in Caller : job[c].refresh \in Nat
<1>0. TypeOK
  BY DEF Base
<1>1. issued \in Nat /\ issued' \in Nat /\ issued <= issued'
  BY <1>0, AccountConstants DEF TypeOK, TokensGrow
<1>2. \A t \in Token : t \in Nat
  BY AccountConstants DEF Token
<1>3. \A t \in 0..MaxTokens : t \in Nat
  BY AccountConstants
<1>4. \A t \in live : t.token \in Nat
  BY <1>0, <1>2 DEF TypeOK
<1>5. \A a \in Account : Known(a) => accounts[a].refresh \in Nat
  BY <1>0, <1>2, RowFacts
<1>6. \A b \in Login : flow[b].refresh \in Nat
  BY <1>0, <1>3, FlowFacts
<1>7. \A c \in Caller : job[c].refresh \in Nat
  BY <1>0, <1>3, JobFacts
<1> QED  BY <1>1, <1>4, <1>5, <1>6, <1>7

\* OnlyIssued, of Spotify's tokens and of the logins, whose tokens nobody else moves.
LiveIssued == \A t \in live : t.token <= issued
FlowsIssued == \A b \in Login : flow[b].refresh <= issued

LEMMA LiveIssuedNext ==
    ASSUME Base, LockedInv, TokensGrow
    PROVE  LiveIssued'
<1>1. ASSUME NEW t \in live' PROVE t.token <= issued'
  <2>1. CASE t.token = issued'
    BY <2>1, Numbers
  <2>2. CASE t \in live
    <3>1. t.token <= issued /\ t.token \in Nat
      BY <2>2, Numbers DEF LockedInv, OnlyIssued
    <3>2. issued \in Nat /\ issued' \in Nat /\ issued <= issued'
      BY Numbers
    <3> QED  BY <3>1, <3>2
  <2> QED  BY <2>1, <2>2 DEF TokensGrow
<1> QED  BY <1>1 DEF LiveIssued

LEMMA FlowsIssuedNext ==
    ASSUME Base, LockedInv, TokensGrow, [Next]_vars
    PROVE  FlowsIssued'
<1>0. TypeOK
  BY DEF Base
<1>1. \A b \in Login : flow[b].refresh <= issued'
  <2>1. \A b \in Login : flow[b].refresh <= issued /\ flow[b].refresh \in Nat
    BY Numbers DEF LockedInv, OnlyIssued
  <2>2. issued \in Nat /\ issued' \in Nat /\ issued <= issued'
    BY Numbers
  <2> QED  BY <2>1, <2>2
<1>2. ASSUME NEW x \in Login, NEW f \in Flow, Move(x, f), f.refresh <= issued'
      PROVE  FlowsIssued'
  <2>1. flow'[x] = f /\ \A b \in Login \ {x} : flow'[b] = flow[b]
    BY <1>0, <1>2, FlowMoves
  <2> QED  BY <1>1, <1>2, <2>1 DEF FlowsIssued
<1>3. ASSUME NEW x \in Login, NEW f \in Flow, Move(x, f), f.refresh = flow[x].refresh
      PROVE  FlowsIssued'
  <2>1. f.refresh <= issued'
    BY <1>1, <1>3
  <2> QED  BY <1>2, <1>3, <2>1
<1>4. CASE UNCHANGED flow
  BY <1>1, <1>4 DEF FlowsIssued
<1>5. ASSUME NEW x \in Login, NEW a \in Account, ExchangeCode(x, a) PROVE FlowsIssued'
  <2>1. PICK t \in Token : /\ Move(x, [NoFlow EXCEPT !.at = "find", !.account = a, !.refresh = t])
                           /\ issued' = t
    BY <1>5 DEF ExchangeCode, Issue
  <2> DEFINE f == [NoFlow EXCEPT !.at = "find", !.account = a, !.refresh = t]
  <2>2. t \in 0..MaxTokens /\ t <= t
    BY AccountConstants DEF Token
  <2>3. f \in Flow /\ f.refresh = t
    BY <2>2 DEF NoFlow, Flow
  <2> HIDE DEF f
  <2>4. f.refresh <= issued'
    BY <2>1, <2>2, <2>3
  <2>5. Move(x, f)
    BY <2>1 DEF f
  <2> QED  BY <1>2, <2>3, <2>4, <2>5
<1>6. ASSUME NEW x \in Login, Fail(x) PROVE FlowsIssued'
  <2> DEFINE f == [NoFlow EXCEPT !.at = "end"]
  <2>1. f \in Flow /\ f.refresh = 0
    BY AccountConstants DEF NoFlow, Flow
  <2>2. Move(x, f)
    BY <1>6 DEF Fail
  <2> HIDE DEF f
  <2>3. issued' \in Nat
    BY Numbers
  <2>4. f.refresh <= issued'
    BY <2>1, <2>3
  <2> QED  BY <1>2, <2>1, <2>2, <2>4
<1>7. ASSUME NEW x \in Login, NEW p \in {"create", "session", "end"},
             Move(x, [flow[x] EXCEPT !.at = p])
      PROVE  FlowsIssued'
  <2> DEFINE f == [flow[x] EXCEPT !.at = p]
  <2>1. f \in Flow /\ f.refresh = flow[x].refresh
    BY <1>0, FlowFacts DEF Flow
  <2> HIDE DEF f
  <2> QED  BY <1>3, <1>7, <2>1 DEF f
<1>8. ASSUME NEW x \in Login, NEW p \in {"update", "session"}, NEW u \in UserId,
             Move(x, [flow[x] EXCEPT !.at = p, !.user = u])
      PROVE  FlowsIssued'
  <2> DEFINE f == [flow[x] EXCEPT !.at = p, !.user = u]
  <2>1. f \in Flow /\ f.refresh = flow[x].refresh
    BY <1>0, FlowFacts DEF Flow
  <2> HIDE DEF f
  <2> QED  BY <1>3, <1>8, <2>1 DEF f
<1>9. ASSUME NEW x \in Login, FindAccount(x) PROVE FlowsIssued'
  <2>1. CASE Known(flow[x].account)
    <3>1. flow[x].account \in Account
      BY <1>9 DEF Base, FlowsKnow, FlowKnows, FindAccount
    <3>2. accounts[flow[x].account].user \in UserId
      BY <1>0, <2>1, <3>1, RowFacts
    <3>3. Move(x, [flow[x] EXCEPT !.at = "update", !.user = accounts[flow[x].account].user])
      BY <1>9, <2>1 DEF FindAccount
    <3> QED  BY <1>8, <3>2, <3>3
  <2>2. CASE ~Known(flow[x].account)
    BY <1>7, <1>9, <2>2 DEF FindAccount
  <2> QED  BY <2>1, <2>2
<1>10. ASSUME NEW x \in Login, (\E u \in UserId : CreateUser(x, u)) \/ UpdateAccount(x)
                                \/ CreateSession(x)
       PROVE  FlowsIssued'
  BY <1>7, <1>8, <1>10 DEF CreateUser, UpdateAccount, CreateSession
<1> QED
  BY <1>4, <1>5, <1>6, <1>9, <1>10
  DEF Next, vars, Spotify, LogIn, AccessToken, Revoke, Expire, Logout, ReadAccount,
      Refresh, LoseAnswer, Refuse, GiveUp, StoreTokens, Lock


\* The rest of the invariant, of the rows and the jobs.
RowsIssued == \A a \in Account : Known(a) => accounts[a].refresh <= issued
JobsIssued == \A c \in Caller : job[c].refresh <= issued
Held == /\ RowsIssued /\ JobsIssued /\ AloneIsAlone
        /\ LockedIsIdle /\ RefusedIsDead /\ LockedIsDead

\* A step leaves of a row all that Held speaks of.
Kept(a) ==
    /\ Known(a)' => Known(a)
    /\ accounts'[a].refresh = accounts[a].refresh
    /\ accounts'[a].locked = accounts[a].locked
    /\ accounts'[a].alone = accounts[a].alone

LEMMA HeldBefore ==
    ASSUME Base, LockedInv, TokensGrow
    PROVE  /\ Held /\ DeadStays
           /\ \A a \in Account : Known(a) => accounts[a].refresh <= issued'
           /\ \A c \in Caller : job[c].refresh <= issued'
           /\ \A a \in Account : Known(a) => accounts[a].refresh \in Token
           /\ \A c \in Caller : Busy(c) => job[c].account \in Account /\ job[c].refresh \in Token
<1>0. TypeOK
  BY DEF Base
<1>1. Held
  BY DEF LockedInv, OnlyIssued, Held, RowsIssued, JobsIssued
<1>2. DeadStays
  BY <1>0, TokensDie
<1>3. issued \in Nat /\ issued' \in Nat /\ issued <= issued'
  BY Numbers
<1>4. ASSUME NEW a \in Account, Known(a) PROVE accounts[a].refresh <= issued'
  <2>1. accounts[a].refresh \in Nat /\ accounts[a].refresh <= issued
    BY <1>1, <1>4, Numbers DEF Held, RowsIssued
  <2> QED  BY <1>3, <2>1
<1>5. ASSUME NEW c \in Caller PROVE job[c].refresh <= issued'
  <2>1. job[c].refresh \in Nat /\ job[c].refresh <= issued
    BY <1>1, Numbers DEF Held, JobsIssued
  <2> QED  BY <1>3, <2>1
<1>6. \A a \in Account : Known(a) => accounts[a].refresh \in Token
  BY <1>0, RowFacts
<1>7. \A c \in Caller : Busy(c) => job[c].account \in Account /\ job[c].refresh \in Token
  BY DEF Base, JobsKnow, JobKnows
<1> QED  BY <1>1, <1>2, <1>4, <1>5, <1>6, <1>7

\* Nobody moves but jobs that end.
LEMMA HeldStays ==
    ASSUME Base, LockedInv, TokensGrow, \A a \in Account : Kept(a),
           \A c \in Caller : job'[c] = job[c] \/ (job'[c].at = "idle" /\ job'[c].refresh = 0)
    PROVE  Held'
<1>1. /\ Held /\ DeadStays
      /\ \A a \in Account : Known(a) => accounts[a].refresh <= issued'
      /\ \A c \in Caller : job[c].refresh <= issued'
      /\ \A a \in Account : Known(a) => accounts[a].refresh \in Token
      /\ \A c \in Caller : Busy(c) => job[c].account \in Account /\ job[c].refresh \in Token
  BY HeldBefore
<1>2. issued' \in Nat
  BY Numbers
<1>3. \A c \in Caller : Busy(c)' => job'[c] = job[c] /\ Busy(c)
  BY DEF Busy
<1>4. RowsIssued'
  BY <1>1 DEF RowsIssued, Kept
<1>5. JobsIssued'
  <2>1. ASSUME NEW c \in Caller PROVE job'[c].refresh <= issued'
    BY <1>1, <1>2
  <2> QED  BY <2>1 DEF JobsIssued
<1>6. AloneIsAlone'
  <2>1. ASSUME NEW c \in Caller, Busy(c)', job'[c].alone
        PROVE  /\ \A d \in Caller : Busy(d)' /\ job'[d].account = job'[c].account => d = c
               /\ job'[c].at \in {"refresh", "lock"}
                     => accounts'[job'[c].account].refresh = job'[c].refresh
    <3>1. job'[c] = job[c] /\ Busy(c) /\ job[c].account \in Account
      BY <1>1, <1>3, <2>1
    <3>2. /\ \A d \in Caller : Busy(d) /\ job[d].account = job[c].account => d = c
          /\ job[c].at \in {"refresh", "lock"}
                => accounts[job[c].account].refresh = job[c].refresh
      BY <1>1, <2>1, <3>1 DEF Held, AloneIsAlone
    <3> QED  BY <1>3, <3>1, <3>2 DEF Kept
  <2> QED  BY <2>1 DEF AloneIsAlone
<1>7. LockedIsIdle'
  BY <1>1, <1>3 DEF Held, LockedIsIdle, Kept
<1>8. RefusedIsDead'
  <2>1. ASSUME NEW c \in Caller, job'[c].at = "lock"
        PROVE  ~Honours(job[c].account, job[c].refresh)' /\ job'[c] = job[c]
    <3>1. job'[c] = job[c] /\ Busy(c)
      BY <2>1 DEF Busy
    <3>2. PICK a \in Account, t \in Token : a = job[c].account /\ t = job[c].refresh
      BY <1>1, <3>1
    <3>3. ~Honours(a, t) /\ t <= issued
      BY <1>1, <2>1, <3>1, <3>2 DEF Held, RefusedIsDead, JobsIssued
    <3>4. ~Honours(a, t)'
      BY <1>1, <3>3 DEF DeadStays
    <3> QED  BY <3>1, <3>2, <3>4 DEF Honours
  <2> QED  BY <2>1 DEF RefusedIsDead
<1>9. LockedIsDead'
  <2>1. ASSUME NEW a \in Account, Known(a)', accounts'[a].locked, accounts'[a].alone
        PROVE  ~Honours(a, accounts[a].refresh)'
    <3>1. Known(a) /\ accounts[a].locked /\ accounts[a].alone
      BY <2>1 DEF Kept
    <3>2. PICK t \in Token : t = accounts[a].refresh
      BY <1>1, <3>1
    <3>3. ~Honours(a, t) /\ t <= issued
      BY <1>1, <3>1, <3>2 DEF Held, LockedIsDead, RowsIssued
    <3>4. ~Honours(a, t)'
      BY <1>1, <3>3 DEF DeadStays
    <3>5. accounts'[a].refresh = t
      BY <3>2 DEF Kept
    <3> QED  BY <3>4, <3>5 DEF Honours
  <2> QED  BY <2>1 DEF LockedIsDead, Kept
<1> QED  BY <1>4, <1>5, <1>6, <1>7, <1>8, <1>9 DEF Held


LEMMA RefusalKeepsHeld ==
    ASSUME Base, LockedInv, NEW c \in Caller, Refuse(c), TokensGrow, UserStays
    PROVE  Held'
<1>0. TypeOK /\ Busy(c) /\ Held
  BY HeldBefore DEF Base, Refuse, Busy
<1>1. /\ job'[c].at = "lock" /\ job'[c].account = job[c].account
      /\ job'[c].refresh = job[c].refresh /\ job'[c].alone = job[c].alone
      /\ \A d \in Caller \ {c} : job'[d] = job[d]
  <2> DEFINE j == [job[c] EXCEPT !.at = "lock"]
  <2>1. /\ j \in Job /\ j.at = "lock" /\ j.account = job[c].account
        /\ j.refresh = job[c].refresh /\ j.alone = job[c].alone
    BY <1>0, JobFacts DEF Job
  <2>2. job' = [job EXCEPT ![c] = j]
    BY DEF Refuse
  <2> HIDE DEF j
  <2>3. job'[c] = j /\ \A d \in Caller \ {c} : job'[d] = job[d]
    BY <1>0, <2>2 DEF TypeOK
  <2> QED  BY <2>1, <2>3
<1>2. UNCHANGED <<issued, live, accounts>> /\ ~Honours(job[c].account, job[c].refresh)
      /\ job[c].at = "refresh"
  BY DEF Refuse
<1>3. \A d \in Caller : /\ Busy(d)' <=> Busy(d)
                        /\ job'[d].account = job[d].account
                        /\ job'[d].refresh = job[d].refresh
                        /\ job'[d].alone = job[d].alone
  BY <1>0, <1>1 DEF Busy
<1>4. RowsIssued' /\ JobsIssued' /\ LockedIsDead' /\ LockedIsIdle'
  BY <1>0, <1>2, <1>3
  DEF Held, RowsIssued, JobsIssued, LockedIsDead, LockedIsIdle, Known, Honours
<1>5. RefusedIsDead'
  <2>1. ASSUME NEW d \in Caller, job'[d].at = "lock"
        PROVE  ~Honours(job[d].account, job[d].refresh)
    BY <1>0, <1>1, <1>2, <2>1 DEF Held, RefusedIsDead
  <2> QED  BY <1>2, <1>3, <2>1 DEF RefusedIsDead, Honours
<1>6. AloneIsAlone'
  <2>1. ASSUME NEW x \in Caller, Busy(x)', job'[x].alone
        PROVE  /\ \A d \in Caller : Busy(d)' /\ job'[d].account = job'[x].account => d = x
               /\ job'[x].at \in {"refresh", "lock"}
                     => accounts'[job'[x].account].refresh = job'[x].refresh
    <3>1. Busy(x) /\ job[x].alone
      BY <1>3, <2>1
    <3>2. /\ \A d \in Caller : Busy(d) /\ job[d].account = job[x].account => d = x
          /\ job[x].at \in {"refresh", "lock"}
                => accounts[job[x].account].refresh = job[x].refresh
      BY <1>0, <3>1 DEF Held, AloneIsAlone
    <3>3. job'[x].at \in {"refresh", "lock"} => job[x].at \in {"refresh", "lock"}
      BY <1>1, <1>2
    <3> QED  BY <1>2, <1>3, <3>2, <3>3
  <2> QED  BY <2>1 DEF AloneIsAlone
<1> QED  BY <1>4, <1>5, <1>6 DEF Held

LEMMA RefreshKeepsHeld ==
    ASSUME Base, LockedInv, NEW c \in Caller, Refresh(c), TokensGrow, UserStays
    PROVE  Held'
<1>0. TypeOK /\ Busy(c) /\ job[c].at = "refresh" /\ UNCHANGED accounts
  BY DEF Base, Refresh, Busy
<1>1. PICK n \in Token : /\ Rotate(job[c].account, job[c].refresh, n)
                         /\ job' = [job EXCEPT ![c].at = "store", ![c].refresh = n]
  BY DEF Refresh
<1>2. /\ job'[c].at = "store" /\ job'[c].account = job[c].account
      /\ job'[c].refresh = n /\ job'[c].alone = job[c].alone
      /\ \A d \in Caller \ {c} : job'[d] = job[d]
  BY <1>0, <1>1, JobMoves
<1>3. /\ Held /\ DeadStays
      /\ \A a \in Account : Known(a) => accounts[a].refresh <= issued'
      /\ \A d \in Caller : job[d].refresh <= issued'
      /\ \A a \in Account : Known(a) => accounts[a].refresh \in Token
      /\ \A d \in Caller : Busy(d) => job[d].account \in Account /\ job[d].refresh \in Token
  BY HeldBefore
<1>4. n <= issued'
  <2>1. issued' \in Nat
    BY Numbers
  <2> QED  BY <1>1, <1>3, <2>1 DEF Rotate, Issue
<1>5. \A d \in Caller : /\ Busy(d)' <=> Busy(d)
                        /\ job'[d].account = job[d].account
                        /\ job'[d].alone = job[d].alone
  BY <1>0, <1>2 DEF Busy
<1>6. RowsIssued' /\ LockedIsIdle'
  BY <1>0, <1>3, <1>5 DEF Held, RowsIssued, LockedIsIdle, Known
<1>7. JobsIssued'
  BY <1>2, <1>3, <1>4 DEF JobsIssued
<1>8. LockedIsDead'
  <2>1. ASSUME NEW a \in Account, Known(a), accounts[a].locked, accounts[a].alone
        PROVE  ~Honours(a, accounts[a].refresh)'
    <3>1. PICK t \in Token : t = accounts[a].refresh
      BY <1>3, <2>1
    <3>2. ~Honours(a, t) /\ t <= issued
      BY <1>3, <2>1, <3>1 DEF Held, LockedIsDead, RowsIssued
    <3>3. ~Honours(a, t)'
      BY <1>3, <3>2 DEF DeadStays
    <3> QED  BY <1>0, <3>1, <3>3 DEF Honours
  <2> QED  BY <1>0, <2>1 DEF LockedIsDead, Known
<1>9. RefusedIsDead'
  <2>1. ASSUME NEW d \in Caller, job'[d].at = "lock"
        PROVE  ~Honours(job[d].account, job[d].refresh)'
    <3>1. job'[d] = job[d] /\ Busy(d)
      BY <1>2, <2>1 DEF Busy
    <3>2. PICK a \in Account, t \in Token : a = job[d].account /\ t = job[d].refresh
      BY <1>3, <3>1
    <3>3. ~Honours(a, t) /\ t <= issued
      BY <1>3, <2>1, <3>1, <3>2 DEF Held, RefusedIsDead, JobsIssued
    <3>4. ~Honours(a, t)'
      BY <1>3, <3>3 DEF DeadStays
    <3> QED  BY <3>1, <3>2, <3>4 DEF Honours
  <2> QED  BY <2>1 DEF RefusedIsDead
<1>10. AloneIsAlone'
  <2>1. ASSUME NEW x \in Caller, Busy(x)', job'[x].alone
        PROVE  /\ \A d \in Caller : Busy(d)' /\ job'[d].account = job'[x].account => d = x
               /\ job'[x].at \in {"refresh", "lock"}
                     => accounts'[job'[x].account].refresh = job'[x].refresh
    <3>1. Busy(x) /\ job[x].alone
      BY <1>5, <2>1
    <3>2. /\ \A d \in Caller : Busy(d) /\ job[d].account = job[x].account => d = x
          /\ job[x].at \in {"refresh", "lock"}
                => accounts[job[x].account].refresh = job[x].refresh
      BY <1>3, <3>1 DEF Held, AloneIsAlone
    <3>3. job'[x].at \in {"refresh", "lock"} => job'[x] = job[x]
      BY <1>2
    <3> QED  BY <1>0, <1>5, <3>2, <3>3
  <2> QED  BY <2>1 DEF AloneIsAlone
<1> QED  BY <1>6, <1>7, <1>8, <1>9, <1>10 DEF Held

LEMMA ReadKeepsHeld ==
    ASSUME Base, LockedInv, NEW c \in Caller, NEW a \in Account, ReadAccount(c, a), TokensGrow
    PROVE  Held'
<1>0. /\ UNCHANGED <<issued, live, accounts>> /\ ~Busy(c) /\ Known(a) /\ ~accounts[a].locked
  BY DEF ReadAccount, Busy
<1>1. /\ job'[c].at = "refresh" /\ job'[c].account = a
      /\ job'[c].refresh = accounts[a].refresh
      /\ job'[c].alone <=> \A d \in Caller : Busy(d) => job[d].account # a
      /\ \A d \in Caller \ {c} :
           /\ job'[d].at = job[d].at /\ job'[d].account = job[d].account
           /\ job'[d].refresh = job[d].refresh /\ (job'[d].alone => job[d].alone)
           /\ Busy(d) /\ job[d].account = a => ~job'[d].alone
  BY JobRead
<1>2. /\ Held /\ \A x \in Account : Known(x) => accounts[x].refresh <= issued'
      /\ \A d \in Caller : job[d].refresh <= issued'
  BY HeldBefore
<1>3. Busy(c)' /\ \A d \in Caller \ {c} : Busy(d)' <=> Busy(d)
  BY <1>1 DEF Busy
<1>4. RowsIssued' /\ LockedIsDead'
  BY <1>0, <1>2 DEF Held, RowsIssued, LockedIsDead, Known, Honours
<1>5. JobsIssued'
  BY <1>0, <1>1, <1>2 DEF JobsIssued
<1>6. LockedIsIdle'
  <2>1. ASSUME NEW x \in Account, Known(x), accounts[x].locked, accounts[x].alone,
               NEW d \in Caller, Busy(d)'
        PROVE  job'[d].account # x
    BY <1>0, <1>1, <1>2, <1>3, <2>1 DEF Held, LockedIsIdle
  <2> QED  BY <1>0, <2>1 DEF LockedIsIdle, Known
<1>7. RefusedIsDead'
  <2>1. ASSUME NEW d \in Caller, job'[d].at = "lock"
        PROVE  ~Honours(job[d].account, job[d].refresh) /\ d # c
    BY <1>1, <1>2, <2>1 DEF Held, RefusedIsDead
  <2> QED  BY <1>0, <1>1, <2>1 DEF RefusedIsDead, Honours
<1>8. AloneIsAlone'
  <2>1. ASSUME NEW x \in Caller, Busy(x)', job'[x].alone
        PROVE  /\ \A d \in Caller : Busy(d)' /\ job'[d].account = job'[x].account => d = x
               /\ job'[x].at \in {"refresh", "lock"}
                     => accounts'[job'[x].account].refresh = job'[x].refresh
    <3>1. CASE x = c
      BY <1>0, <1>1, <1>3, <2>1, <3>1
    <3>2. CASE x # c
      <4>1. Busy(x) /\ job[x].alone /\ job[x].account # a
        BY <1>1, <1>3, <2>1, <3>2
      <4>2. /\ \A d \in Caller : Busy(d) /\ job[d].account = job[x].account => d = x
            /\ job[x].at \in {"refresh", "lock"}
                  => accounts[job[x].account].refresh = job[x].refresh
        BY <1>2, <4>1 DEF Held, AloneIsAlone
      <4> QED  BY <1>0, <1>1, <1>3, <3>2, <4>1, <4>2
    <3> QED  BY <3>1, <3>2
  <2> QED  BY <2>1 DEF AloneIsAlone
<1> QED  BY <1>4, <1>5, <1>6, <1>7, <1>8 DEF Held

\* A login writes the row: unlocked, with its own token; no refresh is alone any more.
LEMMA LoginKeepsHeld ==
    ASSUME Base, LockedInv, NEW b \in Login, NEW a \in Account, a = flow[b].account,
           NEW r \in Row, accounts' = [accounts EXCEPT ![a] = r],
           r.refresh = flow[b].refresh, r.locked = FALSE, job' = Disturb(a, Caller),
           UNCHANGED <<issued, live>>, TokensGrow
    PROVE  Held'
<1>0. TypeOK /\ Caller \in SUBSET Caller
  BY DEF Base
<1>1. /\ accounts'[a] = r
      /\ \A x \in Account \ {a} : accounts'[x] = accounts[x]
  BY <1>0, RowMoves
<1>2. \A d \in Caller :
        /\ job'[d].at = job[d].at /\ job'[d].account = job[d].account
        /\ job'[d].refresh = job[d].refresh /\ (job'[d].alone => job[d].alone)
        /\ Busy(d) /\ job[d].account = a => ~job'[d].alone
  BY <1>0, Disturbed
<1>3. Held /\ \A d \in Caller : Busy(d) => job[d].account \in Account
  BY HeldBefore
<1>4. \A d \in Caller : Busy(d)' <=> Busy(d)
  BY <1>2 DEF Busy
<1>5. r.refresh <= issued
  BY DEF LockedInv, OnlyIssued
<1>6. RowsIssued'
  <2>1. ASSUME NEW x \in Account, Known(x)' PROVE accounts'[x].refresh <= issued
    BY <1>1, <1>3, <1>5, <2>1 DEF Held, RowsIssued, Known
  <2> QED  BY <2>1 DEF RowsIssued
<1>7. JobsIssued'
  BY <1>2, <1>3 DEF Held, JobsIssued
<1>8. LockedIsIdle'
  <2>1. ASSUME NEW x \in Account, Known(x)', accounts'[x].locked, accounts'[x].alone
        PROVE  Known(x) /\ accounts[x].locked /\ accounts[x].alone
    BY <1>1, <2>1 DEF Known
  <2> QED  BY <1>2, <1>3, <1>4, <2>1 DEF Held, LockedIsIdle
<1>9. LockedIsDead'
  <2>1. ASSUME NEW x \in Account, Known(x)', accounts'[x].locked, accounts'[x].alone
        PROVE  Known(x) /\ accounts[x].locked /\ accounts[x].alone /\ accounts'[x] = accounts[x]
    BY <1>1, <2>1 DEF Known
  <2> QED  BY <1>3, <2>1 DEF Held, LockedIsDead, Honours
<1>10. RefusedIsDead'
  BY <1>2, <1>3 DEF Held, RefusedIsDead, Honours
<1>11. AloneIsAlone'
  <2>1. ASSUME NEW x \in Caller, Busy(x)', job'[x].alone
        PROVE  /\ \A d \in Caller : Busy(d)' /\ job'[d].account = job'[x].account => d = x
               /\ job'[x].at \in {"refresh", "lock"}
                     => accounts'[job'[x].account].refresh = job'[x].refresh
    <3>1. Busy(x) /\ job[x].alone /\ job[x].account \in Account \ {a}
      BY <1>2, <1>3, <1>4, <2>1
    <3>2. /\ \A d \in Caller : Busy(d) /\ job[d].account = job[x].account => d = x
          /\ job[x].at \in {"refresh", "lock"}
                => accounts[job[x].account].refresh = job[x].refresh
      BY <1>3, <3>1 DEF Held, AloneIsAlone
    <3> QED  BY <1>1, <1>2, <1>4, <3>1, <3>2
  <2> QED  BY <2>1 DEF AloneIsAlone
<1> QED  BY <1>6, <1>7, <1>8, <1>9, <1>10, <1>11 DEF Held

\* A refresh writes the row and ends: the new tokens, or the lock.
LEMMA WriteKeepsHeld ==
    ASSUME Base, LockedInv, NEW c \in Caller, StoreTokens(c) \/ Lock(c), TokensGrow
    PROVE  Held'
<1>0. TypeOK /\ Busy(c) /\ UNCHANGED <<issued, live>> /\ Done(c)
  BY DEF Base, StoreTokens, Lock, Busy
<1>1. PICK a \in Account : a = job[c].account /\ Known(a)
  BY <1>0 DEF Base, JobsKnow, JobKnows
<1>2. PICK r \in Row :
        /\ accounts' = [accounts EXCEPT ![a] = r]
        /\ \/ job[c].at = "lock" /\ r.refresh = accounts[a].refresh /\ r.alone = job[c].alone
           \/ /\ job[c].at = "store" /\ r.refresh = job[c].refresh
              /\ r.locked = accounts[a].locked /\ r.alone = accounts[a].alone
  BY <1>1, StoreRow, LockRow DEF StoreTokens, Lock
<1>3. /\ accounts'[a] = r
      /\ \A x \in Account \ {a} : accounts'[x] = accounts[x]
  BY <1>0, <1>2, RowMoves
<1>4. /\ job'[c].at = "idle" /\ job'[c].refresh = 0
      /\ \A d \in Caller \ {c} : job'[d] = job[d]
  BY <1>0, JobEnds
<1>5. /\ Held /\ \A d \in Caller : Busy(d) => job[d].account \in Account
      /\ issued \in Nat
  BY HeldBefore, Numbers
<1>6. \A d \in Caller : Busy(d)' => d # c /\ Busy(d) /\ job'[d] = job[d]
  BY <1>4 DEF Busy
<1>7. RowsIssued'
  <2>1. r.refresh <= issued
    BY <1>1, <1>2, <1>5 DEF Held, RowsIssued, JobsIssued
  <2>2. ASSUME NEW x \in Account, Known(x)' PROVE accounts'[x].refresh <= issued
    BY <1>3, <1>5, <2>1, <2>2 DEF Held, RowsIssued, Known
  <2> QED  BY <1>0, <2>2 DEF RowsIssued
<1>8. JobsIssued'
  BY <1>0, <1>4, <1>5 DEF Held, JobsIssued
<1>9. RefusedIsDead'
  <2>1. ASSUME NEW d \in Caller, job'[d].at = "lock"
        PROVE  ~Honours(job[d].account, job[d].refresh) /\ job'[d] = job[d]
    BY <1>4, <1>5, <2>1 DEF Held, RefusedIsDead
  <2> QED  BY <1>0, <2>1 DEF RefusedIsDead, Honours
<1>10. AloneIsAlone'
  <2>1. ASSUME NEW x \in Caller, Busy(x)', job'[x].alone
        PROVE  /\ \A d \in Caller : Busy(d)' /\ job'[d].account = job'[x].account => d = x
               /\ job'[x].at \in {"refresh", "lock"}
                     => accounts'[job'[x].account].refresh = job'[x].refresh
    <3>1. Busy(x) /\ job[x].alone /\ x # c /\ job'[x] = job[x] /\ job[x].account \in Account
      BY <1>5, <1>6, <2>1
    <3>2. /\ \A d \in Caller : Busy(d) /\ job[d].account = job[x].account => d = x
          /\ job[x].at \in {"refresh", "lock"}
                => accounts[job[x].account].refresh = job[x].refresh
      BY <1>5, <3>1 DEF Held, AloneIsAlone
    <3>3. job[x].account # a
      BY <1>0, <1>1, <3>1, <3>2
    <3> QED  BY <1>3, <1>6, <3>1, <3>2, <3>3
  <2> QED  BY <2>1 DEF AloneIsAlone
<1>11. ASSUME NEW x \in Account, Known(x)', accounts'[x].locked, accounts'[x].alone
       PROVE  /\ \A d \in Caller : Busy(d)' => job'[d].account # x
              /\ ~Honours(x, accounts'[x].refresh)
  <2>1. CASE x # a
    <3>1. accounts'[x] = accounts[x] /\ Known(x)
      BY <1>3, <1>11, <2>1 DEF Known
    <3> QED  BY <1>5, <1>6, <1>11, <3>1 DEF Held, LockedIsIdle, LockedIsDead
  <2>2. CASE x = a /\ job[c].at = "store"
    <3>1. accounts[a].locked /\ accounts[a].alone
      BY <1>2, <1>3, <1>11, <2>2
    <3>2. FALSE
      BY <1>0, <1>1, <1>5, <3>1 DEF Held, LockedIsIdle
    <3> QED  BY <3>2
  <2>3. CASE x = a /\ job[c].at = "lock"
    <3>1. job[c].alone /\ accounts'[x].refresh = accounts[a].refresh
      BY <1>2, <1>3, <1>11, <2>3
    <3>2. /\ \A d \in Caller : Busy(d) /\ job[d].account = a => d = c
          /\ accounts[a].refresh = job[c].refresh
      BY <1>0, <1>1, <1>5, <2>3, <3>1 DEF Held, AloneIsAlone
    <3>3. ~Honours(a, job[c].refresh)
      BY <1>1, <1>5, <2>3 DEF Held, RefusedIsDead
    <3> QED  BY <1>6, <2>3, <3>1, <3>2, <3>3
  <2> QED  BY <1>2, <2>1, <2>2, <2>3
<1>12. LockedIsIdle'
  BY <1>11 DEF LockedIsIdle
<1>13. LockedIsDead'
  BY <1>0, <1>11 DEF LockedIsDead, Honours
<1> QED  BY <1>7, <1>8, <1>9, <1>10, <1>12, <1>13 DEF Held

LEMMA LockedNext == Base /\ LockedInv /\ [Next]_vars => LockedInv'
<1> SUFFICES ASSUME Base, LockedInv, [Next]_vars PROVE LockedInv'
  OBVIOUS
<1>0. TypeOK /\ TokensGrow /\ UserStays
  BY TokensNext, RowsNext DEF Base
<1>1. LiveIssued' /\ FlowsIssued'
  BY <1>0, LiveIssuedNext, FlowsIssuedNext
<1>2. Held'
  <2>1. CASE UNCHANGED <<accounts, job>>
    BY <1>0, <2>1, HeldStays DEF Kept, Known
  <2>2. ASSUME NEW a \in Account, Expire(a) PROVE Held'
    <3>1. PICK r \in Row : /\ accounts' = [accounts EXCEPT ![a] = r]
                           /\ r.refresh = accounts[a].refresh
                           /\ r.locked = accounts[a].locked /\ r.alone = accounts[a].alone
      BY <1>0, <2>2, ExpireRow
    <3>2. accounts'[a] = r /\ \A x \in Account \ {a} : accounts'[x] = accounts[x]
      BY <1>0, <3>1, RowMoves
    <3>3. Known(a) /\ UNCHANGED job
      BY <2>2 DEF Expire
    <3>4. \A x \in Account : Kept(x)
      BY <3>1, <3>2, <3>3 DEF Kept, Known
    <3> QED  BY <1>0, <3>3, <3>4, HeldStays
  <2>3. ASSUME NEW b \in Login, NEW u \in UserId, CreateUser(b, u) PROVE Held'
    <3>1. PICK r \in Row : /\ accounts' = [accounts EXCEPT ![flow[b].account] = r]
                           /\ r.refresh = flow[b].refresh /\ r.locked = FALSE
      BY <2>3, CreateRow
    <3>2. /\ flow[b].account \in Account /\ job' = Disturb(flow[b].account, Caller)
          /\ UNCHANGED <<issued, live>>
      BY <2>3 DEF Base, FlowsKnow, FlowKnows, CreateUser
    <3> QED  BY <1>0, <3>1, <3>2, LoginKeepsHeld
  <2>4. ASSUME NEW b \in Login, UpdateAccount(b) PROVE Held'
    <3>1. PICK r \in Row : /\ accounts' = [accounts EXCEPT ![flow[b].account] = r]
                           /\ r.refresh = flow[b].refresh /\ r.locked = FALSE
      BY <2>4, UpdateRow
    <3>2. /\ flow[b].account \in Account /\ job' = Disturb(flow[b].account, Caller)
          /\ UNCHANGED <<issued, live>>
      BY <2>4 DEF Base, FlowsKnow, FlowKnows, UpdateAccount
    <3> QED  BY <1>0, <3>1, <3>2, LoginKeepsHeld
  <2>5. ASSUME NEW c \in Caller, LoseAnswer(c) \/ GiveUp(c) PROVE Held'
    <3>1. Done(c) /\ UNCHANGED accounts
      BY <2>5 DEF LoseAnswer, GiveUp
    <3>2. /\ job'[c].at = "idle" /\ job'[c].refresh = 0
          /\ \A d \in Caller \ {c} : job'[d] = job[d]
      BY <1>0, <3>1, JobEnds
    <3>3. \A x \in Account : Kept(x)
      BY <3>1 DEF Kept, Known
    <3>4. \A d \in Caller : job'[d] = job[d] \/ (job'[d].at = "idle" /\ job'[d].refresh = 0)
      BY <3>2
    <3> QED  BY <1>0, <3>3, <3>4, HeldStays
  <2> QED
    BY <1>0, <2>1, <2>2, <2>3, <2>4, <2>5, ReadKeepsHeld, RefreshKeepsHeld,
       RefusalKeepsHeld, WriteKeepsHeld
    DEF Next, vars, Spotify, LogIn, AccessToken, Revoke, ExchangeCode, FindAccount,
        CreateSession, Fail, Logout
<1> QED
  BY <1>1, <1>2
  DEF LockedInv, Held, OnlyIssued, LiveIssued, FlowsIssued, RowsIssued, JobsIssued

\* A refresh that had its account to itself, from the read of its row to the lock, locks
\* it only when its refresh token is dead, and it stays dead while it is locked.
THEOREM LockedCorrect == Spec => []LockedIsDead
<1>1. LockedInv => LockedIsDead
  BY DEF LockedInv
<1> QED  BY <1>1, BaseAlways, LockedInit, LockedNext, PTL DEF Spec

=============================================================================
