----------------------------- MODULE SignalOnce -----------------------------
(***************************************************************************)
(* What a library sync promises about one user's saves, with no catalog,   *)
(* no resolver and no runs: a subject (an artist or an album) is saved     *)
(* once, the sync that saved it owes it one signal, and that signal is     *)
(* either appended to the log, once, or lost for good with its sync.       *)
(* LibrarySync implements this specification (LibrarySync!Once).           *)
(***************************************************************************)
EXTENDS Naturals

CONSTANT Subject

VARIABLES
    fate,      \* what became of each subject's save
    emitted    \* how many library_add/follow_add rows the log holds for it

onceVars == <<fate, emitted>>

Fate == {"unsaved", "owed", "signalled", "lost"}

OnceInit ==
    /\ fate = [x \in Subject |-> "unsaved"]
    /\ emitted = [x \in Subject |-> 0]

Save(x) ==
    /\ fate[x] = "unsaved"
    /\ fate' = [fate EXCEPT ![x] = "owed"]
    /\ UNCHANGED emitted

Emit(x) ==
    /\ fate[x] = "owed"
    /\ fate' = [fate EXCEPT ![x] = "signalled"]
    /\ emitted' = [emitted EXCEPT ![x] = @ + 1]

Lose(x) ==
    /\ fate[x] = "owed"
    /\ fate' = [fate EXCEPT ![x] = "lost"]
    /\ UNCHANGED emitted

OnceNext == \E x \in Subject : Save(x) \/ Emit(x) \/ Lose(x)

OnceSpec == OnceInit /\ [][OnceNext]_onceVars
=============================================================================
