--------------------------- MODULE CinderUnmanage ---------------------------
(***************************************************************************)
(* CinderOps.unmanage (app/osclients/cinder.py:21-36) over ProdCinder      *)
(* (app/osclients/prod_clients.py:28-42): post os-unmanage, poll, and when *)
(* the driver fails into error_unmanaging reset the state and post again,  *)
(* until the volume is gone or the attempts are spent.  Faults is as in    *)
(* MigrationEngine.  MigrationEngine takes all of this as one step;        *)
(* VolumeRelease is what it assumes of it.                                 *)
(***************************************************************************)
EXTENDS Naturals

CONSTANTS
  Attempts,   \* the parameter attempts (6 in the code)
  Faults      \* what may go wrong with a call

ASSUME UnmanageAssumption ==
  Attempts \in Nat /\ Faults \subseteq {"refused", "timeout"}

VARIABLES
  status,   \* Cinder's status of the volume
  at,       \* the next call of unmanage, or how it ended
  left,     \* attempts left
  posts     \* how often os-unmanage was posted

vars == <<status, at, left, posts>>

Init == /\ status = "available" /\ at = "first"
        /\ left = Attempts /\ posts = 0

\* A call that the volume's status allows iff can, and that changes it to s.
Call(can, s, next) ==
  \/ /\ can /\ status' = s
     /\ at' = next \/ ("timeout" \in Faults /\ at' = "raised")
  \/ (~can \/ "refused" \in Faults) /\ at' = "raised" /\ UNCHANGED status

Unmanage ==
  /\ Call(status = "available", "unmanaging", "poll")
  /\ posts' = posts + 1

First == at = "first" /\ Unmanage /\ UNCHANGED left

\* Mutant: a round that finds the volume still there is not counted.
PollUncounted ==
  /\ at = "poll" /\ left > 0
  /\ IF status = "gone" THEN at' = "returned" /\ UNCHANGED left
     ELSE UNCHANGED <<at, left>>
  /\ UNCHANGED <<status, posts>>

\* volume_status_or_none: any exception of the read counts as "gone".
Poll ==
  /\ at = "poll" /\ left > 0
  /\ \/ (status = "gone" \/ Faults # {}) /\ at' = "returned" /\ UNCHANGED left
     \/ status = "error_unmanaging" /\ at' = "reset" /\ UNCHANGED left
     \/ status = "unmanaging" /\ left' = left - 1 /\ UNCHANGED at
  /\ UNCHANGED <<status, posts>>

GiveUp == /\ at = "poll" /\ left = 0
          /\ at' = "returned" /\ UNCHANGED <<status, left, posts>>

Reset == /\ at = "reset" /\ Call(status # "gone", "available", "again")
         /\ UNCHANGED <<left, posts>>

\* Mutant: after a reset the unmanage is left to the next round, which finds
\* the volume neither gone nor failed.
AgainForgotten == /\ at = "again" /\ at' = "poll" /\ left' = left - 1
                  /\ UNCHANGED <<status, posts>>

\* Mutant: a retry is not counted.
AgainUncounted == at = "again" /\ Unmanage /\ UNCHANGED left

Again == at = "again" /\ Unmanage /\ left' = left - 1

\* The driver works on it on its own.
Driver == /\ status = "unmanaging"
          /\ status' \in {"gone", "error_unmanaging"}
          /\ UNCHANGED <<at, left, posts>>

Caller == First \/ Poll \/ GiveUp \/ Reset \/ Again
Next == Caller \/ Driver

Spec == Init /\ [][Next]_vars

\* The thread runs; the driver need not ever finish.
FairSpec == Spec /\ WF_vars(Caller)

-----------------------------------------------------------------------------
(* Properties.                                                             *)

\* Every variable keeps its type, and there are at most one post per attempt
\* and the first.
TypeOK ==
  /\ status \in {"available", "unmanaging", "error_unmanaging", "gone"}
  /\ at \in {"first", "poll", "reset", "again", "returned", "raised"}
  /\ left \in 0..Attempts /\ posts \in 0..(Attempts + 1)

Record == IF status = "error_unmanaging" THEN "unmanaging" ELSE status
CallerState == IF at \in {"returned", "raised"} THEN at ELSE "calling"

Release == INSTANCE VolumeRelease WITH record <- Record, caller <- CallerState

\* The loop does what the engine's model takes it to do: in particular it
\* never returns normally with the volume available and not asked for again.
ReleasesVolume == Release!Spec

\* Whatever the driver does, also nothing, the call ends.
UnmanageEnds == <>(at \in {"returned", "raised"})
=============================================================================
