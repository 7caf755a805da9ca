------------------------ MODULE CinderUnmanageProofs ------------------------
(***************************************************************************)
(* For every number of attempts and every kind of fault: the retry loop    *)
(* keeps its types, posts os-unmanage at most once per attempt and once    *)
(* more, and does what VolumeRelease says.                                 *)
(***************************************************************************)
EXTENDS CinderUnmanage, TLAPS

\* Where the caller is says whether the volume still waits to be asked for,
\* and the attempts used up pay for the posts.
Inv ==
  /\ TypeOK
  /\ at \in {"first", "again"} => status = "available"
  /\ at \in {"poll", "returned"} => status # "available"
  /\ at \in {"reset", "again"} => left > 0
  /\ at = "first" => posts = 0
  /\ at # "first" => posts + left <= Attempts + 1
  /\ at = "reset" => status = "error_unmanaging"

\* The invariant holds at the start and is kept by each step.
LEMMA InvHolds == Spec => []Inv
<1> USE UnmanageAssumption
<1>1. Init => Inv
  BY DEF Init, Inv, TypeOK
<1>2. Inv /\ [Next]_vars => Inv'
  <2> SUFFICES ASSUME Inv, [Next]_vars PROVE Inv'
    OBVIOUS
  <2>1. CASE First
    BY <2>1 DEF Inv, TypeOK, First, Unmanage, Call
  <2>2. CASE Poll
    BY <2>2 DEF Inv, TypeOK, Poll
  <2>3. CASE GiveUp
    BY <2>3 DEF Inv, TypeOK, GiveUp
  <2>4. CASE Reset
    BY <2>4 DEF Inv, TypeOK, Reset, Call
  <2>5. CASE Again
    BY <2>5 DEF Inv, TypeOK, Again, Unmanage, Call
  <2>6. CASE Driver
    BY <2>6 DEF Inv, TypeOK, Driver
  <2>7. CASE UNCHANGED vars
    BY <2>7 DEF Inv, TypeOK, vars
  <2> QED BY <2>1, <2>2, <2>3, <2>4, <2>5, <2>6, <2>7 DEF Next, Caller
<1> QED BY <1>1, <1>2, PTL DEF Spec

\* For every number of attempts, the posts are bounded by the attempts and
\* the status, place and counter stay in range.
THEOREM UnmanageTypeCorrect == Spec => []TypeOK
<1>1. Inv => TypeOK
  BY DEF Inv
<1> QED BY <1>1, InvHolds, PTL

\* The loop implements the abstract release that the migration engine's model
\* is built on, for every number of attempts and every kind of fault.
THEOREM UnmanageImplementsRelease == Spec => ReleasesVolume
<1>1. Init => Release!Init
  BY DEF Init, Release!Init, Record, CallerState
<1>2. Inv /\ [Next]_vars => [Release!Next]_<<Record, CallerState>>
  <2> SUFFICES ASSUME Inv, [Next]_vars
               PROVE  [Release!Next]_<<Record, CallerState>>
    OBVIOUS
  <2> USE DEF Inv, TypeOK, Record, CallerState, Release!Next, Release!Ask,
              Release!Restore, Release!Gone, Release!Return, Release!Raise
  <2>1. CASE First
    BY <2>1 DEF First, Unmanage, Call
  <2>2. CASE Poll
    BY <2>2 DEF Poll
  <2>3. CASE GiveUp
    BY <2>3 DEF GiveUp
  <2>4. CASE Reset
    BY <2>4 DEF Reset, Call
  <2>5. CASE Again
    BY <2>5 DEF Again, Unmanage, Call
  <2>6. CASE Driver
    BY <2>6 DEF Driver
  <2>7. CASE UNCHANGED vars
    BY <2>7 DEF vars
  <2> QED BY <2>1, <2>2, <2>3, <2>4, <2>5, <2>6, <2>7 DEF Next, Caller
<1> QED BY <1>1, <1>2, InvHolds, PTL DEF Spec, ReleasesVolume, Release!Spec
=============================================================================
