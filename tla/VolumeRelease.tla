---------------------------- MODULE VolumeRelease ----------------------------
(***************************************************************************)
(* What MigrationEngine takes CinderOps.unmanage to do for one volume that *)
(* is available: when it returns, Cinder has been asked to let go of the   *)
(* volume, and the record is gone or still going (Clouds!Unmanaged); when  *)
(* it raises, anything may be the case.                                    *)
(***************************************************************************)
VARIABLES
  record,   \* Cinder's record of the volume
  caller    \* what unmanage did

Init == record = "available" /\ caller = "calling"

\* While the caller is in unmanage, asking and failing may alternate.
Ask == /\ caller = "calling" /\ record = "available"
       /\ record' = "unmanaging" /\ caller' \in {"calling", "raised"}
Restore == /\ caller = "calling" /\ record = "unmanaging"
           /\ record' = "available" /\ caller' \in {"calling", "raised"}

\* Cinder lets go, before or after the caller is done.
Gone == /\ record = "unmanaging" /\ record' = "gone"
        /\ UNCHANGED caller

Return == /\ caller = "calling" /\ record # "available"
          /\ caller' = "returned" /\ UNCHANGED record
Raise == caller = "calling" /\ caller' = "raised" /\ UNCHANGED record

Next == Ask \/ Restore \/ Gone \/ Return \/ Raise

Spec == Init /\ [][Next]_<<record, caller>>
=============================================================================
