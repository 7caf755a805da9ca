--------------------------- MODULE DestinationStore ---------------------------
(***************************************************************************)
(* One destination cloud in Kubernetes (store/destinations.py): its        *)
(* DestinationPCD resource and the secret with its credentials.  A         *)
(* registration writes the secret, then the resource, and takes the secret *)
(* back when the resource is refused; a connectivity test writes the       *)
(* resource's status (its read and its write are one step here).           *)
(*                                                                         *)
(* A registration makes up a new id, so two of them never meet.  Every     *)
(* call to Kubernetes succeeds, is refused, or takes effect while the POD  *)
(* sees an exception, as Faults allows; with "crash" the POD may die.      *)
(* DestinationRepo.delete has no caller in the program.                    *)
(***************************************************************************)
EXTENDS Naturals

CONSTANT Faults   \* what may go wrong with a call

ASSUME StoreFaults == Faults \subseteq {"refused", "timeout", "crash"}

VARIABLES
  reg,         \* the next call of the registration
  resource,    \* is the resource there?
  secret,      \* is the secret there?
  reachable,   \* is status.reachable true?
  faults,      \* history: calls that failed and need not have
  unanswered   \* history: the resource was created and the answer lost

storeVars == <<reg, resource, secret, reachable, faults, unanswered>>

RegEnded == {"registered", "failed", "crashed"}
Registering == {"create", "replace", "resource", "cleanup"}
MaxFaults == 2   \* where the history stops counting

StoreTypeOK ==
  /\ reg \in Registering \cup RegEnded
  /\ resource \in BOOLEAN /\ secret \in BOOLEAN
  /\ reachable \in BOOLEAN
  /\ faults \in 0 .. MaxFaults /\ unanswered \in BOOLEAN

StoreInit ==
  /\ reg = "create" /\ resource = FALSE /\ secret = FALSE
  /\ reachable = FALSE
  /\ faults = 0 /\ unanswered = FALSE

Worse == IF faults < MaxFaults THEN faults + 1 ELSE faults

\* A call that Kubernetes can carry out iff can.  r and s are the resource and
\* the secret after it; onward and otherwise the next calls.
Kube(can, r, s, onward, otherwise) ==
  \/ /\ can
     /\ resource' = r /\ secret' = s /\ reg' = onward
     /\ UNCHANGED <<faults, unanswered>>
  \/ /\ can /\ "timeout" \in Faults
     /\ resource' = r /\ secret' = s /\ reg' = otherwise
     /\ faults' = Worse
     /\ unanswered' = (unanswered \/ (r /\ ~resource))
  \/ /\ ~can \/ "refused" \in Faults
     /\ reg' = otherwise
     /\ faults' = IF can THEN Worse ELSE faults
     /\ UNCHANGED <<resource, secret, unanswered>>

\* Mutant: the resource first.
ResourceFirst ==
  /\ \/ reg = "create" /\ Kube(TRUE, TRUE, secret, "resource", "failed")
     \/ reg = "resource" /\ Kube(TRUE, resource, TRUE, "registered", "failed")
  /\ UNCHANGED reachable

\* Mutant: no clean-up when the resource is refused.
NoCleanup ==
  /\ \/ reg = "create" /\ Kube(TRUE, resource, TRUE, "resource", "replace")
     \/ reg = "replace" /\ Kube(secret, resource, secret, "resource", "failed")
     \/ reg = "resource" /\ Kube(TRUE, TRUE, secret, "registered", "failed")
  /\ UNCHANGED reachable

\* POST /destinations.  The secret is created, or replaced when the creation
\* fails for whatever reason; only a failure of the resource is cleaned up
\* after, and a secret that is already gone is deleted without complaint.
Register ==
  /\ \/ reg = "create" /\ Kube(TRUE, resource, TRUE, "resource", "replace")
     \/ reg = "replace" /\ Kube(secret, resource, secret, "resource", "failed")
     \/ reg = "resource" /\ Kube(TRUE, TRUE, secret, "registered", "cleanup")
     \/ reg = "cleanup" /\ Kube(TRUE, resource, FALSE, "failed", "failed")
  /\ UNCHANGED reachable

Crash ==
  /\ "crash" \in Faults /\ reg \in Registering
  /\ reg' = "crashed"
  /\ UNCHANGED <<resource, secret, reachable, faults, unanswered>>

\* The credentials of a destination: the resource, then the secret it names.
Readable == resource /\ secret

\* POST /{did}/test: every exception of the reads or of the destination is
\* "no", and what was found is written to the status.
Test ==
  /\ resource /\ reachable' \in {FALSE, Readable}
  /\ UNCHANGED <<reg, resource, secret, faults, unanswered>>

StoreNext == Register \/ Crash \/ Test

-----------------------------------------------------------------------------
(* Properties.                                                             *)

\* A destination that is listed can be used, at every moment and whatever
\* crashes: its credentials are there, and so is what a test that said "yes"
\* has seen, unless the answer to the creation of the resource was lost: then
\* the clean-up deletes the secret of a destination that is listed
\* (store/destinations.py:20 before 30, 31-34).
ListedIsUsable == (resource \/ reachable) /\ ~unanswered => Readable

\* A registration is all or nothing when at most one of its calls fails: what
\* the caller is told is what is there (store/destinations.py:29-35).
RegistrationAllOrNothing ==
  /\ reg = "registered" => Readable
  /\ reg = "failed" /\ faults <= 1 /\ ~unanswered => ~resource /\ ~secret
=============================================================================
