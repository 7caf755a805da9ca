-------------------------- MODULE MigrationContract --------------------------
(***************************************************************************)
(* What the POD promises to the owner of the VM, with nothing said of how: *)
(* where the VM is and how the migration ended.  The VM leaves the source  *)
(* before it exists anywhere else, a VM that has reached the destination   *)
(* is never rebuilt on the source, a migration reported as moved has its   *)
(* VM on the destination for good, and one reported as restored has it on  *)
(* the source, unless the rollback could not know better.                  *)
(***************************************************************************)
VARIABLES
  host,     \* where the VM is
  outcome   \* how the migration ended

contractVars == <<host, outcome>>

Hosts == {"source", "nowhere", "dest", "rebuilt", "withdrawn"}
Outcomes == {"running", "untouched", "moved", "restored", "mistaken",
             "attention", "stranded"}

ContractInit == host = "source" /\ outcome = "running"

\* The source server is deleted (cutover step C2c).
Depart == /\ outcome = "running" /\ host = "source"
          /\ host' = "nowhere" /\ UNCHANGED outcome

\* The destination server is created (C5).
Arrive == /\ outcome = "running" /\ host = "nowhere"
          /\ host' = "dest" /\ UNCHANGED outcome

\* A reverse migration creates a server on the source again.
Rebuild == /\ outcome = "running" /\ host = "nowhere"
           /\ host' = "rebuilt" /\ UNCHANGED outcome

\* A reverse migration deletes the destination server, which may be gone
\* only after the migration has been handed to a human.
Withdraw == /\ outcome \in {"running", "attention", "stranded"}
            /\ host = "dest"
            /\ host' = "withdrawn" /\ UNCHANGED outcome

Finish ==
  /\ outcome = "running"
  /\ outcome' \in Outcomes \ {"running"}
  /\ outcome' = "untouched" => host = "source"
  /\ outcome' = "moved" => host = "dest"
  /\ outcome' = "restored" => host \in {"source", "rebuilt"}
  /\ outcome' = "attention" => host # "source"
  /\ UNCHANGED host

ContractNext == Depart \/ Arrive \/ Rebuild \/ Withdraw \/ Finish

ContractSpec == ContractInit /\ [][ContractNext]_contractVars
=============================================================================
