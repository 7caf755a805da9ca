---------------------------- MODULE ControlClaims ----------------------------
(* What the documentation and the comments say of the control plane and the *)
(* code does not do.  Each claim is checked by a run of its own, whose      *)
(* counterexample README.md describes.                                      *)
EXTENDS MCMigrationControl

\* README.md:30-31: "Each cutover step is checkpointed as it completes ... so a
\* mid-cutover failure leaves accurate state for rollback": what was once
\* written is there when the rollback is chosen.
RollbackSeesCheckpoints ==
  \A r \in Runs : run[r].at \in {"cancelled", "undo"} => saved \subseteq cr.steps

\* README.md:47: "Cancel is cooperative and honored only before cutover
\* begins": a cancel that lands before staging began prevents the cutover.
TimelyCancelHonoured == timely => did \cap CutoverSteps = {}
=============================================================================
