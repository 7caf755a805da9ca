---------------------------- MODULE EngineClaims ----------------------------
(* What the documentation and the comments say of the migration engine and  *)
(* the code does not do.  Each claim is checked by a run of its own, whose  *)
(* counterexample README.md describes.                                      *)
EXTENDS MCMigrationEngine

\* README.md:26: "Rollback never deletes backend volume data -- it only
\* re-toggles management."
RollbackKeepsData == lost = {}

\* README.md:27: "A volume is never managed by both clouds at once (C4 manage
\* runs strictly after C3 unmanage)."
ManagedByBoth(v) ==
  /\ src.vol[v] # "gone" \/ v \in src.back
  /\ dst.vol[v] \in {"managing", "available", "in-use", "unmanaging"}
NeverManagedByBoth == \A v \in Volumes : ~ManagedByBoth(v)

\* rollback.py:2-3: "Regime A (source still exists) restores in place".
RegimeAHasSource == pc \in InPlace => src.vm # "gone"
=============================================================================
