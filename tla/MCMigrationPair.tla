--------------------------- MODULE MCMigrationPair ---------------------------
(* A VM with a root and a data volume, so that a plan can lack one, and two  *)
(* NICs, so that each migration can win a port.                              *)
EXTENDS MigrationPair, TLC

CONSTANTS root, d1, n1, n2, c1

MCVolumes == {root, d1}
MCNics == {n1, n2}
OneCancel == {c1}
NoCancel == {}
AnyFault == {"refused", "timeout"}

\* A bound: the cancel reads the resource when the source server has been stopped,
\* and lands when its run has failed and is about to read the checkpoints back, so
\* that it takes the record of C1 and of all that followed away.
CancelTakesCutover ==
  \A c \in Cancels1 :
    /\ req1[c].at = "write"
         => /\ req1[c].steps = {"S1"} /\ given1 = {}
            /\ pc1 \notin {"staged", "enterC", "C1"} \cup One!Ended
    /\ req1[c].at = "done"
         => /\ cr1.steps = {"S1"} /\ given1 \subseteq {"S1"}
            /\ pc1 \in One!Undoing

\* The two NICs are treated alike.
Symmetry == Permutations(MCNics)
=============================================================================
