--------------------------- MODULE MCSharedBackend ---------------------------
(* Small instances of SharedBackend: two categories and two backends, of    *)
(* which the second category has the first backend's name again; up to two  *)
(* pools on the destination.                                                *)
EXTENDS SharedBackend

CONSTANTS files, bulk, netapp, qnap, e1, e2, root

MCCategories == {files, bulk}
MCBackends == {netapp, qnap}
MCExports == {e1, e2}
OneVolume == {root}
MCBlueprints ==
  UNION {[K -> MCExports \cup {NotNfs}] :
           K \in SUBSET {<<files, netapp>>, <<bulk, netapp>>, <<bulk, qnap>>}}
MCPoolLists == UNION {[1..n -> Hosts] : n \in 0..2}
=============================================================================
