------------------------- MODULE MCMigrationControl -------------------------
(* Small instances of MigrationControl: at most two cancels and two reauths. *)
EXTENDS MigrationControl, TLC

CONSTANTS c1, c2, q1, q2

NoRequest == {}
OneCancel == {c1}
TwoCancels == {c1, c2}
TwoReauths == {q1, q2}
Errors == {"error"}
AnyRaise == {"error", "reauth"}

\* The reauths are alike, and no property of their run is about liveness.
ReauthSymmetry == Permutations(TwoReauths)

\* Two runs at once have a state for every pair of their places, so once a reauth
\* has crossed a run they are looked at without a cancel or a crash, and never
\* three of them: a second reauth comes when the launched run is over.
TwoRunsAtMost ==
  crossed => /\ crashes = 0 /\ \A c \in Cancels : req[c].at = "new"
             /\ (\E q \in Reauths : req[q].at = "new") \/ run[Launch].at = "over"
=============================================================================
