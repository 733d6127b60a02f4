------------------------- MODULE MCProjectBaseline -------------------------
(* Two or three runs of one project; any three can race for one baseline.  *)
EXTENDS ProjectBaseline

CONSTANTS r1, r2, r3

TwoRuns == {r1, r2}
ThreeRuns == {r1, r2, r3}

============================================================================
