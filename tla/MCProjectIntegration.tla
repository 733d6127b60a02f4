----------------------- MODULE MCProjectIntegration -----------------------
(* Three contributions of one run.                                         *)
EXTENDS ProjectIntegration

CONSTANTS c1, c2, c3

ThreeContribs == {c1, c2, c3}

===========================================================================
