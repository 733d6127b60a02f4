--------------------------- MODULE MCModelBudget ---------------------------
(* Two calls of one worker and one of the leader. *)
EXTENDS ModelBudget, TLC
CONSTANTS w1, w2, lead, worker
MCScopeOf  == (w1 :> worker) @@ (w2 :> worker) @@ (lead :> "root")
MCEstimate == (w1 :> 1) @@ (w2 :> 2) @@ (lead :> 1)
MCThreshold ==
  [s \in {worker, "root"} |->
     [k \in Keys |->
        IF s = worker THEN (IF k[1] = "severe" THEN NoLimit ELSE 3)
        ELSE IF k = <<"advisory", "tokens">> THEN 3
        ELSE IF k = <<"severe", "tokens">> THEN 6
        ELSE IF k = <<"advisory", "calls">> THEN 2 ELSE 3]]
=============================================================================
