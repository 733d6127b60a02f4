------------------------ MODULE MCTeamCoordination ------------------------
(* Two workers; the instances differ in what b sends to a, and how often.   *)
(* The sum runs the team with faults, or without any and with a larger      *)
(* budget and an earlier downgrade, one in each behaviour.                  *)
EXTENDS TeamCoordination

CONSTANTS a, b, x

VARIABLE unit

Msg(f, t, k) == [from |-> f, to |-> t, kind |-> k, body |-> x]

OneWay == {Msg(b, a, "quiet"), Msg(b, a, "talk"), Msg(b, a, "wakeup")}

Knocks == {Msg(b, a, "wakeup")}

Sound == INSTANCE TeamCoordination WITH
           Traffic <- OneWay, Faults <- {}, MaxFaults <- 0, MaxFollowUps <- 2, RepeatThreshold <- 2

SumSpec ==
    /\ unit \in {"faults", "sound"} /\ Init
    /\ [][/\ UNCHANGED unit
          /\ (unit = "faults" /\ Next) \/ (unit = "sound" /\ Sound!Next)]_<<unit, vars>>

(* The team with the fairness of its scheduling. *)
CallsSpec ==
    unit = "calls" /\ Init /\ [][UNCHANGED unit /\ Next]_<<unit, vars>> /\ Fairness

(* Every call of queue() returns, and every message that a worker waits for  *)
(* gets its receipt (TeamCoordination).                                      *)
CallsAreAnswered == QueueReturns /\ ReceiptEventually
===========================================================================
