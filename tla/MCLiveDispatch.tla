-------------------------- MODULE MCLiveDispatch --------------------------
(* Small instances of the runs of Dispatch.                                 *)
EXTENDS Dispatch, TLC

CONSTANTS t1, t2, t3            \* subtask ids of a plan

(* Live runs whose plans hold the interesting shapes: a chain, two          *)
(* dependents of two producers, a request for a task not dispatched yet.    *)
Run(healing, leads, d, git, wait, cancels) ==
  [healing |-> healing, leader |-> leads, deps |-> d, git |-> git, wait |-> wait,
   cancels |-> cancels]

Chain    == <<{}, {1}, {2}>>
Join     == <<{}, {}, {1, 2}>>
Forward  == <<{}, {3}, {2}>>

ThreeTasks ==
  {Run(TRUE, "coordinator", Join, {1, 2, 3}, {}, FALSE),
   Run(TRUE, "coordinator", Chain, {1, 2, 3}, {2}, TRUE),
   Run(TRUE, "coordinator", Forward, {1}, {}, FALSE),
   Run(FALSE, "coordinator", Chain, {1}, {1}, TRUE),
   Run(FALSE, "contributor", Forward, {1}, {}, TRUE),
   Run(FALSE, "research", Join, {}, {}, FALSE)}

(* Two producers, a task behind the first, a task behind both. *)
FourTasks == {Run(TRUE, "coordinator", <<{}, {}, {1}, {1, 2}>>, {1, 2, 3, 4}, {}, FALSE)}

(* Plans of independent subtasks, of a join whose producers come last, of   *)
(* one subtask, of none; replies with a cycle and an unknown dependency.    *)
MCSubs == {t1, t2, t3}
Sub(t, d) == [id |-> t, on |-> d]
MCReplies ==
  {<<Sub(t1, {}), Sub(t2, {}), Sub(t3, {})>>,
   <<Sub(t3, {t1, t2}), Sub(t1, {}), Sub(t2, {})>>,
   <<Sub(t2, {t1}), Sub(t1, {})>>,
   <<Sub(t1, {})>>,
   <<>>,
   <<Sub(t1, {t2}), Sub(t2, {t1})>>,
   <<Sub(t1, {t3}), Sub(t2, {})>>}

(* The replan just fits, is cut, or has more room than subtasks; one worker *)
(* at a time, or two.                                                       *)
MCLimits ==
  {[parallel |-> 2, total |-> 4, iterations |-> 2, project |-> TRUE],
   [parallel |-> 1, total |-> 3, iterations |-> 2, project |-> FALSE],
   [parallel |-> 2, total |-> 2, iterations |-> 1, project |-> FALSE]}

(* The run that is not considered stands in one way only. *)
OneStart ==
  /\ AnyInit
  /\ kind = "live" \/ scenario = CHOOSE s \in Scenarios : TRUE
  /\ kind = "planned" \/ policy = CHOOSE c \in Limits : TRUE

MCSpec == OneStart /\ [][AnyNext]_allVars /\ Fairness /\ P!Fairness
==============================================================================
