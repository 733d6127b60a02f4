------------------------------ MODULE Dispatch ------------------------------
(* How a run's tasks are carried out, one kind of run in each behaviour: a  *)
(* live leader that dispatches them (LiveDispatch), or a plan that the      *)
(* scheduler carries out (PlannedRun).                                      *)
EXTENDS LiveDispatch

CONSTANTS
  Kinds,                          \* the kinds of run considered: "live", "planned"
  Subs, Replies, Limits, MaxFaults  \* PlannedRun

VARIABLES
  kind,
  policy, phase, iteration, plan, asked, found, reported, budget, level, todo, slot, began,
  judged, stopped, faults, conclusion, verdict

P == INSTANCE PlannedRun WITH Tasks <- Subs, Plans <- Replies, Policies <- Limits,
       result <- found, control <- stopped

(* What the planned run asks of its constants. *)
ASSUME PlansAssumption == P!PlannedAssumption

plannedVars == <<policy, phase, iteration, plan, asked, found, reported, budget, level, todo, slot,
                 began, judged, stopped, faults, conclusion, verdict>>
allVars == <<kind, vars, plannedVars>>

(* The run that is not considered has ended before it began. *)
AnyInit ==
  /\ kind \in Kinds
  /\ IF kind = "live" THEN Init /\ P!Fresh("ended") ELSE Fresh("ended") /\ P!Init

AnyNext ==
  \/ kind = "live" /\ Next /\ UNCHANGED <<kind, plannedVars>>
  \/ kind = "planned" /\ P!Next /\ UNCHANGED <<kind, vars>>

(* No fair action of a run that has ended is enabled. *)
AnySpec == AnyInit /\ [][AnyNext]_allVars /\ Fairness /\ P!Fairness

(* A worker starts only when every producer has completed: of a dispatched  *)
(* task (LiveDispatch) and of a planned one (PlannedRun).                   *)
ProducersFirst == DependentsWait /\ P!ProducersFirst

(* No more workers are started than the run may start (PlannedRun). *)
BudgetHolds == P!BudgetHolds

(* A success has nothing failed, blocked or cancelled in it (PlannedRun). *)
SuccessIsEarned == P!SuccessIsEarned

(* Every run ends, with its leader freed of dispatches that never return    *)
(* (LiveDispatch), or with a verdict on its plans (PlannedRun).             *)
EveryRunEnds == RunEnds /\ P!RunEnds

(* A subtask with the output of what it depends on (PlannedRun). *)
InputsArrive == P!InputsArrive

(* No worker goes on without its run (PlannedRun). *)
WorkersEndWithRun == P!WorkersEndWithRun
=============================================================================
