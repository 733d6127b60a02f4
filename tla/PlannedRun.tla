----------------------------- MODULE PlannedRun -----------------------------
(***************************************************************************)
(* A run whose leader is not a live session (run() of orchestrator.ts,     *)
(* without a coordination team): a plan is asked for, the scheduler        *)
(* carries it out level by level with a bounded number of workers at a     *)
(* time and in all, the results are evaluated, a next plan may follow, and *)
(* the run is judged and published.                                        *)
(*                                                                         *)
(* A plan is a sequence of subtasks [id, on]; prompts are left out.  The   *)
(* graph of a healing run is that of LiveDispatch and left out here.       *)
(***************************************************************************)
EXTENDS Naturals, Sequences, FiniteSets, SequencesExt

CONSTANTS Tasks,      \* subtask ids
          Plans,      \* what the planner and the replanner may reply
          Policies,   \* [parallel, total, iterations: positive; project]
          MaxFaults   \* writes of the store that may fail while workers run

Subtasks == [id : Tasks, on : SUBSET Tasks]

PlannedAssumption ==
  /\ {"free", "off"} \cap Tasks = {}
  /\ Plans \subseteq Seq(Subtasks)
  /\ Policies \subseteq [parallel : Nat \ {0}, total : Nat \ {0}, iterations : Nat \ {0}, project : BOOLEAN]
  /\ MaxFaults \in Nat

Ids(p)   == {p[i].id : i \in DOMAIN p}
On(p, t) == UNION {p[i].on : i \in {k \in DOMAIN p : p[k].id = t}}
(* What the scheduler knows of a subtask's dependencies: those in its plan. *)
Known(p, t) == On(p, t) \cap Ids(p)

(* The first n levels of a plan, as Kahn's layering finds them.            *)
Upto(p, n) ==
  LET layers[k \in 0 .. n] ==
        IF k = 0 THEN {} ELSE {t \in Ids(p) : Known(p, t) \subseteq layers[k - 1]}
  IN layers[n]

(* parseLeaderPlan: distinct ids, dependencies within the plan, no cycle. *)
ValidPlan(p) ==
  /\ Cardinality(Ids(p)) = Len(p)
  /\ \A t \in Ids(p) : On(p, t) \subseteq Ids(p)
  /\ Upto(p, Len(p)) = Ids(p)

Answers == {p \in Plans : ValidPlan(p)}

VARIABLES
  policy,    \* the limits of the run
  phase,     \* where run() stands
  reported,  \* state.workerResults, as <<iteration, subtask, status>>
  began,     \* workers started since the run began
  judged,    \* the last evaluation
  conclusion, \* state.outcome
  iteration, \* state.iteration
  plan,      \* the plan of the iteration
  asked,     \* that plan before it was cut to the remaining budget
  result,    \* this execution's results: subtask -> status, or none
  budget,    \* worker runs the scheduler may still start
  level,     \* the level of the plan it carries out
  todo,      \* runnable subtasks of the level no pump has taken
  slot,      \* pump -> the subtask it runs, or free, or off
  control,   \* the run's terminal latch
  faults,
  verdict    \* the run's row

vars == <<policy, phase, iteration, plan, asked, result, reported, budget, level, todo, slot,
          began, judged, control, faults, conclusion, verdict>>
waveVars == <<budget, level, todo, slot, began>>
planVars == <<policy, iteration, plan, asked>>
endVars  == <<conclusion, verdict>>

Bad == {"failed", "blocked", "cancelled"}
Statuses == Bad \cup {"completed", "timed_out"}
Pumps == 1 .. policy.parallel
Running == {slot[p] : p \in DOMAIN slot} \ {"free", "off"}
Stopped == control # "open"

PlannedTypeOK ==
  /\ policy \in Policies
  /\ phase \in {"planning", "solo", "solo_turn", "iterate", "level", "wave", "settling", "merge", "evaluate",
                "replan", "judge", "synthesize", "publish", "failing", "ended"}
  /\ iteration \in 0 .. policy.iterations
  /\ plan \in Seq(Subtasks) /\ asked \in Seq(Subtasks)
  /\ result \in [Tasks -> Statuses \cup {"contribution", "none"}]
  /\ reported \subseteq (1 .. policy.iterations) \X Tasks \X Statuses
  /\ budget \in Nat /\ level \in Nat /\ began \in Nat /\ todo \in Seq(Tasks) /\ faults \in 0 .. MaxFaults
  /\ slot \in [Pumps -> Tasks \cup {"free", "off"}]
  /\ judged \in {"none", "unavailable", "sufficient", "insufficient"}
  /\ control \in {"open", "deadline", "cancelled"}
  /\ conclusion \in {"none", "succeeded", "partial", "failed", "unknown"}
  /\ verdict \in {"running", "completed", "failed", "cancelled"}

(* throwIfCancelled and assertActive before the next part. *)
Goes(next) == phase' = IF Stopped THEN "failing" ELSE next

NoResults == [t \in Tasks |-> "none"]

Fresh(start) ==
  /\ policy \in Policies
  /\ phase = start /\ iteration = 0 /\ plan = <<>> /\ asked = <<>>
  /\ result = NoResults /\ reported = {}
  /\ budget = 0 /\ level = 0 /\ todo = <<>> /\ slot = [p \in Pumps |-> "off"] /\ began = 0
  /\ judged = "none" /\ control = "open" /\ faults = 0
  /\ conclusion = "none" /\ verdict = "running"

Init == Fresh("planning")

RealRunsDone(rs) == Cardinality({r \in rs : r[3] = "completed"})
(* realRunCount: a blocked result has cost no worker. *)
RealRuns(rs) == Cardinality({r \in rs : r[3] # "blocked"})
Remaining == IF policy.total > RealRuns(reported) THEN policy.total - RealRuns(reported) ELSE 0

(***************************************************************************)
(* Planning.  The planner repairs a reply once and turns every error into  *)
(* "unavailable", the run's own end included; without a plan the leader    *)
(* works alone.                                                            *)
(***************************************************************************)
Planned ==
  /\ phase = "planning"
  /\ \/ \E p \in Answers \ {<<>>} :
          /\ phase' = "iterate" /\ iteration' = 1 /\ plan' = p /\ asked' = p
     \/ phase' = "solo" /\ UNCHANGED <<iteration, plan, asked>>
  /\ UNCHANGED <<policy, result, reported, waveVars, judged, control, faults, endVars>>

(* runSoloFallback: one turn in a race with the run's end, and no look at  *)
(* it afterwards; a turn without a result fails the run.                   *)
SoloTurn ==
  /\ phase = "solo"
  /\ Goes("solo_turn")
  /\ UNCHANGED <<planVars, result, reported, waveVars, judged, control, faults, endVars>>

SoloEnds ==
  /\ phase = "solo_turn"
  /\ \/ phase' = "ended" /\ verdict' \in {"completed", "failed"}
     \/ phase' = "failing" /\ UNCHANGED verdict
  /\ UNCHANGED <<planVars, result, reported, waveVars, judged, control, faults, conclusion>>

(***************************************************************************)
(* The loop, and Scheduler.execute.                                        *)
(***************************************************************************)
BeginIteration ==
  /\ phase = "iterate"
  /\ Goes("level")
  /\ budget' = Remaining /\ level' = 1
  /\ result' = NoResults
  /\ UNCHANGED <<planVars, reported, todo, slot, began, judged, control, faults, endVars>>

MetSome(t) == Known(plan, t) = {} \/ \E d \in Known(plan, t) : result[d] = "completed"
Met(t) == \A d \in Known(plan, t) : result[d] = "completed"

(* The entries of a sequence that are in S, in order. *)
Kept(s, S) ==
  LET upto[n \in 0 .. Len(s)] ==
        IF n = 0 THEN <<>>
        ELSE IF s[n] \in S THEN Append(upto[n - 1], s[n]) ELSE upto[n - 1]
  IN upto[Len(s)]

Listed(p) == [i \in DOMAIN p |-> p[i].id]
LevelTasks == Kept(Listed(plan), Upto(plan, level) \ Upto(plan, level - 1))

(* A level: what is unmet or beyond the budget is blocked, the others run, *)
(* the first of them at once.                                              *)
StartLevel ==
  LET met == Kept(LevelTasks, {t \in Tasks : Met(t)})
      n   == IF Len(met) < budget THEN Len(met) ELSE budget
      m   == IF n < policy.parallel THEN n ELSE policy.parallel IN
  /\ phase = "level" /\ LevelTasks # <<>>
  /\ IF Stopped
     THEN phase' = "failing" /\ UNCHANGED <<result, budget, todo, slot, began>>
     ELSE /\ phase' = "wave"
          /\ result' = [t \in Tasks |->
                          IF t \in Range(LevelTasks) \ Range(SubSeq(met, 1, n)) THEN "blocked"
                          ELSE result[t]]
          /\ budget' = budget - n
          /\ slot' = [p \in Pumps |-> IF p <= m THEN met[p] ELSE "off"]
          /\ todo' = SubSeq(met, m + 1, n)
          /\ began' = began + m
  /\ UNCHANGED <<planVars, reported, level, judged, control, faults, endVars>>

LevelsDone ==
  /\ phase = "level" /\ LevelTasks = <<>>
  /\ phase' = "merge"
  /\ UNCHANGED <<planVars, result, reported, waveVars, judged, control, faults, endVars>>

(* A pump takes the next subtask, unless the run has ended: then the whole *)
(* execution is rejected, and the other pumps go on by themselves.         *)
PumpTakes(p) ==
  /\ slot[p] = "free"
  /\ IF todo = <<>>
     THEN slot' = [slot EXCEPT ![p] = "off"] /\ UNCHANGED <<todo, began, phase>>
     ELSE /\ todo' = Tail(todo)
          /\ IF Stopped
             THEN /\ slot' = [slot EXCEPT ![p] = "off"] /\ UNCHANGED began
                  /\ phase' = IF phase = "wave" THEN "failing" ELSE phase
             ELSE /\ slot' = [slot EXCEPT ![p] = Head(todo)] /\ began' = began + 1
                  /\ UNCHANGED phase
  /\ UNCHANGED <<planVars, result, reported, budget, level, judged, control, faults, endVars>>

(* runSubtask returns a result, or throws: the run's terminal error, or a  *)
(* failing write of a row it cannot do without.                            *)
WorkerReturns(p) ==
  /\ slot[p] \notin {"free", "off"}
  /\ \/ /\ \E s \in {"completed", "failed", "timed_out"} \cup (IF Stopped THEN {"cancelled"} ELSE {}) :
             result' = [result EXCEPT ![slot[p]] =
                          IF s = "completed" /\ policy.project THEN "contribution" ELSE s]
        /\ slot' = [slot EXCEPT ![p] = "free"]
        /\ UNCHANGED <<phase, faults>>
     \/ /\ \/ Stopped /\ UNCHANGED faults
           \/ faults < MaxFaults /\ faults' = faults + 1
        /\ slot' = [slot EXCEPT ![p] = "off"]
        /\ phase' = IF phase = "wave" THEN "failing" ELSE phase
        /\ UNCHANGED result
  /\ UNCHANGED <<planVars, reported, budget, level, todo, began, judged, control, endVars>>

WaveEnds ==
  /\ phase = "wave" /\ \A p \in Pumps : slot[p] = "off"
  /\ phase' = "settling"
  /\ UNCHANGED <<planVars, result, reported, waveVars, judged, control, faults, endVars>>

(* settleAndHealProjectWave, one contribution after the other in the order *)
(* of the plan; a cancellation in between makes a settlement throw.        *)
Contributed == Kept(LevelTasks, {t \in Tasks : result[t] = "contribution"})

Settle ==
  /\ phase = "settling"
  /\ IF Contributed = <<>>
     THEN phase' = "level" /\ level' = level + 1 /\ UNCHANGED result
     ELSE /\ UNCHANGED level
          /\ \/ /\ \E s \in {"completed", "failed"} :
                     result' = [result EXCEPT ![Head(Contributed)] = s]
                /\ UNCHANGED phase
             \/ Stopped /\ phase' = "failing" /\ UNCHANGED result
  /\ UNCHANGED <<planVars, reported, budget, todo, slot, began, judged, control, faults, endVars>>

Merge ==
  /\ phase = "merge"
  /\ reported' = reported \cup {<<iteration, t, result[t]>> : t \in Ids(plan)}
  /\ Goes("evaluate")
  /\ UNCHANGED <<planVars, result, waveVars, judged, control, faults, endVars>>

(***************************************************************************)
(* The evaluation, and the next plan.  The replanner has no repair; its    *)
(* plan, which may be empty, is cut to the worker runs that are left.      *)
(***************************************************************************)
MostTimedOut ==
  LET tried == {t \in Ids(plan) : result[t] # "blocked"}
      late  == {t \in tried : result[t] = "timed_out"}
  IN late # {} /\ 2 * Cardinality(late) >= Cardinality(tried)

Enough ==
  \/ iteration >= policy.iterations
  \/ RealRuns(reported) >= policy.total
  \/ MostTimedOut

Evaluate ==
  /\ phase = "evaluate"
  /\ judged' \in {"unavailable", "sufficient", "insufficient"}
  /\ phase' = IF judged' = "insufficient" /\ ~Enough THEN "replan" ELSE "judge"
  /\ UNCHANGED <<planVars, result, reported, waveVars, control, faults, endVars>>

Replan ==
  /\ phase = "replan"
  /\ \/ phase' = "judge" /\ UNCHANGED <<iteration, plan, asked>>
     \/ \E p \in Answers :
          /\ phase' = "iterate" /\ iteration' = iteration + 1
          /\ asked' = p
          /\ plan' = SubSeq(p, 1, IF Len(p) < Remaining THEN Len(p) ELSE Remaining)
  /\ UNCHANGED <<policy, result, reported, waveVars, judged, control, faults, endVars>>

(***************************************************************************)
(* The end.  A result that failed, was blocked or was cancelled in any     *)
(* iteration fails the run, whatever a later plan has made of it.          *)
(***************************************************************************)
UnresolvedNow(rs) == {r \in rs : r[1] = iteration /\ r[3] \in Bad}
Unresolved(rs) == {r \in rs : r[3] \in Bad}

(* resolveOutcome, with protocol violations left out. *)
Resolved ==
  CASE judged = "sufficient" -> "succeeded"
    [] judged = "insufficient" /\ (\E r \in reported : r[3] = "completed") -> "partial"
    [] judged = "insufficient" -> "failed"
    [] OTHER -> "unknown"

Judge ==
  /\ phase = "judge"
  /\ IF Unresolved(reported) # {}
     THEN conclusion' = "failed" /\ verdict' = "failed" /\ phase' = "ended"
     ELSE conclusion' = Resolved /\ phase' = "synthesize" /\ UNCHANGED verdict
  /\ UNCHANGED <<planVars, result, reported, waveVars, judged, control, faults>>

(* The summary, which falls back to the results; then the project's        *)
(* baseline, whose refusal has failed the run already (ProjectBaseline).   *)
Synthesize ==
  /\ phase = "synthesize"
  /\ \/ phase' = "publish" /\ UNCHANGED verdict
     \/ policy.project /\ phase' = "failing" /\ UNCHANGED verdict
     \/ policy.project /\ phase' = "ended" /\ verdict' = "failed"
  /\ UNCHANGED <<planVars, result, reported, waveVars, judged, control, faults, conclusion>>

Publish ==
  /\ phase = "publish"
  /\ IF Stopped THEN phase' = "failing" /\ UNCHANGED verdict
                ELSE phase' = "ended" /\ verdict' = "completed"
  /\ UNCHANGED <<planVars, result, reported, waveVars, judged, control, faults, conclusion>>

(* The catch: the run's own end cuts its workers off first; after another  *)
(* error workers that still run are left to themselves.                    *)
Fail ==
  /\ phase = "failing"
  /\ phase' = "ended"
  /\ verdict' = IF control = "cancelled" THEN "cancelled" ELSE "failed"
  /\ conclusion' = IF conclusion # "none" THEN conclusion
                ELSE IF control = "cancelled" THEN "unknown" ELSE "failed"
  /\ UNCHANGED <<planVars, result, reported, waveVars, judged, control, faults>>

(* The deadline, or cancel(). *)
Stop ==
  /\ control = "open" /\ phase # "ended"
  /\ control' \in {"deadline", "cancelled"}
  /\ UNCHANGED <<planVars, phase, result, reported, waveVars, judged, faults, endVars>>

LeaderStep ==
  \/ Planned \/ SoloTurn \/ SoloEnds \/ BeginIteration \/ StartLevel \/ LevelsDone \/ WaveEnds \/ Settle
  \/ Merge \/ Evaluate \/ Replan \/ Judge \/ Synthesize \/ Publish \/ Fail

PumpStep(p) == PumpTakes(p) \/ WorkerReturns(p)

Next == LeaderStep \/ Stop \/ \E p \in Pumps : PumpStep(p)

(* Code that can run does run, a call of the leader's model and a worker's *)
(* turn come to an end; nothing makes the deadline or the owner stop it.   *)
Fairness == WF_vars(LeaderStep) /\ WF_vars(\E p \in Pumps : PumpStep(p))

Spec == Init /\ [][Next]_vars /\ Fairness

-----------------------------------------------------------------------------
(* A worker is started only when every producer its plan names has         *)
(* completed, its contribution settled.                                    *)
ProducersFirst ==
  [][\A t \in Tasks : (\E p \in Pumps : slot[p] # t /\ slot'[p] = t) =>
        \A d \in Known(plan, t) : result[d] = "completed"]_vars

(* Over all iterations, with workers of one level in parallel, blocked     *)
(* subtasks that cost nothing and a plan cut to size, no more workers are  *)
(* started than maxTotalWorkerRuns (policies.ts).                          *)
BudgetHolds == began <= policy.total

(* A run is called a success only by an evaluator that saw it all, with    *)
(* nothing failed, blocked or cancelled in any iteration.                  *)
SuccessIsEarned ==
  phase = "ended" /\ conclusion = "succeeded" =>
    judged = "sufficient" /\ \A r \in reported : r[3] \in {"completed", "timed_out"}

(* Every run ends, with a verdict. *)
RunEnds == phase # "ended" ~> phase = "ended" /\ verdict # "running"

(* What the code does not keep.  A next plan that is cut to the remaining  *)
(* budget loses producers, and their dependents run without them.          *)
InputsArrive ==
  [][\A t \in Tasks : (\E p \in Pumps : slot[p] # t /\ slot'[p] = t) =>
        \A d \in On(asked, t) : result[d] = "completed"]_vars

(* Nor this: after a worker's failing write the run ends while others work *)
(* on, and even starts more of them.                                       *)
WorkersEndWithRun == phase = "ended" /\ ~Stopped => Running = {}
=============================================================================
