--------------------------- MODULE LiveDispatch ---------------------------
(***************************************************************************)
(* A run whose leader is a live session (runCodexLeader of                 *)
(* orchestrator.ts): the leader dispatches tasks through the tool          *)
(* dispatch_subagent, workers' turns run in the background, dependents     *)
(* wait for their producers or are parked until a resume or settle loop    *)
(* finds them, failed producers are repaired behind a fence, and the run   *)
(* ends by a judgement, a deadline or a cancellation.                      *)
(*                                                                         *)
(* A turn is <<task, n>>: the n-th execution of runWorker for the task.    *)
(* Code between two awaits is one action.  The run's results exist twice:  *)
(* in memory, where runWorker pushes them, and in the store, which a save  *)
(* replaces by the memory's, and which settling a parked dependent copies  *)
(* back.                                                                   *)
(***************************************************************************)
EXTENDS Naturals, Sequences, FiniteSets, SequencesExt

CONSTANTS NTasks,     \* tasks are numbered in the order the leader asks for them
          Scenarios,  \* the runs considered: see Shapes
          NoTurn

Tasks  == 1 .. NTasks
Turns  == Tasks \X {1, 2}       \* 2: a start that a second resume loop repeats
TheCall   == <<0, 1>>           \* the walk of a dispatch, and of cancel()
TheCancel == <<0, 2>>
Loops  == Turns \cup {TheCall, TheCancel}
Bad    == {"failed", "blocked", "cancelled"}
Status == Bad \cup {"completed", "timed_out"}

Shapes == [healing : BOOLEAN, cancels : BOOLEAN, leader : {"coordinator", "contributor", "research"},
           deps : [Tasks -> SUBSET Tasks], git : SUBSET Tasks, wait : SUBSET Tasks]

ASSUME DispatchAssumption ==
  /\ NTasks \in Nat
  /\ NoTurn \notin Turns
  /\ Scenarios \subseteq Shapes

VARIABLES
  scenario,   \* healing, the leader's kind, whether the owner may cancel, and the
              \* dispatched tasks: dependsOn, requiresGitContribution, wait
  next,       \* the task of the leader's next request
  planned,    \* tasks in the live plan (with healing: the admitted nodes)
  node,       \* healing.nodes[task].state
  place,      \* where each turn is
  result,     \* the result a turn has computed and not yet pushed
  agenda,     \* what a resume or settle loop still has to visit
  memory,     \* state.workerResults, as <<task, status>>
  durable,    \* the same in the store
  parked,     \* blockedStarts, in insertion order
  tracked,    \* backgroundDispatches
  lock,       \* the holder of the run's authority lock
  fence,      \* the turn whose tournament holds repairGraphFence
  call,       \* the leader's pending dispatch: none, asked, or settle
  cancel,     \* the cancel() call: none, settle, stuck, fence, done
  control,    \* the run's terminal latch
  leader, outcome

vars == <<scenario, next, planned, node, place, result, agenda, memory, durable,
          parked, tracked, lock, fence, call, cancel, control, leader, outcome>>
turnVars   == <<place, result, agenda, tracked>>
graphVars  == <<scenario, next, planned>>
recordVars == <<memory, durable>>
endVars    == <<cancel, control, leader, outcome>>

Nodes  == {"none", "pending", "ready", "running", "blocked", "integrating", "repairing",
           "completed", "failed", "cancelled"}
Places == {"none", "begin", "running", "settling", "integrating", "heal", "repairing",
           "push", "save", "look", "starting", "settle", "recording", "done"}

Healing   == scenario.healing
Project   == scenario.leader # "research"
Deps(t)   == scenario.deps[t]
Git(t)    == Project /\ t \in scenario.git
Task(a)   == a[1]
ResultsOf(t, rs) == {r[2] : r \in {x \in rs : x[1] = t}}
HasResult(t, rs) == ResultsOf(t, rs) # {}
Reported(rs)     == {r[1] : r \in rs}

(***************************************************************************)
(* terminalOf and assertActive: releaseControl forgets the latch, and the  *)
(* control made afterwards is open.                                        *)
(***************************************************************************)
Stopped == control # "open" /\ leader # "ended"

TypeOK ==
  /\ scenario \in Shapes
  /\ next \in 1 .. NTasks + 1
  /\ planned \subseteq Tasks
  /\ node \in [Tasks -> Nodes]
  /\ place \in [Turns -> Places]
  /\ result \in [Turns -> Status \cup {"none"}]
  /\ agenda \in [Loops -> Seq(Tasks)]
  /\ memory \subseteq Tasks \X Status /\ durable \subseteq Tasks \X Status
  /\ parked \in Seq(Tasks)
  /\ tracked \subseteq Turns
  /\ lock \in Turns \cup {NoTurn} /\ fence \in Turns \cup {NoTurn}
  /\ call \in {"none", "asked", "settle", "recording"}
  /\ cancel \in {"none", "settle", "recording", "fence", "done"}
  /\ control \in {"open", "deadline", "cancelled"}
  /\ leader \in {"turn", "drain", "failing", "closing", "ended"}
  /\ outcome \in {"none", "succeeded", "unestablished", "failed", "cancelled"}

Fresh(start) ==
  /\ scenario \in Scenarios
  /\ next = 1 /\ planned = {}
  /\ node = [t \in Tasks |-> "none"]
  /\ place = [a \in Turns |-> "none"] /\ result = [a \in Turns |-> "none"]
  /\ agenda = [l \in Loops |-> <<>>]
  /\ memory = {} /\ durable = {}
  /\ parked = <<>> /\ tracked = {}
  /\ lock = NoTurn /\ fence = NoTurn
  /\ call = "none" /\ cancel = "none"
  /\ control = "open" /\ leader = start /\ outcome = "none"

Init == Fresh("turn")

(***************************************************************************)
(* dispatchFromLeader.  Without healing the task enters the plan before    *)
(* its dependencies are checked, so a refused task stays in it and counts  *)
(* as known for later ones; the turn starts at once and waits inside.      *)
(***************************************************************************)
DispatchPlain ==
  LET t == next IN
  /\ leader = "turn" /\ control = "open" /\ ~Healing /\ t \in Tasks
  /\ next' = next + 1
  /\ planned' = planned \cup {t}
  /\ IF Deps(t) \subseteq planned \cup Reported(memory)
     THEN /\ place' = [place EXCEPT ![<<t, 1>>] = "begin"]
          /\ tracked' = IF t \in scenario.wait THEN tracked ELSE tracked \cup {<<t, 1>>}
     ELSE UNCHANGED <<place, tracked>>
  /\ durable' = memory
  /\ UNCHANGED <<scenario, node, result, agenda, memory, parked, lock, fence, call, endVars>>

(***************************************************************************)
(* With healing the request first waits for the authority lock: the run    *)
(* may have been stopped, or the leader's turn have ended, when it is      *)
(* admitted.                                                               *)
(***************************************************************************)
AskDispatch ==
  /\ leader = "turn" /\ control = "open" /\ Healing /\ call = "none" /\ next \in Tasks
  /\ call' = "asked"
  /\ UNCHANGED <<graphVars, node, turnVars, recordVars, parked, lock, fence, endVars>>

RefuseFrozen ==
  /\ call = "asked" /\ lock = NoTurn /\ fence # NoTurn
  /\ call' = "none"
  /\ UNCHANGED <<graphVars, node, turnVars, recordVars, parked, lock, fence, endVars>>

(***************************************************************************)
(* A dependency that has not been admitted is an error of the call.        *)
(***************************************************************************)
RefuseUnknown ==
  /\ call = "asked" /\ lock = NoTurn /\ fence = NoTurn
  /\ ~(Deps(next) \subseteq planned)
  /\ call' = "none" /\ next' = next + 1
  /\ UNCHANGED <<scenario, planned, node, turnVars, recordVars, parked, lock, fence, endVars>>

(* The entries of a sequence that are in S, in order. *)
Kept(s, S) ==
  LET upto[n \in 0 .. Len(s)] ==
        IF n = 0 THEN <<>>
        ELSE IF s[n] \in S THEN Append(upto[n - 1], s[n]) ELSE upto[n - 1]
  IN upto[Len(s)]

BehindOf(d, queue) == Kept(queue, {t \in Tasks : d \in Deps(t)})
Without(queue, t)  == Kept(queue, Tasks \ {t})

Incomplete(t) == {d \in Deps(t) : node[d] # "completed"}
TerminalUnseen(t) == {}
TerminalDeps(t) == {d \in Deps(t) : ResultsOf(d, memory) \cap Bad # {}}

Admit ==
  LET t == next IN
  /\ call = "asked" /\ lock = NoTurn /\ fence = NoTurn
  /\ Deps(t) \subseteq planned
  /\ next' = next + 1 /\ planned' = planned \cup {t}
  /\ node' = [node EXCEPT ![t] = IF Incomplete(t) = {} THEN "ready" ELSE "blocked"]
  /\ durable' = memory
  /\ IF Incomplete(t) = {}
     THEN /\ place' = [place EXCEPT ![<<t, 1>>] = "begin"]
          /\ tracked' = IF t \in scenario.wait THEN tracked ELSE tracked \cup {<<t, 1>>}
          /\ call' = "none"
          /\ UNCHANGED <<agenda, parked>>
     ELSE /\ IF TerminalDeps(t) = {}
             THEN call' = "none" /\ parked' = Append(parked, t) /\ UNCHANGED agenda
             ELSE /\ call' = "settle"
                  /\ \E d \in TerminalDeps(t) :
                       /\ agenda' = [agenda EXCEPT ![TheCall] = BehindOf(d, Append(parked, t))]
                       /\ parked' = Without(Append(parked, t), Head(agenda'[TheCall]))
          /\ UNCHANGED <<place, tracked>>
  /\ UNCHANGED <<scenario, result, memory, lock, fence, endVars>>

(***************************************************************************)
(* The head of runWorker.  Without healing it polls for the results of its *)
(* dependencies; the loop looks at the leader's cancellation and at the    *)
(* tracked dispatches, never at the latch.                                 *)
(***************************************************************************)
Upstream(t) == {r \in memory : r[1] \in Deps(t)}
Handed(t)   == Deps(t) \subseteq Reported(memory)

StartsWork(a) ==
  LET t == Task(a) IN
  /\ place' = [place EXCEPT ![a] = "running"]
  /\ node' = IF Healing /\ Git(t) /\ node[t] \in {"ready", "pending"}
             THEN [node EXCEPT ![t] = "running"] ELSE node
  /\ UNCHANGED result

BeginTurn(a) ==
  LET t == Task(a) IN
  /\ place[a] = "begin" /\ (Healing \/ Handed(t))
  /\ (Deps(t) = {} \/ Healing \/ control # "cancelled")
  /\ IF \A r \in Upstream(t) : r[2] = "completed"
     THEN StartsWork(a)
     ELSE /\ place' = [place EXCEPT ![a] = "push"]
          /\ result' = [result EXCEPT ![a] = "blocked"]
          /\ UNCHANGED node
  /\ UNCHANGED <<graphVars, agenda, recordVars, parked, tracked, lock, fence, call, endVars>>

WaitGivesUp(a) ==
  /\ place[a] = "begin" /\ ~Healing /\ Deps(Task(a)) # {}
  /\ \/ control = "cancelled" /\ leader # "ended"
     \/ tracked = {} /\ ~Handed(Task(a))
  /\ place' = [place EXCEPT ![a] = "push"]
  /\ result' = [result EXCEPT ![a] = "failed"]
  /\ UNCHANGED <<graphVars, node, agenda, recordVars, parked, tracked, lock, fence, call, endVars>>

(***************************************************************************)
(* The end of a turn whose promise rejects with the terminal error: no     *)
(* result is recorded, nothing is resumed.                                 *)
(***************************************************************************)
EndTurn(a) == place' = [place EXCEPT ![a] = "done"] /\ tracked' = tracked \ {a}

Aborted(a) ==
  /\ place[a] \in {"running", "settling", "push"} /\ Stopped
  /\ place[a] = "settling" => lock = NoTurn
  /\ EndTurn(a)
  /\ UNCHANGED <<graphVars, node, result, agenda, recordVars, parked, lock, fence, call, endVars>>

(***************************************************************************)
(* runSubtask: the worker's turn with its validation and its attempt; a    *)
(* contribution goes on to its settlement.  The attempt of a repeated turn *)
(* is refused, its id being taken.                                         *)
(***************************************************************************)
WorkerReturns(a) ==
  LET t == Task(a) IN
  /\ place[a] = "running" /\ ~Stopped
  /\ \/ Git(t) /\ a[2] = 1 /\ place' = [place EXCEPT ![a] = "settling"] /\ UNCHANGED result
     \/ ~Git(t) /\ result' = [result EXCEPT ![a] = "completed"]
                /\ place' = [place EXCEPT ![a] = "push"]
     \/ \E s \in {"failed", "timed_out"} :
          /\ result' = [result EXCEPT ![a] = s]
          /\ place' = [place EXCEPT ![a] = IF Git(t) THEN "heal" ELSE "push"]
  /\ node' = IF Healing /\ ~Project /\ result'[a] \in {"failed", "timed_out"}
             THEN [node EXCEPT ![t] = "failed"] ELSE node
  /\ UNCHANGED <<graphVars, agenda, recordVars, parked, tracked, lock, fence, call, endVars>>

(***************************************************************************)
(* settleProjectContribution under the lock, in two steps: verification    *)
(* admits the contribution by a compare-and-set on the node, integration   *)
(* settles it.  A cancellation in between makes it throw.                  *)
(***************************************************************************)
Verifiable == {"pending", "ready", "blocked", "running", "failed"}

EnterSettlement(a) ==
  LET t == Task(a) IN
  /\ place[a] = "settling" /\ lock = NoTurn /\ ~Stopped
  /\ IF Healing /\ node[t] \notin Verifiable
     THEN /\ place' = [place EXCEPT ![a] = "heal"]
          /\ result' = [result EXCEPT ![a] = "failed"]
          /\ UNCHANGED <<node, lock>>
     ELSE /\ place' = [place EXCEPT ![a] = "integrating"]
          /\ lock' = a
          /\ node' = IF Healing THEN [node EXCEPT ![t] = "integrating"] ELSE node
          /\ UNCHANGED result
  /\ UNCHANGED <<graphVars, agenda, recordVars, parked, tracked, fence, call, endVars>>

SettleContribution(a) ==
  LET t == Task(a) IN
  /\ place[a] = "integrating" /\ lock' = NoTurn
  /\ \/ \E s \in {"completed", "failed"} :
          /\ result' = [result EXCEPT ![a] = s]
          /\ place' = [place EXCEPT ![a] = IF s = "failed" THEN "heal" ELSE "push"]
          /\ node' = IF Healing THEN [node EXCEPT ![t] = s] ELSE node
          /\ UNCHANGED tracked
     \/ /\ Stopped
        /\ EndTurn(a)
        /\ node' = IF Healing THEN [node EXCEPT ![t] = "cancelled"] ELSE node
        /\ UNCHANGED result
  /\ UNCHANGED <<graphVars, agenda, recordVars, parked, fence, call, endVars>>

(***************************************************************************)
(* A failed contribution: the node fails, its dependents are blocked, and  *)
(* one healing decision is taken.  The fence is claimed under the lock; a  *)
(* fence of another task makes the repair unavailable.                     *)
(***************************************************************************)
Dependents(t) == {d \in planned : t \in Deps(d) /\ node[d] \notin {"completed", "cancelled"}}
Claimable(t)  == node[t] \in {"failed", "running"} /\ fence = NoTurn /\ lock = NoTurn

Heal(a) ==
  LET t == Task(a) IN
  /\ place[a] = "heal"
  /\ LET failed == IF node[t] \in {"completed", "cancelled", "repairing", "integrating"}
                   THEN node[t] ELSE "failed"
         after  == [x \in Tasks |-> IF x = t THEN failed
                                    ELSE IF x \in Dependents(t) THEN "blocked" ELSE node[x]]
     IN \/ /\ Healing /\ ~Stopped /\ Claimable(t) /\ a[2] = 1
           /\ node' = [after EXCEPT ![t] = "repairing"]
           /\ fence' = a
           /\ place' = [place EXCEPT ![a] = "repairing"]
           /\ UNCHANGED result
        \/ /\ node' = IF Healing THEN after ELSE node
           /\ place' = [place EXCEPT ![a] = "push"]
           /\ result' = [result EXCEPT ![a] = IF Healing THEN "failed" ELSE @]
           /\ UNCHANGED fence
  /\ UNCHANGED <<graphVars, agenda, recordVars, parked, tracked, lock, call, endVars>>

FinishRepair(a) ==
  LET t == Task(a) IN
  /\ place[a] = "repairing" /\ lock = NoTurn
  /\ fence' = NoTurn
  /\ place' = [place EXCEPT ![a] = "push"]
  /\ \E s \in {"completed", "failed"} :
       /\ Stopped => s = "failed"
       /\ result' = [result EXCEPT ![a] = s]
       /\ node' = [node EXCEPT ![t] = s]
  /\ UNCHANGED <<graphVars, agenda, recordVars, parked, tracked, lock, call, endVars>>

(***************************************************************************)
(* The turn's result enters the run's results, which are saved; then the   *)
(* leader is notified (its runtime's wake, modelled in TeamCoordination),  *)
(* and the parked dependents are looked through.                           *)
(***************************************************************************)
Push(a) ==
  /\ place[a] = "push" /\ ~Stopped
  /\ memory' = memory \cup {<<Task(a), result[a]>>}
  /\ place' = [place EXCEPT ![a] = "save"]
  /\ UNCHANGED <<graphVars, node, result, agenda, durable, parked, tracked, lock, fence, call,
                 endVars>>

Save(a) ==
  /\ place[a] = "save"
  /\ durable' = memory
  /\ place' = [place EXCEPT ![a] = "look"]
  /\ UNCHANGED <<graphVars, node, result, agenda, memory, parked, tracked, lock, fence, call,
                 endVars>>

ReadyWhenAny(t) == \E d \in Deps(t) : node[d] = "completed"
(***************************************************************************)
(* resumeBlockedDependents walks a snapshot of the parked starts.  It runs *)
(* without a pause up to the first one whose producers are all complete,   *)
(* unparks it and waits for its node to be made ready; the start that      *)
(* follows goes on to the next one.                                        *)
(***************************************************************************)
Ready(t) == Incomplete(t) = {}

Resume(a, queue) ==
  LET found == SelectInSeq(queue, Ready) IN
  IF found = 0
  THEN /\ agenda' = [agenda EXCEPT ![a] = <<>>]
       /\ UNCHANGED parked
  ELSE /\ agenda' = [agenda EXCEPT ![a] = SubSeq(queue, found, Len(queue))]
       /\ parked' = Without(parked, queue[found])

LookForReady(a) ==
  /\ place[a] = "look" /\ result[a] = "completed"
  /\ Resume(a, parked)
  /\ IF agenda'[a] = <<>> THEN EndTurn(a)
     ELSE place' = [place EXCEPT ![a] = "starting"] /\ UNCHANGED tracked
  /\ UNCHANGED <<graphVars, node, result, recordVars, lock, fence, call, endVars>>

StartParked(a) ==
  LET t == Head(agenda[a])
      u == IF place[<<t, 1>>] = "none" THEN <<t, 1>> ELSE <<t, 2>> IN
  /\ place[a] = "starting" /\ place[u] = "none"
  /\ node' = [node EXCEPT ![t] = IF @ \in {"completed", "cancelled"} THEN @ ELSE "ready"]
  /\ Resume(a, Tail(agenda[a]))
  /\ place' = [place EXCEPT ![u] = "begin",
                            ![a] = IF agenda'[a] = <<>> THEN "done" ELSE "starting"]
  /\ tracked' = (tracked \cup {u}) \ (IF agenda'[a] = <<>> THEN {a} ELSE {})
  /\ UNCHANGED <<graphVars, result, recordVars, lock, fence, call, endVars>>

(***************************************************************************)
(* settleBlockedDependents, run by a turn that did not complete, by a      *)
(* dispatch that finds a producer already terminal and by cancel().  Each  *)
(* dependent it unparks is settled in two writes of the store.  The first  *)
(* is a compare-and-set on the node, and the walk is given up when it      *)
(* fails.  The second adds a blocked result and replaces the results in    *)
(* memory by the stored ones.                                              *)
(***************************************************************************)
At(l) == IF l = TheCall THEN call ELSE IF l = TheCancel THEN cancel ELSE place[l]

MoveTo(l, p) ==
  /\ call'   = IF l = TheCall THEN p ELSE call
  /\ cancel' = IF l = TheCancel THEN p ELSE cancel
  /\ IF l \notin Turns THEN UNCHANGED <<place, tracked>>
     ELSE /\ place' = [place EXCEPT ![l] = p]
          /\ tracked' = IF p = "done" THEN tracked \ {l} ELSE tracked

Finished(l) == IF l = TheCall THEN "none" ELSE IF l = TheCancel THEN "fence" ELSE "done"
GivenUp(l)  == IF l = TheCall THEN "none" ELSE "done"

LookForBlocked(a) ==
  LET queue == BehindOf(Task(a), parked) IN
  /\ place[a] = "look" /\ result[a] # "completed"
  /\ agenda' = [agenda EXCEPT ![a] = queue]
  /\ IF queue = <<>> THEN EndTurn(a) /\ UNCHANGED parked
     ELSE /\ place' = [place EXCEPT ![a] = "settle"]
          /\ parked' = Without(parked, Head(queue))
          /\ UNCHANGED tracked
  /\ UNCHANGED <<graphVars, node, result, recordVars, lock, fence, call, endVars>>

Parkable == {"pending", "ready", "blocked"}

SettleNode(l) ==
  LET t == Head(agenda[l]) IN
  /\ At(l) = "settle"
  /\ IF node[t] \in Parkable
     THEN node' = [node EXCEPT ![t] = "blocked"] /\ MoveTo(l, "recording")
     ELSE UNCHANGED node /\ MoveTo(l, GivenUp(l))
  /\ UNCHANGED <<graphVars, result, agenda, recordVars, parked, lock, fence, control, leader,
                 outcome>>

RecordBlocked(l) ==
  LET t == Head(agenda[l])  rest == Tail(agenda[l]) IN
  /\ At(l) = "recording"
  /\ durable' = durable \cup (IF HasResult(t, durable) THEN {} ELSE {<<t, "blocked">>})
  /\ memory' = durable'
  /\ agenda' = [agenda EXCEPT ![l] = rest]
  /\ IF rest = <<>> THEN MoveTo(l, Finished(l)) /\ UNCHANGED parked
     ELSE MoveTo(l, "settle") /\ parked' = Without(parked, Head(rest))
  /\ UNCHANGED <<graphVars, node, result, lock, fence, control, leader, outcome>>

(***************************************************************************)
(* The end of the run.  cancel() stops the control, settles everything     *)
(* parked, and under the authority lock marks the attempts cancelled.      *)
(***************************************************************************)
Deadline ==
  /\ control = "open" /\ leader # "ended"
  /\ control' = "deadline"
  /\ UNCHANGED <<graphVars, node, turnVars, recordVars, parked, lock, fence, call, cancel,
                 leader, outcome>>

Cancel ==
  /\ cancel = "none" /\ leader # "ended" /\ scenario.cancels
  /\ control' = "cancelled"
  /\ agenda' = [agenda EXCEPT ![TheCancel] = parked]
  /\ IF parked = <<>> THEN cancel' = "fence" /\ UNCHANGED parked
     ELSE cancel' = "settle" /\ parked' = Tail(parked)
  /\ UNCHANGED <<graphVars, node, place, result, tracked, recordVars, lock, fence, call, leader,
                 outcome>>

CancelFence ==
  /\ cancel = "fence" /\ lock = NoTurn
  /\ cancel' = "done"
  /\ UNCHANGED <<graphVars, node, turnVars, recordVars, parked, lock, fence, call, control,
                 leader, outcome>>

(***************************************************************************)
(* The leader's turn returns, or it is cut off by the stop or fails.  The  *)
(* tracked dispatches are drained first: until none is left, or the run    *)
(* is stopped.                                                             *)
(***************************************************************************)
LeaderReturns ==
  /\ leader = "turn"
  /\ leader' \in IF Stopped THEN {"failing"} ELSE {"drain", "failing"}
  /\ UNCHANGED <<graphVars, node, turnVars, recordVars, parked, lock, fence, call, cancel,
                 control, outcome>>

DrainForever == tracked = {}
Drained == tracked = {} \/ Stopped

Ending == IF control = "cancelled" THEN "cancelled" ELSE "failed"

LeaderFails ==
  /\ \/ leader = "failing" /\ Drained
     \/ leader = "drain" /\ Stopped
  /\ leader' = "closing" /\ outcome' = Ending
  /\ UNCHANGED <<graphVars, node, turnVars, recordVars, parked, lock, fence, call, cancel,
                 control>>

Unresolved(rs) == {r \in rs : r[2] \in Bad}
Drains == leader = "drain" /\ ~Stopped /\ tracked = {}
Judged(verdict) ==
  /\ leader' = "closing" /\ outcome' = verdict
  /\ UNCHANGED <<graphVars, node, turnVars, durable, parked, lock, fence, call, cancel, control>>

(***************************************************************************)
(* A leader that contributes itself reads the stored results back.  Its    *)
(* own contribution counts when it claims one or when nothing completed.   *)
(***************************************************************************)
JudgeContributor ==
  /\ Drains /\ scenario.leader = "contributor"
  /\ \E own \in {"none", "completed", "failed"} :
       LET reported == durable
           integrated == own = "completed"
                         \/ \E t \in scenario.git : <<t, "completed">> \in reported IN
       /\ own = "none" => \E r \in reported : r[2] = "completed"
       /\ memory' = reported
       /\ Judged(IF integrated /\ own # "failed" /\ Unresolved(reported) = {}
                 THEN "succeeded" ELSE "failed")

JudgeCoordinator ==
  /\ Drains /\ scenario.leader = "coordinator"
  /\ UNCHANGED memory
  /\ \E satisfied \in BOOLEAN :
       Judged(IF Unresolved(memory) # {} THEN "failed"
              ELSE IF satisfied /\ planned = Reported(memory) /\ planned # {} THEN "succeeded"
              ELSE "unestablished")

CompleteResearch ==
  /\ Drains /\ scenario.leader = "research"
  /\ UNCHANGED memory
  /\ Judged("unestablished")

Release ==
  /\ leader = "closing" /\ Drained
  /\ leader' = "ended"
  /\ UNCHANGED <<graphVars, node, turnVars, recordVars, parked, lock, fence, call, cancel,
                 control, outcome>>

TurnStep(a) ==
  \/ BeginTurn(a) \/ WaitGivesUp(a) \/ Aborted(a) \/ WorkerReturns(a)
  \/ EnterSettlement(a) \/ SettleContribution(a) \/ Heal(a) \/ FinishRepair(a)
  \/ Push(a) \/ Save(a) \/ LookForReady(a) \/ StartParked(a) \/ LookForBlocked(a)

LoopStep(l)  == SettleNode(l) \/ RecordBlocked(l)
LeaderStep   == LeaderReturns \/ LeaderFails \/ JudgeContributor \/ JudgeCoordinator
                \/ CompleteResearch \/ Release
DispatchStep == DispatchPlain \/ AskDispatch \/ RefuseFrozen \/ RefuseUnknown \/ Admit

Next == \/ DispatchStep \/ LeaderStep \/ Deadline \/ Cancel \/ CancelFence
        \/ \E a \in Turns : TurnStep(a)
        \/ \E l \in Loops : LoopStep(l)

(***************************************************************************)
(* Code that can run does run, the deadline's timer fires, and a worker    *)
(* that is not stopped returns or is aborted.  Nothing makes the leader    *)
(* dispatch, or the owner cancel.                                          *)
(***************************************************************************)
Fairness == /\ WF_vars(LeaderStep) /\ WF_vars(Deadline) /\ WF_vars(CancelFence)
            /\ WF_vars(RefuseFrozen \/ RefuseUnknown \/ Admit)
            /\ \A a \in Turns : WF_vars(TurnStep(a))
            /\ \A l \in Loops : WF_vars(LoopStep(l))

Spec == Init /\ [][Next]_vars /\ Fairness

(***************************************************************************)
(* A worker starts its task only when every producer has completed: with   *)
(* healing its node has, without it has a completed result in memory.      *)
(***************************************************************************)
DependentsWait ==
  [][\A a \in Turns : place[a] = "begin" /\ place'[a] = "running" =>
       \A d \in Deps(Task(a)) :
         IF Healing THEN node[d] = "completed" ELSE <<d, "completed">> \in memory]_vars

(***************************************************************************)
(* A dependent parked directly behind a producer that failed of itself is  *)
(* not left behind: when no turn and no settlement is under way in a run   *)
(* that nothing has stopped, none is parked any more, whenever it was.     *)
(***************************************************************************)
Parked(t) == t \in ToSet(parked)
AtRest ==
  /\ control = "open" /\ call # "settle" /\ call # "recording"
  /\ \A a \in Turns : place[a] \in {"none", "done"}

FailureReachesDependents ==
  AtRest => \A t \in Tasks : Parked(t) =>
               \A r \in durable : ~(r[1] \in Deps(t) /\ r[2] \in Bad \ {"blocked"})

(***************************************************************************)
(* Every run ends: its deadline frees the leader of dispatches that never  *)
(* return.                                                                 *)
(***************************************************************************)
RunEnds == <>(leader = "ended")

(***************************************************************************)
(* A comment of policies.ts says that a subtask runs exactly once: no turn *)
(* of a task begins while the task has had one.                            *)
(***************************************************************************)
SubtaskRunsOnce == \A t \in Tasks : place[<<t, 2>>] # "running"
==============================================================================
