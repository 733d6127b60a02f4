----------------------------- MODULE WorkerTurn -----------------------------
(* One worker's turn, under watch or not: runSubtask's wait for it (startWorkerTurn,   *)
(* raceMonitor, withTimeout and raceControl of orchestrator.ts), the monitor   *)
(* that may stop it, the leader that may extend its deadline, the end of the   *)
(* run that cancels it, and the session that all of them close                 *)
(* (session-runtime.ts, app-server-runtime.ts).                                *)
(*                                                                             *)
(* Time is a clock of `time' units, the root deadline at its end.  The child   *)
(* process, the engine that ends it and the evidence store are external.       *)
EXTENDS TrajectoryMonitor

CONSTANTS
    Settings    \* [emits, trees, events, ticks, asks, faults, base, time, healing, repair,
                \* late]: the events a worker may emit and the fingerprints of its
                \* worktree; bounds on events, timer ticks, extensions and faults; the
                \* worker's deadline and the root's; the healing of its run, "on" in a
                \* project, "bare" on without one, or "off"; whether it is a repair
                \* candidate's turn, and whether the run may end at any time

WatchAssumption ==
    \A s \in Settings :
        s \in [emits : SUBSET Events, trees : {s.trees}, events : Nat, ticks : Nat, asks : Nat,
              faults : Nat, base : Nat, time : Nat, healing : {"on", "bare", "off"},
              repair : BOOLEAN, late : BOOLEAN]

VARIABLES
    left,       \* the setting, its bounds counted down
    mon,        \* the monitor's state
    tree,       \* the fingerprint of the worktree now
    captures,   \* captures queued (gitQueue)
    session,    \* "none", "preparing" without an inner runtime, "alive", "ended"
    barrier,    \* closeBarrier: "none", "pending", "proved" or "failed"
    race,       \* raceMonitor: "pending", "stopping", or what it settled with
    watch,      \* its handler of the monitor's stop
    turn,       \* where runSubtask and the heal after it are
    outcome,    \* what the attempt came to
    quiesced,   \* runtimeQuiesced
    clock,      \* [now, extra]: time, and the extension of workerTimeouts
    control,    \* "active" or "stopped"
    sweep,      \* cancelRunResources on this runtime
    active,     \* the runtime is in activeRuntimes
    unproven,   \* it is in unprovenAbsences
    faults      \* the classes of the faults on record, in order

watchVars == <<mon, tree, captures>>
turnVars  == <<race, watch, turn, outcome, quiesced, faults>>
ownVars   == <<active, unproven>>
runVars   == <<clock, control, sweep>>
childVars == <<session, barrier>>
vars == <<left, watchVars, turnVars, ownVars, runVars, childVars>>

Init ==
    /\ left \in Settings
    /\ mon = New /\ tree \in left.trees /\ captures = 0
    /\ session = "none" /\ barrier = "none"
    /\ race = "pending" /\ watch = "idle" /\ turn = "idle" /\ outcome = "none"
    /\ quiesced = FALSE /\ faults = <<>>
    /\ active = FALSE /\ unproven = FALSE
    /\ clock = [now |-> 0, extra |-> 0] /\ control = "active" /\ sweep = "none"

(* trajectoryContext: a worker has a monitor when its run heals, in a project. *)
Watched == left.healing = "on"

Spend(bound) == left[bound] > 0 /\ left' = [left EXCEPT ![bound] = @ - 1]

(***************************************************************************)
(* The session and its child.                                              *)
(***************************************************************************)

(* raceMonitor's operation settles; a stop that came first ignores it. *)
OperationSettles(r, how) == IF r = "pending" THEN how ELSE r

(* The runtime is remembered, and its start called: after the last look at the *)
(* run's control, so that the run may have ended meanwhile.                    *)
Begin ==
    /\ turn = "idle" /\ turn' = "turn"
    /\ active' = TRUE /\ session' = "preparing"
    /\ UNCHANGED <<left, watchVars, race, watch, outcome, quiesced, faults, unproven, runVars,
                   barrier>>

(* SessionRuntime.start has its directories and its authority: the child is    *)
(* spawned, whatever was asked of the session before it had an inner runtime.  *)
Spawn ==
    /\ session = "preparing"
    /\ session' = "alive"
    /\ UNCHANGED <<left, watchVars, turnVars, ownVars, runVars, barrier>>

PrepareFails ==
    /\ session = "preparing" /\ Spend("faults")
    /\ session' = "ended" /\ barrier' = "proved"
    /\ race' = OperationSettles(race, "error")
    /\ UNCHANGED <<watchVars, watch, turn, outcome, quiesced, faults, ownVars, runVars>>

(* The child of a watched turn emits an event: wrapSink passes it on, observes *)
(* it, and queues a capture of the worktree when a file has changed.           *)
Work(e) ==
    /\ session = "alive" /\ Watched /\ Spend("events")
    /\ mon' = Observe(mon, e)
    /\ IF e.file /\ e.done THEN tree' \in left.trees /\ captures' = captures + 1
       ELSE UNCHANGED <<tree, captures>>
    /\ UNCHANGED <<turnVars, ownVars, runVars, childVars>>

TurnCompletes ==
    /\ session = "alive" /\ barrier = "none" /\ race = "pending"
    /\ race' = "value"
    /\ UNCHANGED <<left, watchVars, watch, turn, outcome, quiesced, faults, ownVars, runVars,
                   childVars>>

(* The child is gone, or told to go: the requests in flight are rejected, and  *)
(* who waits for the session to be idle goes on.                               *)
RequestsEnd == \E how \in {"value", "error"} : race' = OperationSettles(race, how)

ChildExits ==
    /\ session = "alive" /\ barrier = "none" /\ Spend("faults")
    /\ session' = "ended" /\ RequestsEnd
    /\ UNCHANGED <<watchVars, watch, turn, outcome, quiesced, faults, ownVars, runVars, barrier>>

(* Who is waiting for the session to be closed.  cancel first interrupts the   *)
(* active turn, and calls close when that is answered.                         *)
Cancelling == watch = "cancel" \/ sweep = "cancel"
Closing    == watch = "quiesce" \/ turn = "collect" \/ (turn = "finally" /\ ~quiesced)

(* close: the first caller starts the barrier, which every caller awaits.      *)
Close ==
    /\ session # "preparing" /\ barrier = "none"
    /\ Cancelling \/ Closing
    /\ barrier' = "pending" /\ RequestsEnd
    /\ UNCHANGED <<left, watchVars, watch, turn, outcome, quiesced, faults, ownVars, runVars,
                   session>>

(* What a caller of close sees: a session without an inner runtime has nothing *)
(* to close.                                                                   *)
Closed   == session = "preparing" \/ barrier = "proved"
Unclosed == session # "preparing" /\ barrier = "failed"

(* A failing barrier stays: no later close tries again. *)
BarrierSettles ==
    /\ barrier = "pending"
    /\ \/ barrier' = "proved" /\ session' = "ended" /\ UNCHANGED left
       \/ barrier' = "failed" /\ UNCHANGED session /\ Spend("faults")
    /\ UNCHANGED <<watchVars, turnVars, ownVars, runVars>>

(***************************************************************************)
(* The monitor.                                                            *)
(***************************************************************************)

Tick ==
    /\ Watched /\ mon.armed /\ turn # "idle" /\ Spend("ticks")
    /\ mon' = Ticked(mon)
    /\ UNCHANGED <<tree, captures, turnVars, ownVars, runVars, childVars>>

Capture ==
    /\ captures > 0 /\ captures' = captures - 1
    /\ \/ mon' = Captured(mon, tree) /\ UNCHANGED left
       \/ mon' = Captured(mon, "none") /\ Spend("faults")
    /\ UNCHANGED <<tree, turnVars, ownVars, runVars, childVars>>

(* raceMonitor: the stop wins when the operation has not settled before. *)
StopSeen ==
    /\ mon.stop # "none" /\ race = "pending" /\ watch = "idle"
    /\ race' = "stopping" /\ watch' = "cancel"
    /\ UNCHANGED <<left, watchVars, turn, outcome, quiesced, faults, ownVars, runVars, childVars>>

(* detectFault, of a turn that was stopped or of a result. *)
ClassOf(result) ==
    CASE result = "stall" -> "stall"
      [] result = "timed_out" -> "deadline_failure"
      [] result = "failed" -> "hard_failure"

Disarmed == [mon EXCEPT !.armed = FALSE]

(* The handler of the stop: cancel, quiesce, drain, the evidence and the       *)
(* fault; then the wait for the turn is over.                                  *)
WatchStep ==
    /\ \/ /\ watch = "cancel" /\ (Closed \/ Unclosed)
          /\ watch' = "quiesce"
          /\ UNCHANGED <<mon, faults, race>>
       \/ /\ watch = "quiesce" /\ (Closed \/ Unclosed)
          /\ watch' = "drain"
          /\ UNCHANGED <<mon, faults, race>>
       \/ /\ watch = "drain" /\ captures = 0
          /\ watch' = "evidence" /\ mon' = Disarmed
          /\ UNCHANGED <<faults, race>>
       \/ /\ watch = "evidence"
          /\ watch' = "done" /\ faults' = Append(faults, ClassOf("stall")) /\ race' = "stopped"
          /\ UNCHANGED mon
    /\ UNCHANGED <<left, tree, captures, turn, outcome, quiesced, ownVars, runVars, childVars>>

(***************************************************************************)
(* Time, the leader's extensions, and the end of the run.                  *)
(***************************************************************************)

Deadline == left.base + clock.extra

TimePasses ==
    /\ clock.now < left.time /\ turn \notin {"idle", "returned"}
    /\ clock' = [clock EXCEPT !.now = @ + 1]
    /\ UNCHANGED <<left, watchVars, turnVars, ownVars, control, sweep, childVars>>

(* Mutants: the same checkpoint serves twice, or none is asked for. *)
ExtendTwice(n) ==
    /\ turn = "turn" /\ control = "active" /\ ~left.repair /\ Spend("asks")
    /\ mon.state = "progressing"
    /\ mon' = Leased(mon)
    /\ clock' = [clock EXCEPT !.extra = @ + n]
    /\ UNCHANGED <<tree, captures, turnVars, ownVars, control, sweep, childVars>>

(* extendWorkerTimeout: never past what is left of the root's time, and of a   *)
(* watched turn only for a checkpoint that shows progress and has served no    *)
(* extension yet.  A turn without a monitor is extended for the asking.        *)
Extend(n) ==
    /\ turn = "turn" /\ control = "active" /\ ~left.repair /\ Spend("asks")
    /\ clock.now < left.time
    /\ \/ Watched /\ Leasable(mon) /\ mon' = Leased(mon)
       \/ ~Watched /\ UNCHANGED mon
    /\ LET applied == IF n < left.time - clock.now THEN n ELSE left.time - clock.now
       IN clock' = [clock EXCEPT !.extra = @ + applied]
    /\ UNCHANGED <<tree, captures, turnVars, ownVars, control, sweep, childVars>>

(* The run ends, by its root deadline or from elsewhere: the sweep takes its   *)
(* list of the active runtimes at once.                                        *)
ControlStops ==
    /\ control = "active" /\ (clock.now = left.time \/ left.late)
    /\ control' = "stopped"
    /\ sweep' = IF active THEN "cancel" ELSE "done"
    /\ UNCHANGED <<left, watchVars, turnVars, ownVars, clock, childVars>>

SweepStep ==
    /\ sweep = "cancel" /\ sweep' = "done"
    /\ \/ Closed /\ active' = FALSE /\ UNCHANGED unproven
       \/ Unclosed /\ unproven' = TRUE /\ UNCHANGED active
    /\ UNCHANGED <<left, watchVars, turnVars, clock, control, childVars>>

(***************************************************************************)
(* runSubtask from its wait on, and healReturnedWorker after it.           *)
(***************************************************************************)

Goes(to, result) == turn' = to /\ outcome' = result

(* What ends the wait: the race's result, the lease of the deadline, or the    *)
(* end of the run.                                                             *)
WaitEnds ==
    /\ turn = "turn"
    /\ \/ race = "value" /\ Goes("collect", "none")
       \/ race = "error" /\ Goes("fail", "failed")
       \/ race = "stopped" /\ Goes("fail", "stall")
       \/ clock.now >= Deadline /\ Goes("fail", "timed_out")
       \/ control = "stopped" /\ Goes("finally", "terminal")
    /\ UNCHANGED <<left, watchVars, race, watch, quiesced, faults, ownVars, runVars, childVars>>

(* The structural collection: the session is closed before the output counts. *)
Collected ==
    /\ turn = "collect"
    /\ \/ /\ Closed
          /\ quiesced' = TRUE /\ active' = FALSE
          /\ IF control = "stopped" THEN Goes("finally", "terminal")
             ELSE \E verdict \in {"completed", "failed"} : Goes("finally", verdict)
       \/ Unclosed /\ Goes("fail", "failed") /\ UNCHANGED <<quiesced, active>>
    /\ UNCHANGED <<left, watchVars, race, watch, faults, unproven, runVars, childVars>>

(* The catch: the child's row is failed. *)
Failed ==
    /\ turn = "fail" /\ Goes("finally", outcome)
    /\ UNCHANGED <<left, watchVars, race, watch, quiesced, faults, ownVars, runVars, childVars>>

(* A mutant: a runtime whose close failed is dropped. *)
ReleaseAnyhow ==
    /\ turn = "finally" /\ (Closed \/ Unclosed \/ quiesced)
    /\ Goes("drain", outcome)
    /\ quiesced' = TRUE /\ active' = FALSE
    /\ UNCHANGED <<left, watchVars, race, watch, faults, unproven, runVars, childVars>>

(* The finally: quiesce, unless that is done, and releaseActiveRuntimeIfProven. *)
Release ==
    /\ turn = "finally" /\ (Closed \/ Unclosed \/ quiesced)
    /\ Goes("drain", outcome)
    /\ quiesced' = (quiesced \/ Closed)
    /\ active' = (active /\ (~quiesced' \/ unproven))
    /\ UNCHANGED <<left, watchVars, race, watch, faults, unproven, runVars, childVars>>

(* A run that has ended takes no result; any other heals it. *)
Drain ==
    /\ turn = "drain" /\ captures = 0
    /\ mon' = Disarmed
    /\ Goes(IF outcome = "terminal" THEN "returned" ELSE "classify", outcome)
    /\ UNCHANGED <<left, tree, captures, race, watch, quiesced, faults, ownVars, runVars, childVars>>

(* classifyReturnedWorker: a stall that is on record, or comes, speaks for the *)
(* attempt; any other failure is detected here, in a run that heals.           *)
Classify ==
    /\ turn = "classify"
    /\ Goes(IF left.healing = "off" \/ faults # <<>> \/ outcome \in {"stall", "completed"}
            THEN "returned" ELSE "evidence", outcome)
    /\ UNCHANGED <<left, watchVars, race, watch, quiesced, faults, ownVars, runVars, childVars>>

Record ==
    /\ turn = "evidence" /\ Goes("returned", outcome)
    /\ faults' = Append(faults, ClassOf(outcome))
    /\ UNCHANGED <<left, watchVars, race, watch, quiesced, ownVars, runVars, childVars>>

TurnStep == WaitEnds \/ Collected \/ Failed \/ Release \/ Drain \/ Classify \/ Record

Next ==
    \/ Begin \/ Spawn \/ PrepareFails \/ TurnCompletes \/ ChildExits \/ Close \/ BarrierSettles
    \/ (\E e \in left.emits : Work(e)) \/ Tick \/ Capture \/ StopSeen \/ WatchStep
    \/ TimePasses \/ (\E n \in 1 .. 2 : Extend(n)) \/ ControlStops \/ SweepStep
    \/ TurnStep

(* Timers fire, promises that settled are seen, captures and closes have time  *)
(* limits of their own: one of these steps follows while one can be taken.     *)
(* Nothing is asked of the child: it may work on, never finish, and never      *)
(* answer an interrupt.                                                        *)
Proceeds ==
    \/ TimePasses \/ (clock.now = left.time /\ ControlStops)
    \/ (Closing /\ Close) \/ BarrierSettles \/ Capture \/ WatchStep \/ SweepStep \/ TurnStep

Fairness == WF_vars(Proceeds)

Spec == Init /\ [][Next]_vars /\ Fairness

-----------------------------------------------------------------------------

(* A watched worker is given time for progress only: each extension rests on a *)
(* checkpoint of its own, whose evidence differs from the one before (or which *)
(* is the first and shows a change), and none was granted without one.         *)
LeaseIsEarned ==
    /\ \A i \in mon.leased :
           IF i = 1 THEN mon.snaps[1].paths # {} ELSE mon.snaps[i] # mon.snaps[i - 1]
    /\ Watched => clock.extra <= 2 * Cardinality(mon.leased)

(* What the hint of the leader's view of a worker says, and the code does not  *)
(* keep: "Timeout leases require a fresh server-owned progressing checkpoint". *)
(* A worker without a monitor is given time for nothing.                       *)
EveryLeaseIsEarned == clock.extra <= 2 * Cardinality(mon.leased)

(* A runtime leaves the cancellation map only when its child is gone, or was   *)
(* not there yet: whichever of the turn, the stop handler and the sweep closed *)
(* the session first, and however their closes ended.                          *)
ReleasedWhenGone == [][active /\ ~active' => session' # "alive"]_vars

(* Every turn that began comes to an end, whatever the child does: one that    *)
(* never stops, never answers an interrupt, or dies, is ended by its deadline, *)
(* its monitor, or the end of the run.                                         *)
TurnEnds == turn = "turn" ~> turn = "returned"

(* What the comment on quiesce promises and the code does not keep: "after     *)
(* this resolves no worker process can mutate its workspace".  A session that  *)
(* is still preparing has nothing to close, and spawns its child afterwards.   *)
QuiescedIsStill == quiesced => session # "alive"
=============================================================================
