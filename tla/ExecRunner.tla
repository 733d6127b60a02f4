------------------------------ MODULE ExecRunner ------------------------------
(* One turn of the exec backend: a `codex exec' process on the host            *)
(* (codex-runner.ts) or in a container of its own (container-codex-runner.ts), *)
(* behind ExecRuntime.  Whoever wants it gone calls cancel: the end of the     *)
(* run, by its key and through the runtime, or the deadline, which does not    *)
(* wait.  The process, the engine's client and the engine are external.        *)
EXTENDS Naturals, FiniteSets

CONSTANTS
    Cancels,        \* the calls of cancel
    MaxTroubles     \* bound on failures of the start, the engine and the turn

VARIABLES
    backend,    \* "host" or "container"
    place,      \* run: "idle", "preparing", "running" with an entry in active, "returned"
    verdict,    \* what run came to
    process,    \* "none", "alive" or "gone": the process, or the engine's client
    signals,    \* sent to it
    force,      \* forceKillTimer is armed
    box,        \* the container: "none", "up" or "gone"
    removal,    \* termination: "none", "looking", "removing", "done" or "failed"
    causes,     \* the flags cancelled, timedOut and outputExceeded
    calls,      \* each cancel: "none", "waiting", or its answer
    troubles    \* failures so far

runVars    == <<place, verdict>>
boxVars    == <<box, removal>>
signalVars == <<signals, force>>
vars == <<backend, runVars, process, signalVars, boxVars, causes, calls, troubles>>

Init ==
    /\ backend \in {"host", "container"}
    /\ place = "idle" /\ verdict = "none"
    /\ process = "none" /\ signals = {} /\ force = FALSE
    /\ box = "none" /\ removal = "none"
    /\ causes = {} /\ calls = [k \in Cancels |-> "none"] /\ troubles = 0

Trouble == troubles < MaxTroubles /\ troubles' = troubles + 1

(***************************************************************************)
(* run, and what it starts.                                                *)
(***************************************************************************)

(* The directories of the dependency cache and the authority of a container    *)
(* are made before the entry that cancel looks for.                            *)
Prepare ==
    /\ place = "idle" /\ place' = "preparing"
    /\ UNCHANGED <<backend, verdict, process, signalVars, boxVars, causes, calls, troubles>>

PrepareFails ==
    /\ place = "preparing" /\ Trouble
    /\ place' = "returned" /\ verdict' = "error"
    /\ UNCHANGED <<backend, process, signalVars, boxVars, causes, calls>>

(* A process that cannot be spawned emits an error, which settles run. *)
Spawn ==
    /\ place = "preparing" /\ place' = "running"
    /\ \/ process' = "alive" /\ UNCHANGED troubles
       \/ process' = "gone" /\ Trouble
    /\ UNCHANGED <<backend, verdict, signalVars, boxVars, causes, calls>>

(* The engine makes the container that its client asked for. *)
Create ==
    /\ backend = "container" /\ process = "alive" /\ box = "none"
    /\ box' = "up"
    /\ UNCHANGED <<backend, runVars, process, signalVars, removal, causes, calls, troubles>>

(* The turn is over, well or not: a container goes with it. *)
Finish ==
    /\ process = "alive" /\ (backend = "container" => box = "up")
    /\ process' = "gone" /\ box' = IF box = "up" THEN "gone" ELSE box
    /\ UNCHANGED <<backend, runVars, signalVars, removal, causes, calls, troubles>>

(* A signal, or the end of its container, ends the process: SIGTERM may be     *)
(* ignored, and the engine passes the client's signal on, or not.              *)
Die ==
    /\ process = "alive" /\ (signals # {} \/ box = "gone")
    /\ process' = "gone"
    /\ box' \in {box} \cup (IF box = "up" THEN {"gone"} ELSE {})
    /\ UNCHANGED <<backend, runVars, signalVars, removal, causes, calls, troubles>>

(* The process has closed: the first cause in run's order, or its exit, and    *)
(* the entry of active is deleted with its timers.                             *)
Verdicts ==
    IF "cancelled" \in causes THEN {"cancelled"}
    ELSE IF "timedOut" \in causes THEN {"timedOut"}
    ELSE IF "exceeded" \in causes THEN {"exceeded"}
    ELSE {"value", "error"}

Settle ==
    /\ place = "running" /\ process = "gone"
    /\ place' = "returned" /\ verdict' \in Verdicts
    /\ force' = (force /\ backend = "container")
    /\ UNCHANGED <<backend, process, signals, boxVars, causes, calls, troubles>>

(***************************************************************************)
(* Termination.                                                            *)
(***************************************************************************)

(* A mutant: a process that ignores SIGTERM is left to itself. *)
TerminateGently ==
    IF backend = "host"
    THEN /\ signals' = IF process = "alive" THEN signals \cup {"term"} ELSE signals
         /\ UNCHANGED <<force, removal>>
    ELSE /\ removal' = IF removal = "none" THEN "looking" ELSE removal
         /\ UNCHANGED signalVars

(* terminate sends SIGTERM and arms the timer; removeContainer is under way    *)
(* once, and whoever comes later shares it.                                    *)
Terminate ==
    IF backend = "host"
    THEN /\ signals' = IF process = "alive" THEN signals \cup {"term"} ELSE signals
         /\ force' = (force \/ process = "alive")
         /\ UNCHANGED removal
    ELSE /\ removal' = IF removal = "none" THEN "looking" ELSE removal
         /\ UNCHANGED signalVars

(* codexTimeoutMs have passed, or codexMaxOutputBytes have come. *)
Timeout ==
    /\ place = "running" /\ "timedOut" \notin causes
    /\ causes' = causes \cup {"timedOut"} /\ Terminate
    /\ UNCHANGED <<backend, runVars, process, box, calls, troubles>>

Exceed ==
    /\ place = "running" /\ process = "alive" /\ "exceeded" \notin causes /\ Trouble
    /\ causes' = causes \cup {"exceeded"} /\ Terminate
    /\ UNCHANGED <<backend, runVars, process, box, calls>>

ForceKill ==
    /\ force /\ force' = FALSE
    /\ signals' = signals \cup {"kill"}
    /\ UNCHANGED <<backend, runVars, process, boxVars, causes, calls, troubles>>

(* removeOwnedContainer: no container of that id or name is no error.          *)
Look ==
    /\ removal = "looking"
    /\ removal' = IF box = "up" THEN "removing" ELSE "done"
    /\ UNCHANGED <<backend, runVars, process, signalVars, box, causes, calls, troubles>>

Remove ==
    /\ removal = "removing"
    /\ box' = "gone" /\ removal' = "done"
    /\ UNCHANGED <<backend, runVars, process, signalVars, causes, calls, troubles>>

(* A call of the engine fails, or is too late although it had its effect: the  *)
(* client is signalled instead.                                                *)
RemovalFails ==
    /\ removal \in {"looking", "removing"} /\ Trouble
    /\ removal' = "failed"
    /\ box' \in {box} \cup (IF removal = "removing" THEN {"gone"} ELSE {})
    /\ signals' = IF process = "alive" THEN signals \cup {"term"} ELSE signals
    /\ force' = TRUE
    /\ UNCHANGED <<backend, runVars, process, causes, calls>>

(* cancel finds nothing before the entry is made and after it is deleted. *)
Cancel(k) ==
    /\ calls[k] = "none" /\ place # "idle"
    /\ IF place = "running"
       THEN /\ calls' = [calls EXCEPT ![k] = "waiting"]
            /\ causes' = causes \cup {"cancelled"} /\ Terminate
       ELSE /\ calls' = [calls EXCEPT ![k] = "false"]
            /\ UNCHANGED <<causes, signalVars, removal>>
    /\ UNCHANGED <<backend, runVars, process, box, troubles>>

(* cancel awaits the removal, and then the end of the process. *)
Answered(k) ==
    /\ calls[k] = "waiting"
    /\ \/ /\ backend = "host" \/ removal = "done"
          /\ process = "gone"
          /\ calls' = [calls EXCEPT ![k] = "true"]
       \/ /\ removal = "failed"
          /\ calls' = [calls EXCEPT ![k] = "failed"]
    /\ UNCHANGED <<backend, runVars, process, signalVars, boxVars, causes, troubles>>

Next ==
    \/ Prepare \/ PrepareFails \/ Spawn \/ Create \/ Finish \/ Die \/ Settle
    \/ Timeout \/ Exceed \/ ForceKill \/ Look \/ Remove \/ RemovalFails
    \/ \E k \in Cancels : Cancel(k) \/ Answered(k)

(* Timers fire, engine calls have time limits, a killed process dies and its   *)
(* closing is seen.  The turn itself may never finish, ignore SIGTERM, and     *)
(* nobody has to cancel it.                                                    *)
Proceeds ==
    \/ (place = "preparing" /\ (PrepareFails \/ Spawn)) \/ Settle \/ Timeout \/ ForceKill
    \/ Look \/ Remove \/ (("kill" \in signals \/ box = "gone") /\ Die)
    \/ \E k \in Cancels : Answered(k)

Fairness == WF_vars(Proceeds)

Spec == Init /\ [][Next]_vars /\ Fairness

-----------------------------------------------------------------------------

(* A cancel that answers true has seen the end of the process and of its       *)
(* container: when several callers share one removal, when the container comes *)
(* up after it was looked for, and when the turn ends by itself meanwhile.     *)
CancelProves ==
    (\E k \in Cancels : calls[k] = "true") => process = "gone" /\ box # "up"

(* A removal that finds no container yet is done: nothing looks again, neither *)
(* the cancel that goes on waiting nor the time limit.                         *)
Crossed == removal = "done" /\ box # "gone" /\ process = "alive"

(* Every turn ends, within its time limit at the latest: one that never        *)
(* finishes, ignores SIGTERM, or whose container cannot be removed.  Not when  *)
(* its container was looked for too early.                                     *)
RunEnds == []<>(place \in {"idle", "returned"} \/ Crossed)

(* What the comment on quiesce promises and the exec backend does not keep:    *)
(* ExecRuntime closes nothing, and the deadline's cancel is not awaited.       *)
TimedOutIsGone == "cancelled" \in causes => process # "alive"
=============================================================================
