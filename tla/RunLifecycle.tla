---------------------------- MODULE RunLifecycle ----------------------------
(* The life of a run between three records that can disagree: the row in   *)
(* the JSON store (store.ts), the run's append-only event log              *)
(* (event-log.ts) and the execution that lives only in the server's        *)
(* memory.  AgentService (agent-service.ts) admits, executes, stops,       *)
(* deletes and, after a restart, recovers; the orchestrator's              *)
(* createSubtaskRun, completeSubtaskRun, failSubtaskRun, completeLeaderRun *)
(* and failLeaderRun do the same for a leader and its children.            *)
(*                                                                         *)
(* A mutation of the store is one step: JsonStore renames a whole file     *)
(* into place before it replaces its copy, so that a mutation that fails   *)
(* leaves both untouched.  An append to a log is queued in memory and      *)
(* reaches the disk later, or never.                                       *)
EXTENDS Naturals, Sequences, SequencesExt

CONSTANTS
    Agents, RoleOf,     \* [Agents -> {"standalone", "leader", "worker"}]
    Rosters,            \* the sets of agents that a store may start with
    Runs, NoRun,
    MayTruncate,        \* one log may reach its byte limit
    MaxOf, MaxFaults,   \* bounds on the faults: of each kind, and on failed writes and cut logs in all
    MaxRequests         \* bound on the stops and deletions

ASSUME LifecycleAssumption ==
    /\ RoleOf \in [Agents -> {"standalone", "leader", "worker"}]
    /\ Rosters \subseteq SUBSET Agents
    /\ NoRun \notin Runs
    /\ MayTruncate \in BOOLEAN
    /\ MaxOf \in [{"store", "append", "crash"} -> Nat]
    /\ {MaxFaults, MaxRequests} \subseteq Nat

VARIABLES
    agents,     \* the store: the status of each agent, "gone" when deleted
    runs,       \* the store: agent, parent, status and terminal intent of each run
    log,        \* the event log of each run: disk and memory
    exec,       \* memory: where the execution of each run is, and its verdict
    asked,      \* memory: the stop or the deletion of each agent under way
    server,     \* "up", "down", or the phase of its start
    faults,     \* how many faults of each kind have happened, and requests
    told        \* runs that a client has been shown as completed

vars == <<agents, runs, log, exec, asked, server, faults, told>>

Active   == {"queued", "running"}
Verdicts == {"completed", "failed", "cancelled"}
Terminal == {"ok", "error"}         \* the final "run" events
Events   == Terminal \cup {"step", "cut"}

(* Where an execution may be: before its last event, in its publication, over. *)
Early == {"preflight", "begin", "work", "intent", "intent again"}
Late  == {"closing", "write", "write again"}
Over  == {"none", "done", "stranded"}

(* covered: closed with its session.  hushed: history, it was closed before *)
(* its run's success was said, and has dropped it.                         *)
Logs == [disk : Seq(Events), queue : Seq(Events), closed : BOOLEAN, complete : BOOLEAN,
         truncated : BOOLEAN, broken : BOOLEAN, covered : BOOLEAN, hushed : BOOLEAN]

Unborn == [agent |-> NoRun, parent |-> NoRun, status |-> "none", intent |-> FALSE]
NoLog  == [disk |-> <<>>, queue |-> <<>>, closed |-> FALSE, complete |-> FALSE,
           truncated |-> FALSE, broken |-> FALSE, covered |-> FALSE, hushed |-> FALSE]
Idle   == [at |-> "none", verdict |-> "none"]

Kind(r) == IF runs[r].parent # NoRun THEN "child"
           ELSE IF RoleOf[runs[r].agent] = "leader" THEN "leader" ELSE "single"
Children(r) == {c \in Runs : runs[c].parent = r}
Fresh(r)    == runs[r].status = "none" /\ r = CHOOSE k \in Runs : runs[k].status = "none"

(***************************************************************************)
(* The event log.                                                          *)
(***************************************************************************)

Cut(l) == \E i \in DOMAIN (l.disk \o l.queue) : (l.disk \o l.queue)[i] = "cut"

(* The failed writes and cut logs so far; a cut log counts for two. *)
Troubles == faults.store + faults.append
            + (IF \E r \in Runs : Cut(log[r]) THEN 2 ELSE 0)

(* What an emit may leave behind: a closed or truncated log drops the      *)
(* event, and a full one writes a marker instead and drops the rest.       *)
Appended(l, e) ==
    IF l.closed THEN {[l EXCEPT !.hushed = @ \/ e = "ok"]}
    ELSE IF l.truncated THEN {l}
    ELSE {[l EXCEPT !.queue = Append(@, e)]}
         \cup (IF MayTruncate /\ Troubles + 2 <= MaxFaults /\ ~\E r \in Runs : Cut(log[r])
               THEN {[l EXCEPT !.queue = Append(@, "cut"), !.truncated = TRUE]} ELSE {})

(* The synchronous half of close: no event is taken any more. *)
Shut(l) == [l EXCEPT !.closed = TRUE, !.complete = FALSE]

(* The close of a session's root covers every log there is of its session. *)
SessionShut(r) ==
    [k \in Runs |-> IF k \in {r} \cup Children(r)
                    THEN [Shut(log[k]) EXCEPT !.covered = TRUE] ELSE log[k]]

(* The logs that a close waits for: a child's that was born after it is    *)
(* not among them.                                                         *)
Barrier(r) == {r} \cup {k \in Children(r) : log[k].covered}

Drained(r) == \A k \in Barrier(r) : log[k].queue = <<>>
Broken(r)  == \E k \in Barrier(r) : log[k].broken
Completed(r) ==
    [k \in Runs |-> IF k \in Barrier(r) THEN [log[k] EXCEPT !.complete = TRUE] ELSE log[k]]

(* The last final event is a success. *)
EndsOk(events) ==
    \E i \in DOMAIN events :
        events[i] = "ok" /\ \A j \in DOMAIN events : j > i => events[j] \notin Terminal

(* A mutant: the event is taken for durable while its append is queued. *)
ClosedUnawaited(l) == l.closed /\ EndsOk(l.disk \o l.queue)

(* hasClosedTerminal: the final event is known to have reached the disk. *)
HasClosedTerminal(l) ==
    l.closed /\ l.complete /\ ~l.broken /\ EndsOk(l.disk \o l.queue)

Fault(kind, n) ==
    /\ faults[kind] + n <= MaxOf[kind]
    /\ Troubles + n <= MaxFaults
    /\ faults' = [faults EXCEPT ![kind] = @ + n]

(* The head of the queue reaches the disk, or its append fails. *)
Flush(r) ==
    /\ log[r].queue # <<>>
    /\ \/ /\ log' = [log EXCEPT ![r].disk = Append(@, Head(log[r].queue)),
                                ![r].queue = Tail(@)]
          /\ UNCHANGED faults
       \/ /\ Fault("append", 1)
          /\ log' = [log EXCEPT ![r].queue = Tail(@), ![r].broken = TRUE]
    /\ UNCHANGED <<agents, runs, exec, asked, server, told>>

(***************************************************************************)
(* Reads.  A client is shown a run through effectiveRun: a stored intent   *)
(* and its closed final event count as completed.                          *)
(***************************************************************************)

Shown(r) ==
    IF runs[r].status \in Active /\ runs[r].intent /\ HasClosedTerminal(log[r])
    THEN "completed" ELSE runs[r].status

Poll ==
    /\ server = "up"
    /\ told' = told \cup {r \in Runs : Shown(r) = "completed"}
    /\ told' # told
    /\ UNCHANGED <<agents, runs, log, exec, asked, server, faults>>

(***************************************************************************)
(* Admission and preflight.                                                *)
(***************************************************************************)

Moves(r, at, verdict) == exec' = [exec EXCEPT ![r] = [at |-> at, verdict |-> verdict]]

(* sendMessage: the checks are made inside the mutation that admits.  A    *)
(* message to a busy agent steers its run and starts none.                 *)
Send(a, r) ==
    /\ server = "up" /\ Fresh(r)
    /\ agents[a] \in {"ready", "error"} /\ RoleOf[a] # "worker"
    /\ runs' = [runs EXCEPT ![r] = [Unborn EXCEPT !.agent = a, !.status = "queued"]]
    /\ agents' = [agents EXCEPT ![a] = "busy"]
    /\ Moves(r, "preflight", "none")
    /\ UNCHANGED <<log, asked, server, faults, told>>

(* The end of an execution: its last event, then close, which covers its   *)
(* own log: it is a child's, or the only one of its session.               *)
Ends(r, event, verdict) ==
    /\ \E l \in Appended(log[r], event) : log' = [log EXCEPT ![r] = Shut(l)]
    /\ Moves(r, "closing", verdict)

(* preflightProject: the source is prepared, or publishPreflightFailure. *)
Preflight(r) ==
    /\ exec[r].at = "preflight"
    /\ \/ Moves(r, "begin", "none") /\ UNCHANGED log
       \/ Ends(r, "error", "failed")
    /\ UNCHANGED <<agents, runs, asked, server, faults, told>>

(* The first write of an execution.  It stands outside the try: when it    *)
(* fails the execution is over and the run stays queued.                   *)
Begin(r) ==
    /\ exec[r].at = "begin"
    /\ \/ /\ runs' = [runs EXCEPT ![r].status = IF @ = "queued" THEN "running" ELSE @]
          /\ \E l \in Appended(log[r], "step") : log' = [log EXCEPT ![r] = l]
          /\ Moves(r, "work", "none")
          /\ UNCHANGED faults
       \/ /\ Fault("store", 1)
          /\ Moves(r, "stranded", "none")
          /\ UNCHANGED <<runs, log>>
    /\ UNCHANGED <<agents, asked, server, told>>

(* A run that failed or was stopped has closed its session, and waits for   *)
(* none of its workers: the pumps of a pass and the dispatches that were    *)
(* being prepared go on.                                                    *)
Abandoned(r) == log[r].covered /\ exec[r].verdict \in {"failed", "cancelled"}

(* createSubtaskRun: the child is running and its worker busy from the     *)
(* first write, whatever the worker's status was.                          *)
Dispatch(r, a, c) ==
    /\ exec[r].at = "work" \/ Abandoned(r)
    /\ Kind(r) = "leader"
    /\ Fresh(c) /\ RoleOf[a] = "worker" /\ agents[a] # "gone"
    /\ runs' = [runs EXCEPT ![c] = [agent |-> a, parent |-> r, status |-> "running",
                                    intent |-> FALSE]]
    /\ agents' = [agents EXCEPT ![a] = "busy"]
    /\ \E l \in Appended(log[c], "step") : log' = [log EXCEPT ![c] = l]
    /\ Moves(c, "work", "none")
    /\ UNCHANGED <<asked, server, faults, told>>

(***************************************************************************)
(* The end of the turn.                                                    *)
(***************************************************************************)

Cancelling(a) == asked[a].op # "none"

Failures(a) == {"failed"} \cup (IF Cancelling(a) THEN {"cancelled"} ELSE {})

(* A standalone run: one turn, then the lifecycle event and close. *)
SingleEnds(r) ==
    /\ exec[r].at = "work" /\ Kind(r) = "single"
    /\ \/ Ends(r, "ok", "completed")
       \/ \E verdict \in Failures(runs[r].agent) : Ends(r, "error", verdict)
    /\ UNCHANGED <<agents, runs, asked, server, faults, told>>

(* A child has been cut off by the run's deadline or stop, which no leader *)
(* turns into a success.                                                   *)
CutOff(r) == \E c \in Children(r) : exec[c] = [at |-> "stranded", verdict |-> "cut"]

(* The verdicts that leave a run at work: a success waits until its         *)
(* background dispatches have drained and its pass is over; a stop, the     *)
(* deadline, a fuse (raceOutcome) or a pass that fails waits for no child.  *)
LeaderVerdicts(r) ==
    (IF CutOff(r) \/ \E c \in Children(r) : exec[c].at \notin Over THEN {} ELSE {"completed"})
    \cup Failures(runs[r].agent)

(* A leader is a live session (runCodexLeader), whose last lifecycle event  *)
(* comes after the close, which drops it.  The close is its session's: what *)
(* a child has not yet said in its log is dropped as well.                  *)
LeaderEnds(r) ==
    /\ exec[r].at = "work" /\ Kind(r) = "leader"
    /\ \E verdict \in LeaderVerdicts(r) : Moves(r, "closing", verdict)
    /\ log' = SessionShut(r)
    /\ UNCHANGED <<agents, runs, asked, server, faults, told>>

(* A child that did its work states its intent first; one that failed      *)
(* emits its event and closes at once (failSubtaskRun).  One that is cut   *)
(* off rethrows the run's terminal error before either: its row stays      *)
(* running and its worker busy until a restart.                            *)
ChildEnds(r) ==
    /\ exec[r].at = "work" /\ Kind(r) = "child"
    /\ \/ Moves(r, "intent", "completed") /\ UNCHANGED log
       \/ \E verdict \in Failures(runs[runs[r].parent].agent) : Ends(r, "error", verdict)
       \/ Moves(r, "stranded", "cut") /\ UNCHANGED log
    /\ UNCHANGED <<agents, runs, asked, server, faults, told>>

(* completeSubtaskRun: the intent is durable before the event that will    *)
(* confirm it.  A second failure to store it, or a run that is no longer   *)
(* running, makes the child a failed one.  None of it asks whether the     *)
(* log still takes events: a close that falls before the event, be it      *)
(* before the write or after it, drops the event and the child completes.  *)
StoreIntent(r) ==
    /\ exec[r].at \in {"intent", "intent again"}
    /\ \/ /\ runs[r].status = "running"
          /\ runs' = [runs EXCEPT ![r].intent = TRUE]
          /\ Ends(r, "ok", "completed")
          /\ UNCHANGED faults
       \/ /\ runs[r].status # "running"
          /\ Ends(r, "error", "failed")
          /\ UNCHANGED <<runs, faults>>
       \/ /\ Fault("store", 1)
          /\ IF exec[r].at = "intent"
             THEN Moves(r, "intent again", "completed") /\ UNCHANGED log
             ELSE Ends(r, "error", "failed")
          /\ UNCHANGED runs
    /\ UNCHANGED <<agents, asked, server, told>>

(* The asynchronous half of close: the queues have drained.  An append     *)
(* that failed makes close throw, every time it is called again, and the   *)
(* execution ends without a verdict in the store.                          *)
CloseEnds(r) ==
    /\ exec[r].at = "closing" /\ Drained(r)
    /\ IF Broken(r)
       THEN Moves(r, "stranded", exec[r].verdict) /\ UNCHANGED log
       ELSE Moves(r, "write", exec[r].verdict) /\ log' = Completed(r)
    /\ UNCHANGED <<agents, runs, asked, server, faults, told>>

AgentAfter(r, status, verdict) ==
    IF status = "gone" \/ (Kind(r) = "single" /\ status = "stopped" /\ verdict # "completed")
    THEN status
    ELSE IF verdict \in {"completed", "cancelled"} THEN "ready" ELSE "error"

(* The final write, with its one retry.  A row that is gone is left alone  *)
(* (a standalone run then leaves its agent alone as well).  A child that   *)
(* completed swallows a second failure: its intent stands for it.          *)
FinalWrite(r) ==
    LET verdict == exec[r].verdict
        a == runs[r].agent
    IN
    /\ exec[r].at \in {"write", "write again"}
    /\ \/ /\ IF runs[r].status = "deleted"
             THEN UNCHANGED <<runs, agents>>
             ELSE /\ runs' = [runs EXCEPT ![r].status = verdict]
                  /\ agents' = [agents EXCEPT ![a] = AgentAfter(r, @, verdict)]
          /\ Moves(r, "done", verdict)
          /\ UNCHANGED faults
       \/ /\ Fault("store", 1)
          /\ IF exec[r].at = "write" THEN Moves(r, "write again", verdict)
             ELSE IF Kind(r) = "child" /\ verdict = "completed" THEN Moves(r, "done", verdict)
             ELSE Moves(r, "stranded", verdict)
          /\ UNCHANGED <<runs, agents>>
    /\ UNCHANGED <<log, asked, server, told>>

(***************************************************************************)
(* Stop, start and deletion.                                               *)
(***************************************************************************)

(* The execution of the agent that is under way: activeExecutions holds    *)
(* one admitted by sendMessage until it is over.                           *)
Executing(a) ==
    {r \in Runs : /\ runs[r].agent = a /\ runs[r].parent = NoRun
                  /\ exec[r].at \notin Over}

(* cancelExecution asks, and remembers the execution it will wait for.     *)
(* deleteProject asks to delete a chat it has seen not to be busy.         *)
Ask(a, op) ==
    /\ server = "up" /\ agents[a] # "gone" /\ asked[a].op = "none"
    /\ op = "purge" => agents[a] # "busy"
    /\ faults.requests < MaxRequests
    /\ faults' = [faults EXCEPT !.requests = @ + 1]
    /\ asked' = [asked EXCEPT ![a] = [op |-> op, of |-> Executing(a)]]
    /\ UNCHANGED <<agents, runs, log, exec, server, told>>

Answered(a) ==
    /\ server = "up" /\ asked[a].of \cap Executing(a) = {}
    /\ asked' = [asked EXCEPT ![a] = [op |-> "none", of |-> {}]]

(* stopAgent: the status is set whatever it has become meanwhile. *)
StopEnds(a) ==
    /\ asked[a].op = "stop" /\ Answered(a)
    /\ agents' = [agents EXCEPT ![a] = "stopped"]
    /\ UNCHANGED <<runs, log, exec, server, faults, told>>

(* deleteAgent: the rows of the agent go, and its logs are archived. *)
DeleteEnds(a) ==
    /\ asked[a].op \in {"delete", "purge"} /\ Answered(a)
    /\ agents' = [agents EXCEPT ![a] = "gone"]
    /\ runs' = [r \in Runs |-> IF runs[r].agent = a
                               THEN [runs[r] EXCEPT !.status = "deleted"] ELSE runs[r]]
    /\ UNCHANGED <<log, exec, server, faults, told>>

(* startAgent: refused only to a busy agent. *)
Start(a) ==
    /\ server = "up" /\ agents[a] \in {"stopped", "error"}
    /\ agents' = [agents EXCEPT ![a] = "ready"]
    /\ UNCHANGED <<runs, log, exec, asked, server, faults, told>>

(***************************************************************************)
(* Crash and restart.                                                      *)
(***************************************************************************)

(* Memory goes: executions, requests, queued appends. *)
Lost(l) == [l EXCEPT !.queue = <<>>, !.closed = FALSE, !.complete = FALSE,
                     !.truncated = FALSE, !.broken = FALSE, !.covered = FALSE]

Down ==
    /\ server' = "down"
    /\ exec' = [r \in Runs |-> Idle]
    /\ asked' = [a \in Agents |-> [op |-> "none", of |-> {}]]

Crash ==
    /\ server # "down" /\ faults.crash < MaxOf["crash"]
    /\ faults' = [faults EXCEPT !.crash = @ + 1]
    /\ Down
    /\ log' = [r \in Runs |-> Lost(log[r])]
    /\ UNCHANGED <<agents, runs, told>>

(* EventLog.initialize: a log is closed when its last event is final. *)
Reloaded(l) ==
    LET shut == l.disk # <<>> /\ Last(l.disk) \in Terminal
    IN [l EXCEPT !.closed = shut, !.complete = shut,
                 !.truncated = Cut(l)]

Boot ==
    /\ server = "down"
    /\ server' = "reconciling"
    /\ log' = [r \in Runs |-> Reloaded(log[r])]
    /\ UNCHANGED <<agents, runs, exec, asked, faults, told>>

Intended == {r \in Runs : runs[r].status \in Active /\ runs[r].intent}

(* The log that recovery leaves behind: reopened, one more error, closed.  *)
(* Its close waits for the append, so that it is on disk.                  *)
Recovered(l) ==
    LET cut == l.truncated
    IN [l EXCEPT !.disk = IF cut THEN @ ELSE Append(@, "error"),
                 !.closed = TRUE, !.complete = TRUE]

(* reconcileTerminalPublicationIntents: a stated intent is carried out     *)
(* when the log confirms it, and cancelled with an error when it does not. *)
ReconcileIntent(r) ==
    LET a == runs[r].agent IN
    /\ server = "reconciling" /\ r \in Intended
    /\ IF EndsOk(log[r].disk)
       THEN /\ runs' = [runs EXCEPT ![r].status = "completed"]
            /\ agents' = [agents EXCEPT ![a] = IF @ = "gone" THEN @ ELSE "ready"]
            /\ UNCHANGED log
       ELSE /\ runs' = [runs EXCEPT ![r].status = "cancelled"]
            /\ agents' = [agents EXCEPT ![a] = IF @ = "busy" THEN "ready" ELSE @]
            /\ log' = [log EXCEPT ![r] = Recovered(@)]
    /\ UNCHANGED <<exec, asked, server, faults, told>>

InterruptedTurn(r) == runs[r].status = "running"    \* a mutant: queued runs are passed over
Interrupted(r) == runs[r].status \in Active

(* recoverInterruptedRuns, first half: inside the mutation every           *)
(* interrupted run gets its restart event before its row changes.          *)
RecoverLogs ==
    /\ server = "reconciling" /\ Intended = {}
    /\ server' = "recovering"
    /\ log' = [r \in Runs |-> IF Interrupted(r) THEN Recovered(log[r]) ELSE log[r]]
    /\ UNCHANGED <<agents, runs, exec, asked, faults, told>>

(* Second half: the rows and the agents they held busy are released in one *)
(* write.  When it fails twice the server does not start.                  *)
RecoverRows ==
    /\ server = "recovering"
    /\ \/ /\ server' = "up"
          /\ runs' = [r \in Runs |-> IF Interrupted(r)
                                     THEN [runs[r] EXCEPT !.status = "cancelled"]
                                     ELSE runs[r]]
          /\ agents' = [a \in Agents |->
                 IF agents[a] = "busy" /\ \E r \in Runs : runs[r].agent = a /\ Interrupted(r)
                 THEN "ready" ELSE agents[a]]
          /\ UNCHANGED <<exec, asked, faults, log>>
       \/ /\ Fault("store", 2)
          /\ Down
          /\ log' = [r \in Runs |-> Lost(log[r])]
          /\ UNCHANGED <<runs, agents>>
    /\ UNCHANGED told

Init ==
    /\ \E roster \in Rosters :
         agents = [a \in Agents |-> IF a \in roster THEN "ready" ELSE "gone"]
    /\ runs = [r \in Runs |-> Unborn]
    /\ log = [r \in Runs |-> NoLog]
    /\ exec = [r \in Runs |-> Idle]
    /\ asked = [a \in Agents |-> [op |-> "none", of |-> {}]]
    /\ server = "up"
    /\ faults = [store |-> 0, append |-> 0, crash |-> 0, requests |-> 0]
    /\ told = {}

Step(r) == \/ Flush(r) \/ Preflight(r) \/ Begin(r)
           \/ SingleEnds(r) \/ LeaderEnds(r) \/ ChildEnds(r)
           \/ StoreIntent(r) \/ CloseEnds(r) \/ FinalWrite(r)

Restart == Boot \/ (\E r \in Runs : ReconcileIntent(r)) \/ RecoverLogs \/ RecoverRows

Next ==
    \/ \E a \in Agents : \/ \E r \in Runs : Send(a, r)
                         \/ \E op \in {"stop", "delete", "purge"} : Ask(a, op)
                         \/ StopEnds(a) \/ DeleteEnds(a) \/ Start(a)
    \/ \E r, c \in Runs, a \in Agents : Dispatch(r, a, c)
    \/ \E r \in Runs : Step(r)
    \/ Restart \/ Poll \/ Crash

(* Every await of an execution ends: turns have a timeout, appends and     *)
(* writes an answer; a server that is down is started again.  Nothing      *)
(* makes a client send, stop, delete or read.                              *)
Fairness == (\A r \in Runs : WF_vars(Step(r))) /\ WF_vars(Restart)

Spec == Init /\ [][Next]_vars /\ Fairness

-----------------------------------------------------------------------------
(* Every variable has its type. *)
RunsTypeOK ==
    /\ agents \in [Agents -> {"ready", "busy", "stopped", "error", "gone"}]
    /\ runs \in [Runs -> [agent : Agents \cup {NoRun}, parent : Runs \cup {NoRun},
                          status : Active \cup Verdicts \cup {"none", "deleted"},
                          intent : BOOLEAN]]
    /\ log \in [Runs -> Logs]
    /\ exec \in [Runs -> [at : Early \cup Late \cup Over, verdict : Verdicts \cup {"none", "cut"}]]
    /\ server \in {"up", "down", "reconciling", "recovering"}
    /\ told \subseteq Runs

(* What a client was shown as completed stays completed (effectiveRun,     *)
(* agent-service.ts): across failed writes, crashes and restarts no run    *)
(* turns out failed or cancelled after all.  It may be shown as running    *)
(* again only while the close of its session's root has reopened the       *)
(* question, and is gone only with its agent.                              *)
VerdictIsFinal ==
    server = "up" => \A r \in told :
        \/ Shown(r) \in {"completed", "deleted"}
        \/ Shown(r) = "running" /\ runs[r].intent /\ ~log[r].complete

(* A standalone run or a child that the store calls completed has its      *)
(* final "ok" event on disk, across failed appends and writes, crashes and *)
(* restarts, however its leader ends: close is a barrier before the row    *)
(* changes (event-log.ts).  Two ways out: the log was cut at its byte      *)
(* limit, or the leader of the child had closed it before the event        *)
(* (NothingIsHushed).                                                      *)
CompletedIsLogged ==
    \A r \in Runs : runs[r].status = "completed" /\ Kind(r) # "leader" =>
        EndsOk(log[r].disk) \/ Cut(log[r]) \/ (Kind(r) = "child" /\ log[r].hushed)

(* "a Run that is already marked terminal cannot be missing its last few   *)
(* events" (event-log.ts, flush).  Not kept: a leader that is stopped or   *)
(* fails closes the logs of its session while a child is between its work  *)
(* and its last event; the child's "ok" is dropped, its row completed.     *)
NothingIsHushed == \A r \in Runs : runs[r].status = "completed" => ~log[r].hushed

(* What is shown as a success is one and stays one (effectiveRun, and close     *)
(* before the row).                                                        *)
VerdictStands == VerdictIsFinal /\ CompletedIsLogged

(* An admitted run is settled in the end, across crashes and restarts; or  *)
(* its execution has died of a fault of the store or of its log, or was    *)
(* cut off with its leader's run, and only a restart will settle it; or it *)
(* is a child whose final writes failed, and its intent stands for it.     *)
RunsSettle ==
    \A r \in Runs : runs[r].status \in Active ~>
        \/ runs[r].status \notin Active
        \/ exec[r].at = "stranded"
        \/ exec[r].at = "done" /\ runs[r].intent
=============================================================================
