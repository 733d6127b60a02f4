-------------------------- MODULE TeamCoordination --------------------------
(***************************************************************************)
(* Messages between the workers of one leader run.                         *)
(*                                                                         *)
(* coordination/team-runtime.ts and team-journal.ts decide and record;     *)
(* runtime/session-runtime.ts and app-server-runtime.ts hold a message     *)
(* until a turn carries it; orchestrator.ts attaches, starts, detaches and *)
(* closes the runtimes.  All of it runs on one Node.js thread, so an       *)
(* action is what happens between two awaits that really wait (on the      *)
(* disk, on the app-server); awaits that only yield to microtasks do not   *)
(* end an action.                                                          *)
(*                                                                         *)
(* A process is one asynchronous call in progress:                         *)
(*    <<"queue", m>>   team.queue(message m), called by the ingress        *)
(*    <<"attach", w>>  team.attach(w, ...)                                 *)
(*    <<"start", w>>   runtime.start() of worker w                         *)
(*    Settle           team.settleUndeliveredQuiet()                       *)
(***************************************************************************)
EXTENDS AnomalyDetector, Sequences, FiniteSets

CONSTANTS
    MaxFollowUps,   \* maxFollowUpTurnsPerWorker
    MaxRecoveries,  \* maxRecoveries of runTurnWithProtocolRecovery (2)
    MaxMsgs,        \* bound: messages sent in the run
    Traffic,        \* bound: the messages the workers may send
    Faults,         \* which faults may happen, see FaultKinds
    MaxFaults       \* bound: how many

FaultKinds == {"append", "init", "refuse", "exit", "cancel", "unparsed"}

ASSUME TeamAssumption ==
    /\ MaxFollowUps \in Nat
    /\ MaxRecoveries \in Nat
    /\ MaxMsgs \in Nat
    /\ MaxFaults \in Nat
    /\ Faults \subseteq FaultKinds
    /\ Traffic \subseteq {t \in Message : t.from # t.to}

Msgs == 1 .. MaxMsgs

Queue(m)  == <<"queue", m>>
Attach(w) == <<"attach", w>>
Start(w)  == <<"start", w>>
Settle    == <<"settle", NoOne>>

Loops == ({"attach"} \X Workers) \cup {Settle}
Procs == ({"queue"} \X Msgs) \cup ({"start"} \X Workers) \cup Loops

VARIABLES
    sent,       \* sent[m]: the m-th message; ids are issued in submission order
    journal,    \* the fold of journal.jsonl: each message's projected state
    reason,     \* the reason of its last receipt
    appendQ,    \* TeamJournal.queue: appends waiting for the disk, in order
    det,        \* the anomaly detector
    attached,   \* keys of TeamCoordinationRuntime.runtimes
    followUps,  \* TeamCoordinationRuntime.followUps
    at,         \* where each process is
    rest,       \* messages an attach or settle loop has still to handle
    spent,      \* deliver()'s local `spent`, read before it awaits
    input,      \* input[p][m]: how often message m is framed in p's next input
    recovery,   \* corrective turns a process has started
    state,      \* RuntimeState of each worker's runtime
    thread,     \* workers whose threadId is set
    turn,       \* workers whose activeTurnId is set
    quiet,      \* quiet[w][m]: how often m is in pendingQuiet (preStartQuiet while not_started)
    seen,       \* `delivered`: ids a frame has consumed
    closing,    \* workers whose closeBarrier is set
    alive,      \* workers whose child process runs
    accepted,   \* turns the child accepted and has not started
    handed,     \* messages some accepted turn or steer carried to a worker
    faults      \* faults so far

teamVars    == <<det, attached, followUps>>
procVars    == <<at, rest, spent, input, recovery>>
runtimeVars == <<state, thread, turn, quiet, seen>>
childVars   == <<closing, alive, accepted>>
logVars     == <<journal, reason>>
vars == <<sent, logVars, appendQ, teamVars, procVars, runtimeVars, childVars, handed, faults>>

(* Processes that wait for w's app-server. *)
Uses(p, w) ==
    \/ p = Start(w)
    \/ /\ p[1] = "queue"
       /\ p[2] \in DOMAIN sent
       /\ sent[p[2]].to = w

Entry(p, kind, m, why) == [by |-> p, kind |-> kind, msg |-> m, why |-> why]
Receipts == {"delivered", "undeliverable"}

(* Notes are counted: their order within one input is left out. *)
NoNotes == [m \in Msgs |-> 0]
Noted(notes) == {m \in Msgs : notes[m] > 0}

(* Promise continuations run before the next timer, socket or file callback. *)
Woken == {p \in Procs : at[p] \in {"woken", "steerFailed"}}
NoMicrotasks == Woken = {}

Fault(k) ==
    /\ k \in Faults
    /\ faults < MaxFaults
    /\ faults' = faults + 1

Init ==
    /\ sent = <<>>
    /\ journal = [m \in Msgs |-> "none"]
    /\ reason = [m \in Msgs |-> "none"]
    /\ appendQ = <<>>
    /\ det = NewDetector
    /\ attached = {}
    /\ followUps = [w \in Workers |-> 0]
    /\ at = [p \in Procs |-> "new"]
    /\ rest = [p \in Loops |-> {}]
    /\ spent = [m \in Msgs |-> 0]
    /\ input = [p \in Procs |-> NoNotes]
    /\ recovery = [p \in Procs |-> 0]
    /\ state = [w \in Workers |-> "not_started"]
    /\ thread = {}
    /\ turn = {}
    /\ quiet = [w \in Workers |-> NoNotes]
    /\ seen = [w \in Workers |-> {}]
    /\ closing = {}
    /\ alive = {}
    /\ accepted = [w \in Workers |-> 0]
    /\ handed = {}
    /\ faults = 0

-----------------------------------------------------------------------------
(* The runtime: inject, wake and the framing of a turn's input.            *)

FrameWithoutNotes(w, extra) == [m \in Msgs |-> IF m \in extra THEN 1 ELSE 0]

(* framedInput: the pending notes and `extra`, without what has been framed
   before; the filter does not see what it is about to frame. *)
Frame(w, extra) ==
    [m \in Msgs |-> IF m \in seen[w] THEN 0
                    ELSE quiet[w][m] + (IF m \in extra THEN 1 ELSE 0)]

(* Consume the notes into process p's next input. *)
TakeInput(p, w, extra) ==
    /\ input' = [input EXCEPT ![p] = Frame(w, extra)]
    /\ quiet' = [quiet EXCEPT ![w] = NoNotes]
    /\ seen' = [seen EXCEPT ![w] = @ \cup Noted(Frame(w, extra))]

(* runTurn sets the state before it sends turn/start. *)
RunTurn(p, w) ==
    /\ at' = [at EXCEPT ![p] = "turnStart"]
    /\ state' = [state EXCEPT ![w] = "active"]

(* A message is kept for the worker's next turn. *)
Hold(w, m) ==
    IF m \in seen[w] THEN UNCHANGED quiet ELSE quiet' = [quiet EXCEPT ![w][m] = @ + 1]

-----------------------------------------------------------------------------
(* deliver(): which of its branches a message takes.                       *)

IsWakeup(m) == sent[m].kind = "wakeup"

Downgraded(m, d) == IsWakeup(m) /\ ShouldDowngrade(d, sent[m])

OverBudget(m) == IsWakeup(m) /\ followUps[sent[m].to] >= MaxFollowUps

(* What deliver() asks of the runtime; d is the detector at that moment. *)
Asks(m, d) ==
    LET w == sent[m].to
    IN  IF \/ state[w] = "not_started"
           \/ sent[m].kind = "quiet"
           \/ sent[m].kind = "talk" /\ w \notin turn
           \/ Downgraded(m, d)
        THEN "inject"
        ELSE "wake"

(* receipt() of process p, behind the appends in q. *)
Report(p, q, m, outcome, why) ==
    /\ at' = [at EXCEPT ![p] = "receipt"]
    /\ appendQ' = Append(q, Entry(p, outcome, m, why))

(* Deliveries run in the step that writes the line they waited for. *)
Backlog == Tail(appendQ)

CountFollowUp(m, d) ==
    followUps' = IF IsWakeup(m) /\ ~Downgraded(m, d)
                 THEN [followUps EXCEPT ![sent[m].to] = @ + 1]
                 ELSE followUps

NoDelivery == UNCHANGED <<followUps, spent, input, state, quiet, seen>>

(* The recipient is not attached: the message stays queued. *)
DeliverNobody(p, m) ==
    /\ sent[m].to \notin attached
    /\ at' = [at EXCEPT ![p] = "done"]
    /\ appendQ' = Backlog
    /\ NoDelivery

DeliverRefused(p, m) ==
    /\ sent[m].to \in attached
    /\ OverBudget(m)
    /\ Report(p, Backlog, m, "undeliverable", "FOLLOW_UP_LIMIT")
    /\ NoDelivery

(* inject or wake on a runtime that is closed. *)
DeliverClosed(p, m) ==
    /\ sent[m].to \in attached
    /\ ~OverBudget(m)
    /\ state[sent[m].to] = "closed"
    /\ Report(p, Backlog, m, "undeliverable", "TARGET_CLOSED")
    /\ NoDelivery

(* inject, or a wake before the thread exists: held for the next turn.  A
   wakeup held by an active runtime spends budget, one held before start does
   not: deliver() returns from the not_started branch before the counter. *)
DeliverHeld(p, m, d) ==
    LET w == sent[m].to
    IN  /\ w \in attached
        /\ ~OverBudget(m)
        /\ state[w] # "closed"
        /\ Asks(m, d) = "inject" \/ w \notin thread
        /\ Hold(w, m)
        /\ Report(p, Backlog, m, "delivered", IF Downgraded(m, d) /\ state[w] # "not_started"
                                                 THEN "downgraded_to_quiet" ELSE "none")
        /\ IF state[w] = "not_started" THEN UNCHANGED followUps ELSE CountFollowUp(m, d)
        /\ UNCHANGED <<spent, input, state, seen>>

(* wake on a thread: steer the active turn, else start one. *)
DeliverWoken(p, m, d) ==
    LET w == sent[m].to
    IN  /\ w \in attached
        /\ ~OverBudget(m)
        /\ state[w] # "closed"
        /\ Asks(m, d) = "wake"
        /\ w \in thread
        /\ spent' = [spent EXCEPT ![m] = followUps[w]]
        /\ TakeInput(p, w, {m})
        /\ IF state[w] = "active" /\ w \in turn
           THEN at' = [at EXCEPT ![p] = "steer"] /\ UNCHANGED state
           ELSE RunTurn(p, w)
        /\ appendQ' = Backlog
        /\ UNCHANGED followUps

Deliver(p, m, d) ==
    \/ DeliverNobody(p, m)
    \/ DeliverRefused(p, m)
    \/ DeliverClosed(p, m)
    \/ DeliverHeld(p, m, d)
    \/ DeliverWoken(p, m, d)

-----------------------------------------------------------------------------
(* The journal: one append at a time, and the caller that waited goes on.  *)

(* POST /message of the worker's MCP subprocess: the ingress resolves the
   sender from its token, which lives from the start to the detach. *)
Submit(t) ==
    LET m == Len(sent) + 1
    IN  /\ NoMicrotasks
        /\ m \in Msgs
        /\ t.from \in attached
        /\ at[Start(t.from)] # "new"
        /\ sent' = Append(sent, t)
        /\ at' = [at EXCEPT ![Queue(m)] = "append"]
        /\ appendQ' = Append(appendQ, Entry(Queue(m), "queued", m, "none"))
        /\ UNCHANGED <<logVars, teamVars, rest, spent, input, recovery, runtimeVars,
                       childVars, handed, faults>>

Head1(kinds) == appendQ # <<>> /\ Head(appendQ).kind \in kinds

(* queue() after its append: observe, then deliver. *)
WriteQueued ==
    LET e == Head(appendQ)
        d == Observe(det, sent[e.msg])
    IN  /\ NoMicrotasks
        /\ Head1({"queued"})
        /\ journal' = [journal EXCEPT ![e.msg] = "queued"]
        /\ det' = d
        /\ Deliver(e.by, e.msg, d)
        /\ UNCHANGED <<sent, reason, attached, rest, recovery, thread, turn, childVars,
                       handed, faults>>

IsEarliest(m, S) == \A n \in S : m <= n

LoopEnds(p) ==
    /\ at' = [at EXCEPT ![p] = "done"]
    /\ appendQ' = Backlog
    /\ NoDelivery
    /\ UNCHANGED rest

(* The next turn of attach()'s loop over the pending messages. *)
AttachStep(p, todo) ==
    IF todo = {}
    THEN LoopEnds(p)
    ELSE \E m \in todo :
            /\ IsEarliest(m, todo)
            /\ rest' = [rest EXCEPT ![p] = todo \ {m}]
            /\ Deliver(p, m, det)

(* The next turn of settleUndeliveredQuiet()'s loop, behind the appends in q. *)
SettleStep(q, todo) ==
    /\ NoDelivery
    /\ IF todo = {}
       THEN /\ at' = [at EXCEPT ![Settle] = "done"]
            /\ appendQ' = q
            /\ UNCHANGED rest
       ELSE \E m \in todo :
               /\ IsEarliest(m, todo)
               /\ Report(Settle, q, m, "undeliverable", "NO_FURTHER_TURN")
               /\ rest' = [rest EXCEPT ![Settle] = todo \ {m}]

(* pendingMessages(): queued, no receipt, in journal order - which is the order
   of the ids, since ids are issued in the order of the append queue. *)
Pending == {m \in Msgs : journal[m] = "queued"}

(* attach() after its append: what is pending for the worker now. *)
WriteRuntimeChanged ==
    LET e == Head(appendQ)
        w == e.by[2]
    IN  /\ NoMicrotasks
        /\ Head1({"runtime_changed"})
        /\ AttachStep(e.by, {m \in Pending : sent[m].to = w})
        /\ UNCHANGED <<sent, logVars, det, attached, recovery, thread, turn, childVars,
                       handed, faults>>

(* A receipt is on disk: the caller's loop goes on, or the call returns. *)
WriteReceipt ==
    LET e == Head(appendQ)
        p == e.by
    IN  /\ NoMicrotasks
        /\ Head1(Receipts)
        /\ journal' = [journal EXCEPT ![e.msg] = e.kind]
        /\ reason' = [reason EXCEPT ![e.msg] = e.why]
        /\ CASE p[1] = "attach" -> AttachStep(p, rest[p])
             [] p[1] = "settle" -> SettleStep(Backlog, rest[p])
             [] OTHER           -> LoopEnds(p)
        /\ UNCHANGED <<sent, det, attached, recovery, thread, turn, childVars, handed, faults>>

AppendErrorSwallowed ==
    /\ NoMicrotasks
    /\ Head1({"queued"})
    /\ Fault("append")
    /\ Deliver(Head(appendQ).by, Head(appendQ).msg, det)
    /\ UNCHANGED <<sent, logVars, det, attached, rest, recovery, thread, turn, childVars, handed>>

(* appendFile rejects: the caller throws, the chain goes on. *)
AppendFails ==
    /\ NoMicrotasks
    /\ appendQ # <<>>
    /\ Fault("append")
    /\ at' = [at EXCEPT ![Head(appendQ).by] = "failed"]
    /\ appendQ' = Backlog
    /\ UNCHANGED <<sent, logVars, teamVars, rest, spent, input, recovery, runtimeVars,
                   childVars, handed>>

-----------------------------------------------------------------------------
(* A worker's session, and the turns that run on it.                       *)

AttachWorker(w) ==
    /\ NoMicrotasks
    /\ at[Attach(w)] = "new" /\ at[Settle] = "new"
    /\ attached' = attached \cup {w}
    /\ at' = [at EXCEPT ![Attach(w)] = "append"]
    /\ appendQ' = Append(appendQ, Entry(Attach(w), "runtime_changed", 0, "none"))
    /\ UNCHANGED <<sent, logVars, det, followUps, rest, spent, input, recovery, runtimeVars,
                   childVars, handed, faults>>

StartBeforeAttached(w) ==
    /\ NoMicrotasks
    /\ at[Attach(w)] # "new"
    /\ at[Start(w)] = "new"
    /\ at' = [at EXCEPT ![Start(w)] = "init"]
    /\ state' = [state EXCEPT ![w] = "active"]
    /\ alive' = alive \cup {w}
    /\ UNCHANGED <<sent, logVars, appendQ, teamVars, rest, spent, input, recovery, thread, turn,
                   quiet, seen, closing, accepted, handed, faults>>

(* SessionRuntime.start builds the inner runtime, moves preStartQuiet into it
   and starts it: the child is spawned, "initialize" is sent. *)
StartSession(w) ==
    /\ NoMicrotasks
    /\ at[Attach(w)] = "done"
    /\ at[Start(w)] = "new"
    /\ at' = [at EXCEPT ![Start(w)] = "init"]
    /\ state' = [state EXCEPT ![w] = "active"]
    /\ alive' = alive \cup {w}
    /\ UNCHANGED <<sent, logVars, appendQ, teamVars, rest, spent, input, recovery, thread, turn,
                   quiet, seen, closing, accepted, handed, faults>>

(* The thread is open; the first turn's input takes the notes held so far. *)
ThreadOpens(w) ==
    /\ NoMicrotasks
    /\ at[Start(w)] = "init"
    /\ w \in alive
    /\ thread' = thread \cup {w}
    /\ TakeInput(Start(w), w, {})
    /\ RunTurn(Start(w), w)
    /\ UNCHANGED <<sent, logVars, appendQ, teamVars, rest, spent, recovery, turn, childVars,
                   handed, faults>>

(* A missing capability, or no thread id in the reply: start() throws. *)
ThreadFails(w) ==
    /\ NoMicrotasks
    /\ at[Start(w)] = "init"
    /\ Fault("init")
    /\ at' = [at EXCEPT ![Start(w)] = "failed"]
    /\ UNCHANGED <<sent, logVars, appendQ, teamVars, rest, spent, input, recovery, runtimeVars,
                   childVars, handed>>

(* waitForIdle returns at once unless the runtime is active. *)
AwaitIdle(p, w) == at' = [at EXCEPT ![p] = IF state[w] = "active" THEN "turn" ELSE "woken"]

TurnAccepted(p, w) ==
    /\ NoMicrotasks
    /\ Uses(p, w) /\ at[p] = "turnStart" /\ w \in alive
    /\ AwaitIdle(p, w)
    /\ accepted' = [accepted EXCEPT ![w] = @ + 1]
    /\ handed' = handed \cup Noted(input[p])
    /\ UNCHANGED <<sent, logVars, appendQ, teamVars, rest, spent, input, recovery, runtimeVars,
                   closing, alive, faults>>

(* turn/start answers with a JSON-RPC error: runTurn does not look at it. *)
TurnRefused(p, w) ==
    /\ NoMicrotasks
    /\ Uses(p, w) /\ at[p] = "turnStart" /\ w \in alive
    /\ Fault("refuse")
    /\ AwaitIdle(p, w)
    /\ UNCHANGED <<sent, logVars, appendQ, teamVars, rest, spent, input, recovery, runtimeVars,
                   childVars, handed>>

(* The child is gone: the write to its stdin fails and the request rejects. *)
TurnUnsent(p, w) ==
    /\ NoMicrotasks
    /\ Uses(p, w) /\ at[p] = "turnStart" /\ w \notin alive
    /\ at' = [at EXCEPT ![p] = "failed"]
    /\ UNCHANGED <<sent, logVars, appendQ, teamVars, rest, spent, input, recovery, runtimeVars,
                   childVars, handed, faults>>

(* A wake that went through: count it, report it. *)
WakeDelivered(m, w) ==
    /\ seen' = [seen EXCEPT ![w] = @ \cup {m}]
    /\ followUps' = IF IsWakeup(m) THEN [followUps EXCEPT ![w] = spent[m] + 1] ELSE followUps
    /\ Report(Queue(m), appendQ, m, "delivered", "none")

SteerAccepted(m, w) ==
    /\ NoMicrotasks
    /\ Uses(Queue(m), w) /\ at[Queue(m)] = "steer"
    /\ w \in alive /\ w \in turn
    /\ WakeDelivered(m, w)
    /\ handed' = handed \cup Noted(input[Queue(m)])
    /\ UNCHANGED <<sent, logVars, det, attached, rest, spent, input, recovery, state, thread,
                   turn, quiet, childVars, faults>>

(* The turn the steer named is over, or the request was rejected: the same
   input starts a turn instead. *)
SteerFallsThrough(m, w) ==
    /\ Uses(Queue(m), w)
    /\ \/ at[Queue(m)] = "steer" /\ NoMicrotasks
       \/ at[Queue(m)] = "steerFailed"
    /\ RunTurn(Queue(m), w)
    /\ UNCHANGED <<sent, logVars, appendQ, teamVars, rest, spent, input, recovery, thread, turn,
                   quiet, seen, childVars, handed, faults>>

TurnStartedUnasked(w) ==
    /\ w \in alive
    /\ w \notin turn
    /\ accepted' = [accepted EXCEPT ![w] = @ - 1]
    /\ turn' = turn \cup {w}
    /\ state' = [state EXCEPT ![w] = "active"]
    /\ UNCHANGED <<sent, logVars, appendQ, teamVars, procVars, thread, quiet, seen, closing,
                   alive, handed, faults>>

(* The notifications set the state whatever it was. *)
TurnStarted(w) ==
    /\ w \in alive
    /\ accepted[w] > 0 /\ w \notin turn
    /\ accepted' = [accepted EXCEPT ![w] = @ - 1]
    /\ turn' = turn \cup {w}
    /\ state' = [state EXCEPT ![w] = "active"]
    /\ UNCHANGED <<sent, logVars, appendQ, teamVars, procVars, thread, quiet, seen, closing,
                   alive, handed, faults>>

(* releaseIdle: everyone who waits for this runtime's turn goes on. *)
Released(p, w) == Uses(p, w) /\ at[p] = "turn"

TurnCompleted(w) ==
    /\ w \in alive /\ w \in turn
    /\ turn' = turn \ {w}
    /\ state' = [state EXCEPT ![w] = "idle"]
    /\ at' = [p \in Procs |-> IF Released(p, w) THEN "woken" ELSE at[p]]
    /\ UNCHANGED <<sent, logVars, appendQ, teamVars, rest, spent, input, recovery, thread, quiet,
                   seen, childVars, handed, faults>>

(* runTurnWithProtocolRecovery after a turn: the answer is usable ... *)
WakeReturns(m, w) ==
    /\ Uses(Queue(m), w) /\ at[Queue(m)] = "woken"
    /\ WakeDelivered(m, w)
    /\ UNCHANGED <<sent, logVars, det, attached, rest, spent, input, recovery, state, thread,
                   turn, quiet, childVars, handed, faults>>

StartReturns(w) ==
    /\ at[Start(w)] = "woken"
    /\ at' = [at EXCEPT ![Start(w)] = "done"]
    /\ UNCHANGED <<sent, logVars, appendQ, teamVars, rest, spent, input, recovery, runtimeVars,
                   childVars, handed, faults>>

(* ... or tool-call markup came as text: a corrective turn, whose input takes
   the notes held meanwhile, up to MaxRecoveries times; then it throws. *)
RecoveryTurn(p, w) ==
    /\ Uses(p, w) /\ at[p] = "woken"
    /\ Fault("unparsed")
    /\ recovery[p] < MaxRecoveries
    /\ recovery' = [recovery EXCEPT ![p] = @ + 1]
    /\ TakeInput(p, w, {})
    /\ RunTurn(p, w)
    /\ UNCHANGED <<sent, logVars, appendQ, teamVars, rest, spent, thread, turn, childVars, handed>>

ProtocolError(p, w) ==
    /\ Uses(p, w) /\ at[p] = "woken"
    /\ recovery[p] = MaxRecoveries
    /\ Fault("unparsed")
    /\ at' = [at EXCEPT ![p] = "failed"]
    /\ UNCHANGED <<sent, logVars, appendQ, teamVars, rest, spent, input, recovery, runtimeVars,
                   childVars, handed>>

-----------------------------------------------------------------------------
(* The end of a session.                                                   *)

Over(w) == at[Attach(w)] = "failed" \/ at[Start(w)] \in {"done", "failed"}

(* detachWorkerIngress: once start() has settled, or after a cancellation. *)
Detach(w) ==
    /\ NoMicrotasks
    /\ w \in attached
    /\ Over(w) \/ w \in closing
    /\ attached' = attached \ {w}
    /\ UNCHANGED <<sent, logVars, appendQ, det, followUps, procVars, runtimeVars, childVars,
                   handed, faults>>

(* Requests reject, and a rejected steer is caught; a turn that is waited for
   counts as ended. *)
WhenBroken == [init |-> "failed", turnStart |-> "failed", steer |-> "steerFailed", turn |-> "woken"]

BrokenKeepsWaiters(w) ==
    [p \in Procs |-> IF Uses(p, w) /\ at[p] \in DOMAIN WhenBroken \ {"turn"}
                     THEN WhenBroken[at[p]] ELSE at[p]]

(* What becomes of the calls that wait for w's app-server when it goes. *)
Broken(w) ==
    [p \in Procs |-> IF Uses(p, w) /\ at[p] \in DOMAIN WhenBroken
                     THEN WhenBroken[at[p]] ELSE at[p]]

(* quiesce, close or cancel: requests reject, waiters are released, the child
   is told to go.  A second call only waits for the first one's barrier. *)
Close(w) ==
    /\ NoMicrotasks
    /\ state[w] # "not_started" /\ w \notin closing
    /\ \/ Over(w) /\ UNCHANGED faults
       \/ ~Over(w) /\ Fault("cancel")
    /\ closing' = closing \cup {w}
    /\ state' = [state EXCEPT ![w] = "closed"]
    /\ at' = Broken(w)
    /\ UNCHANGED <<sent, logVars, appendQ, teamVars, rest, spent, input, recovery, thread, turn,
                   quiet, seen, alive, accepted, handed>>

(* The child's "close" event; it does nothing when the state is closed. *)
ChildExit(w) ==
    /\ NoMicrotasks
    /\ w \in alive
    /\ IF w \in closing THEN UNCHANGED faults ELSE Fault("exit")
    /\ alive' = alive \ {w}
    /\ IF state[w] = "closed"
       THEN UNCHANGED <<state, at>>
       ELSE /\ state' = [state EXCEPT ![w] = "closed"]
            /\ at' = Broken(w)
    /\ UNCHANGED <<sent, logVars, appendQ, teamVars, rest, spent, input, recovery, thread, turn,
                   quiet, seen, closing, accepted, handed>>

(* The plan is done: every worker that was attached has been detached. *)
RunOver ==
    /\ \E w \in Workers : at[Attach(w)] # "new"
    /\ \A w \in Workers : at[Attach(w)] # "new" => Over(w) /\ w \notin attached

(* undeliveredQuiet() of the runtimes the team still has. *)
Stranded == UNION {Noted(quiet[w]) : w \in {v \in attached : state[v] # "not_started"}}

SettleQuiet ==
    /\ NoMicrotasks
    /\ RunOver
    /\ at[Settle] = "new"
    /\ SettleStep(appendQ, Stranded)
    /\ UNCHANGED <<sent, logVars, det, attached, recovery, thread, turn, childVars, handed, faults>>

-----------------------------------------------------------------------------
Write == WriteQueued \/ WriteRuntimeChanged \/ WriteReceipt

(* What the disk, the app-server and the promise queue are bound to do. *)
Progress(w) ==
    \/ StartSession(w)
    \/ ThreadOpens(w)
    \/ TurnStarted(w)
    \/ TurnCompleted(w)
    \/ StartReturns(w)
    \/ w \in closing /\ ChildExit(w)
    \/ \E p \in Procs : TurnAccepted(p, w) \/ TurnUnsent(p, w)
    \/ \E m \in Msgs : SteerAccepted(m, w) \/ SteerFallsThrough(m, w) \/ WakeReturns(m, w)

Mishap(w) ==
    \/ ThreadFails(w)
    \/ w \notin closing /\ ChildExit(w)
    \/ \E p \in Procs : TurnRefused(p, w) \/ RecoveryTurn(p, w) \/ ProtocolError(p, w)

Next ==
    \/ \E t \in Traffic : Submit(t)
    \/ Write
    \/ AppendFails
    \/ \E w \in Workers :
          AttachWorker(w) \/ Progress(w) \/ Mishap(w) \/ Detach(w) \/ Close(w)
    \/ SettleQuiet

(* The orchestrator decides when to send, attach, detach and close; appends,
   replies and turns end; a worker whose attach threw is detached. *)
Fairness ==
    /\ WF_vars(Write)
    /\ \A w \in Workers : WF_vars(Progress(w))
    /\ \A w \in Workers : WF_vars(at[Attach(w)] = "failed" /\ Detach(w))

Spec == Init /\ [][Next]_vars /\ Fairness

-----------------------------------------------------------------------------
(* Properties.                                                             *)

Places == {"new", "append", "receipt", "init", "steer", "steerFailed", "turnStart", "turn",
           "woken", "done", "failed"}

EntryType == [by : Procs, kind : Receipts \cup {"queued", "runtime_changed"},
              msg : Msgs \cup {0},
              why : {"none", "FOLLOW_UP_LIMIT", "TARGET_CLOSED", "downgraded_to_quiet",
                     "NO_FURTHER_TURN"}]

(* Type invariant: what each variable may hold. *)
TypeOK ==
    /\ sent \in Seq(Traffic) /\ Len(sent) <= MaxMsgs
    /\ journal \in [Msgs -> {"none", "queued"} \cup Receipts]
    /\ reason \in [Msgs -> {"none", "FOLLOW_UP_LIMIT", "TARGET_CLOSED", "downgraded_to_quiet",
                            "NO_FURTHER_TURN"}]
    /\ appendQ \in Seq(EntryType)
    /\ attached \subseteq Workers
    /\ followUps \in [Workers -> Nat]
    /\ at \in [Procs -> Places]
    /\ rest \in [Loops -> SUBSET Msgs]
    /\ spent \in [Msgs -> Nat]
    /\ input \in [Procs -> [Msgs -> Nat]]
    /\ recovery \in [Procs -> Nat]
    /\ state \in [Workers -> {"not_started", "active", "idle", "closed"}]
    /\ thread \subseteq Workers
    /\ turn \subseteq Workers
    /\ quiet \in [Workers -> [Msgs -> Nat]]
    /\ seen \in [Workers -> SUBSET Msgs]
    /\ closing \subseteq Workers
    /\ alive \subseteq Workers
    /\ accepted \in [Workers -> Nat]
    /\ handed \subseteq Msgs
    /\ faults \in Nat

Recorded == {m \in Msgs : journal[m] # "none"}

(* Persist first: whatever a runtime holds, frames or hands to a worker, and
   whatever a receipt speaks of, has its queued line in the journal, so a
   crash at any point loses no message a worker may have acted on. *)
DurableBeforeDelivered ==
    /\ handed \subseteq Recorded
    /\ \A w \in Workers : seen[w] \cup Noted(quiet[w]) \subseteq Recorded
    /\ \A i \in DOMAIN appendQ : appendQ[i].kind \in Receipts => appendQ[i].msg \in Recorded

(* While the recipient's runtime has not been closed, a message recorded as
   delivered is in the worker's hands, or held, or in an input on its way. *)
DeliveredIsHeldOrHanded ==
    \A m \in 1 .. Len(sent) :
        LET w == sent[m].to
        IN  journal[m] = "delivered" /\ w \notin closing =>
                \/ m \in handed
                \/ quiet[w][m] > 0
                \/ \E p \in Procs : input[p][m] > 0 /\ at[p] \in {"steer", "turnStart"}

(* Without a fault a receipt tells the truth. *)
ReceiptsAreTrue == faults = 0 => DeliveredIsHeldOrHanded

(* A receipt is the last word on a message but for one correction: a note whose
   recipient took no further turn is taken back by settleUndeliveredQuiet.  No
   redelivery, retry or late answer rewrites it. *)
ReceiptsAreFinal ==
    [][\A m \in Msgs :
          journal[m] \in Receipts /\ journal'[m] # journal[m] =>
              journal'[m] = "undeliverable" /\ reason'[m] = "NO_FURTHER_TURN"]_vars

(* Message m's delivery is a wake that is still under way. *)
Waking(m) == at[Queue(m)] \in {"steer", "steerFailed", "turnStart", "turn", "woken"}

(* The follow-up budget: turns a worker was woken for, and those being started
   for it, stay within maxFollowUpTurnsPerWorker. *)
FollowUpsWithinBudget ==
    \A w \in Workers :
        followUps[w] + Cardinality({m \in 1 .. Len(sent) : sent[m].to = w /\ IsWakeup(m) /\ Waking(m)})
            <= MaxFollowUps

(* A frame carries each message once, however its note came to be held. *)
FramedOnce == \A p \in Procs : \A m \in Msgs : input[p][m] <= 1

(* Every call of queue() returns or throws: a sender never waits for ever. *)
QueueReturns ==
    \A m \in Msgs : at[Queue(m)] = "append" ~> at[Queue(m)] \in {"done", "failed"}

Recipient(m) == IF m \in DOMAIN sent THEN sent[m].to ELSE NoOne

(* A message for a worker that stays attached gets its receipt. *)
ReceiptEventually ==
    \A m \in Msgs :
        journal[m] = "queued" /\ Recipient(m) \in attached
            ~> \/ journal[m] \in Receipts
               \/ Recipient(m) \notin attached
               \/ at[Queue(m)] = "failed"

Abstract == INSTANCE TeamMessaging

(* The journal and the workers' hands behave as TeamMessaging promises: a
   message is recorded once, handed over only after that, and its receipts
   follow in order. *)
Implements == Abstract!AbsSpec

=============================================================================
