# A verification project for Agent Continuity Middleware

The repository is a control plane for coding agents: a Fastify server
(`src/apps/server/src`, TypeScript, about 41 000 lines) that runs leader and
worker agents on Git projects, and a React console. These modules model the
parts of the server where order, concurrency, crashes and partial failures
decide whether the system is right. Paths below are relative to
`src/apps/server/src` unless they start with `src/` or `docs/`.

The server is one Node.js process: JavaScript runs on one thread, so two calls
interleave only where one of them awaits something that really waits - the
disk, a child process, a lock, a timer. **An action of every module here is the
code between two such awaits.** State lives in three places that can disagree:
the JSON store (`store.ts`, one serialised mutation at a time, published by a
rename), Git repositories and checkouts, and the process's memory. A crash
loses the third.

## Inventory

| Component | State it keeps | Operations | Hard behaviour | What makes it correct |
|---|---|---|---|---|
| Team coordination (`coordination/`) | journal.jsonl, attached runtimes, follow-up counts, detector | queue, deliver, receipt, attach, detach, settleUndeliveredQuiet | deliveries overlap and each may last a turn; appends may fail | recorded before delivered, receipts true and final, loops stop, senders get an answer |
| Session runtimes (`runtime/`) | state, thread, active turn, held notes, waiters, child process | start, inject, wake, close, cancel, quiesce, exit of the child | a turn ends under a steer; the child dies under waiters; a close overtakes a start | no message lost or framed twice, no waiter left, gone when said to be gone |
| Runners and containers (`codex-runner.ts`, `container-codex-runner.ts`) | one process or container per turn, its causes of ending | run, cancel, time limit, removal | three parties end one turn, the engine answers late | cancel answers when it is gone; the turn ends |
| Contribution settlement (`contribution-integrator.ts`, `orchestration/orchestrator.ts` 3191-3847) | canonical checkout, integration records, attempts, task nodes, project head | settle, integrate, guard, roll back, compensate, fence | cancellation and deadline at any await, several dispatches, crash in between | checkout and store in step, each contribution whole or not at all |
| Run control, budget, model proxy (`run-control.ts`, `workers/budget.ts`, `model-proxy.ts`) | latch, timer, reservations, scopes, tokens | stop, race, reserve, reconcile, release, admit | deadline against answer, concurrent calls at a fuse, retry after 429 | a latched run admits nothing, accounting adds up, fuses latch |
| Project registry and repositories (`project-registry.ts`, `project-repository-manager.ts`, `project-migration.ts`) | records, baseline, transition; branches and repositories | create, open, delete, advanceBaseline, recovery, migration | two stores moved by two compare-and-swaps; calls that name one directory | one linear baseline, another owner's branch and repository left alone |
| Agent service (`agent-service.ts`) | agents, runs, messages | sendMessage, cancel, delete, recovery at startup, terminal publication | crash between terminal event and store | a run ends once, with what was published |
| Orchestrator loop, scheduler (`orchestration/orchestrator.ts`, `scheduler.ts`) | plans, results in memory and in the store, parked starts, dispatches | plan, schedule, evaluate, replan, live dispatch | background dispatches, late results, pumps that throw beside pumps that run | producers first, budget kept, failures reach dependents, the run ends |
| Worker watch (`workers/trajectory.ts`, the wait of `runSubtask`) | evidence, checkpoints, leases, deadline | observe, stop, extend | old evidence, events beside timers, the end of the run | an extension is earned once; the turn ends |
| Healing (`orchestration/healing/`) | faults, diagnoses, tournaments, candidates | claim, diagnose, attach, tournament, squash winner | work outside the lock between two locked steps | one fence, a winner that earned it, repairs end |
| Evolution history (`orchestration/evolution/`) | outbox, segment chain, checkpoints, index | enqueue, flush, append, reconcile, query | crash between append and mark, moving head | every entry once, only sound history prunes |
| Verification (`orchestration/verification/`) | profile, gates, evidence; lease, port, records, containers | select, run, reconcile, sweep | late engine, crash of a server, two servers | a pass rests on its gates; nothing is left behind unrecorded |
| Attempt workspaces (`attempt-workspace-manager.ts`, `project-attempt-executor.ts`) | checkouts, markers, records | create, persist, collect, recover, remove | crash and failure between any two | active work is owned, work is removed only when settled |
| Project runs (`project-run-manager.ts`) | reservations, branches, ownership | prepare, abort, acknowledge | cleanup that fails, ids used again | all or nothing |
| Event log (`event-log.ts`, `run-events.ts`) | queues, files, the last events in memory | emit, close, reopen, read a page | failing appends, emit after close, readers behind | a closed log is complete; pages neither skip nor mix |
| Store (`store.ts`, `storage-layout.ts`) | database, in memory and in its file | initialize, snapshot, mutate; moves at startup | failed and cut-off writes, old and foreign files | all or nothing, in order |
| Tool server (`launchpad-mcp-server-source.ts`) | jobs; task file, registry, skill hub | start, cancel, sweep; locked updates | timers, dying servers, stale locks | one end per job, no lost update |
| Web console (`src/apps/web/src`) | pages, traces, pollers | read runs and workers | loops that outlive their view | what is shown is true, and whole in the end |
| HTTP, configuration, workspaces' files, skills, deployment | - | - | plumbing and text | left to the repository's tests |

`PROJECT.json` repeats this list with the status and reason of each part, and
lists every hazard at its line.

How they interact: `agent-service` admits a message (which first lets the
registry recover the project), prepares the run's project, creates a run and
calls the orchestrator; the orchestrator dispatches workers in attempt
workspaces, attaches their runtimes to the team, watches their turns, settles
their contributions under the run's authority lock, repairs what failed, and at
the end asks the registry to advance the baseline to the run's head.
`RunControl` is the shared latch that stops all of it. Workers talk through the
ingress to the team, and to files through their tool servers. Every module
writes through the one store, and what happened is read from the event log.

## Modules

| Module | Models | Checked in |
|---|---|---|
| `AnomalyDetector` | `coordination/anomaly-detector.ts`, as operators on the detector's record | `MCAttempts`; used by `TeamCoordination` |
| `TeamMessaging` | abstract: what a team promises about messages | refined by `TeamCoordination` |
| `TeamCoordination` | `team-runtime.ts`, `team-journal.ts`, the message side of the session runtimes, attach and detach of the orchestrator | `MCTeamCoordination` |
| `AtomicIntegration` | abstract: a contribution is taken or refused in one step | refined by `ProjectIntegration` |
| `ProjectIntegration` | settlement of contributions, cancellation, end of run, restart | `MCProjectIntegration` |
| `ProjectBaseline` | `project-registry.ts` with admission and startup | `MCProjectBaseline` |
| `ModelBudget` | `run-control.ts`, `workers/budget.ts`, `model-proxy.ts`, `leader/ark-client.ts`, `leader/rate-limit.ts`: a run's model calls | `MCModelBudget` |
| `LiveDispatch` | a run with a live leader: dispatch, waits, parked tasks, fences, results twice, the end of the run | `MCLiveDispatch` |
| `PlannedRun` | a run with a plan: planner, scheduler, evaluation, replan, judgement | `MCLiveDispatch` |
| `Dispatch` | the two kinds of run side by side | `MCLiveDispatch` |
| `TrajectoryMonitor` | `workers/trajectory.ts`, as operators on the monitor's state | used by `WorkerTurn` |
| `WorkerTurn` | the wait for one worker's turn, with monitor, deadline, extensions and the session | `MCAttempts` |
| `ExecRunner` | one turn of the exec backend, on the host or in a container | `MCAttempts` |
| `ToolJobs`, `SharedTools` | the tool server's jobs; the files that tool servers share | `MCAttempts` |
| `RunLifecycle` | the run's row, its event log and its execution: admission to deletion, restart | `MCRunLifecycle` |
| `RunEvents` | the event logs as their readers see them | used by the next two |
| `RunTranscript`, `SessionEvents` | `App.tsx` and `useSessionEvents.ts`: the console's reading of the leader's runs, and of the workers | `MCRunLifecycle` |
| `Console` | `RunLifecycle` and the two above side by side | `MCRunLifecycle` |
| `RepairTournament` | claim, diagnosis and tournament on the task nodes of a run | `MCAttempts` |
| `EvolutionHistory` | outboxes, chain, reconciler, index and query of a project | `MCAttempts` |
| `Attempts` | what a worker's attempt meets, side by side: `RepairTournament`, `EvolutionHistory`, `ToolJobs`, `SharedTools`, `WorkerTurn`, `ExecRunner`, `AnomalyDetector` | `MCAttempts` |
| `RunPreparation` | `project-run-manager.ts` | `MCWorkspaces` |
| `AttemptWorkspaces` | one attempt's workspace, marker and record | `MCWorkspaces` |
| `ProjectCatalog` | projects made, opened, deleted, their chats, migration | `MCWorkspaces` |
| `JsonStore` | `store.ts` and `storage-layout.ts` | `MCWorkspaces` |
| `VerificationGate` | one verification: authority, selection, gates, result | `MCWorkspaces` |
| `VerificationSandbox` | the container of a gate, its record, lease and sweep | `MCWorkspaces` |
| `Workspaces` | the six components above side by side, with what each asks of its constants | `MCWorkspaces` |
| `...Proofs` | theorems and their proofs | |

### Several components in one run

`Dispatch`, `Attempts`, `Console` and `Workspaces` (and `MCTeamCoordination` for two
settings of one component) hold several components side by side: a variable chosen
in `Init` says which one runs, and the others stand still. This is no composition; it
lets one TLC run answer the same question of related parts, and a theorem speak of a
property that is the conjunction of its parts'. The modules put their components together
for any constants. `MCSpec`, `ToolsSpec` and `HealingSpec` of the MC modules are
the same behaviours from fewer initial states: a component that stands still does so in
one fixed state (and `Tools` and `Healing` share out the components of `Attempts`). The
fairness of one part is harmless in a behaviour
of another, since no fair action is enabled in the state in which a part that
does not run stands.

Parts do meet where the code's do, by what one leaves to the other: the double
start that `LiveDispatch` finds is the two executors of `AttemptWorkspaces`; a
verdict of `VerificationGate` is the candidate's outcome in `RepairTournament`,
whose winner settles as in `ProjectIntegration`; a failing mutation of
`JsonStore`, which leaves file and memory as they were, is the failing write of
all others; `RunTranscript` and `SessionEvents` extend the log they read.

### TeamCoordination

A process is one asynchronous call: `queue()` of a message, `attach()` or
`start()` of a worker, the final settlement. `at` says where each one waits.
`appendQ` is the journal's promise chain: an action `Write...` takes its head,
puts the line on disk and runs what the caller does next up to its next real
await, so `deliver()` runs in the same action as the line it waited for. A
runtime is `state`, `thread`, `turn`, the held notes `quiet` and the ids `seen`
(the code's `delivered`); `alive` and `accepted` are the child process. Promise
continuations run before any other event: `NoMicrotasks` keeps everything else
back while a process is "woken". `handed` is history: what an accepted turn or
steer carried. Held notes and framed inputs are counts per message - a note can be
held twice, as `FramedOnce` would not allow - without the order within one turn's text.
Contents are model values, equal when the detector's repeat key is.

Left out: validation and size limits of the ingress, waiting for replies, the
roster's display state, usage, interrupts' grace period, the leader's own
runtime.

### ProjectIntegration

A commit is the sequence of contributions in it, so `canon` is the checkout's
HEAD and `storeHead` the store's; a cherry-pick appends. `pc[c]` is where the
settlement of `c` is, `lockQ` the authority lock with its queue. `stopped` is
the control's latch and `cancelled` the cancellation epoch - different things,
as in the code: a deadline latches only the first. `fresh` are the settlements
that got a control created after the run had released its own. Verdicts of
verification and gates are nondeterministic. `Recover` is the restart's single
store mutation.

`RecordUnimported` merges two writes under the lock (the decision and the task
node's failure): between them only the node differs, which no property reads.
`Stops` has two of the terminal reasons, one that moves the epoch and one that
does not; the others behave as the deadline does here. `AppliedIsOnRecord`, a part of
`CheckoutMatchesStore`, is about a crash, too: the server stays down, and what the
restart wrote is compared with what the checkout has.
The removal of an integrated workspace after the settlement is not modelled.

### ProjectBaseline

A commit is the sequence of runs in it; `base[r]` is the commit a run captured.
A process is a run, from the message that asks for it to its end, or the
server's startup; both run the same recovery on a snapshot (`seen`). `ref` is
the project's branch: missing, a run's commit, or one its owner put there.
`crossed` is history: a recovery settled the transition of an advance that was
still running. After a crash runs are "interrupted" until startup ends. A run starts
from the baseline or, when its message only says to go on, from the head of a
cancelled run (`Continued`), which the advance may refuse later. Store writes of an
advance do not fail here: `TransitionSettles` is about crashes and outages of Git.
A Git command that times out after it has moved the branch is not modelled.

### ModelBudget

A process is one model call: a worker's, forwarded by the proxy (`Proxied`), or
the leader's own. `at` is where it waits, `attempt` which of its two attempts it
is on. The ledger is the code's, a scope being the root or a worker; the code
checks and reserves without an await, so `Admit` is one action. `held` is the
reservations' map. `terminal`, `elapsed` and `armed` are the latch, the clock
seen against the deadline, and the timer; a run without a deadline is one whose
`Elapse` never happens. `spent` and `overrun` are history.

A race is modelled by its outcome: while nothing is latched the operation's own
end may come (`Answer`, `Report`, `Finish`, `Fail`), afterwards only `CutOff`. The body
of a worker's 429 is read without a race, so `Retry` and `GiveUp` ask for no latch
there. When a stream's reader is cancelled its pending read answers "done", so
the proxy records a cut-off stream like one that ended; the accounting is the
same. The leader's exchange outlives a caller that was cut off or timed out
while the body of a 429 arrived; it is an "orphan" that can still stop the run, or
turn the reason of the stop from the deadline into the rate limit.
The headers of a 429 are left open: any first 429 may be granted its retry.
`Settle` with usage 0 stands for no usage reported.

Left out: issue and revocation of tokens (they decide who may ask, and a retry
after a revocation is admitted like any other), recording and rendering, and
`close()`, which clears the timer of a run that has ended: a call that still
waits then is let go by the cancellation of its runtime only.

### LiveDispatch

A turn is `<<task, n>>`, the n-th execution of `runWorker` for a task; `place`
says where it waits. Results exist twice, `memory` and `durable`, and a
save is a step of its own; settling a parked dependent copies the store's back
(`orchestrator.ts:1864`). A scenario gives the graph, which tasks have a git
contribution, whether the leader waits for them, whether the run heals and who
leads. A dependency that has not been admitted refuses the call (`RefuseUnknown`).
`Kept` is what a walk leaves of the parked list, in its order. The second start of
one task (`SubtaskRunsOnce`) is in the model since it is in the code; everything
else is checked with it.

Left out: prompts, evaluation by research leaders' text, the team (that is
`TeamCoordination`), the settlement's inside (`ProjectIntegration`), healing's
inside (`RepairTournament`): each is one outcome here.

### PlannedRun

The loop of `run()` without a coordination team: a reply of the planner is any
member of `Plans`, valid or not; `ValidPlan` is the validation. The scheduler's
pumps, its budget and the store's failing writes are as in the code. A child's
result is its status; protocol violations are failures. The task graph of a
healing planned run is left out.

### TrajectoryMonitor and WorkerTurn

The monitor is a record and its methods are operators; an event has only what
`observe` looks at. A limit that the policy leaves null is one beyond the bounds.
Paths are sets (their order is dropped), `noteGitFingerprint` changes nothing, the
regression count and the consumer's verdict stay as they are: nothing in
`runSubtask` ever changes them. A worker has a monitor only when its run heals and
belongs to a project (`Watched`, from `healing`: on, bare, off); without one an extension
is granted for the asking. `WorkerTurn` is one turn, watched or not; the clock counts
units, with the worker's deadline at `base` and the root's at the end. The
session's `close` and `quiesce` share one barrier, which fails for good; who waits for
the turn when the session closes or dies gets a value or an error (`RequestsEnd`). The child
may ignore an interrupt, die, or outlive its signals.

### ExecRunner

One turn of the exec backend under one key. `causes` are who wanted it gone,
`process` and `box` what is really there. The engine creates only while its client
lives. `CancelProves` - a cancel that answers that it cancelled has seen the end -
and `RunEnds` hold; `RunEnds` names `Crossed`, below.

### ToolJobs and SharedTools

A job is a detached child with two timers; the server ends by its input, by a
signal, or because nothing keeps its loop alive (timers are `unref`'d, a child is
not). In `SharedTools` a step is one file operation of one server, and a server may
die between any two. A stale lock is looked at and removed in two steps, as in the code,
so the second step may remove the lock of a server that lives: `robbed` is history, the
files where that has happened. The skill hub's log and its proposals are shared files
like the others; what they say of each other no property asks.

### RunLifecycle

`runs` are the rows, `log` the event logs with what is queued and what is on
disk, `exec` what the process does. Each mutation, append and crash may fail
within `MaxOf`: at most `MaxFaults` failed writes and appends, a log that is cut
counting for two, and one crash. A leader that succeeds has waited for its child; one that
fails or is stopped has not (`LeaderVerdicts`), and its dispatches may even go on
(`Abandoned`). Its end closes the logs of its session (`SessionShut`): `covered` are the
logs closed with it, and `hushed`, history, those that dropped a success afterwards. A
child may also be cut off by the end of its run (verdict "cut").
`CompletedIsLogged` and `VerdictIsFinal` together are `VerdictStands`.

### RunEvents, RunTranscript and SessionEvents

`RunEvents` is the event log for its readers: an event can be read when `emit`
returned, from the last ones in memory or from the file. A failing append and the
byte limit are in `RunLifecycle` and left out here. After a restart, numbers of
events that were never on disk are used again (`Overtaken` names that case).
`RunTranscript` is the leader's part of `App.tsx`: one chat's runs, the poller, the
drain and the hydration, of which several can be at work on one run; `SessionEvents`
is `useSessionEvents.ts`, whose loop is started anew by every change of mission. An
effect runs with the change that causes it; a request that is under way when the
server restarts reaches the new one; a page that fails is a page that fails,
whatever its status. The view of one worker and the evolution panel are left out.
Their "whole" properties have the form `[]<>`: views are bounded, so in the end a
view stays, and the property says that it comes to be whole.

### RepairTournament and EvolutionHistory

A `mutateHealing` is one step; `cand` is where each candidate is, `fence` the run's
one fence, `tour` the tournament that has it. `Histories` gives what the history
knows to fail. A task that was started twice (`Doubled`) fails its second start, and then
its node is blocked whatever it is (`Block`), even while it is diagnosed or repaired; a
dispatch that needs it re-plans it (`Replan`), unless a repair has frozen the graph. A
diagnosis of a node that was re-planned or cancelled is not attached. What a repair
integrates while its node is blocked is recorded as rolled back; that is the code's
doing, and nothing else is claimed of it. Store writes of a declared tournament do
not fail here: a failing one leaves the fence standing (`repair-tournament.ts:359-439`, 465,
487, 528). `EvolutionHistory` has one candidate of each run, all alike, so that
each is a repeat of the other; a scan of the chain is one step, appending is by
compare-and-append, and a flush dies with the server anywhere.

### RunPreparation, AttemptWorkspaces and ProjectCatalog

Directories, branches and checkouts are reduced to who made them, workspaces to
absent, half made, clean, dirty or committed. A look at a workspace and its removal
are two steps, at boot (`BootLooks`, `BootRemoves`, `BootRecords`) and in a compensation
(`LookUnpersisted`, `RemoveUnpersisted`); `looked` is what the look has found, and workers
that have survived the server, or another executor's, may write in between. `ProjectCatalog` reduces an identity
(device and inode) to whose repository it is, never used again; a name is tried for
two directories instead of 64; a checkout that is opened is disjoint from the
launchpad's own; the chats of a deletion go in any order; a start that fails is a
crash. `stale` and `killed` are history, for the exceptions below, and so is `robbed`
in `AttemptWorkspaces`: the owner tokens whose workspace was removed under another
executor.

### JsonStore

`task[c]` is where a mutation is and its copy, `disk` what lies at the old and the
new place of each part of the data directory, `temp` the file beside the database.
A mutation is the entry it leaves in `log`, a record its name and its form. Lists
that are none count as empty, as in the code. A loss of power is left out - the code
syncs nothing - so a rename that returned is there after a restart.

### VerificationGate and VerificationSandbox

The gate: a patch is the kinds of paths it touches, the authority's files hash as
when they were loaded or not (files that change and change back between two looks
are seen by nobody). The sandbox: a record is its state and whether it names the
container; the volume's fingerprint never changes and is left out; the wrapper in
the container ends passed, failed or refused. The engine is external and may
carry out a request whose client is gone; two servers take turns by a lease.

## What is checked

All runs finish within about two and a half minutes with two workers.

| Run | Properties | Shows |
|---|---|---|
| `TeamDelivery` | `ReceiptsAreTrue`, `ReceiptsAreFinal`, `Implements` | two messages of any kind without faults, or two wakeups and any one fault: receipts tell the truth and are final, nothing unrecorded is delivered |
| `TeamCalls` | `CallsAreAnswered` | liveness, with a failing append, start or child |
| `Integration` | `CheckoutMatchesStore`, `CancelledRunInStep`, `CancelReturns`, `Implements` | three contributions, live and healing, deadline, cancellation, one fault, one crash |
| `Baseline` | `BaselineMatchesRef`, `CompletedIsPublished`, `AdvancesByOneRun`, `TransitionSettles` | three runs of an opened repository, which may go on with a cancelled one; one crash, one outage or foreign write |
| `Budget` | `LedgerAddsUp`, `FuseHolds`, `NothingAdmittedAfterStop`, `StoppedCallsEnd` | two calls of a worker and one of the leader, with rate limits and retries, overruns, broken streams, deadline, cancellation and both fuses |
| `Dispatch` | `ProducersFirst`, `FailureReachesDependents`, `BudgetHolds`, `SuccessIsEarned`, `EveryRunEnds` | three tasks of a live run in six scenarios, one with a request for an unknown one; a planned run with seven replies, three policies and a failing write |
| `Tools` | `JobsEndOnce`, `UpdatesAreKept`, `DowngradedForCause`, `LeaseIsEarned`, `GoneWhenSaid`, `TurnsEnd` | jobs, shared files, the detector over whole histories of six messages, a turn with a monitor or without, a turn of the exec backend |
| `Runs` | `VerdictStands`, `RunsSettle`, `TranscriptIsSound`, `TranscriptIsWhole` | an agent alone or a leader with a child that it may leave at work, two failures and a crash; the console over two runs, or two missions |
| `Workspaces` | `ActiveIsOwned`, `WorkIsKept`, `AllOrNothing`, `NothingLeftBehind`, `PassedIsEarned` | a workspace with its executors; preparations; a verification's gates; its container; the catalog of projects; the store |
| `Healing` | `TournamentsAreFair`, `RepairsEnd`, `HistoryIsSound`, `HistoryIsWhole` | two failed nodes, one blocked and re-planned at any time, and their tournaments; two runs that record into one history |

Two runs find a statement of the repository violated:

| Run | Violates | How |
|---|---|---|
| `DispatchTwice` | `SubtaskRunsOnce` | two results that free one parked task both walk over a copy of the parked list (`orchestrator.ts:1790`): a second turn of it begins (in a Git project it then meets the workspace of the first) |
| `LateStart` | `QuiescedIsStill` | a session is quiesced while its start still prepares: there is nothing to close yet, and the child is spawned afterwards |

Each property of a passing run is shown to be able to fail: `PROJECT.json` names a
mutant of the code for it, defined beside the definition it replaces, and two where
the halves of a property fail apart (`CheckoutMatchesStore`, `TournamentsAreFair`).

### Exceptions that properties name

`StoppedCallsEnd` the body of a worker's 429; `BaselineMatchesRef` the `crossed`
case, where the branch can end ahead of the record; `CancelledRunInStep` holds with
healing only: with `Healing = FALSE` in `Integration.cfg` the compensation of a
recorded decision restores the checkout first (`orchestrator.ts:3703`) and then
needs a task node that only healing runs have; `ReceiptsAreTrue` is about
behaviours without faults: a refused turn/start is taken for a turn, and its notes
are lost, and its sender waits until the worker is closed (with "refuse" among the faults of
`TeamCalls.cfg`, `CallsAreAnswered` fails, too); `UpdatesAreKept` a file whose lock was `robbed`; `TurnsEnd` the `Crossed`
removal and the job that is admitted after the deadline marked its run as terminal; `LeaseIsEarned`
is about watched workers; `CompletedIsLogged`, within `VerdictStands`, a log that was cut and a
child that was `hushed`; `WorkIsKept` a removal that had `looked` before the work was
done; `TransitionSettles` and `RepairsEnd` hold without failing store writes; `AllOrNothing` a repository removed
by a `stale` look, and `ActiveIsOwned` the `robbed` one; `TranscriptIsSound` a trace that was
`dropped`, and `TranscriptIsWhole` that, numbers used again (`Overtaken`) and requests that failed for good.

### Properties the code does not keep

These are defined in the modules, with the comment or document they come from, and
TLC refutes them; no run is spent on them. To see one, add it to the configuration
named.

| Property | Add to | What happens |
|---|---|---|
| `FollowUpsWithinBudget` | `TeamDelivery.cfg`, with `unit = "faults" =>` before it | two wakeups read the budget before either is counted (`team-runtime.ts:104`) |
| `FramedOnce` | `TeamDelivery.cfg` | `attach()` replays a message whose delivery still waits for its receipt |
| `StoppedRunInStep` | `Integration.cfg` | a live run ends at its deadline without waiting for a settlement (`orchestrator.ts:4806`) |
| `FailedLeavesBaseline` | `Baseline.cfg` | the recovery of an admission finishes another run's advance |
| `InputsArrive` | `Dispatch.cfg` | the plan is cut to what is left of the budget, producers included; their dependents run without their outputs |
| `WorkersEndWithRun` | `Dispatch.cfg` | a worker's row that cannot be written fails the run while the other pumps work on (`scheduler.ts:106`) |
| `UpdatesAreSerial` | `Tools.cfg` | a server dies in a lock; two others find it stale, the first removes it and makes its own, the second removes that one, and both write (`launchpad-mcp-server-source.ts:3001-3005`: "Serialise read-modify-write on the shared task file", and "the loser retries rather than clobbering") |
| `TimedOutIsGone` (`X!`) | `Tools.cfg` | a cancel before the container exists finds nothing, and later ones share its result; a cancel before the turn is registered is missed |
| `NothingIsDropped` (`T!`) | `Runs.cfg` | the answer of `sendMessage` deletes the trace of its run even if a hydration has begun to read it: a gap for good |
| `ActiveIsVisible` (`T!`) | `Runs.cfg` | a poller that was started by a message and fails clears the active run, whatever is in view by then |
| `StatusIsTold` (`T!`) | `Runs.cfg` | a late hydration shows an ended run as live while its poller holds the lock; one failing `api.run` ends the polling of a live run |
| `WorkersAreDrained` (`E!`) | `Runs.cfg` | when the run ends the effect starts again from cursor 0 and reads one page of each worker: its first 500 events (`App.tsx:442-448` promises a drained tree) |
| `OnlyItsOwn` (`C!`) | `Workspaces.cfg` | of two deletions of one project one looks, the other removes, a new project takes the name, and the first removes it |
| `OnlyItsOwnIsRemoved` (`A!`) | `Workspaces.cfg` | an executor that could not record its workspace finds no record, waits for the lock, and removes the clean workspace that a second executor of the attempt has taken over and recorded (`project-attempt-executor.ts:179`) |
| `OnlyCleanIsRemoved` (`A!`) | `Workspaces.cfg` | a worker that survived the server writes between the boot's look and its removal, or a second executor's between those of a compensation (`git-client.ts`, `worktreeRemoveClean`: "Removes only when Git itself still sees the worktree as clean") |
| `NothingIsHushed` | `Runs.cfg` | a leader that fails or is stopped closes the logs of its session while a child is between its work and its last event: the event is dropped and the child recorded as completed (`event-log.ts:222-227`: "a Run that is already marked terminal cannot be missing its last few events") |
| `EveryLeaseIsEarned` (`W!`) | `Tools.cfg` | a worker without a monitor is given time without any checkpoint (`orchestrator.ts:5416`; the hint at 5365: "Timeout leases require a fresh server-owned progressing checkpoint") |
| `ChatsResolve` (`C!`) | `Workspaces.cfg` | a chat made between the look at a project's chats and its deletion names no project (`agent-service.ts:559-563`) |
| `BusyRefuses` (`C!`) | `Workspaces.cfg` | a run that starts after the look is killed (`agent-service.ts:565-566`: "A busy chat refuses the whole delete") |

(For the ones with a prefix define `Name == X!Name` in the MC module first.
`InputsArrive`, `StatusIsTold` and `WorkersAreDrained` are added under `PROPERTIES`, the
others under `INVARIANTS`.)

Other behaviour met while modelling, true of the code: `talk` starts a turn when
the one it wanted to join ends first (`app-server-runtime.ts:228-240`); a runtime
marked closed turns active again when a late notification arrives (413-420), or when
a steer that was under way comes back (325, after the state was read at 274); an
integration record stays "integrating" when a guard throws, and is closed by the
next restart only; `settleUndeliveredQuiet` finds no worker attached
(`orchestrator.ts:765`, 4181), so a quiet note without a turn keeps its receipt,
against `docs/design/coordination.md:75`; the reconciler moves its checkpoint past
records that another run appended meanwhile (`evolution-reconciler.ts:271`); a
contradictory history can still prune (`src/README.md:303-307`, against
`orchestration-exact-repeat-index.test.ts:223`); a solo fallback completes although
the run was cancelled meanwhile; a lease that cannot be released keeps its port
(`verification-container.ts:1454`); a turn whose evidence store is slow can be
charged two faults; event and timer checkpoints that alternate never count as
unchanged, and a checkpoint of scope drift labelled unchanged is relabelled as
progress by the tail of `observe`, and can earn a lease; `SessionRuntime.cancel`
passes its reason to the runner as the key; a close whose barrier failed is never
tried again.

### Bounds

- Messages: two, and one for `TeamCalls`, whose question is about each call. The races are between two deliveries, or a delivery and an
  attach, a close or a fault; a third message adds no new pair. The detector is
  the exception - it counts - and is checked over histories of six.
- Contributions: three, so that one is decided, one under way and one waiting.
- Runs of a project: three, since with two either side of a lost race has
  nobody left to suffer from what it left behind.
- Model calls: two that share a worker's scope and one of the leader's, with fuses
  that two of the three can reach together, and two usages, below and above what
  is reserved.
- Tasks: three, in a chain, a join, and a request for one not dispatched yet;
  four for the double start, which needs two producers and two parked tasks.
- A worker's turn: seven settings, each with the events its question needs (repeats,
  progress with extensions, changes back and forth, drift, faults, and two without a
  monitor).
- Jobs: three, with room for two at work and one finished, so that one is refused
  and one forgotten. Servers: three, of which one may die, so that two meet at the lock
  it leaves.
- Runs and missions of the console: two, one to leave and one to go to; one event
  to an answer and one in memory, so that two make a backlog.
- Failed nodes: two, for one fence, one of them started twice. Runs of a history: two, each a repeat of the
  other, and one pending entry, so that the outbox is full.
- Preparations: three, two of them of one id. Executors of an attempt: two.
- Projects: two that want one name and two deletions, or two openings of one
  checkout beside two chats of old. Mutations: three, one of which may throw.
- Gates: one of every tier and a second targeted one. Verifications: one under two
  servers, or two in one.
- Faults and crashes: one or two per behaviour, at any point, in combination.
- `MaxFollowUps`, `MinVolleys`, `RepeatThreshold`, `MaxRecoveries`, `Limit`,
  `Every`, `SettledRetries` are below the defaults so that the limits are reached;
  nothing depends on their size.

`CHECK_DEADLOCK FALSE` everywhere: the messages are sent, the runs end, and the
system rests.

### Fairness

Weak fairness of the steps the machine owes: a write to disk ends, a Git command
ends (the client kills it after a timeout), an accepted turn starts and ends
(the code bounds it by a timeout), a promise's continuation runs, the holder of
the lock goes on, a timer fires, a server that died is started again. Never of what
is a choice: sending, attaching, closing, cancelling, stopping, faults, crashes, nor
of a worker's detach, except for the worker whose attach threw, which the
orchestrator's `finally` detaches. A live leader's turn ends by itself or by the
root deadline; a planned run's worker by its timeout. In `ModelBudget` the timer
fires, a cut-off reaches every raced call and a retry's delay ends; no fairness of
answers, streams, requests or broken connections. In the console a request is
answered or fails and a timer of the poller fires; nobody has to look. In
`ExecRunner` and `WorkerTurn` the engine answers, a signal is delivered, a killed
process is gone. `ProjectCatalog`, `JsonStore`, `RunPreparation`, the sandbox, the gate
and the history are checked for safety only.

## What is proved

`tlapm` checks the proof modules, for every value of the constants that
satisfies the named assumptions - any number of messages, contributions or runs,
of faults and of crashes.

**TeamCoordinationProofs** (from `TeamAssumption`)

| Theorem | Statement |
|---|---|
| `TypeCorrect` | `Spec => []TypeOK` |
| `PersistFirst` | `Spec => []DurableBeforeDelivered` |
| `TeamKeepsPromise` | `Spec => Implements` |
| `ReceiptsStand` | `Spec => ReceiptsAreFinal` |
| `ReceiptsTellTheTruth` | `Spec => []ReceiptsAreTrue` |

`TypeInv` adds to the types that a queued entry belongs to the `queue()` call of
a message that was sent. `RecordedInv` follows a message through every place
between the journal and a worker: what an attach or settle loop has still to
handle, what a process has framed, what a runtime holds, the wake that will
report it and the receipt in the queue; `DurableBeforeDelivered` alone says
nothing of the first two, so a step of a loop or of a turn could break it. Every
step of a session leaves the record alone (`KeepsRecord`), so it is enough to look
closely at the steps that write a line (`DeliverStep`, `AttachLoop`, `SettleLoop`,
`LoopGoesOn`). The refinement also needs `OnceInv`: a queued entry is the only
one of its message, and that message is not yet in the journal, so the line
written for it is `Accept` and never a second one.

A receipt can only be rewritten because `attach()` replays a message that `queue()`
is delivering as well. `FinalInv` says why both come to the same: only `queue()`
and `attach()` have entries in the append queue (`Callers`); a session starts only
when its `attach()` has returned, and until then its thread and its follow-up count are
untouched (`Rests`, `Sessions`), so that whatever was said of a message before is what
any later delivery to that session would say (`First`); and a wake under way, which
may answer either way, is of a message of which nothing was said (`Agreed`). The proof
also shows that the final settlement, whose list of attached workers is empty, writes no
receipt. `TruthInv` follows what a receipt calls delivered: it is framed (`seen`) or
held (`quiet`) by the session, and while there was no fault and nobody closes the
worker its child lives, and what was framed is carried by a process on its way to it
or was handed over. `CarriesOn` is that statement for one step; `CallCarriesOn`
and `InputCarriesOn` are the steps that frame, hand on and hand over.

**ProjectIntegrationProofs** (from `IntegrationAssumption`)

| Theorem | Statement |
|---|---|
| `TypeCorrect` | `Spec => []TypeOK` |
| `HeadMatchesRecords` | `Spec => []HeadIsIntegrated` |
| `CancellationIsFinal` | `Spec => FenceHolds` |
| `CheckoutFollowsStore` | `Healing` assumed: `Spec => []CheckoutMatchesStore` |
| `CancelledRunsAreUndone` | `Healing` assumed: `Spec => []CancelledRunInStep` |
| `AppliedStaysOnRecord` | `Spec => []AppliedIsOnRecord` |
| `SettlementIsAtomic` | `Spec => Implements` |

None of these is inductive. The chain is: `Locking` says that the settlements
past "waiting" and a waiting cancel are exactly the members of the lock's queue,
each once, and that only its head is anywhere inside; so at most one settlement
touches anything. `RecordOf` says, for each place, what the settlement there has
written: the record it opened, the head it started from (`before[c] = storeHead`
until the decision, `storeHead = Append(before[c], c)` after it) and that
nobody's record says "integrated" without being in the head. `AppliedBy` says
what the checkout is at each place - `before[c]`, `Append(before[c], c)`, or a
conflict - and `Checkout` what it is when nobody is inside. `Fenced` says that
once the fence has run no attempt is ready, so every settlement still queued
refuses before it applies. `CheckoutFollowsStore` needs `Healing`:
without it the compensation described above throws and leaves the lock with the
two apart. `CancelledRunsAreUndone` is its consequence for a cancelled run: when the
cancellation has returned and every settlement has ended, nobody is inside, and
`Checkout` says that the checkout is the recorded head, clean. `AppliedStaysOnRecord` is
about the moments in which the two differ, and a crash may come: `OffCheckout` names the places at
which a settlement's contribution is not in the checkout, and a record is closed only there
(`RecordCloses`); a restart closes one only when the checkout is the head
before it. It needs no healing.

**ProjectBaselineProofs** (from `BaselineAssumption`)

| Theorem | Statement |
|---|---|
| `TypeCorrect` | `Spec => []TypeOK` |
| `BaselineIsLinear` | `Spec => AdvancesByOneRun` |
| `CompletedRunsArePublished` | `Spec => []CompletedIsPublished` |
| `OwnersRefIsNeverOverwritten` | `Spec => OwnersRefIsKept` |
| `BranchAgreesWithRecord` | `Spec => []BaselineMatchesRef` |

`Lineage` says that a recorded transition is for a run whose base is the
baseline, that whatever a recovery remembers in `seen` has been admitted, and
that an admitted run's base never changes again (one that went on with a cancelled run has
another base than the baseline, unless they are the same, and prepares no transition): so a recovery that finalises
from an old snapshot still writes the commit the record asks for.
`Publishedness` carries "published means in the baseline" through later advances
(the baseline is only extended). `Matching` relates branch and record: what the
branch may be given the transition (`RefByRecord`), given the place of the
advance (`RefByAdvance`) and given the place of a recovery (`RefByRecovery`).

**ModelBudgetProofs** (from `BudgetAssumption`)

| Theorem | Statement |
|---|---|
| `TypeCorrect` | `Spec => []TypeOK` |
| `StopIsFinal` | `Spec => NothingAdmittedAfterStop` |
| `CallsStayBelowFuse` | `Spec => []CallFuseHolds`, the first half of `FuseHolds` |
| `NoCrossingIsMissed` | `Spec => []CrossingsAreNoticed` |
| `LedgerIsTheSumOfItsCalls` | `Spec => []LedgerAddsUp` |
| `FusesHold` | `Spec => []FuseHolds` |

`TypeOK` says more than types here: exactly the calls in flight hold reserved
tokens, which is what makes a reservation end once. `NotifyNotices` is the heart of
the last theorem: after any change to the counters of the scopes a call is charged
to, `collectNotices` restores notices and warning, if no other scope crosses more;
a release crosses nothing, because the floor at zero only lowers.

`LedgerAddsUp` speaks of sums over the calls charged to a scope. The sum is the fold of
the community modules, over a set that `BudgetAssumption` says is finite (a run makes
finitely many calls). What is needed of it is that it is zero when all are, that taking
one call out takes its share out, and so that changing one call's share changes the sum by the difference
(`SumOfZeros`, `SumTakenOut`, `SumChanged`); the first two rest on a least counterexample in the
natural numbers, which stands for the induction. With it `FusesHold` is a small step: what
is settled beyond what was reserved is what `overrun` counts.

**WorkspacesProofs** (from the assumptions of `Workspaces`, one for each component, which
the run evaluates; `A`, `P`, `C`, `G`, `S` and `J` are its instances of `AttemptWorkspaces`,
`RunPreparation`, `ProjectCatalog`, `VerificationGate`, `VerificationSandbox` and
`JsonStore`)

| Theorem | Statement |
|---|---|
| `ActiveStaysOwned` | `Spec => []ActiveIsOwned` |
| `WorkStaysKept` | `Spec => WorkIsKept` |
| `AllStaysOrNothing` | `Spec => []AllOrNothing` |
| `PassesStayEarned` | `Spec => []PassedIsEarned` |
| `NothingStaysBehind` | `Spec => []NothingLeftBehind` |
| `RecordsAreOwned`, `WorkersWorkIsKept` | `A!Spec => []A!ActiveIsOwned`, `A!Spec => A!WorkIsKept` |
| `PreparationsAreAllOrNothing` | `P!Spec => []P!AllOrNothing` |
| `CatalogStaysSound` | `C!Spec => []C!CatalogIsSound` |
| `PassesAreEarned` | `G!Spec => []G!PassedIsEarned` |
| `NothingIsLeftBehind` | `S!Spec => []S!NothingLeftBehind` |
| `StoreTypeCorrect`, `FileIsNeverCutBack` | `J!Spec => []J!TypeOK`, `J!Spec => J!FileOnlyGrows` |
| `AnsweredStays` | `J!Spec => []J!AnsweredIsKept` |
| `StoreStaysSerial` | `J!Spec => []J!StoreIsSerial` |
| `StartsKeepAll` | `J!Spec => []J!StartKeepsAll` |

The first five are properties of the run. They follow from the others, which are about one
component each, because a behaviour of all components is one of each of them
(`WorkspacesImplementComponents`). What follows is the argument for each component.

*The workspace of an attempt.* `LockInv` says that
who is past the entry of `create()` is first in the attempt's lock, so nobody else is
there. `InsideInv` says, place by place, what the one inside has made: no workspace,
half of one, the creating marker, the ready one. What is handed out (`Owned`) is a
workspace with a ready marker, on disk as it is read. `GivenInv` keeps that until it is
recorded, `RowInv` as long as the record says it is in use: late creates find it and
leave it, settlements remove only what is integrated, a power loss gives back the marker
that was synced, and a restart removes the workspace only of a run whose record it then
closes. `WorkersWorkIsKept` needs `InsideInv` too: who adds a checkout finds none, so
nothing that was edited is written over. Its exception is a removal under way that has
found the workspace clean (`looked`): a removal that never looked, or found work, is
still excluded.

Proving this found a case the run had not reached. `GivenInv` is not inductive without
`robbed`: a compensation looks at the record before it waits for the lock, and another
executor may have been given the workspace meanwhile. `Workspaces` lets a write fail
beside two executors, and `OnlyItsOwnIsRemoved` states what does not hold.

*The preparation of a run.* It is the `mkdir` of the run's directory, not the claim, that
decides between two preparations of one id. `PlaceInv` follows what a caller has made, place
by place, and that it has not made what its reservation does not speak of; `SavedInv`
and `EndInv` say what is left when the run is recorded or the call is over; `TreeInv`
that a checkout has its branch.

*The catalog of projects.* Deletions, failing creations and new projects meet at a
directory's name. `HeldInv` says that whoever holds a directory - by its record, or by a
creation that has published it and is at work - has its own repository in it, unless
it is `stale`. `CallInv` says that a repository is removed only when no record points at
it and none will: its creation is past the steps that could still record it.
`OneProjectEach` rests on the look at the projects and the new record being one
mutation of the store, in an opening and in a start that moves chats.

*The verification of what is to be integrated.* `PassesAreEarned` has to
turn the absence of a failure into the presence of results. `GatesInv` does: every
enabled gate of the batch is still to run or has its result recorded, and while nothing
has failed a critical gate with a result has exited with 0. `TierInBatch` and
`ListedInBatch` say that the batch has a binding gate of each tier and what the contract
lists of those tiers, from how a profile is validated when it is loaded and a contract
when it is given.

*The container of a gate.* `LeaseInv` says that the port and the turn of a process admit one
user at a time, so nobody reconciles a record while its own job is at work on it, and
a sweep finds only records of jobs that are over. `EngineInv` says in which form a record
stands for what the engine has: what is requested and not there yet belongs to a record
that is pending and names nothing, which `Look` leaves alone. `JobWorkInv` follows the record
through the places of the job's own work, `VerdictInv` what a verdict rests on. `Aimed`
says what a reconciliation has already removed when it has come how far: it goes
past the look only when nothing can still come, and `Complete` takes the record when
all else is gone.

*The store.* `QueueInv` says that mutations wait without repetition and that only the head of
the queue is past "queued", so at most one copy of the database exists outside the
file. `FileInv` says, for each place of that one, how copy, temporary file, memory
and file stand to each other: the copy is what is shown plus one entry, the
temporary file is the copy when the rename begins, and what is shown is behind the
file exactly between the rename and the end.

`OrderInv` adds the order of the calls. The queue is the end of `order`, and the log of
what is shown lies, in order, in the part of `order` before it (`Follows`, with an
increasing embedding as witness); so the head of the queue, the only mutation that can
be added, comes after all that is in the log, and `FollowsOne` extends the embedding by
one. `Kept` says that what is in the file is past its rename or was lost to a crash.
`SiteAssumption` says that the databases a server finds hold none of the mutations that
are still to be called.

`StartInv` says what a start may find after any number of crashes: each part of the
data directory lies as it was found first or at its new place, and the database is the
one found first or one that this version wrote with the same records (`Faithful`). What
this version writes it can load (`SoundDatabases`), so only a database that was never
written is refused, and it is still as it was found.

**DispatchProofs** (from `DispatchAssumption` and `PlansAssumption`)

| Theorem | Statement |
|---|---|
| `TypeCorrect` | `AnySpec => [](TypeOK /\ P!PlannedTypeOK)` |
| `FailuresReachDependents` | `AnySpec => []FailureReachesDependents` |
| `ProducersAlwaysFirst` | `AnySpec => ProducersFirst` |
| `WorkersArePaid` | `AnySpec => []BudgetHolds` |
| `SuccessesAreEarned` | `AnySpec => []SuccessIsEarned` |

A step of `Dispatch` is one of the live run, in which the plan stands still, or the
other way round (`StepOfOne`), so the invariant is the conjunction of theirs (`AnyInv`).

*The live run.* That a dependent of a failed task is blocked in the end is the work of walks
over copies of the parked list, several at a time, that resume, block and start.
`FailuresFollowed` says, of every parked dependent of a stored failure, that the turn
that failed has still to save or to look (`SavesComing`), or that a walk has it
still to visit and is `Sure`: it has nothing on its way but tasks behind a stored failure
that never start their work, so nothing can divert it. That such tasks do not start although
another walk may start them is the reason for `Doomed` and `Idle`. `CompletedOnce` and
`BeginsReady` carry `LiveStartWaits`, the half of `ProducersFirst` about live runs: a completed node stays completed,
and a turn that begins has complete producers, whoever began it.

*The planned run.* A budget of several iterations holds only if no worker of an iteration is forgotten when
the next one is paid. `Paid` says that the workers begun are no more than the reports that
cost something and the subtasks at work; so at the merge every subtask must have a
result. That is `Levels`: in a plan without cycles (`Layered`, which validation checks and cutting
a plan keeps) the levels behind are settled, the levels ahead are untouched, and of the level at
hand everything without a result runs or waits for a pump (`Taken`: once each, with
its producers completed), and `PlannedStartWaits` follows from that. `Quiet` says that no pump
goes off while there is something to take. `WellJudged` keeps the judgement: no report
comes after it.

**AttemptsProofs** (from `TournamentsAssumption`, `HistoriesAssumption`,
`SharedAssumption`, `TurnsAssumption` and `DetectorsAssumption`; `T`, `E`, `J`, `S`, `W`, `X`
and `D` are the instances of the seven components in the order of the table)

| Theorem | Statement |
|---|---|
| `TournamentsAreAlwaysFair` | `Spec => []TournamentsAreFair` |
| `HistoryIsAlwaysSound` | `Spec => []HistoryIsSound` |
| `HistoryIsAlwaysWhole` | `Spec => HistoryIsWhole` |
| `JobsAlwaysEndOnce` | `Spec => JobsEndOnce` |
| `UpdatesAreAlwaysKept` | `Spec => []UpdatesAreKept` |
| `LeaseIsAlwaysEarned` | `Spec => []LeaseIsEarned` |
| `GoneAlwaysWhenSaid` | `Spec => GoneWhenSaid` |
| `DowngradesHaveCause` | `Spec => []DowngradedForCause` |

Each component keeps its invariant while another works (`AInv`); the arguments are one
component's each.

*The tournaments.* `FenceHeld` relates the run's one fence, the phase of a node and the state of
its tournament, as long as the server is up, also when the run ends between two steps. `Raced` says that
no candidate is at work before its tournament declares it or once that ranks, so what was
ranked stays as it was ranked; `NodeStands` that a node is not re-planned while its tournament
races or promotes, and that a promoted one is completed, which nothing blocks or
re-plans; `Verified` what a candidate's state says of its two
verifications. With both `WinnerEarned` holds where the winner is chosen, and nothing takes
it away before the promotion is finished.

*The history.* An outbox has copies that are saved late, so `BoxSound` is said of the one
on disk and of the one in memory: what they call delivered is in the chain. The chain only
grows and no record is in it twice (`ChainSound`), so what is said of it once stays true.
`FlushSound` says for each place of a flush which records of its entry are in the chain
and which it has still to append: after a failed append it looks again. `RefreshSound`
says what the reconciler knows while it works: its checkpoint has records of the chain
only, and when an audit is complete the runs it trusts are sound by what it has read, so
an index that is published prunes for cause. `QuerySound` bounds what a query has read by the
head it began with; the records that were due are below that head or in the overlay.

*The jobs.* The verdict of an exit, `completed` or `failed`, is given when the child is
seen to exit; `JInv` says that the child of a job with such a verdict is dead, so there is no
second exit, and an exit leaves the verdicts of a timeout and of a cancel alone.
`FirstVerdicts` is the property for one step.

*The shared files.* `Held` says that a server behind the lock of a file made the lock that
stands, so there is one of them, `Current` that what it read is what the file holds, and
`FilesWhole` that the file has the entries of what was answered and counts them. Each
excludes the files of `robbed`, and must: `Held` fails in the step that removes a lock of a
living server, and `UpdatesAreSerial` above is where that ends. Calls that go behind no
lock share one argument (`Aside`).

*A watched turn.* A lease is an index of a snapshot that differs from the one
before it (`Watching`), and each extension of a watched worker spends one of its own
(`LeaseSound`); what the monitor
calls progress is about its last snapshot, whatever came between. `ChildSound` says for each
place of the turn, of the session and of the barrier what the child may be: a barrier that is
proved has an ended session behind it, and nothing is quiesced before.

*The exec backend.* `ClientSound` says who may still signal the client of a container, and
that a removal that is done has left no container that can come up; `CancelSound` that a
cancel that answers true has seen both gone.

*The detector.* The property speaks of the whole history, the detector remembers four
things of it. `DInv` says which: `repeats` is how many wakeups of a key there were (`Sent`),
`lastFrom` and `lastTo` are the ends of the last wakeup that counted, and `volleys` is the
length of the longest stretch up to that one whose counted wakeups alternate (`VolleysSound`:
there is such a stretch and none is longer). `VolleysGoOn` extends the stretch by one when the
next wakeup reverses the last, and begins anew otherwise. The definition says "longest stretch" and
"how many" with sets and `Cardinality`; a fold over the history would have asked for an induction.

**RunLifecycleProofs** (from `LifecycleAssumption`, `TranscriptsAssumption` and
`MissionsAssumption`)

| Theorem | Statement |
|---|---|
| `TypeCorrect` | `AnySpec => []RunsTypeOK` |
| `VerdictsStand` | `AnySpec => []VerdictStands` |
| `TranscriptsAreSound` | `AnySpec => []TranscriptIsSound` |

What was shown as completed may rest on no more than an intent in the store and
an event in a log. `Known` says what it rests on at any time: the row, or a running row with
a stated intent and a success that is the last word on disk, in a log that nobody
can write to any more while the server is up. This needs `Intent` (an intent is stated by
an execution that did its work, so that no failure of it comes after), `Writing` (a
log is open as long as its execution may emit, unless its leader has closed it: then it
is `covered`, and a success that is said in it is dropped and marked `hushed`) and `Family` (who has children is a leader that was admitted). `Starting` says that a server that is not up executes nothing and
settles the intents before it cancels what is left, so recovery never overrides a success.
`Logged` is the other half, `CompletedIsLogged`, at every stage of a publication.

A transcript has no gap because whoever reads a run asks from where its trace ends, or
from before that (`ReadersBehind`): a trace only grows, whoever reads it, and a page, from
memory or from the file, has the numbers right after the cursor it was asked for
(`PageIsNext`, `MergeGoesOn`). A trace that is deleted under a reader leaves one that is
ahead of it, which is the exception `dropped`; proving it shows that there is no other.
`ViewSound` says that what is in view is in the chat and is what is shown. In the workers' hook
it is the effect at work that has this (`LoopSound`); one that was replaced writes nothing.

`TypeOK`, `HeadIsIntegrated`, `DurableBeforeDelivered`, `FenceHolds`,
`OwnersRefIsKept`, `CallFuseHolds` and `CrossingsAreNoticed` of these modules are
stated by theorems and by no run (those of `JsonStore` are parts of what
the run `Workspaces` checks): what is proved for every value of the constants needs no instance,
and the runs' time goes to what is not proved.

Every safety property that a run checks is a theorem. Only model-checked is liveness
(`CallsAreAnswered`, `CancelReturns`, `TransitionSettles`, `StoppedCallsEnd`, `EveryRunEnds`,
`TurnsEnd`, `RunsSettle`, `RepairsEnd`, `TranscriptIsWhole`): temporal properties under fairness
are out of the prover's reach. So is what only `ENABLED` could say, that a state
with work left is no deadlock, and induction over data: where a sum, a fold or a history is
spoken of, the invariant carries a witness or a least counterexample instead.

## Not modelled

HTTP routing, configuration, record types and prices (`app.ts`, `config.ts`,
`types.ts`, `pricing.ts`); the files of workspaces and the text of published
artifacts; skills and tool schemas as far as they are selection and text; the
prompts, parsers and formatters of leader, diagnoser and evaluator; trajectory
copies and redaction; deployment scripts, the self-healing demo and the console's
rendering. They are plumbing or pure functions on text, and the repository's tests
reach them. Of modelled components, `PROJECT.json` says what is left out.

## Plan

1. Done: all components of the inventory but the last; the proofs above.
2. Proofs to add: with what the model gains.
3. Model to add: messages to a running agent and agents' settings in
   `RunLifecycle`; the task graph of healing planned runs; the readers of published
   artifacts beside `SharedTools`; the console's evolution panel.

Runs are kept few: a module that is added later takes the place of a run whose
question a larger one can answer.
