------------------------- MODULE AttemptWorkspaces -------------------------
(* The workspace of one revision of one attempt: its standalone checkout, the *)
(* marker file beside it and its record in the store, from creation over the  *)
(* worker's turn and the collection of its commit to the settlement, and what *)
(* cancellation, failing writes, crashes and a restart make of the three.     *)
(*   attempt-workspace-manager.ts, project-attempt-executor.ts,               *)
(*   contribution-collector.ts, Orchestrator.runSubtask and persistAttempt*   *)
(*                                                                            *)
(* Executors share the attempt: live dispatch can start a subtask twice       *)
(* (LiveDispatch).  Contents are reduced to what the code looks at: absent,   *)
(* half made, clean at its base, dirty, or committed.  The canonical checkout *)
(* belongs to the settlements of other attempts, which take no attempt lock.  *)
EXTENDS Integers, Sequences

CONSTANTS
  Execs,      \* executors that may run this revision of the attempt
  NoOwner,    \* no marker, no record
  Setups,     \* records [execs, faults, writes, crashes, siblings] a run may start with
  MaxCrashes  \* the largest value of crashes in Setups

VARIABLES
  left,       \* failing calls, failing store writes, crashes and sibling settlements still allowed, executors that may start
  marker,     \* the marker file as a reader sees it
  durable,    \* the marker file as a power loss leaves it
  work,       \* the workspace directory
  alive,      \* executors whose worker process may still write
  row,        \* the attempt's record in the store
  head,       \* the project's recorded head
  tree,       \* the head of the canonical checkout
  run,        \* the run: running, fenced by a cancellation, or ended
  up,         \* the server
  lock,       \* the attempt lock: who holds it and who waits, in order
  contended,  \* executors that found the lock taken
  pc,         \* where an executor stands
  snap,       \* the project it has read: its head, and whether it lists the attempt
  owner,      \* the owner token of the attempt it was given
  robbed,     \* owner tokens whose workspace was removed under another executor
  looked      \* what the removal under way has found in the workspace

vars == <<left, marker, durable, work, alive, row, head, tree, run, up, lock, contended, pc, snap, owner,
          robbed, looked>>

files == <<marker, durable, work>>
canon == <<head, tree>>
locks == <<lock, contended>>
mine  == <<pc, snap, owner>>

\* What a run may start with.
SetupAssumption ==
  Setups \subseteq [faults : Nat, writes : Nat, crashes : Nat, siblings : Nat, execs : SUBSET Execs]

NoMarker == [state |-> "none", by |-> NoOwner, base |-> 0]
NoRow == [by |-> NoOwner, state |-> "none", cleanup |-> "none"]

Markers == [state : {"none", "creating", "ready"}, by : Execs \cup {NoOwner}, base : Nat]
Contents == {"absent", "partial", "clean", "dirty", "committed"}
Rows == [by : Execs \cup {NoOwner},
         state : {"none", "running", "contribution_ready", "integrated", "failed", "cancelled"},
         cleanup : {"none", "active", "removed", "preserved"}]
InLock == {"entering", "publish", "add", "adding", "finalize", "sync", "confirm", "reconcile", "compensating",
           "removing"}
Places == {"idle", "created", "compensate", "evidence", "working", "turned", "quiesced",
           "collected", "failing", "done"} \cup InLock

TypeOK ==
  /\ left \in [faults : Nat, writes : Nat, crashes : Nat, siblings : Nat, execs : SUBSET Execs]
  /\ marker \in Markers /\ durable \in Markers
  /\ work \in Contents
  /\ alive \subseteq Execs
  /\ row \in Rows
  /\ head \in Nat /\ tree \in Nat
  /\ run \in {"running", "fenced", "ended"}
  /\ up \in BOOLEAN
  /\ lock \in Seq(Execs) /\ contended \subseteq Execs
  /\ pc \in [Execs -> Places]
  /\ snap \in [Execs -> [head : Nat, listed : BOOLEAN]]
  /\ owner \in [Execs -> Execs \cup {NoOwner}]
  /\ robbed \subseteq Execs \cup {NoOwner}
  /\ looked \in Contents \cup {"none", "kept"}

Init ==
  /\ left \in Setups
  /\ marker = NoMarker /\ durable = NoMarker
  /\ work = "absent"
  /\ alive = {}
  /\ row = NoRow
  /\ head = 0 /\ tree = 0
  /\ run = "running"
  /\ up = TRUE
  /\ lock = <<>> /\ contended = {}
  /\ pc = [e \in Execs |-> "idle"]
  /\ snap = [e \in Execs |-> [head |-> 0, listed |-> FALSE]]
  /\ owner = [e \in Execs |-> NoOwner]
  /\ robbed = {}
  /\ looked = "none"

----------------------------------------------------------------------------
(* What the manager looks at.                                               *)

Goto(e, place) == pc' = [pc EXCEPT ![e] = place]
At(e, place) == up /\ pc[e] = place
Spend(f) == left[f] > 0 /\ left' = [left EXCEPT ![f] = @ - 1]
Fault == Spend("faults")

\* retryTerminalStoreWrite tries every write twice: both tries fail.
WriteFails == Spend("writes")

\* The project a caller holds is checked against the canonical checkout, which
\* must be clean and at the head the caller has read.
PathsHold(project) == project.head = tree

Inspect == CASE work = "absent" -> "absent"
             [] work = "clean" -> "exact"
             [] OTHER -> "preserved"

\* Only the exact clean workspace of the marker's owner may be removed.
OwnedBy(by) == marker.state = "ready" /\ marker.by = by
\* (The mutants of this module - RemovableUnlooked, SyncSkipped -
\* are bugs, not code.)
RemovableUnlooked(by) == OwnedBy(by)
Removable(by) == OwnedBy(by) /\ Inspect = "exact"

\* The looks at the workspace end before its removal, which asks Git once more
\* whether it is clean and deletes it over several awaits: what a worker has
\* written meanwhile is seen and kept, or goes with the rest, and a commit is not
\* seen.  A removal that fails may stop halfway.
RemovesTree == work' = "absent" /\ marker' = NoMarker /\ durable' = NoMarker
KeepsTree ==
  /\ \/ work = "dirty" /\ UNCHANGED <<work, left>>
     \/ Fault /\ work' \in {work, "partial"}
  /\ UNCHANGED <<marker, durable>>

Project == [head |-> head, listed |-> row # NoRow]

\* The attempt lock: a chain of promises keyed by the attempt.
Acquires(e) ==
  /\ lock' = Append(lock, e)
  /\ contended' = IF lock = <<>> THEN contended \ {e} ELSE contended \cup {e}

Holds(e) == lock # <<>> /\ lock[1] = e
Releases == lock' = Tail(lock) /\ UNCHANGED contended

----------------------------------------------------------------------------
(* create()                                                                 *)

\* runSubtask reads the project, without any lock, and asks for the workspace.
Ask(e) ==
  /\ up /\ e \in left.execs /\ pc[e] = "idle" /\ run = "running"
  /\ snap' = [snap EXCEPT ![e] = Project]
  /\ Acquires(e)
  /\ Goto(e, "entering")
  /\ UNCHANGED <<left, files, alive, row, canon, run, up, owner, robbed, looked>>

\* The create ends without a workspace: nothing was recorded, nothing is left to compensate.
GivesUp(e) == Goto(e, "done") /\ Releases

\* The project has moved on, the record or a marker names other work, or there is
\* something in the way that must be kept.  Otherwise an earlier create is found: its workspace is taken over as it
\* stands, unless this caller has waited for the other one.
EnterRefused(e) ==
  \/ snap[e].listed
  \/ ~PathsHold(snap[e])
  \/ Inspect = "preserved"
  \/ Inspect = "exact" /\ marker.state = "none"
  \/ marker.state # "none" /\ marker.base # snap[e].head

Enter(e) ==
  /\ At(e, "entering") /\ Holds(e)
  /\ \/ /\ EnterRefused(e)
        /\ GivesUp(e) /\ UNCHANGED <<marker, durable, owner>>
     \/ /\ ~EnterRefused(e) /\ Inspect = "absent"
        /\ marker' = NoMarker /\ durable' = NoMarker
        /\ Goto(e, "publish") /\ UNCHANGED <<locks, owner>>
     \/ /\ ~EnterRefused(e) /\ Inspect = "exact"
        /\ owner' = [owner EXCEPT ![e] = marker.by]
        /\ Goto(e, IF marker.state = "ready" THEN "confirm" ELSE "finalize")
        /\ UNCHANGED <<marker, durable, locks>>
  /\ UNCHANGED <<left, work, alive, row, canon, run, up, snap, robbed, looked>>

\* The creating marker: a durable temporary file, its rename, the directory's sync.
PublishCreating(e) ==
  /\ At(e, "publish")
  /\ owner' = [owner EXCEPT ![e] = e]
  /\ marker' = [state |-> "creating", by |-> e, base |-> snap[e].head]
  /\ \/ durable' = marker' /\ Goto(e, "add") /\ UNCHANGED <<left, locks>>
     \/ Fault /\ GivesUp(e) /\ UNCHANGED durable
  /\ UNCHANGED <<work, alive, row, canon, run, up, snap, robbed, looked>>

AddBegins(e) ==
  /\ At(e, "add")
  /\ work' = "partial"
  /\ Goto(e, "adding")
  /\ UNCHANGED <<left, marker, durable, alive, row, canon, run, up, locks, snap, owner, robbed, looked>>

AddEnds(e) ==
  /\ At(e, "adding")
  /\ work' = "clean"
  /\ Goto(e, "finalize")
  /\ UNCHANGED <<left, marker, durable, alive, row, canon, run, up, locks, snap, owner, robbed, looked>>

AddFails(e) ==
  /\ pc[e] \in {"add", "adding"} /\ up
  /\ Fault
  /\ work' \in IF pc[e] = "add" THEN {"absent"} ELSE {"partial", "clean"}
  /\ Goto(e, "reconcile")
  /\ UNCHANGED <<marker, durable, alive, row, canon, run, up, locks, snap, owner, robbed, looked>>

\* The ready marker replaces the creating one by a rename ...
RenameReady(e) ==
  /\ At(e, "finalize")
  /\ marker' = [marker EXCEPT !.state = "ready"]
  /\ Goto(e, "sync")
  /\ UNCHANGED <<left, durable, work, alive, row, canon, run, up, locks, snap, owner, robbed, looked>>

\* Only a create of one's own is reconciled, not the one that was taken over.
RenameFails(e) ==
  /\ At(e, "finalize")
  /\ Fault
  /\ \/ owner[e] = e /\ Goto(e, "reconcile") /\ UNCHANGED locks
     \/ owner[e] # e /\ GivesUp(e)
  /\ UNCHANGED <<files, alive, row, canon, run, up, snap, owner, robbed, looked>>

\* ... and is handed out only after the directory is synced.
SyncSkipped == UNCHANGED durable
Synced == durable' = marker

\* The caller that waited for the lock is told that the attempt is taken.
SyncReady(e) ==
  /\ pc[e] \in {"sync", "confirm"} /\ up
  /\ Synced
  /\ IF e \in contended /\ owner[e] # e THEN Goto(e, "done") ELSE Goto(e, "created")
  /\ Releases
  /\ UNCHANGED <<left, marker, work, alive, row, canon, run, up, snap, owner, robbed, looked>>

\* A failed sync is tried once more; when that fails too nobody gets the workspace.
SyncFails(e) ==
  /\ pc[e] \in {"sync", "confirm"} /\ up
  /\ Fault
  /\ \/ pc[e] = "sync" /\ Goto(e, "confirm") /\ UNCHANGED locks
     \/ pc[e] = "confirm" /\ GivesUp(e)
  /\ UNCHANGED <<files, alive, row, canon, run, up, snap, owner, robbed, looked>>

\* After a failure: an absent workspace takes its marker with it, a clean one is
\* finalised after all, anything else stays where it is.
Reconcile(e) ==
  /\ At(e, "reconcile")
  /\ \/ Inspect = "absent" /\ marker' = NoMarker /\ durable' = NoMarker /\ GivesUp(e) /\ UNCHANGED left
     \/ Inspect = "preserved" /\ GivesUp(e) /\ UNCHANGED <<left, marker, durable>>
     \/ /\ Inspect = "exact"
        /\ marker' = [marker EXCEPT !.state = "ready"]
        /\ Goto(e, "sync") /\ UNCHANGED <<left, durable, locks>>
     \/ Inspect = "exact" /\ Fault /\ GivesUp(e) /\ UNCHANGED <<marker, durable>>
  /\ UNCHANGED <<work, alive, row, canon, run, up, snap, owner, robbed, looked>>

----------------------------------------------------------------------------
(* The executor: record, run, quiesce, collect, record.                     *)

RecordHolds(e) == run # "ended" /\ head = snap[e].head /\ row = NoRow

PersistStarted(e) ==
  /\ At(e, "created")
  /\ \/ /\ RecordHolds(e)
        /\ row' = [by |-> owner[e], state |-> "running", cleanup |-> "active"]
        /\ Goto(e, "working")
        /\ alive' = alive \cup {e}
        /\ UNCHANGED left
     \/ ~RecordHolds(e) /\ Goto(e, "compensate") /\ UNCHANGED <<left, alive, row>>
     \/ WriteFails /\ Goto(e, "compensate") /\ UNCHANGED <<alive, row>>
  /\ UNCHANGED <<files, canon, run, up, locks, snap, owner, robbed, looked>>

\* Compensation reads the project first and queues for the lock after that.
Compensate(e) ==
  /\ At(e, "compensate")
  /\ snap' = [snap EXCEPT ![e] = Project]
  /\ IF row # NoRow
       THEN Goto(e, "evidence") /\ UNCHANGED locks
       ELSE Goto(e, "compensating") /\ Acquires(e)
  /\ UNCHANGED <<left, files, alive, row, canon, run, up, owner, robbed, looked>>

\* Another executor was given the same workspace and has recorded it, or is about to.
TakenOver(e) ==
  row.by = owner[e] \/ \E other \in Execs \ {e} : pc[other] = "created" /\ owner[other] = owner[e]

Robs(e) == robbed' = IF TakenOver(e) THEN robbed \cup {owner[e]} ELSE robbed

\* recoverLocked on behalf of an attempt that was in no record when the project
\* was read: a look, and the removal of what it has found clean ...
LookUnpersisted(e) ==
  /\ At(e, "compensating") /\ Holds(e)
  /\ \/ /\ PathsHold(snap[e]) /\ Removable(owner[e])
        /\ looked' = work
        /\ Goto(e, "removing") /\ UNCHANGED <<files, locks, robbed>>
     \/ /\ PathsHold(snap[e]) /\ work = "absent"
        /\ RemovesTree /\ Robs(e)
        /\ Goto(e, "done") /\ Releases /\ UNCHANGED looked
     \/ /\ ~(PathsHold(snap[e]) /\ (Removable(owner[e]) \/ work = "absent"))
        /\ Goto(e, "evidence") /\ Releases /\ UNCHANGED <<files, robbed, looked>>
  /\ UNCHANGED <<left, alive, row, canon, run, up, snap, owner>>

\* ... under a worker, if another executor has recorded the same workspace.
RemoveUnpersisted(e) ==
  /\ At(e, "removing") /\ Holds(e)
  /\ looked' = "none"
  /\ \/ RemovesTree /\ Robs(e) /\ Goto(e, "done") /\ UNCHANGED left
     \/ KeepsTree /\ Goto(e, "evidence") /\ UNCHANGED robbed
  /\ Releases
  /\ UNCHANGED <<alive, row, canon, run, up, snap, owner>>

\* What could not be removed is recorded as preserved, if there is no record yet.
Evidence(e) ==
  /\ At(e, "evidence")
  /\ Goto(e, "done")
  /\ \/ row = NoRow /\ row' = [by |-> owner[e], state |-> "failed", cleanup |-> "preserved"] /\ UNCHANGED left
     \/ row # NoRow /\ UNCHANGED <<row, left>>
     \/ WriteFails /\ UNCHANGED row
  /\ UNCHANGED <<files, alive, canon, run, up, locks, snap, owner, robbed, looked>>

\* The worker edits and commits; its process writes until it is known to be gone.
Write(e) ==
  /\ e \in alive /\ work \in {"clean", "dirty", "committed"}
  /\ work' \in {"dirty", "committed"}
  /\ UNCHANGED <<left, marker, durable, alive, row, canon, run, up, locks, mine, robbed, looked>>

TurnEnds(e) ==
  /\ At(e, "working")
  /\ \E next \in {"turned", "failing"} : Goto(e, next)
  /\ UNCHANGED <<left, files, alive, row, canon, run, up, locks, snap, owner, robbed, looked>>

\* A runtime whose end cannot be proved is an infrastructure failure.
Quiesce(e) ==
  /\ At(e, "turned")
  /\ \/ alive' = alive \ {e} /\ Goto(e, "quiesced") /\ UNCHANGED left
     \/ Fault /\ Goto(e, "failing") /\ UNCHANGED alive
  /\ UNCHANGED <<files, row, canon, run, up, locks, snap, owner, robbed, looked>>

\* One commit on the base, a clean tree, the claimed head: or no contribution.
Collectable == work = "committed"

Collect(e) ==
  /\ At(e, "quiesced")
  /\ Goto(e, IF run = "running" /\ Collectable THEN "collected" ELSE "failing")
  /\ UNCHANGED <<left, files, alive, row, canon, run, up, locks, snap, owner, robbed, looked>>

OwnsRunning(e) == run # "ended" /\ row.by = owner[e] /\ row.state = "running"

PersistReady(e) ==
  /\ At(e, "collected")
  /\ \/ /\ run = "running" /\ OwnsRunning(e)
        /\ row' = [row EXCEPT !.state = "contribution_ready"]
        /\ Goto(e, "done") /\ UNCHANGED left
     \/ ~(run = "running" /\ OwnsRunning(e)) /\ Goto(e, "failing") /\ UNCHANGED <<row, left>>
     \/ WriteFails /\ Goto(e, "failing") /\ UNCHANGED row
  /\ UNCHANGED <<files, alive, canon, run, up, locks, snap, owner, robbed, looked>>

Verdict == IF run = "running" THEN "failed" ELSE "cancelled"

\* quiesceOnce does not ask again when it has asked before; the record is failed
\* or cancelled and keeps the workspace, and when that cannot be written a last
\* write tries to keep it at least.
Fail(e) ==
  /\ At(e, "failing")
  /\ alive' \in {alive, alive \ {e}}
  /\ \/ /\ row' = IF OwnsRunning(e)
                    THEN [row EXCEPT !.state = Verdict, !.cleanup = "preserved"]
                    ELSE row
        /\ UNCHANGED left
     \/ /\ WriteFails
        /\ row' \in {row, IF OwnsRunning(e) THEN [row EXCEPT !.cleanup = "preserved"] ELSE row}
  /\ Goto(e, "done")
  /\ UNCHANGED <<files, canon, run, up, locks, snap, owner, robbed, looked>>

----------------------------------------------------------------------------
(* Settlements, under the run's authority lock.                             *)

Unapplied == tree = head

\* Another attempt's contribution is applied to the canonical checkout, and kept or taken back.
SiblingApplies ==
  /\ up /\ run = "running" /\ Unapplied /\ ~(row.state = "integrated" /\ row.cleanup = "active")
  /\ Spend("siblings")
  /\ tree' = tree + 1
  /\ UNCHANGED <<files, alive, row, head, run, up, locks, mine, robbed, looked>>

SiblingDecides ==
  /\ up /\ ~Unapplied
  /\ \/ head' = tree /\ UNCHANGED tree
     \/ tree' = head /\ UNCHANGED head
  /\ UNCHANGED <<left, files, alive, row, run, up, locks, mine, robbed, looked>>

\* importContribution binds the record, the marker and the commit to one owner.
Importable == OwnedBy(row.by) /\ Collectable

Settle ==
  /\ up /\ run = "running" /\ Unapplied /\ lock = <<>>
  /\ row.state = "contribution_ready"
  /\ \/ Importable /\ head' = head + 1 /\ tree' = tree + 1 /\ row' = [row EXCEPT !.state = "integrated"]
     \/ row' = [row EXCEPT !.state = "failed", !.cleanup = "preserved"] /\ UNCHANGED canon
  /\ UNCHANGED <<left, files, alive, run, up, locks, mine, robbed, looked>>

\* The workspace of an integrated attempt is removed, whatever it has committed: no
\* worker writes to it any more, and the look and the removal are one step ...
RemoveIntegrated ==
  /\ up /\ row.state = "integrated" /\ row.cleanup = "active" /\ lock = <<>>
  /\ Unapplied /\ Importable
  /\ work' = "absent" /\ marker' = NoMarker /\ durable' = NoMarker
  /\ UNCHANGED <<left, alive, row, canon, run, up, locks, mine, robbed, looked>>

\* ... and its record says what became of it.
RecordCleanup ==
  /\ up /\ row.state = "integrated" /\ row.cleanup = "active"
  /\ \/ work = "absent" /\ row' = [row EXCEPT !.cleanup = "removed"] /\ UNCHANGED left
     \/ work # "absent" /\ Fault /\ row' = [row EXCEPT !.cleanup = "preserved"]
  /\ UNCHANGED <<files, alive, canon, run, up, locks, mine, robbed, looked>>

\* cancel() raises the epoch, then marks what is running or ready as cancelled.
Cancel ==
  /\ up /\ run = "running"
  /\ run' = "fenced"
  /\ UNCHANGED <<left, files, alive, row, canon, up, locks, mine, robbed, looked>>

PersistFence ==
  /\ up /\ run = "fenced" /\ row.state \in {"running", "contribution_ready"}
  /\ row' = [row EXCEPT !.state = "cancelled", !.cleanup = "preserved"]
  /\ UNCHANGED <<left, files, alive, canon, run, up, locks, mine, robbed, looked>>

\* A run that meets its deadline ends whatever its workers are doing.
RunEnds ==
  /\ up /\ run # "ended"
  /\ row.state \notin {"running", "contribution_ready"} \/ run = "running"
  /\ run' = "ended"
  /\ UNCHANGED <<left, files, alive, row, canon, up, locks, mine, robbed, looked>>

----------------------------------------------------------------------------
(* The server dies, alone or with the machine; its restart looks after the    *)
(* runs that were active.                                                     *)

Crash ==
  /\ up /\ Spend("crashes")
  /\ up' = FALSE
  /\ pc' = [e \in Execs |-> "done"]
  /\ lock' = <<>> /\ contended' = {}
  /\ alive' \in {alive, {}}
  /\ marker' \in {marker, durable}
  /\ durable' = marker'
  /\ looked' = "none"
  /\ UNCHANGED <<work, row, canon, run, snap, owner, robbed>>

\* recover() looks for the clean workspace of an active record and removes it,
\* before the record is written.
Recovered == run # "ended" /\ row.cleanup = "active" /\ row.state # "failed" /\ PathsHold(Project)

\* A worker that has survived the server may write between the look and the removal.
BootLooks ==
  /\ ~up /\ looked = "none" /\ Recovered /\ Removable(row.by)
  /\ looked' = work
  /\ UNCHANGED <<left, files, alive, row, canon, run, up, locks, mine, robbed>>

BootRemoves ==
  /\ ~up /\ Recovered /\ looked \in Contents
  /\ \/ RemovesTree /\ looked' = "none" /\ UNCHANGED left
     \/ KeepsTree /\ looked' = "kept"
  /\ UNCHANGED <<alive, row, canon, run, up, locks, mine, robbed>>

BootRecords ==
  /\ ~up
  /\ \/ looked = "kept"
     \/ looked = "none" /\ ~(Recovered /\ Removable(row.by))
  /\ looked' = "none"
  /\ up' = TRUE
  /\ run' = "ended"
  /\ row' = IF run = "ended" THEN row
            ELSE [row EXCEPT
              !.cleanup = IF @ # "active" THEN @
                          ELSE IF Recovered /\ work = "absent" THEN "removed" ELSE "preserved",
              !.state = IF @ \in {"running", "contribution_ready"} THEN "cancelled" ELSE @]
  /\ UNCHANGED <<left, files, alive, canon, locks, mine, robbed>>

----------------------------------------------------------------------------

Step(e) ==
  \/ Enter(e) \/ PublishCreating(e) \/ AddBegins(e) \/ AddEnds(e) \/ AddFails(e)
  \/ RenameReady(e) \/ RenameFails(e) \/ SyncReady(e) \/ SyncFails(e) \/ Reconcile(e)
  \/ PersistStarted(e) \/ Compensate(e) \/ LookUnpersisted(e) \/ RemoveUnpersisted(e) \/ Evidence(e)
  \/ TurnEnds(e) \/ Quiesce(e) \/ Collect(e) \/ PersistReady(e) \/ Fail(e)

Settlement ==
  \/ SiblingApplies \/ SiblingDecides \/ Settle \/ RemoveIntegrated \/ RecordCleanup
  \/ Cancel \/ PersistFence \/ RunEnds

Boot == BootLooks \/ BootRemoves \/ BootRecords

Next == (\E e \in Execs : Ask(e) \/ Step(e) \/ Write(e)) \/ Settlement \/ Crash \/ Boot

Fairness == \A e \in Execs : WF_vars(Step(e))

Spec == Init /\ [][Next]_vars /\ Fairness

----------------------------------------------------------------------------

\* A worker's work - files it has changed, a commit it has made - leaves the disk
\* only when its commit is in the project, or while a removal is under way that
\* has found the workspace clean before the work was done: whoever creates, adds,
\* reconciles, compensates or recovers takes no work it could have seen.
\* (recoverLocked, finalDeletionFence, removeIntegratedLocked)
WorkIsKept ==
  [][(work \in {"dirty", "committed"} /\ work' \notin {"dirty", "committed"})
       => (row.state = "integrated" /\ work = "committed") \/ looked = "clean"]_vars

\* "Removes only when Git itself still sees the worktree as clean" (git-client.ts,
\* worktreeRemoveClean).  Not kept to the end: a worker that has survived the server,
\* or that of a second executor with the same owner token, writes between the last
\* look and the deletion, or commits, which the look does not see.
OnlyCleanIsRemoved ==
  [][(work \in {"dirty", "committed"} /\ work' \notin {"dirty", "committed"})
       => (row.state = "integrated" /\ work = "committed")]_vars

\* An attempt the store shows as active has its workspace on disk, with a ready
\* marker in the name of the recorded owner that a power loss would not take
\* away: what is recorded is there to be collected, imported or recovered - unless
\* the compensation of an executor that could not record it has removed it since.
\* (create hands out a workspace after its sync, persistAttemptStarted follows)
ActiveIsOwned ==
  row.cleanup = "active" /\ row.state \in {"running", "contribution_ready"} /\ up /\ row.by \notin robbed =>
    /\ work # "absent"
    /\ OwnedBy(row.by)
    /\ durable = marker

\* What the code does not keep: compensateUnpersisted looks for a record before it
\* waits for the lock, and a second executor of the attempt that was given the
\* workspace meanwhile has the same owner token.
OnlyItsOwnIsRemoved == robbed = {}

\* Every executor that asked for the workspace returns: the lock is passed on
\* whatever fails in between.  (withAttemptLock, execute)
ExecutorsReturn == \A e \in Execs : pc[e] \notin {"idle", "done"} ~> pc[e] = "done"

=============================================================================
