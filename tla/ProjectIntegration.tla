------------------------- MODULE ProjectIntegration -------------------------
(***************************************************************************)
(* How the contributions of one project run reach its canonical checkout.  *)
(*                                                                         *)
(* orchestration/orchestrator.ts settles each contribution under the run's *)
(* authority lock: it records "integrating" in the store, applies the      *)
(* commit with contribution-integrator.ts, and records the decision.  A    *)
(* cancellation bumps the run's epoch at any moment and every later step   *)
(* of a settlement looks at it; a deadline only latches the run's control. *)
(* After a crash agent-service.ts reconciles what the store and the        *)
(* checkout say.                                                           *)
(*                                                                         *)
(* A commit is the sequence of contributions it contains.  An action is    *)
(* what one await covers: a store mutation, or one git command sequence.   *)
(***************************************************************************)
EXTENDS Integers, Sequences, FiniteSets

CONSTANTS
    Contribs,       \* contributions the run's workers produce
    Healing,        \* whether the run verifies contributions (healing runs)
    Live,           \* a live leader's run: background dispatches settle concurrently
    Canceller,      \* the cancel() call, a member of the lock's queue
    Stops,          \* bound: which terminal reasons may latch
    Faults,         \* which faults may happen
    MaxFaults,      \* bound: how many
    MaxCrashes      \* bound: crashes of the server

FaultKinds == {"import", "authority"}

ASSUME IntegrationAssumption ==
    /\ Healing \in BOOLEAN
    /\ Live \in BOOLEAN
    /\ Canceller \notin Contribs
    /\ Stops \subseteq {"root_deadline", "user_cancelled"}
    /\ Faults \subseteq FaultKinds
    /\ MaxFaults \in Nat
    /\ MaxCrashes \in Nat

VARIABLES
    \* the canonical checkout
    canon,          \* its HEAD
    tree,           \* "clean", or "conflict" in the middle of a cherry-pick
    \* the store
    storeHead,      \* project.headCommit
    integ,          \* state of each contribution's IntegrationRecord
    why,            \* its reason
    before,         \* its canonicalHeadBefore
    attempt,        \* state of the contribution's attempt
    node,           \* state of its task node in a healing run
    runStatus,      \* the run's status
    \* the process
    up,             \* the server runs
    lockQ,          \* authorityLocks: the holder, then those who wait
    pc,             \* where each settlement is
    cpc,            \* where cancel() is
    outcome,        \* integrate()'s result, a local of the settlement
    fresh,          \* settlements whose integrate() holds a control made after
                    \* the run had released its own
    stopped,        \* RunControl's terminal latch
    cancelled,      \* the cancellation epoch differs from the run's
    faults,
    crashes

checkout == <<canon, tree>>
records  == <<storeHead, integ, why, before, attempt, node>>
process  == <<pc, outcome, fresh, lockQ>>
control  == <<cpc, stopped, cancelled>>
bounds   == <<faults, crashes>>
vars == <<checkout, records, runStatus, up, process, control, bounds>>

Holds(p) == lockQ # <<>> /\ Head(lockQ) = p

(* controlFor(): the run's control while it runs; releaseControl drops it with
   the run, and the next caller gets a new one, which nothing has stopped. *)
Terminal == stopped # "none" /\ runStatus = "running"

(* What the control that integrate() was called with says. *)
TerminalFor(c) == stopped # "none" /\ c \notin fresh

Fault(k) ==
    /\ k \in Faults
    /\ faults < MaxFaults
    /\ faults' = faults + 1
    /\ UNCHANGED crashes

Init ==
    /\ canon = <<>> /\ tree = "clean"
    /\ storeHead = <<>>
    /\ integ = [c \in Contribs |-> "none"]
    /\ why = [c \in Contribs |-> "none"]
    /\ before = [c \in Contribs |-> <<>>]
    /\ attempt = [c \in Contribs |-> "contribution_ready"]
    /\ node = [c \in Contribs |-> "running"]
    /\ runStatus = "running"
    /\ up = TRUE
    /\ lockQ = <<>>
    /\ pc = [c \in Contribs |-> "idle"]
    /\ cpc = "idle"
    /\ outcome = [c \in Contribs |-> "none"]
    /\ fresh = {}
    /\ stopped = "none" /\ cancelled = FALSE
    /\ faults = 0 /\ crashes = 0

Goto(c, l) == pc' = [pc EXCEPT ![c] = l] /\ UNCHANGED lockQ

LeaveKeepsLock(c, l) ==
    /\ pc' = [pc EXCEPT ![c] = l]
    /\ lockQ' = IF l = "thrown" THEN lockQ ELSE Tail(lockQ)

(* The settlement returns or throws: the lock is released in `finally`. *)
Leave(c, l) == pc' = [pc EXCEPT ![c] = l] /\ lockQ' = Tail(lockQ)

At(c, l) == up /\ pc[c] = l

-----------------------------------------------------------------------------
(* settleProjectContribution, up to integrate().                           *)

(* A live leader's dispatches settle whenever their worker returns; a planned
   wave settles one contribution after the other, until one throws. *)
Resting == {"idle", "thrown", "lost", "failed", "completed"}

RequestLock(c) ==
    /\ At(c, "idle")
    /\ \/ Live
       \/ /\ runStatus = "running"
          /\ \A d \in Contribs : pc[d] \in {"idle", "failed", "completed"}
    /\ pc' = [pc EXCEPT ![c] = "waiting"]
    /\ lockQ' = Append(lockQ, c)
    /\ UNCHANGED <<checkout, records, runStatus, up, outcome, fresh, control, bounds>>

(* assertActive and the epoch, before anything else; a healing run then takes
   the task node for verification. *)
Begin(c) ==
    /\ At(c, "waiting") /\ Holds(c)
    /\ IF Terminal \/ cancelled
       THEN Leave(c, "thrown") /\ UNCHANGED node
       ELSE /\ Goto(c, IF Healing THEN "verify" ELSE "start")
            /\ node' = IF Healing THEN [node EXCEPT ![c] = "verifying"] ELSE node
    /\ UNCHANGED <<checkout, storeHead, integ, why, before, attempt, runStatus, up, outcome, fresh,
                   control, bounds>>

(* The pre-integration authority admits the contribution ... *)
Admitted(c) ==
    /\ At(c, "verify")
    /\ node' = [node EXCEPT ![c] = "integration_pending"]
    /\ Goto(c, "start")
    /\ UNCHANGED <<checkout, storeHead, integ, why, before, attempt, runStatus, up, outcome, fresh,
                   control, bounds>>

(* ... or denies it; it may throw instead when the run has stopped. *)
Denied(c) ==
    /\ At(c, "verify")
    /\ node' = [node EXCEPT ![c] = "failed"]
    /\ Leave(c, "failed") \/ (Terminal /\ Leave(c, "thrown"))
    /\ UNCHANGED <<checkout, storeHead, integ, why, before, attempt, runStatus, up, outcome, fresh,
                   control, bounds>>

(* What both store mutations of a settlement insist on. *)
StillRunning(c) == runStatus = "running" /\ attempt[c] = "contribution_ready"

PersistStarted(c) ==
    /\ At(c, "start")
    /\ IF cancelled \/ ~StillRunning(c)
       THEN Leave(c, "thrown") /\ UNCHANGED records
       ELSE /\ integ' = [integ EXCEPT ![c] = "integrating"]
            /\ before' = [before EXCEPT ![c] = storeHead]
            /\ Goto(c, "import")
            /\ UNCHANGED <<storeHead, why, attempt, node>>
    /\ UNCHANGED <<checkout, runStatus, up, outcome, fresh, control, bounds>>

(* importContribution between two looks at the epoch. *)
Import(c) ==
    /\ At(c, "import")
    /\ Goto(c, IF cancelled THEN "undo" ELSE "enter")
    /\ UNCHANGED <<checkout, records, runStatus, up, outcome, fresh, control, bounds>>

ImportFails(c) ==
    /\ At(c, "import")
    /\ ~cancelled
    /\ Fault("import")
    /\ Goto(c, "unimported")
    /\ UNCHANGED <<checkout, records, runStatus, up, outcome, fresh, control>>

(* The failure is a decision like any other; then the task node fails. *)
RecordUnimported(c) ==
    /\ At(c, "unimported")
    /\ IF cancelled THEN Goto(c, "undo") /\ UNCHANGED records
       ELSE IF ~StillRunning(c) THEN Leave(c, "thrown") /\ UNCHANGED records
       ELSE /\ integ' = [integ EXCEPT ![c] = "rolled_back"]
            /\ why' = [why EXCEPT ![c] = "contribution_import_failed"]
            /\ attempt' = [attempt EXCEPT ![c] = "failed"]
            /\ node' = IF Healing THEN [node EXCEPT ![c] = "failed"] ELSE node
            /\ Leave(c, "failed")
            /\ UNCHANGED <<storeHead, before>>
    /\ UNCHANGED <<checkout, runStatus, up, outcome, fresh, control, bounds>>

(* enterIntegrating, then the call of integrate() with controlFor(run). *)
EnterIntegrating(c) ==
    /\ At(c, "enter")
    /\ node' = IF Healing THEN [node EXCEPT ![c] = "integrating"] ELSE node
    /\ fresh' = IF runStatus = "running" THEN fresh ELSE fresh \cup {c}
    /\ Goto(c, "apply")
    /\ UNCHANGED <<checkout, storeHead, integ, why, before, attempt, runStatus, up, outcome,
                   control, bounds>>

-----------------------------------------------------------------------------
(* ContributionIntegrator.integrate.                                       *)

MayApply(c) == ~TerminalFor(c) /\ canon = before[c]

(* assertActive and the head check come before the cherry-pick. *)
CherryPick(c) ==
    /\ At(c, "apply")
    /\ MayApply(c) /\ tree = "clean"
    /\ canon' = Append(canon, c)
    /\ Goto(c, "gate")
    /\ UNCHANGED <<tree, records, runStatus, up, outcome, fresh, control, bounds>>

CherryPickConflicts(c) ==
    /\ At(c, "apply")
    /\ MayApply(c)
    /\ tree' = "conflict"
    /\ Goto(c, "abort")
    /\ UNCHANGED <<canon, records, runStatus, up, outcome, fresh, control, bounds>>

(* integrate() throws: the record stays "integrating". *)
RefuseApply(c) ==
    /\ At(c, "apply")
    /\ ~MayApply(c)
    /\ Leave(c, "thrown")
    /\ UNCHANGED <<checkout, records, runStatus, up, outcome, fresh, control, bounds>>

Decide(c, o) == outcome' = [outcome EXCEPT ![c] = o]

AbortForgotten(c) ==
    /\ At(c, "abort")
    /\ Decide(c, "conflicted")
    /\ Goto(c, "decided")
    /\ UNCHANGED <<checkout, records, runStatus, up, fresh, control, bounds>>

AbortCherryPick(c) ==
    /\ At(c, "abort")
    /\ tree' = "clean"
    /\ Decide(c, "conflicted")
    /\ Goto(c, "decided")
    /\ UNCHANGED <<canon, records, runStatus, up, fresh, control, bounds>>

(* The structural gate, and in a healing run the post-integration authority. *)
Gate(c) ==
    /\ At(c, "gate")
    /\ \/ Goto(c, IF Healing THEN "preVerify" ELSE "guard")
       \/ Goto(c, "rollback")
    /\ UNCHANGED <<checkout, records, runStatus, up, outcome, fresh, control, bounds>>

(* guardApplied: nothing applied may survive a terminal run. *)
GuardBeforeVerify(c) ==
    /\ At(c, "preVerify")
    /\ Goto(c, IF TerminalFor(c) THEN "rollbackThrow" ELSE "postVerify")
    /\ UNCHANGED <<checkout, records, runStatus, up, outcome, fresh, control, bounds>>

PostVerify(c) ==
    /\ At(c, "postVerify")
    /\ \/ Goto(c, "guard")
       \/ Goto(c, "rollback")
    /\ UNCHANGED <<checkout, records, runStatus, up, outcome, fresh, control, bounds>>

GuardApplied(c) ==
    /\ At(c, "guard")
    /\ IF TerminalFor(c)
       THEN Goto(c, "rollbackThrow") /\ UNCHANGED outcome
       ELSE Goto(c, "decided") /\ Decide(c, "integrated")
    /\ UNCHANGED <<checkout, records, runStatus, up, fresh, control, bounds>>

Restore(c) == canon' = before[c] /\ tree' = "clean"

Rollback(c) ==
    /\ At(c, "rollback")
    /\ Restore(c)
    /\ Decide(c, "rolled_back")
    /\ Goto(c, "decided")
    /\ UNCHANGED <<records, runStatus, up, fresh, control, bounds>>

(* The run stopped: roll back, then rethrow out of the settlement. *)
RollbackThrow(c) ==
    /\ At(c, "rollbackThrow")
    /\ Restore(c)
    /\ Leave(c, "thrown")
    /\ UNCHANGED <<records, runStatus, up, outcome, fresh, control, bounds>>

(* The checkout is not the recorded one any more: assertAuthority throws out of
   whatever integrate() or restore() is doing; the durable record stays. *)
AuthorityLost(c) ==
    /\ \E l \in {"apply", "abort", "gate", "preVerify", "guard", "rollback", "rollbackThrow",
                 "undo", "undoDecided"} : At(c, l)
    /\ Fault("authority")
    /\ Leave(c, "lost")
    /\ UNCHANGED <<checkout, records, runStatus, up, outcome, fresh, control>>

-----------------------------------------------------------------------------
(* The rest of the settlement.                                             *)

(* persistIntegrationDecision looks at the epoch, then at the run's status. *)
PersistDecision(c) ==
    /\ At(c, "decided")
    /\ IF cancelled THEN Goto(c, "undo") /\ UNCHANGED records
       ELSE IF ~StillRunning(c) THEN Leave(c, "thrown") /\ UNCHANGED records
       ELSE /\ integ' = [integ EXCEPT ![c] = outcome[c]]
            /\ storeHead' = IF outcome[c] = "integrated" THEN Append(before[c], c) ELSE before[c]
            /\ attempt' = [attempt EXCEPT ![c] =
                              IF outcome[c] = "integrated" THEN "integrated" ELSE "failed"]
            /\ Goto(c, "persisted")
            /\ UNCHANGED <<why, before, node>>
    /\ UNCHANGED <<checkout, runStatus, up, outcome, fresh, control, bounds>>

SettleNode(c) ==
    /\ At(c, "persisted")
    /\ ~cancelled
    /\ node' = IF ~Healing THEN node
               ELSE [node EXCEPT ![c] =
                        IF outcome[c] = "integrated" THEN "completed" ELSE "failed"]
    /\ Leave(c, IF outcome[c] = "integrated" THEN "completed" ELSE "failed")
    /\ UNCHANGED <<checkout, storeHead, integ, why, before, attempt, runStatus, up, outcome, fresh,
                   control, bounds>>

CancelledAfterDecision(c) ==
    /\ At(c, "persisted")
    /\ cancelled
    /\ IF outcome[c] = "integrated" THEN Goto(c, "undoDecided") ELSE Leave(c, "thrown")
    /\ UNCHANGED <<checkout, records, runStatus, up, outcome, fresh, control, bounds>>

RecordBeforeRestoring(c) ==
    /\ At(c, "undo")
    /\ Goto(c, "undoRecord")
    /\ UNCHANGED <<checkout, records, runStatus, up, outcome, fresh, control, bounds>>

(* cancelIntegratingContribution: restore the checkout, then the record. *)
RestoreIntegrating(c) ==
    /\ At(c, "undo")
    /\ Restore(c)
    /\ Goto(c, "undoRecord")
    /\ UNCHANGED <<records, runStatus, up, outcome, fresh, control, bounds>>

RecordAsCancelled(c) ==
    /\ integ' = [integ EXCEPT ![c] = "cancelled"]
    /\ why' = [why EXCEPT ![c] = "user_cancelled"]
    /\ attempt' = [attempt EXCEPT ![c] = "cancelled"]

RecordCancelled(c) ==
    /\ integ' = [integ EXCEPT ![c] = "rolled_back"]
    /\ why' = [why EXCEPT ![c] = "user_cancelled"]
    /\ attempt' = [attempt EXCEPT ![c] = "cancelled"]

PersistIntegratingCancelled(c) ==
    /\ At(c, "undoRecord")
    /\ IF attempt[c] = "contribution_ready"
       THEN RecordCancelled(c)
       ELSE UNCHANGED <<integ, why, attempt>>
    /\ Leave(c, "thrown")
    /\ UNCHANGED <<checkout, storeHead, before, node, runStatus, up, outcome, fresh, control, bounds>>

(* cancelDecidedContribution: the same, for a decision already recorded.  Its
   mutation insists on the task node, which only a healing run has. *)
RestoreDecided(c) ==
    /\ At(c, "undoDecided")
    /\ Restore(c)
    /\ Goto(c, "undoDecision")
    /\ UNCHANGED <<records, runStatus, up, outcome, fresh, control, bounds>>

HeadKeepsCancelled(c) ==
    /\ At(c, "undoDecision")
    /\ RecordCancelled(c)
    /\ node' = [node EXCEPT ![c] = "cancelled"]
    /\ Leave(c, "thrown")
    /\ UNCHANGED <<checkout, storeHead, before, runStatus, up, outcome, fresh, control, bounds>>

PersistDecidedCancelled(c) ==
    /\ At(c, "undoDecision")
    /\ IF Healing
       THEN /\ storeHead' = before[c]
            /\ RecordCancelled(c)
            /\ node' = [node EXCEPT ![c] = "cancelled"]
            /\ UNCHANGED before
       ELSE UNCHANGED records
    /\ Leave(c, "thrown")
    /\ UNCHANGED <<checkout, runStatus, up, outcome, fresh, control, bounds>>

Settlement(c) ==
    \/ Begin(c) \/ Admitted(c) \/ Denied(c) \/ PersistStarted(c)
    \/ Import(c) \/ RecordUnimported(c) \/ EnterIntegrating(c)
    \/ CherryPick(c) \/ CherryPickConflicts(c) \/ RefuseApply(c) \/ AbortCherryPick(c)
    \/ Gate(c) \/ GuardBeforeVerify(c) \/ PostVerify(c) \/ GuardApplied(c)
    \/ Rollback(c) \/ RollbackThrow(c)
    \/ PersistDecision(c) \/ SettleNode(c) \/ CancelledAfterDecision(c)
    \/ RestoreIntegrating(c) \/ PersistIntegratingCancelled(c)
    \/ RestoreDecided(c) \/ PersistDecidedCancelled(c)

-----------------------------------------------------------------------------
(* Stopping, ending and restarting the run.                                *)

Priority == [none |-> 0, root_deadline |-> 1, user_cancelled |-> 4]

(* RunControl.stop, from the deadline timer or from cancel(), which also moves
   the run's cancellation epoch.  agent-service cancels running runs only. *)
Stop(r) ==
    /\ up /\ runStatus = "running"
    /\ r \in Stops
    /\ Priority[r] > Priority[stopped]
    /\ stopped' = r
    /\ cancelled' = (cancelled \/ r = "user_cancelled")
    /\ cpc' = IF r = "user_cancelled" THEN "stopping" ELSE cpc
    /\ UNCHANGED <<checkout, records, runStatus, up, process, bounds>>

CancelWithoutLock ==
    /\ up /\ cpc = "stopping"
    /\ attempt' = [c \in Contribs |->
                      IF attempt[c] = "contribution_ready" THEN "cancelled" ELSE attempt[c]]
    /\ cpc' = "done"
    /\ UNCHANGED <<checkout, storeHead, integ, why, before, node, runStatus, up, process, stopped,
                   cancelled, bounds>>

(* cancel() has waited for the run's resources: it queues for the lock ... *)
CancelLocks ==
    /\ up /\ cpc = "stopping"
    /\ cpc' = "waiting"
    /\ lockQ' = Append(lockQ, Canceller)
    /\ UNCHANGED <<checkout, records, runStatus, up, pc, outcome, fresh, stopped, cancelled, bounds>>

(* ... and persistCancellationFence takes what is not integrated yet. *)
Fence ==
    /\ up /\ cpc = "waiting" /\ Holds(Canceller)
    /\ attempt' = [c \in Contribs |->
                      IF attempt[c] = "contribution_ready" THEN "cancelled" ELSE attempt[c]]
    /\ cpc' = "done"
    /\ lockQ' = Tail(lockQ)
    /\ UNCHANGED <<checkout, storeHead, integ, why, before, node, runStatus, up, pc, outcome, fresh,
                   stopped, cancelled, bounds>>

(* failLeaderRun or completeLeaderRun, then releaseControl.  A planned run has
   awaited its settlements.  A live one drains its dispatches in a race with
   the control: once that is terminal it does not wait for them. *)
Settled == \A c \in Contribs : pc[c] \in Resting

RunEnds ==
    /\ up /\ runStatus = "running"
    /\ Settled \/ (Live /\ stopped # "none")
    /\ \/ stopped = "none" /\ runStatus' \in {"completed", "failed"}
       \/ stopped = "root_deadline" /\ runStatus' = "failed"
       \/ stopped = "user_cancelled" /\ runStatus' = "cancelled"
    /\ UNCHANGED <<checkout, records, up, process, control, bounds>>

(* The server dies; the checkout and the store stay. *)
Crash ==
    /\ up
    /\ crashes < MaxCrashes
    /\ crashes' = crashes + 1
    /\ up' = FALSE
    /\ lockQ' = <<>>
    /\ pc' = [c \in Contribs |-> "idle"]
    /\ outcome' = [c \in Contribs |-> "none"]
    /\ fresh' = {}
    /\ cpc' = "idle" /\ stopped' = "none" /\ cancelled' = FALSE
    /\ UNCHANGED <<checkout, records, runStatus, faults>>

RecordMatches(c) == before[c] = storeHead

Reconcilable(c) == before[c] = storeHead /\ canon = before[c] /\ tree = "clean"

Interrupted == {"running", "verifying", "integration_pending", "integrating"}

(* recoverInterruptedRuns: one store mutation ends the run and reconciles what
   was being integrated with what the checkout shows. *)
Recover ==
    LET open == {c \in Contribs : integ[c] = "integrating"}
    IN  /\ ~up /\ runStatus = "running"
        /\ runStatus' = "cancelled"
        /\ integ' = [c \in Contribs |->
                        IF c \in open /\ Reconcilable(c) THEN "rolled_back" ELSE integ[c]]
        /\ why' = [c \in Contribs |->
                      IF c \notin open THEN why[c]
                      ELSE IF Reconcilable(c) THEN "server_restarted"
                      ELSE "restart_canonical_head_mismatch"]
        /\ attempt' = [c \in Contribs |->
                          IF attempt[c] = "contribution_ready" THEN "cancelled" ELSE attempt[c]]
        /\ node' = [c \in Contribs |-> IF node[c] \in Interrupted THEN "cancelled" ELSE node[c]]
        /\ UNCHANGED <<checkout, storeHead, before, up, process, control, bounds>>

Next ==
    \/ \E c \in Contribs : RequestLock(c) \/ Settlement(c) \/ ImportFails(c) \/ AuthorityLost(c)
    \/ \E r \in Stops : Stop(r)
    \/ CancelLocks \/ Fence \/ RunEnds \/ Crash \/ Recover

(* Store writes and git commands end, and so does the wait for the lock. *)
Fairness ==
    /\ \A c \in Contribs : WF_vars(Settlement(c))
    /\ WF_vars(CancelLocks) /\ WF_vars(Fence)

Spec == Init /\ [][Next]_vars /\ Fairness

-----------------------------------------------------------------------------
(* Properties.                                                             *)

Places == {"waiting", "verify", "start", "import", "unimported", "enter", "apply", "abort", "gate",
           "preVerify", "postVerify", "guard", "rollback", "rollbackThrow", "decided",
           "persisted", "undo", "undoRecord", "undoDecided", "undoDecision"} \cup Resting

IntegStates == {"none", "integrating", "integrated", "conflicted", "rolled_back"}

(* Type invariant: what each variable may hold. *)
TypeOK ==
    /\ canon \in Seq(Contribs) /\ tree \in {"clean", "conflict"}
    /\ storeHead \in Seq(Contribs)
    /\ integ \in [Contribs -> IntegStates]
    /\ why \in [Contribs -> {"none", "contribution_import_failed", "user_cancelled",
                             "server_restarted", "restart_canonical_head_mismatch"}]
    /\ before \in [Contribs -> Seq(Contribs)]
    /\ attempt \in [Contribs -> {"contribution_ready", "integrated", "failed", "cancelled"}]
    /\ node \in [Contribs -> Interrupted \cup {"completed", "failed", "cancelled"}]
    /\ runStatus \in {"running", "completed", "failed", "cancelled"}
    /\ up \in BOOLEAN
    /\ lockQ \in Seq(Contribs \cup {Canceller})
    /\ pc \in [Contribs -> Places]
    /\ cpc \in {"idle", "stopping", "waiting", "done"}
    /\ outcome \in [Contribs -> {"none", "integrated", "conflicted", "rolled_back"}]
    /\ fresh \subseteq Contribs
    /\ stopped \in {"none"} \cup Stops
    /\ cancelled \in BOOLEAN
    /\ faults \in Nat /\ crashes \in Nat

InStep == canon = storeHead /\ tree = "clean"

NobodyLost == \A c \in Contribs : pc[c] # "lost"

(* What is in the checkout is on record, as integrated or as being integrated,
   at every moment: also when the server dies between a cherry-pick, a rollback
   and their records, and when its restart closes the records that are open. *)
AppliedIsOnRecord ==
    \A i \in DOMAIN canon : integ[canon[i]] \in {"integrating", "integrated"}

(* While the run runs and no settlement is under way, the checkout is what the
   store says it is - whatever was refused, rolled back or stopped before -
   unless the checkout itself was taken away in the middle of a rollback; and
   where the two differ, through a settlement or a crash, the record shows it. *)
CheckoutMatchesStore ==
    /\ up /\ runStatus = "running" /\ lockQ = <<>> /\ NobodyLost => InStep
    /\ AppliedIsOnRecord

(* Once a cancellation has returned and the settlements have ended, they agree:
   what was applied has been undone, and the records say so. *)
CancelledRunInStep ==
    up /\ cpc = "done" /\ Settled /\ NobodyLost => InStep

(* Nothing applied survives a run that stopped (contribution-integrator.ts). *)
StoppedRunInStep ==
    up /\ runStatus \in {"failed", "cancelled"} /\ Settled /\ NobodyLost => InStep

(* Once cancel() has returned, nothing is integrated any more: not by the
   settlements that wait for the lock, nor by workers that come back late. *)
FenceHolds ==
    [][cpc = "done" /\ cpc' = "done" => UNCHANGED <<canon, storeHead>>]_vars

(* A crash between the two halves of cancelDecidedContribution. *)
BetweenTheHalves ==
    \E c \in Contribs :
        integ[c] = "integrated" /\ canon = before[c] /\ storeHead = Append(before[c], c)

(* A crash is not lost on the restart: when the checkout differs from the
   store, some record is flagged for it - unless the crash was
   BetweenTheHalves, when the only record of it says "integrated". *)
RestartFlagsMismatch ==
    [][~up /\ runStatus = "running" /\ runStatus' # "running" /\ ~InStep /\ ~BetweenTheHalves =>
          \E c \in Contribs : why'[c] = "restart_canonical_head_mismatch"]_vars

(* The project's head holds exactly the contributions recorded as integrated,
   each once, at every moment and across crashes. *)
HeadIsIntegrated ==
    /\ {storeHead[i] : i \in DOMAIN storeHead} = {c \in Contribs : integ[c] = "integrated"}
    /\ \A i, j \in DOMAIN storeHead : storeHead[i] = storeHead[j] => i = j

(* cancel() returns, whoever holds the lock when it is called. *)
CancelReturns == cpc = "stopping" ~> cpc = "done" \/ ~up

Verdict == [c \in Contribs |->
               CASE integ[c] = "none"        -> "open"
                 [] integ[c] = "integrating" -> "deciding"
                 [] integ[c] = "integrated"  -> "taken"
                 [] OTHER                    -> "refused"]

(* To a reader of the store, a settlement is one atomic decision. *)
Atomic == INSTANCE AtomicIntegration WITH head <- storeHead, verdict <- Verdict
Implements == Atomic!AtomicSpec

=============================================================================
