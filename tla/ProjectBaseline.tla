--------------------------- MODULE ProjectBaseline ---------------------------
(***************************************************************************)
(* How the runs of one project move its baseline (project-registry.ts).    *)
(*                                                                         *)
(* A baseline lives twice: as project.baselineCommit in the store and as a *)
(* branch of the project's repository.  advanceBaseline moves both, with a *)
(* transition recorded in the store around a compare-and-swap of the       *)
(* branch.  Startup and the admission of every message run the same        *)
(* recovery over whatever transition they find, under no lock.             *)
(*                                                                         *)
(* A commit is the sequence of the runs it contains.  A process is a run,  *)
(* from the message that asks for it to its end, or the server's startup.  *)
(***************************************************************************)
EXTENDS Integers, Sequences

CONSTANTS
    Runs,
    Startup,        \* recoverBaselineTransitions, called by initialize()
    None,           \* no transition
    Owner,          \* who else writes to the repository
    External,       \* an opened repository: its branch does not exist at first
    RunsStop,       \* a run may be stopped, also after it has advanced the baseline
    Faults,         \* which faults may happen
    MaxFaults,      \* bound: how many
    MaxCrashes      \* bound: crashes of the server

FaultKinds == {"outage", "moved"}

ASSUME BaselineAssumption ==
    /\ Startup \notin Runs /\ None \notin Runs /\ Owner \notin Runs
    /\ None # Owner
    /\ External \in BOOLEAN /\ RunsStop \in BOOLEAN
    /\ Faults \subseteq FaultKinds
    /\ MaxFaults \in Nat /\ MaxCrashes \in Nat

VARIABLES
    \* the store
    baseline,       \* project.baselineCommit
    transition,     \* project.baselineTransition: the run it is for
    state,          \* project.state
    base,           \* each run's project.source.baseCommit
    \* the repository
    ref,            \* the commit of the project's branch
    \* the server
    up,
    pc,             \* where each process is
    seen,           \* the transition in a recovery's snapshot
    \* history and bounds
    crossed,        \* a recovery settled the transition of a running advance
    faults,
    crashes

project == <<baseline, transition, state>>
bounds  == <<faults, crashes>>
vars == <<project, base, ref, up, pc, seen, crossed, bounds>>

Processes == Runs \cup {Startup}

Missing == <<None>>         \* no branch
Foreign == <<Owner>>        \* a commit none of the runs made

NextCommit(r) == Append(base[r], r)

Fault(k) ==
    /\ k \in Faults
    /\ faults < MaxFaults
    /\ faults' = faults + 1
    /\ UNCHANGED crashes

Init ==
    /\ baseline = <<>> /\ transition = None /\ state = "ready"
    /\ base = [r \in Runs |-> <<>>]
    /\ ref = IF External THEN Missing ELSE <<>>
    /\ up = TRUE
    /\ pc = [p \in Processes |-> IF p = Startup THEN "done" ELSE "idle"]
    /\ seen = [p \in Processes |-> None]
    /\ crossed = FALSE
    /\ faults = 0 /\ crashes = 0

At(p, l) == up /\ pc[p] = l
Goto(p, l) == pc' = [pc EXCEPT ![p] = l]

Advancing == {"ensure", "swap", "abandon", "publish"}

-----------------------------------------------------------------------------
(* recoverOneProject, by startup and by admit().                           *)

(* The project as the store has it now; everything below goes by this copy.
   No message is served before startup has recovered. *)
Snapshot(p) ==
    /\ At(p, "idle")
    /\ p # Startup => pc[Startup] = "done"
    /\ seen' = [seen EXCEPT ![p] = transition]
    /\ Goto(p, "identity")
    /\ UNCHANGED <<project, base, ref, up, crossed, bounds>>

IdentifyOnly(p) ==
    /\ At(p, "identity")
    /\ Goto(p, "restore")
    /\ UNCHANGED <<project, base, ref, up, seen, crossed, bounds>>

(* The repository is the registered one and has a head. *)
Identify(p) ==
    /\ At(p, "identity")
    /\ Goto(p, IF seen[p] = None THEN "restore" ELSE "resolve")
    /\ UNCHANGED <<project, base, ref, up, seen, crossed, bounds>>

Unidentified(p) ==
    /\ At(p, "identity")
    /\ Fault("outage")
    /\ Goto(p, "unavailable")
    /\ UNCHANGED <<project, base, ref, up, seen, crossed>>

ResolveAlwaysClears(p) ==
    /\ At(p, "resolve")
    /\ Goto(p, "clear")
    /\ UNCHANGED <<project, base, ref, up, seen, crossed, bounds>>

(* recoverOneTransition compares the branch with both ends of the transition;
   a branch that does not resolve is an error. *)
Resolve(p) ==
    /\ At(p, "resolve")
    /\ Goto(p, CASE ref = Missing             -> "unavailable"
                 [] ref = NextCommit(seen[p]) -> "finalize"
                 [] ref = base[seen[p]]       -> "clear"
                 [] OTHER                     -> "diverged")
    /\ UNCHANGED <<project, base, ref, up, seen, crossed, bounds>>

Cross(p) == crossed' = (crossed \/ (transition = seen[p] /\ pc[seen[p]] \in Advancing))

(* finalizeTransition throws unless the store still has this transition. *)
Finalize(p) ==
    /\ At(p, "finalize")
    /\ IF transition = seen[p]
       THEN baseline' = NextCommit(seen[p]) /\ transition' = None /\ Goto(p, "restore")
       ELSE UNCHANGED <<baseline, transition>> /\ Goto(p, "unavailable")
    /\ Cross(p)
    /\ UNCHANGED <<state, base, ref, up, seen, bounds>>

Clear(p) ==
    /\ At(p, "clear")
    /\ transition' = IF transition = seen[p] THEN None ELSE transition
    /\ Goto(p, "restore")
    /\ Cross(p)
    /\ UNCHANGED <<baseline, state, base, ref, up, seen, bounds>>

Diverge(p) ==
    /\ At(p, "diverged")
    /\ state' = IF transition = seen[p] THEN "unavailable" ELSE state
    /\ Goto(p, "restore")
    /\ UNCHANGED <<baseline, transition, base, ref, up, seen, crossed, bounds>>

(* restoreReady, unless a transition is recorded (still, or again). *)
RestoreReady(p) ==
    /\ At(p, "restore")
    /\ state' = IF transition = None THEN "ready" ELSE state
    /\ Goto(p, "recovered")
    /\ UNCHANGED <<baseline, transition, base, ref, up, seen, crossed, bounds>>

MarkUnavailable(p) ==
    /\ At(p, "unavailable")
    /\ state' = "unavailable"
    /\ Goto(p, "recovered")
    /\ UNCHANGED <<baseline, transition, base, ref, up, seen, crossed, bounds>>

AdmitFromBranch(r) ==
    /\ At(r, "recovered")
    /\ IF state = "ready"
       THEN base' = [base EXCEPT ![r] = ref] /\ Goto(r, "running")
       ELSE Goto(r, "refused") /\ UNCHANGED base
    /\ UNCHANGED <<project, ref, up, seen, crossed, bounds>>

(* What a message that only says to go on may start from: the head of a
   cancelled run, with or without what that run had integrated. *)
Continued ==
    UNION {{base[q], NextCommit(q)} :
              q \in {q \in Runs : pc[q] = "cancelled" \/ (RunsStop /\ pc[q] \in {"ended", "failed"})}}

(* admit() lets the message in; its run starts from the project's baseline,
   or goes on with a cancelled run. *)
Admit(r) ==
    /\ At(r, "recovered")
    /\ IF state = "ready"
       THEN /\ \E b \in {baseline} \cup Continued : base' = [base EXCEPT ![r] = b]
            /\ Goto(r, "running")
       ELSE Goto(r, "refused") /\ UNCHANGED base
    /\ UNCHANGED <<project, ref, up, seen, crossed, bounds>>

(* initialize() goes on to recoverInterruptedRuns, which cancels them. *)
StartupDone ==
    /\ At(Startup, "recovered")
    /\ pc' = [p \in Processes |-> IF p = Startup THEN "done"
                                  ELSE IF pc[p] = "interrupted" THEN "cancelled" ELSE pc[p]]
    /\ UNCHANGED <<project, base, ref, up, seen, crossed, bounds>>

-----------------------------------------------------------------------------
(* advanceBaseline, by a run that has a baselineCandidate.                 *)

(* No candidate: it did not succeed, or nothing was integrated.  The run ends
   with whatever status; the baseline has nothing to do with it. *)
NoCandidate(r) ==
    /\ At(r, "running")
    /\ Goto(r, "ended")
    /\ UNCHANGED <<project, base, ref, up, seen, crossed, bounds>>

Prepare(r) ==
    /\ At(r, "running")
    /\ IF state = "ready" /\ baseline = base[r] /\ transition = None
       THEN transition' = r /\ Goto(r, "ensure")
       ELSE Goto(r, "failed") /\ UNCHANGED transition
    /\ UNCHANGED <<baseline, state, base, ref, up, seen, crossed, bounds>>

(* git update-ref, on condition that the branch is missing. *)
Ensure(r) ==
    /\ At(r, "ensure")
    /\ ref' = IF ref = Missing THEN base[r] ELSE ref
    /\ Goto(r, IF ref \in {Missing, base[r]} THEN "swap" ELSE "abandon")
    /\ UNCHANGED <<project, base, up, seen, crossed, bounds>>

SwapUnchecked(r) ==
    /\ At(r, "swap")
    /\ ref' = NextCommit(r)
    /\ Goto(r, "publish")
    /\ UNCHANGED <<project, base, up, seen, crossed, bounds>>

(* git update-ref, on condition that the branch is the expected commit. *)
Swap(r) ==
    /\ At(r, "swap")
    /\ ref' = IF ref = base[r] THEN NextCommit(r) ELSE ref
    /\ Goto(r, IF ref = base[r] THEN "publish" ELSE "abandon")
    /\ UNCHANGED <<project, base, up, seen, crossed, bounds>>

(* clearPreparedTransition; the run fails. *)
Abandon(r) ==
    /\ At(r, "abandon")
    /\ transition' = IF transition = r THEN None ELSE transition
    /\ Goto(r, "failed")
    /\ UNCHANGED <<baseline, state, base, ref, up, seen, crossed, bounds>>

PublishUnchecked(r) ==
    /\ At(r, "publish")
    /\ baseline' = NextCommit(r) /\ transition' = None /\ Goto(r, "published")
    /\ UNCHANGED <<state, base, ref, up, seen, crossed, bounds>>

PublishIgnoresMismatch(r) ==
    /\ At(r, "publish")
    /\ IF transition = r
       THEN baseline' = NextCommit(r) /\ transition' = None
       ELSE UNCHANGED <<baseline, transition>>
    /\ Goto(r, "published")
    /\ UNCHANGED <<state, base, ref, up, seen, crossed, bounds>>

(* finalizeTransition, after the branch has moved; on a mismatch the run
   fails and nothing is undone. *)
Publish(r) ==
    /\ At(r, "publish")
    /\ IF transition = r
       THEN baseline' = NextCommit(r) /\ transition' = None /\ Goto(r, "published")
       ELSE UNCHANGED <<baseline, transition>> /\ Goto(r, "failed")
    /\ UNCHANGED <<state, base, ref, up, seen, crossed, bounds>>

(* The run ends.  It fails all the same when it is found stopped, or when the
   call that completeLeaderRun repeats finds the baseline moved on since. *)
Complete(r) ==
    /\ At(r, "published")
    /\ Goto(r, "completed")
    /\ UNCHANGED <<project, base, ref, up, seen, crossed, bounds>>

FailsTooLate(r) ==
    /\ At(r, "published")
    /\ RunsStop \/ baseline # NextCommit(r)
    /\ Goto(r, "failed")
    /\ UNCHANGED <<project, base, ref, up, seen, crossed, bounds>>

-----------------------------------------------------------------------------
(* The repository's owner, and the server's process.                       *)

OwnerMoves ==
    /\ Fault("moved")
    /\ ref' \in {Missing, Foreign}
    /\ UNCHANGED <<project, base, up, pc, seen, crossed>>

Recovering == {"idle", "identity", "resolve", "finalize", "clear", "diverged", "restore",
               "unavailable", "recovered"}

(* A message that was being admitted left no run behind. *)
Crash ==
    /\ up
    /\ crashes < MaxCrashes
    /\ crashes' = crashes + 1
    /\ up' = FALSE
    /\ pc' = [p \in Processes |->
                 IF pc[p] \in Recovering \/ p = Startup THEN "idle"
                 ELSE IF pc[p] \in Advancing \cup {"running", "published"} THEN "interrupted"
                 ELSE pc[p]]
    /\ UNCHANGED <<project, base, ref, seen, crossed, faults>>

Restart ==
    /\ ~up
    /\ up' = TRUE
    /\ UNCHANGED <<project, base, ref, pc, seen, crossed, bounds>>

Recovery(p) ==
    \/ Snapshot(p) \/ Identify(p) \/ Resolve(p) \/ Finalize(p) \/ Clear(p) \/ Diverge(p)
    \/ RestoreReady(p) \/ MarkUnavailable(p)

Advance(r) == Ensure(r) \/ Swap(r) \/ Abandon(r) \/ Publish(r)

Next ==
    \/ \E p \in Processes : Recovery(p) \/ Unidentified(p)
    \/ StartupDone
    \/ \E r \in Runs : \/ Admit(r) \/ NoCandidate(r) \/ Prepare(r) \/ Advance(r)
                       \/ Complete(r) \/ FailsTooLate(r)
    \/ OwnerMoves \/ Crash \/ Restart

(* Store writes and git commands end; a server that died is started again. *)
Fairness ==
    /\ WF_vars(Recovery(Startup)) /\ WF_vars(StartupDone) /\ WF_vars(Restart)
    /\ \A r \in Runs : WF_vars(Advance(r))

Spec == Init /\ [][Next]_vars /\ Fairness

-----------------------------------------------------------------------------
(* Properties.                                                             *)

(* Type invariant: what each variable may hold. *)
TypeOK ==
    /\ baseline \in Seq(Runs)
    /\ transition \in Runs \cup {None}
    /\ state \in {"ready", "unavailable"}
    /\ base \in [Runs -> Seq(Runs)]
    /\ ref \in Seq(Runs) \cup {Missing, Foreign}
    /\ up \in BOOLEAN
    /\ pc \in [Processes -> Recovering \cup Advancing \cup
                  {"refused", "running", "ended", "published", "completed", "failed", "interrupted",
                   "cancelled", "done"}]
    /\ seen \in [Processes -> Runs \cup {None}]
    /\ crossed \in BOOLEAN
    /\ faults \in Nat /\ crashes \in Nat

(* The two copies of the baseline differ only while a transition says so,
   across crashes and refused advances - unless the branch was taken away, or
   a recovery settled the transition of an advance that was still running. *)
BaselineMatchesRef ==
    ~crossed /\ transition = None => ref \in {baseline, Missing, Foreign}

(* The baseline moves forward by one run at a time, and only by a run that
   started from it: of two runs with the same base at most one is published,
   whatever is recovered, cleared or finalised twice. *)
AdvancesByOneRun ==
    [][baseline' # baseline => \E r \in Runs : baseline' = NextCommit(r) /\ base[r] = baseline]_vars

(* A run that ends as completed after an advance is in the baseline. *)
CompletedIsPublished ==
    \A r \in Runs : pc[r] = "completed" => \E i \in DOMAIN baseline : baseline[i] = r

(* A branch its owner has moved is never overwritten. *)
OwnersRefIsKept == [][ref = Foreign => ref' = Foreign \/ faults' # faults]_vars

(* A prepared transition does not stay: the advance ends it, or the restart
   that follows a crash, or else the project is marked unavailable. *)
TransitionSettles == transition # None ~> transition = None \/ state = "unavailable"

(* "Failed, cancelled, unknown-outcome, zero-integration, conflicting, or
   stale-baseline Runs leave the newer baseline unchanged" (ARCHITECTURE.md). *)
FailedLeavesBaseline ==
    \A r \in Runs : pc[r] \in {"failed", "cancelled"} =>
        \A i \in DOMAIN baseline : baseline[i] # r

=============================================================================
