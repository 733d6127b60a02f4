-------------------------- MODULE TrajectoryMonitor --------------------------
(* workers/trajectory.ts: the watch over one attempt, as operators over the    *)
(* state of its monitor.  An event of the worker is a record                   *)
(*   sigs    the signatures of the calls it stands for (several in a batch)    *)
(*   print   its own signature                                                 *)
(*   done, error, counts, test, file    what it is: settled or in progress,    *)
(*           failed, a runtime step, a test or a build, a change of a file     *)
(*   paths   the paths it names                                                *)
(*   failed  {n} when its output counts n failures, else {}                    *)
(* A limit that the policy leaves null is one beyond the events of a run.      *)
EXTENDS Naturals, Sequences, FiniteSets, SequencesExt

CONSTANTS
    Limit,              \* repeatedSignatureLimit
    MaxSteps,           \* maxRuntimeSteps
    Every,              \* other settled events to a checkpoint: 4 in the code
    Protected, Allowed  \* paths of the contract

Events ==
    [sigs : Seq(STRING), print : STRING, done : BOOLEAN, error : BOOLEAN, counts : BOOLEAN,
     test : BOOLEAN, file : BOOLEAN, paths : SUBSET STRING, failed : SUBSET Nat]

(* A snapshot is its evidence key: what evidenceKey compares. *)
New ==
    [snaps |-> <<>>, risk |-> 0, rising |-> 0, same |-> 0, last |-> "none", streak |-> 0,
     steps |-> 0, others |-> 0, failures |-> 0, changed |-> {}, consumer |-> TRUE,
     state |-> "unknown", stop |-> "none", armed |-> TRUE, leased |-> {}, seen |-> <<>>]

Finish(m, reason) ==
    IF m.stop # "none" THEN m
    ELSE [m EXCEPT !.stop = reason, !.state = "terminal", !.armed = FALSE]

Risk(paths) == IF Allowed = {} THEN 0 ELSE Cardinality(paths \ Allowed)

(* A mutant: an unchanged checkpoint is taken for progress. *)
CheckpointAlwaysProgress(m, paths, prints) ==
    LET s == [failed |-> m.failures, paths |-> paths, prints |-> prints, consumer |-> m.consumer]
    IN [m EXCEPT !.snaps = Append(@, s), !.same = 0, !.state = "progressing"]

(* checkpoint: the new snapshot is compared with the one before.  Work beyond  *)
(* the allowed paths that no failure less pays for is no progress.             *)
Checkpoint(m, paths, prints) ==
    LET s    == [failed |-> m.failures, paths |-> paths, prints |-> prints, consumer |-> m.consumer]
        risk == Risk(paths)
        next == [m EXCEPT !.snaps = Append(@, s), !.risk = risk]
        Progress(r) == [next EXCEPT !.same = 0, !.rising = r, !.state = "progressing"]
    IN IF m.snaps = <<>>
       THEN [next EXCEPT !.rising = IF risk > 0 THEN 1 ELSE @,
                         !.same = IF paths # {} THEN 0 ELSE 1,
                         !.state = IF paths # {} THEN "progressing" ELSE "unchanged"]
       ELSE IF s = Last(m.snaps) THEN [next EXCEPT !.same = @ + 1, !.state = "unchanged"]
       ELSE IF s.failed < Last(m.snaps).failed THEN [Progress(0) EXCEPT !.streak = 0]
       ELSE IF risk > m.risk
       THEN [next EXCEPT !.same = 0, !.rising = @ + 1, !.state = "unchanged"]
       ELSE Progress(IF risk < m.risk THEN 0 ELSE m.rising)

LastPrints(m) == IF m.snaps = <<>> THEN {} ELSE Last(m.snaps).prints
Prints(m, e)  == IF e.error THEN {e.print} ELSE LastPrints(m)

(* evidenceImproved: the last snapshot has fewer failures than the one before. *)
Improved(m) ==
    /\ Len(m.snaps) >= 2
    /\ Last(m.snaps).failed < m.snaps[Len(m.snaps) - 1].failed

(* noteSignature, for each signature of an event: "hit" when one is repeated   *)
(* to the limit.                                                               *)
Noted(m, sigs) ==
    LET Note(k, s) == LET n == IF s = k.last THEN k.streak + 1 ELSE 1
                      IN [last |-> s, streak |-> n, hit |-> k.hit \/ n >= Limit]
    IN FoldLeft(Note, [last |-> m.last, streak |-> m.streak, hit |-> FALSE], sigs)

Failures(m, e) ==
    CASE e.failed # {} -> CHOOSE n \in e.failed : TRUE
      [] e.failed = {} /\ e.error /\ e.test /\ m.failures = 0 -> 1
      [] OTHER -> m.failures

(* shouldCheckpoint: a change, a test, a repeated error, and every fourth of   *)
(* the other settled events.                                                   *)
IsOther(m, e) == e.done /\ ~e.file /\ ~e.test /\ ~(e.error /\ m.streak >= 2)
Due(m, e)     == e.done /\ (IsOther(m, e) => m.others = 0)

(* The state before the verdict on an event: its signatures, paths, failures   *)
(* and, when one is due, its checkpoint.                                       *)
Weighed(m, e) ==
    LET n == Noted(m, e.sigs)
        k == [m EXCEPT !.last = n.last, !.streak = n.streak, !.changed = @ \cup e.paths,
                       !.failures = Failures(m, e)]
        w == [k EXCEPT !.others = IF IsOther(k, e) THEN (@ + 1) % Every ELSE @]
    IN IF Due(w, e) THEN Checkpoint(w, e.paths, Prints(w, e)) ELSE w

(* The verdict on an event that no step limit and no protected path ended. *)
Judged(m, e) ==
    LET k    == Weighed(m, e)
        due  == Len(k.snaps) > Len(m.snaps)
        hit  == Noted(m, e.sigs).hit
        As(state) == [k EXCEPT !.state = state]
    IN IF k.rising >= Limit THEN Finish(k, "scope_drift")
       ELSE IF due /\ k.same >= Limit THEN Finish(k, "no_evidence_progress")
       ELSE IF hit THEN IF Improved(k) THEN As("progressing") ELSE Finish(k, "repeated_signature")
       ELSE IF due /\ k.same + 1 = Limit THEN As("unchanged")
       ELSE IF k.streak + 1 = Limit \/ k.snaps = <<>> THEN k
       ELSE IF Improved(k) \/ k.state = "progressing" \/ k.same = 0 THEN As("progressing")
       ELSE As("unchanged")

(* observe: the step limit, then protected paths, then the evidence. *)
Observe(m, e) ==
    LET k == [m EXCEPT !.steps = @ + (IF e.counts THEN Len(e.sigs) ELSE 0)]
    IN IF m.stop # "none" THEN m
       ELSE IF e.counts /\ k.steps > MaxSteps THEN Finish(k, "runtime_step_limit")
       ELSE IF e.paths \cap Protected # {}
       THEN Finish(Checkpoint(k, e.paths, Prints(k, e)), "protected_violation")
       ELSE Judged(k, e)

(* The timer's tick: a checkpoint of all that has changed so far. *)
Ticked(m) ==
    LET k == Checkpoint(m, m.changed, LastPrints(m))
    IN IF k.same >= Limit THEN Finish(k, "no_evidence_progress") ELSE k

(* A fingerprint of the worktree is captured, or not; then the last three      *)
(* distinct ones are looked at.                                                *)
Captured(m, print) ==
    LET seen == IF print = "none" \/ (m.seen # <<>> /\ Last(m.seen) = print) THEN m.seen
                ELSE Append(m.seen, print)
        n    == Len(seen)
        k    == [m EXCEPT !.seen = seen]
    IN IF n >= 3 /\ seen[n] = seen[n - 2] /\ seen[n] # seen[n - 1]
       THEN Finish(k, "state_oscillation") ELSE k

(* consumeProgressLease: the checkpoint that a longer deadline may rest on. *)
Leasable(m) ==
    m.stop = "none" /\ m.state = "progressing" /\ m.snaps # <<>> /\ Len(m.snaps) \notin m.leased
Leased(m) == [m EXCEPT !.leased = @ \cup {Len(m.snaps)}]
=============================================================================
