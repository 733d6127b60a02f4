-------------------------- MODULE RepairTournament --------------------------
(***************************************************************************)
(* Self-healing of one run: a failed subtask is claimed and diagnosed      *)
(* (healing-coordinator.ts), then repaired by a tournament of candidates   *)
(* behind the run's one repair fence (repair-tournament.ts), whose winner  *)
(* is settled like any contribution.  A mutateHealing is one step, on disk *)
(* and in memory; everything between two of them is interleaved.           *)
(***************************************************************************)
EXTENDS Naturals, FiniteSets

CONSTANTS
    Nodes, NoNode,
    Mutants,            \* the families beside "control"
    Histories,          \* each gives the nodes that fail the families to prune
    Doubled,            \* the nodes of which a producer was started twice
    MayStop             \* the run may end, the server restart

Families == {"control"} \cup Mutants

TournamentAssumption == NoNode \notin Nodes /\ "control" \notin Mutants

VARIABLES
    node,       \* node.state
    diagnosis,  \* of the node: none, claimed, available, unavailable
    phase,      \* where settleAndHealProjectWave is with the node
    fence,      \* healing.repairGraphFence, by the node of its tournament
    tour,       \* tournament.status, "none" before it is declared
    winner,     \* tournament.winnerCandidateId
    cand,       \* the candidates
    step,       \* executeOne of a candidate
    settling,   \* the node whose contribution holds the authority lock
    integrated, \* canonical holds the node's repair
    replanned,  \* node.revision went on after its worker failed
    history,    \* the families that history matches exactly
    control     \* RunControl: active, terminal; or the server is down

vars == <<node, diagnosis, phase, fence, tour, winner, cand, step, settling, integrated,
          replanned, history, control>>

Verdicts == {"pass", "gate", "authority"}
Candidate == [state : {"none", "declared", "pruned_duplicate", "admitted", "running",
                       "verifying", "verified", "rejected", "cancelled", "not_started",
                       "promotion_pending", "promoted", "rolled_back"},
              first : Verdicts \cup {"none"}, second : Verdicts \cup {"none"},
              progress : 0 .. 1, cost : 0 .. 1,
              blamed : BOOLEAN]     \* terminalReason # null
NoCandidate == [state |-> "none", first |-> "none", second |-> "none", progress |-> 0,
                cost |-> 0, blamed |-> FALSE]

TypeOK ==
    /\ node \in [Nodes -> {"running", "failed", "repairing", "verifying", "integrating",
                           "completed", "cancelled", "blocked"}]
    /\ diagnosis \in [Nodes -> {"none", "claimed", "available", "unavailable"}]
    /\ phase \in [Nodes -> {"idle", "claim", "diagnose", "attach", "start", "freeze", "declare",
                            "bind", "prune", "admit", "launch", "race", "rank", "promote",
                            "squashed", "settle", "integrate", "finish", "done"}]
    /\ fence \in Nodes \cup {NoNode}
    /\ tour \in [Nodes -> {"none", "running", "promotion_pending", "promoted", "failed",
                           "rolled_back", "cancelled"}]
    /\ winner \in [Nodes -> Families \cup {"none"}]
    /\ cand \in [Nodes -> [Families -> Candidate]]
    /\ step \in [Nodes -> [Families -> {"none", "run", "first", "second", "ended", "thrown"}]]
    /\ settling \in Nodes \cup {NoNode}
    /\ integrated \in [Nodes -> BOOLEAN] /\ replanned \in [Nodes -> BOOLEAN]
    /\ control \in {"active", "terminal", "down"}

Init ==
    /\ node = [n \in Nodes |-> "running"] /\ diagnosis = [n \in Nodes |-> "none"]
    /\ phase = [n \in Nodes |-> "idle"] /\ fence = NoNode
    /\ tour = [n \in Nodes |-> "none"] /\ winner = [n \in Nodes |-> "none"]
    /\ cand = [n \in Nodes |-> [f \in Families |-> NoCandidate]]
    /\ step = [n \in Nodes |-> [f \in Families |-> "none"]]
    /\ settling = NoNode /\ integrated = [n \in Nodes |-> FALSE]
    /\ replanned = [n \in Nodes |-> FALSE]
    /\ history \in Histories /\ control = "active"

At(n, p) == phase[n] = p /\ control # "down"
To(n, p) == phase' = [phase EXCEPT ![n] = p]
Unlocked == settling = NoNode
Active   == control = "active"

tournamentVars == <<fence, tour, winner, cand, step>>
outsideVars    == <<integrated, replanned, history, control>>

(***************************************************************************)
(* The worker fails (classifyReturnedWorker has recorded its fault), the   *)
(* coordinator claims the node and diagnoses it outside the lock.          *)
(***************************************************************************)
WorkerFails(n) ==
    /\ At(n, "idle") /\ Active /\ n \in DOMAIN history
    /\ To(n, "claim")
    /\ UNCHANGED <<node, diagnosis, tournamentVars, settling, outsideVars>>

Claim(n) ==
    /\ At(n, "claim") /\ Unlocked
    /\ node' = [node EXCEPT ![n] = IF @ \in {"running", "blocked"} THEN "failed" ELSE @]
    /\ IF Active /\ ~replanned[n]
       THEN diagnosis' = [diagnosis EXCEPT ![n] = "claimed"] /\ To(n, "diagnose")
       ELSE UNCHANGED diagnosis /\ To(n, "done")
    /\ UNCHANGED <<tournamentVars, settling, outsideVars>>

Diagnose(n) ==
    /\ At(n, "diagnose")
    /\ \E result \in IF Active THEN {"available", "unavailable"} ELSE {"unavailable"} :
          diagnosis' = [diagnosis EXCEPT ![n] = result]
    /\ To(n, "attach")
    /\ UNCHANGED <<node, tournamentVars, settling, outsideVars>>

(* What the diagnosis was made for may have changed meanwhile: then it is not  *)
(* attached.                                                                   *)
Attach(n) ==
    /\ At(n, "attach") /\ Unlocked
    /\ IF replanned[n] \/ node[n] = "cancelled"
       THEN /\ diagnosis' = [diagnosis EXCEPT ![n] = IF replanned[n] THEN "none" ELSE "claimed"]
            /\ To(n, "done") /\ UNCHANGED node
       ELSE /\ node' = [node EXCEPT ![n] = "failed"]
            /\ To(n, IF diagnosis[n] = "available" THEN "start" ELSE "done")
            /\ UNCHANGED diagnosis
    /\ UNCHANGED <<tournamentVars, settling, outsideVars>>

(***************************************************************************)
(* A task that was started twice fails its second start: its dependents    *)
(* are blocked, whatever became of them since the first (blockDependents). *)
(* A dispatch that depends on a blocked node re-plans it, unless a repair  *)
(* has frozen the graph (LiveDagAdmission).                                *)
(***************************************************************************)
Block(n) ==
    /\ n \in Doubled /\ control # "down"
    /\ node[n] \notin {"completed", "cancelled", "blocked"}
    /\ node' = [node EXCEPT ![n] = "blocked"]
    /\ UNCHANGED <<diagnosis, phase, tournamentVars, settling, outsideVars>>

(* A mutant: the graph is not frozen by a fence. *)
ReplanUnfrozen(n) ==
    /\ Active /\ Unlocked
    /\ node[n] = "blocked" /\ phase[n] # "idle"
    /\ replanned' = [replanned EXCEPT ![n] = TRUE]
    /\ UNCHANGED <<node, diagnosis, phase, tournamentVars, settling, integrated, history, control>>

Replan(n) ==
    /\ Active /\ Unlocked /\ fence = NoNode
    /\ node[n] = "blocked" /\ phase[n] # "idle"
    /\ replanned' = [replanned EXCEPT ![n] = TRUE]
    /\ UNCHANGED <<node, diagnosis, phase, tournamentVars, settling, integrated, history, control>>

(***************************************************************************)
(* run: an active fence denies the repair; the failed attempt is frozen    *)
(* and the tournament declared, where the fence is read again, and the     *)
(* node's revision.                                                        *)
(***************************************************************************)
EndsAs(n, state) == node' = [node EXCEPT ![n] = IF replanned[n] THEN @ ELSE state]

EndUndeclared(n) ==
    /\ EndsAs(n, "failed")
    /\ To(n, "done")
    /\ UNCHANGED <<tournamentVars, settling>>

Start(n) ==
    /\ At(n, "start") /\ Unlocked
    /\ To(n, IF fence # NoNode THEN "done" ELSE "freeze")
    /\ UNCHANGED <<node, diagnosis, tournamentVars, settling, outsideVars>>

Freeze(n) ==
    /\ At(n, "freeze")
    /\ \/ Active /\ To(n, "declare") /\ UNCHANGED <<node, tournamentVars, settling>>
       \/ Unlocked /\ EndUndeclared(n)
    /\ UNCHANGED <<diagnosis, outsideVars>>

DeclareUnfenced(n) ==
    /\ At(n, "declare") /\ Unlocked
    /\ fence' = n /\ tour' = [tour EXCEPT ![n] = "running"]
    /\ cand' = [cand EXCEPT ![n] = [f \in Families |-> [NoCandidate EXCEPT !.state = "declared"]]]
    /\ node' = [node EXCEPT ![n] = "repairing"]
    /\ To(n, "bind")
    /\ UNCHANGED <<diagnosis, winner, step, settling, outsideVars>>

Declare(n) ==
    /\ At(n, "declare") /\ Unlocked
    /\ IF fence # NoNode \/ replanned[n]
       THEN To(n, "done") /\ UNCHANGED <<fence, tour, cand, node>>
       ELSE /\ fence' = n /\ tour' = [tour EXCEPT ![n] = "running"]
            /\ cand' = [cand EXCEPT ![n] =
                          [f \in Families |-> [NoCandidate EXCEPT !.state = "declared"]]]
            /\ node' = [node EXCEPT ![n] = "repairing"]
            /\ To(n, "bind")
    /\ UNCHANGED <<diagnosis, winner, step, settling, outsideVars>>

(***************************************************************************)
(* finish: one step under the lock ends the tournament, releases the fence *)
(* and settles the node.                                                   *)
(***************************************************************************)
Swept(c) == IF c.state \in {"running", "admitted", "declared"}
            THEN [c EXCEPT !.state = "cancelled"] ELSE c

Finish(n, status) ==
    /\ Unlocked /\ fence = n
    /\ tour' = [tour EXCEPT ![n] = status]
    /\ fence' = NoNode
    /\ EndsAs(n, IF status = "promoted" THEN "completed" ELSE "failed")
    /\ cand' = [cand EXCEPT ![n] = [f \in Families |->
                  IF status = "cancelled" THEN Swept(cand[n][f])
                  ELSE IF f = winner[n] /\ status \in {"promoted", "rolled_back"}
                       THEN [cand[n][f] EXCEPT !.state = status]
                  ELSE cand[n][f]]]
    /\ To(n, "done")
    /\ UNCHANGED <<diagnosis, winner, step, settling, outsideVars>>

(* Binding the checkpoint to the fence may fail; so may, later, creating a *)
(* candidate's workspace.                                                  *)
BindCheckpoint(n) ==
    /\ At(n, "bind")
    /\ \/ Active /\ To(n, "prune")
          /\ UNCHANGED <<node, diagnosis, tournamentVars, settling, outsideVars>>
       \/ Finish(n, "failed")
       \/ ~Active /\ Finish(n, "cancelled")

(* A candidate that trusted history has seen fail is not run again. *)
Prune(n) ==
    /\ At(n, "prune")
    /\ IF history[n] = Families THEN Finish(n, "failed")
       ELSE /\ cand' = [cand EXCEPT ![n] = [f \in Families |->
                          IF f \in history[n] THEN [@[f] EXCEPT !.state = "pruned_duplicate"]
                          ELSE @[f]]]
            /\ To(n, "admit")
            /\ UNCHANGED <<node, diagnosis, fence, tour, winner, step, settling, outsideVars>>

ToRun(n) == Families \ history[n]

Admit(n) ==
    /\ At(n, "admit")
    /\ \/ /\ Active
          /\ \E f \in ToRun(n) :
                /\ cand[n][f].state = "declared"
                /\ f = "control" \/ "control" \notin {g \in ToRun(n) : cand[n][g].state = "declared"}
                /\ cand' = [cand EXCEPT ![n][f].state = "admitted"]
                /\ To(n, IF \A g \in ToRun(n) \ {f} : cand[n][g].state = "admitted"
                         THEN "launch" ELSE "admit")
          /\ UNCHANGED <<node, diagnosis, fence, tour, winner, step, settling, outsideVars>>
       \/ Finish(n, "failed")
       \/ ~Active /\ Finish(n, "cancelled")

(* A stop between two launches waits for the candidates already running. *)
Launch(n) ==
    /\ At(n, "launch")
    /\ \/ /\ Active
          /\ \E f \in ToRun(n) :
                /\ cand[n][f].state = "admitted"
                /\ f = "control" \/ "control" \notin {g \in ToRun(n) : cand[n][g].state = "admitted"}
                /\ cand' = [cand EXCEPT ![n][f].state = "running"]
                /\ step' = [step EXCEPT ![n][f] = "run"]
                /\ To(n, IF \A g \in ToRun(n) \ {f} : cand[n][g].state # "admitted"
                         THEN "race" ELSE "launch")
          /\ UNCHANGED <<node, diagnosis, fence, tour, winner, settling, outsideVars>>
       \/ /\ ~Active /\ \A f \in Families : step[n][f] \in {"none", "ended", "thrown"}
          /\ Finish(n, "cancelled")

(***************************************************************************)
(* executeOne of a candidate: its turn, then the two verifications, each   *)
(* only while the run is active and behind the same fence.                 *)
(***************************************************************************)
Patch(n, f, c, s) == /\ cand' = [cand EXCEPT ![n][f] = c]
                     /\ step' = [step EXCEPT ![n][f] = s]
                     /\ UNCHANGED <<node, diagnosis, phase, fence, tour, winner, settling, outsideVars>>
Onward(s) == IF Active THEN s ELSE "thrown"

TurnEnds(n, f) ==
    /\ step[n][f] = "run" /\ control # "down"
    /\ LET c == cand[n][f] IN
       \/ Patch(n, f, [c EXCEPT !.state = "verifying"], Onward("first"))
       \/ Patch(n, f, [c EXCEPT !.state = "rejected", !.blamed = TRUE], "ended")
       \/ ~Active /\ Patch(n, f, [c EXCEPT !.state = "cancelled", !.blamed = TRUE], "ended")

VerifyFirst(n, f) ==
    /\ step[n][f] = "first" /\ control # "down" /\ Unlocked
    /\ LET c == cand[n][f] IN
       \/ /\ fence = n
          /\ \E v \in Verdicts :
                IF v # "pass" /\ f # "control"
                THEN Patch(n, f, [c EXCEPT !.first = v, !.state = "rejected",
                                           !.blamed = (v = "gate")], "ended")
                ELSE Patch(n, f, [c EXCEPT !.first = v], Onward("second"))
       \/ Patch(n, f, [c EXCEPT !.state = "rejected", !.blamed = TRUE], "ended")
       \/ ~Active /\ Patch(n, f, c, "thrown")

VerifySecond(n, f) ==
    /\ step[n][f] = "second" /\ control # "down" /\ Unlocked
    /\ LET c == cand[n][f] IN
       \/ /\ fence = n
          /\ \E v \in Verdicts, p, r \in 0 .. 1 :
                /\ f = "control" => r = 0
                /\ v # "pass" => p = 0 /\ r = 0
                /\ LET passed == c.first = "pass" /\ v = "pass" IN
                   Patch(n, f, [c EXCEPT !.second = v, !.progress = p, !.cost = r,
                                         !.state = IF passed THEN "verified" ELSE "rejected",
                                         !.blamed = ~passed /\ f # "control" /\ v = "gate"],
                         "ended")
       \/ Patch(n, f, [c EXCEPT !.state = "rejected", !.blamed = TRUE], "ended")
       \/ ~Active /\ Patch(n, f, c, "thrown")

(***************************************************************************)
(* The race ends with the run or with the last candidate.                  *)
(***************************************************************************)
AllEnded(n) == \A f \in ToRun(n) : step[n][f] \in {"ended", "thrown"}

EndRace(n) ==
    /\ At(n, "race")
    /\ \/ ~Active /\ Finish(n, "cancelled")
       \/ /\ AllEnded(n)
          /\ IF \E f \in ToRun(n) : step[n][f] = "thrown" THEN Finish(n, "cancelled")
             ELSE /\ To(n, "rank")
                  /\ UNCHANGED <<node, diagnosis, tournamentVars, settling, outsideVars>>

(***************************************************************************)
(* selectWinner: a mutant must beat a comparable control, strictly, and    *)
(* be the only best one; otherwise the control stands for itself.          *)
(***************************************************************************)
ControlFailed(c) ==
    /\ c.state = "rejected" /\ ~c.blamed
    /\ \/ c.second = "gate"
       \/ c.second = "pass" /\ c.first = "gate"

Comparable(n) ==
    LET c == cand[n]["control"] IN
    c.state \in {"verified", "pruned_duplicate"} \/ ControlFailed(c)

Eligible(n) ==
    {f \in Mutants :
        /\ cand[n][f].state = "verified"
        /\ cand[n]["control"].state = "verified" =>
              cand[n][f].progress > cand[n]["control"].progress}

BeforeOf(a, b) == a.progress > b.progress \/ (a.progress = b.progress /\ a.cost < b.cost)

SoleBestOfAny(n) == LET all == {f \in Mutants : cand[n][f].state = "verified"} IN
                    {f \in all : \A g \in all \ {f} : BeforeOf(cand[n][f], cand[n][g])}

SoleBest(n) == {f \in Eligible(n) : \A g \in Eligible(n) \ {f} : BeforeOf(cand[n][f], cand[n][g])}

Selected(n) == IF Comparable(n) /\ SoleBest(n) # {} THEN CHOOSE f \in SoleBest(n) : TRUE
               ELSE "control"

Rank(n) ==
    /\ At(n, "rank")
    /\ IF cand[n][Selected(n)].state # "verified" THEN Finish(n, "failed")
       ELSE /\ cand' = [cand EXCEPT ![n][Selected(n)].state = "promotion_pending"]
            /\ tour' = [tour EXCEPT ![n] = "promotion_pending"]
            /\ winner' = [winner EXCEPT ![n] = Selected(n)]
            /\ To(n, "promote")
            /\ UNCHANGED <<node, diagnosis, fence, step, settling, outsideVars>>

(***************************************************************************)
(* The winner is squashed and settled under the authority lock, which      *)
(* checks the fence.  The node goes through verifying and integrating, and *)
(* each transition asks for the one before: a node that was blocked takes  *)
(* none, and ends its settlement where it is.                              *)
(***************************************************************************)
Squash(n) ==
    /\ At(n, "promote")
    /\ \/ Active /\ To(n, "squashed")
          /\ UNCHANGED <<node, diagnosis, tournamentVars, settling, outsideVars>>
       \/ Finish(n, "rolled_back")
       \/ ~Active /\ Finish(n, "cancelled")

Turns(n, from, to) == node' = [node EXCEPT ![n] = IF @ = from THEN to ELSE @]

Promote(n) ==
    /\ At(n, "squashed") /\ Unlocked
    /\ \/ /\ Active /\ fence = n
          /\ settling' = n
          /\ Turns(n, "repairing", "verifying")
          /\ To(n, "settle")
          /\ UNCHANGED <<diagnosis, tournamentVars, outsideVars>>
       \/ Finish(n, "rolled_back")
       \/ ~Active /\ Finish(n, "cancelled")

EnterIntegrating(n) ==
    /\ At(n, "settle") /\ node[n] = "verifying" /\ Active
    /\ Turns(n, "verifying", "integrating")
    /\ To(n, "integrate")
    /\ UNCHANGED <<diagnosis, tournamentVars, settling, outsideVars>>

(* A contribution is denied, rolled back, or integrated; what a cancellation   *)
(* meets after the decision is taken back, and cancels the node.               *)
Denied(n) ==
    /\ At(n, "settle") /\ Turns(n, "verifying", "failed")
    /\ UNCHANGED integrated

Decided(n) ==
    /\ At(n, "integrate")
    /\ \/ Turns(n, "integrating", "completed") /\ integrated' = [integrated EXCEPT ![n] = TRUE]
       \/ Turns(n, "integrating", "failed") /\ UNCHANGED integrated
       \/ ~Active /\ Turns(n, "integrating", "cancelled") /\ UNCHANGED integrated

SettleEndsLocked(n) ==
    /\ Denied(n) \/ Decided(n)
    /\ settling' = IF integrated'[n] THEN NoNode ELSE settling
    /\ To(n, "finish")
    /\ UNCHANGED <<diagnosis, tournamentVars, replanned, history, control>>

SettleEnds(n) ==
    /\ Denied(n) \/ Decided(n)
    /\ settling' = NoNode
    /\ To(n, "finish")
    /\ UNCHANGED <<diagnosis, tournamentVars, replanned, history, control>>

(* What is integrated while its node was blocked is no promotion. *)
FinishSettled(n) ==
    /\ At(n, "finish")
    /\ LET settled == integrated[n] /\ node[n] = "completed"
       IN \/ Finish(n, IF settled THEN "promoted" ELSE "rolled_back")
          \/ ~Active /\ ~settled /\ Finish(n, "cancelled")

(***************************************************************************)
(* The run is cancelled or meets its deadline; the server restarts and     *)
(* recoverHealingAfterRestart settles what was under way.                  *)
(***************************************************************************)
Stop == /\ MayStop /\ Active /\ control' = "terminal"
        /\ UNCHANGED <<node, diagnosis, phase, tournamentVars, settling, integrated, replanned,
                        history>>

Recovered(c) ==
    CASE c.state = "declared" -> [c EXCEPT !.state = "not_started", !.blamed = TRUE]
      [] c.state \in {"admitted", "running", "verifying", "promotion_pending"} ->
           [c EXCEPT !.state = "cancelled", !.blamed = TRUE]
      [] OTHER -> c

Restart ==
    /\ MayStop /\ control # "down" /\ control' = "down"
    /\ node' = [n \in Nodes |-> IF node[n] \in {"running", "repairing", "verifying", "integrating",
                                              "blocked"}
                                THEN "cancelled" ELSE node[n]]
    /\ tour' = [n \in Nodes |-> IF tour[n] \in {"running", "promotion_pending"} THEN "cancelled"
                                ELSE tour[n]]
    /\ fence' = IF fence # NoNode /\ tour[fence] \in {"running", "promotion_pending"}
                THEN NoNode ELSE fence
    /\ cand' = [n \in Nodes |-> [f \in Families |-> Recovered(cand[n][f])]]
    /\ UNCHANGED <<diagnosis, phase, winner, step, settling, integrated, replanned, history>>

Repair(n) ==
    \/ Claim(n) \/ Diagnose(n) \/ Attach(n) \/ Start(n) \/ Freeze(n) \/ Declare(n)
    \/ BindCheckpoint(n) \/ Prune(n) \/ Admit(n) \/ Launch(n) \/ EndRace(n) \/ Rank(n)
    \/ Squash(n) \/ Promote(n) \/ EnterIntegrating(n) \/ SettleEnds(n) \/ FinishSettled(n)
Execute(n, f) == TurnEnds(n, f) \/ VerifyFirst(n, f) \/ VerifySecond(n, f)

Next == \/ \E n \in Nodes : \/ WorkerFails(n) \/ Block(n) \/ Replan(n) \/ Repair(n)
                            \/ \E f \in Families : Execute(n, f)
        \/ Stop \/ Restart

(***************************************************************************)
(* Turns have a timeout (REPAIR_CANDIDATE_TIMEOUT_MS), verifications and   *)
(* the diagnosis a deadline; the lock is handed on in order.               *)
(***************************************************************************)
Fairness == \A n \in Nodes : /\ WF_vars(Repair(n))
                             /\ \A f \in Families : WF_vars(Execute(n, f))

Spec == Init /\ [][Next]_vars /\ Fairness

(***************************************************************************)
(* The fence stands exactly while its tournament runs, and only one does:  *)
(* also after a restart, and while a settlement holds the lock.            *)
(***************************************************************************)
FenceStandsForOne ==
    \A n \in Nodes : fence = n <=> tour[n] \in {"running", "promotion_pending"}

(***************************************************************************)
(* What is promoted is integrated, passed both verifications, was not      *)
(* matched by another mutant, and, if it is a mutant, was compared with a  *)
(* control that ran or that history knows, and is better than it.          *)
(***************************************************************************)
PromotedEarnedIt ==
    \A n \in Nodes : tour[n] = "promoted" =>
        LET w == cand[n][winner[n]]
            c == cand[n]["control"]
        IN  /\ integrated[n] /\ w.first = "pass" /\ w.second = "pass"
            /\ winner[n] # "control" =>
                  /\ "control" \in history[n] \/ (c.second # "none" /\ ~c.blamed)
                  /\ c.state = "verified" => w.progress > c.progress
                  /\ \A f \in Mutants \ {winner[n]} : cand[n][f].state = "verified" =>
                        BeforeOf(w, cand[n][f])

(***************************************************************************)
(* A repair acts for the node it was diagnosed for: from its declaration   *)
(* on, and once its winner was promoted, the node is not re-planned.       *)
(***************************************************************************)
RepairIsCurrent ==
    \A n \in Nodes : tour[n] \in {"running", "promotion_pending", "promoted"} => ~replanned[n]

(***************************************************************************)
(* A repair that began ends, and releases the fence, unless the server     *)
(* goes down.                                                              *)
(***************************************************************************)
RepairsEnd == \A n \in Nodes : (phase[n] = "claim") ~> (phase[n] = "done" \/ control = "down")
=============================================================================
