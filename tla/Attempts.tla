------------------------------ MODULE Attempts ------------------------------
(* What a worker's attempt meets, for any constants: its turn under the       *)
(* monitor or on the exec backend, the jobs and the shared files of its       *)
(* tools, the loop detector of its team, the tournament that repairs its      *)
(* failure, and the history that records it.  A behaviour is one of these, in *)
(* which the others stand still.                                              *)
EXTENDS Naturals, Sequences, FiniteSets

CONSTANTS
    GraphNodes, NoNode, Mutants, Histories, Doubled, MayStop,         \* RepairTournament
    Runs, NoOne, Lives, SoundRuns, PageSize, MaxPending, MaxFaults,   \* EvolutionHistory
    Jobs, Waits, MaxRunning, MaxKept,                                 \* ToolJobs
    Procs, NoProc, Works, MaxCrashes,                                 \* SharedTools
    Settings, Limit, MaxSteps, Every, Protected, Allowed,             \* WorkerTurn
    Cancels, MaxTroubles,                                             \* ExecRunner
    Workers, Bodies, MinVolleys, RepeatThreshold,                     \* AnomalyDetector
    Messages, MaxHistory                                              \* what it may observe

VARIABLES
    unit,
    node, diagnosis, phase, fence, tour, winner, cand, step, settling, integrated, replanned,
    history, control,
    life, done, outbox, live, chain, manifest, mutex, fl, rec, checkpoint, index, query, beside,
    faults,
    status, child, kill, timer, ended, waiting, past, terminal, server,
    call, at, seen, todo, answers, lock, stale, file, log, hub, proposal, impacts, alive, robbed,
    left, mon, tree, captures, session, barrier, race, watch, turn, outcome, quiesced, clock,
    ruling, sweep, active, unproven, found,
    backend, place, verdict, process, signals, force, box, removal, causes, calls, troubles,
    observed, detector

T == INSTANCE RepairTournament WITH Nodes <- GraphNodes
E == INSTANCE EvolutionHistory WITH Sound <- SoundRuns, Page <- PageSize
J == INSTANCE ToolJobs
S == INSTANCE SharedTools
W == INSTANCE WorkerTurn WITH control <- ruling, faults <- found
X == INSTANCE ExecRunner
D == INSTANCE AnomalyDetector

(* What the components ask of their constants. *)
ASSUME TournamentsAssumption == T!TournamentAssumption
ASSUME HistoriesAssumption == E!HistoryAssumption
ASSUME SharedAssumption == S!ToolsAssumption
ASSUME TurnsAssumption == W!WatchAssumption
ASSUME DetectorsAssumption ==
    /\ MinVolleys \in Nat \ {0} /\ RepeatThreshold \in Nat \ {0} /\ NoOne \notin Workers
    /\ Messages \subseteq D!Message

tournamentVars == <<node, diagnosis, phase, fence, tour, winner, cand, step, settling, integrated,
                    replanned, history, control>>
historyVars == <<life, done, outbox, live, chain, manifest, mutex, fl, rec, checkpoint, index,
                 query, beside, faults>>
jobVars     == <<status, child, kill, timer, ended, waiting, past, terminal, server>>
sharedVars  == <<call, at, seen, todo, answers, lock, stale, file, log, hub, proposal, impacts,
                 alive, robbed>>
turnVars    == <<left, mon, tree, captures, session, barrier, race, watch, turn, outcome, quiesced,
                 clock, ruling, sweep, active, unproven, found>>
execVars    == <<backend, place, verdict, process, signals, force, box, removal, causes, calls,
                 troubles>>
detectorVars == <<observed, detector>>
vars == <<unit, tournamentVars, historyVars, jobVars, sharedVars, turnVars, execVars, detectorVars>>

(* A detector that observes up to MaxHistory messages, in any order. *)
DetectorInit == observed = <<>> /\ detector = D!NewDetector

DetectorNext ==
    /\ Len(observed) < MaxHistory
    /\ \E m \in Messages :
          /\ observed' = Append(observed, m)
          /\ detector' = D!Observe(detector, m)

Starts == T!Init /\ E!Init /\ J!Init /\ S!Init /\ W!Init /\ X!Init /\ DetectorInit

Init ==
    unit \in {"tournament", "history", "jobs", "shared", "turn", "exec", "detector"} /\ Starts

Next ==
    /\ UNCHANGED unit
    /\ \/ /\ unit = "tournament" /\ T!Next
          /\ UNCHANGED <<historyVars, jobVars, sharedVars, turnVars, execVars, detectorVars>>
       \/ /\ unit = "history" /\ E!Next
          /\ UNCHANGED <<tournamentVars, jobVars, sharedVars, turnVars, execVars, detectorVars>>
       \/ /\ unit = "jobs" /\ J!Next
          /\ UNCHANGED <<tournamentVars, historyVars, sharedVars, turnVars, execVars, detectorVars>>
       \/ /\ unit = "shared" /\ S!Next
          /\ UNCHANGED <<tournamentVars, historyVars, jobVars, turnVars, execVars, detectorVars>>
       \/ /\ unit = "turn" /\ W!Next
          /\ UNCHANGED <<tournamentVars, historyVars, jobVars, sharedVars, execVars, detectorVars>>
       \/ /\ unit = "exec" /\ X!Next
          /\ UNCHANGED <<tournamentVars, historyVars, jobVars, sharedVars, turnVars, detectorVars>>
       \/ /\ unit = "detector" /\ DetectorNext
          /\ UNCHANGED <<tournamentVars, historyVars, jobVars, sharedVars, turnVars, execVars>>

(* No action that a component is fair to is enabled in its Init: those that *)
(* stand still meet their fairness.                                         *)
Spec == Init /\ [][Next]_vars /\ T!Fairness /\ J!Fairness /\ W!Fairness /\ X!Fairness

(* The fence stands exactly while its tournament runs, what is promoted beat *)
(* a failed control, twice verified, and both are about the node that was    *)
(* diagnosed (RepairTournament).                                             *)
TournamentsAreFair == T!FenceStandsForOne /\ T!PromotedEarnedIt /\ T!RepairIsCurrent

(* A repair that began comes to an end (RepairTournament). *)
RepairsEnd == T!RepairsEnd

(* What is marked delivered is in the chain, and only sound, rejected,      *)
(* recorded trials prune (EvolutionHistory).                                *)
HistoryIsSound == E!DeliveredIsRecorded /\ E!PrunedForCause

(* A pending entry stays until it is delivered, and an answer has every     *)
(* record due when it was asked for (EvolutionHistory).                     *)
HistoryIsWhole == E!EntriesStay /\ E!AnswerIsWhole

(* A job ends once, with its first verdict (ToolJobs). *)
JobsEndOnce == J!VerdictStays

(* What a call answered ok wrote is in the shared file, unless its lock was    *)
(* taken from a living server; and what the code says it keeps: in every file. *)
UpdatesAreKept == S!UpdatesAreKept
UpdatesAreSerial == S!UpdatesAreSerial

(* The i-th message is a wakeup that was sent RepeatThreshold times by then. *)
Repeats(h, i) ==
    h[i].kind = "wakeup" /\ Cardinality({j \in 1 .. i : h[j] = h[i]}) >= RepeatThreshold

(* The wakeups from the k-th message on that are not caught as repeats. *)
Counted(h, k, i) == {j \in k .. i : h[j].kind = "wakeup" /\ ~ Repeats(h, j)}

Reverses(m, n) == m.from = n.to /\ m.to = n.from

Alternate(h, Z) ==
    \A j, k \in Z : j < k /\ (\A z \in Z : z <= j \/ k <= z) => Reverses(h[j], h[k])

(* The i-th message ends a stretch of MinVolleys wakeups that alternate, *)
(* whatever repeats and notes come between.                              *)
Volleys(h, i) ==
    /\ i \in Counted(h, i, i)
    /\ \E k \in 1 .. i : /\ Alternate(h, Counted(h, k, i))
                         /\ Cardinality(Counted(h, k, i)) >= MinVolleys

(* The pairs that are downgraded are those of which a wakeup was repeated up *)
(* to the threshold, or ended as many volleys as it takes: the observations  *)
(* between, before and after make no difference (AnomalyDetector).           *)
DowngradedForCause ==
    detector.downgraded =
        {D!PairKey(observed[i]) :
            i \in {k \in DOMAIN observed : Repeats(observed, k) \/ Volleys(observed, k)}}

(* Time is given for progress only (WorkerTurn). *)
LeaseIsEarned == W!LeaseIsEarned

(* A runtime is released when its child is gone (WorkerTurn), and a process is *)
(* said to be cancelled when it is (ExecRunner).                               *)
GoneWhenSaid == W!ReleasedWhenGone /\ []X!CancelProves

(* Every turn that began comes to an end, of either backend, and every job  *)
(* of a server whose client has left (WorkerTurn, ExecRunner, ToolJobs).    *)
TurnsEnd == W!TurnEnds /\ X!RunEnds /\ J!ChildrenEndWithServer

(* A session that was quiesced has no child (WorkerTurn). *)
QuiescedIsStill == W!QuiescedIsStill
=============================================================================
