------------------------------ MODULE MCAttempts ------------------------------
(* Small instances of the components of Attempts, and every short history of *)
(* messages for the detector of a team.                                      *)
EXTENDS Attempts, TLC

CONSTANTS n1, n2,                     \* RepairTournament
          r1, r2,                     \* EvolutionHistory
          p1, p2, p3,                 \* SharedTools
          one, two,                   \* WorkerTurn
          a, b, e, x, y               \* AnomalyDetector: workers, contents

(* One node fails, and every family runs; two fail, and history prunes some  *)
(* or all of their families.  The first node depends on a task that was      *)
(* started twice.                                                            *)
MCNodes == {n1, n2}
MCMutants == {"context", "strategy"}
MCHistories ==
    {n1 :> {}, n1 :> MCMutants @@ n2 :> MCMutants,
     n1 :> {"control", "strategy"} @@ n2 :> {"control"} \cup MCMutants}

(* Two runs, and beside their recorder: live saves of stale outboxes;        *)
(* queries; refreshes with delivered, missing and pending transitions.       *)
MCRuns == {r1, r2}
Of(v, w) == r1 :> v @@ r2 :> w
Rejected == <<"executed", "rejected">>
MCLives ==
    {[beside |-> "save", life |-> Of(<<"executed", "verified">>, <<"executed">>),
      told |-> Of(0, 0), untold |-> Of(0, 0)],
     [beside |-> "query", life |-> Of(Rejected, <<>>),
      told |-> Of(0, 0), untold |-> Of(0, 0)],
     [beside |-> "refresh", life |-> Of(Rejected, <<"executed", "promoted">>),
      told |-> Of(2, 1), untold |-> Of(0, 0)],
     [beside |-> "refresh", life |-> Of(Rejected, <<"executed", "verified", "rolled_back">>),
      told |-> Of(0, 2), untold |-> Of(2, 0)]}

(* Two claims with a completion, beside a report; two registrations beside   *)
(* an artifact and a log entry; a finalization beside a publication, a       *)
(* rejection and a plan.                                                     *)
MCProcs == {p1, p2, p3}
CallsOf(first, second, third) == p1 :> first @@ p2 :> second @@ p3 :> third
MCWorks ==
    {CallsOf({"claim"}, {"claim", "complete"}, {"progress"}),
     CallsOf({"register", "artifact"}, {"register", "log"}, {}),
     CallsOf({"finalize", "publish"}, {"stage", "reject", "submit_plan"}, {})}

(* What a worker emits: a call, a batch of the same call, one in progress, a   *)
(* test that counts its failures or breaks, and changes in the allowed paths,  *)
(* beyond them and in a protected one.                                         *)
Event(name, kind, paths, failed, error) ==
    [sigs |-> <<name>>, print |-> name, done |-> TRUE, error |-> error,
     counts |-> kind # "file", test |-> kind = "test", file |-> kind = "file",
     paths |-> paths, failed |-> failed]
Read    == Event("read", "tool", {}, {}, FALSE)
Batch   == [Read EXCEPT !.print = "batch", !.sigs = <<"read", "read">>]
Wait    == [Event("wait", "tool", {}, {}, FALSE) EXCEPT !.done = FALSE, !.counts = FALSE]
Test(n) == Event("test", "test", {}, {n}, TRUE)
Breaks  == Event("breaks", "test", {}, {}, TRUE)
Edit    == Event("edit", "file", {"in"}, {}, FALSE)
Drift   == Event("drift", "file", {"out"}, {}, FALSE)
Stray   == Event("stray", "file", {"out", "beyond"}, {}, FALSE)
Touch   == Event("touch", "file", {"guarded"}, {}, FALSE)
MCProtected == {"guarded"}
MCAllowed == {"in"}

(* Seven turns: a repair candidate's calls that repeat themselves; work that    *)
(* progresses or does not, with extensions; changes back and forth; changes    *)
(* beyond the allowed paths; faults, in a run that may end at any time; and    *)
(* extensions of a worker that nobody watches, with healing and without.       *)
Quiet == [emits |-> {Edit}, trees |-> {one}, events |-> 1, ticks |-> 0, asks |-> 0,
          faults |-> 0, base |-> 1, time |-> 1, healing |-> "on", repair |-> FALSE,
          late |-> FALSE]
MCSettings ==
    {[Quiet EXCEPT !.emits = {Read, Batch, Wait, Breaks}, !.events = 3, !.asks = 1,
                   !.repair = TRUE],
     [Quiet EXCEPT !.emits = {Edit, Test(1), Test(2)}, !.events = 2, !.ticks = 1, !.asks = 2],
     [Quiet EXCEPT !.trees = {one, two}, !.events = 3],
     [Quiet EXCEPT !.emits = {Drift, Stray, Touch}, !.events = 2],
     [Quiet EXCEPT !.faults = 2, !.time = 2, !.late = TRUE, !.ticks = 1, !.asks = 1]}
        \cup {[Quiet EXCEPT !.healing = h, !.time = 3, !.asks = 2, !.faults = 1] :
                 h \in {"bare", "off"}}

(* Two workers volley with two contents; a third wakes one of them with always
   the same content; a quiet note is ignored. *)
MCWorkers == {a, b, e}
MCBodies == {x, y}
MCMessages ==
    [from : {a}, to : {b}, kind : {"wakeup"}, body : {x, y}]
        \cup [from : {b}, to : {a}, kind : {"wakeup"}, body : {x, y}]
        \cup [from : {e}, to : {a}, kind : {"wakeup"}, body : {x}]
        \cup [from : {b}, to : {a}, kind : {"quiet"}, body : {x}]

(* A component that is not at work starts in one way only. *)
OneStart(units) ==
    /\ unit \in units /\ Starts
    /\ unit = "tournament" \/ history = CHOOSE h \in Histories : TRUE
    /\ unit = "history" \/ LET h == CHOOSE h \in Lives : TRUE
                           IN /\ life = h.life /\ beside = h.beside
                              /\ done = [r \in Runs |-> h.told[r] + h.untold[r]]
    /\ unit = "shared" \/ todo = CHOOSE works \in Works : TRUE
    /\ unit = "turn" \/ left = CHOOSE setting \in Settings : setting.trees = {one}
    /\ unit = "exec" \/ backend = "host"

HealingSpec ==
    OneStart({"tournament", "history"}) /\ [][Next]_vars /\ T!Fairness
ToolsSpec ==
    /\ OneStart({"jobs", "shared", "detector", "turn", "exec"})
    /\ [][Next]_vars /\ J!Fairness /\ W!Fairness /\ X!Fairness
===============================================================================
