----------------------------- MODULE SessionEvents -----------------------------
(* The workers' part of the console's transcript (useSessionEvents.ts): one    *)
(* worker of each mission, read by the loop of an effect that runs again       *)
(* whenever the mission in view, or whether it is live, changes.               *)
EXTENDS RunEvents

CONSTANTS
    NoMission,      \* missions are named by their worker: Runs
    Settings,       \* bounds: events, views, troubles, restarts
    SettledRetries  \* SETTLED_RETRIES

SessionsAssumption ==
    /\ Page \in Nat /\ BufferSize \in Nat /\ SettledRetries \in Nat
    /\ NoMission \notin Runs
    /\ Settings \subseteq [events : Nat, views : Nat, troubles : Nat, restarts : Nat]

VARIABLES
    bounds,
    settled,    \* the missions whose leader has ended
    active,     \* leaderRunId and leaderRunning
    loop,       \* the running effect
    stale,      \* effects cancelled while they awaited an answer
    listed,     \* the mission whose worker runs are listed
    byRun,      \* cursors and byRun
    spent       \* views, troubles and restarts so far

hookVars == <<loop, stale, listed, byRun>>
vars == <<logVars, bounds, settled, active, hookVars, spent>>

NoView == [of |-> NoMission, live |-> FALSE]
Off   == [of |-> NoMission, live |-> FALSE, at |-> "off", busy |-> FALSE, after |-> 0, retries |-> 0]

Init ==
    /\ bounds \in Settings /\ most = bounds.events
    /\ settled = {CHOOSE r \in Runs : TRUE} /\ LogInit(settled, Runs \ settled)
    /\ active = NoView /\ loop = Off /\ stale = {} /\ listed = NoMission
    /\ byRun = [r \in Runs |-> Nothing]
    /\ spent = [views |-> 0, troubles |-> 0, restarts |-> 0]

Spend(kind) == spent[kind] < bounds[kind] /\ spent' = [spent EXCEPT ![kind] = @ + 1]

Server ==
    /\ \/ Emits /\ UNCHANGED <<settled, spent>>
       \/ Restart /\ Spend("restarts") /\ settled' = Runs
    /\ UNCHANGED <<bounds, active, hookVars>>

(* The leader of a mission ends. *)
Settle(r) ==
    /\ settled' = settled \cup {r}
    /\ UNCHANGED <<logVars, bounds, active, hookVars, spent>>

Awaiting(l) == l.at \in {"children", "page"}

(* The view moves to a mission or away from one, or learns that it has ended,  *)
(* which may be late: the effect before it is cancelled.                       *)
View(run) ==
    /\ run # active /\ active' = run
    /\ run.live \/ run.of \in settled \cup {NoMission}
    /\ IF run.of = active.of /\ ~run.live THEN UNCHANGED spent ELSE Spend("views")
    /\ stale' = stale \cup (IF Awaiting(loop) THEN {[of |-> loop.of, after |-> loop.after]} ELSE {})
    /\ loop' = IF run = NoView THEN Off
               ELSE [of |-> run.of, live |-> run.live, at |-> "children", busy |-> FALSE,
                     after |-> 0, retries |-> SettledRetries]
    /\ listed' = NoMission /\ byRun' = [r \in Runs |-> Nothing]
    /\ UNCHANGED <<logVars, bounds, settled>>

(* Its turn: the children, a page of each, and again while someone is busy. *)
Children ==
    /\ loop.at = "children"
    /\ listed' = loop.of
    /\ loop' = [loop EXCEPT !.at = "page", !.busy = status[loop.of] = "running",
                            !.after = byRun[loop.of].cursor]
    /\ UNCHANGED <<logVars, bounds, settled, active, stale, byRun, spent>>

Absorb ==
    /\ loop.at = "page"
    /\ byRun' = [byRun EXCEPT ![loop.of] = Merge(@, loop.of, Read(loop.of, loop.after))]
    /\ loop' = [loop EXCEPT !.at = IF loop.live \/ loop.busy THEN "sleep" ELSE "off", !.retries = SettledRetries]
    /\ UNCHANGED <<logVars, bounds, settled, active, stale, listed, spent>>

Tick ==
    /\ loop.at = "sleep" /\ loop' = [loop EXCEPT !.at = "children"]
    /\ UNCHANGED <<logVars, bounds, settled, active, stale, listed, byRun, spent>>

Fails ==
    /\ Awaiting(loop) /\ Spend("troubles")
    /\ loop' = [loop EXCEPT !.at = IF loop.live \/ loop.retries > 0 THEN "sleep" ELSE "failed",
                            !.retries = IF @ > 0 THEN @ - 1 ELSE 0]
    /\ UNCHANGED <<logVars, bounds, settled, active, stale, listed, byRun>>

(* A mutant: the flag is shared, and the next effect has put it back. *)
GoesOn(l) ==
    /\ listed' = l.of
    /\ byRun' = [byRun EXCEPT ![l.of] = Merge(@, l.of, Read(l.of, l.after))]

(* The answer to an effect that was cancelled meanwhile. *)
Discard(l) == UNCHANGED <<listed, byRun>>

Woken(l) ==
    /\ l \in stale /\ stale' = stale \ {l} /\ Discard(l)
    /\ UNCHANGED <<logVars, bounds, settled, active, loop, spent>>

Loop == Children \/ Absorb \/ Tick \/ \E l \in stale : Woken(l)

Next ==
    \/ Server \/ Loop \/ Fails
    \/ \E r \in Runs : Settle(r)
    \/ \E run \in {NoView} \cup [of : Runs, live : BOOLEAN] : View(run)

(* Requests are answered, or fail, and timers fire.  A run may go on for ever, *)
(* and the reader need not look.                                               *)
Fairness == WF_vars(Loop)

Spec == Init /\ [][Next]_vars /\ Fairness

-----------------------------------------------------------------------------

(* What is listed and held belongs to the mission in view, however late an     *)
(* answer comes, and has no gap.                                               *)
WorkersInView ==
    /\ listed \in {NoMission, active.of}
    /\ \A r \in Runs : Gapless(byRun[r]) /\ (byRun[r] = Nothing \/ r = active.of)

Whole(r) == byRun[r].events = log[r] \/ loop.at = "failed" \/ Overtaken(byRun[r], r)

(* Whoever goes on looking at a mission comes to see all that its worker has   *)
(* done, if it fits a page, unless the requests have failed for good.          *)
WorkersAreWhole ==
    []<>(active # NoView /\ status[active.of] = "ended" =>
            Whole(active.of) \/ Len(log[active.of]) > Page)

(* What openRun's comment promises of the worker tree and the code does not    *)
(* keep: the effect runs again when the run has ended, and reads one page.     *)
WorkersAreDrained ==
    []<>(active # NoView /\ status[active.of] = "ended" => Whole(active.of))
=============================================================================
