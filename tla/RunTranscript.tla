----------------------------- MODULE RunTranscript -----------------------------
(* The leader's part of the console's transcript (App.tsx): the runs of one    *)
(* chat, their pages read by pollers and drains that outlive the view, and the *)
(* view that follows the selection, the history and a message just sent.       *)
EXTENDS RunEvents

CONSTANTS
    Old, New,       \* Runs: one that has ended, and one that is sent
    NoRun,
    Setups          \* bounds: events, views, troubles, restarts

TranscriptAssumption ==
    /\ Page \in Nat /\ BufferSize \in Nat
    /\ Old \in Runs /\ New \in Runs /\ NoRun \notin Runs
    /\ Setups \subseteq [events : Nat, views : Nat, troubles : Nat, restarts : Nat]

VARIABLES
    setup,
    chat,       \* the chat is selected, and not another
    visible,    \* visibleRunIdRef
    active,     \* activeRun, and whether it is live
    runs,       \* the runs listed, by the status they had
    shown,      \* runEvents, of a run
    traces,     \* runTraces
    asked, got, \* hydrations asked for, and their answers
    sending,    \* a message is on its way
    poll,       \* pollRun of each run
    drain,      \* drainRunEvents of each run, or a single page
    gaveUp,     \* runs whose requests ended on a failure since they were shown
    dropped,    \* runs whose trace was deleted under an answer that continues it
    spent       \* views, troubles and restarts so far

viewVars  == <<chat, visible, active, runs, shown>>
taskVars  == <<asked, got, sending, poll, drain>>
faultVars == <<gaveUp, dropped>>
vars == <<logVars, setup, viewVars, traces, taskVars, faultVars, spent>>

Idle    == [of |-> NoRun, live |-> FALSE]
Blank   == [of |-> NoRun, events |-> <<>>]
NoPoll  == [at |-> "off", after |-> 0, page |-> FALSE, told |-> "none", sent |-> FALSE]
NoDrain == [on |-> FALSE, after |-> 0, once |-> FALSE]

Init ==
    /\ setup \in Setups /\ most = setup.events /\ LogInit({Old}, {})
    /\ chat = FALSE /\ visible = NoRun /\ active = Idle /\ runs = <<>> /\ shown = Blank
    /\ traces = [r \in Runs |-> Nothing]
    /\ asked = 0 /\ got = {} /\ sending = FALSE
    /\ poll = [r \in Runs |-> NoPoll] /\ drain = [r \in Runs |-> NoDrain]
    /\ gaveUp = {} /\ dropped = {}
    /\ spent = [views |-> 0, troubles |-> 0, restarts |-> 0]

Spend(kind) == spent[kind] < setup[kind] /\ spent' = [spent EXCEPT ![kind] = @ + 1]
Trouble == Spend("troubles")

Server ==
    /\ \/ Emits /\ UNCHANGED spent
       \/ Restart /\ Spend("restarts")
    /\ UNCHANGED <<setup, viewVars, traces, taskVars, faultVars>>

(***************************************************************************)
(* The view.                                                               *)
(***************************************************************************)

Reader(r, once) == [on |-> TRUE, after |-> traces[r].cursor, once |-> once]
Retried(r) == IF poll[r].at = "off" THEN gaveUp \ {r} ELSE gaveUp
Polled(r, sent) == IF poll[r].at = "off" THEN [NoPoll EXCEPT !.at = "sleep", !.sent = sent] ELSE poll[r]

(* showRunTrace, and then its requests: a live run is polled, unless it is     *)
(* already; the trace of another is drained, unless it is already.             *)
Show(r, live, page) ==
    /\ visible' = r /\ shown' = [of |-> r, events |-> traces[r].events]
    /\ active' = [of |-> r, live |-> live]
    /\ gaveUp' = IF live THEN Retried(r) ELSE gaveUp \ {r}
    /\ IF live
       THEN /\ poll' = [poll EXCEPT ![r] = Polled(r, FALSE)]
            /\ drain' = [drain EXCEPT ![r] = IF page /\ ~@.on THEN Reader(r, TRUE) ELSE @]
       ELSE /\ drain' = [drain EXCEPT ![r] = IF @.on /\ ~@.once THEN @ ELSE Reader(r, FALSE)]
            /\ UNCHANGED poll

(* Selecting the chat asks for its runs; the other chat has none. *)
Select ==
    /\ Spend("views")
    /\ chat' = ~chat /\ visible' = NoRun /\ shown' = Blank /\ runs' = <<>> /\ active' = Idle
    /\ asked' = IF chat' THEN asked + 1 ELSE asked
    /\ UNCHANGED <<logVars, setup, traces, got, sending, poll, drain, faultVars>>

Listing == [r \in {k \in Runs : status[k] # "none"} |-> status[r]]

AnswerRuns ==
    /\ asked > 0 /\ asked' = asked - 1
    /\ got' = got \cup {Listing}
    /\ UNCHANGED <<logVars, setup, viewVars, traces, sending, poll, drain, faultVars, spent>>

(* The runs have come: the latest is shown, if the chat is still selected. *)
Hydrate(list) ==
    /\ list \in got /\ got' = got \ {list}
    /\ IF chat
       THEN LET r == IF New \in DOMAIN list THEN New ELSE Old
            IN  runs' = list /\ Show(r, list[r] = "running", TRUE)
       ELSE UNCHANGED <<visible, active, runs, shown, poll, drain, gaveUp>>
    /\ UNCHANGED <<logVars, setup, chat, traces, asked, sending, dropped, spent>>

Open(r) ==
    /\ Spend("views") /\ chat /\ r \in DOMAIN runs /\ r # active.of
    /\ Show(r, runs[r] = "running", FALSE)
    /\ UNCHANGED <<logVars, setup, chat, runs, traces, asked, got, sending, dropped>>

(* The chat's next run is begun.  Its answer is shown where it was sent, with  *)
(* a trace that begins anew, even if the run has been found and read meanwhile. *)
Send ==
    /\ chat /\ Begin(New) /\ sending' = TRUE
    /\ UNCHANGED <<setup, viewVars, traces, asked, got, poll, drain, faultVars, spent>>

Sent ==
    /\ sending /\ sending' = FALSE
    /\ IF chat
       THEN /\ visible' = New /\ shown' = [of |-> New, events |-> <<>>]
            /\ active' = [of |-> New, live |-> TRUE]
            /\ traces' = [traces EXCEPT ![New] = Nothing]
            /\ gaveUp' = Retried(New)
            /\ dropped' = IF poll[New].after > 0 \/ drain[New].after > 0 THEN {New} ELSE dropped
       ELSE UNCHANGED <<visible, shown, active, traces, faultVars>>
    /\ poll' = [poll EXCEPT ![New] = Polled(New, TRUE)]
    /\ UNCHANGED <<logVars, setup, chat, runs, asked, got, drain, spent>>

(***************************************************************************)
(* The requests.                                                           *)
(***************************************************************************)

(* The answer is merged into the run's trace, and shown if that run is. *)
Fetched(r, page) ==
    /\ traces' = [traces EXCEPT ![r] = Merge(@, r, page)]
    /\ shown' = IF chat /\ visible = r THEN [of |-> r, events |-> traces'[r].events] ELSE shown

(* A mutant: one page is taken for the whole trace. *)
DrainedByOne(r, page) == TRUE

Drained(r, page) == page = {} \/ drain[r].once

Drain(r) ==
    /\ drain[r].on
    /\ LET page == Read(r, drain[r].after)
       IN  /\ Fetched(r, page)
           /\ drain' = [drain EXCEPT ![r] = IF Drained(r, page) THEN NoDrain
                                            ELSE [@ EXCEPT !.after = traces'[r].cursor]]
    /\ UNCHANGED <<logVars, setup, chat, visible, active, runs, asked, got, sending, poll, faultVars, spent>>

DrainFails(r) ==
    /\ drain[r].on /\ Trouble
    /\ drain' = [drain EXCEPT ![r] = NoDrain]
    /\ gaveUp' = IF drain[r].once THEN gaveUp ELSE gaveUp \cup {r}
    /\ UNCHANGED <<logVars, setup, viewVars, traces, asked, got, sending, poll, dropped>>

(* Every 900 ms the run and a page are asked for, and both are awaited. *)
Poll(r) ==
    /\ poll[r].at = "sleep"
    /\ poll' = [poll EXCEPT ![r] = [@ EXCEPT !.at = "ask", !.after = traces[r].cursor,
                                             !.page = FALSE, !.told = "none"]]
    /\ UNCHANGED <<logVars, setup, viewVars, traces, asked, got, sending, drain, faultVars, spent>>

(* A page that fails counts as none. *)
PollPage(r) ==
    /\ poll[r].at = "ask" /\ ~poll[r].page
    /\ \/ Fetched(r, Read(r, poll[r].after)) /\ UNCHANGED spent
       \/ Trouble /\ UNCHANGED <<traces, shown>>
    /\ poll' = [poll EXCEPT ![r].page = TRUE]
    /\ UNCHANGED <<logVars, setup, chat, visible, active, runs, asked, got, sending, drain, faultVars>>

PollStatus(r) ==
    /\ poll[r].at = "ask" /\ poll[r].told = "none"
    /\ poll' = [poll EXCEPT ![r].told = status[r]]
    /\ UNCHANGED <<logVars, setup, viewVars, traces, asked, got, sending, drain, faultVars, spent>>

Told(r) ==
    /\ poll[r].at = "ask" /\ poll[r].page /\ poll[r].told # "none"
    /\ active' = IF chat /\ visible = r THEN [of |-> r, live |-> poll[r].told = "running"] ELSE active
    /\ poll' = [poll EXCEPT ![r] = IF @.told = "running" THEN [@ EXCEPT !.at = "sleep"]
                                   ELSE [@ EXCEPT !.at = "drain", !.after = traces[r].cursor]]
    /\ UNCHANGED <<logVars, setup, chat, visible, runs, shown, traces, asked, got, sending, drain,
                   faultVars, spent>>

(* The backlog of a run that has ended, until an answer is empty. *)
PollDrains(r) ==
    /\ poll[r].at = "drain"
    /\ LET page == Read(r, poll[r].after)
       IN  /\ Fetched(r, page)
           /\ poll' = [poll EXCEPT ![r] = IF page = {} THEN [@ EXCEPT !.at = "refresh"]
                                          ELSE [@ EXCEPT !.after = traces'[r].cursor]]
    /\ UNCHANGED <<logVars, setup, chat, visible, active, runs, asked, got, sending, drain, faultVars, spent>>

PollDrainFails(r) ==
    /\ poll[r].at = "drain" /\ Trouble
    /\ poll' = [poll EXCEPT ![r].at = "refresh"]
    /\ gaveUp' = gaveUp \cup {r}
    /\ UNCHANGED <<logVars, setup, viewVars, traces, asked, got, sending, drain, dropped>>

Refresh(r) ==
    /\ poll[r].at = "refresh" /\ poll' = [poll EXCEPT ![r] = NoPoll]
    /\ runs' = IF chat THEN Listing ELSE runs
    /\ UNCHANGED <<logVars, setup, chat, visible, active, shown, traces, asked, got, sending, drain,
                   faultVars, spent>>

(* The status, or what is refreshed at the end, fails: the poll is over, and   *)
(* sendMessage drops the active run, whichever it is.                          *)
PollFails(r) ==
    /\ Trouble
    /\ \/ poll[r].at = "ask" /\ poll[r].told = "none" /\ gaveUp' = gaveUp \cup {r}
       \/ poll[r].at = "refresh" /\ UNCHANGED gaveUp
    /\ poll' = [poll EXCEPT ![r] = NoPoll]
    /\ active' = IF poll[r].sent THEN Idle ELSE active
    /\ UNCHANGED <<logVars, setup, chat, visible, runs, shown, traces, asked, got, sending, drain, dropped>>

-----------------------------------------------------------------------------

Answers == AnswerRuns \/ (\E list \in got : Hydrate(list)) \/ Sent

Polls(r) == Poll(r) \/ PollPage(r) \/ PollStatus(r) \/ Told(r) \/ PollDrains(r) \/ Refresh(r)

Next ==
    \/ Server \/ Select \/ Send \/ Answers
    \/ \E r \in Runs : \/ Open(r) \/ Drain(r) \/ DrainFails(r)
                       \/ Polls(r) \/ PollDrainFails(r) \/ PollFails(r)

(* Requests are answered, or fail, and timers fire.  A run may go on for ever, *)
(* and the reader need not look.                                               *)
Fairness ==
    WF_vars(Answers) /\ \A r \in Runs : WF_vars(Drain(r)) /\ WF_vars(Polls(r))

Spec == Init /\ [][Next]_vars /\ Fairness

-----------------------------------------------------------------------------

(* What is shown is the trace of the run in view, however late an answer comes, *)
(* and no trace has a gap, whether it was read from the buffer, from the file   *)
(* or from both, by a poller, a drain or the two together.                      *)
TranscriptIsSound ==
    /\ shown.of = visible /\ active.of \in {NoRun, visible}
    /\ visible # NoRun => shown.events = traces[visible].events
    /\ \A r \in Runs : Gapless(traces[r]) \/ r \in dropped

(* Whoever goes on looking at a run that has ended comes to see all its events, *)
(* unless a request has failed for good: of the run in view, whichever it is.   *)
TranscriptIsWhole ==
    []<>(visible # NoRun /\ status[visible] = "ended" =>
            \/ shown.events = log[visible]
            \/ visible \in gaveUp \cup dropped \/ Overtaken(traces[visible], visible))

(* What the code does not keep: a message's answer deletes the trace of a run  *)
(* that was found and read before it came, under the next page of it ...       *)
NothingIsDropped == dropped = {}

(* ... a background poller that fails takes the active run of another with it  *)
(* ...                                                                         *)
ActiveIsVisible == active.of = visible

(* ... and the answer to a late hydration makes an ended run live again.       *)
StatusIsTold ==
    []<>(visible # NoRun /\ status[visible] = "ended" => ~active.live \/ visible \in gaveUp)
=============================================================================
