------------------------------- MODULE RunEvents -------------------------------
(* The event logs of some runs as their readers see them (event-log.ts): an    *)
(* event is in memory when emit returns and in the file later, memory holds    *)
(* the last ones only, and a restart keeps what is in the file.                *)
EXTENDS Naturals, FiniteSets, FiniteSetsExt, Sequences

CONSTANTS
    Runs,
    Page,           \* the most events of an answer
    BufferSize      \* the events that are kept in memory

VARIABLES
    most,       \* a bound: the most events of a run before a restart
    log,        \* the events emitted for each run, by the life of the server
    written,    \* how many of them are in the file
    status      \* "none", "running" or "ended"

logVars == <<most, log, written, status>>

(* The logs of runs that have ended, and of those that are not begun. *)
LogInit(ended, running) ==
    /\ log = [r \in Runs |-> IF r \in ended THEN [i \in 1..most |-> "run"] ELSE <<>>]
    /\ written = [r \in Runs |-> Len(log[r])]
    /\ status = [r \in Runs |-> IF r \in ended THEN "ended"
                                ELSE IF r \in running THEN "running" ELSE "none"]

Begin(r) ==
    /\ status[r] = "none" /\ status' = [status EXCEPT ![r] = "running"]
    /\ UNCHANGED <<most, log, written>>

Emit(r) ==
    /\ status[r] = "running" /\ Len(log[r]) < most
    /\ log' = [log EXCEPT ![r] = Append(@, "run")]
    /\ UNCHANGED <<most, written, status>>

Write(r) ==
    /\ written[r] < Len(log[r])
    /\ written' = [written EXCEPT ![r] = @ + 1]
    /\ UNCHANGED <<most, log, status>>

(* A run is ended in the store once its log is closed. *)
End(r) ==
    /\ status[r] = "running" /\ written[r] = Len(log[r])
    /\ status' = [status EXCEPT ![r] = "ended"]
    /\ UNCHANGED <<most, log, written>>

(* Whatever is not in the file is gone with the server; the sequence goes on   *)
(* from the file, with the event that ends the run.                            *)
Restart ==
    LET cut == {r \in Runs : status[r] = "running"}
    IN  /\ cut # {}
        /\ log' = [r \in Runs |-> IF r \in cut THEN Append(SubSeq(log[r], 1, written[r]), "restart")
                                  ELSE log[r]]
        /\ written' = [r \in Runs |-> Len(log'[r])]
        /\ status' = [r \in Runs |-> IF r \in cut THEN "ended" ELSE status[r]]
        /\ UNCHANGED most

Emits == \E r \in Runs : Emit(r) \/ Write(r) \/ End(r)

Lowest(S) == {i \in S : Cardinality({j \in S : j <= i}) <= Page}

Buffered(r) == {i \in DOMAIN log[r] : i + BufferSize > Len(log[r])}

(* A page of the events after a cursor: the buffer answers when it holds all   *)
(* that was asked for, and else the file.                                      *)
Read(r, after) ==
    Lowest({i \in IF Buffered(r) # {} /\ after + BufferSize >= Len(log[r])
                  THEN Buffered(r) ELSE 1..written[r] : i > after})

Nothing == [cursor |-> 0, events |-> <<>>]

(* What a reader makes of a page: by sequence number, the page over the rest. *)
Merge(trace, r, page) ==
    IF page = {} THEN trace
    ELSE [cursor |-> Max(page \cup {trace.cursor}),
          events |-> [i \in page \cup DOMAIN trace.events |->
                        IF i \in page THEN log[r][i] ELSE trace.events[i]]]

Gapless(trace) == DOMAIN trace.events = 1..trace.cursor

(* An event that was shown before it was in the file, and whose number a       *)
(* restart has used again.                                                     *)
Overtaken(trace, r) ==
    \E i \in DOMAIN trace.events : i > Len(log[r]) \/ trace.events[i] # log[r][i]
=============================================================================
