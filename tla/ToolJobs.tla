----------------------------- MODULE ToolJobs -----------------------------
(***************************************************************************)
(* The background jobs of one worker's tool server                         *)
(* (launchpad-mcp-server-source.ts): a job is a detached child process     *)
(* that exits, times out, is cancelled or is swept when the server ends.   *)
(* The server's timers are unref'd: they fire while it lives and do not    *)
(* keep it alive; a child does.                                            *)
(***************************************************************************)
EXTENDS Naturals, FiniteSets

CONSTANTS Jobs, Waits,
          MaxRunning,   \* MAX_RUNNING_JOBS
          MaxKept       \* finished jobs are forgotten above this many (40)

VARIABLES
  status,    \* job.status; "none" before start_job, "gone" once forgotten
  child,     \* the child process: none, alive, dead
  kill,      \* what was sent to its group: none, term, kill
  timer,     \* job.timeout is armed
  ended,     \* jobs in the order in which they ended, as a set of pairs
  waiting,   \* wait_job calls under way: the job each waits for
  past,      \* the root deadline has passed
  terminal,  \* runTerminal
  server     \* up, draining or abandoned (stdin closed), down

vars == <<status, child, kill, timer, ended, waiting, past, terminal, server>>

Final == {"timed_out", "cancelled", "completed", "failed"}
Known == {j \in Jobs : status[j] \notin {"none", "gone"}}

JobsTypeOK ==
  /\ status \in [Jobs -> Final \cup {"none", "running", "gone"}]
  /\ child \in [Jobs -> {"none", "alive", "dead"}]
  /\ kill \in [Jobs -> {"none", "term", "kill"}]
  /\ timer \in [Jobs -> BOOLEAN]
  /\ ended \in [Jobs -> Nat]
  /\ waiting \in [Waits -> Jobs \cup {"idle", "returned"}]
  /\ past \in BOOLEAN /\ terminal \in BOOLEAN
  /\ server \in {"up", "draining", "abandoned", "down"}

Init ==
  /\ status = [j \in Jobs |-> "none"] /\ child = [j \in Jobs |-> "none"]
  /\ kill = [j \in Jobs |-> "none"] /\ timer = [j \in Jobs |-> FALSE]
  /\ ended = [j \in Jobs |-> 0]
  /\ waiting = [w \in Waits |-> "idle"]
  /\ past = FALSE /\ terminal = FALSE /\ server = "up"

Now == Cardinality({j \in Jobs : ended[j] > 0}) + 1
Ends(j)     == ended' = [ended EXCEPT ![j] = IF @ = 0 THEN Now ELSE @]
Released(j) == [w \in Waits |-> IF waiting[w] = j THEN "returned" ELSE waiting[w]]

(***************************************************************************)
(* refuseIfTerminal: the first admission after the deadline latches        *)
(* runTerminal and is refused.                                             *)
(***************************************************************************)
Deadline == /\ ~past /\ past' = TRUE
            /\ UNCHANGED <<status, child, kill, timer, ended, waiting, terminal, server>>

RefuseStart ==
  /\ server = "up" /\ (past \/ terminal) /\ terminal' = TRUE
  /\ UNCHANGED <<status, child, kill, timer, ended, waiting, past, server>>

(***************************************************************************)
(* start_job first forgets the jobs that ended longest ago, then counts    *)
(* those with status running.                                              *)
(***************************************************************************)
Oldest(n) == {j \in Known : status[j] # "running"
                /\ Cardinality({k \in Known : status[k] # "running" /\ ended[k] < ended[j]}) < n}
Forgotten == IF Cardinality(Known) <= MaxKept THEN {}
             ELSE Oldest(Cardinality(Known) - MaxKept)
Running   == {j \in Jobs : status[j] = "running"}

StartJob(j) ==
  /\ server = "up" /\ ~past /\ ~terminal /\ status[j] = "none"
  /\ Cardinality(Running) < MaxRunning
  /\ status' = [k \in Jobs |-> IF k = j THEN "running"
                               ELSE IF k \in Forgotten THEN "gone" ELSE status[k]]
  /\ child' = [child EXCEPT ![j] = "alive"]
  /\ timer' = [timer EXCEPT ![j] = TRUE]
  /\ UNCHANGED <<kill, ended, waiting, past, terminal, server>>

(***************************************************************************)
(* killJobTree: the timeout is cleared, the group gets SIGTERM, and        *)
(* SIGKILL three seconds later.                                            *)
(***************************************************************************)
KillTree(js) ==
  /\ timer' = [j \in Jobs |-> timer[j] /\ j \notin js]
  /\ kill' = [j \in Jobs |-> IF j \in js /\ kill[j] = "none" THEN "term" ELSE kill[j]]

TimesOut(j) ==
  /\ server # "down" /\ timer[j] /\ status[j] = "running"
  /\ status' = [status EXCEPT ![j] = "timed_out"]
  /\ Ends(j) /\ KillTree({j})
  /\ UNCHANGED <<child, waiting, past, terminal, server>>

KillOnceOnly(j) ==
  /\ server = "up" /\ kill[j] = "term" /\ child[j] = "alive"
  /\ kill' = [kill EXCEPT ![j] = "kill"]
  /\ UNCHANGED <<status, child, timer, ended, waiting, past, terminal, server>>

KillTimer(j) ==
  /\ server # "down" /\ kill[j] = "term" /\ child[j] = "alive"
  /\ kill' = [kill EXCEPT ![j] = "kill"]
  /\ UNCHANGED <<status, child, timer, ended, waiting, past, terminal, server>>

(***************************************************************************)
(* The exit (or spawn error) of the child, and finishJob when the server   *)
(* is there to see it: a status set by a timeout or a cancellation stays.  *)
(***************************************************************************)
FinishAnyhow(j, result) ==
  /\ status' = [status EXCEPT ![j] = result]
  /\ timer' = [timer EXCEPT ![j] = FALSE]
  /\ Ends(j)
  /\ waiting' = Released(j)

FinishJob(j, result) ==
  /\ status' = [status EXCEPT ![j] = IF @ \in {"timed_out", "cancelled", "gone"} THEN @ ELSE result]
  /\ timer' = [timer EXCEPT ![j] = FALSE]
  /\ Ends(j)
  /\ waiting' = Released(j)

ChildExits(j) ==
  /\ child[j] = "alive"
  /\ child' = [child EXCEPT ![j] = "dead"]
  /\ IF server = "down" THEN UNCHANGED <<status, timer, ended, waiting>>
     ELSE \E result \in {"completed", "failed"} : FinishJob(j, result)
  /\ UNCHANGED <<kill, past, terminal, server>>

WaitJob(w, j) ==
  /\ server = "up" /\ waiting[w] = "idle" /\ j \in Known
  /\ waiting' = [waiting EXCEPT ![w] = IF status[j] = "running" THEN j ELSE "returned"]
  /\ UNCHANGED <<status, child, kill, timer, ended, past, terminal, server>>

WaitExpires(w) ==
  /\ server # "down" /\ waiting[w] \in Jobs
  /\ waiting' = [waiting EXCEPT ![w] = "returned"]
  /\ UNCHANGED <<status, child, kill, timer, ended, past, terminal, server>>

CancelJob(j) ==
  /\ server = "up" /\ status[j] = "running"
  /\ status' = [status EXCEPT ![j] = "cancelled"]
  /\ Ends(j) /\ KillTree({j})
  /\ waiting' = Released(j)
  /\ UNCHANGED <<child, past, terminal, server>>

(***************************************************************************)
(* terminateAllJobs, at the end of stdin or on SIGTERM.  It does nothing   *)
(* when runTerminal is set already, whoever set it.                        *)
(***************************************************************************)
TerminateAll ==
  /\ terminal' = TRUE
  /\ LET swept == IF terminal THEN {} ELSE Running IN
       /\ status' = [j \in Jobs |-> IF j \in swept THEN "cancelled" ELSE status[j]]
       /\ ended' = [j \in Jobs |-> IF j \in swept THEN Now ELSE ended[j]]
       /\ waiting' = [w \in Waits |-> IF waiting[w] \in swept THEN "returned" ELSE waiting[w]]
       /\ KillTree(swept)

StdinEnds ==
  /\ server = "up"
  /\ TerminateAll
  /\ server' = IF terminal THEN "abandoned" ELSE "draining"
  /\ UNCHANGED <<child, past>>

Sigterm ==
  /\ server \in {"up", "draining", "abandoned"}
  /\ TerminateAll
  /\ server' = "down"
  /\ UNCHANGED <<child, past>>

(* Nothing keeps the process alive once its children are gone. *)
LoopEmpties ==
  /\ server \in {"draining", "abandoned"} /\ \A j \in Jobs : child[j] # "alive"
  /\ server' = "down"
  /\ UNCHANGED <<status, child, kill, timer, ended, waiting, past, terminal>>

Next == \/ Deadline \/ RefuseStart \/ StdinEnds \/ Sigterm \/ LoopEmpties
        \/ \E j \in Jobs : StartJob(j) \/ TimesOut(j) \/ KillTimer(j) \/ ChildExits(j) \/ CancelJob(j)
        \/ \E w \in Waits : WaitExpires(w) \/ \E j \in Jobs : WaitJob(w, j)

(***************************************************************************)
(* A killed process exits; timers fire.                                    *)
(***************************************************************************)
Fairness == /\ \A j \in Jobs : WF_vars(KillTimer(j)) /\ WF_vars(kill[j] = "kill" /\ ChildExits(j))
            /\ WF_vars(LoopEmpties)
            /\ \A j \in Jobs : WF_vars(TimesOut(j))
            /\ \A w \in Waits : WF_vars(WaitExpires(w))

Spec == Init /\ [][Next]_vars /\ Fairness

(***************************************************************************)
(* A job's verdict is its first: neither the exit of a child that was      *)
(* cancelled or timed out, nor a timer that fires late, changes it.        *)
(***************************************************************************)
VerdictStays ==
  [][\A j \in Jobs : status[j] \in Final => status'[j] \in {status[j], "gone"}]_vars

(***************************************************************************)
(* A job never outlives a server whose client has left: closing stdin is   *)
(* followed by the end of every child, even one that ignores SIGTERM.      *)
(* (Not when runTerminal was set before, by an admission refused after the *)
(* deadline; nor when the server is killed meanwhile.)                     *)
(***************************************************************************)
ChildrenEndWithServer ==
  server = "draining" ~> (\A j \in Jobs : child[j] # "alive") \/ server = "down"

==============================================================================
