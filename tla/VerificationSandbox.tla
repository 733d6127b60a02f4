------------------------ MODULE VerificationSandbox ------------------------
(* The container of one gate of a verification: the lease under which server *)
(* processes on one data directory take turns, the durable record that goes  *)
(* before every request to the container engine, the gate's life in its      *)
(* container, and the reconciliation of what a cancelled, cut-off or crashed  *)
(* verification left in the engine.                                          *)
(*   verification-container.ts, container-authority.ts                       *)
(*                                                                           *)
(* A record is reduced to its state and whether it names the container; the  *)
(* identity of a volume never changes here, so its fingerprint is left out.  *)
(* The engine is external: it may still carry out a request whose client is  *)
(* gone.                                                                     *)
EXTENDS Naturals, FiniteSets

CONSTANTS
  Jobs,        \* one verification of one gate each, with its owner id
  Procs,       \* server processes on the data directory
  Home,        \* the process of a job
  Nobody,      \* no process, no user of the lease
  Settings     \* records [jobs, procs, faults, crashes] a behaviour may start with

Users == Jobs \cup Procs     \* a process is the user of the sweep at its start
HomeOf(u) == IF u \in Jobs THEN Home[u] ELSE u

VARIABLES
  up,       \* process -> down, starting or serving
  lock,     \* the port that serves as the lock of the directory
  lease,    \* the lease file: absent, of a live process, or of a dead one
  turn,     \* process -> the user of its mutex
  pc,       \* user -> where it stands
  stop,     \* job -> what has ended its work: its deadline, the run's end
  record,   \* job -> its record on disk
  torn,     \* jobs whose last write reached the disk but not their handle
  open,     \* jobs that hold a handle of their record
  ctr,      \* job -> its container in the engine
  cid,      \* jobs whose cidfile is there
  vol,      \* jobs whose volume is there
  late,     \* requests the engine has accepted and not carried out
  sweep,    \* user -> records it still has to reconcile
  target,   \* user -> the record it reconciles, and how far
  tries,    \* job -> attempts at its own cleanup
  gate,     \* job -> how its gate ended in the container
  verdict,  \* job -> the gate's exit, read out of its container
  out,      \* job -> what the caller was told
  left      \* jobs and processes of this behaviour, faults and crashes still allowed

leaseVars == <<up, lock, lease, turn>>
engine == <<ctr, cid, vol, late, gate>>
notes == <<record, torn, open>>
walk == <<sweep, target, tries>>
vars == <<leaseVars, pc, stop, notes, engine, walk, verdict, out, left>>

NoRecord == [state |-> "none", named |-> FALSE]
Ready == [state |-> "volume_ready", named |-> FALSE]
NoTarget == [job |-> Nobody, at |-> "look"]

TypeOK ==
  /\ up \in [Procs -> {"down", "starting", "serving"}]
  /\ lock \in Procs \cup {Nobody} /\ lease \in Procs \cup {Nobody, "dead"}
  /\ turn \in [Procs -> Users \cup {Nobody}]
  /\ pc \in [Users -> {"idle", "queued", "sweep", "prepare", "volume", "create_volume", "note_volume",
                       "container", "create_container", "note_container", "copy", "start", "attached",
                       "collect", "cleanup", "finish", "release", "done"}]
  /\ stop \in [Jobs -> SUBSET {"late", "cancelled"}]
  /\ record \in [Jobs -> [state : {"none", "volume_ready", "volume_create_pending",
                                   "container_create_pending", "container_ready"}, named : BOOLEAN]]
  /\ torn \subseteq Jobs /\ open \subseteq Jobs
  /\ ctr \in [Jobs -> {"none", "created", "running", "exited"}]
  /\ cid \subseteq Jobs /\ vol \subseteq Jobs /\ late \subseteq Jobs \X {"volume", "container"}
  /\ sweep \in [Users -> SUBSET Jobs]
  /\ target \in [Users -> [job : Jobs \cup {Nobody}, at : {"look", "container", "volume", "complete"}]]
  /\ tries \in [Jobs -> 0..2]
  /\ gate \in [Jobs -> {"none", "passed", "failed", "refused"}]
  /\ verdict \in [Jobs -> {"none", "passed", "failed"}]
  /\ out \in [Jobs -> {"none", "exit", "failure", "terminal", "unproven", "unavailable", "lost"}]
  /\ left \in [jobs : SUBSET Jobs, procs : SUBSET Procs, faults : Nat, crashes : Nat]

Init ==
  /\ up = [p \in Procs |-> "down"] /\ lock = Nobody /\ lease = Nobody
  /\ turn = [p \in Procs |-> Nobody]
  /\ pc = [u \in Users |-> "idle"] /\ stop = [j \in Jobs |-> {}]
  /\ record = [j \in Jobs |-> NoRecord] /\ torn = {} /\ open = {}
  /\ ctr = [j \in Jobs |-> "none"] /\ cid = {} /\ vol = {} /\ late = {}
  /\ sweep = [u \in Users |-> {}] /\ target = [u \in Users |-> NoTarget]
  /\ tries = [j \in Jobs |-> 0]
  /\ gate = [j \in Jobs |-> "none"] /\ verdict = [j \in Jobs |-> "none"] /\ out = [j \in Jobs |-> "none"]
  /\ left \in Settings

Go(u, place) == pc' = [pc EXCEPT ![u] = place]
Fault == left.faults > 0 /\ left' = [left EXCEPT !.faults = @ - 1]
Tell(j, what) == out' = [out EXCEPT ![j] = what]

-----------------------------------------------------------------------------
(* The processes and the lease.                                              *)

(* A server starts: it sweeps once before it serves any verification. *)
Boot(p) ==
  /\ p \in left.procs /\ up[p] = "down"
  /\ up' = [up EXCEPT ![p] = "starting"]
  /\ Go(p, "queued")
  /\ UNCHANGED <<lock, lease, turn, stop, notes, engine, walk, verdict, out, left>>

(* VerificationContainer.run is called with a run that is still active. *)
Submit(j) ==
  /\ j \in left.jobs /\ pc[j] = "idle" /\ up[Home[j]] = "serving" /\ "cancelled" \notin stop[j]
  /\ Go(j, "queued")
  /\ UNCHANGED <<leaseVars, stop, notes, engine, walk, verdict, out, left>>

(* A lease tells its process by its pid, its start and the boot of its machine. *)
OwnerAlive == lease \in Procs
Takeable == lock = Nobody /\ ~OwnerAlive

(* What is on disk can be told from what is not: one well-formed record each. *)
OnDisk == {j \in Jobs : record[j] # NoRecord}

(* Users of one process take turns.  The port must be free and the lease absent *)
(* or of a dead process, which is then moved to the audit files.               *)
Acquire(u) ==
  LET p == HomeOf(u) IN
  /\ pc[u] = "queued" /\ turn[p] = Nobody /\ Takeable
  /\ lock' = p /\ lease' = p /\ turn' = [turn EXCEPT ![p] = u]
  /\ sweep' = [sweep EXCEPT ![u] = OnDisk]
  /\ Go(u, "sweep")
  /\ UNCHANGED <<up, stop, notes, engine, target, tries, verdict, out, left>>

(* Otherwise the caller is told at once; a server whose first sweep is refused *)
(* does not start.                                                             *)
Unavailable(u) ==
  LET p == HomeOf(u) IN
  /\ pc[u] = "queued" /\ turn[p] = Nobody /\ ~Takeable
  /\ Go(u, "done")
  /\ IF u \in Jobs THEN Tell(u, "unavailable") /\ UNCHANGED up
                   ELSE up' = [up EXCEPT ![p] = "down"] /\ UNCHANGED out
  /\ UNCHANGED <<lock, lease, turn, stop, notes, engine, walk, verdict, left>>

(* The lease goes to the audit files and the port is closed. *)
Release(u) ==
  LET p == HomeOf(u) IN
  /\ pc[u] = "release"
  /\ turn' = [turn EXCEPT ![p] = Nobody] /\ lock' = Nobody /\ lease' = Nobody
  /\ up' = IF u = p THEN [up EXCEPT ![p] = "serving"] ELSE up
  /\ Go(u, "done")
  /\ UNCHANGED <<stop, notes, engine, walk, verdict, out, left>>

(* When the lease cannot be moved the port stays open too, and with it every *)
(* later verification of this process is refused.                            *)
ReleaseFails(u) ==
  LET p == HomeOf(u) IN
  /\ pc[u] = "release" /\ Fault
  /\ turn' = [turn EXCEPT ![p] = Nobody]
  /\ Go(u, "done")
  /\ IF u \in Jobs
     THEN /\ out' = IF out[u] \in {"exit", "failure"} THEN [out EXCEPT ![u] = "unavailable"] ELSE out
          /\ UNCHANGED <<up, lock, lease>>
     ELSE /\ up' = [up EXCEPT ![p] = "down"] /\ lock' = Nobody /\ lease' = "dead" /\ UNCHANGED out
  /\ UNCHANGED <<stop, notes, engine, walk, verdict>>

(* The run ends, or the time for work is over, at any moment. *)
StopWork(j, why) ==
  /\ pc[j] \notin {"idle", "done"} /\ why \notin stop[j]
  /\ why = "late" => pc[j] \notin {"queued", "sweep"}
  /\ stop' = [stop EXCEPT ![j] = @ \cup {why}]
  /\ UNCHANGED <<leaseVars, pc, notes, engine, walk, verdict, out, left>>

(* A process dies: its users are gone, the port is free, its lease is of a dead *)
(* process.  The engine's client is a process of its own and may have got its   *)
(* request through.                                                             *)
Crash(p) ==
  /\ up[p] # "down" /\ left.crashes > 0
  /\ left' = [left EXCEPT !.crashes = @ - 1]
  /\ up' = [up EXCEPT ![p] = "down"]
  /\ lock' = IF lock = p THEN Nobody ELSE lock
  /\ lease' = IF lease = p THEN "dead" ELSE lease
  /\ turn' = [turn EXCEPT ![p] = Nobody]
  /\ LET mine == {u \in Users : HomeOf(u) = p}
         dead == {j \in Jobs \cap mine : pc[j] \notin {"idle", "done"}} IN
     /\ pc' = [u \in Users |-> IF u = p THEN "idle" ELSE IF u \in dead THEN "done" ELSE pc[u]]
     /\ out' = [j \in Jobs |-> IF j \in dead THEN "lost" ELSE out[j]]
     /\ sweep' = [u \in Users |-> IF u \in mine THEN {} ELSE sweep[u]]
     /\ target' = [u \in Users |-> IF u \in mine THEN NoTarget ELSE target[u]]
     /\ open' = open \ mine /\ torn' = torn \ mine
     /\ \E sent \in SUBSET ({<<j, "volume">> : j \in {k \in dead : pc[k] = "create_volume"}}
                              \cup {<<j, "container">> : j \in {k \in dead : pc[k] = "create_container"}}) :
          late' = late \cup sent
  /\ UNCHANGED <<stop, record, ctr, cid, vol, gate, tries, verdict>>

(* The engine carries out a request whose client is gone; a container is       *)
(* created with the volume it mounts.                                          *)
CarryOut(j) ==
  \/ /\ <<j, "volume">> \in late
     /\ vol' = vol \cup {j} /\ late' = late \ {<<j, "volume">>} /\ UNCHANGED ctr
     /\ UNCHANGED <<leaseVars, pc, stop, notes, cid, gate, walk, verdict, out, left>>
  \/ /\ <<j, "container">> \in late
     /\ ctr' = [ctr EXCEPT ![j] = "created"] /\ vol' = vol \cup {j}
     /\ late' = late \ {<<j, "container">>}
     /\ UNCHANGED <<leaseVars, pc, stop, notes, cid, gate, walk, verdict, out, left>>

-----------------------------------------------------------------------------
(* The record of a job: compare the disk with the handle, write, sync.       *)

(* The handle still speaks for the record. *)
Holds(j) == j \notin torn /\ record[j] # NoRecord

Write(j, r) == record' = [record EXCEPT ![j] = r]

(* A failing write of a job's own record sends it to its cleanup; the rename may *)
(* have happened, and then the handle no longer matches the disk.                *)
WriteFails(j, r) ==
  /\ Fault
  /\ \/ UNCHANGED <<record, torn>>
     \/ Write(j, r) /\ torn' = torn \cup {j}
  /\ Go(j, "cleanup")
  /\ UNCHANGED <<open, engine>>

-----------------------------------------------------------------------------
(* Reconciliation, of the job's own record or of one found on disk.          *)

Aim(u, j, place) == target' = [target EXCEPT ![u] = [job |-> j, at |-> place]]

SettleTrusting(u, how) ==
  LET j == target[u].job IN
  /\ target' = [target EXCEPT ![u] = NoTarget]
  /\ IF pc[u] = "sweep"
     THEN sweep' = [sweep EXCEPT ![u] = @ \ {j}] /\ UNCHANGED <<pc, tries, out>>
     ELSE /\ UNCHANGED <<sweep, out>>
          /\ tries' = [tries EXCEPT ![u] = @ + 1]
          /\ IF how = "thrown" /\ tries[u] = 0 THEN UNCHANGED pc ELSE Go(u, "finish")

(* The end of one reconciliation: removed, still pending, or thrown.  A sweep *)
(* goes on whatever came out; a job tries its own cleanup twice and knows     *)
(* that its record remains when it could not be reconciled.                   *)
Settle(u, how) ==
  LET j == target[u].job IN
  /\ target' = [target EXCEPT ![u] = NoTarget]
  /\ IF pc[u] = "sweep"
     THEN sweep' = [sweep EXCEPT ![u] = @ \ {j}] /\ UNCHANGED <<pc, tries, out>>
     ELSE /\ UNCHANGED sweep
          /\ tries' = [tries EXCEPT ![u] = @ + 1]
          /\ IF how = "removed" THEN Go(u, "finish") /\ UNCHANGED out
             ELSE IF how = "thrown" /\ tries[u] = 0 THEN UNCHANGED <<pc, out>>
             ELSE Go(u, "finish") /\ Tell(u, "unproven")

(* Picks up the next record of the sweep, or the job's own. *)
Reconcile(u) ==
  /\ target[u] = NoTarget
  /\ \/ pc[u] = "sweep" /\ \E j \in sweep[u] : Aim(u, j, "look")
     \/ pc[u] = "cleanup" /\ u \in open /\ Aim(u, u, "look")
  /\ UNCHANGED <<leaseVars, pc, stop, notes, engine, sweep, tries, verdict, out, left>>

Observed(j) == record[j].named \/ j \in cid \/ ctr[j] # "none"

StillPendingNever(j) == FALSE

(* A request that may still be carried out keeps its record: a volume or a      *)
(* container that cannot be found yet is pending, never gone.                   *)
StillPending(j) ==
  \/ record[j].state = "volume_create_pending" /\ j \notin vol
  \/ record[j].state = "container_create_pending" /\ ~Observed(j)

(* Compares the record, and looks for what it names in the engine. *)
Look(u) ==
  LET j == target[u].job IN
  /\ j # Nobody /\ target[u].at = "look"
  /\ IF ~Holds(j) THEN Settle(u, "thrown") /\ UNCHANGED record
     ELSE IF StillPending(j) THEN Settle(u, "pending") /\ UNCHANGED record
     ELSE /\ IF record[j].state \in {"volume_ready", "volume_create_pending"}
             THEN Aim(u, j, "volume") /\ UNCHANGED record
             ELSE /\ Aim(u, j, "container")
                  /\ IF ctr[j] # "none" THEN Write(j, [state |-> "container_ready", named |-> TRUE])
                                        ELSE UNCHANGED record
          /\ UNCHANGED <<pc, sweep, tries, out>>
  /\ UNCHANGED <<leaseVars, stop, torn, open, engine, verdict, left>>

(* The container is removed by force, whatever it does, and then the volume. *)
RemoveContainer(u) ==
  LET j == target[u].job IN
  /\ j # Nobody /\ target[u].at = "container"
  /\ ctr' = [ctr EXCEPT ![j] = "none"] /\ cid' = cid \ {j}
  /\ Aim(u, j, "volume")
  /\ UNCHANGED <<leaseVars, pc, stop, notes, vol, late, gate, sweep, tries, verdict, out, left>>

RemoveVolume(u) ==
  LET j == target[u].job IN
  /\ j # Nobody /\ target[u].at = "volume"
  /\ vol' = vol \ {j}
  /\ Aim(u, j, "complete")
  /\ UNCHANGED <<leaseVars, pc, stop, notes, ctr, cid, late, gate, sweep, tries, verdict, out, left>>

(* The record goes last. *)
Complete(u) ==
  LET j == target[u].job IN
  /\ j # Nobody /\ target[u].at = "complete"
  /\ IF Holds(j) THEN Write(j, NoRecord) /\ cid' = cid \ {j} /\ Settle(u, "removed")
                 ELSE UNCHANGED <<record, cid>> /\ Settle(u, "thrown")
  /\ UNCHANGED <<leaseVars, stop, torn, open, ctr, vol, late, gate, verdict, left>>

(* A command of the engine or a write fails on the way. *)
ReconcileFails(u) ==
  /\ target[u] # NoTarget /\ Fault
  /\ Settle(u, "thrown")
  /\ UNCHANGED <<leaseVars, stop, notes, engine, verdict>>

(* Everything found on disk has been looked at: a job goes on if its run is *)
(* still active.                                                            *)
Swept(u) ==
  /\ pc[u] = "sweep" /\ sweep[u] = {} /\ target[u] = NoTarget
  /\ IF u \in Procs THEN Go(u, "release") /\ UNCHANGED out
     ELSE IF "cancelled" \in stop[u] THEN Go(u, "release") /\ Tell(u, "terminal")
     ELSE Go(u, "prepare") /\ UNCHANGED out
  /\ UNCHANGED <<leaseVars, stop, notes, engine, walk, verdict, left>>

-----------------------------------------------------------------------------
(* The gate's life in its container.                                         *)

(* No command of the work phase starts any more. *)
Stopped(j) == stop[j] # {}

(* The completion directory with its nonce, then the record, linked in place: *)
(* a write that fails after the link leaves a record without a handle.        *)
Prepare(j) ==
  /\ pc[j] = "prepare"
  /\ \/ /\ Write(j, Ready) /\ open' = open \cup {j} /\ UNCHANGED left
        /\ Go(j, IF "cancelled" \in stop[j] THEN "cleanup" ELSE "volume")
     \/ Fault /\ record' \in {record, [record EXCEPT ![j] = Ready]} /\ UNCHANGED open /\ Go(j, "cleanup")
  /\ UNCHANGED <<leaseVars, stop, torn, engine, walk, verdict, out>>

(* The record says what is about to be asked for before it is asked for. *)
Announce(j, from, r, next) ==
  /\ pc[j] = from
  /\ IF Stopped(j) THEN Go(j, "cleanup") /\ UNCHANGED <<notes, engine, left>>
     ELSE \/ Write(j, r) /\ Go(j, next) /\ UNCHANGED <<torn, open, engine, left>>
          \/ WriteFails(j, r)
  /\ UNCHANGED <<leaseVars, stop, walk, verdict, out>>

AnnounceVolume(j) ==
  Announce(j, "volume", [state |-> "volume_create_pending", named |-> FALSE], "create_volume")

AnnounceContainer(j) ==
  Announce(j, "container", [state |-> "container_create_pending", named |-> FALSE], "create_container")

(* Stopped before the request, or its client could not be spawned: nothing was *)
(* asked for and the record says so again.                                     *)
Withdraw(j) ==
  /\ pc[j] \in {"create_volume", "create_container"}
  /\ \/ Stopped(j) /\ UNCHANGED left
     \/ ~Stopped(j) /\ Fault
  /\ Write(j, Ready) /\ Go(j, "cleanup")
  /\ UNCHANGED <<leaseVars, stop, torn, open, engine, walk, verdict, out>>

CreateVolume(j) ==
  /\ pc[j] = "create_volume" /\ ~Stopped(j)
  /\ vol' = vol \cup {j} /\ Go(j, "note_volume")
  /\ UNCHANGED <<leaseVars, stop, notes, ctr, cid, late, gate, walk, verdict, out, left>>

CreateContainer(j) ==
  /\ pc[j] = "create_container" /\ ~Stopped(j)
  /\ ctr' = [ctr EXCEPT ![j] = "created"] /\ cid' = cid \cup {j} /\ Go(j, "note_container")
  /\ UNCHANGED <<leaseVars, stop, notes, vol, late, gate, walk, verdict, out, left>>

(* The client is cut off in the middle of its request, by the deadline, the end *)
(* of the run or an error: the engine has done it, will do it, or never does.   *)
CutOff(j) ==
  /\ pc[j] \in {"create_volume", "create_container"} /\ ~Stopped(j)
  /\ \/ \E why \in {"late", "cancelled"} : stop' = [stop EXCEPT ![j] = {why}] /\ UNCHANGED left
     \/ Fault /\ UNCHANGED stop
  /\ IF pc[j] = "create_volume"
     THEN /\ \/ vol' = vol \cup {j} /\ UNCHANGED late
             \/ late' \in {late, late \cup {<<j, "volume">>}} /\ UNCHANGED vol
          /\ UNCHANGED <<ctr, cid>>
     ELSE /\ \/ ctr' = [ctr EXCEPT ![j] = "created"] /\ cid' \in {cid, cid \cup {j}} /\ UNCHANGED late
             \/ late' \in {late, late \cup {<<j, "container">>}} /\ UNCHANGED <<ctr, cid>>
          /\ UNCHANGED vol
  /\ Go(j, "cleanup")
  /\ UNCHANGED <<leaseVars, notes, gate, walk, verdict, out>>

(* What was created is inspected and noted. *)
NoteVolume(j) == Announce(j, "note_volume", Ready, "container")

NoteContainer(j) ==
  Announce(j, "note_container", [state |-> "container_ready", named |-> TRUE], "copy")

(* What is inspected, or found in the completion directory, is not what was *)
(* put there.                                                               *)
Mismatch == Fault

(* The request with its nonce goes into the created container, which is then *)
(* inspected once more with its volume.                                      *)
Copy(j) ==
  /\ pc[j] = "copy"
  /\ \/ ~Stopped(j) /\ Go(j, "start") /\ UNCHANGED left
     \/ Stopped(j) /\ Go(j, "cleanup") /\ UNCHANGED left
     \/ Mismatch /\ Go(j, "cleanup")
  /\ UNCHANGED <<leaseVars, stop, notes, engine, walk, verdict, out>>

Start(j) ==
  /\ pc[j] = "start"
  /\ IF Stopped(j) THEN Go(j, "cleanup") /\ UNCHANGED ctr
                   ELSE Go(j, "attached") /\ ctr' = [ctr EXCEPT ![j] = "running"]
  /\ UNCHANGED <<leaseVars, stop, notes, cid, vol, late, gate, walk, verdict, out, left>>

(* The wrapper in the container runs the gate as another user, waits until     *)
(* nothing of it is left, and publishes its exit under the request's nonce; or *)
(* it refuses, and publishes nothing.                                          *)
Published == {"passed", "failed"}

GateEnds(j) ==
  /\ ctr[j] = "running"
  /\ ctr' = [ctr EXCEPT ![j] = "exited"]
  /\ \E how \in Published \cup {"refused"} : gate' = [gate EXCEPT ![j] = how]
  /\ UNCHANGED <<leaseVars, pc, stop, notes, cid, vol, late, walk, verdict, out, left>>

(* The client sees the end of the container, or is cut off and the gate goes *)
(* on without it.                                                            *)
Attached(j) ==
  /\ pc[j] = "attached"
  /\ \/ ~Stopped(j) /\ ctr[j] = "exited" /\ UNCHANGED left
        /\ Go(j, IF gate[j] \in Published THEN "collect" ELSE "cleanup")
     \/ Stopped(j) /\ Go(j, "cleanup") /\ UNCHANGED left
     \/ Fault /\ Go(j, "cleanup")
  /\ UNCHANGED <<leaseVars, stop, notes, engine, walk, verdict, out>>

(* The exit code counts only with the artifact that repeats the nonce, copied *)
(* out of the exited container in time.                                       *)
Collect(j) ==
  /\ pc[j] = "collect"
  /\ \/ ~Stopped(j) /\ verdict' = [verdict EXCEPT ![j] = gate[j]] /\ UNCHANGED left
     \/ Stopped(j) /\ UNCHANGED <<verdict, left>>
     \/ Mismatch /\ UNCHANGED verdict
  /\ Go(j, "cleanup")
  /\ UNCHANGED <<leaseVars, stop, notes, engine, walk, out>>

(* Without a handle only the container is looked for, and there is none. *)
CleanWithoutHandle(j) ==
  /\ pc[j] = "cleanup" /\ j \notin open
  /\ Go(j, "finish")
  /\ UNCHANGED <<leaseVars, stop, notes, engine, walk, verdict, out, left>>

(* The completion directory is removed, and the end of the run goes before an *)
(* unproven cleanup, that before the deadline, and the gate's exit comes last. *)
Finish(j) ==
  /\ pc[j] = "finish"
  /\ \E clean, inTime \in BOOLEAN :
       /\ IF clean THEN UNCHANGED left ELSE Fault
       /\ Tell(j, IF "cancelled" \in stop[j] THEN "terminal"
                  ELSE IF out[j] = "unproven" \/ ~clean THEN "unproven"
                  ELSE IF ~inTime THEN "failure"
                  ELSE IF verdict[j] \in Published THEN "exit" ELSE "failure")
  /\ Go(j, "release")
  /\ open' = open \ {j} /\ torn' = torn \ {j}
  /\ UNCHANGED <<leaseVars, stop, record, engine, walk, verdict>>

-----------------------------------------------------------------------------
Lease(u) == Acquire(u) \/ Unavailable(u) \/ Release(u) \/ ReleaseFails(u)

Repair(u) ==
  \/ Reconcile(u) \/ Look(u) \/ RemoveContainer(u) \/ RemoveVolume(u) \/ Complete(u)
  \/ ReconcileFails(u) \/ Swept(u)

Execute(j) ==
  \/ Prepare(j) \/ AnnounceVolume(j) \/ AnnounceContainer(j) \/ Withdraw(j)
  \/ CreateVolume(j) \/ CreateContainer(j) \/ CutOff(j) \/ NoteVolume(j) \/ NoteContainer(j)
  \/ Copy(j) \/ Start(j) \/ Attached(j) \/ Collect(j) \/ CleanWithoutHandle(j) \/ Finish(j)

Next ==
  \/ \E p \in Procs : Boot(p) \/ Crash(p)
  \/ \E u \in Users : Lease(u) \/ Repair(u)
  \/ \E j \in Jobs : Submit(j) \/ CarryOut(j) \/ GateEnds(j) \/ Execute(j)
  \/ \E j \in Jobs, why \in {"late", "cancelled"} : StopWork(j, why)

Spec == Init /\ [][Next]_vars

(* The constants: every job is of a process, and none of them is nobody. *)
SandboxAssumption ==
  Home \in [Jobs -> Procs] /\ Jobs \cap Procs = {} /\ Nobody \notin Users

-----------------------------------------------------------------------------
(* Whatever the engine holds for a verification, or may still create for it,  *)
(* stands in a record on disk: no crash, cancellation, cut-off request or     *)
(* failed command leaves a container or a volume that no later sweep can find. *)
Unrecorded(j) ==
  /\ ctr[j] # "none" \/ j \in vol \/ <<j, "volume">> \in late \/ <<j, "container">> \in late
  /\ record[j] = NoRecord

(* Nothing is left behind unrecorded; and a gate's exit is reported only when *)
(* its container, its volume and its record are gone, and it is the exit the  *)
(* gate published there.                                                      *)
NothingLeftBehind ==
  \A j \in Jobs :
    /\ ~Unrecorded(j)
    /\ out[j] = "exit" =>
         /\ verdict[j] = gate[j] /\ record[j] = NoRecord
         /\ ctr[j] = "none" /\ j \notin vol \cup cid
         /\ \A what \in {"volume", "container"} : <<j, what>> \notin late
=============================================================================
