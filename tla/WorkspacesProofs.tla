---------------------------- MODULE WorkspacesProofs ----------------------------
(* Proofs about the components of Workspaces, one after the other, and about  *)
(* Workspaces itself in the end: for any executors, calls, ids, gates,        *)
(* projects and mutations, any number of failures and crashes, and whatever   *)
(* an earlier server left.                                                    *)
EXTENDS Workspaces, SequenceTheorems, TLAPS

(***************************************************************************)
(* The workspace of one attempt (AttemptWorkspaces).                       *)
(***************************************************************************)

(* The places from the first look inside the lock to its release. *)
Inside == {"publish", "add", "adding", "finalize", "sync", "confirm", "reconcile", "removing"}

(* Who is past the entry of create() is first in the attempt lock. *)
LockInv == \A e \in Execs : pc[e] \in Inside => A!Holds(e)

(* What an executor has made so far of the workspace it creates or takes over. *)
Creating(o) == marker.state = "creating" /\ marker.by = o
InsideOf(e) ==
    /\ pc[e] \in {"publish", "add"} => work = "absent"
    /\ pc[e] = "adding" => work = "partial"
    /\ pc[e] \in {"add", "adding", "finalize", "reconcile"} => Creating(owner[e])
    /\ pc[e] \in {"sync", "confirm", "removing"} => A!OwnedBy(owner[e])
    /\ pc[e] \in {"finalize", "sync", "confirm"} => work # "absent"
InsideInv == \A e \in Execs : InsideOf(e)

(* A workspace that was handed out stays as it was handed out until it is     *)
(* recorded, and after that for as long as the record says it is in use: the  *)
(* server may go down before the restart has read the record, but a restart   *)
(* leaves the record of an ended run as it is.                                *)
Owned(o) == work # "absent" /\ A!OwnedBy(o) /\ durable = marker
GivenInv ==
    row = A!NoRow => \A e \in Execs : pc[e] = "created" => Owned(owner[e]) \/ owner[e] \in robbed
InUse == row.cleanup = "active" /\ row.state \in {"running", "contribution_ready"} /\ (up \/ run = "ended")
RowInv == InUse /\ row.by \notin robbed => Owned(row.by)

DeadInv == ~up => \A e \in Execs : pc[e] = "done"

WorkInv == LockInv /\ InsideInv /\ GivenInv /\ RowInv /\ DeadInv
AttemptInv == A!TypeOK /\ WorkInv

(* The type of one executor's place. *)
LEMMA GoneTo ==
  ASSUME A!TypeOK, NEW e \in Execs, NEW p \in A!Places, pc' = [pc EXCEPT ![e] = p]
  PROVE  /\ pc' \in [Execs -> A!Places]
         /\ pc'[e] = p
         /\ \A d \in Execs : d # e => pc'[d] = pc[d]
BY DEF A!TypeOK

(* The places of the actions are places. *)
LEMMA AllPlaces ==
  \A p \in {"idle", "created", "compensate", "evidence", "working", "turned", "quiesced", "collected",
            "failing", "done", "entering", "publish", "add", "adding", "finalize", "sync", "confirm",
            "reconcile", "compensating", "removing"} : p \in A!Places
BY DEF A!Places, A!InLock

(* The lock: its holder stays first until it releases it. *)
LEMMA StaysFirst ==
  ASSUME A!TypeOK, LockInv, NEW e \in Execs, NEW p \in A!Places, pc' = [pc EXCEPT ![e] = p],
         lock' = lock, A!Holds(e) \/ p \notin Inside
  PROVE  LockInv'
BY GoneTo DEF LockInv, A!Holds

LEMMA Queues ==
  ASSUME A!TypeOK, LockInv, NEW e \in Execs, NEW p \in A!Places \ Inside, pc' = [pc EXCEPT ![e] = p],
         lock' = Append(lock, e)
  PROVE  LockInv' /\ lock' \in Seq(Execs)
<1>1. lock \in Seq(Execs)
  BY DEF A!TypeOK
<1>2. lock' \in Seq(Execs) /\ lock' # <<>> /\ (lock # <<>> => lock'[1] = lock[1])
  BY <1>1
<1> QED BY <1>2, GoneTo DEF LockInv, A!Holds

LEMMA LetsGo ==
  ASSUME A!TypeOK, LockInv, NEW e \in Execs, NEW p \in A!Places \ Inside, pc' = [pc EXCEPT ![e] = p],
         A!Holds(e), lock' = Tail(lock)
  PROVE  LockInv' /\ lock' \in Seq(Execs)
<1>1. lock' \in Seq(Execs)
  BY DEF A!TypeOK, A!Holds
<1>2. \A d \in Execs : d # e => pc'[d] \notin Inside
  BY GoneTo DEF LockInv, A!Holds
<1> QED BY <1>1, <1>2, GoneTo DEF LockInv

(***************************************************************************)
(* Types.                                                                  *)
(***************************************************************************)

(* What the actions make markers, records and budgets from. *)
LEMMA Made ==
  ASSUME A!TypeOK
  PROVE  /\ A!NoMarker \in A!Markers /\ A!NoRow \in A!Rows
         /\ [marker EXCEPT !.state = "ready"] \in A!Markers
         /\ \A e \in Execs : [state |-> "creating", by |-> e, base |-> snap[e].head] \in A!Markers
         /\ \A by \in Execs \cup {NoOwner} :
              /\ [by |-> by, state |-> "running", cleanup |-> "active"] \in A!Rows
              /\ [by |-> by, state |-> "failed", cleanup |-> "preserved"] \in A!Rows
         /\ A!Project \in [head : Nat, listed : BOOLEAN]
<1>1. A!NoMarker \in A!Markers /\ A!NoRow \in A!Rows
  BY DEF A!NoMarker, A!NoRow, A!Markers, A!Rows
<1>2. [marker EXCEPT !.state = "ready"] \in A!Markers
  BY DEF A!TypeOK, A!Markers
<1>3. \A e \in Execs : [state |-> "creating", by |-> e, base |-> snap[e].head] \in A!Markers
  <2>1. \A e \in Execs : snap[e].head \in Nat
    BY DEF A!TypeOK
  <2> QED BY <2>1 DEF A!Markers
<1>4. \A by \in Execs \cup {NoOwner} :
        /\ [by |-> by, state |-> "running", cleanup |-> "active"] \in A!Rows
        /\ [by |-> by, state |-> "failed", cleanup |-> "preserved"] \in A!Rows
  BY DEF A!Rows
<1>5. A!Project \in [head : Nat, listed : BOOLEAN]
  <2>1. (row # A!NoRow) \in BOOLEAN
    OBVIOUS
  <2> QED BY <2>1 DEF A!TypeOK, A!Project
<1> QED BY <1>1, <1>2, <1>3, <1>4, <1>5

(* A record that takes over parts of another one. *)
LEMMA MadeRows ==
  ASSUME row \in A!Rows
  PROVE  /\ \A s \in {"contribution_ready", "integrated", "failed", "cancelled"} :
              [row EXCEPT !.state = s] \in A!Rows
         /\ \A c \in {"preserved", "removed", "active", row.cleanup} : [row EXCEPT !.cleanup = c] \in A!Rows
         /\ \A s \in {"failed", "cancelled", row.state}, c \in {"preserved", "removed", "active", row.cleanup} :
              [row EXCEPT !.state = s, !.cleanup = c] \in A!Rows /\ [row EXCEPT !.cleanup = c, !.state = s] \in A!Rows
BY DEF A!Rows

LEMMA Spent ==
  ASSUME A!TypeOK, NEW f \in {"faults", "writes", "crashes", "siblings"}, A!Spend(f)
  PROVE  left' \in [faults : Nat, writes : Nat, crashes : Nat, siblings : Nat, execs : SUBSET Execs]
<1>1. left[f] \in Nat /\ left[f] > 0 /\ left[f] - 1 \in Nat
  BY DEF A!TypeOK, A!Spend
<1>2. left' = [left EXCEPT ![f] = left[f] - 1]
  BY DEF A!Spend
<1> QED BY <1>1, <1>2 DEF A!TypeOK

(* An executor's step keeps the types, whatever place it leaves. *)
LEMMA TypeStep ==
  ASSUME A!TypeOK, LockInv, NEW e \in Execs, A!Ask(e) \/ A!Step(e) \/ A!Write(e)
  PROVE  A!TypeOK'
<1>0. /\ Append(lock, e) \in Seq(Execs) /\ (lock # <<>> => Tail(lock) \in Seq(Execs))
      /\ contended \subseteq Execs /\ (pc[e] \in Inside => lock # <<>>)
      /\ row \in A!Rows /\ owner[e] \in Execs \cup {NoOwner}
      /\ marker \in A!Markers /\ durable \in A!Markers /\ marker.by \in Execs \cup {NoOwner}
  BY DEF A!TypeOK, A!Markers, LockInv, A!Holds
<1>1. CASE A!Ask(e)
  <2>1. pc' \in [Execs -> A!Places]
    BY <1>0, <1>1, GoneTo, AllPlaces DEF A!TypeOK, A!Ask, A!Goto, A!GivesUp
  <2>2. lock' \in Seq(Execs) /\ contended' \subseteq Execs
    BY <1>0, <1>1 DEF A!Ask, A!Acquires, A!Releases, A!GivesUp, A!Holds, A!locks, A!At, Inside
  <2>3. snap' \in [Execs -> [head : Nat, listed : BOOLEAN]]
    BY <1>0, <1>1, Made DEF A!TypeOK, A!Ask
  <2> QED BY <1>1, <2>1, <2>2, <2>3 DEF A!TypeOK, A!Ask, A!files, A!canon, A!locks, A!mine
<1>2. CASE A!Write(e)
  <2>1. work' \in A!Contents
    BY <1>0, <1>2 DEF A!TypeOK, A!Write, A!Contents, A!files
  <2> QED BY <1>2, <2>1 DEF A!TypeOK, A!Write, A!files, A!canon, A!locks, A!mine
<1>3. CASE A!Enter(e)
  <2>1. pc' \in [Execs -> A!Places]
    BY <1>0, <1>3, GoneTo, AllPlaces DEF A!TypeOK, A!Enter, A!Goto, A!GivesUp
  <2>2. lock' \in Seq(Execs) /\ contended' \subseteq Execs
    BY <1>0, <1>3 DEF A!Enter, A!Acquires, A!Releases, A!GivesUp, A!Holds, A!locks, A!At, Inside
  <2>3. marker' \in A!Markers
    BY <1>0, <1>3, Made DEF A!TypeOK, A!Enter, A!files
  <2>4. durable' \in A!Markers
    BY <1>0, <1>3, Made DEF A!TypeOK, A!Enter, A!files
  <2>5. owner' \in [Execs -> Execs \cup {NoOwner}]
    BY <1>0, <1>3 DEF A!TypeOK, A!Enter
  <2> QED BY <1>3, <2>1, <2>2, <2>3, <2>4, <2>5 DEF A!TypeOK, A!Enter, A!files, A!canon, A!locks, A!mine
<1>4. CASE A!PublishCreating(e)
  <2>1. pc' \in [Execs -> A!Places]
    BY <1>0, <1>4, GoneTo, AllPlaces DEF A!TypeOK, A!PublishCreating, A!Goto, A!GivesUp
  <2>2. lock' \in Seq(Execs) /\ contended' \subseteq Execs
    <3>1. lock # <<>>
      BY <1>0, <1>4 DEF A!PublishCreating, A!At, Inside
    <3>2. /\ lock' = lock \/ lock' = Tail(lock)
          /\ contended' = contended
      BY <1>4 DEF A!PublishCreating, A!GivesUp, A!Releases, A!locks
    <3>3. lock \in Seq(Execs)
      BY DEF A!TypeOK
    <3> QED BY <1>0, <3>1, <3>2, <3>3
  <2>3. left' \in [faults : Nat, writes : Nat, crashes : Nat, siblings : Nat, execs : SUBSET Execs]
    BY <1>0, <1>4, Spent DEF A!TypeOK, A!PublishCreating, A!Fault, A!WriteFails
  <2>4. marker' \in A!Markers
    BY <1>0, <1>4, Made DEF A!TypeOK, A!PublishCreating, A!files
  <2>5. durable' \in A!Markers
    BY <1>0, <1>4, Made DEF A!TypeOK, A!PublishCreating, A!files
  <2>6. owner' \in [Execs -> Execs \cup {NoOwner}]
    BY <1>0, <1>4 DEF A!TypeOK, A!PublishCreating
  <2> QED BY <1>4, <2>1, <2>2, <2>3, <2>4, <2>5, <2>6 DEF A!TypeOK, A!PublishCreating, A!files,
     A!canon, A!locks, A!mine
<1>5. CASE A!AddBegins(e)
  <2>1. work' \in A!Contents
    BY <1>0, <1>5 DEF A!TypeOK, A!AddBegins, A!Contents, A!files
  <2>2. pc' \in [Execs -> A!Places]
    BY <1>0, <1>5, GoneTo, AllPlaces DEF A!TypeOK, A!AddBegins, A!Goto, A!GivesUp
  <2> QED BY <1>5, <2>1, <2>2 DEF A!TypeOK, A!AddBegins, A!files, A!canon, A!locks, A!mine
<1>6. CASE A!AddEnds(e)
  <2>1. work' \in A!Contents
    BY <1>0, <1>6 DEF A!TypeOK, A!AddEnds, A!Contents, A!files
  <2>2. pc' \in [Execs -> A!Places]
    BY <1>0, <1>6, GoneTo, AllPlaces DEF A!TypeOK, A!AddEnds, A!Goto, A!GivesUp
  <2> QED BY <1>6, <2>1, <2>2 DEF A!TypeOK, A!AddEnds, A!files, A!canon, A!locks, A!mine
<1>7. CASE A!AddFails(e)
  <2>1. work' \in A!Contents
    BY <1>0, <1>7 DEF A!TypeOK, A!AddFails, A!Contents, A!files
  <2>2. pc' \in [Execs -> A!Places]
    BY <1>0, <1>7, GoneTo, AllPlaces DEF A!TypeOK, A!AddFails, A!Goto, A!GivesUp
  <2>3. left' \in [faults : Nat, writes : Nat, crashes : Nat, siblings : Nat, execs : SUBSET Execs]
    BY <1>0, <1>7, Spent DEF A!TypeOK, A!AddFails, A!Fault, A!WriteFails
  <2> QED BY <1>7, <2>1, <2>2, <2>3 DEF A!TypeOK, A!AddFails, A!files, A!canon, A!locks, A!mine
<1>8. CASE A!RenameReady(e)
  <2>1. marker' \in A!Markers
    BY <1>0, <1>8, Made DEF A!TypeOK, A!RenameReady, A!files
  <2>2. pc' \in [Execs -> A!Places]
    BY <1>0, <1>8, GoneTo, AllPlaces DEF A!TypeOK, A!RenameReady, A!Goto, A!GivesUp
  <2> QED BY <1>8, <2>1, <2>2 DEF A!TypeOK, A!RenameReady, A!files, A!canon, A!locks, A!mine
<1>9. CASE A!RenameFails(e)
  <2>1. pc' \in [Execs -> A!Places]
    BY <1>0, <1>9, GoneTo, AllPlaces DEF A!TypeOK, A!RenameFails, A!Goto, A!GivesUp
  <2>2. lock' \in Seq(Execs) /\ contended' \subseteq Execs
    <3>1. lock # <<>>
      BY <1>0, <1>9 DEF A!RenameFails, A!At, Inside
    <3>2. (lock' = lock \/ lock' = Tail(lock)) /\ contended' = contended
      BY <1>9 DEF A!RenameFails, A!GivesUp, A!Releases, A!locks
    <3>3. lock \in Seq(Execs)
      BY DEF A!TypeOK
    <3> QED BY <1>0, <3>1, <3>2, <3>3
  <2>3. left' \in [faults : Nat, writes : Nat, crashes : Nat, siblings : Nat, execs : SUBSET Execs]
    BY <1>0, <1>9, Spent DEF A!TypeOK, A!RenameFails, A!Fault, A!WriteFails
  <2> QED BY <1>9, <2>1, <2>2, <2>3 DEF A!TypeOK, A!RenameFails, A!files, A!canon, A!locks, A!mine
<1>10. CASE A!SyncReady(e)
  <2>1. pc' \in [Execs -> A!Places]
    BY <1>0, <1>10, GoneTo, AllPlaces DEF A!TypeOK, A!SyncReady, A!Goto, A!GivesUp, A!Synced
  <2>2. lock' \in Seq(Execs) /\ contended' \subseteq Execs
    BY <1>0, <1>10 DEF A!SyncReady, A!Acquires, A!Releases, A!GivesUp, A!Holds, A!locks, A!At,
       Inside, A!Synced
  <2>3. durable' \in A!Markers
    BY <1>0, <1>10, Made DEF A!TypeOK, A!SyncReady, A!files, A!Synced
  <2> QED BY <1>10, <2>1, <2>2, <2>3 DEF A!TypeOK, A!SyncReady, A!files, A!canon, A!locks, A!mine
<1>11. CASE A!SyncFails(e)
  <2>1. pc' \in [Execs -> A!Places]
    BY <1>0, <1>11, GoneTo, AllPlaces DEF A!TypeOK, A!SyncFails, A!Goto, A!GivesUp
  <2>2. lock' \in Seq(Execs) /\ contended' \subseteq Execs
    BY <1>0, <1>11 DEF A!SyncFails, A!Acquires, A!Releases, A!GivesUp, A!Holds, A!locks, A!At, Inside
  <2>3. left' \in [faults : Nat, writes : Nat, crashes : Nat, siblings : Nat, execs : SUBSET Execs]
    BY <1>0, <1>11, Spent DEF A!TypeOK, A!SyncFails, A!Fault, A!WriteFails
  <2> QED BY <1>11, <2>1, <2>2, <2>3 DEF A!TypeOK, A!SyncFails, A!files, A!canon, A!locks, A!mine
<1>12. CASE A!Reconcile(e)
  <2>1. pc' \in [Execs -> A!Places]
    BY <1>0, <1>12, GoneTo, AllPlaces DEF A!TypeOK, A!Reconcile, A!Goto, A!GivesUp
  <2>2. lock' \in Seq(Execs) /\ contended' \subseteq Execs
    BY <1>0, <1>12 DEF A!Reconcile, A!Acquires, A!Releases, A!GivesUp, A!Holds, A!locks, A!At, Inside
  <2>3. left' \in [faults : Nat, writes : Nat, crashes : Nat, siblings : Nat, execs : SUBSET Execs]
    BY <1>0, <1>12, Spent DEF A!TypeOK, A!Reconcile, A!Fault, A!WriteFails
  <2>4. marker' \in A!Markers
    BY <1>0, <1>12, Made DEF A!TypeOK, A!Reconcile, A!files
  <2>5. durable' \in A!Markers
    BY <1>0, <1>12, Made DEF A!TypeOK, A!Reconcile, A!files
  <2> QED BY <1>12, <2>1, <2>2, <2>3, <2>4, <2>5 DEF A!TypeOK, A!Reconcile, A!files, A!canon,
     A!locks, A!mine
<1>13. CASE A!PersistStarted(e)
  <2>1. pc' \in [Execs -> A!Places]
    BY <1>0, <1>13, GoneTo, AllPlaces DEF A!TypeOK, A!PersistStarted, A!Goto, A!GivesUp
  <2>2. row' \in A!Rows
    BY <1>0, <1>13, Made, MadeRows DEF A!TypeOK, A!PersistStarted
  <2>3. alive' \subseteq Execs
    BY <1>0, <1>13 DEF A!TypeOK, A!PersistStarted
  <2>4. left' \in [faults : Nat, writes : Nat, crashes : Nat, siblings : Nat, execs : SUBSET Execs]
    BY <1>0, <1>13, Spent DEF A!TypeOK, A!PersistStarted, A!Fault, A!WriteFails
  <2> QED BY <1>13, <2>1, <2>2, <2>3, <2>4 DEF A!TypeOK, A!PersistStarted, A!files, A!canon,
     A!locks, A!mine
<1>14. CASE A!Compensate(e)
  <2>1. pc' \in [Execs -> A!Places]
    BY <1>0, <1>14, GoneTo, AllPlaces DEF A!TypeOK, A!Compensate, A!Goto, A!GivesUp
  <2>2. lock' \in Seq(Execs) /\ contended' \subseteq Execs
    <3>1. \/ lock' = lock /\ contended' = contended
          \/ lock' = Append(lock, e) /\ contended' \in {contended \ {e}, contended \cup {e}}
      BY <1>14 DEF A!Compensate, A!Acquires, A!locks
    <3>2. lock \in Seq(Execs)
      BY DEF A!TypeOK
    <3> QED BY <1>0, <3>1, <3>2
  <2>3. snap' \in [Execs -> [head : Nat, listed : BOOLEAN]]
    BY <1>0, <1>14, Made DEF A!TypeOK, A!Compensate
  <2> QED BY <1>14, <2>1, <2>2, <2>3 DEF A!TypeOK, A!Compensate, A!files, A!canon, A!locks, A!mine
<1>15. CASE A!LookUnpersisted(e) \/ A!RemoveUnpersisted(e)
  <2>1. pc' \in [Execs -> A!Places]
    BY <1>0, <1>15, GoneTo, AllPlaces DEF A!TypeOK, A!LookUnpersisted, A!RemoveUnpersisted, A!Goto
  <2>2. lock' \in Seq(Execs) /\ contended' \subseteq Execs
    BY <1>0, <1>15 DEF A!LookUnpersisted, A!RemoveUnpersisted, A!Releases, A!Holds, A!locks
  <2>3. marker' \in A!Markers /\ durable' \in A!Markers
    BY <1>0, <1>15, Made DEF A!LookUnpersisted, A!RemoveUnpersisted, A!RemovesTree, A!KeepsTree, A!files
  <2>4. work' \in A!Contents
    BY <1>0, <1>15 DEF A!TypeOK, A!LookUnpersisted, A!RemoveUnpersisted, A!RemovesTree, A!KeepsTree,
       A!Contents, A!files
  <2>5. left' \in [faults : Nat, writes : Nat, crashes : Nat, siblings : Nat, execs : SUBSET Execs]
    BY <1>0, <1>15, Spent DEF A!TypeOK, A!LookUnpersisted, A!RemoveUnpersisted, A!KeepsTree, A!Fault
  <2>6. robbed' \subseteq Execs \cup {NoOwner}
    BY <1>0, <1>15 DEF A!TypeOK, A!LookUnpersisted, A!RemoveUnpersisted, A!Robs
  <2>7. looked' \in A!Contents \cup {"none", "kept"}
    BY <1>15 DEF A!TypeOK, A!LookUnpersisted, A!RemoveUnpersisted
  <2>8. UNCHANGED <<alive, row, head, tree, run, up, snap, owner>>
    BY <1>15 DEF A!LookUnpersisted, A!RemoveUnpersisted, A!canon
  <2> QED BY <2>1, <2>2, <2>3, <2>4, <2>5, <2>6, <2>7, <2>8 DEF A!TypeOK
<1>16. CASE A!Evidence(e)
  <2>1. pc' \in [Execs -> A!Places]
    BY <1>0, <1>16, GoneTo, AllPlaces DEF A!TypeOK, A!Evidence, A!Goto, A!GivesUp
  <2>2. row' \in A!Rows
    BY <1>0, <1>16, Made, MadeRows DEF A!TypeOK, A!Evidence
  <2>3. left' \in [faults : Nat, writes : Nat, crashes : Nat, siblings : Nat, execs : SUBSET Execs]
    BY <1>0, <1>16, Spent DEF A!TypeOK, A!Evidence, A!Fault, A!WriteFails
  <2> QED BY <1>16, <2>1, <2>2, <2>3 DEF A!TypeOK, A!Evidence, A!files, A!canon, A!locks, A!mine
<1>17. CASE A!TurnEnds(e)
  <2>1. pc' \in [Execs -> A!Places]
    BY <1>0, <1>17, GoneTo, AllPlaces DEF A!TypeOK, A!TurnEnds, A!Goto, A!GivesUp
  <2> QED BY <1>17, <2>1 DEF A!TypeOK, A!TurnEnds, A!files, A!canon, A!locks, A!mine
<1>18. CASE A!Quiesce(e)
  <2>1. pc' \in [Execs -> A!Places]
    BY <1>0, <1>18, GoneTo, AllPlaces DEF A!TypeOK, A!Quiesce, A!Goto, A!GivesUp
  <2>2. alive' \subseteq Execs
    BY <1>0, <1>18 DEF A!TypeOK, A!Quiesce
  <2>3. left' \in [faults : Nat, writes : Nat, crashes : Nat, siblings : Nat, execs : SUBSET Execs]
    BY <1>0, <1>18, Spent DEF A!TypeOK, A!Quiesce, A!Fault, A!WriteFails
  <2> QED BY <1>18, <2>1, <2>2, <2>3 DEF A!TypeOK, A!Quiesce, A!files, A!canon, A!locks, A!mine
<1>19. CASE A!Collect(e)
  <2>1. pc' \in [Execs -> A!Places]
    BY <1>0, <1>19, GoneTo, AllPlaces DEF A!TypeOK, A!Collect, A!Goto, A!GivesUp
  <2> QED BY <1>19, <2>1 DEF A!TypeOK, A!Collect, A!files, A!canon, A!locks, A!mine
<1>20. CASE A!PersistReady(e)
  <2>1. pc' \in [Execs -> A!Places]
    BY <1>0, <1>20, GoneTo, AllPlaces DEF A!TypeOK, A!PersistReady, A!Goto, A!GivesUp, A!OwnsRunning
  <2>2. row' \in A!Rows
    BY <1>0, <1>20, Made, MadeRows DEF A!TypeOK, A!PersistReady, A!OwnsRunning
  <2>3. left' \in [faults : Nat, writes : Nat, crashes : Nat, siblings : Nat, execs : SUBSET Execs]
    BY <1>0, <1>20, Spent DEF A!TypeOK, A!PersistReady, A!Fault, A!WriteFails, A!OwnsRunning
  <2> QED BY <1>20, <2>1, <2>2, <2>3 DEF A!TypeOK, A!PersistReady, A!files, A!canon, A!locks, A!mine
<1>21. CASE A!Fail(e)
  <2>1. pc' \in [Execs -> A!Places]
    BY <1>0, <1>21, GoneTo, AllPlaces DEF A!TypeOK, A!Fail, A!Goto, A!GivesUp, A!OwnsRunning, A!Verdict
  <2>2. row' \in A!Rows
    BY <1>0, <1>21, Made, MadeRows DEF A!TypeOK, A!Fail, A!OwnsRunning, A!Verdict
  <2>3. left' \in [faults : Nat, writes : Nat, crashes : Nat, siblings : Nat, execs : SUBSET Execs]
    BY <1>0, <1>21, Spent DEF A!TypeOK, A!Fail, A!Fault, A!WriteFails, A!OwnsRunning, A!Verdict
  <2>4. alive' \subseteq Execs
    BY <1>0, <1>21 DEF A!TypeOK, A!Fail, A!OwnsRunning, A!Verdict
  <2> QED BY <1>21, <2>1, <2>2, <2>3, <2>4 DEF A!TypeOK, A!Fail, A!files, A!canon, A!locks, A!mine
<1> QED BY <1>1, <1>2, <1>3, <1>4, <1>5, <1>6, <1>7, <1>8, <1>9, <1>10, <1>11, <1>12, <1>13,
   <1>14, <1>15, <1>16, <1>17, <1>18, <1>19, <1>20, <1>21 DEF A!Step

(* Settlements, a crash and a restart keep the types. *)
LEMMA TypeAround ==
  ASSUME A!TypeOK, A!Settlement \/ A!Crash \/ A!Boot
  PROVE  A!TypeOK'
<1>0. row \in A!Rows /\ marker \in A!Markers /\ durable \in A!Markers /\ head \in Nat /\ tree \in Nat
  BY DEF A!TypeOK
<1>1. CASE A!SiblingApplies
  <2>1. left' \in [faults : Nat, writes : Nat, crashes : Nat, siblings : Nat, execs : SUBSET Execs]
    BY <1>0, <1>1, Spent DEF A!TypeOK, A!SiblingApplies, A!Fault
  <2>2. tree' \in Nat
    BY <1>0, <1>1 DEF A!SiblingApplies
  <2> QED BY <1>1, <2>1, <2>2 DEF A!TypeOK, A!SiblingApplies, A!files, A!canon, A!locks, A!mine
<1>2. CASE A!SiblingDecides
  BY <1>0, <1>2 DEF A!TypeOK, A!SiblingDecides, A!files, A!canon, A!locks, A!mine
<1>3. CASE A!Settle
  <2>1. row' \in A!Rows
    BY <1>0, <1>3, MadeRows DEF A!Settle
  <2>2. head' \in Nat /\ tree' \in Nat
    BY <1>0, <1>3 DEF A!Settle, A!canon
  <2> QED BY <1>3, <2>1, <2>2 DEF A!TypeOK, A!Settle, A!files, A!canon, A!locks, A!mine
<1>4. CASE A!RemoveIntegrated
  <2>1. marker' \in A!Markers /\ durable' \in A!Markers /\ work' \in A!Contents
    BY <1>0, <1>4, Made DEF A!RemoveIntegrated, A!Contents
  <2> QED BY <1>4, <2>1 DEF A!TypeOK, A!RemoveIntegrated, A!files, A!canon, A!locks, A!mine
<1>5. CASE A!RecordCleanup
  <2>1. row' \in A!Rows
    BY <1>0, <1>5, MadeRows DEF A!RecordCleanup
  <2>2. left' \in [faults : Nat, writes : Nat, crashes : Nat, siblings : Nat, execs : SUBSET Execs]
    BY <1>0, <1>5, Spent DEF A!TypeOK, A!RecordCleanup, A!Fault
  <2> QED BY <1>5, <2>1, <2>2 DEF A!TypeOK, A!RecordCleanup, A!files, A!canon, A!locks, A!mine
<1>6. CASE A!Cancel
  BY <1>0, <1>6 DEF A!TypeOK, A!Cancel, A!files, A!canon, A!locks, A!mine
<1>7. CASE A!PersistFence
  <2>1. row' \in A!Rows
    BY <1>0, <1>7, MadeRows DEF A!PersistFence
  <2> QED BY <1>7, <2>1 DEF A!TypeOK, A!PersistFence, A!files, A!canon, A!locks, A!mine
<1>8. CASE A!RunEnds
  BY <1>0, <1>8 DEF A!TypeOK, A!RunEnds, A!files, A!canon, A!locks, A!mine
<1>9. CASE A!Crash
  <2>1. left' \in [faults : Nat, writes : Nat, crashes : Nat, siblings : Nat, execs : SUBSET Execs]
    BY <1>0, <1>9, Spent DEF A!TypeOK, A!Crash, A!Fault
  <2>2. pc' \in [Execs -> A!Places]
    BY <1>0, <1>9, AllPlaces DEF A!Crash
  <2>3. lock' \in Seq(Execs) /\ contended' \subseteq Execs
    BY <1>0, <1>9 DEF A!Crash
  <2>4. marker' \in A!Markers /\ durable' \in A!Markers
    BY <1>0, <1>9 DEF A!Crash
  <2> QED BY <1>9, <2>1, <2>2, <2>3, <2>4 DEF A!TypeOK, A!Crash, A!files, A!canon, A!locks, A!mine
<1>10. CASE A!BootLooks \/ A!BootRemoves
  <2>1. marker' \in A!Markers /\ durable' \in A!Markers /\ work' \in A!Contents
    BY <1>0, <1>10, Made DEF A!TypeOK, A!BootLooks, A!BootRemoves, A!RemovesTree, A!KeepsTree, A!Contents, A!files
  <2>2. left' \in [faults : Nat, writes : Nat, crashes : Nat, siblings : Nat, execs : SUBSET Execs]
    BY <1>10, Spent DEF A!TypeOK, A!BootLooks, A!BootRemoves, A!KeepsTree, A!Fault
  <2>3. looked' \in A!Contents \cup {"none", "kept"}
    BY <1>10 DEF A!TypeOK, A!BootLooks, A!BootRemoves
  <2>4. UNCHANGED <<alive, row, head, tree, run, up, lock, contended, pc, snap, owner, robbed>>
    BY <1>10 DEF A!BootLooks, A!BootRemoves, A!canon, A!locks, A!mine
  <2> QED BY <2>1, <2>2, <2>3, <2>4 DEF A!TypeOK
<1>11. CASE A!BootRecords
  <2>1. row' \in A!Rows
    BY <1>0, <1>11, MadeRows DEF A!BootRecords
  <2> QED BY <1>11, <2>1 DEF A!TypeOK, A!BootRecords, A!files, A!canon, A!locks, A!mine
<1> QED BY <1>1, <1>2, <1>3, <1>4, <1>5, <1>6, <1>7, <1>8, <1>9, <1>10, <1>11 DEF A!Settlement, A!Boot

LEMMA AttemptInit ==
  ASSUME A!SetupAssumption, A!Init
  PROVE  AttemptInv
<1>1. A!NoMarker \in A!Markers /\ A!NoRow \in A!Rows /\ A!NoRow.cleanup # "active"
  BY DEF A!NoMarker, A!NoRow, A!Markers, A!Rows
<1>2. pc \in [Execs -> A!Places] /\ \A e \in Execs : pc[e] = "idle"
  BY AllPlaces DEF A!Init
<1>3. A!TypeOK
  BY <1>1, <1>2 DEF A!TypeOK, A!Init, A!SetupAssumption, A!Contents
<1>4. WorkInv
  BY <1>1, <1>2 DEF A!Init, WorkInv, LockInv, Inside, InsideInv, InsideOf, GivenInv, RowInv,
     InUse, DeadInv
<1> QED BY <1>3, <1>4 DEF AttemptInv

(***************************************************************************)
(* The lock and what is made inside it.                                    *)
(***************************************************************************)

LEMMA LockKept ==
  ASSUME A!TypeOK, LockInv, NEW e \in Execs, NEW p \in A!Places, pc' = [pc EXCEPT ![e] = p],
         \/ lock' = lock /\ (A!Holds(e) \/ p \notin Inside)
         \/ lock' = Append(lock, e) /\ p \notin Inside
         \/ lock' = Tail(lock) /\ A!Holds(e) /\ p \notin Inside
  PROVE  LockInv'
BY StaysFirst, Queues, LetsGo

(* Nobody else is inside. *)
LEMMA Alone ==
  ASSUME A!TypeOK, LockInv, NEW e \in Execs, A!Holds(e), NEW p \in A!Places, pc' = [pc EXCEPT ![e] = p]
  PROVE  pc'[e] = p /\ \A d \in Execs \ {e} : pc[d] \notin Inside /\ pc'[d] = pc[d]
BY GoneTo DEF LockInv, A!Holds

(* A step after which the executor is not inside, and that makes nothing. *)
LEMMA InsideLeft ==
  ASSUME A!TypeOK, InsideInv, NEW e \in Execs, NEW p \in A!Places \ Inside, pc' = [pc EXCEPT ![e] = p],
         marker' = marker, work' = work, owner' = owner
  PROVE  InsideInv'
BY GoneTo DEF InsideInv, InsideOf, Inside, Creating, A!OwnedBy

(* The other executors keep what they were given. *)
LEMMA GivenKept ==
  ASSUME A!TypeOK, GivenInv, NEW e \in Execs, NEW p \in A!Places, pc' = [pc EXCEPT ![e] = p],
         row' = A!NoRow => row = A!NoRow, robbed \subseteq robbed',
         p = "created" => Owned(owner[e])' \/ owner[e]' \in robbed',
         \A d \in Execs \ {e} :
           /\ owner'[d] = owner[d]
           /\ pc[d] = "created" /\ Owned(owner[d]) => Owned(owner[d])' \/ owner[d] \in robbed'
  PROVE  GivenInv'
<1> SUFFICES ASSUME row' = A!NoRow, NEW d \in Execs, pc'[d] = "created"
             PROVE  Owned(owner[d])' \/ owner[d]' \in robbed'
  BY DEF GivenInv
<1>1. CASE d = e
  BY <1>1, GoneTo
<1>2. CASE d # e
  <2>1. pc[d] = "created" /\ owner'[d] = owner[d]
    BY <1>2, GoneTo
  <2>2. Owned(owner[d]) \/ owner[d] \in robbed
    BY <2>1 DEF GivenInv
  <2> QED BY <1>2, <2>1, <2>2 DEF Owned, A!OwnedBy
<1> QED BY <1>1, <1>2

(* The record stays true while it is not written. *)
LEMMA RowKept ==
  ASSUME RowInv, row' = row, up' = up, run' = run, robbed \subseteq robbed',
         Owned(row.by) => Owned(row.by)' \/ row.by \in robbed'
  PROVE  RowInv'
BY DEF RowInv, InUse

LEMMA UpStays ==
  ASSUME DeadInv, up, up' = up
  PROVE  DeadInv'
BY DEF DeadInv

(* Steps that leave the workspace, its marker and its record alone, and end   *)
(* outside of the lock without a workspace.                                   *)
LEMMA QuietAttempt ==
  ASSUME A!TypeOK, WorkInv, NEW e \in Execs, NEW p \in A!Places \ (Inside \cup {"created"}),
         pc' = [pc EXCEPT ![e] = p], up, LockInv',
         UNCHANGED A!files, UNCHANGED <<row, run, up, owner, robbed>>
  PROVE  WorkInv'
<1>1. marker' = marker /\ durable' = durable /\ work' = work
  BY DEF A!files
<1>2. row' = row /\ run' = run /\ up' = up /\ owner' = owner /\ robbed' = robbed
  OBVIOUS
<1>3. InsideInv'
  BY <1>1, <1>2, InsideLeft DEF WorkInv
<1>4. GivenInv'
  BY <1>1, <1>2, GivenKept DEF WorkInv, Owned, A!OwnedBy
<1>5. RowInv'
  BY <1>1, <1>2, RowKept DEF WorkInv, Owned, A!OwnedBy
<1> QED BY <1>2, <1>3, <1>4, <1>5, UpStays DEF WorkInv

LEMMA QuietActions ==
  ASSUME A!TypeOK, WorkInv, NEW e \in Execs,
         A!Ask(e) \/ A!Compensate(e) \/ A!TurnEnds(e) \/ A!Quiesce(e) \/ A!Collect(e)
  PROVE  WorkInv'
<1>1. CASE A!Ask(e)
  <2>1. PICK p \in A!Places \ (Inside \cup {"created"}) :
          pc' = [pc EXCEPT ![e] = p] /\ (lock' = lock \/ lock' = Append(lock, e))
    BY <1>1, AllPlaces DEF A!Ask, A!Goto, Inside, A!locks, A!Acquires
  <2>2. up /\ UNCHANGED A!files /\ UNCHANGED <<row, run, up, owner, robbed>>
    BY <1>1 DEF A!Ask, A!At, A!mine
  <2>3. LockInv'
    BY <2>1, LockKept DEF WorkInv
  <2> QED BY <2>1, <2>2, <2>3, QuietAttempt
<1>2. CASE A!Compensate(e)
  <2>1. PICK p \in A!Places \ (Inside \cup {"created"}) :
          pc' = [pc EXCEPT ![e] = p] /\ (lock' = lock \/ lock' = Append(lock, e))
    BY <1>2, AllPlaces DEF A!Compensate, A!Goto, Inside, A!locks, A!Acquires
  <2>2. up /\ UNCHANGED A!files /\ UNCHANGED <<row, run, up, owner, robbed>>
    BY <1>2 DEF A!Compensate, A!At, A!mine
  <2>3. LockInv'
    BY <2>1, LockKept DEF WorkInv
  <2> QED BY <2>1, <2>2, <2>3, QuietAttempt
<1>3. CASE A!TurnEnds(e)
  <2>1. PICK p \in A!Places \ (Inside \cup {"created"}) :
          pc' = [pc EXCEPT ![e] = p] /\ (lock' = lock \/ lock' = Append(lock, e))
    BY <1>3, AllPlaces DEF A!TurnEnds, A!Goto, Inside, A!locks, A!Acquires
  <2>2. up /\ UNCHANGED A!files /\ UNCHANGED <<row, run, up, owner, robbed>>
    BY <1>3 DEF A!TurnEnds, A!At, A!mine
  <2>3. LockInv'
    BY <2>1, LockKept DEF WorkInv
  <2> QED BY <2>1, <2>2, <2>3, QuietAttempt
<1>4. CASE A!Quiesce(e)
  <2>1. PICK p \in A!Places \ (Inside \cup {"created"}) :
          pc' = [pc EXCEPT ![e] = p] /\ (lock' = lock \/ lock' = Append(lock, e))
    BY <1>4, AllPlaces DEF A!Quiesce, A!Goto, Inside, A!locks, A!Acquires
  <2>2. up /\ UNCHANGED A!files /\ UNCHANGED <<row, run, up, owner, robbed>>
    BY <1>4 DEF A!Quiesce, A!At, A!mine
  <2>3. LockInv'
    BY <2>1, LockKept DEF WorkInv
  <2> QED BY <2>1, <2>2, <2>3, QuietAttempt
<1>5. CASE A!Collect(e)
  <2>1. PICK p \in A!Places \ (Inside \cup {"created"}) :
          pc' = [pc EXCEPT ![e] = p] /\ (lock' = lock \/ lock' = Append(lock, e))
    <3>1. lock' = lock
      BY <1>5 DEF A!Collect, A!locks
    <3>2. A!Goto(e, "collected") \/ A!Goto(e, "failing")
      BY <1>5 DEF A!Collect
    <3> QED BY <3>1, <3>2, AllPlaces DEF A!Goto, Inside
  <2>2. up /\ UNCHANGED A!files /\ UNCHANGED <<row, run, up, owner, robbed>>
    BY <1>5 DEF A!Collect, A!At, A!mine
  <2>3. LockInv'
    BY <2>1, LockKept DEF WorkInv
  <2> QED BY <2>1, <2>2, <2>3, QuietAttempt
<1> QED BY <1>1, <1>2, <1>3, <1>4, <1>5

(***************************************************************************)
(* create().                                                               *)
(***************************************************************************)

(* A step of the holder of the lock that takes away no workspace. *)
LEMMA InsideStep ==
  ASSUME A!TypeOK, WorkInv, NEW e \in Execs, NEW p \in A!Places, pc' = [pc EXCEPT ![e] = p], up, A!Holds(e),
         lock' = lock \/ (lock' = Tail(lock) /\ p \notin Inside),
         UNCHANGED <<row, run, up, robbed>>, \A d \in Execs \ {e} : owner'[d] = owner[d],
         InsideOf(e)', p = "created" => Owned(owner[e])', \A o : Owned(o) => Owned(o)'
  PROVE  WorkInv'
<1>1. row' = row /\ run' = run /\ up' = up /\ robbed' = robbed
  OBVIOUS
<1>2. LockInv'
  BY LockKept DEF WorkInv
<1>3. InsideInv'
  <2>1. \A d \in Execs \ {e} : pc'[d] \notin Inside
    BY Alone DEF WorkInv
  <2>2. \A d \in Execs \ {e} : InsideOf(d)'
    BY <2>1 DEF InsideOf, Inside
  <2> QED BY <2>2 DEF InsideInv
<1>4. GivenInv'
  <2>1. p = "created" => Owned(owner[e])' \/ owner[e]' \in robbed'
    OBVIOUS
  <2>2. \A d \in Execs \ {e} :
          /\ owner'[d] = owner[d]
          /\ pc[d] = "created" /\ Owned(owner[d]) => Owned(owner[d])' \/ owner[d] \in robbed'
    BY DEF Owned, A!OwnedBy
  <2> QED BY <1>1, <2>1, <2>2, GivenKept DEF WorkInv
<1>5. RowInv'
  BY <1>1, RowKept DEF WorkInv, Owned, A!OwnedBy
<1> QED BY <1>1, <1>2, <1>3, <1>4, <1>5, UpStays DEF WorkInv

(* Who is inside holds the lock. *)
LEMMA InsideHolds ==
  ASSUME WorkInv, NEW e \in Execs, pc[e] \in Inside
  PROVE  A!Holds(e) /\ InsideOf(e)
BY DEF WorkInv, LockInv, InsideInv

(* What a released or kept lock and an untouched workspace amount to. *)
LEMMA GivenUp ==
  ASSUME A!TypeOK, WorkInv, NEW e \in Execs, up, A!Holds(e), NEW p \in A!Places \ {"created"},
         pc' = [pc EXCEPT ![e] = p], lock' = lock \/ (lock' = Tail(lock) /\ p \notin Inside),
         UNCHANGED <<row, run, up, robbed, owner>>, work' = work, InsideOf(e)',
         UNCHANGED <<marker, durable>>
  PROVE  WorkInv'
<1>1. marker' = marker /\ durable' = durable /\ owner' = owner
  OBVIOUS
<1>2. \A o : Owned(o) => Owned(o)'
  BY <1>1 DEF Owned, A!OwnedBy
<1> QED BY <1>1, <1>2, InsideStep

LEMMA EnterKeeps ==
  ASSUME A!TypeOK, WorkInv, NEW e \in Execs, A!Enter(e)
  PROVE  WorkInv'
<1>0. up /\ A!Holds(e) /\ work' = work /\ UNCHANGED <<row, run, up, robbed>>
  BY DEF A!Enter, A!At
<1>1. CASE A!EnterRefused(e) /\ A!GivesUp(e) /\ UNCHANGED <<marker, durable, owner>>
  <2>1. pc' = [pc EXCEPT ![e] = "done"] /\ lock' = Tail(lock)
    BY <1>1 DEF A!GivesUp, A!Goto, A!Releases
  <2>2. InsideOf(e)'
    BY <2>1, GoneTo, AllPlaces DEF InsideOf
  <2> QED BY <1>0, <1>1, <2>1, <2>2, GivenUp, AllPlaces DEF Inside
<1>2. CASE /\ A!Inspect = "absent"
           /\ marker' = A!NoMarker /\ durable' = A!NoMarker
           /\ A!Goto(e, "publish") /\ UNCHANGED <<A!locks, owner>>
  <2>1. pc' = [pc EXCEPT ![e] = "publish"] /\ lock' = lock /\ owner' = owner /\ work = "absent"
    BY <1>2 DEF A!Goto, A!locks, A!Inspect
  <2>2. InsideOf(e)'
    BY <1>0, <2>1, GoneTo, AllPlaces DEF InsideOf
  <2>3. \A o : Owned(o) => Owned(o)'
    BY <2>1 DEF Owned
  <2> QED BY <1>0, <2>1, <2>2, <2>3, InsideStep, AllPlaces
<1>3. CASE /\ ~A!EnterRefused(e) /\ A!Inspect = "exact"
           /\ owner' = [owner EXCEPT ![e] = marker.by]
           /\ A!Goto(e, IF marker.state = "ready" THEN "confirm" ELSE "finalize")
           /\ UNCHANGED <<marker, durable, A!locks>>
  <2>1. PICK p \in A!Places : p = IF marker.state = "ready" THEN "confirm" ELSE "finalize"
    BY AllPlaces
  <2>2. pc' = [pc EXCEPT ![e] = p] /\ lock' = lock /\ work # "absent"
    BY <1>3, <2>1 DEF A!Goto, A!locks, A!Inspect
  <2>3. marker.state \in {"creating", "ready"}
    BY <1>3 DEF A!EnterRefused, A!TypeOK, A!Markers
  <2>4. marker' = marker /\ durable' = durable /\ owner'[e] = marker.by
        /\ \A d \in Execs \ {e} : owner'[d] = owner[d]
    BY <1>3 DEF A!TypeOK
  <2>5. pc'[e] = p /\ p \in {"confirm", "finalize"} /\ p # "created"
    BY <2>1, <2>2, GoneTo
  <2>6. InsideOf(e)'
    BY <1>0, <2>1, <2>2, <2>3, <2>4, <2>5 DEF InsideOf, Creating, A!OwnedBy
  <2>7. \A o : Owned(o) => Owned(o)'
    BY <1>0, <2>4 DEF Owned, A!OwnedBy
  <2> QED BY <1>0, <2>2, <2>4, <2>5, <2>6, <2>7, InsideStep
<1> QED BY <1>1, <1>2, <1>3 DEF A!Enter

LEMMA PublishKeeps ==
  ASSUME A!TypeOK, WorkInv, NEW e \in Execs, A!PublishCreating(e)
  PROVE  WorkInv'
<1>1. /\ up /\ A!Holds(e) /\ InsideOf(e) /\ work' = work /\ UNCHANGED <<row, run, up, robbed>>
      /\ pc[e] = "publish"
  BY InsideHolds DEF A!PublishCreating, A!At, Inside
<1>2. PICK p \in {"add", "done"} : pc' = [pc EXCEPT ![e] = p]
        /\ (lock' = lock \/ (lock' = Tail(lock) /\ p \notin Inside))
  BY DEF A!PublishCreating, A!Goto, A!GivesUp, A!Releases, A!locks, Inside
<1>3. owner'[e] = e /\ (\A d \in Execs \ {e} : owner'[d] = owner[d])
      /\ marker'.state = "creating" /\ marker'.by = e
  BY DEF A!PublishCreating, A!TypeOK
<1>4. work = "absent" /\ pc'[e] = p /\ p \in A!Places
  BY <1>1, <1>2, GoneTo, AllPlaces DEF InsideOf
<1>5. InsideOf(e)'
  BY <1>1, <1>2, <1>3, <1>4 DEF InsideOf, Creating
<1>6. \A o : Owned(o) => Owned(o)'
  BY <1>4 DEF Owned
<1> QED BY <1>1, <1>2, <1>3, <1>4, <1>5, <1>6, InsideStep

(* The checkout is added, or not. *)
LEMMA AddKeeps ==
  ASSUME A!TypeOK, WorkInv, NEW e \in Execs, A!AddBegins(e) \/ A!AddEnds(e) \/ A!AddFails(e)
  PROVE  WorkInv'
<1>1. /\ up /\ A!Holds(e) /\ InsideOf(e) /\ UNCHANGED <<row, run, up, robbed, owner>>
      /\ pc[e] \in {"add", "adding"} /\ marker' = marker /\ lock' = lock
  BY InsideHolds DEF A!AddBegins, A!AddEnds, A!AddFails, A!At, Inside, A!locks
<1>2. PICK p \in {"adding", "finalize", "reconcile"} : pc' = [pc EXCEPT ![e] = p]
        /\ (p = "adding" => work' = "partial") /\ (p = "finalize" => work' # "absent")
  BY DEF A!AddBegins, A!AddEnds, A!AddFails, A!Goto
<1>3. pc'[e] = p /\ p \in A!Places /\ Creating(owner[e]) /\ owner' = owner
  BY <1>1, <1>2, GoneTo, AllPlaces DEF InsideOf
<1>4. InsideOf(e)'
  BY <1>1, <1>2, <1>3 DEF InsideOf, Creating
<1>5. \A o : Owned(o) => Owned(o)'
  BY <1>3 DEF Owned, A!OwnedBy, Creating
<1> QED BY <1>1, <1>2, <1>3, <1>4, <1>5, InsideStep

(* A failure before the workspace is handed out. *)
LEMMA FailsInside ==
  ASSUME A!TypeOK, WorkInv, NEW e \in Execs, A!RenameFails(e) \/ A!SyncFails(e)
  PROVE  WorkInv'
<1>1. /\ up /\ A!Holds(e) /\ InsideOf(e) /\ work' = work /\ UNCHANGED <<row, run, up, robbed, owner>>
      /\ UNCHANGED <<marker, durable>>
  BY InsideHolds DEF A!RenameFails, A!SyncFails, A!At, Inside, A!files
<1>2. PICK p \in {"reconcile", "confirm", "done"} : pc' = [pc EXCEPT ![e] = p]
        /\ (p = "reconcile" => pc[e] = "finalize") /\ (p = "confirm" => pc[e] = "sync")
        /\ (lock' = lock \/ (lock' = Tail(lock) /\ p \notin Inside))
  <2>1. CASE A!RenameFails(e)
    BY <2>1 DEF A!RenameFails, A!At, A!Goto, A!GivesUp, A!Releases, A!locks, Inside
  <2>2. CASE A!SyncFails(e)
    BY <2>2 DEF A!SyncFails, A!At, A!Goto, A!GivesUp, A!Releases, A!locks, Inside
  <2> QED BY <2>1, <2>2
<1>3. pc'[e] = p /\ p \in A!Places /\ p # "created"
  BY <1>2, GoneTo, AllPlaces
<1>4. InsideOf(e)'
  BY <1>1, <1>2, <1>3 DEF InsideOf, Creating, A!OwnedBy
<1> QED BY <1>1, <1>2, <1>3, <1>4, GivenUp

(* The ready marker in place of the creating one. *)
LEMMA ReadyMarker ==
  ASSUME A!TypeOK, NEW o, Creating(o), marker' = [marker EXCEPT !.state = "ready"]
  PROVE  A!OwnedBy(o)' /\ ~A!OwnedBy(o)
BY DEF A!TypeOK, A!Markers, Creating, A!OwnedBy

LEMMA RenameKeeps ==
  ASSUME A!TypeOK, WorkInv, NEW e \in Execs, A!RenameReady(e)
  PROVE  WorkInv'
<1>1. /\ up /\ A!Holds(e) /\ InsideOf(e) /\ work' = work /\ UNCHANGED <<row, run, up, robbed, owner>>
      /\ pc[e] = "finalize" /\ lock' = lock /\ pc' = [pc EXCEPT ![e] = "sync"]
      /\ marker' = [marker EXCEPT !.state = "ready"]
  BY InsideHolds DEF A!RenameReady, A!At, Inside, A!locks, A!Goto
<1>2. pc'[e] = "sync" /\ Creating(owner[e]) /\ work # "absent" /\ owner' = owner
  BY <1>1, GoneTo, AllPlaces DEF InsideOf
<1>3. A!OwnedBy(owner[e])'
  BY <1>1, <1>2, ReadyMarker DEF A!OwnedBy, Creating
<1>4. InsideOf(e)'
  BY <1>1, <1>2, <1>3 DEF InsideOf
<1>5. \A o : Owned(o) => Owned(o)'
  BY <1>2 DEF Owned, A!OwnedBy, Creating
<1> QED BY <1>1, <1>2, <1>4, <1>5, InsideStep, AllPlaces

(* What is synced is handed out. *)
LEMMA SyncKeeps ==
  ASSUME A!TypeOK, WorkInv, NEW e \in Execs, A!SyncReady(e)
  PROVE  WorkInv'
<1>1. /\ up /\ A!Holds(e) /\ InsideOf(e) /\ work' = work /\ UNCHANGED <<row, run, up, robbed, owner>>
      /\ pc[e] \in {"sync", "confirm"} /\ lock' = Tail(lock)
      /\ marker' = marker /\ durable' = marker
  BY InsideHolds DEF A!SyncReady, A!Synced, A!At, Inside, A!locks, A!Releases
<1>2. PICK p \in {"created", "done"} : pc' = [pc EXCEPT ![e] = p]
  BY DEF A!SyncReady, A!Goto
<1>3. pc'[e] = p /\ p \in A!Places /\ p \notin Inside /\ A!OwnedBy(owner[e]) /\ work # "absent" /\ owner' = owner
  BY <1>1, <1>2, GoneTo, AllPlaces DEF InsideOf, Inside
<1>4. Owned(owner[e])'
  BY <1>1, <1>3 DEF Owned, A!OwnedBy
<1>5. InsideOf(e)'
  BY <1>2, <1>3 DEF InsideOf
<1>6. \A o : Owned(o) => Owned(o)'
  BY <1>1 DEF Owned, A!OwnedBy
<1> QED BY <1>1, <1>2, <1>3, <1>4, <1>5, <1>6, InsideStep

LEMMA ReconcileKeeps ==
  ASSUME A!TypeOK, WorkInv, NEW e \in Execs, A!Reconcile(e)
  PROVE  WorkInv'
<1>1. /\ up /\ A!Holds(e) /\ InsideOf(e) /\ work' = work /\ UNCHANGED <<row, run, up, robbed, owner>>
      /\ pc[e] = "reconcile" /\ owner' = owner
  BY InsideHolds DEF A!Reconcile, A!At, Inside
<1>2. Creating(owner[e]) /\ \A o : ~Owned(o)
  BY <1>1 DEF InsideOf, Creating, Owned, A!OwnedBy
<1>3. CASE A!GivesUp(e)
  <2>1. pc' = [pc EXCEPT ![e] = "done"] /\ lock' = Tail(lock)
    BY <1>3 DEF A!GivesUp, A!Goto, A!Releases
  <2>2. InsideOf(e)'
    BY <2>1, GoneTo, AllPlaces DEF InsideOf
  <2> QED BY <1>1, <1>2, <2>1, <2>2, InsideStep, AllPlaces DEF Inside
<1>4. CASE /\ A!Inspect = "exact"
           /\ marker' = [marker EXCEPT !.state = "ready"]
           /\ A!Goto(e, "sync") /\ UNCHANGED <<left, durable, A!locks>>
  <2>1. pc' = [pc EXCEPT ![e] = "sync"] /\ lock' = lock /\ work # "absent"
    BY <1>4 DEF A!Goto, A!locks, A!Inspect
  <2>2. pc'[e] = "sync" /\ A!OwnedBy(owner[e])'
    BY <1>1, <1>2, <1>4, <2>1, GoneTo, AllPlaces, ReadyMarker DEF A!OwnedBy, Creating
  <2>3. InsideOf(e)'
    BY <1>1, <2>1, <2>2 DEF InsideOf
  <2> QED BY <1>1, <1>2, <2>1, <2>2, <2>3, InsideStep, AllPlaces
<1> QED BY <1>3, <1>4 DEF A!Reconcile

(***************************************************************************)
(* The record.                                                             *)
(***************************************************************************)

(* Compensation takes the workspace away from under those it counts as robbed *)
(* only.                                                                      *)
LEMMA RemovalKeeps ==
  ASSUME A!TypeOK, WorkInv, NEW e \in Execs, A!LookUnpersisted(e) \/ A!RemoveUnpersisted(e)
  PROVE  WorkInv'
<1>1. up /\ A!Holds(e) /\ UNCHANGED <<row, run, up, owner>>
  BY DEF A!LookUnpersisted, A!RemoveUnpersisted, A!At
<1>2. CASE A!LookUnpersisted(e) /\ A!Removable(owner[e]) /\ A!Goto(e, "removing")
           /\ UNCHANGED <<A!files, A!locks, robbed>>
  <2>1. pc' = [pc EXCEPT ![e] = "removing"] /\ pc'[e] = "removing"
    BY <1>2, GoneTo, AllPlaces DEF A!Goto
  <2>2. marker' = marker /\ durable' = durable /\ work' = work /\ lock' = lock /\ A!OwnedBy(owner[e])
    BY <1>2 DEF A!files, A!locks, A!Removable
  <2>3. InsideOf(e)'
    BY <1>1, <2>1, <2>2 DEF InsideOf, A!OwnedBy
  <2> QED BY <1>1, <1>2, <2>1, <2>2, <2>3, GivenUp, AllPlaces
<1>3. CASE A!Goto(e, "evidence") /\ A!Releases /\ marker' = marker /\ durable' = durable /\ robbed' = robbed
           /\ (work' = work \/ work' = "partial")
  <2>1. pc' = [pc EXCEPT ![e] = "evidence"] /\ pc'[e] = "evidence" /\ lock' = Tail(lock)
    BY <1>3, GoneTo, AllPlaces DEF A!Goto, A!Releases
  <2>2. InsideOf(e)'
    BY <2>1 DEF InsideOf
  <2>3. \A o : Owned(o) => Owned(o)'
    BY <1>3 DEF Owned, A!OwnedBy
  <2> QED BY <1>1, <1>3, <2>1, <2>2, <2>3, InsideStep, AllPlaces DEF Inside
<1>4. CASE A!Goto(e, "done") /\ A!Releases /\ A!Robs(e) /\ (A!OwnedBy(owner[e]) \/ work = "absent")
  <2>1. pc' = [pc EXCEPT ![e] = "done"] /\ lock' = Tail(lock) /\ "done" \in A!Places \ (Inside \cup {"created"})
    BY <1>4, AllPlaces DEF A!Goto, A!Releases, Inside
  <2>2. LockInv'
    BY <1>1, <2>1, LockKept DEF WorkInv
  <2>3. InsideInv'
    <3>1. \A d \in Execs : pc'[d] \notin Inside
      BY <1>1, <2>1, Alone DEF WorkInv
    <3> QED BY <3>1 DEF InsideInv, InsideOf, Inside
  <2>4. robbed \subseteq robbed'
    BY <1>4 DEF A!Robs
  <2>5. \A o : Owned(o) => o = owner[e]
    BY <1>4 DEF Owned, A!OwnedBy
  <2>6. \A d \in Execs \ {e} : pc[d] = "created" /\ Owned(owner[d]) => owner[d] \in robbed'
    BY <1>4, <2>5 DEF A!TakenOver, A!Robs
  <2>7. Owned(row.by) => row.by \in robbed'
    BY <1>4, <2>5 DEF A!TakenOver, A!Robs
  <2>8. GivenInv'
    <3>1. row' = row /\ \A d \in Execs \ {e} : owner'[d] = owner[d]
      BY <1>1
    <3> QED BY <2>1, <2>4, <2>6, <3>1, GivenKept DEF WorkInv
  <2>9. RowInv'
    BY <1>1, <2>4, <2>7, RowKept DEF WorkInv
  <2> QED BY <1>1, <2>2, <2>3, <2>8, <2>9, UpStays DEF WorkInv
<1>5. CASE A!LookUnpersisted(e)
  BY <1>2, <1>3, <1>4, <1>5 DEF A!LookUnpersisted, A!files
<1>6. CASE A!RemoveUnpersisted(e)
  <2>1. A!OwnedBy(owner[e])
    BY <1>6, InsideHolds DEF A!RemoveUnpersisted, A!At, Inside, InsideOf
  <2>2. CASE A!RemovesTree /\ A!Robs(e) /\ A!Goto(e, "done")
    BY <1>4, <1>6, <2>1, <2>2 DEF A!RemoveUnpersisted
  <2>3. CASE A!KeepsTree /\ A!Goto(e, "evidence") /\ UNCHANGED robbed
    BY <1>3, <1>6, <2>3 DEF A!RemoveUnpersisted, A!KeepsTree
  <2> QED BY <1>6, <2>2, <2>3 DEF A!RemoveUnpersisted
<1> QED BY <1>5, <1>6

(* A step that may write the record and leaves the files alone. *)
LEMMA RecordedStep ==
  ASSUME A!TypeOK, WorkInv, NEW e \in Execs, NEW p \in A!Places \ (Inside \cup {"created"}),
         pc' = [pc EXCEPT ![e] = p], up, UNCHANGED A!files, UNCHANGED <<up, owner, robbed>>, lock' = lock,
         row' = A!NoRow => row = A!NoRow, RowInv'
  PROVE  WorkInv'
<1>1. marker' = marker /\ durable' = durable /\ work' = work /\ owner' = owner /\ robbed' = robbed /\ up' = up
  BY DEF A!files
<1>2. LockInv'
  BY LockKept DEF WorkInv
<1>3. InsideInv'
  BY <1>1, InsideLeft DEF WorkInv
<1>4. GivenInv'
  BY <1>1, GivenKept DEF WorkInv, Owned, A!OwnedBy
<1> QED BY <1>1, <1>2, <1>3, <1>4, UpStays DEF WorkInv

(* The record of a workspace in use says so of one that was handed out, or    *)
(* that it was in use before.                                                 *)
LEMMA RecordHeld ==
  ASSUME WorkInv, UNCHANGED A!files, UNCHANGED robbed,
         InUse' => (InUse /\ row'.by = row.by) \/ Owned(row'.by) \/ row'.by \in robbed
  PROVE  RowInv'
<1>1. marker' = marker /\ durable' = durable /\ work' = work /\ robbed' = robbed
  BY DEF A!files
<1>2. \A o : Owned(o) => Owned(o)'
  BY <1>1 DEF Owned, A!OwnedBy
<1>3. InUse' /\ row'.by \notin robbed => Owned(row'.by)
  BY DEF WorkInv, RowInv
<1> QED BY <1>1, <1>2, <1>3 DEF RowInv

LEMMA StartedKeeps ==
  ASSUME A!TypeOK, WorkInv, NEW e \in Execs, A!PersistStarted(e)
  PROVE  WorkInv'
<1>1. /\ up /\ UNCHANGED A!files /\ UNCHANGED <<up, owner, robbed>> /\ lock' = lock /\ run' = run
      /\ pc[e] = "created"
  BY DEF A!PersistStarted, A!At, A!locks
<1>2. CASE /\ A!RecordHolds(e)
           /\ row' = [by |-> owner[e], state |-> "running", cleanup |-> "active"]
           /\ A!Goto(e, "working")
  <2>1. row = A!NoRow /\ row'.by = owner[e] /\ row' # A!NoRow
    BY <1>2 DEF A!RecordHolds, A!NoRow
  <2>2. Owned(row'.by) \/ row'.by \in robbed
    BY <1>1, <2>1 DEF WorkInv, GivenInv
  <2>3. RowInv'
    BY <1>1, <2>2, RecordHeld
  <2> QED BY <1>1, <1>2, <2>1, <2>3, RecordedStep, AllPlaces DEF A!Goto, Inside
<1>3. CASE A!Goto(e, "compensate") /\ row' = row
  <2>1. RowInv'
    BY <1>1, <1>3, RecordHeld DEF InUse
  <2> QED BY <1>1, <1>3, <2>1, RecordedStep, AllPlaces DEF A!Goto, Inside
<1> QED BY <1>2, <1>3 DEF A!PersistStarted

(* Later writes of the record. *)
LEMMA RecordKeeps ==
  ASSUME A!TypeOK, WorkInv, NEW e \in Execs, A!Evidence(e) \/ A!PersistReady(e) \/ A!Fail(e)
  PROVE  WorkInv'
<1>0. row \in A!Rows
  BY DEF A!TypeOK
<1>1. up /\ UNCHANGED A!files /\ UNCHANGED <<up, owner, robbed>> /\ lock' = lock /\ run' = run
  BY DEF A!Evidence, A!PersistReady, A!Fail, A!At, A!locks
<1>2. PICK p \in {"done", "failing"} : pc' = [pc EXCEPT ![e] = p]
  BY DEF A!Evidence, A!PersistReady, A!Fail, A!Goto
<1>3. /\ InUse' => InUse /\ row'.by = row.by
      /\ row' = A!NoRow => row = A!NoRow
  <2>1. CASE A!Evidence(e)
    BY <1>1, <2>1 DEF A!Evidence, InUse, A!NoRow
  <2>2. CASE A!PersistReady(e)
    BY <1>0, <1>1, <2>2 DEF A!PersistReady, A!OwnsRunning, InUse, A!NoRow, A!Rows
  <2>3. CASE A!Fail(e)
    <3>1. row' = row \/ (row.state = "running" /\ row'.cleanup = "preserved" /\ row'.by = row.by)
      BY <1>0, <2>3 DEF A!Fail, A!OwnsRunning, A!Rows
    <3>2. row' # row => row' # A!NoRow
      BY <3>1 DEF A!NoRow
    <3> QED BY <1>1, <3>1, <3>2 DEF InUse
  <2> QED BY <2>1, <2>2, <2>3
<1>4. RowInv'
  BY <1>1, <1>3, RecordHeld
<1> QED BY <1>1, <1>2, <1>3, <1>4, RecordedStep, AllPlaces DEF Inside

(***************************************************************************)
(* The worker, settlements, crash and restart.                             *)
(***************************************************************************)

LEMMA WriteKeeps ==
  ASSUME A!TypeOK, WorkInv, NEW e \in Execs, A!Write(e)
  PROVE  WorkInv'
<1>1. /\ pc' = pc /\ lock' = lock /\ owner' = owner /\ robbed' = robbed /\ up' = up /\ run' = run
      /\ row' = row /\ marker' = marker /\ durable' = durable
      /\ work \notin {"absent", "partial"} /\ work' # "absent"
  BY DEF A!Write, A!locks, A!mine
<1>2. \A o : Owned(o)' <=> Owned(o)
  BY <1>1 DEF Owned, A!OwnedBy
<1>3. LockInv'
  BY <1>1 DEF WorkInv, LockInv, A!Holds
<1>4. InsideInv'
  BY <1>1 DEF WorkInv, InsideInv, InsideOf, Creating, A!OwnedBy
<1>5. GivenInv'
  BY <1>1, <1>2 DEF WorkInv, GivenInv, Owned, A!OwnedBy
<1>6. RowInv'
  BY <1>1, <1>2 DEF WorkInv, RowInv, InUse, Owned, A!OwnedBy
<1>7. DeadInv'
  BY <1>1 DEF WorkInv, DeadInv
<1> QED BY <1>3, <1>4, <1>5, <1>6, <1>7 DEF WorkInv

(* Steps of others that leave the files alone. *)
LEMMA AroundStep ==
  ASSUME A!TypeOK, WorkInv, UNCHANGED A!files, UNCHANGED A!locks, UNCHANGED A!mine, UNCHANGED robbed,
         up' \/ up' = up,
         InUse' => InUse /\ row'.by = row.by, row' = A!NoRow => row = A!NoRow
  PROVE  WorkInv'
<1>1. /\ marker' = marker /\ durable' = durable /\ work' = work /\ lock' = lock /\ pc' = pc
      /\ owner' = owner /\ robbed' = robbed
  BY DEF A!files, A!locks, A!mine
<1>2. LockInv'
  BY <1>1 DEF WorkInv, LockInv, A!Holds
<1>3. InsideInv'
  BY <1>1 DEF WorkInv, InsideInv, InsideOf, Creating, A!OwnedBy
<1>4. GivenInv'
  BY <1>1 DEF WorkInv, GivenInv, Owned, A!OwnedBy
<1>5. RowInv'
  BY <1>1, RecordHeld
<1>6. DeadInv'
  BY <1>1 DEF WorkInv, DeadInv
<1> QED BY <1>2, <1>3, <1>4, <1>5, <1>6 DEF WorkInv

(* A removal while no executor holds the lock or is given the workspace, of a *)
(* workspace that no record says is in use afterwards.                        *)
LEMMA RemovalAround ==
  ASSUME A!TypeOK, WorkInv, UNCHANGED A!locks, UNCHANGED A!mine, UNCHANGED <<row, run, up, robbed>>,
         lock = <<>>, row # A!NoRow, ~InUse
  PROVE  WorkInv'
<1>1. lock' = lock /\ pc' = pc /\ row' = row /\ run' = run /\ up' = up
  BY DEF A!locks, A!mine
<1>2. \A d \in Execs : pc'[d] \notin Inside
  BY <1>1 DEF WorkInv, LockInv, A!Holds
<1>3. LockInv' /\ InsideInv'
  BY <1>2 DEF LockInv, InsideInv, InsideOf, Inside
<1>4. GivenInv' /\ RowInv'
  BY <1>1 DEF GivenInv, RowInv, InUse
<1> QED BY <1>1, <1>3, <1>4 DEF WorkInv, DeadInv

LEMMA SettlementKeeps ==
  ASSUME A!TypeOK, WorkInv, A!Settlement
  PROVE  WorkInv'
<1>0. row \in A!Rows
  BY DEF A!TypeOK
<1>1. CASE A!SiblingApplies
  BY <1>1, AroundStep DEF A!SiblingApplies, InUse
<1>2. CASE A!SiblingDecides
  BY <1>2, AroundStep DEF A!SiblingDecides, InUse
<1>3. CASE A!Settle
  <2>1. row'.state \in {"integrated", "failed"}
    BY <1>0, <1>3 DEF A!Settle, A!Rows
  <2> QED BY <1>3, <2>1, AroundStep DEF A!Settle, InUse, A!NoRow
<1>4. CASE A!RemoveIntegrated
  BY <1>4, RemovalAround DEF A!RemoveIntegrated, InUse, A!NoRow
<1>5. CASE A!RecordCleanup
  <2>1. row'.state = "integrated"
    BY <1>0, <1>5 DEF A!RecordCleanup, A!Rows
  <2> QED BY <1>5, <2>1, AroundStep DEF A!RecordCleanup, InUse, A!NoRow
<1>6. CASE A!Cancel
  BY <1>6, AroundStep DEF A!Cancel, InUse
<1>7. CASE A!PersistFence
  <2>1. row'.state = "cancelled"
    BY <1>0, <1>7 DEF A!PersistFence, A!Rows
  <2> QED BY <1>7, <2>1, AroundStep DEF A!PersistFence, InUse, A!NoRow
<1>8. CASE A!RunEnds
  BY <1>8, AroundStep DEF A!RunEnds, InUse
<1> QED BY <1>1, <1>2, <1>3, <1>4, <1>5, <1>6, <1>7, <1>8 DEF A!Settlement

(* A power loss takes away no marker that was handed out. *)
LEMMA CrashKeeps ==
  ASSUME A!TypeOK, WorkInv, A!Crash
  PROVE  WorkInv'
<1>1. up /\ ~up' /\ (\A d \in Execs : pc'[d] = "done") /\ work' = work /\ row' = row /\ run' = run
      /\ robbed' = robbed /\ marker' \in {marker, durable} /\ durable' = marker'
  BY DEF A!Crash
<1>2. LockInv' /\ InsideInv' /\ GivenInv' /\ DeadInv'
  BY <1>1 DEF LockInv, InsideInv, InsideOf, GivenInv, DeadInv, Inside
<1>3. RowInv'
  BY <1>1 DEF WorkInv, RowInv, InUse, Owned, A!OwnedBy
<1> QED BY <1>2, <1>3 DEF WorkInv

LEMMA BootKeeps ==
  ASSUME A!TypeOK, WorkInv, A!Boot
  PROVE  WorkInv'
<1>0. row \in A!Rows
  BY DEF A!TypeOK
<1>1. (\A d \in Execs : pc'[d] = "done") /\ ~up
  BY DEF A!Boot, A!BootLooks, A!BootRemoves, A!BootRecords, WorkInv, DeadInv, A!mine
<1>2. LockInv' /\ InsideInv' /\ GivenInv' /\ DeadInv'
  BY <1>1 DEF LockInv, InsideInv, InsideOf, GivenInv, DeadInv, Inside
<1>3. CASE A!BootLooks \/ A!BootRemoves
  <2>1. ~InUse'
    BY <1>1, <1>3 DEF A!BootLooks, A!BootRemoves, A!Recovered, InUse
  <2> QED BY <1>2, <2>1 DEF WorkInv, RowInv
<1>4. CASE A!BootRecords
  <2>1. UNCHANGED A!files /\ UNCHANGED robbed
    BY <1>4 DEF A!BootRecords
  <2>2. InUse' => InUse /\ row'.by = row.by
    <3>1. CASE run = "ended"
      BY <1>4, <3>1 DEF A!BootRecords, InUse
    <3>2. CASE run # "ended"
      <4>1. row'.state \notin {"running", "contribution_ready"}
        BY <1>0, <1>4, <3>2 DEF A!BootRecords, A!Rows
      <4> QED BY <4>1 DEF InUse
    <3> QED BY <3>1, <3>2
  <2> QED BY <1>2, <2>1, <2>2, RecordHeld DEF WorkInv
<1> QED BY <1>3, <1>4 DEF A!Boot

(***************************************************************************)
(* The theorems.                                                           *)
(***************************************************************************)

LEMMA StepKeeps ==
  ASSUME AttemptInv, [A!Next]_(A!vars)
  PROVE  AttemptInv'
<1>0. A!TypeOK /\ WorkInv /\ LockInv
  BY DEF AttemptInv, WorkInv
<1>1. CASE \E e \in Execs : A!Ask(e) \/ A!Step(e) \/ A!Write(e)
  <2>1. PICK e \in Execs : A!Ask(e) \/ A!Step(e) \/ A!Write(e)
    BY <1>1
  <2>2. A!TypeOK'
    BY <1>0, <2>1, TypeStep
  <2>3. WorkInv'
    BY <1>0, <2>1, QuietActions, EnterKeeps, PublishKeeps, AddKeeps, FailsInside, RenameKeeps,
       SyncKeeps,
       ReconcileKeeps, RemovalKeeps, StartedKeeps, RecordKeeps, WriteKeeps DEF A!Step
  <2> QED BY <2>2, <2>3 DEF AttemptInv
<1>2. CASE A!Settlement \/ A!Crash \/ A!Boot
  BY <1>0, <1>2, TypeAround, SettlementKeeps, CrashKeeps, BootKeeps DEF AttemptInv
<1>3. CASE UNCHANGED A!vars
  <2>1. A!TypeOK'
    BY <1>0, <1>3 DEF A!TypeOK, A!vars
  <2>2. UNCHANGED A!files /\ UNCHANGED A!locks /\ UNCHANGED A!mine /\ UNCHANGED robbed
        /\ row' = row /\ run' = run /\ up' = up
    BY <1>3 DEF A!vars, A!files, A!locks, A!mine
  <2>3. WorkInv'
    BY <1>0, <2>2, AroundStep DEF InUse
  <2> QED BY <2>1, <2>3 DEF AttemptInv
<1> QED BY <1>1, <1>2, <1>3 DEF A!Next

LEMMA AttemptInvHolds ==
  ASSUME A!SetupAssumption
  PROVE  A!Spec => []AttemptInv
<1>1. A!Init => AttemptInv
  BY AttemptInit
<1>2. AttemptInv /\ [A!Next]_(A!vars) => AttemptInv'
  BY StepKeeps
<1> QED BY <1>1, <1>2, PTL DEF A!Spec

(* What the store shows as active is on disk under the durable ready marker of *)
(* its recorded owner - for any number of executors of the attempt, failing    *)
(* calls, failing writes, crashes and settlements of other attempts - unless   *)
(* the compensation of another executor with its owner token has removed it.   *)
THEOREM RecordsAreOwned ==
  ASSUME A!SetupAssumption
  PROVE  A!Spec => []A!ActiveIsOwned
<1>1. AttemptInv => A!ActiveIsOwned
  BY DEF AttemptInv, WorkInv, RowInv, InUse, Owned, A!ActiveIsOwned
<1> QED BY <1>1, AttemptInvHolds, PTL

(* Whoever removes has found the workspace clean: nobody else looks before the *)
(* removal is over.                                                            *)
LookInv ==
    /\ looked \in {"none", "kept", "clean"}
    /\ \A e \in Execs : pc[e] = "removing" => looked = "clean"

LEMMA LookKeeps ==
  ASSUME AttemptInv, LookInv, [A!Next]_(A!vars)
  PROVE  LookInv'
<1>0. A!TypeOK /\ WorkInv /\ LockInv
  BY DEF AttemptInv, WorkInv
<1>1. ASSUME NEW e \in Execs, A!LookUnpersisted(e)
      PROVE  LookInv'
  <2>1. looked' \in {looked, "clean"}
    BY <1>1 DEF A!LookUnpersisted, A!Removable, A!Inspect
  <2>2. PICK p \in A!Places : /\ pc' = [pc EXCEPT ![e] = p]
                              /\ p = "removing" => looked' = "clean"
    BY <1>1, AllPlaces DEF A!LookUnpersisted, A!Goto, A!Removable, A!Inspect
  <2>3. \A d \in Execs \ {e} : pc'[d] # "removing"
    BY <1>0, <1>1, <2>2, Alone DEF A!LookUnpersisted, Inside
  <2>4. pc'[e] = p
    BY <1>0, <2>2, GoneTo
  <2> QED BY <2>1, <2>2, <2>3, <2>4 DEF LookInv
<1>2. ASSUME NEW e \in Execs, A!RemoveUnpersisted(e)
      PROVE  LookInv'
  <2>1. PICK p \in A!Places : pc' = [pc EXCEPT ![e] = p] /\ p # "removing" /\ looked' = "none"
    BY <1>2, AllPlaces DEF A!RemoveUnpersisted, A!Goto
  <2>2. \A d \in Execs \ {e} : pc'[d] # "removing"
    BY <1>0, <1>2, <2>1, Alone DEF A!RemoveUnpersisted, Inside
  <2>3. pc'[e] = p
    BY <1>0, <2>1, GoneTo
  <2> QED BY <2>1, <2>2, <2>3 DEF LookInv
<1>3. ASSUME NEW e \in Execs, A!Ask(e) \/ A!Step(e) \/ A!Write(e),
             ~A!LookUnpersisted(e), ~A!RemoveUnpersisted(e)
      PROVE  LookInv'
  <2>1. looked' = looked
    BY <1>3 DEF A!Ask, A!Step, A!Write, A!Enter, A!PublishCreating, A!AddBegins, A!AddEnds, A!AddFails,
       A!RenameReady, A!RenameFails, A!SyncReady, A!SyncFails, A!Reconcile, A!PersistStarted,
       A!Compensate, A!Evidence, A!TurnEnds, A!Quiesce, A!Collect, A!PersistReady, A!Fail
  <2>2. \A d \in Execs : pc'[d] = "removing" => pc[d] = "removing"
    BY <1>0, <1>3 DEF A!TypeOK, A!Ask, A!Step, A!Write, A!Enter, A!PublishCreating, A!AddBegins, A!AddEnds,
       A!AddFails, A!RenameReady, A!RenameFails, A!SyncReady, A!SyncFails, A!Reconcile, A!PersistStarted,
       A!Compensate, A!Evidence, A!TurnEnds, A!Quiesce, A!Collect, A!PersistReady, A!Fail,
       A!Goto, A!GivesUp, A!mine
  <2> QED BY <2>1, <2>2 DEF LookInv
<1>4. CASE A!Boot \/ A!Crash
  <2>1. \A d \in Execs : pc'[d] = "done"
    BY <1>0, <1>4 DEF A!Crash, A!Boot, A!BootLooks, A!BootRemoves, A!BootRecords, WorkInv, DeadInv, A!mine
  <2>2. looked' \in {"none", "kept", "clean"}
    BY <1>4 DEF A!Crash, A!Boot, A!BootLooks, A!BootRemoves, A!BootRecords, A!Removable, A!Inspect
  <2> QED BY <2>1, <2>2 DEF LookInv
<1>5. CASE A!Settlement \/ UNCHANGED A!vars
  <2>1. pc' = pc /\ looked' = looked
    BY <1>5 DEF A!Settlement, A!SiblingApplies, A!SiblingDecides, A!Settle, A!RemoveIntegrated,
       A!RecordCleanup, A!Cancel, A!PersistFence, A!RunEnds, A!mine, A!vars
  <2> QED BY <2>1 DEF LookInv
<1> QED BY <1>1, <1>2, <1>3, <1>4, <1>5 DEF A!Next

(* A worker's files and its commit leave the disk only when the commit is in   *)
(* the project, or under a removal that has found the workspace clean: whoever *)
(* creates, adds, reconciles, compensates or recovers meets the work in no     *)
(* other way.                                                                  *)
THEOREM WorkersWorkIsKept ==
  ASSUME A!SetupAssumption
  PROVE  A!Spec => A!WorkIsKept
<1>1. ASSUME AttemptInv, LookInv, [A!Next]_(A!vars), work \in {"dirty", "committed"},
             work' \notin {"dirty", "committed"}
      PROVE  (row.state = "integrated" /\ work = "committed") \/ looked = "clean"
  <2>1. \A e \in Execs : ~A!AddBegins(e) /\ ~A!AddEnds(e) /\ ~A!AddFails(e)
    <3>1. SUFFICES ASSUME NEW e \in Execs, pc[e] \in {"add", "adding"} PROVE FALSE
      BY DEF A!AddBegins, A!AddEnds, A!AddFails, A!At
    <3> QED BY <1>1, <3>1, InsideHolds DEF AttemptInv, InsideOf, Inside
  <2>2. ASSUME NEW e \in Execs, A!LookUnpersisted(e) \/ A!RemoveUnpersisted(e)
        PROVE  looked = "clean"
    <3>1. ~A!LookUnpersisted(e)
      BY <1>1 DEF A!LookUnpersisted, A!files
    <3> QED BY <1>1, <2>2, <3>1 DEF A!RemoveUnpersisted, A!At, LookInv
  <2>3. A!BootLooks \/ A!BootRemoves => looked = "clean"
    BY <1>1 DEF A!BootLooks, A!BootRemoves, A!files, LookInv, A!Contents
  <2>4. ASSUME NEW e \in Execs, A!Ask(e) \/ A!Step(e) \/ A!Write(e)
        PROVE  looked = "clean"
    BY <1>1, <2>1, <2>2, <2>4 DEF A!Ask, A!Step, A!Write, A!Enter, A!PublishCreating, A!RenameReady,
       A!RenameFails, A!SyncReady, A!SyncFails, A!Reconcile, A!PersistStarted, A!Compensate, A!Evidence,
       A!TurnEnds, A!Quiesce, A!Collect, A!PersistReady, A!Fail, A!files
  <2>5. A!Settlement \/ A!BootRecords \/ A!Crash => A!RemoveIntegrated
    BY <1>1 DEF A!Settlement, A!SiblingApplies, A!SiblingDecides, A!Settle, A!RecordCleanup,
       A!Cancel, A!PersistFence, A!RunEnds, A!BootRecords, A!Crash, A!files
  <2>6. A!RemoveIntegrated => row.state = "integrated" /\ work = "committed"
    BY DEF A!RemoveIntegrated, A!Importable, A!Collectable
  <2>7. work' # work
    BY <1>1
  <2> QED BY <1>1, <2>3, <2>4, <2>5, <2>6, <2>7 DEF A!Next, A!Boot, A!vars
<1>2. AttemptInv /\ LookInv /\ [A!Next]_(A!vars)
        => [(work \in {"dirty", "committed"} /\ work' \notin {"dirty", "committed"})
              => (row.state = "integrated" /\ work = "committed") \/ looked = "clean"]_(A!vars)
  BY <1>1
<1>3. A!Init => LookInv
  BY DEF A!Init, LookInv
<1>4. AttemptInv /\ LookInv /\ [A!Next]_(A!vars) => LookInv'
  BY LookKeeps
<1> QED BY <1>2, <1>3, <1>4, AttemptInvHolds, PTL DEF A!Spec, A!WorkIsKept

(***************************************************************************)
(* The preparation of a run in a project (RunPreparation).                 *)
(***************************************************************************)

Makers == [RunIds -> Callers \cup {NoCaller}]

(* PrepTypeOK, as far as it is needed. *)
PrepTypes ==
    /\ entry \in Makers /\ branch \in Makers /\ checkout \in Makers
    /\ marked \subseteq RunIds
    /\ stage \in [Callers -> P!Stages]
    /\ held \in [Callers -> SUBSET {"directory", "marker", "checkout"}]
    /\ saved \subseteq Callers /\ spoiled \subseteq Callers

Fresh     == {"idle", "queued", "reserving"}
InPlace   == {"marking", "adding", "rechecking", "prepared", "acking", "abort", "aborting"}
Marked    == InPlace \ {"marking"}
CheckedOut == {"rechecking", "prepared", "acking", "abort"}

Dir(c)  == entry[IdOf[c]]
Br(c)   == branch[IdOf[c]]
Work(c) == checkout[IdOf[c]]

(* What a preparation has made is in its place while it is at work, and what   *)
(* its reservation does not speak of it has not made.                          *)
PlaceInv(c) ==
    /\ stage[c] \in Fresh => held[c] = {} /\ c \notin saved
    /\ stage[c] \in InPlace => held[c] # {}
    /\ stage[c] \in InPlace \/ (stage[c] = "cleaning" /\ held[c] # {}) => Dir(c) = c
    /\ stage[c] \in Marked => IdOf[c] \in marked
    /\ stage[c] \in CheckedOut /\ P!Existing(c) => Br(c) = c /\ Work(c) = c
    /\ held[c] = {} => Dir(c) # c
    /\ "checkout" \notin held[c] => Work(c) # c /\ (Br(c) # c \/ c \in spoiled)

(* A recorded one has been prepared, and keeps it all. *)
SavedInv(c) ==
    /\ c \in saved =>
         /\ stage[c] \in {"acking", "ended"}
         /\ Dir(c) = c /\ IdOf[c] \in marked
         /\ P!Existing(c) => Br(c) = c /\ Work(c) = c
    /\ stage[c] = "acking" => c \in saved

(* One that ended otherwise, and was not spoiled, has left nothing. *)
EndInv(c) ==
    c \notin saved \cup spoiled /\ stage[c] = "ended" => c \notin {Dir(c), Br(c), Work(c)}

CallerInv(c) == PlaceInv(c) /\ SavedInv(c) /\ EndInv(c)

(* A checkout has its branch. *)
TreeInv == \A i \in RunIds : checkout[i] \in {NoCaller, branch[i]}

PrepInv == PrepTypes /\ TreeInv /\ \A c \in Callers : CallerInv(c)

LEMMA InitPrep == P!PreparationAssumption /\ P!Init => PrepInv
<1> SUFFICES ASSUME P!PreparationAssumption, P!Init
             PROVE  PrepInv
  OBVIOUS
<1>1. PrepTypes
  BY DEF P!Init, PrepTypes, Makers, P!Unclaimed, P!Stages
<1>2. \A c \in Callers : CallerInv(c)
  BY DEF P!PreparationAssumption, P!Init, P!Unclaimed, CallerInv, PlaceInv, SavedInv, EndInv,
     Fresh, InPlace, Marked,
         CheckedOut, Dir, Br, Work
<1>3. TreeInv
  BY DEF P!Init, TreeInv, P!Unclaimed
<1> QED BY <1>1, <1>2, <1>3 DEF PrepInv

(* One that a step of another leaves alone: neither its stage, nor what it      *)
(* made, nor the place of what it did not make is disturbed.                   *)
LEMMA OtherCaller ==
  ASSUME P!PreparationAssumption, PrepInv, NEW c \in Callers, CallerInv(c),
         stage'[c] = stage[c], held'[c] = held[c],
         c \in saved' <=> c \in saved, c \in spoiled' <=> c \in spoiled,
         Dir(c)' = c <=> Dir(c) = c, Br(c)' = c <=> Br(c) = c, Work(c)' = c <=> Work(c) = c,
         Dir(c) = c /\ IdOf[c] \in marked => IdOf[c] \in marked'
  PROVE  CallerInv(c)'
<1>1. P!Existing(c)' <=> P!Existing(c)
  BY DEF P!Existing
<1>2. PlaceInv(c)'
  BY <1>1 DEF CallerInv, PlaceInv, InPlace, Marked
<1>3. SavedInv(c)'
  BY <1>1 DEF CallerInv, SavedInv
<1>4. EndInv(c)'
  BY DEF CallerInv, EndInv
<1> QED BY <1>2, <1>3, <1>4 DEF CallerInv

Touches(c, f, g) == g = f \/ (f[IdOf[c]] \in {NoCaller, c} /\ g \in {P!Put(f, c), P!Clear(f, c)})

(* What one puts in a place that nobody else has, or takes from there, says the *)
(* same of the others as before.                                               *)
LEMMA OwnPlace ==
  ASSUME P!PreparationAssumption, NEW f \in Makers, NEW g, NEW c \in Callers, Touches(c, f, g)
  PROVE  /\ g \in Makers
         /\ \A i \in RunIds : i # IdOf[c] => g[i] = f[i]
         /\ \A d \in Callers : d # c => (g[IdOf[d]] = d <=> f[IdOf[d]] = d)
         /\ P!Put(f, c)[IdOf[c]] = c /\ P!Clear(f, c)[IdOf[c]] = NoCaller
  BY DEF P!PreparationAssumption, Makers, P!Put, P!Clear, Touches

LEMMA Stands ==
  ASSUME P!PreparationAssumption, PrepInv, NEW c \in Callers
  PROVE  /\ IdOf[c] \in RunIds /\ c # NoCaller
         /\ entry \in Makers /\ branch \in Makers /\ checkout \in Makers
         /\ stage[c] \in P!Stages /\ held[c] \in SUBSET {"directory", "marker", "checkout"}
         /\ CallerInv(c)
  BY DEF P!PreparationAssumption, PrepInv, PrepTypes

(* A step of one preparation: others keep their stages and reservations. *)
Local(c, s, h) ==
    /\ stage' = [stage EXCEPT ![c] = s] /\ s \in P!Stages
    /\ held' = [held EXCEPT ![c] = h] /\ h \in SUBSET {"directory", "marker", "checkout"}
    /\ saved' \in {saved, saved \cup {c}}
    /\ spoiled' \in {spoiled, spoiled \cup {c}}

LEMMA LocalStep ==
  ASSUME P!PreparationAssumption, PrepInv, NEW c \in Callers, NEW s, NEW h, Local(c, s, h),
         Touches(c, entry, entry'), Touches(c, branch, branch'), Touches(c, checkout, checkout'),
         \/ Dir(c) \in {NoCaller, c} /\ marked' = marked \ {IdOf[c]}
         \/ marked' \in {marked, marked \cup {IdOf[c]}},
         Work(c)' \in {NoCaller, Br(c)'},
         stage'[c] = s /\ held'[c] = h => CallerInv(c)'
  PROVE  PrepInv'
<1>1. stage'[c] = s /\ held'[c] = h
  BY DEF Local, PrepInv, PrepTypes
<1>2. /\ entry' \in Makers /\ branch' \in Makers /\ checkout' \in Makers
      /\ \A i \in RunIds : i # IdOf[c] => branch'[i] = branch[i] /\ checkout'[i] = checkout[i]
      /\ \A d \in Callers : d # c => /\ Dir(d)' = d <=> Dir(d) = d
                                     /\ Br(d)' = d <=> Br(d) = d
                                     /\ Work(d)' = d <=> Work(d) = d
  <2>1. /\ entry' \in Makers
        /\ \A d \in Callers : d # c => (entry'[IdOf[d]] = d <=> entry[IdOf[d]] = d)
    BY Stands, OwnPlace DEF Dir
  <2>2. /\ branch' \in Makers /\ \A i \in RunIds : i # IdOf[c] => branch'[i] = branch[i]
        /\ \A d \in Callers : d # c => (branch'[IdOf[d]] = d <=> branch[IdOf[d]] = d)
    BY Stands, OwnPlace DEF Br
  <2>3. /\ checkout' \in Makers /\ \A i \in RunIds : i # IdOf[c] => checkout'[i] = checkout[i]
        /\ \A d \in Callers : d # c => (checkout'[IdOf[d]] = d <=> checkout[IdOf[d]] = d)
    BY Stands, OwnPlace DEF Work
  <2> QED BY <2>1, <2>2, <2>3 DEF Dir, Br, Work
<1>3. PrepTypes'
  BY <1>2, Stands DEF Local, PrepInv, PrepTypes
<1>4. TreeInv'
  BY <1>2 DEF PrepInv, TreeInv, Br, Work
<1>5. ASSUME NEW d \in Callers, d # c
      PROVE  CallerInv(d)'
  <2>1. stage'[d] = stage[d] /\ held'[d] = held[d]
    BY <1>5 DEF Local, PrepInv, PrepTypes
  <2>2. (d \in saved' <=> d \in saved) /\ (d \in spoiled' <=> d \in spoiled)
    BY <1>5 DEF Local
  <2>3. Dir(d) = d /\ IdOf[d] \in marked => IdOf[d] \in marked'
    BY <1>5, Stands DEF Dir
  <2>4. CallerInv(d)
    BY DEF PrepInv
  <2> QED BY <1>2, <1>5, <2>1, <2>2, <2>3, <2>4, OtherCaller
<1>6. CallerInv(c)'
  BY <1>1
<1> QED BY <1>3, <1>4, <1>5, <1>6 DEF PrepInv

LEMMA WaitSteps ==
  ASSUME P!PreparationAssumption, PrepInv, NEW c \in Callers,
         P!Prepare(c) \/ P!EnterMutex(c, "queued", "reserving") \/ P!EnterMutex(c, "abort", "aborting")
  PROVE  PrepInv'
<1>1. PICK s \in {"queued", "ended", "reserving", "aborting"} :
        /\ P!Moves(c, s)
        /\ s = "aborting" <=> stage[c] = "abort"
        /\ stage[c] \in {"idle", "queued", "abort"}
        /\ UNCHANGED <<entry, marked, branch, checkout, held, saved, spoiled>>
  BY DEF P!Prepare, P!EnterMutex, P!disk
<1>2. Local(c, s, held[c])
  BY <1>1, Stands DEF Local, P!Moves, P!Stages, PrepInv, PrepTypes
<1>3. ASSUME stage'[c] = s, held'[c] = held[c]
      PROVE  CallerInv(c)'
  BY <1>1, <1>3, Stands DEF CallerInv, PlaceInv, SavedInv, EndInv, Fresh, InPlace, Marked,
     CheckedOut, Dir, Br,
                            Work, P!Existing
<1>4. Work(c)' \in {NoCaller, Br(c)'}
  BY <1>1, Stands DEF PrepInv, TreeInv, Br, Work
<1> QED BY <1>1, <1>2, <1>3, <1>4, LocalStep DEF Touches

LEMMA ReserveStep ==
  ASSUME P!PreparationAssumption, PrepInv, NEW c \in Callers, P!Reserve(c)
  PROVE  PrepInv'
<1>1. stage[c] = "reserving" /\ UNCHANGED <<branch, checkout, saved, spoiled>>
  BY DEF P!Reserve
<1>2. Work(c)' \in {NoCaller, Br(c)'}
  BY <1>1, Stands DEF PrepInv, TreeInv, Br, Work
<1>3. CASE Dir(c) # NoCaller /\ P!Moves(c, "cleaning") /\ UNCHANGED <<entry, marked, held>>
  <2>1. Local(c, "cleaning", held[c])
    BY <1>1, <1>3, Stands DEF Local, P!Moves, P!Stages, PrepInv, PrepTypes
  <2>2. ASSUME stage'[c] = "cleaning", held'[c] = held[c]
        PROVE  CallerInv(c)'
    BY <1>1, <1>3, <2>2, Stands DEF CallerInv, PlaceInv, SavedInv, EndInv, Fresh, InPlace,
       Marked, CheckedOut,
                                    Dir, Br, Work, P!Existing
  <2> QED BY <1>1, <1>2, <1>3, <2>1, <2>2, LocalStep DEF Touches
<1>4. CASE /\ Dir(c) = NoCaller /\ entry' = P!Put(entry, c) /\ marked' = marked \ {IdOf[c]}
           /\ held' = [held EXCEPT ![c] = {"directory"}] /\ P!Moves(c, "marking")
  <2>1. Local(c, "marking", {"directory"})
    BY <1>1, <1>4, Stands DEF Local, P!Moves, P!Stages
  <2>2. Dir(c)' = c
    BY <1>4, Stands, OwnPlace DEF Dir, Touches
  <2>3. ASSUME stage'[c] = "marking", held'[c] = {"directory"}
        PROVE  CallerInv(c)'
    BY <1>1, <1>4, <2>2, <2>3, Stands DEF CallerInv, PlaceInv, SavedInv, EndInv, Fresh, InPlace, Marked,
                                          CheckedOut, Br, Work, P!Existing
  <2> QED BY <1>1, <1>2, <1>4, <2>1, <2>3, LocalStep DEF Touches, Dir
<1> QED BY <1>3, <1>4 DEF P!Reserve, Dir

LEMMA MarkStep ==
  ASSUME P!PreparationAssumption, PrepInv, NEW c \in Callers, P!Mark(c)
  PROVE  PrepInv'
<1>1. stage[c] = "marking" /\ UNCHANGED <<entry, branch, checkout, saved, spoiled>>
  BY DEF P!Mark
<1>2. Work(c)' \in {NoCaller, Br(c)'}
  BY <1>1, Stands DEF PrepInv, TreeInv, Br, Work
<1>3. PICK s \in {"adding", "cleaning"}, h \in {held[c], held[c] \cup {"marker"}} :
        /\ P!Moves(c, s) /\ held' = [held EXCEPT ![c] = h]
        /\ marked' \in {marked, marked \cup {IdOf[c]}}
        /\ s = "adding" => IdOf[c] \in marked'
  BY DEF P!Mark, PrepInv, PrepTypes
<1>4. Local(c, s, h)
  BY <1>1, <1>3, Stands DEF Local, P!Moves, P!Stages
<1>5. ASSUME stage'[c] = s, held'[c] = h
      PROVE  CallerInv(c)'
  BY <1>1, <1>3, <1>5, Stands DEF CallerInv, PlaceInv, SavedInv, EndInv, Fresh, InPlace, Marked,
     CheckedOut,
                                  Dir, Br, Work, P!Existing
<1> QED BY <1>1, <1>2, <1>3, <1>4, <1>5, LocalStep DEF Touches

(* A checkout is only made where there is neither one nor a branch. *)
LEMMA AddStep ==
  ASSUME P!PreparationAssumption, PrepInv, NEW c \in Callers, P!AddCheckout(c) \/ P!MakeInside(c)
  PROVE  PrepInv'
<1>1. stage[c] = "adding" /\ UNCHANGED <<entry, marked, saved>>
  BY DEF P!AddCheckout, P!MakeInside, P!disk
<1>2. CASE /\ P!Existing(c) /\ Br(c) = NoCaller /\ branch' = P!Put(branch, c) /\ checkout' = P!Put(checkout, c)
           /\ held' = [held EXCEPT ![c] = @ \cup {"checkout"}] /\ P!Moves(c, "rechecking") /\ UNCHANGED spoiled
  <2>1. Local(c, "rechecking", held[c] \cup {"checkout"})
    BY <1>1, <1>2, Stands DEF Local, P!Moves, P!Stages, PrepInv, PrepTypes
  <2>2. Work(c) = NoCaller
    BY <1>2, Stands DEF PrepInv, TreeInv, Br, Work
  <2>3. Br(c)' = c /\ Work(c)' = c
    BY <1>2, <2>2, Stands, OwnPlace DEF Touches, Br, Work
  <2>4. ASSUME stage'[c] = "rechecking", held'[c] = held[c] \cup {"checkout"}
        PROVE  CallerInv(c)'
    BY <1>1, <1>2, <2>3, <2>4, Stands DEF CallerInv, PlaceInv, SavedInv, EndInv, Fresh, InPlace, Marked,
                                          CheckedOut, Dir, P!Existing
  <2> QED BY <1>1, <1>2, <2>1, <2>2, <2>3, <2>4, LocalStep DEF Touches, Br, Work
<1>3. CASE /\ Br(c) = NoCaller /\ branch' = P!Put(branch, c) /\ spoiled' = spoiled \cup {c}
           /\ P!Moves(c, "cleaning") /\ UNCHANGED <<checkout, held>>
  <2>1. Local(c, "cleaning", held[c])
    BY <1>1, <1>3, Stands DEF Local, P!Moves, P!Stages, PrepInv, PrepTypes
  <2>2. Work(c) = NoCaller /\ Work(c)' = NoCaller
    BY <1>3, Stands DEF PrepInv, TreeInv, Br, Work
  <2>3. ASSUME stage'[c] = "cleaning", held'[c] = held[c]
        PROVE  CallerInv(c)'
    BY <1>1, <1>3, <2>2, <2>3, Stands DEF CallerInv, PlaceInv, SavedInv, EndInv, Fresh, InPlace, Marked,
                                          CheckedOut, Dir, P!Existing
  <2> QED BY <1>1, <1>3, <2>1, <2>2, <2>3, LocalStep DEF Touches, Br
<1>4. CASE /\ P!Moves(c, "cleaning") \/ (~P!Existing(c) /\ P!Moves(c, "rechecking"))
           /\ UNCHANGED <<branch, checkout, held, spoiled>>
  <2>1. PICK s \in {"cleaning", "rechecking"} : P!Moves(c, s) /\ (s = "rechecking" => ~P!Existing(c))
    BY <1>4
  <2>2. Local(c, s, held[c])
    BY <1>1, <1>4, <2>1, Stands DEF Local, P!Moves, P!Stages, PrepInv, PrepTypes
  <2>3. Work(c)' \in {NoCaller, Br(c)'}
    BY <1>4, Stands DEF PrepInv, TreeInv, Br, Work
  <2>4. ASSUME stage'[c] = s, held'[c] = held[c]
        PROVE  CallerInv(c)'
    BY <1>1, <1>4, <2>1, <2>4, Stands DEF CallerInv, PlaceInv, SavedInv, EndInv, Fresh, InPlace, Marked,
                                          CheckedOut, Dir, Br, Work, P!Existing
  <2> QED BY <1>1, <1>4, <2>2, <2>3, <2>4, LocalStep DEF Touches
<1>5. CASE P!MakeInside(c)
  BY <1>4, <1>5 DEF P!MakeInside, P!disk
<1> QED BY <1>2, <1>3, <1>4, <1>5 DEF P!AddCheckout, P!Register, Br

(* What is prepared is recorded or to be aborted; a record is acknowledged. *)
LEMMA RecordSteps ==
  ASSUME P!PreparationAssumption, PrepInv, NEW c \in Callers, P!Prepared(c) \/ P!Save(c) \/ P!Acknowledge(c)
  PROVE  PrepInv'
<1>1. PICK s \in {"prepared", "cleaning", "acking", "abort", "ended"} :
        /\ P!Moves(c, s) /\ stage[c] \in {"rechecking", "prepared", "acking"}
        /\ UNCHANGED <<entry, marked, branch, checkout, held, spoiled>>
        /\ saved' \in {saved, saved \cup {c}}
        /\ c \in saved' <=> s = "acking" \/ c \in saved
        /\ stage[c] = "rechecking" <=> s \in {"prepared", "cleaning"}
        /\ stage[c] = "prepared" <=> s \in {"acking", "abort"}
  BY DEF P!Prepared, P!Save, P!Acknowledge, P!disk
<1>2. Local(c, s, held[c])
  BY <1>1, Stands DEF Local, P!Moves, P!Stages, PrepInv, PrepTypes
<1>3. ASSUME stage'[c] = s, held'[c] = held[c]
      PROVE  CallerInv(c)'
  BY <1>1, <1>3, Stands DEF CallerInv, PlaceInv, SavedInv, EndInv, Fresh, InPlace, Marked,
     CheckedOut, Dir, Br,
                            Work, P!Existing
<1>4. Work(c)' \in {NoCaller, Br(c)'}
  BY <1>1, Stands DEF PrepInv, TreeInv, Br, Work
<1> QED BY <1>1, <1>2, <1>3, <1>4, LocalStep DEF Touches

(* A cleanup takes away what its own preparation has made, and nothing else. *)
LEMMA SourceSteps ==
  ASSUME P!PreparationAssumption, PrepInv, NEW c \in Callers, P!RemoveCheckout(c) \/ P!DeleteBranch(c)
  PROVE  PrepInv'
<1>1. /\ stage[c] \in {"cleaning", "aborting"} /\ "checkout" \in held[c]
      /\ UNCHANGED <<entry, marked, stage, held, saved, spoiled>>
  BY DEF P!RemoveCheckout, P!DeleteBranch, P!Cleaning
<1>2. Local(c, stage[c], held[c])
  BY <1>1, Stands DEF Local, PrepInv, PrepTypes
<1>3. ASSUME stage'[c] = stage[c], held'[c] = held[c]
      PROVE  CallerInv(c)'
  BY <1>1, <1>3, Stands DEF CallerInv, PlaceInv, SavedInv, EndInv, Fresh, InPlace, Marked,
     CheckedOut, Dir,
                            P!Existing
<1>4. CASE P!RemoveCheckout(c)
  <2>1. Work(c) = c /\ checkout' = P!Clear(checkout, c) /\ UNCHANGED branch
    BY <1>4 DEF P!RemoveCheckout, Work
  <2>2. Work(c)' = NoCaller
    BY <2>1, Stands, OwnPlace DEF Touches, Work
  <2> QED BY <1>1, <1>2, <1>3, <2>1, <2>2, LocalStep DEF Touches, Work
<1>5. CASE P!DeleteBranch(c)
  <2>1. Br(c) = c /\ Work(c) # c /\ branch' = P!Clear(branch, c) /\ UNCHANGED checkout
    BY <1>5 DEF P!DeleteBranch, Br, Work
  <2>2. Work(c) = NoCaller /\ Work(c)' = NoCaller
    BY <2>1, Stands DEF PrepInv, TreeInv, Br, Work
  <2> QED BY <1>1, <1>2, <1>3, <2>1, <2>2, LocalStep DEF Touches, Br
<1> QED BY <1>4, <1>5

LEMMA EndSteps ==
  ASSUME P!PreparationAssumption, PrepInv, NEW c \in Callers,
         P!NothingToClean(c) \/ P!Quarantine(c) \/ P!CleanupFails(c)
  PROVE  PrepInv'
<1>1. /\ stage[c] \in {"cleaning", "aborting"} /\ P!Moves(c, "ended")
      /\ UNCHANGED <<branch, checkout, held, saved>>
      /\ c \notin saved
  BY Stands DEF P!NothingToClean, P!Quarantine, P!CleanupFails, P!Cleaning, P!disk, CallerInv, SavedInv
<1>2. spoiled' \in {spoiled, spoiled \cup {c}}
  BY DEF P!NothingToClean, P!Quarantine, P!CleanupFails
<1>3. Local(c, "ended", held[c])
  BY <1>1, <1>2, Stands DEF Local, P!Moves, P!Stages, PrepInv, PrepTypes
<1>4. Work(c)' \in {NoCaller, Br(c)'}
  BY <1>1, Stands DEF PrepInv, TreeInv, Br, Work
<1>5. CASE P!NothingToClean(c) \/ P!CleanupFails(c)
  <2>1. UNCHANGED <<entry, marked>> /\ (held[c] = {} \/ c \in spoiled')
    BY <1>5 DEF P!NothingToClean, P!CleanupFails, P!disk
  <2>2. ASSUME stage'[c] = "ended", held'[c] = held[c]
        PROVE  CallerInv(c)'
    BY <1>1, <1>2, <2>1, <2>2, Stands DEF CallerInv, PlaceInv, SavedInv, EndInv, Fresh, InPlace, Marked,
                                          CheckedOut, Dir, Br, Work, P!Existing
  <2> QED BY <1>1, <1>3, <1>4, <2>1, <2>2, LocalStep DEF Touches
<1>6. CASE P!Quarantine(c)
  <2>1. /\ entry' = P!Clear(entry, c) /\ marked' = marked \ {IdOf[c]} /\ held[c] # {}
        /\ "checkout" \in held[c] => Work(c) # c /\ Br(c) # c
        /\ Dir(c) = c
    BY <1>1, <1>6, Stands DEF P!Quarantine, P!SourceCleaned, CallerInv, PlaceInv, InPlace, Br, Work
  <2>2. Dir(c)' = NoCaller
    BY <2>1, Stands, OwnPlace DEF Touches, Dir
  <2>3. ASSUME stage'[c] = "ended", held'[c] = held[c]
        PROVE  CallerInv(c)'
    BY <1>1, <1>2, <2>1, <2>2, <2>3, Stands DEF CallerInv, PlaceInv, SavedInv, EndInv, Fresh,
       InPlace, Marked,
                                                CheckedOut, Br, Work, P!Existing
  <2> QED BY <1>1, <1>3, <1>4, <2>1, <2>3, LocalStep DEF Touches, Dir
<1> QED BY <1>5, <1>6

LEMMA DeathStep ==
  ASSUME P!PreparationAssumption, PrepInv, P!ServerDies
  PROVE  PrepInv'
<1>1. /\ stage' = [c \in Callers |-> IF stage[c] = "idle" THEN "idle" ELSE "ended"]
      /\ spoiled' = spoiled \cup {c \in Callers : stage[c] \notin {"idle", "ended"}}
      /\ UNCHANGED <<entry, marked, branch, checkout, held, saved>>
  BY DEF P!ServerDies, P!disk
<1>2. PrepTypes' /\ TreeInv'
  BY <1>1 DEF PrepInv, PrepTypes, TreeInv, P!Stages
<1>3. ASSUME NEW c \in Callers
      PROVE  CallerInv(c)'
  <2>1. /\ (stage'[c] = "idle" /\ stage[c] = "idle") \/ (stage'[c] = "ended" /\ stage[c] # "idle")
        /\ c \in spoiled' <=> c \in spoiled \/ stage[c] \notin {"idle", "ended"}
    BY <1>1
  <2> QED BY <1>1, <2>1, Stands DEF CallerInv, PlaceInv, SavedInv, EndInv, Fresh, InPlace,
     Marked, CheckedOut,
                                    Dir, Br, Work, P!Existing
<1> QED BY <1>2, <1>3 DEF PrepInv

LEMMA NextPrep ==
  ASSUME P!PreparationAssumption, PrepInv, [P!Next]_(P!prepVars)
  PROVE  PrepInv'
<1>1. CASE UNCHANGED P!prepVars
  <2>1. UNCHANGED <<entry, marked, branch, checkout, stage, held, saved, spoiled>>
    BY <1>1 DEF P!prepVars
  <2>2. PrepTypes' /\ TreeInv'
    BY <2>1 DEF PrepInv, PrepTypes, TreeInv
  <2>3. ASSUME NEW c \in Callers
        PROVE  CallerInv(c)'
    BY <2>1, Stands, OtherCaller DEF Dir, Br, Work
  <2> QED BY <2>2, <2>3 DEF PrepInv
<1> QED BY <1>1, WaitSteps, ReserveStep, MarkStep, AddStep, RecordSteps, SourceSteps, EndSteps,
   DeathStep
        DEF P!Next

(* A preparation is all or nothing (ProjectRunManager.prepare, abortPrepared,   *)
(* acknowledgePrepared): a recorded run keeps its directory, branch and         *)
(* checkout, and one that failed leaves none of them, for any calls with        *)
(* whatever ids and however they overlap, fail and are cut off by crashes.      *)
THEOREM PreparationsAreAllOrNothing ==
  ASSUME P!PreparationAssumption
  PROVE  P!Spec => []P!AllOrNothing
<1>1. P!Init => PrepInv
  BY InitPrep
<1>2. PrepInv /\ [P!Next]_(P!prepVars) => PrepInv'
  BY NextPrep
<1>3. PrepInv => P!AllOrNothing
  BY DEF PrepInv, CallerInv, SavedInv, EndInv, P!AllOrNothing, Dir, Br, Work
<1> QED BY <1>1, <1>2, <1>3, PTL DEF P!Spec

(***************************************************************************)
(* The catalog of projects (ProjectCatalog).                               *)
(***************************************************************************)

(***************************************************************************)
(* Types.                                                                  *)
(***************************************************************************)

Owners == C!Ids \cup {NoProject}
Where  == Slugs \cup {Source, Nowhere}
Stations == {"idle", "staged", "published", "identified", "branched", "done", "inspect", "sweep", "rmdir",
             "gone", "kept", "failed", "looked", "admitted", "chats", "found", "lost"}
States == [at : Stations, of : Owners, slug : Where, seen : Owners, todo : SUBSET Chats]

CatalogTypes ==
    /\ projects \in [C!Ids -> Where]
    /\ dirs \in [Slugs -> [of : Owners, body : {"whole", "partial", "empty", "none"}]]
    /\ call \in [C!Calls -> States]

Begun   == {"staged", "published", "identified", "branched"}
Ended   == {"done", "lost"}
Removal == {"inspect", "sweep", "rmdir"}

(* The project p has, or is about to have, the directory s. *)
Holds(p, s) ==
    \/ projects[p] = s
    \/ p \in Creates /\ call[p].at \in Begun \ {"staged"} /\ call[p].slug = s

Safe(p, s) == C!Intact(p, s) \/ p \in stale

(* Whoever holds a directory has its repository in it, and a managed project  *)
(* was made by a call that has ended.                                          *)
HeldInv ==
    /\ \A p \in C!Ids, s \in Slugs : Holds(p, s) => Safe(p, s)
    /\ \A p \in C!Ids : projects[p] \in Slugs => p \in Creates /\ call[p].at \in Ended

(* A creation works at its own project.  A repository is removed only when no  *)
(* record points at it, and none will.                                         *)
CallInv(c) ==
    /\ c \in Creates /\ call[c].at \in Begun \cup Removal => call[c].of = c /\ call[c].slug \in Slugs
    /\ call[c].at = "found" /\ call[c].slug \in Slugs =>
         call[c].of \in Creates /\ call[call[c].of].at \in Ended
    /\ call[c].at \in Removal =>
         /\ call[c].of \in Creates /\ call[c].slug \in Slugs
         /\ call[call[c].of].at \notin Begun \cup {"idle"}
         /\ projects[call[c].of] \notin Slugs
    /\ call[c].at = "sweep" => call[c].seen = call[c].of
    /\ call[c].at \in {"chats", "found"} => call[c].of \in C!Ids

CatalogInv == CatalogTypes /\ HeldInv /\ (\A c \in C!Calls : CallInv(c)) /\ C!OneProjectEach

LEMMA IdleState == C!Idle \in States /\ C!Idle.at = "idle"
<1>1. NoProject \in Owners /\ Nowhere \in Where /\ {} \in SUBSET Chats /\ "idle" \in Stations
  BY DEF Owners, Where, Stations
<1> QED BY <1>1 DEF C!Idle, States

LEMMA AtReplaced ==
  ASSUME NEW r \in States, NEW station \in Stations
  PROVE  /\ [r EXCEPT !.at = station] \in States /\ [r EXCEPT !.at = station].at = station
         /\ [r EXCEPT !.at = station].of = r.of /\ [r EXCEPT !.at = station].slug = r.slug
         /\ [r EXCEPT !.at = station].seen = r.seen
BY DEF States

LEMMA NameReplaced ==
  ASSUME NEW r \in States, NEW s \in Where
  PROVE  /\ [r EXCEPT !.slug = s] \in States /\ [r EXCEPT !.slug = s].at = r.at
         /\ [r EXCEPT !.slug = s].of = r.of /\ [r EXCEPT !.slug = s].slug = s
         /\ [r EXCEPT !.slug = s].seen = r.seen
BY DEF States

LEMMA TodoReplaced ==
  ASSUME NEW r \in States, NEW rest \in SUBSET Chats
  PROVE  /\ [r EXCEPT !.todo = rest] \in States
         /\ [r EXCEPT !.todo = rest].at = r.at /\ [r EXCEPT !.todo = rest].of = r.of
         /\ [r EXCEPT !.todo = rest].slug = r.slug /\ [r EXCEPT !.todo = rest].seen = r.seen
BY DEF States

(* The state of a call whose place alone changes. *)
LEMMA Goer ==
  ASSUME CatalogInv, NEW c \in C!Calls, NEW station \in Stations, C!Goes(c, station)
  PROVE  \E t \in States : /\ call' = [call EXCEPT ![c] = t] /\ t.at = station /\ t.of = call[c].of
                           /\ t.slug = call[c].slug /\ t.seen = call[c].seen
<1>1. call[c] \in States
  BY DEF CatalogInv, CatalogTypes
<1> DEFINE t == [call[c] EXCEPT !.at = station]
<1>2. call' = [call EXCEPT ![c] = t]
  BY DEF C!Goes
<1>3. /\ t \in States /\ t.at = station /\ t.of = call[c].of
      /\ t.slug = call[c].slug /\ t.seen = call[c].seen
  BY <1>1, AtReplaced
<1> HIDE DEF t
<1> QED BY <1>2, <1>3

(* The state of a removal that has found its directory. *)
LEMMA Sweeper ==
  ASSUME CatalogInv, NEW c \in C!Calls, NEW q \in Owners,
         call' = [call EXCEPT ![c] = [@ EXCEPT !.at = "sweep", !.seen = q]]
  PROVE  \E t \in States : /\ call' = [call EXCEPT ![c] = t] /\ t.at = "sweep" /\ t.seen = q
                           /\ t.of = call[c].of /\ t.slug = call[c].slug
<1>1. call[c] \in States /\ "sweep" \in Stations
  BY DEF CatalogInv, CatalogTypes, Stations
<1> DEFINE t == [call[c] EXCEPT !.at = "sweep", !.seen = q]
<1>2. call' = [call EXCEPT ![c] = t]
  OBVIOUS
<1>3. t \in States /\ t.at = "sweep" /\ t.seen = q /\ t.of = call[c].of /\ t.slug = call[c].slug
  BY <1>1 DEF States
<1> HIDE DEF t
<1> QED BY <1>2, <1>3

(***************************************************************************)
(* Steps.                                                                  *)
(***************************************************************************)

LEMMA InitCatalog ==
  ASSUME C!CatalogAssumption, C!Init
  PROVE  CatalogInv
<1>1. Nowhere \notin Slugs /\ Nowhere # Source
  BY DEF C!CatalogAssumption
<1>2. \A p \in C!Ids : projects[p] = Nowhere
  BY DEF C!Init
<1>3. \A c \in C!Calls : call[c] = C!Idle
  BY DEF C!Init
<1>4. CatalogTypes
  BY IdleState DEF C!Init, CatalogTypes, Where, C!Empty, Owners
<1>5. Creates \subseteq C!Calls
  BY DEF C!Calls
<1> QED BY <1>1, <1>2, <1>3, <1>4, <1>5, IdleState
        DEF CatalogInv, HeldInv, Holds, CallInv, C!OneProjectEach, Begun, Removal

(* A step of one call: it may publish a repository or record a project it     *)
(* holds, and what the others hold stays as it was.                            *)
LEMMA CallStep ==
  ASSUME C!CatalogAssumption, CatalogInv, NEW c \in C!Calls, NEW t \in States,
         call' = [call EXCEPT ![c] = t], CatalogTypes', C!OneProjectEach',
         \A p \in C!Ids, s \in Slugs : Holds(p, s) => Safe(p, s)',
         \A p \in C!Ids : projects'[p] \in Slugs =>
            \/ projects'[p] = projects[p]
            \/ p = c /\ c \in Creates /\ call[c].at \in Begun /\ t.at \in Ended /\ Holds(c, projects'[c]),
         c \in Creates =>
            /\ t.at \in Begun \cup Removal => t.of = c /\ t.slug \in Slugs
            /\ t.at \in Begun \ {"staged"} => \A z \in Slugs : t.slug = z => Safe(c, z)'
            /\ call[c].at \in Ended => t.at \in Ended
            /\ call[c].at \notin Begun \cup {"idle"} => t.at \notin Begun \cup {"idle"},
         t.at = "found" /\ t.slug \in Slugs => t.of \in Creates /\ call[t.of].at \in Ended,
         t.at \in Removal =>
            /\ t.of \in Creates /\ t.slug \in Slugs /\ projects'[t.of] \notin Slugs
            /\ t.of = c \/ call[t.of].at \notin Begun \cup {"idle"},
         t.at = "sweep" => t.seen = t.of,
         t.at \in {"chats", "found"} => t.of \in C!Ids
  PROVE  CatalogInv'
<1>1. call'[c] = t /\ \A x \in C!Calls : x # c => call'[x] = call[x]
  BY DEF CatalogInv, CatalogTypes
<1>2. Creates \subseteq C!Calls /\ Creates \subseteq C!Ids
  BY DEF C!Calls, C!Ids
<1>3. \A p \in Creates : /\ call[p].at \in Ended => call'[p].at \in Ended
                         /\ call[p].at \notin Begun \cup {"idle"} => call'[p].at \notin Begun \cup {"idle"}
  BY <1>1, <1>2
<1>4. HeldInv'
  <2>1. ASSUME NEW p \in C!Ids, NEW s \in Slugs, Holds(p, s)'
        PROVE  Safe(p, s)'
    <3>1. CASE Holds(p, s)
      BY <3>1
    <3>2. CASE projects'[p] = s /\ projects[p] # s
      BY <3>2
    <3>3. CASE p \in Creates /\ call'[p].at \in Begun \ {"staged"} /\ call'[p].slug = s /\ ~ Holds(p, s)
      <4>1. p = c
        BY <1>1, <1>2, <3>3 DEF Holds
      <4> QED BY <1>1, <3>3, <4>1
    <3> QED BY <2>1, <3>1, <3>2, <3>3 DEF Holds
  <2>2. ASSUME NEW p \in C!Ids, projects'[p] \in Slugs
        PROVE  p \in Creates /\ call'[p].at \in Ended
    <3>1. CASE projects'[p] = projects[p]
      BY <1>3, <2>2, <3>1 DEF CatalogInv, HeldInv
    <3>2. CASE projects'[p] # projects[p]
      BY <1>1, <2>2, <3>2
    <3> QED BY <3>1, <3>2
  <2> QED BY <2>1, <2>2 DEF HeldInv
<1>5. ASSUME NEW x \in C!Calls
      PROVE  CallInv(x)'
  <2>1. CASE x = c
    <3>1. t.at \in Removal => call'[t.of].at \notin Begun \cup {"idle"}
      BY <1>1, <1>3 DEF Removal, Begun
    <3>2. t.at = "found" /\ t.slug \in Slugs => call'[t.of].at \in Ended
      BY <1>3
    <3> QED BY <1>1, <2>1, <3>1, <3>2 DEF CallInv
  <2>2. CASE x # c
    <3>1. call'[x] = call[x] /\ CallInv(x)
      BY <1>1, <2>2 DEF CatalogInv
    <3>2. call[x].at \in Removal => projects'[call[x].of] \notin Slugs
      <4> SUFFICES ASSUME call[x].at \in Removal, projects'[call[x].of] \in Slugs
                   PROVE  FALSE
        OBVIOUS
      <4> DEFINE p == call[x].of
      <4>1. p \in Creates /\ p \in C!Ids /\ call[p].at \notin Begun \cup {"idle"} /\ projects[p] \notin Slugs
        BY <1>2, <3>1 DEF CallInv
      <4>2. projects'[p] # projects[p]
        BY <4>1
      <4> QED BY <4>1, <4>2
    <3>3. call[x].at \in Removal => call'[call[x].of].at \notin Begun \cup {"idle"}
      BY <1>3, <3>1 DEF CallInv
    <3>4. call[x].at = "found" /\ call[x].slug \in Slugs => call'[call[x].of].at \in Ended
      BY <1>3, <3>1 DEF CallInv
    <3> QED BY <3>1, <3>2, <3>3, <3>4 DEF CallInv
  <2> QED BY <2>1, <2>2
<1> QED BY <1>4, <1>5 DEF CatalogInv

(* A call that changes nothing that is held. *)
LEMMA QuietCall ==
  ASSUME C!CatalogAssumption, CatalogInv, NEW c \in C!Calls, NEW t \in States,
         call' = [call EXCEPT ![c] = t], UNCHANGED <<projects, dirs, stale>>,
         c \in Creates =>
            /\ t.at \in Begun \cup Removal => t.of = c /\ t.slug \in Slugs
            /\ t.at \in Begun \ {"staged"} => Holds(c, t.slug)
            /\ call[c].at \in Ended => t.at \in Ended
            /\ call[c].at \notin Begun \cup {"idle"} => t.at \notin Begun \cup {"idle"},
         t.at = "found" /\ t.slug \in Slugs => t.of \in Creates /\ call[t.of].at \in Ended,
         t.at \in Removal =>
            /\ t.of \in Creates /\ t.slug \in Slugs /\ projects[t.of] \notin Slugs
            /\ t.of = c \/ call[t.of].at \notin Begun \cup {"idle"},
         t.at = "sweep" => t.seen = t.of,
         t.at \in {"chats", "found"} => t.of \in C!Ids
  PROVE  CatalogInv'
<1>1. call' \in [C!Calls -> States]
  BY DEF CatalogInv, CatalogTypes
<1>2. CatalogTypes' /\ C!OneProjectEach'
  BY <1>1 DEF CatalogInv, CatalogTypes, C!OneProjectEach
<1>3. \A p, s : Safe(p, s)' <=> Safe(p, s)
  BY DEF Safe, C!Intact
<1>4. \A p \in C!Ids, s \in Slugs : Holds(p, s) => Safe(p, s)'
  BY <1>3 DEF CatalogInv, HeldInv
<1>5. c \in Creates /\ t.at \in Begun \ {"staged"} => \A z \in Slugs : t.slug = z => Safe(c, z)'
  <2>1. Creates \subseteq C!Ids
    BY DEF C!Ids
  <2> QED BY <1>4, <2>1 DEF Begun
<1> QED BY <1>2, <1>4, <1>5, CallStep

(* Its own state, for whoever is at work in it. *)
LEMMA Worker ==
  ASSUME CatalogInv, NEW c \in Creates
  PROVE  /\ c \in C!Calls /\ c \in C!Ids /\ c \in Owners /\ call[c] \in States /\ CallInv(c)
         /\ call[c].of \in Owners /\ call[c].slug \in Where
BY DEF CatalogInv, CatalogTypes, C!Calls, C!Ids, Owners, States

LEMMA StageStep ==
  ASSUME C!CatalogAssumption, CatalogInv, NEW c \in Creates, C!Stage(c)
  PROVE  CatalogInv'
<1>1. call[c].at = "idle" /\ UNCHANGED <<projects, dirs, stale>>
  BY DEF C!Stage, C!At, C!storeVars, C!history
<1>2. CASE C!Goes(c, "failed")
  <2>1. PICK t \in States : call' = [call EXCEPT ![c] = t] /\ t.at = "failed"
    BY <1>2, Worker, Goer DEF Stations
  <2> QED BY <1>1, <2>1, Worker, QuietCall DEF Begun, Removal, Ended
<1>3. CASE call' = [call EXCEPT ![c] = [C!Idle EXCEPT !.at = "staged", !.of = c, !.slug = C!Min(Slugs)]]
  <2> DEFINE t == [C!Idle EXCEPT !.at = "staged", !.of = c, !.slug = C!Min(Slugs)]
  <2>1. C!Min(Slugs) \in Slugs
    BY DEF C!CatalogAssumption, C!Min
  <2>0. c \in Owners /\ C!Min(Slugs) \in Where /\ "staged" \in Stations
    BY <2>1, Worker DEF Where, Stations
  <2>2. t \in States /\ t.at = "staged" /\ t.of = c /\ t.slug = C!Min(Slugs)
    <3>1. NoProject \in Owners /\ {} \in SUBSET Chats
      BY DEF Owners
    <3> QED BY <2>0, <3>1 DEF C!Idle, States
  <2>3. call' = [call EXCEPT ![c] = t]
    BY <1>3
  <2> HIDE DEF t
  <2> QED BY <1>1, <2>1, <2>2, <2>3, Worker, QuietCall DEF Begun, Removal, Ended
<1> QED BY <1>2, <1>3 DEF C!Stage

(* It takes a directory that nobody holds. *)
LEMMA PublishStep ==
  ASSUME C!CatalogAssumption, CatalogInv, NEW c \in Creates, C!Publish(c)
  PROVE  CatalogInv'
<1> DEFINE s == call[c].slug
<1>1. call[c].at = "staged" /\ UNCHANGED <<projects, stale>> /\ call[c].of = c /\ s \in Slugs
  BY Worker DEF C!Publish, C!At, C!storeVars, C!history, CallInv, Begun
<1>2. CASE /\ dirs[s].body \in {"none", "empty"} /\ C!Goes(c, "published")
           /\ dirs' = [dirs EXCEPT ![s] = [of |-> c, body |-> "whole"]]
  <2>1. PICK t \in States : /\ call' = [call EXCEPT ![c] = t] /\ t.at = "published"
                            /\ t.of = call[c].of /\ t.slug = call[c].slug
    BY <1>2, Worker, Goer DEF Stations
  <2>2. call' = [call EXCEPT ![c] = t] /\ t.of = c /\ t.slug = s
    BY <1>1, <2>1
  <2>3. call' \in [C!Calls -> States]
    BY <2>1, <2>2 DEF CatalogInv, CatalogTypes
  <2>4. [of |-> c, body |-> "whole"] \in [of : Owners, body : {"whole", "partial", "empty", "none"}]
    BY Worker
  <2>5. dirs' \in [Slugs -> [of : Owners, body : {"whole", "partial", "empty", "none"}]]
    <3> DEFINE R == [of : Owners, body : {"whole", "partial", "empty", "none"}]
               d == [of |-> c, body |-> "whole"]
    <3>1. d \in R /\ dirs \in [Slugs -> R]
      BY <2>4 DEF CatalogInv, CatalogTypes
    <3>2. dirs' = [dirs EXCEPT ![s] = d]
      BY <1>2
    <3> HIDE DEF R, d, s
    <3>3. dirs' \in [Slugs -> R]
      BY <3>1, <3>2
    <3> QED BY <3>3 DEF R
  <2>6. CatalogTypes' /\ C!OneProjectEach'
    BY <1>1, <2>3, <2>5 DEF CatalogInv, CatalogTypes, C!OneProjectEach
  <2>7. /\ dirs'[s] = [of |-> c, body |-> "whole"]
        /\ \A z \in Slugs : z # s => dirs'[z] = dirs[z]
    BY <1>1, <1>2 DEF CatalogInv, CatalogTypes
  <2>8. \A p \in C!Ids, z \in Slugs : Holds(p, z) => Safe(p, z)'
    <3> SUFFICES ASSUME NEW p \in C!Ids, NEW z \in Slugs, Holds(p, z) PROVE Safe(p, z)'
      OBVIOUS
    <3>1. Safe(p, z)
      BY DEF CatalogInv, HeldInv
    <3>2. CASE p \in stale
      BY <1>1, <3>2 DEF Safe
    <3>3. CASE C!Intact(p, z)
      <4>1. dirs[z].body = "whole"
        BY <3>3 DEF C!Intact
      <4>2. z # s
        BY <1>2, <4>1
      <4> QED BY <2>7, <3>3, <4>2 DEF Safe, C!Intact
    <3> QED BY <3>1, <3>2, <3>3 DEF Safe
  <2>9. \A z \in Slugs : t.slug = z => Safe(c, z)'
    BY <2>1, <2>2, <2>7 DEF Safe, C!Intact
  <2> HIDE DEF s
  <2> QED BY <1>1, <2>1, <2>2, <2>6, <2>8, <2>9, Worker, CallStep DEF Begun, Removal, Ended
<1>3. CASE /\ UNCHANGED dirs
           /\ call' = [call EXCEPT ![c] = IF s + 1 \in Slugs THEN [@ EXCEPT !.slug = s + 1]
                                          ELSE [@ EXCEPT !.at = "failed"]]
  <2>1. CASE s + 1 \in Slugs
    <3> DEFINE t == [call[c] EXCEPT !.slug = s + 1]
    <3>0. call[c] \in States /\ s + 1 \in Where
      BY <2>1, Worker DEF Where
    <3>1. t \in States /\ t.at = "staged" /\ t.of = c /\ t.slug \in Slugs
      BY <1>1, <2>1, <3>0, NameReplaced
    <3>2. call' = [call EXCEPT ![c] = t]
      BY <1>3, <2>1
    <3> HIDE DEF t
    <3> QED BY <1>1, <1>3, <3>1, <3>2, Worker, QuietCall DEF Begun, Removal, Ended
  <2>2. CASE s + 1 \notin Slugs
    <3>1. C!Goes(c, "failed")
      BY <1>3, <2>2 DEF C!Goes
    <3>2. PICK t \in States : call' = [call EXCEPT ![c] = t] /\ t.at = "failed"
      BY <3>1, Worker, Goer DEF Stations
    <3> QED BY <1>1, <1>3, <3>2, Worker, QuietCall DEF Begun, Removal, Ended
  <2> QED BY <2>1, <2>2
<1> QED BY <1>2, <1>3 DEF C!Publish


(* A call that goes on to another place, and takes nothing. *)
LEMMA GoingCall ==
  ASSUME C!CatalogAssumption, CatalogInv, NEW c \in C!Calls, UNCHANGED <<projects, dirs, stale>>,
         NEW station \in Stations \ {"chats", "found", "sweep", "staged", "idle"}, C!Goes(c, station),
         call[c].at \notin Ended,
         station \in Begun => c \in Creates /\ call[c].at \in Begun \ {"staged"},
         station \in Removal => call[c].at \in Removal \/ (c \in Creates /\ call[c].at \in Begun)
  PROVE  CatalogInv'
<1>1. PICK t \in States : /\ call' = [call EXCEPT ![c] = t] /\ t.at = station /\ t.of = call[c].of
                          /\ t.slug = call[c].slug /\ t.seen = call[c].seen
  BY Goer
<1>2. CallInv(c) /\ (c \in Creates => c \in C!Ids)
  BY DEF CatalogInv, C!Ids
<1>3. c \in Creates /\ call[c].at \in Begun => projects[c] \notin Slugs
  BY <1>2 DEF CatalogInv, HeldInv, Begun, Ended
<1>4. ASSUME c \in Creates
      PROVE  /\ t.at \in Begun \cup Removal => t.of = c /\ t.slug \in Slugs
             /\ t.at \in Begun \ {"staged"} => Holds(c, t.slug)
             /\ call[c].at \in Ended => t.at \in Ended
             /\ call[c].at \notin Begun \cup {"idle"} => t.at \notin Begun \cup {"idle"}
  BY <1>1, <1>2, <1>4 DEF CallInv, Holds, Begun, Removal
<1>5. ASSUME t.at \in Removal
      PROVE  /\ t.of \in Creates /\ t.slug \in Slugs /\ projects[t.of] \notin Slugs
             /\ t.of = c \/ call[t.of].at \notin Begun \cup {"idle"}
  <2>1. CASE call[c].at \in Removal
    BY <1>1, <1>2, <2>1 DEF CallInv
  <2>2. CASE c \in Creates /\ call[c].at \in Begun
    BY <1>1, <1>2, <1>3, <2>2 DEF CallInv
  <2> QED BY <1>1, <1>5, <2>1, <2>2
<1>6. t.at # "found" /\ t.at # "sweep" /\ t.at # "chats"
  BY <1>1
<1> QED BY <1>1, <1>4, <1>5, <1>6, QuietCall

LEMMA IdentifyStep ==
  ASSUME C!CatalogAssumption, CatalogInv, NEW c \in Creates, C!Identify(c) \/ C!Branch(c)
  PROVE  CatalogInv'
<1>1. /\ call[c].at \in {"published", "identified"} /\ call[c].at \notin Ended
      /\ call[c].at \in Begun \ {"staged"} /\ UNCHANGED <<projects, dirs, stale>>
  BY DEF C!Identify, C!Branch, C!At, C!storeVars, C!history, Begun, Ended
<1>2. CASE C!Goes(c, "identified") \/ C!Goes(c, "branched") \/ C!Goes(c, "inspect")
  BY <1>1, <1>2, Worker, GoingCall DEF Stations, Begun, Removal
<1>3. CASE call' = [call EXCEPT ![c] = [@ EXCEPT !.at = "sweep", !.seen = c]]
  <2>1. PICK t \in States : /\ call' = [call EXCEPT ![c] = t] /\ t.at = "sweep" /\ t.seen = c
                            /\ t.of = call[c].of /\ t.slug = call[c].slug
    BY <1>3, Worker, Sweeper
  <2>3. call[c].of = c /\ call[c].slug \in Slugs /\ projects[c] \notin Slugs
    BY <1>1, Worker DEF CallInv, CatalogInv, HeldInv
  <2> QED BY <1>1, <2>1, <2>3, Worker, QuietCall DEF Begun, Removal, Ended
<1> QED BY <1>2, <1>3 DEF C!Identify, C!Branch, C!GoesOrFails

(* The record of a repository that is made points at it. *)
LEMMA RecordStep ==
  ASSUME C!CatalogAssumption, CatalogInv, NEW c \in Creates, C!Record(c)
  PROVE  CatalogInv'
<1>1. /\ call[c].at = "branched" /\ call[c].at \notin Ended
      /\ call[c].at \in Begun \ {"staged"} /\ UNCHANGED <<dirs, stale>>
  BY DEF C!Record, C!At, C!history, Begun, Ended
<1>2. PICK station \in {"done", "inspect"} : C!Goes(c, station)
  BY DEF C!Record, C!GoesOrFails
<1>3. PICK t \in States : call' = [call EXCEPT ![c] = t] /\ t.at = station
  BY <1>2, Worker, Goer DEF Stations
<1>4. call'[c].at = station
  BY <1>3, Worker DEF CatalogInv, CatalogTypes
<1>5. CASE station = "inspect"
  <2>1. projects' = projects
    BY <1>4, <1>5 DEF C!Record
  <2> QED BY <1>1, <1>2, <1>5, <2>1, Worker, GoingCall DEF Stations, Begun, Removal
<1>6. CASE station = "done"
  <2>1. projects' = [projects EXCEPT ![c] = call[c].slug]
    BY <1>4, <1>6 DEF C!Record
  <2>2. call[c].slug \in Slugs /\ call[c].slug # Source
    BY <1>1, Worker DEF CallInv, C!CatalogAssumption
  <2>3. /\ projects'[c] = call[c].slug /\ projects' \in [C!Ids -> Where]
        /\ \A p \in C!Ids : p # c => projects'[p] = projects[p]
    BY <2>1, <2>2, Worker DEF CatalogInv, CatalogTypes, Where
  <2>4. call' \in [C!Calls -> States]
    BY <1>3 DEF CatalogInv, CatalogTypes
  <2>5. CatalogTypes'
    BY <1>1, <2>3, <2>4 DEF CatalogInv, CatalogTypes
  <2>6. C!OneProjectEach'
    BY <2>2, <2>3 DEF CatalogInv, C!OneProjectEach
  <2>7. \A p \in C!Ids, z \in Slugs : Holds(p, z) => Safe(p, z)'
    BY <1>1 DEF CatalogInv, HeldInv, Safe, C!Intact
  <2>8. \A p \in C!Ids : projects'[p] \in Slugs =>
          \/ projects'[p] = projects[p]
          \/ /\ p = c /\ c \in Creates /\ call[c].at \in Begun /\ t.at \in Ended
             /\ Holds(c, projects'[c])
    BY <1>1, <1>3, <1>6, <2>3 DEF Holds, Ended
  <2>9. t.at = "done"
    BY <1>3, <1>6
  <2> QED BY <1>1, <1>3, <2>5, <2>6, <2>7, <2>8, <2>9, Worker, CallStep DEF Begun, Removal, Ended
<1> QED BY <1>5, <1>6

(* What is removed belongs to no record, or to one that took the directory     *)
(* after it had been inspected.                                                *)
LEMMA InspectStep ==
  ASSUME C!CatalogAssumption, CatalogInv, NEW c \in C!Calls, C!Inspect(c)
  PROVE  CatalogInv'
<1>1. call[c].at = "inspect" /\ UNCHANGED <<projects, dirs, stale>> /\ CallInv(c) /\ call[c] \in States
  BY DEF C!Inspect, C!At, C!storeVars, C!history, CatalogInv, CatalogTypes
<1>2. CASE C!Goes(c, "kept")
  BY <1>1, <1>2, GoingCall DEF Stations, Begun, Removal, Ended
<1>3. CASE /\ C!Owned(c)
           /\ call' = [call EXCEPT ![c] = [@ EXCEPT !.at = "sweep", !.seen = dirs[call[c].slug].of]]
  <2> DEFINE q == dirs[call[c].slug].of
  <2>1. /\ call[c].of \in Creates /\ call[c].slug \in Slugs /\ projects[call[c].of] \notin Slugs
        /\ call[call[c].of].at \notin Begun \cup {"idle"}
        /\ c \in Creates => call[c].of = c
    BY <1>1 DEF CallInv, Removal
  <2>2. q = call[c].of
    BY <1>3 DEF C!Owned, C!Intact
  <2>3. q \in Owners
    BY <2>1, <2>2, Worker
  <2>4. call' = [call EXCEPT ![c] = [@ EXCEPT !.at = "sweep", !.seen = q]]
    BY <1>3
  <2> HIDE DEF q
  <2>5. PICK t \in States : /\ call' = [call EXCEPT ![c] = t] /\ t.at = "sweep" /\ t.seen = q
                            /\ t.of = call[c].of /\ t.slug = call[c].slug
    BY <2>3, <2>4, Sweeper
  <2> QED BY <1>1, <2>1, <2>2, <2>5, QuietCall DEF Begun, Removal, Ended
<1> QED BY <1>2, <1>3 DEF C!Inspect


(* A step of a removal: what it does to a directory leaves the repositories    *)
(* that are held, but for those it took for another's.                         *)
LEMMA RemovalStep ==
  ASSUME C!CatalogAssumption, CatalogInv, NEW c \in C!Calls, call[c].at \in {"sweep", "rmdir"},
         projects' = projects, stale \subseteq stale',
         dirs' \in [Slugs -> [of : Owners, body : {"whole", "partial", "empty", "none"}]],
         \A z \in Slugs, p \in C!Ids : z # call[c].slug /\ C!Intact(p, z) => C!Intact(p, z)',
         \A p \in C!Ids : C!Intact(p, call[c].slug) =>
            p = call[c].of \/ p \in stale' \/ (\A z \in Slugs : z = call[c].slug => C!Intact(p, z)'),
         call' = call \/ C!Goes(c, "rmdir") \/ C!Goes(c, "gone") \/ C!Goes(c, "kept")
  PROVE  CatalogInv'
<1>1. /\ call[c] \in States /\ CallInv(c) /\ call[c].at \in Removal
      /\ call[c].of \in Creates /\ call[c].slug \in Slugs /\ projects[call[c].of] \notin Slugs
      /\ call[call[c].of].at \notin Begun \cup {"idle"}
  BY DEF CatalogInv, CatalogTypes, CallInv, Removal
<1>2. \E t \in States : /\ call' = [call EXCEPT ![c] = t] /\ t.of = call[c].of /\ t.slug = call[c].slug
                        /\ \/ t = call[c]
                           \/ t.at \in {"rmdir", "gone", "kept"}
  <2>1. CASE call' = call
    <3>1. call' = [call EXCEPT ![c] = call[c]]
      BY <2>1 DEF CatalogInv, CatalogTypes
    <3> QED BY <1>1, <3>1
  <2>2. ASSUME NEW station \in {"rmdir", "gone", "kept"}, C!Goes(c, station)
        PROVE  \E t \in States : /\ call' = [call EXCEPT ![c] = t] /\ t.of = call[c].of
                                 /\ t.slug = call[c].slug /\ t.at = station
    BY <2>2, Goer DEF Stations
  <2> QED BY <2>1, <2>2
<1>3. PICK t \in States : /\ call' = [call EXCEPT ![c] = t] /\ t.of = call[c].of /\ t.slug = call[c].slug
                          /\ \/ t = call[c]
                             \/ t.at \in {"rmdir", "gone", "kept"}
  BY <1>2
<1>4. call' \in [C!Calls -> States]
  BY <1>3 DEF CatalogInv, CatalogTypes
<1>5. CatalogTypes' /\ C!OneProjectEach'
  BY <1>4 DEF CatalogInv, CatalogTypes, C!OneProjectEach
<1>6. ASSUME NEW p \in C!Ids, NEW z \in Slugs, Holds(p, z)
      PROVE  Safe(p, z)'
  <2>1. Safe(p, z)
    BY <1>6 DEF CatalogInv, HeldInv
  <2>2. CASE p \in stale
    BY <2>2 DEF Safe
  <2>3. CASE C!Intact(p, z) /\ z # call[c].slug
    BY <2>3 DEF Safe
  <2>4. CASE C!Intact(p, z) /\ z = call[c].slug
    <3>1. p # call[c].of
      BY <1>1, <1>6 DEF Holds
    <3> QED BY <2>4, <3>1 DEF Safe
  <2> QED BY <2>1, <2>2, <2>3, <2>4 DEF Safe
<1>7. /\ t.at \in Removal \cup {"gone", "kept"}
      /\ t.at = "sweep" => t.seen = t.of
      /\ c \in Creates => t.of = c
  BY <1>1, <1>3 DEF CallInv, Removal
<1> QED BY <1>1, <1>3, <1>5, <1>6, <1>7, CallStep DEF Begun, Removal, Ended

LEMMA SweepStep ==
  ASSUME C!CatalogAssumption, CatalogInv, NEW c \in C!Calls, C!Sweep(c)
  PROVE  CatalogInv'
<1> DEFINE s == call[c].slug
           Dirs == [of : Owners, body : {"whole", "partial", "empty", "none"}]
<1>1. /\ call[c].at = "sweep" /\ UNCHANGED projects /\ call[c].slug \in Slugs
      /\ call[c].seen = call[c].of /\ dirs \in [Slugs -> Dirs]
  BY DEF C!Sweep, C!At, C!storeVars, CatalogInv, CatalogTypes, CallInv, Removal
<1>2. CASE /\ dirs[s].body = "whole" /\ UNCHANGED call
           /\ dirs' = [dirs EXCEPT ![s].body = "partial"]
           /\ stale' = IF dirs[s].of # call[c].seen THEN stale \cup {dirs[s].of} ELSE stale
  <2>1. dirs' \in [Slugs -> Dirs] /\ \A z \in Slugs : z # s => dirs'[z] = dirs[z]
    BY <1>1, <1>2
  <2>2. stale \subseteq stale'
    BY <1>2
  <2>3. \A p \in C!Ids : C!Intact(p, s) => p = call[c].of \/ p \in stale'
    BY <1>1, <1>2 DEF C!Intact
  <2>4. \A z \in Slugs, p \in C!Ids : z # s /\ C!Intact(p, z) => C!Intact(p, z)'
    BY <2>1 DEF C!Intact
  <2> QED BY <1>1, <1>2, <2>1, <2>2, <2>3, <2>4, RemovalStep
<1>3. CASE /\ dirs[s].body \in {"partial", "empty"} /\ C!Goes(c, "rmdir")
           /\ dirs' = [dirs EXCEPT ![s].body = "empty"] /\ UNCHANGED stale
  <2>1. dirs' \in [Slugs -> Dirs] /\ \A z \in Slugs : z # s => dirs'[z] = dirs[z]
    BY <1>1, <1>3
  <2>2. \A p \in C!Ids : ~ C!Intact(p, s)
    BY <1>3 DEF C!Intact
  <2>3. \A z \in Slugs, p \in C!Ids : z # s /\ C!Intact(p, z) => C!Intact(p, z)'
    BY <2>1 DEF C!Intact
  <2> QED BY <1>1, <1>3, <2>1, <2>2, <2>3, RemovalStep
<1>4. CASE dirs[s].body = "none" /\ C!Goes(c, "gone") /\ UNCHANGED <<dirs, stale>>
  <2>1. \A p : \A z : C!Intact(p, z)' <=> C!Intact(p, z)
    BY <1>4 DEF C!Intact
  <2> QED BY <1>1, <1>4, <2>1, RemovalStep
<1> QED BY <1>2, <1>3, <1>4 DEF C!Sweep

LEMMA RmdirStep ==
  ASSUME C!CatalogAssumption, CatalogInv, NEW c \in C!Calls, C!Rmdir(c) \/ C!SweepFails(c)
  PROVE  CatalogInv'
<1> DEFINE s == call[c].slug
           Dirs == [of : Owners, body : {"whole", "partial", "empty", "none"}]
<1>1. /\ call[c].at \in {"sweep", "rmdir"} /\ UNCHANGED <<projects, stale>> /\ call[c].slug \in Slugs
      /\ dirs \in [Slugs -> Dirs]
  BY DEF C!Rmdir, C!SweepFails, C!At, C!storeVars, C!history, CatalogInv, CatalogTypes, CallInv, Removal
<1>2. CASE dirs[s].body \in {"empty", "none"} /\ dirs' = [dirs EXCEPT ![s] = C!Empty] /\ C!Goes(c, "gone")
  <2>1. C!Empty \in Dirs
    BY DEF C!Empty, Owners
  <2>2. dirs' \in [Slugs -> Dirs] /\ \A z \in Slugs : z # s => dirs'[z] = dirs[z]
    BY <1>1, <1>2, <2>1
  <2>3. \A p \in C!Ids : ~ C!Intact(p, s)
    BY <1>2 DEF C!Intact
  <2>4. \A z \in Slugs, p \in C!Ids : z # s /\ C!Intact(p, z) => C!Intact(p, z)'
    BY <2>2 DEF C!Intact
  <2> QED BY <1>1, <1>2, <2>2, <2>3, <2>4, RemovalStep
<1>3. CASE UNCHANGED dirs /\ C!Goes(c, "kept")
  <2>1. \A p : \A z : C!Intact(p, z)' <=> C!Intact(p, z)
    BY <1>3 DEF C!Intact
  <2> QED BY <1>1, <1>3, <2>1, RemovalStep
<1> QED BY <1>2, <1>3 DEF C!Rmdir, C!SweepFails


(* A checkout gets a record only while it has none. *)
LEMMA OpenedOnce ==
  ASSUME C!CatalogAssumption, CatalogInv, NEW o \in C!Ids, projects' = projects \/ projects' = C!Opened(o)
  PROVE  /\ projects' \in [C!Ids -> Where] /\ C!OneProjectEach'
         /\ \A p \in C!Ids : projects'[p] \in Slugs => projects'[p] = projects[p]
<1>1. CASE projects' = projects
  BY <1>1 DEF CatalogInv, CatalogTypes, C!OneProjectEach
<1>2. CASE ~ C!IsOpen /\ projects' = [projects EXCEPT ![o] = Source]
  <2>1. /\ projects' \in [C!Ids -> Where] /\ projects'[o] = Source
        /\ \A p \in C!Ids : p # o => projects'[p] = projects[p]
    BY <1>2 DEF CatalogInv, CatalogTypes, Where
  <2>2. \A p \in C!Ids : projects[p] # Source
    BY <1>2 DEF C!IsOpen
  <2>3. C!OneProjectEach'
    BY <2>1, <2>2 DEF C!OneProjectEach
  <2> QED BY <2>1, <2>3 DEF C!CatalogAssumption
<1> QED BY <1>1, <1>2 DEF C!Opened

LEMMA OpenStep ==
  ASSUME C!CatalogAssumption, CatalogInv, NEW o \in Opens, C!Look(o) \/ C!Open(o)
  PROVE  CatalogInv'
<1>1. o \in C!Calls /\ o \in C!Ids /\ o \notin Creates
  BY DEF C!Calls, C!Ids, C!CatalogAssumption
<1>2. CASE C!Look(o)
  <2>1. UNCHANGED <<projects, dirs, stale>> /\ call[o].at = "idle"
    BY <1>2 DEF C!Look, C!At, C!storeVars, C!history
  <2>2. PICK station \in {"done", "looked", "failed"} : C!Goes(o, station)
    BY <1>2 DEF C!Look
  <2> QED BY <1>1, <2>1, <2>2, GoingCall DEF Stations, Begun, Removal, Ended
<1>3. CASE C!Open(o)
  <2>1. UNCHANGED <<dirs, stale>> /\ (projects' = projects \/ projects' = C!Opened(o))
    BY <1>3 DEF C!Open, C!history
  <2>2. PICK station \in {"done", "failed"} : C!Goes(o, station)
    BY <1>3 DEF C!Open, C!GoesOrFails
  <2>3. PICK t \in States : call' = [call EXCEPT ![o] = t] /\ t.at = station
    BY <1>1, <2>2, Goer DEF Stations
  <2>4. /\ projects' \in [C!Ids -> Where] /\ C!OneProjectEach'
        /\ \A p \in C!Ids : projects'[p] \in Slugs => projects'[p] = projects[p]
    BY <1>1, <2>1, OpenedOnce
  <2>5. CatalogTypes'
    BY <2>1, <2>3, <2>4 DEF CatalogInv, CatalogTypes
  <2>6. \A p \in C!Ids, z \in Slugs : Holds(p, z) => Safe(p, z)'
    BY <2>1 DEF CatalogInv, HeldInv, Safe, C!Intact
  <2> QED BY <1>1, <2>3, <2>4, <2>5, <2>6, CallStep DEF Removal
<1> QED BY <1>2, <1>3

LEMMA ChatStep ==
  ASSUME C!CatalogAssumption, CatalogInv, NEW k \in Chats,
         C!AddChat(k) \/ \E p \in C!Ids : C!Admit(k, p)
  PROVE  CatalogInv'
<1>1. k \in C!Calls /\ k \notin Creates /\ UNCHANGED <<projects, dirs, stale>>
  BY DEF C!Calls, C!CatalogAssumption, C!AddChat, C!Admit, C!storeVars, C!history
<1>2. CASE C!AddChat(k)
  <2>1. PICK station \in {"done", "failed"} : C!Goes(k, station)
    BY <1>2 DEF C!AddChat, C!GoesOrFails
  <2>2. call[k].at = "admitted"
    BY <1>2 DEF C!AddChat, C!At
  <2> QED BY <1>1, <2>1, <2>2, GoingCall DEF Stations, Begun, Removal, Ended
<1>3. ASSUME NEW p \in C!Ids, C!Admit(k, p)
      PROVE  CatalogInv'
  <2> DEFINE t == [C!Idle EXCEPT !.at = "admitted", !.of = p]
  <2>1. p \in Owners /\ "admitted" \in Stations /\ {} \in SUBSET Chats
    BY DEF Owners, Stations
  <2>2. t \in States /\ t.at = "admitted"
    <3>1. NoProject \in Owners /\ Nowhere \in Where
      BY DEF Owners, Where
    <3> QED BY <2>1, <3>1 DEF C!Idle, States
  <2>3. call' = [call EXCEPT ![k] = t]
    BY <1>3 DEF C!Admit
  <2> HIDE DEF t
  <2> QED BY <1>1, <2>2, <2>3, QuietCall DEF Removal
<1> QED BY <1>2, <1>3

(* Of a project that is to be deleted, the call that made it is over. *)
LEMMA DeleteStep ==
  ASSUME C!CatalogAssumption, CatalogInv, NEW d \in Deletes,
         C!Find(d) \/ (\E p \in C!Ids : C!Ask(d, p)) \/ (\E k \in Chats : C!DeleteChat(d, k))
  PROVE  CatalogInv'
<1>1. /\ d \in C!Calls /\ d \notin Creates /\ UNCHANGED <<projects, dirs, stale>>
      /\ call[d] \in States
  BY DEF C!Calls, C!CatalogAssumption, C!Find, C!Ask, C!DeleteChat, C!storeVars, C!history,
     CatalogInv, CatalogTypes
<1>2. ASSUME NEW p \in C!Ids, C!Ask(d, p)
      PROVE  CatalogInv'
  <2> DEFINE its == {k \in Chats : chats[k].there /\ chats[k].project = p}
             station == IF \E k \in its : chats[k].busy THEN "failed" ELSE "chats"
             t == [C!Idle EXCEPT !.of = p, !.todo = its, !.at = station]
  <2>1. p \in Owners /\ station \in Stations /\ station \in {"failed", "chats"} /\ its \in SUBSET Chats
    BY DEF Owners, Stations
  <2>2. call' = [call EXCEPT ![d] = t]
    BY <1>2 DEF C!Ask
  <2> HIDE DEF its, station
  <2>3. t \in States /\ t.at = station /\ t.of = p
    <3>1. NoProject \in Owners /\ Nowhere \in Where
      BY DEF Owners, Where
    <3> QED BY <2>1, <3>1 DEF C!Idle, States
  <2> HIDE DEF t
  <2> QED BY <1>1, <2>1, <2>2, <2>3, QuietCall DEF Removal
<1>3. ASSUME NEW k \in Chats, C!DeleteChat(d, k)
      PROVE  CatalogInv'
  <2>1. call[d].at = "chats"
    BY <1>3 DEF C!DeleteChat, C!At
  <2>2. CASE C!Goes(d, "failed")
    BY <1>1, <2>1, <2>2, GoingCall DEF Stations, Begun, Removal, Ended
  <2>3. CASE call' = [call EXCEPT ![d].todo = @ \ {k}]
    <3> DEFINE rest == call[d].todo \ {k}
               t == [call[d] EXCEPT !.todo = rest]
    <3>1. rest \in SUBSET Chats
      BY <1>1 DEF States
    <3>2. call' = [call EXCEPT ![d] = t]
      BY <2>3
    <3> HIDE DEF rest
    <3>3. t \in States /\ t.at = "chats" /\ t.of = call[d].of
      BY <1>1, <2>1, <3>1, TodoReplaced
    <3>4. call[d].of \in C!Ids
      BY <1>1, <2>1 DEF CatalogInv, CallInv
    <3> HIDE DEF t
    <3> QED BY <1>1, <3>2, <3>3, <3>4, QuietCall DEF Removal
  <2> QED BY <1>3, <2>2, <2>3 DEF C!DeleteChat
<1>4. CASE C!Find(d)
  <2> DEFINE s == projects[call[d].of]
             station == IF s = Nowhere THEN "failed" ELSE "found"
             t == [call[d] EXCEPT !.at = station, !.slug = s]
  <2>1. call[d].at = "chats" /\ call' = [call EXCEPT ![d] = t] /\ station \in {"failed", "found"}
    BY <1>4 DEF C!Find, C!At
  <2>2. call[d].of \in C!Ids /\ s \in Where /\ station \in Stations
    <3>1. call[d].of \in C!Ids
      BY <1>1, <2>1 DEF CatalogInv, CallInv
    <3>2. s \in Where
      BY <3>1 DEF CatalogInv, CatalogTypes
    <3> QED BY <2>1, <3>1, <3>2 DEF Stations
  <2>3. s \in Slugs => call[d].of \in Creates /\ call[call[d].of].at \in Ended
    BY <2>2 DEF CatalogInv, HeldInv
  <2> HIDE DEF station, s
  <2>4. t \in States /\ t.at = station /\ t.slug = s /\ t.of = call[d].of
    BY <1>1, <2>2 DEF States
  <2> HIDE DEF t
  <2> QED BY <1>1, <2>1, <2>2, <2>3, <2>4, QuietCall DEF Removal
<1> QED BY <1>2, <1>3, <1>4

(* A record is dropped before its repository is removed. *)
LEMMA ForgetStep ==
  ASSUME C!CatalogAssumption, CatalogInv, NEW d \in Deletes, C!Forget(d)
  PROVE  CatalogInv'
<1>1. /\ d \in C!Calls /\ d \notin Creates /\ UNCHANGED <<dirs, stale>> /\ call[d] \in States
      /\ call[d].at = "found" /\ call[d].of \in C!Ids /\ CallInv(d)
  BY DEF C!Calls, C!CatalogAssumption, C!Forget, C!At, C!history, CatalogInv, CatalogTypes, CallInv
<1>2. PICK station \in {"inspect", "done", "failed"} :
         C!Goes(d, station) /\ (station = "inspect" => call[d].slug \in Slugs)
  BY DEF C!Forget, C!GoesOrFails
<1>3. PICK t \in States : /\ call' = [call EXCEPT ![d] = t] /\ t.at = station /\ t.of = call[d].of
                          /\ t.slug = call[d].slug
  BY <1>1, <1>2, Goer DEF Stations
<1>4. call'[d].at = station
  BY <1>1, <1>3 DEF CatalogInv, CatalogTypes
<1>5. \/ projects' = projects /\ station = "failed"
      \/ projects' = [projects EXCEPT ![call[d].of] = Nowhere]
  BY <1>4 DEF C!Forget
<1>6. /\ projects' \in [C!Ids -> Where]
      /\ \A p \in C!Ids : projects'[p] = projects[p] \/ projects'[p] = Nowhere
      /\ station # "failed" => projects'[call[d].of] = Nowhere
  BY <1>1, <1>5 DEF CatalogInv, CatalogTypes, Where
<1>7. Nowhere \notin Slugs /\ Nowhere # Source
  BY DEF C!CatalogAssumption
<1>8. C!OneProjectEach'
  BY <1>6, <1>7 DEF CatalogInv, C!OneProjectEach
<1>9. CatalogTypes'
  BY <1>1, <1>3, <1>6 DEF CatalogInv, CatalogTypes
<1>10. \A p \in C!Ids, z \in Slugs : Holds(p, z) => Safe(p, z)'
  BY <1>1 DEF CatalogInv, HeldInv, Safe, C!Intact
<1>11. \A p \in C!Ids : projects'[p] \in Slugs => projects'[p] = projects[p]
  BY <1>6, <1>7
<1>12. t.at \in Removal =>
         /\ t.of \in Creates /\ t.slug \in Slugs /\ projects'[t.of] \notin Slugs
         /\ call[t.of].at \notin Begun \cup {"idle"}
  BY <1>1, <1>2, <1>3, <1>6, <1>7 DEF CallInv, Removal, Begun, Ended
<1>13. t.at \notin {"found", "sweep", "chats"}
  BY <1>3
<1> QED BY <1>1, <1>3, <1>8, <1>9, <1>10, <1>11, <1>12, <1>13, CallStep

(* A start moves chats, a crash ends all calls, and the rest is not about     *)
(* repositories.                                                               *)
LEMMA QuietStep ==
  ASSUME CatalogInv, UNCHANGED <<projects, dirs, call, stale>>
  PROVE  CatalogInv'
<1>1. \A p : \A z : (Safe(p, z)' <=> Safe(p, z)) /\ (Holds(p, z)' <=> Holds(p, z))
  BY DEF Safe, C!Intact, Holds
<1>2. \A c \in C!Calls : CallInv(c)' <=> CallInv(c)
  BY DEF CallInv
<1> QED BY <1>1, <1>2 DEF CatalogInv, CatalogTypes, HeldInv, C!OneProjectEach

LEMMA MoveStep ==
  ASSUME C!CatalogAssumption, CatalogInv, NEW k \in Chats, C!MoveChat(k)
  PROVE  CatalogInv'
<1>1. /\ k \in C!Calls /\ k \in C!Ids /\ k \notin Creates /\ UNCHANGED <<dirs, call, stale>>
      /\ projects' = projects \/ projects' = C!Opened(k)
  BY DEF C!Calls, C!Ids, C!CatalogAssumption, C!MoveChat, C!storeVars, C!history
<1>2. /\ projects' \in [C!Ids -> Where] /\ C!OneProjectEach'
      /\ \A p \in C!Ids : projects'[p] \in Slugs => projects'[p] = projects[p]
  BY <1>1, OpenedOnce
<1>3. CatalogTypes'
  BY <1>1, <1>2 DEF CatalogInv, CatalogTypes
<1>4. \A p \in C!Ids, z \in Slugs : Holds(p, z) => Safe(p, z)'
  BY <1>1 DEF CatalogInv, HeldInv, Safe, C!Intact
<1>5. call[k] \in States /\ CallInv(k) /\ call' = [call EXCEPT ![k] = call[k]]
  BY <1>1 DEF CatalogInv, CatalogTypes
<1>6. call[k].at \in Removal => projects'[call[k].of] \notin Slugs
  <2>1. Creates \subseteq C!Ids
    BY DEF C!Ids
  <2> QED BY <1>2, <1>5, <2>1 DEF CallInv
<1>7. PICK t \in States : t = call[k] /\ call' = [call EXCEPT ![k] = t]
  BY <1>5
<1>8. /\ t.at = "found" /\ t.slug \in Slugs => t.of \in Creates /\ call[t.of].at \in Ended
      /\ t.at \in Removal =>
           /\ t.of \in Creates /\ t.slug \in Slugs /\ projects'[t.of] \notin Slugs
           /\ call[t.of].at \notin Begun \cup {"idle"}
      /\ t.at = "sweep" => t.seen = t.of
      /\ t.at \in {"chats", "found"} => t.of \in C!Ids
  BY <1>5, <1>6, <1>7 DEF CallInv
<1>9. \A p \in C!Ids : projects'[p] \in Slugs =>
        \/ projects'[p] = projects[p]
        \/ /\ p = k /\ k \in Creates /\ call[k].at \in Begun /\ t.at \in Ended
           /\ Holds(k, projects'[k])
  BY <1>2
<1>10. k \in C!Calls /\ k \notin Creates /\ C!OneProjectEach'
  BY <1>1, <1>2
<1> QED BY <1>3, <1>4, <1>7, <1>8, <1>9, <1>10, CallStep

LEMMA CrashStep ==
  ASSUME C!CatalogAssumption, CatalogInv, C!Crash
  PROVE  CatalogInv'
<1> DEFINE lost == [C!Idle EXCEPT !.at = "lost"]
<1>1. lost \in States /\ lost.at = "lost"
  <2>1. NoProject \in Owners /\ Nowhere \in Where /\ {} \in SUBSET Chats /\ "lost" \in Stations
    BY DEF Owners, Where, Stations
  <2> QED BY <2>1 DEF C!Idle, States
<1>2. /\ call' = [c \in C!Calls |-> IF call[c].at = "idle" THEN C!Idle ELSE lost]
      /\ UNCHANGED <<projects, dirs, stale>>
  BY DEF C!Crash, C!history
<1> HIDE DEF lost
<1>3. /\ call' \in [C!Calls -> States]
      /\ \A c \in C!Calls : \/ call[c].at = "idle" /\ call'[c].at = "idle"
                            \/ call[c].at # "idle" /\ call'[c].at = "lost"
  BY <1>1, <1>2, IdleState
<1>4. CatalogTypes' /\ C!OneProjectEach'
  BY <1>2, <1>3 DEF CatalogInv, CatalogTypes, C!OneProjectEach
<1>5. Creates \subseteq C!Calls
  BY DEF C!Calls
<1>6. HeldInv'
  <2>1. \A p : \A z : Safe(p, z)' <=> Safe(p, z)
    BY <1>2 DEF Safe, C!Intact
  <2>2. ASSUME NEW p \in C!Ids, NEW z \in Slugs, Holds(p, z)'
        PROVE  Holds(p, z)
    BY <1>2, <1>3, <1>5, <2>2 DEF Holds, Begun
  <2>3. ASSUME NEW p \in C!Ids, projects'[p] \in Slugs
        PROVE  p \in Creates /\ call'[p].at \in Ended
    <3>1. p \in Creates /\ call[p].at \in Ended
      BY <1>2, <2>3 DEF CatalogInv, HeldInv
    <3> QED BY <1>3, <1>5, <3>1 DEF Ended
  <2> QED BY <2>1, <2>2, <2>3 DEF CatalogInv, HeldInv
<1>7. \A c \in C!Calls : CallInv(c)'
  BY <1>3 DEF CallInv, Begun, Removal
<1> QED BY <1>4, <1>6, <1>7 DEF CatalogInv

LEMMA NextCatalog ==
  ASSUME C!CatalogAssumption, CatalogInv, [C!Next]_(C!vars)
  PROVE  CatalogInv'
<1>1. CASE UNCHANGED C!vars
  BY <1>1, QuietStep DEF C!vars, C!storeVars, C!history
<1>2. ASSUME NEW c \in Creates,
             C!Stage(c) \/ C!Publish(c) \/ C!Identify(c) \/ C!Branch(c) \/ C!Record(c) \/ C!Removes(c)
      PROVE  CatalogInv'
  BY <1>2, Worker, StageStep, PublishStep, IdentifyStep, RecordStep, InspectStep, SweepStep, RmdirStep
     DEF C!Removes
<1>3. ASSUME NEW d \in Deletes,
             \/ \E p \in C!Ids : C!Ask(d, p)
             \/ \E k \in Chats : C!DeleteChat(d, k)
             \/ C!Find(d) \/ C!Forget(d) \/ C!Removes(d)
      PROVE  CatalogInv'
  <2>1. d \in C!Calls
    BY DEF C!Calls
  <2> QED BY <1>3, <2>1, DeleteStep, ForgetStep, InspectStep, SweepStep, RmdirStep DEF C!Removes
<1>4. ASSUME NEW k \in Chats,
             \/ \E p \in C!Ids : C!Admit(k, p)
             \/ C!AddChat(k) \/ C!Message(k) \/ C!RunEnds(k) \/ C!MoveChat(k)
      PROVE  CatalogInv'
  <2>1. CASE C!Message(k) \/ C!RunEnds(k)
    BY <2>1, QuietStep DEF C!Message, C!RunEnds, C!history
  <2> QED BY <1>4, <2>1, ChatStep, MoveStep
<1>5. CASE C!Work \/ C!Serve
  BY <1>5, QuietStep DEF C!Work, C!Serve, C!storeVars, C!history
<1> QED BY <1>1, <1>2, <1>3, <1>4, <1>5, OpenStep, CrashStep DEF C!Next

(* A managed project has the repository that was made for it, and a checkout   *)
(* one project, whatever is made, opened, deleted (ProjectRegistry) and moved  *)
(* at a start (ProjectMigration) at once: removeOwnedManaged never gets hold   *)
(* of a directory that a record points at, or will, unless its project was     *)
(* named stale.                                                                *)
THEOREM CatalogStaysSound ==
  ASSUME C!CatalogAssumption
  PROVE  C!Spec => []C!CatalogIsSound
<1>1. C!Init => CatalogInv
  BY InitCatalog
<1>2. CatalogInv /\ [C!Next]_(C!vars) => CatalogInv'
  BY NextCatalog
<1>3. ASSUME CatalogInv
      PROVE  C!CatalogIsSound
  <2>1. C!RepositoriesStay
    BY <1>3 DEF CatalogInv, HeldInv, Holds, Safe, C!RepositoriesStay
  <2>2. C!OneProjectEach
    BY <1>3 DEF CatalogInv
  <2> QED BY <2>1, <2>2 DEF C!CatalogIsSound
<1> QED BY <1>1, <1>2, <1>3, PTL DEF C!Spec

(***************************************************************************)
(* The verification of what is to be integrated (VerificationGate).        *)
(***************************************************************************)

(* While gates run, the batch of the stage is on its list or has a result, and *)
(* as long as nothing failed, what is critical and has a result exited with 0. *)
GatesInv ==
    /\ G!ValidContract(input) /\ G!ValidPatch(input)
    /\ G!Batch(input) \cap input.enabled \subseteq todo \cup recorded
    /\ passed => recorded \cap input.critical \subseteq exits

GateInv ==
    /\ input \in Cases /\ G!ValidCatalog(input)
    /\ at = "integrity" => recorded = {} /\ exits = {}
    /\ at = "gates" => GatesInv
    /\ G!PassedIsEarned

(* A tier that a stage stands for has a binding gate in the stage's batch: one  *)
(* of the contract's, or a hidden one that the catalog must have.              *)
LEMMA TierInBatch ==
  ASSUME G!GateAssumption, NEW c \in Cases, G!ValidCatalog(c), G!ValidContract(c), NEW tier \in G!ProvedTiers(c.stage)
  PROVE  \E g \in G!Batch(c) \cap G!Binding(c) : TierOf[g] = tier
<1>1. c.stage \in G!Stages /\ c.enabled \subseteq Gates
  BY DEF G!GateAssumption
<1>2. tier \in G!Tiers /\ G!PublicTiers \subseteq G!Tiers
  BY <1>1 DEF G!Tiers, G!PublicTiers, G!Stages, G!ProvedTiers
<1>3. CASE tier \in G!NeededTiers(c.stage)
  <2>1. tier \in G!PublicTiers
    BY <1>1, <1>3 DEF G!NeededTiers, G!PublicTiers, G!Stages
  <2>2. PICK g \in c.contract[tier] : TRUE
    BY <1>3, <2>1 DEF G!ValidContract
  <2>3. TierOf[g] = tier /\ g \in G!Binding(c) /\ g \in G!Listed(c) /\ g \in Gates
    BY <1>1, <2>1, <2>2 DEF G!ValidContract, G!Binding, G!Listed
  <2>4. g \in G!Batch(c)
    BY <1>1, <1>3, <2>1, <2>3 DEF G!Batch, G!ProvedTiers, G!Stages, G!PublicTiers, G!Tiers,
       G!NeededTiers
  <2> QED BY <2>3, <2>4
<1>4. CASE tier \notin G!NeededTiers(c.stage)
  <2>1. PICK g \in G!Binding(c) : TierOf[g] = tier
    BY <1>2 DEF G!ValidCatalog
  <2>2. g \in Gates
    BY <1>1, <2>1 DEF G!Binding
  <2>3. g \in G!Batch(c)
    BY <1>1, <1>4, <2>1, <2>2 DEF G!Batch, G!ProvedTiers, G!Stages, G!PublicTiers, G!Tiers,
       G!NeededTiers
  <2> QED BY <2>1, <2>3
<1> QED BY <1>3, <1>4

(* What a valid contract lists of those tiers is binding and in the batch. *)
LEMMA ListedInBatch ==
  ASSUME G!GateAssumption, NEW c \in Cases, G!ValidContract(c), NEW g \in G!Listed(c),
         TierOf[g] \in G!ProvedTiers(c.stage)
  PROVE  g \in G!Batch(c) \cap G!Binding(c)
<1>1. c.stage \in G!Stages /\ c.enabled \subseteq Gates
  BY DEF G!GateAssumption
<1>2. PICK tier \in G!PublicTiers : g \in c.contract[tier]
  BY DEF G!Listed
<1>3. TierOf[g] = tier /\ g \in G!Binding(c) /\ g \in Gates
  BY <1>1, <1>2 DEF G!ValidContract, G!Binding
<1>4. g \in G!Batch(c)
  BY <1>1, <1>2, <1>3 DEF G!Batch, G!ProvedTiers, G!Stages, G!PublicTiers, G!Tiers
<1> QED BY <1>3, <1>4

LEMMA InitGate == G!Init => GateInv
  BY DEF G!Init, GateInv, G!PassedIsEarned

LEMMA IntegrityStep ==
  ASSUME GateInv, G!Integrity
  PROVE  GateInv'
<1>1. CASE G!Sound /\ at' = "gates" /\ todo' = {g \in G!Batch(input) : g \in input.enabled}
  <2>1. recorded' = {} /\ input' = input
    BY DEF G!Integrity, GateInv
  <2>2. GatesInv'
    BY <1>1, <2>1 DEF GatesInv, G!Sound
  <2> QED BY <1>1, <2>1, <2>2 DEF GateInv, G!PassedIsEarned
<1>2. CASE at' = "done" /\ passed' = FALSE
  BY <1>2 DEF G!Integrity, GateInv, G!PassedIsEarned
<1> QED BY <1>1, <1>2 DEF G!Integrity

LEMMA RunGateStep ==
  ASSUME GateInv, NEW g \in Gates, G!RunGate(g)
  PROVE  GateInv'
<1>1. /\ at = "gates" /\ at' = "gates" /\ input' = input /\ GatesInv
      /\ todo' = todo \ {g} /\ recorded' = recorded \cup {g}
  BY DEF G!RunGate, GateInv
<1>2. /\ exits \subseteq exits'
      /\ passed' => passed /\ (g \in input.critical => g \in exits')
  BY DEF G!RunGate, G!Judge
<1>3. GatesInv'
  BY <1>1, <1>2 DEF GatesInv
<1> QED BY <1>1, <1>3 DEF GateInv, G!PassedIsEarned

LEMMA ConcludeStep ==
  ASSUME G!GateAssumption, GateInv, G!Conclude
  PROVE  GateInv'
<1>1. /\ at = "gates" /\ todo = {} /\ at' = "done" /\ input' = input /\ assets' = assets /\ exits' = exits
      /\ GatesInv /\ input \in Cases /\ G!ValidCatalog(input)
      /\ passed' => passed /\ assets = "loaded"
  BY DEF G!Conclude, GateInv
<1>2. ASSUME passed'
      PROVE  G!Batch(input) \cap G!Binding(input) \subseteq exits
  BY <1>1, <1>2 DEF GatesInv, G!Binding
<1>3. ASSUME passed'
      PROVE  /\ \A tier \in G!ProvedTiers(input.stage) :
                  \E g \in exits : TierOf[g] = tier /\ g \in G!Binding(input)
             /\ \A g \in G!Listed(input) : TierOf[g] \in G!ProvedTiers(input.stage) => g \in exits
  <2>1. ASSUME NEW tier \in G!ProvedTiers(input.stage)
        PROVE  \E g \in exits : TierOf[g] = tier /\ g \in G!Binding(input)
    BY <1>1, <1>2, <1>3, TierInBatch DEF GatesInv
  <2>2. ASSUME NEW g \in G!Listed(input), TierOf[g] \in G!ProvedTiers(input.stage)
        PROVE  g \in exits
    BY <1>1, <1>2, <1>3, <2>2, ListedInBatch DEF GatesInv
  <2> QED BY <2>1, <2>2
<1>4. G!PassedIsEarned'
  BY <1>1, <1>3 DEF G!PassedIsEarned, GatesInv
<1> QED BY <1>1, <1>4 DEF GateInv

LEMMA NextGate ==
  ASSUME G!GateAssumption, GateInv, [G!Next]_(G!vars)
  PROVE  GateInv'
<1>1. CASE G!Touch
  BY <1>1 DEF G!Touch, GateInv, GatesInv, G!PassedIsEarned
<1>2. CASE G!Terminate
  BY <1>2 DEF G!Terminate, GateInv, G!PassedIsEarned
<1>3. CASE UNCHANGED G!vars
  BY <1>3 DEF G!vars, GateInv, GatesInv, G!PassedIsEarned
<1> QED BY <1>1, <1>2, <1>3, IntegrityStep, RunGateStep, ConcludeStep DEF G!Next

(* A verification that passes has earned it (verifier.ts), for any profile that *)
(* was loaded, contract, patch and stage, whatever exits, fails to be written   *)
(* or is changed under it: a critical gate of every tier of the stage ran and   *)
(* exited with 0, and so did all that the contract lists of those tiers.        *)
THEOREM PassesAreEarned ==
  ASSUME G!GateAssumption
  PROVE  G!Spec => []G!PassedIsEarned
<1>1. G!Init => GateInv
  BY InitGate
<1>2. GateInv /\ [G!Next]_(G!vars) => GateInv'
  BY NextGate
<1>3. GateInv => G!PassedIsEarned
  BY DEF GateInv
<1> QED BY <1>1, <1>2, <1>3, PTL DEF G!Spec

(***************************************************************************)
(* The store (JsonStore).                                                  *)
(***************************************************************************)

(* Mutations wait in a queue without repetitions; only its head is past        *)
(* "queued".                                                                   *)
QueueInv ==
    /\ phase # "serving" => queue = <<>>
    /\ \A i \in 1..Len(queue) :
         /\ task[queue[i]].at \notin {"idle", "done"}
         /\ i > 1 => task[queue[i]].at = "queued"
         /\ \A j \in 1..Len(queue) : i # j => queue[i] # queue[j]

Past(c, places) == queue # <<>> /\ Head(queue) = c /\ task[c].at \in places

(* Where the file, its copy in memory, and the copy and temporary file of the  *)
(* mutation at work stand to each other.                                       *)
FileInv ==
    /\ phase \in {"create", "created"} => J!File = Nowhere
    /\ phase = "created" => temp = J!EmptyDatabase
    /\ phase # "serving" => data = J!EmptyDatabase
    /\ phase = "serving" =>
         /\ J!File # Nowhere /\ J!Names(data) = J!Names(J!File)
         /\ data.log = J!File.log \/ \E c \in Callers : Past(c, {"renamed"})
    /\ \A c \in Callers :
         /\ Past(c, {"cloned"}) => task[c].next.log = data.log
         /\ Past(c, {"applied", "written", "renamed"}) => task[c].next.log = Append(data.log, c)
         /\ Past(c, {"cloned", "applied", "written", "renamed"}) => J!Names(task[c].next) = J!Names(data)
         /\ Past(c, {"written"}) => temp = task[c].next
         /\ Past(c, {"renamed"}) => J!File = task[c].next

IInv == J!TypeOK /\ QueueInv /\ FileInv

(***************************************************************************)
(* Types.                                                                  *)
(***************************************************************************)

(* A server starts with nothing of its own. *)
LEMMA InitInv ==
  ASSUME J!SiteAssumption, J!Init
  PROVE  IInv
<1>1. J!EmptyDatabase \in J!Databases
  BY DEF J!EmptyDatabase, J!Databases, J!Records
<1>2. J!Idle \in J!Tasks
  BY <1>1 DEF J!Idle, J!Tasks
<1>3. J!TypeOK
  <2>1. Len(Parts) \in Nat /\ 0 \in 0..Len(Parts)
    BY DEF J!SiteAssumption
  <2>2. DOMAIN disk = J!ToSet(Parts) /\ disk["database"] \in J!Places
    BY DEF J!Init, J!SiteAssumption
  <2>3. task \in [Callers -> J!Tasks]
    BY <1>2 DEF J!Init
  <2> QED BY <1>1, <2>1, <2>2, <2>3 DEF J!Init, J!TypeOK
<1>4. QueueInv /\ FileInv
  BY DEF J!Init, QueueInv, FileInv, Past
<1> QED BY <1>3, <1>4 DEF IInv

(* What the steps make databases from are databases. *)
LEMMA FirstDatabases == J!EmptyDatabase \in J!Databases /\ J!Torn \in J!Databases
BY DEF J!EmptyDatabase, J!Torn, J!Databases, J!Records

(* A database with its log, or its records, replaced. *)
LEMMA Replaced ==
  ASSUME NEW d \in J!Databases, NEW log \in Seq(Callers), NEW records \in SUBSET J!Records
  PROVE  /\ [d EXCEPT !.log = log] \in J!Databases
         /\ [d EXCEPT !.log = log].log = log /\ [d EXCEPT !.log = log].records = d.records
         /\ [d EXCEPT !.records = records] \in J!Databases
         /\ [d EXCEPT !.records = records].log = d.log
         /\ [d EXCEPT !.records = records].records = records
BY DEF J!Databases

LEMMA CurrentRecord ==
  ASSUME NEW r \in J!Records
  PROVE  J!Current(r) \in J!Records /\ J!Current(r).name = r.name
<1>1. J!Current(r) = [name |-> r.name, form |-> "current"]
  BY DEF J!Current, J!Records
<1>2. r.name \in STRING
  BY DEF J!Records
<1> QED BY <1>1, <1>2 DEF J!Records

LEMMA NormalizedDatabase ==
  ASSUME NEW d \in J!Databases
  PROVE  /\ J!Normalized(d) \in J!Databases /\ J!Normalized(d).log = d.log
         /\ J!Normalized(d).records = {J!Current(r) : r \in d.records}
<1>1. d.records \in SUBSET J!Records /\ d.log \in Seq(Callers)
  BY DEF J!Databases
<1>2. {J!Current(r) : r \in d.records} \in SUBSET J!Records
  BY <1>1, CurrentRecord
<1> QED BY <1>1, <1>2, Replaced DEF J!Normalized

LEMMA ChangedDatabase ==
  ASSUME NEW d \in J!Databases, NEW c \in Callers
  PROVE  /\ J!Changed(d, c) \in J!Databases
         /\ J!Changed(d, c).log = Append(d.log, c)
         /\ J!Changed(d, c).records = d.records
<1>1. d.log \in Seq(Callers) /\ d.records \in SUBSET J!Records
  BY DEF J!Databases
<1> DEFINE log == Append(d.log, c)
<1>2. log \in Seq(Callers)
  BY <1>1
<1>3. J!Changed(d, c) = [d EXCEPT !.log = log]
  BY DEF J!Changed
<1> HIDE DEF log
<1>4. J!Changed(d, c) \in J!Databases /\ J!Changed(d, c).log = log /\ J!Changed(d, c).records = d.records
  BY <1>2, <1>3 DEF J!Databases
<1> QED BY <1>4 DEF log

(* Normalising changes the forms of records, never which records there are. *)
LEMMA NormalizedNames ==
  ASSUME NEW d \in J!Databases, Nowhere \notin J!Databases
  PROVE  J!Names(J!Normalized(d)) = J!Names(d)
<1>1. d # Nowhere /\ J!Normalized(d) # Nowhere
  BY NormalizedDatabase
<1>2. d.records \in SUBSET J!Records /\ J!Normalized(d).records = {J!Current(r) : r \in d.records}
  BY NormalizedDatabase DEF J!Databases
<1>3. \A r \in d.records : J!Current(r).name = r.name
  BY <1>2, CurrentRecord
<1>4. {r.name : r \in {J!Current(r) : r \in d.records}} = {r.name : r \in d.records}
  BY <1>3
<1> QED BY <1>1, <1>2, <1>4 DEF J!Names

(* What the steps put in the places and in the tasks. *)
LEMMA PlaceReplaced ==
  ASSUME NEW p \in J!Places, NEW x \in J!Databases \cup {Nowhere}
  PROVE  /\ [p EXCEPT !.new = x] \in J!Places /\ [p EXCEPT !.new = x].new = x
         /\ [old |-> Nowhere, new |-> p.old] \in J!Places
         /\ p.old \in J!Databases \cup {Nowhere} /\ p.new \in J!Databases \cup {Nowhere}
BY DEF J!Places

Steps == {"idle", "queued", "cloned", "applied", "written", "renamed", "done", "failed", "lost"}

LEMMA TaskReplaced ==
  ASSUME NEW t \in J!Tasks, NEW step \in Steps, NEW d \in J!Databases
  PROVE  /\ [t EXCEPT !.at = step] \in J!Tasks
         /\ [t EXCEPT !.at = step].at = step /\ [t EXCEPT !.at = step].next = t.next
         /\ [at |-> step, next |-> d] \in J!Tasks
         /\ [J!Idle EXCEPT !.at = step] = [at |-> step, next |-> J!EmptyDatabase]
         /\ [J!Idle EXCEPT !.at = step] \in J!Tasks /\ [J!Idle EXCEPT !.at = step].at = step
         /\ t.next \in J!Databases /\ t.at \in Steps
BY FirstDatabases DEF J!Tasks, Steps, J!Idle

LEMMA MigrationKeepsTypes ==
  ASSUME J!SiteAssumption, J!TypeOK, J!MoveIfTargetMissing
  PROVE  J!TypeOK'
<1> DEFINE part == Parts[moved + 1]
<1>1. part \in J!ToSet(Parts) /\ moved + 1 \in 0..Len(Parts)
  BY DEF J!MoveIfTargetMissing, J!SiteAssumption, J!TypeOK, J!ToSet
<1>2. DOMAIN disk' = J!ToSet(Parts)
  BY DEF J!MoveIfTargetMissing, J!TypeOK
<1>3. disk'["database"] \in J!Places
  <2>1. "database" \in DOMAIN disk /\ disk["database"] \in J!Places
    BY DEF J!SiteAssumption, J!TypeOK
  <2>2. CASE disk' = disk
    BY <2>1, <2>2
  <2>3. CASE disk' = [disk EXCEPT ![part] = [old |-> Nowhere, new |-> disk[part].old]]
    <3>1. CASE part = "database"
      <4>1. disk'["database"] = [old |-> Nowhere, new |-> disk["database"].old]
        BY <2>1, <2>3, <3>1
      <4> QED BY <2>1, <4>1, PlaceReplaced
    <3>2. CASE part # "database"
      BY <2>1, <2>3, <3>2
    <3> QED BY <3>1, <3>2
  <2> QED BY <2>2, <2>3 DEF J!MoveIfTargetMissing
<1> QED BY <1>1, <1>2, <1>3 DEF J!MoveIfTargetMissing, J!TypeOK

(* The file after a rename, or after the first write. *)
LEMMA RenamedFile ==
  ASSUME J!SiteAssumption, J!TypeOK, disk' = [disk EXCEPT !["database"].new = temp]
  PROVE  DOMAIN disk' = J!ToSet(Parts) /\ disk'["database"] \in J!Places /\ J!File' = temp
<1>1. "database" \in DOMAIN disk /\ disk["database"] \in J!Places /\ temp \in J!Databases \cup {Nowhere}
  BY DEF J!SiteAssumption, J!TypeOK
<1>2. disk'["database"] = [disk["database"] EXCEPT !.new = temp]
  BY <1>1
<1>3. DOMAIN disk' = J!ToSet(Parts)
  BY DEF J!TypeOK
<1> QED BY <1>1, <1>2, <1>3, PlaceReplaced DEF J!File

LEMMA StartKeepsTypes ==
  ASSUME J!SiteAssumption, J!TypeOK, J!Initialize \/ J!Create
  PROVE  J!TypeOK'
<1>1. CASE J!Initialize
  <2>1. J!File \in J!Databases \cup {Nowhere}
    BY PlaceReplaced DEF J!TypeOK, J!File
  <2>2. data' \in J!Databases
    BY <1>1, <2>1, NormalizedDatabase DEF J!Initialize, J!TypeOK
  <2> QED BY <1>1, <2>2 DEF J!Initialize, J!TypeOK, J!diskVars
<1>2. CASE J!Create
  <2>1. temp' \in J!Databases \cup {Nowhere}
    BY <1>2, FirstDatabases DEF J!Create
  <2>2. DOMAIN disk' = J!ToSet(Parts) /\ disk'["database"] \in J!Places
    BY <1>2, RenamedFile DEF J!Create, J!TypeOK
  <2> QED BY <1>2, <2>1, <2>2 DEF J!Create, J!TypeOK
<1> QED BY <1>1, <1>2

LEMMA CrashKeepsTypes ==
  ASSUME J!SiteAssumption, J!TypeOK, J!Crash
  PROVE  J!TypeOK'
<1>1. temp' \in J!Databases \cup {Nowhere}
  BY FirstDatabases DEF J!Crash, J!TypeOK
<1>2. task' \in [Callers -> J!Tasks]
  <2>1. J!Idle \in J!Tasks /\ "lost" \in Steps
    BY FirstDatabases DEF J!Idle, J!Tasks, Steps
  <2> DEFINE lost == [J!Idle EXCEPT !.at = "lost"]
  <2>2. lost \in J!Tasks
    BY <2>1, FirstDatabases, TaskReplaced
  <2>3. task' = [c \in Callers |-> IF c \in J!ToSet(queue) THEN lost ELSE task[c]]
    BY DEF J!Crash
  <2> HIDE DEF lost
  <2> QED BY <2>2, <2>3 DEF J!TypeOK
<1>3. moved' \in 0..Len(Parts)
  BY DEF J!Crash, J!SiteAssumption
<1> QED BY <1>1, <1>2, <1>3, FirstDatabases DEF J!Crash, J!TypeOK

LEMMA CallKeepsTypes ==
  ASSUME J!SiteAssumption, J!TypeOK, NEW c \in Callers,
         J!Mutate(c) \/ J!Clone(c) \/ J!Apply(c) \/ J!Write(c) \/ J!Rename(c) \/ J!Show(c)
  PROVE  J!TypeOK'
<1>1. task[c] \in J!Tasks /\ task[c].next \in J!Databases
  BY TaskReplaced DEF J!TypeOK, J!Tasks
<1>2. ASSUME NEW step \in Steps, J!Ends(c, step), queue # <<>>
      PROVE  task' \in [Callers -> J!Tasks] /\ queue' \in Seq(Callers)
  <2>1. [J!Idle EXCEPT !.at = step] \in J!Tasks
    BY <1>1, <1>2, FirstDatabases, TaskReplaced
  <2> QED BY <1>2, <2>1 DEF J!Ends, J!TypeOK
<1>3. ASSUME NEW step \in Steps, task' = [task EXCEPT ![c].at = step]
      PROVE  task' \in [Callers -> J!Tasks]
  <2>1. [task[c] EXCEPT !.at = step] \in J!Tasks
    BY <1>1, <1>3, FirstDatabases, TaskReplaced
  <2> QED BY <1>3, <2>1 DEF J!TypeOK
<1>4. ASSUME NEW step \in Steps, NEW d \in J!Databases, task' = [task EXCEPT ![c] = [at |-> step, next |-> d]]
      PROVE  task' \in [Callers -> J!Tasks]
  <2>1. [at |-> step, next |-> d] \in J!Tasks
    BY <1>1, TaskReplaced
  <2> QED BY <1>4, <2>1 DEF J!TypeOK
<1>5. {"queued", "cloned", "applied", "written", "renamed", "done", "failed"} \subseteq Steps
  BY DEF Steps
<1>6. CASE J!Mutate(c)
  <2>1. task' \in [Callers -> J!Tasks]
    BY <1>3, <1>5, <1>6 DEF J!Mutate
  <2> QED BY <1>6, <2>1 DEF J!Mutate, J!TypeOK, J!diskVars, J!bootVars
<1>7. CASE J!Clone(c)
  <2>1. task' \in [Callers -> J!Tasks]
    BY <1>4, <1>5, <1>7 DEF J!Clone, J!TypeOK
  <2> QED BY <1>7, <2>1 DEF J!Clone, J!TypeOK, J!diskVars, J!bootVars
<1>8. CASE J!Apply(c)
  <2>1. CASE c \in site.throws
    <3>1. task' \in [Callers -> J!Tasks] /\ queue' \in Seq(Callers)
      BY <1>2, <1>5, <1>8, <2>1 DEF J!Apply, J!AtWork
    <3> QED BY <1>8, <3>1 DEF J!Apply, J!TypeOK, J!diskVars, J!bootVars
  <2>2. CASE c \notin site.throws
    <3>1. task' = [task EXCEPT ![c] = [at |-> "applied",
                                       next |-> J!Changed(task[c].next, c)]]
      BY <1>8, <2>2 DEF J!Apply
    <3>2. task' \in [Callers -> J!Tasks]
      BY <1>1, <1>4, <1>5, <3>1, ChangedDatabase
    <3> QED BY <1>8, <2>2, <3>2 DEF J!Apply, J!TypeOK, J!diskVars, J!bootVars
  <2> QED BY <2>1, <2>2
<1>9. CASE J!Write(c)
  <2>1. temp' \in J!Databases \cup {Nowhere}
    BY <1>1, <1>9, FirstDatabases DEF J!Write
  <2>2. task' \in [Callers -> J!Tasks] /\ queue' \in Seq(Callers)
    <3>1. CASE J!Ends(c, "failed")
      BY <1>2, <1>5, <1>9, <3>1 DEF J!Write, J!AtWork
    <3>2. CASE task' = [task EXCEPT ![c].at = "written"] /\ UNCHANGED queue
      BY <1>3, <1>5, <3>2 DEF J!TypeOK
    <3> QED BY <1>9, <3>1, <3>2 DEF J!Write
  <2> QED BY <1>9, <2>1, <2>2 DEF J!Write, J!TypeOK, J!bootVars
<1>10. CASE J!Rename(c)
  <2>1. task' \in [Callers -> J!Tasks] /\ queue' \in Seq(Callers)
    <3>1. CASE J!Ends(c, "failed")
      BY <1>2, <1>5, <1>10, <3>1 DEF J!Rename, J!AtWork
    <3>2. CASE task' = [task EXCEPT ![c].at = "renamed"] /\ UNCHANGED queue
      BY <1>3, <1>5, <3>2 DEF J!TypeOK
    <3> QED BY <1>10, <3>1, <3>2 DEF J!Rename
  <2>2. DOMAIN disk' = J!ToSet(Parts) /\ disk'["database"] \in J!Places
    BY <1>10, RenamedFile DEF J!Rename, J!diskVars, J!TypeOK
  <2>3. temp' \in J!Databases \cup {Nowhere}
    BY <1>10 DEF J!Rename, J!diskVars, J!TypeOK
  <2> QED BY <1>10, <2>1, <2>2, <2>3 DEF J!Rename, J!TypeOK, J!bootVars
<1>11. CASE J!Show(c)
  <2>1. task' \in [Callers -> J!Tasks] /\ queue' \in Seq(Callers)
    BY <1>2, <1>5, <1>11 DEF J!Show, J!AtWork
  <2> QED BY <1>1, <1>11, <2>1 DEF J!Show, J!TypeOK, J!diskVars, J!bootVars
<1> QED BY <1>6, <1>7, <1>8, <1>9, <1>10, <1>11

LEMMA NextKeepsTypes ==
  ASSUME J!SiteAssumption, J!TypeOK, [J!Next]_(J!vars)
  PROVE  J!TypeOK'
<1>1. CASE UNCHANGED J!vars
  BY <1>1 DEF J!TypeOK, J!vars, J!diskVars, J!bootVars
<1> QED BY <1>1, MigrationKeepsTypes, StartKeepsTypes, CrashKeepsTypes, CallKeepsTypes DEF J!Next

(***************************************************************************)
(* The queue.                                                              *)
(***************************************************************************)

(* The mutation at work is the first of the queue, and in it once. *)
LEMMA OnlyTheHeadWorks ==
  ASSUME J!TypeOK, QueueInv, NEW c \in Callers, queue # <<>>, Head(queue) = c
  PROVE  /\ queue[1] = c /\ 1 \in 1..Len(queue) /\ Len(queue) \in Nat
         /\ \A i \in 1..Len(queue) : queue[i] \in Callers
         /\ \A i \in 2..Len(queue) : queue[i] # c /\ task[queue[i]].at = "queued"
<1>1. queue \in Seq(Callers) /\ Len(queue) \in Nat /\ Len(queue) > 0
  BY DEF J!TypeOK
<1>2. queue[1] = c /\ 1 \in 1..Len(queue) /\ \A i \in 1..Len(queue) : queue[i] \in Callers
  BY <1>1
<1>3. ASSUME NEW i \in 2..Len(queue)
      PROVE  queue[i] # c /\ task[queue[i]].at = "queued"
  BY <1>1, <1>2 DEF QueueInv
<1> QED BY <1>1, <1>2, <1>3

(* It stays there while it is at work, ... *)
LEMMA WorkKeepsQueue ==
  ASSUME J!TypeOK, QueueInv, NEW c \in Callers, queue # <<>>, Head(queue) = c, phase = "serving",
         NEW t \in J!Tasks, t.at \notin {"idle", "done"},
         task' = [task EXCEPT ![c] = t], queue' = queue, phase' = phase
  PROVE  QueueInv'
<1>1. task'[c] = t /\ \A x \in Callers : x # c => task'[x] = task[x]
  BY DEF J!TypeOK
<1>2. \A i \in 2..Len(queue) : task'[queue[i]].at = "queued"
  BY <1>1, OnlyTheHeadWorks
<1> QED BY <1>1, <1>2, OnlyTheHeadWorks DEF QueueInv

(* ... and the next one is still to begin when it ends. *)
LEMMA EndKeepsQueue ==
  ASSUME J!TypeOK, QueueInv, NEW c \in Callers, queue # <<>>, Head(queue) = c, phase = "serving",
         NEW step, J!Ends(c, step), phase' = phase
  PROVE  /\ QueueInv'
         /\ \A x \in Callers : ~ Past(x, {"cloned", "applied", "written", "renamed"})'
<1>1. \A x \in Callers : x # c => task'[x] = task[x]
  BY DEF J!TypeOK, J!Ends
<1>2. /\ Len(queue') = Len(queue) - 1 /\ Len(queue') \in Nat
      /\ \A i \in 1..Len(queue') : queue'[i] = queue[i + 1] /\ i + 1 \in 2..Len(queue)
  BY OnlyTheHeadWorks DEF J!Ends, J!TypeOK
<1>3. \A i \in 1..Len(queue') : task'[queue'[i]].at = "queued"
  BY <1>1, <1>2, OnlyTheHeadWorks
<1>4. ASSUME NEW i \in 1..Len(queue'), NEW j \in 1..Len(queue'), i # j
      PROVE  queue'[i] # queue'[j]
  <2>1. i + 1 \in 1..Len(queue) /\ j + 1 \in 1..Len(queue) /\ i + 1 # j + 1
    BY <1>2, <1>4
  <2> QED BY <1>2, <2>1 DEF QueueInv
<1>5. QueueInv'
  BY <1>3, <1>4 DEF QueueInv
<1>6. ASSUME NEW x \in Callers, queue' # <<>>, Head(queue') = x
      PROVE  task'[x].at = "queued"
  <2>1. queue' \in Seq(Callers) /\ Len(queue') > 0 /\ queue'[1] = x
    BY <1>2, <1>6 DEF J!Ends, J!TypeOK
  <2> QED BY <1>2, <1>3, <2>1
<1> QED BY <1>5, <1>6 DEF Past

(***************************************************************************)
(* The file.                                                               *)
(***************************************************************************)

LEMMA StartKeepsFile ==
  ASSUME J!SiteAssumption, IInv, J!MoveIfTargetMissing \/ J!Initialize \/ J!Create \/ J!Crash
  PROVE  (QueueInv /\ FileInv)' /\ J!FileGrows
<1> USE DEF IInv
<1>1. J!File \in J!Databases \cup {Nowhere} /\ Nowhere \notin J!Databases
  BY PlaceReplaced DEF J!TypeOK, J!File, J!SiteAssumption
<1>2. phase # "serving" => queue = <<>>
  BY DEF QueueInv
<1>3. ASSUME J!File # Nowhere, J!File' = J!File
      PROVE  J!FileGrows
  <2>1. J!File.log \in Seq(Callers)
    BY <1>1, <1>3 DEF J!Databases
  <2>2. J!IsPrefix(J!File.log, J!File.log)
    BY <2>1 DEF J!IsPrefix
  <2>3. J!Names(J!File)' = J!Names(J!File')
    BY DEF J!Names
  <2> QED BY <1>3, <2>2, <2>3 DEF J!FileGrows, J!Names
<1>4. CASE J!MoveIfTargetMissing
  <2>1. queue' = <<>> /\ phase' = "start" /\ data' = J!EmptyDatabase
    BY <1>2, <1>4 DEF J!MoveIfTargetMissing, FileInv
  <2>2. (QueueInv /\ FileInv)'
    BY <2>1 DEF QueueInv, FileInv, Past
  <2>3. ASSUME J!File # Nowhere
        PROVE  J!File' = J!File
    <3> DEFINE part == Parts[moved + 1]
    <3>1. "database" \in DOMAIN disk
      BY DEF J!SiteAssumption, J!TypeOK
    <3>2. \/ disk' = disk
          \/ /\ part # "database"
             /\ disk' = [disk EXCEPT ![part] = [old |-> Nowhere, new |-> disk[part].old]]
      BY <1>4, <2>3 DEF J!MoveIfTargetMissing, J!File
    <3> QED BY <3>1, <3>2 DEF J!File
  <2>4. J!FileGrows
    BY <1>3, <2>3 DEF J!FileGrows
  <2> QED BY <2>2, <2>4
<1>5. CASE J!Initialize
  <2>1. queue' = <<>> /\ J!File' = J!File /\ temp' = temp
    BY <1>2, <1>5 DEF J!Initialize, J!File, J!diskVars
  <2>2. QueueInv'
    BY <2>1 DEF QueueInv
  <2>3. FileInv'
    <3>1. CASE phase' = "serving"
      <4>1. J!File # Nowhere /\ data' = J!Normalized(J!File)
        BY <1>5, <3>1 DEF J!Initialize
      <4>2. data'.log = J!File.log /\ J!Names(data') = J!Names(J!File)
        BY <1>1, <4>1, NormalizedDatabase, NormalizedNames
      <4> QED BY <2>1, <3>1, <4>1, <4>2 DEF FileInv, Past, J!Names
    <3>2. CASE phase' # "serving"
      BY <1>5, <2>1, <3>2 DEF J!Initialize, FileInv, Past
    <3> QED BY <3>1, <3>2
  <2>4. J!FileGrows
    BY <1>3, <2>1 DEF J!FileGrows
  <2> QED BY <2>2, <2>3, <2>4
<1>6. CASE J!Create
  <2>1. queue' = <<>> /\ J!File = Nowhere /\ data' = J!EmptyDatabase
    BY <1>2, <1>6 DEF J!Create, FileInv
  <2>2. QueueInv' /\ J!FileGrows
    BY <2>1 DEF QueueInv, J!FileGrows
  <2>3. CASE phase = "create"
    <3>1. phase' = "created" /\ temp' = J!EmptyDatabase /\ J!File' = Nowhere
      BY <1>6, <2>1, <2>3 DEF J!Create, J!File
    <3> QED BY <2>1, <2>2, <3>1 DEF FileInv, Past
  <2>4. CASE phase = "created"
    <3>1. phase' = "serving" /\ temp = J!EmptyDatabase /\ J!File' = temp
      BY <1>6, <2>4, RenamedFile DEF J!Create, FileInv
    <3>2. J!EmptyDatabase # Nowhere
      BY <1>1, FirstDatabases
    <3> QED BY <2>1, <2>2, <3>1, <3>2 DEF FileInv, Past, J!Names
  <2> QED BY <1>6, <2>3, <2>4 DEF J!Create
<1>7. CASE J!Crash
  <2>1. queue' = <<>> /\ phase' = "start" /\ data' = J!EmptyDatabase /\ J!File' = J!File
    BY <1>7 DEF J!Crash, J!File
  <2>2. (QueueInv /\ FileInv)'
    BY <2>1 DEF QueueInv, FileInv, Past
  <2> QED BY <1>3, <2>1, <2>2 DEF J!FileGrows
<1> QED BY <1>4, <1>5, <1>6, <1>7

LEMMA MutateKeepsFile ==
  ASSUME J!SiteAssumption, IInv, NEW c \in Callers, J!Mutate(c)
  PROVE  (QueueInv /\ FileInv)' /\ J!File' = J!File
<1> USE DEF IInv
<1>1. /\ queue \in Seq(Callers) /\ queue' = Append(queue, c) /\ Len(queue) \in Nat
      /\ phase = "serving" /\ phase' = phase /\ task[c].at = "idle"
  BY DEF J!Mutate, J!TypeOK, J!bootVars
<1>2. task'[c].at = "queued" /\ \A x \in Callers : x # c => task'[x] = task[x]
  BY TaskReplaced DEF J!Mutate, J!TypeOK, Steps
<1>3. /\ Len(queue') = Len(queue) + 1 /\ queue'[Len(queue) + 1] = c
      /\ \A i \in 1..Len(queue) : queue'[i] = queue[i] /\ queue[i] \in Callers
  BY <1>1
<1>4. \A i \in 1..Len(queue) : queue[i] # c
  BY <1>1 DEF QueueInv
<1>5. QueueInv'
  <2>1. ASSUME NEW i \in 1..Len(queue')
        PROVE  /\ task'[queue'[i]].at \notin {"idle", "done"}
               /\ i > 1 => task'[queue'[i]].at = "queued"
    <3>1. CASE i \in 1..Len(queue)
      BY <1>2, <1>3, <1>4, <3>1 DEF QueueInv
    <3>2. CASE i = Len(queue) + 1
      BY <1>2, <1>3, <3>2
    <3> QED BY <1>1, <1>3, <3>1, <3>2
  <2>2. ASSUME NEW i \in 1..Len(queue'), NEW j \in 1..Len(queue'), i # j
        PROVE  queue'[i] # queue'[j]
    <3>1. CASE i \in 1..Len(queue) /\ j \in 1..Len(queue)
      BY <1>3, <2>2, <3>1 DEF QueueInv
    <3>2. CASE i = Len(queue) + 1 \/ j = Len(queue) + 1
      BY <1>1, <1>3, <1>4, <2>2, <3>2
    <3> QED BY <1>1, <1>3, <3>1, <3>2
  <2> QED BY <1>1, <2>1, <2>2 DEF QueueInv
<1>6. ASSUME NEW x \in Callers, NEW places \in SUBSET {"cloned", "applied", "written", "renamed"}
      PROVE  (Past(x, places)' <=> Past(x, places)) /\ (Past(x, places) => task'[x] = task[x])
  <2>1. CASE queue = <<>>
    <3>1. Head(queue') = c /\ task'[c].at = "queued"
      BY <1>1, <1>2, <2>1
    <3> QED BY <2>1, <3>1 DEF Past
  <2>2. CASE queue # <<>>
    <3>1. Head(queue') = Head(queue) /\ queue' # <<>> /\ Head(queue) # c
      BY <1>1, <1>3, <1>4, <2>2
    <3> QED BY <1>2, <2>2, <3>1 DEF Past
  <2> QED BY <2>1, <2>2
<1>7. UNCHANGED <<disk, temp, data>> /\ J!File' = J!File
  BY DEF J!Mutate, J!diskVars, J!File
<1> QED BY <1>1, <1>5, <1>6, <1>7 DEF FileInv, J!Names

(* A mutation that fails leaves nothing but its temporary file. *)
LEMMA FailureKeepsFile ==
  ASSUME J!SiteAssumption, IInv, NEW c \in Callers, NEW here \in {"cloned", "applied", "written"},
         J!AtWork(c, here), J!Ends(c, "failed"), UNCHANGED <<disk, data, phase>>
  PROVE  (QueueInv /\ FileInv)' /\ J!File' = J!File
<1> USE DEF IInv
<1>1. J!File # Nowhere /\ J!Names(data) = J!Names(J!File) /\ data.log = J!File.log /\ J!File' = J!File
  BY DEF J!AtWork, FileInv, Past, J!File
<1>2. QueueInv' /\ \A x \in Callers : ~ Past(x, {"cloned", "applied", "written", "renamed"})'
  BY EndKeepsQueue DEF J!AtWork
<1> QED BY <1>1, <1>2 DEF J!AtWork, FileInv, Past, J!Names

LEMMA CloneKeepsFile ==
  ASSUME J!SiteAssumption, IInv, NEW c \in Callers, J!Clone(c)
  PROVE  (QueueInv /\ FileInv)' /\ J!File' = J!File
<1> USE DEF IInv
<1> DEFINE t == [at |-> "cloned", next |-> data]
<1>1. t \in J!Tasks /\ t.at = "cloned" /\ t.next = data
  BY TaskReplaced DEF J!TypeOK, J!Tasks, Steps
<1>2. /\ queue # <<>> /\ Head(queue) = c /\ phase = "serving" /\ task[c].at = "queued"
      /\ UNCHANGED <<queue, disk, temp, data, phase>> /\ task' = [task EXCEPT ![c] = t]
  BY DEF J!Clone, J!AtWork, J!diskVars, J!bootVars
<1> HIDE DEF t
<1>3. QueueInv'
  BY <1>1, <1>2, WorkKeepsQueue
<1>4. J!File # Nowhere /\ J!Names(data) = J!Names(J!File) /\ data.log = J!File.log /\ J!File' = J!File
  BY <1>2 DEF FileInv, Past, J!File
<1>5. task'[c] = t
  BY <1>2 DEF J!TypeOK
<1> QED BY <1>1, <1>2, <1>3, <1>4, <1>5 DEF FileInv, J!Names, Past

LEMMA ApplyKeepsFile ==
  ASSUME J!SiteAssumption, IInv, NEW c \in Callers, J!Apply(c)
  PROVE  (QueueInv /\ FileInv)' /\ J!File' = J!File
<1> USE DEF IInv
<1>1. CASE c \in site.throws
  BY <1>1, FailureKeepsFile DEF J!Apply, J!diskVars, J!bootVars
<1>2. CASE c \notin site.throws
  <2> DEFINE t == [at |-> "applied", next |-> J!Changed(task[c].next, c)]
  <2>1. task[c].next \in J!Databases
    BY TaskReplaced DEF J!TypeOK, J!Tasks
  <2>2. /\ t \in J!Tasks /\ t.at = "applied"
        /\ t.next.log = Append(task[c].next.log, c) /\ t.next.records = task[c].next.records
        /\ t.next # Nowhere /\ task[c].next # Nowhere
    BY <2>1, ChangedDatabase DEF J!Tasks, J!SiteAssumption
  <2>3. /\ queue # <<>> /\ Head(queue) = c /\ phase = "serving" /\ task[c].at = "cloned"
        /\ UNCHANGED <<queue, disk, temp, data, phase>> /\ task' = [task EXCEPT ![c] = t]
    BY <1>2 DEF J!Apply, J!AtWork, J!diskVars, J!bootVars
  <2> HIDE DEF t
  <2>4. QueueInv'
    BY <2>2, <2>3, WorkKeepsQueue
  <2>5. /\ J!File # Nowhere /\ J!Names(data) = J!Names(J!File) /\ data.log = J!File.log /\ J!File' = J!File
        /\ task[c].next.log = data.log /\ J!Names(task[c].next) = J!Names(data)
    BY <2>3 DEF FileInv, Past, J!File
  <2>6. t.next.log = Append(data.log, c) /\ J!Names(t.next) = J!Names(data)
    BY <2>2, <2>5 DEF J!Names
  <2>7. task'[c] = t
    BY <2>3 DEF J!TypeOK
  <2> QED BY <2>2, <2>3, <2>4, <2>5, <2>6, <2>7 DEF FileInv, J!Names, Past
<1> QED BY <1>1, <1>2

LEMMA WriteKeepsFile ==
  ASSUME J!SiteAssumption, IInv, NEW c \in Callers, J!Write(c)
  PROVE  (QueueInv /\ FileInv)' /\ J!File' = J!File
<1> USE DEF IInv
<1>1. CASE J!Ends(c, "failed")
  BY <1>1, FailureKeepsFile DEF J!Write, J!bootVars
<1>2. CASE temp' = task[c].next /\ task' = [task EXCEPT ![c].at = "written"] /\ queue' = queue
  <2> DEFINE t == [task[c] EXCEPT !.at = "written"]
  <2>1. t \in J!Tasks /\ t.at = "written" /\ t.next = task[c].next
    <3>1. task[c] \in J!Tasks /\ "written" \in Steps
      BY DEF J!TypeOK, Steps
    <3> QED BY <3>1, FirstDatabases, TaskReplaced
  <2>2. /\ queue # <<>> /\ Head(queue) = c /\ phase = "serving" /\ task[c].at = "applied"
        /\ UNCHANGED <<queue, disk, data, phase>> /\ task' = [task EXCEPT ![c] = t]
    BY <1>2 DEF J!Write, J!AtWork, J!bootVars
  <2> HIDE DEF t
  <2>3. QueueInv'
    BY <2>1, <2>2, WorkKeepsQueue
  <2>4. /\ J!File # Nowhere /\ J!Names(data) = J!Names(J!File) /\ data.log = J!File.log /\ J!File' = J!File
        /\ task[c].next.log = Append(data.log, c) /\ J!Names(task[c].next) = J!Names(data)
    BY <2>2 DEF FileInv, Past, J!File
  <2>5. task'[c] = t
    BY <2>2 DEF J!TypeOK
  <2>6. /\ task'[c].at = "written" /\ task'[c].next = task[c].next /\ temp' = task[c].next
        /\ \A x \in Callers : \A places : Past(x, places)' => x = c
    BY <1>2, <2>1, <2>2, <2>5 DEF Past
  <2>7. Past(c, {"written"})' /\ ~ Past(c, {"cloned", "renamed"})'
    BY <2>2, <2>6 DEF Past
  <2>8. /\ J!Names(data)' = J!Names(data) /\ J!Names(J!File)' = J!Names(J!File)
        /\ J!Names(task[c].next)' = J!Names(task[c].next)
    BY <2>2, <2>4, <2>6 DEF J!Names
  <2>9. \A x \in Callers :
          /\ (Past(x, {"cloned"}) => task[x].next.log = data.log)'
          /\ (Past(x, {"applied", "written", "renamed"}) => task[x].next.log = Append(data.log, x))'
          /\ (Past(x, {"cloned", "applied", "written", "renamed"}) => J!Names(task[x].next) = J!Names(data))'
          /\ (Past(x, {"written"}) => temp = task[x].next)'
          /\ (Past(x, {"renamed"}) => J!File = task[x].next)'
    BY <2>2, <2>4, <2>6, <2>7, <2>8 DEF Past
  <2>10. FileInv'
    BY <2>2, <2>4, <2>8, <2>9 DEF FileInv
  <2> QED BY <2>3, <2>4, <2>10
<1> QED BY <1>1, <1>2 DEF J!Write

(* A log is a prefix of what one more mutation makes of it. *)
LEMMA AppendedIsLonger ==
  ASSUME NEW log \in Seq(Callers), NEW c \in Callers
  PROVE  /\ J!IsPrefix(log, log) /\ J!IsPrefix(log, Append(log, c))
         /\ c \in J!ToSet(Append(log, c))
<1>1. /\ Append(log, c) \in Seq(Callers) /\ Len(log) \in Nat /\ Len(Append(log, c)) = Len(log) + 1
      /\ \A i \in 1..Len(log) : Append(log, c)[i] = log[i]
      /\ Append(log, c)[Len(log) + 1] = c
  BY AppendProperties
<1>2. SubSeq(log, 1, Len(log)) = SubSeq(Append(log, c), 1, Len(log))
  BY <1>1, SubSeqProperties
<1>3. J!IsPrefix(log, log) /\ J!IsPrefix(log, Append(log, c))
  BY <1>1, <1>2 DEF J!IsPrefix
<1>4. Len(log) + 1 \in DOMAIN Append(log, c)
  BY <1>1
<1> QED BY <1>1, <1>3, <1>4 DEF J!ToSet

LEMMA RenameKeepsFile ==
  ASSUME J!SiteAssumption, IInv, NEW c \in Callers, J!Rename(c)
  PROVE  (QueueInv /\ FileInv)' /\ (J!File' = J!File \/ J!FileGrows)
<1> USE DEF IInv
<1>1. CASE J!Ends(c, "failed") /\ UNCHANGED J!diskVars
  BY <1>1, FailureKeepsFile DEF J!Rename, J!bootVars, J!diskVars
<1>2. CASE /\ disk' = [disk EXCEPT !["database"].new = temp]
           /\ task' = [task EXCEPT ![c].at = "renamed"] /\ queue' = queue
  <2> DEFINE t == [task[c] EXCEPT !.at = "renamed"]
  <2>1. t \in J!Tasks /\ t.at = "renamed" /\ t.next = task[c].next /\ task[c].next \in J!Databases
    <3>1. task[c] \in J!Tasks /\ "renamed" \in Steps
      BY DEF J!TypeOK, Steps
    <3> QED BY <3>1, FirstDatabases, TaskReplaced
  <2>2. /\ queue # <<>> /\ Head(queue) = c /\ phase = "serving" /\ task[c].at = "written"
        /\ UNCHANGED <<queue, data, phase>> /\ task' = [task EXCEPT ![c] = t]
    BY <1>2 DEF J!Rename, J!AtWork, J!bootVars
  <2> HIDE DEF t
  <2>3. QueueInv'
    BY <2>1, <2>2, WorkKeepsQueue
  <2>4. /\ J!File # Nowhere /\ J!Names(data) = J!Names(J!File) /\ data.log = J!File.log
        /\ task[c].next.log = Append(data.log, c) /\ J!Names(task[c].next) = J!Names(data)
        /\ temp = task[c].next
    BY <2>2 DEF FileInv, Past
  <2>5. J!File' = task[c].next /\ J!File' # Nowhere
    BY <1>2, <2>1, <2>4, RenamedFile DEF J!SiteAssumption
  <2>6. task'[c] = t
    BY <2>2 DEF J!TypeOK
  <2>7. /\ Past(c, {"renamed"})' /\ ~ Past(c, {"cloned", "written"})'
        /\ \A x \in Callers : \A places : Past(x, places)' => x = c
        /\ task'[c].next = task[c].next
    BY <2>1, <2>2, <2>6 DEF Past
  <2>8. J!Names(data)' = J!Names(data) /\ J!Names(task[c].next)' = J!Names(J!File') /\ J!Names(J!File') = J!Names(data)
    BY <2>2, <2>4, <2>5, <2>7 DEF J!Names
  <2>9. \A x \in Callers :
          /\ (Past(x, {"cloned"}) => task[x].next.log = data.log)'
          /\ (Past(x, {"applied", "written", "renamed"}) => task[x].next.log = Append(data.log, x))'
          /\ (Past(x, {"cloned", "applied", "written", "renamed"}) => J!Names(task[x].next) = J!Names(data))'
          /\ (Past(x, {"written"}) => temp = task[x].next)'
          /\ (Past(x, {"renamed"}) => J!File = task[x].next)'
    BY <2>2, <2>4, <2>5, <2>7, <2>8 DEF Past
  <2>10. J!Names(J!File)' = J!Names(J!File')
    BY DEF J!Names
  <2>11. FileInv'
    BY <2>2, <2>5, <2>7, <2>8, <2>9, <2>10 DEF FileInv
  <2>12. J!FileGrows
    <3>1. J!File.log \in Seq(Callers)
      BY <2>4, PlaceReplaced DEF J!TypeOK, J!File, J!Databases
    <3> QED BY <2>4, <2>5, <3>1, AppendedIsLonger DEF J!FileGrows, J!Names
  <2> QED BY <2>3, <2>11, <2>12
<1> QED BY <1>1, <1>2 DEF J!Rename

LEMMA ShowKeepsFile ==
  ASSUME J!SiteAssumption, IInv, NEW c \in Callers, J!Show(c)
  PROVE  /\ (QueueInv /\ FileInv)' /\ J!File' = J!File
         /\ J!File # Nowhere /\ J!File.log = Append(data.log, c)
<1> USE DEF IInv
<1>1. /\ queue # <<>> /\ Head(queue) = c /\ phase = "serving" /\ task[c].at = "renamed"
      /\ UNCHANGED <<disk, phase>> /\ data' = task[c].next /\ J!File' = J!File
  BY DEF J!Show, J!AtWork, J!diskVars, J!bootVars, J!File
<1>2. J!File # Nowhere /\ J!File = data' /\ J!File.log = Append(data.log, c)
  BY <1>1 DEF FileInv, Past
<1>3. QueueInv' /\ \A x \in Callers : ~ Past(x, {"cloned", "applied", "written", "renamed"})'
  BY <1>1, EndKeepsQueue DEF J!Show
<1> QED BY <1>1, <1>2, <1>3 DEF FileInv, Past, J!Names

(***************************************************************************)
(* The inductive invariant, and what follows from it.                      *)
(***************************************************************************)

LEMMA SameFileGrows ==
  ASSUME J!SiteAssumption, J!TypeOK, J!File' = J!File
  PROVE  J!FileGrows
<1>1. J!File \in J!Databases \cup {Nowhere}
  BY PlaceReplaced DEF J!TypeOK, J!File
<1>2. J!File # Nowhere => J!File.log \in Seq(Callers)
  BY <1>1 DEF J!Databases
<1>3. J!File # Nowhere => J!IsPrefix(J!File.log, J!File.log)
  BY <1>2 DEF J!IsPrefix
<1> QED BY <1>3 DEF J!FileGrows, J!Names

LEMMA CallKeepsFile ==
  ASSUME J!SiteAssumption, IInv, NEW c \in Callers,
         J!Mutate(c) \/ J!Clone(c) \/ J!Apply(c) \/ J!Write(c) \/ J!Rename(c) \/ J!Show(c)
  PROVE  (QueueInv /\ FileInv)' /\ J!FileGrows
<1>1. (QueueInv /\ FileInv)' /\ (J!File' = J!File \/ J!FileGrows)
  BY MutateKeepsFile, CloneKeepsFile, ApplyKeepsFile, WriteKeepsFile, RenameKeepsFile, ShowKeepsFile
<1> QED BY <1>1, SameFileGrows DEF IInv

LEMMA NextInv ==
  ASSUME J!SiteAssumption, IInv, [J!Next]_(J!vars)
  PROVE  IInv' /\ J!FileGrows
<1>1. J!TypeOK'
  BY NextKeepsTypes DEF IInv
<1>2. CASE UNCHANGED J!vars
  <2>1. UNCHANGED <<site, disk, temp, data, queue, task, phase, moved, order, used>>
    BY <1>2 DEF J!vars, J!diskVars, J!bootVars
  <2>2. J!File' = J!File
    BY <2>1 DEF J!File
  <2>3. QueueInv'
    BY <2>1 DEF IInv, QueueInv, Past
  <2>4. FileInv'
    BY <2>1, <2>2 DEF IInv, FileInv, Past
  <2> QED BY <1>1, <2>2, <2>3, <2>4, SameFileGrows DEF IInv
<1>3. CASE J!Next
  BY <1>1, <1>3, StartKeepsFile, CallKeepsFile DEF J!Next, IInv
<1> QED BY <1>2, <1>3

(* The store is what its types say after every step of any number of calls,    *)
(* failures and crashes (JsonStore).                                           *)
THEOREM StoreTypeCorrect ==
  ASSUME J!SiteAssumption
  PROVE  J!Spec => []J!TypeOK
<1>1. J!Init => IInv
  BY InitInv
<1>2. IInv /\ [J!Next]_(J!vars) => IInv'
  BY NextInv
<1>3. IInv => J!TypeOK
  BY DEF IInv
<1> QED BY <1>1, <1>2, <1>3, PTL DEF J!Spec

(* No failing write, no crash and no start takes a mutation or a record out of *)
(* the file (JsonStore.persist, initialize, migrateServerDataLayout).          *)
THEOREM FileIsNeverCutBack ==
  ASSUME J!SiteAssumption
  PROVE  J!Spec => J!FileOnlyGrows
<1>1. J!Init => IInv
  BY InitInv
<1>2. IInv /\ [J!Next]_(J!vars) => IInv'
  BY NextInv
<1>3. IInv /\ [J!Next]_(J!vars) => [J!FileGrows]_(J!vars)
  BY NextInv
<1> QED BY <1>1, <1>2, <1>3, PTL DEF J!Spec, J!FileOnlyGrows

(***************************************************************************)
(* What was answered.                                                      *)
(***************************************************************************)

LEMMA PrefixKeepsElements ==
  ASSUME NEW s \in Seq(Callers), NEW t \in Seq(Callers), J!IsPrefix(s, t), NEW c \in J!ToSet(s)
  PROVE  c \in J!ToSet(t)
<1>1. PICK i \in 1..Len(s) : s[i] = c
  BY DEF J!ToSet
<1>2. Len(s) \in Nat /\ Len(t) \in Nat /\ Len(s) <= Len(t) /\ i \in 1..Len(t) /\ i \in Nat
  BY DEF J!IsPrefix
<1>3. SubSeq(s, 1, Len(s))[i] = s[i] /\ SubSeq(t, 1, Len(s))[i] = t[i]
  BY <1>2
<1>4. t[i] = c
  BY <1>1, <1>3 DEF J!IsPrefix
<1> QED BY <1>2, <1>4 DEF J!ToSet

(* Only the last step of a mutation answers it. *)
LEMMA OnlyShowAnswers ==
  ASSUME J!TypeOK, [J!Next]_(J!vars), NEW x \in Callers, task'[x].at = "done"
  PROVE  task[x].at = "done" \/ J!Show(x)
<1>1. CASE UNCHANGED J!vars
  BY <1>1 DEF J!vars
<1>2. CASE J!MoveIfTargetMissing \/ J!Initialize \/ J!Create
  BY <1>2 DEF J!MoveIfTargetMissing, J!Initialize, J!Create
<1>3. CASE J!Crash
  BY <1>3 DEF J!Crash, J!Idle
<1>4. ASSUME NEW c \in Callers, J!Mutate(c) \/ J!Clone(c) \/ J!Apply(c) \/ J!Write(c) \/ J!Rename(c)
      PROVE  task[x].at = "done"
  <2>1. x # c => task'[x] = task[x]
    BY <1>4 DEF J!TypeOK, J!Mutate, J!Clone, J!Apply, J!Write, J!Rename, J!Ends
  <2>2. x = c => task'[x].at # "done"
    BY <1>4 DEF J!TypeOK, J!Tasks, J!Mutate, J!Clone, J!Apply, J!Write, J!Rename, J!Ends, J!Idle
  <2> QED BY <2>1, <2>2
<1>5. ASSUME NEW c \in Callers, J!Show(c), c # x
      PROVE  task[x].at = "done"
  BY <1>5 DEF J!TypeOK, J!Show, J!Ends
<1> QED BY <1>1, <1>2, <1>3, <1>4, <1>5 DEF J!Next

(* Whatever failed or crashed since, a mutation that was answered is in the    *)
(* file (JsonStore.mutate).                                                    *)
THEOREM AnsweredStays ==
  ASSUME J!SiteAssumption
  PROVE  J!Spec => []J!AnsweredIsKept
<1>1. J!Init => IInv /\ J!AnsweredIsKept
  BY InitInv DEF J!Init, J!AnsweredIsKept, J!Idle
<1>2. ASSUME IInv, J!AnsweredIsKept, [J!Next]_(J!vars)
      PROVE  IInv' /\ J!AnsweredIsKept'
  <2>1. IInv' /\ J!FileGrows
    BY <1>2, NextInv
  <2>2. ASSUME NEW x \in Callers, task'[x].at = "done"
        PROVE  J!File' # Nowhere /\ x \in J!ToSet(J!File'.log)
    <3>1. J!File \in J!Databases \cup {Nowhere} /\ J!File' \in J!Databases \cup {Nowhere}
      BY <1>2, <2>1, PlaceReplaced DEF IInv, J!TypeOK, J!File
    <3>2. J!File # Nowhere => J!File.log \in Seq(Callers)
      BY <3>1 DEF J!Databases
    <3>3. J!File' # Nowhere => J!File'.log \in Seq(Callers)
      BY <3>1 DEF J!Databases
    <3>4. CASE task[x].at = "done"
      <4>1. J!File # Nowhere /\ x \in J!ToSet(J!File.log)
        BY <1>2, <3>4 DEF J!AnsweredIsKept
      <4> QED BY <2>1, <3>2, <3>3, <4>1, PrefixKeepsElements DEF J!FileGrows
    <3>5. CASE J!Show(x)
      <4>1. J!File' = J!File /\ J!File # Nowhere /\ J!File.log = Append(data.log, x)
        BY <1>2, <3>5, ShowKeepsFile
      <4>2. data.log \in Seq(Callers)
        BY <1>2 DEF IInv, J!TypeOK, J!Databases
      <4> QED BY <4>1, <4>2, AppendedIsLonger
    <3> QED BY <1>2, <2>2, <3>4, <3>5, OnlyShowAnswers DEF IInv
  <2> QED BY <2>1, <2>2 DEF J!AnsweredIsKept
<1> QED BY <1>1, <1>2, PTL DEF J!Spec

(***************************************************************************)
(* The order of the mutations.                                             *)
(***************************************************************************)

(* The mutations of a log stand in their order among the first n called.      *)
Follows(log, calls, n) ==
  \E f \in [1..Len(log) -> 1..n] :
    /\ \A i, j \in 1..Len(log) : i < j => f[i] < f[j]
    /\ \A i \in 1..Len(log) : log[i] = calls[f[i]]

Kept(places) == {c \in Callers : task[c].at \in places}

(* The queue is what was called last; what is shown was called before it.      *)
OrderInv ==
    /\ order \in Seq(Callers) /\ Len(queue) <= Len(order)
    /\ \A i \in 1..Len(queue) : queue[i] = order[Len(order) - Len(queue) + i]
    /\ disk["database"].old # Nowhere => disk["database"].old.log = <<>>
    /\ J!File # Nowhere => /\ Follows(J!File.log, order, Len(order))
                      /\ J!ToSet(J!File.log) \subseteq Kept({"renamed", "done", "lost"})
    /\ phase = "serving" => Follows(data.log, order, Len(order) - Len(queue))

LEMMA EmptyFollows ==
  ASSUME NEW calls, NEW n \in Nat
  PROVE  Follows(<<>>, calls, n)
<1>1. Len(<<>>) = 0 /\ 1..Len(<<>>) = {}
  OBVIOUS
<1>2. [i \in {} |-> i] \in [{} -> 1..n]
  OBVIOUS
<1> QED BY <1>1, <1>2 DEF Follows

(* Calls that come later change nothing of it. *)
LEMMA FollowsMore ==
  ASSUME NEW log \in Seq(Callers), NEW calls, NEW more, NEW n \in Nat, NEW m \in Nat, n <= m,
         Follows(log, calls, n), \A i \in 1..n : more[i] = calls[i]
  PROVE  Follows(log, more, m)
<1>1. PICK f \in [1..Len(log) -> 1..n] :
         /\ \A i, j \in 1..Len(log) : i < j => f[i] < f[j]
         /\ \A i \in 1..Len(log) : log[i] = calls[f[i]]
  BY DEF Follows
<1>2. 1..n \subseteq 1..m
  OBVIOUS
<1>3. f \in [1..Len(log) -> 1..m]
  BY <1>1, <1>2
<1>4. \A i \in 1..Len(log) : log[i] = more[f[i]]
  BY <1>1
<1> QED BY <1>1, <1>3, <1>4 DEF Follows

(* The mutation that is next in line comes after those in the log. *)
LEMMA FollowsOne ==
  ASSUME NEW log \in Seq(Callers), NEW calls, NEW n \in Nat, Follows(log, calls, n),
         NEW c \in Callers, calls[n + 1] = c
  PROVE  Follows(Append(log, c), calls, n + 1)
<1>1. PICK f \in [1..Len(log) -> 1..n] :
         /\ \A i, j \in 1..Len(log) : i < j => f[i] < f[j]
         /\ \A i \in 1..Len(log) : log[i] = calls[f[i]]
  BY DEF Follows
<1> DEFINE k == Len(log)
           g == [i \in 1..k + 1 |-> IF i = k + 1 THEN n + 1 ELSE f[i]]
<1>2. /\ k \in Nat /\ Len(Append(log, c)) = k + 1 /\ Append(log, c)[k + 1] = c
      /\ \A i \in 1..k : Append(log, c)[i] = log[i]
  BY AppendProperties
<1> HIDE DEF k
<1>3. g[k + 1] = n + 1 /\ \A i \in 1..k : i # k + 1 /\ i \in 1..k + 1 /\ g[i] = f[i]
  BY <1>2
<1>4. \A i \in 1..k + 1 : i = k + 1 \/ i \in 1..k
  BY <1>2
<1>5. \A i \in 1..k : f[i] \in 1..n
  BY <1>1 DEF k
<1>6. g \in [1..k + 1 -> 1..n + 1]
  <2>1. ASSUME NEW i \in 1..k + 1 PROVE g[i] \in 1..n + 1
    BY <1>3, <1>4, <1>5
  <2> QED BY <2>1
<1> HIDE DEF g
<1>7. ASSUME NEW i \in 1..k + 1, NEW j \in 1..k + 1, i < j PROVE g[i] < g[j]
  <2>1. i \in 1..k
    BY <1>2, <1>4, <1>7
  <2>2. CASE j \in 1..k
    <3>1. f[i] < f[j]
      BY <1>1, <1>7, <2>1, <2>2 DEF k
    <3> QED BY <1>3, <2>1, <2>2, <3>1
  <2>3. CASE j = k + 1
    <3>1. f[i] \in 1..n /\ g[i] = f[i] /\ g[j] = n + 1
      BY <1>3, <1>5, <2>1, <2>3
    <3> QED BY <3>1
  <2> QED BY <1>4, <2>2, <2>3
<1>8. ASSUME NEW i \in 1..k + 1 PROVE Append(log, c)[i] = calls[g[i]]
  <2>1. CASE i \in 1..k
    <3>1. log[i] = calls[f[i]]
      BY <1>1, <2>1 DEF k
    <3> QED BY <1>2, <1>3, <2>1, <3>1
  <2>2. CASE i = k + 1
    BY <1>2, <1>3, <2>2
  <2> QED BY <1>4, <2>1, <2>2
<1> DEFINE log2 == Append(log, c)
<1>9. Len(log2) = k + 1 /\ \A i \in 1..k + 1 : log2[i] = calls[g[i]]
  BY <1>2, <1>8
<1> HIDE DEF log2
<1>10. Follows(log2, calls, n + 1)
  BY <1>6, <1>7, <1>9 DEF Follows
<1> QED BY <1>10 DEF log2

(* Where the store is, of the calls in their order. *)
Turn == Len(order) - Len(queue)

LEMMA Logs ==
  ASSUME J!SiteAssumption, J!TypeOK
  PROVE  /\ data.log \in Seq(Callers) /\ (J!File # Nowhere => J!File.log \in Seq(Callers))
         /\ \A c \in Callers : task[c].next.log \in Seq(Callers)
<1>1. J!File \in J!Databases \cup {Nowhere}
  BY PlaceReplaced DEF J!TypeOK, J!File
<1>2. \A d \in J!Databases : d.log \in Seq(Callers)
  BY DEF J!Databases
<1>3. data \in J!Databases /\ \A c \in Callers : task[c].next \in J!Databases
  BY DEF J!TypeOK, J!Tasks
<1> QED BY <1>1, <1>2, <1>3

LEMMA TurnIsNext ==
  ASSUME J!TypeOK, OrderInv, NEW c \in Callers, queue # <<>>, Head(queue) = c
  PROVE  /\ order[Turn + 1] = c /\ Turn \in Nat /\ Turn + 1 <= Len(order)
         /\ queue' = Tail(queue) /\ order' = order =>
              /\ Turn' = Turn + 1 /\ Len(queue') <= Len(order')
              /\ \A i \in 1..Len(queue') : queue'[i] = order'[Len(order') - Len(queue') + i]
<1>1. queue \in Seq(Callers) /\ Len(queue) \in Nat /\ Len(queue) > 0 /\ queue[1] = c /\ Len(order) \in Nat
      /\ Len(queue) <= Len(order)
  BY DEF J!TypeOK, OrderInv
<1>2. order[Turn + 1] = c
  <2>1. 1 \in 1..Len(queue)
    BY <1>1
  <2> QED BY <1>1, <2>1 DEF OrderInv, Turn
<1>3. ASSUME queue' = Tail(queue), order' = order
      PROVE  /\ Turn' = Turn + 1 /\ Len(queue') <= Len(order')
             /\ \A i \in 1..Len(queue') : queue'[i] = order'[Len(order') - Len(queue') + i]
  <2>1. Len(queue') = Len(queue) - 1 /\ \A i \in 1..Len(queue') : queue'[i] = queue[i + 1]
    BY <1>1, <1>3
  <2>2. ASSUME NEW i \in 1..Len(queue')
        PROVE  queue'[i] = order'[Len(order') - Len(queue') + i]
    <3>1. i + 1 \in 1..Len(queue) /\ Len(order') - Len(queue') + i = Len(order) - Len(queue) + (i + 1)
      BY <1>1, <1>3, <2>1
    <3>2. queue[i + 1] = order[Len(order) - Len(queue) + (i + 1)]
      BY <3>1 DEF OrderInv
    <3> QED BY <1>3, <2>1, <3>1, <3>2
  <2> QED BY <1>1, <1>3, <2>1, <2>2 DEF Turn
<1> QED BY <1>1, <1>2, <1>3 DEF Turn

LEMMA InitOrder ==
  ASSUME J!SiteAssumption, J!Init
  PROVE  OrderInv
<1>1. /\ order = <<>> /\ queue = <<>> /\ phase = "start" /\ Len(<<>>) = 0 /\ <<>> \in Seq(Callers)
      /\ site \in Sites /\ disk = site.disk
  BY DEF J!Init
<1>2. /\ disk["database"].old # Nowhere => disk["database"].old.log = <<>>
      /\ J!File # Nowhere => J!File.log = <<>>
  BY <1>1 DEF J!SiteAssumption, J!File
<1>3. Follows(<<>>, order, Len(order)) /\ J!ToSet(<<>>) = {}
  BY <1>1, EmptyFollows DEF J!ToSet
<1> QED BY <1>1, <1>2, <1>3 DEF OrderInv

(* While nothing is served no mutation is made. *)
LEMMA StartKeepsOrder ==
  ASSUME J!SiteAssumption, IInv, IInv', OrderInv, J!MoveIfTargetMissing \/ J!Initialize \/ J!Create \/ J!Crash
  PROVE  OrderInv'
<1> USE DEF IInv
<1>1. /\ phase # "serving" => queue = <<>>
      /\ order' = order /\ order \in Seq(Callers) /\ Len(order) \in Nat /\ Len(<<>>) = 0
  BY DEF QueueInv, OrderInv, J!MoveIfTargetMissing, J!Initialize, J!Create, J!Crash
<1>2. Follows(<<>>, order, Len(order)) /\ J!ToSet(<<>>) = {}
  BY <1>1, EmptyFollows DEF J!ToSet
<1>3. CASE J!MoveIfTargetMissing
  <2>1. queue' = queue /\ queue = <<>> /\ phase' = "start" /\ task' = task
    BY <1>1, <1>3 DEF J!MoveIfTargetMissing
  <2>2. \/ disk'["database"] = disk["database"]
        \/ J!File = Nowhere /\ disk'["database"] = [old |-> Nowhere, new |-> disk["database"].old]
    <3> DEFINE part == Parts[moved + 1]
    <3>1. "database" \in DOMAIN disk
      BY DEF J!SiteAssumption, J!TypeOK
    <3>2. \/ disk' = disk
          \/ /\ disk[part].new = Nowhere
             /\ disk' = [disk EXCEPT ![part] = [old |-> Nowhere, new |-> disk[part].old]]
      BY <1>3 DEF J!MoveIfTargetMissing
    <3> QED BY <3>1, <3>2 DEF J!File
  <2>3. /\ disk'["database"].old # Nowhere => disk'["database"].old.log = <<>>
        /\ J!File' # Nowhere => J!File' = J!File \/ J!File'.log = <<>>
    BY <2>2 DEF OrderInv, J!File
  <2> QED BY <1>1, <1>2, <2>1, <2>3 DEF OrderInv, Kept
<1>4. CASE J!Initialize
  <2>1. /\ queue' = queue /\ queue = <<>> /\ task' = task /\ disk' = disk /\ J!File' = J!File
        /\ phase' = "serving" => J!File # Nowhere /\ data' = J!Normalized(J!File)
    BY <1>1, <1>4 DEF J!Initialize, J!diskVars, J!File
  <2>2. phase' = "serving" => data'.log = J!File.log
    <3>1. J!File \in J!Databases \cup {Nowhere}
      BY PlaceReplaced DEF J!TypeOK, J!File
    <3> QED BY <2>1, <3>1, NormalizedDatabase
  <2> QED BY <1>1, <2>1, <2>2 DEF OrderInv, Kept
<1>5. CASE J!Create
  <2>1. queue' = queue /\ queue = <<>> /\ task' = task /\ data' = J!EmptyDatabase /\ J!File = Nowhere
    BY <1>1, <1>5 DEF J!Create, FileInv
  <2>2. J!EmptyDatabase.log = <<>>
    BY DEF J!EmptyDatabase
  <2>3. /\ J!File' # Nowhere => J!File'.log = <<>>
        /\ disk'["database"].old = disk["database"].old
    <3>1. CASE disk' = disk
      BY <2>1, <3>1 DEF J!File
    <3>2. CASE disk' = [disk EXCEPT !["database"].new = temp] /\ temp = J!EmptyDatabase
      <4>1. disk'["database"] = [disk["database"] EXCEPT !.new = temp] /\ disk["database"] \in J!Places
        BY <3>2 DEF J!SiteAssumption, J!TypeOK
      <4>2. J!File' = temp
        BY <3>2, RenamedFile
      <4>3. disk'["database"].old = disk["database"].old
        BY <4>1 DEF J!Places
      <4> QED BY <2>2, <3>2, <4>2, <4>3
    <3> QED BY <1>5, <3>1, <3>2 DEF J!Create, FileInv
  <2> QED BY <1>1, <1>2, <2>1, <2>2, <2>3 DEF OrderInv
<1>6. CASE J!Crash
  <2>1. queue' = <<>> /\ phase' = "start" /\ disk' = disk /\ J!File' = J!File
    BY <1>6 DEF J!Crash, J!File
  <2>2. \A c \in Callers : task'[c].at = "lost" \/ task'[c] = task[c]
    BY <1>6 DEF J!Crash, J!Idle
  <2> QED BY <1>1, <2>1, <2>2 DEF OrderInv, Kept
<1> QED BY <1>3, <1>4, <1>5, <1>6

LEMMA MutateKeepsOrder ==
  ASSUME J!SiteAssumption, IInv, OrderInv, NEW c \in Callers, J!Mutate(c)
  PROVE  OrderInv'
<1> USE DEF IInv
<1>1. /\ queue' = Append(queue, c) /\ order' = Append(order, c)
      /\ UNCHANGED <<disk, data, phase>> /\ J!File' = J!File /\ phase = "serving"
      /\ task[c].at = "idle" /\ \A x \in Callers : x # c => task'[x] = task[x]
  BY DEF J!Mutate, J!diskVars, J!bootVars, J!File, J!TypeOK
<1>2. /\ queue \in Seq(Callers) /\ order \in Seq(Callers) /\ order' \in Seq(Callers)
      /\ Len(queue) \in Nat /\ Len(order) \in Nat /\ Len(queue) <= Len(order)
      /\ Len(queue') = Len(queue) + 1 /\ Len(order') = Len(order) + 1
      /\ \A i \in 1..Len(queue) : queue'[i] = queue[i]
      /\ \A i \in 1..Len(order) : order'[i] = order[i]
      /\ queue'[Len(queue) + 1] = c /\ order'[Len(order) + 1] = c
  BY <1>1 DEF J!TypeOK, OrderInv
<1>3. ASSUME NEW i \in 1..Len(queue')
      PROVE  queue'[i] = order'[Len(order') - Len(queue') + i]
  <2>1. CASE i \in 1..Len(queue)
    <3>1. Len(order) - Len(queue) + i \in 1..Len(order)
      BY <1>2, <2>1
    <3>2. Len(order') - Len(queue') + i = Len(order) - Len(queue) + i
      BY <1>2
    <3>3. queue[i] = order[Len(order) - Len(queue) + i]
      BY <2>1 DEF OrderInv
    <3> QED BY <1>2, <2>1, <3>1, <3>2, <3>3
  <2>2. CASE i = Len(queue) + 1
    <3>1. Len(order') - Len(queue') + i = Len(order) + 1
      BY <1>2, <2>2
    <3> QED BY <1>2, <2>2, <3>1
  <2> QED BY <1>2, <2>1, <2>2
<1>4. ASSUME NEW log \in Seq(Callers), NEW n \in 0..Len(order), NEW m \in Nat, n <= m,
             Follows(log, order, n)
      PROVE  Follows(log, order', m)
  BY <1>2, <1>4, FollowsMore
<1>5. J!File # Nowhere => /\ Follows(J!File.log, order', Len(order'))
                     /\ J!ToSet(J!File.log) \subseteq Kept({"renamed", "done", "lost"})'
  <2>1. ASSUME J!File # Nowhere PROVE Follows(J!File.log, order', Len(order'))
    <3>1. J!File.log \in Seq(Callers) /\ Follows(J!File.log, order, Len(order))
      BY <2>1, Logs DEF OrderInv
    <3>2. Len(order) \in 0..Len(order) /\ Len(order') \in Nat /\ Len(order) <= Len(order')
      BY <1>2
    <3> QED BY <1>4, <3>1, <3>2
  <2>2. ASSUME J!File # Nowhere, NEW x \in J!ToSet(J!File.log)
        PROVE  x \in Kept({"renamed", "done", "lost"})'
    BY <1>1, <2>2 DEF OrderInv, Kept
  <2> QED BY <2>1, <2>2
<1>6. Follows(data.log, order', Len(order') - Len(queue'))
  <2>1. Len(order') - Len(queue') = Len(order) - Len(queue) /\ Len(order) - Len(queue) \in 0..Len(order)
    BY <1>2
  <2>2. Follows(data.log, order, Len(order) - Len(queue)) /\ data.log \in Seq(Callers)
    BY <1>1, Logs DEF OrderInv
  <2>3. Len(order) - Len(queue) \in Nat /\ Len(order) - Len(queue) <= Len(order) - Len(queue)
    BY <1>2
  <2> QED BY <1>4, <2>1, <2>2, <2>3
<1>7. /\ order' \in Seq(Callers) /\ Len(queue') <= Len(order')
      /\ disk'["database"].old # Nowhere => disk'["database"].old.log = <<>>
      /\ phase' = "serving" => Follows(data'.log, order', Len(order') - Len(queue'))
  BY <1>1, <1>2, <1>6 DEF OrderInv
<1>8. J!File' = J!File
  BY <1>1
<1> QED BY <1>3, <1>5, <1>7, <1>8 DEF OrderInv

(* A step of the mutation at work that leaves the file and what is shown. *)
LEMMA WorkKeepsOrder ==
  ASSUME J!SiteAssumption, IInv, OrderInv, NEW c \in Callers, NEW here \in {"queued", "cloned", "applied", "written"},
         J!AtWork(c, here), queue' = queue \/ queue' = Tail(queue),
         UNCHANGED <<disk, data, phase, order>>, \A x \in Callers : x # c => task'[x] = task[x]
  PROVE  OrderInv'
<1> USE DEF IInv
<1>1. queue # <<>> /\ Head(queue) = c /\ task[c].at = here /\ phase = "serving" /\ J!File' = J!File
  BY DEF J!AtWork, J!File
<1>2. /\ Turn \in Nat /\ Turn + 1 <= Len(order) /\ order \in Seq(Callers) /\ Len(order) \in Nat
      /\ Len(queue') <= Len(order')
      /\ \A i \in 1..Len(queue') : queue'[i] = order'[Len(order') - Len(queue') + i]
      /\ Turn' = Turn \/ Turn' = Turn + 1
  <2>1. CASE queue' = Tail(queue)
    BY <1>1, <2>1, TurnIsNext DEF OrderInv
  <2>2. CASE queue' = queue
    BY <1>1, <2>2, TurnIsNext DEF OrderInv, Turn
  <2> QED BY <2>1, <2>2
<1>3. Follows(data.log, order, Turn')
  <2>1. Follows(data.log, order, Turn)
    BY <1>1 DEF OrderInv, Turn
  <2>2. data.log \in Seq(Callers) /\ Turn' \in Nat /\ Turn <= Turn'
    BY <1>2, Logs
  <2> QED BY <1>2, <2>1, <2>2, FollowsMore
<1>4. J!File # Nowhere => J!ToSet(J!File.log) \subseteq Kept({"renamed", "done", "lost"})'
  BY <1>1 DEF OrderInv, Kept
<1> QED BY <1>1, <1>2, <1>3, <1>4 DEF OrderInv, Turn

LEMMA RenameKeepsOrder ==
  ASSUME J!SiteAssumption, IInv, OrderInv, NEW c \in Callers, J!Rename(c)
  PROVE  OrderInv'
<1> USE DEF IInv
<1>1. /\ queue # <<>> /\ Head(queue) = c /\ phase = "serving" /\ task[c].at = "written"
      /\ UNCHANGED <<data, phase, order>> /\ J!AtWork(c, "written")
  BY DEF J!Rename, J!AtWork, J!bootVars
<1>2. CASE J!Ends(c, "failed") /\ UNCHANGED J!diskVars
  BY <1>1, <1>2, WorkKeepsOrder DEF J!Ends, J!TypeOK, J!diskVars
<1>3. CASE /\ disk' = [disk EXCEPT !["database"].new = temp]
           /\ task' = [task EXCEPT ![c].at = "renamed"] /\ queue' = queue
  <2>1. /\ J!File # Nowhere /\ data.log = J!File.log /\ task[c].next.log = Append(data.log, c)
        /\ temp = task[c].next
    BY <1>1 DEF FileInv, Past
  <2>2. J!File' = temp /\ data.log \in Seq(Callers)
    BY <1>3, RenamedFile, Logs
  <2>3. /\ disk'["database"].old = disk["database"].old
        /\ task'[c].at = "renamed" /\ \A x \in Callers : x # c => task'[x] = task[x]
    <3>1. disk'["database"] = [disk["database"] EXCEPT !.new = temp] /\ disk["database"] \in J!Places
      BY <1>3 DEF J!SiteAssumption, J!TypeOK
    <3>2. task'[c] = [task[c] EXCEPT !.at = "renamed"] /\ task[c] \in J!Tasks
      BY <1>3 DEF J!TypeOK
    <3>3. disk'["database"].old = disk["database"].old
      BY <3>1 DEF J!Places
    <3>4. task'[c].at = "renamed"
      BY <3>2, FirstDatabases, TaskReplaced DEF Steps
    <3> QED BY <1>3, <3>3, <3>4 DEF J!TypeOK
  <2>4. Follows(J!File'.log, order, Len(order))
    <3>1. /\ order[Turn + 1] = c /\ Turn \in Nat /\ Turn + 1 <= Len(order) /\ Len(order) \in Nat
          /\ Follows(data.log, order, Turn)
      BY <1>1, TurnIsNext DEF OrderInv, Turn
    <3>2. Follows(Append(data.log, c), order, Turn + 1)
      BY <2>2, <3>1, FollowsOne
    <3> DEFINE log == Append(data.log, c)
    <3>3. log \in Seq(Callers) /\ log = J!File'.log
      BY <2>1, <2>2
    <3> HIDE DEF log
    <3>4. Follows(log, order, Turn + 1) /\ Turn + 1 \in Nat
      BY <3>1, <3>2 DEF log
    <3> QED BY <3>1, <3>3, <3>4, FollowsMore
  <2>5. J!ToSet(J!File'.log) \subseteq Kept({"renamed", "done", "lost"})'
    <3>1. \A x \in J!ToSet(Append(data.log, c)) : x \in J!ToSet(data.log) \/ x = c
      BY <2>2 DEF J!ToSet
    <3> QED BY <2>1, <2>2, <2>3, <3>1 DEF OrderInv, Kept
  <2> QED BY <1>1, <1>3, <2>3, <2>4, <2>5 DEF OrderInv
<1> QED BY <1>2, <1>3 DEF J!Rename

LEMMA ShowKeepsOrder ==
  ASSUME J!SiteAssumption, IInv, OrderInv, NEW c \in Callers, J!Show(c)
  PROVE  OrderInv'
<1> USE DEF IInv
<1>1. /\ queue # <<>> /\ Head(queue) = c /\ phase = "serving" /\ task[c].at = "renamed"
      /\ UNCHANGED <<disk, phase, order>> /\ data' = task[c].next /\ queue' = Tail(queue)
      /\ J!File' = J!File
  BY DEF J!Show, J!AtWork, J!diskVars, J!bootVars, J!Ends, J!File
<1>2. task[c].next.log = Append(data.log, c) /\ data.log \in Seq(Callers)
  BY <1>1, Logs DEF FileInv, Past
<1>3. \A x \in Callers : task'[x].at = "done" \/ task'[x] = task[x]
  BY DEF J!Show, J!Ends, J!TypeOK, J!Idle
<1>4. /\ order[Turn + 1] = c /\ Turn \in Nat /\ Turn' = Turn + 1 /\ Len(queue') <= Len(order')
      /\ \A i \in 1..Len(queue') : queue'[i] = order'[Len(order') - Len(queue') + i]
      /\ Follows(data.log, order, Turn)
  BY <1>1, TurnIsNext DEF OrderInv, Turn
<1>5. Follows(data'.log, order, Turn')
  BY <1>1, <1>2, <1>4, FollowsOne
<1>6. J!File # Nowhere => J!ToSet(J!File.log) \subseteq Kept({"renamed", "done", "lost"})'
  BY <1>3 DEF OrderInv, Kept
<1>7. /\ order' \in Seq(Callers) /\ Len(queue') <= Len(order') /\ J!File' = J!File
      /\ disk'["database"].old # Nowhere => disk'["database"].old.log = <<>>
      /\ J!File # Nowhere => Follows(J!File.log, order', Len(order'))
  BY <1>1, <1>4 DEF OrderInv
<1>8. \A i \in 1..Len(queue') : queue'[i] = order'[Len(order') - Len(queue') + i]
  BY <1>4
<1>9. Follows(data'.log, order', Len(order') - Len(queue'))
  BY <1>1, <1>5 DEF Turn
<1> QED BY <1>6, <1>7, <1>8, <1>9 DEF OrderInv

LEMMA NextOrder ==
  ASSUME J!SiteAssumption, IInv, IInv', OrderInv, [J!Next]_(J!vars)
  PROVE  OrderInv'
<1>1. CASE UNCHANGED J!vars
  <2>1. UNCHANGED <<disk, data, queue, task, phase, order>>
    BY <1>1 DEF J!vars, J!diskVars, J!bootVars
  <2>2. J!File' = J!File
    BY <2>1 DEF J!File
  <2> QED BY <2>1, <2>2 DEF OrderInv, Kept
<1>2. ASSUME NEW c \in Callers, J!Clone(c) \/ J!Apply(c) \/ J!Write(c)
      PROVE  OrderInv'
  <2>1. PICK here \in {"queued", "cloned", "applied", "written"} : J!AtWork(c, here)
    BY <1>2 DEF J!Clone, J!Apply, J!Write
  <2>2. /\ queue' = queue \/ queue' = Tail(queue)
        /\ UNCHANGED <<disk, data, phase, order>> /\ \A x \in Callers : x # c => task'[x] = task[x]
    BY <1>2 DEF J!Clone, J!Apply, J!Write, J!Ends, IInv, J!TypeOK, J!diskVars, J!bootVars
  <2> QED BY <2>1, <2>2, WorkKeepsOrder
<1> QED BY <1>1, <1>2, StartKeepsOrder, MutateKeepsOrder, RenameKeepsOrder, ShowKeepsOrder DEF J!Next

(***************************************************************************)
(* What a start finds.                                                     *)
(***************************************************************************)

(* A database as this version writes it; the file is one, or what was found.  *)
Sound(d) == d.version = 1 /\ \A r \in d.records : r.form = "current"

Faithful(d) ==
    \/ d = J!Found("database")
    \/ d # Nowhere /\ Sound(d) /\ J!Names(d) = J!Names(J!Found("database"))

Looked(part) == \E i \in 1..moved : Parts[i] = part

StartInv ==
    /\ phase # "start" => moved = Len(Parts)
    /\ \A p \in J!ToSet(Parts) \ {"database"} :
         /\ disk[p] = site.disk[p] \/ disk[p] = [old |-> Nowhere, new |-> J!Found(p)]
         /\ Looked(p) => disk[p].new = J!Found(p)
    /\ \/ disk["database"] = site.disk["database"]
       \/ Faithful(J!File) /\ (J!File = Nowhere => disk["database"].old = Nowhere)
    /\ Looked("database") => Faithful(J!File)
    /\ phase = "serving" => Sound(data) /\ J!Names(data) = J!Names(J!Found("database"))
    /\ \A c \in Callers : Past(c, {"cloned", "applied", "written", "renamed"}) => Sound(task[c].next)
    /\ phase = "refused" => J!File = J!Found("database")

LEMMA InitStart ==
  ASSUME J!SiteAssumption, J!Init
  PROVE  StartInv
<1>1. phase = "start" /\ moved = 0 /\ disk = site.disk /\ queue = <<>>
  BY DEF J!Init
<1>2. \A p : ~ Looked(p)
  BY <1>1 DEF Looked
<1> QED BY <1>1, <1>2 DEF StartInv, Past

(* What this version writes it can load, and what it loads it brings to the   *)
(* present form.                                                              *)
LEMMA SoundDatabases ==
  ASSUME NEW d \in J!Databases, Nowhere \notin J!Databases
  PROVE  /\ Sound(d) => J!Loadable(d)
         /\ J!Loadable(d) => Sound(J!Normalized(d))
         /\ d # Nowhere /\ Sound(J!EmptyDatabase)
<1>1. Sound(d) => J!Loadable(d)
  BY DEF Sound, J!Loadable
<1>2. ASSUME J!Loadable(d) PROVE Sound(J!Normalized(d))
  <2>1. d.records \in SUBSET J!Records /\ J!Normalized(d).records = {J!Current(r) : r \in d.records}
    BY NormalizedDatabase DEF J!Databases
  <2>2. \A r \in J!Records : J!Current(r).form = "current"
    BY DEF J!Current, J!Records
  <2>3. J!Normalized(d).version = d.version
    BY DEF J!Normalized, J!Databases
  <2> QED BY <1>2, <2>1, <2>2, <2>3 DEF Sound, J!Loadable
<1>3. Sound(J!EmptyDatabase)
  BY DEF Sound, J!EmptyDatabase
<1> QED BY <1>1, <1>2, <1>3

(* A part that has been looked at is at its new place, unless it was taken. *)
LEMMA MoveKeepsStart ==
  ASSUME J!SiteAssumption, IInv, StartInv, J!MoveIfTargetMissing
  PROVE  StartInv'
<1> DEFINE part == Parts[moved + 1]
<1>1. /\ phase = "start" /\ phase' = "start" /\ moved < Len(Parts) /\ moved' = moved + 1
      /\ queue' = queue /\ site' = site /\ moved \in Nat
  BY DEF J!MoveIfTargetMissing, IInv, J!TypeOK, J!SiteAssumption
<1>2. queue' = <<>>
  BY <1>1 DEF IInv, QueueInv
<1>3. ASSUME NEW p, p # part, Looked(p)' PROVE Looked(p)
  <2>1. PICK i \in 1..moved' : Parts[i] = p
    BY <1>3 DEF Looked
  <2>2. i \in 1..moved
    BY <1>1, <1>3, <2>1
  <2> QED BY <2>1, <2>2 DEF Looked
<1>4. \A p : J!Found(p)' = J!Found(p)
  BY <1>1 DEF J!Found
<1>5. DOMAIN disk = J!ToSet(Parts)
  BY DEF IInv, J!TypeOK
<1>6. \A p \in J!ToSet(Parts) : p # part => disk'[p] = disk[p]
  BY <1>5 DEF J!MoveIfTargetMissing
<1>7. part \in J!ToSet(Parts)
  BY <1>1 DEF J!ToSet, J!SiteAssumption
<1>8. \/ /\ disk[part].old # Nowhere /\ disk[part].new = Nowhere
         /\ disk'[part] = [old |-> Nowhere, new |-> disk[part].old]
      \/ disk[part].old = Nowhere /\ disk'[part] = disk[part]
      \/ disk[part].new # Nowhere /\ disk'[part] = disk[part]
  BY <1>5, <1>7 DEF J!MoveIfTargetMissing
<1> HIDE DEF part
<1>9. ASSUME disk[part] = site.disk[part]
      PROVE  /\ disk'[part].new = J!Found(part)
             /\ disk'[part] = site.disk[part] \/ disk'[part] = [old |-> Nowhere, new |-> J!Found(part)]
  BY <1>8, <1>9 DEF J!Found
<1>10. ASSUME NEW p \in J!ToSet(Parts) \ {"database"}
       PROVE  /\ disk'[p] = site.disk[p] \/ disk'[p] = [old |-> Nowhere, new |-> J!Found(p)]
              /\ Looked(p)' => disk'[p].new = J!Found(p)
  <2>1. CASE p # part
    BY <1>3, <1>6, <1>10, <2>1 DEF StartInv
  <2>2. CASE p = part
    <3>1. CASE disk[p] = site.disk[p]
      BY <1>9, <2>2, <3>1
    <3>2. CASE disk[p] = [old |-> Nowhere, new |-> J!Found(p)]
      <4>1. disk[p].old = Nowhere /\ disk[p].new = J!Found(p)
        BY <3>2
      <4> QED BY <1>8, <2>2, <3>2, <4>1
    <3> QED BY <1>10, <3>1, <3>2 DEF StartInv
  <2> QED BY <2>1, <2>2
<1>11. /\ \/ disk'["database"] = site.disk["database"]
          \/ Faithful(J!File)' /\ (J!File' = Nowhere => disk'["database"].old = Nowhere)
       /\ Looked("database")' => Faithful(J!File)'
  <2>1. CASE part # "database"
    <3>1. disk'["database"] = disk["database"] /\ J!File' = J!File
      BY <1>6, <2>1 DEF J!SiteAssumption, J!File
    <3>2. Faithful(J!File)' <=> Faithful(J!File)
      BY <1>4, <3>1 DEF Faithful
    <3> QED BY <1>3, <2>1, <3>1, <3>2 DEF StartInv
  <2>2. CASE part = "database"
    <3>1. CASE disk[part] = site.disk[part]
      <4>1. J!File' = J!Found("database") /\ (J!File' = Nowhere => disk'["database"].old = Nowhere)
        BY <1>8, <1>9, <2>2, <3>1 DEF J!File
      <4> QED BY <1>4, <4>1 DEF Faithful
    <3>2. CASE Faithful(J!File) /\ (J!File = Nowhere => disk["database"].old = Nowhere)
      <4>1. disk'["database"] = disk["database"] /\ J!File' = J!File
        BY <1>8, <2>2, <3>2 DEF J!File
      <4>2. Faithful(J!File)'
        BY <1>4, <3>2, <4>1 DEF Faithful
      <4> QED BY <3>2, <4>1, <4>2
    <3> QED BY <2>2, <3>1, <3>2 DEF StartInv
  <2> QED BY <2>1, <2>2
<1> QED BY <1>1, <1>2, <1>4, <1>10, <1>11 DEF StartInv, Past

(* A database that is served was one; one that is refused is left as it was. *)
LEMMA InitializeKeepsStart ==
  ASSUME J!SiteAssumption, IInv, StartInv, J!Initialize
  PROVE  StartInv'
<1>1. /\ phase = "start" /\ moved = Len(Parts) /\ moved' = moved /\ queue' = queue
      /\ site' = site /\ disk' = disk /\ J!File' = J!File /\ queue = <<>>
  BY DEF J!Initialize, J!diskVars, J!File, IInv, QueueInv
<1>2. /\ \A p : J!Found(p)' = J!Found(p) /\ (Looked(p)' <=> Looked(p))
      /\ Faithful(J!File)' <=> Faithful(J!File)
  BY <1>1 DEF J!Found, Looked, Faithful
<1>3. PICK i \in 1..moved : Parts[i] = "database"
  BY <1>1 DEF J!SiteAssumption, J!ToSet
<1>4. Faithful(J!File)
  BY <1>3 DEF StartInv, Looked
<1>5. J!File \in J!Databases \cup {Nowhere} /\ Nowhere \notin J!Databases
  BY PlaceReplaced DEF IInv, J!TypeOK, J!File, J!SiteAssumption
<1>6. ASSUME phase' = "serving"
      PROVE  Sound(data') /\ J!Names(data') = J!Names(J!Found("database"))
  <2>1. J!File # Nowhere /\ J!Loadable(J!File) /\ data' = J!Normalized(J!File)
    BY <1>6 DEF J!Initialize
  <2> QED BY <1>4, <1>5, <2>1, SoundDatabases, NormalizedNames DEF Faithful
<1>7. ASSUME phase' = "refused" PROVE J!File = J!Found("database")
  <2>1. J!File # Nowhere /\ ~ J!Loadable(J!File)
    BY <1>7 DEF J!Initialize
  <2> QED BY <1>4, <1>5, <2>1, SoundDatabases DEF Faithful
<1>8. Sound(data)' <=> Sound(data')
  BY DEF Sound
<1>9. /\ moved' = Len(Parts)
      /\ \A p \in J!ToSet(Parts) \ {"database"} :
           /\ disk'[p] = site.disk[p] \/ disk'[p] = [old |-> Nowhere, new |-> J!Found(p)]
           /\ Looked(p) => disk'[p].new = J!Found(p)
      /\ \/ disk'["database"] = site.disk["database"]
         \/ Faithful(J!File) /\ (J!File = Nowhere => disk'["database"].old = Nowhere)
  BY <1>1 DEF StartInv
<1> QED BY <1>1, <1>2, <1>4, <1>6, <1>7, <1>9 DEF StartInv, Past, Sound, J!Names

(* A new database replaces the file: one of the records that were found. *)
LEMMA NewFileKeepsStart ==
  ASSUME J!SiteAssumption, IInv, StartInv, phase # "start", site' = site, moved' = moved,
         disk' = [disk EXCEPT !["database"].new = temp],
         temp # Nowhere, Sound(temp), J!Names(temp) = J!Names(J!Found("database"))
  PROVE  /\ \A p \in J!ToSet(Parts) \ {"database"} :
              /\ (disk[p] = site.disk[p] \/ disk[p] = [old |-> Nowhere, new |-> J!Found(p)])'
              /\ (Looked(p) => disk[p].new = J!Found(p))'
         /\ Faithful(J!File)' /\ J!File' # Nowhere /\ J!File' = temp
<1>1. \A p : J!Found(p)' = J!Found(p) /\ (Looked(p)' <=> Looked(p))
  BY DEF J!Found, Looked
<1>2. J!File' = temp
  BY RenamedFile DEF IInv
<1>3. Faithful(J!File)'
  <2>1. Sound(J!File') /\ J!Names(J!File') = J!Names(J!Found("database"))
    BY <1>2
  <2> QED BY <1>1, <1>2, <2>1 DEF Faithful, Sound, J!Names
<1>4. \A p \in J!ToSet(Parts) \ {"database"} : disk'[p] = disk[p]
  BY DEF IInv, J!TypeOK
<1> QED BY <1>1, <1>2, <1>3, <1>4 DEF StartInv

LEMMA CreateKeepsStart ==
  ASSUME J!SiteAssumption, IInv, StartInv, J!Create
  PROVE  StartInv'
<1>1. /\ phase # "start" /\ moved = Len(Parts) /\ moved' = moved /\ site' = site /\ J!File = Nowhere
      /\ queue' = queue /\ queue = <<>> /\ data' = J!EmptyDatabase
  BY DEF J!Create, StartInv, IInv, QueueInv, FileInv
<1>2. /\ \A p : J!Found(p)' = J!Found(p) /\ (Looked(p)' <=> Looked(p))
      /\ J!EmptyDatabase # Nowhere /\ Sound(J!EmptyDatabase)
  BY <1>1, FirstDatabases, SoundDatabases DEF J!Found, Looked, J!SiteAssumption
<1>3. PICK i \in 1..moved : Parts[i] = "database"
  BY <1>1 DEF J!SiteAssumption, J!ToSet
<1>4. Faithful(J!File)
  BY <1>3 DEF StartInv, Looked
<1>5. J!Names(J!EmptyDatabase) = J!Names(J!Found("database"))
  BY <1>1, <1>4, <1>2 DEF Faithful, J!Names, J!EmptyDatabase
<1>6. CASE phase' = "created" /\ disk' = disk
  <2>1. J!File' = J!File /\ (Faithful(J!File)' <=> Faithful(J!File))
    BY <1>1, <1>2, <1>6 DEF J!File, Faithful
  <2> QED BY <1>1, <1>2, <1>6, <2>1 DEF StartInv, Past
<1>7. CASE phase' = "serving" /\ phase = "created" /\ disk' = [disk EXCEPT !["database"].new = temp]
  <2>1. temp = J!EmptyDatabase
    BY <1>7 DEF IInv, FileInv
  <2>2. /\ \A p \in J!ToSet(Parts) \ {"database"} :
             /\ (disk[p] = site.disk[p] \/ disk[p] = [old |-> Nowhere, new |-> J!Found(p)])'
             /\ (Looked(p) => disk[p].new = J!Found(p))'
        /\ Faithful(J!File)' /\ J!File' # Nowhere
    BY <1>1, <1>2, <1>5, <1>7, <2>1, NewFileKeepsStart
  <2>3. Sound(data') /\ J!Names(data') = J!Names(J!Found("database"))
    BY <1>1, <1>2, <1>5
  <2>4. J!Names(J!Found("database"))' = J!Names(J!Found("database")) /\ (Sound(data)' <=> Sound(data'))
        /\ J!Names(data)' = J!Names(data')
    BY <1>2 DEF J!Names, Sound
  <2> QED BY <1>1, <1>7, <2>2, <2>3, <2>4 DEF StartInv, Past
<1> QED BY <1>6, <1>7 DEF J!Create

(* A restart looks again at what it finds, and finds it as it was. *)
LEMMA CrashKeepsStart ==
  ASSUME J!SiteAssumption, StartInv, J!Crash
  PROVE  StartInv'
<1>1. /\ queue' = <<>> /\ phase' = "start" /\ moved' = 0 /\ site' = site /\ disk' = disk
      /\ J!File' = J!File
  BY DEF J!Crash, J!File
<1>2. /\ \A p : J!Found(p)' = J!Found(p) /\ ~ Looked(p)'
      /\ Faithful(J!File)' <=> Faithful(J!File)
  BY <1>1 DEF J!Found, Looked, Faithful
<1> QED BY <1>1, <1>2 DEF StartInv, Past

(* A step that leaves the files and what is shown. *)
LEMMA QuietStepKeepsStart ==
  ASSUME StartInv, site' = site, disk' = disk, moved' = moved, phase' = phase, data' = data,
         \A x \in Callers : Past(x, {"cloned", "applied", "written", "renamed"})' =>
           Sound(task'[x].next)
  PROVE  StartInv'
<1>1. J!File' = J!File
  BY DEF J!File
<1>2. /\ \A p : J!Found(p)' = J!Found(p) /\ (Looked(p)' <=> Looked(p))
      /\ Faithful(J!File)' <=> Faithful(J!File)
  BY <1>1 DEF J!Found, Looked, Faithful
<1>3. Sound(data)' <=> Sound(data)
  BY DEF Sound
<1>4. J!Names(data)' = J!Names(data) /\ J!Names(J!Found("database"))' = J!Names(J!Found("database"))
  BY <1>2 DEF J!Names
<1>5. \A x \in Callers : Past(x, {"cloned", "applied", "written", "renamed"})' => Sound(task[x].next)'
  BY DEF Sound
<1> QED BY <1>1, <1>2, <1>3, <1>4, <1>5 DEF StartInv

(* A mutation that waits has no copy yet. *)
LEMMA MutateKeepsStart ==
  ASSUME J!SiteAssumption, IInv, StartInv, NEW c \in Callers, J!Mutate(c)
  PROVE  StartInv'
<1>1. /\ queue \in Seq(Callers) /\ queue' = Append(queue, c) /\ Len(queue) \in Nat
      /\ task[c].at = "idle" /\ UNCHANGED <<site, disk, data, moved, phase>>
  BY DEF IInv, J!Mutate, J!TypeOK, J!diskVars, J!bootVars
<1>2. task'[c].at = "queued" /\ \A x \in Callers : x # c => task'[x] = task[x]
  BY TaskReplaced DEF IInv, J!Mutate, J!TypeOK, Steps
<1>3. ASSUME NEW x \in Callers, Past(x, {"cloned", "applied", "written", "renamed"})'
      PROVE  Sound(task'[x].next)
  <2>1. Head(queue') = x /\ x # c /\ task'[x] = task[x]
    BY <1>2, <1>3 DEF Past
  <2>2. queue # <<>> /\ Head(queue) = x
    BY <1>1, <2>1
  <2> QED BY <1>3, <2>1, <2>2 DEF StartInv, Past
<1> QED BY <1>1, <1>3, QuietStepKeepsStart

(* A copy has the form of what is shown, and its changes keep that form. *)
LEMMA WorkKeepsStart ==
  ASSUME J!SiteAssumption, IInv, StartInv, NEW c \in Callers, J!Clone(c) \/ J!Apply(c) \/ J!Write(c)
  PROVE  StartInv'
<1>1. /\ queue # <<>> /\ Head(queue) = c /\ phase = "serving"
      /\ UNCHANGED <<site, disk, data, moved, phase>>
  BY DEF J!Clone, J!Apply, J!Write, J!AtWork, J!diskVars, J!bootVars
<1>2. CASE J!Ends(c, "failed")
  BY <1>1, <1>2, EndKeepsQueue, QuietStepKeepsStart DEF IInv
<1>3. CASE queue' = queue
  <2>1. task[c] \in J!Tasks /\ task[c].next \in J!Databases /\ Sound(data)
    BY <1>1 DEF IInv, J!TypeOK, J!Tasks, StartInv
  <2>2. Sound(task[c].next) => Sound(J!Changed(task[c].next, c))
    BY <2>1 DEF Sound, J!Changed, J!Databases
  <2>3. CASE J!Clone(c)
    BY <1>1, <1>3, <2>1, <2>3, QuietStepKeepsStart DEF J!Clone, Past, IInv, J!TypeOK
  <2>4. CASE J!Apply(c) /\ c \notin site.throws
    <3>1. Sound(task[c].next)
      BY <1>1, <2>4 DEF J!Apply, J!AtWork, StartInv, Past
    <3>2. task'[c].next = J!Changed(task[c].next, c)
      BY <2>4 DEF J!Apply, IInv, J!TypeOK
    <3>3. Sound(task'[c].next)
      BY <2>2, <3>1, <3>2
    <3> QED BY <1>1, <1>3, <3>3, QuietStepKeepsStart DEF Past
  <2>5. CASE J!Write(c) /\ task' = [task EXCEPT ![c].at = "written"]
    <3>1. Sound(task[c].next)
      BY <1>1, <2>5 DEF J!Write, J!AtWork, StartInv, Past
    <3>2. task'[c] = [task[c] EXCEPT !.at = "written"]
      BY <2>5 DEF IInv, J!TypeOK
    <3>3. task'[c].next = task[c].next
      BY <2>1, <3>2, FirstDatabases, TaskReplaced DEF Steps
    <3> QED BY <1>1, <1>3, <3>1, <3>3, QuietStepKeepsStart DEF Past
  <2> QED BY <1>2, <2>3, <2>4, <2>5 DEF J!Apply, J!Write
<1> QED BY <1>2, <1>3 DEF J!Clone, J!Apply, J!Write

LEMMA RenameKeepsStart ==
  ASSUME J!SiteAssumption, IInv, StartInv, NEW c \in Callers, J!Rename(c)
  PROVE  StartInv'
<1>1. /\ queue # <<>> /\ Head(queue) = c /\ phase = "serving" /\ task[c].at = "written"
      /\ UNCHANGED <<site, data, moved, phase>>
  BY DEF J!Rename, J!AtWork, J!bootVars
<1>2. CASE J!Ends(c, "failed") /\ UNCHANGED J!diskVars
  BY <1>1, <1>2, EndKeepsQueue, QuietStepKeepsStart DEF IInv, J!diskVars
<1>3. CASE /\ disk' = [disk EXCEPT !["database"].new = temp]
           /\ task' = [task EXCEPT ![c].at = "renamed"] /\ queue' = queue
  <2>1. /\ temp = task[c].next /\ J!Names(temp) = J!Names(data) /\ Sound(temp)
        /\ task[c] \in J!Tasks /\ task[c].next \in J!Databases
        /\ Sound(data) /\ J!Names(data) = J!Names(J!Found("database"))
    BY <1>1 DEF IInv, J!TypeOK, FileInv, StartInv, Past, J!Tasks
  <2>2. task'[c].next = temp
    <3>1. task'[c] = [task[c] EXCEPT !.at = "renamed"]
      BY <1>3 DEF IInv, J!TypeOK
    <3> QED BY <2>1, <3>1, FirstDatabases, TaskReplaced DEF Steps
  <2>3. temp # Nowhere
    BY <2>1 DEF J!SiteAssumption
  <2>4. /\ \A p \in J!ToSet(Parts) \ {"database"} :
             /\ (disk[p] = site.disk[p] \/ disk[p] = [old |-> Nowhere, new |-> J!Found(p)])'
             /\ (Looked(p) => disk[p].new = J!Found(p))'
        /\ Faithful(J!File)' /\ J!File' # Nowhere
    BY <1>1, <1>3, <2>1, <2>3, NewFileKeepsStart
  <2>5. J!Names(J!Found("database"))' = J!Names(J!Found("database")) /\ (Sound(data)' <=> Sound(data))
        /\ J!Names(data)' = J!Names(data)
    BY <1>1 DEF J!Names, Sound, J!Found
  <2>6. \A x \in Callers : Past(x, {"cloned", "applied", "written", "renamed"})' =>
          Sound(task[x].next)'
    BY <1>1, <1>3, <2>1, <2>2 DEF Past, Sound
  <2> QED BY <1>1, <2>1, <2>4, <2>5, <2>6 DEF StartInv
<1> QED BY <1>2, <1>3 DEF J!Rename

LEMMA ShowKeepsStart ==
  ASSUME J!SiteAssumption, IInv, StartInv, NEW c \in Callers, J!Show(c)
  PROVE  StartInv'
<1>1. /\ queue # <<>> /\ Head(queue) = c /\ phase = "serving" /\ task[c].at = "renamed"
      /\ UNCHANGED <<site, disk, moved, phase>> /\ data' = task[c].next /\ J!File' = J!File
  BY DEF J!Show, J!AtWork, J!diskVars, J!bootVars, J!File
<1>2. \A x \in Callers : ~ Past(x, {"cloned", "applied", "written", "renamed"})'
  BY <1>1, EndKeepsQueue DEF J!Show, IInv
<1>3. Sound(data') /\ J!Names(data') = J!Names(J!Found("database"))
  BY <1>1 DEF IInv, FileInv, StartInv, Past
<1>4. /\ \A p : J!Found(p)' = J!Found(p) /\ (Looked(p)' <=> Looked(p))
      /\ Faithful(J!File)' <=> Faithful(J!File)
  BY <1>1 DEF J!Found, Looked, Faithful
<1>5. /\ J!Names(J!Found("database"))' = J!Names(J!Found("database"))
      /\ (Sound(data)' <=> Sound(data')) /\ J!Names(data)' = J!Names(data')
  BY <1>4 DEF J!Names, Sound
<1> QED BY <1>1, <1>2, <1>3, <1>4, <1>5 DEF StartInv

LEMMA NextStart ==
  ASSUME J!SiteAssumption, IInv, StartInv, [J!Next]_(J!vars)
  PROVE  StartInv'
<1>1. CASE UNCHANGED J!vars
  <2>1. UNCHANGED <<site, disk, data, queue, task, phase, moved>>
    BY <1>1 DEF J!vars, J!diskVars, J!bootVars
  <2> QED BY <2>1, QuietStepKeepsStart DEF StartInv, Past
<1> QED BY <1>1, MoveKeepsStart, InitializeKeepsStart, CreateKeepsStart, CrashKeepsStart,
           MutateKeepsStart, WorkKeepsStart, RenameKeepsStart, ShowKeepsStart DEF J!Next

(***************************************************************************)
(* What the runs check, for every site.                                    *)
(***************************************************************************)

LEMMA SerialFollows ==
  ASSUME J!SiteAssumption, IInv, J!AnsweredIsKept, OrderInv
  PROVE  J!StoreIsSerial
<1> SUFFICES ASSUME J!File # Nowhere PROVE J!StoreIsSerial
  BY DEF J!StoreIsSerial
<1>1. /\ J!File.log \in Seq(Callers) /\ data.log \in Seq(Callers)
      /\ Follows(J!File.log, order, Len(order))
      /\ J!ToSet(J!File.log) \subseteq Kept({"renamed", "done", "lost"})
  BY Logs DEF IInv, OrderInv
<1>2. J!Within(J!File.log, order)
  BY <1>1 DEF Follows, J!Within
<1>3. \A c \in J!ToSet(J!File.log) : task[c].at \in {"renamed", "done", "lost"}
  BY <1>1 DEF Kept
<1>4. ASSUME phase = "serving", data.log # J!File.log
      PROVE  data.log = J!Front(J!File.log) /\ J!AtWork(J!Last(J!File.log), "renamed")
  <2>1. PICK c \in Callers : Past(c, {"renamed"})
    BY <1>4 DEF IInv, FileInv
  <2>2. J!File.log = Append(data.log, c) /\ J!AtWork(c, "renamed")
    BY <1>4, <2>1 DEF IInv, FileInv, Past, J!AtWork
  <2> DEFINE log == Append(data.log, c)
  <2>3. /\ log \in Seq(Callers) /\ Len(log) = Len(data.log) + 1 /\ log[Len(log)] = c
        /\ Len(data.log) \in Nat /\ \A i \in 1..Len(data.log) : log[i] = data.log[i]
    BY <1>1, AppendProperties
  <2> HIDE DEF log
  <2>4. SubSeq(log, 1, Len(log) - 1) = data.log
    BY <1>1, <2>3, SubSeqProperties
  <2>5. J!Front(log) = data.log /\ J!Last(log) = c
    BY <2>3, <2>4 DEF J!Front, J!Last
  <2> QED BY <2>2, <2>5 DEF log
<1> QED BY <1>2, <1>3, <1>4 DEF J!StoreIsSerial

(* The mutations in the file are those that were answered and perhaps some     *)
(* that a crash cut off after their rename, in the order of their calls and    *)
(* each on top of the one before; what is shown lacks at most the one at work, *)
(* after any number of calls, failing writes and crashes (JsonStore.mutate,    *)
(* persist).                                                                   *)
THEOREM StoreStaysSerial ==
  ASSUME J!SiteAssumption
  PROVE  J!Spec => []J!StoreIsSerial
<1>1. J!Spec => []J!AnsweredIsKept
  BY AnsweredStays
<1>2. J!Init => IInv /\ OrderInv
  BY InitInv, InitOrder
<1>3. IInv /\ OrderInv /\ [J!Next]_(J!vars) => IInv' /\ OrderInv'
  BY NextInv, NextOrder
<1>4. IInv /\ OrderInv /\ J!AnsweredIsKept => J!StoreIsSerial
  BY SerialFollows
<1> QED BY <1>1, <1>2, <1>3, <1>4, PTL DEF J!Spec

LEMMA KeepingFollows ==
  ASSUME J!SiteAssumption, IInv, StartInv
  PROVE  J!StartKeepsAll
<1>1. ASSUME phase # "start", NEW p \in J!ToSet(Parts) \ {"database"}
      PROVE  disk[p].new = J!Found(p)
  <2>1. PICK i \in 1..Len(Parts) : Parts[i] = p
    BY <1>1 DEF J!SiteAssumption, J!ToSet
  <2> QED BY <1>1, <2>1 DEF StartInv, Looked
<1>2. ASSUME phase = "serving"
      PROVE  /\ {J!Names(data), J!Names(J!File)} = {J!Names(J!Found("database"))}
             /\ \A r \in data.records : r.form = "current"
  BY <1>2 DEF IInv, FileInv, StartInv, Sound
<1>3. phase = "refused" => J!File = J!Found("database")
  BY DEF StartInv
<1> QED BY <1>1, <1>2, <1>3 DEF J!StartKeepsAll

(* Every start, of however many, serves the records that the first one found,  *)
(* all in their present form, or refuses and leaves the file as it is; and     *)
(* every part of the earlier layout is at its new place unless that was taken  *)
(* (initialize, normalizeDatabase, migrateServerDataLayout).                   *)
THEOREM StartsKeepAll ==
  ASSUME J!SiteAssumption
  PROVE  J!Spec => []J!StartKeepsAll
<1>1. J!Init => IInv /\ StartInv
  BY InitInv, InitStart
<1>2. IInv /\ StartInv /\ [J!Next]_(J!vars) => IInv' /\ StartInv'
  BY NextInv, NextStart
<1>3. IInv /\ StartInv => J!StartKeepsAll
  BY KeepingFollows
<1> QED BY <1>1, <1>2, <1>3, PTL DEF J!Spec

(***************************************************************************)
(* The container of one gate (VerificationSandbox).                        *)
(***************************************************************************)

(* The places of a job between the entry of its record and its cleanup, ...  *)
Working == {"volume", "create_volume", "note_volume", "container", "create_container", "note_container",
            "copy", "start", "attached", "collect"}
(* ... from its cleanup on, ...                                              *)
Over == {"cleanup", "finish", "release", "done"}
(* ... and those of a user that has the lease.                               *)
Leased == {"sweep", "prepare"} \cup Working \cup {"cleanup", "finish", "release"}

SandboxPlaces == {"idle", "queued", "done"} \cup Leased
Records == [state : {"none", "volume_ready", "volume_create_pending", "container_create_pending",
                     "container_ready"}, named : BOOLEAN]
Targets == [job : Jobs \cup {Nobody}, at : {"look", "container", "volume", "complete"}]

(* TypeOK, as far as it is needed. *)
JobTypes ==
  /\ record \in [Jobs -> Records]
  /\ ctr \in [Jobs -> {"none", "created", "running", "exited"}]
  /\ gate \in [Jobs -> {"none", "passed", "failed", "refused"}]
  /\ verdict \in [Jobs -> {"none", "passed", "failed"}]
  /\ out \in [Jobs -> {"none", "exit", "failure", "terminal", "unproven", "unavailable", "lost"}]

UserTypes ==
  /\ server \in [Procs -> {"down", "starting", "serving"}]
  /\ place \in [S!Users -> SandboxPlaces]
  /\ \A p \in Procs : place[p] \in {"idle", "queued", "sweep", "release", "done"}
  /\ turn \in [Procs -> S!Users \cup {Nobody}]
  /\ sweep \in [S!Users -> SUBSET Jobs]
  /\ target \in [S!Users -> Targets]

(* Who is past the queue has its process's turn and the port: there is one. *)
LeaseInv ==
  /\ \A u \in S!Users : place[u] \in Leased => port = S!HomeOf(u) /\ turn[S!HomeOf(u)] = u
  /\ \A p \in Procs : place[p] \in Leased \cup {"queued"} => server[p] # "down"

Asked(j, what) == <<j, what>> \in late

(* What the engine has, or may come to have, is in the record, in a form that *)
(* does not let a reconciliation take it for gone.                            *)
EngineInv(j) ==
  /\ record[j] = S!NoRecord => ctr[j] = "none" /\ j \notin vol /\ j \notin cid
                             /\ ~Asked(j, "volume") /\ ~Asked(j, "container")
  /\ ctr[j] # "none" => record[j].state \in {"container_create_pending", "container_ready"}
  /\ Asked(j, "volume") =>
       record[j].state = "volume_create_pending" /\ j \notin vol /\ place[j] \in Over
  /\ Asked(j, "container") =>
       /\ record[j].state = "container_create_pending" /\ ~record[j].named
       /\ j \notin cid /\ ctr[j] = "none" /\ place[j] \in Over

(* What the record says at each place of the job's own work. *)
JobWorkInv(j) ==
  /\ place[j] \in {"idle", "queued", "sweep", "prepare"} => record[j] = S!NoRecord /\ out[j] = "none" /\ j \notin open
  /\ place[j] \in Working => j \in open /\ out[j] = "none" /\ record[j] # S!NoRecord
  /\ place[j] \in {"volume", "create_volume"} => j \notin vol
  /\ place[j] \in {"volume", "create_volume", "note_volume", "container", "create_container"} =>
       ctr[j] = "none" /\ j \notin cid
  /\ place[j] = "create_volume" => record[j] = [state |-> "volume_create_pending", named |-> FALSE]
  /\ place[j] = "create_container" => record[j] = [state |-> "container_create_pending", named |-> FALSE]
  /\ place[j] \in {"note_container", "copy", "start", "attached", "collect"} =>
       record[j].state \in {"container_create_pending", "container_ready"}

(* What a verdict rests on. *)
VerdictInv(j) ==
  /\ place[j] = "collect" => ctr[j] = "exited" /\ gate[j] \in S!Published
  /\ verdict[j] # "none" => /\ verdict[j] = gate[j] /\ ctr[j] # "running" /\ place[j] \in Over
                            /\ place[j] = "cleanup" => j \in open
  /\ place[j] = "cleanup" => out[j] \in {"none", "unproven"}
  /\ place[j] = "finish" /\ out[j] # "unproven" /\ verdict[j] # "none" => record[j] = S!NoRecord
  /\ out[j] = "exit" => verdict[j] = gate[j] /\ verdict[j] # "none" /\ record[j] = S!NoRecord
                        /\ place[j] \in {"release", "done"}

JobInv(j) == EngineInv(j) /\ JobWorkInv(j) /\ VerdictInv(j)

(* Whom a user reconciles, and what is gone when it has come how far. *)
Aimed(u) ==
  LET j == target[u].job IN
  /\ j \in Jobs
  /\ \/ place[u] = "sweep" /\ j \in sweep[u]
     \/ place[u] = "cleanup" /\ j = u /\ j \in open
  /\ target[u].at # "look" => ~Asked(j, "volume") /\ ~Asked(j, "container")
  /\ target[u].at \in {"volume", "complete"} => ctr[j] = "none"
  /\ target[u].at = "complete" => j \notin vol

WalkInv(u) ==
  /\ \A j \in sweep[u] : place[u] = "sweep" /\ place[j] = "done" /\ record[j] # S!NoRecord
  /\ target[u] = S!NoTarget \/ Aimed(u)

SandboxInv ==
  JobTypes /\ UserTypes /\ LeaseInv /\ (\A j \in Jobs : JobInv(j)) /\ (\A u \in S!Users : WalkInv(u))

LEMMA Homes ==
  ASSUME S!SandboxAssumption
  PROVE  /\ \A u \in S!Users : S!HomeOf(u) \in Procs
         /\ \A p \in Procs : p \in S!Users /\ p \notin Jobs /\ S!HomeOf(p) = p
         /\ \A j \in Jobs : j \in S!Users /\ j \notin Procs
         /\ Nobody \notin Procs /\ Nobody \notin Jobs
BY DEF S!SandboxAssumption, S!HomeOf, S!Users

(* Nobody but who has the lease reconciles anything. *)
LEMMA OneAtATime ==
  ASSUME SandboxInv, NEW u \in S!Users, place[u] \in Leased, NEW v \in S!Users, v # u
  PROVE  place[v] \notin Leased /\ sweep[v] = {} /\ target[v] = S!NoTarget
<1>1. place[v] \notin Leased
  BY DEF SandboxInv, LeaseInv
<1>2. place[v] # "sweep" /\ place[v] # "cleanup"
  BY <1>1 DEF Leased
<1>3. sweep[v] = {}
  BY <1>2 DEF SandboxInv, WalkInv
<1>4. target[v] = S!NoTarget
  BY <1>2 DEF SandboxInv, WalkInv, Aimed
<1> QED BY <1>1, <1>3, <1>4

(* Who stands where nothing is reconciled has nothing to reconcile. *)
LEMMA NothingAimed ==
  ASSUME SandboxInv, NEW u \in S!Users, place[u] # "sweep",
         place[u] # "cleanup" \/ u \notin open
  PROVE  sweep[u] = {} /\ target[u] = S!NoTarget
<1>1. sweep[u] = {}
  BY DEF SandboxInv, WalkInv
<1>2. target[u] = S!NoTarget
  BY DEF SandboxInv, WalkInv, Aimed
<1> QED BY <1>1, <1>2

(* What is said of a job stays as it is, but for its place. *)
Rest(k) ==
  /\ record'[k] = record[k] /\ ctr'[k] = ctr[k] /\ gate'[k] = gate[k]
  /\ verdict'[k] = verdict[k] /\ out'[k] = out[k]
  /\ k \in vol' <=> k \in vol
  /\ k \in cid' <=> k \in cid
  /\ k \in open' <=> k \in open
  /\ Asked(k, "volume")' <=> Asked(k, "volume")
  /\ Asked(k, "container")' <=> Asked(k, "container")

LEMMA SameKeeps ==
  ASSUME NEW k \in Jobs, JobInv(k), place'[k] = place[k], Rest(k)
  PROVE  JobInv(k)'
<1>1. EngineInv(k)'
  BY DEF JobInv, EngineInv, Rest
<1>2. JobWorkInv(k)'
  BY DEF JobInv, JobWorkInv, Rest
<1>3. VerdictInv(k)'
  BY DEF JobInv, VerdictInv, Rest
<1> QED BY <1>1, <1>2, <1>3 DEF JobInv

(* A step of the user that has the lease and keeps it. *)
LEMMA UserStep ==
  ASSUME S!SandboxAssumption, SandboxInv, NEW u \in S!Users, place[u] \in Leased, place'[u] \in Leased,
         UNCHANGED <<server, port, turn>>, JobTypes', UserTypes',
         \A v \in S!Users : v # u => place'[v] = place[v] /\ sweep'[v] = sweep[v] /\ target'[v] = target[v],
         \A k \in Jobs : JobInv(k)', WalkInv(u)'
  PROVE  SandboxInv'
<1>1. LeaseInv'
  <2>1. \A v \in S!Users : place'[v] \in Leased => port' = S!HomeOf(v) /\ turn'[S!HomeOf(v)] = v
    BY DEF SandboxInv, LeaseInv
  <2>2. \A p \in Procs : place'[p] \in Leased \cup {"queued"} => server'[p] # "down"
    BY Homes DEF SandboxInv, LeaseInv
  <2> QED BY <2>1, <2>2 DEF LeaseInv, S!HomeOf
<1>2. ASSUME NEW v \in S!Users, v # u PROVE WalkInv(v)'
  <2>1. sweep'[v] = {} /\ target'[v] = S!NoTarget
    BY <1>2, OneAtATime
  <2> QED BY <2>1 DEF WalkInv, S!NoTarget
<1> QED BY <1>1, <1>2 DEF SandboxInv

-----------------------------------------------------------------------------
(* The gate's life in its container.                                         *)

(* A job goes on from one of its own places to another. *)
LEMMA OwnStep ==
  ASSUME S!SandboxAssumption, SandboxInv, NEW j \in Jobs,
         NEW x \in Working \cup {"prepare", "cleanup", "finish", "release"},
         place[j] \in Leased, place[j] # "sweep", place[j] # "cleanup" \/ j \notin open,
         place' = [place EXCEPT ![j] = x], UNCHANGED <<S!leaseVars, sweep, target>>,
         JobTypes', \A k \in Jobs : k # j => Rest(k), JobInv(j)'
  PROVE  SandboxInv'
<1>1. j \in S!Users /\ j \notin Procs
  BY Homes
<1>2. place'[j] = x /\ x \in Leased /\ \A v \in S!Users : v # j => place'[v] = place[v]
  BY <1>1 DEF SandboxInv, UserTypes, Leased
<1>3. UNCHANGED <<server, port, turn>>
  BY DEF S!leaseVars
<1>4. UserTypes'
  <2>1. place' \in [S!Users -> SandboxPlaces]
    BY <1>1, <1>2 DEF SandboxInv, UserTypes, SandboxPlaces
  <2>2. \A p \in Procs : place'[p] = place[p]
    BY <1>1, <1>2, Homes
  <2> QED BY <1>3, <2>1, <2>2 DEF SandboxInv, UserTypes
<1>5. \A k \in Jobs : JobInv(k)'
  <2> SUFFICES ASSUME NEW k \in Jobs, k # j PROVE JobInv(k)'
    OBVIOUS
  <2>1. k \in S!Users
    BY Homes
  <2> QED BY <1>2, <2>1, SameKeeps DEF SandboxInv
<1>6. WalkInv(j)'
  <2>1. sweep[j] = {} /\ target[j] = S!NoTarget
    BY <1>1, NothingAimed
  <2> QED BY <2>1 DEF WalkInv, S!NoTarget
<1> QED BY <1>1, <1>2, <1>3, <1>4, <1>5, <1>6, UserStep

(* It goes to its cleanup with everything as it was. *)
LEMMA Gives ==
  ASSUME NEW j \in Jobs, JobInv(j), place[j] \in Working \cup {"prepare"}, place'[j] = "cleanup", Rest(j)
  PROVE  JobInv(j)'
<1>1. EngineInv(j)'
  BY DEF JobInv, EngineInv, Rest, Over
<1>2. JobWorkInv(j)'
  BY DEF JobInv, JobWorkInv, Rest, Working
<1>3. VerdictInv(j)'
  BY DEF JobInv, JobWorkInv, VerdictInv, Rest, Over, Working
<1> QED BY <1>1, <1>2, <1>3 DEF JobInv

LEMMA GivesUp ==
  ASSUME S!SandboxAssumption, SandboxInv, NEW j \in Jobs, place[j] \in Working \cup {"prepare"},
         S!Go(j, "cleanup"), UNCHANGED <<S!leaseVars, S!notes, S!engine, sweep, target, verdict, out>>
  PROVE  SandboxInv'
<1>1. \A k \in Jobs : Rest(k)
  BY DEF S!notes, S!engine, Rest, Asked
<1>2. place'[j] = "cleanup"
  BY Homes DEF S!Go, SandboxInv, UserTypes
<1>3. JobInv(j)'
  BY <1>1, <1>2, Gives DEF SandboxInv
<1>4. JobTypes'
  BY DEF SandboxInv, JobTypes, S!notes, S!engine
<1>5. place[j] \in Leased /\ place[j] # "sweep" /\ place[j] # "cleanup"
  BY DEF Leased, Working
<1> QED BY <1>1, <1>3, <1>4, <1>5, OwnStep DEF S!Go

(* The record is written for what the job is about to ask for. *)
Noted(from, r, next) ==
  \/ from = "volume" /\ next = "create_volume" /\ r = [state |-> "volume_create_pending", named |-> FALSE]
  \/ from = "container" /\ next = "create_container"
     /\ r = [state |-> "container_create_pending", named |-> FALSE]
  \/ from = "note_volume" /\ next = "container" /\ r = S!Ready
  \/ from = "note_container" /\ next = "copy" /\ r = [state |-> "container_ready", named |-> TRUE]

LEMMA RecordForms ==
  /\ S!Ready \in Records /\ S!Ready # S!NoRecord
  /\ \A s \in {"volume_create_pending", "container_create_pending", "container_ready"}, b \in BOOLEAN :
       [state |-> s, named |-> b] \in Records /\ [state |-> s, named |-> b] # S!NoRecord
BY DEF S!Ready, S!NoRecord, Records

LEMMA Notes ==
  ASSUME NEW j \in Jobs, JobInv(j), NEW r, NEW next, Noted(place[j], r, next),
         place'[j] \in {next, "cleanup"}, record'[j] = r, UNCHANGED <<open, S!engine, verdict, out>>
  PROVE  JobInv(j)'
<1>1. /\ ~Asked(j, "volume") /\ ~Asked(j, "container") /\ late' = late /\ vol' = vol /\ cid' = cid
      /\ ctr'[j] = ctr[j] /\ gate'[j] = gate[j] /\ verdict'[j] = verdict[j] /\ out'[j] = out[j]
      /\ verdict[j] = "none" /\ out[j] = "none" /\ j \in open /\ j \in open'
      /\ r # S!NoRecord
  BY RecordForms DEF JobInv, EngineInv, JobWorkInv, VerdictInv, Noted, S!engine, Over, Working, Asked
<1>2. EngineInv(j)'
  BY <1>1 DEF JobInv, EngineInv, JobWorkInv, Noted, S!Ready, Asked
<1>3. JobWorkInv(j)'
  BY <1>1 DEF JobInv, JobWorkInv, Noted, S!Ready, Working
<1>4. VerdictInv(j)'
  BY <1>1 DEF JobInv, VerdictInv, Noted
<1> QED BY <1>2, <1>3, <1>4 DEF JobInv

LEMMA AnnounceStep ==
  ASSUME S!SandboxAssumption, SandboxInv, NEW j \in Jobs, NEW from, NEW r, NEW next,
         Noted(from, r, next), S!Announce(j, from, r, next)
  PROVE  SandboxInv'
<1>1. /\ place[j] = from /\ from \in Working /\ next \in Working /\ r \in Records
      /\ UNCHANGED <<S!leaseVars, sweep, target, verdict, out>>
  BY RecordForms DEF S!Announce, Noted, Working, S!walk
<1>2. CASE S!Go(j, "cleanup") /\ UNCHANGED <<S!notes, S!engine>>
  BY <1>1, <1>2, GivesUp
<1>3. CASE \E x \in {next, "cleanup"} : S!Write(j, r) /\ S!Go(j, x) /\ UNCHANGED <<open, S!engine>>
  <2>1. PICK x \in {next, "cleanup"} : S!Write(j, r) /\ S!Go(j, x) /\ UNCHANGED <<open, S!engine>>
    BY <1>3
  <2>2. place'[j] = x
    BY <2>1, Homes DEF S!Go, SandboxInv, UserTypes
  <2>3. record'[j] = r /\ \A k \in Jobs : k # j => record'[k] = record[k]
    BY <2>1 DEF S!Write, SandboxInv, JobTypes
  <2>4. \A k \in Jobs : k # j => Rest(k)
    BY <1>1, <2>1, <2>3 DEF S!engine, Rest, Asked
  <2>5. JobTypes'
    BY <1>1, <2>1 DEF S!Write, SandboxInv, JobTypes, S!engine
  <2>6. JobInv(j)'
    BY <1>1, <2>1, <2>2, <2>3, Notes DEF SandboxInv
  <2>7. place[j] \in Leased /\ place[j] # "sweep" /\ place[j] # "cleanup"
    BY <1>1 DEF Leased, Working
  <2> QED BY <1>1, <2>1, <2>4, <2>5, <2>6, <2>7, OwnStep DEF S!Go
<1>4. CASE S!Go(j, "cleanup") /\ UNCHANGED <<record, torn, open, S!engine>>
  <2>1. UNCHANGED S!notes
    BY <1>4 DEF S!notes
  <2> QED BY <1>1, <1>4, <2>1, GivesUp
<1> QED BY <1>2, <1>3, <1>4 DEF S!Announce, S!WriteFails

LEMMA AnnouncesSteps ==
  ASSUME S!SandboxAssumption, SandboxInv, NEW j \in Jobs,
         S!AnnounceVolume(j) \/ S!AnnounceContainer(j) \/ S!NoteVolume(j) \/ S!NoteContainer(j)
  PROVE  SandboxInv'
<1>1. CASE S!AnnounceVolume(j)
  <2> DEFINE r == [state |-> "volume_create_pending", named |-> FALSE]
  <2>1. Noted("volume", r, "create_volume")
    BY DEF Noted
  <2> QED BY <1>1, <2>1, AnnounceStep DEF S!AnnounceVolume
<1>2. CASE S!AnnounceContainer(j)
  <2> DEFINE r == [state |-> "container_create_pending", named |-> FALSE]
  <2>1. Noted("container", r, "create_container")
    BY DEF Noted
  <2> QED BY <1>2, <2>1, AnnounceStep DEF S!AnnounceContainer
<1>3. CASE S!NoteVolume(j)
  <2>1. Noted("note_volume", S!Ready, "container")
    BY DEF Noted
  <2> QED BY <1>3, <2>1, AnnounceStep DEF S!NoteVolume
<1>4. CASE S!NoteContainer(j)
  <2> DEFINE r == [state |-> "container_ready", named |-> TRUE]
  <2>1. Noted("note_container", r, "copy")
    BY DEF Noted
  <2> QED BY <1>4, <2>1, AnnounceStep DEF S!NoteContainer
<1> QED BY <1>1, <1>2, <1>3, <1>4


LEMMA PrepareStep ==
  ASSUME S!SandboxAssumption, SandboxInv, NEW j \in Jobs, S!Prepare(j)
  PROVE  SandboxInv'
<1>1. /\ place[j] = "prepare" /\ JobInv(j) /\ JobTypes /\ place[j] \in Leased
      /\ UNCHANGED <<S!leaseVars, S!engine, sweep, target, verdict, out>>
      /\ j \in S!Users
  BY Homes DEF S!Prepare, SandboxInv, S!walk, Leased
<1>2. PICK x \in {"cleanup", "volume"} :
        /\ S!Go(j, x)
        /\ record' = record \/ record' = [record EXCEPT ![j] = S!Ready]
        /\ open' = open \/ (open' = open \cup {j})
        /\ x = "volume" => record' = [record EXCEPT ![j] = S!Ready] /\ open' = open \cup {j}
  BY DEF S!Prepare, S!Write
<1>3. place'[j] = x
  BY <1>1, <1>2 DEF S!Go, SandboxInv, UserTypes
<1>4. /\ record'[j] \in {record[j], S!Ready} /\ \A k \in Jobs : k # j => record'[k] = record[k]
      /\ x = "volume" => record'[j] = S!Ready /\ j \in open'
  BY <1>1, <1>2 DEF JobTypes
<1>5. \A k \in Jobs : k # j => Rest(k)
  BY <1>1, <1>2, <1>4 DEF S!engine, Rest, Asked
<1>6. JobTypes'
  BY <1>1, <1>2, RecordForms DEF JobTypes, S!engine
<1>7. /\ record[j] = S!NoRecord /\ ctr[j] = "none" /\ j \notin vol /\ j \notin cid
      /\ ~Asked(j, "volume") /\ ~Asked(j, "container") /\ verdict[j] = "none" /\ out[j] = "none"
  BY <1>1 DEF JobInv, EngineInv, JobWorkInv, VerdictInv, Over
<1>8. /\ ctr'[j] = "none" /\ j \notin vol' /\ j \notin cid'
      /\ ~Asked(j, "volume")' /\ ~Asked(j, "container")' /\ verdict'[j] = "none" /\ out'[j] = "none"
  BY <1>1, <1>7 DEF S!engine, Asked
<1>9. JobInv(j)'
  <2>1. EngineInv(j)'
    BY <1>8 DEF EngineInv
  <2>2. JobWorkInv(j)'
    BY <1>3, <1>4, <1>8, RecordForms DEF JobWorkInv, Working
  <2>3. VerdictInv(j)'
    BY <1>3, <1>8 DEF VerdictInv
  <2> QED BY <2>1, <2>2, <2>3 DEF JobInv
<1> QED BY <1>1, <1>2, <1>5, <1>6, <1>9, OwnStep DEF S!Go, Working

(* What a job at one of the two requests has: nothing of what it asks for. *)
LEMMA AtRequest ==
  ASSUME SandboxInv, NEW j \in Jobs, place[j] \in {"create_volume", "create_container"}
  PROVE  /\ j \in open /\ out[j] = "none" /\ verdict[j] = "none" /\ ctr[j] = "none" /\ j \notin cid
         /\ ~Asked(j, "volume") /\ ~Asked(j, "container")
         /\ record[j] # S!NoRecord /\ ~record[j].named
         /\ place[j] = "create_volume" => record[j].state = "volume_create_pending" /\ j \notin vol
         /\ place[j] = "create_container" => record[j].state = "container_create_pending"
         /\ place[j] \in Leased /\ place[j] # "sweep" /\ place[j] # "cleanup"
<1>1. JobInv(j)
  BY DEF SandboxInv
<1> QED BY <1>1, RecordForms DEF JobInv, EngineInv, JobWorkInv, VerdictInv, Working, Over, Leased

LEMMA WithdrawStep ==
  ASSUME S!SandboxAssumption, SandboxInv, NEW j \in Jobs, S!Withdraw(j)
  PROVE  SandboxInv'
<1>1. /\ place[j] \in {"create_volume", "create_container"} /\ JobTypes
      /\ UNCHANGED <<S!leaseVars, torn, open, S!engine, sweep, target, verdict, out>>
      /\ record' = [record EXCEPT ![j] = S!Ready] /\ S!Go(j, "cleanup")
  BY DEF S!Withdraw, SandboxInv, S!walk, S!Write
<1>2. place'[j] = "cleanup"
  BY <1>1, Homes DEF S!Go, SandboxInv, UserTypes
<1>3. record'[j] = S!Ready /\ \A k \in Jobs : k # j => record'[k] = record[k]
  BY <1>1 DEF JobTypes
<1>4. \A k \in Jobs : k # j => Rest(k)
  BY <1>1, <1>3 DEF S!engine, Rest, Asked
<1>5. JobTypes'
  BY <1>1, RecordForms DEF JobTypes, S!engine
<1>6. /\ ctr'[j] = "none" /\ ~Asked(j, "volume")' /\ ~Asked(j, "container")'
      /\ verdict'[j] = "none" /\ out'[j] = "none" /\ record'[j] # S!NoRecord
  BY <1>1, <1>3, AtRequest, RecordForms DEF S!engine, Asked
<1>7. JobInv(j)'
  BY <1>2, <1>6 DEF JobInv, EngineInv, JobWorkInv, VerdictInv, Working
<1> QED BY <1>1, <1>4, <1>5, <1>7, AtRequest, OwnStep DEF S!Go

(* The engine did, will do, or never does what was asked for. *)
LEMMA RequestSteps ==
  ASSUME S!SandboxAssumption, SandboxInv, NEW j \in Jobs,
         S!CreateVolume(j) \/ S!CreateContainer(j) \/ S!CutOff(j)
  PROVE  SandboxInv'
<1>1. /\ place[j] \in {"create_volume", "create_container"} /\ JobTypes
      /\ UNCHANGED <<S!leaseVars, S!notes, gate, sweep, target, verdict, out>>
  BY DEF S!CreateVolume, S!CreateContainer, S!CutOff, SandboxInv, S!walk
<1>2. PICK x \in {"cleanup", "note_volume", "note_container"} :
        /\ S!Go(j, x)
        /\ x = "note_volume" => place[j] = "create_volume" /\ UNCHANGED <<ctr, cid, late>>
        /\ x = "note_container" => place[j] = "create_container" /\ UNCHANGED late
  BY DEF S!CreateVolume, S!CreateContainer, S!CutOff
<1>3. place'[j] = x
  BY <1>2, Homes DEF S!Go, SandboxInv, UserTypes
<1>4. CASE /\ place[j] = "create_volume" /\ UNCHANGED <<ctr, cid>>
           /\ \/ (vol' = vol \cup {j}) /\ late' = late
              \/ vol' = vol /\ x = "cleanup" /\ late' \in {late, late \cup {<<j, "volume">>}}
  <2>1. \A k \in Jobs : k # j => Rest(k)
    BY <1>1, <1>4 DEF S!notes, Rest, Asked
  <2>2. JobTypes'
    BY <1>1, <1>4 DEF JobTypes, S!notes
  <2>3. /\ ctr'[j] = "none" /\ ~Asked(j, "container")' /\ j \notin cid' /\ j \in open'
        /\ Asked(j, "volume")' => j \notin vol' /\ x = "cleanup"
        /\ verdict'[j] = "none" /\ out'[j] = "none" /\ record'[j] # S!NoRecord
        /\ record'[j].state = "volume_create_pending"
        /\ x # "note_container"
    BY <1>1, <1>2, <1>4, AtRequest DEF Asked, S!notes
  <2>4. JobInv(j)'
    BY <1>3, <2>3 DEF JobInv, EngineInv, JobWorkInv, VerdictInv, Working, Over
  <2> QED BY <1>1, <1>2, <2>1, <2>2, <2>4, AtRequest, OwnStep DEF S!Go, Working
<1>5. CASE /\ place[j] = "create_container" /\ vol' = vol
           /\ \/ /\ ctr' = [ctr EXCEPT ![j] = "created"] /\ late' = late
                 /\ cid' \in {cid, cid \cup {j}}
              \/ UNCHANGED <<ctr, cid>> /\ x = "cleanup" /\ late' \in {late, late \cup {<<j, "container">>}}
  <2>1. ctr'[j] \in {"none", "created"} /\ \A k \in Jobs : k # j => ctr'[k] = ctr[k]
    BY <1>1, <1>5, AtRequest DEF JobTypes
  <2>2. \A k \in Jobs : k # j => Rest(k)
    BY <1>1, <1>5, <2>1 DEF S!notes, Rest, Asked
  <2>3. JobTypes'
    BY <1>1, <1>5 DEF JobTypes, S!notes
  <2>4. /\ ~Asked(j, "volume")' /\ j \in open'
        /\ Asked(j, "container")' => j \notin cid' /\ ctr'[j] = "none" /\ x = "cleanup"
        /\ verdict'[j] = "none" /\ out'[j] = "none" /\ record'[j] # S!NoRecord
        /\ record'[j].state = "container_create_pending" /\ ~record'[j].named
        /\ x # "note_volume"
    BY <1>1, <1>2, <1>5, AtRequest DEF Asked, S!notes
  <2>5. JobInv(j)'
    BY <1>3, <2>4 DEF JobInv, EngineInv, JobWorkInv, VerdictInv, Working, Over
  <2> QED BY <1>1, <1>2, <2>2, <2>3, <2>5, AtRequest, OwnStep DEF S!Go, Working
<1>6. CASE S!CreateVolume(j)
  <2>1. place[j] = "create_volume" /\ UNCHANGED <<ctr, cid>> /\ late' = late
    BY <1>6 DEF S!CreateVolume
  <2> QED BY <1>4, <1>6, <2>1 DEF S!CreateVolume
<1>7. CASE S!CreateContainer(j)
  BY <1>5, <1>7 DEF S!CreateContainer
<1>8. CASE S!CutOff(j)
  <2>1. x = "cleanup"
    BY <1>3, <1>8, Homes DEF S!CutOff, S!Go, SandboxInv, UserTypes
  <2>2. CASE place[j] = "create_volume"
    BY <1>4, <1>8, <2>1, <2>2 DEF S!CutOff
  <2>3. CASE place[j] = "create_container"
    BY <1>5, <1>8, <2>1, <2>3 DEF S!CutOff
  <2> QED BY <1>1, <2>2, <2>3
<1> QED BY <1>6, <1>7, <1>8


(* A job at work in its container, whose container alone may change. *)
LEMMA WorkSteps ==
  ASSUME S!SandboxAssumption, SandboxInv, NEW j \in Jobs, S!Copy(j) \/ S!Start(j) \/ S!Attached(j)
  PROVE  SandboxInv'
<1>1. /\ place[j] \in {"copy", "start", "attached"} /\ JobTypes /\ JobInv(j) /\ place[j] \in Working
      /\ place[j] \in Leased /\ place[j] # "sweep" /\ place[j] # "cleanup"
      /\ UNCHANGED <<S!leaseVars, S!notes, cid, vol, late, gate, sweep, target, verdict, out>>
  BY DEF S!Copy, S!Start, S!Attached, SandboxInv, S!walk, Working, Leased, S!engine
<1>2. CASE S!Go(j, "cleanup") /\ UNCHANGED ctr
  <2>1. UNCHANGED <<S!leaseVars, S!notes, S!engine, sweep, target, verdict, out>>
    BY <1>1, <1>2 DEF S!engine
  <2> QED BY <1>1, <1>2, <2>1, GivesUp
<1>3. CASE \E x \in {"start", "attached", "collect"} :
             /\ S!Go(j, x)
             /\ x = "start" => UNCHANGED ctr
             /\ x = "attached" => place[j] = "start" /\ ctr' = [ctr EXCEPT ![j] = "running"]
             /\ x = "collect" => UNCHANGED ctr /\ ctr[j] = "exited" /\ gate[j] \in S!Published
  <2>1. PICK x \in {"start", "attached", "collect"} :
             /\ S!Go(j, x)
             /\ x = "start" => UNCHANGED ctr
             /\ x = "attached" => place[j] = "start" /\ ctr' = [ctr EXCEPT ![j] = "running"]
             /\ x = "collect" => UNCHANGED ctr /\ ctr[j] = "exited" /\ gate[j] \in S!Published
    BY <1>3
  <2>2. place'[j] = x
    BY <2>1, Homes DEF S!Go, SandboxInv, UserTypes
  <2>3. /\ x = "attached" => ctr'[j] = "running"
        /\ x # "attached" => ctr'[j] = ctr[j]
        /\ \A k \in Jobs : k # j => ctr'[k] = ctr[k]
    BY <1>1, <2>1 DEF JobTypes
  <2>4. \A k \in Jobs : k # j => Rest(k)
    BY <1>1, <2>3 DEF S!notes, Rest, Asked
  <2>5. JobTypes'
    BY <1>1, <2>1 DEF JobTypes, S!notes
  <2>6. /\ record[j] # S!NoRecord /\ record[j].state \in {"container_create_pending", "container_ready"}
        /\ ~Asked(j, "volume") /\ ~Asked(j, "container")
        /\ j \in open /\ out[j] = "none" /\ verdict[j] = "none"
    BY <1>1 DEF JobInv, EngineInv, JobWorkInv, VerdictInv, Over, Working
  <2>7. /\ record'[j] # S!NoRecord /\ record'[j].state \in {"container_create_pending", "container_ready"}
        /\ ~Asked(j, "volume")' /\ ~Asked(j, "container")'
        /\ j \in open' /\ out'[j] = "none" /\ verdict'[j] = "none" /\ gate'[j] = gate[j]
    BY <1>1, <2>6 DEF S!notes, Asked
  <2>8. JobInv(j)'
    BY <2>1, <2>2, <2>3, <2>7 DEF JobInv, EngineInv, JobWorkInv, VerdictInv, Working
  <2> QED BY <1>1, <2>1, <2>4, <2>5, <2>8, OwnStep DEF S!Go, Working
<1>4. CASE S!Copy(j)
  BY <1>2, <1>3, <1>4 DEF S!Copy, S!engine
<1>5. CASE S!Start(j)
  BY <1>2, <1>3, <1>5 DEF S!Start
<1>6. CASE S!Attached(j)
  BY <1>2, <1>3, <1>6 DEF S!Attached, S!engine
<1> QED BY <1>4, <1>5, <1>6

LEMMA CollectStep ==
  ASSUME S!SandboxAssumption, SandboxInv, NEW j \in Jobs, S!Collect(j)
  PROVE  SandboxInv'
<1>1. /\ place[j] = "collect" /\ JobTypes /\ JobInv(j) /\ place[j] \in Working
      /\ place[j] \in Leased
      /\ UNCHANGED <<S!leaseVars, S!notes, S!engine, sweep, target, out>>
      /\ S!Go(j, "cleanup")
  BY DEF S!Collect, SandboxInv, S!walk, Working, Leased
<1>2. CASE verdict' = verdict
  BY <1>1, <1>2, GivesUp
<1>3. CASE verdict' = [verdict EXCEPT ![j] = gate[j]]
  <2>1. place'[j] = "cleanup"
    BY <1>1, Homes DEF S!Go, SandboxInv, UserTypes
  <2>2. verdict'[j] = gate[j] /\ \A k \in Jobs : k # j => verdict'[k] = verdict[k]
    BY <1>1, <1>3 DEF JobTypes
  <2>3. \A k \in Jobs : k # j => Rest(k)
    BY <1>1, <2>2 DEF S!notes, S!engine, Rest, Asked
  <2>4. /\ record[j] # S!NoRecord /\ record[j].state \in {"container_create_pending", "container_ready"}
        /\ ~Asked(j, "volume") /\ ~Asked(j, "container") /\ gate[j] \in {"passed", "failed"}
        /\ j \in open /\ out[j] = "none" /\ ctr[j] = "exited"
    BY <1>1 DEF JobInv, EngineInv, JobWorkInv, VerdictInv, Over, Working, S!Published
  <2>5. JobTypes'
    BY <1>1, <1>3, <2>4 DEF JobTypes, S!notes, S!engine
  <2>6. /\ record'[j] = record[j] /\ ~Asked(j, "volume")' /\ ~Asked(j, "container")'
        /\ j \in open' /\ out'[j] = "none" /\ ctr'[j] = "exited" /\ gate'[j] = gate[j]
    BY <1>1, <2>4 DEF S!notes, S!engine, Asked
  <2>7. JobInv(j)'
    BY <2>1, <2>2, <2>4, <2>6 DEF JobInv, EngineInv, JobWorkInv, VerdictInv, Over, Working
  <2> QED BY <1>1, <2>3, <2>5, <2>7, OwnStep DEF S!Go
<1> QED BY <1>2, <1>3 DEF S!Collect

(* A job without a handle has no verdict. *)
LEMMA CleanWithoutHandleStep ==
  ASSUME S!SandboxAssumption, SandboxInv, NEW j \in Jobs, S!CleanWithoutHandle(j)
  PROVE  SandboxInv'
<1>1. /\ place[j] = "cleanup" /\ j \notin open /\ JobTypes /\ JobInv(j) /\ place[j] \in Leased
      /\ UNCHANGED <<S!leaseVars, S!notes, S!engine, sweep, target, verdict, out>>
      /\ S!Go(j, "finish")
  BY DEF S!CleanWithoutHandle, SandboxInv, S!walk, Leased
<1>2. place'[j] = "finish"
  BY <1>1, Homes DEF S!Go, SandboxInv, UserTypes
<1>3. \A k \in Jobs : Rest(k)
  BY <1>1 DEF S!notes, S!engine, Rest, Asked
<1>4. JobInv(j)'
  <2>1. verdict[j] = "none" /\ out[j] # "exit"
    BY <1>1 DEF JobInv, VerdictInv
  <2>2. EngineInv(j)'
    BY <1>1, <1>2, <1>3 DEF JobInv, EngineInv, Rest, Over
  <2>3. JobWorkInv(j)' /\ VerdictInv(j)'
    BY <1>2, <1>3, <2>1 DEF Rest, JobWorkInv, VerdictInv, Working
  <2> QED BY <2>2, <2>3 DEF JobInv
<1>5. JobTypes'
  BY <1>1 DEF JobTypes, S!notes, S!engine
<1> QED BY <1>1, <1>3, <1>4, <1>5, OwnStep DEF S!Go

(* The exit is told last, and only after everything else has gone well. *)
LEMMA FinishStep ==
  ASSUME S!SandboxAssumption, SandboxInv, NEW j \in Jobs, S!Finish(j)
  PROVE  SandboxInv'
<1>1. /\ place[j] = "finish" /\ JobTypes /\ JobInv(j) /\ place[j] \in Leased
      /\ UNCHANGED <<S!leaseVars, record, S!engine, sweep, target, verdict>>
      /\ S!Go(j, "release") /\ open' = open \ {j}
  BY DEF S!Finish, SandboxInv, S!walk, Leased
<1>2. PICK what \in {"terminal", "unproven", "failure", "exit"} :
        /\ out' = [out EXCEPT ![j] = what]
        /\ what = "exit" => out[j] # "unproven" /\ verdict[j] \in S!Published
  BY DEF S!Finish, S!Tell
<1>3. place'[j] = "release"
  BY <1>1, Homes DEF S!Go, SandboxInv, UserTypes
<1>4. out'[j] = what /\ \A k \in Jobs : k # j => out'[k] = out[k]
  BY <1>1, <1>2 DEF JobTypes
<1>5. \A k \in Jobs : k # j => Rest(k)
  BY <1>1, <1>4 DEF S!engine, Rest, Asked
<1>6. JobTypes'
  BY <1>1, <1>2 DEF JobTypes, S!engine
<1>7. JobInv(j)'
  <2>1. /\ record'[j] = record[j] /\ ctr'[j] = ctr[j] /\ vol' = vol /\ cid' = cid /\ late' = late
        /\ gate'[j] = gate[j] /\ verdict'[j] = verdict[j]
    BY <1>1 DEF S!engine
  <2>2. EngineInv(j)'
    BY <1>1, <1>3, <2>1 DEF JobInv, EngineInv, Asked, Over
  <2>3. JobWorkInv(j)'
    BY <1>3 DEF JobWorkInv, Working
  <2>4. what = "exit" => record[j] = S!NoRecord /\ verdict[j] # "none" /\ verdict[j] = gate[j]
    BY <1>1, <1>2 DEF JobInv, VerdictInv, S!Published
  <2>5. VerdictInv(j)'
    BY <1>1, <1>3, <1>4, <2>1, <2>4 DEF JobInv, VerdictInv, Over
  <2> QED BY <2>2, <2>3, <2>5 DEF JobInv
<1> QED BY <1>1, <1>5, <1>6, <1>7, OwnStep DEF S!Go

LEMMA ExecuteStep ==
  ASSUME S!SandboxAssumption, SandboxInv, NEW j \in Jobs, S!Execute(j)
  PROVE  SandboxInv'
BY PrepareStep, AnnouncesSteps, WithdrawStep, RequestSteps, WorkSteps, CollectStep, CleanWithoutHandleStep,
   FinishStep DEF S!Execute


-----------------------------------------------------------------------------
(* Reconciliation.                                                           *)

(* What a user has aimed at is of a job that is over, or its own. *)
LEMMA AimedAt ==
  ASSUME S!SandboxAssumption, SandboxInv, NEW u \in S!Users, target[u].job # Nobody
  PROVE  /\ Aimed(u) /\ target[u].job \in Jobs /\ target[u].job \in S!Users
         /\ place[u] \in {"sweep", "cleanup"} /\ place[u] \in Leased
         /\ place[u] = "sweep" => place[target[u].job] = "done"
         /\ place[target[u].job] \in {"cleanup", "done"}
         /\ place[u] = "cleanup" => target[u].job = u /\ u \in open
<1>1. target[u] # S!NoTarget
  BY DEF S!NoTarget
<1>2. Aimed(u)
  BY <1>1 DEF SandboxInv, WalkInv
<1>3. target[u].job \in S!Users
  BY <1>2, Homes DEF Aimed
<1>4. place[u] \in {"sweep", "cleanup"} /\ place[u] \in Leased
  BY <1>2 DEF Aimed, Leased
<1> QED BY <1>2, <1>3, <1>4 DEF Aimed, SandboxInv, WalkInv

(* A user that reconciles the job j and goes on with it. *)
LEMMA AimStep ==
  ASSUME S!SandboxAssumption, SandboxInv, NEW u \in S!Users, NEW j \in Jobs, NEW where \in {"look", "container", "volume", "complete"},
         place[u] \in {"sweep", "cleanup"},
         S!Aim(u, j, where), UNCHANGED <<S!leaseVars, place, sweep>>,
         JobTypes', \A k \in Jobs : k # j => Rest(k), JobInv(j)',
         \A k \in sweep[u] : record'[k] # S!NoRecord,
         Aimed(u)'
  PROVE  SandboxInv'
<1>1. [job |-> j, at |-> where] \in Targets
  BY DEF Targets
<1>2. target' \in [S!Users -> Targets] /\ \A v \in S!Users : v # u => target'[v] = target[v]
  BY <1>1 DEF S!Aim, SandboxInv, UserTypes
<1>3. UserTypes' /\ UNCHANGED <<server, port, turn>>
  BY <1>2 DEF SandboxInv, UserTypes, S!leaseVars
<1>4. \A k \in Jobs : JobInv(k)'
  BY SameKeeps DEF SandboxInv
<1>5. WalkInv(u)'
  BY DEF SandboxInv, WalkInv
<1>6. place[u] \in Leased /\ place'[u] \in Leased
  BY DEF Leased
<1>7. \A v \in S!Users : v # u => place'[v] = place[v] /\ sweep'[v] = sweep[v] /\ target'[v] = target[v]
  BY <1>2
<1>8. JobTypes'
  OBVIOUS
<1> QED BY <1>3, <1>4, <1>5, <1>6, <1>7, <1>8, UserStep

(* A user that is done with the job j. *)
LEMMA SettleStep ==
  ASSUME S!SandboxAssumption, SandboxInv, NEW u \in S!Users, NEW j \in Jobs, NEW how \in {"removed", "pending", "thrown"},
         target[u].job = j, S!Settle(u, how), UNCHANGED S!leaseVars, UNCHANGED <<ctr, vol, late, open, gate, verdict>>,
         JobTypes',
         IF how = "removed" THEN record' = [record EXCEPT ![j] = S!NoRecord] /\ cid' = cid \ {j}
                            ELSE UNCHANGED <<record, cid>>,
         how = "removed" => target[u].at = "complete"
  PROVE  SandboxInv'
<1>0. j # Nobody /\ JobTypes /\ JobInv(j)
  BY Homes DEF SandboxInv
<1>1. /\ Aimed(u) /\ j \in S!Users /\ place[u] \in {"sweep", "cleanup"} /\ place[u] \in Leased
      /\ place[u] = "sweep" => place[j] = "done"
      /\ place[j] \in {"cleanup", "done"}
      /\ place[u] = "cleanup" => j = u /\ u \in open
  BY <1>0, AimedAt
<1>2. /\ \A k \in Jobs : k # j => record'[k] = record[k] /\ (k \in cid' <=> k \in cid)
      /\ how = "removed" => record'[j] = S!NoRecord /\ j \notin cid'
      /\ how # "removed" => record'[j] = record[j] /\ (j \in cid' <=> j \in cid)
  BY <1>0 DEF JobTypes
<1>3. how = "removed" => ctr[j] = "none" /\ j \notin vol /\ ~Asked(j, "volume") /\ ~Asked(j, "container")
  BY <1>1 DEF Aimed
<1>4. target'[u] = S!NoTarget /\ \A v \in S!Users : v # u => target'[v] = target[v]
  BY DEF S!Settle, SandboxInv, UserTypes
<1>5. target' \in [S!Users -> Targets]
  <2>1. S!NoTarget \in Targets
    BY DEF S!NoTarget, Targets
  <2> QED BY <2>1 DEF S!Settle, SandboxInv, UserTypes
<1>6. UNCHANGED <<server, port, turn>>
  BY DEF S!leaseVars
<1>7. CASE place[u] = "sweep"
  <2>1. place' = place /\ out' = out /\ sweep' = [sweep EXCEPT ![u] = @ \ {j}]
    BY <1>7 DEF S!Settle
  <2>2. sweep'[u] = sweep[u] \ {j} /\ \A v \in S!Users : v # u => sweep'[v] = sweep[v]
    BY <2>1 DEF SandboxInv, UserTypes
  <2>3. UserTypes'
    BY <2>1, <1>5, <1>6 DEF SandboxInv, UserTypes
  <2>4. \A k \in Jobs : k # j => Rest(k)
    BY <1>2, <2>1 DEF Rest, Asked
  <2>5. JobInv(j)'
    <3>1. place'[j] = "done"
      BY <1>1, <1>7, <2>1
    <3>2. EngineInv(j)'
      BY <1>0, <1>2, <1>3, <2>1 DEF JobInv, EngineInv, Asked
    <3>3. JobWorkInv(j)'
      BY <3>1 DEF JobWorkInv, Working
    <3>4. VerdictInv(j)'
      BY <1>0, <1>2, <2>1, <3>1 DEF JobInv, VerdictInv, Over
    <3> QED BY <3>2, <3>3, <3>4 DEF JobInv
  <2>6. \A k \in Jobs : JobInv(k)'
    BY <2>1, <2>4, <2>5, SameKeeps DEF SandboxInv
  <2>7. WalkInv(u)'
    BY <1>2, <1>4, <2>1, <2>2 DEF SandboxInv, WalkInv, UserTypes, S!NoTarget
  <2> QED BY <1>1, <1>4, <1>6, <2>1, <2>2, <2>3, <2>6, <2>7, UserStep
<1>8. CASE place[u] = "cleanup"
  <2>0. j = u /\ place[j] = "cleanup"
    BY <1>1, <1>8
  <2>1. PICK x \in {"cleanup", "finish"}, o \in {out[j], "unproven"} :
          /\ place' = [place EXCEPT ![j] = x] /\ out' = [out EXCEPT ![j] = o] /\ sweep' = sweep
          /\ x = "finish" /\ o # "unproven" => how = "removed"
    <3>1. out = [out EXCEPT ![j] = out[j]] /\ place = [place EXCEPT ![j] = "cleanup"]
      BY <1>0, <2>0 DEF JobTypes, SandboxInv, UserTypes
    <3>2. place[u] # "sweep"
      BY <1>8
    <3>3. CASE how = "removed"
      BY <2>0, <3>1, <3>2, <3>3 DEF S!Settle, S!Go
    <3>4. CASE how = "thrown" /\ tries[u] = 0
      BY <2>0, <3>1, <3>2, <3>4 DEF S!Settle, S!Go
    <3>5. CASE how # "removed" /\ ~(how = "thrown" /\ tries[u] = 0)
      BY <2>0, <3>1, <3>2, <3>5 DEF S!Settle, S!Go, S!Tell
    <3> QED BY <3>3, <3>4, <3>5
  <2>2. place'[j] = x /\ \A v \in S!Users : v # j => place'[v] = place[v]
    BY <1>1, <2>1 DEF SandboxInv, UserTypes
  <2>3. out'[j] = o /\ \A k \in Jobs : k # j => out'[k] = out[k]
    BY <1>0, <2>1 DEF JobTypes
  <2>4. x \in SandboxPlaces /\ x \in Leased
    BY DEF SandboxPlaces, Leased
  <2>5. UserTypes'
    <3>1. place' \in [S!Users -> SandboxPlaces]
      BY <1>1, <2>1, <2>4 DEF SandboxInv, UserTypes
    <3>2. \A p \in Procs : place'[p] = place[p]
      BY <2>2, Homes
    <3> QED BY <1>5, <1>6, <2>1, <3>1, <3>2 DEF SandboxInv, UserTypes
  <2>6. \A k \in Jobs : k # j => Rest(k) /\ place'[k] = place[k]
    BY <1>2, <2>2, <2>3, Homes DEF Rest, Asked
  <2>7. JobInv(j)'
    <3>1. out[j] \in {"none", "unproven"} /\ j \in open
      BY <1>0, <1>1, <1>8, <2>0 DEF JobInv, VerdictInv
    <3>2. EngineInv(j)'
      BY <1>0, <1>2, <1>3, <2>2 DEF JobInv, EngineInv, Asked, Over
    <3>3. JobWorkInv(j)'
      BY <2>2 DEF JobWorkInv, Working
    <3>4. VerdictInv(j)'
      BY <1>0, <1>2, <2>0, <2>1, <2>2, <2>3, <3>1 DEF JobInv, VerdictInv, Over
    <3> QED BY <3>2, <3>3, <3>4 DEF JobInv
  <2>8. \A k \in Jobs : JobInv(k)'
    BY <2>6, <2>7, SameKeeps DEF SandboxInv
  <2>9. WalkInv(u)'
    <3>1. sweep[u] = {}
      BY <1>8 DEF SandboxInv, WalkInv
    <3> QED BY <1>4, <2>1, <3>1 DEF WalkInv, S!NoTarget
  <2> QED BY <1>1, <1>4, <1>6, <2>0, <2>1, <2>2, <2>4, <2>5, <2>8, <2>9, UserStep
<1> QED BY <1>1, <1>7, <1>8


LEMMA ReconcileStep ==
  ASSUME S!SandboxAssumption, SandboxInv, NEW u \in S!Users, S!Reconcile(u)
  PROVE  SandboxInv'
<1>1. PICK j \in Jobs : /\ S!Aim(u, j, "look")
                        /\ \/ place[u] = "sweep" /\ j \in sweep[u]
                           \/ place[u] = "cleanup" /\ j = u /\ j \in open
  <2>1. CASE place[u] = "sweep" /\ \E j \in sweep[u] : S!Aim(u, j, "look")
    BY <2>1 DEF SandboxInv, UserTypes
  <2>2. CASE place[u] = "cleanup" /\ u \in open /\ S!Aim(u, u, "look")
    <3>1. u \in Jobs
      BY <2>2 DEF SandboxInv, UserTypes, S!Users
    <3> QED BY <2>2, <3>1
  <2> QED BY <2>1, <2>2 DEF S!Reconcile
<1>2. UNCHANGED <<S!leaseVars, place, sweep, S!notes, S!engine, verdict, out>>
  BY DEF S!Reconcile
<1>3. \A k \in Jobs : Rest(k)
  BY <1>2 DEF S!notes, S!engine, Rest, Asked
<1>4. JobTypes' /\ JobInv(j)'
  <2>1. JobInv(j)'
    BY <1>2, <1>3, SameKeeps DEF SandboxInv
  <2> QED BY <1>2, <2>1 DEF SandboxInv, JobTypes, S!notes, S!engine
<1>5. target'[u] = [job |-> j, at |-> "look"]
  BY <1>1 DEF S!Aim, SandboxInv, UserTypes
<1>6. Aimed(u)'
  BY <1>1, <1>2, <1>5 DEF Aimed, S!notes
<1>7. \A k \in sweep[u] : record'[k] # S!NoRecord
  BY <1>2 DEF SandboxInv, WalkInv, S!notes
<1> QED BY <1>1, <1>2, <1>3, <1>4, <1>6, <1>7, AimStep

(* What may still come is pending, and whatever has come is found. *)
LEMMA LookAtStep ==
  ASSUME S!SandboxAssumption, SandboxInv, NEW u \in S!Users, NEW j \in Jobs, target[u].job = j, S!Look(u)
  PROVE  SandboxInv'
<1>0. j # Nobody /\ target[u].at = "look" /\ JobTypes
  BY Homes DEF S!Look, SandboxInv
<1>1. /\ j \in Jobs /\ j \in S!Users /\ JobInv(j) /\ Aimed(u)
      /\ place[u] \in {"sweep", "cleanup"} /\ place[j] \in {"cleanup", "done"}
  BY <1>0, AimedAt DEF SandboxInv
<1>2. UNCHANGED <<S!leaseVars, torn, open, S!engine, verdict>>
  BY DEF S!Look
<1>3. UNCHANGED <<ctr, cid, vol, late, gate>>
  BY <1>2 DEF S!engine
<1>4. CASE \E how \in {"pending", "thrown"} : S!Settle(u, how) /\ record' = record
  <2>1. PICK how \in {"pending", "thrown"} : S!Settle(u, how) /\ record' = record
    BY <1>4
  <2>2. JobTypes'
    <3>1. out' \in [Jobs -> {"none", "exit", "failure", "terminal", "unproven", "unavailable", "lost"}]
      BY <1>0, <2>1 DEF S!Settle, S!Tell, JobTypes
    <3> QED BY <1>0, <1>2, <1>3, <2>1, <3>1 DEF JobTypes
  <2>3. how # "removed"
    BY <2>1
  <2>4. UNCHANGED S!leaseVars /\ UNCHANGED <<ctr, vol, late, open, gate, verdict>> /\ UNCHANGED <<record, cid>>
    BY <1>2, <1>3, <2>1
  <2>5. how \in {"removed", "pending", "thrown"}
    BY <2>1
  <2> QED BY <1>1, <2>1, <2>2, <2>3, <2>4, <2>5, SettleStep
<1>5. CASE /\ S!Holds(j) /\ ~S!StillPending(j) /\ UNCHANGED <<place, sweep, out>>
           /\ IF record[j].state \in {"volume_ready", "volume_create_pending"}
              THEN S!Aim(u, j, "volume") /\ record' = record
              ELSE /\ S!Aim(u, j, "container")
                   /\ IF ctr[j] # "none" THEN S!Write(j, [state |-> "container_ready", named |-> TRUE])
                                         ELSE record' = record
  <2>1. ~Asked(j, "volume") /\ ~Asked(j, "container")
    BY <1>1, <1>5 DEF JobInv, EngineInv, S!StillPending, S!Observed
  <2>2. record[j] # S!NoRecord
    BY <1>5 DEF S!Holds
  <2>3. ~Asked(j, "volume")' /\ ~Asked(j, "container")'
    BY <1>3, <2>1 DEF Asked
  <2>4. CASE record[j].state \in {"volume_ready", "volume_create_pending"}
    <3>1. S!Aim(u, j, "volume") /\ record' = record
      BY <1>5, <2>4
    <3>2. \A k \in Jobs : Rest(k)
      BY <1>2, <1>3, <1>5, <3>1 DEF Rest, Asked
    <3>3. ctr[j] = "none"
      BY <1>1, <2>4 DEF JobInv, EngineInv
    <3>4. JobTypes' /\ JobInv(j)'
      <4>1. JobInv(j)'
        BY <1>1, <1>5, <3>2, SameKeeps
      <4> QED BY <1>0, <1>2, <1>3, <1>5, <3>1, <4>1 DEF JobTypes
    <3>5. target'[u] = [job |-> j, at |-> "volume"]
      BY <3>1 DEF S!Aim, SandboxInv, UserTypes
    <3>6. Aimed(u)'
      BY <1>1, <1>2, <1>3, <1>5, <2>3, <3>3, <3>5 DEF Aimed
    <3>7. \A k \in sweep[u] : record'[k] # S!NoRecord
      BY <3>1 DEF SandboxInv, WalkInv
    <3> QED BY <1>1, <1>2, <1>5, <3>1, <3>2, <3>4, <3>6, <3>7, AimStep
  <2>5. CASE record[j].state \notin {"volume_ready", "volume_create_pending"}
    <3>1. /\ S!Aim(u, j, "container")
          /\ record' = record \/ (ctr[j] # "none"
                                  /\ record' = [record EXCEPT ![j] = [state |-> "container_ready", named |-> TRUE]])
      BY <1>5, <2>5 DEF S!Write
    <3>2. /\ \A k \in Jobs : k # j => record'[k] = record[k]
          /\ record'[j] # S!NoRecord
          /\ record'[j] = record[j] \/ record'[j].state = "container_ready"
      <4>1. CASE record' = record
        BY <2>2, <4>1
      <4>2. CASE record' = [record EXCEPT ![j] = [state |-> "container_ready", named |-> TRUE]]
        <5>1. /\ \A k \in Jobs : k # j => record'[k] = record[k]
              /\ record'[j] = [state |-> "container_ready", named |-> TRUE]
          BY <1>0, <4>2 DEF JobTypes
        <5>2. [state |-> "container_ready", named |-> TRUE] # S!NoRecord
          BY DEF S!NoRecord
        <5>3. record'[j] # S!NoRecord
          BY <5>1, <5>2
        <5>4. record'[j].state = "container_ready"
          BY <5>1
        <5> QED BY <5>1, <5>3, <5>4
      <4> QED BY <3>1, <4>1, <4>2
    <3>3. \A k \in Jobs : k # j => Rest(k)
      BY <1>2, <1>3, <1>5, <3>2 DEF Rest, Asked
    <3>4. JobTypes'
      <4>1. record' \in [Jobs -> Records]
        BY <1>0, <3>1, RecordForms DEF JobTypes
      <4> QED BY <1>0, <1>2, <1>3, <1>5, <4>1 DEF JobTypes
    <3>5. JobInv(j)'
      <4>1. place'[j] = place[j] /\ out' = out /\ verdict' = verdict
        BY <1>2, <1>5
      <4>2. EngineInv(j)'
        BY <1>1, <1>3, <2>3, <3>2 DEF JobInv, EngineInv
      <4>3. JobWorkInv(j)'
        BY <1>1, <4>1 DEF JobWorkInv, Working
      <4>4. VerdictInv(j)'
        BY <1>1, <1>2, <1>3, <2>2, <3>2, <4>1 DEF JobInv, VerdictInv
      <4> QED BY <4>2, <4>3, <4>4 DEF JobInv
    <3>6. target'[u] = [job |-> j, at |-> "container"]
      BY <3>1 DEF S!Aim, SandboxInv, UserTypes
    <3>7. Aimed(u)'
      BY <1>1, <1>2, <1>5, <2>3, <3>6 DEF Aimed
    <3>8. \A k \in sweep[u] : record'[k] # S!NoRecord
      BY <3>2 DEF SandboxInv, WalkInv, UserTypes
    <3> QED BY <1>1, <1>2, <1>5, <3>1, <3>3, <3>4, <3>5, <3>7, <3>8, AimStep
  <2> QED BY <2>4, <2>5
<1> QED BY <1>4, <1>5 DEF S!Look

LEMMA LookStep ==
  ASSUME S!SandboxAssumption, SandboxInv, NEW u \in S!Users, S!Look(u)
  PROVE  SandboxInv'
<1>1. target[u].job # Nobody
  BY DEF S!Look
<1>2. target[u].job \in Jobs
  BY <1>1, AimedAt
<1> QED BY <1>2, LookAtStep

LEMMA RemovalAtSteps ==
  ASSUME S!SandboxAssumption, SandboxInv, NEW u \in S!Users, NEW j \in Jobs, target[u].job = j,
         S!RemoveContainer(u) \/ S!RemoveVolume(u)
  PROVE  SandboxInv'
<1>0. j # Nobody /\ JobTypes
  BY Homes DEF SandboxInv
<1>1. /\ j \in Jobs /\ j \in S!Users /\ JobInv(j) /\ Aimed(u)
      /\ place[u] \in {"sweep", "cleanup"} /\ place[j] \in {"cleanup", "done"}
  BY <1>0, AimedAt DEF SandboxInv
<1>2. UNCHANGED <<S!leaseVars, place, S!notes, late, gate, sweep, verdict, out>>
  BY DEF S!RemoveContainer, S!RemoveVolume
<1>3. PICK where \in {"volume", "complete"} :
        /\ S!Aim(u, j, where)
        /\ where = "volume" => ctr' = [ctr EXCEPT ![j] = "none"] /\ cid' = cid \ {j} /\ vol' = vol
        /\ where = "complete" => ctr' = ctr /\ cid' = cid /\ vol' = vol \ {j} /\ target[u].at = "volume"
        /\ target[u].at # "look"
  BY DEF S!RemoveContainer, S!RemoveVolume
<1>4. ~Asked(j, "volume") /\ ~Asked(j, "container")
  BY <1>1, <1>3 DEF Aimed
<1>5. /\ ctr'[j] = "none" /\ \A k \in Jobs : k # j => ctr'[k] = ctr[k]
  <2>1. CASE where = "volume"
    BY <1>0, <1>1, <1>3, <2>1 DEF JobTypes
  <2>2. CASE where = "complete"
    BY <1>1, <1>3, <2>2 DEF Aimed
  <2> QED BY <2>1, <2>2
<1>6. /\ j \in vol' => j \in vol
      /\ j \in cid' => j \in cid
      /\ where = "complete" => j \notin vol'
      /\ \A k \in Jobs : k # j => (k \in vol' <=> k \in vol) /\ (k \in cid' <=> k \in cid)
  BY <1>3
<1>7. \A k \in Jobs : k # j => Rest(k)
  BY <1>2, <1>5, <1>6 DEF S!notes, Rest, Asked
<1>8. JobTypes'
  <2>1. ctr' \in [Jobs -> {"none", "created", "running", "exited"}]
    BY <1>0, <1>3 DEF JobTypes
  <2> QED BY <1>0, <1>2, <2>1 DEF JobTypes, S!notes
<1>9. ~Asked(j, "volume")' /\ ~Asked(j, "container")'
  BY <1>2, <1>4 DEF Asked
<1>10. JobInv(j)'
  <2>1. EngineInv(j)'
    BY <1>1, <1>2, <1>5, <1>6, <1>9 DEF JobInv, EngineInv, S!notes
  <2>2. JobWorkInv(j)'
    BY <1>1, <1>2 DEF JobWorkInv, Working
  <2>3. VerdictInv(j)'
    BY <1>1, <1>2, <1>5 DEF JobInv, VerdictInv, S!notes
  <2> QED BY <2>1, <2>2, <2>3 DEF JobInv
<1>11. target'[u] = [job |-> j, at |-> where]
  BY <1>3 DEF S!Aim, SandboxInv, UserTypes
<1>12. Aimed(u)'
  BY <1>1, <1>2, <1>5, <1>6, <1>9, <1>11 DEF Aimed, S!notes
<1>13. \A k \in sweep[u] : record'[k] # S!NoRecord
  BY <1>2 DEF SandboxInv, WalkInv, S!notes
<1> QED BY <1>1, <1>2, <1>3, <1>7, <1>8, <1>10, <1>12, <1>13, AimStep

LEMMA RemovalSteps ==
  ASSUME S!SandboxAssumption, SandboxInv, NEW u \in S!Users, S!RemoveContainer(u) \/ S!RemoveVolume(u)
  PROVE  SandboxInv'
<1>1. target[u].job # Nobody
  BY DEF S!RemoveContainer, S!RemoveVolume
<1>2. target[u].job \in Jobs
  BY <1>1, AimedAt
<1> QED BY <1>2, RemovalAtSteps

(* The record goes when everything else is gone. *)
LEMMA CompleteStep ==
  ASSUME S!SandboxAssumption, SandboxInv, NEW u \in S!Users, S!Complete(u) \/ S!ReconcileFails(u)
  PROVE  SandboxInv'
<1> DEFINE j == target[u].job
<1>0. j # Nobody /\ JobTypes
  BY Homes DEF S!Complete, S!ReconcileFails, SandboxInv, WalkInv, Aimed
<1>1. j \in Jobs
  BY <1>0, AimedAt
<1>2. UNCHANGED S!leaseVars /\ UNCHANGED <<ctr, vol, late, open, gate, verdict>>
  BY DEF S!Complete, S!ReconcileFails, S!notes, S!engine
<1>3. PICK how \in {"removed", "pending", "thrown"} :
        /\ S!Settle(u, how)
        /\ IF how = "removed" THEN record' = [record EXCEPT ![j] = S!NoRecord] /\ cid' = cid \ {j}
                              ELSE UNCHANGED <<record, cid>>
        /\ how = "removed" => target[u].at = "complete"
  BY DEF S!Complete, S!ReconcileFails, S!Write, S!notes, S!engine
<1>4. JobTypes'
  <2>1. out' \in [Jobs -> {"none", "exit", "failure", "terminal", "unproven", "unavailable", "lost"}]
    BY <1>0, <1>3 DEF S!Settle, S!Tell, JobTypes
  <2>2. S!NoRecord \in Records
    BY DEF S!NoRecord, Records
  <2>3. record' \in [Jobs -> Records]
    BY <1>0, <1>3, <2>2 DEF JobTypes
  <2> QED BY <1>0, <1>2, <2>1, <2>3 DEF JobTypes
<1> HIDE DEF j
<1>5. j = target[u].job
  BY DEF j
<1> QED BY <1>1, <1>2, <1>3, <1>4, <1>5, SettleStep

(* The sweep is over: a job goes on to its record, or is told why not. *)
LEMMA SweptStep ==
  ASSUME S!SandboxAssumption, SandboxInv, NEW u \in S!Users, S!Swept(u)
  PROVE  SandboxInv'
<1>1. /\ place[u] = "sweep" /\ sweep[u] = {} /\ target[u] = S!NoTarget /\ place[u] \in Leased
      /\ UNCHANGED <<S!leaseVars, S!notes, S!engine, sweep, target, verdict>>
      /\ JobTypes
  BY DEF S!Swept, S!walk, Leased, SandboxInv
<1>2. CASE u \in Jobs
  <2>1. PICK x \in {"release", "prepare"}, o \in {"none", "terminal"} :
          /\ S!Go(u, x) /\ out' = [out EXCEPT ![u] = o] /\ (x = "prepare" => o = "none")
    <3>1. u \notin Procs
      BY <1>2, Homes
    <3>2. out[u] = "none"
      BY <1>1, <1>2 DEF SandboxInv, JobInv, JobWorkInv
    <3>3. out = [out EXCEPT ![u] = "none"]
      BY <1>1, <3>2 DEF JobTypes
    <3> QED BY <3>1, <3>3 DEF S!Swept, S!Tell
  <2>2. place'[u] = x /\ \A v \in S!Users : v # u => place'[v] = place[v]
    BY <1>2, <2>1, Homes DEF S!Go, SandboxInv, UserTypes
  <2>3. out'[u] = o /\ \A k \in Jobs : k # u => out'[k] = out[k]
    BY <1>1, <1>2, <2>1 DEF JobTypes
  <2>4. JobTypes'
    BY <1>1, <2>1 DEF JobTypes, S!notes, S!engine
  <2>5. \A k \in Jobs : k # u => Rest(k) /\ place'[k] = place[k]
    BY <1>1, <2>2, <2>3, Homes DEF S!notes, S!engine, Rest, Asked
  <2>6. JobInv(u)'
    <3>1. EngineInv(u)'
      BY <1>1, <1>2, <2>2 DEF SandboxInv, JobInv, EngineInv, S!notes, S!engine, Asked, Over
    <3>2. JobWorkInv(u)'
      BY <1>1, <1>2, <2>1, <2>2, <2>3 DEF SandboxInv, JobInv, JobWorkInv, S!notes, Working
    <3>3. VerdictInv(u)'
      BY <1>1, <1>2, <2>2, <2>3 DEF SandboxInv, JobInv, VerdictInv, S!notes, S!engine, Over
    <3> QED BY <3>1, <3>2, <3>3 DEF JobInv
  <2>7. \A k \in Jobs : JobInv(k)'
    BY <2>5, <2>6, SameKeeps DEF SandboxInv
  <2>8. UserTypes'
    <3>1. x \in SandboxPlaces
      BY DEF SandboxPlaces, Leased
    <3>2. place' \in [S!Users -> SandboxPlaces]
      BY <2>1, <3>1 DEF S!Go, SandboxInv, UserTypes
    <3>3. \A p \in Procs : place'[p] = place[p]
      BY <1>2, <2>2, Homes
    <3> QED BY <1>1, <3>2, <3>3 DEF SandboxInv, UserTypes, S!leaseVars
  <2>9. WalkInv(u)'
    BY <1>1 DEF WalkInv, S!NoTarget
  <2>10. place'[u] \in Leased /\ UNCHANGED <<server, port, turn>>
    BY <1>1, <2>2 DEF Leased, S!leaseVars
  <2> QED BY <1>1, <2>2, <2>4, <2>7, <2>8, <2>9, <2>10, UserStep
<1>3. CASE u \in Procs
  <2>1. place' = [place EXCEPT ![u] = "release"] /\ out' = out
    BY <1>3 DEF S!Swept, S!Go
  <2>2. place'[u] = "release" /\ \A v \in S!Users : v # u => place'[v] = place[v]
    BY <1>3, <2>1 DEF SandboxInv, UserTypes
  <2>3. \A k \in Jobs : Rest(k) /\ place'[k] = place[k]
    BY <1>1, <1>3, <2>1, <2>2, Homes DEF S!notes, S!engine, Rest, Asked
  <2>4. \A k \in Jobs : JobInv(k)'
    BY <2>3, SameKeeps DEF SandboxInv
  <2>5. JobTypes'
    BY <1>1, <2>1 DEF JobTypes, S!notes, S!engine
  <2>6. UserTypes'
    <3>1. "release" \in SandboxPlaces
      BY DEF SandboxPlaces, Leased
    <3>2. place' \in [S!Users -> SandboxPlaces]
      BY <2>1, <3>1 DEF SandboxInv, UserTypes
    <3>3. \A p \in Procs : place'[p] \in {"idle", "queued", "sweep", "release", "done"}
      BY <2>2, Homes DEF SandboxInv, UserTypes
    <3> QED BY <1>1, <3>2, <3>3 DEF SandboxInv, UserTypes, S!leaseVars
  <2>7. WalkInv(u)'
    BY <1>1 DEF WalkInv, S!NoTarget
  <2>8. place'[u] \in Leased /\ UNCHANGED <<server, port, turn>>
    BY <1>1, <2>2 DEF Leased, S!leaseVars
  <2> QED BY <1>1, <2>2, <2>4, <2>5, <2>6, <2>7, <2>8, UserStep
<1> QED BY <1>2, <1>3 DEF S!Users

LEMMA RepairStep ==
  ASSUME S!SandboxAssumption, SandboxInv, NEW u \in S!Users, S!Repair(u)
  PROVE  SandboxInv'
BY ReconcileStep, LookStep, RemovalSteps, CompleteStep, SweptStep DEF S!Repair

-----------------------------------------------------------------------------
(* The lease and the processes.                                              *)

(* A user moves in the queue, into the lease or out of it; nothing of what is *)
(* said of a job changes but what its caller is told.                         *)
LEMMA LeaseStep ==
  ASSUME S!SandboxAssumption, SandboxInv, NEW u \in S!Users, NEW x \in {"queued", "sweep", "done"},
         place' = [place EXCEPT ![u] = x], UserTypes', LeaseInv',
         UNCHANGED <<S!notes, S!engine, target, verdict>>,
         \A k \in Jobs : k # u => out'[k] = out[k],
         u \in Jobs => out'[u] \in {out[u], "unavailable"} /\ (x # "done" => out'[u] = out[u]),
         out' \in [Jobs -> {"none", "exit", "failure", "terminal", "unproven", "unavailable", "lost"}],
         place[u] \in {"idle", "queued", "release", "done"},
         u \in Jobs => place[u] # "done" /\ (place[u] = "release" => x = "done"),
         \A v \in S!Users : v # u => sweep'[v] = sweep[v],
         \A k \in sweep'[u] : x = "sweep" /\ place[k] = "done" /\ record[k] # S!NoRecord
  PROVE  SandboxInv'
<1>1. place'[u] = x /\ \A v \in S!Users : v # u => place'[v] = place[v]
  BY DEF SandboxInv, UserTypes
<1>2. JobTypes'
  BY DEF SandboxInv, JobTypes, S!notes, S!engine
<1>3. ASSUME NEW k \in Jobs, k # u PROVE JobInv(k)'
  <2>1. Rest(k) /\ place'[k] = place[k]
    BY <1>1, <1>3, Homes DEF S!notes, S!engine, Rest, Asked
  <2> QED BY <2>1, SameKeeps DEF SandboxInv
<1>4. ASSUME u \in Jobs PROVE JobInv(u)'
  <2>1. EngineInv(u)'
    BY <1>1, <1>4 DEF SandboxInv, JobInv, EngineInv, S!notes, S!engine, Asked, Over
  <2>2. JobWorkInv(u)'
    BY <1>1, <1>4 DEF SandboxInv, JobInv, JobWorkInv, S!notes, S!engine, Working
  <2>3. VerdictInv(u)'
    BY <1>1, <1>4 DEF SandboxInv, JobInv, VerdictInv, S!notes, S!engine, Over
  <2> QED BY <2>1, <2>2, <2>3 DEF JobInv
<1>5. ASSUME NEW v \in S!Users, v # u PROVE WalkInv(v)'
  <2>1. place'[v] = place[v] /\ target'[v] = target[v] /\ sweep'[v] = sweep[v]
    BY <1>1, <1>5
  <2>2. ASSUME NEW k \in sweep'[v] PROVE place'[v] = "sweep" /\ place'[k] = "done" /\ record'[k] # S!NoRecord
    <3>1. k \in sweep[v] /\ place[v] = "sweep" /\ place[k] = "done" /\ record[k] # S!NoRecord
      BY <2>1, <2>2 DEF SandboxInv, WalkInv
    <3>2. k # u /\ k \in S!Users
      BY <3>1, Homes DEF SandboxInv, UserTypes
    <3> QED BY <1>1, <2>1, <3>1, <3>2 DEF S!notes
  <2>3. Aimed(v) => Aimed(v)'
    BY <2>1 DEF Aimed, S!notes, S!engine, Asked
  <2> QED BY <2>1, <2>2, <2>3 DEF SandboxInv, WalkInv, S!NoTarget
<1>6. WalkInv(u)'
  <2>1. target[u] = S!NoTarget
    BY NothingAimed
  <2>2. ASSUME NEW k \in sweep'[u] PROVE place'[u] = "sweep" /\ place'[k] = "done" /\ record'[k] # S!NoRecord
    <3>1. x = "sweep" /\ place[k] = "done" /\ record[k] # S!NoRecord
      BY <2>2
    <3>2. k \in Jobs /\ k \in S!Users
      BY <2>2, Homes DEF UserTypes
    <3>3. k # u
      BY <3>1, <3>2
    <3> QED BY <1>1, <3>1, <3>2, <3>3 DEF S!notes
  <2> QED BY <2>1, <2>2 DEF WalkInv, S!NoTarget
<1> QED BY <1>2, <1>3, <1>4, <1>5, <1>6 DEF SandboxInv

LEMMA AcquireStep ==
  ASSUME S!SandboxAssumption, SandboxInv, NEW u \in S!Users, S!Acquire(u)
  PROVE  SandboxInv'
<1> DEFINE p == S!HomeOf(u)
<1>1. /\ place[u] = "queued" /\ port = Nobody /\ port' = p /\ turn' = [turn EXCEPT ![p] = u]
      /\ place' = [place EXCEPT ![u] = "sweep"] /\ sweep' = [sweep EXCEPT ![u] = S!OnDisk]
      /\ UNCHANGED <<server, S!notes, S!engine, target, verdict, out>> /\ p \in Procs
  BY Homes DEF S!Acquire, S!Takeable, S!Go
<1>2. \A v \in S!Users : place[v] \notin Leased
  BY <1>1, Homes DEF SandboxInv, LeaseInv
<1>3. /\ place'[u] = "sweep" /\ sweep'[u] = S!OnDisk /\ turn'[p] = u
      /\ \A v \in S!Users : v # u => place'[v] = place[v] /\ sweep'[v] = sweep[v]
  BY <1>1 DEF SandboxInv, UserTypes
<1>4. \A k \in S!OnDisk : k \in Jobs /\ place[k] = "done" /\ record[k] # S!NoRecord
  <2> SUFFICES ASSUME NEW k \in S!OnDisk PROVE k \in Jobs /\ place[k] = "done" /\ record[k] # S!NoRecord
    OBVIOUS
  <2>1. k \in Jobs /\ record[k] # S!NoRecord
    BY DEF S!OnDisk
  <2>2. k \in S!Users /\ place[k] \in SandboxPlaces
    BY <2>1, Homes DEF SandboxInv, UserTypes
  <2>3. place[k] \notin {"idle", "queued"}
    BY <2>1 DEF SandboxInv, JobInv, JobWorkInv
  <2> QED BY <1>2, <2>1, <2>2, <2>3 DEF SandboxPlaces
<1>5. UserTypes'
  <2>1. "sweep" \in SandboxPlaces /\ S!OnDisk \in SUBSET Jobs
    BY DEF SandboxPlaces, Leased, S!OnDisk
  <2>2. /\ place' \in [S!Users -> SandboxPlaces] /\ sweep' \in [S!Users -> SUBSET Jobs]
        /\ turn' \in [Procs -> S!Users \cup {Nobody}]
    BY <1>1, <2>1 DEF SandboxInv, UserTypes
  <2>3. \A q \in Procs : place'[q] \in {"idle", "queued", "sweep", "release", "done"}
    BY <1>3, Homes DEF SandboxInv, UserTypes
  <2> QED BY <1>1, <2>2, <2>3 DEF SandboxInv, UserTypes
<1>6. LeaseInv'
  <2>1. \A v \in S!Users : place'[v] \in Leased => port' = S!HomeOf(v) /\ turn'[S!HomeOf(v)] = v
    BY <1>1, <1>2, <1>3
  <2>2. \A q \in Procs : place'[q] \in Leased \cup {"queued"} => server'[q] # "down"
    BY <1>1, <1>2, <1>3, Homes DEF SandboxInv, LeaseInv
  <2> QED BY <2>1, <2>2 DEF LeaseInv, S!HomeOf
<1>7. out' \in [Jobs -> {"none", "exit", "failure", "terminal", "unproven", "unavailable", "lost"}]
  BY <1>1 DEF SandboxInv, JobTypes
<1> HIDE DEF p
<1> QED BY <1>1, <1>3, <1>4, <1>5, <1>6, <1>7, LeaseStep

LEMMA UnavailableStep ==
  ASSUME S!SandboxAssumption, SandboxInv, NEW u \in S!Users, S!Unavailable(u)
  PROVE  SandboxInv'
<1>1. /\ place[u] = "queued" /\ place' = [place EXCEPT ![u] = "done"]
      /\ UNCHANGED <<port, turn, S!notes, S!engine, sweep, target, verdict>>
  BY DEF S!Unavailable, S!Go, S!walk
<1>2. /\ u \in Jobs => server' = server /\ out' = [out EXCEPT ![u] = "unavailable"]
      /\ u \in Procs => server' = [server EXCEPT ![u] = "down"] /\ out' = out
  BY Homes DEF S!Unavailable, S!Tell
<1>3. place'[u] = "done" /\ \A v \in S!Users : v # u => place'[v] = place[v]
  BY <1>1 DEF SandboxInv, UserTypes
<1>4. /\ out' \in [Jobs -> {"none", "exit", "failure", "terminal", "unproven", "unavailable", "lost"}]
      /\ \A k \in Jobs : k # u => out'[k] = out[k]
      /\ u \in Jobs => out'[u] = "unavailable"
  BY <1>2 DEF SandboxInv, JobTypes, S!Users
<1>5. server' \in [Procs -> {"down", "starting", "serving"}] /\ \A q \in Procs : q # u => server'[q] = server[q]
  BY <1>2 DEF SandboxInv, UserTypes, S!Users
<1>6. UserTypes'
  <2>1. place' \in [S!Users -> SandboxPlaces]
    BY <1>1 DEF SandboxInv, UserTypes, SandboxPlaces
  <2>2. \A q \in Procs : place'[q] \in {"idle", "queued", "sweep", "release", "done"}
    BY <1>3, Homes DEF SandboxInv, UserTypes
  <2> QED BY <1>1, <1>5, <2>1, <2>2 DEF SandboxInv, UserTypes
<1>7. LeaseInv'
  <2>1. place'[u] \notin Leased \cup {"queued"}
    BY <1>3 DEF Leased, Working
  <2>2. \A v \in S!Users : place'[v] \in Leased => port' = S!HomeOf(v) /\ turn'[S!HomeOf(v)] = v
    BY <1>1, <1>3, <2>1 DEF SandboxInv, LeaseInv
  <2>3. \A q \in Procs : place'[q] \in Leased \cup {"queued"} => server'[q] # "down"
    BY <1>3, <1>5, <2>1, Homes DEF SandboxInv, LeaseInv
  <2> QED BY <2>2, <2>3 DEF LeaseInv, S!HomeOf
<1>8. sweep'[u] = {}
  BY <1>1, NothingAimed
<1> QED BY <1>1, <1>4, <1>6, <1>7, <1>8, LeaseStep

(* The user leaves the lease, whether it could be given back or not. *)
LEMMA ReleaseSteps ==
  ASSUME S!SandboxAssumption, SandboxInv, NEW u \in S!Users, S!Release(u) \/ S!ReleaseFails(u)
  PROVE  SandboxInv'
<1> DEFINE p == S!HomeOf(u)
<1>1. /\ place[u] = "release" /\ place' = [place EXCEPT ![u] = "done"] /\ turn' = [turn EXCEPT ![p] = Nobody]
      /\ UNCHANGED <<S!notes, S!engine, sweep, target, verdict>> /\ p \in Procs /\ place[u] \in Leased
  BY Homes DEF S!Release, S!ReleaseFails, S!Go, S!walk, Leased
<1>2. place'[u] = "done" /\ \A v \in S!Users : v # u => place'[v] = place[v] /\ place[v] \notin Leased
  BY <1>1, OneAtATime DEF SandboxInv, UserTypes
<1>3. /\ out' \in [Jobs -> {"none", "exit", "failure", "terminal", "unproven", "unavailable", "lost"}]
      /\ \A k \in Jobs : k # u => out'[k] = out[k]
      /\ u \in Jobs => out'[u] \in {out[u], "unavailable"}
  BY DEF S!Release, S!ReleaseFails, SandboxInv, JobTypes
<1>4. server' \in [Procs -> {"down", "starting", "serving"}] /\ \A q \in Procs : q # u => server'[q] = server[q]
  <2>1. u \in Procs => p = u
    BY Homes
  <2>2. u \in Jobs => u # p
    BY <1>1, Homes
  <2>3. server' \in {server, [server EXCEPT ![p] = "serving"], [server EXCEPT ![p] = "down"]} /\ (u \in Jobs => server' = server)
    BY <2>2 DEF S!Release, S!ReleaseFails
  <2>4. server' \in [Procs -> {"down", "starting", "serving"}] /\ \A q \in Procs : q # p => server'[q] = server[q]
    BY <2>3 DEF SandboxInv, UserTypes
  <2> QED BY <2>1, <2>3, <2>4 DEF S!Users
<1>5. UserTypes'
  <2>1. place' \in [S!Users -> SandboxPlaces]
    BY <1>1 DEF SandboxInv, UserTypes, SandboxPlaces
  <2>2. \A q \in Procs : place'[q] \in {"idle", "queued", "sweep", "release", "done"}
    BY <1>2, Homes DEF SandboxInv, UserTypes
  <2>3. turn' \in [Procs -> S!Users \cup {Nobody}]
    BY <1>1 DEF SandboxInv, UserTypes
  <2> QED BY <1>1, <1>4, <2>1, <2>2, <2>3 DEF SandboxInv, UserTypes
<1>6. LeaseInv'
  <2>1. place'[u] \notin Leased \cup {"queued"}
    BY <1>2 DEF Leased, Working
  <2>2. \A v \in S!Users : place'[v] \notin Leased
    BY <1>2, <2>1
  <2>3. \A q \in Procs : place'[q] = "queued" => server'[q] # "down"
    BY <1>2, <1>4, <2>1, Homes DEF SandboxInv, LeaseInv
  <2> QED BY <2>2, <2>3, Homes DEF LeaseInv
<1>7. sweep'[u] = {}
  BY <1>1, NothingAimed
<1> HIDE DEF p
<1> QED BY <1>1, <1>3, <1>5, <1>6, <1>7, LeaseStep

LEMMA BootStep ==
  ASSUME S!SandboxAssumption, SandboxInv, NEW p \in Procs, S!Boot(p)
  PROVE  SandboxInv'
<1>1. /\ server[p] = "down" /\ server' = [server EXCEPT ![p] = "starting"] /\ place' = [place EXCEPT ![p] = "queued"]
      /\ UNCHANGED <<port, turn, S!notes, S!engine, sweep, target, verdict, out>>
      /\ p \in S!Users /\ p \notin Jobs
  BY Homes DEF S!Boot, S!Go, S!walk
<1>2. place[p] \in {"idle", "done"}
  BY <1>1 DEF SandboxInv, UserTypes, LeaseInv, Leased
<1>3. place'[p] = "queued" /\ \A v \in S!Users : v # p => place'[v] = place[v]
  BY <1>1 DEF SandboxInv, UserTypes
<1>4. /\ server' \in [Procs -> {"down", "starting", "serving"}] /\ server'[p] = "starting"
      /\ \A q \in Procs : q # p => server'[q] = server[q]
  BY <1>1 DEF SandboxInv, UserTypes
<1>5. UserTypes'
  <2>1. place' \in [S!Users -> SandboxPlaces]
    BY <1>1 DEF SandboxInv, UserTypes, SandboxPlaces
  <2>2. \A q \in Procs : place'[q] \in {"idle", "queued", "sweep", "release", "done"}
    BY <1>3, Homes DEF SandboxInv, UserTypes
  <2> QED BY <1>1, <1>4, <2>1, <2>2 DEF SandboxInv, UserTypes
<1>6. LeaseInv'
  <2>1. place'[p] \notin Leased
    BY <1>3 DEF Leased, Working
  <2>2. \A v \in S!Users : place'[v] \in Leased => port' = S!HomeOf(v) /\ turn'[S!HomeOf(v)] = v
    BY <1>1, <1>3, <2>1 DEF SandboxInv, LeaseInv
  <2>3. \A q \in Procs : place'[q] \in Leased \cup {"queued"} => server'[q] # "down"
    BY <1>3, <1>4, Homes DEF SandboxInv, LeaseInv
  <2> QED BY <2>2, <2>3 DEF LeaseInv, S!HomeOf
<1>7. sweep'[p] = {}
  BY <1>1, <1>2, NothingAimed
<1>8. out' \in [Jobs -> {"none", "exit", "failure", "terminal", "unproven", "unavailable", "lost"}]
  BY <1>1 DEF SandboxInv, JobTypes
<1> QED BY <1>1, <1>2, <1>5, <1>6, <1>7, <1>8, LeaseStep

LEMMA SubmitStep ==
  ASSUME S!SandboxAssumption, SandboxInv, NEW j \in Jobs, S!Submit(j)
  PROVE  SandboxInv'
<1>1. /\ place[j] = "idle" /\ place' = [place EXCEPT ![j] = "queued"] /\ j \in S!Users /\ j \notin Procs
      /\ UNCHANGED <<server, port, turn, S!notes, S!engine, sweep, target, verdict, out>>
  BY Homes DEF S!Submit, S!Go, S!walk, S!leaseVars
<1>2. place'[j] = "queued" /\ \A v \in S!Users : v # j => place'[v] = place[v]
  BY <1>1 DEF SandboxInv, UserTypes
<1>3. UserTypes'
  <2>1. place' \in [S!Users -> SandboxPlaces]
    BY <1>1 DEF SandboxInv, UserTypes, SandboxPlaces
  <2>2. \A q \in Procs : place'[q] = place[q]
    BY <1>1, <1>2, Homes
  <2> QED BY <1>1, <2>1, <2>2 DEF SandboxInv, UserTypes
<1>4. LeaseInv'
  <2>1. place'[j] \notin Leased
    BY <1>2 DEF Leased, Working
  <2>2. \A v \in S!Users : place'[v] \in Leased => port' = S!HomeOf(v) /\ turn'[S!HomeOf(v)] = v
    BY <1>1, <1>2, <2>1 DEF SandboxInv, LeaseInv
  <2>3. \A q \in Procs : place'[q] \in Leased \cup {"queued"} => server'[q] # "down"
    BY <1>1, <1>2, Homes DEF SandboxInv, LeaseInv
  <2> QED BY <2>2, <2>3 DEF LeaseInv, S!HomeOf
<1>5. sweep'[j] = {}
  BY <1>1, NothingAimed
<1>6. out' \in [Jobs -> {"none", "exit", "failure", "terminal", "unproven", "unavailable", "lost"}]
  BY <1>1 DEF SandboxInv, JobTypes
<1> QED BY <1>1, <1>3, <1>4, <1>5, <1>6, LeaseStep

(* A process is gone, and with it the work of its jobs; their records are not. *)
LEMMA ServerGoneStep ==
  ASSUME S!SandboxAssumption, SandboxInv, NEW p \in Procs, S!Crash(p)
  PROVE  SandboxInv'
<1> DEFINE mine == {u \in S!Users : S!HomeOf(u) = p}
           dead == {j \in Jobs \cap mine : place[j] \notin {"idle", "done"}}
<1>1. /\ server' = [server EXCEPT ![p] = "down"] /\ turn' = [turn EXCEPT ![p] = Nobody]
      /\ port' = IF port = p THEN Nobody ELSE port
      /\ place' = [u \in S!Users |-> IF u = p THEN "idle" ELSE IF u \in dead THEN "done" ELSE place[u]]
      /\ out' = [j \in Jobs |-> IF j \in dead THEN "lost" ELSE out[j]]
      /\ sweep' = [u \in S!Users |-> IF u \in mine THEN {} ELSE sweep[u]]
      /\ target' = [u \in S!Users |-> IF u \in mine THEN S!NoTarget ELSE target[u]]
      /\ open' = open \ mine
      /\ UNCHANGED <<record, ctr, cid, vol, gate, verdict>>
  BY DEF S!Crash
<1>2. PICK sent \in SUBSET ({<<j, "volume">> : j \in {k \in dead : place[k] = "create_volume"}}
                             \cup {<<j, "container">> : j \in {k \in dead : place[k] = "create_container"}}) :
        late' = late \cup sent
  BY DEF S!Crash
<1>3. \A k \in Jobs :
        /\ Asked(k, "volume")' => Asked(k, "volume") \/ (k \in dead /\ place[k] = "create_volume")
        /\ Asked(k, "container")' => Asked(k, "container") \/ (k \in dead /\ place[k] = "create_container")
        /\ Asked(k, "volume") => Asked(k, "volume")'
        /\ Asked(k, "container") => Asked(k, "container")'
  BY <1>2 DEF Asked
<1>4. p \in S!Users /\ p \in mine /\ p \notin Jobs
  BY Homes
<1>5. \A v \in S!Users : v \notin mine => /\ place'[v] = place[v] /\ sweep'[v] = sweep[v] /\ target'[v] = target[v]
                                        /\ v \notin dead /\ v # p
  BY <1>1, <1>4
<1>6. \A v \in S!Users : v \in mine => /\ place'[v] \in {"idle", "done"} /\ sweep'[v] = {} /\ target'[v] = S!NoTarget
  <2> SUFFICES ASSUME NEW v \in mine
               PROVE  place'[v] \in {"idle", "done"} /\ sweep'[v] = {} /\ target'[v] = S!NoTarget
    OBVIOUS
  <2>1. v \in S!Users /\ S!HomeOf(v) = p
    OBVIOUS
  <2>2. v = p \/ v \in Jobs
    BY <2>1, Homes DEF S!Users
  <2>3. place'[v] \in {"idle", "done"}
    BY <1>1, <2>1, <2>2
  <2> QED BY <1>1, <2>1, <2>3
<1>7. JobTypes'
  BY <1>1 DEF SandboxInv, JobTypes
<1>8. UserTypes'
  <2>1. {"idle", "done"} \subseteq SandboxPlaces
    BY DEF SandboxPlaces
  <2>2. place' \in [S!Users -> SandboxPlaces]
    BY <1>1, <2>1 DEF SandboxInv, UserTypes
  <2>3. \A q \in Procs : place'[q] \in {"idle", "queued", "sweep", "release", "done"}
    BY <1>1, Homes DEF SandboxInv, UserTypes
  <2>4. S!NoTarget \in Targets
    BY DEF S!NoTarget, Targets
  <2>5. sweep' \in [S!Users -> SUBSET Jobs] /\ target' \in [S!Users -> Targets]
    BY <1>1, <2>4 DEF SandboxInv, UserTypes
  <2>6. server' \in [Procs -> {"down", "starting", "serving"}] /\ turn' \in [Procs -> S!Users \cup {Nobody}]
    BY <1>1 DEF SandboxInv, UserTypes
  <2> QED BY <2>2, <2>3, <2>5, <2>6 DEF UserTypes
<1>9. LeaseInv'
  <2>1. ASSUME NEW v \in S!Users, place'[v] \in Leased PROVE port' = S!HomeOf(v) /\ turn'[S!HomeOf(v)] = v
    <3>1. v \notin mine
      BY <1>6, <2>1 DEF Leased, Working
    <3>2. place[v] \in Leased /\ S!HomeOf(v) # p /\ S!HomeOf(v) \in Procs
      BY <1>5, <2>1, <3>1, Homes
    <3>3. port = S!HomeOf(v) /\ turn[S!HomeOf(v)] = v
      BY <3>2 DEF SandboxInv, LeaseInv
    <3> QED BY <1>1, <3>2, <3>3 DEF SandboxInv, UserTypes
  <2>2. ASSUME NEW q \in Procs, place'[q] \in Leased \cup {"queued"} PROVE server'[q] # "down"
    <3>1. q # p /\ q \notin mine /\ q \in S!Users
      BY <1>6, <2>2, Homes DEF Leased, Working
    <3>2. place[q] \in Leased \cup {"queued"}
      BY <1>5, <2>2, <3>1
    <3>3. server[q] # "down"
      BY <3>2 DEF SandboxInv, LeaseInv
    <3> QED BY <1>1, <3>1, <3>3 DEF SandboxInv, UserTypes
  <2> QED BY <2>1, <2>2 DEF LeaseInv, S!HomeOf
<1>10. ASSUME NEW k \in Jobs PROVE JobInv(k)'
  <2>1. JobInv(k) /\ k \in S!Users /\ k # p /\ place[k] \in SandboxPlaces
    BY Homes DEF SandboxInv, UserTypes
  <2>2. CASE k \in dead
    <3>1. place'[k] = "done" /\ out'[k] = "lost" /\ k \notin open'
      BY <1>1, <2>1, <2>2
    <3>2. EngineInv(k)'
      <4>1. CASE place[k] = "create_volume"
        BY <1>1, <1>3, <2>1, <3>1, <4>1 DEF JobInv, EngineInv, JobWorkInv, Over, Working, S!NoRecord
      <4>2. CASE place[k] = "create_container"
        BY <1>1, <1>3, <2>1, <3>1, <4>2 DEF JobInv, EngineInv, JobWorkInv, Over, Working, S!NoRecord
      <4>3. CASE place[k] \notin {"create_volume", "create_container"}
        BY <1>1, <1>3, <2>1, <3>1, <4>3 DEF JobInv, EngineInv, Over
      <4> QED BY <4>1, <4>2, <4>3
    <3>3. JobWorkInv(k)'
      BY <3>1 DEF JobWorkInv, Working
    <3>4. VerdictInv(k)'
      BY <1>1, <2>1, <3>1 DEF JobInv, VerdictInv, Over
    <3> QED BY <3>2, <3>3, <3>4 DEF JobInv
  <2>3. CASE k \notin dead
    <3>1. /\ place'[k] = place[k] /\ out'[k] = out[k]
          /\ k \in open' <=> k \in open /\ k \notin mine
          /\ k \in mine => place[k] \in {"idle", "done"}
      BY <1>1, <2>1, <2>3
    <3>2. EngineInv(k)'
      BY <1>1, <1>3, <2>1, <2>3, <3>1 DEF JobInv, EngineInv
    <3>3. JobWorkInv(k)'
      BY <1>1, <2>1, <3>1 DEF JobInv, JobWorkInv, Working
    <3>4. VerdictInv(k)'
      BY <1>1, <2>1, <3>1 DEF JobInv, VerdictInv
    <3> QED BY <3>2, <3>3, <3>4 DEF JobInv
  <2> QED BY <2>2, <2>3
<1>11. ASSUME NEW v \in S!Users PROVE WalkInv(v)'
  <2>1. CASE v \in mine
    BY <1>6, <2>1 DEF WalkInv, S!NoTarget
  <2>2. CASE v \notin mine
    <3>1. place'[v] = place[v] /\ sweep'[v] = sweep[v] /\ target'[v] = target[v] /\ WalkInv(v)
      BY <1>5, <2>2 DEF SandboxInv
    <3>2. ASSUME NEW k \in Jobs, place[k] = "done" PROVE place'[k] = "done" /\ k \notin dead
      BY <1>1, <3>2, Homes
    <3>3. ASSUME NEW k \in sweep'[v] PROVE place'[v] = "sweep" /\ place'[k] = "done" /\ record'[k] # S!NoRecord
      <4>1. k \in sweep[v] /\ place[v] = "sweep" /\ place[k] = "done" /\ record[k] # S!NoRecord /\ k \in Jobs
        BY <3>1, <3>3 DEF WalkInv, SandboxInv, UserTypes
      <4> QED BY <1>1, <3>1, <3>2, <4>1
    <3>4. ASSUME Aimed(v) PROVE Aimed(v)'
      <4>1. PICK k \in Jobs : k = target[v].job
        BY <3>4 DEF Aimed
      <4>2. k \notin dead
        <5>1. place[v] = "sweep" => place[k] = "done"
          BY <3>1, <3>4, <4>1 DEF Aimed, WalkInv
        <5>2. place[v] # "sweep" => k = v
          BY <3>4, <4>1 DEF Aimed
        <5> QED BY <3>2, <5>1, <5>2, <2>2
      <4>3. k \in open /\ k = v => k \in open'
        BY <1>1, <2>2
      <4> QED BY <1>1, <1>3, <3>1, <3>4, <4>1, <4>2, <4>3 DEF Aimed
    <3> QED BY <3>1, <3>3, <3>4 DEF WalkInv, S!NoTarget
  <2> QED BY <2>1, <2>2
<1> QED BY <1>7, <1>8, <1>9, <1>10, <1>11 DEF SandboxInv

-----------------------------------------------------------------------------
(* What happens in the engine by itself.                                     *)

(* Only the engine's side of one job changes. *)
LEMMA EngineStep ==
  ASSUME S!SandboxAssumption, SandboxInv, NEW j \in Jobs,
         UNCHANGED <<server, port, turn, place, sweep, target, record, open>>, JobTypes',
         \A k \in Jobs : k # j => Rest(k), JobInv(j)',
         \A u \in S!Users : Aimed(u) /\ target[u].job = j => Aimed(u)'
  PROVE  SandboxInv'
<1>1. UserTypes' /\ LeaseInv'
  BY DEF SandboxInv, UserTypes, LeaseInv, S!HomeOf
<1>2. \A k \in Jobs : JobInv(k)'
  BY SameKeeps DEF SandboxInv
<1>3. ASSUME NEW u \in S!Users PROVE WalkInv(u)'
  <2>1. WalkInv(u)
    BY DEF SandboxInv
  <2>2. ASSUME Aimed(u) PROVE Aimed(u)'
    <3>1. PICK k \in Jobs : k = target[u].job
      BY <2>2 DEF Aimed
    <3>2. CASE k # j
      <4>1. Rest(k) /\ target'[u].job = k
        BY <3>1, <3>2
      <4> QED BY <2>2, <3>1, <4>1 DEF Aimed, Rest
    <3> QED BY <2>2, <3>1, <3>2
  <2> QED BY <2>1, <2>2 DEF WalkInv, S!NoTarget
<1> QED BY <1>1, <1>2, <1>3 DEF SandboxInv

(* A request of a client that is gone is of a job that is over, and nobody has *)
(* gone past looking at its record.                                            *)
LEMMA CarryOutStep ==
  ASSUME S!SandboxAssumption, SandboxInv, NEW j \in Jobs, S!CarryOut(j)
  PROVE  SandboxInv'
<1>1. /\ UNCHANGED <<server, port, turn, place, sweep, target, record, open, cid, gate, verdict, out>>
      /\ JobTypes /\ JobInv(j)
  BY DEF S!CarryOut, S!leaseVars, S!walk, S!notes, SandboxInv
<1>2. PICK what \in {"volume", "container"} :
        /\ Asked(j, what) /\ vol' = vol \cup {j} /\ late' = late \ {<<j, what>>}
        /\ what = "volume" => ctr' = ctr
        /\ what = "container" => ctr' = [ctr EXCEPT ![j] = "created"]
  BY DEF S!CarryOut, Asked
<1>3. /\ \A k \in Jobs : k # j => ctr'[k] = ctr[k]
      /\ what = "container" => ctr'[j] = "created"
  BY <1>1, <1>2 DEF JobTypes
<1>4. /\ \A k \in Jobs : k # j => /\ Asked(k, "volume")' <=> Asked(k, "volume")
                                  /\ Asked(k, "container")' <=> Asked(k, "container")
      /\ ~Asked(j, what)'
      /\ Asked(j, "volume")' => Asked(j, "volume")
      /\ Asked(j, "container")' => Asked(j, "container")
  BY <1>2 DEF Asked
<1>5. \A k \in Jobs : k # j => Rest(k)
  BY <1>1, <1>2, <1>3, <1>4 DEF Rest
<1>6. JobTypes'
  <2>1. ctr' \in [Jobs -> {"none", "created", "running", "exited"}]
    BY <1>1, <1>2 DEF JobTypes
  <2> QED BY <1>1, <2>1 DEF JobTypes
<1>7. place[j] \in Over /\ record[j] # S!NoRecord
  BY <1>1, <1>2 DEF JobInv, EngineInv
<1>8. JobInv(j)'
  <2>1. EngineInv(j)'
    <3>1. CASE what = "volume"
      <4>1. record[j].state = "volume_create_pending" /\ ~Asked(j, "container") /\ ctr[j] = "none"
        BY <1>1, <1>2, <3>1 DEF JobInv, EngineInv
      <4> QED BY <1>1, <1>2, <1>4, <1>7, <3>1, <4>1 DEF JobInv, EngineInv
    <3>2. CASE what = "container"
      <4>1. record[j].state = "container_create_pending" /\ ~Asked(j, "volume")
        BY <1>1, <1>2, <3>2 DEF JobInv, EngineInv
      <4> QED BY <1>1, <1>3, <1>4, <1>7, <3>2, <4>1 DEF JobInv, EngineInv
    <3> QED BY <3>1, <3>2
  <2>2. JobWorkInv(j)'
    BY <1>1, <1>7 DEF JobWorkInv, Working, Over
  <2>3. VerdictInv(j)'
    BY <1>1, <1>2, <1>3, <1>7 DEF JobInv, VerdictInv, Over
  <2> QED BY <2>1, <2>2, <2>3 DEF JobInv
<1>9. ASSUME NEW u \in S!Users, Aimed(u), target[u].job = j PROVE Aimed(u)'
  <2>1. target[u].at = "look"
    BY <1>2, <1>9 DEF Aimed
  <2> QED BY <1>1, <1>9, <2>1 DEF Aimed
<1> QED BY <1>1, <1>5, <1>6, <1>8, <1>9, EngineStep

LEMMA GateEndsStep ==
  ASSUME S!SandboxAssumption, SandboxInv, NEW j \in Jobs, S!GateEnds(j)
  PROVE  SandboxInv'
<1>1. /\ UNCHANGED <<server, port, turn, place, sweep, target, record, open, cid, vol, late, verdict, out>>
      /\ ctr[j] = "running" /\ ctr' = [ctr EXCEPT ![j] = "exited"]
      /\ JobTypes /\ JobInv(j)
  BY DEF S!GateEnds, S!leaseVars, S!walk, S!notes, SandboxInv
<1>2. PICK how \in S!Published \cup {"refused"} : gate' = [gate EXCEPT ![j] = how]
  BY DEF S!GateEnds
<1>3. ctr'[j] = "exited" /\ \A k \in Jobs : k # j => ctr'[k] = ctr[k] /\ gate'[k] = gate[k]
  BY <1>1, <1>2 DEF JobTypes
<1>4. \A k \in Jobs : k # j => Rest(k)
  BY <1>1, <1>3 DEF Rest, Asked
<1>5. JobTypes'
  BY <1>1, <1>2 DEF JobTypes, S!Published
<1>6. JobInv(j)'
  <2>1. EngineInv(j)'
    BY <1>1, <1>3 DEF JobInv, EngineInv, Asked
  <2>2. JobWorkInv(j)'
    BY <1>1 DEF JobInv, JobWorkInv
  <2>3. VerdictInv(j)'
    BY <1>1 DEF JobInv, VerdictInv
  <2> QED BY <2>1, <2>2, <2>3 DEF JobInv
<1>7. ASSUME NEW u \in S!Users, Aimed(u), target[u].job = j PROVE Aimed(u)'
  <2>1. target[u].at \notin {"volume", "complete"}
    BY <1>1, <1>7 DEF Aimed
  <2> QED BY <1>1, <1>7, <2>1 DEF Aimed, Asked
<1> QED BY <1>1, <1>4, <1>5, <1>6, <1>7, EngineStep

(* Why a job is to stop is nothing the invariant speaks of. *)
LEMMA SandboxStutter ==
  ASSUME SandboxInv, UNCHANGED <<server, port, turn, place, S!notes, S!engine, sweep, target, verdict, out>>
  PROVE  SandboxInv'
<1>1. \A k \in Jobs : JobInv(k)'
  <2>1. \A k \in Jobs : Rest(k) /\ place'[k] = place[k]
    BY DEF Rest, Asked, S!notes, S!engine
  <2> QED BY <2>1, SameKeeps DEF SandboxInv
<1>2. \A u \in S!Users : WalkInv(u)'
  BY DEF SandboxInv, WalkInv, Aimed, S!notes, S!engine, Asked, S!NoTarget
<1>3. JobTypes' /\ UserTypes' /\ LeaseInv'
  BY DEF SandboxInv, JobTypes, UserTypes, LeaseInv, S!HomeOf, S!notes, S!engine
<1> QED BY <1>1, <1>2, <1>3 DEF SandboxInv

-----------------------------------------------------------------------------
LEMMA SandboxInit ==
  ASSUME S!SandboxAssumption, S!Init
  PROVE  SandboxInv
<1>1. JobTypes
  BY DEF S!Init, JobTypes, S!NoRecord, Records
<1>2. UserTypes
  BY Homes DEF S!Init, UserTypes, SandboxPlaces, S!NoTarget, Targets
<1>3. LeaseInv
  BY Homes DEF S!Init, LeaseInv, Leased, Working
<1>4. \A j \in Jobs : JobInv(j)
  BY Homes DEF S!Init, JobInv, EngineInv, JobWorkInv, VerdictInv, Asked, Working
<1>5. \A u \in S!Users : WalkInv(u)
  BY DEF S!Init, WalkInv
<1> QED BY <1>1, <1>2, <1>3, <1>4, <1>5 DEF SandboxInv

LEMMA SandboxNext ==
  ASSUME S!SandboxAssumption, SandboxInv, [S!Next]_(S!vars)
  PROVE  SandboxInv'
<1>1. ASSUME NEW p \in Procs, S!Boot(p) \/ S!Crash(p) PROVE SandboxInv'
  BY <1>1, BootStep, ServerGoneStep
<1>2. ASSUME NEW u \in S!Users, S!Lease(u) \/ S!Repair(u) PROVE SandboxInv'
  BY <1>2, AcquireStep, UnavailableStep, ReleaseSteps, RepairStep DEF S!Lease
<1>3. ASSUME NEW j \in Jobs, S!Submit(j) \/ S!CarryOut(j) \/ S!GateEnds(j) \/ S!Execute(j) PROVE SandboxInv'
  BY <1>3, SubmitStep, CarryOutStep, GateEndsStep, ExecuteStep
<1>4. ASSUME NEW j \in Jobs, NEW why \in {"late", "cancelled"}, S!StopWork(j, why) PROVE SandboxInv'
  BY <1>4, SandboxStutter DEF S!StopWork, S!leaseVars, S!walk
<1>5. CASE UNCHANGED S!vars
  BY <1>5, SandboxStutter DEF S!vars, S!leaseVars, S!walk
<1> QED BY <1>1, <1>2, <1>3, <1>4, <1>5 DEF S!Next

(* Whatever the engine has or may still create for a gate stands in a record, *)
(* and an exit is reported only when all of it is gone.                       *)
THEOREM NothingIsLeftBehind == S!SandboxAssumption => (S!Spec => []S!NothingLeftBehind)
<1> SUFFICES ASSUME S!SandboxAssumption PROVE S!Spec => []S!NothingLeftBehind
  OBVIOUS
<1>1. S!Init => SandboxInv
  BY SandboxInit
<1>2. SandboxInv /\ [S!Next]_(S!vars) => SandboxInv'
  BY SandboxNext
<1>3. SandboxInv => S!NothingLeftBehind
  <2> SUFFICES ASSUME SandboxInv, NEW j \in Jobs
               PROVE  /\ ~S!Unrecorded(j)
                      /\ out[j] = "exit" =>
                           /\ verdict[j] = gate[j] /\ record[j] = S!NoRecord
                           /\ ctr[j] = "none" /\ j \notin vol \cup cid
                           /\ \A what \in {"volume", "container"} : <<j, what>> \notin late
    BY DEF S!NothingLeftBehind
  <2> QED BY DEF SandboxInv, JobInv, EngineInv, VerdictInv, S!Unrecorded, Asked
<1> QED BY <1>1, <1>2, <1>3, PTL DEF S!Spec

(***************************************************************************)
(* All of them (Workspaces).                                               *)
(***************************************************************************)

(* A step of all components together is a step of each, or leaves it as it is. *)
LEMMA StepsOfComponents ==
  ASSUME [Next]_vars
  PROVE  /\ [A!Next]_(A!vars) /\ [P!Next]_(P!prepVars) /\ [G!Next]_(G!vars)
         /\ [C!Next]_(C!vars) /\ [J!Next]_(J!vars) /\ [S!Next]_(S!vars)
<1>1. attemptVars' = attemptVars => UNCHANGED A!vars
  BY DEF attemptVars, A!vars
<1>2. prepareVars' = prepareVars => UNCHANGED P!prepVars
  BY DEF prepareVars, P!prepVars
<1>3. gateVars' = gateVars => UNCHANGED G!vars
  BY DEF gateVars, G!vars
<1>4. catalogVars' = catalogVars => UNCHANGED C!vars
  BY DEF catalogVars, C!vars, C!storeVars, C!startVars, C!history
<1>5. storeVars' = storeVars => UNCHANGED J!vars
  BY DEF storeVars, J!vars, J!diskVars, J!bootVars
<1>6. sandboxVars' = sandboxVars => UNCHANGED S!vars
  BY DEF sandboxVars, S!vars, S!leaseVars, S!notes, S!engine, S!walk
<1>7. CASE UNCHANGED vars
  <2>1. UNCHANGED <<attemptVars, prepareVars, sandboxVars, gateVars, catalogVars, storeVars>>
    BY <1>7 DEF vars
  <2> QED BY <2>1, <1>1, <1>2, <1>3, <1>4, <1>5, <1>6
<1>8. CASE Next
  <2>1. A!Next \/ UNCHANGED attemptVars
    BY <1>8 DEF Next
  <2>2. P!Next \/ UNCHANGED prepareVars
    BY <1>8 DEF Next
  <2>3. G!Next \/ UNCHANGED gateVars
    BY <1>8 DEF Next
  <2>4. C!Next \/ UNCHANGED catalogVars
    BY <1>8 DEF Next
  <2>5. J!Next \/ UNCHANGED storeVars
    BY <1>8 DEF Next
  <2>6. S!Next \/ UNCHANGED sandboxVars
    BY <1>8 DEF Next
  <2> QED BY <2>1, <2>2, <2>3, <2>4, <2>5, <2>6, <1>1, <1>2, <1>3, <1>4, <1>5, <1>6
<1> QED BY <1>7, <1>8

(* A behaviour of all components is one of each. *)
THEOREM WorkspacesImplementComponents ==
  Spec => A!Spec /\ P!Spec /\ G!Spec /\ C!Spec /\ J!Spec /\ S!Spec
<1>1. Init => A!Init /\ P!Init /\ G!Init /\ C!Init /\ J!Init /\ S!Init
  BY DEF Init
<1>2. [Next]_vars => /\ [A!Next]_(A!vars) /\ [P!Next]_(P!prepVars) /\ [G!Next]_(G!vars)
                     /\ [C!Next]_(C!vars) /\ [J!Next]_(J!vars) /\ [S!Next]_(S!vars)
  BY StepsOfComponents
<1> QED BY <1>1, <1>2, PTL DEF Spec, A!Spec, P!Spec, G!Spec, C!Spec, J!Spec, S!Spec

(* What the store shows as active is on disk under its owner's durable marker, *)
(* for every executor whose workspace was not taken over.                      *)
THEOREM ActiveStaysOwned == Spec => []ActiveIsOwned
<1>1. A!Spec => []A!ActiveIsOwned
  BY RecordsAreOwned, SetupsAssumption
<1>2. A!ActiveIsOwned <=> ActiveIsOwned
  BY DEF ActiveIsOwned
<1> QED BY <1>1, <1>2, WorkspacesImplementComponents, PTL

(* A worker's work is removed only after it is in the project, and no write of *)
(* the store takes back what its file holds.                                   *)
THEOREM WorkStaysKept == Spec => WorkIsKept
<1>1. A!Spec => A!WorkIsKept
  BY WorkersWorkIsKept, SetupsAssumption
<1>2. J!Spec => J!FileOnlyGrows
  BY FileIsNeverCutBack, StoreAssumption
<1> QED BY <1>1, <1>2, WorkspacesImplementComponents, PTL DEF WorkIsKept

(* Preparations, projects, mutations and starts of the store are all or        *)
(* nothing.                                                                    *)
THEOREM AllStaysOrNothing == Spec => []AllOrNothing
<1>1. P!Spec => []P!AllOrNothing
  BY PreparationsAreAllOrNothing, PreparationsAssumption
<1>2. C!Spec => []C!CatalogIsSound
  BY CatalogStaysSound, CatalogsAssumption
<1>3. J!Spec => []J!StoreIsSerial
  BY StoreStaysSerial, StoreAssumption
<1>4. J!Spec => []J!StartKeepsAll
  BY StartsKeepAll, StoreAssumption
<1>5. P!AllOrNothing /\ C!CatalogIsSound /\ J!StoreIsSerial /\ J!StartKeepsAll => AllOrNothing
  BY DEF AllOrNothing
<1> QED BY <1>1, <1>2, <1>3, <1>4, <1>5, WorkspacesImplementComponents, PTL

(* A verification that passed ran a gate of every tier of its stage. *)
THEOREM PassesStayEarned == Spec => []PassedIsEarned
<1>1. G!Spec => []G!PassedIsEarned
  BY PassesAreEarned, GatesAssumption
<1>2. G!PassedIsEarned => PassedIsEarned
  BY DEF PassedIsEarned
<1> QED BY <1>1, <1>2, WorkspacesImplementComponents, PTL

(* Whatever the engine has or may still create for a gate stands in a record, *)
(* and an exit is reported only when all of it is gone.                       *)
THEOREM NothingStaysBehind == Spec => []NothingLeftBehind
<1>1. S!Spec => []S!NothingLeftBehind
  BY NothingIsLeftBehind, SandboxesAssumption
<1>2. S!NothingLeftBehind => NothingLeftBehind
  BY DEF NothingLeftBehind
<1> QED BY <1>1, <1>2, WorkspacesImplementComponents, PTL
=============================================================================
