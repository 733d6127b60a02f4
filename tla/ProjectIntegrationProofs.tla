---------------------- MODULE ProjectIntegrationProofs ----------------------
(***************************************************************************)
(* Proofs about ProjectIntegration, for any set of contributions and any   *)
(* number of faults and crashes.                                           *)
(***************************************************************************)
EXTENDS ProjectIntegration, SequenceTheorems, TLAPS

-----------------------------------------------------------------------------
(* The inductive invariant, part by part.                                  *)

(* From the store's "integrating" to its decision, or to its taking back. *)
Started == {"import", "unimported", "enter", "apply", "abort", "gate", "preVerify", "postVerify",
            "guard", "rollback", "rollbackThrow", "decided", "undo", "undoRecord"}

Decided == {"persisted", "undoDecided", "undoDecision"}

Critical == {"verify", "start"} \cup Started \cup Decided

(* A settlement past its first look at the run holds the authority lock: no
   two are, and the cancellation fence is not written meanwhile. *)
Locking == \A c \in Contribs : pc[c] \in Critical => Holds(c)

(* What a settlement relies on from its first store write to its last. *)
RecordOf(c) ==
    /\ up /\ pc[c] \in {"idle", "waiting", "verify", "start"} => integ[c] = "none"
    /\ pc[c] \in Started => /\ integ[c] = "integrating"
                            /\ before[c] = storeHead
                            /\ attempt[c] = "contribution_ready"
    /\ pc[c] = "decided" => outcome[c] # "none"
    /\ pc[c] \in Decided => outcome[c] = integ[c]
    /\ pc[c] \in Decided /\ outcome[c] = "integrated" => storeHead = Append(before[c], c)
    /\ pc[c] \in {"undoDecided", "undoDecision"} => outcome[c] = "integrated"
    /\ integ[c] = "integrated" => attempt[c] = "integrated"

Recording == \A c \in Contribs : RecordOf(c)

(* Where the checkout is, while its run runs or was cancelled (a live run may
   end before its settlements do) and the checkout is its own. *)
AppliedBy(c) ==
    /\ pc[c] \in {"verify", "start", "import", "unimported", "enter", "apply", "persisted",
                  "undoRecord"} => InStep
    /\ pc[c] = "abort" => canon = storeHead
    /\ pc[c] \in {"gate", "preVerify", "postVerify", "guard"} =>
          canon = Append(storeHead, c) /\ tree = "clean"
    /\ pc[c] = "decided" =>
          /\ canon = IF outcome[c] = "integrated" THEN Append(storeHead, c) ELSE storeHead
          /\ tree = "clean"
    /\ pc[c] = "undoDecision" => canon = before[c] /\ tree = "clean"

Applied ==
    /\ (\A c \in Contribs : pc[c] \notin Critical) => InStep
    /\ \A c \in Contribs : AppliedBy(c)

Checkout == up /\ (runStatus = "running" \/ cancelled) /\ NobodyLost => Applied

(* Once cancel() has written its fence, no settlement is under way: those that
   come to the lock later see the run's cancellation. *)
Fenced ==
    /\ cpc # "idle" => cancelled
    /\ cpc = "done" => \A c \in Contribs : pc[c] \notin Critical

-----------------------------------------------------------------------------
(* The lock.                                                               *)

(* Places a settlement that gave up its lock can be in. *)
Left == {"thrown", "lost", "failed", "completed"}

LockInv ==
    /\ lockQ \in Seq(Contribs \cup {Canceller})
    /\ pc \in [Contribs -> Places]
    /\ ~up => lockQ = <<>>
    /\ Locking

Step(c) == Settlement(c) \/ ImportFails(c) \/ AuthorityLost(c)

(* Every step of a settlement is made under the lock, and keeps it or leaves. *)
Moves(c) ==
    /\ pc[c] \in Critical \cup {"waiting"}
    /\ Holds(c)
    /\ up /\ up' = up
    /\ \/ \E l \in Critical : Goto(c, l)
       \/ \E l \in Left : Leave(c, l)

LEMMA StepMoves ==
    ASSUME LockInv, NEW c \in Contribs, Step(c)
    PROVE  Moves(c)
<1> USE DEF LockInv, Locking, Moves, Critical, Started, Decided, Left, At
<1>1. CASE Begin(c)  BY <1>1 DEF Begin
<1>2. CASE Admitted(c) \/ Denied(c)  BY <1>2 DEF Admitted, Denied
<1>3. CASE PersistStarted(c)  BY <1>3 DEF PersistStarted
<1>4. CASE Import(c) \/ ImportFails(c)  BY <1>4 DEF Import, ImportFails
<1>5. CASE RecordUnimported(c)  BY <1>5 DEF RecordUnimported
<1>6. CASE EnterIntegrating(c)  BY <1>6 DEF EnterIntegrating
<1>7. CASE CherryPick(c) \/ CherryPickConflicts(c) \/ RefuseApply(c)
  BY <1>7 DEF CherryPick, CherryPickConflicts, RefuseApply
<1>8. CASE AbortCherryPick(c)  BY <1>8 DEF AbortCherryPick
<1>9. CASE Gate(c) \/ GuardBeforeVerify(c) \/ PostVerify(c) \/ GuardApplied(c)
  BY <1>9 DEF Gate, GuardBeforeVerify, PostVerify, GuardApplied
<1>10. CASE Rollback(c) \/ RollbackThrow(c)  BY <1>10 DEF Rollback, RollbackThrow
<1>11. CASE PersistDecision(c)  BY <1>11 DEF PersistDecision
<1>12. CASE SettleNode(c) \/ CancelledAfterDecision(c)
  BY <1>12 DEF SettleNode, CancelledAfterDecision
<1>13. CASE RestoreIntegrating(c) \/ PersistIntegratingCancelled(c)
  BY <1>13 DEF RestoreIntegrating, PersistIntegratingCancelled
<1>14. CASE RestoreDecided(c) \/ PersistDecidedCancelled(c)
  BY <1>14 DEF RestoreDecided, PersistDecidedCancelled
<1>15. CASE AuthorityLost(c)
  BY <1>15 DEF AuthorityLost
<1> QED
  BY <1>1, <1>2, <1>3, <1>4, <1>5, <1>6, <1>7, <1>8, <1>9, <1>10, <1>11, <1>12, <1>13, <1>14,
     <1>15 DEF Step, Settlement

(* A queue keeps its head when it grows, and may be shortened while not empty. *)
LEMMA Queues ==
    ASSUME NEW S, NEW q \in Seq(S)
    PROVE  /\ q # <<>> => Tail(q) \in Seq(S)
           /\ \A e \in S : Append(q, e) \in Seq(S)
           /\ \A e \in S : q # <<>> => Append(q, e) # <<>> /\ Head(Append(q, e)) = Head(q)
<1>1. q # <<>> => Tail(q) \in Seq(S)
  BY HeadTailProperties
<1>2. ASSUME NEW e \in S PROVE Append(q, e) \in Seq(S) /\ Append(q, e) # <<>>
  BY AppendProperties
<1>3. ASSUME NEW e \in S, q # <<>> PROVE Head(Append(q, e)) = Head(q)
  BY <1>3, HeadTailAppend
<1> QED  BY <1>1, <1>2, <1>3

(* In a step of one settlement no other is past its wait for the lock. *)
LEMMA OneSettles ==
    ASSUME LockInv, NEW c \in Contribs, Moves(c)
    PROVE  \A d \in Contribs \ {c} : pc[d] \notin Critical /\ pc'[d] = pc[d]
<1>1. ASSUME NEW d \in Contribs \ {c} PROVE pc[d] \notin Critical
  BY <1>1 DEF LockInv, Locking, Moves, Holds
<1>2. ASSUME NEW d \in Contribs \ {c} PROVE pc'[d] = pc[d]
  BY <1>2 DEF LockInv, Moves, Goto, Leave
<1> QED  BY <1>1, <1>2

LEMMA InitLockInv == Init => LockInv
<1>1. <<>> \in Seq(Contribs \cup {Canceller})
  BY EmptySeq
<1> QED
  BY <1>1 DEF Init, LockInv, Locking, Places, Resting, Critical, Started, Decided

LEMMA NextLockInv == LockInv /\ [Next]_vars => LockInv'
<1> SUFFICES ASSUME LockInv, [Next]_vars PROVE LockInv'
  OBVIOUS
<1> USE IntegrationAssumption
<1>q. /\ lockQ # <<>> => Tail(lockQ) \in Seq(Contribs \cup {Canceller})
      /\ \A e \in Contribs \cup {Canceller} :
            /\ Append(lockQ, e) \in Seq(Contribs \cup {Canceller})
            /\ lockQ # <<>> => Append(lockQ, e) # <<>> /\ Head(Append(lockQ, e)) = Head(lockQ)
  BY Queues DEF LockInv
<1>1. ASSUME NEW c \in Contribs, Step(c) PROVE LockInv'
  <2>1. Moves(c) /\ lockQ # <<>> /\ Head(lockQ) = c /\ up'
    BY <1>1, StepMoves DEF Moves, Holds
  <2>2. \A d \in Contribs \ {c} : pc[d] \notin Critical /\ pc'[d] = pc[d]
    BY <2>1, OneSettles
  <2>3. CASE \E l \in Critical : Goto(c, l)
    BY <2>1, <2>2, <2>3
       DEF Goto, LockInv, Locking, Holds, Critical, Started, Decided, Places, Resting
  <2>4. CASE \E l \in Left : Leave(c, l)
    BY <2>1, <2>2, <2>4, <1>q
       DEF Leave, LockInv, Locking, Holds, Left, Critical, Started, Decided, Places, Resting
  <2> QED  BY <2>1, <2>3, <2>4 DEF Moves
<1>2. ASSUME NEW c \in Contribs, RequestLock(c) PROVE LockInv'
  BY <1>2, <1>q DEF RequestLock, At, LockInv, Locking, Holds, Critical, Started, Decided, Places
<1>3. CASE CancelLocks
  BY <1>3, <1>q DEF CancelLocks, LockInv, Locking, Holds
<1>4. CASE Fence
  <2>1. \A c \in Contribs : pc[c] \notin Critical
    BY <1>4 DEF Fence, Holds, LockInv, Locking
  <2> QED  BY <1>4, <2>1, <1>q DEF Fence, Holds, LockInv, Locking
<1>5. CASE Crash
  <2>1. <<>> \in Seq(Contribs \cup {Canceller})
    BY EmptySeq
  <2> QED
    BY <1>5, <2>1 DEF Crash, LockInv, Locking, Critical, Started, Decided, Places, Resting
<1>6. ASSUME RunEnds \/ Recover \/ UNCHANGED vars \/ \E r \in Stops : Stop(r)
      PROVE  LockInv'
  BY <1>6 DEF RunEnds, Recover, vars, Stop, process, LockInv, Locking, Holds
<1> QED
  BY <1>1, <1>2, <1>3, <1>4, <1>5, <1>6 DEF Next, Step

-----------------------------------------------------------------------------
(* Types.                                                                  *)

LEMMA InitTypeOK == Init => TypeOK
<1> SUFFICES ASSUME Init PROVE TypeOK
  OBVIOUS
<1>1. <<>> \in Seq(Contribs) /\ <<>> \in Seq(Contribs \cup {Canceller})
  BY EmptySeq
<1>2. canon \in Seq(Contribs) /\ storeHead \in Seq(Contribs) /\ before \in [Contribs -> Seq(Contribs)]
  BY <1>1 DEF Init
<1>3. pc \in [Contribs -> Places] /\ lockQ \in Seq(Contribs \cup {Canceller})
  BY <1>1 DEF Init, Places, Resting
<1> QED
  BY <1>2, <1>3 DEF Init, TypeOK, IntegStates, Interrupted

LEMMA NextTypeOK == TypeOK /\ LockInv /\ LockInv' /\ [Next]_vars => TypeOK'
<1> SUFFICES ASSUME TypeOK, LockInv, LockInv', [Next]_vars PROVE TypeOK'
  OBVIOUS
<1>p. pc' \in [Contribs -> Places] /\ lockQ' \in Seq(Contribs \cup {Canceller})
  BY DEF LockInv
<1>a. \A s \in Seq(Contribs), c \in Contribs : Append(s, c) \in Seq(Contribs)
  BY AppendProperties
<1> USE IntegrationAssumption, <1>p
    DEF TypeOK, IntegStates, Interrupted, checkout, records, process, control, bounds
<1>1. ASSUME NEW c \in Contribs, Step(c) PROVE TypeOK'
  <2>1. CASE Begin(c)  BY <2>1, ZenonT(60) DEF Begin
  <2>2. CASE Admitted(c)  BY <2>2 DEF Admitted
  <2>3. CASE Denied(c)  BY <2>3 DEF Denied
  <2>4. CASE PersistStarted(c)
    <3>1. integ' \in [Contribs -> IntegStates] /\ before' \in [Contribs -> Seq(Contribs)]
      <4>1. CASE UNCHANGED records  BY <4>1
      <4>2. CASE integ' = [integ EXCEPT ![c] = "integrating"]
                 /\ before' = [before EXCEPT ![c] = storeHead]
        BY <4>2
      <4> QED  BY <2>4, <4>1, <4>2 DEF PersistStarted
    <3>2. UNCHANGED <<storeHead, why, attempt, node, canon, tree, runStatus, up, outcome, fresh, cpc,
                      stopped, cancelled, faults, crashes>>
      BY <2>4 DEF PersistStarted
    <3> QED  BY <3>1, <3>2
  <2>5. CASE Import(c)  BY <2>5 DEF Import
  <2>6. CASE ImportFails(c)  BY <2>6 DEF ImportFails, Fault
  <2>7. CASE RecordUnimported(c)  BY <2>7, ZenonT(60) DEF RecordUnimported
  <2>8. CASE EnterIntegrating(c)  BY <2>8 DEF EnterIntegrating
  <2>9. CASE CherryPick(c)  BY <2>9, <1>a DEF CherryPick
  <2>10. CASE CherryPickConflicts(c)  BY <2>10 DEF CherryPickConflicts
  <2>11. CASE RefuseApply(c)  BY <2>11 DEF RefuseApply
  <2>12. CASE AbortCherryPick(c)  BY <2>12 DEF AbortCherryPick, Decide
  <2>13. CASE Gate(c)  BY <2>13 DEF Gate
  <2>14. CASE GuardBeforeVerify(c)  BY <2>14 DEF GuardBeforeVerify
  <2>15. CASE PostVerify(c)  BY <2>15 DEF PostVerify
  <2>16. CASE GuardApplied(c)  BY <2>16 DEF GuardApplied, Decide
  <2>17. CASE Rollback(c)  BY <2>17 DEF Rollback, Restore, Decide
  <2>18. CASE RollbackThrow(c)  BY <2>18 DEF RollbackThrow, Restore
  <2>19. CASE PersistDecision(c)
    <3>1. CASE UNCHANGED records
      BY <2>19, <3>1 DEF PersistDecision
    <3>2. CASE ~UNCHANGED records
      <4>1. /\ integ' = [integ EXCEPT ![c] = outcome[c]]
            /\ storeHead' \in {Append(before[c], c), before[c]}
            /\ \E s \in {"integrated", "failed"} : attempt' = [attempt EXCEPT ![c] = s]
            /\ UNCHANGED <<why, before, node>>
        BY <2>19, <3>2 DEF PersistDecision
      <4>2. UNCHANGED <<canon, tree, runStatus, up, outcome, fresh, cpc, stopped, cancelled, faults,
                        crashes>>
        BY <2>19 DEF PersistDecision
      <4>3. storeHead' \in Seq(Contribs)
        <5>1. before[c] \in Seq(Contribs)
          OBVIOUS
        <5>2. Append(before[c], c) \in Seq(Contribs)
          BY <5>1, <1>a
        <5> QED  BY <4>1, <5>1, <5>2
      <4>4. integ' \in [Contribs -> IntegStates]
        BY <4>1
      <4>5. attempt' \in [Contribs -> {"contribution_ready", "integrated", "failed", "cancelled"}]
        BY <4>1
      <4> QED  BY <4>1, <4>2, <4>3, <4>4, <4>5
    <3> QED  BY <3>1, <3>2
  <2>20. CASE SettleNode(c)  BY <2>20 DEF SettleNode
  <2>21. CASE CancelledAfterDecision(c)  BY <2>21 DEF CancelledAfterDecision
  <2>22. CASE RestoreIntegrating(c)  BY <2>22 DEF RestoreIntegrating, Restore
  <2>23. CASE PersistIntegratingCancelled(c)
    BY <2>23, ZenonT(60) DEF PersistIntegratingCancelled, RecordCancelled
  <2>24. CASE RestoreDecided(c)  BY <2>24 DEF RestoreDecided, Restore
  <2>25. CASE PersistDecidedCancelled(c)
    <3>1. CASE Healing
      <4>1. /\ storeHead' = before[c]
            /\ integ' = [integ EXCEPT ![c] = "rolled_back"]
            /\ why' = [why EXCEPT ![c] = "user_cancelled"]
            /\ attempt' = [attempt EXCEPT ![c] = "cancelled"]
            /\ node' = [node EXCEPT ![c] = "cancelled"]
            /\ UNCHANGED <<canon, tree, before, runStatus, up, outcome, fresh, cpc, stopped,
                           cancelled, faults, crashes>>
        BY <2>25, <3>1 DEF PersistDecidedCancelled, RecordCancelled
      <4>2. storeHead' \in Seq(Contribs)
        BY <4>1
      <4> QED  BY <4>1, <4>2
    <3>2. CASE ~Healing
      BY <2>25, <3>2 DEF PersistDecidedCancelled
    <3> QED  BY <3>1, <3>2
  <2>26. CASE AuthorityLost(c)  BY <2>26 DEF AuthorityLost, Fault
  <2> QED
    BY <1>1, <2>1, <2>2, <2>3, <2>4, <2>5, <2>6, <2>7, <2>8, <2>9, <2>10, <2>11, <2>12, <2>13,
       <2>14, <2>15, <2>16, <2>17, <2>18, <2>19, <2>20, <2>21, <2>22, <2>23, <2>24, <2>25, <2>26
       DEF Step, Settlement
<1>2. ASSUME NEW c \in Contribs, RequestLock(c) PROVE TypeOK'
  BY <1>2 DEF RequestLock
<1>3. ASSUME NEW r \in Stops, Stop(r) PROVE TypeOK'
  BY <1>3 DEF Stop
<1>4. CASE CancelLocks  BY <1>4 DEF CancelLocks
<1>5. CASE Fence  BY <1>5 DEF Fence
<1>6. CASE RunEnds  BY <1>6 DEF RunEnds
<1>7. CASE Crash
  <2>1. crashes' \in Nat
    BY <1>7 DEF Crash
  <2>2. UNCHANGED <<canon, tree, storeHead, integ, why, before, attempt, node, runStatus, faults>>
    BY <1>7 DEF Crash
  <2>3. /\ outcome' \in [Contribs -> {"none", "integrated", "conflicted", "rolled_back"}]
        /\ up' = FALSE /\ fresh' = {} /\ cpc' = "idle" /\ stopped' = "none" /\ cancelled' = FALSE
    BY <1>7 DEF Crash
  <2> QED  BY <2>1, <2>2, <2>3
<1>8. CASE Recover
  <2>1. integ' \in [Contribs -> IntegStates]
    BY <1>8 DEF Recover
  <2>2. why' \in [Contribs -> {"none", "contribution_import_failed", "user_cancelled",
                              "server_restarted", "restart_canonical_head_mismatch"}]
    BY <1>8 DEF Recover
  <2>3. /\ attempt' \in [Contribs -> {"contribution_ready", "integrated", "failed", "cancelled"}]
        /\ node' \in [Contribs -> Interrupted \cup {"completed", "failed", "cancelled"}]
        /\ runStatus' = "cancelled"
    BY <1>8 DEF Recover
  <2> QED  BY <1>8, <2>1, <2>2, <2>3 DEF Recover
<1>9. CASE UNCHANGED vars  BY <1>9 DEF vars
<1> QED
  BY <1>1, <1>2, <1>3, <1>4, <1>5, <1>6, <1>7, <1>8, <1>9 DEF Next, Step

TypeInv == TypeOK /\ LockInv

LEMMA TypeInvAlways == Spec => []TypeInv
<1>1. Init => TypeInv
  BY InitTypeOK, InitLockInv DEF TypeInv
<1>2. TypeInv /\ [Next]_vars => TypeInv'
  BY NextTypeOK, NextLockInv DEF TypeInv
<1> QED  BY <1>1, <1>2, PTL DEF Spec

(* Every variable keeps to its type, in every reachable state. *)
THEOREM TypeCorrect == Spec => []TypeOK
<1>1. TypeInv => TypeOK
  BY DEF TypeInv
<1> QED  BY TypeInvAlways, <1>1, PTL

-----------------------------------------------------------------------------
(* The records.                                                            *)

(* A step of a settlement writes nothing about another contribution. *)
LEMMA StepFrame ==
    ASSUME TypeInv, NEW c \in Contribs, Step(c), NEW d \in Contribs \ {c}
    PROVE  /\ integ'[d] = integ[d] /\ before'[d] = before[d]
           /\ attempt'[d] = attempt[d] /\ outcome'[d] = outcome[d]
<1> USE DEF TypeInv, TypeOK, checkout, records, process, control, bounds
<1>1. ASSUME Begin(c) \/ Admitted(c) \/ Denied(c) \/ Import(c) \/ ImportFails(c)
             \/ EnterIntegrating(c) \/ CherryPick(c) \/ CherryPickConflicts(c) \/ RefuseApply(c)
             \/ Gate(c) \/ GuardBeforeVerify(c) \/ PostVerify(c) \/ RollbackThrow(c)
             \/ SettleNode(c) \/ CancelledAfterDecision(c) \/ RestoreIntegrating(c)
             \/ RestoreDecided(c) \/ AuthorityLost(c)
      PROVE  UNCHANGED <<integ, before, attempt, outcome>>
  BY <1>1 DEF Begin, Admitted, Denied, Import, ImportFails, EnterIntegrating, CherryPick,
     CherryPickConflicts, RefuseApply, Gate, GuardBeforeVerify, PostVerify, RollbackThrow,
     SettleNode, CancelledAfterDecision, RestoreIntegrating, RestoreDecided, AuthorityLost
<1>2. CASE AbortCherryPick(c) \/ GuardApplied(c) \/ Rollback(c)
  BY <1>2 DEF AbortCherryPick, GuardApplied, Rollback, Decide
<1>3. CASE PersistStarted(c)  BY <1>3 DEF PersistStarted
<1>4. CASE RecordUnimported(c)  BY <1>4 DEF RecordUnimported
<1>5. CASE PersistDecision(c)  BY <1>5 DEF PersistDecision
<1>6. CASE PersistIntegratingCancelled(c)
  BY <1>6 DEF PersistIntegratingCancelled, RecordCancelled
<1>7. CASE PersistDecidedCancelled(c)
  BY <1>7 DEF PersistDecidedCancelled, RecordCancelled
<1> QED
  BY <1>1, <1>2, <1>3, <1>4, <1>5, <1>6, <1>7 DEF Step, Settlement

LEMMA InitRecording == Init => Recording
  BY DEF Init, Recording, RecordOf, Started, Decided

LEMMA NextRecording == TypeInv /\ Recording /\ [Next]_vars => Recording'
<1> SUFFICES ASSUME TypeInv, Recording, [Next]_vars PROVE Recording'
  OBVIOUS
<1> USE DEF TypeInv, TypeOK, checkout, records, process, control, bounds
<1>1. ASSUME NEW c \in Contribs, Step(c) PROVE RecordOf(c)'
  <2> USE DEF Recording, RecordOf, Started, Decided, At, Goto, Leave
  <2>1. CASE Begin(c)  BY <2>1 DEF Begin
  <2>2. CASE Admitted(c)  BY <2>2 DEF Admitted
  <2>3. CASE Denied(c)  BY <2>3 DEF Denied
  <2>4. CASE PersistStarted(c)
    <3>1. CASE pc'[c] = "thrown"
      BY <2>4, <3>1 DEF PersistStarted
    <3>2. CASE pc'[c] # "thrown"
      <4>1. /\ integ'[c] = "integrating" /\ before'[c] = storeHead /\ storeHead' = storeHead
            /\ attempt'[c] = "contribution_ready" /\ pc'[c] = "import"
        BY <2>4, <3>2 DEF PersistStarted, StillRunning
      <4> QED  BY <4>1
    <3> QED  BY <3>1, <3>2
  <2>5. CASE Import(c)  BY <2>5 DEF Import
  <2>6. CASE ImportFails(c)  BY <2>6 DEF ImportFails
  <2>7. CASE RecordUnimported(c)  BY <2>7 DEF RecordUnimported
  <2>8. CASE EnterIntegrating(c)  BY <2>8 DEF EnterIntegrating
  <2>9. CASE CherryPick(c)  BY <2>9 DEF CherryPick
  <2>10. CASE CherryPickConflicts(c)  BY <2>10 DEF CherryPickConflicts
  <2>11. CASE RefuseApply(c)  BY <2>11 DEF RefuseApply
  <2>12. CASE AbortCherryPick(c)  BY <2>12 DEF AbortCherryPick, Decide
  <2>13. CASE Gate(c)  BY <2>13 DEF Gate
  <2>14. CASE GuardBeforeVerify(c)  BY <2>14 DEF GuardBeforeVerify
  <2>15. CASE PostVerify(c)  BY <2>15 DEF PostVerify
  <2>16. CASE GuardApplied(c)  BY <2>16 DEF GuardApplied, Decide
  <2>17. CASE Rollback(c)  BY <2>17 DEF Rollback, Restore, Decide
  <2>18. CASE RollbackThrow(c)  BY <2>18 DEF RollbackThrow
  <2>19. CASE PersistDecision(c)  BY <2>19 DEF PersistDecision
  <2>20. CASE SettleNode(c)  BY <2>20 DEF SettleNode
  <2>21. CASE CancelledAfterDecision(c)  BY <2>21 DEF CancelledAfterDecision
  <2>22. CASE RestoreIntegrating(c)  BY <2>22 DEF RestoreIntegrating
  <2>23. CASE PersistIntegratingCancelled(c)  BY <2>23 DEF PersistIntegratingCancelled, RecordCancelled
  <2>24. CASE RestoreDecided(c)  BY <2>24 DEF RestoreDecided
  <2>25. CASE PersistDecidedCancelled(c)  BY <2>25 DEF PersistDecidedCancelled, RecordCancelled
  <2>26. CASE AuthorityLost(c)  BY <2>26 DEF AuthorityLost
  <2> QED
    BY <1>1, <2>1, <2>2, <2>3, <2>4, <2>5, <2>6, <2>7, <2>8, <2>9, <2>10, <2>11, <2>12, <2>13,
       <2>14, <2>15, <2>16, <2>17, <2>18, <2>19, <2>20, <2>21, <2>22, <2>23, <2>24, <2>25, <2>26
       DEF Step, Settlement
<1>2. ASSUME NEW c \in Contribs, Step(c), NEW d \in Contribs \ {c} PROVE RecordOf(d)'
  <2>1. pc[d] \notin Critical /\ pc'[d] = pc[d] /\ up
    BY <1>2, StepMoves, OneSettles DEF Moves
  <2>2. /\ integ'[d] = integ[d] /\ attempt'[d] = attempt[d]
    BY <1>2, StepFrame
  <2> QED  BY <2>1, <2>2 DEF Recording, RecordOf, Critical, Started, Decided
<1>3. ASSUME NEW c \in Contribs, RequestLock(c) PROVE Recording'
  BY <1>3 DEF RequestLock, Recording, RecordOf, Started, Decided, At
<1>4. CASE CancelLocks  BY <1>4 DEF CancelLocks, Recording, RecordOf
<1>5. CASE Fence
  <2>1. \A c \in Contribs : pc[c] \notin Critical
    BY <1>5, IntegrationAssumption DEF Fence, Holds, LockInv, Locking
  <2> QED  BY <1>5, <2>1 DEF Fence, Recording, RecordOf, Critical, Started, Decided
<1>6. CASE Crash  BY <1>6 DEF Crash, Recording, RecordOf, Started, Decided
<1>7. CASE Recover
  <2>1. \A c \in Contribs : pc[c] \notin Critical
    BY <1>7 DEF Recover, Holds, LockInv, Locking
  <2> QED  BY <1>7, <2>1 DEF Recover, Recording, RecordOf, Critical, Started, Decided
<1>8. ASSUME RunEnds \/ UNCHANGED vars \/ \E r \in Stops : Stop(r)
      PROVE  Recording'
  BY <1>8 DEF RunEnds, vars, Stop, Recording, RecordOf
<1> QED
  BY <1>1, <1>2, <1>3, <1>4, <1>5, <1>6, <1>7, <1>8 DEF Next, Step, Recording

LEMMA RecordingAlways == Spec => [](TypeInv /\ Recording)
<1>1. Init => TypeInv /\ Recording
  BY InitTypeOK, InitLockInv, InitRecording DEF TypeInv
<1>2. TypeInv /\ Recording /\ [Next]_vars => (TypeInv /\ Recording)'
  BY NextTypeOK, NextLockInv, NextRecording DEF TypeInv
<1> QED  BY <1>1, <1>2, PTL DEF Spec

-----------------------------------------------------------------------------
(* The project's head.                                                     *)

Members(s) == {s[i] : i \in DOMAIN s}

Distinct(s) == \A i, j \in DOMAIN s : s[i] = s[j] => i = j

(* One more contribution in a head, and one less. *)
LEMMA AppendMembers ==
    ASSUME NEW s \in Seq(Contribs), NEW c \in Contribs
    PROVE  /\ Members(Append(s, c)) = Members(s) \cup {c}
           /\ Distinct(s) /\ c \notin Members(s) => Distinct(Append(s, c))
           /\ Distinct(Append(s, c)) => Distinct(s) /\ c \notin Members(s)
<1> DEFINE t == Append(s, c)
           n == Len(s)
<1>1. /\ n \in Nat /\ DOMAIN s = 1 .. n /\ DOMAIN t = 1 .. n + 1
      /\ \A i \in 1 .. n : t[i] = s[i]
      /\ t[n + 1] = c
  BY AppendProperties, LenProperties
<1> HIDE DEF t, n
<1>2. \A i \in DOMAIN t : i \in DOMAIN s \/ i = n + 1
  BY <1>1
<1>3. n + 1 \in DOMAIN t /\ n + 1 \notin DOMAIN s /\ DOMAIN s \subseteq DOMAIN t
  BY <1>1
<1>4. \A i \in DOMAIN s : t[i] = s[i]
  BY <1>1
<1>5. Members(t) = Members(s) \cup {c}
  BY <1>1, <1>2, <1>3, <1>4 DEF Members
<1>6. ASSUME Distinct(s), c \notin Members(s) PROVE Distinct(t)
  <2> SUFFICES ASSUME NEW i \in DOMAIN t, NEW j \in DOMAIN t, t[i] = t[j] PROVE i = j
    BY DEF Distinct
  <2>1. CASE i \in DOMAIN s /\ j \in DOMAIN s
    BY <1>4, <1>6, <2>1 DEF Distinct
  <2>2. CASE i = n + 1 /\ j \in DOMAIN s
    BY <1>1, <1>4, <1>6, <2>2 DEF Members
  <2>3. CASE i \in DOMAIN s /\ j = n + 1
    BY <1>1, <1>4, <1>6, <2>3 DEF Members
  <2> QED  BY <1>2, <2>1, <2>2, <2>3
<1>7. ASSUME Distinct(t) PROVE Distinct(s) /\ c \notin Members(s)
  <2>1. Distinct(s)
    BY <1>3, <1>4, <1>7 DEF Distinct
  <2>2. ASSUME c \in Members(s) PROVE FALSE
    <3>1. PICK i \in DOMAIN s : s[i] = c
      BY <2>2 DEF Members
    <3>2. t[i] = t[n + 1] /\ i \in DOMAIN t
      BY <1>1, <1>3, <1>4, <3>1
    <3> QED  BY <1>3, <1>7, <3>2 DEF Distinct
  <2> QED  BY <2>1, <2>2
<1> QED  BY <1>5, <1>6, <1>7 DEF t

Integrated == {c \in Contribs : integ[c] = "integrated"}

(* The two writes of a decision; nothing else moves the head or the set of
   integrated contributions. *)
LEMMA HeadStep ==
    ASSUME TypeInv, Recording, NEW c \in Contribs, Step(c)
    PROVE  \/ storeHead' = storeHead /\ Integrated' = Integrated
           \/ /\ storeHead' = Append(storeHead, c)
              /\ integ[c] = "integrating"
              /\ Integrated' = Integrated \cup {c}
           \/ /\ before[c] \in Seq(Contribs)
              /\ storeHead = Append(before[c], c)
              /\ storeHead' = before[c]
              /\ integ[c] = "integrated" /\ integ'[c] = "rolled_back"
              /\ Integrated' = Integrated \ {c}
<1> USE DEF TypeInv, TypeOK, At, checkout, records, process, control, bounds
<1>1. ASSUME Begin(c) \/ Admitted(c) \/ Denied(c) \/ Import(c) \/ ImportFails(c)
             \/ EnterIntegrating(c) \/ CherryPick(c) \/ CherryPickConflicts(c) \/ RefuseApply(c)
             \/ Gate(c) \/ GuardBeforeVerify(c) \/ PostVerify(c) \/ RollbackThrow(c)
             \/ SettleNode(c) \/ CancelledAfterDecision(c) \/ RestoreIntegrating(c)
             \/ RestoreDecided(c) \/ AuthorityLost(c)
             \/ AbortCherryPick(c) \/ GuardApplied(c) \/ Rollback(c)
      PROVE  UNCHANGED <<storeHead, integ>>
  BY <1>1 DEF Begin, Admitted, Denied, Import, ImportFails, EnterIntegrating, CherryPick,
     CherryPickConflicts, RefuseApply, Gate, GuardBeforeVerify, PostVerify, RollbackThrow,
     SettleNode, CancelledAfterDecision, RestoreIntegrating, RestoreDecided, AuthorityLost,
     AbortCherryPick, GuardApplied, Rollback
<1>2. CASE PersistStarted(c)
  <2>1. CASE UNCHANGED records  BY <2>1 DEF Integrated
  <2>2. CASE ~UNCHANGED records
    <3>1. integ' = [integ EXCEPT ![c] = "integrating"] /\ storeHead' = storeHead
          /\ integ[c] # "integrated"
      BY <1>2, <2>2 DEF PersistStarted, StillRunning, Recording, RecordOf
    <3> QED  BY <3>1 DEF Integrated
  <2> QED  BY <2>1, <2>2
<1>3. CASE RecordUnimported(c)
  <2>1. CASE UNCHANGED records  BY <2>1 DEF Integrated
  <2>2. CASE ~UNCHANGED records
    <3>1. integ' = [integ EXCEPT ![c] = "rolled_back"] /\ storeHead' = storeHead
          /\ integ[c] # "integrated"
      BY <1>3, <2>2 DEF RecordUnimported, Recording, RecordOf, Started
    <3> QED  BY <3>1 DEF Integrated
  <2> QED  BY <2>1, <2>2
<1>4. CASE PersistDecision(c)
  <2>1. CASE UNCHANGED records  BY <2>1 DEF Integrated
  <2>2. CASE ~UNCHANGED records
    <3>1. /\ integ' = [integ EXCEPT ![c] = outcome[c]]
          /\ storeHead' = IF outcome[c] = "integrated" THEN Append(before[c], c) ELSE before[c]
      BY <1>4, <2>2 DEF PersistDecision
    <3>2. integ[c] = "integrating" /\ before[c] = storeHead
      BY <1>4 DEF PersistDecision, Recording, RecordOf, Started
    <3> QED  BY <3>1, <3>2 DEF Integrated
  <2> QED  BY <2>1, <2>2
<1>5. CASE PersistIntegratingCancelled(c)
  <2>1. storeHead' = storeHead /\ integ[c] # "integrated"
    BY <1>5 DEF PersistIntegratingCancelled, Recording, RecordOf, Started
  <2>2. integ' \in {integ, [integ EXCEPT ![c] = "rolled_back"]}
    BY <1>5 DEF PersistIntegratingCancelled, RecordCancelled
  <2> QED  BY <2>1, <2>2 DEF Integrated
<1>6. CASE PersistDecidedCancelled(c)
  <2>1. CASE Healing
    <3>1. /\ before[c] \in Seq(Contribs)
          /\ storeHead = Append(before[c], c) /\ integ[c] = "integrated"
      BY <1>6 DEF PersistDecidedCancelled, Recording, RecordOf, Decided
    <3>2. storeHead' = before[c] /\ integ' = [integ EXCEPT ![c] = "rolled_back"]
      BY <1>6, <2>1 DEF PersistDecidedCancelled, RecordCancelled
    <3> QED  BY <3>1, <3>2 DEF Integrated
  <2>2. CASE ~Healing
    BY <1>6, <2>2 DEF PersistDecidedCancelled, Integrated
  <2> QED  BY <2>1, <2>2
<1> QED
  BY <1>1, <1>2, <1>3, <1>4, <1>5, <1>6 DEF Step, Settlement, Integrated

(* Outside the settlements: a restart refuses what was being integrated. *)
LEMMA HeadKept ==
    ASSUME TypeInv, [Next]_vars, \A c \in Contribs : ~Step(c)
    PROVE  /\ storeHead' = storeHead
           /\ Integrated' = Integrated
<1> USE DEF TypeInv, TypeOK, checkout, records, process, control, bounds, Integrated
<1>1. ASSUME NEW c \in Contribs, RequestLock(c) PROVE UNCHANGED <<storeHead, integ>>
  BY <1>1 DEF RequestLock
<1>2. ASSUME NEW r \in Stops, Stop(r) PROVE UNCHANGED <<storeHead, integ>>
  BY <1>2 DEF Stop
<1>3. ASSUME CancelLocks \/ Fence \/ RunEnds \/ Crash \/ UNCHANGED vars
      PROVE  UNCHANGED <<storeHead, integ>>
  BY <1>3 DEF CancelLocks, Fence, RunEnds, Crash, vars
<1>4. ASSUME Recover
      PROVE  storeHead' = storeHead /\ Integrated' = Integrated
  <2>1. storeHead' = storeHead
    BY <1>4 DEF Recover
  <2>2. \A c \in Contribs : integ'[c] = "integrated" <=> integ[c] = "integrated"
    BY <1>4 DEF Recover
  <2> QED  BY <2>1, <2>2
<1> QED
  BY <1>1, <1>2, <1>3, <1>4 DEF Next, Step

LEMMA NextHead == TypeInv /\ Recording /\ HeadIsIntegrated /\ [Next]_vars => HeadIsIntegrated'
<1> SUFFICES ASSUME TypeInv, Recording, HeadIsIntegrated, [Next]_vars PROVE HeadIsIntegrated'
  OBVIOUS
<1>1. Members(storeHead) = Integrated /\ Distinct(storeHead)
  BY DEF HeadIsIntegrated, Members, Distinct, Integrated
<1>2. Members(storeHead') = Integrated' /\ Distinct(storeHead')
  <2>1. ASSUME NEW c \in Contribs, Step(c)
        PROVE  Members(storeHead') = Integrated' /\ Distinct(storeHead')
    <3>1. CASE storeHead' = storeHead /\ Integrated' = Integrated
      BY <3>1, <1>1
    <3>2. CASE /\ storeHead' = Append(storeHead, c)
               /\ integ[c] = "integrating"
               /\ Integrated' = Integrated \cup {c}
      <4>1. c \notin Members(storeHead) /\ storeHead \in Seq(Contribs)
        BY <3>2, <1>1 DEF Integrated, TypeInv, TypeOK
      <4> QED  BY <3>2, <4>1, <1>1, AppendMembers
    <3>3. CASE /\ before[c] \in Seq(Contribs)
               /\ storeHead = Append(before[c], c)
               /\ storeHead' = before[c]
               /\ integ[c] = "integrated" /\ integ'[c] = "rolled_back"
               /\ Integrated' = Integrated \ {c}
      <4>1. /\ Members(storeHead) = Members(before[c]) \cup {c}
            /\ Distinct(before[c]) /\ c \notin Members(before[c])
        BY <3>3, <1>1, AppendMembers
      <4> QED  BY <3>3, <4>1, <1>1
    <3> QED  BY <2>1, <3>1, <3>2, <3>3, HeadStep
  <2>2. CASE \A c \in Contribs : ~Step(c)
    BY <2>2, <1>1, HeadKept
  <2> QED  BY <2>1, <2>2
<1> QED
  BY <1>2 DEF HeadIsIntegrated, Members, Distinct, Integrated

(* At every moment, across rollbacks, cancellations and crashes, the project's
   head holds exactly the contributions recorded as integrated, each once. *)
THEOREM HeadMatchesRecords == Spec => []HeadIsIntegrated
<1>1. Init => HeadIsIntegrated
  <2> SUFFICES ASSUME Init PROVE HeadIsIntegrated
    OBVIOUS
  <2>1. DOMAIN <<>> = {}
    OBVIOUS
  <2> QED  BY <2>1 DEF Init, HeadIsIntegrated
<1> QED
  BY <1>1, NextHead, RecordingAlways, PTL DEF Spec

-----------------------------------------------------------------------------
(* What is applied.                                                        *)

(* The places of a settlement whose contribution is not in the checkout. *)
Aside == {"idle", "waiting", "verify", "start", "import", "unimported", "enter", "apply", "abort",
          "undoRecord", "undoDecision"}

OffCheckout(c) ==
    up /\ (pc[c] \in Aside \/ (pc[c] = "decided" /\ outcome[c] # "integrated"))
        => c \notin Members(canon)

OnRecord(c) == c \in Members(canon) => integ[c] \in {"integrating", "integrated"}

Traced == \A c \in Contribs : OffCheckout(c) /\ OnRecord(c)

(* A settlement takes the checkout further by its own contribution, or back to
   where it found it. *)
LEMMA CheckoutMoves ==
    ASSUME NEW c \in Contribs, Step(c)
    PROVE  \/ canon' = canon
           \/ canon' = Append(canon, c) /\ CherryPick(c)
           \/ canon' = before[c] /\ pc[c] \in {"rollback", "rollbackThrow", "undo", "undoDecided"}
<1> USE DEF Step, Settlement, At, checkout
<1>1. ASSUME Rollback(c) \/ RollbackThrow(c) \/ RestoreIntegrating(c) \/ RestoreDecided(c)
      PROVE  canon' = before[c] /\ pc[c] \in {"rollback", "rollbackThrow", "undo", "undoDecided"}
  BY <1>1 DEF Rollback, RollbackThrow, RestoreIntegrating, RestoreDecided, Restore
<1>2. ASSUME CherryPick(c) PROVE canon' = Append(canon, c)
  BY <1>2 DEF CherryPick
<1>3. ASSUME ~(Rollback(c) \/ RollbackThrow(c) \/ RestoreIntegrating(c) \/ RestoreDecided(c)),
             ~CherryPick(c)
      PROVE  canon' = canon
  BY <1>3 DEF Begin, Admitted, Denied, PersistStarted, Import, ImportFails, RecordUnimported,
     EnterIntegrating, CherryPickConflicts, RefuseApply, AbortCherryPick, Gate, GuardBeforeVerify,
     PostVerify, GuardApplied, PersistDecision, SettleNode, CancelledAfterDecision,
     PersistIntegratingCancelled, PersistDecidedCancelled, AuthorityLost
<1> QED  BY <1>1, <1>2, <1>3

(* Where it found it is a head without this contribution. *)
LEMMA BeforeIsRecorded ==
    ASSUME TypeInv, Recording, HeadIsIntegrated, NEW c \in Contribs,
           pc[c] \in {"rollback", "rollbackThrow", "undo", "undoDecided"}
    PROVE  Members(before[c]) \subseteq Integrated \ {c}
<1>1. Members(storeHead) = Integrated /\ Distinct(storeHead)
  BY DEF HeadIsIntegrated, Members, Distinct, Integrated
<1>2. before[c] \in Seq(Contribs)
  BY DEF TypeInv, TypeOK
<1>3. CASE pc[c] = "undoDecided"
  <2>1. storeHead = Append(before[c], c)
    BY <1>3 DEF Recording, RecordOf, Decided
  <2> QED  BY <1>1, <1>2, <2>1, AppendMembers
<1>4. CASE pc[c] # "undoDecided"
  <2>1. before[c] = storeHead /\ integ[c] = "integrating"
    BY <1>4 DEF Recording, RecordOf, Started
  <2> QED  BY <1>1, <2>1 DEF Integrated
<1> QED  BY <1>3, <1>4

(* A record is closed only where the contribution is not in the checkout. *)
LEMMA RecordCloses ==
    ASSUME TypeInv, Recording, NEW c \in Contribs, Step(c),
           integ'[c] \notin {integ[c], "integrating", "integrated"}
    PROVE  /\ canon' = canon
           /\ up /\ (pc[c] \in Aside \/ (pc[c] = "decided" /\ outcome[c] # "integrated"))
<1> USE DEF TypeInv, TypeOK, At, Aside, checkout, records, process, control, bounds
<1>1. ASSUME Begin(c) \/ Admitted(c) \/ Denied(c) \/ Import(c) \/ ImportFails(c)
             \/ EnterIntegrating(c) \/ CherryPick(c) \/ CherryPickConflicts(c) \/ RefuseApply(c)
             \/ Gate(c) \/ GuardBeforeVerify(c) \/ PostVerify(c) \/ RollbackThrow(c)
             \/ SettleNode(c) \/ CancelledAfterDecision(c) \/ RestoreIntegrating(c)
             \/ RestoreDecided(c) \/ AuthorityLost(c)
             \/ AbortCherryPick(c) \/ GuardApplied(c) \/ Rollback(c)
      PROVE  FALSE
  BY <1>1 DEF Begin, Admitted, Denied, Import, ImportFails, EnterIntegrating, CherryPick,
     CherryPickConflicts, RefuseApply, Gate, GuardBeforeVerify, PostVerify, RollbackThrow,
     SettleNode, CancelledAfterDecision, RestoreIntegrating, RestoreDecided, AuthorityLost,
     AbortCherryPick, GuardApplied, Rollback
<1>2. CASE PersistStarted(c)  BY <1>2 DEF PersistStarted
<1>3. CASE RecordUnimported(c)  BY <1>3 DEF RecordUnimported
<1>4. CASE PersistDecision(c)
  <2>1. integ' = [integ EXCEPT ![c] = outcome[c]]
    BY <1>4 DEF PersistDecision
  <2> QED  BY <1>4, <2>1 DEF PersistDecision
<1>5. CASE PersistIntegratingCancelled(c)  BY <1>5 DEF PersistIntegratingCancelled
<1>6. CASE PersistDecidedCancelled(c)  BY <1>6 DEF PersistDecidedCancelled
<1> QED
  BY <1>1, <1>2, <1>3, <1>4, <1>5, <1>6 DEF Step, Settlement

(* A settlement comes to such a place from another, or by taking back. *)
LEMMA StaysOff ==
    ASSUME TypeInv, NEW c \in Contribs, Step(c), canon' = canon,
           pc'[c] \in Aside \/ (pc'[c] = "decided" /\ outcome'[c] # "integrated")
    PROVE  \/ pc[c] \in Aside \/ (pc[c] = "decided" /\ outcome[c] # "integrated")
           \/ /\ canon' = before[c]
              /\ pc[c] \in {"rollback", "rollbackThrow", "undo", "undoDecided"}
<1> USE DEF TypeInv, TypeOK, LockInv, At, Goto, Leave, Aside
<1>1. CASE Begin(c) \/ Admitted(c) \/ Denied(c) \/ PersistStarted(c) \/ Import(c) \/ ImportFails(c)
           \/ RecordUnimported(c) \/ EnterIntegrating(c) \/ CherryPickConflicts(c)
           \/ RefuseApply(c) \/ AbortCherryPick(c) \/ CherryPick(c)
           \/ PersistIntegratingCancelled(c) \/ PersistDecidedCancelled(c)
  BY <1>1 DEF Begin, Admitted, Denied, PersistStarted, Import, ImportFails, RecordUnimported,
     EnterIntegrating, CherryPickConflicts, RefuseApply, AbortCherryPick, CherryPick,
     PersistIntegratingCancelled, PersistDecidedCancelled
<1>2. CASE Gate(c) \/ GuardBeforeVerify(c) \/ PostVerify(c)
  BY <1>2 DEF Gate, GuardBeforeVerify, PostVerify
<1>3. CASE GuardApplied(c)  BY <1>3 DEF GuardApplied, Decide
<1>4. CASE PersistDecision(c)  BY <1>4 DEF PersistDecision
<1>5. CASE SettleNode(c) \/ CancelledAfterDecision(c) \/ AuthorityLost(c)
  BY <1>5 DEF SettleNode, CancelledAfterDecision, AuthorityLost
<1>6. CASE Rollback(c) \/ RollbackThrow(c) \/ RestoreIntegrating(c) \/ RestoreDecided(c)
  BY <1>6 DEF Rollback, RollbackThrow, RestoreIntegrating, RestoreDecided, Restore
<1> QED
  BY <1>1, <1>2, <1>3, <1>4, <1>5, <1>6 DEF Step, Settlement

LEMMA NextTraced ==
    TypeInv /\ Recording /\ HeadIsIntegrated /\ Traced /\ [Next]_vars => Traced'
<1> SUFFICES ASSUME TypeInv, Recording, HeadIsIntegrated, Traced, [Next]_vars PROVE Traced'
  OBVIOUS
<1>1. ASSUME NEW c \in Contribs, Step(c) PROVE Traced'
  <2>1. Moves(c) /\ \A d \in Contribs \ {c} : pc[d] \notin Critical /\ pc'[d] = pc[d]
    BY <1>1, StepMoves, OneSettles DEF TypeInv
  <2>2. \A d \in Contribs \ {c} : integ'[d] = integ[d]
    BY <1>1, StepFrame
  <2>3. /\ Members(canon') \subseteq Members(canon) \cup {c} \cup Integrated
        /\ canon' = canon \/ CherryPick(c)
             \/ (c \notin Members(canon') /\ Members(canon') \subseteq Integrated)
    <3>1. canon \in Seq(Contribs)
      BY DEF TypeInv, TypeOK
    <3>2. CASE canon' = canon
      BY <3>2
    <3>3. CASE canon' = Append(canon, c) /\ CherryPick(c)
      <4>1. Members(canon') = Members(canon) \cup {c}
        BY <3>1, <3>3, AppendMembers
      <4> QED  BY <3>3, <4>1
    <3>4. CASE canon' = before[c] /\ pc[c] \in {"rollback", "rollbackThrow", "undo", "undoDecided"}
      <4>1. Members(before[c]) \subseteq Integrated \ {c}
        BY <3>4, BeforeIsRecorded
      <4> QED  BY <3>4, <4>1
    <3> QED  BY <1>1, <3>2, <3>3, <3>4, CheckoutMoves
  <2>4. ASSUME NEW d \in Contribs \ {c} PROVE OffCheckout(d)' /\ OnRecord(d)'
    <3>1. d \in Integrated => integ'[d] = "integrated"
      BY <2>2 DEF Integrated
    <3>2. OnRecord(d)'
      BY <2>2, <2>3, <3>1 DEF Traced, OnRecord
    <3>3. ASSUME pc[d] \in Aside \/ pc[d] = "decided" PROVE pc[d] \in {"idle", "waiting"}
      BY <2>1, <3>3 DEF Aside, Critical, Started, Decided
    <3>4. ASSUME pc[d] \in {"idle", "waiting"} PROVE d \notin Members(canon')
      <4>1. integ[d] = "none" /\ d \notin Members(canon)
        BY <2>1, <3>4 DEF Moves, Recording, RecordOf, Traced, OffCheckout, Aside
      <4> QED  BY <2>3, <4>1 DEF Integrated
    <3>5. OffCheckout(d)'
      BY <2>1, <3>3, <3>4 DEF OffCheckout
    <3> QED  BY <3>2, <3>5
  <2>5. OffCheckout(c)'
    <3> SUFFICES ASSUME pc'[c] \in Aside \/ (pc'[c] = "decided" /\ outcome'[c] # "integrated")
                 PROVE  c \notin Members(canon')
      BY DEF OffCheckout
    <3>1. ~CherryPick(c)
      BY DEF CherryPick, Goto, TypeInv, LockInv, Aside
    <3>2. CASE canon' = canon
      <4>1. CASE pc[c] \in Aside \/ (pc[c] = "decided" /\ outcome[c] # "integrated")
        BY <2>1, <3>2, <4>1 DEF Moves, Traced, OffCheckout
      <4>2. CASE canon' = before[c] /\ pc[c] \in {"rollback", "rollbackThrow", "undo", "undoDecided"}
        BY <4>2, BeforeIsRecorded
      <4> QED  BY <1>1, <3>2, <4>1, <4>2, StaysOff
    <3> QED  BY <2>3, <3>1, <3>2
  <2>6. OnRecord(c)'
    <3> SUFFICES ASSUME c \in Members(canon'), integ'[c] \notin {"integrating", "integrated"}
                 PROVE  FALSE
      BY DEF OnRecord
    <3>1. CASE integ'[c] = integ[c]
      <4>1. c \notin Members(canon)
        BY <3>1 DEF Traced, OnRecord
      <4>2. CherryPick(c)
        BY <2>3, <4>1
      <4>3. integ[c] = "integrating"
        BY <4>2 DEF CherryPick, At, Recording, RecordOf, Started
      <4> QED  BY <3>1, <4>3
    <3>2. CASE integ'[c] # integ[c]
      BY <1>1, <3>2, RecordCloses DEF Traced, OffCheckout
    <3> QED  BY <3>1, <3>2
  <2> QED  BY <2>4, <2>5, <2>6 DEF Traced
<1>2. ASSUME NEW c \in Contribs, RequestLock(c) PROVE Traced'
  BY <1>2 DEF RequestLock, At, TypeInv, LockInv, Aside, Traced, OffCheckout, OnRecord, checkout, records
<1>3. ASSUME CancelLocks \/ Fence \/ (\E r \in Stops : Stop(r)) \/ RunEnds \/ UNCHANGED vars
      PROVE  Traced'
  <2>1. UNCHANGED <<up, pc, outcome, canon, integ>>
    BY <1>3 DEF CancelLocks, Fence, Stop, RunEnds, vars, checkout, records, process, control, bounds
  <2> QED  BY <2>1 DEF Traced, OffCheckout, OnRecord
<1>4. CASE Crash
  BY <1>4 DEF Crash, Traced, OffCheckout, OnRecord, checkout, records
<1>5. CASE Recover
  <2>1. ASSUME NEW c \in Contribs PROVE OnRecord(c)'
    <3>1. canon' = canon
      BY <1>5 DEF Recover, checkout
    <3>2. CASE integ[c] = "integrating" /\ Reconcilable(c)
      <4>1. Members(canon) = Integrated
        BY <3>2 DEF Reconcilable, HeadIsIntegrated, Members, Integrated
      <4> QED  BY <3>1, <3>2, <4>1 DEF OnRecord, Integrated
    <3>3. CASE ~(integ[c] = "integrating" /\ Reconcilable(c))
      <4>1. integ'[c] = integ[c]
        BY <1>5, <3>3 DEF Recover
      <4> QED  BY <3>1, <4>1 DEF Traced, OnRecord
    <3> QED  BY <3>2, <3>3
  <2>2. ~up'
    BY <1>5 DEF Recover
  <2> QED  BY <2>1, <2>2 DEF Traced, OffCheckout
<1> QED
  BY <1>1, <1>2, <1>3, <1>4, <1>5 DEF Next, Step

(* Whatever is in the checkout is on record as integrated or as being
   integrated, across rollbacks, cancellations, crashes and the restart. *)
THEOREM AppliedStaysOnRecord == Spec => []AppliedIsOnRecord
<1>1. Init => Traced /\ HeadIsIntegrated
  <2> SUFFICES ASSUME Init PROVE Traced /\ HeadIsIntegrated
    OBVIOUS
  <2>1. DOMAIN <<>> = {}
    OBVIOUS
  <2> QED
    BY <2>1 DEF Init, HeadIsIntegrated, Traced, OffCheckout, OnRecord, Members
<1>2. TypeInv /\ Traced => AppliedIsOnRecord
  <2> SUFFICES ASSUME TypeInv, Traced, NEW i \in DOMAIN canon
               PROVE  integ[canon[i]] \in {"integrating", "integrated"}
    BY DEF AppliedIsOnRecord
  <2>1. canon[i] \in Contribs
    BY ElementOfSeq DEF TypeInv, TypeOK
  <2> QED  BY <2>1 DEF Traced, OnRecord, Members
<1> QED
  BY <1>1, <1>2, NextHead, NextTraced, RecordingAlways, PTL DEF Spec

-----------------------------------------------------------------------------
(* The cancellation fence.                                                 *)

LEMMA NextFenced == TypeInv /\ Fenced /\ [Next]_vars => Fenced'
<1> SUFFICES ASSUME TypeInv, Fenced, [Next]_vars PROVE Fenced'
  OBVIOUS
<1> USE DEF TypeInv, TypeOK, checkout, records, process, control, bounds
<1>1. ASSUME NEW c \in Contribs, Step(c) PROVE Fenced'
  <2>1. Moves(c) /\ \A d \in Contribs \ {c} : pc[d] \notin Critical /\ pc'[d] = pc[d]
    BY <1>1, StepMoves, OneSettles
  <2>2. UNCHANGED <<cpc, cancelled>>
    BY <1>1 DEF Step, Settlement, Begin, Admitted, Denied, PersistStarted, Import, ImportFails,
       RecordUnimported, EnterIntegrating, CherryPick, CherryPickConflicts, RefuseApply,
       AbortCherryPick, Gate, GuardBeforeVerify, PostVerify, GuardApplied, Rollback, RollbackThrow,
       PersistDecision, SettleNode, CancelledAfterDecision, RestoreIntegrating,
       PersistIntegratingCancelled, RestoreDecided, PersistDecidedCancelled, AuthorityLost
  <2>3. ASSUME cpc = "done" PROVE pc'[c] \notin Critical
    <3>1. pc[c] = "waiting" /\ cancelled
      BY <2>1, <2>3 DEF Moves, Fenced
    <3>2. Begin(c)
      BY <1>1, <3>1 DEF Step, Settlement, At, Admitted, Denied, PersistStarted, Import, ImportFails,
         RecordUnimported, EnterIntegrating, CherryPick, CherryPickConflicts, RefuseApply,
         AbortCherryPick, Gate, GuardBeforeVerify, PostVerify, GuardApplied, Rollback,
         RollbackThrow, PersistDecision, SettleNode, CancelledAfterDecision, RestoreIntegrating,
         PersistIntegratingCancelled, RestoreDecided, PersistDecidedCancelled, AuthorityLost
    <3>3. pc'[c] = "thrown"
      BY <3>1, <3>2 DEF Begin, Leave
    <3> QED  BY <3>3 DEF Critical, Started, Decided
  <2> QED  BY <2>1, <2>2, <2>3 DEF Fenced
<1>2. ASSUME NEW c \in Contribs, RequestLock(c) PROVE Fenced'
  BY <1>2 DEF RequestLock, Fenced, Critical, Started, Decided
<1>3. ASSUME NEW r \in Stops, Stop(r) PROVE Fenced'
  BY <1>3 DEF Stop, Fenced
<1>4. CASE CancelLocks  BY <1>4 DEF CancelLocks, Fenced
<1>5. CASE Fence
  <2>1. \A c \in Contribs : pc[c] \notin Critical
    BY <1>5, IntegrationAssumption DEF Fence, Holds, LockInv, Locking
  <2> QED  BY <1>5, <2>1 DEF Fence, Fenced
<1>6. CASE Crash  BY <1>6 DEF Crash, Fenced
<1>7. ASSUME RunEnds \/ Recover \/ UNCHANGED vars PROVE Fenced'
  BY <1>7 DEF RunEnds, Recover, vars, Fenced
<1> QED
  BY <1>1, <1>2, <1>3, <1>4, <1>5, <1>6, <1>7 DEF Next, Step

(* Once cancel() has returned, the checkout and the project's head stay: the
   settlements that come to the lock afterwards find the run cancelled. *)
THEOREM CancellationIsFinal == Spec => FenceHolds
<1>1. Init => Fenced
  BY DEF Init, Fenced
<1>2. TypeInv /\ Fenced /\ [Next]_vars =>
        [cpc = "done" /\ cpc' = "done" => UNCHANGED <<canon, storeHead>>]_vars
  <2> SUFFICES ASSUME TypeInv, Fenced, [Next]_vars, cpc = "done"
               PROVE  UNCHANGED <<canon, storeHead>>
    OBVIOUS
  <2> USE DEF TypeInv, checkout, records
  <2>1. ASSUME NEW c \in Contribs, Step(c) PROVE UNCHANGED <<canon, storeHead>>
    <3>1. pc[c] = "waiting"
      BY <2>1, StepMoves DEF Moves, Fenced
    <3>2. Begin(c)
      BY <2>1, <3>1 DEF Step, Settlement, At, Admitted, Denied, PersistStarted, Import, ImportFails,
         RecordUnimported, EnterIntegrating, CherryPick, CherryPickConflicts, RefuseApply,
         AbortCherryPick, Gate, GuardBeforeVerify, PostVerify, GuardApplied, Rollback,
         RollbackThrow, PersistDecision, SettleNode, CancelledAfterDecision, RestoreIntegrating,
         PersistIntegratingCancelled, RestoreDecided, PersistDecidedCancelled, AuthorityLost
    <3> QED  BY <3>2 DEF Begin
  <2>2. ASSUME NEW c \in Contribs, RequestLock(c) PROVE UNCHANGED <<canon, storeHead>>
    BY <2>2 DEF RequestLock
  <2>3. ASSUME NEW r \in Stops, Stop(r) PROVE UNCHANGED <<canon, storeHead>>
    BY <2>3 DEF Stop
  <2>4. ASSUME CancelLocks \/ Fence \/ RunEnds \/ Crash \/ Recover \/ UNCHANGED vars
        PROVE  UNCHANGED <<canon, storeHead>>
    BY <2>4 DEF CancelLocks, Fence, RunEnds, Crash, Recover, vars
  <2> QED  BY <2>1, <2>2, <2>3, <2>4 DEF Next, Step
<1> QED
  BY <1>1, <1>2, NextFenced, TypeInvAlways, PTL DEF Spec, FenceHolds

-----------------------------------------------------------------------------
(* The checkout.                                                           *)

(* One settlement's step leaves the checkout where its next place says. *)
LEMMA StepApplied ==
    ASSUME Healing, TypeInv, Recording, Applied, runStatus = "running" \/ cancelled,
           NEW c \in Contribs, Step(c), pc'[c] # "lost"
    PROVE  AppliedBy(c)' /\ (pc'[c] \notin Critical => InStep')
<1> USE DEF TypeInv, TypeOK, checkout, records, process, control, bounds
<1>0. pc[c] \in Critical \/ \A d \in Contribs : pc[d] \notin Critical
  BY StepMoves, OneSettles DEF Moves
<1>1. Step(c) /\ RecordOf(c) /\ AppliedBy(c) /\ (pc[c] \notin Critical => InStep)
  BY <1>0 DEF Recording, Applied
<1>2. pc[c] \in Places
  BY DEF LockInv
<1> USE <1>1, <1>2 DEF RecordOf, AppliedBy, InStep, Critical, Started, Decided, At, Goto, Leave
<1>3. AppliedBy(c)' /\ (pc'[c] \notin Critical => InStep')
  <2>1. CASE Begin(c)  BY <2>1 DEF Begin
  <2>2. CASE Admitted(c)  BY <2>2 DEF Admitted
  <2>3. CASE Denied(c)  BY <2>3 DEF Denied
  <2>4. CASE PersistStarted(c)  BY <2>4 DEF PersistStarted, StillRunning
  <2>5. CASE Import(c)  BY <2>5 DEF Import
  <2>6. CASE ImportFails(c)  BY <2>6 DEF ImportFails
  <2>7. CASE RecordUnimported(c)  BY <2>7 DEF RecordUnimported
  <2>8. CASE EnterIntegrating(c)  BY <2>8 DEF EnterIntegrating
  <2>9. CASE CherryPick(c)  BY <2>9 DEF CherryPick, MayApply
  <2>10. CASE CherryPickConflicts(c)  BY <2>10 DEF CherryPickConflicts, MayApply
  <2>11. CASE RefuseApply(c)  BY <2>11 DEF RefuseApply
  <2>12. CASE AbortCherryPick(c)  BY <2>12 DEF AbortCherryPick, Decide
  <2>13. CASE Gate(c)  BY <2>13 DEF Gate
  <2>14. CASE GuardBeforeVerify(c)  BY <2>14 DEF GuardBeforeVerify
  <2>15. CASE PostVerify(c)  BY <2>15 DEF PostVerify
  <2>16. CASE GuardApplied(c)  BY <2>16 DEF GuardApplied, Decide
  <2>17. CASE Rollback(c)  BY <2>17 DEF Rollback, Restore, Decide
  <2>18. CASE RollbackThrow(c)  BY <2>18 DEF RollbackThrow, Restore
  <2>19. CASE PersistDecision(c)
    <3>1. CASE cancelled
      BY <2>19, <3>1 DEF PersistDecision
    <3>2. CASE ~cancelled
      <4>1. /\ pc[c] = "decided" /\ pc' = [pc EXCEPT ![c] = "persisted"]
            /\ storeHead' = IF outcome[c] = "integrated" THEN Append(before[c], c) ELSE before[c]
            /\ UNCHANGED <<canon, tree>>
        BY <2>19, <3>2 DEF PersistDecision, StillRunning
      <4>2. InStep'
        BY <4>1
      <4> QED  BY <4>1, <4>2
    <3> QED  BY <3>1, <3>2
  <2>20. CASE SettleNode(c)  BY <2>20 DEF SettleNode
  <2>21. CASE CancelledAfterDecision(c)  BY <2>21 DEF CancelledAfterDecision
  <2>22. CASE RestoreIntegrating(c)  BY <2>22 DEF RestoreIntegrating, Restore
  <2>23. CASE PersistIntegratingCancelled(c)  BY <2>23 DEF PersistIntegratingCancelled, RecordCancelled
  <2>24. CASE RestoreDecided(c)  BY <2>24 DEF RestoreDecided, Restore
  <2>25. CASE PersistDecidedCancelled(c)  BY <2>25 DEF PersistDecidedCancelled, RecordCancelled
  <2>26. CASE AuthorityLost(c)  BY <2>26 DEF AuthorityLost
  <2> QED
    BY <2>1, <2>2, <2>3, <2>4, <2>5, <2>6, <2>7, <2>8, <2>9, <2>10, <2>11, <2>12, <2>13,
       <2>14, <2>15, <2>16, <2>17, <2>18, <2>19, <2>20, <2>21, <2>22, <2>23, <2>24, <2>25, <2>26
       DEF Step, Settlement
<1> QED  BY <1>3

LEMMA NextCheckout ==
    ASSUME Healing
    PROVE  TypeInv /\ Recording /\ Checkout /\ [Next]_vars => Checkout'
<1> SUFFICES ASSUME TypeInv, Recording, Checkout, [Next]_vars,
                    up', (runStatus = "running" \/ cancelled)', NobodyLost'
             PROVE  Applied'
  BY DEF Checkout
<1> USE DEF TypeInv, TypeOK, checkout, records, process, control, bounds
<1>1. ASSUME NEW c \in Contribs, Step(c) PROVE Applied'
  <2>1. Moves(c) /\ \A d \in Contribs \ {c} : pc[d] \notin Critical /\ pc'[d] = pc[d]
    BY <1>1, StepMoves, OneSettles
  <2>2. UNCHANGED <<runStatus, cancelled>>
    BY <1>1 DEF Step, Settlement, Begin, Admitted, Denied, PersistStarted, Import, ImportFails,
       RecordUnimported, EnterIntegrating, CherryPick, CherryPickConflicts, RefuseApply,
       AbortCherryPick, Gate, GuardBeforeVerify, PostVerify, GuardApplied, Rollback, RollbackThrow,
       PersistDecision, SettleNode, CancelledAfterDecision, RestoreIntegrating,
       PersistIntegratingCancelled, RestoreDecided, PersistDecidedCancelled, AuthorityLost
  <2>3. up /\ NobodyLost
    BY <2>1 DEF Moves, NobodyLost, Critical, Started, Decided
  <2>4. Applied
    BY <2>2, <2>3 DEF Checkout
  <2>5. AppliedBy(c)' /\ (pc'[c] \notin Critical => InStep')
    BY <1>1, <2>2, <2>4, StepApplied DEF NobodyLost
  <2>6. ASSUME NEW d \in Contribs \ {c} PROVE AppliedBy(d)'
    BY <2>1, <2>6 DEF AppliedBy, Critical, Started, Decided
  <2> QED  BY <2>5, <2>6 DEF Applied
<1>2. ASSUME NEW c \in Contribs, RequestLock(c) PROVE Applied'
  <2>1. up /\ (runStatus = "running" \/ cancelled) /\ NobodyLost
    BY <1>2 DEF RequestLock, At, NobodyLost
  <2> QED
    BY <1>2, <2>1 DEF RequestLock, At, Checkout, Applied, AppliedBy, InStep, Critical, Started,
       Decided
<1>3. ASSUME CancelLocks \/ Fence \/ (\E r \in Stops : Stop(r)) \/ RunEnds \/ UNCHANGED vars
      PROVE  Applied'
  <2>1. UNCHANGED <<up, pc, canon, tree, storeHead, before, outcome>>
    BY <1>3 DEF CancelLocks, Fence, Stop, RunEnds, vars
  <2>2. runStatus = "running" \/ cancelled
    <3>1. runStatus = "running" \/ UNCHANGED <<runStatus, cancelled>>
      BY <1>3 DEF CancelLocks, Fence, Stop, RunEnds, vars
    <3> QED  BY <3>1
  <2>3. Applied
    BY <2>1, <2>2 DEF Checkout, NobodyLost
  <2> QED  BY <2>1, <2>3 DEF Applied, AppliedBy, InStep
<1>4. ASSUME Crash \/ Recover PROVE FALSE
  BY <1>4 DEF Crash, Recover
<1> QED
  BY <1>1, <1>2, <1>3, <1>4 DEF Next, Step

LEMMA CheckoutAlways ==
    ASSUME Healing
    PROVE  Spec => [](TypeInv /\ Checkout)
<1>1. Init => Checkout
  <2> SUFFICES ASSUME Init PROVE Applied
    BY DEF Checkout
  <2> QED
    BY DEF Init, Applied, AppliedBy, InStep
<1>2. TypeInv /\ Recording /\ Checkout /\ [Next]_vars => Checkout'
  BY NextCheckout
<1> QED
  BY <1>1, <1>2, RecordingAlways, PTL DEF Spec

(* In a healing run, while the run runs and no settlement is under way, the
   checkout is what the store says it is - whatever was applied, refused,
   rolled back, cancelled or stopped before; and what it has is on record at
   every moment, across crashes. *)
THEOREM CheckoutFollowsStore ==
    ASSUME Healing
    PROVE  Spec => []CheckoutMatchesStore
<1>1. TypeInv /\ Checkout /\ AppliedIsOnRecord => CheckoutMatchesStore
  BY DEF TypeInv, LockInv, Locking, Holds, Checkout, Applied, CheckoutMatchesStore
<1> QED
  BY <1>1, CheckoutAlways, AppliedStaysOnRecord, PTL

(* Once the cancellation of a healing run has returned and its settlements
   have ended - before the run's own end or long after it - what was applied
   is undone, and the records say so. *)
THEOREM CancelledRunsAreUndone ==
    ASSUME Healing
    PROVE  Spec => []CancelledRunInStep
<1>1. Init => Fenced
  BY DEF Init, Fenced
<1>2. Checkout /\ Fenced => CancelledRunInStep
  BY DEF Checkout, Applied, Fenced, CancelledRunInStep
<1> QED
  BY <1>1, <1>2, NextFenced, CheckoutAlways, PTL DEF Spec

-----------------------------------------------------------------------------
(* The abstract decision.                                                  *)

(* A head without its last contribution. *)
LEMMA ButLast ==
    ASSUME NEW s \in Seq(Contribs), NEW c \in Contribs
    PROVE  SubSeq(Append(s, c), 1, Len(Append(s, c)) - 1) = s
<1> DEFINE t == Append(s, c)
           u == SubSeq(t, 1, Len(t) - 1)
<1>1. /\ t \in Seq(Contribs) /\ Len(t) = Len(s) + 1 /\ Len(s) \in Nat
      /\ \A i \in 1 .. Len(s) : t[i] = s[i]
  BY AppendProperties, LenProperties
<1>2. Len(t) - 1 = Len(s)
  BY <1>1
<1>3. \A i \in 1 .. Len(s) : t[i] \in Contribs
  BY <1>1, ElementOfSeq
<1>4. u = [i \in 1 .. Len(s) |-> t[i]]
  BY <1>1, <1>2
<1>5. s = [i \in 1 .. Len(s) |-> s[i]]
  BY LenProperties
<1> QED  BY <1>1, <1>4, <1>5

(* What a write of one record is to a reader of the verdicts. *)
Reading(s) ==
    CASE s = "none"        -> "open"
      [] s = "integrating" -> "deciding"
      [] s = "integrated"  -> "taken"
      [] OTHER             -> "refused"

LEMMA Readings ==
    /\ Reading("integrating") = "deciding"
    /\ Reading("integrated") = "taken"
    /\ Reading("rolled_back") = "refused"
<1>1. /\ "rolled_back" # "none" /\ "rolled_back" # "integrating" /\ "rolled_back" # "integrated"
      /\ "integrating" # "none" /\ "integrated" # "none" /\ "integrated" # "integrating"
  OBVIOUS
<1> QED  BY <1>1 DEF Reading

LEMMA VerdictStep ==
    ASSUME TypeInv, NEW c \in Contribs, NEW s, integ' = [integ EXCEPT ![c] = s]
    PROVE  Verdict[c] = Reading(integ[c]) /\ Verdict' = [Verdict EXCEPT ![c] = Reading(s)]
<1>1. \A d \in Contribs : Verdict[d] = Reading(integ[d]) /\ Verdict'[d] = Reading(integ'[d])
  BY DEF Verdict, Reading
<1>2. integ'[c] = s /\ \A d \in Contribs \ {c} : integ'[d] = integ[d]
  BY DEF TypeInv, TypeOK
<1>3. Verdict' = [d \in Contribs |-> Verdict'[d]] /\ Verdict = [d \in Contribs |-> Verdict[d]]
  BY DEF Verdict
<1>4. \A d \in Contribs : Verdict'[d] = IF d = c THEN Reading(s) ELSE Verdict[d]
  BY <1>1, <1>2
<1> QED  BY <1>1, <1>3, <1>4

(* Every step of a settlement is one atomic decision about its contribution,
   or nothing to a reader of the store. *)
LEMMA StepIsAtomic ==
    ASSUME TypeInv, Recording, NEW c \in Contribs, Step(c)
    PROVE  Atomic!AtomicNext \/ UNCHANGED <<storeHead, Verdict>>
<1> USE DEF TypeInv, TypeOK, At, checkout, records, process, control, bounds
<1>u. storeHead' = storeHead /\ integ' = integ => UNCHANGED <<storeHead, Verdict>>
  BY DEF Verdict
<1>1. ASSUME Begin(c) \/ Admitted(c) \/ Denied(c) \/ Import(c) \/ ImportFails(c)
             \/ EnterIntegrating(c) \/ CherryPick(c) \/ CherryPickConflicts(c) \/ RefuseApply(c)
             \/ Gate(c) \/ GuardBeforeVerify(c) \/ PostVerify(c) \/ RollbackThrow(c)
             \/ SettleNode(c) \/ CancelledAfterDecision(c) \/ RestoreIntegrating(c)
             \/ RestoreDecided(c) \/ AuthorityLost(c)
             \/ AbortCherryPick(c) \/ GuardApplied(c) \/ Rollback(c)
      PROVE  storeHead' = storeHead /\ integ' = integ
  BY <1>1 DEF Begin, Admitted, Denied, Import, ImportFails, EnterIntegrating, CherryPick,
     CherryPickConflicts, RefuseApply, Gate, GuardBeforeVerify, PostVerify, RollbackThrow,
     SettleNode, CancelledAfterDecision, RestoreIntegrating, RestoreDecided, AuthorityLost,
     AbortCherryPick, GuardApplied, Rollback
<1>2. CASE PersistStarted(c)
  <2>1. CASE UNCHANGED records  BY <2>1, <1>u
  <2>2. CASE ~UNCHANGED records
    <3>1. integ' = [integ EXCEPT ![c] = "integrating"] /\ storeHead' = storeHead
          /\ integ[c] = "none"
      BY <1>2, <2>2 DEF PersistStarted, Recording, RecordOf
    <3>2. Atomic!Open(c)
      BY <3>1, VerdictStep DEF Atomic!Open, Reading
    <3> QED  BY <3>2 DEF Atomic!AtomicNext
  <2> QED  BY <2>1, <2>2
<1>3. CASE RecordUnimported(c) \/ PersistIntegratingCancelled(c)
  <2>1. CASE UNCHANGED <<storeHead, integ>>  BY <2>1, <1>u
  <2>2. CASE ~UNCHANGED <<storeHead, integ>>
    <3>1. integ' = [integ EXCEPT ![c] = "rolled_back"] /\ storeHead' = storeHead
          /\ integ[c] = "integrating"
      BY <1>3, <2>2 DEF RecordUnimported, PersistIntegratingCancelled, RecordCancelled, Recording,
         RecordOf, Started
    <3>2. Verdict[c] = "deciding" /\ Verdict' = [Verdict EXCEPT ![c] = "refused"]
      <4>1. Verdict[c] = Reading(integ[c]) /\ Verdict' = [Verdict EXCEPT ![c] = Reading("rolled_back")]
        BY <3>1, VerdictStep
      <4> QED  BY <3>1, <4>1, Readings
    <3>3. Atomic!Refuse(c)
      BY <3>1, <3>2 DEF Atomic!Refuse
    <3> QED  BY <3>3 DEF Atomic!AtomicNext
  <2> QED  BY <2>1, <2>2
<1>4. CASE PersistDecision(c)
  <2>1. CASE UNCHANGED records  BY <2>1, <1>u
  <2>2. CASE ~UNCHANGED records
    <3>1. /\ integ' = [integ EXCEPT ![c] = outcome[c]]
          /\ storeHead' = IF outcome[c] = "integrated" THEN Append(before[c], c) ELSE before[c]
          /\ integ[c] = "integrating" /\ before[c] = storeHead
          /\ outcome[c] \in {"integrated", "conflicted", "rolled_back"}
      BY <1>4, <2>2 DEF PersistDecision, Recording, RecordOf, Started
    <3>2. CASE outcome[c] = "integrated"
      <4>1. Atomic!Take(c)
        BY <3>1, <3>2, VerdictStep DEF Atomic!Take, Reading
      <4> QED  BY <4>1 DEF Atomic!AtomicNext
    <3>3. CASE outcome[c] # "integrated"
      <4>1. Atomic!Refuse(c)
        BY <3>1, <3>3, VerdictStep DEF Atomic!Refuse, Reading
      <4> QED  BY <4>1 DEF Atomic!AtomicNext
    <3> QED  BY <3>2, <3>3
  <2> QED  BY <2>1, <2>2
<1>5. CASE PersistDecidedCancelled(c)
  <2>1. CASE Healing
    <3>1. /\ before[c] \in Seq(Contribs)
          /\ storeHead = Append(before[c], c) /\ integ[c] = "integrated"
      BY <1>5 DEF PersistDecidedCancelled, Recording, RecordOf, Decided
    <3>2. storeHead' = before[c] /\ integ' = [integ EXCEPT ![c] = "rolled_back"]
      BY <1>5, <2>1 DEF PersistDecidedCancelled, RecordCancelled
    <3>3. SubSeq(storeHead, 1, Len(storeHead) - 1) = before[c]
      BY <3>1, ButLast
    <3>4. Verdict[c] = "taken" /\ Verdict' = [Verdict EXCEPT ![c] = "refused"]
      <4>1. Verdict[c] = Reading(integ[c]) /\ Verdict' = [Verdict EXCEPT ![c] = Reading("rolled_back")]
        BY <3>2, VerdictStep
      <4> QED  BY <3>1, <4>1, Readings
    <3>5. Atomic!TakeBack(c)
      BY <3>1, <3>2, <3>3, <3>4 DEF Atomic!TakeBack
    <3> QED  BY <3>5 DEF Atomic!AtomicNext
  <2>2. CASE ~Healing
    BY <1>5, <2>2, <1>u DEF PersistDecidedCancelled
  <2> QED  BY <2>1, <2>2
<1> QED
  BY <1>1, <1>u, <1>2, <1>3, <1>4, <1>5 DEF Step, Settlement

(* Outside the settlements only a restart decides anything. *)
LEMMA NextIsAtomic ==
    ASSUME TypeInv, Recording, [Next]_vars
    PROVE  Atomic!AtomicNext \/ UNCHANGED <<storeHead, Verdict>>
<1> USE DEF TypeInv, TypeOK, checkout, records, process, control, bounds
<1>u. storeHead' = storeHead /\ integ' = integ => UNCHANGED <<storeHead, Verdict>>
  BY DEF Verdict
<1>1. ASSUME NEW c \in Contribs, Step(c)
      PROVE  Atomic!AtomicNext \/ UNCHANGED <<storeHead, Verdict>>
  BY <1>1, StepIsAtomic
<1>2. ASSUME NEW c \in Contribs, RequestLock(c) PROVE UNCHANGED <<storeHead, integ>>
  BY <1>2 DEF RequestLock
<1>3. ASSUME NEW r \in Stops, Stop(r) PROVE UNCHANGED <<storeHead, integ>>
  BY <1>3 DEF Stop
<1>4. ASSUME CancelLocks \/ Fence \/ RunEnds \/ Crash \/ UNCHANGED vars
      PROVE  UNCHANGED <<storeHead, integ>>
  BY <1>4 DEF CancelLocks, Fence, RunEnds, Crash, vars
<1>5. ASSUME Recover PROVE Atomic!RefuseSome
  <2> DEFINE S == {c \in Contribs : integ[c] = "integrating" /\ Reconcilable(c)}
  <2>1. /\ storeHead' = storeHead
        /\ integ' = [c \in Contribs |-> IF c \in S THEN "rolled_back" ELSE integ[c]]
    BY <1>5 DEF Recover
  <2>2. S \in SUBSET {c \in Contribs : Verdict[c] = "deciding"}
    BY DEF Verdict
  <2>3. Verdict' = [c \in Contribs |-> IF c \in S THEN "refused" ELSE Verdict[c]]
    BY <2>1 DEF Verdict
  <2> QED  BY <2>1, <2>2, <2>3 DEF Atomic!RefuseSome
<1> QED
  BY <1>1, <1>2, <1>3, <1>4, <1>5, <1>u DEF Next, Step, Atomic!AtomicNext

(* To a reader of the store, settlements under one lock, with cancellations
   and crashes at any point, are the atomic decisions of AtomicIntegration. *)
THEOREM SettlementIsAtomic == Spec => Implements
<1>1. Init => Atomic!AtomicInit
  BY DEF Init, Verdict, Atomic!AtomicInit
<1>2. TypeInv /\ Recording /\ [Next]_vars => [Atomic!AtomicNext]_<<storeHead, Verdict>>
  BY NextIsAtomic
<1> QED
  BY <1>1, <1>2, RecordingAlways, PTL DEF Spec, Implements, Atomic!AtomicSpec

=============================================================================
