------------------------ MODULE ProjectBaselineProofs ------------------------
(***************************************************************************)
(* Proofs about ProjectBaseline, for any number of runs, faults and        *)
(* crashes.                                                                *)
(***************************************************************************)
EXTENDS ProjectBaseline, SequenceTheorems, TLAPS

-----------------------------------------------------------------------------
(* Commits.                                                                *)

(* No commit made by runs is the missing branch or the owner's commit. *)
LEMMA RunsMakeCommits ==
    /\ Missing \notin Seq(Runs)
    /\ Foreign \notin Seq(Runs)
    /\ Missing # Foreign
<1>1. ASSUME NEW x, <<x>> \in Seq(Runs)
      PROVE  x \in Runs
  BY <1>1, ElementOfSeq, 1 \in 1 .. Len(<<x>>)
<1> QED BY <1>1, BaselineAssumption DEF Missing, Foreign

(* A run's own commit is another one than the commit it started from. *)
LEMMA CommitGrows ==
    ASSUME NEW s \in Seq(Runs), NEW r \in Runs
    PROVE  /\ Append(s, r) \in Seq(Runs)
           /\ Append(s, r) # s
           /\ \E i \in DOMAIN Append(s, r) : Append(s, r)[i] = r
           /\ \A i \in DOMAIN s : i \in DOMAIN Append(s, r) /\ Append(s, r)[i] = s[i]
<1>1. /\ Append(s, r) \in Seq(Runs)
      /\ Len(Append(s, r)) = Len(s) + 1
      /\ \A i \in 1 .. Len(s) : Append(s, r)[i] = s[i]
      /\ Append(s, r)[Len(s) + 1] = r
  BY AppendProperties
<1>2. Len(s) \in Nat /\ DOMAIN s = 1 .. Len(s) /\ DOMAIN Append(s, r) = 1 .. Len(s) + 1
  BY <1>1, LenProperties
<1>3. Append(s, r) # s
  <2>1. ASSUME Append(s, r) = s PROVE Len(s) = Len(s) + 1
    BY <1>1, <2>1
  <2>2. \A n \in Nat : n # n + 1
    OBVIOUS
  <2> QED  BY <1>2, <2>1, <2>2
<1>4. \E i \in DOMAIN Append(s, r) : Append(s, r)[i] = r
  <2>1. Len(s) + 1 \in DOMAIN Append(s, r)
    BY <1>2
  <2> QED  BY <2>1, <1>1
<1>5. \A i \in DOMAIN s : i \in DOMAIN Append(s, r) /\ Append(s, r)[i] = s[i]
  BY <1>1, <1>2
<1> QED BY <1>1, <1>3, <1>4, <1>5

-----------------------------------------------------------------------------
(* Types.                                                                  *)

(* What a recovery holds on to once it has found a transition. *)
SeenInv ==
    \A p \in Processes : pc[p] \in {"resolve", "finalize", "clear", "diverged"} => seen[p] \in Runs

TypeInv == TypeOK /\ SeenInv

LEMMA InitTypeInv == Init => TypeInv
<1> SUFFICES ASSUME Init PROVE TypeInv
  OBVIOUS
<1>1. <<>> \in Seq(Runs)
  BY EmptySeq
<1> QED
  BY <1>1, BaselineAssumption DEF Init, TypeInv, TypeOK, SeenInv, Processes, Recovering, Advancing

LEMMA NextTypeInv == TypeInv /\ [Next]_vars => TypeInv'
<1> SUFFICES ASSUME TypeInv, [Next]_vars PROVE TypeInv'
  OBVIOUS
<1> USE DEF TypeInv, TypeOK, SeenInv, Processes, Recovering, Advancing, At, Goto, project, bounds
<1>a. ASSUME NEW s \in Seq(Runs), NEW r \in Runs PROVE Append(s, r) \in Seq(Runs)
  BY CommitGrows
<1>1. ASSUME NEW p \in Processes, Recovery(p) PROVE TypeInv'
  <2>1. CASE Snapshot(p)  BY <2>1 DEF Snapshot
  <2>2. CASE Identify(p)  BY <2>2 DEF Identify
  <2>3. CASE Resolve(p)  BY <2>3 DEF Resolve
  <2>4. CASE Finalize(p)
    <3>1. seen[p] \in Runs /\ NextCommit(seen[p]) \in Seq(Runs)
      BY <2>4, <1>a DEF Finalize, NextCommit
    <3> QED  BY <2>4, <3>1 DEF Finalize, Cross
  <2>5. CASE Clear(p)  BY <2>5 DEF Clear, Cross
  <2>6. CASE Diverge(p)  BY <2>6 DEF Diverge
  <2>7. CASE RestoreReady(p)  BY <2>7 DEF RestoreReady
  <2>8. CASE MarkUnavailable(p)  BY <2>8 DEF MarkUnavailable
  <2> QED
    BY <1>1, <2>1, <2>2, <2>3, <2>4, <2>5, <2>6, <2>7, <2>8 DEF Recovery
<1>2. ASSUME NEW p \in Processes, Unidentified(p) PROVE TypeInv'
  BY <1>2 DEF Unidentified, Fault
<1>3. CASE StartupDone
  BY <1>3 DEF StartupDone
<1>4. ASSUME NEW r \in Runs, Advance(r) PROVE TypeInv'
  <2>1. CASE Ensure(r)  BY <2>1 DEF Ensure
  <2>0. NextCommit(r) \in Seq(Runs)  BY <1>a DEF NextCommit
  <2>2. CASE Swap(r)  BY <2>2, <2>0 DEF Swap
  <2>3. CASE Abandon(r)  BY <2>3 DEF Abandon
  <2>4. CASE Publish(r)  BY <2>4, <2>0 DEF Publish
  <2> QED  BY <1>4, <2>1, <2>2, <2>3, <2>4 DEF Advance
<1>5. ASSUME NEW r \in Runs, Admit(r) \/ NoCandidate(r) \/ Prepare(r) PROVE TypeInv'
  <2>1. CASE Admit(r)
    <3>1. ASSUME NEW q \in Runs PROVE base[q] \in Seq(Runs) /\ NextCommit(q) \in Seq(Runs)
      BY <3>1, <1>a DEF NextCommit
    <3>2. Continued \subseteq Seq(Runs)
      BY <3>1 DEF Continued
    <3>3. ASSUME NEW c \in {baseline} \cup Continued, base' = [base EXCEPT ![r] = c]
          PROVE  base' \in [Runs -> Seq(Runs)]
      BY <3>2, <3>3
    <3>4. base' \in [Runs -> Seq(Runs)]
      BY <2>1, <3>3 DEF Admit
    <3>5. /\ UNCHANGED <<baseline, transition, state, ref, up, seen, crossed, faults, crashes>>
          /\ pc' = [pc EXCEPT ![r] = "running"] \/ pc' = [pc EXCEPT ![r] = "refused"]
      BY <2>1 DEF Admit
    <3> QED  BY <3>4, <3>5
  <2>2. CASE NoCandidate(r)  BY <2>2 DEF NoCandidate
  <2>3. CASE Prepare(r)  BY <2>3 DEF Prepare
  <2> QED  BY <1>5, <2>1, <2>2, <2>3
<1>6. ASSUME NEW r \in Runs, Complete(r) \/ FailsTooLate(r) PROVE TypeInv'
  <2>1. CASE Complete(r)  BY <2>1 DEF Complete
  <2>2. CASE FailsTooLate(r)  BY <2>2 DEF FailsTooLate
  <2> QED  BY <1>6, <2>1, <2>2
<1>7. CASE OwnerMoves  BY <1>7 DEF OwnerMoves, Fault
<1>8. CASE Crash
  <2>1. pc' \in [Processes -> Recovering \cup Advancing \cup
                    {"refused", "running", "ended", "published", "completed", "failed", "interrupted",
                     "cancelled", "done"}]
    BY <1>8 DEF Crash
  <2>2. SeenInv'
    BY <1>8 DEF Crash
  <2>3. UNCHANGED <<baseline, transition, state, base, ref, seen, crossed, faults>>
        /\ up' = FALSE /\ crashes' \in Nat
    BY <1>8 DEF Crash
  <2> QED  BY <2>1, <2>2, <2>3
<1>9. CASE Restart  BY <1>9 DEF Restart
<1>10. CASE UNCHANGED vars  BY <1>10 DEF vars
<1> QED
  BY <1>1, <1>2, <1>3, <1>4, <1>5, <1>6, <1>7, <1>8, <1>9, <1>10 DEF Next

LEMMA TypeInvAlways == Spec => []TypeInv
  BY InitTypeInv, NextTypeInv, PTL DEF Spec

(* Every variable keeps to its type, in every reachable state. *)
THEOREM TypeCorrect == Spec => []TypeOK
<1>1. TypeInv => TypeOK
  BY DEF TypeInv
<1> QED
  BY TypeInvAlways, <1>1, PTL

-----------------------------------------------------------------------------
(* The baseline's history.                                                 *)

(* A recorded transition starts from the baseline, and its run is past its
   admission: neither its base nor its place can change under it.  The same
   is true of the transitions that recoveries remember. *)
PastAdmission == Advancing \cup {"interrupted", "cancelled"}

Lineage ==
    /\ transition \in Runs =>
          base[transition] = baseline /\ pc[transition] \in PastAdmission
    /\ \A p \in Processes : seen[p] \in Runs =>
          pc[seen[p]] \in PastAdmission \cup {"published", "completed", "failed"}

LEMMA InitLineage == Init => Lineage
  BY BaselineAssumption DEF Init, Lineage, Processes

LEMMA NextLineage == TypeInv /\ Lineage /\ [Next]_vars => Lineage'
<1> SUFFICES ASSUME TypeInv, Lineage, [Next]_vars PROVE Lineage'
  OBVIOUS
<1> USE BaselineAssumption
    DEF TypeInv, TypeOK, SeenInv, Lineage, PastAdmission, Processes, Advancing, At, Goto, project,
        bounds
<1>1. ASSUME NEW p \in Processes, Recovery(p) PROVE Lineage'
  <2>1. CASE Snapshot(p)  BY <2>1 DEF Snapshot
  <2>2. CASE Identify(p)  BY <2>2 DEF Identify
  <2>3. CASE Resolve(p)  BY <2>3 DEF Resolve
  <2>4. CASE Finalize(p)
    <3>1. \A r \in Runs : pc[r] \in PastAdmission \cup {"published", "completed", "failed"} =>
             pc'[r] = pc[r]
      BY <2>4 DEF Finalize
    <3>2. ASSUME transition' \in Runs PROVE transition' = transition /\ baseline' = baseline
      BY <2>4, <3>2 DEF Finalize
    <3>3. base' = base /\ seen' = seen
      BY <2>4 DEF Finalize
    <3>4. ASSUME transition' \in Runs
          PROVE  base'[transition'] = baseline' /\ pc'[transition'] \in PastAdmission
      BY <3>1, <3>2, <3>3, <3>4
    <3>5. ASSUME NEW q \in Processes, seen'[q] \in Runs
          PROVE  pc'[seen'[q]] \in PastAdmission \cup {"published", "completed", "failed"}
      BY <3>1, <3>3, <3>5
    <3> QED  BY <3>4, <3>5
  <2>5. CASE Clear(p)  BY <2>5 DEF Clear
  <2>6. CASE Diverge(p)  BY <2>6 DEF Diverge
  <2>7. CASE RestoreReady(p)  BY <2>7 DEF RestoreReady
  <2>8. CASE MarkUnavailable(p)  BY <2>8 DEF MarkUnavailable
  <2> QED
    BY <1>1, <2>1, <2>2, <2>3, <2>4, <2>5, <2>6, <2>7, <2>8 DEF Recovery
<1>2. ASSUME NEW p \in Processes, Unidentified(p) PROVE Lineage'
  BY <1>2 DEF Unidentified
<1>3. CASE StartupDone
  BY <1>3 DEF StartupDone
<1>4. ASSUME NEW r \in Runs, Advance(r) PROVE Lineage'
  <2>1. CASE Ensure(r)  BY <2>1 DEF Ensure
  <2>2. CASE Swap(r)  BY <2>2 DEF Swap
  <2>3. CASE Abandon(r)  BY <2>3 DEF Abandon
  <2>4. CASE Publish(r)
    <3>1. /\ \A q \in Runs \ {r} : pc'[q] = pc[q]
          /\ pc'[r] \in {"published", "failed"}
      BY <2>4 DEF Publish
    <3>2. transition' \in Runs => UNCHANGED <<transition, baseline>> /\ transition # r
      BY <2>4 DEF Publish
    <3>3. UNCHANGED <<base, seen>>
      BY <2>4 DEF Publish
    <3>4. transition' \in Runs => base'[transition'] = baseline' /\ pc'[transition'] \in PastAdmission
      BY <3>1, <3>2, <3>3
    <3>5. ASSUME NEW p \in Processes, seen'[p] \in Runs
          PROVE  pc'[seen'[p]] \in PastAdmission \cup {"published", "completed", "failed"}
      BY <3>1, <3>3, <3>5
    <3> QED  BY <3>4, <3>5
  <2> QED  BY <1>4, <2>1, <2>2, <2>3, <2>4 DEF Advance
<1>5. ASSUME NEW r \in Runs, Admit(r) \/ NoCandidate(r) \/ Prepare(r) PROVE Lineage'
  <2>1. CASE Admit(r)
    <3>1. transition # r /\ \A p \in Processes : seen[p] # r
      BY <2>1 DEF Admit
    <3>2. \A q \in Runs \ {r} : pc'[q] = pc[q] /\ base'[q] = base[q]
      BY <2>1 DEF Admit
    <3>3. UNCHANGED <<transition, baseline, seen>>
      BY <2>1 DEF Admit
    <3> QED  BY <3>1, <3>2, <3>3
  <2>2. CASE NoCandidate(r)  BY <2>2 DEF NoCandidate
  <2>3. CASE Prepare(r)
    <3>1. /\ \A q \in Runs \ {r} : pc'[q] = pc[q]
          /\ pc'[r] \in {"ensure", "failed"}
      BY <2>3 DEF Prepare
    <3>2. \/ UNCHANGED transition /\ transition # r
          \/ transition' = r /\ base[r] = baseline /\ pc'[r] = "ensure"
      BY <2>3 DEF Prepare
    <3>3. UNCHANGED <<base, baseline, seen>>
      BY <2>3 DEF Prepare
    <3>4. transition' \in Runs => base'[transition'] = baseline' /\ pc'[transition'] \in PastAdmission
      BY <3>1, <3>2, <3>3
    <3>5. ASSUME NEW p \in Processes, seen'[p] \in Runs
          PROVE  pc'[seen'[p]] \in PastAdmission \cup {"published", "completed", "failed"}
      BY <3>1, <3>3, <3>5
    <3> QED  BY <3>4, <3>5
  <2> QED  BY <1>5, <2>1, <2>2, <2>3
<1>6. ASSUME NEW r \in Runs, Complete(r) \/ FailsTooLate(r) PROVE Lineage'
  <2>1. CASE Complete(r)  BY <2>1 DEF Complete
  <2>2. CASE FailsTooLate(r)  BY <2>2 DEF FailsTooLate
  <2> QED  BY <1>6, <2>1, <2>2
<1>7. CASE OwnerMoves  BY <1>7 DEF OwnerMoves
<1>8. CASE Crash  BY <1>8 DEF Crash, Recovering
<1>9. CASE Restart  BY <1>9 DEF Restart
<1>10. CASE UNCHANGED vars  BY <1>10 DEF vars
<1> QED
  BY <1>1, <1>2, <1>3, <1>4, <1>5, <1>6, <1>7, <1>8, <1>9, <1>10 DEF Next

LEMMA LineageAlways == Spec => [](TypeInv /\ Lineage)
  BY InitTypeInv, NextTypeInv, InitLineage, NextLineage, PTL DEF Spec

(* How the baseline changes, if it does: only finalizeTransition moves it. *)
LEMMA BaselineStep ==
    ASSUME TypeInv, Lineage, [Next]_vars
    PROVE  \/ UNCHANGED baseline
           \/ \E r \in Runs : baseline' = NextCommit(r) /\ base[r] = baseline
<1> USE DEF TypeInv, SeenInv, Lineage, At, project, bounds
<1>1. ASSUME NEW p \in Processes, Recovery(p), baseline' # baseline
      PROVE  \E r \in Runs : baseline' = NextCommit(r) /\ base[r] = baseline
  <2>1. Finalize(p)
    BY <1>1 DEF Recovery, Snapshot, Identify, Resolve, Clear, Diverge, RestoreReady,
                MarkUnavailable
  <2> QED  BY <2>1, <1>1 DEF Finalize
<1>2. ASSUME NEW r \in Runs, Advance(r), baseline' # baseline
      PROVE  \E q \in Runs : baseline' = NextCommit(q) /\ base[q] = baseline
  <2>1. Publish(r)
    BY <1>2 DEF Advance, Ensure, Swap, Abandon
  <2> QED  BY <2>1, <1>2 DEF Publish
<1>3. ASSUME NEW r \in Runs,
             Admit(r) \/ NoCandidate(r) \/ Prepare(r) \/ Complete(r) \/ FailsTooLate(r)
      PROVE  UNCHANGED baseline
  BY <1>3 DEF Admit, NoCandidate, Prepare, Complete, FailsTooLate
<1>4. ASSUME StartupDone \/ OwnerMoves \/ Crash \/ Restart \/ UNCHANGED vars
      PROVE  UNCHANGED baseline
  BY <1>4 DEF StartupDone, OwnerMoves, Crash, Restart, vars
<1>5. ASSUME NEW p \in Processes, Unidentified(p) PROVE UNCHANGED baseline
  BY <1>5 DEF Unidentified
<1> QED
  BY <1>1, <1>2, <1>3, <1>4, <1>5 DEF Next

(* The baseline moves forward by one run at a time, by one that started from
   it, whatever recoveries, advances and crashes interleave. *)
THEOREM BaselineIsLinear == Spec => AdvancesByOneRun
<1>1. TypeInv /\ Lineage /\ [Next]_vars =>
        [baseline' # baseline =>
            \E r \in Runs : baseline' = NextCommit(r) /\ base[r] = baseline]_vars
  BY BaselineStep
<1> QED
  BY <1>1, LineageAlways, PTL DEF Spec, AdvancesByOneRun

(* CompletedIsPublished, one step earlier. *)
Publishedness ==
    \A r \in Runs : pc[r] \in {"published", "completed"} =>
        \E i \in DOMAIN baseline : baseline[i] = r

LEMMA InitPublishedness == Init => Publishedness
  BY BaselineAssumption DEF Init, Publishedness, Processes

LEMMA NextPublishedness == TypeInv /\ Lineage /\ Publishedness /\ [Next]_vars => Publishedness'
<1> SUFFICES ASSUME TypeInv, Lineage, Publishedness, [Next]_vars,
                    NEW r \in Runs, pc'[r] \in {"published", "completed"}
             PROVE  \E i \in DOMAIN baseline' : baseline'[i] = r
  BY DEF Publishedness
<1> DEFINE In(b) == \E i \in DOMAIN b : b[i] = r
<1>1. In(baseline) => In(baseline')
  <2>1. CASE UNCHANGED baseline  BY <2>1
  <2>2. ASSUME NEW q \in Runs, baseline' = NextCommit(q), base[q] = baseline
        PROVE  In(baseline) => In(baseline')
    BY <2>2, CommitGrows DEF NextCommit, TypeInv, TypeOK
  <2> QED  BY <2>1, <2>2, BaselineStep
<1>2. \/ pc[r] \in {"published", "completed"}
      \/ Publish(r) /\ transition = r
  <2> USE BaselineAssumption
      DEF TypeInv, TypeOK, Processes, Recovering, Advancing, At, Goto
  <2>1. ASSUME NEW p \in Processes, Recovery(p) \/ Unidentified(p)
        PROVE  pc[r] \in {"published", "completed"}
    <3>1. \E l \in Recovering : pc' = [pc EXCEPT ![p] = l]
      BY <2>1 DEF Recovery, Snapshot, Identify, Resolve, Finalize, Clear, Diverge, RestoreReady,
                  MarkUnavailable, Unidentified
    <3> QED  BY <3>1
  <2>2. ASSUME StartupDone \/ OwnerMoves \/ Crash \/ Restart \/ UNCHANGED vars
        PROVE  pc[r] \in {"published", "completed"}
    BY <2>2 DEF StartupDone, OwnerMoves, Crash, Restart, vars
  <2>3. ASSUME NEW q \in Runs, Admit(q) \/ NoCandidate(q) \/ Prepare(q) \/ FailsTooLate(q)
        PROVE  pc[r] \in {"published", "completed"}
    <3>1. \E l \in {"running", "refused", "ended", "failed", "ensure"} : pc' = [pc EXCEPT ![q] = l]
      BY <2>3 DEF Admit, NoCandidate, Prepare, FailsTooLate
    <3> QED  BY <3>1
  <2>4. ASSUME NEW q \in Runs, Complete(q)
        PROVE  pc[r] \in {"published", "completed"}
    BY <2>4 DEF Complete
  <2>5. ASSUME NEW q \in Runs, Ensure(q) \/ Swap(q) \/ Abandon(q)
        PROVE  pc[r] \in {"published", "completed"}
    <3>1. \E l \in {"swap", "abandon", "publish", "failed"} : pc' = [pc EXCEPT ![q] = l]
      BY <2>5 DEF Ensure, Swap, Abandon
    <3> QED  BY <3>1
  <2>6. ASSUME NEW q \in Runs, Publish(q)
        PROVE  pc[r] \in {"published", "completed"} \/ (Publish(r) /\ transition = r)
    BY <2>6 DEF Publish
  <2> QED
    BY <2>1, <2>2, <2>3, <2>4, <2>5, <2>6 DEF Next, Advance
<1>3. ASSUME Publish(r), transition = r PROVE In(baseline')
  <2>1. baseline' = Append(base[r], r) /\ base[r] \in Seq(Runs)
    BY <1>3 DEF Publish, NextCommit, TypeInv, TypeOK
  <2> QED  BY <2>1, CommitGrows
<1> QED
  BY <1>1, <1>2, <1>3 DEF Publishedness

(* Whatever else the server does, a run recorded as completed after an advance
   is, and stays, in the project's baseline. *)
THEOREM CompletedRunsArePublished == Spec => []CompletedIsPublished
<1>1. Publishedness => CompletedIsPublished
  BY DEF Publishedness, CompletedIsPublished
<1> QED
  BY <1>1, InitPublishedness, NextPublishedness, LineageAlways, PTL DEF Spec

(* A branch that its owner has moved is left alone. *)
THEOREM OwnersRefIsNeverOverwritten == Spec => OwnersRefIsKept
<1>1. TypeInv /\ [Next]_vars => [ref = Foreign => ref' = Foreign \/ faults' # faults]_vars
  <2> SUFFICES ASSUME TypeInv, [Next]_vars, ref = Foreign PROVE ref' = Foreign \/ faults' # faults
    OBVIOUS
  <2> USE DEF TypeInv, TypeOK
  <2>1. ASSUME NEW p \in Processes, Recovery(p) \/ Unidentified(p) PROVE UNCHANGED ref
    BY <2>1 DEF Recovery, Snapshot, Identify, Resolve, Finalize, Clear, Diverge, RestoreReady,
                MarkUnavailable, Unidentified
  <2>2. ASSUME NEW r \in Runs, Advance(r) PROVE UNCHANGED ref
    <3>1. Foreign # Missing /\ Foreign # base[r]
      BY RunsMakeCommits
    <3> QED  BY <2>2, <3>1 DEF Advance, Ensure, Swap, Abandon, Publish
  <2>3. ASSUME NEW r \in Runs,
               Admit(r) \/ NoCandidate(r) \/ Prepare(r) \/ Complete(r) \/ FailsTooLate(r)
        PROVE  UNCHANGED ref
    BY <2>3 DEF Admit, NoCandidate, Prepare, Complete, FailsTooLate
  <2>4. ASSUME OwnerMoves PROVE faults' # faults
    BY <2>4 DEF OwnerMoves, Fault
  <2>5. ASSUME StartupDone \/ Crash \/ Restart \/ UNCHANGED vars PROVE UNCHANGED ref
    BY <2>5 DEF StartupDone, Crash, Restart, vars
  <2> QED  BY <2>1, <2>2, <2>3, <2>4, <2>5 DEF Next
<1> QED
  BY <1>1, TypeInvAlways, PTL DEF Spec, OwnersRefIsKept

-----------------------------------------------------------------------------
(* The branch and the record.                                              *)

(* Where the branch is, by what is recorded ... *)
RefByRecord ==
    /\ transition = None => ref \in {baseline, Missing, Foreign}
    /\ transition # None => ref \in {baseline, NextCommit(transition), Missing, Foreign}

(* ... by where an advance is ... *)
RefByAdvance ==
    \A r \in Runs :
        /\ pc[r] \in Advancing => transition = r
        /\ pc[r] \in {"ensure", "swap", "abandon"} => ref # NextCommit(r)
        /\ pc[r] = "publish" => ref \in {NextCommit(r), Missing, Foreign}

(* ... and by what a recovery has seen. *)
RefByRecovery ==
    \A p \in Processes : transition = seen[p] =>
        /\ pc[p] = "finalize" => /\ ref \in {NextCommit(seen[p]), Missing, Foreign}
                                 /\ pc[seen[p]] \notin {"ensure", "swap", "abandon"}
        /\ pc[p] = "clear" /\ pc[seen[p]] \notin Advancing =>
              ref \in {base[seen[p]], Missing, Foreign}

Matching == RefByRecord /\ RefByAdvance /\ RefByRecovery

MatchInv == ~crossed => Matching

LEMMA InitMatch == Init => MatchInv
<1> SUFFICES ASSUME Init PROVE Matching
  BY DEF MatchInv
<1>1. /\ transition = None /\ ref \in {baseline, Missing}
      /\ \A p \in Processes : pc[p] \in {"idle", "done"}
  BY DEF Init
<1> QED
  BY <1>1 DEF Matching, RefByRecord, RefByAdvance, RefByRecovery, Processes, Advancing

(* The commits of a run in hand, and the values they are told apart from. *)
LEMMA CommitsDiffer ==
    ASSUME TypeOK, NEW r \in Runs
    PROVE  /\ NextCommit(r) \notin {base[r], Missing, Foreign}
           /\ base[r] \notin {Missing, Foreign}
           /\ Missing # Foreign
<1>1. base[r] \in Seq(Runs)
  BY DEF TypeOK
<1>2. NextCommit(r) \in Seq(Runs) /\ NextCommit(r) # base[r]
  BY <1>1, CommitGrows DEF NextCommit
<1> QED  BY <1>1, <1>2, RunsMakeCommits

LEMMA NextMatch == TypeInv /\ Lineage /\ MatchInv /\ [Next]_vars => MatchInv'
<1> SUFFICES ASSUME TypeInv, Lineage, MatchInv, [Next]_vars, ~crossed' PROVE Matching'
  BY DEF MatchInv
<1>0. ~crossed
  <2>1. ASSUME NEW p \in Processes, Recovery(p) \/ Unidentified(p) PROVE crossed => crossed'
    BY <2>1 DEF Recovery, Snapshot, Identify, Resolve, Finalize, Clear, Diverge, RestoreReady,
                MarkUnavailable, Unidentified, Cross
  <2>2. ASSUME NEW r \in Runs,
               Admit(r) \/ NoCandidate(r) \/ Prepare(r) \/ Complete(r) \/ FailsTooLate(r)
               \/ Advance(r)
        PROVE  UNCHANGED crossed
    BY <2>2 DEF Admit, NoCandidate, Prepare, Complete, FailsTooLate, Advance, Ensure, Swap,
                Abandon, Publish
  <2>3. ASSUME StartupDone \/ OwnerMoves \/ Crash \/ Restart \/ UNCHANGED vars
        PROVE  UNCHANGED crossed
    BY <2>3 DEF StartupDone, OwnerMoves, Crash, Restart, vars
  <2> QED  BY <2>1, <2>2, <2>3 DEF Next
<1>m. Matching
  BY <1>0 DEF MatchInv
<1>c. \A r \in Runs : /\ NextCommit(r) \notin {base[r], Missing, Foreign}
                     /\ base[r] \notin {Missing, Foreign}
                     /\ Missing # Foreign
  BY CommitsDiffer DEF TypeInv
<1> USE BaselineAssumption, <1>0, <1>m
    DEF TypeInv, TypeOK, SeenInv, Lineage, PastAdmission, Matching, RefByRecord, RefByAdvance, RefByRecovery,
        Processes, Advancing, At, Goto, project, bounds, NextCommit
<1>1. ASSUME NEW p \in Processes, Recovery(p) PROVE Matching'
  <2>1. CASE Snapshot(p)  BY <2>1 DEF Snapshot
  <2>2. CASE Identify(p)  BY <2>2 DEF Identify
  <2>3. CASE Resolve(p)  BY <2>3, <1>c, ZenonT(60) DEF Resolve
  <2>4. CASE Finalize(p)
    <3>1. RefByRecord'  BY <2>4, <1>c DEF Finalize, Cross
    <3>2. RefByAdvance'
      <4>1. CASE transition = seen[p]
        <5>1. \A r \in Runs : pc[r] \notin Advancing
          BY <2>4, <4>1 DEF Finalize, Cross
        <5> QED  BY <2>4, <4>1, <5>1 DEF Finalize
      <4>2. CASE transition # seen[p]
        <5>1. pc[p] = "finalize" /\ pc' = [pc EXCEPT ![p] = "unavailable"]
          BY <2>4, <4>2 DEF Finalize
        <5>2. UNCHANGED <<transition, baseline, base, ref>>
          BY <2>4, <4>2 DEF Finalize
        <5> QED  BY <5>1, <5>2
      <4> QED  BY <4>1, <4>2
    <3>3. RefByRecovery'  BY <2>4, <1>c DEF Finalize, Cross
    <3> QED  BY <3>1, <3>2, <3>3 DEF Matching
  <2>5. CASE Clear(p)
    <3>0. seen[p] \in Runs /\ pc[p] = "clear" /\ pc' = [pc EXCEPT ![p] = "restore"]
      BY <2>5 DEF Clear
    <3>1. CASE transition = seen[p]
      <4>1. transition' = None /\ \A r \in Runs : pc[r] \notin Advancing
        BY <2>5, <3>1 DEF Clear, Cross
      <4>2. ref \in {base[seen[p]], Missing, Foreign} /\ base[seen[p]] = baseline
        BY <3>0, <3>1, <4>1
      <4>3. UNCHANGED <<baseline, base, ref, seen>>
        BY <2>5 DEF Clear
      <4>4. RefByRecord'  BY <4>1, <4>2, <4>3
      <4>5. RefByAdvance'  BY <3>0, <4>1
      <4>6. RefByRecovery'  BY <3>0, <4>1, <4>3
      <4> QED  BY <4>4, <4>5, <4>6 DEF Matching
    <3>2. CASE transition # seen[p]
      <4>1. UNCHANGED <<transition, baseline, base, ref, seen>>
        BY <2>5, <3>2 DEF Clear
      <4> QED  BY <3>0, <4>1
    <3> QED  BY <3>1, <3>2
  <2>6. CASE Diverge(p)  BY <2>6 DEF Diverge
  <2>7. CASE RestoreReady(p)  BY <2>7, ZenonT(60) DEF RestoreReady
  <2>8. CASE MarkUnavailable(p)  BY <2>8 DEF MarkUnavailable
  <2> QED
    BY <1>1, <2>1, <2>2, <2>3, <2>4, <2>5, <2>6, <2>7, <2>8 DEF Recovery
<1>2. ASSUME NEW p \in Processes, Unidentified(p) PROVE Matching'
  BY <1>2 DEF Unidentified
<1>3. CASE StartupDone
  BY <1>3 DEF StartupDone
<1>4. ASSUME NEW r \in Runs, Advance(r) PROVE Matching'
  <2>1. CASE Ensure(r)  BY <2>1, <1>c, ZenonT(60) DEF Ensure
  <2>0. ASSUME pc[r] \in Advancing
        PROVE  transition = r /\ \A q \in Runs \ {r} : pc[q] \notin Advancing
    BY <2>0
  <2>2. CASE Swap(r)
    <3>0. pc[r] = "swap" /\ transition = r /\ \A q \in Runs \ {r} : pc[q] \notin Advancing
      BY <2>0, <2>2 DEF Swap
    <3>1. RefByRecord'  BY <2>2, <3>0, <1>c DEF Swap
    <3>2. RefByAdvance'  BY <2>2, <3>0, <1>c DEF Swap
    <3>3. RefByRecovery'  BY <2>2, <3>0, <1>c DEF Swap
    <3> QED  BY <3>1, <3>2, <3>3 DEF Matching
  <2>3. CASE Abandon(r)
    <3>0. pc[r] = "abandon" /\ transition = r /\ \A q \in Runs \ {r} : pc[q] \notin Advancing
      BY <2>0, <2>3 DEF Abandon
    <3>1. RefByRecord'  BY <2>3, <3>0, <1>c DEF Abandon
    <3>2. RefByAdvance'  BY <2>3, <3>0 DEF Abandon
    <3>3. RefByRecovery'  BY <2>3, <3>0 DEF Abandon
    <3> QED  BY <3>1, <3>2, <3>3 DEF Matching
  <2>4. CASE Publish(r)
    <3>1. RefByRecord'  BY <2>4, <1>c DEF Publish
    <3>2. RefByAdvance'  BY <2>4, <1>c DEF Publish
    <3>3. RefByRecovery'  BY <2>4, <1>c DEF Publish
    <3> QED  BY <3>1, <3>2, <3>3 DEF Matching
  <2> QED  BY <1>4, <2>1, <2>2, <2>3, <2>4 DEF Advance
<1>5. ASSUME NEW r \in Runs, Admit(r) \/ NoCandidate(r) \/ Prepare(r) PROVE Matching'
  <2>1. CASE Admit(r)
    <3>1. transition # r /\ \A p \in Processes : seen[p] # r
      BY <2>1 DEF Admit
    <3>2. \A q \in Runs \ {r} : pc'[q] = pc[q] /\ base'[q] = base[q]
      BY <2>1 DEF Admit
    <3>3. pc[r] = "recovered" /\ pc'[r] \in {"running", "refused"} /\ pc'[Startup] = pc[Startup]
      BY <2>1 DEF Admit
    <3>4. UNCHANGED <<transition, baseline, seen, ref>>
      BY <2>1 DEF Admit
    <3>5. RefByRecord'  BY <3>1, <3>2, <3>4
    <3>6. RefByAdvance'
      <4>1. pc'[r] \notin Advancing
        BY <3>3
      <4>2. ASSUME NEW q \in Runs \ {r}
            PROVE  /\ pc'[q] = pc[q]
                   /\ NextCommit(q)' = NextCommit(q)
        BY <3>2, <4>2
      <4> QED  BY <3>4, <4>1, <4>2
    <3>7. RefByRecovery'
      <4>1. ASSUME NEW p \in Processes, transition' = seen'[p], pc'[p] \in {"finalize", "clear"}
            PROVE  /\ pc[p] = pc'[p] /\ transition = seen[p]
                   /\ seen[p] \in Runs \ {r} /\ base'[seen[p]] = base[seen[p]]
                   /\ pc'[seen[p]] = pc[seen[p]]
        <5>1. p # r
          BY <3>3, <4>1
        <5>2. pc[p] = pc'[p] /\ transition = seen[p]
          BY <3>2, <3>3, <3>4, <4>1, <5>1
        <5>3. seen[p] \in Runs \ {r}
          BY <3>1, <4>1, <5>2
        <5> QED  BY <5>2, <5>3, <3>2
      <4> QED  BY <3>4, <4>1, ZenonT(60)
    <3> QED  BY <3>5, <3>6, <3>7 DEF Matching
  <2>2. CASE NoCandidate(r)  BY <2>2 DEF NoCandidate
  <2>3. CASE Prepare(r)
    <3>1. RefByRecord'  BY <2>3, <1>c DEF Prepare
    <3>2. RefByAdvance'
      <4>1. CASE transition' = r
        <5>1. transition = None /\ \A q \in Runs : pc[q] \notin Advancing
          BY <2>3, <4>1 DEF Prepare
        <5>2. baseline = base[r] /\ ref # NextCommit(r)
          BY <2>3, <4>1, <5>1, <1>c DEF Prepare
        <5> QED  BY <2>3, <4>1, <5>1, <5>2 DEF Prepare
      <4>2. CASE transition' # r
        BY <2>3, <4>2 DEF Prepare
      <4> QED  BY <4>1, <4>2
    <3>3. RefByRecovery'
      <4>1. CASE transition' = r
        <5>1. transition = None /\ baseline = base[r] /\ pc' = [pc EXCEPT ![r] = "ensure"]
          BY <2>3, <4>1 DEF Prepare
        <5>2. ASSUME NEW p \in Processes, seen[p] = r PROVE FALSE
          BY <5>2, <2>3, <4>1 DEF Prepare
        <5> QED  BY <2>3, <4>1, <5>1, <5>2 DEF Prepare
      <4>2. CASE transition' # r
        BY <2>3, <4>2 DEF Prepare
      <4> QED  BY <4>1, <4>2
    <3> QED  BY <3>1, <3>2, <3>3 DEF Matching
  <2> QED  BY <1>5, <2>1, <2>2, <2>3
<1>6. ASSUME NEW r \in Runs, Complete(r) \/ FailsTooLate(r) PROVE Matching'
  <2>1. CASE Complete(r)  BY <2>1 DEF Complete
  <2>2. CASE FailsTooLate(r)  BY <2>2 DEF FailsTooLate
  <2> QED  BY <1>6, <2>1, <2>2
<1>7. CASE OwnerMoves  BY <1>7, <1>c DEF OwnerMoves
<1>8. CASE Crash  BY <1>8 DEF Crash, Recovering
<1>9. CASE Restart  BY <1>9 DEF Restart
<1>10. CASE UNCHANGED vars  BY <1>10 DEF vars
<1> QED
  BY <1>1, <1>2, <1>3, <1>4, <1>5, <1>6, <1>7, <1>8, <1>9, <1>10 DEF Next

(* With no transition recorded the branch is the recorded baseline, however
   many advances failed and crashes were recovered from - unless its owner took
   it away, or a recovery overtook a running advance. *)
THEOREM BranchAgreesWithRecord == Spec => []BaselineMatchesRef
<1>1. MatchInv => BaselineMatchesRef
  BY DEF MatchInv, Matching, RefByRecord, BaselineMatchesRef
<1> QED
  BY <1>1, InitMatch, NextMatch, LineageAlways, PTL DEF Spec

=============================================================================
