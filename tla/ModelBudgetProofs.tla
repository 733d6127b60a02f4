------------------------- MODULE ModelBudgetProofs -------------------------
(***************************************************************************)
(* Theorems about ModelBudget, for any number of calls and workers and any *)
(* fuses and thresholds.                                                   *)
(***************************************************************************)
EXTENDS ModelBudget, FiniteSetTheorems, WellFoundedInduction, TLAPS

(***************************************************************************)
(* The operators.                                                          *)
(***************************************************************************)

\* Subtracting with a floor at zero stays in the naturals and below.
LEMMA ExcessType ==
  ASSUME NEW a \in Nat, NEW b \in Nat
  PROVE  Excess(a, b) \in Nat /\ Excess(a, b) <= a
BY DEF Excess

\* stop() leaves the latch well-typed.
LEMMA StopType ==
  ASSUME TypeOK, NEW r \in Reasons, Stop(r)
  PROVE  /\ terminal' \in Reasons \cup {"none"}
         /\ armed' \in BOOLEAN /\ elapsed' \in BOOLEAN
BY DEF TypeOK, Stop, Stopped

\* So does assertActive().
LEMMA LatchType ==
  ASSUME TypeOK, Latch
  PROVE  /\ terminal' \in Reasons \cup {"none"}
         /\ armed' \in BOOLEAN /\ elapsed' \in BOOLEAN
<1>1. CASE elapsed
  BY <1>1, StopType DEF Latch, Reasons
<1>2. CASE ~elapsed
  BY <1>2 DEF Latch, latch, TypeOK
<1> QED BY <1>1, <1>2

\* A reservation is positive.
LEMMA RequestedType ==
  ASSUME TypeOK, NEW c \in Calls
  PROVE  Requested(c) \in Nat /\ Requested(c) > 0
<1>1. Estimate[c] \in Nat /\ Estimate[c] > 0 /\ CallCap \in Nat
  BY BudgetAssumption
<1>2. MaxOutput(c) \in Nat
  <2>1. committed["root"] \in Nat /\ outstanding["root"] \in Nat
    BY DEF TypeOK, Scopes
  <2>2. CASE TokenFuse = NoLimit
    BY <1>1, <2>2 DEF MaxOutput
  <2>3. CASE TokenFuse # NoLimit
    <3>1. TokenFuse \in Nat
      BY <2>3, BudgetAssumption
    <3> QED BY <1>1, <2>1, <2>3, <3>1 DEF MaxOutput, Excess
  <2> QED BY <2>2, <2>3
<1> QED BY <1>1, <1>2 DEF Requested

\* The notices of a scope are keys, and the warning is a level.
LEMMA NotifyType ==
  ASSUME TypeOK, NEW c \in Calls, Notify(c)
  PROVE  emitted' \in [Scopes -> SUBSET Keys] /\ peak' \in Levels \cup {"none"}
<1>1. \A s \in Scopes : Crossed(s)' \subseteq Keys
  BY DEF Crossed
<1>2. emitted' \in [Scopes -> SUBSET Keys]
  BY <1>1 DEF Notify, TypeOK
<1>3. peak' \in Levels \cup {"none"}
  BY DEF Notify, TypeOK, Levels
<1> QED BY <1>2, <1>3

\* What every change of the ledger preserves of the types.
LedgerTypes ==
  /\ calls \in [Scopes -> Nat]
  /\ committed \in [Scopes -> Nat]
  /\ outstanding \in [Scopes -> Nat]
  /\ emitted \in [Scopes -> SUBSET Keys]
  /\ peak \in Levels \cup {"none"}
  /\ held \in [Calls -> Nat]
  /\ spent \in [Calls -> Nat]
  /\ overrun \in Nat

\* A reservation is well-typed, and its call holds tokens.
LEMMA ReserveType ==
  ASSUME TypeOK, NEW c \in Calls, Reserve(c)
  PROVE  /\ LedgerTypes'
         /\ held'[c] > 0
         /\ \A d \in Calls : d # c => held'[d] = held[d]
<1>1. Requested(c) \in Nat /\ Requested(c) > 0
  BY RequestedType
<1>2. calls' \in [Scopes -> Nat] /\ outstanding' \in [Scopes -> Nat]
  BY <1>1 DEF Reserve, TypeOK
<1>3. /\ held' \in [Calls -> Nat] /\ held'[c] > 0
      /\ \A d \in Calls : d # c => held'[d] = held[d]
  BY <1>1 DEF Reserve, TypeOK
<1>4. emitted' \in [Scopes -> SUBSET Keys] /\ peak' \in Levels \cup {"none"}
  BY NotifyType DEF Reserve
<1>5. committed' \in [Scopes -> Nat] /\ spent' \in [Calls -> Nat] /\ overrun' \in Nat
  BY DEF Reserve, TypeOK
<1> QED BY <1>2, <1>3, <1>4, <1>5 DEF LedgerTypes

\* A settlement or a release is well-typed, and its call holds nothing.
LEMMA SettleType ==
  ASSUME TypeOK, NEW c \in Calls, NEW u \in Usages \cup {0}, Settle(c, u)
  PROVE  /\ LedgerTypes'
         /\ held'[c] = 0
         /\ \A d \in Calls : d # c => held'[d] = held[d]
<1>0. u \in Nat
  BY BudgetAssumption
<1>1. LetGo(c)
  BY DEF Settle, Release, Reconcile
<1>2. \A s \in Scopes : Excess(outstanding[s], held[c]) \in Nat
  BY ExcessType DEF TypeOK
<1>3. outstanding' \in [Scopes -> Nat]
  BY <1>1, <1>2 DEF LetGo, TypeOK
<1>4. /\ held' \in [Calls -> Nat] /\ held'[c] = 0
      /\ \A d \in Calls : d # c => held'[d] = held[d]
  BY <1>1 DEF LetGo, TypeOK
<1>5. CASE u = 0
  <2>1. Release(c)
    BY <1>5 DEF Settle
  <2>2. /\ calls' \in [Scopes -> Nat] /\ committed' \in [Scopes -> Nat]
        /\ emitted' \in [Scopes -> SUBSET Keys] /\ peak' \in Levels \cup {"none"}
        /\ spent' \in [Calls -> Nat] /\ overrun' \in Nat
    BY <2>1 DEF Release, TypeOK
  <2> QED BY <1>3, <1>4, <2>2 DEF LedgerTypes
<1>6. CASE u # 0
  <2>1. Reconcile(c, u)
    BY <1>6 DEF Settle
  <2>2. calls' \in [Scopes -> Nat]
    BY <2>1 DEF Reconcile, TypeOK
  <2>3. committed' \in [Scopes -> Nat]
    <3>1. \A s \in Scopes : committed[s] + (IF s \in Charged(c) THEN u ELSE 0) \in Nat
      BY <1>0 DEF TypeOK
    <3> QED BY <2>1, <3>1 DEF Reconcile
  <2>4. emitted' \in [Scopes -> SUBSET Keys] /\ peak' \in Levels \cup {"none"}
    BY <2>1, NotifyType DEF Reconcile
  <2>5. spent' \in [Calls -> Nat]
    BY <1>0, <2>1 DEF Reconcile, TypeOK
  <2>6. overrun' \in Nat
    <3>1. held[c] \in Nat /\ overrun \in Nat
      BY DEF TypeOK
    <3>2. Excess(u, held[c]) \in Nat
      BY <1>0, <3>1, ExcessType
    <3> QED BY <2>1, <3>1, <3>2 DEF Reconcile
  <2> QED BY <1>3, <1>4, <2>2, <2>3, <2>4, <2>5, <2>6 DEF LedgerTypes
<1> QED BY <1>5, <1>6

\* A release is the settlement of no usage.
LEMMA ReleaseIsSettle ==
  ASSUME NEW c \in Calls, Release(c)
  PROVE  Settle(c, 0)
BY DEF Settle

(***************************************************************************)
(* Type correctness.                                                       *)
(***************************************************************************)

\* The latch, and the whole of a step that leaves it and the ledger alone.
LatchTypes ==
  terminal \in Reasons \cup {"none"} /\ elapsed \in BOOLEAN /\ armed \in BOOLEAN

\* What a step has to show: well-typed latch and ledger, and that a call moves
\* to a place in flight exactly when it holds tokens.
LEMMA StepKeepsTypes ==
  ASSUME TypeOK, LatchTypes', LedgerTypes', NEW c \in Calls, NEW p \in Places, GoTo(c, p),
         attempt' \in [Calls -> {1, 2}], usage' \in [Calls -> Usages \cup {0}],
         \A d \in Calls : d # c => held'[d] = held[d],
         (held'[c] > 0) <=> (p \in InFlight)
  PROVE  TypeOK'
<1>1. at' \in [Calls -> Places]
  BY DEF GoTo, TypeOK
<1>2. ASSUME NEW d \in Calls
      PROVE  (held'[d] > 0) <=> (at'[d] \in InFlight)
  <2>1. CASE d = c
    BY <2>1 DEF GoTo, TypeOK
  <2>2. CASE d # c
    BY <2>2 DEF GoTo, TypeOK
  <2> QED BY <2>1, <2>2
<1> QED BY <1>1, <1>2 DEF TypeOK, LatchTypes, LedgerTypes

\* Steps that leave the ledger and the reservations alone.
LEMMA LedgerUnchanged ==
  ASSUME TypeOK, UNCHANGED <<ledger, held, spent, overrun>>
  PROVE  LedgerTypes' /\ held' = held
BY DEF TypeOK, LedgerTypes, ledger

LEMMA LatchUnchanged ==
  ASSUME TypeOK, UNCHANGED latch
  PROVE  LatchTypes'
BY DEF TypeOK, LatchTypes, latch

\* A move between two places that hold nothing, or two that hold tokens.
LEMMA MoveKeepsTypes ==
  ASSUME TypeOK, LatchTypes', NEW c \in Calls, NEW p \in Places, GoTo(c, p),
         (at[c] \in InFlight) <=> (p \in InFlight),
         attempt' \in [Calls -> {1, 2}],
         UNCHANGED <<ledger, held, usage, spent, overrun>>
  PROVE  TypeOK'
<1>1. LedgerTypes' /\ held' = held
  BY LedgerUnchanged
<1>2. usage' \in [Calls -> Usages \cup {0}]
  BY DEF TypeOK
<1>3. (held'[c] > 0) <=> (p \in InFlight)
  BY <1>1 DEF TypeOK
<1> QED BY <1>1, <1>2, <1>3, StepKeepsTypes

\* A settlement that ends a call's attempt.
LEMMA SettleKeepsTypes ==
  ASSUME TypeOK, LatchTypes', NEW c \in Calls, NEW u \in Usages \cup {0}, Settle(c, u),
         NEW p \in Places \ InFlight, GoTo(c, p), UNCHANGED <<attempt, usage>>
  PROVE  TypeOK'
<1>1. /\ LedgerTypes' /\ held'[c] = 0
      /\ \A d \in Calls : d # c => held'[d] = held[d]
  BY SettleType
<1>2. usage' \in [Calls -> Usages \cup {0}] /\ attempt' \in [Calls -> {1, 2}]
  BY DEF TypeOK
<1>3. ~(held'[c] > 0)
  BY <1>1
<1> QED BY <1>1, <1>2, <1>3, StepKeepsTypes

LEMMA AttemptType ==
  ASSUME TypeOK, NEW c \in Calls, NextAttempt(c)
  PROVE  attempt' \in [Calls -> {1, 2}]
BY DEF TypeOK, NextAttempt

LEMMA InitTypes == Init => TypeOK
<1> SUFFICES ASSUME Init PROVE TypeOK
  OBVIOUS
<1>1. /\ terminal \in Reasons \cup {"none"} /\ elapsed \in BOOLEAN /\ armed \in BOOLEAN
      /\ peak \in Levels \cup {"none"} /\ overrun \in Nat
  BY DEF Init
<1>2. /\ calls \in [Scopes -> Nat] /\ committed \in [Scopes -> Nat]
      /\ outstanding \in [Scopes -> Nat] /\ emitted \in [Scopes -> SUBSET Keys]
  BY DEF Init
<1>3. /\ at \in [Calls -> Places] /\ attempt \in [Calls -> {1, 2}]
      /\ held \in [Calls -> Nat] /\ usage \in [Calls -> Usages \cup {0}]
      /\ spent \in [Calls -> Nat]
  BY DEF Init, Places
<1>4. \A c \in Calls : (held[c] > 0) <=> (at[c] \in InFlight)
  BY DEF Init, InFlight
<1> QED BY <1>1, <1>2, <1>3, <1>4 DEF TypeOK

\* Every step of a call keeps the types.
LEMMA CallKeepsTypes ==
  ASSUME TypeOK, NEW c \in Calls, Step(c)
  PROVE  TypeOK'
<1> USE DEF Places, InFlight
<1>0. at[c] \in Places /\ attempt[c] \in {1, 2} /\ usage[c] \in Usages \cup {0}
  BY DEF TypeOK
<1>1. CASE Arrive(c)
  <2>1. LatchTypes'
    BY <1>1, LatchType DEF Arrive, LatchTypes
  <2>2. attempt' \in [Calls -> {1, 2}] /\ at[c] = "idle"
    BY <1>1 DEF Arrive, TypeOK
  <2>3. CASE Inactive
    <3>1. GoTo(c, "ended")
      BY <1>1, <2>3 DEF Arrive
    <3> QED BY <1>1, <2>1, <2>2, <3>1, MoveKeepsTypes DEF Arrive
  <2>4. CASE ~Inactive
    <3>1. GoTo(c, "body")
      BY <1>1, <2>4 DEF Arrive
    <3> QED BY <1>1, <2>1, <2>2, <3>1, MoveKeepsTypes DEF Arrive
  <2> QED BY <2>3, <2>4
<1>2. CASE Discard(c)
  <2>1. LatchTypes' /\ attempt' \in [Calls -> {1, 2}]
    BY <1>2, LatchUnchanged DEF Discard, TypeOK
  <2> QED BY <1>2, <2>1, MoveKeepsTypes DEF Discard
<1>3. CASE Refuse(c)
  <2>1. LatchTypes'
    BY <1>3, LatchType, StopType DEF Refuse, LatchTypes, Reasons
  <2>2. attempt' \in [Calls -> {1, 2}]
    BY <1>3, AttemptType DEF Refuse
  <2>3. at[c] \notin InFlight
    BY <1>3 DEF Refuse, AtAdmission
  <2> QED BY <1>3, <2>1, <2>2, <2>3, MoveKeepsTypes DEF Refuse
<1>4. CASE Admit(c)
  <2>1. /\ LedgerTypes' /\ held'[c] > 0
        /\ \A d \in Calls : d # c => held'[d] = held[d]
    BY <1>4, ReserveType DEF Admit
  <2>2. LatchTypes'
    BY <1>4 DEF Admit, LatchTypes, TypeOK
  <2>3. attempt' \in [Calls -> {1, 2}] /\ usage' \in [Calls -> Usages \cup {0}]
    BY <1>4, AttemptType DEF Admit, TypeOK
  <2>4. GoTo(c, "fetch")
    BY <1>4 DEF Admit
  <2> QED BY <2>1, <2>2, <2>3, <2>4, StepKeepsTypes
<1>5. CASE Answer(c)
  <2>1. LatchTypes'
    BY <1>5, LatchType, LatchUnchanged DEF Answer, LatchTypes
  <2>2. attempt' \in [Calls -> {1, 2}] /\ at[c] \in InFlight
    BY <1>5 DEF Answer, TypeOK
  <2>3. PICK p \in {"limited", "stream"} : GoTo(c, p)
    BY <1>5 DEF Answer
  <2> QED BY <1>5, <2>1, <2>2, <2>3, MoveKeepsTypes DEF Answer
<1>6. CASE Report(c)
  <2>1. LatchTypes'
    BY <1>6, LatchType, LatchUnchanged DEF Report, LatchTypes
  <2>2. LedgerTypes' /\ held' = held /\ at' = at
    BY <1>6, LedgerUnchanged DEF Report
  <2>3. usage' \in [Calls -> Usages \cup {0}] /\ attempt' \in [Calls -> {1, 2}]
    BY <1>6 DEF Report, TypeOK
  <2> QED BY <2>1, <2>2, <2>3 DEF TypeOK, LatchTypes, LedgerTypes
<1>7. CASE Finish(c)
  <2>1. LatchTypes'
    BY <1>7, LatchUnchanged DEF Finish
  <2> QED BY <1>0, <1>7, <2>1, SettleKeepsTypes DEF Finish
<1>8. CASE Fail(c)
  <2>1. LatchTypes'
    BY <1>8, LatchUnchanged DEF Fail
  <2>2. PICK u \in Usages \cup {0} : Settle(c, u)
    BY <1>0, <1>8 DEF Fail
  <2> QED BY <1>8, <2>1, <2>2, SettleKeepsTypes DEF Fail
<1>9. CASE FailLimited(c)
  <2>1. LatchTypes'
    BY <1>9, LatchUnchanged DEF FailLimited
  <2>2. PICK u \in Usages \cup {0} : Settle(c, u)
    BY <1>9 DEF FailLimited
  <2>3. PICK p \in {"ended", "orphan"} : GoTo(c, p)
    BY <1>9 DEF FailLimited
  <2> QED BY <1>9, <2>1, <2>2, <2>3, SettleKeepsTypes DEF FailLimited
<1>10. CASE Retry(c)
  <2>1. LatchTypes'
    BY <1>10, LatchUnchanged DEF Retry
  <2>2. Settle(c, 0)
    BY <1>10, ReleaseIsSettle DEF Retry
  <2> QED BY <1>10, <2>1, <2>2, SettleKeepsTypes DEF Retry
<1>11. CASE GiveUp(c)
  <2>1. LatchTypes'
    BY <1>11, StopType DEF GiveUp, LatchTypes, Reasons
  <2>2. PICK u \in Usages \cup {0} : Settle(c, u)
    BY <1>11 DEF GiveUp
  <2> QED BY <1>11, <2>1, <2>2, SettleKeepsTypes DEF GiveUp
<1>12. CASE CutOff(c)
  <2>1. LatchTypes'
    BY <1>12, LatchUnchanged DEF CutOff
  <2>2. PICK u \in Usages \cup {0}, p \in {"ended", "orphan"} : Settle(c, u) /\ GoTo(c, p)
    BY <1>0, <1>12 DEF CutOff
  <2> QED BY <1>12, <2>1, <2>2, SettleKeepsTypes DEF CutOff
<1>13. CASE OrphanEnds(c)
  <2>1. LatchTypes'
    BY <1>13, StopType, LatchUnchanged DEF OrphanEnds, LatchTypes, Reasons
  <2>2. attempt' \in [Calls -> {1, 2}]
    BY <1>13 DEF OrphanEnds, TypeOK
  <2> QED BY <1>13, <2>1, <2>2, MoveKeepsTypes DEF OrphanEnds
<1> QED
  BY <1>1, <1>2, <1>3, <1>4, <1>5, <1>6, <1>7, <1>8, <1>9, <1>10, <1>11, <1>12, <1>13 DEF Step

\* So do the clock, the timer and the user.
LEMMA RestKeepsTypes ==
  ASSUME TypeOK, Elapse \/ Timer \/ Cancel \/ UNCHANGED vars
  PROVE  TypeOK'
<1>1. LatchTypes'
  <2>1. CASE Elapse
    BY <2>1 DEF Elapse, LatchTypes, TypeOK
  <2>2. CASE Timer \/ Cancel
    BY <2>2, StopType DEF Timer, Cancel, LatchTypes, Reasons
  <2>3. CASE UNCHANGED vars
    BY <2>3 DEF vars, latch, LatchTypes, TypeOK
  <2> QED BY <2>1, <2>2, <2>3
<1>2. UNCHANGED <<ledger, at, attempt, held, usage, spent, overrun>>
  BY DEF Elapse, Timer, Cancel, vars
<1>3. LedgerTypes' /\ held' = held
  BY <1>2, LedgerUnchanged
<1> QED BY <1>1, <1>2, <1>3 DEF TypeOK, LatchTypes, LedgerTypes

LEMMA NextKeepsTypes == TypeOK /\ [Next]_vars => TypeOK'
BY CallKeepsTypes, RestKeepsTypes DEF Next

\* Every reachable state is well-typed, and exactly the calls in flight hold
\* reserved tokens (budget.ts:81-153 with its callers).
THEOREM TypeCorrect == Spec => []TypeOK
BY InitTypes, NextKeepsTypes, PTL DEF Spec

(***************************************************************************)
(* Nothing is admitted after a stop.                                       *)
(***************************************************************************)

\* Only Admit changes the count of calls or sends a call out.
LEMMA StopStep ==
  ASSUME TypeOK, [Next]_vars, Inactive
  PROVE  calls' = calls /\ \A c \in Calls : at'[c] = "fetch" => at[c] = "fetch"
<1>1. CASE Elapse \/ Timer \/ Cancel \/ UNCHANGED vars
  BY <1>1 DEF Elapse, Timer, Cancel, vars, ledger
<1>2. ASSUME NEW c \in Calls, Step(c)
      PROVE  /\ calls' = calls
             /\ at' = at \/ \E p \in Places \ {"fetch"} : GoTo(c, p)
  <2> USE DEF Places
  <2>1. CASE Arrive(c)
    BY <2>1 DEF Arrive, ledger
  <2>2. CASE Discard(c) \/ Refuse(c) \/ Report(c) \/ OrphanEnds(c)
    BY <2>2 DEF Discard, Refuse, Report, OrphanEnds, ledger
  <2>3. CASE Admit(c)
    BY <2>3 DEF Admit
  <2>4. CASE Answer(c)
    BY <2>4 DEF Answer, ledger
  <2>5. ASSUME NEW u, Settle(c, u) PROVE calls' = calls
    BY <2>5 DEF Settle, Release, Reconcile
  <2>6. CASE Finish(c) \/ Fail(c) \/ FailLimited(c) \/ GiveUp(c) \/ CutOff(c)
    BY <2>5, <2>6 DEF Finish, Fail, FailLimited, GiveUp, CutOff
  <2>7. CASE Retry(c)
    BY <2>7 DEF Retry, Release
  <2> QED BY <1>2, <2>1, <2>2, <2>3, <2>4, <2>6, <2>7 DEF Step
<1>3. CASE \E c \in Calls : Step(c)
  <2>1. PICK c \in Calls : Step(c)
    BY <1>3
  <2> QED BY <1>2, <2>1 DEF GoTo, TypeOK
<1> QED BY <1>1, <1>3 DEF Next

\* Once the run is stopped or its deadline has passed, no call goes out, on a
\* first attempt or on a second (run-control.ts:64-67, budget.ts:86).
THEOREM StopIsFinal == Spec => NothingAdmittedAfterStop
<1>1. TypeOK /\ [Next]_vars =>
        [Inactive => /\ calls' = calls
                     /\ \A c \in Calls : at'[c] = "fetch" => at[c] = "fetch"]_vars
  BY StopStep
<1> QED BY <1>1, TypeCorrect, PTL DEF Spec, NothingAdmittedAfterStop

(***************************************************************************)
(* The call fuse.                                                          *)
(***************************************************************************)

\* A step that reserves does so below the fuse, and no other counts a call.
LEMMA CallsStep ==
  ASSUME TypeOK, [Next]_vars
  PROVE  \/ calls' = calls
         \/ ~CallFuseBlown /\ calls'["root"] = calls["root"] + 1
<1>1. CASE \E c \in Calls : Admit(c)
  <2>1. PICK c \in Calls : Admit(c)
    BY <1>1
  <2>2. "root" \in Scopes /\ "root" \in Charged(c)
    BY DEF Scopes, Charged
  <2> QED BY <2>1, <2>2 DEF Admit, Reserve
<1>2. CASE ~\E c \in Calls : Admit(c)
  <2>1. ASSUME NEW c, NEW u, Settle(c, u) PROVE calls' = calls
    BY <2>1 DEF Settle, Release, Reconcile
  <2>2. ASSUME NEW c \in Calls, Step(c) PROVE calls' = calls
    <3>1. CASE Arrive(c) \/ Discard(c) \/ Refuse(c) \/ Answer(c) \/ Report(c) \/ OrphanEnds(c)
      BY <3>1 DEF Arrive, Discard, Refuse, Answer, Report, OrphanEnds, ledger
    <3>2. CASE Finish(c) \/ Fail(c) \/ FailLimited(c) \/ GiveUp(c) \/ CutOff(c)
      BY <2>1, <3>2 DEF Finish, Fail, FailLimited, GiveUp, CutOff
    <3>3. CASE Retry(c)
      BY <3>3 DEF Retry, Release
    <3> QED BY <1>2, <2>2, <3>1, <3>2, <3>3 DEF Step
  <2> QED BY <2>2 DEF Next, Elapse, Timer, Cancel, vars, ledger
<1> QED BY <1>1, <1>2

\* However many calls overlap and retry, no more are admitted than the fuse
\* allows (budget.ts:91-99).
THEOREM CallsStayBelowFuse == Spec => []CallFuseHolds
<1>1. Init => CallFuseHolds
  <2>1. "root" \in Scopes
    BY DEF Scopes
  <2> QED BY <2>1, BudgetAssumption DEF Init, CallFuseHolds
<1>2. TypeOK /\ CallFuseHolds /\ [Next]_vars => CallFuseHolds'
  <2> SUFFICES ASSUME TypeOK, CallFuseHolds, [Next]_vars, CallFuse # NoLimit
               PROVE  calls'["root"] <= CallFuse
    BY DEF CallFuseHolds
  <2>1. CallFuse \in Nat /\ calls["root"] \in Nat /\ calls["root"] <= CallFuse
    BY BudgetAssumption DEF TypeOK, Scopes, CallFuseHolds
  <2> QED BY <2>1, CallsStep DEF CallFuseBlown
<1> QED BY <1>1, <1>2, TypeCorrect, PTL DEF Spec

(***************************************************************************)
(* Notices.                                                                *)
(***************************************************************************)

\* The warning that goes with the notices given.
WarningHolds ==
  /\ peak = "severe" <=> \E k \in emitted["root"] : k[1] = "severe"
  /\ peak = "none" <=> emitted["root"] = {}

\* collectNotices() after any change to the counters of the scopes it is called
\* for restores both parts.
LEMMA NotifyNotices ==
  ASSUME TypeOK, CrossingsAreNoticed, NEW c \in Calls, Notify(c),
         \A s \in Scopes \ Charged(c) : Crossed(s)' \subseteq Crossed(s)
  PROVE  CrossingsAreNoticed'
<1>1. "root" \in Scopes /\ "root" \in Charged(c)
  BY DEF Scopes, Charged
<1>2. \A s \in Scopes : Crossed(s)' \subseteq emitted'[s]
  BY DEF Notify, CrossingsAreNoticed
<1>3. emitted'["root"] = emitted["root"] \cup Crossed("root")'
  BY <1>1 DEF Notify
<1>4. peak' = IF \E k \in Crossed("root")' : k[1] = "severe" THEN "severe"
              ELSE IF Crossed("root")' # {} /\ peak = "none" THEN "advisory"
              ELSE peak
  BY DEF Notify
<1>5. WarningHolds
  BY DEF CrossingsAreNoticed, WarningHolds
<1>6. WarningHolds'
  <2>1. CASE \E k \in Crossed("root")' : k[1] = "severe"
    BY <1>3, <1>4, <2>1 DEF WarningHolds
  <2>2. CASE ~(\E k \in Crossed("root")' : k[1] = "severe")
    <3>1. (\E k \in emitted'["root"] : k[1] = "severe")
            <=> (\E k \in emitted["root"] : k[1] = "severe")
      BY <1>3, <2>2
    <3>2. CASE Crossed("root")' # {} /\ peak = "none"
      <4>1. peak' = "advisory"
        BY <1>4, <2>2, <3>2
      <4>2. emitted'["root"] # {}
        BY <1>3, <3>2
      <4> QED BY <1>5, <3>1, <3>2, <4>1, <4>2 DEF WarningHolds
    <3>3. CASE ~(Crossed("root")' # {} /\ peak = "none")
      <4>1. peak' = peak
        BY <1>4, <2>2, <3>3
      <4>2. emitted'["root"] = {} <=> emitted["root"] = {}
        BY <1>3, <1>5, <3>3 DEF WarningHolds
      <4> QED BY <1>5, <3>1, <4>1, <4>2 DEF WarningHolds
    <3> QED BY <3>2, <3>3
  <2> QED BY <2>1, <2>2
<1> QED BY <1>2, <1>6 DEF CrossingsAreNoticed, WarningHolds

\* Without new notices it is enough that no scope crosses anything more.
LEMMA FewerCrossings ==
  ASSUME CrossingsAreNoticed, UNCHANGED <<emitted, peak>>,
         \A s \in Scopes : Crossed(s)' \subseteq Crossed(s)
  PROVE  CrossingsAreNoticed'
BY DEF CrossingsAreNoticed

\* Unchanged counters cross what they crossed before.
LEMMA SameCrossings ==
  ASSUME NEW s, calls'[s] = calls[s], committed'[s] = committed[s],
         outstanding'[s] = outstanding[s]
  PROVE  Crossed(s)' = Crossed(s)
BY DEF Crossed, Observed

LEMMA LedgerKeepsNotices ==
  ASSUME CrossingsAreNoticed, UNCHANGED ledger
  PROVE  CrossingsAreNoticed'
BY SameCrossings, FewerCrossings DEF ledger

LEMMA ReserveKeepsNotices ==
  ASSUME TypeOK, CrossingsAreNoticed, NEW c \in Calls, Reserve(c)
  PROVE  CrossingsAreNoticed'
<1>1. ASSUME NEW s \in Scopes \ Charged(c) PROVE Crossed(s)' = Crossed(s)
  <2>1. /\ calls'[s] = calls[s] /\ outstanding'[s] = outstanding[s]
        /\ committed'[s] = committed[s]
    BY <1>1 DEF Reserve, TypeOK
  <2> QED BY <2>1, SameCrossings
<1> QED BY <1>1, NotifyNotices DEF Reserve

LEMMA SettleKeepsNotices ==
  ASSUME TypeOK, CrossingsAreNoticed, NEW c \in Calls, NEW u \in Usages \cup {0}, Settle(c, u)
  PROVE  CrossingsAreNoticed'
<1>1. CASE u = 0
  <2>1. Release(c)
    BY <1>1 DEF Settle
  <2>2. ASSUME NEW s \in Scopes, NEW k \in Keys, k \in Crossed(s)'
        PROVE  k \in Crossed(s)
    <3>1. outstanding[s] \in Nat /\ committed[s] \in Nat /\ held[c] \in Nat
      BY DEF TypeOK
    <3>2. outstanding'[s] \in Nat /\ outstanding'[s] <= outstanding[s]
      BY <2>1, <3>1, ExcessType DEF Release, LetGo
    <3>3. calls' = calls /\ committed' = committed
      BY <2>1 DEF Release
    <3>4. Threshold[s][k] # NoLimit /\ Observed(s, k[2])' >= Threshold[s][k]
      BY <2>2 DEF Crossed
    <3>5. Threshold[s][k] \in Nat
      BY <3>4, BudgetAssumption
    <3>6. Observed(s, k[2]) >= Threshold[s][k]
      BY <3>1, <3>2, <3>3, <3>4, <3>5 DEF Observed
    <3> QED BY <3>4, <3>6 DEF Crossed
  <2>3. \A s \in Scopes : Crossed(s)' \subseteq Crossed(s)
    BY <2>2 DEF Crossed
  <2> QED BY <2>1, <2>3, FewerCrossings DEF Release
<1>2. CASE u # 0
  <2>1. Reconcile(c, u)
    BY <1>2 DEF Settle
  <2>2. ASSUME NEW s \in Scopes \ Charged(c) PROVE Crossed(s)' = Crossed(s)
    <3>1. /\ calls'[s] = calls[s] /\ outstanding'[s] = outstanding[s]
          /\ committed'[s] = committed[s]
      BY <2>1, <2>2 DEF Reconcile, LetGo, TypeOK
    <3> QED BY <3>1, SameCrossings
  <2> QED BY <2>1, <2>2, NotifyNotices DEF Reconcile
<1> QED BY <1>1, <1>2

\* No threshold a scope has reached is without its notice, and the warning is
\* as high as the notices ever were (budget.ts:222-273).
THEOREM NoCrossingIsMissed == Spec => []CrossingsAreNoticed
<1>1. Init => CrossingsAreNoticed
  <2> SUFFICES ASSUME Init PROVE CrossingsAreNoticed
    OBVIOUS
  <2>1. "root" \in Scopes
    BY DEF Scopes
  <2>2. ASSUME NEW s \in Scopes, NEW k \in Keys, k \in Crossed(s) PROVE FALSE
    <3>1. Threshold[s][k] \in Nat \ {0} /\ Observed(s, k[2]) >= Threshold[s][k]
      BY <2>2, BudgetAssumption DEF Crossed
    <3>2. Observed(s, k[2]) = 0
      BY DEF Init, Observed
    <3> QED BY <3>1, <3>2
  <2>3. \A s \in Scopes : Crossed(s) = {}
    BY <2>2 DEF Crossed
  <2> QED BY <2>1, <2>3 DEF Init, CrossingsAreNoticed
<1>2. TypeOK /\ CrossingsAreNoticed /\ [Next]_vars => CrossingsAreNoticed'
  <2> SUFFICES ASSUME TypeOK, CrossingsAreNoticed, [Next]_vars
               PROVE  CrossingsAreNoticed'
    OBVIOUS
  <2>1. CASE Elapse \/ Timer \/ Cancel \/ UNCHANGED vars
    BY <2>1, LedgerKeepsNotices DEF Elapse, Timer, Cancel, vars, ledger
  <2>2. ASSUME NEW c \in Calls, Step(c) PROVE CrossingsAreNoticed'
    <3>0. usage[c] \in Usages \cup {0}
      BY DEF TypeOK
    <3>1. CASE Arrive(c) \/ Discard(c) \/ Refuse(c) \/ Answer(c) \/ Report(c) \/ OrphanEnds(c)
      BY <3>1, LedgerKeepsNotices DEF Arrive, Discard, Refuse, Answer, Report, OrphanEnds
    <3>2. CASE Admit(c)
      BY <3>2, ReserveKeepsNotices DEF Admit
    <3>3. CASE Finish(c) \/ Fail(c) \/ FailLimited(c) \/ GiveUp(c) \/ CutOff(c)
      <4>1. PICK u \in Usages \cup {0} : Settle(c, u)
        BY <3>0, <3>3 DEF Finish, Fail, FailLimited, GiveUp, CutOff
      <4> QED BY <4>1, SettleKeepsNotices
    <3>4. CASE Retry(c)
      BY <3>4, ReleaseIsSettle, SettleKeepsNotices DEF Retry
    <3> QED BY <2>2, <3>1, <3>2, <3>3, <3>4 DEF Step
  <2> QED BY <2>1, <2>2 DEF Next
<1> QED BY <1>1, <1>2, TypeCorrect, PTL DEF Spec

(***************************************************************************)
(* Sums over finite sets.  SumOf is the library's fold, a recursive        *)
(* function that chooses the order of its summands; the lemmas go by the   *)
(* least size of a subset that would be a counterexample, for which        *)
(* WFMin needs no operator.                                                *)
(***************************************************************************)

\* A set of naturals has an element whose predecessor is not in it.
LEMMA LeastNumber ==
  ASSUME NEW T, T \subseteq Nat, T # {}
  PROVE  \E n \in T : n = 0 \/ n - 1 \notin T
<1>1. PICK n \in T : \A m \in T : ~ (<<m, n>> \in OpToRel(<, Nat))
  BY WFMin, NatLessThanWellFounded
<1>2. ASSUME n # 0, n - 1 \in T
      PROVE  FALSE
  <2>1. n \in Nat /\ n - 1 \in Nat /\ n - 1 < n
    BY <1>2
  <2>2. <<n - 1, n>> \in OpToRel(<, Nat)
    BY <2>1 DEF OpToRel
  <2> QED BY <1>1, <1>2, <2>2
<1> QED BY <1>2

\* The function of subsets that the library's fold applies to the whole set.
Pick(s) == CHOOSE x \in s : TRUE
Sums(g, f, S) ==
  g = [s \in SUBSET S |-> IF s = {} THEN 0 ELSE f[Pick(s)] + g[s \ {Pick(s)}]]

\* The library's fold is the value of such a function.
LEMMA SumIsChosen ==
  ASSUME NEW f, NEW S
  PROVE  SumOf(f, S) = (CHOOSE g : Sums(g, f, S))[S]
BY DEF SumOf, FoldFunctionOnSet, MapThenFoldSet, Sums, Pick

\* What is left of a set without one of its elements.
LEMMA PickOne ==
  ASSUME NEW s, s # {}, IsFiniteSet(s)
  PROVE  /\ Pick(s) \in s
         /\ \A x \in s : /\ IsFiniteSet(s \ {x}) /\ Cardinality(s \ {x}) = Cardinality(s) - 1
                         /\ Cardinality(s) \in Nat \ {0}
<1>1. Pick(s) \in s
  BY DEF Pick
<1>2. Cardinality(s) \in Nat /\ Cardinality(s) # 0
  BY FS_CardinalityType, FS_EmptySet
<1>3. ASSUME NEW x \in s
      PROVE  IsFiniteSet(s \ {x}) /\ Cardinality(s \ {x}) = Cardinality(s) - 1
  BY FS_RemoveElement
<1> QED BY <1>1, <1>2, <1>3

\* There is such a function: it is built up by the size of the subsets.
LEMMA SumExists ==
  ASSUME NEW f, NEW S, IsFiniteSet(S)
  PROVE  \E g : Sums(g, f, S)
<1> DEFINE UpTo(n) == {s \in SUBSET S : Cardinality(s) <= n}
           Value(g, s) == IF s = {} THEN 0 ELSE f[Pick(s)] + g[s \ {Pick(s)}]
           Part(g, n) == g = [s \in UpTo(n) |-> Value(g, s)]
           Missing == {n \in Nat : ~ \E g : Part(g, n)}
<1>1. \A s \in SUBSET S : IsFiniteSet(s) /\ Cardinality(s) \in Nat /\ Cardinality(s) <= Cardinality(S)
  BY FS_Subset, FS_CardinalityType
<1>2. 0 \notin Missing
  <2>1. \A s \in UpTo(0) : s = {}
    BY <1>1, FS_EmptySet
  <2> DEFINE g == [s \in UpTo(0) |-> 0]
  <2>2. Part(g, 0)
    BY <2>1
  <2> QED BY <2>2
<1>3. ASSUME NEW n \in Nat, n # 0, n - 1 \notin Missing
      PROVE  n \notin Missing
  <2>1. PICK g : Part(g, n - 1)
    <3> HIDE DEF Part
    <3>1. n - 1 \in Nat
      BY <1>3
    <3> QED BY <1>3, <3>1
  <2> DEFINE h == [s \in UpTo(n) |-> Value(g, s)]
  <2>2. ASSUME NEW s \in UpTo(n), s # {}
        PROVE  h[s \ {Pick(s)}] = g[s \ {Pick(s)}]
    <3>1. s \ {Pick(s)} \in UpTo(n - 1) /\ s \ {Pick(s)} \in UpTo(n)
      BY <1>1, <1>3, <2>2, PickOne
    <3> QED BY <2>1, <3>1
  <2>3. \A s \in UpTo(n) : h[s] = Value(h, s)
    BY <2>2
  <2>4. Part(h, n)
    BY <2>3
  <2> QED BY <2>4
<1>4. Missing = {}
  <2> HIDE DEF Missing
  <2>1. Missing \subseteq Nat
    BY DEF Missing
  <2> QED BY <1>2, <1>3, <2>1, LeastNumber
<1>5. UpTo(Cardinality(S)) = SUBSET S /\ Cardinality(S) \in Nat
  BY <1>1
<1>6. PICK g : Part(g, Cardinality(S))
  BY <1>4, <1>5
<1> QED BY <1>5, <1>6 DEF Sums

\* Two of them, over a set and a part of it, agree where what they add agrees.
LEMMA SumsAgree ==
  ASSUME NEW S, IsFiniteSet(S), NEW T \in SUBSET S, NEW f, NEW e,
         NEW g, Sums(g, f, S), NEW h, Sums(h, e, T), \A x \in T : f[x] = e[x]
  PROVE  \A s \in SUBSET T : g[s] = h[s]
<1> DEFINE Wrong == {n \in Nat : \E s \in SUBSET T : Cardinality(s) = n /\ g[s] # h[s]}
<1>1. \A s \in SUBSET T : IsFiniteSet(s) /\ Cardinality(s) \in Nat
  BY FS_Subset, FS_CardinalityType
<1>2. ASSUME NEW n \in Wrong
      PROVE  n # 0 /\ n - 1 \in Wrong
  <2>1. PICK s \in SUBSET T : Cardinality(s) = n /\ g[s] # h[s]
    OBVIOUS
  <2>2. s # {} /\ IsFiniteSet(s)
    BY <1>1, <2>1 DEF Sums
  <2>3. Pick(s) \in s /\ Cardinality(s \ {Pick(s)}) = n - 1 /\ n - 1 \in Nat /\ n # 0
    BY <2>1, <2>2, PickOne
  <2>4. g[s] = f[Pick(s)] + g[s \ {Pick(s)}] /\ h[s] = e[Pick(s)] + h[s \ {Pick(s)}]
    BY <2>2 DEF Sums
  <2>5. g[s \ {Pick(s)}] # h[s \ {Pick(s)}]
    BY <2>1, <2>3, <2>4
  <2> QED BY <2>3, <2>5
<1>3. Wrong = {}
  <2> HIDE DEF Wrong
  <2>1. Wrong \subseteq Nat
    BY DEF Wrong
  <2> QED BY <1>2, <2>1, LeastNumber
<1> QED BY <1>1, <1>3

\* The sums of naturals are naturals, ...
LEMMA SumsAreNat ==
  ASSUME NEW S, IsFiniteSet(S), NEW f, \A x \in S : f[x] \in Nat, NEW g, Sums(g, f, S)
  PROVE  \A s \in SUBSET S : g[s] \in Nat
<1> DEFINE Wrong == {n \in Nat : \E s \in SUBSET S : Cardinality(s) = n /\ g[s] \notin Nat}
<1>1. \A s \in SUBSET S : IsFiniteSet(s) /\ Cardinality(s) \in Nat
  BY FS_Subset, FS_CardinalityType
<1>2. ASSUME NEW n \in Wrong
      PROVE  n # 0 /\ n - 1 \in Wrong
  <2>1. PICK s \in SUBSET S : Cardinality(s) = n /\ g[s] \notin Nat
    OBVIOUS
  <2>2. s # {} /\ IsFiniteSet(s)
    BY <1>1, <2>1 DEF Sums
  <2>3. Pick(s) \in s /\ Cardinality(s \ {Pick(s)}) = n - 1 /\ n - 1 \in Nat /\ n # 0
    BY <2>1, <2>2, PickOne
  <2>4. g[s] = f[Pick(s)] + g[s \ {Pick(s)}] /\ f[Pick(s)] \in Nat
    BY <2>2, <2>3 DEF Sums
  <2>5. g[s \ {Pick(s)}] \notin Nat
    BY <2>1, <2>4
  <2> QED BY <2>3, <2>5
<1>3. Wrong = {}
  <2> HIDE DEF Wrong
  <2>1. Wrong \subseteq Nat
    BY DEF Wrong
  <2> QED BY <1>2, <2>1, LeastNumber
<1> QED BY <1>1, <1>3

\* ... and any element may be taken out first.
TakesAny(g, f, S) == \A s \in SUBSET S : \A x \in s : g[s] = f[x] + g[s \ {x}]

LEMMA AnyFirst ==
  ASSUME NEW S, IsFiniteSet(S), NEW f, \A x \in S : f[x] \in Nat, NEW g, Sums(g, f, S)
  PROVE  TakesAny(g, f, S)
<1> DEFINE Wrong == {n \in Nat : \E s \in SUBSET S : /\ Cardinality(s) = n
                                                    /\ \E x \in s : g[s] # f[x] + g[s \ {x}]}
<1>1. \A s \in SUBSET S : IsFiniteSet(s) /\ Cardinality(s) \in Nat
  BY FS_Subset, FS_CardinalityType
<1>2. ASSUME NEW n \in Wrong
      PROVE  n # 0 /\ n - 1 \in Wrong
  <2>1. PICK s \in SUBSET S : Cardinality(s) = n /\ \E x \in s : g[s] # f[x] + g[s \ {x}]
    OBVIOUS
  <2>2. PICK x \in s : g[s] # f[x] + g[s \ {x}]
    BY <2>1
  <2> DEFINE y == Pick(s)
  <2>3. /\ y \in s /\ Cardinality(s \ {y}) = n - 1 /\ Cardinality(s \ {x}) = n - 1
        /\ n - 1 \in Nat /\ n # 0
    BY <1>1, <2>1, <2>2, PickOne
  <2>4. g[s] = f[y] + g[s \ {y}]
    BY <2>2 DEF Sums
  <2> HIDE DEF y
  <2>5. x # y
    BY <2>2, <2>4
  <2>6. (s \ {x}) \ {y} = (s \ {y}) \ {x} /\ x \in s \ {y} /\ y \in s \ {x}
    BY <2>2, <2>3, <2>5
  <2>7. /\ f[x] \in Nat /\ f[y] \in Nat /\ g[(s \ {y}) \ {x}] \in Nat
        /\ g[s \ {x}] \in Nat /\ g[s \ {y}] \in Nat
    BY <2>2, <2>3, SumsAreNat
  <2>8. g[s \ {y}] # f[x] + g[(s \ {y}) \ {x}] \/ g[s \ {x}] # f[y] + g[(s \ {y}) \ {x}]
    BY <2>2, <2>4, <2>7
  <2>9. \E t \in SUBSET S : Cardinality(t) = n - 1 /\ \E z \in t : g[t] # f[z] + g[t \ {z}]
    <3>1. CASE g[s \ {y}] # f[x] + g[(s \ {y}) \ {x}]
      BY <2>3, <2>6, <3>1
    <3>2. CASE g[s \ {x}] # f[y] + g[(s \ {y}) \ {x}]
      <4>1. y \in s \ {x} /\ g[s \ {x}] # f[y] + g[(s \ {x}) \ {y}]
        BY <2>6, <3>2
      <4> QED BY <2>3, <4>1
    <3> QED BY <2>8, <3>1, <3>2
  <2> QED BY <2>3, <2>9
<1>3. Wrong = {}
  <2> HIDE DEF Wrong
  <2>1. Wrong \subseteq Nat
    BY DEF Wrong
  <2> QED BY <1>2, <2>1, LeastNumber
<1> QED BY <1>1, <1>3 DEF TakesAny

LEMMA SumIsSums ==
  ASSUME NEW f, NEW S, IsFiniteSet(S)
  PROVE  \E g : Sums(g, f, S) /\ SumOf(f, S) = g[S]
<1> DEFINE g == CHOOSE h : Sums(h, f, S)
<1>1. Sums(g, f, S)
  BY SumExists
<1>2. SumOf(f, S) = g[S]
  BY SumIsChosen
<1> HIDE DEF g
<1> QED BY <1>1, <1>2

\* The sum that a ledger starts with.
LEMMA SumOfZeros ==
  ASSUME NEW S, IsFiniteSet(S), NEW f, \A x \in S : f[x] = 0
  PROVE  SumOf(f, S) = 0
<1>1. PICK g : Sums(g, f, S) /\ SumOf(f, S) = g[S]
  BY SumIsSums
<1> DEFINE Wrong == {n \in Nat : \E s \in SUBSET S : Cardinality(s) = n /\ g[s] # 0}
<1>2. \A s \in SUBSET S : IsFiniteSet(s) /\ Cardinality(s) \in Nat
  BY FS_Subset, FS_CardinalityType
<1>3. ASSUME NEW n \in Wrong
      PROVE  n # 0 /\ n - 1 \in Wrong
  <2>1. PICK s \in SUBSET S : Cardinality(s) = n /\ g[s] # 0
    OBVIOUS
  <2>2. s # {} /\ IsFiniteSet(s)
    BY <1>1, <1>2, <2>1 DEF Sums
  <2>3. Pick(s) \in s /\ Cardinality(s \ {Pick(s)}) = n - 1 /\ n - 1 \in Nat /\ n # 0
    <3>1. Pick(s) \in s
      BY <2>2, PickOne
    <3>2. Cardinality(s \ {Pick(s)}) = Cardinality(s) - 1 /\ Cardinality(s) \in Nat \ {0}
      BY <2>2, <3>1, PickOne
    <3> QED BY <2>1, <3>1, <3>2
  <2>4. g[s] = f[Pick(s)] + g[s \ {Pick(s)}] /\ f[Pick(s)] = 0
    BY <1>1, <2>2, <2>3 DEF Sums
  <2>5. g[s \ {Pick(s)}] # 0
    BY <2>1, <2>4
  <2> QED BY <2>3, <2>5
<1>4. Wrong = {}
  <2> HIDE DEF Wrong
  <2>1. Wrong \subseteq Nat
    BY DEF Wrong
  <2> QED BY <1>3, <2>1, LeastNumber
<1> QED BY <1>1, <1>2, <1>4

\* A sum depends on the summands alone.
LEMMA SumOfSame ==
  ASSUME NEW S, IsFiniteSet(S), NEW f, NEW e, \A x \in S : f[x] = e[x]
  PROVE  SumOf(f, S) = SumOf(e, S)
<1>1. PICK g : Sums(g, f, S) /\ SumOf(f, S) = g[S]
  BY SumIsSums
<1>2. PICK h : Sums(h, e, S) /\ SumOf(e, S) = h[S]
  BY SumIsSums
<1>3. \A s \in SUBSET S : g[s] = h[s]
  <2>1. S \in SUBSET S
    OBVIOUS
  <2> QED BY <1>1, <1>2, <2>1, SumsAgree
<1> QED BY <1>1, <1>2, <1>3

LEMMA SumTakenOut ==
  ASSUME NEW S, IsFiniteSet(S), NEW c \in S, NEW f, \A x \in S : f[x] \in Nat
  PROVE  SumOf(f, S) = f[c] + SumOf(f, S \ {c}) /\ SumOf(f, S) \in Nat /\ SumOf(f, S \ {c}) \in Nat
<1>1. IsFiniteSet(S \ {c}) /\ S \ {c} \in SUBSET S
  BY FS_Subset
<1>2. PICK g : Sums(g, f, S) /\ SumOf(f, S) = g[S]
  BY SumIsSums
<1>3. PICK h : Sums(h, f, S \ {c}) /\ SumOf(f, S \ {c}) = h[S \ {c}]
  BY <1>1, SumIsSums
<1>4. g[S] = f[c] + g[S \ {c}] /\ g[S] \in Nat /\ g[S \ {c}] \in Nat
  <2>1. \A s \in SUBSET S : g[s] \in Nat
    BY <1>2, SumsAreNat
  <2>2. TakesAny(g, f, S)
    BY <1>2, AnyFirst
  <2> QED BY <1>1, <2>1, <2>2 DEF TakesAny
<1>5. g[S \ {c}] = h[S \ {c}]
  BY <1>1, <1>2, <1>3, SumsAgree
<1> QED BY <1>2, <1>3, <1>4, <1>5

\* A sum of naturals is one.
LEMMA SumIsNat ==
  ASSUME NEW S, IsFiniteSet(S), NEW f, \A x \in S : f[x] \in Nat
  PROVE  SumOf(f, S) \in Nat
<1>1. PICK g : Sums(g, f, S) /\ SumOf(f, S) = g[S]
  BY SumIsSums
<1>2. \A s \in SUBSET S : g[s] \in Nat
  BY <1>1, SumsAreNat
<1> QED BY <1>1, <1>2

\* How a sum follows a change at one place.
LEMMA SumChanged ==
  ASSUME NEW S, IsFiniteSet(S), NEW c \in S, NEW f, \A x \in S : f[x] \in Nat,
         NEW e, e[c] \in Nat, \A x \in S \ {c} : e[x] = f[x]
  PROVE  /\ SumOf(e, S) = SumOf(f, S) - f[c] + e[c]
         /\ SumOf(f, S) \in Nat /\ f[c] <= SumOf(f, S)
<1>1. \A x \in S : e[x] \in Nat
  OBVIOUS
<1>2. IsFiniteSet(S \ {c})
  BY FS_Subset
<1>3. SumOf(e, S \ {c}) = SumOf(f, S \ {c})
  BY <1>2, SumOfSame
<1>4. SumOf(f, S) = f[c] + SumOf(f, S \ {c}) /\ SumOf(f, S \ {c}) \in Nat /\ SumOf(f, S) \in Nat
  BY SumTakenOut
<1>5. SumOf(e, S) = e[c] + SumOf(e, S \ {c})
  BY <1>1, SumTakenOut
<1> QED BY <1>3, <1>4, <1>5

(***************************************************************************)
(* The ledger adds up, and the token fuse holds.                           *)
(***************************************************************************)

LEMMA ChargedToIsFinite ==
  ASSUME NEW s
  PROVE  IsFiniteSet(ChargedTo(s)) /\ ChargedTo(s) \subseteq Calls
BY FS_Subset, BudgetAssumption DEF ChargedTo

\* What one call adds to the sums of the scopes it is charged to, and what it
\* leaves alone in the others.
LEMMA ScopeSums ==
  ASSUME NEW s \in Scopes, NEW c \in Calls, NEW f \in [Calls -> Nat], NEW e \in [Calls -> Nat],
         \A d \in Calls : d # c => e[d] = f[d]
  PROVE  /\ SumOf(f, ChargedTo(s)) \in Nat
         /\ s \in Charged(c) => /\ SumOf(e, ChargedTo(s)) = SumOf(f, ChargedTo(s)) - f[c] + e[c]
                                /\ f[c] <= SumOf(f, ChargedTo(s))
         /\ s \notin Charged(c) => SumOf(e, ChargedTo(s)) = SumOf(f, ChargedTo(s))
<1>1. IsFiniteSet(ChargedTo(s)) /\ ChargedTo(s) \subseteq Calls
  BY ChargedToIsFinite
<1>2. CASE s \in Charged(c)
  <2>1. c \in ChargedTo(s)
    BY <1>2 DEF ChargedTo
  <2> QED BY <1>1, <1>2, <2>1, SumChanged
<1>3. CASE s \notin Charged(c)
  <2>1. \A d \in ChargedTo(s) : e[d] = f[d]
    BY <1>1, <1>3 DEF ChargedTo
  <2>2. SumOf(f, ChargedTo(s)) \in Nat
    BY <1>1, SumIsNat
  <2> QED BY <1>1, <1>3, <2>1, <2>2, SumOfSame
<1> QED BY <1>2, <1>3

\* A reservation adds the same to the counter and to the sum.
LEMMA ReserveAddsUp ==
  ASSUME TypeOK, LedgerAddsUp, NEW c \in Calls, held[c] = 0, Reserve(c)
  PROVE  LedgerAddsUp'
<1>1. held' \in [Calls -> Nat] /\ held \in [Calls -> Nat] /\ held'[c] = Requested(c)
      /\ \A d \in Calls : d # c => held'[d] = held[d]
  BY RequestedType DEF Reserve, TypeOK
<1>2. ASSUME NEW s \in Scopes
      PROVE  /\ outstanding'[s] = SumOf(held', ChargedTo(s))
             /\ committed'[s] = SumOf(spent', ChargedTo(s))
  <2>1. outstanding'[s] = outstanding[s] + (IF s \in Charged(c) THEN Requested(c) ELSE 0)
    BY DEF Reserve
  <2>2. outstanding[s] = SumOf(held, ChargedTo(s)) /\ outstanding[s] \in Nat /\ Requested(c) \in Nat
    BY RequestedType DEF LedgerAddsUp, TypeOK
  <2>3. outstanding'[s] = SumOf(held', ChargedTo(s))
    BY <1>1, <2>1, <2>2, ScopeSums
  <2>4. committed'[s] = SumOf(spent', ChargedTo(s))
    BY DEF Reserve, LedgerAddsUp
  <2> QED BY <2>3, <2>4
<1> QED BY <1>2 DEF LedgerAddsUp, ChargedTo, Charged

\* A settlement or a release takes from the counter what it takes from the sum:
\* the floor at zero is never reached.
LEMMA SettleAddsUp ==
  ASSUME TypeOK, LedgerAddsUp, NEW c \in Calls, NEW u \in Usages \cup {0}, Settle(c, u)
  PROVE  /\ LedgerAddsUp'
         /\ \A s \in Charged(c) : held[c] <= outstanding[s]
<1>0. u \in Nat
  BY BudgetAssumption
<1>1. LetGo(c)
  BY DEF Settle, Release, Reconcile
<1>2. /\ held' \in [Calls -> Nat] /\ held \in [Calls -> Nat] /\ held'[c] = 0
      /\ \A d \in Calls : d # c => held'[d] = held[d]
  BY <1>1 DEF LetGo, TypeOK
<1>3. /\ spent' \in [Calls -> Nat] /\ spent \in [Calls -> Nat] /\ spent'[c] = spent[c] + u
      /\ \A d \in Calls : d # c => spent'[d] = spent[d]
  BY <1>0 DEF Settle, Release, Reconcile, TypeOK
<1>4. \A s \in Scopes : committed'[s] = committed[s] + (IF s \in Charged(c) THEN u ELSE 0)
  BY <1>0 DEF Settle, Release, Reconcile, TypeOK
<1>5. ASSUME NEW s \in Scopes
      PROVE  /\ outstanding'[s] = SumOf(held', ChargedTo(s))
             /\ committed'[s] = SumOf(spent', ChargedTo(s))
             /\ s \in Charged(c) => held[c] <= outstanding[s]
  <2>1. /\ outstanding[s] = SumOf(held, ChargedTo(s)) /\ outstanding[s] \in Nat
        /\ committed[s] = SumOf(spent, ChargedTo(s)) /\ committed[s] \in Nat
        /\ held[c] \in Nat /\ spent[c] \in Nat
    BY DEF LedgerAddsUp, TypeOK
  <2>2. /\ s \in Charged(c) => /\ SumOf(held', ChargedTo(s)) = outstanding[s] - held[c]
                               /\ held[c] <= outstanding[s]
        /\ s \notin Charged(c) => SumOf(held', ChargedTo(s)) = outstanding[s]
    BY <1>2, <2>1, ScopeSums
  <2>3. /\ s \in Charged(c) => SumOf(spent', ChargedTo(s)) = committed[s] + u
        /\ s \notin Charged(c) => SumOf(spent', ChargedTo(s)) = committed[s]
    BY <1>0, <1>3, <2>1, ScopeSums
  <2>4. outstanding'[s] = IF s \in Charged(c) THEN Excess(outstanding[s], held[c]) ELSE outstanding[s]
    BY <1>1 DEF LetGo
  <2>5. outstanding'[s] = SumOf(held', ChargedTo(s))
    BY <2>1, <2>2, <2>4 DEF Excess
  <2> QED BY <1>0, <1>4, <2>1, <2>2, <2>3, <2>5
<1>6. LedgerAddsUp'
  BY <1>5 DEF LedgerAddsUp, ChargedTo, Charged
<1>7. Charged(c) \subseteq Scopes
  BY BudgetAssumption DEF Charged, Scopes
<1> QED BY <1>5, <1>6, <1>7

\* Every other step leaves counters and summands alone.
LEMMA LedgerStep ==
  ASSUME TypeOK, [Next]_vars
  PROVE  \/ UNCHANGED <<ledger, held, spent, overrun>>
         \/ \E c \in Calls : held[c] = 0 /\ ~TokenFuseBlown(c) /\ Reserve(c)
         \/ \E c \in Calls, u \in Usages \cup {0} : Settle(c, u)
<1>1. ASSUME NEW c \in Calls, Step(c)
      PROVE  \/ UNCHANGED <<ledger, held, spent, overrun>>
             \/ held[c] = 0 /\ ~TokenFuseBlown(c) /\ Reserve(c)
             \/ \E u \in Usages \cup {0} : Settle(c, u)
  <2>0. usage[c] \in Usages \cup {0}
    BY DEF TypeOK
  <2>1. CASE Arrive(c) \/ Discard(c) \/ Refuse(c) \/ Answer(c) \/ Report(c) \/ OrphanEnds(c)
    BY <2>1 DEF Arrive, Discard, Refuse, Answer, Report, OrphanEnds
  <2>2. CASE Admit(c)
    <3>1. at[c] \notin InFlight /\ held[c] \in Nat
      BY <2>2 DEF Admit, AtAdmission, InFlight, TypeOK
    <3>2. held[c] = 0
      BY <3>1 DEF TypeOK
    <3> QED BY <2>2, <3>2 DEF Admit
  <2>3. CASE Finish(c) \/ Fail(c) \/ FailLimited(c) \/ GiveUp(c) \/ CutOff(c)
    BY <2>0, <2>3 DEF Finish, Fail, FailLimited, GiveUp, CutOff
  <2>4. CASE Retry(c)
    BY <2>4, ReleaseIsSettle DEF Retry
  <2> QED BY <1>1, <2>1, <2>2, <2>3, <2>4 DEF Step
<1> QED BY <1>1 DEF Next, Elapse, Timer, Cancel, vars

\* Each scope's counters are the sums over its own calls, for any number of
\* calls and however they overlap (budget.ts:108-113, 142-152, 267-270).
THEOREM LedgerIsTheSumOfItsCalls == Spec => []LedgerAddsUp
<1>1. Init => LedgerAddsUp
  <2> SUFFICES ASSUME Init, NEW s \in Scopes
               PROVE  /\ outstanding[s] = SumOf(held, ChargedTo(s))
                      /\ committed[s] = SumOf(spent, ChargedTo(s))
    BY DEF LedgerAddsUp
  <2>1. \A c \in ChargedTo(s) : held[c] = 0 /\ spent[c] = 0
    BY DEF Init, ChargedTo
  <2> QED BY <2>1, ChargedToIsFinite, SumOfZeros DEF Init
<1>2. TypeOK /\ LedgerAddsUp /\ [Next]_vars => LedgerAddsUp'
  <2> SUFFICES ASSUME TypeOK, LedgerAddsUp, [Next]_vars PROVE LedgerAddsUp'
    OBVIOUS
  <2>1. CASE UNCHANGED <<ledger, held, spent, overrun>>
    BY <2>1 DEF LedgerAddsUp, ledger, ChargedTo, Charged
  <2> QED BY <2>1, LedgerStep, ReserveAddsUp, SettleAddsUp
<1> QED BY <1>1, <1>2, TypeCorrect, PTL DEF Spec

\* The tokens: a reservation is checked against what is charged already, and a
\* settlement exceeds its reservation by what the overrun records.
TokenFuseHolds ==
  TokenFuse # NoLimit => committed["root"] + outstanding["root"] <= TokenFuse + overrun

LEMMA TokensStep ==
  ASSUME TypeOK, LedgerAddsUp, TokenFuseHolds, [Next]_vars
  PROVE  TokenFuseHolds'
<1> SUFFICES ASSUME TokenFuse # NoLimit
             PROVE  committed'["root"] + outstanding'["root"] <= TokenFuse + overrun'
  BY DEF TokenFuseHolds
<1>0. /\ TokenFuse \in Nat /\ committed["root"] \in Nat /\ outstanding["root"] \in Nat
      /\ overrun \in Nat /\ committed["root"] + outstanding["root"] <= TokenFuse + overrun
      /\ "root" \in Scopes
  BY BudgetAssumption DEF TypeOK, Scopes, TokenFuseHolds
<1>1. CASE UNCHANGED <<ledger, held, spent, overrun>>
  BY <1>0, <1>1 DEF ledger
<1>2. ASSUME NEW c \in Calls, ~TokenFuseBlown(c), Reserve(c)
      PROVE  committed'["root"] + outstanding'["root"] <= TokenFuse + overrun'
  <2>1. outstanding'["root"] = outstanding["root"] + Requested(c) /\ UNCHANGED <<committed, overrun>>
    BY <1>0, <1>2 DEF Reserve, Charged
  <2>2. Requested(c) \in Nat /\ committed["root"] + outstanding["root"] + Requested(c) <= TokenFuse
    BY <1>0, <1>2, RequestedType DEF TokenFuseBlown
  <2> QED BY <1>0, <2>1, <2>2
<1>3. ASSUME NEW c \in Calls, NEW u \in Usages \cup {0}, Settle(c, u)
      PROVE  committed'["root"] + outstanding'["root"] <= TokenFuse + overrun'
  <2>0. u \in Nat /\ held[c] \in Nat /\ "root" \in Charged(c)
    BY BudgetAssumption DEF TypeOK, Charged
  <2>1. held[c] <= outstanding["root"]
    BY <1>3, <2>0, SettleAddsUp
  <2>2. outstanding'["root"] = outstanding["root"] - held[c]
    <3>1. LetGo(c)
      BY <1>3 DEF Settle, Release, Reconcile
    <3> QED BY <1>0, <2>0, <2>1, <3>1 DEF LetGo, Excess
  <2>3. CASE u = 0
    <3>1. UNCHANGED <<committed, overrun>>
      BY <1>3, <2>3 DEF Settle, Release
    <3> QED BY <1>0, <2>0, <2>2, <3>1
  <2>4. CASE u # 0
    <3>1. committed'["root"] = committed["root"] + u /\ overrun' = overrun + Excess(u, held[c])
      BY <1>0, <1>3, <2>0, <2>4 DEF Settle, Reconcile
    <3>2. u <= held[c] + Excess(u, held[c]) /\ Excess(u, held[c]) \in Nat
      BY <2>0 DEF Excess
    <3> QED BY <1>0, <2>0, <2>1, <2>2, <3>1, <3>2
  <2> QED BY <2>3, <2>4
<1> QED BY <1>1, <1>2, <1>3, LedgerStep

\* Calls that overlap never pass a fuse together (budget.ts:91-106).
THEOREM FusesHold == Spec => []FuseHolds
<1>1. Init => TokenFuseHolds
  <2>1. "root" \in Scopes
    BY DEF Scopes
  <2> QED BY <2>1, BudgetAssumption DEF Init, TokenFuseHolds
<1>2. TypeOK /\ LedgerAddsUp /\ TokenFuseHolds /\ [Next]_vars => TokenFuseHolds'
  BY TokensStep
<1>3. CallFuseHolds /\ TokenFuseHolds => FuseHolds
  BY DEF TokenFuseHolds, FuseHolds
<1> QED
  BY <1>1, <1>2, <1>3, TypeCorrect, LedgerIsTheSumOfItsCalls, CallsStayBelowFuse, PTL DEF Spec
=============================================================================
