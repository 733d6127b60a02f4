----------------------- MODULE TeamCoordinationProofs -----------------------
(***************************************************************************)
(* Proofs about TeamCoordination, for any workers, traffic, limits and     *)
(* faults.                                                                 *)
(***************************************************************************)
EXTENDS TeamCoordination, SequenceTheorems, TLAPS

-----------------------------------------------------------------------------
(* The append queue.                                                       *)

Reasons == {"none", "FOLLOW_UP_LIMIT", "TARGET_CLOSED", "downgraded_to_quiet", "NO_FURTHER_TURN"}

LEMMA EntryIsTyped ==
    ASSUME NEW p \in Procs, NEW k \in Receipts \cup {"queued", "runtime_changed"},
           NEW m \in Msgs \cup {0}, NEW why \in Reasons
    PROVE  /\ Entry(p, k, m, why) \in EntryType
           /\ Entry(p, k, m, why).by = p
           /\ Entry(p, k, m, why).kind = k
           /\ Entry(p, k, m, why).msg = m
  BY DEF Entry, EntryType, Reasons

(* What waits behind the first entry. *)
LEMMA BacklogIsTail ==
    ASSUME NEW S, NEW q \in Seq(S), q # <<>>
    PROVE  /\ Head(q) \in S /\ Head(q) = q[1] /\ 1 \in DOMAIN q
           /\ Tail(q) \in Seq(S)
           /\ \A i \in DOMAIN Tail(q) : i + 1 \in DOMAIN q /\ Tail(q)[i] = q[i + 1]
<1>1. /\ Head(q) \in S
      /\ Tail(q) \in Seq(S)
      /\ Len(Tail(q)) = Len(q) - 1
      /\ \A i \in 1 .. Len(Tail(q)) : Tail(q)[i] = q[i + 1]
  BY HeadTailProperties
<1>2. /\ Len(q) \in Nat \ {0}
      /\ DOMAIN q = 1 .. Len(q)
      /\ DOMAIN Tail(q) = 1 .. Len(Tail(q))
  BY <1>1, EmptySeq, LenProperties
<1>3. Head(q) = q[1]
  OBVIOUS
<1> QED BY <1>1, <1>2, <1>3

(* One more entry at the end. *)
LEMMA AppendAddsOne ==
    ASSUME NEW S, NEW q \in Seq(S), NEW e \in S
    PROVE  /\ Append(q, e) \in Seq(S)
           /\ \A i \in DOMAIN Append(q, e) :
                 \/ i \in DOMAIN q /\ Append(q, e)[i] = q[i]
                 \/ i = Len(q) + 1 /\ Append(q, e)[i] = e
<1>1. /\ Append(q, e) \in Seq(S)
      /\ Len(Append(q, e)) = Len(q) + 1
      /\ \A i \in 1 .. Len(q) : Append(q, e)[i] = q[i]
      /\ Append(q, e)[Len(q) + 1] = e
  BY AppendProperties
<1>2. /\ Len(q) \in Nat
      /\ DOMAIN q = 1 .. Len(q)
      /\ DOMAIN Append(q, e) = 1 .. Len(q) + 1
  BY <1>1, LenProperties
<1> QED BY <1>1, <1>2

(* The k first entries leave the queue, and what a step adds to it are
   receipts of messages of S. *)
AddsReceipts(k, S) ==
    \A i \in DOMAIN appendQ' :
        \/ i + k \in DOMAIN appendQ /\ appendQ'[i] = appendQ[i + k]
        \/ appendQ'[i].kind \in Receipts /\ appendQ'[i].msg \in S

(* The same of a step that waits for the disk no longer. *)
LEMMA BacklogAddsNothing ==
    ASSUME appendQ \in Seq(EntryType), appendQ # <<>>, appendQ' = Backlog, NEW S
    PROVE  appendQ' \in Seq(EntryType) /\ AddsReceipts(1, S)
  BY BacklogIsTail DEF Backlog, AddsReceipts

LEMMA ReportAddsReceipt ==
    ASSUME NEW p \in Procs, NEW m \in Msgs, NEW outcome \in Receipts, NEW why \in Reasons,
           appendQ \in Seq(EntryType), appendQ # <<>>,
           Report(p, Backlog, m, outcome, why)
    PROVE  /\ appendQ' \in Seq(EntryType)
           /\ AddsReceipts(1, {m})
           /\ at' = [at EXCEPT ![p] = "receipt"]
<1> DEFINE e == Entry(p, outcome, m, why)
<1>1. e \in EntryType /\ e.kind \in Receipts /\ e.msg = m
  BY EntryIsTyped
<1>2. Backlog \in Seq(EntryType)
      /\ \A i \in DOMAIN Backlog : i + 1 \in DOMAIN appendQ /\ Backlog[i] = appendQ[i + 1]
  BY BacklogIsTail DEF Backlog
<1>3. appendQ' = Append(Backlog, e) /\ at' = [at EXCEPT ![p] = "receipt"]
  BY DEF Report
<1> HIDE DEF e
<1>4. /\ Append(Backlog, e) \in Seq(EntryType)
      /\ \A i \in DOMAIN Append(Backlog, e) :
            \/ i \in DOMAIN Backlog /\ Append(Backlog, e)[i] = Backlog[i]
            \/ i = Len(Backlog) + 1 /\ Append(Backlog, e)[i] = e
  BY <1>1, <1>2, AppendAddsOne
<1> QED BY <1>1, <1>2, <1>3, <1>4 DEF AddsReceipts

(* A receipt at the end of the queue, which stays as it is. *)
LEMMA ReportBehindQueue ==
    ASSUME NEW p \in Procs, NEW m \in Msgs, NEW outcome \in Receipts, NEW why \in Reasons,
           appendQ \in Seq(EntryType),
           Report(p, appendQ, m, outcome, why)
    PROVE  /\ appendQ' \in Seq(EntryType)
           /\ AddsReceipts(0, {m})
           /\ at' = [at EXCEPT ![p] = "receipt"]
<1> DEFINE e == Entry(p, outcome, m, why)
<1>1. e \in EntryType /\ e.kind \in Receipts /\ e.msg = m
  BY EntryIsTyped
<1>3. appendQ' = Append(appendQ, e) /\ at' = [at EXCEPT ![p] = "receipt"]
  BY DEF Report
<1> HIDE DEF e
<1>4. /\ Append(appendQ, e) \in Seq(EntryType)
      /\ \A i \in DOMAIN Append(appendQ, e) :
            \/ i \in DOMAIN appendQ /\ Append(appendQ, e)[i] = appendQ[i]
            \/ i = Len(appendQ) + 1 /\ Append(appendQ, e)[i] = e
  BY <1>1, AppendAddsOne
<1>5. DOMAIN appendQ = 1 .. Len(appendQ) /\ Len(appendQ) \in Nat
  BY LenProperties
<1> QED BY <1>1, <1>3, <1>4, <1>5 DEF AddsReceipts

-----------------------------------------------------------------------------
(* What one delivery does, by whichever branch deliver() takes.            *)

(* Process p moves to one of the places in S, and nobody else moves. *)
Moves(p, S) == \E s \in S : at' = [at EXCEPT ![p] = s]

(* Runtimes and inputs keep to the messages of R. *)
Holdings(R) ==
    /\ \A w \in Workers : Noted(quiet[w]) \subseteq R /\ seen[w] \subseteq R
    /\ \A p \in Procs : Noted(input[p]) \subseteq R

RuntimeTypes ==
    /\ followUps \in [Workers -> Nat]
    /\ spent \in [Msgs -> Nat]
    /\ input \in [Procs -> [Msgs -> Nat]]
    /\ state \in [Workers -> {"not_started", "active", "idle", "closed"}]
    /\ quiet \in [Workers -> [Msgs -> Nat]]
    /\ seen \in [Workers -> SUBSET Msgs]

LEMMA TakeInputKeepsHoldings ==
    ASSUME TypeOK, NEW p \in Procs, NEW w \in Workers, NEW extra \in SUBSET Msgs,
           TakeInput(p, w, extra)
    PROVE  /\ input' \in [Procs -> [Msgs -> Nat]]
           /\ quiet' \in [Workers -> [Msgs -> Nat]]
           /\ seen' \in [Workers -> SUBSET Msgs]
           /\ \A R : Holdings(R) /\ extra \subseteq R => Holdings(R)'
<1>1. Frame(w, extra) \in [Msgs -> Nat] /\ NoNotes \in [Msgs -> Nat]
  BY DEF TypeOK, Frame, NoNotes
<1>2. Noted(Frame(w, extra)) \subseteq Msgs /\ Noted(NoNotes) = {}
  BY DEF Noted, NoNotes
<1>3. \A R : Holdings(R) /\ extra \subseteq R => Noted(Frame(w, extra)) \subseteq R
  BY DEF Holdings, Frame, Noted, TypeOK
<1> QED BY <1>1, <1>2, <1>3 DEF TypeOK, TakeInput, Holdings

LEMMA HoldKeepsHoldings ==
    ASSUME TypeOK, NEW w \in Workers, NEW m \in Msgs, Hold(w, m), UNCHANGED <<input, seen>>
    PROVE  /\ quiet' \in [Workers -> [Msgs -> Nat]]
           /\ \A R : Holdings(R) /\ m \in R => Holdings(R)'
<1>1. quiet \in [Workers -> [Msgs -> Nat]]
  BY DEF TypeOK
<1>2. CASE m \in seen[w]
  BY <1>1, <1>2 DEF Hold, Holdings
<1>3. CASE m \notin seen[w]
  <2> DEFINE more == [quiet[w] EXCEPT ![m] = quiet[w][m] + 1]
  <2>1. quiet' = [quiet EXCEPT ![w] = more]
    BY <1>3 DEF Hold
  <2>2. more \in [Msgs -> Nat] /\ Noted(more) \subseteq Noted(quiet[w]) \cup {m}
    BY <1>1 DEF Noted
  <2> HIDE DEF more
  <2>3. quiet' \in [Workers -> [Msgs -> Nat]]
    BY <1>1, <2>1, <2>2
  <2>4. \A v \in Workers : Noted(quiet'[v]) \subseteq Noted(quiet[v]) \cup {m}
    BY <1>1, <2>1, <2>2
  <2> QED  BY <2>3, <2>4 DEF Holdings
<1> QED BY <1>2, <1>3

LEMMA NoDeliveryKeepsHoldings ==
    ASSUME TypeOK, NoDelivery
    PROVE  /\ RuntimeTypes'
           /\ \A R : Holdings(R) => Holdings(R)'
  BY DEF TypeOK, NoDelivery, RuntimeTypes, Holdings

LEMMA DeliverStep ==
    ASSUME TypeOK, appendQ # <<>>, NEW p \in Procs, NEW m \in Msgs, NEW d, Deliver(p, m, d)
    PROVE  /\ RuntimeTypes'
           /\ Moves(p, {"done", "receipt", "steer", "turnStart"})
           /\ appendQ' \in Seq(EntryType)
           /\ AddsReceipts(1, {m})
           /\ \A R : Holdings(R) /\ m \in R => Holdings(R)'
<1>0. appendQ \in Seq(EntryType)
  BY DEF TypeOK
<1>1. CASE DeliverNobody(p, m)
  <2>1. appendQ' \in Seq(EntryType) /\ AddsReceipts(1, {m})
    BY <1>0, <1>1, BacklogAddsNothing DEF DeliverNobody
  <2> QED  BY <1>1, <2>1, NoDeliveryKeepsHoldings DEF DeliverNobody, Moves
<1>2. CASE DeliverRefused(p, m)
  <2>1. /\ appendQ' \in Seq(EntryType) /\ AddsReceipts(1, {m})
        /\ at' = [at EXCEPT ![p] = "receipt"]
    BY <1>0, <1>2, ReportAddsReceipt DEF DeliverRefused, Receipts, Reasons
  <2> QED  BY <1>2, <2>1, NoDeliveryKeepsHoldings DEF DeliverRefused, Moves
<1>3. CASE DeliverClosed(p, m)
  <2>1. /\ appendQ' \in Seq(EntryType) /\ AddsReceipts(1, {m})
        /\ at' = [at EXCEPT ![p] = "receipt"]
    BY <1>0, <1>3, ReportAddsReceipt DEF DeliverClosed, Receipts, Reasons
  <2> QED  BY <1>3, <2>1, NoDeliveryKeepsHoldings DEF DeliverClosed, Moves
<1>4. CASE DeliverHeld(p, m, d)
  <2> DEFINE w == sent[m].to
             why == IF Downgraded(m, d) /\ state[w] # "not_started"
                    THEN "downgraded_to_quiet" ELSE "none"
  <2>1. /\ w \in Workers /\ Hold(w, m) /\ UNCHANGED <<spent, input, state, seen>>
        /\ Report(p, Backlog, m, "delivered", why)
    BY <1>4 DEF DeliverHeld, TypeOK
  <2>2. why \in Reasons
    BY DEF Reasons
  <2>3. followUps' \in [Workers -> Nat]
    <3>1. followUps' = followUps \/ CountFollowUp(m, d)
      BY <1>4 DEF DeliverHeld
    <3>2. followUps \in [Workers -> Nat]
      BY DEF TypeOK
    <3> QED  BY <2>1, <3>1, <3>2 DEF CountFollowUp
  <2> HIDE DEF w, why
  <2>4. /\ appendQ' \in Seq(EntryType) /\ AddsReceipts(1, {m})
        /\ at' = [at EXCEPT ![p] = "receipt"]
    BY <1>0, <2>1, <2>2, ReportAddsReceipt DEF Receipts
  <2>5. /\ quiet' \in [Workers -> [Msgs -> Nat]]
        /\ \A R : Holdings(R) /\ m \in R => Holdings(R)'
    BY <2>1, HoldKeepsHoldings
  <2> QED  BY <2>1, <2>3, <2>4, <2>5 DEF RuntimeTypes, TypeOK, Moves
<1>5. CASE DeliverWoken(p, m, d)
  <2> DEFINE w == sent[m].to
  <2>1. /\ w \in Workers /\ TakeInput(p, w, {m}) /\ appendQ' = Backlog
        /\ UNCHANGED followUps /\ spent' = [spent EXCEPT ![m] = followUps[w]]
    BY <1>5 DEF DeliverWoken, TypeOK
  <2>2. /\ Moves(p, {"steer", "turnStart"})
        /\ state' \in [Workers -> {"not_started", "active", "idle", "closed"}]
    BY <1>5 DEF DeliverWoken, RunTurn, Moves, TypeOK
  <2> HIDE DEF w
  <2>3. appendQ' \in Seq(EntryType) /\ AddsReceipts(1, {m})
    BY <1>0, <2>1, BacklogAddsNothing
  <2>4. /\ input' \in [Procs -> [Msgs -> Nat]]
        /\ quiet' \in [Workers -> [Msgs -> Nat]]
        /\ seen' \in [Workers -> SUBSET Msgs]
        /\ \A R : Holdings(R) /\ {m} \subseteq R => Holdings(R)'
    BY <2>1, TakeInputKeepsHoldings
  <2>5. followUps' \in [Workers -> Nat] /\ spent' \in [Msgs -> Nat]
    BY <2>1 DEF TypeOK
  <2>6. \A R : m \in R => {m} \subseteq R
    OBVIOUS
  <2>7. Moves(p, {"done", "receipt", "steer", "turnStart"})
    BY <2>2 DEF Moves
  <2> QED  BY <2>2, <2>3, <2>4, <2>5, <2>6, <2>7 DEF RuntimeTypes
<1> QED BY <1>1, <1>2, <1>3, <1>4, <1>5, Zenon DEF Deliver

(* The next turn of attach()'s loop. *)
LEMMA AttachLoop ==
    ASSUME TypeOK, appendQ # <<>>, NEW p \in Procs, NEW todo \in SUBSET Msgs, AttachStep(p, todo)
    PROVE  /\ RuntimeTypes'
           /\ rest' \in [Loops -> SUBSET Msgs]
           /\ \A q \in Loops : rest'[q] \subseteq rest[q] \cup todo
           /\ Moves(p, {"done", "receipt", "steer", "turnStart"})
           /\ appendQ' \in Seq(EntryType)
           /\ AddsReceipts(1, todo)
           /\ \A R : Holdings(R) /\ todo \subseteq R => Holdings(R)'
<1>0. appendQ \in Seq(EntryType) /\ rest \in [Loops -> SUBSET Msgs]
  BY DEF TypeOK
<1>1. CASE todo = {}
  <2>1. LoopEnds(p)
    BY <1>1 DEF AttachStep
  <2>2. appendQ' \in Seq(EntryType) /\ AddsReceipts(1, todo)
    BY <1>0, <2>1, BacklogAddsNothing DEF LoopEnds
  <2>3. Moves(p, {"done", "receipt", "steer", "turnStart"}) /\ rest' = rest
    BY <2>1 DEF LoopEnds, Moves
  <2> QED  BY <1>0, <2>1, <2>2, <2>3, NoDeliveryKeepsHoldings DEF LoopEnds
<1>2. CASE todo # {}
  <2>1. PICK m \in todo : /\ rest' = [rest EXCEPT ![p] = todo \ {m}]
                          /\ Deliver(p, m, det)
    BY <1>2 DEF AttachStep
  <2>2. /\ RuntimeTypes'
        /\ Moves(p, {"done", "receipt", "steer", "turnStart"})
        /\ appendQ' \in Seq(EntryType)
        /\ AddsReceipts(1, {m})
        /\ \A R : Holdings(R) /\ m \in R => Holdings(R)'
    BY <2>1, DeliverStep
  <2>3. AddsReceipts(1, todo)
    BY <2>1, <2>2 DEF AddsReceipts
  <2>4. /\ rest' \in [Loops -> SUBSET Msgs]
        /\ \A q \in Loops : rest'[q] \subseteq rest[q] \cup todo
    BY <1>0, <2>1
  <2> QED  BY <2>1, <2>2, <2>3, <2>4
<1> QED BY <1>1, <1>2

(* The next turn of settleUndeliveredQuiet()'s loop: the first (k = 0), or one
   that a written receipt leads to (k = 1). *)
LEMMA SettleLoop ==
    ASSUME TypeOK, NEW k \in {0, 1}, NEW q, NEW todo \in SUBSET Msgs,
           k = 0 => q = appendQ, k = 1 => appendQ # <<>> /\ q = Backlog,
           SettleStep(q, todo)
    PROVE  /\ RuntimeTypes'
           /\ rest' \in [Loops -> SUBSET Msgs]
           /\ \A x \in Loops : rest'[x] \subseteq rest[x] \cup todo
           /\ Moves(Settle, {"done", "receipt", "steer", "turnStart"})
           /\ appendQ' \in Seq(EntryType)
           /\ AddsReceipts(k, todo)
           /\ \A R : Holdings(R) => Holdings(R)'
<1>0. appendQ \in Seq(EntryType) /\ rest \in [Loops -> SUBSET Msgs]
  BY DEF TypeOK
<1>1. NoDelivery /\ Settle \in Procs
  BY DEF SettleStep, Procs, Loops
<1>2. CASE todo = {}
  <2>1. /\ at' = [at EXCEPT ![Settle] = "done"] /\ appendQ' = q /\ rest' = rest
    BY <1>2 DEF SettleStep
  <2>2. appendQ' \in Seq(EntryType) /\ AddsReceipts(k, todo)
    <3>1. CASE k = 1
      BY <1>0, <2>1, <3>1, BacklogAddsNothing
    <3>2. CASE k = 0
      <4>1. appendQ' = appendQ /\ DOMAIN appendQ = 1 .. Len(appendQ) /\ Len(appendQ) \in Nat
        BY <1>0, <2>1, <3>2, LenProperties
      <4> QED  BY <1>0, <3>2, <4>1 DEF AddsReceipts
    <3> QED  BY <3>1, <3>2
  <2>3. Moves(Settle, {"done", "receipt", "steer", "turnStart"})
    BY <2>1 DEF Moves
  <2> QED  BY <1>0, <1>1, <2>1, <2>2, <2>3, NoDeliveryKeepsHoldings
<1>3. CASE todo # {}
  <2>1. PICK m \in todo : /\ Report(Settle, q, m, "undeliverable", "NO_FURTHER_TURN")
                          /\ rest' = [rest EXCEPT ![Settle] = todo \ {m}]
    BY <1>3 DEF SettleStep
  <2>2. "undeliverable" \in Receipts /\ "NO_FURTHER_TURN" \in Reasons
    BY DEF Receipts, Reasons
  <2>3. /\ appendQ' \in Seq(EntryType) /\ AddsReceipts(k, {m})
        /\ at' = [at EXCEPT ![Settle] = "receipt"]
    <3>1. CASE k = 1
      <4>1. appendQ # <<>> /\ Report(Settle, Backlog, m, "undeliverable", "NO_FURTHER_TURN")
        BY <2>1, <3>1 DEF Report
      <4> QED  BY <1>0, <1>1, <2>1, <2>2, <3>1, <4>1, ReportAddsReceipt
    <3>2. CASE k = 0
      <4>1. Report(Settle, appendQ, m, "undeliverable", "NO_FURTHER_TURN")
        BY <2>1, <3>2 DEF Report
      <4> QED  BY <1>0, <1>1, <2>1, <2>2, <3>2, <4>1, ReportBehindQueue
    <3> QED  BY <3>1, <3>2
  <2>4. /\ AddsReceipts(k, todo)
        /\ rest' \in [Loops -> SUBSET Msgs]
        /\ \A x \in Loops : rest'[x] \subseteq rest[x] \cup todo
    BY <1>0, <2>1, <2>3 DEF AddsReceipts
  <2>5. Moves(Settle, {"done", "receipt", "steer", "turnStart"})
    BY <2>3 DEF Moves
  <2> QED  BY <1>1, <2>3, <2>4, <2>5, NoDeliveryKeepsHoldings
<1> QED BY <1>2, <1>3

(* Whoever waited for a receipt goes on, with what is left of its loop. *)
Continues(p) ==
    \/ p[1] = "attach" /\ AttachStep(p, rest[p])
    \/ p[1] = "settle" /\ SettleStep(Backlog, rest[p])
    \/ p[1] \notin {"attach", "settle"} /\ LoopEnds(p)

LEMMA LoopGoesOn ==
    ASSUME TypeOK, appendQ # <<>>, NEW p \in Procs, Continues(p)
    PROVE  \E todo \in SUBSET Msgs :
              /\ (todo = {} /\ Moves(p, {"done"})) \/ (p \in Loops /\ todo = rest[p])
              /\ RuntimeTypes'
              /\ rest' \in [Loops -> SUBSET Msgs]
              /\ \A q \in Loops : rest'[q] \subseteq rest[q] \cup todo
              /\ Moves(p, {"done", "receipt", "steer", "turnStart"})
              /\ appendQ' \in Seq(EntryType)
              /\ AddsReceipts(1, todo)
              /\ \A R : Holdings(R) /\ todo \subseteq R => Holdings(R)'
<1>0. rest \in [Loops -> SUBSET Msgs]
  BY DEF TypeOK
<1>1. CASE p[1] = "attach"
  <2>1. p \in Loops /\ rest[p] \in SUBSET Msgs /\ AttachStep(p, rest[p])
    BY <1>0, <1>1 DEF Procs, Loops, Settle, Continues
  <2> DEFINE todo == rest[p]
  <2>2. todo \in SUBSET Msgs /\ AttachStep(p, todo)
    BY <2>1
  <2> HIDE DEF todo
  <2>3. /\ RuntimeTypes'
        /\ rest' \in [Loops -> SUBSET Msgs]
        /\ \A q \in Loops : rest'[q] \subseteq rest[q] \cup todo
        /\ Moves(p, {"done", "receipt", "steer", "turnStart"})
        /\ appendQ' \in Seq(EntryType)
        /\ AddsReceipts(1, todo)
        /\ \A R : Holdings(R) /\ todo \subseteq R => Holdings(R)'
    BY <2>2, AttachLoop
  <2> QED  BY <2>1, <2>2, <2>3 DEF todo
<1>2. CASE p[1] = "settle"
  <2>1. p = Settle /\ p \in Loops /\ rest[p] \in SUBSET Msgs /\ SettleStep(Backlog, rest[p])
    BY <1>0, <1>2 DEF Procs, Loops, Settle, Continues
  <2> DEFINE todo == rest[p]
  <2>2. todo \in SUBSET Msgs /\ SettleStep(Backlog, todo)
    BY <2>1
  <2> HIDE DEF todo
  <2>3. /\ RuntimeTypes'
        /\ rest' \in [Loops -> SUBSET Msgs]
        /\ \A q \in Loops : rest'[q] \subseteq rest[q] \cup todo
        /\ Moves(Settle, {"done", "receipt", "steer", "turnStart"})
        /\ appendQ' \in Seq(EntryType)
        /\ AddsReceipts(1, todo)
        /\ \A R : Holdings(R) => Holdings(R)'
    BY <2>2, SettleLoop
  <2> QED  BY <2>1, <2>2, <2>3 DEF todo
<1>3. CASE p[1] \notin {"attach", "settle"}
  <2>1. LoopEnds(p)
    BY <1>3 DEF Continues
  <2>2. {} \in SUBSET Msgs /\ appendQ \in Seq(EntryType)
    BY DEF TypeOK
  <2>3. appendQ' \in Seq(EntryType) /\ AddsReceipts(1, {})
    BY <2>1, <2>2, BacklogAddsNothing DEF LoopEnds
  <2>4. /\ Moves(p, {"done"}) /\ Moves(p, {"done", "receipt", "steer", "turnStart"})
        /\ rest' = rest
    BY <2>1 DEF LoopEnds, Moves
  <2>5. RuntimeTypes' /\ \A R : Holdings(R) => Holdings(R)'
    BY <2>1, NoDeliveryKeepsHoldings DEF LoopEnds
  <2>6. \A q \in Loops : rest'[q] \subseteq rest[q] \cup {}
    BY <2>4
  <2>7. \A R : Holdings(R) /\ {} \subseteq R => Holdings(R)'
    BY <2>5
  <2>8. rest' \in [Loops -> SUBSET Msgs]
    BY <1>0, <2>4
  <2> WITNESS {} \in SUBSET Msgs
  <2> QED  BY <2>3, <2>4, <2>5, <2>6, <2>7, <2>8
<1> QED BY <1>1, <1>2, <1>3

-----------------------------------------------------------------------------
(* Types.                                                                  *)

(* Who waits for an entry, and that a queued message has been sent. *)
EntriesInv ==
    \A i \in DOMAIN appendQ :
        /\ appendQ[i].kind = "queued" =>
              /\ appendQ[i].msg \in Msgs /\ appendQ[i].msg \in DOMAIN sent
              /\ appendQ[i].by = Queue(appendQ[i].msg)
        /\ appendQ[i].kind = "runtime_changed" => appendQ[i].by[1] = "attach"

TypeInv == TypeOK /\ EntriesInv

LEMMA InitTypeInv == Init => TypeInv
<1> SUFFICES ASSUME Init PROVE TypeInv
  OBVIOUS
<1>1. <<>> \in Seq(Traffic) /\ <<>> \in Seq(EntryType) /\ Len(<<>>) = 0 /\ DOMAIN <<>> = {}
  BY EmptySeq
<1>2. EntriesInv
  BY <1>1 DEF Init, EntriesInv
<1>3. NoNotes \in [Msgs -> Nat]
  BY DEF NoNotes
<1> QED
  BY <1>1, <1>2, <1>3, TeamAssumption DEF Init, TypeInv, TypeOK, Places

(* The entry about to be written. *)
LEMMA FirstEntry ==
    ASSUME TypeInv, appendQ # <<>>, NEW e, e = Head(appendQ)
    PROVE  /\ e.by \in Procs
           /\ e.kind \in Receipts \cup {"queued", "runtime_changed"}
           /\ e.msg \in Msgs \cup {0} /\ e.why \in Reasons
           /\ 1 \in DOMAIN appendQ /\ e = appendQ[1]
           /\ e.kind = "queued" =>
                 e.msg \in Msgs /\ e.msg \in DOMAIN sent /\ e.by = Queue(e.msg)
           /\ e.kind = "runtime_changed" => e.by[1] = "attach"
<1>1. e \in EntryType /\ 1 \in DOMAIN appendQ /\ e = appendQ[1]
  BY BacklogIsTail DEF TypeInv, TypeOK
<1> QED BY <1>1 DEF TypeInv, EntriesInv, EntryType, Reasons

(* A step that only adds receipts keeps what is known of the entries. *)
LEMMA EntriesStayKnown ==
    ASSUME EntriesInv, sent' = sent, NEW k, NEW S, AddsReceipts(k, S)
    PROVE  EntriesInv'
  BY DEF EntriesInv, AddsReceipts, Receipts

LEMMA WriteTypeInv == TypeInv /\ Write => TypeInv'
<1> SUFFICES ASSUME TypeInv, Write PROVE TypeInv'
  OBVIOUS
<1> DEFINE e == Head(appendQ)
<1>0. appendQ # <<>> /\ TypeOK /\ EntriesInv
  BY DEF Write, WriteQueued, WriteRuntimeChanged, WriteReceipt, Head1, TypeInv
<1>1. /\ e.by \in Procs
      /\ e.kind \in Receipts \cup {"queued", "runtime_changed"}
      /\ e.why \in Reasons
      /\ e.kind = "queued" => e.msg \in Msgs
  BY <1>0, FirstEntry
<1>2. ASSUME NEW k, NEW S, NEW p \in Procs,
             RuntimeTypes', appendQ' \in Seq(EntryType), AddsReceipts(k, S),
             Moves(p, {"done", "receipt", "steer", "turnStart"}),
             rest' \in [Loops -> SUBSET Msgs],
             journal' \in [Msgs -> {"none", "queued"} \cup Receipts],
             reason' \in [Msgs -> Reasons],
             UNCHANGED <<sent, attached, recovery, thread, turn, childVars, handed, faults>>
      PROVE  TypeInv'
  <2>1. EntriesInv'
    BY <1>0, <1>2, EntriesStayKnown
  <2>2. at' \in [Procs -> Places]
    BY <1>0, <1>2 DEF Moves, TypeOK, Places
  <2> QED
    BY <1>0, <1>2, <2>1, <2>2 DEF TypeInv, TypeOK, RuntimeTypes, Reasons, childVars
<1>3. CASE WriteQueued
  <2>1. PICK d : Deliver(e.by, e.msg, d)
    BY <1>3 DEF WriteQueued
  <2>2. /\ e.kind = "queued" /\ e.msg \in Msgs
        /\ journal' = [journal EXCEPT ![e.msg] = "queued"]
        /\ UNCHANGED <<sent, reason, attached, rest, recovery, thread, turn, childVars, handed,
                       faults>>
    BY <1>1, <1>3 DEF WriteQueued, Head1
  <2> HIDE DEF e
  <2>3. /\ RuntimeTypes' /\ appendQ' \in Seq(EntryType) /\ AddsReceipts(1, {e.msg})
        /\ Moves(e.by, {"done", "receipt", "steer", "turnStart"})
    BY <1>0, <1>1, <2>1, <2>2, DeliverStep
  <2>4. /\ journal' \in [Msgs -> {"none", "queued"} \cup Receipts]
        /\ reason' \in [Msgs -> Reasons] /\ rest' \in [Loops -> SUBSET Msgs]
    BY <1>0, <2>2 DEF TypeOK, Reasons
  <2> QED  BY <1>1, <1>2, <2>2, <2>3, <2>4
<1>4. CASE WriteRuntimeChanged
  <2>1. PICK todo \in SUBSET Msgs : AttachStep(e.by, todo)
    BY <1>4 DEF WriteRuntimeChanged, Pending
  <2>2. UNCHANGED <<sent, journal, reason, attached, recovery, thread, turn, childVars, handed,
                    faults>>
    BY <1>4 DEF WriteRuntimeChanged, logVars
  <2> HIDE DEF e
  <2>3. /\ RuntimeTypes' /\ appendQ' \in Seq(EntryType) /\ AddsReceipts(1, todo)
        /\ Moves(e.by, {"done", "receipt", "steer", "turnStart"})
        /\ rest' \in [Loops -> SUBSET Msgs]
    BY <1>0, <1>1, <2>1, AttachLoop
  <2>4. /\ journal' \in [Msgs -> {"none", "queued"} \cup Receipts]
        /\ reason' \in [Msgs -> Reasons]
    BY <1>0, <2>2 DEF TypeOK, Reasons
  <2> QED  BY <1>1, <1>2, <2>2, <2>3, <2>4

<1>5. CASE WriteReceipt
  <2>1. /\ Continues(e.by)
        /\ e.kind \in Receipts
        /\ journal' = [journal EXCEPT ![e.msg] = e.kind]
        /\ reason' = [reason EXCEPT ![e.msg] = e.why]
        /\ UNCHANGED <<sent, attached, recovery, thread, turn, childVars, handed, faults>>
    <3>1. Continues(e.by)
      BY <1>5, Zenon DEF WriteReceipt, Continues
    <3> QED  BY <1>5, <3>1, Zenon DEF WriteReceipt, Head1
  <2> HIDE DEF e
  <2>2. PICK todo \in SUBSET Msgs :
            /\ RuntimeTypes' /\ appendQ' \in Seq(EntryType) /\ AddsReceipts(1, todo)
            /\ Moves(e.by, {"done", "receipt", "steer", "turnStart"})
            /\ rest' \in [Loops -> SUBSET Msgs]
    BY <1>0, <1>1, <2>1, LoopGoesOn
  <2>3. /\ journal' \in [Msgs -> {"none", "queued"} \cup Receipts]
        /\ reason' \in [Msgs -> Reasons]
    BY <1>0, <1>1, <2>1 DEF TypeOK, Reasons
  <2> QED  BY <1>1, <1>2, <2>1, <2>2, <2>3
<1> QED BY <1>3, <1>4, <1>5 DEF Write

(* What becomes of a call whose app-server goes away. *)
LEMMA BrokenMoves ==
    ASSUME NEW w, NEW p \in Procs
    PROVE  \/ Broken(w)[p] = at[p]
           \/ Broken(w)[p] = "failed"
           \/ at[p] = "steer" /\ Broken(w)[p] = "steerFailed"
           \/ at[p] = "turn" /\ Broken(w)[p] = "woken"
  BY DEF Broken, WhenBroken

LEMMA BrokenIsTyped ==
    ASSUME at \in [Procs -> Places], NEW w
    PROVE  Broken(w) \in [Procs -> Places]
<1>1. \A p \in Procs : Broken(w)[p] \in Places
  BY BrokenMoves DEF Places
<1>2. DOMAIN Broken(w) = Procs /\ Broken(w) = [p \in Procs |-> Broken(w)[p]]
  BY DEF Broken, WhenBroken
<1> QED BY <1>1, <1>2

(* A wake that went through. *)
LEMMA WakeReported ==
    ASSUME TypeOK, NEW m \in Msgs, NEW w \in Workers, Uses(Queue(m), w), WakeDelivered(m, w)
    PROVE  /\ seen' \in [Workers -> SUBSET Msgs]
           /\ seen' = [seen EXCEPT ![w] = @ \cup {m}]
           /\ followUps' \in [Workers -> Nat]
           /\ Moves(Queue(m), {"receipt"})
           /\ appendQ' \in Seq(EntryType)
           /\ AddsReceipts(0, {m})
<1>1. Queue(m) \in Procs /\ appendQ \in Seq(EntryType)
  BY DEF Queue, Procs, TypeOK
<1>2. "delivered" \in Receipts /\ "none" \in Reasons
  BY DEF Receipts, Reasons
<1>3. Report(Queue(m), appendQ, m, "delivered", "none")
  BY DEF WakeDelivered
<1>4. /\ appendQ' \in Seq(EntryType) /\ AddsReceipts(0, {m})
      /\ at' = [at EXCEPT ![Queue(m)] = "receipt"]
  BY <1>1, <1>2, <1>3, ReportBehindQueue
<1> QED BY <1>4 DEF WakeDelivered, TypeOK, Moves

LEMMA QueueStepTypeInv ==
    ASSUME TypeInv
    PROVE  /\ \A t \in Traffic : Submit(t) => TypeInv'
           /\ \A w \in Workers : AttachWorker(w) => TypeInv'
           /\ AppendFails => TypeInv'
           /\ SettleQuiet => TypeInv'
<1>0. /\ TypeOK /\ EntriesInv
      /\ appendQ \in Seq(EntryType) /\ sent \in Seq(Traffic)
  BY DEF TypeInv, TypeOK
<1>1. ASSUME NEW t \in Traffic, Submit(t) PROVE TypeInv'
  <2> DEFINE m == Len(sent) + 1
             e == Entry(Queue(m), "queued", m, "none")
  <2>1. /\ m \in Msgs /\ sent' = Append(sent, t) /\ appendQ' = Append(appendQ, e)
        /\ at' = [at EXCEPT ![Queue(m)] = "append"]
        /\ UNCHANGED <<logVars, teamVars, rest, spent, input, recovery, runtimeVars,
                       childVars, handed, faults>>
    BY <1>1 DEF Submit
  <2>2. /\ e \in EntryType /\ e.kind = "queued" /\ e.msg = m /\ e.by = Queue(m)
    <3>1. Queue(m) \in Procs
      BY <2>1 DEF Queue, Procs
    <3>2. m \in Msgs \cup {0} /\ "none" \in Reasons
      BY <2>1 DEF Reasons
    <3> HIDE DEF m
    <3> QED  BY <3>1, <3>2, EntryIsTyped
  <2>3. /\ Len(sent) \in Nat /\ DOMAIN sent = 1 .. Len(sent)
        /\ Append(sent, t) \in Seq(Traffic) /\ Len(Append(sent, t)) = m
        /\ DOMAIN Append(sent, t) = 1 .. m
    BY <1>0, AppendProperties, LenProperties
  <2>4. m <= MaxMsgs
    BY <2>1, <2>3, TeamAssumption DEF Msgs
  <2> HIDE DEF e, m
  <2>5. /\ Append(appendQ, e) \in Seq(EntryType)
        /\ \A i \in DOMAIN Append(appendQ, e) :
              \/ i \in DOMAIN appendQ /\ Append(appendQ, e)[i] = appendQ[i]
              \/ Append(appendQ, e)[i] = e
    BY <1>0, <2>2, AppendAddsOne
  <2>6. m \in DOMAIN sent' /\ DOMAIN sent \subseteq DOMAIN sent'
    <3>1. m = Len(sent) + 1
      BY DEF m
    <3> QED  BY <2>1, <2>3, <3>1
  <2>7. EntriesInv'
    BY <1>0, <2>1, <2>2, <2>5, <2>6 DEF EntriesInv
  <2>8. at' \in [Procs -> Places]
    BY <1>0, <2>1 DEF TypeOK, Places
  <2> QED
    BY <1>0, <2>1, <2>3, <2>4, <2>5, <2>7, <2>8
       DEF TypeInv, TypeOK, logVars, teamVars, runtimeVars, childVars
<1>2. ASSUME NEW w \in Workers, AttachWorker(w) PROVE TypeInv'
  <2> DEFINE e == Entry(Attach(w), "runtime_changed", 0, "none")
  <2>1. /\ attached' = attached \cup {w} /\ appendQ' = Append(appendQ, e)
        /\ at' = [at EXCEPT ![Attach(w)] = "append"]
        /\ UNCHANGED <<sent, logVars, det, followUps, rest, spent, input, recovery, runtimeVars,
                       childVars, handed, faults>>
    BY <1>2 DEF AttachWorker
  <2>2. e \in EntryType /\ e.kind = "runtime_changed" /\ e.by[1] = "attach"
    <3>1. Attach(w) \in Procs /\ Attach(w)[1] = "attach"
      BY DEF Attach, Procs, Loops
    <3> QED  BY <3>1, EntryIsTyped DEF Reasons
  <2> HIDE DEF e
  <2>3. /\ Append(appendQ, e) \in Seq(EntryType)
        /\ \A i \in DOMAIN Append(appendQ, e) :
              \/ i \in DOMAIN appendQ /\ Append(appendQ, e)[i] = appendQ[i]
              \/ Append(appendQ, e)[i] = e
    BY <1>0, <2>2, AppendAddsOne
  <2>4. EntriesInv'
    BY <1>0, <2>1, <2>2, <2>3 DEF EntriesInv
  <2>5. at' \in [Procs -> Places]
    BY <1>0, <2>1 DEF TypeOK, Places
  <2> QED
    BY <1>0, <2>1, <2>3, <2>4, <2>5 DEF TypeInv, TypeOK, logVars, runtimeVars, childVars
<1>3. ASSUME AppendFails PROVE TypeInv'
  <2>1. /\ appendQ # <<>> /\ appendQ' = Backlog
        /\ at' \in [Procs -> Places] /\ faults' \in Nat
        /\ UNCHANGED <<sent, logVars, teamVars, rest, spent, input, recovery, runtimeVars,
                       childVars, handed>>
    <3>1. at' = [at EXCEPT ![Head(appendQ).by] = "failed"] /\ Fault("append")
      BY <1>3 DEF AppendFails
    <3>2. at' \in [Procs -> Places]
      BY <1>0, <3>1 DEF TypeOK, Places
    <3>3. faults' \in Nat
      BY <1>0, <3>1 DEF TypeOK, Fault
    <3> QED  BY <1>3, <3>2, <3>3 DEF AppendFails
  <2>2. appendQ' \in Seq(EntryType) /\ AddsReceipts(1, {})
    BY <1>0, <2>1, BacklogAddsNothing
  <2>3. EntriesInv'
    BY <1>0, <2>1, <2>2, EntriesStayKnown
  <2> QED
    BY <1>0, <2>1, <2>2, <2>3 DEF TypeInv, TypeOK, logVars, teamVars, runtimeVars, childVars
<1>4. ASSUME SettleQuiet PROVE TypeInv'
  <2>1. PICK todo : /\ todo \in SUBSET Msgs /\ SettleStep(appendQ, todo)
                    /\ UNCHANGED <<sent, logVars, det, attached, recovery, thread, turn,
                                   childVars, handed, faults>>
    <3>1. Stranded \in SUBSET Msgs
      BY <1>0 DEF Stranded, Noted, TypeOK
    <3> QED  BY <1>4, <3>1 DEF SettleQuiet
  <2>2. /\ RuntimeTypes' /\ appendQ' \in Seq(EntryType) /\ AddsReceipts(0, todo)
        /\ Moves(Settle, {"done", "receipt", "steer", "turnStart"})
        /\ rest' \in [Loops -> SUBSET Msgs]
    <3>1. 0 \in {0, 1} /\ (0 = 0 => appendQ = appendQ) /\ (0 = 1 => appendQ # <<>>)
      OBVIOUS
    <3> QED  BY <1>0, <2>1, <3>1, SettleLoop
  <2>3. EntriesInv' /\ at' \in [Procs -> Places]
    BY <1>0, <2>1, <2>2, EntriesStayKnown DEF Moves, TypeOK, Places
  <2> QED
    BY <1>0, <2>1, <2>2, <2>3 DEF TypeInv, TypeOK, RuntimeTypes, logVars, childVars
<1> QED BY <1>1, <1>2, <1>3, <1>4

LEMMA SessionTypeInv ==
    ASSUME TypeInv, NEW w \in Workers, Progress(w) \/ Mishap(w) \/ Detach(w) \/ Close(w)
    PROVE  TypeInv'
<1>0. /\ TypeOK /\ EntriesInv /\ at \in [Procs -> Places]
  BY DEF TypeInv, TypeOK
<1>a. ASSUME UNCHANGED <<sent, appendQ>> PROVE EntriesInv'
  BY <1>0, <1>a DEF EntriesInv
<1>b. ASSUME NEW p \in Procs, NEW x \in Places, at' = [at EXCEPT ![p] = x]
      PROVE  at' \in [Procs -> Places]
  BY <1>0, <1>b
<1> USE DEF logVars, teamVars, procVars, runtimeVars, childVars
<1>1. CASE StartSession(w)
  BY <1>0, <1>1, <1>a DEF StartSession, TypeInv, TypeOK, Places
<1>2. CASE ThreadOpens(w)
  <2>1. Start(w) \in Procs /\ {} \in SUBSET Msgs
    BY DEF Start, Procs
  <2>2. /\ input' \in [Procs -> [Msgs -> Nat]]
        /\ quiet' \in [Workers -> [Msgs -> Nat]]
        /\ seen' \in [Workers -> SUBSET Msgs]
    BY <1>0, <1>2, <2>1, TakeInputKeepsHoldings DEF ThreadOpens
  <2> QED  BY <1>0, <1>2, <1>a, <2>2 DEF ThreadOpens, RunTurn, TypeInv, TypeOK, Places
<1>3. CASE TurnStarted(w)
  BY <1>0, <1>3, <1>a DEF TurnStarted, TypeInv, TypeOK
<1>4. CASE TurnCompleted(w)
  BY <1>0, <1>4, <1>a DEF TurnCompleted, TypeInv, TypeOK, Places
<1>5. CASE StartReturns(w)
  BY <1>0, <1>5, <1>a DEF StartReturns, TypeInv, TypeOK, Places
<1>6. CASE ChildExit(w)
  <2>1. faults' \in Nat
    BY <1>0, <1>6 DEF ChildExit, Fault, TypeOK
  <2>2. /\ at' \in [Procs -> Places]
        /\ state' \in [Workers -> {"not_started", "active", "idle", "closed"}]
    <3>1. at \in [Procs -> Places] /\ state \in [Workers -> {"not_started", "active", "idle", "closed"}]
      BY <1>0 DEF TypeOK
    <3>2. Broken(w) \in [Procs -> Places]
      BY <3>1, BrokenIsTyped
    <3>3. \/ UNCHANGED <<state, at>>
          \/ state' = [state EXCEPT ![w] = "closed"] /\ at' = Broken(w)
      BY <1>6 DEF ChildExit
    <3> QED  BY <3>1, <3>2, <3>3
  <2>3. UNCHANGED <<sent, logVars, appendQ, teamVars, rest, spent, input, recovery, thread, turn,
                    quiet, seen, closing, accepted, handed>> /\ alive' \subseteq alive
    BY <1>6 DEF ChildExit
  <2> QED  BY <1>0, <1>a, <2>1, <2>2, <2>3 DEF TypeInv, TypeOK
<1>7. ASSUME NEW p \in Procs, TurnAccepted(p, w) PROVE TypeInv'
  <2>1. at' \in [Procs -> Places]
    BY <1>0, <1>7 DEF TurnAccepted, AwaitIdle, Places
  <2>2. accepted' \in [Workers -> Nat] /\ handed' \subseteq Msgs
    BY <1>0, <1>7 DEF TurnAccepted, TypeOK, Noted
  <2>3. UNCHANGED <<sent, logVars, appendQ, teamVars, rest, spent, input, recovery, runtimeVars,
                    closing, alive, faults>>
    BY <1>7 DEF TurnAccepted
  <2> QED  BY <1>0, <1>a, <2>1, <2>2, <2>3 DEF TypeInv, TypeOK
<1>8. ASSUME NEW p \in Procs, TurnUnsent(p, w) PROVE TypeInv'
  BY <1>0, <1>8, <1>a DEF TurnUnsent, TypeInv, TypeOK, Places
<1>9. ASSUME NEW m \in Msgs, SteerAccepted(m, w) PROVE TypeInv'
  <2>1. /\ seen' \in [Workers -> SUBSET Msgs] /\ followUps' \in [Workers -> Nat]
        /\ Moves(Queue(m), {"receipt"})
        /\ appendQ' \in Seq(EntryType) /\ AddsReceipts(0, {m})
    BY <1>0, <1>9, WakeReported DEF SteerAccepted
  <2>2. EntriesInv' /\ at' \in [Procs -> Places]
    BY <1>0, <1>9, <2>1, EntriesStayKnown DEF SteerAccepted, Moves, Places
  <2>3. handed' \subseteq Msgs
    BY <1>0, <1>9 DEF SteerAccepted, TypeOK, Noted
  <2> QED  BY <1>0, <1>9, <2>1, <2>2, <2>3 DEF SteerAccepted, TypeInv, TypeOK
<1>10. ASSUME NEW m \in Msgs, SteerFallsThrough(m, w) PROVE TypeInv'
  BY <1>0, <1>10, <1>a DEF SteerFallsThrough, RunTurn, TypeInv, TypeOK, Places
<1>11. ASSUME NEW m \in Msgs, WakeReturns(m, w) PROVE TypeInv'
  <2>1. /\ seen' \in [Workers -> SUBSET Msgs] /\ followUps' \in [Workers -> Nat]
        /\ Moves(Queue(m), {"receipt"})
        /\ appendQ' \in Seq(EntryType) /\ AddsReceipts(0, {m})
    BY <1>0, <1>11, WakeReported DEF WakeReturns
  <2>2. EntriesInv' /\ at' \in [Procs -> Places]
    BY <1>0, <1>11, <2>1, EntriesStayKnown DEF WakeReturns, Moves, Places
  <2> QED  BY <1>0, <1>11, <2>1, <2>2 DEF WakeReturns, TypeInv, TypeOK
<1>12. CASE ThreadFails(w)
  <2>1. at' \in [Procs -> Places]
    BY <1>0, <1>12 DEF ThreadFails, Places
  <2>2. faults' \in Nat
    BY <1>0, <1>12 DEF ThreadFails, Fault, TypeOK
  <2> QED  BY <1>0, <1>12, <1>a, <2>1, <2>2 DEF ThreadFails, TypeInv, TypeOK
<1>13. ASSUME NEW p \in Procs, TurnRefused(p, w) PROVE TypeInv'
  <2>1. at' \in [Procs -> Places]
    BY <1>0, <1>13 DEF TurnRefused, AwaitIdle, Places
  <2>2. faults' \in Nat
    BY <1>0, <1>13 DEF TurnRefused, Fault, TypeOK
  <2> QED  BY <1>0, <1>13, <1>a, <2>1, <2>2 DEF TurnRefused, TypeInv, TypeOK
<1>14. ASSUME NEW p \in Procs, RecoveryTurn(p, w) PROVE TypeInv'
  <2>1. /\ input' \in [Procs -> [Msgs -> Nat]]
        /\ quiet' \in [Workers -> [Msgs -> Nat]]
        /\ seen' \in [Workers -> SUBSET Msgs]
    <3>1. {} \in SUBSET Msgs
      OBVIOUS
    <3> QED  BY <1>0, <1>14, <3>1, TakeInputKeepsHoldings DEF RecoveryTurn
  <2>2. recovery' \in [Procs -> Nat] /\ faults' \in Nat
    BY <1>0, <1>14 DEF RecoveryTurn, Fault, TypeOK
  <2> QED  BY <1>0, <1>14, <1>a, <2>1, <2>2 DEF RecoveryTurn, RunTurn, TypeInv, TypeOK, Places
<1>15. ASSUME NEW p \in Procs, ProtocolError(p, w) PROVE TypeInv'
  BY <1>0, <1>15, <1>a DEF ProtocolError, Fault, TypeInv, TypeOK, Places
<1>16. CASE Detach(w)
  BY <1>0, <1>16, <1>a DEF Detach, TypeInv, TypeOK
<1>17. CASE Close(w)
  <2>1. faults' \in Nat
    BY <1>0, <1>17 DEF Close, Fault, TypeOK
  <2>2. at' \in [Procs -> Places]
    BY <1>0, <1>17, BrokenIsTyped DEF Close
  <2> QED  BY <1>0, <1>17, <1>a, <2>1, <2>2 DEF Close, TypeInv, TypeOK
<1> QED
  BY <1>1, <1>2, <1>3, <1>4, <1>5, <1>6, <1>7, <1>8, <1>9, <1>10, <1>11, <1>12, <1>13, <1>14,
     <1>15, <1>16, <1>17 DEF Progress, Mishap

LEMMA NextTypeInv == TypeInv /\ [Next]_vars => TypeInv'
<1>1. TypeInv /\ UNCHANGED vars => TypeInv'
  BY DEF TypeInv, TypeOK, EntriesInv, vars, logVars, teamVars, procVars, runtimeVars, childVars
<1> QED
  BY <1>1, WriteTypeInv, QueueStepTypeInv, SessionTypeInv DEF Next

LEMMA TypeInvAlways == Spec => []TypeInv
  BY InitTypeInv, NextTypeInv, PTL DEF Spec

(* Every variable keeps to its type, in every reachable state. *)
THEOREM TypeCorrect == Spec => []TypeOK
<1>1. TypeInv => TypeOK
  BY DEF TypeInv
<1> QED
  BY TypeInvAlways, <1>1, PTL

-----------------------------------------------------------------------------
(* Persist first.                                                          *)

(* DurableBeforeDelivered, strengthened by the places a message passes on its
   way from the journal to a worker: the loops that will deliver it, the input
   a process has framed, and the wake in progress that will report it. *)
RecordedInv ==
    /\ handed \subseteq Recorded
    /\ Holdings(Recorded)
    /\ \A p \in Loops : rest[p] \subseteq Recorded
    /\ \A i \in DOMAIN appendQ : appendQ[i].kind \in Receipts => appendQ[i].msg \in Recorded
    /\ \A m \in Msgs : Waking(m) => m \in Recorded

LEMMA RecordedInvImplies == RecordedInv => DurableBeforeDelivered
  BY DEF RecordedInv, DurableBeforeDelivered, Holdings

LEMMA InitRecordedInv == Init => RecordedInv
<1> SUFFICES ASSUME Init PROVE RecordedInv
  OBVIOUS
<1>1. DOMAIN appendQ = {}
  BY EmptySeq DEF Init
<1>2. \A m \in Msgs : ~Waking(m)
  BY DEF Init, Waking, Queue, Procs
<1>3. Noted(NoNotes) = {}
  BY DEF Noted, NoNotes
<1> QED  BY <1>1, <1>2, <1>3 DEF Init, RecordedInv, Holdings

(* A step that records nothing new: what it reports, hands over or holds was
   held before, or belongs to a wake in progress. *)
KeepsRecord ==
    /\ UNCHANGED <<sent, journal, rest>>
    /\ \A m \in Msgs : Waking(m)' => Waking(m)
    /\ \E S \in SUBSET {m \in Msgs : Waking(m)} : AddsReceipts(0, S)
    /\ \A R : Holdings(R) /\ (\A m \in Msgs : Waking(m) => m \in R) => Holdings(R)'
    /\ \/ handed' = handed
       \/ \E p \in Procs : handed' = handed \cup Noted(input[p])

LEMMA KeepsRecordedInv == TypeInv /\ RecordedInv /\ KeepsRecord => RecordedInv'
<1> SUFFICES ASSUME TypeInv, RecordedInv, KeepsRecord PROVE RecordedInv'
  OBVIOUS
<1>1. Recorded' = Recorded
  BY DEF KeepsRecord, Recorded
<1>2. handed' \subseteq Recorded
  BY DEF KeepsRecord, RecordedInv, Holdings
<1>3. Holdings(Recorded)'
  <2>1. PICK R : R = Recorded
    OBVIOUS
  <2>2. Holdings(R) /\ \A m \in Msgs : Waking(m) => m \in R
    BY <2>1 DEF RecordedInv, Holdings
  <2>3. Holdings(R)'
    BY <2>2 DEF KeepsRecord
  <2> QED  BY <1>1, <2>1, <2>3 DEF Holdings
<1>4. \A i \in DOMAIN appendQ' : appendQ'[i].kind \in Receipts => appendQ'[i].msg \in Recorded
  <2>1. PICK S \in SUBSET {m \in Msgs : Waking(m)} : AddsReceipts(0, S)
    BY DEF KeepsRecord
  <2> QED  BY <2>1 DEF AddsReceipts, RecordedInv
<1>5. \A m \in Msgs : Waking(m)' => m \in Recorded
  BY DEF KeepsRecord, RecordedInv
<1>6. \A p \in Loops : rest'[p] \subseteq Recorded
  BY DEF KeepsRecord, RecordedInv
<1> QED  BY <1>1, <1>2, <1>3, <1>4, <1>5, <1>6 DEF RecordedInv

(* The places of a wake in progress. *)
Wakes == {"steer", "steerFailed", "turnStart", "turn", "woken"}

LEMMA SessionKeepsRecord ==
    ASSUME TypeInv, NEW w \in Workers, Progress(w) \/ Mishap(w) \/ Detach(w) \/ Close(w)
    PROVE  KeepsRecord
<1>0. TypeOK /\ at \in [Procs -> Places] /\ appendQ \in Seq(EntryType)
  BY DEF TypeInv, TypeOK
<1>q. /\ \A m \in Msgs : Queue(m) \in Procs
      /\ \A m \in Msgs : Queue(m) # Start(w) /\ Start(w) \in Procs
  BY DEF Queue, Start, Procs
<1>a. ASSUME appendQ' = appendQ
      PROVE  \E S \in SUBSET {m \in Msgs : Waking(m)} : AddsReceipts(0, S)
  <2>1. AddsReceipts(0, {})
    <3>1. DOMAIN appendQ = 1 .. Len(appendQ) /\ Len(appendQ) \in Nat
      BY <1>0, LenProperties
    <3> QED  BY <1>a, <3>1 DEF AddsReceipts
  <2>2. {} \in SUBSET {m \in Msgs : Waking(m)}
    OBVIOUS
  <2> QED  BY <2>1, <2>2
<1>b. ASSUME UNCHANGED <<input, quiet, seen>>
      PROVE  \A R : Holdings(R) /\ (\A m \in Msgs : Waking(m) => m \in R) => Holdings(R)'
  BY <1>b DEF Holdings
<1>c. ASSUME NEW p \in Procs, at[p] \in Wakes \/ p = Start(w), NEW x, at' = [at EXCEPT ![p] = x]
      PROVE  \A m \in Msgs : Waking(m)' => Waking(m)
  BY <1>0, <1>q, <1>c DEF Waking, Wakes
<1>d. ASSUME at' = Broken(w) \/ at' = at
      PROVE  \A m \in Msgs : Waking(m)' => Waking(m)
  BY <1>q, <1>d, BrokenMoves DEF Waking
<1>e. ASSUME NEW p \in Procs, TakeInput(p, w, {})
      PROVE  \A R : Holdings(R) /\ (\A m \in Msgs : Waking(m) => m \in R) => Holdings(R)'
  <2>1. {} \in SUBSET Msgs /\ \A R : {} \subseteq R
    OBVIOUS
  <2>2. \A R : Holdings(R) /\ {} \subseteq R => Holdings(R)'
    BY <1>0, <1>e, <2>1, TakeInputKeepsHoldings
  <2> QED  BY <2>1, <2>2
<1>f. ASSUME NEW m \in Msgs, WakeDelivered(m, w), Uses(Queue(m), w), Waking(m),
             UNCHANGED <<input, quiet>>
      PROVE  /\ \E S \in SUBSET {n \in Msgs : Waking(n)} : AddsReceipts(0, S)
             /\ \A R : Holdings(R) /\ (\A n \in Msgs : Waking(n) => n \in R) => Holdings(R)'
             /\ \A n \in Msgs : Waking(n)' => Waking(n)
  <2>1. /\ seen' = [seen EXCEPT ![w] = @ \cup {m}]
        /\ Moves(Queue(m), {"receipt"}) /\ AddsReceipts(0, {m})
    BY <1>0, <1>f, WakeReported
  <2>2. \A R : Holdings(R) /\ (\A n \in Msgs : Waking(n) => n \in R) => Holdings(R)'
    BY <1>0, <1>f, <2>1 DEF Holdings, TypeOK
  <2>3. {m} \in SUBSET {n \in Msgs : Waking(n)}
    BY <1>f
  <2>4. \A n \in Msgs : Waking(n)' => Waking(n)
    BY <1>0, <1>q, <2>1 DEF Moves, Waking
  <2> QED  BY <2>1, <2>2, <2>3, <2>4
<1> USE DEF logVars, teamVars, procVars, runtimeVars, childVars
<1>1. CASE StartSession(w)
  BY <1>1, <1>a, <1>b, <1>c, <1>q DEF StartSession, KeepsRecord
<1>2. CASE ThreadOpens(w)
  <2>1. /\ TakeInput(Start(w), w, {}) /\ at' = [at EXCEPT ![Start(w)] = "turnStart"]
        /\ UNCHANGED <<sent, journal, appendQ, rest, handed>>
    BY <1>2 DEF ThreadOpens, RunTurn
  <2>2. \A m \in Msgs : Waking(m)' => Waking(m)
    BY <1>0, <1>q, <2>1 DEF Waking
  <2>3. \A R : Holdings(R) /\ (\A m \in Msgs : Waking(m) => m \in R) => Holdings(R)'
    <3>1. Start(w) \in Procs
      BY DEF Start, Procs
    <3> QED  BY <1>e, <2>1, <3>1
  <2> QED  BY <1>a, <2>1, <2>2, <2>3 DEF KeepsRecord
<1>3. CASE TurnStarted(w)
  BY <1>3, <1>a, <1>b, <1>d DEF TurnStarted, KeepsRecord
<1>4. CASE TurnCompleted(w)
  <2>1. \A m \in Msgs : Waking(m)' => Waking(m)
    BY <1>4, <1>q DEF TurnCompleted, Released, Waking
  <2> QED  BY <1>4, <1>a, <1>b, <2>1 DEF TurnCompleted, KeepsRecord
<1>5. CASE StartReturns(w)
  BY <1>5, <1>a, <1>b, <1>c, <1>q DEF StartReturns, KeepsRecord
<1>6. CASE ChildExit(w)
  BY <1>6, <1>a, <1>b, <1>d DEF ChildExit, KeepsRecord
<1>7. ASSUME NEW p \in Procs, TurnAccepted(p, w) PROVE KeepsRecord
  BY <1>7, <1>a, <1>b, <1>c DEF TurnAccepted, AwaitIdle, Wakes, KeepsRecord
<1>8. ASSUME NEW p \in Procs, TurnUnsent(p, w) PROVE KeepsRecord
  BY <1>8, <1>a, <1>b, <1>c DEF TurnUnsent, Wakes, KeepsRecord
<1>9. ASSUME NEW m \in Msgs, SteerAccepted(m, w) PROVE KeepsRecord
  <2>1. Waking(m)
    BY <1>9 DEF SteerAccepted, Waking
  <2> QED  BY <1>9, <1>f, <1>q, <2>1 DEF SteerAccepted, KeepsRecord
<1>10. ASSUME NEW m \in Msgs, SteerFallsThrough(m, w) PROVE KeepsRecord
  BY <1>10, <1>a, <1>b, <1>c, <1>q DEF SteerFallsThrough, RunTurn, Wakes, KeepsRecord
<1>11. ASSUME NEW m \in Msgs, WakeReturns(m, w) PROVE KeepsRecord
  <2>1. Waking(m)
    BY <1>11 DEF WakeReturns, Waking
  <2> QED  BY <1>11, <1>f, <2>1 DEF WakeReturns, KeepsRecord
<1>12. CASE ThreadFails(w)
  BY <1>12, <1>a, <1>b, <1>c, <1>q DEF ThreadFails, KeepsRecord
<1>13. ASSUME NEW p \in Procs, TurnRefused(p, w) PROVE KeepsRecord
  BY <1>13, <1>a, <1>b, <1>c DEF TurnRefused, AwaitIdle, Wakes, KeepsRecord
<1>14. ASSUME NEW p \in Procs, RecoveryTurn(p, w) PROVE KeepsRecord
  BY <1>14, <1>a, <1>c, <1>e DEF RecoveryTurn, RunTurn, Wakes, KeepsRecord
<1>15. ASSUME NEW p \in Procs, ProtocolError(p, w) PROVE KeepsRecord
  BY <1>15, <1>a, <1>b, <1>c DEF ProtocolError, Wakes, KeepsRecord
<1>16. CASE Detach(w)
  BY <1>16, <1>a, <1>b, <1>d DEF Detach, KeepsRecord
<1>17. CASE Close(w)
  BY <1>17, <1>a, <1>b, <1>d DEF Close, KeepsRecord
<1> QED
  BY <1>1, <1>2, <1>3, <1>4, <1>5, <1>6, <1>7, <1>8, <1>9, <1>10, <1>11, <1>12, <1>13, <1>14,
     <1>15, <1>16, <1>17 DEF Progress, Mishap

LEMMA WriteRecordedInv == TypeInv /\ RecordedInv /\ Write => RecordedInv'
<1> SUFFICES ASSUME TypeInv, RecordedInv, Write PROVE RecordedInv'
  OBVIOUS
<1> DEFINE e == Head(appendQ)
<1>0. appendQ # <<>> /\ TypeOK /\ at \in [Procs -> Places]
  BY DEF Write, WriteQueued, WriteRuntimeChanged, WriteReceipt, Head1, TypeInv, TypeOK
<1>1. /\ e.by \in Procs /\ e.kind \in Receipts \cup {"queued", "runtime_changed"}
      /\ e.kind = "queued" => e.msg \in Msgs /\ e.by = Queue(e.msg)
      /\ e.kind = "runtime_changed" => e.by[1] = "attach"
      /\ 1 \in DOMAIN appendQ /\ e = appendQ[1]
  BY <1>0, FirstEntry
<1>q. /\ \A m \in Msgs : Queue(m) \in Procs /\ Queue(m)[1] = "queue"
      /\ \A m, n \in Msgs : Queue(m) = Queue(n) => m = n
      /\ \A p \in Loops : p[1] # "queue"
  BY DEF Queue, Procs, Loops, Settle
\* A loop goes on with messages on record, for itself or for queue() of one of them.
<1>2. ASSUME NEW todo \in SUBSET Msgs, NEW p \in Procs, NEW P \in SUBSET Places,
             P \subseteq {"done", "receipt", "steer", "turnStart"},
             todo \subseteq Recorded', Recorded \subseteq Recorded',
             \/ \E m \in todo : p = Queue(m)
             \/ p[1] # "queue"
             \/ P \cap Wakes = {},
             AddsReceipts(1, todo), Moves(p, P), UNCHANGED handed,
             \A q \in Loops : rest'[q] \subseteq rest[q] \cup todo,
             \A R : Holdings(R) /\ todo \subseteq R => Holdings(R)'
      PROVE  RecordedInv'
  <2>1. Holdings(Recorded)'
    <3>1. PICK R : R = Recorded'
      OBVIOUS
    <3>2. Holdings(R) /\ todo \subseteq R
      BY <1>2, <3>1 DEF RecordedInv, Holdings
    <3>3. Holdings(R)'
      BY <1>2, <3>2
    <3> QED  BY <3>1, <3>3 DEF Holdings
  <2>2. \A i \in DOMAIN appendQ' : appendQ'[i].kind \in Receipts => appendQ'[i].msg \in Recorded'
    BY <1>2 DEF AddsReceipts, RecordedInv
  <2>3. \A m \in Msgs : Waking(m)' => m \in Recorded'
    <3> SUFFICES ASSUME NEW m \in Msgs, Waking(m)' PROVE m \in Recorded'
      OBVIOUS
    <3>1. PICK x \in P : at' = [at EXCEPT ![p] = x]
      BY <1>2 DEF Moves
    <3>2. CASE p = Queue(m)
      <4>1. at'[p] = x /\ x \in Wakes
        BY <1>0, <1>2, <3>1, <3>2 DEF Waking, Wakes
      <4> QED  BY <1>2, <1>q, <3>2, <4>1
    <3>3. CASE p # Queue(m)
      BY <1>0, <1>2, <1>q, <3>1, <3>3 DEF Waking, RecordedInv
    <3> QED  BY <3>2, <3>3
  <2>4. \A q \in Loops : rest'[q] \subseteq Recorded'
    BY <1>2 DEF RecordedInv
  <2>5. handed' \subseteq Recorded'
    BY <1>2 DEF RecordedInv
  <2> QED  BY <2>1, <2>2, <2>3, <2>4, <2>5 DEF RecordedInv
<1> DEFINE D == {"done", "receipt", "steer", "turnStart"}
<1>d. D \in SUBSET Places /\ D \subseteq {"done", "receipt", "steer", "turnStart"}
  BY DEF Places
<1>3. CASE WriteQueued
  <2>1. PICK d : Deliver(e.by, e.msg, d)
    BY <1>3 DEF WriteQueued
  <2>2. /\ e.msg \in Msgs /\ e.by = Queue(e.msg)
        /\ journal' = [journal EXCEPT ![e.msg] = "queued"]
        /\ UNCHANGED <<rest, handed>>
    BY <1>1, <1>3 DEF WriteQueued, Head1
  <2> HIDE DEF e
  <2>3. /\ AddsReceipts(1, {e.msg}) /\ Moves(e.by, D)
        /\ \A R : Holdings(R) /\ e.msg \in R => Holdings(R)'
    BY <1>0, <1>1, <2>1, <2>2, DeliverStep
  <2>4. {e.msg} \subseteq Recorded' /\ Recorded \subseteq Recorded' /\ {e.msg} \in SUBSET Msgs
    BY <1>0, <2>2 DEF Recorded, TypeOK
  <2>5. \A R : Holdings(R) /\ {e.msg} \subseteq R => Holdings(R)'
    BY <2>3
  <2>6. \A q \in Loops : rest'[q] \subseteq rest[q] \cup {e.msg}
    BY <2>2
  <2> HIDE DEF D
  <2> QED  BY <1>1, <1>2, <1>d, <2>2, <2>3, <2>4, <2>5, <2>6
<1>4. CASE WriteRuntimeChanged
  <2>1. PICK todo : /\ todo \in SUBSET Msgs /\ todo \subseteq Recorded /\ AttachStep(e.by, todo)
    BY <1>4 DEF WriteRuntimeChanged, Pending, Recorded
  <2>2. UNCHANGED <<journal, handed>> /\ e.by[1] = "attach"
    BY <1>1, <1>4 DEF WriteRuntimeChanged, logVars, Head1
  <2> HIDE DEF e
  <2>3. /\ AddsReceipts(1, todo) /\ Moves(e.by, D)
        /\ \A q \in Loops : rest'[q] \subseteq rest[q] \cup todo
        /\ \A R : Holdings(R) /\ todo \subseteq R => Holdings(R)'
    BY <1>0, <1>1, <2>1, AttachLoop
  <2>4. todo \subseteq Recorded' /\ Recorded \subseteq Recorded' /\ e.by[1] # "queue"
    BY <2>1, <2>2 DEF Recorded
  <2> HIDE DEF D
  <2> QED  BY <1>1, <1>2, <1>d, <2>1, <2>2, <2>3, <2>4

<1>5. CASE WriteReceipt
  <2>1. /\ Continues(e.by)
        /\ e.kind \in Receipts
        /\ journal' = [journal EXCEPT ![e.msg] = e.kind]
        /\ UNCHANGED handed
    <3>1. Continues(e.by)
      BY <1>5, Zenon DEF WriteReceipt, Continues
    <3> QED  BY <1>5, <3>1, Zenon DEF WriteReceipt, Head1
  <2>2. Recorded \subseteq Recorded'
    BY <1>0, <2>1 DEF Recorded, Receipts, TypeOK
  <2> HIDE DEF e
  <2>3. PICK todo \in SUBSET Msgs :
            /\ (todo = {} /\ Moves(e.by, {"done"})) \/ (e.by \in Loops /\ todo = rest[e.by])
            /\ AddsReceipts(1, todo) /\ Moves(e.by, D)
            /\ \A q \in Loops : rest'[q] \subseteq rest[q] \cup todo
            /\ \A R : Holdings(R) /\ todo \subseteq R => Holdings(R)'
    BY <1>0, <1>1, <2>1, LoopGoesOn
  <2> HIDE DEF D
  <2>4. CASE todo = {} /\ Moves(e.by, {"done"})
    <3>1. /\ {"done"} \in SUBSET Places
          /\ {"done"} \subseteq {"done", "receipt", "steer", "turnStart"}
          /\ {"done"} \cap Wakes = {}
      BY DEF Places, Wakes
    <3>2. todo \subseteq Recorded'
      BY <2>4
    <3> QED  BY <1>1, <1>2, <2>1, <2>2, <2>3, <2>4, <3>1, <3>2
  <2>5. CASE e.by \in Loops /\ todo = rest[e.by]
    <3>1. todo \subseteq Recorded' /\ e.by[1] # "queue"
      BY <1>q, <2>2, <2>5 DEF RecordedInv
    <3> QED  BY <1>1, <1>2, <1>d, <2>1, <2>2, <2>3, <3>1
  <2> QED  BY <2>3, <2>4, <2>5
<1> QED BY <1>3, <1>4, <1>5 DEF Write

LEMMA QueueStepRecordedInv ==
    ASSUME TypeInv, RecordedInv
    PROVE  /\ \A t \in Traffic : Submit(t) => RecordedInv'
           /\ \A w \in Workers : AttachWorker(w) => RecordedInv'
           /\ AppendFails => RecordedInv'
           /\ SettleQuiet => RecordedInv'
<1>0. TypeOK /\ at \in [Procs -> Places] /\ appendQ \in Seq(EntryType)
  BY DEF TypeInv, TypeOK
\* A process that is not handed anything leaves the record as it is.
<1>1. ASSUME NEW p \in Procs, NEW x \in {"append", "failed"}, at' = [at EXCEPT ![p] = x],
             UNCHANGED <<journal, rest, input, quiet, seen, handed>>,
             \A i \in DOMAIN appendQ' :
                 \/ \E j \in DOMAIN appendQ : appendQ'[i] = appendQ[j]
                 \/ appendQ'[i].kind \in {"queued", "runtime_changed"}
      PROVE  RecordedInv'
  <2>1. Recorded' = Recorded
    BY <1>1 DEF Recorded
  <2>2. \A m \in Msgs : Waking(m)' => Waking(m)
    BY <1>0, <1>1 DEF Waking, Queue, Procs
  <2>3. Holdings(Recorded)'
    BY <1>1, <2>1 DEF RecordedInv, Holdings
  <2>4. \A i \in DOMAIN appendQ' : appendQ'[i].kind \in Receipts => appendQ'[i].msg \in Recorded
    BY <1>1 DEF RecordedInv, Receipts
  <2> QED  BY <1>1, <2>1, <2>2, <2>3, <2>4 DEF RecordedInv
<1>2. ASSUME NEW p \in Procs, NEW e \in EntryType, e.kind \in {"queued", "runtime_changed"},
             appendQ' = Append(appendQ, e)
      PROVE  \A i \in DOMAIN appendQ' :
                 \/ \E j \in DOMAIN appendQ : appendQ'[i] = appendQ[j]
                 \/ appendQ'[i].kind \in {"queued", "runtime_changed"}
  BY <1>0, <1>2, AppendAddsOne
<1>3. ASSUME NEW t \in Traffic, Submit(t) PROVE RecordedInv'
  <2> DEFINE m == Len(sent) + 1
             e == Entry(Queue(m), "queued", m, "none")
  <2>1. /\ m \in Msgs /\ appendQ' = Append(appendQ, e) /\ at' = [at EXCEPT ![Queue(m)] = "append"]
        /\ UNCHANGED <<journal, rest, input, quiet, seen, handed>>
    BY <1>3 DEF Submit, logVars, runtimeVars
  <2>2. Queue(m) \in Procs
    BY <2>1 DEF Queue, Procs
  <2>3. e \in EntryType /\ e.kind = "queued"
    <3> m \in Msgs \cup {0} /\ "none" \in Reasons
      BY <2>1 DEF Reasons
    <3> HIDE DEF m
    <3> QED  BY <2>2, EntryIsTyped
  <2> HIDE DEF e, m
  <2> QED  BY <1>1, <1>2, <2>1, <2>2, <2>3
<1>4. ASSUME NEW w \in Workers, AttachWorker(w) PROVE RecordedInv'
  <2> DEFINE e == Entry(Attach(w), "runtime_changed", 0, "none")
  <2>1. /\ appendQ' = Append(appendQ, e) /\ at' = [at EXCEPT ![Attach(w)] = "append"]
        /\ UNCHANGED <<journal, rest, input, quiet, seen, handed>>
    BY <1>4 DEF AttachWorker, logVars, runtimeVars
  <2>2. Attach(w) \in Procs
    BY DEF Attach, Procs, Loops
  <2>3. e \in EntryType /\ e.kind = "runtime_changed"
    BY <2>2, EntryIsTyped DEF Reasons
  <2> HIDE DEF e
  <2> QED  BY <1>1, <1>2, <2>1, <2>2, <2>3
<1>5. ASSUME AppendFails PROVE RecordedInv'
  <2>1. /\ appendQ # <<>> /\ appendQ' = Backlog
        /\ at' = [at EXCEPT ![Head(appendQ).by] = "failed"]
        /\ UNCHANGED <<journal, rest, input, quiet, seen, handed>>
    BY <1>5 DEF AppendFails, logVars, runtimeVars
  <2>2. Head(appendQ).by \in Procs
    BY <2>1, FirstEntry
  <2>3. \A i \in DOMAIN appendQ' : \E j \in DOMAIN appendQ : appendQ'[i] = appendQ[j]
    BY <1>0, <2>1, BacklogIsTail DEF Backlog
  <2> QED  BY <1>1, <2>1, <2>2, <2>3
<1>6. ASSUME SettleQuiet PROVE RecordedInv'
  <2>1. PICK todo : /\ todo \in SUBSET Msgs /\ todo \subseteq Recorded
                    /\ SettleStep(appendQ, todo)
                    /\ UNCHANGED <<journal, handed>>
    <3>1. Stranded \in SUBSET Msgs /\ Stranded \subseteq Recorded
      <4>1. \A w \in Workers : Noted(quiet[w]) \subseteq Msgs \cap Recorded
        BY <1>0 DEF Noted, RecordedInv, Holdings
      <4> QED  BY <1>0, <4>1 DEF Stranded, TypeOK
    <3> QED  BY <1>6, <3>1 DEF SettleQuiet, logVars
  <2>2. /\ \A q \in Loops : rest'[q] \subseteq rest[q] \cup todo
        /\ Moves(Settle, {"done", "receipt", "steer", "turnStart"})
        /\ AddsReceipts(0, todo)
        /\ \A R : Holdings(R) => Holdings(R)'
    <3>1. 0 \in {0, 1} /\ (0 = 0 => appendQ = appendQ) /\ (0 = 1 => appendQ # <<>>)
      OBVIOUS
    <3> QED  BY <1>0, <2>1, <3>1, SettleLoop
  <2>3. Recorded' = Recorded
    BY <2>1 DEF Recorded
  <2>4. Holdings(Recorded)'
    <3>1. PICK R : R = Recorded
      OBVIOUS
    <3>2. Holdings(R)'
      BY <2>2, <3>1 DEF RecordedInv, Holdings
    <3> QED  BY <2>3, <3>1, <3>2 DEF Holdings
  <2>5. \A m \in Msgs : Waking(m)' => Waking(m)
    <3>1. \A m \in Msgs : Queue(m) # Settle /\ Queue(m) \in Procs
      BY DEF Queue, Settle, Procs
    <3> QED  BY <1>0, <2>2, <3>1 DEF Moves, Waking
  <2>6. \A i \in DOMAIN appendQ' : appendQ'[i].kind \in Receipts => appendQ'[i].msg \in Recorded
    BY <2>1, <2>2 DEF AddsReceipts, RecordedInv
  <2>7. \A q \in Loops : rest'[q] \subseteq Recorded
    BY <2>1, <2>2 DEF RecordedInv
  <2> QED  BY <2>1, <2>3, <2>4, <2>5, <2>6, <2>7 DEF RecordedInv
<1> QED BY <1>3, <1>4, <1>5, <1>6

LEMMA NextRecordedInv == TypeInv /\ RecordedInv /\ [Next]_vars => RecordedInv'
<1>1. RecordedInv /\ UNCHANGED vars => RecordedInv'
  BY DEF RecordedInv, Recorded, Holdings, Waking, vars, logVars, procVars, runtimeVars
<1>2. ASSUME TypeInv, RecordedInv, NEW w \in Workers,
             Progress(w) \/ Mishap(w) \/ Detach(w) \/ Close(w)
      PROVE  RecordedInv'
  BY <1>2, SessionKeepsRecord, KeepsRecordedInv
<1> QED
  BY <1>1, <1>2, WriteRecordedInv, QueueStepRecordedInv DEF Next

LEMMA RecordedInvAlways == Spec => []RecordedInv
  BY InitRecordedInv, NextRecordedInv, TypeInvAlways, PTL DEF Spec

(* Nothing reaches a worker, and no receipt is written, before the message is
   in the journal: whatever queues, turns and faults interleave. *)
THEOREM PersistFirst == Spec => []DurableBeforeDelivered
  BY RecordedInvAlways, RecordedInvImplies, PTL

-----------------------------------------------------------------------------
(* TeamCoordination implements TeamMessaging.                              *)

(* A message is recorded once: its one queued entry is the only way to the
   journal, and only messages that were sent are on record. *)
OnceInv ==
    /\ \A i \in DOMAIN appendQ :
          appendQ[i].kind = "queued" => journal[appendQ[i].msg] = "none"
    /\ \A i, j \in DOMAIN appendQ :
          appendQ[i].kind = "queued" /\ appendQ[j].kind = "queued"
              /\ appendQ[i].msg = appendQ[j].msg => i = j
    /\ \A m \in Msgs : journal[m] # "none" => m \in DOMAIN sent

LEMMA InitOnceInv == Init => OnceInv
<1>1. Init => DOMAIN appendQ = {}
  BY EmptySeq DEF Init
<1> QED  BY <1>1 DEF Init, OnceInv

(* Entries that leave the queue, and receipts that join it, do no harm. *)
LEMMA OnceStays ==
    ASSUME TypeInv', OnceInv, NEW k \in {0, 1}, NEW S, AddsReceipts(k, S),
           UNCHANGED <<journal, sent>>
    PROVE  OnceInv'
<1>1. \A i \in DOMAIN appendQ' : i \in Int
  <2>1. appendQ' \in Seq(EntryType)
    BY DEF TypeInv, TypeOK
  <2> QED  BY <2>1, LenProperties
<1>2. ASSUME NEW i \in DOMAIN appendQ', appendQ'[i].kind = "queued"
      PROVE  i + k \in DOMAIN appendQ /\ appendQ'[i] = appendQ[i + k]
  BY <1>2 DEF AddsReceipts, Receipts
<1>3. \A i \in DOMAIN appendQ' :
          appendQ'[i].kind = "queued" => journal'[appendQ'[i].msg] = "none"
  BY <1>2 DEF OnceInv
<1>4. \A i, j \in DOMAIN appendQ' :
          appendQ'[i].kind = "queued" /\ appendQ'[j].kind = "queued"
              /\ appendQ'[i].msg = appendQ'[j].msg => i = j
  <2> SUFFICES ASSUME NEW i \in DOMAIN appendQ', NEW j \in DOMAIN appendQ',
                      appendQ'[i].kind = "queued", appendQ'[j].kind = "queued",
                      appendQ'[i].msg = appendQ'[j].msg
               PROVE  i = j
    OBVIOUS
  <2>1. i + k = j + k
    BY <1>2 DEF OnceInv
  <2>2. \A x, y, n \in Int : x + n = y + n => x = y
    OBVIOUS
  <2>3. i \in Int /\ j \in Int /\ k \in Int
    BY <1>1
  <2> QED  BY <2>1, <2>2, <2>3, Zenon
<1>5. \A m \in Msgs : journal'[m] # "none" => m \in DOMAIN sent'
  BY DEF OnceInv
<1> QED  BY <1>3, <1>4, <1>5 DEF OnceInv

LEMMA WriteIsAbstract ==
    ASSUME TypeInv, TypeInv', RecordedInv, OnceInv, Write
    PROVE  OnceInv' /\ [Abstract!AbsNext]_<<journal, handed>>
<1> DEFINE e == Head(appendQ)
<1>0. /\ appendQ # <<>> /\ TypeOK /\ journal \in [Msgs -> {"none", "queued"} \cup Receipts]
      /\ Abstract!Msgs = Msgs
  BY DEF Write, WriteQueued, WriteRuntimeChanged, WriteReceipt, Head1, TypeInv, TypeOK,
         Abstract!Msgs, Msgs
<1>1. /\ e.by \in Procs /\ 1 \in DOMAIN appendQ /\ e = appendQ[1]
      /\ e.kind = "queued" => e.msg \in Msgs /\ e.msg \in DOMAIN sent
  BY <1>0, FirstEntry
<1>i. \A i \in DOMAIN appendQ' : i \in Int /\ i >= 1
  <2>1. appendQ' \in Seq(EntryType)
    BY DEF TypeInv, TypeOK
  <2> QED  BY <2>1, LenProperties
\* The head's own message changes its record; no other queued entry has it.
<1>2. ASSUME NEW x, NEW S, AddsReceipts(1, S), x # "none",
             sent' = sent, e.msg \in DOMAIN sent,
             journal' = [journal EXCEPT ![e.msg] = x],
             \A i \in DOMAIN appendQ :
                 i # 1 /\ appendQ[i].kind = "queued" => appendQ[i].msg # e.msg
      PROVE  OnceInv'
  <2> HIDE DEF e
  <2>1. ASSUME NEW i \in DOMAIN appendQ', appendQ'[i].kind = "queued"
        PROVE  i + 1 \in DOMAIN appendQ /\ appendQ'[i] = appendQ[i + 1] /\ i + 1 # 1
    BY <1>2, <1>i, <2>1 DEF AddsReceipts, Receipts
  <2>2. \A i \in DOMAIN appendQ' :
            appendQ'[i].kind = "queued" => journal'[appendQ'[i].msg] = "none"
    BY <1>0, <1>2, <2>1 DEF OnceInv
  <2>3. \A i, j \in DOMAIN appendQ' :
            appendQ'[i].kind = "queued" /\ appendQ'[j].kind = "queued"
                /\ appendQ'[i].msg = appendQ'[j].msg => i = j
    <3> SUFFICES ASSUME NEW i \in DOMAIN appendQ', NEW j \in DOMAIN appendQ',
                        appendQ'[i].kind = "queued", appendQ'[j].kind = "queued",
                        appendQ'[i].msg = appendQ'[j].msg
                 PROVE  i = j
      OBVIOUS
    <3>1. i + 1 = j + 1
      BY <2>1 DEF OnceInv
    <3> QED  BY <1>i, <3>1
  <2>4. \A m \in Msgs : journal'[m] # "none" => m \in DOMAIN sent'
    BY <1>0, <1>2 DEF OnceInv
  <2> QED  BY <2>2, <2>3, <2>4 DEF OnceInv
<1>3. CASE WriteQueued
  <2>1. PICK d : Deliver(e.by, e.msg, d)
    BY <1>3 DEF WriteQueued
  <2>2. /\ e.kind = "queued" /\ journal' = [journal EXCEPT ![e.msg] = "queued"]
        /\ UNCHANGED <<sent, handed>>
    BY <1>3 DEF WriteQueued, Head1
  <2> HIDE DEF e
  <2>3. AddsReceipts(1, {e.msg})
    BY <1>0, <1>1, <2>1, <2>2, DeliverStep
  <2>4. /\ \A i \in DOMAIN appendQ :
              i # 1 /\ appendQ[i].kind = "queued" => appendQ[i].msg # e.msg
        /\ journal[e.msg] = "none"
    BY <1>1, <2>2 DEF OnceInv
  <2>5. OnceInv'
    BY <1>1, <1>2, <2>2, <2>3, <2>4
  <2>6. Abstract!Accept(e.msg)
    BY <2>2, <2>4 DEF Abstract!Accept
  <2> QED  BY <1>0, <1>1, <2>2, <2>5, <2>6 DEF Abstract!AbsNext
<1>4. CASE WriteRuntimeChanged
  <2>1. PICK todo \in SUBSET Msgs : AttachStep(e.by, todo)
    BY <1>4 DEF WriteRuntimeChanged, Pending
  <2>2. UNCHANGED <<sent, journal, handed>>
    BY <1>4 DEF WriteRuntimeChanged, logVars
  <2> HIDE DEF e
  <2>3. AddsReceipts(1, todo)
    BY <1>0, <1>1, <2>1, AttachLoop
  <2>4. 1 \in {0, 1}
    OBVIOUS
  <2> QED  BY <2>2, <2>3, <2>4, OnceStays
<1>5. CASE WriteReceipt
  <2>1. /\ Continues(e.by) /\ e.kind \in Receipts
        /\ journal' = [journal EXCEPT ![e.msg] = e.kind]
        /\ UNCHANGED <<sent, handed>>
    <3>1. Continues(e.by)
      BY <1>5, Zenon DEF WriteReceipt, Continues
    <3> QED  BY <1>5, <3>1, Zenon DEF WriteReceipt, Head1
  <2> HIDE DEF e
  <2>2. PICK todo \in SUBSET Msgs : AddsReceipts(1, todo)
    BY <1>0, <1>1, <2>1, LoopGoesOn
  <2>3. e.msg \in Msgs /\ journal[e.msg] # "none"
    BY <1>1, <2>1 DEF RecordedInv, Recorded
  <2>4. /\ \A i \in DOMAIN appendQ : appendQ[i].kind = "queued" => appendQ[i].msg # e.msg
        /\ e.msg \in DOMAIN sent /\ e.kind # "none"
    BY <2>1, <2>3 DEF OnceInv, Receipts
  <2>5. OnceInv'
    BY <1>2, <2>1, <2>2, <2>4
  <2>6. Abstract!Record(e.msg)
    BY <2>1, <2>3 DEF Abstract!Record, Receipts
  <2> QED  BY <1>0, <2>3, <2>5, <2>6 DEF Abstract!AbsNext
<1> QED BY <1>3, <1>4, <1>5 DEF Write

LEMMA QueueStepIsAbstract ==
    ASSUME TypeInv, TypeInv', OnceInv
    PROVE  /\ \A t \in Traffic : Submit(t) => OnceInv' /\ UNCHANGED <<journal, handed>>
           /\ \A w \in Workers : AttachWorker(w) => OnceInv' /\ UNCHANGED <<journal, handed>>
           /\ AppendFails => OnceInv' /\ UNCHANGED <<journal, handed>>
           /\ SettleQuiet => OnceInv' /\ UNCHANGED <<journal, handed>>
<1>0. TypeOK /\ EntriesInv /\ appendQ \in Seq(EntryType) /\ sent \in Seq(Traffic)
  BY DEF TypeInv, TypeOK
<1>1. ASSUME NEW t \in Traffic, Submit(t)
      PROVE  OnceInv' /\ UNCHANGED <<journal, handed>>
  <2> DEFINE m == Len(sent) + 1
             e == Entry(Queue(m), "queued", m, "none")
  <2>1. /\ m \in Msgs /\ sent' = Append(sent, t) /\ appendQ' = Append(appendQ, e)
        /\ UNCHANGED <<journal, handed>>
    BY <1>1 DEF Submit, logVars
  <2>2. /\ Len(sent) \in Nat /\ DOMAIN sent = 1 .. Len(sent)
        /\ DOMAIN Append(sent, t) = 1 .. Len(sent) + 1
    <3>1. Append(sent, t) \in Seq(Traffic) /\ Len(Append(sent, t)) = Len(sent) + 1
      BY <1>0, AppendProperties
    <3> QED  BY <1>0, <3>1, LenProperties
  <2>3. m \notin DOMAIN sent /\ DOMAIN sent \subseteq DOMAIN sent'
    BY <2>1, <2>2
  <2>4. e \in EntryType /\ e.kind = "queued" /\ e.msg = m
    <3>1. Queue(m) \in Procs
      BY <2>1 DEF Queue, Procs
    <3>2. m \in Msgs \cup {0} /\ "none" \in Reasons
      BY <2>1 DEF Reasons
    <3> HIDE DEF m
    <3> QED  BY <3>1, <3>2, EntryIsTyped
  <2> HIDE DEF m, e
  <2>5. \A i \in DOMAIN Append(appendQ, e) :
            \/ i \in DOMAIN appendQ /\ Append(appendQ, e)[i] = appendQ[i]
            \/ i = Len(appendQ) + 1 /\ Append(appendQ, e)[i] = e
    BY <1>0, <2>4, AppendAddsOne
  <2>6. journal[m] = "none" /\
        \A i \in DOMAIN appendQ : appendQ[i].kind = "queued" => appendQ[i].msg # m
    BY <1>0, <2>1, <2>3 DEF OnceInv, EntriesInv
  <2>7. \A i \in DOMAIN appendQ' :
            appendQ'[i].kind = "queued" => journal'[appendQ'[i].msg] = "none"
    BY <2>1, <2>4, <2>5, <2>6 DEF OnceInv
  <2>8. \A i, j \in DOMAIN appendQ' :
            appendQ'[i].kind = "queued" /\ appendQ'[j].kind = "queued"
                /\ appendQ'[i].msg = appendQ'[j].msg => i = j
    BY <2>1, <2>4, <2>5, <2>6 DEF OnceInv
  <2>9. \A n \in Msgs : journal'[n] # "none" => n \in DOMAIN sent'
    BY <2>1, <2>3 DEF OnceInv
  <2> QED  BY <2>1, <2>7, <2>8, <2>9 DEF OnceInv
<1>2. ASSUME NEW w \in Workers, AttachWorker(w)
      PROVE  OnceInv' /\ UNCHANGED <<journal, handed>>
  <2> DEFINE e == Entry(Attach(w), "runtime_changed", 0, "none")
  <2>1. appendQ' = Append(appendQ, e) /\ UNCHANGED <<sent, journal, handed>>
    BY <1>2 DEF AttachWorker, logVars
  <2>2. e \in EntryType /\ e.kind = "runtime_changed"
    <3>1. Attach(w) \in Procs
      BY DEF Attach, Procs, Loops
    <3> QED  BY <3>1, EntryIsTyped DEF Reasons
  <2> HIDE DEF e
  <2>3. \A i \in DOMAIN Append(appendQ, e) :
            \/ i \in DOMAIN appendQ /\ Append(appendQ, e)[i] = appendQ[i]
            \/ Append(appendQ, e)[i] = e
    BY <1>0, <2>2, AppendAddsOne
  <2> QED  BY <2>1, <2>2, <2>3 DEF OnceInv
<1>3. ASSUME AppendFails PROVE OnceInv' /\ UNCHANGED <<journal, handed>>
  <2>1. appendQ # <<>> /\ appendQ' = Backlog /\ UNCHANGED <<sent, journal, handed>>
    BY <1>3 DEF AppendFails, logVars
  <2>2. AddsReceipts(1, {}) /\ 1 \in {0, 1}
    BY <1>0, <2>1, BacklogAddsNothing
  <2> QED  BY <2>1, <2>2, OnceStays
<1>4. ASSUME SettleQuiet PROVE OnceInv' /\ UNCHANGED <<journal, handed>>
  <2>1. PICK todo : /\ todo \in SUBSET Msgs /\ SettleStep(appendQ, todo)
                    /\ UNCHANGED <<sent, journal, handed>>
    <3>1. Stranded \in SUBSET Msgs
      BY <1>0 DEF Stranded, Noted, TypeOK
    <3> QED  BY <1>4, <3>1 DEF SettleQuiet, logVars
  <2>2. 0 \in {0, 1} /\ (0 = 0 => appendQ = appendQ) /\ (0 = 1 => appendQ # <<>>)
    OBVIOUS
  <2>3. AddsReceipts(0, todo)
    BY <1>0, <2>1, <2>2, SettleLoop
  <2> QED  BY <2>1, <2>2, <2>3, OnceStays
<1> QED BY <1>1, <1>2, <1>3, <1>4

(* A step that records nothing new hands over, at most, an input on record. *)
LEMMA SessionIsAbstract ==
    ASSUME TypeInv, TypeInv', RecordedInv, OnceInv, KeepsRecord
    PROVE  OnceInv' /\ [Abstract!AbsNext]_<<journal, handed>>
<1>1. OnceInv'
  <2>1. (\E S : AddsReceipts(0, S)) /\ UNCHANGED <<journal, sent>> /\ 0 \in {0, 1}
    BY DEF KeepsRecord
  <2> QED  BY <2>1, OnceStays
<1>2. CASE handed' = handed
  BY <1>1, <1>2 DEF KeepsRecord
<1>3. ASSUME NEW p \in Procs, handed' = handed \cup Noted(input[p])
      PROVE  Abstract!AbsNext
  <2>1. Noted(input[p]) \in SUBSET {m \in Msgs : journal[m] # "none"}
    BY DEF RecordedInv, Holdings, Recorded
  <2>2. Abstract!Msgs = Msgs
    BY DEF Abstract!Msgs, Msgs
  <2>3. Abstract!Hand
    BY <1>3, <2>1, <2>2 DEF Abstract!Hand, KeepsRecord
  <2> QED  BY <2>3 DEF Abstract!AbsNext
<1> QED BY <1>1, <1>2, <1>3 DEF KeepsRecord

LEMMA NextIsAbstract ==
    TypeInv /\ TypeInv' /\ RecordedInv /\ OnceInv /\ [Next]_vars
        => OnceInv' /\ [Abstract!AbsNext]_<<journal, handed>>
<1> SUFFICES ASSUME TypeInv, TypeInv', RecordedInv, OnceInv, [Next]_vars
             PROVE  OnceInv' /\ [Abstract!AbsNext]_<<journal, handed>>
  OBVIOUS
<1>1. CASE Write
  BY <1>1, WriteIsAbstract
<1>2. ASSUME NEW w \in Workers, Progress(w) \/ Mishap(w) \/ Detach(w) \/ Close(w)
      PROVE  OnceInv' /\ [Abstract!AbsNext]_<<journal, handed>>
  BY <1>2, SessionKeepsRecord, SessionIsAbstract
<1>3. CASE UNCHANGED vars
  BY <1>3 DEF vars, logVars, OnceInv
<1> QED
  BY <1>1, <1>2, <1>3, QueueStepIsAbstract DEF Next

LEMMA OnceInvAlways == Spec => []OnceInv
<1>1. TypeInv /\ TypeInv' /\ RecordedInv /\ OnceInv /\ [Next]_vars => OnceInv'
  BY NextIsAbstract
<1> QED
  BY <1>1, InitOnceInv, TypeInvAlways, RecordedInvAlways, PTL DEF Spec

(* The team keeps what TeamMessaging promises: a message is recorded once,
   handed over only after that, and its receipts follow. *)
THEOREM TeamKeepsPromise == Spec => Implements
<1>1. Init => Abstract!AbsInit
  BY DEF Init, Abstract!AbsInit, Abstract!Msgs, Msgs
<1>2. TypeInv /\ TypeInv' /\ RecordedInv /\ OnceInv /\ [Next]_vars
          => [Abstract!AbsNext]_<<journal, handed>>
  BY NextIsAbstract
<1> QED
  BY <1>1, <1>2, TypeInvAlways, RecordedInvAlways, OnceInvAlways, PTL
     DEF Spec, Implements, Abstract!AbsSpec

-----------------------------------------------------------------------------
(* Receipts are final.                                                     *)

(* What was said of a message, in the journal or on the way to it. *)
Entered(m, k) == \E i \in DOMAIN appendQ : appendQ[i].kind = k /\ appendQ[i].msg = m
Said(m, k)    == journal[m] = k \/ Entered(m, k)
Untold(m)     == \A k \in Receipts : ~ Said(m, k)

Unstarted(w) == state[w] = "not_started"

(* What any delivery to a session that has not started says. *)
First(m) == IF IsWakeup(m) /\ MaxFollowUps = 0 THEN "undeliverable" ELSE "delivered"

(* Only queue() and attach() have entries waiting, attach() one at a time. *)
Waits(e, places) ==
    /\ e.by[1] \in {"attach", "queue"}
    /\ e.by[1] = "attach" => places[e.by] \in {"append", "receipt"}
    /\ e.by[1] = "queue" => e.by = Queue(e.msg)

Callers ==
    /\ \A i \in DOMAIN appendQ : Waits(appendQ[i], at)
    /\ \A i, j \in DOMAIN appendQ :
          appendQ[i].by = appendQ[j].by /\ appendQ[i].by[1] = "attach" => i = j

(* attach() replays what was sent to its worker; settling finds nothing. *)
Rests ==
    /\ \A w \in Workers : \A m \in rest[Attach(w)] : m \in DOMAIN sent /\ sent[m].to = w
    /\ rest[Settle] = {}

(* A session starts when its attach() has returned. *)
Sessions ==
    /\ \A w \in attached : at[Attach(w)] # "new"
    /\ \A w \in Workers :
          /\ at[Attach(w)] # "done" => Unstarted(w)
          /\ Unstarted(w) => /\ followUps[w] = 0 /\ w \notin thread /\ w \notin alive
                             /\ at[Start(w)] = "new"

(* A wake has said nothing yet, whoever speaks before the session starts says
   the same, and nobody contradicts what was said. *)
Agreed ==
    /\ \A m \in DOMAIN sent : Waking(m) => Untold(m) /\ sent[m].to \in thread
    /\ \A m \in DOMAIN sent : Unstarted(sent[m].to) =>
          \A k \in Receipts : Said(m, k) => k = First(m)
    /\ \A m \in Msgs : ~ (Said(m, "delivered") /\ Said(m, "undeliverable"))

FinalInv == Callers /\ Rests /\ Sessions /\ Agreed

(* The k first entries leave the queue, and one of E may join it. *)
AddsEntries(k, E) ==
    \A i \in DOMAIN appendQ' :
        \/ i + k \in DOMAIN appendQ /\ appendQ'[i] = appendQ[i + k]
        \/ i = Len(appendQ') /\ appendQ'[i] \in E

LEMMA BacklogAddsNone ==
    ASSUME appendQ \in Seq(EntryType), appendQ # <<>>, appendQ' = Backlog, NEW E
    PROVE  AddsEntries(1, E)
  BY BacklogIsTail DEF Backlog, AddsEntries

LEMMA AppendAddsEntry ==
    ASSUME appendQ \in Seq(EntryType), NEW e \in EntryType, appendQ' = Append(appendQ, e)
    PROVE  AddsEntries(0, {e})
<1>1. Len(Append(appendQ, e)) = Len(appendQ) + 1
  BY AppendProperties
<1>2. DOMAIN appendQ = 1 .. Len(appendQ) /\ Len(appendQ) \in Nat
  BY LenProperties
<1>3. \A i \in DOMAIN Append(appendQ, e) :
         \/ i \in DOMAIN appendQ /\ Append(appendQ, e)[i] = appendQ[i]
         \/ i = Len(appendQ) + 1 /\ Append(appendQ, e)[i] = e
  BY AppendAddsOne
<1> QED  BY <1>1, <1>2, <1>3 DEF AddsEntries

LEMMA ReportAddsEntry ==
    ASSUME NEW p \in Procs, NEW m \in Msgs, NEW outcome \in Receipts, NEW why \in Reasons,
           appendQ \in Seq(EntryType), appendQ # <<>>,
           Report(p, Backlog, m, outcome, why)
    PROVE  AddsEntries(1, {Entry(p, outcome, m, why)})
<1> DEFINE e == Entry(p, outcome, m, why)
<1>1. e \in EntryType /\ appendQ' = Append(Backlog, e)
  BY EntryIsTyped DEF Report
<1> HIDE DEF e
<1>2. /\ Backlog \in Seq(EntryType)
      /\ \A i \in DOMAIN Backlog : i + 1 \in DOMAIN appendQ /\ Backlog[i] = appendQ[i + 1]
  BY BacklogIsTail DEF Backlog
<1>3. Len(Append(Backlog, e)) = Len(Backlog) + 1
  BY <1>1, <1>2, AppendProperties
<1>4. \A i \in DOMAIN Append(Backlog, e) :
         \/ i \in DOMAIN Backlog /\ Append(Backlog, e)[i] = Backlog[i]
         \/ i = Len(Backlog) + 1 /\ Append(Backlog, e)[i] = e
  BY <1>1, <1>2, AppendAddsOne
<1>5. AddsEntries(1, {e})
  BY <1>1, <1>2, <1>3, <1>4 DEF AddsEntries
<1> QED  BY <1>5 DEF e

(* What a step says that it did not say before is in the entry it adds. *)
LEMMA EntersOnly ==
    ASSUME NEW k, NEW E, AddsEntries(k, E), NEW m, NEW o, Entered(m, o)'
    PROVE  Entered(m, o) \/ \E e \in E : e.kind = o /\ e.msg = m
<1>1. PICK i \in DOMAIN appendQ' : appendQ'[i].kind = o /\ appendQ'[i].msg = m
  BY DEF Entered
<1>2. CASE i + k \in DOMAIN appendQ /\ appendQ'[i] = appendQ[i + k]
  BY <1>1, <1>2 DEF Entered
<1>3. CASE appendQ'[i] \in E
  BY <1>1, <1>3
<1> QED  BY <1>2, <1>3 DEF AddsEntries

LEMMA CallersStay ==
    ASSUME appendQ \in Seq(EntryType), appendQ' \in Seq(EntryType), Callers,
           NEW k \in {0, 1}, NEW E, AddsEntries(k, E),
           \A e \in E : /\ Waits(e, at')
                        /\ e.by[1] = "attach" =>
                              \A i \in DOMAIN appendQ : appendQ[i].by = e.by => i = k,
           \A i \in DOMAIN appendQ :
               i # k /\ appendQ[i].by[1] = "attach" => at'[appendQ[i].by] = at[appendQ[i].by]
    PROVE  Callers'
<1>0. /\ \A i \in DOMAIN appendQ' : i \in Int /\ i >= 1
      /\ \A i \in DOMAIN appendQ : i \in Int /\ i >= 1
      /\ k \in Int
  BY LenProperties
<1>1. ASSUME NEW i \in DOMAIN appendQ', i + k \in DOMAIN appendQ, appendQ'[i] = appendQ[i + k]
      PROVE  Waits(appendQ'[i], at') /\ i + k # k
  <2>1. i + k # k
    BY <1>0
  <2>2. Waits(appendQ[i + k], at)
    BY <1>1 DEF Callers
  <2> QED  BY <1>1, <2>1, <2>2 DEF Waits
<1>2. ASSUME NEW i \in DOMAIN appendQ' PROVE Waits(appendQ'[i], at')
  BY <1>1, <1>2 DEF AddsEntries
<1>3. ASSUME NEW i \in DOMAIN appendQ', NEW j \in DOMAIN appendQ',
             appendQ'[i].by = appendQ'[j].by, appendQ'[i].by[1] = "attach"
      PROVE  i = j
  <2>1. CASE i + k \in DOMAIN appendQ /\ appendQ'[i] = appendQ[i + k]
             /\ j + k \in DOMAIN appendQ /\ appendQ'[j] = appendQ[j + k]
    <3>1. i + k = j + k
      BY <1>3, <2>1 DEF Callers
    <3> QED  BY <1>0, <3>1
  <2>2. CASE i + k \in DOMAIN appendQ /\ appendQ'[i] = appendQ[i + k] /\ appendQ'[j] \in E
    <3>1. i + k = k
      BY <1>3, <2>2
    <3> QED  BY <1>1, <2>2, <3>1
  <2>3. CASE j + k \in DOMAIN appendQ /\ appendQ'[j] = appendQ[j + k] /\ appendQ'[i] \in E
    <3>1. j + k = k
      BY <1>3, <2>3
    <3> QED  BY <1>1, <2>3, <3>1
  <2>4. CASE i = Len(appendQ') /\ j = Len(appendQ')
    BY <2>4
  <2> QED  BY <2>1, <2>2, <2>3, <2>4 DEF AddsEntries
<1> QED  BY <1>2, <1>3 DEF Callers

(* What a delivery by p tells, and where it takes p to. *)
Tells(p, x, E) ==
    \A e \in E : /\ e.by = p /\ x = "receipt" /\ e.kind \in Receipts
                 /\ \A f \in E : f = e

(* Sessions that have not started stay so, and nobody was woken in them. *)
LeavesUnstarted ==
    \A w \in Workers : /\ Unstarted(w)' <=> Unstarted(w)
                       /\ Unstarted(w) /\ followUps[w] = 0 => followUps'[w] = 0

(* A worker's session has the message from now on. *)
KeptFor(m, w) == m \in seen'[w] \/ quiet'[w][m] > 0

(* A delivery of m by p takes p to x, and adds the entries E to the queue. *)
Told(p, m, x, E) ==
    /\ x \in {"done", "receipt", "steer", "turnStart"}
    /\ at' = [at EXCEPT ![p] = x]
    /\ AddsEntries(1, E) /\ Tells(p, x, E)
    /\ \A e \in E : /\ e.msg = m
                    /\ Unstarted(sent[m].to) /\ followUps[sent[m].to] = 0 => e.kind = First(m)
                    /\ e.kind = "delivered" => KeptFor(m, sent[m].to)
    /\ x \in {"steer", "turnStart"} =>
          E = {} /\ sent[m].to \in thread /\ ~ Unstarted(sent[m].to) /\ m \in seen'[sent[m].to]

LEMMA HoldKeeps ==
    ASSUME quiet \in [Workers -> [Msgs -> Nat]], NEW w \in Workers, NEW m \in Msgs, Hold(w, m)
    PROVE  /\ m \in seen[w] \/ quiet'[w][m] > 0
           /\ \A v \in Workers : \A n \in Msgs : quiet[v][n] > 0 => quiet'[v][n] > 0
<1>1. CASE m \in seen[w]
  BY <1>1 DEF Hold
<1>2. CASE m \notin seen[w]
  <2> DEFINE more == [quiet[w] EXCEPT ![m] = quiet[w][m] + 1]
  <2>1. quiet' = [quiet EXCEPT ![w] = more]
    BY <1>2 DEF Hold
  <2>2. more[m] > 0 /\ \A n \in Msgs : quiet[w][n] > 0 => more[n] > 0
    OBVIOUS
  <2> HIDE DEF more
  <2> QED  BY <2>1, <2>2
<1> QED  BY <1>1, <1>2

LEMMA InputIsSeen ==
    ASSUME TypeOK, NEW p \in Procs, NEW w \in Workers, NEW extra \in SUBSET Msgs,
           TakeInput(p, w, extra)
    PROVE  /\ extra \subseteq seen'[w]
           /\ \A v \in Workers : /\ seen[v] \subseteq seen'[v]
                                 /\ v # w => seen'[v] = seen[v]
                                 /\ \A n \in Msgs : quiet[v][n] > 0 => KeptFor(n, v)
           /\ \A n \in seen'[w] : n \in seen[w] \/ input'[p][n] > 0
           /\ \A r \in Procs : r # p => input'[r] = input[r]
<1>0. /\ quiet \in [Workers -> [Msgs -> Nat]] /\ seen \in [Workers -> SUBSET Msgs]
      /\ input \in [Procs -> [Msgs -> Nat]]
  BY DEF TypeOK
<1> DEFINE f == Frame(w, extra)
<1>1. /\ \A n \in extra : n \in seen[w] \/ f[n] > 0
      /\ \A n \in Msgs : quiet[w][n] > 0 => n \in seen[w] \/ f[n] > 0
  BY <1>0 DEF Frame
<1>2. /\ input' = [input EXCEPT ![p] = f] /\ quiet' = [quiet EXCEPT ![w] = NoNotes]
      /\ seen' = [seen EXCEPT ![w] = @ \cup Noted(f)]
  BY DEF TakeInput
<1> HIDE DEF f
<1>3. \A n : n \in Noted(f) <=> n \in Msgs /\ f[n] > 0
  BY DEF Noted
<1> QED  BY <1>0, <1>1, <1>2, <1>3 DEF KeptFor

LEMMA DeliverTells ==
    ASSUME TypeOK, appendQ # <<>>, NEW p \in Procs, NEW m \in Msgs, NEW d, Deliver(p, m, d)
    PROVE  /\ LeavesUnstarted
           /\ \E x, E : Told(p, m, x, E)
<1> DEFINE w == sent[m].to
<1>0. /\ appendQ \in Seq(EntryType) /\ followUps \in [Workers -> Nat] /\ MaxFollowUps \in Nat
      /\ state \in [Workers -> {"not_started", "active", "idle", "closed"}]
  BY TeamAssumption DEF TypeOK
<1>a. ASSUME NEW y \in {"done", "receipt", "steer", "turnStart"}, at' = [at EXCEPT ![p] = y],
             appendQ' = Backlog, y # "receipt", LeavesUnstarted,
             y \in {"steer", "turnStart"} => w \in thread /\ ~ Unstarted(w) /\ m \in seen'[w]
      PROVE  /\ LeavesUnstarted
             /\ \E x, E : Told(p, m, x, E)
  <2>1. AddsEntries(1, {}) /\ Tells(p, y, {})
    BY <1>0, <1>a, BacklogAddsNone DEF Tells
  <2>2. Told(p, m, y, {})
    BY <1>a, <2>1 DEF Told
  <2> QED  BY <1>a, <2>2
<1>b. ASSUME NEW outcome \in Receipts, NEW why \in Reasons, Report(p, Backlog, m, outcome, why),
             LeavesUnstarted, outcome = "delivered" => KeptFor(m, w),
             Unstarted(w) /\ followUps[w] = 0 => outcome = First(m)
      PROVE  /\ LeavesUnstarted
             /\ \E x, E : Told(p, m, x, E)
  <2> DEFINE e == Entry(p, outcome, m, why)
  <2>1. e.by = p /\ e.kind = outcome /\ e.msg = m
    BY DEF Entry
  <2>2. AddsEntries(1, {e})
    BY <1>0, <1>b, ReportAddsEntry
  <2>3. at' = [at EXCEPT ![p] = "receipt"]
    BY <1>b DEF Report
  <2> HIDE DEF e
  <2>4. Tells(p, "receipt", {e})
    BY <2>1 DEF Tells
  <2>5. Told(p, m, "receipt", {e})
    BY <1>b, <2>1, <2>2, <2>3, <2>4 DEF Told
  <2> QED  BY <1>b, <2>5
<1>c. ASSUME UNCHANGED <<followUps, state>> PROVE LeavesUnstarted
  BY <1>c DEF LeavesUnstarted, Unstarted
<1>1. CASE DeliverNobody(p, m)
  BY <1>1, <1>a, <1>c DEF DeliverNobody, NoDelivery
<1>2. CASE DeliverRefused(p, m)
  <2>1. Unstarted(w) /\ followUps[w] = 0 => "undeliverable" = First(m)
    BY <1>0, <1>2 DEF DeliverRefused, OverBudget, First
  <2> QED  BY <1>2, <1>b, <1>c, <2>1 DEF DeliverRefused, NoDelivery, Receipts, Reasons
<1>3. CASE DeliverClosed(p, m)
  <2>1. ~ Unstarted(w)
    BY <1>3 DEF DeliverClosed, Unstarted
  <2> QED  BY <1>3, <1>b, <1>c, <2>1 DEF DeliverClosed, NoDelivery, Receipts, Reasons
<1>4. CASE DeliverHeld(p, m, d)
  <2> DEFINE why == IF Downgraded(m, d) /\ state[w] # "not_started"
                    THEN "downgraded_to_quiet" ELSE "none"
  <2>1. Report(p, Backlog, m, "delivered", why) /\ why \in Reasons /\ state' = state
    BY <1>4 DEF DeliverHeld, Reasons
  <2>2. Unstarted(w) /\ followUps[w] = 0 => "delivered" = First(m)
    BY <1>0, <1>4 DEF DeliverHeld, OverBudget, First
  <2>3. LeavesUnstarted
    <3>1. CASE Unstarted(w)
      BY <1>4, <1>c, <2>1, <3>1 DEF DeliverHeld, Unstarted
    <3>2. CASE ~ Unstarted(w)
      <4>1. \A v \in Workers : v # w => followUps'[v] = followUps[v]
        <5>1. followUps' = followUps \/ followUps' = [followUps EXCEPT ![w] = @ + 1]
          BY <1>4 DEF DeliverHeld, CountFollowUp
        <5> QED  BY <1>0, <5>1
      <4> QED  BY <2>1, <3>2, <4>1 DEF LeavesUnstarted, Unstarted
    <3> QED  BY <3>1, <3>2
  <2>4. "delivered" \in Receipts
    BY DEF Receipts
  <2>5. KeptFor(m, w)
    <3>1. Hold(w, m) /\ seen' = seen /\ w \in Workers /\ quiet \in [Workers -> [Msgs -> Nat]]
      BY <1>4 DEF DeliverHeld, TypeOK
    <3> QED  BY <3>1, HoldKeeps DEF KeptFor
  <2> HIDE DEF why
  <2> QED  BY <1>b, <2>1, <2>2, <2>3, <2>4, <2>5
<1>5. CASE DeliverWoken(p, m, d)
  <2>0. w \in thread /\ Asks(m, d) = "wake" /\ appendQ' = Backlog /\ followUps' = followUps
    BY <1>5 DEF DeliverWoken
  <2>1. w \in thread /\ ~ Unstarted(w) /\ appendQ' = Backlog /\ followUps' = followUps
    BY <2>0 DEF Asks, Unstarted
  <2>2. state' = state \/ state' = [state EXCEPT ![w] = "active"]
    BY <1>5 DEF DeliverWoken, RunTurn
  <2>3. LeavesUnstarted
    BY <1>0, <2>1, <2>2 DEF LeavesUnstarted, Unstarted
  <2>4. PICK x \in {"steer", "turnStart"} : at' = [at EXCEPT ![p] = x]
    BY <1>5 DEF DeliverWoken, RunTurn
  <2>5. m \in seen'[w]
    <3>1. TakeInput(p, w, {m}) /\ w \in Workers /\ {m} \in SUBSET Msgs
      BY <1>5 DEF DeliverWoken, TypeOK
    <3> HIDE DEF w
    <3> QED  BY <3>1, InputIsSeen
  <2> QED  BY <1>a, <2>1, <2>3, <2>4, <2>5
<1> QED BY <1>1, <1>2, <1>3, <1>4, <1>5, Zenon DEF Deliver

(* What was said stays in agreement when the entries E agree with it. *)
LEMMA AgreedStays ==
    ASSUME Agreed, UNCHANGED sent, NEW E,
           \A m \in Msgs : \A k \in Receipts :
               Said(m, k)' => Said(m, k) \/ \E e \in E : e.msg = m /\ e.kind = k,
           \A w \in Workers : Unstarted(w)' => Unstarted(w),
           \A m \in DOMAIN sent : m \in Msgs /\ sent[m].to \in Workers,
           \A m \in DOMAIN sent : Waking(m)' => Untold(m)' /\ sent[m].to \in thread',
           \A e \in E :
              /\ \A f \in E : f = e
              /\ \A k \in Receipts : Said(e.msg, k) => e.kind = k
              /\ Unstarted(sent[e.msg].to) => e.kind = First(e.msg)
    PROVE  Agreed'
<1>1. ASSUME NEW m \in DOMAIN sent, Unstarted(sent[m].to)', NEW k \in Receipts, Said(m, k)'
      PROVE  k = First(m)
  BY <1>1 DEF Agreed
<1>2. \A m \in DOMAIN sent : First(m)' = First(m)
  BY DEF First, IsWakeup
<1>3. ASSUME NEW m \in Msgs, Said(m, "delivered")', Said(m, "undeliverable")' PROVE FALSE
  <2>1. {"delivered", "undeliverable"} \subseteq Receipts
    BY DEF Receipts
  <2>2. /\ Said(m, "delivered") \/ \E e \in E : e.msg = m /\ e.kind = "delivered"
        /\ Said(m, "undeliverable") \/ \E e \in E : e.msg = m /\ e.kind = "undeliverable"
    BY <1>3, <2>1
  <2>3. \A e \in E : e.msg = m =>
           /\ Said(m, "delivered") => e.kind = "delivered"
           /\ Said(m, "undeliverable") => e.kind = "undeliverable"
    BY <2>1
  <2> QED  BY <2>2, <2>3 DEF Agreed
<1> QED  BY <1>1, <1>2, <1>3 DEF Agreed

(* The caller of the first entry goes on to x, when that entry is written or
   has failed, and adds the entries E. *)
GoesOn(p, x, E) ==
    /\ at' = [at EXCEPT ![p] = x] /\ x # "new"
    /\ AddsEntries(1, E) /\ Tells(p, x, E)
    /\ \A e \in E : /\ e.msg \in DOMAIN sent
                    /\ p[1] = "queue" => p = Queue(e.msg)
                    /\ p[1] = "attach" => p = Attach(sent[e.msg].to)
                    /\ \A k \in Receipts : Said(e.msg, k) => e.kind = k
                    /\ Unstarted(sent[e.msg].to) => e.kind = First(e.msg)
    /\ x \in Wakes =>
          \E m \in DOMAIN sent : p = Queue(m) /\ Untold(m) /\ E = {} /\ sent[m].to \in thread

LEMMA CallerGoesOn ==
    ASSUME TypeInv, FinalInv, appendQ # <<>>, appendQ' \in Seq(EntryType),
           NEW p, p = Head(appendQ).by, NEW x \in Places, NEW E, GoesOn(p, x, E),
           LeavesUnstarted, UNCHANGED <<sent, attached, thread, alive>>,
           \A m \in Msgs : \A k \in Receipts : journal'[m] = k => Said(m, k)
    PROVE  Callers' /\ Sessions' /\ Agreed'
<1>0. /\ appendQ \in Seq(EntryType) /\ at \in [Procs -> Places] /\ sent \in Seq(Traffic)
      /\ p \in Procs /\ 1 \in DOMAIN appendQ /\ p = appendQ[1].by
      /\ state \in [Workers -> {"not_started", "active", "idle", "closed"}]
  BY FirstEntry DEF TypeInv, TypeOK
<1>s. DOMAIN sent \subseteq Msgs /\ \A m \in DOMAIN sent : sent[m].to \in Workers
  <2>1. DOMAIN sent = 1 .. Len(sent) /\ Len(sent) \in Nat /\ Len(sent) <= MaxMsgs
    BY <1>0, LenProperties DEF TypeInv, TypeOK
  <2> QED  BY <1>0, <2>1, TeamAssumption DEF Msgs, Message
<1>q. /\ \A v \in Workers : Attach(v) \in Procs /\ Attach(v)[1] = "attach"
                            /\ Start(v) \in Procs /\ Start(v)[1] = "start"
      /\ \A m \in Msgs : Queue(m) \in Procs /\ Queue(m)[1] = "queue"
      /\ \A m, n \in Msgs : Queue(m) = Queue(n) => m = n
      /\ \A r \in Procs : r[1] = "attach" => \E v \in Workers : r = Attach(v)
  BY DEF Attach, Start, Queue, Procs, Loops, Settle
<1>w. /\ p[1] \in {"attach", "queue"}
      /\ p[1] = "attach" => at[p] \in {"append", "receipt"}
  BY <1>0 DEF FinalInv, Callers, Waits
<1>1. Callers'
  <2>1. 1 \in {0, 1}
    OBVIOUS
  <2>2. \A e \in E : /\ Waits(e, at')
                     /\ e.by[1] = "attach" =>
                           \A i \in DOMAIN appendQ : appendQ[i].by = e.by => i = 1
    BY <1>0, <1>w DEF GoesOn, Tells, Waits, FinalInv, Callers
  <2>3. \A i \in DOMAIN appendQ :
            i # 1 /\ appendQ[i].by[1] = "attach" => at'[appendQ[i].by] = at[appendQ[i].by]
    <3>1. \A i \in DOMAIN appendQ : i # 1 /\ appendQ[i].by[1] = "attach" => appendQ[i].by # p
      BY <1>0 DEF FinalInv, Callers
    <3>2. \A i \in DOMAIN appendQ : appendQ[i].by \in Procs
      <4>1. \A i \in DOMAIN appendQ : appendQ[i] \in EntryType
        BY <1>0, ElementOfSeq, LenProperties
      <4> QED  BY <4>1 DEF EntryType
    <3> QED  BY <1>0, <3>1, <3>2 DEF GoesOn
  <2>4. AddsEntries(1, E) /\ Callers
    BY DEF GoesOn, FinalInv
  <2> QED  BY <1>0, <2>1, <2>2, <2>3, <2>4, CallersStay
<1>2. Sessions'
  <2>1. \A v \in Workers : /\ at'[Start(v)] = at[Start(v)]
                           /\ at[Attach(v)] # "new" => at'[Attach(v)] # "new"
                           /\ at'[Attach(v)] # "done" => at[Attach(v)] # "done"
    BY <1>0, <1>q, <1>w DEF GoesOn
  <2>2. attached \subseteq Workers
    BY DEF TypeInv, TypeOK
  <2>3. \A v \in attached : at'[Attach(v)] # "new"
    BY <2>1, <2>2 DEF FinalInv, Sessions
  <2>4. \A v \in Workers : at'[Attach(v)] # "done" => Unstarted(v)'
    BY <2>1 DEF FinalInv, Sessions, LeavesUnstarted
  <2>5. ASSUME NEW v \in Workers, Unstarted(v)'
        PROVE  followUps'[v] = 0 /\ v \notin thread /\ v \notin alive /\ at'[Start(v)] = "new"
    BY <2>1, <2>5 DEF FinalInv, Sessions, LeavesUnstarted
  <2> QED  BY <2>3, <2>4, <2>5 DEF Sessions
<1>3. Agreed'
  <2>1. ASSUME NEW m \in Msgs, NEW k \in Receipts, Said(m, k)'
        PROVE  Said(m, k) \/ \E e \in E : e.msg = m /\ e.kind = k
    <3>1. CASE journal'[m] = k
      BY <3>1
    <3>2. CASE Entered(m, k)'
      <4>1. AddsEntries(1, E)
        BY DEF GoesOn
      <4>2. Entered(m, k) \/ \E e \in E : e.kind = k /\ e.msg = m
        BY <3>2, <4>1, EntersOnly
      <4> QED  BY <4>2 DEF Said
    <3> QED  BY <2>1, <3>1, <3>2 DEF Said
  <2>2. ASSUME NEW m \in DOMAIN sent, Waking(m)'
        PROVE  Untold(m)' /\ sent[m].to \in thread
    <3>1. CASE p = Queue(m)
      <4>1. x \in Wakes
        BY <1>0, <1>q, <1>s, <2>2, <3>1 DEF GoesOn, Waking, Wakes
      <4>2. Untold(m) /\ E = {} /\ sent[m].to \in thread
        BY <1>q, <1>s, <3>1, <4>1 DEF GoesOn
      <4> QED  BY <1>s, <2>1, <4>2 DEF Untold
    <3>2. CASE p # Queue(m)
      <4>1. Waking(m)
        BY <1>0, <1>q, <1>s, <2>2, <3>2 DEF GoesOn, Waking
      <4>2. Untold(m) /\ sent[m].to \in thread
        BY <4>1 DEF FinalInv, Agreed
      <4>3. \A e \in E : e.msg # m
        <5> SUFFICES ASSUME NEW e \in E, e.msg = m PROVE FALSE
          OBVIOUS
        <5>1. p = Attach(sent[m].to) /\ sent[m].to \in Workers
          BY <1>s, <1>w, <3>2 DEF GoesOn
        <5>2. Unstarted(sent[m].to)
          BY <1>q, <1>w, <5>1 DEF FinalInv, Sessions
        <5> QED  BY <4>2, <5>1, <5>2 DEF FinalInv, Sessions
      <4> QED  BY <1>s, <2>1, <4>2, <4>3 DEF Untold
    <3> QED  BY <3>1, <3>2
  <2>3. \A e \in E :
              /\ \A f \in E : f = e
              /\ \A k \in Receipts : Said(e.msg, k) => e.kind = k
              /\ Unstarted(sent[e.msg].to) => e.kind = First(e.msg)
    BY DEF GoesOn, Tells
  <2>4. \A v \in Workers : Unstarted(v)' => Unstarted(v)
    BY DEF LeavesUnstarted
  <2> QED  BY <1>s, <2>1, <2>2, <2>3, <2>4, AgreedStays DEF FinalInv
<1> QED  BY <1>1, <1>2, <1>3

(* The caller returns or throws. *)
LEMMA CallEnds ==
    ASSUME TypeInv, FinalInv, appendQ # <<>>, appendQ' \in Seq(EntryType),
           NEW p, p = Head(appendQ).by, NEW x \in {"done", "failed"},
           at' = [at EXCEPT ![p] = x], appendQ' = Backlog,
           UNCHANGED <<sent, attached, followUps, state, thread, alive, rest>>,
           \A m \in Msgs : \A k \in Receipts : journal'[m] = k => Said(m, k)
    PROVE  FinalInv'
<1>1. LeavesUnstarted
  BY DEF LeavesUnstarted, Unstarted
<1>2. AddsEntries(1, {}) /\ Tells(p, x, {})
  BY BacklogAddsNone DEF Tells, TypeInv, TypeOK
<1>3. GoesOn(p, x, {}) /\ x \in Places
  BY <1>2 DEF GoesOn, Wakes, Places
<1>4. Callers' /\ Sessions' /\ Agreed'
  BY <1>1, <1>3, CallerGoesOn
<1>5. Rests'
  BY DEF FinalInv, Rests
<1> QED  BY <1>4, <1>5 DEF FinalInv

LEMMA SentIsTyped ==
    ASSUME TypeInv
    PROVE  \A m \in DOMAIN sent : m \in Msgs /\ sent[m].to \in Workers
<1>1. /\ DOMAIN sent = 1 .. Len(sent) /\ Len(sent) \in Nat /\ Len(sent) <= MaxMsgs
      /\ sent \in Seq(Traffic)
  BY LenProperties DEF TypeInv, TypeOK
<1>2. \A m \in DOMAIN sent : sent[m] \in Traffic
  BY <1>1, ElementOfSeq
<1> QED  BY <1>1, <1>2, TeamAssumption DEF Msgs, Message

(* attach() goes on with what was sent to its worker. *)
LEMMA AttachGoesOn ==
    ASSUME TypeInv, FinalInv, appendQ # <<>>, appendQ' \in Seq(EntryType),
           NEW w \in Workers, Head(appendQ).by = Attach(w),
           NEW todo \in SUBSET Msgs, \A m \in todo : m \in DOMAIN sent /\ sent[m].to = w,
           AttachStep(Attach(w), todo),
           UNCHANGED <<sent, attached, thread, alive>>,
           \A m \in Msgs : \A k \in Receipts : journal'[m] = k => Said(m, k)
    PROVE  FinalInv'
<1> DEFINE p == Attach(w)
<1>0. /\ TypeOK /\ appendQ \in Seq(EntryType) /\ 1 \in DOMAIN appendQ /\ Head(appendQ) = appendQ[1]
      /\ p \in Procs /\ p \in Loops /\ p[1] = "attach"
      /\ rest \in [Loops -> SUBSET Msgs]
  BY FirstEntry DEF Attach, Procs, Loops, TypeInv, TypeOK
<1>1. CASE todo = {}
  <2>1. LoopEnds(p)
    BY <1>1 DEF AttachStep
  <2>2. "done" \in {"done", "failed"}
    OBVIOUS
  <2> QED  BY <2>1, <2>2, CallEnds DEF LoopEnds, NoDelivery
<1>2. CASE todo # {}
  <2>1. PICK m \in todo : rest' = [rest EXCEPT ![p] = todo \ {m}] /\ Deliver(p, m, det)
    BY <1>2 DEF AttachStep
  <2>2. m \in DOMAIN sent /\ sent[m].to = w /\ m \in Msgs
    BY <2>1
  <2> HIDE DEF p
  <2>3. LeavesUnstarted /\ \E x, E : Told(p, m, x, E)
    BY <1>0, <2>1, <2>2, DeliverTells
  <2>4. PICK x, E : Told(p, m, x, E)
    BY <2>3
  <2>5. at[p] \in {"append", "receipt"}
    BY <1>0 DEF FinalInv, Callers, Waits, p
  <2>6. Unstarted(w) /\ followUps[w] = 0
    BY <2>5 DEF FinalInv, Sessions, p
  <2>7. \A k \in Receipts : Said(m, k) => k = First(m)
    BY <2>2, <2>6 DEF FinalInv, Agreed
  <2>8. GoesOn(p, x, E) /\ x \in Places
    <3>1. x \notin Wakes /\ x # "new" /\ x \in Places
      BY <2>2, <2>4, <2>6 DEF Told, Wakes, Places
    <3>2. \A e \in E : e.msg = m /\ e.kind = First(m)
      BY <2>2, <2>4, <2>6 DEF Told
    <3>3. \A k \in Receipts : Said(m, k) => First(m) = k
      BY <2>7
    <3>4. p[1] # "queue" /\ p = Attach(sent[m].to)
      BY <1>0, <2>2 DEF p
    <3> QED  BY <2>2, <2>4, <3>1, <3>2, <3>3, <3>4 DEF GoesOn, Told
  <2>9. Callers' /\ Sessions' /\ Agreed'
    BY <2>3, <2>8, CallerGoesOn DEF p
  <2>10. Rests'
    <3>1. \A v \in Workers : Attach(v) \in Loops /\ Attach(v) # Settle /\ (Attach(v) = p => v = w)
      BY DEF p, Attach, Settle, Loops
    <3>2. \A v \in Workers : v # w => rest'[Attach(v)] = rest[Attach(v)]
      BY <1>0, <2>1, <3>1
    <3>3. rest'[p] = todo \ {m} /\ rest'[Settle] = rest[Settle]
      BY <1>0, <2>1, <3>1 DEF p, Loops
    <3> QED  BY <3>1, <3>2, <3>3 DEF FinalInv, Rests, p
  <2> QED  BY <2>9, <2>10 DEF FinalInv
<1> QED  BY <1>1, <1>2

LEMMA WriteFinalInv ==
    ASSUME TypeInv, TypeInv', RecordedInv, OnceInv, FinalInv, Write
    PROVE  FinalInv'
<1> DEFINE e == Head(appendQ)
<1>0. /\ appendQ # <<>> /\ TypeOK /\ appendQ' \in Seq(EntryType)
      /\ journal \in [Msgs -> {"none", "queued"} \cup Receipts]
  BY DEF Write, WriteQueued, WriteRuntimeChanged, WriteReceipt, Head1, TypeInv, TypeOK
<1>1. /\ e.by \in Procs /\ 1 \in DOMAIN appendQ /\ e = appendQ[1]
      /\ e.kind = "queued" => e.msg \in Msgs /\ e.msg \in DOMAIN sent /\ e.by = Queue(e.msg)
      /\ e.kind = "runtime_changed" => e.by[1] = "attach"
  BY <1>0, FirstEntry
<1>a. \A r \in Procs : r[1] = "attach" => \E v \in Workers : r = Attach(v)
  BY DEF Attach, Queue, Procs, Loops, Settle
<1>u. UNCHANGED <<sent, attached, thread, alive>>
  BY DEF Write, WriteQueued, WriteRuntimeChanged, WriteReceipt, childVars
<1>s. \A m \in DOMAIN sent : m \in Msgs /\ sent[m].to \in Workers
  BY SentIsTyped
<1>3. CASE WriteQueued
  <2> DEFINE m == e.msg
  <2>1. PICK d : Deliver(e.by, m, d)
    BY <1>3 DEF WriteQueued
  <2>2. /\ m \in Msgs /\ m \in DOMAIN sent /\ e.by = Queue(m) /\ appendQ[1].kind = "queued"
        /\ journal' = [journal EXCEPT ![m] = "queued"]
        /\ UNCHANGED rest
    BY <1>1, <1>3 DEF WriteQueued, Head1
  <2>3. Untold(m)
    <3>1. journal[m] = "none"
      BY <1>1, <2>2 DEF OnceInv
    <3>2. \A i \in DOMAIN appendQ : appendQ[i].kind \in Receipts => appendQ[i].msg # m
      BY <3>1 DEF RecordedInv, Recorded
    <3> QED  BY <3>1, <3>2 DEF Untold, Said, Entered, Receipts
  <2>4. \A n \in Msgs : \A k \in Receipts : journal'[n] = k => Said(n, k)
    BY <1>0, <2>2 DEF Said, Receipts
  <2> DEFINE p == Queue(m)
  <2>5. Deliver(p, m, d) /\ p = Head(appendQ).by /\ p \in Procs /\ p[1] = "queue"
    BY <1>1, <2>1, <2>2 DEF Queue
  <2> HIDE DEF e, m
  <2>6. LeavesUnstarted /\ \E x, E : Told(p, m, x, E)
    <3> HIDE DEF p
    <3> QED  BY <1>0, <2>2, <2>5, DeliverTells
  <2>7. PICK x, E : Told(p, m, x, E)
    BY <2>6
  <2>8. Unstarted(sent[m].to) => followUps[sent[m].to] = 0
    BY <1>s, <2>2 DEF FinalInv, Sessions
  <2>9. GoesOn(p, x, E) /\ x \in Places
    <3>1. x # "new" /\ x \in Places /\ (x \in Wakes => x \in {"steer", "turnStart"})
      BY <2>7 DEF Told, Wakes, Places
    <3>2. \A f \in E : f.msg = m /\ (Unstarted(sent[m].to) => f.kind = First(m))
      BY <2>7, <2>8 DEF Told
    <3>3. \A k \in Receipts : ~ Said(m, k)
      BY <2>3 DEF Untold
    <3> HIDE DEF p
    <3>4. p = Queue(m)
      BY DEF p
    <3> QED  BY <2>2, <2>3, <2>5, <2>7, <3>1, <3>2, <3>3, <3>4 DEF GoesOn, Told
  <2>10. Callers' /\ Sessions' /\ Agreed'
    <3> HIDE DEF p
    <3> QED  BY <1>0, <1>u, <2>4, <2>5, <2>6, <2>9, CallerGoesOn
  <2>11. Rests'
    BY <1>u, <2>2 DEF FinalInv, Rests
  <2> QED  BY <2>10, <2>11 DEF FinalInv
<1>4. CASE WriteRuntimeChanged
  <2>1. PICK w \in Workers : e.by = Attach(w)
    BY <1>1, <1>4, <1>a DEF WriteRuntimeChanged, Head1
  <2> DEFINE todo == {m \in Pending : sent[m].to = w}
  <2>2. AttachStep(Attach(w), todo) /\ journal' = journal
    <3>1. e.by[2] = w
      BY <2>1 DEF Attach
    <3> QED  BY <1>4, <2>1, <3>1 DEF WriteRuntimeChanged, logVars
  <2>3. todo \in SUBSET Msgs /\ \A m \in todo : m \in DOMAIN sent /\ sent[m].to = w
    BY DEF Pending, OnceInv
  <2>4. \A n \in Msgs : \A k \in Receipts : journal'[n] = k => Said(n, k)
    BY <2>2 DEF Said
  <2> HIDE DEF todo
  <2> QED  BY <1>0, <1>u, <2>1, <2>2, <2>3, <2>4, AttachGoesOn
<1>5. CASE WriteReceipt
  <2>1. Continues(e.by) /\ e.kind \in Receipts
        /\ journal' = [journal EXCEPT ![e.msg] = e.kind]
    <3>1. Continues(e.by)
      BY <1>5, Zenon DEF WriteReceipt, Continues
    <3> QED  BY <1>5, <3>1, Zenon DEF WriteReceipt, Head1
  <2>2. \A n \in Msgs : \A k \in Receipts : journal'[n] = k => Said(n, k)
    BY <1>0, <1>1, <2>1 DEF Said, Entered
  <2>3. e.by[1] \in {"attach", "queue"}
    BY <1>1 DEF FinalInv, Callers, Waits
  <2>4. CASE e.by[1] = "attach"
    <3>1. PICK w \in Workers : e.by = Attach(w)
      BY <1>1, <1>a, <2>4
    <3>2. AttachStep(Attach(w), rest[Attach(w)])
      BY <2>1, <2>4, <3>1 DEF Continues
    <3> DEFINE todo == rest[Attach(w)]
    <3>3. todo \in SUBSET Msgs /\ \A m \in todo : m \in DOMAIN sent /\ sent[m].to = w
      BY <1>s DEF FinalInv, Rests
    <3>4. AttachStep(Attach(w), todo)
      BY <3>2
    <3> HIDE DEF todo
    <3> QED  BY <1>0, <1>u, <2>2, <3>1, <3>3, <3>4, AttachGoesOn
  <2>5. CASE e.by[1] = "queue"
    <3>1. LoopEnds(e.by)
      BY <2>1, <2>5 DEF Continues
    <3>2. "done" \in {"done", "failed"}
      OBVIOUS
    <3> QED  BY <1>0, <1>u, <2>2, <3>1, <3>2, CallEnds DEF LoopEnds, NoDelivery
  <2> QED  BY <2>3, <2>4, <2>5
<1> QED BY <1>3, <1>4, <1>5 DEF Write

LEMMA QueueStepFinalInv ==
    ASSUME TypeInv, TypeInv', RecordedInv, OnceInv, FinalInv
    PROVE  /\ \A t \in Traffic : Submit(t) => FinalInv'
           /\ \A w \in Workers : AttachWorker(w) => FinalInv'
           /\ AppendFails => FinalInv'
           /\ SettleQuiet => FinalInv'
<1>0. /\ TypeOK /\ appendQ \in Seq(EntryType) /\ appendQ' \in Seq(EntryType)
      /\ sent \in Seq(Traffic) /\ at \in [Procs -> Places]
  BY DEF TypeInv, TypeOK
<1>s. \A m \in DOMAIN sent : m \in Msgs /\ sent[m].to \in Workers
  BY SentIsTyped
<1>q. /\ \A v \in Workers : Attach(v) \in Procs /\ Attach(v)[1] = "attach" /\ Start(v) \in Procs
                            /\ Attach(v) # Start(v) /\ Attach(v) # Settle /\ Start(v) # Settle
      /\ \A m \in Msgs : /\ Queue(m) \in Procs /\ Queue(m)[1] = "queue" /\ Queue(m) # Settle
                         /\ \A v \in Workers : Queue(m) # Attach(v) /\ Queue(m) # Start(v)
      /\ \A m, n \in Msgs : Queue(m) = Queue(n) => m = n
      /\ \A v, u \in Workers : Attach(v) = Attach(u) => v = u
      /\ Settle \in Procs
  BY DEF Attach, Start, Queue, Procs, Loops, Settle
<1>e. \A i \in DOMAIN appendQ : appendQ[i] \in EntryType
  BY <1>0, ElementOfSeq, LenProperties
<1>1. ASSUME NEW t \in Traffic, Submit(t) PROVE FinalInv'
  <2> DEFINE m == Len(sent) + 1
             f == Entry(Queue(m), "queued", m, "none")
  <2>1. /\ m \in Msgs /\ sent' = Append(sent, t) /\ appendQ' = Append(appendQ, f)
        /\ at' = [at EXCEPT ![Queue(m)] = "append"]
        /\ UNCHANGED <<journal, attached, followUps, rest, state, thread, alive>>
    BY <1>1 DEF Submit, logVars, teamVars, runtimeVars, childVars
  <2>2. f \in EntryType /\ f.kind = "queued" /\ f.msg = m /\ f.by = Queue(m)
    <3>1. Queue(m) \in Procs
      BY <2>1 DEF Queue, Procs
    <3>2. m \in Msgs \cup {0} /\ "none" \in Reasons
      BY <2>1 DEF Reasons
    <3> HIDE DEF m
    <3> QED  BY <3>1, <3>2, EntryIsTyped
  <2>3. /\ m \notin DOMAIN sent /\ DOMAIN sent' = DOMAIN sent \cup {m}
        /\ \A n \in DOMAIN sent : sent'[n] = sent[n]
    <3>1. /\ Append(sent, t) \in Seq(Traffic) /\ Len(Append(sent, t)) = Len(sent) + 1
          /\ \A i \in 1 .. Len(sent) : Append(sent, t)[i] = sent[i]
      BY <1>0, AppendProperties
    <3>2. Len(sent) \in Nat /\ DOMAIN sent = 1 .. Len(sent)
          /\ DOMAIN Append(sent, t) = 1 .. Len(sent) + 1
      BY <1>0, <3>1, LenProperties
    <3> QED  BY <2>1, <3>1, <3>2
  <2> HIDE DEF f, m
  <2>4. AddsEntries(0, {f})
    BY <1>0, <2>1, <2>2, AppendAddsEntry
  <2>5. journal[m] = "none" /\ \A k \in Receipts : ~ Entered(m, k)
    <3>1. journal[m] = "none"
      BY <2>1, <2>3 DEF OnceInv
    <3> QED  BY <3>1 DEF RecordedInv, Recorded, Entered
  <2>6. \A n \in Msgs : \A k \in Receipts : Said(n, k)' => Said(n, k) /\ n # m
    <3>1. \A n \in Msgs : \A k \in Receipts : Entered(n, k)' => Entered(n, k)
      BY <2>2, <2>4, EntersOnly DEF Receipts
    <3> QED  BY <2>1, <2>5, <3>1 DEF Said, Receipts
  <2>7. Callers'
    <3>1. PICK k \in {0, 1} : k = 0
      OBVIOUS
    <3>2. \A i \in DOMAIN appendQ :
              appendQ[i].by[1] = "attach" => at'[appendQ[i].by] = at[appendQ[i].by]
      BY <1>0, <1>e, <1>q, <2>1 DEF EntryType
    <3>3. Waits(f, at') /\ f.by[1] # "attach"
      BY <1>q, <2>1, <2>2 DEF Waits
    <3>4. AddsEntries(k, {f}) /\ Callers
      BY <2>4, <3>1 DEF FinalInv
    <3> QED  BY <1>0, <3>2, <3>3, <3>4, CallersStay
  <2>8. Rests'
    BY <2>1, <2>3 DEF FinalInv, Rests
  <2>9. Sessions'
    <3>1. \A v \in Workers : at'[Attach(v)] = at[Attach(v)] /\ at'[Start(v)] = at[Start(v)]
      BY <1>0, <1>q, <2>1
    <3>2. attached \subseteq Workers
      BY <1>0 DEF TypeOK
    <3> QED  BY <2>1, <3>1, <3>2 DEF FinalInv, Sessions, Unstarted
  <2>10. Agreed'
    <3>1. ASSUME NEW n \in DOMAIN sent', Waking(n)' PROVE Untold(n)' /\ sent'[n].to \in thread'
      <4>1. n # m
        BY <1>0, <1>q, <2>1, <3>1 DEF Waking
      <4>2. n \in DOMAIN sent /\ n \in Msgs
        BY <1>s, <2>3, <4>1
      <4>3. Waking(n)
        BY <1>0, <1>q, <2>1, <3>1, <4>1, <4>2 DEF Waking
      <4> QED  BY <2>1, <2>3, <2>6, <4>2, <4>3 DEF FinalInv, Agreed, Untold
    <3>2. ASSUME NEW n \in DOMAIN sent', state'[sent'[n].to] = "not_started", NEW k \in Receipts, Said(n, k)'
          PROVE  k = First(n)'
      <4>1. n \in DOMAIN sent /\ Said(n, k) /\ n \in Msgs
        BY <1>s, <2>1, <2>3, <2>6, <3>2
      <4>2. Unstarted(sent[n].to)
        BY <2>1, <2>3, <3>2, <4>1 DEF Unstarted
      <4>3. k = First(n)
        BY <4>1, <4>2 DEF FinalInv, Agreed
      <4> QED  BY <2>3, <4>1, <4>3 DEF First, IsWakeup
    <3>3. \A n \in Msgs : ~ (Said(n, "delivered")' /\ Said(n, "undeliverable")')
      BY <2>6 DEF FinalInv, Agreed, Receipts
    <3> QED  BY <3>1, <3>2, <3>3 DEF Agreed, Unstarted
  <2> QED  BY <2>7, <2>8, <2>9, <2>10 DEF FinalInv
<1>2. ASSUME NEW w \in Workers, AttachWorker(w) PROVE FinalInv'
  <2> DEFINE f == Entry(Attach(w), "runtime_changed", 0, "none")
  <2>1. /\ attached' = attached \cup {w} /\ appendQ' = Append(appendQ, f)
        /\ at[Attach(w)] = "new" /\ at' = [at EXCEPT ![Attach(w)] = "append"]
        /\ UNCHANGED <<sent, journal, followUps, rest, state, thread, alive>>
    BY <1>2 DEF AttachWorker, logVars, runtimeVars, childVars
  <2>2. f \in EntryType /\ f.kind = "runtime_changed" /\ f.by = Attach(w)
    BY <1>q, EntryIsTyped DEF Reasons
  <2> HIDE DEF f
  <2>4. AddsEntries(0, {f})
    BY <1>0, <2>1, <2>2, AppendAddsEntry
  <2>5. \A i \in DOMAIN appendQ : appendQ[i].by # Attach(w)
    BY <1>q, <2>1 DEF FinalInv, Callers, Waits
  <2>6. \A n \in Msgs : \A k \in Receipts : Said(n, k)' => Said(n, k)
    <3>1. \A n \in Msgs : \A k \in Receipts : Entered(n, k)' => Entered(n, k)
      BY <2>2, <2>4, EntersOnly DEF Receipts
    <3> QED  BY <2>1, <3>1 DEF Said, Receipts
  <2>7. Callers'
    <3>1. PICK k \in {0, 1} : k = 0
      OBVIOUS
    <3>2. \A i \in DOMAIN appendQ : at'[appendQ[i].by] = at[appendQ[i].by]
      <4>1. \A i \in DOMAIN appendQ : appendQ[i].by \in Procs
        BY <1>e DEF EntryType
      <4> QED  BY <1>0, <2>1, <2>5, <4>1
    <3>3. Waits(f, at')
      BY <1>0, <1>q, <2>1, <2>2 DEF Waits
    <3>4. AddsEntries(k, {f}) /\ Callers
      BY <2>4, <3>1 DEF FinalInv
    <3> QED  BY <1>0, <2>2, <2>5, <3>2, <3>3, <3>4, CallersStay
  <2>8. Rests'
    BY <2>1 DEF FinalInv, Rests
  <2>9. Sessions'
    <3>1. \A v \in Workers : /\ at'[Start(v)] = at[Start(v)]
                             /\ v # w => at'[Attach(v)] = at[Attach(v)]
                             /\ at'[Attach(w)] = "append"
      <4>1. \A r \in Procs : r # Attach(w) => at'[r] = at[r]
        BY <1>0, <2>1
      <4>2. at'[Attach(w)] = "append"
        BY <1>0, <1>q, <2>1
      <4>3. \A v \in Workers : v # w => Attach(v) # Attach(w)
        BY <1>q
      <4>4. \A v \in Workers : Start(v) # Attach(w)
        BY DEF Start, Attach
      <4> QED  BY <1>q, <4>1, <4>2, <4>3, <4>4
    <3>2. attached \subseteq Workers
      BY <1>0 DEF TypeOK
    <3> QED  BY <2>1, <3>1, <3>2 DEF FinalInv, Sessions, Unstarted
  <2>10. Agreed'
    <3>1. \A n \in DOMAIN sent : Waking(n)' => Untold(n)' /\ sent[n].to \in thread'
      <4>1. \A n \in DOMAIN sent : Waking(n)' => Waking(n)
        BY <1>0, <1>q, <1>s, <2>1 DEF Waking
      <4> QED  BY <1>s, <2>1, <2>6, <4>1 DEF FinalInv, Agreed, Untold
    <3>2. \A v \in Workers : Unstarted(v)' => Unstarted(v)
      BY <2>1 DEF Unstarted
    <3>3. /\ \A n \in DOMAIN sent : state'[sent[n].to] = "not_started" => Unstarted(sent[n].to)
          /\ \A n \in DOMAIN sent : First(n)' = First(n)
      BY <2>1 DEF First, IsWakeup, Unstarted
    <3>4. \A n \in DOMAIN sent : state'[sent[n].to] = "not_started" =>
              \A k \in Receipts : Said(n, k)' => k = First(n)'
      BY <1>s, <2>6, <3>3 DEF FinalInv, Agreed
    <3>5. \A n \in Msgs : ~ (Said(n, "delivered")' /\ Said(n, "undeliverable")')
      BY <2>6 DEF FinalInv, Agreed, Receipts
    <3> QED  BY <2>1, <3>1, <3>4, <3>5 DEF Agreed, Unstarted
  <2> QED  BY <2>7, <2>8, <2>9, <2>10 DEF FinalInv
<1>3. ASSUME AppendFails PROVE FinalInv'
  <2>1. /\ appendQ # <<>> /\ appendQ' = Backlog
        /\ at' = [at EXCEPT ![Head(appendQ).by] = "failed"]
        /\ UNCHANGED <<sent, journal, attached, followUps, rest, state, thread, alive>>
    BY <1>3 DEF AppendFails, logVars, teamVars, runtimeVars, childVars
  <2>2. \A n \in Msgs : \A k \in Receipts : journal'[n] = k => Said(n, k)
    BY <2>1 DEF Said
  <2>3. PICK p, x : p = Head(appendQ).by /\ x = "failed"
    OBVIOUS
  <2> QED  BY <1>0, <2>1, <2>2, <2>3, CallEnds
<1>4. ASSUME SettleQuiet PROVE FinalInv'
  <2>1. Stranded = {}
    <3>1. attached = {}
      BY <1>0, <1>4 DEF SettleQuiet, RunOver, FinalInv, Sessions, TypeOK
    <3> QED  BY <3>1 DEF Stranded
  <2>2. /\ at' = [at EXCEPT ![Settle] = "done"] /\ appendQ' = appendQ
        /\ UNCHANGED <<sent, journal, attached, followUps, rest, state, thread, alive>>
    BY <1>4, <2>1 DEF SettleQuiet, SettleStep, NoDelivery, logVars, childVars
  <2>3. \A r \in Procs : r # Settle => at'[r] = at[r]
    BY <1>0, <2>2
  <2>4. Callers'
    <3>1. \A i \in DOMAIN appendQ : appendQ[i].by \in Procs
      BY <1>e DEF EntryType
    <3>2. \A i \in DOMAIN appendQ : appendQ[i].by[1] # "settle"
      BY DEF FinalInv, Callers, Waits
    <3>3. \A i \in DOMAIN appendQ : at'[appendQ[i].by] = at[appendQ[i].by]
      BY <2>3, <3>1, <3>2 DEF Settle
    <3> QED  BY <2>2, <3>3 DEF FinalInv, Callers, Waits
  <2>5. Rests' /\ Sessions'
    BY <1>0, <1>q, <2>2, <2>3 DEF FinalInv, Rests, Sessions, Unstarted, TypeOK
  <2>6. Agreed'
    <3>1. /\ \A n \in DOMAIN sent : Waking(n)' => Waking(n)
          /\ \A n \in DOMAIN sent : Unstarted(sent[n].to)' => Unstarted(sent[n].to)
          /\ \A n \in Msgs : \A k : Said(n, k)' => Said(n, k)
          /\ \A n \in DOMAIN sent : First(n)' = First(n)
      BY <1>q, <1>s, <2>2, <2>3 DEF Waking, Unstarted, Said, Entered, First, IsWakeup
    <3> QED  BY <1>s, <2>2, <3>1 DEF FinalInv, Agreed, Untold
  <2> QED  BY <2>4, <2>5, <2>6 DEF FinalInv
<1> QED BY <1>1, <1>2, <1>3, <1>4

(* A step of w's session moves the calls that wait for it, and starts no other
   session; its own has started, or starts now that attach() has returned. *)
Confined(w) ==
    /\ \A p \in Procs : at'[p] # at[p] => Uses(p, w)
    /\ \A v \in Workers \ {w} : /\ state'[v] = state[v] /\ followUps'[v] = followUps[v]
                                /\ v \in thread' => v \in thread
                                /\ v \in alive' => v \in alive
    /\ thread \subseteq thread' /\ attached' = attached
    /\ ~ Unstarted(w)'
    /\ Unstarted(w) => at[Attach(w)] = "done" /\ w \in alive'

LEMMA SessionConfined ==
    ASSUME TypeInv, FinalInv, NEW w \in Workers, Progress(w) \/ Mishap(w) \/ Close(w)
    PROVE  Confined(w)
<1>0. /\ at \in [Procs -> Places] /\ followUps \in [Workers -> Nat]
      /\ state \in [Workers -> {"not_started", "active", "idle", "closed"}]
      /\ \A p \in Procs : p = Start(w) => Uses(p, w)
  BY DEF TypeInv, TypeOK, Uses
<1>q. Start(w) \in Procs /\ Uses(Start(w), w) /\ \A m \in Msgs : Queue(m) \in Procs
  BY DEF Start, Queue, Procs, Uses
\* Whoever waits for a session waits for one that has started.
<1>u. /\ \A p \in Procs : Uses(p, w) /\ at[p] \in Wakes => ~ Unstarted(w)
      /\ w \in alive => ~ Unstarted(w)
      /\ at[Start(w)] # "new" => ~ Unstarted(w)
  <2>1. /\ w \in alive => ~ Unstarted(w)
        /\ at[Start(w)] # "new" => ~ Unstarted(w)
        /\ w \in thread => ~ Unstarted(w)
    BY DEF FinalInv, Sessions
  <2>2. ASSUME NEW p \in Procs, Uses(p, w), at[p] \in Wakes PROVE ~ Unstarted(w)
    <3>1. CASE p = Start(w)
      BY <2>1, <2>2, <3>1 DEF Wakes
    <3>2. CASE p[1] = "queue" /\ p[2] \in DOMAIN sent /\ sent[p[2]].to = w
      <4>1. p = Queue(p[2])
        BY <3>2 DEF Procs, Loops, Settle, Queue
      <4>2. Waking(p[2])
        BY <2>2, <4>1 DEF Waking, Wakes
      <4> QED  BY <2>1, <3>2, <4>2 DEF FinalInv, Agreed
    <3> QED  BY <2>2, <3>1, <3>2 DEF Uses
  <2> QED  BY <2>1, <2>2
<1>a. ASSUME NEW p \in Procs, Uses(p, w), NEW x, at' = [at EXCEPT ![p] = x]
      PROVE  \A r \in Procs : at'[r] # at[r] => Uses(r, w)
  BY <1>0, <1>a
<1>b. ASSUME at' = at \/ at' = Broken(w)
      PROVE  \A r \in Procs : at'[r] # at[r] => Uses(r, w)
  BY <1>b DEF Broken
<1>c. ASSUME ~ Unstarted(w), state' = state \/ \E x \in {"active", "idle", "closed"} :
                                                    state' = [state EXCEPT ![w] = x]
      PROVE  /\ \A v \in Workers \ {w} : state'[v] = state[v]
             /\ ~ Unstarted(w)'
  BY <1>0, <1>c DEF Unstarted
<1>d. ASSUME ~ Unstarted(w), state' = state \/ \E x \in {"active", "idle", "closed"} :
                                                    state' = [state EXCEPT ![w] = x],
             \A r \in Procs : at'[r] # at[r] => Uses(r, w),
             thread' = thread \/ thread' = thread \cup {w}, alive' \subseteq alive,
             UNCHANGED <<followUps, attached>>
      PROVE  Confined(w)
  BY <1>c, <1>d DEF Confined
<1>e. ASSUME NEW m \in Msgs, Uses(Queue(m), w), at[Queue(m)] \in Wakes, WakeDelivered(m, w),
             UNCHANGED <<state, thread, alive, attached>>
      PROVE  Confined(w)
  <2>1. \A v \in Workers \ {w} : followUps'[v] = followUps[v]
    <3>1. followUps' = followUps \/ followUps' = [followUps EXCEPT ![w] = spent[m] + 1]
      BY <1>e DEF WakeDelivered
    <3> QED  BY <1>0, <3>1
  <2>2. \A r \in Procs : at'[r] # at[r] => Uses(r, w)
    BY <1>a, <1>e, <1>q DEF WakeDelivered, Report
  <2>3. ~ Unstarted(w) /\ ~ Unstarted(w)'
    BY <1>c, <1>e, <1>q, <1>u
  <2> QED  BY <1>e, <2>1, <2>2, <2>3 DEF Confined
<1> USE DEF teamVars, procVars, runtimeVars, childVars
<1>1. CASE StartSession(w)
  <2>1. /\ at' = [at EXCEPT ![Start(w)] = "init"] /\ state' = [state EXCEPT ![w] = "active"]
        /\ alive' = alive \cup {w} /\ at[Attach(w)] = "done"
        /\ UNCHANGED <<followUps, attached, thread>>
    BY <1>1 DEF StartSession
  <2>2. \A r \in Procs : at'[r] # at[r] => Uses(r, w)
    BY <1>a, <1>q, <2>1
  <2> QED  BY <1>0, <2>1, <2>2 DEF Confined, Unstarted
<1>2. CASE ThreadOpens(w)
  BY <1>2, <1>a, <1>d, <1>q, <1>u DEF ThreadOpens, RunTurn
<1>3. CASE TurnStarted(w)
  BY <1>3, <1>b, <1>d, <1>u DEF TurnStarted
<1>4. CASE TurnCompleted(w)
  <2>1. \A r \in Procs : at'[r] # at[r] => Uses(r, w)
    BY <1>4 DEF TurnCompleted, Released
  <2> QED  BY <1>4, <1>d, <1>u, <2>1 DEF TurnCompleted
<1>5. CASE StartReturns(w)
  BY <1>5, <1>a, <1>d, <1>q, <1>u DEF StartReturns
<1>6. CASE ChildExit(w)
  BY <1>6, <1>b, <1>d, <1>u DEF ChildExit
<1>7. ASSUME NEW p \in Procs, TurnAccepted(p, w) PROVE Confined(w)
  BY <1>7, <1>a, <1>d, <1>u DEF TurnAccepted, AwaitIdle
<1>8. ASSUME NEW p \in Procs, TurnUnsent(p, w) PROVE Confined(w)
  BY <1>8, <1>a, <1>d, <1>u DEF TurnUnsent, Wakes
<1>9. ASSUME NEW m \in Msgs, SteerAccepted(m, w) PROVE Confined(w)
  BY <1>9, <1>e DEF SteerAccepted, Wakes
<1>10. ASSUME NEW m \in Msgs, SteerFallsThrough(m, w) PROVE Confined(w)
  BY <1>10, <1>a, <1>d, <1>q, <1>u DEF SteerFallsThrough, RunTurn, Wakes
<1>11. ASSUME NEW m \in Msgs, WakeReturns(m, w) PROVE Confined(w)
  BY <1>11, <1>e DEF WakeReturns, Wakes
<1>12. CASE ThreadFails(w)
  BY <1>12, <1>a, <1>d, <1>q, <1>u DEF ThreadFails
<1>13. ASSUME NEW p \in Procs, TurnRefused(p, w) PROVE Confined(w)
  BY <1>13, <1>a, <1>d, <1>u DEF TurnRefused, AwaitIdle
<1>14. ASSUME NEW p \in Procs, RecoveryTurn(p, w) PROVE Confined(w)
  BY <1>14, <1>a, <1>d, <1>u DEF RecoveryTurn, RunTurn, Wakes
<1>15. ASSUME NEW p \in Procs, ProtocolError(p, w) PROVE Confined(w)
  BY <1>15, <1>a, <1>d, <1>u DEF ProtocolError, Wakes
<1>16. CASE Close(w)
  <2>1. ~ Unstarted(w)
    BY <1>16 DEF Close, Unstarted
  <2> QED  BY <1>16, <1>b, <1>d, <2>1 DEF Close
<1> QED
  BY <1>1, <1>2, <1>3, <1>4, <1>5, <1>6, <1>7, <1>8, <1>9, <1>10, <1>11, <1>12, <1>13, <1>14,
     <1>15, <1>16 DEF Progress, Mishap

(* It reports the wakes that went through, and nothing else. *)
Reports ==
    \/ appendQ' = appendQ
    \/ \E m \in DOMAIN sent :
          /\ Waking(m) /\ at' = [at EXCEPT ![Queue(m)] = "receipt"]
          /\ AddsEntries(0, {Entry(Queue(m), "delivered", m, "none")})

LEMMA SessionReports ==
    ASSUME TypeInv, NEW w \in Workers, Progress(w) \/ Mishap(w) \/ Detach(w) \/ Close(w)
    PROVE  Reports
<1>0. appendQ \in Seq(EntryType)
  BY DEF TypeInv, TypeOK
<1>a. ASSUME NEW m \in Msgs, Uses(Queue(m), w), Waking(m), WakeDelivered(m, w) PROVE Reports
  <2> DEFINE e == Entry(Queue(m), "delivered", m, "none")
  <2>1. m \in DOMAIN sent
    BY <1>a DEF Uses, Queue, Start
  <2>2. e \in EntryType
    <3>1. Queue(m) \in Procs
      BY DEF Queue, Procs
    <3> QED  BY <3>1, EntryIsTyped DEF Receipts, Reasons
  <2>3. appendQ' = Append(appendQ, e) /\ at' = [at EXCEPT ![Queue(m)] = "receipt"]
    BY <1>a DEF WakeDelivered, Report
  <2> HIDE DEF e
  <2>4. AddsEntries(0, {e})
    BY <1>0, <2>2, <2>3, AppendAddsEntry
  <2> QED  BY <1>a, <2>1, <2>3, <2>4 DEF Reports, e
<1>1. ASSUME NEW m \in Msgs, SteerAccepted(m, w) \/ WakeReturns(m, w) PROVE Reports
  BY <1>1, <1>a DEF SteerAccepted, WakeReturns, Waking
<1>2. CASE UNCHANGED appendQ
  BY <1>2 DEF Reports
<1>3. ASSUME NEW p \in Procs, TurnAccepted(p, w) \/ TurnUnsent(p, w) \/ TurnRefused(p, w)
                              \/ RecoveryTurn(p, w) \/ ProtocolError(p, w)
      PROVE  UNCHANGED appendQ
  BY <1>3 DEF TurnAccepted, TurnUnsent, TurnRefused, RecoveryTurn, ProtocolError
<1>4. ASSUME \/ StartSession(w) \/ ThreadOpens(w) \/ TurnStarted(w) \/ TurnCompleted(w)
             \/ StartReturns(w) \/ ChildExit(w) \/ ThreadFails(w) \/ Detach(w) \/ Close(w)
             \/ \E m \in Msgs : SteerFallsThrough(m, w)
      PROVE  UNCHANGED appendQ
  BY <1>4 DEF StartSession, ThreadOpens, TurnStarted, TurnCompleted, StartReturns, ChildExit,
              ThreadFails, Detach, Close, SteerFallsThrough
<1> QED  BY <1>1, <1>2, <1>3, <1>4 DEF Progress, Mishap

LEMMA SessionFinalInv ==
    ASSUME TypeInv, TypeInv', FinalInv,
           NEW w \in Workers, Progress(w) \/ Mishap(w) \/ Detach(w) \/ Close(w)
    PROVE  FinalInv'
<1>0. /\ appendQ \in Seq(EntryType) /\ appendQ' \in Seq(EntryType)
      /\ at \in [Procs -> Places] /\ attached \subseteq Workers
  BY DEF TypeInv, TypeOK
<1>s. \A m \in DOMAIN sent : m \in Msgs /\ sent[m].to \in Workers
  BY SentIsTyped
<1>e. \A i \in DOMAIN appendQ : appendQ[i].by \in Procs
  <2>1. \A i \in DOMAIN appendQ : appendQ[i] \in EntryType
    BY <1>0, ElementOfSeq, LenProperties
  <2> QED  BY <2>1 DEF EntryType
<1>1. /\ UNCHANGED <<sent, journal, rest>>
      /\ \A m \in Msgs : Waking(m)' => Waking(m)
  BY SessionKeepsRecord DEF KeepsRecord
<1>2. /\ \A v \in Workers : at'[Attach(v)] = at[Attach(v)]
      /\ attached' \subseteq attached /\ thread \subseteq thread'
      /\ \A v \in Workers : Unstarted(v)' =>
            /\ Unstarted(v) /\ followUps'[v] = followUps[v] /\ at'[Start(v)] = at[Start(v)]
            /\ v \in thread' => v \in thread
            /\ v \in alive' => v \in alive
      /\ \A v \in Workers : Unstarted(v) /\ at[Attach(v)] # "done" => Unstarted(v)'
  <2>1. CASE Detach(w)
    BY <2>1 DEF Detach, procVars, runtimeVars, childVars, Unstarted
  <2>2. CASE Progress(w) \/ Mishap(w) \/ Close(w)
    <3>1. Confined(w)
      BY <2>2, SessionConfined
    <3>2. \A v \in Workers : /\ Attach(v) \in Procs /\ ~ Uses(Attach(v), w)
                             /\ Start(v) \in Procs /\ (Uses(Start(v), w) => v = w)
      BY DEF Attach, Start, Uses, Procs, Loops
    <3> QED  BY <3>1, <3>2 DEF Confined, Unstarted
  <2> QED  BY <2>1, <2>2
<1>3. Rests'
  BY <1>1 DEF FinalInv, Rests
<1>4. Sessions'
  BY <1>0, <1>2 DEF FinalInv, Sessions
<1>5. CASE appendQ' = appendQ
  <2>1. Callers'
    <3>1. \A r \in Procs : r[1] = "attach" => \E v \in Workers : r = Attach(v)
      BY DEF Attach, Queue, Procs, Loops, Settle
    <3>2. \A i \in DOMAIN appendQ :
              appendQ[i].by[1] = "attach" => at'[appendQ[i].by] = at[appendQ[i].by]
      BY <1>2, <1>e, <3>1
    <3> QED  BY <1>5, <3>2 DEF FinalInv, Callers, Waits
  <2>2. Agreed'
    <3>1. \A m \in Msgs : \A k : Said(m, k)' => Said(m, k)
      BY <1>1, <1>5 DEF Said, Entered
    <3>2. \A m \in DOMAIN sent : Waking(m)' => Untold(m)' /\ sent[m].to \in thread'
      BY <1>1, <1>2, <1>s, <3>1 DEF FinalInv, Agreed, Untold
    <3>3. PICK E : E = {}
      OBVIOUS
    <3>4. \A m \in Msgs : \A k \in Receipts :
              Said(m, k)' => Said(m, k) \/ \E e \in E : e.msg = m /\ e.kind = k
      BY <3>1
    <3>5. \A e \in E :
              /\ \A f \in E : f = e
              /\ \A k \in Receipts : Said(e.msg, k) => e.kind = k
              /\ Unstarted(sent[e.msg].to) => e.kind = First(e.msg)
      BY <3>3
    <3> QED  BY <1>1, <1>2, <1>s, <3>2, <3>4, <3>5, AgreedStays DEF FinalInv
  <2> QED  BY <1>3, <1>4, <2>1, <2>2 DEF FinalInv
<1>6. ASSUME NEW m \in DOMAIN sent, Waking(m), at' = [at EXCEPT ![Queue(m)] = "receipt"],
             AddsEntries(0, {Entry(Queue(m), "delivered", m, "none")})
      PROVE  FinalInv'
  <2> DEFINE e == Entry(Queue(m), "delivered", m, "none")
  <2>1. e.by = Queue(m) /\ e.kind = "delivered" /\ e.msg = m /\ AddsEntries(0, {e})
    BY <1>6 DEF Entry
  <2> HIDE DEF e
  <2>2. \A n \in Msgs : Queue(n) \in Procs /\ (Queue(n) = Queue(m) => n = m)
    BY DEF Queue, Procs
  <2>3. ~ Waking(m)' /\ m \in Msgs
    BY <1>0, <1>6, <1>s, <2>2 DEF Waking
  <2>4. Callers'
    <3>1. PICK k \in {0, 1} : k = 0
      OBVIOUS
    <3>2. \A i \in DOMAIN appendQ :
              appendQ[i].by[1] = "attach" => at'[appendQ[i].by] = at[appendQ[i].by]
      <4>1. Queue(m)[1] = "queue"
        BY DEF Queue
      <4> QED  BY <1>0, <1>6, <1>e, <4>1
    <3>3. Waits(e, at') /\ e.by[1] # "attach"
      BY <2>1 DEF Waits, Queue
    <3>4. AddsEntries(k, {e}) /\ Callers
      BY <2>1, <3>1 DEF FinalInv
    <3> QED  BY <1>0, <3>2, <3>3, <3>4, CallersStay
  <2>5. Agreed'
    <3>1. \A n \in Msgs : \A k \in Receipts :
              Said(n, k)' => Said(n, k) \/ \E f \in {e} : f.msg = n /\ f.kind = k
      <4>1. \A n \in Msgs : \A k \in Receipts :
                Entered(n, k)' => Entered(n, k) \/ \E f \in {e} : f.kind = k /\ f.msg = n
        BY <2>1, EntersOnly
      <4> QED  BY <1>1, <4>1 DEF Said
    <3>2. Untold(m) /\ sent[m].to \in thread
      BY <1>6 DEF FinalInv, Agreed
    <3>3. \A n \in DOMAIN sent : Waking(n)' => Untold(n)' /\ sent[n].to \in thread'
      <4> SUFFICES ASSUME NEW n \in DOMAIN sent, Waking(n)' PROVE Untold(n)' /\ sent[n].to \in thread'
        OBVIOUS
      <4>1. n # m /\ n \in Msgs /\ Waking(n)
        BY <1>1, <1>s, <2>3
      <4>2. Untold(n) /\ sent[n].to \in thread
        BY <4>1 DEF FinalInv, Agreed
      <4> QED  BY <1>2, <2>1, <3>1, <4>1, <4>2 DEF Untold
    <3>4. ~ Unstarted(sent[m].to)
      BY <1>s, <3>2 DEF FinalInv, Sessions
    <3>5. PICK E : E = {e}
      OBVIOUS
    <3>6. \A f \in E :
              /\ \A g \in E : g = f
              /\ \A k \in Receipts : Said(f.msg, k) => f.kind = k
              /\ Unstarted(sent[f.msg].to) => f.kind = First(f.msg)
      BY <2>1, <3>2, <3>4, <3>5 DEF Untold
    <3> QED  BY <1>1, <1>2, <1>s, <3>1, <3>3, <3>5, <3>6, AgreedStays DEF FinalInv
  <2> QED  BY <1>3, <1>4, <2>4, <2>5 DEF FinalInv
<1> QED  BY <1>5, <1>6, SessionReports DEF Reports

LEMMA InitFinalInv == Init => FinalInv
<1> SUFFICES ASSUME Init PROVE FinalInv
  OBVIOUS
<1>1. DOMAIN appendQ = {} /\ DOMAIN sent = {}
  BY EmptySeq DEF Init
<1>2. \A w \in Workers : Attach(w) \in Loops /\ Attach(w) \in Procs /\ Start(w) \in Procs
  BY DEF Attach, Start, Loops, Procs
<1>3. Callers /\ Rests
  BY <1>1, <1>2 DEF Init, Callers, Rests, Settle, Loops
<1>4. Sessions
  BY <1>2 DEF Init, Sessions, Unstarted
<1>5. Agreed
  BY <1>1 DEF Init, Agreed, Said, Entered
<1> QED  BY <1>3, <1>4, <1>5 DEF FinalInv

LEMMA NextFinalInv ==
    TypeInv /\ TypeInv' /\ RecordedInv /\ OnceInv /\ FinalInv /\ [Next]_vars => FinalInv'
<1> SUFFICES ASSUME TypeInv, TypeInv', RecordedInv, OnceInv, FinalInv, [Next]_vars
             PROVE  FinalInv'
  OBVIOUS
<1>1. CASE UNCHANGED vars
  BY <1>1 DEF vars, logVars, teamVars, procVars, runtimeVars, childVars, FinalInv, Callers, Waits,
     Rests, Sessions, Agreed, Unstarted, Untold, Said, Entered, First, IsWakeup, Waking
<1> QED
  BY <1>1, WriteFinalInv, QueueStepFinalInv, SessionFinalInv DEF Next

LEMMA FinalInvAlways == Spec => []FinalInv
  BY InitFinalInv, NextFinalInv, TypeInvAlways, RecordedInvAlways, OnceInvAlways, PTL DEF Spec

(* What one step does to a receipt that is written: it stays. *)
LEMMA ReceiptsStay ==
    TypeInv /\ TypeInv' /\ RecordedInv /\ OnceInv /\ FinalInv /\ [Next]_vars
        => \A m \in Msgs : journal[m] \in Receipts => journal'[m] = journal[m]
<1> SUFFICES ASSUME TypeInv, TypeInv', RecordedInv, OnceInv, FinalInv, [Next]_vars,
                    NEW m \in Msgs, journal[m] \in Receipts
             PROVE  journal'[m] = journal[m]
  OBVIOUS
<1>0. journal \in [Msgs -> {"none", "queued"} \cup Receipts]
  BY DEF TypeInv, TypeOK
<1> DEFINE e == Head(appendQ)
<1>1. CASE WriteQueued
  <2>1. journal' = [journal EXCEPT ![e.msg] = "queued"] /\ appendQ # <<>> /\ e.kind = "queued"
    BY <1>1 DEF WriteQueued, Head1
  <2>2. 1 \in DOMAIN appendQ /\ e = appendQ[1]
    BY <2>1, FirstEntry
  <2>3. journal[e.msg] = "none"
    BY <2>1, <2>2 DEF OnceInv
  <2> QED  BY <1>0, <2>1, <2>3 DEF Receipts
<1>2. CASE WriteReceipt
  <2>1. journal' = [journal EXCEPT ![e.msg] = e.kind] /\ appendQ # <<>> /\ e.kind \in Receipts
    BY <1>2 DEF WriteReceipt, Head1
  <2>2. 1 \in DOMAIN appendQ /\ e = appendQ[1]
    BY <2>1, FirstEntry
  <2>3. Said(e.msg, e.kind)
    BY <2>2 DEF Said, Entered
  <2>4. e.msg = m => journal[m] = e.kind
    BY <2>1, <2>3 DEF FinalInv, Agreed, Said, Receipts
  <2> QED  BY <1>0, <2>1, <2>4
<1>3. CASE UNCHANGED journal
  BY <1>3
<1>4. ASSUME NEW w \in Workers, Progress(w) \/ Mishap(w) \/ Detach(w) \/ Close(w)
      PROVE  UNCHANGED journal
  BY <1>4, SessionKeepsRecord DEF KeepsRecord
<1>5. ASSUME WriteRuntimeChanged \/ AppendFails \/ SettleQuiet
             \/ (\E t \in Traffic : Submit(t)) \/ \E w \in Workers : AttachWorker(w)
      PROVE  UNCHANGED journal
  BY <1>5 DEF WriteRuntimeChanged, AppendFails, SettleQuiet, Submit, AttachWorker, logVars
<1>6. CASE UNCHANGED vars
  BY <1>6 DEF vars, logVars
<1> QED  BY <1>1, <1>2, <1>3, <1>4, <1>5, <1>6 DEF Next, Write

(* No step rewrites a receipt: not a redelivery by attach(), not a wake that
   ends late, not the settling of a run. *)
THEOREM ReceiptsStand == Spec => ReceiptsAreFinal
<1>1. TypeInv /\ TypeInv' /\ RecordedInv /\ OnceInv /\ FinalInv /\ [Next]_vars
          => [\A m \in Msgs :
                 journal[m] \in Receipts /\ journal'[m] # journal[m] =>
                     journal'[m] = "undeliverable" /\ reason'[m] = "NO_FURTHER_TURN"]_vars
  BY ReceiptsStay
<1> QED
  BY <1>1, TypeInvAlways, RecordedInvAlways, OnceInvAlways, FinalInvAlways, PTL
     DEF Spec, ReceiptsAreFinal

-----------------------------------------------------------------------------
(* Receipts are true.                                                      *)

(* Process p carries its input to w's app-server. *)
Carrying(p, w) == Uses(p, w) /\ at[p] \in {"steer", "turnStart"}

(* What was said to be delivered, or is on its way, has reached the runtime;
   without faults a runtime that has not been closed keeps its child, and what
   it framed is carried to the child or has been handed over. *)
TruthInv ==
    /\ \A m \in DOMAIN sent :
          Said(m, "delivered") => m \in seen[sent[m].to] \/ quiet[sent[m].to][m] > 0
    /\ \A m \in DOMAIN sent : Waking(m) => m \in seen[sent[m].to]
    /\ faults = 0 =>
          \A w \in Workers \ closing :
             /\ ~ Unstarted(w) => w \in alive
             /\ \A m \in seen[w] :
                   m \in handed \/ \E p \in Procs : Carrying(p, w) /\ input[p][m] > 0

(* A step carries on what is carried to w's app-server, or hands it over. *)
CarriesOn(w) ==
    /\ \A p \in Procs : Carrying(p, w) =>
          (Carrying(p, w)' /\ input'[p] = input[p]) \/ Noted(input[p]) \subseteq handed'
    /\ \A m \in seen'[w] : m \in seen[w] \/ \E p \in Procs : Carrying(p, w)' /\ input'[p][m] > 0

(* A step whose receipts are true. *)
TellsTruth ==
    /\ \A w \in Workers : seen[w] \subseteq seen'[w]
    /\ \A w \in Workers : \A n \in Msgs : quiet[w][n] > 0 => KeptFor(n, w)
    /\ \A n \in DOMAIN sent : n \in DOMAIN sent' /\ sent'[n] = sent[n]
    /\ \A n \in DOMAIN sent' : Said(n, "delivered")' =>
          (n \in DOMAIN sent /\ Said(n, "delivered")) \/ KeptFor(n, sent'[n].to)
    /\ \A n \in DOMAIN sent' : Waking(n)' =>
          (n \in DOMAIN sent /\ Waking(n)) \/ n \in seen'[sent'[n].to]
    /\ handed \subseteq handed'
    /\ faults' = 0 =>
          /\ faults = 0
          /\ \A w \in Workers \ closing' :
                w \notin closing /\ CarriesOn(w) /\ (~ Unstarted(w)' => w \in alive')

LEMMA TruthStays ==
    ASSUME TypeInv, TypeInv', TruthInv, TellsTruth
    PROVE  TruthInv'
<1>s. /\ \A m \in DOMAIN sent : m \in Msgs /\ sent[m].to \in Workers
      /\ seen \in [Workers -> SUBSET Msgs]
  BY SentIsTyped DEF TypeInv, TypeOK
<1>1. \A m \in DOMAIN sent' : Said(m, "delivered")' =>
          m \in seen'[sent'[m].to] \/ quiet'[sent'[m].to][m] > 0
  BY <1>s DEF TruthInv, TellsTruth, KeptFor
<1>2. \A m \in DOMAIN sent' : Waking(m)' => m \in seen'[sent'[m].to]
  BY <1>s DEF TruthInv, TellsTruth
<1>3. ASSUME faults' = 0, NEW w \in Workers \ closing', NEW m \in seen'[w]
      PROVE  m \in handed' \/ \E p \in Procs : Carrying(p, w)' /\ input'[p][m] > 0
  <2>1. CarriesOn(w) /\ w \notin closing /\ faults = 0 /\ handed \subseteq handed'
    BY <1>3 DEF TellsTruth
  <2>2. CASE m \notin seen[w]
    BY <1>3, <2>1, <2>2 DEF CarriesOn
  <2>3. CASE m \in seen[w] /\ m \notin handed
    <3>1. PICK p \in Procs : Carrying(p, w) /\ input[p][m] > 0
      BY <2>1, <2>3 DEF TruthInv
    <3>2. m \in Noted(input[p])
      BY <1>s, <2>3, <3>1 DEF Noted
    <3> QED  BY <2>1, <3>1, <3>2 DEF CarriesOn
  <2> QED  BY <2>1, <2>2, <2>3
<1>4. faults' = 0 => \A w \in Workers \ closing' : ~ Unstarted(w)' => w \in alive'
  BY DEF TellsTruth
<1> QED  BY <1>1, <1>2, <1>3, <1>4 DEF TruthInv

(* A call that carries nothing, and takes no input. *)
LEMMA CallCarriesOn ==
    ASSUME UNCHANGED <<input, seen>>, \A n \in DOMAIN sent : n \in DOMAIN sent' /\ sent'[n] = sent[n],
           NEW w \in Workers, \A p \in Procs : Carrying(p, w) => at'[p] = at[p]
    PROVE  CarriesOn(w)
  BY DEF CarriesOn, Carrying, Uses

(* A call that takes its session's notes as input, to carry them. *)
LEMMA InputCarriesOn ==
    ASSUME TypeOK, NEW p \in Procs, NEW w \in Workers, NEW extra \in SUBSET Msgs,
           TakeInput(p, w, extra), Uses(p, w), at[p] \notin {"steer", "turnStart"},
           NEW x \in {"steer", "turnStart"}, at' = [at EXCEPT ![p] = x], UNCHANGED sent
    PROVE  \A v \in Workers : CarriesOn(v)
<1>0. at \in [Procs -> Places]
  BY DEF TypeOK
<1>1. /\ \A v \in Workers : v # w => seen'[v] = seen[v]
      /\ \A n \in seen'[w] : n \in seen[w] \/ input'[p][n] > 0
      /\ \A r \in Procs : r # p => input'[r] = input[r]
  BY InputIsSeen
<1>2. Carrying(p, w)'
  BY <1>0 DEF Carrying, Uses
<1>3. \A r \in Procs : r # p => at'[r] = at[r]
  BY <1>0
<1>4. \A v \in Workers : \A r \in Procs :
          Carrying(r, v) => Carrying(r, v)' /\ input'[r] = input[r]
  BY <1>1, <1>3 DEF Carrying, Uses
<1> QED  BY <1>1, <1>2, <1>4 DEF CarriesOn

LEMMA DeliverCarriesOn ==
    ASSUME TypeOK, NEW p \in Procs, NEW m \in Msgs, m \in DOMAIN sent, NEW d, Deliver(p, m, d),
           p = Queue(m) \/ Unstarted(sent[m].to), at[p] \notin {"steer", "turnStart"},
           UNCHANGED sent
    PROVE  /\ \A v \in Workers : CarriesOn(v)
           /\ \A v \in Workers : /\ seen[v] \subseteq seen'[v]
                                 /\ \A n \in Msgs : quiet[v][n] > 0 => KeptFor(n, v)
<1>0. at \in [Procs -> Places] /\ quiet \in [Workers -> [Msgs -> Nat]]
  BY DEF TypeOK
<1>1. CASE DeliverNobody(p, m) \/ DeliverRefused(p, m) \/ DeliverClosed(p, m) \/ DeliverHeld(p, m, d)
  <2>1. /\ UNCHANGED <<input, seen>> /\ \E x : at' = [at EXCEPT ![p] = x]
    BY <1>1 DEF DeliverNobody, DeliverRefused, DeliverClosed, DeliverHeld, NoDelivery, Report
  <2>2. \A r \in Procs : at[r] \in {"steer", "turnStart"} => at'[r] = at[r]
    BY <1>0, <2>1
  <2>3. \A v \in Workers : \A n \in Msgs : quiet[v][n] > 0 => quiet'[v][n] > 0
    <3>1. CASE UNCHANGED quiet
      BY <3>1
    <3>2. CASE DeliverHeld(p, m, d)
      <4>1. sent[m].to \in Workers /\ Hold(sent[m].to, m)
        BY <3>2 DEF DeliverHeld, TypeOK
      <4> QED  BY <1>0, <4>1, HoldKeeps
    <3> QED  BY <1>1, <3>1, <3>2 DEF DeliverNobody, DeliverRefused, DeliverClosed, NoDelivery
  <2> QED  BY <2>1, <2>2, <2>3, CallCarriesOn DEF KeptFor, Carrying
<1>2. CASE DeliverWoken(p, m, d)
  <2> DEFINE w == sent[m].to
  <2>1. TakeInput(p, w, {m}) /\ w \in Workers /\ {m} \in SUBSET Msgs /\ Asks(m, d) = "wake"
    BY <1>2 DEF DeliverWoken, TypeOK
  <2>2. p = Queue(m)
    BY <2>1 DEF Asks, Unstarted
  <2>3. Uses(p, w)
    BY <2>2 DEF Uses, Queue
  <2>4. PICK x \in {"steer", "turnStart"} : at' = [at EXCEPT ![p] = x]
    BY <1>2 DEF DeliverWoken, RunTurn
  <2> HIDE DEF w
  <2>5. \A v \in Workers : CarriesOn(v)
    BY <2>1, <2>3, <2>4, InputCarriesOn
  <2> QED  BY <2>1, <2>5, InputIsSeen
<1> QED  BY <1>1, <1>2, Zenon DEF Deliver

(* No call that waits for the disk is waking anyone. *)
LEMMA CallersAreAwake ==
    ASSUME TypeInv, RecordedInv, OnceInv, FinalInv, appendQ # <<>>
    PROVE  /\ Head(appendQ).by \in Procs
           /\ at[Head(appendQ).by] \notin {"steer", "turnStart"}
           /\ Head(appendQ).by[1] = "queue" => at[Head(appendQ).by] \notin Wakes
<1> DEFINE e == Head(appendQ)
<1>1. /\ e.by \in Procs /\ 1 \in DOMAIN appendQ /\ e = appendQ[1]
      /\ e.kind \in Receipts \cup {"queued", "runtime_changed"}
      /\ e.kind = "queued" => e.msg \in Msgs
      /\ e.kind = "runtime_changed" => e.by[1] = "attach"
  BY FirstEntry
<1>2. /\ e.by[1] \in {"attach", "queue"}
      /\ e.by[1] = "attach" => at[e.by] \in {"append", "receipt"}
      /\ e.by[1] = "queue" => e.by = Queue(e.msg)
  BY <1>1 DEF FinalInv, Callers, Waits
<1> HIDE DEF e
<1>3. ASSUME e.by[1] = "queue" PROVE at[e.by] \notin Wakes
  <2>1. e.by = Queue(e.msg) /\ e.msg \in Msgs
    <3>1. e.kind \in Receipts \cup {"queued"}
      BY <1>1, <1>3
    <3>2. e.kind \in Receipts => e.msg \in Msgs
      BY <1>1 DEF RecordedInv, Recorded
    <3> QED  BY <1>1, <1>2, <1>3, <3>1, <3>2
  <2> SUFFICES ASSUME Waking(e.msg) PROVE FALSE
    BY <2>1 DEF Waking, Wakes
  <2>2. journal[e.msg] # "none"
    BY <2>1 DEF RecordedInv, Recorded
  <2>3. e.kind \in Receipts
    BY <1>1, <1>3, <2>2 DEF OnceInv
  <2>4. e.msg \in DOMAIN sent /\ Said(e.msg, e.kind)
    BY <1>1, <2>1, <2>2 DEF OnceInv, Said, Entered
  <2> QED  BY <2>3, <2>4 DEF FinalInv, Agreed, Untold
<1> QED  BY <1>1, <1>2, <1>3 DEF Wakes, e

(* A call goes on, when its entry is written or has failed. *)
LEMMA CallTellsTruth ==
    ASSUME TypeInv, FinalInv, TruthInv, NEW p \in Procs, NEW x, NEW E,
           at' = [at EXCEPT ![p] = x], AddsEntries(1, E),
           \A e \in E : e.kind = "delivered" => KeptFor(e.msg, sent[e.msg].to),
           x \in Wakes => \E m \in DOMAIN sent : p = Queue(m) /\ m \in seen'[sent[m].to],
           \A v \in Workers : CarriesOn(v),
           \A v \in Workers : /\ seen[v] \subseteq seen'[v]
                              /\ \A n \in Msgs : quiet[v][n] > 0 => KeptFor(n, v),
           LeavesUnstarted, UNCHANGED <<sent, handed, closing, alive>>,
           faults' = 0 => faults = 0,
           \A n \in Msgs : \A k \in Receipts : journal'[n] = k => Said(n, k)
    PROVE  TellsTruth
<1>0. at \in [Procs -> Places] /\ \A m \in DOMAIN sent : m \in Msgs /\ sent[m].to \in Workers
  BY SentIsTyped DEF TypeInv, TypeOK
<1>q. \A m \in Msgs : Queue(m) \in Procs /\ \A n \in Msgs : Queue(m) = Queue(n) => m = n
  BY DEF Queue, Procs
<1>1. \A n \in DOMAIN sent : Said(n, "delivered")' =>
          Said(n, "delivered") \/ KeptFor(n, sent[n].to)
  <2>1. ASSUME NEW n \in DOMAIN sent, Entered(n, "delivered")'
        PROVE  Said(n, "delivered") \/ KeptFor(n, sent[n].to)
    <3>1. Entered(n, "delivered") \/ \E e \in E : e.kind = "delivered" /\ e.msg = n
      BY <2>1, EntersOnly
    <3> QED  BY <3>1 DEF Said
  <2> QED  BY <1>0, <2>1 DEF Said, Receipts
<1>2. \A n \in DOMAIN sent : Waking(n)' => Waking(n) \/ n \in seen'[sent[n].to]
  <2> SUFFICES ASSUME NEW n \in DOMAIN sent, Waking(n)'
               PROVE  Waking(n) \/ n \in seen'[sent[n].to]
    OBVIOUS
  <2>1. CASE p = Queue(n)
    <3>1. x \in Wakes
      BY <1>0, <1>q, <2>1 DEF Waking, Wakes
    <3> QED  BY <1>0, <1>q, <2>1, <3>1
  <2>2. CASE p # Queue(n)
    BY <1>0, <1>q, <2>2 DEF Waking
  <2> QED  BY <2>1, <2>2
<1>3. faults' = 0 => \A v \in Workers \ closing : ~ Unstarted(v)' => v \in alive
  BY DEF TruthInv, LeavesUnstarted
<1> QED  BY <1>1, <1>2, <1>3 DEF TellsTruth

(* It returns or throws. *)
LEMMA EndTellsTruth ==
    ASSUME TypeInv, RecordedInv, OnceInv, FinalInv, TruthInv, appendQ # <<>>,
           NEW p \in Procs, p = Head(appendQ).by, NEW x \in {"done", "failed"},
           at' = [at EXCEPT ![p] = x], appendQ' = Backlog,
           UNCHANGED <<input, state, quiet, seen, followUps, sent, handed, closing, alive>>,
           faults' = 0 => faults = 0,
           \A n \in Msgs : \A k \in Receipts : journal'[n] = k => Said(n, k)
    PROVE  TellsTruth
<1>1. at[p] \notin {"steer", "turnStart"}
  BY CallersAreAwake
<1>2. \A r \in Procs : at[r] \in {"steer", "turnStart"} => at'[r] = at[r]
  BY <1>1 DEF TypeInv, TypeOK
<1>3. \A v \in Workers : CarriesOn(v)
  BY <1>2, CallCarriesOn DEF Carrying
<1>4. PICK E : E = {}
  OBVIOUS
<1>5. AddsEntries(1, E)
  BY BacklogAddsNone DEF TypeInv, TypeOK
<1>6. LeavesUnstarted /\ x \notin Wakes
  BY DEF LeavesUnstarted, Unstarted, Wakes
<1>7. \A v \in Workers : /\ seen[v] \subseteq seen'[v]
                         /\ \A n \in Msgs : quiet[v][n] > 0 => KeptFor(n, v)
  BY DEF KeptFor
<1>8. \A e \in E : e.kind = "delivered" => KeptFor(e.msg, sent[e.msg].to)
  BY <1>4
<1>9. x \in Wakes => \E m \in DOMAIN sent : p = Queue(m) /\ m \in seen'[sent[m].to]
  BY <1>6
<1> QED  BY <1>3, <1>5, <1>6, <1>7, <1>8, <1>9, CallTellsTruth

(* It delivers a message. *)
LEMMA DeliveryTellsTruth ==
    ASSUME TypeInv, RecordedInv, OnceInv, FinalInv, TruthInv, appendQ # <<>>,
           NEW p \in Procs, p = Head(appendQ).by, NEW m \in Msgs, m \in DOMAIN sent,
           p = Queue(m) \/ Unstarted(sent[m].to), NEW d, Deliver(p, m, d),
           UNCHANGED <<sent, handed, closing, alive, faults>>,
           \A n \in Msgs : \A k \in Receipts : journal'[n] = k => Said(n, k)
    PROVE  TellsTruth
<1>1. at[p] \notin {"steer", "turnStart"} /\ TypeOK
  BY CallersAreAwake DEF TypeInv
<1>2. /\ \A v \in Workers : CarriesOn(v)
      /\ \A v \in Workers : /\ seen[v] \subseteq seen'[v]
                            /\ \A n \in Msgs : quiet[v][n] > 0 => KeptFor(n, v)
  BY <1>1, DeliverCarriesOn
<1>3. LeavesUnstarted /\ \E x, E : Told(p, m, x, E)
  BY <1>1, DeliverTells
<1>4. PICK x, E : Told(p, m, x, E)
  BY <1>3
<1>5. /\ at' = [at EXCEPT ![p] = x] /\ AddsEntries(1, E)
      /\ \A e \in E : e.kind = "delivered" => KeptFor(e.msg, sent[e.msg].to)
  BY <1>4 DEF Told
<1>6. x \in Wakes => \E n \in DOMAIN sent : p = Queue(n) /\ n \in seen'[sent[n].to]
  BY <1>4 DEF Told, Wakes
<1> QED  BY <1>2, <1>3, <1>5, <1>6, CallTellsTruth

LEMMA WriteTellsTruth ==
    ASSUME TypeInv, RecordedInv, OnceInv, FinalInv, TruthInv, Write
    PROVE  TellsTruth
<1> DEFINE e == Head(appendQ)
<1>0. /\ appendQ # <<>> /\ TypeOK
      /\ journal \in [Msgs -> {"none", "queued"} \cup Receipts]
      /\ rest \in [Loops -> SUBSET Msgs]
  BY DEF Write, WriteQueued, WriteRuntimeChanged, WriteReceipt, Head1, TypeInv, TypeOK
<1>1. /\ e.by \in Procs /\ 1 \in DOMAIN appendQ /\ e = appendQ[1]
      /\ e.kind = "queued" => e.msg \in Msgs /\ e.msg \in DOMAIN sent /\ e.by = Queue(e.msg)
      /\ e.kind = "runtime_changed" => e.by[1] = "attach"
  BY <1>0, FirstEntry
<1>u. UNCHANGED <<sent, handed, closing, alive, faults>>
  BY DEF Write, WriteQueued, WriteRuntimeChanged, WriteReceipt, childVars
<1>s. \A m \in DOMAIN sent : m \in Msgs /\ sent[m].to \in Workers
  BY SentIsTyped
<1>a. \A r \in Procs : r[1] = "attach" => \E v \in Workers : r = Attach(v)
  BY DEF Attach, Queue, Procs, Loops, Settle
<1>w. /\ e.by[1] \in {"attach", "queue"}
      /\ e.by[1] = "attach" => at[e.by] \in {"append", "receipt"}
  BY <1>1 DEF FinalInv, Callers, Waits
<1>b. ASSUME NEW p \in Procs, p = e.by, LoopEnds(p),
             \A n \in Msgs : \A k \in Receipts : journal'[n] = k => Said(n, k)
      PROVE  TellsTruth
  <2>1. /\ "done" \in {"done", "failed"} /\ at' = [at EXCEPT ![p] = "done"] /\ appendQ' = Backlog
        /\ UNCHANGED <<input, state, quiet, seen, followUps>> /\ (faults' = 0 => faults = 0)
    BY <1>b, <1>u DEF LoopEnds, NoDelivery
  <2> QED  BY <1>0, <1>b, <1>u, <2>1, EndTellsTruth
<1>c. ASSUME NEW w \in Workers, e.by = Attach(w), NEW todo \in SUBSET Msgs,
             \A m \in todo : m \in DOMAIN sent /\ sent[m].to = w, AttachStep(e.by, todo),
             \A n \in Msgs : \A k \in Receipts : journal'[n] = k => Said(n, k)
      PROVE  TellsTruth
  <2>1. CASE todo = {}
    BY <1>1, <1>b, <1>c, <2>1 DEF AttachStep
  <2>2. CASE todo # {}
    <3>1. PICK m \in todo : Deliver(e.by, m, det)
      BY <1>c, <2>2 DEF AttachStep
    <3>2. Unstarted(sent[m].to) /\ m \in DOMAIN sent /\ m \in Msgs
      <4>1. at[Attach(w)] \in {"append", "receipt"}
        BY <1>c, <1>w DEF Attach
      <4> QED  BY <1>c, <3>1, <4>1 DEF FinalInv, Sessions
    <3> QED  BY <1>0, <1>1, <1>c, <1>u, <3>1, <3>2, DeliveryTellsTruth
  <2> QED  BY <2>1, <2>2
<1>3. CASE WriteQueued
  <2>1. PICK d : Deliver(e.by, e.msg, d)
    BY <1>3 DEF WriteQueued
  <2>2. /\ e.msg \in Msgs /\ e.msg \in DOMAIN sent /\ e.by = Queue(e.msg)
        /\ journal' = [journal EXCEPT ![e.msg] = "queued"]
    BY <1>1, <1>3 DEF WriteQueued, Head1
  <2>3. \A n \in Msgs : \A k \in Receipts : journal'[n] = k => Said(n, k)
    BY <1>0, <2>2 DEF Said, Receipts
  <2> DEFINE p == e.by
             m == e.msg
  <2>4. Deliver(p, m, d) /\ p \in Procs /\ p = Head(appendQ).by /\ p = Queue(m)
        /\ m \in Msgs /\ m \in DOMAIN sent
    BY <1>1, <2>1, <2>2
  <2> HIDE DEF p, m, e
  <2> QED  BY <1>0, <1>u, <2>3, <2>4, DeliveryTellsTruth
<1>4. CASE WriteRuntimeChanged
  <2>1. PICK w \in Workers : e.by = Attach(w)
    BY <1>1, <1>4, <1>a DEF WriteRuntimeChanged, Head1
  <2> DEFINE todo == {m \in Pending : sent[m].to = w}
  <2>2. AttachStep(e.by, todo) /\ journal' = journal
    <3>1. e.by[2] = w
      BY <2>1 DEF Attach
    <3> QED  BY <1>4, <2>1, <3>1 DEF WriteRuntimeChanged, logVars
  <2>3. todo \in SUBSET Msgs /\ \A m \in todo : m \in DOMAIN sent /\ sent[m].to = w
    BY DEF Pending, OnceInv
  <2>4. \A n \in Msgs : \A k \in Receipts : journal'[n] = k => Said(n, k)
    BY <2>2 DEF Said
  <2> HIDE DEF todo
  <2> QED  BY <1>c, <2>1, <2>2, <2>3, <2>4
<1>5. CASE WriteReceipt
  <2>1. Continues(e.by) /\ e.kind \in Receipts
        /\ journal' = [journal EXCEPT ![e.msg] = e.kind]
    <3>1. Continues(e.by)
      BY <1>5, Zenon DEF WriteReceipt, Continues
    <3> QED  BY <1>5, <3>1, Zenon DEF WriteReceipt, Head1
  <2>2. \A n \in Msgs : \A k \in Receipts : journal'[n] = k => Said(n, k)
    BY <1>0, <1>1, <2>1 DEF Said, Entered
  <2>4. CASE e.by[1] = "attach"
    <3>1. PICK w \in Workers : e.by = Attach(w)
      BY <1>1, <1>a, <2>4
    <3> DEFINE todo == rest[Attach(w)]
    <3>3. todo \in SUBSET Msgs /\ \A m \in todo : m \in DOMAIN sent /\ sent[m].to = w
      <4>1. Attach(w) \in Loops
        BY DEF Attach, Loops
      <4> QED  BY <1>0, <4>1 DEF FinalInv, Rests
    <3>4. AttachStep(e.by, todo)
      BY <2>1, <2>4, <3>1 DEF Continues
    <3> HIDE DEF todo
    <3> QED  BY <1>c, <2>2, <3>1, <3>3, <3>4
  <2>5. CASE e.by[1] = "queue"
    BY <1>1, <1>b, <2>1, <2>2, <2>5 DEF Continues
  <2> QED  BY <1>w, <2>4, <2>5
<1> QED BY <1>3, <1>4, <1>5 DEF Write

LEMMA QueueStepTellsTruth ==
    ASSUME TypeInv, RecordedInv, OnceInv, FinalInv, TruthInv
    PROVE  /\ \A t \in Traffic : Submit(t) => TellsTruth
           /\ \A w \in Workers : AttachWorker(w) => TellsTruth
           /\ AppendFails => TellsTruth
           /\ SettleQuiet => TellsTruth
<1>0. /\ TypeOK /\ appendQ \in Seq(EntryType) /\ sent \in Seq(Traffic) /\ at \in [Procs -> Places]
      /\ journal \in [Msgs -> {"none", "queued"} \cup Receipts]
  BY DEF TypeInv, TypeOK
<1>s. \A m \in DOMAIN sent : m \in Msgs /\ sent[m].to \in Workers
  BY SentIsTyped
<1>q. \A m \in Msgs : Queue(m) \in Procs /\ \A n \in Msgs : Queue(m) = Queue(n) => m = n
  BY DEF Queue, Procs
\* Entries of no receipt, and calls that carry nothing, say nothing.
<1>a. ASSUME UNCHANGED <<journal, input, state, quiet, seen, handed, closing, alive, faults>>,
             \A n \in DOMAIN sent : n \in DOMAIN sent' /\ sent'[n] = sent[n],
             \A p \in Procs : \A v \in Workers : Carrying(p, v) => at'[p] = at[p],
             \A n \in DOMAIN sent' : Waking(n)' => n \in DOMAIN sent /\ Waking(n),
             \A n \in DOMAIN sent' : Said(n, "delivered")' => n \in DOMAIN sent /\ Said(n, "delivered")
      PROVE  TellsTruth
  <2>1. \A v \in Workers : CarriesOn(v)
    BY <1>a, CallCarriesOn
  <2>2. /\ \A w \in Workers : seen[w] \subseteq seen'[w]
        /\ \A w \in Workers : \A n \in Msgs : quiet[w][n] > 0 => KeptFor(n, w)
    BY <1>a DEF KeptFor
  <2>3. faults' = 0 => \A w \in Workers \ closing' : ~ Unstarted(w)' => w \in alive'
    BY <1>a DEF TruthInv, Unstarted
  <2> QED  BY <1>a, <2>1, <2>2, <2>3 DEF TellsTruth
<1>1. ASSUME NEW t \in Traffic, Submit(t) PROVE TellsTruth
  <2> DEFINE m == Len(sent) + 1
             f == Entry(Queue(m), "queued", m, "none")
  <2>1. /\ m \in Msgs /\ sent' = Append(sent, t) /\ appendQ' = Append(appendQ, f)
        /\ at' = [at EXCEPT ![Queue(m)] = "append"]
        /\ UNCHANGED <<journal, input, state, quiet, seen, handed, closing, alive, faults>>
    BY <1>1 DEF Submit, logVars, runtimeVars, childVars
  <2>2. f \in EntryType /\ f.kind = "queued"
    <3>1. Queue(m) \in Procs
      BY <2>1 DEF Queue, Procs
    <3>2. m \in Msgs \cup {0} /\ "none" \in Reasons
      BY <2>1 DEF Reasons
    <3> HIDE DEF m
    <3> QED  BY <3>1, <3>2, EntryIsTyped
  <2>3. /\ m \notin DOMAIN sent /\ DOMAIN sent' = DOMAIN sent \cup {m}
        /\ \A n \in DOMAIN sent : sent'[n] = sent[n]
    <3>1. /\ Append(sent, t) \in Seq(Traffic) /\ Len(Append(sent, t)) = Len(sent) + 1
          /\ \A i \in 1 .. Len(sent) : Append(sent, t)[i] = sent[i]
      BY <1>0, AppendProperties
    <3>2. Len(sent) \in Nat /\ DOMAIN sent = 1 .. Len(sent)
          /\ DOMAIN Append(sent, t) = 1 .. Len(sent) + 1
      BY <1>0, <3>1, LenProperties
    <3> QED  BY <2>1, <3>1, <3>2
  <2> HIDE DEF f, m
  <2>4. AddsEntries(0, {f})
    BY <1>0, <2>1, <2>2, AppendAddsEntry
  <2>5. ~ Said(m, "delivered")
    <3>1. journal[m] = "none"
      BY <2>1, <2>3 DEF OnceInv
    <3> QED  BY <3>1 DEF RecordedInv, Recorded, Said, Entered, Receipts
  <2>6. \A n \in DOMAIN sent' : Said(n, "delivered")' => n \in DOMAIN sent /\ Said(n, "delivered")
    <3>1. \A n : Entered(n, "delivered")' => Entered(n, "delivered")
      BY <2>2, <2>4, EntersOnly
    <3> QED  BY <2>1, <2>3, <2>5, <3>1 DEF Said
  <2>7. \A n \in DOMAIN sent' : Waking(n)' => n \in DOMAIN sent /\ Waking(n)
    <3> SUFFICES ASSUME NEW n \in DOMAIN sent', Waking(n)' PROVE n \in DOMAIN sent /\ Waking(n)
      OBVIOUS
    <3>1. n # m
      BY <1>0, <1>q, <2>1 DEF Waking
    <3> QED  BY <1>0, <1>q, <1>s, <2>1, <2>3, <3>1 DEF Waking
  <2>8. \A p \in Procs : \A v \in Workers : Carrying(p, v) => at'[p] = at[p]
    <3>1. \A v \in Workers : ~ Carrying(Queue(m), v)
      BY <2>3 DEF Carrying, Uses, Queue, Start
    <3> QED  BY <1>0, <2>1, <3>1
  <2> QED  BY <1>a, <2>1, <2>3, <2>6, <2>7, <2>8
<1>2. ASSUME NEW w \in Workers, AttachWorker(w) PROVE TellsTruth
  <2> DEFINE f == Entry(Attach(w), "runtime_changed", 0, "none")
  <2>1. /\ appendQ' = Append(appendQ, f)
        /\ at' = [at EXCEPT ![Attach(w)] = "append"]
        /\ UNCHANGED <<sent, journal, input, state, quiet, seen, handed, closing, alive, faults>>
    BY <1>2 DEF AttachWorker, logVars, runtimeVars, childVars
  <2>2. f \in EntryType /\ f.kind = "runtime_changed"
    <3>1. Attach(w) \in Procs
      BY DEF Attach, Procs, Loops
    <3> QED  BY <3>1, EntryIsTyped DEF Reasons
  <2> HIDE DEF f
  <2>4. AddsEntries(0, {f})
    BY <1>0, <2>1, <2>2, AppendAddsEntry
  <2>6. \A n \in DOMAIN sent' : Said(n, "delivered")' => n \in DOMAIN sent /\ Said(n, "delivered")
    <3>1. \A n : Entered(n, "delivered")' => Entered(n, "delivered")
      BY <2>2, <2>4, EntersOnly
    <3> QED  BY <2>1, <3>1 DEF Said
  <2>7. \A n \in DOMAIN sent' : Waking(n)' => n \in DOMAIN sent /\ Waking(n)
    <3>1. \A n : Queue(n) # Attach(w)
      BY DEF Queue, Attach
    <3> QED  BY <1>0, <1>q, <1>s, <2>1, <3>1 DEF Waking
  <2>8. \A p \in Procs : \A v \in Workers : Carrying(p, v) => at'[p] = at[p]
    <3>1. \A v \in Workers : ~ Carrying(Attach(w), v)
      BY DEF Carrying, Uses, Attach, Start
    <3> QED  BY <1>0, <2>1, <3>1
  <2> QED  BY <1>a, <2>1, <2>6, <2>7, <2>8
<1>3. ASSUME AppendFails PROVE TellsTruth
  <2>1. /\ appendQ # <<>> /\ appendQ' = Backlog
        /\ at' = [at EXCEPT ![Head(appendQ).by] = "failed"]
        /\ UNCHANGED <<sent, journal, input, state, quiet, seen, followUps, handed, closing, alive>>
    BY <1>3 DEF AppendFails, logVars, teamVars, runtimeVars, childVars
  <2>2. faults' = 0 => faults = 0
    BY <1>3 DEF AppendFails, Fault, TypeInv, TypeOK
  <2>3. \A n \in Msgs : \A k \in Receipts : journal'[n] = k => Said(n, k)
    BY <2>1 DEF Said
  <2>4. PICK p, x : p = Head(appendQ).by /\ x = "failed" /\ p \in Procs
    BY <2>1, FirstEntry
  <2> QED  BY <2>1, <2>2, <2>3, <2>4, EndTellsTruth
<1>4. ASSUME SettleQuiet PROVE TellsTruth
  <2>1. Stranded = {}
    <3>1. attached = {}
      BY <1>0, <1>4 DEF SettleQuiet, RunOver, FinalInv, Sessions, TypeOK
    <3> QED  BY <3>1 DEF Stranded
  <2>2. /\ at' = [at EXCEPT ![Settle] = "done"] /\ appendQ' = appendQ
        /\ UNCHANGED <<sent, journal, input, state, quiet, seen, handed, closing, alive, faults>>
    BY <1>4, <2>1 DEF SettleQuiet, SettleStep, NoDelivery, logVars, childVars
  <2>7. \A n \in DOMAIN sent' : Waking(n)' => n \in DOMAIN sent /\ Waking(n)
    <3>1. \A n : Queue(n) # Settle
      BY DEF Queue, Settle
    <3> QED  BY <1>0, <1>q, <1>s, <2>2, <3>1 DEF Waking
  <2>8. \A p \in Procs : \A v \in Workers : Carrying(p, v) => at'[p] = at[p]
    <3>1. \A v \in Workers : ~ Carrying(Settle, v)
      BY DEF Carrying, Uses, Settle, Start
    <3> QED  BY <1>0, <2>2, <3>1
  <2> QED  BY <1>a, <2>2, <2>7, <2>8 DEF Said, Entered
<1> QED BY <1>1, <1>2, <1>3, <1>4

(* A session carries on its inputs, unless a fault or a close breaks it. *)
CarriesAll ==
    /\ \A v \in Workers : /\ seen[v] \subseteq seen'[v]
                          /\ \A n \in Msgs : quiet[v][n] > 0 => KeptFor(n, v)
    /\ closing \subseteq closing'
    /\ faults' = 0 =>
          /\ faults = 0
          /\ \A v \in Workers \ closing' : CarriesOn(v) /\ (v \in alive => v \in alive')

LEMMA SessionCarries ==
    ASSUME TypeInv, FinalInv, TruthInv,
           NEW w \in Workers, Progress(w) \/ Mishap(w) \/ Detach(w) \/ Close(w)
    PROVE  CarriesAll
<1>0. /\ TypeOK /\ at \in [Procs -> Places] /\ faults \in Nat
      /\ seen \in [Workers -> SUBSET Msgs]
  BY DEF TypeInv, TypeOK
<1>q. /\ Start(w) \in Procs /\ Uses(Start(w), w) /\ \A m \in Msgs : Queue(m) \in Procs
      /\ \A p \in Procs : \A v \in Workers : Uses(p, v) /\ Uses(p, w) => v = w
  BY DEF Start, Queue, Procs, Uses
<1>f. ASSUME NEW k, Fault(k) PROVE faults' # 0
  BY <1>0, <1>f DEF Fault
\* Nothing is taken, and what changes place was not carrying.
<1>a. ASSUME UNCHANGED <<sent, input, quiet, seen, closing>>,
             faults' = 0 => faults = 0 /\ alive \subseteq alive'
                               /\ \A p \in Procs : at[p] \in {"steer", "turnStart"} => at'[p] = at[p]
      PROVE  CarriesAll
  <2>1. faults' = 0 => \A v \in Workers : CarriesOn(v)
    BY <1>a, CallCarriesOn DEF Carrying
  <2> QED  BY <1>a, <2>1 DEF CarriesAll, KeptFor
\* An input is taken, to be carried.
<1>b. ASSUME NEW p \in Procs, TakeInput(p, w, {}), RunTurn(p, w), Uses(p, w),
             at[p] \notin {"steer", "turnStart"}, UNCHANGED <<sent, closing, alive>>,
             faults' = 0 => faults = 0
      PROVE  CarriesAll
  <2>1. {} \in SUBSET Msgs /\ "turnStart" \in {"steer", "turnStart"}
    OBVIOUS
  <2>2. \A v \in Workers : CarriesOn(v)
    BY <1>0, <1>b, <2>1, InputCarriesOn DEF RunTurn
  <2>3. \A v \in Workers : /\ seen[v] \subseteq seen'[v]
                           /\ \A n \in Msgs : quiet[v][n] > 0 => KeptFor(n, v)
    BY <1>0, <1>b, <2>1, InputIsSeen
  <2> QED  BY <1>b, <2>2, <2>3 DEF CarriesAll
\* The child has taken the input, or w's runtime is closed.
<1>c. ASSUME NEW p \in Procs, Uses(p, w), NEW x, at' = [at EXCEPT ![p] = x],
             UNCHANGED <<sent, input, quiet, seen, closing, alive, faults>>,
             w \in closing \/ x \in {"steer", "turnStart"} \/ Noted(input[p]) \subseteq handed'
      PROVE  CarriesAll
  <2>1. ASSUME NEW v \in Workers, w \in closing => v # w PROVE CarriesOn(v)
    <3>1. ASSUME NEW r \in Procs, Carrying(r, v)
          PROVE  (Carrying(r, v)' /\ input'[r] = input[r]) \/ Noted(input[r]) \subseteq handed'
      <4>1. CASE r # p
        BY <1>0, <1>c, <3>1, <4>1 DEF Carrying, Uses
      <4>2. CASE r = p
        <5>1. v = w
          BY <1>c, <1>q, <3>1, <4>2 DEF Carrying
        <5>2. at'[p] = x /\ (Uses(p, v)' <=> Uses(p, v))
          BY <1>0, <1>c DEF Uses
        <5> QED  BY <1>c, <2>1, <3>1, <4>2, <5>1, <5>2 DEF Carrying
      <4> QED  BY <4>1, <4>2
    <3> QED  BY <1>c, <3>1 DEF CarriesOn
  <2> QED  BY <1>c, <2>1 DEF CarriesAll, KeptFor
\* A wake that went through had framed its message.
<1>d. ASSUME NEW m \in Msgs, Uses(Queue(m), w), Waking(m), WakeDelivered(m, w)
      PROVE  seen' = seen /\ at' = [at EXCEPT ![Queue(m)] = "receipt"]
  <2>1. m \in DOMAIN sent /\ sent[m].to = w
    BY <1>d DEF Uses, Queue, Start
  <2>2. m \in seen[w]
    BY <1>d, <2>1 DEF TruthInv
  <2> QED  BY <1>0, <1>d, <2>2 DEF WakeDelivered, Report
\* The calls of one session only.
<1>e. ASSUME at' = Broken(w), w \in closing', closing \subseteq closing',
             UNCHANGED <<sent, input, quiet, seen, handed>>,
             \A v \in Workers : v # w /\ v \in alive => v \in alive', faults' = 0 => faults = 0
      PROVE  CarriesAll
  <2>1. ASSUME NEW v \in Workers, v # w PROVE CarriesOn(v)
    <3>1. \A p \in Procs : Carrying(p, v) => at'[p] = at[p]
      BY <1>e, <1>q, <2>1 DEF Broken, Carrying
    <3> QED  BY <1>e, <3>1, CallCarriesOn
  <2> QED  BY <1>e, <2>1 DEF CarriesAll, KeptFor
<1> USE DEF teamVars, procVars, runtimeVars, childVars
<1>1. CASE StartSession(w)
  BY <1>0, <1>1, <1>a, <1>q DEF StartSession
<1>2. CASE ThreadOpens(w)
  BY <1>2, <1>b, <1>q DEF ThreadOpens
<1>3. CASE TurnStarted(w)
  BY <1>3, <1>a DEF TurnStarted
<1>4. CASE TurnCompleted(w)
  <2>1. \A p \in Procs : at[p] \in {"steer", "turnStart"} => at'[p] = at[p]
    BY <1>4 DEF TurnCompleted, Released
  <2> QED  BY <1>4, <1>a, <2>1 DEF TurnCompleted
<1>5. CASE StartReturns(w)
  BY <1>0, <1>5, <1>a, <1>q DEF StartReturns
<1>6. CASE ChildExit(w)
  <2>1. CASE w \in closing
    <3>1. UNCHANGED <<sent, input, quiet, seen, closing, handed, faults>> /\ alive' = alive \ {w}
      BY <1>6, <2>1 DEF ChildExit
    <3>2. at' = Broken(w) \/ at' = at
      BY <1>6 DEF ChildExit
    <3>3. ASSUME NEW v \in Workers, v # w PROVE CarriesOn(v)
      <4>1. \A p \in Procs : Carrying(p, v) => at'[p] = at[p]
        BY <1>q, <3>2, <3>3 DEF Broken, Carrying
      <4> QED  BY <3>1, <4>1, CallCarriesOn
    <3> QED  BY <2>1, <3>1, <3>3 DEF CarriesAll, KeptFor
  <2>2. CASE w \notin closing
    <3>1. faults' # 0
      BY <1>6, <1>f, <2>2 DEF ChildExit
    <3> QED  BY <1>6, <1>a, <3>1 DEF ChildExit
  <2> QED  BY <2>1, <2>2
<1>7. ASSUME NEW p \in Procs, TurnAccepted(p, w) PROVE CarriesAll
  <2>1. Noted(input[p]) \subseteq handed' /\ \E x : at' = [at EXCEPT ![p] = x]
    BY <1>7 DEF TurnAccepted, AwaitIdle
  <2> QED  BY <1>7, <1>c, <2>1 DEF TurnAccepted
<1>8. ASSUME NEW p \in Procs, TurnUnsent(p, w) PROVE CarriesAll
  <2>1. CASE faults = 0
    <3>1. ~ Unstarted(w)
      <4>1. CASE p = Start(w)
        BY <1>8, <4>1 DEF TurnUnsent, FinalInv, Sessions
      <4>2. CASE p # Start(w)
        <5>1. PICK m \in DOMAIN sent : p = Queue(m) /\ sent[m].to = w
          BY <1>8, <4>2 DEF TurnUnsent, Uses, Procs, Loops, Settle, Queue
        <5>2. Waking(m)
          BY <1>8, <5>1 DEF TurnUnsent, Waking
        <5> QED  BY <5>1, <5>2 DEF FinalInv, Agreed, Sessions
      <4> QED  BY <4>1, <4>2
    <3>2. w \in closing
      BY <1>8, <2>1, <3>1 DEF TurnUnsent, TruthInv
    <3> QED  BY <1>8, <1>c, <3>2 DEF TurnUnsent
  <2>2. CASE faults # 0
    BY <1>8, <1>a, <2>2 DEF TurnUnsent
  <2> QED  BY <2>1, <2>2
<1>9. ASSUME NEW m \in Msgs, SteerAccepted(m, w) PROVE CarriesAll
  <2>1. /\ Uses(Queue(m), w) /\ Waking(m) /\ WakeDelivered(m, w)
        /\ Noted(input[Queue(m)]) \subseteq handed'
        /\ UNCHANGED <<sent, input, quiet, closing, alive, faults>>
    BY <1>9 DEF SteerAccepted, Waking
  <2>2. seen' = seen /\ at' = [at EXCEPT ![Queue(m)] = "receipt"] /\ Queue(m) \in Procs
    BY <1>d, <1>q, <2>1
  <2> QED  BY <1>c, <2>1, <2>2
<1>10. ASSUME NEW m \in Msgs, SteerFallsThrough(m, w) PROVE CarriesAll
  <2>1. /\ Uses(Queue(m), w) /\ at' = [at EXCEPT ![Queue(m)] = "turnStart"] /\ Queue(m) \in Procs
        /\ UNCHANGED <<sent, input, quiet, seen, closing, alive, faults>>
    BY <1>10, <1>q DEF SteerFallsThrough, RunTurn
  <2> QED  BY <1>c, <2>1
<1>11. ASSUME NEW m \in Msgs, WakeReturns(m, w) PROVE CarriesAll
  <2>1. /\ Uses(Queue(m), w) /\ Waking(m) /\ WakeDelivered(m, w) /\ at[Queue(m)] = "woken"
        /\ UNCHANGED <<sent, input, quiet, closing, alive, faults>>
    BY <1>11 DEF WakeReturns, Waking
  <2>2. seen' = seen /\ at' = [at EXCEPT ![Queue(m)] = "receipt"]
    BY <1>d, <2>1
  <2> QED  BY <1>0, <1>a, <1>q, <2>1, <2>2
<1>12. CASE ThreadFails(w)
  BY <1>12, <1>a, <1>f DEF ThreadFails
<1>13. ASSUME NEW p \in Procs, TurnRefused(p, w) PROVE CarriesAll
  BY <1>13, <1>a, <1>f DEF TurnRefused
<1>14. ASSUME NEW p \in Procs, RecoveryTurn(p, w) PROVE CarriesAll
  BY <1>14, <1>b, <1>f DEF RecoveryTurn
<1>15. ASSUME NEW p \in Procs, ProtocolError(p, w) PROVE CarriesAll
  BY <1>15, <1>a, <1>f DEF ProtocolError
<1>16. CASE Detach(w)
  BY <1>16, <1>a DEF Detach
<1>17. CASE Close(w)
  <2>1. /\ at' = Broken(w) /\ closing' = closing \cup {w}
        /\ UNCHANGED <<sent, input, quiet, seen, handed, alive>>
    BY <1>17 DEF Close
  <2>2. faults' = 0 => faults = 0
    BY <1>17, <1>f DEF Close
  <2> QED  BY <1>e, <2>1, <2>2
<1> QED
  BY <1>1, <1>2, <1>3, <1>4, <1>5, <1>6, <1>7, <1>8, <1>9, <1>10, <1>11, <1>12, <1>13, <1>14,
     <1>15, <1>16, <1>17 DEF Progress, Mishap

LEMMA SessionTellsTruth ==
    ASSUME TypeInv, FinalInv, TruthInv,
           NEW w \in Workers, Progress(w) \/ Mishap(w) \/ Detach(w) \/ Close(w)
    PROVE  TellsTruth
<1>s. \A m \in DOMAIN sent : m \in Msgs /\ sent[m].to \in Workers
  BY SentIsTyped
<1>1. /\ UNCHANGED <<sent, journal>> /\ handed \subseteq handed'
      /\ \A m \in Msgs : Waking(m)' => Waking(m)
  BY SessionKeepsRecord DEF KeepsRecord
<1>2. CarriesAll
  BY SessionCarries
<1>3. \A n \in DOMAIN sent : Said(n, "delivered")' =>
          Said(n, "delivered") \/ KeptFor(n, sent[n].to)
  <2>1. CASE appendQ' = appendQ
    BY <1>1, <2>1 DEF Said, Entered
  <2>2. ASSUME NEW m \in DOMAIN sent, Waking(m),
               AddsEntries(0, {Entry(Queue(m), "delivered", m, "none")})
        PROVE  \A n \in DOMAIN sent : Said(n, "delivered")' =>
                   Said(n, "delivered") \/ KeptFor(n, sent[n].to)
    <3> DEFINE e == Entry(Queue(m), "delivered", m, "none")
    <3>1. e.msg = m /\ AddsEntries(0, {e})
      BY <2>2 DEF Entry
    <3> HIDE DEF e
    <3>2. \A n : Entered(n, "delivered")' => Entered(n, "delivered") \/ n = m
      BY <3>1, EntersOnly
    <3>3. KeptFor(m, sent[m].to)
      BY <1>2, <1>s, <2>2 DEF TruthInv, CarriesAll, KeptFor
    <3> QED  BY <1>1, <3>2, <3>3 DEF Said
  <2> QED  BY <2>1, <2>2, SessionReports DEF Reports
<1>4. faults' = 0 => \A v \in Workers \ closing' : ~ Unstarted(v)' => v \in alive'
  <2> SUFFICES ASSUME faults' = 0, NEW v \in Workers \ closing', ~ Unstarted(v)' PROVE v \in alive'
    OBVIOUS
  <2>1. ~ Unstarted(v) => v \in alive'
    BY <1>2 DEF CarriesAll, TruthInv
  <2>3. CASE Detach(w)
    BY <2>1, <2>3 DEF Detach, runtimeVars, Unstarted
  <2>4. CASE Progress(w) \/ Mishap(w) \/ Close(w)
    <3>1. Confined(w)
      BY <2>4, SessionConfined
    <3> QED  BY <2>1, <3>1 DEF Confined, Unstarted
  <2> QED  BY <2>3, <2>4
<1> QED  BY <1>1, <1>2, <1>3, <1>4, <1>s DEF TellsTruth, CarriesAll

LEMMA InitTruthInv == Init => TruthInv
<1>1. Init => DOMAIN appendQ = {} /\ DOMAIN sent = {}
  BY EmptySeq DEF Init
<1> QED  BY <1>1 DEF Init, TruthInv, Unstarted

LEMMA NextTruthInv ==
    TypeInv /\ TypeInv' /\ RecordedInv /\ OnceInv /\ FinalInv /\ TruthInv /\ [Next]_vars
        => TruthInv'
<1> SUFFICES ASSUME TypeInv, TypeInv', RecordedInv, OnceInv, FinalInv, TruthInv, [Next]_vars
             PROVE  TruthInv'
  OBVIOUS
<1>1. CASE UNCHANGED vars
  BY <1>1 DEF vars, logVars, teamVars, procVars, runtimeVars, childVars, TruthInv, Unstarted,
     Said, Entered, Waking, Carrying, Uses
<1>2. CASE Next
  <2>1. TellsTruth
    BY <1>2, WriteTellsTruth, QueueStepTellsTruth, SessionTellsTruth DEF Next
  <2> QED  BY <2>1, TruthStays
<1> QED  BY <1>1, <1>2

(* Without a fault, a message that the journal calls delivered is in its
   worker's hands, or held, or in an input on its way, for as long as the
   worker's runtime has not been closed. *)
THEOREM ReceiptsTellTheTruth == Spec => []ReceiptsAreTrue
<1>1. TypeInv /\ TruthInv => ReceiptsAreTrue
  <2> SUFFICES ASSUME TypeInv, TruthInv, faults = 0, NEW m \in 1 .. Len(sent),
                      journal[m] = "delivered", sent[m].to \notin closing
               PROVE  \/ m \in handed
                      \/ quiet[sent[m].to][m] > 0
                      \/ \E p \in Procs : input[p][m] > 0 /\ at[p] \in {"steer", "turnStart"}
    BY DEF ReceiptsAreTrue, DeliveredIsHeldOrHanded
  <2>1. m \in DOMAIN sent /\ sent[m].to \in Workers
    <3>1. m \in DOMAIN sent
      BY LenProperties DEF TypeInv, TypeOK
    <3> QED  BY <3>1, SentIsTyped
  <2>2. Said(m, "delivered")
    BY DEF Said
  <2>3. m \in seen[sent[m].to] \/ quiet[sent[m].to][m] > 0
    BY <2>1, <2>2 DEF TruthInv
  <2> QED  BY <2>1, <2>3 DEF TruthInv, Carrying
<1>2. TypeInv /\ TypeInv' /\ RecordedInv /\ OnceInv /\ FinalInv /\ TruthInv /\ [Next]_vars
          => TruthInv'
  BY NextTruthInv
<1> QED
  BY <1>1, <1>2, InitTruthInv, TypeInvAlways, RecordedInvAlways, OnceInvAlways, FinalInvAlways, PTL
     DEF Spec

=============================================================================
