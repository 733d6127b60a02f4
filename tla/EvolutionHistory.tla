-------------------------- MODULE EvolutionHistory --------------------------
(***************************************************************************)
(* The cross-run history of a project's repairs.  Each transition of a     *)
(* repair candidate is enqueued in its run's outbox with the transition    *)
(* itself; a flush appends its records to the project's hash-chained       *)
(* segments, by compare-and-append, and then marks the entry delivered     *)
(* (lineage-recorder.ts, evolution-store.ts).  A refresh reads the chain   *)
(* through a durable checkpoint, audits it and rebuilds the index that     *)
(* prunes repeated candidates (evolution-reconciler.ts,                    *)
(* exact-repeat-index.ts); a query answers with a run's records            *)
(* (evolution-query.ts).                                                   *)
(*                                                                         *)
(* One candidate of each run, all with the same fingerprints.  The chain   *)
(* only grows, so its head is its length.                                  *)
(***************************************************************************)
EXTENDS Naturals, Sequences, FiniteSets, SequencesExt

CONSTANTS
    Runs, NoOne,
    Lives,      \* each gives the transitions of every run's candidate (life),
                    \* how many were made before, with an outbox (told) or without
                    \* (untold), and what runs beside the recorder: "save",
                    \* "refresh" or "query"
    Sound,          \* runs whose fault, verification and evidence pass the audit
    Page,           \* records in one page
    MaxPending,     \* EVOLUTION_MAX_OUTBOX_ENTRIES
    MaxFaults       \* failed calls, and crashes

Kinds == {"executed", "verified", "rejected", "promoted", "rolled_back"}
Reconciler == "reconciler"
Flushers == Runs \cup {Reconciler}

HistoryAssumption ==
    /\ IsFiniteSet(Runs) /\ Page \in Nat
    /\ \A h \in Lives : /\ h.life \in [Runs -> Seq(Kinds)]
                         /\ h.told \in [Runs -> Nat] /\ h.untold \in [Runs -> Nat]
                         /\ \A r \in Runs : h.told[r] + h.untold[r] <= Len(h.life[r])

VARIABLES
    life,       \* the transitions of the run's candidate
    done,       \* how many the healing state shows
    outbox,     \* store: evolutionOutbox; "dropped" is what found it full
    live,       \* liveOrchestration's copy of it
    chain,      \* the records of the segments
    manifest,   \* head.json
    mutex,      \* of appendBatch
    fl,         \* flush
    rec,        \* reconcile
    checkpoint, \* store: evolutionReconciliation
    index,      \* ExactRepeatIndex
    query,      \* EvolutionQueryService.get
    beside, faults

vars == <<life, done, outbox, live, chain, manifest, mutex, fl, rec, checkpoint, index, query,
          beside, faults>>

(* LineageRecorder.build: the nodes every entry of a run repeats, and the     *)
(* transition's own.                                                          *)
RecordsOf(r, k) == {<<r, "attempt">>, <<r, k>>}
Records == Runs \X (Kinds \cup {"attempt", "quarantine"})
Stored == ToSet(chain)
Pending(box, r) == {k \in Kinds : box[r][k] = "pending"}
Smaller(m, n) == IF m < n THEN m ELSE n
First(r) == life[r][CHOOSE i \in DOMAIN life[r] : /\ life[r][i] \in Pending(outbox, r)
                                                  /\ \A j \in 1 .. i - 1 : life[r][j] \notin Pending(outbox, r)]
Completed(r) == life[r] # <<>> /\ done[r] = Len(life[r])

Idle == [at |-> "idle", run |-> NoOne, kind |-> "executed", rest |-> {}, head |-> 0, ok |-> TRUE]
Resting == [pc |-> "idle", todo |-> {}, seen |-> <<>>, bad |-> FALSE, more |-> FALSE,
            rest |-> {}, head |-> 0]
NoQuery == [pc |-> "idle", run |-> NoOne, overlay |-> {}, head |-> 0, got |-> 0, due |-> {}]
Unavailable == [health |-> "unavailable", hits |-> {}]

HistoryTypeOK ==
    /\ done \in [Runs -> 0 .. 3]
    /\ outbox \in [Runs -> [Kinds -> {"none", "pending", "delivered", "dropped"}]]
    /\ live \in [Runs -> [Kinds -> {"none", "pending", "delivered", "dropped"}]]
    /\ Stored \subseteq Records /\ manifest \in Nat /\ mutex \in Flushers \cup {NoOne}
    /\ fl \in [Flushers -> [at : {"idle", "pick", "head", "append", "manifest", "mark"},
                            run : Runs \cup {NoOne}, kind : Kinds, rest : SUBSET Records,
                            head : Nat, ok : BOOLEAN]]
    /\ rec.pc \in {"idle", "groups", "flush", "collecting", "auditing", "complete",
                   "qhead", "qappend", "qmanifest", "retarget", "publish"}
    /\ checkpoint.phase \in {"collecting", "auditing", "complete"}
    /\ index.health \in {"ready", "unavailable", "quarantined"}
    /\ query.pc \in {"idle", "head", "read", "recheck", "answer", "answered"}

Init ==
    /\ \E h \in Lives :
          /\ life = h.life /\ beside = h.beside
          /\ done = [r \in Runs |-> h.told[r] + h.untold[r]]
          /\ outbox = [r \in Runs |-> [k \in Kinds |->
                          IF k \in ToSet(SubSeq(h.life[r], 1, h.told[r])) THEN "delivered" ELSE "none"]]
    /\ live = outbox
    /\ chain = SetToSeq(UNION {RecordsOf(p[1], p[2]) : p \in
                               {q \in Runs \X Kinds : outbox[q[1]][q[2]] = "delivered"}})
    /\ manifest = Len(chain) /\ mutex = NoOne
    /\ fl = [f \in Flushers |-> Idle] /\ rec = Resting
    /\ checkpoint = [target |-> 0, next |-> 0, phase |-> "complete", records |-> {},
                     trusted |-> {}, suspect |-> {}]
    /\ index = Unavailable /\ query = NoQuery
    /\ faults = 0

Faulty == faults < MaxFaults /\ faults' = faults + 1

(* LineageRecorder.enqueue, with assertEvolutionOutboxCapacity. *)
Enqueued(r, k) ==
    IF outbox[r][k] # "none" THEN outbox
    ELSE [outbox EXCEPT ![r][k] = IF Cardinality(Pending(outbox, r)) >= MaxPending
                                  THEN "dropped" ELSE "pending"]

(* mutateHealingWithEvents: the transition and its entry in one write.        *)
Transition(r) ==
    /\ done[r] < Len(life[r])
    /\ done' = [done EXCEPT ![r] = @ + 1]
    /\ outbox' = Enqueued(r, life[r][done[r] + 1])
    /\ UNCHANGED <<life, live, chain, manifest, mutex, fl, rec, checkpoint, index, query, beside,
                   faults>>

MergedByIncoming(incoming, durable) ==
    [k \in Kinds |-> IF incoming[k] = "none" THEN durable[k] ELSE incoming[k]]

(* mergeEvolutionOutboxes: the store's entries, but for what is delivered.    *)
Merged(incoming, durable) ==
    [k \in Kinds |-> IF durable[k] = "delivered" \/ incoming[k] = "none" THEN durable[k]
                     ELSE IF durable[k] = "none" \/ incoming[k] = "delivered" THEN incoming[k]
                     ELSE durable[k]]

(* persistState: a live run writes its copy over the store's. *)
Save(r) ==
    /\ beside = "save" /\ outbox' = [outbox EXCEPT ![r] = Merged(live[r], @)]
    /\ live' = [live EXCEPT ![r] = outbox'[r]]
    /\ UNCHANGED <<life, done, chain, manifest, mutex, fl, rec, checkpoint, index, query, beside,
                   faults>>

-----------------------------------------------------------------------------
(* Flush.                                                                     *)

flushes == <<life, done, live, rec, checkpoint, index, query, beside>>

StartFlush(r) ==
    /\ fl[r].at = "idle" /\ Pending(outbox, r) # {}
    /\ fl' = [fl EXCEPT ![r] = [Idle EXCEPT !.at = "pick", !.run = r]]
    /\ UNCHANGED <<outbox, chain, manifest, mutex, faults>> /\ UNCHANGED flushes

(* scanProject: a manifest that is behind the segments is published anew.     *)
Scan == manifest' = IF manifest < Len(chain) THEN Len(chain) ELSE manifest

(* The first pending entry, and which of its records are missing. *)
Pick(f) ==
    /\ fl[f].at = "pick"
    /\ LET r == fl[f].run IN
       fl' = IF Pending(outbox, r) = {} THEN [fl EXCEPT ![f] = Idle]
             ELSE LET rest == RecordsOf(r, First(r)) \ Stored
                  IN [fl EXCEPT ![f].kind = First(r), ![f].rest = rest,
                                ![f].at = IF rest = {} THEN "mark" ELSE "head"]
    /\ Scan /\ UNCHANGED <<outbox, chain, mutex, faults>> /\ UNCHANGED flushes

ReadHead(f) ==
    /\ fl[f].at = "head"
    /\ fl' = [fl EXCEPT ![f].head = Len(chain), ![f].at = "append"]
    /\ Scan /\ UNCHANGED <<outbox, chain, mutex, faults>> /\ UNCHANGED flushes

AppendableAnywhere(head, rest) == manifest <= Len(chain)

(* appendBatch, up to the rename of the segment.  A failure comes before or   *)
(* after it.                                                                  *)
Appendable(head, rest) == manifest <= Len(chain) /\ Len(chain) = head /\ rest \cap Stored = {}

(* A flush that failed: the entry stays pending, the history unavailable.      *)
FlushGoesOn(flush) == [flush EXCEPT !.at = "mark", !.rest = {}, !.head = 0]
FlushFails(flush) == [Idle EXCEPT !.ok = FALSE]

Publish(rest) == chain' = chain \o SetToSeq(rest)

AppendBatch(f) ==
    /\ fl[f].at = "append" /\ mutex = NoOne
    /\ \/ /\ Appendable(fl[f].head, fl[f].rest)
          /\ Publish(fl[f].rest) /\ mutex' = f
          /\ fl' = [fl EXCEPT ![f].at = "manifest"] /\ UNCHANGED faults
       \/ /\ ~Appendable(fl[f].head, fl[f].rest)
          /\ fl' = [fl EXCEPT ![f] =
                       IF Len(chain) # @.head THEN [@ EXCEPT !.at = "head"]
                       ELSE IF @.rest \subseteq Stored THEN [@ EXCEPT !.at = "mark", !.rest = {}, !.head = 0]
                       ELSE FlushFails(@)]
          /\ UNCHANGED <<chain, mutex, faults>>
       \/ /\ Faulty /\ fl' = [fl EXCEPT ![f] = FlushFails(@)]
          /\ \/ UNCHANGED chain
             \/ Appendable(fl[f].head, fl[f].rest) /\ Publish(fl[f].rest)
          /\ UNCHANGED mutex
    /\ Scan /\ UNCHANGED outbox /\ UNCHANGED flushes

PublishManifest(f) ==
    /\ fl[f].at = "manifest" /\ mutex = f /\ mutex' = NoOne
    /\ \/ manifest' = Len(chain) /\ fl' = [fl EXCEPT ![f].at = "mark", ![f].rest = {}, ![f].head = 0] /\ UNCHANGED faults
       \/ Faulty /\ fl' = [fl EXCEPT ![f] = FlushFails(@)] /\ UNCHANGED manifest
    /\ UNCHANGED <<outbox, chain>> /\ UNCHANGED flushes

(* The entry is marked delivered in the store.  *)
Mark(f) ==
    /\ fl[f].at = "mark"
    /\ \/ /\ outbox' = [outbox EXCEPT ![fl[f].run][fl[f].kind] = "delivered"]
          /\ fl' = [fl EXCEPT ![f] = [Idle EXCEPT !.at = "pick", !.run = fl[f].run]] /\ UNCHANGED faults
       \/ Faulty /\ fl' = [fl EXCEPT ![f] = FlushFails(@)] /\ UNCHANGED outbox
    /\ UNCHANGED <<chain, manifest, mutex>> /\ UNCHANGED flushes

Flush(f) == Pick(f) \/ ReadHead(f) \/ AppendBatch(f) \/ PublishManifest(f) \/ Mark(f)

-----------------------------------------------------------------------------
(* Refresh (EvolutionReconciler.reconcile).                                   *)

refreshes == <<life, done, live, query, beside>>

(* needsGroupReconciliation, with the fingerprint of the run's record.        *)
Needs(r) == Pending(outbox, r) # {} \/ (Completed(r) /\ \A k \in Kinds : outbox[r][k] = "none")
Fingerprint(r) == <<done[r], outbox[r]>>

Refresh ==
    /\ beside = "refresh" /\ rec.pc = "idle"
    /\ rec' = [Resting EXCEPT !.pc = "groups", !.todo = {r \in Runs : Needs(r)},
                              !.seen = [r \in Runs |-> IF Needs(r) THEN Fingerprint(r) ELSE <<>>]]
    /\ UNCHANGED <<outbox, chain, manifest, mutex, fl, checkpoint, index, faults>>
    /\ UNCHANGED refreshes

(* A run whose record changed since is left for another refresh, unmarked.    *)
Group(r) ==
    /\ rec.pc = "groups" /\ r \in rec.todo
    /\ LET box == IF Completed(r) THEN Enqueued(r, Last(life[r])) ELSE outbox IN
       IF Fingerprint(r) # rec.seen[r] \/ Pending(box, r) = {}
       THEN /\ rec' = [rec EXCEPT !.todo = @ \ {r}, !.seen[r] = <<>>]
            /\ outbox' = IF Fingerprint(r) # rec.seen[r] THEN outbox ELSE box
            /\ UNCHANGED fl
       ELSE /\ outbox' = box
            /\ rec' = [rec EXCEPT !.pc = "flush", !.todo = @ \ {r}, !.seen[r] = <<>>]
            /\ fl' = [fl EXCEPT ![Reconciler] = [Idle EXCEPT !.at = "pick", !.run = r]]
    /\ UNCHANGED <<chain, manifest, mutex, checkpoint, index, faults>> /\ UNCHANGED refreshes

GroupFlushed ==
    /\ rec.pc = "flush" /\ fl[Reconciler].at = "idle"
    /\ rec' = [rec EXCEPT !.pc = "groups", !.bad = @ \/ ~fl[Reconciler].ok]
    /\ UNCHANGED <<outbox, chain, manifest, mutex, fl, checkpoint, index, faults>>
    /\ UNCHANGED refreshes

(* The 100 items or five seconds are used up. *)
Exhausted ==
    /\ rec.pc \in {"groups", "collecting"}
    /\ rec' = [Resting EXCEPT !.pc = "publish", !.more = TRUE]
    /\ UNCHANGED <<outbox, chain, manifest, mutex, fl, checkpoint, index, faults>>
    /\ UNCHANGED refreshes

(* The head of the chain; a checkpoint of another head starts over.           *)
Aim ==
    /\ rec.pc = "groups" /\ rec.todo = {}
    /\ checkpoint' = IF checkpoint.target = Len(chain) THEN checkpoint
                     ELSE [target |-> Len(chain), next |-> 0, phase |-> "collecting",
                           records |-> {}, trusted |-> {}, suspect |-> {}]
    /\ rec' = [rec EXCEPT !.pc = checkpoint'.phase]
    /\ Scan /\ UNCHANGED <<outbox, chain, mutex, fl, index, faults>> /\ UNCHANGED refreshes

(* One page for each refresh. *)
Collect ==
    /\ rec.pc = "collecting"
    /\ LET end  == checkpoint.next + Page
           next == IF Len(chain) > end THEN end ELSE checkpoint.target
       IN IF manifest > Len(chain)
          THEN rec' = [Resting EXCEPT !.pc = "publish", !.bad = TRUE] /\ UNCHANGED checkpoint
          ELSE /\ checkpoint' = [checkpoint EXCEPT
                     !.records = @ \cup ToSet(SubSeq(chain, checkpoint.next + 1, Smaller(end, Len(chain)))),
                     !.next = next,
                     !.phase = IF next >= checkpoint.target THEN "auditing" ELSE "collecting"]
               /\ rec' = [rec EXCEPT !.pc = "publish", !.more = TRUE]
    /\ Scan /\ UNCHANGED <<outbox, chain, mutex, fl, index, faults>> /\ UNCHANGED refreshes

(* HistoricalEvidenceAuditor.audit, of a run's candidate. *)
LifeIn(records, r) == {k \in Kinds : <<r, k>> \in records}
Rejection(l) == {"executed", "rejected"} \subseteq l /\ l \cap {"verified", "rolled_back", "promoted"} = {}
Rollback(l) == {"executed", "verified", "rolled_back"} \subseteq l /\ l \cap {"rejected", "promoted"} = {}
TrustedUnread(records, r) == r \in Sound /\ "rejected" \in LifeIn(records, r)
Trusted(records, r) ==
    r \in Sound /\ (Rejection(LifeIn(records, r)) \/ Rollback(LifeIn(records, r)))

Audit ==
    /\ rec.pc = "auditing"
    /\ LET known == checkpoint.records
           tried == {r \in Runs : LifeIn(known, r) # {}}
       IN checkpoint' = [checkpoint EXCEPT !.phase = "complete",
                             !.trusted = {r \in tried : Trusted(known, r)},
                             !.suspect = {r \in tried : ~Trusted(known, r)}]
    /\ rec' = [rec EXCEPT !.pc = "complete"]
    /\ UNCHANGED <<outbox, chain, manifest, mutex, fl, index, faults>> /\ UNCHANGED refreshes

(* appendQuarantines, and the checkpoint moved to the head it finds then.     *)
Quarantine ==
    /\ \/ /\ rec.pc = "complete"
          /\ LET rest == (checkpoint.suspect \X {"quarantine"}) \ Stored
             IN rec' = [rec EXCEPT !.rest = rest, !.pc = IF rest = {} THEN "publish" ELSE "qhead"]
       \/ rec.pc = "qhead" /\ rec' = [rec EXCEPT !.head = Len(chain), !.pc = "qappend"]
    /\ Scan /\ UNCHANGED <<outbox, chain, mutex, fl, checkpoint, index, faults>>
    /\ UNCHANGED refreshes

AppendQuarantine ==
    /\ rec.pc = "qappend" /\ mutex = NoOne
    /\ \/ /\ Appendable(rec.head, rec.rest) /\ Publish(rec.rest)
          /\ mutex' = Reconciler /\ rec' = [rec EXCEPT !.pc = "qmanifest"]
       \/ /\ ~Appendable(rec.head, rec.rest)
          /\ rec' = [Resting EXCEPT !.pc = "publish", !.bad = TRUE] /\ UNCHANGED <<chain, mutex>>
    /\ Scan /\ UNCHANGED <<outbox, fl, checkpoint, index, faults>> /\ UNCHANGED refreshes

PublishQuarantine ==
    /\ rec.pc = "qmanifest" /\ mutex = Reconciler /\ mutex' = NoOne
    /\ \/ manifest' = Len(chain) /\ rec' = [rec EXCEPT !.pc = "retarget"] /\ UNCHANGED faults
       \/ Faulty /\ rec' = [Resting EXCEPT !.pc = "publish", !.bad = TRUE] /\ UNCHANGED manifest
    /\ UNCHANGED <<outbox, chain, fl, checkpoint, index>> /\ UNCHANGED refreshes

Retarget ==
    /\ rec.pc = "retarget"
    /\ checkpoint' = [checkpoint EXCEPT !.target = Len(chain), !.next = Len(chain),
                                        !.records = @ \cup rec.rest]
    /\ rec' = [rec EXCEPT !.pc = "publish"]
    /\ Scan /\ UNCHANGED <<outbox, chain, mutex, fl, index, faults>> /\ UNCHANGED refreshes

(* ExactRepeatIndex.rebuild: a trusted trial that was also verified blocks    *)
(* the key of all of them.                                                    *)
Rebuilt ==
    LET known   == checkpoint.records
        trials  == checkpoint.trusted
        blocked == \E r \in trials : LifeIn(known, r) \cap {"verified", "promoted"} # {}
    IN [health |-> IF blocked THEN "quarantined" ELSE "ready",
        hits |-> IF blocked THEN {} ELSE trials]

EndRefresh ==
    /\ rec.pc = "publish"
    /\ index' = IF rec.bad \/ rec.more THEN Unavailable ELSE Rebuilt
    /\ rec' = Resting
    /\ UNCHANGED <<outbox, chain, manifest, mutex, fl, checkpoint, faults>> /\ UNCHANGED refreshes

-----------------------------------------------------------------------------
(* Query (EvolutionQueryService.get).                                         *)

queries == <<life, done, outbox, live, chain, mutex, fl, rec, checkpoint, index, beside, faults>>

Overlay(r) == UNION {RecordsOf(r, k) : k \in Pending(outbox, r)}

Ask(r) ==
    /\ beside = "query" /\ query.pc \in {"idle", "answered"}
    /\ query' = [NoQuery EXCEPT !.pc = "head", !.run = r, !.overlay = Overlay(r),
                               !.due = {k \in Kinds : outbox[r][k] \in {"pending", "delivered"}}]
    /\ UNCHANGED manifest /\ UNCHANGED queries

AskHead ==
    /\ query.pc = "head"
    /\ query' = [query EXCEPT !.pc = "read", !.head = Len(chain)]
    /\ Scan /\ UNCHANGED queries

(* A page; the head must still be the one the snapshot is of, and the pages   *)
(* must add up to it.                                                         *)
ReadAllButLast == query.got + Page >= query.head
ReadAll == query.got >= query.head

ReadPage ==
    /\ query.pc = "read"
    /\ query' = IF ReadAll THEN [query EXCEPT !.pc = "recheck"]
                ELSE IF Len(chain) # query.head \/ manifest > Len(chain) THEN NoQuery
                ELSE [query EXCEPT !.got = Smaller(@ + Page, query.head)]
    /\ Scan /\ UNCHANGED queries

Recheck ==
    /\ query.pc = "recheck"
    /\ query' = IF Len(chain) = query.head THEN [query EXCEPT !.pc = "answer"] ELSE NoQuery
    /\ Scan /\ UNCHANGED queries

Answer ==
    /\ query.pc = "answer"
    /\ query' = IF Overlay(query.run) = query.overlay THEN [NoQuery EXCEPT !.pc = "answered"] ELSE NoQuery
    /\ UNCHANGED manifest /\ UNCHANGED queries

-----------------------------------------------------------------------------

(* The server goes down; segments, manifest and store stay. *)
Crash ==
    /\ Faulty
    /\ live' = outbox /\ mutex' = NoOne
    /\ fl' = [f \in Flushers |-> Idle] /\ rec' = Resting /\ index' = Unavailable
    /\ query' = NoQuery
    /\ UNCHANGED <<life, done, outbox, chain, manifest, checkpoint, beside>>

Next ==
    \/ \E r \in Runs : Transition(r) \/ Save(r) \/ StartFlush(r) \/ Group(r) \/ Ask(r)
    \/ \E f \in Flushers : Flush(f)
    \/ Refresh \/ GroupFlushed \/ Exhausted \/ Aim \/ Collect \/ Audit \/ Quarantine
    \/ AppendQuarantine \/ PublishQuarantine \/ Retarget \/ EndRefresh
    \/ AskHead \/ ReadPage \/ Recheck \/ Answer \/ Crash

HistorySpec == Init /\ [][Next]_vars

(***************************************************************************)
(* An entry marked delivered has every record in the chain, across failed  *)
(* appends and writes, crashes, concurrent flushes of one run and the      *)
(* stale copies that a live run saves; no record is there twice, and       *)
(* head.json never runs ahead of the segments: either would be a corrupt   *)
(* history for every later scan.                                           *)
(***************************************************************************)
DeliveredIsRecorded ==
    /\ \A r \in Runs, k \in Kinds :
          outbox[r][k] = "delivered" => RecordsOf(r, k) \subseteq Stored
    /\ Cardinality(Stored) = Len(chain) /\ manifest <= Len(chain)

(***************************************************************************)
(* No entry is lost or delivered anew: what is pending stays until it is   *)
(* delivered, and that is final.                                           *)
(***************************************************************************)
EntriesStay ==
    [][\A r \in Runs, k \in Kinds :
         /\ outbox[r][k] = "pending" => outbox'[r][k] \in {"pending", "delivered"}
         /\ outbox[r][k] = "delivered" => outbox'[r][k] = "delivered"]_vars

(***************************************************************************)
(* An answered query has every record of every entry the run had when it   *)
(* was asked, from the outbox or the chain, whatever was appended or       *)
(* delivered while it read.                                                *)
(***************************************************************************)
AnswerIsWhole ==
    [][query.pc = "answer" /\ query'.pc = "answered" =>
         \A k \in query.due : RecordsOf(query.run, k)
             \subseteq query.overlay \cup ToSet(SubSeq(chain, 1, query.got))]_vars

(***************************************************************************)
(* After a refresh that ended well, a run is a reason to prune only as a   *)
(* sound trial that was executed and rejected and nothing else, as far as  *)
(* the chain was read, and everything that was read is in the chain.       *)
(***************************************************************************)
Refreshed == rec.pc = "idle" /\ index.health = "ready"

PrunedForCause ==
    Refreshed =>
        /\ checkpoint.records \subseteq Stored
        /\ \A r \in index.hits :
              r \in Sound /\ LifeIn(checkpoint.records, r) = {"executed", "rejected"}

=============================================================================
