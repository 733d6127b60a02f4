------------------------- MODULE RunLifecycleProofs -------------------------
(***************************************************************************)
(* Theorems of Console: what a client was shown as completed stays         *)
(* completed, and a run that the store calls completed has said so in its  *)
(* log, for any agents, runs, faults, crashes and requests; and what the   *)
(* console shows is the trace in view, without a gap, for any runs, pages  *)
(* and buffers.                                                            *)
(***************************************************************************)
EXTENDS Console, FiniteSetTheorems, SequenceTheorems, TLAPS

(* A run that was never admitted has left nothing, and an execution under    *)
(* way has an active row, unless its agent was deleted.                      *)
Row(r) ==
    /\ runs[r].status = "none" => runs[r] = Unborn /\ exec[r] = Idle /\ log[r] = NoLog
    /\ exec[r].at \notin Over => runs[r].status \in Active \cup {"deleted"}
    /\ exec[r].at \in Late => exec[r].verdict \in Verdicts

(* An intent is stated by an execution that did its work, at its end.        *)
Intent(r) ==
    runs[r].intent =>
        /\ runs[r].status # "queued"
        /\ exec[r].at \notin Early
        /\ exec[r].at \in Late => exec[r].verdict = "completed"

(* Only a leader that was admitted has children.                             *)
Family(r) ==
    \A p \in Runs : runs[r].parent = p => Kind(p) = "leader" /\ runs[p].status # "none"

(* An execution closes its log before its publication, and only a child may  *)
(* find its own closed before, by the session's close; a log that is         *)
(* complete has nothing left to write, and one that was cut says so.         *)
Writing(r) ==
    /\ log[r].complete => log[r].closed /\ log[r].queue = <<>>
    /\ log[r].covered => log[r].closed
    /\ log[r].truncated => Cut(log[r]) \/ log[r].broken
    /\ log[r].hushed => Kind(r) = "child"
    /\ exec[r].at \in Early /\ Kind(r) # "child" => ~ log[r].closed
    /\ exec[r].at \in Late => log[r].closed
    /\ exec[r].at \in {"write", "write again"} => log[r].queue = <<>>

(* A success of a single run or of a child is in its log at every stage of   *)
(* its publication, unless the log was closed before it.                     *)
Logged(r) ==
    runs[r].status # "none" /\ Kind(r) # "leader" =>
        /\ exec[r].at = "closing" /\ exec[r].verdict = "completed" =>
              log[r].broken \/ log[r].hushed \/ Cut(log[r]) \/ EndsOk(log[r].disk \o log[r].queue)
        /\ exec[r].at \in {"write", "write again"} /\ exec[r].verdict = "completed" =>
              log[r].hushed \/ Cut(log[r]) \/ EndsOk(log[r].disk)
        /\ runs[r].status = "completed" =>
              log[r].queue = <<>> /\ (log[r].hushed \/ Cut(log[r]) \/ EndsOk(log[r].disk))

(* What a client was shown rests on the row, or on an intent and a log whose *)
(* last word is on disk.                                                     *)
Known(r) ==
    r \in told =>
        \/ runs[r].status \in {"completed", "deleted"}
        \/ /\ runs[r].status = "running" /\ runs[r].intent
           /\ log[r].queue = <<>> /\ EndsOk(log[r].disk)
           /\ server = "up" => log[r].closed /\ ~ log[r].broken

(* A server that is not up executes nothing, and settles the stated intents  *)
(* before it cancels what is left.                                           *)
Starting ==
    /\ server # "up" => \A r \in Runs : exec[r] = Idle /\ log[r].queue = <<>> /\ ~ log[r].covered
    /\ server = "recovering" => Intended = {}

RunInv(r) == Row(r) /\ Intent(r) /\ Family(r) /\ Writing(r) /\ Logged(r) /\ Known(r)

Inv == RunsTypeOK /\ Starting /\ \A r \in Runs : RunInv(r)

-----------------------------------------------------------------------------
(* The log. *)

Whole(l) == l.disk \o l.queue

(* Concatenation with an element more, one moved over, or none.              *)
LEMMA WholeAppend ==
    ASSUME NEW d, d \in Seq(Events), NEW q, q \in Seq(Events), NEW e, e \in Events
    PROVE  /\ d \o Append(q, e) \in Seq(Events)
           /\ Len(d \o Append(q, e)) \in Nat
           /\ Len(d \o Append(q, e)) > 0
           /\ (d \o Append(q, e))[Len(d \o Append(q, e))] = e
<1> QED  OBVIOUS

LEMMA LogAppend ==
    ASSUME NEW l \in Logs, NEW e \in Events, NEW V, V = l.disk \o Append(l.queue, e)
    PROVE  V \in Seq(Events) /\ Len(V) \in Nat /\ Len(V) > 0 /\ V[Len(V)] = e
<1> DEFINE d == l.disk
           q == l.queue
<1>1. d \in Seq(Events) /\ q \in Seq(Events) /\ V = d \o Append(q, e)
  BY DEF Logs
<1> HIDE DEF d, q
<1> QED  BY <1>1, WholeAppend

LEMMA WholeMoved ==
    ASSUME NEW S, NEW d \in Seq(S), NEW q \in Seq(S), q # <<>>
    PROVE  /\ Append(d, Head(q)) \in Seq(S) /\ Tail(q) \in Seq(S)
           /\ Append(d, Head(q)) \o Tail(q) = d \o q
<1>1. Head(q) \in S /\ Tail(q) \in Seq(S) /\ Len(Tail(q)) = Len(q) - 1 /\ Len(q) > 0
  BY EmptySeq, HeadTailProperties
<1>2. \A i \in 1 .. Len(q) - 1 : Tail(q)[i] = q[i + 1]
  BY <1>1, HeadTailProperties
<1>3. /\ Append(d, Head(q)) \o Tail(q) \in Seq(S) /\ d \o q \in Seq(S)
      /\ Len(Append(d, Head(q)) \o Tail(q)) = Len(d \o q)
  BY <1>1
<1>4. \A i \in 1 .. Len(d \o q) : (Append(d, Head(q)) \o Tail(q))[i] = (d \o q)[i]
  BY <1>1, <1>2
<1>5. Append(d, Head(q)) \in Seq(S)
  BY <1>1, AppendProperties
<1> QED  BY <1>1, <1>3, <1>4, <1>5, SeqEqual

LEMMA WholeAlone ==
    ASSUME NEW S, NEW d \in Seq(S)
    PROVE  d \o <<>> = d
<1> QED  BY SeqEqual

LEMMA CutIn ==
    ASSUME NEW l \in Logs
    PROVE  /\ Whole(l) \in Seq(Events) /\ DOMAIN Whole(l) = 1 .. Len(Whole(l))
           /\ Cut(l) <=> \E i \in 1 .. Len(Whole(l)) : Whole(l)[i] = "cut"
<1>1. l.disk \in Seq(Events) /\ l.queue \in Seq(Events)
  BY DEF Logs
<1> DEFINE W == l.disk \o l.queue
<1>2. W \in Seq(Events) /\ DOMAIN W = 1 .. Len(W)
  BY <1>1, LenProperties
<1>3. Cut(l) <=> \E i \in DOMAIN W : W[i] = "cut"
  BY DEF Cut
<1>4. Whole(l) = W
  BY DEF Whole
<1> HIDE DEF W
<1> QED  BY <1>2, <1>3, <1>4

(* What an emit leaves: the event or the mark of a cut in an open log, and   *)
(* in a closed one at most the trace of a success that it drops.             *)
LEMMA AppendedKeeps ==
    ASSUME NEW l \in Logs, NEW e \in Events, NEW n \in Appended(l, e)
    PROVE  /\ n \in Logs
           /\ n.closed = l.closed /\ n.complete = l.complete /\ n.broken = l.broken
           /\ n.covered = l.covered
           /\ l.closed => n.queue = l.queue
           /\ n.hushed => l.hushed \/ l.closed
           /\ (l.truncated => Cut(l) \/ l.broken) => (n.truncated => Cut(n) \/ n.broken)
           /\ (l.truncated => Cut(l) \/ l.broken) /\ e = "ok" =>
                 n.broken \/ n.hushed \/ Cut(n) \/ EndsOk(n.disk \o n.queue)
<1>1. l.disk \in Seq(Events) /\ l.queue \in Seq(Events)
  BY DEF Logs
<1>2. CASE ~ l.closed /\ l.truncated /\ n = l
  BY <1>2
<1>5. CASE l.closed /\ n = [l EXCEPT !.hushed = @ \/ e = "ok"]
  <2> DEFINE h == l.hushed \/ e = "ok"
  <2>0. h \in BOOLEAN
    BY DEF Logs
  <2>a. n = [l EXCEPT !.hushed = h]
    BY <1>5
  <2>b. (e = "ok" => h) /\ (h => l.hushed \/ e = "ok")
    OBVIOUS
  <2> HIDE DEF h
  <2>1. n \in Logs /\ n.disk = l.disk /\ n.queue = l.queue /\ n.hushed = h
    BY <2>0, <2>a DEF Logs
  <2>2. n.closed = l.closed /\ n.complete = l.complete /\ n.broken = l.broken
        /\ n.truncated = l.truncated /\ n.covered = l.covered
    BY <2>a DEF Logs
  <2>3. Cut(n) <=> Cut(l)
    BY <2>1 DEF Cut
  <2> QED  BY <1>5, <2>1, <2>2, <2>3, <2>b
<1>3. CASE ~ l.closed /\ ~ l.truncated /\ n = [l EXCEPT !.queue = Append(@, e)]
  <2> DEFINE q == Append(l.queue, e)
  <2>0. q \in Seq(Events) /\ l.broken \in BOOLEAN /\ l.truncated \in BOOLEAN
    BY <1>1 DEF Logs
  <2>a. n = [l EXCEPT !.queue = q]
    BY <1>3
  <2>b. q = Append(l.queue, e)
    OBVIOUS
  <2> HIDE DEF q
  <2>1. n \in Logs /\ n.disk = l.disk /\ n.queue = Append(l.queue, e)
    BY <2>0, <2>a, <2>b DEF Logs
  <2>2. n.closed = l.closed /\ n.complete = l.complete /\ n.broken = l.broken
        /\ n.truncated = l.truncated /\ n.covered = l.covered /\ n.hushed = l.hushed
    BY <2>a DEF Logs
  <2>3. e = "ok" => EndsOk(n.disk \o n.queue)
    <3> DEFINE V == l.disk \o Append(l.queue, e)
    <3>0. V = l.disk \o Append(l.queue, e)
      OBVIOUS
    <3>2. n.disk \o n.queue = V
      BY <2>1
    <3> HIDE DEF V
    <3>1. V \in Seq(Events) /\ Len(V) \in Nat /\ Len(V) > 0 /\ V[Len(V)] = e
      BY <3>0, LogAppend
    <3>3. DOMAIN V = 1 .. Len(V)
      BY <3>1, LenProperties
    <3>4. Len(V) \in DOMAIN V /\ \A j \in DOMAIN V : ~ j > Len(V)
      BY <3>1, <3>3
    <3> QED  BY <3>1, <3>2, <3>4 DEF EndsOk
  <2> QED  BY <1>3, <2>1, <2>2, <2>3
<1>4. CASE ~ l.closed /\ ~ l.truncated
           /\ n = [l EXCEPT !.queue = Append(@, "cut"), !.truncated = TRUE]
  <2> DEFINE q == Append(l.queue, "cut")
  <2>0. "cut" \in Events
    BY DEF Events
  <2>c. q \in Seq(Events) /\ l.broken \in BOOLEAN
    BY <1>1, <2>0 DEF Logs
  <2>a. n = [l EXCEPT !.queue = q, !.truncated = TRUE]
    BY <1>4
  <2>b. q = Append(l.queue, "cut")
    OBVIOUS
  <2> HIDE DEF q
  <2>1. n \in Logs /\ n.disk = l.disk /\ n.queue = Append(l.queue, "cut")
    BY <2>c, <2>a, <2>b DEF Logs
  <2>2. n.closed = l.closed /\ n.complete = l.complete /\ n.broken = l.broken
        /\ n.covered = l.covered /\ n.hushed = l.hushed
    BY <2>a DEF Logs
  <2>4. Cut(n)
    <3> DEFINE V == l.disk \o Append(l.queue, "cut")
    <3>0. V = l.disk \o Append(l.queue, "cut")
      OBVIOUS
    <3>2. Whole(n) = V
      BY <2>1 DEF Whole
    <3> HIDE DEF V
    <3>1. V \in Seq(Events) /\ Len(V) \in Nat /\ Len(V) > 0 /\ V[Len(V)] = "cut"
      BY <3>0, <2>0, LogAppend
    <3> QED  BY <2>1, <3>1, <3>2, CutIn
  <2> QED  BY <1>4, <2>1, <2>2, <2>4
<1> QED  BY <1>2, <1>3, <1>4, <1>5 DEF Appended

(* A flush moves an event of the log to the disk, or loses it and says so.   *)
LEMMA FlushKeeps ==
    ASSUME NEW l \in Logs, l.queue # <<>>
    PROVE  /\ [l EXCEPT !.disk = Append(@, Head(l.queue)), !.queue = Tail(@)] \in Logs
           /\ [l EXCEPT !.queue = Tail(@), !.broken = TRUE] \in Logs
           /\ Append(l.disk, Head(l.queue)) \o Tail(l.queue) = l.disk \o l.queue
<1>1. l.disk \in Seq(Events) /\ l.queue \in Seq(Events)
  BY DEF Logs
<1>2. Head(l.queue) \in Events /\ Tail(l.queue) \in Seq(Events)
  BY <1>1, EmptySeq, HeadTailProperties
<1> DEFINE h == Append(l.disk, Head(l.queue))
           t == Tail(l.queue)
<1>3. h \in Seq(Events) /\ t \in Seq(Events) /\ h \o t = l.disk \o l.queue
  BY <1>1, <1>2, WholeMoved
<1> HIDE DEF h, t
<1>4. [l EXCEPT !.disk = h, !.queue = t] \in Logs /\ [l EXCEPT !.queue = t, !.broken = TRUE] \in Logs
  BY <1>3 DEF Logs
<1> QED  BY <1>3, <1>4 DEF h, t

(* Two logs with the same words, of which only a barrier has changed.        *)
Alike(n, l) ==
    /\ n.disk = l.disk /\ n.queue = l.queue
    /\ n.truncated = l.truncated /\ n.broken = l.broken /\ n.hushed = l.hushed

LEMMA AlikeCut ==
    ASSUME NEW n, NEW l, Alike(n, l)
    PROVE  /\ Cut(n) <=> Cut(l)
           /\ n.disk \o n.queue = l.disk \o l.queue
<1>1. n.disk \o n.queue = l.disk \o l.queue
  BY DEF Alike
<1> QED  BY <1>1 DEF Cut

(* A log after its close: the same words, and no more of them.               *)
Closes(n, l) == n \in Logs /\ Alike(n, l) /\ n.closed /\ ~ n.complete

LEMMA ShutCloses ==
    ASSUME NEW l \in Logs
    PROVE  Closes(Shut(l), l) /\ Closes([Shut(l) EXCEPT !.covered = TRUE], l)
<1>1. Closes(Shut(l), l)
  BY DEF Shut, Closes, Alike, Logs
<1> DEFINE m == Shut(l)
<1>2. m \in Logs /\ Alike(m, l) /\ m.closed /\ ~ m.complete
  BY <1>1 DEF Closes
<1> HIDE DEF m
<1>3. Closes([m EXCEPT !.covered = TRUE], l)
  BY <1>2 DEF Closes, Alike, Logs
<1> QED  BY <1>1, <1>3 DEF m

(* A close of a session reaches its root and its children, and no other.     *)
LEMMA SessionShutKeeps ==
    ASSUME log \in [Runs -> Logs], NEW r \in Runs
    PROVE  /\ SessionShut(r) \in [Runs -> Logs]
           /\ \A k \in Runs :
                \/ SessionShut(r)[k] = log[k] /\ k # r
                \/ Closes(SessionShut(r)[k], log[k]) /\ (k = r \/ runs[k].parent = r)
<1> DEFINE m(k) == [Shut(log[k]) EXCEPT !.covered = TRUE]
<1>1. \A k \in Runs : Closes(m(k), log[k])
  BY ShutCloses
<1>2. \A k \in Runs : m(k) \in Logs
  BY <1>1 DEF Closes
<1>3. SessionShut(r) = [k \in Runs |-> IF k \in {r} \cup Children(r) THEN m(k) ELSE log[k]]
  BY DEF SessionShut
<1> HIDE DEF m
<1>4. \A k \in Runs : SessionShut(r)[k] = IF k \in {r} \cup Children(r) THEN m(k) ELSE log[k]
  BY <1>3
<1>5. SessionShut(r) \in [Runs -> Logs]
  BY <1>2, <1>3
<1> QED  BY <1>1, <1>4, <1>5 DEF Children

LEMMA CompletedKeeps ==
    ASSUME log \in [Runs -> Logs], NEW r \in Runs
    PROVE  /\ Completed(r) \in [Runs -> Logs]
           /\ \A k \in Runs :
                /\ Alike(Completed(r)[k], log[k])
                /\ Completed(r)[k].closed = log[k].closed
                /\ Completed(r)[k].covered = log[k].covered
                /\ k \notin Barrier(r) => Completed(r)[k] = log[k]
<1>1. ASSUME NEW k \in Runs
      PROVE  LET n == [log[k] EXCEPT !.complete = TRUE]
             IN  n \in Logs /\ Alike(n, log[k]) /\ n.closed = log[k].closed /\ n.covered = log[k].covered
  BY DEF Logs, Alike
<1>2. \A k \in Runs : Alike(log[k], log[k])
  BY DEF Alike
<1> QED  BY <1>1, <1>2 DEF Completed

(* Rows keep whose they are.                                                 *)
Owners == \A k \in Runs : runs'[k].agent = runs[k].agent /\ runs'[k].parent = runs[k].parent

LEMMA OwnersKeep ==
    ASSUME Owners
    PROVE  \A k \in Runs : Kind(k)' = Kind(k)
<1> QED  BY DEF Owners, Kind

(* The end of an execution leaves what the publication rests on: its log is  *)
(* closed, with its last word in it; so may be the logs of its children.     *)
LEMMA ClosingKeeps ==
    ASSUME Inv, NEW r \in Runs, exec[r].at \in Early, NEW verdict \in Verdicts,
           NEW l \in Logs, l.truncated => Cut(l) \/ l.broken, l.hushed => Kind(r) = "child",
           Kind(r) # "leader" /\ verdict = "completed" =>
              l.broken \/ l.hushed \/ Cut(l) \/ EndsOk(l.disk \o l.queue),
           Closes(log'[r], l), Moves(r, "closing", verdict),
           \A k \in Runs \ {r} : log'[k] = log[k] \/ (Closes(log'[k], log[k]) /\ runs[k].parent = r),
           Owners, \A k \in Runs : runs'[k].status = runs[k].status,
           \A k \in Runs \ {r} : runs'[k] = runs[k],
           runs'[r].intent => /\ verdict = "completed" /\ runs[r].status # "queued",
           UNCHANGED <<server, told>>
    PROVE  \A k \in Runs : RunInv(k)'
<1>1. /\ log \in [Runs -> Logs] /\ log[r] \in Logs
      /\ exec \in [Runs -> [at : Early \cup Late \cup Over, verdict : Verdicts \cup {"none", "cut"}]]
      /\ \A k \in Runs : RunInv(k)
  BY DEF Inv, RunsTypeOK
<1>8. exec' = [exec EXCEPT ![r] = [at |-> "closing", verdict |-> verdict]]
  BY DEF Moves
<1>9. \A k \in Runs : Kind(k)' = Kind(k)
  BY OwnersKeep
<1>10. \A k \in Runs \ {r} : exec'[k] = exec[k]
  BY <1>8
<1>11. exec'[r].at = "closing" /\ exec'[r].verdict = verdict
  BY <1>1, <1>8
<1>12. Row(r) /\ Intent(r) /\ Family(r) /\ Writing(r) /\ Logged(r) /\ Known(r)
  BY <1>1 DEF RunInv
<1>13. runs[r].status \in Active \cup {"deleted"}
  BY <1>12 DEF Row, Early, Over
<1>14. /\ log'[r].closed /\ ~ log'[r].complete /\ (log'[r].hushed => Kind(r) = "child")
       /\ log'[r].truncated => Cut(log'[r]) \/ log'[r].broken
       /\ Kind(r) # "leader" /\ verdict = "completed" =>
             log'[r].broken \/ log'[r].hushed \/ Cut(log'[r]) \/ EndsOk(log'[r].disk \o log'[r].queue)
  <2>1. Alike(log'[r], l)
    BY DEF Closes
  <2>2. (Cut(log'[r]) <=> Cut(l)) /\ log'[r].disk \o log'[r].queue = l.disk \o l.queue
    BY <2>1, AlikeCut
  <2> QED  BY <2>1, <2>2 DEF Closes, Alike
<1>15. ASSUME NEW k \in Runs, k # r
       PROVE  /\ Alike(log'[k], log[k]) /\ (Cut(log'[k]) <=> Cut(log[k]))
              /\ \/ log'[k] = log[k]
                 \/ log'[k].closed /\ ~ log'[k].complete /\ Kind(k) = "child" /\ runs[k].status # "none"
  <2>1. Alike(log'[k], log[k])
    BY <1>15 DEF Closes, Alike
  <2>2. Cut(log'[k]) <=> Cut(log[k])
    BY <2>1, AlikeCut
  <2>3. runs[k].parent = r => Kind(k) = "child" /\ runs[k].status # "none"
    BY <1>1, LifecycleAssumption DEF Kind, RunInv, Row, Unborn
  <2> QED  BY <2>1, <2>2, <2>3, <1>15 DEF Closes
<1> SUFFICES ASSUME NEW k \in Runs PROVE RunInv(k)'
  OBVIOUS
<1>20. Row(k) /\ Intent(k) /\ Family(k) /\ Writing(k) /\ Logged(k) /\ Known(k)
  BY <1>1 DEF RunInv
<1>21. Family(k)'
  BY <1>20, <1>9 DEF Family, Owners
<1>30. CASE k = r
  <2>1. Row(k)'
    BY <1>30, <1>11, <1>13 DEF Row, Early, Late, Over, Active
  <2>2. Intent(k)'
    BY <1>30, <1>11 DEF Intent, Early, Late
  <2>4. Writing(k)'
    BY <1>30, <1>11, <1>14, <1>9 DEF Writing, Early, Late
  <2>5. Logged(k)'
    BY <1>30, <1>11, <1>13, <1>14, <1>9 DEF Logged, Active
  <2>6. Known(k)'
    <3>1. ~ runs[r].intent
      BY <1>12 DEF Intent
    <3> QED  BY <1>30, <3>1, <1>12, <1>13 DEF Known, Active
  <2> QED  BY <1>21, <2>1, <2>2, <2>4, <2>5, <2>6 DEF RunInv
<1>40. CASE k # r
  <2>0. /\ runs'[k] = runs[k] /\ exec'[k] = exec[k]
        /\ Alike(log'[k], log[k]) /\ (Cut(log'[k]) <=> Cut(log[k]))
        /\ \/ log'[k] = log[k]
           \/ log'[k].closed /\ ~ log'[k].complete /\ Kind(k) = "child" /\ runs[k].status # "none"
    BY <1>40, <1>10, <1>15
  <2>1. Row(k)'
    BY <2>0, <1>20 DEF Row
  <2>2. Intent(k)'
    BY <2>0, <1>20 DEF Intent
  <2>4. Writing(k)'
    <3>1. CASE log'[k] = log[k]
      BY <3>1, <2>0, <1>20, <1>9 DEF Writing
    <3>2. CASE log'[k].closed /\ ~ log'[k].complete /\ Kind(k) = "child"
      BY <3>2, <2>0, <1>20, <1>9 DEF Writing, Alike
    <3> QED  BY <3>1, <3>2, <2>0
  <2>5. Logged(k)'
    BY <2>0, <1>20, <1>9 DEF Logged, Alike
  <2>6. Known(k)'
    BY <2>0, <1>20 DEF Known, Alike
  <2> QED  BY <1>21, <2>1, <2>2, <2>4, <2>5, <2>6 DEF RunInv
<1> QED  BY <1>30, <1>40

LEMMA EndsKeeps ==
    ASSUME Inv, NEW r \in Runs, exec[r].at \in Early, NEW event \in Events,
           NEW verdict \in Verdicts, verdict = "completed" => event = "ok",
           Ends(r, event, verdict),
           Owners, \A k \in Runs : runs'[k].status = runs[k].status,
           \A k \in Runs \ {r} : runs'[k] = runs[k],
           runs'[r].intent => /\ verdict = "completed" /\ runs[r].status # "queued",
           UNCHANGED <<server, told>>
    PROVE  \A k \in Runs : RunInv(k)'
<1>1. PICK l \in Appended(log[r], event) : log' = [log EXCEPT ![r] = Shut(l)]
  BY DEF Ends
<1>2. /\ log \in [Runs -> Logs] /\ log[r] \in Logs /\ (log[r].truncated => Cut(log[r]) \/ log[r].broken)
      /\ log[r].hushed \/ log[r].closed => Kind(r) = "child"
  BY DEF Inv, RunsTypeOK, RunInv, Writing
<1>3. /\ l \in Logs /\ (l.truncated => Cut(l) \/ l.broken) /\ (l.hushed => Kind(r) = "child")
      /\ event = "ok" => l.broken \/ l.hushed \/ Cut(l) \/ EndsOk(l.disk \o l.queue)
  BY <1>1, <1>2, AppendedKeeps
<1>4. Moves(r, "closing", verdict)
  BY DEF Ends
<1>5. Closes(log'[r], l) /\ \A k \in Runs \ {r} : log'[k] = log[k]
  <2>1. log'[r] = Shut(l) /\ \A k \in Runs \ {r} : log'[k] = log[k]
    BY <1>1, <1>2
  <2> QED  BY <2>1, <1>3, ShutCloses
<1> QED  BY <1>3, <1>4, <1>5, ClosingKeeps

(* The log of a run with a word more, or none.                               *)
Words(r) == {log[r]} \cup UNION {Appended(log[r], event) : event \in Events}

(* Before its last event an execution goes on, or is given up, with a word   *)
(* more in its log or none.                                                  *)
LEMMA MovesKeeps ==
    ASSUME Inv, NEW r \in Runs, exec[r].at \in Early,
           NEW x \in Early \cup {"stranded"}, NEW verdict \in Verdicts \cup {"none", "cut"},
           Moves(r, x, verdict),
           NEW l \in Words(r), log' = [log EXCEPT ![r] = l],
           Owners, \A k \in Runs \ {r} : runs'[k] = runs[k],
           runs'[r].status \in Active \cup {"deleted"}, ~ runs'[r].intent,
           runs[r].status = "deleted" => runs'[r].status = "deleted",
           UNCHANGED <<server, told>>
    PROVE  \A k \in Runs : RunInv(k)'
<1>1. /\ log \in [Runs -> Logs] /\ log[r] \in Logs
      /\ exec \in [Runs -> [at : Early \cup Late \cup Over, verdict : Verdicts \cup {"none", "cut"}]]
      /\ \A k \in Runs : Row(k) /\ Intent(k) /\ Family(k) /\ Writing(k) /\ Logged(k) /\ Known(k)
  BY DEF Inv, RunsTypeOK, RunInv
<1>2. log[r].truncated => Cut(log[r]) \/ log[r].broken
  BY <1>1 DEF Writing
<1>3. /\ l.closed = log[r].closed /\ l.complete = log[r].complete /\ l.covered = log[r].covered
      /\ l.truncated => Cut(l) \/ l.broken
      /\ log[r].closed => l.queue = log[r].queue
      /\ l.hushed => log[r].hushed \/ log[r].closed
  <2>1. CASE l = log[r]
    BY <2>1, <1>2
  <2>2. CASE \E event \in Events : l \in Appended(log[r], event)
    BY <2>2, <1>1, <1>2, AppendedKeeps
  <2> QED  BY <2>1, <2>2 DEF Words
<1>4. log'[r] = l /\ \A k \in Runs \ {r} : log'[k] = log[k]
  BY <1>1
<1>5. exec'[r].at = x /\ \A k \in Runs \ {r} : exec'[k] = exec[k]
  BY <1>1 DEF Moves
<1>7. runs'[r].status # "none"
  BY DEF Active
<1>6. \A k \in Runs : Kind(k)' = Kind(k)
  BY OwnersKeep
<1>8. x \notin Late /\ x # "closing" /\ x \notin {"write", "write again"}
  BY DEF Late, Early
<1>9. runs[r].status \in Active \cup {"deleted"} /\ ~ runs[r].intent
  BY <1>1 DEF Row, Intent, Early, Over
<1> SUFFICES ASSUME NEW k \in Runs PROVE RunInv(k)'
  OBVIOUS
<1>30. CASE k = r
  <2>1. Row(k)'
    BY <1>30, <1>5, <1>8 DEF Row, Active
  <2>2. Intent(k)'
    BY <1>30 DEF Intent
  <2>3. Family(k)'
    BY <1>1, <1>7, <1>6, <1>9 DEF Family, Owners
  <2>4. Writing(k)'
    BY <1>30, <1>1, <1>3, <1>4, <1>5, <1>6, <1>8 DEF Writing
  <2>5. Logged(k)'
    BY <1>30, <1>5, <1>8 DEF Logged, Active
  <2>6. Known(k)'
    BY <1>30, <1>1, <1>9 DEF Known, Active
  <2> QED  BY <2>1, <2>2, <2>3, <2>4, <2>5, <2>6 DEF RunInv
<1>40. CASE k # r
  <2>0. /\ runs'[k] = runs[k] /\ exec'[k] = exec[k] /\ log'[k] = log[k]
        /\ Row(k) /\ Intent(k) /\ Family(k) /\ Writing(k) /\ Logged(k) /\ Known(k)
    BY <1>40, <1>1, <1>4, <1>5
  <2>1. Row(k)'
    BY <2>0 DEF Row
  <2>2. Intent(k)'
    BY <2>0 DEF Intent
  <2>3. Family(k)'
    BY <1>1, <1>7, <1>6, <1>9 DEF Family, Owners
  <2>4. Writing(k)'
    BY <2>0, <1>6 DEF Writing
  <2>5. Logged(k)'
    BY <2>0, <1>6 DEF Logged
  <2>6. Known(k)'
    BY <2>0 DEF Known
  <2> QED  BY <2>1, <2>2, <2>3, <2>4, <2>5, <2>6 DEF RunInv
<1> QED  BY <1>30, <1>40

(* While a server is not up nothing executes.                                *)
LEMMA WorksUp ==
    ASSUME Inv, NEW r \in Runs, exec[r].at # "none" \/ log[r].queue # <<>> \/ log[r].covered
    PROVE  server = "up"
<1> QED  BY DEF Inv, Starting, Idle

LEMMA GoesOnKeeps ==
    ASSUME Inv, NEW r \in Runs, exec[r].at \in Early,
           NEW x \in Early \cup {"stranded"}, NEW verdict \in Verdicts \cup {"none", "cut"},
           Moves(r, x, verdict), UNCHANGED <<runs, log, server, told>>
    PROVE  \A k \in Runs : RunInv(k)'
<1>1. /\ ~ runs[r].intent /\ runs[r].status \in Active \cup {"deleted"} /\ log \in [Runs -> Logs]
  BY DEF Inv, RunsTypeOK, RunInv, Row, Intent, Early, Over
<1>2. Owners /\ \A k \in Runs \ {r} : runs'[k] = runs[k]
  BY DEF Owners
<1>3. PICK l \in Words(r) : log' = [log EXCEPT ![r] = l]
  BY <1>1 DEF Words
<1>5. /\ runs'[r].status \in Active \cup {"deleted"} /\ ~ runs'[r].intent
      /\ runs[r].status = "deleted" => runs'[r].status = "deleted"
  BY <1>1
<1>6. UNCHANGED <<server, told>>
  OBVIOUS
<1> QED  BY <1>2, <1>3, <1>5, <1>6, MovesKeeps

LEMMA PreflightKeeps ==
    ASSUME Inv, NEW r \in Runs, Preflight(r)
    PROVE  \A k \in Runs : RunInv(k)'
<1>1. /\ exec[r].at = "preflight" /\ UNCHANGED <<runs, server, told>>
      /\ log \in [Runs -> Logs] /\ ~ runs[r].intent /\ runs[r].status \in Active \cup {"deleted"}
  BY DEF Preflight, Inv, RunsTypeOK, RunInv, Row, Intent, Early, Over
<1>2. Owners
  BY <1>1 DEF Owners
<1>3. CASE Moves(r, "begin", "none") /\ UNCHANGED log
  <2>1. PICK x \in Early \cup {"stranded"}, v \in Verdicts \cup {"none", "cut"} : x = "begin" /\ v = "none"
    BY DEF Early
  <2> QED  BY <1>1, <1>2, <1>3, <2>1, GoesOnKeeps DEF Early
<1>4. CASE Ends(r, "error", "failed")
  <2>1. exec[r].at \in Early /\ "error" \in Events /\ "failed" \in Verdicts
    BY <1>1 DEF Early, Events, Terminal, Verdicts
  <2> QED  BY <1>1, <1>2, <1>4, <2>1, EndsKeeps
<1> QED  BY <1>3, <1>4 DEF Preflight

LEMMA BeginKeeps ==
    ASSUME Inv, NEW r \in Runs, Begin(r)
    PROVE  \A k \in Runs : RunInv(k)'
<1>1. /\ exec[r].at = "begin" /\ UNCHANGED <<server, told>>
      /\ log \in [Runs -> Logs] /\ ~ runs[r].intent /\ runs[r].status \in Active \cup {"deleted"}
      /\ runs \in [Runs -> [agent : Agents \cup {NoRun}, parent : Runs \cup {NoRun},
                            status : Active \cup Verdicts \cup {"none", "deleted"},
                            intent : BOOLEAN]]
  BY DEF Begin, Inv, RunsTypeOK, RunInv, Row, Intent, Early, Over
<1>2. UNCHANGED <<server, told>>
  BY <1>1
<1>3. exec[r].at \in Early /\ "work" \in Early \cup {"stranded"} /\ "none" \in Verdicts \cup {"none"}
      /\ "stranded" \in Early \cup {"stranded"} /\ "step" \in Events
  BY <1>1 DEF Early, Events
<1>4. CASE runs' = [runs EXCEPT ![r].status = IF @ = "queued" THEN "running" ELSE @]
           /\ (\E l \in Appended(log[r], "step") : log' = [log EXCEPT ![r] = l])
           /\ Moves(r, "work", "none")
  <2>1. Owners /\ \A k \in Runs \ {r} : runs'[k] = runs[k]
    BY <1>1, <1>4 DEF Owners
  <2>2. /\ runs'[r].status \in Active \cup {"deleted"} /\ ~ runs'[r].intent
        /\ runs[r].status = "deleted" => runs'[r].status = "deleted"
    BY <1>1, <1>4 DEF Active
  <2>3. PICK l \in Words(r) : log' = [log EXCEPT ![r] = l]
    BY <1>3, <1>4 DEF Words
  <2> QED  BY <1>1, <1>2, <1>3, <1>4, <2>1, <2>2, <2>3, MovesKeeps
<1>5. CASE Moves(r, "stranded", "none") /\ UNCHANGED <<runs, log>>
  <2>1. PICK x \in Early \cup {"stranded"}, v \in Verdicts \cup {"none", "cut"} :
            x = "stranded" /\ v = "none"
    OBVIOUS
  <2> QED  BY <1>1, <1>2, <1>3, <1>5, <2>1, GoesOnKeeps
<1> QED  BY <1>4, <1>5 DEF Begin

LEMMA SingleEndsKeeps ==
    ASSUME Inv, NEW r \in Runs, SingleEnds(r)
    PROVE  \A k \in Runs : RunInv(k)'
<1>1. /\ exec[r].at = "work" /\ Kind(r) = "single" /\ UNCHANGED <<runs, server, told>>
      /\ ~ runs[r].intent /\ exec[r].at \in Early
  BY DEF SingleEnds, Inv, RunInv, Intent, Early
<1>2. Owners
  BY <1>1 DEF Owners
<1>3. CASE Ends(r, "ok", "completed")
  BY <1>1, <1>2, <1>3, EndsKeeps DEF Events, Terminal, Verdicts
<1>4. CASE \E verdict \in Failures(runs[r].agent) : Ends(r, "error", verdict)
  <2>1. PICK verdict \in Failures(runs[r].agent) : Ends(r, "error", verdict)
    BY <1>4
  <2>2. verdict \in Verdicts /\ verdict # "completed" /\ "error" \in Events
    BY DEF Failures, Verdicts, Events, Terminal
  <2> QED  BY <1>1, <1>2, <2>1, <2>2, EndsKeeps
<1> QED  BY <1>3, <1>4 DEF SingleEnds

LEMMA LeaderEndsKeeps ==
    ASSUME Inv, NEW r \in Runs, LeaderEnds(r)
    PROVE  \A k \in Runs : RunInv(k)'
<1>1. /\ exec[r].at = "work" /\ Kind(r) = "leader" /\ UNCHANGED <<runs, server, told>>
      /\ ~ runs[r].intent /\ exec[r].at \in Early /\ log' = SessionShut(r)
      /\ log \in [Runs -> Logs] /\ log[r] \in Logs
      /\ (log[r].truncated => Cut(log[r]) \/ log[r].broken) /\ (log[r].hushed => Kind(r) = "child")
  BY DEF LeaderEnds, Inv, RunsTypeOK, RunInv, Intent, Writing, Early
<1>2. Owners
  BY <1>1 DEF Owners
<1>3. PICK verdict \in Verdicts : Moves(r, "closing", verdict)
  <2>1. LeaderVerdicts(r) \subseteq Verdicts
    BY DEF LeaderVerdicts, Failures, Verdicts
  <2> QED  BY <2>1 DEF LeaderEnds
<1>4. \A k \in Runs : \/ log'[k] = log[k] /\ k # r
                      \/ Closes(log'[k], log[k]) /\ (k = r \/ runs[k].parent = r)
  BY <1>1, SessionShutKeeps
<1> QED  BY <1>1, <1>2, <1>3, <1>4, ClosingKeeps

LEMMA ChildEndsKeeps ==
    ASSUME Inv, NEW r \in Runs, ChildEnds(r)
    PROVE  \A k \in Runs : RunInv(k)'
<1>1. /\ exec[r].at = "work" /\ Kind(r) = "child" /\ UNCHANGED <<runs, server, told>>
      /\ ~ runs[r].intent /\ exec[r].at \in Early /\ runs[r].status \in Active \cup {"deleted"}
      /\ log \in [Runs -> Logs]
  BY DEF ChildEnds, Inv, RunsTypeOK, RunInv, Row, Intent, Early, Over
<1>2. Owners
  BY <1>1 DEF Owners
<1>3. ASSUME NEW x \in {"intent", "stranded"}, NEW verdict \in {"completed", "cut"},
             Moves(r, x, verdict), UNCHANGED log
      PROVE  \A k \in Runs : RunInv(k)'
  <2>1. x \in Early \cup {"stranded"} /\ verdict \in Verdicts \cup {"none", "cut"}
    BY DEF Early, Verdicts
  <2> QED  BY <1>1, <1>2, <1>3, <2>1, GoesOnKeeps
<1>4. CASE \E verdict \in Failures(runs[runs[r].parent].agent) : Ends(r, "error", verdict)
  <2>1. PICK verdict \in Failures(runs[runs[r].parent].agent) : Ends(r, "error", verdict)
    BY <1>4
  <2>2. verdict \in Verdicts /\ verdict # "completed" /\ "error" \in Events
    BY DEF Failures, Verdicts, Events, Terminal
  <2> QED  BY <1>1, <1>2, <2>1, <2>2, EndsKeeps
<1> QED  BY <1>3, <1>4 DEF ChildEnds

LEMMA StoreIntentKeeps ==
    ASSUME Inv, NEW r \in Runs, StoreIntent(r)
    PROVE  \A k \in Runs : RunInv(k)'
<1>1. /\ exec[r].at \in {"intent", "intent again"} /\ UNCHANGED <<server, told>>
      /\ ~ runs[r].intent /\ exec[r].at \in Early /\ runs[r].status \in Active \cup {"deleted"}
      /\ log \in [Runs -> Logs]
      /\ runs \in [Runs -> [agent : Agents \cup {NoRun}, parent : Runs \cup {NoRun},
                            status : Active \cup Verdicts \cup {"none", "deleted"},
                            intent : BOOLEAN]]
  BY DEF StoreIntent, Inv, RunsTypeOK, RunInv, Row, Intent, Early, Over
<1>2. UNCHANGED <<server, told>>
  BY <1>1
<1>3. ASSUME runs[r].status = "running", runs' = [runs EXCEPT ![r].intent = TRUE],
             Ends(r, "ok", "completed")
      PROVE  \A k \in Runs : RunInv(k)'
  <2>1. Owners /\ (\A k \in Runs \ {r} : runs'[k] = runs[k])
        /\ \A k \in Runs : runs'[k].status = runs[k].status
    BY <1>1, <1>3 DEF Owners
  <2>2. "ok" \in Events /\ "completed" \in Verdicts
    BY DEF Events, Terminal, Verdicts
  <2> QED  BY <1>1, <1>2, <1>3, <2>1, <2>2, EndsKeeps
<1>4. ASSUME UNCHANGED runs, Ends(r, "error", "failed")
      PROVE  \A k \in Runs : RunInv(k)'
  <2>1. Owners
    BY <1>4 DEF Owners
  <2> QED  BY <1>1, <1>2, <1>4, <2>1, EndsKeeps DEF Events, Terminal, Verdicts
<1>5. ASSUME UNCHANGED <<runs, log>>, Moves(r, "intent again", "completed")
      PROVE  \A k \in Runs : RunInv(k)'
  <2>1. PICK x \in Early \cup {"stranded"}, v \in Verdicts \cup {"none", "cut"} :
            x = "intent again" /\ v = "completed"
    BY DEF Early, Verdicts
  <2> QED  BY <1>1, <1>2, <1>5, <2>1, GoesOnKeeps
<1> QED  BY <1>3, <1>4, <1>5 DEF StoreIntent

LEMMA FlushStepKeeps ==
    ASSUME Inv, NEW r \in Runs, Flush(r)
    PROVE  \A k \in Runs : RunInv(k)'
<1>1. /\ log \in [Runs -> Logs] /\ log[r] \in Logs /\ log[r].queue # <<>>
      /\ UNCHANGED <<runs, exec, server, told>>
      /\ \A k \in Runs : Row(k) /\ Intent(k) /\ Family(k) /\ Writing(k) /\ Logged(k) /\ Known(k)
  BY DEF Flush, Inv, RunsTypeOK, RunInv
<1>2. \A k \in Runs : Kind(k)' = Kind(k)
  BY <1>1, OwnersKeep DEF Owners
<1>3. PICK n : /\ log' = [log EXCEPT ![r] = n] /\ n.closed = log[r].closed /\ n.complete = log[r].complete
               /\ n.covered = log[r].covered /\ n.hushed = log[r].hushed
               /\ n.truncated = log[r].truncated
               /\ \/ n.broken
                  \/ /\ n.broken = log[r].broken /\ (Cut(n) <=> Cut(log[r]))
                     /\ n.disk \o n.queue = log[r].disk \o log[r].queue
  <2> DEFINE a == [log[r] EXCEPT !.disk = Append(@, Head(log[r].queue)), !.queue = Tail(@)]
             b == [log[r] EXCEPT !.queue = Tail(@), !.broken = TRUE]
  <2>1. /\ a \in Logs /\ b \in Logs
        /\ Append(log[r].disk, Head(log[r].queue)) \o Tail(log[r].queue) = log[r].disk \o log[r].queue
    BY <1>1, FlushKeeps
  <2>2. CASE log' = [log EXCEPT ![r].disk = Append(@, Head(log[r].queue)), ![r].queue = Tail(@)]
    <3>1. log' = [log EXCEPT ![r] = a]
      BY <2>2
    <3>2. /\ a.covered = log[r].covered /\ a.hushed = log[r].hushed
          /\ a.closed = log[r].closed /\ a.complete = log[r].complete /\ a.truncated = log[r].truncated
          /\ a.broken = log[r].broken
          /\ a.disk = Append(log[r].disk, Head(log[r].queue)) /\ a.queue = Tail(log[r].queue)
      BY <1>1 DEF Logs
    <3> HIDE DEF a
    <3>3. a.disk \o a.queue = log[r].disk \o log[r].queue
      BY <2>1, <3>2
    <3>4. Cut(a) <=> Cut(log[r])
      BY <3>3 DEF Cut
    <3> QED  BY <3>1, <3>2, <3>3, <3>4
  <2>3. CASE log' = [log EXCEPT ![r].queue = Tail(@), ![r].broken = TRUE]
    <3>1. log' = [log EXCEPT ![r] = b]
      BY <2>3
    <3>2. /\ b.covered = log[r].covered /\ b.hushed = log[r].hushed
          /\ b.closed = log[r].closed /\ b.complete = log[r].complete /\ b.truncated = log[r].truncated
          /\ b.broken
      BY <1>1 DEF Logs
    <3> HIDE DEF b
    <3> QED  BY <3>1, <3>2
  <2> QED  BY <2>2, <2>3 DEF Flush
<1>4. log'[r] = n /\ \A k \in Runs \ {r} : log'[k] = log[k]
  BY <1>1, <1>3
<1>5. \A k \in Runs : log'[k].closed = log[k].closed
  BY <1>3, <1>4
<1>6. /\ runs[r].status # "none" /\ ~ log[r].complete
      /\ exec[r].at \notin {"write", "write again"}
      /\ Kind(r) # "leader" => runs[r].status # "completed"
  <2>1. runs[r].status # "none"
    BY <1>1 DEF Row, NoLog
  <2>2. ~ log[r].complete /\ exec[r].at \notin {"write", "write again"}
    BY <1>1 DEF Writing
  <2>3. Kind(r) # "leader" => runs[r].status # "completed"
    BY <1>1, <2>1 DEF Logged
  <2> QED  BY <2>1, <2>2, <2>3
<1> SUFFICES ASSUME NEW k \in Runs PROVE RunInv(k)'
  OBVIOUS
<1>7. Family(k)' /\ Intent(k)'
  BY <1>1, <1>2 DEF Family, Intent
<1>30. CASE k = r
  <2>1. Row(k)'
    BY <1>30, <1>1, <1>6 DEF Row
  <2>4. Writing(k)'
    <3>1. ~ n.complete
      BY <1>3, <1>6
    <3>2. n.truncated => Cut(n) \/ n.broken
      BY <1>1, <1>3 DEF Writing
    <3>3. exec[r].at \in Early /\ Kind(r) # "child" => ~ n.closed
      BY <1>1, <1>3 DEF Writing
    <3>4. /\ exec[r].at \in Late => n.closed
          /\ n.covered => n.closed
          /\ n.hushed => Kind(r) = "child"
      BY <1>1, <1>3 DEF Writing
    <3>5. exec' = exec /\ log'[r] = n /\ Kind(r)' = Kind(r)
          /\ exec[r].at \notin {"write", "write again"}
      BY <1>1, <1>2, <1>4, <1>6
    <3>6. Cut(log[r])' <=> Cut(n)
      BY <3>5 DEF Cut
    <3> QED  BY <1>30, <3>1, <3>2, <3>3, <3>4, <3>5, <3>6 DEF Writing
  <2>5. Logged(k)'
    BY <1>30, <1>1, <1>2, <1>3, <1>4, <1>6 DEF Logged
  <2>6. Known(k)'
    BY <1>30, <1>1 DEF Known
  <2> QED  BY <1>7, <2>1, <2>4, <2>5, <2>6 DEF RunInv
<1>40. CASE k # r
  <2>0. log'[k] = log[k]
    BY <1>40, <1>4
  <2>1. Row(k)'
    BY <2>0, <1>1 DEF Row
  <2>4. Writing(k)'
    BY <2>0, <1>1, <1>2, <1>5 DEF Writing
  <2>5. Logged(k)'
    BY <2>0, <1>1, <1>2 DEF Logged
  <2>6. Known(k)'
    BY <2>0, <1>1 DEF Known
  <2> QED  BY <1>7, <2>1, <2>4, <2>5, <2>6 DEF RunInv
<1> QED  BY <1>30, <1>40

(* A run is born with a first place, and a child with a leader at work.      *)
LEMMA BornKeeps ==
    ASSUME Inv, NEW c \in Runs, runs[c].status = "none", NEW x,
           runs' = [runs EXCEPT ![c] = x], x.status \in Active, ~ x.intent,
           x.parent \in Runs =>
              Kind(x.parent) = "leader" /\ runs[x.parent].status # "none",
           NEW y \in Early, Moves(c, y, "none"),
           NEW l \in Words(c), log' = [log EXCEPT ![c] = l],
           UNCHANGED <<server, told>>
    PROVE  \A k \in Runs : RunInv(k)'
<1>1. /\ log \in [Runs -> Logs] /\ log[c] \in Logs /\ runs'[c] = x
      /\ \A k \in Runs \ {c} : runs'[k] = runs[k]
      /\ exec \in [Runs -> [at : Early \cup Late \cup Over, verdict : Verdicts \cup {"none", "cut"}]]
      /\ \A k \in Runs : Row(k) /\ Intent(k) /\ Family(k) /\ Writing(k) /\ Logged(k) /\ Known(k)
  BY DEF Inv, RunsTypeOK, RunInv
<1>2. /\ runs[c] = Unborn /\ exec[c] = Idle /\ log[c] = NoLog /\ c \notin told
  BY <1>1 DEF Row, Known
<1>3. ~ l.closed /\ ~ l.complete /\ ~ l.covered /\ ~ l.hushed /\ (l.truncated => Cut(l) \/ l.broken)
  <2>1. CASE l = log[c]
    BY <2>1, <1>2 DEF NoLog
  <2>2. CASE \E event \in Events : l \in Appended(log[c], event)
    <3>1. /\ ~ log[c].closed /\ ~ log[c].complete /\ ~ log[c].truncated
          /\ ~ log[c].covered /\ ~ log[c].hushed
      BY <1>2 DEF NoLog
    <3> QED  BY <2>2, <3>1, <1>1, AppendedKeeps
  <2> QED  BY <2>1, <2>2 DEF Words
<1>4. log'[c] = l /\ \A k \in Runs \ {c} : log'[k] = log[k]
  BY <1>1
<1>5. exec'[c].at = y /\ \A k \in Runs \ {c} : exec'[k] = exec[k]
  BY <1>1 DEF Moves
<1>6. \A k \in Runs : runs[k].parent # c
  BY <1>1 DEF Family
<1>7. \A k \in Runs \ {c} : Kind(k)' = Kind(k)
  BY <1>1 DEF Kind
<1>8. y \notin Late /\ y # "closing" /\ y \notin {"write", "write again"} /\ y \notin Over
  BY DEF Late, Early, Over
<1> SUFFICES ASSUME NEW k \in Runs PROVE RunInv(k)'
  OBVIOUS
<1>30. CASE k = c
  <2>1. Row(k)'
    BY <1>30, <1>1, <1>5, <1>8 DEF Row, Active
  <2>2. Intent(k)'
    BY <1>30, <1>1 DEF Intent
  <2>3. Family(k)'
    <3>1. SUFFICES ASSUME NEW p \in Runs, x.parent = p
                   PROVE  Kind(p)' = "leader" /\ runs'[p].status # "none"
      BY <1>30, <1>1 DEF Family
    <3>2. Kind(p) = "leader" /\ runs[p].status # "none" /\ p # c
      BY <3>1
    <3> QED  BY <3>2, <1>1, <1>7
  <2>4. Writing(k)'
    BY <1>30, <1>3, <1>4, <1>5, <1>8 DEF Writing
  <2>5. Logged(k)'
    BY <1>30, <1>1, <1>5, <1>8 DEF Logged, Active
  <2>6. Known(k)'
    BY <1>30, <1>2 DEF Known
  <2> QED  BY <2>1, <2>2, <2>3, <2>4, <2>5, <2>6 DEF RunInv
<1>40. CASE k # c
  <2>0. /\ runs'[k] = runs[k] /\ exec'[k] = exec[k] /\ log'[k] = log[k] /\ Kind(k)' = Kind(k)
        /\ Row(k) /\ Intent(k) /\ Family(k) /\ Writing(k) /\ Logged(k) /\ Known(k)
    BY <1>40, <1>1, <1>4, <1>5, <1>7
  <2>1. Row(k)'
    BY <2>0 DEF Row
  <2>2. Intent(k)'
    BY <2>0 DEF Intent
  <2>3. Family(k)'
    <3>1. SUFFICES ASSUME NEW p \in Runs, runs[k].parent = p
                   PROVE  Kind(p)' = "leader" /\ runs'[p].status # "none"
      BY <2>0 DEF Family
    <3>2. Kind(p) = "leader" /\ runs[p].status # "none" /\ p # c
      BY <3>1, <2>0, <1>6 DEF Family
    <3> QED  BY <3>2, <1>1, <1>7
  <2>4. Writing(k)'
    BY <2>0 DEF Writing
  <2>5. Logged(k)'
    BY <2>0 DEF Logged
  <2>6. Known(k)'
    BY <2>0 DEF Known
  <2> QED  BY <2>1, <2>2, <2>3, <2>4, <2>5, <2>6 DEF RunInv
<1> QED  BY <1>30, <1>40

LEMMA SendKeeps ==
    ASSUME Inv, NEW a \in Agents, NEW r \in Runs, Send(a, r)
    PROVE  \A k \in Runs : RunInv(k)'
<1>1. PICK x : /\ runs' = [runs EXCEPT ![r] = x] /\ x.status \in Active /\ ~ x.intent
               /\ x.parent \notin Runs
  <2> DEFINE u == [Unborn EXCEPT !.agent = a, !.status = "queued"]
  <2>1. runs' = [runs EXCEPT ![r] = u]
    BY DEF Send
  <2>2. u.status \in Active /\ ~ u.intent /\ u.parent \notin Runs
    BY LifecycleAssumption DEF Unborn, Active
  <2> HIDE DEF u
  <2> QED  BY <2>1, <2>2
<1>2. PICK l \in Words(r) : log' = [log EXCEPT ![r] = l]
  BY DEF Words, Send, Inv, RunsTypeOK
<1>3. PICK y \in Early : Moves(r, y, "none")
  BY DEF Send, Early
<1>4. runs[r].status = "none" /\ UNCHANGED <<server, told>>
  BY DEF Send, Fresh
<1> QED  BY <1>1, <1>2, <1>3, <1>4, BornKeeps

LEMMA DispatchKeeps ==
    ASSUME Inv, NEW r \in Runs, NEW a \in Agents, NEW c \in Runs, Dispatch(r, a, c)
    PROVE  \A k \in Runs : RunInv(k)'
<1>1. PICK x : /\ runs' = [runs EXCEPT ![c] = x] /\ x.status \in Active /\ ~ x.intent
               /\ x.parent = r
  <2> DEFINE u == [agent |-> a, parent |-> r, status |-> "running", intent |-> FALSE]
  <2>1. runs' = [runs EXCEPT ![c] = u]
    BY DEF Dispatch
  <2>2. u.status \in Active /\ ~ u.intent /\ u.parent = r
    BY DEF Active
  <2> HIDE DEF u
  <2> QED  BY <2>1, <2>2
<1>2. PICK l \in Words(c) : log' = [log EXCEPT ![c] = l]
  BY DEF Words, Dispatch, Events
<1>3. PICK y \in Early : Moves(c, y, "none")
  BY DEF Dispatch, Early
<1>4. runs[c].status = "none" /\ UNCHANGED <<server, told>>
  BY DEF Dispatch, Fresh
<1>5. Kind(r) = "leader" /\ runs[r].status # "none"
  <2>1. Row(r) /\ Writing(r)
    BY DEF Inv, RunInv
  <2>2. CASE exec[r].at = "work"
    BY <2>1, <2>2 DEF Dispatch, Row, Idle
  <2>3. CASE Abandoned(r)
    BY <2>1, <2>3 DEF Dispatch, Abandoned, Row, NoLog
  <2> QED  BY <2>2, <2>3 DEF Dispatch
<1> QED  BY <1>1, <1>2, <1>3, <1>4, <1>5, BornKeeps

(* A publication goes on or is given up, and what it rests on stays.         *)
LEMMA LateMovesKeeps ==
    ASSUME Inv, NEW r \in Runs, exec[r].at \in Late,
           NEW x \in {"write again", "done", "stranded"}, NEW verdict,
           Moves(r, x, verdict), UNCHANGED <<runs, log, server, told>>,
           x = "write again" => verdict = exec[r].verdict /\ exec[r].at = "write"
    PROVE  \A k \in Runs : RunInv(k)'
<1>1. /\ exec \in [Runs -> [at : Early \cup Late \cup Over, verdict : Verdicts \cup {"none", "cut"}]]
      /\ \A k \in Runs : Row(k) /\ Intent(k) /\ Family(k) /\ Writing(k) /\ Logged(k) /\ Known(k)
  BY DEF Inv, RunsTypeOK, RunInv
<1>2. /\ exec'[r].at = x /\ exec'[r].verdict = verdict
      /\ \A k \in Runs \ {r} : exec'[k] = exec[k]
  BY <1>1 DEF Moves
<1>3. \A k \in Runs : Kind(k)' = Kind(k)
  BY OwnersKeep DEF Owners
<1>4. x \notin Early /\ x # "closing" /\ x # "write" /\ (x \in Late => x = "write again")
      /\ (x \notin Over => x = "write again")
  BY DEF Early, Late, Over
<1>5. runs[r].status \in Active \cup {"deleted"}
  BY <1>1 DEF Row, Late, Over
<1> SUFFICES ASSUME NEW k \in Runs PROVE RunInv(k)'
  OBVIOUS
<1>6. Known(k)' /\ Family(k)'
  BY <1>1, <1>3 DEF Known, Family
<1>30. CASE k = r
  <2>1. Row(k)'
    BY <1>30, <1>1, <1>2, <1>4, <1>5 DEF Row, Active
  <2>2. Intent(k)'
    BY <1>30, <1>1, <1>2, <1>4 DEF Intent
  <2>4. Writing(k)'
    BY <1>30, <1>1, <1>2, <1>3, <1>4 DEF Writing
  <2>5. Logged(k)'
    BY <1>30, <1>1, <1>2, <1>3, <1>4, <1>5 DEF Logged, Active
  <2> QED  BY <1>6, <2>1, <2>2, <2>4, <2>5 DEF RunInv
<1>40. CASE k # r
  <2>0. exec'[k] = exec[k]
    BY <1>40, <1>2
  <2>1. Row(k)' /\ Intent(k)'
    BY <2>0, <1>1 DEF Row, Intent
  <2>4. Writing(k)'
    BY <2>0, <1>1, <1>3 DEF Writing
  <2>5. Logged(k)'
    BY <2>0, <1>1, <1>3 DEF Logged
  <2> QED  BY <1>6, <2>1, <2>4, <2>5 DEF RunInv
<1> QED  BY <1>30, <1>40

LEMMA CloseEndsKeeps ==
    ASSUME Inv, NEW r \in Runs, CloseEnds(r)
    PROVE  \A k \in Runs : RunInv(k)'
<1>1. /\ log \in [Runs -> Logs]
      /\ exec \in [Runs -> [at : Early \cup Late \cup Over, verdict : Verdicts \cup {"none", "cut"}]]
      /\ \A k \in Runs : Row(k) /\ Intent(k) /\ Family(k) /\ Writing(k) /\ Logged(k) /\ Known(k)
      /\ exec[r].at = "closing" /\ UNCHANGED <<runs, server, told>> /\ Drained(r)
  BY DEF Inv, RunsTypeOK, RunInv, CloseEnds
<1>2. CASE Moves(r, "stranded", exec[r].verdict) /\ UNCHANGED log
  <2>1. PICK x \in {"write again", "done", "stranded"}, v \in {exec[r].verdict} : x = "stranded"
    OBVIOUS
  <2>2. exec[r].at \in Late /\ UNCHANGED <<runs, log, server, told>>
    BY <1>1, <1>2 DEF Late
  <2> QED  BY <1>2, <2>1, <2>2, LateMovesKeeps
<1>3. CASE ~ Broken(r) /\ Moves(r, "write", exec[r].verdict) /\ log' = Completed(r)
  <2>1. /\ exec'[r].at = "write" /\ exec'[r].verdict = exec[r].verdict
        /\ \A k \in Runs \ {r} : exec'[k] = exec[k]
    BY <1>1, <1>3 DEF Moves
  <2>2. \A k \in Runs :
          /\ Alike(log'[k], log[k]) /\ (Cut(log'[k]) <=> Cut(log[k]))
          /\ log'[k].closed = log[k].closed /\ log'[k].covered = log[k].covered
          /\ k \notin Barrier(r) => log'[k] = log[k]
    BY <1>1, <1>3, CompletedKeeps, AlikeCut
  <2>3. \A k \in Runs : Kind(k)' = Kind(k)
    BY <1>1, OwnersKeep DEF Owners
  <2>4. \A k \in Barrier(r) : log[k].closed /\ log[k].queue = <<>> /\ ~ log[k].broken
    BY <1>1, <1>3 DEF Writing, Late, Drained, Broken, Barrier, Children
  <2>5. r \in Barrier(r) /\ runs[r].status \in Active \cup {"deleted"} /\ exec[r].verdict \in Verdicts
    BY <1>1 DEF Barrier, Row, Late, Over
  <2>6. ASSUME NEW k \in Barrier(r)
        PROVE  runs[k].status # "none"
    <3>1. k = r \/ (k \in Runs /\ runs[k].parent = r)
      BY DEF Barrier, Children
    <3> QED  BY <3>1, <2>5, <1>1, LifecycleAssumption DEF Row, Unborn, Active
  <2> SUFFICES ASSUME NEW k \in Runs PROVE RunInv(k)'
    OBVIOUS
  <2>10. /\ Alike(log'[k], log[k]) /\ (Cut(log'[k]) <=> Cut(log[k]))
         /\ log'[k].closed = log[k].closed /\ log'[k].covered = log[k].covered
    BY <2>2
  <2>11. Known(k)' /\ Family(k)'
    BY <2>10, <2>3, <1>1 DEF Known, Family, Alike
  <2>13. log'[k].complete => log'[k].closed /\ log'[k].queue = <<>>
    <3>1. CASE k \in Barrier(r)
      BY <3>1, <2>4, <2>10 DEF Alike
    <3>2. CASE k \notin Barrier(r)
      BY <3>2, <2>2, <1>1 DEF Writing
    <3> QED  BY <3>1, <3>2
  <2>14. log'[k].truncated => Cut(log'[k]) \/ log'[k].broken
    BY <2>10, <1>1 DEF Writing, Alike
  <2>30. CASE k = r
    <3>1. Row(k)' /\ Intent(k)'
      BY <2>30, <1>1, <2>1, <2>5 DEF Row, Intent, Late, Early, Over, Active
    <3>4. Writing(k)'
      <4>1. log'[k].closed /\ log'[k].queue = <<>>
        BY <2>30, <2>4, <2>5, <2>10 DEF Alike
      <4>2. log'[k].hushed => Kind(k)' = "child"
        BY <2>3, <2>10, <1>1 DEF Writing, Alike
      <4> QED  BY <4>1, <4>2, <2>30, <2>1, <2>13, <2>14 DEF Writing, Early
    <3>5. Logged(k)'
      <4>1. ASSUME Kind(r) # "leader", exec[r].verdict = "completed"
            PROVE  log[r].hushed \/ Cut(log[r]) \/ EndsOk(log[r].disk)
        <5> DEFINE d == log[r].disk
        <5>1. d \in Seq(Events) /\ log[r].queue = <<>> /\ ~ log[r].broken
          BY <1>1, <2>4, <2>5 DEF Logs
        <5>2. d \o log[r].queue = d
          <6> HIDE DEF d
          <6> QED  BY <5>1, WholeAlone
        <5>3. log[r].hushed \/ Cut(log[r]) \/ EndsOk(d \o log[r].queue)
          BY <4>1, <1>1, <2>5, <5>1 DEF Logged, Active
        <5> QED  BY <5>2, <5>3
      <4> QED  BY <4>1, <2>30, <2>1, <2>3, <2>5, <2>10, <1>1 DEF Logged, Alike, Active
    <3> QED  BY <2>11, <3>1, <3>4, <3>5 DEF RunInv
  <2>40. CASE k # r
    <3>0. exec'[k] = exec[k]
      BY <2>40, <2>1
    <3>1. Row(k)' /\ Intent(k)'
      BY <3>0, <1>1, <2>2, <2>6 DEF Row, Intent
    <3>4. Writing(k)'
      BY <3>0, <1>1, <2>3, <2>10, <2>13, <2>14 DEF Writing, Alike
    <3>5. Logged(k)'
      BY <3>0, <1>1, <2>3, <2>10 DEF Logged, Alike
    <3> QED  BY <2>11, <3>1, <3>4, <3>5 DEF RunInv
  <2> QED  BY <2>30, <2>40
<1> QED  BY <1>2, <1>3 DEF CloseEnds

LEMMA FinalWriteKeeps ==
    ASSUME Inv, NEW r \in Runs, FinalWrite(r)
    PROVE  \A k \in Runs : RunInv(k)'
<1> DEFINE verdict == exec[r].verdict
<1>1. /\ exec[r].at \in {"write", "write again"} /\ exec[r].at \in Late
      /\ UNCHANGED <<log, server, told>>
      /\ runs \in [Runs -> [agent : Agents \cup {NoRun}, parent : Runs \cup {NoRun},
                            status : Active \cup Verdicts \cup {"none", "deleted"},
                            intent : BOOLEAN]]
      /\ exec \in [Runs -> [at : Early \cup Late \cup Over, verdict : Verdicts \cup {"none", "cut"}]]
      /\ \A k \in Runs : Row(k) /\ Intent(k) /\ Family(k) /\ Writing(k) /\ Logged(k) /\ Known(k)
  BY DEF FinalWrite, Inv, RunsTypeOK, RunInv, Late
<1>2. verdict \in Verdicts /\ runs[r].status \in Active \cup {"deleted"}
  BY <1>1 DEF Row, Late, Over
<1>3. ASSUME NEW x \in {"write again", "done", "stranded"}, NEW v, Moves(r, x, v), UNCHANGED runs,
             x = "write again" => v = verdict /\ exec[r].at = "write"
      PROVE  \A k \in Runs : RunInv(k)'
  <2>1. UNCHANGED <<runs, log, server, told>>
    BY <1>1, <1>3
  <2> QED  BY <1>1, <1>3, <2>1, LateMovesKeeps
<1>4. CASE /\ IF runs[r].status = "deleted" THEN UNCHANGED runs
              ELSE runs' = [runs EXCEPT ![r].status = verdict]
           /\ Moves(r, "done", verdict)
  <2>1. CASE runs[r].status = "deleted"
    BY <1>3, <1>4, <2>1
  <2>2. CASE runs[r].status # "deleted"
    <3>1. /\ runs'[r].status = verdict /\ runs'[r].intent = runs[r].intent
          /\ \A k \in Runs \ {r} : runs'[k] = runs[k]
          /\ Owners
      <4>1. runs' = [runs EXCEPT ![r].status = verdict]
        BY <1>4, <2>2
      <4> HIDE DEF verdict
      <4>2. \A k \in Runs : k # r => runs'[k] = runs[k]
        BY <1>1, <4>1
      <4>3. /\ runs'[r].status = verdict /\ runs'[r].intent = runs[r].intent
            /\ runs'[r].agent = runs[r].agent /\ runs'[r].parent = runs[r].parent
        BY <1>1, <4>1
      <4> QED  BY <4>2, <4>3 DEF Owners
    <3>2. exec'[r].at = "done" /\ \A k \in Runs \ {r} : exec'[k] = exec[k]
      BY <1>1, <1>4 DEF Moves
    <3>3. \A k \in Runs : Kind(k)' = Kind(k)
      BY <3>1, OwnersKeep
    <3>4. verdict \notin {"none", "queued", "running", "deleted"}
      BY <1>2 DEF Verdicts
    <3> SUFFICES ASSUME NEW k \in Runs PROVE RunInv(k)'
      OBVIOUS
    <3>6. Family(k)'
      <4>1. \A p \in Runs : runs[p].status # "none" => runs'[p].status # "none"
        BY <3>1, <3>4
      <4>2. Family(k) /\ runs'[k].parent = runs[k].parent
        BY <1>1, <3>1 DEF Owners
      <4> QED  BY <4>1, <4>2, <3>3 DEF Family
    <3>30. CASE k = r
      <4>1. Row(k)' /\ Intent(k)'
        BY <3>30, <3>1, <3>2, <3>4 DEF Row, Intent, Over, Early, Late
      <4>4. Writing(k)'
        BY <3>30, <1>1, <3>2, <3>3 DEF Writing, Early, Late
      <4>5. Logged(k)'
        <5>1. Kind(r) # "leader" /\ verdict = "completed" =>
                  log[r].queue = <<>> /\ (log[r].hushed \/ Cut(log[r]) \/ EndsOk(log[r].disk))
          BY <1>1, <1>2 DEF Logged, Writing, Active
        <5> QED  BY <5>1, <3>30, <1>1, <3>1, <3>2, <3>3 DEF Logged
      <4>6. Known(k)'
        <5>1. r \in told => runs[r].intent
          BY <1>1, <1>2, <2>2 DEF Known, Active
        <5>2. runs[r].intent => verdict = "completed"
          BY <1>1 DEF Intent
        <5> QED  BY <5>1, <5>2, <3>30, <1>1, <3>1 DEF Known
      <4> QED  BY <3>6, <4>1, <4>4, <4>5, <4>6 DEF RunInv
    <3>40. CASE k # r
      <4>0. runs'[k] = runs[k] /\ exec'[k] = exec[k]
        BY <3>40, <3>1, <3>2
      <4>1. Row(k)' /\ Intent(k)'
        BY <4>0, <1>1 DEF Row, Intent
      <4>4. Writing(k)'
        BY <4>0, <1>1, <3>3 DEF Writing
      <4>5. Logged(k)' /\ Known(k)'
        BY <4>0, <1>1, <3>3 DEF Logged, Known
      <4> QED  BY <3>6, <4>1, <4>4, <4>5 DEF RunInv
    <3> QED  BY <3>30, <3>40
  <2> QED  BY <2>1, <2>2
<1>5. CASE /\ IF exec[r].at = "write" THEN Moves(r, "write again", verdict)
              ELSE IF Kind(r) = "child" /\ verdict = "completed" THEN Moves(r, "done", verdict)
              ELSE Moves(r, "stranded", verdict)
           /\ UNCHANGED runs
  BY <1>3, <1>5
<1> QED  BY <1>4, <1>5 DEF FinalWrite

(* The steps that touch neither rows, logs nor executions.                   *)
LEMMA QuietKeeps ==
    ASSUME Inv, UNCHANGED <<runs, log, exec, server>>,
           \A k \in Runs : k \in told' => k \in told
    PROVE  \A k \in Runs : RunInv(k)'
<1> SUFFICES ASSUME NEW k \in Runs PROVE RunInv(k)'
  OBVIOUS
<1>1. Row(k) /\ Intent(k) /\ Family(k) /\ Writing(k) /\ Logged(k) /\ Known(k)
  BY DEF Inv, RunInv
<1>2. \A j \in Runs : Kind(j)' = Kind(j)
  BY OwnersKeep DEF Owners
<1>3. Row(k)' /\ Intent(k)'
  BY <1>1 DEF Row, Intent
<1>4. Family(k)'
  BY <1>1, <1>2 DEF Family
<1>5. Writing(k)'
  BY <1>1, <1>2 DEF Writing
<1>6. Logged(k)'
  BY <1>1, <1>2 DEF Logged
<1>7. Known(k)'
  BY <1>1 DEF Known
<1> QED  BY <1>3, <1>4, <1>5, <1>6, <1>7 DEF RunInv

LEMMA PollKeeps ==
    ASSUME Inv, Poll
    PROVE  \A k \in Runs : RunInv(k)'
<1> SUFFICES ASSUME NEW k \in Runs PROVE RunInv(k)'
  OBVIOUS
<1>0. UNCHANGED <<runs, log, exec, server>> /\ server = "up"
  BY DEF Poll
<1>1. /\ Row(k) /\ Intent(k) /\ Family(k) /\ Writing(k) /\ Logged(k) /\ Known(k)
      /\ log[k] \in Logs
  BY DEF Inv, RunsTypeOK, RunInv
<1>2. \A j \in Runs : Kind(j)' = Kind(j)
  BY <1>0, OwnersKeep DEF Owners
<1>3. Row(k)' /\ Intent(k)'
  BY <1>0, <1>1 DEF Row, Intent
<1>4. Family(k)'
  BY <1>0, <1>1, <1>2 DEF Family
<1>5. Writing(k)'
  BY <1>0, <1>1, <1>2 DEF Writing
<1>6. Logged(k)'
  BY <1>0, <1>1, <1>2 DEF Logged
<1>7. Known(k)'
  <2>1. CASE k \notin told'
    BY <2>1 DEF Known
  <2>2. CASE k \in told
    BY <2>2, <1>0, <1>1 DEF Known
  <2>3. CASE k \notin told /\ Shown(k) = "completed"
    <3>1. CASE runs[k].status = "completed"
      BY <3>1, <1>0 DEF Known
    <3>2. CASE runs[k].status \in Active /\ runs[k].intent /\ HasClosedTerminal(log[k])
      <4> DEFINE d == log[k].disk
      <4>1. /\ log[k].closed /\ log[k].complete /\ ~ log[k].broken
            /\ EndsOk(log[k].disk \o log[k].queue)
        BY <3>2 DEF HasClosedTerminal
      <4>2. log[k].queue = <<>> /\ d \in Seq(Events)
        BY <4>1, <1>1 DEF Writing, Logs
      <4>3. d \o <<>> = d
        <5> HIDE DEF d
        <5> QED  BY <4>2, WholeAlone
      <4>4. EndsOk(log[k].disk)
        BY <4>1, <4>2, <4>3
      <4>5. runs[k].status = "running"
        BY <3>2, <1>1 DEF Intent, Active
      <4> QED  BY <3>2, <4>1, <4>2, <4>4, <4>5, <1>0 DEF Known
    <3> QED  BY <2>3, <3>1, <3>2 DEF Shown
  <2> QED  BY <2>1, <2>2, <2>3 DEF Poll
<1> QED  BY <1>3, <1>4, <1>5, <1>6, <1>7 DEF RunInv

(* A deletion takes rows away, and leaves the rest.                          *)
LEMMA DeleteKeeps ==
    ASSUME Inv, NEW a \in Agents, DeleteEnds(a)
    PROVE  \A k \in Runs : RunInv(k)'
<1> SUFFICES ASSUME NEW k \in Runs PROVE RunInv(k)'
  OBVIOUS
<1>0. /\ UNCHANGED <<log, exec, server, told>>
      /\ runs \in [Runs -> [agent : Agents \cup {NoRun}, parent : Runs \cup {NoRun},
                            status : Active \cup Verdicts \cup {"none", "deleted"},
                            intent : BOOLEAN]]
      /\ runs' = [r \in Runs |-> IF runs[r].agent = a
                                 THEN [runs[r] EXCEPT !.status = "deleted"] ELSE runs[r]]
  BY DEF DeleteEnds, Inv, RunsTypeOK
<1>1. Row(k) /\ Intent(k) /\ Family(k) /\ Writing(k) /\ Logged(k) /\ Known(k)
  BY DEF Inv, RunInv
<1>2. \A j \in Runs :
        /\ runs'[j].agent = runs[j].agent /\ runs'[j].parent = runs[j].parent
        /\ runs'[j].intent = runs[j].intent
        /\ runs'[j] = runs[j] \/ runs'[j].status = "deleted"
  BY <1>0
<1>3. \A j \in Runs : Kind(j)' = Kind(j)
  <2>1. Owners
    BY <1>2 DEF Owners
  <2> QED  BY <2>1, OwnersKeep
<1>4. Row(k)'
  BY <1>0, <1>1, <1>2 DEF Row
<1>5. Intent(k)'
  BY <1>0, <1>1, <1>2 DEF Intent
<1>6. Family(k)'
  BY <1>0, <1>1, <1>2, <1>3 DEF Family
<1>7. Writing(k)'
  BY <1>0, <1>1, <1>3 DEF Writing
<1>8. Logged(k)'
  <2>1. runs[k].status = "none" => exec[k].at = "none"
    BY <1>1 DEF Row, Idle
  <2> QED  BY <2>1, <1>0, <1>1, <1>2, <1>3 DEF Logged
<1>9. Known(k)'
  BY <1>0, <1>1, <1>2 DEF Known
<1> QED  BY <1>4, <1>5, <1>6, <1>7, <1>8, <1>9 DEF RunInv

(* A crash, and a start that fails: what memory held is gone.                *)
LEMMA DownKeeps ==
    ASSUME Inv, Down, log' = [r \in Runs |-> Lost(log[r])], UNCHANGED <<runs, told>>
    PROVE  \A k \in Runs : RunInv(k)'
<1> SUFFICES ASSUME NEW k \in Runs PROVE RunInv(k)'
  OBVIOUS
<1>1. Row(k) /\ Intent(k) /\ Family(k) /\ Writing(k) /\ Logged(k) /\ Known(k) /\ log[k] \in Logs
  BY DEF Inv, RunsTypeOK, RunInv
<1>2. \A j \in Runs : Kind(j)' = Kind(j)
  BY OwnersKeep DEF Owners
<1>3. exec'[k] = Idle /\ server' = "down" /\ Idle.at = "none"
  BY DEF Down, Idle
<1>4. /\ log'[k].disk = log[k].disk /\ log'[k].queue = <<>> /\ ~ log'[k].closed /\ ~ log'[k].complete
      /\ ~ log'[k].truncated /\ ~ log'[k].broken /\ ~ log'[k].covered
      /\ log'[k].hushed = log[k].hushed
  BY <1>1 DEF Lost, Logs
<1>5. log[k].queue = <<>> => (Cut(log'[k]) <=> Cut(log[k]))
  BY <1>4 DEF Cut
<1>6. "none" \in Over /\ "none" \notin Early /\ "none" \notin Late
      /\ "none" \notin {"closing", "write", "write again"}
  BY DEF Over, Early, Late
<1>7. Row(k)'
  <2>1. runs[k].status = "none" => log'[k] = NoLog
    <3>1. Lost(NoLog) = NoLog
      <4> DEFINE e == <<>>
      <4>1. /\ NoLog = [disk |-> e, queue |-> e, closed |-> FALSE, complete |-> FALSE,
                        truncated |-> FALSE, broken |-> FALSE,
                        covered |-> FALSE, hushed |-> FALSE]
            /\ Lost(NoLog) = [NoLog EXCEPT !.queue = e, !.closed = FALSE, !.complete = FALSE,
                                          !.truncated = FALSE, !.broken = FALSE,
                                          !.covered = FALSE]
        BY DEF NoLog, Lost
      <4> HIDE DEF e
      <4> QED  BY <4>1
    <3> QED  BY <3>1, <1>1 DEF Row
  <2> QED  BY <2>1, <1>1, <1>3, <1>6 DEF Row
<1>8. Intent(k)'
  BY <1>1, <1>3, <1>6 DEF Intent
<1>9. Family(k)'
  BY <1>1, <1>2, <1>3, <1>6 DEF Family
<1>10. Writing(k)'
  BY <1>1, <1>2, <1>3, <1>4, <1>6 DEF Writing
<1>11. Logged(k)'
  BY <1>1, <1>2, <1>3, <1>4, <1>5, <1>6 DEF Logged
<1>12. Known(k)'
  BY <1>1, <1>3, <1>4 DEF Known
<1> QED  BY <1>7, <1>8, <1>9, <1>10, <1>11, <1>12 DEF RunInv

LEMMA BootKeeps ==
    ASSUME Inv, Boot
    PROVE  \A k \in Runs : RunInv(k)'
<1> SUFFICES ASSUME NEW k \in Runs PROVE RunInv(k)'
  OBVIOUS
<1>0. /\ UNCHANGED <<runs, exec, told>> /\ server # "up" /\ server' # "up"
      /\ log' = [r \in Runs |-> Reloaded(log[r])]
  BY DEF Boot
<1>1. /\ Row(k) /\ Intent(k) /\ Family(k) /\ Writing(k) /\ Logged(k) /\ Known(k) /\ log[k] \in Logs
      /\ exec[k].at = "none" /\ log[k].queue = <<>> /\ ~ log[k].covered
  BY <1>0 DEF Inv, RunsTypeOK, RunInv, Starting, Idle
<1>2. \A j \in Runs : Kind(j)' = Kind(j)
  BY <1>0, OwnersKeep DEF Owners
<1>4. /\ log'[k].disk = log[k].disk /\ log'[k].queue = log[k].queue
      /\ ~ log'[k].covered /\ log'[k].hushed = log[k].hushed
      /\ log'[k].complete => log'[k].closed
      /\ log'[k].truncated => Cut(log[k])
  <2> DEFINE shut == log[k].disk # <<>> /\ Last(log[k].disk) \in Terminal
             cut == Cut(log[k])
  <2>1. log'[k] = [log[k] EXCEPT !.closed = shut, !.complete = shut, !.truncated = cut]
    BY <1>0 DEF Reloaded
  <2> HIDE DEF shut, cut
  <2>2. /\ log'[k].disk = log[k].disk /\ log'[k].queue = log[k].queue
        /\ log'[k].complete = shut /\ log'[k].closed = shut /\ log'[k].truncated = cut
        /\ log'[k].covered = log[k].covered /\ log'[k].hushed = log[k].hushed
    BY <2>1, <1>1 DEF Logs
  <2> QED  BY <2>2, <1>1 DEF cut
<1>5. Cut(log'[k]) <=> Cut(log[k])
  BY <1>4 DEF Cut
<1>6. "none" \in Over /\ "none" \notin Early /\ "none" \notin Late
      /\ "none" \notin {"closing", "write", "write again"}
  BY DEF Over, Early, Late
<1>7. Row(k)'
  <2>1. ASSUME runs[k].status = "none" PROVE log'[k] = NoLog
    <3>1. log[k] = NoLog
      BY <2>1, <1>1 DEF Row
    <3>2. NoLog.disk = <<>> /\ ~ Cut(NoLog)
      BY DEF NoLog, Cut
    <3> DEFINE shut == NoLog.disk # <<>> /\ Last(NoLog.disk) \in Terminal
               cut == Cut(NoLog)
    <3>3. Reloaded(NoLog) = [NoLog EXCEPT !.closed = shut, !.complete = shut, !.truncated = cut]
      BY DEF Reloaded
    <3>5. shut = FALSE /\ cut = FALSE
      BY <3>2 DEF Cut
    <3> HIDE DEF shut, cut
    <3>4. Reloaded(NoLog) = NoLog
      BY <3>3, <3>5 DEF NoLog
    <3> QED  BY <3>1, <3>4, <1>0
  <2> QED  BY <2>1, <1>0, <1>1, <1>6 DEF Row
<1>8. Intent(k)'
  BY <1>0, <1>1 DEF Intent
<1>9. Family(k)'
  BY <1>0, <1>1, <1>2 DEF Family
<1>10. Writing(k)'
  BY <1>0, <1>1, <1>2, <1>4, <1>5, <1>6 DEF Writing
<1>11. Logged(k)'
  BY <1>0, <1>1, <1>2, <1>4, <1>5, <1>6 DEF Logged
<1>12. Known(k)'
  BY <1>0, <1>1, <1>4 DEF Known
<1> QED  BY <1>7, <1>8, <1>9, <1>10, <1>11, <1>12 DEF RunInv

(* The restart's error closes a log and completes it.                        *)
LEMMA RecoveredIs ==
    ASSUME NEW l \in Logs, l.queue = <<>>
    PROVE  /\ Recovered(l) \in Logs /\ Recovered(l).queue = <<>>
           /\ Recovered(l).closed /\ Recovered(l).complete
           /\ Recovered(l).truncated = l.truncated /\ Recovered(l).broken = l.broken
           /\ Recovered(l).covered = l.covered /\ Recovered(l).hushed = l.hushed
           /\ l.truncated => (Cut(Recovered(l)) <=> Cut(l))
<1> DEFINE d == IF l.truncated THEN l.disk ELSE Append(l.disk, "error")
<1>1. d \in Seq(Events)
  <2>1. l.disk \in Seq(Events) /\ "error" \in Events
    BY DEF Logs, Events, Terminal
  <2> QED  BY <2>1
<1>2. Recovered(l) = [l EXCEPT !.disk = d, !.closed = TRUE, !.complete = TRUE]
  BY DEF Recovered
<1>3. l.truncated => d = l.disk
  OBVIOUS
<1> HIDE DEF d
<1>4. /\ Recovered(l) \in Logs /\ Recovered(l).queue = <<>> /\ Recovered(l).disk = d
      /\ Recovered(l).closed /\ Recovered(l).complete
      /\ Recovered(l).truncated = l.truncated /\ Recovered(l).broken = l.broken
      /\ Recovered(l).covered = l.covered /\ Recovered(l).hushed = l.hushed
  BY <1>1, <1>2 DEF Logs
<1>5. l.truncated => (Cut(Recovered(l)) <=> Cut(l))
  BY <1>3, <1>4 DEF Cut
<1> QED  BY <1>4, <1>5

(* What recovery may do to a run: nothing, or an active row is settled, as a *)
(* success only if its log says so, and its log may get the restart's error. *)
LEMMA RecoveryKeeps ==
    ASSUME Inv, server # "up", exec' = exec, told' = told, Owners, NEW k \in Runs,
           \A j \in Runs : runs'[j].status # "none" \/ runs'[j].status = runs[j].status,
           runs'[k].intent = runs[k].intent,
           \/ runs'[k] = runs[k]
           \/ /\ runs[k].status \in Active
              /\ \/ runs'[k].status = "completed" /\ EndsOk(log[k].disk) /\ log'[k] = log[k]
                 \/ runs'[k].status = "cancelled" /\ k \notin told,
           \/ log'[k] = log[k]
           \/ log'[k] = Recovered(log[k]) /\ runs[k].status \in Active /\ k \notin told
              /\ runs'[k].status # "completed",
           server' = "up" /\ k \in told => runs[k].status \notin Active
    PROVE  RunInv(k)'
<1>1. /\ Row(k) /\ Intent(k) /\ Family(k) /\ Writing(k) /\ Logged(k) /\ Known(k) /\ log[k] \in Logs
      /\ exec[k] = Idle /\ exec[k].at = "none" /\ log[k].queue = <<>> /\ ~ log[k].covered
  BY DEF Inv, RunsTypeOK, RunInv, Starting, Idle
<1>2. \A j \in Runs : Kind(j)' = Kind(j)
  BY OwnersKeep
<1>3. "none" \in Over /\ "none" \notin Early /\ "none" \notin Late
      /\ "none" \notin {"closing", "write", "write again"}
  BY DEF Over, Early, Late
<1>4. /\ log'[k].queue = <<>> /\ ~ log'[k].covered /\ log'[k].hushed = log[k].hushed
      /\ log'[k] = log[k] \/ (log'[k].closed /\ log'[k].complete)
      /\ log'[k].truncated => Cut(log'[k]) \/ log'[k].broken
  BY <1>1, RecoveredIs DEF Writing
<1>5. Row(k)'
  BY <1>1, <1>3 DEF Row, Active
<1>6. Intent(k)'
  BY <1>1, <1>3 DEF Intent, Active
<1>7. Family(k)'
  <2>1. SUFFICES ASSUME NEW p \in Runs, runs[k].parent = p
                 PROVE  Kind(p) = "leader" /\ runs'[p].status # "none"
    BY <1>1, <1>2, <1>3 DEF Family, Owners
  <2> QED  BY <2>1, <1>1 DEF Family
<1>8. Writing(k)'
  BY <1>1, <1>2, <1>3, <1>4 DEF Writing
<1>9. Logged(k)'
  <2>1. runs'[k].status = "completed" => log'[k] = log[k] \/ runs[k].status = "completed"
    OBVIOUS
  <2>2. runs'[k].status = "completed" => log'[k] = log[k]
    BY DEF Active
  <2>3. runs'[k].status = "completed" /\ runs[k].status # "completed" => EndsOk(log[k].disk)
    OBVIOUS
  <2>4. runs[k].status = "completed" /\ Kind(k) # "leader" =>
            log[k].hushed \/ Cut(log[k]) \/ EndsOk(log[k].disk)
    BY <1>1 DEF Logged
  <2> QED  BY <2>2, <2>3, <2>4, <1>1, <1>2, <1>3, <1>4 DEF Logged
<1>10. Known(k)'
  <2>1. CASE k \notin told
    BY <2>1 DEF Known
  <2>2. CASE k \in told /\ runs'[k] = runs[k]
    BY <2>2, <1>1 DEF Known, Active
  <2>3. CASE k \in told /\ runs'[k].status = "completed"
    BY <2>3 DEF Known
  <2> QED  BY <2>1, <2>2, <2>3
<1> QED  BY <1>5, <1>6, <1>7, <1>8, <1>9, <1>10 DEF RunInv

LEMMA ReconcileKeeps ==
    ASSUME Inv, NEW r \in Runs, ReconcileIntent(r)
    PROVE  \A k \in Runs : RunInv(k)'
<1>1. /\ server # "up" /\ server' # "up" /\ UNCHANGED <<exec, told>>
      /\ runs[r].status \in Active /\ runs[r].intent
      /\ runs \in [Runs -> [agent : Agents \cup {NoRun}, parent : Runs \cup {NoRun},
                            status : Active \cup Verdicts \cup {"none", "deleted"},
                            intent : BOOLEAN]]
      /\ log \in [Runs -> Logs]
  BY DEF ReconcileIntent, Intended, Inv, RunsTypeOK
<1>2. ASSUME NEW x \in {"completed", "cancelled"}, runs' = [runs EXCEPT ![r].status = x]
      PROVE  /\ Owners /\ \A k \in Runs : k # r => runs'[k] = runs[k]
             /\ runs'[r].status = x
             /\ \A k \in Runs : runs'[k].intent = runs[k].intent
             /\ \A j \in Runs : runs'[j].status # "none" \/ runs'[j].status = runs[j].status
  BY <1>1, <1>2 DEF Owners
<1>3. r \in told => EndsOk(log[r].disk)
  BY <1>1 DEF Inv, RunInv, Known, Active
<1> SUFFICES ASSUME NEW k \in Runs PROVE RunInv(k)'
  OBVIOUS
<1>4. CASE EndsOk(log[r].disk) /\ runs' = [runs EXCEPT ![r].status = "completed"] /\ UNCHANGED log
  BY <1>1, <1>2, <1>4, RecoveryKeeps
<1>5. CASE ~ EndsOk(log[r].disk) /\ runs' = [runs EXCEPT ![r].status = "cancelled"]
           /\ log' = [log EXCEPT ![r] = Recovered(@)]
  <2>1. log'[r] = Recovered(log[r]) /\ \A j \in Runs : j # r => log'[j] = log[j]
    BY <1>1, <1>5
  <2> QED  BY <1>1, <1>2, <1>3, <1>5, <2>1, RecoveryKeeps
<1> QED  BY <1>4, <1>5 DEF ReconcileIntent

(* Once the stated intents are settled, no active row was ever shown as a    *)
(* success.                                                                  *)
LEMMA NoneIntended ==
    ASSUME Inv, Intended = {}
    PROVE  \A k \in Runs : k \in told => runs[k].status \notin Active
<1> QED  BY DEF Inv, RunInv, Known, Intended, Active

LEMMA RecoverLogsKeeps ==
    ASSUME Inv, RecoverLogs
    PROVE  \A k \in Runs : RunInv(k)'
<1>1. /\ server # "up" /\ server' # "up" /\ UNCHANGED <<runs, exec, told>> /\ Intended = {}
      /\ log' = [r \in Runs |-> IF Interrupted(r) THEN Recovered(log[r]) ELSE log[r]]
  BY DEF RecoverLogs
<1>2. \A k \in Runs : k \in told => runs[k].status \notin Active
  BY <1>1, NoneIntended
<1>3. Owners
  BY <1>1 DEF Owners
<1> SUFFICES ASSUME NEW k \in Runs PROVE RunInv(k)'
  OBVIOUS
<1>4. \/ log'[k] = log[k]
      \/ log'[k] = Recovered(log[k]) /\ runs[k].status \in Active /\ k \notin told
         /\ runs'[k].status # "completed"
  BY <1>1, <1>2 DEF Interrupted, Active
<1> QED  BY <1>1, <1>3, <1>4, RecoveryKeeps

LEMMA RecoverRowsKeeps ==
    ASSUME Inv, RecoverRows
    PROVE  \A k \in Runs : RunInv(k)'
<1>1. /\ server = "recovering" /\ UNCHANGED told
      /\ runs \in [Runs -> [agent : Agents \cup {NoRun}, parent : Runs \cup {NoRun},
                            status : Active \cup Verdicts \cup {"none", "deleted"},
                            intent : BOOLEAN]]
  BY DEF RecoverRows, Inv, RunsTypeOK
<1>2. \A k \in Runs : k \in told => runs[k].status \notin Active
  BY <1>1, NoneIntended DEF Inv, Starting
<1>3. CASE /\ UNCHANGED <<exec, log>>
           /\ runs' = [r \in Runs |-> IF Interrupted(r) THEN [runs[r] EXCEPT !.status = "cancelled"]
                                      ELSE runs[r]]
  <2>1. Owners
    BY <1>1, <1>3 DEF Owners
  <2>2. \A j \in Runs :
          /\ runs'[j].intent = runs[j].intent
          /\ runs[j].status \in Active => runs'[j].status = "cancelled"
          /\ runs[j].status \notin Active => runs'[j] = runs[j]
    BY <1>1, <1>3 DEF Interrupted
  <2> SUFFICES ASSUME NEW k \in Runs PROVE RunInv(k)'
    OBVIOUS
  <2>3. \A j \in Runs : runs'[j].status # "none" \/ runs'[j].status = runs[j].status
    BY <2>2
  <2>4. \/ runs'[k] = runs[k]
        \/ runs[k].status \in Active /\ runs'[k].status = "cancelled" /\ k \notin told
    BY <1>2, <2>2
  <2> QED  BY <1>1, <1>2, <1>3, <2>1, <2>2, <2>3, <2>4, RecoveryKeeps
<1>4. CASE Down /\ log' = [r \in Runs |-> Lost(log[r])] /\ UNCHANGED runs
  BY <1>1, <1>4, DownKeeps
<1> QED  BY <1>3, <1>4 DEF RecoverRows

-----------------------------------------------------------------------------
(* Every step keeps what is said of each run.                                *)
LEMMA RunsKeep ==
    ASSUME Inv, [Next]_vars
    PROVE  \A k \in Runs : RunInv(k)'
<1>1. CASE UNCHANGED vars
  BY <1>1, QuietKeeps DEF vars
<1>2. ASSUME NEW r \in Runs, Step(r)
      PROVE  \A k \in Runs : RunInv(k)'
  BY <1>2, FlushStepKeeps, PreflightKeeps, BeginKeeps, SingleEndsKeeps, LeaderEndsKeeps,
     ChildEndsKeeps, StoreIntentKeeps, CloseEndsKeeps, FinalWriteKeeps DEF Step
<1>3. ASSUME NEW a \in Agents, \/ \E op \in {"stop", "delete", "purge"} : Ask(a, op)
                              \/ StopEnds(a) \/ Start(a)
      PROVE  \A k \in Runs : RunInv(k)'
  <2>1. UNCHANGED <<runs, log, exec, server>> /\ told' = told
    BY <1>3 DEF Ask, StopEnds, Start
  <2> QED  BY <2>1, QuietKeeps
<1>4. CASE Restart
  BY <1>4, BootKeeps, ReconcileKeeps, RecoverLogsKeeps, RecoverRowsKeeps DEF Restart
<1>5. CASE Crash
  <2>1. Down /\ log' = [r \in Runs |-> Lost(log[r])] /\ UNCHANGED <<runs, told>>
    BY <1>5 DEF Crash
  <2> QED  BY <2>1, DownKeeps
<1> QED  BY <1>1, <1>2, <1>3, <1>4, <1>5, SendKeeps, DispatchKeeps, DeleteKeeps, PollKeeps DEF Next

-----------------------------------------------------------------------------
(* Types. *)

AgentStates == {"ready", "busy", "stopped", "error", "gone"}
Rows  == [agent : Agents \cup {NoRun}, parent : Runs \cup {NoRun},
          status : Active \cup Verdicts \cup {"none", "deleted"}, intent : BOOLEAN]
Execs == [at : Early \cup Late \cup Over, verdict : Verdicts \cup {"none", "cut"}]

LEMMA TypesAre ==
    RunsTypeOK <=> /\ agents \in [Agents -> AgentStates] /\ runs \in [Runs -> Rows]
                   /\ log \in [Runs -> Logs] /\ exec \in [Runs -> Execs]
                   /\ server \in {"up", "down", "reconciling", "recovering"} /\ told \subseteq Runs
<1> QED  BY DEF RunsTypeOK, AgentStates, Rows, Execs

LEMMA MovesType ==
    ASSUME exec \in [Runs -> Execs], NEW r, NEW x \in Early \cup Late \cup Over,
           NEW v \in Verdicts \cup {"none", "cut"}, Moves(r, x, v)
    PROVE  exec' \in [Runs -> Execs]
<1>1. [at |-> x, verdict |-> v] \in Execs
  BY DEF Execs
<1> QED  BY <1>1 DEF Moves

LEMMA EndsType ==
    ASSUME RunsTypeOK, NEW r \in Runs, NEW event \in Events, NEW v \in Verdicts, Ends(r, event, v)
    PROVE  exec' \in [Runs -> Execs] /\ log' \in [Runs -> Logs]
<1>1. exec \in [Runs -> Execs] /\ log \in [Runs -> Logs]
  BY TypesAre
<1>2. PICK l \in Appended(log[r], event) : log' = [log EXCEPT ![r] = Shut(l)]
  BY DEF Ends
<1>3. l \in Logs
  BY <1>1, <1>2, AppendedKeeps
<1>4. Shut(l) \in Logs
  BY <1>3, ShutCloses DEF Closes
<1>5. log' \in [Runs -> Logs]
  BY <1>1, <1>2, <1>4
<1>6. "closing" \in Early \cup Late \cup Over
  BY DEF Late
<1> QED  BY <1>1, <1>5, <1>6, MovesType DEF Ends

LEMMA StepTypes ==
    ASSUME RunsTypeOK, NEW r \in Runs, Step(r),
           exec[r].at \in Late => exec[r].verdict \in Verdicts
    PROVE  RunsTypeOK'
<1>1. /\ agents \in [Agents -> AgentStates] /\ runs \in [Runs -> Rows]
      /\ log \in [Runs -> Logs] /\ exec \in [Runs -> Execs] /\ exec[r].verdict \in Verdicts \cup {"none", "cut"}
      /\ server \in {"up", "down", "reconciling", "recovering"} /\ told \subseteq Runs
  BY TypesAre DEF Execs
<1>2. UNCHANGED <<server, told>>
  BY DEF Step, Flush, Preflight, Begin, SingleEnds, LeaderEnds, ChildEnds, StoreIntent, CloseEnds,
     FinalWrite
<1>0. {"completed", "failed", "cancelled"} = Verdicts /\ {"ok", "error", "step", "cut"} \subseteq Events
      /\ {"preflight", "begin", "work", "intent", "intent again", "closing", "write", "write again",
          "done", "stranded"} \subseteq Early \cup Late \cup Over
  BY DEF Verdicts, Events, Terminal, Early, Late, Over
<1> SUFFICES /\ agents' \in [Agents -> AgentStates] /\ runs' \in [Runs -> Rows]
             /\ log' \in [Runs -> Logs] /\ exec' \in [Runs -> Execs]
  BY <1>1, <1>2, TypesAre DEF RunsTypeOK, AgentStates, Rows, Execs
<1>3. CASE Flush(r)
  <2>1. /\ [log[r] EXCEPT !.disk = Append(@, Head(log[r].queue)), !.queue = Tail(@)] \in Logs
        /\ [log[r] EXCEPT !.queue = Tail(@), !.broken = TRUE] \in Logs
    BY <1>1, <1>3, FlushKeeps DEF Flush
  <2>2. \/ log' = [log EXCEPT ![r] = [log[r] EXCEPT !.disk = Append(@, Head(log[r].queue)), !.queue = Tail(@)]]
        \/ log' = [log EXCEPT ![r] = [log[r] EXCEPT !.queue = Tail(@), !.broken = TRUE]]
    BY <1>1, <1>3 DEF Flush
  <2>3. log' \in [Runs -> Logs]
    BY <1>1, <2>1, <2>2
  <2> QED  BY <1>1, <1>3, <2>3 DEF Flush
<1>4. CASE Preflight(r)
  BY <1>0, <1>1, <1>4, MovesType, EndsType DEF Preflight
<1>5. CASE Begin(r)
  <2>1. exec' \in [Runs -> Execs]
    BY <1>0, <1>1, <1>5, MovesType DEF Begin
  <2>2. log' \in [Runs -> Logs]
    <3>1. CASE UNCHANGED log
      BY <1>1, <3>1
    <3>2. CASE \E l \in Appended(log[r], "step") : log' = [log EXCEPT ![r] = l]
      <4>1. PICK l \in Appended(log[r], "step") : log' = [log EXCEPT ![r] = l]
        BY <3>2
      <4>2. l \in Logs
        BY <1>0, <1>1, <4>1, AppendedKeeps
      <4> QED  BY <1>1, <4>1, <4>2
    <3> QED  BY <3>1, <3>2, <1>5 DEF Begin
  <2>3. runs' \in [Runs -> Rows]
    BY <1>1, <1>5 DEF Begin, Rows, Active
  <2> QED  BY <1>1, <1>5, <2>1, <2>2, <2>3 DEF Begin
<1>6. CASE SingleEnds(r)
  <2>1. \E event \in Events, v \in Verdicts : Ends(r, event, v)
    BY <1>0, <1>6 DEF SingleEnds, Failures
  <2> QED  BY <1>1, <1>6, <2>1, EndsType DEF SingleEnds
<1>7. CASE LeaderEnds(r)
  <2>1. PICK v \in Verdicts : Moves(r, "closing", v)
    <3>1. LeaderVerdicts(r) \subseteq Verdicts
      BY DEF LeaderVerdicts, Failures, Verdicts
    <3> QED  BY <1>7, <3>1 DEF LeaderEnds
  <2>2. exec' \in [Runs -> Execs]
    BY <1>0, <1>1, <2>1, MovesType
  <2> QED  BY <1>1, <1>7, <2>2, SessionShutKeeps DEF LeaderEnds
<1>8. CASE ChildEnds(r)
  <2>1. CASE \E event \in Events, v \in Verdicts : Ends(r, event, v)
    BY <1>1, <1>8, <2>1, EndsType DEF ChildEnds
  <2>2. CASE UNCHANGED log /\ (Moves(r, "intent", "completed") \/ Moves(r, "stranded", "cut"))
    BY <1>0, <1>1, <1>8, <2>2, MovesType DEF ChildEnds
  <2>3. Failures(runs[runs[r].parent].agent) \subseteq Verdicts
    BY DEF Failures, Verdicts
  <2> QED  BY <1>0, <1>8, <2>1, <2>2, <2>3 DEF ChildEnds
<1>9. CASE StoreIntent(r)
  <2>1. runs' \in [Runs -> Rows]
    <3>1. CASE UNCHANGED runs
      BY <1>1, <3>1
    <3>2. CASE runs' = [runs EXCEPT ![r].intent = TRUE]
      <4> DEFINE row == [runs[r] EXCEPT !.intent = TRUE]
      <4>1. runs[r] \in Rows
        BY <1>1
      <4>2. row \in Rows
        BY ONLY <4>1 DEF Rows
      <4>3. runs' = [runs EXCEPT ![r] = row]
        BY <1>1, <3>2
      <4> HIDE DEF row
      <4> QED  BY <1>1, <4>2, <4>3
    <3> QED  BY <3>1, <3>2, <1>9 DEF StoreIntent
  <2>2. CASE \E event \in Events, v \in Verdicts : Ends(r, event, v)
    BY <1>1, <1>9, <2>1, <2>2, EndsType DEF StoreIntent
  <2>3. CASE Moves(r, "intent again", "completed") /\ UNCHANGED log
    BY <1>0, <1>1, <1>9, <2>1, <2>3, MovesType DEF StoreIntent
  <2> QED  BY <1>0, <1>9, <2>2, <2>3 DEF StoreIntent
<1>10. CASE CloseEnds(r)
  BY <1>0, <1>1, <1>10, MovesType, CompletedKeeps DEF CloseEnds
<1>11. CASE FinalWrite(r)
  <2> DEFINE v == exec[r].verdict
  <2>1. exec' \in [Runs -> Execs]
    BY <1>0, <1>1, <1>11, MovesType DEF FinalWrite
  <2>2. runs' \in [Runs -> Rows]
    <3>1. UNCHANGED runs \/ runs' = [runs EXCEPT ![r].status = v]
      BY <1>11 DEF FinalWrite
    <3>2. v \in Active \cup Verdicts \cup {"none", "deleted"}
      <4>1. exec[r].at \in Late
        BY <1>11 DEF FinalWrite, Late
      <4> QED  BY <4>1
    <3> HIDE DEF v
    <3> QED  BY <1>1, <3>1, <3>2 DEF Rows
  <2>3. agents' \in [Agents -> AgentStates]
    <3>1. \/ UNCHANGED agents
          \/ agents' = [agents EXCEPT ![runs[r].agent] = AgentAfter(r, @, v)]
      BY <1>11 DEF FinalWrite
    <3>2. \A a \in AgentStates : AgentAfter(r, a, v) \in AgentStates
      BY DEF AgentAfter, AgentStates
    <3> HIDE DEF v
    <3> QED  BY <1>1, <3>1, <3>2
  <2> QED  BY <1>1, <1>11, <2>1, <2>2, <2>3 DEF FinalWrite
<1> QED  BY <1>3, <1>4, <1>5, <1>6, <1>7, <1>8, <1>9, <1>10, <1>11 DEF Step

LEMMA RestartTypes ==
    ASSUME Inv, Restart \/ Crash
    PROVE  RunsTypeOK'
<1>1. /\ agents \in [Agents -> AgentStates] /\ runs \in [Runs -> Rows]
      /\ log \in [Runs -> Logs] /\ exec \in [Runs -> Execs]
      /\ server \in {"up", "down", "reconciling", "recovering"} /\ told \subseteq Runs
  BY TypesAre DEF Inv
<1> SUFFICES /\ agents' \in [Agents -> AgentStates] /\ runs' \in [Runs -> Rows]
             /\ log' \in [Runs -> Logs] /\ exec' \in [Runs -> Execs]
             /\ server' \in {"up", "down", "reconciling", "recovering"} /\ told' \subseteq Runs
  BY TypesAre DEF RunsTypeOK, AgentStates, Rows, Execs
<1>2. \A r \in Runs : Lost(log[r]) \in Logs
  <2>1. <<>> \in Seq(Events)
    OBVIOUS
  <2> QED  BY <1>1, <2>1 DEF Lost, Logs
<1>3. Idle \in Execs /\ "cancelled" \in Verdicts /\ "completed" \in Verdicts
  BY DEF Idle, Execs, Over, Verdicts
<1>4. ASSUME Down, log' = [r \in Runs |-> Lost(log[r])]
      PROVE  log' \in [Runs -> Logs] /\ exec' \in [Runs -> Execs] /\ server' = "down"
  BY <1>2, <1>3, <1>4 DEF Down
<1>5. CASE Crash
  BY <1>1, <1>4, <1>5 DEF Crash
<1>6. CASE Boot
  <2>1. ASSUME NEW r \in Runs PROVE Reloaded(log[r]) \in Logs
    <3> DEFINE shut == log[r].disk # <<>> /\ Last(log[r].disk) \in Terminal
               cut == Cut(log[r])
    <3>1. Reloaded(log[r]) = [log[r] EXCEPT !.closed = shut, !.complete = shut, !.truncated = cut]
      BY DEF Reloaded
    <3>2. shut \in BOOLEAN /\ cut \in BOOLEAN
      BY DEF Cut
    <3>3. log[r] \in Logs
      BY <1>1
    <3> HIDE DEF shut, cut
    <3>4. [log[r] EXCEPT !.closed = shut, !.complete = shut, !.truncated = cut] \in Logs
      BY ONLY <3>2, <3>3 DEF Logs
    <3> QED  BY <3>1, <3>4
  <2> QED  BY <1>1, <1>6, <2>1 DEF Boot
<1>7. ASSUME NEW r \in Runs, ReconcileIntent(r)
      PROVE  /\ agents' \in [Agents -> AgentStates] /\ runs' \in [Runs -> Rows]
             /\ log' \in [Runs -> Logs] /\ UNCHANGED <<exec, server, told>>
  <2>1. log[r].queue = <<>>
    BY <1>7 DEF Inv, Starting, ReconcileIntent
  <2>2. Recovered(log[r]) \in Logs
    BY <1>1, <2>1, RecoveredIs
  <2>3. UNCHANGED log \/ log' = [log EXCEPT ![r] = Recovered(log[r])]
    BY <1>7 DEF ReconcileIntent
  <2>4. log' \in [Runs -> Logs]
    BY <1>1, <2>2, <2>3
  <2>5. runs' \in [Runs -> Rows]
    BY <1>1, <1>3, <1>7 DEF ReconcileIntent, Rows
  <2>6. agents' \in [Agents -> AgentStates]
    <3>1. \/ agents' = [agents EXCEPT ![runs[r].agent] = IF @ = "gone" THEN @ ELSE "ready"]
          \/ agents' = [agents EXCEPT ![runs[r].agent] = IF @ = "busy" THEN "ready" ELSE @]
      BY <1>7 DEF ReconcileIntent
    <3> QED  BY <1>1, <3>1 DEF AgentStates
  <2> QED  BY <1>7, <2>4, <2>5, <2>6 DEF ReconcileIntent
<1>8. CASE RecoverLogs
  <2>1. \A r \in Runs : Recovered(log[r]) \in Logs
    BY <1>1, <1>8, RecoveredIs DEF Inv, Starting, RecoverLogs
  <2> QED  BY <1>1, <1>8, <2>1 DEF RecoverLogs
<1>9. CASE RecoverRows
  <2>1. told' = told
    BY <1>9 DEF RecoverRows
  <2>2. CASE Down /\ log' = [r \in Runs |-> Lost(log[r])] /\ UNCHANGED <<runs, agents>>
    BY <1>1, <1>4, <2>1, <2>2
  <2>3. CASE /\ server' = "up" /\ UNCHANGED <<exec, log>>
             /\ runs' = [r \in Runs |-> IF Interrupted(r) THEN [runs[r] EXCEPT !.status = "cancelled"]
                                        ELSE runs[r]]
             /\ agents' = [a \in Agents |->
                   IF agents[a] = "busy" /\ \E r \in Runs : runs[r].agent = a /\ Interrupted(r)
                   THEN "ready" ELSE agents[a]]
    <3>1. runs' \in [Runs -> Rows]
      BY <1>1, <1>3, <2>3 DEF Rows
    <3>2. agents' \in [Agents -> AgentStates]
      BY <1>1, <2>3 DEF AgentStates
    <3> QED  BY <1>1, <2>1, <2>3, <3>1, <3>2
  <2> QED  BY <2>2, <2>3, <1>9 DEF RecoverRows
<1> QED  BY <1>1, <1>5, <1>6, <1>7, <1>8, <1>9 DEF Restart

LEMMA TypesKeep ==
    ASSUME Inv, [Next]_vars
    PROVE  RunsTypeOK'
<1>1. /\ agents \in [Agents -> AgentStates] /\ runs \in [Runs -> Rows]
      /\ log \in [Runs -> Logs] /\ exec \in [Runs -> Execs]
      /\ server \in {"up", "down", "reconciling", "recovering"} /\ told \subseteq Runs
  BY TypesAre DEF Inv
<1>2. RunsTypeOK' <=> /\ agents' \in [Agents -> AgentStates] /\ runs' \in [Runs -> Rows]
                      /\ log' \in [Runs -> Logs] /\ exec' \in [Runs -> Execs]
                      /\ server' \in {"up", "down", "reconciling", "recovering"} /\ told' \subseteq Runs
  BY DEF RunsTypeOK, AgentStates, Rows, Execs
<1>3. CASE UNCHANGED vars
  BY <1>1, <1>2, <1>3 DEF vars
<1>4. ASSUME NEW a \in Agents, NEW r \in Runs, Send(a, r)
      PROVE  RunsTypeOK'
  <2>1. exec' \in [Runs -> Execs]
    BY <1>1, <1>4, MovesType DEF Send, Early
  <2>2. runs' \in [Runs -> Rows]
    <3>1. [Unborn EXCEPT !.agent = a, !.status = "queued"] \in Rows
      BY DEF Unborn, Rows, Active
    <3> QED  BY <1>1, <1>4, <3>1 DEF Send
  <2>3. agents' \in [Agents -> AgentStates]
    BY <1>1, <1>4 DEF Send, AgentStates
  <2> QED  BY <1>1, <1>2, <1>4, <2>1, <2>2, <2>3 DEF Send
<1>5. ASSUME NEW r \in Runs, NEW a \in Agents, NEW c \in Runs, Dispatch(r, a, c)
      PROVE  RunsTypeOK'
  <2>1. exec' \in [Runs -> Execs]
    BY <1>1, <1>5, MovesType DEF Dispatch, Early
  <2>2. runs' \in [Runs -> Rows]
    <3>1. [agent |-> a, parent |-> r, status |-> "running", intent |-> FALSE] \in Rows
      BY DEF Rows, Active
    <3> QED  BY <1>1, <1>5, <3>1 DEF Dispatch
  <2>3. agents' \in [Agents -> AgentStates]
    BY <1>1, <1>5 DEF Dispatch, AgentStates
  <2>4. log' \in [Runs -> Logs]
    <3>1. PICK l \in Appended(log[c], "step") : log' = [log EXCEPT ![c] = l]
      BY <1>5 DEF Dispatch
    <3>2. l \in Logs
      BY <1>1, <3>1, AppendedKeeps DEF Events
    <3> QED  BY <1>1, <3>1, <3>2
  <2> QED  BY <1>1, <1>2, <1>5, <2>1, <2>2, <2>3, <2>4 DEF Dispatch
<1>6. ASSUME NEW a \in Agents, \/ \E op \in {"stop", "delete", "purge"} : Ask(a, op)
                              \/ StopEnds(a) \/ Start(a)
      PROVE  RunsTypeOK'
  <2>1. agents' \in [Agents -> AgentStates]
    BY <1>1, <1>6 DEF Ask, StopEnds, Start, AgentStates
  <2>2. UNCHANGED <<runs, log, exec, server, told>>
    BY <1>6 DEF Ask, StopEnds, Start, Answered
  <2> QED  BY <1>1, <1>2, <2>1, <2>2
<1>7. ASSUME NEW a \in Agents, DeleteEnds(a)
      PROVE  RunsTypeOK'
  <2>1. agents' \in [Agents -> AgentStates]
    BY <1>1, <1>7 DEF DeleteEnds, AgentStates
  <2>2. runs' \in [Runs -> Rows]
    BY <1>1, <1>7 DEF DeleteEnds, Rows
  <2> QED  BY <1>1, <1>2, <1>7, <2>1, <2>2 DEF DeleteEnds
<1>8. CASE Poll
  BY <1>1, <1>2, <1>8 DEF Poll
<1>9. ASSUME NEW r \in Runs, Step(r)
      PROVE  RunsTypeOK'
  <2>1. RunsTypeOK /\ (exec[r].at \in Late => exec[r].verdict \in Verdicts)
    BY DEF Inv, RunInv, Row
  <2> QED  BY <1>9, <2>1, StepTypes
<1> QED  BY <1>3, <1>4, <1>5, <1>6, <1>7, <1>8, <1>9, RestartTypes DEF Next

-----------------------------------------------------------------------------
(* What is said of a start. *)
LEMMA StartingKeeps ==
    ASSUME Inv, [Next]_vars
    PROVE  Starting'
<1>1. CASE server = "up" /\ server' = server
  BY <1>1 DEF Starting
<1>2. CASE UNCHANGED <<runs, log, exec, server>>
  BY <1>2 DEF Inv, Starting, Intended
<1>3. ASSUME NEW r \in Runs, Step(r)
      PROVE  Starting'
  <2>1. server' = server
    BY <1>3 DEF Step, Flush, Preflight, Begin, SingleEnds, LeaderEnds, ChildEnds, StoreIntent, CloseEnds,
       FinalWrite
  <2>2. exec[r].at # "none" \/ log[r].queue # <<>>
    BY <1>3 DEF Step, Flush, Preflight, Begin, SingleEnds, LeaderEnds, ChildEnds, StoreIntent, CloseEnds,
       FinalWrite
  <2> QED  BY <1>1, <2>1, <2>2, WorksUp
<1>4. ASSUME Down, log' = [r \in Runs |-> Lost(log[r])]
      PROVE  Starting'
  <2>1. ASSUME NEW r \in Runs PROVE log'[r].queue = <<>> /\ exec'[r] = Idle /\ ~ log'[r].covered
    <3>1. log[r] \in Logs
      BY DEF Inv, RunsTypeOK
    <3>2. Lost(log[r]).queue = <<>> /\ ~ Lost(log[r]).covered
      BY <3>1 DEF Lost, Logs
    <3>3. log'[r] = Lost(log[r])
      BY <1>4
    <3>4. exec'[r] = Idle
      BY <1>4 DEF Down
    <3> QED  BY <3>2, <3>3, <3>4
  <2>2. server' = "down"
    BY <1>4 DEF Down
  <2> QED  BY <2>1, <2>2 DEF Starting
<1>5. CASE Boot
  <2>1. ASSUME NEW r \in Runs PROVE log'[r].queue = <<>> /\ exec'[r] = Idle /\ ~ log'[r].covered
    <3>1. log[r].queue = <<>> /\ exec[r] = Idle /\ log[r] \in Logs /\ ~ log[r].covered
      BY <1>5 DEF Boot, Inv, Starting, RunsTypeOK
    <3> DEFINE shut == log[r].disk # <<>> /\ Last(log[r].disk) \in Terminal
               cut == Cut(log[r])
    <3>2. log'[r] = [log[r] EXCEPT !.closed = shut, !.complete = shut, !.truncated = cut] /\ exec' = exec
      BY <1>5 DEF Boot, Reloaded
    <3> HIDE DEF shut, cut
    <3> QED  BY <3>1, <3>2 DEF Logs
  <2>2. server' = "reconciling"
    BY <1>5 DEF Boot
  <2> QED  BY <2>1, <2>2 DEF Starting
<1>6. ASSUME NEW r \in Runs, ReconcileIntent(r)
      PROVE  Starting'
  <2>1. /\ exec' = exec /\ server' = server /\ server = "reconciling"
        /\ log' = log \/ log' = [log EXCEPT ![r] = Recovered(log[r])]
    BY <1>6 DEF ReconcileIntent
  <2>2. \A k \in Runs : exec[k] = Idle /\ log[k].queue = <<>> /\ ~ log[k].covered /\ log[k] \in Logs
    BY <2>1 DEF Inv, Starting, RunsTypeOK
  <2>3. Recovered(log[r]).queue = <<>> /\ ~ Recovered(log[r]).covered
    BY <2>2, RecoveredIs
  <2>4. \A k \in Runs : log'[k].queue = <<>> /\ ~ log'[k].covered
    BY <2>1, <2>2, <2>3 DEF Inv, RunsTypeOK
  <2> QED  BY <2>1, <2>2, <2>4 DEF Starting
<1>7. CASE RecoverLogs
  <2>1. /\ exec' = exec /\ server' = "recovering" /\ server = "reconciling" /\ Intended = {}
        /\ runs' = runs
        /\ log' = [r \in Runs |-> IF Interrupted(r) THEN Recovered(log[r]) ELSE log[r]]
    BY <1>7 DEF RecoverLogs
  <2>2. \A k \in Runs : exec[k] = Idle /\ log[k].queue = <<>> /\ ~ log[k].covered /\ log[k] \in Logs
    BY <2>1 DEF Inv, Starting, RunsTypeOK
  <2>3. \A k \in Runs : log'[k].queue = <<>> /\ ~ log'[k].covered
    BY <2>1, <2>2, RecoveredIs
  <2>4. Intended' = {}
    BY <2>1 DEF Intended
  <2> QED  BY <2>1, <2>2, <2>3, <2>4 DEF Starting
<1>8. CASE RecoverRows
  <2>1. server' = "up" => Starting'
    BY DEF Starting
  <2> QED  BY <1>4, <1>8, <2>1 DEF RecoverRows
<1>9. CASE Crash
  BY <1>4, <1>9 DEF Crash
<1>10. CASE Restart
  BY <1>5, <1>6, <1>7, <1>8, <1>10 DEF Restart
<1>11. CASE Poll
  BY <1>1, <1>11 DEF Poll
<1>12. ASSUME NEW a \in Agents, \/ \E op \in {"stop", "delete", "purge"} : Ask(a, op)
                               \/ StopEnds(a) \/ Start(a) \/ DeleteEnds(a)
       PROVE  Starting'
  BY <1>1, <1>12 DEF Ask, StopEnds, Start, DeleteEnds, Answered
<1>13. ASSUME NEW a \in Agents, NEW r \in Runs, Send(a, r)
       PROVE  Starting'
  BY <1>1, <1>13 DEF Send
<1>14. ASSUME NEW r \in Runs, NEW a \in Agents, NEW c \in Runs, Dispatch(r, a, c)
       PROVE  Starting'
  <2>1. (exec[r].at # "none" \/ log[r].covered) /\ server' = server
    BY <1>14 DEF Dispatch, Abandoned
  <2> QED  BY <1>1, <2>1, WorksUp
<1> QED  BY <1>2, <1>3, <1>9, <1>10, <1>11, <1>12, <1>13, <1>14 DEF Next, vars

-----------------------------------------------------------------------------
LEMMA InitInv ==
    ASSUME Init
    PROVE  Inv
<1>1. /\ runs = [r \in Runs |-> Unborn] /\ log = [r \in Runs |-> NoLog] /\ exec = [r \in Runs |-> Idle]
      /\ server = "up" /\ told = {}
  BY DEF Init
<1>2. RunsTypeOK
  <2>1. Unborn \in Rows /\ Idle \in Execs
    BY DEF Unborn, Rows, Idle, Execs, Over
  <2>2. NoLog \in Logs
    <3>1. <<>> \in Seq(Events)
      OBVIOUS
    <3> QED  BY <3>1 DEF NoLog, Logs
  <2>3. agents \in [Agents -> AgentStates]
    BY DEF Init, AgentStates
  <2> QED  BY <1>1, <2>1, <2>2, <2>3, TypesAre
<1>3. Starting
  BY <1>1 DEF Starting
<1>4. ASSUME NEW k \in Runs PROVE RunInv(k)
  <2>1. runs[k] = Unborn /\ log[k] = NoLog /\ exec[k] = Idle
    BY <1>1
  <2>2. /\ ~ NoLog.complete /\ ~ NoLog.truncated /\ ~ NoLog.covered /\ ~ NoLog.hushed
        /\ Idle.at = "none" /\ Unborn.status = "none"
        /\ ~ Unborn.intent /\ Unborn.parent = NoRun
    BY DEF NoLog, Idle, Unborn
  <2>3. "none" \in Over /\ "none" \notin Early /\ "none" \notin Late
        /\ "none" \notin {"closing", "write", "write again"}
    BY DEF Over, Early, Late
  <2>4. Row(k) /\ Intent(k) /\ Known(k)
    BY <1>1, <2>1, <2>2, <2>3 DEF Row, Intent, Known
  <2>5. Family(k)
    BY <2>1, <2>2, LifecycleAssumption DEF Family
  <2>6. Writing(k)
    BY <2>1, <2>2, <2>3 DEF Writing
  <2>7. Logged(k)
    BY <2>1, <2>2 DEF Logged
  <2> QED  BY <2>4, <2>5, <2>6, <2>7 DEF RunInv
<1> QED  BY <1>2, <1>3, <1>4 DEF Inv

LEMMA NextInv == Inv /\ [Next]_vars => Inv'
BY RunsKeep, TypesKeep, StartingKeeps DEF Inv

LEMMA ShownStays == ASSUME Inv PROVE VerdictIsFinal
<1> SUFFICES ASSUME server = "up", NEW r \in told
             PROVE  \/ Shown(r) \in {"completed", "deleted"}
                    \/ Shown(r) = "running" /\ runs[r].intent /\ ~ log[r].complete
  BY DEF VerdictIsFinal
<1>1. r \in Runs /\ Known(r) /\ log[r] \in Logs
  BY DEF Inv, RunsTypeOK, RunInv
<1>2. CASE runs[r].status \in {"completed", "deleted"}
  BY <1>2 DEF Shown, Active
<1>3. CASE /\ runs[r].status = "running" /\ runs[r].intent /\ log[r].queue = <<>>
           /\ EndsOk(log[r].disk) /\ log[r].closed /\ ~ log[r].broken
  <2> DEFINE d == log[r].disk
  <2>1. d \in Seq(Events)
    BY <1>1 DEF Logs
  <2>2. d \o <<>> = d
    <3> HIDE DEF d
    <3> QED  BY <2>1, WholeAlone
  <2>3. EndsOk(log[r].disk \o log[r].queue)
    BY <1>3, <2>2
  <2>4. log[r].complete => HasClosedTerminal(log[r])
    BY <1>3, <2>3 DEF HasClosedTerminal
  <2> QED  BY <1>3, <2>4 DEF Shown, Active
<1> QED  BY <1>1, <1>2, <1>3 DEF Known

LEMMA CompletedSaysSo == ASSUME Inv PROVE CompletedIsLogged
<1> SUFFICES ASSUME NEW r \in Runs, runs[r].status = "completed", Kind(r) # "leader"
             PROVE  \/ EndsOk(log[r].disk) \/ Cut(log[r])
                    \/ Kind(r) = "child" /\ log[r].hushed
  BY DEF CompletedIsLogged
<1> QED  BY DEF Inv, RunInv, Logged, Writing

(***************************************************************************)
(* RunTranscript.                                                          *)
(***************************************************************************)

(* The transcripts count as the library does.                              *)
LEMMA ShownCounts ==
    ASSUME NEW Z
    PROVE  T!Cardinality(Z) = Cardinality(Z) /\ E!Cardinality(Z) = Cardinality(Z)
<1> QED  BY DEF T!Cardinality, E!Cardinality, Cardinality, T!IsFiniteSet, E!IsFiniteSet, IsFiniteSet


LEMMA PageAssumption == Page \in Nat /\ BufferSize \in Nat
BY TranscriptsAssumption DEF T!TranscriptAssumption

\* What the events of a run are told apart by.
LogWords == {"run", "restart"}

PagesOK == /\ most \in Nat
           /\ pages \in [ChatRuns -> Seq(LogWords)] /\ written \in [ChatRuns -> Nat]
           /\ status \in [ChatRuns -> {"none", "running", "ended"}]
           /\ \A r \in ChatRuns : written[r] <= Len(pages[r])

\* The lowest of consecutive numbers are consecutive, and begin where they do.
LEMMA PageIsFirst ==
  ASSUME NEW a \in Nat, NEW b \in Nat
  PROVE  \E k \in Nat : T!Lowest({i \in Nat : a < i /\ i <= b}) = {i \in Nat : a < i /\ i <= k}
<1> DEFINE S == {i \in Nat : a < i /\ i <= b}
<1>1. \A i \in S : Cardinality({j \in S : j <= i}) = i - a
  <2> TAKE i \in S
  <2>1. {j \in S : j <= i} = (a + 1) .. i  OBVIOUS
  <2>2. Cardinality((a + 1) .. i) = i - a
    BY FS_Interval
  <2> QED BY <2>1, <2>2
<1>2. T!Lowest(S) = {i \in S : i - a <= Page}
  BY <1>1, ShownCounts DEF T!Lowest
<1>3. PICK k \in Nat : k = IF b <= a + Page THEN b ELSE a + Page
  BY PageAssumption
<1>4. {i \in S : i - a <= Page} = {i \in Nat : a < i /\ i <= k}
  BY <1>3, PageAssumption
<1> QED BY <1>2, <1>4

\* A page has the events right after the cursor, from the buffer as from the file.
LEMMA PageIsNext ==
  ASSUME PagesOK, NEW r \in ChatRuns, NEW after \in Nat
  PROVE  \E k \in Nat : T!Read(r, after) = {i \in Nat : after < i /\ i <= k}
<1> DEFINE n == Len(pages[r])
           from == IF T!Buffered(r) # {} /\ after + BufferSize >= n THEN T!Buffered(r) ELSE 1 .. written[r]
<1>1. n \in Nat /\ DOMAIN pages[r] = 1 .. n /\ written[r] \in Nat
  BY DEF PagesOK
<1>2. CASE T!Buffered(r) # {} /\ after + BufferSize >= n
  <2>1. {i \in T!Buffered(r) : i > after} = {i \in Nat : after < i /\ i <= n}
    BY <1>1, <1>2, PageAssumption DEF T!Buffered
  <2>2. T!Read(r, after) = T!Lowest({i \in T!Buffered(r) : i > after})
    BY <1>2 DEF T!Read
  <2>3. PICK k \in Nat : T!Lowest({i \in Nat : after < i /\ i <= n}) = {i \in Nat : after < i /\ i <= k}
    BY <1>1, PageIsFirst
  <2> HIDE DEF n
  <2>4. T!Read(r, after) = T!Lowest({i \in Nat : after < i /\ i <= n})
    BY <2>1, <2>2, Zenon
  <2>5. T!Read(r, after) = {i \in Nat : after < i /\ i <= k}
    BY <2>3, <2>4, Zenon
  <2> QED BY <2>5
<1>3. CASE ~(T!Buffered(r) # {} /\ after + BufferSize >= n)
  <2>1. {i \in 1 .. written[r] : i > after} = {i \in Nat : after < i /\ i <= written[r]}
    BY <1>1
  <2>2. T!Read(r, after) = T!Lowest({i \in 1 .. written[r] : i > after})
    BY <1>3 DEF T!Read
  <2>3. PICK k \in Nat : T!Lowest({i \in Nat : after < i /\ i <= written[r]}) = {i \in Nat : after < i /\ i <= k}
    BY <1>1, PageIsFirst
  <2>4. T!Read(r, after) = {i \in Nat : after < i /\ i <= k}
    BY <2>1, <2>2, <2>3, Zenon
  <2> QED BY <2>4
<1> QED BY <1>2, <1>3

\* A page that goes on from what is held, or from before its end, leaves no gap.
LEMMA MergeGoesOn ==
  ASSUME PagesOK, NEW r \in ChatRuns, NEW after \in Nat, NEW trace, trace.cursor \in Nat
  PROVE  /\ T!Merge(trace, r, T!Read(r, after)).cursor \in Nat
         /\ T!Merge(trace, r, T!Read(r, after)).cursor >= trace.cursor
         /\ T!Gapless(trace) /\ after <= trace.cursor => T!Gapless(T!Merge(trace, r, T!Read(r, after)))
<1> DEFINE page == T!Read(r, after)
           m == T!Merge(trace, r, page)
<1>1. PICK k \in Nat : page = {i \in Nat : after < i /\ i <= k}
  BY PageIsNext
<1> HIDE DEF page
<1>2. CASE page = {}
  <2>1. m = trace
    BY <1>2 DEF T!Merge
  <2> QED BY <2>1 DEF page
<1>3. CASE page # {}
  <2>1. k > after
    BY <1>1, <1>3
  <2>2. PICK top \in Nat : top = IF k >= trace.cursor THEN k ELSE trace.cursor
    OBVIOUS
  <2>3. T!Max(page \cup {trace.cursor}) = top
    <3>1. top \in page \cup {trace.cursor} /\ \A y \in page \cup {trace.cursor} : top >= y
      BY <1>1, <2>1, <2>2
    <3>2. \A x \in page \cup {trace.cursor} : x \in Nat
      BY <1>1
    <3>3. T!Max(page \cup {trace.cursor}) \in page \cup {trace.cursor}
          /\ \A y \in page \cup {trace.cursor} : T!Max(page \cup {trace.cursor}) >= y
      BY <3>1 DEF T!Max
    <3> HIDE DEF page
    <3>4. ASSUME NEW mx, mx \in page \cup {trace.cursor}, \A y \in page \cup {trace.cursor} : mx >= y
          PROVE  mx = top
      <4>1. mx \in Nat /\ mx >= top /\ top >= mx
        BY <3>1, <3>2, <3>4
      <4> QED BY <4>1
    <3> QED BY <3>3, <3>4
  <2>4. /\ m.cursor = top
        /\ DOMAIN m.events = page \cup DOMAIN trace.events
    BY <1>3, <2>3 DEF T!Merge
  <2>5. ASSUME T!Gapless(trace), after <= trace.cursor
        PROVE  page \cup DOMAIN trace.events = 1 .. top
    BY <1>1, <2>1, <2>2, <2>5 DEF T!Gapless
  <2> QED BY <2>2, <2>4, <2>5 DEF T!Gapless, page
<1> QED BY <1>2, <1>3

LEMMA PagesStep ==
  /\ PagesOK /\ T!Emits => PagesOK'
  /\ PagesOK /\ T!Restart => PagesOK'
  /\ \A r \in ChatRuns : PagesOK /\ T!Begin(r) => PagesOK'
  /\ PagesOK /\ UNCHANGED T!logVars => PagesOK'
<1>1. ASSUME PagesOK, NEW r \in ChatRuns, T!Emit(r) \/ T!Write(r) \/ T!End(r) \/ T!Begin(r)  PROVE PagesOK'
  <2>1. CASE T!Emit(r)
    <3>0. pages[r] \in Seq(LogWords) /\ "run" \in LogWords
      BY <1>1 DEF PagesOK, LogWords
    <3>1. Append(pages[r], "run") \in Seq(LogWords)
      BY <3>0, AppendProperties
    <3>2. Len(Append(pages[r], "run")) = Len(pages[r]) + 1 /\ Len(pages[r]) \in Nat /\ written[r] \in Nat
          /\ written[r] <= Len(pages[r])
      BY <1>1 DEF PagesOK
    <3>3. pages' = [pages EXCEPT ![r] = Append(pages[r], "run")] /\ UNCHANGED <<most, written, status>>
      BY <2>1 DEF T!Emit
    <3> QED BY <1>1, <3>1, <3>2, <3>3 DEF PagesOK
  <2>2. CASE T!Write(r)
    BY <1>1, <2>2 DEF PagesOK, T!Write
  <2>3. CASE T!End(r) \/ T!Begin(r)
    BY <1>1, <2>3 DEF PagesOK, T!End, T!Begin
  <2> QED BY <1>1, <2>1, <2>2, <2>3
<1>2. ASSUME PagesOK, T!Restart  PROVE PagesOK'
  <2> DEFINE cut == {r \in ChatRuns : status[r] = "running"}
             Log(r) == IF r \in cut THEN Append(SubSeq(pages[r], 1, written[r]), "restart") ELSE pages[r]
  <2>0. /\ pages' = [r \in ChatRuns |-> Log(r)] /\ most' = most
        /\ written' = [r \in ChatRuns |-> Len(pages'[r])]
        /\ status' = [r \in ChatRuns |-> IF r \in cut THEN "ended" ELSE status[r]]
    BY <1>2 DEF T!Restart
  <2>1. \A r \in ChatRuns : Log(r) \in Seq(LogWords)
    <3> TAKE r \in ChatRuns
    <3>1. pages[r] \in Seq(LogWords) /\ written[r] \in Nat /\ written[r] <= Len(pages[r])
      BY <1>2 DEF PagesOK
    <3>2. \A i \in 1 .. written[r] : pages[r][i] \in LogWords
      BY <3>1
    <3>3. SubSeq(pages[r], 1, written[r]) \in Seq(LogWords)
      BY <3>1, <3>2, SubSeqProperties
    <3>4. Append(SubSeq(pages[r], 1, written[r]), "restart") \in Seq(LogWords)
      BY <3>3, AppendProperties DEF LogWords
    <3> QED BY <3>1, <3>4
  <2>2. pages' \in [ChatRuns -> Seq(LogWords)]
    BY <2>0, <2>1
  <2>3. written' \in [ChatRuns -> Nat]
    BY <2>0, <2>2
  <2>4. \A r \in ChatRuns : written'[r] <= Len(pages'[r])
    BY <2>0, <2>2
  <2> QED BY <1>2, <2>0, <2>2, <2>3, <2>4 DEF PagesOK
<1>3. PagesOK /\ UNCHANGED T!logVars => PagesOK'
  BY DEF PagesOK, T!logVars
<1> QED BY <1>1, <1>2, <1>3 DEF T!Emits

LEMMA PagesStart ==
  ASSUME most \in Nat, NEW ended, NEW running, T!LogInit(ended, running)
  PROVE  PagesOK
<1>1. [i \in 1 .. most |-> "run"] \in Seq(LogWords) /\ <<>> \in Seq(LogWords)
  <2>1. [i \in 1 .. most |-> "run"] \in [1 .. most -> LogWords]
    BY DEF LogWords
  <2>2. Seq(LogWords) = UNION {[1 .. n -> LogWords] : n \in Nat}
    BY SeqDef
  <2>3. <<>> \in [1 .. 0 -> LogWords]
    OBVIOUS
  <2> QED BY <2>1, <2>2, <2>3
<1>2. pages \in [ChatRuns -> Seq(LogWords)]
  BY <1>1 DEF T!LogInit
<1> QED BY <1>2 DEF PagesOK, T!LogInit

Places == {"off", "sleep", "ask", "drain", "refresh"}

TranscriptTypeOK ==
  /\ PagesOK
  /\ chat \in BOOLEAN /\ visible \in ChatRuns \cup {NoRun} /\ dropped \subseteq {New}
  /\ DOMAIN listing \subseteq ChatRuns /\ \A list \in got : DOMAIN list \subseteq ChatRuns
  /\ DOMAIN traces = ChatRuns /\ \A r \in ChatRuns : traces[r].cursor \in Nat
  /\ poll \in [ChatRuns -> [at : Places, after : Nat, page : BOOLEAN,
                        told : {"none", "running", "ended"}, sent : BOOLEAN]]
  /\ drain \in [ChatRuns -> [on : BOOLEAN, after : Nat, once : BOOLEAN]]

\* What is in view is in the chat, and is what is shown.
ViewSound ==
  /\ visible # NoRun => chat = TRUE
  /\ shown.of = visible /\ active.of \in {NoRun, visible}
  /\ visible # NoRun => shown.events = traces[visible].events

\* Whoever reads a run goes on from what is held of it, or from before its end.
ReadersBehind(r) ==
  /\ T!Gapless(traces[r])
  /\ drain[r].after <= traces[r].cursor /\ poll[r].after <= traces[r].cursor

TracesSound == \A r \in ChatRuns \ dropped : ReadersBehind(r)

TranscriptInv == TranscriptTypeOK /\ ViewSound /\ TracesSound

LEMMA NothingGapless == T!Nothing.cursor = 0 /\ T!Gapless(T!Nothing)
BY DEF T!Nothing, T!Gapless

LEMMA InitTranscriptInv == T!Init => TranscriptInv
<1> SUFFICES ASSUME T!Init PROVE TranscriptInv  OBVIOUS
<1>0. most \in Nat
  BY TranscriptsAssumption DEF T!Init, T!TranscriptAssumption
<1>1. PagesOK
  BY <1>0, PagesStart DEF T!Init
<1>2. DOMAIN <<>> = {}
  OBVIOUS
<1>3. TranscriptTypeOK
  <2>1. listing = <<>>
    BY DEF T!Init
  <2>2. DOMAIN listing \subseteq ChatRuns
    BY <2>1, <1>2
  <2>3. /\ chat \in BOOLEAN /\ visible \in ChatRuns \cup {NoRun} /\ dropped \subseteq {New}
        /\ \A list \in got : DOMAIN list \subseteq ChatRuns
    BY DEF T!Init
  <2>6. DOMAIN traces = ChatRuns /\ \A r \in ChatRuns : traces[r].cursor \in Nat
    BY DEF T!Init, T!Nothing
  <2>4. poll \in [ChatRuns -> [at : Places, after : Nat, page : BOOLEAN,
                           told : {"none", "running", "ended"}, sent : BOOLEAN]]
    BY DEF T!Init, T!NoPoll, Places
  <2>5. drain \in [ChatRuns -> [on : BOOLEAN, after : Nat, once : BOOLEAN]]
    BY DEF T!Init, T!NoDrain
  <2> QED BY <1>1, <2>2, <2>3, <2>4, <2>5, <2>6 DEF TranscriptTypeOK
<1>4. ViewSound
  BY DEF T!Init, ViewSound, T!Blank, T!Idle
<1>5. TracesSound
  BY NothingGapless DEF T!Init, TracesSound, ReadersBehind, T!NoPoll, T!NoDrain
<1> QED BY <1>3, <1>4, <1>5 DEF TranscriptInv

\* A step of the log, of what is asked for, or of the bounds.
LEMMA ServerKeeps ==
  ASSUME TranscriptInv, PagesOK', UNCHANGED <<T!viewVars, traces, got, poll, drain, dropped>>
  PROVE  TranscriptInv'
BY DEF TranscriptInv, TranscriptTypeOK, ViewSound, TracesSound, ReadersBehind, T!viewVars

\* Readers come and go, behind what is held of their run.
LEMMA ReadersMove ==
  ASSUME TranscriptInv, PagesOK', UNCHANGED <<chat, visible, shown, traces, dropped>>,
         DOMAIN listing' \subseteq ChatRuns, \A list \in got' : DOMAIN list \subseteq ChatRuns,
         active'.of \in {NoRun, visible},
         poll' \in [ChatRuns -> [at : Places, after : Nat, page : BOOLEAN,
                             told : {"none", "running", "ended"}, sent : BOOLEAN]],
         drain' \in [ChatRuns -> [on : BOOLEAN, after : Nat, once : BOOLEAN]],
         \A r \in ChatRuns : poll'[r].after \in {0, poll[r].after, traces[r].cursor},
         \A r \in ChatRuns : drain'[r].after \in {0, drain[r].after, traces[r].cursor}
  PROVE  TranscriptInv'
<1>1. TranscriptTypeOK' /\ ViewSound'
  BY DEF TranscriptInv, TranscriptTypeOK, ViewSound
<1>2. TracesSound'
  <2> SUFFICES ASSUME NEW r \in ChatRuns \ dropped PROVE ReadersBehind(r)'
    BY DEF TracesSound
  <2>1. ReadersBehind(r) /\ traces[r].cursor \in Nat
    BY DEF TranscriptInv, TranscriptTypeOK, TracesSound
  <2>2. /\ traces'[r] = traces[r]
        /\ poll'[r].after \in {0, poll[r].after, traces[r].cursor}
        /\ drain'[r].after \in {0, drain[r].after, traces[r].cursor}
    OBVIOUS
  <2> QED BY <2>1, <2>2 DEF ReadersBehind, T!Gapless
<1> QED BY <1>1, <1>2 DEF TranscriptInv

\* A page of a run comes in, and who asked for it goes on.
LEMMA PageComes ==
  ASSUME TranscriptInv, NEW r \in ChatRuns, NEW after \in Nat,
         r \notin dropped => after <= traces[r].cursor,
         T!Fetched(r, T!Read(r, after)),
         UNCHANGED <<T!logVars, chat, visible, active, listing, got, dropped>>,
         poll' \in [ChatRuns -> [at : Places, after : Nat, page : BOOLEAN,
                             told : {"none", "running", "ended"}, sent : BOOLEAN]],
         drain' \in [ChatRuns -> [on : BOOLEAN, after : Nat, once : BOOLEAN]],
         \A k \in ChatRuns : poll'[k].after \in {0, poll[k].after, traces'[k].cursor},
         \A k \in ChatRuns : drain'[k].after \in {0, drain[k].after, traces'[k].cursor}
  PROVE  TranscriptInv'
<1> DEFINE new == T!Merge(traces[r], r, T!Read(r, after))
<1>0. PagesOK /\ PagesOK' /\ DOMAIN traces = ChatRuns /\ \A k \in ChatRuns : traces[k].cursor \in Nat
  BY PagesStep DEF TranscriptInv, TranscriptTypeOK
<1>1. /\ new.cursor \in Nat /\ new.cursor >= traces[r].cursor
      /\ T!Gapless(traces[r]) /\ after <= traces[r].cursor => T!Gapless(new)
  BY <1>0, MergeGoesOn
<1>2. traces' = [traces EXCEPT ![r] = new]
  BY DEF T!Fetched
<1>s. shown' = IF chat /\ visible = r THEN [of |-> r, events |-> traces'[r].events] ELSE shown
  BY DEF T!Fetched
<1> HIDE DEF new
<1>3. /\ DOMAIN traces' = ChatRuns /\ traces'[r] = new
      /\ \A k \in ChatRuns \ {r} : traces'[k] = traces[k]
  BY <1>0, <1>2
<1>4. TranscriptTypeOK'
  BY <1>0, <1>1, <1>3 DEF TranscriptInv, TranscriptTypeOK
<1>5. ViewSound'
  <2>1. CASE visible = r
    BY <2>1, <1>s DEF TranscriptInv, TranscriptTypeOK, ViewSound
  <2>2. CASE visible # r
    BY <2>2, <1>s, <1>3 DEF TranscriptInv, TranscriptTypeOK, ViewSound
  <2> QED BY <2>1, <2>2
<1>6. TracesSound'
  <2> SUFFICES ASSUME NEW k \in ChatRuns \ dropped PROVE ReadersBehind(k)'
    BY DEF TracesSound
  <2>1. ReadersBehind(k) /\ traces[k].cursor \in Nat
    BY <1>0 DEF TranscriptInv, TracesSound
  <2>2. /\ poll'[k].after \in {0, poll[k].after, traces'[k].cursor}
        /\ drain'[k].after \in {0, drain[k].after, traces'[k].cursor}
        /\ poll[k].after \in Nat /\ drain[k].after \in Nat
    BY DEF TranscriptInv, TranscriptTypeOK
  <2>3. CASE k = r
    <3>1. T!Gapless(new)
      BY <1>1, <2>1, <2>3 DEF ReadersBehind
    <3> QED BY <1>1, <1>3, <2>1, <2>2, <2>3, <3>1 DEF ReadersBehind, T!Gapless
  <2>4. CASE k # r
    <3>1. traces'[k] = traces[k]
      BY <1>3, <2>4
    <3> QED BY <2>1, <2>2, <3>1 DEF ReadersBehind, T!Gapless
  <2> QED BY <2>3, <2>4
<1> QED BY <1>4, <1>5, <1>6 DEF TranscriptInv

LEMMA ListingOfRuns == DOMAIN T!Listing \subseteq ChatRuns
BY DEF T!Listing

\* A run comes into view.
LEMMA ShowKeeps ==
  ASSUME TranscriptInv, chat = TRUE, NEW r \in ChatRuns, NEW live, NEW page, T!Show(r, live, page),
         DOMAIN listing' \subseteq ChatRuns, \A list \in got' : DOMAIN list \subseteq ChatRuns,
         UNCHANGED <<T!logVars, chat, traces, dropped>>
  PROVE  TranscriptInv'
<1>0. PagesOK'
  BY PagesStep DEF TranscriptInv, TranscriptTypeOK
<1>1. /\ poll' \in [ChatRuns -> [at : Places, after : Nat, page : BOOLEAN,
                              told : {"none", "running", "ended"}, sent : BOOLEAN]]
      /\ \A k \in ChatRuns : poll'[k].after \in {0, poll[k].after}
  <2>1. poll' = poll \/ poll' = [poll EXCEPT ![r] = T!Polled(r, FALSE)]
    BY DEF T!Show
  <2>2. /\ poll[r] \in [at : Places, after : Nat, page : BOOLEAN,
                         told : {"none", "running", "ended"}, sent : BOOLEAN]
        /\ poll \in [ChatRuns -> [at : Places, after : Nat, page : BOOLEAN,
                         told : {"none", "running", "ended"}, sent : BOOLEAN]]
    BY DEF TranscriptInv, TranscriptTypeOK
  <2>3. T!Polled(r, FALSE) \in {poll[r], [at |-> "sleep", after |-> 0, page |-> FALSE, told |-> "none", sent |-> FALSE]}
    BY DEF T!Polled, T!NoPoll
  <2>4. PICK p : p = T!Polled(r, FALSE)
    OBVIOUS
  <2>5. /\ p \in [at : Places, after : Nat, page : BOOLEAN, told : {"none", "running", "ended"}, sent : BOOLEAN]
        /\ p.after \in {0, poll[r].after}
    <3>1. CASE p = poll[r]
      BY <2>2, <3>1
    <3>2. CASE p = [at |-> "sleep", after |-> 0, page |-> FALSE, told |-> "none", sent |-> FALSE]
      BY <3>2 DEF Places
    <3> QED BY <2>3, <2>4, <3>1, <3>2
  <2>6. poll' = poll \/ poll' = [poll EXCEPT ![r] = p]
    BY <2>1, <2>4
  <2> QED BY <2>2, <2>5, <2>6
<1>2. /\ drain' \in [ChatRuns -> [on : BOOLEAN, after : Nat, once : BOOLEAN]]
      /\ \A k \in ChatRuns : drain'[k].after \in {0, drain[k].after, traces[k].cursor}
  <2>1. /\ drain \in [ChatRuns -> [on : BOOLEAN, after : Nat, once : BOOLEAN]]
        /\ traces[r].cursor \in Nat
    BY DEF TranscriptInv, TranscriptTypeOK
  <2>2. PICK d \in {drain[r], T!Reader(r, TRUE), T!Reader(r, FALSE)} : drain' = [drain EXCEPT ![r] = d]
    BY <2>1 DEF T!Show
  <2>3. d \in [on : BOOLEAN, after : Nat, once : BOOLEAN] /\ d.after \in {drain[r].after, traces[r].cursor}
    <3>1. CASE d = drain[r]
      BY <2>1, <3>1
    <3>2. CASE d = T!Reader(r, TRUE)
      BY <2>1, <3>2 DEF T!Reader
    <3>3. CASE d = T!Reader(r, FALSE)
      BY <2>1, <3>3 DEF T!Reader
    <3> QED BY <2>2, <3>1, <3>2, <3>3
  <2> QED BY <2>1, <2>2, <2>3
<1>3. visible' = r /\ shown' = [of |-> r, events |-> traces[r].events] /\ active'.of = r
  BY DEF T!Show
<1>4. TranscriptTypeOK'
  BY <1>0, <1>1, <1>2, <1>3 DEF TranscriptInv, TranscriptTypeOK
<1>5. ViewSound'
  BY <1>3 DEF ViewSound
<1>6. TracesSound'
  <2> SUFFICES ASSUME NEW k \in ChatRuns \ dropped PROVE ReadersBehind(k)'
    BY DEF TracesSound
  <2>1. ReadersBehind(k) /\ traces[k].cursor \in Nat
    BY DEF TranscriptInv, TranscriptTypeOK, TracesSound
  <2>2. /\ traces'[k] = traces[k] /\ poll'[k].after \in {0, poll[k].after}
        /\ drain'[k].after \in {0, drain[k].after, traces[k].cursor}
    BY <1>1, <1>2
  <2> QED BY <2>1, <2>2 DEF ReadersBehind, T!Gapless
<1> QED BY <1>4, <1>5, <1>6 DEF TranscriptInv

\* A message's answer begins its run's trace anew.
LEMMA SentKeeps == TranscriptInv /\ T!Sent => TranscriptInv'
<1> SUFFICES ASSUME TranscriptInv, T!Sent PROVE TranscriptInv'  OBVIOUS
<1>0. PagesOK' /\ New \in ChatRuns
  BY TranscriptsAssumption, PagesStep DEF TranscriptInv, TranscriptTypeOK, T!Sent, T!TranscriptAssumption
<1>1. /\ poll' \in [ChatRuns -> [at : Places, after : Nat, page : BOOLEAN,
                              told : {"none", "running", "ended"}, sent : BOOLEAN]]
      /\ \A k \in ChatRuns : poll'[k].after \in {0, poll[k].after}
  <2>1. poll' = [poll EXCEPT ![New] = T!Polled(New, TRUE)]
    BY DEF T!Sent
  <2>2. /\ poll[New] \in [at : Places, after : Nat, page : BOOLEAN,
                         told : {"none", "running", "ended"}, sent : BOOLEAN]
        /\ poll \in [ChatRuns -> [at : Places, after : Nat, page : BOOLEAN,
                         told : {"none", "running", "ended"}, sent : BOOLEAN]]
    BY <1>0 DEF TranscriptInv, TranscriptTypeOK
  <2>3. T!Polled(New, TRUE) \in {poll[New], [at |-> "sleep", after |-> 0, page |-> FALSE, told |-> "none", sent |-> TRUE]}
    BY DEF T!Polled, T!NoPoll
  <2>4. PICK p : p = T!Polled(New, TRUE)
    OBVIOUS
  <2>5. /\ p \in [at : Places, after : Nat, page : BOOLEAN, told : {"none", "running", "ended"}, sent : BOOLEAN]
        /\ p.after \in {0, poll[New].after}
    <3>1. CASE p = poll[New]
      BY <2>2, <3>1
    <3>2. CASE p = [at |-> "sleep", after |-> 0, page |-> FALSE, told |-> "none", sent |-> TRUE]
      BY <3>2 DEF Places
    <3> QED BY <2>3, <2>4, <3>1, <3>2
  <2>6. poll' = poll \/ poll' = [poll EXCEPT ![New] = p]
    BY <2>1, <2>4
  <2> QED BY <2>2, <2>5, <2>6
<1>2. CASE chat = TRUE
  <2>1. /\ traces' = [traces EXCEPT ![New] = T!Nothing] /\ UNCHANGED <<drain, chat, got, listing>>
        /\ visible' = New /\ shown' = [of |-> New, events |-> <<>>] /\ active' = [of |-> New, live |-> TRUE]
        /\ dropped' = IF poll[New].after > 0 \/ drain[New].after > 0 THEN {New} ELSE dropped
    BY <1>2 DEF T!Sent
  <2>2. /\ DOMAIN traces' = ChatRuns /\ traces'[New] = T!Nothing
        /\ \A k \in ChatRuns \ {New} : traces'[k] = traces[k]
    BY <2>1, <1>0 DEF TranscriptInv, TranscriptTypeOK
  <2>3. TranscriptTypeOK'
    BY <1>0, <1>1, <2>1, <2>2, NothingGapless DEF TranscriptInv, TranscriptTypeOK
  <2>4. ViewSound'
    BY <1>2, <2>1, <2>2 DEF ViewSound, T!Nothing
  <2>5. TracesSound'
    <3> SUFFICES ASSUME NEW k \in ChatRuns, k \notin dropped' PROVE ReadersBehind(k)'
      BY DEF TracesSound
    <3>1. CASE k # New
      <4>1. ReadersBehind(k)
        BY <3>1 DEF TranscriptInv, TranscriptTypeOK, TracesSound
      <4>2. traces'[k] = traces[k] /\ traces[k].cursor \in Nat /\ poll'[k].after \in {0, poll[k].after}
        BY <1>1, <2>2, <3>1 DEF TranscriptInv, TranscriptTypeOK
      <4>3. drain' = drain
        BY <2>1
      <4> QED BY <4>1, <4>2, <4>3 DEF ReadersBehind, T!Gapless
    <3>2. CASE k = New
      <4>1. poll[New].after \in Nat /\ drain[New].after \in Nat
        BY <1>0 DEF TranscriptInv, TranscriptTypeOK
      <4>2. poll[New].after = 0 /\ drain[New].after = 0
        BY <2>1, <3>2, <4>1
      <4>3. poll'[New].after = 0 /\ drain'[New].after = 0
        BY <1>0, <1>1, <2>1, <4>2
      <4>4. traces'[k] = T!Nothing
        BY <2>2, <3>2
      <4> QED BY <3>2, <4>3, <4>4, NothingGapless DEF ReadersBehind, T!Gapless
    <3> QED BY <3>1, <3>2
  <2> QED BY <2>3, <2>4, <2>5 DEF TranscriptInv
<1>3. CASE chat = FALSE
  <2>1. UNCHANGED <<visible, shown, active, traces, dropped, drain, chat, got, listing>>
    BY <1>3 DEF T!Sent, T!faultVars
  <2> QED BY <1>0, <1>1, <2>1, ReadersMove DEF TranscriptInv, TranscriptTypeOK, ViewSound
<1> QED BY <1>2, <1>3 DEF TranscriptInv, TranscriptTypeOK

\* The steps of a run's readers.
LEMMA ReaderKeeps ==
  ASSUME TranscriptInv, NEW r \in ChatRuns,
         \/ T!Drain(r) \/ T!DrainFails(r) \/ T!Polls(r) \/ T!PollDrainFails(r) \/ T!PollFails(r)
  PROVE  TranscriptInv'
<1> DEFINE PollSet == [at : Places, after : Nat, page : BOOLEAN,
                       told : {"none", "running", "ended"}, sent : BOOLEAN]
           DrainSet == [on : BOOLEAN, after : Nat, once : BOOLEAN]
<1>0. /\ PagesOK /\ (UNCHANGED T!logVars => PagesOK')
      /\ poll \in [ChatRuns -> PollSet] /\ drain \in [ChatRuns -> DrainSet] /\ DOMAIN traces = ChatRuns
      /\ \A k \in ChatRuns : traces[k].cursor \in Nat
      /\ DOMAIN listing \subseteq ChatRuns /\ \A list \in got : DOMAIN list \subseteq ChatRuns
      /\ visible \in ChatRuns \cup {NoRun} /\ active.of \in {NoRun, visible}
      /\ \A k \in ChatRuns \ dropped : drain[k].after <= traces[k].cursor /\ poll[k].after <= traces[k].cursor
  BY PagesStep DEF TranscriptInv, TranscriptTypeOK, ViewSound, TracesSound, ReadersBehind
<1>a. poll[r] \in PollSet /\ drain[r] \in DrainSet
  BY <1>0
<1>b. ASSUME NEW after \in Nat, T!Fetched(r, T!Read(r, after))
      PROVE  traces'[r].cursor \in Nat
  <2>1. T!Merge(traces[r], r, T!Read(r, after)).cursor \in Nat
    BY <1>0, MergeGoesOn
  <2> QED BY <1>0, <1>b, <2>1 DEF T!Fetched
<1>1. CASE T!Drain(r)
  <2>1. /\ T!Fetched(r, T!Read(r, drain[r].after)) /\ UNCHANGED <<T!logVars, chat, visible, active, listing, got, dropped, poll>>
        /\ \/ drain' = [drain EXCEPT ![r] = T!NoDrain]
           \/ drain' = [drain EXCEPT ![r] = [drain[r] EXCEPT !.after = traces'[r].cursor]]
    BY <1>1 DEF T!Drain, T!faultVars
  <2>2. traces'[r].cursor \in Nat
    BY <1>a, <1>b, <2>1
  <2>3. /\ drain' \in [ChatRuns -> DrainSet]
        /\ \A k \in ChatRuns : drain'[k].after \in {0, drain[k].after, traces'[k].cursor}
    <3>1. CASE drain' = [drain EXCEPT ![r] = T!NoDrain]
      BY <1>0, <3>1 DEF T!NoDrain
    <3>2. CASE drain' = [drain EXCEPT ![r] = [drain[r] EXCEPT !.after = traces'[r].cursor]]
      <4>1. PICK d : d = [drain[r] EXCEPT !.after = traces'[r].cursor]
        OBVIOUS
      <4>2. d \in DrainSet /\ d.after = traces'[r].cursor
        BY <1>a, <2>2, <4>1
      <4>3. drain' = [drain EXCEPT ![r] = d]
        BY <3>2, <4>1
      <4> QED BY <1>0, <4>2, <4>3
    <3> QED BY <2>1, <3>1, <3>2
  <2> QED BY <1>0, <1>a, <2>1, <2>3, PageComes
<1>2. CASE T!DrainFails(r)
  <2>1. /\ UNCHANGED <<T!logVars, chat, visible, active, listing, shown, traces, got, dropped, poll>>
        /\ drain' = [drain EXCEPT ![r] = T!NoDrain]
    BY <1>2 DEF T!DrainFails, T!viewVars
  <2>2. /\ drain' \in [ChatRuns -> DrainSet]
        /\ \A k \in ChatRuns : drain'[k].after \in {0, drain[k].after}
    BY <1>0, <2>1 DEF T!NoDrain
  <2> QED BY <1>0, <2>1, <2>2, ReadersMove
<1>3. CASE T!Poll(r)
  <2>1. /\ UNCHANGED <<T!logVars, chat, visible, active, listing, shown, traces, got, dropped, drain>>
        /\ poll' = [poll EXCEPT ![r] = [poll[r] EXCEPT !.at = "ask", !.after = traces[r].cursor,
                                                      !.page = FALSE, !.told = "none"]]
    BY <1>3 DEF T!Poll, T!viewVars, T!faultVars
  <2>2. /\ poll' \in [ChatRuns -> PollSet]
        /\ \A k \in ChatRuns : poll'[k].after \in {0, poll[k].after, traces[k].cursor}
    BY <1>0, <1>a, <2>1 DEF Places
  <2> QED BY <1>0, <2>1, <2>2, ReadersMove
<1>4. CASE T!PollPage(r)
  <2>1. /\ UNCHANGED <<T!logVars, chat, visible, active, listing, got, dropped, drain>>
        /\ poll' = [poll EXCEPT ![r].page = TRUE]
        /\ T!Fetched(r, T!Read(r, poll[r].after)) \/ UNCHANGED <<traces, shown>>
    BY <1>4 DEF T!PollPage, T!faultVars
  <2>2. /\ poll' \in [ChatRuns -> PollSet]
        /\ \A k \in ChatRuns : poll'[k].after = poll[k].after
    BY <1>0, <1>a, <2>1
  <2>3. CASE T!Fetched(r, T!Read(r, poll[r].after))
    BY <1>0, <1>a, <2>1, <2>2, <2>3, PageComes
  <2>4. CASE UNCHANGED <<traces, shown>>
    BY <1>0, <2>1, <2>2, <2>4, ReadersMove
  <2> QED BY <2>1, <2>3, <2>4
<1>5. CASE T!PollStatus(r)
  <2>1. /\ UNCHANGED <<T!logVars, chat, visible, active, listing, shown, traces, got, dropped, drain>>
        /\ poll' = [poll EXCEPT ![r].told = status[r]]
    BY <1>5 DEF T!PollStatus, T!viewVars, T!faultVars
  <2>2. status[r] \in {"none", "running", "ended"}
    BY <1>0 DEF PagesOK
  <2>3. /\ poll' \in [ChatRuns -> PollSet]
        /\ \A k \in ChatRuns : poll'[k].after = poll[k].after
    BY <1>0, <1>a, <2>1, <2>2
  <2> QED BY <1>0, <2>1, <2>3, ReadersMove
<1>6. CASE T!Told(r)
  <2>1. /\ UNCHANGED <<T!logVars, chat, visible, listing, shown, traces, got, dropped, drain>>
        /\ active' = IF chat /\ visible = r THEN [of |-> r, live |-> poll[r].told = "running"] ELSE active
        /\ \/ poll' = [poll EXCEPT ![r] = [poll[r] EXCEPT !.at = "sleep"]]
           \/ poll' = [poll EXCEPT ![r] = [poll[r] EXCEPT !.at = "drain", !.after = traces[r].cursor]]
    BY <1>6 DEF T!Told, T!faultVars
  <2>2. /\ poll' \in [ChatRuns -> PollSet]
        /\ \A k \in ChatRuns : poll'[k].after \in {0, poll[k].after, traces[k].cursor}
    <3>1. CASE poll' = [poll EXCEPT ![r] = [poll[r] EXCEPT !.at = "sleep"]]
      <4>1. PICK p : p = [poll[r] EXCEPT !.at = "sleep"]
        OBVIOUS
      <4>2. p \in PollSet /\ p.after = poll[r].after
        BY <1>a, <4>1 DEF Places
      <4>3. poll' = [poll EXCEPT ![r] = p]
        BY <3>1, <4>1
      <4> QED BY <1>0, <4>2, <4>3
    <3>2. CASE poll' = [poll EXCEPT ![r] = [poll[r] EXCEPT !.at = "drain", !.after = traces[r].cursor]]
      <4>1. PICK p : p = [poll[r] EXCEPT !.at = "drain", !.after = traces[r].cursor]
        OBVIOUS
      <4>2. p \in PollSet /\ p.after = traces[r].cursor
        BY <1>0, <1>a, <4>1 DEF Places
      <4>3. poll' = [poll EXCEPT ![r] = p]
        BY <3>2, <4>1
      <4> QED BY <1>0, <4>2, <4>3
    <3> QED BY <2>1, <3>1, <3>2
  <2>3. active'.of \in {NoRun, visible}
    BY <1>0, <2>1
  <2> QED BY <1>0, <2>1, <2>2, <2>3, ReadersMove
<1>7. CASE T!PollDrains(r)
  <2>1. /\ T!Fetched(r, T!Read(r, poll[r].after)) /\ UNCHANGED <<T!logVars, chat, visible, active, listing, got, dropped, drain>>
        /\ \/ poll' = [poll EXCEPT ![r] = [poll[r] EXCEPT !.at = "refresh"]]
           \/ poll' = [poll EXCEPT ![r] = [poll[r] EXCEPT !.after = traces'[r].cursor]]
    BY <1>7 DEF T!PollDrains, T!faultVars
  <2>2. traces'[r].cursor \in Nat
    BY <1>a, <1>b, <2>1
  <2>3. /\ poll' \in [ChatRuns -> PollSet]
        /\ \A k \in ChatRuns : poll'[k].after \in {0, poll[k].after, traces'[k].cursor}
    <3>1. CASE poll' = [poll EXCEPT ![r] = [poll[r] EXCEPT !.at = "refresh"]]
      <4>1. PICK p : p = [poll[r] EXCEPT !.at = "refresh"]
        OBVIOUS
      <4>2. p \in PollSet /\ p.after = poll[r].after
        BY <1>a, <4>1 DEF Places
      <4>3. poll' = [poll EXCEPT ![r] = p]
        BY <3>1, <4>1
      <4> QED BY <1>0, <4>2, <4>3
    <3>2. CASE poll' = [poll EXCEPT ![r] = [poll[r] EXCEPT !.after = traces'[r].cursor]]
      <4>1. PICK p : p = [poll[r] EXCEPT !.after = traces'[r].cursor]
        OBVIOUS
      <4>2. p \in PollSet /\ p.after = traces'[r].cursor
        BY <1>a, <2>2, <4>1 DEF Places
      <4>3. poll' = [poll EXCEPT ![r] = p]
        BY <3>2, <4>1
      <4> QED BY <1>0, <4>2, <4>3
    <3> QED BY <2>1, <3>1, <3>2
  <2> QED BY <1>0, <1>a, <2>1, <2>3, PageComes
<1>8. CASE T!PollDrainFails(r)
  <2>1. /\ UNCHANGED <<T!logVars, chat, visible, active, listing, shown, traces, got, dropped, drain>>
        /\ poll' = [poll EXCEPT ![r].at = "refresh"]
    BY <1>8 DEF T!PollDrainFails, T!viewVars
  <2>2. /\ poll' \in [ChatRuns -> PollSet]
        /\ \A k \in ChatRuns : poll'[k].after = poll[k].after
    BY <1>0, <1>a, <2>1 DEF Places
  <2> QED BY <1>0, <2>1, <2>2, ReadersMove
<1>9. CASE T!Refresh(r)
  <2>1. /\ UNCHANGED <<T!logVars, chat, visible, active, shown, traces, got, dropped, drain>>
        /\ listing' = IF chat THEN T!Listing ELSE listing
        /\ poll' = [poll EXCEPT ![r] = T!NoPoll]
    BY <1>9 DEF T!Refresh, T!faultVars
  <2>2. /\ poll' \in [ChatRuns -> PollSet]
        /\ \A k \in ChatRuns : poll'[k].after \in {0, poll[k].after}
    BY <1>0, <2>1 DEF Places, T!NoPoll
  <2> QED BY <1>0, <2>1, <2>2, ListingOfRuns, ReadersMove
<1>10. CASE T!PollFails(r)
  <2>1. /\ UNCHANGED <<T!logVars, chat, visible, listing, shown, traces, got, dropped, drain>>
        /\ active' = IF poll[r].sent THEN T!Idle ELSE active
        /\ poll' = [poll EXCEPT ![r] = T!NoPoll]
    BY <1>10 DEF T!PollFails
  <2>2. /\ poll' \in [ChatRuns -> PollSet]
        /\ \A k \in ChatRuns : poll'[k].after \in {0, poll[k].after}
    BY <1>0, <2>1 DEF Places, T!NoPoll
  <2>3. active'.of \in {NoRun, visible}
    BY <1>0, <2>1 DEF T!Idle
  <2> QED BY <1>0, <2>1, <2>2, <2>3, ReadersMove
<1> QED BY <1>1, <1>2, <1>3, <1>4, <1>5, <1>6, <1>7, <1>8, <1>9, <1>10 DEF T!Polls

LEMMA NextTranscriptInv == TranscriptInv /\ [T!Next]_(T!vars) => TranscriptInv'
<1> SUFFICES ASSUME TranscriptInv, [T!Next]_(T!vars) PROVE TranscriptInv'  OBVIOUS
<1>0. /\ PagesOK /\ (UNCHANGED T!logVars => PagesOK')
      /\ DOMAIN listing \subseteq ChatRuns /\ \A list \in got : DOMAIN list \subseteq ChatRuns
      /\ active.of \in {NoRun, visible} /\ (visible # NoRun => chat = TRUE) /\ chat \in BOOLEAN
      /\ New \in ChatRuns /\ Old \in ChatRuns
  BY TranscriptsAssumption, PagesStep DEF TranscriptInv, TranscriptTypeOK, ViewSound, T!TranscriptAssumption
<1>1. CASE T!Server
  <2>1. PagesOK'
    BY <1>0, <1>1, PagesStep DEF T!Server
  <2> QED BY <1>1, <2>1, ServerKeeps DEF T!Server, T!taskVars, T!faultVars
<1>2. CASE T!Select
  <2>1. /\ visible' = NoRun /\ shown' = T!Blank /\ listing' = <<>> /\ active' = T!Idle /\ chat' \in BOOLEAN
        /\ UNCHANGED <<T!logVars, traces, got, poll, drain, dropped>>
    BY <1>2 DEF T!Select, T!faultVars
  <2>2. DOMAIN listing' = {}
    BY <2>1
  <2>3. TranscriptTypeOK'
    BY <1>0, <2>1, <2>2 DEF TranscriptInv, TranscriptTypeOK
  <2>4. ViewSound'
    BY <2>1 DEF ViewSound, T!Blank, T!Idle
  <2>5. TracesSound'
    BY <2>1 DEF TranscriptInv, TracesSound, ReadersBehind, T!Gapless
  <2> QED BY <2>3, <2>4, <2>5 DEF TranscriptInv
<1>3. CASE T!Send
  <2>1. PagesOK'
    BY <1>0, <1>3, PagesStep DEF T!Send
  <2> QED BY <1>3, <2>1, ServerKeeps DEF T!Send, T!faultVars
<1>4. CASE T!AnswerRuns
  <2>1. /\ got' = got \cup {T!Listing}
        /\ UNCHANGED <<T!logVars, chat, visible, active, listing, shown, traces, poll, drain, dropped>>
    BY <1>4 DEF T!AnswerRuns, T!viewVars, T!faultVars
  <2>2. \A list \in got' : DOMAIN list \subseteq ChatRuns
    BY <1>0, <2>1, ListingOfRuns
  <2> QED BY <1>0, <2>1, <2>2, ReadersMove DEF TranscriptInv, TranscriptTypeOK
<1>5. ASSUME NEW list \in got, T!Hydrate(list)  PROVE TranscriptInv'
  <2>1. /\ got' = got \ {list} /\ UNCHANGED <<T!logVars, chat, traces, dropped>>
        /\ DOMAIN list \subseteq ChatRuns
    BY <1>0, <1>5 DEF T!Hydrate
  <2>2. CASE chat = TRUE
    <3>1. PICK r \in ChatRuns : listing' = list /\ T!Show(r, list[r] = "running", TRUE)
      BY <1>0, <1>5, <2>2 DEF T!Hydrate
    <3>2. DOMAIN listing' \subseteq ChatRuns
      BY <2>1, <3>1
    <3> QED BY <1>0, <2>1, <2>2, <3>1, <3>2, ShowKeeps
  <2>3. CASE chat = FALSE
    <3>1. UNCHANGED <<visible, active, listing, shown, poll, drain>>
      BY <1>5, <2>3 DEF T!Hydrate
    <3> QED BY <1>0, <2>1, <3>1, ReadersMove DEF TranscriptInv, TranscriptTypeOK
  <2> QED BY <1>0, <2>2, <2>3
<1>6. CASE T!Sent
  BY <1>6, SentKeeps
<1>7. ASSUME NEW r \in ChatRuns, T!Open(r)  PROVE TranscriptInv'
  <2>1. /\ chat = TRUE /\ T!Show(r, listing[r] = "running", FALSE)
        /\ UNCHANGED <<T!logVars, chat, listing, got, traces, dropped>>
    BY <1>7, <1>0 DEF T!Open
  <2> QED BY <1>0, <2>1, ShowKeeps
<1>8. CASE UNCHANGED T!vars
  <2>1. UNCHANGED <<T!logVars, T!viewVars, traces, got, poll, drain, dropped>>
    BY <1>8 DEF T!vars, T!taskVars, T!faultVars
  <2> QED BY <1>0, <2>1, ServerKeeps
<1> QED BY <1>1, <1>2, <1>3, <1>4, <1>5, <1>6, <1>7, <1>8, ReaderKeeps DEF T!Next, T!Answers

LEMMA TranscriptInvPromises == TranscriptInv => T!TranscriptIsSound
BY DEF TranscriptInv, ViewSound, TracesSound, ReadersBehind, T!TranscriptIsSound

(***************************************************************************)
(* SessionEvents.                                                          *)
(***************************************************************************)

LEMMA StreamAssumption == Page \in Nat /\ BufferSize \in Nat
BY MissionsAssumption DEF E!SessionsAssumption

StreamsOK == /\ size \in Nat
             /\ stream \in [Missions -> Seq(LogWords)] /\ filed \in [Missions -> Nat]
             /\ state \in [Missions -> {"none", "running", "ended"}]
             /\ \A r \in Missions : filed[r] <= Len(stream[r])

\* The lowest of consecutive numbers are consecutive, and begin where they do.
LEMMA StreamIsFirst ==
  ASSUME NEW a \in Nat, NEW b \in Nat
  PROVE  \E k \in Nat : E!Lowest({i \in Nat : a < i /\ i <= b}) = {i \in Nat : a < i /\ i <= k}
<1> DEFINE S == {i \in Nat : a < i /\ i <= b}
<1>1. \A i \in S : Cardinality({j \in S : j <= i}) = i - a
  <2> TAKE i \in S
  <2>1. {j \in S : j <= i} = (a + 1) .. i  OBVIOUS
  <2>2. Cardinality((a + 1) .. i) = i - a
    BY FS_Interval
  <2> QED BY <2>1, <2>2
<1>2. E!Lowest(S) = {i \in S : i - a <= Page}
  BY <1>1, ShownCounts DEF E!Lowest
<1>3. PICK k \in Nat : k = IF b <= a + Page THEN b ELSE a + Page
  BY StreamAssumption
<1>4. {i \in S : i - a <= Page} = {i \in Nat : a < i /\ i <= k}
  BY <1>3, StreamAssumption
<1> QED BY <1>2, <1>4

\* A page has the events right after the cursor, from the buffer as from the file.
LEMMA StreamIsNext ==
  ASSUME StreamsOK, NEW r \in Missions, NEW after \in Nat
  PROVE  \E k \in Nat : E!Read(r, after) = {i \in Nat : after < i /\ i <= k}
<1> DEFINE n == Len(stream[r])
           from == IF E!Buffered(r) # {} /\ after + BufferSize >= n THEN E!Buffered(r) ELSE 1 .. filed[r]
<1>1. n \in Nat /\ DOMAIN stream[r] = 1 .. n /\ filed[r] \in Nat
  BY DEF StreamsOK
<1>2. CASE E!Buffered(r) # {} /\ after + BufferSize >= n
  <2>1. {i \in E!Buffered(r) : i > after} = {i \in Nat : after < i /\ i <= n}
    BY <1>1, <1>2, StreamAssumption DEF E!Buffered
  <2>2. E!Read(r, after) = E!Lowest({i \in E!Buffered(r) : i > after})
    BY <1>2 DEF E!Read
  <2>3. PICK k \in Nat : E!Lowest({i \in Nat : after < i /\ i <= n}) = {i \in Nat : after < i /\ i <= k}
    BY <1>1, StreamIsFirst
  <2> HIDE DEF n
  <2>4. E!Read(r, after) = E!Lowest({i \in Nat : after < i /\ i <= n})
    BY <2>1, <2>2, Zenon
  <2>5. E!Read(r, after) = {i \in Nat : after < i /\ i <= k}
    BY <2>3, <2>4, Zenon
  <2> QED BY <2>5
<1>3. CASE ~(E!Buffered(r) # {} /\ after + BufferSize >= n)
  <2>1. {i \in 1 .. filed[r] : i > after} = {i \in Nat : after < i /\ i <= filed[r]}
    BY <1>1
  <2>2. E!Read(r, after) = E!Lowest({i \in 1 .. filed[r] : i > after})
    BY <1>3 DEF E!Read
  <2>3. PICK k \in Nat : E!Lowest({i \in Nat : after < i /\ i <= filed[r]}) = {i \in Nat : after < i /\ i <= k}
    BY <1>1, StreamIsFirst
  <2>4. E!Read(r, after) = {i \in Nat : after < i /\ i <= k}
    BY <2>1, <2>2, <2>3, Zenon
  <2> QED BY <2>4
<1> QED BY <1>2, <1>3

\* A page that goes on from what is held, or from before its end, leaves no gap.
LEMMA StreamGoesOn ==
  ASSUME StreamsOK, NEW r \in Missions, NEW after \in Nat, NEW trace, trace.cursor \in Nat
  PROVE  /\ E!Merge(trace, r, E!Read(r, after)).cursor \in Nat
         /\ E!Merge(trace, r, E!Read(r, after)).cursor >= trace.cursor
         /\ E!Gapless(trace) /\ after <= trace.cursor => E!Gapless(E!Merge(trace, r, E!Read(r, after)))
<1> DEFINE page == E!Read(r, after)
           m == E!Merge(trace, r, page)
<1>1. PICK k \in Nat : page = {i \in Nat : after < i /\ i <= k}
  BY StreamIsNext
<1> HIDE DEF page
<1>2. CASE page = {}
  <2>1. m = trace
    BY <1>2 DEF E!Merge
  <2> QED BY <2>1 DEF page
<1>3. CASE page # {}
  <2>1. k > after
    BY <1>1, <1>3
  <2>2. PICK top \in Nat : top = IF k >= trace.cursor THEN k ELSE trace.cursor
    OBVIOUS
  <2>3. E!Max(page \cup {trace.cursor}) = top
    <3>1. top \in page \cup {trace.cursor} /\ \A y \in page \cup {trace.cursor} : top >= y
      BY <1>1, <2>1, <2>2
    <3>2. \A x \in page \cup {trace.cursor} : x \in Nat
      BY <1>1
    <3>3. E!Max(page \cup {trace.cursor}) \in page \cup {trace.cursor}
          /\ \A y \in page \cup {trace.cursor} : E!Max(page \cup {trace.cursor}) >= y
      BY <3>1 DEF E!Max
    <3> HIDE DEF page
    <3>4. ASSUME NEW mx, mx \in page \cup {trace.cursor}, \A y \in page \cup {trace.cursor} : mx >= y
          PROVE  mx = top
      <4>1. mx \in Nat /\ mx >= top /\ top >= mx
        BY <3>1, <3>2, <3>4
      <4> QED BY <4>1
    <3> QED BY <3>3, <3>4
  <2>4. /\ m.cursor = top
        /\ DOMAIN m.events = page \cup DOMAIN trace.events
    BY <1>3, <2>3 DEF E!Merge
  <2>5. ASSUME E!Gapless(trace), after <= trace.cursor
        PROVE  page \cup DOMAIN trace.events = 1 .. top
    BY <1>1, <2>1, <2>2, <2>5 DEF E!Gapless
  <2> QED BY <2>2, <2>4, <2>5 DEF E!Gapless, page
<1> QED BY <1>2, <1>3

LEMMA StreamsStep ==
  /\ StreamsOK /\ E!Emits => StreamsOK'
  /\ StreamsOK /\ E!Restart => StreamsOK'
  /\ \A r \in Missions : StreamsOK /\ E!Begin(r) => StreamsOK'
  /\ StreamsOK /\ UNCHANGED E!logVars => StreamsOK'
<1>1. ASSUME StreamsOK, NEW r \in Missions, E!Emit(r) \/ E!Write(r) \/ E!End(r) \/ E!Begin(r)  PROVE StreamsOK'
  <2>1. CASE E!Emit(r)
    <3>0. stream[r] \in Seq(LogWords) /\ "run" \in LogWords
      BY <1>1 DEF StreamsOK, LogWords
    <3>1. Append(stream[r], "run") \in Seq(LogWords)
      BY <3>0, AppendProperties
    <3>2. Len(Append(stream[r], "run")) = Len(stream[r]) + 1 /\ Len(stream[r]) \in Nat /\ filed[r] \in Nat
          /\ filed[r] <= Len(stream[r])
      BY <1>1 DEF StreamsOK
    <3>3. stream' = [stream EXCEPT ![r] = Append(stream[r], "run")] /\ UNCHANGED <<size, filed, state>>
      BY <2>1 DEF E!Emit
    <3> QED BY <1>1, <3>1, <3>2, <3>3 DEF StreamsOK
  <2>2. CASE E!Write(r)
    BY <1>1, <2>2 DEF StreamsOK, E!Write
  <2>3. CASE E!End(r) \/ E!Begin(r)
    BY <1>1, <2>3 DEF StreamsOK, E!End, E!Begin
  <2> QED BY <1>1, <2>1, <2>2, <2>3
<1>2. ASSUME StreamsOK, E!Restart  PROVE StreamsOK'
  <2> DEFINE cut == {r \in Missions : state[r] = "running"}
             Log(r) == IF r \in cut THEN Append(SubSeq(stream[r], 1, filed[r]), "restart") ELSE stream[r]
  <2>0. /\ stream' = [r \in Missions |-> Log(r)] /\ size' = size
        /\ filed' = [r \in Missions |-> Len(stream'[r])]
        /\ state' = [r \in Missions |-> IF r \in cut THEN "ended" ELSE state[r]]
    BY <1>2 DEF E!Restart
  <2>1. \A r \in Missions : Log(r) \in Seq(LogWords)
    <3> TAKE r \in Missions
    <3>1. stream[r] \in Seq(LogWords) /\ filed[r] \in Nat /\ filed[r] <= Len(stream[r])
      BY <1>2 DEF StreamsOK
    <3>2. \A i \in 1 .. filed[r] : stream[r][i] \in LogWords
      BY <3>1
    <3>3. SubSeq(stream[r], 1, filed[r]) \in Seq(LogWords)
      BY <3>1, <3>2, SubSeqProperties
    <3>4. Append(SubSeq(stream[r], 1, filed[r]), "restart") \in Seq(LogWords)
      BY <3>3, AppendProperties DEF LogWords
    <3> QED BY <3>1, <3>4
  <2>2. stream' \in [Missions -> Seq(LogWords)]
    BY <2>0, <2>1
  <2>3. filed' \in [Missions -> Nat]
    BY <2>0, <2>2
  <2>4. \A r \in Missions : filed'[r] <= Len(stream'[r])
    BY <2>0, <2>2
  <2> QED BY <1>2, <2>0, <2>2, <2>3, <2>4 DEF StreamsOK
<1>3. StreamsOK /\ UNCHANGED E!logVars => StreamsOK'
  BY DEF StreamsOK, E!logVars
<1> QED BY <1>1, <1>2, <1>3 DEF E!Emits

LEMMA StreamsStart ==
  ASSUME size \in Nat, NEW ended, NEW running, E!LogInit(ended, running)
  PROVE  StreamsOK
<1>1. [i \in 1 .. size |-> "run"] \in Seq(LogWords) /\ <<>> \in Seq(LogWords)
  <2>1. [i \in 1 .. size |-> "run"] \in [1 .. size -> LogWords]
    BY DEF LogWords
  <2>2. Seq(LogWords) = UNION {[1 .. n -> LogWords] : n \in Nat}
    BY SeqDef
  <2>3. <<>> \in [1 .. 0 -> LogWords]
    OBVIOUS
  <2> QED BY <2>1, <2>2, <2>3
<1>2. stream \in [Missions -> Seq(LogWords)]
  BY <1>1 DEF E!LogInit
<1> QED BY <1>2 DEF StreamsOK, E!LogInit

LoopSet == [of : Missions \cup {NoMission}, live : BOOLEAN, busy : BOOLEAN, after : Nat, retries : Nat,
            at : {"off", "children", "page", "sleep", "failed"}]

WorkersTypeOK ==
  /\ StreamsOK
  /\ mission \in [of : Missions \cup {NoMission}, live : BOOLEAN]
  /\ loop \in LoopSet
  /\ DOMAIN byRun = Missions /\ \A r \in Missions : byRun[r].cursor \in Nat

\* The effect at work is the one of the mission in view, and asks for what comes next.
LoopSound ==
  /\ loop.at # "off" => loop.of \in Missions /\ loop.of = mission.of
  /\ loop.at = "page" => loop.after <= byRun[loop.of].cursor

WorkersInv == WorkersTypeOK /\ LoopSound /\ E!WorkersInView

LEMMA NothingStreamed == E!Nothing.cursor = 0 /\ E!Gapless(E!Nothing)
BY DEF E!Nothing, E!Gapless

LEMMA InitWorkersInv == E!Init => WorkersInv
<1> SUFFICES ASSUME E!Init PROVE WorkersInv  OBVIOUS
<1>0. size \in Nat /\ SettledRetries \in Nat
  BY MissionsAssumption DEF E!Init, E!SessionsAssumption
<1>1. StreamsOK
  BY <1>0, StreamsStart DEF E!Init
<1>2. WorkersTypeOK
  BY <1>0, <1>1, NothingStreamed DEF E!Init, WorkersTypeOK, LoopSet, E!NoView, E!Off
<1>3. LoopSound /\ E!WorkersInView
  BY NothingStreamed DEF E!Init, LoopSound, E!WorkersInView, E!NoView, E!Off
<1> QED BY <1>2, <1>3 DEF WorkersInv

\* The mission in view changes, or whether it is live: the effect begins anew.
LEMMA ViewKeeps ==
  ASSUME WorkersInv, NEW run \in {E!NoView} \cup [of : Missions, live : BOOLEAN], E!View(run)
  PROVE  WorkersInv'
<1>0. /\ SettledRetries \in Nat /\ NoMission \notin Missions
      /\ run \in [of : Missions \cup {NoMission}, live : BOOLEAN]
      /\ run # E!NoView => run.of \in Missions
  <2>1. SettledRetries \in Nat /\ NoMission \notin Missions
    BY MissionsAssumption DEF E!SessionsAssumption
  <2>2. CASE run = E!NoView
    BY <2>1, <2>2 DEF E!NoView
  <2>3. CASE run \in [of : Missions, live : BOOLEAN]
    BY <2>1, <2>3
  <2> QED BY <2>2, <2>3
<1>1. StreamsOK'
  BY StreamsStep DEF WorkersInv, WorkersTypeOK, E!View
<1>2. /\ mission' = run /\ listed' = NoMission /\ byRun' = [r \in Missions |-> E!Nothing]
      /\ loop' = IF run = E!NoView THEN E!Off
                 ELSE [of |-> run.of, live |-> run.live, at |-> "children", busy |-> FALSE,
                       after |-> 0, retries |-> SettledRetries]
  BY DEF E!View
<1>3. loop' \in LoopSet
  <2>1. CASE run = E!NoView
    BY <1>2, <2>1 DEF E!Off, LoopSet
  <2>2. CASE run # E!NoView
    BY <1>0, <1>2, <2>2 DEF LoopSet
  <2> QED BY <2>1, <2>2
<1>4. WorkersTypeOK'
  BY <1>0, <1>1, <1>2, <1>3, NothingStreamed DEF WorkersTypeOK
<1>5. LoopSound'
  <2>1. CASE run = E!NoView
    BY <1>2, <2>1 DEF E!Off, LoopSound
  <2>2. CASE run # E!NoView
    BY <1>0, <1>2, <2>2 DEF LoopSound
  <2> QED BY <2>1, <2>2
<1>6. E!WorkersInView'
  BY <1>2, NothingStreamed DEF E!WorkersInView
<1> QED BY <1>4, <1>5, <1>6 DEF WorkersInv

\* A page of the mission in view comes in.
LEMMA AbsorbKeeps == WorkersInv /\ E!Absorb => WorkersInv'
<1> SUFFICES ASSUME WorkersInv, E!Absorb PROVE WorkersInv'  OBVIOUS
<1> DEFINE r == loop.of
           new == E!Merge(byRun[r], r, E!Read(r, loop.after))
<1>0. /\ StreamsOK /\ loop \in LoopSet /\ loop.at = "page" /\ r \in Missions /\ r = mission.of
      /\ byRun[r].cursor \in Nat /\ loop.after \in Nat /\ loop.after <= byRun[r].cursor
      /\ E!Gapless(byRun[r]) /\ DOMAIN byRun = Missions /\ SettledRetries \in Nat
  BY MissionsAssumption DEF WorkersInv, WorkersTypeOK, LoopSound, E!WorkersInView, E!Absorb, LoopSet, E!SessionsAssumption
<1>1. new.cursor \in Nat /\ E!Gapless(new)
  BY <1>0, StreamGoesOn
<1>2. /\ byRun' = [byRun EXCEPT ![r] = new] /\ UNCHANGED <<E!logVars, mission, listed>>
      /\ \E to \in {"sleep", "off"} : loop' = [loop EXCEPT !.at = to, !.retries = SettledRetries]
  BY DEF E!Absorb
<1> HIDE DEF new
<1>3. /\ DOMAIN byRun' = Missions /\ byRun'[r] = new
      /\ \A k \in Missions \ {r} : byRun'[k] = byRun[k]
  BY <1>0, <1>2
<1>4. StreamsOK'
  BY <1>0, <1>2, StreamsStep
<1>5. loop' \in LoopSet /\ loop'.at \in {"sleep", "off"} /\ loop'.of = r
  BY <1>0, <1>2 DEF LoopSet
<1>6. WorkersTypeOK'
  BY <1>1, <1>2, <1>3, <1>4, <1>5 DEF WorkersInv, WorkersTypeOK
<1>7. LoopSound'
  BY <1>0, <1>2, <1>5 DEF LoopSound
<1>8. E!WorkersInView'
  <2> SUFFICES ASSUME NEW k \in Missions
               PROVE  E!Gapless(byRun'[k]) /\ (byRun'[k] = E!Nothing \/ k = mission.of)
    BY <1>2 DEF WorkersInv, E!WorkersInView, E!Gapless
  <2>1. CASE k = r
    BY <1>0, <1>1, <1>3, <2>1
  <2>2. CASE k # r
    BY <1>3, <2>2 DEF WorkersInv, E!WorkersInView
  <2> QED BY <2>1, <2>2
<1> QED BY <1>6, <1>7, <1>8 DEF WorkersInv

\* What is held stays, and so does the effect's mission.
LEMMA WorkersStay ==
  ASSUME WorkersInv, StreamsOK', UNCHANGED <<mission, byRun>>, loop' \in LoopSet, loop'.of = loop.of,
         listed' \in {listed, mission.of},
         loop'.at # "off" => loop.at # "off",
         loop'.at = "page" => loop'.after = byRun[loop.of].cursor \/ (loop.at = "page" /\ loop'.after = loop.after)
  PROVE  WorkersInv'
<1>1. WorkersTypeOK'
  BY DEF WorkersInv, WorkersTypeOK
<1>2. LoopSound'
  <2>1. loop'.at # "off" => loop'.of \in Missions /\ loop'.of = mission.of
    BY DEF WorkersInv, LoopSound
  <2>2. ASSUME loop'.at = "page"  PROVE loop'.after <= byRun[loop.of].cursor
    <3>1. loop.of \in Missions
      BY <2>2 DEF WorkersInv, LoopSound
    <3>2. byRun[loop.of].cursor \in Nat
      BY <3>1 DEF WorkersInv, WorkersTypeOK
    <3> QED BY <2>2, <3>2 DEF WorkersInv, LoopSound
  <2> QED BY <2>1, <2>2 DEF LoopSound
<1>3. E!WorkersInView'
  BY DEF WorkersInv, E!WorkersInView, E!Gapless
<1> QED BY <1>1, <1>2, <1>3 DEF WorkersInv

LEMMA NextWorkersInv == WorkersInv /\ [E!Next]_(E!vars) => WorkersInv'
<1> SUFFICES ASSUME WorkersInv, [E!Next]_(E!vars) PROVE WorkersInv'  OBVIOUS
<1>0. /\ StreamsOK /\ (UNCHANGED E!logVars => StreamsOK') /\ loop \in LoopSet
      /\ loop.at # "off" => loop.of \in Missions /\ loop.of = mission.of
      /\ \A r \in Missions : byRun[r].cursor \in Nat
  BY StreamsStep DEF WorkersInv, WorkersTypeOK, LoopSound
<1>1. CASE E!Server
  <2>1. StreamsOK'
    BY <1>0, <1>1, StreamsStep DEF E!Server
  <2>2. UNCHANGED <<mission, loop, listed, byRun>>
    BY <1>1 DEF E!Server, E!hookVars
  <2> QED BY <1>0, <2>1, <2>2, WorkersStay
<1>2. CASE E!Children
  <2>1. /\ loop.at = "children" /\ listed' = loop.of /\ UNCHANGED <<E!logVars, mission, byRun>>
        /\ loop' = [loop EXCEPT !.at = "page", !.busy = (state[loop.of] = "running"),
                                !.after = byRun[loop.of].cursor]
    BY <1>2 DEF E!Children
  <2>2. loop.of \in Missions /\ loop.of = mission.of /\ byRun[loop.of].cursor \in Nat
    BY <1>0, <2>1
  <2>3. /\ loop' \in LoopSet /\ loop'.of = loop.of /\ loop'.at = "page"
        /\ loop'.after = byRun[loop.of].cursor
    BY <1>0, <2>1, <2>2 DEF LoopSet
  <2> QED BY <1>0, <2>1, <2>2, <2>3, WorkersStay
<1>3. CASE E!Absorb
  BY <1>3, AbsorbKeeps
<1>4. CASE E!Tick
  <2>1. /\ loop.at = "sleep" /\ UNCHANGED <<E!logVars, mission, listed, byRun>>
        /\ loop' = [loop EXCEPT !.at = "children"]
    BY <1>4 DEF E!Tick
  <2>2. loop' \in LoopSet /\ loop'.of = loop.of /\ loop'.at = "children"
    BY <1>0, <2>1 DEF LoopSet
  <2> QED BY <1>0, <2>1, <2>2, WorkersStay
<1>5. CASE \E l \in stale : E!Woken(l)
  <2>1. UNCHANGED <<E!logVars, mission, loop, listed, byRun>>
    BY <1>5 DEF E!Woken, E!Discard
  <2> QED BY <1>0, <2>1, WorkersStay
<1>6. CASE E!Fails
  <2>1. /\ loop.at \in {"children", "page"} /\ UNCHANGED <<E!logVars, mission, listed, byRun>>
        /\ \E to \in {"sleep", "failed"} : loop' = [loop EXCEPT !.at = to, !.retries = IF loop.retries > 0 THEN loop.retries - 1 ELSE 0]
    BY <1>6 DEF E!Fails, E!Awaiting
  <2>2. (IF loop.retries > 0 THEN loop.retries - 1 ELSE 0) \in Nat
    BY <1>0 DEF LoopSet
  <2>3. loop' \in LoopSet /\ loop'.of = loop.of /\ loop'.at \in {"sleep", "failed"}
    BY <1>0, <2>1, <2>2 DEF LoopSet
  <2> QED BY <1>0, <2>1, <2>3, WorkersStay
<1>7. CASE \E r \in Missions : E!Settle(r)
  <2>1. UNCHANGED <<E!logVars, mission, loop, listed, byRun>>
    BY <1>7 DEF E!Settle, E!hookVars
  <2> QED BY <1>0, <2>1, WorkersStay
<1>8. CASE \E run \in {E!NoView} \cup [of : Missions, live : BOOLEAN] : E!View(run)
  BY <1>8, ViewKeeps
<1>9. CASE UNCHANGED E!vars
  <2>1. UNCHANGED <<E!logVars, mission, loop, listed, byRun>>
    BY <1>9 DEF E!vars, E!hookVars
  <2> QED BY <1>0, <2>1, WorkersStay
<1> QED BY <1>1, <1>2, <1>3, <1>4, <1>5, <1>6, <1>7, <1>8, <1>9 DEF E!Next, E!Loop

-----------------------------------------------------------------------------
(***************************************************************************)
(* Console: each component keeps its invariant while another works.        *)
(***************************************************************************)

ConsoleInv == Inv /\ TranscriptInv /\ WorkersInv

LEMMA StandsStill ==
    /\ UNCHANGED transcriptVars => UNCHANGED T!vars
    /\ UNCHANGED workerVars => UNCHANGED E!vars
<1>1. UNCHANGED transcriptVars => UNCHANGED T!vars
  BY DEF transcriptVars, T!vars, T!logVars, T!viewVars, T!taskVars, T!faultVars
<1>2. UNCHANGED workerVars => UNCHANGED E!vars
  BY DEF workerVars, E!vars, E!logVars, E!hookVars
<1> QED  BY <1>1, <1>2

LEMMA WorksOrStands ==
    [AnyNext]_allVars => [Next]_vars /\ [T!Next]_(T!vars) /\ [E!Next]_(E!vars)
<1>1. CASE UNCHANGED allVars
  BY <1>1, StandsStill DEF allVars
<1>2. CASE AnyNext
  BY <1>2, StandsStill DEF AnyNext
<1> QED  BY <1>1, <1>2

LEMMA ConsoleInvAlways == AnySpec => []ConsoleInv
<1>1. AnyInit => ConsoleInv
  BY InitInv, InitTranscriptInv, InitWorkersInv DEF AnyInit, ConsoleInv
<1>2. ConsoleInv /\ [AnyNext]_allVars => ConsoleInv'
  BY WorksOrStands, NextInv, NextTranscriptInv, NextWorkersInv DEF ConsoleInv
<1> QED  BY <1>1, <1>2, PTL DEF AnySpec

(***************************************************************************)
(* Every variable of the lifecycle has its type, whatever fails and        *)
(* whenever the server crashes.                                            *)
(***************************************************************************)
THEOREM TypeCorrect == AnySpec => []RunsTypeOK
<1>1. ConsoleInv => RunsTypeOK
  BY DEF ConsoleInv, Inv
<1> QED  BY <1>1, ConsoleInvAlways, PTL

(***************************************************************************)
(* A run that was shown as completed stays completed, across failed        *)
(* writes, crashes and restarts, and a standalone run or a child that the  *)
(* store calls completed has its final event on disk (effectiveRun, the    *)
(* intents of agent-service.ts and the barrier of event-log.ts).           *)
(***************************************************************************)
THEOREM VerdictsStand == AnySpec => []VerdictStands
<1>1. ConsoleInv => VerdictStands
  BY ShownStays, CompletedSaysSo DEF ConsoleInv, VerdictStands
<1> QED  BY <1>1, ConsoleInvAlways, PTL

(***************************************************************************)
(* What is shown is the trace of the run in view, and no trace has a gap,  *)
(* unless it was deleted under an answer; and what is held of the workers  *)
(* belongs to the mission in view: however late an answer comes, for any   *)
(* runs, any views, failures and restarts, any pages and buffers.          *)
(***************************************************************************)
THEOREM TranscriptsAreSound == AnySpec => []TranscriptIsSound
<1>1. ConsoleInv => TranscriptIsSound
  BY TranscriptInvPromises DEF ConsoleInv, WorkersInv, TranscriptIsSound
<1> QED  BY <1>1, ConsoleInvAlways, PTL

=============================================================================
