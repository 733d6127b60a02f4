--------------------------- MODULE DispatchProofs ---------------------------
(***************************************************************************)
(* Theorems about LiveDispatch and PlannedRun, as Dispatch composes them,  *)
(* for any tasks, plans and limits: the lemmas of each, then those of the  *)
(* composition.                                                            *)
(***************************************************************************)
EXTENDS Dispatch, FiniteSetTheorems, SequenceTheorems, WellFoundedInduction, TLAPS

(***************************************************************************)
(* Sequences.                                                              *)
(***************************************************************************)

\* A set of numbers has an element that is zero or whose predecessor is outside.
LEMMA LeastNumber ==
  ASSUME NEW T, T \subseteq Nat, T # {}
  PROVE  \E n \in T : n = 0 \/ n - 1 \notin T
<1>1. PICK n \in T : \A m \in T : ~ (<<m, n>> \in OpToRel(<, Nat))
  BY WFMin, NatLessThanWellFounded
<1>2. ASSUME n # 0, n - 1 \in T
      PROVE  FALSE
  <2>1. n \in Nat /\ n - 1 \in Nat /\ n - 1 < n
    BY <1>2
  <2>2. <<n - 1, n>> \in OpToRel(<, Nat)
    BY <2>1 DEF OpToRel
  <2> QED BY <1>1, <1>2, <2>2
<1> QED BY <1>2

\* The prefixes of a sequence, filtered: what Kept defines.
Chosen(g, s, S, m) ==
  g = [n \in 0 .. m |->
         IF n = 0 THEN <<>> ELSE IF s[n] \in S THEN Append(g[n - 1], s[n]) ELSE g[n - 1]]

LEMMA ChosenExists ==
  ASSUME NEW s, NEW S, NEW k \in Nat
  PROVE  \E g : Chosen(g, s, S, k)
<1> DEFINE Missing == {m \in Nat : ~ \E g : Chosen(g, s, S, m)}
<1>1. ASSUME NEW m \in Missing
      PROVE  m # 0 /\ m - 1 \in Missing
  <2>1. m # 0
    <3>1. Chosen([n \in 0 .. 0 |-> <<>>], s, S, 0)
      BY DEF Chosen
    <3> QED BY <3>1
  <2>2. ASSUME NEW g, Chosen(g, s, S, m - 1)
        PROVE  FALSE
    <3> DEFINE last == IF s[m] \in S THEN Append(g[m - 1], s[m]) ELSE g[m - 1]
               h    == [n \in 0 .. m |-> IF n = m THEN last ELSE g[n]]
    <3>1. \A n \in 0 .. m - 1 : h[n] = g[n]
      BY <2>1
    <3>2. \A n \in 0 .. m - 1 :
            g[n] = IF n = 0 THEN <<>> ELSE IF s[n] \in S THEN Append(g[n - 1], s[n]) ELSE g[n - 1]
      BY <2>2, <2>1 DEF Chosen
    <3>3. \A n \in 0 .. m :
            h[n] = IF n = 0 THEN <<>> ELSE IF s[n] \in S THEN Append(h[n - 1], s[n]) ELSE h[n - 1]
      <4> TAKE n \in 0 .. m
      <4>1. CASE n = m
        <5>1. h[n - 1] = g[m - 1]
          BY <2>1, <3>1, <4>1
        <5> QED BY <2>1, <4>1, <5>1
      <4>2. CASE n # m
        <5>1. n \in 0 .. m - 1 /\ (n # 0 => n - 1 \in 0 .. m - 1)
          BY <4>2
        <5>2. h[n] = g[n] /\ (n # 0 => h[n - 1] = g[n - 1])
          BY <3>1, <5>1
        <5> HIDE DEF h, last
        <5> QED BY <3>2, <5>1, <5>2
      <4> QED BY <4>1, <4>2
    <3>4. h = [n \in 0 .. m |-> h[n]]
      OBVIOUS
    <3> HIDE DEF h
    <3>5. Chosen(h, s, S, m)
      BY <3>3, <3>4 DEF Chosen
    <3> QED BY <3>5
  <2> QED BY <2>1, <2>2
<1>2. Missing = {}
  BY <1>1, LeastNumber
<1> QED BY <1>2

\* What Kept keeps: the entries that are in the set, and no other, each once if
\* each was there once.
LEMMA KeptIsChosen ==
  ASSUME NEW s, NEW S
  PROVE  Kept(s, S) = (CHOOSE g : Chosen(g, s, S, Len(s)))[Len(s)]
BY DEF Kept, Chosen

NoRepeats(s) == \A i, j \in 1 .. Len(s) : s[i] = s[j] => i = j

LEMMA KeptIsSelection ==
  ASSUME NEW T, NEW s \in Seq(T), NEW S
  PROVE  /\ Kept(s, S) \in Seq(T)
         /\ ToSet(Kept(s, S)) = ToSet(s) \cap S
         /\ NoRepeats(s) => NoRepeats(Kept(s, S))
<1>1. Len(s) \in Nat
  OBVIOUS
<1>2. PICK g : Chosen(g, s, S, Len(s)) /\ Kept(s, S) = g[Len(s)]
  BY <1>1, ChosenExists, KeptIsChosen
<1> DEFINE Heads(n) == {s[i] : i \in 1 .. n} \cap S
           Good(n)  == /\ g[n] \in Seq(T)
                       /\ {g[n][i] : i \in 1 .. Len(g[n])} = Heads(n)
                       /\ NoRepeats(s) => NoRepeats(g[n])
           Wrong == {n \in 0 .. Len(s) : ~ Good(n)}
<1>3. \A n \in 0 .. Len(s) :
         g[n] = IF n = 0 THEN <<>> ELSE IF s[n] \in S THEN Append(g[n - 1], s[n]) ELSE g[n - 1]
  BY <1>1, <1>2 DEF Chosen
<1>4. Good(0)
  <2>1. g[0] = <<>> /\ Len(<<>>) = 0
    BY <1>1, <1>3
  <2>2. 1 .. 0 = {}
    OBVIOUS
  <2> QED BY <2>1, <2>2 DEF NoRepeats
<1>5. ASSUME NEW n \in 1 .. Len(s), Good(n - 1)
      PROVE  Good(n)
  <2>1. 1 .. n = (1 .. n - 1) \cup {n} /\ n - 1 \in 0 .. Len(s) /\ s[n] \in T
    BY <1>1
  <2>2. Heads(n) = Heads(n - 1) \cup ({s[n]} \cap S)
    BY <2>1
  <2>3. CASE s[n] \in S
    <3>1. g[n] = Append(g[n - 1], s[n]) /\ g[n - 1] \in Seq(T)
      <4>1. n \in 0 .. Len(s) /\ n # 0
        BY <1>1
      <4>2. g[n] = Append(g[n - 1], s[n])
        BY <1>3, <2>3, <4>1, Zenon
      <4> QED BY <1>5, <4>2
    <3> DEFINE k == Len(g[n - 1])
    <3>2. g[n] \in Seq(T) /\ Len(g[n]) = k + 1 /\ k \in Nat
      BY <2>1, <3>1
    <3>3. g[n][k + 1] = s[n] /\ \A i \in 1 .. k : g[n][i] = g[n - 1][i]
      BY <2>1, <3>1
    <3>4. 1 .. k + 1 = (1 .. k) \cup {k + 1}
      BY <3>2
    <3>5. {g[n][i] : i \in 1 .. k} = {g[n - 1][i] : i \in 1 .. k}
      BY <3>3
    <3>6. {g[n][i] : i \in 1 .. k + 1} = {g[n][i] : i \in 1 .. k} \cup {s[n]}
      BY <3>3, <3>4
    <3>7. {g[n - 1][i] : i \in 1 .. k} = Heads(n - 1)
      BY <1>5
    <3>8. ASSUME NoRepeats(s)
          PROVE  NoRepeats(g[n])
      <4>1. NoRepeats(g[n - 1])
        BY <1>5, <3>8
      <4>2. \A i \in 1 .. n - 1 : s[i] # s[n]
        BY <1>1, <3>8 DEF NoRepeats
      <4>3. \A i \in 1 .. k : g[n][i] \in Heads(n - 1)
        BY <3>3, <3>7
      <4>4. \A i \in 1 .. k : g[n][i] # s[n]
        BY <4>2, <4>3
      <4>5. \A i, j \in 1 .. k : g[n][i] = g[n][j] => i = j
        BY <3>3, <4>1 DEF NoRepeats
      <4>6. \A i \in 1 .. k + 1 : i \in 1 .. k \/ i = k + 1
        BY <3>2
      <4> HIDE DEF k
      <4> QED BY <3>2, <3>3, <4>4, <4>5, <4>6 DEF NoRepeats
    <3> QED BY <2>2, <2>3, <3>2, <3>5, <3>6, <3>7, <3>8
  <2>4. CASE s[n] \notin S
    <3>1. g[n] = g[n - 1]
      BY <1>3, <2>1, <2>4
    <3> QED BY <1>5, <2>2, <2>4, <3>1
  <2> QED BY <2>3, <2>4
<1>6. Wrong = {}
  <2>1. Wrong \subseteq Nat
    BY <1>1
  <2>2. ASSUME NEW n \in Wrong
        PROVE  n # 0 /\ n - 1 \in Wrong
    <3>1. n # 0
      BY <1>4
    <3>2. n \in 1 .. Len(s)
      BY <1>1, <3>1
    <3> HIDE DEF Good
    <3> QED BY <1>1, <1>5, <3>2
  <2> HIDE DEF Wrong
  <2> QED BY <2>1, <2>2, LeastNumber
<1>7. Good(Len(s))
  <2> HIDE DEF Good
  <2> QED BY <1>1, <1>6
<1>8. ToSet(s) = {s[i] : i \in 1 .. Len(s)} /\ DOMAIN s = 1 .. Len(s)
  BY DEF ToSet
<1>9. ToSet(g[Len(s)]) = {g[Len(s)][i] : i \in 1 .. Len(g[Len(s)])}
  BY <1>7 DEF ToSet
<1> QED BY <1>2, <1>7, <1>8, <1>9

\* A sequence without repetitions has as many entries as its range has elements.
LEMMA CountOfSeq ==
  ASSUME NEW T, NEW s \in Seq(T)
  PROVE  /\ IsFiniteSet(Range(s)) /\ Cardinality(Range(s)) <= Len(s)
         /\ NoRepeats(s) <=> Cardinality(Range(s)) = Len(s)
<1>1. Len(s) \in Nat /\ DOMAIN s = 1 .. Len(s) /\ s \in [1 .. Len(s) -> Range(s)]
  BY DEF Range
<1>2. s \in Surjection(1 .. Len(s), Range(s))
  BY <1>1 DEF Surjection, Range
<1>3. IsFiniteSet(1 .. Len(s)) /\ Cardinality(1 .. Len(s)) = Len(s)
  BY <1>1, FS_Interval
<1>4. /\ IsFiniteSet(Range(s)) /\ Cardinality(Range(s)) <= Len(s)
      /\ Cardinality(Range(s)) = Len(s) <=> s \in Injection(1 .. Len(s), Range(s))
  BY <1>2, <1>3, FS_Surjection
<1> QED BY <1>1, <1>4 DEF Injection, IsInjective, NoRepeats

\* A sequence cut at a place: what is before and what is behind.
LEMMA CutSeq ==
  ASSUME NEW T, NEW s \in Seq(T), NEW n \in 0 .. Len(s), NEW m \in 0 .. n, NoRepeats(s)
  PROVE  /\ SubSeq(s, m + 1, n) \in Seq(T) /\ Len(SubSeq(s, m + 1, n)) = n - m
         /\ \A i \in 1 .. n - m : SubSeq(s, m + 1, n)[i] = s[m + i]
         /\ NoRepeats(SubSeq(s, m + 1, n))
         /\ Range(SubSeq(s, m + 1, n)) = {s[i] : i \in m + 1 .. n}
<1>1. \A i \in m + 1 .. n : s[i] \in T
  OBVIOUS
<1>2. /\ SubSeq(s, m + 1, n) \in Seq(T) /\ Len(SubSeq(s, m + 1, n)) = n - m
      /\ \A i \in 1 .. n - m : SubSeq(s, m + 1, n)[i] = s[m + i]
  BY <1>1, SubSeqProperties
<1>3. NoRepeats(SubSeq(s, m + 1, n))
  <2> DEFINE q == SubSeq(s, m + 1, n)
  <2>1. Len(q) = n - m /\ \A i \in 1 .. n - m : q[i] = s[m + i]
    BY <1>2
  <2>2. \A i \in 1 .. n - m : m + i \in 1 .. Len(s)
    OBVIOUS
  <2> HIDE DEF q
  <2>3. \A i, j \in 1 .. n - m : q[i] = q[j] => m + i = m + j
    BY <2>1, <2>2 DEF NoRepeats
  <2>4. \A i, j \in 1 .. n - m : m + i = m + j => i = j
    OBVIOUS
  <2> QED BY <2>1, <2>3, <2>4 DEF NoRepeats, q
<1>4. Range(SubSeq(s, m + 1, n)) = {SubSeq(s, m + 1, n)[i] : i \in 1 .. n - m}
  <2>1. DOMAIN SubSeq(s, m + 1, n) = 1 .. n - m
    BY <1>2
  <2> QED BY <2>1 DEF Range
<1> HIDE DEF NoRepeats
<1>5. \A i \in m + 1 .. n : i - m \in 1 .. n - m /\ m + (i - m) = i
  OBVIOUS
<1>6. \A i \in 1 .. n - m : m + i \in m + 1 .. n
  OBVIOUS
<1>7. {SubSeq(s, m + 1, n)[i] : i \in 1 .. n - m} = {s[i] : i \in m + 1 .. n}
  <2> DEFINE q == SubSeq(s, m + 1, n)
  <2>1. \A i \in 1 .. n - m : q[i] = s[m + i]
    BY <1>2
  <2> HIDE DEF q
  <2>2. \A i \in m + 1 .. n : q[i - m] = s[i]
    BY <1>5, <2>1
  <2>3. ASSUME NEW i \in 1 .. n - m
        PROVE  q[i] \in {s[j] : j \in m + 1 .. n}
    BY <1>6, <2>1
  <2>4. ASSUME NEW j \in m + 1 .. n
        PROVE  s[j] \in {q[i] : i \in 1 .. n - m}
    BY <1>5, <2>2
  <2>5. {q[i] : i \in 1 .. n - m} = {s[i] : i \in m + 1 .. n}
    BY <2>3, <2>4
  <2> QED BY <2>5 DEF q
<1> QED BY <1>2, <1>3, <1>4, <1>7

(***************************************************************************)
(* The invariant.  Tasks below next have been asked for.                   *)
(***************************************************************************)
Asked == 1 .. next - 1

Entered ==
  /\ \A a \in Turns : Task(a) \notin Asked => place[a] = "none"
  /\ \A t \in Tasks : t \notin Asked => node[t] = "none"
  /\ planned \subseteq Asked /\ ToSet(parked) \subseteq Asked
  /\ \A l \in Loops : ToSet(agenda[l]) \subseteq Asked
  /\ call = "asked" => next \in Tasks /\ Healing

\* A loop that visits tasks has one to visit; a start it is about to make is not parked.
Walking(l) == At(l) \in {"settle", "recording"}

Visiting ==
  /\ \A l \in Loops : Walking(l) => agenda[l] # <<>>
  /\ \A a \in Turns : place[a] = "starting" =>
       agenda[a] # <<>> /\ Head(agenda[a]) \notin ToSet(parked)

\* A turn that is about to heal or to be recorded has a result.
Resulted ==
  \A a \in Turns : place[a] \in {"heal", "push", "save", "look"} => result[a] # "none"

\* A parked task has had no turn, and its node can be blocked.
ParkedWaits ==
  \A t \in Tasks : Parked(t) =>
    /\ node[t] \in Parkable
    /\ \A a \in Turns : Task(a) = t => place[a] = "none"

\* A result in memory that is not stored yet is that of a turn about to save it.
SavesComing ==
  /\ durable \subseteq memory
  /\ \A r \in memory \ durable :
       \E a \in Turns : place[a] = "save" /\ Task(a) = r[1] /\ result[a] = r[2]

\* A task behind a producer whose stored result is not a completion never
\* starts its work, even when it has been started: a walk that meets such
\* tasks only goes to its end.
Doomed(t) == \E r \in durable : r[1] \in Deps(t) /\ r[2] # "completed"
Working   == {"running", "settling", "integrating", "heal", "repairing"}
Idle(t)   == node[t] \in Parkable /\ \A a \in Turns : Task(a) = t => place[a] \notin Working
Sure(l)   == \A t \in ToSet(agenda[l]) : Doomed(t) /\ Idle(t)

\* A dependent parked behind a stored failure: the turn that failed is about
\* to look for it, or such a walk has still to visit it.
Sought(t, r) ==
  \/ \E a \in Turns : place[a] \in {"save", "look"} /\ Task(a) = r[1] /\ result[a] = r[2]
  \/ \E l \in Loops : Walking(l) /\ t \in ToSet(Tail(agenda[l])) /\ Sure(l)

FailuresFollowed ==
  control = "open" =>
    \A t \in Tasks : Parked(t) =>
      \A r \in durable : r[1] \in Deps(t) /\ r[2] \in Bad \ {"blocked"} => Sought(t, r)

StopLasts == cancel # "none" => control # "open"

\* A completed node has been completed by its task's first turn, in a project.
Later == {"push", "save", "look", "starting", "settle", "recording", "done"}
CompletedOnce ==
  /\ \A t \in Tasks : node[t] = "completed" => Project /\ place[<<t, 1>>] \in Later
  /\ \A a \in Turns : place[a] \in {"settling", "integrating", "repairing"} => Task(a) \in Tasks /\ a[2] = 1
  /\ \A a \in Turns : place[a] \in {"settling", "integrating", "heal", "repairing"} => Git(Task(a))

\* With healing a turn that is to begin has its producers complete.
BeginsReady ==
  /\ Healing => \A a \in Turns : place[a] = "begin" => Ready(Task(a))
  /\ \A a \in Turns : place[a] = "starting" => Ready(Head(agenda[a]))

(***************************************************************************)
(* What the operators do.                                                  *)
(***************************************************************************)
LEMMA Loopers ==
  /\ Turns \subseteq Loops /\ TheCall \in Loops /\ TheCancel \in Loops
  /\ TheCall \notin Turns /\ TheCancel \notin Turns /\ TheCall # TheCancel
  /\ \A l \in Loops : l \in Turns \/ l = TheCall \/ l = TheCancel
  /\ \A a \in Turns : Task(a) \in Tasks /\ a[2] \in {1, 2} /\ a = <<Task(a), a[2]>>
  /\ \A t \in Tasks : <<t, 1>> \in Turns /\ <<t, 2>> \in Turns /\ t \in Nat
  /\ NTasks \in Nat
BY DispatchAssumption DEF Turns, Loops, TheCall, TheCancel, Task, Tasks

LEMMA Entries ==
  ASSUME NEW T, NEW s \in Seq(T)
  PROVE  /\ ToSet(s) \subseteq T
         /\ s = <<>> <=> ToSet(s) = {}
         /\ s # <<>> => /\ Head(s) \in T /\ Tail(s) \in Seq(T)
                        /\ ToSet(s) = {Head(s)} \cup ToSet(Tail(s))
         /\ \A t \in T : /\ Append(s, t) \in Seq(T) /\ Append(s, t) # <<>>
                          /\ ToSet(Append(s, t)) = ToSet(s) \cup {t}
<1>1. ToSet(s) \subseteq T /\ (s = <<>> <=> ToSet(s) = {})
  <2>1. DOMAIN s = 1 .. Len(s) /\ Len(s) \in Nat /\ \A i \in 1 .. Len(s) : s[i] \in T
    OBVIOUS
  <2>2. ToSet(s) = {s[i] : i \in 1 .. Len(s)}
    BY <2>1 DEF ToSet
  <2>3. s = <<>> <=> Len(s) = 0
    OBVIOUS
  <2>4. Len(s) # 0 => s[1] \in ToSet(s)
    BY <2>1, <2>2
  <2>5. Len(s) = 0 => ToSet(s) = {}
    BY <2>2
  <2> QED BY <2>1, <2>2, <2>3, <2>4, <2>5
<1>2. ASSUME s # <<>>
      PROVE  /\ Head(s) \in T /\ Tail(s) \in Seq(T)
             /\ ToSet(s) = {Head(s)} \cup ToSet(Tail(s))
  <2>1. Tail(s) \in Seq(T) /\ Head(s) = s[1] /\ s[1] \in T
    BY <1>2
  <2>2. Len(Tail(s)) = Len(s) - 1 /\ \A i \in 1 .. Len(s) - 1 : Tail(s)[i] = s[i + 1]
    BY <1>2
  <2>3. DOMAIN s = 1 .. Len(s) /\ DOMAIN Tail(s) = 1 .. Len(s) - 1 /\ Len(s) \in Nat /\ Len(s) > 0
    BY <1>2, <2>2
  <2>4. ToSet(s) \subseteq {Head(s)} \cup ToSet(Tail(s))
    <3> SUFFICES ASSUME NEW i \in 1 .. Len(s), i # 1
                 PROVE  s[i] \in ToSet(Tail(s))
      BY <2>1, <2>3 DEF ToSet
    <3>1. i - 1 \in 1 .. Len(s) - 1 /\ Tail(s)[i - 1] = s[i]
      BY <2>2, <2>3
    <3> QED BY <2>3, <3>1 DEF ToSet
  <2>5. ToSet(Tail(s)) \subseteq ToSet(s)
    <3> SUFFICES ASSUME NEW i \in 1 .. Len(s) - 1
                 PROVE  Tail(s)[i] \in ToSet(s)
      BY <2>3 DEF ToSet
    <3> QED BY <2>2, <2>3 DEF ToSet
  <2>6. Head(s) \in ToSet(s)
    BY <2>1, <2>3 DEF ToSet
  <2> QED BY <2>1, <2>4, <2>5, <2>6
<1>3. ASSUME NEW t \in T
      PROVE  /\ Append(s, t) \in Seq(T) /\ Append(s, t) # <<>>
             /\ ToSet(Append(s, t)) = ToSet(s) \cup {t}
  <2>1. Append(s, t) \in Seq(T) /\ Len(Append(s, t)) = Len(s) + 1 /\ Len(s) \in Nat
    OBVIOUS
  <2>2. Append(s, t)[Len(s) + 1] = t /\ \A i \in 1 .. Len(s) : Append(s, t)[i] = s[i]
    OBVIOUS
  <2>3. DOMAIN s = 1 .. Len(s) /\ DOMAIN Append(s, t) = (1 .. Len(s)) \cup {Len(s) + 1}
    BY <2>1
  <2> QED BY <2>1, <2>2, <2>3 DEF ToSet
<1> QED BY <1>1, <1>2, <1>3

LEMMA WithoutTask ==
  ASSUME NEW s \in Seq(Tasks), NEW t
  PROVE  Without(s, t) \in Seq(Tasks) /\ ToSet(Without(s, t)) = ToSet(s) \ {t}
<1>1. ToSet(s) \subseteq Tasks
  BY Entries
<1> QED BY <1>1, KeptIsSelection DEF Without

LEMMA BehindTask ==
  ASSUME NEW s \in Seq(Tasks), NEW d
  PROVE  /\ BehindOf(d, s) \in Seq(Tasks)
         /\ ToSet(BehindOf(d, s)) = {t \in ToSet(s) : d \in Deps(t)}
<1>1. ToSet(s) \subseteq Tasks
  BY Entries
<1> QED BY <1>1, KeptIsSelection DEF BehindOf

\* A walk that resumes parked starts: nothing is found, or a task whose
\* producers are complete is unparked.
Resumes(a, queue) ==
  \/ agenda' = [agenda EXCEPT ![a] = <<>>] /\ parked' = parked
  \/ \E rest \in Seq(Tasks) :
       /\ rest # <<>> /\ ToSet(rest) \subseteq ToSet(queue) /\ Ready(Head(rest))
       /\ agenda' = [agenda EXCEPT ![a] = rest]
       /\ parked' \in Seq(Tasks) /\ ToSet(parked') = ToSet(parked) \ {Head(rest)}

LEMMA ResumeFinds ==
  ASSUME TypeOK, NEW a, NEW queue \in Seq(Tasks), Resume(a, queue)
  PROVE  Resumes(a, queue)
<1> DEFINE F == {i \in 1 .. Len(queue) : Ready(queue[i])}
           k == SelectInSeq(queue, Ready)
<1>1. k = IF F # {} THEN Min(F) ELSE 0
  BY DEF SelectInSeq
<1>2. CASE k = 0
  BY <1>2 DEF Resume, Resumes
<1>3. CASE k # 0
  <2>1. F # {} /\ k = Min(F)
    BY <1>1, <1>3
  <2>2. \E i \in F : \A j \in F : i <= j
    <3>1. F \subseteq Nat
      OBVIOUS
    <3> HIDE DEF F
    <3>2. PICK i \in F : \A m \in F : ~ (<<m, i>> \in OpToRel(<, Nat))
      BY <2>1, <3>1, WFMin, NatLessThanWellFounded
    <3>3. \A m \in F : ~ (m < i)
      BY <3>1, <3>2 DEF OpToRel
    <3>4. \A m \in F : i \in Nat /\ m \in Nat /\ (~ (m < i) => i <= m)
      BY <3>1
    <3> QED BY <3>3, <3>4
  <2>3. k \in F
    BY <2>1, <2>2 DEF Min
  <2> DEFINE rest == SubSeq(queue, k, Len(queue))
  <2>4. /\ rest \in Seq(Tasks) /\ Len(rest) = Len(queue) - k + 1
        /\ \A i \in 1 .. Len(rest) : rest[i] = queue[k + i - 1]
    BY <2>3
  <2>5. rest # <<>> /\ Head(rest) = queue[k]
    BY <2>3, <2>4
  <2>6. ToSet(rest) \subseteq ToSet(queue)
    BY <2>3, <2>4 DEF ToSet
  <2>7. Ready(Head(rest))
    BY <2>3, <2>5
  <2>8. agenda' = [agenda EXCEPT ![a] = rest] /\ parked' = Without(parked, Head(rest))
    BY <1>3, <2>5 DEF Resume
  <2>9. parked' \in Seq(Tasks) /\ ToSet(parked') = ToSet(parked) \ {Head(rest)}
    BY <2>8, WithoutTask DEF TypeOK
  <2> HIDE DEF rest
  <2> QED BY <2>4, <2>5, <2>6, <2>7, <2>8, <2>9 DEF Resumes
<1> QED BY <1>2, <1>3

(***************************************************************************)
(* Types.                                                                  *)
(***************************************************************************)
LEMMA InitTypeOK ==
  ASSUME NEW start \in {"turn", "ended"}, Fresh(start)
  PROVE  TypeOK
<1>1. scenario \in Shapes /\ next \in 1 .. NTasks + 1
  BY DispatchAssumption DEF Fresh
<1>2. agenda \in [Loops -> Seq(Tasks)] /\ parked \in Seq(Tasks)
  BY DEF Fresh
<1>3. /\ planned \subseteq Tasks /\ node \in [Tasks -> Nodes] /\ place \in [Turns -> Places]
      /\ result \in [Turns -> Status \cup {"none"}]
  BY DEF Fresh, Nodes, Places
<1>4. /\ leader \in {"turn", "drain", "failing", "closing", "ended"}
      /\ memory \subseteq Tasks \X Status /\ durable \subseteq Tasks \X Status
  BY DEF Fresh
<1>5. /\ tracked \subseteq Turns /\ lock = NoTurn /\ fence = NoTurn /\ call = "none"
      /\ cancel = "none" /\ control = "open" /\ outcome = "none"
  BY DEF Fresh
<1> QED BY <1>1, <1>2, <1>3, <1>4, <1>5 DEF TypeOK

LEMMA DispatchTypes ==
  ASSUME TypeOK, Entered, DispatchStep
  PROVE  TypeOK'
<1> USE Loopers
<1>1. CASE DispatchPlain
  <2>1. next \in Tasks /\ next' \in 1 .. NTasks + 1
    BY <1>1 DEF DispatchPlain, TypeOK, Tasks
  <2>2. place' \in [Turns -> Places] /\ tracked' \subseteq Turns /\ planned' \subseteq Tasks
    <3>1. <<next, 1>> \in Turns /\ "begin" \in Places
      BY <2>1 DEF Places
    <3>2. place' \in [Turns -> Places]
      BY <1>1, <3>1 DEF DispatchPlain, TypeOK
    <3>3. tracked' \subseteq tracked \cup {<<next, 1>>}
      BY <1>1 DEF DispatchPlain
    <3> QED BY <1>1, <2>1, <3>1, <3>2, <3>3 DEF DispatchPlain, TypeOK
  <2> QED BY <1>1, <2>1, <2>2 DEF DispatchPlain, TypeOK, endVars
<1>2. CASE AskDispatch
  BY <1>2 DEF AskDispatch, TypeOK, graphVars, turnVars, recordVars, endVars
<1>3. CASE RefuseFrozen
  BY <1>3 DEF RefuseFrozen, TypeOK, graphVars, turnVars, recordVars, endVars
<1>4. CASE RefuseUnknown
  <2>1. next' \in 1 .. NTasks + 1
    BY <1>4 DEF RefuseUnknown, TypeOK, Entered, Tasks
  <2> QED BY <1>4, <2>1 DEF RefuseUnknown, TypeOK, graphVars, turnVars, recordVars, endVars
<1>5. CASE Admit
  <2>1. next \in Tasks /\ next' \in 1 .. NTasks + 1 /\ planned' \subseteq Tasks
    <3>1. next \in Tasks
      BY <1>5 DEF Admit, Entered
    <3>2. next' = next + 1 /\ planned' = planned \cup {next}
      BY <1>5 DEF Admit
    <3>3. next' \in 1 .. NTasks + 1
      BY <3>1, <3>2 DEF Tasks
    <3> QED BY <3>1, <3>2, <3>3 DEF TypeOK
  <2>2. node' \in [Tasks -> Nodes]
    BY <1>5, <2>1 DEF Admit, TypeOK, Nodes
  <2>3. place' \in [Turns -> Places] /\ tracked' \subseteq Turns
    <3>1. <<next, 1>> \in Turns /\ "begin" \in Places
      BY <2>1 DEF Places
    <3>2. place' \in [Turns -> Places]
      BY <1>5, <3>1 DEF Admit, TypeOK
    <3>3. tracked' \subseteq tracked \cup {<<next, 1>>}
      BY <1>5 DEF Admit
    <3> QED BY <3>1, <3>2, <3>3 DEF TypeOK
  <2>4. Append(parked, next) \in Seq(Tasks)
    BY <2>1 DEF TypeOK
  <2>5. /\ \A d : BehindOf(d, Append(parked, next)) \in Seq(Tasks)
        /\ \A t : Without(Append(parked, next), t) \in Seq(Tasks)
    BY <2>4, BehindTask, WithoutTask
  <2>6. /\ agenda' \in [Loops -> Seq(Tasks)] /\ parked' \in Seq(Tasks)
        /\ call' \in {"none", "settle"}
    <3>1. CASE Incomplete(next) = {}
      BY <1>5, <3>1 DEF Admit, TypeOK
    <3>2. CASE Incomplete(next) # {} /\ TerminalDeps(next) = {}
      BY <1>5, <2>4, <3>2 DEF Admit, TypeOK
    <3>3. CASE Incomplete(next) # {} /\ TerminalDeps(next) # {}
      <4>1. PICK d \in TerminalDeps(next) :
              /\ agenda' = [agenda EXCEPT ![TheCall] = BehindOf(d, Append(parked, next))]
              /\ parked' = Without(Append(parked, next), Head(agenda'[TheCall]))
        BY <1>5, <3>3 DEF Admit
      <4>2. call' = "settle"
        BY <1>5, <3>3 DEF Admit
      <4>3. agenda' \in [Loops -> Seq(Tasks)]
        BY <2>5, <4>1 DEF TypeOK
      <4> QED BY <2>5, <4>1, <4>2, <4>3
    <3> QED BY <3>1, <3>2, <3>3
  <2> QED BY <1>5, <2>1, <2>2, <2>3, <2>6 DEF Admit, TypeOK, endVars
<1> QED BY <1>1, <1>2, <1>3, <1>4, <1>5 DEF DispatchStep

LEMMA LeaderTypes ==
  ASSUME TypeOK, LeaderStep \/ Deadline \/ Cancel \/ CancelFence
  PROVE  TypeOK'
<1> USE Loopers DEF TypeOK, graphVars, turnVars, recordVars, endVars
<1>1. CASE LeaderReturns
  <2>1. leader' \in {"turn", "drain", "failing", "closing", "ended"}
    BY <1>1 DEF LeaderReturns
  <2> QED BY <1>1, <2>1 DEF LeaderReturns
<1>2. CASE LeaderFails
  <2>1. outcome' \in {"cancelled", "failed"} /\ leader' = "closing"
    BY <1>2 DEF LeaderFails, Ending
  <2> QED BY <1>2, <2>1 DEF LeaderFails
<1>3. CASE JudgeContributor
  <2>1. outcome' \in {"succeeded", "failed"} /\ leader' = "closing" /\ memory' = durable
    BY <1>3 DEF JudgeContributor, Judged
  <2>2. UNCHANGED <<graphVars, node, turnVars, durable, parked, lock, fence, call, cancel, control>>
    BY <1>3 DEF JudgeContributor, Judged
  <2> QED BY <2>1, <2>2
<1>4. CASE JudgeCoordinator
  <2>1. outcome' \in {"succeeded", "unestablished", "failed"} /\ leader' = "closing"
    BY <1>4 DEF JudgeCoordinator, Judged
  <2>2. UNCHANGED <<graphVars, node, turnVars, recordVars, parked, lock, fence, call, cancel, control>>
    BY <1>4 DEF JudgeCoordinator, Judged
  <2> QED BY <2>1, <2>2
<1>5. CASE CompleteResearch
  BY <1>5 DEF CompleteResearch, Judged
<1>6. CASE Release
  BY <1>6 DEF Release
<1>7. CASE Deadline
  BY <1>7 DEF Deadline
<1>8. CASE Cancel
  <2>1. cancel' \in {"fence", "settle"} /\ control' = "cancelled"
    BY <1>8 DEF Cancel
  <2>2. parked' \in Seq(Tasks) /\ agenda' \in [Loops -> Seq(Tasks)]
    <3>1. agenda' = [agenda EXCEPT ![TheCancel] = parked]
      BY <1>8 DEF Cancel
    <3>2. parked' = parked \/ (parked # <<>> /\ parked' = Tail(parked))
      BY <1>8 DEF Cancel
    <3>3. parked \in Seq(Tasks) /\ (parked # <<>> => Tail(parked) \in Seq(Tasks))
      BY Entries
    <3> QED BY <3>1, <3>2, <3>3
  <2> QED BY <1>8, <2>1, <2>2 DEF Cancel
<1>9. CASE CancelFence
  BY <1>9 DEF CancelFence
<1> QED BY <1>1, <1>2, <1>3, <1>4, <1>5, <1>6, <1>7, <1>8, <1>9 DEF LeaderStep

\* What a step of a turn changes of its place, its result and one node.
PlaceOf(a)  == \E p \in Places : place' = [place EXCEPT ![a] = p]
ResultOf(a) == result' = result \/ \E r \in Status : result' = [result EXCEPT ![a] = r]
NodeOf(t)   == node' = node \/ \E s \in Nodes : node' = [node EXCEPT ![t] = s]

LEMMA TurnParts ==
  ASSUME TypeOK, NEW a \in Turns, PlaceOf(a), ResultOf(a)
  PROVE  place' \in [Turns -> Places] /\ result' \in [Turns -> Status \cup {"none"}]
BY DEF TypeOK, PlaceOf, ResultOf

LEMMA NodePart ==
  ASSUME TypeOK, NEW t, NodeOf(t)
  PROVE  node' \in [Tasks -> Nodes]
BY DEF TypeOK, NodeOf

LEMMA Names ==
  /\ {"running", "push", "save", "look", "done", "settle", "heal", "settling", "integrating",
      "repairing", "starting", "begin", "recording"} \subseteq Places
  /\ {"blocked", "failed", "timed_out", "completed"} \subseteq Status
  /\ {"running", "failed", "completed", "integrating", "cancelled", "blocked", "repairing", "ready"}
       \subseteq Nodes
BY DEF Places, Status, Nodes, Bad

LEMMA ResumeTypes ==
  ASSUME TypeOK, NEW a, NEW queue, Resumes(a, queue)
  PROVE  agenda' \in [Loops -> Seq(Tasks)] /\ parked' \in Seq(Tasks)
<1>1. CASE agenda' = [agenda EXCEPT ![a] = <<>>] /\ parked' = parked
  <2>1. <<>> \in Seq(Tasks)
    OBVIOUS
  <2> QED BY <1>1, <2>1 DEF TypeOK
<1>2. CASE \E rest \in Seq(Tasks) :
             agenda' = [agenda EXCEPT ![a] = rest] /\ parked' \in Seq(Tasks)
  BY <1>2 DEF TypeOK
<1> QED BY <1>1, <1>2 DEF Resumes

LEMMA TurnTypes ==
  ASSUME TypeOK, Resulted, Visiting, NEW a \in Turns, TurnStep(a)
  PROVE  TypeOK'
<1> USE Names
<1>1. CASE BeginTurn(a)
  <2>1. PlaceOf(a)
    BY <1>1 DEF BeginTurn, StartsWork, PlaceOf
  <2>2. ResultOf(a)
    BY <1>1 DEF BeginTurn, StartsWork, ResultOf
  <2>3. NodeOf(Task(a))
    BY <1>1 DEF BeginTurn, StartsWork, NodeOf
  <2> QED BY <1>1, <2>1, <2>2, <2>3, TurnParts, NodePart DEF BeginTurn, TypeOK, graphVars, recordVars, endVars
<1>2. CASE WaitGivesUp(a)
  <2>1. PlaceOf(a) /\ ResultOf(a)
    BY <1>2 DEF WaitGivesUp, PlaceOf, ResultOf
  <2> QED BY <1>2, <2>1, TurnParts DEF WaitGivesUp, TypeOK, graphVars, recordVars, endVars
<1>3. CASE Aborted(a)
  <2>1. PlaceOf(a) /\ ResultOf(a)
    BY <1>3 DEF Aborted, EndTurn, PlaceOf, ResultOf
  <2> QED BY <1>3, <2>1, TurnParts DEF Aborted, EndTurn, TypeOK, graphVars, recordVars, endVars
<1>4. CASE WorkerReturns(a)
  <2>1. PlaceOf(a) /\ ResultOf(a)
    <3>1. CASE result' = result /\ place' = [place EXCEPT ![a] = "settling"]
      BY <3>1 DEF PlaceOf, ResultOf
    <3>2. CASE result' = [result EXCEPT ![a] = "completed"] /\ place' = [place EXCEPT ![a] = "push"]
      BY <3>2 DEF PlaceOf, ResultOf
    <3>3. CASE \E s \in {"failed", "timed_out"} :
                 /\ result' = [result EXCEPT ![a] = s]
                 /\ place' = [place EXCEPT ![a] = IF Git(Task(a)) THEN "heal" ELSE "push"]
      BY <3>3 DEF PlaceOf, ResultOf
    <3> QED BY <1>4, <3>1, <3>2, <3>3 DEF WorkerReturns
  <2>2. NodeOf(Task(a))
    BY <1>4 DEF WorkerReturns, NodeOf
  <2> QED BY <1>4, <2>1, <2>2, TurnParts, NodePart DEF WorkerReturns, TypeOK, graphVars, recordVars, endVars
<1>5. CASE EnterSettlement(a)
  <2>1. PlaceOf(a)
    BY <1>5 DEF EnterSettlement, PlaceOf
  <2>2. ResultOf(a)
    BY <1>5 DEF EnterSettlement, ResultOf
  <2>3. NodeOf(Task(a))
    BY <1>5 DEF EnterSettlement, NodeOf
  <2>4. lock' \in Turns \cup {NoTurn}
    BY <1>5 DEF EnterSettlement, TypeOK
  <2> QED BY <1>5, <2>1, <2>2, <2>3, <2>4, TurnParts, NodePart
          DEF EnterSettlement, TypeOK, graphVars, recordVars, endVars
<1>6. CASE SettleContribution(a)
  <2>1. PlaceOf(a) /\ ResultOf(a) /\ NodeOf(Task(a)) /\ tracked' \subseteq tracked
    <3>1. CASE \E s \in {"completed", "failed"} :
                 /\ result' = [result EXCEPT ![a] = s]
                 /\ place' = [place EXCEPT ![a] = IF s = "failed" THEN "heal" ELSE "push"]
                 /\ node' = IF Healing THEN [node EXCEPT ![Task(a)] = s] ELSE node
                 /\ UNCHANGED tracked
      <4>1. PICK s \in {"completed", "failed"} :
                 /\ result' = [result EXCEPT ![a] = s]
                 /\ place' = [place EXCEPT ![a] = IF s = "failed" THEN "heal" ELSE "push"]
                 /\ node' = IF Healing THEN [node EXCEPT ![Task(a)] = s] ELSE node
                 /\ UNCHANGED tracked
        BY <3>1
      <4>2. PlaceOf(a)
        BY <4>1 DEF PlaceOf
      <4>3. ResultOf(a)
        BY <4>1 DEF ResultOf
      <4>4. NodeOf(Task(a))
        BY <4>1 DEF NodeOf
      <4> QED BY <4>1, <4>2, <4>3, <4>4
    <3>2. CASE /\ Stopped
               /\ EndTurn(a)
               /\ node' = IF Healing THEN [node EXCEPT ![Task(a)] = "cancelled"] ELSE node
               /\ UNCHANGED result
      <4>1. NodeOf(Task(a))
        BY <3>2 DEF NodeOf
      <4> QED BY <3>2, <4>1 DEF EndTurn, PlaceOf, ResultOf
    <3> QED BY <1>6, <3>1, <3>2 DEF SettleContribution
  <2> QED BY <1>6, <2>1, TurnParts, NodePart DEF SettleContribution, TypeOK, graphVars, recordVars, endVars
<1>7. CASE Heal(a)
  <2> DEFINE failed == IF node[Task(a)] \in {"completed", "cancelled", "repairing", "integrating"}
                       THEN node[Task(a)] ELSE "failed"
             after  == [x \in Tasks |-> IF x = Task(a) THEN failed
                                        ELSE IF x \in Dependents(Task(a)) THEN "blocked" ELSE node[x]]
  <2>0. after \in [Tasks -> Nodes]
    BY Loopers DEF TypeOK
  <2> HIDE DEF after
  <2>1. CASE /\ Healing /\ ~Stopped /\ Claimable(Task(a)) /\ a[2] = 1
             /\ node' = [after EXCEPT ![Task(a)] = "repairing"]
             /\ fence' = a
             /\ place' = [place EXCEPT ![a] = "repairing"]
             /\ UNCHANGED result
    <3>1. node' \in [Tasks -> Nodes]
      BY <2>0, <2>1
    <3>2. PlaceOf(a) /\ ResultOf(a)
      BY <2>1 DEF PlaceOf, ResultOf
    <3> QED BY <1>7, <2>1, <3>1, <3>2, TurnParts DEF Heal, TypeOK, graphVars, recordVars, endVars
  <2>2. CASE /\ node' = IF Healing THEN after ELSE node
             /\ place' = [place EXCEPT ![a] = "push"]
             /\ result' = [result EXCEPT ![a] = IF Healing THEN "failed" ELSE result[a]]
             /\ UNCHANGED fence
    <3>1. node' \in [Tasks -> Nodes]
      BY <2>0, <2>2 DEF TypeOK
    <3>2. PlaceOf(a)
      BY <2>2 DEF PlaceOf
    <3>3. ResultOf(a)
      BY <1>7, <2>2 DEF ResultOf, Heal, Resulted, TypeOK
    <3> QED BY <1>7, <2>2, <3>1, <3>2, <3>3, TurnParts DEF Heal, TypeOK, graphVars, recordVars, endVars
  <2> QED BY <1>7, <2>1, <2>2 DEF Heal, after
<1>8. CASE FinishRepair(a)
  <2>1. PICK s \in {"completed", "failed"} :
          result' = [result EXCEPT ![a] = s] /\ node' = [node EXCEPT ![Task(a)] = s]
    BY <1>8 DEF FinishRepair
  <2>2. PlaceOf(a)
    BY <1>8 DEF FinishRepair, PlaceOf
  <2>3. ResultOf(a) /\ NodeOf(Task(a))
    BY <2>1 DEF ResultOf, NodeOf
  <2> QED BY <1>8, <2>2, <2>3, TurnParts, NodePart
          DEF FinishRepair, TypeOK, graphVars, recordVars, endVars
<1>9. CASE Push(a)
  <2>1. <<Task(a), result[a]>> \in Tasks \X Status
    BY <1>9, Loopers DEF Push, Resulted, TypeOK
  <2>2. PlaceOf(a) /\ ResultOf(a)
    BY <1>9 DEF Push, PlaceOf, ResultOf
  <2>3. memory' \subseteq Tasks \X Status
    BY <1>9, <2>1 DEF Push, TypeOK
  <2> QED BY <1>9, <2>2, <2>3, TurnParts DEF Push, TypeOK, graphVars, endVars
<1>10. CASE Save(a)
  <2>1. PlaceOf(a) /\ ResultOf(a)
    BY <1>10 DEF Save, PlaceOf, ResultOf
  <2> QED BY <1>10, <2>1, TurnParts DEF Save, TypeOK, graphVars, endVars
<1>11. CASE LookForReady(a)
  <2>1. Resumes(a, parked)
    BY <1>11, ResumeFinds DEF LookForReady, TypeOK
  <2>2. agenda' \in [Loops -> Seq(Tasks)] /\ parked' \in Seq(Tasks)
    BY <2>1, ResumeTypes
  <2>3. PlaceOf(a) /\ ResultOf(a) /\ tracked' \subseteq tracked
    BY <1>11 DEF LookForReady, EndTurn, PlaceOf, ResultOf
  <2> QED BY <1>11, <2>2, <2>3, TurnParts DEF LookForReady, TypeOK, graphVars, recordVars, endVars
<1>12. CASE StartParked(a)
  <2> DEFINE t == Head(agenda[a])
             u == IF place[<<t, 1>>] = "none" THEN <<t, 1>> ELSE <<t, 2>>
  <2>1. agenda[a] # <<>> /\ agenda[a] \in Seq(Tasks)
    BY <1>12, Loopers DEF StartParked, Visiting, TypeOK
  <2>2. t \in Tasks /\ Tail(agenda[a]) \in Seq(Tasks)
    BY <2>1, Entries
  <2>3. u \in Turns
    BY <2>2, Loopers
  <2>4. Resumes(a, Tail(agenda[a]))
    BY <1>12, <2>2, ResumeFinds DEF StartParked
  <2>5. agenda' \in [Loops -> Seq(Tasks)] /\ parked' \in Seq(Tasks)
    BY <2>4, ResumeTypes
  <2> HIDE DEF u, t
  <2>6. place' \in [Turns -> Places] /\ tracked' \subseteq Turns
    <3>1. place' = [place EXCEPT ![u] = "begin", ![a] = IF agenda'[a] = <<>> THEN "done" ELSE "starting"]
      BY <1>12 DEF StartParked, u, t
    <3>2. tracked' = (tracked \cup {u}) \ (IF agenda'[a] = <<>> THEN {a} ELSE {})
      BY <1>12 DEF StartParked, u, t
    <3>3. place' \in [Turns -> Places]
      BY <3>1 DEF TypeOK
    <3>4. tracked' \subseteq tracked \cup {u}
      BY <3>2
    <3> QED BY <2>3, <3>3, <3>4 DEF TypeOK
  <2>7. node' \in [Tasks -> Nodes]
    <3>1. node' = [node EXCEPT ![t] = IF node[t] \in {"completed", "cancelled"} THEN node[t] ELSE "ready"]
      BY <1>12 DEF StartParked, t
    <3>2. node[t] \in Nodes
      BY <2>2 DEF t, TypeOK
    <3> QED BY <3>1, <3>2 DEF TypeOK
  <2>8. UNCHANGED <<graphVars, result, recordVars, lock, fence, call, endVars>>
    BY <1>12 DEF StartParked
  <2> QED BY <2>5, <2>6, <2>7, <2>8 DEF TypeOK, graphVars, recordVars, endVars
<1>13. CASE LookForBlocked(a)
  <2>1. BehindOf(Task(a), parked) \in Seq(Tasks)
    BY BehindTask DEF TypeOK
  <2>2. parked' = parked \/ \E t : parked' = Without(parked, t)
    BY <1>13 DEF LookForBlocked
  <2>3. agenda' = [agenda EXCEPT ![a] = BehindOf(Task(a), parked)]
    BY <1>13 DEF LookForBlocked
  <2>4. agenda' \in [Loops -> Seq(Tasks)] /\ parked' \in Seq(Tasks)
    <3>1. agenda \in [Loops -> Seq(Tasks)] /\ parked \in Seq(Tasks)
      BY DEF TypeOK
    <3>2. \A t : Without(parked, t) \in Seq(Tasks)
      BY <3>1, WithoutTask
    <3>3. agenda' \in [Loops -> Seq(Tasks)]
      BY <2>1, <2>3, <3>1
    <3> QED BY <2>2, <3>1, <3>2, <3>3
  <2>5. PlaceOf(a) /\ ResultOf(a) /\ tracked' \subseteq tracked
    BY <1>13 DEF LookForBlocked, EndTurn, PlaceOf, ResultOf
  <2>6. place' \in [Turns -> Places] /\ result' \in [Turns -> Status \cup {"none"}]
    BY <2>5, TurnParts
  <2>7. UNCHANGED <<graphVars, node, recordVars, lock, fence, call, endVars>>
    BY <1>13 DEF LookForBlocked
  <2> QED BY <2>4, <2>5, <2>6, <2>7 DEF TypeOK, graphVars, recordVars, endVars
<1> QED BY <1>1, <1>2, <1>3, <1>4, <1>5, <1>6, <1>7, <1>8, <1>9, <1>10, <1>11, <1>12, <1>13
        DEF TurnStep

\* Moving a loop on keeps the types, and moves nothing else.
LEMMA MoveParts ==
  ASSUME TypeOK, NEW l \in Loops, NEW p, MoveTo(l, p),
         l = TheCall => p \in {"none", "settle", "recording"},
         l = TheCancel => p \in {"settle", "recording", "fence", "done"},
         l \in Turns => p \in Places
  PROVE  /\ place' \in [Turns -> Places] /\ tracked' \subseteq tracked
         /\ call' \in {"none", "asked", "settle", "recording"}
         /\ cancel' \in {"none", "settle", "recording", "fence", "done"}
         /\ At(l)' = p
         /\ \A k \in Loops : k # l => At(k)' = At(k)
         /\ \A a \in Turns : place'[a] = IF a = l THEN p ELSE place[a]
<1> USE Loopers
<1>1. CASE l \in Turns
  <2>1. call' = call /\ cancel' = cancel /\ place' = [place EXCEPT ![l] = p] /\ tracked' \subseteq tracked
    BY <1>1 DEF MoveTo
  <2> QED BY <1>1, <2>1 DEF TypeOK, At
<1>2. CASE l = TheCall
  <2>1. call' = p /\ cancel' = cancel /\ place' = place /\ tracked' = tracked
    BY <1>2 DEF MoveTo
  <2> QED BY <1>2, <2>1 DEF TypeOK, At
<1>3. CASE l = TheCancel
  <2>1. call' = call /\ cancel' = p /\ place' = place /\ tracked' = tracked
    BY <1>3 DEF MoveTo
  <2> QED BY <1>3, <2>1 DEF TypeOK, At
<1> QED BY <1>1, <1>2, <1>3

\* The two steps of a walk that settles, with where they lead.
LEMMA SettleNodeMoves ==
  ASSUME TypeOK, NEW l \in Loops, SettleNode(l)
  PROVE  \E p \in {"recording", "none", "done"} :
           /\ MoveTo(l, p)
           /\ l = TheCall => p # "done"
           /\ l # TheCall => p # "none"
           /\ p = "recording" <=> node[Head(agenda[l])] \in Parkable
BY Loopers DEF SettleNode, GivenUp

LEMMA RecordMoves ==
  ASSUME TypeOK, NEW l \in Loops, RecordBlocked(l)
  PROVE  \E p \in {"settle", "none", "fence", "done"} :
           /\ MoveTo(l, p)
           /\ l = TheCall => p \in {"settle", "none"}
           /\ l = TheCancel => p \in {"settle", "fence"}
           /\ l \in Turns => p \in {"settle", "done"}
           /\ p = "settle" <=> Tail(agenda[l]) # <<>>
BY Loopers DEF RecordBlocked, Finished

LEMMA LoopTypes ==
  ASSUME TypeOK, Visiting, NEW l \in Loops, LoopStep(l)
  PROVE  TypeOK'
<1>1. CASE SettleNode(l)
  <2>1. PICK p \in {"recording", "none", "done"} :
           /\ MoveTo(l, p)
           /\ l = TheCall => p # "done"
           /\ l # TheCall => p # "none"
    BY <1>1, SettleNodeMoves
  <2>2. /\ place' \in [Turns -> Places] /\ tracked' \subseteq tracked
        /\ call' \in {"none", "asked", "settle", "recording"}
        /\ cancel' \in {"none", "settle", "recording", "fence", "done"}
    BY <2>1, MoveParts, Loopers, Names
  <2>3. NodeOf(Head(agenda[l]))
    BY <1>1, Names DEF SettleNode, NodeOf
  <2> QED BY <1>1, <2>2, <2>3, NodePart DEF SettleNode, TypeOK, graphVars, recordVars
<1>2. CASE RecordBlocked(l)
  <2>1. PICK p \in {"settle", "none", "fence", "done"} :
           /\ MoveTo(l, p)
           /\ l = TheCall => p \in {"settle", "none"}
           /\ l = TheCancel => p \in {"settle", "fence"}
           /\ l \in Turns => p \in {"settle", "done"}
    BY <1>2, RecordMoves
  <2>2. /\ place' \in [Turns -> Places] /\ tracked' \subseteq tracked
        /\ call' \in {"none", "asked", "settle", "recording"}
        /\ cancel' \in {"none", "settle", "recording", "fence", "done"}
    BY <2>1, MoveParts, Loopers, Names
  <2>3. agenda[l] # <<>> /\ agenda[l] \in Seq(Tasks)
    BY <1>2 DEF RecordBlocked, Visiting, Walking, TypeOK
  <2>4. Head(agenda[l]) \in Tasks /\ Tail(agenda[l]) \in Seq(Tasks)
    BY <2>3, Entries
  <2>5. durable' \subseteq Tasks \X Status /\ memory' = durable'
    BY <1>2, <2>4, Names DEF RecordBlocked, TypeOK
  <2>6. agenda' = [agenda EXCEPT ![l] = Tail(agenda[l])]
    BY <1>2 DEF RecordBlocked
  <2>7. agenda' \in [Loops -> Seq(Tasks)]
    BY <2>4, <2>6 DEF TypeOK
  <2>8. parked' = parked \/ parked' = Without(parked, Head(Tail(agenda[l])))
    BY <1>2 DEF RecordBlocked
  <2>9. parked' \in Seq(Tasks)
    BY <2>8, WithoutTask DEF TypeOK
  <2> QED BY <1>2, <2>2, <2>5, <2>7, <2>9 DEF RecordBlocked, TypeOK, graphVars
<1> QED BY <1>1, <1>2 DEF LoopStep

(***************************************************************************)
(* What the steps do to the entries of the queues, turn by turn.           *)
(***************************************************************************)
At1(a, p)    == \A b \in Turns : place'[b] = IF b = a THEN p ELSE place[b]
Keeps(l)     == \A k \in Loops : k # l => agenda'[k] = agenda[k]
Fixed        == UNCHANGED <<scenario, planned, memory, durable, call, cancel, control>>

LEMMA AdmitDoes ==
  ASSUME TypeOK, Entered, Admit
  PROVE  /\ next \in Tasks /\ next' = next + 1 /\ planned' = planned \cup {next}
         /\ UNCHANGED <<scenario, result, memory, cancel, control>> /\ durable' = memory
         /\ node' = [node EXCEPT ![next] = IF Ready(next) THEN "ready" ELSE "blocked"]
         /\ Keeps(TheCall)
         /\ IF Ready(next) THEN At1(<<next, 1>>, "begin") ELSE place' = place
         /\ \/ /\ call' = "none" /\ agenda' = agenda
               /\ \/ Ready(next) /\ parked' = parked
                  \/ ~Ready(next) /\ TerminalDeps(next) = {} /\ ToSet(parked') = ToSet(parked) \cup {next}
            \/ \E d \in TerminalDeps(next) :
                 /\ ~Ready(next) /\ call' = "settle" /\ agenda'[TheCall] # <<>>
                 /\ ToSet(agenda'[TheCall]) = {t \in ToSet(parked) \cup {next} : d \in Deps(t)}
                 /\ ToSet(parked') = (ToSet(parked) \cup {next}) \ {Head(agenda'[TheCall])}
<1>1. next \in Tasks
  BY DEF Admit, Entered
<1>2. /\ next' = next + 1 /\ planned' = planned \cup {next}
      /\ UNCHANGED <<scenario, result, memory, cancel, control>> /\ durable' = memory
      /\ node' = [node EXCEPT ![next] = IF Ready(next) THEN "ready" ELSE "blocked"]
  BY DEF Admit, endVars, Ready
<1>3. CASE Ready(next)
  <2>1. /\ call' = "none" /\ agenda' = agenda /\ parked' = parked
        /\ place' = [place EXCEPT ![<<next, 1>>] = "begin"]
    BY <1>3 DEF Admit, Ready
  <2> QED BY <1>1, <1>2, <1>3, <2>1, Loopers DEF TypeOK, At1, Keeps
<1>4. CASE ~Ready(next)
  <2> DEFINE q == Append(parked, next)
  <2>1. q \in Seq(Tasks) /\ ToSet(q) = ToSet(parked) \cup {next}
    BY <1>1, Entries DEF TypeOK
  <2>2. place' = place
    BY <1>4 DEF Admit, Ready
  <2>3. CASE TerminalDeps(next) = {}
    <3>1. call' = "none" /\ agenda' = agenda /\ parked' = q
      BY <1>4, <2>3 DEF Admit, Ready
    <3> HIDE DEF q
    <3> QED BY <1>1, <1>2, <1>4, <2>1, <2>2, <2>3, <3>1 DEF Keeps
  <2>4. CASE TerminalDeps(next) # {}
    <3>1. PICK d \in TerminalDeps(next) :
            /\ agenda' = [agenda EXCEPT ![TheCall] = BehindOf(d, q)]
            /\ parked' = Without(q, Head(agenda'[TheCall]))
      BY <1>4, <2>4 DEF Admit, Ready
    <3>2. call' = "settle"
      BY <1>4, <2>4 DEF Admit, Ready
    <3>3. agenda'[TheCall] = BehindOf(d, q) /\ Keeps(TheCall)
      BY <3>1, Loopers DEF TypeOK, Keeps
    <3> HIDE DEF q
    <3>4. /\ BehindOf(d, q) \in Seq(Tasks)
          /\ ToSet(BehindOf(d, q)) = {t \in ToSet(parked) \cup {next} : d \in Deps(t)}
      BY <2>1, BehindTask
    <3>5. d \in Deps(next)
      BY <3>1 DEF TerminalDeps
    <3>6. agenda'[TheCall] # <<>>
      BY <3>3, <3>4, <3>5, Entries
    <3>7. ToSet(parked') = (ToSet(parked) \cup {next}) \ {Head(agenda'[TheCall])}
      BY <2>1, <3>1, WithoutTask
    <3> QED BY <1>1, <1>2, <1>4, <2>2, <3>1, <3>2, <3>3, <3>4, <3>6, <3>7
  <2> QED BY <2>3, <2>4
<1> QED BY <1>3, <1>4

LEMMA LookForReadyDoes ==
  ASSUME TypeOK, NEW a \in Turns, LookForReady(a)
  PROVE  /\ Fixed /\ UNCHANGED <<next, node, result>> /\ Keeps(a)
         /\ \/ At1(a, "done") /\ agenda'[a] = <<>> /\ parked' = parked
            \/ /\ At1(a, "starting")
               /\ agenda'[a] # <<>> /\ ToSet(agenda'[a]) \subseteq ToSet(parked)
               /\ Ready(Head(agenda'[a]))
               /\ ToSet(parked') = ToSet(parked) \ {Head(agenda'[a])}
<1>1. /\ Fixed /\ UNCHANGED <<next, node, result>>
      /\ place' = [place EXCEPT ![a] = IF agenda'[a] = <<>> THEN "done" ELSE "starting"]
  BY DEF LookForReady, EndTurn, Fixed, graphVars, recordVars, endVars
<1>2. Resumes(a, parked)
  BY ResumeFinds DEF LookForReady, TypeOK
<1>3. Keeps(a)
  BY <1>2, Loopers DEF Resumes, TypeOK, Keeps
<1>4. CASE agenda' = [agenda EXCEPT ![a] = <<>>] /\ parked' = parked
  <2>1. agenda'[a] = <<>>
    BY <1>4, Loopers DEF TypeOK
  <2> QED BY <1>1, <1>3, <1>4, <2>1 DEF TypeOK, At1
<1>5. CASE \E rest \in Seq(Tasks) :
             /\ rest # <<>> /\ ToSet(rest) \subseteq ToSet(parked) /\ Ready(Head(rest))
             /\ agenda' = [agenda EXCEPT ![a] = rest]
             /\ parked' \in Seq(Tasks) /\ ToSet(parked') = ToSet(parked) \ {Head(rest)}
  <2>1. PICK rest \in Seq(Tasks) :
             /\ rest # <<>> /\ ToSet(rest) \subseteq ToSet(parked) /\ Ready(Head(rest))
             /\ agenda' = [agenda EXCEPT ![a] = rest]
             /\ parked' \in Seq(Tasks) /\ ToSet(parked') = ToSet(parked) \ {Head(rest)}
    BY <1>5
  <2>2. agenda'[a] = rest
    BY <2>1, Loopers DEF TypeOK
  <2>3. At1(a, "starting")
    BY <1>1, <2>1, <2>2 DEF TypeOK, At1
  <2> QED BY <1>1, <1>3, <2>1, <2>2, <2>3
<1> QED BY <1>2, <1>4, <1>5 DEF Resumes

Starts(a, u) ==
  LET t == Head(agenda[a]) IN
  /\ t \in Tasks /\ t \in ToSet(agenda[a]) /\ Task(u) = t /\ place[u] = "none" /\ u # a
  /\ place[<<t, 1>>] = "none" => u = <<t, 1>>
  /\ Fixed /\ UNCHANGED <<next, result>> /\ Keeps(a)
  /\ \A x \in Tasks : node'[x] = IF x = t /\ node[t] \notin {"completed", "cancelled"}
                                THEN "ready" ELSE node[x]
  /\ \A b \in Turns : place'[b] = IF b = u THEN "begin"
                                 ELSE IF b # a THEN place[b]
                                 ELSE IF agenda'[a] = <<>> THEN "done" ELSE "starting"
  /\ \/ agenda'[a] = <<>> /\ parked' = parked
     \/ /\ agenda'[a] # <<>> /\ ToSet(agenda'[a]) \subseteq ToSet(agenda[a])
        /\ Ready(Head(agenda'[a]))
        /\ ToSet(parked') = ToSet(parked) \ {Head(agenda'[a])}

LEMMA StartParkedDoes ==
  ASSUME TypeOK, Visiting, NEW a \in Turns, StartParked(a)
  PROVE  \E u \in Turns : Starts(a, u)
<1> DEFINE t == Head(agenda[a])
           u == IF place[<<t, 1>>] = "none" THEN <<t, 1>> ELSE <<t, 2>>
<1>1. agenda[a] # <<>> /\ agenda[a] \in Seq(Tasks)
  BY Loopers DEF StartParked, Visiting, TypeOK
<1>2. t \in Tasks /\ t \in ToSet(agenda[a]) /\ Tail(agenda[a]) \in Seq(Tasks)
      /\ ToSet(Tail(agenda[a])) \subseteq ToSet(agenda[a])
  BY <1>1, Entries
<1>3. u \in Turns /\ Task(u) = t
  BY <1>2, Loopers DEF Task
<1>4. place[u] = "none" /\ place[a] = "starting" /\ u # a
  BY DEF StartParked
<1>5. Resumes(a, Tail(agenda[a]))
  BY <1>2, ResumeFinds DEF StartParked
<1>6. place' = [place EXCEPT ![u] = "begin", ![a] = IF agenda'[a] = <<>> THEN "done" ELSE "starting"]
  BY DEF StartParked
<1>7. node' = [node EXCEPT ![t] = IF node[t] \in {"completed", "cancelled"} THEN node[t] ELSE "ready"]
  BY DEF StartParked
<1>8. Fixed /\ UNCHANGED <<next, result>>
  BY DEF StartParked, Fixed, graphVars, recordVars, endVars
<1>9. place[<<t, 1>>] = "none" => u = <<t, 1>>
  OBVIOUS
<1> HIDE DEF t, u
<1>10. \A x \in Tasks : node'[x] = IF x = t /\ node[t] \notin {"completed", "cancelled"}
                                  THEN "ready" ELSE node[x]
  BY <1>2, <1>7 DEF TypeOK
<1>11. \A b \in Turns : place'[b] = IF b = u THEN "begin"
                                   ELSE IF b # a THEN place[b]
                                   ELSE IF agenda'[a] = <<>> THEN "done" ELSE "starting"
  BY <1>3, <1>4, <1>6 DEF TypeOK
<1>12. Keeps(a)
  BY <1>5, Loopers DEF Resumes, TypeOK, Keeps
<1>13. \/ agenda'[a] = <<>> /\ parked' = parked
       \/ /\ agenda'[a] # <<>> /\ ToSet(agenda'[a]) \subseteq ToSet(agenda[a])
          /\ Ready(Head(agenda'[a]))
          /\ ToSet(parked') = ToSet(parked) \ {Head(agenda'[a])}
  BY <1>2, <1>5, Loopers DEF Resumes, TypeOK
<1> QED BY <1>2, <1>3, <1>4, <1>8, <1>9, <1>10, <1>11, <1>12, <1>13 DEF t, Starts

LEMMA LookForBlockedDoes ==
  ASSUME TypeOK, NEW a \in Turns, LookForBlocked(a)
  PROVE  /\ Fixed /\ UNCHANGED <<next, node, result>> /\ Keeps(a)
         /\ agenda'[a] \in Seq(Tasks)
         /\ ToSet(agenda'[a]) = {t \in ToSet(parked) : Task(a) \in Deps(t)}
         /\ \/ At1(a, "done") /\ agenda'[a] = <<>> /\ parked' = parked
            \/ /\ At1(a, "settle") /\ agenda'[a] # <<>>
               /\ ToSet(parked') = ToSet(parked) \ {Head(agenda'[a])}
<1> DEFINE q == BehindOf(Task(a), parked)
<1>1. q \in Seq(Tasks) /\ ToSet(q) = {t \in ToSet(parked) : Task(a) \in Deps(t)}
  BY BehindTask DEF TypeOK
<1>2. agenda' = [agenda EXCEPT ![a] = q] /\ Fixed /\ UNCHANGED <<next, node, result>>
  BY DEF LookForBlocked, Fixed, graphVars, recordVars, endVars
<1>3. agenda'[a] = q /\ Keeps(a)
  BY <1>2, Loopers DEF TypeOK, Keeps
<1>4. CASE q = <<>>
  <2>1. parked' = parked /\ place' = [place EXCEPT ![a] = "done"]
    BY <1>4 DEF LookForBlocked, EndTurn
  <2> QED BY <1>1, <1>2, <1>3, <1>4, <2>1 DEF TypeOK, At1
<1>5. CASE q # <<>>
  <2>1. parked' = Without(parked, Head(q)) /\ place' = [place EXCEPT ![a] = "settle"]
    BY <1>5 DEF LookForBlocked
  <2>2. ToSet(parked') = ToSet(parked) \ {Head(q)}
    BY <2>1, WithoutTask DEF TypeOK
  <2> QED BY <1>1, <1>2, <1>3, <1>5, <2>1, <2>2 DEF TypeOK, At1
<1> QED BY <1>4, <1>5

\* A loop is moved on to a place, and nothing else is moved.
Moves(l, p) ==
  /\ At(l)' = p
  /\ \A k \in Loops : k # l => At(k)' = At(k)
  /\ \A b \in Turns : place'[b] = IF b = l THEN p ELSE place[b]
  /\ l # TheCall => call' = call
  /\ l # TheCancel => cancel' = cancel

LEMMA MoveMoves ==
  ASSUME TypeOK, NEW l \in Loops, NEW p, MoveTo(l, p)
  PROVE  Moves(l, p)
<1> USE Loopers
<1>1. CASE l \in Turns
  <2>1. call' = call /\ cancel' = cancel /\ place' = [place EXCEPT ![l] = p]
    BY <1>1 DEF MoveTo
  <2> QED BY <1>1, <2>1 DEF TypeOK, At, Moves
<1>2. CASE l = TheCall
  <2>1. call' = p /\ cancel' = cancel /\ place' = place
    BY <1>2 DEF MoveTo
  <2> QED BY <1>2, <2>1 DEF TypeOK, At, Moves
<1>3. CASE l = TheCancel
  <2>1. call' = call /\ cancel' = p /\ place' = place
    BY <1>3 DEF MoveTo
  <2> QED BY <1>3, <2>1 DEF TypeOK, At, Moves
<1> QED BY <1>1, <1>2, <1>3

LEMMA SettleNodeDoes ==
  ASSUME TypeOK, Visiting, NEW l \in Loops, SettleNode(l)
  PROVE  LET t == Head(agenda[l]) IN
         /\ t \in Tasks /\ t \in ToSet(agenda[l]) /\ At(l) = "settle"
         /\ UNCHANGED <<scenario, next, planned, result, agenda, memory, durable, parked, control>>
         /\ \A x \in Tasks : node'[x] = IF x = t /\ node[t] \in Parkable THEN "blocked" ELSE node[x]
         /\ \E p \in {"recording", "none", "done"} :
              /\ Moves(l, p)
              /\ l \in Turns => p # "none"
              /\ p = "recording" <=> node[t] \in Parkable
<1>1. agenda[l] # <<>> /\ agenda[l] \in Seq(Tasks) /\ At(l) = "settle"
  BY DEF SettleNode, Visiting, Walking, TypeOK
<1>2. Head(agenda[l]) \in Tasks /\ Head(agenda[l]) \in ToSet(agenda[l])
  BY <1>1, Entries
<1>3. PICK p \in {"recording", "none", "done"} :
           /\ MoveTo(l, p)
           /\ l = TheCall => p # "done"
           /\ l # TheCall => p # "none"
           /\ p = "recording" <=> node[Head(agenda[l])] \in Parkable
  BY SettleNodeMoves
<1>4. Moves(l, p) /\ (l \in Turns => p # "none")
  BY <1>3, MoveMoves, Loopers
<1>5. UNCHANGED <<scenario, next, planned, result, agenda, memory, durable, parked, control>>
  BY DEF SettleNode, graphVars, recordVars
<1>6. \A x \in Tasks : node'[x] = IF x = Head(agenda[l]) /\ node[Head(agenda[l])] \in Parkable
                                 THEN "blocked" ELSE node[x]
  BY <1>2 DEF SettleNode, TypeOK
<1> QED BY <1>1, <1>2, <1>3, <1>4, <1>5, <1>6

LEMMA RecordDoes ==
  ASSUME TypeOK, Visiting, NEW l \in Loops, RecordBlocked(l)
  PROVE  /\ agenda[l] \in Seq(Tasks) /\ agenda[l] # <<>> /\ At(l) = "recording"
         /\ UNCHANGED <<scenario, next, planned, node, result, control>> /\ Keeps(l)
         /\ agenda'[l] = Tail(agenda[l])
         /\ memory' = durable' /\ durable \subseteq durable'
         /\ \A r \in durable' \ durable : r[2] = "blocked"
         /\ \E p \in {"settle", "none", "fence", "done"} :
              /\ Moves(l, p)
              /\ l \in Turns => p \in {"settle", "done"}
              /\ l = TheCall => p \in {"settle", "none"}
              /\ p = "settle" <=> agenda'[l] # <<>>
         /\ \/ agenda'[l] = <<>> /\ parked' = parked
            \/ agenda'[l] # <<>> /\ ToSet(parked') = ToSet(parked) \ {Head(agenda'[l])}
<1>1. agenda[l] # <<>> /\ agenda[l] \in Seq(Tasks) /\ At(l) = "recording"
  BY DEF RecordBlocked, Visiting, Walking, TypeOK
<1>2. UNCHANGED <<scenario, next, planned, node, result, control>>
  BY DEF RecordBlocked, graphVars
<1>3. agenda' = [agenda EXCEPT ![l] = Tail(agenda[l])]
  BY DEF RecordBlocked
<1>4. agenda'[l] = Tail(agenda[l]) /\ Keeps(l)
  BY <1>3 DEF TypeOK, Keeps
<1>5. /\ memory' = durable' /\ durable \subseteq durable'
      /\ \A r \in durable' \ durable : r[2] = "blocked"
  BY DEF RecordBlocked
<1>6. PICK p \in {"settle", "none", "fence", "done"} :
           /\ MoveTo(l, p)
           /\ l = TheCall => p \in {"settle", "none"}
           /\ l \in Turns => p \in {"settle", "done"}
           /\ p = "settle" <=> Tail(agenda[l]) # <<>>
  BY RecordMoves
<1>7. Moves(l, p)
  BY <1>6, MoveMoves
<1>8. \/ agenda'[l] = <<>> /\ parked' = parked
      \/ agenda'[l] # <<>> /\ ToSet(parked') = ToSet(parked) \ {Head(agenda'[l])}
  <2>1. CASE Tail(agenda[l]) = <<>>
    BY <1>4, <2>1 DEF RecordBlocked
  <2>2. CASE Tail(agenda[l]) # <<>>
    <3>1. parked' = Without(parked, Head(Tail(agenda[l])))
      BY <2>2 DEF RecordBlocked
    <3> QED BY <1>4, <2>2, <3>1, WithoutTask DEF TypeOK
  <2> QED BY <2>1, <2>2
<1> QED BY <1>1, <1>2, <1>4, <1>5, <1>6, <1>7, <1>8

\* The leader's steps leave the tasks alone.
LEMMA LeaderDoes ==
  ASSUME LeaderStep \/ Deadline \/ CancelFence
  PROVE  /\ UNCHANGED <<scenario, next, planned, node, place, result, agenda, durable, parked, call>>
         /\ memory' = memory \/ memory' = durable
         /\ control' = control \/ control' = "deadline"
         /\ cancel' = cancel \/ (cancel = "fence" /\ cancel' = "done")
<1> USE DEF graphVars, turnVars, recordVars, endVars
<1>1. CASE LeaderReturns
  BY <1>1 DEF LeaderReturns
<1>2. CASE LeaderFails
  BY <1>2 DEF LeaderFails
<1>3. CASE JudgeContributor
  BY <1>3 DEF JudgeContributor, Judged
<1>4. CASE JudgeCoordinator
  BY <1>4 DEF JudgeCoordinator, Judged
<1>5. CASE CompleteResearch
  BY <1>5 DEF CompleteResearch, Judged
<1>6. CASE Release
  BY <1>6 DEF Release
<1>7. CASE Deadline
  BY <1>7 DEF Deadline
<1>8. CASE CancelFence
  BY <1>8 DEF CancelFence
<1> QED BY <1>1, <1>2, <1>3, <1>4, <1>5, <1>6, <1>7, <1>8 DEF LeaderStep

LEMMA CancelDoes ==
  ASSUME TypeOK, Cancel
  PROVE  /\ UNCHANGED <<scenario, next, planned, node, place, result, memory, durable, call>>
         /\ Keeps(TheCancel) /\ agenda'[TheCancel] = parked
         /\ control' = "cancelled"
         /\ \/ parked = <<>> /\ parked' = parked /\ cancel' = "fence"
            \/ /\ parked # <<>> /\ ToSet(parked') \subseteq ToSet(parked)
               /\ cancel' = "settle"
<1>1. agenda' = [agenda EXCEPT ![TheCancel] = parked]
  BY DEF Cancel
<1>2. parked # <<>> => ToSet(Tail(parked)) \subseteq ToSet(parked)
  BY Entries DEF TypeOK
<1>3. agenda'[TheCancel] = parked /\ Keeps(TheCancel)
  BY <1>1, Loopers DEF TypeOK, Keeps
<1>4. /\ UNCHANGED <<scenario, next, planned, node, place, result, memory, durable, call>>
      /\ control' = "cancelled"
  BY DEF Cancel, graphVars, recordVars
<1>5. CASE parked = <<>>
  BY <1>3, <1>4, <1>5 DEF Cancel
<1>6. CASE parked # <<>>
  <2>1. parked' = Tail(parked) /\ cancel' = "settle"
    BY <1>6 DEF Cancel
  <2> QED BY <1>2, <1>3, <1>4, <1>6, <2>1
<1> QED BY <1>5, <1>6

(***************************************************************************)
(* The steps of a turn that leave the queues alone, from place to place.   *)
(***************************************************************************)
TaskStep(a) == BeginTurn(a) \/ WaitGivesUp(a) \/ Aborted(a) \/ WorkerReturns(a)
               \/ EnterSettlement(a) \/ SettleContribution(a) \/ Heal(a) \/ FinishRepair(a)
PlainStep(a) == TaskStep(a) \/ Push(a) \/ Save(a)

Flow ==
  {<<"begin", "running">>, <<"begin", "push">>,
   <<"running", "settling">>, <<"running", "heal">>, <<"running", "push">>, <<"running", "done">>,
   <<"settling", "integrating">>, <<"settling", "heal">>, <<"settling", "done">>,
   <<"integrating", "heal">>, <<"integrating", "push">>, <<"integrating", "done">>,
   <<"heal", "repairing">>, <<"heal", "push">>, <<"repairing", "push">>,
   <<"push", "save">>, <<"push", "done">>, <<"save", "look">>}

\* The turn gets to a place; where its result, the nodes and the records go.
Others(a) ==
  \A x \in Tasks : x # Task(a) =>
    node'[x] = node[x] \/ (x \in planned /\ node[x] # "completed" /\ node'[x] = "blocked")

Recorded(a, p) ==
  /\ p \in {"save", "look"} => result' = result /\ node' = node
  /\ memory' = IF p = "save" THEN memory \cup {<<Task(a), result[a]>>} ELSE memory
  /\ durable' = IF p = "look" THEN memory ELSE durable

StepTo(a, p) ==
  /\ At1(a, p) /\ <<place[a], p>> \in Flow
  /\ \A b \in Turns : b # a => result'[b] = result[b]
  /\ p \in {"heal", "push", "save", "look"} => result'[a] # "none"
  /\ place[a] \notin Working /\ p \notin Working => node' = node
  /\ p = "running" => (Healing \/ Handed(Task(a))) /\ \A r \in Upstream(Task(a)) : r[2] = "completed"
  /\ Others(a) /\ Recorded(a, p)

Steps(a) == \E p \in Places : StepTo(a, p)

LEMMA PlainDoes ==
  ASSUME TypeOK, Resulted, NEW a \in Turns, PlainStep(a)
  PROVE  /\ Steps(a)
         /\ UNCHANGED <<scenario, next, planned, agenda, parked, call, cancel, control>>
<1> USE Loopers, Names DEF graphVars, endVars, recordVars
<1>0. ASSUME NEW p, place' = [place EXCEPT ![a] = p]
      PROVE  At1(a, p)
  BY <1>0 DEF TypeOK, At1
<1>r. ASSUME NEW r, result' = [result EXCEPT ![a] = r]
      PROVE  result'[a] = r /\ \A b \in Turns : b # a => result'[b] = result[b]
  BY <1>r DEF TypeOK
<1>s. ASSUME NEW r, node' = [node EXCEPT ![Task(a)] = r]
      PROVE  Others(a)
  BY <1>s DEF TypeOK, Others
<1>w. {"running", "settling", "integrating", "heal", "repairing"} = Working
  BY DEF Working
<1>e. node' = node => Others(a)
  BY DEF Others
<1>1. CASE BeginTurn(a)
  <2>1. CASE \A r \in Upstream(Task(a)) : r[2] = "completed"
    <3>1. At1(a, "running") /\ <<place[a], "running">> \in Flow /\ result' = result
      BY <1>1, <2>1, <1>0 DEF BeginTurn, StartsWork, Flow
    <3>2. Others(a)
      BY <1>1, <2>1 DEF BeginTurn, StartsWork, TypeOK, Others
    <3> QED BY <1>w, <1>e, <1>1, <2>1, <3>1, <3>2 DEF BeginTurn, Steps, StepTo, Recorded
  <2>2. CASE ~ \A r \in Upstream(Task(a)) : r[2] = "completed"
    <3>1. At1(a, "push") /\ <<place[a], "push">> \in Flow /\ result' = [result EXCEPT ![a] = "blocked"]
          /\ node' = node
      BY <1>1, <2>2, <1>0 DEF BeginTurn, Flow
    <3>2. result'[a] = "blocked" /\ \A b \in Turns : b # a => result'[b] = result[b]
      BY <3>1, <1>r
    <3> QED BY <1>w, <1>e, <1>1, <3>1, <3>2 DEF BeginTurn, Steps, StepTo, Recorded
  <2> QED BY <2>1, <2>2
<1>2. CASE WaitGivesUp(a)
  <2>1. At1(a, "push") /\ <<place[a], "push">> \in Flow /\ result' = [result EXCEPT ![a] = "failed"]
        /\ node' = node
    BY <1>2, <1>0 DEF WaitGivesUp, Flow
  <2>2. result'[a] = "failed" /\ \A b \in Turns : b # a => result'[b] = result[b]
    BY <2>1, <1>r
  <2> QED BY <1>w, <1>e, <1>2, <2>1, <2>2 DEF WaitGivesUp, Steps, StepTo, Recorded
<1>3. CASE Aborted(a)
  <2>1. At1(a, "done") /\ <<place[a], "done">> \in Flow /\ result' = result /\ node' = node
    BY <1>3, <1>0 DEF Aborted, EndTurn, Flow
  <2> QED BY <1>w, <1>e, <1>3, <2>1 DEF Aborted, Steps, StepTo, Recorded
<1>4. CASE WorkerReturns(a)
  <2>1. Others(a)
    BY <1>4 DEF WorkerReturns, TypeOK, Others
  <2>2. UNCHANGED <<scenario, next, planned, agenda, parked, call, cancel, control, memory, durable>>
        /\ place[a] = "running"
    BY <1>4 DEF WorkerReturns
  <2>3. CASE result' = result /\ place' = [place EXCEPT ![a] = "settling"]
    <3>1. At1(a, "settling") /\ <<place[a], "settling">> \in Flow
      BY <1>0, <2>2, <2>3 DEF Flow
    <3> QED BY <1>w, <1>e, <2>1, <2>2, <2>3, <3>1 DEF Steps, StepTo, Recorded
  <2>4. CASE result' = [result EXCEPT ![a] = "completed"] /\ place' = [place EXCEPT ![a] = "push"]
    <3>1. At1(a, "push") /\ <<place[a], "push">> \in Flow
      BY <1>0, <2>2, <2>4 DEF Flow
    <3>2. result'[a] = "completed" /\ \A b \in Turns : b # a => result'[b] = result[b]
      BY <2>4, <1>r
    <3> QED BY <1>w, <1>e, <2>1, <2>2, <3>1, <3>2 DEF Steps, StepTo, Recorded
  <2>5. CASE \E s \in {"failed", "timed_out"} :
                 /\ result' = [result EXCEPT ![a] = s]
                 /\ place' = [place EXCEPT ![a] = IF Git(Task(a)) THEN "heal" ELSE "push"]
    <3>1. PICK s \in {"failed", "timed_out"} :
                 /\ result' = [result EXCEPT ![a] = s]
                 /\ place' = [place EXCEPT ![a] = IF Git(Task(a)) THEN "heal" ELSE "push"]
      BY <2>5
    <3>2. \E p \in {"heal", "push"} : At1(a, p) /\ <<place[a], p>> \in Flow
      BY <1>0, <2>2, <3>1 DEF Flow
    <3>3. result'[a] = s /\ \A b \in Turns : b # a => result'[b] = result[b]
      BY <3>1, <1>r
    <3> QED BY <1>w, <1>e, <2>1, <2>2, <3>1, <3>2, <3>3 DEF Steps, StepTo, Recorded
  <2> QED BY <1>4, <2>3, <2>4, <2>5 DEF WorkerReturns
<1>5. CASE EnterSettlement(a)
  <2>1. Others(a)
    BY <1>5 DEF EnterSettlement, TypeOK, Others
  <2>2. UNCHANGED <<scenario, next, planned, agenda, parked, call, cancel, control, memory, durable>>
        /\ place[a] = "settling"
    BY <1>5 DEF EnterSettlement
  <2>3. CASE place' = [place EXCEPT ![a] = "heal"] /\ result' = [result EXCEPT ![a] = "failed"]
    <3>1. At1(a, "heal") /\ <<place[a], "heal">> \in Flow
      BY <1>0, <2>2, <2>3 DEF Flow
    <3>2. result'[a] = "failed" /\ \A b \in Turns : b # a => result'[b] = result[b]
      BY <2>3, <1>r
    <3> QED BY <1>w, <1>e, <2>1, <2>2, <3>1, <3>2 DEF Steps, StepTo, Recorded
  <2>4. CASE place' = [place EXCEPT ![a] = "integrating"] /\ result' = result
    <3>1. At1(a, "integrating") /\ <<place[a], "integrating">> \in Flow
      BY <1>0, <2>2, <2>4 DEF Flow
    <3> QED BY <1>w, <1>e, <2>1, <2>2, <2>4, <3>1 DEF Steps, StepTo, Recorded
  <2> QED BY <1>5, <2>3, <2>4 DEF EnterSettlement
<1>6. CASE SettleContribution(a)
  <2>1. Others(a)
    BY <1>6 DEF SettleContribution, TypeOK, Others
  <2>2. UNCHANGED <<scenario, next, planned, agenda, parked, call, cancel, control, memory, durable>>
        /\ place[a] = "integrating"
    BY <1>6 DEF SettleContribution
  <2>3. CASE \E s \in {"completed", "failed"} :
                 /\ result' = [result EXCEPT ![a] = s]
                 /\ place' = [place EXCEPT ![a] = IF s = "failed" THEN "heal" ELSE "push"]
    <3>1. PICK s \in {"completed", "failed"} :
                 /\ result' = [result EXCEPT ![a] = s]
                 /\ place' = [place EXCEPT ![a] = IF s = "failed" THEN "heal" ELSE "push"]
      BY <2>3
    <3>2. \E p \in {"heal", "push"} : At1(a, p) /\ <<place[a], p>> \in Flow
      BY <1>0, <2>2, <3>1 DEF Flow
    <3>3. result'[a] = s /\ \A b \in Turns : b # a => result'[b] = result[b]
      BY <3>1, <1>r
    <3> QED BY <1>w, <1>e, <2>1, <2>2, <3>1, <3>2, <3>3 DEF Steps, StepTo, Recorded
  <2>4. CASE EndTurn(a) /\ UNCHANGED result
    <3>1. At1(a, "done") /\ <<place[a], "done">> \in Flow
      BY <1>0, <2>2, <2>4 DEF Flow, EndTurn
    <3> QED BY <1>w, <1>e, <2>1, <2>2, <2>4, <3>1 DEF Steps, StepTo, Recorded
  <2> QED BY <1>6, <2>3, <2>4 DEF SettleContribution
<1>7. CASE Heal(a)
  <2> DEFINE failed == IF node[Task(a)] \in {"completed", "cancelled", "repairing", "integrating"}
                       THEN node[Task(a)] ELSE "failed"
             after  == [x \in Tasks |-> IF x = Task(a) THEN failed
                                        ELSE IF x \in Dependents(Task(a)) THEN "blocked" ELSE node[x]]
  <2>0. /\ UNCHANGED <<scenario, next, planned, agenda, parked, call, cancel, control, memory, durable>>
        /\ place[a] = "heal"
        /\ result[a] # "none"
    BY <1>7 DEF Heal, Resulted
  <2>1. \A x \in Tasks : x # Task(a) =>
          after[x] = node[x] \/ (x \in planned /\ node[x] # "completed" /\ after[x] = "blocked")
    BY DEF Dependents
  <2>2. DOMAIN after = Tasks
    OBVIOUS
  <2> HIDE DEF after
  <2>3. CASE /\ node' = [after EXCEPT ![Task(a)] = "repairing"]
             /\ place' = [place EXCEPT ![a] = "repairing"]
             /\ UNCHANGED result
    <3>1. At1(a, "repairing") /\ <<place[a], "repairing">> \in Flow
      BY <1>0, <2>0, <2>3 DEF Flow
    <3>2. \A x \in Tasks : x # Task(a) => node'[x] = after[x]
      BY <2>2, <2>3
    <3>3. Others(a)
      BY <2>1, <3>2 DEF Others
    <3> QED BY <1>w, <1>e, <2>0, <2>3, <3>1, <3>3 DEF Steps, StepTo, Recorded
  <2>4. CASE /\ node' = IF Healing THEN after ELSE node
             /\ place' = [place EXCEPT ![a] = "push"]
             /\ result' = [result EXCEPT ![a] = IF Healing THEN "failed" ELSE result[a]]
    <3>1. At1(a, "push") /\ <<place[a], "push">> \in Flow
      BY <1>0, <2>0, <2>4 DEF Flow
    <3>2. \A x \in Tasks : node'[x] = after[x] \/ node'[x] = node[x]
      BY <2>4
    <3>3. result'[a] # "none" /\ \A b \in Turns : b # a => result'[b] = result[b]
      BY <1>r, <2>0, <2>4
    <3>4. Others(a)
      BY <2>1, <3>2 DEF Others
    <3> QED BY <1>w, <1>e, <2>0, <3>1, <3>3, <3>4 DEF Steps, StepTo, Recorded
  <2> QED BY <1>7, <2>3, <2>4 DEF Heal, after
<1>8. CASE FinishRepair(a)
  <2>1. UNCHANGED <<scenario, next, planned, agenda, parked, call, cancel, control, memory, durable>>
        /\ place[a] = "repairing"
        /\ place' = [place EXCEPT ![a] = "push"]
    BY <1>8 DEF FinishRepair
  <2>2. At1(a, "push") /\ <<place[a], "push">> \in Flow
    BY <1>0, <2>1 DEF Flow
  <2>3. PICK s \in {"completed", "failed"} :
          result' = [result EXCEPT ![a] = s] /\ node' = [node EXCEPT ![Task(a)] = s]
    BY <1>8 DEF FinishRepair
  <2>4. result'[a] = s /\ \A b \in Turns : b # a => result'[b] = result[b]
    BY <2>3, <1>r
  <2>5. Others(a)
    BY <2>3, <1>s
  <2> QED BY <1>w, <1>e, <2>1, <2>2, <2>4, <2>5 DEF Steps, StepTo, Recorded
<1>9. CASE Push(a)
  <2>1. At1(a, "save") /\ <<place[a], "save">> \in Flow
    BY <1>0, <1>9 DEF Push, Flow
  <2> QED BY <1>w, <1>e, <1>9, <2>1 DEF Push, Steps, StepTo, Recorded, Resulted
<1>10. CASE Save(a)
  <2>1. At1(a, "look") /\ <<place[a], "look">> \in Flow
    BY <1>0, <1>10 DEF Save, Flow
  <2> QED BY <1>w, <1>e, <1>10, <2>1 DEF Save, Steps, StepTo, Recorded, Resulted
<1> QED BY <1>1, <1>2, <1>3, <1>4, <1>5, <1>6, <1>7, <1>8, <1>9, <1>10 DEF PlainStep, TaskStep

LEMMA TurnCases ==
  ASSUME NEW a \in Turns, TurnStep(a)
  PROVE  PlainStep(a) \/ LookForReady(a) \/ StartParked(a) \/ LookForBlocked(a)
BY DEF TurnStep, PlainStep, TaskStep

\* What the dispatches other than Admit do.
Asking == DispatchPlain \/ AskDispatch \/ RefuseFrozen \/ RefuseUnknown

LEMMA AskDoes ==
  ASSUME Asking
  PROVE  /\ UNCHANGED <<scenario, node, result, agenda, memory, parked, cancel, control>>
         /\ durable' = durable \/ durable' = memory
         /\ next' \in {next, next + 1}
         /\ planned' = planned \/ (next \in Tasks /\ next' = next + 1 /\ planned' = planned \cup {next})
         /\ call' \in {"none", "asked"} \/ call' = call
         /\ call \in {"none", "asked"} \/ call' = call
         /\ call' = "asked" => (call = "none" /\ next \in Tasks /\ next' = next) \/ (call = "asked" /\ ~Healing)
         /\ place' = place \/ (~Healing /\ next \in Tasks /\ next' = next + 1
                              /\ place' = [place EXCEPT ![<<next, 1>>] = "begin"])
<1> USE DEF graphVars, turnVars, recordVars, endVars
<1>1. CASE DispatchPlain
  BY <1>1 DEF DispatchPlain
<1>2. CASE AskDispatch
  BY <1>2 DEF AskDispatch
<1>3. CASE RefuseFrozen
  BY <1>3 DEF RefuseFrozen
<1>4. CASE RefuseUnknown
  BY <1>4 DEF RefuseUnknown
<1> QED BY <1>1, <1>2, <1>3, <1>4 DEF Asking

\* Every step is one of these.
LEMMA NextCases ==
  ASSUME Next
  PROVE  \/ Asking \/ Admit
         \/ (LeaderStep \/ Deadline \/ CancelFence) \/ Cancel
         \/ \E a \in Turns : PlainStep(a)
         \/ \E a \in Turns : LookForReady(a)
         \/ \E a \in Turns : StartParked(a)
         \/ \E a \in Turns : LookForBlocked(a)
         \/ \E l \in Loops : SettleNode(l)
         \/ \E l \in Loops : RecordBlocked(l)
BY DEF Next, DispatchStep, Asking, TurnStep, LoopStep, PlainStep, TaskStep

LEMMA InitEntered ==
  ASSUME NEW start \in {"turn", "ended"}, Fresh(start)
  PROVE  Entered /\ Visiting /\ Resulted
<1>1. ToSet(<<>>) = {}
  BY DEF ToSet
<1> QED BY <1>1, Loopers DEF Fresh, Entered, Visiting, Resulted, Walking, At

LEMMA AskedGrows ==
  ASSUME TypeOK, next' \in {next, next + 1}
  PROVE  Asked \subseteq Asked' /\ (next \in Tasks /\ next' = next + 1 => next \in Asked')
<1>1. next \in Nat /\ next >= 1
  BY Loopers DEF TypeOK
<1>2. next' \in Nat /\ next <= next'
  BY <1>1
<1>3. 1 .. next - 1 \subseteq 1 .. next' - 1
  <2>1. \A m, n \in Nat : m <= n => 1 .. m - 1 \subseteq 1 .. n - 1
    OBVIOUS
  <2> QED BY <1>1, <1>2, <2>1
<1>4. next' = next + 1 => next \in 1 .. next' - 1
  BY <1>1
<1> QED BY <1>3, <1>4 DEF Asked

LEMMA NextUnasked ==
  ASSUME TypeOK
  PROVE  next \notin Asked
BY DEF Asked, TypeOK

LEMMA EnteredStill ==
  ASSUME Entered, UNCHANGED <<scenario, next, planned>>, call' = "asked" => call = "asked",
         \A a \in Turns : Task(a) \notin Asked => place'[a] = "none",
         \A t \in Tasks : t \notin Asked => node'[t] = "none",
         ToSet(parked') \subseteq Asked,
         \A l \in Loops : ToSet(agenda'[l]) \subseteq Asked
  PROVE  Entered'
<1>1. Asked' = Asked /\ Healing' = Healing
  BY DEF Asked, Healing
<1> QED BY <1>1 DEF Entered

LEMMA NextEntered ==
  ASSUME TypeOK, Entered, Visiting, Resulted, Next
  PROVE  Entered'
<1> USE Loopers
<1>1. CASE Asking
  <2>1. Asked \subseteq Asked' /\ (next \in Tasks /\ next' = next + 1 => next \in Asked')
    BY <1>1, AskDoes, AskedGrows
  <2>2. \A a \in Turns : Task(a) \notin Asked' => place'[a] = "none"
    <3> SUFFICES ASSUME NEW a \in Turns, Task(a) \notin Asked'
                 PROVE  place'[a] = "none"
      OBVIOUS
    <3>1. CASE place' = place
      BY <2>1, <3>1 DEF Entered
    <3>2. CASE next \in Tasks /\ next' = next + 1 /\ place' = [place EXCEPT ![<<next, 1>>] = "begin"]
      <4>1. a # <<next, 1>>
        BY <2>1, <3>2 DEF Task
      <4> QED BY <2>1, <3>2, <4>1 DEF Entered, TypeOK
    <3> QED BY <1>1, <3>1, <3>2, AskDoes
  <2>3. UNCHANGED <<scenario, node, agenda, parked>> /\ (call' = "asked" => next' \in Tasks /\ Healing)
    BY <1>1, AskDoes DEF Entered, Asking, AskDispatch, RefuseFrozen, RefuseUnknown, DispatchPlain
  <2>4. planned' \subseteq Asked'
    BY <1>1, <2>1, AskDoes DEF Entered
  <2> QED BY <2>1, <2>2, <2>3, <2>4 DEF Entered, Healing
<1>2. CASE Admit
  <2>1. /\ next \in Tasks /\ next' = next + 1 /\ planned' = planned \cup {next} /\ Keeps(TheCall)
        /\ node' = [node EXCEPT ![next] = IF Ready(next) THEN "ready" ELSE "blocked"]
        /\ call' # "asked"
        /\ ToSet(parked') \subseteq ToSet(parked) \cup {next}
        /\ agenda' = agenda \/ ToSet(agenda'[TheCall]) \subseteq ToSet(parked) \cup {next}
        /\ place' = place \/ At1(<<next, 1>>, "begin")
    BY <1>2, AdmitDoes
  <2>2. Asked \subseteq Asked' /\ next \in Asked'
    BY <2>1, AskedGrows
  <2>3. \A a \in Turns : Task(a) \notin Asked' => place'[a] = "none"
    BY <2>1, <2>2 DEF Entered, At1, Task
  <2>4. \A t \in Tasks : t \notin Asked' => node'[t] = "none"
    BY <2>1, <2>2 DEF Entered, TypeOK
  <2>5. \A l \in Loops : ToSet(agenda'[l]) \subseteq Asked'
    BY <2>1, <2>2 DEF Entered, Keeps
  <2>6. ToSet(parked') \subseteq Asked' /\ planned' \subseteq Asked'
    BY <2>1, <2>2 DEF Entered
  <2> QED BY <2>1, <2>3, <2>4, <2>5, <2>6 DEF Entered
<1>3. CASE LeaderStep \/ Deadline \/ CancelFence
  <2>1. /\ UNCHANGED <<scenario, next, planned, node, place, agenda, parked, call>>
    BY <1>3, LeaderDoes
  <2> QED BY <2>1, EnteredStill DEF Entered
<1>4. CASE Cancel
  <2>1. /\ UNCHANGED <<scenario, next, planned, node, place, call>>
        /\ Keeps(TheCancel) /\ agenda'[TheCancel] = parked
        /\ ToSet(parked') \subseteq ToSet(parked)
    BY <1>4, CancelDoes
  <2>2. \A l \in Loops : ToSet(agenda'[l]) \subseteq Asked
    BY <2>1 DEF Keeps, Entered
  <2> QED BY <2>1, <2>2, EnteredStill DEF Entered
<1>5. ASSUME NEW a \in Turns, PlainStep(a)
      PROVE  Entered'
  <2>1. PICK p \in Places : StepTo(a, p)
    BY <1>5, PlainDoes DEF Steps
  <2>2. UNCHANGED <<scenario, next, planned, agenda, parked, call>>
    BY <1>5, PlainDoes
  <2>3. Task(a) \in Asked
    BY <2>1 DEF StepTo, Flow, Entered
  <2>4. \A b \in Turns : Task(b) \notin Asked => place'[b] = "none"
    BY <2>1, <2>3 DEF StepTo, At1, Entered
  <2>5. \A t \in Tasks : t \notin Asked => node'[t] = "none"
    BY <2>1, <2>3 DEF StepTo, Others, Entered
  <2> QED BY <2>2, <2>4, <2>5, EnteredStill DEF Entered
<1>6. ASSUME NEW a \in Turns, LookForReady(a) \/ LookForBlocked(a)
      PROVE  Entered'
  <2>1. /\ UNCHANGED <<scenario, next, planned, node, call>> /\ Keeps(a)
        /\ ToSet(parked') \subseteq ToSet(parked) /\ ToSet(agenda'[a]) \subseteq ToSet(parked)
        /\ \E p : At1(a, p)
    <3>1. ToSet(<<>>) = {}
      BY DEF ToSet
    <3> QED BY <1>6, <3>1, LookForReadyDoes, LookForBlockedDoes DEF Fixed
  <2>2. place[a] # "none"
    BY <1>6 DEF LookForReady, LookForBlocked
  <2>3. \A b \in Turns : Task(b) \notin Asked => place'[b] = "none"
    BY <2>1, <2>2 DEF At1, Entered
  <2>4. \A l \in Loops : ToSet(agenda'[l]) \subseteq Asked
    BY <2>1 DEF Keeps, Entered
  <2> QED BY <2>1, <2>3, <2>4, EnteredStill DEF Entered
<1>7. ASSUME NEW a \in Turns, StartParked(a)
      PROVE  Entered'
  <2> DEFINE t == Head(agenda[a])
  <2>1. PICK u \in Turns : Starts(a, u)
    BY <1>7, StartParkedDoes
  <2>2. t \in Asked /\ Task(a) \in Asked
    BY <1>7, <2>1 DEF Entered, StartParked, Starts
  <2>3. \A b \in Turns : Task(b) \notin Asked => place'[b] = "none"
    BY <2>1, <2>2 DEF Entered, Starts
  <2>4. \A x \in Tasks : x \notin Asked => node'[x] = "none"
    BY <2>1, <2>2 DEF Entered, Starts
  <2>5. ToSet(parked') \subseteq Asked /\ ToSet(agenda'[a]) \subseteq Asked
    <3>1. ToSet(<<>>) = {}
      BY DEF ToSet
    <3> QED BY <2>1, <3>1 DEF Entered, Starts
  <2>6. \A l \in Loops : ToSet(agenda'[l]) \subseteq Asked
    BY <2>1, <2>5 DEF Keeps, Entered, Starts
  <2>7. UNCHANGED <<scenario, next, planned, call>>
    BY <2>1 DEF Fixed, Starts
  <2> QED BY <2>3, <2>4, <2>5, <2>6, <2>7, EnteredStill
<1>8. ASSUME NEW l \in Loops, SettleNode(l)
      PROVE  Entered'
  <2> DEFINE t == Head(agenda[l])
  <2>1. /\ t \in Tasks /\ t \in ToSet(agenda[l]) /\ At(l) = "settle"
        /\ UNCHANGED <<scenario, next, planned, agenda, parked>>
        /\ \A x \in Tasks : node'[x] = IF x = t /\ node[t] \in Parkable THEN "blocked" ELSE node[x]
        /\ \E p \in {"recording", "none", "done"} : Moves(l, p)
    BY <1>8, SettleNodeDoes
  <2> HIDE DEF t
  <2>2. PICK p \in {"recording", "none", "done"} : Moves(l, p)
    BY <2>1
  <2>3. t \in Asked
    BY <2>1 DEF Entered
  <2>4. \A b \in Turns : Task(b) \notin Asked => place'[b] = "none"
    BY <2>1, <2>2 DEF Entered, Moves, At
  <2>5. \A x \in Tasks : x \notin Asked => node'[x] = "none"
    BY <2>1, <2>3 DEF Entered
  <2>6. call' = "asked" => call = "asked"
    BY <2>2 DEF Moves, At
  <2> QED BY <2>1, <2>4, <2>5, <2>6, EnteredStill DEF Entered
<1>9. ASSUME NEW l \in Loops, RecordBlocked(l)
      PROVE  Entered'
  <2>1. /\ agenda[l] \in Seq(Tasks) /\ agenda[l] # <<>> /\ At(l) = "recording"
        /\ UNCHANGED <<scenario, next, planned, node>> /\ Keeps(l)
        /\ agenda'[l] = Tail(agenda[l]) /\ ToSet(parked') \subseteq ToSet(parked)
    BY <1>9, RecordDoes
  <2>2. PICK p \in {"settle", "none", "fence", "done"} : Moves(l, p)
    BY <1>9, RecordDoes
  <2>3. \A b \in Turns : Task(b) \notin Asked => place'[b] = "none"
    BY <2>1, <2>2 DEF Entered, Moves, At
  <2>4. call' = "asked" => call = "asked"
    BY <2>2 DEF Moves, At
  <2>5. ToSet(agenda'[l]) \subseteq ToSet(agenda[l])
    BY <2>1, Entries
  <2>6. \A k \in Loops : ToSet(agenda'[k]) \subseteq Asked
    BY <2>1, <2>5 DEF Keeps, Entered
  <2> QED BY <2>1, <2>3, <2>4, <2>6, EnteredStill DEF Entered
<1> QED BY <1>1, <1>2, <1>3, <1>4, <1>5, <1>6, <1>7, <1>8, <1>9, NextCases

LEMMA NextResulted ==
  ASSUME TypeOK, Visiting, Resulted, Entered, Next
  PROVE  Resulted'
<1> USE Loopers
<1>1. CASE Asking
  <2>1. result' = result /\ \A a \in Turns : place'[a] \in {place[a], "begin"}
    BY <1>1, AskDoes DEF TypeOK
  <2> QED BY <2>1 DEF Resulted
<1>2. CASE Admit
  <2>1. result' = result /\ \A a \in Turns : place'[a] \in {place[a], "begin"}
    BY <1>2, AdmitDoes DEF At1
  <2> QED BY <2>1 DEF Resulted
<1>3. CASE LeaderStep \/ Deadline \/ CancelFence
  BY <1>3, LeaderDoes DEF Resulted
<1>4. CASE Cancel
  BY <1>4, CancelDoes DEF Resulted
<1>5. ASSUME NEW a \in Turns, PlainStep(a)
      PROVE  Resulted'
  <2>1. PICK p \in Places : StepTo(a, p)
    BY <1>5, PlainDoes DEF Steps
  <2> QED BY <2>1 DEF StepTo, At1, Resulted
<1>6. ASSUME NEW a \in Turns, LookForReady(a) \/ LookForBlocked(a)
      PROVE  Resulted'
  <2>1. result' = result /\ \A b \in Turns : place'[b] \in {place[b], "done", "starting", "settle"}
    BY <1>6, LookForReadyDoes, LookForBlockedDoes DEF At1
  <2> QED BY <2>1 DEF Resulted
<1>7. ASSUME NEW a \in Turns, StartParked(a)
      PROVE  Resulted'
  <2>1. result' = result /\ \A b \in Turns : place'[b] \in {place[b], "done", "starting", "begin"}
    BY <1>7, StartParkedDoes DEF Starts
  <2> QED BY <2>1 DEF Resulted
<1>8. ASSUME NEW l \in Loops, SettleNode(l)
      PROVE  Resulted'
  <2>1. result' = result /\ \A b \in Turns : place'[b] \in {place[b], "recording", "none", "done"}
    BY <1>8, SettleNodeDoes DEF Moves
  <2> QED BY <2>1 DEF Resulted
<1>9. ASSUME NEW l \in Loops, RecordBlocked(l)
      PROVE  Resulted'
  <2>1. result' = result /\ \A b \in Turns : place'[b] \in {place[b], "settle", "none", "fence", "done"}
    BY <1>9, RecordDoes DEF Moves
  <2> QED BY <2>1 DEF Resulted
<1> QED BY <1>1, <1>2, <1>3, <1>4, <1>5, <1>6, <1>7, <1>8, <1>9, NextCases

LEMMA NextVisiting ==
  ASSUME TypeOK, Visiting, Resulted, Entered, Next
  PROVE  Visiting'
<1> USE Loopers
<1>1. CASE Asking
  <2>1. /\ agenda' = agenda /\ parked' = parked /\ cancel' = cancel
        /\ call' \in {"none", "asked"} \/ call' = call
        /\ \A a \in Turns : place'[a] \in {place[a], "begin"}
    BY <1>1, AskDoes DEF TypeOK
  <2> QED BY <2>1 DEF Visiting, Walking, At
<1>2. CASE Admit
  <2>1. /\ cancel' = cancel /\ Keeps(TheCall)
        /\ \A a \in Turns : place'[a] \in {place[a], "begin"}
        /\ call' = "none" \/ agenda'[TheCall] # <<>>
        /\ ToSet(parked') \subseteq ToSet(parked) \cup {next}
    BY <1>2, AdmitDoes DEF At1
  <2>2. \A l \in Loops : Walking(l)' => agenda'[l] # <<>>
    BY <2>1 DEF Visiting, Walking, At, Keeps
  <2>3. ASSUME NEW a \in Turns, place'[a] = "starting"
        PROVE  agenda'[a] # <<>> /\ Head(agenda'[a]) \notin ToSet(parked')
    <3>1. agenda[a] # <<>> /\ Head(agenda[a]) \notin ToSet(parked) /\ agenda'[a] = agenda[a]
      BY <2>1, <2>3 DEF Visiting, Keeps
    <3>2. Head(agenda[a]) \in Asked
      BY <3>1, Entries DEF TypeOK, Entered
    <3> QED BY <2>1, <3>1, <3>2, NextUnasked
  <2> QED BY <2>2, <2>3 DEF Visiting
<1>3. CASE LeaderStep \/ Deadline \/ CancelFence
  <2>1. /\ UNCHANGED <<place, agenda, parked, call>>
        /\ cancel' = cancel \/ cancel' = "done"
    BY <1>3, LeaderDoes
  <2> QED BY <2>1 DEF Visiting, Walking, At
<1>4. CASE Cancel
  <2>1. /\ UNCHANGED <<place, call>> /\ Keeps(TheCancel) /\ agenda'[TheCancel] = parked
        /\ ToSet(parked') \subseteq ToSet(parked)
        /\ cancel' = "fence" \/ parked # <<>>
    BY <1>4, CancelDoes
  <2> QED BY <2>1 DEF Visiting, Walking, At, Keeps
<1>5. ASSUME NEW a \in Turns, PlainStep(a)
      PROVE  Visiting'
  <2>1. PICK p \in Places : StepTo(a, p)
    BY <1>5, PlainDoes DEF Steps
  <2>2. UNCHANGED <<agenda, parked, call, cancel>>
    BY <1>5, PlainDoes
  <2>3. p \notin {"starting", "settle", "recording"} /\ At1(a, p)
    BY <2>1 DEF StepTo, Flow
  <2> QED BY <2>2, <2>3 DEF At1, Visiting, Walking, At
<1>6. ASSUME NEW a \in Turns, LookForReady(a)
      PROVE  Visiting'
  <2>1. /\ Keeps(a) /\ UNCHANGED <<call, cancel>> /\ ToSet(parked') \subseteq ToSet(parked)
        /\ \/ At1(a, "done")
           \/ At1(a, "starting") /\ agenda'[a] # <<>> /\ Head(agenda'[a]) \notin ToSet(parked')
    BY <1>6, LookForReadyDoes DEF Fixed
  <2> QED BY <2>1 DEF Visiting, Walking, At, At1, Keeps
<1>7. ASSUME NEW a \in Turns, StartParked(a)
      PROVE  Visiting'
  <2>1. PICK u \in Turns : Starts(a, u)
    BY <1>7, StartParkedDoes
  <2>2. /\ Keeps(a) /\ UNCHANGED <<call, cancel>> /\ ToSet(parked') \subseteq ToSet(parked)
        /\ agenda'[a] # <<>> => Head(agenda'[a]) \notin ToSet(parked')
        /\ \A b \in Turns : b # a => place'[b] \in {place[b], "begin"}
        /\ place'[a] = IF agenda'[a] = <<>> THEN "done" ELSE "starting"
    BY <2>1 DEF Fixed, Starts
  <2> QED BY <2>2 DEF Visiting, Walking, At, Keeps
<1>8. ASSUME NEW a \in Turns, LookForBlocked(a)
      PROVE  Visiting'
  <2>1. /\ Keeps(a) /\ UNCHANGED <<call, cancel>> /\ ToSet(parked') \subseteq ToSet(parked)
        /\ At1(a, "done") \/ (At1(a, "settle") /\ agenda'[a] # <<>>)
    BY <1>8, LookForBlockedDoes DEF Fixed
  <2> QED BY <2>1 DEF Visiting, Walking, At, At1, Keeps
<1>9. ASSUME NEW l \in Loops, SettleNode(l)
      PROVE  Visiting'
  <2>1. /\ UNCHANGED <<agenda, parked>> /\ At(l) = "settle"
    BY <1>9, SettleNodeDoes
  <2>2. PICK p \in {"recording", "none", "done"} : Moves(l, p)
    BY <1>9, SettleNodeDoes
  <2>3. \A k \in Loops : Walking(k)' => Walking(k)
    BY <2>1, <2>2 DEF Moves, Walking
  <2>4. \A b \in Turns : place'[b] = "starting" => place[b] = "starting"
    BY <2>2 DEF Moves
  <2> QED BY <2>1, <2>3, <2>4 DEF Visiting
<1>10. ASSUME NEW l \in Loops, RecordBlocked(l)
      PROVE  Visiting'
  <2>1. PICK p \in {"settle", "none", "fence", "done"} :
          Moves(l, p) /\ (p = "settle" <=> agenda'[l] # <<>>)
    BY <1>10, RecordDoes
  <2>2. Keeps(l) /\ ToSet(parked') \subseteq ToSet(parked) /\ At(l) = "recording"
    BY <1>10, RecordDoes
  <2>3. \A k \in Loops : Walking(k)' => agenda'[k] # <<>>
    BY <2>1, <2>2 DEF Moves, Walking, Keeps, Visiting
  <2>4. \A b \in Turns : place'[b] = "starting" => place[b] = "starting" /\ b # l
    BY <2>1 DEF Moves
  <2> QED BY <2>2, <2>3, <2>4 DEF Visiting, Keeps
<1> QED BY <1>1, <1>2, <1>3, <1>4, <1>5, <1>6, <1>7, <1>8, <1>9, <1>10, NextCases

LEMMA NextParkedWaits ==
  ASSUME TypeOK, Visiting, Resulted, Entered, ParkedWaits, Next
  PROVE  ParkedWaits'
<1> USE Loopers DEF ParkedWaits, Parked
<1>1. CASE Asking
  <2>1. UNCHANGED <<node, parked>>
    BY <1>1, AskDoes
  <2>2. \A a \in Turns : Task(a) \in ToSet(parked) => place'[a] = place[a]
    BY <1>1, AskDoes, NextUnasked DEF Entered, Task, TypeOK
  <2> QED BY <2>1, <2>2
<1>2. CASE Admit
  <2>1. /\ next \in Tasks
        /\ node' = [node EXCEPT ![next] = IF Ready(next) THEN "ready" ELSE "blocked"]
        /\ IF Ready(next) THEN At1(<<next, 1>>, "begin") ELSE place' = place
        /\ ToSet(parked') \subseteq ToSet(parked) \cup {next}
        /\ next \in ToSet(parked') => ~Ready(next) \/ next \in ToSet(parked)
    BY <1>2, AdmitDoes
  <2>2. next \notin Asked /\ next \notin ToSet(parked) /\ \A a \in Turns : Task(a) = next => place[a] = "none"
    BY NextUnasked DEF Entered
  <2> SUFFICES ASSUME NEW t \in Tasks, t \in ToSet(parked')
               PROVE  node'[t] \in Parkable /\ \A a \in Turns : Task(a) = t => place'[a] = "none"
    OBVIOUS
  <2>3. CASE t = next
    BY <2>1, <2>2, <2>3 DEF TypeOK, Parkable
  <2>4. CASE t # next
    BY <2>1, <2>2, <2>4 DEF TypeOK, At1, Task
  <2> QED BY <2>3, <2>4
<1>3. CASE LeaderStep \/ Deadline \/ CancelFence
  BY <1>3, LeaderDoes
<1>4. CASE Cancel
  BY <1>4, CancelDoes
<1>5. ASSUME NEW a \in Turns, PlainStep(a)
      PROVE  ParkedWaits'
  <2>1. PICK p \in Places : StepTo(a, p)
    BY <1>5, PlainDoes DEF Steps
  <2>2. parked' = parked
    BY <1>5, PlainDoes
  <2>3. Task(a) \notin ToSet(parked)
    BY <2>1 DEF StepTo, Flow
  <2>4. \A t \in Tasks : t # Task(a) => node'[t] = node[t] \/ node'[t] = "blocked"
    BY <2>1 DEF StepTo, Others
  <2>5. \A b \in Turns : b # a => place'[b] = place[b]
    BY <2>1 DEF StepTo, At1
  <2> QED BY <2>2, <2>3, <2>4, <2>5 DEF Parkable
<1>6. ASSUME NEW a \in Turns, LookForReady(a) \/ LookForBlocked(a)
      PROVE  ParkedWaits'
  <2>1. node' = node /\ ToSet(parked') \subseteq ToSet(parked) /\ \E p : At1(a, p)
    BY <1>6, LookForReadyDoes, LookForBlockedDoes
  <2>2. place[a] # "none"
    BY <1>6 DEF LookForReady, LookForBlocked
  <2> QED BY <2>1, <2>2 DEF At1
<1>7. ASSUME NEW a \in Turns, StartParked(a)
      PROVE  ParkedWaits'
  <2>1. PICK u \in Turns : Starts(a, u)
    BY <1>7, StartParkedDoes
  <2>2. Head(agenda[a]) \notin ToSet(parked) /\ place[a] # "none"
    BY <1>7 DEF StartParked, Visiting
  <2>3. ToSet(parked') \subseteq ToSet(parked)
    BY <2>1 DEF Starts
  <2> QED BY <2>1, <2>2, <2>3 DEF Starts
<1>8. ASSUME NEW l \in Loops, SettleNode(l)
      PROVE  ParkedWaits'
  <2>1. /\ parked' = parked /\ At(l) = "settle"
        /\ \A x \in Tasks : node'[x] \in {"blocked", node[x]}
    BY <1>8, SettleNodeDoes
  <2>2. PICK p \in {"recording", "none", "done"} : Moves(l, p)
    BY <1>8, SettleNodeDoes
  <2> QED BY <2>1, <2>2 DEF Moves, At, Parkable
<1>9. ASSUME NEW l \in Loops, RecordBlocked(l)
      PROVE  ParkedWaits'
  <2>1. node' = node /\ At(l) = "recording" /\ ToSet(parked') \subseteq ToSet(parked)
    BY <1>9, RecordDoes
  <2>2. PICK p \in {"settle", "none", "fence", "done"} : Moves(l, p)
    BY <1>9, RecordDoes
  <2> QED BY <2>1, <2>2 DEF Moves, At
<1> QED BY <1>1, <1>2, <1>3, <1>4, <1>5, <1>6, <1>7, <1>8, <1>9, NextCases

\* A turn about to save stays there until it has saved.
LEMMA NextSavesComing ==
  ASSUME TypeOK, Visiting, Resulted, Entered, SavesComing, Next
  PROVE  SavesComing'
<1> USE Loopers DEF SavesComing
<1> DEFINE Coming(r) == \E a \in Turns : place[a] = "save" /\ Task(a) = r[1] /\ result[a] = r[2]
<1>0. ASSUME UNCHANGED <<memory, durable, result>>, \A a \in Turns : place[a] = "save" => place'[a] = "save"
      PROVE  SavesComing'
  BY <1>0
<1>1. CASE Asking
  <2>1. /\ UNCHANGED <<memory, result>>
        /\ durable' = durable \/ durable' = memory
        /\ \A a \in Turns : place[a] = "save" => place'[a] = "save"
    BY <1>1, AskDoes, NextUnasked DEF Entered, Task, TypeOK
  <2> QED BY <2>1
<1>2. CASE Admit
  BY <1>2, AdmitDoes
<1>3. CASE LeaderStep \/ Deadline \/ CancelFence
  <2>1. /\ UNCHANGED <<durable, place, result>> /\ (memory' = memory \/ memory' = durable)
    BY <1>3, LeaderDoes
  <2> QED BY <2>1
<1>4. CASE Cancel
  BY <1>4, CancelDoes
<1>5. ASSUME NEW a \in Turns, PlainStep(a)
      PROVE  SavesComing'
  <2>1. PICK p \in Places : StepTo(a, p)
    BY <1>5, PlainDoes DEF Steps
  <2>2. At1(a, p) /\ <<place[a], p>> \in Flow /\ Recorded(a, p)
        /\ \A b \in Turns : b # a => result'[b] = result[b]
    BY <2>1 DEF StepTo
  <2>3. CASE p = "save"
    <3>1. /\ memory' = memory \cup {<<Task(a), result[a]>>} /\ durable' = durable /\ result' = result
          /\ place'[a] = "save" /\ \A b \in Turns : place[b] = "save" => place'[b] = "save"
      BY <2>2, <2>3 DEF At1, Recorded
    <3>2. ASSUME NEW r \in memory' \ durable'
          PROVE  \E b \in Turns : place'[b] = "save" /\ Task(b) = r[1] /\ result'[b] = r[2]
      <4>1. CASE r \in memory
        BY <3>1, <3>2, <4>1
      <4>2. CASE r = <<Task(a), result[a]>>
        BY <3>1, <4>2
      <4> QED BY <3>1, <3>2, <4>1, <4>2
    <3> QED BY <3>1, <3>2
  <2>4. CASE p = "look"
    BY <2>2, <2>4 DEF Recorded
  <2>5. CASE p \notin {"save", "look"}
    <3>1. UNCHANGED <<memory, durable>> /\ place[a] # "save"
      BY <2>2, <2>5 DEF Recorded, Flow
    <3> QED BY <2>2, <3>1 DEF At1
  <2> QED BY <2>3, <2>4, <2>5
<1>6. ASSUME NEW a \in Turns, LookForReady(a) \/ LookForBlocked(a)
      PROVE  SavesComing'
  <2>1. UNCHANGED <<memory, durable, result>> /\ \E p : At1(a, p)
    BY <1>6, LookForReadyDoes, LookForBlockedDoes DEF Fixed
  <2>2. place[a] # "save"
    BY <1>6 DEF LookForReady, LookForBlocked
  <2> QED BY <1>0, <2>1, <2>2 DEF At1
<1>7. ASSUME NEW a \in Turns, StartParked(a)
      PROVE  SavesComing'
  <2>1. PICK u \in Turns : Starts(a, u)
    BY <1>7, StartParkedDoes
  <2>2. place[a] # "save"
    BY <1>7 DEF StartParked
  <2> QED BY <1>0, <2>1, <2>2 DEF Starts, Fixed
<1>8. ASSUME NEW l \in Loops, SettleNode(l)
      PROVE  SavesComing'
  <2>1. UNCHANGED <<memory, durable, result>> /\ At(l) = "settle"
    BY <1>8, SettleNodeDoes
  <2>2. PICK p \in {"recording", "none", "done"} : Moves(l, p)
    BY <1>8, SettleNodeDoes
  <2> QED BY <1>0, <2>1, <2>2 DEF Moves, At
<1>9. ASSUME NEW l \in Loops, RecordBlocked(l)
      PROVE  SavesComing'
  BY <1>9, RecordDoes
<1> QED BY <1>1, <1>2, <1>3, <1>4, <1>5, <1>6, <1>7, <1>8, <1>9, NextCases

LEMMA NextStopLasts ==
  ASSUME TypeOK, Visiting, Resulted, Entered, StopLasts, Next
  PROVE  StopLasts'
<1> USE Loopers DEF StopLasts
<1>1. CASE Asking \/ Admit
  BY <1>1, AskDoes, AdmitDoes
<1>2. CASE LeaderStep \/ Deadline \/ CancelFence
  BY <1>2, LeaderDoes
<1>3. CASE Cancel
  BY <1>3, CancelDoes
<1>4. ASSUME NEW a \in Turns, PlainStep(a)
      PROVE  StopLasts'
  BY <1>4, PlainDoes
<1>5. ASSUME NEW a \in Turns, LookForReady(a) \/ LookForBlocked(a)
      PROVE  StopLasts'
  BY <1>5, LookForReadyDoes, LookForBlockedDoes DEF Fixed
<1>6. ASSUME NEW a \in Turns, StartParked(a)
      PROVE  StopLasts'
  BY <1>6, StartParkedDoes DEF Starts, Fixed
<1>7. ASSUME NEW l \in Loops, SettleNode(l) \/ RecordBlocked(l)
      PROVE  StopLasts'
  <2>1. control' = control /\ At(l) # "none" /\ \E p : Moves(l, p)
    BY <1>7, SettleNodeDoes, RecordDoes
  <2> QED BY <2>1 DEF Moves, At
<1> QED BY <1>1, <1>2, <1>3, <1>4, <1>5, <1>6, <1>7, NextCases

\* The store loses no result, and no step changes what a task depends on.
LEMMA DurableGrows ==
  ASSUME TypeOK, Visiting, Resulted, Entered, SavesComing, Next
  PROVE  durable \subseteq durable' /\ scenario' = scenario
<1> USE DEF SavesComing
<1>1. CASE Asking \/ Admit
  BY <1>1, AskDoes, AdmitDoes
<1>2. CASE LeaderStep \/ Deadline \/ CancelFence \/ Cancel
  BY <1>2, LeaderDoes, CancelDoes
<1>3. ASSUME NEW a \in Turns, PlainStep(a)
      PROVE  durable \subseteq durable' /\ scenario' = scenario
  BY <1>3, PlainDoes DEF Steps, StepTo, Recorded
<1>4. ASSUME NEW a \in Turns, LookForReady(a) \/ LookForBlocked(a)
      PROVE  durable \subseteq durable' /\ scenario' = scenario
  BY <1>4, LookForReadyDoes, LookForBlockedDoes DEF Fixed
<1>5. ASSUME NEW a \in Turns, StartParked(a)
      PROVE  durable \subseteq durable' /\ scenario' = scenario
  BY <1>5, StartParkedDoes DEF Starts, Fixed
<1>6. ASSUME NEW l \in Loops, SettleNode(l) \/ RecordBlocked(l)
      PROVE  durable \subseteq durable' /\ scenario' = scenario
  BY <1>6, SettleNodeDoes, RecordDoes
<1> QED BY <1>1, <1>2, <1>3, <1>4, <1>5, <1>6, NextCases

\* A doomed task that does no work does none later.
LEMMA DoomedIdles ==
  ASSUME TypeOK, Visiting, Resulted, Entered, SavesComing, Next,
         NEW t \in Tasks, Doomed(t), Idle(t)
  PROVE  Doomed(t)' /\ Idle(t)'
<1> USE Loopers
<1>1. Doomed(t)'
  BY DurableGrows DEF Doomed, Deps
<1>2. node[t] \in Parkable /\ \A a \in Turns : Task(a) = t => place[a] \notin Working
  BY DEF Idle
<1>3. ASSUME node'[t] \in {node[t], "ready", "blocked"},
             \A a \in Turns : Task(a) = t => place'[a] = place[a] \/ place'[a] \notin Working
      PROVE  Idle(t)'
  <2>1. node'[t] \in Parkable
    BY <1>2, <1>3 DEF Parkable
  <2> QED BY <1>2, <1>3, <2>1 DEF Idle
<1>4. {"begin", "done", "starting", "settle", "recording", "none", "fence", "push", "save", "look"}
        \cap Working = {}
  BY DEF Working
<1>5. CASE Asking
  <2>1. node' = node /\ \A a \in Turns : place'[a] \in {place[a], "begin"}
    BY <1>5, AskDoes DEF TypeOK
  <2> QED BY <1>1, <1>3, <1>4, <2>1
<1>6. CASE Admit
  <2>1. /\ node'[t] \in {node[t], "ready", "blocked"}
        /\ \A a \in Turns : place'[a] \in {place[a], "begin"}
    BY <1>6, AdmitDoes DEF At1, TypeOK
  <2> QED BY <1>1, <1>3, <1>4, <2>1
<1>7. CASE LeaderStep \/ Deadline \/ CancelFence \/ Cancel
  BY <1>1, <1>3, <1>7, LeaderDoes, CancelDoes
<1>8. ASSUME NEW a \in Turns, PlainStep(a)
      PROVE  Idle(t)'
  <2>1. PICK p \in Places : StepTo(a, p)
    BY <1>8, PlainDoes DEF Steps
  <2>2. CASE Task(a) # t
    <3>1. node'[t] \in {node[t], "blocked"}
      BY <2>1, <2>2 DEF StepTo, Others
    <3> QED BY <1>3, <2>1, <2>2, <3>1 DEF StepTo, At1
  <2>3. CASE Task(a) = t
    <3>1. place[a] \notin Working /\ <<place[a], p>> \in Flow /\ At1(a, p)
      BY <1>2, <2>1, <2>3 DEF StepTo
    <3>2. p # "running"
      <4>1. PICK r \in durable : r[1] \in Deps(t) /\ r[2] # "completed"
        BY DEF Doomed
      <4>2. r \in Upstream(t)
        BY <4>1 DEF Upstream, SavesComing
      <4> QED BY <2>1, <2>3, <4>1, <4>2 DEF StepTo
    <3>3. p \notin Working
      BY <3>1, <3>2 DEF Flow, Working
    <3>4. node' = node
      BY <2>1, <3>1, <3>3 DEF StepTo
    <3> QED BY <1>3, <3>1, <3>3, <3>4 DEF At1
  <2> QED BY <2>2, <2>3
<1>9. ASSUME NEW a \in Turns, LookForReady(a) \/ LookForBlocked(a)
      PROVE  Idle(t)'
  <2>1. node' = node /\ \A b \in Turns : place'[b] \in {place[b], "done", "starting", "settle"}
    BY <1>9, LookForReadyDoes, LookForBlockedDoes DEF At1
  <2> QED BY <1>3, <1>4, <2>1
<1>10. ASSUME NEW a \in Turns, StartParked(a)
      PROVE  Idle(t)'
  <2>1. /\ node'[t] \in {node[t], "ready"}
        /\ \A b \in Turns : place'[b] \in {place[b], "done", "starting", "begin"}
    BY <1>10, StartParkedDoes DEF Starts
  <2> QED BY <1>3, <1>4, <2>1
<1>11. ASSUME NEW l \in Loops, SettleNode(l)
      PROVE  Idle(t)'
  <2>1. /\ node'[t] \in {node[t], "blocked"}
        /\ \A b \in Turns : place'[b] \in {place[b], "recording", "none", "done"}
    BY <1>11, SettleNodeDoes DEF Moves
  <2> QED BY <1>3, <1>4, <2>1
<1>12. ASSUME NEW l \in Loops, RecordBlocked(l)
      PROVE  Idle(t)'
  <2>1. node' = node /\ \A b \in Turns : place'[b] \in {place[b], "settle", "none", "fence", "done"}
    BY <1>12, RecordDoes DEF Moves
  <2> QED BY <1>3, <1>4, <2>1
<1> QED BY <1>1, <1>5, <1>6, <1>7, <1>8, <1>9, <1>10, <1>11, <1>12, NextCases

\* A walk that is sure stays so while its agenda only shrinks.
LEMMA SureStays ==
  ASSUME TypeOK, Visiting, Resulted, Entered, SavesComing, Next,
         NEW l \in Loops, Sure(l), ToSet(agenda'[l]) \subseteq ToSet(agenda[l])
  PROVE  Sure(l)'
<1>1. ToSet(agenda[l]) \subseteq Tasks
  BY Entries DEF TypeOK
<1> QED BY <1>1, DoomedIdles DEF Sure

LEMMA NextFailuresFollowed ==
  ASSUME TypeOK, Visiting, Resulted, Entered, ParkedWaits, SavesComing, StopLasts,
         FailuresFollowed, Next
  PROVE  FailuresFollowed'
<1> USE Loopers
<1>1. CASE Cancel
  BY <1>1, CancelDoes DEF FailuresFollowed
<1>2. ASSUME NEW t \in Tasks, control' = "open", t \in ToSet(parked'), ~Cancel,
             NEW r \in durable', r[1] \in Deps(t)', r[2] \in Bad \ {"blocked"}
      PROVE  Sought(t, r)'
  <2> USE <1>2
  <2>0. r[1] \in Deps(t) /\ r[2] # "completed" /\ r[2] # "blocked"
    BY DurableGrows DEF Deps, Bad
  <2>1. ASSUME t \in ToSet(parked), control = "open", r \in durable
        PROVE  Sought(t, r)
    BY <2>0, <2>1 DEF FailuresFollowed, Parked
  <2>2. ASSUME NEW a \in Turns, place'[a] \in {"save", "look"}, Task(a) = r[1], result'[a] = r[2]
        PROVE  Sought(t, r)'
    BY <2>2 DEF Sought
  <2>3. ASSUME NEW l \in Loops, Walking(l)', t \in ToSet(Tail(agenda'[l])), Sure(l)'
        PROVE  Sought(t, r)'
    BY <2>3 DEF Sought
  \* the two ways to be sought are kept by a step that leaves them alone
  <2>4. ASSUME Sought(t, r), result' = result,
               \A a \in Turns : place[a] \in {"save", "look"} => place'[a] \in {"save", "look"},
               \A l \in Loops : Walking(l) => Walking(l)' /\ agenda'[l] = agenda[l]
        PROVE  Sought(t, r)'
    <3>1. CASE \E a \in Turns : place[a] \in {"save", "look"} /\ Task(a) = r[1] /\ result[a] = r[2]
      BY <2>2, <2>4, <3>1
    <3>2. CASE \E l \in Loops : Walking(l) /\ t \in ToSet(Tail(agenda[l])) /\ Sure(l)
      <4>1. PICK l \in Loops : Walking(l) /\ t \in ToSet(Tail(agenda[l])) /\ Sure(l)
        BY <3>2
      <4>2. Sure(l)'
        BY <2>4, <4>1, SureStays
      <4> QED BY <2>3, <2>4, <4>1, <4>2
    <3> QED BY <2>4, <3>1, <3>2 DEF Sought
  \* a result that is stored by this step is that of a turn that saves
  <2>5. ASSUME r \in memory, r \notin durable, result' = result,
               \A a \in Turns : place[a] = "save" => place'[a] \in {"save", "look"}
        PROVE  Sought(t, r)'
    BY <2>2, <2>5 DEF SavesComing
  <2>6. CASE Asking
    <3>1. /\ UNCHANGED <<result, agenda, parked, cancel, control>>
          /\ durable' = durable \/ durable' = memory
          /\ call \in {"none", "asked"} \/ call' = call
      BY <2>6, AskDoes
    <3>2. \A a \in Turns : place[a] # "none" => place'[a] = place[a]
      BY <2>6, AskDoes, NextUnasked DEF Entered, Task, TypeOK
    <3>3. \A l \in Loops : Walking(l) => Walking(l)' /\ agenda'[l] = agenda[l]
      BY <3>1, <3>2 DEF Walking, At
    <3> QED BY <2>1, <2>4, <2>5, <3>1, <3>2, <3>3
  <2>7. CASE Admit
    <3>1. /\ next \in Tasks /\ UNCHANGED <<scenario, result, cancel, control>> /\ durable' = memory
          /\ node' = [node EXCEPT ![next] = IF Ready(next) THEN "ready" ELSE "blocked"]
          /\ Keeps(TheCall) /\ call = "asked"
          /\ ToSet(parked') \subseteq ToSet(parked) \cup {next}
      BY <2>7, AdmitDoes DEF Admit
    <3>2. \A a \in Turns : place[a] # "none" => place'[a] = place[a]
      BY <2>7, AdmitDoes, NextUnasked DEF Entered, Task, At1
    <3>3. \A l \in Loops : Walking(l) => Walking(l)' /\ agenda'[l] = agenda[l]
      BY <3>1, <3>2 DEF Walking, At, Keeps
    <3>4. CASE t \in ToSet(parked)
      BY <2>1, <2>4, <2>5, <3>1, <3>2, <3>3, <3>4
    <3>5. CASE t \notin ToSet(parked)
      <4>1. t = next /\ r \in memory
        BY <3>1, <3>5
      <4>2. r[1] \in TerminalDeps(t)
        BY <2>0, <4>1 DEF TerminalDeps, ResultsOf
      <4>3. PICK d \in TerminalDeps(next) :
                 /\ call' = "settle" /\ agenda'[TheCall] # <<>>
                 /\ ToSet(agenda'[TheCall]) = {x \in ToSet(parked) \cup {next} : d \in Deps(x)}
                 /\ ToSet(parked') = (ToSet(parked) \cup {next}) \ {Head(agenda'[TheCall])}
        BY <2>7, <3>5, <4>1, <4>2, AdmitDoes
      <4>4. d \in Deps(next) /\ \E q \in memory : q[1] = d /\ q[2] \in Bad
        BY <4>3 DEF TerminalDeps, ResultsOf
      <4>5. agenda'[TheCall] \in Seq(Tasks)
        <5>1. TypeOK'
          BY <2>7, DispatchTypes DEF DispatchStep
        <5> QED BY <5>1 DEF TypeOK
      <4>6. t \in ToSet(Tail(agenda'[TheCall]))
        BY <4>1, <4>3, <4>4, <4>5, Entries
      <4>7. ASSUME NEW x \in ToSet(agenda'[TheCall])
            PROVE  Doomed(x)' /\ Idle(x)'
        <5>1. d \in Deps(x) /\ (x \in ToSet(parked) \/ x = next)
          BY <4>3, <4>7, <4>4
        <5>2. Doomed(x)'
          BY <3>1, <4>4, <5>1 DEF Doomed, Deps, Bad
        <5>3. x \in Tasks /\ \A a \in Turns : Task(a) = x => place[a] = "none"
          BY <3>1, <5>1, Entries, NextUnasked DEF ParkedWaits, Parked, Entered, TypeOK
        <5>4. node'[x] \in Parkable
          BY <3>1, <5>1, <5>3 DEF ParkedWaits, Parked, Parkable, TypeOK
        <5>5. \A a \in Turns : Task(a) = x => place'[a] \in {"none", "begin"}
          BY <2>7, <5>3, AdmitDoes DEF At1
        <5> QED BY <5>2, <5>4, <5>5 DEF Idle, Working
      <4>8. Sure(TheCall)'
        BY <4>7 DEF Sure
      <4>9. Walking(TheCall)'
        BY <4>3 DEF Walking, At
      <4> QED BY <2>3, <4>6, <4>8, <4>9
    <3> QED BY <3>4, <3>5
  <2>8. CASE LeaderStep \/ Deadline \/ CancelFence
    <3>1. /\ UNCHANGED <<place, result, agenda, durable, parked, call>>
          /\ control = "open"
          /\ cancel' = cancel \/ cancel = "fence"
      BY <2>8, LeaderDoes
    <3>2. \A l \in Loops : Walking(l) => Walking(l)' /\ agenda'[l] = agenda[l]
      BY <3>1 DEF Walking, At
    <3> QED BY <2>1, <2>4, <3>1, <3>2
  <2>9. ASSUME NEW a \in Turns, PlainStep(a)
        PROVE  Sought(t, r)'
    <3>1. PICK p \in Places : StepTo(a, p)
      BY <2>9, PlainDoes DEF Steps
    <3>2. UNCHANGED <<agenda, parked, call, cancel, control>>
      BY <2>9, PlainDoes
    <3>3. At1(a, p) /\ <<place[a], p>> \in Flow /\ Recorded(a, p)
          /\ \A b \in Turns : b # a => result'[b] = result[b]
      BY <3>1 DEF StepTo
    <3>4. place[a] \in {"save", "look"} => p = "look" /\ result' = result
      BY <3>3 DEF Flow, Recorded
    <3>5. \A b \in Turns : place[b] \in {"save", "look"} => place'[b] \in {"save", "look"} /\ result'[b] = result[b]
      BY <3>3, <3>4 DEF At1
    <3>6. \A l \in Loops : Walking(l) => Walking(l)' /\ agenda'[l] = agenda[l]
      BY <3>2, <3>3 DEF Walking, At, At1, Flow
    <3>7. CASE r \in durable
      <4>1. Sought(t, r)
        BY <2>1, <3>2, <3>7
      <4>2. CASE \E b \in Turns : place[b] \in {"save", "look"} /\ Task(b) = r[1] /\ result[b] = r[2]
        BY <2>2, <3>5, <4>2
      <4>3. CASE \E l \in Loops : Walking(l) /\ t \in ToSet(Tail(agenda[l])) /\ Sure(l)
        <5>1. PICK l \in Loops : Walking(l) /\ t \in ToSet(Tail(agenda[l])) /\ Sure(l)
          BY <4>3
        <5>2. Sure(l)'
          BY <3>6, <5>1, SureStays
        <5> QED BY <2>3, <3>6, <5>1, <5>2
      <4> QED BY <4>1, <4>2, <4>3 DEF Sought
    <3>8. CASE r \notin durable
      <4>1. p = "look" /\ r \in memory
        BY <3>3, <3>8 DEF Recorded
      <4>2. result' = result
        BY <3>3, <4>1 DEF Recorded
      <4> QED BY <2>5, <3>5, <3>8, <4>1, <4>2
    <3> QED BY <3>7, <3>8
  <2>10. ASSUME NEW a \in Turns, LookForReady(a)
         PROVE  Sought(t, r)'
    <3>1. /\ Keeps(a) /\ UNCHANGED <<result, durable, call, cancel, control>>
          /\ t \in ToSet(parked) /\ \E p : At1(a, p)
      BY <2>10, LookForReadyDoes DEF Fixed
    <3>2. place[a] = "look" /\ result[a] = "completed"
      BY <2>10 DEF LookForReady
    <3>3. Sought(t, r)
      BY <2>1, <3>1
    <3>4. \A l \in Loops : Walking(l) => Walking(l)' /\ agenda'[l] = agenda[l]
      BY <3>1, <3>2 DEF Walking, At, At1, Keeps
    <3>5. CASE \E b \in Turns : place[b] \in {"save", "look"} /\ Task(b) = r[1] /\ result[b] = r[2]
      BY <2>0, <2>2, <3>1, <3>2, <3>5 DEF At1
    <3>6. CASE \E l \in Loops : Walking(l) /\ t \in ToSet(Tail(agenda[l])) /\ Sure(l)
      <4>1. PICK l \in Loops : Walking(l) /\ t \in ToSet(Tail(agenda[l])) /\ Sure(l)
        BY <3>6
      <4>2. Sure(l)'
        BY <3>4, <4>1, SureStays
      <4> QED BY <2>3, <3>4, <4>1, <4>2
    <3> QED BY <3>3, <3>5, <3>6 DEF Sought
  <2>11. ASSUME NEW a \in Turns, StartParked(a)
         PROVE  Sought(t, r)'
    <3>1. PICK u \in Turns : Starts(a, u)
      BY <2>11, StartParkedDoes
    <3>2. /\ Keeps(a) /\ UNCHANGED <<result, durable, call, cancel, control>>
          /\ t \in ToSet(parked) /\ place[u] = "none"
          /\ \A b \in Turns : b # a /\ b # u => place'[b] = place[b]
      BY <3>1 DEF Fixed, Starts
    <3>3. place[a] = "starting"
      BY <2>11 DEF StartParked
    <3>4. \A l \in Loops : Walking(l) => Walking(l)' /\ agenda'[l] = agenda[l]
      BY <3>2, <3>3 DEF Walking, At, Keeps
    <3> QED BY <2>1, <2>4, <3>2, <3>3, <3>4
  <2>12. ASSUME NEW a \in Turns, LookForBlocked(a)
         PROVE  Sought(t, r)'
    <3>1. /\ Fixed /\ UNCHANGED <<next, node, result>> /\ Keeps(a) /\ agenda'[a] \in Seq(Tasks)
          /\ ToSet(agenda'[a]) = {x \in ToSet(parked) : Task(a) \in Deps(x)}
          /\ \/ At1(a, "done") /\ agenda'[a] = <<>> /\ parked' = parked
             \/ /\ At1(a, "settle") /\ agenda'[a] # <<>>
                /\ ToSet(parked') = ToSet(parked) \ {Head(agenda'[a])}
      BY <2>12, LookForBlockedDoes
    <3>2. place[a] = "look" /\ result[a] # "completed"
      BY <2>12 DEF LookForBlocked
    <3>3. t \in ToSet(parked) /\ UNCHANGED <<result, durable, call, cancel, control>>
      BY <3>1 DEF Fixed
    <3>4. Sought(t, r)
      BY <2>1, <3>3
    <3>5. \A l \in Loops : Walking(l) => Walking(l)' /\ agenda'[l] = agenda[l]
      BY <3>1, <3>2, <3>3 DEF Walking, At, At1, Keeps
    <3>6. CASE Task(a) = r[1]
      <4>1. t \in ToSet(agenda'[a])
        BY <2>0, <3>1, <3>3, <3>6
      <4>2. /\ At1(a, "settle") /\ agenda'[a] # <<>>
            /\ ToSet(parked') = ToSet(parked) \ {Head(agenda'[a])}
        BY <3>1, <4>1, Entries
      <4>3. t \in ToSet(Tail(agenda'[a]))
        BY <3>1, <4>1, <4>2, Entries
      <4>4. ASSUME NEW x \in ToSet(agenda'[a])
            PROVE  Doomed(x)' /\ Idle(x)'
        <5>1. x \in ToSet(parked) /\ r[1] \in Deps(x)
          BY <3>1, <3>6, <4>4
        <5>2. Doomed(x)'
          BY <2>0, <3>1, <5>1 DEF Doomed, Deps, Fixed
        <5>3. x \in Tasks
          BY <3>1, <4>4, Entries
        <5>4. node'[x] \in Parkable /\ \A b \in Turns : Task(b) = x => place[b] = "none"
          BY <3>1, <5>1, <5>3 DEF ParkedWaits, Parked
        <5>5. \A b \in Turns : Task(b) = x => place'[b] \in {"none", "settle"}
          BY <4>2, <5>4 DEF At1
        <5> QED BY <5>2, <5>4, <5>5 DEF Idle, Working
      <4>5. Sure(a)' /\ Walking(a)'
        BY <4>2, <4>4 DEF Sure, Walking, At, At1
      <4> QED BY <2>3, <4>3, <4>5
    <3>7. CASE \E b \in Turns : b # a /\ place[b] \in {"save", "look"} /\ Task(b) = r[1] /\ result[b] = r[2]
      BY <2>2, <3>1, <3>7 DEF At1
    <3>8. CASE \E l \in Loops : Walking(l) /\ t \in ToSet(Tail(agenda[l])) /\ Sure(l)
      <4>1. PICK l \in Loops : Walking(l) /\ t \in ToSet(Tail(agenda[l])) /\ Sure(l)
        BY <3>8
      <4>2. Sure(l)'
        BY <3>5, <4>1, SureStays
      <4> QED BY <2>3, <3>5, <4>1, <4>2
    <3> QED BY <3>4, <3>6, <3>7, <3>8 DEF Sought
  <2>13. ASSUME NEW k \in Loops, SettleNode(k)
         PROVE  Sought(t, r)'
    <3>1. /\ Head(agenda[k]) \in ToSet(agenda[k]) /\ At(k) = "settle"
          /\ UNCHANGED <<result, agenda, durable, parked, control>>
      BY <2>13, SettleNodeDoes
    <3>2. PICK p \in {"recording", "none", "done"} :
            Moves(k, p) /\ (p = "recording" <=> node[Head(agenda[k])] \in Parkable)
      BY <2>13, SettleNodeDoes
    <3>3. Sought(t, r)
      BY <2>1, <3>1
    <3>4. CASE \E b \in Turns : place[b] \in {"save", "look"} /\ Task(b) = r[1] /\ result[b] = r[2]
      BY <2>2, <3>1, <3>2, <3>4 DEF Moves, At
    <3>5. CASE \E l \in Loops : Walking(l) /\ t \in ToSet(Tail(agenda[l])) /\ Sure(l)
      <4>1. PICK l \in Loops : Walking(l) /\ t \in ToSet(Tail(agenda[l])) /\ Sure(l)
        BY <3>5
      <4>2. Sure(l)'
        BY <3>1, <4>1, SureStays
      <4>3. l = k => p = "recording"
        BY <3>1, <3>2, <4>1 DEF Sure, Idle
      <4>4. Walking(l)'
        BY <3>2, <4>1, <4>3 DEF Walking, Moves
      <4> QED BY <2>3, <3>1, <4>1, <4>2, <4>4
    <3> QED BY <3>3, <3>4, <3>5 DEF Sought
  <2>14. ASSUME NEW k \in Loops, RecordBlocked(k)
         PROVE  Sought(t, r)'
    <3>1. /\ agenda[k] \in Seq(Tasks) /\ agenda[k] # <<>> /\ At(k) = "recording"
          /\ UNCHANGED <<result, control>> /\ Keeps(k) /\ agenda'[k] = Tail(agenda[k])
          /\ \/ agenda'[k] = <<>> /\ parked' = parked
             \/ agenda'[k] # <<>> /\ ToSet(parked') = ToSet(parked) \ {Head(agenda'[k])}
      BY <2>14, RecordDoes
    <3>2. PICK p \in {"settle", "none", "fence", "done"} :
            Moves(k, p) /\ (p = "settle" <=> agenda'[k] # <<>>)
      BY <2>14, RecordDoes
    <3>3. r \in durable /\ t \in ToSet(parked)
      BY <2>0, <2>14, <3>1, RecordDoes
    <3>4. Sought(t, r)
      BY <2>1, <3>1, <3>3
    <3>5. CASE \E b \in Turns : place[b] \in {"save", "look"} /\ Task(b) = r[1] /\ result[b] = r[2]
      BY <2>2, <3>1, <3>2, <3>5 DEF Moves, At
    <3>6. CASE \E l \in Loops : Walking(l) /\ t \in ToSet(Tail(agenda[l])) /\ Sure(l)
      <4>1. PICK l \in Loops : Walking(l) /\ t \in ToSet(Tail(agenda[l])) /\ Sure(l)
        BY <3>6
      <4>2. ToSet(agenda'[l]) \subseteq ToSet(agenda[l])
        BY <3>1, Entries DEF Keeps
      <4>3. Sure(l)'
        BY <4>1, <4>2, SureStays
      <4>4. CASE l # k
        BY <2>3, <3>1, <3>2, <4>1, <4>3, <4>4 DEF Walking, Moves, Keeps
      <4>5. CASE l = k
        <5>1. t \in ToSet(agenda'[k]) /\ agenda'[k] \in Seq(Tasks)
          BY <3>1, <4>1, <4>5, Entries
        <5>2. agenda'[k] # <<>> /\ ToSet(parked') = ToSet(parked) \ {Head(agenda'[k])}
          <6>1. agenda'[k] # <<>>
            BY <5>1, Entries
          <6> QED BY <3>1, <6>1
        <5>3. t \in ToSet(Tail(agenda'[k]))
          BY <5>1, <5>2, Entries
        <5>4. Walking(k)'
          BY <3>2, <5>2 DEF Walking, Moves
        <5> QED BY <2>3, <4>3, <4>5, <5>3, <5>4
      <4> QED BY <4>4, <4>5
    <3> QED BY <3>4, <3>5, <3>6 DEF Sought
  <2> QED BY <2>6, <2>7, <2>8, <2>9, <2>10, <2>11, <2>12, <2>13, <2>14, NextCases
<1> QED BY <1>1, <1>2 DEF FailuresFollowed, Parked

(***************************************************************************)
(* The nodes: what is completed stays completed.                           *)
(***************************************************************************)
Settling == {"settling", "integrating", "repairing"}

Completes(a) ==
  /\ \A x \in Tasks : node[x] = "completed" => node'[x] = "completed"
  /\ \A x \in Tasks : node'[x] = "completed" /\ node[x] # "completed" =>
       a = <<x, 1>> /\ place'[a] = "push" /\ Project
  /\ place'[a] \in Settling => a[2] = 1
  /\ place'[a] \in Settling \cup {"heal"} => Git(Task(a))

LEMMA PlainCompletes ==
  ASSUME TypeOK, Resulted, CompletedOnce, NEW a \in Turns, PlainStep(a)
  PROVE  Completes(a)
<1> USE Loopers
<1>0. Task(a) \in Tasks
  OBVIOUS
<1>1. ASSUME NEW p, place' = [place EXCEPT ![a] = p]
      PROVE  place'[a] = p
  BY <1>1 DEF TypeOK
<1>2. ASSUME NEW s, node' = [node EXCEPT ![Task(a)] = s]
      PROVE  node'[Task(a)] = s /\ \A x \in Tasks : x # Task(a) => node'[x] = node[x]
  BY <1>2 DEF TypeOK
<1>3. place[a] \in Settling => a = <<Task(a), 1>> /\ a[2] = 1
  BY DEF CompletedOnce, Settling
<1>4. place[a] \in Settling \cup {"heal"} => Git(Task(a))
  BY DEF CompletedOnce, Settling
<1>5. Git(Task(a)) => Project
  BY DEF Git
<1>6. place[a] \in Settling => node[Task(a)] # "completed"
  BY <1>3 DEF CompletedOnce, Settling, Later
<1>7. ~Project => node[Task(a)] # "completed"
  BY DEF CompletedOnce
<1>8. CASE BeginTurn(a)
  <2>1. node' = node \/ (node[Task(a)] # "completed" /\ node' = [node EXCEPT ![Task(a)] = "running"])
    BY <1>8 DEF BeginTurn, StartsWork
  <2>2. place'[a] \in {"running", "push"}
    BY <1>1, <1>8 DEF BeginTurn, StartsWork
  <2> QED BY <1>2, <2>1, <2>2 DEF Completes, Settling
<1>9. CASE WaitGivesUp(a)
  <2>1. node' = node /\ place'[a] = "push"
    BY <1>1, <1>9 DEF WaitGivesUp
  <2> QED BY <2>1 DEF Completes, Settling
<1>10. CASE Aborted(a)
  <2>1. node' = node /\ place'[a] = "done"
    BY <1>1, <1>10 DEF Aborted, EndTurn
  <2> QED BY <2>1 DEF Completes, Settling
<1>11. CASE WorkerReturns(a)
  <2>1. node' = node \/ (~Project /\ node' = [node EXCEPT ![Task(a)] = "failed"])
    BY <1>11 DEF WorkerReturns
  <2>2. \/ Git(Task(a)) /\ a[2] = 1 /\ place'[a] = "settling"
        \/ place'[a] = "push"
        \/ Git(Task(a)) /\ place'[a] = "heal"
    BY <1>1, <1>11 DEF WorkerReturns
  <2> QED BY <1>2, <1>7, <2>1, <2>2 DEF Completes, Settling
<1>12. CASE EnterSettlement(a)
  <2>1. node' = node \/ node' = [node EXCEPT ![Task(a)] = "integrating"]
    BY <1>12 DEF EnterSettlement
  <2>2. place'[a] \in {"heal", "integrating"} /\ place[a] = "settling"
    BY <1>1, <1>12 DEF EnterSettlement
  <2> QED BY <1>2, <1>3, <1>4, <1>6, <2>1, <2>2 DEF Completes, Settling
<1>13. CASE SettleContribution(a)
  <2>1. place[a] = "integrating"
    BY <1>13 DEF SettleContribution
  <2>2. \/ place'[a] \in {"heal", "done"} /\ (node' = node \/ \E s \in {"failed", "cancelled"} : node' = [node EXCEPT ![Task(a)] = s])
        \/ place'[a] = "push" /\ (node' = node \/ \E s \in {"completed"} : node' = [node EXCEPT ![Task(a)] = s])
    BY <1>1, <1>13 DEF SettleContribution, EndTurn
  <2> QED BY <1>2, <1>3, <1>4, <1>5, <1>6, <2>1, <2>2 DEF Completes, Settling
<1>14. CASE Heal(a)
  <2> DEFINE failed == IF node[Task(a)] \in {"completed", "cancelled", "repairing", "integrating"}
                       THEN node[Task(a)] ELSE "failed"
             after  == [x \in Tasks |-> IF x = Task(a) THEN failed
                                        ELSE IF x \in Dependents(Task(a)) THEN "blocked" ELSE node[x]]
  <2>1. \A x \in Tasks : after[x] = "completed" <=> node[x] = "completed"
    BY DEF Dependents
  <2>2. DOMAIN after = Tasks /\ place[a] = "heal"
    BY <1>14 DEF Heal
  <2> HIDE DEF after
  <2>3. CASE /\ Claimable(Task(a)) /\ a[2] = 1
             /\ node' = [after EXCEPT ![Task(a)] = "repairing"]
             /\ place' = [place EXCEPT ![a] = "repairing"]
    <3>1. node[Task(a)] # "completed"
      BY <2>3 DEF Claimable
    <3>2. \A x \in Tasks : node'[x] = "completed" <=> node[x] = "completed"
      BY <2>1, <2>2, <2>3, <3>1
    <3> QED BY <1>1, <1>4, <2>2, <2>3, <3>2 DEF Completes, Settling
  <2>4. CASE /\ node' = IF Healing THEN after ELSE node
             /\ place' = [place EXCEPT ![a] = "push"]
    <3>1. \A x \in Tasks : node'[x] = "completed" <=> node[x] = "completed"
      BY <2>1, <2>4
    <3> QED BY <1>1, <2>4, <3>1 DEF Completes, Settling
  <2> QED BY <1>14, <2>3, <2>4 DEF Heal, after
<1>15. CASE FinishRepair(a)
  <2>1. place[a] = "repairing" /\ place'[a] = "push"
    BY <1>1, <1>15 DEF FinishRepair
  <2>2. PICK s \in {"completed", "failed"} : node' = [node EXCEPT ![Task(a)] = s]
    BY <1>15 DEF FinishRepair
  <2> QED BY <1>2, <1>3, <1>4, <1>5, <1>6, <2>1, <2>2 DEF Completes, Settling
<1>16. CASE Push(a) \/ Save(a)
  <2>1. node' = node /\ place'[a] \in {"save", "look"}
    BY <1>1, <1>16 DEF Push, Save
  <2> QED BY <2>1 DEF Completes, Settling
<1> QED BY <1>8, <1>9, <1>10, <1>11, <1>12, <1>13, <1>14, <1>15, <1>16 DEF PlainStep, TaskStep

LEMMA FlowOnwards ==
  ASSUME NEW x, NEW y, <<x, y>> \in Flow, x \in Later
  PROVE  y \in Later
BY DEF Flow, Later

\* What the other steps do to the nodes and the places.
LEMMA OthersComplete ==
  ASSUME TypeOK, Visiting, Resulted, Entered, Next, \A a \in Turns : ~PlainStep(a)
  PROVE  /\ \A x \in Tasks : node'[x] = "completed" <=> node[x] = "completed"
         /\ \A b \in Turns : place'[b] \in {place[b], "begin"} \cup Later
         /\ \A b \in Turns : place[b] \in Later => place'[b] \in Later
         /\ scenario' = scenario
<1> USE Loopers
<1>0. {"done", "starting", "settle", "recording"} \subseteq Later /\ "none" \notin Later
  BY DEF Later
<1>1. CASE Asking
  <2>1. /\ node' = node /\ scenario' = scenario
        /\ \A b \in Turns : place'[b] = place[b] \/ (place[b] = "none" /\ place'[b] = "begin")
    <3>1. next \in Tasks => place[<<next, 1>>] = "none"
      BY NextUnasked DEF Entered, Task
    <3> QED BY <1>1, <3>1, AskDoes DEF TypeOK
  <2> QED BY <1>0, <2>1
<1>2. CASE Admit
  <2>1. /\ scenario' = scenario /\ next \in Tasks
        /\ node' = [node EXCEPT ![next] = IF Ready(next) THEN "ready" ELSE "blocked"]
        /\ \A b \in Turns : place'[b] = place[b] \/ (place[b] = "none" /\ place'[b] = "begin")
    BY <1>2, AdmitDoes, NextUnasked DEF Entered, Task, At1
  <2>2. node[next] = "none"
    BY <2>1, NextUnasked DEF Entered
  <2> QED BY <1>0, <2>1, <2>2 DEF TypeOK
<1>3. CASE LeaderStep \/ Deadline \/ CancelFence \/ Cancel
  BY <1>3, LeaderDoes, CancelDoes
<1>4. ASSUME NEW a \in Turns, LookForReady(a) \/ LookForBlocked(a)
      PROVE  /\ node' = node /\ scenario' = scenario
             /\ \A b \in Turns : place'[b] = place[b] \/ place'[b] \in Later
  BY <1>0, <1>4, LookForReadyDoes, LookForBlockedDoes DEF At1, Fixed
<1>5. ASSUME NEW a \in Turns, StartParked(a)
      PROVE  /\ \A x \in Tasks : node'[x] = "completed" <=> node[x] = "completed"
             /\ \A b \in Turns : \/ place'[b] = place[b] \/ place'[b] \in Later
                                 \/ place[b] = "none" /\ place'[b] = "begin"
             /\ scenario' = scenario
  <2>1. PICK u \in Turns : Starts(a, u)
    BY <1>5, StartParkedDoes
  <2>2. scenario' = scenario
    BY <2>1 DEF Starts, Fixed
  <2>3. \A x \in Tasks : node'[x] = "completed" <=> node[x] = "completed"
    BY <2>1 DEF Starts
  <2> QED BY <1>0, <2>1, <2>2, <2>3 DEF Starts
<1>6. ASSUME NEW l \in Loops, SettleNode(l)
      PROVE  /\ \A x \in Tasks : node'[x] = "completed" <=> node[x] = "completed"
             /\ \A b \in Turns : place'[b] = place[b] \/ place'[b] \in Later
             /\ scenario' = scenario
  <2>1. \E p \in {"recording", "none", "done"} : Moves(l, p) /\ (l \in Turns => p # "none")
    BY <1>6, SettleNodeDoes
  <2> QED BY <1>0, <1>6, <2>1, SettleNodeDoes DEF Moves, Parkable
<1>7. ASSUME NEW l \in Loops, RecordBlocked(l)
      PROVE  /\ node' = node /\ scenario' = scenario
             /\ \A b \in Turns : place'[b] = place[b] \/ place'[b] \in Later
  <2>1. \E p : Moves(l, p) /\ (l \in Turns => p \in {"settle", "done"})
    BY <1>7, RecordDoes
  <2> QED BY <1>0, <1>7, <2>1, RecordDoes DEF Moves
<1> QED BY <1>0, <1>1, <1>2, <1>3, <1>4, <1>5, <1>6, <1>7, NextCases

LEMMA NextCompletedOnce ==
  ASSUME TypeOK, Visiting, Resulted, Entered, CompletedOnce, Next
  PROVE  /\ CompletedOnce'
         /\ \A x \in Tasks : node[x] = "completed" => node'[x] = "completed"
<1> USE Loopers
<1>1. ASSUME NEW a \in Turns, PlainStep(a)
      PROVE  /\ CompletedOnce'
             /\ \A x \in Tasks : node[x] = "completed" => node'[x] = "completed"
  <2>1. PICK p \in Places : StepTo(a, p)
    BY <1>1, PlainDoes DEF Steps
  <2>2. scenario' = scenario
    BY <1>1, PlainDoes
  <2>3. Completes(a)
    BY <1>1, PlainCompletes
  <2>4. At1(a, p) /\ <<place[a], p>> \in Flow
    BY <2>1 DEF StepTo
  <2>5. \A t \in Tasks : place[<<t, 1>>] \in Later => place'[<<t, 1>>] \in Later
    BY <2>4, FlowOnwards DEF At1
  <2>6. \A t \in Tasks : node'[t] = "completed" => Project /\ place'[<<t, 1>>] \in Later
    <3> SUFFICES ASSUME NEW t \in Tasks, node'[t] = "completed"
                 PROVE  Project /\ place'[<<t, 1>>] \in Later
      OBVIOUS
    <3>1. CASE node[t] = "completed"
      BY <2>5, <3>1 DEF CompletedOnce
    <3>2. CASE node[t] # "completed"
      BY <2>3, <3>2 DEF Completes, Later
    <3> QED BY <3>1, <3>2
  <2>7. \A b \in Turns : place'[b] \in Settling => b[2] = 1
    BY <2>3, <2>4 DEF Completes, CompletedOnce, At1, Settling
  <2>8. \A b \in Turns : place'[b] \in Settling \cup {"heal"} => Git(Task(b))
    BY <2>3, <2>4 DEF Completes, CompletedOnce, At1, Settling
  <2>9. Project' = Project /\ \A t : Git(t)' = Git(t)
    BY <2>2 DEF Git, Project
  <2>10. CompletedOnce'
    BY <2>6, <2>7, <2>8, <2>9 DEF CompletedOnce, Settling
  <2> QED BY <2>3, <2>10 DEF Completes
<1>2. CASE \A a \in Turns : ~PlainStep(a)
  <2>1. /\ \A x \in Tasks : node'[x] = "completed" <=> node[x] = "completed"
        /\ \A b \in Turns : place'[b] \in {place[b], "begin"} \cup Later
        /\ \A b \in Turns : place[b] \in Later => place'[b] \in Later
        /\ scenario' = scenario
    BY <1>2, OthersComplete
  <2>2. Project' = Project /\ \A t : Git(t)' = Git(t)
    BY <2>1 DEF Git, Project
  <2>3. \A b \in Turns : place'[b] \in Settling \cup {"heal"} => place'[b] = place[b]
    BY <2>1 DEF Settling, Later
  <2>4. \A t \in Tasks : node'[t] = "completed" => Project /\ place'[<<t, 1>>] \in Later
    BY <2>1 DEF CompletedOnce
  <2>5. \A b \in Turns : place'[b] \in Settling => b[2] = 1
    BY <2>3 DEF CompletedOnce, Settling
  <2>6. \A b \in Turns : place'[b] \in Settling \cup {"heal"} => Git(Task(b))
    BY <2>3 DEF CompletedOnce, Settling
  <2>7. CompletedOnce'
    BY <2>2, <2>4, <2>5, <2>6 DEF CompletedOnce, Settling
  <2> QED BY <2>1, <2>7
<1> QED BY <1>1, <1>2

\* A turn that is to begin, and a start about to be made, have their producers complete.
LEMMA NextBeginsReady ==
  ASSUME TypeOK, Visiting, Resulted, Entered, CompletedOnce, BeginsReady, Next
  PROVE  BeginsReady'
<1> USE Loopers
<1>0. /\ scenario' = scenario
      /\ \A x \in Tasks : node[x] = "completed" => node'[x] = "completed"
  <2>1. \A a \in Turns : PlainStep(a) => scenario' = scenario
    BY PlainDoes
  <2> QED BY <2>1, OthersComplete, NextCompletedOnce
<1>1. \A t \in Tasks : Ready(t) => Ready(t)'
  <2> SUFFICES ASSUME NEW t \in Tasks, Ready(t)
               PROVE  Ready(t)'
    OBVIOUS
  <2>1. Deps(t) \subseteq Tasks /\ Deps(t)' = Deps(t)
    BY <1>0 DEF TypeOK, Shapes, Deps
  <2> QED BY <1>0, <2>1 DEF Ready, Incomplete
<1>2. Healing' = Healing
  BY <1>0 DEF Healing
<1>3. \A a \in Turns : place[a] = "starting" => Head(agenda[a]) \in Tasks
  BY Entries DEF Visiting, TypeOK
\* a step after which nothing begins, and no start is about to be made, that was not before
<1>4. ASSUME \A a \in Turns : Healing /\ place'[a] = "begin" => place[a] = "begin" \/ Ready(Task(a)),
             \A a \in Turns : place'[a] = "starting" =>
               \/ place[a] = "starting" /\ agenda'[a] = agenda[a]
               \/ Head(agenda'[a]) \in Tasks /\ Ready(Head(agenda'[a]))
      PROVE  BeginsReady'
  <2>1. \A a \in Turns : Healing /\ place'[a] = "begin" => Ready(Task(a))'
    BY <1>1, <1>4 DEF BeginsReady
  <2>2. \A a \in Turns : place'[a] = "starting" => Ready(Head(agenda[a]))'
    <3> SUFFICES ASSUME NEW a \in Turns, place'[a] = "starting"
                 PROVE  Ready(Head(agenda[a]))'
      OBVIOUS
    <3>1. PICK t \in Tasks : t = Head(agenda'[a]) /\ Ready(t)
      BY <1>3, <1>4 DEF BeginsReady
    <3>2. Ready(t)'
      BY <1>1, <3>1
    <3> QED BY <3>1, <3>2 DEF Ready, Incomplete, Deps
  <2> QED BY <1>2, <2>1, <2>2 DEF BeginsReady
<1>5. CASE Asking
  <2>1. agenda' = agenda /\ (Healing => place' = place)
        /\ \A a \in Turns : place'[a] \in {place[a], "begin"}
    BY <1>5, AskDoes DEF TypeOK
  <2> QED BY <1>4, <2>1
<1>6. CASE Admit
  <2>1. Keeps(TheCall) /\ IF Ready(next) THEN At1(<<next, 1>>, "begin") ELSE place' = place
    BY <1>6, AdmitDoes
  <2>2. \A a \in Turns : place'[a] = "begin" => place[a] = "begin" \/ Ready(Task(a))
    BY <2>1 DEF At1, Task
  <2>3. \A a \in Turns : place'[a] = "starting" => place[a] = "starting" /\ agenda'[a] = agenda[a]
    BY <2>1 DEF At1, Keeps
  <2> QED BY <1>4, <2>2, <2>3
<1>7. CASE LeaderStep \/ Deadline \/ CancelFence
  <2>1. place' = place /\ agenda' = agenda
    BY <1>7, LeaderDoes
  <2> QED BY <1>4, <2>1
<1>8. CASE Cancel
  <2>1. place' = place /\ Keeps(TheCancel)
    BY <1>8, CancelDoes
  <2> QED BY <1>4, <2>1 DEF Keeps
<1>9. ASSUME NEW a \in Turns, PlainStep(a)
      PROVE  BeginsReady'
  <2>1. PICK p \in Places : At1(a, p) /\ <<place[a], p>> \in Flow
    BY <1>9, PlainDoes DEF Steps, StepTo
  <2>2. agenda' = agenda /\ p \notin {"begin", "starting"}
    BY <1>9, <2>1, PlainDoes DEF Flow
  <2> QED BY <1>4, <2>1, <2>2 DEF At1
<1>10. ASSUME NEW a \in Turns, LookForReady(a)
       PROVE  BeginsReady'
  <2>1. /\ Keeps(a)
        /\ \/ At1(a, "done")
           \/ /\ At1(a, "starting") /\ agenda'[a] # <<>> /\ Ready(Head(agenda'[a]))
              /\ ToSet(agenda'[a]) \subseteq ToSet(parked)
    BY <1>10, LookForReadyDoes
  <2>2. agenda'[a] \in Seq(Tasks)
    <3>1. TypeOK'
      BY <1>10, TurnTypes DEF TurnStep
    <3> QED BY <3>1 DEF TypeOK
  <2>3. agenda'[a] # <<>> => Head(agenda'[a]) \in Tasks
    BY <2>2, Entries
  <2> QED BY <1>4, <2>1, <2>3 DEF At1, Keeps
<1>11. ASSUME NEW a \in Turns, StartParked(a)
       PROVE  BeginsReady'
  <2>1. PICK u \in Turns : Starts(a, u)
    BY <1>11, StartParkedDoes
  <2>2. Ready(Task(u))
    BY <1>11, <2>1 DEF Starts, StartParked, BeginsReady
  <2>3. agenda'[a] \in Seq(Tasks)
    <3>1. TypeOK'
      BY <1>11, TurnTypes DEF TurnStep
    <3> QED BY <3>1 DEF TypeOK
  <2>4. agenda'[a] # <<>> => Head(agenda'[a]) \in Tasks /\ Ready(Head(agenda'[a]))
    BY <2>1, <2>3, Entries DEF Starts
  <2>5. /\ \A b \in Turns : place'[b] = "begin" => b = u \/ place[b] = "begin"
        /\ \A b \in Turns : place'[b] = "starting" =>
             \/ b = a /\ agenda'[a] # <<>>
             \/ place[b] = "starting" /\ agenda'[b] = agenda[b]
    BY <2>1 DEF Starts, Keeps
  <2> QED BY <1>4, <2>2, <2>4, <2>5
<1>12. ASSUME NEW a \in Turns, LookForBlocked(a)
       PROVE  BeginsReady'
  <2>1. Keeps(a) /\ (At1(a, "done") \/ At1(a, "settle"))
    BY <1>12, LookForBlockedDoes
  <2> QED BY <1>4, <2>1 DEF At1, Keeps
<1>13. ASSUME NEW l \in Loops, SettleNode(l)
       PROVE  BeginsReady'
  <2>1. agenda' = agenda /\ \E p \in {"recording", "none", "done"} : Moves(l, p)
    BY <1>13, SettleNodeDoes
  <2> QED BY <1>4, <2>1 DEF Moves
<1>14. ASSUME NEW l \in Loops, RecordBlocked(l)
       PROVE  BeginsReady'
  <2>1. Keeps(l) /\ \E p \in {"settle", "none", "fence", "done"} : Moves(l, p)
    BY <1>14, RecordDoes
  <2> QED BY <1>4, <2>1 DEF Moves, Keeps
<1> QED BY <1>5, <1>6, <1>7, <1>8, <1>9, <1>10, <1>11, <1>12, <1>13, <1>14, NextCases

(***************************************************************************)
(* The theorems.                                                           *)
(***************************************************************************)
Inv == /\ TypeOK /\ Entered /\ Visiting /\ Resulted /\ ParkedWaits /\ SavesComing
       /\ StopLasts /\ FailuresFollowed /\ CompletedOnce /\ BeginsReady

LEMMA InitInv ==
  ASSUME NEW start \in {"turn", "ended"}, Fresh(start)
  PROVE  Inv
<1> USE Loopers
<1>1. TypeOK /\ Entered /\ Visiting /\ Resulted
  BY InitTypeOK, InitEntered
<1>2. ToSet(parked) = {} /\ durable = {} /\ memory = {} /\ cancel = "none"
  BY DEF Fresh, ToSet
<1>3. ParkedWaits /\ SavesComing /\ StopLasts /\ FailuresFollowed
  BY <1>2 DEF ParkedWaits, Parked, SavesComing, StopLasts, FailuresFollowed
<1>4. CompletedOnce /\ BeginsReady
  BY DEF Fresh, CompletedOnce, BeginsReady
<1> QED BY <1>1, <1>3, <1>4 DEF Inv

LEMMA NextTypes ==
  ASSUME TypeOK, Entered, Visiting, Resulted, Next
  PROVE  TypeOK'
BY DispatchTypes, LeaderTypes, TurnTypes, LoopTypes DEF Next

LEMMA NextInv == Inv /\ [Next]_vars => Inv'
<1> SUFFICES ASSUME Inv, [Next]_vars PROVE Inv'
  OBVIOUS
<1>1. CASE Next
  BY <1>1, NextTypes, NextEntered, NextVisiting, NextResulted, NextParkedWaits, NextSavesComing,
     NextStopLasts, NextFailuresFollowed, NextCompletedOnce, NextBeginsReady DEF Inv
<1>2. CASE UNCHANGED vars
  <2>1. TypeOK'
    BY <1>2 DEF Inv, vars, TypeOK
  <2>2. (Entered /\ Visiting /\ Resulted)'
    BY <1>2 DEF Inv, vars, Entered, Asked, Healing, Visiting, Walking, At, Resulted
  <2>3. (ParkedWaits /\ SavesComing /\ StopLasts)'
    BY <1>2 DEF Inv, vars, ParkedWaits, Parked, SavesComing, StopLasts
  <2>4. FailuresFollowed'
    <3>1. \A l \in Loops : (Walking(l)' = Walking(l)) /\ (Sure(l)' = Sure(l))
      BY <1>2 DEF vars, Walking, At, Sure, Doomed, Idle, Deps
    <3>2. \A t, r : Sought(t, r) => Sought(t, r)'
      BY <1>2, <3>1 DEF vars, Sought
    <3> QED BY <1>2, <3>2 DEF Inv, vars, FailuresFollowed, Parked, Deps
  <2>5. (CompletedOnce /\ BeginsReady)'
    BY <1>2 DEF Inv, vars, CompletedOnce, BeginsReady, Project, Git, Healing, Ready, Incomplete, Deps
  <2> QED BY <2>1, <2>2, <2>3, <2>4, <2>5 DEF Inv
<1> QED BY <1>1, <1>2 DEF Next

(***************************************************************************)
(* PlannedRun.                                                             *)
(***************************************************************************)

\* The library's operators are the same in PlannedRun.
LEMMA Counts ==
  ASSUME NEW S
  PROVE  P!Cardinality(S) = Cardinality(S) /\ P!Range(S) = Range(S)
BY DEF P!Cardinality, Cardinality, P!IsFiniteSet, IsFiniteSet, P!Range, Range

LEMMA PlanKept ==
  ASSUME NEW T, NEW s \in Seq(T), NEW S
  PROVE  /\ P!Kept(s, S) \in Seq(T)
         /\ Range(P!Kept(s, S)) = Range(s) \cap S
         /\ NoRepeats(s) => NoRepeats(P!Kept(s, S))
<1>1. P!Kept(s, S) = Kept(s, S)
  BY DEF P!Kept, Kept
<1> QED BY <1>1, KeptIsSelection DEF Range, ToSet

(***************************************************************************)
(* Plans and their levels.                                                 *)
(***************************************************************************)
Layers(g, p, m) ==
  g = [k \in 0 .. m |->
         IF k = 0 THEN {} ELSE {t \in P!Ids(p) : P!Known(p, t) \subseteq g[k - 1]}]

LEMMA LayersExist ==
  ASSUME NEW p, NEW n \in Nat
  PROVE  \E g : Layers(g, p, n)
<1> DEFINE Missing == {m \in Nat : ~ \E g : Layers(g, p, m)}
<1>1. ASSUME NEW m \in Missing
      PROVE  m # 0 /\ m - 1 \in Missing
  <2>1. m # 0
    <3>1. Layers([k \in 0 .. 0 |-> {}], p, 0)
      BY DEF Layers
    <3> QED BY <3>1
  <2>2. ASSUME NEW g, Layers(g, p, m - 1)
        PROVE  FALSE
    <3> DEFINE last == {t \in P!Ids(p) : P!Known(p, t) \subseteq g[m - 1]}
               h    == [k \in 0 .. m |-> IF k = m THEN last ELSE g[k]]
               Of(f, k) == IF k = 0 THEN {} ELSE {t \in P!Ids(p) : P!Known(p, t) \subseteq f[k - 1]}
    <3>1. \A k \in 0 .. m - 1 : h[k] = g[k]
      BY <2>1
    <3>2. \A k \in 0 .. m - 1 : g[k] = Of(g, k)
      BY <2>2, <2>1 DEF Layers
    <3>3. \A k \in 0 .. m : h[k] = Of(h, k)
      <4> TAKE k \in 0 .. m
      <4>1. CASE k = m
        <5>1. h[k - 1] = g[m - 1]
          BY <2>1, <3>1, <4>1
        <5> QED BY <2>1, <4>1, <5>1
      <4>2. CASE k # m
        <5>1. k \in 0 .. m - 1 /\ (k # 0 => k - 1 \in 0 .. m - 1)
          BY <4>2
        <5>2. h[k] = g[k] /\ (k # 0 => h[k - 1] = g[k - 1])
          BY <3>1, <5>1
        <5> HIDE DEF h, last
        <5> QED BY <3>2, <5>1, <5>2
      <4> QED BY <4>1, <4>2
    <3>4. h = [k \in 0 .. m |-> h[k]]
      OBVIOUS
    <3> HIDE DEF h
    <3>5. Layers(h, p, m)
      BY <3>3, <3>4 DEF Layers
    <3> QED BY <3>5
  <2> QED BY <2>1, <2>2
<1>2. Missing = {}
  BY <1>1, LeastNumber
<1> QED BY <1>2

\* Two layerings of a plan agree as far as both go.
LEMMA LayersAgree ==
  ASSUME NEW p, NEW m \in Nat, NEW n \in Nat, m <= n,
         NEW g, NEW h, Layers(g, p, m), Layers(h, p, n)
  PROVE  g[m] = h[m]
<1> DEFINE Differ == {k \in 0 .. m : g[k] # h[k]}
<1> DEFINE Of(f, k) == IF k = 0 THEN {} ELSE {t \in P!Ids(p) : P!Known(p, t) \subseteq f[k - 1]}
<1>1. \A k \in 0 .. m : g[k] = Of(g, k)
  BY DEF Layers
<1>2. \A k \in 0 .. n : h[k] = Of(h, k)
  BY DEF Layers
<1>3. ASSUME NEW k \in Differ
      PROVE  k # 0 /\ k - 1 \in Differ
  <2>1. k \in 0 .. m /\ k \in 0 .. n
    OBVIOUS
  <2>2. g[k] = Of(g, k) /\ h[k] = Of(h, k) /\ g[k] # h[k]
    BY <1>1, <1>2, <2>1
  <2>3. k # 0
    BY <2>2
  <2>4. g[k - 1] # h[k - 1]
    BY <2>2, <2>3
  <2> QED BY <2>1, <2>3, <2>4
<1>4. Differ = {}
  <2>1. Differ \subseteq Nat
    OBVIOUS
  <2> HIDE DEF Differ
  <2> QED BY <1>3, <2>1, LeastNumber
<1> QED BY <1>4

LEMMA UptoIsLayers ==
  ASSUME NEW p, NEW n \in Nat
  PROVE  \E g : Layers(g, p, n) /\ P!Upto(p, n) = g[n]
<1>1. P!Upto(p, n) = (CHOOSE g : Layers(g, p, n))[n]
  BY DEF P!Upto, Layers
<1> QED BY <1>1, LayersExist

\* The levels of a plan: nothing, and then whatever depends on levels below.
LEMMA UptoSteps ==
  ASSUME NEW p, NEW n \in Nat
  PROVE  /\ P!Upto(p, 0) = {}
         /\ P!Upto(p, n + 1) = {t \in P!Ids(p) : P!Known(p, t) \subseteq P!Upto(p, n)}
<1>1. PICK f : Layers(f, p, 0) /\ P!Upto(p, 0) = f[0]
  BY UptoIsLayers
<1>2. PICK g : Layers(g, p, n) /\ P!Upto(p, n) = g[n]
  BY UptoIsLayers
<1>3. PICK h : Layers(h, p, n + 1) /\ P!Upto(p, n + 1) = h[n + 1]
  BY UptoIsLayers
<1>4. g[n] = h[n]
  BY <1>2, <1>3, LayersAgree
<1>5. h[n + 1] = {t \in P!Ids(p) : P!Known(p, t) \subseteq h[n]}
  <2>1. n + 1 \in 0 .. n + 1 /\ n + 1 # 0 /\ (n + 1) - 1 = n
    OBVIOUS
  <2> QED BY <1>3, <2>1 DEF Layers
<1>6. f[0] = {}
  BY <1>1 DEF Layers
<1> QED BY <1>1, <1>2, <1>3, <1>4, <1>5, <1>6

LEMMA UptoGrows ==
  ASSUME NEW p, NEW n \in Nat
  PROVE  P!Upto(p, n) \subseteq P!Ids(p) /\ P!Upto(p, n) \subseteq P!Upto(p, n + 1)
<1> DEFINE Shrinks == {m \in Nat : ~ (P!Upto(p, m) \subseteq P!Upto(p, m + 1))}
<1>1. ASSUME NEW m \in Shrinks
      PROVE  m # 0 /\ m - 1 \in Shrinks
  <2>1. m # 0
    BY UptoSteps
  <2>2. m - 1 \in Nat /\ (m - 1) + 1 = m
    BY <2>1
  <2>3. P!Upto(p, m) = {t \in P!Ids(p) : P!Known(p, t) \subseteq P!Upto(p, m - 1)}
    BY <2>2, UptoSteps
  <2>4. P!Upto(p, m + 1) = {t \in P!Ids(p) : P!Known(p, t) \subseteq P!Upto(p, m)}
    BY UptoSteps
  <2> QED BY <2>1, <2>2, <2>3, <2>4
<1>2. Shrinks = {}
  BY <1>1, LeastNumber
<1>3. P!Upto(p, n) \subseteq P!Ids(p)
  <2>1. CASE n = 0
    BY <2>1, UptoSteps
  <2>2. CASE n # 0
    <3>1. n - 1 \in Nat /\ (n - 1) + 1 = n
      BY <2>2
    <3>2. P!Upto(p, (n - 1) + 1) = {t \in P!Ids(p) : P!Known(p, t) \subseteq P!Upto(p, n - 1)}
      BY <3>1, UptoSteps
    <3> QED BY <3>1, <3>2
  <2> QED BY <2>1, <2>2
<1> QED BY <1>2, <1>3

\* No two subtasks of a plan have the same id.
Distinct(p) == \A i, j \in DOMAIN p : p[i].id = p[j].id => i = j

\* Whatever holds of a subtask when it holds of its dependencies holds of all:
\* what a layering up to the whole plan amounts to.
Layered(p) ==
  \A F \in SUBSET P!Ids(p) : (\A t \in P!Ids(p) : P!Known(p, t) \subseteq F => t \in F) => F = P!Ids(p)

LEMMA IdsAreRange ==
  ASSUME NEW p \in Seq(P!Subtasks)
  PROVE  /\ P!Listed(p) \in Seq(Subs) /\ Len(P!Listed(p)) = Len(p)
         /\ Range(P!Listed(p)) = P!Ids(p) /\ P!Ids(p) \subseteq Subs
         /\ Distinct(p) <=> NoRepeats(P!Listed(p))
<1>1. DOMAIN p = 1 .. Len(p) /\ Len(p) \in Nat /\ \A i \in 1 .. Len(p) : p[i].id \in Subs
  <2>1. \A i \in 1 .. Len(p) : p[i] \in P!Subtasks
    OBVIOUS
  <2>2. \A x \in P!Subtasks : x.id \in Subs
    BY DEF P!Subtasks
  <2> QED BY <2>1, <2>2
<1>2. P!Listed(p) = [i \in 1 .. Len(p) |-> p[i].id]
  BY <1>1 DEF P!Listed
<1>3. P!Listed(p) \in Seq(Subs) /\ Len(P!Listed(p)) = Len(p)
  BY <1>1, <1>2
<1>4. Range(P!Listed(p)) = P!Ids(p)
  BY <1>1, <1>2 DEF Range, P!Ids
<1>5. P!Ids(p) \subseteq Subs
  BY <1>1 DEF P!Ids
<1>6. Distinct(p) <=> NoRepeats(P!Listed(p))
  BY <1>1, <1>2, <1>3 DEF Distinct, NoRepeats
<1> QED BY <1>3, <1>4, <1>5, <1>6

\* What parseLeaderPlan accepts.
LEMMA ValidPlanHolds ==
  ASSUME NEW p \in Seq(P!Subtasks), P!ValidPlan(p)
  PROVE  Distinct(p) /\ Layered(p)
<1>1. Distinct(p)
  <2>1. Cardinality(Range(P!Listed(p))) = Len(P!Listed(p))
    BY IdsAreRange, Counts DEF P!ValidPlan
  <2> QED BY <2>1, IdsAreRange, CountOfSeq
<1>2. ASSUME NEW F \in SUBSET P!Ids(p), \A t \in P!Ids(p) : P!Known(p, t) \subseteq F => t \in F
      PROVE  F = P!Ids(p)
  <2> DEFINE Beyond == {n \in Nat : ~ (P!Upto(p, n) \subseteq F)}
  <2>1. ASSUME NEW n \in Beyond
        PROVE  n # 0 /\ n - 1 \in Beyond
    <3>1. n # 0
      BY UptoSteps
    <3>2. n - 1 \in Nat /\ (n - 1) + 1 = n
      BY <3>1
    <3>3. P!Upto(p, (n - 1) + 1) = {t \in P!Ids(p) : P!Known(p, t) \subseteq P!Upto(p, n - 1)}
      BY <3>2, UptoSteps
    <3> QED BY <1>2, <3>1, <3>2, <3>3
  <2>2. Beyond = {}
    BY <2>1, LeastNumber
  <2>3. Len(p) \in Nat /\ P!Upto(p, Len(p)) = P!Ids(p)
    BY DEF P!ValidPlan
  <2> QED BY <2>2, <2>3
<1> QED BY <1>1, <1>2 DEF Layered

\* What is left of a plan that is cut is a plan again.
LEMMA CutPlanHolds ==
  ASSUME NEW p \in Seq(P!Subtasks), Distinct(p), Layered(p), NEW n \in 0 .. Len(p)
  PROVE  LET q == SubSeq(p, 1, n) IN q \in Seq(P!Subtasks) /\ Distinct(q) /\ Layered(q)
<1> DEFINE q == SubSeq(p, 1, n)
<1>1. /\ q \in Seq(P!Subtasks) /\ Len(q) = n /\ DOMAIN q = 1 .. n
      /\ \A i \in 1 .. n : q[i] = p[i]
  <2>1. \A i \in 1 .. n : p[i] \in P!Subtasks
    OBVIOUS
  <2> QED BY <2>1, SubSeqProperties
<1>2. DOMAIN p = 1 .. Len(p) /\ 1 .. n \subseteq 1 .. Len(p)
  OBVIOUS
<1> HIDE DEF q
<1>3. Distinct(q)
  BY <1>1, <1>2 DEF Distinct
<1>4. P!Ids(q) \subseteq P!Ids(p)
  BY <1>1, <1>2 DEF P!Ids
<1>5. \A t : P!On(q, t) \subseteq P!On(p, t)
  BY <1>1, <1>2 DEF P!On
<1>6. ASSUME NEW F \in SUBSET P!Ids(q), \A t \in P!Ids(q) : P!Known(q, t) \subseteq F => t \in F
      PROVE  F = P!Ids(q)
  <2> DEFINE G == F \cup (P!Ids(p) \ P!Ids(q))
  <2>1. \A t \in P!Ids(p) : P!Known(p, t) \subseteq G => t \in G
    <3> SUFFICES ASSUME NEW t \in P!Ids(q), P!Known(p, t) \subseteq G
                 PROVE  t \in F
      BY <1>4
    <3>1. P!Known(q, t) \subseteq F
      BY <1>4, <1>5 DEF P!Known
    <3> QED BY <1>6, <3>1
  <2>2. G = P!Ids(p)
    BY <1>4, <2>1 DEF Layered
  <2> QED BY <1>4, <2>2
<1>7. Layered(q)
  BY <1>6 DEF Layered
<1> QED BY <1>1, <1>3, <1>7 DEF q

(***************************************************************************)
(* The invariant.                                                          *)
(***************************************************************************)

PlanHolds == Distinct(plan) /\ Layered(plan)

\* Outside a wave, and what a failed one leaves behind, no pump is on; within
\* one, no pump goes off while there is something to take.
Quiet ==
  /\ phase \notin {"wave", "failing", "ended"} =>
       todo = <<>> /\ \A p \in P!Pumps : slot[p] = "off"
  /\ phase = "wave" /\ todo # <<>> => \A p \in P!Pumps : slot[p] # "off"

\* What runs or waits for a pump is of the level, without a result, with its
\* producers completed, and once.
Pending  == P!Running \cup Range(todo)
Current  == P!Ids(plan) \cap (P!Upto(plan, level) \ P!Upto(plan, level - 1))
Apart    ==
  /\ \A p, q \in P!Pumps : slot[p] \in Subs /\ slot[p] = slot[q] => p = q
  /\ P!Running \cap Range(todo) = {}
Taken ==
  /\ NoRepeats(todo) /\ Apart
  /\ \A t \in Pending : t \in Current /\ found[t] = "none" /\ P!Met(t)

\* Levels behind are settled, levels ahead untouched, and nothing of the level
\* at hand is forgotten.
AtLevel == phase \in {"level", "wave", "settling", "merge"}
Levels ==
  /\ AtLevel => level >= 1
  /\ phase = "level" =>
       \A t \in P!Ids(plan) : IF t \in P!Upto(plan, level - 1) THEN found[t] \in P!Statuses
                                                           ELSE found[t] = "none"
  /\ phase \in {"wave", "settling"} =>
       \A t \in P!Ids(plan) :
         /\ t \in P!Upto(plan, level - 1) => found[t] \in P!Statuses
         /\ t \notin P!Upto(plan, level) => found[t] = "none"
         /\ t \in P!Upto(plan, level) /\ found[t] = "none" => t \in Pending
  /\ phase = "merge" => \A t \in P!Ids(plan) : found[t] \in P!Statuses

\* The reports are those of the iterations so far.
Reports ==
  /\ IsFiniteSet(reported)
  /\ \A r \in reported : r[1] <= iteration
  /\ phase = "iterate" \/ AtLevel => iteration >= 1 /\ \A r \in reported : r[1] # iteration
  /\ phase = "replan" => iteration < policy.iterations
  /\ phase = "planning" => reported = {} /\ began = 0

\* Every worker started is paid for: by a report, or by a subtask that runs or
\* has a result that is not "blocked".
Live == {t \in P!Ids(plan) : found[t] \notin {"none", "blocked"} \/ t \in Pending}
Paid ==
  /\ began + Len(todo) + budget <= policy.total
  /\ AtLevel => began + Len(todo) <= P!RealRuns(reported) + Cardinality(Live)
  /\ phase \in {"iterate", "evaluate", "replan"} => began <= P!RealRuns(reported)

\* An outcome is that of a judgement on what is still there.
WellJudged ==
  /\ conclusion # "none" => phase \in {"synthesize", "publish", "failing", "ended"}
  /\ conclusion = "succeeded" => judged = "sufficient" /\ P!Unresolved(reported) = {}

PlannedInv == P!PlannedTypeOK /\ PlanHolds /\ Quiet /\ Taken /\ Levels /\ Reports /\ Paid /\ WellJudged

(***************************************************************************)
(* What the actions of a wave do.                                          *)
(***************************************************************************)
States == Subs \cup {"free", "off"}

LEMMA SlotsHold ==
  ASSUME P!PlannedAssumption, NEW Ps, NEW f \in [Ps -> States]
  PROVE  {f[p] : p \in DOMAIN f} \ {"free", "off"} = {t \in Subs : \E p \in Ps : f[p] = t}
BY DEF P!PlannedAssumption, States

LEMMA LimitsHold ==
  ASSUME P!PlannedAssumption, P!PlannedTypeOK
  PROVE  /\ policy.parallel \in Nat \ {0} /\ policy.total \in Nat \ {0}
         /\ policy.iterations \in Nat \ {0}
         /\ slot \in [P!Pumps -> States]
         /\ P!Running = {t \in Subs : \E p \in P!Pumps : slot[p] = t}
<1>1. policy \in [parallel : Nat \ {0}, total : Nat \ {0}, iterations : Nat \ {0}, project : BOOLEAN]
  BY DEF P!PlannedAssumption, P!PlannedTypeOK
<1>2. slot \in [P!Pumps -> States]
  BY DEF P!PlannedTypeOK, States
<1>3. P!Running = {t \in Subs : \E p \in P!Pumps : slot[p] = t}
  BY <1>2, SlotsHold DEF P!Running
<1> QED BY <1>1, <1>2, <1>3

\* The subtasks of a level are those whose dependencies are in levels behind.
LEMMA LevelTasksAre ==
  ASSUME P!PlannedTypeOK, PlanHolds
  PROVE  /\ P!LevelTasks \in Seq(Subs) /\ NoRepeats(P!LevelTasks)
         /\ Range(P!LevelTasks) = Current /\ Current \subseteq Subs
<1>1. plan \in Seq(P!Subtasks)
  BY DEF P!PlannedTypeOK
<1>2. /\ P!Listed(plan) \in Seq(Subs) /\ Range(P!Listed(plan)) = P!Ids(plan) /\ P!Ids(plan) \subseteq Subs
      /\ NoRepeats(P!Listed(plan))
  BY <1>1, IdsAreRange DEF PlanHolds
<1>3. P!LevelTasks = P!Kept(P!Listed(plan), P!Upto(plan, level) \ P!Upto(plan, level - 1))
  BY DEF P!LevelTasks
<1> QED BY <1>2, <1>3, PlanKept DEF Current

\* A level starts: n of its subtasks run or wait for a pump, the others are blocked.
StartsWith(n) ==
  /\ phase' = "wave" /\ n \in Nat /\ n <= budget /\ budget' = budget - n
  /\ todo' \in Seq(Subs) /\ slot' \in [P!Pumps -> States] /\ began' \in Nat
  /\ began' + Len(todo') = began + n
  /\ Pending' \subseteq Current /\ \A t \in Pending' : P!Met(t)
  /\ IsFiniteSet(Pending') /\ Cardinality(Pending') = n
  /\ NoRepeats(todo') /\ Apart'
  /\ todo' # <<>> => \A p \in P!Pumps : slot'[p] # "off"
  /\ found' = [t \in Subs |-> IF t \in Current \ Pending' THEN "blocked" ELSE found[t]]
  /\ UNCHANGED <<P!planVars, reported, level, judged, stopped, faults, P!endVars>>

LEMMA StartLevelDoes ==
  ASSUME P!PlannedAssumption, P!PlannedTypeOK, PlanHolds, P!StartLevel, ~P!Stopped
  PROVE  \E n : StartsWith(n)
<1> DEFINE met == P!Kept(P!LevelTasks, {t \in Subs : P!Met(t)})
           n   == IF Len(met) < budget THEN Len(met) ELSE budget
           m   == IF n < policy.parallel THEN n ELSE policy.parallel
<1>1. met \in Seq(Subs) /\ NoRepeats(met) /\ Range(met) = {t \in Current : P!Met(t)}
  BY LevelTasksAre, PlanKept
<1>2. /\ Len(met) \in Nat /\ budget \in Nat /\ policy.parallel \in Nat \ {0} /\ began \in Nat
      /\ DOMAIN met = 1 .. Len(met)
  BY <1>1, LimitsHold DEF P!PlannedTypeOK
<1>3. /\ phase' = "wave"
      /\ found' = [t \in Subs |->
                      IF t \in Range(P!LevelTasks) \ Range(SubSeq(met, 1, n)) THEN "blocked" ELSE found[t]]
      /\ budget' = budget - n
      /\ slot' = [p \in P!Pumps |-> IF p <= m THEN met[p] ELSE "off"]
      /\ todo' = SubSeq(met, m + 1, n)
      /\ began' = began + m
      /\ UNCHANGED <<P!planVars, reported, level, judged, stopped, faults, P!endVars>>
  <2>1. P!Range(P!LevelTasks) = Range(P!LevelTasks) /\ P!Range(SubSeq(met, 1, n)) = Range(SubSeq(met, 1, n))
    BY Counts
  <2> QED BY <2>1 DEF P!StartLevel
<1> HIDE DEF met
<1>4. /\ n \in Nat /\ n <= budget /\ n \in 0 .. Len(met) /\ m \in 0 .. n
      /\ m <= policy.parallel /\ (m < n => m = policy.parallel)
  BY <1>2
<1> HIDE DEF n, m
<1>5. /\ todo' \in Seq(Subs) /\ Len(todo') = n - m /\ NoRepeats(todo')
      /\ Range(todo') = {met[i] : i \in m + 1 .. n}
      /\ todo' = <<>> <=> m = n
  <2> DEFINE q == SubSeq(met, m + 1, n)
  <2>1. /\ q \in Seq(Subs) /\ Len(q) = n - m /\ NoRepeats(q)
        /\ Range(q) = {met[i] : i \in m + 1 .. n}
    BY <1>1, <1>4, CutSeq
  <2>2. todo' = q
    BY <1>3
  <2> HIDE DEF q
  <2>3. q = <<>> <=> m = n
    BY <1>4, <2>1
  <2> QED BY <2>1, <2>2, <2>3
<1>6. /\ Range(SubSeq(met, 1, n)) = {met[i] : i \in 1 .. n}
      /\ SubSeq(met, 1, n) \in Seq(Subs) /\ Len(SubSeq(met, 1, n)) = n /\ NoRepeats(SubSeq(met, 1, n))
  <2> DEFINE k == 0
  <2>0. k \in 0 .. n
    BY <1>4
  <2>1. k + 1 = 1 /\ n - k = n
    BY <1>4
  <2> HIDE DEF k
  <2>2. /\ SubSeq(met, k + 1, n) \in Seq(Subs) /\ Len(SubSeq(met, k + 1, n)) = n - k
        /\ NoRepeats(SubSeq(met, k + 1, n))
        /\ Range(SubSeq(met, k + 1, n)) = {met[i] : i \in k + 1 .. n}
    BY <1>1, <1>4, <2>0, CutSeq
  <2> QED BY <2>1, <2>2
<1>7. \A i \in 1 .. n : met[i] \in Subs /\ met[i] \in Current /\ P!Met(met[i])
  BY <1>1, <1>2, <1>4 DEF Range
<1>8. P!Pumps = 1 .. policy.parallel /\ P!Pumps' = P!Pumps
  BY <1>3 DEF P!Pumps, P!planVars
<1>9. slot' \in [P!Pumps -> States]
  BY <1>2, <1>3, <1>4, <1>7, <1>8 DEF States
<1>10. P!Running' = {met[i] : i \in 1 .. m}
  <2>1. P!Running' = {t \in Subs : \E p \in P!Pumps : slot'[p] = t}
    BY <1>9, SlotsHold DEF P!Running
  <2>2. \A i \in 1 .. m : i \in P!Pumps /\ slot'[i] = met[i] /\ met[i] \in Subs
    BY <1>2, <1>3, <1>4, <1>7, <1>8
  <2>3. \A p \in P!Pumps : slot'[p] \in Subs => p \in 1 .. m /\ slot'[p] = met[p]
    BY <1>2, <1>3, <1>4, <1>8 DEF P!PlannedAssumption
  <2> QED BY <2>1, <2>2, <2>3
<1>11. Pending' = Range(SubSeq(met, 1, n))
  <2>1. 1 .. n = (1 .. m) \cup (m + 1 .. n)
    BY <1>4
  <2> QED BY <1>5, <1>6, <1>10, <2>1 DEF Pending
<1>12. IsFiniteSet(Pending') /\ Cardinality(Pending') = n
  BY <1>6, <1>11, CountOfSeq
<1>13. Apart'
  <2>1. \A p, q \in P!Pumps : slot'[p] \in Subs /\ slot'[p] = slot'[q] => p = q
    <3>1. \A p \in P!Pumps : slot'[p] \in Subs => p \in 1 .. Len(met) /\ slot'[p] = met[p]
      BY <1>2, <1>3, <1>4, <1>8 DEF P!PlannedAssumption
    <3> QED BY <1>1, <3>1 DEF NoRepeats
  <2>2. P!Running' \cap Range(todo') = {}
    <3>1. \A i \in 1 .. m : \A j \in m + 1 .. n : met[i] # met[j]
      BY <1>1, <1>2, <1>4 DEF NoRepeats
    <3> QED BY <1>5, <1>10, <3>1
  <2> QED BY <1>8, <2>1, <2>2 DEF Apart
<1>14. todo' # <<>> => \A p \in P!Pumps : slot'[p] # "off"
  BY <1>3, <1>4, <1>5, <1>7, <1>8 DEF P!PlannedAssumption
<1>15. Range(P!LevelTasks) = Current
  BY LevelTasksAre
<1>16. Pending' \subseteq Current /\ \A t \in Pending' : P!Met(t)
  BY <1>6, <1>7, <1>11
<1>17. began' \in Nat /\ began' + Len(todo') = began + n
  <2>1. began' = began + m /\ Len(todo') = n - m /\ n \in Nat /\ m \in Nat /\ m <= n
    BY <1>3, <1>4, <1>5
  <2> QED BY <1>2, <2>1
<1>18. found' = [t \in Subs |-> IF t \in Current \ Pending' THEN "blocked" ELSE found[t]]
  BY <1>3, <1>11, <1>15
<1> QED BY <1>3, <1>4, <1>5, <1>9, <1>12, <1>13, <1>14, <1>16, <1>17, <1>18 DEF StartsWith

\* A pump takes a subtask, finds none, or loses it to the run's end.
LEMMA PumpTakesDoes ==
  ASSUME P!PlannedAssumption, P!PlannedTypeOK, NEW p \in P!Pumps, P!PumpTakes(p), NoRepeats(todo), Apart
  PROVE  /\ todo' \in Seq(Subs) /\ slot' \in [P!Pumps -> States] /\ began' \in Nat
         /\ began' + Len(todo') <= began + Len(todo)
         /\ phase' = phase \/ (phase = "wave" /\ phase' = "failing")
         /\ Pending' \subseteq Pending /\ (phase' = "wave" => Pending' = Pending)
         /\ \A q \in P!Pumps : q # p => slot'[q] = slot[q]
         /\ slot'[p] \in Subs => slot'[p] \in Range(todo)
         /\ NoRepeats(todo') /\ Apart'
         /\ phase' = "wave" /\ todo' # <<>> => todo # <<>> /\ slot'[p] # "off"
         /\ todo = <<>> => todo' = <<>>
         /\ UNCHANGED <<P!planVars, found, reported, budget, level, judged, stopped, faults, P!endVars>>
<1>1. /\ slot \in [P!Pumps -> States] /\ slot[p] = "free" /\ todo \in Seq(Subs) /\ began \in Nat
      /\ P!Running = {t \in Subs : \E q \in P!Pumps : slot[q] = t}
      /\ P!Pumps' = P!Pumps
      /\ UNCHANGED <<P!planVars, found, reported, budget, level, judged, stopped, faults, P!endVars>>
  BY LimitsHold DEF P!PlannedTypeOK, P!PumpTakes, P!Pumps, P!planVars
<1>2. slot' \in [P!Pumps -> States] => P!Running' = {t \in Subs : \E q \in P!Pumps : slot'[q] = t}
  BY SlotsHold DEF P!Running
<1>3. "off" \notin Subs /\ "free" \notin Subs
  BY DEF P!PlannedAssumption
<1>4. CASE todo = <<>>
  <2>1. slot' = [slot EXCEPT ![p] = "off"] /\ UNCHANGED <<todo, began, phase>>
    BY <1>4 DEF P!PumpTakes
  <2>2. slot' \in [P!Pumps -> States] /\ slot'[p] = "off" /\ \A q \in P!Pumps : q # p => slot'[q] = slot[q]
    BY <1>1, <2>1 DEF States
  <2>3. P!Running' = P!Running
    BY <1>1, <1>2, <1>3, <2>2
  <2>4. Apart'
    BY <1>1, <1>3, <2>1, <2>2, <2>3 DEF Apart
  <2> QED BY <1>1, <1>3, <1>4, <2>1, <2>2, <2>3, <2>4 DEF Pending
<1>5. CASE todo # <<>>
  <2> DEFINE t == Head(todo)
  <2>1. /\ t \in Subs /\ todo' = Tail(todo) /\ todo' \in Seq(Subs) /\ Len(todo') = Len(todo) - 1
        /\ Range(todo) = {t} \cup Range(todo') /\ t \notin Range(todo') /\ NoRepeats(todo')
    <3>1. todo' = Tail(todo) /\ Len(todo) \in Nat \ {0} /\ t = todo[1]
      BY <1>1, <1>5 DEF P!PumpTakes
    <3>2. /\ t \in Subs /\ todo' \in Seq(Subs) /\ Len(todo') = Len(todo) - 1
          /\ \A i \in 1 .. Len(todo') : todo'[i] = todo[i + 1]
      BY <1>1, <1>5, <3>1, HeadTailProperties
    <3> HIDE DEF t
    <3>3. DOMAIN todo = 1 .. Len(todo) /\ DOMAIN todo' = 1 .. Len(todo')
      BY <1>1, <3>2
    <3>4. \A i \in 1 .. Len(todo') : i + 1 \in 1 .. Len(todo) /\ i + 1 # 1
      BY <3>1, <3>2
    <3>5. \A i \in 1 .. Len(todo) : i = 1 \/ (i - 1 \in 1 .. Len(todo') /\ todo'[i - 1] = todo[i])
      <4>1. \A i \in 1 .. Len(todo) : i # 1 => i - 1 \in 1 .. Len(todo') /\ (i - 1) + 1 = i
        BY <3>1, <3>2
      <4> QED BY <3>2, <4>1
    <3>6. Range(todo) = {t} \cup Range(todo')
      <4>1. /\ Range(todo) = {todo[i] : i \in 1 .. Len(todo)}
            /\ Range(todo') = {todo'[i] : i \in 1 .. Len(todo')}
        BY <3>3 DEF Range
      <4>2. ASSUME NEW i \in 1 .. Len(todo)
            PROVE  todo[i] \in {t} \cup Range(todo')
        BY <3>1, <3>5, <4>1
      <4>3. ASSUME NEW i \in 1 .. Len(todo')
            PROVE  todo'[i] \in Range(todo)
        BY <3>2, <3>4, <4>1
      <4>4. t \in Range(todo)
        BY <3>1, <4>1
      <4> QED BY <4>1, <4>2, <4>3, <4>4
    <3>7. t \notin Range(todo')
      BY <3>1, <3>2, <3>3, <3>4 DEF Range, NoRepeats
    <3>8. NoRepeats(todo')
      BY <3>2, <3>4 DEF NoRepeats
    <3> QED BY <3>1, <3>2, <3>6, <3>7, <3>8
  <2>2. t \notin P!Running
    BY <2>1 DEF Apart
  <2> HIDE DEF t
  <2>3. CASE P!Stopped
    <3>1. /\ slot' = [slot EXCEPT ![p] = "off"] /\ began' = began
          /\ phase' = IF phase = "wave" THEN "failing" ELSE phase
      BY <1>5, <2>3 DEF P!PumpTakes
    <3>2. slot' \in [P!Pumps -> States] /\ slot'[p] = "off" /\ \A q \in P!Pumps : q # p => slot'[q] = slot[q]
      BY <1>1, <3>1 DEF States
    <3>3. P!Running' = P!Running
      BY <1>1, <1>2, <1>3, <3>2
    <3>4. Apart'
      BY <1>1, <1>3, <2>1, <3>2, <3>3 DEF Apart
    <3>5. began' + Len(todo') <= began + Len(todo)
      BY <1>1, <2>1, <3>1
    <3> QED BY <1>1, <1>3, <1>5, <2>1, <3>1, <3>2, <3>3, <3>4, <3>5 DEF Pending
  <2>4. CASE ~P!Stopped
    <3>1. slot' = [slot EXCEPT ![p] = t] /\ began' = began + 1 /\ phase' = phase
      BY <1>5, <2>4 DEF P!PumpTakes, t
    <3>2. slot' \in [P!Pumps -> States] /\ slot'[p] = t /\ \A q \in P!Pumps : q # p => slot'[q] = slot[q]
      BY <1>1, <2>1, <3>1 DEF States
    <3>3. P!Running' = P!Running \cup {t}
      BY <1>1, <1>2, <1>3, <2>1, <3>2
    <3>4. Apart'
      BY <1>1, <1>3, <2>1, <2>2, <3>2, <3>3 DEF Apart
    <3>5. began' \in Nat /\ began' + Len(todo') <= began + Len(todo)
      BY <1>1, <2>1, <3>1
    <3> QED BY <1>1, <1>3, <1>5, <2>1, <3>1, <3>2, <3>3, <3>4, <3>5 DEF Pending
  <2> QED BY <2>3, <2>4
<1> QED BY <1>4, <1>5

\* A worker returns: its pump is free, and its subtask has a result; or it is
\* off, and the wave has failed.
Outcomes == {"completed", "failed", "timed_out", "cancelled", "contribution"}
LEMMA WorkerReturnsDoes ==
  ASSUME P!PlannedAssumption, P!PlannedTypeOK, NEW p \in P!Pumps, P!WorkerReturns(p), Apart
  PROVE  /\ slot' \in [P!Pumps -> States]
         /\ slot[p] \in P!Running /\ P!Running' = P!Running \ {slot[p]} /\ Pending' = Pending \ {slot[p]}
         /\ \A q \in P!Pumps : q # p => slot'[q] = slot[q]
         /\ slot'[p] \in {"free", "off"} /\ Apart'
         /\ \/ /\ phase' = phase /\ slot'[p] = "free" /\ faults' = faults
               /\ \E s \in Outcomes : found' = [found EXCEPT ![slot[p]] = s]
            \/ /\ phase' = IF phase = "wave" THEN "failing" ELSE phase
               /\ found' = found /\ faults' \in 0 .. MaxFaults
         /\ UNCHANGED <<P!planVars, reported, budget, level, todo, began, judged, stopped, P!endVars>>
<1> DEFINE t == slot[p]
<1>1. /\ slot \in [P!Pumps -> States] /\ t \in Subs
      /\ P!Running = {x \in Subs : \E q \in P!Pumps : slot[q] = x}
      /\ P!Pumps' = P!Pumps
      /\ UNCHANGED <<P!planVars, reported, budget, level, todo, began, judged, stopped, P!endVars>>
  <2>1. slot \in [P!Pumps -> States] /\ P!Running = {x \in Subs : \E q \in P!Pumps : slot[q] = x}
    BY LimitsHold
  <2>2. slot[p] \notin {"free", "off"}
    BY DEF P!WorkerReturns
  <2>3. UNCHANGED <<P!planVars, reported, budget, level, todo, began, judged, stopped, P!endVars>>
    BY DEF P!WorkerReturns
  <2> QED BY <2>1, <2>2, <2>3 DEF States, P!Pumps, P!planVars
<1>2. PICK w \in {"free", "off"} : slot' = [slot EXCEPT ![p] = w]
  BY DEF P!WorkerReturns
<1>3. "off" \notin Subs /\ "free" \notin Subs
  BY DEF P!PlannedAssumption
<1>4. slot' \in [P!Pumps -> States] /\ slot'[p] = w /\ \A q \in P!Pumps : q # p => slot'[q] = slot[q]
  BY <1>1, <1>2 DEF States
<1>5. P!Running' = {x \in Subs : \E q \in P!Pumps : slot'[q] = x}
  BY <1>4, SlotsHold DEF P!Running
<1>6. \A q \in P!Pumps : q # p => slot[q] # t
  BY <1>1 DEF Apart
<1>7. t \in P!Running /\ t \notin Range(todo)
  BY <1>1 DEF Apart
<1> HIDE DEF t
<1>8. P!Running' = P!Running \ {t}
  <2>1. \A q \in P!Pumps : slot'[q] \in Subs => q # p
    BY <1>3, <1>4
  <2>2. \A q \in P!Pumps : slot[q] \in P!Running /\ slot[q] # t => slot'[q] = slot[q]
    BY <1>4 DEF t
  <2> QED BY <1>1, <1>4, <1>5, <1>6, <2>1, <2>2
<1>9. Pending' = Pending \ {t}
  BY <1>1, <1>7, <1>8 DEF Pending
<1>10. Apart'
  BY <1>1, <1>3, <1>4, <1>8 DEF Apart
<1>11. \/ /\ phase' = phase /\ slot'[p] = "free" /\ faults' = faults
          /\ \E s \in Outcomes : found' = [found EXCEPT ![slot[p]] = s]
       \/ /\ phase' = IF phase = "wave" THEN "failing" ELSE phase
          /\ found' = found /\ faults' \in 0 .. MaxFaults
  <2>1. CASE /\ \E s \in {"completed", "failed", "timed_out"} \cup (IF P!Stopped THEN {"cancelled"} ELSE {}) :
                  found' = [found EXCEPT ![slot[p]] =
                               IF s = "completed" /\ policy.project THEN "contribution" ELSE s]
             /\ slot' = [slot EXCEPT ![p] = "free"]
             /\ UNCHANGED <<phase, faults>>
    <3>1. slot'[p] = "free"
      BY <1>1, <2>1
    <3>2. PICK s \in {"completed", "failed", "timed_out", "cancelled"} :
            found' = [found EXCEPT ![slot[p]] =
                         IF s = "completed" /\ policy.project THEN "contribution" ELSE s]
      BY <2>1
    <3>3. (IF s = "completed" /\ policy.project THEN "contribution" ELSE s) \in Outcomes
      BY DEF Outcomes
    <3> QED BY <2>1, <3>1, <3>2, <3>3
  <2>2. CASE /\ \/ P!Stopped /\ UNCHANGED faults
                \/ faults < MaxFaults /\ faults' = faults + 1
             /\ phase' = IF phase = "wave" THEN "failing" ELSE phase
             /\ UNCHANGED found
    BY <2>2 DEF P!PlannedAssumption, P!PlannedTypeOK
  <2> QED BY <2>1, <2>2 DEF P!WorkerReturns
<1> QED BY <1>1, <1>4, <1>7, <1>8, <1>9, <1>10, <1>11 DEF t

\* What is settled between two levels.
LEMMA SettleDoes ==
  ASSUME P!PlannedTypeOK, PlanHolds, P!Settle
  PROVE  /\ phase = "settling"
         /\ \/ phase' = "level" /\ level' = level + 1 /\ found' = found
               /\ \A t \in Current : found[t] # "contribution"
            \/ phase' = phase /\ level' = level
               /\ \E t \in Current : \E s \in {"completed", "failed"} :
                    found[t] = "contribution" /\ found' = [found EXCEPT ![t] = s]
            \/ phase' = "failing" /\ level' = level /\ found' = found
         /\ UNCHANGED <<P!planVars, reported, budget, todo, slot, began, judged, stopped, faults, P!endVars>>
<1>1. /\ P!Contributed \in Seq(Subs)
      /\ Range(P!Contributed) = {t \in Current : found[t] = "contribution"}
  BY LevelTasksAre, PlanKept DEF P!Contributed
<1>2. CASE P!Contributed = <<>>
  <2>1. phase' = "level" /\ level' = level + 1 /\ found' = found
    BY <1>2 DEF P!Settle
  <2>2. Range(P!Contributed) = {}
    BY <1>2 DEF Range
  <2> QED BY <1>1, <2>1, <2>2 DEF P!Settle
<1>3. CASE P!Contributed # <<>>
  <2>1. Head(P!Contributed) \in Range(P!Contributed)
    <3>1. Head(P!Contributed) = P!Contributed[1] /\ 1 \in DOMAIN P!Contributed
      BY <1>1, <1>3
    <3> QED BY <3>1 DEF Range
  <2>2. Head(P!Contributed) \in Current /\ found[Head(P!Contributed)] = "contribution"
    BY <1>1, <2>1
  <2>3. /\ level' = level
        /\ \/ phase' = phase /\ \E s \in {"completed", "failed"} :
                                  found' = [found EXCEPT ![Head(P!Contributed)] = s]
           \/ phase' = "failing" /\ found' = found
    BY <1>3 DEF P!Settle
  <2> QED BY <2>2, <2>3 DEF P!Settle
<1> QED BY <1>2, <1>3

\* The steps that leave the wave alone.
Calm == \/ P!Planned \/ P!SoloTurn \/ P!SoloEnds \/ P!Evaluate \/ P!Replan \/ P!Judge \/ P!Synthesize \/ P!Publish
        \/ P!Fail \/ P!Stop

LEMMA CalmDoes ==
  ASSUME Calm
  PROVE  /\ UNCHANGED <<policy, found, P!waveVars, faults, reported>>
         /\ \/ phase' = phase /\ UNCHANGED P!planVars
            \/ ~ AtLevel /\ ~ AtLevel' /\ (phase \in {"failing", "ended"} => phase' = "ended")
BY DEF Calm, P!Planned, P!SoloTurn, P!SoloEnds, P!Evaluate, P!Replan, P!Judge, P!Synthesize, P!Publish, P!Fail, P!Stop, P!Goes,
       P!planVars, AtLevel

LEMMA NextPlannedCases ==
  ASSUME P!Next
  PROVE  \/ Calm \/ P!BeginIteration
         \/ P!StartLevel /\ P!Stopped
         \/ P!StartLevel /\ ~ P!Stopped
         \/ P!LevelsDone \/ P!WaveEnds \/ P!Settle \/ P!Merge
         \/ \E p \in P!Pumps : P!PumpTakes(p)
         \/ \E p \in P!Pumps : P!WorkerReturns(p)
BY DEF P!Next, P!LeaderStep, P!PumpStep, Calm

(***************************************************************************)
(* Types.                                                                  *)
(***************************************************************************)
LEMMA InitPlannedTypes ==
  ASSUME P!PlannedAssumption, NEW start \in {"planning", "ended"}, P!Fresh(start)
  PROVE  P!PlannedTypeOK
<1>1. /\ <<>> \in Seq(P!Subtasks) /\ <<>> \in Seq(Subs) /\ 0 \in 0 .. MaxFaults
      /\ 0 \in 0 .. policy.iterations
  BY DEF P!PlannedAssumption, P!Fresh
<1> QED BY <1>1 DEF P!Fresh, P!NoResults, P!PlannedTypeOK

\* The plan and the iteration are those of the planner's replies.
LEMMA AnswersAre ==
  ASSUME P!PlannedAssumption, NEW p \in P!Answers
  PROVE  p \in Seq(P!Subtasks) /\ Distinct(p) /\ Layered(p)
BY ValidPlanHolds DEF P!Answers, P!PlannedAssumption

LEMMA RemainingIs ==
  ASSUME P!PlannedAssumption, P!PlannedTypeOK, Reports
  PROVE  /\ P!RealRuns(reported) \in Nat /\ P!Remaining \in Nat
         /\ P!Remaining <= policy.total
         /\ began <= policy.total /\ began <= P!RealRuns(reported) => began + P!Remaining <= policy.total
<1>1. IsFiniteSet({r \in reported : r[3] # "blocked"})
  BY FS_Subset DEF Reports
<1>2. P!RealRuns(reported) \in Nat
  BY <1>1, FS_CardinalityType, Counts DEF P!RealRuns
<1>3. policy.total \in Nat /\ began \in Nat
  BY LimitsHold DEF P!PlannedTypeOK
<1>4. P!Remaining \in Nat /\ P!Remaining <= policy.total
  BY <1>2, <1>3 DEF P!Remaining
<1>5. began <= policy.total /\ began <= P!RealRuns(reported) => began + P!Remaining <= policy.total
  <2>1. CASE policy.total > P!RealRuns(reported)
    BY <1>2, <1>3, <2>1 DEF P!Remaining
  <2>2. CASE ~ (policy.total > P!RealRuns(reported))
    BY <1>2, <1>3, <2>2 DEF P!Remaining
  <2> QED BY <2>1, <2>2
<1> QED BY <1>2, <1>4, <1>5

LEMMA ReplanDoes ==
  ASSUME P!PlannedAssumption, P!PlannedTypeOK, Reports, P!Replan
  PROVE  \/ phase' = "judge" /\ UNCHANGED P!planVars
         \/ /\ phase' = "iterate" /\ iteration' = iteration + 1 /\ policy' = policy
            /\ asked' \in Seq(P!Subtasks) /\ plan' \in Seq(P!Subtasks) /\ PlanHolds'
<1>1. CASE phase' = "judge" /\ UNCHANGED <<iteration, plan, asked>>
  BY <1>1 DEF P!Replan, P!planVars
<1>2. ASSUME NEW p \in P!Answers, phase' = "iterate", iteration' = iteration + 1, asked' = p,
             plan' = SubSeq(p, 1, IF Len(p) < P!Remaining THEN Len(p) ELSE P!Remaining)
      PROVE  /\ phase' = "iterate" /\ iteration' = iteration + 1 /\ policy' = policy
             /\ asked' \in Seq(P!Subtasks) /\ plan' \in Seq(P!Subtasks) /\ PlanHolds'
  <2> DEFINE n == IF Len(p) < P!Remaining THEN Len(p) ELSE P!Remaining
  <2>1. p \in Seq(P!Subtasks) /\ Distinct(p) /\ Layered(p)
    BY AnswersAre
  <2>2. n \in 0 .. Len(p)
    BY <2>1, RemainingIs
  <2>3. plan' = SubSeq(p, 1, n)
    BY <1>2
  <2> HIDE DEF n
  <2>4. plan' \in Seq(P!Subtasks) /\ PlanHolds'
    BY <2>1, <2>2, <2>3, CutPlanHolds DEF PlanHolds
  <2> QED BY <1>2, <2>1, <2>4 DEF P!Replan
<1> QED BY <1>1, <1>2 DEF P!Replan

LEMMA CalmTypes ==
  ASSUME P!PlannedAssumption, P!PlannedTypeOK, Reports, Calm
  PROVE  P!PlannedTypeOK'
<1>1. UNCHANGED <<policy, found, P!waveVars, faults, reported>>
  BY CalmDoes
<1>2. CASE P!Planned
  <2>1. 1 \in 0 .. policy.iterations
    BY LimitsHold
  <2>2. plan' \in Seq(P!Subtasks) /\ asked' \in Seq(P!Subtasks) /\ iteration' \in 0 .. policy.iterations
    BY <1>2, <2>1, AnswersAre DEF P!Planned, P!PlannedTypeOK
  <2>3. phase' \in {"iterate", "solo"} /\ UNCHANGED <<judged, stopped, P!endVars>>
    BY <1>2 DEF P!Planned
  <2> QED BY <1>1, <2>2, <2>3 DEF P!PlannedTypeOK, P!waveVars, P!endVars, P!Pumps
<1>3. CASE P!Replan
  <2>1. iteration + 1 \in 0 .. policy.iterations
    BY <1>3, LimitsHold DEF P!Replan, Reports, P!PlannedTypeOK
  <2>2. plan' \in Seq(P!Subtasks) /\ asked' \in Seq(P!Subtasks) /\ iteration' \in 0 .. policy.iterations
    BY <1>3, <2>1, ReplanDoes DEF P!PlannedTypeOK, P!planVars
  <2>3. phase' \in {"iterate", "judge"} /\ UNCHANGED <<judged, stopped, P!endVars>>
    BY <1>3 DEF P!Replan
  <2> QED BY <1>1, <2>2, <2>3 DEF P!PlannedTypeOK, P!waveVars, P!endVars, P!Pumps
<1>4. CASE ~ P!Planned /\ ~ P!Replan
  <2>1. UNCHANGED P!planVars
    BY <1>4 DEF Calm, P!SoloTurn, P!SoloEnds, P!Evaluate, P!Judge, P!Synthesize, P!Publish, P!Fail, P!Stop
  <2>2. phase' \in {"planning", "solo", "solo_turn", "iterate", "level", "wave", "settling", "merge", "evaluate",
                    "replan", "judge", "synthesize", "publish", "failing", "ended"}
    BY <1>4 DEF Calm, P!SoloTurn, P!SoloEnds, P!Evaluate, P!Judge, P!Synthesize, P!Publish, P!Fail, P!Stop, P!Goes,
                P!PlannedTypeOK
  <2>3. judged' \in {"none", "unavailable", "sufficient", "insufficient"}
    BY <1>4 DEF Calm, P!SoloTurn, P!SoloEnds, P!Evaluate, P!Judge, P!Synthesize, P!Publish, P!Fail, P!Stop, P!PlannedTypeOK
  <2>4. stopped' \in {"open", "deadline", "cancelled"}
    BY <1>4 DEF Calm, P!SoloTurn, P!SoloEnds, P!Evaluate, P!Judge, P!Synthesize, P!Publish, P!Fail, P!Stop, P!PlannedTypeOK
  <2>5. /\ conclusion' \in {"none", "succeeded", "partial", "failed", "unknown"}
        /\ verdict' \in {"running", "completed", "failed", "cancelled"}
    BY <1>4 DEF Calm, P!SoloTurn, P!SoloEnds, P!Evaluate, P!Judge, P!Synthesize, P!Publish, P!Fail, P!Stop, P!Resolved, P!endVars,
                P!PlannedTypeOK
  <2> QED BY <1>1, <2>1, <2>2, <2>3, <2>4, <2>5 DEF P!PlannedTypeOK, P!waveVars, P!planVars, P!Pumps
<1> QED BY <1>2, <1>3, <1>4

LEMMA NextPlannedTypes ==
  ASSUME P!PlannedAssumption, PlannedInv, [P!Next]_(P!vars)
  PROVE  P!PlannedTypeOK'
<1>0. P!PlannedTypeOK /\ PlanHolds /\ Taken /\ Levels /\ Reports
  BY DEF PlannedInv
<1>1. CASE Calm
  BY <1>0, <1>1, CalmTypes
<1>2. CASE P!BeginIteration
  <2>1. budget' \in Nat
    BY <1>0, <1>2, RemainingIs DEF P!BeginIteration
  <2>2. found' \in [Subs -> P!Statuses \cup {"contribution", "none"}]
    BY <1>2 DEF P!BeginIteration, P!NoResults
  <2>3. phase' \in {"level", "failing"} /\ level' = 1
    BY <1>2 DEF P!BeginIteration, P!Goes
  <2>4. UNCHANGED <<P!planVars, reported, todo, slot, began, judged, stopped, faults, P!endVars>>
    BY <1>2 DEF P!BeginIteration
  <2> QED BY <1>0, <2>1, <2>2, <2>3, <2>4 DEF P!PlannedTypeOK, P!planVars, P!endVars, P!Pumps
<1>3. CASE P!StartLevel /\ P!Stopped
  BY <1>0, <1>3 DEF P!StartLevel, P!PlannedTypeOK, P!planVars, P!endVars, P!Pumps
<1>4. CASE P!StartLevel /\ ~ P!Stopped
  <2>1. PICK n : StartsWith(n)
    BY <1>0, <1>4, StartLevelDoes
  <2>2. found' \in [Subs -> P!Statuses \cup {"contribution", "none"}]
    <3>1. found' = [t \in Subs |-> IF t \in Current \ Pending' THEN "blocked" ELSE found[t]]
      BY <2>1 DEF StartsWith
    <3> QED BY <1>0, <3>1 DEF P!PlannedTypeOK, P!Statuses, P!Bad
  <2>3. budget' \in Nat
    BY <1>0, <2>1 DEF StartsWith, P!PlannedTypeOK
  <2>4. slot' \in [P!Pumps' -> Subs \cup {"free", "off"}]
    BY <2>1 DEF StartsWith, States, P!planVars, P!Pumps
  <2>5. /\ phase' = "wave" /\ todo' \in Seq(Subs) /\ began' \in Nat
        /\ UNCHANGED <<P!planVars, reported, level, judged, stopped, faults, P!endVars>>
    BY <2>1 DEF StartsWith
  <2> QED BY <1>0, <2>2, <2>3, <2>4, <2>5 DEF P!PlannedTypeOK, P!planVars, P!endVars
<1>5. CASE P!LevelsDone
  BY <1>0, <1>5 DEF P!LevelsDone, P!PlannedTypeOK, P!planVars, P!waveVars, P!endVars, P!Pumps
<1>6. CASE P!WaveEnds
  BY <1>0, <1>6 DEF P!WaveEnds, P!PlannedTypeOK, P!planVars, P!waveVars, P!endVars, P!Pumps
<1>7. CASE P!Settle
  <2>1. found' \in [Subs -> P!Statuses \cup {"contribution", "none"}]
    <3>1. \A s \in {"completed", "failed"} : s \in P!Statuses
      BY DEF P!Statuses, P!Bad
    <3>2. found' = found \/ \E t : \E s \in {"completed", "failed"} : found' = [found EXCEPT ![t] = s]
      BY <1>0, <1>7, SettleDoes
    <3> QED BY <1>0, <3>1, <3>2 DEF P!PlannedTypeOK
  <2>2. phase' \in {"level", "settling", "failing"} /\ level' \in Nat
    BY <1>0, <1>7, SettleDoes DEF P!PlannedTypeOK
  <2>3. UNCHANGED <<P!planVars, reported, budget, todo, slot, began, judged, stopped, faults, P!endVars>>
    BY <1>7 DEF P!Settle
  <2> QED BY <1>0, <2>1, <2>2, <2>3 DEF P!PlannedTypeOK, P!planVars, P!endVars, P!Pumps
<1>8. CASE P!Merge
  <2>1. iteration \in 1 .. policy.iterations
    BY <1>0, <1>8, LimitsHold DEF P!Merge, Reports, AtLevel, P!PlannedTypeOK
  <2>2. \A t \in P!Ids(plan) : t \in Subs /\ found[t] \in P!Statuses
    BY <1>0, <1>8, IdsAreRange DEF P!Merge, Levels, P!PlannedTypeOK
  <2>3. {<<iteration, t, found[t]>> : t \in P!Ids(plan)} \subseteq (1 .. policy.iterations) \X Subs \X P!Statuses
    BY <2>1, <2>2
  <2>4. reported' \subseteq (1 .. policy.iterations) \X Subs \X P!Statuses
    BY <1>0, <1>8, <2>3 DEF P!Merge, P!PlannedTypeOK
  <2>5. /\ phase' \in {"evaluate", "failing"}
        /\ UNCHANGED <<P!planVars, found, P!waveVars, judged, stopped, faults, P!endVars>>
    BY <1>8 DEF P!Merge, P!Goes
  <2> QED BY <1>0, <2>4, <2>5 DEF P!PlannedTypeOK, P!planVars, P!waveVars, P!endVars, P!Pumps
<1>9. ASSUME NEW p \in P!Pumps, P!PumpTakes(p)
      PROVE  P!PlannedTypeOK'
  <2>1. /\ todo' \in Seq(Subs) /\ slot' \in [P!Pumps -> States] /\ began' \in Nat
        /\ phase' = phase \/ (phase = "wave" /\ phase' = "failing")
        /\ UNCHANGED <<P!planVars, found, reported, budget, level, judged, stopped, faults, P!endVars>>
    BY <1>0, <1>9, PumpTakesDoes DEF Taken
  <2> QED BY <1>0, <2>1 DEF P!PlannedTypeOK, States, P!planVars, P!endVars, P!Pumps
<1>10. ASSUME NEW p \in P!Pumps, P!WorkerReturns(p)
       PROVE  P!PlannedTypeOK'
  <2>1. /\ slot' \in [P!Pumps -> States] /\ phase' \in {phase, "failing"} /\ faults' \in 0 .. MaxFaults
        /\ found' = found \/ \E s \in Outcomes : found' = [found EXCEPT ![slot[p]] = s]
        /\ UNCHANGED <<P!planVars, reported, budget, level, todo, began, judged, stopped, P!endVars>>
    BY <1>0, <1>10, WorkerReturnsDoes DEF Taken, P!PlannedTypeOK
  <2>2. found' \in [Subs -> P!Statuses \cup {"contribution", "none"}]
    BY <1>0, <2>1 DEF P!PlannedTypeOK, Outcomes, P!Statuses, P!Bad
  <2> QED BY <1>0, <2>1, <2>2 DEF P!PlannedTypeOK, States, P!planVars, P!endVars, P!Pumps
<1>11. CASE UNCHANGED P!vars
  BY <1>0, <1>11 DEF P!vars, P!PlannedTypeOK, P!Pumps
<1> QED BY <1>1, <1>2, <1>3, <1>4, <1>5, <1>6, <1>7, <1>8, <1>9, <1>10, <1>11, NextPlannedCases

(***************************************************************************)
(* Plans; pumps; what they take.                                           *)
(***************************************************************************)
LEMMA NextPlanHolds ==
  ASSUME P!PlannedAssumption, PlannedInv, [P!Next]_(P!vars)
  PROVE  PlanHolds'
<1>0. P!PlannedTypeOK /\ PlanHolds /\ Reports
  BY DEF PlannedInv
<1>1. CASE plan' = plan
  BY <1>0, <1>1 DEF PlanHolds
<1>2. CASE P!Planned
  BY <1>0, <1>2, AnswersAre DEF P!Planned, PlanHolds
<1>3. CASE P!Replan
  BY <1>0, <1>1, <1>3, ReplanDoes DEF P!planVars
<1> QED BY <1>1, <1>2, <1>3 DEF P!Next, P!LeaderStep, P!PumpStep, P!vars, P!planVars, P!SoloTurn, P!SoloEnds, P!BeginIteration,
        P!StartLevel, P!LevelsDone, P!WaveEnds, P!Settle, P!Merge, P!Evaluate, P!Judge, P!Synthesize, P!Publish, P!Fail, P!Stop,
        P!PumpTakes, P!WorkerReturns

\* When every pump is off and nothing waits, nothing is pending.
LEMMA NothingPending ==
  ASSUME P!PlannedAssumption, P!PlannedTypeOK, todo = <<>>, \A p \in P!Pumps : slot[p] = "off"
  PROVE  Pending = {}
<1>1. P!Running = {}
  BY LimitsHold DEF P!PlannedAssumption
<1>2. Range(todo) = {}
  BY DEF Range
<1> QED BY <1>1, <1>2 DEF Pending

LEMMA NextQuiet ==
  ASSUME P!PlannedAssumption, PlannedInv, [P!Next]_(P!vars)
  PROVE  Quiet'
<1>0. P!PlannedTypeOK /\ PlanHolds /\ Taken /\ Quiet
  BY DEF PlannedInv
<1>1. CASE Calm
  <2>1. UNCHANGED <<todo, slot, P!Pumps>>
    BY <1>1, CalmDoes DEF P!waveVars, P!Pumps
  <2>2. phase' = phase \/ (phase # "wave" /\ phase' # "wave" /\ (phase \in {"failing", "ended"} => phase' = "ended"))
    BY <1>1, CalmDoes DEF AtLevel
  <2> QED BY <1>0, <2>1, <2>2 DEF Quiet
<1>2. CASE P!BeginIteration \/ (P!StartLevel /\ P!Stopped) \/ P!LevelsDone \/ P!Merge
  <2>1. UNCHANGED <<todo, slot, P!Pumps>> /\ phase \in {"iterate", "level", "merge"} /\ phase' # "wave"
    BY <1>2 DEF P!BeginIteration, P!StartLevel, P!LevelsDone, P!Merge, P!Goes, P!waveVars, P!planVars, P!Pumps
  <2> QED BY <1>0, <2>1 DEF Quiet
<1>3. CASE P!StartLevel /\ ~ P!Stopped
  <2>1. PICK n : StartsWith(n)
    BY <1>0, <1>3, StartLevelDoes
  <2> QED BY <2>1 DEF StartsWith, Quiet, P!planVars, P!Pumps
<1>4. CASE P!WaveEnds
  <2>1. todo = <<>>
    <3>1. 1 \in P!Pumps
      BY <1>0, LimitsHold DEF P!Pumps
    <3> QED BY <1>0, <1>4, <3>1 DEF P!WaveEnds, Quiet
  <2> QED BY <1>4, <2>1 DEF P!WaveEnds, Quiet, P!waveVars, P!planVars, P!Pumps
<1>5. CASE P!Settle
  <2>1. UNCHANGED <<todo, slot, P!Pumps>> /\ phase = "settling" /\ phase' # "wave"
    BY <1>5 DEF P!Settle, P!planVars, P!Pumps
  <2> QED BY <1>0, <2>1 DEF Quiet
<1>6. ASSUME NEW p \in P!Pumps, P!PumpTakes(p)
      PROVE  Quiet'
  <2>1. /\ phase' = phase \/ (phase = "wave" /\ phase' = "failing")
        /\ \A q \in P!Pumps : q # p => slot'[q] = slot[q]
        /\ phase' = "wave" /\ todo' # <<>> => todo # <<>> /\ slot'[p] # "off"
        /\ P!Pumps' = P!Pumps
    BY <1>0, <1>6, PumpTakesDoes DEF Taken, P!planVars, P!Pumps
  <2>2. phase \in {"wave", "failing", "ended"}
    BY <1>0, <1>6 DEF P!PumpTakes, Quiet
  <2> QED BY <1>0, <2>1, <2>2 DEF Quiet
<1>7. ASSUME NEW p \in P!Pumps, P!WorkerReturns(p)
      PROVE  Quiet'
  <2>1. /\ phase' = (IF phase = "wave" THEN "failing" ELSE phase) \/ (phase' = phase /\ slot'[p] = "free")
        /\ \A q \in P!Pumps : q # p => slot'[q] = slot[q]
        /\ P!Pumps' = P!Pumps /\ todo' = todo
    BY <1>0, <1>7, WorkerReturnsDoes DEF Taken, P!planVars, P!Pumps
  <2>2. phase \in {"wave", "failing", "ended"}
    BY <1>0, <1>7 DEF P!WorkerReturns, Quiet
  <2> QED BY <1>0, <2>1, <2>2 DEF Quiet
<1>8. CASE UNCHANGED P!vars
  BY <1>0, <1>8 DEF P!vars, Quiet, P!Pumps
<1> QED BY <1>1, <1>2, <1>3, <1>4, <1>5, <1>6, <1>7, <1>8, NextPlannedCases

\* A completed producer stays one while the plan is the same.
LEMMA MetStays ==
  ASSUME plan' = plan, \A t \in P!Ids(plan) : found[t] = "completed" => found'[t] = "completed", NEW t, P!Met(t)
  PROVE  P!Met(t)'
BY DEF P!Met, P!Known

LEMMA NextTaken ==
  ASSUME P!PlannedAssumption, PlannedInv, [P!Next]_(P!vars)
  PROVE  Taken'
<1>0. P!PlannedTypeOK /\ PlanHolds /\ Taken /\ Quiet /\ Levels
  BY DEF PlannedInv
<1>t. P!PlannedTypeOK'
  BY NextPlannedTypes
<1>1. ASSUME UNCHANGED <<todo, slot, policy>>, Pending = {}
      PROVE  Taken'
  <2>1. Pending' = Pending
    BY <1>1 DEF Pending, P!Running
  <2>2. NoRepeats(todo') /\ Apart'
    <3>1. P!Running' = P!Running /\ P!Pumps' = P!Pumps
      BY <1>1 DEF P!Running, P!Pumps
    <3> QED BY <1>0, <1>1, <3>1 DEF Taken, Apart
  <2> QED BY <1>1, <2>1, <2>2 DEF Taken
<1>2. ASSUME UNCHANGED <<todo, slot, policy, plan, level, found>>
      PROVE  Taken'
  <2>1. Pending' = Pending /\ Current' = Current /\ P!Running' = P!Running /\ P!Pumps' = P!Pumps
    BY <1>2 DEF Pending, P!Running, Current, P!Pumps
  <2>2. Apart'
    BY <1>0, <1>2, <2>1 DEF Taken, Apart
  <2>3. \A t : P!Met(t) => P!Met(t)'
    BY <1>2, MetStays
  <2> QED BY <1>0, <1>2, <2>1, <2>2, <2>3 DEF Taken
<1>3. phase \notin {"wave", "failing", "ended"} => Pending = {}
  BY <1>0, NothingPending DEF Quiet
<1>4. CASE Calm
  <2>1. UNCHANGED <<todo, slot, policy, level, found>>
    BY <1>4, CalmDoes DEF P!waveVars
  <2>2. CASE P!Planned \/ P!Replan
    BY <1>1, <1>3, <2>1, <2>2 DEF P!Planned, P!Replan
  <2>3. CASE ~ (P!Planned \/ P!Replan)
    <3>1. plan' = plan
      BY <1>4, <2>3 DEF Calm, P!SoloTurn, P!SoloEnds, P!Evaluate, P!Judge, P!Synthesize, P!Publish, P!Fail, P!Stop, P!planVars
    <3> QED BY <1>2, <2>1, <3>1
  <2> QED BY <2>2, <2>3
<1>5. CASE P!BeginIteration
  BY <1>1, <1>3, <1>5 DEF P!BeginIteration, P!planVars
<1>6. CASE (P!StartLevel /\ P!Stopped) \/ P!LevelsDone \/ P!WaveEnds \/ P!Merge
  BY <1>2, <1>6 DEF P!StartLevel, P!LevelsDone, P!WaveEnds, P!Merge, P!waveVars, P!planVars
<1>7. CASE P!StartLevel /\ ~ P!Stopped
  <2>1. PICK n : StartsWith(n)
    BY <1>0, <1>7, StartLevelDoes
  <2>2. /\ Pending' \subseteq Current /\ \A t \in Pending' : P!Met(t)
        /\ NoRepeats(todo') /\ Apart'
        /\ found' = [t \in Subs |-> IF t \in Current \ Pending' THEN "blocked" ELSE found[t]]
        /\ plan' = plan /\ level' = level
    BY <2>1 DEF StartsWith, P!planVars
  <2>3. \A t \in Current : t \in Subs /\ found[t] = "none"
    <3>1. Current \subseteq Subs
      BY <1>0, LevelTasksAre
    <3>2. phase = "level"
      BY <1>7 DEF P!StartLevel
    <3> QED BY <1>0, <3>1, <3>2 DEF Levels, Current
  <2>4. \A t \in Pending' : found'[t] = "none"
    BY <2>2, <2>3
  <2>5. Current' = Current
    BY <2>2 DEF Current
  <2>6. \A t \in P!Ids(plan) : found[t] = "completed" => found'[t] = "completed"
    <3>1. P!Ids(plan) \subseteq Subs
      BY <1>0, IdsAreRange DEF P!PlannedTypeOK
    <3> QED BY <2>2, <2>3, <3>1
  <2>7. \A t \in Pending' : P!Met(t)'
    BY <2>2, <2>6, MetStays
  <2> QED BY <2>2, <2>4, <2>5, <2>7 DEF Taken
<1>8. CASE P!Settle
  BY <1>1, <1>3, <1>8 DEF P!Settle, P!planVars
<1>9. ASSUME NEW p \in P!Pumps, P!PumpTakes(p)
      PROVE  Taken'
  <2>1. /\ Pending' \subseteq Pending /\ NoRepeats(todo') /\ Apart'
        /\ plan' = plan /\ level' = level /\ found' = found
    BY <1>0, <1>9, PumpTakesDoes DEF Taken, P!planVars
  <2>2. Current' = Current /\ \A t : P!Met(t) => P!Met(t)'
    BY <2>1, MetStays DEF Current
  <2> QED BY <1>0, <2>1, <2>2 DEF Taken
<1>10. ASSUME NEW p \in P!Pumps, P!WorkerReturns(p)
       PROVE  Taken'
  <2>1. /\ Pending' = Pending \ {slot[p]} /\ slot[p] \in P!Running /\ Apart' /\ todo' = todo
        /\ found' = found \/ \E s \in Outcomes : found' = [found EXCEPT ![slot[p]] = s]
        /\ plan' = plan /\ level' = level
    BY <1>0, <1>10, WorkerReturnsDoes DEF Taken, P!planVars
  <2>2. slot[p] \in Pending /\ found[slot[p]] = "none"
    BY <1>0, <2>1 DEF Taken, Pending
  <2>3. \A t \in Subs : t # slot[p] => found'[t] = found[t]
    BY <1>0, <2>1 DEF P!PlannedTypeOK
  <2>4. P!Ids(plan) \subseteq Subs /\ Current \subseteq Subs
    BY <1>0, IdsAreRange, LevelTasksAre DEF P!PlannedTypeOK
  <2>5. \A t \in P!Ids(plan) : found[t] = "completed" => found'[t] = "completed"
    BY <2>2, <2>3, <2>4
  <2>6. Current' = Current /\ \A t : P!Met(t) => P!Met(t)'
    BY <2>1, <2>5, MetStays DEF Current
  <2> QED BY <1>0, <2>1, <2>2, <2>3, <2>4, <2>6 DEF Taken
<1>11. CASE UNCHANGED P!vars
  BY <1>2, <1>11 DEF P!vars
<1> QED BY <1>4, <1>5, <1>6, <1>7, <1>8, <1>9, <1>10, <1>11, NextPlannedCases

(***************************************************************************)
(* Levels.                                                                 *)
(***************************************************************************)
LEMMA NextLevels ==
  ASSUME P!PlannedAssumption, PlannedInv, [P!Next]_(P!vars)
  PROVE  Levels'
<1>0. P!PlannedTypeOK /\ PlanHolds /\ Taken /\ Quiet /\ Levels
  BY DEF PlannedInv
<1>1. phase \notin {"wave", "failing", "ended"} => Pending = {}
  BY <1>0, NothingPending DEF Quiet
<1>2. /\ P!Ids(plan) \subseteq Subs /\ Current \subseteq Subs
      /\ level \in Nat /\ found \in [Subs -> P!Statuses \cup {"contribution", "none"}]
  BY <1>0, IdsAreRange, LevelTasksAre DEF P!PlannedTypeOK
<1>3. AtLevel => /\ level - 1 \in Nat /\ (level - 1) + 1 = level
                 /\ P!Upto(plan, level - 1) \subseteq P!Upto(plan, level)
                 /\ P!Upto(plan, level) \subseteq P!Ids(plan)
  <2>1. AtLevel => level - 1 \in Nat /\ (level - 1) + 1 = level
    BY <1>0, <1>2 DEF Levels
  <2>2. ASSUME NEW k \in Nat
        PROVE  P!Upto(plan, k) \subseteq P!Upto(plan, k + 1) /\ P!Upto(plan, k) \subseteq P!Ids(plan)
    BY UptoGrows
  <2> QED BY <1>2, <2>1, <2>2
<1>4. ASSUME phase' = phase, UNCHANGED <<plan, level, found>>, Pending' = Pending
      PROVE  Levels'
  BY <1>0, <1>4 DEF Levels, AtLevel
<1>5. ASSUME ~ AtLevel'
      PROVE  Levels'
  BY <1>5 DEF Levels, AtLevel
<1>6. CASE Calm
  <2>1. UNCHANGED <<todo, slot, policy, level, found>>
    BY <1>6, CalmDoes DEF P!waveVars
  <2>2. Pending' = Pending
    BY <2>1 DEF Pending, P!Running
  <2> QED BY <1>4, <1>5, <1>6, <2>1, <2>2, CalmDoes DEF P!planVars
<1>7. CASE P!BeginIteration
  <2>1. phase' = "level" \/ ~ AtLevel'
    BY <1>7 DEF P!BeginIteration, P!Goes, AtLevel
  <2>2. level' = 1 /\ plan' = plan /\ found' = P!NoResults
    BY <1>7 DEF P!BeginIteration, P!planVars
  <2>3. P!Upto(plan', level' - 1) = {}
    BY <2>2, UptoSteps
  <2>4. \A t \in P!Ids(plan') : found'[t] = "none"
    BY <1>2, <2>2 DEF P!NoResults
  <2>5. CASE phase' = "level"
    BY <2>2, <2>3, <2>4, <2>5 DEF Levels
  <2> QED BY <1>5, <2>1, <2>5
<1>8. CASE P!StartLevel /\ P!Stopped
  BY <1>5, <1>8 DEF P!StartLevel, AtLevel
<1>9. CASE P!StartLevel /\ ~ P!Stopped
  <2>1. PICK n : StartsWith(n)
    BY <1>0, <1>9, StartLevelDoes
  <2>2. /\ phase' = "wave" /\ phase = "level" /\ AtLevel /\ plan' = plan /\ level' = level
        /\ found' = [t \in Subs |-> IF t \in Current \ Pending' THEN "blocked" ELSE found[t]]
    BY <1>9, <2>1 DEF StartsWith, P!StartLevel, AtLevel, P!planVars
  <2>3. level >= 1 /\ \A t \in P!Ids(plan) : IF t \in P!Upto(plan, level - 1) THEN found[t] \in P!Statuses
                                                                          ELSE found[t] = "none"
    BY <1>0, <2>2 DEF Levels
  <2>4. \A t \in P!Ids(plan) : found'[t] = IF t \in Current \ Pending' THEN "blocked" ELSE found[t]
    BY <1>2, <2>2
  <2>5. \A t \in P!Ids(plan) : t \in Current <=> t \in P!Upto(plan, level) /\ t \notin P!Upto(plan, level - 1)
    BY DEF Current
  <2>6. ASSUME NEW t \in P!Ids(plan)
        PROVE  /\ t \in P!Upto(plan, level - 1) => found'[t] \in P!Statuses
               /\ t \notin P!Upto(plan, level) => found'[t] = "none"
               /\ t \in P!Upto(plan, level) /\ found'[t] = "none" => t \in Pending'
    <3>1. "none" \notin P!Statuses
      BY DEF P!Statuses, P!Bad
    <3>2. t \notin Current => found'[t] = found[t]
      BY <2>4
    <3>3. t \in Current /\ t \notin Pending' => found'[t] = "blocked"
      BY <2>4
    <3> QED BY <1>3, <2>1, <2>2, <2>3, <2>5, <3>1, <3>2, <3>3, <2>4
  <2> QED BY <2>2, <2>3, <2>6 DEF Levels
<1>10. CASE P!LevelsDone
  <2>1. phase = "level" /\ AtLevel /\ phase' = "merge" /\ UNCHANGED <<plan, level, found>>
    BY <1>10 DEF P!LevelsDone, P!planVars, P!waveVars, AtLevel
  <2>2. Current = {}
    <3>1. P!LevelTasks = <<>> /\ Range(P!LevelTasks) = Current
      BY <1>0, <1>10, LevelTasksAre DEF P!LevelsDone
    <3>2. Range(<<>>) = {}
      BY DEF Range
    <3> QED BY <3>1, <3>2
  <2>3. P!Upto(plan, level) = {t \in P!Ids(plan) : P!Known(plan, t) \subseteq P!Upto(plan, level - 1)}
    <3>1. P!Upto(plan, (level - 1) + 1) = {t \in P!Ids(plan) : P!Known(plan, t) \subseteq P!Upto(plan, level - 1)}
      BY <1>3, <2>1, UptoSteps
    <3> QED BY <1>3, <2>1, <3>1
  <2>4. \A t \in P!Ids(plan) : P!Known(plan, t) \subseteq P!Upto(plan, level - 1) => t \in P!Upto(plan, level - 1)
    BY <2>2, <2>3 DEF Current
  <2>5. P!Upto(plan, level - 1) \in SUBSET P!Ids(plan)
    BY <1>3, <2>1
  <2>6. P!Upto(plan, level - 1) = P!Ids(plan)
    BY <1>0, <2>4, <2>5 DEF PlanHolds, Layered
  <2>7. level >= 1 /\ \A t \in P!Ids(plan) : found[t] \in P!Statuses
    BY <1>0, <2>1, <2>6 DEF Levels
  <2> QED BY <2>1, <2>7 DEF Levels
<1>11. CASE P!WaveEnds
  <2>1. phase = "wave" /\ phase' = "settling" /\ UNCHANGED <<plan, level, found, todo, slot>>
    BY <1>11 DEF P!WaveEnds, P!planVars, P!waveVars
  <2>2. Pending' = Pending
    BY <2>1 DEF Pending, P!Running
  <2> QED BY <1>0, <2>1, <2>2 DEF Levels, AtLevel
<1>12. CASE P!Settle
  <2>1. phase = "settling" /\ AtLevel /\ UNCHANGED <<plan, todo, slot>>
    BY <1>12 DEF P!Settle, P!planVars, AtLevel
  <2>2. Pending' = {} /\ Pending = {}
    BY <1>1, <2>1 DEF Pending, P!Running
  <2>3. /\ level >= 1
        /\ \A t \in P!Ids(plan) :
             /\ t \in P!Upto(plan, level - 1) => found[t] \in P!Statuses
             /\ t \notin P!Upto(plan, level) => found[t] = "none"
             /\ t \in P!Upto(plan, level) => found[t] # "none"
    BY <1>0, <2>1, <2>2 DEF Levels
  <2>4. CASE phase' = "level" /\ level' = level + 1 /\ found' = found /\ \A t \in Current : found[t] # "contribution"
    <3>1. level' - 1 = level /\ level' >= 1
      BY <1>2, <2>4
    <3>2. ASSUME NEW t \in P!Ids(plan)
          PROVE  IF t \in P!Upto(plan, level) THEN found[t] \in P!Statuses ELSE found[t] = "none"
      <4>1. t \in P!Upto(plan, level) => t \in P!Upto(plan, level - 1) \/ t \in Current
        BY DEF Current
      <4>2. found[t] \in P!Statuses \cup {"contribution", "none"}
        BY <1>2
      <4> QED BY <2>3, <2>4, <4>1, <4>2
    <3> QED BY <2>1, <2>4, <3>1, <3>2 DEF Levels
  <2>5. ASSUME phase' = phase, level' = level,
               NEW t \in Current, NEW s \in {"completed", "failed"}, found' = [found EXCEPT ![t] = s]
        PROVE  Levels'
    <3>1. t \in P!Upto(plan, level) /\ t \in P!Ids(plan)
      BY DEF Current
    <3>2. \A x \in P!Ids(plan) : found'[x] = IF x = t THEN s ELSE found[x]
      BY <1>2, <2>5
    <3>3. s \in P!Statuses /\ s # "none"
      BY DEF P!Statuses, P!Bad
    <3>4. ASSUME NEW x \in P!Ids(plan)
          PROVE  /\ x \in P!Upto(plan, level - 1) => found'[x] \in P!Statuses
                 /\ x \notin P!Upto(plan, level) => found'[x] = "none"
                 /\ x \in P!Upto(plan, level) /\ found'[x] = "none" => x \in Pending'
      BY <2>3, <3>1, <3>2, <3>3
    <3> QED BY <2>1, <2>3, <2>5, <3>4 DEF Levels
  <2>6. CASE phase' = "failing"
    BY <1>5, <2>6 DEF AtLevel
  <2> QED BY <1>0, <1>12, <2>4, <2>5, <2>6, SettleDoes
<1>13. CASE P!Merge
  BY <1>5, <1>13 DEF P!Merge, P!Goes, AtLevel
<1>14. ASSUME NEW p \in P!Pumps, P!PumpTakes(p)
       PROVE  Levels'
  <2>1. /\ phase' = phase \/ (phase = "wave" /\ phase' = "failing")
        /\ phase' = "wave" => Pending' = Pending
        /\ UNCHANGED <<plan, level, found>>
    BY <1>0, <1>14, PumpTakesDoes DEF Taken, P!planVars
  <2>2. phase \in {"wave", "failing", "ended"}
    BY <1>0, <1>14 DEF P!PumpTakes, Quiet
  <2>3. phase' = "wave" \/ ~ AtLevel'
    BY <2>1, <2>2 DEF AtLevel
  <2> QED BY <1>4, <1>5, <2>1, <2>3, <2>2
<1>15. ASSUME NEW p \in P!Pumps, P!WorkerReturns(p)
       PROVE  Levels'
  <2>1. /\ Pending' = Pending \ {slot[p]} /\ slot[p] \in P!Running
        /\ \/ phase' = phase /\ \E s \in Outcomes : found' = [found EXCEPT ![slot[p]] = s]
           \/ phase' = (IF phase = "wave" THEN "failing" ELSE phase) /\ found' = found
        /\ UNCHANGED <<plan, level>>
    BY <1>0, <1>15, WorkerReturnsDoes DEF Taken, P!planVars
  <2>2. phase \in {"wave", "failing", "ended"}
    BY <1>0, <1>15 DEF P!WorkerReturns, Quiet
  <2>3. CASE ~ AtLevel'
    BY <1>5, <2>3
  <2>4. CASE AtLevel'
    <3>1. phase = "wave" /\ phase' = "wave" /\ AtLevel
      BY <2>1, <2>2, <2>4 DEF AtLevel
    <3>2. PICK s \in Outcomes : found' = [found EXCEPT ![slot[p]] = s]
      BY <2>1, <3>1
    <3>3. slot[p] \in Current
      BY <1>0, <2>1 DEF Taken, Pending
    <3>4. slot[p] \in P!Ids(plan) /\ slot[p] \in P!Upto(plan, level) /\ slot[p] \notin P!Upto(plan, level - 1)
      BY <3>3 DEF Current
    <3>5. \A x \in P!Ids(plan) : found'[x] = IF x = slot[p] THEN s ELSE found[x]
      BY <1>2, <3>2
    <3>6. s # "none"
      BY DEF Outcomes
    <3>7. /\ level >= 1
          /\ \A t \in P!Ids(plan) :
               /\ t \in P!Upto(plan, level - 1) => found[t] \in P!Statuses
               /\ t \notin P!Upto(plan, level) => found[t] = "none"
               /\ t \in P!Upto(plan, level) /\ found[t] = "none" => t \in Pending
      BY <1>0, <3>1 DEF Levels
    <3>8. ASSUME NEW x \in P!Ids(plan)
          PROVE  /\ x \in P!Upto(plan, level - 1) => found'[x] \in P!Statuses
                 /\ x \notin P!Upto(plan, level) => found'[x] = "none"
                 /\ x \in P!Upto(plan, level) /\ found'[x] = "none" => x \in Pending'
      BY <2>1, <3>4, <3>5, <3>6, <3>7
    <3> QED BY <2>1, <3>1, <3>7, <3>8 DEF Levels
  <2> QED BY <2>3, <2>4
<1>16. CASE UNCHANGED P!vars
  <2>1. Pending' = Pending
    BY <1>16 DEF P!vars, Pending, P!Running
  <2> QED BY <1>4, <1>16, <2>1 DEF P!vars
<1> QED BY <1>6, <1>7, <1>8, <1>9, <1>10, <1>11, <1>12, <1>13, <1>14, <1>15, <1>16, NextPlannedCases

(***************************************************************************)
(* Reports, the budget, and the judgement.                                 *)
(***************************************************************************)
LEMMA IdsAreFinite ==
  ASSUME P!PlannedTypeOK
  PROVE  IsFiniteSet(P!Ids(plan)) /\ P!Ids(plan) \subseteq Subs
BY IdsAreRange, CountOfSeq DEF P!PlannedTypeOK

LEMMA NextReports ==
  ASSUME P!PlannedAssumption, PlannedInv, [P!Next]_(P!vars)
  PROVE  Reports'
<1>0. P!PlannedTypeOK /\ PlanHolds /\ Taken /\ Quiet /\ Reports
  BY DEF PlannedInv
<1>1. IsFiniteSet(reported) /\ \A r \in reported : r[1] <= iteration /\ r[1] \in Nat
  BY <1>0 DEF Reports, P!PlannedTypeOK
<1>2. iteration \in Nat /\ policy.iterations \in Nat
  BY <1>0, LimitsHold DEF P!PlannedTypeOK
<1>3. CASE P!Planned
  <2>1. phase = "planning" /\ reported = {} /\ reported' = {}
    BY <1>0, <1>3 DEF P!Planned, Reports
  <2>2. phase' \in {"iterate", "solo"} /\ (phase' = "iterate" => iteration' = 1)
    BY <1>3 DEF P!Planned
  <2> QED BY <1>1, <2>1, <2>2 DEF Reports, AtLevel
<1>4. CASE P!Replan
  <2>1. reported' = reported /\ phase' \in {"judge", "iterate"}
        /\ (phase' = "iterate" => iteration' = iteration + 1) /\ (phase' = "judge" => iteration' = iteration)
    BY <1>4 DEF P!Replan
  <2>2. \A r \in reported : r[1] # iteration + 1 /\ r[1] <= iteration + 1
    BY <1>1, <1>2
  <2> QED BY <1>1, <1>2, <2>1, <2>2 DEF Reports, AtLevel
<1>5. CASE P!Evaluate
  <2>1. phase' = "replan" => iteration < policy.iterations
    BY <1>2, <1>5 DEF P!Evaluate, P!Enough
  <2>2. UNCHANGED <<reported, iteration, policy>> /\ phase' \in {"replan", "judge"}
    BY <1>5 DEF P!Evaluate, P!planVars
  <2> QED BY <1>1, <2>1, <2>2 DEF Reports, AtLevel
<1>6. CASE P!Merge
  <2> DEFINE news == {<<iteration, t, found[t]>> : t \in P!Ids(plan)}
  <2>1. IsFiniteSet(news)
    <3>1. IsFiniteSet(P!Ids(plan))
      BY <1>0, IdsAreFinite
    <3> DEFINE f == [t \in P!Ids(plan) |-> <<iteration, t, found[t]>>]
    <3>2. f \in Surjection(P!Ids(plan), news)
      BY DEF Surjection
    <3> HIDE DEF f, news
    <3> QED BY <3>1, <3>2, FS_Surjection
  <2>2. reported' = reported \cup news /\ phase' \in {"evaluate", "failing"} /\ iteration' = iteration
    BY <1>6 DEF P!Merge, P!Goes, P!planVars
  <2>3. IsFiniteSet(reported')
    BY <1>1, <2>1, <2>2, FS_Union
  <2>4. \A r \in news : r[1] <= iteration
    BY <1>2
  <2> HIDE DEF news
  <2>5. \A r \in reported' : r[1] <= iteration'
    BY <1>1, <2>2, <2>4
  <2> QED BY <2>2, <2>3, <2>5 DEF Reports, AtLevel
<1>7. ASSUME UNCHANGED <<reported, iteration, policy>>, phase' # "replan" \/ phase' = phase,
             phase' = "iterate" \/ AtLevel' => phase = "iterate" \/ AtLevel,
             phase' = "planning" => phase = "planning" /\ began' = began
      PROVE  Reports'
  BY <1>0, <1>7 DEF Reports
<1>8. CASE Calm /\ ~ P!Planned /\ ~ P!Replan /\ ~ P!Evaluate
  BY <1>7, <1>8 DEF Calm, P!SoloTurn, P!SoloEnds, P!Judge, P!Synthesize, P!Publish, P!Fail, P!Stop, P!Goes, P!planVars, P!waveVars,
                    AtLevel
<1>9. CASE P!BeginIteration \/ (P!StartLevel /\ P!Stopped) \/ P!LevelsDone \/ P!WaveEnds \/ P!Settle
  BY <1>7, <1>9 DEF P!BeginIteration, P!StartLevel, P!LevelsDone, P!WaveEnds, P!Settle, P!Goes, P!planVars, P!waveVars, AtLevel
<1>10. CASE P!StartLevel /\ ~ P!Stopped
  <2>1. PICK n : StartsWith(n)
    BY <1>0, <1>10, StartLevelDoes
  <2>2. phase = "level"
    BY <1>10 DEF P!StartLevel
  <2> QED BY <1>7, <2>1, <2>2 DEF StartsWith, P!planVars, AtLevel
<1>11. ASSUME NEW p \in P!Pumps, P!PumpTakes(p)
       PROVE  Reports'
  <2>1. phase' = phase \/ (phase = "wave" /\ phase' = "failing")
    BY <1>0, <1>11, PumpTakesDoes DEF Taken
  <2>2. UNCHANGED <<reported, iteration, policy>> /\ phase \in {"wave", "failing", "ended"}
    BY <1>0, <1>11 DEF P!PumpTakes, P!planVars, Quiet
  <2> QED BY <1>7, <2>1, <2>2 DEF AtLevel
<1>12. ASSUME NEW p \in P!Pumps, P!WorkerReturns(p)
       PROVE  Reports'
  <2>1. phase' = phase \/ phase' = (IF phase = "wave" THEN "failing" ELSE phase)
    BY <1>12 DEF P!WorkerReturns
  <2>2. UNCHANGED <<reported, iteration, policy>> /\ phase \in {"wave", "failing", "ended"}
    BY <1>0, <1>12 DEF P!WorkerReturns, P!planVars, Quiet
  <2> QED BY <1>7, <2>1, <2>2 DEF AtLevel
<1>13. CASE UNCHANGED P!vars
  BY <1>7, <1>13 DEF P!vars, AtLevel
<1> QED BY <1>3, <1>4, <1>5, <1>6, <1>8, <1>9, <1>10, <1>11, <1>12, <1>13, NextPlannedCases

\* The merge reports what is live, once.
LEMMA MergeCounts ==
  ASSUME P!PlannedTypeOK, Reports, Levels, Pending = {}, P!Merge
  PROVE  P!RealRuns(reported') = P!RealRuns(reported) + Cardinality(Live)
<1>1. iteration \in Nat /\ phase = "merge" /\ AtLevel
  BY DEF P!PlannedTypeOK, P!Merge, AtLevel
<1>2. \A t \in P!Ids(plan) : found[t] \in P!Statuses
  BY <1>1 DEF Levels
<1>3. Live = {t \in P!Ids(plan) : found[t] # "blocked"}
  <2>1. "none" \notin P!Statuses
    BY DEF P!Statuses, P!Bad
  <2> QED BY <1>2, <2>1 DEF Live
<1>4. IsFiniteSet(Live)
  BY <1>3, IdsAreFinite, FS_Subset
<1> DEFINE old  == {r \in reported : r[3] # "blocked"}
           news == {<<iteration, t, found[t]>> : t \in Live}
           f    == [t \in Live |-> <<iteration, t, found[t]>>]
<1>5. IsFiniteSet(old)
  BY FS_Subset DEF Reports
<1>6. f \in Surjection(Live, news)
  BY DEF Surjection
<1>7. f \in Injection(Live, news)
  BY DEF Injection, IsInjective
<1>8. IsFiniteSet(news) /\ Cardinality(news) = Cardinality(Live)
  <2> HIDE DEF f, news
  <2> QED BY <1>4, <1>6, <1>7, FS_Surjection
<1>9. old \cap news = {}
  <2>1. \A r \in reported : r[1] # iteration
    BY <1>1 DEF Reports
  <2>2. \A r \in news : r[1] = iteration
    OBVIOUS
  <2> QED BY <2>1, <2>2
<1>10. {r \in reported' : r[3] # "blocked"} = old \cup news
  <2>1. reported' = reported \cup {<<iteration, t, found[t]>> : t \in P!Ids(plan)}
    BY DEF P!Merge
  <2> QED BY <1>3, <2>1
<1>11. Cardinality(old \cup news) = Cardinality(old) + Cardinality(news)
  <2> HIDE DEF old, news
  <2>1. Cardinality(old \cup news) = Cardinality(old) + Cardinality(news) - Cardinality(old \cap news)
    BY <1>5, <1>8, FS_Union
  <2>2. Cardinality(old \cap news) = 0
    BY <1>9, FS_EmptySet
  <2>3. Cardinality(old) \in Nat /\ Cardinality(news) \in Nat
    BY <1>5, <1>8, FS_CardinalityType
  <2> QED BY <2>1, <2>2, <2>3
<1> QED BY <1>8, <1>10, <1>11, Counts DEF P!RealRuns

LEMMA NextPaid ==
  ASSUME P!PlannedAssumption, PlannedInv, [P!Next]_(P!vars)
  PROVE  Paid'
<1>0. P!PlannedTypeOK /\ PlanHolds /\ Taken /\ Quiet /\ Levels /\ Reports /\ Paid
  BY DEF PlannedInv
<1>1. phase \notin {"wave", "failing", "ended"} => Pending = {} /\ todo = <<>>
  BY <1>0, NothingPending DEF Quiet
<1>2. /\ began \in Nat /\ budget \in Nat /\ Len(todo) \in Nat /\ policy.total \in Nat
      /\ P!RealRuns(reported) \in Nat
  BY <1>0, LimitsHold, RemainingIs DEF P!PlannedTypeOK
<1>3. IsFiniteSet(Live) /\ Cardinality(Live) \in Nat
  BY <1>0, IdsAreFinite, FS_Subset, FS_CardinalityType DEF Live
<1>4. began + Len(todo) + budget <= policy.total
  BY <1>0 DEF Paid
<1>5. AtLevel => began + Len(todo) <= P!RealRuns(reported) + Cardinality(Live)
  BY <1>0 DEF Paid
<1>6. ASSUME UNCHANGED <<began, todo, budget, policy, reported>>,
             AtLevel' => AtLevel /\ Live' = Live,
             phase' \in {"iterate", "evaluate", "replan"} => phase \in {"iterate", "evaluate", "replan"}
      PROVE  Paid'
  BY <1>0, <1>6 DEF Paid
<1>7. CASE Calm /\ ~ P!Planned
  <2>1. UNCHANGED <<began, todo, slot, budget, level, policy, reported, found>>
    BY <1>7, CalmDoes DEF P!waveVars
  <2>2. AtLevel' => AtLevel /\ UNCHANGED plan
    BY <1>7, CalmDoes DEF P!planVars, AtLevel
  <2>3. UNCHANGED plan => Live' = Live
    BY <2>1 DEF Live, Pending, P!Running
  <2>4. phase' \in {"iterate", "evaluate", "replan"} => phase \in {"iterate", "evaluate", "replan"}
    BY <1>7 DEF Calm, P!SoloTurn, P!SoloEnds, P!Evaluate, P!Replan, P!Judge, P!Synthesize, P!Publish, P!Fail, P!Stop, P!Goes
  <2> QED BY <1>6, <2>1, <2>2, <2>3, <2>4
<1>8. CASE P!Planned
  <2>1. began = 0 /\ phase = "planning"
    BY <1>0, <1>8 DEF P!Planned, Reports
  <2>2. UNCHANGED <<began, todo, budget, policy, reported>> /\ ~ AtLevel'
    BY <1>8 DEF P!Planned, P!waveVars, AtLevel
  <2> QED BY <1>2, <1>4, <2>1, <2>2 DEF Paid
<1>9. CASE P!BeginIteration
  <2>1. /\ phase = "iterate" /\ phase' \in {"level", "failing"} /\ budget' = P!Remaining
        /\ UNCHANGED <<began, todo, slot, policy, reported, plan>> /\ found' = P!NoResults
    BY <1>9 DEF P!BeginIteration, P!Goes, P!planVars
  <2>2. began <= P!RealRuns(reported)
    BY <1>0, <2>1 DEF Paid
  <2>3. P!Remaining \in Nat /\ began + P!Remaining <= policy.total
    BY <1>0, <1>2, <1>4, <2>2, RemainingIs
  <2>4. todo = <<>> /\ Len(todo) = 0
    BY <1>1, <2>1
  <2>5. Live' = {}
    <3>1. Pending' = {}
      BY <1>1, <2>1 DEF Pending, P!Running
    <3>2. \A t \in P!Ids(plan) : found'[t] = "none"
      BY <1>0, <2>1, IdsAreFinite DEF P!NoResults
    <3> QED BY <2>1, <3>1, <3>2 DEF Live
  <2>6. Cardinality(Live') = 0
    BY <2>5, FS_EmptySet
  <2> QED BY <1>2, <2>1, <2>2, <2>3, <2>4, <2>6 DEF Paid
<1>10. CASE P!StartLevel /\ P!Stopped
  BY <1>6, <1>10 DEF P!StartLevel, P!planVars, AtLevel
<1>11. CASE P!StartLevel /\ ~ P!Stopped
  <2>1. PICK n : StartsWith(n)
    BY <1>0, <1>11, StartLevelDoes
  <2>2. /\ phase' = "wave" /\ n \in Nat /\ n <= budget /\ budget' = budget - n
        /\ began' \in Nat /\ Len(todo') \in Nat /\ began' + Len(todo') = began + n
        /\ Pending' \subseteq Current /\ IsFiniteSet(Pending') /\ Cardinality(Pending') = n
        /\ found' = [t \in Subs |-> IF t \in Current \ Pending' THEN "blocked" ELSE found[t]]
        /\ UNCHANGED <<plan, policy, reported>>
    BY <2>1 DEF StartsWith, P!planVars
  <2>3. phase = "level" /\ AtLevel
    BY <1>11 DEF P!StartLevel, AtLevel
  <2>4. Pending = {} /\ Len(todo) = 0
    BY <1>1, <2>3
  <2>5. \A t \in Current : t \in P!Ids(plan) /\ found[t] = "none"
    BY <1>0, <2>3 DEF Current, Levels
  <2>6. \A t \in P!Ids(plan) : found'[t] = IF t \in Current \ Pending' THEN "blocked" ELSE found[t]
    BY <1>0, <2>2, IdsAreFinite
  <2>7. Live' = Live \cup Pending' /\ Live \cap Pending' = {}
    <3>1. Live' = {t \in P!Ids(plan) : found'[t] \notin {"none", "blocked"} \/ t \in Pending'}
      BY <2>2 DEF Live
    <3>2. Live = {t \in P!Ids(plan) : found[t] \notin {"none", "blocked"}}
      BY <2>4 DEF Live
    <3> QED BY <2>2, <2>5, <2>6, <3>1, <3>2
  <2>8. Cardinality(Live') = Cardinality(Live) + n
    <3>1. Cardinality(Live \cup Pending') =
            Cardinality(Live) + Cardinality(Pending') - Cardinality(Live \cap Pending')
      BY <1>3, <2>2, FS_Union
    <3>2. Cardinality(Live \cap Pending') = 0
      BY <2>7, FS_EmptySet
    <3> QED BY <1>3, <2>2, <2>7, <3>1, <3>2
  <2>9. began' + Len(todo') + budget' <= policy'.total
    BY <1>2, <1>4, <2>2, <2>4
  <2>10. began' + Len(todo') <= P!RealRuns(reported') + Cardinality(Live')
    BY <1>2, <1>3, <1>5, <2>2, <2>3, <2>4, <2>8
  <2> QED BY <2>2, <2>9, <2>10 DEF Paid
<1>12. CASE P!LevelsDone \/ P!WaveEnds
  <2>1. /\ UNCHANGED <<began, todo, slot, budget, policy, reported, plan, found>>
        /\ AtLevel /\ phase' \in {"merge", "settling"}
    BY <1>12 DEF P!LevelsDone, P!WaveEnds, P!planVars, P!waveVars, AtLevel
  <2>2. Live' = Live
    BY <2>1 DEF Live, Pending, P!Running
  <2> QED BY <1>6, <2>1, <2>2
<1>13. CASE P!Settle
  <2>1. /\ UNCHANGED <<began, todo, slot, budget, policy, reported, plan>>
        /\ AtLevel /\ phase' \notin {"iterate", "evaluate", "replan"}
    BY <1>13 DEF P!Settle, P!planVars, AtLevel
  <2>2. Live' = Live
    <3>1. Pending' = Pending
      BY <2>1 DEF Pending, P!Running
    <3>2. \/ found' = found
          \/ \E t \in Current : \E s \in {"completed", "failed"} :
               found[t] = "contribution" /\ found' = [found EXCEPT ![t] = s]
      BY <1>0, <1>13, SettleDoes
    <3>3. P!Ids(plan) \subseteq Subs /\ found \in [Subs -> P!Statuses \cup {"contribution", "none"}]
      BY <1>0, IdsAreFinite DEF P!PlannedTypeOK
    <3>4. \A t \in P!Ids(plan) : found'[t] \notin {"none", "blocked"} <=> found[t] \notin {"none", "blocked"}
      BY <3>2, <3>3
    <3> QED BY <2>1, <3>1, <3>4 DEF Live
  <2> QED BY <1>6, <2>1, <2>2
<1>14. CASE P!Merge
  <2>1. /\ phase = "merge" /\ AtLevel /\ ~ AtLevel' /\ UNCHANGED <<began, todo, budget, policy>>
    BY <1>14 DEF P!Merge, P!Goes, P!planVars, P!waveVars, AtLevel
  <2>2. Pending = {} /\ Len(todo) = 0
    BY <1>1, <2>1
  <2>3. P!RealRuns(reported') = P!RealRuns(reported) + Cardinality(Live)
    BY <1>0, <1>14, <2>2, MergeCounts
  <2>4. began <= P!RealRuns(reported')
    BY <1>2, <1>3, <1>5, <2>1, <2>2, <2>3
  <2> QED BY <1>4, <2>1, <2>4 DEF Paid
<1>15. ASSUME NEW p \in P!Pumps, P!PumpTakes(p)
       PROVE  Paid'
  <2>1. /\ todo' \in Seq(Subs) /\ began' \in Nat
        /\ began' + Len(todo') <= began + Len(todo)
        /\ phase' = phase \/ (phase = "wave" /\ phase' = "failing")
        /\ phase' = "wave" => Pending' = Pending
        /\ UNCHANGED <<policy, plan, found, reported, budget>>
    BY <1>0, <1>15, PumpTakesDoes DEF Taken, P!planVars
  <2>2. phase \in {"wave", "failing", "ended"}
    BY <1>0, <1>15 DEF P!PumpTakes, Quiet
  <2>3. AtLevel' => AtLevel /\ Live' = Live
    BY <2>1, <2>2 DEF AtLevel, Live
  <2>4. phase' \notin {"iterate", "evaluate", "replan"}
    BY <2>1, <2>2
  <2>5. Len(todo') \in Nat
    BY <2>1
  <2>6. began' + Len(todo') + budget' <= policy'.total
    BY <1>2, <1>4, <2>1, <2>5
  <2>7. AtLevel' => began' + Len(todo') <= P!RealRuns(reported') + Cardinality(Live')
    BY <1>2, <1>3, <1>5, <2>1, <2>3, <2>5
  <2> QED BY <2>4, <2>6, <2>7 DEF Paid
<1>16. ASSUME NEW p \in P!Pumps, P!WorkerReturns(p)
       PROVE  Paid'
  <2>1. /\ Pending' = Pending \ {slot[p]} /\ slot[p] \in P!Running
        /\ \/ phase' = phase /\ \E s \in Outcomes : found' = [found EXCEPT ![slot[p]] = s]
           \/ phase' = (IF phase = "wave" THEN "failing" ELSE phase) /\ found' = found
        /\ UNCHANGED <<policy, plan, reported, budget, todo, began>>
    BY <1>0, <1>16, WorkerReturnsDoes DEF Taken, P!planVars
  <2>2. phase \in {"wave", "failing", "ended"}
    BY <1>0, <1>16 DEF P!WorkerReturns, Quiet
  <2>3. ASSUME AtLevel'
        PROVE  AtLevel /\ Live' = Live
    <3>1. phase = "wave" /\ phase' = "wave"
      BY <2>1, <2>2, <2>3 DEF AtLevel
    <3>2. PICK s \in Outcomes : found' = [found EXCEPT ![slot[p]] = s]
      BY <2>1, <3>1
    <3>3. slot[p] \in P!Ids(plan) /\ slot[p] \in Pending
      BY <1>0, <2>1 DEF Taken, Pending, Current
    <3>4. \A x \in P!Ids(plan) : found'[x] = IF x = slot[p] THEN s ELSE found[x]
      BY <1>0, <3>2, IdsAreFinite DEF P!PlannedTypeOK
    <3>5. s \notin {"none", "blocked"}
      BY DEF Outcomes
    <3>6. Live' = {x \in P!Ids(plan) : found'[x] \notin {"none", "blocked"} \/ x \in Pending'}
      BY <2>1 DEF Live
    <3>7. Live' = Live
      BY <2>1, <3>3, <3>4, <3>5, <3>6 DEF Live
    <3> QED BY <3>1, <3>7 DEF AtLevel
  <2>4. phase' \notin {"iterate", "evaluate", "replan"}
    BY <2>1, <2>2
  <2> QED BY <1>6, <2>1, <2>3, <2>4
<1>17. CASE UNCHANGED P!vars
  <2>1. Live' = Live /\ (AtLevel' => AtLevel)
    BY <1>17 DEF P!vars, Live, Pending, P!Running, AtLevel
  <2> QED BY <1>6, <1>17, <2>1 DEF P!vars
<1> QED BY <1>7, <1>8, <1>9, <1>10, <1>11, <1>12, <1>13, <1>14, <1>15, <1>16, <1>17, NextPlannedCases

LEMMA NextJudged ==
  ASSUME P!PlannedAssumption, PlannedInv, [P!Next]_(P!vars)
  PROVE  WellJudged'
<1>0. P!PlannedTypeOK /\ PlanHolds /\ Taken /\ Quiet /\ WellJudged
  BY DEF PlannedInv
<1>1. ASSUME UNCHANGED <<conclusion, judged, reported>>,
             conclusion # "none" => phase' \in {"synthesize", "publish", "failing", "ended"}
      PROVE  WellJudged'
  BY <1>0, <1>1 DEF WellJudged, P!Unresolved
<1>2. CASE P!Judge
  <2>1. UNCHANGED <<judged, reported>> /\ phase' \in {"ended", "synthesize"}
    BY <1>2 DEF P!Judge
  <2>2. conclusion' = "succeeded" => judged = "sufficient" /\ P!Unresolved(reported) = {}
    BY <1>2 DEF P!Judge, P!Resolved
  <2> QED BY <2>1, <2>2 DEF WellJudged, P!Unresolved
<1>3. CASE P!Fail
  <2>1. UNCHANGED <<judged, reported>> /\ phase' = "ended"
    BY <1>3 DEF P!Fail
  <2>2. conclusion' = "succeeded" => conclusion = "succeeded"
    BY <1>3 DEF P!Fail
  <2> QED BY <1>0, <2>1, <2>2 DEF WellJudged, P!Unresolved
<1>4. CASE P!Evaluate \/ P!Merge
  <2>1. conclusion = "none" /\ conclusion' = "none"
    BY <1>0, <1>4 DEF P!Evaluate, P!Merge, WellJudged, P!endVars
  <2> QED BY <2>1 DEF WellJudged
<1>5. CASE P!Synthesize \/ P!Publish \/ P!Stop
  BY <1>0, <1>1, <1>5 DEF P!Synthesize, P!Publish, P!Stop, WellJudged, P!endVars
<1>6. CASE P!Planned \/ P!SoloTurn \/ P!SoloEnds \/ P!Replan \/ P!BeginIteration \/ (P!StartLevel /\ P!Stopped) \/ P!LevelsDone
           \/ P!WaveEnds \/ P!Settle
  BY <1>0, <1>1, <1>6 DEF P!Planned, P!SoloTurn, P!SoloEnds, P!Replan, P!BeginIteration, P!StartLevel, P!LevelsDone, P!WaveEnds,
                         P!Settle, WellJudged, P!endVars
<1>7. CASE P!StartLevel /\ ~ P!Stopped
  <2>1. PICK n : StartsWith(n)
    BY <1>0, <1>7, StartLevelDoes
  <2>2. UNCHANGED <<conclusion, judged, reported>> /\ conclusion = "none"
    BY <1>0, <1>7, <2>1 DEF StartsWith, P!StartLevel, WellJudged, P!endVars
  <2> QED BY <1>1, <2>2
<1>8. ASSUME NEW p \in P!Pumps, P!PumpTakes(p) \/ P!WorkerReturns(p)
      PROVE  WellJudged'
  <2>1. UNCHANGED <<conclusion, judged, reported>> /\ (phase' = phase \/ phase' = "failing")
    BY <1>8 DEF P!PumpTakes, P!WorkerReturns, P!endVars
  <2> QED BY <1>0, <1>1, <2>1 DEF WellJudged
<1>9. CASE UNCHANGED P!vars
  BY <1>0, <1>1, <1>9 DEF P!vars, WellJudged
<1> QED BY <1>2, <1>3, <1>4, <1>5, <1>6, <1>7, <1>8, <1>9, NextPlannedCases DEF Calm

(***************************************************************************)
(* The theorems.                                                           *)
(***************************************************************************)
LEMMA InitPlannedInv ==
  ASSUME P!PlannedAssumption, NEW start \in {"planning", "ended"}, P!Fresh(start)
  PROVE  PlannedInv
<1>1. P!PlannedTypeOK
  BY InitPlannedTypes
<1>2. PlanHolds
  <2>1. plan = <<>> /\ DOMAIN plan = {}
    BY DEF P!Fresh
  <2>2. P!Ids(plan) = {}
    BY <2>1 DEF P!Ids
  <2> QED BY <2>1, <2>2 DEF PlanHolds, Distinct, Layered
<1>3. todo = <<>> /\ Len(todo) = 0 /\ \A p \in P!Pumps : slot[p] = "off"
  BY DEF P!Fresh
<1>4. Pending = {}
  BY <1>1, <1>3, NothingPending
<1>5. Taken
  <2>1. P!Running = {} /\ Range(todo) = {}
    BY <1>4 DEF Pending
  <2>2. \A p \in P!Pumps : slot[p] \notin Subs
    BY <1>3 DEF P!PlannedAssumption
  <2> QED BY <1>3, <1>4, <2>1, <2>2 DEF Taken, Apart, NoRepeats
<1>6. Quiet /\ Levels /\ WellJudged
  BY <1>3 DEF P!Fresh, Quiet, Levels, AtLevel, WellJudged
<1>7. Reports
  BY FS_EmptySet DEF P!Fresh, Reports, AtLevel
<1>8. Paid
  <2>1. policy.total \in Nat
    BY <1>1, LimitsHold
  <2> QED BY <1>3, <2>1 DEF P!Fresh, Paid, AtLevel
<1> QED BY <1>1, <1>2, <1>5, <1>6, <1>7, <1>8 DEF PlannedInv

-----------------------------------------------------------------------------
(***************************************************************************)
(* Dispatch: each run keeps its invariant, the other one stands still.     *)
(***************************************************************************)
LEMMA NextPlannedInv == PlannedInv /\ [P!Next]_(P!vars) => PlannedInv'
BY PlansAssumption, NextPlannedTypes, NextPlanHolds, NextQuiet, NextTaken, NextLevels, NextReports,
   NextPaid, NextJudged DEF PlannedInv

AnyInv == Inv /\ PlannedInv

LEMMA InitAnyInv == AnyInit => AnyInv
<1> SUFFICES ASSUME AnyInit PROVE AnyInv
  OBVIOUS
<1>1. Inv
  BY InitInv DEF AnyInit, Init
<1>2. PlannedInv
  BY PlansAssumption, InitPlannedInv DEF AnyInit, P!Init
<1> QED BY <1>1, <1>2 DEF AnyInv

LEMMA StepOfOne ==
  ASSUME [AnyNext]_allVars
  PROVE  [Next]_vars /\ [P!Next]_(P!vars)
<1>1. plannedVars = P!vars /\ plannedVars' = (P!vars)'
  BY DEF plannedVars, P!vars
<1>2. CASE Next /\ UNCHANGED <<kind, plannedVars>>
  BY <1>1, <1>2
<1>3. CASE P!Next /\ UNCHANGED <<kind, vars>>
  BY <1>3
<1>4. CASE UNCHANGED allVars
  BY <1>1, <1>4 DEF allVars
<1> QED BY <1>2, <1>3, <1>4 DEF AnyNext

LEMMA AnyInvAlways == AnySpec => []AnyInv /\ [][Next]_vars /\ [][P!Next]_(P!vars)
<1>1. AnyInv /\ [AnyNext]_allVars => AnyInv'
  BY StepOfOne, NextInv, NextPlannedInv DEF AnyInv
<1>2. [AnyNext]_allVars => [Next]_vars /\ [P!Next]_(P!vars)
  BY StepOfOne
<1> QED BY <1>1, <1>2, InitAnyInv, PTL DEF AnySpec

(***************************************************************************)
(* Type correctness of both kinds of run.                                  *)
(***************************************************************************)
THEOREM TypeCorrect == AnySpec => [](TypeOK /\ P!PlannedTypeOK)
<1>1. AnyInv => TypeOK /\ P!PlannedTypeOK
  BY DEF AnyInv, Inv, PlannedInv
<1> QED BY <1>1, AnyInvAlways, PTL

(***************************************************************************)
(* No dependent stays parked behind a producer that failed of itself once  *)
(* nothing is under way, whatever the order in which the dependent was     *)
(* parked and the failure recorded.                                        *)
(***************************************************************************)
THEOREM FailuresReachDependents == AnySpec => []FailureReachesDependents
<1>1. Inv => FailureReachesDependents
  <2> SUFFICES ASSUME Inv, AtRest, NEW t \in Tasks, Parked(t),
                      NEW r \in durable, r[1] \in Deps(t), r[2] \in Bad \ {"blocked"}
               PROVE  FALSE
    BY DEF FailureReachesDependents
  <2>1. Sought(t, r)
    BY DEF Inv, AtRest, FailuresFollowed
  <2>2. \A l \in Loops : ~Walking(l)
    BY Loopers DEF Inv, AtRest, StopLasts, Walking, At
  <2> QED BY <2>1, <2>2 DEF Sought, AtRest
<1> QED BY <1>1, AnyInvAlways, PTL DEF AnyInv

(***************************************************************************)
(* Over all iterations, with workers in parallel and plans cut to size, a  *)
(* run never starts more workers than maxTotalWorkerRuns.                  *)
(***************************************************************************)
THEOREM WorkersArePaid == AnySpec => []BudgetHolds
<1>1. PlannedInv => BudgetHolds
  <2> SUFFICES ASSUME PlannedInv PROVE BudgetHolds
    OBVIOUS
  <2>1. /\ began + Len(todo) + budget <= policy.total /\ began \in Nat /\ budget \in Nat
        /\ Len(todo) \in Nat /\ policy.total \in Nat
    BY PlansAssumption, LimitsHold DEF PlannedInv, Paid, P!PlannedTypeOK
  <2> QED BY <2>1 DEF BudgetHolds, P!BudgetHolds
<1> QED BY <1>1, AnyInvAlways, PTL DEF AnyInv

(***************************************************************************)
(* A planned run that ended as a success was judged sufficient, with       *)
(* nothing failed, blocked or cancelled in any of its iterations.          *)
(***************************************************************************)
THEOREM SuccessesAreEarned == AnySpec => []SuccessIsEarned
<1>1. PlannedInv => SuccessIsEarned
  <2> SUFFICES ASSUME PlannedInv, conclusion = "succeeded"
               PROVE  judged = "sufficient" /\ \A r \in reported : r[3] \in {"completed", "timed_out"}
    BY DEF SuccessIsEarned, P!SuccessIsEarned
  <2>1. judged = "sufficient" /\ P!Unresolved(reported) = {}
    BY DEF PlannedInv, WellJudged
  <2>2. \A r \in reported : r[3] \in P!Statuses
    BY DEF PlannedInv, P!PlannedTypeOK
  <2> QED BY <2>1, <2>2 DEF P!Unresolved, P!Statuses
<1> QED BY <1>1, AnyInvAlways, PTL DEF AnyInv

\* The starts of the two kinds of run.
LiveStart ==
  \A a \in Turns : place[a] = "begin" /\ place'[a] = "running" =>
     \A d \in Deps(Task(a)) :
       IF Healing THEN node[d] = "completed" ELSE <<d, "completed">> \in memory

LEMMA LiveStartWaits == Inv /\ [Next]_vars => [LiveStart]_vars
<1>1. ASSUME Inv, Next, NEW a \in Turns, place[a] = "begin", place'[a] = "running",
             NEW d \in Deps(Task(a))
      PROVE  IF Healing THEN node[d] = "completed" ELSE <<d, "completed">> \in memory
  <2> USE <1>1, Loopers DEF Inv
  <2>1. PlainStep(a)
    <3>1. \A b \in Turns : PlainStep(b) => b = a
      <4> SUFFICES ASSUME NEW b \in Turns, PlainStep(b), b # a
                   PROVE  FALSE
        OBVIOUS
      <4>1. \E p \in Places : At1(b, p)
        BY PlainDoes DEF Steps, StepTo
      <4> QED BY <4>1 DEF At1
    <3>2. (\A b \in Turns : ~PlainStep(b)) => place'[a] \in {place[a], "begin"} \cup Later
      BY OthersComplete
    <3> QED BY <3>1, <3>2 DEF Later
  <2>2. PICK p \in Places : StepTo(a, p)
    BY <2>1, PlainDoes DEF Steps
  <2>3. p = "running"
    BY <2>2 DEF StepTo, At1
  <2>4. (Healing \/ Handed(Task(a))) /\ \A r \in Upstream(Task(a)) : r[2] = "completed"
    BY <2>2, <2>3 DEF StepTo
  <2>5. CASE Healing
    BY <2>5 DEF BeginsReady, Ready, Incomplete
  <2>6. CASE ~Healing
    <3>1. PICK r \in memory : r[1] = d
      BY <2>4, <2>6 DEF Handed, Reported
    <3>2. r[2] = "completed" /\ r = <<r[1], r[2]>>
      BY <2>4, <3>1 DEF Upstream, TypeOK
    <3> QED BY <2>6, <3>1, <3>2
  <2> QED BY <2>5, <2>6
<1> QED BY <1>1 DEF LiveStart

PlannedStart ==
  \A t \in Subs : (\E p \in P!Pumps : slot[p] # t /\ slot'[p] = t) =>
     \A d \in P!Known(plan, t) : found[d] = "completed"

LEMMA PlannedStartWaits ==
  ASSUME PlannedInv, [P!Next]_(P!vars)
  PROVE  [PlannedStart]_(P!vars)
<1> USE PlansAssumption
<1>0. P!PlannedTypeOK /\ PlanHolds /\ Taken
  BY DEF PlannedInv
<1> SUFFICES ASSUME NEW t \in Subs, NEW p \in P!Pumps, slot[p] # t, slot'[p] = t
             PROVE  P!Met(t)
  BY DEF P!Met, PlannedStart
<1>1. CASE slot' = slot
  BY <1>1
<1>2. CASE P!StartLevel /\ ~ P!Stopped
  <2>1. PICK n : StartsWith(n)
    BY <1>0, <1>2, StartLevelDoes
  <2>2. slot' \in [P!Pumps -> States] /\ \A x \in Pending' : P!Met(x)
    BY <2>1 DEF StartsWith
  <2>3. P!Running' = {x \in Subs : \E q \in P!Pumps : slot'[q] = x}
    BY <2>2, SlotsHold DEF P!Running
  <2> QED BY <2>2, <2>3 DEF Pending
<1>3. ASSUME NEW q \in P!Pumps, P!PumpTakes(q)
      PROVE  P!Met(t)
  <2>1. /\ \A x \in P!Pumps : x # q => slot'[x] = slot[x]
        /\ slot'[q] \in Subs => slot'[q] \in Range(todo)
    BY <1>0, <1>3, PumpTakesDoes DEF Taken
  <2>2. t \in Range(todo)
    BY <2>1
  <2> QED BY <1>0, <2>2 DEF Taken, Pending
<1>4. ASSUME NEW q \in P!Pumps, P!WorkerReturns(q)
      PROVE  FALSE
  <2>1. /\ \A x \in P!Pumps : x # q => slot'[x] = slot[x]
        /\ slot'[q] \in {"free", "off"}
    BY <1>0, <1>4, WorkerReturnsDoes DEF Taken
  <2> QED BY <2>1 DEF P!PlannedAssumption
<1>5. CASE Calm
  BY <1>1, <1>5, CalmDoes DEF P!waveVars
<1>6. CASE P!BeginIteration \/ (P!StartLevel /\ P!Stopped) \/ P!LevelsDone \/ P!WaveEnds \/ P!Settle \/ P!Merge
  BY <1>1, <1>6 DEF P!BeginIteration, P!StartLevel, P!LevelsDone, P!WaveEnds, P!Settle, P!Merge, P!waveVars
<1>7. CASE UNCHANGED P!vars
  BY <1>1, <1>7 DEF P!vars
<1> QED BY <1>1, <1>2, <1>3, <1>4, <1>5, <1>6, <1>7, NextPlannedCases

(***************************************************************************)
(* A worker starts a task only when every producer of it has completed:    *)
(* in a live run, whatever was parked, resumed or begun twice meanwhile,   *)
(* and in a planned one, in whatever order the pumps of a level take, lose *)
(* and settle their subtasks.                                              *)
(***************************************************************************)
THEOREM ProducersAlwaysFirst == AnySpec => ProducersFirst
<1>1. AnyInv /\ [Next]_vars => [LiveStart]_vars
  BY LiveStartWaits DEF AnyInv
<1>2. AnyInv /\ [P!Next]_(P!vars) => [PlannedStart]_(P!vars)
  BY PlannedStartWaits DEF AnyInv
<1>3. DependentsWait <=> [][LiveStart]_vars
  BY DEF DependentsWait, LiveStart
<1>4. P!ProducersFirst <=> [][PlannedStart]_(P!vars)
  BY DEF P!ProducersFirst, PlannedStart
<1> QED BY <1>1, <1>2, <1>3, <1>4, AnyInvAlways, PTL DEF ProducersFirst

=============================================================================
