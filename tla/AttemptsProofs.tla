--------------------------- MODULE AttemptsProofs ---------------------------
(***************************************************************************)
(* Theorems about Attempts: any graph and pruned families in a tournament, *)
(* any runs, lives and page size in the history, any jobs, any servers and *)
(* crashes on the shared files, any events, limits and faults of a turn,   *)
(* any messages and thresholds of the detector.                            *)
(***************************************************************************)
EXTENDS Attempts, TLAPS, FiniteSetTheorems, SequenceTheorems, WellFoundedInduction

(* The components count as the library does.                               *)
LEMMA Counts ==
    ASSUME NEW Z
    PROVE  /\ E!Cardinality(Z) = Cardinality(Z) /\ (E!IsFiniteSet(Z) <=> IsFiniteSet(Z))
           /\ S!Cardinality(Z) = Cardinality(Z)
           /\ W!Cardinality(Z) = Cardinality(Z)
<1> QED  BY DEF E!Cardinality, S!Cardinality, W!Cardinality, Cardinality,
                E!IsFiniteSet, S!IsFiniteSet, W!IsFiniteSet, IsFiniteSet

(***************************************************************************)
(* RepairTournament.                                                       *)
(***************************************************************************)

Undeclared == {"idle", "claim", "diagnose", "attach", "start", "freeze", "declare"}
Racing == {"bind", "prune", "admit", "launch", "race", "rank"}
Promoting == {"promote", "squashed", "settle", "integrate", "finish"}

(* The node's tournament, its fence and its place in the code agree.       *)
FenceHeld(n) ==
    /\ control # "down" =>
          /\ fence = n <=> phase[n] \in Racing \cup Promoting
          /\ tour[n] = "running" <=> phase[n] \in Racing
          /\ tour[n] = "promotion_pending" <=> phase[n] \in Promoting
    /\ phase[n] \in Undeclared => tour[n] = "none"
    /\ tour[n] = "promoted" => phase[n] = "done" /\ integrated[n]

(* A candidate is at rest before its launch and once its tournament ranks. *)
Raced(n, f) ==
    /\ phase[n] \in Undeclared \cup {"bind", "prune", "admit"} \/ f \in history[n] => step[n][f] = "none"
    /\ phase[n] \in Promoting \cup {"rank"} \/ tour[n] = "promoted" => step[n][f] \in {"none", "ended"}

(* What a candidate's state says of its verifications. *)
Verified(n, f) ==
    /\ cand[n][f].state = "verified" =>
          cand[n][f].first = "pass" /\ cand[n][f].second = "pass" /\ ~cand[n][f].blamed
    /\ cand[n][f].state = "pruned_duplicate" => f \in history[n]
    /\ step[n][f] \in {"run", "first", "second"} => cand[n][f].state # "verified"

Beats(n, f, g) == T!BeforeOf(cand[n][f], cand[n][g])

Earned(n) ==
    /\ winner[n] \in T!Families
    /\ cand[n][winner[n]].first = "pass" /\ cand[n][winner[n]].second = "pass"
    /\ winner[n] # "control" =>
          /\ "control" \in history[n] \/ (cand[n]["control"].second # "none" /\ ~cand[n]["control"].blamed)
          /\ cand[n]["control"].state \in {"verified", "pruned_duplicate", "rejected"}
          /\ cand[n]["control"].state = "verified" => cand[n][winner[n]].progress > cand[n]["control"].progress
          /\ \A f \in Mutants \ {winner[n]} : cand[n][f].state = "verified" => Beats(n, winner[n], f)

WinnerEarned(n) ==
    (control # "down" /\ phase[n] \in Promoting) \/ tour[n] = "promoted" => Earned(n)

TInv ==
    /\ T!TypeOK
    /\ T!FenceStandsForOne
    /\ \A n \in GraphNodes : FenceHeld(n)
    /\ \A n \in GraphNodes, f \in T!Families : Raced(n, f)
    /\ \A n \in GraphNodes, f \in T!Families : Verified(n, f)
    /\ \A n \in GraphNodes : WinnerEarned(n)

LEMMA InitTInv == T!Init => TInv
<1> SUFFICES ASSUME T!Init PROVE TInv  OBVIOUS
<1>1. T!TypeOK
  BY TournamentsAssumption DEF T!Init, T!TypeOK, T!TournamentAssumption, T!Candidate, T!NoCandidate, T!Families
<1>2. T!FenceStandsForOne /\ \A n \in GraphNodes : FenceHeld(n)
  BY TournamentsAssumption DEF T!Init, T!FenceStandsForOne, FenceHeld, T!TournamentAssumption, Racing, Promoting, Undeclared
<1>3. \A n \in GraphNodes, f \in T!Families : Raced(n, f) /\ Verified(n, f)
  BY DEF T!Init, Raced, Verified, T!NoCandidate, Undeclared, Promoting
<1>4. \A n \in GraphNodes : WinnerEarned(n)
  BY DEF T!Init, WinnerEarned, Promoting
<1> QED  BY <1>1, <1>2, <1>3, <1>4 DEF TInv

(* What ends one tournament leaves every other one alone. *)
LEMMA FinishTInv ==
    ASSUME TInv, NEW m \in GraphNodes, NEW end \in {"failed", "cancelled", "promoted", "rolled_back"},
           control # "down", phase[m] \in Racing \cup Promoting, T!Finish(m, end),
           end = "promoted" => phase[m] = "finish" /\ integrated[m]
    PROVE  TInv'
<1> USE TournamentsAssumption DEF T!TournamentAssumption
<1>0. cand' \in [GraphNodes -> [T!Families -> T!Candidate]]
  <2>1. ASSUME NEW f \in T!Families PROVE T!Swept(cand[m][f]) \in T!Candidate
    <3>1. cand[m][f] \in T!Candidate  BY DEF TInv, T!TypeOK
    <3> QED  BY <3>1 DEF T!Swept, T!Candidate
  <2>2. ASSUME NEW f \in T!Families, end \in {"promoted", "rolled_back"}
        PROVE  [cand[m][f] EXCEPT !.state = end] \in T!Candidate
    <3>1. cand[m][f] \in T!Candidate  BY DEF TInv, T!TypeOK
    <3> QED  BY <3>1, <2>2 DEF T!Candidate
  <2> QED  BY <2>1, <2>2 DEF TInv, T!TypeOK, T!Finish
<1>1. T!TypeOK'
  BY <1>0 DEF TInv, T!TypeOK, T!Finish, T!EndsAs, T!To, T!outsideVars
<1>2. T!FenceStandsForOne'
  BY DEF TInv, T!TypeOK, T!Finish, T!EndsAs, T!To, T!outsideVars, T!FenceStandsForOne
<1>3. ASSUME NEW n \in GraphNodes PROVE FenceHeld(n)'
  BY <1>3 DEF TInv, T!TypeOK, T!Finish, T!EndsAs, T!To, T!outsideVars, FenceHeld, Racing, Promoting, Undeclared
<1>4. ASSUME NEW n \in GraphNodes, NEW f \in T!Families PROVE Raced(n, f)'
  BY <1>4 DEF TInv, T!TypeOK, T!Finish, T!EndsAs, T!To, T!outsideVars, Raced, Racing, Promoting, Undeclared
<1>5. ASSUME NEW n \in GraphNodes, NEW f \in T!Families PROVE Verified(n, f)'
  BY <1>5 DEF TInv, T!TypeOK, T!Finish, T!EndsAs, T!To, T!outsideVars, Verified, T!Swept, T!Candidate
<1>6. ASSUME NEW n \in GraphNodes PROVE WinnerEarned(n)'
  <2>1. CASE n # m
    BY <2>1, <1>6 DEF TInv, T!TypeOK, T!Finish, T!EndsAs, T!To, T!outsideVars, WinnerEarned, Earned, Beats, T!BeforeOf
  <2>2. CASE n = m /\ end = "promoted"
    <3>1. Earned(m) /\ winner[m] \in T!Families
      BY <2>2 DEF TInv, WinnerEarned, Earned, Promoting
    <3>2. \A f \in T!Families : /\ cand'[m][f].first = cand[m][f].first /\ cand'[m][f].second = cand[m][f].second
                                /\ cand'[m][f].progress = cand[m][f].progress /\ cand'[m][f].cost = cand[m][f].cost
                                /\ cand'[m][f].blamed = cand[m][f].blamed
                                /\ f # winner[m] => cand'[m][f].state = cand[m][f].state
      <4>1. \A f \in T!Families : cand[m][f] \in T!Candidate  BY DEF TInv, T!TypeOK
      <4>2. \A f \in T!Families : cand'[m][f] = IF f = winner[m] THEN [cand[m][f] EXCEPT !.state = end] ELSE cand[m][f]
        BY <2>2 DEF TInv, T!TypeOK, T!Finish
      <4> SUFFICES ASSUME NEW f \in T!Families
                   PROVE  /\ cand'[m][f].first = cand[m][f].first /\ cand'[m][f].second = cand[m][f].second
                          /\ cand'[m][f].progress = cand[m][f].progress /\ cand'[m][f].cost = cand[m][f].cost
                          /\ cand'[m][f].blamed = cand[m][f].blamed
                          /\ f # winner[m] => cand'[m][f].state = cand[m][f].state
        OBVIOUS
      <4>3. CASE f = winner[m]
        <5>1. cand'[m][f] = [cand[m][f] EXCEPT !.state = end]  BY <4>2, <4>3
        <5> QED  BY <5>1, <4>1, <4>3 DEF T!Candidate
      <4>4. CASE f # winner[m]
        BY <4>4, <4>2
      <4> QED  BY <4>3, <4>4
    <3>3. winner' = winner /\ history' = history  BY DEF T!Finish, T!outsideVars
    <3>4. "control" \in T!Families /\ Mutants \subseteq T!Families  BY DEF T!Families
    <3>5. Earned(m)'
      <4>1. ASSUME NEW f \in Mutants \ {winner[m]}, cand'[m][f].state = "verified",
                   winner[m] # "control"
            PROVE  Beats(m, winner[m], f)'
        <5>1. f \in T!Families /\ f # winner[m] /\ f \in Mutants \ {winner[m]}  BY <4>1, <3>4
        <5>3. cand[m][f].state = "verified"  BY <4>1, <3>2, <5>1
        <5>2. Beats(m, winner[m], f)  BY <4>1, <3>1, <5>1, <5>3 DEF Earned
        <5> QED  BY <5>2, <3>1, <3>2, <3>3, <3>4, <4>1 DEF Beats, T!BeforeOf
      <4> QED  BY <4>1, <3>1, <3>2, <3>3, <3>4 DEF Earned
    <3> QED  BY <2>2, <3>5 DEF WinnerEarned
  <2>3. CASE n = m /\ end # "promoted"
    BY <2>3 DEF TInv, T!TypeOK, T!Finish, T!EndsAs, T!To, T!outsideVars, WinnerEarned, Promoting
  <2> QED  BY <2>1, <2>2, <2>3
<1> QED  BY <1>1, <1>2, <1>3, <1>4, <1>5, <1>6 DEF TInv

(* Nor does a step that touches nothing of a tournament but where it is.   *)
LEMMA MoveTInv ==
    ASSUME TInv, NEW m \in GraphNodes, control # "down", T!TypeOK', UNCHANGED <<T!tournamentVars, T!outsideVars>>,
           NEW p, T!To(m, p),
           \/ phase[m] \in Undeclared /\ p \in Undeclared \cup {"done"}
           \/ phase[m] \in Racing /\ p = "prune" /\ phase[m] \in {"bind"}
           \/ phase[m] \in Promoting /\ p \in Promoting
    PROVE  TInv'
<1> USE TournamentsAssumption DEF T!TournamentAssumption
<1>2. T!FenceStandsForOne'
  BY DEF TInv, T!FenceStandsForOne, T!tournamentVars
<1>3. ASSUME NEW n \in GraphNodes PROVE FenceHeld(n)'
  BY <1>3 DEF TInv, T!TypeOK, T!To, T!tournamentVars, T!outsideVars, FenceHeld, Racing, Promoting, Undeclared
<1>4. ASSUME NEW n \in GraphNodes, NEW f \in T!Families PROVE Raced(n, f)'
  BY <1>4 DEF TInv, T!TypeOK, T!To, T!tournamentVars, T!outsideVars, Raced, Racing, Promoting, Undeclared
<1>5. ASSUME NEW n \in GraphNodes, NEW f \in T!Families PROVE Verified(n, f)'
  BY <1>5 DEF TInv, T!tournamentVars, T!outsideVars, Verified
<1>6. ASSUME NEW n \in GraphNodes PROVE WinnerEarned(n)'
  BY <1>6 DEF TInv, T!TypeOK, T!To, T!tournamentVars, T!outsideVars, WinnerEarned, Earned, Beats, T!BeforeOf, Promoting, Undeclared, Racing
<1> QED  BY <1>2, <1>3, <1>4, <1>5, <1>6 DEF TInv


(* A step of one candidate that runs: its tournament neither ranks nor has *)
(* promoted, so no verdict on it has been drawn.                           *)
LEMMA PatchTInv ==
    ASSUME TInv, NEW m \in GraphNodes, NEW g \in T!Families, NEW c, NEW s, control # "down",
           step[m][g] \in {"run", "first", "second"}, T!Patch(m, g, c, s),
           c \in T!Candidate, s \in {"first", "second", "ended", "thrown"},
           c.state = "verified" => c.first = "pass" /\ c.second = "pass" /\ ~c.blamed,
           c.state # "pruned_duplicate" \/ c.state = cand[m][g].state,
           s \in {"first", "second"} => c.state # "verified"
    PROVE  TInv'
<1> USE TournamentsAssumption DEF T!TournamentAssumption
<1>0. /\ phase[m] \notin Undeclared \cup {"bind", "prune", "admit", "rank"} \cup Promoting
      /\ g \notin history[m] /\ tour[m] # "promoted"
  <2>1. Raced(m, g)  BY DEF TInv
  <2> QED  BY <2>1 DEF Raced
<1>1. T!TypeOK'
  BY DEF TInv, T!TypeOK, T!Patch, T!outsideVars
<1>2. T!FenceStandsForOne'
  BY DEF TInv, T!FenceStandsForOne, T!Patch
<1>3. ASSUME NEW n \in GraphNodes PROVE FenceHeld(n)'
  BY <1>3 DEF TInv, FenceHeld, T!Patch, T!outsideVars
<1>4. ASSUME NEW n \in GraphNodes, NEW f \in T!Families PROVE Raced(n, f)'
  BY <1>0, <1>4 DEF TInv, T!TypeOK, T!Patch, T!outsideVars, Raced
<1>5. ASSUME NEW n \in GraphNodes, NEW f \in T!Families PROVE Verified(n, f)'
  <2>1. cand'[n][f] = IF n = m /\ f = g THEN c ELSE cand[n][f]
    BY DEF TInv, T!TypeOK, T!Patch
  <2>2. /\ Verified(n, f) /\ history' = history
        /\ step'[n][f] = IF n = m /\ f = g THEN s ELSE step[n][f]
    BY DEF TInv, T!TypeOK, T!Patch, T!outsideVars
  <2> QED  BY <2>1, <2>2, <1>0 DEF Verified
<1>6. ASSUME NEW n \in GraphNodes PROVE WinnerEarned(n)'
  <2>1. CASE n = m
    BY <2>1, <1>0 DEF T!Patch, WinnerEarned
  <2>2. CASE n # m
    <3>1. cand'[n] = cand[n]  BY <2>2 DEF TInv, T!TypeOK, T!Patch
    <3> QED  BY <3>1 DEF TInv, T!Patch, T!outsideVars, WinnerEarned, Earned, Beats, T!BeforeOf
  <2> QED  BY <2>1, <2>2
<1> QED  BY <1>1, <1>2, <1>3, <1>4, <1>5, <1>6 DEF TInv

LEMMA ExecuteTInv ==
    ASSUME TInv, NEW m \in GraphNodes, NEW g \in T!Families, T!Execute(m, g)
    PROVE  TInv'
<1> DEFINE c == cand[m][g]
<1>0. c \in T!Candidate /\ (step[m][g] \in {"run", "first", "second"} => c.state # "verified")
  BY DEF TInv, T!TypeOK, Verified
<1>1. CASE T!TurnEnds(m, g)
  <2>1. CASE T!Patch(m, g, [c EXCEPT !.state = "verifying"], T!Onward("first"))
    BY <1>0, <1>1, <2>1, PatchTInv DEF T!TurnEnds, T!Onward, T!Candidate
  <2>2. CASE T!Patch(m, g, [c EXCEPT !.state = "rejected", !.blamed = TRUE], "ended")
    BY <1>0, <1>1, <2>2, PatchTInv DEF T!TurnEnds, T!Candidate
  <2>3. CASE T!Patch(m, g, [c EXCEPT !.state = "cancelled", !.blamed = TRUE], "ended")
    BY <1>0, <1>1, <2>3, PatchTInv DEF T!TurnEnds, T!Candidate
  <2> QED  BY <1>1, <2>1, <2>2, <2>3 DEF T!TurnEnds
<1>2. CASE T!VerifyFirst(m, g)
  <2>1. ASSUME NEW v \in T!Verdicts,
               T!Patch(m, g, [c EXCEPT !.first = v, !.state = "rejected", !.blamed = (v = "gate")], "ended")
        PROVE  TInv'
    BY <1>0, <1>2, <2>1, PatchTInv DEF T!VerifyFirst, T!Candidate, T!Verdicts
  <2>2. ASSUME NEW v \in T!Verdicts, T!Patch(m, g, [c EXCEPT !.first = v], T!Onward("second")),
               v = "pass" \/ g = "control"
        PROVE  TInv'
    BY <1>0, <1>2, <2>2, PatchTInv DEF T!VerifyFirst, T!Candidate, T!Verdicts, T!Onward
  <2>3. CASE T!Patch(m, g, [c EXCEPT !.state = "rejected", !.blamed = TRUE], "ended")
    BY <1>0, <1>2, <2>3, PatchTInv DEF T!VerifyFirst, T!Candidate
  <2>4. CASE T!Patch(m, g, c, "thrown")
    BY <1>0, <1>2, <2>4, PatchTInv DEF T!VerifyFirst
  <2> QED  BY <1>2, <2>1, <2>2, <2>3, <2>4 DEF T!VerifyFirst
<1>3. CASE T!VerifySecond(m, g)
  <2>1. ASSUME NEW v \in T!Verdicts, NEW p \in 0 .. 1, NEW r \in 0 .. 1,
               T!Patch(m, g, [c EXCEPT !.second = v, !.progress = p, !.cost = r,
                               !.state = IF c.first = "pass" /\ v = "pass" THEN "verified" ELSE "rejected",
                               !.blamed = ~(c.first = "pass" /\ v = "pass") /\ g # "control" /\ v = "gate"],
                     "ended")
        PROVE  TInv'
    BY <1>0, <1>3, <2>1, PatchTInv DEF T!VerifySecond, T!Candidate, T!Verdicts
  <2>2. CASE T!Patch(m, g, [c EXCEPT !.state = "rejected", !.blamed = TRUE], "ended")
    BY <1>0, <1>3, <2>2, PatchTInv DEF T!VerifySecond, T!Candidate
  <2>3. CASE T!Patch(m, g, c, "thrown")
    BY <1>0, <1>3, <2>3, PatchTInv DEF T!VerifySecond
  <2> QED  BY <1>3, <2>1, <2>2, <2>3 DEF T!VerifySecond
<1> QED  BY <1>1, <1>2, <1>3 DEF T!Execute


(* A candidate's step on the way to the race: no verdict has been drawn.   *)
LEMMA ReadyTInv ==
    ASSUME TInv, NEW m \in GraphNodes, NEW p, control # "down",
           phase[m] \in {"prune", "admit", "launch", "race"}, p \in {"admit", "launch", "race", "rank"}, T!To(m, p),
           UNCHANGED <<node, diagnosis, fence, tour, winner, settling, T!outsideVars>>,
           cand' \in [GraphNodes -> [T!Families -> T!Candidate]],
           step' \in [GraphNodes -> [T!Families -> {"none", "run", "first", "second", "ended", "thrown"}]],
           \A n \in GraphNodes \ {m} : cand'[n] = cand[n] /\ step'[n] = step[n],
           \A f \in T!Families : Verified(m, f)',
           \A f \in T!Families : (f \in history[m] => step'[m][f] = "none")
                              /\ (p = "admit" => step'[m][f] = "none")
                              /\ (p = "rank" => step'[m][f] \in {"none", "ended"})
    PROVE  TInv'
<1> USE TournamentsAssumption DEF T!TournamentAssumption
<1>0. phase[m] \in Racing /\ p \in Racing  BY DEF Racing
<1>1. T!TypeOK'
  BY DEF TInv, T!TypeOK, T!outsideVars, T!To
<1>2. T!FenceStandsForOne'
  BY DEF TInv, T!FenceStandsForOne
<1>3. ASSUME NEW n \in GraphNodes PROVE FenceHeld(n)'
  BY <1>0, <1>3 DEF TInv, T!TypeOK, FenceHeld, T!To, T!outsideVars, Undeclared, Racing, Promoting
<1>4. ASSUME NEW n \in GraphNodes, NEW f \in T!Families PROVE Raced(n, f)'
  <2>1. CASE n = m
    <3>1. phase'[m] = p /\ history' = history /\ tour' = tour /\ FenceHeld(m) /\ phase[m] \in Racing
      BY <1>0 DEF TInv, T!TypeOK, T!To, T!outsideVars
    <3>2. tour[m] # "promoted"  BY <3>1 DEF FenceHeld, Racing
    <3> QED  BY <2>1, <3>1, <3>2 DEF Raced, Undeclared, Promoting
  <2>2. CASE n # m
    BY <2>2 DEF TInv, T!TypeOK, Raced, T!To, T!outsideVars
  <2> QED  BY <2>1, <2>2
<1>5. ASSUME NEW n \in GraphNodes, NEW f \in T!Families PROVE Verified(n, f)'
  BY <1>5 DEF TInv, Verified, T!outsideVars
<1>6. ASSUME NEW n \in GraphNodes PROVE WinnerEarned(n)'
  <2>1. CASE n = m
    <3>1. phase'[m] = p /\ tour' = tour /\ FenceHeld(m) /\ phase[m] \in Racing
      BY <1>0 DEF TInv, T!TypeOK, T!To, T!outsideVars
    <3>2. tour[m] # "promoted"  BY <3>1 DEF FenceHeld, Racing
    <3> QED  BY <2>1, <3>1, <3>2 DEF WinnerEarned, Promoting
  <2>2. CASE n # m
    <3>1. /\ phase'[n] = phase[n] /\ tour' = tour /\ winner' = winner /\ cand'[n] = cand[n]
          /\ history' = history /\ control' = control /\ WinnerEarned(n)
      BY <2>2 DEF TInv, T!TypeOK, T!To, T!outsideVars
    <3> QED  BY <3>1 DEF WinnerEarned, Earned, Beats, T!BeforeOf
  <2> QED  BY <2>1, <2>2
<1> QED  BY <1>1, <1>2, <1>3, <1>4, <1>5, <1>6 DEF TInv

(* One candidate is given a state. *)
LEMMA StateGiven ==
    ASSUME T!TypeOK, NEW m \in GraphNodes, NEW g \in T!Families,
           NEW st \in {"pruned_duplicate", "admitted", "running", "promotion_pending"},
           cand' = [cand EXCEPT ![m][g].state = st]
    PROVE  /\ cand' \in [GraphNodes -> [T!Families -> T!Candidate]]
           /\ \A n \in GraphNodes \ {m} : cand'[n] = cand[n]
           /\ \A f \in T!Families \ {g} : cand'[m][f] = cand[m][f]
           /\ cand'[m][g] = [cand[m][g] EXCEPT !.state = st]
           /\ cand'[m][g].state = st
<1>1. cand[m][g] \in T!Candidate  BY DEF T!TypeOK
<1>2. [cand[m][g] EXCEPT !.state = st] \in T!Candidate /\ [cand[m][g] EXCEPT !.state = st].state = st
  BY <1>1 DEF T!Candidate
<1>3. cand'[m][g] = [cand[m][g] EXCEPT !.state = st]  BY DEF T!TypeOK
<1>4. \A f \in T!Families \ {g} : cand'[m][f] = cand[m][f]  BY DEF T!TypeOK
<1>5. \A n \in GraphNodes \ {m} : cand'[n] = cand[n]  BY DEF T!TypeOK
<1>6. cand' \in [GraphNodes -> [T!Families -> T!Candidate]]
  <2>1. cand' = [cand EXCEPT ![m] = [cand[m] EXCEPT ![g] = [cand[m][g] EXCEPT !.state = st]]]
    OBVIOUS
  <2>2. [cand[m] EXCEPT ![g] = [cand[m][g] EXCEPT !.state = st]] \in [T!Families -> T!Candidate]
    BY <1>2 DEF T!TypeOK
  <2> QED  BY <2>1, <2>2 DEF T!TypeOK
<1> QED  BY <1>2, <1>3, <1>4, <1>5, <1>6

LEMMA PruneTInv == ASSUME TInv, NEW m \in GraphNodes, T!Prune(m) PROVE TInv'
<1>1. CASE T!Finish(m, "failed")
  BY <1>1, FinishTInv DEF T!Prune, T!At, Racing
<1>2. CASE history[m] # T!Families
  <2> DEFINE pruned == [f \in T!Families |-> IF f \in history[m] THEN [cand[m][f] EXCEPT !.state = "pruned_duplicate"]
                                          ELSE cand[m][f]]
  <2>0. cand' = [cand EXCEPT ![m] = pruned]  BY <1>2 DEF T!Prune
  <2>1. ASSUME NEW f \in T!Families PROVE pruned[f] \in T!Candidate
    <3>1. cand[m][f] \in T!Candidate  BY DEF TInv, T!TypeOK
    <3> QED  BY <3>1 DEF T!Candidate
  <2>2. ASSUME NEW f \in T!Families PROVE Verified(m, f)'
    <3>1. Verified(m, f) /\ cand[m][f] \in T!Candidate /\ cand'[m][f] = pruned[f] /\ step' = step /\ history' = history
      BY <1>2, <2>0 DEF TInv, T!TypeOK, T!Prune, T!outsideVars
    <3>2. CASE f \in history[m]
      <4>1. cand'[m][f] = [cand[m][f] EXCEPT !.state = "pruned_duplicate"]  BY <3>1, <3>2
      <4>2. cand'[m][f].state = "pruned_duplicate"  BY <4>1, <3>1 DEF T!Candidate
      <4> QED  BY <4>2, <3>1, <3>2 DEF Verified
    <3>3. CASE f \notin history[m]
      BY <3>1, <3>3 DEF Verified
    <3> QED  BY <3>2, <3>3
  <2>3. ASSUME NEW f \in T!Families PROVE step'[m][f] = "none"
    BY <1>2, <2>3 DEF TInv, Raced, T!Prune, T!At
  <2>4. cand' \in [GraphNodes -> [T!Families -> T!Candidate]] /\ \A n \in GraphNodes \ {m} : cand'[n] = cand[n]
    BY <2>0, <2>1 DEF TInv, T!TypeOK
  <2> HIDE DEF pruned
  <2>5. /\ phase[m] = "prune" /\ control # "down" /\ T!To(m, "admit")
        /\ UNCHANGED <<node, diagnosis, fence, tour, winner, settling, T!outsideVars>> /\ step' = step
    BY <1>2 DEF T!Prune, T!At
  <2>6. step' \in [GraphNodes -> [T!Families -> {"none", "run", "first", "second", "ended", "thrown"}]]
    BY <2>5 DEF TInv, T!TypeOK
  <2> QED  BY <2>2, <2>3, <2>4, <2>5, <2>6, ReadyTInv
<1> QED  BY <1>1, <1>2 DEF T!Prune

LEMMA AdmitTInv == ASSUME TInv, NEW m \in GraphNodes, T!Admit(m) PROVE TInv'
<1>1. CASE T!Finish(m, "failed") \/ T!Finish(m, "cancelled")
  BY <1>1, FinishTInv DEF T!Admit, T!At, Racing
<1>2. ASSUME NEW g \in T!ToRun(m), cand' = [cand EXCEPT ![m][g].state = "admitted"], NEW p \in {"admit", "launch"},
             T!To(m, p), UNCHANGED <<node, diagnosis, fence, tour, winner, step, settling, T!outsideVars>>
      PROVE  TInv'
  <2>1. /\ cand' \in [GraphNodes -> [T!Families -> T!Candidate]] /\ \A n \in GraphNodes \ {m} : cand'[n] = cand[n]
        /\ \A f \in T!Families \ {g} : cand'[m][f] = cand[m][f]
        /\ cand'[m][g].state = "admitted"
    BY <1>2, StateGiven DEF TInv, T!ToRun
  <2>2. ASSUME NEW f \in T!Families PROVE step'[m][f] = "none" /\ Verified(m, f)'
    <3>1. Verified(m, f) /\ Raced(m, f)  BY DEF TInv
    <3> QED  BY <1>2, <2>1, <3>1 DEF Verified, Raced, T!Admit, T!At, T!outsideVars
  <2>3. phase[m] = "admit" /\ control # "down" /\ step' = step  BY <1>2 DEF T!Admit, T!At
  <2>4. step' \in [GraphNodes -> [T!Families -> {"none", "run", "first", "second", "ended", "thrown"}]]
    BY <2>3 DEF TInv, T!TypeOK
  <2> QED  BY <1>2, <2>1, <2>2, <2>3, <2>4, ReadyTInv
<1> QED  BY <1>1, <1>2 DEF T!Admit

LEMMA LaunchTInv == ASSUME TInv, NEW m \in GraphNodes, T!Launch(m) PROVE TInv'
<1>1. CASE T!Finish(m, "cancelled")
  BY <1>1, FinishTInv DEF T!Launch, T!At, Racing
<1>2. ASSUME NEW g \in T!ToRun(m), cand' = [cand EXCEPT ![m][g].state = "running"], NEW p \in {"race", "launch"},
             step' = [step EXCEPT ![m][g] = "run"],
             T!To(m, p), UNCHANGED <<node, diagnosis, fence, tour, winner, settling, T!outsideVars>>
      PROVE  TInv'
  <2>1. /\ cand' \in [GraphNodes -> [T!Families -> T!Candidate]] /\ \A n \in GraphNodes \ {m} : cand'[n] = cand[n]
        /\ \A f \in T!Families \ {g} : cand'[m][f] = cand[m][f]
        /\ cand'[m][g].state = "running"
    BY <1>2, StateGiven DEF TInv, T!ToRun
  <2>2. /\ step' \in [GraphNodes -> [T!Families -> {"none", "run", "first", "second", "ended", "thrown"}]]
        /\ \A n \in GraphNodes \ {m} : step'[n] = step[n]
        /\ \A f \in T!Families \ {g} : step'[m][f] = step[m][f]
    BY <1>2 DEF TInv, T!TypeOK, T!ToRun
  <2>3. ASSUME NEW f \in T!Families PROVE (f \in history[m] => step'[m][f] = "none") /\ Verified(m, f)'
    <3>1. Verified(m, f) /\ Raced(m, f)  BY DEF TInv
    <3> QED  BY <1>2, <2>1, <2>2, <3>1 DEF Verified, Raced, T!outsideVars, T!ToRun
  <2> QED  BY <1>2, <2>1, <2>2, <2>3, ReadyTInv DEF T!Launch, T!At, T!outsideVars
<1> QED  BY <1>1, <1>2 DEF T!Launch

LEMMA EndRaceTInv == ASSUME TInv, NEW m \in GraphNodes, T!EndRace(m) PROVE TInv'
<1>1. CASE T!Finish(m, "cancelled")
  BY <1>1, FinishTInv DEF T!EndRace, T!At, Racing
<1>2. CASE T!AllEnded(m) /\ ~(\E f \in T!ToRun(m) : step[m][f] = "thrown") /\ T!To(m, "rank")
           /\ UNCHANGED <<node, diagnosis, T!tournamentVars, settling, T!outsideVars>>
  <2>1. ASSUME NEW f \in T!Families
        PROVE  (f \in history[m] => step'[m][f] = "none") /\ Verified(m, f)' /\ step'[m][f] \in {"none", "ended"}
    <3>1. Verified(m, f) /\ Raced(m, f)  BY DEF TInv
    <3> QED  BY <1>2, <3>1 DEF Verified, Raced, T!outsideVars, T!tournamentVars, T!ToRun, T!AllEnded
  <2>2. /\ cand' = cand /\ step' = step /\ control # "down" /\ phase[m] = "race" /\ T!To(m, "rank")
        /\ UNCHANGED <<node, diagnosis, fence, tour, winner, settling, T!outsideVars>>
    BY <1>2 DEF T!EndRace, T!At, T!tournamentVars
  <2>3. /\ cand' \in [GraphNodes -> [T!Families -> T!Candidate]]
        /\ step' \in [GraphNodes -> [T!Families -> {"none", "run", "first", "second", "ended", "thrown"}]]
    BY <2>2 DEF TInv, T!TypeOK
  <2> QED  BY <2>1, <2>2, <2>3, ReadyTInv
<1> QED  BY <1>1, <1>2 DEF T!EndRace


(* Whoever is selected earned it: a mutant that is the only best one of    *)
(* the eligible also beats the ones that the control kept out.             *)
LEMMA SelectedEarned ==
    ASSUME TInv, NEW m \in GraphNodes, T!Selected(m) # "control"
    PROVE  /\ T!Selected(m) \in Mutants /\ cand[m][T!Selected(m)].state = "verified"
           /\ "control" \in history[m] \/ (cand[m]["control"].second # "none" /\ ~cand[m]["control"].blamed)
           /\ cand[m]["control"].state \in {"verified", "pruned_duplicate", "rejected"}
           /\ cand[m]["control"].state = "verified" => cand[m][T!Selected(m)].progress > cand[m]["control"].progress
           /\ \A f \in Mutants \ {T!Selected(m)} : cand[m][f].state = "verified" => Beats(m, T!Selected(m), f)
<1> DEFINE w == T!Selected(m)
<1>1. T!Comparable(m) /\ w \in T!SoleBest(m)
  BY DEF T!Selected
<1> HIDE DEF w
<1>2. w \in T!Eligible(m) /\ \A g \in T!Eligible(m) \ {w} : T!BeforeOf(cand[m][w], cand[m][g])
  BY <1>1 DEF T!SoleBest
<1>3. /\ w \in Mutants /\ cand[m][w].state = "verified"
      /\ cand[m]["control"].state = "verified" => cand[m][w].progress > cand[m]["control"].progress
  BY <1>2 DEF T!Eligible
<1>4. Verified(m, "control")
  BY DEF TInv, T!Families
<1>5. /\ "control" \in history[m] \/ (cand[m]["control"].second # "none" /\ ~cand[m]["control"].blamed)
      /\ cand[m]["control"].state \in {"verified", "pruned_duplicate", "rejected"}
  BY <1>1, <1>4 DEF T!Comparable, T!ControlFailed, Verified
<1>6. ASSUME NEW f \in Mutants \ {w}, cand[m][f].state = "verified" PROVE Beats(m, w, f)
  <2>1. CASE f \in T!Eligible(m)
    BY <2>1, <1>2, <1>6 DEF Beats
  <2>2. CASE f \notin T!Eligible(m)
    <3>1. cand[m]["control"].state = "verified" /\ ~(cand[m][f].progress > cand[m]["control"].progress)
      BY <2>2, <1>6 DEF T!Eligible
    <3>2. cand[m][f] \in T!Candidate /\ cand[m][w] \in T!Candidate /\ cand[m]["control"] \in T!Candidate
      BY <1>3 DEF TInv, T!TypeOK, T!Families
    <3>3. /\ cand[m][f].progress \in Nat /\ cand[m][w].progress \in Nat
          /\ cand[m]["control"].progress \in Nat
      BY <3>2 DEF T!Candidate
    <3> QED  BY <3>1, <3>3, <1>3 DEF Beats, T!BeforeOf
  <2> QED  BY <2>1, <2>2
<1> QED  BY <1>3, <1>5, <1>6 DEF w

LEMMA RankTInv == ASSUME TInv, NEW m \in GraphNodes, T!Rank(m) PROVE TInv'
<1> USE TournamentsAssumption DEF T!TournamentAssumption
<1>1. CASE T!Finish(m, "failed")
  BY <1>1, FinishTInv DEF T!Rank, T!At, Racing
<1>2. CASE ~T!Finish(m, "failed")
  <2> DEFINE w == T!Selected(m)
  <2>0. /\ cand[m][w].state = "verified" /\ cand' = [cand EXCEPT ![m][w].state = "promotion_pending"]
        /\ tour' = [tour EXCEPT ![m] = "promotion_pending"] /\ winner' = [winner EXCEPT ![m] = w]
        /\ phase[m] = "rank" /\ control # "down" /\ T!To(m, "promote")
        /\ UNCHANGED <<node, diagnosis, fence, step, settling, T!outsideVars>>
    BY <1>2 DEF T!Rank, T!At
  <2>a. w \in T!Families
    BY SelectedEarned DEF T!Families
  <2>b. w # "control" =>
           /\ "control" \in history[m] \/ (cand[m]["control"].second # "none" /\ ~cand[m]["control"].blamed)
           /\ cand[m]["control"].state \in {"verified", "pruned_duplicate", "rejected"}
           /\ cand[m]["control"].state = "verified" => cand[m][w].progress > cand[m]["control"].progress
           /\ \A f \in Mutants \ {w} : cand[m][f].state = "verified" => Beats(m, w, f)
    BY SelectedEarned
  <2> HIDE DEF w
  <2>1. /\ cand' \in [GraphNodes -> [T!Families -> T!Candidate]] /\ \A n \in GraphNodes \ {m} : cand'[n] = cand[n]
        /\ \A f \in T!Families \ {w} : cand'[m][f] = cand[m][f]
        /\ cand'[m][w] = [cand[m][w] EXCEPT !.state = "promotion_pending"]
        /\ cand'[m][w].state = "promotion_pending"
    <3>1. T!TypeOK /\ cand' = [cand EXCEPT ![m][w].state = "promotion_pending"]  BY <2>0 DEF TInv
    <3> QED  BY <3>1, <2>a, StateGiven
  <2>2. /\ cand'[m][w].first = cand[m][w].first /\ cand'[m][w].second = cand[m][w].second
        /\ cand'[m][w].progress = cand[m][w].progress /\ cand'[m][w].cost = cand[m][w].cost
    <3>1. cand[m][w] \in T!Candidate  BY <2>a DEF TInv, T!TypeOK
    <3> QED  BY <2>1, <3>1 DEF T!Candidate
  <2>3. T!TypeOK'
    BY <2>0, <2>1, <2>a DEF TInv, T!TypeOK, T!To, T!outsideVars
  <2>4. \A f \in T!Families : Verified(m, f) /\ Raced(m, f)
    BY DEF TInv
  <2>5. T!FenceStandsForOne'
    <3>1. fence = m  BY <2>0 DEF TInv, FenceHeld, Racing
    <3> QED  BY <2>0, <3>1 DEF TInv, T!TypeOK, T!FenceStandsForOne
  <2>6. ASSUME NEW n \in GraphNodes PROVE FenceHeld(n)'
    BY <2>0, <2>6 DEF TInv, T!TypeOK, T!To, T!outsideVars, FenceHeld, Racing, Promoting, Undeclared
  <2>7. ASSUME NEW n \in GraphNodes, NEW f \in T!Families PROVE Raced(n, f)'
    BY <2>0, <2>7 DEF TInv, T!TypeOK, T!To, T!outsideVars, Raced, Promoting, Undeclared
  <2>8. ASSUME NEW n \in GraphNodes, NEW f \in T!Families PROVE Verified(n, f)'
    <3>1. Verified(n, f) /\ step' = step /\ history' = history  BY <2>0 DEF TInv, T!outsideVars
    <3> QED  BY <2>1, <3>1 DEF Verified
  <2>9. ASSUME NEW n \in GraphNodes PROVE WinnerEarned(n)'
    <3>1. CASE n # m
      <4>1. /\ phase'[n] = phase[n] /\ tour'[n] = tour[n] /\ winner'[n] = winner[n] /\ cand'[n] = cand[n]
            /\ history' = history /\ control' = control /\ WinnerEarned(n)
        BY <2>0, <2>1, <3>1 DEF TInv, T!TypeOK, T!To, T!outsideVars
      <4> QED  BY <4>1 DEF WinnerEarned, Earned, Beats, T!BeforeOf
    <3>2. CASE n = m
      <4>1. winner'[m] = w /\ history' = history  BY <2>0 DEF TInv, T!TypeOK, T!outsideVars
      <4>2. cand[m][w].first = "pass" /\ cand[m][w].second = "pass"
        BY <2>0, <2>4, <2>a DEF Verified
      <4>3. "control" \in T!Families /\ Mutants \subseteq T!Families  BY DEF T!Families
      <4>4. ASSUME w # "control", NEW f \in Mutants \ {w}, cand'[m][f].state = "verified"
            PROVE  Beats(m, w, f) /\ T!BeforeOf(cand'[m][w], cand'[m][f])
        <5>1. cand'[m][f] = cand[m][f]  BY <2>1, <4>3, <4>4
        <5>2. Beats(m, w, f)  BY <4>4, <5>1, <2>b
        <5> QED  BY <5>1, <5>2, <2>2 DEF Beats, T!BeforeOf
      <4>5. w # "control" => cand'[m]["control"] = cand[m]["control"]
        BY <2>1, <4>3
      <4>6. Earned(m)'
        BY <4>1, <4>2, <4>4, <4>5, <2>2, <2>a, <2>b DEF Earned, Beats
      <4> QED  BY <4>6, <3>2 DEF WinnerEarned
    <3> QED  BY <3>1, <3>2
  <2> QED  BY <2>3, <2>5, <2>6, <2>7, <2>8, <2>9 DEF TInv
<1> QED  BY <1>1, <1>2

LEMMA DeclareTInv == ASSUME TInv, NEW m \in GraphNodes, T!Declare(m) PROVE TInv'
<1> USE TournamentsAssumption DEF T!TournamentAssumption
<1>1. CASE fence # NoNode \/ replanned[m]
  <2>1. T!TypeOK'
    BY <1>1 DEF TInv, T!TypeOK, T!Declare, T!To, T!outsideVars
  <2> QED  BY <1>1, <2>1, MoveTInv DEF T!Declare, T!At, T!tournamentVars, Undeclared
<1>2. CASE fence = NoNode /\ ~replanned[m]
  <2> DEFINE declared == [T!NoCandidate EXCEPT !.state = "declared"]
  <2>0. /\ fence' = m /\ tour' = [tour EXCEPT ![m] = "running"]
        /\ cand' = [cand EXCEPT ![m] = [f \in T!Families |-> declared]]
        /\ node' = [node EXCEPT ![m] = "repairing"] /\ T!To(m, "bind")
        /\ phase[m] = "declare" /\ control # "down"
        /\ UNCHANGED <<diagnosis, winner, step, settling, T!outsideVars>>
    BY <1>2 DEF T!Declare, T!At
  <2>1. declared \in T!Candidate /\ declared.state = "declared"
    <3>1. T!NoCandidate \in T!Candidate  BY DEF T!NoCandidate, T!Candidate
    <3> QED  BY <3>1 DEF T!Candidate, declared
  <2> HIDE DEF declared
  <2>2. T!TypeOK'
    BY <2>0, <2>1 DEF TInv, T!TypeOK, T!To, T!outsideVars
  <2>3. T!FenceStandsForOne'
    BY <1>2, <2>0 DEF TInv, T!TypeOK, T!FenceStandsForOne
  <2>4. ASSUME NEW n \in GraphNodes PROVE FenceHeld(n)'
    BY <1>2, <2>0, <2>4 DEF TInv, T!TypeOK, T!To, T!outsideVars, FenceHeld, Racing, Promoting, Undeclared
  <2>5. ASSUME NEW n \in GraphNodes, NEW f \in T!Families PROVE Raced(n, f)'
    BY <2>0, <2>5 DEF TInv, T!TypeOK, T!To, T!outsideVars, Raced, Promoting, Undeclared
  <2>6. ASSUME NEW n \in GraphNodes, NEW f \in T!Families PROVE Verified(n, f)'
    <3>1. Verified(n, f) /\ step' = step /\ history' = history  BY <2>0 DEF TInv, T!outsideVars
    <3>2. cand'[n][f] = IF n = m THEN declared ELSE cand[n][f]  BY <2>0 DEF TInv, T!TypeOK
    <3> QED  BY <2>1, <3>1, <3>2 DEF Verified
  <2>7. ASSUME NEW n \in GraphNodes PROVE WinnerEarned(n)'
    <3>1. CASE n # m
      <4>1. /\ phase'[n] = phase[n] /\ tour'[n] = tour[n] /\ winner' = winner /\ cand'[n] = cand[n]
            /\ history' = history /\ control' = control /\ WinnerEarned(n)
        BY <2>0, <3>1 DEF TInv, T!TypeOK, T!To, T!outsideVars
      <4> QED  BY <4>1 DEF WinnerEarned, Earned, Beats, T!BeforeOf
    <3>2. CASE n = m
      BY <2>0, <3>2 DEF TInv, T!TypeOK, T!To, WinnerEarned, Promoting
    <3> QED  BY <3>1, <3>2
  <2> QED  BY <2>2, <2>3, <2>4, <2>5, <2>6, <2>7 DEF TInv
<1> QED  BY <1>1, <1>2


LEMMA SettleTInv == ASSUME TInv, NEW m \in GraphNodes, T!SettleEnds(m) PROVE TInv'
<1> USE TournamentsAssumption DEF T!TournamentAssumption
<1>0. /\ phase[m] \in {"settle", "integrate"} /\ control # "down" /\ T!To(m, "finish")
      /\ UNCHANGED <<T!tournamentVars, replanned, history, control>>
      /\ integrated' = integrated \/ integrated' = [integrated EXCEPT ![m] = TRUE]
  BY DEF T!SettleEnds, T!Denied, T!Decided, T!At
<1>1. T!TypeOK'
  <2>1. ASSUME NEW from, NEW to \in {"completed", "failed", "cancelled"}, T!Turns(m, from, to)
        PROVE  node' \in [GraphNodes -> {"running", "failed", "repairing", "verifying", "integrating",
                                        "completed", "cancelled", "blocked"}]
    BY <2>1 DEF TInv, T!TypeOK, T!Turns
  <2>2. node' \in [GraphNodes -> {"running", "failed", "repairing", "verifying", "integrating",
                                 "completed", "cancelled", "blocked"}]
    BY <2>1 DEF T!SettleEnds, T!Denied, T!Decided
  <2>3. integrated' \in [GraphNodes -> BOOLEAN]  BY <1>0 DEF TInv, T!TypeOK
  <2>4. settling' \in GraphNodes \cup {NoNode} /\ diagnosis' = diagnosis  BY DEF T!SettleEnds
  <2> QED  BY <1>0, <2>2, <2>3, <2>4 DEF TInv, T!TypeOK, T!To, T!tournamentVars
<1>2. T!FenceStandsForOne'
  BY <1>0 DEF TInv, T!FenceStandsForOne, T!tournamentVars
<1>3. ASSUME NEW n \in GraphNodes PROVE FenceHeld(n)'
  BY <1>0, <1>3 DEF TInv, T!TypeOK, T!To, T!tournamentVars, FenceHeld, Racing, Promoting, Undeclared
<1>4. ASSUME NEW n \in GraphNodes, NEW f \in T!Families PROVE Raced(n, f)'
  BY <1>0, <1>4 DEF TInv, T!TypeOK, T!To, T!tournamentVars, Raced, Promoting, Undeclared
<1>5. ASSUME NEW n \in GraphNodes, NEW f \in T!Families PROVE Verified(n, f)'
  BY <1>0, <1>5 DEF TInv, T!tournamentVars, Verified
<1>6. ASSUME NEW n \in GraphNodes PROVE WinnerEarned(n)'
  BY <1>0, <1>6 DEF TInv, T!TypeOK, T!To, T!tournamentVars, WinnerEarned, Earned, Beats, T!BeforeOf, Promoting
<1> QED  BY <1>1, <1>2, <1>3, <1>4, <1>5, <1>6 DEF TInv

(* The steps that settle a node and the ones before its tournament.        *)
LEMMA MovesTInv ==
    ASSUME TInv, NEW m \in GraphNodes,
           \/ T!WorkerFails(m) \/ T!Claim(m) \/ T!Diagnose(m) \/ T!Attach(m) \/ T!Start(m) \/ T!Freeze(m)
           \/ T!EnterIntegrating(m)
    PROVE  TInv'
<1> USE TournamentsAssumption DEF T!TournamentAssumption
<1>1. ASSUME NEW p, T!To(m, p), phase[m] \in Undeclared, p \in Undeclared \cup {"done"}, control # "down", T!TypeOK',
             UNCHANGED <<T!tournamentVars, T!outsideVars>>
      PROVE  TInv'
  BY <1>1, MoveTInv
<1>2. CASE T!WorkerFails(m)
  <2>1. T!TypeOK'  BY <1>2 DEF TInv, T!TypeOK, T!WorkerFails, T!To, T!tournamentVars, T!outsideVars
  <2> QED  BY <1>1, <1>2, <2>1 DEF T!WorkerFails, T!At, Undeclared
<1>3. CASE T!Claim(m)
  <2>1. T!TypeOK'  BY <1>3 DEF TInv, T!TypeOK, T!Claim, T!To, T!tournamentVars, T!outsideVars
  <2> QED  BY <1>1, <1>3, <2>1 DEF T!Claim, T!At, Undeclared
<1>4. CASE T!Diagnose(m)
  <2>1. T!TypeOK'  BY <1>4 DEF TInv, T!TypeOK, T!Diagnose, T!To, T!tournamentVars, T!outsideVars
  <2> QED  BY <1>1, <1>4, <2>1 DEF T!Diagnose, T!At, Undeclared
<1>5. CASE T!Attach(m)
  <2>1. T!TypeOK'  BY <1>5 DEF TInv, T!TypeOK, T!Attach, T!To, T!tournamentVars, T!outsideVars
  <2> QED  BY <1>1, <1>5, <2>1 DEF T!Attach, T!At, Undeclared
<1>6. CASE T!Start(m)
  <2>1. T!TypeOK'  BY <1>6 DEF TInv, T!TypeOK, T!Start, T!To, T!tournamentVars, T!outsideVars
  <2> QED  BY <1>1, <1>6, <2>1 DEF T!Start, T!At, Undeclared
<1>7. CASE T!Freeze(m)
  <2>1. T!TypeOK'  BY <1>7 DEF TInv, T!TypeOK, T!Freeze, T!EndUndeclared, T!EndsAs, T!To, T!tournamentVars, T!outsideVars
  <2> QED  BY <1>1, <1>7, <2>1 DEF T!Freeze, T!EndUndeclared, T!At, Undeclared
<1>8. CASE T!EnterIntegrating(m)
  <2>1. T!TypeOK'  BY <1>8 DEF TInv, T!TypeOK, T!EnterIntegrating, T!Turns, T!To, T!tournamentVars, T!outsideVars
  <2> QED  BY <1>8, <2>1, MoveTInv DEF T!EnterIntegrating, T!At, Promoting
<1> QED  BY <1>2, <1>3, <1>4, <1>5, <1>6, <1>7, <1>8

(* The steps that may end the tournament.                                  *)
LEMMA EndsTInv ==
    ASSUME TInv, NEW m \in GraphNodes, T!BindCheckpoint(m) \/ T!Squash(m) \/ T!Promote(m) \/ T!FinishSettled(m)
    PROVE  TInv'
<1>1. CASE T!BindCheckpoint(m)
  <2>1. CASE T!Finish(m, "failed") \/ T!Finish(m, "cancelled")
    BY <1>1, <2>1, FinishTInv DEF T!BindCheckpoint, T!At, Racing
  <2>2. CASE T!To(m, "prune") /\ UNCHANGED <<node, diagnosis, T!tournamentVars, settling, T!outsideVars>>
    <3>1. T!TypeOK'  BY <2>2 DEF TInv, T!TypeOK, T!To, T!tournamentVars, T!outsideVars
    <3> QED  BY <1>1, <2>2, <3>1, MoveTInv DEF T!BindCheckpoint, T!At, Racing
  <2> QED  BY <1>1, <2>1, <2>2 DEF T!BindCheckpoint
<1>2. CASE T!Squash(m)
  <2>1. CASE T!Finish(m, "rolled_back") \/ T!Finish(m, "cancelled")
    BY <1>2, <2>1, FinishTInv DEF T!Squash, T!At, Promoting
  <2>2. CASE T!To(m, "squashed") /\ UNCHANGED <<node, diagnosis, T!tournamentVars, settling, T!outsideVars>>
    <3>1. T!TypeOK'  BY <2>2 DEF TInv, T!TypeOK, T!To, T!tournamentVars, T!outsideVars
    <3> QED  BY <1>2, <2>2, <3>1, MoveTInv DEF T!Squash, T!At, Promoting
  <2> QED  BY <1>2, <2>1, <2>2 DEF T!Squash
<1>3. CASE T!Promote(m)
  <2>1. CASE T!Finish(m, "rolled_back") \/ T!Finish(m, "cancelled")
    BY <1>3, <2>1, FinishTInv DEF T!Promote, T!At, Promoting
  <2>2. CASE /\ settling' = m /\ T!Turns(m, "repairing", "verifying") /\ T!To(m, "settle")
             /\ UNCHANGED <<diagnosis, T!tournamentVars, T!outsideVars>>
    <3>1. T!TypeOK'  BY <2>2 DEF TInv, T!TypeOK, T!Turns, T!To, T!tournamentVars, T!outsideVars
    <3> QED  BY <1>3, <2>2, <3>1, MoveTInv DEF T!Promote, T!At, Promoting
  <2> QED  BY <1>3, <2>1, <2>2 DEF T!Promote
<1>4. CASE T!FinishSettled(m)
  BY <1>4, FinishTInv DEF T!FinishSettled, T!At, Promoting
<1> QED  BY <1>1, <1>2, <1>3, <1>4

(* A node is blocked, or re-planned: no tournament is touched.             *)
LEMMA PlanTInv == ASSUME TInv, NEW m \in GraphNodes, T!Block(m) \/ T!Replan(m) PROVE TInv'
<1>1. /\ UNCHANGED <<phase, fence, tour, winner, cand, step, integrated, history, control>>
      /\ T!TypeOK'
  BY DEF TInv, T!TypeOK, T!Block, T!Replan, T!Active, T!tournamentVars, T!outsideVars
<1>2. T!FenceStandsForOne' /\ \A n \in GraphNodes : FenceHeld(n)'
  BY <1>1 DEF TInv, T!FenceStandsForOne, FenceHeld
<1>3. \A n \in GraphNodes, f \in T!Families : Raced(n, f)' /\ Verified(n, f)'
  BY <1>1 DEF TInv, Raced, Verified
<1>4. \A n \in GraphNodes : WinnerEarned(n)'
  BY <1>1 DEF TInv, WinnerEarned, Earned, Beats, T!BeforeOf
<1> QED  BY <1>1, <1>2, <1>3, <1>4 DEF TInv

LEMMA StopTInv == ASSUME TInv, T!Stop PROVE TInv'
<1>1. T!TypeOK'
  BY DEF TInv, T!TypeOK, T!Stop, T!Active, T!tournamentVars
<1>2. T!FenceStandsForOne'
  BY DEF TInv, T!FenceStandsForOne, T!Stop, T!tournamentVars
<1>3. ASSUME NEW n \in GraphNodes PROVE FenceHeld(n)'
  BY <1>3 DEF TInv, FenceHeld, T!Stop, T!Active, T!tournamentVars
<1>4. ASSUME NEW n \in GraphNodes, NEW f \in T!Families PROVE Raced(n, f)' /\ Verified(n, f)'
  BY <1>4 DEF TInv, Raced, Verified, T!Stop, T!tournamentVars
<1>5. ASSUME NEW n \in GraphNodes PROVE WinnerEarned(n)'
  BY <1>5 DEF TInv, T!Stop, T!Active, T!tournamentVars, WinnerEarned, Earned, Beats, T!BeforeOf
<1> QED  BY <1>1, <1>2, <1>3, <1>4, <1>5 DEF TInv

LEMMA RestartTInv == ASSUME TInv, T!Restart PROVE TInv'
<1> USE TournamentsAssumption DEF T!TournamentAssumption
<1>0. \A n \in GraphNodes, f \in T!Families : cand[n][f] \in T!Candidate /\ cand'[n][f] = T!Recovered(cand[n][f])
  BY DEF TInv, T!TypeOK, T!Restart
<1>1. ASSUME NEW c \in T!Candidate
      PROVE  /\ T!Recovered(c) \in T!Candidate
             /\ T!Recovered(c).first = c.first /\ T!Recovered(c).second = c.second
             /\ T!Recovered(c).progress = c.progress /\ T!Recovered(c).cost = c.cost
             /\ c.state \in {"verified", "pruned_duplicate", "rejected"} => T!Recovered(c) = c
             /\ T!Recovered(c).state \in {"verified", "pruned_duplicate"} => T!Recovered(c) = c
  BY DEF T!Recovered, T!Candidate
<1>2. T!TypeOK'
  <2>1. cand' \in [GraphNodes -> [T!Families -> T!Candidate]]
    BY <1>0, <1>1 DEF T!Restart
  <2> QED  BY <2>1 DEF TInv, T!TypeOK, T!Restart
<1>3. T!FenceStandsForOne'
  BY DEF TInv, T!TypeOK, T!FenceStandsForOne, T!Restart
<1>4. ASSUME NEW n \in GraphNodes PROVE FenceHeld(n)'
  BY <1>4 DEF TInv, FenceHeld, T!Restart, Undeclared
<1>5. ASSUME NEW n \in GraphNodes, NEW f \in T!Families PROVE Raced(n, f)'
  BY <1>5 DEF TInv, Raced, T!Restart
<1>6. ASSUME NEW n \in GraphNodes, NEW f \in T!Families PROVE Verified(n, f)'
  BY <1>0, <1>1, <1>6 DEF TInv, Verified, T!Restart
<1>7. ASSUME NEW n \in GraphNodes, tour'[n] = "promoted" PROVE Earned(n)'
  <2>1. Earned(n) /\ winner' = winner /\ history' = history
    BY <1>7 DEF TInv, WinnerEarned, T!Restart
  <2>2. "control" \in T!Families /\ Mutants \subseteq T!Families  BY DEF T!Families
  <2>3. winner[n] # "control" => cand'[n]["control"] = cand[n]["control"]
    BY <1>0, <1>1, <2>1, <2>2 DEF Earned
  <2>4. /\ cand'[n][winner[n]].first = cand[n][winner[n]].first /\ cand'[n][winner[n]].second = cand[n][winner[n]].second
        /\ cand'[n][winner[n]].progress = cand[n][winner[n]].progress
        /\ cand'[n][winner[n]].cost = cand[n][winner[n]].cost
    BY <1>0, <1>1, <2>1 DEF Earned
  <2>5. ASSUME winner[n] # "control", NEW f \in Mutants \ {winner[n]}, cand'[n][f].state = "verified"
        PROVE  T!BeforeOf(cand'[n][winner[n]], cand'[n][f])
    <3>1. cand'[n][f] = cand[n][f]  BY <1>0, <1>1, <2>2, <2>5
    <3> QED  BY <3>1, <2>1, <2>4, <2>5 DEF Earned, Beats, T!BeforeOf
  <2> QED  BY <2>1, <2>3, <2>4, <2>5 DEF Earned, Beats
<1>8. ASSUME NEW n \in GraphNodes PROVE WinnerEarned(n)'
  BY <1>7, <1>8 DEF WinnerEarned, T!Restart
<1> QED  BY <1>2, <1>3, <1>4, <1>5, <1>6, <1>8 DEF TInv

LEMMA StutterTInv == ASSUME TInv, UNCHANGED T!vars PROVE TInv'
<1>1. T!TypeOK'  BY DEF TInv, T!TypeOK, T!vars
<1>2. T!FenceStandsForOne' /\ \A n \in GraphNodes : FenceHeld(n)'
  BY DEF TInv, T!vars, T!FenceStandsForOne, FenceHeld
<1>3. \A n \in GraphNodes, f \in T!Families : Raced(n, f)' /\ Verified(n, f)'
  BY DEF TInv, T!vars, Raced, Verified
<1>4. \A n \in GraphNodes : WinnerEarned(n)'
  BY DEF TInv, T!vars, WinnerEarned, Earned, Beats, T!BeforeOf
<1> QED  BY <1>1, <1>2, <1>3, <1>4 DEF TInv

LEMMA NextTInv == TInv /\ [T!Next]_(T!vars) => TInv'
<1> SUFFICES ASSUME TInv, [T!Next]_(T!vars) PROVE TInv'  OBVIOUS
<1>1. ASSUME NEW m \in GraphNodes, T!WorkerFails(m) \/ T!Repair(m) PROVE TInv'
  BY <1>1, MovesTInv, EndsTInv, DeclareTInv, PruneTInv, AdmitTInv, LaunchTInv, EndRaceTInv, RankTInv,
     SettleTInv DEF T!Repair
<1> QED  BY <1>1, ExecuteTInv, PlanTInv, StopTInv, RestartTInv, StutterTInv DEF T!Next

(* The node of a tournament is the one it was declared for, and what a     *)
(* promotion completed stays completed.                                    *)
NodeStands ==
    \A n \in GraphNodes :
        /\ tour[n] \in {"running", "promotion_pending"} => ~replanned[n]
        /\ tour[n] = "promoted" => ~replanned[n] /\ node[n] = "completed"

LEMMA InitStands == T!Init => NodeStands
BY DEF T!Init, NodeStands

LEMMA KeptStands ==
    ASSUME NodeStands, UNCHANGED <<tour, replanned>>,
           \A n \in GraphNodes : node'[n] = node[n] \/ node[n] # "completed" \/ tour[n] # "promoted"
    PROVE  NodeStands'
BY DEF NodeStands

LEMMA TurnedStands ==
    ASSUME TInv, NodeStands, NEW m \in GraphNodes, NEW from \in {"repairing", "verifying", "integrating"}, NEW to,
           T!Turns(m, from, to), UNCHANGED <<tour, replanned>>
    PROVE  NodeStands'
<1>1. \A n \in GraphNodes : node'[n] = node[n] \/ node[n] # "completed"
  BY DEF TInv, T!TypeOK, T!Turns
<1> QED  BY <1>1, KeptStands

LEMMA FinishStands ==
    ASSUME TInv, NodeStands, NEW m \in GraphNodes, NEW end, T!Finish(m, end)
    PROVE  NodeStands'
<1>1. tour[m] \in {"running", "promotion_pending"} /\ ~replanned[m]
  BY DEF TInv, T!FenceStandsForOne, T!Finish, NodeStands
<1>2. /\ tour' = [tour EXCEPT ![m] = end] /\ replanned' = replanned
      /\ node' = [node EXCEPT ![m] = IF end = "promoted" THEN "completed" ELSE "failed"]
  BY <1>1 DEF T!Finish, T!EndsAs, T!outsideVars
<1> QED  BY <1>1, <1>2 DEF TInv, T!TypeOK, NodeStands

LEMMA RepairStands ==
    ASSUME TInv, NodeStands, NEW m \in GraphNodes, T!WorkerFails(m) \/ T!Repair(m)
    PROVE  NodeStands'
<1>1. CASE UNCHANGED <<node, tour, replanned>>
  BY <1>1, KeptStands
<1>2. CASE T!Claim(m) \/ T!Attach(m) \/ T!Freeze(m)
  <2>1. UNCHANGED <<tour, replanned>> /\ phase[m] \in Undeclared
    BY <1>2 DEF T!Claim, T!Attach, T!Freeze, T!EndUndeclared, T!At, T!tournamentVars, T!outsideVars, Undeclared
  <2>2. tour[m] = "none"  BY <2>1 DEF TInv, FenceHeld
  <2>3. \A n \in GraphNodes \ {m} : node'[n] = node[n]
    BY <1>2 DEF TInv, T!TypeOK, T!Claim, T!Attach, T!Freeze, T!EndUndeclared, T!EndsAs
  <2> QED  BY <2>1, <2>2, <2>3, KeptStands
<1>3. CASE T!Declare(m)
  <2>1. CASE UNCHANGED <<node, tour>>
    BY <1>3, <2>1, KeptStands DEF T!Declare, T!outsideVars
  <2>2. CASE ~replanned[m] /\ tour' = [tour EXCEPT ![m] = "running"] /\ node' = [node EXCEPT ![m] = "repairing"]
    BY <1>3, <2>2 DEF TInv, T!TypeOK, NodeStands, T!Declare, T!outsideVars
  <2> QED  BY <1>3, <2>1, <2>2 DEF T!Declare
<1>4. CASE \E end \in {"failed", "cancelled", "promoted", "rolled_back"} : T!Finish(m, end)
  BY <1>4, FinishStands
<1>5. CASE T!Rank(m)
  <2>1. CASE /\ tour' = [tour EXCEPT ![m] = "promotion_pending"]
             /\ UNCHANGED <<node, replanned>> /\ phase[m] = "rank" /\ control # "down"
    <3>1. tour[m] = "running"  BY <2>1 DEF TInv, FenceHeld, Racing
    <3> QED  BY <2>1, <3>1 DEF TInv, T!TypeOK, NodeStands
  <2> QED  BY <1>4, <1>5, <2>1 DEF T!Rank, T!At, T!outsideVars
<1>6. CASE \E from \in {"repairing", "verifying", "integrating"} : \E to : T!Turns(m, from, to) /\ UNCHANGED <<tour, replanned>>
  BY <1>6, TurnedStands
<1>7. T!Promote(m) => NodeStands'
  BY <1>4, <1>6 DEF T!Promote, T!tournamentVars, T!outsideVars
<1>8. T!EnterIntegrating(m) => NodeStands'
  BY <1>6 DEF T!EnterIntegrating, T!tournamentVars, T!outsideVars
<1>9. T!SettleEnds(m) => NodeStands'
  BY <1>6 DEF T!SettleEnds, T!Denied, T!Decided, T!tournamentVars
<1>10. T!WorkerFails(m) \/ T!Diagnose(m) \/ T!Start(m) => NodeStands'
  BY <1>1 DEF T!WorkerFails, T!Diagnose, T!Start, T!tournamentVars, T!outsideVars
<1>11. T!BindCheckpoint(m) \/ T!Prune(m) \/ T!Admit(m) \/ T!Launch(m) => NodeStands'
  BY <1>1, <1>4 DEF T!BindCheckpoint, T!Prune, T!Admit, T!Launch, T!tournamentVars, T!outsideVars
<1>12. T!EndRace(m) \/ T!Squash(m) \/ T!FinishSettled(m) => NodeStands'
  BY <1>1, <1>4 DEF T!EndRace, T!Squash, T!FinishSettled, T!tournamentVars, T!outsideVars
<1> QED  BY <1>2, <1>3, <1>5, <1>7, <1>8, <1>9, <1>10, <1>11, <1>12 DEF T!Repair

(* Only a graph that no fence freezes is re-planned.                       *)
LEMMA PlanStands ==
    ASSUME TInv, NodeStands, NEW m \in GraphNodes, T!Block(m) \/ T!Replan(m)
    PROVE  NodeStands'
<1>1. CASE T!Block(m)
  <2>1. \A n \in GraphNodes : node'[n] = node[n] \/ node[n] # "completed"
    BY <1>1 DEF TInv, T!TypeOK, T!Block
  <2> QED  BY <1>1, <2>1, KeptStands DEF T!Block, T!tournamentVars, T!outsideVars
<1>2. CASE T!Replan(m)
  <2>1. fence # m /\ node[m] = "blocked" /\ UNCHANGED <<tour, node>>
        /\ replanned' = [replanned EXCEPT ![m] = TRUE]
    BY <1>2, TournamentsAssumption DEF T!Replan, T!tournamentVars, T!TournamentAssumption
  <2>2. tour[m] \notin {"running", "promotion_pending", "promoted"}
    BY <2>1 DEF TInv, T!FenceStandsForOne, NodeStands
  <2> QED  BY <2>1, <2>2 DEF TInv, T!TypeOK, NodeStands
<1> QED  BY <1>1, <1>2

LEMMA RestartStands == ASSUME TInv, NodeStands, T!Restart PROVE NodeStands'
<1>1. \A n \in GraphNodes : tour'[n] \notin {"running", "promotion_pending"}
                          /\ (tour'[n] = "promoted" => tour[n] = "promoted")
  BY DEF T!Restart
<1>2. \A n \in GraphNodes : node[n] = "completed" => node'[n] = "completed"
  BY DEF T!Restart
<1> QED  BY <1>1, <1>2 DEF T!Restart, NodeStands

LEMMA NextStands == TInv /\ NodeStands /\ [T!Next]_(T!vars) => NodeStands'
<1> SUFFICES ASSUME TInv, NodeStands, [T!Next]_(T!vars) PROVE NodeStands'  OBVIOUS
<1>1. ASSUME NEW m \in GraphNodes, NEW f \in T!Families, T!Execute(m, f) PROVE NodeStands'
  <2>1. \A c, s : T!Patch(m, f, c, s) => UNCHANGED <<node, tour, replanned>>  BY DEF T!Patch, T!outsideVars
  <2>2. UNCHANGED <<node, tour, replanned>>
    BY <1>1, <2>1 DEF T!Execute, T!TurnEnds, T!VerifyFirst, T!VerifySecond
  <2> QED  BY <2>2, KeptStands
<1>2. CASE T!Stop \/ UNCHANGED T!vars
  BY <1>2, KeptStands DEF T!Stop, T!vars, T!tournamentVars
<1> QED  BY <1>1, <1>2, RepairStands, PlanStands, RestartStands DEF T!Next

LEMMA TInvPromises == TInv /\ NodeStands => T!FenceStandsForOne /\ T!PromotedEarnedIt /\ T!RepairIsCurrent
<1>1. T!RepairIsCurrent <=> \A n \in GraphNodes : tour[n] \in {"running", "promotion_pending", "promoted"} => ~replanned[n]
  BY DEF T!RepairIsCurrent
<1> SUFFICES ASSUME TInv, NodeStands, NEW n \in GraphNodes, tour[n] = "promoted"
             PROVE  integrated[n] /\ Earned(n)
  BY <1>1 DEF TInv, NodeStands, T!PromotedEarnedIt, Earned, Beats
<1> QED  BY DEF TInv, FenceHeld, WinnerEarned

(***************************************************************************)
(* EvolutionHistory.                                                       *)
(***************************************************************************)

EntryStates == {"none", "pending", "delivered", "dropped"}
FlushRecord == [at : {"idle", "pick", "head", "append", "manifest", "mark"},
                run : Runs \cup {NoOne}, kind : E!Kinds, rest : SUBSET E!Records, head : Nat, ok : BOOLEAN]
Checkpoint == [target : Nat, next : Nat, phase : {"collecting", "auditing", "complete"},
               records : SUBSET E!Records, trusted : SUBSET Runs, suspect : SUBSET Runs]
Query == [pc : {"idle", "head", "read", "recheck", "answer", "answered"}, run : Runs \cup {NoOne},
          overlay : SUBSET E!Records, head : Nat, got : Nat, due : SUBSET E!Kinds]
RecFields == {"pc", "todo", "seen", "bad", "more", "rest", "head"}
Index == [health : {"ready", "unavailable", "quarantined"}, hits : SUBSET Runs]

RunsTyped == life \in [Runs -> Seq(E!Kinds)] /\ done \in [Runs -> Nat]
             /\ \A r \in Runs : done[r] <= Len(life[r])

(* An outbox, or a copy of it: what is pending is a transition of its run, *)
(* what is delivered has its records in the chain.                         *)
BoxSound(entries, lives, stored) ==
    /\ entries \in [Runs -> [E!Kinds -> EntryStates]]
    /\ \A r \in Runs, k \in E!Kinds :
          /\ entries[r][k] = "pending" => \E i \in 1 .. Len(lives[r]) : lives[r][i] = k
          /\ entries[r][k] = "delivered" => E!RecordsOf(r, k) \subseteq stored

ChainSound ==
    /\ chain \in Seq(E!Records)
    /\ \A i, j \in 1 .. Len(chain) : chain[i] = chain[j] => i = j
    /\ manifest \in Nat /\ manifest <= Len(chain)

FlushSound(flush, stored) ==
    /\ flush \in FlushRecord
    /\ flush.at # "idle" => flush.run \in Runs
    /\ flush.at \in {"head", "append"} =>
          /\ flush.rest \subseteq E!RecordsOf(flush.run, flush.kind)
          /\ E!RecordsOf(flush.run, flush.kind) \subseteq stored \cup flush.rest
    /\ flush.at \in {"manifest", "mark"} => E!RecordsOf(flush.run, flush.kind) \subseteq stored

Quarantining == {"complete", "qhead", "qappend", "qmanifest", "retarget"}
RecSound ==
    /\ DOMAIN rec = RecFields
    /\ rec.pc \in Quarantining => checkpoint.phase = "complete"
    /\ rec.pc = "publish" => rec.bad \/ rec.more \/ checkpoint.phase = "complete"
    /\ rec.pc \in {"qhead", "qappend", "qmanifest", "retarget"} => rec.rest \subseteq checkpoint.suspect \X {"quarantine"}
    /\ rec.pc \in {"qmanifest", "retarget"} => rec.rest \subseteq E!Stored

CheckpointSound ==
    /\ checkpoint \in Checkpoint
    /\ checkpoint.records \subseteq E!Stored
    /\ checkpoint.phase = "complete" => \A r \in checkpoint.trusted : E!Trusted(checkpoint.records, r)

IndexSound ==
    rec.pc = "idle" /\ index.health = "ready" =>
        \A r \in index.hits : r \in SoundRuns /\ E!LifeIn(checkpoint.records, r) = {"executed", "rejected"}

Upto(n) == {chain[i] : i \in 1 .. n}
QuerySound ==
    /\ query \in Query
    /\ query.pc = "head" => /\ query.got = 0
                            /\ \A k \in query.due : E!RecordsOf(query.run, k) \subseteq query.overlay \cup E!Stored
    /\ query.pc \in {"read", "recheck", "answer"} =>
          /\ query.got <= query.head /\ query.head <= Len(chain)
          /\ \A k \in query.due : E!RecordsOf(query.run, k) \subseteq query.overlay \cup Upto(query.head)
    /\ query.pc \in {"recheck", "answer"} => query.got = query.head

FlushesSound == fl \in [E!Flushers -> FlushRecord] /\ \A f \in E!Flushers : FlushSound(fl[f], E!Stored)
RefreshSound == RecSound /\ CheckpointSound /\ IndexSound

EInv ==
    /\ RunsTyped /\ BoxSound(outbox, life, E!Stored) /\ BoxSound(live, life, E!Stored) /\ ChainSound
    /\ FlushesSound /\ RefreshSound /\ QuerySound

-----------------------------------------------------------------------------

(* The elements of a finite set, once each. *)
LEMMA SetToSeqSound ==
    ASSUME NEW Z, IsFiniteSet(Z)
    PROVE  /\ E!SetToSeq(Z) \in Seq(Z) /\ Len(E!SetToSeq(Z)) \in Nat
           /\ DOMAIN E!SetToSeq(Z) = 1 .. Len(E!SetToSeq(Z))
           /\ \A i, j \in 1 .. Len(E!SetToSeq(Z)) : E!SetToSeq(Z)[i] = E!SetToSeq(Z)[j] => i = j
           /\ {E!SetToSeq(Z)[i] : i \in 1 .. Len(E!SetToSeq(Z))} = Z
<1> DEFINE s == E!SetToSeq(Z)
           n == Cardinality(Z)
<1>1. n \in Nat /\ ExistsBijection(1 .. n, Z)
  BY FS_CardinalityType
<1>2. \E f \in [1 .. n -> Z] : IsInjective(f)
  BY <1>1 DEF ExistsBijection, Bijection, Injection
<1>3. s \in [1 .. n -> Z] /\ IsInjective(s)
  BY <1>2, Counts DEF E!SetToSeq, E!IsInjective, IsInjective
<1>4. IsFiniteSet(1 .. n) /\ Cardinality(1 .. n) = n
  BY <1>1, FS_Interval
<1>5. s \in Injection(1 .. n, Z)
  BY <1>3 DEF Injection
<1>6. s \in Surjection(1 .. n, Z)
  BY <1>4, <1>5, FS_Injection
<1>7. {s[i] : i \in 1 .. n} = Z
  BY <1>6 DEF Surjection
<1> HIDE DEF s, n
<1>8. s \in Seq(Z) /\ Len(s) = n /\ DOMAIN s = 1 .. n
  BY <1>1, <1>3
<1> QED  BY <1>1, <1>3, <1>7, <1>8 DEF IsInjective, s

ChainGrows == Len(chain) <= Len(chain') /\ \A i \in 1 .. Len(chain) : chain'[i] = chain[i]

LEMMA ChainStays ==
    ASSUME ChainSound, chain' = chain, E!Scan \/ manifest' \in {manifest, Len(chain)}
    PROVE  ChainSound' /\ ChainGrows /\ E!Stored' = E!Stored
<1>1. Len(chain) \in Nat  BY DEF ChainSound
<1> QED  BY <1>1 DEF ChainSound, ChainGrows, E!Stored, E!Scan

(* An append that repeats nothing.  *)
LEMMA ChainPublished ==
    ASSUME ChainSound, NEW rest, rest \subseteq E!Records, IsFiniteSet(rest), rest \cap E!Stored = {},
           E!Publish(rest), E!Scan
    PROVE  ChainSound' /\ ChainGrows /\ E!Stored' = E!Stored \cup rest
<1> DEFINE s == E!SetToSeq(rest)
<1>1. /\ s \in Seq(rest) /\ Len(s) \in Nat /\ DOMAIN s = 1 .. Len(s)
      /\ \A i, j \in 1 .. Len(s) : s[i] = s[j] => i = j
      /\ {s[i] : i \in 1 .. Len(s)} = rest
  BY SetToSeqSound
<1>2. chain' = chain \o s  BY DEF E!Publish
<1> HIDE DEF s
<1>3. chain \in Seq(E!Records) /\ Len(chain) \in Nat /\ DOMAIN chain = 1 .. Len(chain)
  BY DEF ChainSound
<1>4. s \in Seq(E!Records)
  BY <1>1
<1>5. /\ chain' \in Seq(E!Records) /\ Len(chain') = Len(chain) + Len(s)
      /\ \A i \in 1 .. Len(chain') : chain'[i] = IF i <= Len(chain) THEN chain[i] ELSE s[i - Len(chain)]
  BY <1>1, <1>2, <1>3, <1>4, ConcatProperties
<1>6. ChainGrows
  BY <1>1, <1>3, <1>5 DEF ChainGrows
<1>7. \A i \in 1 .. Len(chain) : chain[i] \in E!Stored
  BY <1>3 DEF E!Stored, E!ToSet
<1>8. \A i \in 1 .. Len(s) : s[i] \in rest
  BY <1>1
<1>9. ASSUME NEW i \in 1 .. Len(chain'), NEW j \in 1 .. Len(chain'), chain'[i] = chain'[j] PROVE i = j
  <2>1. CASE i <= Len(chain) /\ j <= Len(chain)
    BY <2>1, <1>3, <1>5, <1>9 DEF ChainSound
  <2>2. CASE i > Len(chain) /\ j > Len(chain)
    <3>1. i - Len(chain) \in 1 .. Len(s) /\ j - Len(chain) \in 1 .. Len(s)
      BY <2>2, <1>1, <1>3, <1>5
    <3>2. s[i - Len(chain)] = s[j - Len(chain)]  BY <2>2, <1>3, <1>5, <1>9
    <3> QED  BY <3>1, <3>2, <1>1, <1>3
  <2>3. CASE i <= Len(chain) /\ j > Len(chain)
    <3>1. j - Len(chain) \in 1 .. Len(s)  BY <2>3, <1>1, <1>3, <1>5
    <3>2. chain'[i] \in E!Stored /\ chain'[j] \in rest  BY <2>3, <3>1, <1>3, <1>5, <1>7, <1>8
    <3> QED  BY <3>2, <1>9
  <2>4. CASE j <= Len(chain) /\ i > Len(chain)
    <3>1. i - Len(chain) \in 1 .. Len(s)  BY <2>4, <1>1, <1>3, <1>5
    <3>2. chain'[j] \in E!Stored /\ chain'[i] \in rest  BY <2>4, <3>1, <1>3, <1>5, <1>7, <1>8
    <3> QED  BY <3>2, <1>9
  <2> QED  BY <2>1, <2>2, <2>3, <2>4, <1>1, <1>3, <1>5
<1>10. DOMAIN chain' = 1 .. Len(chain')  BY <1>5
<1>11. E!Stored' \subseteq E!Stored \cup rest
  <2>1. ASSUME NEW i \in 1 .. Len(chain') PROVE chain'[i] \in E!Stored \cup rest
    <3>1. CASE i <= Len(chain)  BY <3>1, <1>3, <1>5, <1>7
    <3>2. CASE i > Len(chain)
      <4>1. i - Len(chain) \in 1 .. Len(s)  BY <3>2, <1>1, <1>3, <1>5
      <4> QED  BY <3>2, <4>1, <1>3, <1>5, <1>8
    <3> QED  BY <3>1, <3>2, <1>3, <1>5
  <2> QED  BY <2>1, <1>10 DEF E!Stored, E!ToSet
<1>12. E!Stored \cup rest \subseteq E!Stored'
  <2>1. ASSUME NEW i \in 1 .. Len(chain) PROVE chain[i] \in E!Stored'
    <3>1. i \in 1 .. Len(chain') /\ chain'[i] = chain[i]  BY <1>1, <1>3, <1>5
    <3> QED  BY <3>1, <1>10 DEF E!Stored, E!ToSet
  <2>2. ASSUME NEW i \in 1 .. Len(s) PROVE s[i] \in E!Stored'
    <3>1. Len(chain) + i \in 1 .. Len(chain') /\ chain'[Len(chain) + i] = s[i]  BY <1>1, <1>3, <1>5
    <3> QED  BY <3>1, <1>10 DEF E!Stored, E!ToSet
  <2>3. E!Stored \subseteq E!Stored'  BY <2>1, <1>3 DEF E!Stored, E!ToSet
  <2> QED  BY <2>2, <2>3, <1>1
<1>13. manifest' \in Nat /\ manifest' <= Len(chain')
  BY <1>1, <1>3, <1>5 DEF ChainSound, E!Scan
<1> QED  BY <1>5, <1>6, <1>9, <1>11, <1>12, <1>13 DEF ChainSound

LEMMA StoredCounted ==
    ASSUME ChainSound PROVE Cardinality(E!Stored) = Len(chain)
<1>1. Len(chain) \in Nat /\ DOMAIN chain = 1 .. Len(chain) /\ chain \in [1 .. Len(chain) -> E!Stored]
  BY DEF ChainSound, E!Stored, E!ToSet
<1>2. chain \in Surjection(1 .. Len(chain), E!Stored) /\ chain \in Injection(1 .. Len(chain), E!Stored)
  BY <1>1 DEF ChainSound, Surjection, Injection, IsInjective, E!Stored, E!ToSet
<1>3. IsFiniteSet(1 .. Len(chain)) /\ Cardinality(1 .. Len(chain)) = Len(chain)
  BY <1>1, FS_Interval
<1> QED  BY <1>2, <1>3, FS_Surjection

-----------------------------------------------------------------------------
(* What a step leaves alone stays sound while the chain grows. *)

LEMMA GrowsStored == ASSUME ChainSound, ChainSound', ChainGrows PROVE E!Stored \subseteq E!Stored'
<1>1. DOMAIN chain = 1 .. Len(chain) /\ DOMAIN chain' = 1 .. Len(chain') /\ Len(chain) \in Nat /\ Len(chain') \in Nat
  BY DEF ChainSound
<1>2. \A i \in 1 .. Len(chain) : i \in 1 .. Len(chain') /\ chain'[i] = chain[i]
  BY <1>1 DEF ChainGrows
<1> QED  BY <1>1, <1>2 DEF E!Stored, E!ToSet

LEMMA BoxKept ==
    ASSUME NEW entries, NEW lives, NEW old, NEW new, old \subseteq new, BoxSound(entries, lives, old)
    PROVE  BoxSound(entries, lives, new)
<1> QED  BY DEF BoxSound

(* An entry of either of two outboxes is as sound as it was there. *)
LEMMA BoxOfTwo ==
    ASSUME NEW a, NEW b, NEW c, NEW lives, NEW stored,
           BoxSound(a, lives, stored), BoxSound(b, lives, stored),
           c \in [Runs -> [E!Kinds -> EntryStates]],
           \A r \in Runs, k \in E!Kinds : c[r][k] = a[r][k] \/ c[r][k] = b[r][k]
    PROVE  BoxSound(c, lives, stored)
<1> QED  BY DEF BoxSound

LEMMA FlushKept ==
    ASSUME NEW flush, NEW old, NEW new, old \subseteq new, FlushSound(flush, old)
    PROVE  FlushSound(flush, new)
<1> QED  BY DEF FlushSound

LEMMA FlushesKept ==
    ASSUME FlushesSound, fl' = fl, E!Stored \subseteq E!Stored'
    PROVE  FlushesSound'
<1> QED  BY FlushKept DEF FlushesSound

LEMMA OneFlushes ==
    ASSUME FlushesSound, E!Stored \subseteq E!Stored', NEW g \in E!Flushers, NEW flush,
           fl' = [fl EXCEPT ![g] = flush], FlushSound(flush, E!Stored')
    PROVE  FlushesSound'
<1>1. ASSUME NEW f \in E!Flushers PROVE FlushSound(fl'[f], E!Stored') /\ fl'[f] \in FlushRecord
  <2>1. CASE f = g
    <3>1. fl'[f] = flush  BY <2>1 DEF FlushesSound
    <3> QED  BY <3>1 DEF FlushSound
  <2>2. CASE f # g
    <3>1. fl'[f] = fl[f] /\ FlushSound(fl[f], E!Stored) /\ fl[f] \in FlushRecord  BY <2>2 DEF FlushesSound
    <3> QED  BY <3>1, FlushKept
  <2> QED  BY <2>1, <2>2
<1> QED  BY <1>1 DEF FlushesSound

LEMMA RefreshKept ==
    ASSUME RefreshSound, UNCHANGED <<rec, checkpoint, index>>, E!Stored \subseteq E!Stored'
    PROVE  RefreshSound'
<1> QED  BY DEF RefreshSound, RecSound, CheckpointSound, IndexSound

LEMMA QueryKept ==
    ASSUME ChainSound, ChainSound', ChainGrows, QuerySound, query' = query
    PROVE  QuerySound'
<1>1. E!Stored \subseteq E!Stored'  BY GrowsStored
<1>2. query \in Query /\ query.head \in Nat /\ query.got \in Nat  BY DEF QuerySound, Query
<1>3. query.pc \in {"read", "recheck", "answer"} => query.head <= Len(chain') /\ Upto(query.head)' = {chain'[i] : i \in 1 .. query.head} /\ Upto(query.head) = {chain'[i] : i \in 1 .. query.head}
  <2>1. ASSUME query.head <= Len(chain) PROVE query.head <= Len(chain') /\ {chain'[i] : i \in 1 .. query.head} = {chain[i] : i \in 1 .. query.head}
    <3>1. Len(chain) \in Nat /\ Len(chain') \in Nat  BY DEF ChainSound
    <3>2. \A i \in 1 .. query.head : chain'[i] = chain[i]  BY <1>2, <2>1, <3>1 DEF ChainGrows
    <3> QED  BY <1>2, <2>1, <3>1, <3>2 DEF ChainGrows
  <2> QED  BY <2>1 DEF QuerySound, Upto
<1>4. (query.pc = "head" => query.got = 0 /\ \A k \in query.due : E!RecordsOf(query.run, k) \subseteq query.overlay \cup E!Stored)'
  BY <1>1 DEF QuerySound
<1>5. (query.pc \in {"read", "recheck", "answer"} =>
          /\ query.got <= query.head /\ query.head <= Len(chain)
          /\ \A k \in query.due : E!RecordsOf(query.run, k) \subseteq query.overlay \cup Upto(query.head))'
  BY <1>3 DEF QuerySound, Upto
<1> QED  BY <1>4, <1>5 DEF QuerySound

-----------------------------------------------------------------------------
LEMMA InitEInv == E!Init => EInv
<1> SUFFICES ASSUME E!Init PROVE EInv  OBVIOUS
<1> USE HistoriesAssumption DEF E!HistoryAssumption
<1>1. PICK h \in Lives :
          /\ life = h.life /\ done = [r \in Runs |-> h.told[r] + h.untold[r]]
          /\ outbox = [r \in Runs |-> [k \in E!Kinds |->
                          IF k \in E!ToSet(SubSeq(h.life[r], 1, h.told[r])) THEN "delivered" ELSE "none"]]
  BY DEF E!Init
<1>2. RunsTyped
  BY <1>1 DEF RunsTyped
<1> DEFINE told == {q \in Runs \X E!Kinds : outbox[q[1]][q[2]] = "delivered"}
           all == UNION {E!RecordsOf(p[1], p[2]) : p \in told}
<1>3. \A r \in Runs, k \in E!Kinds : E!RecordsOf(r, k) \subseteq Runs \X (E!Kinds \cup {"attempt"})
  BY DEF E!RecordsOf
<1>4. all \subseteq Runs \X (E!Kinds \cup {"attempt"})
  BY <1>3
<1>5. IsFiniteSet(all)
  <2>1. IsFiniteSet({"executed", "verified", "rejected", "promoted", "rolled_back", "attempt"})
    <3>1. IsFiniteSet({"executed"} \cup {"verified"}) /\ IsFiniteSet({"rejected"} \cup {"promoted"})
          /\ IsFiniteSet({"rolled_back"} \cup {"attempt"})
      BY FS_Singleton, FS_Union
    <3>2. IsFiniteSet(({"executed"} \cup {"verified"}) \cup ({"rejected"} \cup {"promoted"}))
      BY <3>1, FS_Union
    <3>3. IsFiniteSet((({"executed"} \cup {"verified"}) \cup ({"rejected"} \cup {"promoted"})) \cup ({"rolled_back"} \cup {"attempt"}))
      BY <3>1, <3>2, FS_Union
    <3>4. (({"executed"} \cup {"verified"}) \cup ({"rejected"} \cup {"promoted"})) \cup ({"rolled_back"} \cup {"attempt"})
          = {"executed", "verified", "rejected", "promoted", "rolled_back", "attempt"}
      OBVIOUS
    <3> QED  BY <3>3, <3>4
  <2>2. E!Kinds \cup {"attempt"} = {"executed", "verified", "rejected", "promoted", "rolled_back", "attempt"}
    BY DEF E!Kinds
  <2>3. IsFiniteSet(Runs \X (E!Kinds \cup {"attempt"}))  BY <2>1, <2>2, Counts, FS_Product
  <2> QED  BY <1>4, <2>3, FS_Subset
<1>6. chain = E!SetToSeq(all)
  BY DEF E!Init
<1>7. \A r \in Runs, k \in E!Kinds : outbox[r][k] = "delivered" => E!RecordsOf(r, k) \subseteq all
  <2>1. ASSUME NEW r \in Runs, NEW k \in E!Kinds, outbox[r][k] = "delivered" PROVE E!RecordsOf(r, k) \subseteq all
    <3>1. <<r, k>> \in told  BY <2>1
    <3> QED  BY <3>1
  <2> QED  BY <2>1
<1> HIDE DEF all, told
<1>8. /\ chain \in Seq(all) /\ Len(chain) \in Nat /\ DOMAIN chain = 1 .. Len(chain)
      /\ \A i, j \in 1 .. Len(chain) : chain[i] = chain[j] => i = j
      /\ {chain[i] : i \in 1 .. Len(chain)} = all
  BY <1>5, <1>6, SetToSeqSound
<1>9. E!Stored = all
  BY <1>8 DEF E!Stored, E!ToSet
<1>10. all \subseteq E!Records
  BY <1>4 DEF E!Records
<1>11. ChainSound
  <2>1. chain \in Seq(E!Records)  BY <1>8, <1>10, SeqMonotonic
  <2>2. manifest = Len(chain)  BY DEF E!Init
  <2> QED  BY <1>8, <2>1, <2>2 DEF ChainSound
<1>12. BoxSound(outbox, life, E!Stored)
  BY <1>1, <1>7, <1>9 DEF BoxSound, EntryStates
<1>13. FlushesSound
  BY DEF E!Init, FlushesSound, FlushSound, FlushRecord, E!Idle, E!Kinds
<1>14. RefreshSound
  BY DEF E!Init, RefreshSound, RecSound, RecFields, E!Resting, Quarantining, CheckpointSound, Checkpoint, IndexSound, E!Unavailable
<1>15. QuerySound
  BY DEF E!Init, QuerySound, Query, E!NoQuery
<1>16. live = outbox  BY DEF E!Init
<1> QED  BY <1>2, <1>11, <1>12, <1>13, <1>14, <1>15, <1>16 DEF EInv


-----------------------------------------------------------------------------
(* The recorder. *)

LEMMA EnqueuedSound ==
    ASSUME BoxSound(outbox, life, E!Stored), NEW r \in Runs, NEW k \in E!Kinds,
           \E i \in 1 .. Len(life[r]) : life[r][i] = k
    PROVE  BoxSound(E!Enqueued(r, k), life, E!Stored)
<1>1. CASE outbox[r][k] # "none"
  BY <1>1 DEF E!Enqueued
<1>2. CASE outbox[r][k] = "none"
  <2>1. PICK e \in {"dropped", "pending"} : E!Enqueued(r, k) = [outbox EXCEPT ![r][k] = e]
    BY <1>2 DEF E!Enqueued
  <2> QED  BY <2>1 DEF BoxSound, EntryStates
<1> QED  BY <1>1, <1>2

LEMMA TransitionEInv == ASSUME EInv, NEW r \in Runs, E!Transition(r) PROVE EInv'
<1>1. RunsTyped'
  BY DEF EInv, RunsTyped, E!Transition
<1>2. ChainSound' /\ ChainGrows /\ E!Stored' = E!Stored
  BY ChainStays DEF EInv, E!Transition
<1>3. life[r] \in Seq(E!Kinds) /\ done[r] + 1 \in 1 .. Len(life[r])
  BY DEF EInv, RunsTyped, E!Transition
<1>4. life[r][done[r] + 1] \in E!Kinds  BY <1>3
<1>5. BoxSound(outbox', life, E!Stored)
  BY <1>3, <1>4, EnqueuedSound DEF EInv, E!Transition
<1>6. FlushesSound' /\ RefreshSound' /\ QuerySound'
  BY <1>2, FlushesKept, RefreshKept, QueryKept DEF EInv, E!Transition
<1>7. life' = life /\ live' = live  BY DEF E!Transition
<1> QED  BY <1>1, <1>2, <1>5, <1>6, <1>7 DEF EInv

LEMMA SaveEInv == ASSUME EInv, NEW r \in Runs, E!Save(r) PROVE EInv'
<1>1. RunsTyped'
  BY DEF EInv, RunsTyped, E!Save
<1>2. ChainSound' /\ ChainGrows /\ E!Stored' = E!Stored
  BY ChainStays DEF EInv, E!Save
<1>3. \A k \in E!Kinds : E!Merged(live[r], outbox[r])[k] = live[r][k] \/ E!Merged(live[r], outbox[r])[k] = outbox[r][k]
  BY DEF E!Merged
<1>4. E!Merged(live[r], outbox[r]) \in [E!Kinds -> EntryStates]
  BY DEF E!Merged, EInv, BoxSound
<1>5. /\ outbox' \in [Runs -> [E!Kinds -> EntryStates]]
      /\ \A q \in Runs, k \in E!Kinds : outbox'[q][k] = live[q][k] \/ outbox'[q][k] = outbox[q][k]
  BY <1>3, <1>4 DEF E!Save, EInv, BoxSound
<1>6. BoxSound(outbox', life, E!Stored)
  BY <1>5, BoxOfTwo DEF EInv
<1>7. /\ live' \in [Runs -> [E!Kinds -> EntryStates]]
      /\ \A q \in Runs, k \in E!Kinds : live'[q][k] = live[q][k] \/ live'[q][k] = outbox'[q][k]
  BY <1>5 DEF E!Save, EInv, BoxSound
<1>8. BoxSound(live', life, E!Stored)
  BY <1>6, <1>7, BoxOfTwo DEF EInv
<1>9. FlushesSound' /\ RefreshSound' /\ QuerySound'
  BY <1>2, FlushesKept, RefreshKept, QueryKept DEF EInv, E!Save
<1>10. life' = life  BY DEF E!Save
<1> QED  BY <1>1, <1>2, <1>6, <1>8, <1>9, <1>10 DEF EInv

-----------------------------------------------------------------------------
(* Flush. *)

(* The steps of a flush, and what else they leave alone. *)
LEMMA FlushSteps ==
    ASSUME EInv, UNCHANGED E!flushes, ChainSound', ChainGrows, FlushesSound',
           outbox' = outbox \/ BoxSound(outbox', life, E!Stored')
    PROVE  EInv'
<1>1. E!Stored \subseteq E!Stored'  BY GrowsStored DEF EInv
<1>2. RunsTyped' /\ RefreshSound' /\ QuerySound'
  BY <1>1, RefreshKept, QueryKept DEF EInv, RunsTyped, E!flushes
<1>3. BoxSound(outbox, life, E!Stored') /\ BoxSound(live, life, E!Stored')
  BY <1>1, BoxKept DEF EInv
<1> QED  BY <1>2, <1>3 DEF EInv, E!flushes

(* The first pending entry of a run is one. *)
LEMMA FirstPends ==
    ASSUME EInv, NEW r \in Runs, E!Pending(outbox, r) # {}
    PROVE  E!First(r) \in E!Pending(outbox, r)
<1> DEFINE Pends == {i \in 1 .. Len(life[r]) : life[r][i] \in E!Pending(outbox, r)}
<1>1. life[r] \in Seq(E!Kinds) /\ DOMAIN life[r] = 1 .. Len(life[r])
  BY DEF EInv, RunsTyped
<1>2. Pends # {} /\ Pends \subseteq Nat
  <2>1. PICK k \in E!Kinds : outbox[r][k] = "pending"  BY DEF E!Pending
  <2>2. PICK i \in 1 .. Len(life[r]) : life[r][i] = k  BY <2>1 DEF EInv, BoxSound
  <2>3. i \in Pends  BY <2>1, <2>2 DEF E!Pending
  <2> QED  BY <2>3
<1>3. PICK n \in Pends : \A m \in Pends : ~ (<<m, n>> \in OpToRel(<, Nat))
  BY <1>2, WFMin, NatLessThanWellFounded
<1>4. \A j \in 1 .. n - 1 : life[r][j] \notin E!Pending(outbox, r)
  <2>1. ASSUME NEW j \in 1 .. n - 1, life[r][j] \in E!Pending(outbox, r) PROVE FALSE
    <3>1. j \in Pends /\ j \in Nat /\ n \in Nat /\ j < n  BY <2>1, <1>1
    <3>2. <<j, n>> \in OpToRel(<, Nat)  BY <3>1 DEF OpToRel
    <3> QED  BY <3>1, <3>2, <1>3
  <2> QED  BY <2>1
<1>5. \E i \in DOMAIN life[r] : /\ life[r][i] \in E!Pending(outbox, r)
                                /\ \A j \in 1 .. i - 1 : life[r][j] \notin E!Pending(outbox, r)
  BY <1>1, <1>4
<1> QED  BY <1>5 DEF E!First

LEMMA IdleSound == \A stored : FlushSound(E!Idle, stored) /\ FlushSound([E!Idle EXCEPT !.ok = FALSE], stored)
<1>1. E!Idle \in FlushRecord /\ E!Idle.at = "idle"  BY DEF E!Idle, FlushRecord, E!Kinds
<1>2. [E!Idle EXCEPT !.ok = FALSE] \in FlushRecord /\ [E!Idle EXCEPT !.ok = FALSE].at = "idle"
  BY <1>1 DEF FlushRecord
<1> QED  BY <1>1, <1>2 DEF FlushSound

LEMMA PickingSound ==
    ASSUME NEW r \in Runs, NEW stored PROVE FlushSound([E!Idle EXCEPT !.at = "pick", !.run = r], stored)
<1>1. E!Idle \in FlushRecord  BY DEF E!Idle, FlushRecord, E!Kinds
<1>2. /\ [E!Idle EXCEPT !.at = "pick", !.run = r] \in FlushRecord
      /\ [E!Idle EXCEPT !.at = "pick", !.run = r].at = "pick"
      /\ [E!Idle EXCEPT !.at = "pick", !.run = r].run = r
  BY <1>1 DEF FlushRecord
<1> QED  BY <1>2 DEF FlushSound

LEMMA RecordsFinite ==
    ASSUME NEW r \in Runs, NEW k \in E!Kinds
    PROVE  E!RecordsOf(r, k) \subseteq E!Records /\ IsFiniteSet(E!RecordsOf(r, k))
<1>1. IsFiniteSet({<<r, "attempt">>} \cup {<<r, k>>})  BY FS_Singleton, FS_Union
<1>2. E!RecordsOf(r, k) = {<<r, "attempt">>} \cup {<<r, k>>}  BY DEF E!RecordsOf
<1> QED  BY <1>1, <1>2 DEF E!Records

LEMMA StartFlushEInv == ASSUME EInv, NEW r \in Runs, E!StartFlush(r) PROVE EInv'
<1>1. ChainSound' /\ ChainGrows /\ E!Stored' = E!Stored
  BY ChainStays DEF EInv, E!StartFlush
<1>2. FlushesSound'
  BY <1>1, OneFlushes, PickingSound DEF EInv, E!StartFlush, E!Flushers
<1> QED  BY <1>1, <1>2, FlushSteps DEF E!StartFlush

LEMMA PickEInv == ASSUME EInv, NEW f \in E!Flushers, E!Pick(f) PROVE EInv'
<1>1. ChainSound' /\ ChainGrows /\ E!Stored' = E!Stored
  BY ChainStays DEF EInv, E!Pick
<1> DEFINE r == fl[f].run
           rest == E!RecordsOf(r, E!First(r)) \ E!Stored
           picked == [fl[f] EXCEPT !.kind = E!First(r), !.rest = rest, !.at = IF rest = {} THEN "mark" ELSE "head"]
<1>2. fl[f] \in FlushRecord /\ r \in Runs
  BY DEF EInv, FlushesSound, FlushSound, E!Pick
<1>3. CASE E!Pending(outbox, r) = {}
  <2>1. fl' = [fl EXCEPT ![f] = E!Idle]  BY <1>3 DEF E!Pick
  <2>2. FlushesSound'  BY <1>1, <2>1, OneFlushes, IdleSound DEF EInv
  <2> QED  BY <1>1, <2>2, FlushSteps DEF E!Pick
<1>4. CASE E!Pending(outbox, r) # {}
  <2>1. E!First(r) \in E!Kinds  BY <1>2, <1>4, FirstPends DEF E!Pending
  <2>2. rest \subseteq E!Records  BY <1>2, <2>1, RecordsFinite
  <2>3. fl' = [fl EXCEPT ![f].kind = E!First(r), ![f].rest = rest, ![f].at = IF rest = {} THEN "mark" ELSE "head"]
    BY <1>4 DEF E!Pick
  <2>4. fl' = [fl EXCEPT ![f] = picked]
    BY <2>3 DEF EInv, FlushesSound
  <2>5. /\ picked \in FlushRecord /\ picked.run = r /\ picked.kind = E!First(r) /\ picked.rest = rest
        /\ picked.at = IF rest = {} THEN "mark" ELSE "head"
    BY <1>2, <2>1, <2>2 DEF FlushRecord
  <2> HIDE DEF picked
  <2>6. FlushSound(picked, E!Stored)
    BY <1>2, <2>5 DEF FlushSound
  <2>7. FlushesSound'  BY <1>1, <2>4, <2>6, OneFlushes DEF EInv
  <2> QED  BY <1>1, <2>7, FlushSteps DEF E!Pick
<1> QED  BY <1>3, <1>4

LEMMA ReadHeadEInv == ASSUME EInv, NEW f \in E!Flushers, E!ReadHead(f) PROVE EInv'
<1>1. ChainSound' /\ ChainGrows /\ E!Stored' = E!Stored
  BY ChainStays DEF EInv, E!ReadHead
<1> DEFINE read == [fl[f] EXCEPT !.head = Len(chain), !.at = "append"]
<1>2. fl[f] \in FlushRecord /\ FlushSound(fl[f], E!Stored) /\ fl[f].at = "head" /\ Len(chain) \in Nat
  BY DEF EInv, FlushesSound, FlushSound, E!ReadHead, ChainSound
<1>3. fl' = [fl EXCEPT ![f] = read]
  BY DEF EInv, FlushesSound, E!ReadHead
<1>4. read \in FlushRecord /\ read.run = fl[f].run /\ read.kind = fl[f].kind /\ read.rest = fl[f].rest /\ read.at = "append"
  BY <1>2 DEF FlushRecord
<1> HIDE DEF read
<1>5. FlushSound(read, E!Stored)  BY <1>2, <1>4 DEF FlushSound
<1>6. FlushesSound'  BY <1>1, <1>3, <1>5, OneFlushes DEF EInv
<1> QED  BY <1>1, <1>6, FlushSteps DEF E!ReadHead


LEMMA AppendEInv == ASSUME EInv, NEW f \in E!Flushers, E!AppendBatch(f) PROVE EInv'
<1> DEFINE flush == fl[f]
<1>1. /\ flush \in FlushRecord /\ FlushSound(flush, E!Stored) /\ flush.at = "append" /\ flush.run \in Runs
      /\ flush.kind \in E!Kinds /\ flush.rest \subseteq E!RecordsOf(flush.run, flush.kind)
      /\ E!RecordsOf(flush.run, flush.kind) \subseteq E!Stored \cup flush.rest
  BY DEF EInv, FlushesSound, FlushSound, E!AppendBatch, FlushRecord
<1>2. flush.rest \subseteq E!Records /\ IsFiniteSet(flush.rest)
  BY <1>1, RecordsFinite, FS_Subset
<1>3. ASSUME E!Appendable(flush.head, flush.rest), E!Publish(flush.rest)
      PROVE  ChainSound' /\ ChainGrows /\ E!Stored' = E!Stored \cup flush.rest
  BY <1>2, <1>3, ChainPublished DEF E!Appendable, EInv, E!AppendBatch
<1>4. ASSUME chain' = chain PROVE ChainSound' /\ ChainGrows /\ E!Stored' = E!Stored
  BY <1>4, ChainStays DEF EInv, E!AppendBatch
<1>5. CASE E!Appendable(flush.head, flush.rest) /\ E!Publish(flush.rest) /\ fl' = [fl EXCEPT ![f].at = "manifest"]
  <2> DEFINE new == [flush EXCEPT !.at = "manifest"]
  <2>1. fl' = [fl EXCEPT ![f] = new]  BY <1>5 DEF EInv, FlushesSound
  <2>2. new \in FlushRecord /\ new.at = "manifest" /\ new.run = flush.run /\ new.kind = flush.kind
    BY <1>1 DEF FlushRecord
  <2> HIDE DEF new
  <2>3. FlushSound(new, E!Stored')  BY <1>1, <1>3, <1>5, <2>2 DEF FlushSound
  <2>4. FlushesSound'  BY <1>3, <1>5, <2>1, <2>3, OneFlushes DEF EInv
  <2> QED  BY <1>3, <1>5, <2>4, FlushSteps DEF E!AppendBatch
<1>6. CASE /\ fl' = [fl EXCEPT ![f] = IF Len(chain) # @.head THEN [@ EXCEPT !.at = "head"]
                          ELSE IF @.rest \subseteq E!Stored THEN [@ EXCEPT !.at = "mark", !.rest = {}, !.head = 0]
                          ELSE E!FlushFails(@)]
           /\ chain' = chain
  <2>1. FlushSound([flush EXCEPT !.at = "head"], E!Stored)
    <3> DEFINE new == [flush EXCEPT !.at = "head"]
    <3>1. new \in FlushRecord /\ new.at = "head" /\ new.run = flush.run /\ new.kind = flush.kind /\ new.rest = flush.rest
      BY <1>1 DEF FlushRecord
    <3> HIDE DEF new
    <3>2. FlushSound(new, E!Stored)  BY <1>1, <3>1 DEF FlushSound
    <3> QED  BY <3>2 DEF new
  <2>2. ASSUME flush.rest \subseteq E!Stored
        PROVE  FlushSound([flush EXCEPT !.at = "mark", !.rest = {}, !.head = 0], E!Stored)
    <3> DEFINE new == [flush EXCEPT !.at = "mark", !.rest = {}, !.head = 0]
    <3>1. new \in FlushRecord /\ new.at = "mark" /\ new.run = flush.run /\ new.kind = flush.kind
      BY <1>1 DEF FlushRecord
    <3> HIDE DEF new
    <3>2. FlushSound(new, E!Stored)  BY <1>1, <2>2, <3>1 DEF FlushSound
    <3> QED  BY <3>2 DEF new
  <2>3. \E new : fl' = [fl EXCEPT ![f] = new] /\ FlushSound(new, E!Stored)
    <3>1. fl' = [fl EXCEPT ![f] = IF Len(chain) # flush.head THEN [flush EXCEPT !.at = "head"]
                          ELSE IF flush.rest \subseteq E!Stored THEN [flush EXCEPT !.at = "mark", !.rest = {}, !.head = 0]
                          ELSE E!FlushFails(flush)]
      BY <1>6
    <3> QED  BY <3>1, <2>1, <2>2, IdleSound DEF E!FlushFails
  <2>4. PICK new : fl' = [fl EXCEPT ![f] = new] /\ FlushSound(new, E!Stored)  BY <2>3
  <2>5. FlushSound(new, E!Stored') /\ E!Stored \subseteq E!Stored' /\ FlushesSound  BY <1>4, <1>6, <2>4 DEF EInv
  <2>6. FlushesSound'  BY <2>4, <2>5, OneFlushes
  <2> QED  BY <1>4, <1>6, <2>6, FlushSteps DEF E!AppendBatch
<1>7. CASE fl' = [fl EXCEPT ![f] = E!FlushFails(@)]
  <2>1. fl' = [fl EXCEPT ![f] = [E!Idle EXCEPT !.ok = FALSE]]  BY <1>7 DEF E!FlushFails
  <2>2. chain' = chain \/ (E!Appendable(flush.head, flush.rest) /\ E!Publish(flush.rest))
    BY DEF E!AppendBatch
  <2>3. ChainSound' /\ ChainGrows /\ E!Stored \subseteq E!Stored'  BY <1>3, <1>4, <2>2
  <2>4. FlushesSound'  BY <2>1, <2>3, OneFlushes, IdleSound DEF EInv
  <2> QED  BY <2>3, <2>4, FlushSteps DEF E!AppendBatch
<1> QED  BY <1>5, <1>6, <1>7 DEF E!AppendBatch

LEMMA PublishManifestEInv == ASSUME EInv, NEW f \in E!Flushers, E!PublishManifest(f) PROVE EInv'
<1> DEFINE flush == fl[f]
           new == [flush EXCEPT !.at = "mark", !.rest = {}, !.head = 0]
<1>1. flush \in FlushRecord /\ FlushSound(flush, E!Stored) /\ flush.at = "manifest"
  BY DEF EInv, FlushesSound, E!PublishManifest
<1>2. ChainSound' /\ ChainGrows /\ E!Stored' = E!Stored
  BY ChainStays DEF EInv, E!PublishManifest
<1>3. new \in FlushRecord /\ new.at = "mark" /\ new.run = flush.run /\ new.kind = flush.kind
  BY <1>1 DEF FlushRecord
<1>4. fl' = [fl EXCEPT ![f] = new] \/ fl' = [fl EXCEPT ![f] = [E!Idle EXCEPT !.ok = FALSE]]
  BY DEF E!PublishManifest, EInv, FlushesSound, E!FlushFails
<1> HIDE DEF new
<1>5. FlushSound(new, E!Stored)  BY <1>1, <1>3 DEF FlushSound
<1>6. FlushesSound'  BY <1>2, <1>4, <1>5, OneFlushes, IdleSound DEF EInv
<1> QED  BY <1>2, <1>6, FlushSteps DEF E!PublishManifest

LEMMA MarkEInv == ASSUME EInv, NEW f \in E!Flushers, E!Mark(f) PROVE EInv'
<1> DEFINE flush == fl[f]
<1>1. /\ flush \in FlushRecord /\ flush.run \in Runs /\ flush.kind \in E!Kinds
      /\ E!RecordsOf(flush.run, flush.kind) \subseteq E!Stored
  BY DEF EInv, FlushesSound, FlushSound, E!Mark, FlushRecord
<1>2. ChainSound' /\ ChainGrows /\ E!Stored' = E!Stored
  BY ChainStays DEF EInv, E!Mark
<1>3. \/ fl' = [fl EXCEPT ![f] = [E!Idle EXCEPT !.at = "pick", !.run = flush.run]]
      \/ fl' = [fl EXCEPT ![f] = [E!Idle EXCEPT !.ok = FALSE]]
  BY DEF E!Mark, E!FlushFails
<1>4. FlushesSound'
  <2>1. \E new : fl' = [fl EXCEPT ![f] = new] /\ FlushSound(new, E!Stored)
    <3>1. FlushSound([E!Idle EXCEPT !.at = "pick", !.run = flush.run], E!Stored)  BY <1>1, PickingSound
    <3>2. FlushSound([E!Idle EXCEPT !.ok = FALSE], E!Stored)  BY IdleSound
    <3> QED  BY <1>3, <3>1, <3>2
  <2> QED  BY <1>2, <2>1, OneFlushes DEF EInv
<1>5. CASE outbox' = outbox
  BY <1>2, <1>4, <1>5, FlushSteps DEF E!Mark
<1>6. CASE outbox' = [outbox EXCEPT ![flush.run][flush.kind] = "delivered"]
  <2>1. BoxSound(outbox, life, E!Stored)  BY DEF EInv
  <2>2. BoxSound(outbox', life, E!Stored)
    BY <1>1, <1>6, <2>1 DEF BoxSound, EntryStates
  <2> QED  BY <1>2, <1>4, <2>2, FlushSteps DEF E!Mark
<1> QED  BY <1>5, <1>6 DEF E!Mark

LEMMA FlushEInv == ASSUME EInv, NEW f \in E!Flushers, E!Flush(f) PROVE EInv'
<1> QED  BY PickEInv, ReadHeadEInv, AppendEInv, PublishManifestEInv, MarkEInv DEF E!Flush

-----------------------------------------------------------------------------
(* Refresh. *)

(* The steps of a refresh, and what else they leave alone. *)
LEMMA RefreshSteps ==
    ASSUME EInv, UNCHANGED E!refreshes, ChainSound', ChainGrows, RefreshSound',
           fl' = fl \/ FlushesSound', outbox' = outbox \/ BoxSound(outbox', life, E!Stored')
    PROVE  EInv'
<1>1. E!Stored \subseteq E!Stored'  BY GrowsStored DEF EInv
<1>2. RunsTyped' /\ FlushesSound' /\ QuerySound'
  BY <1>1, FlushesKept, QueryKept DEF EInv, RunsTyped, E!refreshes
<1>3. BoxSound(outbox, life, E!Stored') /\ BoxSound(live, life, E!Stored')
  BY <1>1, BoxKept DEF EInv
<1> QED  BY <1>2, <1>3 DEF EInv, E!refreshes

(* A refresh that moves on, with the checkpoint and the index as they are. *)
LEMMA RecMoves ==
    ASSUME RefreshSound, UNCHANGED <<checkpoint, index>>, E!Stored \subseteq E!Stored',
           DOMAIN rec' = RecFields,
           \/ rec'.pc \in {"groups", "flush"}
           \/ rec'.pc = "publish" /\ (rec'.bad \/ rec'.more)
    PROVE  RefreshSound'
<1>1. CheckpointSound'  BY DEF RefreshSound, CheckpointSound
<1>2. RecSound' /\ IndexSound'  BY DEF RefreshSound, RecSound, IndexSound, Quarantining
<1> QED  BY <1>1, <1>2 DEF RefreshSound

LEMMA RestingFields == DOMAIN E!Resting = RecFields /\ E!Resting.pc = "idle" /\ ~E!Resting.bad /\ ~E!Resting.more
<1> QED  BY DEF E!Resting, RecFields

LEMMA RefreshEInv == ASSUME EInv, E!Refresh PROVE EInv'
<1>1. ChainSound' /\ ChainGrows /\ E!Stored' = E!Stored
  BY ChainStays DEF EInv, E!Refresh
<1>2. DOMAIN rec' = RecFields /\ rec'.pc = "groups"
  BY RestingFields DEF E!Refresh, RecFields
<1>3. RefreshSound'  BY <1>1, <1>2, RecMoves DEF EInv, E!Refresh
<1> QED  BY <1>1, <1>3, RefreshSteps DEF E!Refresh


LEMMA GroupEInv == ASSUME EInv, NEW r \in Runs, E!Group(r) PROVE EInv'
<1>1. ChainSound' /\ ChainGrows /\ E!Stored' = E!Stored
  BY ChainStays DEF EInv, E!Group
<1> DEFINE entries == IF E!Completed(r) THEN E!Enqueued(r, E!Last(life[r])) ELSE outbox
<1>2. BoxSound(entries, life, E!Stored)
  <2>1. CASE E!Completed(r)
    <3>1. life[r] \in Seq(E!Kinds) /\ life[r] # <<>>  BY <2>1 DEF E!Completed, EInv, RunsTyped
    <3>2. Len(life[r]) \in 1 .. Len(life[r]) /\ E!Last(life[r]) \in E!Kinds  BY <3>1 DEF E!Last
    <3>3. BoxSound(E!Enqueued(r, E!Last(life[r])), life, E!Stored)
      BY <3>2, EnqueuedSound DEF EInv, E!Last
    <3> QED  BY <2>1, <3>3
  <2>2. CASE ~E!Completed(r)
    BY <2>2 DEF EInv
  <2> QED  BY <2>1, <2>2
<1> HIDE DEF entries
<1>3. outbox' = outbox \/ outbox' = entries
  BY DEF E!Group, entries
<1>4. BoxSound(outbox', life, E!Stored)
  BY <1>2, <1>3 DEF EInv
<1>5. \/ fl' = fl
      \/ fl' = [fl EXCEPT ![E!Reconciler] = [E!Idle EXCEPT !.at = "pick", !.run = r]]
  BY DEF E!Group
<1>6. FlushesSound'
  BY <1>1, <1>5, FlushesKept, OneFlushes, PickingSound DEF EInv, E!Flushers
<1>7. DOMAIN rec' = RecFields /\ rec'.pc \in {"groups", "flush"}
  BY DEF E!Group, EInv, RefreshSound, RecSound, RecFields
<1>8. RefreshSound'  BY <1>1, <1>7, RecMoves DEF EInv, E!Group
<1> QED  BY <1>1, <1>4, <1>6, <1>8, RefreshSteps DEF E!Group

LEMMA GroupFlushedEInv == ASSUME EInv, E!GroupFlushed PROVE EInv'
<1>1. ChainSound' /\ ChainGrows /\ E!Stored' = E!Stored
  BY ChainStays DEF EInv, E!GroupFlushed
<1>2. DOMAIN rec' = RecFields /\ rec'.pc = "groups"
  BY DEF E!GroupFlushed, EInv, RefreshSound, RecSound, RecFields
<1>3. RefreshSound'  BY <1>1, <1>2, RecMoves DEF EInv, E!GroupFlushed
<1> QED  BY <1>1, <1>3, RefreshSteps DEF E!GroupFlushed

(* A refresh that gives up says so. *)
LEMMA GivenUp ==
    /\ DOMAIN [E!Resting EXCEPT !.pc = "publish", !.more = TRUE] = RecFields
    /\ [E!Resting EXCEPT !.pc = "publish", !.more = TRUE].pc = "publish"
    /\ [E!Resting EXCEPT !.pc = "publish", !.more = TRUE].more
    /\ DOMAIN [E!Resting EXCEPT !.pc = "publish", !.bad = TRUE] = RecFields
    /\ [E!Resting EXCEPT !.pc = "publish", !.bad = TRUE].pc = "publish"
    /\ [E!Resting EXCEPT !.pc = "publish", !.bad = TRUE].bad
<1> QED  BY RestingFields DEF RecFields

LEMMA ExhaustedEInv == ASSUME EInv, E!Exhausted PROVE EInv'
<1>1. ChainSound' /\ ChainGrows /\ E!Stored' = E!Stored
  BY ChainStays DEF EInv, E!Exhausted
<1>2. RefreshSound'  BY <1>1, GivenUp, RecMoves DEF EInv, E!Exhausted
<1> QED  BY <1>1, <1>2, RefreshSteps DEF E!Exhausted

LEMMA AimEInv == ASSUME EInv, E!Aim PROVE EInv'
<1>1. ChainSound' /\ ChainGrows /\ E!Stored' = E!Stored
  BY ChainStays DEF EInv, E!Aim
<1>2. checkpoint \in Checkpoint /\ Len(chain) \in Nat
  BY DEF EInv, RefreshSound, CheckpointSound, ChainSound
<1>3. checkpoint' \in Checkpoint
  BY <1>2 DEF E!Aim, Checkpoint
<1>4. CheckpointSound'
  BY <1>1, <1>3 DEF E!Aim, CheckpointSound, EInv, RefreshSound
<1>5. DOMAIN rec' = RecFields /\ rec'.pc = checkpoint'.phase
  BY DEF E!Aim, EInv, RefreshSound, RecSound, RecFields
<1>6. rec'.pc \in {"collecting", "auditing", "complete"}  BY <1>3, <1>5 DEF Checkpoint
<1>7. RefreshSound'
  BY <1>4, <1>5, <1>6 DEF RefreshSound, RecSound, IndexSound, Quarantining
<1> QED  BY <1>1, <1>7, RefreshSteps DEF E!Aim

(* A page is of the sequence it is cut from. *)
LEMMA PageStored ==
    ASSUME NEW Elems, NEW s \in Seq(Elems), NEW m \in Nat, NEW n \in Nat, n <= Len(s)
    PROVE  E!ToSet(SubSeq(s, m + 1, n)) \subseteq E!ToSet(s)
<1> DEFINE t == SubSeq(s, m + 1, n)
<1>1. Len(s) \in Nat /\ DOMAIN s = 1 .. Len(s) /\ \A i \in m + 1 .. n : i \in 1 .. Len(s) /\ s[i] \in Elems
  OBVIOUS
<1>2. /\ t \in Seq(Elems) /\ Len(t) = IF m + 1 <= n THEN n - (m + 1) + 1 ELSE 0
      /\ \A i \in 1 .. n - (m + 1) + 1 : t[i] = s[m + 1 + i - 1]
  <2>1. m + 1 \in Int /\ n \in Int /\ \A i \in m + 1 .. n : s[i] \in Elems  BY <1>1
  <2> QED  BY <2>1, SubSeqProperties
<1> HIDE DEF t
<1>3. DOMAIN t = 1 .. Len(t)  BY <1>2
<1>4. ASSUME NEW i \in DOMAIN t PROVE t[i] \in E!ToSet(s)
  <2>1. i \in 1 .. n - (m + 1) + 1 /\ m + 1 + i - 1 \in 1 .. Len(s)  BY <1>1, <1>2, <1>3
  <2>2. t[i] = s[m + 1 + i - 1]  BY <1>2, <2>1
  <2> QED  BY <1>1, <2>1, <2>2 DEF E!ToSet
<1> QED  BY <1>4 DEF E!ToSet, t

LEMMA CollectEInv == ASSUME EInv, E!Collect PROVE EInv'
<1>1. ChainSound' /\ ChainGrows /\ E!Stored' = E!Stored
  BY ChainStays DEF EInv, E!Collect
<1>2. CASE rec' = [E!Resting EXCEPT !.pc = "publish", !.bad = TRUE] /\ checkpoint' = checkpoint
  <2>1. RefreshSound'  BY <1>1, <1>2, GivenUp, RecMoves DEF EInv, E!Collect
  <2> QED  BY <1>1, <2>1, RefreshSteps DEF E!Collect
<1>3. CASE ~(manifest > Len(chain))
  <2> DEFINE end == checkpoint.next + PageSize
             next == IF Len(chain) > end THEN end ELSE checkpoint.target
             page == E!ToSet(SubSeq(chain, checkpoint.next + 1, E!Smaller(end, Len(chain))))
  <2>1. checkpoint \in Checkpoint /\ chain \in Seq(E!Records) /\ Len(chain) \in Nat /\ DOMAIN chain = 1 .. Len(chain)
    BY DEF EInv, RefreshSound, CheckpointSound, ChainSound
  <2>2. checkpoint.next \in Nat /\ checkpoint.target \in Nat /\ end \in Nat /\ next \in Nat
    BY <2>1, HistoriesAssumption DEF Checkpoint, E!HistoryAssumption
  <2>3. page \subseteq E!Stored
    <3> DEFINE n == E!Smaller(end, Len(chain))
    <3>1. n \in Nat /\ n <= Len(chain)  BY <2>1, <2>2 DEF E!Smaller
    <3> HIDE DEF n
    <3> QED  BY <2>1, <2>2, <3>1, PageStored DEF E!Stored, n
  <2>4. /\ checkpoint' = [checkpoint EXCEPT !.records = @ \cup page, !.next = next,
                             !.phase = IF next >= checkpoint.target THEN "auditing" ELSE "collecting"]
        /\ rec' = [rec EXCEPT !.pc = "publish", !.more = TRUE]
    BY <1>3 DEF E!Collect
  <2> HIDE DEF page, next, end
  <2>5. E!Stored \subseteq E!Records  BY <2>1 DEF E!Stored, E!ToSet
  <2>6. /\ checkpoint' \in Checkpoint /\ checkpoint'.records = checkpoint.records \cup page
        /\ checkpoint'.phase \in {"auditing", "collecting"}
    BY <2>1, <2>2, <2>3, <2>4, <2>5 DEF Checkpoint
  <2>7. DOMAIN rec' = RecFields /\ rec'.pc = "publish" /\ rec'.more
    BY <2>4 DEF EInv, RefreshSound, RecSound, RecFields
  <2>8. CheckpointSound'
    BY <1>1, <2>3, <2>6 DEF CheckpointSound, EInv, RefreshSound
  <2>9. RefreshSound'
    BY <2>7, <2>8 DEF RefreshSound, RecSound, IndexSound, Quarantining
  <2> QED  BY <1>1, <2>9, RefreshSteps DEF E!Collect
<1> QED  BY <1>2, <1>3 DEF E!Collect


(* A quarantine record is no transition. *)
LEMMA LivesIn ==
    ASSUME NEW known, NEW rest, NEW s, rest \subseteq s \X {"quarantine"}, NEW r
    PROVE  E!LifeIn(known \cup rest, r) = E!LifeIn(known, r)
<1> QED  BY DEF E!LifeIn, E!Kinds

LEMMA AuditEInv == ASSUME EInv, E!Audit PROVE EInv'
<1>1. ChainSound' /\ ChainGrows /\ E!Stored' = E!Stored
  BY ChainStays DEF EInv, E!Audit
<1> DEFINE known == checkpoint.records
           tried == {r \in Runs : E!LifeIn(known, r) # {}}
           trusted == {r \in tried : E!Trusted(known, r)}
           suspect == {r \in tried : ~E!Trusted(known, r)}
<1>2. checkpoint \in Checkpoint /\ known \subseteq E!Stored
  BY DEF EInv, RefreshSound, CheckpointSound
<1>3. /\ checkpoint' = [checkpoint EXCEPT !.phase = "complete", !.trusted = trusted, !.suspect = suspect]
      /\ rec' = [rec EXCEPT !.pc = "complete"]
  BY DEF E!Audit
<1>4. trusted \subseteq Runs /\ suspect \subseteq Runs /\ \A r \in trusted : E!Trusted(known, r)
  OBVIOUS
<1> HIDE DEF trusted, suspect, tried
<1>5. /\ checkpoint' \in Checkpoint /\ checkpoint'.records = known
      /\ checkpoint'.phase = "complete" /\ checkpoint'.trusted = trusted
  BY <1>2, <1>3, <1>4 DEF Checkpoint
<1>6. CheckpointSound'
  BY <1>1, <1>2, <1>4, <1>5 DEF CheckpointSound
<1>7. DOMAIN rec' = RecFields /\ rec'.pc = "complete"
  BY <1>3 DEF EInv, RefreshSound, RecSound, RecFields
<1>8. RefreshSound'
  BY <1>5, <1>6, <1>7 DEF RefreshSound, RecSound, IndexSound, Quarantining
<1> QED  BY <1>1, <1>8, RefreshSteps DEF E!Audit

LEMMA QuarantineEInv == ASSUME EInv, E!Quarantine PROVE EInv'
<1>1. ChainSound' /\ ChainGrows /\ E!Stored' = E!Stored
  BY ChainStays DEF EInv, E!Quarantine
<1>2. CheckpointSound' /\ RecSound /\ checkpoint' = checkpoint
  BY <1>1 DEF EInv, RefreshSound, CheckpointSound, E!Quarantine
<1>3. CASE rec.pc = "complete"
  <2> DEFINE rest == (checkpoint.suspect \X {"quarantine"}) \ E!Stored
  <2>1. rec' = [rec EXCEPT !.rest = rest, !.pc = IF rest = {} THEN "publish" ELSE "qhead"]
    BY <1>3 DEF E!Quarantine
  <2>2. rest \subseteq checkpoint.suspect \X {"quarantine"}  OBVIOUS
  <2> HIDE DEF rest
  <2>3. DOMAIN rec' = RecFields /\ rec'.pc \in {"publish", "qhead"} /\ rec'.rest = rest
    BY <1>2, <2>1 DEF RecSound, RecFields
  <2>4. checkpoint.phase = "complete"  BY <1>2, <1>3 DEF RecSound, Quarantining
  <2>5. RefreshSound'
    BY <1>2, <2>2, <2>3, <2>4 DEF RefreshSound, RecSound, IndexSound, Quarantining
  <2> QED  BY <1>1, <2>5, RefreshSteps DEF E!Quarantine
<1>4. CASE rec.pc = "qhead"
  <2>1. DOMAIN rec' = RecFields /\ rec'.pc = "qappend" /\ rec'.rest = rec.rest
    BY <1>2, <1>4 DEF E!Quarantine, RecSound, RecFields
  <2>2. checkpoint.phase = "complete" /\ rec.rest \subseteq checkpoint.suspect \X {"quarantine"}
    BY <1>2, <1>4 DEF RecSound, Quarantining
  <2>3. RefreshSound'
    BY <1>2, <2>1, <2>2 DEF RefreshSound, RecSound, IndexSound, Quarantining
  <2> QED  BY <1>1, <2>3, RefreshSteps DEF E!Quarantine
<1> QED  BY <1>3, <1>4 DEF E!Quarantine

LEMMA AppendQuarantineEInv == ASSUME EInv, E!AppendQuarantine PROVE EInv'
<1>1. /\ RecSound /\ CheckpointSound /\ checkpoint \in Checkpoint /\ checkpoint' = checkpoint
      /\ rec.rest \subseteq checkpoint.suspect \X {"quarantine"} /\ checkpoint.phase = "complete"
  BY DEF EInv, RefreshSound, CheckpointSound, RecSound, Quarantining, E!AppendQuarantine
<1>2. CASE E!Appendable(rec.head, rec.rest) /\ E!Publish(rec.rest) /\ rec' = [rec EXCEPT !.pc = "qmanifest"]
  <2>1. rec.rest \subseteq Runs \X {"quarantine"}  BY <1>1 DEF Checkpoint
  <2>2. IsFiniteSet(Runs \X {"quarantine"})  BY HistoriesAssumption, Counts, FS_Singleton, FS_Product DEF E!HistoryAssumption
  <2>3. IsFiniteSet(rec.rest) /\ rec.rest \subseteq E!Records  BY <2>1, <2>2, FS_Subset DEF E!Records
  <2>4. ChainSound' /\ ChainGrows /\ E!Stored' = E!Stored \cup rec.rest
    BY <1>2, <2>3, ChainPublished DEF EInv, E!AppendQuarantine, E!Appendable
  <2>5. CheckpointSound'  BY <1>1, <2>4 DEF CheckpointSound
  <2>6. DOMAIN rec' = RecFields /\ rec'.pc = "qmanifest" /\ rec'.rest = rec.rest
    BY <1>1, <1>2 DEF RecSound, RecFields
  <2>7. RefreshSound'
    BY <1>1, <2>4, <2>5, <2>6 DEF RefreshSound, RecSound, IndexSound, Quarantining
  <2> QED  BY <2>4, <2>7, RefreshSteps DEF E!AppendQuarantine
<1>3. CASE rec' = [E!Resting EXCEPT !.pc = "publish", !.bad = TRUE] /\ chain' = chain
  <2>1. ChainSound' /\ ChainGrows /\ E!Stored' = E!Stored
    BY <1>3, ChainStays DEF EInv, E!AppendQuarantine
  <2>2. RefreshSound'  BY <1>3, <2>1, GivenUp, RecMoves DEF EInv, E!AppendQuarantine
  <2> QED  BY <2>1, <2>2, RefreshSteps DEF E!AppendQuarantine
<1> QED  BY <1>2, <1>3 DEF E!AppendQuarantine

LEMMA PublishQuarantineEInv == ASSUME EInv, E!PublishQuarantine PROVE EInv'
<1>1. ChainSound' /\ ChainGrows /\ E!Stored' = E!Stored
  BY ChainStays DEF EInv, E!PublishQuarantine
<1>2. CASE rec' = [rec EXCEPT !.pc = "retarget"]
  <2>1. /\ RecSound /\ CheckpointSound' /\ checkpoint' = checkpoint /\ checkpoint.phase = "complete"
        /\ rec.rest \subseteq checkpoint.suspect \X {"quarantine"} /\ rec.rest \subseteq E!Stored
    BY <1>1 DEF EInv, RefreshSound, CheckpointSound, RecSound, Quarantining, E!PublishQuarantine
  <2>2. DOMAIN rec' = RecFields /\ rec'.pc = "retarget" /\ rec'.rest = rec.rest
    BY <1>2, <2>1 DEF RecSound, RecFields
  <2>3. RefreshSound'
    BY <1>1, <2>1, <2>2 DEF RefreshSound, RecSound, IndexSound, Quarantining
  <2> QED  BY <1>1, <2>3, RefreshSteps DEF E!PublishQuarantine
<1>3. CASE rec' = [E!Resting EXCEPT !.pc = "publish", !.bad = TRUE]
  <2>1. RefreshSound'  BY <1>1, <1>3, GivenUp, RecMoves DEF EInv, E!PublishQuarantine
  <2> QED  BY <1>1, <2>1, RefreshSteps DEF E!PublishQuarantine
<1> QED  BY <1>2, <1>3 DEF E!PublishQuarantine

LEMMA RetargetEInv == ASSUME EInv, E!Retarget PROVE EInv'
<1>1. ChainSound' /\ ChainGrows /\ E!Stored' = E!Stored
  BY ChainStays DEF EInv, E!Retarget
<1>2. /\ RecSound /\ checkpoint \in Checkpoint /\ checkpoint.records \subseteq E!Stored
      /\ checkpoint.phase = "complete" /\ \A r \in checkpoint.trusted : E!Trusted(checkpoint.records, r)
      /\ rec.rest \subseteq checkpoint.suspect \X {"quarantine"} /\ rec.rest \subseteq E!Stored
      /\ Len(chain) \in Nat /\ E!Stored \subseteq E!Records
  BY DEF EInv, RefreshSound, CheckpointSound, RecSound, Quarantining, E!Retarget, ChainSound, E!Stored, E!ToSet
<1>3. /\ checkpoint' \in Checkpoint /\ checkpoint'.records = checkpoint.records \cup rec.rest
      /\ checkpoint'.phase = "complete" /\ checkpoint'.trusted = checkpoint.trusted
  BY <1>2 DEF E!Retarget, Checkpoint
<1>4. \A r \in checkpoint.trusted : E!Trusted(checkpoint.records \cup rec.rest, r)
  BY <1>2, LivesIn DEF E!Trusted
<1>5. CheckpointSound'
  BY <1>1, <1>2, <1>3, <1>4 DEF CheckpointSound
<1>6. DOMAIN rec' = RecFields /\ rec'.pc = "publish"
  BY <1>2 DEF E!Retarget, RecSound, RecFields
<1>7. RefreshSound'
  BY <1>3, <1>5, <1>6 DEF RefreshSound, RecSound, IndexSound, Quarantining
<1> QED  BY <1>1, <1>7, RefreshSteps DEF E!Retarget

(* A trusted trial without a verification is a rejection and nothing else. *)
LEMMA RejectionsHit ==
    ASSUME NEW known, NEW r, E!Trusted(known, r), E!LifeIn(known, r) \cap {"verified", "promoted"} = {}
    PROVE  r \in SoundRuns /\ E!LifeIn(known, r) = {"executed", "rejected"}
<1>1. E!LifeIn(known, r) \subseteq E!Kinds  BY DEF E!LifeIn
<1>2. ~E!Rollback(E!LifeIn(known, r))  BY DEF E!Rollback
<1>3. r \in SoundRuns /\ E!Rejection(E!LifeIn(known, r))  BY <1>2 DEF E!Trusted
<1> QED  BY <1>1, <1>3 DEF E!Rejection, E!Kinds

LEMMA EndRefreshEInv == ASSUME EInv, E!EndRefresh PROVE EInv'
<1>1. ChainSound' /\ ChainGrows /\ E!Stored' = E!Stored
  BY ChainStays DEF EInv, E!EndRefresh
<1>2. CheckpointSound' /\ RecSound /\ CheckpointSound /\ checkpoint' = checkpoint
  BY <1>1 DEF EInv, RefreshSound, CheckpointSound, E!EndRefresh
<1>3. RecSound'
  BY RestingFields DEF E!EndRefresh, RecSound, Quarantining
<1>4. IndexSound'
  <2>1. CASE index' = E!Unavailable
    BY <2>1 DEF IndexSound, E!Unavailable
  <2>2. CASE ~(rec.bad \/ rec.more) /\ index' = E!Rebuilt
    <3>1. \A r \in checkpoint.trusted : E!Trusted(checkpoint.records, r)
      BY <1>2, <2>2 DEF RecSound, CheckpointSound, E!EndRefresh
    <3>2. ASSUME E!Rebuilt.health = "ready"
          PROVE  /\ E!Rebuilt.hits = checkpoint.trusted
                 /\ \A r \in checkpoint.trusted : E!LifeIn(checkpoint.records, r) \cap {"verified", "promoted"} = {}
      BY <3>2 DEF E!Rebuilt
    <3> QED  BY <1>2, <2>2, <3>1, <3>2, RejectionsHit DEF IndexSound
  <2> QED  BY <2>1, <2>2 DEF E!EndRefresh
<1> QED  BY <1>1, <1>2, <1>3, <1>4, RefreshSteps DEF E!EndRefresh, RefreshSound

-----------------------------------------------------------------------------
(* Queries, and the crash. *)

LEMMA ReadIsUpto ==
    ASSUME ChainSound, NEW n \in Nat, n <= Len(chain)
    PROVE  E!ToSet(SubSeq(chain, 1, n)) = Upto(n)
<1>1. chain \in Seq(E!Records) /\ Len(chain) \in Nat /\ DOMAIN chain = 1 .. Len(chain)
  BY DEF ChainSound
<1> DEFINE t == SubSeq(chain, 1, n)
<1>2. Len(t) = n /\ DOMAIN t = 1 .. n /\ \A i \in 1 .. n : t[i] = chain[i]
  <2>1. 1 \in Int /\ n \in Int /\ \A i \in 1 .. n : chain[i] \in E!Records
    <3>1. \A i \in 1 .. n : i \in 1 .. Len(chain)  BY <1>1
    <3> QED  BY <1>1, <3>1
  <2>2. /\ t \in Seq(E!Records) /\ Len(t) = IF 1 <= n THEN n - 1 + 1 ELSE 0
        /\ \A i \in 1 .. n - 1 + 1 : t[i] = chain[1 + i - 1]
    BY <2>1, SubSeqProperties
  <2> HIDE DEF t
  <2>3. Len(t) = n  BY <2>2
  <2>4. DOMAIN t = 1 .. n  BY <2>2, <2>3
  <2>5. \A i \in 1 .. n : t[i] = chain[i]  BY <2>2
  <2> QED  BY <2>3, <2>4, <2>5
<1> HIDE DEF t
<1>3. E!ToSet(t) = {t[i] : i \in 1 .. n}  BY <1>2 DEF E!ToSet
<1> QED  BY <1>2, <1>3 DEF Upto, t

LEMMA QuerySteps ==
    ASSUME EInv, UNCHANGED E!queries, manifest' = manifest \/ E!Scan, QuerySound'
    PROVE  EInv' /\ E!Stored' = E!Stored
<1>1. ChainSound' /\ E!Stored' = E!Stored
  BY ChainStays DEF EInv, E!queries
<1>2. RefreshSound'  BY <1>1, RefreshKept DEF EInv, E!queries
<1>3. FlushesSound'  BY <1>1, FlushesKept DEF EInv, E!queries
<1> QED  BY <1>1, <1>2, <1>3 DEF EInv, RunsTyped, E!queries

LEMMA NoQuerySound == query' = E!NoQuery => QuerySound'
<1> QED  BY DEF QuerySound, Query, E!NoQuery

LEMMA OverlaySound ==
    ASSUME EInv, NEW r \in Runs
    PROVE  /\ E!Overlay(r) \subseteq E!Records
           /\ \A k \in E!Kinds : outbox[r][k] \in {"pending", "delivered"} =>
                 E!RecordsOf(r, k) \subseteq E!Overlay(r) \cup E!Stored
<1>1. \A k \in E!Kinds : E!RecordsOf(r, k) \subseteq E!Records
  BY DEF E!RecordsOf, E!Records
<1>2. E!Pending(outbox, r) \subseteq E!Kinds /\ E!Overlay(r) = UNION {E!RecordsOf(r, k) : k \in E!Pending(outbox, r)}
  BY DEF E!Pending, E!Overlay
<1>3. \A k \in E!Kinds : outbox[r][k] = "pending" => k \in E!Pending(outbox, r)
  BY DEF E!Pending
<1>4. \A k \in E!Kinds : outbox[r][k] = "delivered" => E!RecordsOf(r, k) \subseteq E!Stored
  BY DEF EInv, BoxSound
<1>5. \A k \in E!Pending(outbox, r) : E!RecordsOf(r, k) \subseteq E!Overlay(r)
  BY <1>2
<1>6. E!Overlay(r) \subseteq E!Records
  BY <1>1, <1>2
<1> QED  BY <1>3, <1>4, <1>5, <1>6

LEMMA AskEInv == ASSUME EInv, NEW r \in Runs, E!Ask(r) PROVE EInv'
<1> DEFINE due == {k \in E!Kinds : outbox[r][k] \in {"pending", "delivered"}}
           overlay == E!Overlay(r)
<1>1. query' = [E!NoQuery EXCEPT !.pc = "head", !.run = r, !.overlay = overlay, !.due = due]
  BY DEF E!Ask
<1>2. overlay \subseteq E!Records /\ \A k \in due : E!RecordsOf(r, k) \subseteq overlay \cup E!Stored
  BY OverlaySound
<1>3. due \subseteq E!Kinds  OBVIOUS
<1> HIDE DEF due, overlay
<1>4. /\ query' \in Query /\ query'.pc = "head" /\ query'.run = r /\ query'.overlay = overlay
      /\ query'.due = due /\ query'.got = 0
  BY <1>1, <1>2, <1>3 DEF Query, E!NoQuery
<1>5. chain' = chain  BY DEF E!Ask, E!queries
<1>6. E!Stored' = E!Stored  BY <1>5 DEF E!Stored
<1>7. QuerySound'  BY <1>2, <1>4, <1>6 DEF QuerySound
<1> QED  BY <1>7, QuerySteps DEF E!Ask

LEMMA StoredUpto == ChainSound => E!Stored = Upto(Len(chain))
<1> QED  BY DEF ChainSound, E!Stored, E!ToSet, Upto

LEMMA AskHeadEInv == ASSUME EInv, E!AskHead PROVE EInv'
<1>1. query \in Query /\ Len(chain) \in Nat /\ chain' = chain
  BY DEF EInv, QuerySound, ChainSound, E!AskHead, E!queries
<1>2. /\ query' \in Query /\ query'.pc = "read" /\ query'.head = Len(chain)
      /\ query'.run = query.run /\ query'.overlay = query.overlay /\ query'.due = query.due
      /\ query'.got = query.got
  BY <1>1 DEF E!AskHead, Query
<1>3. \A k \in query.due : E!RecordsOf(query.run, k) \subseteq query.overlay \cup Upto(Len(chain))
  BY StoredUpto DEF EInv, QuerySound, E!AskHead
<1>4. \A n : Upto(n)' = Upto(n)  BY <1>1 DEF Upto
<1>6. query.got <= Len(chain)
  BY <1>1 DEF EInv, QuerySound, E!AskHead
<1>7. QuerySound'
  BY <1>1, <1>2, <1>3, <1>4, <1>6 DEF QuerySound
<1> QED  BY <1>7, QuerySteps DEF E!AskHead

LEMMA ReadPageEInv == ASSUME EInv, E!ReadPage PROVE EInv'
<1>1. /\ query \in Query /\ Len(chain) \in Nat /\ chain' = chain /\ query.pc = "read"
      /\ query.got <= query.head /\ query.head <= Len(chain)
      /\ \A k \in query.due : E!RecordsOf(query.run, k) \subseteq query.overlay \cup Upto(query.head)
  BY DEF EInv, QuerySound, ChainSound, E!ReadPage, E!queries
<1>2. \A n : Upto(n)' = Upto(n)  BY <1>1 DEF Upto
<1>3. query.got \in Nat /\ query.head \in Nat /\ PageSize \in Nat
  BY <1>1, HistoriesAssumption DEF Query, E!HistoryAssumption
<1>4. CASE E!ReadAll /\ query' = [query EXCEPT !.pc = "recheck"]
  <2>1. /\ query' \in Query /\ query'.pc = "recheck" /\ query'.head = query.head
        /\ query'.run = query.run /\ query'.overlay = query.overlay /\ query'.due = query.due
        /\ query'.got = query.got
    BY <1>1, <1>4 DEF Query
  <2>2. query.got = query.head  BY <1>1, <1>3, <1>4 DEF E!ReadAll
  <2>3. QuerySound'
    BY <1>1, <1>2, <2>1, <2>2 DEF QuerySound
  <2> QED  BY <2>3, QuerySteps DEF E!ReadPage
<1>5. CASE query' = E!NoQuery
  BY <1>5, NoQuerySound, QuerySteps DEF E!ReadPage
<1>6. CASE query' = [query EXCEPT !.got = E!Smaller(@ + PageSize, query.head)]
  <2>1. E!Smaller(query.got + PageSize, query.head) \in Nat /\ E!Smaller(query.got + PageSize, query.head) <= query.head
    BY <1>3 DEF E!Smaller
  <2>2. /\ query' \in Query /\ query'.pc = "read" /\ query'.head = query.head
        /\ query'.run = query.run /\ query'.overlay = query.overlay /\ query'.due = query.due
        /\ query'.got = E!Smaller(query.got + PageSize, query.head)
    BY <1>1, <1>6, <2>1 DEF Query
  <2>3. QuerySound'
    BY <1>1, <1>2, <2>1, <2>2 DEF QuerySound
  <2> QED  BY <2>3, QuerySteps DEF E!ReadPage
<1> QED  BY <1>4, <1>5, <1>6 DEF E!ReadPage

LEMMA RecheckEInv == ASSUME EInv, E!Recheck PROVE EInv'
<1>1. /\ query \in Query /\ Len(chain) \in Nat /\ chain' = chain /\ query.pc = "recheck"
      /\ query.got = query.head /\ query.head <= Len(chain)
      /\ \A k \in query.due : E!RecordsOf(query.run, k) \subseteq query.overlay \cup Upto(query.head)
  BY DEF EInv, QuerySound, ChainSound, E!Recheck, E!queries
<1>2. \A n : Upto(n)' = Upto(n)  BY <1>1 DEF Upto
<1>3. CASE query' = [query EXCEPT !.pc = "answer"]
  <2>1. /\ query' \in Query /\ query'.pc = "answer" /\ query'.head = query.head
        /\ query'.run = query.run /\ query'.overlay = query.overlay /\ query'.due = query.due
        /\ query'.got = query.got /\ query.head \in Nat
    BY <1>1, <1>3 DEF Query
  <2>2. QuerySound'  BY <1>1, <1>2, <2>1 DEF QuerySound
  <2> QED  BY <2>2, QuerySteps DEF E!Recheck
<1>4. CASE query' = E!NoQuery
  BY <1>4, NoQuerySound, QuerySteps DEF E!Recheck
<1> QED  BY <1>3, <1>4 DEF E!Recheck

LEMMA AnswerEInv == ASSUME EInv, E!Answer PROVE EInv'
<1>1. QuerySound'
  BY NoQuerySound DEF E!Answer, QuerySound, Query, E!NoQuery
<1> QED  BY <1>1, QuerySteps DEF E!Answer

LEMMA CrashEInv == ASSUME EInv, E!Crash PROVE EInv'
<1>1. ChainSound' /\ E!Stored' = E!Stored
  BY ChainStays DEF EInv, E!Crash
<1>2. BoxSound(outbox, life, E!Stored)' /\ BoxSound(live, life, E!Stored)' /\ RunsTyped'
  BY <1>1 DEF EInv, E!Crash, RunsTyped
<1>3. FlushesSound'
  BY <1>1, IdleSound DEF E!Crash, FlushesSound, FlushSound
<1>4. CheckpointSound'
  BY <1>1 DEF EInv, RefreshSound, CheckpointSound, E!Crash
<1>5. RecSound' /\ IndexSound'
  BY RestingFields DEF E!Crash, RecSound, IndexSound, Quarantining, E!Unavailable
<1>6. QuerySound'  BY NoQuerySound DEF E!Crash
<1> QED  BY <1>1, <1>2, <1>3, <1>4, <1>5, <1>6 DEF EInv, RefreshSound

LEMMA StutterEInv == ASSUME EInv, UNCHANGED E!vars PROVE EInv'
<1>1. ChainSound' /\ E!Stored' = E!Stored
  BY ChainStays DEF EInv, E!vars
<1>2. QuerySound'
  <2>1. chain' = chain /\ query' = query  BY DEF E!vars
  <2>2. \A n : Upto(n)' = Upto(n)  BY <2>1 DEF Upto
  <2> QED  BY <1>1, <2>1, <2>2 DEF EInv, QuerySound
<1>3. UNCHANGED E!queries /\ manifest' = manifest  BY DEF E!vars, E!queries
<1> QED  BY <1>2, <1>3, QuerySteps

LEMMA NextEInv == EInv /\ [E!Next]_(E!vars) => EInv'
<1> SUFFICES ASSUME EInv, [E!Next]_(E!vars) PROVE EInv'  OBVIOUS
<1>1. CASE UNCHANGED E!vars  BY <1>1, StutterEInv
<1>2. CASE \E r \in Runs : E!Transition(r) \/ E!Save(r) \/ E!StartFlush(r) \/ E!Group(r) \/ E!Ask(r)
  BY <1>2, TransitionEInv, SaveEInv, StartFlushEInv, GroupEInv, AskEInv
<1>3. CASE \E f \in E!Flushers : E!Flush(f)
  BY <1>3, FlushEInv
<1>4. CASE E!Refresh \/ E!GroupFlushed \/ E!Exhausted \/ E!Aim \/ E!Collect \/ E!Audit \/ E!Quarantine
  BY <1>4, RefreshEInv, GroupFlushedEInv, ExhaustedEInv, AimEInv, CollectEInv, AuditEInv, QuarantineEInv
<1>5. CASE E!AppendQuarantine \/ E!PublishQuarantine \/ E!Retarget \/ E!EndRefresh
  BY <1>5, AppendQuarantineEInv, PublishQuarantineEInv, RetargetEInv, EndRefreshEInv
<1>6. CASE E!AskHead \/ E!ReadPage \/ E!Recheck \/ E!Answer \/ E!Crash
  BY <1>6, AskHeadEInv, ReadPageEInv, RecheckEInv, AnswerEInv, CrashEInv
<1> QED  BY <1>1, <1>2, <1>3, <1>4, <1>5, <1>6 DEF E!Next

-----------------------------------------------------------------------------
(* What the invariant promises. *)

LEMMA EInvPromises == EInv => E!DeliveredIsRecorded /\ E!PrunedForCause
<1> SUFFICES ASSUME EInv PROVE E!DeliveredIsRecorded /\ E!PrunedForCause  OBVIOUS
<1>1. \A r \in Runs, k \in E!Kinds : outbox[r][k] = "delivered" => E!RecordsOf(r, k) \subseteq E!Stored
  BY DEF EInv, BoxSound
<1>2. Cardinality(E!Stored) = Len(chain) /\ manifest <= Len(chain)
  BY StoredCounted DEF EInv, ChainSound
<1>3. E!PrunedForCause
  BY DEF EInv, RefreshSound, CheckpointSound, IndexSound, E!PrunedForCause, E!Refreshed
<1> QED  BY <1>1, <1>2, <1>3, Counts DEF E!DeliveredIsRecorded

EntriesStand ==
    \A r \in Runs, k \in E!Kinds :
       /\ outbox[r][k] = "pending" => outbox'[r][k] \in {"pending", "delivered"}
       /\ outbox[r][k] = "delivered" => outbox'[r][k] = "delivered"

LEMMA EnqueuedStands ==
    ASSUME EInv, NEW r \in Runs, NEW kind \in E!Kinds, outbox' = E!Enqueued(r, kind)
    PROVE  EntriesStand
<1>1. outbox \in [Runs -> [E!Kinds -> EntryStates]]  BY DEF EInv, BoxSound
<1>2. CASE outbox[r][kind] # "none"  BY <1>2 DEF E!Enqueued, EntriesStand
<1>3. CASE outbox[r][kind] = "none"
  <2>1. PICK v : outbox' = [outbox EXCEPT ![r][kind] = v]  BY <1>3 DEF E!Enqueued
  <2>2. \A s \in Runs, k \in E!Kinds : (s # r \/ k # kind) => outbox'[s][k] = outbox[s][k]
    BY <1>1, <2>1
  <2> QED  BY <1>3, <2>2 DEF EntriesStand
<1> QED  BY <1>2, <1>3

LEMMA StepEntriesStand == EInv /\ [E!Next]_(E!vars) => EntriesStand
<1> SUFFICES ASSUME EInv, [E!Next]_(E!vars) PROVE EntriesStand  OBVIOUS
<1>1. outbox \in [Runs -> [E!Kinds -> EntryStates]] /\ live \in [Runs -> [E!Kinds -> EntryStates]]
  BY DEF EInv, BoxSound
<1>2. CASE outbox' = outbox  BY <1>2 DEF EntriesStand
<1>3. ASSUME NEW r \in Runs, E!Transition(r) PROVE EntriesStand
  <2>1. life[r] \in Seq(E!Kinds) /\ done[r] \in Nat /\ done[r] < Len(life[r])
    BY <1>3 DEF EInv, RunsTyped, E!Transition
  <2>2. life[r][done[r] + 1] \in E!Kinds  BY <2>1
  <2> QED  BY <1>3, <2>2, EnqueuedStands DEF E!Transition
<1>4. ASSUME NEW r \in Runs, E!Save(r) PROVE EntriesStand
  <2>1. outbox' = [outbox EXCEPT ![r] = E!Merged(live[r], outbox[r])]  BY <1>4 DEF E!Save
  <2>2. \A s \in Runs : s # r => outbox'[s] = outbox[s]  BY <1>1, <2>1
  <2>3. outbox'[r] = E!Merged(live[r], outbox[r])  BY <1>1, <2>1
  <2>4. \A k \in E!Kinds : /\ outbox[r][k] = "pending" => outbox'[r][k] \in {"pending", "delivered"}
                           /\ outbox[r][k] = "delivered" => outbox'[r][k] = "delivered"
    BY <2>3 DEF E!Merged
  <2> QED  BY <2>2, <2>4 DEF EntriesStand
<1>5. ASSUME NEW r \in Runs, E!Group(r) PROVE EntriesStand
  <2>1. CASE E!Completed(r) /\ outbox' = E!Enqueued(r, E!Last(life[r]))
    <3>1. life[r] \in Seq(E!Kinds) /\ life[r] # <<>>  BY <2>1 DEF E!Completed, EInv, RunsTyped
    <3>2. E!Last(life[r]) \in E!Kinds  BY <3>1 DEF E!Last
    <3> QED  BY <2>1, <3>2, EnqueuedStands
  <2>2. CASE outbox' = outbox  BY <2>2, <1>2
  <2> QED  BY <1>5, <2>1, <2>2 DEF E!Group
<1>6. ASSUME NEW f \in E!Flushers, E!Flush(f) PROVE EntriesStand
  <2>1. CASE outbox' = outbox  BY <2>1, <1>2
  <2>2. CASE outbox' = [outbox EXCEPT ![fl[f].run][fl[f].kind] = "delivered"]
    BY <1>1, <2>2 DEF EntriesStand
  <2> QED  BY <1>6, <2>1, <2>2 DEF E!Flush, E!Pick, E!ReadHead, E!AppendBatch, E!PublishManifest, E!Mark
<1>7. ASSUME NEW r \in Runs, E!StartFlush(r) \/ E!Ask(r) PROVE outbox' = outbox
  BY <1>7 DEF E!StartFlush, E!Ask, E!queries
<1>8. ASSUME E!Refresh \/ E!GroupFlushed \/ E!Exhausted \/ E!Aim \/ E!Collect \/ E!Audit \/ E!Quarantine
             \/ E!AppendQuarantine \/ E!PublishQuarantine \/ E!Retarget \/ E!EndRefresh
      PROVE outbox' = outbox
  BY <1>8 DEF E!Refresh, E!GroupFlushed, E!Exhausted, E!Aim, E!Collect, E!Audit, E!Quarantine, E!AppendQuarantine,
              E!PublishQuarantine, E!Retarget, E!EndRefresh
<1>9. ASSUME E!AskHead \/ E!ReadPage \/ E!Recheck \/ E!Answer \/ E!Crash \/ UNCHANGED E!vars PROVE outbox' = outbox
  BY <1>9 DEF E!AskHead, E!ReadPage, E!Recheck, E!Answer, E!Crash, E!vars, E!queries
<1> QED  BY <1>2, <1>3, <1>4, <1>5, <1>6, <1>7, <1>8, <1>9 DEF E!Next

AnswersWhole ==
    query.pc = "answer" /\ query'.pc = "answered" =>
         \A k \in query.due : E!RecordsOf(query.run, k)
             \subseteq query.overlay \cup E!ToSet(SubSeq(chain, 1, query.got))

LEMMA AnswersAreWhole == EInv => AnswersWhole
<1> SUFFICES ASSUME EInv, query.pc = "answer"
             PROVE  \A k \in query.due : E!RecordsOf(query.run, k)
                       \subseteq query.overlay \cup E!ToSet(SubSeq(chain, 1, query.got))
  BY DEF AnswersWhole
<1>1. /\ query \in Query /\ query.got = query.head /\ query.head <= Len(chain)
      /\ \A k \in query.due : E!RecordsOf(query.run, k) \subseteq query.overlay \cup Upto(query.head)
  BY DEF EInv, QuerySound
<1>2. query.head \in Nat  BY <1>1 DEF Query
<1>3. E!ToSet(SubSeq(chain, 1, query.got)) = Upto(query.head)
  BY <1>1, <1>2, ReadIsUpto DEF EInv
<1> QED  BY <1>1, <1>3

(***************************************************************************)
(* ToolJobs.                                                               *)
(***************************************************************************)

\* A child that lives has not been seen to exit.
JInv ==
  /\ status \in [Jobs -> J!Final \cup {"none", "running", "gone"}]
  /\ child \in [Jobs -> {"none", "alive", "dead"}]
  /\ \A j \in Jobs : status[j] \in {"completed", "failed"} => child[j] = "dead"

LEMMA InitJInv == J!Init => JInv
BY DEF J!Init, JInv, J!Final

FirstVerdicts == \A j \in Jobs : status[j] \in J!Final => status'[j] \in {status[j], "gone"}

\* Its verdict is set while it runs, and what follows leaves it.
LEMMA StepJInv == JInv /\ [J!Next]_(J!vars) => JInv' /\ [FirstVerdicts]_(J!vars)
<1> SUFFICES ASSUME JInv, [J!Next]_(J!vars) PROVE JInv' /\ FirstVerdicts  OBVIOUS
<1> USE DEF JInv, FirstVerdicts, J!Final
<1>1. CASE UNCHANGED <<status, child>>
  BY <1>1
<1>2. ASSUME NEW j \in Jobs, J!StartJob(j) PROVE JInv' /\ FirstVerdicts
  <2>1. \A k \in J!Forgotten : k \in Jobs /\ status[k] # "running" /\ status[k] # "none"
    BY DEF J!Forgotten, J!Oldest, J!Known
  <2>2. /\ status' = [k \in Jobs |-> IF k = j THEN "running"
                                     ELSE IF k \in J!Forgotten THEN "gone" ELSE status[k]]
        /\ child' = [child EXCEPT ![j] = "alive"] /\ status[j] = "none"
    BY <1>2 DEF J!StartJob
  <2> HIDE DEF JInv, FirstVerdicts
  <2>3. JInv'
    BY <2>2 DEF JInv
  <2>4. FirstVerdicts
    BY <2>2 DEF FirstVerdicts
  <2> QED BY <2>3, <2>4
<1>3. ASSUME NEW j \in Jobs, J!TimesOut(j) \/ J!CancelJob(j) PROVE JInv' /\ FirstVerdicts
  BY <1>3 DEF J!TimesOut, J!CancelJob
<1>4. ASSUME NEW j \in Jobs, J!ChildExits(j) PROVE JInv' /\ FirstVerdicts
  BY <1>4 DEF J!ChildExits, J!FinishJob
<1>5. CASE J!StdinEnds \/ J!Sigterm
  <2>1. \E swept \in SUBSET J!Running :
          status' = [j \in Jobs |-> IF j \in swept THEN "cancelled" ELSE status[j]]
    BY <1>5 DEF J!StdinEnds, J!Sigterm, J!TerminateAll
  <2>2. child' = child
    BY <1>5 DEF J!StdinEnds, J!Sigterm
  <2> QED BY <2>1, <2>2 DEF J!Running
<1>6. CASE J!Deadline \/ J!RefuseStart \/ J!LoopEmpties
  BY <1>6, <1>1 DEF J!Deadline, J!RefuseStart, J!LoopEmpties
<1>7. ASSUME NEW j \in Jobs, J!KillTimer(j) PROVE JInv' /\ FirstVerdicts
  BY <1>7, <1>1 DEF J!KillTimer
<1>8. ASSUME NEW w \in Waits, J!WaitExpires(w) \/ \E j \in Jobs : J!WaitJob(w, j)
      PROVE  JInv' /\ FirstVerdicts
  BY <1>8, <1>1 DEF J!WaitExpires, J!WaitJob
<1>9. CASE UNCHANGED J!vars
  BY <1>9, <1>1 DEF J!vars
<1> QED BY <1>2, <1>3, <1>4, <1>5, <1>6, <1>7, <1>8, <1>9 DEF J!Next

(***************************************************************************)
(* SharedTools.                                                            *)
(***************************************************************************)

LockCalls == S!TaskCalls \cup {"register"}

\* Where a call can be, and that it is made once.
CallPlaced(p) ==
  /\ at[p] \in {"lock", "remove", "write", "unlock"} => call[p] \in LockCalls
  /\ at[p] = "read" => call[p] \in LockCalls \cup {"finalize", "reject"}
  /\ at[p] \in {"append", "logged", "check", "publish", "finish"} => call[p] \in S!HubCalls
  /\ at[p] \in {"copy", "record"} => call[p] \in S!HubCalls \cup {"artifact"}
  /\ call[p] \notin todo[p]
Placed == \A p \in Procs : CallPlaced(p)

\* A living server that is behind the lock of a file made the lock that stands.
Behind(p, f) == /\ p \in alive /\ at[p] \in {"read", "write", "unlock"}
                /\ call[p] \in LockCalls /\ S!Locks(p) = f
Held == \A f \in S!Locked \ robbed, p \in Procs : Behind(p, f) => lock[f] = p

\* What it read is what the file holds.
Current == \A f \in S!Locked \ robbed, p \in Procs : Behind(p, f) /\ at[p] = "write" => seen[p] = file[f]

\* An entry of a file is of a call that was made and written, and the file is whole.
Over(p, c) == c \notin todo[p] /\ (call[p] = c => at[p] = "unlock")
Written(f) ==
  /\ IsFiniteSet(file[f].entries) /\ S!Whole(f)
  /\ \A a \in file[f].entries : Over(a[1], a[2])
FilesWhole == \A f \in S!Locked \ robbed : Written(f)

SInv == S!SharedTypeOK /\ Placed /\ Held /\ Current /\ FilesWhole

LEMMA InitSInv == S!Init => SInv
<1> SUFFICES ASSUME S!Init PROVE SInv  OBVIOUS
<1>1. todo \in [Procs -> SUBSET S!Calls] /\ S!NoFile \in S!Contents
  BY SharedAssumption DEF S!Init, S!ToolsAssumption, S!NoFile, S!Contents
<1>2. S!SharedTypeOK
  BY <1>1 DEF S!Init, S!SharedTypeOK
<1>3. Placed /\ Held /\ Current
  BY <1>1 DEF S!Init, Placed, CallPlaced, Held, Current, Behind, S!Calls, S!TaskCalls, S!HubCalls
<1>4. FilesWhole
  <2>1. \A f \in S!Locked : file[f].entries = {} /\ file[f].revision = 0 /\ S!Done(f) = {}
    BY DEF S!Init, S!NoFile, S!Done
  <2> QED BY <2>1, FS_EmptySet, Counts DEF FilesWhole, Written, S!Whole
<1> QED BY <1>2, <1>3, <1>4 DEF SInv

LEMMA LocksAre ==
  ASSUME NEW p \in Procs, call[p] \in LockCalls
  PROVE  S!Locks(p) \in S!Locked
BY DEF S!Locks, S!FileOf, S!Locked, LockCalls

\* A step of p that leaves the locks and the files as they are, goes behind no lock, and writes
\* what it then read of the file.
Aside(p) ==
  /\ UNCHANGED <<lock, file, robbed>> /\ alive' \subseteq alive
  /\ \A f \in S!Locked : S!Done(f)' = S!Done(f)
  /\ \A q \in Procs \ {p} : /\ call'[q] = call[q] /\ at'[q] = at[q]
                            /\ seen'[q] = seen[q] /\ todo'[q] = todo[q]
  /\ \A c \in S!Calls : Over(p, c) => Over(p, c)'
  /\ \A f \in S!Locked : /\ Behind(p, f)' => Behind(p, f)
                         /\ Behind(p, f)' /\ at'[p] = "write" =>
                              \/ seen'[p] = file[f]
                              \/ at[p] = "write" /\ seen'[p] = seen[p]

LEMMA AsideKeeps ==
  ASSUME SInv, S!SharedTypeOK', Placed', NEW p \in Procs, Aside(p)
  PROVE  SInv'
<1>1. \A q \in Procs, f \in S!Locked : Behind(q, f)' => Behind(q, f)
  BY DEF Aside, Behind, S!Locks
<1>2. Held'
  BY <1>1 DEF SInv, Held, Aside
<1>3. Current'
  <2> SUFFICES ASSUME NEW f \in S!Locked \ robbed, NEW q \in Procs, Behind(q, f)', at'[q] = "write"
               PROVE  seen'[q] = file[f]
    BY DEF Current, Aside
  <2>1. CASE q = p
    BY <2>1, <1>1 DEF SInv, Current, Aside
  <2>2. CASE q # p
    BY <2>2, <1>1 DEF SInv, Current, Aside
  <2> QED BY <2>1, <2>2
<1>4. FilesWhole'
  <2> SUFFICES ASSUME NEW f \in S!Locked \ robbed PROVE Written(f)'
    BY DEF FilesWhole, Aside
  <2>1. Written(f) /\ file' = file /\ S!Done(f)' = S!Done(f)
    BY DEF SInv, FilesWhole, Aside
  <2>2. file[f].entries \subseteq Procs \X S!Calls
    BY DEF SInv, S!SharedTypeOK, S!Contents
  <2>3. ASSUME NEW a \in file[f].entries PROVE Over(a[1], a[2])'
    <3>1. a[1] \in Procs /\ a[2] \in S!Calls /\ Over(a[1], a[2])
      BY <2>1, <2>2 DEF Written
    <3>2. CASE a[1] = p
      BY <3>1, <3>2 DEF Aside
    <3>3. CASE a[1] # p
      BY <3>1, <3>3 DEF Aside, Over
    <3> QED BY <3>2, <3>3
  <2> QED BY <2>1, <2>3 DEF Written, S!Whole
<1> QED BY <1>2, <1>3, <1>4 DEF SInv

\* How a step of p that moves within its call, or ends it, keeps what is said of where calls are.
LEMMA Moves ==
  ASSUME SInv, NEW p \in Procs, NEW where, S!Go(p, where)
  PROVE  /\ at'[p] = where
         /\ \A q \in Procs \ {p} : at'[q] = at[q]
BY DEF SInv, S!SharedTypeOK, S!Go

LEMMA Returns ==
  ASSUME SInv, NEW p \in Procs, NEW ok \in BOOLEAN, S!Return(p, ok),
         ok => call[p] \in S!HubCalls \cup {"artifact"}
  PROVE  /\ call' \in [Procs -> S!Calls \cup {"none"}] /\ answers' \subseteq Procs \X S!Calls
         /\ call'[p] = "none" /\ at'[p] = "idle"
         /\ \A q \in Procs \ {p} : call'[q] = call[q] /\ at'[q] = at[q]
         /\ UNCHANGED <<todo, alive>>
         /\ \A f \in S!Locked : S!Done(f)' = S!Done(f)
<1>1. call[p] \in S!HubCalls \cup {"artifact"} => call[p] \in S!Calls
  BY DEF S!Calls
<1>2. \A f \in S!Locked : S!Done(f)' = S!Done(f)
  <2>1. answers' = answers \/ (ok /\ answers' = answers \cup {<<p, call[p]>>})
    BY DEF S!Return
  <2> QED BY <2>1 DEF S!Done
<1> QED BY <1>1, <1>2 DEF SInv, S!SharedTypeOK, S!Return, S!Go

Place == {"idle", "lock", "remove", "read", "write", "unlock", "check", "copy",
          "record", "append", "logged", "publish", "finish"}

\* A step of p that ends its call and answers, other than with a file behind a lock.
LEMMA ReturnKeeps ==
  ASSUME SInv, NEW p \in Procs, NEW ok \in BOOLEAN, S!Return(p, ok),
         ok => call[p] \in S!HubCalls \cup {"artifact"},
         UNCHANGED <<seen, lock, stale, robbed, file>>,
         hub' \in {"none", "copied", "recorded"},
         proposal' \in {"none", "staged", "accepted", "rejected"},
         log' \subseteq Procs \X S!Calls, impacts' \subseteq Procs \X S!Calls
  PROVE  SInv'
<1> USE Returns
<1>1. S!SharedTypeOK'
  BY DEF SInv, S!SharedTypeOK, S!Return, S!Go
<1>2. Placed'
  BY DEF SInv, S!SharedTypeOK, Placed, CallPlaced, S!Calls, S!TaskCalls, S!HubCalls
<1>3. Aside(p)
  <2>1. \A c \in S!Calls : Over(p, c) => Over(p, c)'
    BY DEF Over, S!Calls, S!TaskCalls, S!HubCalls
  <2>2. \A f : ~Behind(p, f)'
    BY DEF Behind
  <2> QED BY <2>1, <2>2 DEF Aside
<1> QED BY <1>1, <1>2, <1>3, AsideKeeps

\* A step of p from one where of its call to another, with no file behind a lock.
LEMMA MoveKeeps ==
  ASSUME SInv, NEW p \in Procs, NEW where \in Place, S!Go(p, where),
         at[p] # "unlock", CallPlaced(p)', 
         UNCHANGED <<call, todo, answers, alive, lock, stale, robbed, file>>,
         seen' \in [Procs -> S!Contents],
         \A q \in Procs \ {p} : seen'[q] = seen[q],
         hub' \in {"none", "copied", "recorded"},
         proposal' \in {"none", "staged", "accepted", "rejected"},
         log' \subseteq Procs \X S!Calls, impacts' \subseteq Procs \X S!Calls,
         call[p] \in LockCalls /\ where \in {"read", "write", "unlock"} =>
           /\ at[p] \in {"read", "write"}
           /\ where = "write" => seen'[p] = file[S!Locks(p)]
  PROVE  SInv'
<1> USE Moves
<1>1. S!SharedTypeOK'
  BY DEF SInv, S!SharedTypeOK, S!Go, Place
<1>2. Placed'
  BY DEF SInv, Placed, CallPlaced
<1>3. Aside(p)
  <2>1. \A c \in S!Calls : Over(p, c) => Over(p, c)'
    BY DEF Over
  <2>2. \A f \in S!Locked : /\ Behind(p, f)' => Behind(p, f)
                            /\ Behind(p, f)' /\ at'[p] = "write" => seen'[p] = file[f]
    BY DEF Behind, S!Locks
  <2>3. \A f \in S!Locked : S!Done(f)' = S!Done(f)
    BY DEF S!Done
  <2> QED BY <2>1, <2>2, <2>3 DEF Aside
<1> QED BY <1>1, <1>2, <1>3, AsideKeeps

-----------------------------------------------------------------------------
\* One lemma per action.

LEMMA BeginKeeps == ASSUME SInv, NEW p \in Procs, S!Begin(p) PROVE SInv'
<1> PICK c \in todo[p] : /\ call' = [call EXCEPT ![p] = c] /\ S!Go(p, S!FirstStep(c))
                         /\ todo' = [todo EXCEPT ![p] = @ \ {c}]
  BY DEF S!Begin
<1> USE Moves DEF S!In
<1>1. c \in S!Calls /\ todo' \in [Procs -> SUBSET S!Calls] /\ at[p] = "idle"
  BY DEF SInv, S!SharedTypeOK, S!Begin
<1>2. /\ S!FirstStep(c) \in Place \ {"write", "unlock"}
      /\ S!FirstStep(c) = "read" => c \in {"finalize", "reject"}
  BY <1>1 DEF S!FirstStep, S!Calls, S!TaskCalls, S!HubCalls, Place
<1>3. S!SharedTypeOK'
  BY <1>1, <1>2 DEF SInv, S!SharedTypeOK, S!Begin, S!lockVars, S!hubVars, S!Go, Place
<1>4. call'[p] = c /\ todo'[p] = todo[p] \ {c}
      /\ \A q \in Procs \ {p} : call'[q] = call[q] /\ todo'[q] = todo[q]
  BY DEF SInv, S!SharedTypeOK
<1>5. Placed'
  <2>1. CallPlaced(p)'
    BY <1>1, <1>4 DEF CallPlaced, S!FirstStep, S!Calls, S!TaskCalls, S!HubCalls, LockCalls
  <2>2. \A q \in Procs \ {p} : CallPlaced(q)'
    BY <1>4 DEF SInv, Placed, CallPlaced
  <2> QED BY <2>1, <2>2 DEF Placed
<1>6. Aside(p)
  <2>1. \A d \in S!Calls : Over(p, d) => Over(p, d)'
    BY <1>1, <1>4 DEF Over
  <2>2. \A f : ~Behind(p, f)'
    BY <1>1, <1>2, <1>4 DEF Behind, LockCalls, S!TaskCalls
  <2>3. \A f \in S!Locked : S!Done(f)' = S!Done(f)
    BY DEF S!Done, S!Begin
  <2> QED BY <1>4, <2>1, <2>2, <2>3 DEF Aside, S!Begin, S!lockVars
<1> QED BY <1>3, <1>5, <1>6, AsideKeeps

\* The lock is free: nobody is behind it.
LEMMA MakeLockKeeps == ASSUME SInv, NEW p \in Procs, S!MakeLock(p) PROVE SInv'
<1> DEFINE g == S!Locks(p)
<1>1. /\ p \in alive /\ at[p] = "lock" /\ call[p] \in LockCalls /\ g \in S!Locked
      /\ lock[g] = NoProc
  BY LocksAre DEF S!MakeLock, S!In, SInv, Placed, CallPlaced
<1>2. /\ at'[p] = "read" /\ \A q \in Procs \ {p} : at'[q] = at[q]
      /\ UNCHANGED <<call, seen, todo, answers, alive, file, robbed, log, hub, proposal, impacts>>
  BY Moves DEF S!MakeLock, S!localVars, S!hubVars
<1>3. /\ lock' \in [S!Locked -> Procs \cup {NoProc}] /\ lock'[g] = p
      /\ \A f \in S!Locked \ {g} : lock'[f] = lock[f]
  BY <1>1 DEF SInv, S!SharedTypeOK, S!MakeLock
<1>4. S!SharedTypeOK'
  BY <1>1, <1>2, <1>3 DEF SInv, S!SharedTypeOK, S!MakeLock, S!Go
<1>5. Placed'
  BY <1>1, <1>2 DEF SInv, Placed, CallPlaced
<1>6. Held'
  <2> SUFFICES ASSUME NEW f \in S!Locked \ robbed, NEW q \in Procs, Behind(q, f)'
               PROVE  lock'[f] = q
    BY <1>2 DEF Held
  <2>1. CASE q = p
    BY <2>1, <1>2, <1>3 DEF Behind, S!Locks
  <2>2. CASE q # p
    <3>1. Behind(q, f)
      BY <2>2, <1>2 DEF Behind, S!Locks
    <3>2. lock[f] = q /\ q # NoProc
      BY <3>1, SharedAssumption DEF SInv, Held, S!ToolsAssumption
    <3> QED BY <3>2, <1>1, <1>3
  <2> QED BY <2>1, <2>2
<1>7. Current'
  BY <1>2 DEF SInv, Current, Behind, S!Locks
<1>8. FilesWhole'
  <2> SUFFICES ASSUME NEW f \in S!Locked \ robbed PROVE Written(f)'
    BY <1>2 DEF FilesWhole
  <2>1. Written(f) /\ S!Done(f)' = S!Done(f) /\ file[f].entries \subseteq Procs \X S!Calls
    BY <1>2 DEF SInv, FilesWhole, S!Done, S!SharedTypeOK, S!Contents
  <2>2. \A a \in file[f].entries : Over(a[1], a[2])'
    BY <2>1, <1>1, <1>2 DEF Written, Over
  <2> QED BY <2>1, <2>2, <1>2 DEF Written, S!Whole
<1> QED BY <1>4, <1>5, <1>6, <1>7, <1>8 DEF SInv

LEMMA SeeStaleKeeps == ASSUME SInv, NEW p \in Procs, S!SeeStale(p) PROVE SInv'
<1>1. S!Go(p, "remove") /\ "remove" \in Place /\ at[p] = "lock"
  BY DEF S!SeeStale, Place, S!In
<1>2. UNCHANGED <<call, seen, todo, answers, alive, lock, stale, robbed, file, log, hub, proposal, impacts>>
  BY DEF S!SeeStale, S!localVars, S!lockVars, S!hubVars
<1>3. CallPlaced(p)'
  BY <1>1, <1>2, Moves DEF SInv, Placed, CallPlaced
<1> QED BY <1>1, <1>2, <1>3, MoveKeeps DEF SInv, S!SharedTypeOK

\* A lock that a living server holds marks its file; another has nobody behind it.
LEMMA RemoveStaleKeeps == ASSUME SInv, NEW p \in Procs, S!RemoveStale(p) PROVE SInv'
<1> DEFINE g == S!Locks(p)
<1>1. /\ p \in alive /\ at[p] = "remove" /\ call[p] \in LockCalls /\ g \in S!Locked
  BY LocksAre DEF S!RemoveStale, S!In, SInv, Placed, CallPlaced
<1>2. /\ at'[p] = "lock" /\ \A q \in Procs \ {p} : at'[q] = at[q]
      /\ UNCHANGED <<call, seen, todo, answers, alive, file, log, hub, proposal, impacts>>
  BY Moves DEF S!RemoveStale, S!localVars, S!hubVars
<1>3. /\ lock' \in [S!Locked -> Procs \cup {NoProc}]
      /\ \A f \in S!Locked \ {g} : lock'[f] = lock[f]
  BY <1>1 DEF SInv, S!SharedTypeOK, S!RemoveStale, S!RemoveLock
<1>4. robbed \subseteq robbed' /\ robbed' \subseteq S!Locked /\ (g \notin robbed' => lock[g] \notin alive)
  BY <1>1 DEF SInv, S!SharedTypeOK, S!RemoveStale
<1>5. S!SharedTypeOK'
  BY <1>1, <1>2, <1>3, <1>4 DEF SInv, S!SharedTypeOK, S!RemoveStale, S!RemoveLock, S!Go
<1>6. Placed'
  BY <1>1, <1>2 DEF SInv, Placed, CallPlaced
<1>7. ASSUME NEW f \in S!Locked \ robbed', NEW q \in Procs, Behind(q, f)'
      PROVE  q # p /\ Behind(q, f) /\ f # g
  <2>1. q # p
    BY <1>7, <1>2 DEF Behind
  <2>2. Behind(q, f)
    BY <1>7, <2>1, <1>2 DEF Behind, S!Locks
  <2>3. lock[f] = q /\ q \in alive
    BY <2>2, <1>4 DEF SInv, Held, Behind
  <2> QED BY <2>1, <2>2, <2>3, <1>4
<1>8. Held'
  BY <1>3, <1>4, <1>7 DEF SInv, Held
<1>9. Current'
  BY <1>2, <1>4, <1>7 DEF SInv, Current
<1>10. FilesWhole'
  <2> SUFFICES ASSUME NEW f \in S!Locked \ robbed' PROVE Written(f)'
    BY <1>2 DEF FilesWhole
  <2>1. Written(f) /\ S!Done(f)' = S!Done(f) /\ file[f].entries \subseteq Procs \X S!Calls
    BY <1>2, <1>4 DEF SInv, FilesWhole, S!Done, S!SharedTypeOK, S!Contents
  <2>2. \A a \in file[f].entries : Over(a[1], a[2])'
    BY <2>1, <1>1, <1>2 DEF Written, Over
  <2> QED BY <2>1, <2>2, <1>2 DEF Written, S!Whole
<1> QED BY <1>5, <1>6, <1>8, <1>9, <1>10 DEF SInv

LEMMA BusyKeeps == ASSUME SInv, NEW p \in Procs, S!Busy(p) PROVE SInv'
BY ReturnKeeps DEF S!Busy, S!lockVars, S!hubVars, SInv, S!SharedTypeOK

LEMMA ReadLockedKeeps == ASSUME SInv, NEW p \in Procs, S!ReadLocked(p) PROVE SInv'
<1> PICK where \in {"unlock", "write"} : S!Go(p, where)
  BY DEF S!ReadLocked
<1>1. /\ at[p] = "read" /\ call[p] \in LockCalls
      /\ UNCHANGED <<call, todo, answers, alive, lock, stale, robbed, file, log, hub, proposal, impacts>>
  BY DEF S!ReadLocked, S!In, SInv, Placed, CallPlaced, S!localVars, S!lockVars, S!hubVars, S!HubCalls
<1>2. /\ seen' \in [Procs -> S!Contents] /\ seen'[p] = file[S!Locks(p)]
      /\ \A q \in Procs \ {p} : seen'[q] = seen[q]
  BY <1>1, LocksAre DEF SInv, S!SharedTypeOK, S!ReadLocked
<1>3. CallPlaced(p)'
  BY <1>1, Moves DEF SInv, Placed, CallPlaced
<1> QED BY <1>1, <1>2, <1>3, MoveKeeps DEF SInv, S!SharedTypeOK, Place

LEMMA MutatedIs ==
  ASSUME SInv, NEW p \in Procs, call[p] \in LockCalls, NEW f \in S!Contents
  PROVE  /\ S!Mutated(p, f) \in S!Contents
         /\ S!Mutated(p, f).revision = f.revision + 1
         /\ S!Mutated(p, f).entries = f.entries \cup {<<p, call[p]>>}
<1>1. call[p] \in S!Calls
  BY DEF LockCalls, S!Calls
<1>2. f.revision + 1 \in Nat /\ f.status \in {"pending", "claimed", "planned", "completed"}
      /\ f.claimant \in Procs \cup {NoProc} /\ f.entries \cup {<<p, call[p]>>} \subseteq Procs \X S!Calls
  BY <1>1 DEF S!Contents
<1>3. (CASE call[p] = "claim" -> "claimed" [] call[p] = "submit_plan" -> "planned"
         [] call[p] = "complete" -> "completed" [] OTHER -> f.status)
         \in {"pending", "claimed", "planned", "completed"}
  BY <1>2
<1> QED BY <1>2, <1>3 DEF S!Mutated, S!Contents

\* It replaces what the file holds, and its entry is new.
LEMMA WriteLockedKeeps == ASSUME SInv, NEW p \in Procs, S!WriteLocked(p) PROVE SInv'
<1> DEFINE g == S!Locks(p)
<1> DEFINE entry == <<p, call[p]>>
<1>1. /\ p \in alive /\ at[p] = "write" /\ call[p] \in LockCalls /\ g \in S!Locked
      /\ call[p] \in S!Calls /\ call[p] \notin todo[p]
  BY LocksAre DEF S!WriteLocked, S!In, SInv, Placed, CallPlaced, LockCalls, S!Calls
<1>2. /\ at'[p] = "unlock" /\ \A q \in Procs \ {p} : at'[q] = at[q]
      /\ UNCHANGED <<call, seen, todo, alive, lock, stale, robbed, log, hub, proposal, impacts>>
      /\ answers' = answers \cup {entry}
  BY Moves DEF S!WriteLocked, S!lockVars, S!hubVars
<1>3. seen[p] \in S!Contents
  BY DEF SInv, S!SharedTypeOK
<1>4. /\ file' \in [S!Locked -> S!Contents] /\ file'[g] = S!Mutated(p, seen[p])
      /\ \A f \in S!Locked \ {g} : file'[f] = file[f]
  BY <1>1, <1>3, MutatedIs DEF SInv, S!SharedTypeOK, S!WriteLocked
<1>5. S!SharedTypeOK'
  BY <1>1, <1>2, <1>4 DEF SInv, S!SharedTypeOK, S!WriteLocked, S!Go
<1>6. Placed'
  BY <1>1, <1>2 DEF SInv, Placed, CallPlaced
<1>7. \A q \in Procs, f \in S!Locked : Behind(q, f)' => Behind(q, f)
  BY <1>1, <1>2 DEF Behind, S!Locks
<1>8. Held'
  BY <1>2, <1>7 DEF SInv, Held
<1>9. Current'
  <2> SUFFICES ASSUME NEW f \in S!Locked \ robbed, NEW q \in Procs, Behind(q, f)', at'[q] = "write"
               PROVE  seen'[q] = file'[f]
    BY <1>2 DEF Current
  <2>1. q # p /\ at[q] = "write" /\ Behind(q, f) /\ lock[f] = q
    BY <1>2, <1>7 DEF SInv, Held
  <2>2. f # g
    BY <2>1, <1>1 DEF SInv, Held, Behind
  <2> QED BY <2>1, <2>2, <1>2, <1>4 DEF SInv, Current
<1>10. FilesWhole'
  <2> SUFFICES ASSUME NEW f \in S!Locked \ robbed PROVE Written(f)'
    BY <1>2 DEF FilesWhole
  <2>1. Written(f) /\ file[f].entries \subseteq Procs \X S!Calls /\ file[f] \in S!Contents
    BY DEF SInv, FilesWhole, S!SharedTypeOK, S!Contents
  <2>2. \A a \in file[f].entries : Over(a[1], a[2])'
    BY <2>1, <1>1, <1>2 DEF Written, Over
  <2>3. Over(p, call[p])'
    BY <1>1, <1>2 DEF Over
  <2>4. CASE f # g
    <3>1. S!Done(f)' = S!Done(f)
      BY <2>4, <1>2 DEF S!Done, S!Locks
    <3> QED BY <3>1, <2>1, <2>2, <2>4, <1>4 DEF Written, S!Whole
  <2>5. CASE f = g
    <3>1. seen[p] = file[f]
      BY <2>5, <1>1 DEF SInv, Current, Behind
    <3>2. entry \notin file[f].entries
      BY <2>1, <1>1 DEF Written, Over
    <3>3. /\ file'[f].entries = file[f].entries \cup {entry}
          /\ file'[f].revision = file[f].revision + 1
      BY <2>5, <3>1, <1>1, <1>4, <2>1, MutatedIs
    <3>4. S!Done(f)' \subseteq S!Done(f) \cup {entry}
      BY <1>2 DEF S!Done
    <3>5. /\ IsFiniteSet(file[f].entries \cup {entry})
          /\ Cardinality(file[f].entries \cup {entry}) = Cardinality(file[f].entries) + 1
      BY <2>1, <3>2, FS_AddElement DEF Written
    <3>6. S!Whole(f)' /\ IsFiniteSet(file'[f].entries)
      BY <2>1, <3>3, <3>4, <3>5, Counts DEF Written, S!Whole
    <3>7. ASSUME NEW a \in file'[f].entries PROVE Over(a[1], a[2])'
      <4>1. CASE a \in file[f].entries
        BY <4>1, <2>2
      <4>2. CASE a = entry
        BY <4>2, <2>3, <1>2
      <4> QED BY <4>1, <4>2, <3>3
    <3> QED BY <3>6, <3>7 DEF Written
  <2> QED BY <2>4, <2>5
<1> QED BY <1>5, <1>6, <1>8, <1>9, <1>10 DEF SInv

\* The lock it removes is its own, or its file is marked.
LEMMA UnlockKeeps == ASSUME SInv, NEW p \in Procs, S!Unlock(p) PROVE SInv'
<1> DEFINE g == S!Locks(p)
<1>1. p \in alive /\ at[p] = "unlock" /\ call[p] \in LockCalls /\ g \in S!Locked
  BY LocksAre DEF S!Unlock, S!In, SInv, Placed, CallPlaced
<1>2. /\ call'[p] = "none" /\ at'[p] = "idle"
      /\ \A q \in Procs \ {p} : call'[q] = call[q] /\ at'[q] = at[q]
      /\ UNCHANGED <<seen, todo, answers, alive, file, robbed, log, hub, proposal, impacts>>
      /\ call' \in [Procs -> S!Calls \cup {"none"}]
  BY Returns DEF S!Unlock, S!hubVars, S!Return
<1>3. /\ lock' \in [S!Locked -> Procs \cup {NoProc}]
      /\ \A f \in S!Locked \ {g} : lock'[f] = lock[f]
  BY <1>1 DEF SInv, S!SharedTypeOK, S!Unlock, S!RemoveLock
<1>4. S!SharedTypeOK'
  BY <1>1, <1>2, <1>3 DEF SInv, S!SharedTypeOK, S!Unlock, S!RemoveLock, S!Return, S!Go
<1>5. Placed'
  BY <1>2 DEF SInv, S!SharedTypeOK, Placed, CallPlaced, S!Calls, S!TaskCalls, S!HubCalls
<1>6. ASSUME NEW f \in S!Locked \ robbed, NEW q \in Procs, Behind(q, f)'
      PROVE  q # p /\ Behind(q, f) /\ f # g
  <2>1. q # p
    BY <1>6, <1>2 DEF Behind
  <2>2. Behind(q, f)
    BY <1>6, <2>1, <1>2 DEF Behind, S!Locks
  <2>3. lock[f] = q
    BY <2>2 DEF SInv, Held
  <2>4. f = g => lock[f] = p
    BY <1>1 DEF SInv, Held, Behind
  <2> QED BY <2>1, <2>2, <2>3, <2>4
<1>7. Held'
  BY <1>2, <1>3, <1>6 DEF SInv, Held
<1>8. Current'
  BY <1>2, <1>6 DEF SInv, Current
<1>9. FilesWhole'
  <2> SUFFICES ASSUME NEW f \in S!Locked \ robbed PROVE Written(f)'
    BY <1>2 DEF FilesWhole
  <2>1. Written(f) /\ S!Done(f)' = S!Done(f) /\ file[f].entries \subseteq Procs \X S!Calls
    BY <1>2 DEF SInv, FilesWhole, S!Done, S!SharedTypeOK, S!Contents
  <2>2. \A a \in file[f].entries : Over(a[1], a[2])'
    BY <2>1, <1>2 DEF Written, Over, S!Calls, S!TaskCalls, S!HubCalls
  <2> QED BY <2>1, <2>2, <1>2 DEF Written, S!Whole
<1> QED BY <1>4, <1>5, <1>7, <1>8, <1>9 DEF SInv

LEMMA HubStepKeeps == ASSUME SInv, NEW p \in Procs, S!HubStep(p) PROVE SInv'
<1> USE DEF S!lockVars, S!localVars, S!hubVars, S!In
<1>1. CASE S!ReadLog(p)
  <2>1. seen' \in [Procs -> S!Contents] /\ \A q \in Procs \ {p} : seen'[q] = seen[q]
    <3>1. [S!NoFile EXCEPT !.entries = log] \in S!Contents
      BY DEF SInv, S!SharedTypeOK, S!NoFile, S!Contents
    <3> QED BY <1>1, <3>1 DEF SInv, S!SharedTypeOK, S!ReadLog
  <2>2. CallPlaced(p)'
    BY <1>1, Moves DEF SInv, Placed, CallPlaced, S!ReadLog
  <2> QED BY <1>1, <2>1, <2>2, MoveKeeps DEF S!ReadLog, SInv, S!SharedTypeOK, Place
<1>2. CASE S!WriteLog(p)
  <2>1. call[p] \in S!HubCalls /\ call[p] \in S!Calls /\ at[p] = "logged"
    BY <1>2 DEF S!WriteLog, SInv, Placed, CallPlaced, S!Calls
  <2>2. log' \subseteq Procs \X S!Calls
    BY <1>2, <2>1 DEF S!WriteLog, SInv, S!SharedTypeOK, S!Contents
  <2>3. CASE call[p] \in {"log", "stage"}
    BY <1>2, <2>1, <2>2, <2>3, ReturnKeeps DEF S!WriteLog, SInv, S!SharedTypeOK
  <2>4. CASE call[p] \notin {"log", "stage"}
    <3>1. S!Go(p, "publish") /\ UNCHANGED <<call, todo, answers, alive>>
      BY <1>2, <2>4 DEF S!WriteLog
    <3>2. CallPlaced(p)'
      BY <3>1, <2>1, Moves DEF SInv, Placed, CallPlaced
    <3> QED BY <1>2, <2>1, <2>2, <3>1, <3>2, MoveKeeps DEF S!WriteLog, SInv, S!SharedTypeOK, Place
  <2> QED BY <2>3, <2>4
<1>3. CASE S!CheckVersion(p)
  <2>1. at[p] \in {"check", "publish"} /\ call[p] \in S!HubCalls
    BY <1>3 DEF S!CheckVersion, SInv, Placed, CallPlaced
  <2>2. CASE hub # "none"
    BY <1>3, <2>2, ReturnKeeps DEF S!CheckVersion, SInv, S!SharedTypeOK
  <2>3. CASE hub = "none"
    <3>1. S!Go(p, "copy") /\ UNCHANGED <<call, todo, answers, alive>>
      BY <1>3, <2>3 DEF S!CheckVersion
    <3>2. CallPlaced(p)'
      BY <3>1, <2>1, Moves DEF SInv, Placed, CallPlaced
    <3> QED BY <1>3, <2>1, <3>1, <3>2, MoveKeeps DEF S!CheckVersion, SInv, S!SharedTypeOK, Place
  <2> QED BY <2>2, <2>3
<1>4. CASE S!Copy(p)
  <2>1. CallPlaced(p)'
    BY <1>4, Moves DEF SInv, Placed, CallPlaced, S!Copy, S!HubCalls
  <2> QED BY <1>4, <2>1, MoveKeeps DEF S!Copy, SInv, S!SharedTypeOK, Place
<1>5. CASE S!Record(p)
  <2>1. CASE call[p] = "publish"
    BY <1>5, <2>1, ReturnKeeps DEF S!Record, SInv, S!SharedTypeOK, S!HubCalls
  <2>2. CASE call[p] = "finalize"
    <3>1. CallPlaced(p)'
      BY <1>5, <2>2, Moves DEF SInv, Placed, CallPlaced, S!Record, S!HubCalls
    <3> QED BY <1>5, <2>2, <3>1, MoveKeeps DEF S!Record, SInv, S!SharedTypeOK, Place
  <2> QED BY <1>5, <2>1, <2>2 DEF S!Record
<1>6. CASE S!Stage(p)
  <2>1. CallPlaced(p)'
    BY <1>6, Moves DEF SInv, Placed, CallPlaced, S!Stage, S!HubCalls
  <2> QED BY <1>6, <2>1, MoveKeeps DEF S!Stage, SInv, S!SharedTypeOK, Place
<1>7. CASE S!ReadProposal(p)
  <2>1. call[p] \in S!HubCalls /\ call[p] \in S!Calls
    BY <1>7 DEF S!ReadProposal, S!HubCalls, S!Calls
  <2>2. CASE proposal = "staged"
    <3>1. impacts' \subseteq Procs \X S!Calls
      BY <1>7, <2>1, <2>2 DEF S!ReadProposal, SInv, S!SharedTypeOK
    <3>2. CallPlaced(p)'
      BY <1>7, <2>1, <2>2, Moves DEF SInv, Placed, CallPlaced, S!ReadProposal
    <3> QED BY <1>7, <2>2, <3>1, <3>2, MoveKeeps DEF S!ReadProposal, SInv, S!SharedTypeOK, Place
  <2>3. CASE proposal # "staged"
    BY <1>7, <2>3, ReturnKeeps DEF S!ReadProposal, SInv, S!SharedTypeOK
  <2> QED BY <2>2, <2>3
<1>8. CASE S!Finish(p)
  <2>1. call[p] \in S!HubCalls
    BY <1>8 DEF S!Finish, SInv, Placed, CallPlaced
  <2> QED BY <1>8, <2>1, ReturnKeeps DEF S!Finish, SInv, S!SharedTypeOK
<1>9. CASE S!CopyArtifact(p)
  <2>1. CallPlaced(p)'
    BY <1>9, Moves DEF SInv, Placed, CallPlaced, S!CopyArtifact
  <2> QED BY <1>9, <2>1, MoveKeeps DEF S!CopyArtifact, SInv, S!SharedTypeOK, Place
<1>10. CASE S!RecordArtifact(p)
  BY <1>10, ReturnKeeps DEF S!RecordArtifact, SInv, S!SharedTypeOK
<1> QED BY <1>1, <1>2, <1>3, <1>4, <1>5, <1>6, <1>7, <1>8, <1>9, <1>10 DEF S!HubStep

LEMMA CrashKeeps == ASSUME SInv, NEW p \in Procs, S!Crash(p) PROVE SInv'
<1>1. /\ UNCHANGED <<call, at, seen, todo, answers, lock, stale, robbed, file, log, hub, proposal, impacts>>
      /\ alive' \subseteq alive
  BY DEF S!Crash, S!lockVars, S!hubVars
<1>2. S!SharedTypeOK' /\ Placed'
  BY <1>1 DEF SInv, S!SharedTypeOK, Placed, CallPlaced
<1>3. Aside(p)
  <2>1. \A f \in S!Locked : (Behind(p, f)' => Behind(p, f)) /\ S!Done(f)' = S!Done(f)
    BY <1>1 DEF Behind, S!Locks, S!Done
  <2>2. \A c \in S!Calls : Over(p, c) => Over(p, c)'
    BY <1>1 DEF Over
  <2>3. \A f \in S!Locked : Behind(p, f)' /\ at'[p] = "write" => at[p] = "write" /\ seen'[p] = seen[p]
    BY <1>1
  <2> QED BY <1>1, <2>1, <2>2, <2>3 DEF Aside
<1> QED BY <1>2, <1>3, AsideKeeps

LEMMA StillKeeps ==
  ASSUME SInv, stale' \in [S!Locked -> BOOLEAN],
         UNCHANGED <<call, at, seen, todo, answers, lock, robbed, file, log, hub, proposal, impacts, alive>>
  PROVE  SInv'
<1>1. S!SharedTypeOK' /\ Placed'
  BY DEF SInv, S!SharedTypeOK, Placed, CallPlaced
<1>2. Held' /\ Current'
  BY DEF SInv, Held, Current, Behind, S!Locks
<1>3. FilesWhole'
  <2>1. \A f \in S!Locked : S!Done(f)' = S!Done(f)
    BY DEF S!Done
  <2>2. \A p, c : Over(p, c)' <=> Over(p, c)
    BY DEF Over
  <2> QED BY <2>1, <2>2 DEF SInv, FilesWhole, Written, S!Whole
<1> QED BY <1>1, <1>2, <1>3 DEF SInv

LEMMA NextSInv == SInv /\ [S!Next]_(S!vars) => SInv'
<1> SUFFICES ASSUME SInv, [S!Next]_(S!vars) PROVE SInv'  OBVIOUS
<1>1. ASSUME NEW p \in Procs, S!Begin(p) PROVE SInv'
  BY <1>1, BeginKeeps
<1>2. ASSUME NEW p \in Procs, S!LockStep(p) PROVE SInv'
  BY <1>2, MakeLockKeeps, SeeStaleKeeps, RemoveStaleKeeps, BusyKeeps, ReadLockedKeeps,
     WriteLockedKeeps, UnlockKeeps DEF S!LockStep
<1>3. ASSUME NEW p \in Procs, S!HubStep(p) PROVE SInv'
  BY <1>3, HubStepKeeps
<1>4. ASSUME NEW p \in Procs, S!Crash(p) PROVE SInv'
  BY <1>4, CrashKeeps
<1>5. ASSUME NEW f \in S!Locked, S!GrowOld(f) PROVE SInv'
  BY <1>5, StillKeeps DEF S!GrowOld, S!localVars, S!hubVars, SInv, S!SharedTypeOK
<1>6. CASE UNCHANGED S!vars
  BY <1>6, StillKeeps DEF S!vars, SInv, S!SharedTypeOK
<1> QED BY <1>1, <1>2, <1>3, <1>4, <1>5, <1>6 DEF S!Next

LEMMA SInvPromises == SInv => S!UpdatesAreKept
BY DEF SInv, FilesWhole, Written, S!UpdatesAreKept

(***************************************************************************)
(* WorkerTurn, and TrajectoryMonitor within it.                            *)
(***************************************************************************)

Fields == {"snaps", "risk", "rising", "same", "last", "streak", "steps", "others", "failures",
           "changed", "consumer", "state", "stop", "armed", "leased", "seen"}
Snapshots == [failed : Nat, paths : SUBSET STRING, prints : SUBSET STRING, consumer : BOOLEAN]

\* The i-th snapshot differs from the one before it; the first shows a change.
Shown(snaps, i) == IF i = 1 THEN snaps[1].paths # {} ELSE snaps[i] # snaps[i - 1]

\* What was leased is in the past, and progress is shown by the last snapshot.
Watching(m) ==
  /\ DOMAIN m = Fields
  /\ m.snaps \in Seq(Snapshots) /\ m.failures \in Nat /\ m.same \in Nat
  /\ m.changed \subseteq STRING /\ m.consumer \in BOOLEAN
  /\ IsFiniteSet(m.leased) /\ m.leased \subseteq 1 .. Len(m.snaps)
  /\ \A i \in m.leased : Shown(m.snaps, i)
  /\ m.snaps # <<>> /\ (m.state = "progressing" \/ m.same = 0) => Shown(m.snaps, Len(m.snaps))

LEMMA NewWatches == Watching(W!New)
BY FS_EmptySet DEF Watching, W!New, Fields

\* A monitor that differs in what the lease does not rest on.
LEMMA StillWatching ==
  ASSUME NEW m, Watching(m), NEW k, DOMAIN k = Fields,
         k.snaps = m.snaps, k.leased = m.leased, k.same = m.same, k.consumer = m.consumer,
         k.failures \in Nat, k.changed \subseteq STRING,
         k.state = m.state \/ k.state # "progressing"
  PROVE  Watching(k)
BY DEF Watching

LEMMA FinishWatches ==
  ASSUME NEW m, Watching(m), NEW reason
  PROVE  Watching(W!Finish(m, reason))
<1> DEFINE k == [m EXCEPT !.stop = reason, !.state = "terminal", !.armed = FALSE]
<1>1. /\ DOMAIN k = Fields /\ k.snaps = m.snaps /\ k.leased = m.leased /\ k.same = m.same
      /\ k.consumer = m.consumer /\ k.failures = m.failures /\ k.changed = m.changed
      /\ k.state = "terminal"
  BY DEF Watching, Fields
<1>2. Watching(k)
  BY <1>1, StillWatching DEF Watching
<1> QED BY <1>2 DEF W!Finish

\* A monitor whose last snapshot is new.
LEMMA Appends ==
  ASSUME NEW m, Watching(m), NEW s \in Snapshots, NEW k, DOMAIN k = Fields,
         k.snaps = Append(m.snaps, s), k.leased = m.leased, k.failures = m.failures,
         k.changed = m.changed, k.consumer = m.consumer, k.same \in Nat,
         k.state = "progressing" \/ k.same = 0 =>
           IF m.snaps = <<>> THEN s.paths # {} ELSE s # W!Last(m.snaps)
  PROVE  Watching(k)
<1>1. /\ k.snaps \in Seq(Snapshots) /\ Len(k.snaps) = Len(m.snaps) + 1 /\ Len(m.snaps) \in Nat
      /\ \A i \in 1 .. Len(m.snaps) : k.snaps[i] = m.snaps[i]
      /\ k.snaps[Len(m.snaps) + 1] = s
  BY DEF Watching
<1>2. ASSUME NEW i \in k.leased PROVE i \in 1 .. Len(k.snaps) /\ Shown(k.snaps, i)
  <2>1. i \in 1 .. Len(m.snaps) /\ Shown(m.snaps, i)
    BY <1>2 DEF Watching
  <2> QED BY <2>1, <1>1 DEF Shown
<1>3. k.state = "progressing" \/ k.same = 0 => Shown(k.snaps, Len(k.snaps))
  <2>1. CASE m.snaps = <<>>
    BY <2>1, <1>1 DEF Shown
  <2>2. CASE m.snaps # <<>>
    <3>1. Len(m.snaps) > 0 /\ W!Last(m.snaps) = m.snaps[Len(m.snaps)]
      BY <2>2 DEF Watching, W!Last
    <3> QED BY <2>2, <3>1, <1>1 DEF Shown
  <2> QED BY <2>1, <2>2
<1> QED BY <1>1, <1>2, <1>3 DEF Watching

LEMMA CheckpointWatches ==
  ASSUME NEW m, Watching(m), NEW paths \in SUBSET STRING, NEW prints \in SUBSET STRING
  PROVE  Watching(W!Checkpoint(m, paths, prints))
<1> DEFINE s == [failed |-> m.failures, paths |-> paths, prints |-> prints, consumer |-> m.consumer]
           risk == W!Risk(paths)
           next == [m EXCEPT !.snaps = Append(@, s), !.risk = risk]
           Progress(r) == [next EXCEPT !.same = 0, !.rising = r, !.state = "progressing"]
           first == [next EXCEPT !.rising = IF risk > 0 THEN 1 ELSE @,
                                 !.same = IF paths # {} THEN 0 ELSE 1,
                                 !.state = IF paths # {} THEN "progressing" ELSE "unchanged"]
           same == [next EXCEPT !.same = @ + 1, !.state = "unchanged"]
           fewer == [Progress(0) EXCEPT !.streak = 0]
           drift == [next EXCEPT !.same = 0, !.rising = @ + 1, !.state = "unchanged"]
           better == Progress(IF risk < m.risk THEN 0 ELSE m.rising)
           k == W!Checkpoint(m, paths, prints)
<1>1. s \in Snapshots /\ s.paths = paths /\ s.failed = m.failures /\ m.same \in Nat
  BY DEF Watching, Snapshots
<1> HIDE DEF risk
<1>2. /\ DOMAIN next = Fields /\ next.snaps = Append(m.snaps, s) /\ next.leased = m.leased
      /\ next.failures = m.failures /\ next.changed = m.changed /\ next.consumer = m.consumer
      /\ next.same = m.same
  BY DEF Watching, Fields
<1> DEFINE Grown(n) ==
             /\ DOMAIN n = Fields /\ n.snaps = Append(m.snaps, s) /\ n.leased = m.leased
             /\ n.failures = m.failures /\ n.changed = m.changed /\ n.consumer = m.consumer
<1>3. k = IF m.snaps = <<>> THEN first
          ELSE IF s = W!Last(m.snaps) THEN same
          ELSE IF s.failed < W!Last(m.snaps).failed THEN fewer
          ELSE IF risk > m.risk THEN drift ELSE better
  BY DEF W!Checkpoint, risk
<1>4. Grown(first) /\ first.same = (IF paths # {} THEN 0 ELSE 1)
      /\ first.state = (IF paths # {} THEN "progressing" ELSE "unchanged")
  <2> HIDE DEF next, s
  <2> QED BY <1>2 DEF Fields
<1>5. Grown(same) /\ same.same = m.same + 1 /\ same.state = "unchanged"
  <2> HIDE DEF next, s
  <2> QED BY <1>2 DEF Fields
<1>6. \A r : Grown(Progress(r)) /\ Progress(r).same = 0
  <2> HIDE DEF next, s
  <2> QED BY <1>2 DEF Fields
<1>7. Grown(fewer) /\ fewer.same = 0
  <2>1. Grown(Progress(0)) /\ Progress(0).same = 0
    BY <1>6
  <2> HIDE DEF Progress, s
  <2> QED BY <2>1 DEF Fields
<1>8. Grown(drift) /\ drift.same = 0
  <2> HIDE DEF next, s
  <2> QED BY <1>2 DEF Fields
<1>9. Grown(better) /\ better.same = 0
  BY <1>6
<1> HIDE DEF s, next, first, same, fewer, drift, better, Progress
<1>10. CASE m.snaps = <<>>
  <2>1. k = first
    BY <1>3, <1>10
  <2>2. k.same \in Nat /\ (k.state = "progressing" \/ k.same = 0 => s.paths # {})
    BY <2>1, <1>1, <1>4
  <2>3. Grown(k)
    BY <2>1, <1>4
  <2> QED BY <2>2, <2>3, <1>1, <1>10, Appends
<1>11. CASE m.snaps # <<>> /\ s = W!Last(m.snaps)
  <2>1. k = same
    BY <1>3, <1>11
  <2> QED BY <2>1, <1>1, <1>5, <1>11, Appends
<1>12. CASE m.snaps # <<>> /\ s # W!Last(m.snaps)
  <2>1. k \in {fewer, drift, better}
    BY <1>3, <1>12
  <2>2. Grown(k) /\ k.same = 0
    BY <2>1, <1>7, <1>8, <1>9
  <2> QED BY <2>2, <1>1, <1>12, Appends
<1> QED BY <1>10, <1>11, <1>12

LEMMA MonitorKeepsLeases ==
  ASSUME NEW m, Watching(m)
  PROVE  /\ \A reason : W!Finish(m, reason).leased = m.leased
         /\ \A paths, prints : W!Checkpoint(m, paths, prints).leased = m.leased
  BY DEF Watching, Fields, W!Finish, W!Checkpoint

LEMMA PrintsAre ==
  ASSUME NEW m, Watching(m)
  PROVE  /\ W!LastPrints(m) \in SUBSET STRING
         /\ \A e \in W!Events : W!Prints(m, e) \in SUBSET STRING /\ W!Failures(m, e) \in Nat
<1>1. W!LastPrints(m) \in SUBSET STRING
  <2>1. CASE m.snaps = <<>>
    BY <2>1 DEF W!LastPrints
  <2>2. CASE m.snaps # <<>>
    <3>1. W!Last(m.snaps) \in Snapshots
      BY <2>2 DEF Watching, W!Last
    <3> QED BY <3>1, <2>2 DEF W!LastPrints, Snapshots
  <2> QED BY <2>1, <2>2
<1>2. ASSUME NEW e \in W!Events PROVE W!Prints(m, e) \in SUBSET STRING
  BY <1>1 DEF W!Prints, W!Events
<1>3. ASSUME NEW e \in W!Events PROVE W!Failures(m, e) \in Nat
  <2>1. CASE e.failed # {}
    <3>1. (CHOOSE n \in e.failed : TRUE) \in Nat
      BY <2>1 DEF W!Events
    <3> QED BY <2>1, <3>1 DEF W!Failures
  <2>2. CASE e.failed = {}
    BY <2>2 DEF W!Failures, Watching
  <2> QED BY <2>1, <2>2
<1> QED BY <1>1, <1>2, <1>3

\* One failure less: the last snapshot differs.
LEMMA ImprovedShows ==
  ASSUME NEW m, Watching(m), W!Improved(m)
  PROVE  m.snaps # <<>> /\ Shown(m.snaps, Len(m.snaps))
<1> DEFINE n == Len(m.snaps)
<1>1. /\ n >= 2 /\ n \in Nat /\ m.snaps[n] \in Snapshots /\ m.snaps[n - 1] \in Snapshots
      /\ m.snaps[n].failed < m.snaps[n - 1].failed
  BY DEF W!Improved, Watching, W!Last
<1>2. m.snaps[n] # m.snaps[n - 1]
  BY <1>1 DEF Snapshots
<1> QED BY <1>1, <1>2 DEF Shown

LEMMA WeighedWatches ==
  ASSUME NEW m, Watching(m), NEW e \in W!Events
  PROVE  Watching(W!Weighed(m, e)) /\ W!Weighed(m, e).leased = m.leased
<1> DEFINE n == W!Noted(m, e.sigs)
           k == [m EXCEPT !.last = n.last, !.streak = n.streak, !.changed = @ \cup e.paths,
                          !.failures = W!Failures(m, e)]
           w == [k EXCEPT !.others = IF W!IsOther(k, e) THEN (@ + 1) % Every ELSE @]
<1> HIDE DEF n
<1>1. e.paths \in SUBSET STRING
  BY DEF W!Events
<1>2. /\ DOMAIN k = Fields /\ k.snaps = m.snaps /\ k.leased = m.leased /\ k.same = m.same
      /\ k.consumer = m.consumer /\ k.failures = W!Failures(m, e) /\ k.changed = m.changed \cup e.paths
      /\ k.state = m.state
  BY DEF Watching, Fields
<1>3. /\ DOMAIN w = Fields /\ w.snaps = k.snaps /\ w.leased = k.leased /\ w.same = k.same
      /\ w.consumer = k.consumer /\ w.failures = k.failures /\ w.changed = k.changed
      /\ w.state = k.state
  <2> HIDE DEF k
  <2> QED BY <1>2 DEF Fields
<1>4. Watching(w)
  <2> HIDE DEF k, w
  <2>1. w.failures \in Nat /\ w.changed \subseteq STRING
    BY <1>1, <1>2, <1>3, PrintsAre DEF Watching
  <2> QED BY <2>1, <1>2, <1>3, StillWatching
<1>5. Watching(W!Checkpoint(w, e.paths, W!Prints(w, e)))
  <2> HIDE DEF k, w
  <2> QED BY <1>1, <1>4, PrintsAre, CheckpointWatches
<1>6. W!Weighed(m, e) = IF W!Due(w, e) THEN W!Checkpoint(w, e.paths, W!Prints(w, e)) ELSE w
  BY DEF W!Weighed, n
<1>7. w.leased = m.leased
  BY <1>2, <1>3
<1> HIDE DEF k, w
<1> QED BY <1>4, <1>5, <1>6, <1>7, MonitorKeepsLeases

\* A verdict of progress rests on the last snapshot.
LEMMA JudgedWatches ==
  ASSUME NEW m, Watching(m), NEW e \in W!Events
  PROVE  Watching(W!Judged(m, e)) /\ W!Judged(m, e).leased = m.leased
<1> DEFINE k == W!Weighed(m, e)
           due == Len(k.snaps) > Len(m.snaps)
           hit == W!Noted(m, e.sigs).hit
           As(state) == [k EXCEPT !.state = state]
<1>1. Watching(k) /\ k.leased = m.leased
  BY WeighedWatches
<1> HIDE DEF k
<1>2. ASSUME NEW state, state # "progressing" \/ (k.snaps # <<>> => Shown(k.snaps, Len(k.snaps)))
      PROVE  Watching(As(state))
  <2>1. /\ DOMAIN As(state) = Fields /\ As(state).snaps = k.snaps /\ As(state).leased = k.leased
        /\ As(state).same = k.same /\ As(state).consumer = k.consumer
        /\ As(state).failures = k.failures /\ As(state).changed = k.changed
        /\ As(state).state = state
    BY <1>1 DEF Watching, Fields
  <2> HIDE DEF As
  <2> QED BY <1>1, <1>2, <2>1 DEF Watching
<1>3. Watching(As("unchanged"))
  BY <1>2
<1>4. (W!Improved(k) \/ k.state = "progressing" \/ k.same = 0) => Watching(As("progressing"))
  <2>1. W!Improved(k) => (k.snaps # <<>> => Shown(k.snaps, Len(k.snaps)))
    BY <1>1, ImprovedShows
  <2>2. k.state = "progressing" \/ k.same = 0 => (k.snaps # <<>> => Shown(k.snaps, Len(k.snaps)))
    BY <1>1 DEF Watching
  <2> HIDE DEF As
  <2> QED BY <2>1, <2>2, <1>2
<1>5. \A reason : Watching(W!Finish(k, reason))
  BY <1>1, FinishWatches
<1>6. W!Judged(m, e) =
        IF k.rising >= Limit THEN W!Finish(k, "scope_drift")
        ELSE IF due /\ k.same >= Limit THEN W!Finish(k, "no_evidence_progress")
        ELSE IF hit THEN IF W!Improved(k) THEN As("progressing") ELSE W!Finish(k, "repeated_signature")
        ELSE IF due /\ k.same + 1 = Limit THEN As("unchanged")
        ELSE IF k.streak + 1 = Limit \/ k.snaps = <<>> THEN k
        ELSE IF W!Improved(k) \/ k.state = "progressing" \/ k.same = 0 THEN As("progressing")
        ELSE As("unchanged")
  BY DEF W!Judged, k
<1>7. \A state : As(state).leased = k.leased
  BY <1>1 DEF Watching, Fields
<1> HIDE DEF As, due, hit
<1> QED BY <1>1, <1>3, <1>4, <1>5, <1>6, <1>7, MonitorKeepsLeases

LEMMA ObserveWatches ==
  ASSUME NEW m, Watching(m), NEW e \in W!Events
  PROVE  Watching(W!Observe(m, e)) /\ W!Observe(m, e).leased = m.leased
<1> DEFINE k == [m EXCEPT !.steps = @ + (IF e.counts THEN Len(e.sigs) ELSE 0)]
<1>1. /\ DOMAIN k = Fields /\ k.snaps = m.snaps /\ k.leased = m.leased /\ k.same = m.same
      /\ k.consumer = m.consumer /\ k.failures = m.failures /\ k.changed = m.changed
      /\ k.state = m.state
  BY DEF Watching, Fields
<1>2. W!Observe(m, e) =
        IF m.stop # "none" THEN m
        ELSE IF e.counts /\ k.steps > MaxSteps THEN W!Finish(k, "runtime_step_limit")
        ELSE IF e.paths \cap Protected # {}
        THEN W!Finish(W!Checkpoint(k, e.paths, W!Prints(k, e)), "protected_violation")
        ELSE W!Judged(k, e)
  BY DEF W!Observe
<1> HIDE DEF k
<1>3. Watching(k)
  BY <1>1, StillWatching DEF Watching
<1>4. Watching(W!Checkpoint(k, e.paths, W!Prints(k, e)))
  BY <1>3, PrintsAre, CheckpointWatches DEF W!Events
<1> QED BY <1>1, <1>2, <1>3, <1>4, FinishWatches, JudgedWatches, MonitorKeepsLeases

LEMMA TickedWatches ==
  ASSUME NEW m, Watching(m)
  PROVE  Watching(W!Ticked(m)) /\ W!Ticked(m).leased = m.leased
<1>1. Watching(W!Checkpoint(m, m.changed, W!LastPrints(m)))
  BY PrintsAre, CheckpointWatches DEF Watching
<1> QED BY <1>1, FinishWatches, MonitorKeepsLeases DEF W!Ticked

LEMMA CapturedWatches ==
  ASSUME NEW m, Watching(m), NEW print
  PROVE  Watching(W!Captured(m, print)) /\ W!Captured(m, print).leased = m.leased
<1> DEFINE looked == IF print = "none" \/ (m.seen # <<>> /\ W!Last(m.seen) = print) THEN m.seen
                   ELSE Append(m.seen, print)
           n == Len(looked)
           k == [m EXCEPT !.seen = looked]
<1>1. W!Captured(m, print) =
        IF n >= 3 /\ looked[n] = looked[n - 2] /\ looked[n] # looked[n - 1]
        THEN W!Finish(k, "state_oscillation") ELSE k
  BY DEF W!Captured
<1> HIDE DEF looked
<1>2. /\ DOMAIN k = Fields /\ k.snaps = m.snaps /\ k.leased = m.leased /\ k.same = m.same
      /\ k.consumer = m.consumer /\ k.failures = m.failures /\ k.changed = m.changed
      /\ k.state = m.state
  BY DEF Watching, Fields
<1> HIDE DEF k
<1>3. Watching(k)
  BY <1>2, StillWatching DEF Watching
<1> QED BY <1>1, <1>2, <1>3, FinishWatches, MonitorKeepsLeases

LEMMA LeasedWatches ==
  ASSUME NEW m, Watching(m), W!Leasable(m)
  PROVE  /\ Watching(W!Leased(m))
         /\ Cardinality(W!Leased(m).leased) = Cardinality(m.leased) + 1
<1> DEFINE k == [m EXCEPT !.leased = @ \cup {Len(m.snaps)}]
<1>1. /\ DOMAIN k = Fields /\ k.snaps = m.snaps /\ k.leased = m.leased \cup {Len(m.snaps)}
      /\ k.same = m.same /\ k.consumer = m.consumer /\ k.failures = m.failures
      /\ k.changed = m.changed /\ k.state = m.state
  BY DEF Watching, Fields
<1>2. W!Leased(m) = k
  BY DEF W!Leased
<1> HIDE DEF k
<1>3. /\ Len(m.snaps) \in 1 .. Len(m.snaps) /\ Len(m.snaps) \notin m.leased
      /\ Shown(m.snaps, Len(m.snaps)) /\ IsFiniteSet(m.leased)
  BY DEF W!Leasable, Watching
<1>4. /\ IsFiniteSet(k.leased) /\ Cardinality(k.leased) = Cardinality(m.leased) + 1
  BY <1>1, <1>3, FS_AddElement
<1>5. Watching(k)
  BY <1>1, <1>3, <1>4 DEF Watching
<1> QED BY <1>2, <1>4, <1>5

-----------------------------------------------------------------------------
Setting(b) == [emits : {b.emits}, trees : {b.trees}, events : Nat, ticks : Nat, asks : Nat,
               faults : Nat, base : Nat, time : Nat, healing : {"on", "bare", "off"}, repair : BOOLEAN,
               late : BOOLEAN]

TurnTypeOK ==
  /\ \E b \in Settings : left \in Setting(b)
  /\ clock \in [now : Nat, extra : Nat]
  /\ session \in {"none", "preparing", "alive", "ended"}
  /\ barrier \in {"none", "pending", "proved", "failed"}
  /\ active \in BOOLEAN /\ quiesced \in BOOLEAN

\* What is proved closed has ended, and nothing is closed before there is a session to close.
ChildSound ==
  /\ turn = "idle" <=> session = "none"
  /\ session = "none" => /\ mon.stop = "none" /\ captures = 0 /\ watch = "idle"
                         /\ sweep # "cancel" /\ active = FALSE
  /\ barrier # "none" => session \in {"alive", "ended"}
  /\ barrier = "proved" => session = "ended"
  /\ race = "value" \/ turn = "collect" => session \in {"alive", "ended"}
  /\ quiesced = TRUE => turn \notin {"idle", "turn", "collect", "fail"}
  /\ quiesced = TRUE /\ turn = "finally" => barrier = "proved"

\* Each extension of a watched turn rests on a lease of its own.
LeaseSound ==
  Watching(mon) /\ (left.healing = "on" => clock.extra <= 2 * Cardinality(mon.leased))

WInv == TurnTypeOK /\ ChildSound /\ LeaseSound

LEMMA InitWInv == W!Init => WInv
<1> SUFFICES ASSUME W!Init PROVE WInv  OBVIOUS
<1>1. TurnTypeOK
  <2>1. left \in Setting(left)
    BY TurnsAssumption DEF W!Init, W!WatchAssumption, Setting
  <2> QED BY <2>1 DEF W!Init, TurnTypeOK
<1>2. ChildSound
  BY DEF W!Init, ChildSound, W!New
<1>3. LeaseSound
  BY NewWatches, FS_EmptySet DEF W!Init, LeaseSound, W!New
<1> QED BY <1>1, <1>2, <1>3 DEF WInv

LEMMA EmitsEvents == TurnTypeOK => left.emits \subseteq W!Events
BY TurnsAssumption DEF TurnTypeOK, W!WatchAssumption, Setting

LEMMA Spends ==
  ASSUME TurnTypeOK, NEW bound \in {"events", "ticks", "asks", "faults"}, W!Spend(bound)
  PROVE  \E b \in Settings : left' \in Setting(b)
<1> PICK b \in Settings : left \in Setting(b)
  BY DEF TurnTypeOK
<1>1. left[bound] \in Nat /\ left[bound] > 0 /\ left' = [left EXCEPT ![bound] = @ - 1]
  BY DEF W!Spend, Setting
<1>2. left[bound] - 1 \in Nat
  BY <1>1
<1> QED BY <1>1, <1>2 DEF Setting

\* Whether a run heals is settled before it runs.
LEMMA HealingStays == TurnTypeOK /\ [W!Next]_(W!vars) => left'.healing = left.healing
<1> SUFFICES ASSUME TurnTypeOK, [W!Next]_(W!vars) PROVE left'.healing = left.healing  OBVIOUS
<1>1. ASSUME NEW bound \in {"events", "ticks", "asks", "faults"}, W!Spend(bound)
      PROVE  left'.healing = left.healing
  BY <1>1 DEF W!Spend, TurnTypeOK, Setting
<1>2. UNCHANGED left \/ \E bound \in {"events", "ticks", "asks", "faults"} : W!Spend(bound)
  BY DEF W!vars, W!Next, W!Begin, W!Spawn, W!PrepareFails, W!TurnCompletes, W!ChildExits, W!Close,
       W!BarrierSettles, W!Work, W!Tick, W!Capture, W!StopSeen, W!WatchStep, W!TimePasses, W!Extend,
       W!ControlStops, W!SweepStep, W!TurnStep, W!WaitEnds, W!Collected, W!Failed, W!Release, W!Drain,
       W!Classify, W!Record
<1> QED BY <1>1, <1>2

\* A step that takes no lease, and leaves the monitor as it is or still watching.
LEMMA SameLease ==
  ASSUME WInv, left'.healing = left.healing,
         Watching(mon'), mon'.leased = mon.leased, clock'.extra = clock.extra
  PROVE  LeaseSound'
BY DEF WInv, LeaseSound

LEMMA DisarmedWatches ==
  ASSUME Watching(mon)
  PROVE  Watching(W!Disarmed) /\ W!Disarmed.leased = mon.leased /\ W!Disarmed.stop = mon.stop
<1>1. /\ DOMAIN W!Disarmed = Fields /\ W!Disarmed.snaps = mon.snaps /\ W!Disarmed.leased = mon.leased
      /\ W!Disarmed.same = mon.same /\ W!Disarmed.consumer = mon.consumer
      /\ W!Disarmed.failures = mon.failures /\ W!Disarmed.changed = mon.changed
      /\ W!Disarmed.state = mon.state /\ W!Disarmed.stop = mon.stop
  BY DEF Watching, Fields, W!Disarmed
<1> QED BY <1>1, StillWatching DEF Watching

\* A step that leaves the monitor and the extensions as they are.
LEMMA Unwatched ==
  ASSUME WInv, left'.healing = left.healing,
         TurnTypeOK', ChildSound', UNCHANGED mon, clock'.extra = clock.extra
  PROVE  WInv'
BY DEF WInv, LeaseSound

-----------------------------------------------------------------------------
\* The session and its child.
LEMMA SessionKeeps ==
  ASSUME WInv, left'.healing = left.healing,
         W!Begin \/ W!Spawn \/ W!PrepareFails \/ W!TurnCompletes \/ W!ChildExits \/ W!Close \/ W!BarrierSettles
  PROVE  WInv'
<1> USE DEF W!watchVars, W!turnVars, W!ownVars, W!runVars, W!childVars
<1>1. TurnTypeOK'
  <2>1. \E b \in Settings : left' \in Setting(b)
    BY Spends DEF WInv, TurnTypeOK, W!Begin, W!Spawn, W!PrepareFails, W!TurnCompletes, W!ChildExits, W!Close,
         W!BarrierSettles
  <2> QED BY <2>1 DEF WInv, TurnTypeOK, W!Begin, W!Spawn, W!PrepareFails, W!TurnCompletes, W!ChildExits, W!Close,
         W!BarrierSettles
<1>2. ChildSound'
  <2>1. CASE W!Begin
    BY <2>1 DEF WInv, TurnTypeOK, ChildSound, W!Begin
  <2>2. CASE W!Spawn
    BY <2>2 DEF WInv, TurnTypeOK, ChildSound, W!Spawn
  <2>3. CASE W!PrepareFails
    BY <2>3 DEF WInv, TurnTypeOK, ChildSound, W!PrepareFails, W!OperationSettles
  <2>4. CASE W!TurnCompletes
    BY <2>4 DEF WInv, TurnTypeOK, ChildSound, W!TurnCompletes
  <2>5. CASE W!ChildExits
    BY <2>5 DEF WInv, TurnTypeOK, ChildSound, W!ChildExits, W!RequestsEnd, W!OperationSettles
  <2>6. CASE W!Close
    BY <2>6 DEF WInv, TurnTypeOK, ChildSound, W!Close, W!RequestsEnd, W!OperationSettles, W!Cancelling, W!Closing
  <2>7. CASE W!BarrierSettles
    BY <2>7 DEF WInv, TurnTypeOK, ChildSound, W!BarrierSettles
  <2> QED BY <2>1, <2>2, <2>3, <2>4, <2>5, <2>6, <2>7
<1>3. UNCHANGED mon /\ clock' = clock
  BY DEF W!Begin, W!Spawn, W!PrepareFails, W!TurnCompletes, W!ChildExits, W!Close, W!BarrierSettles
<1> QED BY <1>1, <1>2, <1>3, Unwatched

\* The monitor.
LEMMA MonitorKeeps ==
  ASSUME WInv, left'.healing = left.healing,
         (\E e \in left.emits : W!Work(e)) \/ W!Tick \/ W!Capture \/ W!StopSeen \/ W!WatchStep
  PROVE  WInv'
<1> USE DEF W!watchVars, W!turnVars, W!ownVars, W!runVars, W!childVars
<1>1. ASSUME NEW e \in left.emits, W!Work(e) PROVE WInv'
  <2>1. e \in W!Events
    BY EmitsEvents DEF WInv
  <2>2. LeaseSound'
    BY <1>1, <2>1, ObserveWatches, SameLease DEF W!Work, WInv, LeaseSound
  <2>3. TurnTypeOK' /\ ChildSound'
    BY <1>1, Spends DEF W!Work, WInv, TurnTypeOK, ChildSound
  <2> QED BY <2>2, <2>3 DEF WInv
<1>2. CASE W!Tick
  <2>1. LeaseSound'
    BY <1>2, TickedWatches, SameLease DEF W!Tick, WInv, LeaseSound
  <2>2. TurnTypeOK' /\ ChildSound'
    BY <1>2, Spends DEF W!Tick, WInv, TurnTypeOK, ChildSound
  <2> QED BY <2>1, <2>2 DEF WInv
<1>3. CASE W!Capture
  <2>1. LeaseSound'
    BY <1>3, CapturedWatches, SameLease DEF W!Capture, WInv, LeaseSound
  <2>2. TurnTypeOK' /\ ChildSound'
    BY <1>3, Spends DEF W!Capture, WInv, TurnTypeOK, ChildSound
  <2> QED BY <2>1, <2>2 DEF WInv
<1>4. CASE W!StopSeen
  <2>1. TurnTypeOK' /\ ChildSound'
    BY <1>4 DEF W!StopSeen, WInv, TurnTypeOK, ChildSound
  <2> QED BY <1>4, <2>1, Unwatched DEF W!StopSeen
<1>5. CASE W!WatchStep
  <2>1. mon' \in {mon, W!Disarmed}
    BY <1>5 DEF W!WatchStep
  <2>2. LeaseSound'
    BY <1>5, <2>1, DisarmedWatches, SameLease DEF W!WatchStep, WInv, LeaseSound
  <2>3. mon'.stop = mon.stop
    BY <2>1, DisarmedWatches DEF WInv, LeaseSound
  <2>4. TurnTypeOK' /\ ChildSound'
    BY <1>5, <2>3 DEF W!WatchStep, WInv, TurnTypeOK, ChildSound
  <2> QED BY <2>2, <2>4 DEF WInv
<1> QED BY <1>1, <1>2, <1>3, <1>4, <1>5

\* Time, extensions and the end of the run.
LEMMA RunKeeps ==
  ASSUME WInv, left'.healing = left.healing,
         W!TimePasses \/ (\E n \in 1 .. 2 : W!Extend(n)) \/ W!ControlStops \/ W!SweepStep
  PROVE  WInv'
<1> USE DEF W!watchVars, W!turnVars, W!ownVars, W!runVars, W!childVars
<1>1. CASE W!TimePasses
  <2>1. clock'.extra = clock.extra /\ clock' \in [now : Nat, extra : Nat]
    BY <1>1 DEF W!TimePasses, WInv, TurnTypeOK
  <2>2. TurnTypeOK' /\ ChildSound'
    BY <1>1, <2>1 DEF W!TimePasses, WInv, TurnTypeOK, ChildSound
  <2> QED BY <1>1, <2>1, <2>2, Unwatched DEF W!TimePasses
<1>2. ASSUME NEW n \in 1 .. 2, W!Extend(n) PROVE WInv'
  <2> DEFINE applied == IF n < left.time - clock.now THEN n ELSE left.time - clock.now
  <2>1. left.time \in Nat /\ clock.now \in Nat /\ clock.extra \in Nat /\ clock.now < left.time
    BY <1>2 DEF W!Extend, WInv, TurnTypeOK, Setting
  <2>2. applied \in Nat /\ applied <= 2
    BY <2>1
  <2>3. clock' = [clock EXCEPT !.extra = @ + applied]
    BY <1>2 DEF W!Extend
  <2> HIDE DEF applied
  <2>4. clock' \in [now : Nat, extra : Nat] /\ clock'.extra = clock.extra + applied
    BY <2>1, <2>2, <2>3 DEF WInv, TurnTypeOK
  <2>5. LeaseSound'
    <3>1. CASE left.healing = "on"
      <4>1. mon' = W!Leased(mon) /\ W!Leasable(mon)
        BY <1>2, <3>1 DEF W!Extend, W!Watched
      <4>2. Watching(mon') /\ Cardinality(mon'.leased) = Cardinality(mon.leased) + 1
        BY <4>1, LeasedWatches DEF WInv, LeaseSound
      <4>3. Cardinality(mon.leased) \in Nat
        BY FS_CardinalityType DEF WInv, LeaseSound, Watching
      <4> QED BY <2>1, <2>2, <2>4, <3>1, <4>2, <4>3 DEF WInv, LeaseSound
    <3>2. CASE left.healing # "on"
      BY <1>2, <3>2 DEF W!Extend, W!Watched, WInv, LeaseSound
    <3> QED BY <3>1, <3>2
  <2>6. mon'.stop = mon.stop
    BY <1>2 DEF W!Extend, W!Leased, WInv, LeaseSound, Watching, Fields
  <2>7. TurnTypeOK' /\ ChildSound'
    BY <1>2, <2>4, <2>6, Spends DEF W!Extend, WInv, TurnTypeOK, ChildSound
  <2> QED BY <2>5, <2>7 DEF WInv
<1>3. CASE W!ControlStops
  <2>1. TurnTypeOK' /\ ChildSound'
    BY <1>3 DEF W!ControlStops, WInv, TurnTypeOK, ChildSound
  <2> QED BY <1>3, <2>1, Unwatched DEF W!ControlStops
<1>4. CASE W!SweepStep
  <2>1. TurnTypeOK' /\ ChildSound'
    BY <1>4 DEF W!SweepStep, WInv, TurnTypeOK, ChildSound
  <2> QED BY <1>4, <2>1, Unwatched DEF W!SweepStep
<1> QED BY <1>1, <1>2, <1>3, <1>4

\* runSubtask from its wait on.
LEMMA TurnKeeps == ASSUME WInv, left'.healing = left.healing, W!TurnStep PROVE WInv'
<1> USE DEF W!watchVars, W!turnVars, W!ownVars, W!runVars, W!childVars, W!Goes
<1>1. CASE W!WaitEnds
  <2>1. TurnTypeOK' /\ ChildSound'
    BY <1>1 DEF W!WaitEnds, WInv, TurnTypeOK, ChildSound
  <2> QED BY <1>1, <2>1, Unwatched DEF W!WaitEnds
<1>2. CASE W!Collected
  <2>1. turn' # "idle" /\ turn' \in {"finally", "fail"}
    BY <1>2 DEF W!Collected
  <2>2. TurnTypeOK' /\ ChildSound'
    BY <1>2, <2>1 DEF W!Collected, W!Closed, WInv, TurnTypeOK, ChildSound
  <2> QED BY <1>2, <2>2, Unwatched DEF W!Collected
<1>3. CASE W!Failed
  <2>1. TurnTypeOK' /\ ChildSound'
    BY <1>3 DEF W!Failed, WInv, TurnTypeOK, ChildSound
  <2> QED BY <1>3, <2>1, Unwatched DEF W!Failed
<1>4. CASE W!Release
  <2>1. quiesced' \in BOOLEAN /\ active' \in BOOLEAN
    BY <1>4 DEF W!Release
  <2>2. TurnTypeOK' /\ ChildSound'
    BY <1>4, <2>1 DEF W!Release, WInv, TurnTypeOK, ChildSound
  <2> QED BY <1>4, <2>2, Unwatched DEF W!Release
<1>5. CASE W!Drain
  <2>1. LeaseSound'
    BY <1>5, DisarmedWatches, SameLease DEF W!Drain, WInv, LeaseSound
  <2>2. mon'.stop = mon.stop
    BY <1>5, DisarmedWatches DEF W!Drain, WInv, LeaseSound
  <2>3. turn' \in {"returned", "classify"}
    BY <1>5 DEF W!Drain
  <2>4. TurnTypeOK' /\ ChildSound'
    BY <1>5, <2>2, <2>3 DEF W!Drain, WInv, TurnTypeOK, ChildSound
  <2> QED BY <2>1, <2>4 DEF WInv
<1>6. CASE W!Classify
  <2>1. turn' \in {"returned", "evidence"}
    BY <1>6 DEF W!Classify
  <2>2. TurnTypeOK' /\ ChildSound'
    BY <1>6, <2>1 DEF W!Classify, WInv, TurnTypeOK, ChildSound
  <2> QED BY <1>6, <2>2, Unwatched DEF W!Classify
<1>7. CASE W!Record
  <2>1. TurnTypeOK' /\ ChildSound'
    BY <1>7 DEF W!Record, WInv, TurnTypeOK, ChildSound
  <2> QED BY <1>7, <2>1, Unwatched DEF W!Record
<1> QED BY <1>1, <1>2, <1>3, <1>4, <1>5, <1>6, <1>7 DEF W!TurnStep

LEMMA NextWInv == WInv /\ [W!Next]_(W!vars) => WInv'
<1> SUFFICES ASSUME WInv, [W!Next]_(W!vars) PROVE WInv'  OBVIOUS
<1>0. left'.healing = left.healing
  BY HealingStays DEF WInv
<1>1. CASE UNCHANGED W!vars
  <2>1. TurnTypeOK' /\ ChildSound'
    BY <1>1 DEF W!vars, W!watchVars, W!turnVars, W!ownVars, W!runVars, W!childVars, WInv, TurnTypeOK, ChildSound
  <2> QED BY <1>0, <1>1, <2>1, Unwatched DEF W!vars, W!watchVars, W!runVars
<1> QED BY <1>0, <1>1, SessionKeeps, MonitorKeeps, RunKeeps, TurnKeeps DEF W!Next

LEMMA WInvPromises == WInv => W!LeaseIsEarned
BY Counts DEF WInv, LeaseSound, Watching, Shown, W!LeaseIsEarned, W!Watched

\* Only the collection, the finally and the sweep let go of the runtime, having closed it.
Releases == active /\ ~active' => session' # "alive"

LEMMA StepReleases == WInv /\ [W!Next]_(W!vars) => [Releases]_(W!vars)
<1> SUFFICES ASSUME WInv, [W!Next]_(W!vars), active, ~active' PROVE session' # "alive"
  BY DEF Releases
<1> USE DEF W!ownVars
<1>0. active = TRUE /\ active' = FALSE
  BY NextWInv DEF WInv, TurnTypeOK
<1>n. W!Next
  BY <1>0 DEF W!vars
<1>1. W!SweepStep \/ W!Collected \/ W!Release
  BY <1>0, <1>n DEF W!Next, W!Begin, W!Spawn, W!PrepareFails, W!TurnCompletes, W!ChildExits, W!Close, W!BarrierSettles, W!Work,
       W!Tick, W!Capture, W!StopSeen, W!WatchStep, W!TimePasses, W!Extend, W!ControlStops, W!TurnStep, W!WaitEnds,
       W!Failed, W!Drain, W!Classify, W!Record
<1>2. W!SweepStep \/ W!Collected => W!Closed
  BY DEF W!SweepStep, W!Collected
<1>3. W!Release => turn = "finally" /\ (W!Closed \/ quiesced = TRUE)
  BY DEF W!Release, WInv, TurnTypeOK
<1>4. session' = session
  BY <1>1 DEF W!SweepStep, W!Collected, W!Release, W!runVars, W!childVars
<1> QED BY <1>1, <1>2, <1>3, <1>4 DEF WInv, ChildSound, W!Closed

(***************************************************************************)
(* ExecRunner.                                                             *)
(***************************************************************************)

\* A container whose removal was done is gone, or came up after it was looked for; then nothing
\* signals its client, which ends with its container.
CancelSound == \A k \in Cancels : calls[k] = "true" => process = "gone" /\ box # "up"
ClientSound ==
  /\ backend = "container" /\ removal # "failed" => signals = {} /\ force = FALSE
  /\ process = "gone" /\ signals = {} => box # "up"
  /\ process = "none" => signals = {} /\ force = FALSE /\ box = "none"
  /\ place \in {"idle", "preparing"} => process = "none" /\ removal = "none"
  /\ removal # "none" => process # "none" /\ backend = "container"
  /\ place = "running" => process # "none"
  /\ backend = "host" => box = "none"
XTypeOK ==
  /\ backend \in {"host", "container"}
  /\ place \in {"idle", "preparing", "running", "returned"}
  /\ process \in {"none", "alive", "gone"} /\ force \in BOOLEAN /\ signals \subseteq {"term", "kill"}
  /\ box \in {"none", "up", "gone"}
  /\ removal \in {"none", "looking", "removing", "done", "failed"}
  /\ calls \in [Cancels -> {"none", "waiting", "false", "true", "failed"}]
XInv == XTypeOK /\ ClientSound /\ CancelSound

LEMMA InitXInv == X!Init => XInv
BY DEF X!Init, XInv, XTypeOK, ClientSound, CancelSound

LEMMA TerminateKeeps ==
  ASSUME XInv, X!Terminate, place = "running", UNCHANGED <<backend, place, process, box>>,
         calls' \in [Cancels -> {"none", "waiting", "false", "true", "failed"}],
         \A k \in Cancels : calls'[k] = "true" => calls[k] = "true"
  PROVE  XInv'
BY DEF X!Terminate, XInv, XTypeOK, ClientSound, CancelSound, X!signalVars

LEMMA NextXInv == XInv /\ [X!Next]_(X!vars) => XInv'
<1> SUFFICES ASSUME XInv, [X!Next]_(X!vars) PROVE XInv'  OBVIOUS
<1> USE DEF XInv, XTypeOK, ClientSound, CancelSound, X!runVars, X!boxVars, X!signalVars
<1>1. CASE X!Prepare \/ X!PrepareFails \/ X!Spawn
  BY <1>1 DEF X!Prepare, X!PrepareFails, X!Spawn, X!Trouble
<1>2. CASE X!Create \/ X!Finish
  BY <1>2 DEF X!Create, X!Finish
<1>3. CASE X!Die
  BY <1>3 DEF X!Die
<1>4. CASE X!Settle
  BY <1>4 DEF X!Settle
<1>5. CASE X!Timeout \/ X!Exceed
  BY <1>5, TerminateKeeps DEF X!Timeout, X!Exceed
<1>6. CASE X!ForceKill \/ X!Look \/ X!Remove
  <2>1. CASE X!ForceKill
    <3>1. force = TRUE /\ force' = FALSE /\ signals' = signals \cup {"kill"}
          /\ UNCHANGED <<backend, place, verdict, process, box, removal, causes, calls>>
      BY <2>1 DEF X!ForceKill
    <3>2. XTypeOK'
      BY <3>1
    <3>3. ClientSound'
      BY <3>1
    <3>4. CancelSound'
      BY <3>1
    <3> QED BY <3>2, <3>3, <3>4
  <2>2. CASE X!Look \/ X!Remove
    BY <2>2 DEF X!Look, X!Remove
  <2> QED BY <1>6, <2>1, <2>2
<1>7. CASE X!RemovalFails
  <2>1. /\ removal \in {"looking", "removing"} /\ removal' = "failed" /\ force' = TRUE
        /\ process # "none" /\ backend = "container"
        /\ box' = box \/ box' = "gone"
        /\ signals' = IF process = "alive" THEN signals \cup {"term"} ELSE signals
        /\ UNCHANGED <<backend, place, verdict, process, causes, calls>>
    BY <1>7 DEF X!RemovalFails, X!Trouble
  <2>2. XTypeOK'
    BY <2>1
  <2>3. ClientSound'
    BY <2>1
  <2>4. CancelSound'
    BY <2>1
  <2> QED BY <2>2, <2>3, <2>4
<1>8. ASSUME NEW k \in Cancels, X!Cancel(k) PROVE XInv'
  <2>1. CASE place = "running"
    BY <1>8, <2>1, TerminateKeeps DEF X!Cancel
  <2>2. CASE place # "running"
    BY <1>8, <2>2 DEF X!Cancel
  <2> QED BY <2>1, <2>2
<1>9. ASSUME NEW k \in Cancels, X!Answered(k) PROVE XInv'
  BY <1>9 DEF X!Answered
<1>10. CASE UNCHANGED X!vars
  BY <1>10 DEF X!vars
<1> QED BY <1>1, <1>2, <1>3, <1>4, <1>5, <1>6, <1>7, <1>8, <1>9, <1>10 DEF X!Next

LEMMA XInvPromises == XInv => X!CancelProves
BY DEF XInv, CancelSound, X!CancelProves

(***************************************************************************)
(* AnomalyDetector, and what it has observed.                              *)
(***************************************************************************)

Detectors ==
  [lastFrom : Workers \cup {NoOne}, lastTo : Workers \cup {NoOne}, volleys : Nat,
   fired : SUBSET SUBSET Workers, downgraded : SUBSET SUBSET Workers,
   repeats : [Workers \X Workers \X Bodies -> Nat]]

\* The wakeups of a history that count as the same.
Sent(h, key) == {i \in 1 .. Len(h) : h[i].kind = "wakeup" /\ D!RepeatKey(h[i]) = key}

\* The volleys are those of the longest stretch that alternates up to the last
\* wakeup that counts.
VolleysSound(h, d) ==
  LET C == Counted(h, 1, Len(h))
  IN  \/ C = {} /\ d.volleys = 0 /\ d.lastFrom = NoOne /\ d.lastTo = NoOne
      \/ \E l \in C :
           /\ \A j \in C : j <= l
           /\ d.lastFrom = h[l].from /\ d.lastTo = h[l].to
           /\ \E k \in 1 .. l : /\ Alternate(h, Counted(h, k, l))
                                /\ Cardinality(Counted(h, k, l)) = d.volleys
           /\ \A k \in 1 .. l : Alternate(h, Counted(h, k, l))
                                  => Cardinality(Counted(h, k, l)) <= d.volleys

Caught(h) == {k \in 1 .. Len(h) : Repeats(h, k) \/ Volleys(h, k)}

DInv ==
  /\ observed \in Seq(D!Message) /\ detector \in Detectors
  /\ detector.fired \subseteq detector.downgraded
  /\ \A key \in Workers \X Workers \X Bodies :
        detector.repeats[key] = Cardinality(Sent(observed, key))
  /\ VolleysSound(observed, detector)
  /\ detector.downgraded = {D!PairKey(observed[i]) : i \in Caught(observed)}

(* What an observation does to the record. *)
LEMMA ObserveDoes ==
  ASSUME NEW d \in Detectors, NEW m \in D!Message
  PROVE  LET key == D!RepeatKey(m)
             n == d.repeats[key] + 1
             vol == IF d.lastFrom = m.to /\ d.lastTo = m.from THEN d.volleys + 1 ELSE 1
             fires == vol >= MinVolleys /\ D!PairKey(m) \notin d.fired
             o == D!Observe(d, m)
         IN  /\ m.kind # "wakeup" => o = d
             /\ m.kind = "wakeup" => o.repeats = [d.repeats EXCEPT ![key] = n]
             /\ m.kind = "wakeup" /\ n >= RepeatThreshold =>
                   /\ o.volleys = d.volleys /\ o.lastFrom = d.lastFrom /\ o.lastTo = d.lastTo
                   /\ o.fired = d.fired /\ o.downgraded = d.downgraded \cup {D!PairKey(m)}
             /\ m.kind = "wakeup" /\ ~ (n >= RepeatThreshold) =>
                   /\ o.volleys = vol /\ o.lastFrom = m.from /\ o.lastTo = m.to
                   /\ o.fired = IF fires THEN d.fired \cup {D!PairKey(m)} ELSE d.fired
                   /\ o.downgraded = IF fires THEN d.downgraded \cup {D!PairKey(m)} ELSE d.downgraded
             /\ o \in Detectors
<1> DEFINE key == D!RepeatKey(m)
           n == d.repeats[key] + 1
           r == D!CountRepeat(d, m)
           v == D!CountVolley(r, m)
           vol == IF d.lastFrom = m.to /\ d.lastTo = m.from THEN d.volleys + 1 ELSE 1
           fires == vol >= MinVolleys /\ D!PairKey(m) \notin d.fired
           o == D!Observe(d, m)
<1>1. /\ key \in Workers \X Workers \X Bodies /\ n \in Nat /\ vol \in Nat
      /\ m.from \in Workers /\ m.to \in Workers /\ D!PairKey(m) \in SUBSET Workers
  BY DEF D!RepeatKey, D!Message, D!PairKey, Detectors
<1>2. r = [d EXCEPT !.repeats = [d.repeats EXCEPT ![key] = n]]
  BY DEF D!CountRepeat, Detectors
<1> HIDE DEF key, n
<1>3. /\ r \in Detectors /\ r.repeats = [d.repeats EXCEPT ![key] = n]
      /\ r.lastFrom = d.lastFrom /\ r.lastTo = d.lastTo /\ r.volleys = d.volleys
      /\ r.fired = d.fired /\ r.downgraded = d.downgraded
      /\ r.repeats[key] = n
  BY <1>1, <1>2 DEF Detectors
<1> HIDE DEF r
<1>4. v = [r EXCEPT !.volleys = vol, !.lastFrom = m.from, !.lastTo = m.to]
  BY <1>3 DEF D!CountVolley
<1>5. /\ v \in Detectors /\ v.repeats = r.repeats /\ v.volleys = vol
      /\ v.lastFrom = m.from /\ v.lastTo = m.to /\ v.fired = d.fired /\ v.downgraded = d.downgraded
  <2> HIDE DEF vol, v
  <2> QED  BY <1>1, <1>3, <1>4 DEF Detectors
<1> HIDE DEF v
<1>6. D!IsPingPong(v, m) <=> fires
  BY <1>5 DEF D!IsPingPong
<1> HIDE DEF vol, fires
<1>7. o = IF m.kind # "wakeup" THEN d
          ELSE IF n >= RepeatThreshold THEN D!Downgrade(r, m)
          ELSE IF fires THEN D!Fire(v, m)
          ELSE v
  BY <1>3, <1>6 DEF D!Observe, key, r, v
<1> HIDE DEF o
<1>8. CASE m.kind # "wakeup"
  BY <1>7, <1>8 DEF key, n, vol, fires, o
<1>9. CASE m.kind = "wakeup" /\ n >= RepeatThreshold
  <2>1. o = [r EXCEPT !.downgraded = r.downgraded \cup {D!PairKey(m)}]
    BY <1>7, <1>9 DEF D!Downgrade
  <2>2. /\ o \in Detectors /\ o.repeats = [d.repeats EXCEPT ![key] = n]
        /\ o.volleys = d.volleys /\ o.lastFrom = d.lastFrom /\ o.lastTo = d.lastTo
        /\ o.fired = d.fired /\ o.downgraded = d.downgraded \cup {D!PairKey(m)}
    BY <1>1, <1>3, <2>1 DEF Detectors
  <2> QED  BY <1>9, <2>2 DEF key, n, vol, fires, o
<1>10. CASE m.kind = "wakeup" /\ ~ (n >= RepeatThreshold)
  <2>1. CASE fires
    <3>1. o = [v EXCEPT !.downgraded = v.downgraded \cup {D!PairKey(m)},
                        !.fired = v.fired \cup {D!PairKey(m)}]
      BY <1>5, <1>7, <1>10, <2>1 DEF D!Fire, D!Downgrade, Detectors
    <3>2. /\ o \in Detectors /\ o.repeats = [d.repeats EXCEPT ![key] = n]
          /\ o.volleys = vol /\ o.lastFrom = m.from /\ o.lastTo = m.to
          /\ o.fired = d.fired \cup {D!PairKey(m)} /\ o.downgraded = d.downgraded \cup {D!PairKey(m)}
      BY <1>1, <1>3, <1>5, <3>1 DEF Detectors
    <3> QED  BY <1>10, <2>1, <3>2 DEF key, n, vol, fires, o
  <2>2. CASE ~ fires
    <3>1. o = v
      BY <1>7, <1>10, <2>2
    <3> QED  BY <1>3, <1>5, <1>10, <2>2, <3>1 DEF key, n, vol, fires, o
  <2> QED  BY <2>1, <2>2
<1> QED  BY <1>8, <1>9, <1>10

(* One more message leaves the history before it. *)
LEMMA HistoryGoesOn ==
  ASSUME NEW h \in Seq(D!Message), NEW m \in D!Message
  PROVE  LET g == Append(h, m)
             n == Len(h)
         IN  /\ n \in Nat /\ g \in Seq(D!Message) /\ Len(g) = n + 1 /\ g[n + 1] = m
             /\ \A i \in 1 .. n : g[i] = h[i]
             /\ \A i \in 1 .. n : Repeats(g, i) <=> Repeats(h, i)
             /\ \A k \in Nat \ {0}, i \in 0 .. n : Counted(g, k, i) = Counted(h, k, i)
             /\ \A Z \in SUBSET (1 .. n) : Alternate(g, Z) <=> Alternate(h, Z)
<1> DEFINE g == Append(h, m)
           n == Len(h)
<1>1. n \in Nat /\ g \in Seq(D!Message) /\ Len(g) = n + 1 /\ g[n + 1] = m
      /\ \A i \in 1 .. n : g[i] = h[i]
  BY AppendProperties, LenProperties
<1> HIDE DEF g, n
<1>2. ASSUME NEW i \in 1 .. n PROVE Repeats(g, i) <=> Repeats(h, i)
  <2>1. {j \in 1 .. i : g[j] = g[i]} = {j \in 1 .. i : h[j] = h[i]}
    BY <1>1
  <2> QED  BY <1>1, <2>1 DEF Repeats
<1>3. ASSUME NEW k \in Nat \ {0}, NEW i \in 0 .. n
      PROVE  Counted(g, k, i) = Counted(h, k, i)
  BY <1>1, <1>2, <1>3 DEF Counted
<1>4. ASSUME NEW Z \in SUBSET (1 .. n) PROVE Alternate(g, Z) <=> Alternate(h, Z)
  BY <1>1 DEF Alternate
<1> QED  BY <1>1, <1>2, <1>3, <1>4 DEF g, n

LEMMA VolleysStand ==
  ASSUME NEW h \in Seq(D!Message), NEW m \in D!Message, NEW i \in 1 .. Len(h)
  PROVE  Volleys(Append(h, m), i) <=> Volleys(h, i)
<1> DEFINE g == Append(h, m)
<1>1. i \in Nat /\ i # 0 /\ i \in 0 .. Len(h) /\ Len(h) \in Nat
  BY LenProperties
<1>2. \A k \in 1 .. i : Counted(g, k, i) = Counted(h, k, i) /\ Counted(h, k, i) \subseteq 1 .. Len(h)
  BY <1>1, HistoryGoesOn DEF Counted
<1>3. \A k \in 1 .. i : Alternate(g, Counted(g, k, i)) <=> Alternate(h, Counted(h, k, i))
  BY <1>2, HistoryGoesOn
<1> HIDE DEF g
<1>4. i \in 1 .. i
  BY <1>1
<1> QED  BY <1>2, <1>3, <1>4 DEF Volleys, g

(* What the next message is to the history before it.                      *)
LEMMA NextCounted ==
  ASSUME NEW h \in Seq(D!Message), NEW m \in D!Message, NEW k \in 1 .. Len(h) + 1
  PROVE  LET g == Append(h, m)
             i == Len(h) + 1
         IN  Counted(g, k, i) = IF m.kind = "wakeup" /\ ~ Repeats(g, i)
                                THEN Counted(h, k, Len(h)) \cup {i} ELSE Counted(h, k, Len(h))
<1> DEFINE g == Append(h, m)
           n == Len(h)
<1>1. n \in Nat /\ g[n + 1] = m /\ k \in Nat \ {0}
  BY HistoryGoesOn
<1>2. Counted(g, k, n) = Counted(h, k, n)
  BY <1>1, HistoryGoesOn
<1> HIDE DEF g, n
<1>3. k .. (n + 1) = (k .. n) \cup {n + 1}
  BY <1>1 DEF n
<1>4. Counted(g, k, n + 1) = Counted(g, k, n) \cup {j \in {n + 1} : g[j].kind = "wakeup" /\ ~ Repeats(g, j)}
  BY <1>3 DEF Counted
<1>5. Counted(g, k, n + 1) = IF m.kind = "wakeup" /\ ~ Repeats(g, n + 1)
                             THEN Counted(h, k, n) \cup {n + 1} ELSE Counted(h, k, n)
  BY <1>1, <1>2, <1>4
<1> QED  BY <1>5 DEF g, n

LEMMA CountedBelow ==
  ASSUME NEW h, NEW k \in Nat, NEW i \in Nat
  PROVE  /\ Counted(h, k, i) \subseteq k .. i
         /\ IsFiniteSet(Counted(h, k, i)) /\ Cardinality(Counted(h, k, i)) \in Nat
<1>1. Counted(h, k, i) \subseteq k .. i
  BY DEF Counted
<1>2. IsFiniteSet(k .. i)
  BY FS_Interval
<1> QED  BY <1>1, <1>2, FS_Subset, FS_CardinalityType

(* A stretch that ends before the next wakeup alternates with it when the  *)
(* last of the stretch is reversed.                                        *)
LEMMA StretchGoesOn ==
  ASSUME NEW g, NEW n \in Nat, NEW Z \in SUBSET (1 .. n), NEW l \in Z, \A j \in Z : j <= l
  PROVE  Alternate(g, Z \cup {n + 1}) <=> Alternate(g, Z) /\ Reverses(g[l], g[n + 1])
<1>1. ASSUME Alternate(g, Z \cup {n + 1}) PROVE Reverses(g[l], g[n + 1])
  <2>1. l < n + 1 /\ \A z \in Z \cup {n + 1} : z <= l \/ n + 1 <= z
    OBVIOUS
  <2> QED  BY <1>1, <2>1 DEF Alternate
<1>2. ASSUME Alternate(g, Z \cup {n + 1}) PROVE Alternate(g, Z)
  <2> SUFFICES ASSUME NEW j \in Z, NEW k \in Z, j < k, \A z \in Z : z <= j \/ k <= z
               PROVE  Reverses(g[j], g[k])
    BY DEF Alternate
  <2>1. \A z \in Z \cup {n + 1} : z <= j \/ k <= z
    OBVIOUS
  <2> QED  BY <1>2, <2>1 DEF Alternate
<1>3. ASSUME Alternate(g, Z), Reverses(g[l], g[n + 1]) PROVE Alternate(g, Z \cup {n + 1})
  <2> SUFFICES ASSUME NEW j \in Z \cup {n + 1}, NEW k \in Z \cup {n + 1}, j < k,
                      \A z \in Z \cup {n + 1} : z <= j \/ k <= z
               PROVE  Reverses(g[j], g[k])
    BY DEF Alternate
  <2>1. j \in Z
    OBVIOUS
  <2>2. CASE k \in Z
    BY <1>3, <2>1, <2>2 DEF Alternate
  <2>3. CASE k = n + 1
    <3>1. j = l
      BY <2>1, <2>3
    <3> QED  BY <1>3, <2>3, <3>1
  <2> QED  BY <2>2, <2>3
<1> QED  BY <1>1, <1>2, <1>3

(* The volleys after a wakeup that counts: the longest stretch up to it is *)
(* the one up to the wakeup before, if that is reversed, and this one.     *)
LEMMA VolleysGoOn ==
  ASSUME NEW h \in Seq(D!Message), NEW d \in Detectors, VolleysSound(h, d),
         NEW m \in D!Message, m.kind = "wakeup", ~ Repeats(Append(h, m), Len(h) + 1)
  PROVE  LET g == Append(h, m)
             i == Len(h) + 1
             vol == IF d.lastFrom = m.to /\ d.lastTo = m.from THEN d.volleys + 1 ELSE 1
         IN  /\ i \in Counted(g, i, i)
             /\ \E k \in 1 .. i : Alternate(g, Counted(g, k, i)) /\ Cardinality(Counted(g, k, i)) = vol
             /\ \A k \in 1 .. i : Alternate(g, Counted(g, k, i)) => Cardinality(Counted(g, k, i)) <= vol
<1> DEFINE g == Append(h, m)
           n == Len(h)
           C == Counted(h, 1, n)
           vol == IF d.lastFrom = m.to /\ d.lastTo = m.from THEN d.volleys + 1 ELSE 1
<1>1. /\ n \in Nat /\ g[n + 1] = m /\ \A i \in 1 .. n : g[i] = h[i]
      /\ \A Z \in SUBSET (1 .. n) : Alternate(g, Z) <=> Alternate(h, Z)
      /\ d.volleys \in Nat /\ m.from \in Workers /\ m.to \in Workers
  BY HistoryGoesOn DEF Detectors, D!Message
<1>2. \A k \in 1 .. n + 1 : Counted(g, k, n + 1) = Counted(h, k, n) \cup {n + 1}
  BY NextCounted
<1>3. \A k \in 1 .. n + 1 : Counted(h, k, n) = {j \in C : k <= j} /\ C \subseteq 1 .. n
  BY <1>1 DEF Counted
<1>4. \/ C = {} /\ d.volleys = 0 /\ d.lastFrom = NoOne /\ d.lastTo = NoOne
      \/ \E l \in C :
           /\ \A j \in C : j <= l
           /\ d.lastFrom = h[l].from /\ d.lastTo = h[l].to
           /\ \E k \in 1 .. l : /\ Alternate(h, Counted(h, k, l))
                                /\ Cardinality(Counted(h, k, l)) = d.volleys
           /\ \A k \in 1 .. l : Alternate(h, Counted(h, k, l))
                                  => Cardinality(Counted(h, k, l)) <= d.volleys
  BY DEF VolleysSound
<1>5. n + 1 \in Counted(g, n + 1, n + 1) /\ n + 1 \in 1 .. n + 1
  BY <1>1, <1>2
<1> HIDE DEF g, n, C
<1>6. Cardinality({n + 1}) = 1 /\ Alternate(g, {n + 1})
  <2>1. Alternate(g, {n + 1})
    BY <1>1 DEF Alternate
  <2> QED  BY <2>1, FS_Singleton
<1>7. ASSUME C = {}, d.lastFrom = NoOne
      PROVE  /\ \E k \in 1 .. n + 1 : /\ Alternate(g, Counted(g, k, n + 1))
                                      /\ Cardinality(Counted(g, k, n + 1)) = vol
             /\ \A k \in 1 .. n + 1 : Alternate(g, Counted(g, k, n + 1))
                                        => Cardinality(Counted(g, k, n + 1)) <= vol
  <2>1. \A k \in 1 .. n + 1 : Counted(g, k, n + 1) = {n + 1}
    BY <1>2, <1>3, <1>7
  <2>2. vol = 1
    BY <1>1, <1>7, DetectorsAssumption
  <2> HIDE DEF vol
  <2>3. \A k \in 1 .. n + 1 : /\ Alternate(g, Counted(g, k, n + 1))
                              /\ Cardinality(Counted(g, k, n + 1)) = vol
    BY <1>6, <2>1, <2>2
  <2>4. vol <= vol
    BY <2>2
  <2> QED  BY <1>5, <2>3, <2>4
<1>8. ASSUME NEW l \in C, \A j \in C : j <= l, d.lastFrom = h[l].from, d.lastTo = h[l].to,
             \E k \in 1 .. l : /\ Alternate(h, Counted(h, k, l))
                               /\ Cardinality(Counted(h, k, l)) = d.volleys,
             \A k \in 1 .. l : Alternate(h, Counted(h, k, l))
                                 => Cardinality(Counted(h, k, l)) <= d.volleys
      PROVE  /\ \E k \in 1 .. n + 1 : /\ Alternate(g, Counted(g, k, n + 1))
                                      /\ Cardinality(Counted(g, k, n + 1)) = vol
             /\ \A k \in 1 .. n + 1 : Alternate(g, Counted(g, k, n + 1))
                                        => Cardinality(Counted(g, k, n + 1)) <= vol
  <2>1. l \in 1 .. n /\ l \in Nat
    BY <1>1, <1>3, <1>5
  <2>2. Reverses(g[l], g[n + 1]) <=> d.lastFrom = m.to /\ d.lastTo = m.from
    BY <1>1, <1>8, <2>1 DEF Reverses
  <2>3. \A k \in (l + 1) .. (n + 1) : Counted(g, k, n + 1) = {n + 1}
    <3> TAKE k \in (l + 1) .. (n + 1)
    <3>1. k \in 1 .. n + 1 /\ \A j \in C : ~ (k <= j)
      BY <1>1, <1>3, <1>5, <1>8, <2>1
    <3>2. Counted(h, k, n) = {}
      BY <1>3, <3>1
    <3> QED  BY <1>2, <3>1, <3>2
  <2>4. ASSUME NEW k \in 1 .. l
        PROVE  LET Z == Counted(h, k, l)
               IN  /\ Counted(g, k, n + 1) = Z \cup {n + 1} /\ Z \in SUBSET (1 .. n)
                   /\ l \in Z /\ \A j \in Z : j <= l
                   /\ Cardinality(Z) \in Nat
                   /\ Cardinality(Counted(g, k, n + 1)) = Cardinality(Z) + 1
    <3> DEFINE Z == Counted(h, k, l)
    <3>1. Z = Counted(h, k, n)
      <4>0. k \in 1 .. n + 1 /\ k \in Nat
        BY <1>1, <2>1
      <4>2. Counted(h, k, n) = {j \in C : k <= j} /\ C \subseteq 1 .. n
        BY <1>3, <4>0
      <4>1. Counted(h, k, n) \subseteq k .. l
        <5> SUFFICES ASSUME NEW j \in Counted(h, k, n) PROVE j \in k .. l
          OBVIOUS
        <5>1. j \in C /\ k <= j
          BY <4>2
        <5>2. j \in Nat /\ j <= l
          BY <1>1, <1>8, <4>2, <5>1
        <5> QED  BY <2>1, <4>0, <5>1, <5>2
      <4> QED  BY <1>1, <2>1, <4>1 DEF Counted
    <3>2. IsFiniteSet(Z) /\ Cardinality(Z) \in Nat
      <4>1. k \in Nat
        BY <2>1
      <4> QED  BY <2>1, <4>1, CountedBelow
    <3> HIDE DEF Z
    <3>3. Z = {j \in C : k <= j} /\ C \subseteq 1 .. n
      BY <1>1, <1>3, <2>1, <3>1
    <3>4. Counted(g, k, n + 1) = Z \cup {n + 1}
      BY <1>1, <1>2, <2>1, <3>1
    <3>5. n + 1 \notin Z
      BY <1>1, <3>3
    <3>6. Cardinality(Counted(g, k, n + 1)) = Cardinality(Z) + 1
      BY <3>2, <3>4, <3>5, FS_AddElement
    <3>7. Z \in SUBSET (1 .. n) /\ l \in Z /\ \A j \in Z : j <= l
      <4>1. k <= l
        BY <2>1
      <4> QED  BY <1>8, <3>3, <4>1
    <3> QED  BY <3>2, <3>4, <3>6, <3>7 DEF Z
  <2>5. ASSUME NEW k \in 1 .. l
        PROVE  Alternate(g, Counted(g, k, n + 1)) <=>
                 Alternate(h, Counted(h, k, l)) /\ Reverses(g[l], g[n + 1])
    <3> DEFINE Z == Counted(h, k, l)
    <3>1. /\ Counted(g, k, n + 1) = Z \cup {n + 1} /\ Z \in SUBSET (1 .. n)
          /\ l \in Z /\ \A j \in Z : j <= l
      BY <2>4
    <3> HIDE DEF Z
    <3>2. Alternate(g, Z \cup {n + 1}) <=> Alternate(g, Z) /\ Reverses(g[l], g[n + 1])
      BY <1>1, <3>1, StretchGoesOn
    <3> QED  BY <1>1, <3>1, <3>2 DEF Z
  <2>6. n + 1 \in (l + 1) .. (n + 1) /\ \A k \in 1 .. n + 1 : k \in 1 .. l \/ k \in (l + 1) .. (n + 1)
    BY <1>1, <2>1
  <2>7. CASE Reverses(g[l], g[n + 1])
    <3>1. vol = d.volleys + 1
      BY <2>2, <2>7
    <3>2. PICK k \in 1 .. l : /\ Alternate(h, Counted(h, k, l))
                              /\ Cardinality(Counted(h, k, l)) = d.volleys
      BY <1>8
    <3>3. /\ k \in 1 .. n + 1 /\ Alternate(g, Counted(g, k, n + 1))
          /\ Cardinality(Counted(g, k, n + 1)) = vol
      BY <1>1, <2>1, <2>4, <2>5, <2>7, <3>1, <3>2
    <3>4. ASSUME NEW q \in 1 .. n + 1, Alternate(g, Counted(g, q, n + 1))
          PROVE  Cardinality(Counted(g, q, n + 1)) <= vol
      <4>1. CASE q \in 1 .. l
        <5>1. Alternate(h, Counted(h, q, l))
          BY <2>5, <3>4, <4>1
        <5>2. Cardinality(Counted(h, q, l)) <= d.volleys /\ Cardinality(Counted(h, q, l)) \in Nat
              /\ Cardinality(Counted(g, q, n + 1)) = Cardinality(Counted(h, q, l)) + 1
          BY <1>8, <2>4, <4>1, <5>1
        <5> QED  BY <1>1, <3>1, <5>2
      <4>2. CASE q \in (l + 1) .. (n + 1)
        <5>1. Cardinality(Counted(g, q, n + 1)) = 1
          BY <1>6, <2>3, <4>2
        <5> QED  BY <1>1, <3>1, <5>1
      <4> QED  BY <2>6, <4>1, <4>2
    <3> QED  BY <3>3, <3>4
  <2>8. CASE ~ Reverses(g[l], g[n + 1])
    <3>1. vol = 1
      BY <2>2, <2>8
    <3>2. Counted(g, n + 1, n + 1) = {n + 1}
      BY <2>3, <2>6
    <3>3. ASSUME NEW q \in 1 .. n + 1, Alternate(g, Counted(g, q, n + 1))
          PROVE  Cardinality(Counted(g, q, n + 1)) <= vol
      <4>1. q \in (l + 1) .. (n + 1)
        BY <2>5, <2>6, <2>8, <3>3
      <4>2. Cardinality(Counted(g, q, n + 1)) = 1
        BY <1>6, <2>3, <4>1
      <4> QED  BY <3>1, <4>2
    <3> QED  BY <1>5, <1>6, <3>1, <3>2, <3>3
  <2> QED  BY <2>7, <2>8
<1> HIDE DEF vol
<1>9. /\ \E k \in 1 .. n + 1 : /\ Alternate(g, Counted(g, k, n + 1))
                               /\ Cardinality(Counted(g, k, n + 1)) = vol
      /\ \A k \in 1 .. n + 1 : Alternate(g, Counted(g, k, n + 1))
                                 => Cardinality(Counted(g, k, n + 1)) <= vol
  BY <1>4, <1>7, <1>8 DEF g, n, vol
<1> QED  BY <1>5, <1>9 DEF g, n, vol

LEMMA DetectorStarts == DetectorInit => DInv
<1> SUFFICES ASSUME DetectorInit PROVE DInv
  OBVIOUS
<1>1. observed = <<>> /\ observed \in Seq(D!Message) /\ Len(observed) = 0
  BY EmptySeq DEF DetectorInit
<1>2. detector = D!NewDetector /\ detector \in Detectors
  BY DEF DetectorInit, D!NewDetector, Detectors
<1>3. \A key : Sent(observed, key) = {}
  BY <1>1 DEF Sent
<1>4. Cardinality({}) = 0
  BY FS_EmptySet
<1>5. Counted(observed, 1, Len(observed)) = {} /\ Caught(observed) = {}
  BY <1>1 DEF Counted, Caught
<1>6. VolleysSound(observed, detector)
  BY <1>2, <1>5 DEF VolleysSound, D!NewDetector
<1>7. \A key \in Workers \X Workers \X Bodies : detector.repeats[key] = Cardinality(Sent(observed, key))
  BY <1>2, <1>3, <1>4 DEF D!NewDetector
<1>8. detector.fired = {} /\ detector.downgraded = {}
  BY <1>2 DEF D!NewDetector
<1> QED  BY <1>1, <1>2, <1>5, <1>6, <1>7, <1>8 DEF DInv

(* A repeat is caught when the record has counted enough of them.          *)
LEMMA RepeatIsCounted ==
  ASSUME NEW h \in Seq(D!Message), NEW m \in D!Message, m.kind = "wakeup"
  PROVE  LET g == Append(h, m)
             n == Len(h)
         IN  /\ IsFiniteSet(Sent(h, D!RepeatKey(m))) /\ IsFiniteSet(Sent(g, D!RepeatKey(m)))
             /\ Repeats(g, n + 1) <=> Cardinality(Sent(g, D!RepeatKey(m))) >= RepeatThreshold
             /\ \A key : Sent(g, key) = IF key = D!RepeatKey(m) THEN Sent(h, key) \cup {n + 1}
                                        ELSE Sent(h, key)
             /\ n + 1 \notin Sent(h, D!RepeatKey(m))
<1> DEFINE g == Append(h, m)
           n == Len(h)
<1>1. /\ n \in Nat /\ Len(g) = n + 1 /\ g[n + 1] = m /\ \A i \in 1 .. n : g[i] = h[i]
      /\ g \in Seq(D!Message)
  BY HistoryGoesOn
<1>2. \A i \in 1 .. n + 1 : g[i] \in D!Message
  BY <1>1, ElementOfSeq
<1>3. \A key : Sent(h, key) \subseteq 1 .. n /\ Sent(g, key) \subseteq 1 .. n + 1
  BY <1>1 DEF Sent
<1>4. \A key : IsFiniteSet(Sent(h, key)) /\ IsFiniteSet(Sent(g, key))
  <2>1. IsFiniteSet(1 .. n) /\ IsFiniteSet(1 .. n + 1)
    BY <1>1, FS_Interval
  <2> HIDE DEF n, g
  <2> QED  BY <1>3, <2>1, FS_Subset
<1> HIDE DEF g
<1>5. \A i \in 1 .. n + 1 : g[i] = m <=> g[i].kind = "wakeup" /\ D!RepeatKey(g[i]) = D!RepeatKey(m)
  BY <1>2 DEF D!RepeatKey, D!Message
<1>6. {j \in 1 .. n + 1 : g[j] = g[n + 1]} = Sent(g, D!RepeatKey(m))
  BY <1>1, <1>5 DEF Sent
<1>7. Repeats(g, n + 1) <=> Cardinality(Sent(g, D!RepeatKey(m))) >= RepeatThreshold
  BY <1>1, <1>6 DEF Repeats
<1>8. ASSUME NEW key
      PROVE  Sent(g, key) = IF key = D!RepeatKey(m) THEN Sent(h, key) \cup {n + 1} ELSE Sent(h, key)
  BY <1>1 DEF Sent
<1>9. n + 1 \notin Sent(h, D!RepeatKey(m))
  BY <1>1, <1>3
<1> QED  BY <1>4, <1>7, <1>8, <1>9 DEF g

(* The pairs caught after one more message.                                *)
LEMMA CaughtGoesOn ==
  ASSUME NEW h \in Seq(D!Message), NEW m \in D!Message
  PROVE  LET g == Append(h, m)
             n == Len(h)
             now == Repeats(g, n + 1) \/ Volleys(g, n + 1)
         IN  {D!PairKey(g[i]) : i \in Caught(g)} =
               {D!PairKey(h[i]) : i \in Caught(h)} \cup (IF now THEN {D!PairKey(m)} ELSE {})
<1> DEFINE g == Append(h, m)
           n == Len(h)
           now == Repeats(g, n + 1) \/ Volleys(g, n + 1)
<1>1. /\ n \in Nat /\ Len(g) = n + 1 /\ g[n + 1] = m /\ \A i \in 1 .. n : g[i] = h[i]
      /\ \A i \in 1 .. n : Repeats(g, i) <=> Repeats(h, i)
  BY HistoryGoesOn
<1>2. \A i \in 1 .. n : Volleys(g, i) <=> Volleys(h, i)
  BY VolleysStand
<1> HIDE DEF g, n
<1>3. Caught(g) = Caught(h) \cup (IF now THEN {n + 1} ELSE {})
  BY <1>1, <1>2 DEF Caught, n
<1>4. Caught(h) \subseteq 1 .. n
  BY DEF Caught, n
<1>5. {D!PairKey(g[i]) : i \in Caught(g)} =
        {D!PairKey(h[i]) : i \in Caught(h)} \cup (IF now THEN {D!PairKey(m)} ELSE {})
  <2>1. \A i \in Caught(h) : g[i] = h[i]
    BY <1>1, <1>4
  <2> HIDE DEF now
  <2>2. CASE now
    BY <1>1, <1>3, <2>1, <2>2
  <2>3. CASE ~ now
    BY <1>3, <2>1, <2>3
  <2> QED  BY <2>2, <2>3
<1> QED  BY <1>5 DEF g, n

LEMMA DetectorSteps == DInv /\ [DetectorNext]_detectorVars => DInv'
<1> SUFFICES ASSUME DInv, [DetectorNext]_detectorVars PROVE DInv'
  OBVIOUS
<1>1. CASE UNCHANGED detectorVars
  <2>1. observed' = observed /\ detector' = detector
    BY <1>1 DEF detectorVars
  <2> QED  BY <2>1 DEF DInv
<1>2. CASE DetectorNext
  <2>1. PICK m \in D!Message : observed' = Append(observed, m) /\ detector' = D!Observe(detector, m)
    BY <1>2, DetectorsAssumption DEF DetectorNext
  <2> DEFINE h == observed
             g == Append(h, m)
             n == Len(h)
             d == detector
             o == D!Observe(d, m)
             key == D!RepeatKey(m)
             c == d.repeats[key] + 1
             vol == IF d.lastFrom = m.to /\ d.lastTo = m.from THEN d.volleys + 1 ELSE 1
             fires == vol >= MinVolleys /\ D!PairKey(m) \notin d.fired
             now == Repeats(g, n + 1) \/ Volleys(g, n + 1)
  <2>2. /\ h \in Seq(D!Message) /\ d \in Detectors /\ d.fired \subseteq d.downgraded
        /\ VolleysSound(h, d) /\ d.downgraded = {D!PairKey(h[i]) : i \in Caught(h)}
        /\ \A k \in Workers \X Workers \X Bodies : d.repeats[k] = Cardinality(Sent(h, k))
    BY DEF DInv
  <2>3. /\ n \in Nat /\ g \in Seq(D!Message) /\ Len(g) = n + 1 /\ g[n + 1] = m
        /\ \A i \in 1 .. n : g[i] = h[i]
        /\ \A k \in Nat \ {0}, i \in 0 .. n : Counted(g, k, i) = Counted(h, k, i)
    BY <2>2, HistoryGoesOn
  <2>4. /\ m.kind # "wakeup" => o = d
        /\ m.kind = "wakeup" => o.repeats = [d.repeats EXCEPT ![key] = c]
        /\ m.kind = "wakeup" /\ c >= RepeatThreshold =>
              /\ o.volleys = d.volleys /\ o.lastFrom = d.lastFrom /\ o.lastTo = d.lastTo
              /\ o.fired = d.fired /\ o.downgraded = d.downgraded \cup {D!PairKey(m)}
        /\ m.kind = "wakeup" /\ ~ (c >= RepeatThreshold) =>
              /\ o.volleys = vol /\ o.lastFrom = m.from /\ o.lastTo = m.to
              /\ o.fired = IF fires THEN d.fired \cup {D!PairKey(m)} ELSE d.fired
              /\ o.downgraded = IF fires THEN d.downgraded \cup {D!PairKey(m)} ELSE d.downgraded
        /\ o \in Detectors
    BY <2>2, ObserveDoes
  <2>5. {D!PairKey(g[i]) : i \in Caught(g)} =
           d.downgraded \cup (IF now THEN {D!PairKey(m)} ELSE {})
    BY <2>2, CaughtGoesOn
  <2>6. n + 1 \in 1 .. n + 1 /\ 1 \in 1 .. n + 1
    BY <2>3
  <2>7. Counted(g, 1, n + 1) = IF m.kind = "wakeup" /\ ~ Repeats(g, n + 1)
                               THEN Counted(h, 1, n) \cup {n + 1} ELSE Counted(h, 1, n)
    BY <2>2, <2>6, NextCounted
  <2>8. /\ m.kind # "wakeup" => ~ now
        /\ Repeats(g, n + 1) => ~ Volleys(g, n + 1) /\ m.kind = "wakeup"
    BY <2>3 DEF Repeats, Volleys, Counted
  <2>9. key \in Workers \X Workers \X Bodies
    BY DEF D!RepeatKey, D!Message
  <2>10. m.kind = "wakeup" =>
           /\ Cardinality(Sent(g, key)) = c
           /\ Repeats(g, n + 1) <=> c >= RepeatThreshold
           /\ \A k : k # key => Sent(g, k) = Sent(h, k)
    <3> SUFFICES ASSUME m.kind = "wakeup"
                 PROVE  /\ Cardinality(Sent(g, key)) = c
                        /\ Repeats(g, n + 1) <=> c >= RepeatThreshold
                        /\ \A k : k # key => Sent(g, k) = Sent(h, k)
      OBVIOUS
    <3>1. /\ IsFiniteSet(Sent(h, key)) /\ n + 1 \notin Sent(h, key)
          /\ Repeats(g, n + 1) <=> Cardinality(Sent(g, key)) >= RepeatThreshold
          /\ \A k : Sent(g, k) = IF k = key THEN Sent(h, k) \cup {n + 1} ELSE Sent(h, k)
      BY <2>2, RepeatIsCounted
    <3> HIDE DEF g, key, n, h
    <3>2. Cardinality(Sent(g, key)) = Cardinality(Sent(h, key)) + 1
      BY <3>1, FS_AddElement
    <3> QED  BY <2>2, <2>9, <3>1, <3>2
  <2>11. \A k \in Workers \X Workers \X Bodies : o.repeats[k] = Cardinality(Sent(g, k))
    <3>1. CASE m.kind # "wakeup"
      <4>1. \A k : Sent(g, k) = Sent(h, k)
        BY <2>3, <3>1 DEF Sent
      <4> HIDE DEF g, h, d, o
      <4> QED  BY <2>2, <2>4, <3>1, <4>1
    <3>2. CASE m.kind = "wakeup"
      <4>1. DOMAIN d.repeats = Workers \X Workers \X Bodies
        BY <2>2 DEF Detectors
      <4> HIDE DEF g, h, d, o, key, c
      <4> QED  BY <2>2, <2>4, <2>10, <3>2, <4>1
    <3> QED  BY <3>1, <3>2
  <2>12. ASSUME m.kind = "wakeup", ~ (c >= RepeatThreshold)
         PROVE  /\ n + 1 \in Counted(g, n + 1, n + 1)
                /\ \E k \in 1 .. n + 1 : /\ Alternate(g, Counted(g, k, n + 1))
                                         /\ Cardinality(Counted(g, k, n + 1)) = vol
                /\ \A k \in 1 .. n + 1 : Alternate(g, Counted(g, k, n + 1))
                                           => Cardinality(Counted(g, k, n + 1)) <= vol
    BY <2>2, <2>10, <2>12, VolleysGoOn
  <2>13. vol \in Nat /\ MinVolleys \in Nat
    BY <2>2, DetectorsAssumption DEF Detectors
  <2>14. m.kind = "wakeup" /\ ~ (c >= RepeatThreshold) => (Volleys(g, n + 1) <=> vol >= MinVolleys)
    <3> SUFFICES ASSUME m.kind = "wakeup", ~ (c >= RepeatThreshold)
                 PROVE  Volleys(g, n + 1) <=> vol >= MinVolleys
      OBVIOUS
    <3>1. \A k \in 1 .. n + 1 : Cardinality(Counted(g, k, n + 1)) \in Nat
      <4> SUFFICES ASSUME NEW k \in 1 .. n + 1 PROVE Cardinality(Counted(g, k, n + 1)) \in Nat
        OBVIOUS
      <4>1. k \in Nat /\ n + 1 \in Nat
        BY <2>3
      <4> HIDE DEF g, n
      <4> QED  BY <4>1, CountedBelow
    <3> HIDE DEF g, n, vol, c
    <3> QED  BY <2>12, <2>13, <3>1 DEF Volleys
  <2>15. VolleysSound(g, o)
    <3>1. CASE m.kind = "wakeup" /\ ~ (c >= RepeatThreshold)
      <4>1. n + 1 \in Counted(g, 1, n + 1) /\ \A j \in Counted(g, 1, n + 1) : j <= n + 1
        BY <2>3, <2>7, <2>10, <3>1 DEF Counted
      <4>2. o.volleys = vol /\ o.lastFrom = g[n + 1].from /\ o.lastTo = g[n + 1].to
        BY <2>3, <2>4, <3>1
      <4> HIDE DEF g, n, vol, o, c
      <4> QED  BY <2>3, <2>12, <3>1, <4>1, <4>2 DEF VolleysSound
    <3>2. CASE ~ (m.kind = "wakeup" /\ ~ (c >= RepeatThreshold))
      <4>1. Counted(g, 1, Len(g)) = Counted(h, 1, n)
        BY <2>3, <2>7, <2>10, <3>2
      <4>2. o.volleys = d.volleys /\ o.lastFrom = d.lastFrom /\ o.lastTo = d.lastTo
        BY <2>4, <3>2
      <4>3. Counted(h, 1, n) \subseteq 1 .. n
        BY DEF Counted
      <4>4. ASSUME NEW l \in Counted(h, 1, n)
            PROVE  /\ g[l] = h[l]
                   /\ \A k \in 1 .. l : /\ Counted(g, k, l) = Counted(h, k, l)
                                        /\ Alternate(g, Counted(h, k, l)) <=> Alternate(h, Counted(h, k, l))
        <5>1. l \in 1 .. n /\ l \in 0 .. n /\ \A k \in 1 .. l : k \in Nat \ {0}
          BY <2>3, <4>3
        <5>2. \A k \in 1 .. l : Counted(h, k, l) \in SUBSET (1 .. n)
          BY <2>3, <5>1 DEF Counted
        <5>3. \A Z \in SUBSET (1 .. n) : Alternate(g, Z) <=> Alternate(h, Z)
          BY <2>2, HistoryGoesOn
        <5> HIDE DEF g, n, h
        <5> QED  BY <2>3, <5>1, <5>2, <5>3
      <4>5. VolleysSound(h, d)
        BY <2>2
      <4> HIDE DEF g, o, d
      <4>6. CASE Counted(h, 1, n) = {}
        BY <4>1, <4>2, <4>5, <4>6 DEF VolleysSound
      <4>7. CASE Counted(h, 1, n) # {}
        <5>1. PICK l \in Counted(h, 1, n) :
                /\ \A j \in Counted(h, 1, n) : j <= l
                /\ d.lastFrom = h[l].from /\ d.lastTo = h[l].to
                /\ \E k \in 1 .. l : /\ Alternate(h, Counted(h, k, l))
                                     /\ Cardinality(Counted(h, k, l)) = d.volleys
                /\ \A k \in 1 .. l : Alternate(h, Counted(h, k, l))
                                       => Cardinality(Counted(h, k, l)) <= d.volleys
          BY <4>5, <4>7 DEF VolleysSound
        <5> HIDE DEF h, n
        <5>2. /\ \A j \in Counted(g, 1, Len(g)) : j <= l
              /\ o.lastFrom = g[l].from /\ o.lastTo = g[l].to
              /\ \E k \in 1 .. l : /\ Alternate(g, Counted(g, k, l))
                                   /\ Cardinality(Counted(g, k, l)) = o.volleys
              /\ \A k \in 1 .. l : Alternate(g, Counted(g, k, l))
                                     => Cardinality(Counted(g, k, l)) <= o.volleys
          BY <4>1, <4>2, <4>4, <5>1
        <5> QED  BY <4>1, <5>1, <5>2 DEF VolleysSound
      <4> QED  BY <4>6, <4>7
    <3> QED  BY <3>1, <3>2
  <2>16. o.fired \subseteq o.downgraded
    BY <2>2, <2>4
  <2>17. o.downgraded = d.downgraded \cup (IF now THEN {D!PairKey(m)} ELSE {})
    <3>1. CASE m.kind # "wakeup"
      BY <2>4, <2>8, <3>1
    <3>2. CASE m.kind = "wakeup" /\ c >= RepeatThreshold
      BY <2>4, <2>10, <3>2
    <3>3. CASE m.kind = "wakeup" /\ ~ (c >= RepeatThreshold)
      <4>1. now <=> vol >= MinVolleys
        BY <2>10, <2>14, <3>3
      <4>2. D!PairKey(m) \in d.fired => D!PairKey(m) \in d.downgraded
        BY <2>2
      <4> HIDE DEF now, vol, o, d, c
      <4> QED  BY <2>4, <3>3, <4>1, <4>2
    <3> QED  BY <3>1, <3>2, <3>3
  <2>18. observed' = g /\ detector' = o
    BY <2>1
  <2>19. o.downgraded = {D!PairKey(g[i]) : i \in Caught(g)}
    BY <2>5, <2>17
  <2> HIDE DEF g, o
  <2>20. /\ g \in Seq(D!Message) /\ o \in Detectors /\ VolleysSound(g, o)
        /\ \A k \in Workers \X Workers \X Bodies : o.repeats[k] = Cardinality(Sent(g, k))
    BY <2>3, <2>4, <2>11, <2>15
  <2> QED  BY <2>16, <2>18, <2>19, <2>20 DEF DInv
<1> QED  BY <1>1, <1>2

LEMMA DInvPromises == DInv => DowngradedForCause
<1> SUFFICES ASSUME DInv PROVE DowngradedForCause
  OBVIOUS
<1>1. DOMAIN observed = 1 .. Len(observed)
  BY LenProperties DEF DInv
<1>2. {k \in DOMAIN observed : Repeats(observed, k) \/ Volleys(observed, k)} = Caught(observed)
  BY <1>1 DEF Caught
<1> QED  BY <1>2 DEF DInv, DowngradedForCause

-----------------------------------------------------------------------------
(***************************************************************************)
(* Attempts: each component keeps its invariant while another works.       *)
(***************************************************************************)

AInv == TInv /\ NodeStands /\ EInv /\ JInv /\ SInv /\ WInv /\ XInv /\ DInv

\* What the steps keep of a state before them.
StepPromise ==
  /\ [EntriesStand]_(E!vars) /\ [AnswersWhole]_(E!vars)
  /\ [FirstVerdicts]_(J!vars) /\ [Releases]_(W!vars)

\* A component takes a step or stands still.
StepOrStill ==
  [T!Next]_(T!vars) /\ [E!Next]_(E!vars) /\ [J!Next]_(J!vars)
    /\ [S!Next]_(S!vars) /\ [W!Next]_(W!vars) /\ [X!Next]_(X!vars)
    /\ [DetectorNext]_detectorVars

LEMMA StillVars ==
  /\ UNCHANGED tournamentVars => UNCHANGED T!vars
  /\ UNCHANGED historyVars => UNCHANGED E!vars
  /\ UNCHANGED jobVars => UNCHANGED J!vars
  /\ UNCHANGED sharedVars => UNCHANGED S!vars
  /\ UNCHANGED turnVars => UNCHANGED W!vars
  /\ UNCHANGED execVars => UNCHANGED X!vars
<1>1. /\ UNCHANGED tournamentVars => UNCHANGED T!vars
      /\ UNCHANGED historyVars => UNCHANGED E!vars
  BY DEF tournamentVars, T!vars, historyVars, E!vars
<1>2. /\ UNCHANGED jobVars => UNCHANGED J!vars
      /\ UNCHANGED sharedVars => UNCHANGED S!vars
  BY DEF jobVars, J!vars, sharedVars, S!vars
<1>3. UNCHANGED turnVars => UNCHANGED W!vars
  BY DEF turnVars, W!vars, W!watchVars, W!turnVars, W!ownVars, W!runVars, W!childVars
<1>4. UNCHANGED execVars => UNCHANGED X!vars
  BY DEF execVars, X!vars, X!runVars, X!boxVars, X!signalVars
<1> QED  BY <1>1, <1>2, <1>3, <1>4

LEMMA NextIsOfOne == [Next]_vars => StepOrStill
<1> SUFFICES ASSUME [Next]_vars PROVE StepOrStill  OBVIOUS
<1>1. CASE UNCHANGED vars
  BY <1>1, StillVars DEF vars, StepOrStill
<1>2. CASE Next
  BY <1>2, StillVars DEF Next, StepOrStill
<1> QED  BY <1>1, <1>2

LEMMA NextAInv == AInv /\ [Next]_vars => AInv' /\ StepPromise
<1> SUFFICES ASSUME AInv, [Next]_vars PROVE AInv' /\ StepPromise  OBVIOUS
<1>0. StepOrStill
  BY NextIsOfOne
<1>1. TInv' /\ NodeStands' /\ EInv'
  BY <1>0, NextTInv, NextStands, NextEInv DEF AInv, StepOrStill
<1>2. JInv' /\ [FirstVerdicts]_(J!vars)
  BY <1>0, StepJInv DEF AInv, StepOrStill
<1>3. SInv' /\ WInv' /\ XInv' /\ DInv'
  BY <1>0, NextSInv, NextWInv, NextXInv, DetectorSteps DEF AInv, StepOrStill
<1>4. [EntriesStand]_(E!vars) /\ [AnswersWhole]_(E!vars)
  BY <1>0, StepEntriesStand, AnswersAreWhole DEF AInv, StepOrStill
<1>5. [Releases]_(W!vars)
  BY <1>0, StepReleases DEF AInv, StepOrStill
<1> QED  BY <1>1, <1>2, <1>3, <1>4, <1>5 DEF AInv, StepPromise

LEMMA AInvAlways ==
  Spec => /\ []AInv
          /\ [][EntriesStand]_(E!vars) /\ [][AnswersWhole]_(E!vars)
          /\ [][FirstVerdicts]_(J!vars) /\ [][Releases]_(W!vars)
<1>1. Init => AInv
  BY InitTInv, InitStands, InitEInv, InitJInv, InitSInv, InitWInv, InitXInv, DetectorStarts DEF Init, Starts, AInv
<1>2. AInv /\ [Next]_vars => /\ AInv' /\ [EntriesStand]_(E!vars) /\ [AnswersWhole]_(E!vars)
                             /\ [FirstVerdicts]_(J!vars) /\ [Releases]_(W!vars)
  BY NextAInv DEF StepPromise
<1> QED  BY <1>1, <1>2, PTL DEF Spec

(***************************************************************************)
(* The repair fence stands exactly while the tournament it was raised for  *)
(* runs, whatever other nodes do and however tournaments end; a family     *)
(* that is promoted passed both verifications and beat the control and     *)
(* every other verified mutant; and a node is not re-planned under its     *)
(* tournament, nor once its winner was promoted.                           *)
(***************************************************************************)
THEOREM TournamentsAreAlwaysFair == Spec => []TournamentsAreFair
<1>1. AInv => TournamentsAreFair
  BY TInvPromises DEF AInv, TournamentsAreFair
<1> QED  BY <1>1, AInvAlways, PTL

(***************************************************************************)
(* An entry marked delivered has its records in the chain, no record is    *)
(* there twice and the manifest is never ahead, across failed appends,     *)
(* stale saves and crashes; and an index that prunes does so for sound,    *)
(* rejected trials that the chain records.                                 *)
(***************************************************************************)
THEOREM HistoryIsAlwaysSound == Spec => []HistoryIsSound
<1>1. AInv => HistoryIsSound
  BY EInvPromises DEF AInv, HistoryIsSound
<1> QED  BY <1>1, AInvAlways, PTL

(***************************************************************************)
(* No entry is lost or delivered anew, and an answered query has every     *)
(* record that was due when it was asked for.                              *)
(***************************************************************************)
THEOREM HistoryIsAlwaysWhole == Spec => HistoryIsWhole
<1>1. E!EntriesStay <=> [][EntriesStand]_(E!vars)
  BY DEF E!EntriesStay, EntriesStand
<1>2. E!AnswerIsWhole <=> [][AnswersWhole]_(E!vars)
  BY DEF E!AnswerIsWhole, AnswersWhole
<1> QED  BY <1>1, <1>2, AInvAlways, PTL DEF HistoryIsWhole

(***************************************************************************)
(* The verdict on a job is its first, whichever of its exit, its timeout,  *)
(* a cancellation and the server's end comes first and whatever of them    *)
(* comes after, for any number of jobs and waiting calls.                  *)
(***************************************************************************)
THEOREM JobsAlwaysEndOnce == Spec => JobsEndOnce
<1>1. J!VerdictStays <=> [][FirstVerdicts]_(J!vars)
  BY DEF J!VerdictStays, FirstVerdicts
<1> QED  BY <1>1, AInvAlways, PTL DEF JobsEndOnce

(***************************************************************************)
(* Each shared file whose lock was never taken from a living server has    *)
(* every call that was answered ok, once, and counts them, for any number  *)
(* of servers and calls, wherever servers die and however often a stale    *)
(* lock is removed.                                                        *)
(***************************************************************************)
THEOREM UpdatesAreAlwaysKept == Spec => []UpdatesAreKept
<1>1. AInv => UpdatesAreKept
  BY SInvPromises DEF AInv, UpdatesAreKept
<1> QED  BY <1>1, AInvAlways, PTL

(***************************************************************************)
(* Every extension of a watched worker's deadline rests on a checkpoint of *)
(* its own that shows progress: whatever the worker emits, in whatever     *)
(* order with ticks, captures, stops, faults and the end of the run, for   *)
(* any limits.  A worker that no monitor watches is extended for the       *)
(* asking.                                                                 *)
(***************************************************************************)
THEOREM LeaseIsAlwaysEarned == Spec => []LeaseIsEarned
<1>1. AInv => LeaseIsEarned
  BY WInvPromises DEF AInv, LeaseIsEarned
<1> QED  BY <1>1, AInvAlways, PTL

(***************************************************************************)
(* A runtime leaves the map of the cancellation with its child gone or not *)
(* yet there, whoever closes it and whatever fails; and a cancel of the    *)
(* exec backend that answers true has seen process and container gone, for *)
(* any number of cancels and failures.                                     *)
(***************************************************************************)
THEOREM GoneAlwaysWhenSaid == Spec => GoneWhenSaid
<1>1. AInv => X!CancelProves
  BY XInvPromises DEF AInv
<1>2. W!ReleasedWhenGone <=> [][Releases]_(W!vars)
  BY DEF W!ReleasedWhenGone, Releases
<1> QED  BY <1>1, <1>2, AInvAlways, PTL DEF GoneWhenSaid

(***************************************************************************)
(* The pairs that are downgraded are exactly those of which a wakeup came  *)
(* for the RepeatThreshold-th time, or ended MinVolleys wakeups that       *)
(* alternate: for any history of messages of any workers, and whatever     *)
(* thresholds (anomaly-detector.ts).                                       *)
(***************************************************************************)
THEOREM DowngradesHaveCause == Spec => []DowngradedForCause
<1>1. AInv => DowngradedForCause
  BY DInvPromises DEF AInv
<1> QED  BY <1>1, AInvAlways, PTL
=============================================================================
