-------------------------- MODULE AnomalyDetector --------------------------
(***************************************************************************)
(* coordination/anomaly-detector.ts: the loop detector of a team.  It is   *)
(* pure data: `Observe` takes the detector's record and one message and    *)
(* returns the detector's record afterwards.                               *)
(***************************************************************************)
EXTENDS Naturals

CONSTANTS
    Workers,            \* run ids of the team's members
    Bodies,             \* contents, up to the trim + sha1 of the repeat key
    MinVolleys,         \* options.minVolleys (6 by default)
    RepeatThreshold,    \* options.repeatThreshold (3)
    NoOne               \* the `null` of lastFrom and lastTo

ASSUME DetectorAssumption ==
    /\ MinVolleys \in Nat \ {0}
    /\ RepeatThreshold \in Nat \ {0}
    /\ NoOne \notin Workers

Kinds == {"quiet", "talk", "wakeup"}

Message == [from : Workers, to : Workers, kind : Kinds, body : Bodies]

(* A <-> B is one relationship, not two. *)
PairKey(m) == {m.from, m.to}

NewDetector ==
    [lastFrom   |-> NoOne,
     lastTo     |-> NoOne,
     volleys    |-> 0,
     fired      |-> {},
     downgraded |-> {},
     repeats    |-> [k \in Workers \X Workers \X Bodies |-> 0]]

RepeatKey(m) == <<m.from, m.to, m.body>>

(* The same wakeup once more; at the threshold the pair is downgraded and the
   volley bookkeeping is skipped. *)
CountRepeat(d, m) == [d EXCEPT !.repeats[RepeatKey(m)] = @ + 1]

CountVolleyNoReset(d, m) ==
    LET reversed == d.lastFrom = m.to /\ d.lastTo = m.from
    IN  [d EXCEPT !.volleys = IF reversed THEN @ + 1 ELSE @,
                  !.lastFrom = m.from, !.lastTo = m.to]

(* A volley is a strict reversal of the previous message's direction. *)
CountVolley(d, m) ==
    LET reversed == d.lastFrom = m.to /\ d.lastTo = m.from
    IN  [d EXCEPT !.volleys = IF reversed THEN @ + 1 ELSE 1,
                  !.lastFrom = m.from, !.lastTo = m.to]

Downgrade(d, m) == [d EXCEPT !.downgraded = @ \cup {PairKey(m)}]

Fire(d, m) == [Downgrade(d, m) EXCEPT !.fired = @ \cup {PairKey(m)}]

IsPingPong(d, m) == d.volleys >= MinVolleys /\ PairKey(m) \notin d.fired

Observe(d, m) ==
    LET r == CountRepeat(d, m)
        v == CountVolley(r, m)
    IN  IF m.kind # "wakeup" THEN d
        ELSE IF r.repeats[RepeatKey(m)] >= RepeatThreshold THEN Downgrade(r, m)
        ELSE IF IsPingPong(v, m) THEN Fire(v, m)
        ELSE v

ShouldDowngrade(d, m) == PairKey(m) \in d.downgraded

=============================================================================
