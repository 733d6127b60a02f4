---------------------------- MODULE ModelBudget ----------------------------
(***************************************************************************)
(* One run's model calls: the terminal latch of run-control.ts, the        *)
(* synchronous ledger of workers/budget.ts, and the two kinds of callers   *)
(* that go through them - workers' calls, forwarded by model-proxy.ts, and *)
(* the leader's own, made by leader/ark-client.ts - with the one retry     *)
(* after a 429 that leader/rate-limit.ts grants.                           *)
(*                                                                         *)
(* A process is one call.  Everything between two awaits is one action, so *)
(* a check of the ledger and the reservation it leads to cannot be split;  *)
(* what interleaves is the waiting for request bodies, answers, streams    *)
(* and retry delays, the deadline's timer, and cancellation.               *)
(***************************************************************************)
EXTENDS Integers, FiniteSets, Functions

CONSTANTS Calls,      \* the model calls of one run
          Proxied,    \* those that a worker makes through the proxy
          Workers,    \* the scopes of the workers; the run's own is "root"
          ScopeOf,    \* the scope a call is charged to, besides the root
          Estimate,   \* a call's estimated input with SAFETY_TOKENS
          CallCap,    \* CALL_MAX_OUTPUT_TOKENS
          CallFuse, TokenFuse,  \* the emergency fuses, or NoLimit
          Threshold,  \* of a scope, for a level and a metric, or NoLimit
          Usages,     \* the usages a provider may report
          NoLimit

Scopes  == Workers \cup {"root"}
Levels  == {"advisory", "severe"}
Metrics == {"tokens", "calls"}
Keys    == Levels \X Metrics

ASSUME BudgetAssumption ==
  /\ IsFiniteSet(Calls)
  /\ Proxied \subseteq Calls
  /\ "root" \notin Workers
  /\ ScopeOf \in [Calls -> Scopes]
  /\ Estimate \in [Calls -> Nat \ {0}]
  /\ CallCap \in Nat
  /\ NoLimit \notin Nat
  /\ CallFuse \in Nat \cup {NoLimit}
  /\ TokenFuse \in Nat \cup {NoLimit}
  /\ Threshold \in [Scopes -> [Keys -> (Nat \ {0}) \cup {NoLimit}]]
  /\ Usages \subseteq Nat \ {0}

(***************************************************************************)
(* Where a call may be.  "limited" is reading the body of a 429; "orphan"  *)
(* is an exchange of the leader whose caller has been told of a stop or a  *)
(* timeout already, and which still comes to its verdict on a 429.         *)
(***************************************************************************)
Places == {"idle", "body", "fetch", "stream", "limited", "delaying", "orphan", "ended"}
InFlight == {"fetch", "stream", "limited"}

Reasons  == {"root_deadline", "provider_rate_limited", "emergency_token_fuse",
             "emergency_model_call_fuse", "user_cancelled"}
Priority == [none |-> 0, root_deadline |-> 1, provider_rate_limited |-> 2,
             emergency_token_fuse |-> 3, emergency_model_call_fuse |-> 3,
             user_cancelled |-> 4]

VARIABLES
  terminal,     \* the latch: a reason, or "none"
  elapsed,      \* the clock has passed the deadline
  armed,        \* the deadline's timer is set
  calls, committed, outstanding,  \* a scope's counters
  emitted,      \* the notices a scope has given
  peak,         \* the run's warning level
  at, attempt,  \* where a call is; which attempt it is on
  held,         \* the tokens its reservation holds, 0 when it has none
  usage,        \* the usage its answer has reported so far, 0 for none
  spent,        \* history: the usage of this call that was committed
  overrun       \* history: committed usage beyond what had been reserved

latch  == <<terminal, elapsed, armed>>
ledger == <<calls, committed, outstanding, emitted, peak>>
vars   == <<latch, ledger, at, attempt, held, usage, spent, overrun>>

Init ==
  /\ terminal = "none" /\ elapsed = FALSE /\ armed = FALSE
  /\ calls = [s \in Scopes |-> 0]
  /\ committed = [s \in Scopes |-> 0]
  /\ outstanding = [s \in Scopes |-> 0]
  /\ emitted = [s \in Scopes |-> {}]
  /\ peak = "none"
  /\ at = [c \in Calls |-> "idle"]
  /\ attempt = [c \in Calls |-> 1]
  /\ held = [c \in Calls |-> 0]
  /\ usage = [c \in Calls |-> 0]
  /\ spent = [c \in Calls |-> 0]
  /\ overrun = 0

---------------------------------------------------------------------------
(* The latch *)

\* What the latch holds after stop(reason): a stop counts only with a priority
\* above the current one.
Stopped(reason) == IF Priority[reason] > Priority[terminal] THEN reason ELSE terminal

\* stop(): also clears the timer, unless nothing was latched.
Stop(reason) ==
  /\ terminal' = Stopped(reason)
  /\ armed' = (armed /\ terminal' = terminal)
  /\ UNCHANGED elapsed

\* assertActive() throws; it latches a deadline it finds elapsed.
Inactive == terminal # "none" \/ elapsed
Latch    == IF elapsed THEN Stop("root_deadline") ELSE UNCHANGED latch

---------------------------------------------------------------------------
(* The ledger *)

Charged(c) == {"root", ScopeOf[c]}
Excess(a, b) == IF a > b THEN a - b ELSE 0

\* safeMaxOutputTokens() and the tokens that reserve() then asks for.
MaxOutput(c) ==
  IF TokenFuse = NoLimit THEN CallCap
  ELSE LET left == Excess(TokenFuse, committed["root"] + outstanding["root"] + Estimate[c])
       IN  IF left < CallCap THEN left ELSE CallCap
Requested(c) == Estimate[c] + MaxOutput(c)

\* The bug of an off-by-one: the fuse blows one call late.
CallFusePassed == CallFuse # NoLimit /\ calls["root"] > CallFuse
CallFuseBlown  == CallFuse # NoLimit /\ calls["root"] >= CallFuse
TokenFuseBlown(c) ==
  /\ TokenFuse # NoLimit
  /\ committed["root"] + outstanding["root"] + Requested(c) > TokenFuse

\* The thresholds a scope is at or above, and what collectNotices() does of it.
Observed(s, metric) ==
  IF metric = "calls" THEN calls[s] ELSE committed[s] + outstanding[s]
Crossed(s) ==
  {k \in Keys : Threshold[s][k] # NoLimit /\ Observed(s, k[2]) >= Threshold[s][k]}
\* The bug of a warning that follows the usage down again.
NotifyUnsticky(c) ==
  /\ emitted' = [s \in Scopes |->
                   IF s \in Charged(c) THEN emitted[s] \cup Crossed(s)' ELSE emitted[s]]
  /\ peak' = IF \E k \in Crossed("root")' : k[1] = "severe" THEN "severe"
             ELSE IF Crossed("root")' # {} THEN "advisory"
             ELSE "none"
Notify(c) ==
  /\ emitted' = [s \in Scopes |->
                   IF s \in Charged(c) THEN emitted[s] \cup Crossed(s)' ELSE emitted[s]]
  /\ peak' = IF \E k \in Crossed("root")' : k[1] = "severe" THEN "severe"
             ELSE IF Crossed("root")' # {} /\ peak = "none" THEN "advisory"
             ELSE peak

\* reserve(), past its checks.
Reserve(c) ==
  /\ calls' = [s \in Scopes |-> calls[s] + (IF s \in Charged(c) THEN 1 ELSE 0)]
  /\ outstanding' = [s \in Scopes |->
                       outstanding[s] + (IF s \in Charged(c) THEN Requested(c) ELSE 0)]
  /\ held' = [held EXCEPT ![c] = Requested(c)]
  /\ UNCHANGED <<committed, spent, overrun>>
  /\ Notify(c)

\* The bug of a reservation that stays on the worker's scope.
LetGoOfRoot(c) ==
  /\ outstanding' = [outstanding EXCEPT !["root"] = Excess(@, held[c])]
  /\ held' = [held EXCEPT ![c] = 0]

\* The reservation goes, from every scope that carries it.
LetGo(c) ==
  /\ outstanding' = [s \in Scopes |->
                       IF s \in Charged(c) THEN Excess(outstanding[s], held[c]) ELSE outstanding[s]]
  /\ held' = [held EXCEPT ![c] = 0]

\* release()
Release(c) ==
  /\ LetGo(c)
  /\ UNCHANGED <<calls, committed, emitted, peak, spent, overrun>>

\* reconcile() with usage u
Reconcile(c, u) ==
  /\ LetGo(c)
  /\ committed' = [s \in Scopes |-> committed[s] + (IF s \in Charged(c) THEN u ELSE 0)]
  /\ UNCHANGED calls
  /\ Notify(c)
  /\ spent' = [spent EXCEPT ![c] = @ + u]
  /\ overrun' = overrun + Excess(u, held[c])

\* settle() of the proxy and settleBudget() of the client.
Settle(c, u) == IF u = 0 THEN Release(c) ELSE Reconcile(c, u)

---------------------------------------------------------------------------
(* The calls *)

GoTo(c, place) == at' = [at EXCEPT ![c] = place]

\* A worker's request passes handle()'s checks; its body is still to be read.
Arrive(c) ==
  /\ c \in Proxied /\ at[c] = "idle"
  /\ GoTo(c, IF Inactive THEN "ended" ELSE "body")
  /\ Latch
  /\ UNCHANGED <<ledger, attempt, held, usage, spent, overrun>>

\* The body is too large, or its client goes away.
Discard(c) ==
  /\ at[c] = "body"
  /\ GoTo(c, "ended")
  /\ UNCHANGED <<latch, ledger, attempt, held, usage, spent, overrun>>

\* Where admit() is about to be called: after the request's body, at once for
\* the leader, or after the delay before a second attempt.
AtAdmission(c) ==
  \/ at[c] \in {"body", "delaying"}
  \/ at[c] = "idle" /\ c \notin Proxied
NextAttempt(c) ==
  attempt' = [attempt EXCEPT ![c] = IF at[c] = "delaying" THEN 2 ELSE @]

\* reserve() refuses: the run is over, or this request would blow a fuse.
Refuse(c) ==
  /\ AtAdmission(c)
  /\ \/ Inactive /\ Latch
     \/ ~Inactive /\ CallFuseBlown /\ Stop("emergency_model_call_fuse")
     \/ ~Inactive /\ ~CallFuseBlown /\ TokenFuseBlown(c) /\ Stop("emergency_token_fuse")
  /\ NextAttempt(c)
  /\ GoTo(c, "ended")
  /\ UNCHANGED <<ledger, held, usage, spent, overrun>>

\* The bug of a retry that trusts the check of the first attempt.
AdmitRetryUnchecked(c) ==
  /\ AtAdmission(c)
  /\ Inactive => at[c] = "delaying"
  /\ ~CallFuseBlown /\ ~TokenFuseBlown(c)
  /\ Reserve(c)
  /\ NextAttempt(c)
  /\ GoTo(c, "fetch")
  /\ armed' = TRUE
  /\ UNCHANGED <<terminal, elapsed, usage>>

\* reserve() admits: the request leaves, raced against the latch, and the
\* first race arms the deadline's timer.
Admit(c) ==
  /\ AtAdmission(c)
  /\ ~Inactive /\ ~CallFuseBlown /\ ~TokenFuseBlown(c)
  /\ Reserve(c)
  /\ NextAttempt(c)
  /\ GoTo(c, "fetch")
  /\ armed' = TRUE
  /\ UNCHANGED <<terminal, elapsed, usage>>

\* The provider answers: with a 429, or with anything else, whose body a
\* worker's call starts to relay under a race of its own for every chunk.
Answer(c) ==
  /\ at[c] = "fetch" /\ terminal = "none"
  /\ \/ GoTo(c, "limited") /\ UNCHANGED latch
     \/ GoTo(c, "stream") /\ IF c \in Proxied THEN Latch ELSE UNCHANGED latch
  /\ UNCHANGED <<ledger, attempt, held, usage, spent, overrun>>

\* A chunk of the body carries the usage (once: in its final event).
Report(c) ==
  /\ at[c] = "stream" /\ terminal = "none" /\ usage[c] = 0
  /\ \E u \in Usages : usage' = [usage EXCEPT ![c] = u]
  /\ IF c \in Proxied THEN Latch ELSE UNCHANGED latch
  /\ UNCHANGED <<ledger, at, attempt, held, spent, overrun>>

\* The body ends.
Finish(c) ==
  /\ at[c] = "stream" /\ terminal = "none"
  /\ Settle(c, usage[c])
  /\ GoTo(c, "ended")
  /\ UNCHANGED <<latch, attempt, usage>>

\* The connection breaks, or the leader's own timeout aborts it.  The proxy
\* forgets what a broken stream had reported, the leader's client does not.
Fail(c) ==
  /\ at[c] \in {"fetch", "stream"} /\ terminal = "none"
  /\ Settle(c, IF c \in Proxied THEN 0 ELSE usage[c])
  /\ GoTo(c, "ended")
  /\ UNCHANGED <<latch, attempt, usage>>

\* The same under the leader's reading of a 429: aborted by the timeout, the
\* exchange goes on with the part of the body it has.
FailLimited(c) ==
  /\ at[c] = "limited" /\ c \notin Proxied /\ terminal = "none"
  /\ \E u \in Usages \cup {0} : Settle(c, u)
  /\ \/ GoTo(c, "ended")
     \/ GoTo(c, "orphan")
  /\ UNCHANGED <<latch, attempt, usage>>

\* rateLimitDecision() grants one retry, to a 429 without usage (and with a
\* header short enough, which the model leaves open).  A worker's call comes
\* here even after a stop: the reading of this body is not raced.
Retry(c) ==
  /\ at[c] = "limited" /\ (c \in Proxied \/ terminal = "none")
  /\ attempt[c] = 1
  /\ Release(c)
  /\ GoTo(c, "delaying")
  /\ UNCHANGED <<latch, attempt, usage>>

\* ... or none: the run is over.
GiveUp(c) ==
  /\ at[c] = "limited" /\ (c \in Proxied \/ terminal = "none")
  /\ \E u \in Usages \cup {0} : Settle(c, u)
  /\ Stop("provider_rate_limited")
  /\ GoTo(c, "ended")
  /\ UNCHANGED <<attempt, usage>>

\* The bug of an early return that skips the release ...
CutOffUnsettled(c) ==
  /\ terminal # "none"
  /\ at[c] \in InFlight /\ (at[c] = "limited" => c \notin Proxied)
  /\ GoTo(c, IF at[c] = "limited" THEN "orphan" ELSE "ended")
  /\ UNCHANGED <<latch, ledger, attempt, held, usage, spent, overrun>>

\* ... and of a stream that is read without a race.
CutOffFetchOnly(c) ==
  /\ terminal # "none"
  /\ \/ at[c] = "fetch" /\ Settle(c, 0) /\ GoTo(c, "ended")
     \/ /\ at[c] = "limited" /\ c \notin Proxied
        /\ \E u \in Usages \cup {0} : Settle(c, u)
        /\ GoTo(c, "orphan")
  /\ UNCHANGED <<latch, attempt, usage>>

\* The latch ends a race.  A stream keeps the usage it has reported; the
\* leader's reading of a 429 goes on without a caller.
CutOff(c) ==
  /\ terminal # "none"
  /\ \/ /\ at[c] \in {"fetch", "stream"}
        /\ Settle(c, usage[c])
        /\ GoTo(c, "ended")
     \/ /\ at[c] = "limited" /\ c \notin Proxied
        /\ \E u \in Usages \cup {0} : Settle(c, u)
        /\ GoTo(c, "orphan")
  /\ UNCHANGED <<latch, attempt, usage>>

\* Such an exchange comes to its verdict, with nobody listening but the latch.
OrphanEnds(c) ==
  /\ at[c] = "orphan"
  /\ GoTo(c, "ended")
  /\ \/ Stop("provider_rate_limited")
     \/ attempt[c] = 1 /\ UNCHANGED latch
  /\ UNCHANGED <<ledger, attempt, held, usage, spent, overrun>>

---------------------------------------------------------------------------
(* The clock and the user *)

Elapse ==
  /\ ~elapsed /\ elapsed' = TRUE
  /\ UNCHANGED <<terminal, armed, ledger, at, attempt, held, usage, spent, overrun>>

\* The timer that armDeadline() set.
Timer ==
  /\ elapsed /\ armed
  /\ Stop("root_deadline")
  /\ UNCHANGED <<ledger, at, attempt, held, usage, spent, overrun>>

Cancel ==
  /\ terminal # "user_cancelled"
  /\ Stop("user_cancelled")
  /\ UNCHANGED <<ledger, at, attempt, held, usage, spent, overrun>>

Step(c) ==
  \/ Arrive(c) \/ Discard(c) \/ Refuse(c) \/ Admit(c) \/ Answer(c) \/ Report(c)
  \/ Finish(c) \/ Fail(c) \/ FailLimited(c) \/ Retry(c) \/ GiveUp(c) \/ CutOff(c)
  \/ OrphanEnds(c)

Next == Elapse \/ Timer \/ Cancel \/ \E c \in Calls : Step(c)

\* The machine owes its timers and what follows a stop; it owes no answer of
\* the provider, no request and no cancellation.
Fairness ==
  /\ WF_vars(Timer)
  /\ \A c \in Calls : WF_vars(CutOff(c))
  /\ \A c \in Calls : WF_vars(at[c] = "delaying" /\ (Refuse(c) \/ Admit(c)))

Spec == Init /\ [][Next]_vars /\ Fairness

---------------------------------------------------------------------------
(* What the budget promises *)

\* The variables have their types, and a call in flight is the one that holds
\* tokens.
TypeOK ==
  /\ terminal \in Reasons \cup {"none"}
  /\ elapsed \in BOOLEAN /\ armed \in BOOLEAN
  /\ calls \in [Scopes -> Nat]
  /\ committed \in [Scopes -> Nat]
  /\ outstanding \in [Scopes -> Nat]
  /\ emitted \in [Scopes -> SUBSET Keys]
  /\ peak \in Levels \cup {"none"}
  /\ at \in [Calls -> Places]
  /\ attempt \in [Calls -> {1, 2}]
  /\ held \in [Calls -> Nat]
  /\ \A c \in Calls : (held[c] > 0) <=> (at[c] \in InFlight)
  /\ usage \in [Calls -> Usages \cup {0}]
  /\ spent \in [Calls -> Nat]
  /\ overrun \in Nat

SumOf(f, S) == FoldFunctionOnSet(+, 0, f, S)
ChargedTo(s) == {c \in Calls : s \in Charged(c)}

\* budget.ts:108-113, 142-152, 267-270: each scope's counters are those of its
\* own calls - the tokens in flight are what is reserved, the committed ones
\* what was settled - through refusals, retries, broken streams and stops that
\* overlap; the floor at zero never hides a difference.
LedgerAddsUp ==
  \A s \in Scopes :
    /\ outstanding[s] = SumOf(held, ChargedTo(s))
    /\ committed[s] = SumOf(spent, ChargedTo(s))

\* budget.ts:91-106: calls that overlap never pass a fuse together. Tokens
\* exceed theirs by no more than providers used beyond their reservations.
CallFuseHolds == CallFuse # NoLimit => calls["root"] <= CallFuse
FuseHolds ==
  /\ CallFuseHolds
  /\ TokenFuse # NoLimit =>
       committed["root"] + outstanding["root"] <= TokenFuse + overrun

\* run-control.ts:41-44, README.md:178: once the run is stopped, or its
\* deadline has passed, no call goes out: no first attempt of a request that
\* was checked before, and no second attempt after a delay.
NothingAdmittedAfterStop ==
  [][Inactive => /\ calls' = calls
                 /\ \A c \in Calls : at'[c] = "fetch" => at[c] = "fetch"]_vars

\* budget.ts:222-259: no crossing is missed - a scope at or above a threshold
\* has given that notice - and the run's warning is the highest level its
\* notices ever had, also when usage has fallen since.
CrossingsAreNoticed ==
  /\ \A s \in Scopes : Crossed(s) \subseteq emitted[s]
  /\ peak = "severe" <=> \E k \in emitted["root"] : k[1] = "severe"
  /\ peak = "none" <=> emitted["root"] = {}

\* run-control.ts:105-144: when the deadline passes or the run is stopped,
\* every call that waits is let go, whatever the provider does - but for a
\* worker's call that reads the body of a 429, which nothing races.
AtRest(c) == at[c] \in {"idle", "body", "orphan", "ended"} \/ (c \in Proxied /\ at[c] = "limited")
StoppedCallsEnd == Inactive ~> \A c \in Calls : AtRest(c)
=============================================================================
