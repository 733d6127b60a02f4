--------------------------- MODULE RunPreparation ---------------------------
(* The preparation of a run's project: the run's directory is reserved, its   *)
(* source is checked and its branch and checkout are made; what fails is      *)
(* taken back, what succeeds is recorded with the run and then acknowledged,  *)
(* and what cannot be recorded is aborted.                                    *)
(*   project-run-manager.ts (ProjectRunManager), AgentService.preflightProject *)
(*                                                                            *)
(* Directories, branches and checkouts are reduced to the caller that made    *)
(* them.  A dirty or changing source is a refusal at the step that looks.     *)
EXTENDS Integers, FiniteSets

CONSTANTS
  Callers,     \* preparations, one per call of prepare()
  Ids,         \* run ids
  IdOf,        \* the run id of a caller
  ModeOf,      \* "existing_repository", "new_project" or "ephemeral_research"
  NoCaller,
  PrepFaults,  \* failing calls
  PrepCrashes  \* crashes of the server

VARIABLES
  claim,     \* preparedRunOwners: who has claimed a run id
  kept,      \* preparedOwnership: who holds it prepared and unacknowledged
  entry,     \* who made the run's directory
  marked,    \* run ids whose directory holds its maker's marker
  branch,    \* who made the run's branch in the source repository
  checkout,  \* who made the run's checkout
  busy,      \* the manager's mutex
  stage,     \* where a preparation stands
  held,      \* what its reservation says it owns: the directory, its marker, the checkout
  saved,     \* preparations whose project is in the store
  spoiled,   \* preparations that a failed cleanup, a half-made branch or a crash has left behind
  bad        \* failures and crashes so far

prepVars == <<claim, kept, entry, marked, branch, checkout, busy, stage, held, saved, spoiled, bad>>

disk == <<entry, marked, branch, checkout>>
memory == <<claim, kept, busy>>

Stages == {"idle", "queued", "reserving", "marking", "adding", "rechecking", "cleaning",
           "prepared", "acking", "abort", "aborting", "ended"}

PrepTypeOK ==
  /\ {claim, kept, entry, branch, checkout} \subseteq [Ids -> Callers \cup {NoCaller}]
  /\ marked \subseteq Ids
  /\ busy \in Callers \cup {NoCaller}
  /\ stage \in [Callers -> Stages]
  /\ held \in [Callers -> SUBSET {"directory", "marker", "checkout"}]
  /\ saved \subseteq Callers /\ spoiled \subseteq Callers
  /\ bad \in [faults : Nat, crashes : Nat]

Unclaimed == [i \in Ids |-> NoCaller]

Init ==
  /\ claim = Unclaimed /\ kept = Unclaimed
  /\ entry = Unclaimed /\ branch = Unclaimed /\ checkout = Unclaimed
  /\ marked = {}
  /\ busy = NoCaller
  /\ stage = [c \in Callers |-> "idle"]
  /\ held = [c \in Callers |-> {}]
  /\ saved = {} /\ spoiled = {}
  /\ bad = [faults |-> 0, crashes |-> 0]

Moves(c, to) == stage' = [stage EXCEPT ![c] = to]
Put(f, c) == [f EXCEPT ![IdOf[c]] = c]
Clear(f, c) == [f EXCEPT ![IdOf[c]] = NoCaller]
FaultOccurs == bad.faults < PrepFaults /\ bad' = [bad EXCEPT !.faults = @ + 1]
Existing(c) == ModeOf[c] = "existing_repository"

----------------------------------------------------------------------------
(* prepare()                                                                *)

\* The claim is made before the first wait: a second call for the id is refused at once.
Prepare(c) ==
  /\ stage[c] = "idle"
  /\ IF claim[IdOf[c]] # NoCaller
       THEN Moves(c, "ended") /\ UNCHANGED claim
       ELSE Moves(c, "queued") /\ claim' = Put(claim, c)
  /\ UNCHANGED <<kept, disk, busy, held, saved, spoiled, bad>>

\* The operation mutex: one preparation, abort or acknowledgement at a time.
EnterMutex(c, from, to) ==
  /\ stage[c] = from /\ busy = NoCaller
  /\ busy' = c
  /\ Moves(c, to)
  /\ UNCHANGED <<claim, kept, disk, held, saved, spoiled, bad>>

\* (The mutants of Reserve and Register below are bugs, not code.)
ReservePublishedFirst(c) ==
  /\ stage[c] = "reserving"
  /\ held' = [held EXCEPT ![c] = {"directory"}]
  /\ IF entry[IdOf[c]] # NoCaller
       THEN Moves(c, "cleaning") /\ UNCHANGED <<entry, marked>>
       ELSE entry' = Put(entry, c) /\ marked' = marked \ {IdOf[c]} /\ Moves(c, "marking")
  /\ UNCHANGED <<memory, branch, checkout, saved, spoiled, bad>>

\* mkdir decides who owns the directory; the reservation speaks of it only then.
Reserve(c) ==
  /\ stage[c] = "reserving"
  /\ IF entry[IdOf[c]] # NoCaller
       THEN Moves(c, "cleaning") /\ UNCHANGED <<entry, marked, held>>
       ELSE /\ entry' = Put(entry, c)
            /\ marked' = marked \ {IdOf[c]}
            /\ held' = [held EXCEPT ![c] = {"directory"}]
            /\ Moves(c, "marking")
  /\ UNCHANGED <<memory, branch, checkout, saved, spoiled, bad>>

\* Open the directory, write its marker, look at its identity once more.
Mark(c) ==
  /\ stage[c] = "marking"
  /\ \/ /\ marked' = marked \cup {IdOf[c]}
        /\ held' = [held EXCEPT ![c] = @ \cup {"marker"}]
        /\ Moves(c, "adding") /\ UNCHANGED bad
     \/ /\ FaultOccurs
        /\ marked' \in {marked, marked \cup {IdOf[c]}}
        /\ Moves(c, "cleaning") /\ UNCHANGED held
  /\ UNCHANGED <<memory, entry, branch, checkout, saved, spoiled>>

\* The checkout is known to the cleanup once it is registered.
RegisterLate(c) == UNCHANGED held
Register(c) == held' = [held EXCEPT ![c] = @ \cup {"checkout"}]

\* git worktree add makes the branch first: when it fails after that, the branch
\* stays and no cleanup knows of it.
AddCheckout(c) ==
  /\ stage[c] = "adding" /\ Existing(c)
  /\ \/ /\ branch[IdOf[c]] = NoCaller
        /\ branch' = Put(branch, c) /\ checkout' = Put(checkout, c)
        /\ Register(c)
        /\ Moves(c, "rechecking")
        /\ UNCHANGED <<spoiled, bad>>
     \/ Moves(c, "cleaning") /\ UNCHANGED <<branch, checkout, held, spoiled, bad>>
     \/ /\ FaultOccurs /\ branch[IdOf[c]] = NoCaller
        /\ branch' = Put(branch, c) /\ spoiled' = spoiled \cup {c}
        /\ Moves(c, "cleaning") /\ UNCHANGED <<checkout, held>>
  /\ UNCHANGED <<memory, entry, marked, saved>>

\* A new project and a research directory live inside the run's directory.
MakeInside(c) ==
  /\ stage[c] = "adding" /\ ~Existing(c)
  /\ \/ Moves(c, "rechecking") /\ UNCHANGED bad
     \/ FaultOccurs /\ Moves(c, "cleaning")
  /\ UNCHANGED <<memory, disk, held, saved, spoiled>>

\* The source is looked at again after the checkout; then the ownership is kept
\* for whoever records it.
Prepared(c) ==
  /\ stage[c] = "rechecking"
  /\ \/ /\ kept' = Put(kept, c)
        /\ busy' = NoCaller
        /\ Moves(c, "prepared")
     \/ Moves(c, "cleaning") /\ UNCHANGED <<kept, busy>>
  /\ UNCHANGED <<claim, disk, held, saved, spoiled, bad>>

----------------------------------------------------------------------------
(* cleanupFailedPreparation(), after a failure or for an abort.              *)

Cleaning(c) == stage[c] \in {"cleaning", "aborting"}

RemoveCheckout(c) ==
  /\ Cleaning(c) /\ "checkout" \in held[c] /\ checkout[IdOf[c]] = c
  /\ checkout' = Clear(checkout, c)
  /\ UNCHANGED <<memory, entry, marked, branch, stage, held, saved, spoiled, bad>>

DeleteBranch(c) ==
  /\ Cleaning(c) /\ "checkout" \in held[c] /\ checkout[IdOf[c]] # c
  /\ branch[IdOf[c]] = c
  /\ branch' = Clear(branch, c)
  /\ UNCHANGED <<memory, entry, marked, checkout, stage, held, saved, spoiled, bad>>

\* Everything of the source repository is gone; the directory is next.
SourceCleaned(c) == "checkout" \in held[c] => checkout[IdOf[c]] # c /\ branch[IdOf[c]] # c

Released(c) ==
  /\ claim' = IF claim[IdOf[c]] = c THEN Clear(claim, c) ELSE claim
  /\ kept' = IF kept[IdOf[c]] = c THEN Clear(kept, c) ELSE kept

\* A reservation that never came to its directory has nothing to clean.
NothingToClean(c) ==
  /\ stage[c] = "cleaning" /\ held[c] = {}
  /\ Released(c) /\ busy' = NoCaller
  /\ Moves(c, "ended")
  /\ UNCHANGED <<disk, held, saved, spoiled, bad>>

\* The directory is moved aside first and then proves, by its marker, whose it was.
Quarantine(c) ==
  /\ Cleaning(c) /\ held[c] # {} /\ SourceCleaned(c)
  /\ entry' = Clear(entry, c)
  /\ marked' = marked \ {IdOf[c]}
  /\ spoiled' = IF entry[IdOf[c]] = c THEN spoiled ELSE spoiled \cup {c}
  /\ Released(c) /\ busy' = NoCaller
  /\ Moves(c, "ended")
  /\ UNCHANGED <<branch, checkout, held, saved, bad>>

\* A cleanup that fails stops where it is: a preparation gives its claim back all
\* the same, an abort keeps it.
CleanupFails(c) ==
  /\ Cleaning(c) /\ held[c] # {}
  /\ FaultOccurs
  /\ IF stage[c] = "cleaning" THEN Released(c) ELSE UNCHANGED <<claim, kept>>
  /\ busy' = NoCaller
  /\ spoiled' = spoiled \cup {c}
  /\ Moves(c, "ended")
  /\ UNCHANGED <<disk, held, saved>>

----------------------------------------------------------------------------
(* preflightProject()                                                       *)

Save(c) ==
  /\ stage[c] = "prepared"
  /\ \/ saved' = saved \cup {c} /\ Moves(c, "acking") /\ UNCHANGED bad
     \/ FaultOccurs /\ Moves(c, "abort") /\ UNCHANGED saved
  /\ UNCHANGED <<memory, disk, held, spoiled>>

Acknowledge(c) ==
  /\ stage[c] = "acking" /\ busy = NoCaller
  /\ Released(c)
  /\ Moves(c, "ended")
  /\ UNCHANGED <<disk, busy, held, saved, spoiled, bad>>

\* The claims are in memory; directories, branches and records are not.
ServerDies ==
  /\ bad.crashes < PrepCrashes
  /\ bad' = [bad EXCEPT !.crashes = @ + 1]
  /\ claim' = Unclaimed /\ kept' = Unclaimed /\ busy' = NoCaller
  /\ stage' = [c \in Callers |-> IF stage[c] = "idle" THEN "idle" ELSE "ended"]
  /\ spoiled' = spoiled \cup {c \in Callers : stage[c] \notin {"idle", "ended"}}
  /\ UNCHANGED <<disk, held, saved>>

----------------------------------------------------------------------------

Next ==
  \/ \E c \in Callers :
       \/ Prepare(c) \/ EnterMutex(c, "queued", "reserving") \/ EnterMutex(c, "abort", "aborting")
       \/ Reserve(c) \/ Mark(c) \/ AddCheckout(c) \/ MakeInside(c) \/ Prepared(c)
       \/ RemoveCheckout(c) \/ DeleteBranch(c) \/ NothingToClean(c) \/ Quarantine(c) \/ CleanupFails(c)
       \/ Save(c) \/ Acknowledge(c)
  \/ ServerDies

Spec == Init /\ [][Next]_prepVars

\* The constants: every call is for a run id, and no call is nobody.
PreparationAssumption == IdOf \in [Callers -> Ids] /\ NoCaller \notin Callers

----------------------------------------------------------------------------

\* A preparation is all or nothing.  A run whose project is recorded keeps its
\* directory, and for a repository that was given its branch and checkout: no later
\* or failing preparation of the same id, no abort and no cleanup takes them away
\* (reserveRunDirectory's mkdir, preparedRunOwners, acknowledgePrepared).  One that
\* ends without a record has left no directory, no branch and no checkout, unless
\* its cleanup failed, the checkout broke off after its branch was made, or the
\* server died (cleanupFailedPreparation).
AllOrNothing ==
  \A c \in Callers :
    /\ c \in saved =>
         /\ entry[IdOf[c]] = c /\ IdOf[c] \in marked
         /\ Existing(c) => branch[IdOf[c]] = c /\ checkout[IdOf[c]] = c
    /\ c \notin saved \cup spoiled /\ stage[c] = "ended" =>
         c \notin {entry[IdOf[c]], branch[IdOf[c]], checkout[IdOf[c]]}

=============================================================================
