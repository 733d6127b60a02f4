------------------------------ MODULE Workspaces ------------------------------
(* Projects, the workspaces of their runs and the verification of what was    *)
(* made in them: the catalog of projects, the store they are recorded in, the *)
(* preparation of a run's directory, branch and checkout, the workspace of    *)
(* one attempt in it, the gates of a verification, and the container of one   *)
(* gate.  They share no state, so a behaviour is one of any of them, and the  *)
(* properties below are about all.                                            *)
EXTENDS Integers, Sequences, FiniteSets

CONSTANTS
    Execs, NoOwner, Setups, MaxCrashes,                                 \* AttemptWorkspaces
    Callers, RunIds, IdOf, ModeOf, NoCaller, PrepFaults, PrepCrashes,   \* RunPreparation
    Jobs, Procs, Home, Nobody, Settings,                                \* VerificationSandbox
    Gates, TierOf, Cases,                                               \* VerificationGate
    Creates, Opens, Deletes, Chats, Slugs, Source, Nowhere, NoProject, Plans, \* ProjectCatalog
    Parts, Sites                                                        \* JsonStore, with Callers and Nowhere

VARIABLES
    unit,
    left, marker, durable, work, alive, row, head, tree, run, up, lock, contended, pc, snap, owner, robbed, looked,
    claim, kept, entry, marked, branch, checkout, busy, stage, held, saved, spoiled, bad,
    server, port, lease, turn, place, stop, record, torn, open, ctr, cid, vol, late, sweep, target,
    tries, gate, verdict, out, room,
    input, assets, at, todo, exits, recorded, passed, kind, spare,
    plan, projects, chats, dirs, clean, call, serving, legacy, moving, stale, killed, spent,
    site, disk, temp, data, queue, task, phase, moved, order, used

A == INSTANCE AttemptWorkspaces
P == INSTANCE RunPreparation WITH Ids <- RunIds
S == INSTANCE VerificationSandbox WITH up <- server, lock <- port, pc <- place, left <- room
G == INSTANCE VerificationGate WITH left <- spare
C == INSTANCE ProjectCatalog WITH Setups <- Plans, setup <- plan, up <- serving
J == INSTANCE JsonStore WITH None <- Nowhere

(* What the components ask of their constants. *)
ASSUME SetupsAssumption == A!SetupAssumption
ASSUME PreparationsAssumption == P!PreparationAssumption
ASSUME SandboxesAssumption == S!SandboxAssumption
ASSUME GatesAssumption == G!GateAssumption
ASSUME CatalogsAssumption == C!CatalogAssumption
ASSUME StoreAssumption == J!SiteAssumption

attemptVars == <<left, marker, durable, work, alive, row, head, tree, run, up, lock, contended,
                 pc, snap, owner, robbed, looked>>
prepareVars == <<claim, kept, entry, marked, branch, checkout, busy, stage, held, saved, spoiled, bad>>
sandboxVars == <<server, port, lease, turn, place, stop, record, torn, open, ctr, cid, vol, late,
                 sweep, target, tries, gate, verdict, out, room>>
gateVars == <<input, assets, at, todo, exits, recorded, passed, kind, spare>>
catalogVars == <<plan, projects, chats, dirs, clean, call, serving, legacy, moving, stale, killed,
                 spent>>
storeVars == <<site, disk, temp, data, queue, task, phase, moved, order, used>>
vars == <<unit, attemptVars, prepareVars, sandboxVars, gateVars, catalogVars, storeVars>>

Init ==
    /\ unit \in {"attempt", "prepare", "sandbox", "gate", "catalog", "store"}
    /\ A!Init /\ P!Init /\ S!Init /\ G!Init /\ C!Init /\ J!Init

Next ==
    /\ UNCHANGED unit
    /\ \/ unit = "attempt" /\ A!Next /\ UNCHANGED <<prepareVars, sandboxVars, gateVars, catalogVars, storeVars>>
       \/ unit = "prepare" /\ P!Next /\ UNCHANGED <<attemptVars, sandboxVars, gateVars, catalogVars, storeVars>>
       \/ unit = "sandbox" /\ S!Next /\ UNCHANGED <<attemptVars, prepareVars, gateVars, catalogVars, storeVars>>
       \/ unit = "gate" /\ G!Next /\ UNCHANGED <<attemptVars, prepareVars, sandboxVars, catalogVars, storeVars>>
       \/ unit = "catalog" /\ C!Next /\ UNCHANGED <<attemptVars, prepareVars, sandboxVars, gateVars, storeVars>>
       \/ unit = "store" /\ J!Next /\ UNCHANGED <<attemptVars, prepareVars, sandboxVars, gateVars, catalogVars>>

(* No fair action of AttemptWorkspaces is enabled in its Init, where it stands *)
(* while another unit runs.                                                    *)
Spec == Init /\ [][Next]_vars /\ A!Fairness

-----------------------------------------------------------------------------

(* What the store shows as active is on disk under its owner's durable marker *)
(* (AttemptWorkspaces).                                                       *)
ActiveIsOwned == A!ActiveIsOwned

(* A worker's work is removed only after it is in the project, or in a        *)
(* removal that had found the workspace clean before (AttemptWorkspaces), and *)
(* no write of the store takes back what is in its file (JsonStore).          *)
WorkIsKept == A!WorkIsKept /\ J!FileOnlyGrows

(* A preparation is all or nothing (RunPreparation), and so are a project,      *)
(* whose repository is its own (ProjectCatalog), and a mutation or a start of   *)
(* the store (JsonStore).                                                       *)
AllOrNothing == P!AllOrNothing /\ C!CatalogIsSound /\ J!StoreIsSerial /\ J!StartKeepsAll

(* Nothing of a verification is left in the engine unrecorded, or when its    *)
(* exit is reported (VerificationSandbox).                                    *)
NothingLeftBehind == S!NothingLeftBehind

(* A pass rests on a gate of every tier of its stage (VerificationGate). *)
PassedIsEarned == G!PassedIsEarned
=============================================================================
