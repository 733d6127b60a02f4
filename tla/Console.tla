-------------------------------- MODULE Console --------------------------------
(* The runs of a server and what its console shows of them, one component in  *)
(* each behaviour: the lifecycle of the runs (RunLifecycle), the console's     *)
(* transcript of the leader's runs in a chat (RunTranscript), or the one of    *)
(* the workers (SessionEvents).                                                *)
EXTENDS RunLifecycle

CONSTANTS
    Page, BufferSize,                     \* RunTranscript, SessionEvents
    ChatRuns, Old, New, Setups,           \* RunTranscript
    Missions, NoMission, Settings, SettledRetries   \* SessionEvents

VARIABLES
    unit,
    most, pages, written, status, setup, chat, visible, active, listing, shown, traces, asking,
    got, sending, poll, drain, gaveUp, dropped, spent,
    size, stream, filed, state, bounds, settled, mission, loop, stale, listed, byRun, used

T == INSTANCE RunTranscript WITH
        Runs <- ChatRuns, log <- pages, runs <- listing, asked <- asking
E == INSTANCE SessionEvents WITH
        Runs <- Missions, most <- size, log <- stream, written <- filed, status <- state,
        active <- mission, spent <- used

(* What the two transcripts ask of their constants. *)
ASSUME TranscriptsAssumption == T!TranscriptAssumption
ASSUME MissionsAssumption == E!SessionsAssumption

transcriptVars ==
    <<most, pages, written, status, setup, chat, visible, active, listing, shown, traces, asking,
      got, sending, poll, drain, gaveUp, dropped, spent>>
workerVars ==
    <<size, stream, filed, state, bounds, settled, mission, loop, stale, listed, byRun, used>>
allVars == <<unit, vars, transcriptVars, workerVars>>

AnyInit ==
    /\ unit \in {"lifecycle", "transcript", "workers"}
    /\ Init /\ T!Init /\ E!Init

AnyNext ==
    /\ UNCHANGED unit
    /\ \/ unit = "lifecycle" /\ Next /\ UNCHANGED <<transcriptVars, workerVars>>
       \/ unit = "transcript" /\ T!Next /\ UNCHANGED <<vars, workerVars>>
       \/ unit = "workers" /\ E!Next /\ UNCHANGED <<vars, transcriptVars>>

(* What is fair in each component, as in its Spec. *)
AnyFairness == Fairness /\ T!Fairness /\ E!Fairness

AnySpec == AnyInit /\ [][AnyNext]_allVars /\ AnyFairness

(* What the console shows is what it says it shows, without a gap              *)
(* (RunTranscript, SessionEvents).                                             *)
TranscriptIsSound == T!TranscriptIsSound /\ E!WorkersInView

(* Whoever goes on looking comes to see it all (RunTranscript, SessionEvents). *)
TranscriptIsWhole == T!TranscriptIsWhole /\ E!WorkersAreWhole
===============================================================================
