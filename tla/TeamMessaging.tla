--------------------------- MODULE TeamMessaging ---------------------------
(***************************************************************************)
(* What a team promises about its messages, whatever the runtimes, the     *)
(* queues and the timing underneath: a message is recorded before anybody  *)
(* acts on it, a record is never taken back to "queued", and nothing       *)
(* reaches a worker that is not on record.  TeamCoordination implements    *)
(* this specification.                                                     *)
(***************************************************************************)
EXTENDS Naturals

CONSTANT MaxMsgs

VARIABLES
    journal,    \* what the fold of journal.jsonl says of each message
    handed      \* messages some accepted turn or steer carried to a worker

Msgs == 1 .. MaxMsgs

Status == {"none", "queued", "delivered", "undeliverable"}

AbsInit ==
    /\ journal = [m \in Msgs |-> "none"]
    /\ handed = {}

(* queue(): the message goes on record. *)
Accept(m) ==
    /\ journal[m] = "none"
    /\ journal' = [journal EXCEPT ![m] = "queued"]
    /\ UNCHANGED handed

(* receipt(): the outcome of a message on record goes on record. *)
Record(m) ==
    /\ journal[m] # "none"
    /\ \E s \in {"delivered", "undeliverable"} : journal' = [journal EXCEPT ![m] = s]
    /\ UNCHANGED handed

(* A turn or a steer is accepted with some messages in its input. *)
Hand ==
    /\ \E S \in SUBSET {m \in Msgs : journal[m] # "none"} : handed' = handed \cup S
    /\ UNCHANGED journal

AbsNext == Hand \/ \E m \in Msgs : Accept(m) \/ Record(m)

AbsSpec == AbsInit /\ [][AbsNext]_<<journal, handed>>

=============================================================================
