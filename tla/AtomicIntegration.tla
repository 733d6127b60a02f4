------------------------- MODULE AtomicIntegration -------------------------
(***************************************************************************)
(* What a project run promises about its contributions: each is taken into *)
(* the project's head whole or refused, one at a time, and only a          *)
(* cancellation may take one back - the one applied last.                  *)
(***************************************************************************)
EXTENDS Integers, Sequences

CONSTANT Contribs

VARIABLES
    head,       \* the project's head: the contributions it contains, in order
    verdict     \* what was decided about each contribution

Open(c) ==
    /\ verdict[c] = "open"
    /\ verdict' = [verdict EXCEPT ![c] = "deciding"]
    /\ UNCHANGED head

Take(c) ==
    /\ verdict[c] = "deciding"
    /\ head' = Append(head, c)
    /\ verdict' = [verdict EXCEPT ![c] = "taken"]

Refuse(c) ==
    /\ verdict[c] = "deciding"
    /\ verdict' = [verdict EXCEPT ![c] = "refused"]
    /\ UNCHANGED head

TakeBack(c) ==
    /\ verdict[c] = "taken"
    /\ head = Append(SubSeq(head, 1, Len(head) - 1), c)
    /\ head' = SubSeq(head, 1, Len(head) - 1)
    /\ verdict' = [verdict EXCEPT ![c] = "refused"]

AtomicInit == head = <<>> /\ verdict = [c \in Contribs |-> "open"]

(* A restart refuses what was being decided, in one write; what it cannot
   reconcile stays undecided. *)
RefuseSome ==
    /\ \E S \in SUBSET {c \in Contribs : verdict[c] = "deciding"} :
          verdict' = [c \in Contribs |-> IF c \in S THEN "refused" ELSE verdict[c]]
    /\ UNCHANGED head

AtomicNext ==
    \/ RefuseSome
    \/ \E c \in Contribs : Open(c) \/ Take(c) \/ Refuse(c) \/ TakeBack(c)

AtomicSpec == AtomicInit /\ [][AtomicNext]_<<head, verdict>>

=============================================================================
