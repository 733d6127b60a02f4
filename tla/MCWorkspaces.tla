---------------------------- MODULE MCWorkspaces ----------------------------
(* Small instances of the components of Workspaces.                           *)
EXTENDS Workspaces, TLC

CONSTANTS p1, p2,                  \* AttemptWorkspaces
          c1, c2, c3, i1, i2,      \* RunPreparation
          j1, j2, s1, s2,          \* VerificationSandbox
          t1, t2, k1, n1, h1, m1, r1, g1, \* VerificationGate
          a1, a2, d1, d2, o1, o2, q1, q2  \* ProjectCatalog

(* One executor with failing calls and writes and two crashes; two executors *)
(* of one attempt with failing calls, a failing write and a crash.           *)
MCExecs == {p1, p2}
MCMaxCrashes == 2
MCSetups ==
    {[execs |-> {p1}, faults |-> 1, writes |-> 1, crashes |-> 2, siblings |-> 1],
     [execs |-> {p1, p2}, faults |-> 2, writes |-> 1, crashes |-> 1, siblings |-> 1]}

(* Two preparations of one run id from a repository, and one of a new project. *)
MCCallers == {c1, c2, c3}
MCRunIds == {i1, i2}
MCIdOf == c1 :> i1 @@ c2 :> i1 @@ c3 :> i2
MCModeOf == c1 :> "existing_repository" @@ c2 :> "existing_repository" @@ c3 :> "new_project"
MCPrepFaults == 2
MCPrepCrashes == 1

(* One verification under two servers that may crash, and two verifications  *)
(* that take turns in one server.                                            *)
MCJobs == {j1, j2}
MCProcs == {s1, s2}
MCHome == j1 :> s1 @@ j2 :> s1
MCSettings ==
    {[jobs |-> {j1}, procs |-> {s1, s2}, faults |-> 1, crashes |-> 1],
     [jobs |-> {j1}, procs |-> {s1}, faults |-> 2, crashes |-> 1],
     [jobs |-> {j1, j2}, procs |-> {s1}, faults |-> 1, crashes |-> 0]}

(* One gate of every tier and a second targeted one, which may be disabled or *)
(* not critical; contracts that list less than they should, or a gate of      *)
(* another tier.                                                              *)
MCGates == {t1, t2, k1, n1, h1, m1, r1, g1}
MCTierOf ==
    t1 :> "targeted" @@ t2 :> "targeted" @@ k1 :> "contract" @@ n1 :> "consumer" @@ h1 :> "held_out"
    @@ m1 :> "mutation_quality" @@ r1 :> "regression" @@ g1 :> "post_integration"
Fields(targeted, consumer) ==
    [targeted |-> targeted, contract |-> {k1}, consumer |-> consumer, regression |-> {r1}]
MCCases ==
    [enabled : {Gates, Gates \ {t2}}, critical : {Gates, Gates \ {t2}, Gates \ {h1}},
     catalog : {Fields({t1}, {n1}), Fields({t1, t2}, {n1})},
     contract : {Fields({t1}, {n1}), Fields({t1, t2}, {n1}), Fields({t2}, {}), Fields({k1}, {n1})},
     stage : {"candidate", "finalist", "pre_integration", "post_integration"},
     patch : {{"declared", "new_test"}, {"existing_test"}}]

(* Two projects of one name made, and two deletions, with a failure, or one    *)
(* and a crash; a project deleted twice under its chats; or a checkout opened  *)
(* twice, beside two chats that a start moves into its project.                *)
MCCreates == {a1, a2}
MCDeletes == {d1, d2}
MCOpens == {o1, o2}
MCChats == {q1, q2}
MCSlugs == 1..2
MCPlans ==
    {[calls |-> {a1, a2, d1, d2}, legacy |-> {}, troubles |-> 1, crashes |-> 0],
     [calls |-> {a1, a2, d1}, legacy |-> {}, troubles |-> 2, crashes |-> 1],
     [calls |-> {a1, d1, d2, q1}, legacy |-> {}, troubles |-> 0, crashes |-> 0],
     [calls |-> {o1, o2, d1}, legacy |-> Chats, troubles |-> 1, crashes |-> 1]}

(* Three mutations, one of which may throw, on what an earlier server left: no *)
(* database or one of a present, an earlier, a foreign or a broken form, and   *)
(* run events at the old place, the new one or both.                           *)
MCParts == <<"database", "events">>
Database(version, forms) ==
    [version |-> version, records |-> {[name |-> f, form |-> f] : f \in forms}, log |-> <<>>]
Databases ==
    {Nowhere, Database(1, {"current"}), Database(1, {"old", "worn"}), Database(1, {"old", "broken"}),
     Database(0, {"current"})}
MCSites ==
    {[disk |-> [database |-> d, events |-> e], calls |-> Callers, throws |-> t,
      troubles |-> 1, crashes |-> 1] :
        d \in {[old |-> o, new |-> Nowhere] : o \in Databases}
              \cup {[old |-> Database(1, {"old"}), new |-> n] : n \in Databases},
        e \in {[old |-> "earlier", new |-> Nowhere], [old |-> "earlier", new |-> "later"]},
        t \in {{}, {c2}}}

(* A component that is not at work starts in one way only. *)
OneStart ==
    /\ Init
    /\ unit = "attempt" \/ left = CHOOSE s \in Setups : TRUE
    /\ unit = "sandbox" \/ room = CHOOSE s \in Settings : TRUE
    /\ unit = "gate" \/ input = CHOOSE c \in Cases : G!ValidCatalog(c)
    /\ unit = "catalog" \/ plan = CHOOSE s \in Plans : TRUE
    /\ unit = "store" \/ site = CHOOSE s \in Sites : TRUE

MCSpec == OneStart /\ [][Next]_vars /\ A!Fairness
=============================================================================
