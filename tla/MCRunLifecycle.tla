---------------------------- MODULE MCRunLifecycle ----------------------------
(* Console for TLC: an agent alone, or a leader with a worker; the console's  *)
(* transcript of a leader's run, or of the workers.                           *)
EXTENDS Console, TLC

CONSTANTS
    s, l, w,            \* RunLifecycle
    m1, m2              \* SessionEvents

Roles == s :> "standalone" @@ l :> "leader" @@ w :> "worker"
TwoRosters == {{s}, {l, w}}
Bounds == [store |-> 2, append |-> 1, crash |-> 1]

(* Two views with every answer; one with failing requests or a restart.      *)
MCBounds(events, views, troubles, restarts) ==
    [events |-> events, views |-> views, troubles |-> troubles, restarts |-> restarts]
MCSetups == {MCBounds(2, 2, 0, 0), MCBounds(2, 1, 2, 0), MCBounds(2, 1, 0, 1)}
MCSettings == {MCBounds(1, 2, 0, 1), MCBounds(2, 1, 1, 0), MCBounds(1, 1, 2, 0)}

(* A component that is not at work starts in one way only. *)
MCInit ==
    /\ AnyInit
    /\ unit = "lifecycle" \/ agents = [a \in Agents |-> IF a = s THEN "ready" ELSE "gone"]
    /\ unit = "transcript" \/ setup = CHOOSE b \in Setups : TRUE
    /\ unit = "workers" \/ bounds = CHOOSE b \in Settings : TRUE

(* No fair action of a component is enabled in its Init, where it stands while *)
(* another runs.                                                               *)
MCSpec == MCInit /\ [][AnyNext]_allVars /\ AnyFairness
===============================================================================
