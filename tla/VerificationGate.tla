-------------------------- MODULE VerificationGate --------------------------
(* One verification of a candidate: the authority profile that was loaded, the *)
(* contract it is verified against, the integrity check of its patch, the      *)
(* gates of its stage in their order, and the result.                          *)
(*   verifier.ts, verification-profile.ts, evidence-store.ts                   *)
(*                                                                             *)
(* A patch is reduced to the kinds of paths it touches, the authority's files  *)
(* to whether they hash as they did when the profile was loaded; a gate runs   *)
(* in its own container (VerificationSandbox).                                 *)
EXTENDS Naturals, FiniteSets

CONSTANTS
  Gates,      \* gates and mutants of the profile
  TierOf,     \* gate -> its tier; a mutant's is mutation_quality
  Cases       \* records [enabled, critical, catalog, contract, stage, patch]

PublicTiers == {"targeted", "contract", "consumer", "regression"}
Tiers == PublicTiers \cup {"held_out", "mutation_quality", "post_integration"}
Stages == {"candidate", "finalist", "pre_integration", "post_integration"}

VARIABLES
  input,     \* the case: profile, contract, stage and patch
  assets,    \* the authority's files: as loaded, or changed
  at,        \* where verify() stands
  todo,      \* gates of the batch still to run
  exits,     \* gates that ran in a container and exited with 0
  recorded,  \* gates with a result
  passed,    \* mandatoryPassed
  kind,      \* failureKind
  left       \* failing evidence writes and changes of the authority's files still allowed

vars == <<input, assets, at, todo, exits, recorded, passed, kind, left>>

Order(tier) ==
  CASE tier = "targeted" -> 1 [] tier = "contract" -> 2 [] tier = "consumer" -> 3
    [] tier = "held_out" -> 4 [] tier = "mutation_quality" -> 5 [] tier = "regression" -> 6
    [] tier = "post_integration" -> 7

(* validateGateCatalog: every tier has an enabled critical gate, and what a    *)
(* contract of the catalog lists is enabled, critical and of the field's tier. *)
Binding(c) == c.enabled \cap c.critical
ValidCatalog(c) ==
  /\ \A tier \in Tiers : \E g \in Binding(c) : TierOf[g] = tier
  /\ \A tier \in PublicTiers :
       /\ c.catalog[tier] # {}
       /\ \A g \in c.catalog[tier] : TierOf[g] = tier /\ g \in Binding(c)

(* validateRuntimeContract: the contract names gates the catalog authorises,   *)
(* and some of each tier that its stage needs.                                 *)
NeededTiers(stage) ==
  CASE stage = "candidate" -> {"targeted", "contract"}
    [] stage = "finalist" -> {"consumer", "regression"}
    [] stage = "pre_integration" -> PublicTiers
    [] stage = "post_integration" -> {"regression"}

ValidContract(c) ==
  /\ \A tier \in PublicTiers :
       \A g \in c.contract[tier] : g \in c.catalog[tier] /\ TierOf[g] = tier /\ g \in Binding(c)
  /\ \A tier \in NeededTiers(c.stage) : c.contract[tier] # {}

(* assertCandidatePatch. *)
ValidPatch(c) == c.patch \cap {"existing_test", "protected", "configuration", "undeclared"} = {}

Listed(c) == UNION {c.contract[tier] : tier \in PublicTiers}

BatchListed(c) == {g \in Gates : g \in Listed(c)}

(* gatesForStage: what the contract lists of the stage's tiers, the hidden     *)
(* gates and the mutants from the finalists on, the gates after integration    *)
(* only there.                                                                 *)
Batch(c) ==
  {g \in Gates :
     CASE c.stage = "candidate" -> TierOf[g] \in {"targeted", "contract"} /\ g \in Listed(c)
       [] c.stage = "finalist" -> \/ TierOf[g] \in {"held_out", "mutation_quality"}
                                  \/ TierOf[g] \in {"consumer", "regression"} /\ g \in Listed(c)
       [] c.stage = "pre_integration" -> \/ TierOf[g] \in {"held_out", "mutation_quality"}
                                         \/ TierOf[g] # "post_integration" /\ g \in Listed(c)
       [] c.stage = "post_integration" -> \/ TierOf[g] = "post_integration"
                                          \/ TierOf[g] = "regression" /\ g \in Listed(c)}

TypeOK ==
  /\ input \in Cases /\ assets \in {"loaded", "changed"} /\ at \in {"integrity", "gates", "done"}
  /\ todo \subseteq Gates /\ exits \subseteq recorded /\ recorded \subseteq Gates
  /\ passed \in BOOLEAN
  /\ kind \in {"none", "deterministic_gate_failure", "authority_failure", "terminal"}
  /\ left \in [writes : 0..1, changes : 0..2]

Init ==
  /\ input \in {c \in Cases : ValidCatalog(c)}
  /\ assets = "loaded" /\ at = "integrity" /\ todo = {} /\ exits = {} /\ recorded = {}
  /\ passed = TRUE /\ kind = "none"
  /\ left = [writes |-> 1, changes |-> 2]

(* The authority's files are changed, or put back, by whoever owns them. *)
Touch ==
  /\ left.changes > 0 /\ at # "done"
  /\ assets' = IF assets = "loaded" THEN "changed" ELSE "loaded"
  /\ left' = [left EXCEPT !.changes = @ - 1]
  /\ UNCHANGED <<input, at, todo, exits, recorded, passed, kind>>

EvidenceFails == left.writes > 0 /\ left' = [left EXCEPT !.writes = @ - 1]

(* The authority, the contract, the git configuration and the patch, in this  *)
(* order; any of them fails the verification at once.                         *)
Sound == assets = "loaded" /\ ValidContract(input) /\ ValidPatch(input)

Integrity ==
  /\ at = "integrity"
  /\ \/ /\ Sound
        /\ at' = "gates" /\ todo' = {g \in Batch(input) : g \in input.enabled}
        /\ UNCHANGED <<passed, kind, left>>
     \/ /\ ~Sound \/ left.writes > 0
        /\ IF Sound THEN EvidenceFails ELSE UNCHANGED left
        /\ at' = "done" /\ passed' = FALSE /\ kind' = "authority_failure" /\ UNCHANGED todo
  /\ UNCHANGED <<input, assets, exits, recorded>>

(* The next gate, by tier.  Its container ends with an exit code, or with an   *)
(* authority failure; a result whose evidence cannot be written is recorded as *)
(* a failure of the authority.                                                 *)
Due(g) == g \in todo /\ \A h \in todo : Order(TierOf[g]) <= Order(TierOf[h])

Judge(g, outcome) ==
  CASE outcome = "zero" -> UNCHANGED <<passed, kind>>
    [] outcome = "nonzero" ->
         IF g \in input.critical
         THEN passed' = FALSE /\ kind' = (IF kind = "none" THEN "deterministic_gate_failure" ELSE kind)
         ELSE UNCHANGED <<passed, kind>>
    [] outcome = "authority" -> passed' = FALSE /\ kind' = "authority_failure"

RunGate(g) ==
  /\ at = "gates" /\ Due(g)
  /\ \E outcome \in {"zero", "nonzero", "authority"} :
       /\ exits' = IF outcome = "zero" THEN exits \cup {g} ELSE exits
       /\ \/ Judge(g, outcome) /\ UNCHANGED left
          \/ EvidenceFails /\ Judge(g, "authority")
  /\ todo' = todo \ {g} /\ recorded' = recorded \cup {g}
  /\ UNCHANGED <<input, assets, at>>

(* The run ends between two gates or inside one: the verification is thrown. *)
Terminate ==
  /\ at = "gates"
  /\ at' = "done" /\ passed' = FALSE /\ kind' = "terminal"
  /\ UNCHANGED <<input, assets, todo, exits, recorded, left>>

(* The authority must still be the one that was loaded, and every required     *)
(* gate of the batch must have a result.                                       *)
Conclude ==
  /\ at = "gates" /\ todo = {} /\ at' = "done"
  /\ IF assets # "loaded" \/ ~(Batch(input) \cap Binding(input) \subseteq recorded)
     THEN passed' = FALSE /\ kind' = "authority_failure"
     ELSE UNCHANGED <<passed, kind>>
  /\ UNCHANGED <<input, assets, todo, exits, recorded, left>>

Next == Touch \/ Integrity \/ (\E g \in Gates : RunGate(g)) \/ Terminate \/ Conclude

Spec == Init /\ [][Next]_vars

(* The constants: cases are of a stage, and enable gates there are. *)
GateAssumption == \A c \in Cases : c.stage \in Stages /\ c.enabled \subseteq Gates

-----------------------------------------------------------------------------
(* What a stage promises with a pass: tests of these tiers.                    *)
ProvedTiers(stage) ==
  CASE stage = "candidate" -> {"targeted", "contract"}
    [] stage = "finalist" -> {"consumer", "regression", "held_out", "mutation_quality"}
    [] stage = "pre_integration" -> Tiers \ {"post_integration"}
    [] stage = "post_integration" -> {"regression", "post_integration"}

(* A pass is never empty and never bought: every tier the stage stands for has *)
(* a critical gate that ran and exited with 0, no critical gate of the contract *)
(* and the stage failed, the patch touched nothing it may not, and the authority *)
(* is the one that was loaded.                                                 *)
PassedIsEarned ==
  at = "done" /\ passed =>
    /\ \A tier \in ProvedTiers(input.stage) : \E g \in exits : TierOf[g] = tier /\ g \in Binding(input)
    /\ \A g \in Listed(input) : TierOf[g] \in ProvedTiers(input.stage) => g \in exits
    /\ ValidPatch(input) /\ assets = "loaded"
=============================================================================
