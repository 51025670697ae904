---------------------------- MODULE MCDeployment ----------------------------
(***************************************************************************)
(* Planning and rollout, one to a behaviour: the controller carries a plan *)
(* out (ControllerRollout), or an author writes decks, service             *)
(* dependencies and targets that are compiled and planned (PlannedTarget). *)
(*                                                                         *)
(* The rollout has two ids for plan commits, two cards, two channels and   *)
(* two runtime epochs.  The author has three cards of one definition in    *)
(* every listing order, up to three links over all their pairs, and        *)
(* resolvers that are sound and that are not.                              *)
(***************************************************************************)
EXTENDS ControllerRollout, TLC

CONSTANTS o1, o2, ch1, ch2

VARIABLES
    part,                                                              \* who takes steps
    desk, spec, resolver, dependencies, allocation, previous, content  \* PlannedTarget

planVars == <<desk, spec, resolver, dependencies, allocation, previous, content>>

MCProvisioning ==
    [scope |-> "scope", lineage |-> "lineage", auth |-> [key |-> "controller", generation |-> 1],
     principal |-> "controller", writer |-> "writer", policy |-> "policy", response_key |-> "runtime"]
MCManifest == [target |-> 1, digest |-> "manifest"]
MCSymmetry == Permutations({o1, o2}) \union Permutations({ch1, ch2})

-----------------------------------------------------------------------------
Port(key, direction, schema) ==
    [key |-> key, spec |-> [direction |-> direction, schema |-> schema,
                            interaction |-> "Stream", cardinality |-> "One"]]
Definition(d, version, ports) ==
    [definition |-> d, version |-> version, artifact |-> d * 10, ports |-> ports,
     refinements |-> <<[reference |-> 1, digest |-> 11]>>]
Card(key, d, refinement) ==
    [key |-> key, definition |-> d, requested |-> [minimum |-> 1, maximum_inclusive |-> 2],
     role |-> "ReferenceSubject", config |-> None, refinement |-> refinement]
Profile == [reference |-> 1, digest |-> 21]
Piped == Definition(1, 1, <<Port(2, "In", 7), Port(1, "Out", 7)>>)
Resolver(definitions, requirements) ==
    [definitions |-> definitions, requirements |-> requirements,
     delivery_profiles |-> <<[reference |-> 2, digest |-> 22], Profile>>]
Requirement(key, reference) == [key |-> key, reference |-> reference]
Resolved(reference) == [reference |-> reference, digest |-> reference * 3]
EmptyDeck == [deck_key |-> 1, ownership |-> "Deployment", lifetime |-> "Deployment", cards |-> <<>>,
              links |-> <<>>, requirements |-> <<>>, display |-> <<>>]
Draft(definitions, requirements, resolved) ==
    [spec |-> [EmptyDeck EXCEPT !.requirements = requirements],
     resolver |-> Resolver(definitions, resolved)]
Link(key, from, to) ==
    [key |-> key, source |-> [card |-> from, port |-> 1], target |-> [card |-> to, port |-> 2],
     delivery_profile |-> 1]
LoopDeck(key) == [EmptyDeck EXCEPT !.cards = <<Card(key, 5, None)>>]

MCDrafts ==
    {Draft(<<Piped>>, <<>>, <<>>),
     Draft(<<Definition(3, 0, <<>>), Piped, Definition(2, 0, <<>>)>>, <<>>, <<>>),
     Draft(<<Piped, Definition(2, 1, <<Port(1, "Out", 7), Port(1, "In", 7)>>), Definition(3, 0, <<>>)>>,
           <<>>, <<>>),
     Draft(<<Piped>>, <<Requirement(2, 1), Requirement(1, 2)>>, <<Resolved(2), Resolved(1)>>),
     Draft(<<Piped>>, <<Requirement(2, 3), Requirement(1, 4)>>, <<Resolved(1)>>)}

Author == INSTANCE PlannedTarget WITH
    MAX_DECK_CARDS <- 3, MAX_DECK_LINKS <- 3, MAX_DECK_REQUIREMENTS <- 2,
    MAX_RESOLVER_DEFINITIONS <- 3, MAX_PORTS_PER_DEFINITION <- 2,
    MAX_REFINEMENTS_PER_DEFINITION <- 1, MAX_RESOLVED_DELIVERY_PROFILES <- 2,
    MAX_RESOLVED_REQUIREMENTS <- 2, MAX_DISPLAY_ENTRIES <- 1, MAX_DISPLAY_LABEL_BYTES <- 1,
    MAX_SERVICE_DEPENDENCY_EDGES <- 4, MAX_SERVICE_DEPENDENCY_VERTICES <- 4,
    U64_MAX <- 7, MAX_STABLE_ALLOCATION_RECORDS <- 2,
    Cards <- {Card(1, 1, None), Card(2, 1, 1), Card(3, 1, None)},
    Links <- {Link(k, f, t) : k \in 1..3, f \in 1..3, t \in 1..3},
    Drafts <- MCDrafts, CardBound <- 3, LinkBound <- 3,
    Services <- 1..3, DependencyBound <- 3, Target <- 1,
    Manifest <- [target |-> 1, profile |-> 2, empty_config |-> 3,
                 fixture |-> [definition |-> 5, artifact |-> 50]],
    LoopDecks <- {LoopDeck(1), LoopDeck(2), LoopDeck(3)},
    LoopResolver <- Resolver(<<Definition(5, 1, <<>>), Piped>>, <<>>)

\* Link keys are written once, as a repeated one is refused early.  Links are added
\* to two of the six listings of the three cards, and more than one only to the
\* draft without requirements whose resolver is sound: the others are refused, or
\* locked, whatever further links they have.
LinkKeysDiffer == \A i, j \in DOMAIN spec.links : spec.links[i].key = spec.links[j].key => i = j
CardKeysDiffer == \A i, j \in DOMAIN spec.cards : spec.cards[i].key = spec.cards[j].key => i = j
Explored ==
    /\ LinkKeysDiffer
    /\ spec.links # <<>> => CardKeysDiffer /\ spec.cards[1].key = 3
    /\ Len(spec.links) > 1 => spec.requirements = <<>> /\ Len(resolver.definitions) = 1

-----------------------------------------------------------------------------
DeploymentInit ==
    /\ part \in {"Rollout", "Planning"}
    /\ Init /\ Author!Init
    /\ part = "Rollout" => desk = "target"

RolloutStep == part = "Rollout" /\ Next /\ UNCHANGED <<part, planVars>>
PlanningStep == part = "Planning" /\ Author!Next /\ UNCHANGED <<part, vars>>

DeploymentNext == RolloutStep \/ PlanningStep

DeploymentSpec == DeploymentInit /\ [][DeploymentNext]_<<part, vars, planVars>>

\* What an author writes is compiled and ordered right: cyclic decks are refused
\* with a true witness, the listing order does not matter, services start after
\* what they depend on, and whatever runs can be retired (PlannedTarget).
PlansAreSound ==
    part = "Planning" =>
        /\ Author!DeckCyclesRefused /\ Author!CompileIgnoresOrder
        /\ Author!ServicesStartInOrder /\ Author!LiveTargetCanRetire
=============================================================================
