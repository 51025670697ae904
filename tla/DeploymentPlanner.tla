-------------------------- MODULE DeploymentPlanner --------------------------
(***************************************************************************)
(* From what an author writes to what a target is told: the deck compiler  *)
(* (deck.rs), the start order of services, and the planner with its gate   *)
(* on the previous target (planner.rs).                                    *)
(*                                                                         *)
(* A deck and a resolver snapshot, both lists in any order, become one     *)
(* canonical lock or the first error in a frozen order of checks.  A lock  *)
(* is refused when the links of the deck are cyclic, with one concrete     *)
(* cycle as the witness.  Keys and references are numbers, so that the     *)
(* code's byte order is <.                                                 *)
(***************************************************************************)
EXTENDS Integers, Sequences, FiniteSets, SequencesExt, StableAllocation

CONSTANTS
    None,                            \* an absent reference
    MAX_DECK_CARDS, MAX_DECK_LINKS, MAX_DECK_REQUIREMENTS, MAX_RESOLVER_DEFINITIONS,
    MAX_PORTS_PER_DEFINITION, MAX_REFINEMENTS_PER_DEFINITION, MAX_RESOLVED_DELIVERY_PROFILES,
    MAX_RESOLVED_REQUIREMENTS, MAX_DISPLAY_ENTRIES, MAX_DISPLAY_LABEL_BYTES

(* An error is the set that holds it; ?? goes on to the next check only when  *)
(* the one before found nothing.                                              *)
If(c, e) == IF c THEN {e} ELSE {}
a ?? b == IF a # {} THEN a ELSE b

-----------------------------------------------------------------------------
(* Lists by key.                                                              *)
SortedBy(s, key(_)) == SortSeq(s, LAMBDA x, y : key(x) < key(y))
KeysOf(s, key(_)) == {key(s[i]) : i \in DOMAIN s}
ByKey(s, key(_), k) == s[CHOOSE i \in DOMAIN s : key(s[i]) = k]

KeyOf(x) == x.key
DefinitionOf(x) == x.definition
ReferenceOf(x) == x.reference

Least(S) == CHOOSE x \in S : \A y \in S : x <= y

(* The smallest key a list has twice: the code sorts and compares neighbours. *)
first_duplicate(s, key(_)) ==
    LET twice == {key(s[i]) : i \in {i \in DOMAIN s : \E j \in DOMAIN s : j # i /\ key(s[j]) = key(s[i])}}
    IN  IF twice = {} THEN {} ELSE {Least(twice)}

Duplicate(kind, s, key(_)) == {<<kind, k>> : k \in first_duplicate(s, key)}

(* The first error along a list: per element a set of at most one error.      *)
FirstError(s, errors(_)) ==
    LET bad == {i \in DOMAIN s : errors(s[i]) # {}}
    IN  IF bad = {} THEN {} ELSE errors(s[Least(bad)])

-----------------------------------------------------------------------------
(* Versions.                                                                  *)
is_valid(v) == v.minimum # 0 /\ v.minimum <= v.maximum_inclusive
admits(v, version) == is_valid(v) /\ version >= v.minimum /\ version <= v.maximum_inclusive

-----------------------------------------------------------------------------
(* The search for a cycle: the strong components by two depth-first passes,   *)
(* then one coloured pass inside the first cyclic component.                  *)
adjacency(cards, links, reverse) ==
    LET from(l) == IF reverse THEN l.target.card ELSE l.source.card
        to(l) == IF reverse THEN l.source.card ELSE l.target.card
        edges(card) == SelectSeq(links, LAMBDA l : from(l) = card)
    IN  [card \in ToSet(cards) |->
            SortedBy([i \in DOMAIN edges(card) |-> [to |-> to(edges(card)[i]), key |-> edges(card)[i].key]], KeyOf)]

RECURSIVE visit_finish(_, _, _), finish_all(_, _, _)
visit_finish(card, edges, s) ==
    IF card \in s.visited THEN s
    ELSE LET after == finish_all(edges[card], edges, [s EXCEPT !.visited = @ \union {card}])
         IN  [after EXCEPT !.finish = Append(@, card)]
finish_all(targets, edges, s) ==
    IF targets = <<>> THEN s
    ELSE finish_all(Tail(targets), edges, visit_finish(Head(targets).to, edges, s))

RECURSIVE visit_component(_, _, _), component_all(_, _, _)
visit_component(card, edges, s) ==
    IF card \in s.visited THEN s
    ELSE component_all(edges[card], edges,
             [visited |-> s.visited \union {card}, component |-> s.component \union {card}])
component_all(targets, edges, s) ==
    IF targets = <<>> THEN s
    ELSE component_all(Tail(targets), edges, visit_component(Head(targets).to, edges, s))

(* The components, from the last finished card to the first.                  *)
RECURSIVE components_from(_, _, _)
components_from(finish, edges, visited) ==
    IF finish = <<>> THEN {}
    ELSE LET s == visit_component(Last(finish), edges, [visited |-> visited, component |-> {}])
         IN  If(s.component # {}, s.component) \union components_from(Front(finish), edges, s.visited)

(* Colours: 0 not seen, 1 on the stack, 2 done.                               *)
RECURSIVE visit_cycle(_, _, _), cycle_along(_, _, _, _)
visit_cycle(card, edges, s) ==
    LET after == cycle_along(card, edges[card], edges,
                     [s EXCEPT !.colors[card] = 1, !.cards = Append(@, card)])
    IN  IF after.witness # {} THEN after
        ELSE [after EXCEPT !.cards = Front(@), !.colors[card] = 2]
cycle_along(card, targets, edges, s) ==
    IF targets = <<>> \/ s.witness # {} THEN s
    ELSE LET e == Head(targets)
             start == CHOOSE i \in DOMAIN s.cards : s.cards[i] = e.to
             deeper == visit_cycle(e.to, edges, [s EXCEPT !.links = Append(@, e.key)])
         IN  CASE s.colors[e.to] = 0 ->
                    cycle_along(card, Tail(targets), edges,
                        IF deeper.witness # {} THEN deeper ELSE [deeper EXCEPT !.links = Front(@)])
               [] s.colors[e.to] = 1 ->
                    [s EXCEPT !.witness =
                        {[cards |-> Append(SubSeq(s.cards, start, Len(s.cards)), e.to),
                          links |-> Append(SubSeq(s.links, start, Len(s.links)), e.key)]}]
               [] OTHER -> cycle_along(card, Tail(targets), edges, s)

RECURSIVE cycle_from(_, _, _)
cycle_from(cards, edges, s) ==
    IF cards = <<>> \/ s.witness # {} THEN s.witness
    ELSE cycle_from(Tail(cards), edges,
             IF s.colors[Head(cards)] = 0 THEN visit_cycle(Head(cards), edges, s) ELSE s)

concrete_cycle(component, links) ==
    LET inside == SelectSeq(links, LAMBDA l : l.source.card \in component /\ l.target.card \in component)
        cards == SetToSortSeq(component, <)
    IN  cycle_from(cards, adjacency(cards, inside, FALSE),
            [colors |-> [card \in component |-> 0], cards |-> <<>>, links |-> <<>>, witness |-> {}])

(* Components are sorted and disjoint: the first of the sorted list is the    *)
(* one with the least card.                                                   *)
cycle_witness(cards, links) ==
    LET forward == adjacency(cards, links, FALSE)
        finish == finish_all([i \in DOMAIN cards |-> [to |-> cards[i]]], forward, [visited |-> {}, finish |-> <<>>]).finish
        cyclic == {c \in components_from(finish, adjacency(cards, links, TRUE), {}) :
                      \/ Cardinality(c) > 1
                      \/ \E i \in DOMAIN links : links[i].source.card \in c /\ links[i].target.card \in c}
    IN  IF cyclic = {} THEN {}
        ELSE LET component == CHOOSE c \in cyclic : \A d \in cyclic : Least(c) <= Least(d)
             IN  {[component |-> SetToSortSeq(component, <), cards |-> w.cards, links |-> w.links] :
                  w \in concrete_cycle(component, links)}

-----------------------------------------------------------------------------
(* The checks, in the code's order.                                           *)
UnsupportedRequest(spec) ==
       If(spec.ownership = "Application", <<"ApplicationOwnershipUnsupported">>)
    ?? If(spec.lifetime = "Installation", <<"InstallationLifetimeUnsupported">>)

LimitErrors(spec, resolver) ==
       If(Len(spec.cards) > MAX_DECK_CARDS, <<"TooManyCards">>)
    ?? If(Len(spec.links) > MAX_DECK_LINKS, <<"TooManyLinks">>)
    ?? If(Len(spec.requirements) > MAX_DECK_REQUIREMENTS, <<"TooManyRequirements">>)
    ?? If(Len(resolver.definitions) > MAX_RESOLVER_DEFINITIONS, <<"TooManyResolverDefinitions">>)
    ?? If(Len(resolver.delivery_profiles) > MAX_RESOLVED_DELIVERY_PROFILES, <<"TooManyDeliveryProfiles">>)
    ?? If(Len(resolver.requirements) > MAX_RESOLVED_REQUIREMENTS, <<"TooManyResolvedRequirements">>)
    ?? If(Len(spec.display) > MAX_DISPLAY_ENTRIES, <<"TooManyDisplayEntries">>)
    ?? If(\E i \in DOMAIN spec.display : spec.display[i] > MAX_DISPLAY_LABEL_BYTES, <<"DisplayLabelTooLong">>)
    ?? If(spec.cards = <<>>, <<"EmptyDeck">>)

CardErrors(spec) ==
       Duplicate("DuplicateCardUse", spec.cards, KeyOf)
    ?? FirstError(SortedBy(spec.cards, KeyOf),
           LAMBDA c : If(~is_valid(c.requested), <<"InvalidRequestedDefinitionVersion", c.key>>))

(* Of several unusable definitions the smallest is reported.                  *)
PreflightErrors(resolver) ==
    FirstError(SortedBy(resolver.definitions, DefinitionOf),
        LAMBDA d : If(d.version = 0, <<"InvalidDefinitionVersion", d.definition>>)
                ?? If(Len(d.ports) > MAX_PORTS_PER_DEFINITION, <<"TooManyPorts", d.definition>>)
                ?? If(Len(d.refinements) > MAX_REFINEMENTS_PER_DEFINITION, <<"TooManyRefinements", d.definition>>))

DefinitionErrors(resolver) ==
       Duplicate("DuplicateResolvedDefinition", resolver.definitions, DefinitionOf)
    ?? PreflightErrors(resolver)
    ?? FirstError(SortedBy(resolver.definitions, DefinitionOf),
           LAMBDA d : {<<"DuplicateResolvedPort", d.definition, p>> : p \in first_duplicate(d.ports, KeyOf)}
                   ?? {<<"DuplicateResolvedRefinement", d.definition, r>> :
                       r \in first_duplicate(d.refinements, ReferenceOf)})

ResolutionErrors(spec, resolver) ==
    FirstError(SortedBy(spec.cards, KeyOf),
        LAMBDA c : IF c.definition \notin KeysOf(resolver.definitions, DefinitionOf)
                   THEN {<<"MissingResolvedDefinition", c.definition>>}
                   ELSE LET d == ByKey(resolver.definitions, DefinitionOf, c.definition)
                        IN     If(~admits(c.requested, d.version), <<"ResolvedDefinitionVersionMismatch", c.key>>)
                            ?? If(c.refinement # None /\ c.refinement \notin KeysOf(d.refinements, ReferenceOf),
                                  <<"MissingResolvedRefinement", c.key, c.refinement>>))

RequirementErrors(spec, resolver) ==
       Duplicate("DuplicateRequirement", spec.requirements, KeyOf)
    ?? Duplicate("DuplicateRequirementRef", spec.requirements, ReferenceOf)
    ?? Duplicate("DuplicateResolvedRequirement", resolver.requirements, ReferenceOf)
    ?? FirstError(SortedBy(spec.requirements, KeyOf),
           LAMBDA r : If(r.reference \notin KeysOf(resolver.requirements, ReferenceOf),
                         <<"MissingResolvedRequirement", r.reference>>))

(* The ports of a card are those of its definition.                           *)
PortsOf(spec, resolver, card) ==
    ByKey(resolver.definitions, DefinitionOf, ByKey(spec.cards, KeyOf, card).definition).ports

find_port(ports, key) == ByKey(ports, KeyOf, key).spec

PortErrors(l, source, target) ==
       If(source.direction # "Out", <<"SourcePortIsNotOutput", l.key>>)
    ?? If(target.direction # "In", <<"TargetPortIsNotInput", l.key>>)
    ?? If(source.schema # target.schema, <<"PortSchemaMismatch", l.key>>)
    ?? If(source.interaction # target.interaction, <<"PortInteractionMismatch", l.key>>)

EndpointErrors(spec, resolver, l) ==
    LET cards == KeysOf(spec.cards, KeyOf)
        from == PortsOf(spec, resolver, l.source.card)
        to == PortsOf(spec, resolver, l.target.card)
    IN     If(l.delivery_profile = None, <<"MissingDeliveryProfileRef", l.key>>)
        ?? If(l.delivery_profile \notin KeysOf(resolver.delivery_profiles, ReferenceOf),
              <<"MissingResolvedDeliveryProfile", l.delivery_profile>>)
        ?? If(l.source.card \notin cards, <<"DanglingSourceCard", l.key, l.source.card>>)
        ?? If(l.target.card \notin cards, <<"DanglingTargetCard", l.key, l.target.card>>)
        ?? If(l.source.port \notin KeysOf(from, KeyOf), <<"DanglingSourcePort", l.key, l.source.port>>)
        ?? If(l.target.port \notin KeysOf(to, KeyOf), <<"DanglingTargetPort", l.key, l.target.port>>)
        ?? PortErrors(l, find_port(from, l.source.port), find_port(to, l.target.port))

LinkErrors(spec, resolver) ==
       Duplicate("DuplicateLink", spec.links, KeyOf)
    ?? Duplicate("DuplicateResolvedDeliveryProfile", resolver.delivery_profiles, ReferenceOf)
    ?? FirstError(SortedBy(spec.links, KeyOf), LAMBDA l : EndpointErrors(spec, resolver, l))

CardKeys(spec) == SetToSortSeq(KeysOf(spec.cards, KeyOf), <)

CycleErrors(spec) ==
    {<<"CyclicDeck", w>> : w \in cycle_witness(CardKeys(spec), SortedBy(spec.links, KeyOf))}

-----------------------------------------------------------------------------
(* The lock: topology and resolved closure, every list in key order, and only *)
(* the delivery profiles some link uses.  The wire is those fields in order.  *)
ResolvedCardUse(c, d) ==
    [key |-> c.key, definition |-> d.definition, requested |-> c.requested, version |-> d.version,
     artifact |-> d.artifact, role |-> c.role, config |-> c.config,
     refinement |-> IF c.refinement = None THEN <<>> ELSE <<ByKey(d.refinements, ReferenceOf, c.refinement)>>,
     ports |-> SortedBy(d.ports, KeyOf)]

Mapped(s, f(_)) == SubSeq([i \in DOMAIN s |-> f(s[i])], 1, Len(s))

DeckTopology(spec) ==
    [card_keys |-> CardKeys(spec), links |-> SortedBy(spec.links, KeyOf),
     requirements |-> SortedBy(spec.requirements, KeyOf)]

ResolvedDeckClosure(spec, resolver) ==
    LET used == {spec.links[i].delivery_profile : i \in DOMAIN spec.links}
        required == {spec.requirements[i].reference : i \in DOMAIN spec.requirements}
    IN  [cards |-> Mapped(SortedBy(spec.cards, KeyOf),
                       LAMBDA c : ResolvedCardUse(c, ByKey(resolver.definitions, DefinitionOf, c.definition))),
         delivery_profiles |-> Mapped(SetToSortSeq(used, <), LAMBDA r : ByKey(resolver.delivery_profiles, ReferenceOf, r)),
         requirements |-> Mapped(SetToSortSeq(required, <), LAMBDA r : ByKey(resolver.requirements, ReferenceOf, r))]

encode_lock(deck_key, t, c) ==
    <<deck_key, t.card_keys, t.links, t.requirements, c.cards, c.delivery_profiles, c.requirements>>

DeckLock(spec, resolver) ==
    LET t == DeckTopology(spec)
        c == ResolvedDeckClosure(spec, resolver)
    IN  [deck_key |-> spec.deck_key, topology |-> t, closure |-> c,
         digest |-> <<"deck-lock", encode_lock(spec.deck_key, t, c)>>]

CompileErrors(spec, resolver) ==
       UnsupportedRequest(spec)
    ?? LimitErrors(spec, resolver)
    ?? CardErrors(spec)
    ?? DefinitionErrors(resolver)
    ?? ResolutionErrors(spec, resolver)
    ?? RequirementErrors(spec, resolver)
    ?? LinkErrors(spec, resolver)
    ?? CycleErrors(spec)

compile(spec, resolver) ==
    LET errors == CompileErrors(spec, resolver)
    IN  IF errors # {} THEN [locked |-> {}, error |-> errors]
        ELSE [locked |-> {DeckLock(spec, resolver)}, error |-> {}]

-----------------------------------------------------------------------------
(* The start order of services from their dependencies: the smallest ready    *)
(* service first, or a concrete cycle.  Shutdown is the reverse.              *)

CONSTANTS MAX_SERVICE_DEPENDENCY_EDGES, MAX_SERVICE_DEPENDENCY_VERTICES

SmallestOf(S) == CHOOSE x \in S : \A y \in S : x <= y

Consumers(edges, node) == SetToSortSeq({e.consumer : e \in {e \in edges : e.provider = node}}, <)

(* Kahn's loop: a service is ready when every provider of it has started.     *)
RECURSIVE startup_from(_, _, _)
startup_from(nodes, edges, startup) ==
    LET ready == {n \in nodes \ ToSet(startup) :
                     \A e \in edges : e.consumer = n => e.provider \in ToSet(startup)}
    IN  IF ready = {} THEN startup
        ELSE startup_from(nodes, edges, Append(startup, SmallestOf(ready)))

(* The coloured depth-first search for a cycle; path is the stack of frames.  *)
RECURSIVE descend(_, _, _), descend_along(_, _, _)
MutDescendAlong(targets, edges, s) ==
    IF targets = <<>> \/ s.witness # <<>> THEN s
    ELSE CASE s.state[Head(targets)] = 0 -> descend_along(Tail(targets), edges, descend(Head(targets), edges, s))
           [] s.state[Head(targets)] = 1 -> [s EXCEPT !.witness = Append(s.path, Head(targets))]
           [] OTHER -> descend_along(Tail(targets), edges, s)

descend(node, edges, s) ==
    LET after == descend_along(Consumers(edges, node), edges,
                     [s EXCEPT !.state[node] = 1, !.path = Append(@, node)])
    IN  IF after.witness # <<>> THEN after
        ELSE [after EXCEPT !.path = Front(@), !.state[node] = 2]
descend_along(targets, edges, s) ==
    IF targets = <<>> \/ s.witness # <<>> THEN s
    ELSE LET next == Head(targets)
             start == CHOOSE i \in DOMAIN s.path : s.path[i] = next
         IN  CASE s.state[next] = 0 -> descend_along(Tail(targets), edges, descend(next, edges, s))
               [] s.state[next] = 1 ->
                    [s EXCEPT !.witness = Append(SubSeq(s.path, start, Len(s.path)), next)]
               [] OTHER -> descend_along(Tail(targets), edges, s)

RECURSIVE witness_from(_, _, _)
witness_from(roots, edges, s) ==
    IF roots = <<>> \/ s.witness # <<>> THEN s.witness
    ELSE witness_from(Tail(roots), edges,
             IF s.state[Head(roots)] = 0 THEN descend(Head(roots), edges, s) ELSE s)

stable_cycle_witness(nodes, edges) ==
    witness_from(SetToSortSeq(nodes, <), edges,
        [state |-> [n \in nodes |-> 0], path |-> <<>>, witness |-> <<>>])

ServiceOrderError(kind, witness) == [startup |-> <<>>, shutdown |-> <<>>, error |-> {kind}, witness |-> witness]

validate_service_dependencies(dependencies) ==
    LET edges == ToSet(dependencies)
        nodes == {e.provider : e \in edges} \union {e.consumer : e \in edges}
        startup == startup_from(nodes, edges, <<>>)
    IN  IF Len(dependencies) > MAX_SERVICE_DEPENDENCY_EDGES
        THEN ServiceOrderError("TooManyEdges", <<>>)
        ELSE IF Cardinality(nodes) > MAX_SERVICE_DEPENDENCY_VERTICES
        THEN ServiceOrderError("TooManyVertices", <<>>)
        ELSE IF Cardinality(edges) # Len(dependencies)
        THEN ServiceOrderError("DuplicateDependency", <<>>)
        ELSE IF Len(startup) # Cardinality(nodes)
        THEN ServiceOrderError("Cycle", stable_cycle_witness(nodes, edges))
        ELSE [startup |-> startup, shutdown |-> Reverse(startup), error |-> {}, witness |-> <<>>]

-----------------------------------------------------------------------------
(* The planner: from the desired shape of one target, what is known of its    *)
(* previous one, the installed manifest and the allocation ledger, the exact  *)
(* content of a plan and the ledger delta that goes with it.                  *)
(*                                                                            *)
(* A manifest is the record [target, profile, fixture, empty_config]; its     *)
(* projection carries all of it and its digest names it.                      *)

OneSourceLoop == "OneSourceLoop"
EmptyTarget == "EmptyTarget"
Omitted == "Omitted"

PreviousTargetEligibility ==
    {"UninitializedNoneExactZero", "OneSourceLoopLiveReady", "OneSourceLoopRecoveryFailedExactZero",
     "EmptyDeactivateRetiring", "EmptyDeactivateTerminalExactZero", "Busy", "Ineligible"}

manifest_digest(m) == <<"manifest", m>>

-----------------------------------------------------------------------------
(* Content.                                                                   *)
PlanContentBytes(c) ==
    <<c.shape, c.target, c.manifest.profile, manifest_digest(c.manifest), c.manifest, c.manifest.fixture>>
        \o (IF c.shape = OneSourceLoop
            THEN <<c.deck_lock, c.subject.key, c.subject.instance, c.subject.domain, c.lifecycle, c.config>>
            ELSE <<>>)

LoopContent(target, manifest, lock, record, lifecycle, config) ==
    [target |-> target, shape |-> OneSourceLoop, manifest |-> manifest, deck_lock |-> lock.digest,
     subject |-> [key |-> record.key, instance |-> record.instance, domain |-> record.domain],
     lifecycle |-> lifecycle, config |-> config]

EmptyContent(target, manifest) == [target |-> target, shape |-> EmptyTarget, manifest |-> manifest]

(* No lifecycle budget may be zero.                                           *)
build_content(content) ==
    {c \in {content} :
        c.shape = OneSourceLoop => \A i \in DOMAIN c.lifecycle : c.lifecycle[i] # 0}

(* Stored bytes are taken apart field by field and the manifest facts in them *)
(* checked against the projection they carry.                                 *)
PlanContent_try_from_persisted(expected_target, bytes) ==
    IF /\ Len(bytes) >= 6
       /\ bytes[1] \in {OneSourceLoop, EmptyTarget}
       /\ Len(bytes) = IF bytes[1] = OneSourceLoop THEN 12 ELSE 6
       /\ bytes[2] = expected_target
       /\ bytes[4] = manifest_digest(bytes[5])
       /\ bytes[5].target = expected_target
       /\ bytes[3] = bytes[5].profile /\ bytes[6] = bytes[5].fixture
    THEN IF bytes[1] = EmptyTarget THEN {EmptyContent(bytes[2], bytes[5])}
         ELSE {c \in {LoopContent(bytes[2], bytes[5], [digest |-> bytes[7]],
                          [key |-> bytes[8], instance |-> bytes[9], domain |-> bytes[10]], bytes[11], bytes[12])} :
                  /\ \A i \in DOMAIN c.lifecycle : c.lifecycle[i] # 0
                  /\ c.config = c.manifest.empty_config}
    ELSE {}

candidate(content, delta) ==
    [content |-> content, allocation_delta |-> delta, content_digest |-> <<"plan-content", PlanContentBytes(content)>>]

-----------------------------------------------------------------------------
(* The gate on the previous target.  Each check is an error or nothing.       *)
validate_transition(previous, desired) ==
       If(previous = "Busy", "PreviousTargetBusy")
    ?? If(previous = "Ineligible", "PreviousTargetIneligible")
    ?? If(previous = "EmptyDeactivateRetiring", "PreviousTargetNotTerminal")
    ?? If(desired = OneSourceLoop /\ previous = "OneSourceLoopLiveReady", "LoopToLoopRejected")
    ?? If(desired = OneSourceLoop /\ previous = "OneSourceLoopRecoveryFailedExactZero",
          "ExplicitEmptyRequiredBeforeLoop")
    ?? If(desired = EmptyTarget /\ previous = "UninitializedNoneExactZero", "EmptyBootstrapRejected")
    ?? If(/\ desired = Omitted
          /\ previous \in {"OneSourceLoopLiveReady", "OneSourceLoopRecoveryFailedExactZero"},
          "ExplicitEmptyRequiredBeforeOmit")

validate_previous_allocation(previous, s) ==
    If(Cardinality(LiveRecords(s)) #
           IF previous \in {"UninitializedNoneExactZero", "EmptyDeactivateTerminalExactZero"} THEN 0 ELSE 1,
       "PreviousAllocationMismatch")

(* What a loop may be made of: one bare reference subject, the fixture the    *)
(* manifest was installed with.                                               *)
LoopShapeErrors(lock, manifest, config) ==
    LET t == lock.topology
        cards == lock.closure.cards
    IN     If(config # manifest.empty_config, "ConfigMismatch")
        ?? If(t.links # <<>>, "UnsupportedLink")
        ?? If(t.requirements # <<>>, "UnsupportedRequirement")
        ?? If(Len(t.card_keys) # 1 \/ Len(cards) # 1, "UnsupportedDeckShape")
        ?? If(cards[1].ports # <<>>, "UnsupportedPort")
        ?? If(cards[1].config # None, "UnsupportedPerUseConfig")
        ?? If(cards[1].refinement # <<>>, "UnsupportedRefinement")
        ?? If(cards[1].role # "ReferenceSubject", "UnsupportedGeneralCard")
        ?? If(t.card_keys[1] # cards[1].key, "UnsupportedDeckShape")
        ?? If(manifest.fixture # [definition |-> cards[1].definition, artifact |-> cards[1].artifact],
              "ManifestFixtureMismatch")

plan_loop(input) ==
    IF LoopShapeErrors(input.deck_lock, input.manifest, input.config) # {} THEN {}
    ELSE {candidate(c, a.delta) :
          <<a, c>> \in UNION {{<<a, c>> : c \in build_content(LoopContent(input.target, input.manifest,
                                              input.deck_lock, a.record, input.lifecycle, input.config))} :
                              a \in allocate_active(input.target, input.deck_lock.closure.cards[1].key,
                                        input.allocation)}}

plan_empty(input) ==
    {candidate(EmptyContent(input.target, input.manifest), d) : d \in retire_all(input.allocation)}

PlanErrors(input) ==
       validate_service_dependencies(input.service_dependencies).error
    ?? If(validate_service_dependencies(input.service_dependencies).startup # <<>>, "UnsupportedServiceDependency")
    ?? validate_transition(input.previous, input.desired)
    ?? If(input.allocation.target # input.target, "AllocationTargetMismatch")
    ?? validate_previous_allocation(input.previous, input.allocation)

ManifestErrors(input) ==
       If(input.manifest = None, "MissingManifestProjection")
    ?? If(input.manifest.target # input.target, "ManifestTargetMismatch")

(* The candidates, at most one: none for an error and none for Omitted.       *)
plan(input) ==
    IF PlanErrors(input) # {} \/ input.desired = Omitted THEN {}
    ELSE IF ManifestErrors(input) # {} THEN {}
    ELSE IF input.desired = OneSourceLoop THEN plan_loop(input) ELSE plan_empty(input)
=============================================================================
