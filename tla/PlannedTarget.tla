----------------------------- MODULE PlannedTarget -----------------------------
(* Planning at work.  Three desks that share the planner's code: an author    *)
(* lists the cards and links of a deck in any order, an operator lists        *)
(* service dependencies, and a target is planned loop after empty after loop  *)
(* while the runtime reports what became of the last plan.                    *)
EXTENDS DeploymentPlanner

CONSTANTS
    Cards, Links,                    \* what an author may add to a deck
    Drafts,                          \* the specs and resolver snapshots an author starts from
    CardBound, LinkBound,            \* the longest lists written
    Services, DependencyBound,
    Target, Manifest,
    LoopDecks, LoopResolver          \* the decks the target is given

VARIABLES desk, spec, resolver, dependencies, allocation, previous, content
vars == <<desk, spec, resolver, dependencies, allocation, previous, content>>

EmptySpec == [deck_key |-> 1, ownership |-> "Deployment", lifetime |-> "Deployment", cards |-> <<>>,
              links |-> <<>>, requirements |-> <<>>, display |-> <<>>]

Init ==
    /\ desk \in {"deck", "services", "target"}
    /\ \E d \in IF desk = "deck" THEN Drafts ELSE {[spec |-> EmptySpec, resolver |-> LoopResolver]} :
          spec = d.spec /\ resolver = d.resolver
    /\ dependencies = <<>>
    /\ allocation \in StableAllocationSnapshot_try_new(Target, 0, 0, {})
    /\ previous = "UninitializedNoneExactZero"
    /\ content = None

-----------------------------------------------------------------------------
(* The deck.                                                                  *)
AddCard(card) ==
    /\ desk = "deck" /\ spec.links = <<>> /\ Len(spec.cards) < CardBound
    /\ spec' = [spec EXCEPT !.cards = Append(@, card)]
    /\ UNCHANGED <<desk, resolver, dependencies, allocation, previous, content>>

AddLink(link) ==
    /\ desk = "deck" /\ Len(spec.cards) = CardBound /\ Len(spec.links) < LinkBound
    /\ spec' = [spec EXCEPT !.links = Append(@, link)]
    /\ UNCHANGED <<desk, resolver, dependencies, allocation, previous, content>>

(* The dependencies.                                                          *)
AddDependency(provider, consumer) ==
    /\ desk = "services" /\ Len(dependencies) < DependencyBound
    /\ dependencies' = Append(dependencies, [provider |-> provider, consumer |-> consumer])
    /\ UNCHANGED <<desk, spec, resolver, allocation, previous, content>>

-----------------------------------------------------------------------------
(* The target.  Its lifecycle budgets and configuration are valid ones.       *)
PlannerInput(desired, lock) ==
    [target |-> Target, desired |-> desired, previous |-> previous, manifest |-> Manifest,
     allocation |-> allocation, service_dependencies |-> <<>>,
     deck_lock |-> lock, lifecycle |-> <<1, 1, 1>>, config |-> Manifest.empty_config]

(* A candidate is committed together with its delta; from then on the target  *)
(* is busy with it.                                                           *)
Commit(c) ==
    /\ allocation' \in apply_delta(allocation, c.allocation_delta)
    /\ content' = c.content
    /\ previous' = "Busy"
    /\ UNCHANGED <<desk, spec, resolver, dependencies>>

PlanLoop ==
    /\ desk = "target"
    /\ \E deck \in LoopDecks : \E lock \in compile(deck, resolver).locked :
          \E c \in plan(PlannerInput(OneSourceLoop, lock)) : Commit(c)

PlanEmpty ==
    /\ desk = "target"
    /\ \E c \in plan(PlannerInput(EmptyTarget, None)) : Commit(c)

(* What the runtime may report of the committed plan.                         *)
Report ==
    /\ desk = "target" /\ content # None
    /\ previous' \in IF content.shape = OneSourceLoop
                     THEN {"Ineligible", "OneSourceLoopLiveReady", "OneSourceLoopRecoveryFailedExactZero"}
                     ELSE {"Ineligible", "EmptyDeactivateRetiring", "EmptyDeactivateTerminalExactZero"}
    /\ previous' # previous
    /\ UNCHANGED <<desk, spec, resolver, dependencies, allocation, content>>

Next ==
    \/ \E card \in Cards : AddCard(card)
    \/ \E link \in Links : AddLink(link)
    \/ \E p, c \in Services : AddDependency(p, c)
    \/ PlanLoop
    \/ PlanEmpty
    \/ Report

Spec == Init /\ [][Next]_vars

-----------------------------------------------------------------------------
(* Reference definitions.                                                     *)
Reach(nodes, edge(_, _)) ==
    LET reach[n \in 1..Cardinality(nodes)] ==
            IF n = 1 THEN {p \in nodes \X nodes : edge(p[1], p[2])}
            ELSE reach[n - 1] \union {p \in nodes \X nodes :
                     \E m \in nodes : <<p[1], m>> \in reach[n - 1] /\ edge(m, p[2])}
    IN  IF nodes = {} THEN {} ELSE reach[Cardinality(nodes)]

DeckEdge(s, x, y) == \E i \in DOMAIN s.links : s.links[i].source.card = x /\ s.links[i].target.card = y

(* The links of a witness lead from each of its cards to the next.            *)
WitnessIsCycle(s, w) ==
    /\ Len(w.links) >= 1 /\ Len(w.cards) = Len(w.links) + 1
    /\ w.cards[1] = w.cards[Len(w.cards)]
    /\ \A i \in DOMAIN w.links : \E j \in DOMAIN s.links :
          /\ s.links[j].key = w.links[i]
          /\ s.links[j].source.card = w.cards[i] /\ s.links[j].target.card = w.cards[i + 1]

(* A deck the compiler locks has no cycle of links, and one it refuses as     *)
(* cyclic has: the cards and links it names are a closed walk of the deck,    *)
(* all inside one strong component.                                           *)
DeckCyclesRefused ==
    desk = "deck" =>
        \E r \in {compile(spec, resolver)} :
            LET cards == KeysOf(spec.cards, KeyOf)
                reach == Reach(cards, LAMBDA x, y : DeckEdge(spec, x, y))
            IN  /\ r.locked # {} => \A x \in cards : <<x, x>> \notin reach
                /\ \A e \in r.error : e[1] = "CyclicDeck" =>
                      /\ WitnessIsCycle(spec, e[2])
                      /\ \A x, y \in ToSet(e[2].component) : <<x, y>> \in reach
                      /\ ToSet(e[2].cards) \subseteq ToSet(e[2].component)

ReversedDefinition(d) == [d EXCEPT !.ports = Reverse(@), !.refinements = Reverse(@)]
ReversedSpec(s) ==
    [s EXCEPT !.cards = Reverse(@), !.links = Reverse(@), !.requirements = Reverse(@), !.display = Reverse(@)]
ReversedResolver(r) ==
    [r EXCEPT !.definitions = Reverse(Mapped(@, ReversedDefinition)), !.delivery_profiles = Reverse(@),
              !.requirements = Reverse(@)]

(* The outcome, lock or error, is the same whatever order the author and the  *)
(* resolver list things in: against the reversed lists and the sorted ones.   *)
CompileIgnoresOrder ==
    desk = "deck" =>
        \E r \in {compile(spec, resolver)} :
            /\ r = compile(ReversedSpec(spec), ReversedResolver(resolver))
            /\ r = compile([spec EXCEPT !.cards = SortedBy(@, KeyOf), !.links = SortedBy(@, KeyOf)], resolver)

(* Services start after everything they depend on and stop before it, each    *)
(* once; a refusal as cyclic names a walk of dependencies back to its start.  *)
ServicesStartInOrder ==
    desk = "services" =>
        \E o \in {validate_service_dependencies(dependencies)} :
            /\ o.error = {} => \A i \in DOMAIN dependencies :
                  \E p, c \in DOMAIN o.startup :
                      /\ o.startup[p] = dependencies[i].provider /\ o.startup[c] = dependencies[i].consumer
                      /\ p < c
                      /\ o.shutdown[Len(o.startup) + 1 - p] = dependencies[i].provider
            /\ o.error = {} => \A p, c \in DOMAIN o.startup : o.startup[p] = o.startup[c] => p = c
            /\ o.error = {"Cycle"} =>
                  /\ Len(o.witness) >= 2 /\ o.witness[1] = o.witness[Len(o.witness)]
                  /\ \A i \in 1..(Len(o.witness) - 1) :
                        [provider |-> o.witness[i], consumer |-> o.witness[i + 1]] \in ToSet(dependencies)

(* Whatever runs can be retired: from every live or failed target, however    *)
(* many generations were spent, an empty plan exists, its delta applies, and  *)
(* the ledger it leaves re-validates as a successor with nothing live.  The   *)
(* content read back from its stored bytes is the content planned.            *)
LiveTargetCanRetire ==
    previous \in {"OneSourceLoopLiveReady", "OneSourceLoopRecoveryFailedExactZero"} =>
        \E c \in plan(PlannerInput(EmptyTarget, None)) :
            /\ \E s \in apply_delta(allocation, c.allocation_delta) :
                  allocation_validate_successor_of(s, allocation) /\ LiveRecords(s) = {}
            /\ PlanContent_try_from_persisted(Target, PlanContentBytes(c.content)) = {c.content}

=============================================================================
