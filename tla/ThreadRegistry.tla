--------------------------- MODULE ThreadRegistry ---------------------------
(***************************************************************************)
(* The thread plane of a runtime host: the ledger of planned threads       *)
(* (crates/paraegox-runtime/src/executor_budget.rs), the registry that     *)
(* owns every thread domain and settles it with the ledger                 *)
(* (thread_registry.rs), the domains and their worker threads              *)
(* and one card driven over a domain (ThreadDomain.tla).                   *)
(*                                                                         *)
(* The owner side is one thread: it makes one call at a time, and blocks   *)
(* in a shutdown or a drop.  The worker threads run beside it.  A pool is  *)
(* a bare ThreadDomain whose caller keeps the handles; a card is a         *)
(* ThreadComponentRuntime.                                                 *)
(***************************************************************************)
EXTENDS ThreadDomain

CONSTANTS
    Plans,          \* the plans a host may be started with: the domains in the order
                    \* of their references, what is planned for each, and a bound
                    \* on the messages and jobs they are given; every domain
                    \* is tried once
    MaximumThreads, FrameworkThreads,  \* the executor budget of the plan
    Messages, MailboxLimits            \* what is offered to a card, in this order

VARIABLES
    plan,           \* the plan of this host
    budget,         \* the ExecutorBudget
    owners,         \* the owned domains
    shutdown,       \* where the owner is in a shutdown or a drop
    stopping,       \* the host has begun to stop
    now,            \* the clock
    report          \* what the last call of the owner answered, if it matters

vars == <<plan, budget, owners, shutdown, stopping, now, report>>

ThreadRegistryConstants ==
    /\ FrameworkThreads \in 1..MaximumThreads
    /\ \A p \in Plans : \A i \in DOMAIN p.refs : p.spec[p.refs[i]].kind \in {"Card", "Pool"}

Refs == plan.refs
SpecOf == plan.spec
MaxWork == plan.work

-----------------------------------------------------------------------------
(* The ledger.  Its sums stay far below 2^32.                              *)

Sum(f) == MapThenSumSet(LAMBDA k : f[k], DOMAIN f)
Managed(active) == Sum([r \in DOMAIN active |-> active[r].managed_workers])
Native(active) == Sum([r \in DOMAIN active |-> active[r].native_threads])

ExecutorBudget_new == [managed |-> 0, native |-> 0, next |-> 0, active |-> [r \in {} |-> 0]]

validate_budget(b) ==
    /\ FrameworkThreads \in 1..MaximumThreads
    /\ b.managed = Managed(b.active) /\ b.native = Native(b.active)
    /\ FrameworkThreads + b.managed + b.native <= MaximumThreads

reservation_total(b, managed, native) == FrameworkThreads + b.managed + managed + b.native + native

try_reserve(b, managed, native) ==
    IF /\ validate_budget(b) /\ managed # 0
       /\ reservation_total(b, managed, native) <= MaximumThreads
    THEN LET record == [managed_workers |-> managed, native_threads |-> native]
         IN  {[budget |-> [b EXCEPT !.managed = @ + managed, !.native = @ + native, !.next = @ + 1,
                                    !.active = (b.next + 1 :> record) @@ @],
               reservation |-> [id |-> b.next + 1, managed_workers |-> managed, native_threads |-> native]]}
    ELSE {}

proof_matches(proof) ==
    /\ proof.started = proof.joined
    /\ proof.started <= proof.reservation.managed_workers
    /\ proof.kind = "CompleteShutdown" => proof.started = proof.reservation.managed_workers

release(b, proof) ==
    LET id == proof.reservation.id IN
    IF /\ validate_budget(b)
       /\ id \in DOMAIN b.active
       /\ b.active[id].managed_workers = proof.reservation.managed_workers
       /\ b.active[id].native_threads = proof.reservation.native_threads
       /\ proof_matches(proof)
    THEN {[b EXCEPT !.managed = @ - proof.reservation.managed_workers,
                    !.native = @ - proof.reservation.native_threads,
                    !.active = Without(@, {id})]}
    ELSE {}

\* The plan against an observed inventory.
evaluate_observation(b, observed) ==
    /\ validate_budget(b)
    /\ observed.framework + observed.managed + observed.native + observed.unknown <= MaximumThreads
    /\ observed.framework = FrameworkThreads
    /\ observed.managed = b.managed
    /\ observed.native <= b.native
    /\ observed.unknown = 0

-----------------------------------------------------------------------------
(* The registry.                                                           *)

NoShutdown == [at |-> "Idle", left |-> <<>>, waiting |-> FALSE]

Owned == DOMAIN owners
Free == shutdown.at = "Idle"

\* Answers worth remembering: a completion, and those no call should give.
Internal == {"WorkerUnavailable", "WorkerDispatchFailed", "ImplementationUnavailable",
             "InflightTokenMismatch", "JoinProofUnavailable", "StateInconsistent", "NonZeroShutdown"}
Remember(what) == report' = IF what \in Internal \cup {"Completed"} THEN what ELSE "None"
Forget == report' = "None"

Unowned ==
    /\ budget = ExecutorBudget_new
    /\ owners = [r \in {} |-> 0]
    /\ shutdown = NoShutdown /\ stopping = FALSE
    /\ now = 0 /\ report = "None"

Init == plan \in Plans /\ Unowned

Pool(d) == [kind |-> "Pool", domain |-> d, handles |-> [i \in {} |-> FALSE], proofs |-> {}]
Card(c) == [kind |-> "Card", domain |-> c.domain, component |-> c, proofs |-> {}]

\* A card's domain is the one its component holds.
WithComponent(o, c) == [o EXCEPT !.component = c, !.domain = c.domain]
WithDomain(o, d) == IF o.kind = "Card" THEN WithComponent(o, [o.component EXCEPT !.domain = d])
                    ELSE [o EXCEPT !.domain = d]

NewOwner(ref, d) ==
    IF SpecOf[ref].kind = "Card" THEN Card(from_prepared(MailboxLimits, d)) ELSE Pool(d)

admits(ref) ==
    /\ ref \notin Owned
    /\ SpecOf[ref].native_threads = 0
    /\ SpecOf[ref].drain_budget # 0
    /\ SpecOf[ref].kind = "Card" => Prepared(SpecOf[ref].slice) # {}

Failures(ref) == [worker : 1..SpecOf[ref].workers, spawned : BOOLEAN] \cup {NoFailure}

\* install and try_create: reserve, build, and on failure give back what the
\* joined threads had reserved.
try_create_owner(ref, failure) ==
    /\ Free /\ ~stopping
    /\ budget.next < Len(Refs)
    /\ admits(ref)
    /\ \E r \in try_reserve(budget, SpecOf[ref].workers, 0) :
         LET built == try_new(SpecOf[ref].workers, r.reservation, failure) IN
         IF built.ok
         THEN /\ owners' = (ref :> NewOwner(ref, built.domain)) @@ owners
              /\ budget' = r.budget
         ELSE /\ budget' \in release(r.budget, built.proof)
              /\ UNCHANGED owners
    /\ Forget
    /\ UNCHANGED <<plan, shutdown, stopping, now>>

-----------------------------------------------------------------------------
(* Calls on a pool.                                                        *)

WorkGiven(o) == IF o.kind = "Card" THEN o.component.mailbox.offered ELSE o.domain.next_invocation
MoreWork == Sum([ref \in Owned |-> WorkGiven(owners[ref])]) < MaxWork

OnDomain(ref, d) == owners' = [owners EXCEPT ![ref] = WithDomain(@, d)]
Quiet == UNCHANGED <<plan, budget, shutdown, stopping, now>>

PoolSubmit(ref, builds) ==
    /\ Free /\ owners[ref].kind = "Pool"
    /\ MoreWork
    /\ LET s == try_submit(owners[ref].domain, [kind |-> "Job"], builds) IN
         /\ owners' = [owners EXCEPT ![ref] =
                         [WithDomain(@, s.domain) EXCEPT
                            !.handles = IF s.answer = "Submitted" THEN (s.inv :> FALSE) @@ @ ELSE @]]
         /\ Remember(s.answer)
    /\ Quiet

PoolMark(ref, i, phase) ==
    /\ Free /\ owners[ref].kind = "Pool" /\ i \in DOMAIN owners[ref].handles
    /\ LET m == mark_invocation(owners[ref].domain, i, phase) IN
         OnDomain(ref, m.domain) /\ Remember(m.answer)
    /\ Quiet

\* A consumed handle is of no further use and is forgotten.
PoolTake(ref, i) ==
    /\ Free /\ owners[ref].kind = "Pool" /\ i \in DOMAIN owners[ref].handles
    /\ LET t == try_take_completion(owners[ref].domain, i, owners[ref].handles[i]) IN
         /\ owners' = [owners EXCEPT ![ref] =
                         [WithDomain(@, t.domain) EXCEPT
                            !.handles = IF t.answer \in {"Pending", "WorkerUnavailable"}
                                        THEN [@ EXCEPT ![i] = t.observed] ELSE Without(@, {i})]]
         /\ Remember(t.answer)
    /\ Quiet

PoolDrop(ref, i) ==
    /\ owners[ref].kind = "Pool" /\ i \in DOMAIN owners[ref].handles
    /\ owners' = [owners EXCEPT ![ref] =
                    [WithDomain(@, fence_abandoned_invocation(@.domain, i)) EXCEPT !.handles = Without(@, {i})]]
    /\ Forget /\ Quiet

-----------------------------------------------------------------------------
(* Calls on a card.                                                        *)

OnCard(ref, reply) ==
    /\ owners' = [owners EXCEPT ![ref] = WithComponent(@, reply.component)]
    /\ Remember(reply.answer)
    /\ Quiet

CardIs(ref) == Free /\ owners[ref].kind = "Card"

CardOffer(ref) ==
    /\ CardIs(ref) /\ MoreWork
    /\ LET c == owners[ref].component IN
         OnCard(ref, ThreadComponent_try_offer(c, Messages[c.mailbox.offered + 1], now))

CardDispatch(ref) == CardIs(ref) /\ OnCard(ref, try_dispatch_once(owners[ref].component, now))
CardPoll(ref) == CardIs(ref) /\ OnCard(ref, poll_pending(owners[ref].component, now))
CardCancel(ref) == CardIs(ref) /\ OnCard(ref, request_pending_cancellation(owners[ref].component, now))
CardMark(ref, phase) == CardIs(ref) /\ OnCard(ref, mark_pending(owners[ref].component, phase))

-----------------------------------------------------------------------------
(* Shutdown: every owner is stopped with no budget, then waited for within *)
(* its own, then every proof is settled.                                   *)

OwnedRefs == SelectSeq(Refs, LAMBDA r : r \in Owned)

ShutdownStarts ==
    /\ Free /\ Owned # {}
    /\ shutdown' = [NoShutdown EXCEPT !.at = "Phase1", !.left = OwnedRefs]
    /\ stopping' = TRUE
    /\ Forget /\ UNCHANGED <<plan, budget, owners, now>>

\* The part of shutdown_and_prove before its wait.
shutdown_begins(o) ==
    IF o.kind = "Pool" THEN [owner |-> WithDomain(o, begin_shutdown(o.domain)), answer |-> "Draining"]
    ELSE Only({[owner |-> WithComponent(o, b.component), answer |-> b.answer] :
               b \in {component_shutdown_begins(o.component)}})

\* And after it.
Gave(owner, answer) == [owner |-> owner, answer |-> answer]

WithProof(o) ==
    Only({Gave([WithDomain(o, t.domain) EXCEPT !.proofs = {t.proof}], "Complete") : t \in {take_join_proof(o.domain)}})

pool_ends(o) ==
    IF o.domain.cleanup_panics # 0 THEN Gave(o, "Failed")
    ELSE IF ~complete(o.domain) THEN Gave(o, "Incomplete")
    ELSE IF ~can_take_join_proof(o.domain) THEN Gave(o, "JoinProofUnavailable")
    ELSE WithProof(o)

card_ends(o) ==
    IF ~complete(o.domain) THEN Gave(o, IF o.domain.cleanup_panics # 0 THEN "Failed" ELSE "Incomplete")
    ELSE Only({IF e.answer # "Complete" THEN Gave(WithComponent(o, e.component), e.answer)
               ELSE WithProof(WithComponent(o, e.component)) : e \in {component_shutdown_ends(o.component)}})

shutdown_ends(o) ==
    Only({IF o.kind = "Pool" THEN pool_ends(waited) ELSE card_ends(waited) :
          waited \in {WithDomain(o, shutdown_returns(o.domain))}})

\* The loop goes to its next owner, whatever this one answered.
Advance ==
    LET next == [shutdown EXCEPT !.left = Tail(@), !.waiting = FALSE]
    IN  IF next.left # <<>> THEN next
        ELSE IF shutdown.at = "Phase1" THEN [next EXCEPT !.at = "Phase2", !.left = OwnedRefs]
        ELSE [next EXCEPT !.at = "Settle"]

InPhase == shutdown.at \in {"Phase1", "Phase2"}

\* An owner that gave its proof is not asked again.
OwnerBegins ==
    /\ InPhase /\ ~shutdown.waiting
    /\ \E ref \in {Head(shutdown.left)} : \E begun \in {shutdown_begins(owners[ref])} :
           IF owners[ref].proofs # {}
           THEN shutdown' = Advance /\ Forget /\ UNCHANGED owners
           ELSE /\ owners' = [owners EXCEPT ![ref] = begun.owner]
                /\ shutdown' = IF begun.answer = "Draining" THEN [shutdown EXCEPT !.waiting = TRUE]
                               ELSE Advance
                /\ Remember(begun.answer)
    /\ UNCHANGED <<plan, budget, stopping, now>>

\* The join of a pool whose workers have all published their exit.
joinable(d) == AllExited(d) => Alive(d) = {}

OwnerReturns ==
    /\ InPhase /\ shutdown.waiting
    /\ \E ref \in {Head(shutdown.left)} : \E ended \in {shutdown_ends(owners[ref])} :
           /\ joinable(owners[ref].domain)
           /\ owners' = [owners EXCEPT ![ref] = ended.owner]
           /\ shutdown' = Advance
           /\ Remember(IF ended.answer = "NonZeroShutdown" /\ ended.owner.domain.cleanup_panics # 0
                       THEN "Failed" ELSE ended.answer)
    /\ UNCHANGED <<plan, budget, stopping, now>>

Proven == {ref \in Owned : owners[ref].proofs # {}}
ProofOf(ref) == CHOOSE p \in owners[ref].proofs : TRUE

\* The ledger after the proofs of refs, taken in order; refused ones stay.
RECURSIVE Settled(_, _)
Settled(b, refs) ==
    IF refs = <<>> THEN [budget |-> b, released |-> {}]
    ELSE LET after == IF Head(refs) \in Proven THEN release(b, ProofOf(Head(refs))) ELSE {}
             rest == Settled(IF after = {} THEN b ELSE CHOOSE x \in after : TRUE, Tail(refs))
         IN  [rest EXCEPT !.released = @ \cup (IF after = {} THEN {} ELSE {Head(refs)})]

Settle ==
    /\ shutdown.at = "Settle"
    /\ LET s == Settled(budget, OwnedRefs)
           remaining == Owned \ s.released
       IN  /\ budget' = s.budget
           /\ owners' = Without(owners, s.released)
           /\ Remember(IF Proven \ s.released # {} THEN "StateInconsistent"
                       ELSE IF remaining # {} THEN "DrainIncomplete"
                       ELSE IF DOMAIN s.budget.active # {} \/ s.budget.managed # 0 THEN "StateInconsistent"
                       ELSE "None")
    /\ shutdown' = NoShutdown
    /\ UNCHANGED <<plan, stopping, now>>

-----------------------------------------------------------------------------
(* Abnormal drop of the registry: every owner in turn, each joined before  *)
(* the next; nothing is given back to the ledger, which goes with it.      *)

DropStarts ==
    /\ Free /\ Owned # {}
    /\ shutdown' = [NoShutdown EXCEPT !.at = "Dropping", !.left = OwnedRefs]
    /\ stopping' = TRUE
    /\ Forget /\ UNCHANGED <<plan, budget, owners, now>>

DropBegins ==
    /\ shutdown.at = "Dropping" /\ ~shutdown.waiting
    /\ LET ref == Head(shutdown.left) IN
         owners' = [owners EXCEPT ![ref] =
                      IF @.kind = "Pool" THEN WithDomain(@, begin_shutdown(@.domain))
                      ELSE WithComponent(@, component_drop_begins(@.component))]
    /\ shutdown' = [shutdown EXCEPT !.waiting = TRUE]
    /\ Forget /\ UNCHANGED <<plan, budget, stopping, now>>

DropEnds ==
    /\ shutdown.at = "Dropping" /\ shutdown.waiting
    /\ Alive(owners[Head(shutdown.left)].domain) = {}
    /\ owners' = Without(owners, {Head(shutdown.left)})
    /\ shutdown' = IF Tail(shutdown.left) = <<>> THEN [NoShutdown EXCEPT !.at = "Dropped"]
                   ELSE [shutdown EXCEPT !.left = Tail(@), !.waiting = FALSE]
    /\ Forget /\ UNCHANGED <<plan, budget, stopping, now>>

-----------------------------------------------------------------------------
(* The threads and the clock.                                              *)

OnThread(ref, d) == OnDomain(ref, d) /\ Forget /\ Quiet

Receive(ref, w) == Receives(owners[ref].domain, w) /\ OnThread(ref, worker_main(owners[ref].domain, w))

Outcomes(work) == IF work.kind = "Job" THEN {Returned(work), Panicked} ELSE results(work)

CallableReturns(ref, w) ==
    /\ Runs(owners[ref].domain, w)
    /\ \E outcome \in Outcomes(WorkOf(owners[ref].domain, w)) :
          OnThread(ref, run_work(owners[ref].domain, w, owners[ref].domain.threads[w].inv, outcome))

SeeVerdict(ref, w) ==
    /\ Judged(owners[ref].domain, w)
    /\ OnThread(ref, await_verdict(owners[ref].domain, w, owners[ref].domain.threads[w].inv))

\* A rejected value may carry a destructor that panics.
CleanUp(ref, w) ==
    /\ Cleans(owners[ref].domain, w)
    /\ \E panics \in BOOLEAN :
         /\ panics => owners[ref].domain.threads[w].held.tag = "Returned"
         /\ OnThread(ref, cleanup(owners[ref].domain, w, owners[ref].domain.threads[w].inv, panics))

ThreadEnds(ref, w) == Returns(owners[ref].domain, w) /\ OnThread(ref, thread_returns(owners[ref].domain, w))

ThreadStep(ref, w) ==
    \/ Receive(ref, w)
    \/ CallableReturns(ref, w)
    \/ SeeVerdict(ref, w)
    \/ CleanUp(ref, w)
    \/ ThreadEnds(ref, w)

Tick ==
    /\ Free /\ ~stopping /\ now <= MaxClock
    /\ \E ref \in Owned : /\ owners[ref].kind = "Card"
                          /\ owners[ref].component.timing # NoTiming \/ owners[ref].component.mailbox.queue # <<>>
    /\ now' = now + 1
    /\ Forget /\ UNCHANGED <<plan, budget, owners, shutdown, stopping>>

SomeThread == \E ref \in Owned : \E w \in DOMAIN owners[ref].domain.threads : ThreadStep(ref, w)

Next ==
    \/ \E i \in DOMAIN Refs : \E f \in Failures(Refs[i]) : try_create_owner(Refs[i], f)
    \/ \E ref \in Owned, builds \in BOOLEAN : PoolSubmit(ref, builds)
    \/ \E ref \in Owned : \E i \in 1..MaxWork, p \in {"CancellationRequested", "Wedged"} :
          PoolMark(ref, i, p)
    \/ \E ref \in Owned : \E i \in 1..MaxWork : PoolTake(ref, i) \/ PoolDrop(ref, i)
    \/ \E ref \in Owned : CardOffer(ref) \/ CardDispatch(ref) \/ CardPoll(ref) \/ CardCancel(ref)
    \/ \E ref \in Owned, p \in {"Uncertain", "Wedged"} : CardMark(ref, p)
    \/ ShutdownStarts \/ OwnerBegins \/ OwnerReturns \/ Settle
    \/ DropStarts \/ DropBegins \/ DropEnds
    \/ SomeThread
    \/ Tick

OwnerStep == ShutdownStarts \/ OwnerBegins \/ OwnerReturns \/ Settle \/ DropBegins \/ DropEnds

\* While a stopping host has a thread that can run, some thread does: an
\* admitted callable has a bounded block (BlockingRisk::Bounded).  A host that
\* stops repeats an incomplete shutdown.
Fairness ==
    /\ WF_vars(stopping /\ OwnerStep)
    /\ WF_vars(stopping /\ SomeThread)

Spec == Init /\ [][Next]_vars /\ Fairness
-----------------------------------------------------------------------------
(* Properties.                                                             *)

\* Where the card of an owner is: with the owner, in a command, on the
\* running thread, in a result slot, being destroyed.
CardHolders(o) ==
    (IF o.component.implementation THEN {"Owner"} ELSE {})
    \cup {<<"Cell", w>> : w \in {v \in DOMAIN o.domain.cells : /\ o.domain.cells[v] # <<>>
                                                           /\ Head(o.domain.cells[v]).tag = "Run"
                                                           /\ Head(o.domain.cells[v]).work.card}}
    \cup {<<"Thread", w>> : w \in {v \in DOMAIN o.domain.threads : /\ o.domain.threads[v].held.tag = "Returned"
                                                                 /\ o.domain.threads[v].held.value.card}}
    \cup {<<"Slot", i>> : i \in {j \in DOMAIN o.domain.active : /\ o.domain.active[j].outcome.tag = "Returned"
                                                              /\ o.domain.active[j].outcome.value.card}}

\* Workers, command cells, records and threads always tell one story: a
\* worker is charged exactly while an invocation of it is active, an idle one
\* has an empty cell and a thread that comes back to it, and a thread that
\* handed its result over never touches the cell of its successor.  The card
\* is in one place at most, and in one while its owner accepts messages.
DomainsAccounted ==
    \A ref \in Owned :
        /\ DomainAccounted(owners[ref].domain)
        /\ owners[ref].kind = "Card" =>
              /\ Cardinality(CardHolders(owners[ref])) <= 1
              /\ owners[ref].component.lifecycle = "Accepting" /\ shutdown.at # "Dropping" =>
                    CardHolders(owners[ref]) # {}

\* The errors the code keeps for broken invariants never happen: no command
\* cell is full or abandoned when it is used, no accepted token is unknown to
\* its mailbox, no card is missing, and a complete shutdown always has its
\* proof, its empty mailbox and its place in the ledger.
NoInternalError == report \notin Internal

CompletedCards == {ref \in Owned \cap DOMAIN owners' :
                     /\ owners[ref].kind = "Card"
                     /\ owners[ref].component.pending # NoPending
                     /\ owners'[ref].component.pending = NoPending}

\* A completion is accepted only by a poll before the signed run deadline, of
\* an invocation nothing has fenced: a late poll never launders a callback
\* that returned after its bound (poll_pending).
CompletedInTime ==
    [][report' = "Completed" =>
         \A ref \in CompletedCards :
            LET c == owners[ref].component IN
            /\ now < c.timing.run_deadline
            /\ c.domain.control[c.pending.inv] = "Open"]_vars

OsThreads == MapThenSumSet(LAMBDA ref : Cardinality(Alive(owners[ref].domain)), Owned)

Undisturbed == \A ref \in Owned : owners[ref].domain.lifecycle \notin {"Closing", "Closed"}

\* The ledger never counts fewer threads than exist, whoever timed out, was
\* cancelled or wedged; and until an owner is being closed the census of the
\* registry agrees with the plan (evaluate_observation).
LedgerCoversThreads ==
    shutdown.at \notin {"Dropping", "Dropped"} =>
        /\ budget.managed >= OsThreads
        /\ Undisturbed => evaluate_observation(budget, [framework |-> FrameworkThreads, managed |-> OsThreads,
                                                        native |-> 0, unknown |-> 0])

\* Every owner is joined and gone, unless a destructor panicked, which keeps
\* its owner for good.
Joined == Owned = {} \/ \E ref \in Owned : owners[ref].domain.cleanup_panics # 0
=============================================================================
