---------------------------- MODULE ThreadDomain -----------------------------
(***************************************************************************)
(* One fixed pool of worker threads (thread_domain.rs) as a value: the     *)
(* state behind the mutex, the one-slot command cell and the position of   *)
(* every worker thread, and one operator per critical section.  A step of  *)
(* the owner and a step of a worker are each what one of them does between *)
(* taking and giving up the mutex.  After it, one card driven over such a  *)
(* pool (thread_component_runtime.rs).                                     *)
(*                                                                         *)
(* The mutex is never poisoned: every call of user code is caught outside  *)
(* it.  Identities of the owner and of the domain epoch never differ here  *)
(* (validate_fence), a handle belongs to the domain that issued it.        *)
(***************************************************************************)
EXTENDS Integers, Sequences, FiniteSets, FiniteSetsExt, SequencesExt, MailboxState

\* A partial function without the keys K.
Without(f, K) == [k \in DOMAIN f \ K |-> f[k]]

-----------------------------------------------------------------------------
(* InvocationControl: the first terminal fence wins.                       *)

\* The member of a set of one: a value named once and used often.
Only(S) == CHOOSE x \in S : TRUE

precedence(reason) ==
    CASE reason = "Open" -> 0
      [] reason = "CancellationRequested" -> 1
      [] reason = "Uncertain" -> 2
      [] reason \in {"Wedged", "Shutdown", "HandleDropped"} -> 3

fence(current, reason) ==
    IF precedence(reason) <= precedence(current) THEN current ELSE reason

observable(reason) == reason # "Open"

\* ResultPending has no rank.
cancellation_rank(phase) ==
    CASE phase = "Running" -> 0
      [] phase = "CancellationRequested" -> 1
      [] phase = "Uncertain" -> 2
      [] phase = "Wedged" -> 3
      [] phase = "ResultPending" -> -1

-----------------------------------------------------------------------------
(* The state.  control[i] outlives the record of invocation i: it goes     *)
(* with the handle that shares it.                                         *)

Phase(tag, i) == [tag |-> tag, inv |-> i]
Idle == Phase("Idle", 0)
Stopping == Phase("Stopping", 0)
Exited == Phase("Exited", 0)
Occupied(phase) == phase.tag \in {"Running", "ResultPending", "Wedged"}

NoOutcome == [tag |-> "None"]
Panicked == [tag |-> "Panicked"]
Returned(value) == [tag |-> "Returned", value |-> value]

\* A thread waits for its command, runs a callable, waits for the verdict on
\* its result, destroys a rejected result, returns from its main function.
Parked == [at |-> "Parked", inv |-> 0, held |-> NoOutcome]
Thread(at, i, held) == [at |-> at, inv |-> i, held |-> held]

Shutdown == [tag |-> "Shutdown", inv |-> 0]
Run(i, work) == [tag |-> "Run", inv |-> i, work |-> work]

planned_workers(d) == Len(d.workers)
AllExited(d) == \A w \in DOMAIN d.workers : d.workers[w] = Exited
Alive(d) == {w \in DOMAIN d.threads : d.threads[w].at # "Gone"}

conserves_worker_capacity(d) ==
    Cardinality({w \in DOMAIN d.workers : Occupied(d.workers[w])}) = Cardinality(DOMAIN d.active)

-----------------------------------------------------------------------------
(* Construction.                                                           *)

\* A pool that cannot start all its workers joins those it started: failed is
\* the worker that did not start, spawned tells whether its thread exists.
JoinProof(kind, reservation, started, joined) ==
    [kind |-> kind, reservation |-> reservation, started |-> started, joined |-> joined]

stop_partially_built_workers(failed, spawned) == IF spawned THEN failed ELSE failed - 1

construction_failure(reservation, started, joined) ==
    [ok |-> FALSE, proof |-> JoinProof("ConstructionRollback", reservation, started, joined)]

new_domain(workers, reservation) ==
    [lifecycle |-> "Accepting",
     workers |-> [w \in 1..workers |-> Idle],
     active |-> [i \in {} |-> 0],
     next_invocation |-> 0, control |-> [i \in {} |-> 0],
     cells |-> [w \in 1..workers |-> <<>>],
     threads |-> [w \in 1..workers |-> Parked],
     joined |-> {}, cleanup_panics |-> 0,  \* none, or some
     reservation |-> {reservation}]

NoFailure == [worker |-> 0, spawned |-> FALSE]

try_new(workers, reservation, failure) ==
    IF reservation.managed_workers # workers \/ reservation.native_threads # 0
    THEN construction_failure(reservation, 0, 0)
    ELSE IF failure # NoFailure
    THEN LET n == stop_partially_built_workers(failure.worker, failure.spawned)
         IN  construction_failure(reservation, n, n)
    ELSE [ok |-> TRUE, domain |-> new_domain(workers, reservation)]

-----------------------------------------------------------------------------
(* Submission.  An answer is [domain, answer, inv].                        *)

Answer(d, what) == [domain |-> d, answer |-> what, inv |-> 0]

refusal(d) ==
    CASE d.lifecycle = "Degraded" -> "DomainDegraded"
      [] d.lifecycle \in {"Closing", "Closed"} -> "DomainClosing"
      [] d.lifecycle = "Poisoned" -> "DomainPoisoned"
      [] OTHER -> "CapacityExhausted"

IdleWorkers(d) == {w \in DOMAIN d.workers : d.workers[w] = Idle}

can_reserve(d) == d.lifecycle = "Accepting" /\ IdleWorkers(d) # {}

Reserved(d, w, i) ==
    [d EXCEPT !.active = (i :> [worker |-> w, phase |-> "Running", accepts_result |-> TRUE,
                                outcome |-> NoOutcome, disposition |-> "Pending"]) @@ @,
              !.workers[w] = Phase("Running", i),
              !.next_invocation = i,
              !.control = (i :> "Open") @@ @]

reserve_invocation(d) == Reserved(d, Min(IdleWorkers(d)), d.next_invocation + 1)

rollback_reservation(d, i, poison) ==
    [d EXCEPT !.workers[d.active[i].worker] = Idle,
              !.active = Without(@, {i}), !.control = Without(@, {i}),
              !.lifecycle = IF poison THEN "Poisoned" ELSE @]

\* A thread that is gone has dropped its end of the cell.
send_run(r, i, w, work) ==
    IF r.threads[w].at \in {"Exiting", "Gone"} THEN Answer(rollback_reservation(r, i, TRUE), "WorkerUnavailable")
    ELSE IF r.cells[w] # <<>> THEN Answer(rollback_reservation(r, i, TRUE), "WorkerDispatchFailed")
    ELSE [domain |-> [r EXCEPT !.cells[w] = <<Run(i, work)>>], answer |-> "Submitted", inv |-> i]

submit_reserved(r, i, work, builds) ==
    IF builds THEN send_run(r, i, r.active[i].worker, work)
    ELSE Answer(rollback_reservation(r, i, FALSE), "CallableBuildPanicked")

\* work is what the built callable is to do; the builder itself may panic.
try_submit(d, work, builds) ==
    IF can_reserve(d)
    THEN Only({submit_reserved(r, d.next_invocation + 1, work, builds) : r \in {reserve_invocation(d)}})
    ELSE Answer(d, refusal(d))

-----------------------------------------------------------------------------
(* Fences.                                                                 *)

phase_of_reason(reason) ==
    IF reason \in {"Shutdown", "HandleDropped"} THEN "CancellationRequested" ELSE reason

\* A weaker intent than the one recorded changes nothing.
already_stronger(record, phase) ==
    record.phase # "ResultPending" /\ cancellation_rank(phase) < cancellation_rank(record.phase)

fence_record(d, i, w, effective) ==
    [d EXCEPT !.control[i] = effective,
              !.active[i] = [@ EXCEPT !.accepts_result = FALSE, !.disposition = "Fenced",
                                      !.phase = IF @ = "Wedged" THEN @ ELSE phase_of_reason(effective)],
              !.workers[w] = IF effective = "Wedged" THEN Phase("Wedged", i) ELSE @,
              !.lifecycle = IF effective = "Wedged" /\ @ = "Accepting" THEN "Degraded" ELSE @]

mark_invocation(d, i, phase) ==
    IF i \notin DOMAIN d.active THEN Answer(d, "InvocationNotActive")
    ELSE IF already_stronger(d.active[i], phase) THEN Answer(d, "Marked")
    ELSE Answer(fence_record(d, i, d.active[i].worker, fence(d.control[i], phase)), "Marked")

\* The handle of an invocation dropped before its verdict.
fence_abandoned_invocation(d, i) ==
    IF i \notin DOMAIN d.active THEN [d EXCEPT !.control = Without(@, {i})]
    ELSE [d EXCEPT !.control[i] = fence(@, "HandleDropped"),
                   !.active[i] = [@ EXCEPT !.accepts_result = FALSE,
                                           !.disposition = "Fenced",
                                           !.phase = IF @ = "Running" THEN "CancellationRequested" ELSE @]]

-----------------------------------------------------------------------------
(* Completion.  observed: an earlier poll has reported the pending result. *)

Fenced(d, i) ==
    \/ d.active[i].disposition = "Fenced"
    \/ ~d.active[i].accepts_result
    \/ observable(d.control[i])

Pending(d, observed) == [domain |-> d, answer |-> "Pending", outcome |-> NoOutcome, observed |-> observed]

\* The result moves to the owner and the cell is published as reusable in one
\* step, while its thread still waits for the verdict.
try_take_completion(d, i, observed) ==
    IF i \notin DOMAIN d.active
    THEN IF observable(d.control[i])
         THEN [Pending([d EXCEPT !.control = Without(@, {i})], observed) EXCEPT !.answer = "LateRejected"]
         ELSE [Pending(d, observed) EXCEPT !.answer = "WorkerUnavailable"]
    ELSE IF Fenced(d, i)
    THEN Pending([d EXCEPT !.active[i].accepts_result = FALSE, !.active[i].disposition = "Fenced"], observed)
    ELSE IF d.active[i].outcome = NoOutcome THEN Pending(d, observed)
    ELSE IF ~observed THEN Pending(d, TRUE)
    ELSE [domain |-> [d EXCEPT !.workers[d.active[i].worker] = Idle,
                               !.active = Without(@, {i}), !.control = Without(@, {i})],
          answer |-> d.active[i].outcome.tag, outcome |-> d.active[i].outcome, observed |-> TRUE]

-----------------------------------------------------------------------------
(* Shutdown.                                                               *)

shutdown_record(record) ==
    [record EXCEPT !.accepts_result = FALSE, !.disposition = "Fenced",
                   !.phase = IF @ \in {"Running", "ResultPending"} THEN "CancellationRequested" ELSE @]

shutdown_reason(d, i) ==
    fence(d.control[i], IF d.active[i].phase = "Wedged" THEN "Wedged" ELSE "Shutdown")

\* A worker whose cell takes no command is taken for exited once its thread is.
mark_shutdown_dispatch_failure(d, w) ==
    IF d.threads[w].at = "Gone" THEN Exited ELSE Stopping

\* Only idle workers are sent for: a busy one ends after its invocation.
begin_shutdown(d) ==
    IF d.lifecycle \in {"Closing", "Closed"} THEN d
    ELSE [d EXCEPT !.lifecycle = "Closing",
                   !.active = [i \in DOMAIN @ |-> shutdown_record(@[i])],
                   !.control = [i \in DOMAIN @ |-> IF i \in DOMAIN d.active THEN shutdown_reason(d, i) ELSE @[i]],
                   !.workers = [w \in DOMAIN @ |->
                                  IF @[w] # Idle THEN @[w]
                                  ELSE IF d.cells[w] # <<>> \/ d.threads[w].at \in {"Exiting", "Gone"}
                                  THEN mark_shutdown_dispatch_failure(d, w) ELSE Stopping],
                   !.cells = [w \in DOMAIN @ |->
                                  IF d.workers[w] = Idle /\ @[w] = <<>> /\ d.threads[w].at \notin {"Exiting", "Gone"}
                                  THEN <<Shutdown>> ELSE @[w]]]

reap_finished_workers(d) == [d EXCEPT !.joined = @ \cup (DOMAIN d.threads \ Alive(d))]

\* Blocks until every thread has returned.
join_all_workers_blocking(d) ==
    IF d.joined = DOMAIN d.threads THEN d
    ELSE [d EXCEPT !.joined = DOMAIN d.threads,
                   !.workers = [w \in DOMAIN @ |-> Exited],
                   !.lifecycle = IF DOMAIN d.active = {} THEN "Closed" ELSE "Poisoned"]

complete(d) == d.joined = DOMAIN d.threads

\* shutdown_for after its wait: the budget expired, or every worker has
\* published its exit and its thread is joined.
closed_if_complete(d) == IF complete(d) THEN [d EXCEPT !.lifecycle = "Closed"] ELSE d

shutdown_returns(d) ==
    Only({closed_if_complete(r) :
          r \in {IF AllExited(d) THEN join_all_workers_blocking(d) ELSE reap_finished_workers(d)}})

can_take_join_proof(d) ==
    /\ d.lifecycle = "Closed" /\ AllExited(d)
    /\ DOMAIN d.active = {} /\ d.joined = DOMAIN d.threads
    /\ d.reservation # {}

take_join_proof(d) ==
    [domain |-> [d EXCEPT !.reservation = {}],
     proof |-> JoinProof("CompleteShutdown", CHOOSE r \in d.reservation : TRUE,
                         planned_workers(d), Cardinality(d.joined))]

-----------------------------------------------------------------------------
(* The worker threads.                                                     *)

refresh_closed_lifecycle(d) ==
    IF d.lifecycle = "Closing" /\ AllExited(d) THEN [d EXCEPT !.lifecycle = "Closed"] ELSE d

mark_worker_exited(d, w) ==
    refresh_closed_lifecycle([d EXCEPT !.workers[w] = Exited, !.threads[w] = Thread("Exiting", 0, NoOutcome)])

\* worker_main takes the command of its cell.
Receives(d, w) == d.threads[w].at = "Parked" /\ d.cells[w] # <<>>

worker_main(d, w) ==
    LET command == Head(d.cells[w])
        taken == [d EXCEPT !.cells[w] = <<>>]
    IN  IF command.tag = "Run"
        THEN [taken EXCEPT !.threads[w] = Thread("Running", command.inv, Returned(command.work))]
        ELSE mark_worker_exited(taken, w)

Runs(d, w) == d.threads[w].at = "Running"
WorkOf(d, w) == d.threads[w].held.value

\* The result slot is open to this worker.
accepts_result(d, w, i) ==
    /\ i \in DOMAIN d.active
    /\ d.active[i].worker = w /\ d.active[i].accepts_result
    /\ d.active[i].disposition = "Pending" /\ d.control[i] = "Open"

\* run_work, from the return of the callable to the next release of the mutex.
offer_result(d, w, i, outcome) ==
    [d EXCEPT !.active[i].outcome = outcome, !.active[i].phase = "ResultPending",
              !.workers[w] = Phase("ResultPending", i),
              !.threads[w] = Thread("Waiting", i, NoOutcome)]

reject_result(d, w, i, outcome) ==
    [d EXCEPT !.active = [k \in DOMAIN @ |->
                            IF k = i THEN [@[k] EXCEPT !.accepts_result = FALSE, !.disposition = "Fenced"] ELSE @[k]],
              !.threads[w] = Thread("Cleanup", i, outcome)]

run_work(d, w, i, outcome) ==
    [IF accepts_result(d, w, i) /\ d.lifecycle # "Closing"
     THEN offer_result(d, w, i, outcome) ELSE reject_result(d, w, i, outcome)
     EXCEPT !.lifecycle = IF outcome = Panicked /\ @ # "Closing" THEN "Poisoned" ELSE @]

\* The wait for the verdict ends: fenced, or the record is gone.
Judged(d, w) ==
    /\ d.threads[w].at = "Waiting"
    /\ d.threads[w].inv \in DOMAIN d.active => d.active[d.threads[w].inv].disposition # "Pending"


\* After an accepted handoff the cell may already belong to a successor.
await_verdict(d, w, i) ==
    IF i \notin DOMAIN d.active THEN [d EXCEPT !.threads[w] = Parked]
    ELSE [d EXCEPT !.threads[w] = Thread("Cleanup", i, d.active[i].outcome),
                   !.active[i].outcome = NoOutcome]

Cleans(d, w) == d.threads[w].at = "Cleanup"

phase_matches(d, w, i) == Occupied(d.workers[w]) /\ d.workers[w].inv = i

settled(d, w, i) == i \in DOMAIN d.active /\ d.active[i].worker = w /\ phase_matches(d, w, i)

\* A worker of a closing pool waiting for its next job.
MutCleanupKeepsWorker(d, w, i, panics) ==
    [d EXCEPT !.active = Without(@, {i}), !.workers[w] = Idle, !.threads[w] = Parked]

\* The rejected value is destroyed outside the mutex; only then is the
\* invocation settled.  A worker of a closing pool ends here.
cleanup(d, w, i, panics) ==
    refresh_closed_lifecycle(
        [d EXCEPT !.cleanup_panics = IF panics THEN 1 ELSE @,
                  !.lifecycle = IF ~settled(d, w, i) \/ (panics /\ @ # "Closing") THEN "Poisoned" ELSE @,
                  !.active = IF settled(d, w, i) THEN Without(@, {i}) ELSE @,
                  !.workers[w] = IF ~settled(d, w, i) THEN @ ELSE IF d.lifecycle = "Closing" THEN Exited ELSE Idle,
                  !.threads[w] = IF settled(d, w, i) /\ d.lifecycle = "Closing"
                                 THEN Thread("Exiting", 0, NoOutcome) ELSE Parked])

Returns(d, w) == d.threads[w].at = "Exiting"
thread_returns(d, w) == [d EXCEPT !.threads[w] = Thread("Gone", 0, NoOutcome)]

-----------------------------------------------------------------------------
(* What the mutex protects agrees with where the threads are.              *)

\* Worker, cell and thread of w tell one story.
WorkerAccounted(d, w) ==
    LET phase == d.workers[w]
        thread == d.threads[w]
        handed_over == thread.at = "Waiting" /\ thread.inv \notin DOMAIN d.active
    IN  /\ phase = Idle => d.cells[w] = <<>> /\ (thread = Parked \/ handed_over)
        /\ phase = Stopping => d.cells[w] = <<Shutdown>> /\ (thread = Parked \/ handed_over)
        /\ phase = Exited => d.cells[w] = <<>> /\ thread.at \in {"Exiting", "Gone"}
        /\ Occupied(phase) =>
              /\ phase.inv \in DOMAIN d.active /\ d.active[phase.inv].worker = w
              /\ \/ /\ d.cells[w] # <<>> /\ Head(d.cells[w]).tag = "Run" /\ Head(d.cells[w]).inv = phase.inv
                    /\ (thread = Parked \/ handed_over)
                 \/ /\ d.cells[w] = <<>> /\ thread.inv = phase.inv
                    /\ thread.at \in {"Running", "Waiting", "Cleanup"}

DomainAccounted(d) ==
    /\ conserves_worker_capacity(d)
    /\ \A w \in DOMAIN d.workers : WorkerAccounted(d, w)
    /\ \A i \in DOMAIN d.active :
          /\ Occupied(d.workers[d.active[i].worker]) /\ d.workers[d.active[i].worker].inv = i
          /\ d.control[i] = "Open" <=> d.active[i].disposition = "Pending"

-----------------------------------------------------------------------------
(***************************************************************************)
(* One synchronous card on a pool of one thread                            *)
(* (crates/paraegox-runtime/src/thread_component_runtime.rs) as a value:   *)
(* its mailbox, its route, the card while the owner holds it, its thread   *)
(* domain and the one invocation in flight with the deadlines signed for   *)
(* it.  Each operator is a whole method; an answer is [component, answer,  *)
(* terminals].                                                             *)
(*                                                                         *)
(* A card moves between the owner, the command cell, the running thread    *)
(* and the result; a work and a result say in card whether they carry it.  *)
(***************************************************************************)

CONSTANTS
    RunBudget, CancellationGrace,  \* of the signed execution requirements
    MaxClock                       \* the last instant a deadline may name

NoPending == [inv |-> 0, observed |-> FALSE]
NoTiming == [run_deadline |-> 0, uncertain_deadline |-> 0, phase |-> "None"]

-----------------------------------------------------------------------------
(* Admission of the slice and of the implementation.                       *)

\* One thread domain of one worker, one execution bound to it, no native
\* threads.
try_from_slice(slice) ==
    IF /\ slice.domains = 1 /\ slice.executions = 1
       /\ slice.bound
       /\ slice.native_threads = 0
    THEN {slice} ELSE {}

try_resolve(slice) == IF slice.eligible THEN {slice} ELSE {}

\* try_new prepares mailbox, route and card; no thread exists yet.
Prepared(slice) == {s \in try_from_slice(slice) : s \in try_resolve(slice) /\ s.workers = 1}

from_prepared(limits, d) ==
    [lifecycle |-> "Accepting", route |-> "Active",
     mailbox |-> new_mailbox(limits), implementation |-> TRUE,
     domain |-> d, pending |-> NoPending, timing |-> NoTiming]

-----------------------------------------------------------------------------
Reply(c, what, terminals) == [component |-> c, answer |-> what, terminals |-> terminals]

\* RuntimeClock.reading and try_deadline_after fail past the last instant.
readable(t) == t <= MaxClock

Offered(c, report) == Reply([c EXCEPT !.mailbox = report.mailbox], report.outcome, report.terminals)

ThreadComponent_try_offer(c, message, now) ==
    IF c.lifecycle # "Accepting" THEN Reply(c, "InvalidLifecycle", {})
    ELSE IF ~readable(now) THEN Reply(c, "ClockFailed", {})
    ELSE IF c.route # "Active" THEN Reply(c, "BindingRefused", {})
    ELSE Offered(c, try_offer(c.mailbox, message, now))

-----------------------------------------------------------------------------
(* Dispatch.  The builder runs after a worker is reserved, and only there  *)
(* does a message leave the queue.                                         *)

build_pending_timing(now) ==
    IF readable(now + RunBudget + CancellationGrace)
    THEN {[run_deadline |-> now + RunBudget, uncertain_deadline |-> now + RunBudget + CancellationGrace,
           phase |-> "Running"]}
    ELSE {}

Input(card, token, expired) == [kind |-> "Input", card |-> card, tokens |-> {token}, expired |-> expired]
NoInput(card, error, expired) ==
    [kind |-> "NoInvocation", card |-> card, tokens |-> {}, error |-> error, expired |-> expired]
Dispose(card) == [kind |-> "Dispose", card |-> card, tokens |-> {}]

\* What the builder leaves: the mailbox, the timing and the work.
Begun(c, report, timing) ==
    IF report.outcome = "Started"
    THEN [mailbox |-> report.mailbox, timing |-> timing,
          work |-> Input(c.implementation, CHOOSE t \in report.tokens : TRUE, report.terminals)]
    ELSE [mailbox |-> report.mailbox, timing |-> NoTiming,
          work |-> NoInput(c.implementation, FALSE, report.terminals)]

Built(c, now) ==
    IF build_pending_timing(now) = {}
    THEN [mailbox |-> c.mailbox, timing |-> NoTiming, work |-> NoInput(c.implementation, TRUE, {})]
    ELSE Begun(c, try_begin_inflight(c.mailbox, now), CHOOSE t \in build_pending_timing(now) : TRUE)

Poisoned(c) == [c EXCEPT !.lifecycle = "Poisoned"]

\* The invocation was submitted, or the card comes back from its cell.
Dispatched(c, built, submitted) ==
    IF submitted.answer = "Submitted"
    THEN Reply([c EXCEPT !.mailbox = built.mailbox, !.timing = built.timing, !.implementation = FALSE,
                         !.domain = submitted.domain,
                         !.pending = [inv |-> submitted.inv, observed |-> FALSE]], "Started", {})
    ELSE IF ~c.implementation
    THEN Reply([Poisoned(c) EXCEPT !.domain = submitted.domain, !.mailbox = stop_accepting(@)],
               "ImplementationUnavailable", {})
    ELSE IF ~can_reserve(c.domain) THEN Reply(c, submitted.answer, {})
    ELSE Reply([Poisoned(c) EXCEPT !.domain = submitted.domain, !.mailbox = stop_accepting(built.mailbox)],
               submitted.answer, {})

SubmitBuilt(c, built) == Dispatched(c, built, try_submit(c.domain, built.work, TRUE))

try_dispatch_once(c, now) ==
    IF c.lifecycle # "Accepting" \/ c.pending # NoPending \/ c.timing # NoTiming
    THEN Reply(c, "InvalidLifecycle", {})
    ELSE IF ~readable(now) THEN Reply(c, "ClockFailed", {})
    ELSE IF head_readiness(c.mailbox, now) \notin {"Ready", "Expired"} THEN Reply(c, "Idle", {})
    ELSE SubmitBuilt(c, Built(c, now))

-----------------------------------------------------------------------------
(* Intents of the owner over the pending invocation.                       *)

MarkedCancelled(c, now, m) ==
    IF m.answer # "Marked" THEN Reply(c, m.answer, {})
    ELSE Reply([Poisoned(c) EXCEPT
                  !.domain = m.domain,
                  !.timing = [run_deadline |-> IF @ = NoTiming THEN now + CancellationGrace ELSE @.run_deadline,
                              uncertain_deadline |-> now + CancellationGrace,
                              phase |-> "CancellationRequested"]], "Marked", {})

\* The owner asks for cancellation before the run deadline.
request_pending_cancellation(c, now) ==
    IF c.pending = NoPending THEN Reply(c, "MissingPendingInvocation", {})
    ELSE IF c.timing.phase \notin {"None", "Running"} THEN Reply(c, "Marked", {})
    ELSE IF ~readable(now + CancellationGrace) THEN Reply(c, "ClockFailed", {})
    ELSE MarkedCancelled(c, now, mark_invocation(c.domain, c.pending.inv, "CancellationRequested"))

MarkedPending(c, phase, m) ==
    IF m.answer # "Marked" THEN Reply(c, m.answer, {})
    ELSE Reply([Poisoned(c) EXCEPT !.domain = m.domain,
                                   !.timing = IF @ = NoTiming THEN @ ELSE [@ EXCEPT !.phase = phase]],
               "Marked", {})

\* mark_pending_uncertain and mark_pending_wedged.
mark_pending(c, phase) ==
    IF c.pending = NoPending THEN Reply(c, "MissingPendingInvocation", {})
    ELSE IF c.timing.phase \in {"Wedged", phase} THEN Reply(c, "Marked", {})
    ELSE MarkedPending(c, phase, mark_invocation(c.domain, c.pending.inv, phase))

-----------------------------------------------------------------------------
(* poll_pending.                                                           *)

Abandoned(c, report, what) == Reply([c EXCEPT !.mailbox = report.mailbox], what, report.terminals)

abandon_inflight_uncertain(c, what) ==
    Abandoned(c, abandon_all_inflight_uncertain(stop_accepting(c.mailbox)), what)

RunFenced(c, m) ==
    IF m.answer # "Marked" THEN Reply(c, m.answer, {})
    ELSE Reply([Poisoned(c) EXCEPT !.domain = m.domain, !.timing.phase = "CancellationRequested"], "Ok", {})

\* The first fence of the signed bound: cancellation at the run deadline.
RunFence(c, now) ==
    IF c.timing.phase = "Running" /\ c.timing.run_deadline <= now
    THEN RunFenced(c, mark_invocation(c.domain, c.pending.inv, "CancellationRequested"))
    ELSE Reply(c, "Ok", {})

GraceFenced(c, m) ==
    IF m.answer = "Marked" THEN [Poisoned(c) EXCEPT !.domain = m.domain, !.timing.phase = "Wedged"] ELSE c

\* The second: a callback that outlived its grace is wedged.  One that has
\* settled meanwhile is left to the poll that follows.
GraceFence(c, now) ==
    IF c.timing.phase = "CancellationRequested" /\ c.timing.uncertain_deadline <= now
    THEN GraceFenced(c, mark_invocation(c.domain, c.pending.inv, "Wedged"))
    ELSE c

Advanced(r, now) == IF r.answer = "Ok" THEN Reply(GraceFence(r.component, now), "Ok", {}) ELSE r

advance_signed_timeout(c, now) ==
    IF c.timing = NoTiming THEN Reply(c, "Ok", {})
    ELSE IF ~readable(now) THEN Reply(c, "ClockFailed", {})
    ELSE Advanced(RunFence(c, now), now)

Finished(token, reason) == {[id |-> token.id, reason |-> reason]}

Ended(c, token, reason, what, expired) ==
    IF token_matches(c.mailbox, token)
    THEN Reply([c EXCEPT !.mailbox = finish(@, token)], what, expired \cup Finished(token, reason))
    ELSE Reply(c, "InflightTokenMismatch", {})

TokenOf(result) == CHOOSE t \in result.tokens : TRUE

\* A result that crossed the fence; the card is back in c.
finish_worker_result(c, result) ==
    CASE result.kind = "Invoked" ->
           Ended(c, TokenOf(result), IF result.ok THEN "Completed" ELSE "Failed", "Completed", result.expired)
      [] result.kind = "CallbackPanicked" ->
           Ended([Poisoned(c) EXCEPT !.mailbox = stop_accepting(@)], TokenOf(result), "Uncertain", "Panicked",
                 result.expired)
      [] result.kind = "MissingImplementation" ->
           Ended(Poisoned(c), TokenOf(result), "Uncertain", "ImplementationUnavailable", result.expired)
      [] result.kind = "NoInvocation" ->
           IF ~result.card THEN Reply(Poisoned(c), "ImplementationUnavailable", {})
           ELSE IF result.error THEN Reply(Poisoned(c), "ClockFailed", {})
           ELSE Reply(c, "NoInvocation", result.expired)
      [] result.kind = "Dispose" -> Reply(Poisoned(c), "InvalidLifecycle", {})

NotPending(c) == [c EXCEPT !.pending = NoPending, !.timing = NoTiming]

Taken(c, taken) ==
    CASE taken.answer = "Pending" ->
           Reply([c EXCEPT !.domain = taken.domain, !.pending.observed = taken.observed], "Pending", {})
      [] taken.answer = "Returned" ->
           finish_worker_result([NotPending(c) EXCEPT !.domain = taken.domain,
                                                      !.implementation = taken.outcome.value.card],
                                taken.outcome.value)
      [] taken.answer \in {"Panicked", "LateRejected"} ->
           abandon_inflight_uncertain(Poisoned([NotPending(c) EXCEPT !.domain = taken.domain]), taken.answer)
      [] OTHER -> Reply(c, taken.answer, {})

PollAdvanced(a) ==
    IF a.answer # "Ok" THEN a
    ELSE Taken(a.component, try_take_completion(a.component.domain, a.component.pending.inv,
                                                a.component.pending.observed))

poll_pending(c, now) ==
    IF c.pending = NoPending THEN Reply(c, "MissingPendingInvocation", {})
    ELSE PollAdvanced(advance_signed_timeout(c, now))

-----------------------------------------------------------------------------
(* The callable on its thread: every result a work may give.               *)

results(work) ==
    IF work.kind # "Input" THEN {Returned(work)}
    ELSE IF ~work.card THEN {Returned([kind |-> "MissingImplementation", card |-> FALSE, tokens |-> work.tokens,
                                       expired |-> work.expired])}
    ELSE {Returned([kind |-> "Invoked", card |-> TRUE, tokens |-> work.tokens, ok |-> ok,
                    expired |-> work.expired]) : ok \in BOOLEAN}
         \cup {Returned([kind |-> "CallbackPanicked", card |-> TRUE, tokens |-> work.tokens,
                         expired |-> work.expired])}

-----------------------------------------------------------------------------
(* shutdown_for.  The card's own destructor is the last work of its thread. *)

CleanupSubmitted(c, submitted) ==
    IF submitted.answer = "Submitted"
    THEN Reply([c EXCEPT !.domain = submitted.domain, !.implementation = FALSE,
                         !.pending = [inv |-> submitted.inv, observed |-> FALSE], !.timing = NoTiming], "Ok", {})
    ELSE Reply([c EXCEPT !.domain = submitted.domain], submitted.answer, {})

submit_final_implementation_cleanup(c) ==
    IF c.pending # NoPending \/ ~c.implementation THEN Reply(c, "Ok", {})
    ELSE Only({CleanupSubmitted(c, s) : s \in {try_submit(c.domain, Dispose(TRUE), TRUE)}})

\* The route is revoked once; later calls find the mailbox stopped.
StopIngress(c) ==
    [c EXCEPT !.lifecycle = "Closing",
              !.route = IF @ = "Active" THEN "Draining" ELSE @,
              !.mailbox = cancel_all_queued(stop_accepting(@)).mailbox]

UncertainPending(c) ==
    IF c.pending = NoPending \/ c.timing.phase = "Wedged" THEN c
    ELSE [c EXCEPT !.domain = mark_invocation(@, c.pending.inv, "Uncertain").domain]

Drains(last) ==
    IF last.answer = "Ok" THEN Reply([last.component EXCEPT !.domain = begin_shutdown(@)], "Draining", {})
    ELSE last

\* Up to the wait for the workers.
component_shutdown_begins(c) ==
    IF c.lifecycle = "Closed" THEN Reply(c, "InvalidLifecycle", {})
    ELSE Only({Drains(last) : last \in {submit_final_implementation_cleanup(u) :
                                        u \in {UncertainPending(s) : s \in {StopIngress(c)}}}})

MailboxZero(mb) ==
    /\ mb.lifecycle = "Closed" /\ mb.queue = <<>> /\ DOMAIN mb.inflight = {}
    /\ mb.queued_bytes + mb.inflight_bytes = 0

\* After the wait, over a domain that is complete.
Drained(c, mailbox) ==
    [NotPending(c) EXCEPT !.mailbox = mailbox,
                          !.route = IF @ = "Draining" /\ mailbox.lifecycle = "Closed" THEN "Retired" ELSE @]

ClosedExactly(c) ==
    IF ~MailboxZero(c.mailbox) \/ c.domain.cleanup_panics # 0 THEN Reply(c, "NonZeroShutdown", {})
    ELSE IF ~can_take_join_proof(c.domain) THEN Reply(c, "JoinProofUnavailable", {})
    ELSE Reply([c EXCEPT !.lifecycle = "Closed"], "Complete", {})

component_shutdown_ends(c) ==
    Only({ClosedExactly(x) :
          x \in {Drained(c, m) : m \in {close_if_drained(abandon_all_inflight_uncertain(c.mailbox).mailbox)}}})

\* Drop of the owner, up to the blocking join: an idle card goes to its thread
\* or is leaked, never destroyed here.
component_drop_begins(c) ==
    [submit_final_implementation_cleanup(c).component EXCEPT !.domain = begin_shutdown(@)]
=============================================================================
