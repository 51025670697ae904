-------------------------- MODULE ComponentRuntime --------------------------
(***************************************************************************)
(* The owner of one card and one loop domain                               *)
(* (component_runtime.rs, SingleSubjectComponentRuntime, with its          *)
(* CardCallbackOwner, card_executor.rs, and CardInstanceOwner,             *)
(* card_instance.rs, in crates/paraegox-runtime/src).                      *)
(*                                                                         *)
(* start, dispatch and shutdown are futures that await a callback of the   *)
(* card.  pc is the callback awaited; the future may be dropped there, and *)
(* the next call finds what it left behind: a lifecycle, an invocation     *)
(* fence, a grant with its permit.  Calls the guards refuse change nothing *)
(* and are no steps.  The runtime host (runtime_host.rs,                   *)
(* OwnedComponentLifecycle) runs one operation over the component, which   *)
(* may make any of the calls, then calls shutdown once, whatever the       *)
(* operation did.                                                          *)
(***************************************************************************)
EXTENDS LoopDomainState

CONSTANTS
    Messages,       \* the messages producers offer
    MaxOffers,      \* bound: offers made to each mailbox
    MaxTime,        \* last reading the clock can represent
    ClockOverflows, \* whether the clock may pass MaxTime
    MaxDrops        \* bound: futures dropped by their owner

VARIABLES
    domain,         \* the LoopDomainCore
    lifecycle,      \* CardLifecycle
    invocations,    \* [next, active, pending]: issued fences, active ones, the pending one
    stop_outcome,   \* terminal_stop_outcome
    cancelled,      \* the card's cancellation source
    pending_grant,  \* the grant the component holds, if any
    owner,          \* of the component: Operation, Cleanup or Done
    pc,             \* the callback awaited: Idle, Start, Input or Stop
    batch,          \* turns left in dispatch_ready_until_idle, NoBatch outside
    now,            \* the clock
    drops,          \* futures dropped so far
    answer          \* of the latest call

card == <<lifecycle, invocations, stop_outcome, cancelled>>
vars == <<domain, card, pending_grant, owner, pc, batch, now, drops, answer>>

NoBatch == -1
CardLifecycles == {"Created", "Starting", "Started", "StartFailed", "Draining", "Stopping",
                   "Stopped", "Poisoned"}
StopOutcomes == {"Stopped", "Interrupted", "Failed", "TimedOut", "Panicked"}

readable(t) == t <= MaxTime

Idle ==
    /\ lifecycle = "Created" /\ stop_outcome = "None" /\ cancelled = FALSE
    /\ invocations = [next |-> 0, active |-> {}, pending |-> 0]
    /\ pending_grant = {} /\ owner = "Operation"
    /\ pc = "Idle" /\ batch = NoBatch /\ drops = 0 /\ answer = "None"

Init == Idle /\ domain = new_domain /\ now = 0

\* The operation may make its next call.
Callable == pc = "Idle" /\ batch = NoBatch /\ owner = "Operation"

Started == lifecycle = "Started" /\ pending_grant = {}

-----------------------------------------------------------------------------
(* start.                                                                  *)

Start ==
    /\ Callable
    /\ lifecycle = "Created" /\ pending_grant = {}
    /\ readable(now)
    /\ IF cancelled
       THEN lifecycle' = "StartFailed" /\ answer' = "Cancelled" /\ UNCHANGED pc
       ELSE lifecycle' = "Starting" /\ pc' = "Start" /\ answer' = "Awaiting"
    /\ UNCHANGED <<domain, invocations, stop_outcome, cancelled, pending_grant, owner, batch, now, drops>>

\* The start budget bounds the callback; a late one is cancelled.
StartEnds ==
    /\ pc = "Start"
    /\ \E outcome \in {"Started", "Failed", "Panicked", "TimedOut"} :
         /\ lifecycle' = CASE outcome = "Started" -> "Started"
                           [] outcome = "Panicked" -> "Poisoned"
                           [] OTHER -> "StartFailed"
         /\ cancelled' = (cancelled \/ outcome = "TimedOut")
         /\ answer' = outcome
    /\ pc' = "Idle"
    /\ UNCHANGED <<domain, invocations, stop_outcome, pending_grant, owner, batch, now, drops>>

-----------------------------------------------------------------------------
(* try_offer and the dispatch of one message.                              *)

Offer(m, message) ==
    /\ Callable /\ Started /\ readable(now)
    /\ domain.mailboxes[m].offered < MaxOffers
    /\ domain.route[m] = "Active"
    /\ LET report == offer(domain, m, message, now) IN
         domain' = report.domain /\ answer' = report.outcome
    /\ UNCHANGED <<card, pending_grant, owner, pc, batch, now, drops>>

\* finish_grant with the release that follows it.
closed_grant(d, grant) == release(finish_grant(d, grant), grant)

\* The messages that must not start at reading t.
pre_run_terminal(grant, t) ==
    grant.token.message.run_deadline <= t \/ grant.token.message.fresh_until <= t

\* An interrupted invocation holds its fence and its grant.
NextFence == [next |-> invocations.next + 1,
              active |-> invocations.active \cup {invocations.next + 1},
              pending |-> invocations.next + 1]

\* Refusals before the first poll give the grant back at once.
Refuse(d, grant, why, left) ==
    /\ domain' = closed_grant(d, grant) /\ pending_grant' = {}
    /\ answer' = why /\ batch' = left
    /\ UNCHANGED <<pc, invocations>>

Await(d, grant, left) ==
    /\ domain' = d /\ pending_grant' = {grant}
    /\ answer' = "Awaiting" /\ batch' = left
    /\ pc' = "Input" /\ invocations' = NextFence

\* The start boundary judged by the reading of the dispatch.
MutInvoke(d, grant, t, left) ==
    IF pre_run_terminal(grant, now) \/ cancelled THEN Refuse(d, grant, "NotRun", left)
    ELSE Await(d, grant, left)

\* CardCallbackOwner::invoke up to its first await, at callback reading t.
Invoke(d, grant, t, left) ==
    IF invocations.pending # 0
    THEN Refuse(d, grant, "InterruptedInvocationRequiresCleanup", NoBatch)
    ELSE IF pre_run_terminal(grant, t) \/ cancelled THEN Refuse(d, grant, "NotRun", left)
    ELSE Await(d, grant, left)

\* A turn of dispatch_once: the grant is stored before the second reading of
\* the clock, which may fail, and before the callback is polled.
Turn(left) ==
    /\ Started /\ readable(now)
    /\ \E report \in dispatches(domain, now), t \in now..(now + 1) :
         /\ t <= MaxTime \/ ClockOverflows
         /\ now' = t
         /\ IF report.grants = {}
            THEN /\ domain' = report.domain /\ answer' = report.outcome
                 /\ batch' = NoBatch
                 /\ UNCHANGED <<pc, invocations, pending_grant>>
            ELSE \E grant \in report.grants :
                   IF readable(t)
                   THEN Invoke(report.domain, grant, t, left)
                   ELSE /\ domain' = report.domain /\ pending_grant' = {grant}
                        /\ answer' = "Clock" /\ batch' = NoBatch
                        /\ UNCHANGED <<pc, invocations>>
    /\ UNCHANGED <<lifecycle, stop_outcome, cancelled, owner, drops>>

DispatchOnce ==
    /\ Callable
    /\ Turn(NoBatch)

\* A batch that leaves one turn out.
MutBeginBatch ==
    /\ Callable
    /\ batch' = Queued(domain)
    /\ UNCHANGED <<domain, card, pending_grant, owner, pc, now, drops, answer>>

\* dispatch_ready_until_idle bounds its turns by the queue it sees at entry.
BeginBatch ==
    /\ Callable
    /\ batch' = Queued(domain) + 1
    /\ UNCHANGED <<domain, card, pending_grant, owner, pc, now, drops, answer>>

\* One turn of the batch; a turn that is refused ends it with an error.
BatchTurn ==
    /\ pc = "Idle" /\ batch # NoBatch
    /\ IF batch > 0 /\ Started /\ readable(now)
       THEN Turn(batch - 1)
       ELSE /\ answer' = CASE batch = 0 -> "DispatchDidNotQuiesce"
                           [] batch > 0 /\ ~Started -> "InvalidLifecycle"
                           [] OTHER -> "Clock"
            /\ batch' = NoBatch
            /\ UNCHANGED <<domain, card, pending_grant, owner, pc, now, drops>>

\* The callback ends by itself, panics, or exceeds its run budget and then
\* its cleanup budget; panics and escalated overruns poison the card.
InvokeEnds ==
    /\ pc = "Input"
    /\ \E outcome \in {"Completed", "Failed", "Panicked", "TimedOutCooperative",
                        "TimedOutEscalated"} :
         /\ lifecycle' = IF outcome \in {"Panicked", "TimedOutEscalated"}
                         THEN "Poisoned" ELSE lifecycle
         /\ answer' = outcome
    /\ invocations' = [invocations EXCEPT !.active = @ \ {invocations.pending}, !.pending = 0]
    /\ \E grant \in pending_grant : domain' = closed_grant(domain, grant)
    /\ pending_grant' = {}
    /\ pc' = "Idle"
    /\ UNCHANGED <<stop_outcome, cancelled, owner, batch, now, drops>>

-----------------------------------------------------------------------------
(* shutdown.                                                               *)

\* Cleaning up the queue and keeping the interrupted grant.
MutDrained(d) == cancel_all(stop_accepting_all(d))

\* What stop_accepting, reconcile_pending_ownership and cancel_all_queued
\* leave of the domain.
drained(d) ==
    LET stopped == stop_accepting_all(d)
        joined  == IF pending_grant = {} THEN stopped
                   ELSE closed_grant(stopped, CHOOSE grant \in pending_grant : TRUE)
    IN  cancel_all(joined)

Report(d) == IF is_zero_cleanup(d) THEN "Report" ELSE "NonZeroShutdown"

\* The stop of a card before its first await: a repeated stop answers again,
\* an interrupted one is closed, anything else cancels and calls on_stop.
\* reconcile_interrupted_invocation joins a fence left by a dropped future.
StopCard(d) ==
    IF stop_outcome # "None"
    THEN answer' = Report(d) /\ UNCHANGED <<pc, card>>
    ELSE IF lifecycle = "Stopping"
    THEN /\ lifecycle' = "Stopped" /\ stop_outcome' = "Interrupted" /\ cancelled' = TRUE
         /\ answer' = Report(d)
         /\ UNCHANGED <<pc, invocations>>
    ELSE /\ lifecycle' = "Stopping" /\ cancelled' = TRUE
         /\ invocations' = [invocations EXCEPT !.active = @ \ {invocations.pending},
                                               !.pending = 0]
         /\ pc' = "Stop" /\ answer' = "Awaiting"
         /\ UNCHANGED stop_outcome

\* The lifecycle task ends with the answer of its shutdown.
NextOwner == IF owner = "Cleanup" /\ pc' = "Idle" THEN "Done" ELSE owner

\* The drain budget may be over, or the clock unreadable, before the card is
\* stopped; the shutdown then ends with an error.
Shutdown(in_time) ==
    /\ pc = "Idle" /\ batch = NoBatch /\ owner # "Done"
    /\ IF lifecycle \in {"Created", "Draining"}
       THEN answer' = "InvalidLifecycle" /\ UNCHANGED <<domain, pending_grant, pc, card>>
       ELSE \E d \in {drained(domain)} :
              /\ domain' = d /\ pending_grant' = {}
              /\ IF in_time /\ readable(now) THEN StopCard(d)
                 ELSE /\ answer' = IF in_time THEN "Clock" ELSE "DrainTimedOut"
                      /\ UNCHANGED <<pc, card>>
    /\ owner' = NextOwner
    /\ UNCHANGED <<batch, now, drops>>

StopEnds ==
    /\ pc = "Stop"
    /\ \E outcome \in StopOutcomes \ {"Interrupted"} :
         /\ stop_outcome' = outcome
         /\ lifecycle' = IF outcome = "Stopped" THEN "Stopped" ELSE "Poisoned"
    /\ answer' = Report(domain)
    /\ pc' = "Idle" /\ owner' = NextOwner
    /\ UNCHANGED <<domain, invocations, cancelled, pending_grant, batch, now, drops>>

-----------------------------------------------------------------------------
(* The owner's task and the world around it.                               *)

\* The operation drops a future it polls, by a timeout or a select of its own.
DropFuture ==
    /\ pc # "Idle" /\ owner = "Operation" /\ drops < MaxDrops
    /\ drops' = drops + 1
    /\ pc' = "Idle" /\ batch' = NoBatch /\ answer' = "Dropped"
    /\ UNCHANGED <<domain, card, pending_grant, owner, now>>

\* The operation completes, fails, or panics; a panic drops what it polls.
OperationEnds ==
    /\ owner = "Operation" /\ owner' = "Cleanup"
    /\ pc = "Idle" => batch = NoBatch
    /\ pc' = "Idle" /\ batch' = NoBatch
    /\ UNCHANGED <<domain, card, pending_grant, now, drops, answer>>

ParentCancel ==
    /\ ~cancelled
    /\ cancelled' = TRUE
    /\ UNCHANGED <<domain, lifecycle, invocations, stop_outcome, pending_grant, owner, pc, batch,
                   now, drops, answer>>

Tick ==
    /\ now < (IF ClockOverflows THEN MaxTime + 1 ELSE MaxTime)
    /\ now' = now + 1
    /\ UNCHANGED <<domain, card, pending_grant, owner, pc, batch, drops, answer>>

Next ==
    \/ Start \/ StartEnds \/ DispatchOnce \/ BeginBatch \/ BatchTurn \/ InvokeEnds
    \/ \E m \in Mailboxes, message \in Messages : Offer(m, message)
    \/ \E in_time \in BOOLEAN : Shutdown(in_time)
    \/ StopEnds \/ DropFuture \/ OperationEnds \/ ParentCancel \/ Tick

Spec == Init /\ [][Next]_vars

\* The lifecycle task's own shutdown, once the operation is over.
CleanupShutdown == owner = "Cleanup" /\ \E in_time \in BOOLEAN : Shutdown(in_time)

-----------------------------------------------------------------------------
(* Properties.                                                             *)

\* Type invariant.
TypeOK ==
    /\ lifecycle \in CardLifecycles /\ stop_outcome \in StopOutcomes \cup {"None"}
    /\ invocations.active \in SUBSET (1..invocations.next)
    /\ invocations.pending \in 0..invocations.next
    /\ cancelled \in BOOLEAN /\ owner \in {"Operation", "Cleanup", "Done"}
    /\ pc \in {"Idle", "Start", "Input", "Stop"}
    /\ Cardinality(pending_grant) <= 1
    /\ batch \in {NoBatch} \cup 0..(Queued(new_domain) + Cardinality(Mailboxes) * MaxOffers + 1)
    /\ now \in 0..(MaxTime + 1) /\ drops \in 0..MaxDrops

\* The permits and in-flight entries of the domain are the grant the
\* component holds: no dropped future, failed clock, refused callback or
\* half-finished shutdown leaks a permit or a payload.
PermitsFollowGrant ==
    /\ TypeOK
    /\ in_use(domain) = Cardinality(pending_grant)
    /\ Inflight(domain) = Cardinality(pending_grant)
    /\ \A grant \in pending_grant : token_matches(domain.mailboxes[grant.mailbox], grant.token)

\* The invariant errors of the component, the card and the domain cannot be
\* reached from any interleaving of calls, drops and clock failures, and no
\* dispatch finds the domain out of permits: the grant the component holds is
\* all that is in use.
InternalErrorsUnreachable ==
    /\ PermitsFollowGrant
    /\ answer \notin {"InterruptedInvocationRequiresCleanup", "NonZeroShutdown",
                      "DispatchDidNotQuiesce", "DispatchInvariant", "NoDomainPermit"}

\* A callback starts only on work that is live when it starts: not past its
\* run deadline or freshness at the second reading, not after cancellation,
\* not after the card was poisoned or stopped, and alone.
RunsOnlyLiveWork ==
    [][(pc # "Input" /\ pc' = "Input") =>
          /\ ~cancelled /\ lifecycle = "Started" /\ stop_outcome = "None"
          /\ invocations.active = {}
          /\ \A grant \in pending_grant' : ~pre_run_terminal(grant, now')]_vars

\* on_stop runs at most once, and what became of it is never revised: a stop
\* whose future was dropped stays Interrupted through later shutdowns.
StopIsFinal ==
    [][/\ (pc # "Stop" /\ pc' = "Stop") => lifecycle # "Stopping" /\ stop_outcome = "None"
       /\ stop_outcome # "None" => UNCHANGED <<stop_outcome, lifecycle>>]_vars

\* Once the operation is over the lifecycle task ends, and gives back every
\* message and permit, however the operation ended and whether or not the
\* card could be stopped in its budget: Ending leads to Released.
Ending == owner = "Cleanup"
Released ==
    owner = "Done" /\ pending_grant = {} /\ in_use(domain) = 0 /\ Queued(domain) = 0

\* A callback starts only on live work and alone, and on_stop runs at most once
\* and is never revised.
CallbacksAreSound == RunsOnlyLiveWork /\ StopIsFinal
=============================================================================
