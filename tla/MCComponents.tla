---------------------------- MODULE MCComponents ----------------------------
(***************************************************************************)
(* The two owners of a loop domain, one to a behaviour: the component      *)
(* runtime (ComponentRuntime), which holds one grant at a time, or         *)
(* callback owners that hold several (LoopDomain).                         *)
(*                                                                         *)
(* Both have a control and a stream mailbox and two messages.  The         *)
(* component has one permit, and one message that goes stale early.  The   *)
(* callback owners share one permit beside the reserve.                    *)
(***************************************************************************)
EXTENDS ComponentRuntime

CONSTANTS control, stream, m1, m2

VARIABLES
    part,                                 \* which of the two owns domain and now
    grants, releases, leaked, outcome     \* the rest of LoopDomain

held == <<grants, releases, leaked, outcome>>
unheld == <<lifecycle, invocations, stop_outcome, cancelled, pending_grant, owner, pc, batch,
            drops, answer>>
sharedVars == <<domain, now, held>>

Limit(overflow, inflight, age) ==
    [overflow |-> overflow, capacity_items |-> 2, capacity_bytes |-> 2,
     max_retained_bytes |-> 2, max_inflight |-> inflight, max_queue_age |-> age]

Message(id, fresh) == [id |-> id, bytes |-> 1, key |-> NoKey, conforms |-> TRUE,
                       fresh_until |-> fresh, run_deadline |-> 2]

MCClassOf == control :> "Control" @@ stream :> "Stream"
MCLimitsOf == control :> Limit("RejectNew", 1, 2) @@ stream :> Limit("Latest", 1, 2)
MCMessages == {Message(m1, 1), Message(m2, 2)}

SharedLimitsOf == control :> Limit("RejectNew", 2, 1) @@ stream :> Limit("DropOldest", 2, 1)

Shared == INSTANCE LoopDomain WITH
    LimitsOf <- SharedLimitsOf, max_outstanding <- 2, control_reserved <- 1,
    Messages <- {Message(m1, 2), Message(m2, 2)}, MaxOffers <- 3, MaxTime <- 2

-----------------------------------------------------------------------------
ComponentsInit ==
    /\ part \in {"Component", "LoopDomain"}
    /\ domain = IF part = "Component" THEN new_domain ELSE Shared!new_domain
    /\ now = 0
    /\ Idle /\ Shared!Unheld

ComponentStep == part = "Component" /\ Next /\ UNCHANGED <<part, held>>
LoopDomainStep == part = "LoopDomain" /\ Shared!Next /\ UNCHANGED <<part, unheld>>

ComponentsNext == ComponentStep \/ LoopDomainStep

\* The owner of a draining domain keeps dispatching while messages are queued,
\* and callback owners keep finishing and releasing what they hold.  The
\* component's lifecycle task is polled, and on_stop is bounded by its budget.
ComponentsSpec ==
    /\ ComponentsInit
    /\ [][ComponentsNext]_<<part, vars, held>>
    /\ WF_sharedVars(part = "LoopDomain" /\ Shared!DrainDispatch)
    /\ WF_sharedVars(part = "LoopDomain" /\ Shared!DrainFinish)
    /\ WF_sharedVars(part = "LoopDomain" /\ Shared!DrainRelease)
    /\ WF_vars(part = "Component" /\ CleanupShutdown)
    /\ WF_vars(part = "Component" /\ StopEnds)

\* The ledger counts exactly the permits handed out and not returned, every
\* in-flight message is backed by one, and a held grant can always be finished,
\* whatever owners hold, drop or leak (LoopDomain!PermitsAccounted,
\* LoopDomain!InflightMatchesGrants).
GrantsAccounted ==
    part = "LoopDomain" => Shared!PermitsAccounted /\ Shared!InflightMatchesGrants

\* No interleaving of calls, drops and clock failures makes the component report
\* an invariant error, and the grant it holds is all that is in use in its domain.
ComponentErrorsUnreachable == part = "Component" => InternalErrorsUnreachable

\* A domain that stopped accepting drains unless an owner dropped what it held, and
\* once the operation is over the component gives back every message and permit
\* (begin_drain of the domain; the lifecycle task's shutdown).
ComesToRest ==
    (IF part = "Component" THEN Ending ELSE Shared!Draining)
        ~> (IF part = "Component" THEN Released ELSE Shared!Drained)
=============================================================================
