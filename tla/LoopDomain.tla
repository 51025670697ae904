----------------------------- MODULE LoopDomain -----------------------------
(***************************************************************************)
(* A LoopDomain (crates/paraegox-runtime/src/loop_domain.rs) with callback *)
(* owners that hold several grants at once, finish and release them in any *)
(* order, or drop a grant or a release on the way.  Dropping is what the   *)
(* permit ledger calls a conservative leak: the permit is never returned.  *)
(***************************************************************************)
EXTENDS LoopDomainState

CONSTANTS
    Messages,   \* the messages producers offer
    MaxOffers,  \* bound: offers made to the domain
    MaxTime     \* bound: last reading of the clock

VARIABLES
    domain,     \* the LoopDomainCore
    grants,     \* grants callback owners hold
    releases,   \* grants whose terminal is committed and whose permit is held
    leaked,     \* grants and releases dropped by their owner
    now,        \* the domain's clock
    outcome     \* the answer of the latest call

vars == <<domain, grants, releases, leaked, now, outcome>>

Unheld == grants = {} /\ releases = {} /\ leaked = {} /\ outcome = "None"

Init == Unheld /\ domain = new_domain /\ now = 0

Offer(m, message) ==
    /\ Sum([k \in Mailboxes |-> domain.mailboxes[k].offered]) < MaxOffers
    /\ domain.route[m] = "Active"
    /\ LET report == offer(domain, m, message, now) IN
         /\ domain' = report.domain
         /\ outcome' = report.outcome
    /\ UNCHANGED <<grants, releases, leaked, now>>

Dispatch ==
    /\ \E answer \in dispatches(domain, now) :
         /\ domain' = answer.domain
         /\ grants' = grants \cup answer.grants
         /\ outcome' = answer.outcome
    /\ UNCHANGED <<releases, leaked, now>>

Finish(grant) ==
    /\ IF token_matches(domain.mailboxes[grant.mailbox], grant.token)
       THEN /\ domain' = finish_grant(domain, grant)
            /\ grants' = grants \ {grant}
            /\ releases' = releases \cup {grant}
            /\ outcome' = "Finished"
       ELSE /\ outcome' = "InflightTokenMismatch"
            /\ UNCHANGED <<domain, grants, releases>>
    /\ UNCHANGED <<leaked, now>>

Release(grant) ==
    /\ domain' = release(domain, grant)
    /\ releases' = releases \ {grant}
    /\ outcome' = "Released"
    /\ UNCHANGED <<grants, leaked, now>>

DropGrant(grant) ==
    /\ grants' = grants \ {grant}
    /\ leaked' = leaked \cup {grant}
    /\ UNCHANGED <<domain, releases, now, outcome>>

DropRelease(grant) ==
    /\ releases' = releases \ {grant}
    /\ leaked' = leaked \cup {grant}
    /\ UNCHANGED <<domain, grants, now, outcome>>

StopAccepting ==
    /\ domain' = stop_accepting_all(domain)
    /\ outcome' = "Stopped"
    /\ UNCHANGED <<grants, releases, leaked, now>>

CancelAllQueued ==
    /\ AllHave(domain, {"Draining", "Closed"})
    /\ domain' = cancel_all(domain)
    /\ outcome' = "Cancelled"
    /\ UNCHANGED <<grants, releases, leaked, now>>

AbandonAllAfterCallerRelease ==
    /\ in_use(domain) = 0
    /\ AllHave(domain, {"Draining", "Closed"})
    /\ domain' = abandon_all(domain)
    /\ outcome' = "Abandoned"
    /\ UNCHANGED <<grants, releases, leaked, now>>

Tick ==
    /\ now < MaxTime
    /\ now' = now + 1
    /\ UNCHANGED <<domain, grants, releases, leaked, outcome>>

Next ==
    \/ \E m \in Mailboxes, message \in Messages : Offer(m, message)
    \/ Dispatch
    \/ \E grant \in grants : Finish(grant)
    \/ \E grant \in grants : DropGrant(grant)
    \/ \E grant \in releases : Release(grant)
    \/ \E grant \in releases : DropRelease(grant)
    \/ StopAccepting
    \/ CancelAllQueued
    \/ AbandonAllAfterCallerRelease
    \/ Tick

Spec == Init /\ [][Next]_vars

(***************************************************************************)
(* Fairness of the drain, needed only once the domain stopped accepting:   *)
(* its owner keeps dispatching while messages are queued, and callback     *)
(* owners keep finishing and releasing what they hold.                     *)
(***************************************************************************)
Draining == AllHave(domain, {"Draining", "Closed"})

DrainDispatch == Draining /\ Queued(domain) > 0 /\ Dispatch
DrainFinish == Draining /\ \E grant \in grants : Finish(grant)
DrainRelease == Draining /\ \E grant \in releases : Release(grant)

-----------------------------------------------------------------------------
Held == grants \cup releases \cup leaked

\* The domain keeps one mailbox and one route per planned execution, and a
\* grant names a mailbox of the domain and a pool of its ledger.
TypeOK ==
    /\ \A m \in Mailboxes : /\ domain.mailboxes[m].lifecycle \in Lifecycles
                            /\ ToSet(domain.mailboxes[m].queue) \subseteq
                                  [message : Messages, queue_age_deadline : Nat]
    /\ domain.route \in [Mailboxes -> Routes]
    /\ \A grant \in Held : grant.mailbox \in Mailboxes /\ grant.pool \in {"Shared", "ControlReserved"}

\* The ledger counts exactly the permits handed out and not returned, pool by
\* pool and inside the two capacities; the reserve is for Control alone, whatever
\* the other classes hold or leak; and every mailbox passes validate_state.
PermitsAccounted ==
    /\ TypeOK
    /\ domain.shared_in_use = Cardinality({g \in Held : g.pool = "Shared"})
    /\ domain.control_reserved_in_use = Cardinality({g \in Held : g.pool = "ControlReserved"})
    /\ Cardinality({g \in Held : ClassOf[g.mailbox] # "Control"}) <= max_outstanding - control_reserved
    /\ in_use(domain) <= max_outstanding
    /\ \A m \in Mailboxes : validate_state(domain.mailboxes[m])

\* Every in-flight message is backed by a permit that has not been returned, so
\* abandon_all_after_caller_release, which demands that no permit is in use, finds
\* only empty in-flight tables; and a grant that an owner still holds can always be
\* finished, whatever the domain does behind its back.
InflightMatchesGrants ==
    /\ \A m \in Mailboxes : \A id \in DOMAIN domain.mailboxes[m].inflight :
          \E g \in grants \cup leaked :
              /\ g.mailbox = m /\ g.token.id = id
              /\ g.token.generation = domain.mailboxes[m].inflight[id].generation
    /\ \A g \in grants : token_matches(domain.mailboxes[g.mailbox], g.token)

\* A domain that stopped accepting drains: unless an owner dropped what it
\* held, every mailbox closes and every permit comes back: Draining leads to
\* Drained.
Drained == is_zero_cleanup(domain) \/ leaked # {}
=============================================================================
