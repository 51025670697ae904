-------------------------- MODULE LoopDomainState --------------------------
(***************************************************************************)
(* One LoopDomain generation (crates/paraegox-runtime/src/loop_domain.rs)  *)
(* as a value: the mailbox and the binding route of every planned          *)
(* execution, and the domain's permit ledger (dispatcher.rs,               *)
(* DomainPermitLedger).  One operator per method; LoopDomain.tla and       *)
(* ComponentRuntime.tla drive the value.                                   *)
(*                                                                         *)
(* A domain installs each binding once, at construction, so a route is     *)
(* Active until stop_accepting revokes it, Draining until its mailbox has  *)
(* closed, then Retired.  Which eligible mailbox is served is left open    *)
(* here: Dispatcher.tla models the policy that chooses.  Terminal records  *)
(* are the subject of Mailbox.tla and left out.                            *)
(***************************************************************************)
EXTENDS MailboxState

CONSTANTS
    Mailboxes,        \* the planned mailbox executions
    LimitsOf,         \* their compiled mailbox limits
    ClassOf,          \* their dispatch class
    max_outstanding,  \* permits of the domain
    control_reserved  \* permits only the Control class may take

ASSUME PermitCapacities ==
    /\ max_outstanding \in Nat \ {0}
    /\ control_reserved \in 0..max_outstanding

Routes == {"Active", "Draining", "Retired"}

new_domain ==
    [mailboxes |-> [m \in Mailboxes |-> new_mailbox(LimitsOf[m])],
     route |-> [m \in Mailboxes |-> "Active"],
     shared_in_use |-> 0, control_reserved_in_use |-> 0]

Sum(f) == MapThenSumSet(LAMBDA m : f[m], DOMAIN f)
Inflight(d) == Sum([m \in Mailboxes |-> Cardinality(DOMAIN d.mailboxes[m].inflight)])
Queued(d) == Sum([m \in Mailboxes |-> Len(d.mailboxes[m].queue)])
in_use(d) == d.shared_in_use + d.control_reserved_in_use
AllHave(d, lifecycles) == \A m \in Mailboxes : d.mailboxes[m].lifecycle \in lifecycles

with_mailbox(d, m, mailbox) ==
    [d EXCEPT !.mailboxes = [k \in Mailboxes |-> IF k = m THEN mailbox ELSE d.mailboxes[k]]]

retire_closed_bindings(d) ==
    [d EXCEPT !.route = [m \in Mailboxes |->
        IF d.route[m] = "Draining" /\ d.mailboxes[m].lifecycle = "Closed"
        THEN "Retired" ELSE d.route[m]]]

is_zero_cleanup(d) ==
    /\ AllHave(d, {"Closed"})
    /\ Queued(d) = 0 /\ Inflight(d) = 0
    /\ \A m \in Mailboxes : /\ d.mailboxes[m].queued_bytes = 0
                            /\ d.mailboxes[m].inflight_bytes = 0
                            /\ d.route[m] = "Retired"
    /\ in_use(d) = 0

-----------------------------------------------------------------------------
(* The permit ledger.                                                      *)

\* Letting every class into the reserve.
MutPoolFor(d, class) ==
    IF d.control_reserved_in_use < control_reserved THEN "ControlReserved"
    ELSE IF d.shared_in_use < max_outstanding - control_reserved THEN "Shared"
    ELSE "None"

pool_for(d, class) ==
    IF class = "Control" /\ d.control_reserved_in_use < control_reserved THEN "ControlReserved"
    ELSE IF d.shared_in_use < max_outstanding - control_reserved THEN "Shared"
    ELSE "None"

try_acquire(d, pool) ==
    IF pool = "Shared" THEN [d EXCEPT !.shared_in_use = @ + 1]
                       ELSE [d EXCEPT !.control_reserved_in_use = @ + 1]

release_permit(d, pool) ==
    IF pool = "Shared" THEN [d EXCEPT !.shared_in_use = @ - 1]
                       ELSE [d EXCEPT !.control_reserved_in_use = @ - 1]

-----------------------------------------------------------------------------
(* Offers go through the exact active route only.                          *)
offer(d, m, message, now) ==
    LET report == try_offer(d.mailboxes[m], message, now)
    IN  [domain |-> with_mailbox(d, m, report.mailbox), outcome |-> report.outcome]

-----------------------------------------------------------------------------
(* try_dispatch: expiry of the mailboxes whose head has expired, retirement*)
(* of closed routes, selection with a permit, exact dequeue.               *)

expire_expired_heads(d, now) ==
    retire_closed_bindings(
        [d EXCEPT !.mailboxes = [m \in Mailboxes |->
            IF head_readiness(d.mailboxes[m], now) = "Expired"
            THEN expire_queued(d.mailboxes[m], now).mailbox
            ELSE d.mailboxes[m]]])

ready(d, now) == {m \in Mailboxes : head_readiness(d.mailboxes[m], now) = "Ready"}

eligible(d, now) == {m \in ready(d, now) : pool_for(d, ClassOf[m]) # "None"}

\* The permit is taken before the dequeue and given back when the mailbox,
\* against its own readiness answer, starts nothing.
start_selected(d, m, now) ==
    LET pool     == pool_for(d, ClassOf[m])
        report   == try_begin_inflight(d.mailboxes[m], now)
        dequeued == with_mailbox(d, m, report.mailbox)
        started  == report.outcome = "Started"
    IN  [domain |-> IF started THEN try_acquire(dequeued, pool) ELSE dequeued,
         grants |-> {[mailbox |-> m, token |-> token, pool |-> pool] : token \in report.tokens},
         outcome |-> IF started THEN "Started" ELSE "DispatchInvariant"]

\* The answers of a turn once expired heads are gone, one per mailbox that the
\* policy may select.
answers(live, now) ==
    IF eligible(live, now) = {}
    THEN {[domain |-> live, grants |-> {},
           outcome |-> IF ready(live, now) = {} THEN "NoReadyMailbox" ELSE "NoDomainPermit"]}
    ELSE {start_selected(live, m, now) : m \in eligible(live, now)}

dispatches(d, now) == UNION {answers(live, now) : live \in {expire_expired_heads(d, now)}}

-----------------------------------------------------------------------------
(* Completion and shutdown.                                                *)

\* The terminal is committed; the permit stays with the returned release.
finish_grant(d, grant) ==
    with_mailbox(d, grant.mailbox, finish(d.mailboxes[grant.mailbox], grant.token))

release(d, grant) == retire_closed_bindings(release_permit(d, grant.pool))

stop_accepting_all(d) ==
    retire_closed_bindings(
        [d EXCEPT !.mailboxes = [m \in Mailboxes |->
                      IF d.route[m] = "Active" THEN stop_accepting(d.mailboxes[m])
                                               ELSE d.mailboxes[m]],
                  !.route = [m \in Mailboxes |->
                      IF d.route[m] = "Active" THEN "Draining" ELSE d.route[m]]])

cancel_all(d) ==
    retire_closed_bindings([d EXCEPT !.mailboxes =
        [m \in Mailboxes |-> cancel_all_queued(d.mailboxes[m]).mailbox]])

abandon_all(d) ==
    retire_closed_bindings([d EXCEPT !.mailboxes =
        [m \in Mailboxes |-> abandon_all_inflight_uncertain(d.mailboxes[m]).mailbox]])
=============================================================================
