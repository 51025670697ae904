---------------------------- MODULE PortBinding ----------------------------
(***************************************************************************)
(* The route of one logical binding                                        *)
(* (crates/paraegox-runtime/src/port_binding.rs, PortBinding): a candidate *)
(* is prepared, activated or rolled back; the route it replaces, or a      *)
(* revoked one, drains until its mailbox has closed and is then retired.   *)
(*                                                                         *)
(* A mailbox is its lifecycle and the number of messages it holds, those   *)
(* this binding delivered and those that came by another way               *)
(* (Mailbox.tla models the rest).  Every epoch a caller may pass, stale or *)
(* current, is an input; a refused call, and a repeated prepare or         *)
(* activate of the active route, changes nothing and is no step.           *)
(***************************************************************************)
EXTENDS Integers

CONSTANTS
    Mailboxes,    \* mailboxes an assignment may target
    Assignments,  \* admitted assignments of this binding
    MailboxOf,    \* the mailbox each of them targets
    MaxEpoch,     \* largest epoch (u64::MAX)
    MaxItems,     \* bound: messages a mailbox holds
    NoAssignment

ASSUME BindingConstants ==
    /\ MailboxOf \in [Assignments -> Mailboxes]
    /\ MaxEpoch \in Nat \ {0} /\ MaxItems \in Nat \ {0}
    /\ NoAssignment \notin Assignments

Epochs == 1..MaxEpoch
Routes == [assignment : Assignments, epoch : Epochs]
NoRoute == [assignment |-> NoAssignment, epoch |-> 0]
Lifecycles == {"Accepting", "Draining", "Closed"}

VARIABLES
    last_live_epoch, prepared, active, draining,  \* the PortBinding
    expected_active,  \* epoch the prepared candidate replaces, 0 for none
    lifecycle,        \* of every mailbox
    delivered,        \* messages of this binding each mailbox holds
    foreign,          \* messages that reached it by another way
    installed,        \* history: every route that has been active
    revoked           \* history: epochs consumed by revocations

binding == <<last_live_epoch, prepared, active, draining, expected_active>>
mailboxes == <<lifecycle, delivered, foreign>>
history == <<installed, revoked>>
vars == <<binding, mailboxes, history>>

Target(route) == MailboxOf[route.assignment]
Empty(m) == delivered[m] = 0 /\ foreign[m] = 0

Init ==
    /\ last_live_epoch = 0 /\ expected_active = 0
    /\ prepared = NoRoute /\ active = NoRoute /\ draining = NoRoute
    /\ lifecycle = [m \in Mailboxes |-> "Accepting"]
    /\ delivered = [m \in Mailboxes |-> 0] /\ foreign = [m \in Mailboxes |-> 0]
    /\ installed = {} /\ revoked = {}

\* Giving a replacement the live epoch again.
MutNextEpoch == IF last_live_epoch = 0 THEN 1 ELSE last_live_epoch

next_epoch == last_live_epoch + 1

Prepare(a, expected) ==
    /\ prepared = NoRoute
    /\ active.epoch = expected
    /\ lifecycle[MailboxOf[a]] = "Accepting"
    /\ active # NoRoute => Target(active) # MailboxOf[a]
    /\ draining = NoRoute
    /\ Empty(MailboxOf[a])
    /\ next_epoch <= MaxEpoch
    /\ prepared' = [assignment |-> a, epoch |-> next_epoch]
    /\ expected_active' = expected
    /\ UNCHANGED <<last_live_epoch, active, draining, mailboxes, history>>

\* Mailbox::stop_accepting: an empty mailbox closes at once.
stopped(m) ==
    [lifecycle EXCEPT ![m] = IF @ # "Accepting" THEN @
                             ELSE IF Empty(m) THEN "Closed" ELSE "Draining"]

Activate(epoch) ==
    /\ prepared # NoRoute /\ prepared.epoch = epoch
    /\ active.epoch = expected_active
    /\ draining = NoRoute
    /\ lifecycle[Target(prepared)] = "Accepting" /\ Empty(Target(prepared))
    /\ lifecycle' = IF active = NoRoute THEN lifecycle ELSE stopped(Target(active))
    /\ active' = prepared /\ draining' = active /\ prepared' = NoRoute
    /\ last_live_epoch' = prepared.epoch /\ expected_active' = 0
    /\ installed' = installed \cup {prepared}
    /\ UNCHANGED <<delivered, foreign, revoked>>

Rollback(epoch) ==
    /\ prepared # NoRoute /\ prepared.epoch = epoch
    /\ prepared' = NoRoute /\ expected_active' = 0
    /\ UNCHANGED <<last_live_epoch, active, draining, mailboxes, history>>

Revoke(expected) ==
    /\ prepared = NoRoute /\ draining = NoRoute
    /\ active # NoRoute /\ active.epoch = expected
    /\ next_epoch <= MaxEpoch
    /\ lifecycle' = stopped(Target(active))
    /\ active' = NoRoute /\ draining' = active
    /\ last_live_epoch' = next_epoch
    /\ revoked' = revoked \cup {next_epoch}
    /\ UNCHANGED <<prepared, expected_active, delivered, foreign, installed>>

\* Retiring a route as soon as its mailbox stopped accepting.
MutRetireDraining(expected) ==
    /\ draining # NoRoute /\ draining.epoch = expected
    /\ lifecycle[Target(draining)] # "Accepting"
    /\ draining' = NoRoute
    /\ UNCHANGED <<last_live_epoch, prepared, active, expected_active, mailboxes, history>>

RetireDraining(expected) ==
    /\ draining # NoRoute /\ draining.epoch = expected
    /\ lifecycle[Target(draining)] = "Closed"
    /\ draining' = NoRoute
    /\ UNCHANGED <<last_live_epoch, prepared, active, expected_active, mailboxes, history>>

Offer(epoch) ==
    /\ active # NoRoute /\ active.epoch = epoch
    /\ lifecycle[Target(active)] = "Accepting"
    /\ delivered[Target(active)] < MaxItems
    /\ delivered' = [delivered EXCEPT ![Target(active)] = @ + 1]
    /\ UNCHANGED <<binding, lifecycle, foreign, history>>

-----------------------------------------------------------------------------
(* The mailboxes' other owners: a message offered past this binding, a     *)
(* message that leaves, a mailbox stopped by its own owner.                *)

OfferElsewhere(m) ==
    /\ lifecycle[m] = "Accepting" /\ foreign[m] < MaxItems
    /\ foreign' = [foreign EXCEPT ![m] = @ + 1]
    /\ UNCHANGED <<binding, lifecycle, delivered, history>>

\* Mailbox::finish and the other exits close a drained mailbox.
closed_if_drained(m) ==
    [lifecycle EXCEPT ![m] =
        IF @ = "Draining" /\ delivered[m] + foreign[m] = 1 THEN "Closed" ELSE @]

Leave(m) ==
    \/ /\ delivered[m] > 0
       /\ delivered' = [delivered EXCEPT ![m] = @ - 1]
       /\ lifecycle' = closed_if_drained(m)
       /\ UNCHANGED <<binding, foreign, history>>
    \/ /\ foreign[m] > 0
       /\ foreign' = [foreign EXCEPT ![m] = @ - 1]
       /\ lifecycle' = closed_if_drained(m)
       /\ UNCHANGED <<binding, delivered, history>>

StopMailbox(m) ==
    /\ lifecycle[m] = "Accepting"
    /\ lifecycle' = stopped(m)
    /\ UNCHANGED <<binding, delivered, foreign, history>>

Next ==
    \/ \E a \in Assignments, epoch \in 0..MaxEpoch : Prepare(a, epoch)
    \/ \E epoch \in Epochs :
         \/ Activate(epoch) \/ Rollback(epoch) \/ Revoke(epoch)
         \/ RetireDraining(epoch) \/ Offer(epoch)
    \/ \E m \in Mailboxes : OfferElsewhere(m) \/ Leave(m) \/ StopMailbox(m)

Spec == Init /\ [][Next]_vars

-----------------------------------------------------------------------------
(* Properties.                                                             *)

\* Type invariant.
TypeOK ==
    /\ last_live_epoch \in 0..MaxEpoch /\ expected_active \in 0..MaxEpoch
    /\ prepared \in Routes \cup {NoRoute}
    /\ active \in Routes \cup {NoRoute}
    /\ draining \in Routes \cup {NoRoute}
    /\ lifecycle \in [Mailboxes -> Lifecycles]
    /\ delivered \in [Mailboxes -> 0..MaxItems]
    /\ foreign \in [Mailboxes -> 0..MaxItems]
    /\ installed \in SUBSET Routes /\ revoked \in SUBSET Epochs

\* A live epoch identifies one installation for ever: no two routes that
\* were ever active share an epoch, and none has the epoch of a revocation,
\* although rolled-back candidates give their epoch back (doc of revoke: a
\* later installation receives an epoch strictly greater).
EpochNamesOneRoute ==
    /\ \A r, s \in installed : r.epoch = s.epoch => r = s
    /\ \A r \in installed : r.epoch \notin revoked

\* At most one route admits messages: the draining route's mailbox no
\* longer accepts and is not the active route's (doc of activate: there is
\* never an intermediate state with two routes accepting new messages).
OneRouteAccepts ==
    draining # NoRoute =>
        /\ lifecycle[Target(draining)] # "Accepting"
        /\ active # NoRoute => Target(active) # Target(draining)

\* A message the binding delivered is in the mailbox of its active or its
\* draining route: no switch, revocation or retirement lets go of a mailbox
\* that still holds messages.
NoOrphanedMessages ==
    \A m \in Mailboxes : delivered[m] > 0 =>
        \/ active # NoRoute /\ Target(active) = m
        \/ draining # NoRoute /\ Target(draining) = m

\* A route that was active and is neither active nor draining has been
\* retired for good: its mailbox is closed, so no later candidate can take
\* it into use again.
RetiredRoutesAreClosed ==
    \A r \in installed : r # active /\ r # draining => lifecycle[Target(r)] = "Closed"
=============================================================================
