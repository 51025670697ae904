------------------------- MODULE PortBindingProofs -------------------------
(***************************************************************************)
(* Proofs for PortBinding.tla, for every set of mailboxes and assignments. *)
(* The properties rest on what prepare established and activate does not   *)
(* check again: while a candidate is prepared, the active route does not   *)
(* change, so the candidate's epoch stays the next one and its mailbox     *)
(* stays distinct from the active route's.                                 *)
(***************************************************************************)
EXTENDS PortBinding, TLAPS

\* Every epoch handed out so far is at most the last live one, and the
\* prepared candidate, if any, holds the next.
EpochOrder ==
    /\ \A r \in installed : r.epoch <= last_live_epoch
    /\ \A e \in revoked : e <= last_live_epoch
    /\ prepared # NoRoute => prepared.epoch = last_live_epoch + 1

\* The live routes are installations, and a candidate keeps off the mailbox
\* of the active route.
RouteShape ==
    /\ active # NoRoute => active \in installed
    /\ draining # NoRoute => draining \in installed
    /\ prepared # NoRoute /\ active # NoRoute => Target(prepared) # Target(active)

\* A closed mailbox holds none of the binding's messages.
ClosedIsEmpty == \A m \in Mailboxes : lifecycle[m] = "Closed" => delivered[m] = 0

IInv ==
    /\ TypeOK /\ EpochOrder /\ RouteShape /\ ClosedIsEmpty
    /\ EpochNamesOneRoute /\ OneRouteAccepts /\ NoOrphanedMessages /\ RetiredRoutesAreClosed

\* A route in a binding's slot targets a mailbox; the empty slot is no route.
LEMMA RouteFacts ==
    ASSUME NEW r \in Routes
    PROVE  r # NoRoute /\ Target(r) \in Mailboxes /\ r.epoch \in Epochs /\ r.epoch \in Nat
BY BindingConstants DEF Routes, NoRoute, Target, Epochs

\* Mailbox::stop_accepting changes only an accepting mailbox, and a closed
\* one stays closed.
LEMMA StoppedFacts ==
    ASSUME TypeOK, NEW m \in Mailboxes
    PROVE  /\ stopped(m) \in [Mailboxes -> Lifecycles]
           /\ stopped(m)[m] # "Accepting"
           /\ \A k \in Mailboxes : lifecycle[k] = "Closed" => stopped(m)[k] = "Closed"
           /\ \A k \in Mailboxes : lifecycle[k] # "Accepting" => stopped(m)[k] # "Accepting"
           /\ \A k \in Mailboxes : stopped(m)[k] = "Closed" =>
                 lifecycle[k] = "Closed" \/ delivered[k] = 0
BY DEF TypeOK, stopped, Empty, Lifecycles

\* PortBinding::new establishes the invariant.
LEMMA InitEstablishes == Init => IInv
BY BindingConstants DEF Init, IInv, TypeOK, EpochOrder, RouteShape, ClosedIsEmpty,
   EpochNamesOneRoute, OneRouteAccepts, NoOrphanedMessages, RetiredRoutesAreClosed,
   NoRoute, Routes, Epochs, Lifecycles

\* PortBinding::prepare keeps the invariant.
LEMMA PrepareKeeps ==
    ASSUME IInv, NEW a \in Assignments, NEW epoch \in 0..MaxEpoch, Prepare(a, epoch)
    PROVE  IInv'
<1>1. TypeOK'
  BY BindingConstants DEF IInv, TypeOK, Prepare, next_epoch, Routes, Epochs, mailboxes, history
<1>2. prepared' # NoRoute /\ Target(prepared') = MailboxOf[a]
  BY BindingConstants DEF Prepare, NoRoute, Target
<1>3. EpochOrder' /\ RouteShape'
  BY <1>2 DEF IInv, EpochOrder, RouteShape, Prepare, next_epoch, Target, mailboxes, history
<1>4. /\ ClosedIsEmpty' /\ EpochNamesOneRoute' /\ OneRouteAccepts'
      /\ NoOrphanedMessages' /\ RetiredRoutesAreClosed'
  BY DEF IInv, Prepare, ClosedIsEmpty, EpochNamesOneRoute, OneRouteAccepts,
     NoOrphanedMessages, RetiredRoutesAreClosed, Target, mailboxes, history
<1>. QED BY <1>1, <1>3, <1>4 DEF IInv

\* PortBinding::activate keeps the invariant: the old route drains and its
\* mailbox has stopped, and the new epoch is fresh.
LEMMA ActivateKeeps ==
    ASSUME IInv, NEW epoch \in Epochs, Activate(epoch)
    PROVE  IInv'
<1>1. prepared \in Routes /\ Target(prepared) \in Mailboxes /\ prepared.epoch \in Nat
  BY RouteFacts DEF IInv, TypeOK, Activate
<1>2. active # NoRoute => active \in Routes /\ Target(active) \in Mailboxes
  BY RouteFacts DEF IInv, TypeOK
<1>3. /\ lifecycle' \in [Mailboxes -> Lifecycles]
      /\ \A k \in Mailboxes : lifecycle[k] = "Closed" => lifecycle'[k] = "Closed"
      /\ \A k \in Mailboxes : lifecycle'[k] = "Closed" => lifecycle[k] = "Closed" \/ delivered[k] = 0
      /\ active # NoRoute => lifecycle'[Target(active)] # "Accepting"
  <2>1. CASE active = NoRoute
    BY <2>1 DEF IInv, TypeOK, Activate
  <2>2. CASE active # NoRoute
    BY <2>2, <1>2, StoppedFacts DEF IInv, Activate
  <2>. QED BY <2>1, <2>2
<1>4. TypeOK'
  BY <1>1, <1>3, BindingConstants DEF IInv, TypeOK, Activate, Routes, Epochs
<1>5. EpochOrder'
  <2>1. last_live_epoch' = last_live_epoch + 1 /\ last_live_epoch \in Nat /\ prepared' = NoRoute
    BY DEF IInv, TypeOK, EpochOrder, Activate
  <2>2. \A r \in installed' : r.epoch <= last_live_epoch'
    BY <2>1, <1>1 DEF IInv, TypeOK, EpochOrder, Activate, Routes, Epochs
  <2>3. \A e \in revoked' : e <= last_live_epoch'
    BY <2>1 DEF IInv, TypeOK, EpochOrder, Activate, Epochs
  <2>. QED BY <2>1, <2>2, <2>3 DEF EpochOrder
<1>6. RouteShape'
  BY DEF IInv, RouteShape, Activate
<1>7. ClosedIsEmpty'
  BY <1>3 DEF IInv, ClosedIsEmpty, Activate
<1>8. EpochNamesOneRoute'
  <2>1. \A r \in installed : r.epoch # prepared.epoch
    BY <1>1 DEF IInv, TypeOK, EpochOrder, Activate, Routes, Epochs
  <2>2. prepared.epoch \notin revoked
    BY <1>1 DEF IInv, TypeOK, EpochOrder, Activate, Epochs
  <2>. QED BY <2>1, <2>2 DEF IInv, EpochNamesOneRoute, Activate
<1>9. OneRouteAccepts'
  BY <1>3 DEF IInv, RouteShape, OneRouteAccepts, Activate, Target
<1>10. NoOrphanedMessages'
  BY DEF IInv, NoOrphanedMessages, Activate, Target
<1>11. RetiredRoutesAreClosed'
  <2>1. SUFFICES ASSUME NEW r \in installed', r # active', r # draining'
                 PROVE  lifecycle'[Target(r)] = "Closed"
    BY DEF RetiredRoutesAreClosed, Target
  <2>2. r \in installed /\ r # active
    BY <2>1 DEF Activate
  <2>3. r # draining /\ Target(r) \in Mailboxes
    BY <2>2, RouteFacts DEF IInv, TypeOK, Activate
  <2>. QED BY <2>2, <2>3, <1>3 DEF IInv, RetiredRoutesAreClosed
<1>. QED BY <1>4, <1>5, <1>6, <1>7, <1>8, <1>9, <1>10, <1>11 DEF IInv

\* PortBinding::revoke keeps the invariant: the route drains and its epoch
\* is spent.
LEMMA RevokeKeeps ==
    ASSUME IInv, NEW epoch \in Epochs, Revoke(epoch)
    PROVE  IInv'
<1>1. active \in Routes /\ Target(active) \in Mailboxes
  BY RouteFacts DEF IInv, TypeOK, Revoke
<1>2. /\ lifecycle' \in [Mailboxes -> Lifecycles]
      /\ \A k \in Mailboxes : lifecycle[k] = "Closed" => lifecycle'[k] = "Closed"
      /\ \A k \in Mailboxes : lifecycle'[k] = "Closed" => lifecycle[k] = "Closed" \/ delivered[k] = 0
      /\ lifecycle'[Target(active)] # "Accepting"
  BY <1>1, StoppedFacts DEF IInv, Revoke
<1>3. TypeOK'
  BY <1>2, BindingConstants DEF IInv, TypeOK, Revoke, next_epoch, Epochs
<1>4. EpochOrder' /\ EpochNamesOneRoute'
  <2>1. last_live_epoch' = last_live_epoch + 1 /\ last_live_epoch \in Nat /\ prepared' = NoRoute
    BY DEF IInv, TypeOK, Revoke, next_epoch
  <2>2. \A r \in installed : r.epoch <= last_live_epoch /\ r.epoch \in Nat
    BY DEF IInv, TypeOK, EpochOrder, Routes, Epochs
  <2>3. \A e \in revoked : e <= last_live_epoch /\ e \in Nat
    BY DEF IInv, TypeOK, EpochOrder, Epochs
  <2>. QED BY <2>1, <2>2, <2>3 DEF IInv, EpochOrder, EpochNamesOneRoute, Revoke, next_epoch
<1>5. RouteShape' /\ ClosedIsEmpty' /\ OneRouteAccepts' /\ NoOrphanedMessages'
  BY <1>2 DEF IInv, RouteShape, ClosedIsEmpty, OneRouteAccepts, NoOrphanedMessages,
     Revoke, Target
<1>6. RetiredRoutesAreClosed'
  <2>1. SUFFICES ASSUME NEW r \in installed', r # active', r # draining'
                 PROVE  lifecycle'[Target(r)] = "Closed"
    BY DEF RetiredRoutesAreClosed, Target
  <2>2. r \in installed /\ r # active /\ r # draining /\ Target(r) \in Mailboxes
    BY <2>1, RouteFacts DEF IInv, TypeOK, Revoke
  <2>. QED BY <2>2, <1>2 DEF IInv, RetiredRoutesAreClosed
<1>. QED BY <1>3, <1>4, <1>5, <1>6 DEF IInv

\* PortBinding::rollback and retire_draining keep the invariant.
LEMMA RollbackKeeps ==
    ASSUME IInv, NEW epoch \in Epochs, Rollback(epoch)
    PROVE  IInv'
BY BindingConstants DEF IInv, TypeOK, EpochOrder, RouteShape, ClosedIsEmpty,
   EpochNamesOneRoute, OneRouteAccepts, NoOrphanedMessages, RetiredRoutesAreClosed,
   Rollback, Target, mailboxes, history, Epochs

LEMMA RetireKeeps ==
    ASSUME IInv, NEW epoch \in Epochs, RetireDraining(epoch)
    PROVE  IInv'
<1>1. draining \in Routes /\ Target(draining) \in Mailboxes
  BY RouteFacts DEF IInv, TypeOK, RetireDraining
<1>2. TypeOK' /\ EpochOrder' /\ RouteShape' /\ ClosedIsEmpty' /\ EpochNamesOneRoute' /\ OneRouteAccepts'
  BY DEF IInv, TypeOK, EpochOrder, RouteShape, ClosedIsEmpty, EpochNamesOneRoute,
     OneRouteAccepts, RetireDraining, Target, mailboxes, history
<1>3. NoOrphanedMessages'
  BY <1>1 DEF IInv, TypeOK, ClosedIsEmpty, NoOrphanedMessages, RetireDraining, Target,
     mailboxes, history
<1>4. RetiredRoutesAreClosed'
  BY DEF IInv, RetiredRoutesAreClosed, RetireDraining, Target, mailboxes, history
<1>. QED BY <1>2, <1>3, <1>4 DEF IInv

\* A step of a mailbox keeps the invariant when it opens no mailbox, closes
\* only an empty one, and adds messages to the active route's only.
LEMMA MailboxStepKeeps ==
    ASSUME IInv, UNCHANGED <<binding, history>>,
           lifecycle' \in [Mailboxes -> Lifecycles],
           delivered' \in [Mailboxes -> 0..MaxItems],
           foreign' \in [Mailboxes -> 0..MaxItems],
           \A k \in Mailboxes : lifecycle[k] = "Closed" => lifecycle'[k] = "Closed",
           \A k \in Mailboxes : lifecycle[k] # "Accepting" => lifecycle'[k] # "Accepting",
           \A k \in Mailboxes : lifecycle'[k] = "Closed" => delivered'[k] = 0,
           \A k \in Mailboxes : delivered'[k] > 0 =>
               delivered[k] > 0 \/ (active # NoRoute /\ Target(active) = k)
    PROVE  IInv'
<1>1. \A r \in installed : Target(r) \in Mailboxes
  BY RouteFacts DEF IInv, TypeOK
<1>2. draining # NoRoute => Target(draining) \in Mailboxes
  BY RouteFacts DEF IInv, TypeOK
<1>3. TypeOK' /\ EpochOrder' /\ RouteShape' /\ ClosedIsEmpty' /\ EpochNamesOneRoute'
  BY DEF IInv, TypeOK, EpochOrder, RouteShape, ClosedIsEmpty, EpochNamesOneRoute,
     Target, binding, history
<1>4. OneRouteAccepts' /\ NoOrphanedMessages' /\ RetiredRoutesAreClosed'
  BY <1>1, <1>2 DEF IInv, OneRouteAccepts, NoOrphanedMessages, RetiredRoutesAreClosed,
     Target, binding, history
<1>. QED BY <1>3, <1>4 DEF IInv

\* PortBinding::offer.
LEMMA OfferKeeps ==
    ASSUME IInv, NEW epoch \in Epochs, Offer(epoch)
    PROVE  IInv'
<1>1. Target(active) \in Mailboxes
  BY RouteFacts DEF IInv, TypeOK, Offer
<1>2. delivered' \in [Mailboxes -> 0..MaxItems]
  BY <1>1, BindingConstants DEF IInv, TypeOK, Offer
<1>3. \A k \in Mailboxes : lifecycle'[k] = "Closed" => delivered'[k] = 0
  BY <1>1 DEF IInv, TypeOK, ClosedIsEmpty, Offer
<1>4. \A k \in Mailboxes : delivered'[k] > 0 =>
          delivered[k] > 0 \/ (active # NoRoute /\ Target(active) = k)
  BY <1>1 DEF IInv, TypeOK, Offer
<1>. QED BY <1>2, <1>3, <1>4, MailboxStepKeeps DEF IInv, TypeOK, Offer

\* The mailboxes' own steps.
LEMMA MailboxKeeps ==
    ASSUME IInv, NEW m \in Mailboxes, OfferElsewhere(m) \/ Leave(m) \/ StopMailbox(m)
    PROVE  IInv'
<1>1. CASE OfferElsewhere(m)
  BY <1>1, MailboxStepKeeps, BindingConstants DEF IInv, TypeOK, ClosedIsEmpty, OfferElsewhere
<1>2. CASE Leave(m)
  <2>1. /\ lifecycle' = closed_if_drained(m)
        /\ delivered' \in [Mailboxes -> 0..MaxItems] /\ foreign' \in [Mailboxes -> 0..MaxItems]
        /\ UNCHANGED <<binding, history>>
    BY <1>2, BindingConstants DEF IInv, TypeOK, Leave
  <2>2. \A k \in Mailboxes : delivered'[k] <= delivered[k]
    BY <1>2, BindingConstants DEF IInv, TypeOK, Leave
  <2>3. /\ lifecycle' \in [Mailboxes -> Lifecycles]
        /\ \A k \in Mailboxes : lifecycle[k] = "Closed" => lifecycle'[k] = "Closed"
        /\ \A k \in Mailboxes : lifecycle[k] # "Accepting" => lifecycle'[k] # "Accepting"
    BY <2>1 DEF IInv, TypeOK, closed_if_drained, Lifecycles
  <2>4. \A k \in Mailboxes : lifecycle'[k] = "Closed" => delivered'[k] = 0
    BY <1>2, <2>1, <2>2, BindingConstants
    DEF IInv, TypeOK, ClosedIsEmpty, closed_if_drained, Leave
  <2>. QED BY <2>1, <2>2, <2>3, <2>4, MailboxStepKeeps DEF IInv, TypeOK
<1>3. CASE StopMailbox(m)
  BY <1>3, StoppedFacts, MailboxStepKeeps DEF IInv, TypeOK, ClosedIsEmpty, StopMailbox
<1>. QED BY <1>1, <1>2, <1>3

\* Every step keeps the invariant.
LEMMA NextKeeps == IInv /\ [Next]_vars => IInv'
<1>. SUFFICES ASSUME IInv, [Next]_vars PROVE IInv'
  OBVIOUS
<1>1. CASE UNCHANGED vars
  BY <1>1 DEF vars, binding, mailboxes, history, IInv, TypeOK, EpochOrder, RouteShape,
     ClosedIsEmpty, EpochNamesOneRoute, OneRouteAccepts, NoOrphanedMessages,
     RetiredRoutesAreClosed, Target
<1>2. CASE Next
  BY <1>2, PrepareKeeps, ActivateKeeps, RollbackKeeps, RevokeKeeps, RetireKeeps, OfferKeeps,
     MailboxKeeps DEF Next
<1>. QED BY <1>1, <1>2

LEMMA InvariantHolds == Spec => []IInv
<1>. QED BY InitEstablishes, NextKeeps, PTL DEF Spec

\* A live epoch identifies one installation for ever.
THEOREM EpochsNameOneRoute == Spec => []EpochNamesOneRoute
<1>1. IInv => EpochNamesOneRoute BY DEF IInv
<1>. QED BY <1>1, InvariantHolds, PTL

\* At most one route of a binding accepts messages.
THEOREM RoutesAreExclusive == Spec => []OneRouteAccepts
<1>1. IInv => OneRouteAccepts BY DEF IInv
<1>. QED BY <1>1, InvariantHolds, PTL

\* Every message the binding delivered is in the mailbox of a live route.
THEOREM MessagesHaveARoute == Spec => []NoOrphanedMessages
<1>1. IInv => NoOrphanedMessages BY DEF IInv
<1>. QED BY <1>1, InvariantHolds, PTL

\* A retired route leaves a closed mailbox behind.
THEOREM RetiredAreClosed == Spec => []RetiredRoutesAreClosed
<1>1. IInv => RetiredRoutesAreClosed BY DEF IInv
<1>. QED BY <1>1, InvariantHolds, PTL
=============================================================================
