---------------------------- MODULE MailboxState ----------------------------
(***************************************************************************)
(* The semantic mailbox of the runtime                                     *)
(* (crates/paraegox-runtime/src/mailbox.rs) as a value: one record per     *)
(* Mailbox and one operator per method, returning the mailbox after the    *)
(* call together with what the call answers.  Mailbox.tla drives one such  *)
(* record; LoopDomain.tla drives one per planned execution.                *)
(*                                                                         *)
(* A message is [id, bytes, key, conforms, fresh_until, run_deadline]:     *)
(* conforms abstracts the comparison of schema and interaction class,      *)
(* bytes is the charged payload size, key is NoKey when the message        *)
(* carries no coalesce key.  Readings and deadlines are points of one      *)
(* clock generation.  Of the offer and terminal counters the record keeps  *)
(* the totals that validate_state relates.                                 *)
(***************************************************************************)
EXTENDS Integers, Sequences, FiniteSets, FiniteSetsExt, SequencesExt

CONSTANT NoKey

Lifecycles == {"Accepting", "Draining", "Closed"}

OverflowPolicies ==
    {"RejectNew", "DropOldest", "Latest", "CoalesceByKey", "BlockUntilDeadline"}

\* A mailbox as try_new_with_class leaves it.
new_mailbox(limits) ==
    [limits |-> limits, lifecycle |-> "Accepting",
     queue |-> <<>>, inflight |-> [id \in {} |-> 0],
     queued_bytes |-> 0, inflight_bytes |-> 0, next_token_generation |-> 0,
     offered |-> 0, admitted |-> 0, terminated |-> 0]

Items(mb) == ToSet(mb.queue)
ActiveIds(mb) == {item.message.id : item \in Items(mb)} \cup DOMAIN mb.inflight
Bytes(items) == MapThenSumSet(LAMBDA item : item.message.bytes, items)

\* A set of items is one terminal each: the counters move with the queue.
remove_queue_indices(mb, items) ==
    [mb EXCEPT !.queue = SelectSeq(@, LAMBDA item : item \notin items),
               !.queued_bytes = @ - Bytes(items),
               !.terminated = @ + Cardinality(items)]

\* Closing over executions that are still running.
MutCloseIgnoresInflight(mb) ==
    IF mb.lifecycle = "Draining" /\ mb.queue = <<>>
    THEN [mb EXCEPT !.lifecycle = "Closed"] ELSE mb

close_if_drained(mb) ==
    IF mb.lifecycle = "Draining" /\ mb.queue = <<>> /\ DOMAIN mb.inflight = {}
    THEN [mb EXCEPT !.lifecycle = "Closed"] ELSE mb

-----------------------------------------------------------------------------
(* Expiry of queued items.                                                 *)

expiration(item) ==
    Min({item.message.run_deadline, item.message.fresh_until, item.queue_age_deadline})

\* The earliest deadline names the reason; at an equal boundary the latest
\* run start is the stronger one, then freshness.
expiration_reason(item) ==
    IF item.message.run_deadline = expiration(item) THEN "RunDeadlineExpired"
    ELSE IF item.message.fresh_until = expiration(item) THEN "StaleBeforeRun"
    ELSE "QueueAgeExpired"

expired_items(mb, now) == {item \in Items(mb) : expiration(item) <= now}

Terminals(items, reason) == {[id |-> item.message.id, reason |-> reason] : item \in items}

ExpiredTerminals(items) ==
    {[id |-> item.message.id, reason |-> expiration_reason(item)] : item \in items}

-----------------------------------------------------------------------------
(* try_offer.                                                              *)

fits(mb, message) ==
    /\ Len(mb.queue) + 1 <= mb.limits.capacity_items
    /\ mb.queued_bytes + message.bytes <= mb.limits.capacity_bytes
    /\ mb.queued_bytes + mb.inflight_bytes + message.bytes <= mb.limits.max_retained_bytes

Oldest(mb, n) == {mb.queue[i] : i \in 1..n}

\* Evicting more than the message needs.
MutDropsOneMore(mb, message) ==
    LET enough == {n \in 0..Len(mb.queue) : fits(remove_queue_indices(mb, Oldest(mb, n)), message)}
    IN  IF enough = {} THEN Items(mb)
        ELSE Oldest(mb, IF Min(enough) = 0 THEN 0 ELSE Min({Min(enough) + 1, Len(mb.queue)}))

oldest_to_drop(mb, message) ==
    LET enough == {n \in 0..Len(mb.queue) : fits(remove_queue_indices(mb, Oldest(mb, n)), message)}
    IN  IF enough = {} THEN Items(mb) ELSE Oldest(mb, Min(enough))

SameKey(mb, message) == {i \in DOMAIN mb.queue : mb.queue[i].message.key = message.key}

\* The live items the overflow policy gives up for the message.
displaced(mb, message) ==
    CASE mb.limits.overflow = "Latest" -> Items(mb)
      [] mb.limits.overflow = "CoalesceByKey" ->
            {mb.queue[i] : i \in {j \in SameKey(mb, message) : j = Max(SameKey(mb, message))}}
      [] mb.limits.overflow = "DropOldest" -> oldest_to_drop(mb, message)
      [] OTHER -> {}

displaced_reason(mb) == IF mb.limits.overflow = "CoalesceByKey" THEN "Coalesced" ELSE "Evicted"

rejects(mb, message) ==
    \/ ~message.conforms
    \/ message.id \in ActiveIds(mb)
    \/ message.bytes > Min({mb.limits.capacity_bytes, mb.limits.max_retained_bytes})
    \/ mb.limits.overflow = "CoalesceByKey" /\ message.key = NoKey

dead_on_arrival(mb, message, now) ==
    \/ message.fresh_until <= now
    \/ message.run_deadline <= now
    \/ mb.limits.max_queue_age = 0

\* The decision, on a mailbox whose expired items are already set aside.
PlannedOffer(mb, message, now) ==
    IF dead_on_arrival(mb, message, now) THEN "ExpiredBeforeAdmission"
    ELSE IF rejects(mb, message) THEN "Rejected"
    ELSE IF fits(remove_queue_indices(mb, displaced(mb, message)), message) THEN "Admitted"
    ELSE IF mb.limits.overflow = "BlockUntilDeadline" THEN "WouldBlock"
    ELSE "Rejected"

enqueue(mb, message, now) ==
    [mb EXCEPT !.queue = Append(@, [message |-> message,
                                    queue_age_deadline |-> now + mb.limits.max_queue_age]),
               !.queued_bytes = @ + message.bytes,
               !.admitted = @ + 1]

\* What the message costs the queue.
given_up(mb, message, now) ==
    IF PlannedOffer(mb, message, now) = "Admitted" THEN displaced(mb, message) ELSE {}

\* Every offer to an accepting mailbox first buries what has expired, also
\* when the new message is then refused; a refused message displaces nothing.
try_offer(mb, message, now) ==
    LET expired  == expired_items(mb, now)
        live     == remove_queue_indices(mb, expired)
        decision == PlannedOffer(live, message, now)
        out      == given_up(live, message, now)
        counted  == [remove_queue_indices(live, out) EXCEPT !.offered = @ + 1]
    IN  IF mb.lifecycle # "Accepting"
        THEN [mailbox |-> [mb EXCEPT !.offered = @ + 1], outcome |-> "Closed", terminals |-> {}]
        ELSE [mailbox |-> IF decision = "Admitted" THEN enqueue(counted, message, now) ELSE counted,
              outcome |-> decision,
              terminals |-> ExpiredTerminals(expired) \cup Terminals(out, displaced_reason(mb))]

-----------------------------------------------------------------------------
(* Dispatch and completion.                                                *)

head_readiness(mb, now) ==
    IF mb.lifecycle = "Closed" THEN "Closed"
    ELSE IF mb.queue = <<>> THEN "Empty"
    ELSE IF expiration(Head(mb.queue)) <= now THEN "Expired"
    ELSE IF Cardinality(DOMAIN mb.inflight) >= mb.limits.max_inflight THEN "NoPermit"
    ELSE "Ready"

expire_queued(mb, now) ==
    LET expired == IF mb.lifecycle = "Closed" THEN {} ELSE expired_items(mb, now)
    IN  [mailbox |-> close_if_drained(remove_queue_indices(mb, expired)),
         terminals |-> ExpiredTerminals(expired)]

\* The token a started dispatch hands out, and the accounting kept for it.
Token(mb) == [id |-> Head(mb.queue).message.id, message |-> Head(mb.queue).message,
              generation |-> mb.next_token_generation + 1]

start(mb) ==
    LET token == Token(mb) IN
    [mb EXCEPT !.queue = Tail(@),
               !.queued_bytes = @ - token.message.bytes,
               !.inflight_bytes = @ + token.message.bytes,
               !.next_token_generation = token.generation,
               !.inflight = (token.id :> [generation |-> token.generation,
                                          bytes |-> token.message.bytes]) @@ @]

\* try_begin_inflight: expired items leave first; a draining mailbox that is
\* left empty closes here.  Only a started dispatch hands out a token.
try_begin_inflight(mb, now) ==
    LET expiry == expire_queued(mb, now)
        live   == expiry.mailbox
    IN  IF mb.lifecycle = "Closed"
        THEN [mailbox |-> mb, outcome |-> "Closed", tokens |-> {}, terminals |-> {}]
        ELSE IF live.queue # <<>> /\ Cardinality(DOMAIN live.inflight) < live.limits.max_inflight
        THEN [mailbox |-> start(live), outcome |-> "Started",
              tokens |-> {Token(live)}, terminals |-> expiry.terminals]
        ELSE [mailbox |-> live, tokens |-> {}, terminals |-> expiry.terminals,
              outcome |-> IF live.queue # <<>> THEN "NoPermit"
                          ELSE IF live.lifecycle = "Closed" THEN "Closed" ELSE "NoQueuedMessage"]

token_matches(mb, token) ==
    /\ token.id \in DOMAIN mb.inflight
    /\ mb.inflight[token.id] = [generation |-> token.generation, bytes |-> token.message.bytes]

\* finish, for a token that matches and a reason that completes an execution.
finish(mb, token) ==
    close_if_drained([mb EXCEPT !.inflight = [id \in DOMAIN mb.inflight \ {token.id} |->
                                                 mb.inflight[id]],
                                !.inflight_bytes = @ - token.message.bytes,
                                !.terminated = @ + 1])

abandon_all_inflight_uncertain(mb) ==
    [mailbox |-> close_if_drained([mb EXCEPT !.inflight = [id \in {} |-> 0],
                                             !.inflight_bytes = 0,
                                             !.terminated = @ + Cardinality(DOMAIN mb.inflight)]),
     terminals |-> {[id |-> id, reason |-> "Uncertain"] : id \in DOMAIN mb.inflight}]

stop_accepting(mb) ==
    close_if_drained(IF mb.lifecycle = "Accepting" THEN [mb EXCEPT !.lifecycle = "Draining"] ELSE mb)

cancel_all_queued(mb) ==
    [mailbox |-> close_if_drained(remove_queue_indices(mb, Items(mb))),
     terminals |-> Terminals(Items(mb), "Cancelled")]

-----------------------------------------------------------------------------
(* validate_state, evaluated by every method before it does anything: a    *)
(* mailbox that fails it answers StateInconsistent forever.                *)
validate_state(mb) ==
    /\ Len(mb.queue) <= mb.limits.capacity_items
    /\ Cardinality(DOMAIN mb.inflight) <= mb.limits.max_inflight
    /\ mb.queued_bytes <= mb.limits.capacity_bytes
    /\ mb.queued_bytes = Bytes(Items(mb))
    /\ mb.inflight_bytes = MapThenSumSet(LAMBDA id : mb.inflight[id].bytes, DOMAIN mb.inflight)
    /\ mb.queued_bytes + mb.inflight_bytes <= mb.limits.max_retained_bytes
    /\ Cardinality(ActiveIds(mb)) = Len(mb.queue) + Cardinality(DOMAIN mb.inflight)
    /\ Len(mb.queue) + Cardinality(DOMAIN mb.inflight) + mb.terminated = mb.admitted
    /\ mb.lifecycle = "Closed" => ActiveIds(mb) = {}
=============================================================================
