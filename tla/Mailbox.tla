------------------------------- MODULE Mailbox -------------------------------
(***************************************************************************)
(* One mailbox (crates/paraegox-runtime/src/mailbox.rs) under every order  *)
(* of calls its owner can make.  The offering side may repeat an id; the   *)
(* executing side holds the in-flight tokens, and may finish one, lose one *)
(* (drop it unfinished) or come back with one that was abandoned.          *)
(***************************************************************************)
EXTENDS MailboxState

CONSTANTS
    Messages,   \* the messages producers offer
    Limits,     \* the mailbox limits a plan may compile
    MaxOffers,  \* bound: offers made to the mailbox
    MaxTime     \* bound: last reading of the clock

VARIABLES
    mailbox,    \* the Mailbox
    tokens,     \* in-flight tokens held by callback owners
    now,        \* the target-local clock
    last        \* outcome and terminal records of the latest call

vars == <<mailbox, tokens, now, last>>

Init ==
    /\ mailbox \in {new_mailbox(limits) : limits \in Limits}
    /\ tokens = {}
    /\ now = 0
    /\ last = [outcome |-> "None", terminals |-> {}]

Answer(outcome, terminals) == last' = [outcome |-> outcome, terminals |-> terminals]

Offer(message) ==
    /\ mailbox.offered < MaxOffers
    /\ LET report == try_offer(mailbox, message, now) IN
         /\ mailbox' = report.mailbox
         /\ Answer(report.outcome, report.terminals)
    /\ UNCHANGED <<tokens, now>>

BeginInflight ==
    /\ LET report == try_begin_inflight(mailbox, now) IN
         /\ mailbox' = report.mailbox
         /\ tokens' = tokens \cup report.tokens
         /\ Answer(report.outcome, report.terminals)
    /\ UNCHANGED now

Finish(token) ==
    /\ token_matches(mailbox, token)
    /\ mailbox' = finish(mailbox, token)
    /\ tokens' = tokens \ {token}
    /\ Answer("Finished", {[id |-> token.id, reason |-> "Completed"]})
    /\ UNCHANGED now

\* The token comes back to its caller.
FinishRefused(token) ==
    /\ ~token_matches(mailbox, token)
    /\ Answer("InflightTokenMismatch", {})
    /\ UNCHANGED <<mailbox, tokens, now>>

DropToken(token) ==
    /\ tokens' = tokens \ {token}
    /\ UNCHANGED <<mailbox, now, last>>

AbandonAll ==
    /\ mailbox.lifecycle # "Accepting"
    /\ LET report == abandon_all_inflight_uncertain(mailbox) IN
         /\ mailbox' = report.mailbox
         /\ Answer("Abandoned", report.terminals)
    /\ UNCHANGED <<tokens, now>>

StopAccepting ==
    /\ mailbox' = stop_accepting(mailbox)
    /\ Answer("Stopped", {})
    /\ UNCHANGED <<tokens, now>>

CancelAllQueued ==
    /\ mailbox.lifecycle # "Accepting"
    /\ LET report == cancel_all_queued(mailbox) IN
         /\ mailbox' = report.mailbox
         /\ Answer("Cancelled", report.terminals)
    /\ UNCHANGED <<tokens, now>>

ExpireQueued ==
    /\ LET report == expire_queued(mailbox, now) IN
         /\ mailbox' = report.mailbox
         /\ Answer("Expired", report.terminals)
    /\ UNCHANGED <<tokens, now>>

Tick ==
    /\ now < MaxTime
    /\ now' = now + 1
    /\ UNCHANGED <<mailbox, tokens, last>>

Next ==
    \/ \E message \in Messages : Offer(message)
    \/ BeginInflight
    \/ \E token \in tokens : Finish(token)
    \/ \E token \in tokens : FinishRefused(token)
    \/ \E token \in tokens : DropToken(token)
    \/ AbandonAll
    \/ StopAccepting
    \/ CancelAllQueued
    \/ ExpireQueued
    \/ Tick

Spec == Init /\ [][Next]_vars

-----------------------------------------------------------------------------
\* The state has the types the methods rely on: every queued item carries the
\* queue-age deadline it was admitted with, every token a generation already
\* handed out.
TypeOK ==
    /\ mailbox.limits \in Limits
    /\ mailbox.lifecycle \in Lifecycles
    /\ \A item \in Items(mailbox) :
          /\ item.message \in Messages
          /\ item.queue_age_deadline \in 0..(MaxTime + mailbox.limits.max_queue_age)
    /\ \A token \in tokens : token.generation \in 1..mailbox.next_token_generation
    /\ now \in 0..MaxTime

\* No order of calls leaves a mailbox that validate_state refuses: counted
\* bytes, items and terminals always agree with the queue and the in-flight
\* table, inside every limit, and a closed mailbox is empty.
StateNeverInconsistent == TypeOK /\ validate_state(mailbox)

Reported(id) == Cardinality({t \in last'.terminals : t.id = id})

\* An admitted message leaves the queue either into flight or with exactly one
\* terminal record, and leaves flight with exactly one terminal record: no
\* call of any method loses a message silently or reports it twice.
EveryExitReported ==
    [][/\ \A item \in Items(mailbox) \ Items(mailbox') :
             IF item.message.id \in DOMAIN mailbox'.inflight
             THEN Reported(item.message.id) = 0
             ELSE Reported(item.message.id) = 1
       /\ \A id \in DOMAIN mailbox.inflight \ DOMAIN mailbox'.inflight : Reported(id) = 1]_vars

\* What goes into flight is the oldest queued message that is still live at
\* this reading: dispatch never starts an expired message and never overtakes
\* (try_begin_inflight).
DispatchesOldestLive ==
    [][\A id \in DOMAIN mailbox'.inflight \ DOMAIN mailbox.inflight :
          \E i \in DOMAIN mailbox.queue :
             /\ mailbox.queue[i].message.id = id
             /\ expiration(mailbox.queue[i]) > now
             /\ \A j \in 1..(i - 1) : expiration(mailbox.queue[j]) <= now]_vars

LiveBefore == {i \in DOMAIN mailbox.queue : expiration(mailbox.queue[i]) > now}
Lost == {i \in LiveBefore : mailbox.queue[i] \notin Items(mailbox')}

\* A live message is given up only for a message that is admitted: never by a
\* rejected offer, never under RejectNew or BlockUntilDeadline, and under
\* DropOldest from the oldest on and only while a limit would still be broken
\* (try_offer, fit_after_removing).
LiveGivenUpOnlyForRoom ==
    [][(mailbox'.offered > mailbox.offered /\ Lost # {}) =>
          /\ mailbox'.admitted = mailbox.admitted + 1
          /\ mailbox.limits.overflow \notin {"RejectNew", "BlockUntilDeadline"}
          /\ mailbox.limits.overflow = "DropOldest" =>
                LET spared == mailbox.queue[Max(Lost)].message.bytes IN
                /\ \A i \in LiveBefore \ Lost : i > Max(Lost)
                /\ \/ Len(mailbox'.queue) + 1 > mailbox.limits.capacity_items
                   \/ mailbox'.queued_bytes + spared > mailbox.limits.capacity_bytes
                   \/ mailbox'.queued_bytes + mailbox'.inflight_bytes + spared
                        > mailbox.limits.max_retained_bytes]_vars
=============================================================================
