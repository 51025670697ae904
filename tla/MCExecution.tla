---------------------------- MODULE MCExecution ----------------------------
(***************************************************************************)
(* The three parts of message execution, one to a behaviour: a port        *)
(* binding (PortBinding), a mailbox (Mailbox) or a dispatch policy         *)
(* (Dispatcher) takes the steps, and the other two stay as they started.   *)
(*                                                                         *)
(* The binding has three mailboxes, one of which two assignments target.   *)
(* The mailbox is offered five messages that collide in id, in key and at  *)
(* deadlines.  The policy schedules a cheap control slot beside two stream *)
(* slots of unequal cost, weight and burst, or five slots that are alike.  *)
(***************************************************************************)
EXTENDS PortBinding, Sequences

CONSTANTS m1, m2, m3

Targets == [a |-> m1, b |-> m2, c |-> m3, d |-> m1]
TargetNames == DOMAIN Targets

VARIABLES
    part,                                       \* which of the parts takes steps
    mailbox, tokens, now, last,                 \* Mailbox
    specs, policy, eligible, selected, turn     \* Dispatcher

boxVars == <<mailbox, tokens, now, last>>
policyVars == <<specs, policy, eligible, selected, turn>>

NoKey == "none"
MaxOffers == 4
MaxTime == 3

Message(id, bytes, key, conforms, fresh, run) ==
    [id |-> id, bytes |-> bytes, key |-> key, conforms |-> conforms,
     fresh_until |-> fresh, run_deadline |-> run]

Messages == {
    Message("m1", 1, "k1", TRUE, 2, 3),
    Message("m1", 2, NoKey, TRUE, 3, 3),
    Message("m2", 2, "k1", TRUE, 3, 2),
    Message("m3", 1, "k2", TRUE, 3, 3),
    Message("m3", 1, "k1", FALSE, 3, 3)}

LimitsOf(overflow, items, bytes, retained) ==
    [overflow |-> overflow, capacity_items |-> items, capacity_bytes |-> bytes,
     max_retained_bytes |-> retained, max_inflight |-> 2, max_queue_age |-> 1]

\* Coalescing needs room for two items of one key beside another key.
Limits ==
    {LimitsOf(overflow, 2, 3, 4) : overflow \in
        {"RejectNew", "DropOldest", "Latest", "BlockUntilDeadline"}}
    \cup {LimitsOf("CoalesceByKey", 3, 4, 5)}

Box == INSTANCE Mailbox

MAX_DEFICIT == 8
BurstSaturation == 4

Slot(class, cost, weight, max_burst) ==
    [class |-> class, cost |-> cost, weight |-> weight, max_burst |-> max_burst]

Unequal == <<Slot("Control", 1, 1, 1), Slot("Stream", 4, 1, 1), Slot("Stream", 1, 1, 2)>>
Alike == [k \in 1..5 |-> Slot("Stream", 2, 1, 1)]
Plans == {Unequal, Alike}

Policy == INSTANCE Dispatcher

ASSUME PlansAreCompiled == Policy!PolicyBounds

-----------------------------------------------------------------------------
ExecutionInit ==
    /\ part \in {"Binding", "Mailbox", "Dispatcher"}
    /\ Init /\ Box!Init /\ Policy!Init
    /\ part # "Mailbox" => mailbox.limits.overflow = "RejectNew"
    /\ part # "Dispatcher" => specs = Unequal

BindingStep == part = "Binding" /\ Next /\ UNCHANGED <<boxVars, policyVars>>
MailboxStep == part = "Mailbox" /\ Box!Next /\ UNCHANGED <<vars, policyVars>>
DispatchTurn == part = "Dispatcher" /\ Policy!Next /\ UNCHANGED <<vars, boxVars>>

ExecutionNext == (BindingStep \/ MailboxStep \/ DispatchTurn) /\ UNCHANGED part

\* The domain owner keeps taking dispatch turns.
ExecutionSpec ==
    ExecutionInit /\ [][ExecutionNext]_<<part, vars, boxVars, policyVars>>
        /\ WF_policyVars(DispatchTurn)

\* No sequence of calls leaves a mailbox that validate_state refuses, and a turn
\* with eligible work always serves it: the StateInconsistent errors of the mailbox
\* and of the dispatch policy are unreachable (Mailbox!StateNeverInconsistent,
\* Dispatcher!WorkIsServed).
ConsistencyErrorsUnreachable == Box!StateNeverInconsistent /\ Policy!WorkIsServed

\* What a mailbox call does to the messages it holds: each that leaves is reported
\* exactly once, dispatch takes the oldest live one, and a live one is given up
\* only for one that is admitted (try_offer, try_begin_inflight).
MailboxCallsAreExact ==
    Box!EveryExitReported /\ Box!DispatchesOldestLive /\ Box!LiveGivenUpOnlyForRoom

\* A class that has used up its burst yields to work that can run, and a slot that
\* stays eligible is served again and again (select_hierarchical).
SchedulingIsFair == Policy!ClassBurstYields /\ Policy!NoStarvation
=============================================================================
