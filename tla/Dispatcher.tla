---------------------------- MODULE Dispatcher ----------------------------
(***************************************************************************)
(* The dispatch policy of a loop domain                                    *)
(* (crates/paraegox-runtime/src/dispatcher.rs, DispatchPolicy): a          *)
(* two-level weighted deficit scheduler over the mailboxes ("slots") of    *)
(* four classes, with caps on consecutive service, and a plain rotation    *)
(* when all slots are alike.                                               *)
(*                                                                         *)
(* Every turn the owner supplies the set of slots that are ready and have  *)
(* a permit of their class (LoopDomainState.tla models both); the policy   *)
(* picks one.  The class quantum and burst are the sums LoopDomainCore     *)
(* computes from its executions.                                           *)
(***************************************************************************)
EXTENDS Integers, FiniteSetsExt, SequencesExt

CONSTANTS
    Plans,           \* the compiled plans: sequences of DispatchSlotSpec
    MAX_DEFICIT,     \* cap of every deficit (2^48 in the code)
    BurstSaturation  \* value at which burst counters saturate (u32::MAX)

\* What compilation guarantees of every plan.
PolicyBounds ==
    \A plan \in Plans :
        /\ plan # <<>>
        /\ \A i \in DOMAIN plan : /\ plan[i].cost \in 1..MAX_DEFICIT
                                  /\ plan[i].weight > 0
                                  /\ plan[i].max_burst \in 1..BurstSaturation

VARIABLES
    specs,     \* the slots of the plan, slot i at index i + 1
    policy,    \* the DispatchPolicy
    eligible,  \* the slots offered to the latest turn
    selected,  \* its answer: a slot, Idle or Inconsistent
    turn       \* parity of the number of turns

ALL == <<"Control", "Interactive", "Stream", "Background">>
Classes == 0..3
SlotCount == Len(specs)
Slots == 0..(SlotCount - 1)
Spec1(i) == specs[i + 1]
SlotsOf(c) == {i \in Slots : Spec1(i).class = ALL[c + 1]}

quantum(c) == Max({1, MapThenSumSet(LAMBDA i : Spec1(i).weight, SlotsOf(c))})
class_max_burst(c) == Max({1, MapThenSumSet(LAMBDA i : Spec1(i).max_burst, SlotsOf(c))})

direct_scan == \A i \in Slots : /\ Spec1(i).class = Spec1(0).class
                                /\ Spec1(i).cost = Spec1(0).cost
                                /\ Spec1(i).weight = Spec1(0).weight

vars == <<specs, policy, eligible, selected, turn>>

None == -1
Idle == -2
Inconsistent == -3

new_policy ==
    [deficit |-> [i \in Slots |-> 0], class_deficit |-> [c \in Classes |-> 0],
     class_cursor |-> 0, class_visit_open |-> FALSE, slot_cursor |-> [c \in Classes |-> 0],
     last_class |-> None, class_burst |-> 0, last_slot |-> None, slot_burst |-> 0,
     direct_cursor |-> 0]

-----------------------------------------------------------------------------
(* Helpers of the hierarchical policy.                                     *)

Scan(from) == [k \in 1..SlotCount |-> (from + k - 1) % SlotCount]

Credit(deficit, amount) == Min({deficit + amount, MAX_DEFICIT})

CeilDiv(a, b) == (a + b - 1) \div b

class_has_eligible(c, e) == SlotsOf(c) \cap e # {}
has_other_eligible_class(c, e) == e \ SlotsOf(c) # {}
has_other_eligible_slot(i, c, e) == (SlotsOf(c) \cap e) \ {i} # {}
minimum_eligible_cost(c, e) == Min({Spec1(i).cost : i \in SlotsOf(c) \cap e})

class_burst_exhausted(p, c) == p.last_class = c /\ p.class_burst >= class_max_burst(c)

slot_burst_exhausted(p, i) == p.last_slot = i /\ p.slot_burst >= Spec1(i).max_burst

advance_class_visit(p, c) ==
    [p EXCEPT !.class_cursor = (c + 1) % 4, !.class_visit_open = FALSE]

\* The slots of a class the burst cap leaves in the race.
candidates(p, c, e) ==
    {i \in SlotsOf(c) \cap e :
        slot_burst_exhausted(p, i) => ~has_other_eligible_slot(i, c, e)}

\* Credit for the slots that can pay first, none for the patient ones.
MutCredited(p, c, e) ==
    LET rounds(i) == CeilDiv(Max({0, Spec1(i).cost - p.deficit[i]}), Spec1(i).weight)
        least     == Min({rounds(i) : i \in candidates(p, c, e)})
    IN  [p EXCEPT !.deficit = [i \in Slots |->
            IF i \in candidates(p, c, e) /\ rounds(i) = least
            THEN Credit(@[i], least * Spec1(i).weight) ELSE @[i]]]

\* Credits whole rounds to every eligible slot of the class until one can pay.
credited(p, c, e) ==
    LET missing(i) == Max({0, Spec1(i).cost - p.deficit[i]})
        rounds == Min({CeilDiv(missing(i), Spec1(i).weight) : i \in candidates(p, c, e)})
    IN  [p EXCEPT !.deficit = [i \in Slots |->
            IF i \in SlotsOf(c) \cap e THEN Credit(@[i], rounds * Spec1(i).weight) ELSE @[i]]]

\* The first slot from the cursor on that can pay, q being the credited policy.
first_able(q, c, e) ==
    LET able == SelectSeq(Scan(q.slot_cursor[c]), LAMBDA i : /\ i \in candidates(q, c, e)
                                                            /\ q.deficit[i] >= Spec1(i).cost)
    IN  [policy |-> q, slot |-> IF able = <<>> THEN Inconsistent ELSE Head(able)]

prepare_slot_in_class(p, c, e) ==
    IF candidates(p, c, e) = {} THEN [policy |-> p, slot |-> Inconsistent]
    ELSE first_able(credited(p, c, e), c, e)

-----------------------------------------------------------------------------
(* Service of one slot.                                                    *)

Consecutive(last, burst, who) == IF last = who THEN Min({burst + 1, BurstSaturation}) ELSE 1

commit_slot_service(p, i) ==
    LET left   == p.deficit[i] - Spec1(i).cost
        burst  == Consecutive(p.last_slot, p.slot_burst, i)
        repeat == burst < Spec1(i).max_burst /\ left >= Spec1(i).cost
        class  == CHOOSE c \in Classes : i \in SlotsOf(c)
    IN  [p EXCEPT !.deficit[i] = left, !.last_slot = i, !.slot_burst = burst,
                  !.slot_cursor[class] = IF repeat THEN i ELSE (i + 1) % SlotCount]

commit_class_service(p, c, i, e) ==
    LET paid  == [p EXCEPT !.class_deficit[c] = @ - Spec1(i).cost]
        burst == Consecutive(p.last_class, p.class_burst, c)
        q     == [commit_slot_service(paid, i) EXCEPT !.last_class = c, !.class_burst = burst]
        keep  == /\ burst < class_max_burst(c)
                 /\ q.class_deficit[c] >= minimum_eligible_cost(c, e)
    IN  IF keep THEN [q EXCEPT !.class_cursor = c, !.class_visit_open = TRUE]
                ELSE advance_class_visit(q, c)

credit_class_visit(p, c) ==
    IF p.class_visit_open THEN p
    ELSE [p EXCEPT !.class_deficit[c] = Credit(@, quantum(c)), !.class_visit_open = TRUE]

-----------------------------------------------------------------------------
(* One pass visits the four classes from the cursor on.  The accumulator   *)
(* holds the policy, the answer (None while the pass goes on) and the      *)
(* class that was skipped for its burst cap although it could pay.         *)

\* The slot i that class c would serve is served, or the visit is closed.
serve_class(acc, p, c, i, e) ==
    IF i = Inconsistent THEN [acc EXCEPT !.policy = p, !.answer = Inconsistent]
    ELSE IF p.class_deficit[c] < Spec1(i).cost
    THEN [acc EXCEPT !.policy = advance_class_visit(p, c)]
    ELSE IF class_burst_exhausted(p, c) /\ has_other_eligible_class(c, e)
    THEN [acc EXCEPT !.policy = advance_class_visit(p, c), !.fallback = <<c, i>>]
    ELSE [acc EXCEPT !.policy = commit_class_service(p, c, i, e), !.answer = i]

serve_prepared(acc, prepared, c, e) == serve_class(acc, prepared.policy, c, prepared.slot, e)

visit_class(acc, c, e) ==
    IF acc.answer # None THEN acc
    ELSE IF ~class_has_eligible(c, e)
    THEN [acc EXCEPT !.policy = advance_class_visit(@, c)]
    ELSE serve_prepared(acc, prepare_slot_in_class(credit_class_visit(acc.policy, c), c, e), c, e)

visit_classes(p, e) ==
    FoldLeft(LAMBDA acc, visit : visit_class(acc, acc.policy.class_cursor, e),
             [policy |-> p, answer |-> None, fallback |-> <<>>], <<1, 2, 3, 4>>)

\* The class skipped for its burst is served when no other class could be.
take_fallback(pass, e) ==
    IF pass.answer # None \/ pass.fallback = <<>> THEN pass
    ELSE [pass EXCEPT !.policy = commit_class_service(@, pass.fallback[1], pass.fallback[2], e),
                      !.answer = pass.fallback[2]]

select_hierarchical_pass(p, e) == take_fallback(visit_classes(p, e), e)

\* The slots fast_forward prepares, in class order, and the policy after it.
prepared_classes(p, e) ==
    FoldLeft(LAMBDA acc, c :
                 IF ~class_has_eligible(c, e) THEN acc
                 ELSE LET prepared == prepare_slot_in_class(acc.policy, c, e)
                      IN  [policy |-> prepared.policy,
                           slots |-> acc.slots \cup {<<c, prepared.slot>>}],
             [policy |-> p, slots |-> {}], <<0, 1, 2, 3>>)

\* What class x[1] misses for the slot x[2] that it prepared.
missing_credit(p, x) == Spec1(x[2]).cost - p.class_deficit[x[1]]

\* The rounds in which every prepared class would only collect credit.
skip_rounds(p, prepared, e) ==
    LET rounds == Min({CeilDiv(missing_credit(p, x), quantum(x[1])) : x \in prepared}) - 1
    IN  [p EXCEPT !.class_deficit = [c \in Classes |->
            IF class_has_eligible(c, e) THEN Credit(@[c], rounds * quantum(c)) ELSE @[c]]]

fast_forward(all, e) ==
    IF \E x \in all.slots : x[2] # Inconsistent => missing_credit(all.policy, x) <= 0
    THEN [policy |-> all.policy, answer |-> Inconsistent]
    ELSE [policy |-> skip_rounds(all.policy, all.slots, e), answer |-> None]

fast_forward_empty_class_rounds(p, e) ==
    IF p.class_visit_open THEN [policy |-> p, answer |-> Inconsistent]
    ELSE fast_forward(prepared_classes(p, e), e)

\* A pass that serves nobody is repeated once after the fast-forward.
repeat_pass(forward, e) ==
    IF forward.answer # None THEN forward
    ELSE LET again == select_hierarchical_pass(forward.policy, e)
         IN  [again EXCEPT !.answer = IF @ = None THEN Inconsistent ELSE @]

complete_pass(pass, e) ==
    IF pass.answer # None THEN pass
    ELSE repeat_pass(fast_forward_empty_class_rounds(pass.policy, e), e)

select_hierarchical(p, e) == complete_pass(select_hierarchical_pass(p, e), e)

select_direct(p, e) ==
    LET i == Scan(p.direct_cursor)[SelectInSeq(Scan(p.direct_cursor), LAMBDA s : s \in e)]
    IN  [policy |-> [p EXCEPT !.direct_cursor = (i + 1) % SlotCount], answer |-> i]

try_select(p, e) == IF direct_scan THEN select_direct(p, e) ELSE select_hierarchical(p, e)

-----------------------------------------------------------------------------
Init ==
    /\ specs \in Plans
    /\ policy = new_policy
    /\ eligible = {} /\ selected = Idle /\ turn = FALSE

Turn(e) ==
    /\ eligible' = e
    /\ turn' = ~turn
    /\ UNCHANGED specs
    /\ IF e = {}
       THEN selected' = Idle /\ UNCHANGED policy
       ELSE \E choice \in {try_select(policy, e)} :
              /\ policy' = choice.policy
              /\ selected' = choice.answer

Next == \E e \in SUBSET Slots : Turn(e)

Spec == Init /\ [][Next]_vars

\* The domain owner keeps taking dispatch turns.
FairSpec == Spec /\ WF_vars(Next)

-----------------------------------------------------------------------------
(* Properties.                                                             *)

\* Type invariant of the policy; deficits stay below their cap.
TypeOK ==
    /\ specs \in Plans
    /\ \A i \in Slots : policy.deficit[i] \in 0..MAX_DEFICIT
    /\ \A c \in Classes : /\ policy.class_deficit[c] \in 0..MAX_DEFICIT
                          /\ policy.slot_cursor[c] \in Slots
    /\ policy.class_cursor \in Classes /\ policy.direct_cursor \in Slots
    /\ policy.class_visit_open \in BOOLEAN
    /\ policy.last_class \in Classes \cup {None} /\ policy.last_slot \in Slots \cup {None}
    /\ policy.class_burst \in 0..BurstSaturation /\ policy.slot_burst \in 0..BurstSaturation
    /\ eligible \in SUBSET Slots /\ turn \in BOOLEAN
    /\ selected \in Slots \cup {Idle, Inconsistent}

\* A turn with eligible work serves one of the eligible slots, whatever the
\* deficits, cursors and bursts that earlier turns left: none of the
\* StateInconsistent returns of select_hierarchical, fast_forward and
\* prepare_slot_in_class is reachable, and a turn never idles on work.
WorkIsServed == TypeOK /\ IF eligible = {} THEN selected = Idle ELSE selected \in eligible

\* A class that has used up its burst is served again only when no other
\* eligible class could pay for its next slot with the credit of one visit:
\* the cap yields to work that can run, and only to it (comment in
\* select_hierarchical_pass).
ClassBurstYields ==
    [][(/\ ~direct_scan
        /\ policy.last_class # None /\ policy.class_burst >= class_max_burst(policy.last_class)
        /\ selected' \in SlotsOf(policy.last_class))
       => \A c \in Classes \ {policy.last_class} :
             class_has_eligible(c, eligible') =>
                LET next == prepare_slot_in_class(policy, c, eligible') IN
                  Credit(policy.class_deficit[c], quantum(c)) < Spec1(next.slot).cost]_vars

\* No starvation: a slot that stays eligible is served again and again,
\* whatever the other slots do, expensive and light as it may be.
NoStarvation == \A i \in UNION {0..(Len(plan) - 1) : plan \in Plans} :
    <>[](i \in eligible) => []<>(selected = i)
=============================================================================
