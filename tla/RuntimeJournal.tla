--------------------------- MODULE RuntimeJournal ---------------------------
(***************************************************************************)
(* The durable journal of the runtime process (runtime_journal.rs,         *)
(* RuntimeJournalState and RuntimeJournalSnapshot, in                      *)
(* crates/paraegox-runtime/src): what a snapshot holds, when it is valid,  *)
(* when it may follow another one, and the constructors of every           *)
(* successor.  The module has no variables: a journal is a record, and a   *)
(* constructor the set of its results, empty when the code returns an      *)
(* error.                                                                  *)
(*                                                                         *)
(* An operation stands for its request, its plan slice, its nonce and its  *)
(* temporal lineage.  The host epoch and the clock generation start at     *)
(* zero and are raised together, only by a start of the process: epoch is  *)
(* both.  The loop domain and the card of one generation are reserved,     *)
(* owned and retired by the same commits, so one record stands for the     *)
(* pair.  The digest of a resource census is the set it digests, and a     *)
(* completion's snapshot sequence is its position in completed.  Of an     *)
(* instant only its clock generation and whether it lies past the          *)
(* installed deadline are kept.                                            *)
(***************************************************************************)
EXTENDS Naturals, FiniteSets, FiniteSetsExt, SequencesExt

CONSTANTS
    None,           \* the absent value of an option
    Request,        \* of an operation: [kind, revision, tenure, supersedes, expected]
    MaxTerminals,   \* MAX_RUNTIME_TERMINAL_OPERATIONS
    MaxRecoveries,  \* MAX_RUNTIME_RECOVERY_TERMINALS
    MaxResources    \* MAX_RUNTIME_OWNED_RESOURCES, in pairs

Kind(op) == Request[op].kind
Revision(op) == Request[op].revision

(***************************************************************************)
(* Records                                                                 *)
(***************************************************************************)

\* JournalActionRef
Action(id, kind, epoch, generation) ==
    [id |-> id, kind |-> kind, epoch |-> epoch, generation |-> generation]

\* RawActionOutcomeLatch with nothing observed beyond the callback.
Latch(callback) ==
    [callback |-> callback, deadline |-> "NotObserved", gen |-> 0, interrupted |-> FALSE,
     takeover |-> FALSE, cleanup |-> "NotObserved"]

TimedOut(raw, gen) == [raw EXCEPT !.deadline = "TimedOut", !.gen = gen]
OrUnknown(raw) == IF raw = None THEN Latch("UnknownAfterIntent") ELSE raw
interrupted_raw(raw) == [OrUnknown(raw) EXCEPT !.interrupted = TRUE]
takeover_raw(raw) == [OrUnknown(raw) EXCEPT !.takeover = TRUE]
exact_zero_raw(raw) == [raw EXCEPT !.cleanup = "ExactZero"]

\* LiveMaterialization: the fields a variant lacks keep these values.
Live(tag, slice, census) ==
    [tag |-> tag, slice |-> slice, census |-> census, epoch |-> 0, id |-> None,
     generation |-> 0, eligibility |-> "None", failure |-> None]

NoLive == Live("None", None, {})
with_resource_census(live, census) ==
    IF live.tag = "None" THEN live ELSE [live EXCEPT !.census = census]

Committed(op) == [commits |-> TRUE, slice |-> op]
Slice(active) == IF active = None THEN None ELSE active.op
preserved_head(j) == [commits |-> FALSE, slice |-> Slice(j.active)]

\* RuntimeJournalTransaction::Initialized
Initialized ==
    [epoch |-> 0, fence |-> 0, nonces |-> {}, requests |-> {}, revision |-> 0,
     prepared |-> None, active |-> None, live |-> NoLive, recovery |-> None,
     resources |-> {}, completed |-> <<>>]

HeadIs(j, kind) == j.active # None /\ Kind(j.active.op) = kind
terminal_phase(phase) == phase \in {"Terminal", "ReservedAtCrashExactZero"}
Nonterminal(resources) == {r \in resources : ~terminal_phase(r.phase)}
Operations(j) == {t \in ToSet(j.completed) : t.tag = "Operation"}
Recoveries(j) == {t \in ToSet(j.completed) : t.tag = "Recovery"}
CompletedAction(t) == IF t.tag = "Operation" THEN t.action ELSE t.recovery.action

current_action(j) ==
    IF j.prepared # None /\ j.prepared.action # None THEN j.prepared.action
    ELSE IF j.recovery # None THEN j.recovery.action ELSE None

requires_action(phase) ==
    phase \in {"FirstActionIntent", "HeadCommittedRetiringOld",
               "SupersededReconcileRequired", "StartupReconcileRequired"}

(***************************************************************************)
(* TerminalOutcomeSelection                                                *)
(***************************************************************************)

\* The outcome of an operation that has crossed no effect boundary.
NoEffectsOutcome(kind, phase, raw, late) ==
    IF \/ phase = "SupersededBeforeEffects" /\ raw.takeover
       \/ phase = "StartupExpiredNoEffects" /\ raw.interrupted
    THEN "AbortedBeforeIntentNoEffects"
    ELSE IF phase = "PreparedNoEffects" /\ late
         THEN IF kind = "OneSourceLoop" THEN "StartTimedOutBeforeIntentNoEffects"
              ELSE "StopTimedOutBeforeHeadCommitNoEffects"
         ELSE IF /\ phase = "PreparedNoEffects" /\ kind = "EmptyDeactivate"
                 /\ raw.deadline = "NotObserved" /\ ~raw.interrupted /\ ~raw.takeover
              THEN "EmptyDeactivateExactZero" ELSE "Error"

\* The outcome past the boundary: takeover, interruption, deadline and
\* error outrank the callback's success, in this order.
EffectsOutcome(kind, raw, late) ==
    IF raw.takeover THEN "SupersededAfterIntentExactZero"
    ELSE IF raw.interrupted
         THEN IF kind = "OneSourceLoop" THEN "AbortedBeforeHeadCommitExactZero"
              ELSE "InterruptedButNowExactZero"
    ELSE IF late
         THEN IF kind = "OneSourceLoop" THEN "StartTimedOutBeforeHeadCommitExactZero"
              ELSE "TimedOutButExactZero"
    ELSE IF raw.callback = "KnownError"
         THEN IF kind = "OneSourceLoop" THEN "StartFailedBeforeHeadCommitExactZero"
              ELSE "StopFailedButExactZero"
    ELSE IF raw.callback = "KnownSuccess" /\ raw.deadline = "NotObserved"
         THEN IF kind = "OneSourceLoop" THEN "OneSourceLoopActive"
              ELSE "EmptyDeactivateExactZero"
    ELSE "Error"

before_effects(phase) ==
    phase \in {"PreparedNoEffects", "SupersededBeforeEffects", "StartupExpiredNoEffects"}

\* What the outcome claims of the lifecycle agrees with what was observed.
EffectAgrees(phase, primary, raw, effect) ==
    LET proven == /\ effect = "ProvenNotStarted"
                  /\ raw.callback = "NotInvoked" /\ raw.cleanup = "NotObserved"
    IN  IF before_effects(phase) THEN proven
        ELSE IF primary = "OneSourceLoopActive"
             THEN effect = "MayHaveStarted" /\ raw.cleanup = "NotObserved"
             ELSE proven \/ (effect = "MayHaveStarted" /\ raw.cleanup = "ExactZero")

ValidRaw(raw) ==
    /\ (raw.deadline = "NotObserved") = (raw.gen = 0)
    /\ raw.deadline = "Cancelled" => raw.interrupted \/ raw.takeover

\* at = [gen, late] is the instant of the selection.
try_select(kind, phase, gen, raw, at, effect) ==
    LET late == raw.deadline = "TimedOut" \/ (at.gen = gen /\ at.late)
        primary == IF before_effects(phase) THEN NoEffectsOutcome(kind, phase, raw, late)
                   ELSE EffectsOutcome(kind, raw, late)
    IN  {s \in {[primary |-> primary, raw |-> raw, gen |-> at.gen, late |-> at.late,
                 effect |-> effect]} :
            /\ ValidRaw(raw) /\ gen # 0 /\ at.gen >= gen
            /\ raw.cleanup # "Uncertain" /\ raw.callback # "Panicked"
            /\ raw.deadline = "TimedOut" => raw.gen = gen
            /\ ~raw.interrupted /\ ~raw.takeover => at.gen = gen
            /\ primary # "Error" /\ EffectAgrees(phase, primary, raw, effect)}

Reselects(s, kind, phase, gen) ==
    try_select(kind, phase, gen, s.raw, [gen |-> s.gen, late |-> s.late], s.effect) = {s}

terminal_head_commits_incoming(primary, kind) ==
    primary \in IF kind = "OneSourceLoop" THEN {"OneSourceLoopActive"}
                ELSE {"EmptyDeactivateExactZero", "StopFailedButExactZero",
                      "TimedOutButExactZero", "SupersededAfterIntentExactZero",
                      "InterruptedButNowExactZero"}

recovery_predecessor_phase(phase) ==
    CASE phase = "RecoveryPlannedNoEffects" -> "PreparedNoEffects"
      [] phase = "StartCallIntent" -> "FirstActionIntent"
      [] phase = "StartupInvalidatedNoEffects" -> "StartupExpiredNoEffects"
      [] phase = "StartupReconcileRequired" -> "StartupReconcileRequired"

(***************************************************************************)
(* RuntimeJournalState::validate                                           *)
(***************************************************************************)

\* Every request evidence belongs to exactly one operation, prepared or
\* terminal, and the revision high water is the latest of theirs.
validate_admission_references(j) ==
    /\ \A q \in j.requests :
          Cardinality({t \in Operations(j) : <<t.op, t.gen>> = q})
            + (IF j.prepared # None /\ <<j.prepared.op, j.prepared.gen>> = q THEN 1 ELSE 0) = 1
    /\ \A t \in Operations(j) :
          /\ <<t.op, t.gen>> \in j.requests
          /\ j.prepared # None => t.op # j.prepared.op
    /\ j.revision # 0 =>
          j.revision = Max({Revision(q[1]) : q \in j.requests} \union {0})

\* PreparedNormalOperation::validate
validate_prepared(j, p) ==
    /\ <<p.op, p.gen>> \in j.requests /\ j.fence # 0 /\ Revision(p.op) = j.revision
    /\ p.phase \in {"PreparedNoEffects", "FirstActionIntent", "HeadCommittedRetiringOld"} =>
          p.gen = j.epoch
    /\ IF p.retiring = None THEN p.phase # "HeadCommittedRetiringOld"
       ELSE /\ p.phase \in {"HeadCommittedRetiringOld", "SupersededReconcileRequired",
                            "StartupReconcileRequired"}
            /\ p.action # None /\ p.action.kind = "DrainToEmpty"
            /\ Revision(p.retiring.op) < Revision(p.op)
            /\ Request[p.op].expected = p.retiring.op
    /\ p.raw # None =>
          /\ p.action # None /\ ValidRaw(p.raw)
          /\ p.raw.deadline # "NotObserved" => p.raw.gen = p.gen
          /\ p.raw.interrupted \/ p.raw.takeover =>
                p.phase \in {"SupersededReconcileRequired", "StartupReconcileRequired"}
    /\ p.phase = "SupersededReconcileRequired" => p.raw # None /\ p.raw.takeover
    /\ p.phase = "StartupReconcileRequired" => p.raw # None /\ p.raw.interrupted

validate_scope(j) ==
    /\ IF j.fence = 0 THEN j.nonces = {} ELSE j.fence \in j.nonces
    /\ j.prepared # None => validate_prepared(j, j.prepared)
    /\ j.active # None => Revision(j.active.op) <= j.revision /\ j.fence # 0
    /\ j.recovery # None => Revision(j.recovery.op) <= j.revision
    /\ Operations(j) # {} => j.revision # 0 /\ j.fence # 0
    /\ validate_admission_references(j)

\* RecoveryAction::validate
validate_recovery(j, r) ==
    /\ r.action.kind = "RestartReassembly"
    /\ HeadIs(j, "OneSourceLoop") /\ r.op = j.active.op
    /\ r.phase \in {"RecoveryPlannedNoEffects", "StartCallIntent"} => r.action.epoch = j.epoch
    /\ r.phase \in {"RecoveryPlannedNoEffects", "StartupInvalidatedNoEffects"} => r.raw = None
    /\ (r.raw # None /\ r.raw.interrupted) = (r.phase = "StartupReconcileRequired")
    /\ r.raw # None =>
          /\ ValidRaw(r.raw) /\ (r.raw.deadline # "NotObserved" => r.raw.gen = r.action.epoch)
          /\ r.raw.interrupted => r.action.epoch < j.epoch

validate_actions(j) ==
    /\ j.prepared # None =>
          LET p == j.prepared IN
          /\ requires_action(p.phase) = (p.action # None)
          /\ p.action # None =>
                /\ p.phase = "FirstActionIntent" => p.action.kind = "Start"
                /\ p.phase = "HeadCommittedRetiringOld" => p.action.kind = "DrainToEmpty"
                /\ p.action.kind \in {"Start", "DrainToEmpty"}
                /\ p.action.epoch \in 1..j.epoch /\ p.action.generation # 0
                /\ p.action.epoch = p.gen
                /\ (p.raw # None /\ p.raw.interrupted) = (p.action.epoch < j.epoch)
    /\ j.recovery # None =>
          /\ validate_recovery(j, j.recovery)
          /\ j.prepared # None => j.prepared.action = None
    /\ LET done == {i \in DOMAIN j.completed : CompletedAction(j.completed[i]) # None}
           ids == {CompletedAction(j.completed[i]).id : i \in done}
       IN  /\ Cardinality(ids) = Cardinality(done)
           /\ current_action(j) # None => current_action(j).id \notin ids

\* Each generation is produced by a later action than the one before it.
validate_producer_generations(j) ==
    LET produces(a) == a # None /\ a.kind # "DrainToEmpty"
        generation(i) == CompletedAction(j.completed[i]).generation
        producers == {i \in DOMAIN j.completed : produces(CompletedAction(j.completed[i]))}
    IN  /\ \A a, b \in producers : a < b => generation(a) < generation(b)
        /\ produces(current_action(j)) =>
              \A a \in producers : generation(a) < current_action(j).generation

resource_binding_is_valid(j, r) ==
    LET action == current_action(j) IN
    IF terminal_phase(r.phase) THEN r.action = None
    ELSE IF r.action # None
         THEN /\ action # None /\ r.action = action.id
              /\ r.generation = action.generation /\ r.epoch = action.epoch
    ELSE CASE j.live.tag = "LiveReady" ->
                 r.epoch = j.live.epoch /\ r.generation = j.live.generation
           [] j.live.tag = "StartupInvalidated" -> r.epoch <= j.live.epoch
           [] OTHER -> j.live.tag = "Quarantined"

validate_resources(j) ==
    /\ Cardinality(j.resources) <= MaxResources
    /\ Cardinality({r.generation : r \in j.resources}) = Cardinality(j.resources)
    /\ \A r \in j.resources : r.epoch \in 1..j.epoch /\ resource_binding_is_valid(j, r)
    /\ Cardinality(Nonterminal(j.resources)) <= 1
    /\ j.live.tag = "LiveReady" =>
          Nonterminal(j.resources) # {} /\ current_action(j) = None

\* The head is committed by a terminal operation.
validate_terminal_head_commit_reference(j) ==
    /\ j.active.committed
    /\ \E t \in Operations(j) : t.op = j.active.op /\ t.head.commits

validate_exact_zero_commit_census(j) ==
    \E t \in Operations(j) :
        t.op = j.active.op /\ t.head.commits /\ t.census = j.live.census

NoEffectPending(j) == current_action(j) = None /\ Nonterminal(j.resources) = {}

\* LiveMaterialization::StartupInvalidated, by its eligibility.
validate_startup_invalidated(j, live) ==
    /\ live.epoch < j.epoch /\ live.slice = Slice(j.active)
    /\ CASE live.eligibility = "NoActiveHead" ->
               j.active = None /\ live.failure = None /\ NoEffectPending(j)
         [] live.eligibility = "CanonicalEmptyExactZero" ->
               /\ HeadIs(j, "EmptyDeactivate") /\ live.failure = None /\ NoEffectPending(j)
               /\ validate_terminal_head_commit_reference(j)
         [] live.eligibility = "EligibleOneSourceLoop" ->
               /\ HeadIs(j, "OneSourceLoop") /\ live.failure = None
               /\ validate_terminal_head_commit_reference(j)
         [] live.eligibility = "RecoveryFailureLatched" ->
               /\ HeadIs(j, "OneSourceLoop") /\ NoEffectPending(j)
               /\ validate_terminal_head_commit_reference(j)
               /\ \E t \in Recoveries(j) :
                     /\ t.failure # None /\ t.failure = live.failure
                     /\ t.recovery.op = live.slice /\ t.census = live.census
         [] OTHER -> live.eligibility = "ReconcileRequired" /\ live.failure # None

\* One completed action produced the generation that is live.
HasProducer(j, live) ==
    \E t \in ToSet(j.completed) :
        /\ t.selection.primary = "OneSourceLoopActive" /\ t.census = live.census
        /\ IF t.tag = "Operation" THEN t.op = live.slice /\ t.head.commits
           ELSE t.recovery.op = live.slice /\ t.failure = None
        /\ CompletedAction(t).epoch = live.epoch
        /\ CompletedAction(t).generation = live.generation

\* LiveMaterialization::ExactZero: the empty head, with nothing running but
\* what a start under way has reserved.
validate_exact_zero(j, live) ==
    /\ HeadIs(j, "EmptyDeactivate") /\ live.slice = j.active.op
    /\ \A r \in Nonterminal(j.resources) : r.action # None
    /\ validate_terminal_head_commit_reference(j)
    /\ IF current_action(j) = None THEN validate_exact_zero_commit_census(j)
       ELSE /\ j.prepared # None /\ Kind(j.prepared.op) = "OneSourceLoop"
            /\ current_action(j) = j.prepared.action
            /\ current_action(j).kind = "Start"

validate_live_materialization(j) ==
    LET live == j.live
        running == Nonterminal(j.resources)
    IN
    /\ live.tag # "None" => live.census = j.resources
    /\ CASE live.tag = "None" ->
               j.active = None /\ j.recovery = None /\ \A r \in running : r.action # None
         [] live.tag = "StartupInvalidated" -> validate_startup_invalidated(j, live)
         [] live.tag = "Recovering" ->
               /\ HeadIs(j, "OneSourceLoop") /\ live.slice = j.active.op
               /\ j.recovery # None
               /\ j.recovery.action.id = live.id /\ j.recovery.action.generation = live.generation
               /\ j.recovery.phase = "RecoveryPlannedNoEffects" => running = {}
               /\ validate_terminal_head_commit_reference(j)
         [] live.tag = "LiveReady" ->
               /\ HeadIs(j, "OneSourceLoop") /\ live.slice = j.active.op
               /\ live.epoch = j.epoch /\ current_action(j) = None
               /\ running # {} /\ \A r \in running : r.phase = "Owned" /\ r.action = None
               /\ validate_terminal_head_commit_reference(j) /\ HasProducer(j, live)
         [] live.tag = "RecoveryFailedNotReady" ->
               /\ HeadIs(j, "OneSourceLoop") /\ live.slice = j.active.op /\ NoEffectPending(j)
               /\ \E t \in Recoveries(j) :
                     /\ t.recovery.action.id = live.id /\ t.recovery.op = live.slice
                     /\ t.failure = live.failure /\ live.failure # None
                     /\ t.census = live.census
               /\ validate_terminal_head_commit_reference(j)
         [] live.tag = "Draining" ->
               /\ HeadIs(j, "EmptyDeactivate") /\ live.slice = j.active.op
               /\ j.prepared # None /\ j.prepared.op = live.slice
               /\ j.prepared.phase \in {"HeadCommittedRetiringOld", "SupersededReconcileRequired"}
               /\ j.prepared.action.id = live.id
               /\ j.prepared.retiring.generation = live.generation
               /\ running # {}
               /\ \A r \in running : r.phase = "CleanupPending" /\ r.action = live.id
         [] live.tag = "ExactZero" -> validate_exact_zero(j, live)
         [] OTHER -> live.tag = "Quarantined" /\ live.slice = Slice(j.active)

\* A cleanup is all that may be observed between the latch a completion
\* starts from and the one it selects.
CleanupOnly(before, raw) ==
    before = raw \/ (before.cleanup = "NotObserved" /\ raw = exact_zero_raw(before))

Observed(raw, deadline) ==
    raw = IF deadline = "TimedOut" THEN TimedOut(Latch("NotInvoked"), raw.gen)
          ELSE Latch("NotInvoked")

AbortedRaw(raw) ==
    /\ raw.callback = "NotInvoked" /\ raw.deadline = "NotObserved"
    /\ raw.cleanup = "NotObserved"

\* Which latch an operation may complete with when none was durable.
terminal_selection_lineage(phase, before, s) ==
    IF before # None THEN ValidRaw(before) /\ CleanupOnly(before, s.raw)
    ELSE CASE s.primary = "OneSourceLoopActive" -> s.raw = Latch("KnownSuccess")
           [] s.primary = "EmptyDeactivateExactZero" ->
                 phase = "PreparedNoEffects" /\ Observed(s.raw, "NotObserved")
           [] s.primary \in {"StartTimedOutBeforeIntentNoEffects",
                             "StopTimedOutBeforeHeadCommitNoEffects",
                             "StartTimedOutBeforeHeadCommitExactZero"} ->
                 s.effect = "ProvenNotStarted" /\ Observed(s.raw, "TimedOut")
           [] s.primary = "AbortedBeforeIntentNoEffects" ->
                 /\ s.effect = "ProvenNotStarted" /\ AbortedRaw(s.raw)
                 /\ phase = "StartupExpiredNoEffects" => s.raw.interrupted /\ ~s.raw.takeover
                 /\ phase = "SupersededBeforeEffects" => s.raw.takeover
           [] OTHER -> FALSE

validate_terminal_operation(j, t) ==
    /\ t.epoch \in 1..j.epoch /\ t.selection.gen <= j.epoch
    /\ Revision(t.op) <= j.revision
    /\ requires_action(t.phase) = (t.action # None)
    /\ t.phase # IF Kind(t.op) = "OneSourceLoop" THEN "HeadCommittedRetiringOld"
                 ELSE "FirstActionIntent"
    /\ t.action # None =>
          /\ t.action.kind = IF Kind(t.op) = "OneSourceLoop" THEN "Start" ELSE "DrainToEmpty"
          /\ t.action.epoch = t.gen /\ t.action.epoch <= t.epoch
    /\ Reselects(t.selection, Kind(t.op), t.phase, t.gen)
    /\ terminal_selection_lineage(t.phase, t.before, t.selection)
    /\ t.head.commits = terminal_head_commits_incoming(t.selection.primary, Kind(t.op))
    /\ t.head.commits => t.head.slice = t.op

\* The heads the terminal operations preserved are the ones committed
\* before them, and the last one committed is active, or is being retired.
validate_terminal_head_chain(j) ==
    LET chain == SelectSeq(j.completed, LAMBDA t : t.tag = "Operation")
        last == IF chain = <<>> THEN None ELSE Last(chain).head.slice
        p == j.prepared
    IN  /\ \A i \in DOMAIN chain :
              ~chain[i].head.commits =>
                  chain[i].head.slice = IF i = 1 THEN None ELSE chain[i - 1].head.slice
        /\ \/ Slice(j.active) = last
           \/ /\ p # None /\ Kind(p.op) = "EmptyDeactivate"
              /\ p.phase \in {"HeadCommittedRetiringOld", "SupersededReconcileRequired",
                              "StartupReconcileRequired"}
              /\ Slice(j.active) = p.op /\ last = Request[p.op].expected

\* RecoveryTerminal::validate and the lineage of its latch
validate_recovery_terminal(j, t) ==
    LET r == t.recovery
        s == t.selection
    IN
    /\ t.epoch \in r.action.epoch..j.epoch /\ s.gen <= j.epoch
    /\ Reselects(s, "OneSourceLoop", recovery_predecessor_phase(r.phase), r.action.epoch)
    /\ r.raw # None => CleanupOnly(r.raw, s.raw)
    /\ CASE r.phase = "RecoveryPlannedNoEffects" ->
               /\ s.primary = "StartTimedOutBeforeIntentNoEffects"
               /\ Observed(s.raw, "TimedOut")
         [] r.phase = "StartupInvalidatedNoEffects" ->
               /\ s.primary = "AbortedBeforeIntentNoEffects" /\ AbortedRaw(s.raw)
               /\ s.raw.interrupted /\ ~s.raw.takeover
         [] r.phase = "StartCallIntent" ->
               IF r.raw = None
               THEN /\ s.primary = "StartTimedOutBeforeHeadCommitExactZero"
                    /\ s.effect = "ProvenNotStarted" /\ Observed(s.raw, "TimedOut")
               ELSE s.primary \in {"OneSourceLoopActive", "StartFailedBeforeHeadCommitExactZero",
                                   "StartTimedOutBeforeHeadCommitExactZero",
                                   "AbortedBeforeHeadCommitExactZero",
                                   "SupersededAfterIntentExactZero"}
         [] OTHER ->
               /\ s.primary \in {"AbortedBeforeHeadCommitExactZero",
                                 "SupersededAfterIntentExactZero"}
               /\ s.raw.interrupted /\ s.raw.cleanup = "ExactZero" /\ s.effect = "MayHaveStarted"
    /\ (t.failure = None) =
          (s.primary \in {"OneSourceLoopActive", "AbortedBeforeIntentNoEffects"})
    /\ \E o \in Operations(j) :
          o.op = r.op /\ Kind(o.op) = "OneSourceLoop" /\ o.head.commits

validate_chronology(j) ==
    \A i \in 2..Len(j.completed) :
        /\ j.completed[i - 1].epoch <= j.completed[i].epoch
        /\ j.completed[i - 1].selection.gen <= j.completed[i].selection.gen

validate(j) ==
    /\ Cardinality(Operations(j)) <= MaxTerminals
    /\ Cardinality(Recoveries(j)) <= MaxRecoveries
    /\ Cardinality(Recoveries(j)) = MaxRecoveries => j.recovery = None
    /\ validate_scope(j) /\ validate_actions(j) /\ validate_producer_generations(j)
    /\ validate_resources(j) /\ validate_live_materialization(j)
    /\ \A t \in Operations(j) : validate_terminal_operation(j, t)
    /\ validate_terminal_head_chain(j)
    /\ \A t \in Recoveries(j) : validate_recovery_terminal(j, t)
    /\ validate_chronology(j)

(***************************************************************************)
(* What a start of the process and a tenure make of what is pending        *)
(***************************************************************************)

\* An operation with no effect expires; one past its boundary must be
\* reconciled, and its latch records the interruption.
startup_invalidated_prepared(p) ==
    IF p = None THEN None
    ELSE IF before_effects(p.phase) THEN [p EXCEPT !.phase = "StartupExpiredNoEffects"]
    ELSE [p EXCEPT !.phase = IF @ = "SupersededReconcileRequired" THEN @
                             ELSE "StartupReconcileRequired",
                   !.raw = interrupted_raw(@)]

startup_invalidated_recovery(r) ==
    IF r = None THEN None
    ELSE IF r.phase \in {"RecoveryPlannedNoEffects", "StartupInvalidatedNoEffects"}
         THEN [r EXCEPT !.phase = "StartupInvalidatedNoEffects"]
         ELSE [r EXCEPT !.phase = "StartupReconcileRequired", !.raw = interrupted_raw(@)]

tenure_successor_prepared(p) ==
    IF p = None THEN None
    ELSE IF before_effects(p.phase) THEN [p EXCEPT !.phase = "SupersededBeforeEffects"]
    ELSE [p EXCEPT !.phase = "SupersededReconcileRequired", !.raw = takeover_raw(@)]

tenure_successor_recovery(r) ==
    IF r # None /\ r.phase \in {"StartCallIntent", "StartupReconcileRequired"}
    THEN [r EXCEPT !.raw = takeover_raw(@)] ELSE r

\* Evidence that no recovery record owns; an action's number is positive.
Evidence(j) == <<j.epoch, 0>>

\* startup_eligibility: <<eligibility, failure>> of the invalidated view.
startup_eligibility(j) ==
    LET live == j.live IN
    IF live.tag = "StartupInvalidated" THEN <<live.eligibility, live.failure>>
    ELSE IF /\ live.tag = "Recovering" /\ j.recovery.phase = "RecoveryPlannedNoEffects"
            /\ Nonterminal(j.resources) = {}
         THEN <<"EligibleOneSourceLoop", None>>
    ELSE IF current_action(j) # None THEN <<"ReconcileRequired", Evidence(j)>>
    ELSE CASE live.tag = "None" -> <<"NoActiveHead", None>>
           [] live.tag = "ExactZero" -> <<"CanonicalEmptyExactZero", None>>
           [] live.tag = "LiveReady" -> <<"EligibleOneSourceLoop", None>>
           [] live.tag = "RecoveryFailedNotReady" -> <<"RecoveryFailureLatched", live.failure>>
           [] OTHER -> <<"ReconcileRequired", Evidence(j)>>

full_admission_live_materialization(live) ==
    IF live.tag = "StartupInvalidated" /\ live.eligibility = "NoActiveHead" THEN NoLive
    ELSE IF live.tag = "StartupInvalidated" /\ live.eligibility = "CanonicalEmptyExactZero"
         THEN Live("ExactZero", live.slice, live.census)
    ELSE live

Invalidated(j, eligibilities) ==
    j.live.tag = "StartupInvalidated" /\ j.live.eligibility \in eligibilities

full_admission_shape_is_allowed(j, kind) ==
    LET empty == j.active = None /\ (j.live.tag = "None" \/ Invalidated(j, {"NoActiveHead"}))
        zero == /\ HeadIs(j, "EmptyDeactivate")
                /\ j.live.tag = "ExactZero" \/ Invalidated(j, {"CanonicalEmptyExactZero"})
    IN  /\ current_action(j) = None
        /\ j.live.tag # "LiveReady" => Nonterminal(j.resources) = {}
        /\ \/ empty \/ zero
           \/ /\ kind = "EmptyDeactivate"
              /\ \/ j.live.tag \in {"LiveReady", "RecoveryFailedNotReady"}
                 \/ Invalidated(j, {"RecoveryFailureLatched"})

exact_zero_fast_path_eligible(j) ==
    /\ NoEffectPending(j)
    /\ \/ j.active = None /\ (j.live.tag = "None" \/ Invalidated(j, {"NoActiveHead"}))
       \/ HeadIs(j, "EmptyDeactivate") /\ j.live.tag = "ExactZero"
       \/ HeadIs(j, "OneSourceLoop") /\ j.live.tag = "RecoveryFailedNotReady"
       \/ /\ Invalidated(j, {"CanonicalEmptyExactZero", "RecoveryFailureLatched"})
          /\ j.live.slice = Slice(j.active)

(***************************************************************************)
(* Resources between two snapshots                                         *)
(***************************************************************************)

\* Progress of the resources shows in the recorded census and nowhere else.
live_identity_preserved_except_census(new, old) ==
    with_resource_census(new, {}) = with_resource_census(old, {})

rank(phase) ==
    CASE phase = "Reserved" -> 0 [] phase = "Owned" -> 1
      [] phase = "CleanupPending" -> 2 [] OTHER -> 3

resource_progress(old, new) ==
    \/ new = old
    \/ /\ old.phase = "Reserved"
       /\ new = [old EXCEPT !.phase = "ReservedAtCrashExactZero", !.action = None]
    \/ /\ rank(new.phase) = rank(old.phase) + 1 /\ new.phase # "ReservedAtCrashExactZero"
       /\ new = [old EXCEPT !.phase = new.phase,
                            !.action = IF terminal_phase(new.phase) THEN None ELSE @]

\* Records only move forward, and a new one is bound to the current action.
resources_progress(j, n) ==
    /\ \A old \in j.resources :
          \E new \in n.resources : new.generation = old.generation /\ resource_progress(old, new)
    /\ \A new \in n.resources :
          \/ \E old \in j.resources : old.generation = new.generation
          \/ /\ new.phase \in {"Reserved", "Owned"}
             /\ current_action(j) # None /\ new.action = current_action(j).id

resources_publish(j, n, action) ==
    /\ Cardinality(Nonterminal(j.resources)) = 1
    /\ \A r \in Nonterminal(j.resources) : r.phase = "Owned" /\ r.action = action.id
    /\ n.resources = {IF terminal_phase(r.phase) THEN r ELSE [r EXCEPT !.action = None] :
                        r \in j.resources}

resources_begin_retire(j, n, action) ==
    /\ \A r \in Nonterminal(j.resources) : r.phase = "Owned" /\ r.action = None
    /\ n.resources = {IF terminal_phase(r.phase) THEN r
                      ELSE [r EXCEPT !.phase = "CleanupPending", !.action = action.id] :
                        r \in j.resources}

Tombstone(r) ==
    [r EXCEPT !.phase = IF @ = "Reserved" THEN "ReservedAtCrashExactZero" ELSE "Terminal",
              !.action = None]

\* Nothing owned goes to zero without its cleanup having been recorded.
resources_reach_exact_zero(j, n, action) ==
    /\ \A r \in Nonterminal(j.resources) :
          /\ action # None /\ r.action = action.id
          /\ r.phase \in {"Reserved", "CleanupPending"}
    /\ n.resources = {IF terminal_phase(r.phase) THEN r ELSE Tombstone(r) : r \in j.resources}

(***************************************************************************)
(* RuntimeJournalState::validate_successor, by transaction                 *)
(***************************************************************************)

ChangesOnly(j, n, fields) == \A f \in DOMAIN j \ fields : n[f] = j[f]

Appends(j, n) ==
    /\ Len(n.completed) = Len(j.completed) + 1 /\ Front(n.completed) = j.completed
    /\ Last(n.completed).epoch = n.epoch /\ Last(n.completed).selection.gen = n.epoch

\* appended_terminal_for_prepared
AppendsPrepared(j, n) ==
    /\ Appends(j, n) /\ j.prepared # None /\ n.prepared = None
    /\ LET t == Last(n.completed) IN
       /\ t.tag = "Operation" /\ t.op = j.prepared.op /\ t.gen = j.prepared.gen
       /\ t.phase = j.prepared.phase /\ t.action = j.prepared.action
       /\ t.before = j.prepared.raw /\ t.census = n.resources

preserves(new, old) ==
    old # None =>
        /\ new # None /\ new.callback = old.callback
        /\ old.deadline # "NotObserved" => new.deadline = old.deadline /\ new.gen = old.gen
        /\ old.interrupted => new.interrupted
        /\ old.takeover => new.takeover
        /\ old.cleanup # "NotObserved" => new.cleanup = old.cleanup

Flags(raw) == IF raw = None THEN <<FALSE, FALSE>> ELSE <<raw.interrupted, raw.takeover>>

validate_startup_invalidation(j, n) ==
    /\ n.epoch = j.epoch + 1
    /\ ChangesOnly(j, n, {"epoch", "prepared", "recovery", "live"})
    /\ n.prepared = startup_invalidated_prepared(j.prepared)
    /\ n.recovery = startup_invalidated_recovery(j.recovery)
    /\ n.live.tag = "StartupInvalidated" /\ n.live.epoch = j.epoch
    /\ n.live.slice = Slice(j.active)
    /\ <<n.live.eligibility, n.live.failure>> = startup_eligibility(j)
    /\ \A r \in n.resources : r.epoch < n.epoch

validate_tenure_only(j, n) ==
    /\ ChangesOnly(j, n, {"fence", "nonces", "prepared", "recovery"})
    /\ n.fence > j.fence /\ n.fence \notin j.nonces
    /\ n.nonces = j.nonces \union {n.fence}
    /\ n.prepared = tenure_successor_prepared(j.prepared)
    /\ n.recovery = tenure_successor_recovery(j.recovery)

validate_full_admission(j, n) ==
    /\ ChangesOnly(j, n, {"prepared", "requests", "revision", "live"})
    /\ j.prepared = None /\ n.prepared # None /\ n.prepared.phase = "PreparedNoEffects"
    /\ n.prepared.action = None /\ n.prepared.raw = None /\ n.prepared.retiring = None
    /\ LET op == n.prepared.op IN
       /\ <<op, n.prepared.gen>> \notin j.requests
       /\ n.requests = j.requests \union {<<op, n.prepared.gen>>}
       /\ n.revision = Revision(op) /\ n.revision > j.revision
       /\ Request[op].expected = Slice(j.active)
       /\ full_admission_shape_is_allowed(j, Kind(op))
    /\ n.live = full_admission_live_materialization(j.live)

validate_prepared_progress(j, n) ==
    LET p == j.prepared
        q == n.prepared
    IN  /\ ChangesOnly(j, n, {"prepared"}) /\ p # None /\ q # None
        /\ q.op = p.op /\ q.gen = p.gen
        /\ preserves(q.raw, p.raw) /\ Flags(q.raw) = Flags(p.raw)
        /\ \/ q.phase = p.phase /\ q.action = p.action /\ q.retiring = p.retiring
           \/ /\ p.phase = "PreparedNoEffects" /\ q.phase = "FirstActionIntent"
              /\ Kind(p.op) = "OneSourceLoop" /\ q.raw = None /\ q.retiring = None
              /\ q.action # None /\ q.action.kind = "Start" /\ q.action.epoch = n.epoch

validate_resource_progress(j, n) ==
    /\ ChangesOnly(j, n, {"resources", "live"})
    /\ live_identity_preserved_except_census(n.live, j.live)
    /\ resources_progress(j, n)

validate_normal_start_terminal(j, n) ==
    /\ ChangesOnly(j, n, {"prepared", "active", "live", "resources", "completed"})
    /\ AppendsPrepared(j, n) /\ Kind(j.prepared.op) = "OneSourceLoop"
    /\ j.prepared.action # None
    /\ LET t == Last(n.completed) IN
       IF t.selection.primary = "OneSourceLoopActive"
       THEN /\ t.phase = "FirstActionIntent" /\ t.head = Committed(t.op)
            /\ n.active = [op |-> t.op, committed |-> TRUE] /\ n.live.tag = "LiveReady"
            /\ resources_publish(j, n, t.action)
       ELSE /\ n.active = j.active /\ t.head = preserved_head(j)
            /\ resources_reach_exact_zero(j, n, t.action)
            /\ \/ j.active = None /\ n.live = NoLive
               \/ /\ HeadIs(j, "EmptyDeactivate")
                  /\ n.live = Live("ExactZero", j.active.op, n.resources)

validate_empty_head_retire(j, n) ==
    LET p == j.prepared
        q == n.prepared
    IN  /\ ChangesOnly(j, n, {"prepared", "active", "live", "resources"})
        /\ p # None /\ Kind(p.op) = "EmptyDeactivate" /\ p.phase = "PreparedNoEffects"
        /\ HeadIs(j, "OneSourceLoop") /\ j.live.tag = "LiveReady"
        /\ q.action.kind = "DrainToEmpty" /\ q.action.epoch = j.live.epoch
        /\ q.action.generation = j.live.generation
        /\ q = [p EXCEPT !.phase = "HeadCommittedRetiringOld", !.action = q.action,
                         !.retiring = [op |-> j.active.op, epoch |-> j.live.epoch,
                                       generation |-> j.live.generation,
                                       census |-> j.live.census]]
        /\ n.active = [op |-> p.op, committed |-> FALSE] /\ n.live.tag = "Draining"
        /\ resources_begin_retire(j, n, q.action)

validate_exact_zero_terminal(j, n) ==
    /\ ChangesOnly(j, n, {"prepared", "active", "live", "resources", "completed"})
    /\ AppendsPrepared(j, n) /\ Kind(j.prepared.op) = "EmptyDeactivate"
    /\ LET t == Last(n.completed) IN
       /\ t.head = Committed(t.op) /\ n.active = [op |-> t.op, committed |-> TRUE]
       /\ n.live = Live("ExactZero", t.op, n.resources)
       /\ IF t.action # None
          THEN /\ j.active = [op |-> t.op, committed |-> FALSE]
               /\ j.live.tag \in {"Draining", "StartupInvalidated"}
          ELSE /\ t.phase = "PreparedNoEffects" /\ exact_zero_fast_path_eligible(j)
               /\ t.selection.primary = "EmptyDeactivateExactZero"
       /\ resources_reach_exact_zero(j, n, t.action)

validate_operation_terminal_no_effects(j, n) ==
    /\ ChangesOnly(j, n, {"prepared", "completed"}) /\ AppendsPrepared(j, n)
    /\ LET t == Last(n.completed) IN
       /\ before_effects(t.phase) /\ t.action = None /\ t.head = preserved_head(j)
       /\ t.selection.primary \in {"StartTimedOutBeforeIntentNoEffects",
              "StopTimedOutBeforeHeadCommitNoEffects", "AbortedBeforeIntentNoEffects"}

validate_recovery_plan(j, n) ==
    /\ ChangesOnly(j, n, {"recovery", "live"})
    /\ Invalidated(j, {"EligibleOneSourceLoop"}) /\ NoEffectPending(j)
    /\ n.recovery.phase = "RecoveryPlannedNoEffects" /\ n.recovery.action.epoch = n.epoch
    /\ n.live.tag = "Recovering"

validate_recovery_progress(j, n) ==
    LET r == j.recovery
        s == n.recovery
    IN  /\ ChangesOnly(j, n, {"recovery"}) /\ r # None /\ s # None
        /\ s.action = r.action /\ s.op = r.op
        /\ preserves(s.raw, r.raw) /\ Flags(s.raw) = Flags(r.raw)
        /\ \/ s.phase = r.phase
           \/ /\ r.phase = "RecoveryPlannedNoEffects" /\ s.phase = "StartCallIntent"
              /\ s.raw = None
        /\ j.live.tag = "Recovering"

\* The completion of a recovery: appended with the resources it leaves.
AppendsRecovery(j, n) ==
    /\ Appends(j, n) /\ j.recovery # None /\ n.recovery = None
    /\ Last(n.completed).tag = "Recovery" /\ Last(n.completed).recovery = j.recovery
    /\ Last(n.completed).census = n.resources

validate_recovery_publish(j, n) ==
    /\ ChangesOnly(j, n, {"recovery", "live", "resources", "completed"})
    /\ AppendsRecovery(j, n)
    /\ IF j.recovery.phase = "StartupReconcileRequired"
       THEN Invalidated(j, {"ReconcileRequired"})
       ELSE j.live.tag = "Recovering" /\ j.live.id = j.recovery.action.id
    /\ LET t == Last(n.completed) IN
       IF n.live.tag = "LiveReady"
       THEN /\ j.recovery.phase = "StartCallIntent" /\ t.failure = None
            /\ t.selection.primary = "OneSourceLoopActive"
            /\ resources_publish(j, n, j.recovery.action)
       ELSE /\ n.live.tag = "RecoveryFailedNotReady" /\ n.live.id = j.recovery.action.id
            /\ t.failure # None /\ n.live.failure = t.failure
            /\ resources_reach_exact_zero(j, n, j.recovery.action)

validate_recovery_abort_no_effects(j, n) ==
    /\ ChangesOnly(j, n, {"recovery", "completed"}) /\ AppendsRecovery(j, n)
    /\ j.recovery.phase = "StartupInvalidatedNoEffects"
    /\ Invalidated(j, {"EligibleOneSourceLoop"}) /\ Nonterminal(j.resources) = {}
    /\ Last(n.completed).selection.primary = "AbortedBeforeIntentNoEffects"

validate_quarantine(j, n) ==
    ChangesOnly(j, n, {"live"}) /\ j.live.tag # "Quarantined" /\ n.live.tag = "Quarantined"

validate_successor(tx, j, n) ==
    CASE tx = "StartupInvalidation" -> validate_startup_invalidation(j, n)
      [] tx = "TenureOnly" -> validate_tenure_only(j, n)
      [] tx = "FullAdmission" -> validate_full_admission(j, n)
      [] tx = "PreparedProgress" -> validate_prepared_progress(j, n)
      [] tx = "ResourceProgress" -> validate_resource_progress(j, n)
      [] tx = "NormalStartTerminal" -> validate_normal_start_terminal(j, n)
      [] tx = "EmptyHeadRetire" -> validate_empty_head_retire(j, n)
      [] tx = "ExactZeroTerminal" -> validate_exact_zero_terminal(j, n)
      [] tx = "OperationTerminalNoEffects" -> validate_operation_terminal_no_effects(j, n)
      [] tx = "RecoveryPlan" -> validate_recovery_plan(j, n)
      [] tx = "RecoveryProgress" -> validate_recovery_progress(j, n)
      [] tx = "RecoveryPublish" -> validate_recovery_publish(j, n)
      [] tx = "RecoveryAbortNoEffects" -> validate_recovery_abort_no_effects(j, n)
      [] tx = "Quarantine" -> validate_quarantine(j, n)

\* try_validated_successor: the snapshot is valid and may follow this one.
Successor(tx, j, n) == {s \in {n} : validate(s) /\ validate_successor(tx, j, s)}

(***************************************************************************)
(* Constructors of RuntimeJournalSnapshot                                  *)
(***************************************************************************)

At(j, late) == [gen |-> j.epoch, late |-> late]
SetResources(j, rs) == [j EXCEPT !.resources = rs, !.live = with_resource_census(@, rs)]

\* insert_terminal_record, of the prepared operation of j into n
Complete(j, n, s, head) ==
    [n EXCEPT !.prepared = None,
              !.completed = Append(@, [tag |-> "Operation", op |-> j.prepared.op,
                  gen |-> j.prepared.gen, phase |-> j.prepared.phase,
                  action |-> j.prepared.action, before |-> j.prepared.raw, selection |-> s,
                  head |-> head, census |-> n.resources, epoch |-> j.epoch])]

\* build_recovery_terminal: a failed one is its own failure evidence.
CompleteRecovery(j, n, s) ==
    [n EXCEPT !.recovery = None,
              !.completed = Append(@, [tag |-> "Recovery", recovery |-> j.recovery,
                  selection |-> s, census |-> n.resources, epoch |-> j.epoch,
                  failure |-> IF s.primary \in {"OneSourceLoopActive",
                                                "AbortedBeforeIntentNoEffects"}
                              THEN None ELSE j.recovery.action.id])]

LiveReady(op, action, census) ==
    [Live("LiveReady", op, census) EXCEPT !.epoch = action.epoch,
                                          !.generation = action.generation]

Tombstones(rs) == {IF terminal_phase(r.phase) THEN r ELSE Tombstone(r) : r \in rs}
Unbound(rs) == {IF terminal_phase(r.phase) THEN r ELSE [r EXCEPT !.action = None] : r \in rs}
PairIs(j, phase, action) ==
    \E r \in Nonterminal(j.resources) : r.phase = phase /\ r.action = action.id
AllTo(phase, rs) == {IF terminal_phase(r.phase) THEN r ELSE [r EXCEPT !.phase = phase] : r \in rs}

startup_invalidation(j) ==
    Successor("StartupInvalidation", j,
        [j EXCEPT !.epoch = @ + 1, !.prepared = startup_invalidated_prepared(@),
                  !.recovery = startup_invalidated_recovery(@),
                  !.live = [Live("StartupInvalidated", Slice(j.active), j.resources) EXCEPT
                              !.epoch = j.epoch,
                              !.eligibility = startup_eligibility(j)[1],
                              !.failure = startup_eligibility(j)[2]]])

\* Mutant: what was owned is not marked for cleanup.
MutCleanupSkipsOwned(j) ==
    IF Nonterminal(j.resources) # {} THEN Successor("ResourceProgress", j, j) ELSE {}

\* What an earlier process owned is first marked for cleanup...
begin_startup_resource_cleanup(j) ==
    IF /\ Invalidated(j, {"EligibleOneSourceLoop", "ReconcileRequired"})
       /\ Nonterminal(j.resources) # {}
       /\ \A r \in Nonterminal(j.resources) : r.epoch < j.epoch
    THEN Successor("ResourceProgress", j, SetResources(j,
             {IF r.phase = "Owned" THEN [r EXCEPT !.phase = "CleanupPending"] ELSE r :
                 r \in j.resources}))
    ELSE {}

\* ...and then, once proved gone, recorded as terminal.
complete_startup_resource_cleanup(j) ==
    IF /\ Nonterminal(j.resources) # {}
       /\ \A r \in Nonterminal(j.resources) :
             r.phase \in {"Reserved", "CleanupPending"} /\ r.epoch < j.epoch
    THEN Successor("ResourceProgress", j, SetResources(j, Tombstones(j.resources))) ELSE {}

operational_quarantine(j) ==
    IF j.live.tag \in {"StartupInvalidated", "Recovering"}
    THEN Successor("Quarantine", j,
             [j EXCEPT !.live = [Live("Quarantined", Slice(j.active), j.resources) EXCEPT
                                   !.failure = Evidence(j)]])
    ELSE {}

tenure_only(j, op) ==
    LET q == Request[op] IN
    IF /\ IF j.fence = 0 THEN q.supersedes = 0
          ELSE q.tenure > j.fence /\ q.supersedes >= j.fence
       /\ q.tenure \notin j.nonces
    THEN Successor("TenureOnly", j,
             [j EXCEPT !.fence = q.tenure, !.nonces = @ \union {q.tenure},
                       !.prepared = tenure_successor_prepared(@),
                       !.recovery = tenure_successor_recovery(@)])
    ELSE {}

full_admission(j, op, gen) ==
    IF /\ j.fence = Request[op].tenure /\ gen = j.epoch /\ j.prepared = None
       /\ \A t \in Operations(j) : t.op # op
    THEN Successor("FullAdmission", j,
             [j EXCEPT !.prepared = [op |-> op, gen |-> gen, phase |-> "PreparedNoEffects",
                                     action |-> None, retiring |-> None, raw |-> None],
                       !.requests = @ \union {<<op, gen>>}, !.revision = Revision(op),
                       !.live = full_admission_live_materialization(@)])
    ELSE {}

PreparedIs(j, kind, phases) ==
    j.prepared # None /\ Kind(j.prepared.op) = kind /\ j.prepared.phase \in phases

one_source_intent(j, action, late) ==
    IF PreparedIs(j, "OneSourceLoop", {"PreparedNoEffects"}) /\ ~late
    THEN Successor("PreparedProgress", j,
             [j EXCEPT !.prepared.phase = "FirstActionIntent", !.prepared.action = action])
    ELSE {}

\* reserve and reserve_recovery: the action's pair is reserved before it is made.
ReservePair(j, action) ==
    IF Nonterminal(j.resources) = {} /\ Cardinality(j.resources) < MaxResources
    THEN Successor("ResourceProgress", j, SetResources(j,
             j.resources \union {[generation |-> action.generation, epoch |-> action.epoch,
                                  phase |-> "Reserved", action |-> action.id]}))
    ELSE {}

OwnPair(j, action) ==
    IF PairIs(j, "Reserved", action)
    THEN Successor("ResourceProgress", j, SetResources(j, AllTo("Owned", j.resources))) ELSE {}

reserve(j) ==
    IF PreparedIs(j, "OneSourceLoop", {"FirstActionIntent"}) /\ j.prepared.raw = None
    THEN ReservePair(j, j.prepared.action) ELSE {}

own(j) ==
    IF PreparedIs(j, "OneSourceLoop", {"FirstActionIntent"}) /\ j.prepared.raw = None
    THEN OwnPair(j, j.prepared.action) ELSE {}

\* The start succeeded in time: the head is committed with its live pair.
one_source_success(j, late) ==
    IF /\ PreparedIs(j, "OneSourceLoop", {"FirstActionIntent"}) /\ j.prepared.raw = None
       /\ ~late /\ PairIs(j, "Owned", j.prepared.action)
    THEN UNION {Successor("NormalStartTerminal", j,
                    Complete(j, [j EXCEPT !.active = [op |-> j.prepared.op, committed |-> TRUE],
                                          !.resources = Unbound(@),
                                          !.live = LiveReady(j.prepared.op, j.prepared.action,
                                                             Unbound(j.resources))],
                             s, Committed(j.prepared.op))) :
                s \in try_select("OneSourceLoop", "FirstActionIntent", j.prepared.gen,
                          Latch("KnownSuccess"), At(j, late), "MayHaveStarted")}
    ELSE {}

\* The deadline passed after the intent and before any resource was reserved.
post_intent_timeout(j, late) ==
    IF /\ PreparedIs(j, "OneSourceLoop", {"FirstActionIntent"}) /\ j.prepared.raw = None
       /\ late /\ Nonterminal(j.resources) = {}
    THEN UNION {Successor("NormalStartTerminal", j, Complete(j, j, s, preserved_head(j))) :
                s \in try_select("OneSourceLoop", "FirstActionIntent", j.prepared.gen,
                          TimedOut(Latch("NotInvoked"), j.prepared.gen), At(j, late),
                          "ProvenNotStarted")}
    ELSE {}

\* A start an earlier process was interrupted in, proved to have left nothing.
startup_interrupted_start(j, late) ==
    IF /\ PreparedIs(j, "OneSourceLoop",
              {"StartupReconcileRequired", "SupersededReconcileRequired"})
       /\ j.prepared.raw.interrupted /\ j.prepared.raw.cleanup = "NotObserved"
       /\ j.prepared.raw.takeover = (j.prepared.phase = "SupersededReconcileRequired")
       /\ j.active = None \/ HeadIs(j, "EmptyDeactivate")
    THEN UNION {Successor("NormalStartTerminal", j,
                    Complete(j, [j EXCEPT !.resources = Tombstones(@),
                                          !.live = IF j.active = None THEN NoLive
                                                   ELSE Live("ExactZero", j.active.op,
                                                             Tombstones(j.resources))],
                             s, preserved_head(j))) :
                s \in try_select("OneSourceLoop", j.prepared.phase, j.prepared.gen,
                          exact_zero_raw(j.prepared.raw), At(j, late), "MayHaveStarted")}
    ELSE {}

\* The empty head is committed, and the old live pair starts to drain.
empty_head_retire(j, id, late) ==
    IF /\ PreparedIs(j, "EmptyDeactivate", {"PreparedNoEffects"}) /\ ~late
       /\ j.live.tag = "LiveReady" /\ HeadIs(j, "OneSourceLoop")
    THEN UNION {Successor("EmptyHeadRetire", j,
                    [j EXCEPT !.prepared.phase = "HeadCommittedRetiringOld",
                              !.prepared.action = Action(id, "DrainToEmpty", j.live.epoch,
                                                         j.live.generation),
                              !.prepared.retiring = [op |-> j.active.op, epoch |-> j.live.epoch,
                                                     generation |-> j.live.generation,
                                                     census |-> j.live.census],
                              !.active = [op |-> j.prepared.op, committed |-> FALSE],
                              !.resources = rs,
                              !.live = [Live("Draining", j.prepared.op, rs) EXCEPT
                                          !.id = id, !.generation = j.live.generation]]) :
                rs \in {{IF terminal_phase(r.phase) THEN r
                         ELSE [r EXCEPT !.phase = "CleanupPending", !.action = id] :
                           r \in j.resources}}}
    ELSE {}

Called(callback, gen, late) ==
    IF late THEN TimedOut(Latch(callback), gen) ELSE Latch(callback)

latch_empty_success(j, late) ==
    IF PreparedIs(j, "EmptyDeactivate", {"HeadCommittedRetiringOld"}) /\ j.prepared.raw = None
    THEN Successor("PreparedProgress", j,
             [j EXCEPT !.prepared.raw = Called("KnownSuccess", j.prepared.gen, late)])
    ELSE {}

\* The retired pair is gone: by this process, or proved so after a restart.
empty_exact_zero_eligible(p) ==
    /\ p.raw # None
    /\ CASE p.phase = "HeadCommittedRetiringOld" ->
               p.raw.callback = "KnownSuccess" /\ ~p.raw.interrupted /\ ~p.raw.takeover
         [] p.phase = "StartupReconcileRequired" -> p.raw.interrupted /\ ~p.raw.takeover
         [] OTHER -> p.phase = "SupersededReconcileRequired" /\ p.raw.takeover

empty_exact_zero(j, late) ==
    IF /\ PreparedIs(j, "EmptyDeactivate", {"HeadCommittedRetiringOld",
              "StartupReconcileRequired", "SupersededReconcileRequired"})
       /\ empty_exact_zero_eligible(j.prepared)
    THEN UNION {Successor("ExactZeroTerminal", j,
                    Complete(j, [j EXCEPT !.active.committed = TRUE, !.resources = Tombstones(@),
                                          !.live = Live("ExactZero", j.prepared.op,
                                                        Tombstones(j.resources))],
                             s, Committed(j.prepared.op))) :
                s \in {s \in try_select("EmptyDeactivate", j.prepared.phase, j.prepared.gen,
                                 exact_zero_raw(j.prepared.raw), At(j, late), "MayHaveStarted") :
                          s.primary # "StopFailedButExactZero"}}
    ELSE {}

\* Nothing is live: the empty head commits without a drain.
empty_fast_path(j, late) ==
    IF PreparedIs(j, "EmptyDeactivate", {"PreparedNoEffects"}) /\ exact_zero_fast_path_eligible(j)
    THEN UNION {Successor("ExactZeroTerminal", j,
                    Complete(j, [j EXCEPT !.active = [op |-> j.prepared.op, committed |-> TRUE],
                                          !.live = Live("ExactZero", j.prepared.op, j.resources)],
                             s, Committed(j.prepared.op))) :
                s \in {s \in try_select("EmptyDeactivate", "PreparedNoEffects", j.prepared.gen,
                                 Latch("NotInvoked"), At(j, late), "ProvenNotStarted") :
                          s.primary = "EmptyDeactivateExactZero"}}
    ELSE {}

NoEffectsTerminal(j, raw, late) ==
    UNION {Successor("OperationTerminalNoEffects", j, Complete(j, j, s, preserved_head(j))) :
           s \in try_select(Kind(j.prepared.op), j.prepared.phase, j.prepared.gen, raw,
                     At(j, late), "ProvenNotStarted")}

no_effect_deadline(j, late) ==
    IF j.prepared # None /\ j.prepared.phase = "PreparedNoEffects" /\ late
    THEN NoEffectsTerminal(j, TimedOut(Latch("NotInvoked"), j.prepared.gen), late) ELSE {}

startup_aborted_no_effects(j, late) ==
    IF j.prepared # None /\ j.prepared.phase = "StartupExpiredNoEffects"
    THEN NoEffectsTerminal(j, [Latch("NotInvoked") EXCEPT !.interrupted = TRUE], late) ELSE {}

(***************************************************************************)
(* Recovery of the committed head by a later process                       *)
(***************************************************************************)

recovery_plan(j, action) ==
    IF Invalidated(j, {"EligibleOneSourceLoop"}) /\ j.prepared = None /\ j.recovery = None
    THEN Successor("RecoveryPlan", j,
             [j EXCEPT !.recovery = [action |-> action, op |-> j.active.op,
                                     phase |-> "RecoveryPlannedNoEffects", raw |-> None],
                       !.live = [Live("Recovering", j.active.op, j.resources) EXCEPT
                                   !.id = action.id, !.generation = action.generation]])
    ELSE {}

RecoveryIs(j, phase) == j.recovery # None /\ j.recovery.phase = phase

recovery_intent(j, late) ==
    IF RecoveryIs(j, "RecoveryPlannedNoEffects") /\ ~late
    THEN Successor("RecoveryProgress", j, [j EXCEPT !.recovery.phase = "StartCallIntent"])
    ELSE {}

reserve_recovery(j) ==
    IF RecoveryIs(j, "StartCallIntent") /\ j.recovery.raw = None
    THEN ReservePair(j, j.recovery.action) ELSE {}

own_recovery(j) ==
    IF RecoveryIs(j, "StartCallIntent") THEN OwnPair(j, j.recovery.action) ELSE {}

latch_recovery_callback(j, callback, late) ==
    IF RecoveryIs(j, "StartCallIntent") /\ j.recovery.raw = None
    THEN Successor("RecoveryProgress", j,
             [j EXCEPT !.recovery.raw = Called(callback, j.recovery.action.epoch, late)])
    ELSE {}

latch_recovery_deadline(j, late) ==
    IF /\ RecoveryIs(j, "StartCallIntent") /\ late
       /\ j.recovery.raw # None /\ j.recovery.raw.deadline = "NotObserved"
    THEN Successor("RecoveryProgress", j,
             [j EXCEPT !.recovery.raw = TimedOut(@, j.recovery.action.epoch)])
    ELSE {}

begin_recovery_cleanup(j) ==
    IF /\ RecoveryIs(j, "StartCallIntent") \/ RecoveryIs(j, "StartupReconcileRequired")
       /\ j.recovery.raw # None
       /\ \/ PairIs(j, "Owned", j.recovery.action)
          \/ PairIs(j, "CleanupPending", j.recovery.action)
    THEN Successor("ResourceProgress", j, SetResources(j, AllTo("CleanupPending", j.resources)))
    ELSE {}

RecoverySelection(j, raw, late, effect) ==
    try_select("OneSourceLoop", recovery_predecessor_phase(j.recovery.phase),
               j.recovery.action.epoch, raw, At(j, late), effect)

recovery_live_ready(j, late) ==
    IF /\ RecoveryIs(j, "StartCallIntent") /\ j.recovery.raw = Latch("KnownSuccess")
       /\ PairIs(j, "Owned", j.recovery.action)
    THEN UNION {Successor("RecoveryPublish", j,
                    CompleteRecovery(j,
                        [j EXCEPT !.resources = Unbound(@),
                                  !.live = LiveReady(j.recovery.op, j.recovery.action,
                                                     Unbound(j.resources))], s)) :
                s \in {s \in RecoverySelection(j, j.recovery.raw, late, "MayHaveStarted") :
                          s.primary = "OneSourceLoopActive"}}
    ELSE {}

\* cleaned: the pair this process cleaned up is recorded as terminal.
recovery_failed_not_ready(j, cleaned, late) ==
    IF /\ j.recovery # None
       /\ j.recovery.raw = None =>
             late /\ j.recovery.phase \in {"RecoveryPlannedNoEffects", "StartCallIntent"}
       /\ ~cleaned => Nonterminal(j.resources) = {}
    THEN LET r == j.recovery
             seen == IF r.raw = None THEN TimedOut(Latch("NotInvoked"), r.action.epoch)
                     ELSE r.raw
             raw == IF cleaned \/ r.phase = "StartupReconcileRequired" THEN exact_zero_raw(seen)
                    ELSE seen
             effect == IF raw.callback = "NotInvoked" /\ raw.cleanup = "NotObserved"
                       THEN "ProvenNotStarted" ELSE "MayHaveStarted"
         IN  UNION {Successor("RecoveryPublish", j,
                        CompleteRecovery(j,
                            [j EXCEPT !.resources = Tombstones(@),
                                      !.live = [Live("RecoveryFailedNotReady", r.op,
                                                     Tombstones(j.resources)) EXCEPT
                                                  !.id = r.action.id, !.failure = r.action.id]],
                            s)) :
                    s \in RecoverySelection(j, raw, late, effect)}
    ELSE {}

abort_startup_invalidated_recovery(j, late) ==
    IF RecoveryIs(j, "StartupInvalidatedNoEffects")
    THEN UNION {Successor("RecoveryAbortNoEffects", j, CompleteRecovery(j, j, s)) :
                s \in RecoverySelection(j, [Latch("NotInvoked") EXCEPT !.interrupted = TRUE],
                          late, "ProvenNotStarted")}
    ELSE {}

=============================================================================
