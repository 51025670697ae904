-------------------------- MODULE ControllerRollout --------------------------
(***************************************************************************)
(* One controller that rolls plans out to one runtime.                     *)
(*                                                                         *)
(* First what the commands of deploymentd compute from the journal before  *)
(* they commit or send: candidates, requests, checks of what is stored,    *)
(* and the decision a query answer leads to.  Then the commands at work,   *)
(* one commit or one exchange to a step, beside a runtime that serves,     *)
(* restarts and reports, with crashes of the command and lost answers.     *)
(*                                                                         *)
(* p is a command's provisioning [scope, lineage, auth, principal, writer, *)
(* policy, response_key]; the arguments are those the store was made with. *)
(***************************************************************************)
EXTENDS ControllerJournal, Functions

IsProvisioned(s, p) == s.scope = p.scope /\ s.lineage = p.lineage /\ s.auth = p.auth

(* The two commits of a plan are computed together before the first one is    *)
(* written.                                                                   *)
Previewed(s, operation, candidate) ==
    {next \in prepare_plan_candidate(s, operation, candidate) :
        commit_plan_candidate(next, operation, candidate) # {}}

-----------------------------------------------------------------------------
(* Candidates.  A loop is planned from an empty ledger, whatever is committed *)
(* by now: the journal tells a repetition from a change.                      *)
build_reference_candidate(manifest, card_use) ==
    {[content |-> [target |-> manifest.target, shape |-> "OneSourceLoop", manifest |-> manifest.digest,
                   subject |-> [key |-> a.record.key, instance |-> a.record.instance, domain |-> a.record.domain]],
      allocation_delta |-> a.delta] :
     a \in UNION {allocate_active(manifest.target, card_use, empty) :
                  empty \in StableAllocationSnapshot_try_new(manifest.target, 0, 0, {})}}

CommitLoopMayStart(s, p) == IsProvisioned(s, p) /\ current_revision(s) <= 1

validate_committed_empty_state(s, operation) ==
    /\ last_archived_active_target_slice_digest(s) # None
    /\ s.plan.content.shape = "EmptyTarget" /\ s.plan.commit_operation = operation
    /\ s.allocation.generation = 2 /\ s.allocation.high_water = 1 /\ Cardinality(s.allocation.records) = 1
    /\ LiveRecords(s.allocation) = {}
    /\ last_terminal_target_slice_digest(s) = last_archived_active_target_slice_digest(s)

EmptyIsCommitted(s) == current_revision(s) = 2 /\ s.plan.content.shape = "EmptyTarget"

(* An empty target follows a loop that is known to have become active.        *)
build_reference_empty_candidate(s) ==
    IF s.plan = None \/ s.rollout = None THEN {}
    ELSE IF /\ current_active_target_slice_digest_for_plan_advance(s) = s.rollout.intent.slice
            /\ s.plan.revision = 1 /\ s.plan.content.shape = "OneSourceLoop"
            /\ current_apply_is_terminal(s) /\ s.rollout.intent.plan_digest = s.plan.digest
         THEN {[content |-> [target |-> s.manifest.target, shape |-> "EmptyTarget", manifest |-> s.manifest.digest,
                             subject |-> None],
                allocation_delta |-> d] : d \in retire_all(s.allocation)}
         ELSE {}

-----------------------------------------------------------------------------
(* Bootstrap.  The request of the stored binding is asked again, byte by      *)
(* byte; the first answer pins what a later one may say.                      *)
validate_stored_binding(s) ==
    /\ s.binding.target = s.manifest.target /\ s.binding.response.target = s.binding.target
    /\ s.binding.response.store = s.binding.store /\ s.binding.response.epoch = s.binding.last_epoch
    /\ s.binding.response.manifest = s.binding.manifest

prepare_bootstrap_request(s, p, id) ==
    LET asked == IF s.binding = None THEN id ELSE s.binding.response.request.id
        request == [id |-> asked, target |-> s.manifest.target, scope |-> s.scope, principal |-> p.principal,
                    key |-> s.auth.key]
    IN  {r \in {request} : s.binding # None => validate_stored_binding(s) /\ r = s.binding.response.request}

serving_expectation(s, response) ==
    s.binding # None =>
        LET pinned == s.binding.response IN
        /\ response.store = s.binding.store
        /\ response.epoch >= s.binding.last_epoch
        /\ response.epoch = s.binding.last_epoch => response.sequence >= pinned.sequence

target_binding_successor(s, response) ==
    UNION {record_target_binding(s, b) :
           b \in TargetBinding_try_new(response,
                     IF s.binding = None THEN response.epoch ELSE s.binding.first_epoch, response.channel)}

-----------------------------------------------------------------------------
(* Apply.                                                                     *)
validate_bootstrap_binding(s, p) ==
    /\ s.binding # None
    /\ validate_stored_binding(s)
    /\ s.binding.response.manifest = s.manifest.digest
    /\ s.binding.response.policy = p.policy
    /\ s.binding.response.readiness = "ReadyForApply"

execution_for_content(content) ==
    [mode |-> IF content.shape = "OneSourceLoop" THEN "OneSourceLoop" ELSE "EmptyDeactivate",
     manifest |-> content.manifest, subject |-> content.subject]

TargetSlice(s) == <<"slice", s.plan.digest, execution_for_content(s.plan.content)>>

(* A fresh request is signed for the clock of the bootstrap answer, with the  *)
(* latest tenure of the writer, and expects the slice that was applied last.  *)
MutBuildFreshApply(s, p, operation) ==
    IF s.plan = None \/ ~validate_bootstrap_binding(s, p) THEN {}
    ELSE IF latest_committed_tenure_proof(s, p.writer) = None THEN {}
    ELSE {[target |-> s.plan.target, slice |-> TargetSlice(s), operation |-> operation, principal |-> p.principal,
           store |-> s.binding.store, mode |-> execution_for_content(s.plan.content).mode,
           revision |-> s.plan.revision, plan_digest |-> s.plan.digest, manifest |-> s.plan.content.manifest,
           expected_active |-> None,
           clock_generation |-> s.binding.response.epoch,
           proof |-> latest_committed_tenure_proof(s, p.writer), key |-> s.auth.key]}

build_fresh_apply_request(s, p, operation) ==
    IF s.plan = None \/ ~validate_bootstrap_binding(s, p) THEN {}
    ELSE IF latest_committed_tenure_proof(s, p.writer) = None THEN {}
    ELSE {[target |-> s.plan.target, slice |-> TargetSlice(s), operation |-> operation, principal |-> p.principal,
           store |-> s.binding.store, mode |-> execution_for_content(s.plan.content).mode,
           revision |-> s.plan.revision, plan_digest |-> s.plan.digest, manifest |-> s.plan.content.manifest,
           expected_active |-> last_terminal_target_slice_digest(s),
           clock_generation |-> s.binding.response.epoch,
           proof |-> latest_committed_tenure_proof(s, p.writer), key |-> s.auth.key]}

PreparedApply(s, p, operation) ==
    UNION {UNION {record_signed_apply_intent(s, i) :
                  i \in SignedApplyIntent_try_new(r, s.plan.digest, s.binding, s.auth)} :
           r \in build_fresh_apply_request(s, p, operation)}

(* A stored request must still be the one this plan asks for.                 *)
validate_durable_request(s, p) ==
    LET i == s.rollout.intent
        r == i.request
    IN  /\ r.target = i.target /\ r.target = s.plan.target /\ r.target = s.binding.target
        /\ r.slice = i.slice /\ r.slice = TargetSlice(s)
        /\ r.store = i.store /\ i.store = s.binding.store /\ i.policy = s.binding.policy
        /\ r.revision = s.plan.revision /\ r.plan_digest = s.plan.digest /\ i.plan_digest = s.plan.digest
        /\ r.expected_active = last_terminal_target_slice_digest(s)
        /\ r.proof.writer = p.writer /\ contains_committed_tenure_proof(s, r.proof)
        /\ r.principal = p.principal /\ r.key = i.request_auth.key
        /\ r.mode = execution_for_content(s.plan.content).mode /\ r.manifest = s.manifest.digest

ReplayMayBeSent(s, p) ==
    /\ s.rollout # None
    /\ validate_bootstrap_binding(s, p) /\ validate_durable_request(s, p)
    /\ s.rollout.intent.request_auth.key = p.auth.key

-----------------------------------------------------------------------------
(* Reconcile.                                                                 *)
current_query_is_open(s) == LatestAttempt(s) # None /\ NothingYet(LatestAttempt(s))
AwaitsDecision(s) ==
    LatestAttempt(s) # None /\ LatestAttempt(s).observation # None /\ LatestAttempt(s).decision = None

build_fresh_query_request(s, p, id) ==
    IF s.binding = None \/ s.rollout = None THEN {}
    ELSE {[id |-> id, nonce |-> id, target |-> s.rollout.intent.target, scope |-> s.scope, store |-> s.binding.store,
           operation |-> s.rollout.intent.operation, expected |-> s.rollout.intent.request,
           principal |-> p.principal, key |-> s.auth.key]}

expected_reconcile_state(s, q) ==
    /\ s.plan # None /\ s.rollout # None /\ s.binding # None
    /\ LET i == s.rollout.intent
           r == i.request
       IN  /\ r.mode = execution_for_content(s.plan.content).mode
           /\ r.target = s.plan.target /\ r.target = i.target /\ r.target = s.binding.target
           /\ r.slice = i.slice /\ r.store = i.store /\ r.store = s.binding.store
           /\ r.revision = s.plan.revision /\ r.plan_digest = s.plan.digest
           /\ r.manifest = s.plan.content.manifest /\ i.manifest = r.manifest
           /\ q.target = r.target /\ q.scope = s.scope /\ q.store = s.binding.store
           /\ q.operation = i.operation /\ q.expected = r /\ q.principal = r.principal

desired_matches(s, response) ==
    /\ response.revision_high_water = s.plan.revision
    /\ response.head = [kind |-> execution_for_content(s.plan.content).mode, revision |-> s.plan.revision,
                        slice |-> s.rollout.intent.slice, manifest |-> s.plan.content.manifest]

Undecided == [observed |-> "Uncertain", receipt |-> None]

classify_query_facts(s, response) ==
    IF \/ response.serving.target # s.plan.target \/ response.serving.store # s.binding.store
       \/ response.serving.epoch < s.binding.last_epoch
       \/ response.owner # "Operational"
       \/ ~desired_matches(s, response)
       \/ response.lookup = None
    THEN Undecided
    ELSE IF response.lookup.request # s.rollout.intent.request THEN Undecided
    ELSE IF response.lookup.phase # "Terminal" THEN [observed |-> "Prepared", receipt |-> None]
    ELSE IF s.plan.content.shape = "OneSourceLoop" /\ response.live = "LiveReady"
    THEN [observed |-> "Active", receipt |-> response.lookup.result]
    ELSE IF s.plan.content.shape = "EmptyTarget" /\ response.live = "ExactZero"
    THEN [observed |-> "Retired", receipt |-> response.lookup.result]
    ELSE Undecided

(* A decision never says more than the direct receipt does.                   *)
constrain_by_direct_terminal(s, d) ==
    LET direct == s.rollout.direct IN
    IF direct = None THEN {d}
    ELSE IF d.observed \in {"Active", "Retired"} /\ d.receipt # direct.result THEN {}
    ELSE IF \/ d.observed = "Prepared"
            \/ d.observed = "Active" /\ direct.outcome = "OneSourceLoopActive"
            \/ d.observed = "Retired" /\ direct.outcome = "EmptyDeactivateExactZero"
    THEN {d} ELSE {Undecided}

decide_from_durable_observation(s) ==
    LET q == LatestAttempt(s).prepared.request
        response == LatestAttempt(s).observation.response
    IN  IF response.id # q.id \/ response.request # q THEN {Undecided}
        ELSE IF /\ s.rollout.direct # None /\ LookupIsTerminal(response)
                /\ response.lookup.result # s.rollout.direct.result
        THEN {}
        ELSE IF ~expected_reconcile_state(s, q) THEN {Undecided}
        ELSE constrain_by_direct_terminal(s, classify_query_facts(s, response))

Decided(s) ==
    UNION {record_rollout_decision(s, d.observed, d.receipt) : d \in decide_from_durable_observation(s)}

(* A terminal decision is decided again, the same way.                        *)
validate_existing_decision(s) == Decided(s) = {s}

-----------------------------------------------------------------------------
(* One controller rolling plans out to one runtime: a loop is committed, a    *)
(* tenure acquired, the runtime bootstrapped, the loop applied and reconciled, *)
(* then the empty target committed and applied.  An operator runs the         *)
(* commands in any order and repeats them at will; a command may end between  *)
(* any two of its commits and sends; answers are lost, a request may be       *)
(* served after its client has gone, and the runtime restarts at any time.    *)
(*                                                                            *)
(* The controller is the commands above over ControllerJournal; a commit      *)
(* happens or does not (ControllerTenure has the store below it).  The        *)
(* runtime is what RuntimeReference and ReferenceExchange show of it: one     *)
(* connection at a time, one operation at a time, one terminal each.          *)

CONSTANTS
    Operations,                \* the ids an operator gives to plan commits
    CardUses,                  \* the card an operator asks to run
    Provisioning, Manifest, Store, ResponseKey,
    Channels,                  \* the channels a runtime process may get
    MaxEpoch, MaxFaults

VARIABLES
    journal,   \* the controller's durable record
    cmd,       \* the command under way, which holds the store's lock, or None
    conn,      \* its exchange, or None
    late,      \* an apply request whose client has gone and which may still be served, or None
    rt,        \* the runtime
    faults,    \* bound: crashes of the controller and lost exchanges so far
    refused    \* history: has the journal refused what a command built?

vars == <<journal, cmd, conn, late, rt, faults, refused>>
controller == <<journal, cmd, refused>>

JournalStore == "journal-store"
JournalOwner == "journal-owner"

Init ==
    /\ \E x \in Snapshot_try_initialize(JournalStore, JournalOwner, JournalState_try_initialize(
                     Provisioning.scope, Provisioning.lineage, Manifest, Provisioning.auth)) : journal = x.state
    /\ cmd = None /\ conn = None /\ late = None
    /\ \E ch \in Channels :
          rt = [epoch |-> 1, sequence |-> 1, channel |-> ch, running |-> None, terminals |-> {}, head |-> None,
                live |-> "ExactZero", high_water |-> 0]
    /\ faults = 0 /\ refused = FALSE

-----------------------------------------------------------------------------
(* A commit: a snapshot that follows the one there is, whose file reads back  *)
(* as the same snapshot.  Of its sequence only the first matters here.        *)
SnapshotOf(s) ==
    [store |-> JournalStore, owner |-> JournalOwner, sequence |-> IF is_exact_fresh(s) THEN 1 ELSE 2, state |-> s]

HasQueryEvidence(s) ==
    s.high_water # 0 \/ \E r \in KnownRollouts(s) : r.attempts # <<>>

(* What the file of a snapshot must do: fit, have the length computed for it, *)
(* and give the snapshot back; the same file under version 7 is migrated just *)
(* when no query is in it.                                                    *)
ReadsBack(x) ==
    /\ validate_controller_snapshot_size(x.state)
    /\ \A f \in Snapshot_encode(x, CONTROLLER_PAYLOAD_VERSION) :
          HeaderLength(f) = controller_payload_encoded_len(x.state) /\ Snapshot_decode(f) = {x}
    /\ \A f \in Snapshot_encode(x, CONTROLLER_LEGACY_PAYLOAD_VERSION) :
          Snapshot_migrate_payload_v7(f) = IF HasQueryEvidence(x.state) THEN {} ELSE {x}

Accepted(n) ==
    \E x \in Snapshot_try_successor(SnapshotOf(journal), n) :
        Snapshot_validate_successor_of(x, SnapshotOf(journal)) /\ ReadsBack(x)

Commit(next, then) ==
    /\ IF next \subseteq {journal} THEN UNCHANGED <<journal, refused>> /\ cmd' = IF next = {} THEN None ELSE then
       ELSE \E n \in next :
            IF Accepted(n) THEN journal' = n /\ cmd' = then /\ UNCHANGED refused
            ELSE refused' = TRUE /\ cmd' = None /\ UNCHANGED journal

Idle == cmd = None /\ IsProvisioned(journal, Provisioning)
Running(name) == cmd # None /\ cmd.name = name

(* commit-reference-loop and commit-reference-empty: two commits each.        *)
PlanCommit(operation, candidate) == [name |-> "plan", operation |-> operation, candidate |-> candidate]

CommitReferenceLoop(operation, card_use) ==
    /\ Idle /\ CommitLoopMayStart(journal, Provisioning)
    /\ \E c \in build_reference_candidate(journal.manifest, card_use) :
          /\ Previewed(journal, operation, c) # {}
          /\ Commit(Previewed(journal, operation, c), PlanCommit(operation, c))
    /\ UNCHANGED <<conn, late, rt, faults>>

CommitReferenceEmpty(operation) ==
    /\ Idle /\ ~EmptyIsCommitted(journal)
    /\ \E c \in build_reference_empty_candidate(journal) :
          /\ Previewed(journal, operation, c) # {}
          /\ Commit(Previewed(journal, operation, c), PlanCommit(operation, c))
    /\ UNCHANGED <<conn, late, rt, faults>>

CommitPlan ==
    /\ Running("plan")
    /\ Commit(commit_plan_candidate(journal, cmd.operation, cmd.candidate), None)
    /\ UNCHANGED <<conn, late, rt, faults>>

(* acquire-tenure: an unresolved transaction is asked again, byte by byte.    *)
TenureRequest == [operation |-> "tenure", nonce |-> "tenure", scope |-> journal.scope, writer |-> Provisioning.writer]
TenureResponse(request) ==
    [request |-> request, proof |-> [writer |-> request.writer, epoch |-> 1, supersedes |-> 0]]

AcquireTenure ==
    /\ Idle /\ CommittedTenures(journal) = {}
    /\ Commit(prepare_tenure_acquisition(journal, TenureRequest, "authority"), [name |-> "tenure"])
    /\ UNCHANGED <<conn, late, rt, faults>>

TenureAnswered ==
    /\ Running("tenure")
    /\ Commit(commit_tenure_response(journal, TenureResponse(TenureRequest)), None)
    /\ UNCHANGED <<conn, late, rt, faults>>

TenureLost ==
    /\ Running("tenure") /\ faults < MaxFaults
    /\ faults' = faults + 1
    /\ Commit(mark_tenure_uncertain(journal, TenureRequest), None)
    /\ UNCHANGED <<conn, late, rt>>

-----------------------------------------------------------------------------
(* Exchanges: one connection, to the process that serves when it is made.     *)
Sent(kind, request) == [kind |-> kind, request |-> request, server |-> rt.epoch, answer |-> None]

(* bootstrap-runtime is a command of the first plan only.                     *)
BootstrapRuntime ==
    /\ Idle /\ current_revision(journal) = 1
    /\ \E r \in prepare_bootstrap_request(journal, Provisioning, "bootstrap") : conn' = Sent("bootstrap", r)
    /\ cmd' = [name |-> "bootstrap"]
    /\ UNCHANGED <<journal, refused, late, rt, faults>>

ReceiveBootstrap ==
    /\ Running("bootstrap") /\ conn # None /\ conn.answer # None
    /\ Commit(IF serving_expectation(journal, conn.answer) THEN target_binding_successor(journal, conn.answer) ELSE {},
              None)
    /\ conn' = None
    /\ UNCHANGED <<late, rt, faults>>

(* apply-reference: the request is durable before it is sent, and sent again  *)
(* byte by byte until a terminal is durable.                                  *)
ApplyOperation == <<"apply", current_revision(journal)>>

PrepareApply ==
    /\ Idle /\ journal.plan # None /\ journal.binding # None /\ journal.rollout = None
    /\ PreparedApply(journal, Provisioning, ApplyOperation) # {}
    /\ Commit(PreparedApply(journal, Provisioning, ApplyOperation), [name |-> "apply"])
    /\ UNCHANGED <<conn, late, rt, faults>>

ReplayApply ==
    /\ Idle /\ ReplayMayBeSent(journal, Provisioning) /\ ~current_apply_is_terminal(journal)
    /\ cmd' = [name |-> "apply"]
    /\ UNCHANGED <<journal, refused, conn, late, rt, faults>>

SendApply ==
    /\ Running("apply") /\ conn = None
    /\ conn' = Sent("apply", journal.rollout.intent.request)
    /\ UNCHANGED <<controller, late, rt, faults>>

ReceiveApply ==
    /\ Running("apply") /\ conn # None /\ conn.answer # None
    /\ Commit(record_direct_terminal_receipt(journal, conn.answer), None)
    /\ conn' = None
    /\ UNCHANGED <<late, rt, faults>>

-----------------------------------------------------------------------------
(* reconcile-reference-once.                                                  *)
Reconciles == Idle /\ journal.plan # None /\ journal.binding # None

DecideRecovered ==
    /\ Reconciles /\ AwaitsDecision(journal)
    /\ Commit(Decided(journal), None)
    /\ UNCHANGED <<conn, late, rt, faults>>

(* The right to send a stored query is lost with the process that had it.     *)
CloseRecovered ==
    /\ Reconciles /\ current_query_is_open(journal)
    /\ Commit(record_query_closure(journal, LatestAttempt(journal).prepared.request.id,
                                   "ResidentAuthorityLostAfterRestart"), None)
    /\ UNCHANGED <<conn, late, rt, faults>>

QueryId == <<current_revision(journal), Len(journal.rollout.attempts) + 1>>

PrepareQuery ==
    /\ Reconciles /\ journal.rollout # None
    /\ ~current_query_decision_is_terminal(journal)
    /\ ~AwaitsDecision(journal) /\ ~current_query_is_open(journal)
    /\ \E q \in build_fresh_query_request(journal, Provisioning, QueryId) :
          /\ prepare_query_request(journal, q) # {}
          /\ Commit(prepare_query_request(journal, q), [name |-> "query", closure |-> None])
    /\ UNCHANGED <<conn, late, rt, faults>>

(* A query goes out on the channel it was signed under or not at all.         *)
SendQuery ==
    /\ Running("query") /\ conn = None /\ cmd.closure = None /\ current_query_is_open(journal)
    /\ IF LatestAttempt(journal).prepared.channel = rt.channel
       THEN conn' = Sent("query", LatestAttempt(journal).prepared.request) /\ UNCHANGED cmd
       ELSE cmd' = [cmd EXCEPT !.closure = "NotSent"] /\ UNCHANGED conn
    /\ UNCHANGED <<journal, refused, late, rt, faults>>

ReceiveQuery ==
    /\ Running("query") /\ conn # None /\ conn.answer # None
    /\ conn' = None
    /\ IF QueryObservation_try_new(conn.answer, conn.answer.channel, LatestAttempt(journal).prepared) = {}
       THEN cmd' = [cmd EXCEPT !.closure = "ResponseRejected"] /\ UNCHANGED <<journal, refused>>
       ELSE Commit(record_query_response(journal, conn.answer, conn.answer.channel), cmd)
    /\ UNCHANGED <<late, rt, faults>>

CloseQuery ==
    /\ Running("query") /\ cmd.closure # None
    /\ Commit(record_query_closure(journal, LatestAttempt(journal).prepared.request.id, cmd.closure), None)
    /\ UNCHANGED <<conn, late, rt, faults>>

DecideQuery ==
    /\ Running("query") /\ conn = None /\ AwaitsDecision(journal)
    /\ Commit(Decided(journal), None)
    /\ UNCHANGED <<conn, late, rt, faults>>

-----------------------------------------------------------------------------
(* Faults of the controller's side.  What was sent may be served all the same. *)
Unserved(c) == c # None /\ c.kind = "apply" /\ c.answer = None /\ c.server = rt.epoch /\ rt.running = None

Abandoned(c) == {late} \union (IF Unserved(c) THEN {c.request} ELSE {})

(* A timeout or the end of the stream.                                        *)
Lose ==
    /\ conn # None
    /\ \/ faults < MaxFaults /\ faults' = faults + 1
       \/ conn.server # rt.epoch /\ UNCHANGED faults
    /\ conn' = None
    /\ late' \in Abandoned(conn)
    /\ cmd' = IF cmd.name = "query" THEN [cmd EXCEPT !.closure = "DeliveryUncertain"] ELSE None
    /\ UNCHANGED <<journal, refused, rt>>

CrashController ==
    /\ cmd # None /\ faults < MaxFaults
    /\ faults' = faults + 1
    /\ cmd' = None /\ conn' = None
    /\ late' \in Abandoned(conn)
    /\ UNCHANGED <<journal, refused, rt>>

-----------------------------------------------------------------------------
(* The runtime.                                                               *)
SliceOf(request) == IF request = None THEN None ELSE request.slice
Ready == rt.live \in {"ExactZero", "LiveReady"}
Owner == CASE rt.live = "Quarantined" -> "OwnershipUncertain" [] Ready -> "Operational" [] OTHER -> "ApplyDisabled"

HeadOf(request) ==
    IF request = None THEN [kind |-> "None", revision |-> 0, slice |-> None, manifest |-> None]
    ELSE [kind |-> request.mode, revision |-> request.revision, slice |-> request.slice, manifest |-> request.manifest]

TerminalOf(operation) == OrNone({t \in rt.terminals : t.operation = operation})

(* Admitted: signed for this clock, over the head that is there.              *)
Admits(r) ==
    /\ r.clock_generation = rt.epoch /\ Ready /\ rt.running = None
    /\ r.expected_active = SliceOf(rt.head) /\ r.revision > rt.high_water

CommitsIncoming(outcome) ==
    outcome \in {"OneSourceLoopActive", "EmptyDeactivateExactZero", "TimedOutButExactZero", "InterruptedButNowExactZero"}
ProvenNotStarted(outcome) ==
    outcome \in {"StartTimedOutBeforeIntentNoEffects", "StopTimedOutBeforeHeadCommitNoEffects",
                 "AbortedBeforeIntentNoEffects"}

Receipt(r, outcome, sequence) ==
    [channel |-> r.channel, key |-> ResponseKey, target |-> r.request.target, store |-> Store,
     operation |-> r.request.operation, request |-> r.request, result |-> <<"result", r.request.operation>>,
     head |-> IF CommitsIncoming(outcome) THEN "CommittedIncoming" ELSE "Preserved",
     desired_head |-> IF CommitsIncoming(outcome) THEN r.request.slice ELSE SliceOf(rt.head),
     outcome |-> outcome, effect |-> IF ProvenNotStarted(outcome) THEN "ProvenNotStarted" ELSE "MayHaveStarted",
     epoch |-> rt.epoch, sequence |-> sequence]

(* The runtime with its running operation ended.                              *)
Ended(outcome) ==
    LET r == rt.running
        t == Receipt(r, outcome, rt.sequence + 1)
        commits == t.head = "CommittedIncoming"
    IN  [rt EXCEPT !.sequence = @ + 1, !.running = None, !.terminals = @ \union {t},
                   !.head = IF commits THEN r.request ELSE @,
                   !.live = IF ~commits THEN @ ELSE IF r.request.mode = "OneSourceLoop" THEN "LiveReady" ELSE "ExactZero"]

Outcomes(request) ==
    IF request.mode = "OneSourceLoop" THEN {"OneSourceLoopActive", "StartTimedOutBeforeIntentNoEffects"}
    ELSE {"EmptyDeactivateExactZero", "StopTimedOutBeforeHeadCommitNoEffects", "TimedOutButExactZero"}

Admit(r) ==
    rt' = [rt EXCEPT !.sequence = @ + 1, !.running = [request |-> r, channel |-> rt.channel], !.high_water = r.revision]

Waiting(kind) == conn # None /\ conn.kind = kind /\ conn.answer = None /\ conn.server = rt.epoch /\ late = None

(* A terminal is repeated as it was signed, whatever clock it was signed for. *)
ServeApply ==
    /\ Waiting("apply") /\ rt.running = None
    /\ IF TerminalOf(conn.request.operation) # None
       THEN conn' = [conn EXCEPT !.answer = TerminalOf(conn.request.operation)] /\ UNCHANGED <<rt, cmd>>
       ELSE IF Admits(conn.request) THEN Admit(conn.request) /\ UNCHANGED <<conn, cmd>>
       ELSE conn' = None /\ cmd' = None /\ UNCHANGED rt
    /\ UNCHANGED <<journal, refused, late, faults>>

ServeLate ==
    /\ late # None /\ rt.running = None
    /\ late' = None
    /\ IF TerminalOf(late.operation) = None /\ Admits(late) THEN Admit(late) ELSE UNCHANGED rt
    /\ UNCHANGED <<controller, conn, faults>>

Finish ==
    /\ rt.running # None
    /\ \E o \in Outcomes(rt.running.request) :
          /\ rt' = Ended(o)
          /\ conn' = IF conn # None /\ conn.kind = "apply" /\ conn.server = rt.epoch /\ late = None
                     THEN [conn EXCEPT !.answer = TheOne(Ended(o).terminals \ rt.terminals)] ELSE conn
    /\ UNCHANGED <<controller, late, faults>>

Readiness == CASE Ready -> "ReadyForApply" [] rt.live = "RecoveryFailedNotReady" -> "RecoveryFailedNotReady"
               [] OTHER -> "ValidatedOperationalQuarantine"

ServeBootstrap ==
    /\ Waiting("bootstrap") /\ rt.running = None
    /\ conn' = [conn EXCEPT !.answer =
                   [request |-> conn.request, target |-> conn.request.target, store |-> Store, manifest |-> Manifest.digest,
                    policy |-> Provisioning.policy, epoch |-> rt.epoch, sequence |-> rt.sequence,
                    channel |-> rt.channel, key |-> ResponseKey, readiness |-> Readiness]]
    /\ UNCHANGED <<controller, late, rt, faults>>

Lookup(q) ==
    LET t == TerminalOf(q.operation) IN
    IF Owner = "OwnershipUncertain" \/ t = None THEN None
    ELSE [phase |-> "Terminal", request |-> t.request, result |-> t.result]

ServeQuery ==
    /\ Waiting("query") /\ rt.running = None
    /\ conn' = [conn EXCEPT !.answer =
                   [id |-> conn.request.id, request |-> conn.request, channel |-> rt.channel, key |-> ResponseKey,
                    serving |-> [target |-> conn.request.target, store |-> Store, epoch |-> rt.epoch,
                                 sequence |-> rt.sequence],
                    owner |-> Owner, lookup |-> Lookup(conn.request), head |-> HeadOf(rt.head), live |-> rt.live,
                    revision_high_water |-> rt.high_water]]
    /\ UNCHANGED <<controller, late, rt, faults>>

(* A restart invalidates, ends what was running and recovers a loop, or fails *)
(* to.  The new process may get the channel of the old one.                   *)
RestartOutcomes(request) ==
    IF request.mode = "OneSourceLoop" THEN {"AbortedBeforeIntentNoEffects", "AbortedBeforeHeadCommitExactZero"}
    ELSE {"AbortedBeforeIntentNoEffects", "InterruptedButNowExactZero"}

Settled == IF rt.running = None THEN {rt} ELSE {Ended(o) : o \in RestartOutcomes(rt.running.request)}

RecoveredLive(r) ==
    IF r.head = None THEN {"ExactZero"}
    ELSE IF r.head.mode = "OneSourceLoop" THEN {"LiveReady", "RecoveryFailedNotReady", "Quarantined"} ELSE {"ExactZero"}

RestartRuntime ==
    /\ rt.epoch < MaxEpoch
    /\ \E r \in Settled, ch \in Channels : \E live \in RecoveredLive(r) :
          rt' = [r EXCEPT !.epoch = rt.epoch + 1, !.sequence = @ + 2, !.channel = ch, !.live = live]
    /\ late' = None
    /\ UNCHANGED <<controller, conn, faults>>

-----------------------------------------------------------------------------
ControllerStep ==
    \/ CommitPlan \/ TenureAnswered \/ ReceiveBootstrap \/ SendApply \/ ReceiveApply
    \/ SendQuery \/ ReceiveQuery \/ CloseQuery \/ DecideQuery
RuntimeStep == ServeApply \/ ServeLate \/ Finish \/ ServeBootstrap \/ ServeQuery

Next ==
    \/ \E o \in Operations : \E u \in CardUses : CommitReferenceLoop(o, u)
    \/ \E o \in Operations : CommitReferenceEmpty(o)
    \/ AcquireTenure \/ BootstrapRuntime \/ PrepareApply \/ ReplayApply
    \/ DecideRecovered \/ CloseRecovered \/ PrepareQuery
    \/ ControllerStep \/ RuntimeStep
    \/ TenureLost \/ Lose \/ CrashController \/ RestartRuntime

Spec == Init /\ [][Next]_vars
-----------------------------------------------------------------------------
Rollouts == Range(journal.history) \union (IF journal.rollout = None THEN {} ELSE {journal.rollout})
BroughtAbout(request) == \E t \in rt.terminals : t.request = request /\ t.head = "CommittedIncoming"

(* What a command builds its own journal takes, and its file gives back, in   *)
(* whatever order commands ran, crashed and were repeated.  A command that    *)
(* finds its work done agrees with what is stored: the empty plan that was    *)
(* committed, the terminal decision a query led to.                           *)
CommandsAreAccepted ==
    /\ ~refused /\ validate(journal)
    /\ EmptyIsCommitted(journal) => validate_committed_empty_state(journal, journal.plan.commit_operation)
    /\ current_query_decision_is_terminal(journal) => validate_existing_decision(journal)

RuntimeRequests ==
    {t.request : t \in rt.terminals} \union {x.request : x \in {rt.running} \ {None}}
        \union ({late, rt.head} \ {None})

(* The journal of a rollout is true of the runtime.  Nothing reaches the      *)
(* runtime that is not in the journal first, and a plan has one request: no   *)
(* crash or repetition makes a second.  A receipt is a terminal of the        *)
(* runtime; a terminal decision, or a plan that was succeeded by another,     *)
(* means that the runtime committed that very request as its head; and a      *)
(* request the runtime has not taken yet expects the head it has.             *)
RolloutsAreTrue ==
    /\ RuntimeRequests \subseteq {r.intent.request : r \in Rollouts}
    /\ \A r, q \in Rollouts : r.intent.request.revision = q.intent.request.revision => r = q
    /\ \A r \in Rollouts :
        /\ r.direct # None => r.direct \in rt.terminals
        /\ \A i \in DOMAIN r.attempts :
              r.attempts[i].decision # None =>
                 (decision_is_terminal(r.attempts[i].decision) => BroughtAbout(r.intent.request))
        /\ r \in Range(journal.history) => BroughtAbout(r.intent.request)
        /\ \/ r.intent.request.revision <= rt.high_water
           \/ r.intent.request.expected_active = SliceOf(rt.head)

(* A terminal whose answer was lost can still be fetched: while the runtime   *)
(* is bound as ready, the stored request may be sent again and the receipt it *)
(* brings is one the journal takes, whatever queries decided meanwhile.       *)
LostAnswerIsFetchable ==
    \A t \in rt.terminals :
        (/\ journal.rollout # None /\ ~current_apply_is_terminal(journal)
         /\ t.request = journal.rollout.intent.request
         /\ journal.binding.response.readiness = "ReadyForApply") =>
            ReplayMayBeSent(journal, Provisioning) /\ record_direct_terminal_receipt(journal, t) # {}
=============================================================================
