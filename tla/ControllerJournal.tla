-------------------------- MODULE ControllerJournal --------------------------
(* The records of the controller's journal: the committed plan, the plan      *)
(* operations, the binding to a runtime, the signed apply intent, the queries *)
(* about it with their answers and decisions, the direct terminal receipt;    *)
(* then the transactions on them and the bytes they are stored as.            *)
(*                                                                            *)
(* Messages are records of the facts the journal compares; equal records are  *)
(* equal bytes, so a digest is the record it is of.  Zero is the all-zero     *)
(* identity.  Constructors are sets: empty where the code returns an error.   *)
EXTENDS Integers, Sequences, FiniteSets, StableAllocation, FiniteSetsExt, StoreCodec, SequencesExt

CONSTANTS
    None, Zero,
    MAX_CONTROLLER_LEDGER_RECORDS, MAX_CONTROLLER_TENURE_TRANSACTIONS, MAX_RECONCILE_ATTEMPTS

MAX_CONTROLLER_OPERATIONS == MAX_CONTROLLER_LEDGER_RECORDS
MAX_APPLY_OPERATION_HISTORY == (MAX_CONTROLLER_LEDGER_RECORDS - 1) \div 2

NoneZero(s) == \A i \in DOMAIN s : s[i] # Zero
LastOf(s) == s[Len(s)]

-----------------------------------------------------------------------------
(* Plans.  The plan digest covers identity, revision and content.             *)
deployment_plan_digest(scope, lineage, revision, content) ==
    <<"committed-plan", scope, lineage, revision, content.shape, content.manifest, content.subject>>

plan_commit_intent_digest(scope, lineage, expected_revision, candidate) ==
    <<"plan-commit", scope, lineage, expected_revision, candidate.content, candidate.allocation_delta>>

CommittedPlan_try_from_candidate(scope, lineage, revision, operation, intent_digest, candidate) ==
    {p \in {[revision |-> revision, target |-> candidate.content.target, content |-> candidate.content,
             digest |-> deployment_plan_digest(scope, lineage, revision, candidate.content),
             commit_operation |-> operation, commit_intent_digest |-> intent_digest]} :
        NoneZero(<<scope, lineage, operation>>) /\ revision # 0}

(* A stored plan's digests are recomputed from its content.                   *)
CommittedPlanIsSound(scope, lineage, p) ==
    /\ NoneZero(<<p.target, p.commit_operation>>) /\ p.revision # 0
    /\ p.content.target = p.target
    /\ p.digest = deployment_plan_digest(scope, lineage, p.revision, p.content)

-----------------------------------------------------------------------------
(* Plan operations.                                                           *)
operation_permits(phase, next) ==
    CASE phase = "Prepared" -> next \in {"Prepared", "Committed", "Uncertain", "Terminal"}
      [] phase = "Committed" -> next = "Committed"
      [] phase = "Uncertain" -> next \in {"Uncertain", "Terminal"}
      [] phase = "Terminal" -> next = "Terminal"

-----------------------------------------------------------------------------
(* The binding: what bootstrap said of the runtime, last.  A pin is how the   *)
(* runtime's answers on that channel are authenticated.                       *)
RuntimeResponseAuthPin_try_from_bootstrap_response(response, channel) ==
    {pin \in {[response |-> response, channel |-> channel, key |-> response.key]} :
        response.channel = channel /\ NoneZero(<<channel, response.key>>)}

TargetBinding_try_new(response, first_epoch, channel) ==
    {[target |-> response.target, store |-> response.store, manifest |-> response.manifest,
      policy |-> response.policy, first_epoch |-> first_epoch, last_epoch |-> response.epoch,
      response |-> response, auth |-> pin] :
     pin \in IF /\ NoneZero(<<response.target, response.store, response.manifest, response.policy>>)
                /\ first_epoch # 0 /\ response.epoch >= first_epoch
             THEN RuntimeResponseAuthPin_try_from_bootstrap_response(response, channel) ELSE {}}

(* The identity of the runtime never changes, its epoch never falls, and an   *)
(* epoch has one bootstrap answer.                                            *)
binding_validate_successor_of(b, previous) ==
    /\ b.target = previous.target /\ b.store = previous.store /\ b.policy = previous.policy
    /\ b.manifest = previous.manifest /\ b.first_epoch = previous.first_epoch
    /\ b.last_epoch >= previous.last_epoch
    /\ b.last_epoch = previous.last_epoch => b.response = previous.response /\ b.auth = previous.auth

-----------------------------------------------------------------------------
(* The apply intent: the signed request and the binding it was signed under.  *)
SignedApplyIntent_try_new(request, plan_digest, binding, request_auth) ==
    {i \in {[request |-> request, target |-> request.target, plan_digest |-> plan_digest,
             slice |-> request.slice, operation |-> request.operation, request_auth |-> request_auth,
             store |-> binding.store, policy |-> binding.policy, manifest |-> binding.manifest,
             auth |-> binding.auth]} :
        NoneZero(<<i.target, i.slice, i.operation, i.store, i.policy, i.manifest>>)}

-----------------------------------------------------------------------------
(* Queries.  A prepared query keeps the channel, the pin and the serving      *)
(* facts it was signed under.                                                 *)
QueryAsksFor(q, binding, request_auth, scope, intent) ==
    /\ q.id # Zero
    /\ q.target = binding.target /\ q.target = intent.target
    /\ q.scope = scope /\ q.store = binding.store
    /\ q.operation = intent.operation /\ q.expected = intent.request
    /\ q.principal = intent.request.principal /\ q.key = request_auth.key

PreparedQuery_try_new(q, binding, request_auth, scope, intent) ==
    {p \in {[request |-> q, request_auth |-> request_auth, channel |-> binding.auth.channel,
             auth |-> binding.auth,
             baseline |-> [target |-> binding.response.target, store |-> binding.response.store,
                           sequence |-> binding.response.sequence, epoch |-> binding.response.epoch]]} :
        /\ QueryAsksFor(q, binding, request_auth, scope, intent)
        /\ p.baseline.target = q.target /\ p.baseline.store = q.store
        /\ p.baseline.epoch = binding.last_epoch}

prepared_query_validate(p, binding, scope, intent) ==
    /\ QueryAsksFor(p.request, binding, p.request_auth, scope, intent)
    /\ p.auth.channel = p.channel
    /\ p.baseline.target = p.request.target /\ p.baseline.store = p.request.store
    /\ p.baseline.epoch >= binding.first_epoch /\ p.baseline.epoch <= binding.last_epoch

(* An answer is bound to its query and never precedes the baseline of it.     *)
ResponseAnswers(response, q, channel, baseline) ==
    /\ response.id = q.id /\ response.request = q /\ response.channel = channel
    /\ response.serving.target = q.target /\ response.serving.store = q.store
    /\ response.serving.epoch >= baseline.epoch
    /\ response.serving.epoch = baseline.epoch => response.serving.sequence >= baseline.sequence

QueryObservation_try_new(response, channel, p) ==
    {o \in {[response |-> response, channel |-> channel]} :
        /\ channel = p.channel /\ response.key = p.auth.key
        /\ ResponseAnswers(response, p.request, channel, p.baseline)}

query_snapshot_sequence(o) == o.response.serving.sequence

LookupIsTerminal(response) == response.lookup # None /\ response.lookup.phase = "Terminal"

-----------------------------------------------------------------------------
(* Decisions.                                                                 *)
decision_is_terminal(d) == d.observed \in {"Active", "Retired"} /\ d.receipt # None

terminal_decision_matches_observation(o, observed, receipt) ==
    LET r == o.response IN
    /\ r.owner = "Operational"
    /\ LookupIsTerminal(r) /\ r.lookup.result = receipt
    /\ \/ observed = "Active" /\ r.head.kind = "OneSourceLoop" /\ r.live = "LiveReady"
       \/ observed = "Retired" /\ r.head.kind = "EmptyDeactivate" /\ r.live = "ExactZero"

RolloutDecision_try_new(o, observed, receipt) ==
    {d \in {[id |-> o.response.id, sequence |-> query_snapshot_sequence(o), observed |-> observed,
             receipt |-> receipt]} :
        /\ receipt # Zero
        /\ (observed \in {"Active", "Retired"}) = (receipt # None)
        /\ receipt # None => terminal_decision_matches_observation(o, observed, receipt)}

attempt_is_sound(a) ==
    /\ a.closure # None => a.observation = None /\ a.decision = None
    /\ a.decision # None =>
          /\ a.observation # None
          /\ a.decision.id = a.observation.response.id
          /\ a.decision.sequence = query_snapshot_sequence(a.observation)
          /\ decision_is_terminal(a.decision) =>
                terminal_decision_matches_observation(a.observation, a.decision.observed, a.decision.receipt)

(* Closed without an answer, or answered and decided.                         *)
is_closed_without_response(a) == a.closure # None
AttemptIsFinished(a) == is_closed_without_response(a) \/ (a.observation # None /\ a.decision # None)

-----------------------------------------------------------------------------
(* The direct terminal receipt of an apply.                                   *)
DirectTerminalReceipt_try_new(receipt, intent) ==
    {r \in {receipt} :
        /\ r.channel = intent.auth.channel /\ r.key = intent.auth.key
        /\ r.target = intent.target /\ r.store = intent.store /\ r.store = intent.request.store
        /\ r.operation = intent.operation /\ r.request = intent.request
        /\ r.result # Zero}

direct_terminal_is_success(direct, intent) ==
    /\ direct.head = "CommittedIncoming" /\ direct.desired_head = intent.slice
    /\ \/ intent.request.mode = "OneSourceLoop" /\ direct.outcome = "OneSourceLoopActive"
          /\ direct.effect = "MayHaveStarted"
       \/ intent.request.mode = "EmptyDeactivate" /\ direct.outcome = "EmptyDeactivateExactZero"

direct_terminal_decision_matches(direct, d) ==
    /\ \/ direct.outcome = "OneSourceLoopActive" /\ d.observed = "Active"
       \/ direct.outcome = "EmptyDeactivateExactZero" /\ d.observed = "Retired"
    /\ d.receipt = direct.result

(* The operation completed in the epoch the query saw, after the query.       *)
direct_follows_query_observation(direct, a) ==
    /\ a.observation # None
    /\ LET serving == a.observation.response.serving
           q == a.prepared.request
       IN  /\ q.target = direct.target /\ q.store = direct.store
           /\ q.operation = direct.operation /\ q.expected = direct.request
           /\ serving.target = direct.target /\ serving.store = direct.store
           /\ serving.epoch = direct.epoch /\ serving.sequence < direct.sequence

direct_follows_prepared_query(direct, a) ==
    /\ a.observation # None => a.decision.sequence = query_snapshot_sequence(a.observation)
    /\ direct_follows_query_observation(direct, a)

attempt_has_conflicting_terminal_observation(direct, a) ==
    /\ a.observation # None /\ LookupIsTerminal(a.observation.response)
    /\ a.observation.response.lookup.result # direct.result

terminal_attempt_matches_current_direct(direct, a, current_epoch) ==
    /\ a.observation # None /\ a.decision # None
    /\ decision_is_terminal(a.decision) /\ direct_terminal_decision_matches(direct, a.decision)
    /\ LET serving == a.observation.response.serving
       IN  /\ serving.epoch >= current_epoch
           /\ serving.epoch = direct.epoch => serving.sequence >= direct.sequence

terminal_query_decision_is_current(a, binding) ==
    /\ a.decision # None /\ decision_is_terminal(a.decision)
    /\ a.observation # None /\ a.observation.response.serving.epoch >= binding.last_epoch

-----------------------------------------------------------------------------
(* A rollout: the intent, its direct receipt, the attempts to reconcile it.   *)
has_conflicting_terminal_observation(r) ==
    /\ r.direct # None
    /\ \E i \in DOMAIN r.attempts : attempt_has_conflicting_terminal_observation(r.direct, r.attempts[i])

LastDecision(r) == IF r.attempts = <<>> THEN None ELSE LastOf(r.attempts).decision

rollout_is_terminal(r) ==
    r.direct # None \/ (LastDecision(r) # None /\ decision_is_terminal(LastDecision(r)))

ObservedBefore(attempts, i) == {j \in 1..(i - 1) : attempts[j].observation # None}

MutDirectAgreesWithDecision(direct, a) == direct_terminal_decision_matches(direct, a.decision)

(* Direct evidence and the last decision agree, or the receipt came later.    *)
DirectAgreesWithDecision(direct, a) ==
    /\ decision_is_terminal(a.decision) => direct_terminal_decision_matches(direct, a.decision)
    /\ a.decision.observed = "Prepared" => direct_follows_prepared_query(direct, a)

rollout_validate(r) ==
    /\ Len(r.attempts) <= MAX_RECONCILE_ATTEMPTS
    /\ \A i \in DOMAIN r.attempts :
          /\ attempt_is_sound(r.attempts[i])
          /\ \A j \in DOMAIN r.attempts : r.attempts[i].prepared.request.id = r.attempts[j].prepared.request.id => i = j
          /\ r.attempts[i].observation # None => \A j \in ObservedBefore(r.attempts, i) :
                query_snapshot_sequence(r.attempts[j].observation) <= query_snapshot_sequence(r.attempts[i].observation)
          /\ i # Len(r.attempts) => AttemptIsFinished(r.attempts[i])
    /\ r.direct # None =>
          /\ LastDecision(r) # None => DirectAgreesWithDecision(r.direct, LastOf(r.attempts))
          /\ \A i \in DOMAIN r.attempts : r.attempts[i].decision # None =>
                ~attempt_has_conflicting_terminal_observation(r.direct, r.attempts[i])

(* Whether the plan this rollout applied may be succeeded by another.         *)
rollout_permits_plan_advance(r, binding) ==
    /\ ~has_conflicting_terminal_observation(r)
    /\ IF r.direct = None
       THEN r.attempts # <<>> /\ terminal_query_decision_is_current(LastOf(r.attempts), binding)
       ELSE /\ direct_terminal_is_success(r.direct, r.intent)
            /\ r.direct.epoch <= binding.last_epoch
            /\ \/ r.direct.epoch = binding.last_epoch /\ r.attempts = <<>>
               \/ /\ r.attempts # <<>>
                  /\ LET latest == LastOf(r.attempts)
                     IN  /\ latest.closure = None /\ latest.observation # None /\ latest.decision # None
                         /\ \/ /\ r.direct.epoch = binding.last_epoch
                               /\ direct_follows_query_observation(r.direct, latest)
                            \/ terminal_attempt_matches_current_direct(r.direct, latest, binding.last_epoch)

-----------------------------------------------------------------------------
(* The controller's journal: one record, replaced whole by every commit.      *)
(* Each operation gives the records it may lead to, none for an error; a      *)
(* commit writes one of them after validate_successor_of, and a restart reads *)
(* it back through validate.  Operations and tenure transactions are sets:    *)
(* the code keeps them sorted by their unique identity.                       *)

TheOne(S) == CHOOSE x \in S : TRUE
OrNone(S) == IF S = {} THEN None ELSE TheOne(S)

operation_record(s, operation) == OrNone({o \in s.operations : o.operation = operation})
current_revision(s) == IF s.plan = None THEN 0 ELSE s.plan.revision

JournalState_try_initialize(scope, lineage, manifest, auth) ==
    [scope |-> scope, lineage |-> lineage, manifest |-> manifest,
     allocation |-> [target |-> manifest.target, generation |-> 0, high_water |-> 0, records |-> {}],
     plan |-> None, operations |-> {}, tenure |-> {}, auth |-> auth, binding |-> None, high_water |-> 0,
     rollout |-> None, history |-> <<>>]

is_exact_fresh(s) ==
    s = JournalState_try_initialize(s.scope, s.lineage, s.manifest, s.auth)

-----------------------------------------------------------------------------
(* Plan operations.                                                           *)
validate_candidate_identity(s, candidate) ==
    /\ candidate.content.target = s.allocation.target
    /\ candidate.content.target = s.manifest.target
    /\ candidate.content.manifest = s.manifest.digest
    /\ s.binding # None =>
          s.binding.target = candidate.content.target /\ s.binding.manifest = candidate.content.manifest

Unchanged(s) == {s}

prepare_plan_candidate(s, operation, candidate) ==
    LET existing == operation_record(s, operation)
        intent == plan_commit_intent_digest(s.scope, s.lineage,
                      IF existing = None THEN current_revision(s) ELSE existing.expected_revision, candidate)
    IN  IF ~validate_candidate_identity(s, candidate) THEN {}
        ELSE IF existing # None THEN IF existing.intent_digest = intent THEN Unchanged(s) ELSE {}
        ELSE IF \/ apply_delta(s.allocation, candidate.allocation_delta) = {}
                \/ Cardinality(s.operations) >= MAX_CONTROLLER_OPERATIONS
        THEN {}
        ELSE {[s EXCEPT !.operations = @ \union {[operation |-> operation, intent_digest |-> intent,
                  expected_revision |-> current_revision(s), phase |-> "Prepared", result |-> None,
                  generation |-> None, plan_digest |-> None]}]}

allocation_matches_delta_result(allocation, delta) ==
    /\ allocation.generation = delta.next_generation
    /\ allocation.high_water = delta.resulting_high_water
    /\ delta.records \subseteq allocation.records

(* The rollout of the plan that is left becomes history.                      *)
apply_history_for_plan_commit(s) ==
    IF s.rollout = None THEN {s.history}
    ELSE IF /\ s.binding # None
            /\ rollout_permits_plan_advance(s.rollout, s.binding)
            /\ Len(s.history) < MAX_APPLY_OPERATION_HISTORY
            /\ \A i \in DOMAIN s.history :
                  /\ s.history[i].intent.operation # s.rollout.intent.operation
                  /\ s.history[i].intent.request # s.rollout.intent.request
         THEN {Append(s.history, s.rollout)}
         ELSE {}

UnresolvedAtCurrentRevision(s, operation) ==
    {o \in s.operations : /\ o.operation # operation /\ o.phase \in {"Prepared", "Uncertain"}
                          /\ o.expected_revision = current_revision(s)}

CommittedFrom(s, operation, record, candidate) ==
    {[s EXCEPT !.allocation = a, !.plan = p, !.rollout = None, !.history = h,
               !.operations = (@ \ {record}) \union
                   {[record EXCEPT !.phase = "Committed", !.generation = a.generation,
                                   !.plan_digest = p.digest]}] :
     h \in apply_history_for_plan_commit(s),
     a \in apply_delta(s.allocation, candidate.allocation_delta),
     p \in CommittedPlan_try_from_candidate(s.scope, s.lineage, record.expected_revision + 1, operation,
               record.intent_digest, candidate)}

(* A commit that is repeated is a no-op while nothing came after it.          *)
commit_plan_candidate(s, operation, candidate) ==
    LET record == operation_record(s, operation)
    IN  IF \/ ~validate_candidate_identity(s, candidate)
           \/ record = None
        THEN {}
        ELSE IF record.intent_digest # plan_commit_intent_digest(s.scope, s.lineage, record.expected_revision, candidate)
        THEN {}
        ELSE IF record.phase # "Prepared"
        THEN IF /\ current_revision(s) = record.expected_revision + 1
                /\ \E p \in CommittedPlan_try_from_candidate(s.scope, s.lineage, current_revision(s), operation,
                               record.intent_digest, candidate) : s.plan = p
                /\ allocation_matches_delta_result(s.allocation, candidate.allocation_delta)
             THEN Unchanged(s) ELSE {}
        ELSE IF \/ current_revision(s) # record.expected_revision
                \/ UnresolvedAtCurrentRevision(s, operation) # {}
        THEN {} ELSE CommittedFrom(s, operation, record, candidate)

validate_operation(o) ==
    /\ NoneZero(<<o.operation, o.result>>)
    /\ (o.phase \in {"Uncertain", "Terminal"}) = (o.result # None)
    /\ (o.phase = "Committed") = (o.generation # None)
    /\ (o.phase = "Committed") = (o.plan_digest # None)

-----------------------------------------------------------------------------
(* Tenure.                                                                    *)
tenure_transaction(s, operation) == OrNone({t \in s.tenure : t.request.operation = operation})

tenure_permits(phase, next) ==
    \/ phase = "Prepared"
    \/ phase = "Uncertain" /\ next \in {"Uncertain", "Committed"}
    \/ phase = "Committed" /\ next = "Committed"

current_unresolved_tenure_transaction(s) == OrNone({t \in s.tenure : t.phase # "Committed"})
CommittedTenures(s) == {t \in s.tenure : t.phase = "Committed"}

SharesTenureIdentity(t, request) ==
    t.request.operation = request.operation \/ t.request.nonce = request.nonce

prepare_tenure_acquisition(s, request, domain) ==
    LET same == {t \in s.tenure : SharesTenureIdentity(t, request)}
    IN  IF request.scope # s.scope THEN {}
        ELSE IF same # {}
        THEN IF \A t \in same : t.request = request /\ t.domain = domain THEN Unchanged(s) ELSE {}
        ELSE IF \/ Cardinality(s.tenure) >= MAX_CONTROLLER_TENURE_TRANSACTIONS
                \/ current_unresolved_tenure_transaction(s) # None
        THEN {}
        ELSE {[s EXCEPT !.tenure = @ \union
                  {[request |-> request, domain |-> domain, phase |-> "Prepared", response |-> None]}]}

mark_tenure_uncertain(s, request) ==
    LET t == tenure_transaction(s, request.operation)
    IN  IF t = None THEN {}
        ELSE IF t.request # request \/ ~tenure_permits(t.phase, "Uncertain") THEN {}
        ELSE {[s EXCEPT !.tenure = (@ \ {t}) \union {[t EXCEPT !.phase = "Uncertain"]}]}

(* A new epoch lies above every committed one and supersedes them all.        *)
validate_new_tenure_proof_successor(tenure, operation, proof) ==
    \A t \in tenure : (t.request.operation # operation /\ t.phase = "Committed") =>
        proof.epoch > t.response.proof.epoch /\ proof.supersedes >= t.response.proof.epoch

commit_tenure_response(s, response) ==
    LET t == tenure_transaction(s, response.request.operation)
    IN  IF t = None THEN {}
        ELSE IF t.request # response.request THEN {}
        ELSE IF t.phase = "Committed" THEN IF t.response = response THEN Unchanged(s) ELSE {}
        ELSE IF ~validate_new_tenure_proof_successor(s.tenure, t.request.operation, response.proof) THEN {}
        ELSE {[s EXCEPT !.tenure = (@ \ {t}) \union {[t EXCEPT !.phase = "Committed", !.response = response]}]}

global_latest_committed_tenure_transaction(s) ==
    OrNone({t \in CommittedTenures(s) :
            \A u \in CommittedTenures(s) : u.response.proof.epoch <= t.response.proof.epoch})

(* Only the latest tenure counts, and only when it is this writer's.          *)
latest_committed_tenure_proof(s, writer) ==
    LET t == global_latest_committed_tenure_transaction(s)
    IN  IF t = None THEN None
        ELSE IF t.response.proof.writer = writer THEN t.response.proof ELSE None

contains_committed_tenure_proof(s, proof) == latest_committed_tenure_proof(s, proof.writer) = proof

-----------------------------------------------------------------------------
(* The binding and the intent.                                                *)
record_target_binding(s, binding) ==
    IF s.plan = None THEN {}
    ELSE IF /\ binding.target = s.allocation.target /\ binding.target = s.plan.target
            /\ binding.manifest = s.manifest.digest /\ binding.manifest = s.plan.content.manifest
            /\ s.binding # None => binding_validate_successor_of(binding, s.binding)
         THEN {[s EXCEPT !.binding = binding]} ELSE {}

validate_auth_successor(auth, previous) ==
    /\ auth.generation >= previous.generation
    /\ auth.generation = previous.generation => auth = previous

SameApplyIdentity(r, intent) == r.intent.operation = intent.operation \/ r.intent.request = intent.request
KnownRollouts(s) == {s.history[i] : i \in DOMAIN s.history} \union (IF s.rollout = None THEN {} ELSE {s.rollout})

MatchesBinding(intent, target, binding) ==
    /\ intent.target = target /\ intent.target = binding.target /\ intent.store = binding.store
    /\ intent.policy = binding.policy /\ intent.manifest = binding.manifest

(* One intent per plan, recorded before it is sent.                           *)
record_signed_apply_intent(s, intent) ==
    IF s.plan = None \/ s.binding = None THEN {}
    ELSE IF \E r \in KnownRollouts(s) : SameApplyIdentity(r, intent)
    THEN IF \E r \in KnownRollouts(s) : r.intent = intent THEN Unchanged(s) ELSE {}
    ELSE IF /\ s.rollout = None
            /\ MatchesBinding(intent, s.plan.target, s.binding)
            /\ intent.plan_digest = s.plan.digest /\ intent.request_auth = s.auth
            /\ intent.auth = s.binding.auth
         THEN {[s EXCEPT !.rollout = [intent |-> intent, direct |-> None, attempts |-> <<>>]]}
         ELSE {}

record_direct_terminal_receipt(s, receipt) ==
    IF s.rollout = None THEN {}
    ELSE UNION {IF s.rollout.direct # None THEN IF s.rollout.direct = r THEN Unchanged(s) ELSE {}
                ELSE LET next == [s.rollout EXCEPT !.direct = r]
                     IN  IF rollout_validate(next) THEN {[s EXCEPT !.rollout = next]} ELSE {} :
                r \in DirectTerminalReceipt_try_new(receipt, s.rollout.intent)}

-----------------------------------------------------------------------------
(* Queries.                                                                   *)
SharesQueryIdentity(a, q) == a.prepared.request.id = q.id \/ a.prepared.request.nonce = q.nonce
AttemptsOf(r) == {r.attempts[i] : i \in DOMAIN r.attempts}

LatestAttempt(s) ==
    IF s.rollout = None THEN None ELSE IF s.rollout.attempts = <<>> THEN None ELSE LastOf(s.rollout.attempts)

MutPrepareQueryRequest(s, q) ==
    IF s.rollout = None \/ s.binding = None THEN {}
    ELSE {[s EXCEPT !.rollout.attempts =
              Append(@, [prepared |-> p, observation |-> None, decision |-> None, closure |-> None])] :
          p \in PreparedQuery_try_new(q, s.binding, s.auth, s.scope, s.rollout.intent)}

prepare_query_request(s, q) ==
    IF s.rollout = None \/ s.binding = None THEN {}
    ELSE LET latest == LatestAttempt(s) IN
    UNION {
        IF \E i \in DOMAIN s.history : \E a \in AttemptsOf(s.history[i]) : SharesQueryIdentity(a, q) THEN {}
        ELSE IF \E a \in AttemptsOf(s.rollout) : SharesQueryIdentity(a, q)
        THEN IF latest.prepared = p /\ latest.closure = None THEN Unchanged(s) ELSE {}
        ELSE IF \/ latest # None /\ (~AttemptIsFinished(latest) \/ terminal_query_decision_is_current(latest, s.binding))
                \/ Len(s.rollout.attempts) >= MAX_RECONCILE_ATTEMPTS
        THEN {}
        ELSE {[s EXCEPT !.rollout.attempts =
                  Append(@, [prepared |-> p, observation |-> None, decision |-> None, closure |-> None])]} :
        p \in PreparedQuery_try_new(q, s.binding, s.auth, s.scope, s.rollout.intent)}

UpdateLatest(s, a) == [s EXCEPT !.rollout.attempts = [@ EXCEPT ![Len(@)] = a]]

(* The sequence of the runtime's snapshots never falls from answer to answer. *)
record_query_response(s, response, channel) ==
    LET a == LatestAttempt(s) IN
    IF a = None THEN {}
    ELSE IF a.closure # None \/ a.prepared.request.id # response.id THEN {}
    ELSE UNION {
        IF a.observation # None THEN IF a.observation = o THEN Unchanged(s) ELSE {}
        ELSE IF query_snapshot_sequence(o) < s.high_water THEN {}
        ELSE {[UpdateLatest(s, [a EXCEPT !.observation = o]) EXCEPT !.high_water = query_snapshot_sequence(o)]} :
        o \in QueryObservation_try_new(response, channel, a.prepared)}

record_query_closure(s, id, closure) ==
    LET a == LatestAttempt(s) IN
    IF a = None THEN {}
    ELSE IF a.prepared.request.id # id \/ a.observation # None \/ a.decision # None THEN {}
    ELSE IF a.closure # None THEN IF a.closure = closure THEN Unchanged(s) ELSE {}
    ELSE {UpdateLatest(s, [a EXCEPT !.closure = closure])}

record_rollout_decision(s, observed, receipt) ==
    LET a == LatestAttempt(s) IN
    IF a = None THEN {}
    ELSE IF a.closure # None \/ a.observation = None \/ has_conflicting_terminal_observation(s.rollout) THEN {}
    ELSE UNION {
        IF a.decision # None THEN IF a.decision = d THEN Unchanged(s) ELSE {}
        ELSE LET decided == [a EXCEPT !.decision = d] IN
             IF s.rollout.direct # None => DirectAgreesWithDecision(s.rollout.direct, decided)
             THEN {UpdateLatest(s, decided)} ELSE {} :
        d \in RolloutDecision_try_new(a.observation, observed, receipt)}

-----------------------------------------------------------------------------
(* What the commands read.                                                    *)
current_apply_is_terminal(s) == s.rollout # None /\ rollout_is_terminal(s.rollout)

current_query_decision_is_terminal(s) ==
    /\ LatestAttempt(s) # None /\ s.binding # None
    /\ terminal_query_decision_is_current(LatestAttempt(s), s.binding)

TerminalLastDecision(r) == LastDecision(r) # None /\ decision_is_terminal(LastDecision(r))
LastObservedHead(r) == LastOf(r.attempts).observation.response.head

ActiveSliceOf(r) ==
    IF TerminalLastDecision(r) /\ LastDecision(r).observed = "Active" /\ LastObservedHead(r).kind = "OneSourceLoop"
    THEN LastObservedHead(r).slice
    ELSE IF r.direct = None THEN None
    ELSE IF direct_terminal_is_success(r.direct, r.intent) /\ r.direct.outcome = "OneSourceLoopActive"
    THEN r.direct.desired_head ELSE None

current_active_target_slice_digest_for_plan_advance(s) ==
    IF s.rollout = None \/ s.binding = None THEN None
    ELSE IF rollout_permits_plan_advance(s.rollout, s.binding) THEN ActiveSliceOf(s.rollout) ELSE None

last_archived_active_target_slice_digest(s) ==
    IF s.history = <<>> THEN None ELSE ActiveSliceOf(LastOf(s.history))

(* The slice the last archived rollout left at the runtime: what a new apply  *)
(* expects to find there.                                                     *)
last_terminal_target_slice_digest(s) ==
    IF s.history = <<>> THEN None
    ELSE LET r == LastOf(s.history)
         IN  IF TerminalLastDecision(r) THEN LastObservedHead(r).slice
             ELSE IF r.direct = None THEN None
             ELSE IF direct_terminal_is_success(r.direct, r.intent) THEN r.direct.desired_head ELSE None

-----------------------------------------------------------------------------
(* validate: what a stored record must satisfy to be read.                    *)
CommittedOperations(s) == {o \in s.operations : o.phase = "Committed"}

UniqueIn(S, Field(_)) == Cardinality({Field(x) : x \in S}) = Cardinality(S)

(* Committed operations are the revisions, one each, and walk the allocation  *)
(* generations by at most one.                                                *)
validate_operations(s) ==
    LET committed == CommittedOperations(s)
        At(r) == TheOne({o \in committed : o.expected_revision = r})
        GenerationBefore(r) == IF r = 0 THEN 0 ELSE At(r - 1).generation
    IN  /\ UniqueIn(s.operations, LAMBDA o : o.operation)
        /\ \A o \in s.operations :
              /\ validate_operation(o)
              /\ o.phase \in {"Prepared", "Uncertain"} => o.expected_revision = current_revision(s)
              /\ o.phase = "Terminal" => o.expected_revision <= current_revision(s)
        /\ UniqueIn(committed, LAMBDA o : o.plan_digest)
        /\ {o.expected_revision : o \in committed} = 0..(current_revision(s) - 1)
        /\ Cardinality(committed) = current_revision(s)
        /\ \A r \in 0..(current_revision(s) - 1) :
              At(r).generation \in {GenerationBefore(r), GenerationBefore(r) + 1}
        /\ GenerationBefore(current_revision(s)) = s.allocation.generation

validate_tenure_transactions(s) ==
    /\ UniqueIn(s.tenure, LAMBDA t : t.request.operation) /\ UniqueIn(s.tenure, LAMBDA t : t.request.nonce)
    /\ \A t \in s.tenure :
          /\ NoneZero(<<t.domain>>) /\ t.request.scope = s.scope
          /\ (t.phase = "Committed") = (t.response # None)
          /\ t.response # None => t.response.request = t.request
    /\ \A t, u \in CommittedTenures(s) :
          t.response.proof.epoch = u.response.proof.epoch => t.response.proof = u.response.proof
    /\ Cardinality({t \in s.tenure : t.phase # "Committed"}) <= 1

validate_plan_allocation_coherence(plan, allocation) ==
    LET live == LiveRecords(allocation) IN
    \/ plan.content.shape = "EmptyTarget" /\ live = {}
    \/ /\ plan.content.shape = "OneSourceLoop" /\ Cardinality(live) = 1
       /\ \A r \in live : plan.content.subject = [key |-> r.key, instance |-> r.instance, domain |-> r.domain]

validate_plan(s) ==
    IF s.plan = None
    THEN /\ s.allocation.generation = 0 /\ s.allocation.high_water = 0 /\ s.allocation.records = {}
         /\ CommittedOperations(s) = {}
    ELSE /\ s.plan.target = s.allocation.target /\ s.plan.content.manifest = s.manifest.digest
         /\ CommittedPlanIsSound(s.scope, s.lineage, s.plan)
         /\ \E o \in s.operations :
               /\ o.operation = s.plan.commit_operation /\ o.intent_digest = s.plan.commit_intent_digest
               /\ o.expected_revision + 1 = s.plan.revision /\ o.phase = "Committed"
               /\ o.generation = s.allocation.generation /\ o.plan_digest = s.plan.digest
         /\ validate_plan_allocation_coherence(s.plan, s.allocation)

(* A terminal decision speaks of this plan: its revision, slice and manifest. *)
validate_terminal_decision_context(s, r, revision, shape) ==
    \A a \in AttemptsOf(r) : (a.decision # None /\ decision_is_terminal(a.decision)) =>
        LET mode == IF a.decision.observed = "Active" THEN "OneSourceLoop" ELSE "EmptyDeactivate"
            response == a.observation.response
            i == r.intent
        IN  /\ shape = None \/ (shape = "OneSourceLoop") = (mode = "OneSourceLoop")
            /\ i.request.target = i.target /\ i.request.slice = i.slice /\ i.request.store = i.store
            /\ i.request.revision = revision /\ i.request.plan_digest = i.plan_digest
            /\ i.request.operation = i.operation /\ i.request.mode = mode /\ i.request.manifest = i.manifest
            /\ a.prepared.request.expected = i.request /\ a.prepared.request.principal = i.request.principal
            /\ LookupIsTerminal(response) /\ response.lookup.request = i.request
            /\ response.revision_high_water = revision
            /\ response.head = [kind |-> mode, revision |-> revision, slice |-> i.slice, manifest |-> i.manifest]

(* A query after a terminal decision is about a later epoch of the runtime.   *)
validate_rollout_query_lineage(s, r) ==
    \A k \in DOMAIN r.attempts :
        LET a == r.attempts[k] IN
        /\ prepared_query_validate(a.prepared, s.binding, s.scope, r.intent)
        /\ a.observation # None =>
              a.observation \in QueryObservation_try_new(a.observation.response, a.observation.channel, a.prepared)
        /\ (k # Len(r.attempts) /\ a.decision # None /\ decision_is_terminal(a.decision)) =>
              /\ a.observation.response.serving.epoch < s.binding.last_epoch
              /\ r.attempts[k + 1].prepared.baseline.epoch > a.observation.response.serving.epoch

AttemptPairs(s) ==
    UNION {{<<r.intent.operation, i>> : i \in DOMAIN r.attempts} : r \in KnownRollouts(s)}
AttemptAt(s, p) == TheOne({r \in KnownRollouts(s) : r.intent.operation = p[1]}).attempts[p[2]]

QueryIdentitiesUnique(s) ==
    \A p, q \in AttemptPairs(s) : p # q => ~SharesQueryIdentity(AttemptAt(s, p), AttemptAt(s, q).prepared.request)

ObservedSequences(s) ==
    {query_snapshot_sequence(a.observation) :
     a \in {b \in UNION {AttemptsOf(r) : r \in KnownRollouts(s)} : b.observation # None}}

RevisionOf(s, r) ==
    OrNone({o.expected_revision + 1 : o \in {o \in CommittedOperations(s) : o.plan_digest = r.intent.plan_digest}})

validate_apply_history(s) ==
    LET revisions == [i \in DOMAIN s.history |-> RevisionOf(s, s.history[i])] IN
    /\ \A i \in DOMAIN s.history :
          LET r == s.history[i] IN
          /\ ~has_conflicting_terminal_observation(r) /\ rollout_is_terminal(r)
          /\ revisions[i] # None
          /\ revisions[i] < current_revision(s)
          /\ i > 1 => revisions[i - 1] < revisions[i]
          /\ validate_terminal_decision_context(s, r, revisions[i], None)
    /\ s.rollout # None => validate_terminal_decision_context(s, s.rollout, current_revision(s), s.plan.content.shape)
    /\ \A r \in KnownRollouts(s) :
          /\ rollout_validate(r)
          /\ s.binding # None
          /\ MatchesBinding(r.intent, s.allocation.target, s.binding)
          /\ validate_rollout_query_lineage(s, r)
    /\ Cardinality({r.intent.operation : r \in KnownRollouts(s)}) = Len(s.history) + Cardinality({s.rollout} \ {None})
    /\ Cardinality({r.intent.request : r \in KnownRollouts(s)}) = Cardinality({r.intent.operation : r \in KnownRollouts(s)})
    /\ QueryIdentitiesUnique(s)
    /\ s.high_water = IF ObservedSequences(s) = {} THEN 0 ELSE GreatestOf(ObservedSequences(s))

validate_binding(s) ==
    s.binding # None =>
        /\ s.plan # None
        /\ s.binding.target = s.allocation.target /\ s.binding.target = s.manifest.target
        /\ s.binding.manifest = s.manifest.digest

validate(s) ==
    /\ NoneZero(<<s.scope, s.lineage>>)
    /\ s.allocation.target = s.manifest.target
    /\ Cardinality(s.operations) <= MAX_CONTROLLER_OPERATIONS
    /\ Cardinality(s.tenure) <= MAX_CONTROLLER_TENURE_TRANSACTIONS
    /\ Len(s.history) <= MAX_APPLY_OPERATION_HISTORY
    /\ Cardinality(s.operations) + Len(s.history) + (IF s.rollout = None THEN 0 ELSE 1) <= MAX_CONTROLLER_LEDGER_RECORDS
    /\ s.history # <<>> => Len(s.history) <= current_revision(s) - 1
    /\ s.auth.generation # 0 /\ NoneZero(<<s.auth.key>>)
    /\ validate_plan(s) /\ validate_operations(s) /\ validate_tenure_transactions(s)
    /\ validate_binding(s)
    /\ s.rollout # None => s.plan # None /\ s.binding # None
    /\ validate_apply_history(s)
    /\ s.rollout # None => s.rollout.intent.plan_digest = s.plan.digest

-----------------------------------------------------------------------------
(* validate_successor_of: what one commit may change.                         *)
OnlyWhenCommitted(old, new, before, after) ==
    before # after => old.phase = "Prepared" /\ new.phase = "Committed" /\ before = None /\ after # None

validate_operation_successors(s, previous) ==
    /\ \A old \in previous.operations : \E new \in s.operations :
          /\ new.operation = old.operation /\ new.intent_digest = old.intent_digest
          /\ new.expected_revision = old.expected_revision
          /\ OnlyWhenCommitted(old, new, old.generation, new.generation)
          /\ OnlyWhenCommitted(old, new, old.plan_digest, new.plan_digest)
          /\ operation_permits(old.phase, new.phase)
          /\ old.result # None => new.result = old.result
    /\ \A new \in s.operations : (\A old \in previous.operations : old.operation # new.operation) =>
          new.phase = "Prepared" /\ new.expected_revision = current_revision(previous)

validate_tenure_transaction_successors(s, previous) ==
    /\ \A old \in previous.tenure : \E new \in s.tenure :
          /\ new.request = old.request /\ new.domain = old.domain
          /\ tenure_permits(old.phase, new.phase)
          /\ old.phase = new.phase => old = new
          /\ (old.phase # "Committed" /\ new.phase = "Committed") =>
                validate_new_tenure_proof_successor(previous.tenure, new.request.operation, new.response.proof)
    /\ \A new \in s.tenure : (\A old \in previous.tenure : old.request.operation # new.request.operation) =>
          new.phase = "Prepared"

validate_plan_operation_transition(s, previous) ==
    /\ s.plan.revision = current_revision(previous) + 1
    /\ \E old \in previous.operations, new \in s.operations :
          /\ old.operation = s.plan.commit_operation /\ new.operation = s.plan.commit_operation
          /\ old.phase = "Prepared" /\ new.phase = "Committed"
          /\ old.intent_digest = s.plan.commit_intent_digest
          /\ old.expected_revision = current_revision(previous)
          /\ new.generation = s.allocation.generation /\ new.plan_digest = s.plan.digest

validate_apply_history_successor(s, previous) ==
    IF s.plan = previous.plan THEN s.history = previous.history
    ELSE /\ s.rollout = None
         /\ IF previous.rollout = None THEN s.history = previous.history
            ELSE /\ s.history = Append(previous.history, previous.rollout)
                 /\ rollout_permits_plan_advance(previous.rollout, s.binding)

NothingYet(a) == a.observation = None /\ a.closure = None /\ a.decision = None

(* A commit answers, closes or decides the latest query, or adds one.         *)
LatestAttemptAdvances(old, new) ==
    /\ old.prepared = new.prepared /\ old.decision = None /\ old.closure = None
    /\ \/ old.observation = None /\ new.observation # None /\ new.closure = None /\ new.decision = None
       \/ old.observation = None /\ new.observation = None /\ new.closure # None /\ new.decision = None
       \/ old.observation # None /\ new.observation = old.observation /\ new.closure = None /\ new.decision # None

AttemptFollows(last, new, binding) ==
    /\ AttemptIsFinished(last)
    /\ (last.decision # None /\ decision_is_terminal(last.decision)) =>
          /\ ~terminal_query_decision_is_current(last, binding)
          /\ new.prepared.baseline.epoch > last.observation.response.serving.epoch

validate_rollout_successor(s, previous) ==
    LET old == previous.rollout
        new == s.rollout
    IN  IF s.plan # previous.plan THEN new = None
        ELSE IF old = None THEN new # None => new.direct = None /\ new.attempts = <<>>
        ELSE IF new = old THEN TRUE
        ELSE /\ new # None
             /\ new.intent = old.intent
             /\ rollout_validate(new)
             /\ LET n == Len(old.attempts) IN
                \/ old.direct = None /\ new.direct # None /\ new.attempts = old.attempts
                \/ /\ new.direct = old.direct /\ n > 0 /\ Len(new.attempts) = n
                   /\ SubSeq(new.attempts, 1, n - 1) = SubSeq(old.attempts, 1, n - 1)
                   /\ LatestAttemptAdvances(old.attempts[n], new.attempts[n])
                \/ /\ new.direct = old.direct /\ Len(new.attempts) = n + 1
                   /\ SubSeq(new.attempts, 1, n) = old.attempts
                   /\ NothingYet(new.attempts[n + 1])
                   /\ n > 0 => AttemptFollows(old.attempts[n], new.attempts[n + 1], s.binding)

validate_successor_of(s, previous) ==
    /\ s.scope = previous.scope /\ s.lineage = previous.lineage /\ s.manifest = previous.manifest
    /\ allocation_validate_successor_of(s.allocation, previous.allocation)
    /\ validate_operation_successors(s, previous)
    /\ validate_tenure_transaction_successors(s, previous)
    /\ validate_auth_successor(s.auth, previous.auth)
    /\ s.high_water >= previous.high_water
    /\ previous.binding # None => s.binding # None /\ binding_validate_successor_of(s.binding, previous.binding)
    /\ previous.plan # None => s.plan # None
    /\ IF s.plan # previous.plan THEN validate_plan_operation_transition(s, previous)
       ELSE s.allocation = previous.allocation
    /\ (previous.rollout = None /\ s.rollout # None) => previous.binding # None /\ s.auth = previous.auth
    /\ validate_apply_history_successor(s, previous)
    /\ validate_rollout_successor(s, previous)
    /\ validate(s)

-----------------------------------------------------------------------------
(* The file of the controller's journal, payload version 8, and what is left  *)
(* of version 7.  Writers and readers are translated one by one; a digest     *)
(* field is the value it is a digest of, a message body that value again with *)
(* a length that does not matter.                                             *)

CONSTANTS BodyBytes, MAX_CONTROLLER_SNAPSHOT_BYTES

JOURNAL_HEADER_WITHOUT_CHECKSUM_BYTES == 4 + 5 * 2 + 32 + 32 + 2 * 8
JOURNAL_HEADER_BYTES == JOURNAL_HEADER_WITHOUT_CHECKSUM_BYTES + 32
CONTROLLER_PAYLOAD_VERSION == 8
CONTROLLER_LEGACY_PAYLOAD_VERSION == 7
QUERY_CHANNEL_BINDING_BYTES == 16 + 16 + 32 + 32
QUERY_SERVING_BASELINE_BYTES == 16 + 32 + 8 + 8 + 16 + 8
RUNTIME_RESPONSE_AUTH_PIN_BYTES == 32 + 16 + 32 + 32 + 16 + 2 + 2
AUTH_PIN_BYTES == 16 + 2 + 2 + 32 + 8

Body(v) == append_bytes(BodyBytes, v)
ReadBody(t) == bounded_bytes(BodyBytes, t)

append_optional(width, v) == IF v = None THEN u8(0) ELSE u8(1) \o fixed(width, v)
decode_optional(width, t) == optional(None, t, LAMBDA r : {Got(g.v[1], g.rest) : g \in take(<<width>>, r)})

-----------------------------------------------------------------------------
(* Pins, channels and baselines.                                              *)
append_auth_pin(a) == fixed(16, a.key) \o u16("ed25519") \o u16(1) \o fixed(32, a.key) \o u64(a.generation)
decode_auth_pin(t) ==
    {Got([key |-> g.v[1], generation |-> g.v[5]], g.rest) : g \in take(<<16, 2, 2, 32, 8>>, t)}

append_runtime_response_auth_pin(p) ==
    fixed(32, p.response) \o fixed(16, p.channel) \o fixed(32, p.channel) \o fixed(32, p.channel)
        \o fixed(16, p.key) \o u16("ed25519") \o u16(1)
decode_runtime_response_auth_pin(t) ==
    {Got([response |-> g.v[1], channel |-> g.v[3], key |-> g.v[5]], g.rest) :
     g \in take(<<32, 16, 32, 32, 16, 2, 2>>, t)}

append_query_channel(target, c) == fixed(16, target) \o fixed(16, c) \o fixed(32, c) \o fixed(32, c)
decode_query_channel(t) == {Got(g.v[3], g.rest) : g \in take(<<16, 16, 32, 32>>, t)}

append_query_serving_baseline(b) ==
    fixed(16, b.target) \o fixed(32, b.store) \o u64(b.sequence) \o u64(b.epoch) \o fixed(16, "clock") \o u64(b.epoch)
decode_query_serving_baseline(t) ==
    {Got([target |-> g.v[1], store |-> g.v[2], sequence |-> g.v[3], epoch |-> g.v[4]], g.rest) :
     g \in take(<<16, 32, 8, 8, 16, 8>>, t)}

-----------------------------------------------------------------------------
(* Tenure transactions, the plan, the binding.                                *)
append_tenure_transaction(x) ==
    fixed(16, x.request.operation) \o u8(x.phase) \o fixed(32, x.domain) \o fixed(16, x.request.scope)
        \o fixed(16, x.request.writer) \o fixed(32, x.request) \o fixed(32, x.request)
        \o Body(x.request.nonce) \o Body(x.request)
        \o IF x.response = None THEN u8(0)
           ELSE u8(1) \o fixed(32, x.response) \o fixed(32, x.response.proof) \o Body(x.response)

decode_tenure_response(t) ==
    optional(None, t, LAMBDA r :
        UNION {{Got(b.v, b.rest) : b \in {x \in ReadBody(g.rest) : x.v = g.v[1] /\ x.v.proof = g.v[2]}} :
               g \in take(<<32, 32>>, r)})

decode_tenure_transaction(t) ==
    UNION {UNION {UNION {
        {Got([request |-> b.v, domain |-> g.v[3], phase |-> g.v[2], response |-> a.v], a.rest) :
         a \in IF /\ b.v.operation = g.v[1] /\ b.v.scope = g.v[4] /\ b.v.writer = g.v[5]
                  /\ b.v = g.v[6] /\ b.v = g.v[7] /\ b.v.nonce = n.v
               THEN {x \in decode_tenure_response(b.rest) : (g.v[2] = "Committed") = (x.v # None)} ELSE {}} :
        b \in ReadBody(n.rest)} : n \in ReadBody(g.rest)} :
        g \in take(<<16, 1, 32, 16, 16, 32, 32>>, t)}

append_optional_plan(s) ==
    IF s.plan = None THEN u8(0)
    ELSE u8(1) \o fixed(16, s.scope) \o fixed(16, s.lineage) \o u64(s.plan.revision) \o fixed(16, s.plan.target)
         \o Body(s.plan.content) \o fixed(32, s.plan.content) \o fixed(32, s.plan.digest)
         \o fixed(32, s.plan.content) \o fixed(16, s.plan.commit_operation) \o fixed(32, s.plan.commit_intent_digest)

decode_optional_plan(t) ==
    optional(None, t, LAMBDA r :
        UNION {UNION {
            {Got([revision |-> g.v[3], target |-> g.v[4], content |-> b.v, digest |-> d.v[2],
                  commit_operation |-> d.v[4], commit_intent_digest |-> d.v[5]], d.rest) :
             d \in {x \in take(<<32, 32, 32, 16, 32>>, b.rest) : x.v[1] = b.v /\ x.v[3] = b.v}} :
            b \in ReadBody(g.rest)} : g \in take(<<16, 16, 8, 16>>, r)})

append_optional_binding(b) ==
    IF b = None THEN u8(0)
    ELSE u8(1) \o fixed(16, b.target) \o fixed(32, b.store) \o fixed(32, b.policy) \o fixed(32, b.manifest)
         \o u64(b.first_epoch) \o u64(b.last_epoch) \o Body(b.response) \o fixed(32, b.response)
         \o append_runtime_response_auth_pin(b.auth)

decode_optional_binding(t) ==
    optional(None, t, LAMBDA r :
        UNION {UNION {UNION {
            {Got([target |-> g.v[1], store |-> g.v[2], policy |-> g.v[3], manifest |-> g.v[4],
                  first_epoch |-> g.v[5], last_epoch |-> g.v[6], response |-> b.v, auth |-> p.v], p.rest) :
             p \in decode_runtime_response_auth_pin(d.rest)} :
            d \in {x \in take(<<32>>, b.rest) : x.v[1] = b.v}} :
            b \in ReadBody(g.rest)} : g \in take(<<16, 32, 32, 32, 8, 8>>, r)})

-----------------------------------------------------------------------------
(* Rollouts.                                                                  *)
append_decision(d) ==
    IF d = None THEN u8(0)
    ELSE u8(1) \o fixed(16, d.id) \o u64(d.sequence) \o u8(d.observed) \o append_optional(16, d.receipt)

append_observation(target, o) ==
    IF o = None THEN u8(0)
    ELSE u8(1) \o Body(o.response) \o fixed(32, o.response) \o append_query_channel(target, o.channel)

append_attempt(a) ==
    Body(a.prepared.request) \o append_auth_pin(a.prepared.request_auth)
        \o append_query_channel(a.prepared.request.target, a.prepared.channel)
        \o append_runtime_response_auth_pin(a.prepared.auth) \o append_query_serving_baseline(a.prepared.baseline)
        \o append_observation(a.prepared.request.target, a.observation)
        \o append_optional(1, a.closure) \o append_decision(a.decision)

append_rollout(r) ==
    fixed(16, r.intent.target) \o fixed(32, r.intent.plan_digest) \o fixed(32, r.intent.slice)
        \o fixed(16, r.intent.operation) \o fixed(32, r.intent.request) \o Body(r.intent.request)
        \o append_auth_pin(r.intent.request_auth)
        \o fixed(32, r.intent.store) \o fixed(32, r.intent.policy) \o fixed(32, r.intent.manifest)
        \o append_runtime_response_auth_pin(r.intent.auth)
        \o (IF r.direct = None THEN u8(0) ELSE u8(1) \o Body(r.direct))
        \o append_all(r.attempts, append_attempt)

append_optional_rollout(r) == IF r = None THEN u8(0) ELSE u8(1) \o append_rollout(r)

(* Observations and decisions are rebuilt, and must come out as stored.       *)
decode_observation(prepared, t) ==
    optional(None, t, LAMBDA r :
        UNION {UNION {UNION {{Got(o, c.rest) : o \in QueryObservation_try_new(b.v, c.v, prepared)} :
            c \in decode_query_channel(d.rest)} :
            d \in {x \in take(<<32>>, b.rest) : x.v[1] = b.v}} : b \in ReadBody(r)})

decode_decision(observation, t) ==
    optional(None, t, LAMBDA r :
        UNION {UNION {
            {Got(d, c.rest) : d \in {x \in IF observation = None THEN {} ELSE RolloutDecision_try_new(observation, g.v[3], c.v) :
                                     x.id = g.v[1] /\ x.sequence = g.v[2]}} :
            c \in decode_optional(16, g.rest)} : g \in take(<<16, 8, 1>>, r)})

decode_prepared(t) ==
    UNION {UNION {UNION {UNION {
        {Got([request |-> q.v, request_auth |-> a.v, channel |-> c.v, auth |-> p.v, baseline |-> b.v], b.rest) :
         b \in decode_query_serving_baseline(p.rest)} :
        p \in decode_runtime_response_auth_pin(c.rest)} : c \in decode_query_channel(a.rest)} :
        a \in decode_auth_pin(q.rest)} : q \in ReadBody(t)}

decode_attempt(t) ==
    UNION {UNION {UNION {
        {Got([prepared |-> p.v, observation |-> o.v, decision |-> d.v, closure |-> c.v], d.rest) :
         d \in decode_decision(o.v, c.rest)} :
        c \in decode_optional(1, o.rest)} : o \in decode_observation(p.v, p.rest)} : p \in decode_prepared(t)}

decode_intent(t) ==
    UNION {UNION {UNION {UNION {
        {Got([request |-> b.v, target |-> g.v[1], plan_digest |-> g.v[2], slice |-> g.v[3], operation |-> g.v[4],
              request_auth |-> a.v, store |-> f.v[1], policy |-> f.v[2], manifest |-> f.v[3], auth |-> p.v], p.rest) :
         p \in decode_runtime_response_auth_pin(f.rest)} :
        f \in take(<<32, 32, 32>>, a.rest)} : a \in decode_auth_pin(b.rest)} :
        b \in {x \in ReadBody(g.rest) : x.v = g.v[5]}} : g \in take(<<16, 32, 32, 16, 32>>, t)}

decode_rollout(t, reject_legacy_query_evidence) ==
    UNION {UNION {
        {g \in {Got([intent |-> i.v, direct |-> d.v, attempts |-> a.v], a.rest) :
                a \in counted(MAX_RECONCILE_ATTEMPTS, d.rest, decode_attempt)} :
         rollout_validate(g.v) /\ (reject_legacy_query_evidence => g.v.attempts = <<>>)} :
        d \in optional(None, i.rest, LAMBDA r :
                  UNION {{Got(x, b.rest) : x \in DirectTerminalReceipt_try_new(b.v, i.v)} : b \in ReadBody(r)})} :
        i \in decode_intent(t)}

-----------------------------------------------------------------------------
(* The payload.                                                               *)
append_allocation(r) ==
    fixed(16, r.key) \o u64(r.ordinal) \o fixed(16, r.instance) \o fixed(16, r.domain) \o u8(r.state)
decode_allocation(t) ==
    {Got([key |-> g.v[1], ordinal |-> g.v[2], instance |-> g.v[3], domain |-> g.v[4], state |-> g.v[5]], g.rest) :
     g \in take(<<16, 8, 16, 16, 1>>, t)}

append_operation(o) ==
    fixed(16, o.operation) \o fixed(32, o.intent_digest) \o u64(o.expected_revision) \o u8(o.phase)
        \o append_optional(16, o.result) \o append_optional(8, o.generation) \o append_optional(32, o.plan_digest)
decode_operation(t) ==
    UNION {UNION {UNION {UNION {
        {x \in {Got([operation |-> g.v[1], intent_digest |-> g.v[2], expected_revision |-> g.v[3], phase |-> g.v[4],
                     result |-> r.v, generation |-> n.v, plan_digest |-> d.v], d.rest)} : validate_operation(x.v)} :
        d \in decode_optional(32, n.rest)} : n \in decode_optional(8, r.rest)} :
        r \in decode_optional(16, g.rest)} : g \in take(<<16, 32, 8, 1>>, t)}

InKeyOrder(records) == SetToSortSeq(records, LAMBDA a, b : a.key < b.key)

encode_payload_fields(s, version) ==
    fixed(4, "PXCP") \o u16(version) \o fixed(16, s.scope) \o fixed(16, s.lineage) \o fixed(16, s.allocation.target)
        \o Body(s.manifest) \o fixed(32, s.manifest.digest)
        \o u64(s.allocation.generation) \o u64(s.allocation.high_water)
        \o append_all(InKeyOrder(s.allocation.records), append_allocation)
        \o append_optional_plan(s)
        \o append_all(SetToSeq(s.operations), append_operation)
        \o append_all(SetToSeq(s.tenure), append_tenure_transaction)
        \o append_auth_pin(s.auth) \o u64(s.high_water)
        \o append_optional_binding(s.binding) \o append_optional_rollout(s.rollout)
        \o append_all(s.history, append_rollout)

decode_allocations(target, generation, high_water, t) ==
    UNION {{Got(a, g.rest) : a \in StableAllocationSnapshot_try_new(target, generation, high_water,
                                       {g.v[i] : i \in DOMAIN g.v})} :
           g \in {x \in counted(MAX_STABLE_ALLOCATION_RECORDS, t, decode_allocation) :
                  \A i, j \in DOMAIN x.v : i < j => x.v[i].key < x.v[j].key}}

(* Identity and allocation; the plan and the two ledgers; the rest.           *)
decode_identity(version, t) ==
    UNION {UNION {UNION {
        {Got([scope |-> g.v[3], lineage |-> g.v[4], manifest |-> m.v, allocation |-> a.v], a.rest) :
         a \in decode_allocations(g.v[5], d.v[2], d.v[3], d.rest)} :
        d \in {x \in take(<<32, 8, 8>>, m.rest) : x.v[1] = m.v.digest}} : m \in ReadBody(g.rest)} :
        g \in {x \in take(<<4, 2, 16, 16, 16>>, t) : x.v[1] = "PXCP" /\ x.v[2] = version}}

decode_ledgers(t) ==
    UNION {UNION {
        {Got([plan |-> p.v, operations |-> {o.v[i] : i \in DOMAIN o.v}, tenure |-> {x.v[i] : i \in DOMAIN x.v}], x.rest) :
         x \in counted(MAX_CONTROLLER_TENURE_TRANSACTIONS, o.rest, decode_tenure_transaction)} :
        o \in counted(MAX_CONTROLLER_OPERATIONS, p.rest, decode_operation)} : p \in decode_optional_plan(t)}

decode_evidence(t, reject) ==
    UNION {UNION {UNION {UNION {
        {Got([auth |-> a.v, high_water |-> h.v[1], binding |-> b.v, rollout |-> r.v, history |-> y.v], y.rest) :
         y \in counted(MAX_APPLY_OPERATION_HISTORY, r.rest, LAMBDA z : decode_rollout(z, reject))} :
        r \in optional(None, b.rest, LAMBDA z : decode_rollout(z, reject))} :
        b \in decode_optional_binding(h.rest)} :
        h \in {x \in take(<<8>>, a.rest) : reject => x.v[1] = 0}} : a \in decode_auth_pin(t)}

decode_payload_version(t, version, reject) ==
    UNION {UNION {UNION {
        {s \in {[scope |-> i.v.scope, lineage |-> i.v.lineage, manifest |-> i.v.manifest,
                 allocation |-> i.v.allocation, plan |-> l.v.plan, operations |-> l.v.operations,
                 tenure |-> l.v.tenure, auth |-> e.v.auth, binding |-> e.v.binding, high_water |-> e.v.high_water,
                 rollout |-> e.v.rollout, history |-> e.v.history]} :
            AtEnd(e.rest)} :
        e \in decode_evidence(l.rest, reject)} : l \in decode_ledgers(i.rest)} : i \in decode_identity(version, Cursor(t))}

-----------------------------------------------------------------------------
(* The length, computed before anything is written.                           *)
Present(v, n) == IF v = None THEN 0 ELSE n
SumOver(S, F(_)) == MapThenFoldSet(LAMBDA a, b : a + b, 0, F, LAMBDA T : CHOOSE x \in T : TRUE, S)

attempt_encoded_len(a) ==
    4 + BodyBytes + AUTH_PIN_BYTES + QUERY_CHANNEL_BINDING_BYTES + RUNTIME_RESPONSE_AUTH_PIN_BYTES
      + QUERY_SERVING_BASELINE_BYTES + 1
      + Present(a.observation, 4 + BodyBytes + 32 + QUERY_CHANNEL_BINDING_BYTES)
      + 1 + Present(a.closure, 1)
      + 1 + IF a.decision = None THEN 0 ELSE 16 + 8 + 1 + 1 + Present(a.decision.receipt, 16)

rollout_encoded_len(r) ==
    16 + 32 + 32 + 16 + 32 + 4 + BodyBytes + AUTH_PIN_BYTES + 32 + 32 + 32 + RUNTIME_RESPONSE_AUTH_PIN_BYTES + 1 + 4
       + Present(r.direct, 4 + BodyBytes)
       + SumOver(DOMAIN r.attempts, LAMBDA i : attempt_encoded_len(r.attempts[i]))

controller_payload_encoded_len(s) ==
    4 + 2 + 16 + 16 + 16 + 4 + BodyBytes + 32 + 8 + 8 + 4
      + Cardinality(s.allocation.records) * (16 + 8 + 16 + 16 + 1)
      + 1 + Present(s.plan, 16 + 16 + 8 + 16 + 4 + BodyBytes + 32 + 32 + 32 + 16 + 32)
      + 4 + SumOver(s.operations, LAMBDA o : 16 + 32 + 8 + 1 + 1 + Present(o.result, 16) + 1 + Present(o.generation, 8)
                                                + 1 + Present(o.plan_digest, 32))
      + 4 + SumOver(s.tenure, LAMBDA x : 16 + 1 + 32 + 16 + 16 + 32 + 32 + 4 + BodyBytes + 4 + BodyBytes + 1
                                            + Present(x.response, 32 + 32 + 4 + BodyBytes))
      + 16 + 2 + 2 + 32 + 8 + 8
      + 1 + Present(s.binding, 16 + 32 + 32 + 32 + 8 + 8 + 4 + BodyBytes + 32 + RUNTIME_RESPONSE_AUTH_PIN_BYTES)
      + 1 + (IF s.rollout = None THEN 0 ELSE rollout_encoded_len(s.rollout))
      + 4 + SumOver(DOMAIN s.history, LAMBDA i : rollout_encoded_len(s.history[i]))

validate_controller_snapshot_size(s) ==
    JOURNAL_HEADER_BYTES + controller_payload_encoded_len(s) <= MAX_CONTROLLER_SNAPSHOT_BYTES

-----------------------------------------------------------------------------
(* The snapshot: a state with its place in the sequence of commits.  The      *)
(* first one, and only the first, is fresh.  The payload's encoder and decoder *)
(* validate the state too; here it is done where a snapshot is made.          *)
Snapshot_try_from_stored(store, owner, sequence, s) ==
    {x \in {[store |-> store, owner |-> owner, sequence |-> sequence, state |-> s]} :
        /\ NoneZero(<<store, owner>>) /\ sequence # 0
        /\ validate(s)
        /\ (sequence = 1) = is_exact_fresh(s)}

Snapshot_try_initialize(store, owner, s) ==
    IF is_exact_fresh(s) THEN Snapshot_try_from_stored(store, owner, 1, s) ELSE {}

Snapshot_try_successor(x, s) ==
    IF x.sequence < U64_MAX /\ validate_successor_of(s, x.state)
    THEN Snapshot_try_from_stored(x.store, x.owner, x.sequence + 1, s) ELSE {}

Snapshot_validate_successor_of(x, previous) ==
    /\ x.store = previous.store /\ x.owner = previous.owner
    /\ previous.sequence < U64_MAX /\ x.sequence = previous.sequence + 1
    /\ validate_successor_of(x.state, previous.state)

controller_checksum(prefix, payload) == <<prefix, payload>>

(* A file is its header, its checksum and its payload.                        *)
Header(x, version, payload_len) ==
    fixed(4, "PXJR") \o u16(1) \o u16("controller") \o u16(version) \o u16("sha256") \o u16(1)
        \o fixed(32, x.store) \o fixed(32, x.owner) \o u64(x.sequence) \o u64(payload_len)

FileOf(prefix, payload) ==
    [prefix |-> prefix, checksum |-> controller_checksum(prefix, payload), payload |-> payload]

Snapshot_encode(x, version) ==
    UNION {{FileOf(Header(x, version, n), payload) :
            n \in {k \in {encoded_len(payload)} : JOURNAL_HEADER_BYTES + k <= MAX_CONTROLLER_SNAPSHOT_BYTES}} :
           payload \in {encode_payload_fields(x.state, version)}}

HeaderLength(f) == f.prefix[10].v

FileIsSound(f, version) ==
    /\ \E g \in take(<<4, 2, 2, 2, 2, 2, 32, 32, 8, 8>>, Cursor(f.prefix)) :
          SubSeq(g.v, 1, 6) = <<"PXJR", 1, "controller", version, "sha256", 1>>
    /\ HeaderLength(f) = encoded_len(f.payload)
    /\ JOURNAL_HEADER_BYTES + HeaderLength(f) <= MAX_CONTROLLER_SNAPSHOT_BYTES
    /\ f.checksum = controller_checksum(f.prefix, f.payload)

Snapshot_decode(f) ==
    IF ~FileIsSound(f, CONTROLLER_PAYLOAD_VERSION) THEN {}
    ELSE UNION {Snapshot_try_from_stored(f.prefix[7].v, f.prefix[8].v, f.prefix[9].v, s) :
                s \in decode_payload_version(f.payload, CONTROLLER_PAYLOAD_VERSION, FALSE)}

(* Version 7 is read by the offline migration only, which refuses a file with *)
(* evidence of a query in it: version 7 could not prove what had been sent.   *)
Snapshot_migrate_payload_v7(f) ==
    IF ~FileIsSound(f, CONTROLLER_LEGACY_PAYLOAD_VERSION) THEN {}
    ELSE UNION {Snapshot_try_from_stored(f.prefix[7].v, f.prefix[8].v, f.prefix[9].v, s) :
                s \in {x \in decode_payload_version(f.payload, CONTROLLER_LEGACY_PAYLOAD_VERSION, TRUE) :
                       encode_payload_fields(x, CONTROLLER_LEGACY_PAYLOAD_VERSION) = f.payload}}
=============================================================================
