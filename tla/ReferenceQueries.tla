-------------------------- MODULE ReferenceQueries ---------------------------
(***************************************************************************)
(* What a runtime answers to a bootstrap read, to an apply and to the      *)
(* query of one operation, each with its signed frame and the checks the   *)
(* controller makes against the request it sent (the second half of        *)
(* reference_assembly.rs).                                                 *)
(***************************************************************************)
EXTENDS ReferenceContracts

-----------------------------------------------------------------------------
(* The channel an answer arrives on, and who signs it.                       *)
ControlChannelBindingV1_try_new(target, peer, endpoint, credentials) ==
    If(~digest_is_zero(endpoint) /\ ~digest_is_zero(credentials),
       [target |-> target, peer |-> peer, endpoint |-> endpoint, credentials |-> credentials,
        binding_digest |-> Digest("control-channel", <<target, peer, endpoint, credentials>>)])

ResponseAuthClaimV1_try_new(c) ==
    If(c.algorithm # 0 /\ c.algorithm_version # 0 /\ ~digest_is_zero(c.channel_binding), c)

MatchesChannel(claim, channel) ==
    claim.peer = channel.peer /\ claim.channel_binding = channel.binding_digest

validate_control_read_auth_claim(c) == BytesWithin(c.nonce, MAX_NONCE_BYTES)
validate_response_bound(n, max) == n \in 1..max

decode_control_request_auth(p) ==
    ApplyRequestAuthClaim_try_new([principal |-> p[1], key |-> p[2], algorithm |-> p[3],
                                   algorithm_version |-> p[4], nonce |-> p[5]])

(* Nonzero sequence and epoch: one boot of one store on one clock.           *)
RuntimeServingIdentityV1_try_new(s) ==
    If(s.store # Zero /\ s.sequence # 0 /\ s.epoch # 0 /\ s.clock_generation # 0, s)

-----------------------------------------------------------------------------
(* Bootstrap: what the runtime is, and whether it can take an apply.         *)
MAX_BOOTSTRAP_RESPONSE_V1_BYTES == 2048

BootstrapRequestFormat ==
    [magic |-> "PXBR", header |-> 8, version |-> 1, max |-> 1024, domain |-> "bootstrap-request",
     layout |-> <<Exactly(16), Exactly(16), Exactly(16), Exactly(16), Exactly(16), Exactly(2), Exactly(2),
                  UpTo(MAX_NONCE_BYTES), Exactly(4), UpTo(MAX_SIGNATURE_BYTES)>>]

append_bootstrap_request_fields(d, signature) ==
    <<d.request_id, d.target, d.scope, d.auth.principal, d.auth.key, d.auth.algorithm,
      d.auth.algorithm_version, d.auth.nonce, d.max_bytes, signature>>

BootstrapRequestDraft_try_new(d) ==
    If(/\ validate_control_read_auth_claim(d.auth)
       /\ validate_response_bound(d.max_bytes, MAX_BOOTSTRAP_RESPONSE_V1_BYTES), d)

BootstrapRequest_try_new(d, signature) ==
    LET wire == begin_tlv_frame(BootstrapRequestFormat, append_bootstrap_request_fields(d, signature))
    IN  If(/\ BootstrapRequestDraft_try_new(d) # {}
           /\ BytesWithin(signature, MAX_SIGNATURE_BYTES)
           /\ FrameBytes(BootstrapRequestFormat, wire) <= BootstrapRequestFormat.max,
           [draft |-> d, signature |-> signature, wire |-> wire,
            request_digest |-> Digest("bootstrap-request", wire)])

decode_bootstrap_request(f) ==
    UNION {UNION {{r \in BootstrapRequest_try_new(
                           [request_id |-> p[1], target |-> p[2], scope |-> p[3], auth |-> a,
                            max_bytes |-> p[9]], p[10]) : r.wire = f} :
                  a \in decode_control_request_auth(SubSeq(p, 4, 8))} :
           p \in parse_tlv_frame(BootstrapRequestFormat, f)}

(* The reasons a runtime gives for not being ready, and the states.          *)
Recovering == 1
ActiveCompatibilityMismatch == 2
RecoveryFailed == 3
OwnershipUncertainReason == 4
HistoryUnavailable == 5
ResourceCensusUncertain == 6
RuntimeBusy == 7
OwnershipTransferRequired == 8
NoReason == 0
ReadyForApply == 1
NotReadyRecovering == 2
ValidatedOperationalQuarantine == 3
RecoveryFailedNotReady == 4
NotReadyBusy == 5

validate_bootstrap_state_reason(state, reason) ==
    CASE state = ReadyForApply -> reason = NoReason
      [] state = NotReadyRecovering -> reason = Recovering
      [] state = ValidatedOperationalQuarantine ->
             reason \in {ActiveCompatibilityMismatch, OwnershipUncertainReason, HistoryUnavailable,
                         ResourceCensusUncertain, OwnershipTransferRequired}
      [] state = RecoveryFailedNotReady -> reason = RecoveryFailed
      [] state = NotReadyBusy -> reason = RuntimeBusy
      [] OTHER -> FALSE

(* The build the runtime runs must be the build it was installed as.         *)
BootstrapCompatibilityV1_try_from_parts(c) ==
    If(/\ c.compiled_build_id = c.identity.build_instance_id
       /\ c.compiled_compatibility = c.identity.compiled_reference_compatibility_digest
       /\ ~digest_is_zero(c.manifest_digest)
       /\ ~digest_is_zero(c.profile_fingerprint)
       /\ ~digest_is_zero(c.policy_digest), c)

BootstrapFactsV1_try_new(serving, compatibility, state, reason) ==
    If(validate_bootstrap_state_reason(state, reason),
       [serving |-> serving, compatibility |-> compatibility, state |-> state, reason |-> reason])

BootstrapResponseFormat ==
    [magic |-> "PXBS", header |-> 8, version |-> 1, max |-> MAX_BOOTSTRAP_RESPONSE_V1_BYTES,
     domain |-> "bootstrap-response",
     layout |-> <<Exactly(16), Exactly(32), UpTo(MAX_NONCE_BYTES), Exactly(16), Exactly(32), Exactly(8),
                  Exactly(8), Exactly(16), Exactly(8), Exactly(32), Exactly(32),
                  Exactly(BUILD_IDENTITY_BYTES), Exactly(32), Exactly(32), Exactly(32), Exactly(2),
                  Exactly(2), Exactly(16), Exactly(32), Exactly(16), Exactly(2), Exactly(2),
                  UpTo(MAX_SIGNATURE_BYTES)>>]

append_bootstrap_response_fields(d, signature) ==
    LET s == d.facts.serving
        c == d.facts.compatibility IN
    <<d.request_id, d.request_digest, d.nonce, s.target, s.store, s.sequence, s.epoch, s.clock_domain,
      s.clock_generation, c.compiled_build_id, c.compiled_compatibility, append_build_identity(c.identity),
      c.manifest_digest, c.profile_fingerprint, c.policy_digest, d.facts.state, d.facts.reason,
      d.claim.peer, d.claim.channel_binding, d.claim.key, d.claim.algorithm, d.claim.algorithm_version,
      signature>>

(* An answer is drafted for one request over one channel.                    *)
BootstrapResponseDraft_try_new(request, facts, channel, claim) ==
    If(/\ request.draft.target = facts.serving.target
       /\ channel.target = facts.serving.target
       /\ MatchesChannel(claim, channel),
       [request_id |-> request.draft.request_id, request_digest |-> request.request_digest,
        nonce |-> request.draft.auth.nonce, facts |-> facts, claim |-> claim])

(* The signer also keeps to the bound its request asked for.                 *)
BootstrapResponse_try_new(d, signature, bound) ==
    LET wire == begin_tlv_frame(BootstrapResponseFormat, append_bootstrap_response_fields(d, signature))
    IN  If(/\ BytesWithin(signature, MAX_SIGNATURE_BYTES)
           /\ BytesWithin(d.nonce, MAX_NONCE_BYTES)
           /\ ~digest_is_zero(d.request_digest)
           /\ FrameBytes(BootstrapResponseFormat, wire) <= bound,
           [draft |-> d, signature |-> signature, wire |-> wire])

(* Tags 10 and 11 repeat two parts of the identity in tag 12.                *)
decode_bootstrap_response(f) ==
    UNION {UNION {{r \in BootstrapResponse_try_new(
                           [request_id |-> p[1], request_digest |-> p[2], nonce |-> p[3], facts |-> x,
                            claim |-> c], p[23], BootstrapResponseFormat.max) : r.wire = f} :
                  x \in UNION {BootstrapFactsV1_try_new(s, k, p[16], p[17]) :
                      s \in RuntimeServingIdentityV1_try_new(
                                [target |-> p[4], store |-> p[5], sequence |-> p[6], epoch |-> p[7],
                                 clock_domain |-> p[8], clock_generation |-> p[9]]),
                      k \in UNION {BootstrapCompatibilityV1_try_from_parts(
                                [compiled_build_id |-> p[10], compiled_compatibility |-> p[11],
                                 identity |-> i, manifest_digest |-> p[13],
                                 profile_fingerprint |-> p[14], policy_digest |-> p[15]]) :
                                i \in decode_build_identity(p[12])}},
                  c \in ResponseAuthClaimV1_try_new(
                            [peer |-> p[18], channel_binding |-> p[19], key |-> p[20],
                             algorithm |-> p[21], algorithm_version |-> p[22]])} :
           p \in parse_tlv_frame(BootstrapResponseFormat, f)}

ResponseEcho(d, r) ==
    /\ d.request_id = r.draft.request_id
    /\ d.request_digest = r.request_digest
    /\ d.nonce = r.draft.auth.nonce

(* Against the manifest and the admission policy the controller pinned.      *)
validate_expected_compatibility(facts, manifest, policy) ==
    LET c == facts.compatibility
        i == manifest.row.build_identity IN
    /\ facts.serving.target = manifest.row.target
    /\ c.compiled_build_id = i.build_instance_id
    /\ c.compiled_compatibility = i.compiled_reference_compatibility_digest
    /\ c.identity = i
    /\ c.manifest_digest = manifest.manifest_digest
    /\ c.profile_fingerprint = reference_profile_fingerprint(manifest.row.fixture)
    /\ ~digest_is_zero(policy) /\ c.policy_digest = policy

BootstrapResponseAnswers(response, request, channel, manifest, policy) ==
    LET d == response.draft IN
    /\ ResponseEcho(d, request)
    /\ d.facts.serving.target = request.draft.target /\ channel.target = request.draft.target
    /\ validate_expected_compatibility(d.facts, manifest, policy)
    /\ MatchesChannel(d.claim, channel)
    /\ FrameBytes(BootstrapResponseFormat, response.wire) <= request.draft.max_bytes

-----------------------------------------------------------------------------
(* The terminal receipt of an apply.                                         *)
OneSourceLoopActive == 1
EmptyDeactivateExactZero == 2
StartTimedOutBeforeIntentNoEffects == 3
StopTimedOutBeforeHeadCommitNoEffects == 4
StartFailedBeforeHeadCommitExactZero == 5
StartTimedOutBeforeHeadCommitExactZero == 6
StopFailedButExactZero == 7
TimedOutButExactZero == 8
AbortedBeforeIntentNoEffects == 9
AbortedBeforeHeadCommitExactZero == 10
SupersededAfterIntentExactZero == 11
InterruptedButNowExactZero == 12
ProvenNotStarted == 1
MayHaveStarted == 2
PreservedNone == 1
PreservedExisting == 2
CommittedIncoming == 3

TerminalHead(disposition, digest) == [disposition |-> disposition, digest |-> digest]

apply_terminal_outcome_accepts_mode(outcome, mode) ==
    outcome \in IF mode = OneSourceLoop
        THEN {OneSourceLoopActive, StartTimedOutBeforeIntentNoEffects, StartFailedBeforeHeadCommitExactZero,
              StartTimedOutBeforeHeadCommitExactZero, AbortedBeforeIntentNoEffects,
              AbortedBeforeHeadCommitExactZero, SupersededAfterIntentExactZero}
        ELSE {EmptyDeactivateExactZero, StopTimedOutBeforeHeadCommitNoEffects, StopFailedButExactZero,
              TimedOutButExactZero, AbortedBeforeIntentNoEffects, SupersededAfterIntentExactZero,
              InterruptedButNowExactZero}

apply_terminal_outcome_commits_incoming(outcome, mode) ==
    outcome \in IF mode = OneSourceLoop THEN {OneSourceLoopActive}
        ELSE {EmptyDeactivateExactZero, StopFailedButExactZero, TimedOutButExactZero,
              SupersededAfterIntentExactZero, InterruptedButNowExactZero}

apply_terminal_lifecycle_is_valid(outcome, lifecycle) ==
    CASE outcome \in {OneSourceLoopActive, StartFailedBeforeHeadCommitExactZero, StopFailedButExactZero} ->
             lifecycle = MayHaveStarted
      [] outcome \in {StartTimedOutBeforeIntentNoEffects, StopTimedOutBeforeHeadCommitNoEffects,
                      AbortedBeforeIntentNoEffects} -> lifecycle = ProvenNotStarted
      [] OTHER -> lifecycle \in {ProvenNotStarted, MayHaveStarted}

apply_terminal_head_is_potentially_valid(outcome, commits) ==
    CASE outcome \in {OneSourceLoopActive, EmptyDeactivateExactZero, StopFailedButExactZero,
                      TimedOutButExactZero, InterruptedButNowExactZero} -> commits
      [] outcome = SupersededAfterIntentExactZero -> TRUE
      [] OTHER -> ~commits

validate_apply_terminal_shape(outcome, lifecycle, head) ==
    /\ apply_terminal_lifecycle_is_valid(outcome, lifecycle)
    /\ apply_terminal_head_is_potentially_valid(outcome, head.disposition = CommittedIncoming)
    /\ head.disposition # PreservedNone => ~digest_is_zero(head.digest)

(* The shape together with the request the receipt answers.                  *)
ValidTerminalFor(facts, mode, incoming) ==
    /\ validate_apply_terminal_shape(facts.outcome, facts.lifecycle, facts.head)
    /\ apply_terminal_outcome_accepts_mode(facts.outcome, mode)
    /\ apply_terminal_outcome_commits_incoming(facts.outcome, mode) = (facts.head.disposition = CommittedIncoming)
    /\ facts.head.disposition = CommittedIncoming => facts.head.digest = incoming

apply_terminal_request_binding(request) ==
    LET c == request.envelope.control_commitment IN
    [target |-> c.slice.header.target, store |-> request.envelope.store,
     scope |-> c.slice.header.provenance.scope, operation |-> c.control.operation_id,
     request_digest |-> request.envelope.request_digest,
     nonce |-> request.envelope.authentication.claim.nonce,
     mode |-> request.slice.execution.mode, incoming |-> c.slice.target_slice_digest,
     clock_generation |-> request.envelope.temporal.clock_generation]

derive_apply_terminal_result_ref(b) ==
    derive_for_apply(b.target, b.store, b.scope, b.operation, b.request_digest)

RuntimeApplyTerminalFactsV1_try_new(request, f) ==
    LET b == apply_terminal_request_binding(request)
    IN  If(/\ ValidTerminalFor(f, b.mode, b.incoming)
           /\ ~digest_is_zero(f.census) /\ ~digest_is_zero(f.raw_outcome)
           /\ f.observed_at # 0 /\ f.clock_generation >= b.clock_generation,
           [f EXCEPT !.result_ref = derive_apply_terminal_result_ref(b)])

TerminalReceiptFormat ==
    [magic |-> "PXRT", header |-> 8, version |-> 1, max |-> 2048, domain |-> "apply-terminal-receipt",
     layout |-> <<Exactly(16), Exactly(32), Exactly(16), Exactly(16), Exactly(32), UpTo(MAX_NONCE_BYTES),
                  Exactly(2), Exactly(2), Exactly(2), Exactly(32), Exactly(32), Exactly(32), Exactly(8),
                  Exactly(8), Exactly(8), Exactly(8), Exactly(16), Exactly(16), Exactly(32), Exactly(16),
                  Exactly(2), Exactly(2), UpTo(MAX_SIGNATURE_BYTES)>>]

append_apply_terminal_receipt_fields(d, signature) ==
    LET f == d.facts IN
    <<d.target, d.store, d.scope, d.operation, d.request_digest, d.nonce, f.outcome, f.lifecycle,
      f.head.disposition, IF f.head.disposition = PreservedNone THEN Zero ELSE f.head.digest,
      f.census, f.raw_outcome, f.epoch, f.sequence, f.clock_generation, f.observed_at, f.result_ref,
      d.claim.peer, d.claim.channel_binding, d.claim.key, d.claim.algorithm, d.claim.algorithm_version,
      signature>>

TerminalReceiptDraft_try_new(request, facts, channel, claim) ==
    LET b == apply_terminal_request_binding(request)
    IN  If(/\ ValidTerminalFor(facts, b.mode, b.incoming)
           /\ facts.result_ref = derive_apply_terminal_result_ref(b)
           /\ b.target = channel.target
           /\ MatchesChannel(claim, channel),
           [target |-> b.target, store |-> b.store, scope |-> b.scope, operation |-> b.operation,
            request_digest |-> b.request_digest, nonce |-> b.nonce, facts |-> facts, claim |-> claim])

TerminalReceipt_try_new(d, signature) ==
    LET wire == begin_tlv_frame(TerminalReceiptFormat, append_apply_terminal_receipt_fields(d, signature))
        f == d.facts
    IN  If(/\ BytesWithin(signature, MAX_SIGNATURE_BYTES)
           /\ BytesWithin(d.nonce, MAX_NONCE_BYTES)
           /\ validate_apply_terminal_shape(f.outcome, f.lifecycle, f.head)
           /\ ~digest_is_zero(d.request_digest)
           /\ ~digest_is_zero(f.census) /\ ~digest_is_zero(f.raw_outcome) /\ f.observed_at # 0
           /\ f.result_ref = derive_for_apply(d.target, d.store, d.scope, d.operation, d.request_digest)
           /\ FrameBytes(TerminalReceiptFormat, wire) <= TerminalReceiptFormat.max,
           [draft |-> d, signature |-> signature, wire |-> wire])

decode_apply_terminal_outcome(v) == If(v \in 1..12, v)
decode_apply_terminal_lifecycle(v) == If(v \in {ProvenNotStarted, MayHaveStarted}, v)
decode_apply_terminal_head(disposition, digest) ==
    IF disposition = PreservedNone THEN If(digest = Zero, TerminalHead(PreservedNone, Zero))
    ELSE If(disposition \in {PreservedExisting, CommittedIncoming} /\ digest # Zero,
            TerminalHead(disposition, digest))

decode_apply_terminal_receipt(f) ==
    UNION {IF p[2] # Zero /\ p[13] # 0 /\ p[14] # 0 /\ p[15] # 0
           THEN UNION {{r \in TerminalReceipt_try_new(
                           [target |-> p[1], store |-> p[2], scope |-> p[3], operation |-> p[4],
                            request_digest |-> p[5], nonce |-> p[6], claim |-> c,
                            facts |-> [outcome |-> o, lifecycle |-> l, head |-> h, census |-> p[11],
                                       raw_outcome |-> p[12], epoch |-> p[13], sequence |-> p[14],
                                       clock_generation |-> p[15], observed_at |-> p[16],
                                       result_ref |-> p[17]]], p[23]) : r.wire = f} :
                    o \in decode_apply_terminal_outcome(p[7]), l \in decode_apply_terminal_lifecycle(p[8]),
                    h \in decode_apply_terminal_head(p[9], p[10]),
                    c \in ResponseAuthClaimV1_try_new(
                              [peer |-> p[18], channel_binding |-> p[19], key |-> p[20],
                               algorithm |-> p[21], algorithm_version |-> p[22]])}
           ELSE {} :
           p \in parse_tlv_frame(TerminalReceiptFormat, f)}

TerminalReceiptAnswers(receipt, request, channel) ==
    LET b == apply_terminal_request_binding(request)
        d == receipt.draft IN
    /\ d.target = b.target /\ channel.target = b.target
    /\ d.store = b.store /\ d.scope = b.scope /\ d.operation = b.operation
    /\ d.request_digest = b.request_digest /\ d.nonce = b.nonce
    /\ ValidTerminalFor(d.facts, b.mode, b.incoming)
    /\ d.facts.clock_generation >= b.clock_generation
    /\ d.facts.result_ref = derive_apply_terminal_result_ref(b)
    /\ MatchesChannel(d.claim, channel)

-----------------------------------------------------------------------------
(* The query of one operation: what the runtime reports of the operation, of *)
(* the desired head and of its live state, and what the controller accepts.  *)

MAX_QUERY_RESPONSE_V1_BYTES == 2048

-----------------------------------------------------------------------------
(* The request.                                                              *)
RuntimeQuerySelectorV1_try_new(s) == If(s.expected_digest # Zero, s)

QueryRequestFormat ==
    [magic |-> "PXQR", header |-> 8, version |-> 1, max |-> 1024, domain |-> "query-request",
     layout |-> <<Exactly(16), Exactly(16), Exactly(16), Exactly(32), Exactly(16), Exactly(1), Exactly(32),
                  UpTo(MAX_NONCE_BYTES), Exactly(4), Exactly(2), Exactly(16), Exactly(16), Exactly(2),
                  Exactly(2), UpTo(MAX_SIGNATURE_BYTES)>>]

append_query_request_fields(d, signature) ==
    <<d.request_id, d.target, d.scope, d.store, d.operation>> \o encode_optional_digest(d.expected_digest)
    \o <<d.auth.nonce, d.max_bytes, MAX_QUERY_RECORD_COUNT, d.auth.principal, d.auth.key, d.auth.algorithm,
         d.auth.algorithm_version, signature>>

QueryRequestDraft_try_new(d) ==
    If(/\ RuntimeQuerySelectorV1_try_new(d) # {}
       /\ validate_control_read_auth_claim(d.auth)
       /\ validate_response_bound(d.max_bytes, MAX_QUERY_RESPONSE_V1_BYTES), d)

QueryRequest_try_new(d, signature) ==
    LET wire == begin_tlv_frame(QueryRequestFormat, append_query_request_fields(d, signature))
    IN  If(/\ QueryRequestDraft_try_new(d) # {}
           /\ BytesWithin(signature, MAX_SIGNATURE_BYTES)
           /\ FrameBytes(QueryRequestFormat, wire) <= QueryRequestFormat.max,
           [draft |-> d, signature |-> signature, wire |-> wire,
            request_digest |-> Digest("query-request", wire)])

decode_query_request(f) ==
    UNION {IF p[4] # Zero /\ p[10] = MAX_QUERY_RECORD_COUNT
           THEN UNION {{r \in QueryRequest_try_new(
                           [request_id |-> p[1], target |-> p[2], scope |-> p[3], store |-> p[4],
                            operation |-> p[5], expected_digest |-> e, auth |-> a, max_bytes |-> p[9]],
                           p[15]) : r.wire = f} :
                       e \in decode_optional_digest(p[6], p[7]),
                       a \in decode_control_request_auth(SubSeq(p, 11, 14) \o <<p[8]>>)}
           ELSE {} :
           p \in parse_tlv_frame(QueryRequestFormat, f)}

-----------------------------------------------------------------------------
(* The operation: known with its phase, in conflict, unknown, indeterminate. *)
PreparedNoEffects == 1
FirstActionIntent == 2
HeadCommittedRetiringOld == 3
TerminalPhase == 4

Known(digest, phase, result) ==
    [kind |-> 1, digest |-> digest, phase |-> phase, result |-> result, reason |-> NoReason]
Conflict(digest) == [kind |-> 2, digest |-> digest, phase |-> 0, result |-> None, reason |-> NoReason]
Unknown == [kind |-> 3, digest |-> None, phase |-> 0, result |-> None, reason |-> NoReason]
Indeterminate(reason) == [kind |-> 4, digest |-> None, phase |-> 0, result |-> None, reason |-> reason]

try_known(digest, phase, result) ==
    If(digest # Zero /\ result # Zero /\ ((result # None) <=> (phase = TerminalPhase)),
       Known(digest, phase, result))
try_conflict(digest) == If(digest # Zero, Conflict(digest))

encode_operation_lookup(l) ==
    <<l.kind>> \o encode_optional_digest(l.digest) \o <<l.phase>> \o encode_optional_digest(l.result)

(* An indeterminate answer takes its reason from the operation's.            *)
decode_operation_lookup(p, reason) ==
    LET digests == {d \in decode_optional_digest(p[2], p[3]) : (d # None) <=> (p[1] \in {1, 2})}
        results == {r \in decode_optional_digest(p[5], p[6]) :
                        (r # None) <=> (p[1] = 1 /\ p[4] = TerminalPhase)}
    IN  IF /\ p[1] \in 1..4 /\ p[4] \in 0..4 /\ ((p[1] = 1) <=> (p[4] # 0))
           /\ p[1] = 4 => reason # NoReason
        THEN CASE p[1] = 1 -> UNION {try_known(d, p[4], r) : d \in digests, r \in results}
               [] p[1] = 2 -> UNION {try_conflict(d) : d \in digests}
               [] p[1] = 3 -> {Unknown : d \in digests, r \in results}
               [] p[1] = 4 -> {Indeterminate(reason) : d \in digests, r \in results}
        ELSE {}

Operational == 1
ApplyDisabled == 2
OwnershipUncertain == 3

valid_owner_reason(owner, reason) ==
    CASE owner = Operational -> reason = NoReason
      [] owner = ApplyDisabled ->
             reason \in {Recovering, ActiveCompatibilityMismatch, RecoveryFailed, RuntimeBusy}
      [] owner = OwnershipUncertain ->
             reason \in {OwnershipUncertainReason, HistoryUnavailable, ResourceCensusUncertain,
                         OwnershipTransferRequired}
      [] OTHER -> FALSE

RuntimeQueryOperationStateV1_try_new(owner, reason, lookup) ==
    If(/\ valid_owner_reason(owner, reason)
       /\ lookup.kind = 4 => lookup.reason = reason,
       [owner |-> owner, reason |-> reason, lookup |-> lookup])

-----------------------------------------------------------------------------
(* The desired head, its high water, and the live state.                     *)
HeadNone == 1
HeadOneSourceLoop == 2
HeadEmptyDeactivate == 3
NoHead == [kind |-> HeadNone, revision |-> 0, slice |-> Zero, manifest |-> Zero]

RuntimeDesiredHeadV1_try_new(h) ==
    IF h.kind = HeadNone THEN If(h = NoHead, h)
    ELSE If(/\ h.kind \in {HeadOneSourceLoop, HeadEmptyDeactivate}
            /\ h.revision # 0 /\ h.slice # Zero /\ h.manifest # Zero, h)

RuntimeDesiredStateV1_try_new(head, high_water) ==
    If(high_water >= head.revision, [head |-> head, high_water |-> high_water])

LiveNotReady == 1
LiveRecovering == 2
LiveReady == 3
Draining == 4
LiveRecoveryFailedNotReady == 5
ExactZero == 6
LiveQuarantine == 7
Uncertain == 8

RuntimeLiveFactsV1_try_new(l) ==
    If(/\ CASE l.state \in {LiveReady, Draining} -> l.generation > 0
            [] l.state \in {LiveNotReady, LiveRecoveryFailedNotReady, ExactZero, LiveQuarantine} ->
                   l.generation = 0
            [] OTHER -> l.state \in {LiveRecovering, Uncertain}
       /\ ~digest_is_zero(l.census), l)

valid_desired_live_shape(head, live) ==
    CASE live \in {LiveReady, LiveRecovering, LiveRecoveryFailedNotReady} -> head.kind = HeadOneSourceLoop
      [] live = Draining -> head.kind = HeadEmptyDeactivate
      [] live = ExactZero -> head.kind \in {HeadNone, HeadEmptyDeactivate}
      [] OTHER -> TRUE

valid_operation_live_shape(owner, reason, live) ==
    live \in CASE owner = Operational -> {LiveNotReady, LiveReady, ExactZero}
               [] owner = ApplyDisabled /\ reason = Recovering -> {LiveRecovering}
               [] owner = ApplyDisabled /\ reason = ActiveCompatibilityMismatch -> {LiveQuarantine}
               [] owner = ApplyDisabled /\ reason = RecoveryFailed -> {LiveRecoveryFailedNotReady}
               [] owner = ApplyDisabled /\ reason = RuntimeBusy ->
                      {LiveNotReady, LiveReady, Draining, LiveRecoveryFailedNotReady, ExactZero}
               [] owner = OwnershipUncertain -> {Uncertain, LiveQuarantine}
               [] OTHER -> {}

RuntimeQueryFactsV1_try_new(serving, operation, desired, live) ==
    If(/\ valid_desired_live_shape(desired.head, live.state)
       /\ valid_operation_live_shape(operation.owner, operation.reason, live.state),
       [serving |-> serving, operation |-> operation, desired |-> desired, live |-> live])

-----------------------------------------------------------------------------
(* The response.                                                             *)
(* A known operation has the digest that was asked for, a conflict another.  *)
validate_query_expectation(expected, lookup) ==
    IF expected = None THEN lookup.kind # 2
    ELSE /\ lookup.kind = 1 => lookup.digest = expected
         /\ lookup.kind = 2 => lookup.digest # expected

QueryResponseFormat ==
    [magic |-> "PXQS", header |-> 8, version |-> 1, max |-> MAX_QUERY_RESPONSE_V1_BYTES,
     domain |-> "query-response",
     layout |-> <<Exactly(16), Exactly(32), UpTo(MAX_NONCE_BYTES), Exactly(16), Exactly(32), Exactly(8),
                  Exactly(8), Exactly(16), Exactly(8), Exactly(2), Exactly(2), Exactly(2), Exactly(1),
                  Exactly(32), Exactly(2), Exactly(1), Exactly(16), Exactly(2), Exactly(8), Exactly(32),
                  Exactly(32), Exactly(8), Exactly(2), Exactly(8), Exactly(8), Exactly(32), Exactly(16),
                  Exactly(32), Exactly(16), Exactly(2), Exactly(2), UpTo(MAX_SIGNATURE_BYTES)>>]

append_query_response_fields(d, signature) ==
    LET s == d.facts.serving
        o == d.facts.operation
        h == d.facts.desired.head
        l == d.facts.live IN
    <<d.request_id, d.request_digest, d.nonce, s.target, s.store, s.sequence, s.epoch, s.clock_domain,
      s.clock_generation, o.owner, o.reason>> \o encode_operation_lookup(o.lookup)
    \o <<h.kind, h.revision, h.slice, h.manifest, d.facts.desired.high_water, l.state, l.generation,
         l.measured_at, l.census, d.claim.peer, d.claim.channel_binding, d.claim.key, d.claim.algorithm,
         d.claim.algorithm_version, signature>>

QueryResponseDraft_try_new(request, facts, channel, claim) ==
    If(/\ request.draft.target = facts.serving.target
       /\ request.draft.store = facts.serving.store
       /\ request.draft.target = channel.target
       /\ MatchesChannel(claim, channel)
       /\ validate_query_expectation(request.draft.expected_digest, facts.operation.lookup),
       [request_id |-> request.draft.request_id, request_digest |-> request.request_digest,
        nonce |-> request.draft.auth.nonce, facts |-> facts, claim |-> claim])

QueryResponse_try_new(d, signature, bound) ==
    LET wire == begin_tlv_frame(QueryResponseFormat, append_query_response_fields(d, signature))
    IN  If(/\ BytesWithin(signature, MAX_SIGNATURE_BYTES)
           /\ BytesWithin(d.nonce, MAX_NONCE_BYTES)
           /\ ~digest_is_zero(d.request_digest)
           /\ FrameBytes(QueryResponseFormat, wire) <= bound,
           [draft |-> d, signature |-> signature, wire |-> wire])

decode_query_facts(p) ==
    UNION {RuntimeQueryFactsV1_try_new(s, o, d, l) :
        s \in RuntimeServingIdentityV1_try_new(
                  [target |-> p[4], store |-> p[5], sequence |-> p[6], epoch |-> p[7],
                   clock_domain |-> p[8], clock_generation |-> p[9]]),
        o \in UNION {RuntimeQueryOperationStateV1_try_new(p[10], p[11], x) :
                     x \in decode_operation_lookup(SubSeq(p, 12, 17), p[11])},
        d \in UNION {RuntimeDesiredStateV1_try_new(h, p[22]) :
                     h \in RuntimeDesiredHeadV1_try_new(
                               [kind |-> p[18], revision |-> p[19], slice |-> p[20], manifest |-> p[21]])},
        l \in RuntimeLiveFactsV1_try_new(
                  [state |-> p[23], generation |-> p[24], measured_at |-> p[25], census |-> p[26]])}

decode_query_response(f) ==
    UNION {UNION {{r \in QueryResponse_try_new(
                           [request_id |-> p[1], request_digest |-> p[2], nonce |-> p[3], facts |-> x,
                            claim |-> c], p[32], QueryResponseFormat.max) : r.wire = f} :
                  x \in decode_query_facts(p),
                  c \in ResponseAuthClaimV1_try_new(
                            [peer |-> p[27], channel_binding |-> p[28], key |-> p[29],
                             algorithm |-> p[30], algorithm_version |-> p[31]])} :
           p \in parse_tlv_frame(QueryResponseFormat, f)}

(* No answer from before the last one that was authenticated.                *)
validate_serving_freshness(s, baseline) ==
    /\ s.target = baseline.target /\ s.store = baseline.store /\ s.clock_domain = baseline.clock_domain
    /\ s.sequence >= baseline.sequence
    /\ s.epoch > baseline.epoch => s.sequence > baseline.sequence
    /\ s.epoch >= baseline.epoch
    /\ IF s.epoch = baseline.epoch THEN s.clock_generation = baseline.clock_generation
                                   ELSE s.clock_generation > baseline.clock_generation

QueryResponseAnswers(response, request, channel, baseline) ==
    LET d == response.draft IN
    /\ ResponseEcho(d, request)
    /\ d.facts.serving.target = request.draft.target /\ channel.target = request.draft.target
    /\ d.facts.serving.store = request.draft.store
    /\ validate_serving_freshness(d.facts.serving, baseline)
    /\ validate_query_expectation(request.draft.expected_digest, d.facts.operation.lookup)
    /\ MatchesChannel(d.claim, channel)
    /\ FrameBytes(QueryResponseFormat, response.wire) <= request.draft.max_bytes
=============================================================================
