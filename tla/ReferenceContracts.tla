------------------------- MODULE ReferenceContracts --------------------------
(***************************************************************************)
(* The frames that pass between controller and runtime, and the values in  *)
(* them (runtime-contracts: wire.rs, apply.rs, provenance.rs, temporal.rs  *)
(* and the first half of reference_assembly.rs).                           *)
(*                                                                         *)
(* Bytes are abstracted to fields: a frame is a header, a sequence of      *)
(* fields with their declared lengths, and the number of bytes after the   *)
(* last field (negative when the end of the frame is missing).  A digest   *)
(* is the tuple of what it is computed over, so that two digests are equal *)
(* exactly when their inputs are; Zero is the all-zero byte string and     *)
(* None an absent value.                                                   *)
(***************************************************************************)
EXTENDS Integers, Sequences, SequencesExt

CONSTANTS Zero, None

-----------------------------------------------------------------------------
(* Lengths: a fixed number of bytes, or between one and n of them.           *)
Exactly(n) == [min |-> n, max |-> n]
UpTo(n) == [min |-> 1, max |-> n]

(* A value of variable length carries its length.                            *)
Bytes(n, b) == [len |-> n, bytes |-> b]
BytesWithin(v, n) == v.len \in 1..n

LengthOf(spec, v) == IF spec.min = spec.max THEN spec.min ELSE v.len
LengthsOf(fields) ==
    LET sum[i \in 0..Len(fields)] == IF i = 0 THEN 0 ELSE sum[i - 1] + fields[i].len
    IN  sum[Len(fields)]

-----------------------------------------------------------------------------
(* Tag-length-value frames.  A format is [magic, header, version, max,       *)
(* layout, domain]: the layout gives the length of each field, tags are the  *)
(* positions, and a signing transcript is every field but the signature      *)
(* under the format's domain.                                                *)
TLV_HEADER_BYTES == 6

append_tlv(tag, spec, v) == [tag |-> tag, len |-> LengthOf(spec, v), val |-> v]

begin_tlv_frame(fmt, vals) ==
    [magic |-> fmt.magic, version |-> fmt.version, count |-> Len(vals),
     fields |-> SubSeq([i \in DOMAIN vals |-> append_tlv(i, fmt.layout[i], vals[i])], 1, Len(vals)), tail |-> 0]

FrameBytes(fmt, f) ==
    fmt.header + Len(f.fields) * TLV_HEADER_BYTES + LengthsOf(f.fields) + f.tail

begin_signing_transcript(fmt, vals) == <<fmt.domain, Front(vals)>>

(* The header, then exactly the declared tags in order, each with a length   *)
(* its tag admits, and nothing after them.                                   *)
parse_tlv_frame(fmt, f) ==
    IF /\ FrameBytes(fmt, f) <= fmt.max
       /\ f.magic = fmt.magic
       /\ f.version = fmt.version
       /\ f.count = Len(fmt.layout)
       /\ Len(f.fields) = Len(fmt.layout)
       /\ \A i \in DOMAIN f.fields :
              /\ f.fields[i].tag = i
              /\ f.fields[i].len \in fmt.layout[i].min..fmt.layout[i].max
       /\ f.tail = 0
    THEN {SubSeq([i \in DOMAIN f.fields |-> f.fields[i].val], 1, Len(f.fields))} ELSE {}

-----------------------------------------------------------------------------
(* Frames without tags: the lengths alone say where a field ends.            *)
FixedFrame(fmt, lens, vals) ==
    [magic |-> fmt.magic, version |-> fmt.version, count |-> 0,
     fields |-> SubSeq([i \in DOMAIN vals |-> append_tlv(0, lens[i], vals[i])], 1, Len(vals)), tail |-> 0]

FixedBytes(fmt, f) == fmt.header + LengthsOf(f.fields) + f.tail

FixedCursor(fmt, lens, f) ==
    IF /\ f.magic = fmt.magic
       /\ f.version = fmt.version
       /\ FixedBytes(fmt, f) <= fmt.max
       /\ Len(f.fields) = Len(lens)
       /\ \A i \in DOMAIN f.fields : f.fields[i].len \in lens[i].min..lens[i].max
       /\ f.tail = 0
    THEN {SubSeq([i \in DOMAIN f.fields |-> f.fields[i].val], 1, Len(f.fields))} ELSE {}

(* An optional digest is a presence byte and a digest that is zero exactly   *)
(* when the byte is.                                                         *)
encode_optional_digest(d) == IF d = None THEN <<0, Zero>> ELSE <<1, d>>
decode_optional_digest(presence, d) ==
    IF presence = 0 /\ d = Zero THEN {None}
    ELSE IF presence = 1 /\ d # Zero THEN {d} ELSE {}

-----------------------------------------------------------------------------
(* The values of an apply request: where the slice comes from, the writer's  *)
(* tenure proof, the controls the runtime compares, the time budget, and the *)
(* signed envelope that carries them.  A constructor is the set of values it *)
(* returns, empty when it fails.                                             *)

If(c, v) == IF c THEN {v} ELSE {}
Digest(domain, x) == <<domain, x>>

MAX_NONCE_BYTES == 64
MAX_SIGNATURE_BYTES == 512

-----------------------------------------------------------------------------
(* Provenance and the commitment to one target's slice.                      *)
RUNTIME_SLICE_HEADER_VERSION == 1

PlanProvenance(scope, plan, revision, plan_digest) ==
    [scope |-> scope, plan |-> plan, revision |-> revision, plan_digest |-> plan_digest]

RuntimeSliceHeader(target, provenance, assignment_digest) ==
    [contract_version |-> RUNTIME_SLICE_HEADER_VERSION, target |-> target,
     provenance |-> provenance, assignment_digest |-> assignment_digest]

RuntimeSliceCommitment(header) ==
    [header |-> header, target_slice_digest |-> Digest("target-slice", header)]

ValidSliceCommitment(c) == c.target_slice_digest = RuntimeSliceCommitment(c.header).target_slice_digest

-----------------------------------------------------------------------------
(* The writer's tenure proof.                                                *)
TenureProofAuthority_try_new(a) == a.algorithm # 0 /\ a.algorithm_version # 0
WriterTenureClaim_try_new(c) == c.epoch # 0 /\ c.supersedes_through < c.epoch

WriterTenureSigningTranscript(authority, claim, nonce) ==
    <<"writer-tenure-signing", <<authority, claim, nonce>>>>

WriterTenureProof_try_new(authority, claim, nonce, signature) ==
    If(/\ TenureProofAuthority_try_new(authority)
       /\ WriterTenureClaim_try_new(claim)
       /\ BytesWithin(nonce, MAX_NONCE_BYTES)
       /\ BytesWithin(signature, MAX_SIGNATURE_BYTES),
       [authority |-> authority, claim |-> claim, nonce |-> nonce, signature |-> signature])

(* The fingerprint of the whole proof, its signature included.               *)
envelope_digest(proof) == Digest("writer-tenure-proof", proof)

PlanWriterContext_try_new(writer, epoch, proof) ==
    If(proof.claim.writer = writer /\ proof.claim.epoch = epoch,
       [writer |-> writer, epoch |-> epoch, proof |-> proof])

-----------------------------------------------------------------------------
(* Controls: the writer, the slice that must be active, the operation.       *)
RuntimeApplyControl(writer, expected_active, operation) ==
    [writer_context |-> writer, expected_active |-> expected_active, operation_id |-> operation]

ensure_writer_scope_matches(slice, control) ==
    control.writer_context.proof.claim.scope = slice.header.provenance.scope

control_commitment_digest(slice, control) ==
    Digest("apply-control",
        <<slice.target_slice_digest, slice.header, control.writer_context.writer,
          control.writer_context.epoch, envelope_digest(control.writer_context.proof),
          IF control.expected_active = None THEN <<0, Zero>> ELSE <<1, control.expected_active>>,
          control.operation_id>>)

RuntimeApplyControlCommitment_try_new(slice, control) ==
    If(ValidSliceCommitment(slice) /\ ensure_writer_scope_matches(slice, control),
       [slice |-> slice, control |-> control,
        commitment_digest |-> control_commitment_digest(slice, control)])

validate_control_commitment(c) ==
    /\ ValidSliceCommitment(c.slice)
    /\ ensure_writer_scope_matches(c.slice, c.control)
    /\ c.commitment_digest = control_commitment_digest(c.slice, c.control)

-----------------------------------------------------------------------------
(* The budget, on the target's clock; an expired one is a legal value.       *)
APPLY_TEMPORAL_CONSTRAINT_VERSION == 1

ApplyTemporalConstraint_try_from_parts(t) ==
    If(/\ t.version = APPLY_TEMPORAL_CONSTRAINT_VERSION
       /\ t.original_budget # 0
       /\ t.remaining_budget <= t.original_budget, t)

try_reduce_remaining(t, budget) ==
    IF budget <= t.remaining_budget
    THEN ApplyTemporalConstraint_try_from_parts([t EXCEPT !.remaining_budget = budget]) ELSE {}

-----------------------------------------------------------------------------
(* Request authentication.                                                   *)
ApplyRequestAuthClaim_try_new(c) ==
    If(/\ c.algorithm # 0 /\ c.algorithm_version # 0
       /\ BytesWithin(c.nonce, MAX_NONCE_BYTES), c)

ApplyRequestAuthentication_try_new(claim, signature) ==
    If(BytesWithin(signature, MAX_SIGNATURE_BYTES), [claim |-> claim, signature |-> signature])

-----------------------------------------------------------------------------
(* The envelope.                                                             *)
(* One field per tag, in tag order.  Identities the claim repeats are        *)
(* written twice.                                                            *)
append_apply_fields(commitment, temporal, auth, signature) ==
    LET h == commitment.slice.header
        w == commitment.control.writer_context
        a == w.proof.authority
        c == w.proof.claim
        e == commitment.control.expected_active IN
    <<h.contract_version, h.target, h.provenance.scope, h.provenance.plan, h.provenance.revision,
      h.provenance.plan_digest, h.assignment_digest, commitment.slice.target_slice_digest,
      w.writer, w.epoch, a.authority, a.key, a.algorithm, a.algorithm_version,
      c.scope, c.writer, c.epoch, c.supersedes_through, w.proof.nonce, w.proof.signature,
      envelope_digest(w.proof), IF e = None THEN 0 ELSE 1, IF e = None THEN Zero ELSE e,
      commitment.control.operation_id, commitment.commitment_digest,
      temporal.version, temporal.constraint_id, temporal.clock_domain, temporal.clock_generation,
      temporal.original_budget, temporal.remaining_budget,
      auth.principal, auth.key, auth.algorithm, auth.algorithm_version, auth.nonce, signature>>

valid_field_length ==
    [tag \in 1..37 |->
        CASE tag \in {1, 13, 14, 22, 26, 34, 35} -> Exactly(2)
          [] tag \in {5, 10, 17, 18, 29, 30, 31} -> Exactly(8)
          [] tag \in {2, 3, 4, 9, 11, 12, 15, 16, 24, 27, 28, 32, 33} -> Exactly(16)
          [] tag \in {6, 7, 8, 21, 23, 25} -> Exactly(32)
          [] tag \in {19, 36} -> UpTo(MAX_NONCE_BYTES)
          [] tag \in {20, 37} -> UpTo(MAX_SIGNATURE_BYTES)]

ApplyEnvelopeFormat ==
    [magic |-> "runtime-apply-envelope", header |-> 35, version |-> 1, max |-> 4096,
     domain |-> "apply-envelope-auth-v1", layout |-> valid_field_length]

build_apply_signing_transcript(commitment, temporal, auth) ==
    begin_signing_transcript(ApplyEnvelopeFormat, append_apply_fields(commitment, temporal, auth, Zero))

build_apply_envelope_wire(commitment, temporal, authentication) ==
    begin_tlv_frame(ApplyEnvelopeFormat,
        append_apply_fields(commitment, temporal, authentication.claim, authentication.signature))

RuntimeApplyEnvelope_try_new(commitment, temporal, authentication) ==
    LET wire == build_apply_envelope_wire(commitment, temporal, authentication)
    IN  If(/\ validate_control_commitment(commitment)
           /\ FrameBytes(ApplyEnvelopeFormat, wire) <= ApplyEnvelopeFormat.max,
           [control_commitment |-> commitment, temporal |-> temporal, authentication |-> authentication,
            wire |-> wire, request_digest |-> Digest("apply-envelope-request-v1", wire)])

RuntimeApplyEnvelopeDraft_finalize(commitment, temporal, auth, signature) ==
    UNION {RuntimeApplyEnvelope_try_new(commitment, temporal, a) :
           a \in ApplyRequestAuthentication_try_new(auth, signature)}

(* The parts of an envelope read back from its fields: digests 8, 21 and 25  *)
(* are recomputed, repeated identities must agree, every part goes through   *)
(* its own constructor.                                                      *)
decode_apply_parts(p) ==
    LET slice == RuntimeSliceCommitment(
                     RuntimeSliceHeader(p[2], PlanProvenance(p[3], p[4], p[5], p[6]), p[7]))
        proofs == WriterTenureProof_try_new(
                     [authority |-> p[11], key |-> p[12], algorithm |-> p[13], algorithm_version |-> p[14]],
                     [scope |-> p[15], writer |-> p[16], epoch |-> p[17], supersedes_through |-> p[18]],
                     p[19], p[20])
        writers == UNION {PlanWriterContext_try_new(p[9], p[10], proof) :
                          proof \in {x \in proofs : envelope_digest(x) = p[21]}}
        expected == IF p[22] = 0 /\ p[23] = Zero THEN {None}
                    ELSE IF p[22] = 1 THEN {p[23]} ELSE {}
        commitments == {c \in UNION {RuntimeApplyControlCommitment_try_new(
                                         slice, RuntimeApplyControl(w, e, p[24])) :
                                     w \in writers, e \in expected} : c.commitment_digest = p[25]}
        temporals == ApplyTemporalConstraint_try_from_parts(
                         [version |-> p[26], constraint_id |-> p[27], clock_domain |-> p[28],
                          clock_generation |-> p[29], original_budget |-> p[30],
                          remaining_budget |-> p[31]])
        auths == ApplyRequestAuthClaim_try_new(
                     [principal |-> p[32], key |-> p[33], algorithm |-> p[34],
                      algorithm_version |-> p[35], nonce |-> p[36]])
    IN  IF /\ p[1] = RUNTIME_SLICE_HEADER_VERSION
           /\ slice.target_slice_digest = p[8]
           /\ p[29] # 0
        THEN {[commitment |-> c, temporal |-> t, auth |-> a] : c \in commitments, t \in temporals, a \in auths}
        ELSE {}

decode_apply_envelope(f) ==
    UNION {UNION {{e \in RuntimeApplyEnvelopeDraft_finalize(d.commitment, d.temporal, d.auth, p[37]) :
                       e.wire = f} :
                  d \in decode_apply_parts(p)} :
           p \in parse_tlv_frame(ApplyEnvelopeFormat, f)}

(* What a stored envelope must still satisfy.                                *)
validate_apply_envelope(e) ==
    /\ validate_control_commitment(e.control_commitment)
    /\ build_apply_envelope_wire(e.control_commitment, e.temporal, e.authentication) = e.wire
    /\ Digest("apply-envelope-request-v1", e.wire) = e.request_digest

-----------------------------------------------------------------------------
(* The reference control contracts: the values the controller and the        *)
(* runtime exchange, the rules their constructors enforce, their canonical   *)
(* frames, and the checks a reader makes.  A constructor is the set of       *)
(* values it returns, empty when it fails.                                   *)

(* 2^32 bytes and a day in nanoseconds in the code, which TLC's integers do  *)
(* not hold.                                                                 *)
CONSTANTS MAX_RUNTIME_ARTIFACT_BYTES, MAX_REFERENCE_LIFECYCLE_BUDGET_NANOS

digest_is_zero(d) == d = Zero

-----------------------------------------------------------------------------
(* Bounds.                                                                   *)
MAX_TARGET_TRIPLE_BYTES == 255
BUILD_IDENTITY_BYTES == 128
MAX_QUERY_RECORD_COUNT == 1

-----------------------------------------------------------------------------
(* Build descriptor, compatibility manifest and its projection.              *)
RuntimeTargetTriple(t) == BytesWithin(t, MAX_TARGET_TRIPLE_BYTES) /\ t.bytes # Zero

ReferenceFixtureEntryV1(definition, implementation, export, definition_digest, artifact) ==
    [definition |-> definition, implementation |-> implementation, export |-> export,
     definition_digest |-> definition_digest, fixture_artifact_digest |-> artifact]

compiled_reference_compatibility_digest(fixture) == Digest("compiled-reference-compatibility", fixture)
reference_empty_config_digest == Digest("reference-empty-config", 0)
reference_profile_fingerprint(fixture) ==
    Digest("reference-profile-fingerprint",
           <<1, {1, 2}, MAX_REFERENCE_LIFECYCLE_BUDGET_NANOS, reference_empty_config_digest, fixture>>)

DescriptorFormat == [magic |-> "PXBD", header |-> 6, version |-> 1, max |-> 367]
DescriptorLayout == <<Exactly(32), Exactly(8), Exactly(32), UpTo(MAX_TARGET_TRIPLE_BYTES), Exactly(32)>>
build_descriptor_wire(d) ==
    FixedFrame(DescriptorFormat, DescriptorLayout,
               <<d.build_instance_id, d.runtime_artifact_length, d.runtime_artifact_sha256,
                 d.target_triple, d.compiled_reference_compatibility_digest>>)

RuntimeBuildDescriptorV1_try_from_parts(d) ==
    If(/\ d.build_instance_id # Zero
       /\ d.runtime_artifact_length \in 1..MAX_RUNTIME_ARTIFACT_BYTES
       /\ ~digest_is_zero(d.runtime_artifact_sha256)
       /\ RuntimeTargetTriple(d.target_triple)
       /\ ~digest_is_zero(d.compiled_reference_compatibility_digest), d)

decode_build_descriptor(f) ==
    UNION {LET d == [build_instance_id |-> p[1], runtime_artifact_length |-> p[2],
                     runtime_artifact_sha256 |-> p[3], target_triple |-> p[4],
                     compiled_reference_compatibility_digest |-> p[5]]
           IN  {v \in RuntimeBuildDescriptorV1_try_from_parts(d) : build_descriptor_wire(v) = f} :
           p \in FixedCursor(DescriptorFormat, DescriptorLayout, f)}

RuntimeBuildIdentityV1_from_descriptor(d) ==
    [build_instance_id |-> d.build_instance_id,
     build_descriptor_digest |-> Digest("build-descriptor", build_descriptor_wire(d)),
     runtime_artifact_sha256 |-> d.runtime_artifact_sha256,
     compiled_reference_compatibility_digest |-> d.compiled_reference_compatibility_digest]

append_build_identity(i) ==
    <<i.build_instance_id, i.build_descriptor_digest, i.runtime_artifact_sha256,
      i.compiled_reference_compatibility_digest>>

decode_build_identity(p) ==
    If(\A k \in 1..4 : p[k] # Zero,
       [build_instance_id |-> p[1], build_descriptor_digest |-> p[2],
        runtime_artifact_sha256 |-> p[3], compiled_reference_compatibility_digest |-> p[4]])

append_fixture_entry(x) ==
    <<x.definition, x.implementation, x.export, x.definition_digest, x.fixture_artifact_digest>>
decode_fixture_entry(p) == ReferenceFixtureEntryV1(p[1], p[2], p[3], p[4], p[5])

RuntimeArtifactCompatibilityTargetRowV1_try_new(target, identity, fixture) ==
    If(identity.compiled_reference_compatibility_digest
           = compiled_reference_compatibility_digest(fixture),
       [target |-> target, build_identity |-> identity, fixture |-> fixture])

RowLayout == <<Exactly(16), Exactly(32), Exactly(32), Exactly(32), Exactly(32), Exactly(2), Exactly(2),
               Exactly(16), Exactly(16), Exactly(16), Exactly(32), Exactly(32)>>
append_manifest_target_row(row) ==
    <<row.target>> \o append_build_identity(row.build_identity) \o <<5, 1>>
                   \o append_fixture_entry(row.fixture)

decode_manifest_target_row(p) ==
    IF p[6] = 5 /\ p[7] = 1
    THEN UNION {RuntimeArtifactCompatibilityTargetRowV1_try_new(
                    p[1], i, decode_fixture_entry(SubSeq(p, 8, 12))) :
                i \in decode_build_identity(SubSeq(p, 2, 5))}
    ELSE {}

ManifestFormat == [magic |-> "PXCM", header |-> 6, version |-> 1, max |-> 266]
build_manifest_wire(row) == FixedFrame(ManifestFormat, RowLayout, append_manifest_target_row(row))

RuntimeArtifactCompatibilityManifestV1_from_row(row) ==
    [row |-> row, manifest_digest |-> Digest("compatibility-manifest", build_manifest_wire(row))]

decode_compatibility_manifest(f) ==
    {m \in {RuntimeArtifactCompatibilityManifestV1_from_row(row) :
            row \in UNION {decode_manifest_target_row(p) : p \in FixedCursor(ManifestFormat, RowLayout, f)}} :
        build_manifest_wire(m.row) = f}

ProjectionLayout == <<Exactly(32)>> \o RowLayout
ProjectionBytes == 4 + 2 + 32 + 260
append_projection(m) == <<m.manifest_digest>> \o append_manifest_target_row(m.row)

(* The digest is recomputed from the row.                                    *)
decode_compatibility_projection(p) ==
    {m \in {RuntimeArtifactCompatibilityManifestV1_from_row(row) :
            row \in decode_manifest_target_row(SubSeq(p, 2, 13))} : m.manifest_digest = p[1]}

-----------------------------------------------------------------------------
(* The execution plan: one source loop, or the authoritative empty state.    *)
OneSourceLoop == 1
EmptyDeactivate == 2

valid_lifecycle_budget(b) == b \in 1..MAX_REFERENCE_LIFECYCLE_BUDGET_NANOS

ReferenceLoopDomainSpecV1_try_new(d) ==
    If(/\ valid_lifecycle_budget(d.start_budget)
       /\ valid_lifecycle_budget(d.drain_budget)
       /\ valid_lifecycle_budget(d.cleanup_budget), d)

ReferenceLoopSubjectSpecV1_try_new(s) == If(s.config_digest = reference_empty_config_digest, s)

validate_reference_shape(e) ==
    \/ /\ e.mode = OneSourceLoop
       /\ e.domain # None /\ e.subject # None
       /\ e.subject.domain = e.domain.domain
       /\ e.subject.fixture = e.projection.row.fixture
       /\ e.subject.config_digest = reference_empty_config_digest
    \/ e.mode = EmptyDeactivate /\ e.domain = None /\ e.subject = None

TargetExecutionPlanV4_try_new(e) == If(validate_reference_shape(e), e)

ExecutionFormat == [magic |-> "PXTE", header |-> 6, version |-> 4, max |-> 525]
DomainLayout == <<Exactly(16), Exactly(8), Exactly(8), Exactly(8)>>
SubjectLayout == <<Exactly(16), Exactly(16), Exactly(16), Exactly(16), Exactly(16), Exactly(32), Exactly(32),
                   Exactly(32)>>
append_reference_domain(d) == <<d.domain, d.start_budget, d.drain_budget, d.cleanup_budget>>
append_reference_subject(s) == <<s.instance, s.domain>> \o append_fixture_entry(s.fixture) \o <<s.config_digest>>

(* The nested projection keeps its own magic and version, hence six bytes    *)
(* more than its fields.                                                     *)
ExecutionLayout(domain, subject) ==
    <<Exactly(6)>> \o ProjectionLayout \o <<Exactly(2), Exactly(1), Exactly(1)>>
    \o (IF domain THEN DomainLayout ELSE <<>>) \o <<Exactly(1)>>
    \o (IF subject THEN SubjectLayout ELSE <<>>)

build_target_execution_v4_wire(e) ==
    FixedFrame(ExecutionFormat, ExecutionLayout(e.domain # None, e.subject # None),
        <<"PXCP1">> \o append_projection(e.projection) \o <<1, e.mode>>
        \o (IF e.domain = None THEN <<0>> ELSE <<1>> \o append_reference_domain(e.domain))
        \o (IF e.subject = None THEN <<0>> ELSE <<1>> \o append_reference_subject(e.subject)))

decode_reference_domain(p) ==
    ReferenceLoopDomainSpecV1_try_new(
        [domain |-> p[1], start_budget |-> p[2], drain_budget |-> p[3], cleanup_budget |-> p[4]])
decode_reference_subject(p) ==
    ReferenceLoopSubjectSpecV1_try_new(
        [instance |-> p[1], domain |-> p[2], fixture |-> decode_fixture_entry(SubSeq(p, 3, 7)),
         config_digest |-> p[8]])

(* The presence bytes decide what follows them; the parts are decoded only   *)
(* when the lengths have consumed the whole frame.                           *)
decode_target_execution_v4(f) ==
    UNION {LET b == IF x THEN 4 ELSE 0
               at == 18 + b IN
           UNION {IF /\ p[1] = "PXCP1" /\ p[15] = 1 /\ p[16] \in {OneSourceLoop, EmptyDeactivate}
                     /\ p[17] = (IF x THEN 1 ELSE 0) /\ p[at] = (IF y THEN 1 ELSE 0)
                  THEN {e \in UNION {TargetExecutionPlanV4_try_new(
                                  [projection |-> m, mode |-> p[16], domain |-> d, subject |-> s]) :
                              m \in decode_compatibility_projection(SubSeq(p, 2, 14)),
                              d \in (IF x THEN decode_reference_domain(SubSeq(p, 18, 21)) ELSE {None}),
                              s \in (IF y THEN decode_reference_subject(SubSeq(p, at + 1, at + 8)) ELSE {None})} :
                        build_target_execution_v4_wire(e) = f}
                  ELSE {} :
                  p \in FixedCursor(ExecutionFormat, ExecutionLayout(x, y), f)} :
           x \in BOOLEAN, y \in BOOLEAN}

execution_digest(e) == Digest("target-execution", build_target_execution_v4_wire(e))
target_plan_assignments_v5_digest(e) == Digest("target-plan-assignments", execution_digest(e))

-----------------------------------------------------------------------------
(* The slice: provenance, target and the digest of its assignments.          *)
RuntimePlanSliceV5_try_new(commitment, execution) ==
    If(/\ ValidSliceCommitment(commitment)
       /\ commitment.header.assignment_digest = target_plan_assignments_v5_digest(execution)
       /\ commitment.header.target = execution.projection.row.target,
       [commitment |-> commitment, execution |-> execution])

(* Restores a slice from its stored body; provenance and digest come from    *)
(* the journal.                                                              *)
RuntimePlanSliceV5_decode_durable(f, target, provenance, expected) ==
    UNION {LET c == RuntimeSliceCommitment(
                         RuntimeSliceHeader(target, provenance, target_plan_assignments_v5_digest(e)))
           IN  IF e.projection.row.target = target /\ c.target_slice_digest = expected
               THEN RuntimePlanSliceV5_try_new(c, e) ELSE {} :
           e \in decode_target_execution_v4(f)}

-----------------------------------------------------------------------------
(* The apply envelope, version 2: the fields of version 1 with the store     *)
(* the request is meant for between the budget and the authentication.       *)
append_apply_v2_fields(commitment, temporal, store, auth, signature) ==
    LET v1 == append_apply_fields(commitment, temporal, auth, signature)
    IN  SubSeq(v1, 1, 31) \o <<store>> \o SubSeq(v1, 32, 37)

valid_apply_v2_field_length ==
    [tag \in 1..38 |-> IF tag < 32 THEN valid_field_length[tag]
                       ELSE IF tag = 32 THEN Exactly(32) ELSE valid_field_length[tag - 1]]

ApplyEnvelopeV2Format ==
    [magic |-> "runtime-apply-envelope", header |-> 35, version |-> 2, max |-> 4096,
     domain |-> "apply-envelope-auth-v2", layout |-> valid_apply_v2_field_length]

build_apply_v2_signing_transcript(commitment, temporal, store, auth) ==
    begin_signing_transcript(ApplyEnvelopeV2Format,
        append_apply_v2_fields(commitment, temporal, store, auth, Zero))

build_apply_envelope_v2_wire(commitment, temporal, store, authentication) ==
    begin_tlv_frame(ApplyEnvelopeV2Format,
        append_apply_v2_fields(commitment, temporal, store, authentication.claim, authentication.signature))

RuntimeApplyEnvelopeV2_try_new(commitment, temporal, store, authentication) ==
    LET wire == build_apply_envelope_v2_wire(commitment, temporal, store, authentication)
    IN  If(/\ validate_control_commitment(commitment)
           /\ BytesWithin(authentication.claim.nonce, MAX_NONCE_BYTES)
           /\ BytesWithin(authentication.signature, MAX_SIGNATURE_BYTES)
           /\ FrameBytes(ApplyEnvelopeV2Format, wire) <= ApplyEnvelopeV2Format.max,
           [control_commitment |-> commitment, temporal |-> temporal, store |-> store,
            authentication |-> authentication, wire |-> wire,
            request_digest |-> Digest("apply-envelope-request-v2", wire)])

RuntimeApplyEnvelopeV2Draft_finalize(commitment, temporal, store, auth, signature) ==
    UNION {RuntimeApplyEnvelopeV2_try_new(commitment, temporal, store, a) :
           a \in ApplyRequestAuthentication_try_new(auth, signature)}

validate_expected_store(envelope, store) == envelope.store = store

decode_apply_envelope_v2(f) ==
    UNION {UNION {{e \in RuntimeApplyEnvelopeV2Draft_finalize(d.commitment, d.temporal, p[32], d.auth, p[38]) :
                       e.wire = f /\ p[32] # Zero} :
                  d \in decode_apply_parts(SubSeq(p, 1, 31) \o SubSeq(p, 33, 38))} :
           p \in parse_tlv_frame(ApplyEnvelopeV2Format, f)}

-----------------------------------------------------------------------------
(* PXAR version 5: an envelope and the slice body it commits to, each with   *)
(* its length, between them the frame of zero bindings.                      *)
ZeroBindings == [name |-> "PXTA-zero", bytes |-> 10]
MAX_RUNTIME_APPLY_REQUEST_V5_BYTES == 18 + 4096 + 10 + 525

build_runtime_apply_request_v5_wire(envelope, execution) ==
    LET x == build_target_execution_v4_wire(execution)
    IN  [magic |-> "PXAR", version |-> 5,
         lengths |-> <<FrameBytes(ApplyEnvelopeV2Format, envelope.wire), ZeroBindings.bytes,
                       FixedBytes(ExecutionFormat, x)>>,
         envelope |-> envelope.wire, bindings |-> ZeroBindings, execution |-> x, tail |-> 0]

RuntimeApplyRequestV5_try_new(envelope, slice) ==
    If(/\ envelope.control_commitment.slice = slice.commitment
       /\ slice.commitment.header.target = slice.execution.projection.row.target,
       [envelope |-> envelope, slice |-> slice,
        wire |-> build_runtime_apply_request_v5_wire(envelope, slice.execution)])

canonical_slice_wire(request) == <<request.wire.bindings, request.wire.execution>>

decode_runtime_apply_request_v5(f) ==
    IF /\ f.magic = "PXAR" /\ f.version = 5
       /\ f.lengths[1] <= 4096 /\ f.lengths[2] = ZeroBindings.bytes /\ f.lengths[3] <= 525
       /\ f.lengths = <<FrameBytes(ApplyEnvelopeV2Format, f.envelope), f.bindings.bytes,
                        FixedBytes(ExecutionFormat, f.execution)>>
       /\ f.tail = 0
       /\ f.bindings = ZeroBindings
    THEN {r \in UNION {UNION {RuntimeApplyRequestV5_try_new(e, s) :
                              s \in RuntimePlanSliceV5_try_new(e.control_commitment.slice, x)} :
                       e \in decode_apply_envelope_v2(f.envelope), x \in decode_target_execution_v4(f.execution)} :
            r.wire = f}
    ELSE {}

(* The reference a receipt gives to the result of one request.               *)
derive_for_apply(target, store, scope, operation, request_digest) ==
    Digest("terminal-result", <<target, store, scope, operation, request_digest>>)
=============================================================================
