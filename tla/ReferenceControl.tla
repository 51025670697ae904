-------------------------- MODULE ReferenceControl ---------------------------
(***************************************************************************)
(* The runtime's side of the control socket, from installation to answer.  *)
(*                                                                         *)
(* Release and installation (installation.rs): the descriptor generated    *)
(* for one executable, the manifest generated from it, and their           *)
(* verification.  The control facade (reference_control.rs): the           *)
(* fingerprints and facts that both peers are written against.  The        *)
(* admission policy (admission.rs, runtime_provisioning.rs): whom a        *)
(* runtime trusts.  The endpoint (runtime_control_endpoint.rs,             *)
(* runtime_control_state.rs): what it verifies of its store before it      *)
(* serves, and its handlers.                                               *)
(***************************************************************************)
EXTENDS ReferenceQueries

-----------------------------------------------------------------------------
(* What is observed of the executable, and what is compiled into it.         *)
InstalledRuntimeArtifactObservationV1_try_new(a) ==
    If(/\ a.runtime_artifact_length \in 1..MAX_RUNTIME_ARTIFACT_BYTES
       /\ ~digest_is_zero(a.runtime_artifact_sha256)
       /\ RuntimeTargetTriple(a.target_triple), a)

RuntimeCompiledInstallationFactsV1_try_new(build_instance_id, fixture) ==
    If(build_instance_id # Zero, [build_instance_id |-> build_instance_id, fixture |-> fixture])

generate_build_descriptor(artifact, compiled) ==
    RuntimeBuildDescriptorV1_try_from_parts(
        [build_instance_id |-> compiled.build_instance_id,
         runtime_artifact_length |-> artifact.runtime_artifact_length,
         runtime_artifact_sha256 |-> artifact.runtime_artifact_sha256,
         target_triple |-> artifact.target_triple,
         compiled_reference_compatibility_digest |->
             compiled_reference_compatibility_digest(compiled.fixture)])

descriptor_digest(d) == Digest("build-descriptor", build_descriptor_wire(d))

expected_manifest(target, descriptor, compiled) ==
    {RuntimeArtifactCompatibilityManifestV1_from_row(row) :
     row \in RuntimeArtifactCompatibilityTargetRowV1_try_new(
                 target, RuntimeBuildIdentityV1_from_descriptor(descriptor), compiled.fixture)}

VerifiedRuntimeInstallationV1(descriptor, manifest) ==
    [descriptor |-> descriptor, build_identity |-> RuntimeBuildIdentityV1_from_descriptor(descriptor),
     manifest |-> manifest]

verify_descriptor(wire, digest, artifact, compiled) ==
    {d \in decode_build_descriptor(wire) :
        /\ descriptor_digest(d) = digest
        /\ d.runtime_artifact_length = artifact.runtime_artifact_length
        /\ d.runtime_artifact_sha256 = artifact.runtime_artifact_sha256
        /\ d.target_triple = artifact.target_triple
        /\ d.build_instance_id = compiled.build_instance_id}

generate_manifest(wire, digest, target, artifact, compiled) ==
    UNION {{VerifiedRuntimeInstallationV1(d, m) : m \in expected_manifest(target, d, compiled)} :
           d \in verify_descriptor(wire, digest, artifact, compiled)}

-----------------------------------------------------------------------------
(* Verification of an existing pair.                                         *)
verify_manifest_for_descriptor(descriptor, wire, digest, target, compiled) ==
    {VerifiedRuntimeInstallationV1(descriptor, m) :
     m \in {x \in decode_compatibility_manifest(wire) :
        /\ x.manifest_digest = digest
        /\ x.row.target = target
        /\ x.row.fixture = compiled.fixture
        /\ x.row.build_identity = RuntimeBuildIdentityV1_from_descriptor(descriptor)
        /\ x \in expected_manifest(target, descriptor, compiled)}}

verify_existing(dwire, ddigest, mwire, mdigest, target, artifact, compiled) ==
    UNION {verify_manifest_for_descriptor(d, mwire, mdigest, target, compiled) :
           d \in verify_descriptor(dwire, ddigest, artifact, compiled)}

(* A normal start reads no executable: the descriptor alone carries its      *)
(* length and digest; the compiled facts must still agree.                   *)
verify_pinned_startup(dwire, ddigest, mwire, mdigest, target, compiled) ==
    UNION {verify_manifest_for_descriptor(d, mwire, mdigest, target, compiled) :
           d \in {x \in decode_build_descriptor(dwire) :
                /\ descriptor_digest(x) = ddigest
                /\ x.build_instance_id = compiled.build_instance_id
                /\ x.compiled_reference_compatibility_digest
                       = compiled_reference_compatibility_digest(compiled.fixture)}}

-----------------------------------------------------------------------------
(* The controller's view of the installed manifest.                          *)
VerifiedRuntimeManifestIngressV1(m) ==
    [manifest |-> m, profile_fingerprint |-> reference_profile_fingerprint(m.row.fixture),
     canonical_empty_config_digest |-> reference_empty_config_digest]

verify_immutable_manifest_ingress(wire, digest) ==
    {VerifiedRuntimeManifestIngressV1(m) :
     m \in {x \in decode_compatibility_manifest(wire) : x.manifest_digest = digest}}

verify_immutable_manifest_projection_ingress(p, digest) ==
    {VerifiedRuntimeManifestIngressV1(m) :
     m \in {x \in decode_compatibility_projection(p) : x.manifest_digest = digest}}

-----------------------------------------------------------------------------
(* The control facade both peers are written against: the fingerprints they  *)
(* derive independently, and one builder and one reader per message of the   *)
(* reference profile.                                                        *)

-----------------------------------------------------------------------------
(* Fingerprints.                                                             *)
AllDistinct(s) == \A i, j \in DOMAIN s : s[i] = s[j] => i = j
NoneZero(s) == \A i \in DOMAIN s : s[i] # Zero

ed25519_control_key_fingerprint(public_key) == Digest("control-key", <<1, "Ed25519", public_key>>)

(* The trust of one authority and one controller; limits and algorithms are  *)
(* the profile's.                                                            *)
reference_admission_policy_fingerprint_v1(i) ==
    If(/\ NoneZero(<<i.target, i.scope, i.writer, i.controller_principal, i.controller_key,
                     i.controller_public_key, i.authority_principal, i.tenure_authority, i.tenure_key,
                     i.tenure_public_key>>)
       /\ i.authority_uid # 0 /\ i.authority_gid # 0
       /\ i.controller_principal # i.authority_principal
       /\ i.controller_public_key # i.tenure_public_key
       /\ AllDistinct(<<i.controller_key, i.tenure_authority, i.tenure_key>>),
       Digest("admission-policy",
           <<MAX_REFERENCE_LIFECYCLE_BUDGET_NANOS,
             <<i.scope, i.authority_principal, i.authority_uid, i.authority_gid, i.tenure_authority,
               i.tenure_key, i.tenure_public_key>>,
             <<i.scope, i.target, i.controller_principal, i.writer, i.controller_key,
               i.controller_public_key>>>>))

(* The socket as both ends see it, and the process behind it.                *)
reference_local_control_endpoint_identity_digest_v1(e) ==
    If(e.inode # 0 /\ e.mode <= 4095, Digest("control-endpoint", e))
reference_runtime_peer_credentials_digest_v1(c) == If(c.pid # 0, Digest("runtime-peer-credentials", c))

(* The stable part of the channel: neither inode nor process.                *)
reference_bootstrap_channel_policy_fingerprint_v1(i) ==
    If(/\ i.runtime_uid # 0 /\ i.runtime_gid # 0 /\ i.controller_uid # 0 /\ i.controller_gid # 0
       /\ i.runtime_uid # i.controller_uid
       /\ NoneZero(<<i.target, i.scope, i.controller_principal, i.controller_key, i.controller_public_key,
                     i.runtime_principal, i.response_key, i.response_public_key>>)
       /\ i.controller_public_key # i.response_public_key
       /\ AllDistinct(<<i.controller_principal, i.controller_key, i.runtime_principal, i.response_key>>),
       Digest("channel-policy", i))

-----------------------------------------------------------------------------
(* The execution plan, built from the verified manifest.                     *)
ValidatedReferenceLifecycleBudgetsV1_try_new(b) ==
    If(valid_lifecycle_budget(b.start) /\ valid_lifecycle_budget(b.drain) /\ valid_lifecycle_budget(b.cleanup), b)

strict_projection(ingress) == decode_compatibility_projection(append_projection(ingress.manifest))

try_one_source_loop(ingress, instance, domain, b) ==
    UNION {TargetExecutionPlanV4_try_new(
               [projection |-> m, mode |-> OneSourceLoop, domain |-> d, subject |-> s]) :
           m \in strict_projection(ingress),
           d \in ReferenceLoopDomainSpecV1_try_new(
                     [domain |-> domain, start_budget |-> b.start, drain_budget |-> b.drain,
                      cleanup_budget |-> b.cleanup]),
           s \in ReferenceLoopSubjectSpecV1_try_new(
                     [instance |-> instance, domain |-> domain, fixture |-> ingress.manifest.row.fixture,
                      config_digest |-> ingress.canonical_empty_config_digest])}

try_empty_deactivate(ingress) ==
    UNION {TargetExecutionPlanV4_try_new(
               [projection |-> m, mode |-> EmptyDeactivate, domain |-> None, subject |-> None]) :
           m \in strict_projection(ingress)}

validate_compiled_fixture(execution, compiled) == execution.projection.row.fixture = compiled.fixture

loop_facts(execution) ==
    IF execution.domain # None /\ execution.subject # None
    THEN {[instance |-> execution.subject.instance, domain |-> execution.domain.domain,
           budgets |-> [start |-> execution.domain.start_budget, drain |-> execution.domain.drain_budget,
                        cleanup |-> execution.domain.cleanup_budget],
           config_digest |-> execution.subject.config_digest]}
    ELSE {}

validate_manifest(execution, ingress) ==
    /\ append_projection(execution.projection) = append_projection(ingress.manifest)
    /\ execution.projection.manifest_digest = ingress.manifest.manifest_digest
    /\ execution.projection.row.target = ingress.manifest.row.target
    /\ reference_profile_fingerprint(execution.projection.row.fixture) = ingress.profile_fingerprint

-----------------------------------------------------------------------------
(* Apply.                                                                    *)
ReferenceApplyRequestDraftV1_try_new(execution, provenance, control, temporal, store, auth) ==
    LET header == RuntimeSliceHeader(execution.projection.row.target, provenance,
                                     target_plan_assignments_v5_digest(execution))
        commitment == RuntimeSliceCommitment(header)
    IN  {[slice |-> s, commitment |-> c, temporal |-> temporal, store |-> store, auth |-> auth] :
         s \in RuntimePlanSliceV5_try_new(commitment, execution),
         c \in IF store = Zero THEN {} ELSE RuntimeApplyControlCommitment_try_new(commitment, control)}

apply_signing_transcript(d) ==
    build_apply_v2_signing_transcript(d.commitment, d.temporal, d.store, d.auth)

finalize_apply_request(d, signature) ==
    UNION {RuntimeApplyRequestV5_try_new(e, d.slice) :
           e \in RuntimeApplyEnvelopeV2Draft_finalize(d.commitment, d.temporal, d.store, d.auth, signature)}

(* The draft a finalized or decoded request stands for.                      *)
apply_request_draft(r) ==
    [slice |-> r.slice, commitment |-> r.envelope.control_commitment, temporal |-> r.envelope.temporal,
     store |-> r.envelope.store, auth |-> r.envelope.authentication.claim]

verify_reference_durable_slice_v1(wire, provenance, expected, ingress) ==
    {s.execution : s \in {x \in RuntimePlanSliceV5_decode_durable(
                                    wire, ingress.manifest.row.target, provenance, expected) :
                          validate_manifest(x.execution, ingress)}}

(* The identities the runtime's replay ledgers retain.                       *)
reference_apply_ingress_identities_v1(r) ==
    LET h == r.slice.commitment.header
        w == r.envelope.control_commitment.control.writer_context
        a == r.envelope.authentication.claim
        t == r.envelope.temporal IN
    [tenure_nonce |-> Digest("tenure-nonce", <<h.provenance.scope, w.proof.authority, w.proof.nonce>>),
     request_nonce |-> Digest("request-nonce", <<h.provenance.scope, h.target, a.principal, w.writer, a.key,
                                                 a.algorithm, a.algorithm_version, a.nonce>>),
     temporal_lineage |-> Digest("temporal-lineage",
                              <<h.provenance.scope, h.target, t.constraint_id, t.clock_domain,
                                t.clock_generation, t.original_budget, t.remaining_budget>>)]

-----------------------------------------------------------------------------
(* Answers: the runtime takes peer and binding from the channel itself.      *)
ReferenceResponseAuthClaim_try_new(channel, key, algorithm, algorithm_version) ==
    ResponseAuthClaimV1_try_new(
        [peer |-> channel.peer, channel_binding |-> channel.binding_digest, key |-> key,
         algorithm |-> algorithm, algorithm_version |-> algorithm_version])

(* Committing means committing the slice of the request itself.              *)
ReferenceApplyTerminalFactsV1_try_new(request, f) ==
    IF f.epoch = 0 \/ f.sequence = 0 THEN {}
    ELSE RuntimeApplyTerminalFactsV1_try_new(request,
             IF f.head.disposition = CommittedIncoming
             THEN [f EXCEPT !.head = TerminalHead(CommittedIncoming, request.slice.commitment.target_slice_digest)]
             ELSE f)

desired_head_digest(f) == IF f.head.disposition = PreservedNone THEN None ELSE f.head.digest

ReferenceTerminalReceipt(request, facts, channel, claim, signature) ==
    UNION {TerminalReceipt_try_new(d, signature) : d \in TerminalReceiptDraft_try_new(request, facts, channel, claim)}

ReferenceBootstrapResponse(request, facts, channel, claim, signature) ==
    UNION {BootstrapResponse_try_new(d, signature, request.draft.max_bytes) :
           d \in BootstrapResponseDraft_try_new(request, facts, channel, claim)}

ReferenceQueryResponse(request, facts, channel, claim, signature) ==
    UNION {QueryResponse_try_new(d, signature, request.draft.max_bytes) :
           d \in QueryResponseDraft_try_new(request, facts, channel, claim)}

-----------------------------------------------------------------------------
(* What each side expects of the other's build.                              *)
ReferenceControllerBootstrapExpectationV1(ingress, policy) ==
    {[manifest |-> m, policy |-> policy] :
     m \in {x \in decode_compatibility_manifest(build_manifest_wire(ingress.manifest.row)) :
            /\ x.manifest_digest = ingress.manifest.manifest_digest
            /\ x.row.target = ingress.manifest.row.target}}

try_from_verified_installation(installation, compiled, policy) ==
    LET row == installation.manifest.row IN
    IF \/ row.build_identity # RuntimeBuildIdentityV1_from_descriptor(installation.descriptor)
       \/ row.fixture # compiled.fixture
    THEN {}
    ELSE BootstrapCompatibilityV1_try_from_parts(
        [compiled_build_id |-> compiled.build_instance_id,
         compiled_compatibility |-> compiled_reference_compatibility_digest(compiled.fixture),
         identity |-> RuntimeBuildIdentityV1_from_descriptor(installation.descriptor),
         manifest_digest |-> installation.manifest.manifest_digest,
         profile_fingerprint |-> reference_profile_fingerprint(compiled.fixture),
         policy_digest |-> policy])

-----------------------------------------------------------------------------
(* The facts of a query answer.                                              *)
canonical_query_operation_lookup(l) ==
    CASE l.kind = 1 -> try_known(l.digest, l.phase, l.result)
      [] l.kind = 2 -> try_conflict(l.digest)
      [] OTHER -> {l}

ReferenceQueryOperationStateV1_try_new(owner, reason, lookup) ==
    UNION {RuntimeQueryOperationStateV1_try_new(owner, reason, l) : l \in canonical_query_operation_lookup(lookup)}

ReferenceQueryDesiredStateV1_try_new(head, high_water) ==
    UNION {RuntimeDesiredStateV1_try_new(h, high_water) : h \in RuntimeDesiredHeadV1_try_new(head)}

ReferenceQueryFactsV1_try_new(serving, operations, desired, live) ==
    UNION {RuntimeQueryFactsV1_try_new(serving, o, d, l) :
           o \in operations, d \in desired, l \in RuntimeLiveFactsV1_try_new(live)}

validate_query_store(request, store) == store # Zero /\ request.draft.store = store

-----------------------------------------------------------------------------
(* Whom a runtime trusts: the provisioning it rebuilds at every start from   *)
(* its command line and its key files, the admission policy in it, and the   *)
(* two checks the policy makes of an apply request.                          *)

-----------------------------------------------------------------------------
(* Ed25519.  A public key is named by its secret; a signature is the pair of *)
(* the key and what it signs.  The all-zero point is weak.                   *)
ED25519_ALGORITHM == 1
ED25519_ALGORITHM_VERSION == 1
ED25519_SIGNATURE_BYTES == 64

Sign(key, transcript) == Bytes(ED25519_SIGNATURE_BYTES, <<key, transcript>>)

ensure_ed25519_profile(algorithm, version) ==
    algorithm = ED25519_ALGORITHM /\ version = ED25519_ALGORITHM_VERSION

parse_trusted_key(key) == If(key # Zero, key)
parse_reference_signature(s) == If(s.len = ED25519_SIGNATURE_BYTES, s)

VerifyStrict(key, transcript, signature) ==
    \E s \in parse_reference_signature(signature) : s = Sign(key, transcript)

-----------------------------------------------------------------------------
(* Trusted keys and the policy.                                              *)
REFERENCE_ADMISSION_CAPACITIES == <<256, 256, 256>>

TrustedTenureKey_try_new(identity, key, algorithm, version, public) ==
    IF ensure_ed25519_profile(algorithm, version)
    THEN {[selector |-> <<identity.scope, identity.authority, key, algorithm, version>>,
           identity |-> identity, key |-> key, verifying_key |-> k] : k \in parse_trusted_key(public)}
    ELSE {}

TrustedApplyKey_try_new(identity, key, algorithm, version, public) ==
    IF ensure_ed25519_profile(algorithm, version)
    THEN {[selector |-> <<identity.scope, identity.target, identity.principal, identity.writer, key,
                          algorithm, version>>,
           identity |-> identity, key |-> key, verifying_key |-> k] : k \in parse_trusted_key(public)}
    ELSE {}

DuplicateFree(keys) == \A i, j \in DOMAIN keys : keys[i].selector = keys[j].selector => i = j

(* Both trust sets are nonempty and name every selector once.                *)
ApplyAdmissionPolicy_try_new(maximum_budget, limits, tenure, apply) ==
    If(/\ maximum_budget # 0
       /\ tenure # <<>> /\ DuplicateFree(tenure)
       /\ apply # <<>> /\ DuplicateFree(apply),
       [maximum_budget |-> maximum_budget, limits |-> limits, tenure |-> tenure, apply |-> apply])

(* The policy is the one the shared fingerprint stands for.                  *)
verify_reference_fingerprint(policy, expected) ==
    /\ policy.maximum_budget = MAX_REFERENCE_LIFECYCLE_BUDGET_NANOS
    /\ policy.limits = REFERENCE_ADMISSION_CAPACITIES
    /\ Len(policy.tenure) = 1 /\ Len(policy.apply) = 1
    /\ LET t == policy.tenure[1]
           a == policy.apply[1] IN
       /\ t.identity.scope = a.identity.scope
       /\ expected \in reference_admission_policy_fingerprint_v1(
              [target |-> a.identity.target, scope |-> a.identity.scope, writer |-> a.identity.writer,
               controller_principal |-> a.identity.principal, controller_key |-> a.key,
               controller_public_key |-> a.verifying_key,
               authority_principal |-> t.identity.principal, authority_uid |-> t.identity.uid,
               authority_gid |-> t.identity.gid, tenure_authority |-> t.identity.authority,
               tenure_key |-> t.key, tenure_public_key |-> t.verifying_key])

-----------------------------------------------------------------------------
(* The checks of a request.                                                  *)
tenure_selector(r) ==
    LET a == r.envelope.control_commitment.control.writer_context.proof.authority
    IN  <<r.slice.commitment.header.provenance.scope, a.authority, a.key, a.algorithm, a.algorithm_version>>

apply_selector(r) ==
    LET c == r.envelope.authentication.claim
        h == r.slice.commitment.header
    IN  <<h.provenance.scope, h.target, c.principal,
          r.envelope.control_commitment.control.writer_context.writer, c.key, c.algorithm, c.algorithm_version>>

(* Trust and both signatures, without the clock: a stored terminal stays     *)
(* readable when the generation it was signed for is history.                *)
authenticate_reference_apply_request(policy, r) ==
    LET w == r.envelope.control_commitment.control.writer_context
        proof == w.proof
    IN  IF /\ proof.claim.scope = r.slice.commitment.header.provenance.scope
           /\ proof.claim.writer = w.writer /\ proof.claim.epoch = w.epoch
           /\ \E i \in DOMAIN policy.tenure :
                 /\ policy.tenure[i].selector = tenure_selector(r)
                 /\ VerifyStrict(policy.tenure[i].verifying_key,
                        WriterTenureSigningTranscript(proof.authority, proof.claim, proof.nonce), proof.signature)
           /\ \E i \in DOMAIN policy.apply :
                 /\ policy.apply[i].selector = apply_selector(r)
                 /\ VerifyStrict(policy.apply[i].verifying_key,
                        apply_signing_transcript(apply_request_draft(r)), r.envelope.authentication.signature)
        THEN {reference_apply_ingress_identities_v1(r)} ELSE {}

(* A fresh request is also signed for this clock, within its budget.  The    *)
(* deadline's u64 sum of nanoseconds cannot overflow while a process lives.  *)
verify_reference_apply_request(policy, r, reading) ==
    LET t == r.envelope.temporal IN
    IF /\ t.clock_domain = reading.domain /\ t.clock_generation = reading.generation
       /\ t.original_budget <= policy.maximum_budget
       /\ t.remaining_budget # 0
       /\ reading.now # 0
    THEN {[identities |-> i, admitted_at |-> reading.now] : i \in authenticate_reference_apply_request(policy, r)}
    ELSE {}

-----------------------------------------------------------------------------
(* Provisioning.  Paths are names; a key file is its key, or Zero when its   *)
(* type, owner, mode, links or length are not the ones a key file has.       *)
KeyPaths(i) == <<i.controller_public_key_path, i.response_public_key_path, i.response_seed_path,
                 i.tenure_public_key_path>>

validate_provisioning_input(i) ==
    /\ AllDistinct(KeyPaths(i) \o <<i.socket_path>>)
    /\ NoneZero(<<i.target, i.scope, i.writer>>)
    /\ LET roles == <<i.runtime_principal, i.controller_principal, i.authority_principal, i.controller_key,
                      i.response_key, i.tenure_authority, i.tenure_key>>
       IN  NoneZero(roles) /\ AllDistinct(roles)
    /\ LET uids == <<i.runtime_uid, i.controller_uid, i.authority_uid>>
       IN  AllDistinct(uids) /\ \A k \in 1..3 : uids[k] # 0
    /\ i.runtime_gid # 0 /\ i.controller_gid # 0 /\ i.authority_gid # 0

validate_runtime_credentials(p, process) == process.uid = p.runtime_uid /\ process.gid = p.runtime_gid

read_exact_key_file(files, path) == If(files[path] # Zero, files[path])

owner_target_fingerprint(i) ==
    Digest("owner-target", <<i.target, i.runtime_principal, i.runtime_uid, i.runtime_gid>>)

provisioned_policy(i, controller, tenure) ==
    UNION {ApplyAdmissionPolicy_try_new(MAX_REFERENCE_LIFECYCLE_BUDGET_NANOS, REFERENCE_ADMISSION_CAPACITIES,
                                        <<t>>, <<a>>) :
           t \in TrustedTenureKey_try_new(
                     [scope |-> i.scope, principal |-> i.authority_principal, uid |-> i.authority_uid,
                      gid |-> i.authority_gid, authority |-> i.tenure_authority],
                     i.tenure_key, ED25519_ALGORITHM, ED25519_ALGORITHM_VERSION, tenure),
           a \in TrustedApplyKey_try_new(
                     [scope |-> i.scope, target |-> i.target, principal |-> i.controller_principal,
                      writer |-> i.writer],
                     i.controller_key, ED25519_ALGORITHM, ED25519_ALGORITHM_VERSION, controller)}

(* The input with the keys behind its paths: the record both fingerprints    *)
(* are computed over.                                                        *)
WithKeys(i, controller, response, tenure) ==
    [socket_path |-> i.socket_path, target |-> i.target, scope |-> i.scope, writer |-> i.writer,
     controller_principal |-> i.controller_principal, controller_key |-> i.controller_key,
     controller_public_key |-> controller, authority_principal |-> i.authority_principal,
     authority_uid |-> i.authority_uid, authority_gid |-> i.authority_gid,
     tenure_authority |-> i.tenure_authority, tenure_key |-> i.tenure_key, tenure_public_key |-> tenure,
     runtime_uid |-> i.runtime_uid, runtime_gid |-> i.runtime_gid, controller_uid |-> i.controller_uid,
     controller_gid |-> i.controller_gid, runtime_principal |-> i.runtime_principal,
     response_key |-> i.response_key, response_public_key |-> response]

(* The seed must be that of the public key, and no two roles share a key.    *)
RuntimeProvisioningV1_try_new(i, files, process) ==
    IF validate_provisioning_input(i) /\ validate_runtime_credentials(i, process)
    THEN UNION {LET k == WithKeys(i, controller, response, tenure) IN
                {[input |-> k, policy |-> p, owner_target |-> owner_target_fingerprint(i),
                  admission |-> admission, channel |-> channel,
                  controller_fingerprint |-> ed25519_control_key_fingerprint(controller)] :
                 p \in {x \in provisioned_policy(i, controller, tenure) :
                        \E f \in reference_admission_policy_fingerprint_v1(k) : verify_reference_fingerprint(x, f)},
                 admission \in reference_admission_policy_fingerprint_v1(k),
                 channel \in IF seed = response /\ AllDistinct(<<controller, response, tenure>>)
                             THEN reference_bootstrap_channel_policy_fingerprint_v1(k) ELSE {}} :
                controller \in read_exact_key_file(files, i.controller_public_key_path),
                response \in read_exact_key_file(files, i.response_public_key_path),
                seed \in read_exact_key_file(files, i.response_seed_path),
                tenure \in read_exact_key_file(files, i.tenure_public_key_path)}
    ELSE {}

(* The four pins the first snapshot of the store was written with.           *)
validate_snapshot_pins(p, pins, process) ==
    /\ validate_runtime_credentials(p.input, process)
    /\ pins = [owner_target |-> p.owner_target, admission |-> p.admission,
               channel |-> p.channel, controller_fingerprint |-> p.controller_fingerprint]

-----------------------------------------------------------------------------
(* The runtime's control endpoint: what it verifies of its store before it   *)
(* serves, how it projects its journal into the answers it signs, and its    *)
(* three handlers.  A handler returns an answer, nothing, "Rejected", which  *)
(* drops the connection, or "Internal", which ends the service.              *)

Answer(wire) == [result |-> "Answer", wire |-> wire]
Rejected == [result |-> "Rejected"]
Internal == [result |-> "Internal"]

(* The element of a set of at most one, or what its absence means.           *)
OneOf(S, absent) == CHOOSE x \in S \union {absent} : S # {} => x \in S

-----------------------------------------------------------------------------
(* Readiness and the projections of a query answer.  live is the journal's   *)
(* live materialization: its tag, its eligibility when it was invalidated by *)
(* a start, its generation and the resource census recorded with it.         *)
Invalid(live, eligibilities) == live.tag = "StartupInvalidated" /\ live.eligibility \in eligibilities

bootstrap_readiness(live) ==
    IF \/ live.tag \in {"None", "LiveReady", "ExactZero"}
       \/ Invalid(live, {"NoActiveHead", "CanonicalEmptyExactZero"})
    THEN <<ReadyForApply, NoReason>>
    ELSE IF live.tag = "Recovering" \/ Invalid(live, {"EligibleOneSourceLoop"})
    THEN <<NotReadyRecovering, Recovering>>
    ELSE IF live.tag = "RecoveryFailedNotReady" \/ Invalid(live, {"RecoveryFailureLatched"})
    THEN <<RecoveryFailedNotReady, RecoveryFailed>>
    ELSE IF live.tag = "Draining" THEN <<NotReadyBusy, RuntimeBusy>>
    ELSE <<ValidatedOperationalQuarantine, OwnershipUncertainReason>>

(* The owner's state, and the reason that makes every lookup indeterminate.  *)
query_owner_projection(readiness) ==
    CASE readiness[1] = ReadyForApply -> [state |-> Operational, reason |-> NoReason, indeterminate |-> FALSE]
      [] readiness[1] \in {NotReadyRecovering, RecoveryFailedNotReady, NotReadyBusy} ->
             [state |-> ApplyDisabled, reason |-> readiness[2], indeterminate |-> FALSE]
      [] readiness[1] = ValidatedOperationalQuarantine ->
             [state |-> OwnershipUncertain, reason |-> readiness[2], indeterminate |-> TRUE]

query_prepared_phase(phase, retiring) ==
    CASE phase \in {"PreparedNoEffects", "SupersededBeforeEffects", "StartupExpiredNoEffects"} ->
             PreparedNoEffects
      [] phase = "FirstActionIntent" -> FirstActionIntent
      [] phase \in {"SupersededReconcileRequired", "StartupReconcileRequired"} ->
             IF retiring THEN HeadCommittedRetiringOld ELSE FirstActionIntent
      [] phase = "HeadCommittedRetiringOld" -> HeadCommittedRetiringOld

query_known_or_conflict(expected, existing, phase, result) ==
    IF expected # None /\ expected # existing THEN Conflict(existing) ELSE Known(existing, phase, result)

(* The prepared operation first, then the terminal ones.                     *)
query_operation_lookup(prepared, terminals, scope, operation, expected) ==
    IF \E p \in prepared : p.scope = scope /\ p.operation = operation
    THEN LET p == CHOOSE p \in prepared : TRUE
         IN  query_known_or_conflict(expected, p.digest, query_prepared_phase(p.phase, p.retiring), None)
    ELSE IF \E t \in terminals : t.scope = scope /\ t.operation = operation
    THEN LET t == CHOOSE t \in terminals : t.scope = scope /\ t.operation = operation
         IN  query_known_or_conflict(expected, t.digest, TerminalPhase, t.result)
    ELSE Unknown

query_desired_projection(head, high_water) == ReferenceQueryDesiredStateV1_try_new(head, high_water)

(* generation is the largest one of a resource that is not terminal.  The    *)
(* census that was recorded must still be the census.                        *)
query_live_projection(live, prepared, generation, census, measured_at) ==
    LET uncertain == IF generation = 0 THEN LiveQuarantine ELSE Uncertain
        facts == CASE live.tag = "None" ->
                          <<IF prepared THEN LiveNotReady ELSE ExactZero, 0, census>>
                   [] Invalid(live, {"NoActiveHead", "CanonicalEmptyExactZero"}) ->
                          <<ExactZero, 0, live.census>>
                   [] Invalid(live, {"EligibleOneSourceLoop"}) -> <<LiveRecovering, generation, live.census>>
                   [] Invalid(live, {"RecoveryFailureLatched"}) ->
                          <<LiveRecoveryFailedNotReady, 0, live.census>>
                   [] Invalid(live, {"ReconcileRequired"}) -> <<uncertain, generation, live.census>>
                   [] live.tag = "Recovering" -> <<LiveRecovering, live.generation, live.census>>
                   [] live.tag = "LiveReady" -> <<LiveReady, live.generation, live.census>>
                   [] live.tag = "RecoveryFailedNotReady" ->
                          <<LiveRecoveryFailedNotReady, 0, live.census>>
                   [] live.tag = "Draining" -> <<Draining, live.generation, live.census>>
                   [] live.tag = "ExactZero" -> <<ExactZero, 0, live.census>>
                   [] live.tag = "Quarantined" -> <<uncertain, generation, live.census>>
    IN  If(facts[3] = census,
           [state |-> facts[1], generation |-> facts[2], measured_at |-> measured_at,
            census |-> Digest("census", census)])

(* view = [live, prepared, terminals, head, high_water, generation, census]  *)
runtime_query_facts(serving, view, now, request) ==
    LET owner == query_owner_projection(bootstrap_readiness(view.live))
        lookup == IF owner.indeterminate THEN Indeterminate(owner.reason)
                  ELSE query_operation_lookup(view.prepared, view.terminals, request.draft.scope,
                                              request.draft.operation, request.draft.expected_digest)
    IN  UNION {ReferenceQueryFactsV1_try_new(
                   serving, ReferenceQueryOperationStateV1_try_new(owner.state, owner.reason, lookup),
                   query_desired_projection(view.head, view.high_water), live) :
               live \in query_live_projection(view.live, view.prepared # {}, view.generation, view.census, now)}

-----------------------------------------------------------------------------
(* Channel and authentication.                                               *)
CONTROL_SOCKET_MODE == 432    \* 0o660

(* The socket as the service sees it: still the file it bound, still itself. *)
live_runtime_channel(p, socket, process) ==
    IF validate_runtime_credentials(p.input, process)
    THEN UNION {ControlChannelBindingV1_try_new(p.input.target, p.input.runtime_principal, e, c) :
                e \in reference_local_control_endpoint_identity_digest_v1(socket),
                c \in reference_runtime_peer_credentials_digest_v1(process)}
    ELSE {}

peer_is_authorized(p, peer) == peer.uid = p.input.controller_uid /\ peer.gid = p.input.controller_gid

AuthorizedRead(p, draft) ==
    /\ draft.target = p.input.target /\ draft.scope = p.input.scope
    /\ draft.auth.principal = p.input.controller_principal /\ draft.auth.key = p.input.controller_key
    /\ ensure_ed25519_profile(draft.auth.algorithm, draft.auth.algorithm_version)

authenticate_request(p, r) ==
    /\ AuthorizedRead(p, r.draft)
    /\ VerifyStrict(p.input.controller_public_key,
           begin_signing_transcript(BootstrapRequestFormat, append_bootstrap_request_fields(r.draft, Zero)),
           r.signature)

authenticate_query_request(p, store, r) ==
    /\ AuthorizedRead(p, r.draft)
    /\ validate_query_store(r, store)
    /\ VerifyStrict(p.input.controller_public_key,
           begin_signing_transcript(QueryRequestFormat, append_query_request_fields(r.draft, Zero)), r.signature)

response_claim(rt) ==
    ReferenceResponseAuthClaim_try_new(rt.channel, rt.provisioning.input.response_key,
                                       ED25519_ALGORITHM, ED25519_ALGORITHM_VERSION)

serving_identity(rt) ==
    RuntimeServingIdentityV1_try_new(
        [target |-> rt.provisioning.input.target, store |-> rt.disk.store, sequence |-> rt.disk.sequence,
         epoch |-> rt.disk.epoch, clock_domain |-> rt.disk.clock_domain, clock_generation |-> rt.disk.epoch])

-----------------------------------------------------------------------------
(* Handlers.  rt = [provisioning, compiled, compatibility, channel, process, *)
(* disk]; disk is the durable snapshot.                                      *)
StartedSnapshot(disk) == disk.epoch # 0

runtime_bootstrap_core(rt) ==
    UNION {LET readiness == bootstrap_readiness(rt.disk.live)
           IN  BootstrapFactsV1_try_new(s, rt.compatibility, readiness[1], readiness[2]) : s \in serving_identity(rt)}

(* A frame that is not a request, or not the controller's, is rejected; a    *)
(* response that cannot be built is an error of the service.                 *)
handle_bootstrap(rt, frame) ==
    LET requests == {r \in decode_bootstrap_request(frame) : authenticate_request(rt.provisioning, r)}
        signed(d) == Sign(rt.provisioning.input.response_public_key,
                          begin_signing_transcript(BootstrapResponseFormat,
                                                   append_bootstrap_response_fields(d, Zero)))
        responses == UNION {UNION {BootstrapResponse_try_new(d, signed(d), r.draft.max_bytes) :
                                   d \in UNION {BootstrapResponseDraft_try_new(r, f, rt.channel, c) :
                                                f \in runtime_bootstrap_core(rt), c \in response_claim(rt)}} :
                            r \in requests}
    IN  IF ~StartedSnapshot(rt.disk) \/ runtime_bootstrap_core(rt) = {} THEN Internal
        ELSE IF requests = {} THEN Rejected
        ELSE IF responses = {} THEN Internal ELSE Answer((CHOOSE r \in responses : TRUE).wire)

JournalView(disk) ==
    [live |-> disk.live, generation |-> disk.live.generation, census |-> disk.census,
     high_water |-> disk.high_water,
     prepared |-> IF disk.prepared = None THEN {}
                  ELSE {LET b == apply_terminal_request_binding(disk.prepared.request)
                        IN  [scope |-> b.scope, operation |-> b.operation, digest |-> b.request_digest,
                             phase |-> "PreparedNoEffects", retiring |-> FALSE]},
     terminals |-> {[scope |-> t.receipt.draft.scope, operation |-> t.receipt.draft.operation,
                     digest |-> t.receipt.draft.request_digest,
                     result |-> t.receipt.draft.facts.result_ref] : t \in ToSet(disk.terminals)},
     head |-> IF disk.head = None THEN NoHead
              ELSE [kind |-> IF disk.head.execution.mode = OneSourceLoop THEN HeadOneSourceLoop
                             ELSE HeadEmptyDeactivate,
                    revision |-> disk.head.commitment.header.provenance.revision,
                    slice |-> disk.head.commitment.target_slice_digest,
                    manifest |-> disk.head.execution.projection.manifest_digest]]

(* The same, but a response that exceeds the requested bound is a rejection. *)
handle_query(rt, frame) ==
    LET decoded == decode_query_request(frame)
        requests == {r \in decoded : authenticate_query_request(rt.provisioning, rt.disk.store, r)}
        facts(r) == UNION {runtime_query_facts(s, JournalView(rt.disk), 1, r) : s \in serving_identity(rt)}
        drafts == UNION {UNION {QueryResponseDraft_try_new(r, f, rt.channel, c) :
                                f \in facts(r), c \in response_claim(rt)} : r \in requests}
        signed(d) == Sign(rt.provisioning.input.response_public_key,
                          begin_signing_transcript(QueryResponseFormat, append_query_response_fields(d, Zero)))
        responses == UNION {UNION {QueryResponse_try_new(d, signed(d), r.draft.max_bytes) : d \in drafts} :
                            r \in requests}
    IN  IF decoded = {} THEN Rejected
        ELSE IF ~validate_snapshot_pins(rt.provisioning, rt.disk.pins, rt.process) \/ ~StartedSnapshot(rt.disk)
             THEN Internal
        ELSE IF requests = {} THEN Rejected
        ELSE IF drafts = {} THEN Internal
        ELSE IF responses = {} THEN Rejected ELSE Answer((CHOOSE r \in responses : TRUE).wire)

reference_apply_base_validation(rt, r) ==
    LET h == r.slice.commitment.header
        c == r.envelope.authentication.claim IN
    /\ h.target = rt.provisioning.input.target /\ h.provenance.scope = rt.provisioning.input.scope
    /\ c.principal = rt.provisioning.input.controller_principal /\ c.key = rt.provisioning.input.controller_key
    /\ rt.channel.target = rt.provisioning.input.target
    /\ rt.channel.peer = rt.provisioning.input.runtime_principal
    /\ validate_expected_store(r.envelope, rt.disk.store)
    /\ \E m \in verify_immutable_manifest_ingress(rt.disk.manifest.wire, rt.disk.manifest.digest) :
           validate_manifest(r.slice.execution, m)
    /\ validate_compiled_fixture(r.slice.execution, rt.compiled)

(* Matches(t): the stored terminal of the request's scope and operation.     *)
Matches(t, r) ==
    /\ t.receipt.draft.scope = r.slice.commitment.header.provenance.scope
    /\ t.receipt.draft.operation = r.envelope.control_commitment.control.operation_id

reference_terminal_match(disk, r) ==
    LET found == {t \in ToSet(disk.terminals) : Matches(t, r)} IN
    IF found = {} THEN "Absent"
    ELSE IF \E t \in found : t.receipt.draft.request_digest = r.envelope.request_digest THEN "Exact"
    ELSE "Conflict"

reference_apply_cas_matches(disk, r) ==
    r.envelope.control_commitment.control.expected_active
        = IF disk.head = None THEN None ELSE disk.head.commitment.target_slice_digest

reference_apply_fresh_preflight(rt, r) ==
    IF bootstrap_readiness(rt.disk.live)[1] = ReadyForApply /\ reference_apply_cas_matches(rt.disk, r)
    THEN verify_reference_apply_request(rt.provisioning.policy, r,
             [domain |-> rt.disk.clock_domain, generation |-> rt.disk.epoch, now |-> 1])
    ELSE {}

(* A stored terminal is returned as it is, and must still be canonical.      *)
terminal_response_wire(t) ==
    IF \E x \in decode_apply_terminal_receipt(t.receipt.wire) : x.wire = t.receipt.wire
    THEN Answer(t.receipt.wire) ELSE Internal


handle_decoded_apply(rt, r, match) ==
    IF ~validate_snapshot_pins(rt.provisioning, rt.disk.pins, rt.process) \/ ~StartedSnapshot(rt.disk)
    THEN Internal
    ELSE IF ~reference_apply_base_validation(rt, r) \/ match = "Conflict" THEN Rejected
    ELSE IF match = "Exact"
    THEN IF authenticate_reference_apply_request(rt.provisioning.policy, r) = {} THEN Rejected
         ELSE terminal_response_wire(CHOOSE t \in ToSet(rt.disk.terminals) : Matches(t, r))
    ELSE IF reference_apply_fresh_preflight(rt, r) = {} THEN Rejected
    ELSE [result |-> "Apply", request |-> r]

handle_apply(rt, frame) ==
    OneOf({handle_decoded_apply(rt, r, reference_terminal_match(rt.disk, r)) :
           r \in decode_runtime_apply_request_v5(frame)}, Rejected)

(* The live channel is compared for every connection, the magic decides.     *)
handle_request(rt, frame, live) ==
    IF rt.channel \notin live THEN Rejected
    ELSE CASE frame.magic = "PXBR" -> handle_bootstrap(rt, frame)
           [] frame.magic = "PXQR" -> handle_query(rt, frame)
           [] frame.magic = "PXAR" -> handle_apply(rt, frame)
           [] OTHER -> Rejected

-----------------------------------------------------------------------------
(* The start: what is verified before the first commit.                      *)
verify_startup_installation(disk, target, compiled) ==
    {i \in verify_pinned_startup(disk.descriptor.wire, disk.descriptor.digest, disk.manifest.wire,
                                 disk.manifest.digest, target, compiled) :
        /\ disk.compiled_build_id = compiled.build_instance_id
        /\ disk.compiled_compatibility = compiled_reference_compatibility_digest(compiled.fixture)
        /\ disk.pinned_identity = i.build_identity}

validate_startup_durable_slice(slice, mode, ingress, compiled) ==
    \E x \in verify_reference_durable_slice_v1(build_target_execution_v4_wire(slice.execution),
                 slice.commitment.header.provenance, slice.commitment.target_slice_digest, ingress) :
        validate_compiled_fixture(x, compiled) /\ x.mode = mode

(* The runtime's own signature on every receipt it stored.                   *)
validate_startup_terminal_producer(disk, t, p) ==
    \E x \in decode_apply_terminal_receipt(t.receipt.wire) :
        /\ x.draft.target = p.input.target /\ x.draft.store = disk.store
        /\ x.draft.scope = t.receipt.draft.scope /\ x.draft.operation = t.receipt.draft.operation
        /\ x.draft.request_digest = t.receipt.draft.request_digest
        /\ x.draft.claim.peer = p.input.runtime_principal /\ x.draft.claim.key = p.input.response_key
        /\ ensure_ed25519_profile(x.draft.claim.algorithm, x.draft.claim.algorithm_version)
        /\ VerifyStrict(p.input.response_public_key,
               begin_signing_transcript(TerminalReceiptFormat,
                                        append_apply_terminal_receipt_fields(x.draft, Zero)), x.signature)

(* A prepared request is authenticated again, by the policy of this start.   *)
validate_startup_prepared(disk, ingress, compiled, p) ==
    LET r == disk.prepared.request
        w == r.envelope.control_commitment.control.writer_context IN
    /\ disk.prepared.channel.target = p.input.target
    /\ disk.prepared.channel.peer = p.input.runtime_principal
    /\ r \in decode_runtime_apply_request_v5(r.wire)
    /\ r.slice.commitment.header.target = p.input.target
    /\ \E i \in authenticate_reference_apply_request(p.policy, r) :
          /\ disk.fence # None
          /\ \/ disk.fence = [writer |-> w.writer, epoch |-> w.epoch, nonce |-> i.tenure_nonce,
                              proof |-> envelope_digest(w.proof)]
             \/ disk.fence.epoch > w.epoch
    /\ validate_expected_store(r.envelope, disk.store)
    /\ validate_manifest(r.slice.execution, ingress)
    /\ validate_compiled_fixture(r.slice.execution, compiled)

validate_startup_durable_control_state(disk, ingress, compiled, p) ==
    /\ disk.prepared # None => validate_startup_prepared(disk, ingress, compiled, p)
    /\ disk.head # None =>
          /\ disk.head.commitment.header.provenance.scope = p.input.scope
          /\ validate_startup_durable_slice(disk.head, disk.head.execution.mode, ingress, compiled)
    /\ \A t \in ToSet(disk.terminals) :
          t.receipt.draft.scope = p.input.scope /\ validate_startup_terminal_producer(disk, t, p)

-----------------------------------------------------------------------------
(* Admission against the replay ledgers: first the tenure alone, then the    *)
(* rest, each its own durable snapshot.                                      *)
admission_input(r) ==
    LET w == r.envelope.control_commitment.control.writer_context
        i == reference_apply_ingress_identities_v1(r)
    IN  [fence |-> [writer |-> w.writer, epoch |-> w.epoch, nonce |-> i.tenure_nonce,
                    proof |-> envelope_digest(w.proof)],
         tenure_nonce |-> <<i.tenure_nonce, envelope_digest(w.proof)>>,
         request_nonce |-> <<i.request_nonce, r.envelope.request_digest>>,
         lineage |-> <<r.envelope.temporal.constraint_id, i.temporal_lineage>>,
         operation |-> r.envelope.control_commitment.control.operation_id,
         revision |-> r.slice.commitment.header.provenance.revision]

Names(ledger, entry) == \E x \in ledger : x[1] = entry[1]

tenure_admission_status(disk, in) ==
    IF disk.fence = in.fence /\ in.tenure_nonce \in disk.tenure_nonces THEN "Exact"
    ELSE IF \/ Names(disk.tenure_nonces, in.tenure_nonce)
            \/ disk.fence # None /\ disk.fence.epoch >= in.fence.epoch
    THEN "Conflict" ELSE "New"

full_admission_status(disk, in) ==
    LET prepared == disk.prepared # None /\ admission_input(disk.prepared.request).operation = in.operation
        terminal == \E t \in ToSet(disk.terminals) : t.receipt.draft.operation = in.operation
        exact == \/ disk.prepared # None /\ admission_input(disk.prepared.request) = in
                 \/ \E t \in ToSet(disk.terminals) :
                       /\ t.receipt.draft.operation = in.operation
                       /\ t.receipt.draft.request_digest = in.request_nonce[2] IN
    IF /\ in.request_nonce \in disk.request_nonces /\ in.lineage \in disk.lineages
       /\ disk.high_water >= in.revision /\ exact
    THEN "Exact"
    ELSE IF \/ Names(disk.request_nonces, in.request_nonce) \/ Names(disk.lineages, in.lineage)
            \/ prepared \/ terminal \/ disk.high_water >= in.revision
    THEN "Conflict" ELSE "New"

(* What admission does with a fresh request: it is admitted after its tenure *)
(* was committed, it is admitted at once under a tenure this process has     *)
(* admitted before, it is left without an answer, or rejected.               *)
try_reference_tenure_only(disk, r, resident) ==
    LET in == admission_input(r)
        tenure == tenure_admission_status(disk, in)
        full == full_admission_status(disk, in) IN
    CASE resident = in.fence -> IF tenure = "Exact" /\ full = "New" THEN "Continue" ELSE "Rejected"
      [] resident # in.fence /\ tenure = "New" -> "CommitTenure"
      [] resident # in.fence /\ tenure = "Exact" /\ full = "Exact" -> "Continue"
      [] resident # in.fence /\ tenure = "Exact" /\ full = "New" -> "TenureOnlyDurable"
      [] OTHER -> "Rejected"

tenure_only_successor(disk, r) ==
    LET in == admission_input(r)
    IN  [disk EXCEPT !.sequence = @ + 1, !.fence = in.fence, !.tenure_nonces = @ \union {in.tenure_nonce}]

full_admission_successor(disk, r, channel) ==
    LET in == admission_input(r)
    IN  [disk EXCEPT !.sequence = @ + 1, !.request_nonces = @ \union {in.request_nonce},
                     !.lineages = @ \union {in.lineage}, !.high_water = in.revision,
                     !.prepared = [request |-> r, channel |-> channel]]

may_be_fully_admitted(disk, r) ==
    LET in == admission_input(r)
    IN  tenure_admission_status(disk, in) = "Exact" /\ full_admission_status(disk, in) = "New"
=============================================================================
