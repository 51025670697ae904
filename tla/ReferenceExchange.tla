-------------------------- MODULE ReferenceExchange --------------------------
(***************************************************************************)
(* One controller and one runtime over the control socket.                 *)
(*                                                                         *)
(* First the controller's clients (runtime_control_client.rs): the         *)
(* endpoint it trusts, the requests it freezes, and what it makes of an    *)
(* answer.  An exchange ends as "NotSent", "Uncertain", "Rejected" or      *)
(* "Accepted".  Then both processes at work: bootstrap, apply and query,   *)
(* with frames that are lost or damaged in any field, and a runtime that   *)
(* is restarted, on an older copy of its store too.  The small instance is *)
(* at the end.                                                             *)
(***************************************************************************)
EXTENDS ReferenceControl, FiniteSets

NotSent == "NotSent"
UncertainDelivery == "Uncertain"
RejectedAnswer == "Rejected"

-----------------------------------------------------------------------------
(* The endpoint.  fs is what the file system shows on the socket's path: the *)
(* ancestors, the directory and the socket, None when there is none.         *)
RUNTIME_CONTROL_SOCKET_DIRECTORY_MODE == 488   \* 0o750
RUNTIME_CONTROL_SOCKET_MODE == 432             \* 0o660

UnixRuntimeControlEndpoint_try_new(e) == If(e.runtime_principal # Zero /\ e.target # Zero, e)

(* A writable ancestor is trusted only if it is root's and sticky.           *)
validate_trusted_socket_ancestors(ancestors, runtime_uid) ==
    If(\A i \in DOMAIN ancestors :
           /\ ancestors[i].type = "dir"
           /\ ancestors[i].uid \in {0, runtime_uid}
           /\ ancestors[i].shared_writable => ancestors[i].uid = 0 /\ ancestors[i].sticky,
       [i \in DOMAIN ancestors |-> ancestors[i].inode])

validate_socket_directory_metadata(d, e) ==
    /\ d.type = "dir" /\ d.links # 0
    /\ d.uid = e.runtime_uid /\ d.gid = e.controller_gid
    /\ d.mode = RUNTIME_CONTROL_SOCKET_DIRECTORY_MODE

(* The identity of the socket is its inode; the digest also covers the path, *)
(* the owner and the mode.                                                   *)
validate_socket_metadata(s, e) ==
    IF s # None
    THEN IF /\ s.type = "socket" /\ s.links = 1
            /\ s.uid = e.runtime_uid /\ s.gid = e.controller_gid /\ s.mode = RUNTIME_CONTROL_SOCKET_MODE
         THEN {[identity |-> s.inode, digest |-> d] :
               d \in reference_local_control_endpoint_identity_digest_v1(
                         [path |-> e.socket_path, inode |-> s.inode, uid |-> s.uid, gid |-> s.gid,
                          mode |-> s.mode])}
         ELSE {}
    ELSE {}

validate_endpoint_metadata(e, fs) ==
    IF validate_socket_directory_metadata(fs.directory, e)
    THEN {[ancestors |-> a, directory |-> fs.directory.inode, socket |-> s] :
          a \in validate_trusted_socket_ancestors(fs.ancestors, e.runtime_uid),
          s \in validate_socket_metadata(fs.socket, e)}
    ELSE {}

(* Between the look and the connection nothing of it may have changed.       *)
revalidate(v, e, fs) == v \in validate_endpoint_metadata(e, fs)

validate_peer_credentials(e, peer) ==
    If(peer.uid = e.server_uid /\ peer.gid = e.server_gid /\ peer.pid # 0, peer)

(* The channel of a connection: the socket that was looked at and the        *)
(* process that answered the connect.                                        *)
channel(v, e, peer) ==
    UNION {ControlChannelBindingV1_try_new(e.target, e.runtime_principal, v.socket.digest, c) :
           c \in UNION {reference_runtime_peer_credentials_digest_v1(p) : p \in validate_peer_credentials(e, peer)}}

-----------------------------------------------------------------------------
(* Pins: whom the controller signs as, and whose answers it accepts.         *)
RuntimeBootstrapRequestAuthPin_try_new(pin) ==
    If(/\ pin.principal # Zero /\ pin.key # Zero
       /\ ensure_ed25519_profile(pin.algorithm, pin.algorithm_version), pin)

ValidateRequestAuth(pin, r) ==
    /\ r.draft.auth.principal = pin.principal /\ r.draft.auth.key = pin.key
    /\ ensure_ed25519_profile(r.draft.auth.algorithm, r.draft.auth.algorithm_version)
    /\ r.signature.len = ED25519_SIGNATURE_BYTES

(* The three verifiers are pinned alike; the fingerprint comes from the      *)
(* provisioning and the key from its file.                                   *)
ResponseVerifier_try_new(v, fingerprint) ==
    If(/\ v.principal # Zero /\ v.key # Zero
       /\ ensure_ed25519_profile(v.algorithm, v.algorithm_version)
       /\ v.verifying_key # Zero
       /\ ed25519_control_key_fingerprint(v.verifying_key) = fingerprint, v)

VerifyResponse(v, claim, transcript, signature) ==
    /\ claim.peer = v.principal /\ claim.key = v.key
    /\ ensure_ed25519_profile(claim.algorithm, claim.algorithm_version)
    /\ VerifyStrict(v.verifying_key, transcript, signature)

verify_bootstrap_response(v, r) ==
    VerifyResponse(v, r.draft.claim,
        begin_signing_transcript(BootstrapResponseFormat, append_bootstrap_response_fields(r.draft, Zero)),
        r.signature)

verify_query_response(v, r) ==
    VerifyResponse(v, r.draft.claim,
        begin_signing_transcript(QueryResponseFormat, append_query_response_fields(r.draft, Zero)), r.signature)

verify_apply_response(v, r) ==
    VerifyResponse(v, r.draft.claim,
        begin_signing_transcript(TerminalReceiptFormat, append_apply_terminal_receipt_fields(r.draft, Zero)),
        r.signature)

(* The first bootstrap accepts any serving identity, a later one none that   *)
(* is older than the identity it has pinned; None is Initial.                *)
RuntimeBootstrapServingExpectation_try_pinned(s) ==
    If(s.store # Zero /\ s.sequence # 0 /\ s.epoch # 0 /\ s.clock_domain # Zero, s)

MutValidateServing(pinned, s) == pinned = None \/ s.store = pinned.store

ValidateServing(pinned, s) ==
    \/ pinned = None
    \/ /\ s.store = pinned.store /\ s.sequence >= pinned.sequence /\ s.epoch >= pinned.epoch
       /\ s.clock_domain = pinned.clock_domain /\ s.clock_generation >= pinned.clock_generation

-----------------------------------------------------------------------------
(* Clients and the requests they send.                                       *)
UnixRuntimeBootstrapClient_try_new(c) ==
    If(/\ c.endpoint.runtime_principal = c.verifier.principal
       /\ c.endpoint.target = c.compatibility.manifest.row.target, c)
UnixRuntimeQueryClient_try_new(c) == If(c.endpoint.runtime_principal = c.verifier.principal, c)
UnixRuntimeApplyClient_try_new(c) == If(c.endpoint.runtime_principal = c.verifier.principal, c)

(* A prepared request is the canonical frame of a signed request.            *)
PreparedRuntimeBootstrapRequest_try_new(r) == If(r \in decode_bootstrap_request(r.wire), r)

PreparedRuntimeQueryRequest_try_new(r, request_time, claim, baseline) ==
    If(/\ r \in decode_query_request(r.wire)
       /\ r.draft.target = request_time.target /\ r.draft.target = baseline.target
       /\ r.draft.store = baseline.store
       /\ request_time.peer # Zero /\ claim.key # Zero
       /\ ensure_ed25519_profile(claim.algorithm, claim.algorithm_version),
       [request |-> r, channel |-> request_time, claim |-> claim, baseline |-> baseline])

validate_bootstrap_request(c, r) ==
    /\ r.draft.target = c.endpoint.target /\ r.draft.target = c.compatibility.manifest.row.target
    /\ ValidateRequestAuth(c.request_auth, r)

validate_query_request(c, p) ==
    /\ p.request.draft.target = c.endpoint.target
    /\ p.channel.target = p.request.draft.target /\ p.channel.peer = c.verifier.principal
    /\ p.claim.key = c.verifier.key
    /\ ensure_ed25519_profile(p.claim.algorithm, p.claim.algorithm_version)
    /\ p.request.draft.store = p.baseline.store /\ p.request.draft.target = p.baseline.target

(* p = [request, channel, claim]: the durable apply and the answer it expects*)
validate_apply_request(c, p) ==
    /\ p.request.slice.commitment.header.target = c.endpoint.target
    /\ p.channel.target = p.request.slice.commitment.header.target
    /\ p.channel.peer = c.verifier.principal
    /\ p.claim.key = c.verifier.key
    /\ ensure_ed25519_profile(p.claim.algorithm, p.claim.algorithm_version)

-----------------------------------------------------------------------------
(* Answers.  answer = [lost], a transport failure or the end of the stream,  *)
(* or [length, frame, trailing], a length prefix and what came with it.      *)
Lost == [lost |-> TRUE]
Received(length, frame, trailing) == [lost |-> FALSE, length |-> length, frame |-> frame, trailing |-> trailing]
Complete(answer, bound) == answer.length # 0 /\ answer.length <= bound /\ answer.trailing = 0
AcceptedAnswer(values) == IF values = {} THEN <<RejectedAnswer>> ELSE <<"Accepted", CHOOSE v \in values : TRUE>>

exchange_bootstrap(c, r, current, answer) ==
    IF answer.lost THEN <<UncertainDelivery>>
    ELSE IF ~Complete(answer, r.draft.max_bytes) THEN <<RejectedAnswer>>
    ELSE AcceptedAnswer({x \in decode_bootstrap_response(answer.frame) :
             /\ verify_bootstrap_response(c.verifier, x)
             /\ BootstrapResponseAnswers(x, r, current, c.compatibility.manifest, c.compatibility.policy)
             /\ ValidateServing(c.serving, x.draft.facts.serving)})

(* A query goes out only on the channel of the bootstrap it was built from.  *)
query_may_be_sent(p, current) == current = p.channel

exchange_query(c, p, answer) ==
    IF answer.lost THEN <<UncertainDelivery>>
    ELSE IF ~Complete(answer, p.request.draft.max_bytes) THEN <<RejectedAnswer>>
    ELSE AcceptedAnswer({x \in decode_query_response(answer.frame) :
             /\ verify_query_response(c.verifier, x)
             /\ QueryResponseAnswers(x, p.request, p.channel, p.baseline)})

(* After the first byte of an apply nothing is ever rejected: the runtime    *)
(* may be executing.  The receipt is checked against the channel of the      *)
(* request, whatever channel it now arrives on.                              *)
exchange_apply(c, p, answer) ==
    LET receipts == {x \in decode_apply_terminal_receipt(answer.frame) :
                        /\ verify_apply_response(c.verifier, x)
                        /\ TerminalReceiptAnswers(x, p.request, p.channel)}
    IN  IF answer.lost THEN <<UncertainDelivery>>
        ELSE IF ~Complete(answer, TerminalReceiptFormat.max) \/ receipts = {} THEN <<UncertainDelivery>>
        ELSE <<"Accepted", CHOOSE x \in receipts : TRUE>>

-----------------------------------------------------------------------------
(* A controller and a runtime over one control socket: bootstrap, apply and  *)
(* query exchanges, with frames damaged or lost on the way, either process   *)
(* crashing between any two steps, the runtime restarting under the same or  *)
(* another socket and process, being replaced by another build, or being     *)
(* started on an older copy of its store.                                    *)
(*                                                                           *)
(* The frames, the checks and the handlers are the ones of ReferenceClient   *)
(* and ReferenceControl; the state keeps what a frame is built from, and    *)
(* the frame is built where it is sent.  What an admitted apply does before  *)
(* its terminal is RuntimeReference's subject; here it ends with any outcome *)
(* it may have.                                                              *)

CONSTANTS
    Noise,            \* a damaged identifier or digest
    Input, Files,     \* the runtime's provisioning and its key files
    Process,          \* [uid, gid] the runtime runs as
    Installed, Other, \* [build, fixture, artifact]: the installed build and another one
    Store,            \* the store instance
    ClockDomain,
    Identities,       \* Identities[n]: the [inode, pid] the n-th start may get
    MaxFaults, MaxQueries

MaxStarts == Len(Identities)

VARIABLES
    disk,        \* the runtime's durable snapshot
    proc,        \* the runtime process, or None
    socket,      \* the inode of the socket, or 0
    conn,        \* the controller's one exchange, or None
    binding,     \* the controller's target binding, or None
    intent,      \* the clock generation the durable apply is signed for, and its channel, or None
    receipt,     \* its terminal, or None
    observation, \* what the last query answer said, or None
    revision,    \* the current plan
    stopped,     \* history: a request has ended the service
    bounds       \* [starts, damage, restores, queries]

controller == <<binding, intent, receipt, observation, revision>>
vars == <<disk, proc, socket, conn, binding, intent, receipt, observation, revision, stopped, bounds>>

-----------------------------------------------------------------------------
(* Installation and provisioning: both are constant.                         *)
The(S) == CHOOSE x \in S : TRUE

Compiled(b) == The(RuntimeCompiledInstallationFactsV1_try_new(b.build, b.fixture))
Provisioning == The(RuntimeProvisioningV1_try_new(Input, Files, Process))

Descriptor == The(generate_build_descriptor(Installed.artifact, Compiled(Installed)))
Installation ==
    The(generate_manifest(build_descriptor_wire(Descriptor), descriptor_digest(Descriptor), Input.target,
                          Installed.artifact, Compiled(Installed)))
Ingress == VerifiedRuntimeManifestIngressV1(Installation.manifest)

(* The part of the snapshot the initializer writes for good.                 *)
InitializedImage ==
    [store |-> Store, clock_domain |-> ClockDomain,
     descriptor |-> [wire |-> build_descriptor_wire(Descriptor), digest |-> descriptor_digest(Descriptor)],
     manifest |-> [wire |-> build_manifest_wire(Installation.manifest.row),
                   digest |-> Installation.manifest.manifest_digest],
     compiled_build_id |-> Installed.build,
     compiled_compatibility |-> compiled_reference_compatibility_digest(Installed.fixture),
     pinned_identity |-> Installation.build_identity,
     pins |-> [owner_target |-> Provisioning.owner_target, admission |-> Provisioning.admission,
               channel |-> Provisioning.channel, controller_fingerprint |-> Provisioning.controller_fingerprint]]

FileSystem == [ancestors |-> <<[type |-> "dir", uid |-> 0, shared_writable |-> FALSE, sticky |-> FALSE, inode |-> 1]>>,
               directory |-> [type |-> "dir", links |-> 2, uid |-> Input.runtime_uid, gid |-> Input.controller_gid,
                              mode |-> RUNTIME_CONTROL_SOCKET_DIRECTORY_MODE, inode |-> 2],
               socket |-> IF socket = 0 THEN None
                          ELSE [type |-> "socket", links |-> 1, uid |-> Input.runtime_uid,
                                gid |-> Input.controller_gid, mode |-> CONTROL_SOCKET_MODE, inode |-> socket]]

(* The socket as the service has bound it.                                   *)
BoundSocket(inode) == [path |-> Input.socket_path, inode |-> inode, uid |-> Input.runtime_uid,
                       gid |-> Input.controller_gid, mode |-> CONTROL_SOCKET_MODE]
ProcessOf(pid) == [uid |-> Process.uid, gid |-> Process.gid, pid |-> pid]

AllIdentities == UNION {Identities[n] : n \in DOMAIN Identities}
Channel(i) == The(live_runtime_channel(Provisioning, BoundSocket(i.inode), ProcessOf(i.pid)))
Claim(ch) == The(ReferenceResponseAuthClaim_try_new(ch, Input.response_key, ED25519_ALGORITHM,
                                                    ED25519_ALGORITHM_VERSION))

-----------------------------------------------------------------------------
(* What the controller signs.                                                *)
ResponseKey == Files[Input.response_public_key_path]
ControllerKey == Files[Input.controller_public_key_path]

Auth(nonce) == [principal |-> Input.controller_principal, key |-> Input.controller_key,
                algorithm |-> ED25519_ALGORITHM, algorithm_version |-> ED25519_ALGORITHM_VERSION,
                nonce |-> Bytes(16, nonce)]

(* One bootstrap request for the life of a binding: it is sent again.        *)
BootstrapRequest ==
    LET d == [request_id |-> "bootstrap", target |-> Input.target, scope |-> Input.scope,
              auth |-> Auth("bootstrap"), max_bytes |-> MAX_BOOTSTRAP_RESPONSE_V1_BYTES]
    IN  The(BootstrapRequest_try_new(d, Sign(ControllerKey,
            begin_signing_transcript(BootstrapRequestFormat, append_bootstrap_request_fields(d, Zero)))))

Budgets == [start |-> 1, drain |-> 1, cleanup |-> 1]
Execution(rev) == IF rev = 1 THEN The(try_one_source_loop(Ingress, "instance", "domain", Budgets))
                  ELSE The(try_empty_deactivate(Ingress))
Provenance(rev) == PlanProvenance(Input.scope, "plan", rev, Digest("plan", rev))
ApplyId(rev) == IF rev = 1 THEN "apply1" ELSE "apply2"

(* A tenure per plan, as the authority has signed it.                        *)
TenureProof(rev) ==
    LET a == [authority |-> Input.tenure_authority, key |-> Input.tenure_key,
              algorithm |-> ED25519_ALGORITHM, algorithm_version |-> ED25519_ALGORITHM_VERSION]
        c == [scope |-> Input.scope, writer |-> Input.writer, epoch |-> rev, supersedes_through |-> rev - 1]
        n == Bytes(16, ApplyId(rev))
    IN  The(WriterTenureProof_try_new(a, c, n, Sign(Files[Input.tenure_public_key_path],
                                                    WriterTenureSigningTranscript(a, c, n))))

(* The slice of a plan; the second plan expects the first one's to be active.*)
Slice(rev) == LET e == Execution(rev)
              IN  The(RuntimePlanSliceV5_try_new(RuntimeSliceCommitment(
                      RuntimeSliceHeader(Input.target, Provenance(rev), target_plan_assignments_v5_digest(e))), e))
SliceDigest(rev) == Slice(rev).commitment.target_slice_digest

(* On the clock generation of the bootstrap it follows, with the whole budget*)
build_fresh_request(rev, generation) ==
    LET control == RuntimeApplyControl(The(PlanWriterContext_try_new(Input.writer, rev, TenureProof(rev))),
                                       IF rev = 1 THEN None ELSE SliceDigest(1), ApplyId(rev))
        temporal == The(ApplyTemporalConstraint_try_from_parts(
                        [version |-> 1, constraint_id |-> ApplyId(rev), clock_domain |-> ClockDomain,
                         clock_generation |-> generation,
                         original_budget |-> MAX_REFERENCE_LIFECYCLE_BUDGET_NANOS,
                         remaining_budget |-> MAX_REFERENCE_LIFECYCLE_BUDGET_NANOS]))
        d == The(ReferenceApplyRequestDraftV1_try_new(Execution(rev), Provenance(rev), control, temporal,
                                                      Store, Auth(ApplyId(rev))))
    IN  The(finalize_apply_request(d, Sign(ControllerKey, apply_signing_transcript(d))))

Signed(rev) == SubSeq([generation \in 1..MaxStarts |-> build_fresh_request(rev, generation)], 1, MaxStarts)

(* All of the above: w in what follows.                                      *)
Deployment ==
    [provisioning |-> Provisioning, image |-> InitializedImage, bootstrap |-> BootstrapRequest,
     compiled |-> <<Compiled(Installed), Compiled(Other)>>,
     requests |-> <<Signed(1), Signed(2)>>, channels |-> [i \in AllIdentities |-> Channel(i)],
     compatibility |-> The(ReferenceControllerBootstrapExpectationV1(Ingress, Provisioning.admission))]

Request(w, key) == w.requests[key.revision][key.generation]
ApplyKey(i) == [revision |-> revision, generation |-> i.generation]

QueryDraft(n, request, b) ==
    [request_id |-> <<"query", n>>, target |-> Input.target, scope |-> Input.scope,
     store |-> b.serving.store, operation |-> request.envelope.control_commitment.control.operation_id,
     expected_digest |-> request.envelope.request_digest, auth |-> Auth(<<"query", n>>),
     max_bytes |-> MAX_QUERY_RESPONSE_V1_BYTES]
QueryRequest(w, n, key, b) ==
    The({p \in UNION {UNION {PreparedRuntimeQueryRequest_try_new(r, ch, Claim(ch), b.serving) :
                             r \in QueryRequest_try_new(d, Sign(ControllerKey,
                                 begin_signing_transcript(QueryRequestFormat, append_query_request_fields(d, Zero)))),
                             ch \in {w.channels[b.identity]}} : d \in {QueryDraft(n, Request(w, key), b)}} : TRUE})

-----------------------------------------------------------------------------
(* The runtime's terminals.  The receipt is signed for the channel the       *)
(* request was admitted on.                                                  *)
Lifecycle(outcome) ==
    IF outcome \in {StartTimedOutBeforeIntentNoEffects, StopTimedOutBeforeHeadCommitNoEffects,
                    AbortedBeforeIntentNoEffects} THEN ProvenNotStarted ELSE MayHaveStarted

TerminalFacts(d, r, outcome) ==
    ReferenceApplyTerminalFactsV1_try_new(r,
        [outcome |-> outcome, lifecycle |-> Lifecycle(outcome),
         head |-> IF apply_terminal_outcome_commits_incoming(outcome, r.slice.execution.mode)
                  THEN TerminalHead(CommittedIncoming, r.slice.commitment.target_slice_digest)
                  ELSE IF d.head = None THEN TerminalHead(PreservedNone, Zero)
                  ELSE TerminalHead(PreservedExisting, d.head.commitment.target_slice_digest),
         census |-> Digest("census", 0), raw_outcome |-> Digest("raw-outcome", outcome),
         epoch |-> d.epoch, sequence |-> d.sequence + 1, clock_generation |-> d.epoch,
         observed_at |-> 1, result_ref |-> Zero])

sign_terminal(d, r, ch, outcome) ==
    UNION {UNION {ReferenceTerminalReceipt(r, facts, ch, claim,
                      Sign(ResponseKey, begin_signing_transcript(TerminalReceiptFormat,
                                            append_apply_terminal_receipt_fields(draft, Zero)))) :
                  draft \in TerminalReceiptDraft_try_new(r, facts, ch, claim)} :
           facts \in TerminalFacts(d, r, outcome), claim \in {Claim(ch)}}

Runtime(w) == [provisioning |-> w.provisioning, compiled |-> w.compiled[proc.build],
               channel |-> w.channels[proc.identity], compatibility |-> proc.compatibility,
               process |-> ProcessOf(proc.identity.pid), disk |-> disk @@ w.image]

-----------------------------------------------------------------------------
(* The controller's clients.                                                 *)
Endpoint == [socket_path |-> Input.socket_path, runtime_uid |-> Input.runtime_uid,
             controller_gid |-> Input.controller_gid, server_uid |-> Input.runtime_uid,
             server_gid |-> Input.runtime_gid, target |-> Input.target,
             runtime_principal |-> Input.runtime_principal]
Verifier == [principal |-> Input.runtime_principal, key |-> Input.response_key,
             algorithm |-> ED25519_ALGORITHM, algorithm_version |-> ED25519_ALGORITHM_VERSION,
             verifying_key |-> ResponseKey]
Client(w) == [endpoint |-> Endpoint, verifier |-> Verifier,
           request_auth |-> [principal |-> Input.controller_principal, key |-> Input.controller_key,
                             algorithm |-> ED25519_ALGORITHM, algorithm_version |-> ED25519_ALGORITHM_VERSION],
           compatibility |-> w.compatibility,
           serving |-> IF binding = None THEN None ELSE binding.serving]

(* A durable apply as the client sends it.                                   *)
ApplyAttempt(w, key, identity) ==
    [request |-> Request(w, key), channel |-> w.channels[identity], claim |-> Claim(w.channels[identity])]

-----------------------------------------------------------------------------
(* Damage: one field of a frame, or its end.                                 *)
Flip(spec, v) ==
    CASE spec.min # spec.max -> [v EXCEPT !.bytes = Noise]
      [] spec.min \in {1, 2, 4, 8} -> v + 1
      [] spec.min \in {16, 32} -> Noise
      [] OTHER -> [v EXCEPT ![2] = Noise]

DamagedTlv(fmt, f) ==
    {[f EXCEPT !.fields[i].val = Flip(fmt.layout[i], f.fields[i].val)] : i \in DOMAIN f.fields}
        \union {[f EXCEPT !.tail = -1]}

Format(f) == CASE f.magic = "PXBR" -> BootstrapRequestFormat [] f.magic = "PXQR" -> QueryRequestFormat
               [] f.magic = "PXBS" -> BootstrapResponseFormat [] f.magic = "PXQS" -> QueryResponseFormat
               [] f.magic = "PXRT" -> TerminalReceiptFormat

Damaged(f) ==
    IF f.magic = "PXAR"
    THEN {[f EXCEPT !.envelope = x] : x \in DamagedTlv(ApplyEnvelopeV2Format, f.envelope)}
         \union {[f EXCEPT !.execution.fields[2].val = Noise], [f EXCEPT !.tail = -1]}
    ELSE DamagedTlv(Format(f), f)

(* Frames are damaged and stores put back at most MaxFaults times in all.    *)
Fault == bounds.damage + bounds.restores < MaxFaults

(* What arrives of a frame, and whether it was damaged.                      *)
Arrivals(f) == {<<f, 0>>} \union (IF Fault THEN Damaged(f) \X {1} ELSE {})

-----------------------------------------------------------------------------
Live(tag, eligibility, generation, n) ==
    [tag |-> tag, eligibility |-> eligibility, generation |-> generation, census |-> n]

InitializedDisk ==
    [sequence |-> 1, epoch |-> 0, fence |-> None, tenure_nonces |-> {}, request_nonces |-> {},
     lineages |-> {}, high_water |-> 0, prepared |-> None, head |-> None, terminals |-> <<>>,
     live |-> Live("None", "None", 0, 0), census |-> 0]

Init ==
    /\ disk = InitializedDisk
    /\ proc = None /\ socket = 0 /\ conn = None
    /\ binding = None /\ intent = None /\ receipt = None /\ observation = None /\ revision = 1
    /\ stopped = FALSE
    /\ bounds = [starts |-> 0, damage |-> 0, restores |-> 0, queries |-> 0]

-----------------------------------------------------------------------------
(* The runtime.                                                              *)
LivesOn(d, live) == [d EXCEPT !.live = live, !.census = live.census]

Terminalized(d, outcome) ==
    UNION {LET e == [d EXCEPT !.sequence = @ + 1, !.prepared = None, !.terminals = Append(@, [receipt |-> t])]
           IN  IF t.draft.facts.head.disposition = CommittedIncoming
               THEN {LivesOn([e EXCEPT !.head = d.prepared.request.slice],
                             IF outcome = OneSourceLoopActive THEN Live("LiveReady", "None", d.epoch, 1)
                             ELSE Live("ExactZero", "None", 0, 0))}
               ELSE {e} :
           t \in sign_terminal(d, d.prepared.request, d.prepared.channel, outcome)}

Outcomes(rev) ==
    IF rev = 1 THEN {OneSourceLoopActive, StartTimedOutBeforeIntentNoEffects, StartTimedOutBeforeHeadCommitExactZero}
    ELSE {EmptyDeactivateExactZero, StopTimedOutBeforeHeadCommitNoEffects, TimedOutButExactZero}
RestartOutcomes(rev) ==
    IF rev = 1 THEN {AbortedBeforeIntentNoEffects, AbortedBeforeHeadCommitExactZero}
    ELSE {AbortedBeforeIntentNoEffects, InterruptedButNowExactZero}

(* One start, all its commits at once: the invalidation, the terminal of an  *)
(* operation that was being executed, and the recovery of an active loop.    *)
Settled(d) ==
    IF d.prepared = None THEN {d}
    ELSE UNION {Terminalized(d, o) : o \in RestartOutcomes(d.prepared.request.slice.commitment.header.provenance.revision)}
Recovered(d) ==
    CASE d.head = None -> {LivesOn(d, Live("StartupInvalidated", "NoActiveHead", 0, 0))}
      [] d.head # None /\ d.head.execution.mode # OneSourceLoop ->
             {LivesOn(d, Live("StartupInvalidated", "CanonicalEmptyExactZero", 0, 0))}
      [] d.head # None /\ d.head.execution.mode = OneSourceLoop ->
             {LivesOn([d EXCEPT !.sequence = @ + 1], Live("LiveReady", "None", d.epoch, 1)),
              LivesOn([d EXCEPT !.sequence = @ + 1], Live("RecoveryFailedNotReady", "None", 0, 0))}
StartedDisks(d) == UNION {Recovered(e) : e \in Settled([d EXCEPT !.sequence = @ + 1, !.epoch = @ + 1])}

(* The start verifies the installation, the pins and every durable part      *)
(* before its first commit; any failure leaves the store as it was.          *)
Start(w) ==
    /\ proc = None /\ ~stopped /\ bounds.starts < MaxStarts
    /\ \E build \in DOMAIN w.compiled, id \in Identities[bounds.starts + 1], durable \in {disk @@ w.image} :
          \E i \in verify_startup_installation(durable, Input.target, w.compiled[build]) :
             \E ingress \in verify_immutable_manifest_ingress(durable.manifest.wire, durable.manifest.digest) :
                /\ validate_snapshot_pins(w.provisioning, durable.pins, Process)
                /\ validate_startup_durable_control_state(durable, ingress, w.compiled[build], w.provisioning)
                /\ \E c \in try_from_verified_installation(i, w.compiled[build], durable.pins.admission) :
                      proc' = [build |-> build, identity |-> id, compatibility |-> c,
                               incarnation |-> bounds.starts, resident |-> None, stage |-> "Idle",
                               key |-> None, client |-> FALSE]
                /\ socket' = id.inode
                /\ disk' \in StartedDisks(disk)
    /\ bounds' = [bounds EXCEPT !.starts = @ + 1]
    /\ UNCHANGED <<conn, controller, stopped>>

(* A crash leaves the socket file behind.                                    *)
Crash ==
    /\ proc # None
    /\ proc' = None
    /\ UNCHANGED <<disk, socket, conn, controller, stopped, bounds>>

(* An operator puts the store back as the initializer had left it.           *)
Restore ==
    /\ proc = None /\ conn = None /\ Fault /\ disk # InitializedDisk
    /\ disk' = InitializedDisk
    /\ bounds' = [bounds EXCEPT !.restores = @ + 1]
    /\ UNCHANGED <<proc, socket, conn, controller, stopped>>

-----------------------------------------------------------------------------
(* The controller: commands, each one exchange at most.  A command that      *)
(* finds no proper socket ends there.                                        *)
Exchange(kind, key, identity, n) ==
    [phase |-> "looked", inode |-> socket, kind |-> kind, key |-> key, identity |-> identity, query |-> n]
SocketIsProper == validate_endpoint_metadata(Endpoint, FileSystem) # {}

(* Bootstrap is a command of the first plan only.                            *)
BeginBootstrap(w) ==
    /\ conn = None /\ revision = 1
    /\ PreparedRuntimeBootstrapRequest_try_new(w.bootstrap) # {}
    /\ validate_bootstrap_request(Client(w), w.bootstrap)
    /\ SocketIsProper
    /\ conn' = Exchange("bootstrap", None, None, 0)
    /\ UNCHANGED <<disk, proc, socket, controller, stopped, bounds>>

(* The request of a plan is signed once, and durable before it is sent.      *)
PrepareApply ==
    /\ conn = None /\ intent = None /\ binding # None
    /\ binding.state = ReadyForApply
    /\ intent' = [generation |-> binding.serving.clock_generation, identity |-> binding.identity]
    /\ UNCHANGED <<disk, proc, socket, conn, binding, receipt, observation, revision, stopped, bounds>>

BeginApply(w) ==
    /\ conn = None /\ intent # None /\ receipt = None
    /\ validate_apply_request(Client(w), ApplyAttempt(w, ApplyKey(intent), intent.identity))
    /\ SocketIsProper
    /\ conn' = Exchange("apply", ApplyKey(intent), intent.identity, 0)
    /\ UNCHANGED <<disk, proc, socket, controller, stopped, bounds>>

BeginQuery(w) ==
    /\ conn = None /\ intent # None /\ bounds.queries < MaxQueries
    /\ validate_query_request(Client(w), QueryRequest(w, bounds.queries, ApplyKey(intent), binding))
    /\ SocketIsProper
    /\ conn' = Exchange("query", ApplyKey(intent), binding.identity, bounds.queries)
    /\ bounds' = [bounds EXCEPT !.queries = @ + 1]
    /\ UNCHANGED <<disk, proc, socket, controller, stopped>>

(* Only a plan that is known to be active is followed by the next one.       *)
NextPlan ==
    /\ conn = None /\ revision = 1 /\ receipt # None
    /\ receipt.outcome = OneSourceLoopActive
    /\ revision' = 2 /\ intent' = None /\ receipt' = None /\ observation' = None
    /\ UNCHANGED <<disk, proc, socket, conn, binding, stopped, bounds>>

(* No command changes the binding while an exchange is open.                 *)
Query(w, c) == QueryRequest(w, c.query, c.key, binding)
Wire(w, c) == CASE c.kind = "bootstrap" -> w.bootstrap.wire
                [] c.kind = "apply" -> Request(w, c.key).wire
                [] c.kind = "query" -> Query(w, c).request.wire

(* The connection must find the socket the client has looked at.             *)
Looked(inode) == The(validate_endpoint_metadata(Endpoint, [FileSystem EXCEPT !.socket.inode = inode]))

Current == UNION {channel(l, Endpoint, ProcessOf(proc.identity.pid)) :
                  l \in {x \in {Looked(conn.inode)} : revalidate(x, Endpoint, FileSystem)}}

Connect(w) ==
    /\ conn # None /\ conn.phase = "looked"
    /\ conn' = IF proc # None /\ \E ch \in Current : conn.kind = "query" => query_may_be_sent(Query(w, conn), ch)
               THEN [conn EXCEPT !.phase = "sent"] @@ [pid |-> proc.identity.pid, server |-> proc.incarnation]
               ELSE None
    /\ UNCHANGED <<disk, proc, socket, controller, stopped, bounds>>

-----------------------------------------------------------------------------
(* The runtime serves one connection at a time.                              *)
Serving == proc # None /\ conn # None /\ conn.phase = "sent" /\ conn.server = proc.incarnation

(* What the client still waits for: after a timeout the runtime goes on.     *)
Answered(wire, intact) == [conn EXCEPT !.phase = "answered"] @@ [wire |-> wire, intact |-> intact]
\* The connection is dropped; the client reads the end of the stream.
Closed == None

Handled(w, a) ==
    handle_request(Runtime(w), a[1], live_runtime_channel(w.provisioning, BoundSocket(socket),
                                                          ProcessOf(proc.identity.pid)))

Serve(w) ==
    /\ Serving /\ proc.stage = "Idle"
    /\ \E a \in Arrivals(Wire(w, conn)) : \E r \in {Handled(w, a)} :
          /\ bounds' = [bounds EXCEPT !.damage = @ + a[2]]
          /\ CASE r.result = "Answer" -> conn' = Answered(r.wire, a[2] = 0) /\ UNCHANGED <<proc, stopped>>
               [] r.result = "Rejected" -> conn' = Closed /\ UNCHANGED <<proc, stopped>>
               [] r.result = "Internal" -> conn' = Closed /\ proc' = None /\ stopped' = TRUE
               [] r.result = "Apply" ->
                     \E s \in {try_reference_tenure_only(disk, r.request, proc.resident)} :
                        /\ IF s \in {"CommitTenure", "Continue"}
                           THEN /\ proc' = [proc EXCEPT !.stage = s, !.key = conn.key, !.client = TRUE]
                                /\ UNCHANGED conn
                           ELSE conn' = Closed /\ UNCHANGED proc
                        /\ UNCHANGED stopped
    /\ UNCHANGED <<disk, socket, controller>>

CommitTenure(w) ==
    /\ proc # None /\ proc.stage = "CommitTenure"
    /\ disk' = tenure_only_successor(disk, Request(w, proc.key))
    /\ proc' = [proc EXCEPT !.stage = "Continue"]
    /\ UNCHANGED <<socket, conn, controller, stopped, bounds>>

Admit(w) ==
    /\ proc # None /\ proc.stage = "Continue"
    /\ may_be_fully_admitted(disk, Request(w, proc.key))
    /\ disk' = full_admission_successor(disk, Request(w, proc.key), w.channels[proc.identity])
    /\ proc' = [proc EXCEPT !.stage = "Execute", !.resident = disk.fence]
    /\ UNCHANGED <<socket, conn, controller, stopped, bounds>>

Finish ==
    /\ proc # None /\ proc.stage = "Execute"
    /\ \E o \in Outcomes(proc.key.revision) : disk' \in Terminalized(disk, o)
    /\ conn' = IF proc.client THEN Answered(Last(disk'.terminals).receipt.wire, TRUE) ELSE conn
    /\ proc' = [proc EXCEPT !.stage = "Idle", !.key = None, !.client = FALSE]
    /\ UNCHANGED <<socket, controller, stopped, bounds>>

-----------------------------------------------------------------------------
(* The answer, whole, damaged or lost; and what the controller keeps of it.  *)
Outcome(w, answer) ==
    CASE conn.kind = "bootstrap" ->
             exchange_bootstrap(Client(w), w.bootstrap, w.channels[[inode |-> conn.inode, pid |-> conn.pid]], answer)
      [] conn.kind = "query" -> exchange_query(Client(w), Query(w, conn), answer)
      [] conn.kind = "apply" -> exchange_apply(Client(w), ApplyAttempt(w, conn.key, conn.identity), answer)

(* genuine: what was accepted is what was answered to the frame as sent.     *)
Receive(w) ==
    /\ conn # None /\ conn.phase = "answered"
    /\ \E a \in Arrivals(conn.wire) : \E outcome \in {Outcome(w, Received(1, a[1], 0))} :
          /\ bounds' = [bounds EXCEPT !.damage = @ + a[2]]
          /\ IF outcome[1] # "Accepted" THEN UNCHANGED controller
             ELSE \E facts \in {outcome[2].draft.facts}, genuine \in {outcome[2].wire = conn.wire /\ conn.intact} :
                  /\ UNCHANGED <<intent, revision>>
                  /\ CASE conn.kind = "bootstrap" ->
                             /\ binding' = [serving |-> facts.serving, state |-> facts.state,
                                            identity |-> [inode |-> conn.inode, pid |-> conn.pid],
                                            genuine |-> genuine]
                             /\ UNCHANGED <<receipt, observation>>
                       [] conn.kind = "query" ->
                             /\ observation' = [epoch |-> facts.serving.epoch, genuine |-> genuine]
                             /\ UNCHANGED <<binding, receipt>>
                       [] conn.kind = "apply" ->
                             /\ receipt' = [outcome |-> facts.outcome, epoch |-> facts.epoch, genuine |-> genuine]
                             /\ UNCHANGED <<binding, observation>>
    /\ conn' = None
    /\ UNCHANGED <<disk, proc, socket, stopped>>

(* A timeout, the end of the stream, or the end of the controller process.   *)
Lose ==
    /\ conn # None
    /\ conn' = None
    /\ proc' = IF Serving /\ proc.client THEN [proc EXCEPT !.client = FALSE] ELSE proc
    /\ UNCHANGED <<disk, socket, controller, stopped, bounds>>

-----------------------------------------------------------------------------
Next ==
    \/ \E w \in {Deployment} :
          \/ Start(w) \/ BeginBootstrap(w) \/ BeginApply(w) \/ BeginQuery(w)
          \/ Connect(w) \/ Serve(w) \/ CommitTenure(w) \/ Admit(w) \/ Receive(w)
    \/ Crash \/ Restore \/ PrepareApply \/ NextPlan \/ Finish \/ Lose

Spec == Init /\ [][Next]_vars

-----------------------------------------------------------------------------
(* Whatever is damaged on the way: what the controller has accepted is what  *)
(* the runtime signed, for the very frame the controller sent; and a receipt *)
(* is the one the runtime's store holds and tells the truth about its head,  *)
(* unless an older store was put back (runtime_control_client.rs exchange,   *)
(* exchange_request, and the handlers of runtime_control_endpoint.rs).       *)
AcceptedIsAnswered ==
    /\ binding # None => binding.genuine
    /\ observation # None => observation.genuine
    /\ receipt # None =>
          /\ receipt.genuine
          /\ bounds.restores = 0 =>
                \E t \in ToSet(disk.terminals) :
                    /\ t.receipt.draft.operation = ApplyId(revision)
                    /\ t.receipt.draft.facts.outcome = receipt.outcome /\ t.receipt.draft.facts.epoch = receipt.epoch
                    /\ t.receipt.draft.facts.head.disposition = CommittedIncoming =>
                          disk.head.commitment.header.provenance.revision = revision

(* Once the terminal of the controller's apply is durable, sending the same  *)
(* bytes again yields a receipt the controller accepts: after a restart, on  *)
(* another channel, in a later clock generation, unless the store was put    *)
(* back (runtime_control_endpoint.rs handle_apply, the exact terminal match).*)
ReplayIsAnswered ==
    conn = None /\ intent # None /\ proc # None /\ bounds.restores = 0 =>
        (proc.stage = "Idle" =>
         \E w \in {Deployment} : \A t \in ToSet(disk.terminals) :
            t.receipt.draft.operation = ApplyId(revision) =>
                /\ handle_apply(Runtime(w), Request(w, ApplyKey(intent)).wire) = Answer(t.receipt.wire)
                /\ exchange_apply(Client(w), ApplyAttempt(w, ApplyKey(intent), intent.identity),
                                  Received(1, t.receipt.wire, 0)) = <<"Accepted", t.receipt>>)

(* No frame the controller sends, damaged or not, ends the runtime's service *)
(* (runtime_control_endpoint.rs serve_until stops on an internal error).     *)
EndpointSurvives == ~stopped


(* The serving identity the controller has pinned never moves back, even     *)
(* when the runtime is started on an older copy of its store                 *)
(* (runtime_control_client.rs RuntimeBootstrapServingExpectation::validate). *)
BaselineNeverRegresses ==
    [][binding # None =>
          /\ binding'.serving.sequence >= binding.serving.sequence
          /\ binding'.serving.epoch >= binding.serving.epoch
          /\ binding'.serving.clock_generation >= binding.serving.clock_generation]_vars

-----------------------------------------------------------------------------
(* One controller and one runtime, one source loop and its deactivation.     *)

MCInput ==
    [socket_path |-> "socket", target |-> "host", scope |-> "scope", writer |-> "writer",
     runtime_principal |-> "runtime", runtime_uid |-> 1, runtime_gid |-> 1,
     controller_principal |-> "controller", controller_uid |-> 2, controller_gid |-> 2,
     controller_key |-> "controller-key", controller_public_key_path |-> "controller.pub",
     response_key |-> "response-key", response_public_key_path |-> "response.pub",
     response_seed_path |-> "response.seed",
     authority_principal |-> "authority", authority_uid |-> 3, authority_gid |-> 3,
     tenure_authority |-> "tenure", tenure_key |-> "tenure-key", tenure_public_key_path |-> "tenure.pub"]

MCFiles == [p \in {"controller.pub", "response.pub", "response.seed", "tenure.pub"} |->
               IF p = "controller.pub" THEN "C" ELSE IF p = "tenure.pub" THEN "T" ELSE "R"]

(* A restart may get the socket's inode and the process id back, or not.     *)
MCIdentities == <<{[inode |-> 1, pid |-> 1]}, {[inode |-> 1, pid |-> 1], [inode |-> 2, pid |-> 2]}>>

MCProcess == [uid |-> 1, gid |-> 1]

MCBuild(b) ==
    [build |-> b, fixture |-> ReferenceFixtureEntryV1("definition", "implementation", "export", "digest", "fixture"),
     artifact |-> [runtime_artifact_length |-> 1, runtime_artifact_sha256 |-> b, target_triple |-> Bytes(5, "linux")]]
MCInstalled == MCBuild("build1")
MCOther == MCBuild("build2")
=============================================================================
