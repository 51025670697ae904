--------------------------- MODULE ProcessProtocol ---------------------------
(***************************************************************************)
(* PXWP, the protocol between a process domain and its worker              *)
(* (process_protocol.rs): the names of one process generation, the frames, *)
(* and the session that both ends keep.  At the end the Rust reference     *)
(* worker, which answers every host frame at once.                         *)
(***************************************************************************)
EXTENDS StoreCodec

CONSTANTS Zero,     \* the all-zero name
          None      \* what is absent

(* A generation of a domain that holds one instance.                          *)
ProcessGenerationIdentity(epoch) ==
    [runtime_host |-> "host", runtime_host_epoch |-> 1, source_revision |-> 1, target_slice |-> "slice",
     domain |-> "domain", domain_epoch |-> epoch]

ProcessSessionIdentity_try_new(i) ==
    {x \in {i} : /\ \A v \in {i.runtime_host, i.process_domain, i.instance, i.target_slice} : v # Zero
                 /\ i.runtime_host_epoch # 0 /\ i.process_domain_epoch # 0
                 /\ i.instance_generation # 0 /\ i.source_revision # 0}

SessionOf(epoch) ==
    CHOOSE i \in ProcessSessionIdentity_try_new(
        [runtime_host |-> "host", runtime_host_epoch |-> 1, process_domain |-> "domain",
         process_domain_epoch |-> epoch, instance |-> "instance", instance_generation |-> epoch,
         source_revision |-> 1, target_slice |-> "slice"]) : TRUE

-----------------------------------------------------------------------------
(* PXWP, the protocol between a process domain and its worker: the frames as  *)
(* they are written and read, and the session that both Rust ends check every *)
(* frame against.  A body is [kind, f] with its fields in order; a payload is *)
(* its length.  Constructors give the set of their results, empty for errors; *)
(* the session gives [s, error].                                              *)

MAX_PROCESS_WORKER_FRAME_BYTES == 1048576
PROCESS_WORKER_HEADER_BYTES == 148
MAX_PROCESS_WORKER_PAYLOAD_BYTES == MAX_PROCESS_WORKER_FRAME_BYTES - PROCESS_WORKER_HEADER_BYTES - 24
MAX_PROCESS_WORKER_CREDITS == 4096

Directions == <<"HostToWorker", "WorkerToHost">>
WorkerStates == <<"Starting", "Constructing", "Running", "Draining", "Stopping", "Stopped">>
FrameKinds == <<"Start", "Ready", "Construct", "Constructed", "Invoke", "Heartbeat", "Cancel", "Terminal",
                "StopAccepting", "Drained", "Stop", "Stopped", "Ping", "Pong", "Invoked">>
ConstructOutcomes == <<"Constructed", "Rejected", "Failed">>
TerminalKinds == <<"Completed", "Rejected", "Failed", "CancelledBeforeRun", "Uncertain">>
StopReasons == <<"Planned", "ApplyReplacement", "ProtocolFailure", "HostShutdown">>
StoppedOutcomes == <<"Clean", "Forced", "Failed">>

Code(names, name) == CHOOSE i \in DOMAIN names : names[i] = name
Named(names, code) == {names[i] : i \in DOMAIN names \cap {code}}

-----------------------------------------------------------------------------
(* Bodies.                                                                    *)
Body(kind, f) == [kind |-> kind, f |-> f]
credit_id(b) == b.f[1]

required_direction(kind) ==
    IF kind \in {"Start", "Construct", "Invoke", "Cancel", "StopAccepting", "Stop", "Ping"}
    THEN "HostToWorker" ELSE "WorkerToHost"

state_is_valid(kind, state) ==
    CASE kind \in {"Start", "Ready"} -> state = "Starting"
      [] kind \in {"Construct", "Constructed"} -> state = "Constructing"
      [] kind = "Invoke" -> state = "Running"
      [] kind \in {"StopAccepting", "Drained"} -> state = "Draining"
      [] kind = "Stop" -> state = "Stopping"
      [] kind = "Stopped" -> state = "Stopped"
      [] OTHER -> state \in {"Running", "Draining"}

(* The largest retained total does not fit in TLC's integers: it is left out. *)
ProcessFrameBody_validate(b) ==
    LET f == b.f IN
    CASE b.kind = "Start" -> /\ f[1] \in 1..MAX_PROCESS_WORKER_CREDITS /\ f[2] # 0
                             /\ f[3] # 0 /\ f[3] <= MAX_PROCESS_WORKER_PAYLOAD_BYTES
                             /\ f[4] # 0 /\ f[4] < f[5]
      [] b.kind \in {"Ready", "Construct"} -> \A i \in DOMAIN f : f[i] # Zero
      [] b.kind = "Invoke" -> f[1] # 0 /\ f[3] # 0 /\ f[4] <= MAX_PROCESS_WORKER_PAYLOAD_BYTES
      [] b.kind = "Terminal" -> f[1] # 0 /\ f[3] <= MAX_PROCESS_WORKER_PAYLOAD_BYTES
      [] b.kind \in {"Invoked", "Heartbeat", "Cancel", "Ping", "Pong"} -> f[1] # 0
      [] OTHER -> TRUE

BodyWidths(kind) ==
    CASE kind = "Start" -> <<4, 8, 4, 8, 8>>
      [] kind = "Ready" -> <<32>>
      [] kind = "Construct" -> <<32, 32, 16>>
      [] kind = "Heartbeat" -> <<8, 4, 8>>
      [] kind = "Cancel" -> <<8, 8>>
      [] kind \in {"Invoked", "Ping", "Pong"} -> <<8>>
      [] kind \in {"Constructed", "Stop", "Stopped"} -> <<1>>
      [] kind = "Invoke" -> <<8, 4, 4, 8>>
      [] kind = "Terminal" -> <<8, 1, 3, 4>>
      [] OTHER -> <<>>

EnumOf(kind) == CASE kind = "Constructed" -> ConstructOutcomes
                  [] kind = "Stop" -> StopReasons
                  [] kind = "Stopped" -> StoppedOutcomes

PayloadBytes(n) == IF n = 0 THEN <<>> ELSE fixed(n, n)
Fields(widths, values) == SubSeq([i \in DOMAIN widths |-> [n |-> widths[i], v |-> values[i]]], 1, Len(widths))

ProcessFrameBody_encode(b) ==
    LET f == b.f
        w == BodyWidths(b.kind)
    IN  CASE b.kind = "Invoke" -> Fields(w, <<f[1], f[4], f[2], f[3]>>) \o PayloadBytes(f[4])
          [] b.kind = "Terminal" ->
                Fields(w, <<f[1], Code(TerminalKinds, f[2]), 0, f[3]>>) \o PayloadBytes(f[3])
          [] b.kind \in {"Constructed", "Stop", "Stopped"} -> u8(Code(EnumOf(b.kind), f[1]))
          [] OTHER -> Fields(w, f)

(* What follows the fixed fields is the payload, of the announced length.     *)
PayloadFollows(rest, n) == IF n = 0 THEN AtEnd(rest) ELSE Left(rest) = 1 /\ Peek(rest, 1).n = n

decode_body(kind, tokens) ==
    UNION {LET v == g.v IN
           CASE kind = "Invoke" ->
                   IF PayloadFollows(g.rest, v[2]) THEN {Body(kind, <<v[1], v[3], v[4], v[2]>>)} ELSE {}
             [] kind = "Terminal" ->
                   {Body(kind, <<v[1], k, v[4]>>) :
                    k \in IF v[3] = 0 /\ PayloadFollows(g.rest, v[4]) THEN Named(TerminalKinds, v[2]) ELSE {}}
             [] kind \in {"Constructed", "Stop", "Stopped"} ->
                   {Body(kind, <<k>>) : k \in IF AtEnd(g.rest) THEN Named(EnumOf(kind), v[1]) ELSE {}}
             [] OTHER -> IF AtEnd(g.rest) THEN {Body(kind, v)} ELSE {} :
           g \in take(BodyWidths(kind), Cursor(tokens))}

-----------------------------------------------------------------------------
(* Frames.                                                                    *)
HeaderWidths == <<4, 2, 2, 4, 1, 1, 1, 1, 8, 16, 8, 16, 8, 16, 8, 8, 8, 32, 4>>

build_frame_wire(i, sequence, direction, state, invocation, kind, body) ==
    LET total == PROCESS_WORKER_HEADER_BYTES + encoded_len(body) IN
    IF total > MAX_PROCESS_WORKER_FRAME_BYTES THEN {}
    ELSE {Fields(HeaderWidths,
                 <<"PXWP", 1, PROCESS_WORKER_HEADER_BYTES, total, Code(FrameKinds, kind), Code(Directions, direction),
                   Code(WorkerStates, state), 0, sequence, i.runtime_host, i.runtime_host_epoch, i.process_domain,
                   i.process_domain_epoch, i.instance, i.instance_generation, invocation, i.source_revision,
                   i.target_slice, encoded_len(body)>>) \o body}

ProcessFrame_try_new(identity, sequence, direction, state, invocation, body) ==
    IF /\ sequence # 0
       /\ direction = required_direction(body.kind)
       /\ state_is_valid(body.kind, state)
       /\ (body.kind \in {"Invoke", "Invoked", "Cancel", "Terminal"} <=> invocation # 0)
       /\ ProcessFrameBody_validate(body)
    THEN {[identity |-> identity, sequence |-> sequence, direction |-> direction, state |-> state,
           invocation_id |-> invocation, body |-> body, wire |-> w] :
          w \in build_frame_wire(identity, sequence, direction, state, invocation, body.kind,
                                 ProcessFrameBody_encode(body))}
    ELSE {}

HeaderIdentity(v) ==
    [runtime_host |-> v[10], runtime_host_epoch |-> v[11], process_domain |-> v[12], process_domain_epoch |-> v[13],
     instance |-> v[14], instance_generation |-> v[15], source_revision |-> v[17], target_slice |-> v[18]]

(* Read strictly: the lengths agree, and writing it again gives the bytes.    *)
decode_frame(wire) ==
    UNION {LET v == g.v
               length == encoded_len(wire) IN
           IF /\ length <= MAX_PROCESS_WORKER_FRAME_BYTES
              /\ v[1] = "PXWP" /\ v[2] = 1 /\ v[3] = PROCESS_WORKER_HEADER_BYTES
              /\ v[4] = length /\ v[8] = 0 /\ PROCESS_WORKER_HEADER_BYTES + v[19] = length
           THEN {f \in UNION {ProcessFrame_try_new(i, v[9], d, s, v[16], b) :
                              i \in ProcessSessionIdentity_try_new(HeaderIdentity(v)),
                              d \in Named(Directions, v[6]), s \in Named(WorkerStates, v[7]),
                              b \in UNION {decode_body(k, SubSeq(wire, Len(HeaderWidths) + 1, Len(wire))) :
                                           k \in Named(FrameKinds, v[5])}} : f.wire = wire}
           ELSE {} : g \in take(HeaderWidths, Cursor(wire))}

-----------------------------------------------------------------------------
(* The session.  A lease is what an Invoke holds until its Terminal.          *)
NoLeases == [i \in {} |-> None]

ProcessProtocolSession_new(identity) ==
    [identity |-> identity, phase |-> "AwaitStart", host_sequence |-> 0, worker_sequence |-> 0,
     limits |-> None, active |-> NoLeases, retained_bytes |-> 0, heartbeat_sequence |-> 0, pending_ping |-> None]

invoked_leases(s) == {i \in DOMAIN s.active : s.active[i].invoked}
LeaseBytes(s, ids) == MapThenSumSet(LAMBDA i : s.active[i].retained_bytes, ids)

Accept(s) == [s |-> s, error |-> "None"]
Reject(s, error) == [s |-> s, error |-> error]
Must(s, ok, error, next) == IF ok THEN Accept(next) ELSE Reject(s, error)

apply_invoke(s, id, b) ==
    LET f == b.f
        retained == f[4] + f[2]
        lease == [credit_id |-> f[1], reservation |-> f[2], retained_bytes |-> retained, invoked |-> FALSE]
    IN  IF Cardinality(DOMAIN s.active) >= s.limits.max_inflight THEN Reject(s, "CreditExhausted")
        ELSE IF f[4] > s.limits.max_payload \/ f[2] > s.limits.max_payload THEN Reject(s, "InvalidBodyValue")
        ELSE IF id \in DOMAIN s.active \/ \E i \in DOMAIN s.active : s.active[i].credit_id = f[1]
        THEN Reject(s, "DuplicateCredit")
        ELSE IF s.retained_bytes + retained > s.limits.max_retained THEN Reject(s, "RetainedBytesExceeded")
        ELSE Accept([s EXCEPT !.active = [i \in DOMAIN @ \cup {id} |-> IF i = id THEN lease ELSE @[i]],
                              !.retained_bytes = @ + retained])

HoldsCredit(s, id, credit) == id \in DOMAIN s.active /\ s.active[id].credit_id = credit

apply_invoked(s, id, credit) ==
    IF ~HoldsCredit(s, id, credit) THEN Reject(s, "UnknownCredit")
    ELSE Must(s, ~s.active[id].invoked, "InvocationAckViolation", [s EXCEPT !.active[id].invoked = TRUE])

apply_terminal(s, id, b) ==
    IF ~HoldsCredit(s, id, credit_id(b)) THEN Reject(s, "UnknownCredit")
    ELSE IF ~s.active[id].invoked THEN Reject(s, "InvocationAckViolation")
    ELSE IF b.f[3] > s.active[id].reservation THEN Reject(s, "RetainedBytesExceeded")
    ELSE Accept([s EXCEPT !.active = [i \in DOMAIN @ \ {id} |-> @[i]],
                          !.retained_bytes = @ - s.active[id].retained_bytes])

(* The worker counts what it acknowledged, so an Invoke it has not read yet   *)
(* is not in its heartbeat.                                                   *)
apply_heartbeat(s, f) ==
    IF f[1] # s.heartbeat_sequence + 1 THEN Reject(s, "HeartbeatSequenceViolation")
    ELSE Must(s, f[2] = Cardinality(invoked_leases(s)) /\ f[3] = LeaseBytes(s, invoked_leases(s)),
              "RetainedSnapshotMismatch", [s EXCEPT !.heartbeat_sequence = f[1]])

Idle(s) == DOMAIN s.active = {} /\ s.retained_bytes = 0

(* The frames that carry no invocation: pings, draining and stopping.         *)
apply_control(s, b, live) ==
    CASE b.kind = "Ping" /\ live -> Must(s, s.pending_ping = None, "PingViolation", [s EXCEPT !.pending_ping = b.f[1]])
      [] b.kind = "Pong" /\ live -> Must(s, s.pending_ping = b.f[1], "PingViolation", [s EXCEPT !.pending_ping = None])
      [] b.kind = "StopAccepting" /\ s.phase = "Running" -> Accept([s EXCEPT !.phase = "Draining"])
      [] b.kind = "Drained" /\ s.phase = "Draining" ->
            Must(s, Idle(s), "RetainedSnapshotMismatch", [s EXCEPT !.phase = "AwaitStop"])
      [] b.kind = "Stop" /\ s.phase \in {"AwaitStop", "Failed"} ->
            Must(s, Idle(s), "RetainedSnapshotMismatch", [s EXCEPT !.phase = "Stopping"])
      [] b.kind = "Stopped" /\ s.phase = "Stopping" -> Accept([s EXCEPT !.phase = "Stopped"])
      [] OTHER -> Reject(s, "PhaseViolation")

apply_body(s, frame) ==
    LET b == frame.body
        k == b.kind
        id == frame.invocation_id
        live == s.phase \in {"Running", "Draining"}
    IN  CASE k = "Start" /\ s.phase = "AwaitStart" ->
                Accept([s EXCEPT !.phase = "AwaitReady",
                                 !.limits = [max_inflight |-> b.f[1], max_retained |-> b.f[2], max_payload |-> b.f[3]]])
          [] k = "Ready" /\ s.phase = "AwaitReady" -> Accept([s EXCEPT !.phase = "AwaitConstruct"])
          [] k = "Construct" /\ s.phase = "AwaitConstruct" -> Accept([s EXCEPT !.phase = "AwaitConstructed"])
          [] k = "Constructed" /\ s.phase = "AwaitConstructed" ->
                Accept([s EXCEPT !.phase = IF b.f[1] = "Constructed" THEN "Running" ELSE "Failed"])
          [] k = "Invoke" /\ s.phase = "Running" -> apply_invoke(s, id, b)
          [] k = "Invoked" /\ live -> apply_invoked(s, id, credit_id(b))
          [] k = "Cancel" /\ live -> Must(s, HoldsCredit(s, id, credit_id(b)), "UnknownCredit", s)
          [] k = "Terminal" /\ live -> apply_terminal(s, id, b)
          [] k = "Heartbeat" /\ live -> apply_heartbeat(s, b.f)
          [] OTHER -> apply_control(s, b, live)

advance(s, frame) ==
    LET host == frame.direction = "HostToWorker"
    IN  IF frame.identity # s.identity THEN Reject(s, "IdentityMismatch")
        ELSE IF frame.sequence # (IF host THEN s.host_sequence ELSE s.worker_sequence) + 1
        THEN Reject(s, "SequenceViolation")
        ELSE Bind(apply_body(s, frame), LAMBDA r :
                  IF r.error # "None" THEN r
                  ELSE IF host THEN Accept([r.s EXCEPT !.host_sequence = frame.sequence])
                  ELSE Accept([r.s EXCEPT !.worker_sequence = frame.sequence]))

(* The frames a session accepts, with the session after them.                 *)
Advanced(s, frames) ==
    {[f |-> x.f, s |-> x.a.s] : x \in {y \in {[f |-> f, a |-> advance(s, f)] : f \in frames} : y.a.error = "None"}}

-----------------------------------------------------------------------------
(* The Rust reference worker: it answers every host frame at once, with the   *)
(* protocol's own session, sends no heartbeat and knows no Cancel.            *)

RustFaults == {"none", "partial-invoked", "partial-terminal"}
RUST_RUNTIME_DIGEST == "rust-runtime"

WorkerSession(fault) == [fault |-> fault, session |-> None, worker_sequence |-> 0, exit |-> "None"]

RustExits(r, code) == [r EXCEPT !.w.exit = code]

(* The session accepts the worker's own frame before it is written; a fault   *)
(* writes half of the frame and leaves.                                       *)
worker_frame(r, state, id, body, fault) ==
    IF r.w.exit # "None" THEN r
    ELSE LET sequence == r.w.worker_sequence + 1
             sent(x) == [r EXCEPT !.w.worker_sequence = sequence, !.w.session = x.s,
                                  !.out = @ \o <<[wire |-> x.f.wire, whole |-> r.w.fault # fault]>>,
                                  !.w.exit = IF r.w.fault = fault THEN "Fault" ELSE @]
         IN  Bind(Advanced(r.w.session, ProcessFrame_try_new(r.w.session.identity, sequence, "WorkerToHost", state,
                                                             id, body)),
                  LAMBDA xs : IF xs = {} THEN RustExits(r, "Error") ELSE sent(CHOOSE x \in xs : TRUE))

accept_host(r, frame) ==
    Bind(advance(r.w.session, frame), LAMBDA a :
         IF a.error # "None" THEN RustExits(r, "Error") ELSE [r EXCEPT !.w.session = a.s])

start(r, frame) ==
    IF frame.body.kind # "Start" THEN RustExits(r, "Error")
    ELSE worker_frame(accept_host([r EXCEPT !.w.session = ProcessProtocolSession_new(frame.identity)], frame),
                      "Starting", 0, Body("Ready", <<RUST_RUNTIME_DIGEST>>), "start")

Complete(r, id, f) ==
    worker_frame(worker_frame(r, "Running", id, Body("Invoked", <<f[1]>>), "partial-invoked"),
                 "Running", id, Body("Terminal", <<f[1], "Completed", f[4]>>), "partial-terminal")

Answer(frame) ==
    LET b == frame.body
    IN  CASE b.kind = "Construct" -> <<"Constructing", Body("Constructed", <<"Constructed">>)>>
          [] b.kind = "StopAccepting" -> <<"Draining", Body("Drained", <<>>)>>
          [] b.kind = "Stop" -> <<"Stopped", Body("Stopped", <<"Clean">>)>>
          [] b.kind = "Ping" -> <<frame.state, Body("Pong", b.f)>>

Serve(a, frame) ==
    IF frame.body.kind = "Invoke" THEN Complete(a, frame.invocation_id, frame.body.f)
    ELSE Bind(worker_frame(a, Answer(frame)[1], 0, Answer(frame)[2], "start"), LAMBDA s :
              IF frame.body.kind = "Stop" /\ s.w.exit = "None" THEN RustExits(s, "Clean") ELSE s)

serve(r, frame) ==
    IF frame.body.kind \in {"Construct", "Invoke", "StopAccepting", "Stop", "Ping"}
    THEN Bind(accept_host(r, frame), LAMBDA a : Serve(a, frame)) ELSE RustExits(r, "Error")

RustRead(w, wire) ==
    LET r == [w |-> w, out |-> <<>>]
        read(frame) == IF w.session = None THEN start(r, frame) ELSE serve(r, frame)
    IN  Bind(decode_frame(wire), LAMBDA frames :
             IF frames = {} THEN RustExits(r, "Error") ELSE read(CHOOSE f \in frames : TRUE))
=============================================================================
