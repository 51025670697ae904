------------------------------ MODULE PythonWorker ------------------------------
(* The Python reference worker: its own reading and writing of PXWP frames,   *)
(* and the loop that serves one session.  It shares no definition with the    *)
(* Rust side of the protocol but the bytes.  A step maps [w, out], the worker *)
(* and the packets it wrote, to another; once w.exit is set nothing follows.  *)
EXTENDS StoreCodec

CONSTANTS Zero, None

MAX_FRAME_BYTES == 1048576
HEADER_BYTES == 148
MAX_PAYLOAD_BYTES == MAX_FRAME_BYTES - HEADER_BYTES - 24
MAX_CREDITS == 4096

Direction == <<"HOST_TO_WORKER", "WORKER_TO_HOST">>
WorkerState == <<"STARTING", "CONSTRUCTING", "RUNNING", "DRAINING", "STOPPING", "STOPPED">>
FrameKind == <<"START", "READY", "CONSTRUCT", "CONSTRUCTED", "INVOKE", "HEARTBEAT", "CANCEL", "TERMINAL",
               "STOP_ACCEPTING", "DRAINED", "STOP", "STOPPED", "PING", "PONG", "INVOKED">>
ConstructOutcome == <<"CONSTRUCTED", "REJECTED", "FAILED">>
TerminalKind == <<"COMPLETED", "REJECTED", "FAILED", "CANCELLED_BEFORE_RUN", "UNCERTAIN">>
StopReason == <<"PLANNED", "APPLY_REPLACEMENT", "PROTOCOL_FAILURE", "HOST_SHUTDOWN">>
StoppedOutcome == <<"CLEAN", "FORCED", "FAILED">>

_int(enum, name) == CHOOSE i \in DOMAIN enum : enum[i] = name
_enum(enum, value) == {enum[i] : i \in DOMAIN enum \cap {value}}

SessionIdentity(i) ==
    {x \in {i} : /\ \A v \in {i.runtime_host_id, i.process_domain_id, i.instance_id, i.target_slice_digest} : v # Zero
                 /\ \A n \in {i.runtime_host_epoch, i.process_domain_epoch, i.instance_generation,
                              i.source_plan_revision} : n # 0}

-----------------------------------------------------------------------------
(* Bodies: the dataclasses, with their fields in order.                       *)
_HOST_KINDS == {"START", "CONSTRUCT", "INVOKE", "CANCEL", "STOP_ACCEPTING", "STOP", "PING"}
_INVOCATION_KINDS == {"INVOKE", "INVOKED", "CANCEL", "TERMINAL"}
_VALID_STATES(kind) ==
    CASE kind \in {"START", "READY"} -> {"STARTING"}
      [] kind \in {"CONSTRUCT", "CONSTRUCTED"} -> {"CONSTRUCTING"}
      [] kind = "INVOKE" -> {"RUNNING"}
      [] kind \in {"STOP_ACCEPTING", "DRAINED"} -> {"DRAINING"}
      [] kind = "STOP" -> {"STOPPING"}
      [] kind = "STOPPED" -> {"STOPPED"}
      [] OTHER -> {"RUNNING", "DRAINING"}

Pack(widths, values) == SubSeq([i \in DOMAIN widths |-> [n |-> widths[i], v |-> values[i]]], 1, Len(widths))
Payload(n) == IF n = 0 THEN <<>> ELSE <<[n |-> n, v |-> n]>>
When(ok, x) == IF ok THEN {x} ELSE {}

encode_body(b) ==
    LET f == b.f IN
    CASE b.kind = "START" ->
            When(/\ f[1] \in 1..MAX_CREDITS /\ f[2] > 0 /\ f[3] > 0 /\ f[3] <= MAX_PAYLOAD_BYTES
                 /\ f[4] > 0 /\ f[4] < f[5], Pack(<<4, 8, 4, 8, 8>>, f))
      [] b.kind = "READY" -> When(f[1] # Zero, Pack(<<32>>, f))
      [] b.kind = "CONSTRUCT" -> When(\A i \in 1..3 : f[i] # Zero, Pack(<<32, 32, 16>>, f))
      [] b.kind = "CONSTRUCTED" -> {Pack(<<1>>, <<_int(ConstructOutcome, f[1])>>)}
      [] b.kind = "INVOKE" ->
            When(f[1] # 0 /\ f[3] # 0 /\ f[4] <= MAX_PAYLOAD_BYTES,
                 Pack(<<8, 4, 4, 8>>, <<f[1], f[4], f[2], f[3]>>) \o Payload(f[4]))
      [] b.kind = "HEARTBEAT" -> When(f[1] # 0, Pack(<<8, 4, 8>>, f))
      [] b.kind = "CANCEL" -> When(f[1] # 0, Pack(<<8, 8>>, f))
      [] b.kind = "TERMINAL" ->
            When(f[1] # 0 /\ f[3] <= MAX_PAYLOAD_BYTES,
                 Pack(<<8, 1, 3, 4>>, <<f[1], _int(TerminalKind, f[2]), 0, f[3]>>) \o Payload(f[3]))
      [] b.kind \in {"STOP_ACCEPTING", "DRAINED"} -> {<<>>}
      [] b.kind = "STOP" -> {Pack(<<1>>, <<_int(StopReason, f[1])>>)}
      [] b.kind = "STOPPED" -> {Pack(<<1>>, <<_int(StoppedOutcome, f[1])>>)}
      [] b.kind \in {"INVOKED", "PING", "PONG"} -> When(f[1] # 0, Pack(<<8>>, f))

PyBody(kind, f) == [kind |-> kind, f |-> f]

(* struct.unpack of exactly these widths.                                     *)
Unpack(kind, widths, body) == {PyBody(kind, g.v) : g \in {h \in take(widths, Cursor(body)) : AtEnd(h.rest)}}
UnpackEnum(kind, enum, body) ==
    UNION {{PyBody(kind, <<e>>) : e \in _enum(enum, u.f[1])} : u \in Unpack(kind, <<1>>, body)}
EndsWith(rest, n) == IF n = 0 THEN AtEnd(rest) ELSE Left(rest) = 1 /\ Peek(rest, 1).n = n

py_decode_body(kind, body) ==
    CASE kind = "START" -> Unpack(kind, <<4, 8, 4, 8, 8>>, body)
      [] kind = "READY" -> Unpack(kind, <<32>>, body)
      [] kind = "CONSTRUCT" -> Unpack(kind, <<32, 32, 16>>, body)
      [] kind = "CONSTRUCTED" -> UnpackEnum(kind, ConstructOutcome, body)
      [] kind = "INVOKE" ->
            {PyBody(kind, <<g.v[1], g.v[3], g.v[4], g.v[2]>>) :
             g \in {h \in take(<<8, 4, 4, 8>>, Cursor(body)) : EndsWith(h.rest, h.v[2])}}
      [] kind = "HEARTBEAT" -> Unpack(kind, <<8, 4, 8>>, body)
      [] kind = "CANCEL" -> Unpack(kind, <<8, 8>>, body)
      [] kind = "TERMINAL" ->
            UNION {{PyBody(kind, <<g.v[1], e, g.v[4]>>) : e \in _enum(TerminalKind, g.v[2])} :
                   g \in {h \in take(<<8, 1, 3, 4>>, Cursor(body)) : h.v[3] = 0 /\ EndsWith(h.rest, h.v[4])}}
      [] kind \in {"STOP_ACCEPTING", "DRAINED"} -> Unpack(kind, <<>>, body)
      [] kind = "STOP" -> UnpackEnum(kind, StopReason, body)
      [] kind = "STOPPED" -> UnpackEnum(kind, StoppedOutcome, body)
      [] kind \in {"INVOKED", "PING", "PONG"} -> Unpack(kind, <<8>>, body)

-----------------------------------------------------------------------------
(* Frames.                                                                    *)
_HEADER == <<4, 2, 2, 4, 1, 1, 1, 1, 8, 16, 8, 16, 8, 16, 8, 8, 8, 32, 4>>

Frame(identity, sequence, direction, state, invocation, body) ==
    When(/\ sequence # 0
         /\ direction = IF body.kind \in _HOST_KINDS THEN "HOST_TO_WORKER" ELSE "WORKER_TO_HOST"
         /\ state \in _VALID_STATES(body.kind)
         /\ (body.kind \in _INVOCATION_KINDS <=> invocation # 0)
         /\ encode_body(body) # {},
         [identity |-> identity, sequence |-> sequence, direction |-> direction, state |-> state,
          invocation_id |-> invocation, body |-> body])

encode(f) ==
    UNION {LET i == f.identity
               total == HEADER_BYTES + encoded_len(b) IN
           When(total <= MAX_FRAME_BYTES,
                Pack(_HEADER,
                     <<"PXWP", 1, HEADER_BYTES, total, _int(FrameKind, f.body.kind), _int(Direction, f.direction),
                       _int(WorkerState, f.state), 0, f.sequence, i.runtime_host_id, i.runtime_host_epoch,
                       i.process_domain_id, i.process_domain_epoch, i.instance_id, i.instance_generation,
                       f.invocation_id, i.source_plan_revision, i.target_slice_digest, encoded_len(b)>>) \o b) :
           b \in encode_body(f.body)}

_identity(v) ==
    SessionIdentity([runtime_host_id |-> v[10], runtime_host_epoch |-> v[11], process_domain_id |-> v[12],
                     process_domain_epoch |-> v[13], instance_id |-> v[14], instance_generation |-> v[15],
                     source_plan_revision |-> v[17], target_slice_digest |-> v[18]])

decode(encoded) ==
    UNION {LET v == g.v
               length == encoded_len(encoded) IN
           IF /\ length <= MAX_FRAME_BYTES
              /\ v[1] = "PXWP" /\ v[2] = 1 /\ v[3] = HEADER_BYTES /\ v[4] = length /\ v[8] = 0
              /\ HEADER_BYTES + v[19] = length
           THEN {f \in UNION {Frame(i, v[9], d, s, v[16], b) :
                              i \in _identity(v), d \in _enum(Direction, v[6]), s \in _enum(WorkerState, v[7]),
                              b \in UNION {py_decode_body(k, SubSeq(encoded, Len(_HEADER) + 1, Len(encoded))) :
                                           k \in _enum(FrameKind, v[5])}} : encode(f) = {encoded}}
           ELSE {} : g \in take(_HEADER, Cursor(encoded))}

-----------------------------------------------------------------------------
(* The loop.  due_at and next_heartbeat are readings of the monotonic clock,  *)
(* None when nothing is due.                                                  *)
FaultModes == {"normal", "crash", "block", "ignore-cancel", "ignore-term", "spawn-grandchild", "partial-frame",
               "stale-generation", "memory-pressure"}
WORKER_RUNTIME_DIGEST == "python-runtime"

ReferenceWorker(fault, delay) ==
    [fault |-> fault, delay |-> delay, phase |-> "AWAIT_START", identity |-> None, host_sequence |-> 0,
     worker_sequence |-> 0, heartbeat_sequence |-> 0, heartbeat_interval |-> 0, next_heartbeat |-> None,
     max_inflight |-> 0, max_retained |-> 0, max_payload |-> 0, retained |-> 0, active |-> [i \in {} |-> None],
     exit |-> "None"]

Alive(r) == r.w.exit = "None"
Exits(r, code) == [r EXCEPT !.w.exit = code]
Raise(r) == Exits(r, "Error")

_live_state(w) == IF w.phase = "DRAINING" THEN "DRAINING" ELSE "RUNNING"

StaleIdentity(i) == [i EXCEPT !.process_domain_epoch = IF @ > 1 THEN @ - 1 ELSE @ + 1]

(* A packet is complete, or the half of it that the partial-frame fault       *)
(* writes before it ends the process.                                         *)
_send(r, body, state, invocation) ==
    IF ~Alive(r) THEN r
    ELSE LET w == r.w
             sequence == w.worker_sequence + 1
             identity == IF w.fault = "stale-generation" /\ sequence = 1 THEN StaleIdentity(w.identity) ELSE w.identity
             sent(wire) == [r EXCEPT !.w.worker_sequence = sequence,
                                     !.out = @ \o <<[wire |-> wire, whole |-> w.fault # "partial-frame"]>>,
                                     !.w.exit = IF w.fault = "partial-frame" THEN "Fault" ELSE @]
         IN  Bind(UNION {encode(f) : f \in Frame(identity, sequence, "WORKER_TO_HOST", state, invocation, body)},
                  LAMBDA wires : IF wires = {} THEN Raise(r) ELSE sent(CHOOSE x \in wires : TRUE))

_maybe_finish_drain(r) ==
    IF Alive(r) /\ r.w.phase = "DRAINING" /\ DOMAIN r.w.active = {} /\ r.w.retained = 0
    THEN Bind(_send(r, PyBody("DRAINED", <<>>), "DRAINING", 0), LAMBDA s :
              IF Alive(s) THEN [s EXCEPT !.w.phase = "AWAIT_STOP", !.w.next_heartbeat = None] ELSE s)
    ELSE r

_terminal(r, id, kind, payload) ==
    LET a == r.w.active[id]
        popped == [r EXCEPT !.w.active = [i \in DOMAIN @ \ {id} |-> @[i]], !.w.retained = @ - a.retained_bytes]
    IN  Bind(_send(popped, PyBody("TERMINAL", <<a.credit_id, kind, payload>>), _live_state(r.w), id),
             LAMBDA s : _maybe_finish_drain(s))

Due(w, now) == {i \in DOMAIN w.active : w.active[i].due_at # None /\ (w.active[i].due_at # None => w.active[i].due_at <= now)}

(* At most one invocation is ever active: the host admits one at a time.      *)
_complete_due_invocations(r, now) ==
    IF ~Alive(r) \/ Due(r.w, now) = {} THEN r
    ELSE LET id == CHOOSE i \in Due(r.w, now) : TRUE
             a == r.w.active[id]
             fits == a.payload <= a.response_reservation_bytes
         IN  _terminal(r, id, IF fits THEN "COMPLETED" ELSE "FAILED", IF fits THEN a.payload ELSE 0)

_maybe_heartbeat(r, now) ==
    IF Alive(r) /\ r.w.next_heartbeat # None /\ r.w.phase \in {"RUNNING", "DRAINING"}
    THEN IF now < r.w.next_heartbeat THEN r
         ELSE LET beat == r.w.heartbeat_sequence + 1
              IN  _send([r EXCEPT !.w.heartbeat_sequence = beat,
                                  !.w.next_heartbeat = now + r.w.heartbeat_interval],
                        PyBody("HEARTBEAT", <<beat, Cardinality(DOMAIN r.w.active), r.w.retained>>),
                        _live_state(r.w), 0)
    ELSE r

_invoke(r, id, f, now) ==
    LET w == r.w
        retained == f[4] + f[2]
        due == IF w.fault \in {"block", "ignore-cancel"} THEN None ELSE now + w.delay
        a == [credit_id |-> f[1], response_reservation_bytes |-> f[2], retained_bytes |-> retained,
              payload |-> f[4], due_at |-> due]
        added == [r EXCEPT !.w.active = [i \in DOMAIN @ \cup {id} |-> IF i = id THEN a ELSE @[i]],
                           !.w.retained = @ + retained]
    IN  IF \/ Cardinality(DOMAIN w.active) >= w.max_inflight
           \/ id \in DOMAIN w.active \/ \E i \in DOMAIN w.active : w.active[i].credit_id = f[1]
           \/ f[4] > w.max_payload \/ f[2] > w.max_payload
           \/ w.retained + retained > w.max_retained THEN Raise(r)
        ELSE IF w.fault = "crash" THEN Exits(r, "Fault")
        ELSE Bind(_send(added, PyBody("INVOKED", <<f[1]>>), _live_state(w), id), LAMBDA acked :
                  IF w.fault = "block" THEN [acked EXCEPT !.w.phase = "BLOCKED"]
                  ELSE _complete_due_invocations(acked, now))

_cancel(r, id, credit) ==
    IF id \notin DOMAIN r.w.active THEN Raise(r)
    ELSE IF r.w.active[id].credit_id # credit THEN Raise(r)
    ELSE IF r.w.fault = "ignore-cancel" THEN r
    ELSE _terminal(r, id, "CANCELLED_BEFORE_RUN", 0)

_transition(r, frame, now) ==
    LET b == frame.body
        w == r.w
        live == w.phase \in {"RUNNING", "DRAINING"}
    IN  CASE b.kind = "START" /\ w.phase = "AWAIT_START" ->
                _send([r EXCEPT !.w.identity = frame.identity, !.w.max_inflight = b.f[1], !.w.max_retained = b.f[2],
                                !.w.max_payload = b.f[3], !.w.heartbeat_interval = b.f[4],
                                !.w.phase = "AWAIT_CONSTRUCT"],
                      PyBody("READY", <<WORKER_RUNTIME_DIGEST>>), "STARTING", 0)
          [] b.kind = "CONSTRUCT" /\ w.phase = "AWAIT_CONSTRUCT" ->
                _send([r EXCEPT !.w.phase = "RUNNING", !.w.next_heartbeat = now + w.heartbeat_interval],
                      PyBody("CONSTRUCTED", <<"CONSTRUCTED">>), "CONSTRUCTING", 0)
          [] b.kind = "INVOKE" /\ w.phase = "RUNNING" -> _invoke(r, frame.invocation_id, b.f, now)
          [] b.kind = "CANCEL" /\ live -> _cancel(r, frame.invocation_id, b.f[1])
          [] b.kind = "PING" /\ live -> _send(r, PyBody("PONG", b.f), _live_state(w), 0)
          [] b.kind = "STOP_ACCEPTING" /\ w.phase = "RUNNING" ->
                _maybe_finish_drain([r EXCEPT !.w.phase = "DRAINING"])
          [] b.kind = "STOP" /\ w.phase = "AWAIT_STOP" ->
                _send([r EXCEPT !.w.phase = "STOPPED", !.w.next_heartbeat = None],
                      PyBody("STOPPED", <<"CLEAN">>), "STOPPED", 0)
          [] OTHER -> Raise(r)

_accept(r, frame, now) ==
    IF \/ frame.direction # "HOST_TO_WORKER"
       \/ frame.sequence # r.w.host_sequence + 1
       \/ r.w.identity # None /\ (r.w.identity # None => frame.identity # r.w.identity)
    THEN Raise(r)
    ELSE Bind(_transition(r, frame, now), LAMBDA t :
              IF Alive(t) THEN [t EXCEPT !.w.host_sequence = frame.sequence] ELSE t)

(* The head of the loop, before it waits for input, and the end of it.        *)
LoopHead(w, now) ==
    Bind(_complete_due_invocations([w |-> w, out |-> <<>>], now), LAMBDA done :
    Bind(_maybe_finish_drain(done), LAMBDA drained :
    Bind(_maybe_heartbeat(drained, now), LAMBDA r :
         IF Alive(r) /\ r.w.phase = "STOPPED" THEN Exits(r, "Clean") ELSE r)))

(* One packet is read and served; an unreadable one and the end of input are  *)
(* errors.                                                                    *)
LoopRead(w, wire, now) ==
    LET r == [w |-> w, out |-> <<>>]
    IN  Bind(decode(wire), LAMBDA frames :
             IF frames = {} THEN Raise(r) ELSE _accept(r, CHOOSE f \in frames : TRUE, now))

LoopEof(w) == Raise([w |-> w, out |-> <<>>])
================================================================================
