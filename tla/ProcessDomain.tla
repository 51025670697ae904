----------------------------- MODULE ProcessDomain -----------------------------
(* The owner of one worker process: it starts it, calls it, watches its       *)
(* heartbeat, stops it, proves that nothing of it is left and starts the next *)
(* generation.  Here are its state and its methods up to the awaits; the      *)
(* steps between the awaits are in ProcessLifecycle.                          *)
(*                                                                            *)
(* Time is counted from the present: now is 0 and the clock's tick moves      *)
(* every stored reading back.  A method maps x = [d, p, e, q] to another: the *)
(* owner, the world outside it, the error and the reducer's last decision.    *)
EXTENDS Recovery

CONSTANTS Budgets,          \* start, drain, ack, run, grace: ticks of a call
          HeartbeatInterval,
          Capacity,         \* ipc_credit_bytes, max_retained_bytes
          Reservation       \* bytes reserved for a terminal payload

Then(x, F(_)) == CHOOSE z \in {IF y.e # "None" THEN y ELSE F(y) : y \in {x}} : TRUE
Failed(x, e) == [x EXCEPT !.e = e]

-----------------------------------------------------------------------------
(* The world: two pipes, the leader and one helper of its process group, the  *)
(* generation's directory, and the payload bytes a consumer still holds.      *)
NoProcess ==
    [epoch |-> 0, worker |-> None, to_worker |-> <<>>, to_host |-> <<>>, stdin |-> FALSE, stdout |-> FALSE,
     leader |-> "None", helper |-> FALSE, dying |-> {}, workspace |-> "None", delivered |-> 0]

group_exists(p) == p.leader \in {"Alive", "Zombie"} \/ p.helper
try_wait(p) == [p EXCEPT !.leader = IF @ = "Zombie" THEN "Reaped" ELSE @]
process_is_gone(p) == ~group_exists(try_wait(p))

(* A dead leader reads nothing more.                                          *)
Died(p) == [p EXCEPT !.leader = "Zombie", !.worker = None, !.to_worker = <<>>]

(* SIGTERM leaves a leader that ignores it, and the helper, alone.            *)
terminate_group(p) ==
    [p EXCEPT !.dying = @ \cup IF p.leader = "Alive" /\ p.worker.w.fault # "ignore-term" THEN {"leader"} ELSE {}]
kill_group(p) == [p EXCEPT !.dying = {"leader", "helper"}]

(* The owner knows a directory is removed only when it could still look: a    *)
(* removal whose last check failed cannot be repeated.                        *)
workspace_cleanup(p) ==
    CASE p.workspace = "Present" -> {[w |-> "Clean", ok |-> TRUE], [w |-> "Present", ok |-> FALSE],
                                     [w |-> "Removed", ok |-> FALSE]}
      [] p.workspace = "Removed" -> {[w |-> "Removed", ok |-> FALSE]}
      [] OTHER -> {[w |-> p.workspace, ok |-> TRUE]}

close_pipes(p) == [p EXCEPT !.stdin = FALSE, !.stdout = FALSE, !.to_host = <<>>]

-----------------------------------------------------------------------------
(* The transport: [session, max_retained, poisoned].                          *)
ProcessTransport(epoch) == [session |-> ProcessProtocolSession_new(SessionOf(epoch)), max_retained |-> 0, poisoned |-> FALSE]

transport_retained_bytes(t, p) == t.session.retained_bytes + p.delivered

HostFrames(t, state, id, body) ==
    Advanced(t.session, ProcessFrame_try_new(t.session.identity, t.session.host_sequence + 1, "HostToWorker", state,
                                             id, body))

(* The session is advanced, and the transport poisoned, before the first byte *)
(* is written; only a complete write heals it.                                *)
send_host_frame(t, p, state, id, body) ==
    LET sent(s) == [t EXCEPT !.session = s, !.poisoned = TRUE,
                             !.max_retained = IF body.kind = "Start" THEN body.f[2] ELSE @]
        result(u, q, e) == [t |-> u, p |-> q, e |-> e]
        send(x) == IF ~p.stdin \/ p.leader # "Alive" THEN result(sent(x.s), p, "Io")
                   ELSE result(sent(x.s), [p EXCEPT !.to_worker = Append(@, [wire |-> x.f.wire, whole |-> "no"])],
                               "None")
    IN  IF t.poisoned THEN result(t, p, "Poisoned")
        ELSE IF body.kind = "Invoke" /\ (body.kind = "Invoke" =>
                 transport_retained_bytes(t, p) + body.f[4] + body.f[2] > t.max_retained)
        THEN result(t, p, "Protocol")
        ELSE Bind(HostFrames(t, state, id, body), LAMBDA xs :
                  IF xs = {} THEN result(t, p, "Protocol") ELSE send(CHOOSE x \in xs : TRUE))

(* The rest of a write that the pipe takes at once.                           *)
Written(p) == [p EXCEPT !.to_worker[Len(p.to_worker)].whole = "yes"]
WriteNow(r) == IF r.e = "None" THEN [r EXCEPT !.t.poisoned = FALSE, !.p = Written(@)] ELSE r

(* A read does not block: the transport is poisoned, the pipe is closed, a    *)
(* packet is complete, or the worker is gone.                                 *)
Readable(t, p) ==
    \/ t.poisoned \/ ~p.stdout \/ p.leader # "Alive"
    \/ p.to_host # <<>> /\ (p.to_host # <<>> => Head(p.to_host).whole)

TerminalBytes(frame) == IF frame.body.kind = "Terminal" THEN frame.body.f[3] ELSE 0

transport_receive_worker_frame(t, p) ==
    LET result(u, q, e, f) == [t |-> u, p |-> q, e |-> e, frame |-> f]
        poisoned == [t EXCEPT !.poisoned = TRUE]
        rest == [p EXCEPT !.to_host = Tail(@)]
        got(x) == result([t EXCEPT !.session = x.s], [rest EXCEPT !.delivered = @ + TerminalBytes(x.f)], "None", x.f)
        read(frames) ==
            Bind(Advanced(t.session, {f \in frames : f.direction = "WorkerToHost"}), LAMBDA xs :
                 IF xs = {} THEN result(poisoned, rest, "Protocol", None) ELSE got(CHOOSE x \in xs : TRUE))
    IN  IF t.poisoned THEN result(t, p, "Poisoned", None)
        ELSE IF ~p.stdout \/ p.to_host = <<>> THEN result(poisoned, p, "Eof", None)
        ELSE IF ~Head(p.to_host).whole THEN result(poisoned, p, "Eof", None)
        ELSE read(decode_frame(Head(p.to_host).wire))

-----------------------------------------------------------------------------
(* The owner.                                                                 *)
NewDomain(epoch, transport, liveness, recovery) ==
    [phase |-> "Running", epoch |-> epoch, transport |-> transport, liveness |-> liveness, recovery |-> recovery,
     gate |-> ProcessAdmissionGate(ProcessGenerationIdentity(epoch)), fence |-> None, authority |-> None,
     next_id |-> 0, active |-> None, retained |-> None, next_fact |-> 0, expected_loss |-> "None"]

DomainSend(x, state, id, body) ==
    IF x.d.transport = None THEN Failed(x, "MissingTransport")
    ELSE CHOOSE z \in {[x EXCEPT !.d.transport = r.t, !.p = r.p, !.e = r.e] :
                       r \in {send_host_frame(x.d.transport, x.p, state, id, body)}} : TRUE
WriteRest(x) == Then(x, LAMBDA y : [y EXCEPT !.d.transport.poisoned = FALSE, !.p = Written(@)])
SendNow(x, state, id, body) == WriteRest(DomainSend(x, state, id, body))

(* The reducer's answer; on an error the owner keeps the state it had.  The   *)
(* owner numbers its facts, so what the last one said is never compared.      *)
Reduce(x, r) == CHOOSE z \in {IF y.error # "None" THEN Failed(x, y.error)
                              ELSE [x EXCEPT !.d.recovery = [y.state EXCEPT !.last_fact_fingerprint = None],
                                             !.q = y.decision] : y \in {r}} : TRUE

Pending(x) == x.d.recovery.pending_action
complete(x, outcome) == Reduce(x, complete_action(x.d.recovery, Pending(x).id, outcome, 0))

fence_admission(x) ==
    IF x.d.gate # None THEN [x EXCEPT !.d.gate = None, !.d.fence = fence(x.d.gate)]
    ELSE IF x.d.fence # None \/ x.d.authority # None THEN x
    ELSE Failed(x, "MissingAdmissionCapability")

next_recovery_fact(x, kind) == RuntimeFailureFact_try_new(ProcessGenerationIdentity(x.d.epoch), x.d.next_fact + 1, 0, kind)

RecordFact(x, kind) ==
    LET facts == next_recovery_fact(x, kind) IN
    IF facts = {} THEN Failed(x, "InvalidFact")
    ELSE Reduce([x EXCEPT !.d.next_fact = @ + 1], observe_fact(x.d.recovery, CHOOSE f \in facts : TRUE))

Fact(name) == [name |-> name]

(* The reducer asks for the fence first; the owner completes it at once.      *)
complete_recovery_fence(x) ==
    IF x.q.name \in {"Execute", "AwaitingAction"} /\ Pending(x).action.kind = "FenceAndStopAdmission"
    THEN Then(fence_admission(x), LAMBDA y :
              Then(complete(y, "Succeeded"), LAMBDA z :
                   IF z.q.name = "Execute" /\ (z.q.name = "Execute" => z.q.action.action.kind = "RequestCooperativeStop")
                   THEN z ELSE Failed(y, "UnexpectedRecoveryDecision")))
    ELSE x

begin_unexpected_recovery(x, kind) ==
    Then(RecordFact([x EXCEPT !.d.phase = "Recovering", !.d.expected_loss = "No"], kind),
         LAMBDA y : complete_recovery_fence(y))

(* What nobody reads once a generation is over: how often its worker was      *)
(* heard, and how far its dialogue got.                                       *)
Silent(l) == [l EXCEPT !.last_worker_sequence = 0, !.last_heartbeat_sequence = 0, !.last_heartbeat_at = None]
Ended(t) == [t EXCEPT !.session = [@ EXCEPT !.phase = "Stopped", !.host_sequence = 0, !.worker_sequence = 0,
                                            !.heartbeat_sequence = 0]]

MarkQuarantined(x) == [x EXCEPT !.d.phase = "Quarantined", !.d.liveness = Silent(mark_quarantined(@, 0))]

(* A pending quarantine is entered and its cleanup collected; the result is   *)
(* whether that happened.                                                     *)
EnterPendingQuarantine(x) ==
    Then(complete(x, "Succeeded"), LAMBDA y :
         IF y.q.name \in {"NoAction", "WaitUntil"} THEN y
         ELSE IF Pending(y).action.kind = "CollectCleanup" THEN complete(y, "Succeeded")
         ELSE Failed(y, "UnexpectedRecoveryDecision"))

complete_invariant_recovery(x) ==
    IF x.q.name \notin {"Execute", "AwaitingAction"} THEN [x |-> x, entered |-> FALSE]
    ELSE IF Pending(x).action.kind = "FenceAndStopAdmission"
    THEN [x |-> complete_recovery_fence(x), entered |-> FALSE]
    ELSE IF Pending(x).action.kind = "EnterQuarantine"
    THEN [x |-> EnterPendingQuarantine(x), entered |-> TRUE]
    ELSE [x |-> x, entered |-> FALSE]

fail_owner_invariant(x) ==
    LET recorded == Then(fence_admission([x EXCEPT !.d.phase = "Recovering", !.d.expected_loss = "No"]),
                         LAMBDA y : RecordFact(y, Fact("OwnerInvariantViolation")))
    IN  Then(recorded, LAMBDA y :
             CHOOSE z \in {Then(r.x, LAMBDA w : IF r.entered \/ w.d.recovery.phase.name = "Quarantined"
                                                THEN MarkQuarantined(w) ELSE w) :
                           r \in {complete_invariant_recovery(y)}} : TRUE)

(* The caller's error is returned unless recording it failed first.           *)
FailOwner(x, e) == Then(fail_owner_invariant(x), LAMBDA y : Failed(y, e))

set_active_stage(x, stage) ==
    IF x.d.active = None THEN Failed(x, "InvocationStateInconsistent") ELSE [x EXCEPT !.d.active.stage = stage]

mark_active_uncertain(x) ==
    Then(set_active_stage(x, "Uncertain"), LAMBDA y :
         begin_unexpected_recovery(y, [name |-> "InvocationUncertain", side_effect |-> y.d.active.side_effect]))

resource_failure_fact(e) == IF e = "ResourceLimit" THEN "ResourceLimitExceeded" ELSE "None"

additional_failure_fact(e) ==
    IF resource_failure_fact(e) # "None" THEN resource_failure_fact(e)
    ELSE IF e \in {"HeartbeatTimedOut", "DeadlineElapsed"} THEN "HeartbeatMissed"
    ELSE IF e \in {"UnexpectedWorkerFrame", "Protocol"} THEN "ProtocolViolation"
    ELSE IF e = "Poisoned" THEN "OwnerInvariantViolation" ELSE "None"

mark_active_uncertain_after(x, e) ==
    Then(mark_active_uncertain(x), LAMBDA y :
         IF additional_failure_fact(e) = "None" THEN y
         ELSE begin_unexpected_recovery(y, Fact(additional_failure_fact(e))))

(* What an invocation's error costs, and the error itself.                    *)
LoseInvocation(x, e) == Then(mark_active_uncertain_after(x, e), LAMBDA y : Failed(y, e))

record_liveness_failure(x) ==
    LET r == evaluate(x.d.liveness, 0)
        y == [x EXCEPT !.d.liveness = r.state]
    IN  IF r.out = None THEN [x |-> y, failed |-> FALSE]
        ELSE [x |-> begin_unexpected_recovery(y, Fact(IF r.out = "StartupTimedOut" THEN "LaunchFailed" ELSE r.out)),
              failed |-> TRUE]

refresh_retained_terminal(x) ==
    IF x.d.transport = None THEN Failed(x, "MissingTransport")
    ELSE IF x.p.delivered = 0 THEN [x EXCEPT !.d.retained = None]
    ELSE IF x.d.retained # None /\ (x.d.retained # None => x.d.retained.bytes = x.p.delivered) THEN x
    ELSE Failed(x, "InvocationStateInconsistent")

observe_heartbeat(x, frame) ==
    CHOOSE z \in {IF r.error # "None" THEN Failed(x, r.error) ELSE [x EXCEPT !.d.liveness = r.state] :
                  r \in {liveness_observe_heartbeat(x.d.liveness, ProcessGenerationIdentity(x.d.epoch), frame.sequence,
                                                    frame.body.f[1], 0)}} : TRUE

(* A frame that is dropped releases its charge.                               *)
Dropped(x, frame) == [x EXCEPT !.p.delivered = @ - TerminalBytes(frame)]

finish_terminal(x, frame) ==
    LET a == x.d.active
        f == frame.body.f
        marked == IF f[2] = "Uncertain" THEN mark_active_uncertain(x) ELSE x
    IN  IF a = None THEN Failed(x, "InvocationStateInconsistent")
        ELSE IF frame.invocation_id # a.id \/ f[1] # a.id THEN Failed(x, "InvocationStateInconsistent")
        ELSE Then(marked, LAMBDA y :
                  IF f[3] # 0 /\ y.d.retained # None THEN Failed(y, "InvocationStateInconsistent")
                  ELSE [y EXCEPT !.d.active = None,
                                 !.d.retained = IF f[3] = 0 THEN @
                                                ELSE [id |-> a.id, side_effect |-> a.side_effect, bytes |-> f[3]]])

(* A frame for the owner.  The limits of the group are read after every       *)
(* frame; a Terminal that exceeds them still reaches its caller.              *)
receive_worker_frame(x, limits) ==
    LET fact == Fact(IF resource_failure_fact(limits) # "None" THEN resource_failure_fact(limits)
                     ELSE "OwnerInvariantViolation")
        read(y, f) == [x |-> IF y.e # "None" \/ limits = "None" THEN y
                             ELSE IF f.body.kind = "Terminal" THEN begin_unexpected_recovery(y, fact)
                             ELSE Failed(y, limits), frame |-> f]
    IN  Bind(transport_receive_worker_frame(x.d.transport, x.p), LAMBDA r :
             read([x EXCEPT !.d.transport = r.t, !.p = r.p, !.e = r.e], r.frame))

-----------------------------------------------------------------------------
(* The loss of the process, and the cleanup after it.                         *)
ownership_invocations(d) ==
    (IF d.active = None THEN {}
     ELSE {ProcessInvocationOwnership(d.active.id, d.active.stage, d.active.side_effect, d.active.credit, d.active.bytes)})
    \cup (IF d.retained = None THEN {}
          ELSE {ProcessInvocationOwnership(d.retained.id, "TerminalDelivered", d.retained.side_effect, FALSE,
                                           d.retained.bytes)})

cleanup_ownership(d) ==
    UNION {ProcessDomainOwnership_try_new(ProcessGenerationIdentity(d.epoch), "Closing", 0, {i}) :
           i \in ProcessInstanceOwnership_try_new("instance", d.epoch, ownership_invocations(d))}

RECURSIVE SettleLoss(_)
SettleLoss(x) ==
    IF x.q.name \notin {"Execute", "AwaitingAction"} THEN Failed(x, "UnexpectedRecoveryDecision")
    ELSE LET kind == Pending(x).action.kind
             fenced == IF kind = "FenceAndStopAdmission" THEN fence_admission(x) ELSE x
             outcome == IF kind \in StopActions THEN "ProcessAlreadyExited" ELSE "Succeeded"
         IN  IF kind = "StartFreshDomain" THEN Failed(x, "UnexpectedRecoveryDecision")
             ELSE Then(Then(fenced, LAMBDA y : complete(y, outcome)), LAMBDA y :
                       IF kind # "CollectCleanup" THEN SettleLoss(y)
                       ELSE IF y.q.name = "WaitUntil" /\ y.d.recovery.phase.name = "AwaitingCleanup" THEN y
                       ELSE Failed(y, "UnexpectedRecoveryDecision"))

record_process_loss(x, observation) ==
    Then(RecordFact(x, [name |-> "ProcessExited", observation |-> observation]), LAMBDA y : SettleLoss(y))

(* The ledger of the transport must agree with the owner's before the loss is *)
(* classified; t is the transport the stop holds.                             *)
observe_process_loss(x, t) ==
    LET held == ownership_invocations(x.d)
        owned == cleanup_ownership(x.d)
    IN  IF x.d.authority # None THEN x
        ELSE IF \/ Cardinality(DOMAIN t.session.active) # (IF x.d.active = None THEN 0 ELSE 1)
                \/ MapThenSumSet(LAMBDA v : v.retained_bytes, held) # transport_retained_bytes(t, x.p)
        THEN Failed(x, "ProcessLossSnapshotMismatch")
        ELSE IF owned = {} THEN Failed(x, "Ownership")
        ELSE IF x.d.fence = None THEN Failed(x, "MissingAdmissionCapability")
        ELSE LET losses == ProcessAdmissionFence_observe_process_loss(
                               x.d.fence, x.d.expected_loss = "Yes", CHOOSE o \in owned : TRUE)
                 loss == CHOOSE l \in losses : TRUE
             IN  IF losses = {} THEN Failed([x EXCEPT !.d.fence = None], "Ownership")
                 ELSE record_process_loss([x EXCEPT !.d.fence = None, !.d.authority = loss.authority], loss.observation)

RECURSIVE SettleIncomplete(_)
SettleIncomplete(x) ==
    LET phase == x.d.recovery.phase.name IN
    CASE x.q.name = "WaitUntil" /\ phase = "AwaitingCleanup" -> x
      [] x.q.name = "NoAction" /\ phase = "Quarantined" ->
            Then(Reduce(x, poll(x.d.recovery, 0)), LAMBDA y : SettleIncomplete(y))
      [] x.q.name \in {"Execute", "AwaitingAction"} ->
            LET kind == Pending(x).action.kind IN
            IF kind \notin {"EnterQuarantine", "CollectCleanup"} THEN Failed(x, "UnexpectedRecoveryDecision")
            ELSE Then(complete(x, "Succeeded"), LAMBDA y :
                      IF kind = "CollectCleanup" /\ y.d.recovery.phase.name = "AwaitingCleanup" THEN y
                      ELSE SettleIncomplete(y))
      [] OTHER -> Failed(x, "UnexpectedRecoveryDecision")

record_cleanup_incomplete(x) == Then(RecordFact(x, Fact("CleanupIncomplete")), LAMBDA y : SettleIncomplete(y))

(* Incomplete cleanup leaves the domain quarantined, with the caller's error. *)
Incomplete(x, e) == Then(record_cleanup_incomplete(x), LAMBDA y : Failed(MarkQuarantined(y), e))

record_cleanup_completed(x, proof) ==
    Then(RecordFact(x, [name |-> "CleanupCompleted", proof |-> proof]), LAMBDA y :
         LET phase == y.d.recovery.phase.name IN
         CASE y.q.name = "NoAction" /\ phase = "Stopped" -> [y EXCEPT !.d.phase = "Stopped"]
           [] y.q.name = "NoAction" /\ phase = "Quarantined" -> MarkQuarantined(y)
           [] y.q.name = "Execute" /\ Pending(y).action.kind = "EnterQuarantine" ->
                 Then(complete(y, "Succeeded"), LAMBDA z :
                      IF z.d.recovery.phase.name = "Quarantined" THEN MarkQuarantined(z)
                      ELSE Failed(z, "UnexpectedRecoveryDecision"))
           [] y.q.name = "WaitUntil" /\ phase = "Backoff" -> [y EXCEPT !.d.phase = "Recovering"]
           [] OTHER -> Failed(y, "UnexpectedRecoveryDecision"))

fail_restart_action(x) ==
    Then(complete(x, "Failed"), LAMBDA y :
         IF y.q.name # "Execute" THEN Failed(y, "UnexpectedRecoveryDecision")
         ELSE IF Pending(y).action.kind # "EnterQuarantine" THEN Failed(y, "UnexpectedRecoveryDecision")
         ELSE Then(complete(y, "Succeeded"), LAMBDA z : MarkQuarantined(z)))
================================================================================
