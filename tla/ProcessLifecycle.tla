--------------------------- MODULE ProcessLifecycle ---------------------------
(* A process domain at work: the calls on it from one await to the next, the  *)
(* worker on the other end of the pipes, the kernel that delivers signals,    *)
(* the consumer of a delivered payload and the clock.  A call may be dropped  *)
(* at any of its awaits, and so may the domain.                               *)
EXTENDS ProcessDomain

CONSTANTS Launches,         \* [lang, fault, delay, effect, payloads, faults]: what may be started,
                            \* with the request sizes and a bound on what else goes wrong
          Large,            \* the request no pipe takes at once
          MaxInvocations, MaxHeartbeats, MaxFacts,   \* bounds of one generation
          MaxEpoch          \* and on the generations

VARIABLES launch,   \* the program and the declared effect of its invocations
          d,        \* the owner, None before it started and after it was dropped
          p,        \* the world
          c,        \* the call in progress: [op, pc, at, next, t]
          h         \* what happened: [faults, raced, abandoned, owed, refused, internal]
vars == <<launch, d, p, c, h>>

Python == INSTANCE PythonWorker

NoCall == [op |-> "idle", pc |-> "", at |-> 0, next |-> None, t |-> None]
Call(op, pc, at) == [NoCall EXCEPT !.op = op, !.pc = pc, !.at = at]

X == [d |-> d, p |-> p, e |-> "None", q |-> Decision("NoAction")]

(* Where a method is left: at an await, or at its end.                        *)
Await(x, call) == [x |-> x, c |-> IF x.e = "None" THEN call ELSE NoCall]
Return(x) == [x |-> x, c |-> NoCall]
Continue(x, F(_)) == CHOOSE z \in {IF y.e # "None" THEN Return(y) ELSE F(y) : y \in {x}} : TRUE

(* Errors that say the owner lost track of itself.                            *)
InternalErrors == {"InvocationStateInconsistent", "MissingAdmissionCapability", "ProcessLossSnapshotMismatch",
                   "CleanupNotExactZero", "Ownership", "UnexpectedRecoveryDecision", "MissingTransport",
                   "InvalidFact", "GenerationMismatch", "ClockRegressed", "StaleFact", "ConflictingFact",
                   "ActionAlreadyPending", "NoActionPending", "ActionMismatch", "InvalidActionOutcome",
                   "ConflictingActionCompletion", "ProcessLossNotObserved", "UnsettledProcessHandoffs",
                   "ProcessLossAlreadyObserved", "CleanupLineageMismatch", "UnexpectedCleanupFact",
                   "CleanupNotProven", "StateInconsistent", "GenerationRollNotReady",
                   "GenerationContinuityMismatch"}

Do(z, history) ==
    /\ \E v \in {z} :
          /\ d' = v.x.d /\ p' = v.x.p /\ c' = v.c
          /\ h' = IF v.x.e \in InternalErrors THEN [history EXCEPT !.internal = @ \cup {v.x.e}] ELSE history
    /\ UNCHANGED launch

MayFail == h.faults < launch.faults
Faulty(history) == [history EXCEPT !.faults = @ + 1]

Elapsed == c.at <= 0
At(op, pc) == c.op = op /\ c.pc = pc

(* What reading the limits of the group finds.                                *)
Limits == IF launch.fault = "memory-pressure" THEN {"None", "ResourceLimit", "Platform"} ELSE {"None"}

-----------------------------------------------------------------------------
(* start: one deadline over the whole handshake.                              *)
NewWorker ==
    IF launch.lang = "python" THEN [lang |-> "python", w |-> Python!ReferenceWorker(launch.fault, launch.delay)]
    ELSE [lang |-> "rust", w |-> WorkerSession(launch.fault)]

RuntimeDigest == IF launch.lang = "python" THEN Python!WORKER_RUNTIME_DIGEST ELSE RUST_RUNTIME_DIGEST

Spawned(epoch) ==
    [NoProcess EXCEPT !.epoch = epoch, !.worker = NewWorker, !.stdin = TRUE, !.stdout = TRUE, !.leader = "Alive",
                      !.helper = launch.fault = "spawn-grandchild", !.workspace = "Present"]

(* The transport and the directory of a failed start are dropped: the group   *)
(* is killed and waited for, then the directory is removed.                   *)
StartFails(x, call) == [x |-> [x EXCEPT !.p = kill_group(@), !.e = "None"], c |-> [call EXCEPT !.pc = "Reap"]]

StartFrame(epoch) == Body("Start", <<1, Capacity.max_retained_bytes, Capacity.ipc_credit_bytes,
                                     HeartbeatInterval, LivenessBudgets.heartbeat_timeout>>)

Launch(x, op, epoch) ==
    LET r == WriteNow(send_host_frame(ProcessTransport(epoch), Spawned(epoch), "Starting", 0, StartFrame(epoch)))
        next == [epoch |-> epoch, t |-> r.t,
                 liveness |-> ProcessLivenessState_try_new(ProcessGenerationIdentity(epoch), 0)]
    IN  [x |-> [x EXCEPT !.p = r.p], c |-> [Call(op, "Ready", Budgets.start) EXCEPT !.next = next]]

RestartFails(x) == Then(fail_restart_action(x), LAMBDA y : Failed(y, "RestartFailed"))

BeginStart ==
    /\ c = NoCall /\ d = None /\ p.epoch = 0
    /\ Do(Launch(X, "start", 1), h)

HandshakeReads ==
    /\ c.op \in {"start", "restart"} /\ c.pc \in {"Ready", "Constructed"}
    /\ Readable(c.next.t, p)

ReceiveReady ==
    /\ HandshakeReads /\ c.pc = "Ready"
    /\ \E r \in {transport_receive_worker_frame(c.next.t, p)}, limits \in Limits :
       LET x == [X EXCEPT !.p = r.p]
           accepted == r.e = "None" /\ limits = "None" /\ (r.e = "None" => r.frame.body = Body("Ready", <<RuntimeDigest>>))
           s == WriteNow(send_host_frame(r.t, r.p, "Constructing", 0,
                                         Body("Construct", <<"artifact", "config", "entrypoint">>)))
       IN  Do(IF accepted /\ s.e = "None"
              THEN [x |-> [x EXCEPT !.p = s.p], c |-> [c EXCEPT !.pc = "Constructed", !.next.t = s.t]]
              ELSE StartFails(x, c),
              IF r.e = "Protocol" THEN [h EXCEPT !.refused = @ \cup {"Ready"}] ELSE h)

(* The owner the handshake made; a restart first settles its own reducer and  *)
(* gives the new owner the ledger of attempts.                                *)
StartedDomain(next, liveness, recovery) == NewDomain(next.epoch, next.t, liveness, recovery)

FinishStart(x, next, liveness) ==
    IF c.op = "start"
    THEN Return([x EXCEPT !.d = StartedDomain(next, liveness,
                                              RecoveryState_try_new(ProcessGenerationIdentity(next.epoch), 0))])
    ELSE LET done == complete(x, "Succeeded")
             rolled == Then(done, LAMBDA y :
                            Reduce(y, roll_generation(y.d.recovery, ProcessGenerationIdentity(next.epoch), 0)))
         IN  IF rolled.e # "None" THEN StartFails(rolled, [c EXCEPT !.op = "dropped"])
             ELSE Return([rolled EXCEPT !.d = StartedDomain(next, liveness, rolled.d.recovery)])

ReceiveConstructed ==
    /\ HandshakeReads /\ c.pc = "Constructed"
    /\ \E r \in {transport_receive_worker_frame(c.next.t, p)}, limits \in Limits :
       LET x == [X EXCEPT !.p = r.p]
           accepted == /\ r.e = "None" /\ limits = "None"
                       /\ (r.e = "None" => r.frame.body = Body("Constructed", <<"Constructed">>))
           ack == observe_startup_ack(c.next.liveness, ProcessGenerationIdentity(c.next.epoch), r.frame.sequence, 0)
       IN  Do(IF accepted /\ (accepted => ack.error = "None" /\ r.t.session.phase = "Running")
              THEN FinishStart(x, [c.next EXCEPT !.t = r.t], ack.state)
              ELSE StartFails(x, c),
              IF r.e = "Protocol" THEN [h EXCEPT !.refused = @ \cup {"Constructed"}] ELSE h)

StartTimesOut ==
    /\ c.op \in {"start", "restart"} /\ c.pc \in {"Ready", "Constructed"}
    /\ Elapsed /\ ~Readable(c.next.t, p)
    /\ Do(StartFails(X, c), h)

(* The end of a dropped transport.  The directory is removed with a failed    *)
(* start and with a dropped domain, not with the transport of a dropped stop. *)
RemovesWorkspace == c.op \in {"start", "restart", "drop"} \/ (c.op = "dropped" /\ c.next # None)

Cleanups == {w \in workspace_cleanup(p) : w.ok \/ MayFail \/ p.workspace # "Present"}

Reaped ==
    /\ c.pc = "Reap" /\ process_is_gone(p)
    /\ \E w \in IF RemovesWorkspace THEN Cleanups ELSE {[w |-> p.workspace, ok |-> TRUE]} :
       LET x == [X EXCEPT !.p = [close_pipes(try_wait(p)) EXCEPT !.workspace = w.w]]
       IN  Do(Return(IF c.op = "restart" THEN RestartFails(x) ELSE x), IF w.ok \/ p.workspace # "Present" THEN h ELSE Faulty(h))

-----------------------------------------------------------------------------
(* invoke.  An error that changes nothing is not a step.                      *)
Admits ==
    /\ d.phase = "Running" /\ d.gate # None
    /\ refresh_retained_terminal(X).e = "None"
    /\ d.active = None /\ refresh_retained_terminal(X).d.retained = None

InvokeBody(id, payload) == Body("Invoke", <<id, Reservation, Budgets.run, payload>>)

(* The loop of await_terminal begins with the heartbeat deadline.             *)
AwaitTerminal(x, pc, at) ==
    Continue(x, LAMBDA y :
        IF heartbeat_deadline(y.d.liveness, ProcessGenerationIdentity(y.d.epoch), 0).error # "None"
        THEN Return(LoseInvocation(y, "TerminalState"))
        ELSE Await(y, Call("invoke", pc, at)))

Lost(x) == [Return(LoseInvocation([x EXCEPT !.e = "None"], x.e)) EXCEPT !.c = NoCall]

BeginInvoke(payload) ==
    /\ c = NoCall /\ d # None /\ (d # None => Admits /\ d.next_id < MaxInvocations)
    /\ payload + Reservation <= Capacity.ipc_credit_bytes
    /\ \E x \in {DomainSend(
                     set_active_stage([X EXCEPT !.d.next_id = @ + 1, !.d.retained = None,
                         !.d.active = [id |-> d.next_id + 1, stage |-> "Admitted", side_effect |-> launch.effect,
                                       credit |-> TRUE, bytes |-> payload + Reservation]], "HandoffStarted"),
                     "Running", d.next_id + 1, InvokeBody(d.next_id + 1, payload))} :
       Do(IF x.e # "None" THEN Lost(x)
          ELSE IF payload = Large THEN Await(x, Call("invoke", "Write", 0))
          ELSE Await(WriteRest(x), Call("invoke", "Invoked", Budgets.ack)),
          IF launch.effect = "EffectFree" THEN h ELSE [h EXCEPT !.owed = d.epoch])

(* A large request is written while the worker reads it, without a deadline.  *)
LastWhole == p.to_worker[Len(p.to_worker)].whole

InvokeWritten ==
    /\ At("invoke", "Write") /\ p.leader = "Alive" /\ LastWhole = "reading"
    /\ Do(Await(WriteRest(X), Call("invoke", "Invoked", Budgets.ack)), h)

InvokeWriteFails ==
    /\ At("invoke", "Write") /\ p.leader # "Alive"
    /\ Do(Lost(Failed(X, "Io")), h)

Settled(frame) == IF frame.body.kind = "Terminal" /\ (frame.body.kind = "Terminal" => frame.body.f[2] # "Uncertain")
                  THEN [h EXCEPT !.owed = 0] ELSE h
Refused(r) == IF r.x.e = "Protocol" THEN [h EXCEPT !.refused = @ \cup {"host"}]
              ELSE IF r.x.e = "None" THEN Settled(r.frame) ELSE h

Reads == d # None /\ (d # None => d.transport # None /\ (d.transport # None => Readable(d.transport, p)))

Unexpected(x, frame) == Failed(Dropped(x, frame), "UnexpectedWorkerFrame")

InvokedFrame ==
    /\ At("invoke", "Invoked") /\ Reads
    /\ \E limits \in Limits : \E r \in {receive_worker_frame(X, limits)} :
       LET f == r.frame
           beat == observe_heartbeat(r.x, f)
       IN  Do(IF r.x.e # "None" THEN Lost(r.x)
              ELSE IF f.body.kind = "Heartbeat" THEN IF beat.e # "None" THEN Lost(beat) ELSE Await(beat, c)
              ELSE IF f.body.kind = "Invoked" /\ f.invocation_id = d.active.id
              THEN AwaitTerminal(set_active_stage(r.x, "Started"), "Terminal", Budgets.run)
              ELSE Lost(Unexpected(r.x, f)), Refused(r))

InvokedTimesOut ==
    /\ At("invoke", "Invoked") /\ Elapsed /\ ~Reads
    /\ Do(Lost(Failed(X, "InvokeAckTimedOut")), h)

AwaitsTerminal == c.op = "invoke" /\ c.pc \in {"Terminal", "Cancelled"}

TerminalFrame ==
    /\ AwaitsTerminal /\ Reads
    /\ \E limits \in Limits : \E r \in {receive_worker_frame(X, limits)} :
       LET f == r.frame
           beat == observe_heartbeat(r.x, f)
       IN  Do(IF r.x.e # "None" THEN Lost(r.x)
              ELSE IF f.body.kind = "Heartbeat"
              THEN IF beat.e # "None" THEN Lost(beat) ELSE AwaitTerminal(beat, c.pc, c.at)
              ELSE IF f.body.kind = "Terminal" /\ f.invocation_id = d.active.id THEN Return(finish_terminal(r.x, f))
              ELSE Lost(Unexpected(r.x, f)), Refused(r))

HeartbeatElapsed == HeartbeatDue(d.liveness) <= 0

(* The heartbeat's deadline is looked at before the call's own.               *)
TerminalHeartbeatMissed ==
    /\ AwaitsTerminal /\ ~Reads /\ HeartbeatElapsed
    /\ Do(Lost(Failed([X EXCEPT !.d.liveness = evaluate(@, 0).state], "HeartbeatTimedOut")), h)

RunTimesOut ==
    /\ At("invoke", "Terminal") /\ Elapsed /\ ~Reads /\ ~HeartbeatElapsed
    /\ \E x \in {SendNow(set_active_stage(X, "CancellationRequested"), "Running", d.active.id,
                         Body("Cancel", <<d.active.id, Budgets.grace>>))} :
       Do(IF x.e # "None" THEN Lost(x) ELSE AwaitTerminal(x, "Cancelled", Budgets.grace), h)

CancellationTimesOut ==
    /\ At("invoke", "Cancelled") /\ Elapsed /\ ~Reads /\ ~HeartbeatElapsed
    /\ Do(Lost(Failed(X, "CancellationTimedOut")), h)

-----------------------------------------------------------------------------
(* monitor_once.                                                              *)
fail_liveness_invariant(x, e) == Return(FailOwner(x, e))

Monitoring(x) ==
    IF heartbeat_deadline(x.d.liveness, ProcessGenerationIdentity(x.d.epoch), 0).error # "None"
    THEN fail_liveness_invariant(x, "TerminalState")
    ELSE Await(x, Call("monitor", "Monitor", 0))

BeginMonitor ==
    /\ c = NoCall /\ d # None /\ (d # None => d.phase = "Running" /\ d.active = None)
    /\ Do(Monitoring(X), h)

MissedBeat(x) ==
    CHOOSE z \in {IF r.failed THEN Return(r.x) ELSE Monitoring(r.x) : r \in {record_liveness_failure(x)}} : TRUE

MonitorBeat(x, beat) ==
    CASE beat.e = "None" -> Return(beat)
      [] beat.e = "DeadlineElapsed" -> MissedBeat(x)
      [] beat.e \in {"StaleWorkerSequence", "StaleHeartbeatSequence"} ->
            Return(begin_unexpected_recovery(x, Fact("ProtocolViolation")))
      [] OTHER -> fail_liveness_invariant(x, beat.e)

MonitorFrame ==
    /\ At("monitor", "Monitor") /\ Reads
    /\ \E limits \in Limits : \E r \in {receive_worker_frame(X, limits)} :
       LET f == r.frame
           kind == Fact(IF resource_failure_fact(r.x.e) # "None" THEN resource_failure_fact(r.x.e)
                        ELSE "ProtocolViolation")
       IN  Do(IF r.x.e # "None" THEN Return(begin_unexpected_recovery([r.x EXCEPT !.e = "None"], kind))
              ELSE IF f.body.kind = "Heartbeat" THEN MonitorBeat(r.x, observe_heartbeat(r.x, f))
              ELSE Return(begin_unexpected_recovery(Dropped(r.x, f), Fact("ProtocolViolation"))), Refused(r))

MonitorTimesOut ==
    /\ At("monitor", "Monitor") /\ ~Reads /\ HeartbeatElapsed
    /\ Do(MissedBeat(X), h)

-----------------------------------------------------------------------------
(* shutdown: a dialogue, then signals, then the proof that nothing is left.   *)
Stop == Body("Stop", <<"Planned">>)

(* The transport leaves the owner while its end is awaited.                   *)
Settle(x) ==
    IF x.d.transport = None THEN Return(Failed(x, "MissingTransport"))
    ELSE [x |-> [x EXCEPT !.d.transport = None, !.p = close_pipes(@)],
          c |-> [Call("shutdown", "Settle", Lifecycle.cleanup) EXCEPT !.t = Ended(x.d.transport)]]

escalate_termination(x) ==
    IF x.d.transport = None THEN Return(Failed(x, "MissingTransport"))
    ELSE Await([x EXCEPT !.p = terminate_group(@)], Call("shutdown", "Terminate", Lifecycle.terminate_grace))

Drive(x) == Await(x, Call("shutdown", "Drive", 0))

(* What a failed dialogue costs: only a worker that said it stopped cleanly   *)
(* and then lingered keeps the stop a planned one.                            *)
StopFails(x, e) ==
    LET y == [x EXCEPT !.d.phase = "Recovering", !.e = "None"]
        failed == begin_unexpected_recovery(y, Fact("ShutdownFailed"))
    IN  IF e = "CleanStopExitTimedOut" THEN escalate_termination(y)
        ELSE IF e = "WorkerStopFailed" THEN Continue(failed, Drive)
        ELSE Continue(failed, escalate_termination)

BeginShutdown ==
    /\ c = NoCall /\ d # None
    /\ (d # None => d.phase # "Stopped" /\ d.next_fact < MaxFacts /\ d.transport # None)
    /\ \E x \in {Then(refresh_retained_terminal(X), LAMBDA y :
                      fence_admission([y EXCEPT !.d.expected_loss =
                          IF @ # "None" THEN @ ELSE IF d.phase = "Running" /\ d.active = None THEN "Yes" ELSE "No"]))} :
       Do(Continue(x, LAMBDA y :
              IF d.authority # None THEN Settle(y)
              ELSE IF d.recovery.phase.name # "Healthy" THEN Drive([y EXCEPT !.d.phase = "Recovering"])
              ELSE LET s == SendNow([y EXCEPT !.d.phase = "Draining"], "Draining", 0, Body("StopAccepting", <<>>))
                   IN  IF s.e # "None" THEN StopFails(s, s.e)
                       ELSE Await(s, Call("shutdown", "Drained", Budgets.drain))), h)

(* One frame of receive_until: a heartbeat and a late terminal are taken and  *)
(* dropped.  The result is the error, and whether the frame was awaited.      *)
receive_until(r, expected) ==
    LET f == r.frame
        ended == Then(finish_terminal(r.x, f), LAMBDA y : refresh_retained_terminal(Dropped(y, f)))
    IN  IF r.x.e # "None" THEN [x |-> r.x, got |-> FALSE]
        ELSE IF f.body.kind = "Heartbeat" THEN [x |-> observe_heartbeat(r.x, f), got |-> FALSE]
        ELSE IF f.body.kind = "Terminal" THEN [x |-> ended, got |-> FALSE]
        ELSE IF f.body.kind = expected THEN [x |-> r.x, got |-> TRUE]
        ELSE [x |-> Failed(r.x, "UnexpectedWorkerFrame"), got |-> FALSE]

RequestStop(x) ==
    LET s == SendNow(x, "Stopping", 0, Stop) IN
    IF s.e # "None" THEN StopFails(s, s.e)
    ELSE Await([s EXCEPT !.p.stdin = FALSE], Call("shutdown", "Stopped", Lifecycle.cooperative_stop))

DrainFrame ==
    /\ At("shutdown", "Drained") /\ Reads
    /\ \E limits \in Limits : \E r \in {receive_worker_frame(X, limits)} : \E u \in {receive_until(r, "Drained")} :
       Do(IF u.x.e # "None" THEN StopFails(u.x, u.x.e)
          ELSE IF u.got THEN RequestStop(u.x) ELSE Await(u.x, c), Refused(r))

StoppedFrame ==
    /\ At("shutdown", "Stopped") /\ Reads
    /\ \E limits \in Limits : \E r \in {receive_worker_frame(X, limits)} : \E u \in {receive_until(r, "Stopped")} :
       Do(IF u.x.e # "None" THEN StopFails(u.x, u.x.e)
          ELSE IF ~u.got THEN Await(u.x, c)
          ELSE IF r.frame.body.f[1] # "Clean" THEN StopFails(u.x, "WorkerStopFailed")
          ELSE Await(u.x, [c EXCEPT !.pc = "Exit"]), Refused(r))

StopTimesOut ==
    /\ c.op = "shutdown" /\ c.pc \in {"Drained", "Stopped"} /\ Elapsed /\ ~Reads
    /\ Do(StopFails(X, IF c.pc = "Drained" THEN "DrainTimedOut" ELSE "CooperativeStopTimedOut"), h)

(* The awaits that end when the group is gone.                                *)
GoneAwaits == {"Exit", "Terminate", "Kill", "DriveWait"}

GroupGone ==
    /\ c.op = "shutdown" /\ c.pc \in GoneAwaits /\ process_is_gone(p)
    /\ Do(Settle([X EXCEPT !.p = try_wait(@)]), h)

GoneTimesOut ==
    /\ c.op = "shutdown" /\ c.pc \in GoneAwaits /\ Elapsed /\ ~process_is_gone(p)
    /\ LET x == [X EXCEPT !.p = try_wait(@)] IN
       Do(CASE c.pc = "Exit" -> StopFails(x, "CleanStopExitTimedOut")
            [] c.pc = "Terminate" ->
                  Await([x EXCEPT !.p = kill_group(@)], Call("shutdown", "Kill", Lifecycle.kill_grace))
            [] c.pc = "Kill" -> Return(FailOwner(x, "KillTimedOut"))
            [] c.pc = "DriveWait" -> Drive(x), h)

(* drive_recovery_stop: one turn of its loop.                                 *)
Completed(x, outcome) == Continue(complete(x, outcome), Drive)

Signalled(x, F(_)) == IF group_exists(x.p) THEN Completed([x EXCEPT !.p = F(@)], "Succeeded")
                      ELSE Completed(x, "ProcessAlreadyExited")

SettleFailedStop(x) == Await([x EXCEPT !.e = "None"], Call("shutdown", "CoopFail", Lifecycle.cooperative_stop))

request_cooperative_stop(x) ==
    LET s == SendNow(x, "Draining", 0, Body("StopAccepting", <<>>)) IN
    IF s.e # "None" THEN SettleFailedStop(s) ELSE Await(s, Call("shutdown", "CoopDrained", Budgets.drain))

DriveAction(x) ==
    LET kind == Pending(x).action.kind IN
    CASE kind = "FenceAndStopAdmission" -> Continue(fence_admission(x), LAMBDA y : Completed(y, "Succeeded"))
      [] kind = "RequestCooperativeStop" -> request_cooperative_stop(x)
      [] kind = "SendTerminate" -> Signalled(x, terminate_group)
      [] kind = "SendKill" -> Signalled(x, kill_group)
      [] kind = "EnterQuarantine" -> Completed(x, "Succeeded")
      [] kind = "CollectCleanup" -> Settle(x)
      [] OTHER -> Return(Failed(x, "UnexpectedRecoveryDecision"))

DrivePoll(x) ==
    Continue(Reduce(x, poll(x.d.recovery, 0)), LAMBDA y :
        CASE y.q.name \in {"Execute", "AwaitingAction"} -> Drive(y)
          [] y.q.name = "WaitUntil" -> Await(y, Call("shutdown", "DriveWait", y.q.until))
          [] y.q.name = "NoAction" /\ y.d.recovery.phase.name = "Quarantined" ->
                Return(Failed(MarkQuarantined(y), "KillTimedOut"))
          [] OTHER -> Return(Failed(y, "UnexpectedRecoveryDecision")))

DriveTurn ==
    /\ At("shutdown", "Drive")
    /\ \E x \in {[X EXCEPT !.p = try_wait(@)]} :
       Do(IF process_is_gone(p) THEN Settle(x)
          ELSE IF Pending(x) # None THEN DriveAction(x) ELSE DrivePoll(x), h)

CoopStop(x) ==
    LET s == SendNow(x, "Stopping", 0, Stop) IN
    IF s.e # "None" THEN SettleFailedStop(s) ELSE Completed([s EXCEPT !.p.stdin = FALSE], "Succeeded")

(* A missing or invalid answer is left to the reducer's deadlines.            *)
CoopDrainFrame ==
    /\ At("shutdown", "CoopDrained") /\ Reads
    /\ \E limits \in Limits : \E r \in {receive_worker_frame(X, limits)} : \E u \in {receive_until(r, "Drained")} :
       Do(IF u.x.e # "None" THEN Completed([u.x EXCEPT !.e = "None"], "Succeeded")
          ELSE IF u.got THEN CoopStop(u.x) ELSE Await(u.x, c), Refused(r))

CoopTimesOut ==
    /\ At("shutdown", "CoopDrained") /\ Elapsed /\ ~Reads
    /\ Do(Completed(X, "Succeeded"), h)

failed_stop_action_outcome ==
    /\ At("shutdown", "CoopFail") /\ (process_is_gone(p) \/ Elapsed)
    /\ Do(Completed([X EXCEPT !.p = try_wait(@)],
                    IF process_is_gone(p) THEN "ProcessAlreadyExited" ELSE "Failed"), h)

-----------------------------------------------------------------------------
(* The end of shutdown.  On an error the owner gets its transport back.       *)
GivenBack(x) == [x EXCEPT !.d.transport = c.t, !.e = "None"]

ProcessLost ==
    /\ At("shutdown", "Settle") /\ (Elapsed \/ process_is_gone(p))
    /\ \E y \in {[X EXCEPT !.p = try_wait(@)]} : \E x \in {observe_process_loss(y, c.t)} :
       Do(IF ~process_is_gone(p) THEN Return(FailOwner(GivenBack(y), "CleanupTimedOut"))
          ELSE IF x.e # "None" THEN Return(FailOwner(GivenBack(x), x.e))
          ELSE Await(x, [c EXCEPT !.pc = "Clean"]),
          IF x.e \in InternalErrors THEN [h EXCEPT !.internal = @ \cup {x.e}] ELSE h)

(* Exact zero: the loss is reconciled with what the owner still charges.      *)
FinishShutdown(x) ==
    LET owned == cleanup_ownership(x.d)
        o == CHOOSE v \in owned : TRUE
        ready == reconcile(x.d.authority, o)
        census == ProcessCleanupCensus(TRUE, 0, 0, 0, 0, 0, 0)
        proof == CHOOSE v \in try_prove(CHOOSE r \in ready : TRUE, census) : TRUE
    IN  IF owned = {} THEN Return(Failed(x, "Ownership"))
        ELSE IF ~validate_reconcile(x.d.authority, o) THEN Return(FailOwner(GivenBack(x), "CleanupNotExactZero"))
        ELSE Return(Then(record_cleanup_completed([x EXCEPT !.d.authority = None, !.d.active = None,
                                                            !.d.retained = None], proof),
                         LAMBDA y : [y EXCEPT !.d.expected_loss = "None"]))

(* An invocation that was handed over is uncertain now, and charges nothing.  *)
Reclassified(x) ==
    [x EXCEPT !.d.active = IF @ = None THEN None
                           ELSE IF crossed_handoff(@.stage)
                           THEN [@ EXCEPT !.stage = "Uncertain", !.credit = FALSE, !.bytes = 0] ELSE None,
              !.d.liveness = Silent(mark_exited(@, 0))]

CleanWorkspace ==
    /\ At("shutdown", "Clean")
    /\ \E w \in Cleanups :
       LET x == [X EXCEPT !.p.workspace = w.w]
           y == Reclassified(x)
       IN  Do(IF ~w.ok THEN Return(Incomplete(GivenBack(x), "Workspace"))
              ELSE IF p.delivered = 0 THEN FinishShutdown(y)
              ELSE IF d.recovery.phase.name # "AwaitingCleanup"
              THEN Return(FailOwner(GivenBack(y), "UnexpectedRecoveryDecision"))
              ELSE Await(y, [c EXCEPT !.pc = "Payload", !.at = d.recovery.phase.at]),
              IF w.ok \/ p.workspace # "Present" THEN h ELSE Faulty(h))

PayloadReleased ==
    /\ At("shutdown", "Payload") /\ p.delivered = 0
    /\ Do(FinishShutdown([X EXCEPT !.d.retained = None]), h)

PayloadTimesOut ==
    /\ At("shutdown", "Payload") /\ p.delivered # 0 /\ Elapsed
    /\ Do(Return(Incomplete(GivenBack(X), "CleanupTimedOut")), h)

-----------------------------------------------------------------------------
(* restart_after_backoff.                                                     *)
PollRestart(x) ==
    CHOOSE zs \in {IF y.e # "None" THEN {Return(y)}
                   ELSE IF y.q.name = "WaitUntil" THEN {Await(y, Call("restart", "Backoff", y.q.until))}
                   ELSE IF y.q.name = "Execute" /\ (y.q.name = "Execute" => y.q.action.action.kind = "StartFreshDomain")
                   THEN {Launch(y, "restart", y.q.action.action.epoch)}
                        \cup IF MayFail THEN {Return(RestartFails(y))} ELSE {}
                   ELSE {Return(Failed(y, "UnexpectedRecoveryDecision"))} :
                   y \in {Reduce(x, poll(x.d.recovery, 0))}} : TRUE

(* Before the cleanup the reducer still waits for a stop: the call is refused *)
(* and changes nothing.                                                       *)
BeginRestart ==
    /\ c = NoCall /\ d # None /\ (d # None => d.phase = "Recovering" /\ d.recovery.phase.name = "Backoff" /\ d.epoch < MaxEpoch)
    /\ \E z \in PollRestart(X) : Do(z, IF z.x.e = "RestartFailed" THEN Faulty(h) ELSE h)

BackoffEnds ==
    /\ At("restart", "Backoff") /\ Elapsed
    /\ \E z \in PollRestart(X) : Do(z, IF z.x.e = "RestartFailed" THEN Faulty(h) ELSE h)

-----------------------------------------------------------------------------
(* The caller drops a call, or the domain.                                    *)
Synchronous == {"Reap", "Drive", "Clean"}

DropCall ==
    /\ c # NoCall /\ MayFail /\ c.pc \notin Synchronous
    /\ Do(IF c.next # None THEN StartFails(X, [c EXCEPT !.op = "dropped"])
          ELSE IF c.t # None THEN [x |-> [X EXCEPT !.p = kill_group(@)], c |-> [c EXCEPT !.op = "dropped", !.pc = "Reap"]]
          ELSE Return(X),
          [Faulty(h) EXCEPT !.abandoned = TRUE])

DropDomain ==
    /\ c = NoCall /\ d # None
    /\ Do([x |-> [X EXCEPT !.d = None, !.p = IF d.transport = None THEN @ ELSE kill_group(@)],
           c |-> [NoCall EXCEPT !.op = "drop", !.pc = "Reap"]], h)

-----------------------------------------------------------------------------
(* The worker.  A packet is read as it is written; the worker blocks in the   *)
(* middle of one.                                                             *)
Kernel(q) == p' = q /\ UNCHANGED <<launch, d, c>>

Emitted(r, rest) ==
    LET epipe == r.out # <<>> /\ ~p.stdout
        q == [p EXCEPT !.worker.w = r.w, !.to_worker = rest,
                       !.to_host = IF p.stdout THEN @ \o r.out ELSE @]
    IN  IF epipe \/ r.w.exit # "None" THEN Died(q) ELSE q

Runs == p.leader = "Alive" /\ (p.leader = "Alive" => (p.worker.lang = "python" => p.worker.w.phase # "BLOCKED"))
HeadIs(whole) == p.to_worker # <<>> /\ (p.to_worker # <<>> => Head(p.to_worker).whole = whole)

(* The bound on heartbeats only makes a worker late.                          *)
WorkerTurns ==
    /\ Runs /\ p.worker.lang = "python" /\ ~HeadIs("reading")
    /\ \E r \in {Python!LoopHead(p.worker.w, 0)} :
          /\ r.w # p.worker.w /\ r.w.heartbeat_sequence <= MaxHeartbeats
          /\ Kernel(Emitted(r, p.to_worker))
    /\ UNCHANGED h

WorkerStartsReading ==
    /\ Runs /\ HeadIs("no")
    /\ Kernel([p EXCEPT !.to_worker[1].whole = "reading"])
    /\ UNCHANGED h

KindOf(wire) == CHOOSE k \in {f.body.kind : f \in decode_frame(wire)} : TRUE

WorkerReads ==
    /\ Runs /\ HeadIs("yes")
    /\ \E r \in {IF p.worker.lang = "python" THEN Python!LoopRead(p.worker.w, Head(p.to_worker).wire, 0)
                  ELSE RustRead(p.worker.w, Head(p.to_worker).wire)} :
          /\ Kernel(Emitted(r, Tail(p.to_worker)))
          /\ h' = IF r.w.exit = "Error" THEN [h EXCEPT !.refused = @ \cup {KindOf(Head(p.to_worker).wire)}] ELSE h

WorkerMeetsEnd ==
    /\ Runs /\ ~p.stdin /\ ~HeadIs("yes")
    /\ Kernel(Died(p))
    /\ UNCHANGED h

WorkerCrashes == p.leader = "Alive" /\ MayFail /\ Kernel(Died(p)) /\ h' = Faulty(h)

LeaderDies ==
    /\ p.leader = "Alive" /\ "leader" \in p.dying
    /\ Kernel(Died(p)) /\ UNCHANGED h

HelperDies ==
    /\ p.helper /\ "helper" \in p.dying
    /\ Kernel([p EXCEPT !.helper = FALSE]) /\ UNCHANGED h

(* The consumer lets go of a payload.                                         *)
Release ==
    /\ p.delivered # 0 /\ ~AwaitsTerminal
    /\ Kernel([p EXCEPT !.delivered = 0])
    /\ h' = [h EXCEPT !.raced = @ \/ (c.op = "shutdown" /\ c.pc # "Payload")]

-----------------------------------------------------------------------------
(* The clock.                                                                 *)
Back(t, floor) == IF t > floor THEN t - 1 ELSE floor
BackOr(t, floor) == IF t = None THEN None ELSE Back(t, floor)

LivenessBack(l) ==
    IF l.phase \notin {"Bootstrapping", "Live"} THEN l
    ELSE [l EXCEPT !.started_at = Back(@, -LivenessBudgets.start),
                   !.last_heartbeat_at = BackOr(@, -LivenessBudgets.heartbeat_timeout)]

RecoveryBack(r) ==
    [r EXCEPT !.phase.at = IF r.phase.name \in TimedPhases THEN Back(@, 0) ELSE @,
              !.attempts = SubSeq([i \in DOMAIN @ |-> Back(@[i], -Restart.window)], 1, Len(@))]

WorkerBack(w) ==
    [w EXCEPT !.next_heartbeat = BackOr(@, 0),
              !.active = [i \in DOMAIN @ |-> [@[i] EXCEPT !.due_at = BackOr(@, 0)]]]

Tick ==
    /\ d' = IF d = None THEN None ELSE [d EXCEPT !.liveness = LivenessBack(@), !.recovery = RecoveryBack(@)]
    /\ p' = IF p.leader = "Alive" /\ (p.leader = "Alive" => p.worker.lang = "python")
            THEN [p EXCEPT !.worker.w = WorkerBack(@)] ELSE p
    /\ c' = [c EXCEPT !.at = Back(@, 0),
                      !.next = IF @ = None THEN None ELSE [@ EXCEPT !.liveness = LivenessBack(@)]]
    /\ UNCHANGED <<launch, h>>

-----------------------------------------------------------------------------
Unstarted ==
    /\ d = None /\ p = NoProcess /\ c = NoCall
    /\ h = [faults |-> 0, raced |-> FALSE, abandoned |-> FALSE, owed |-> 0, refused |-> {}, internal |-> {}]

Init == launch \in Launches /\ Unstarted

Start == BeginStart \/ ReceiveReady \/ ReceiveConstructed \/ StartTimesOut \/ Reaped
Invoke == \/ \E n \in launch.payloads : BeginInvoke(n)
          \/ InvokeWritten \/ InvokeWriteFails \/ InvokedFrame \/ InvokedTimesOut
          \/ TerminalFrame \/ TerminalHeartbeatMissed \/ RunTimesOut \/ CancellationTimesOut
Monitor == BeginMonitor \/ MonitorFrame \/ MonitorTimesOut
Shutdown == \/ BeginShutdown \/ DrainFrame \/ StoppedFrame \/ StopTimesOut \/ GroupGone \/ GoneTimesOut
            \/ DriveTurn \/ CoopDrainFrame \/ CoopTimesOut \/ failed_stop_action_outcome
            \/ ProcessLost \/ CleanWorkspace \/ PayloadReleased \/ PayloadTimesOut
RestartAfterBackoff == BeginRestart \/ BackoffEnds
Worker == WorkerTurns \/ WorkerStartsReading \/ WorkerReads \/ WorkerMeetsEnd \/ WorkerCrashes
Signals == LeaderDies \/ HelperDies

Next == \/ Start \/ Invoke \/ Monitor \/ Shutdown \/ RestartAfterBackoff
        \/ DropCall \/ DropDomain \/ Worker \/ Signals \/ Release \/ Tick

-----------------------------------------------------------------------------
(* Properties.                                                                *)

\* Neither end of the protocol refuses a frame the other end wrote, as long as
\* the program has no fault, but for a Cancel: it may cross the Terminal of
\* the invocation it cancels, and the Rust worker knows no Cancel at all.
HonestDialogue ==
    launch.fault \in {"normal", "none"} => h.refused \subseteq {"Cancel"}

\* The owner never loses track of itself: whatever order frames, deadlines,
\* signals and crashes come in, no reducer call is refused, no capability is
\* missing when it is used and the two ledgers of an invocation agree.  Left
\* out are a call that was dropped at an await and a payload released while a
\* shutdown is between its first look at it and its last.
InternalErrorsUnreachable == h.internal = {} \/ h.raced \/ h.abandoned

\* A generation begins only when nothing of the last one is left, in the
\* system or in the hands of a consumer, and never when an invocation with an
\* effect may have run without its outcome being known.
RestartsAreClean ==
    [][p'.epoch # p.epoch => /\ process_is_gone(p) /\ p.delivered = 0
                             /\ p.workspace \in {"None", "Clean"}
                             /\ h.owed = 0]_vars

Spec == Init /\ [][Next]_vars
================================================================================
