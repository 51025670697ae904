------------------------------ MODULE Recovery -------------------------------
(***************************************************************************)
(* What a process domain must be able to say of the generation it owns,    *)
(* and what it does about its loss.                                        *)
(*                                                                         *)
(* First the ownership (runtime_ownership.rs): a snapshot of the           *)
(* invocations it holds, the fence that turns the snapshot into a loss     *)
(* observation, and the authority that turns the loss into a proof that    *)
(* nothing of the generation is left.  Then liveness (liveness.rs): the    *)
(* start deadline, heartbeats and probes.  Last the recovery reducer       *)
(* (recovery.rs): from facts and results to the next action, with the      *)
(* ledger of restarts and their backoff.                                   *)
(*                                                                         *)
(* Constructors return the set of their results, empty when they refuse.   *)
(***************************************************************************)
EXTENDS ProcessProtocol

CONSTANT OwnershipLimits    \* [outstanding, credits, bytes, members], all signed

If(c, v) == IF c THEN {v} ELSE {}

crossed_handoff(stage) == stage \notin {"Admitted", "TerminalDelivered"}

(* One invocation the owner still charges.                                   *)
ProcessInvocationOwnership(id, stage, side_effect, credit, bytes) ==
    [invocation |-> id, stage |-> stage, side_effect |-> side_effect,
     ipc_credit_held |-> credit, retained_bytes |-> bytes]

(* An instance lists an invocation once; the order of the list is sorted     *)
(* away.                                                                     *)
ProcessInstanceOwnership_try_new(instance, generation, invocations) ==
    If(\A a, b \in invocations : a.invocation = b.invocation => a = b,
       [instance |-> instance, generation |-> generation, invocations |-> invocations])

Invocations(instances) == UNION {i.invocations : i \in instances}

held_ipc_credits(instances) == Cardinality({v \in Invocations(instances) : v.ipc_credit_held})
retained_bytes(instances) == MapThenSumSet(LAMBDA v : v.retained_bytes, Invocations(instances))

ProcessDomainOwnership_try_new(identity, lifecycle, members, instances) ==
    If(/\ instances # {}
       /\ members <= OwnershipLimits.members
       /\ \A a, b \in instances : a.instance = b.instance => a = b
       /\ Cardinality(Invocations(instances)) <= OwnershipLimits.outstanding
       /\ held_ipc_credits(instances) <= OwnershipLimits.credits
       /\ retained_bytes(instances) <= OwnershipLimits.bytes,
       [identity |-> identity, lifecycle |-> lifecycle, members |-> members, instances |-> instances])

-----------------------------------------------------------------------------
(* Fencing consumes the gate; observing the loss consumes the fence.         *)
ProcessAdmissionGate(identity) == [gate |-> identity]
fence(gate) == [fence |-> gate.gate]

Fenced(ownership) == ownership.lifecycle \in {"Closing", "Quarantined"}

LossOf(i, v) == [instance |-> i.instance, generation |-> i.generation,
                 invocation |-> v.invocation, side_effect |-> v.side_effect]

uncertain_invocations(ownership) ==
    UNION {{LossOf(i, v) : v \in {w \in i.invocations : crossed_handoff(w.stage)}} : i \in ownership.instances}

ProcessLossLineage(identity, ownership, lost) ==
    [identity |-> identity, members |-> ownership.members,
     outstanding |-> Cardinality(Invocations(ownership.instances)),
     credits |-> held_ipc_credits(ownership.instances), bytes |-> retained_bytes(ownership.instances),
     crossed |-> Cardinality(lost), classified |-> Cardinality(lost),
     external_effect_uncertain |-> \E v \in lost : v.side_effect # "EffectFree"]

unsettled_handoffs(lineage) == IF lineage.crossed > lineage.classified
                               THEN lineage.crossed - lineage.classified ELSE 0

ProcessAdmissionFence_observe_process_loss(f, expected, ownership) ==
    LET lost == uncertain_invocations(ownership)
        lineage == ProcessLossLineage(f.fence, ownership, lost)
    IN  If(ownership.identity = f.fence /\ Fenced(ownership),
           [observation |-> [lineage |-> lineage, expected |-> expected],
            authority |-> [lineage |-> lineage, uncertain |-> lost]])

-----------------------------------------------------------------------------
(* Cleanup: every invocation left is uncertain and holds nothing, and they   *)
(* are the ones the loss classified.                                         *)
validate_reconcile(authority, ownership) ==
    /\ ownership.identity = authority.lineage.identity
    /\ Fenced(ownership) /\ ownership.members = 0
    /\ \A v \in Invocations(ownership.instances) :
          v.stage = "Uncertain" /\ ~v.ipc_credit_held /\ v.retained_bytes = 0
    /\ uncertain_invocations(ownership) = authority.uncertain

reconcile(authority, ownership) ==
    If(validate_reconcile(authority, ownership), [ready |-> authority.lineage])

(* What is counted before a slot may be used again.                          *)
ProcessCleanupCensus(reaped, members, handles, credits, bytes, entries, registered) ==
    [leader_reaped |-> reaped, members |-> members, handles |-> handles, credits |-> credits,
     bytes |-> bytes, workspace_entries |-> entries, registered |-> registered]

is_exact_zero(c) ==
    /\ c.leader_reaped
    /\ c.members = 0 /\ c.handles = 0 /\ c.credits = 0
    /\ c.bytes = 0 /\ c.workspace_entries = 0 /\ c.registered = 0

try_prove(ready, census) == If(is_exact_zero(census), [lineage |-> ready.ready, census |-> census])

-----------------------------------------------------------------------------
(* Whether a worker process still answers, as its owner sees it: the start   *)
(* deadline and the heartbeat deadline that only a newer heartbeat moves.    *)
(* (The control probe of the same state has no caller.)  An operation        *)
(* returns [state, out, error]; an error leaves the state alone.             *)

CONSTANT LivenessBudgets     \* [start, heartbeat_timeout]

ProcessLivenessState_try_new(identity, now) ==
    [identity |-> identity, phase |-> "Bootstrapping", started_at |-> now, last_observed_at |-> now,
     last_worker_sequence |-> 0, last_heartbeat_sequence |-> 0, last_heartbeat_at |-> None]

LivenessOk(l, out) == [state |-> l, out |-> out, error |-> "None"]
LivenessErr(l, error) == [state |-> l, out |-> None, error |-> error]

validate_identity_and_time(l, identity, now) ==
    IF identity # l.identity THEN "GenerationMismatch"
    ELSE IF now < l.last_observed_at THEN "ClockRegressed" ELSE "None"

compare_sequence(incoming, current) ==
    IF incoming = 0 \/ incoming < current THEN "StaleWorkerSequence"
    ELSE IF incoming = current THEN "Duplicate" ELSE "Advanced"

duplicate_or_terminal(l, sequence) ==
    IF sequence = l.last_worker_sequence /\ sequence # 0 THEN LivenessOk(l, "Duplicate")
    ELSE LivenessErr(l, "TerminalState")

HeartbeatDue(l) == l.last_heartbeat_at + LivenessBudgets.heartbeat_timeout
StartDue(l) == l.started_at + LivenessBudgets.start

(* Read only: waiting never moves the deadline.                              *)
heartbeat_deadline(l, identity, now) ==
    IF validate_identity_and_time(l, identity, now) # "None"
    THEN LivenessErr(l, validate_identity_and_time(l, identity, now))
    ELSE IF l.phase # "Live" THEN LivenessErr(l, "TerminalState")
    ELSE LivenessOk(l, HeartbeatDue(l))

observe_startup_ack(l, identity, sequence, now) ==
    LET order == compare_sequence(sequence, l.last_worker_sequence) IN
    IF validate_identity_and_time(l, identity, now) # "None"
    THEN LivenessErr(l, validate_identity_and_time(l, identity, now))
    ELSE IF l.phase # "Bootstrapping" THEN duplicate_or_terminal(l, sequence)
    ELSE IF order = "StaleWorkerSequence" THEN LivenessErr(l, order)
    ELSE IF order = "Duplicate" THEN LivenessOk(l, order)
    ELSE IF now >= StartDue(l) THEN LivenessErr(l, "DeadlineElapsed")
    ELSE LivenessOk([l EXCEPT !.phase = "Live", !.last_worker_sequence = sequence,
                              !.last_heartbeat_at = now, !.last_observed_at = now], order)

(* A heartbeat counts only before the deadline of the one before it, in a    *)
(* newer frame and with a newer number of its own.                           *)
liveness_observe_heartbeat(l, identity, sequence, heartbeat, now) ==
    LET order == compare_sequence(sequence, l.last_worker_sequence) IN
    IF validate_identity_and_time(l, identity, now) # "None"
    THEN LivenessErr(l, validate_identity_and_time(l, identity, now))
    ELSE IF l.phase # "Live" THEN duplicate_or_terminal(l, sequence)
    ELSE IF now >= HeartbeatDue(l) THEN LivenessErr(l, "DeadlineElapsed")
    ELSE IF order = "StaleWorkerSequence" THEN LivenessErr(l, order)
    ELSE IF order = "Duplicate"
    THEN IF heartbeat = l.last_heartbeat_sequence /\ heartbeat # 0 THEN LivenessOk(l, order)
         ELSE LivenessErr(l, "StaleHeartbeatSequence")
    ELSE IF heartbeat = 0 \/ heartbeat <= l.last_heartbeat_sequence THEN LivenessErr(l, "StaleHeartbeatSequence")
    ELSE LivenessOk([l EXCEPT !.last_worker_sequence = sequence, !.last_heartbeat_sequence = heartbeat,
                              !.last_heartbeat_at = now, !.last_observed_at = now], order)

(* The earliest deadline that passed; a failure is reported once.            *)
LivenessFailure(l, now) ==
    CASE l.phase = "Bootstrapping" -> IF now >= StartDue(l) THEN "StartupTimedOut" ELSE None
      [] l.phase = "Live" ->
            IF now >= HeartbeatDue(l) THEN "HeartbeatMissed" ELSE None
      [] OTHER -> None

evaluate(l, now) ==
    LET failure == LivenessFailure(l, now) IN
    IF now < l.last_observed_at THEN LivenessErr(l, "ClockRegressed")
    ELSE LivenessOk([l EXCEPT !.phase = IF failure # None THEN "Unresponsive" ELSE @,
                              !.last_observed_at = now], failure)

LivenessEnds(l, phase, now) == [l EXCEPT !.phase = phase, !.last_observed_at = now]
mark_exited(l, now) == LivenessEnds(l, "Exited", now)
mark_quarantined(l, now) == LivenessEnds(l, "Quarantined", now)

-----------------------------------------------------------------------------
(* The recovery reducer of a process domain: facts about the old generation  *)
(* and results of the owner's actions go in, the next action comes out.      *)
(*                                                                           *)
(* An operation returns [state, decision, error].  When error is not "None"  *)
(* the caller keeps the state it had.  A fact's fingerprint is the fact.     *)

CONSTANTS Lifecycle,     \* budgets: [cooperative_stop, terminate_grace, kill_grace, cleanup]
          Restart,       \* policy: [max_attempts, window, initial_backoff, max_backoff, jitter_basis_points]
          LastEpoch,     \* the largest domain epoch
          JitterHash(_)  \* the first eight bytes of the jitter digest

-----------------------------------------------------------------------------
(* Phases, actions and the state.                                            *)
Phase(name) == [name |-> name, at |-> 0, reason |-> "None"]
PhaseAt(name, at) == [name |-> name, at |-> at, reason |-> "None"]
Quarantined(reason) == [name |-> "Quarantined", at |-> 0, reason |-> reason]

Action(kind) == [kind |-> kind, epoch |-> 0, reason |-> "None"]
StartFreshDomain(epoch) == [kind |-> "StartFreshDomain", epoch |-> epoch, reason |-> "None"]
EnterQuarantine(reason) == [kind |-> "EnterQuarantine", epoch |-> 0, reason |-> reason]

RecoveryState_try_new(identity, now) ==
    [identity |-> identity, phase |-> Phase("Healthy"), restart_after_cleanup |-> FALSE,
     process_exited |-> FALSE, external_effect_uncertain |-> FALSE, quarantine_reason |-> "None",
     quarantine_entered |-> FALSE, loss_lineage |-> None, unsettled_handoffs |-> 0,
     cleanup_proven |-> FALSE, attempt_sequence |-> 0, attempts |-> <<>>, next_action_id |-> 0,
     pending_action |-> None, last_completed_action |-> None, last_fact_sequence |-> 0,
     last_fact_fingerprint |-> None, last_observed_at |-> now]

RuntimeFailureFact_try_new(identity, sequence, now, kind) ==
    If(/\ sequence # 0
       /\ (kind.name = "ProcessExited" => kind.observation.lineage.identity = identity)
       /\ (kind.name = "CleanupCompleted" => kind.proof.lineage.identity = identity),
       [identity |-> identity, sequence |-> sequence, observed_at |-> now, kind |-> kind])

-----------------------------------------------------------------------------
(* Transitions.                                                              *)
Decision(name) == [name |-> name, action |-> None, until |-> 0]

Err(error) == [state |-> None, decision |-> Decision("NoAction"), error |-> error]

RecoveryTransition_unchanged(s) ==
    [state |-> s, error |-> "None",
     decision |-> Decision(IF s.pending_action = None THEN "NoAction" ELSE "AwaitingAction")]

RecoveryTransition_waiting(s, deadline) ==
    [state |-> s, error |-> "None", decision |-> [name |-> "WaitUntil", action |-> None, until |-> deadline]]

(* One action at a time, numbered before it runs.                            *)
issue(s, phase, action) ==
    LET envelope == [id |-> s.next_action_id + 1, action |-> action] IN
    IF s.pending_action # None THEN Err("ActionAlreadyPending")
    ELSE [state |-> [s EXCEPT !.next_action_id = @ + 1, !.phase = phase, !.pending_action = envelope],
          error |-> "None", decision |-> [name |-> "Execute", action |-> envelope, until |-> 0]]

validate_clock(previous, now) == previous <= now
reached(now, at) == now >= at

(* The reason that is kept: the first, unless a graver one follows.          *)
remember_quarantine_reason(s, reason) ==
    IF \/ s.quarantine_reason = "None"
       \/ reason = "ExternalEffectUncertain"
       \/ reason = "OwnerInvariantViolation" /\ s.quarantine_reason # "ExternalEffectUncertain"
    THEN [s EXCEPT !.quarantine_reason = reason] ELSE s

RememberExternal(s) ==
    IF s.external_effect_uncertain THEN remember_quarantine_reason(s, "ExternalEffectUncertain") ELSE s

remember_action_failure(s) == RememberExternal(remember_quarantine_reason(s, "RecoveryActionFailed"))

EnterQuarantined(s) ==
    CASE s.pending_action # None -> RecoveryTransition_unchanged(s)
      [] s.pending_action = None /\ s.quarantine_entered ->
            RecoveryTransition_unchanged([s EXCEPT !.phase = Quarantined(s.quarantine_reason)])
      [] OTHER -> issue(s, Quarantined(s.quarantine_reason), EnterQuarantine(s.quarantine_reason))

quarantine(s, reason) == EnterQuarantined(remember_quarantine_reason(s, reason))

ensure_loss_settled(s) ==
    IF s.loss_lineage = None THEN "ProcessLossNotObserved"
    ELSE IF s.unsettled_handoffs # 0 \/ unsettled_handoffs(s.loss_lineage) # 0
    THEN "UnsettledProcessHandoffs" ELSE "None"

begin_failure(s) ==
    LET t == [s EXCEPT !.restart_after_cleanup = TRUE] IN
    IF s.phase.name = "Healthy" THEN issue(t, Phase("Fencing"), Action("FenceAndStopAdmission"))
    ELSE RecoveryTransition_unchanged(t)

begin_owner_invariant_failure(s) ==
    IF s.phase.name \in {"Backoff", "StartingFresh", "Recovered", "Stopped"}
    THEN quarantine(s, "OwnerInvariantViolation")
    ELSE begin_failure(remember_quarantine_reason(s, "OwnerInvariantViolation"))

begin_cleanup(s) ==
    IF ensure_loss_settled(s) # "None" THEN Err(ensure_loss_settled(s))
    ELSE IF ~s.process_exited THEN Err("ProcessLossNotObserved")
    ELSE issue(s, Phase("Cleaning"), Action("CollectCleanup"))

await_process_loss(s, now) ==
    RecoveryTransition_waiting([s EXCEPT !.phase = PhaseAt("AwaitingProcessLoss", now + Lifecycle.cleanup)],
                               now + Lifecycle.cleanup)

-----------------------------------------------------------------------------
(* The restart ledger: attempts inside the window, and a delay that doubles  *)
(* with each of them, capped, plus a jitter that stays under the cap.        *)
attempts_exhausted(s) == Len(s.attempts) >= Restart.max_attempts

prune_attempts(s, now) == [s EXCEPT !.attempts = SelectSeq(@, LAMBDA t : t + Restart.window > now)]

Capped(n) == IF n > Restart.max_backoff THEN Restart.max_backoff ELSE n

BackoffBase(attempts) ==
    LET base[n \in 0..attempts] == IF n = 0 THEN Restart.initial_backoff ELSE Capped(2 * base[n - 1])
    IN  base[attempts]

deterministic_jitter(s, cap) == JitterHash(<<s.identity, s.attempt_sequence + 1>>) % (cap + 1)

restart_delay(s) ==
    LET base == BackoffBase(Len(s.attempts))
        share == (base * Restart.jitter_basis_points) \div 10000
        room == IF Restart.max_backoff > base THEN Restart.max_backoff - base ELSE 0
        cap == IF share < room THEN share ELSE room
    IN  base + deterministic_jitter(s, cap)

Backoff(s, now) ==
    RecoveryTransition_waiting([s EXCEPT !.phase = PhaseAt("Backoff", now + restart_delay(s))],
                               now + restart_delay(s))

\* Mutant: a remembered uncertain effect does not keep the domain quarantined.
MutScheduleIgnoresEffect(s, now) ==
    IF ensure_loss_settled(s) # "None" THEN Err(ensure_loss_settled(s))
    ELSE IF ~s.cleanup_proven THEN Err("CleanupNotProven")
    ELSE IF s.quarantine_reason # "None" THEN quarantine(s, s.quarantine_reason)
    ELSE IF ~s.restart_after_cleanup THEN RecoveryTransition_unchanged([s EXCEPT !.phase = Phase("Stopped")])
    ELSE Backoff(prune_attempts(s, now), now)

(* With the old generation proved gone: stop, wait for a restart, or stay    *)
(* quarantined when an effect is uncertain or a reason was remembered.       *)
schedule_after_cleanup(s, now) ==
    IF ensure_loss_settled(s) # "None" THEN Err(ensure_loss_settled(s))
    ELSE IF ~s.cleanup_proven THEN Err("CleanupNotProven")
    ELSE IF s.external_effect_uncertain THEN quarantine(s, "ExternalEffectUncertain")
    ELSE IF s.quarantine_reason # "None" THEN quarantine(s, s.quarantine_reason)
    ELSE IF ~s.restart_after_cleanup THEN RecoveryTransition_unchanged([s EXCEPT !.phase = Phase("Stopped")])
    ELSE IF attempts_exhausted(prune_attempts(s, now))
    THEN quarantine(prune_attempts(s, now), "RestartAttemptsExhausted")
    ELSE Backoff(prune_attempts(s, now), now)

-----------------------------------------------------------------------------
(* Facts.                                                                    *)
CleaningPhases == {"Cleaning", "AwaitingCleanup", "Backoff", "StartingFresh", "Recovered", "Stopped"}

ObserveExit(s, observation) ==
    LET lineage == observation.lineage
        t == [s EXCEPT !.unsettled_handoffs = unsettled_handoffs(lineage),
                       !.external_effect_uncertain = @ \/ lineage.external_effect_uncertain,
                       !.loss_lineage = lineage, !.process_exited = TRUE]
    IN  CASE s.loss_lineage # None -> Err("ProcessLossAlreadyObserved")
          [] s.loss_lineage = None /\ unsettled_handoffs(lineage) # 0 -> Err("UnsettledProcessHandoffs")
          [] s.loss_lineage = None /\ unsettled_handoffs(lineage) = 0 /\ s.phase.name = "Healthy" ->
                issue([t EXCEPT !.restart_after_cleanup = ~observation.expected],
                      Phase("Fencing"), Action("FenceAndStopAdmission"))
          [] OTHER -> IF s.pending_action = None /\ s.phase.name \notin CleaningPhases
                      THEN begin_cleanup(t) ELSE RecoveryTransition_unchanged(t)

ObserveUncertain(s, side_effect) ==
    LET t == [s EXCEPT !.external_effect_uncertain = TRUE] IN
    IF side_effect = "EffectFree" THEN begin_failure(s)
    ELSE IF s.phase.name \in {"Backoff", "Recovered", "Stopped"} THEN quarantine(t, "ExternalEffectUncertain")
    ELSE begin_failure(t)

AwaitsCleanup(s) == s.phase.name = "AwaitingCleanup"
SettlesQuarantine(s) == s.phase.name = "Quarantined" /\ s.quarantine_reason # "None"

ObserveCleanup(s, proof, now) ==
    LET t == [s EXCEPT !.cleanup_proven = TRUE,
                       !.external_effect_uncertain = @ \/ proof.lineage.external_effect_uncertain]
    IN  IF s.loss_lineage = None THEN Err("ProcessLossNotObserved")
        ELSE IF s.unsettled_handoffs # 0 THEN Err("UnsettledProcessHandoffs")
        ELSE IF proof.lineage # s.loss_lineage THEN Err("CleanupLineageMismatch")
        ELSE IF ~AwaitsCleanup(s) /\ ~SettlesQuarantine(s) THEN Err("UnexpectedCleanupFact")
        ELSE IF AwaitsCleanup(s) /\ reached(now, s.phase.at) THEN quarantine(t, "CleanupNotProven")
        ELSE IF s.pending_action # None THEN RecoveryTransition_unchanged(t)
        ELSE schedule_after_cleanup(t, now)

ObserveIncomplete(s) ==
    IF AwaitsCleanup(s) THEN quarantine(s, "CleanupNotProven")
    ELSE IF SettlesQuarantine(s) THEN RecoveryTransition_unchanged(s)
    ELSE Err("UnexpectedCleanupFact")

(* Only the loss and the cleanup of the process matter to a quarantined      *)
(* domain, and nothing once the cleanup is proved.                           *)
ObserveKind(s, kind, now) ==
    IF /\ s.phase.name = "Quarantined"
       /\ (s.cleanup_proven \/ kind.name \notin {"ProcessExited", "CleanupCompleted", "CleanupIncomplete"})
    THEN RecoveryTransition_unchanged(s)
    ELSE CASE kind.name = "ProcessExited" -> ObserveExit(s, kind.observation)
           [] kind.name = "OwnerInvariantViolation" -> begin_owner_invariant_failure(s)
           [] kind.name \in {"WedgeDetected", "InvocationUncertain"} -> ObserveUncertain(s, kind.side_effect)
           [] kind.name = "CleanupCompleted" -> ObserveCleanup(s, kind.proof, now)
           [] kind.name = "CleanupIncomplete" -> ObserveIncomplete(s)
           [] OTHER -> begin_failure(s)

(* A digest of every field of the fact: equal only for the same fact.        *)
fingerprint_fact(fact) == <<fact.identity, fact.sequence, fact.observed_at, fact.kind>>

observe_fact(s, fact) ==
    IF fact.identity # s.identity THEN Err("GenerationMismatch")
    ELSE IF ~validate_clock(s.last_observed_at, fact.observed_at) THEN Err("ClockRegressed")
    ELSE IF fact.sequence < s.last_fact_sequence THEN Err("StaleFact")
    ELSE IF fact.sequence = s.last_fact_sequence
    THEN IF s.last_fact_fingerprint = fingerprint_fact(fact) THEN RecoveryTransition_unchanged(s) ELSE Err("ConflictingFact")
    ELSE ObserveKind([s EXCEPT !.last_fact_sequence = fact.sequence,
                               !.last_fact_fingerprint = fingerprint_fact(fact),
                               !.last_observed_at = fact.observed_at],
                     fact.kind, fact.observed_at)

-----------------------------------------------------------------------------
(* The result of the pending action.                                         *)
StopActions == {"RequestCooperativeStop", "SendTerminate", "SendKill"}

ActionFailed(s, action) ==
    LET t == remember_action_failure(s) IN
    CASE action.kind \in StopActions /\ s.process_exited -> begin_cleanup(t)
      [] action.kind = "RequestCooperativeStop" /\ ~s.process_exited ->
            issue(t, Phase("Terminating"), Action("SendTerminate"))
      [] action.kind = "SendTerminate" /\ ~s.process_exited -> issue(t, Phase("Killing"), Action("SendKill"))
      [] action.kind = "EnterQuarantine" ->
            LET q == RememberExternal(remember_quarantine_reason(s, action.reason))
            IN  RecoveryTransition_unchanged([q EXCEPT !.phase = Quarantined(q.quarantine_reason)])
      [] OTHER -> quarantine(t, t.quarantine_reason)

WaitAfter(action) ==
    CASE action.kind = "RequestCooperativeStop" -> <<"WaitingCooperative", Lifecycle.cooperative_stop>>
      [] action.kind = "SendTerminate" -> <<"WaitingTerminate", Lifecycle.terminate_grace>>
      [] action.kind = "SendKill" -> <<"WaitingKill", Lifecycle.kill_grace>>
      [] OTHER -> <<"AwaitingCleanup", Lifecycle.cleanup>>

Wait(s, action, now) ==
    LET w == WaitAfter(action)
    IN  RecoveryTransition_waiting([s EXCEPT !.phase = PhaseAt(w[1], now + w[2])], now + w[2])

StartedFresh(s, epoch) ==
    IF ensure_loss_settled(s) # "None" THEN Err(ensure_loss_settled(s))
    ELSE IF ~s.cleanup_proven THEN Err("CleanupNotProven")
    ELSE IF s.external_effect_uncertain THEN quarantine(s, "ExternalEffectUncertain")
    ELSE IF s.quarantine_reason # "None" THEN quarantine(s, s.quarantine_reason)
    ELSE RecoveryTransition_unchanged([s EXCEPT !.phase = PhaseAt("Recovered", epoch)])

QuarantineEntered(s, reason) ==
    LET t == [RememberExternal(remember_quarantine_reason(s, reason)) EXCEPT !.quarantine_entered = TRUE] IN
    IF s.process_exited /\ ~s.cleanup_proven THEN begin_cleanup(t)
    ELSE RecoveryTransition_unchanged([t EXCEPT !.phase = Quarantined(t.quarantine_reason)])

ActionSucceeded(s, action, outcome, now) ==
    CASE action.kind \in StopActions ->
            IF s.process_exited THEN begin_cleanup(s)
            ELSE IF outcome = "ProcessAlreadyExited" THEN await_process_loss(s, now)
            ELSE Wait(s, action, now)
      [] action.kind = "FenceAndStopAdmission" ->
            IF s.process_exited THEN begin_cleanup(s)
            ELSE issue(s, Phase("CooperativeStopping"), Action("RequestCooperativeStop"))
      [] action.kind = "CollectCleanup" ->
            IF ensure_loss_settled(s) # "None" THEN Err(ensure_loss_settled(s)) ELSE Wait(s, action, now)
      [] action.kind = "StartFreshDomain" -> StartedFresh(s, action.epoch)
      [] action.kind = "EnterQuarantine" -> QuarantineEntered(s, action.reason)

complete_action(s, id, outcome, now) ==
    LET done == s.last_completed_action
        pending == s.pending_action
        t == [s EXCEPT !.pending_action = None, !.last_observed_at = now,
                       !.last_completed_action = [id |-> id, outcome |-> outcome]]
    IN  IF ~validate_clock(s.last_observed_at, now) THEN Err("ClockRegressed")
        ELSE IF done # None /\ done.id = id
        THEN IF done.outcome = outcome THEN RecoveryTransition_unchanged(s) ELSE Err("ConflictingActionCompletion")
        ELSE IF pending = None THEN Err("NoActionPending")
        ELSE IF pending.id # id THEN Err("ActionMismatch")
        ELSE IF outcome = "ProcessAlreadyExited" /\ pending.action.kind \notin StopActions
        THEN Err("InvalidActionOutcome")
        ELSE IF outcome = "Failed" THEN ActionFailed(t, pending.action)
        ELSE ActionSucceeded(t, pending.action, outcome, now)

-----------------------------------------------------------------------------
(* The successor generation inherits the ledger of attempts and nothing else *)
(* but the numbers that keep actions apart.                                  *)
roll_generation(s, identity, now) ==
    IF ~validate_clock(s.last_observed_at, now) THEN Err("ClockRegressed")
    ELSE IF s.phase.name # "Recovered" THEN Err("GenerationRollNotReady")
    ELSE IF \/ s.pending_action # None \/ s.external_effect_uncertain
            \/ s.quarantine_reason # "None" \/ s.quarantine_entered
    THEN Err("StateInconsistent")
    ELSE IF identity # [s.identity EXCEPT !.domain_epoch = s.phase.at] THEN Err("GenerationContinuityMismatch")
    ELSE RecoveryTransition_unchanged(
             [RecoveryState_try_new(identity, now) EXCEPT
                 !.attempt_sequence = s.attempt_sequence, !.attempts = s.attempts,
                 !.next_action_id = s.next_action_id, !.last_completed_action = s.last_completed_action])

-----------------------------------------------------------------------------
(* Deadlines.  A restart is written to the ledger before it can spawn.       *)
StartFresh(s, now) ==
    LET t == [prune_attempts(s, now) EXCEPT !.attempt_sequence = @ + 1, !.attempts = Append(@, now)]
        epoch == s.identity.domain_epoch + 1
    IN  IF ensure_loss_settled(s) # "None" THEN Err(ensure_loss_settled(s))
        ELSE IF ~s.cleanup_proven THEN Err("CleanupNotProven")
        ELSE IF attempts_exhausted(prune_attempts(s, now))
        THEN quarantine(prune_attempts(s, now), "RestartAttemptsExhausted")
        ELSE IF s.identity.domain_epoch >= LastEpoch THEN quarantine(prune_attempts(s, now), "EpochExhausted")
        ELSE issue(t, PhaseAt("StartingFresh", epoch), StartFreshDomain(epoch))

TimedPhases == {"WaitingCooperative", "WaitingTerminate", "WaitingKill", "AwaitingProcessLoss",
                "AwaitingCleanup", "Backoff"}

DeadlineReached(s, now) ==
    CASE s.phase.name = "WaitingCooperative" -> issue(s, Phase("Terminating"), Action("SendTerminate"))
      [] s.phase.name = "WaitingTerminate" -> issue(s, Phase("Killing"), Action("SendKill"))
      [] s.phase.name = "Backoff" -> StartFresh(s, now)
      [] OTHER -> quarantine(s, "CleanupNotProven")

PollPhase(s, now) ==
    CASE s.phase.name \in TimedPhases ->
            IF reached(now, s.phase.at) THEN DeadlineReached(s, now)
            ELSE RecoveryTransition_waiting(s, s.phase.at)
      [] s.phase.name = "Quarantined" /\ s.process_exited /\ ~s.cleanup_proven -> begin_cleanup(s)
      [] s.phase.name \in {"Fencing", "CooperativeStopping", "Terminating", "Killing", "Cleaning",
                           "StartingFresh"} -> Err("StateInconsistent")
      [] OTHER -> RecoveryTransition_unchanged(s)

poll(s, now) ==
    IF ~validate_clock(s.last_observed_at, now) THEN Err("ClockRegressed")
    ELSE IF s.pending_action # None THEN RecoveryTransition_unchanged(s)
    ELSE PollPhase([s EXCEPT !.last_observed_at = now], now)
=============================================================================
