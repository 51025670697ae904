--------------------------- MODULE ServiceManager ---------------------------
(***************************************************************************)
(* The external supervisor of the runtime host                             *)
(* (crates/paraegox-runtime-host/src/service_manager.rs, driven by         *)
(* bin/paraegox-runtime-host-watchdog.rs), composed with the watchdog      *)
(* endpoint of the supervised process (paraegox-runtime/src/runtime_host.rs*)
(* run_host_watchdog_endpoint).                                            *)
(*                                                                         *)
(* Instants are kept as ages in ticks, saturated at AgeCap.  The two pipes *)
(* are FIFO, so sequence numbers always match and are left out; nonces are *)
(* kept modulo 2.  The evidence ring is left out.                          *)
(***************************************************************************)
EXTENDS Integers, Sequences, SequencesExt, FiniteSetsExt

CONSTANTS
    heartbeat_interval, heartbeat_timeout, bootstrap_timeout, bootstrap_progress_timeout,
    control_probe_interval, control_response_timeout,       \* HostWatchdogTiming
    window, maximum_restarts, initial_backoff, maximum_backoff, maximum_jitter,
                                                            \* HostRestartPolicy
    MAX_FRAMES_PER_POLL,
    MaxGeneration,  \* last generation the counter can represent
    MaxTook,        \* bound: ticks a termination takes
    MaxQueue        \* bound: frames the host writes ahead of the manager

ValidPolicy ==
    /\ heartbeat_interval < Min({heartbeat_timeout, bootstrap_timeout, control_response_timeout})
    /\ bootstrap_progress_timeout <= bootstrap_timeout
    /\ maximum_restarts > 0
    /\ initial_backoff <= maximum_backoff /\ maximum_jitter <= maximum_backoff

ASSUME PolicyAccepted == ValidPolicy
ASSUME BoundsAssumption ==
    {heartbeat_interval, heartbeat_timeout, bootstrap_timeout, bootstrap_progress_timeout,
     control_probe_interval, control_response_timeout, window, maximum_restarts, initial_backoff,
     maximum_backoff, maximum_jitter, MAX_FRAMES_PER_POLL, MaxGeneration, MaxTook, MaxQueue}
      \subseteq Nat

VARIABLES
    state,            \* RuntimeHostServiceManagerState, New before try_start
    generation,
    active,           \* {} or the ManagedRuntimeHost
    failed_spawn_cleanup, \* whether a rejected child is still owned
    restart_attempts, \* ages of the replacement attempts in the ledger
    pending_restart,  \* ticks until the replacement is due, NotPending
    mode,             \* WatchdogLoopMode
    host,             \* the OS process: its status, endpoint and pipes
    failure,          \* latest failure detected
    replacements,     \* history: ages of all replacement attempts of the last window
    prompt            \* whether host and manager keep up with their timing, fixed

manager == <<state, generation, active, failed_spawn_cleanup, restart_attempts, pending_restart>>
history == <<failure, replacements, prompt>>
vars == <<manager, mode, host, history>>

NotPending == -1
NoProbe == -1
States == {"New", "Bootstrapping", "Running", "RestartBackoff", "Quarantined", "Stopped", "Exited"}

AgeCap == Max({heartbeat_timeout, bootstrap_timeout, control_response_timeout, window,
               control_probe_interval}) + 1
Older(age, ticks) == Min({age + ticks, AgeCap})

\* phase: 0 before ReactorStarted, then ReactorStarted, ControlReady, Running.
Running == 3

NoProcess == [status |-> "None", phase |-> 0, handshaken |-> FALSE, quiet |-> 0,
              inbox |-> <<>>, out |-> <<>>]

Frame(kind, value) == [kind |-> kind, value |-> value]

Init ==
    /\ state = "New" /\ generation = 0 /\ active = {} /\ failed_spawn_cleanup = FALSE
    /\ restart_attempts = <<>> /\ pending_restart = NotPending
    /\ mode = "Supervising" /\ host = NoProcess
    /\ failure = "None" /\ replacements = <<>>
    /\ prompt \in BOOLEAN

-----------------------------------------------------------------------------
(* Spawning.  A spawn returns the manager it leaves and whether it is Ok.  *)

\* A probe is written behind those the host has not read yet.
send_control_probe(a, h) ==
    [active |-> [a EXCEPT !.probe = 0, !.nonce = 1 - @],
     host |-> [h EXCEPT !.inbox = Append(@, a.nonce)]]

NewHost == [phase |-> 0, spawned |-> 0, progress |-> 0, heartbeat |-> 0, probe |-> NoProbe,
            nonce |-> 0, completed |-> control_probe_interval]

Spawned == send_control_probe(NewHost, [NoProcess EXCEPT !.status = "Up"])

\* The ways spawn_next ends: no generation left or no child; a child that
\* could not be set up and was reaped, or was not; success.
spawn_outcomes ==
    IF generation = MaxGeneration THEN {"NotSpawned"}
    ELSE IF prompt THEN {"Ok"}
    ELSE {"NotSpawned", "Rejected", "NotReaped", "Ok"}

GenerationAfter(outcome) == IF outcome = "NotSpawned" THEN generation ELSE generation + 1

\* Whatever child a spawn leaves behind has one owner.
Adopt(outcome) ==
    /\ generation' = GenerationAfter(outcome)
    /\ active' = IF outcome = "Ok" THEN {Spawned.active} ELSE {}
    /\ host' = CASE outcome = "Ok" -> Spawned.host
                 [] outcome = "NotReaped" -> [NoProcess EXCEPT !.status = "Hung"]
                 [] OTHER -> NoProcess
    /\ failed_spawn_cleanup' = (outcome = "NotReaped")

-----------------------------------------------------------------------------
(* The restart ledger.                                                     *)

\* Clearing the ledger as soon as its oldest attempt has expired.
MutPruned(ages) == IF ages # <<>> /\ ages[1] > window THEN <<>> ELSE ages

\* A list of ages, oldest first, without what is in front of its first age of
\* the window.
InWindow(ages) ==
    LET recent == {i \in DOMAIN ages : ages[i] <= window}
    IN  IF recent = {} THEN <<>> ELSE SubSeq(ages, Min(recent), Len(ages))

prune_restart_attempts(ages) == InWindow(ages)

Aged(ages, ticks) == [i \in DOMAIN ages |-> Older(ages[i], ticks)]

restart_delays(attempt) ==
    {Min({initial_backoff * 2^(attempt - 1), maximum_backoff}) + jitter : jitter \in 0..maximum_jitter}

\* With the ledger at its reading of the clock, stale ticks ago.
schedule_restart(ages, stale) ==
    LET kept == prune_restart_attempts(ages)
    IN  /\ restart_attempts' = Aged(kept, stale)
        /\ IF Len(kept) >= maximum_restarts
           THEN state' = "Quarantined" /\ pending_restart' = NotPending
           ELSE /\ state' = "RestartBackoff"
                /\ \E delay \in restart_delays(Len(kept) + 1) :
                     pending_restart' = Max({0, delay - stale})

-----------------------------------------------------------------------------
(* try_start and poll.                                                     *)

NextMode == IF state' = "Quarantined" THEN "Quarantined" ELSE mode

\* A failed start drops the manager, which reaps what it owns.
TryStart ==
    /\ state = "New"
    /\ \E outcome \in spawn_outcomes :
         /\ Adopt(outcome)
         /\ state' = CASE outcome = "Ok" -> "Bootstrapping"
                       [] outcome = "NotReaped" -> "Quarantined"
                       [] OTHER -> "Exited"
         /\ failure' = IF outcome = "NotReaped" THEN "SpawnCleanupFailed" ELSE failure
    /\ mode' = NextMode
    /\ UNCHANGED <<restart_attempts, pending_restart, replacements, prompt>>

Polls == mode = "Supervising"

\* A pending restart is taken, counted and tried.
PollBackoff ==
    /\ Polls /\ state = "RestartBackoff" /\ pending_restart = 0
    /\ LET kept == prune_restart_attempts(restart_attempts) IN
         IF Len(kept) >= maximum_restarts
         THEN /\ state' = "Quarantined" /\ pending_restart' = NotPending
              /\ restart_attempts' = kept
              /\ UNCHANGED <<generation, active, failed_spawn_cleanup, host, history>>
         ELSE /\ \E outcome \in spawn_outcomes, took \in 0..MaxTook :
                   /\ Adopt(outcome)
                   /\ outcome \in {"Ok", "NotSpawned"} => took = 0
                   /\ replacements' = InWindow(Aged(Append(replacements, 0), took))
                   /\ IF outcome \in {"Ok", "NotReaped"}
                      THEN /\ state' = IF outcome = "Ok" THEN "Bootstrapping" ELSE "Quarantined"
                           /\ failure' = IF outcome = "Ok" THEN failure ELSE "SpawnCleanupFailed"
                           /\ pending_restart' = NotPending
                           /\ restart_attempts' = Aged(Append(kept, 0), took)
                      ELSE /\ schedule_restart(Aged(Append(kept, 0), took), 0)
                           /\ failure' = "RestartSpawnFailed"
    /\ mode' = NextMode
    /\ UNCHANGED prompt

\* One frame of the host; TRUE while the protocol holds.
MutAcceptHostFrame(a, f) ==
    CASE f.kind = "Progress" ->
           [ok |-> f.value = a.phase + 1,
            active |-> [a EXCEPT !.phase = f.value, !.progress = 0]]
      [] f.kind = "Heartbeat" ->
           [ok |-> a.phase = Running, active |-> [a EXCEPT !.heartbeat = 0]]
      [] f.kind = "Ack" ->
           [ok |-> a.probe # NoProbe /\ f.value = 1 - a.nonce,
            active |-> [a EXCEPT !.probe = NoProbe, !.completed = 0]]

\* Reaching Running restarts the heartbeat and the probe outstanding.
accept_host_frame(a, f) ==
    CASE f.kind = "Progress" ->
           [ok |-> f.value = a.phase + 1,
            active |-> [a EXCEPT !.phase = f.value, !.progress = 0,
                                 !.heartbeat = IF f.value = Running THEN 0 ELSE @,
                                 !.probe = IF f.value = Running /\ @ # NoProbe THEN 0 ELSE @]]
      [] f.kind = "Heartbeat" ->
           [ok |-> a.phase = Running, active |-> [a EXCEPT !.heartbeat = 0]]
      [] f.kind = "Ack" ->
           [ok |-> a.probe # NoProbe /\ f.value = 1 - a.nonce,
            active |-> [a EXCEPT !.probe = NoProbe, !.completed = 0]]

read_host_frames(a, frames) ==
    FoldLeft(LAMBDA read, f : IF read.ok THEN accept_host_frame(read.active, f) ELSE read,
             [ok |-> TRUE, active |-> a], frames)

\* Leaving a bootstrapping host to its probe, which it may have answered.
MutObservationTimeout(a) ==
    CASE a.phase = Running /\ a.probe > control_response_timeout -> "ControlUnresponsive"
      [] a.phase = Running /\ a.heartbeat > heartbeat_timeout -> "HeartbeatMissed"
      [] OTHER -> "None"

observation_timeout(a) ==
    LET control_timeout == IF a.phase = Running THEN control_response_timeout
                                                ELSE bootstrap_timeout
    IN  CASE a.probe > control_timeout -> "ControlUnresponsive"
          [] a.phase = Running /\ a.heartbeat > heartbeat_timeout -> "HeartbeatMissed"
          [] a.phase < Running /\ a.spawned > bootstrap_timeout -> "BootstrapDeadlineExceeded"
          [] a.phase < Running /\ a.progress > bootstrap_progress_timeout ->
               "BootstrapProgressStalled"
          [] OTHER -> "None"

probe_due(a) == a.probe = NoProbe /\ a.completed >= control_probe_interval

\* The signals may have ended the leader of a group that is not gone.
Unreaped == \E status \in {host.status, "Exited"} : host' = [host EXCEPT !.status = status]

\* terminate_and_reap, then the restart or, when the group is not gone, the
\* quarantine that keeps the owner.  An exit is scheduled from the reading
\* taken before the termination, any other failure from one taken after it.
Terminate(why, stale) ==
    \E reaped \in BOOLEAN, took \in 0..MaxTook :
      /\ failure' = why
      /\ UNCHANGED <<generation, failed_spawn_cleanup, prompt>>
      /\ replacements' = InWindow(Aged(replacements, took))
      /\ IF reaped
         THEN /\ host' = NoProcess /\ active' = {}
              /\ IF stale THEN schedule_restart(restart_attempts, took)
                          ELSE schedule_restart(Aged(restart_attempts, took), 0)
         ELSE /\ state' = "Quarantined"
              /\ restart_attempts' = Aged(restart_attempts, took)
              /\ Unreaped
              /\ UNCHANGED <<active, pending_restart>>

\* What is wrong with a host whose frames were read; the pipes of a child that
\* has exited since try_wait are closed.
observed_failure(read, taken) ==
    LET closed == host.status = "Exited"
        late   == observation_timeout(read.active)
    IN  CASE ~read.ok -> "WatchdogProtocolViolation"
          [] read.ok /\ closed /\ taken < MAX_FRAMES_PER_POLL -> "WatchdogStreamClosed"
          [] read.ok /\ ~(closed /\ taken < MAX_FRAMES_PER_POLL) /\ late # "None" -> late
          [] read.ok /\ closed /\ late = "None" /\ probe_due(read.active) -> "WatchdogStreamClosed"
          [] OTHER -> "None"

maybe_send_probe(a, h) ==
    /\ IF probe_due(a)
       THEN active' = {send_control_probe(a, h).active} /\ host' = send_control_probe(a, h).host
       ELSE active' = {a} /\ host' = h
    /\ state' = IF a.phase = Running THEN "Running" ELSE "Bootstrapping"
    /\ UNCHANGED <<generation, failed_spawn_cleanup, restart_attempts, pending_restart, history>>

\* Frames, timeouts and the next probe, for a child that try_wait did not see exit.
Observe(a) ==
    LET taken == Min({Len(host.out), MAX_FRAMES_PER_POLL})
        read  == read_host_frames(a, SubSeq(host.out, 1, taken))
        why   == observed_failure(read, taken)
    IN  IF why # "None" THEN Terminate(why, FALSE)
        ELSE maybe_send_probe(read.active, [host EXCEPT !.out = SubSeq(@, taken + 1, Len(@))])

PollActive ==
    /\ Polls /\ state \in {"Bootstrapping", "Running"}
    /\ \E a \in active :
         \/ host.status = "Exited" /\ Terminate("HostExited", TRUE)
         \/ Observe(a)
    /\ mode' = NextMode

\* A child whose status cannot be read isolates the loop.
PollFails ==
    /\ Polls /\ state \in {"Bootstrapping", "Running"} /\ ~prompt
    /\ mode' = "Quarantined"
    /\ UNCHANGED <<manager, host, history>>

-----------------------------------------------------------------------------
(* A signal shuts the manager down; a failed one keeps the owner.          *)

Shutdown ==
    /\ state \notin {"New", "Stopped", "Exited"}
    /\ pending_restart' = NotPending
    /\ \E reaped \in BOOLEAN :
         IF reaped \/ (active = {} /\ ~failed_spawn_cleanup)
         THEN /\ state' = "Stopped" /\ host' = NoProcess
              /\ active' = {} /\ failed_spawn_cleanup' = FALSE
              /\ UNCHANGED mode
         ELSE /\ state' = "Quarantined" /\ mode' = "Quarantined"
              /\ Unreaped
              /\ UNCHANGED <<active, failed_spawn_cleanup>>
    /\ UNCHANGED <<generation, restart_attempts, history>>

\* The watchdog process ends: after a shutdown, or by an error of its own.
\* Dropping the manager reaps until nothing is left.
DropManager ==
    /\ state \notin {"New", "Exited"}
    /\ state' = "Exited" /\ host' = NoProcess /\ active' = {} /\ failed_spawn_cleanup' = FALSE
    /\ pending_restart' = NotPending
    /\ UNCHANGED <<generation, restart_attempts, mode, history>>

-----------------------------------------------------------------------------
(* The host.                                                               *)

Writes == host.status = "Up" /\ Len(host.out) < MaxQueue

HostProgress ==
    /\ Writes /\ host.phase < Running
    /\ host' = [host EXCEPT !.phase = @ + 1, !.out = Append(@, Frame("Progress", host.phase + 1))]
    /\ UNCHANGED <<manager, mode, history>>

\* The first answer is the handshake; the first heartbeat is due at once.
HostAck ==
    /\ Writes /\ host.phase = Running /\ host.inbox # <<>>
    /\ host' = [host EXCEPT !.inbox = Tail(@), !.handshaken = TRUE,
                            !.quiet = IF host.handshaken THEN @ ELSE heartbeat_interval,
                            !.out = Append(@, Frame("Ack", Head(host.inbox)))]
    /\ UNCHANGED <<manager, mode, history>>

HostHeartbeat ==
    /\ Writes /\ host.handshaken /\ host.quiet >= heartbeat_interval
    /\ host' = [host EXCEPT !.quiet = 0, !.out = Append(@, Frame("Heartbeat", 0))]
    /\ UNCHANGED <<manager, mode, history>>

HostFails ==
    /\ ~prompt /\ host.status = "Up"
    /\ \E status \in {"Hung", "Exited"} : host' = [host EXCEPT !.status = status]
    /\ UNCHANGED <<manager, mode, history>>

-----------------------------------------------------------------------------
(* Time.  A prompt host answers and beats in time, advances its bootstrap  *)
(* before a timeout, and is polled once a tick.                            *)

KeepsUp ==
    \A a \in active :
      /\ host.out = <<>>
      /\ IF host.phase = Running
         THEN host.inbox = <<>> /\ host.quiet < heartbeat_interval
         ELSE a.progress < bootstrap_progress_timeout /\ a.spawned < bootstrap_timeout

AgedHost(a) ==
    [a EXCEPT !.spawned = Older(@, 1), !.progress = Older(@, 1), !.heartbeat = Older(@, 1),
              !.completed = Older(@, 1), !.probe = IF @ = NoProbe THEN @ ELSE Older(@, 1)]

Tick ==
    /\ state \notin {"New", "Stopped", "Exited"}
    /\ prompt => KeepsUp
    /\ active' = {AgedHost(a) : a \in active}
    /\ restart_attempts' = Aged(restart_attempts, 1)
    /\ pending_restart' = IF pending_restart > 0 THEN pending_restart - 1 ELSE pending_restart
    /\ host' = [host EXCEPT !.quiet = Min({@ + 1, heartbeat_interval})]
    /\ replacements' = InWindow(Aged(replacements, 1))
    /\ UNCHANGED <<state, generation, failed_spawn_cleanup, mode, failure, prompt>>

Next ==
    \/ TryStart \/ PollBackoff \/ PollActive \/ PollFails \/ Shutdown \/ DropManager
    \/ HostProgress \/ HostAck \/ HostHeartbeat \/ HostFails \/ Tick

Spec == Init /\ [][Next]_vars

HostFailed == host.status \in {"Hung", "Exited"} /\ mode = "Supervising"

\* The watchdog loop polls every poll_interval, and time passes; this is needed
\* only of a loop that supervises a failed host.
FairSpec == Spec /\ WF_vars(HostFailed /\ PollActive) /\ WF_vars(HostFailed /\ Tick)

-----------------------------------------------------------------------------
(* Properties.                                                             *)

\* Type invariant.
TypeOK ==
    /\ state \in States /\ generation \in 0..MaxGeneration
    /\ failed_spawn_cleanup \in BOOLEAN /\ mode \in {"Supervising", "Quarantined"}
    /\ Len(restart_attempts) <= maximum_restarts
    /\ pending_restart \in {NotPending} \cup 0..(maximum_backoff + maximum_jitter)
    /\ (pending_restart # NotPending) = (state = "RestartBackoff")

\* A process exists exactly while one owner of it is retained, so no process
\* is ever detached and no replacement starts beside an old one.
OneOwnedProcess ==
    /\ TypeOK
    /\ (host.status # "None") = (active # {} \/ failed_spawn_cleanup)
    /\ ~(active # {} /\ failed_spawn_cleanup)
    /\ state \in {"Bootstrapping", "Running"} => active # {}
    /\ state \in {"RestartBackoff", "Stopped", "Exited"} => host.status = "None"

\* No more replacements are tried in any window than the policy allows,
\* however long a termination or a backoff took.
RestartBudgetHolds == Len(replacements) <= maximum_restarts

\* Supervision stays within its means: one process at a time, owned, and no
\* more replacements than the policy allows.
SupervisionIsBounded == OneOwnedProcess /\ RestartBudgetHolds

\* The two ends agree on the protocol: no interleaving of bootstrap frames,
\* probes, answers and heartbeats makes the manager condemn its own host.
ProtocolAgrees == failure # "WatchdogProtocolViolation"

\* A host that keeps up with its timing is never given up.
PromptHostIsKept == prompt => failure = "None"

\* The manager never gives up a host that does its part.
SoundHostIsKept == ProtocolAgrees /\ PromptHostIsKept

\* A host that hangs or exits is reaped, or left to a quarantined manager.
FailedHostIsHandled ==
    HostFailed ~> (host.status \in {"None", "Up"} \/ mode = "Quarantined")
=============================================================================
