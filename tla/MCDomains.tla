------------------------------ MODULE MCDomains ------------------------------
(***************************************************************************)
(* The two kinds of execution domain that own operating system resources,  *)
(* one to a behaviour: a host with thread domains (ThreadRegistry), or one *)
(* process domain with its worker (ProcessLifecycle).                      *)
(*                                                                         *)
(* The thread host has one of four plans: a card, a pool of two threads    *)
(* with two jobs, two pools stopped together, and two of which the budget  *)
(* holds only one.  The process domain lives two generations of an honest  *)
(* Python worker, a slow one, an honest Rust worker, and of workers that   *)
(* block, leave a helper behind or exceed their memory.                    *)
(***************************************************************************)
EXTENDS ProcessLifecycle, TLC

CONSTANTS m1, m2, NoKey

VARIABLES
    part,                                                       \* who takes steps
    plan, budget, owners, shutdown, stopping, now, report       \* ThreadRegistry

threadVars == <<plan, budget, owners, shutdown, stopping, now, report>>

-----------------------------------------------------------------------------
Slice == [domains |-> 1, executions |-> 1, bound |-> TRUE, native_threads |-> 0, eligible |-> TRUE, workers |-> 1]

Domain(kind, workers) == [kind |-> kind, workers |-> workers, native_threads |-> 0, drain_budget |-> 1,
                          slice |-> Slice]

Plans == {[refs |-> <<"card">>, spec |-> "card" :> Domain("Card", 1), work |-> 2],
          [refs |-> <<"pool">>, spec |-> "pool" :> Domain("Pool", 2), work |-> 2],
          [refs |-> <<"one", "two">>, spec |-> "one" :> Domain("Pool", 1) @@ "two" :> Domain("Pool", 1), work |-> 1],
          [refs |-> <<"pool", "two">>, spec |-> "pool" :> Domain("Pool", 2) @@ "two" :> Domain("Pool", 1), work |-> 1]}

Message(id, fresh, run) ==
    [id |-> id, bytes |-> 1, key |-> NoKey, conforms |-> TRUE, fresh_until |-> fresh, run_deadline |-> run]

Messages == <<Message(m1, 9, 9), Message(m2, 1, 9)>>

MailboxLimits == [overflow |-> "RejectNew", capacity_items |-> 2, capacity_bytes |-> 2, max_retained_bytes |-> 3,
                  max_inflight |-> 1, max_queue_age |-> 9]

Threads == INSTANCE ThreadRegistry WITH MaximumThreads <- 3, FrameworkThreads <- 1, RunBudget <- 1,
                                        CancellationGrace <- 1, MaxClock <- 2

ASSUME HostHasThreads == Threads!ThreadRegistryConstants

-----------------------------------------------------------------------------
MCLimits == [outstanding |-> 1, credits |-> 1, bytes |-> 4, members |-> 2]
MCLifecycle == [cooperative_stop |-> 1, terminate_grace |-> 1, kill_grace |-> 1, cleanup |-> 1]
MCRestart == [max_attempts |-> 1, window |-> 2, initial_backoff |-> 1, max_backoff |-> 2, jitter_basis_points |-> 5000]
MCJitterHash(x) == 3
MCLivenessBudgets == [start |-> 1, heartbeat_timeout |-> 2]
MCBudgets == [start |-> 1, drain |-> 1, ack |-> 1, run |-> 1, grace |-> 1]
MCCapacity == [ipc_credit_bytes |-> 3, max_retained_bytes |-> 4]

Program(lang, fault, delay, effect, payloads, faults) ==
    [lang |-> lang, fault |-> fault, delay |-> delay, effect |-> effect, payloads |-> payloads, faults |-> faults]

MCLaunches == {Program("python", "normal", 0, "External", {2}, 1), Program("python", "normal", 0, "External", {1}, 0),
               Program("python", "normal", 2, "EffectFree", {1}, 0), Program("rust", "none", 0, "External", {1}, 1),
               Program("python", "block", 0, "External", {2}, 0),
               Program("python", "spawn-grandchild", 0, "EffectFree", {}, 0),
               Program("python", "memory-pressure", 0, "External", {2}, 0)}

-----------------------------------------------------------------------------
DomainsInit ==
    \/ part = "threads" /\ Threads!Init /\ launch = None /\ Unstarted
    \/ part = "process" /\ Init /\ plan = None /\ Threads!Unowned

DomainsNext ==
    \/ part = "threads" /\ Threads!Next /\ UNCHANGED <<part, launch, d, p, c, h>>
    \/ part = "process" /\ Next /\ UNCHANGED <<part, plan, budget, owners, shutdown, stopping, now, report>>

DomainsFairness ==
    /\ WF_threadVars(part = "threads" /\ stopping /\ Threads!OwnerStep)
    /\ WF_threadVars(part = "threads" /\ stopping /\ Threads!SomeThread)

DomainsSpec == DomainsInit /\ [][DomainsNext]_<<part, vars, threadVars>> /\ DomainsFairness

-----------------------------------------------------------------------------

\* Nothing is accepted late or started early: a thread's completion only
\* before its signed deadline, a process generation only after the last one is
\* gone and its effects are known.
AcceptedInTime == Threads!CompletedInTime /\ RestartsAreClean

\* Once the host stops, its thread domains are joined, as long as callables
\* return and destructors do not panic.
DrainEnds == stopping ~> Threads!Joined
=============================================================================
