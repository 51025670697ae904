-------------------------- MODULE RuntimeReference ---------------------------
(***************************************************************************)
(* One runtime process over its durable journal                            *)
(* (crates/paraegox-runtime/src): the start of the process and the         *)
(* reassembly of what an earlier one left (runtime_reference_apply.rs,     *)
(* RuntimeRestartReassemblyCore), the apply of signed requests once it     *)
(* serves (RuntimeReferenceApplyCore, runtime_control_endpoint.rs and      *)
(* runtime_control_state.rs), and the owner of the loop domain and its     *)
(* card (runtime_reference_owner.rs).  Every commit is a step, every       *)
(* effect of the owner another one, and the process may crash before any   *)
(* of them.  An owner or journal error while a request is applied ends     *)
(* the process, which is what a crash does.                                *)
(*                                                                         *)
(* A request signed for an earlier clock generation, one that fails the    *)
(* preflight, and the replay of a terminal one change nothing and are not  *)
(* steps.  The store's own atomicity is the subject of StoreLifecycle:     *)
(* here a commit happens or does not.                                      *)
(***************************************************************************)
EXTENDS RuntimeCodec

CONSTANTS
    Ops,        \* the operations a controller may send
    MaxEpoch    \* bound: how often the process is started

VARIABLES
    journal,    \* the durable snapshot
    host,       \* the process's memory
    calls,      \* history: the on_start calls made, [op, id] each
    refused     \* history: has the journal refused a start or an admitted operation?

vars == <<journal, host, calls, refused>>

\* The process's memory: where it is (pc), the operation being applied, has
\* the installed deadline passed, the execution it was started for, the
\* tenure it admitted itself, the callback's outcome, and its owner.
Off ==
    [pc |-> "Down", op |-> None, late |-> FALSE, execution |-> None, resident |-> None,
     callback |-> "NotInvoked", token |-> None, draw |-> 0, generation |-> 0]

\* FixedOwnerToken: lifecycle is that of its loop domain.
Token(op, id, generation) ==
    [op |-> op, id |-> id, generation |-> generation, lifecycle |-> "Absent", retire |-> None]

TokenIs(op, lifecycles) ==
    /\ host.token # None /\ host.token.op = op /\ host.token.lifecycle \in lifecycles

FreshId == <<journal.epoch, host.draw + 1>>

\* The process commits a successor and goes on as h, or ends when the
\* journal refuses it.
Commit(successors, h) ==
    /\ journal' \in IF successors = {} THEN {journal} ELSE successors
    /\ host' = IF successors = {} THEN Off ELSE h
    /\ refused' = (refused \/ successors = {})
    /\ UNCHANGED calls

\* The same for an admission, which the journal may refuse.
Admit(successors, h) ==
    /\ journal' \in IF successors = {} THEN {journal} ELSE successors
    /\ host' = IF successors = {} THEN Off ELSE h
    /\ UNCHANGED <<calls, refused>>

To(pc) == [host EXCEPT !.pc = pc]
Serve == [host EXCEPT !.pc = "Serving", !.op = None, !.late = FALSE]

\* An effect of the owner, with no commit.
Effect(h) == host' = h /\ UNCHANGED <<journal, calls, refused>>

CallStart(op, id, h) ==
    /\ host' = h /\ calls' = Append(calls, [op |-> op, id |-> id])
    /\ UNCHANGED <<journal, refused>>

(***************************************************************************)
(* Start and reassembly                                                    *)
(***************************************************************************)

\* startup_active_execution: the slice whose resources may have been left.
startup_active_execution(j) ==
    IF j.prepared # None /\ j.prepared.retiring # None THEN j.prepared.retiring.op
    ELSE IF j.prepared # None /\ Kind(j.prepared.op) = "OneSourceLoop" THEN j.prepared.op
    ELSE IF HeadIs(j, "OneSourceLoop") THEN j.active.op ELSE None

journal_owner_high_water(j) ==
    Max({0} \union {r.generation : r \in j.resources}
            \union {CompletedAction(t).generation :
                      t \in {t \in ToSet(j.completed) : CompletedAction(t) # None}}
            \union {a.generation : a \in {current_action(j)} \ {None}})

Start ==
    /\ host.pc = "Down" /\ journal.epoch < MaxEpoch
    /\ Commit(startup_invalidation(journal),
              [Off EXCEPT !.pc = "Reassemble", !.execution = startup_active_execution(journal),
                          !.generation = journal_owner_high_water(journal)])

prepared_reconcile ==
    /\ journal.prepared # None
    /\ journal.prepared.phase \in {"StartupExpiredNoEffects", "StartupReconcileRequired",
                                   "SupersededBeforeEffects", "SupersededReconcileRequired"}

Expired == journal.prepared # None /\ journal.prepared.phase = "StartupExpiredNoEffects"
Leftovers == Nonterminal(journal.resources) # {}

NothingToReassemble ==
    /\ ~HeadIs(journal, "OneSourceLoop") /\ ~prepared_reconcile
    /\ journal.recovery = None /\ ~Leftovers

ReassemblyNotNeeded ==
    /\ host.pc = "Reassemble" /\ NothingToReassemble
    /\ Effect(Serve)

terminalize_aborted_no_effects ==
    /\ host.pc = "Reassemble" /\ Expired
    /\ Commit(startup_aborted_no_effects(journal, FALSE), host)

\* What an earlier process owned is gone with it: the owner's proof asks
\* only that none of it is of this process.
prove_restart_exact_zero ==
    /\ host.execution # None
    /\ \A r \in Nonterminal(journal.resources) : r.epoch < journal.epoch

BeginStartupCleanup ==
    /\ host.pc = "Reassemble" /\ ~Expired /\ Leftovers
    /\ Commit(IF prove_restart_exact_zero THEN begin_startup_resource_cleanup(journal)
              ELSE operational_quarantine(journal),
              IF prove_restart_exact_zero THEN To("Proved") ELSE Serve)

CompleteStartupCleanup ==
    /\ host.pc = "Proved" /\ ~prepared_reconcile
    /\ Commit(complete_startup_resource_cleanup(journal), To("Recover"))

\* terminalize_interrupted_normal, with or without tombstones
terminalize_interrupted_normal ==
    /\ host.pc = "Proved" \/ (host.pc = "Reassemble" /\ ~Leftovers)
    /\ prepared_reconcile /\ ~Expired
    /\ Commit(IF Kind(journal.prepared.op) = "OneSourceLoop"
              THEN startup_interrupted_start(journal, FALSE)
              ELSE empty_exact_zero(journal, FALSE), Serve)

\* The committed loop head is what is left to look at.
AtRecovery ==
    \/ host.pc = "Recover"
    \/ /\ host.pc = "Reassemble" /\ HeadIs(journal, "OneSourceLoop")
       /\ ~prepared_reconcile /\ ~Leftovers

\* A recovery that had called nothing is aborted, and another may follow;
\* one that may have called on_start is closed for good.
CloseRecovery ==
    /\ AtRecovery /\ journal.recovery # None
    /\ CASE journal.recovery.phase = "StartupInvalidatedNoEffects" ->
               Commit(abort_startup_invalidated_recovery(journal, FALSE), To("Recover"))
         [] journal.recovery.phase = "StartupReconcileRequired" ->
               Commit(recovery_failed_not_ready(journal, FALSE, FALSE), Serve)
         [] OTHER -> Commit(operational_quarantine(journal), Serve)

\* The invalidated view says the head is not to be started.
LeaveHead ==
    /\ AtRecovery /\ journal.recovery = None
    /\ \/ journal.live.tag \in {"RecoveryFailedNotReady", "ExactZero"}
       \/ Invalidated(journal, {"NoActiveHead", "CanonicalEmptyExactZero",
                                "RecoveryFailureLatched"})
    /\ Effect(Serve)

\* Reconciliation is required, or the owner has no plan to offer.
QuarantineHead ==
    /\ AtRecovery /\ journal.recovery = None
    /\ Invalidated(journal, {"ReconcileRequired", "EligibleOneSourceLoop"})
    /\ Commit(operational_quarantine(journal), Serve)

\* prepare_recovery_one_source and the plan's commit
PlanRecovery ==
    /\ AtRecovery /\ journal.recovery = None /\ Invalidated(journal, {"EligibleOneSourceLoop"})
    /\ host.execution = journal.active.op
    /\ Commit(recovery_plan(journal, Action(FreshId, "RestartReassembly", journal.epoch,
                                            host.generation + 1)),
              [host EXCEPT !.pc = "Planned", !.late = FALSE, !.draw = @ + 1, !.generation = @ + 1,
                           !.token = Token(journal.active.op, FreshId, host.generation + 1)])

IntendRecovery ==
    /\ host.pc = "Planned"
    /\ Commit(IF host.late THEN recovery_failed_not_ready(journal, FALSE, TRUE)
              ELSE recovery_intent(journal, FALSE),
              IF host.late THEN Serve ELSE To("Intended"))

ReserveRecovery ==
    /\ host.pc = "Intended"
    /\ Commit(IF host.late THEN recovery_failed_not_ready(journal, FALSE, TRUE)
              ELSE reserve_recovery(journal),
              IF host.late THEN Serve ELSE To("Reserved"))

MaterializeRecovery ==
    /\ host.pc = "Reserved" /\ TokenIs(journal.recovery.op, {"Absent"})
    /\ Effect([host EXCEPT !.pc = "Materialized", !.token.lifecycle = "Allocated"])

\* The owner's materialization or its cleanup failed.
QuarantineRecovery ==
    /\ host.pc \in {"Reserved", "Failing"}
    /\ Commit(operational_quarantine(journal), Serve)

OwnRecovery ==
    /\ host.pc = "Materialized"
    /\ Commit(own_recovery(journal), To("Owned"))

\* Mutant: a start that failed is tried again.
MutStartRecoveryRetries ==
    /\ host.pc = "Owned" /\ TokenIs(journal.recovery.op, {"Allocated"})
    /\ \E callback \in {"KnownSuccess", "KnownError"} :
          CallStart(journal.recovery.op, host.token.id,
              IF callback = "KnownError" /\ Len(calls) < 4 THEN host
              ELSE [host EXCEPT !.pc = "Called", !.callback = callback,
                                !.token.lifecycle = "Started"])

StartRecovery ==
    /\ host.pc = "Owned" /\ TokenIs(journal.recovery.op, {"Allocated"})
    /\ \E callback \in {"KnownSuccess", "KnownError"} :
          CallStart(journal.recovery.op, host.token.id,
              [host EXCEPT !.pc = "Called", !.callback = callback,
                           !.token.lifecycle = "Started"])

LatchRecovery ==
    /\ host.pc = "Called"
    /\ Commit(latch_recovery_callback(journal, host.callback, host.late),
              To(IF host.callback = "KnownSuccess" /\ ~host.late THEN "Latched"
                 ELSE "Failed"))

PublishRecovery ==
    /\ host.pc = "Latched"
    /\ Commit(IF host.late THEN latch_recovery_deadline(journal, TRUE)
              ELSE recovery_live_ready(journal, FALSE),
              IF host.late THEN To("Failed") ELSE Serve)

BeginRecoveryCleanup ==
    /\ host.pc = "Failed"
    /\ Commit(begin_recovery_cleanup(journal), To("Failing"))

CleanUpRecovery ==
    /\ host.pc = "Failing" /\ TokenIs(journal.recovery.op, {"Started"})
    /\ Effect([host EXCEPT !.pc = "Cleaned", !.token.lifecycle = "Cleaned"])

FailRecovery ==
    /\ host.pc = "Cleaned"
    /\ Commit(recovery_failed_not_ready(journal, TRUE, host.late), Serve)

(***************************************************************************)
(* Serving                                                                 *)
(***************************************************************************)

\* bootstrap_readiness
ReadyForApply ==
    \/ journal.live.tag \in {"None", "LiveReady", "ExactZero"}
    \/ Invalidated(journal, {"NoActiveHead", "CanonicalEmptyExactZero"})

\* reference_apply_fresh_preflight, of an operation that is not terminal
Preflight(op) ==
    /\ host.pc = "Serving" /\ ReadyForApply
    /\ Request[op].expected = Slice(journal.active)
    /\ \A t \in Operations(journal) : t.op # op

\* try_reference_tenure_only, with tenure_admission_status New
AdmitTenure(op) ==
    /\ Preflight(op)
    /\ Request[op].tenure > journal.fence /\ Request[op].tenure \notin journal.nonces
    /\ Admit(tenure_only(journal, op),
             [host EXCEPT !.pc = "Admit", !.op = op, !.resident = None])

\* try_reference_resident_tenure_continuation: the tenure is durable, and
\* this process has admitted an operation under it.
ContinueTenure(op) ==
    /\ Preflight(op) /\ Request[op].tenure = journal.fence
    /\ host.resident = journal.fence
    /\ Effect([host EXCEPT !.pc = "Admit", !.op = op, !.resident = None])

AdmitOperation ==
    /\ host.pc = "Admit"
    /\ Admit(full_admission(journal, host.op, journal.epoch),
             [host EXCEPT !.pc = "Execute", !.late = FALSE, !.resident = journal.fence])

Executing(kind) == host.pc = "Execute" /\ Kind(host.op) = kind

MissNoEffectDeadline ==
    /\ host.pc = "Execute" /\ host.late
    /\ Commit(no_effect_deadline(journal, TRUE), Serve)

\* prepare_one_source: only a cleaned token is replaced, and another one is
\* an error, which ends the process.
IntendStart ==
    /\ Executing("OneSourceLoop") /\ ~host.late
    /\ host.token # None => host.token.lifecycle = "Cleaned"
    /\ Commit(one_source_intent(journal, Action(FreshId, "Start", journal.epoch,
                                                host.generation + 1), FALSE),
              [host EXCEPT !.pc = "StartIntended", !.draw = @ + 1, !.generation = @ + 1,
                           !.token = Token(host.op, FreshId, host.generation + 1)])

ReserveStart ==
    /\ host.pc = "StartIntended"
    /\ Commit(IF host.late THEN post_intent_timeout(journal, TRUE) ELSE reserve(journal),
              IF host.late THEN Serve ELSE To("StartReserved"))

\* Mutant: the domain and the card are made before they are reserved.
MutMaterializeUnreserved ==
    /\ host.pc = "StartIntended" /\ TokenIs(host.op, {"Absent"})
    /\ Effect([host EXCEPT !.token.lifecycle = "Allocated"])

MaterializeStart ==
    /\ host.pc = "StartReserved" /\ TokenIs(host.op, {"Absent"})
    /\ Effect([host EXCEPT !.pc = "StartMaterialized", !.token.lifecycle = "Allocated"])

OwnStart ==
    /\ host.pc = "StartMaterialized"
    /\ Commit(own(journal), To("StartOwned"))

StartOneSource ==
    /\ host.pc = "StartOwned" /\ TokenIs(host.op, {"Allocated"})
    /\ CallStart(host.op, host.token.id,
                 [host EXCEPT !.pc = "StartCalled", !.token.lifecycle = "Started"])

\* A success past the deadline is an error, and ends the process.
FinishStart ==
    /\ host.pc = "StartCalled" /\ ~host.late
    /\ Commit(one_source_success(journal, FALSE), Serve)

EmptyFastPath ==
    /\ Executing("EmptyDeactivate") /\ ~host.late /\ exact_zero_fast_path_eligible(journal)
    /\ Commit(empty_fast_path(journal, FALSE), Serve)

\* prepare_empty_retire and the commit of the empty head
RetireHead ==
    /\ Executing("EmptyDeactivate") /\ ~host.late /\ ~exact_zero_fast_path_eligible(journal)
    /\ TokenIs(journal.active.op, {"Started"})
    /\ host.token.generation = journal.live.generation
    /\ Commit(empty_head_retire(journal, FreshId, FALSE),
              [host EXCEPT !.pc = "Retiring", !.draw = @ + 1, !.token.retire = FreshId])

StopOneSource ==
    /\ host.pc = "Retiring" /\ host.token.retire = journal.prepared.action.id
    /\ Effect([host EXCEPT !.pc = "Stopped", !.token.lifecycle = "Stopped"])

LatchStop ==
    /\ host.pc = "Stopped"
    /\ Commit(latch_empty_success(journal, host.late), To("Draining"))

CleanUpOneSource ==
    /\ host.pc = "Draining"
    /\ Effect([host EXCEPT !.pc = "Drained", !.token.lifecycle = "Cleaned"])

FinishEmpty ==
    /\ host.pc = "Drained"
    /\ Commit(empty_exact_zero(journal, host.late), Serve)

(***************************************************************************)
(* The environment, and the specification                                  *)
(***************************************************************************)

\* The deadline the operation or the recovery runs under passes.
Expire ==
    /\ ~host.late
    /\ host.pc \notin {"Down", "Reassemble", "Proved", "Recover", "Serving", "Admit"}
    /\ Effect([host EXCEPT !.late = TRUE])

\* The process ends, and what it owned with it.
Crash == host.pc # "Down" /\ Effect(Off)

Init == journal = Initialized /\ host = Off /\ calls = <<>> /\ refused = FALSE

Reassembly ==
    \/ ReassemblyNotNeeded \/ terminalize_aborted_no_effects
    \/ BeginStartupCleanup \/ CompleteStartupCleanup \/ terminalize_interrupted_normal
    \/ CloseRecovery \/ LeaveHead \/ QuarantineHead \/ PlanRecovery
    \/ IntendRecovery \/ ReserveRecovery \/ MaterializeRecovery \/ QuarantineRecovery
    \/ OwnRecovery \/ StartRecovery \/ LatchRecovery \/ PublishRecovery
    \/ BeginRecoveryCleanup \/ CleanUpRecovery \/ FailRecovery

Apply ==
    \/ \E op \in Ops : AdmitTenure(op) \/ ContinueTenure(op)
    \/ AdmitOperation \/ MissNoEffectDeadline
    \/ IntendStart \/ ReserveStart \/ MaterializeStart \/ OwnStart \/ StartOneSource
    \/ FinishStart \/ EmptyFastPath \/ RetireHead \/ StopOneSource \/ LatchStop
    \/ CleanUpOneSource \/ FinishEmpty

Next == Start \/ Reassembly \/ Apply \/ Expire \/ Crash

Spec == Init /\ [][Next]_vars

(***************************************************************************)
(* Properties                                                              *)
(***************************************************************************)

\* A start over an empty head was interrupted after its pair was reserved.
\* The census its head was committed with is then no longer the journal's, and
\* startup_interrupted_start has no valid successor.
InterruptedOverEmptyHead ==
    /\ HeadIs(journal, "EmptyDeactivate")
    /\ PreparedIs(journal, "OneSourceLoop", {"StartupReconcileRequired"})
    /\ \E r \in Nonterminal(journal.resources) : r.action = journal.prepared.action.id

\* Once a request is admitted or a start begun, the journal accepts every
\* successor the process derives from what an earlier one left, wherever that
\* one crashed, so that a later process reaches the point where it serves;
\* the one exception is a start that was interrupted over an empty head.
CommitsAreAccepted == refused => InterruptedOverEmptyHead

\* run_runtime_restart_reassembly without that exception: "any post-intent
\* reopen is terminalized or quarantined".
ReopenIsTerminalized == ~refused

\* on_start of a slice is called again only after every earlier call of it
\* ended in a committed success: a post-intent reopen "never calls
\* `on_start` again".
RestartsOnlyWhatRan ==
    \A k \in DOMAIN calls : \A i \in 1..(k - 1) :
        calls[i].op = calls[k].op =>
            \E t \in ToSet(journal.completed) :
                /\ t.selection.primary = "OneSourceLoopActive"
                /\ CompletedAction(t).id = calls[i].id

\* What the process has made is recorded before it is made, and stays
\* recorded as not terminal until it is gone.
MadeIsRecorded ==
    host.token # None /\ host.token.lifecycle \in {"Allocated", "Started", "Stopped"} =>
        \E r \in Nonterminal(journal.resources) : r.generation = host.token.generation

\* While it serves, the process runs exactly what the journal says is live.
LiveIsRunning ==
    host.pc = "Serving" =>
        /\ journal.live.tag = "LiveReady" =>
              /\ TokenIs(journal.active.op, {"Started"})
              /\ host.token.generation = journal.live.generation
        /\ host.token # None /\ host.token.lifecycle \in {"Allocated", "Started", "Stopped"} =>
              journal.live.tag \notin {"None", "ExactZero", "RecoveryFailedNotReady"}

\* The journal tells a later process what this one owns: nothing is made
\* that a crash would leave unrecorded, and the process that serves runs
\* the generation the journal calls live and no other.
JournalKnowsWhatRuns == MadeIsRecorded /\ LiveIsRunning

\* The lifecycle evidence of every completed action is true: an outcome that
\* proves on_start was not called names an action it was never called for,
\* and an active one an action it was called for once.
EvidenceIsTrue ==
    \A t \in ToSet(journal.completed) :
        CompletedAction(t) # None =>
            LET made == {i \in DOMAIN calls : calls[i].id = CompletedAction(t).id} IN
            /\ t.selection.effect = "ProvenNotStarted" => made = {}
            /\ t.selection.primary = "OneSourceLoopActive" => Cardinality(made) = 1

\* What the journal says of calls to on_start is what happened: none is
\* repeated without a committed success before it, and no evidence is false.
StartsAreTold == RestartsOnlyWhatRan /\ EvidenceIsTrue

\* Every journal a later process will open reads back from its file as it
\* was written (decode), whatever is pending in it.  A version-4 file of it
\* migrates to the same journal exactly when nothing is pending, and a
\* version-3 file when it names no slice but that of a prepared request
\* (migrate_payload_v4, migrate_payload_v3).
StoredJournalReadsBack ==
    host.pc = "Down" /\ journal.epoch < MaxEpoch =>
        LET n == Snapshot("store", "target", Len(journal.completed) + 1, journal)
            named == journal.active # None \/ journal.completed # <<>>
            reserved == \A r \in journal.resources : r.phase # "ReservedAtCrashExactZero"
            pending == journal.prepared # None \/ journal.recovery # None
        IN  /\ and_then(try_new_for_payload_version(n, RUNTIME_JOURNAL_PAYLOAD_VERSION), decode) = {n}
            /\ and_then(try_new_for_payload_version(n, RUNTIME_JOURNAL_PAYLOAD_V4), migrate_payload_v4)
                 = {x \in {n} : reserved /\ ~pending}
            /\ and_then(try_new_for_payload_version(n, RUNTIME_JOURNAL_LEGACY_PAYLOAD_VERSION), migrate_payload_v3)
                 = {x \in {n} : reserved /\ ~named}

-----------------------------------------------------------------------------
(***************************************************************************)
(* The runtime process with small sets of requests, each with a revision,  *)
(* a tenure and the slice it expects to be active.                         *)
(***************************************************************************)

CONSTANTS l1, e2, e3, l4, l5

LoopRequest(revision, tenure, expected) ==
    [kind |-> "OneSourceLoop", revision |-> revision, tenure |-> tenure,
     supersedes |-> tenure - 1, expected |-> expected]
EmptyRequest(revision, tenure, expected) ==
    [LoopRequest(revision, tenure, expected) EXCEPT !.kind = "EmptyDeactivate"]

\* A slice is started, and removed under the same tenure, and another one
\* started over the empty head; a later tenure deactivates a runtime with
\* no head, or asks for a second slice over the first, which the journal
\* does not admit.
MCOps == {l1, e2, e3, l4, l5}
MCRequest ==
    [op \in MCOps |-> CASE op = l1 -> LoopRequest(1, 1, None)
                        [] op = e2 -> EmptyRequest(2, 1, l1)
                        [] op = e3 -> EmptyRequest(3, 2, None)
                        [] op = l4 -> LoopRequest(4, 3, l1)
                        [] op = l5 -> LoopRequest(5, 1, e2)]

\* A slice is started over an empty head.
MCOverEmptyOps == {e2, l4}
MCOverEmptyRequest ==
    [op \in MCOverEmptyOps |-> IF op = e2 THEN EmptyRequest(1, 1, None)
                               ELSE LoopRequest(2, 1, e2)]
=============================================================================
