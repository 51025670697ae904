---------------------------- MODULE RuntimeApply ----------------------------
(***************************************************************************)
(* Admission and control state of one Runtime target for one source scope  *)
(* (crates/paraegox-runtime/src/admission.rs and apply_state.rs).  A signed *)
(* apply request is admitted against three grow-only replay ledgers and     *)
(* reduced against the writer fence; what both produce is persisted as one  *)
(* step.  The admitted apply, a value in memory, is then prepared, and the  *)
(* prepared operation is activated when the assembly engine reports it      *)
(* ready.  Any number of admitted applies may be in flight, so every step   *)
(* may find that another writer moved the fence, the slice or the clock.    *)
(*                                                                         *)
(* The digests of the code commit to everything they are taken of, so a    *)
(* request stands for its own request digest and a tenure for its own      *)
(* proof envelope digest.  Requests that fail a key, signature, scope,     *)
(* target or clock-domain check, and every other refusal, change no state: *)
(* they are the inputs no action accepts.                                  *)
(***************************************************************************)
EXTENDS Integers, FiniteSets

CONSTANTS
  Requests,              \* the authenticated requests that may arrive
  MaximumBudget,         \* ApplyAdmissionPolicy::maximum_budget
  TenureNonceCapacity,   \* AdmissionStateLimits
  RequestNonceCapacity,
  TemporalCapacity,
  MaxTime,               \* bound: last instant of a clock generation
  MaxGeneration,         \* bound: number of clock generations
  None

\* WriterTenureClaim::try_new and the proof that carries it: a tenure supersedes
\* earlier epochs only.  The fence's principal is part of the writer.
Tenure(t) ==
  /\ DOMAIN t = {"writer", "epoch", "supersedes", "nonce"}
  /\ t.epoch \in Nat /\ t.supersedes \in Nat
  /\ t.supersedes < t.epoch

\* A request names its operation, its replay nonce, the tenure it is made
\* under, its temporal constraint (lineage, original and remaining budget,
\* clock generation), the incoming slice and the slice it expects to replace.
Request(r) ==
  /\ DOMAIN r = {"op", "nonce", "tenure", "lineage", "original", "remaining",
                 "generation", "revision", "slice", "expected"}
  /\ Tenure(r.tenure)
  /\ r.original \in Nat /\ r.remaining \in Nat /\ r.generation \in Nat
  /\ r.revision \in Nat
  /\ r.slice # None

ASSUME RequestsAssumption == \A r \in Requests : Request(r)
ASSUME NoneAssumption == None \notin Requests
ASSUME BudgetAssumption == MaximumBudget \in Nat
ASSUME CapacityAssumption ==
  {TenureNonceCapacity, RequestNonceCapacity, TemporalCapacity} \subseteq Nat \ {0}
ASSUME BoundsAssumption == MaxTime \in Nat /\ MaxGeneration \in Nat \ {0}

Tenures == {r.tenure : r \in Requests}
Ops == {r.op : r \in Requests}
Lineages == {r.lineage : r \in Requests}
Slices == [revision : Nat, slice : {r.slice : r \in Requests}]
Deadlines == [generation : Nat, at : Nat]
Entries == [original : Nat, remaining : Nat, deadline : Deadlines]
Admitted == [request : Requests, deadline : Deadlines, exact_replay : BOOLEAN]
Prepared == [request : Requests, deadline : Deadlines]
Phases == {"Prepared", "Active", "Superseded"}
Operations == [request : Requests, phase : Phases]

ASSUME NoneIsNoValue == None \notin Tenures \cup Slices \cup Entries \cup Prepared \cup Operations

VARIABLES
  generation,      \* the current clock generation
  now,             \* ClockReading of that generation
  tenure_nonces,   \* AdmissionState: the proofs retained
  request_nonces,  \* AdmissionState: the requests retained
  temporal,        \* AdmissionState: the entry of each temporal lineage
  fence,           \* ApplyControlState::writer_fence, as the tenure that set it
  prepared,        \* ApplyControlState::prepared
  active,          \* ApplyControlState::active
  operations,      \* the operation journal: one record per operation id
  admitted,        \* AdmittedApply values that callers hold in memory
  ready            \* PreparationReadyFact values of the assembly engine

admission == <<tenure_nonces, request_nonces, temporal>>
control == <<fence, prepared, active, operations>>
vars == <<generation, now, admission, control, admitted, ready>>

Init ==
  /\ generation = 1
  /\ now = 0
  /\ tenure_nonces = {}
  /\ request_nonces = {}
  /\ temporal = [l \in Lineages |-> None]
  /\ fence = None
  /\ prepared = None
  /\ active = None
  /\ operations = [o \in Ops |-> None]
  /\ admitted = {}
  /\ ready = {}

(***************************************************************************)
(* Admission.                                                              *)
(***************************************************************************)
\* ensure_deadline_live: the deadline is of this clock generation and ahead.
deadline_live(d) == d.generation = generation /\ now < d.at

\* The request nonce is retained for exactly this request.
exact_replay(r) == r \in request_nonces

\* ensure_nonce_consistent for the proof, and the match on request_nonces: a
\* nonce (of the authority; of the writer) identifies one digest.
nonces_consistent(r) ==
  /\ \A t \in tenure_nonces : t.nonce = r.tenure.nonce => t = r.tenure
  /\ \A s \in request_nonces :
       s.nonce = r.nonce /\ s.tenure.writer = r.tenure.writer => s = r

\* What an exact replay must find retained (else AdmissionStateInconsistent).
replay_retained(r) ==
  /\ r.tenure \in tenure_nonces
  /\ temporal[r.lineage] # None
  /\ temporal[r.lineage].remaining <= r.remaining

\* install_temporal: the checks that every request passes.
temporal_admissible(r) ==
  /\ r.generation = generation
  /\ r.original <= MaximumBudget
  /\ r.remaining # 0
  /\ temporal[r.lineage] # None =>
       /\ temporal[r.lineage].original = r.original
       /\ temporal[r.lineage].deadline.generation = r.generation

MutBudgetNotExtended(r) ==
  temporal[r.lineage] # None => deadline_live(temporal[r.lineage].deadline)

\* install_temporal: a fresh request of a known lineage may only tighten it.
budget_not_extended(r) ==
  temporal[r.lineage] # None =>
    /\ r.remaining <= temporal[r.lineage].remaining
    /\ deadline_live(temporal[r.lineage].deadline)

MutInstalledLaterDeadline(r) ==
  [generation |-> generation, at |-> now + r.remaining]

\* install_temporal: the earlier of the lineage's deadline and the new one.
installed_deadline(r) ==
  IF temporal[r.lineage] # None /\ temporal[r.lineage].deadline.at <= now + r.remaining
  THEN temporal[r.lineage].deadline
  ELSE [generation |-> generation, at |-> now + r.remaining]

\* ensure_ledger_capacity: a key already retained needs no room.
within_capacity(r) ==
  /\ r.tenure \notin tenure_nonces => Cardinality(tenure_nonces) < TenureNonceCapacity
  /\ r \notin request_nonces => Cardinality(request_nonces) < RequestNonceCapacity
  /\ temporal[r.lineage] = None =>
       Cardinality({l \in Lineages : temporal[l] # None}) < TemporalCapacity

(***************************************************************************)
(* evaluate_writer_fence.                                                  *)
(***************************************************************************)
MutFenceAdvancesToNewer(t) == fence # None => t.epoch > fence.epoch

\* The tenure replaces the fence: there is none, or its proof supersedes the
\* fence's epoch.  Anything else is stale, in conflict or not superseding.
fence_advances(t) ==
  fence # None => t.epoch > fence.epoch /\ t.supersedes >= fence.epoch

MutAdvanceKeepsPrepared(t) ==
  /\ fence' = t
  /\ UNCHANGED <<prepared, active, operations>>

\* The fence moves to the tenure and the prepared operation of the former
\* writer is superseded with it.
advance_fence(t) ==
  /\ fence' = t
  /\ prepared' = None
  /\ operations' = [o \in Ops |->
       IF prepared # None /\ o = prepared.request.op
       THEN [request |-> prepared.request, phase |-> "Superseded"]
       ELSE operations[o]]
  /\ UNCHANGED active

\* The fence stays: the request is made under the very same tenure.
keep_fence(t) == fence = t /\ UNCHANGED control

(***************************************************************************)
(* Handlers.                                                               *)
(***************************************************************************)
\* A request seen for the first time: admit_envelope and evaluate_writer_fence,
\* persisted together.
SubmitFresh(r) ==
  /\ ~exact_replay(r)
  /\ nonces_consistent(r)
  /\ temporal_admissible(r)
  /\ budget_not_extended(r)
  /\ within_capacity(r)
  /\ deadline_live(installed_deadline(r))
  /\ \/ fence_advances(r.tenure) /\ advance_fence(r.tenure)
     \/ keep_fence(r.tenure)
  /\ tenure_nonces' = tenure_nonces \cup {r.tenure}
  /\ request_nonces' = request_nonces \cup {r}
  /\ temporal' = [temporal EXCEPT ![r.lineage] =
       [original |-> r.original, remaining |-> r.remaining,
        deadline |-> installed_deadline(r)]]
  /\ admitted' = admitted \cup
       {[request |-> r, deadline |-> installed_deadline(r), exact_replay |-> FALSE]}
  /\ UNCHANGED <<generation, now, ready>>

\* An exact replay keeps the ledgers and the fence as they are, and stays
\* answerable after its deadline.  (That the tenure of a retained request never
\* advances the fence is RetainedTenuresSuperseded.)
SubmitReplay(r) ==
  /\ exact_replay(r)
  /\ nonces_consistent(r)
  /\ replay_retained(r)
  /\ temporal_admissible(r)
  /\ keep_fence(r.tenure)
  /\ admitted' = admitted \cup
       {[request |-> r, deadline |-> temporal[r.lineage].deadline, exact_replay |-> TRUE]}
  /\ UNCHANGED <<generation, now, admission, ready>>

expected_active_matches(r) ==
  IF active = None THEN r.expected = None ELSE r.expected = active.slice

revision_advances(r) == active # None => r.revision > active.revision

MutPrepareChecksNoFence(a) ==
  /\ operations[a.request.op] = None
  /\ deadline_live(a.deadline)
  /\ expected_active_matches(a.request)
  /\ revision_advances(a.request)
  /\ prepared = None
  /\ prepared' = [request |-> a.request, deadline |-> a.deadline]
  /\ operations' = [operations EXCEPT ![a.request.op] =
       [request |-> a.request, phase |-> "Prepared"]]
  /\ UNCHANGED <<generation, now, admission, fence, active, admitted, ready>>

MutPrepareIgnoresPriorOperation(a) ==
  /\ deadline_live(a.deadline)
  /\ fence = a.request.tenure
  /\ expected_active_matches(a.request)
  /\ revision_advances(a.request)
  /\ prepared = None
  /\ prepared' = [request |-> a.request, deadline |-> a.deadline]
  /\ operations' = [operations EXCEPT ![a.request.op] =
       [request |-> a.request, phase |-> "Prepared"]]
  /\ UNCHANGED <<generation, now, admission, fence, active, admitted, ready>>

\* evaluate_prepare of an operation id not seen before.  With a record of it the
\* call replays the record or reports a conflict and changes nothing.
Prepare(a) ==
  /\ operations[a.request.op] = None
  /\ deadline_live(a.deadline)
  /\ fence = a.request.tenure
  /\ expected_active_matches(a.request)
  /\ revision_advances(a.request)
  /\ prepared = None
  /\ prepared' = [request |-> a.request, deadline |-> a.deadline]
  /\ operations' = [operations EXCEPT ![a.request.op] =
       [request |-> a.request, phase |-> "Prepared"]]
  /\ UNCHANGED <<generation, now, admission, fence, active, admitted, ready>>

\* External: the assembly engine reports readiness of the operation that was
\* prepared when it began; the report may arrive at any later time.
ReportReady ==
  /\ prepared # None
  /\ ready' = ready \cup {prepared.request}
  /\ UNCHANGED <<generation, now, admission, control, admitted>>

\* evaluate_activate of a ready fact's operation: it is the prepared one.
Activate(r) ==
  /\ prepared # None
  /\ prepared.request = r
  /\ operations[r.op] = [request |-> r, phase |-> "Prepared"]
  /\ deadline_live(prepared.deadline)
  /\ active' = [revision |-> r.revision, slice |-> r.slice]
  /\ prepared' = None
  /\ operations' = [operations EXCEPT ![r.op] = [request |-> r, phase |-> "Active"]]
  /\ UNCHANGED <<generation, now, admission, fence, admitted, ready>>

Tick ==
  /\ now' = IF now < MaxTime THEN now + 1 ELSE now
  /\ UNCHANGED <<generation, admission, control, admitted, ready>>

\* A restart recovers the admission snapshot, the control state and the operation
\* records, uses a new clock generation, and loses what was in memory.
Restart ==
  /\ generation < MaxGeneration
  /\ generation' = generation + 1
  /\ now' = 0
  /\ admitted' = {}
  /\ ready' = {}
  /\ UNCHANGED <<admission, control>>

Next ==
  \/ \E r \in Requests : SubmitFresh(r) \/ SubmitReplay(r)
  \/ \E a \in admitted : Prepare(a)
  \/ ReportReady
  \/ \E r \in ready : Activate(r)
  \/ Tick
  \/ Restart

Spec == Init /\ [][Next]_vars

(***************************************************************************)
(* Properties.                                                             *)
(***************************************************************************)
\* The shape of the state.
TypeOK ==
  /\ generation \in 1..MaxGeneration
  /\ now \in 0..MaxTime
  /\ tenure_nonces \subseteq Tenures
  /\ request_nonces \subseteq Requests
  /\ temporal \in [Lineages -> Entries \cup {None}]
  /\ fence \in Tenures \cup {None}
  /\ prepared \in Prepared \cup {None}
  /\ active \in Slices \cup {None}
  /\ operations \in [Ops -> Operations \cup {None}]
  /\ admitted \subseteq Admitted
  /\ ready \subseteq Requests

\* admit_envelope never answers AdmissionStateInconsistent: whatever was admitted
\* since, an exact replay finds its proof and its lineage retained, and within its
\* clock generation it passes every admission check again, also when the ledgers
\* are full.
ReplaysStayAdmissible ==
  \A r \in request_nonces :
    /\ replay_retained(r)
    /\ r.generation = generation => nonces_consistent(r) /\ temporal_admissible(r)

\* Every request ever admitted was made under the fence's tenure or under one that
\* the fence's proof supersedes: no writer is cut off by a proof that does not
\* cover its epoch, and a replay never moves the fence.
RetainedTenuresSuperseded ==
  \A r \in request_nonces :
    fence # None /\ (r.tenure = fence \/ r.tenure.epoch <= fence.supersedes)

\* ensure_control_state_consistent and ensure_replayed_operation_consistent never
\* answer OperationStateMismatch: the state keeps its types, the prepared operation belongs to the fence, still
\* expects the active slice, advances its revision, and is the one operation
\* recorded as Prepared.
ControlStateConsistent ==
  /\ TypeOK
  /\ active # None => fence # None
  /\ prepared # None =>
       /\ fence = prepared.request.tenure
       /\ expected_active_matches(prepared.request)
       /\ revision_advances(prepared.request)
  /\ \A o \in Ops :
       (operations[o] # None /\ operations[o].phase = "Prepared") <=>
       (prepared # None /\ prepared.request.op = o)
  /\ prepared # None => operations[prepared.request.op].request = prepared.request

\* No later request of a temporal lineage moves its deadline back or gives it
\* more budget, whenever it arrives.
DeadlinesNeverExtended ==
  [][\A l \in Lineages : temporal[l] # None =>
       /\ temporal'[l] # None
       /\ temporal'[l].deadline.generation = temporal[l].deadline.generation
       /\ temporal'[l].deadline.at <= temporal[l].deadline.at
       /\ temporal'[l].remaining <= temporal[l].remaining]_vars

\* The active slice is replaced only by a request of the writer that the fence
\* names at that moment, that named the very slice it replaces, with a greater
\* revision, in the clock generation it was made for.
ActivationIsFenced ==
  [][active' # active =>
       \E r \in request_nonces :
         /\ active' = [revision |-> r.revision, slice |-> r.slice]
         /\ r.tenure = fence
         /\ expected_active_matches(r)
         /\ revision_advances(r)
         /\ r.generation = generation]_vars

\* An operation id keeps its request for good, and an operation that ended, Active
\* or Superseded, is never revived by a replay, a new writer or a late readiness
\* report.
OperationsEndOnce ==
  [][\A o \in Ops : operations[o] # None =>
       /\ operations'[o] # None
       /\ operations'[o].request = operations[o].request
       /\ operations[o].phase # "Prepared" => operations'[o] = operations[o]]_vars

=============================================================================
