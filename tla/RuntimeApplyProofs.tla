------------------------- MODULE RuntimeApplyProofs -------------------------
(***************************************************************************)
(* What RuntimeApply promises, for every set of requests, every budget and *)
(* every capacity: its three invariants and its three action properties.   *)
(*                                                                         *)
(* None of the invariants is inductive alone.  That a replay stays         *)
(* admissible needs the ledgers to agree with each other (the lineage's    *)
(* entry was written by requests of one budget and one clock generation);  *)
(* that an activation is fenced needs to know that what is prepared, and   *)
(* every AdmittedApply a caller still holds, was admitted in the clock     *)
(* generation of its deadline.                                             *)
(***************************************************************************)
EXTENDS RuntimeApply, TLAPS

\* The retained requests, the retained proofs and the lineages' entries tell the
\* same story.
LedgersAgree ==
  /\ \A s, t \in tenure_nonces : s.nonce = t.nonce => s = t
  /\ \A r, s \in request_nonces :
       r.nonce = s.nonce /\ r.tenure.writer = s.tenure.writer => r = s
  /\ \A r \in request_nonces :
       /\ r.tenure \in tenure_nonces
       /\ r.original <= MaximumBudget
       /\ r.remaining # 0
       /\ temporal[r.lineage] # None
       /\ temporal[r.lineage].remaining <= r.remaining
       /\ temporal[r.lineage].original = r.original
       /\ temporal[r.lineage].deadline.generation = r.generation

\* What is in memory or prepared was admitted, in the generation of its deadline.
HeldIsAdmitted ==
  /\ \A a \in admitted :
       a.request \in request_nonces /\ a.deadline.generation = a.request.generation
  /\ prepared # None =>
       /\ prepared.request \in request_nonces
       /\ prepared.deadline.generation = prepared.request.generation

\* ControlStateConsistent without the types.
ControlAgrees ==
  /\ active # None => fence # None
  /\ prepared # None =>
       /\ fence = prepared.request.tenure
       /\ expected_active_matches(prepared.request)
       /\ revision_advances(prepared.request)
  /\ \A o \in Ops :
       (operations[o] # None /\ operations[o].phase = "Prepared") <=>
       (prepared # None /\ prepared.request.op = o)
  /\ prepared # None => operations[prepared.request.op].request = prepared.request

IInv ==
  /\ TypeOK
  /\ LedgersAgree
  /\ RetainedTenuresSuperseded
  /\ HeldIsAdmitted
  /\ ControlAgrees

-----------------------------------------------------------------------------
(***************************************************************************)
(* The constants and the operators.                                        *)
(***************************************************************************)

\* The fields of a request (WriterTenureClaim::try_new orders a claim's epochs).
LEMMA RequestFields ==
  ASSUME NEW r \in Requests
  PROVE  /\ r.tenure \in Tenures /\ r.op \in Ops /\ r.lineage \in Lineages
         /\ r.original \in Nat /\ r.remaining \in Nat /\ r.generation \in Nat
         /\ r.revision \in Nat
         /\ [revision |-> r.revision, slice |-> r.slice] \in Slices
BY RequestsAssumption DEF Request, Tenures, Ops, Lineages, Slices

\* A writer tenure carries a natural epoch above the one it supersedes
\* (WriterTenureClaim::try_new).
LEMMA TenureFields ==
  ASSUME NEW t \in Tenures
  PROVE  t.epoch \in Nat /\ t.supersedes \in Nat /\ t.supersedes < t.epoch /\ t # None
<1>1. PICK r \in Requests : t = r.tenure
  BY DEF Tenures
<1>2. Tenure(t)
  BY <1>1, RequestsAssumption DEF Request
<1> QED  BY <1>2, NoneIsNoValue DEF Tenure

\* install_temporal: the deadline that a request gets is of the current clock
\* generation and no later than the one its lineage had.
LEMMA InstalledDeadline ==
  ASSUME TypeOK, NEW r \in Requests, temporal_admissible(r)
  PROVE  /\ installed_deadline(r) \in Deadlines
         /\ installed_deadline(r).generation = generation
         /\ temporal[r.lineage] # None =>
              installed_deadline(r).at <= temporal[r.lineage].deadline.at
<1>0. r.lineage \in Lineages /\ r.remaining \in Nat
  BY RequestFields
<1>1. generation \in Nat /\ now \in Nat
  BY BoundsAssumption DEF TypeOK
<1>2. temporal[r.lineage] # None => temporal[r.lineage] \in Entries
  BY <1>0 DEF TypeOK
<1>3. temporal[r.lineage] # None =>
        /\ temporal[r.lineage].deadline \in Deadlines
        /\ temporal[r.lineage].deadline.generation = generation
        /\ temporal[r.lineage].deadline.at \in Nat
  BY <1>2 DEF Entries, Deadlines, temporal_admissible
<1>4. now + r.remaining \in Nat
  BY <1>0, <1>1
<1> QED  BY <1>0, <1>1, <1>3, <1>4 DEF installed_deadline, Deadlines


-----------------------------------------------------------------------------
(***************************************************************************)
(* Types.                                                                  *)
(***************************************************************************)
LEMMA TypeInit == Init => TypeOK
BY BoundsAssumption DEF Init, TypeOK

\* advance_fence and keep_fence leave the control state well typed.
LEMMA FenceTypes ==
  ASSUME TypeOK, NEW t \in Tenures, advance_fence(t) \/ keep_fence(t)
  PROVE  /\ fence' \in Tenures \cup {None}
         /\ prepared' \in Prepared \cup {None}
         /\ active' \in Slices \cup {None}
         /\ operations' \in [Ops -> Operations \cup {None}]
<1>1. CASE keep_fence(t)
  BY <1>1 DEF keep_fence, control, TypeOK
<1>2. CASE advance_fence(t)
  <2>1. prepared # None => prepared.request \in Requests
    BY DEF TypeOK, Prepared
  <2>2. prepared # None =>
          [request |-> prepared.request, phase |-> "Superseded"] \in Operations
    BY <2>1 DEF Operations, Phases
  <2>3. operations' \in [Ops -> Operations \cup {None}]
    BY <1>2, <2>2 DEF advance_fence, TypeOK
  <2> QED  BY <1>2, <2>3 DEF advance_fence, TypeOK
<1> QED  BY <1>1, <1>2

\* Every operation of ApplyState, and a restart, keeps the state well typed.
LEMMA TypeStep == TypeOK /\ [Next]_vars => TypeOK'
<1> SUFFICES ASSUME TypeOK, [Next]_vars PROVE TypeOK'
  OBVIOUS
<1>1. ASSUME NEW r \in Requests, SubmitFresh(r) PROVE TypeOK'
  <2>1. r.tenure \in Tenures /\ r.lineage \in Lineages /\ r.original \in Nat /\ r.remaining \in Nat
    BY RequestFields
  <2>2. installed_deadline(r) \in Deadlines
    BY <1>1, InstalledDeadline DEF SubmitFresh
  <2>3. [original |-> r.original, remaining |-> r.remaining,
         deadline |-> installed_deadline(r)] \in Entries
    BY <2>1, <2>2 DEF Entries
  <2>4. [request |-> r, deadline |-> installed_deadline(r), exact_replay |-> FALSE] \in Admitted
    BY <2>2 DEF Admitted
  <2>5. advance_fence(r.tenure) \/ keep_fence(r.tenure)
    BY <1>1 DEF SubmitFresh
  <2>6. temporal' \in [Lineages -> Entries \cup {None}]
    BY <1>1, <2>1, <2>3 DEF SubmitFresh, TypeOK
  <2>7. admitted' \subseteq Admitted
    BY <1>1, <2>4 DEF SubmitFresh, TypeOK
  <2>8. tenure_nonces' \subseteq Tenures /\ request_nonces' \subseteq Requests
    BY <1>1, <2>1 DEF SubmitFresh, TypeOK
  <2>9. generation' = generation /\ now' = now /\ ready' = ready
    BY <1>1 DEF SubmitFresh
  <2> QED  BY <2>1, <2>5, <2>6, <2>7, <2>8, <2>9, FenceTypes DEF TypeOK
<1>2. ASSUME NEW r \in Requests, SubmitReplay(r) PROVE TypeOK'
  <2>1. r.lineage \in Lineages
    BY RequestFields
  <2>2. temporal[r.lineage] \in Entries
    BY <1>2, <2>1 DEF SubmitReplay, replay_retained, TypeOK
  <2>3. [request |-> r, deadline |-> temporal[r.lineage].deadline, exact_replay |-> TRUE] \in Admitted
    BY <2>2 DEF Entries, Admitted
  <2> QED  BY <1>2, <2>3 DEF SubmitReplay, keep_fence, control, admission, TypeOK
<1>3. ASSUME NEW a \in admitted, Prepare(a) PROVE TypeOK'
  <2>1. a.request \in Requests /\ a.deadline \in Deadlines
    BY DEF TypeOK, Admitted
  <2>2. [request |-> a.request, deadline |-> a.deadline] \in Prepared
    BY <2>1 DEF Prepared
  <2>3. [request |-> a.request, phase |-> "Prepared"] \in Operations
    BY <2>1 DEF Operations, Phases
  <2>4. operations' \in [Ops -> Operations \cup {None}]
    BY <1>3, <2>3 DEF Prepare, TypeOK
  <2> QED  BY <1>3, <2>2, <2>4 DEF Prepare, admission, TypeOK
<1>4. ASSUME ReportReady PROVE TypeOK'
  <2>1. prepared.request \in Requests
    BY <1>4 DEF ReportReady, TypeOK, Prepared
  <2> QED  BY <1>4, <2>1 DEF ReportReady, admission, control, TypeOK
<1>5. ASSUME NEW r \in ready, Activate(r) PROVE TypeOK'
  <2>1. r \in Requests
    BY DEF TypeOK
  <2>2. [revision |-> r.revision, slice |-> r.slice] \in Slices
    BY <2>1, RequestFields
  <2>3. [request |-> r, phase |-> "Active"] \in Operations
    BY <2>1 DEF Operations, Phases
  <2>4. operations' \in [Ops -> Operations \cup {None}]
    BY <1>5, <2>3 DEF Activate, TypeOK
  <2> QED  BY <1>5, <2>2, <2>4 DEF Activate, admission, TypeOK
<1>6. ASSUME Tick PROVE TypeOK'
  BY <1>6, BoundsAssumption DEF Tick, admission, control, TypeOK
<1>7. ASSUME Restart PROVE TypeOK'
  BY <1>7, BoundsAssumption DEF Restart, admission, control, TypeOK
<1>8. ASSUME UNCHANGED vars PROVE TypeOK'
  BY <1>8 DEF vars, admission, control, TypeOK
<1> QED  BY <1>1, <1>2, <1>3, <1>4, <1>5, <1>6, <1>7, <1>8 DEF Next

-----------------------------------------------------------------------------
(***************************************************************************)
(* The inductive invariant.                                                *)
(***************************************************************************)
LEMMA InvInit == Init => IInv
BY TypeInit DEF Init, IInv, LedgersAgree, RetainedTenuresSuperseded, HeldIsAdmitted, ControlAgrees

\* A fresh request joins the ledgers: nonces_consistent, temporal_admissible and
\* budget_not_extended are what keeps them in agreement.
LEMMA FreshLedgers ==
  ASSUME IInv, NEW r \in Requests, SubmitFresh(r)
  PROVE  LedgersAgree'
<1>1. /\ r.tenure \in Tenures /\ r.lineage \in Lineages
      /\ r.original \in Nat /\ r.remaining \in Nat /\ r.generation \in Nat
  BY RequestFields
<1>2. /\ nonces_consistent(r) /\ temporal_admissible(r) /\ budget_not_extended(r)
      /\ tenure_nonces' = tenure_nonces \cup {r.tenure}
      /\ request_nonces' = request_nonces \cup {r}
      /\ temporal' = [temporal EXCEPT ![r.lineage] =
           [original |-> r.original, remaining |-> r.remaining,
            deadline |-> installed_deadline(r)]]
  BY DEF SubmitFresh
<1>3. TypeOK /\ LedgersAgree
  BY DEF IInv
<1>4. \A s, t \in tenure_nonces' : s.nonce = t.nonce => s = t
  BY <1>2, <1>3 DEF LedgersAgree, nonces_consistent
<1>5. \A q, s \in request_nonces' :
        q.nonce = s.nonce /\ q.tenure.writer = s.tenure.writer => q = s
  BY <1>2, <1>3 DEF LedgersAgree, nonces_consistent
<1>6. ASSUME NEW q \in request_nonces'
      PROVE  /\ q.tenure \in tenure_nonces'
             /\ q.original <= MaximumBudget
             /\ q.remaining # 0
             /\ temporal'[q.lineage] # None
             /\ temporal'[q.lineage].remaining <= q.remaining
             /\ temporal'[q.lineage].original = q.original
             /\ temporal'[q.lineage].deadline.generation = q.generation
  <2> DEFINE entry == [original |-> r.original, remaining |-> r.remaining,
                       deadline |-> installed_deadline(r)]
  <2>1. installed_deadline(r) \in Deadlines /\ installed_deadline(r).generation = r.generation
    BY <1>2, <1>3, InstalledDeadline DEF temporal_admissible
  <2>2. entry \in Entries /\ entry # None
    BY <1>1, <2>1, NoneIsNoValue DEF Entries
  <2>3. q \in Requests /\ q.lineage \in Lineages /\ q.remaining \in Nat
    BY <1>2, <1>3, RequestFields DEF TypeOK
  <2>4. temporal' = [temporal EXCEPT ![r.lineage] = entry] /\ DOMAIN temporal = Lineages
    BY <1>2, <1>3 DEF TypeOK
  <2>5. CASE q = r
    <3>1. temporal'[q.lineage] = entry
      BY <1>1, <2>4, <2>5
    <3> QED  BY <1>1, <1>2, <2>1, <2>2, <2>5, <3>1 DEF temporal_admissible
  <2>6. CASE q # r /\ q.lineage # r.lineage
    <3>1. q \in request_nonces /\ temporal'[q.lineage] = temporal[q.lineage]
      BY <1>2, <2>3, <2>4, <2>6
    <3> QED  BY <1>2, <1>3, <3>1 DEF LedgersAgree
  <2>7. CASE q # r /\ q.lineage = r.lineage
    <3>1. q \in request_nonces /\ temporal'[q.lineage] = entry
      BY <1>1, <1>2, <2>4, <2>7
    <3>2. /\ temporal[q.lineage] # None
          /\ temporal[q.lineage].remaining <= q.remaining
          /\ temporal[q.lineage].original = q.original
          /\ temporal[q.lineage].deadline.generation = q.generation
          /\ q.tenure \in tenure_nonces /\ q.original <= MaximumBudget /\ q.remaining # 0
      BY <1>3, <3>1 DEF LedgersAgree
    <3>3. /\ r.remaining <= temporal[q.lineage].remaining
          /\ r.original = temporal[q.lineage].original
          /\ r.generation = temporal[q.lineage].deadline.generation
      BY <1>2, <2>7, <3>2 DEF budget_not_extended, temporal_admissible
    <3>4. temporal[q.lineage].remaining \in Nat
      BY <1>3, <2>3, <3>2 DEF TypeOK, Entries
    <3>5. r.remaining <= q.remaining
      BY <1>1, <2>3, <3>2, <3>3, <3>4
    <3> QED  BY <1>2, <2>1, <2>2, <3>1, <3>2, <3>3, <3>5
  <2> QED  BY <2>5, <2>6, <2>7
<1> QED  BY <1>4, <1>5, <1>6 DEF LedgersAgree

\* evaluate_writer_fence: the proof that replaces the fence covers its epoch, and
\* with it, by transitivity, every epoch the fence covered.
LEMMA FreshTenure ==
  ASSUME IInv, NEW r \in Requests, SubmitFresh(r)
  PROVE  RetainedTenuresSuperseded'
<1>1. r.tenure \in Tenures
  BY RequestFields
<1>2. request_nonces' = request_nonces \cup {r} /\ request_nonces \subseteq Requests
  BY DEF SubmitFresh, IInv, TypeOK
<1>3. RetainedTenuresSuperseded /\ fence \in Tenures \cup {None}
  BY DEF IInv, TypeOK
<1>4. CASE keep_fence(r.tenure)
  BY <1>1, <1>2, <1>3, <1>4, TenureFields DEF keep_fence, control, RetainedTenuresSuperseded
<1>5. CASE fence_advances(r.tenure) /\ advance_fence(r.tenure)
  <2>1. fence' = r.tenure /\ fence' # None
    BY <1>1, <1>5, TenureFields DEF advance_fence
  <2>2. ASSUME NEW q \in request_nonces PROVE q.tenure.epoch <= r.tenure.supersedes
    <3>1. fence # None /\ (q.tenure = fence \/ q.tenure.epoch <= fence.supersedes)
      BY <1>3 DEF RetainedTenuresSuperseded
    <3>2. fence.epoch <= r.tenure.supersedes
      BY <1>1, <1>3, <1>5, <3>1, TenureFields DEF fence_advances
    <3>3. /\ q.tenure.epoch \in Nat /\ fence.epoch \in Nat /\ fence.supersedes \in Nat
          /\ r.tenure.supersedes \in Nat /\ fence.supersedes < fence.epoch
      BY <1>1, <1>2, <1>3, <3>1, RequestFields, TenureFields
    <3> QED  BY <3>1, <3>2, <3>3
  <2> QED  BY <1>2, <2>1, <2>2 DEF RetainedTenuresSuperseded
<1> QED  BY <1>4, <1>5 DEF SubmitFresh

\* advance_fence supersedes the prepared operation with its writer, so the fence
\* moves and the control state stays in agreement.
LEMMA FenceKeepsAgreement ==
  ASSUME IInv, NEW t \in Tenures, advance_fence(t) \/ keep_fence(t)
  PROVE  /\ ControlAgrees'
         /\ prepared' # None => prepared' = prepared
<1>1. CASE keep_fence(t)
  BY <1>1 DEF keep_fence, control, IInv, ControlAgrees, expected_active_matches, revision_advances
<1>2. CASE advance_fence(t)
  <2>1. fence' # None /\ prepared' = None /\ active' = active
    BY <1>2, TenureFields DEF advance_fence
  <2>2. ASSUME NEW o \in Ops
        PROVE  ~(operations'[o] # None /\ operations'[o].phase = "Prepared")
    <3>1. CASE prepared # None /\ o = prepared.request.op
      BY <1>2, <3>1 DEF advance_fence
    <3>2. CASE ~(prepared # None /\ o = prepared.request.op)
      <4>1. operations'[o] = operations[o]
        BY <1>2, <3>2 DEF advance_fence
      <4> QED  BY <3>2, <4>1 DEF IInv, ControlAgrees
    <3> QED  BY <3>1, <3>2
  <2> QED  BY <2>1, <2>2 DEF ControlAgrees
<1> QED  BY <1>1, <1>2

\* Every operation of ApplyState, and a restart, preserves the inductive invariant.
LEMMA InvStep == IInv /\ [Next]_vars => IInv'
<1> SUFFICES ASSUME IInv, [Next]_vars PROVE IInv'
  OBVIOUS
<1>0. TypeOK /\ TypeOK'
  BY TypeStep DEF IInv
<1>1. ASSUME NEW r \in Requests, SubmitFresh(r) PROVE IInv'
  <2>1. ControlAgrees' /\ (prepared' # None => prepared' = prepared)
    <3>1. advance_fence(r.tenure) \/ keep_fence(r.tenure)
      BY <1>1 DEF SubmitFresh
    <3> QED  BY <3>1, RequestFields, FenceKeepsAgreement
  <2>2. HeldIsAdmitted'
    <3>1. /\ installed_deadline(r).generation = generation
          /\ r.generation = generation
      BY <1>0, <1>1, InstalledDeadline DEF SubmitFresh, temporal_admissible
    <3>2. /\ request_nonces' = request_nonces \cup {r}
          /\ admitted' = admitted \cup
               {[request |-> r, deadline |-> installed_deadline(r), exact_replay |-> FALSE]}
      BY <1>1 DEF SubmitFresh
    <3>3. \A a \in admitted' :
            a.request \in request_nonces' /\ a.deadline.generation = a.request.generation
      BY <3>1, <3>2 DEF IInv, HeldIsAdmitted
    <3> QED  BY <2>1, <3>2, <3>3 DEF IInv, HeldIsAdmitted
  <2> QED  BY <1>0, <1>1, <2>1, <2>2, FreshLedgers, FreshTenure DEF IInv
<1>2. ASSUME NEW r \in Requests, SubmitReplay(r) PROVE IInv'
  <2>1. ControlAgrees'
    BY <1>2, RequestFields, FenceKeepsAgreement DEF SubmitReplay
  <2>2. HeldIsAdmitted'
    <3>1. /\ r \in request_nonces
          /\ temporal[r.lineage].deadline.generation = r.generation
          /\ request_nonces' = request_nonces /\ prepared' = prepared
          /\ admitted' = admitted \cup
               {[request |-> r, deadline |-> temporal[r.lineage].deadline, exact_replay |-> TRUE]}
      BY <1>2 DEF SubmitReplay, exact_replay, keep_fence, control, admission, IInv, LedgersAgree
    <3> QED  BY <3>1 DEF IInv, HeldIsAdmitted
  <2>3. LedgersAgree' /\ RetainedTenuresSuperseded'
    BY <1>2 DEF SubmitReplay, keep_fence, control, admission, IInv, LedgersAgree,
                RetainedTenuresSuperseded
  <2> QED  BY <1>0, <2>1, <2>2, <2>3 DEF IInv
<1>3. ASSUME NEW a \in admitted, Prepare(a) PROVE IInv'
  <2> DEFINE r == a.request
  <2>1. /\ r \in request_nonces /\ a.deadline.generation = r.generation
        /\ r \in Requests /\ r.op \in Ops
    BY <1>0, RequestFields DEF IInv, HeldIsAdmitted, TypeOK
  <2>2. /\ prepared = None /\ prepared' = [request |-> r, deadline |-> a.deadline]
        /\ operations[r.op] = None
        /\ operations' = [operations EXCEPT ![r.op] = [request |-> r, phase |-> "Prepared"]]
        /\ fence = r.tenure /\ expected_active_matches(r) /\ revision_advances(r)
        /\ fence' = fence /\ active' = active
        /\ request_nonces' = request_nonces /\ admitted' = admitted
        /\ tenure_nonces' = tenure_nonces /\ temporal' = temporal
    BY <1>3 DEF Prepare, admission
  <2>3. prepared' # None /\ [request |-> r, phase |-> "Prepared"] # None
    <3>1. prepared' \in Prepared /\ [request |-> r, phase |-> "Prepared"] \in Operations
      BY <1>0, <2>1, <2>2 DEF TypeOK, Admitted, Prepared, Operations, Phases
    <3> QED  BY <3>1, NoneIsNoValue
  <2>4. \A o \in Ops :
          (operations'[o] # None /\ operations'[o].phase = "Prepared") <=> r.op = o
    <3>1. ASSUME NEW o \in Ops, o # r.op
          PROVE  ~(operations'[o] # None /\ operations'[o].phase = "Prepared")
      BY <1>0, <2>2, <3>1 DEF IInv, ControlAgrees, TypeOK
    <3>2. operations'[r.op] = [request |-> r, phase |-> "Prepared"]
      BY <1>0, <2>1, <2>2 DEF TypeOK
    <3> QED  BY <2>3, <3>1, <3>2
  <2>5. operations'[r.op].request = r
    BY <1>0, <2>1, <2>2 DEF TypeOK
  <2>6. active' # None => fence' # None
    BY <2>2 DEF IInv, ControlAgrees
  <2>7. expected_active_matches(r)' /\ revision_advances(r)'
    BY <2>2 DEF expected_active_matches, revision_advances
  <2>8. prepared'.request = r /\ prepared'.deadline = a.deadline
    BY <2>2
  <2>9. ControlAgrees'
    BY <2>2, <2>3, <2>4, <2>5, <2>6, <2>7, <2>8 DEF ControlAgrees, expected_active_matches, revision_advances
  <2>10. HeldIsAdmitted'
    BY <2>1, <2>2, <2>8 DEF IInv, HeldIsAdmitted
  <2>11. LedgersAgree' /\ RetainedTenuresSuperseded'
    BY <2>2 DEF IInv, LedgersAgree, RetainedTenuresSuperseded
  <2> QED  BY <1>0, <2>9, <2>10, <2>11 DEF IInv
<1>4. ASSUME ReportReady PROVE IInv'
  BY <1>0, <1>4 DEF ReportReady, admission, control, IInv, LedgersAgree, RetainedTenuresSuperseded,
                    HeldIsAdmitted, ControlAgrees, expected_active_matches, revision_advances
<1>5. ASSUME NEW r \in ready, Activate(r) PROVE IInv'
  <2>1. /\ prepared # None /\ prepared.request = r
        /\ prepared' = None
        /\ operations' = [operations EXCEPT ![r.op] = [request |-> r, phase |-> "Active"]]
        /\ fence' = fence /\ admitted' = admitted
        /\ request_nonces' = request_nonces /\ tenure_nonces' = tenure_nonces
        /\ temporal' = temporal
    BY <1>5 DEF Activate, admission
  <2>2. fence # None
    <3>1. fence = r.tenure
      BY <2>1 DEF IInv, ControlAgrees
    <3>2. r.tenure \in Tenures
      BY <1>0, RequestFields DEF TypeOK
    <3> QED  BY <3>1, <3>2, TenureFields
  <2>3. \A o \in Ops : ~(operations'[o] # None /\ operations'[o].phase = "Prepared")
    <3>1. ASSUME NEW o \in Ops, o # r.op
          PROVE  ~(operations'[o] # None /\ operations'[o].phase = "Prepared")
      BY <1>0, <2>1, <3>1 DEF IInv, ControlAgrees, TypeOK
    <3>2. r.op \in Ops => operations'[r.op] = [request |-> r, phase |-> "Active"]
      BY <1>0, <2>1 DEF TypeOK
    <3> QED  BY <3>1, <3>2
  <2>4. ControlAgrees'
    BY <2>1, <2>2, <2>3 DEF ControlAgrees
  <2>5. HeldIsAdmitted' /\ LedgersAgree' /\ RetainedTenuresSuperseded'
    BY <2>1 DEF IInv, HeldIsAdmitted, LedgersAgree, RetainedTenuresSuperseded
  <2> QED  BY <1>0, <2>4, <2>5 DEF IInv
<1>6. ASSUME Tick PROVE IInv'
  BY <1>0, <1>6 DEF Tick, admission, control, IInv, LedgersAgree, RetainedTenuresSuperseded,
                    HeldIsAdmitted, ControlAgrees, expected_active_matches, revision_advances
<1>7. ASSUME Restart PROVE IInv'
  BY <1>0, <1>7 DEF Restart, admission, control, IInv, LedgersAgree, RetainedTenuresSuperseded,
                    HeldIsAdmitted, ControlAgrees, expected_active_matches, revision_advances
<1>8. ASSUME UNCHANGED vars PROVE IInv'
  BY <1>0, <1>8 DEF vars, admission, control, IInv, LedgersAgree, RetainedTenuresSuperseded,
                    HeldIsAdmitted, ControlAgrees, expected_active_matches, revision_advances
<1> QED  BY <1>1, <1>2, <1>3, <1>4, <1>5, <1>6, <1>7, <1>8 DEF Next

\* The ledgers, the fence, the prepared operation and what callers hold agree in
\* every reachable state of ApplyState.
THEOREM Invariance == Spec => []IInv
BY InvInit, InvStep, PTL DEF Spec

-----------------------------------------------------------------------------
(***************************************************************************)
(* The properties.                                                         *)
(***************************************************************************)

\* An exact replay of a request that was ever admitted passes admit_envelope
\* again within its clock generation, and never meets AdmissionStateInconsistent,
\* whatever other requests were admitted and however full the ledgers are.
THEOREM ReplayAdmissible == Spec => []ReplaysStayAdmissible
<1>1. IInv => ReplaysStayAdmissible
  <2> SUFFICES ASSUME IInv, NEW r \in request_nonces
               PROVE  /\ replay_retained(r)
                      /\ r.generation = generation => nonces_consistent(r) /\ temporal_admissible(r)
    BY DEF ReplaysStayAdmissible
  <2>1. replay_retained(r)
    BY DEF IInv, LedgersAgree, replay_retained
  <2>2. nonces_consistent(r)
    BY DEF IInv, LedgersAgree, nonces_consistent
  <2>3. r.generation = generation => temporal_admissible(r)
    BY DEF IInv, LedgersAgree, temporal_admissible
  <2> QED  BY <2>1, <2>2, <2>3
<1> QED  BY <1>1, Invariance, PTL

\* evaluate_writer_fence: the fence's proof covers the epoch of every request
\* that was ever admitted.
THEOREM FenceCoversAdmitted == Spec => []RetainedTenuresSuperseded
<1>1. IInv => RetainedTenuresSuperseded
  BY DEF IInv
<1> QED  BY <1>1, Invariance, PTL

\* ensure_control_state_consistent and ensure_replayed_operation_consistent
\* never fail.
THEOREM ControlConsistent == Spec => []ControlStateConsistent
<1>1. IInv => ControlStateConsistent
  BY DEF IInv, ControlAgrees, ControlStateConsistent
<1> QED  BY <1>1, Invariance, PTL

\* install_temporal only ever tightens a lineage: deadline and budget.
THEOREM DeadlinesTighten == Spec => DeadlinesNeverExtended
<1> DEFINE Tighter(l) == temporal[l] # None =>
             /\ temporal'[l] # None
             /\ temporal'[l].deadline.generation = temporal[l].deadline.generation
             /\ temporal'[l].deadline.at <= temporal[l].deadline.at
             /\ temporal'[l].remaining <= temporal[l].remaining
<1>1. IInv /\ [Next]_vars => [\A l \in Lineages : Tighter(l)]_vars
  <2> SUFFICES ASSUME IInv, Next, NEW l \in Lineages PROVE Tighter(l)
    BY DEF vars
  <2>1. temporal[l] # None =>
          temporal[l].deadline.at \in Nat /\ temporal[l].remaining \in Nat
    BY DEF IInv, TypeOK, Entries, Deadlines
  <2>2. ASSUME NEW r \in Requests, SubmitFresh(r) PROVE Tighter(l)
    <3> DEFINE entry == [original |-> r.original, remaining |-> r.remaining,
                         deadline |-> installed_deadline(r)]
    <3>1. CASE l # r.lineage
      BY <2>1, <2>2, <3>1 DEF SubmitFresh, IInv, TypeOK
    <3>2. CASE l = r.lineage /\ temporal[l] # None
      <4>1. temporal'[l] = entry
        BY <2>2, <3>2 DEF SubmitFresh, IInv, TypeOK
      <4>2. /\ installed_deadline(r) \in Deadlines
            /\ installed_deadline(r).generation = generation
            /\ installed_deadline(r).at <= temporal[l].deadline.at
        BY <2>2, <3>2, InstalledDeadline DEF SubmitFresh, IInv
      <4>3. temporal[l].deadline.generation = generation /\ r.remaining <= temporal[l].remaining
        BY <2>2, <3>2 DEF SubmitFresh, temporal_admissible, budget_not_extended
      <4>4. entry # None
        <5>1. r.original \in Nat /\ r.remaining \in Nat
          BY RequestFields
        <5> QED  BY <4>2, <5>1, NoneIsNoValue DEF Entries
      <4> QED  BY <4>1, <4>2, <4>3, <4>4
    <3> QED  BY <3>1, <3>2
  <2>3. ASSUME temporal' = temporal PROVE Tighter(l)
    BY <2>1, <2>3
  <2> QED  BY <2>2, <2>3 DEF Next, SubmitReplay, Prepare, ReportReady, Activate, Tick, Restart, admission
<1> QED  BY <1>1, Invariance, PTL DEF Spec, DeadlinesNeverExtended

\* evaluate_activate: the active slice changes only under the current writer's
\* fence, from the slice that writer named, in the clock generation of the request.
THEOREM FencedActivation == Spec => ActivationIsFenced
<1> DEFINE Fenced == active' # active =>
             \E r \in request_nonces :
               /\ active' = [revision |-> r.revision, slice |-> r.slice]
               /\ r.tenure = fence
               /\ expected_active_matches(r)
               /\ revision_advances(r)
               /\ r.generation = generation
<1>1. IInv /\ [Next]_vars => [Fenced]_vars
  <2> SUFFICES ASSUME IInv, Next PROVE Fenced
    BY DEF vars
  <2>1. ASSUME NEW r \in ready, Activate(r) PROVE Fenced
    <3>1. /\ prepared # None /\ prepared.request = r
          /\ active' = [revision |-> r.revision, slice |-> r.slice]
          /\ prepared.deadline.generation = generation
      BY <2>1 DEF Activate, deadline_live
    <3>2. /\ r \in request_nonces /\ r.generation = generation
          /\ r.tenure = fence /\ expected_active_matches(r) /\ revision_advances(r)
      BY <3>1 DEF IInv, HeldIsAdmitted, ControlAgrees
    <3> QED  BY <3>1, <3>2
  <2>2. ASSUME active' = active PROVE Fenced
    BY <2>2
  <2> QED  BY <2>1, <2>2 DEF Next, SubmitFresh, SubmitReplay, advance_fence, keep_fence, control,
                         Prepare, ReportReady, Tick, Restart
<1> QED  BY <1>1, Invariance, PTL DEF Spec, ActivationIsFenced

\* The operation journal: an operation keeps its request, and once Active or
\* Superseded it stays so.
THEOREM OperationsSettle == Spec => OperationsEndOnce
<1> DEFINE Kept(o) == operations[o] # None =>
             /\ operations'[o] # None
             /\ operations'[o].request = operations[o].request
             /\ operations[o].phase # "Prepared" => operations'[o] = operations[o]
<1>1. IInv /\ [Next]_vars => [\A o \in Ops : Kept(o)]_vars
  <2> SUFFICES ASSUME IInv, Next, NEW o \in Ops PROVE Kept(o)
    BY DEF vars
  <2>0. operations \in [Ops -> Operations \cup {None}]
    BY DEF IInv, TypeOK
  <2>1. ASSUME NEW t, advance_fence(t) PROVE Kept(o)
    <3>1. CASE prepared # None /\ o = prepared.request.op
      <4>1. /\ operations[o].phase = "Prepared" /\ operations[o].request = prepared.request
            /\ prepared.request \in Requests
        BY <3>1 DEF IInv, ControlAgrees, TypeOK, Prepared
      <4>2. operations'[o] = [request |-> prepared.request, phase |-> "Superseded"]
        BY <2>1, <3>1 DEF advance_fence
      <4>3. operations'[o] # None
        BY <4>1, <4>2, NoneIsNoValue DEF Operations, Phases
      <4> QED  BY <4>1, <4>2, <4>3
    <3>2. CASE ~(prepared # None /\ o = prepared.request.op)
      BY <2>1, <3>2 DEF advance_fence
    <3> QED  BY <3>1, <3>2
  <2>2. ASSUME NEW a \in admitted, Prepare(a) PROVE Kept(o)
    BY <2>0, <2>2 DEF Prepare
  <2>3. ASSUME NEW r \in ready, Activate(r) PROVE Kept(o)
    <3>1. [request |-> r, phase |-> "Active"] # None
      BY NoneIsNoValue DEF Operations, Phases, IInv, TypeOK
    <3> QED  BY <2>0, <2>3, <3>1 DEF Activate
  <2>4. ASSUME operations' = operations PROVE Kept(o)
    BY <2>4
  <2> QED  BY <2>1, <2>2, <2>3, <2>4 DEF Next, SubmitFresh, SubmitReplay, keep_fence, control,
                                     ReportReady, Tick, Restart
<1> QED  BY <1>1, Invariance, PTL DEF Spec, OperationsEndOnce

=============================================================================
