----------------------------- MODULE RuntimeCodec -----------------------------
(* The file of the runtime's journal, payload versions 3 to 5, and the two    *)
(* migrations.  What the journal's records leave out (pins of the build, wall *)
(* clock times, digests) is written as a constant; an operation stands for    *)
(* its request, slice, provenance and lineage, so that each field taken from  *)
(* them is the operation again.                                               *)
EXTENDS RuntimeJournal, StoreCodec

MAX_RUNTIME_JOURNAL_SNAPSHOT_BYTES == 16 * 1024 * 1024
RUNTIME_JOURNAL_MAGIC == "PXJR"
RUNTIME_JOURNAL_ENVELOPE_VERSION == 1
RUNTIME_JOURNAL_OWNER_KIND == 3
RUNTIME_JOURNAL_CHECKSUM_PROFILE == <<1, 1>>
RUNTIME_JOURNAL_LEGACY_PAYLOAD_VERSION == 3
RUNTIME_JOURNAL_PAYLOAD_V4 == 4
RUNTIME_JOURNAL_PAYLOAD_VERSION == 5
HEADER_WITHOUT_CHECKSUM_BYTES == 94
HEADER_BYTES == HEADER_WITHOUT_CHECKSUM_BYTES + 32
OpaqueBytes == 512

(* The one source scope of a store.                                           *)
Scope == "scope"

HasProvenance(v) == v >= RUNTIME_JOURNAL_PAYLOAD_V4
Legacy(v) == v = RUNTIME_JOURNAL_LEGACY_PAYLOAD_VERSION

-----------------------------------------------------------------------------
(* The values a one-byte field may hold.                                      *)
JournalActionKind == {"Start", "DrainToEmpty", "RestartReassembly"}
CallbackOutcome == {"NotInvoked", "KnownSuccess", "KnownError", "Panicked", "UnknownAfterIntent"}
DeadlineOutcome == {"NotObserved", "TimedOut", "Cancelled"}
CleanupOutcome == {"NotObserved", "ExactZero", "Uncertain"}
PreparedPhase == {"PreparedNoEffects", "FirstActionIntent", "HeadCommittedRetiringOld",
    "SupersededBeforeEffects", "SupersededReconcileRequired", "StartupExpiredNoEffects",
    "StartupReconcileRequired"}
DesiredHeadKind == {"OneSourceLoop", "EmptyDeactivate"}
StartupRecoveryEligibility == {"NoActiveHead", "CanonicalEmptyExactZero", "EligibleOneSourceLoop",
    "RecoveryFailureLatched", "ReconcileRequired"}
RecoveryPhase == {"RecoveryPlannedNoEffects", "StartCallIntent", "StartupInvalidatedNoEffects",
    "StartupReconcileRequired"}
ResourceKind == {"LoopDomain", "CardInstance"}
ResourcePhase(v) == {"Reserved", "Owned", "CleanupPending", "Terminal"}
    \union (IF v = RUNTIME_JOURNAL_PAYLOAD_VERSION THEN {"ReservedAtCrashExactZero"} ELSE {})
TerminalOutcome == {"OneSourceLoopActive", "EmptyDeactivateExactZero",
    "StartTimedOutBeforeIntentNoEffects", "StopTimedOutBeforeHeadCommitNoEffects",
    "StartFailedBeforeHeadCommitExactZero", "StartTimedOutBeforeHeadCommitExactZero",
    "StopFailedButExactZero", "TimedOutButExactZero", "AbortedBeforeIntentNoEffects",
    "AbortedBeforeHeadCommitExactZero", "SupersededAfterIntentExactZero", "InterruptedButNowExactZero"}
TerminalLifecycleEffect == {"ProvenNotStarted", "MayHaveStarted"}

-----------------------------------------------------------------------------
(* Encoder and Cursor, beyond StoreCodec's.                                   *)
digest(x) == fixed(32, x)
ref16(x) == fixed(16, x)
boolean(b) == u8(b)
opaque(x) == append_bytes(OpaqueBytes, x) \o digest(x)
encode_optional(width, x) == IF x = None THEN u8(0) ELSE u8(1) \o fixed(width, x)
optional_opaque(present, x) == IF present THEN u8(1) \o opaque(x) ELSE u8(0)
presence(x, bytes) == IF x = None THEN u8(0) ELSE u8(1) \o bytes

count_all(s, Write(_)) == append_counted(2, s, Write)
read_all(maximum, c, Read(_)) == counted_in(2, maximum, c, Read)

decode_optional(width, c) == optional(None, c, LAMBDA r : {Got(g.v[1], g.rest) : g \in take(<<width>>, r)})
read_opaque(c) ==
    UNION {{Got(b.v, d.rest) : d \in {x \in take(<<32>>, b.rest) : x.v[1] = b.v}} :
           b \in bounded_bytes(OpaqueBytes, c)}
read_optional_opaque(c) == optional(None, c, read_opaque)

-----------------------------------------------------------------------------
(* Actions, latches, selections.                                              *)
encode_action(a) ==
    ref16(a.id) \o u8(a.kind) \o u64(a.epoch) \o u64(a.epoch) \o u64(a.generation) \o u64(a.generation)
        \o u64(a.generation)
decode_action(c) ==
    {Got(Action(g.v[1], g.v[2], g.v[3], g.v[5]), g.rest) :
     g \in {x \in take(<<16, 1, 8, 8, 8, 8, 8>>, c) : x.v[2] \in JournalActionKind}}

encode_optional_action(a) == IF a = None THEN u8(0) ELSE u8(1) \o encode_action(a)
decode_optional_action(c) == optional(None, c, decode_action)

Reason(raw) == IF raw.callback \in {"KnownError", "Panicked"} THEN raw.callback ELSE None
CleanupEvidence(raw) == IF raw.cleanup = "NotObserved" THEN None ELSE raw.cleanup

encode_raw_outcome(raw) ==
    u8(raw.callback) \o encode_optional(32, Reason(raw)) \o u8(raw.deadline) \o u64(raw.gen)
        \o u64(raw.deadline # "NotObserved") \o boolean(raw.interrupted) \o boolean(raw.takeover)
        \o u8(raw.cleanup) \o encode_optional(32, CleanupEvidence(raw))
decode_raw_outcome(c) ==
    and_then(take(<<1>>, c), LAMBDA g :
    and_then(decode_optional(32, g.rest), LAMBDA d :
    and_then(take(<<1, 8, 8, 1, 1, 1>>, d.rest), LAMBDA h :
    and_then(decode_optional(32, h.rest), LAMBDA e :
        {Got(raw, e.rest) :
         raw \in {r \in {[callback |-> g.v[1], deadline |-> h.v[1], gen |-> h.v[2], interrupted |-> h.v[4],
                          takeover |-> h.v[5], cleanup |-> h.v[6]]} :
                  /\ r.callback \in CallbackOutcome /\ r.deadline \in DeadlineOutcome
                  /\ r.cleanup \in CleanupOutcome
                  /\ Reason(r) = d.v /\ CleanupEvidence(r) = e.v}}))))

encode_optional_raw_outcome(raw) == IF raw = None THEN u8(0) ELSE u8(1) \o encode_raw_outcome(raw)
decode_optional_raw_outcome(c) == optional(None, c, decode_raw_outcome)

encode_terminal_selection(s) ==
    u8(s.primary) \o encode_raw_outcome(s.raw) \o u64(s.gen) \o u64(s.late) \o u8(s.effect)
decode_terminal_selection(c) ==
    and_then(take(<<1>>, c), LAMBDA g :
    and_then(decode_raw_outcome(g.rest), LAMBDA r :
        {Got([primary |-> g.v[1], raw |-> r.v, gen |-> h.v[1], late |-> h.v[2], effect |-> h.v[3]], h.rest) :
         h \in {x \in take(<<8, 8, 1>>, r.rest) :
                g.v[1] \in TerminalOutcome /\ x.v[3] \in TerminalLifecycleEffect}}))

(* A provenance is the slice it commits to: its own digest must say so.       *)
encode_slice_provenance(op) ==
    ref16(Scope) \o ref16(Scope) \o ref16(op) \o u64(Revision(op)) \o digest(op) \o digest(op) \o digest(op)
decode_slice_provenance(c) ==
    {Got(g.v[7], g.rest) :
     g \in {x \in take(<<16, 16, 16, 8, 32, 32, 32>>, c) :
            x.v[3] = x.v[7] /\ x.v[5] = x.v[7] /\ x.v[6] = x.v[7] /\ x.v[4] # 0}}

encode_store_pinned_build_identity == digest("build") \o digest("descriptor") \o digest("artifact") \o digest("compat")
decode_store_pinned_build_identity(c) == take(<<32, 32, 32, 32>>, c)

-----------------------------------------------------------------------------
(* Live views: a variant is its number, then its own fields.                  *)
encode_live_materialization(l) ==
    CASE l.tag = "None" -> u8(0)
      [] l.tag = "StartupInvalidated" ->
            u8(1) \o encode_optional(32, l.slice) \o u64(l.epoch) \o u64(l.epoch) \o u8(l.eligibility)
                \o digest("invalidation") \o encode_optional(32, l.failure) \o digest(l.census)
      [] l.tag = "Recovering" ->
            u8(2) \o digest(l.slice) \o ref16(l.id) \o u64(l.generation) \o digest(l.census)
      [] l.tag = "LiveReady" ->
            u8(3) \o digest(l.slice) \o u64(l.epoch) \o u64(l.generation) \o digest(l.census)
      [] l.tag = "RecoveryFailedNotReady" ->
            u8(4) \o digest(l.slice) \o ref16(l.id) \o digest(l.failure) \o digest(l.census)
      [] l.tag = "Draining" ->
            u8(5) \o digest(l.slice) \o ref16(l.slice) \o ref16(l.id) \o u64(l.generation) \o digest(l.census)
      [] l.tag = "ExactZero" -> u8(6) \o digest(l.slice) \o digest(l.census)
      [] l.tag = "Quarantined" ->
            u8(7) \o encode_optional(32, l.slice) \o digest(l.failure) \o digest(l.census)

decode_startup_invalidated(c) ==
    and_then(decode_optional(32, c), LAMBDA s :
    and_then(take(<<8, 8, 1, 32>>, s.rest), LAMBDA g :
    and_then(decode_optional(32, g.rest), LAMBDA f :
        {Got([Live("StartupInvalidated", s.v, h.v[1]) EXCEPT !.epoch = g.v[1], !.eligibility = g.v[3],
                                                             !.failure = f.v], h.rest) :
         h \in {x \in take(<<32>>, f.rest) : g.v[3] \in StartupRecoveryEligibility}})))

decode_quarantined(c) ==
    and_then(decode_optional(32, c), LAMBDA s :
        {Got([Live("Quarantined", s.v, g.v[2]) EXCEPT !.failure = g.v[1]], g.rest) : g \in take(<<32, 32>>, s.rest)})

MutLiveReadySwapsGenerations(c) ==
    {Got([Live("LiveReady", g.v[1], g.v[4]) EXCEPT !.epoch = g.v[3], !.generation = g.v[2]], g.rest) :
     g \in take(<<32, 8, 8, 32>>, c)}
decode_live_ready(c) ==
    {Got([Live("LiveReady", g.v[1], g.v[4]) EXCEPT !.epoch = g.v[2], !.generation = g.v[3]], g.rest) :
     g \in take(<<32, 8, 8, 32>>, c)}

LiveVariant(n, c) ==
    CASE n = 0 -> {Got(NoLive, c)}
      [] n = 1 -> decode_startup_invalidated(c)
      [] n = 2 -> {Got([Live("Recovering", g.v[1], g.v[4]) EXCEPT !.id = g.v[2], !.generation = g.v[3]], g.rest) :
                   g \in take(<<32, 16, 8, 32>>, c)}
      [] n = 3 -> decode_live_ready(c)
      [] n = 4 -> {Got([Live("RecoveryFailedNotReady", g.v[1], g.v[4]) EXCEPT !.id = g.v[2],
                                                                              !.failure = g.v[3]], g.rest) :
                   g \in take(<<32, 16, 32, 32>>, c)}
      [] n = 5 -> {Got([Live("Draining", g.v[1], g.v[5]) EXCEPT !.id = g.v[3], !.generation = g.v[4]], g.rest) :
                   g \in take(<<32, 16, 16, 8, 32>>, c)}
      [] n = 6 -> {Got(Live("ExactZero", g.v[1], g.v[2]), g.rest) : g \in take(<<32, 32>>, c)}
      [] n = 7 -> decode_quarantined(c)
      [] OTHER -> {}

decode_live_materialization(c) == and_then(take(<<1>>, c), LAMBDA g : LiveVariant(g.v[1], g.rest))

-----------------------------------------------------------------------------
(* Recoveries, prepared operations, heads, resources.                         *)
Provenance(op, v) == IF HasProvenance(v) THEN encode_slice_provenance(op) ELSE <<>>

encode_recovery_action(r, v) ==
    encode_action(r.action) \o ref16(Scope) \o u64(Revision(r.op)) \o digest(r.op) \o Provenance(r.op, v)
        \o digest(r.op) \o digest("manifest") \o encode_store_pinned_build_identity \o digest("build")
        \o digest("compat") \o u64("budget") \o u64("deadline") \o digest("deadline") \o u8(r.phase)
        \o encode_optional_raw_outcome(r.raw)
decode_recovery_action(c) ==
    and_then(decode_action(c), LAMBDA a :
    and_then(take(<<16, 8, 32>>, a.rest), LAMBDA g :
    and_then(decode_slice_provenance(g.rest), LAMBDA p :
    and_then(take(<<32, 32>>, p.rest), LAMBDA s :
    and_then(decode_store_pinned_build_identity(s.rest), LAMBDA b :
    and_then(take(<<32, 32, 8, 8, 32, 1>>, b.rest), LAMBDA h :
        {Got([action |-> a.v, op |-> s.v[1], phase |-> h.v[6], raw |-> r.v], r.rest) :
         r \in {x \in decode_optional_raw_outcome(h.rest) : p.v = s.v[1] /\ h.v[6] \in RecoveryPhase}}))))))

encode_retiring(r, v) ==
    opaque(r.op) \o Provenance(r.op, v) \o digest(r.op) \o digest("manifest") \o u64("budget") \o u64("budget")
        \o u64("budget") \o u64(r.epoch) \o u64(r.epoch) \o u64(r.generation) \o digest(r.census)
decode_retiring(v, c) ==
    IF Legacy(v) THEN {} ELSE
    and_then(read_opaque(c), LAMBDA s :
    and_then(decode_slice_provenance(s.rest), LAMBDA p :
        {Got([op |-> s.v, epoch |-> g.v[6], generation |-> g.v[8], census |-> g.v[9]], g.rest) :
         g \in {x \in take(<<32, 32, 8, 8, 8, 8, 8, 8, 32>>, p.rest) : p.v = s.v}}))

encode_expected_active(slice) == encode_optional(32, slice)
decode_expected_active(c) == decode_optional(32, c)

encode_durable_channel(v) ==
    IF v = RUNTIME_JOURNAL_PAYLOAD_VERSION
    THEN ref16(Scope) \o ref16("peer") \o digest("endpoint") \o digest("peer") ELSE <<>>
decode_durable_channel(v, c) ==
    IF v = RUNTIME_JOURNAL_PAYLOAD_VERSION THEN take(<<16, 16, 32, 32>>, c) ELSE {Got(None, c)}

(* Version 3 wrote no provenance of a prepared operation; it is taken from    *)
(* the request.                                                               *)
durable_provenance_from_prepared_v3(request, c) == {Got(request, c)}
decode_prepared_provenance(v, request, c) ==
    IF HasProvenance(v) THEN decode_slice_provenance(c) ELSE durable_provenance_from_prepared_v3(request, c)

encode_prepared(p, v) ==
    ref16(Scope) \o ref16(p.op) \o u64(Revision(p.op)) \o opaque(p.op) \o Provenance(p.op, v) \o digest(<<p.op, p.gen>>)
        \o digest(p.op) \o digest(p.op) \o u8(Kind(p.op)) \o digest("manifest")
        \o encode_expected_active(Request[p.op].expected) \o ref16(p.op) \o digest(<<p.op, p.gen>>) \o u64(p.gen)
        \o u64("deadline") \o encode_durable_channel(v) \o u8(p.phase) \o encode_optional_action(p.action)
        \o presence(p.retiring, IF p.retiring = None THEN <<>> ELSE encode_retiring(p.retiring, v))
        \o encode_optional_raw_outcome(p.raw)
decode_prepared(v, c) ==
    and_then(take(<<16, 16, 8>>, c), LAMBDA g :
    and_then(read_opaque(g.rest), LAMBDA q :
    and_then(decode_prepared_provenance(v, q.v, q.rest), LAMBDA p :
    and_then(take(<<32, 32, 32, 1, 32>>, p.rest), LAMBDA h :
    and_then(decode_expected_active(h.rest), LAMBDA e :
    and_then(take(<<16, 32, 8, 8>>, e.rest), LAMBDA t :
    and_then(decode_durable_channel(v, t.rest), LAMBDA n :
    and_then(take(<<1>>, n.rest), LAMBDA f :
    and_then(decode_optional_action(f.rest), LAMBDA a :
    and_then(optional(None, a.rest, LAMBDA r : decode_retiring(v, r)), LAMBDA o :
        {Got([op |-> q.v, gen |-> t.v[3], phase |-> f.v[1], action |-> a.v, retiring |-> o.v, raw |-> r.v], r.rest) :
         r \in {x \in decode_optional_raw_outcome(o.rest) :
                /\ p.v = h.v[3] /\ Revision(p.v) = g.v[3] /\ p.v = h.v[2]
                /\ h.v[4] \in DesiredHeadKind /\ f.v[1] \in PreparedPhase}}))))))))))

encode_active(a, v) ==
    u8(Kind(a.op)) \o ref16(Scope) \o u64(Revision(a.op)) \o opaque(a.op) \o Provenance(a.op, v) \o digest(a.op)
        \o digest("manifest") \o ref16(a.op) \o encode_optional(32, IF a.committed THEN a.op ELSE None)
decode_active(v, c) ==
    IF Legacy(v) THEN {} ELSE
    and_then(take(<<1, 16, 8>>, c), LAMBDA g :
    and_then(read_opaque(g.rest), LAMBDA s :
    and_then(decode_slice_provenance(s.rest), LAMBDA p :
    and_then(take(<<32, 32, 16>>, p.rest), LAMBDA h :
        {Got([op |-> h.v[3], committed |-> r.v # None], r.rest) :
         r \in {x \in decode_optional(32, h.rest) : g.v[1] \in DesiredHeadKind /\ p.v = s.v}}))))

(* The pair a record stands for is two of the file's; which evidence each has *)
(* follows from its phase.                                                    *)
HasIdentity(phase) == phase \notin {"Reserved", "ReservedAtCrashExactZero"}
encode_resource(kind, r) ==
    u8(kind) \o ref16(kind) \o u64(r.generation) \o u64(r.epoch) \o u8(r.phase) \o encode_optional(16, r.action)
        \o optional_opaque(HasIdentity(r.phase), "os") \o optional_opaque(HasIdentity(r.phase), "workspace")
        \o optional_opaque(HasIdentity(r.phase), "containment")
        \o optional_opaque(terminal_phase(r.phase), "tombstone")
validate_resource_evidence(phase, os, workspace, containment, tombstone) ==
    /\ \A e \in {os, workspace, containment} : (e # None) = HasIdentity(phase)
    /\ (tombstone # None) = terminal_phase(phase)
decode_resource(v, c) ==
    and_then(take(<<1, 16, 8, 8, 1>>, c), LAMBDA g :
    and_then(decode_optional(16, g.rest), LAMBDA a :
    and_then(read_optional_opaque(a.rest), LAMBDA o :
    and_then(read_optional_opaque(o.rest), LAMBDA w :
    and_then(read_optional_opaque(w.rest), LAMBDA k :
        {Got([kind |-> g.v[1], generation |-> g.v[3], epoch |-> g.v[4], phase |-> g.v[5], action |-> a.v], t.rest) :
         t \in {x \in read_optional_opaque(k.rest) :
                /\ g.v[1] \in ResourceKind /\ g.v[5] \in ResourcePhase(v)
                /\ validate_resource_evidence(g.v[5], o.v, w.v, k.v, x.v)}})))))

(* The two records of every pair.                                             *)
ResourceRecords(resources) ==
    Flattened([i \in 1..Cardinality(resources) |->
        LET r == SetToSeq(resources)[i] IN <<<<"LoopDomain", r>>, <<"CardInstance", r>>>>])
Pairs(records) ==
    {[generation |-> r.generation, epoch |-> r.epoch, phase |-> r.phase, action |-> r.action] : r \in ToSet(records)}
ArePairs(records) == Len(records) = 2 * Cardinality(Pairs(records))

-----------------------------------------------------------------------------
(* Completions.  The file keeps operations and recoveries apart; the sequence *)
(* of the snapshot that completed each one puts them back in order.           *)
Places(j, tag) == SelectSeq([i \in DOMAIN j.completed |-> i], LAMBDA i : j.completed[i].tag = tag)

encode_recovery_terminal(t, sequence, v) ==
    encode_recovery_action(t.recovery, v) \o encode_terminal_selection(t.selection) \o digest(t.census)
        \o encode_optional(32, t.failure) \o u64(t.epoch) \o u64(sequence)
decode_recovery_terminal(c) ==
    and_then(decode_recovery_action(c), LAMBDA r :
    and_then(decode_terminal_selection(r.rest), LAMBDA s :
    and_then(take(<<32>>, s.rest), LAMBDA n :
    and_then(decode_optional(32, n.rest), LAMBDA f :
        {Got([at |-> g.v[2],
              t |-> [tag |-> "Recovery", recovery |-> r.v, selection |-> s.v, census |-> n.v[1], epoch |-> g.v[1],
                     failure |-> f.v]], g.rest) : g \in take(<<8, 8>>, f.rest)}))))

encode_head_disposition(h) == IF h.commits THEN u8(2) ELSE encode_optional(32, h.slice)
decode_head_disposition(op, c) ==
    and_then(take(<<1>>, c), LAMBDA g :
        IF g.v[1] = 2 THEN {Got(Committed(op), g.rest)}
        ELSE {Got([commits |-> FALSE, slice |-> d.v], d.rest) : d \in decode_optional(32, c)})

encode_terminal_operation(t, sequence, v) ==
    ref16(Scope) \o ref16(t.op) \o digest(t.op) \o digest(<<t.op, t.gen>>) \o Provenance(t.op, v) \o u64(Revision(t.op))
        \o digest(t.op) \o digest(t.op) \o ref16(t.op) \o digest(<<t.op, t.gen>>) \o u8(Kind(t.op)) \o u8(t.phase)
        \o u64(t.gen) \o u64("deadline") \o encode_optional_action(t.action) \o encode_optional_raw_outcome(t.before)
        \o encode_terminal_selection(t.selection) \o encode_head_disposition(t.head) \o digest(t.census)
        \o digest(t.op) \o opaque(t.op) \o u64(t.epoch) \o u64(sequence)
decode_terminal_operation(c) ==
    and_then(take(<<16, 16, 32, 32>>, c), LAMBDA g :
    and_then(decode_slice_provenance(g.rest), LAMBDA p :
    and_then(take(<<8, 32, 32, 16, 32, 1, 1, 8, 8>>, p.rest), LAMBDA h :
    and_then(decode_optional_action(h.rest), LAMBDA a :
    and_then(decode_optional_raw_outcome(a.rest), LAMBDA b :
    and_then(decode_terminal_selection(b.rest), LAMBDA s :
    and_then(decode_head_disposition(g.v[2], s.rest), LAMBDA d :
    and_then(take(<<32, 32>>, d.rest), LAMBDA n :
    and_then(read_opaque(n.rest), LAMBDA o :
        {Got([at |-> e.v[2],
              t |-> [tag |-> "Operation", op |-> g.v[2], gen |-> h.v[8], phase |-> h.v[7], action |-> a.v,
                     before |-> b.v, selection |-> s.v, head |-> d.v, census |-> n.v[1], epoch |-> e.v[1]]], e.rest) :
         e \in {x \in take(<<8, 8>>, o.rest) :
                /\ p.v = h.v[3] /\ Revision(p.v) = h.v[1] /\ h.v[6] \in DesiredHeadKind
                /\ h.v[7] \in PreparedPhase}})))))))))

InOrder(done) == SubSeq([i \in DOMAIN done |-> (CHOOSE x \in ToSet(done) : x.at = i).t], 1, Len(done))

-----------------------------------------------------------------------------
(* The payload.                                                               *)
RecordedNonces(set) == count_all(SetToSeq(set), LAMBDA n : digest(n) \o digest(n))
TemporalLineages(requests) ==
    count_all(SetToSeq(requests), LAMBDA q :
        ref16(q[1]) \o ref16(Scope) \o digest("target") \o u64("budget") \o u64("budget") \o u64(q[2])
            \o u64("deadline") \o digest(q))

encode_host(j) ==
    u8("last_transaction") \o u64(j.epoch) \o ref16("clock") \o u64(j.epoch) \o opaque("build_descriptor")
        \o opaque("manifest") \o encode_store_pinned_build_identity \o digest("build") \o digest("compat")
        \o digest("admission") \o digest("channel") \o digest("controller")
        \o RecordedNonces(j.nonces) \o RecordedNonces(j.requests) \o TemporalLineages(j.requests)
encode_scope(j) ==
    (IF j.fence = 0 THEN u8(0)
     ELSE u8(1) \o ref16(Scope) \o ref16("writer") \o u64(j.fence) \o digest(j.fence) \o digest(j.fence)
              \o ref16("principal"))
    \o (IF j.revision = 0 THEN u8(0) ELSE u8(1) \o ref16(Scope) \o u64(j.revision))
encode_operation(j, v) ==
    presence(j.prepared, IF j.prepared = None THEN <<>> ELSE encode_prepared(j.prepared, v))
        \o presence(j.active, IF j.active = None THEN <<>> ELSE encode_active(j.active, v))
        \o encode_live_materialization(j.live)
        \o presence(j.recovery, IF j.recovery = None THEN <<>> ELSE encode_recovery_action(j.recovery, v))
encode_history(j, v) ==
    count_all(Places(j, "Recovery"), LAMBDA i : encode_recovery_terminal(j.completed[i], i, v))
        \o count_all(ResourceRecords(j.resources), LAMBDA k : encode_resource(k[1], k[2]))
        \o count_all(Places(j, "Operation"), LAMBDA i : encode_terminal_operation(j.completed[i], i, v))

(* No earlier version can say that a crash left a reservation exactly zero.   *)
encode_payload_version(j, v) ==
    {bytes \in {encode_host(j) \o encode_scope(j) \o encode_operation(j, v) \o encode_history(j, v)} :
        /\ v \in RUNTIME_JOURNAL_LEGACY_PAYLOAD_VERSION..RUNTIME_JOURNAL_PAYLOAD_VERSION
        /\ \A r \in j.resources : r.phase \in ResourcePhase(v)
        /\ encoded_len(bytes) <= MAX_RUNTIME_JOURNAL_SNAPSHOT_BYTES - HEADER_BYTES}

read_nonces(maximum, c) ==
    read_all(maximum, c, LAMBDA r : {Got(g.v[1], g.rest) : g \in {x \in take(<<32, 32>>, r) : x.v[1] = x.v[2]}})
read_lineages(maximum, c) == read_all(maximum, c, LAMBDA r : take(<<16, 16, 32, 8, 8, 8, 8, 32>>, r))
MAX_HOST_REPLAY_RECORDS == 256

decode_host(c) ==
    and_then(take(<<1, 8, 16, 8>>, c), LAMBDA g :
    and_then(read_opaque(g.rest), LAMBDA d :
    and_then(read_opaque(d.rest), LAMBDA m :
    and_then(decode_store_pinned_build_identity(m.rest), LAMBDA b :
    and_then(take(<<32, 32, 32, 32, 32>>, b.rest), LAMBDA pins :
    and_then(read_nonces(MAX_HOST_REPLAY_RECORDS, pins.rest), LAMBDA n :
    and_then(read_nonces(MAX_HOST_REPLAY_RECORDS, n.rest), LAMBDA q :
        {Got([Initialized EXCEPT !.epoch = g.v[2], !.nonces = ToSet(n.v), !.requests = ToSet(q.v)], t.rest) :
         t \in read_lineages(MAX_HOST_REPLAY_RECORDS, q.rest)})))))))
decode_scope(j, c) ==
    and_then(optional(0, c, LAMBDA r : {Got(g.v[3], g.rest) : g \in take(<<16, 16, 8, 32, 32, 16>>, r)}), LAMBDA f :
        {Got([j EXCEPT !.fence = f.v, !.revision = w.v], w.rest) :
         w \in optional(0, f.rest, LAMBDA r : {Got(g.v[2], g.rest) : g \in take(<<16, 8>>, r)})})
decode_operation(j, v, c) ==
    and_then(optional(None, c, LAMBDA r : decode_prepared(v, r)), LAMBDA p :
    and_then(optional(None, p.rest, LAMBDA r : decode_active(v, r)), LAMBDA a :
    and_then(decode_live_materialization(a.rest), LAMBDA l :
        {Got([j EXCEPT !.prepared = p.v, !.active = a.v, !.live = l.v, !.recovery = r.v], r.rest) :
         r \in optional(None, l.rest, LAMBDA x : IF Legacy(v) THEN {} ELSE decode_recovery_action(x))})))
decode_history(j, v, c) ==
    and_then(read_all(IF Legacy(v) THEN 0 ELSE MaxRecoveries, c, decode_recovery_terminal), LAMBDA r :
    and_then(read_all(2 * MaxResources, r.rest, LAMBDA x : decode_resource(v, x)), LAMBDA o :
        {Got([j EXCEPT !.resources = Pairs(o.v), !.completed = InOrder(r.v \o t.v)], t.rest) :
         t \in {x \in read_all(IF Legacy(v) THEN 0 ELSE MaxTerminals, o.rest, decode_terminal_operation) : ArePairs(o.v)}}))

decode_payload_version(payload, v) ==
    and_then(decode_host(Cursor(payload)), LAMBDA h :
    and_then(decode_scope(h.v, h.rest), LAMBDA s :
    and_then(decode_operation(s.v, v, s.rest), LAMBDA o :
        {d.v : d \in {x \in decode_history(o.v, v, o.rest) : AtEnd(x.rest)}})))

-----------------------------------------------------------------------------
(* The file.                                                                  *)
validate_envelope_identity(store, target, sequence) == store # None /\ target # None /\ sequence # 0

(* The request of a prepared operation is that of the fence, or of a tenure   *)
(* on record which the fence has superseded.                                  *)
validate_prepared_request_business_invariants(j) ==
    j.prepared # None =>
        LET tenure == Request[j.prepared.op].tenure IN
        \/ tenure = j.fence
        \/ /\ tenure \in j.nonces /\ j.fence > tenure
           /\ j.prepared.phase \in {"SupersededBeforeEffects", "SupersededReconcileRequired",
                                    "StartupExpiredNoEffects", "StartupReconcileRequired"}

Snapshot(store, target, sequence, state) ==
    [store |-> store, target |-> target, sequence |-> sequence, state |-> state]
ValidSnapshot(n) ==
    /\ validate_envelope_identity(n.store, n.target, n.sequence)
    /\ validate(n.state) /\ validate_prepared_request_business_invariants(n.state)

snapshot_checksum(header, payload) == <<header, payload>>
HeaderFields == <<4, 2, 2, 2, 2, 2, 32, 32, 8, 8>>
HeaderWithoutChecksum(n, v, length) ==
    fixed(4, RUNTIME_JOURNAL_MAGIC) \o u16(RUNTIME_JOURNAL_ENVELOPE_VERSION) \o u16(RUNTIME_JOURNAL_OWNER_KIND)
        \o u16(v) \o u16(RUNTIME_JOURNAL_CHECKSUM_PROFILE[1]) \o u16(RUNTIME_JOURNAL_CHECKSUM_PROFILE[2])
        \o digest(n.store) \o digest(n.target) \o u64(n.sequence) \o u64(length)

encode_snapshot_version(n, v, payload) ==
    LET header == HeaderWithoutChecksum(n, v, encoded_len(payload)) IN
    {bytes \in {header \o digest(snapshot_checksum(header, payload)) \o payload} :
        encoded_len(bytes) <= MAX_RUNTIME_JOURNAL_SNAPSHOT_BYTES}

try_new_for_payload_version(n, v) ==
    IF ValidSnapshot(n)
    THEN and_then(encode_payload_version(n.state, v), LAMBDA payload : encode_snapshot_version(n, v, payload)) ELSE {}

(* What was read must be valid and encode to the bytes it was read from.      *)
decode_for_payload_version(frame, v) ==
    and_then({x \in take(HeaderFields \o <<32>>, Cursor(frame)) :
             encoded_len(frame) \in HEADER_BYTES..MAX_RUNTIME_JOURNAL_SNAPSHOT_BYTES}, LAMBDA h :
    and_then({SubSeq(frame, Len(HeaderFields) + 2, Len(frame))}, LAMBDA payload :
    and_then({state \in decode_payload_version(payload, v) : h.v[4] = v}, LAMBDA state :
        {n \in {Snapshot(h.v[7], h.v[8], h.v[9], state)} :
            /\ h.v[1] = RUNTIME_JOURNAL_MAGIC /\ h.v[2] = RUNTIME_JOURNAL_ENVELOPE_VERSION
            /\ h.v[3] = RUNTIME_JOURNAL_OWNER_KIND /\ <<h.v[5], h.v[6]>> = RUNTIME_JOURNAL_CHECKSUM_PROFILE
            /\ h.v[10] = encoded_len(payload)
            /\ h.v[11] = snapshot_checksum(SubSeq(frame, 1, Len(HeaderFields)), payload)
            /\ ValidSnapshot(n) /\ encode_payload_version(state, v) = {payload}})))

decode(frame) == decode_for_payload_version(frame, RUNTIME_JOURNAL_PAYLOAD_VERSION)
decode_payload_v4_for_migration(frame) == decode_for_payload_version(frame, RUNTIME_JOURNAL_PAYLOAD_V4)

migrate_payload_v3(frame) ==
    {n \in decode_for_payload_version(frame, RUNTIME_JOURNAL_LEGACY_PAYLOAD_VERSION) :
        try_new_for_payload_version(n, RUNTIME_JOURNAL_PAYLOAD_V4) # {}}

(* Version 4 kept no response channel, so nothing may be pending; and the     *)
(* live view is one of a process at rest.                                     *)
ensure_payload_v4_migration_is_lossless(j) ==
    /\ j.prepared = None /\ j.recovery = None
    /\ \/ j.active = None /\ j.live.tag = "None"
       \/ j.live.tag \in {"StartupInvalidated", "Quarantined"}
       \/ /\ j.live.tag \in {"LiveReady", "RecoveryFailedNotReady"}
          /\ HeadIs(j, "OneSourceLoop") /\ j.live.slice = j.active.op
       \/ j.live.tag = "ExactZero" /\ HeadIs(j, "EmptyDeactivate") /\ j.live.slice = j.active.op

migrate_payload_v4(frame) ==
    {n \in decode_payload_v4_for_migration(frame) :
        /\ ensure_payload_v4_migration_is_lossless(n.state)
        /\ try_new_for_payload_version(n, RUNTIME_JOURNAL_PAYLOAD_VERSION) # {}}
=============================================================================
