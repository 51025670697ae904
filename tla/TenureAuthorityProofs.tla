------------------------ MODULE TenureAuthorityProofs ------------------------
(***************************************************************************)
(* Proofs about the tenure authority for any number of processes,          *)
(* operations and digests and any limits.                                  *)
(***************************************************************************)
EXTENDS TenureAuthority, TLAPS

Working == {"Publish", "TempCreated", "TempSynced", "Renamed", "Durable"}

\* The process past open_validated is the one that holds the lock; the others
\* hold nothing.
OwnerInv ==
  \A p \in Procs :
    /\ pc[p] # "Down" <=> lock = p
    /\ pc[p] = "Down" => mem[p] = None
    /\ pc[p] \notin Working => req[p] = None /\ tmp[p] = None

\* What the owner holds in memory is what the directory shows.
MemInv ==
  \A p \in Procs :
    /\ pc[p] = "Serving" => dir.active # None /\ mem[p] = dir.active.snap
    /\ pc[p] \in {"Publish", "TempCreated", "TempSynced"} =>
         IF req[p] = None THEN dir.active = None
         ELSE dir.active # None /\ mem[p] = dir.active.snap
    /\ pc[p] \in {"Renamed", "Durable"} => dir.active = tmp[p]
    /\ pc[p] = "Durable" => mem[p] = tmp[p].snap
    /\ mem[p] # None => validate(mem[p])

\* What the owner publishes is a valid successor of what the directory shows.
TmpInvOf(p) ==
  /\ pc[p] \in Working => tmp[p] # None /\ validate(tmp[p].snap)
  /\ pc[p] \in {"TempSynced", "Renamed", "Durable"} => tmp[p].synced
  /\ pc[p] \in {"Publish", "TempCreated", "TempSynced"} /\ req[p] # None =>
       /\ mem[p].records \subseteq tmp[p].snap.records
       /\ mem[p].store = tmp[p].snap.store
       /\ mem[p].high_water <= tmp[p].snap.high_water
  /\ pc[p] = "Durable" => onDisk = {dir}

TmpInv == \A p \in Procs : TmpInvOf(p)

\* Temporary files: only the one being written, or one orphan.
TempsInv ==
  /\ \A d \in onDisk \cup {dir} : d.temps <= 1
  /\ \A p \in Procs : pc[p] \in {"Serving", "Publish", "Renamed", "Durable"} => dir.temps = 0
  /\ \A p \in Procs : pc[p] \in {"TempCreated", "TempSynced"} => dir.temps = 1

\* Every directory that may be found is readable and valid.
DiskInv ==
  /\ dir \in onDisk
  /\ \A d \in onDisk : d.active # None => d.active.synced /\ validate(d.active.snap)

IInv ==
  /\ TypeOK /\ OwnerInv /\ MemInv /\ TmpInv /\ TempsInv /\ DiskInv
  /\ IssuedRepliesDurable /\ InitializedStoreStable


(***************************************************************************)
(* The snapshot model.                                                     *)
(***************************************************************************)
\* The sequence-one snapshot that initialize_with publishes is valid.
LEMMA InitialValid ==
  ASSUME NEW s \in StoreIds
  PROVE  initial(s) \in Snapshots /\ validate(initial(s))
BY MaxRecordsAssumption DEF initial, validate, Snapshots

\* with_issued_record takes a valid snapshot to a valid one that keeps the store
\* and every record.
LEMMA IssueValid ==
  ASSUME NEW s \in Snapshots, NEW q \in Requests, validate(s), preflight_issue(s, q)
  PROVE  /\ with_issued_record(s, q) \in Snapshots
         /\ validate(with_issued_record(s, q))
         /\ s.records \subseteq with_issued_record(s, q).records
         /\ with_issued_record(s, q).store = s.store
         /\ s.high_water <= with_issued_record(s, q).high_water
<1> DEFINE new == [op |-> q.op, digest |-> q.digest, epoch |-> s.high_water + 1,
                   supersedes |-> s.high_water]
           t == with_issued_record(s, q)
<1>1. new \in Records
  BY DEF Snapshots, Requests, Records
<1>2. /\ t \in Snapshots
      /\ t.records = s.records \cup {new}
      /\ t.high_water = s.high_water + 1
      /\ t.sequence = s.sequence + 1
      /\ t.store = s.store
  BY <1>1 DEF with_issued_record, Snapshots
<1> HIDE DEF t
<1>3. validate(t)
  <2> USE DEF validate, preflight_issue, Snapshots, Records
  <2>1. t.high_water <= MaxRecords /\ t.sequence = t.high_water + 1
    BY <1>2, MaxRecordsAssumption
  <2>2. \A r1, r2 \in t.records : r1.op = r2.op => r1 = r2
    BY <1>2
  <2>3. \A r \in t.records : r.epoch \in 1..t.high_water /\ r.supersedes = r.epoch - 1
    BY <1>2
  <2>4. \A r1, r2 \in t.records : r1.epoch = r2.epoch => r1 = r2
    BY <1>2
  <2>5. \A e \in 1..t.high_water : \E r \in t.records : r.epoch = e
    <3> SUFFICES ASSUME NEW e \in 1..t.high_water PROVE \E r \in t.records : r.epoch = e
      OBVIOUS
    <3>1. CASE e = s.high_water + 1
      <4>1. new \in t.records /\ new.epoch = e
        BY <3>1, <1>2
      <4> QED BY <4>1
    <3>2. CASE e \in 1..s.high_water
      BY <3>2, <1>2
    <3> QED BY <3>1, <1>2
  <2> QED BY <2>1, <2>2, <2>3, <2>4, <2>5
<1> QED BY <1>2, <1>3 DEF t, Snapshots

(***************************************************************************)
(* The inductive invariant, one lemma per action.                          *)
(***************************************************************************)
\* initialize_with, up to the publication of sequence one.
LEMMA InitializePreserves ==
  ASSUME IInv, NEW p \in Procs, Initialize(p)
  PROVE  IInv'
<1>a. PICK s \in StoreIds :
        tmp' = [tmp EXCEPT ![p] = [snap |-> initial(s), synced |-> FALSE]]
  BY DEF Initialize
<1>b. /\ tmp' = [tmp EXCEPT ![p] = [snap |-> initial(s), synced |-> FALSE]]
      /\ [snap |-> initial(s), synced |-> FALSE] \in Files
      /\ validate(initial(s))
  BY <1>a, InitialValid DEF Files
<1>c. [dir EXCEPT !.lock_file = TRUE] \in Directories
  BY DEF IInv, TypeOK, Directories
<1>1. TypeOK'
  BY <1>b, <1>c DEF IInv, Initialize, Change, TypeOK, Phases, Files
<1>2. OwnerInv'
  BY NoneAssumption DEF IInv, Initialize, TypeOK, OwnerInv, Working
<1>3. MemInv'
  BY DEF IInv, Initialize, Change, OwnerInv, MemInv, Working
<1>4. TmpInv'
  <2>1. TmpInvOf(p)'
    <3>1. pc'[p] = "Publish" /\ req' = req /\ tmp'[p] = [snap |-> initial(s), synced |-> FALSE]
      BY <1>b DEF IInv, Initialize, TypeOK
    <3>2. req[p] = None
      BY DEF IInv, Initialize, OwnerInv, Working
    <3>3. tmp'[p] # None
      BY <1>b, <3>1, NoneAssumption
    <3> QED BY <1>b, <3>1, <3>2, <3>3 DEF TmpInvOf
  <2>2. ASSUME NEW x \in Procs, x # p PROVE TmpInvOf(x)'
    BY <2>2, NoneAssumption DEF IInv, Initialize, OwnerInv, TmpInv, TmpInvOf
  <2> QED BY <2>1, <2>2 DEF TmpInv
<1>5. TempsInv'
  BY DEF IInv, Initialize, Change, TypeOK, TempsInv, Directories
<1>6. DiskInv'
  BY DEF IInv, Initialize, Change, TypeOK, DiskInv, Directories
<1>7. IssuedRepliesDurable'
  BY DEF IInv, Initialize, IssuedRepliesDurable
<1>8. InitializedStoreStable'
  BY DEF IInv, Initialize, InitializedStoreStable
<1> QED BY <1>1, <1>2, <1>3, <1>4, <1>5, <1>6, <1>7, <1>8 DEF IInv

\* open_validated.
LEMMA OpenPreserves ==
  ASSUME IInv, NEW p \in Procs, Open(p)
  PROVE  IInv'
<1>1. TypeOK'
  BY DEF IInv, Open, TypeOK, Phases, Directories, Files
<1>2. OwnerInv'
  BY NoneAssumption DEF IInv, Open, TypeOK, OwnerInv, Working
<1>3. MemInv'
  BY DEF IInv, Open, TypeOK, MemInv, DiskInv, Directories
<1>4. TmpInv'
  BY DEF IInv, Open, TmpInv, TmpInvOf, Working
<1>5. TempsInv'
  BY NoneAssumption DEF IInv, Open, TypeOK, OwnerInv, TempsInv, Directories
<1>6. DiskInv'
  BY DEF IInv, Open, TypeOK, DiskInv, Directories
<1>7. IssuedRepliesDurable'
  BY DEF IInv, Open, TypeOK, IssuedRepliesDurable, Directories
<1>8. InitializedStoreStable'
  BY DEF IInv, Open, TypeOK, InitializedStoreStable, Directories
<1> QED BY <1>1, <1>2, <1>3, <1>4, <1>5, <1>6, <1>7, <1>8 DEF IInv

\* A failed clean_valid_orphan_temps.
LEMMA OpenFailsInCleanupPreserves ==
  ASSUME IInv, NEW p \in Procs, OpenFailsInCleanup(p)
  PROVE  IInv'
<1>1. TypeOK'
  BY DEF IInv, OpenFailsInCleanup, Change, TypeOK, Directories
<1>2. OwnerInv'
  BY DEF IInv, OpenFailsInCleanup, OwnerInv
<1>3. MemInv'
  BY DEF IInv, OpenFailsInCleanup, Change, MemInv
<1>4. TmpInv'
  BY DEF IInv, OpenFailsInCleanup, TmpInv, TmpInvOf, TempsInv
<1>5. TempsInv'
  BY NoneAssumption DEF IInv, OpenFailsInCleanup, Change, TypeOK, OwnerInv,
       TempsInv, Directories
<1>6. DiskInv'
  BY DEF IInv, OpenFailsInCleanup, Change, TypeOK, DiskInv, Directories
<1>7. IssuedRepliesDurable'
  BY DEF IInv, OpenFailsInCleanup, Change, TypeOK, IssuedRepliesDurable, Directories
<1>8. InitializedStoreStable'
  BY DEF IInv, OpenFailsInCleanup, Change, TypeOK, InitializedStoreStable,
       Directories
<1> QED BY <1>1, <1>2, <1>3, <1>4, <1>5, <1>6, <1>7, <1>8 DEF IInv

\* acquire_with_failpoint, Replay: the answer carries the disposition Replayed,
\* which IssuedRepliesDurable does not speak of.
LEMMA AcquireReplayPreserves ==
  ASSUME IInv, NEW p \in Procs, NEW q \in Requests, AcquireReplay(p, q)
  PROVE  IInv'
<1>a. PICK r \in preflight_replay(mem[p], q) : replies' = replies \cup {Reply(r, "Replayed")}
  BY DEF AcquireReplay
<1>b. mem[p] \in Snapshots
  BY DEF IInv, AcquireReplay, revalidate_current, TypeOK, Directories, Files
<1>c. Reply(r, "Replayed") \in ReplyValues /\ Reply(r, "Replayed").disposition # "Issued"
  BY <1>b DEF preflight_replay, Reply, ReplyValues, Snapshots, Records
<1>1. TypeOK'
  BY <1>a, <1>c DEF IInv, AcquireReplay, TypeOK
<1>2. OwnerInv'
  BY DEF IInv, AcquireReplay, OwnerInv
<1>3. MemInv'
  BY DEF IInv, AcquireReplay, MemInv
<1>4. TmpInv'
  BY DEF IInv, AcquireReplay, TmpInv, TmpInvOf
<1>5. TempsInv'
  BY DEF IInv, AcquireReplay, TempsInv
<1>6. DiskInv'
  BY DEF IInv, AcquireReplay, DiskInv
<1>7. IssuedRepliesDurable'
  BY <1>a, <1>c DEF IInv, AcquireReplay, IssuedRepliesDurable
<1>8. InitializedStoreStable'
  BY DEF IInv, AcquireReplay, InitializedStoreStable
<1> QED BY <1>1, <1>2, <1>3, <1>4, <1>5, <1>6, <1>7, <1>8 DEF IInv

\* acquire_with_failpoint, Issue: the successor is valid and extends the snapshot.
LEMMA AcquireIssuePreserves ==
  ASSUME IInv, NEW p \in Procs, NEW q \in Requests, AcquireIssue(p, q)
  PROVE  IInv'
<1> DEFINE t == with_issued_record(mem[p], q)
<1>a. mem[p] \in Snapshots /\ validate(mem[p])
  BY DEF IInv, AcquireIssue, revalidate_current, TypeOK, DiskInv, Directories, Files
<1>b. /\ t \in Snapshots /\ validate(t)
      /\ mem[p].records \subseteq t.records /\ t.store = mem[p].store
      /\ mem[p].high_water <= t.high_water
  BY <1>a, IssueValid DEF AcquireIssue
<1>c. [snap |-> t, synced |-> FALSE] \in Files
  BY <1>b DEF Files
<1> HIDE DEF t
<1>d. tmp' = [tmp EXCEPT ![p] = [snap |-> t, synced |-> FALSE]]
  BY DEF AcquireIssue, t
<1>e. tmp'[p] = [snap |-> t, synced |-> FALSE]
  BY <1>d DEF IInv, TypeOK
<1>f. tmp'[p] # None /\ tmp'[p].snap = t
  <2>1. tmp'[p] \in Files
    BY <1>c, <1>e
  <2>2. tmp'[p].snap = t
    BY <1>e
  <2> QED BY <2>1, <2>2, NoneAssumption
<1>1. TypeOK'
  BY <1>c, <1>d DEF IInv, AcquireIssue, TypeOK, Phases, Files
<1>2. OwnerInv'
  BY DEF IInv, AcquireIssue, TypeOK, OwnerInv, Working
<1>3. MemInv'
  BY NoneAssumption DEF IInv, AcquireIssue, TypeOK, MemInv
<1>4. TmpInv'
  <2>1. TmpInvOf(p)'
    BY <1>b, <1>f DEF AcquireIssue, TmpInvOf
  <2>2. ASSUME NEW x \in Procs, x # p PROVE TmpInvOf(x)'
    BY <1>b, <1>f DEF IInv, AcquireIssue, TmpInv, TmpInvOf
  <2> QED BY <2>1, <2>2 DEF TmpInv
<1>5. TempsInv'
  BY DEF IInv, AcquireIssue, TempsInv
<1>6. DiskInv'
  BY DEF IInv, AcquireIssue, DiskInv
<1>7. IssuedRepliesDurable'
  BY DEF IInv, AcquireIssue, IssuedRepliesDurable
<1>8. InitializedStoreStable'
  BY DEF IInv, AcquireIssue, InitializedStoreStable
<1> QED BY <1>1, <1>2, <1>3, <1>4, <1>5, <1>6, <1>7, <1>8 DEF IInv

\* publish_atomic, creation of the temporary file.
LEMMA CreateTempPreserves ==
  ASSUME IInv, NEW p \in Procs, CreateTemp(p)
  PROVE  IInv'
<1>1. TypeOK'
  BY DEF IInv, CreateTemp, Change, TypeOK, Phases, Directories
<1>2. OwnerInv'
  BY DEF IInv, CreateTemp, OwnerInv, Working
<1>3. MemInv'
  BY DEF IInv, CreateTemp, Change, MemInv
<1>4. TmpInv'
  BY DEF IInv, CreateTemp, OwnerInv, TmpInv, TmpInvOf, Working
<1>5. TempsInv'
  BY DEF IInv, CreateTemp, Change, TypeOK, OwnerInv, TempsInv, Directories
<1>6. DiskInv'
  BY DEF IInv, CreateTemp, Change, TypeOK, DiskInv, Directories
<1>7. IssuedRepliesDurable'
  BY DEF IInv, CreateTemp, Change, TypeOK, IssuedRepliesDurable, Directories
<1>8. InitializedStoreStable'
  BY DEF IInv, CreateTemp, Change, TypeOK, InitializedStoreStable, Directories
<1> QED BY <1>1, <1>2, <1>3, <1>4, <1>5, <1>6, <1>7, <1>8 DEF IInv

\* publish_atomic, fsync of the temporary file.
LEMMA SyncTempPreserves ==
  ASSUME IInv, NEW p \in Procs, SyncTemp(p)
  PROVE  IInv'
<1>a. tmp[p] \in Files /\ [snap |-> tmp[p].snap, synced |-> TRUE] \in Files
  BY DEF IInv, SyncTemp, TypeOK, TmpInv, TmpInvOf, Working, Files
<1>1. TypeOK'
  BY DEF IInv, SyncTemp, TypeOK, TmpInv, TmpInvOf, Working, Phases, Files
<1>2. OwnerInv'
  BY DEF IInv, SyncTemp, OwnerInv, Working
<1>3. MemInv'
  BY DEF IInv, SyncTemp, MemInv
<1>4. TmpInv'
  <2>1. TmpInvOf(p)'
    BY <1>a, NoneAssumption DEF IInv, SyncTemp, TypeOK, OwnerInv, TmpInv, TmpInvOf,
         Working, Phases, Files
  <2>2. ASSUME NEW x \in Procs, x # p PROVE TmpInvOf(x)'
    BY <2>2 DEF IInv, SyncTemp, TmpInv, TmpInvOf
  <2> QED BY <2>1, <2>2 DEF TmpInv
<1>5. TempsInv'
  BY DEF IInv, SyncTemp, TempsInv
<1>6. DiskInv'
  BY DEF IInv, SyncTemp, DiskInv
<1>7. IssuedRepliesDurable'
  BY DEF IInv, SyncTemp, IssuedRepliesDurable
<1>8. InitializedStoreStable'
  BY DEF IInv, SyncTemp, InitializedStoreStable
<1> QED BY <1>1, <1>2, <1>3, <1>4, <1>5, <1>6, <1>7, <1>8 DEF IInv

\* publish_atomic, rename: what becomes visible is synced, valid, and holds every
\* record of the snapshot it replaces.
LEMMA RenamePreserves ==
  ASSUME IInv, NEW p \in Procs, Rename(p)
  PROVE  IInv'
<1>1. TypeOK'
  BY DEF IInv, Rename, Change, TypeOK, TempsInv, Phases, Directories
<1>2. OwnerInv'
  BY DEF IInv, Rename, OwnerInv, Working
<1>3. MemInv'
  BY DEF IInv, Rename, Change, TypeOK, OwnerInv, MemInv
<1>4. TmpInv'
  BY DEF IInv, Rename, OwnerInv, TmpInv, TmpInvOf, Working
<1>5. TempsInv'
  BY DEF IInv, Rename, Change, TypeOK, OwnerInv, TempsInv
<1>6. DiskInv'
  BY DEF IInv, Rename, Change, OwnerInv, TmpInv, TmpInvOf, DiskInv
<1>7. IssuedRepliesDurable'
  BY DEF IInv, Rename, Change, OwnerInv, MemInv, TmpInv, TmpInvOf,
       IssuedRepliesDurable
<1>8. InitializedStoreStable'
  BY DEF IInv, Rename, Change, OwnerInv, MemInv, TmpInv, TmpInvOf,
       InitializedStoreStable
<1> QED BY <1>1, <1>2, <1>3, <1>4, <1>5, <1>6, <1>7, <1>8 DEF IInv

\* publish_atomic, sync of the directory: one directory state remains.
LEMMA SyncDirectoryPreserves ==
  ASSUME IInv, NEW p \in Procs, SyncDirectory(p)
  PROVE  IInv'
<1>1. TypeOK'
  BY DEF IInv, SyncDirectory, Sync, TypeOK, TmpInv, TmpInvOf, Working, Phases, Files
<1>2. OwnerInv'
  BY DEF IInv, SyncDirectory, OwnerInv, Working
<1>3. MemInv'
  BY DEF IInv, SyncDirectory, TypeOK, MemInv, TmpInv, TmpInvOf, Working
<1>4. TmpInv'
  BY DEF IInv, SyncDirectory, Sync, TmpInv, TmpInvOf, Working
<1>5. TempsInv'
  BY DEF IInv, SyncDirectory, Sync, TempsInv
<1>6. DiskInv'
  BY DEF IInv, SyncDirectory, Sync, DiskInv
<1>7. IssuedRepliesDurable'
  BY DEF IInv, SyncDirectory, Sync, IssuedRepliesDurable
<1>8. InitializedStoreStable'
  BY DEF IInv, SyncDirectory, Sync, InitializedStoreStable
<1> QED BY <1>1, <1>2, <1>3, <1>4, <1>5, <1>6, <1>7, <1>8 DEF IInv

\* The issued answer is released when the only directory state holds its record.
LEMMA ReplyIssuedPreserves ==
  ASSUME IInv, NEW p \in Procs, ReplyIssued(p)
  PROVE  IInv'
<1>a. PICK r \in preflight_replay(tmp[p].snap, req[p]) : replies' = replies \cup {Reply(r, "Issued")}
  BY DEF ReplyIssued
<1>b. tmp[p].snap \in Snapshots
  BY DEF IInv, ReplyIssued, TypeOK, TmpInv, TmpInvOf, Working, Files
<1>c. /\ Reply(r, "Issued") \in ReplyValues
      /\ Claim(Reply(r, "Issued")) = r
      /\ r \in tmp[p].snap.records
  BY <1>b DEF preflight_replay, Reply, Claim, ReplyValues, Snapshots, Records
<1>1. TypeOK'
  BY <1>a, <1>c, NoneAssumption DEF IInv, ReplyIssued, TypeOK, Phases
<1>2. OwnerInv'
  BY NoneAssumption DEF IInv, ReplyIssued, TypeOK, OwnerInv
<1>3. MemInv'
  BY DEF IInv, ReplyIssued, TypeOK, OwnerInv, MemInv, TmpInv, TmpInvOf
<1>4. TmpInv'
  BY DEF IInv, ReplyIssued, TypeOK, TmpInv, TmpInvOf, Working
<1>5. TempsInv'
  BY DEF IInv, ReplyIssued, TempsInv
<1>6. DiskInv'
  BY DEF IInv, ReplyIssued, DiskInv
<1>7. IssuedRepliesDurable'
  BY <1>a, <1>c DEF IInv, ReplyIssued, OwnerInv, MemInv, TmpInv, TmpInvOf,
       IssuedRepliesDurable
<1>8. InitializedStoreStable'
  BY DEF IInv, ReplyIssued, InitializedStoreStable
<1> QED BY <1>1, <1>2, <1>3, <1>4, <1>5, <1>6, <1>7, <1>8 DEF IInv

\* The receipt is released when the only directory state holds its store.
LEMMA FinishInitializePreserves ==
  ASSUME IInv, NEW p \in Procs, FinishInitialize(p)
  PROVE  IInv'
<1>a. tmp[p].snap.store \in StoreIds
  BY NoneAssumption DEF IInv, FinishInitialize, TypeOK, TmpInv, TmpInvOf, Working,
       Files, Snapshots
<1>1. TypeOK'
  BY <1>a, NoneAssumption DEF IInv, FinishInitialize, TypeOK, Phases, ReceiptValues
<1>2. OwnerInv'
  BY NoneAssumption DEF IInv, FinishInitialize, TypeOK, OwnerInv
<1>3. MemInv'
  BY NoneAssumption DEF IInv, FinishInitialize, TypeOK, MemInv
<1>4. TmpInv'
  BY NoneAssumption DEF IInv, FinishInitialize, TypeOK, TmpInv, TmpInvOf, Working
<1>5. TempsInv'
  BY NoneAssumption DEF IInv, FinishInitialize, TempsInv
<1>6. DiskInv'
  BY DEF IInv, FinishInitialize, DiskInv
<1>7. IssuedRepliesDurable'
  BY DEF IInv, FinishInitialize, IssuedRepliesDurable
<1>8. InitializedStoreStable'
  BY NoneAssumption DEF IInv, FinishInitialize, MemInv, TmpInv, TmpInvOf,
       InitializedStoreStable, Working
<1> QED BY <1>1, <1>2, <1>3, <1>4, <1>5, <1>6, <1>7, <1>8 DEF IInv

\* reconstruct_sequence_one_initialization_receipt.
LEMMA ReconstructReceiptPreserves ==
  ASSUME IInv, NEW p \in Procs, ReconstructReceipt(p)
  PROVE  IInv'
<1>a. mem[p].store \in StoreIds
  BY DEF IInv, ReconstructReceipt, TypeOK, MemInv, Directories, Files, Snapshots
<1>1. TypeOK'
  BY <1>a, NoneAssumption DEF IInv, ReconstructReceipt, TypeOK, Phases,
       ReceiptValues
<1>2. OwnerInv'
  BY NoneAssumption DEF IInv, ReconstructReceipt, TypeOK, OwnerInv, Working,
       Directories
<1>3. MemInv'
  BY NoneAssumption DEF IInv, ReconstructReceipt, TypeOK, MemInv, Directories
<1>4. TmpInv'
  BY NoneAssumption DEF IInv, ReconstructReceipt, TmpInv, TmpInvOf, Working,
       Directories
<1>5. TempsInv'
  BY NoneAssumption DEF IInv, ReconstructReceipt, TempsInv, Directories
<1>6. DiskInv'
  BY NoneAssumption DEF IInv, ReconstructReceipt, DiskInv, Directories
<1>7. IssuedRepliesDurable'
  BY NoneAssumption DEF IInv, ReconstructReceipt, IssuedRepliesDurable, Directories
<1>8. InitializedStoreStable'
  BY NoneAssumption DEF IInv, ReconstructReceipt, InitializedStoreStable,
       Directories
<1> QED BY <1>1, <1>2, <1>3, <1>4, <1>5, <1>6, <1>7, <1>8 DEF IInv

\* A crash or a fatal error leaves the directory alone.
LEMMA ProcessExitPreserves ==
  ASSUME IInv, NEW p \in Procs, ProcessExit(p)
  PROVE  IInv'
<1>1. TypeOK'
  BY NoneAssumption DEF IInv, ProcessExit, TypeOK, Phases, Directories
<1>2. OwnerInv'
  BY NoneAssumption DEF IInv, ProcessExit, TypeOK, OwnerInv, Directories
<1>3. MemInv'
  BY NoneAssumption DEF IInv, ProcessExit, TypeOK, MemInv, Directories
<1>4. TmpInv'
  BY NoneAssumption DEF IInv, ProcessExit, TypeOK, TmpInv, TmpInvOf, Working,
       Directories
<1>5. TempsInv'
  BY NoneAssumption DEF IInv, ProcessExit, TempsInv, Directories
<1>6. DiskInv'
  BY NoneAssumption DEF IInv, ProcessExit, DiskInv, Directories
<1>7. IssuedRepliesDurable'
  BY NoneAssumption DEF IInv, ProcessExit, IssuedRepliesDurable, Directories
<1>8. InitializedStoreStable'
  BY NoneAssumption DEF IInv, ProcessExit, InitializedStoreStable, Directories
<1> QED BY <1>1, <1>2, <1>3, <1>4, <1>5, <1>6, <1>7, <1>8 DEF IInv

\* A power failure leaves one of the states the disk may hold, untorn.
LEMMA PowerFailurePreserves ==
  ASSUME IInv, PowerFailure
  PROVE  IInv'
<1>a. PICK d \in onDisk : dir' = AfterPowerFailure(d)
  BY DEF PowerFailure
<1>b. AfterPowerFailure(d) = d
  BY DEF IInv, AfterPowerFailure, DiskInv
<1>c. dir' \in onDisk /\ onDisk' = {dir'}
  BY <1>a, <1>b DEF PowerFailure
<1>1. TypeOK'
  BY <1>c, NoneAssumption DEF IInv, PowerFailure, TypeOK, Phases, Files
<1>2. OwnerInv'
  BY NoneAssumption DEF PowerFailure, OwnerInv, Directories
<1>3. MemInv'
  BY DEF PowerFailure, MemInv
<1>4. TmpInv'
  BY DEF PowerFailure, TmpInv, TmpInvOf, Working, Directories
<1>5. TempsInv'
  BY <1>c DEF IInv, PowerFailure, TempsInv
<1>6. DiskInv'
  BY <1>c, NoneAssumption DEF IInv, DiskInv, Files
<1>7. IssuedRepliesDurable'
  BY <1>c, NoneAssumption DEF IInv, PowerFailure, IssuedRepliesDurable
<1>8. InitializedStoreStable'
  BY <1>c, NoneAssumption DEF IInv, PowerFailure, InitializedStoreStable
<1> QED BY <1>1, <1>2, <1>3, <1>4, <1>5, <1>6, <1>7, <1>8 DEF IInv

(***************************************************************************)
(* The theorems.                                                           *)
(***************************************************************************)
\* An empty directory with no process satisfies the invariant.
LEMMA InitIInv == Init => IInv
<1> SUFFICES ASSUME Init PROVE IInv
  OBVIOUS
<1>1. dir \in Directories /\ dir.active = None /\ dir.temps = 0
  BY DEF Init, Directories
<1>2. TypeOK
  BY <1>1 DEF Init, TypeOK, Phases
<1>3. OwnerInv /\ MemInv /\ TmpInv
  BY <1>1, NoneAssumption DEF Init, OwnerInv, MemInv, TmpInv, TmpInvOf, Working
<1>4. TempsInv /\ DiskInv
  BY <1>1 DEF Init, TempsInv, DiskInv
<1>5. IssuedRepliesDurable /\ InitializedStoreStable
  BY DEF Init, IssuedRepliesDurable, InitializedStoreStable
<1> QED BY <1>2, <1>3, <1>4, <1>5 DEF IInv

\* A step that changes no variable keeps the invariant.
LEMMA StutterPreserves == IInv /\ UNCHANGED vars => IInv'
<1> SUFFICES ASSUME IInv, UNCHANGED vars PROVE IInv'
  OBVIOUS
<1>1. TypeOK'
  BY DEF vars, IInv, TypeOK
<1>2. OwnerInv' /\ TempsInv'
  BY DEF vars, IInv, OwnerInv, TempsInv
<1>3. MemInv'
  BY DEF vars, IInv, MemInv, validate
<1>4. TmpInv'
  BY DEF vars, IInv, TmpInv, TmpInvOf, validate
<1>5. DiskInv'
  BY DEF vars, IInv, DiskInv, validate
<1>6. IssuedRepliesDurable' /\ InitializedStoreStable'
  BY DEF vars, IInv, IssuedRepliesDurable, InitializedStoreStable
<1> QED BY <1>1, <1>2, <1>3, <1>4, <1>5, <1>6 DEF IInv

\* Every step of the authority keeps the invariant.
LEMMA NextPreserves == IInv /\ [Next]_vars => IInv'
<1> SUFFICES ASSUME IInv, [Next]_vars PROVE IInv'
  OBVIOUS
<1>1. ASSUME NEW p \in Procs, Step(p) PROVE IInv'
  <2>1. CASE Initialize(p)
    BY <2>1, InitializePreserves
  <2>2. CASE Open(p)
    BY <2>2, OpenPreserves
  <2>3. CASE OpenFailsInCleanup(p)
    BY <2>3, OpenFailsInCleanupPreserves
  <2>4. ASSUME NEW q \in Requests, AcquireReplay(p, q) \/ AcquireIssue(p, q) PROVE IInv'
    BY <2>4, AcquireReplayPreserves, AcquireIssuePreserves
  <2>5. CASE CreateTemp(p)
    BY <2>5, CreateTempPreserves
  <2>6. CASE SyncTemp(p)
    BY <2>6, SyncTempPreserves
  <2>7. CASE Rename(p)
    BY <2>7, RenamePreserves
  <2>8. CASE SyncDirectory(p)
    BY <2>8, SyncDirectoryPreserves
  <2>9. CASE ReplyIssued(p)
    BY <2>9, ReplyIssuedPreserves
  <2>10. CASE FinishInitialize(p)
    BY <2>10, FinishInitializePreserves
  <2>11. CASE ReconstructReceipt(p)
    BY <2>11, ReconstructReceiptPreserves
  <2>12. CASE ProcessExit(p)
    BY <2>12, ProcessExitPreserves
  <2> QED BY <1>1, <2>1, <2>2, <2>3, <2>4, <2>5, <2>6, <2>7, <2>8, <2>9, <2>10,
       <2>11,
             <2>12 DEF Step
<1>2. CASE PowerFailure
  BY <1>2, PowerFailurePreserves
<1>3. CASE UNCHANGED vars
  BY <1>3, StutterPreserves
<1> QED BY <1>1, <1>2, <1>3 DEF Next

\* The invariant holds in every reachable state.
LEMMA Invariance == Spec => []IInv
<1>1. Init => IInv
  BY InitIInv
<1>2. IInv /\ [Next]_vars => IInv'
  BY NextPreserves
<1> QED BY <1>1, <1>2, PTL DEF Spec

\* The state always has the declared shape.
THEOREM TypeCorrect == Spec => []TypeOK
<1>1. IInv => TypeOK
  BY DEF IInv
<1> QED BY <1>1, Invariance, PTL

\* The advisory lock keeps the store single-writer.
THEOREM SingleWriter == Spec => []SingleOwner
<1>1. IInv => SingleOwner
  BY DEF IInv, OwnerInv, SingleOwner
<1> QED BY <1>1, Invariance, PTL

\* Commit before reply: no crash or power failure undoes an issued response, or
\* loses or replaces the store of a receipt.
THEOREM CommitBeforeReply == Spec => []ReturnedIsDurable
<1>1. IInv => ReturnedIsDurable
  BY DEF IInv, ReturnedIsDurable
<1> QED BY <1>1, Invariance, PTL

\* Whatever a restart finds passes AuthoritySnapshot::validate.
THEOREM RestartFindsValidSnapshot == Spec => []SnapshotsValid
<1>1. IInv => SnapshotsValid
  BY DEF IInv, MemInv, DiskInv, SnapshotsValid
<1> QED BY <1>1, Invariance, PTL

\* No crash or power failure leaves a store that open_validated must refuse: the
\* active snapshot is synced and valid, and at most one temporary file is ever
\* left behind, so the limit on orphans never refuses an open.
THEOREM OpenNeverRefused == Spec => []StoreStaysOpenable
<1>1. IInv => StoreStaysOpenable
  <2> SUFFICES ASSUME IInv, NEW d \in onDisk \cup {dir}
               PROVE  /\ d.active # None => d.active.synced /\ validate(d.active.snap)
                      /\ d.temps <= MaxOrphans
    BY DEF StoreStaysOpenable
  <2>1. d.active # None => d.active.synced /\ validate(d.active.snap)
    BY DEF IInv, DiskInv
  <2>2. d.temps \in Nat /\ d.temps <= 1
    BY DEF IInv, TempsInv, TypeOK, Directories
  <2> QED BY <2>1, <2>2, MaxOrphansAssumption
<1> QED BY <1>1, Invariance, PTL

-----------------------------------------------------------------------------
(***************************************************************************)
(* The authority implements one append-only ledger (TenureLedger), whatever *)
(* processes crash and restart; only a power failure sets it back.  To the  *)
(* inductive invariant this adds that the snapshot being published is       *)
(* exactly the successor that with_issued_record builds of the visible one; *)
(* while the power holds, also that every answer given is a record of the   *)
(* visible snapshot.                                                        *)
(***************************************************************************)

Publishing == {"Publish", "TempCreated", "TempSynced"}

\* Every answer is a record of the visible snapshot.
AnswersInv ==
  \A r \in replies : dir.active # None /\ Claim(r) \in dir.active.snap.records

\* What is being published is the sequence-one snapshot or the successor that
\* issues the pending request.
SuccessorInvOf(p) ==
  pc[p] \in Publishing =>
    IF req[p] = None THEN tmp[p].snap.records = {}
    ELSE /\ preflight_issue(mem[p], req[p])
         /\ tmp[p].snap = with_issued_record(mem[p], req[p])

SuccessorInv == \A p \in Procs : SuccessorInvOf(p)

SInv == IInv /\ SuccessorInv

LInv == SInv /\ AnswersInv

(***************************************************************************)
(* Facts about valid snapshots and answers.                                *)
(***************************************************************************)
\* The epochs of a valid snapshot's records are those up to its high water.
LEMMA ValidEpochs ==
  ASSUME NEW s \in Snapshots, validate(s)
  PROVE  {r.epoch : r \in s.records} = 1..s.high_water
BY DEF validate, Snapshots

\* The claim of an answer made from a record is that record.
LEMMA ClaimOfReply ==
  ASSUME NEW r \in Records, NEW k
  PROVE  Claim(Reply(r, k)) = r
BY DEF Claim, Reply, Records

(***************************************************************************)
(* What a step does to the visible records.                                *)
(***************************************************************************)
\* Only the rename of publish_atomic changes the visible snapshot.
LEMMA OnlyRenameChangesActive ==
  ASSUME IInv, Next, ~PowerFailure
  PROVE  dir'.active = dir.active \/ \E p \in Procs : Rename(p)
BY DEF IInv, TypeOK, Directories, Next, Step, Initialize, Open, OpenFailsInCleanup,
       AcquireReplay, AcquireIssue, CreateTemp, SyncTemp, SyncDirectory, ReplyIssued,
       FinishInitialize, ReconstructReceipt, ProcessExit, Change

\* The rename makes the sequence-one snapshot, or the successor of the visible
\* snapshot, visible.
LEMMA RenameExtends ==
  ASSUME SInv, NEW p \in Procs, Rename(p)
  PROVE  /\ dir'.active # None
         /\ dir.active = None => dir'.active.snap.records = {}
         /\ dir.active # None =>
              /\ req[p] \in Requests
              /\ dir.active.snap \in Snapshots /\ validate(dir.active.snap)
              /\ preflight_issue(dir.active.snap, req[p])
              /\ dir'.active.snap = with_issued_record(dir.active.snap, req[p])
<1>1. /\ dir'.active = tmp[p] /\ tmp[p] # None
      /\ pc[p] \in Publishing
  BY DEF SInv, IInv, Rename, Change, TmpInv, TmpInvOf, Working, Publishing
<1>2. dir.active = None <=> req[p] = None
  BY DEF SInv, IInv, Rename, MemInv
<1>3. dir.active # None => /\ dir.active.snap = mem[p]
                           /\ dir.active.snap \in Snapshots
                           /\ validate(dir.active.snap)
                           /\ req[p] \in Requests
  BY <1>2 DEF SInv, IInv, Rename, MemInv, DiskInv, TypeOK, Directories, Files
<1> QED BY <1>1, <1>2, <1>3 DEF SInv, SuccessorInv, SuccessorInvOf

(***************************************************************************)
(* The invariant.                                                          *)
(***************************************************************************)
\* The snapshot being published stays the successor of the one it replaces.
LEMMA SuccessorPreserved == SInv /\ [Next]_vars => SuccessorInv'
<1> SUFFICES ASSUME SInv, [Next]_vars, NEW x \in Procs PROVE SuccessorInvOf(x)'
  BY DEF SuccessorInv
<1> USE DEF SInv, SuccessorInv, SuccessorInvOf
<1>1. ASSUME NEW p \in Procs, Initialize(p) PROVE SuccessorInvOf(x)'
  <2>1. PICK s \in StoreIds :
          tmp' = [tmp EXCEPT ![p] = [snap |-> initial(s), synced |-> FALSE]]
    BY <1>1 DEF Initialize
  <2>2. req[p] = None
    BY <1>1 DEF Initialize, IInv, OwnerInv, Working
  <2> QED BY <1>1, <2>1, <2>2 DEF Initialize, IInv, TypeOK, initial
<1>2. ASSUME NEW p \in Procs, NEW q \in Requests, AcquireIssue(p, q)
      PROVE  SuccessorInvOf(x)'
  BY <1>2, NoneAssumption DEF AcquireIssue, IInv, TypeOK
<1>3. ASSUME NEW p \in Procs, SyncTemp(p) PROVE SuccessorInvOf(x)'
  BY <1>3 DEF SyncTemp, IInv, TypeOK, Publishing
<1>4. ASSUME NEW p \in Procs,
             \/ Open(p) \/ OpenFailsInCleanup(p) \/ CreateTemp(p) \/ Rename(p)
             \/ \E q \in Requests : AcquireReplay(p, q)
             \/ SyncDirectory(p) \/ ReplyIssued(p) \/ FinishInitialize(p)
             \/ ReconstructReceipt(p) \/ ProcessExit(p)
      PROVE  SuccessorInvOf(x)'
  BY <1>4 DEF Open, OpenFailsInCleanup, CreateTemp, Rename, AcquireReplay, SyncDirectory,
     ReplyIssued, FinishInitialize, ReconstructReceipt, ProcessExit, IInv, TypeOK,
     Publishing
<1>5. CASE PowerFailure
  BY <1>5 DEF PowerFailure, Publishing
<1>6. CASE UNCHANGED vars
  BY <1>6 DEF vars
<1> QED BY <1>1, <1>2, <1>3, <1>4, <1>5, <1>6 DEF Next, Step

\* No crash and no power failure breaks the strengthened invariant.
LEMMA SuccessorInvariance == Spec => []SInv
<1>1. Init => SInv
  BY InitIInv DEF Init, SInv, SuccessorInv, SuccessorInvOf, Publishing
<1>2. SInv /\ [Next]_vars => SInv'
  BY NextPreserves, SuccessorPreserved DEF SInv
<1> QED BY <1>1, <1>2, PTL DEF Spec

\* Every answer stays a record of the visible snapshot.
LEMMA AnswersPreserved ==
  ASSUME ~PowerLoss, LInv, [Next]_vars
  PROVE  AnswersInv'
<1>1. ASSUME NEW p \in Procs, NEW q \in Requests, AcquireReplay(p, q) PROVE AnswersInv'
  <2>1. PICK r \in preflight_replay(mem[p], q) : replies' = replies \cup {Reply(r, "Replayed")}
    BY <1>1 DEF AcquireReplay
  <2>2. /\ dir.active # None /\ r \in dir.active.snap.records
        /\ r \in Records /\ dir' = dir
    BY <1>1 DEF AcquireReplay, revalidate_current, preflight_replay, LInv, SInv, IInv, TypeOK,
       Directories, Files, Snapshots
  <2>3. Claim(Reply(r, "Replayed")) = r
    BY <2>2, ClaimOfReply
  <2> QED BY <2>1, <2>2, <2>3 DEF LInv, AnswersInv
<1>2. ASSUME NEW p \in Procs, ReplyIssued(p) PROVE AnswersInv'
  <2>1. PICK r \in preflight_replay(tmp[p].snap, req[p]) :
          replies' = replies \cup {Reply(r, "Issued")}
    BY <1>2 DEF ReplyIssued
  <2>2. /\ dir.active # None /\ r \in dir.active.snap.records
        /\ r \in Records /\ dir' = dir
    BY <1>2 DEF ReplyIssued, preflight_replay, LInv, SInv, IInv, TypeOK, MemInv, TmpInv,
       TmpInvOf, Working, Directories, Files, Snapshots
  <2>3. Claim(Reply(r, "Issued")) = r
    BY <2>2, ClaimOfReply
  <2> QED BY <2>1, <2>2, <2>3 DEF LInv, AnswersInv
<1>3. ASSUME NEW p \in Procs, Rename(p) PROVE AnswersInv'
  <2>1. replies' = replies
    BY <1>3 DEF Rename
  <2>2. dir.active # None =>
          dir'.active # None /\ dir.active.snap.records \subseteq dir'.active.snap.records
    BY <1>3, RenameExtends, IssueValid DEF LInv
  <2> QED BY <2>1, <2>2 DEF LInv, AnswersInv
<1>4. CASE /\ ~ \E p \in Procs : Rename(p)
           /\ ~ \E p \in Procs : ReplyIssued(p) \/ \E q \in Requests : AcquireReplay(p, q)
           /\ Next
  <2>1. dir'.active = dir.active
    BY <1>4, OnlyRenameChangesActive DEF LInv, SInv, PowerFailure
  <2>2. replies' = replies
    BY <1>4 DEF Next, Step, Initialize, Open, OpenFailsInCleanup, AcquireIssue,
       CreateTemp, SyncTemp, SyncDirectory, FinishInitialize, ReconstructReceipt,
       ProcessExit, PowerFailure
  <2> QED BY <2>1, <2>2 DEF LInv, AnswersInv
<1>5. CASE UNCHANGED vars
  BY <1>5 DEF vars, LInv, AnswersInv
<1> QED BY <1>1, <1>2, <1>3, <1>4, <1>5

\* The strengthened invariant holds in every reachable state.
LEMMA LedgerInvariance ==
  ASSUME ~PowerLoss
  PROVE  Spec => []LInv
<1>1. Init => LInv
  BY InitIInv DEF Init, LInv, SInv, AnswersInv, SuccessorInv, SuccessorInvOf, Publishing
<1>2. LInv /\ [Next]_vars => LInv'
  BY NextPreserves, SuccessorPreserved, AnswersPreserved DEF LInv, SInv
<1> QED BY <1>1, <1>2, PTL DEF Spec

(***************************************************************************)
(* The theorems.                                                           *)
(***************************************************************************)
\* While the power holds, an epoch is never given to two operations and an
\* operation is never answered with two epochs, across every crash and restart.
THEOREM NoEpochReissue ==
  ASSUME ~PowerLoss
  PROVE  Spec => []EpochsNeverReissued
<1>1. LInv => EpochsNeverReissued
  <2> SUFFICES ASSUME LInv, NEW r1 \in replies, NEW r2 \in replies,
                      r1.op = r2.op \/ r1.epoch = r2.epoch
               PROVE  Claim(r1) = Claim(r2)
    BY DEF EpochsNeverReissued, Claim
  <2>1. validate(dir.active.snap)
    BY DEF LInv, SInv, IInv, DiskInv, AnswersInv
  <2>2. /\ Claim(r1) \in dir.active.snap.records
        /\ Claim(r2) \in dir.active.snap.records
    BY DEF LInv, AnswersInv
  <2>3. Claim(r1).op = Claim(r2).op \/ Claim(r1).epoch = Claim(r2).epoch
    BY DEF Claim
  <2> QED BY <2>1, <2>2, <2>3 DEF validate
<1> QED BY <1>1, LedgerInvariance, PTL

\* While the power holds, committed records and the epoch high water only grow.
THEOREM AppendOnly ==
  ASSUME ~PowerLoss
  PROVE  Spec => LedgerAppendOnly
<1> DEFINE Grows ==
      dir.active # None =>
        /\ dir'.active # None
        /\ dir.active.snap.records \subseteq dir'.active.snap.records
        /\ dir.active.snap.high_water <= dir'.active.snap.high_water
<1>1. LInv /\ [Next]_vars => [Grows]_vars
  <2> SUFFICES ASSUME LInv, Next PROVE Grows
    OBVIOUS
  <2>1. ASSUME NEW p \in Procs, Rename(p) PROVE Grows
    BY <2>1, RenameExtends, IssueValid DEF LInv
  <2>2. CASE dir'.active = dir.active
    <3>1. dir.active # None => dir.active.snap.high_water \in Nat
      BY DEF LInv, SInv, IInv, TypeOK, Directories, Files, Snapshots
    <3>2. dir.active # None => dir.active.snap.high_water <= dir.active.snap.high_water
      BY <3>1
    <3> QED BY <2>2, <3>2
  <2> QED BY <2>1, <2>2, OnlyRenameChangesActive DEF LInv, SInv, PowerFailure
<1> QED BY <1>1, LedgerInvariance, PTL DEF Spec, LedgerAppendOnly

\* Every step of the authority but a power failure is a step of the abstract
\* ledger: the rename of a successor is Issue, an answer is Answer, and every
\* other step stutters.
LEMMA StepRefines ==
  SInv /\ [Next]_vars => [Ledger!Next \/ PowerFailure]_<<visible_ledger, answered_claims>>
<1> DEFINE ledger == visible_ledger
           answered == answered_claims
<1> USE DEF visible_ledger, answered_claims
<1>2. SInv /\ [Next]_vars /\ ~PowerFailure => [Ledger!Next]_<<ledger, answered>>
  <2> SUFFICES ASSUME SInv, [Next]_vars, ~PowerFailure
               PROVE  Ledger!Next \/ (ledger' = ledger /\ answered' = answered)
    OBVIOUS
  <2>1. ASSUME NEW p \in Procs, Rename(p)
        PROVE  Ledger!Next \/ (ledger' = ledger /\ answered' = answered)
    <3>1. answered' = answered
      BY <2>1 DEF Rename
    <3>2. CASE dir.active = None
      BY <2>1, <3>1, <3>2, RenameExtends
    <3>3. CASE dir.active # None
      <4>1. /\ req[p] \in Requests
            /\ preflight_issue(dir.active.snap, req[p])
            /\ ledger = dir.active.snap.records
            /\ ledger' = with_issued_record(dir.active.snap, req[p]).records
        BY <2>1, <3>3, RenameExtends
      <4> DEFINE epoch == dir.active.snap.high_water + 1
      <4>2. /\ {r.epoch : r \in ledger} = 1..(epoch - 1)
            /\ epoch \in 1..MaxRecords
        <5>1. dir.active.snap \in Snapshots /\ validate(dir.active.snap)
          BY <2>1, <3>3, RenameExtends
        <5>2. {r.epoch : r \in dir.active.snap.records} = 1..dir.active.snap.high_water
          BY <5>1, ValidEpochs
        <5> QED BY <4>1, <5>1, <5>2, MaxRecordsAssumption DEF preflight_issue, Snapshots
      <4>3. ledger' = ledger \cup {[op |-> req[p].op, digest |-> req[p].digest,
                                    epoch |-> epoch, supersedes |-> epoch - 1]}
        <5>1. dir.active.snap.high_water \in Nat
          BY <2>1, <3>3, RenameExtends DEF Snapshots
        <5>2. epoch - 1 = dir.active.snap.high_water
          BY <5>1
        <5> QED BY <4>1, <5>2 DEF with_issued_record
      <4>4. Ledger!Issue(req[p].op, req[p].digest, epoch)
        BY <3>1, <4>1, <4>2, <4>3 DEF preflight_issue, Ledger!Issue
      <4> QED BY <4>1, <4>2, <4>4 DEF Requests, Ledger!Next
    <3> QED BY <3>2, <3>3
  <2>2. ASSUME NEW r \in ledger, NEW k, replies' = replies \cup {Reply(r, k)},
               r \in Records, dir' = dir
        PROVE  Ledger!Next
    <3>1. answered' = answered \cup {r}
      BY <2>2, ClaimOfReply
    <3>2. Ledger!Answer(r)
      BY <2>2, <3>1 DEF Ledger!Answer
    <3> QED BY <3>2 DEF Ledger!Next
  <2>3. ASSUME NEW p \in Procs, NEW q \in Requests, AcquireReplay(p, q) PROVE Ledger!Next
    <3>1. PICK r \in preflight_replay(mem[p], q) :
            replies' = replies \cup {Reply(r, "Replayed")}
      BY <2>3 DEF AcquireReplay
    <3>2. r \in ledger /\ r \in Records /\ dir' = dir
      BY <2>3 DEF AcquireReplay, revalidate_current, preflight_replay, SInv, IInv,
         TypeOK, Directories, Files, Snapshots
    <3> QED BY <2>2, <3>1, <3>2
  <2>4. ASSUME NEW p \in Procs, ReplyIssued(p) PROVE Ledger!Next
    <3>1. PICK r \in preflight_replay(tmp[p].snap, req[p]) :
            replies' = replies \cup {Reply(r, "Issued")}
      BY <2>4 DEF ReplyIssued
    <3>2. r \in ledger /\ r \in Records /\ dir' = dir
      BY <2>4 DEF ReplyIssued, preflight_replay, SInv, IInv, TypeOK, MemInv, TmpInv,
         TmpInvOf, Working, Directories, Files, Snapshots
    <3> QED BY <2>2, <3>1, <3>2
  <2>5. CASE /\ ~ \E p \in Procs : Rename(p)
             /\ ~ \E p \in Procs : ReplyIssued(p) \/ \E q \in Requests : AcquireReplay(p, q)
             /\ Next
    <3>1. dir'.active = dir.active
      BY <2>5, OnlyRenameChangesActive DEF SInv
    <3>2. replies' = replies
      BY <2>5 DEF Next, Step, Initialize, Open, OpenFailsInCleanup, AcquireIssue,
         CreateTemp, SyncTemp, SyncDirectory, FinishInitialize, ReconstructReceipt,
         ProcessExit, PowerFailure
    <3> QED BY <3>1, <3>2
  <2>6. CASE UNCHANGED vars
    BY <2>6 DEF vars
  <2> QED BY <2>1, <2>3, <2>4, <2>5, <2>6
<1> QED BY <1>2

\* The authority starts as the abstract ledger does.
LEMMA InitRefines == Init => Ledger!Init
BY DEF Init, Ledger!Init, visible_ledger, answered_claims

\* The authority, with any number of processes that crash and restart at any step,
\* implements the append-only ledger; only a power failure sets the ledger back.
THEOREM RefinesLedger == Spec => ImplementsLedger
BY InitRefines, StepRefines, SuccessorInvariance, PTL DEF Spec, ImplementsLedger

\* While the power holds, every behaviour of the authority is one of the ledger.
THEOREM LedgerWhilePowered ==
  ASSUME ~PowerLoss
  PROVE  Spec => Ledger!Spec
<1>1. SInv /\ [Next]_vars => [Ledger!Next]_<<visible_ledger, answered_claims>>
  BY StepRefines DEF PowerFailure
<1> QED BY <1>1, InitRefines, SuccessorInvariance, PTL DEF Spec, Ledger!Spec

=============================================================================
