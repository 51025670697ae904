--------------------------- MODULE TenureAuthority ---------------------------
(***************************************************************************)
(* The DeploymentTenureAuthority process and its durable store             *)
(* (crates/paraegox-deployment/src/tenure_authority).  A process takes the  *)
(* advisory store lock, reads the active snapshot, and serves acquire      *)
(* requests one at a time.  Issuing an epoch publishes a successor         *)
(* snapshot: a temporary file is created, synced, renamed over the active  *)
(* name, and the directory is synced; only then is the response released.  *)
(*                                                                         *)
(* The file system is the part of ext4 that the code relies on.  "dir" is  *)
(* what a running process sees.  "onDisk" holds every directory state that *)
(* a power failure may leave: directory operations join it in order, and a *)
(* directory sync leaves the current one alone.  A file that was not       *)
(* synced is unreadable after a power failure.                             *)
(*                                                                         *)
(* A failed step of the store stops its owner, and the serving process     *)
(* exits on it (fatal_authority_error), which the lock and the disk cannot *)
(* tell from a crash at that step: both are ProcessExit.  Requests that    *)
(* are refused (policy, conflict, capacity, response bound) change no      *)
(* state and are the requests no action accepts.                           *)
(***************************************************************************)
EXTENDS Integers, FiniteSets, TLC

CONSTANTS
  Procs,        \* operating-system processes that may run the authority binary
  Ops,          \* acquire operation ids
  Digests,      \* request digests an operation id may arrive with
  StoreIds,     \* random store instance ids
  MaxRecords,   \* MAX_RETAINED_ACQUIRE_RECORDS
  MaxOrphans,   \* MAX_ORPHAN_TEMP_FILES
  PowerLoss,    \* whether the machine may lose power
  None          \* absent file, owner, snapshot or request

ASSUME MaxRecordsAssumption == MaxRecords \in Nat
ASSUME MaxOrphansAssumption == MaxOrphans \in Nat \ {0}
ASSUME PowerLossAssumption == PowerLoss \in BOOLEAN

VARIABLES
  dir,        \* the store directory as running processes see it
  onDisk,     \* the directory states a power failure may leave
  lock,       \* the process that holds the advisory lock, or None
  pc,         \* where each process is
  mem,        \* AuthorityStore.snapshot of each process
  req,        \* the request a process serves; None while it initializes
  tmp,        \* the file a process is publishing
  replies,    \* responses released to clients, ever
  receipts    \* initialization receipts released, ever

vars == <<dir, onDisk, lock, pc, mem, req, tmp, replies, receipts>>

Requests == [op : Ops, digest : Digests]

Records == [op : Ops, digest : Digests, epoch : Nat, supersedes : Nat]

Snapshots ==
  [store : StoreIds, sequence : Nat, high_water : Nat, records : SUBSET Records]

Files == [snap : Snapshots, synced : BOOLEAN]

Directories == [lock_file : BOOLEAN, active : Files \cup {None}, temps : Nat]

ASSUME NoneAssumption == None \notin Procs \cup Requests \cup Snapshots \cup Files

Phases == {"Down", "Serving", "Publish", "TempCreated", "TempSynced", "Renamed",
           "Durable"}

(***************************************************************************)
(* The snapshot model.                                                     *)
(***************************************************************************)
initial(s) == [store |-> s, sequence |-> 1, high_water |-> 0, records |-> {}]

\* AuthoritySnapshot::validate: one record per operation id, the epochs are
\* exactly 1..high_water, and every proof supersedes all earlier epochs.
validate(s) ==
  /\ s.high_water <= MaxRecords
  /\ s.sequence = s.high_water + 1
  /\ \A r1, r2 \in s.records : r1.op = r2.op => r1 = r2
  /\ \A r1, r2 \in s.records : r1.epoch = r2.epoch => r1 = r2
  /\ \A r \in s.records : /\ r.epoch \in 1..s.high_water
                          /\ r.supersedes = r.epoch - 1
  /\ \A e \in 1..s.high_water : \E r \in s.records : r.epoch = e

\* AuthoritySnapshot::preflight, Replay: the exact operation was issued before.
preflight_replay(s, q) ==
  {r \in s.records : r.op = q.op /\ r.digest = q.digest}

MutPreflightIssueIgnoresConflict(s, q) ==
  /\ preflight_replay(s, q) = {}
  /\ s.high_water < MaxRecords

\* AuthoritySnapshot::preflight, Issue: a new operation id within capacity.
preflight_issue(s, q) ==
  /\ \A r \in s.records : r.op # q.op
  /\ s.high_water < MaxRecords

\* AuthoritySnapshot::with_issued_record
with_issued_record(s, q) ==
  [store |-> s.store,
   sequence |-> s.sequence + 1,
   high_water |-> s.high_water + 1,
   records |-> s.records \cup {[op |-> q.op, digest |-> q.digest,
                                epoch |-> s.high_water + 1,
                                supersedes |-> s.high_water]}]

\* The response a client is given for a record: the proof's claim.
Reply(r, kind) ==
  [op |-> r.op, digest |-> r.digest, epoch |-> r.epoch,
   supersedes |-> r.supersedes, disposition |-> kind]

Claim(r) ==
  [op |-> r.op, digest |-> r.digest, epoch |-> r.epoch, supersedes |-> r.supersedes]

ReplyValues ==
  [op : Ops, digest : Digests, epoch : Nat, supersedes : Nat,
   disposition : {"Issued", "Replayed"}]

ReceiptValues == [store : StoreIds, kind : {"Initialized", "Reconstructed"}]

(***************************************************************************)
(* The file system.                                                        *)
(***************************************************************************)
\* A directory operation (create, rename, unlink) is visible at once and may or
\* may not survive a power failure until the directory is synced.
Change(d) ==
  /\ dir' = d
  /\ onDisk' = onDisk \cup {d}

Sync == onDisk' = {dir}

\* What is left of a directory state by a power failure.
AfterPowerFailure(d) ==
  IF d.active # None /\ ~d.active.synced THEN [d EXCEPT !.active = None] ELSE d

(***************************************************************************)
(* Processes.                                                              *)
(***************************************************************************)
Init ==
  /\ dir = [lock_file |-> FALSE, active |-> None, temps |-> 0]
  /\ onDisk = {dir}
  /\ lock = None
  /\ pc = [p \in Procs |-> "Down"]
  /\ mem = [p \in Procs |-> None]
  /\ req = [p \in Procs |-> None]
  /\ tmp = [p \in Procs |-> None]
  /\ replies = {}
  /\ receipts = {}

\* initialize_with: only a directory with no entry at all is initialized; the
\* lock file is created exclusively and held while sequence one is published.
Initialize(p) ==
  /\ pc[p] = "Down"
  /\ ~dir.lock_file /\ dir.active = None /\ dir.temps = 0
  /\ lock = None
  /\ Change([dir EXCEPT !.lock_file = TRUE])
  /\ lock' = p
  /\ \E s \in StoreIds \ {r.store : r \in receipts} :
       tmp' = [tmp EXCEPT ![p] = [snap |-> initial(s), synced |-> FALSE]]
  /\ pc' = [pc EXCEPT ![p] = "Publish"]
  /\ UNCHANGED <<mem, req, replies, receipts>>

MutOpenKeepsOrphans(p) ==
  /\ pc[p] = "Down"
  /\ dir.lock_file /\ lock = None
  /\ dir.active # None
  /\ dir.temps <= MaxOrphans
  /\ lock' = p
  /\ mem' = [mem EXCEPT ![p] = dir.active.snap]
  /\ pc' = [pc EXCEPT ![p] = "Serving"]
  /\ UNCHANGED <<dir, onDisk, req, tmp, replies, receipts>>

\* AuthorityStore::open_validated: take the lock, read the active snapshot,
\* unlink the orphaned temporary files, and sync the directory when there were
\* any.
Open(p) ==
  /\ pc[p] = "Down"
  /\ dir.lock_file /\ lock = None
  /\ dir.active # None
  /\ dir.temps <= MaxOrphans
  /\ lock' = p
  /\ mem' = [mem EXCEPT ![p] = dir.active.snap]
  /\ pc' = [pc EXCEPT ![p] = "Serving"]
  /\ \/ /\ dir.temps = 0
        /\ UNCHANGED <<dir, onDisk>>
     \/ /\ dir.temps > 0
        /\ dir' = [dir EXCEPT !.temps = 0]
        /\ onDisk' = {dir'}
  /\ UNCHANGED <<req, tmp, replies, receipts>>

\* clean_valid_orphan_temps stopped half way (an error or a crash): some of the
\* orphans are unlinked, the directory is not synced, and the open fails.
OpenFailsInCleanup(p) ==
  /\ pc[p] = "Down"
  /\ dir.lock_file /\ lock = None
  /\ dir.active # None
  /\ dir.temps \in 1..MaxOrphans
  /\ \E n \in 0..(dir.temps - 1) : Change([dir EXCEPT !.temps = n])
  /\ UNCHANGED <<lock, pc, mem, req, tmp, replies, receipts>>

\* AuthorityStore::revalidate_current: the disk still holds the snapshot in
\* memory.  Otherwise the store stops and the process exits (ProcessExit).
revalidate_current(p) == dir.active # None /\ dir.active.snap = mem[p]

\* acquire_with_failpoint, Replay: the stored response is returned as it is.
AcquireReplay(p, q) ==
  /\ pc[p] = "Serving"
  /\ revalidate_current(p)
  /\ \E r \in preflight_replay(mem[p], q) :
       replies' = replies \cup {Reply(r, "Replayed")}
  /\ UNCHANGED <<dir, onDisk, lock, pc, mem, req, tmp, receipts>>

\* acquire_with_failpoint, Issue, up to the second revalidation in
\* AuthorityStore::commit: the successor is signed, built and validated.
AcquireIssue(p, q) ==
  /\ pc[p] = "Serving"
  /\ revalidate_current(p)
  /\ preflight_issue(mem[p], q)
  /\ req' = [req EXCEPT ![p] = q]
  /\ tmp' = [tmp EXCEPT ![p] = [snap |-> with_issued_record(mem[p], q), synced |-> FALSE]]
  /\ pc' = [pc EXCEPT ![p] = "Publish"]
  /\ UNCHANGED <<dir, onDisk, lock, mem, replies, receipts>>

\* publish_atomic, to the complete write of the temporary file.
CreateTemp(p) ==
  /\ pc[p] = "Publish"
  /\ IF req[p] = None THEN dir.active = None ELSE revalidate_current(p)
  /\ Change([dir EXCEPT !.temps = @ + 1])
  /\ pc' = [pc EXCEPT ![p] = "TempCreated"]
  /\ UNCHANGED <<lock, mem, req, tmp, replies, receipts>>

\* publish_atomic: fsync of the temporary file.
SyncTemp(p) ==
  /\ pc[p] = "TempCreated"
  /\ tmp' = [tmp EXCEPT ![p] = [snap |-> tmp[p].snap, synced |-> TRUE]]
  /\ pc' = [pc EXCEPT ![p] = "TempSynced"]
  /\ UNCHANGED <<dir, onDisk, lock, mem, req, replies, receipts>>

\* publish_atomic: rename over the active name (a fresh store checks once more
\* that the name is missing).
Rename(p) ==
  /\ pc[p] = "TempSynced"
  /\ req[p] = None => dir.active = None
  /\ Change([lock_file |-> dir.lock_file, active |-> tmp[p], temps |-> dir.temps - 1])
  /\ pc' = [pc EXCEPT ![p] = "Renamed"]
  /\ UNCHANGED <<lock, mem, req, tmp, replies, receipts>>

MutSyncDirectorySkipped(p) ==
  /\ pc[p] = "Renamed"
  /\ mem' = [mem EXCEPT ![p] = tmp[p].snap]
  /\ pc' = [pc EXCEPT ![p] = "Durable"]
  /\ UNCHANGED <<dir, onDisk, lock, req, tmp, replies, receipts>>

\* publish_atomic: sync of the directory; the commit is then in memory too.
SyncDirectory(p) ==
  /\ pc[p] = "Renamed"
  /\ Sync
  /\ mem' = [mem EXCEPT ![p] = tmp[p].snap]
  /\ pc' = [pc EXCEPT ![p] = "Durable"]
  /\ UNCHANGED <<dir, lock, req, tmp, replies, receipts>>

\* The committed response is released and the next request is awaited.
ReplyIssued(p) ==
  /\ pc[p] = "Durable"
  /\ req[p] # None
  /\ \E r \in preflight_replay(tmp[p].snap, req[p]) :
       replies' = replies \cup {Reply(r, "Issued")}
  /\ pc' = [pc EXCEPT ![p] = "Serving"]
  /\ req' = [req EXCEPT ![p] = None]
  /\ tmp' = [tmp EXCEPT ![p] = None]
  /\ UNCHANGED <<dir, onDisk, lock, mem, receipts>>

\* initialize_with returns the receipt, and the command exits.
FinishInitialize(p) ==
  /\ pc[p] = "Durable"
  /\ req[p] = None
  /\ receipts' = receipts \cup {[store |-> tmp[p].snap.store, kind |-> "Initialized"]}
  /\ lock' = None
  /\ pc' = [pc EXCEPT ![p] = "Down"]
  /\ mem' = [mem EXCEPT ![p] = None]
  /\ tmp' = [tmp EXCEPT ![p] = None]
  /\ UNCHANGED <<dir, onDisk, req, replies>>

\* reconstruct_sequence_one_initialization_receipt, by a process that owns the
\* store: the receipt of a store that has issued nothing is derived again.
ReconstructReceipt(p) ==
  /\ pc[p] = "Serving"
  /\ mem[p] = initial(mem[p].store)
  /\ receipts' = receipts \cup {[store |-> mem[p].store, kind |-> "Reconstructed"]}
  /\ lock' = None
  /\ pc' = [pc EXCEPT ![p] = "Down"]
  /\ mem' = [mem EXCEPT ![p] = None]
  /\ UNCHANGED <<dir, onDisk, req, tmp, replies>>

\* A crash, a signal, or a store error at any step: the kernel drops the lock,
\* the temporary file stays.
ProcessExit(p) ==
  /\ pc[p] # "Down"
  /\ lock' = IF lock = p THEN None ELSE lock
  /\ pc' = [pc EXCEPT ![p] = "Down"]
  /\ mem' = [mem EXCEPT ![p] = None]
  /\ req' = [req EXCEPT ![p] = None]
  /\ tmp' = [tmp EXCEPT ![p] = None]
  /\ UNCHANGED <<dir, onDisk, replies, receipts>>

\* The machine loses power: every process is gone, and the directory is one of
\* the states that the disk may hold.
PowerFailure ==
  /\ PowerLoss
  /\ \E d \in onDisk : dir' = AfterPowerFailure(d)
  /\ onDisk' = {dir'}
  /\ lock' = None
  /\ pc' = [p \in Procs |-> "Down"]
  /\ mem' = [p \in Procs |-> None]
  /\ req' = [p \in Procs |-> None]
  /\ tmp' = [p \in Procs |-> None]
  /\ UNCHANGED <<replies, receipts>>

Step(p) ==
  \/ Initialize(p)
  \/ Open(p)
  \/ OpenFailsInCleanup(p)
  \/ \E q \in Requests : AcquireReplay(p, q) \/ AcquireIssue(p, q)
  \/ CreateTemp(p)
  \/ SyncTemp(p)
  \/ Rename(p)
  \/ SyncDirectory(p)
  \/ ReplyIssued(p)
  \/ FinishInitialize(p)
  \/ ReconstructReceipt(p)
  \/ ProcessExit(p)

Next == (\E p \in Procs : Step(p)) \/ PowerFailure

Spec == Init /\ [][Next]_vars

(***************************************************************************)
(* Properties.                                                             *)
(***************************************************************************)
\* The shape of the state.
TypeOK ==
  /\ dir \in Directories
  /\ onDisk \subseteq Directories
  /\ lock \in Procs \cup {None}
  /\ pc \in [Procs -> Phases]
  /\ mem \in [Procs -> Snapshots \cup {None}]
  /\ req \in [Procs -> Requests \cup {None}]
  /\ tmp \in [Procs -> Files \cup {None}]
  /\ replies \subseteq ReplyValues
  /\ receipts \subseteq ReceiptValues

\* Every snapshot that a process holds or that the disk may hold passes
\* AuthoritySnapshot::validate, so that a restart never finds a store that it
\* must refuse: the ledger is gap-free and has one record per operation.
SnapshotsValid ==
  /\ \A p \in Procs : mem[p] # None => validate(mem[p])
  /\ \A d \in onDisk \cup {dir} : d.active # None => validate(d.active.snap)

\* The advisory lock makes the store single-writer: at most one process is past
\* open_validated (or in initialize_with) at any time.
SingleOwner ==
  \A p, q \in Procs : pc[p] # "Down" /\ pc[q] # "Down" => p = q

\* Across all restarts, an operation id is answered with one epoch only, and an
\* epoch is given to one operation only, whoever answered and however often.
EpochsNeverReissued ==
  \A r1, r2 \in replies :
    (r1.op = r2.op \/ r1.epoch = r2.epoch) =>
       /\ r1.op = r2.op
       /\ r1.digest = r2.digest
       /\ r1.epoch = r2.epoch
       /\ r1.supersedes = r2.supersedes

\* Commit before reply: a response that was issued is a record of every state
\* that the disk may hold, so that no later crash or power failure undoes it.
IssuedRepliesDurable ==
  \A r \in replies : r.disposition = "Issued" =>
    \A d \in onDisk \cup {dir} :
      /\ d.active # None
      /\ Claim(r) \in d.active.snap.records

\* The store whose receipt initialize_with returned is never lost and never
\* replaced by another store instance.
InitializedStoreStable ==
  \A r \in receipts : r.kind = "Initialized" =>
    \A d \in onDisk \cup {dir} :
      d.active # None /\ d.active.snap.store = r.store

\* What the authority has given out is never taken back by a crash or a power
\* failure: neither an issued response nor the store of a receipt.
ReturnedIsDurable == IssuedRepliesDurable /\ InitializedStoreStable

\* Crashes and power failures at any step, of a publication or of the clean-up
\* after one, leave a store that the next open accepts: an active snapshot whose
\* bytes were synced before the rename and that passes validate, and no more
\* temporary files than MAX_ORPHANS.
StoreStaysOpenable ==
  \A d \in onDisk \cup {dir} :
    /\ d.active # None => d.active.synced /\ validate(d.active.snap)
    /\ d.temps <= MaxOrphans

\* While the power holds, no step removes or alters a committed record or moves
\* the epoch high water down.
LedgerAppendOnly ==
  [][dir.active # None =>
       /\ dir'.active # None
       /\ dir.active.snap.records \subseteq dir'.active.snap.records
       /\ dir.active.snap.high_water <= dir'.active.snap.high_water]_vars

\* What a client can tell of the authority: the records of the visible snapshot
\* and the answers given.
visible_ledger == IF dir.active = None THEN {} ELSE dir.active.snap.records
answered_claims == {Claim(r) : r \in replies}

Ledger == INSTANCE TenureLedger WITH ledger <- visible_ledger, answered <- answered_claims

\* The authority with all its processes, crashes and restarts implements one
\* append-only ledger whose records it copies into its answers; the rename in
\* publish_atomic is the step that appends.  Only a power failure may set the
\* ledger back, and what follows it is again a step of the ledger.
ImplementsLedger ==
  Ledger!Init /\ [][Ledger!Next \/ PowerFailure]_<<visible_ledger, answered_claims>>

\* Processes, operations, digests and store ids are interchangeable.
Symmetry ==
  Permutations(Procs) \cup Permutations(Ops) \cup Permutations(Digests)
    \cup Permutations(StoreIds)

=============================================================================
