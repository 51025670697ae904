--------------------------- MODULE StoreLifecycle ----------------------------
(***************************************************************************)
(* The life of one durable store, the runtime's or the controller's:       *)
(* processes that initialize it, open it and commit to it, migrate it or   *)
(* recover its first receipt, each one system call at a time, beside I/O   *)
(* errors, process exits at any call and power failures.                   *)
(***************************************************************************)
EXTENDS StoreDisk, TLC

CONSTANTS
  Kinds,        \* which of "runtime" and "controller" are checked
  Processes,    \* processes that may run at once
  StoreIds,     \* store identities the entropy source may give
  Owner,        \* the owner or target fingerprint the store is made for
  Environments, \* what the processes find the two directories to be
  MaxAttempts,  \* commits tried
  MaxFaults     \* I/O errors, exits and power failures

VARIABLES
  kind,    \* whose store this is
  m,       \* directories, lock and environment
  procs,   \* the running programs
  log      \* what was reported, for the properties

vars == <<kind, m, procs, log>>

Runtime == INSTANCE RuntimeStore
Controller == INSTANCE ControllerStore

-----------------------------------------------------------------------------
OldVersion(k) == IF k = "runtime" THEN 3 ELSE 7
KindMigrations(k) == Migrations \cap
  IF k = "runtime" THEN {"PayloadV3ToV4", "PayloadV4ToV5"} ELSE {"PayloadV7ToV8"}

OldStore(k, store) ==
  [lock_file |-> TRUE, active |-> SyncedFile(Snapshot(OldVersion(k), store, Owner, 1, 0)), temps |-> 0]

EmptyLog == [reported |-> None, rejected |-> {}, renamed |-> {}, stranded |-> {}, attempts |-> 0, faults |-> 0]

\* A blank directory, or the store an earlier release left.
Init ==
  /\ kind \in Kinds
  /\ \E env \in Environments, d \in {EmptyStore} \cup {OldStore(kind, s) : s \in StoreIds \ {Zero}} :
       m = [env |-> env, store |-> Volume(d), evidence |-> Volume(EmptyEvidence), lock |-> None]
  /\ procs = [w \in Processes |-> Idle]
  /\ log = EmptyLog

-----------------------------------------------------------------------------
(* What a report adds to the log.  A migration of the controller's store   *)
(* that finds itself done answers without a directory sync: that answer    *)
(* promises nothing a power failure keeps, and is not counted as a report. *)
\* A migration that finds its own result, and refuses it.
Strands(w, says, l) ==
  /\ says.program = "migrate" /\ says.active # None
  /\ <<says.job, says.active.bytes>> \in l.renamed
  /\ m.lock = w

Heard(w, l, says) ==
  CASE says.what \in {"Initialized", "Committed"} -> [l EXCEPT !.reported = says.snapshot]
    [] says.what = "Migrated" \/ (says.what = "AlreadyMigrated" /\ kind = "runtime") ->
         [l EXCEPT !.reported = says.snapshot]
    [] says.what = "Rejected" /\ says.program = "serve" ->
         [l EXCEPT !.rejected = @ \cup {says.candidate}]
    [] says.what = "Refused" ->
         [l EXCEPT !.stranded = IF Strands(w, says, l) THEN @ \cup {says.job} ELSE @]
    [] OTHER -> l

\* A migration's result has become the active file.
Renames(l, p, after) ==
  IF p.program = "migrate" /\ p.pc = "TempSynced" /\ after.pc = "Renamed"
  THEN [l EXCEPT !.renamed = @ \cup {<<p.job, p.next>>}] ELSE l

Take(w, step, l) ==
  /\ m' = step.m
  /\ procs' = [procs EXCEPT ![w] = step.p]
  /\ log' = Renames(Heard(w, l, step.says), procs[w], step.p)
  /\ UNCHANGED kind

Faulted == [log EXCEPT !.faults = @ + 1]

-----------------------------------------------------------------------------
(* Actions.                                                                *)
Launch(w, program, job, store) ==
  /\ procs[w].pc = "Down"
  /\ procs' = [procs EXCEPT ![w] = [Idle EXCEPT !.program = program, !.pc = "Start", !.job = job,
                                                !.expected = [store |-> store, owner |-> Owner]]]
  /\ UNCHANGED <<kind, m, log>>

LaunchInitializer(w) == \E s \in StoreIds : Launch(w, "initialize", None, s)
LaunchServer(w) == \E s \in StoreIds : Launch(w, "serve", None, s)
LaunchRecovery(w) == kind = "controller" /\ Launch(w, "recover", None, Zero)
LaunchMigration(w) ==
  \E k \in KindMigrations(kind), id \in MigrationIds, s \in StoreIds : Launch(w, "migrate", <<k, id>>, s)

Proceed(w) ==
  \E step \in IF kind = "runtime" THEN Runtime!ProgramStep(m, w, procs[w])
              ELSE Controller!ProgramStep(m, w, procs[w]) : Take(w, step, log)

\* The owner commits a successor no earlier attempt proposed.
Commit(w) ==
  /\ procs[w].program = "serve" /\ procs[w].pc = "Serving"
  /\ log.attempts < MaxAttempts
  /\ LET next == [procs[w].mem EXCEPT !.sequence = @ + 1, !.body = log.attempts + 1] IN
     \E step \in IF kind = "runtime" THEN Runtime!commit(m, w, procs[w], next)
                 ELSE Controller!commit(m, w, procs[w], next) :
       Take(w, step, [log EXCEPT !.attempts = @ + 1])

IoError(w) ==
  /\ procs[w].pc \notin {"Down", "Serving", "Stopped"}
  /\ log.faults < MaxFaults
  /\ \E step \in IF kind = "runtime" THEN Runtime!IoFailure(m, w, procs[w])
                 ELSE Controller!IoFailure(m, w, procs[w]) : Take(w, step, Faulted)

\* A process ends; the kernel releases its lock.  A store that serves or has
\* stopped may also simply be closed.
Exit(w) ==
  /\ procs[w].pc # "Down"
  /\ procs[w].pc \notin {"Serving", "Stopped"} => log.faults < MaxFaults
  /\ m' = Unlock(m, w)
  /\ procs' = [procs EXCEPT ![w] = Idle]
  /\ log' = IF procs[w].pc \in {"Serving", "Stopped"} THEN log ELSE Faulted
  /\ UNCHANGED kind

PowerFailure ==
  /\ log.faults < MaxFaults
  /\ \E s \in m.store.may, e \in m.evidence.may :
       m' = [m EXCEPT !.store = Volume(StoreAfterPowerFailure(s)),
                      !.evidence = Volume(EvidenceAfterPowerFailure(e)), !.lock = None]
  /\ procs' = [w \in Processes |-> Idle]
  /\ log' = Faulted
  /\ UNCHANGED kind

Next ==
  \/ \E w \in Processes :
       \/ LaunchInitializer(w) \/ LaunchServer(w) \/ LaunchRecovery(w) \/ LaunchMigration(w)
       \/ Proceed(w) \/ Commit(w) \/ IoError(w) \/ Exit(w)
  \/ PowerFailure

Spec == Init /\ [][Next]_vars

-----------------------------------------------------------------------------
(* Every directory the store may be found in: as it is, or after a power   *)
(* failure.                                                                *)
PossibleStores == {m.store.now} \cup {StoreAfterPowerFailure(d) : d \in m.store.may}
PossibleEvidence == {m.evidence.now} \cup {EvidenceAfterPowerFailure(d) : d \in m.evidence.may}

\* A later state of the same store.
Follows(after, before) ==
  /\ after.store = before.store /\ after.owner = before.owner
  /\ after.version >= before.version /\ after.sequence >= before.sequence
  /\ after.sequence = before.sequence => after.body = before.body

\* What an initializer, a commit or a migration answered for is never lost:
\* whatever interrupts the machine, the store is found holding that snapshot or
\* a later one of the same instance (publish_atomic, publish_controller_snapshot:
\* file sync, rename, directory sync, and only then the answer).
ReportedIsDurable ==
  log.reported # None =>
    \A d \in PossibleStores : d.lock_file /\ d.active # None /\ Follows(d.active.bytes, log.reported)

\* A commit answered RejectedBeforePublish has not happened and never will: no
\* restart finds its snapshot active, so that the owner may build another
\* successor in its place.
RejectedStaysOut ==
  \A d \in PossibleStores : d.active # None => d.active.bytes \notin log.rejected

\* A store that was ever complete can be opened again by some program: its
\* active file is whole, and no crash sequence piles up more orphans than a
\* start will clean (MAX_ORPHAN_TEMP_FILES, MAX_MIGRATION_EVIDENCE_ORPHAN_TEMPS).
StoreStaysOpenable ==
  /\ \A d \in PossibleStores :
       d.temps <= MaxTemps /\ (d.active # None => d.lock_file /\ d.active.bytes # Torn)
  /\ \A d \in PossibleEvidence : \A j \in Jobs : d.temps[j] <= MaxEvidenceTemps

\* An open runtime store serves a snapshot that no power failure takes back,
\* even when the process before it died between its rename and its directory
\* sync (clean_valid_orphan_temps syncs whether or not it removed anything).
OpenedIsDurable ==
  \A w \in Processes : procs[w].pc = "Serving" /\ kind = "runtime" =>
    \A d \in PossibleStores : d.active # None /\ d.active.bytes = procs[w].mem

\* A migration of the controller's store that was interrupted at any call, or
\* whose answer was lost, can be run again under its id: it is never told that
\* the snapshot it made itself is unverified.
RetryIsAccepted == kind = "controller" => log.stranded = {}

\* A store keeps its word: what was reported stays, what was rejected stays
\* out, and what an open runtime store serves no power failure takes back.
StoreKeepsItsWord == ReportedIsDurable /\ RejectedStaysOut /\ OpenedIsDurable

\* No interruption locks a store out: it opens again, and an interrupted
\* migration of the controller's store can be run again.
StoreStaysUsable == StoreStaysOpenable /\ RetryIsAccepted

-----------------------------------------------------------------------------
(* Small instances of StoreLifecycle.                                      *)

Ancestor(uid, shared, sticky, type) ==
  [component |-> "normal", type |-> type, uid |-> uid, shared |-> shared, sticky |-> sticky]

MountLine(id, type) ==
  [id |-> id, parent |-> 1, device |-> TRUE, before_dash |-> 4, dash |-> TRUE, after_dash |-> <<type, "disk", "rw">>]

GoodDirectory ==
  [absolute |-> TRUE,
   path |-> <<Ancestor(0, FALSE, FALSE, "dir"), Ancestor(0, TRUE, TRUE, "dir"), Ancestor(9, FALSE, FALSE, "dir")>>,
   type |-> "dir", uid |-> 9, gid |-> 9, mode |-> "0700", magic |-> "ext4",
   lock_metadata |-> [type |-> "file", links |-> 1, uid |-> 9, gid |-> 9, mode |-> "0600"],
   fdinfo |-> [terminated |-> TRUE, lines |-> <<[key |-> "pos", value |-> 0], [key |-> "mnt_id", value |-> 5]>>],
   mountinfo |-> [terminated |-> TRUE, lines |-> <<MountLine(4, "tmpfs"), MountLine(5, "ext4")>>]]

GoodEnvironment ==
  [uid |-> 9, gid |-> 9, store |-> GoodDirectory, evidence |-> GoodDirectory, same_directory |-> FALSE]

\* One wrong fact each: a second record of the mount, a foreign ancestor, a
\* readable lock file, one directory for both purposes.
MCEnvironments ==
  {GoodEnvironment,
   [GoodEnvironment EXCEPT !.store.mountinfo.lines = Append(@, MountLine(5, "ext4"))],
   [GoodEnvironment EXCEPT !.store.path[3].uid = 7],
   [GoodEnvironment EXCEPT !.evidence.fdinfo.lines = <<[key |-> "pos", value |-> 0]>>],
   [GoodEnvironment EXCEPT !.store.lock_metadata.mode = "0644"],
   [GoodEnvironment EXCEPT !.same_directory = TRUE]}

Symmetry == Permutations(Processes)
=============================================================================
