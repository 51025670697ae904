---------------------------- MODULE RuntimeStore ----------------------------
(***************************************************************************)
(* The runtime's durable store (runtime_store.rs) and its initializer      *)
(* (runtime_initializer.rs).  A program is a process whose "pc" names the  *)
(* next system call that matters; every operator below takes the machine,  *)
(* the process and its name and gives the set of steps it may take.  An    *)
(* empty result of a check is an error return.                             *)
(***************************************************************************)
EXTENDS StoreDisk

If(c, v) == IF c THEN {v} ELSE {}

-----------------------------------------------------------------------------
(* Proof that a directory is on ext4.  A line of fdinfo is [key, value], a *)
(* line of mountinfo the fields it splits into; a value that is not a      *)
(* positive decimal is 0.  An empty line is a record with no fields.       *)
MAX_LINUX_FDINFO_RECORDS == 256
MAX_LINUX_MOUNTINFO_RECORDS == 4096

parse_linux_fdinfo_mount_id(text) ==
  LET ids == {i \in DOMAIN text.lines : text.lines[i].key = "mnt_id"} IN
  IF /\ text.terminated /\ text.lines # <<>> /\ Len(text.lines) <= MAX_LINUX_FDINFO_RECORDS
     /\ \A i \in DOMAIN text.lines : text.lines[i].key # ""
     /\ \A i \in ids : text.lines[i].value # 0
     /\ Cardinality(ids) = 1
  THEN {text.lines[i].value : i \in ids} ELSE {}

parse_linux_mountinfo_line(line) ==
  /\ line.id # 0 /\ line.parent # 0 /\ line.device
  /\ line.before_dash >= 3 /\ line.dash
  /\ Len(line.after_dash) = 3

parse_linux_mountinfo_exact_ext4(text, id) ==
  /\ id # 0 /\ text.terminated /\ text.lines # <<>>
  /\ Len(text.lines) <= MAX_LINUX_MOUNTINFO_RECORDS
  /\ \A i \in DOMAIN text.lines : parse_linux_mountinfo_line(text.lines[i])
  /\ \E i \in DOMAIN text.lines :
        /\ text.lines[i].id = id /\ text.lines[i].after_dash[1] = "ext4"
        /\ \A j \in DOMAIN text.lines : text.lines[j].id = id => j = i

verify_linux_ext4_mount(dir) ==
  \E id \in parse_linux_fdinfo_mount_id(dir.fdinfo) : parse_linux_mountinfo_exact_ext4(dir.mountinfo, id)

verify_filesystem(dir) == dir.magic = "ext4" /\ verify_linux_ext4_mount(dir)

-----------------------------------------------------------------------------
(* Paths and metadata.                                                     *)
validate_lexical_absolute_path(dir) ==
  dir.absolute /\ \A i \in DOMAIN dir.path : dir.path[i].component = "normal"

validate_runtime_service_identity(env) == env.uid # 0 /\ env.gid # 0

validate_trusted_ancestor(a, uid) ==
  /\ a.type = "dir"
  /\ a.uid \in {0, uid}
  /\ a.shared => a.uid = 0 /\ a.sticky

validate_trusted_ancestor_chain(dir, uid) ==
  \A i \in DOMAIN dir.path : validate_trusted_ancestor(dir.path[i], uid)

validate_directory_metadata(dir, env) ==
  dir.type = "dir" /\ dir.uid = env.uid /\ dir.gid = env.gid /\ dir.mode = "0700"

validate_regular_file(f, env) ==
  f.type = "file" /\ f.links = 1 /\ f.uid = env.uid /\ f.gid = env.gid /\ f.mode = "0600"

open_runtime_directory(dir, env) ==
  /\ validate_lexical_absolute_path(dir)
  /\ validate_runtime_service_identity(env)
  /\ validate_trusted_ancestor_chain(dir, env.uid)
  /\ validate_directory_metadata(dir, env)
  /\ verify_filesystem(dir)

\* The lock file is there and is a private file of this service.
open_existing_lock(m) ==
  m.store.now.lock_file /\ validate_regular_file(m.env.store.lock_metadata, m.env)

-----------------------------------------------------------------------------
(* Payload versions and migrations.                                        *)
RUNTIME_JOURNAL_PAYLOAD_VERSION == 5

source_payload_version(kind) == CASE kind = "PayloadV3ToV4" -> 3 [] kind = "PayloadV4ToV5" -> 4
target_payload_version(kind) == CASE kind = "PayloadV3ToV4" -> 4 [] kind = "PayloadV4ToV5" -> 5

migrate_source(kind, bytes) ==
  If(bytes.version = source_payload_version(kind), [bytes EXCEPT !.version = target_payload_version(kind)])

decode_target(kind, bytes) == If(bytes.version = target_payload_version(kind), bytes)

\* Intact bytes of another version, as opposed to bytes nobody can read.
UnsupportedPayloadVersion(kind, bytes) == bytes.version \notin {0, target_payload_version(kind)}

MigrationIdentityMatches(snapshot, expected) ==
  snapshot.store = expected.store /\ snapshot.owner = expected.owner

RuntimeStoreMigrationReceipt_try_new(id, kind, source, target) ==
  If(/\ id # Zero
     /\ source.version = source_payload_version(kind)
     /\ source.store = target.store /\ source.owner = target.owner /\ source.sequence = target.sequence,
     [migration_id |-> id, source_payload_version |-> source.version, source_store |-> source.store,
      source_owner |-> source.owner, source_sequence |-> source.sequence, source_digest |-> <<source>>,
      target_payload_version |-> target_payload_version(kind), target_digest |-> <<target>>])

RuntimeStoreMigrationReceipt_decode_for_kind(bytes, kind) ==
  IF "migration_id" \in DOMAIN bytes
  THEN If(/\ bytes.migration_id # Zero
          /\ bytes.source_payload_version = source_payload_version(kind)
          /\ bytes.target_payload_version = target_payload_version(kind)
          /\ bytes.source_store # Zero /\ bytes.source_owner # Zero /\ bytes.source_sequence # 0, bytes)
  ELSE {}

\* A name in the evidence directory spells the migration, its id and the part.
migration_file_name_for(job, part) == <<job, part>>
migration_evidence_temp_prefix_for(job) == job

-----------------------------------------------------------------------------
(* Reading.                                                                *)
read_active_snapshot_bytes(m) ==
  IF m.store.now.active = None THEN {} ELSE {m.store.now.active.bytes}

read_active_snapshot(m) ==
  {b \in read_active_snapshot_bytes(m) : b.version = RUNTIME_JOURNAL_PAYLOAD_VERSION}

read_active_migration_target(m, kind) ==
  UNION {decode_target(kind, b) : b \in read_active_snapshot_bytes(m)}

read_read_only_migration_evidence(m, job, part) ==
  {f.bytes : f \in {m.evidence.now.files[migration_file_name_for(job, part)]} \ {None}}

read_runtime_migration_evidence_for(m, job) ==
  {<<s, r>> \in read_read_only_migration_evidence(m, job, "Source")
                \X UNION {RuntimeStoreMigrationReceipt_decode_for_kind(b, job[1]) :
                          b \in read_read_only_migration_evidence(m, job, "Receipt")} :
     r.migration_id = job[2] /\ r.source_digest = <<s>>}

-----------------------------------------------------------------------------
(* Orphan clean-up: {[m, ok]}.  An error after some unlinks leaves them    *)
(* undone or done, without the sync.                                       *)
SyncsOrphanCleanup(orphans) == TRUE

clean_valid_orphan_temps(m) ==
  LET d == m.store.now
      left(n) == [d EXCEPT !.temps = @ - n]
  IN  IF d.temps > MaxTemps THEN {[m |-> m, ok |-> FALSE]}
      ELSE {[m |-> [m EXCEPT !.store = IF SyncsOrphanCleanup(d.temps)
                                       THEN SyncVolume(Change(@, left(d.temps))) ELSE @],
             ok |-> TRUE]}
           \cup {[m |-> [m EXCEPT !.store = Change(@, left(n))], ok |-> FALSE] : n \in 0..d.temps}

clean_runtime_migration_evidence_temps_for(m, job) ==
  LET d == m.evidence.now
      left(n) == [d EXCEPT !.temps[migration_evidence_temp_prefix_for(job)] = @ - n]
  IN  IF d.temps[migration_evidence_temp_prefix_for(job)] > MaxEvidenceTemps THEN {[m |-> m, ok |-> FALSE]}
      ELSE IF d.temps[migration_evidence_temp_prefix_for(job)] = 0 THEN {[m |-> m, ok |-> TRUE]}
      ELSE LET all == d.temps[migration_evidence_temp_prefix_for(job)] IN
           {[m |-> [m EXCEPT !.evidence = SyncVolume(Change(@, left(all)))], ok |-> TRUE]}
           \cup {[m |-> [m EXCEPT !.evidence = Change(@, left(n))], ok |-> FALSE] : n \in 0..all}

-----------------------------------------------------------------------------
(* publish_atomic: temp file, file sync, rename, directory sync.           *)
RejectedBeforePublish(p) == [what |-> "Rejected", program |-> p.program, candidate |-> p.next]
UncertainAfterPublish(p) == [what |-> "Uncertain", program |-> p.program, candidate |-> p.next]

\* A failed publication stops an open store and ends the other programs.
PublishFails(m, who, p, failure) ==
  IF p.program = "serve" THEN {Say(m, [p EXCEPT !.pc = "Stopped", !.file = None], failure)}
  ELSE Return(m, who, failure)

validate_runtime_publish_precondition(m, p) ==
  IF p.program = "initialize" THEN m.store.now.active = None
  ELSE m.store.now.active # None /\ m.store.now.active.bytes = p.mem

publish_create_temp(m, who, p) ==
  IF validate_runtime_publish_precondition(m, p)
  THEN {Step([m EXCEPT !.store = Change(@, [@.now EXCEPT !.temps = @ + 1])],
             [p EXCEPT !.pc = "Written", !.file = File(p.next)])}
  ELSE PublishFails(m, who, p, RejectedBeforePublish(p))

MutPublishUnsyncedTemp(m, who, p) == {Step(m, [p EXCEPT !.pc = "TempSynced"])}
publish_sync_temp(m, who, p) == {Step(m, [p EXCEPT !.pc = "TempSynced", !.file.synced = TRUE])}

publish_temp_name(m, who, p) ==
  IF validate_runtime_publish_precondition(m, p)
  THEN {Step([m EXCEPT !.store = Change(@, [@.now EXCEPT !.active = p.file, !.temps = @ - 1])],
             [p EXCEPT !.pc = "Renamed", !.file = None])}
  ELSE PublishFails(m, who, p, RejectedBeforePublish(p))

MutSyncNoDirectory(m, who, p) == {Step(m, [p EXCEPT !.pc = "Published"])}
publish_sync_directory(m, who, p) ==
  {Step([m EXCEPT !.store = SyncVolume(@)], [p EXCEPT !.pc = "Published"])}

\* Which answer an I/O error of the publication gives.
publish_failure(m, who, p) ==
  PublishFails(m, who, p, IF p.pc \in {"Renamed", "Published"} THEN UncertainAfterPublish(p)
                          ELSE RejectedBeforePublish(p))

-----------------------------------------------------------------------------
(* Initialization: the marker is the lock file, created once and locked by *)
(* the process that created it.                                            *)
ensure_fresh_runtime_directory(m) == m.store.now = EmptyStore

build_sequence_one_snapshot(store, owner) ==
  Snapshot(RUNTIME_JOURNAL_PAYLOAD_VERSION, store, owner, 1, 0)

initializer_preflight(m, who, p) ==
  IF /\ open_runtime_directory(m.env.store, m.env) /\ ensure_fresh_runtime_directory(m)
     /\ p.expected.store # Zero
  THEN {Step(m, [p EXCEPT !.pc = "Fresh", !.next = build_sequence_one_snapshot(p.expected.store, p.expected.owner)])}
  ELSE Refuse(m, who, p)

initializer_create_marker(m, who, p) ==
  IF m.store.now.lock_file THEN Refuse(m, who, p)
  ELSE {Step([m EXCEPT !.store = Change(@, [@.now EXCEPT !.lock_file = TRUE])], [p EXCEPT !.pc = "Marker"])}

initializer_lock_marker(m, who, p) ==
  IF m.lock = None THEN {Step([m EXCEPT !.lock = who], [p EXCEPT !.pc = "Locked"])}
  ELSE Refuse(m, who, p)

validate_runtime_initializer_lock_is_only_entry(m) ==
  m.store.now = [EmptyStore EXCEPT !.lock_file = TRUE]

initializer_sync_marker(m, who, p) ==
  IF validate_runtime_initializer_lock_is_only_entry(m)
  THEN {Step([m EXCEPT !.store = SyncVolume(@)], [p EXCEPT !.pc = "Publish"])}
  ELSE Refuse([m EXCEPT !.store = SyncVolume(@)], who, p)

publish_sequence_one_read_back(m, who, p) ==
  IF read_active_snapshot(m) = {p.next}
  THEN Return(m, who, [what |-> "Initialized", snapshot |-> p.next])
  ELSE Return(m, who, UncertainAfterPublish(p))

-----------------------------------------------------------------------------
(* Opening the store and committing to it.                                 *)
open_and_lock(m, who, p) ==
  IF /\ p.expected.store # Zero /\ p.expected.owner # Zero
     /\ open_runtime_directory(m.env.store, m.env)
     /\ open_existing_lock(m) /\ m.lock = None
  THEN {Step([m EXCEPT !.lock = who], [p EXCEPT !.pc = "Locked"])}
  ELSE Refuse(m, who, p)

open_locked(m, who, p) ==
  IF \E s \in read_active_snapshot(m) : MigrationIdentityMatches(s, p.expected)
  THEN UNION {IF c.ok
              THEN {Say(c.m, [p EXCEPT !.pc = "Serving", !.mem = s], [what |-> "Opened", snapshot |-> s]) :
                    s \in read_active_snapshot(c.m)}
              ELSE Return(c.m, who, [what |-> "Failed"]) : c \in clean_valid_orphan_temps(m)}
  ELSE Refuse(m, who, p)

revalidate_current(m, p) == read_active_snapshot(m) = {p.mem}

validate_successor_of(next, current) == next = [current EXCEPT !.sequence = @ + 1, !.body = next.body]

commit(m, who, p, next) ==
  IF validate_successor_of(next, p.mem) /\ revalidate_current(m, p)
  THEN {Step(m, [p EXCEPT !.pc = "Publish", !.next = next])}
  ELSE {Step(m, [p EXCEPT !.pc = "Stopped"])}

commit_read_back(m, who, p) ==
  IF read_active_snapshot(m) = {p.next}
  THEN {Say(m, [p EXCEPT !.pc = "Serving", !.mem = p.next, !.next = None],
            [what |-> "Committed", snapshot |-> p.next])}
  ELSE PublishFails(m, who, p, UncertainAfterPublish(p))

-----------------------------------------------------------------------------
(* Offline migration: the source and a receipt are kept as evidence before *)
(* the migrated snapshot replaces the active one.                          *)
Receipt(p) == RuntimeStoreMigrationReceipt_try_new(p.job[2], p.job[1], p.mem, p.next)
EvidenceBytes(p) == IF p.stage = "Source" THEN {p.mem} ELSE Receipt(p)
EvidenceIsExact(m, p) ==
  \E e \in read_runtime_migration_evidence_for(m, p.job) : e[1] = p.mem /\ {e[2]} = Receipt(p)

PublishedButUnverified(m, who, p) == Refuse(m, who, p)

acquire_runtime_migration_guard(m, who, p) ==
  IF /\ p.expected.store # Zero /\ p.expected.owner # Zero /\ p.job[2] # Zero
     /\ open_runtime_directory(m.env.store, m.env)
     /\ open_existing_lock(m) /\ m.lock = None
     /\ open_runtime_directory(m.env.evidence, m.env) /\ ~m.env.same_directory
  THEN {Step([m EXCEPT !.lock = who], [p EXCEPT !.pc = "Locked"])}
  ELSE Refuse(m, who, p)

\* The snapshot already has the target's version: this migration id must have
\* made it, to the byte, out of the retained source.
resume_completed_runtime_migration(m, who, p, target) ==
  IF ~MigrationIdentityMatches(target, p.expected) THEN Refuse(m, who, p)
  ELSE UNION
    {IF /\ c.ok
        /\ \E e \in read_runtime_migration_evidence_for(c.m, p.job) :
              /\ migrate_source(p.job[1], e[1]) = {target}
              /\ MigrationIdentityMatches(e[1], p.expected)
              /\ RuntimeStoreMigrationReceipt_try_new(p.job[2], p.job[1], e[1], target) = {e[2]}
     THEN UNION {IF k.ok THEN Return(k.m, who, [what |-> "AlreadyMigrated", job |-> p.job, snapshot |-> target])
                 ELSE Return(k.m, who, [what |-> "Failed"]) : k \in clean_valid_orphan_temps(c.m)}
     ELSE IF c.ok THEN PublishedButUnverified(c.m, who, p)
     ELSE Return(c.m, who, [what |-> "Failed"]) :
     c \in clean_runtime_migration_evidence_temps_for(m, p.job)}

publish_runtime_migration(m, who, p, source, target) ==
  IF /\ MigrationIdentityMatches(source, p.expected) /\ MigrationIdentityMatches(target, p.expected)
     /\ RuntimeStoreMigrationReceipt_try_new(p.job[2], p.job[1], source, target) # {}
  THEN UNION
    {IF k.ok
     THEN {IF c.ok THEN Step(c.m, [p EXCEPT !.pc = "Ensure", !.stage = "Source", !.mem = source, !.next = target])
           ELSE Say(Unlock(c.m, who), Idle, [what |-> "Failed"]) :
           c \in clean_runtime_migration_evidence_temps_for(k.m, p.job)}
     ELSE Return(k.m, who, [what |-> "Failed"]) : k \in clean_valid_orphan_temps(m)}
  ELSE Refuse(m, who, p)

migrate_payload_offline_with_policy(m, who, p) ==
  LET kind == p.job[1]
      active == read_active_snapshot_bytes(m)
      done == UNION {decode_target(kind, b) : b \in active}
      source == {b \in active : UnsupportedPayloadVersion(kind, b) /\ migrate_source(kind, b) # {}}
  IN  UNION {resume_completed_runtime_migration(m, who, p, b) : b \in done}
      \cup UNION {publish_runtime_migration(m, who, p, b, t) : <<b, t>> \in
                  {<<x, y>> \in source \X UNION {migrate_source(kind, z) : z \in source} :
                     y \in migrate_source(kind, x)}}
      \cup IF done \cup source = {} THEN Refuse(m, who, p) ELSE {}

\* One evidence file.  An exact one that is already there is taken as it is.
AfterEvidence(p) == IF p.stage = "Source" THEN [p EXCEPT !.pc = "Ensure", !.stage = "Receipt", !.file = None]
                    ELSE [p EXCEPT !.pc = "Evidenced", !.file = None]

ensure_read_only_migration_evidence(m, who, p) ==
  LET existing == read_read_only_migration_evidence(m, p.job, p.stage) IN
  IF existing = EvidenceBytes(p) THEN {Step(m, AfterEvidence(p))}
  ELSE IF existing # {} THEN Refuse(m, who, p)
  ELSE {Step([m EXCEPT !.evidence =
                   Change(@, [@.now EXCEPT !.temps[migration_evidence_temp_prefix_for(p.job)] = @ + 1])],
             [p EXCEPT !.pc = "EvidenceWritten", !.file = File(b)]) : b \in EvidenceBytes(p)}

evidence_sync_temp(m, who, p) == {Step(m, [p EXCEPT !.pc = "EvidenceSynced", !.file.synced = TRUE])}

publish_migration_evidence_temp(m, who, p) ==
  IF m.evidence.now.files[migration_file_name_for(p.job, p.stage)] # None THEN Refuse(m, who, p)
  ELSE {Step([m EXCEPT !.evidence =
                   Change(@, [@.now EXCEPT !.files[migration_file_name_for(p.job, p.stage)] = p.file,
                                           !.temps[migration_evidence_temp_prefix_for(p.job)] = @ - 1])],
             [p EXCEPT !.pc = "EvidenceRenamed"])}

evidence_sync_directory(m, who, p) ==
  {Step([m EXCEPT !.evidence = SyncVolume(@)], AfterEvidence(p))}

migration_recheck(m, who, p) ==
  IF EvidenceIsExact(m, p) /\ read_active_snapshot_bytes(m) = {p.mem}
  THEN {Step(m, [p EXCEPT !.pc = "Publish"])}
  ELSE Refuse(m, who, p)

migration_read_back(m, who, p) ==
  IF read_active_migration_target(m, p.job[1]) = {p.next} /\ EvidenceIsExact(m, p)
  THEN Return(m, who, [what |-> "Migrated", job |-> p.job, snapshot |-> p.next])
  ELSE PublishedButUnverified(m, who, p)

-----------------------------------------------------------------------------
(* The next step of a process.                                             *)
PublishStep(m, who, p) ==
  CASE p.pc = "Publish"    -> publish_create_temp(m, who, p)
    [] p.pc = "Written"    -> publish_sync_temp(m, who, p)
    [] p.pc = "TempSynced" -> publish_temp_name(m, who, p)
    [] p.pc = "Renamed"    -> publish_sync_directory(m, who, p)
    [] OTHER -> {}

InitializeStep(m, who, p) ==
  CASE p.pc = "Start"     -> initializer_preflight(m, who, p)
    [] p.pc = "Fresh"     -> initializer_create_marker(m, who, p)
    [] p.pc = "Marker"    -> initializer_lock_marker(m, who, p)
    [] p.pc = "Locked"    -> initializer_sync_marker(m, who, p)
    [] p.pc = "Published" -> publish_sequence_one_read_back(m, who, p)
    [] OTHER -> PublishStep(m, who, p)

ServeStep(m, who, p) ==
  CASE p.pc = "Start"     -> open_and_lock(m, who, p)
    [] p.pc = "Locked"    -> open_locked(m, who, p)
    [] p.pc = "Published" -> commit_read_back(m, who, p)
    [] OTHER -> PublishStep(m, who, p)

MigrateStep(m, who, p) ==
  CASE p.pc = "Start"           -> acquire_runtime_migration_guard(m, who, p)
    [] p.pc = "Locked"          -> migrate_payload_offline_with_policy(m, who, p)
    [] p.pc = "Ensure"          -> ensure_read_only_migration_evidence(m, who, p)
    [] p.pc = "EvidenceWritten" -> evidence_sync_temp(m, who, p)
    [] p.pc = "EvidenceSynced"  -> publish_migration_evidence_temp(m, who, p)
    [] p.pc = "EvidenceRenamed" -> evidence_sync_directory(m, who, p)
    [] p.pc = "Evidenced"       -> migration_recheck(m, who, p)
    [] p.pc = "Published"       -> migration_read_back(m, who, p)
    [] OTHER -> PublishStep(m, who, p)

ProgramStep(m, who, p) ==
  CASE p.program = "initialize" -> InitializeStep(m, who, p)
    [] p.program = "serve"      -> ServeStep(m, who, p)
    [] p.program = "migrate"    -> MigrateStep(m, who, p)
    [] OTHER -> {}

\* An operating system error at the next call.
IoFailure(m, who, p) ==
  IF p.pc \in {"Publish", "Written", "TempSynced", "Renamed", "Published"}
  THEN publish_failure(m, who, p)
  ELSE Return(m, who, [what |-> "Failed"])
=============================================================================
