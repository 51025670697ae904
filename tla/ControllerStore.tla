--------------------------- MODULE ControllerStore ---------------------------
(***************************************************************************)
(* The controller's durable store (controller_store.rs) and its            *)
(* initializer (controller_initializer.rs).  It is the runtime's store     *)
(* with other answers to the same questions: the initializer locks its     *)
(* marker only after the marker is durable, a start with nothing to clean  *)
(* up does not sync the directory, a commit trusts its own rename, and     *)
(* evidence that is already there is synced before it is relied on.        *)
(***************************************************************************)
EXTENDS StoreDisk

If(c, v) == IF c THEN {v} ELSE {}

-----------------------------------------------------------------------------
(* The mount table.                                                        *)
MAX_LINUX_FDINFO_RECORDS == 256
MAX_LINUX_MOUNTINFO_RECORDS == 4096

parse_linux_fdinfo_mount_id(text) ==
  LET ids == SelectSeq(text.lines, LAMBDA l : l.key = "mnt_id") IN
  IF /\ text.terminated /\ Len(text.lines) \in 1..MAX_LINUX_FDINFO_RECORDS
     /\ \A i \in DOMAIN text.lines : text.lines[i].key # ""
     /\ Len(ids) = 1 /\ ids[1].value # 0
  THEN {ids[1].value} ELSE {}

parse_linux_mountinfo_line(line) ==
  /\ line.id # 0 /\ line.parent # 0 /\ line.device
  /\ line.before_dash >= 3 /\ line.dash
  /\ Len(line.after_dash) = 3

parse_linux_mountinfo_exact_ext4(text, id) ==
  LET matching == SelectSeq(text.lines, LAMBDA l : l.id = id) IN
  /\ id # 0 /\ text.terminated /\ Len(text.lines) \in 1..MAX_LINUX_MOUNTINFO_RECORDS
  /\ \A i \in DOMAIN text.lines : parse_linux_mountinfo_line(text.lines[i])
  /\ Len(matching) = 1 /\ matching[1].after_dash[1] = "ext4"

verify_linux_ext4_mount(dir) ==
  \E id \in parse_linux_fdinfo_mount_id(dir.fdinfo) : parse_linux_mountinfo_exact_ext4(dir.mountinfo, id)

verify_filesystem(dir) == dir.magic = "ext4" /\ verify_linux_ext4_mount(dir)

-----------------------------------------------------------------------------
(* Paths and metadata.  No component of the path, the directory itself     *)
(* included, is a symbolic link; a service may run as root.                *)
validate_absolute_path_chain(dir) ==
  /\ dir.absolute
  /\ \A i \in DOMAIN dir.path : dir.path[i].component = "normal" /\ dir.path[i].type # "symlink"
  /\ dir.type # "symlink"

validate_trusted_ancestor(a, uid) ==
  a.type = "dir" /\ a.uid \in {0, uid} /\ (a.shared => a.uid = 0 /\ a.sticky)

validate_trusted_ancestor_chain(dir, uid) ==
  \A i \in DOMAIN dir.path : validate_trusted_ancestor(dir.path[i], uid)

validate_directory_metadata(dir, env) ==
  dir.type = "dir" /\ dir.uid = env.uid /\ dir.gid = env.gid /\ dir.mode = "0700"

validate_regular_file(f, env) ==
  f.type = "file" /\ f.links = 1 /\ f.uid = env.uid /\ f.gid = env.gid /\ f.mode = "0600"

open_controller_directory(dir, env) ==
  /\ validate_absolute_path_chain(dir)
  /\ validate_trusted_ancestor_chain(dir, env.uid)
  /\ validate_directory_metadata(dir, env)
  /\ verify_filesystem(dir)

open_existing_lock(m) ==
  m.store.now.lock_file /\ validate_regular_file(m.env.store.lock_metadata, m.env)

-----------------------------------------------------------------------------
(* Payload versions, the migration and its receipt.                        *)
CONTROLLER_MIGRATION_SOURCE_PAYLOAD_VERSION == 7
CONTROLLER_JOURNAL_PAYLOAD_VERSION == 8

decode(bytes) == If(bytes.version = CONTROLLER_JOURNAL_PAYLOAD_VERSION, bytes)

migrate_payload_v7_with_metadata(bytes) ==
  If(bytes.version = CONTROLLER_MIGRATION_SOURCE_PAYLOAD_VERSION,
     [bytes EXCEPT !.version = CONTROLLER_JOURNAL_PAYLOAD_VERSION])

validate_migration_identity(snapshot, expected) ==
  snapshot.store = expected.store /\ snapshot.owner = expected.owner

ControllerStoreMigrationReceipt_try_new(id, source, target) ==
  If(/\ id # Zero
     /\ source.version = CONTROLLER_MIGRATION_SOURCE_PAYLOAD_VERSION
     /\ source.store = target.store /\ source.owner = target.owner /\ source.sequence = target.sequence,
     [migration_id |-> id, source_payload_version |-> source.version, source_store |-> source.store,
      source_owner |-> source.owner, source_sequence |-> source.sequence, source_digest |-> <<source>>,
      target_payload_version |-> CONTROLLER_JOURNAL_PAYLOAD_VERSION, target_digest |-> <<target>>])

ControllerStoreMigrationReceipt_decode(bytes) ==
  IF "migration_id" \in DOMAIN bytes
  THEN If(/\ bytes.migration_id # Zero
          /\ bytes.source_payload_version = CONTROLLER_MIGRATION_SOURCE_PAYLOAD_VERSION
          /\ bytes.target_payload_version = CONTROLLER_JOURNAL_PAYLOAD_VERSION
          /\ bytes.source_store # Zero /\ bytes.source_owner # Zero /\ bytes.source_sequence # 0, bytes)
  ELSE {}

\* A name in the evidence directory spells the migration, its id and the part.
migration_file_name(job, part) == <<job, part>>
migration_evidence_temp_prefix(job) == job

-----------------------------------------------------------------------------
(* Reading.                                                                *)
read_active_controller_snapshot_bytes(m) ==
  IF m.store.now.active = None THEN {} ELSE {m.store.now.active.bytes}

read_active_controller_snapshot(m) == UNION {decode(b) : b \in read_active_controller_snapshot_bytes(m)}

read_read_only_migration_evidence(m, job, part) ==
  {f.bytes : f \in {m.evidence.now.files[migration_file_name(job, part)]} \ {None}}

read_controller_migration_evidence(m, job) ==
  {<<s, r>> \in read_read_only_migration_evidence(m, job, "Source")
                \X UNION {ControllerStoreMigrationReceipt_decode(b) :
                          b \in read_read_only_migration_evidence(m, job, "Receipt")} :
     r.migration_id = job[2] /\ r.source_digest = <<s>>}

-----------------------------------------------------------------------------
(* Orphan clean-up.                                                        *)
clean_valid_orphan_temps(m) ==
  LET d == m.store.now
      left(n) == [d EXCEPT !.temps = @ - n]
  IN  IF d.temps > MaxTemps THEN {[m |-> m, ok |-> FALSE]}
      ELSE IF d.temps = 0 THEN {[m |-> m, ok |-> TRUE]}
      ELSE {[m |-> [m EXCEPT !.store = SyncVolume(Change(@, left(d.temps)))], ok |-> TRUE]}
           \cup {[m |-> [m EXCEPT !.store = Change(@, left(n))], ok |-> FALSE] : n \in 0..d.temps}

clean_controller_migration_evidence_temps(m, job) ==
  LET d == m.evidence.now
      left(n) == [d EXCEPT !.temps[migration_evidence_temp_prefix(job)] = @ - n]
  IN  IF d.temps[migration_evidence_temp_prefix(job)] > MaxEvidenceTemps THEN {[m |-> m, ok |-> FALSE]}
      ELSE LET all == d.temps[migration_evidence_temp_prefix(job)] IN
           {[m |-> [m EXCEPT !.evidence = SyncVolume(Change(@, left(all)))], ok |-> TRUE]}
           \cup {[m |-> [m EXCEPT !.evidence = Change(@, left(n))], ok |-> FALSE] : n \in 0..all}

-----------------------------------------------------------------------------
(* publish_controller_snapshot.                                            *)
RejectedBeforePublish(p) == [what |-> "Rejected", program |-> p.program, candidate |-> p.next]
UncertainAfterPublish(p) == [what |-> "Uncertain", program |-> p.program, candidate |-> p.next]

PublishFails(m, who, p, failure) ==
  IF p.program = "serve" THEN {Say(m, [p EXCEPT !.pc = "Stopped", !.file = None], failure)}
  ELSE Return(m, who, failure)

publish_precondition(m, p) ==
  IF p.program = "initialize" THEN m.store.now.active = None
  ELSE m.store.now.active # None /\ m.store.now.active.bytes = p.mem

publish_create_temp(m, who, p) ==
  IF publish_precondition(m, p)
  THEN {Step([m EXCEPT !.store = Change(@, [@.now EXCEPT !.temps = @ + 1])],
             [p EXCEPT !.pc = "Written", !.file = File(p.next)])}
  ELSE PublishFails(m, who, p, RejectedBeforePublish(p))

publish_sync_temp(m, who, p) == {Step(m, [p EXCEPT !.pc = "TempSynced", !.file.synced = TRUE])}

publish_rename(m, who, p) ==
  IF publish_precondition(m, p)
  THEN {Step([m EXCEPT !.store = Change(@, [@.now EXCEPT !.active = p.file, !.temps = @ - 1])],
             [p EXCEPT !.pc = "Renamed", !.file = None])}
  ELSE PublishFails(m, who, p, RejectedBeforePublish(p))

publish_sync_directory(m, who, p) ==
  {Step([m EXCEPT !.store = SyncVolume(@)], [p EXCEPT !.pc = "Published"])}

publish_failure(m, who, p) ==
  PublishFails(m, who, p, IF p.pc \in {"Renamed", "Published"} THEN UncertainAfterPublish(p)
                          ELSE RejectedBeforePublish(p))

-----------------------------------------------------------------------------
(* Initialization, and the receipt an operator recovers when the process   *)
(* died before it printed one.                                             *)
ensure_fresh_controller_directory(m) == m.store.now = EmptyStore

sequence_one_snapshot(store, owner) == Snapshot(CONTROLLER_JOURNAL_PAYLOAD_VERSION, store, owner, 1, 0)

initialize_preflight(m, who, p) ==
  IF /\ open_controller_directory(m.env.store, m.env) /\ ensure_fresh_controller_directory(m)
     /\ p.expected.store # Zero
  THEN {Step(m, [p EXCEPT !.pc = "Fresh", !.next = sequence_one_snapshot(p.expected.store, p.expected.owner)])}
  ELSE Refuse(m, who, p)

initializer_create_marker(m, who, p) ==
  IF m.store.now.lock_file THEN Refuse(m, who, p)
  ELSE {Step([m EXCEPT !.store = Change(@, [@.now EXCEPT !.lock_file = TRUE])], [p EXCEPT !.pc = "Marker"])}

initializer_sync_marker(m, who, p) ==
  {Step([m EXCEPT !.store = SyncVolume(@)], [p EXCEPT !.pc = "MarkerSynced"])}

validate_initializer_lock_is_only_entry(m) == m.store.now = [EmptyStore EXCEPT !.lock_file = TRUE]

\* Another process may have opened and locked the marker in the meantime.
initializer_lock_marker(m, who, p) ==
  IF m.lock = None /\ validate_initializer_lock_is_only_entry(m)
  THEN {Step([m EXCEPT !.lock = who], [p EXCEPT !.pc = "Publish"])}
  ELSE Refuse(m, who, p)

initialize_read_back(m, who, p) ==
  IF read_active_controller_snapshot(m) = {p.next}
  THEN Return(m, who, [what |-> "Initialized", snapshot |-> p.next])
  ELSE Return(m, who, UncertainAfterPublish(p))

receipt_from_sequence_one_store(m, who, p, s) ==
  IF s = sequence_one_snapshot(s.store, p.expected.owner)
  THEN Return(m, who, [what |-> "Recovered", snapshot |-> s])
  ELSE Refuse(m, who, p)

open_for_sequence_one_receipt(m, who, p) ==
  IF \E s \in read_active_controller_snapshot(m) : s.owner = p.expected.owner
  THEN UNION {IF c.ok
              THEN UNION {receipt_from_sequence_one_store(c.m, who, p, s) : s \in read_active_controller_snapshot(c.m)}
              ELSE Return(c.m, who, [what |-> "Failed"]) : c \in clean_valid_orphan_temps(m)}
  ELSE Refuse(m, who, p)

-----------------------------------------------------------------------------
(* Opening the store and committing to it.                                 *)
open_validated_and_lock(m, who, p) ==
  IF /\ p.program = "serve" => p.expected.store # Zero
     /\ p.expected.owner # Zero
     /\ open_controller_directory(m.env.store, m.env)
     /\ open_existing_lock(m) /\ m.lock = None
  THEN {Step([m EXCEPT !.lock = who], [p EXCEPT !.pc = "Locked"])}
  ELSE Refuse(m, who, p)

open_validated_locked(m, who, p) ==
  IF \E s \in read_active_controller_snapshot(m) : validate_migration_identity(s, p.expected)
  THEN UNION {IF c.ok
              THEN {Say(c.m, [p EXCEPT !.pc = "Serving", !.mem = s], [what |-> "Opened", snapshot |-> s]) :
                    s \in read_active_controller_snapshot(c.m)}
              ELSE Return(c.m, who, [what |-> "Failed"]) : c \in clean_valid_orphan_temps(m)}
  ELSE Refuse(m, who, p)

revalidate_current(m, p) == read_active_controller_snapshot(m) = {p.mem}

validate_successor_of(next, current) == next = [current EXCEPT !.sequence = @ + 1, !.body = next.body]

commit(m, who, p, next) ==
  IF validate_successor_of(next, p.mem) /\ revalidate_current(m, p)
  THEN {Step(m, [p EXCEPT !.pc = "Publish", !.next = next])}
  ELSE {Step(m, [p EXCEPT !.pc = "Stopped"])}

commit_returns(m, who, p) ==
  {Say(m, [p EXCEPT !.pc = "Serving", !.mem = p.next, !.next = None], [what |-> "Committed", snapshot |-> p.next])}

-----------------------------------------------------------------------------
(* Offline migration from payload version 7 to 8.                          *)
Receipt(p) == ControllerStoreMigrationReceipt_try_new(p.job[2], p.mem, p.next)
EvidenceBytes(p) == IF p.stage = "Source" THEN {p.mem} ELSE Receipt(p)
EvidenceIsExact(m, p) ==
  \E e \in read_controller_migration_evidence(m, p.job) : e[1] = p.mem /\ {e[2]} = Receipt(p)

PublishedButUnverified(m, who, p) == Refuse(m, who, p)

acquire_controller_migration_guard(m, who, p) ==
  IF /\ p.expected.store # Zero /\ p.expected.owner # Zero /\ p.job[2] # Zero
     /\ open_controller_directory(m.env.store, m.env)
     /\ open_existing_lock(m) /\ m.lock = None
     /\ open_controller_directory(m.env.evidence, m.env) /\ ~m.env.same_directory
  THEN {Step([m EXCEPT !.lock = who], [p EXCEPT !.pc = "Locked"])}
  ELSE Refuse(m, who, p)

resume_completed_controller_migration(m, who, p, target) ==
  IF ~validate_migration_identity(target, p.expected) THEN Refuse(m, who, p)
  ELSE UNION
    {IF /\ c.ok
        /\ \E e \in read_controller_migration_evidence(c.m, p.job) :
              /\ migrate_payload_v7_with_metadata(e[1]) = {target}
              /\ validate_migration_identity(e[1], p.expected)
              /\ ControllerStoreMigrationReceipt_try_new(p.job[2], e[1], target) = {e[2]}
     THEN UNION {IF k.ok THEN Return(k.m, who, [what |-> "AlreadyMigrated", job |-> p.job, snapshot |-> target])
                 ELSE Return(k.m, who, [what |-> "Failed"]) : k \in clean_valid_orphan_temps(c.m)}
     ELSE IF c.ok THEN PublishedButUnverified(c.m, who, p)
     ELSE Return(c.m, who, [what |-> "Failed"]) :
     c \in clean_controller_migration_evidence_temps(m, p.job)}

publish_controller_migration(m, who, p, source, target) ==
  IF /\ validate_migration_identity(source, p.expected) /\ validate_migration_identity(target, p.expected)
     /\ ControllerStoreMigrationReceipt_try_new(p.job[2], source, target) # {}
  THEN UNION
    {IF k.ok
     THEN {IF c.ok THEN Step(c.m, [p EXCEPT !.pc = "Ensure", !.stage = "Source", !.mem = source, !.next = target])
           ELSE Say(Unlock(c.m, who), Idle, [what |-> "Failed"]) :
           c \in clean_controller_migration_evidence_temps(k.m, p.job)}
     ELSE Return(k.m, who, [what |-> "Failed"]) : k \in clean_valid_orphan_temps(m)}
  ELSE Refuse(m, who, p)

migrate_payload_v7_offline(m, who, p) ==
  LET active == read_active_controller_snapshot_bytes(m) IN
  UNION {resume_completed_controller_migration(m, who, p, b) : b \in read_active_controller_snapshot(m)}
  \cup UNION {publish_controller_migration(m, who, p, b, t) : <<b, t>> \in
              {<<x, y>> \in active \X UNION {migrate_payload_v7_with_metadata(z) : z \in active} :
                 y \in migrate_payload_v7_with_metadata(x)}}
  \cup IF \E b \in active : decode(b) \cup migrate_payload_v7_with_metadata(b) # {} THEN {}
       ELSE Refuse(m, who, p)

\* One evidence file.  An exact one that is already there is made durable.
AfterEvidence(p) == IF p.stage = "Source" THEN [p EXCEPT !.pc = "Ensure", !.stage = "Receipt", !.file = None]
                    ELSE [p EXCEPT !.pc = "Evidenced", !.file = None]

accept_existing_evidence(m, who, p) == {Step([m EXCEPT !.evidence = SyncVolume(@)], AfterEvidence(p))}

ensure_read_only_migration_evidence(m, who, p) ==
  LET existing == read_read_only_migration_evidence(m, p.job, p.stage) IN
  IF existing = EvidenceBytes(p) THEN accept_existing_evidence(m, who, p)
  ELSE IF existing # {} THEN Refuse(m, who, p)
  ELSE {Step([m EXCEPT !.evidence =
                   Change(@, [@.now EXCEPT !.temps[migration_evidence_temp_prefix(p.job)] = @ + 1])],
             [p EXCEPT !.pc = "EvidenceWritten", !.file = File(b)]) : b \in EvidenceBytes(p)}

evidence_sync_temp(m, who, p) == {Step(m, [p EXCEPT !.pc = "EvidenceSynced", !.file.synced = TRUE])}

publish_migration_evidence_temp(m, who, p) ==
  IF m.evidence.now.files[migration_file_name(p.job, p.stage)] # None THEN Refuse(m, who, p)
  ELSE {Step([m EXCEPT !.evidence =
                   Change(@, [@.now EXCEPT !.files[migration_file_name(p.job, p.stage)] = p.file,
                                           !.temps[migration_evidence_temp_prefix(p.job)] = @ - 1])],
             [p EXCEPT !.pc = "EvidenceRenamed"])}

evidence_sync_directory(m, who, p) ==
  {Step([m EXCEPT !.evidence = SyncVolume(@)], AfterEvidence(p))}

migration_recheck(m, who, p) ==
  IF EvidenceIsExact(m, p) /\ read_active_controller_snapshot_bytes(m) = {p.mem}
  THEN {Step(m, [p EXCEPT !.pc = "Publish"])}
  ELSE Refuse(m, who, p)

migration_read_back(m, who, p) ==
  IF read_active_controller_snapshot(m) = {p.next} /\ EvidenceIsExact(m, p)
  THEN Return(m, who, [what |-> "Migrated", job |-> p.job, snapshot |-> p.next])
  ELSE PublishedButUnverified(m, who, p)

-----------------------------------------------------------------------------
(* The next step of a process.                                             *)
PublishStep(m, who, p) ==
  CASE p.pc = "Publish"    -> publish_create_temp(m, who, p)
    [] p.pc = "Written"    -> publish_sync_temp(m, who, p)
    [] p.pc = "TempSynced" -> publish_rename(m, who, p)
    [] p.pc = "Renamed"    -> publish_sync_directory(m, who, p)
    [] OTHER -> {}

InitializeStep(m, who, p) ==
  CASE p.pc = "Start"        -> initialize_preflight(m, who, p)
    [] p.pc = "Fresh"        -> initializer_create_marker(m, who, p)
    [] p.pc = "Marker"       -> initializer_sync_marker(m, who, p)
    [] p.pc = "MarkerSynced" -> initializer_lock_marker(m, who, p)
    [] p.pc = "Published"    -> initialize_read_back(m, who, p)
    [] OTHER -> PublishStep(m, who, p)

ServeStep(m, who, p) ==
  CASE p.pc = "Start"     -> open_validated_and_lock(m, who, p)
    [] p.pc = "Locked"    -> open_validated_locked(m, who, p)
    [] p.pc = "Published" -> commit_returns(m, who, p)
    [] OTHER -> PublishStep(m, who, p)

RecoverStep(m, who, p) ==
  CASE p.pc = "Start"  -> open_validated_and_lock(m, who, p)
    [] p.pc = "Locked" -> open_for_sequence_one_receipt(m, who, p)
    [] OTHER -> {}

MigrateStep(m, who, p) ==
  CASE p.pc = "Start"           -> acquire_controller_migration_guard(m, who, p)
    [] p.pc = "Locked"          -> migrate_payload_v7_offline(m, who, p)
    [] p.pc = "Ensure"          -> ensure_read_only_migration_evidence(m, who, p)
    [] p.pc = "EvidenceWritten" -> evidence_sync_temp(m, who, p)
    [] p.pc = "EvidenceSynced"  -> publish_migration_evidence_temp(m, who, p)
    [] p.pc = "EvidenceRenamed" -> evidence_sync_directory(m, who, p)
    [] p.pc = "Evidenced"       -> migration_recheck(m, who, p)
    [] p.pc = "Published"       -> migration_read_back(m, who, p)
    [] OTHER -> PublishStep(m, who, p)

ProgramStep(m, who, p) ==
  CASE p.program = "initialize" -> InitializeStep(m, who, p)
    [] p.program = "serve"      -> ServeStep(m, who, p)
    [] p.program = "recover"    -> RecoverStep(m, who, p)
    [] p.program = "migrate"    -> MigrateStep(m, who, p)
    [] OTHER -> {}

\* A commit makes no call after its directory sync.
IoFailure(m, who, p) ==
  IF p.pc = "Published" /\ p.program = "serve" THEN {}
  ELSE IF p.pc \in {"Publish", "Written", "TempSynced", "Renamed", "Published"}
  THEN publish_failure(m, who, p)
  ELSE Return(m, who, [what |-> "Failed"])
==============================================================================
