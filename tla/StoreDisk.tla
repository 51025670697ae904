------------------------------ MODULE StoreDisk ------------------------------
(***************************************************************************)
(* What the runtime's and the controller's durable stores stand on: two    *)
(* ext4 directories, the advisory lock, and the mount and path facts that  *)
(* a store reads before it uses a directory.                               *)
(*                                                                         *)
(* "now" is the directory a running process sees; "may" holds every        *)
(* directory that a power failure may leave.  A directory operation joins  *)
(* "may" and a directory sync leaves the current directory alone.  The     *)
(* bytes of a file that was not synced are torn by a power failure.  Only  *)
(* the holder of the lock alters the two directories, so that a file is    *)
(* the one opened before exactly when its bytes are.                       *)
(***************************************************************************)
EXTENDS Integers, Sequences, FiniteSets

CONSTANTS
  None,           \* absent file, process or value
  Zero,           \* an all-zero identity
  MigrationIds,   \* ids an operator may name a migration by
  Migrations,     \* the payload migrations of both stores
  MaxTemps,       \* MAX_ORPHAN_TEMP_FILES
  MaxEvidenceTemps \* MAX_MIGRATION_EVIDENCE_ORPHAN_TEMPS

-----------------------------------------------------------------------------
(* Snapshots and files.                                                    *)
Snapshot(version, store, owner, sequence, body) ==
  [version |-> version, store |-> store, owner |-> owner, sequence |-> sequence, body |-> body]

Torn == Snapshot(0, None, None, 0, 0)

File(bytes) == [bytes |-> bytes, synced |-> FALSE]
SyncedFile(bytes) == [bytes |-> bytes, synced |-> TRUE]

-----------------------------------------------------------------------------
(* Volumes.                                                                *)
Jobs == Migrations \X MigrationIds
EvidenceParts == {"Source", "Receipt"}

EmptyStore == [lock_file |-> FALSE, active |-> None, temps |-> 0]
EmptyEvidence ==
  [files |-> [n \in Jobs \X EvidenceParts |-> None], temps |-> [j \in Jobs |-> 0]]

Volume(d) == [now |-> d, may |-> {d}]
Change(v, d) == [now |-> d, may |-> v.may \cup {d}]
SyncVolume(v) == [v EXCEPT !.may = {v.now}]

AfterPowerFailure(f) ==
  IF f = None THEN None ELSE IF f.synced THEN f ELSE SyncedFile(Torn)

StoreAfterPowerFailure(d) == [d EXCEPT !.active = AfterPowerFailure(d.active)]
EvidenceAfterPowerFailure(d) ==
  [d EXCEPT !.files = [n \in DOMAIN d.files |-> AfterPowerFailure(d.files[n])]]

-----------------------------------------------------------------------------
(* The machine: the two directories, the lock, and what was learnt of the  *)
(* environment.  A step of a process is [m, p, says]: the machine and the  *)
(* process after it and what the process reports.                          *)
Silent == [what |-> "nothing"]
Step(m, p) == [m |-> m, p |-> p, says |-> Silent]
Say(m, p, what) == [m |-> m, p |-> p, says |-> what]

Idle == [program |-> "none", pc |-> "Down", job |-> None, stage |-> "Source",
         expected |-> None, mem |-> None, next |-> None, file |-> None]

Unlock(m, who) == IF m.lock = who THEN [m EXCEPT !.lock = None] ELSE m

\* The process returns: everything it holds is dropped, the lock with it.
Return(m, who, what) == {Say(Unlock(m, who), Idle, what)}
Refuse(m, who, p) == Return(m, who, [what |-> "Refused", program |-> p.program, job |-> p.job,
                                     active |-> m.store.now.active])
=============================================================================
