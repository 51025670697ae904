-------------------------- MODULE ControllerTenure --------------------------
(***************************************************************************)
(* The acquire-tenure command of the deployment controllers                *)
(* (deployment_process.rs, controller_tenure.rs, tenure_client.rs and the  *)
(* tenure part of controller_journal.rs), composed with the authority.     *)
(*                                                                         *)
(* One run of the command opens the controller's store, recovers the       *)
(* durable request or draws a fresh one, commits it as Prepared, makes one *)
(* exchange, and commits what the exchange told it.  The exchange is        *)
(* unreliable: the request may never leave, and once it has left the        *)
(* answer may be late or lost and the authority may serve it at any time.  *)
(* Runs end by success, error, crash or power failure, and are repeated.   *)
(*                                                                         *)
(* The authority admits one writer and one key, so two stores stand for a  *)
(* controller directory that was initialised again with the same keys.     *)
(* The store lock admits one command at a time on each store.  A plan is   *)
(* committed already (validate_fresh_tenure_plan).                         *)
(*                                                                         *)
(* The authority is the abstract ledger that TenureAuthority implements.   *)
(* The store is the publication protocol of that module in short: a commit *)
(* is visible from the rename on and survives a power failure from the     *)
(* directory sync on.                                                      *)
(***************************************************************************)
EXTENDS Integers, FiniteSets

CONSTANTS
  Controllers,  \* controller stores
  Ops,          \* the operation ids that the entropy source may yield
  MaxRecords,   \* capacity of the authority's ledger
  PowerLoss,    \* the stores whose machine may lose power
  None

\* A ControllerTenureTransaction; the committed response carries an epoch.
Transactions == [op : Ops, phase : {"Prepared", "Uncertain", "Committed"}, epoch : Nat]
Prepared(op) == [op |-> op, phase |-> "Prepared", epoch |-> 0]

ASSUME NoneAssumption == None \notin Transactions
ASSUME BoundsAssumption == MaxRecords \in Nat

VARIABLES
  journal,   \* journal[c]: the tenure transaction of the visible snapshot
  onDisk,    \* onDisk[c]: the transactions a power failure may leave
  orphan,    \* orphan[c]: whether the directory holds an orphaned temporary file
  pc,        \* pc[c]: where the running command is
  next,      \* next[c]: the transaction being committed
  sent,      \* requests that left a controller, ever
  receipts,  \* receipts that the command printed, ever
  ledger,    \* the authority's records
  answered   \* the records it answered with

store == <<journal, onDisk, orphan>>
vars == <<journal, onDisk, orphan, pc, next, sent, receipts, ledger, answered>>

Authority == INSTANCE TenureLedger WITH Digests <- Controllers

Sent == [controller : Controllers, op : Ops]

Init ==
  /\ journal = [c \in Controllers |-> None]
  /\ onDisk = [c \in Controllers |-> {None}]
  /\ orphan = [c \in Controllers |-> FALSE]
  /\ pc = [c \in Controllers |-> "Idle"]
  /\ next = [c \in Controllers |-> None]
  /\ sent = {}
  /\ receipts = {}
  /\ Authority!Init

\* The ids that the entropy source may yield: an id that a store, a command, the
\* network or the ledger still knows is not drawn again.
fresh_operations ==
  {op \in Ops :
     /\ \A m \in sent : m.op # op
     /\ \A c \in Controllers : \A t \in onDisk[c] \cup {journal[c], next[c]} :
          t # None => t.op # op}

Goto(c, label) == pc' = [pc EXCEPT ![c] = label]

\* ControllerStore::open: with orphaned temporary files the directory is cleaned
\* and synced, without it is left as it is.
OpenStore(c) ==
  /\ onDisk' = [onDisk EXCEPT ![c] = IF orphan[c] THEN {journal[c]} ELSE @]
  /\ orphan' = [orphan EXCEPT ![c] = FALSE]
  /\ UNCHANGED journal

\* ControllerStore::open removes the orphaned file and fails before the sync.
OpenFailsInCleanup(c) ==
  /\ pc[c] = "Idle"
  /\ orphan[c]
  /\ orphan' = [orphan EXCEPT ![c] = FALSE]
  /\ UNCHANGED <<journal, onDisk, pc, next, sent, receipts, ledger, answered>>

MutStartSendsBeforePrepared(c) ==
  /\ pc[c] = "Idle"
  /\ journal[c] = None
  /\ OpenStore(c)
  /\ \E op \in fresh_operations :
       /\ next' = [next EXCEPT ![c] = Prepared(op)]
       /\ sent' = sent \cup {[controller |-> c, op |-> op]}
  /\ Goto(c, "Publish")
  /\ UNCHANGED <<receipts, ledger, answered>>

\* acquire_tenure with an empty journal: a fresh request is drawn and becomes the
\* Prepared transaction.
StartFresh(c) ==
  /\ pc[c] = "Idle"
  /\ journal[c] = None
  /\ OpenStore(c)
  /\ \E op \in fresh_operations : next' = [next EXCEPT ![c] = Prepared(op)]
  /\ Goto(c, "Publish")
  /\ UNCHANGED <<sent, receipts, ledger, answered>>

MutUnresolvedDrawsFresh(c) ==
  /\ pc[c] = "Idle"
  /\ journal[c] # None
  /\ journal[c].phase \in {"Prepared", "Uncertain"}
  /\ OpenStore(c)
  /\ \E op \in fresh_operations : next' = [next EXCEPT ![c] = Prepared(op)]
  /\ Goto(c, "Publish")
  /\ UNCHANGED <<sent, receipts, ledger, answered>>

MutUncertainIsFinal(c) ==
  /\ pc[c] = "Idle"
  /\ journal[c] # None
  /\ journal[c].phase \in {"Prepared", "Uncertain"}
  /\ OpenStore(c)
  /\ Goto(c, IF journal[c].phase = "Prepared" THEN "Exchange" ELSE "Idle")
  /\ UNCHANGED <<next, sent, receipts, ledger, answered>>

\* acquire_tenure with an unresolved transaction: its exact bytes are sent again.
StartUnresolved(c) ==
  /\ pc[c] = "Idle"
  /\ journal[c] # None
  /\ journal[c].phase \in {"Prepared", "Uncertain"}
  /\ OpenStore(c)
  /\ Goto(c, "Exchange")
  /\ UNCHANGED <<next, sent, receipts, ledger, answered>>

\* acquire_tenure with a committed transaction: the receipt is printed again and
\* nothing is sent.
StartCommitted(c) ==
  /\ pc[c] = "Idle"
  /\ journal[c] # None
  /\ journal[c].phase = "Committed"
  /\ OpenStore(c)
  /\ receipts' = receipts \cup
       {[controller |-> c, epoch |-> journal[c].epoch, replayed_from_journal |-> TRUE]}
  /\ UNCHANGED <<pc, next, sent, ledger, answered>>

\* ControllerStore::commit, to the rename.
Rename(c) ==
  /\ pc[c] = "Publish"
  /\ journal' = [journal EXCEPT ![c] = next[c]]
  /\ onDisk' = [onDisk EXCEPT ![c] = @ \cup {next[c]}]
  /\ Goto(c, "Renamed")
  /\ UNCHANGED <<orphan, next, sent, receipts, ledger, answered>>

MutSyncDirectorySkipped(c) ==
  /\ pc[c] = "Renamed"
  /\ next' = [next EXCEPT ![c] = None]
  /\ Goto(c, IF journal[c].phase = "Prepared" THEN "Exchange" ELSE "Idle")
  /\ receipts' = receipts \cup
       {[controller |-> c, epoch |-> t.epoch, replayed_from_journal |-> FALSE] :
          t \in {u \in {journal[c]} : u.phase = "Committed"}}
  /\ UNCHANGED <<store, sent, ledger, answered>>

\* ControllerStore::commit, the directory sync, and what follows each commit: the
\* exchange, the error of an uncertain exchange, or the receipt.
SyncDirectory(c) ==
  /\ pc[c] = "Renamed"
  /\ onDisk' = [onDisk EXCEPT ![c] = {journal[c]}]
  /\ next' = [next EXCEPT ![c] = None]
  /\ Goto(c, IF journal[c].phase = "Prepared" THEN "Exchange" ELSE "Idle")
  /\ receipts' = receipts \cup
       {[controller |-> c, epoch |-> t.epoch, replayed_from_journal |-> FALSE] :
          t \in {u \in {journal[c]} : u.phase = "Committed"}}
  /\ UNCHANGED <<journal, orphan, sent, ledger, answered>>

\* UnixTenureAuthorityClient::exchange fails before the first byte (NotSent): the
\* command ends and the journal stays.
ExchangeNotSent(c) ==
  /\ pc[c] = "Exchange"
  /\ Goto(c, "Idle")
  /\ UNCHANGED <<store, next, sent, receipts, ledger, answered>>

Send(c) ==
  /\ pc[c] = "Exchange"
  /\ sent' = sent \cup {[controller |-> c, op |-> journal[c].op]}
  /\ Goto(c, "Waiting")
  /\ UNCHANGED <<store, next, receipts, ledger, answered>>

\* The authority serves a request that was sent, at any time.
AuthorityIssues(m) ==
  /\ \E epoch \in 1..MaxRecords : Authority!Issue(m.op, m.controller, epoch)
  /\ UNCHANGED <<store, pc, next, sent, receipts>>

\* The answer, issued or replayed, arrives in time, is verified against the
\* request, and commit_tenure_response builds the Committed transaction.
ReceiveAnswer(c) ==
  /\ pc[c] = "Waiting"
  /\ \E r \in ledger :
       /\ r.op = journal[c].op /\ r.digest = c
       /\ Authority!Answer(r)
       /\ next' = [next EXCEPT ![c] =
            [op |-> journal[c].op, phase |-> "Committed", epoch |-> r.epoch]]
  /\ Goto(c, "Publish")
  /\ UNCHANGED <<store, sent, receipts>>

\* Uncertainty is recorded once, and the command ends with the error.
persist_uncertain(c) ==
  IF journal[c].phase = "Prepared"
  THEN /\ next' = [next EXCEPT ![c] =
            [op |-> journal[c].op, phase |-> "Uncertain", epoch |-> 0]]
       /\ Goto(c, "Publish")
  ELSE /\ UNCHANGED next
       /\ Goto(c, "Idle")

\* From its first byte on, an exchange that brings no usable answer before the
\* deadline is Uncertain.
ExchangeUncertain(c) ==
  /\ pc[c] = "Waiting"
  /\ persist_uncertain(c)
  /\ UNCHANGED <<store, sent, receipts, ledger, answered>>

\* The command crashes, or a store step fails; a commit under way may leave its
\* temporary file.
Crash(c) ==
  /\ pc[c] # "Idle"
  /\ Goto(c, "Idle")
  /\ next' = [next EXCEPT ![c] = None]
  /\ \E left \in BOOLEAN :
       /\ left => pc[c] = "Publish"
       /\ orphan' = [orphan EXCEPT ![c] = @ \/ left]
  /\ UNCHANGED <<journal, onDisk, sent, receipts, ledger, answered>>

\* The controller's machine loses power.
PowerFailure(c) ==
  /\ c \in PowerLoss
  /\ Goto(c, "Idle")
  /\ next' = [next EXCEPT ![c] = None]
  /\ \E t \in onDisk[c] :
       /\ journal' = [journal EXCEPT ![c] = t]
       /\ onDisk' = [onDisk EXCEPT ![c] = {t}]
  /\ \E left \in BOOLEAN :
       /\ left => orphan[c] \/ pc[c] = "Publish"
       /\ orphan' = [orphan EXCEPT ![c] = left]
  /\ UNCHANGED <<sent, receipts, ledger, answered>>

Step(c) ==
  \/ OpenFailsInCleanup(c)
  \/ StartFresh(c) \/ StartUnresolved(c) \/ StartCommitted(c)
  \/ Rename(c) \/ SyncDirectory(c)
  \/ ExchangeNotSent(c) \/ Send(c) \/ ReceiveAnswer(c) \/ ExchangeUncertain(c)
  \/ Crash(c) \/ PowerFailure(c)

Next == (\E c \in Controllers : Step(c)) \/ (\E m \in sent : AuthorityIssues(m))

Spec == Init /\ [][Next]_vars

\* The command is run again until it succeeds, a step that can be taken again and
\* again is not interrupted every time, and the authority serves what it is sent.
Fairness ==
  /\ \A c \in Controllers :
       /\ WF_vars(StartFresh(c)) /\ WF_vars(StartUnresolved(c))
       /\ SF_vars(Rename(c)) /\ SF_vars(SyncDirectory(c))
       /\ SF_vars(Send(c)) /\ SF_vars(ReceiveAnswer(c))
  /\ \A m \in Sent : WF_vars(m \in sent /\ AuthorityIssues(m))

FairSpec == Spec /\ Fairness

(***************************************************************************)
(* Properties.                                                             *)
(***************************************************************************)
\* acquire_tenure is ensure-once: however often the command is run, interrupted or
\* answered late, a controller whose machine keeps its power consumes one epoch,
\* and every receipt that any controller prints names an epoch granted to it.
EnsureOnce ==
  /\ \A r1, r2 \in ledger :
       r1.digest = r2.digest /\ r1.digest \notin PowerLoss => r1 = r2
  /\ \A p \in receipts : \E r \in ledger : r.digest = p.controller /\ r.epoch = p.epoch

\* A receipt that is not a replay is printed after its commit: no crash and no
\* power failure takes the proof back or replaces it, so later runs replay it.
FirstReceiptDurable ==
  \A p \in receipts : ~p.replayed_from_journal =>
    \A t \in onDisk[p.controller] :
      t # None /\ t.phase = "Committed" /\ t.epoch = p.epoch

\* "Persists the exact signed acquire request before any Authority exchange"
\* (prepare_tenure_acquisition): a request that was sent is the transaction of the
\* visible snapshot while the machine keeps its power.
SentIsRecorded ==
  \A m \in sent : m.controller \notin PowerLoss =>
    journal[m.controller] # None /\ journal[m.controller].op = m.op

\* Lost answers, late answers and crashes notwithstanding, every controller whose
\* machine keeps its power ends with a committed tenure, unless the others have
\* used up the operation ids of the instance.
TenureEventuallyCommitted ==
  \A c \in Controllers \ PowerLoss :
    <>[](IF journal[c] = None THEN fresh_operations = {} ELSE journal[c].phase = "Committed")

=============================================================================
