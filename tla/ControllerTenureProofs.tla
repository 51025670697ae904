----------------------- MODULE ControllerTenureProofs -----------------------
(***************************************************************************)
(* What the acquire-tenure command promises, for any number of controller  *)
(* stores and operation ids and any ledger capacity: its three invariants, *)
(* and that the command and the network leave the authority's ledger to    *)
(* the authority.                                                          *)
(*                                                                         *)
(* The argument is one chain.  A command that publishes an answer or an    *)
(* uncertainty keeps the operation of the transaction it found, so a store *)
(* with power never changes its operation; every request that left and     *)
(* every ledger record carries that operation; the ledger grants an        *)
(* operation once.  A store that reached Committed starts no publication   *)
(* any more, so what a synced commit left behind stays.                    *)
(***************************************************************************)
EXTENDS ControllerTenure, TLAPS

Labels == {"Idle", "Publish", "Renamed", "Exchange", "Waiting"}
Receipts == [controller : Controllers, epoch : Nat, replayed_from_journal : BOOLEAN]
Records == [op : Ops, digest : Controllers, epoch : Nat, supersedes : Int]

TypeOK ==
  /\ journal \in [Controllers -> Transactions \cup {None}]
  /\ onDisk \in [Controllers -> SUBSET (Transactions \cup {None})]
  /\ orphan \in [Controllers -> BOOLEAN]
  /\ pc \in [Controllers -> Labels]
  /\ next \in [Controllers -> Transactions \cup {None}]
  /\ sent \subseteq Sent
  /\ receipts \subseteq Receipts
  /\ ledger \subseteq Records
  /\ answered \subseteq Records

Unresolved(t) == t # None => t.phase # "Committed"

\* The authority granted the epoch that a transaction or a receipt names.
Granted(c, epoch) == \E r \in ledger : r.digest = c /\ r.epoch = epoch

\* What the running command may rely on in its store.
CommandOK(c) ==
  /\ journal[c] \in onDisk[c]
  /\ pc[c] = "Publish" =>
       /\ next[c] # None
       /\ Unresolved(journal[c])
       /\ journal[c] # None => next[c].op = journal[c].op
  /\ pc[c] = "Renamed" => journal[c] # None
  /\ pc[c] \in {"Exchange", "Waiting"} => journal[c] # None /\ Unresolved(journal[c])

\* Every committed transaction, in memory or on disk, was granted.
EvidenceOK(c) ==
  \A t \in onDisk[c] \cup {next[c]} :
    t # None /\ t.phase = "Committed" => Granted(c, t.epoch)

LedgerOK ==
  /\ \A r \in ledger : [controller |-> r.digest, op |-> r.op] \in sent
  /\ \A r1, r2 \in ledger : r1.op = r2.op => r1 = r2

ReceiptsGranted == \A p \in receipts : Granted(p.controller, p.epoch)

IInv ==
  /\ TypeOK
  /\ \A c \in Controllers : CommandOK(c) /\ EvidenceOK(c)
  /\ LedgerOK
  /\ ReceiptsGranted
  /\ SentIsRecorded
  /\ FirstReceiptDurable

-----------------------------------------------------------------------------
(***************************************************************************)
(* Types.                                                                  *)
(***************************************************************************)
LEMMA TypeInit == Init => TypeOK
BY DEF Init, Authority!Init, TypeOK, Labels

\* The transaction that prepare publishes first is a transaction.
LEMMA PreparedType == \A op \in Ops : Prepared(op) \in Transactions /\ Prepared(op) # None
BY NoneAssumption DEF Prepared, Transactions

\* A step of one controller.
LEMMA StepTypes ==
  ASSUME TypeOK, NEW c \in Controllers, CommandOK(c), Step(c)
  PROVE  TypeOK'
<1>1. CASE OpenFailsInCleanup(c)
  BY <1>1 DEF OpenFailsInCleanup, TypeOK
<1>2. CASE StartFresh(c)
  <2>1. PICK op \in Ops : next' = [next EXCEPT ![c] = Prepared(op)]
    BY <1>2 DEF StartFresh, fresh_operations
  <2>2. next' \in [Controllers -> Transactions \cup {None}]
    BY <2>1, PreparedType DEF TypeOK
  <2> QED  BY <1>2, <2>2 DEF StartFresh, OpenStore, Goto, TypeOK, Labels
<1>3. CASE StartUnresolved(c)
  BY <1>3 DEF StartUnresolved, OpenStore, Goto, TypeOK, Labels
<1>4. CASE StartCommitted(c)
  <2>1. journal[c].epoch \in Nat
    BY <1>4 DEF StartCommitted, TypeOK, Transactions
  <2>2. [controller |-> c, epoch |-> journal[c].epoch, replayed_from_journal |-> TRUE] \in Receipts
    BY <2>1 DEF Receipts
  <2>3. receipts' \subseteq Receipts
    BY <1>4, <2>2 DEF StartCommitted, TypeOK
  <2> QED  BY <1>4, <2>3 DEF StartCommitted, OpenStore, TypeOK
<1>5. CASE Rename(c)
  BY <1>5 DEF Rename, Goto, TypeOK, Labels
<1>6. CASE SyncDirectory(c)
  <2>1. journal[c] \in Transactions
    BY <1>6 DEF SyncDirectory, CommandOK, TypeOK
  <2>2. [controller |-> c, epoch |-> journal[c].epoch, replayed_from_journal |-> FALSE] \in Receipts
    BY <2>1 DEF Receipts, Transactions
  <2>3. receipts' \subseteq Receipts
    BY <1>6, <2>2 DEF SyncDirectory, TypeOK
  <2> QED  BY <1>6, <2>1, <2>3 DEF SyncDirectory, Goto, TypeOK, Labels
<1>7. CASE ExchangeNotSent(c)
  BY <1>7 DEF ExchangeNotSent, store, Goto, TypeOK, Labels
<1>8. CASE Send(c)
  <2>1. journal[c] \in Transactions
    BY <1>8 DEF Send, CommandOK, TypeOK
  <2>2. [controller |-> c, op |-> journal[c].op] \in Sent
    BY <2>1 DEF Transactions, Sent
  <2> QED  BY <1>8, <2>2 DEF Send, store, Goto, TypeOK, Labels
<1>9. CASE ReceiveAnswer(c)
  <2>1. journal[c] \in Transactions
    BY <1>9 DEF ReceiveAnswer, CommandOK, TypeOK
  <2>2. PICK r \in ledger :
          /\ Authority!Answer(r)
          /\ next' = [next EXCEPT ![c] =
               [op |-> journal[c].op, phase |-> "Committed", epoch |-> r.epoch]]
    BY <1>9 DEF ReceiveAnswer
  <2>3. [op |-> journal[c].op, phase |-> "Committed", epoch |-> r.epoch] \in Transactions
    BY <2>1 DEF Transactions, TypeOK, Records
  <2> QED  BY <1>9, <2>2, <2>3 DEF ReceiveAnswer, Authority!Answer, store, Goto, TypeOK, Labels
<1>10. CASE ExchangeUncertain(c)
  <2>1. journal[c] \in Transactions
    BY <1>10 DEF ExchangeUncertain, CommandOK, TypeOK
  <2>2. [op |-> journal[c].op, phase |-> "Uncertain", epoch |-> 0] \in Transactions
    BY <2>1 DEF Transactions
  <2> QED  BY <1>10, <2>2 DEF ExchangeUncertain, persist_uncertain, store, Goto, TypeOK, Labels
<1>11. CASE Crash(c)
  BY <1>11 DEF Crash, Goto, TypeOK, Labels
<1>12. CASE PowerFailure(c)
  BY <1>12 DEF PowerFailure, Goto, TypeOK, Labels
<1> QED  BY <1>1, <1>2, <1>3, <1>4, <1>5, <1>6, <1>7, <1>8, <1>9, <1>10, <1>11, <1>12 DEF Step

-----------------------------------------------------------------------------
(***************************************************************************)
(* What a step of one controller leaves alone.                             *)
(***************************************************************************)

\* The store lock: a command touches its own store only, and never the ledger.
LEMMA Elsewhere ==
  ASSUME TypeOK, NEW c \in Controllers, Step(c)
  PROVE  /\ ledger' = ledger
         /\ \A d \in Controllers \ {c} :
              /\ journal'[d] = journal[d] /\ onDisk'[d] = onDisk[d]
              /\ pc'[d] = pc[d] /\ next'[d] = next[d]
<1>1. CASE OpenFailsInCleanup(c)
  BY <1>1 DEF OpenFailsInCleanup
<1>2. CASE StartFresh(c) \/ StartUnresolved(c) \/ StartCommitted(c)
  BY <1>2 DEF StartFresh, StartUnresolved, StartCommitted, OpenStore, Goto, TypeOK
<1>3. CASE Rename(c) \/ SyncDirectory(c)
  BY <1>3 DEF Rename, SyncDirectory, Goto, TypeOK
<1>4. CASE ExchangeNotSent(c) \/ Send(c) \/ ReceiveAnswer(c)
  BY <1>4 DEF ExchangeNotSent, Send, ReceiveAnswer, Authority!Answer, store, Goto, TypeOK
<1>5. CASE ExchangeUncertain(c)
  BY <1>5 DEF ExchangeUncertain, persist_uncertain, store, Goto, TypeOK
<1>6. CASE Crash(c) \/ PowerFailure(c)
  BY <1>6 DEF Crash, PowerFailure, Goto, TypeOK
<1> QED  BY <1>1, <1>2, <1>3, <1>4, <1>5, <1>6 DEF Step

\* Only a publication adds to what a power failure may leave.
LEMMA DiskShrinks ==
  ASSUME TypeOK, NEW c \in Controllers, CommandOK(c), Step(c), pc[c] # "Publish"
  PROVE  onDisk'[c] \subseteq onDisk[c]
<1>1. CASE OpenFailsInCleanup(c)
  BY <1>1 DEF OpenFailsInCleanup
<1>2. CASE StartFresh(c) \/ StartUnresolved(c) \/ StartCommitted(c)
  <2>1. onDisk' = [onDisk EXCEPT ![c] = IF orphan[c] THEN {journal[c]} ELSE @]
    BY <1>2 DEF StartFresh, StartUnresolved, StartCommitted, OpenStore
  <2> QED  BY <2>1 DEF TypeOK, CommandOK
<1>3. CASE Rename(c) \/ SyncDirectory(c)
  BY <1>3 DEF Rename, SyncDirectory, TypeOK, CommandOK
<1>4. CASE ExchangeNotSent(c) \/ Send(c) \/ ReceiveAnswer(c) \/ ExchangeUncertain(c) \/ Crash(c)
  BY <1>4 DEF ExchangeNotSent, Send, ReceiveAnswer, ExchangeUncertain, Crash, store
<1>5. CASE PowerFailure(c)
  BY <1>5 DEF PowerFailure, TypeOK
<1> QED  BY <1>1, <1>2, <1>3, <1>4, <1>5 DEF Step

-----------------------------------------------------------------------------
(***************************************************************************)
(* The inductive invariant.                                                *)
(***************************************************************************)
LEMMA InvInit == Init => IInv
BY TypeInit DEF Init, Authority!Init, IInv, CommandOK, EvidenceOK, LedgerOK, ReceiptsGranted,
                SentIsRecorded, FirstReceiptDurable

\* The store and the command of the controller that takes the step.
LEMMA StepOwn ==
  ASSUME TypeOK, TypeOK', NEW c \in Controllers, CommandOK(c), EvidenceOK(c), Step(c)
  PROVE  CommandOK(c)' /\ EvidenceOK(c)'
<1>0. ledger' = ledger
  BY Elsewhere
<1>1. CASE OpenFailsInCleanup(c)
  BY <1>0, <1>1 DEF OpenFailsInCleanup, CommandOK, EvidenceOK, Granted, Unresolved
<1>2. CASE StartFresh(c)
  <2>1. PICK op \in Ops : next' = [next EXCEPT ![c] = Prepared(op)]
    BY <1>2 DEF StartFresh, fresh_operations
  <2>2. /\ next'[c] = Prepared(op) /\ next'[c] # None
        /\ pc'[c] = "Publish" /\ journal[c] = None /\ journal' = journal
        /\ onDisk'[c] \subseteq onDisk[c] /\ journal[c] \in onDisk'[c]
    BY <1>2, <2>1, PreparedType DEF StartFresh, OpenStore, Goto, TypeOK, CommandOK
  <2>3. CommandOK(c)'
    BY <2>2 DEF CommandOK, Unresolved
  <2> QED  BY <1>0, <2>2, <2>3 DEF EvidenceOK, Granted, Prepared
<1>3. CASE StartUnresolved(c)
  <2>1. /\ next' = next /\ pc'[c] = "Exchange" /\ journal' = journal
        /\ journal[c] # None /\ journal[c].phase # "Committed"
        /\ onDisk'[c] \subseteq onDisk[c] /\ journal[c] \in onDisk'[c]
    BY <1>3 DEF StartUnresolved, OpenStore, Goto, TypeOK, CommandOK
  <2> QED  BY <1>0, <2>1 DEF CommandOK, Unresolved, EvidenceOK, Granted
<1>4. CASE StartCommitted(c)
  <2>1. /\ next' = next /\ pc' = pc /\ pc[c] = "Idle" /\ journal' = journal
        /\ onDisk'[c] \subseteq onDisk[c] /\ journal[c] \in onDisk'[c]
    BY <1>4 DEF StartCommitted, OpenStore, TypeOK, CommandOK
  <2> QED  BY <1>0, <2>1 DEF CommandOK, EvidenceOK, Granted
<1>5. CASE Rename(c)
  <2>1. /\ next' = next /\ pc'[c] = "Renamed" /\ pc[c] = "Publish" /\ journal'[c] = next[c]
        /\ onDisk'[c] = onDisk[c] \cup {next[c]}
    BY <1>5 DEF Rename, Goto, TypeOK
  <2> QED  BY <1>0, <2>1 DEF CommandOK, EvidenceOK, Granted
<1>6. CASE SyncDirectory(c)
  <2>1. /\ next'[c] = None /\ pc[c] = "Renamed" /\ journal' = journal
        /\ pc'[c] = IF journal[c].phase = "Prepared" THEN "Exchange" ELSE "Idle"
        /\ onDisk'[c] = {journal[c]}
    BY <1>6 DEF SyncDirectory, Goto, TypeOK
  <2> QED  BY <1>0, <2>1 DEF CommandOK, Unresolved, EvidenceOK, Granted
<1>7. CASE ExchangeNotSent(c) \/ Send(c)
  <2>1. /\ next' = next /\ journal' = journal /\ onDisk' = onDisk
        /\ pc[c] = "Exchange" /\ pc'[c] \in {"Idle", "Waiting"}
    BY <1>7 DEF ExchangeNotSent, Send, store, Goto, TypeOK
  <2> QED  BY <1>0, <2>1 DEF CommandOK, Unresolved, EvidenceOK, Granted
<1>8. CASE ReceiveAnswer(c)
  <2>1. PICK r \in ledger :
          /\ r.digest = c
          /\ next' = [next EXCEPT ![c] =
               [op |-> journal[c].op, phase |-> "Committed", epoch |-> r.epoch]]
    BY <1>8 DEF ReceiveAnswer
  <2>2. /\ journal' = journal /\ onDisk' = onDisk /\ pc[c] = "Waiting" /\ pc'[c] = "Publish"
        /\ next'[c] = [op |-> journal[c].op, phase |-> "Committed", epoch |-> r.epoch]
    BY <1>8, <2>1 DEF ReceiveAnswer, store, Goto, TypeOK
  <2>3. next'[c] # None
    <3>1. journal[c] \in Transactions /\ r \in Records
      BY <2>2 DEF CommandOK, TypeOK
    <3> QED  BY <2>2, <3>1, NoneAssumption DEF Transactions, Records
  <2>4. CommandOK(c)'
    BY <2>2, <2>3 DEF CommandOK, Unresolved
  <2>5. EvidenceOK(c)'
    BY <1>0, <2>1, <2>2 DEF EvidenceOK, Granted
  <2> QED  BY <2>4, <2>5
<1>9. CASE ExchangeUncertain(c)
  <2>1. journal' = journal /\ onDisk' = onDisk /\ pc[c] = "Waiting"
    BY <1>9 DEF ExchangeUncertain, store
  <2>2. CASE journal[c].phase = "Prepared"
    <3>1. /\ pc'[c] = "Publish"
          /\ next'[c] = [op |-> journal[c].op, phase |-> "Uncertain", epoch |-> 0]
      BY <1>9, <2>2 DEF ExchangeUncertain, persist_uncertain, Goto, TypeOK
    <3>2. next'[c] # None
      BY <2>1, <3>1, NoneAssumption DEF CommandOK, TypeOK, Transactions
    <3> QED  BY <1>0, <2>1, <3>1, <3>2 DEF CommandOK, Unresolved, EvidenceOK, Granted
  <2>3. CASE journal[c].phase # "Prepared"
    <3>1. next' = next /\ pc'[c] = "Idle"
      BY <1>9, <2>3 DEF ExchangeUncertain, persist_uncertain, Goto, TypeOK
    <3> QED  BY <1>0, <2>1, <3>1 DEF CommandOK, EvidenceOK, Granted
  <2> QED  BY <2>2, <2>3
<1>10. CASE Crash(c)
  <2>1. journal' = journal /\ onDisk' = onDisk /\ pc'[c] = "Idle" /\ next'[c] = None
    BY <1>10 DEF Crash, Goto, TypeOK
  <2> QED  BY <1>0, <2>1 DEF CommandOK, EvidenceOK, Granted
<1>11. CASE PowerFailure(c)
  <2>1. /\ pc'[c] = "Idle" /\ next'[c] = None
        /\ \E t \in onDisk[c] : journal'[c] = t /\ onDisk'[c] = {t}
    BY <1>11 DEF PowerFailure, Goto, TypeOK
  <2> QED  BY <1>0, <2>1 DEF CommandOK, EvidenceOK, Granted
<1> QED  BY <1>1, <1>2, <1>3, <1>4, <1>5, <1>6, <1>7, <1>8, <1>9, <1>10, <1>11 DEF Step

\* "Persists the exact signed acquire request before any Authority exchange": what
\* was sent stays the operation of a store that keeps its power, because a
\* publication keeps the operation that it found.
LEMMA StepSent ==
  ASSUME IInv, NEW c \in Controllers, Step(c)
  PROVE  SentIsRecorded'
<1> SUFFICES ASSUME NEW m \in sent', m.controller \notin PowerLoss
             PROVE  journal'[m.controller] # None /\ journal'[m.controller].op = m.op
  BY DEF SentIsRecorded
<1>0. TypeOK /\ CommandOK(c) /\ SentIsRecorded
  BY DEF IInv
<1>1. CASE m \in sent /\ m.controller # c
  <2>1. m.controller \in Controllers \ {c}
    BY <1>0, <1>1 DEF TypeOK, Sent
  <2> QED  BY <1>0, <1>1, <2>1, Elsewhere DEF SentIsRecorded
<1>2. CASE m \in sent /\ m.controller = c
  <2>1. journal[c] # None /\ journal[c].op = m.op
    BY <1>0, <1>2 DEF SentIsRecorded
  <2>2. CASE Rename(c)
    BY <1>0, <2>1, <2>2, <1>2 DEF Rename, CommandOK, TypeOK
  <2>3. CASE ~Rename(c)
    <3>1. journal' = journal
      BY <1>2, <2>3 DEF Step, OpenFailsInCleanup, StartFresh, StartUnresolved, StartCommitted, OpenStore,
                   SyncDirectory, ExchangeNotSent, Send, ReceiveAnswer, ExchangeUncertain, Crash,
                   PowerFailure, store
    <3> QED  BY <1>2, <2>1, <3>1
  <2> QED  BY <2>2, <2>3
<1>3. CASE m \notin sent
  <2>1. Send(c)
    BY <1>3 DEF Step, OpenFailsInCleanup, StartFresh, StartUnresolved, StartCommitted, Rename,
                SyncDirectory, ExchangeNotSent, ReceiveAnswer, ExchangeUncertain, Crash, PowerFailure
  <2>2. m = [controller |-> c, op |-> journal[c].op] /\ journal' = journal /\ pc[c] = "Exchange"
    BY <1>3, <2>1 DEF Send, store
  <2> QED  BY <1>0, <2>2 DEF CommandOK
<1> QED  BY <1>1, <1>2, <1>3

\* A receipt printed after its commit: the disk holds nothing else, and a store
\* whose snapshots are all Committed publishes no more.
LEMMA StepReceipts ==
  ASSUME IInv, NEW c \in Controllers, Step(c)
  PROVE  FirstReceiptDurable' /\ ReceiptsGranted'
<1>0. TypeOK /\ CommandOK(c) /\ EvidenceOK(c) /\ FirstReceiptDurable /\ ReceiptsGranted
  BY DEF IInv
<1>1. ledger' = ledger
  BY <1>0, Elsewhere
<1>2. ASSUME NEW p \in receipts, ~p.replayed_from_journal, NEW t \in onDisk'[p.controller]
      PROVE  t # None /\ t.phase = "Committed" /\ t.epoch = p.epoch
  <2>1. p.controller \in Controllers
    BY <1>0 DEF TypeOK, Receipts
  <2>2. \A u \in onDisk[p.controller] : u # None /\ u.phase = "Committed" /\ u.epoch = p.epoch
    BY <1>0, <1>2 DEF FirstReceiptDurable
  <2>3. CASE p.controller # c
    <3>1. onDisk'[p.controller] = onDisk[p.controller]
      BY <1>0, <2>1, <2>3, Elsewhere
    <3> QED  BY <1>2, <2>2, <3>1
  <2>4. CASE p.controller = c
    <3>1. pc[c] # "Publish"
      BY <1>0, <2>2, <2>4 DEF CommandOK, Unresolved
    <3>2. onDisk'[c] \subseteq onDisk[c]
      BY <1>0, <3>1, DiskShrinks
    <3> QED  BY <1>2, <2>2, <2>4, <3>2
  <2> QED  BY <2>3, <2>4
<1>3. CASE SyncDirectory(c)
  <2>1. onDisk'[c] = {journal[c]} /\ pc[c] = "Renamed"
    BY <1>0, <1>3 DEF SyncDirectory, TypeOK
  <2>2. ASSUME NEW p \in receipts', p \notin receipts
        PROVE  /\ p.controller = c /\ p.epoch = journal[c].epoch
               /\ journal[c] # None /\ journal[c].phase = "Committed"
    <3>1. p \in {[controller |-> c, epoch |-> t.epoch, replayed_from_journal |-> FALSE] :
                   t \in {u \in {journal[c]} : u.phase = "Committed"}}
      BY <1>3, <2>2 DEF SyncDirectory
    <3> QED  BY <1>0, <2>1, <3>1 DEF CommandOK
  <2>3. FirstReceiptDurable'
    BY <1>2, <2>1, <2>2 DEF FirstReceiptDurable
  <2>4. ReceiptsGranted'
    BY <1>0, <1>1, <2>2 DEF ReceiptsGranted, Granted, EvidenceOK, CommandOK
  <2> QED  BY <2>3, <2>4
<1>4. CASE StartCommitted(c)
  <2>1. /\ receipts' = receipts \cup
             {[controller |-> c, epoch |-> journal[c].epoch, replayed_from_journal |-> TRUE]}
        /\ journal[c] # None /\ journal[c].phase = "Committed"
    BY <1>4 DEF StartCommitted
  <2>2. Granted(c, journal[c].epoch)
    BY <1>0, <2>1 DEF CommandOK, EvidenceOK
  <2>3. FirstReceiptDurable'
    BY <1>2, <2>1 DEF FirstReceiptDurable
  <2>4. ReceiptsGranted'
    BY <1>0, <1>1, <2>1, <2>2 DEF ReceiptsGranted, Granted
  <2> QED  BY <2>3, <2>4
<1>5. CASE receipts' = receipts
  BY <1>0, <1>1, <1>2, <1>5 DEF FirstReceiptDurable, ReceiptsGranted, Granted
<1> QED  BY <1>3, <1>4, <1>5 DEF Step, OpenFailsInCleanup, StartFresh, StartUnresolved, Rename,
            ExchangeNotSent, Send, ReceiveAnswer, ExchangeUncertain, Crash, PowerFailure

\* The authority appends a record for a request that was sent, for an operation
\* that has none.
LEMMA AuthorityStep ==
  ASSUME IInv, NEW m \in sent, AuthorityIssues(m)
  PROVE  IInv'
<1>1. PICK epoch \in 1..MaxRecords : Authority!Issue(m.op, m.controller, epoch)
  BY DEF AuthorityIssues
<1> DEFINE rec == [op |-> m.op, digest |-> m.controller, epoch |-> epoch, supersedes |-> epoch - 1]
<1>2. /\ ledger' = ledger \cup {rec} /\ answered' = answered
      /\ \A r \in ledger : r.op # m.op
  BY <1>1 DEF Authority!Issue
<1>3. /\ journal' = journal /\ onDisk' = onDisk /\ orphan' = orphan /\ pc' = pc /\ next' = next
      /\ sent' = sent /\ receipts' = receipts
  BY DEF AuthorityIssues, store
<1>4. m \in Sent /\ rec \in Records
  BY BoundsAssumption DEF IInv, TypeOK, Sent, Records
<1>5. TypeOK'
  BY <1>2, <1>3, <1>4 DEF IInv, TypeOK
<1>6. \A d, e : Granted(d, e) => Granted(d, e)'
  BY <1>2 DEF Granted
<1>7. ASSUME NEW c \in Controllers PROVE CommandOK(c)' /\ EvidenceOK(c)'
  BY <1>3, <1>6 DEF IInv, CommandOK, EvidenceOK
<1>8. LedgerOK'
  <2>1. [controller |-> m.controller, op |-> m.op] = m
    BY <1>4 DEF Sent
  <2> QED  BY <1>2, <1>3, <2>1 DEF IInv, LedgerOK
<1>9. ReceiptsGranted'
  BY <1>3, <1>6 DEF IInv, ReceiptsGranted
<1>10. SentIsRecorded' /\ FirstReceiptDurable'
  BY <1>3 DEF IInv, SentIsRecorded, FirstReceiptDurable
<1> QED  BY <1>5, <1>7, <1>8, <1>9, <1>10 DEF IInv

\* Every step of a command, a crash, the network and the authority preserves the
\* inductive invariant.
LEMMA InvStep == IInv /\ [Next]_vars => IInv'
<1> SUFFICES ASSUME IInv, [Next]_vars PROVE IInv'
  OBVIOUS
<1>1. ASSUME NEW c \in Controllers, Step(c) PROVE IInv'
  <2>1. TypeOK' /\ ledger' = ledger
    BY <1>1, StepTypes, Elsewhere DEF IInv
  <2>2. ASSUME NEW d \in Controllers PROVE CommandOK(d)' /\ EvidenceOK(d)'
    <3>1. CASE d = c
      BY <1>1, <2>1, <3>1, StepOwn DEF IInv
    <3>2. CASE d # c
      <4>1. /\ journal'[d] = journal[d] /\ onDisk'[d] = onDisk[d]
            /\ pc'[d] = pc[d] /\ next'[d] = next[d]
        BY <1>1, <3>2, Elsewhere DEF IInv
      <4> QED  BY <2>1, <4>1 DEF IInv, CommandOK, EvidenceOK, Unresolved, Granted
    <3> QED  BY <3>1, <3>2
  <2>3. LedgerOK'
    <3>1. sent \subseteq sent'
      BY <1>1 DEF Step, OpenFailsInCleanup, StartFresh, StartUnresolved, StartCommitted, Rename,
                  SyncDirectory, ExchangeNotSent, Send, ReceiveAnswer, ExchangeUncertain, Crash,
                  PowerFailure
    <3> QED  BY <2>1, <3>1 DEF IInv, LedgerOK
  <2> QED  BY <1>1, <2>1, <2>2, <2>3, StepSent, StepReceipts DEF IInv
<1>2. ASSUME NEW m \in sent, AuthorityIssues(m) PROVE IInv'
  BY <1>2, AuthorityStep
<1>3. ASSUME UNCHANGED vars PROVE IInv'
  BY <1>3 DEF vars, IInv, TypeOK, CommandOK, EvidenceOK, Unresolved, Granted, LedgerOK,
              ReceiptsGranted, SentIsRecorded, FirstReceiptDurable
<1> QED  BY <1>1, <1>2, <1>3 DEF Next

\* In every reachable state the store, the requests that left, the authority's
\* ledger and the receipts that commands printed agree.
THEOREM Invariance == Spec => []IInv
BY InvInit, InvStep, PTL DEF Spec

-----------------------------------------------------------------------------
(***************************************************************************)
(* The properties.                                                         *)
(***************************************************************************)

\* prepare_tenure_acquisition: a request that left is the durable transaction of
\* its store, for as long as the machine keeps its power.
THEOREM RequestsAreRecorded == Spec => []SentIsRecorded
<1>1. IInv => SentIsRecorded
  BY DEF IInv
<1> QED  BY <1>1, Invariance, PTL

\* acquire_tenure consumes one epoch of the authority per powered store, however
\* often it is run, interrupted or answered late; receipts name granted epochs.
THEOREM TenureEnsuredOnce == Spec => []EnsureOnce
<1>1. IInv => EnsureOnce
  <2> SUFFICES ASSUME IInv PROVE EnsureOnce
    OBVIOUS
  <2>1. ASSUME NEW r1 \in ledger, NEW r2 \in ledger, r1.digest = r2.digest, r1.digest \notin PowerLoss
        PROVE  r1 = r2
    <3>1. /\ [controller |-> r1.digest, op |-> r1.op] \in sent
          /\ [controller |-> r2.digest, op |-> r2.op] \in sent
      BY DEF IInv, LedgerOK
    <3>2. journal[r1.digest].op = r1.op /\ journal[r1.digest].op = r2.op
      BY <2>1, <3>1 DEF IInv, SentIsRecorded
    <3> QED  BY <3>2 DEF IInv, LedgerOK
  <2> QED  BY <2>1 DEF EnsureOnce, IInv, ReceiptsGranted, Granted
<1> QED  BY <1>1, Invariance, PTL

\* commit_tenure_response: the proof behind a first receipt survives every crash
\* and every power failure.
THEOREM ReceiptsAreDurable == Spec => []FirstReceiptDurable
<1>1. IInv => FirstReceiptDurable
  BY DEF IInv
<1> QED  BY <1>1, Invariance, PTL

\* The commands and the network change the ledger as its specification allows: what
\* TenureAuthority is shown to implement is what the controllers run against.
THEOREM AuthorityIsLedger == Spec => Authority!Spec
<1>1. Init => Authority!Init
  BY DEF Init
<1>2. IInv /\ [Next]_vars => [Authority!Next]_<<ledger, answered>>
  <2> SUFFICES ASSUME IInv, [Next]_vars PROVE [Authority!Next]_<<ledger, answered>>
    OBVIOUS
  <2>1. ASSUME NEW c \in Controllers, ReceiveAnswer(c) PROVE Authority!Next
    BY <2>1 DEF ReceiveAnswer, Authority!Next
  <2>2. ASSUME NEW c \in Controllers, Step(c), ~ReceiveAnswer(c) PROVE UNCHANGED <<ledger, answered>>
    BY <2>2 DEF Step, OpenFailsInCleanup, StartFresh, StartUnresolved, StartCommitted, Rename,
                SyncDirectory, ExchangeNotSent, Send, ExchangeUncertain, Crash, PowerFailure
  <2>3. ASSUME NEW m \in sent, AuthorityIssues(m) PROVE Authority!Next
    <3>1. m.op \in Ops /\ m.controller \in Controllers
      BY DEF IInv, TypeOK, Sent
    <3> QED  BY <2>3, <3>1 DEF AuthorityIssues, Authority!Next
  <2>4. ASSUME UNCHANGED vars PROVE UNCHANGED <<ledger, answered>>
    BY <2>4 DEF vars
  <2> QED  BY <2>1, <2>2, <2>3, <2>4 DEF Next
<1> QED  BY <1>1, <1>2, Invariance, PTL DEF Spec, Authority!Spec

=============================================================================
