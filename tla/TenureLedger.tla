---------------------------- MODULE TenureLedger ----------------------------
(***************************************************************************)
(* What the tenure authority promises its clients: one ledger, to which     *)
(* each operation id is appended at most once with the next epoch, and      *)
(* responses that are copies of ledger records.  There is no process, no    *)
(* file and no crash here.                                                  *)
(***************************************************************************)
EXTENDS Integers

CONSTANTS Ops, Digests, MaxRecords

VARIABLES ledger, answered

Init == ledger = {} /\ answered = {}

\* The epochs granted so far are 1..(epoch - 1), and the operation has none.
Issue(op, digest, epoch) ==
  /\ {r.epoch : r \in ledger} = 1..(epoch - 1)
  /\ \A r \in ledger : r.op # op
  /\ ledger' = ledger \cup {[op |-> op, digest |-> digest, epoch |-> epoch,
                             supersedes |-> epoch - 1]}
  /\ UNCHANGED answered

Answer(r) ==
  /\ answered' = answered \cup {r}
  /\ UNCHANGED ledger

Next ==
  \/ \E op \in Ops, digest \in Digests, epoch \in 1..MaxRecords : Issue(op, digest, epoch)
  \/ \E r \in ledger : Answer(r)

Spec == Init /\ [][Next]_<<ledger, answered>>

=============================================================================
