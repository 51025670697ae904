--------------------------- MODULE StableAllocation ---------------------------
(* The controller's ledger of stable identities: one record per card use that *)
(* ever ran on the target, live or a tombstone, and the deltas that advance   *)
(* it.  A snapshot's records are a set; the code keeps them sorted by key.    *)
(*                                                                            *)
(* Constructors are sets: empty where the code returns an error.              *)
EXTENDS Integers, FiniteSets

CONSTANTS U64_MAX, MAX_STABLE_ALLOCATION_RECORDS

Active == "Active"
Tombstone == "Tombstone"

(* The first half of a digest over target, key and ordinal.                   *)
derive_id(domain, target, key, ordinal) == <<domain, target, key, ordinal>>

FreshRecord(target, key, ordinal) ==
    [key |-> key, ordinal |-> ordinal, instance |-> derive_id("instance", target, key, ordinal),
     domain |-> derive_id("domain", target, key, ordinal), state |-> Active]

(* The identities of a stored record are recomputed, never believed.          *)
RecordIsDerived(target, r) ==
    /\ r.ordinal # 0
    /\ r.instance = derive_id("instance", target, r.key, r.ordinal)
    /\ r.domain = derive_id("domain", target, r.key, r.ordinal)

Distinct(records, Field(_)) == Cardinality({Field(r) : r \in records}) = Cardinality(records)

GreatestOf(S) == CHOOSE x \in S : \A y \in S : y <= x

StableAllocationSnapshot_try_new(target, generation, high_water, records) ==
    {s \in {[target |-> target, generation |-> generation, high_water |-> high_water, records |-> records]} :
        /\ target # 0
        /\ Cardinality(records) <= MAX_STABLE_ALLOCATION_RECORDS
        /\ Distinct(records, LAMBDA r : r.key)
        /\ Distinct(records, LAMBDA r : r.ordinal)
        /\ Distinct(records, LAMBDA r : r.instance)
        /\ Distinct(records, LAMBDA r : r.domain)
        /\ \A r \in records : RecordIsDerived(target, r)
        /\ IF records = {} THEN generation = 0 /\ high_water = 0
           ELSE /\ generation # 0 /\ generation >= high_water
                /\ high_water = GreatestOf({r.ordinal : r \in records})}

RecordsOf(s, key) == {r \in s.records : r.key = key}

-----------------------------------------------------------------------------
(* A delta lists its changes in strictly increasing key order, so as a set.   *)
(* Fresh changes take the next ordinals in that order.                        *)
KeepsIdentity(s, c) ==
    \E r \in RecordsOf(s, c.key) : r.ordinal = c.ordinal /\ r.instance = c.instance /\ r.domain = c.domain

FreshChanges(s, delta) == {c \in delta.records : ~KeepsIdentity(s, c)}

(* A live record may only become a tombstone, and only an absent key or a     *)
(* tombstone may take a fresh identity.                                       *)
ChangeIsLegal(s, delta, c) ==
    IF KeepsIdentity(s, c)
    THEN c.state = Tombstone /\ \A r \in RecordsOf(s, c.key) : r.state = Active
    ELSE /\ c.state = Active
         /\ \A r \in RecordsOf(s, c.key) : r.state = Tombstone
         /\ c.ordinal = s.high_water + Cardinality({d \in FreshChanges(s, delta) : d.key <= c.key})
         /\ c.ordinal <= U64_MAX

apply_delta(s, delta) ==
    IF /\ delta.base_generation = s.generation
       /\ delta.resulting_high_water >= s.high_water
       /\ Distinct(delta.records, LAMBDA r : r.key)
       /\ \A c \in delta.records : RecordIsDerived(s.target, c) /\ ChangeIsLegal(s, delta, c)
       /\ delta.resulting_high_water = s.high_water + Cardinality(FreshChanges(s, delta))
       /\ delta.next_generation = IF delta.records = {} THEN s.generation ELSE s.generation + 1
       /\ delta.next_generation <= U64_MAX
    THEN StableAllocationSnapshot_try_new(s.target, delta.next_generation, delta.resulting_high_water,
             {r \in s.records : \A c \in delta.records : c.key # r.key} \union delta.records)
    ELSE {}

(* Two snapshots are a step apart when the difference between them is a delta *)
(* that leads from one to the other.                                          *)
allocation_validate_successor_of(s, previous) ==
    /\ s.target = previous.target /\ s.high_water >= previous.high_water
    /\ {r.key : r \in previous.records} \subseteq {r.key : r \in s.records}
    /\ s \in apply_delta(previous,
                 [base_generation |-> previous.generation, next_generation |-> s.generation,
                  resulting_high_water |-> s.high_water, records |-> s.records \ previous.records])

-----------------------------------------------------------------------------
(* Generations.  A plan with something live leaves one generation in reserve. *)
advance_generation(base, changed) ==
    IF ~changed THEN {base} ELSE {base + 1} \intersect 0..U64_MAX

advance_live_generation(base, changed) ==
    IF base = U64_MAX THEN {}
    ELSE {next \in advance_generation(base, changed) : changed => next # U64_MAX}

LiveRecords(s) == {r \in s.records : r.state = Active}
Buried(records) == {[r EXCEPT !.state = Tombstone] : r \in records}

(* The live record of a key is reused, anything else live is buried; a key    *)
(* without one gets the next ordinal.                                         *)
ReusedAllocation(s, key) ==
    LET others == {r \in LiveRecords(s) : r.key # key}
    IN  {[record |-> r,
          delta |-> [base_generation |-> s.generation, next_generation |-> g,
                     resulting_high_water |-> s.high_water, records |-> Buried(others)]] :
         r \in {r \in LiveRecords(s) : r.key = key}, g \in advance_live_generation(s.generation, others # {})}

FreshAllocation(target, key, s) ==
    IF \/ RecordsOf(s, key) = {} /\ Cardinality(s.records) = MAX_STABLE_ALLOCATION_RECORDS
       \/ s.high_water = U64_MAX
    THEN {}
    ELSE LET record == FreshRecord(target, key, s.high_water + 1)
             others == {r \in LiveRecords(s) : r.key # key}
         IN  {[record |-> record,
               delta |-> [base_generation |-> s.generation, next_generation |-> g,
                          resulting_high_water |-> s.high_water + 1,
                          records |-> Buried(others) \union {record}]] :
              g \in advance_live_generation(s.generation, TRUE)}

allocate_active(target, key, s) ==
    IF \E r \in LiveRecords(s) : r.key = key
    THEN ReusedAllocation(s, key) ELSE FreshAllocation(target, key, s)

(* The delta that leaves nothing live.                                        *)
retire_all(s) ==
    {[base_generation |-> s.generation, next_generation |-> g, resulting_high_water |-> s.high_water,
      records |-> Buried(LiveRecords(s))] :
     g \in advance_generation(s.generation, LiveRecords(s) # {})}
=============================================================================
