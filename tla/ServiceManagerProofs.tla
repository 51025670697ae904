------------------------ MODULE ServiceManagerProofs ------------------------
(***************************************************************************)
(* What bounds the supervision of the runtime host, for every timing and   *)
(* every restart policy that the code accepts: one owned process at a time *)
(* and no more replacements in a window than the policy allows.            *)
(*                                                                         *)
(* The budget is not inductive: the ledger is pruned only when a restart   *)
(* is scheduled or tried, so between two prunings it holds attempts that   *)
(* left the window long ago.  The invariant that carries the proof is that *)
(* the replacements of the last window are the end of the ledger, whatever *)
(* time a termination or a backoff takes.                                  *)
(***************************************************************************)
EXTENDS ServiceManager, TLAPS, SequenceTheorems, WellFoundedInduction

Ages == 0..AgeCap

\* The replacements of the window are the last entries of the ledger, in order.
Tracks(recent, ledger) ==
  /\ recent \in Seq(Ages) /\ ledger \in Seq(Ages)
  /\ Len(recent) <= Len(ledger)
  /\ \A i \in 1..Len(recent) :
       recent[i] = ledger[Len(ledger) - Len(recent) + i] /\ recent[i] <= window
  /\ \A i, j \in 1..Len(recent) : i <= j => recent[j] <= recent[i]

HostFields == {"status", "phase", "handshaken", "quiet", "inbox", "out"}

IInv ==
  /\ OneOwnedProcess
  /\ DOMAIN host = HostFields
  /\ Tracks(replacements, restart_attempts)

-----------------------------------------------------------------------------
(***************************************************************************)
(* Least numbers, ages and the restart ledger.                             *)
(***************************************************************************)
\* RestartPolicy::try_new accepts natural bounds and at least one restart.
LEMMA Constants ==
  /\ window \in Nat /\ maximum_restarts \in Nat \ {0} /\ initial_backoff \in Nat
  /\ maximum_backoff \in Nat /\ maximum_jitter \in Nat /\ MaxGeneration \in Nat /\ MaxTook \in Nat
BY BoundsAssumption, PolicyAccepted DEF ValidPolicy

\* The order of the natural numbers is well founded.
LEMMA LessIsWellFounded == IsWellFoundedOn({p \in Nat \X Nat : p[1] < p[2]}, Nat)
BY NatLessThanWellFounded, Zenon DEF OpToRel

\* Min is the least element of a set of naturals.
LEMMA LeastNumber ==
  ASSUME NEW S \in SUBSET Nat, S # {}
  PROVE  Min(S) \in S /\ \A i \in S : Min(S) <= i
<1> DEFINE Less == {p \in Nat \X Nat : p[1] < p[2]}
<1>1. IsWellFoundedOn(Less, Nat) /\ S \subseteq Nat
  BY LessIsWellFounded
<1>2. \E x \in S : \A y \in S : ~(<<y, x>> \in Less)
  <2> HIDE DEF Less
  <2> QED  BY <1>1, WFMin
<1>3. PICK x \in S : \A y \in S : ~(<<y, x>> \in Less)
  BY <1>2
<1>4. \A y \in S : x <= y
  <2> SUFFICES ASSUME NEW y \in S PROVE x <= y
    OBVIOUS
  <2>1. x \in Nat /\ y \in Nat /\ <<y, x>> \in Nat \X Nat
    OBVIOUS
  <2>2. ~(<<y, x>>[1] < <<y, x>>[2])
    BY <1>3, <2>1
  <2> QED  BY <2>1, <2>2
<1> QED  BY <1>4 DEF Min

\* Min of a pair.
LEMMA MinOfTwo ==
  ASSUME NEW a \in Int, NEW b \in Int
  PROVE  Min({a, b}) = IF a <= b THEN a ELSE b
BY DEF Min

\* Max of a pair.
LEMMA MaxOfTwo ==
  ASSUME NEW a \in Int, NEW b \in Int
  PROVE  Max({a, b}) = IF a <= b THEN b ELSE a
BY DEF Max

\* An age stops growing only past the restart window.
LEMMA AgeCapAboveWindow == AgeCap \in Nat /\ window < AgeCap
<1> DEFINE S == {heartbeat_timeout, bootstrap_timeout, control_response_timeout, window,
                 control_probe_interval}
<1>1. S \subseteq Nat
  BY BoundsAssumption
<1>2. \E x \in S : \A y \in S : x >= y
  BY <1>1
<1>3. Max(S) \in S /\ \A y \in S : Max(S) >= y
  BY <1>2 DEF Max
<1> QED  BY <1>1, <1>3 DEF AgeCap

\* Time that passes adds to an age, up to the cap.
LEMMA OlderAge ==
  ASSUME NEW age \in Ages, NEW ticks \in Nat
  PROVE  /\ Older(age, ticks) = IF age + ticks <= AgeCap THEN age + ticks ELSE AgeCap
         /\ Older(age, ticks) \in Ages
<1>1. age \in Nat /\ age <= AgeCap /\ AgeCap \in Nat
  BY AgeCapAboveWindow DEF Ages
<1>2. Older(age, ticks) = IF age + ticks <= AgeCap THEN age + ticks ELSE AgeCap
  BY <1>1, MinOfTwo DEF Older
<1> QED  BY <1>1, <1>2 DEF Ages

\* Time that passes ages every entry of a ledger and keeps its order.
LEMMA AgedAges ==
  ASSUME NEW ages \in Seq(Ages), NEW ticks \in Nat
  PROVE  /\ Aged(ages, ticks) \in Seq(Ages)
         /\ Len(Aged(ages, ticks)) = Len(ages)
         /\ \A i \in 1..Len(ages) : Aged(ages, ticks)[i] = Older(ages[i], ticks)
<1>1. DOMAIN ages = 1..Len(ages) /\ Len(ages) \in Nat /\ \A i \in 1..Len(ages) : ages[i] \in Ages
  BY LenProperties, ElementOfSeq
<1>2. \A i \in 1..Len(ages) : Older(ages[i], ticks) \in Ages
  BY <1>1, OlderAge
<1>3. Aged(ages, ticks) = [i \in 1..Len(ages) |-> Older(ages[i], ticks)]
  BY <1>1 DEF Aged
<1>4. Aged(ages, ticks) \in [1..Len(ages) -> Ages]
  BY <1>2, <1>3
<1> QED  BY <1>1, <1>3, <1>4, IsASeq, LenProperties

\* Adding no time changes no age.
LEMMA AgedByNothing ==
  ASSUME NEW ages \in Seq(Ages)
  PROVE  Aged(ages, 0) = ages
<1>1. DOMAIN ages = 1..Len(ages) /\ \A i \in 1..Len(ages) : ages[i] \in Ages
  BY LenProperties, ElementOfSeq
<1>2. \A i \in 1..Len(ages) : Older(ages[i], 0) = ages[i]
  BY <1>1, OlderAge, AgeCapAboveWindow DEF Ages
<1>3. ages = [i \in 1..Len(ages) |-> ages[i]]
  BY <1>1, LenProperties
<1> QED  BY <1>1, <1>2, <1>3 DEF Aged

\* The window starts after the first k ages.
StartsAfter(ages, k) ==
  /\ Len(InWindow(ages)) = Len(ages) - k
  /\ \A i \in 1..(Len(ages) - k) : InWindow(ages)[i] = ages[k + i]
  /\ \A i \in 1..k : ages[i] > window
  /\ k < Len(ages) => ages[k + 1] <= window

\* prune_restart_attempts drops a prefix that is too old, and stops at the first
\* attempt of the window.
LEMMA InWindowAges ==
  ASSUME NEW ages \in Seq(Ages)
  PROVE  InWindow(ages) \in Seq(Ages) /\ \E k \in 0..Len(ages) : StartsAfter(ages, k)
<1> DEFINE recent == {i \in DOMAIN ages : ages[i] <= window}
<1>1. DOMAIN ages = 1..Len(ages) /\ Len(ages) \in Nat /\ \A i \in 1..Len(ages) : ages[i] \in Ages
  BY LenProperties, ElementOfSeq
<1>2. \A i \in 1..Len(ages) : ages[i] \in Nat
  BY <1>1 DEF Ages
<1>3. CASE recent = {}
  <2>1. InWindow(ages) = <<>>
    BY <1>3 DEF InWindow
  <2>2. \A i \in 1..Len(ages) : ages[i] > window
    BY <1>1, <1>2, <1>3, Constants
  <2>3. Len(ages) \in 0..Len(ages) /\ Len(<<>>) = Len(ages) - Len(ages) /\ 1..(Len(ages) - Len(ages)) = {}
    BY <1>1
  <2>4. StartsAfter(ages, Len(ages))
    BY <1>1, <2>1, <2>2, <2>3 DEF StartsAfter
  <2>5. <<>> \in Seq(Ages)
    OBVIOUS
  <2> QED  BY <2>1, <2>3, <2>4, <2>5
<1>4. CASE recent # {}
  <2> DEFINE m == Min(recent)
  <2>0. recent \subseteq Nat /\ recent \subseteq 1..Len(ages)
    BY <1>1
  <2>1. m \in recent /\ \A i \in recent : m <= i
    BY <1>4, <2>0, LeastNumber
  <2>2. m \in 1..Len(ages) /\ ages[m] <= window /\ InWindow(ages) = SubSeq(ages, m, Len(ages))
    BY <1>4, <2>0, <2>1 DEF InWindow
  <2> HIDE DEF m
  <2>3. /\ SubSeq(ages, m, Len(ages)) \in Seq(Ages)
        /\ Len(SubSeq(ages, m, Len(ages))) = Len(ages) - m + 1
        /\ \A i \in 1..(Len(ages) - m + 1) : SubSeq(ages, m, Len(ages))[i] = ages[m + i - 1]
    BY <1>1, <2>2, SubSeqProperties
  <2>4. \A i \in 1..(m - 1) : ages[i] > window
    <3> SUFFICES ASSUME NEW i \in 1..(m - 1) PROVE ages[i] > window
      OBVIOUS
    <3>1. i \in 1..Len(ages) /\ i < m
      BY <1>1, <2>2
    <3>2. i \notin recent
      BY <2>1, <2>2, <3>1
    <3> QED  BY <1>1, <1>2, <3>1, <3>2, Constants
  <2>5. m - 1 \in 0..Len(ages) /\ Len(ages) - (m - 1) = Len(ages) - m + 1
    BY <1>1, <2>2
  <2>6. \A i \in 1..(Len(ages) - (m - 1)) : InWindow(ages)[i] = ages[(m - 1) + i]
    BY <1>1, <2>2, <2>3
  <2>7. StartsAfter(ages, m - 1)
    BY <1>1, <2>2, <2>3, <2>4, <2>5, <2>6 DEF StartsAfter
  <2> QED  BY <2>2, <2>3, <2>5, <2>7
<1> QED  BY <1>3, <1>4

\* Time passes for the ledger and for the history.
LEMMA TracksAge ==
  ASSUME NEW r, NEW l, Tracks(r, l), NEW ticks \in Nat
  PROVE  Tracks(InWindow(Aged(r, ticks)), Aged(l, ticks))
<1> DEFINE ra == Aged(r, ticks)
           la == Aged(l, ticks)
           w  == InWindow(ra)
<1>1. r \in Seq(Ages) /\ l \in Seq(Ages) /\ Len(r) \in Nat /\ Len(l) \in Nat /\ Len(r) <= Len(l)
  BY LenProperties DEF Tracks
<1>2. /\ ra \in Seq(Ages) /\ Len(ra) = Len(r) /\ \A i \in 1..Len(r) : ra[i] = Older(r[i], ticks)
      /\ la \in Seq(Ages) /\ Len(la) = Len(l) /\ \A i \in 1..Len(l) : la[i] = Older(l[i], ticks)
  BY <1>1, AgedAges
<1>3. w \in Seq(Ages) /\ \E k \in 0..Len(ra) : StartsAfter(ra, k)
  BY <1>2, InWindowAges
<1>4. PICK k \in 0..Len(r) : StartsAfter(ra, k)
  BY <1>2, <1>3
<1>5. /\ Len(w) = Len(r) - k /\ Len(w) \in Nat
      /\ \A i \in 1..(Len(r) - k) : w[i] = ra[k + i]
      /\ k < Len(r) => ra[k + 1] <= window
  BY <1>1, <1>2, <1>4 DEF StartsAfter
<1> HIDE DEF ra, la, w
<1>6. \A i, j \in 1..Len(r) : i <= j => ra[j] <= ra[i]
  <2> SUFFICES ASSUME NEW i \in 1..Len(r), NEW j \in 1..Len(r), i <= j PROVE ra[j] <= ra[i]
    OBVIOUS
  <2>1. r[i] \in Ages /\ r[j] \in Ages /\ r[j] <= r[i]
    BY <1>1, ElementOfSeq DEF Tracks
  <2>2. /\ ra[i] = IF r[i] + ticks <= AgeCap THEN r[i] + ticks ELSE AgeCap
        /\ ra[j] = IF r[j] + ticks <= AgeCap THEN r[j] + ticks ELSE AgeCap
    BY <1>2, <2>1, OlderAge
  <2> QED  BY <2>1, <2>2, AgeCapAboveWindow DEF Ages
<1>7. \A i \in 1..Len(r) : ra[i] \in Nat
  <2>1. \A i \in 1..Len(r) : ra[i] \in Ages
    BY <1>2, ElementOfSeq
  <2> QED  BY <2>1, AgeCapAboveWindow DEF Ages
<1>8. ASSUME NEW i \in 1..Len(w)
      PROVE  w[i] = la[Len(la) - Len(w) + i] /\ w[i] <= window
  <2>1. /\ k + i \in 1..Len(r) /\ k + 1 \in 1..Len(r) /\ k + 1 <= k + i /\ k < Len(r)
        /\ Len(l) - Len(r) + (k + i) \in 1..Len(l)
        /\ Len(l) - Len(r) + (k + i) = Len(la) - Len(w) + i
        /\ w[i] = ra[k + i]
    BY <1>1, <1>2, <1>4, <1>5
  <2>2. r[k + i] = l[Len(l) - Len(r) + (k + i)]
    BY <2>1 DEF Tracks
  <2>3. w[i] = la[Len(la) - Len(w) + i]
    BY <1>2, <2>1, <2>2
  <2>4. ra[k + i] <= ra[k + 1] /\ ra[k + 1] <= window
    BY <1>5, <1>6, <2>1
  <2>5. ra[k + i] \in Nat /\ ra[k + 1] \in Nat /\ window \in Nat
    BY <1>7, <2>1, Constants
  <2>6. ra[k + i] <= window
    BY <2>4, <2>5
  <2> QED  BY <2>1, <2>3, <2>6
<1>9. \A i, j \in 1..Len(w) : i <= j => w[j] <= w[i]
  <2> SUFFICES ASSUME NEW i \in 1..Len(w), NEW j \in 1..Len(w), i <= j PROVE w[j] <= w[i]
    OBVIOUS
  <2>1. k + i \in 1..Len(r) /\ k + j \in 1..Len(r) /\ k + i <= k + j
    BY <1>1, <1>4, <1>5
  <2>2. w[i] = ra[k + i] /\ w[j] = ra[k + j]
    BY <1>5
  <2> QED  BY <1>6, <2>1, <2>2
<1>10. Len(w) <= Len(la)
  BY <1>1, <1>2, <1>4, <1>5
<1>11. Tracks(w, la)
  BY <1>2, <1>3, <1>8, <1>9, <1>10 DEF Tracks
<1> QED  BY <1>11 DEF w, ra, la

\* Pruning drops none of the replacements of the window.
LEMMA TracksPrune ==
  ASSUME NEW r, NEW l, Tracks(r, l)
  PROVE  /\ Tracks(r, prune_restart_attempts(l))
         /\ Len(prune_restart_attempts(l)) <= Len(l)
<1> DEFINE w == InWindow(l)
<1>1. r \in Seq(Ages) /\ l \in Seq(Ages) /\ Len(r) \in Nat /\ Len(l) \in Nat /\ Len(r) <= Len(l)
  BY LenProperties DEF Tracks
<1>2. w \in Seq(Ages) /\ \E k \in 0..Len(l) : StartsAfter(l, k)
  BY <1>1, InWindowAges
<1>3. PICK k \in 0..Len(l) : StartsAfter(l, k)
  BY <1>2
<1>4. /\ Len(w) = Len(l) - k
      /\ \A i \in 1..(Len(l) - k) : w[i] = l[k + i]
      /\ \A i \in 1..k : l[i] > window
  BY <1>3 DEF StartsAfter
<1> HIDE DEF w
<1>5. k <= Len(l) - Len(r)
  <2>1. CASE Len(r) = 0
    BY <1>1, <1>3, <2>1
  <2>2. CASE Len(r) # 0
    <3>1. /\ 1 \in 1..Len(r) /\ Len(l) - Len(r) + 1 \in 1..Len(l)
      BY <1>1, <2>2
    <3>2. r[1] = l[Len(l) - Len(r) + 1] /\ r[1] <= window /\ r[1] \in Ages
      BY <1>1, <3>1, ElementOfSeq DEF Tracks
    <3>3. ~(l[Len(l) - Len(r) + 1] > window)
      BY <3>2, Constants, AgeCapAboveWindow DEF Ages
    <3>4. Len(l) - Len(r) + 1 \notin 1..k
      BY <1>4, <3>3
    <3> QED  BY <1>1, <1>3, <3>1, <3>4
  <2> QED  BY <2>1, <2>2
<1>6. Len(r) <= Len(w) /\ Len(w) <= Len(l)
  BY <1>1, <1>3, <1>4, <1>5
<1>7. ASSUME NEW i \in 1..Len(r)
      PROVE  r[i] = w[Len(w) - Len(r) + i] /\ r[i] <= window
  <2>1. /\ Len(w) - Len(r) + i \in 1..(Len(l) - k)
        /\ k + (Len(w) - Len(r) + i) = Len(l) - Len(r) + i
    BY <1>1, <1>3, <1>4, <1>5
  <2> QED  BY <1>4, <2>1 DEF Tracks
<1>8. Tracks(r, w)
  BY <1>1, <1>2, <1>6, <1>7 DEF Tracks
<1> QED  BY <1>6, <1>8 DEF w, prune_restart_attempts

\* commit_restart_attempt adds one attempt to both.
LEMMA TracksAttempt ==
  ASSUME NEW r, NEW l, Tracks(r, l)
  PROVE  /\ Tracks(Append(r, 0), Append(l, 0))
         /\ Len(Append(l, 0)) = Len(l) + 1
<1>1. r \in Seq(Ages) /\ l \in Seq(Ages) /\ Len(r) \in Nat /\ Len(l) \in Nat /\ Len(r) <= Len(l)
  BY LenProperties DEF Tracks
<1>2. 0 \in Ages
  BY AgeCapAboveWindow DEF Ages
<1> DEFINE ra == Append(r, 0)
           la == Append(l, 0)
<1>3. /\ ra \in Seq(Ages) /\ Len(ra) = Len(r) + 1 /\ ra[Len(r) + 1] = 0
      /\ \A i \in 1..Len(r) : ra[i] = r[i]
      /\ la \in Seq(Ages) /\ Len(la) = Len(l) + 1 /\ la[Len(l) + 1] = 0
      /\ \A i \in 1..Len(l) : la[i] = l[i]
  BY <1>1, <1>2, AppendProperties
<1> HIDE DEF ra, la
<1>4. ASSUME NEW i \in 1..Len(ra)
      PROVE  ra[i] = la[Len(la) - Len(ra) + i] /\ ra[i] <= window
  <2>1. CASE i = Len(r) + 1
    BY <1>1, <1>3, <2>1, Constants
  <2>2. CASE i # Len(r) + 1
    <3>1. i \in 1..Len(r) /\ Len(l) - Len(r) + i \in 1..Len(l)
          /\ Len(la) - Len(ra) + i = Len(l) - Len(r) + i
      BY <1>1, <1>3, <2>2
    <3> QED  BY <1>3, <3>1 DEF Tracks
  <2> QED  BY <2>1, <2>2
<1>5. \A i, j \in 1..Len(ra) : i <= j => ra[j] <= ra[i]
  <2> SUFFICES ASSUME NEW i \in 1..Len(ra), NEW j \in 1..Len(ra), i <= j PROVE ra[j] <= ra[i]
    OBVIOUS
  <2>1. CASE j = Len(r) + 1
    <3>1. ra[i] \in Ages
      BY <1>3, ElementOfSeq
    <3> QED  BY <1>3, <2>1, <3>1 DEF Ages
  <2>2. CASE j # Len(r) + 1
    <3>1. i \in 1..Len(r) /\ j \in 1..Len(r)
      BY <1>1, <1>3, <2>2
    <3> QED  BY <1>3, <3>1 DEF Tracks
  <2> QED  BY <2>1, <2>2
<1>6. Tracks(ra, la)
  BY <1>1, <1>3, <1>4, <1>5 DEF Tracks
<1> QED  BY <1>3, <1>6 DEF ra, la

-----------------------------------------------------------------------------
(***************************************************************************)
(* The steps.                                                              *)
(***************************************************************************)

\* The ledger never outgrows the policy, and a delay never the largest backoff.
LEMMA ScheduleRestart ==
  ASSUME NEW r, NEW ages, Tracks(r, ages), Len(ages) <= maximum_restarts,
         NEW stale \in Nat, schedule_restart(ages, stale)
  PROVE  /\ restart_attempts' = Aged(prune_restart_attempts(ages), stale)
         /\ Len(restart_attempts') <= maximum_restarts
         /\ \/ state' = "Quarantined" /\ pending_restart' = NotPending
            \/ state' = "RestartBackoff" /\ pending_restart' \in 0..(maximum_backoff + maximum_jitter)
<1> DEFINE kept == prune_restart_attempts(ages)
<1>1. kept \in Seq(Ages) /\ Len(kept) \in Nat /\ Len(ages) \in Nat /\ Len(kept) <= Len(ages)
  BY TracksPrune, LenProperties DEF Tracks
<1>2. restart_attempts' = Aged(kept, stale) /\ Len(restart_attempts') = Len(kept)
  BY <1>1, AgedAges DEF schedule_restart
<1>3. CASE Len(kept) >= maximum_restarts
  BY <1>1, <1>2, <1>3, Constants DEF schedule_restart
<1>4. CASE ~(Len(kept) >= maximum_restarts)
  <2>1. PICK delay \in restart_delays(Len(kept) + 1) : pending_restart' = Max({0, delay - stale})
    BY <1>4 DEF schedule_restart
  <2> DEFINE step == initial_backoff * 2^((Len(kept) + 1) - 1)
  <2>2. PICK jitter \in 0..maximum_jitter : delay = Min({step, maximum_backoff}) + jitter
    BY <2>1 DEF restart_delays
  <2>3. step \in Int
    BY <1>1, Constants
  <2> HIDE DEF step
  <2>4. Min({step, maximum_backoff}) \in Int /\ Min({step, maximum_backoff}) <= maximum_backoff
    BY <2>3, MinOfTwo, Constants
  <2>5. delay \in Int /\ delay <= maximum_backoff + maximum_jitter
    BY <2>2, <2>4, Constants
  <2>6. pending_restart' \in 0..(maximum_backoff + maximum_jitter)
    BY <2>1, <2>5, MaxOfTwo, Constants
  <2> QED  BY <1>1, <1>2, <1>4, <2>6, Constants DEF schedule_restart
<1> QED  BY <1>3, <1>4

\* spawn_next: whatever child it leaves behind has one owner.
LEMMA AdoptOwns ==
  ASSUME generation \in 0..MaxGeneration, NEW outcome \in spawn_outcomes, Adopt(outcome)
  PROVE  /\ outcome \in {"NotSpawned", "Rejected", "NotReaped", "Ok"}
         /\ generation' \in 0..MaxGeneration
         /\ failed_spawn_cleanup' \in BOOLEAN
         /\ DOMAIN host' = HostFields
         /\ (host'.status # "None") = (outcome \in {"Ok", "NotReaped"})
         /\ (active' # {}) = (outcome = "Ok")
         /\ failed_spawn_cleanup' = (outcome = "NotReaped")
<1>1. /\ outcome \in {"NotSpawned", "Rejected", "NotReaped", "Ok"}
      /\ generation = MaxGeneration => outcome = "NotSpawned"
  BY DEF spawn_outcomes
<1>2. generation' \in 0..MaxGeneration
  BY <1>1, Constants DEF Adopt, GenerationAfter
<1>3. /\ DOMAIN NoProcess = HostFields /\ NoProcess.status = "None"
      /\ DOMAIN Spawned.host = HostFields /\ Spawned.host.status = "Up"
  BY DEF NoProcess, Spawned, send_control_probe, HostFields
<1>4. /\ DOMAIN host' = HostFields
      /\ (host'.status # "None") = (outcome \in {"Ok", "NotReaped"})
  <2>1. CASE outcome = "Ok"
    BY <1>3, <2>1 DEF Adopt
  <2>2. CASE outcome = "NotReaped"
    BY <1>3, <2>2 DEF Adopt, HostFields
  <2>3. CASE outcome \in {"NotSpawned", "Rejected"}
    BY <1>3, <2>3 DEF Adopt
  <2> QED  BY <1>1, <2>1, <2>2, <2>3
<1>5. (active' # {}) = (outcome = "Ok")
  BY DEF Adopt
<1>6. failed_spawn_cleanup' = (outcome = "NotReaped") /\ failed_spawn_cleanup' \in BOOLEAN
  BY DEF Adopt
<1> QED  BY <1>1, <1>2, <1>4, <1>5, <1>6

\* The first spawn, however it ends, preserves the invariant.
LEMMA TryStartStep == IInv /\ TryStart => IInv'
<1> SUFFICES ASSUME IInv, TryStart PROVE IInv'
  OBVIOUS
<1>1. PICK outcome \in spawn_outcomes :
        /\ Adopt(outcome)
        /\ state' = CASE outcome = "Ok" -> "Bootstrapping"
                      [] outcome = "NotReaped" -> "Quarantined"
                      [] OTHER -> "Exited"
  BY DEF TryStart
<1>2. /\ state = "New" /\ UNCHANGED <<restart_attempts, pending_restart, replacements>>
      /\ mode' \in {"Supervising", "Quarantined"}
  BY DEF TryStart, NextMode, IInv, OneOwnedProcess, TypeOK
<1>3. generation \in 0..MaxGeneration /\ pending_restart = NotPending
  BY <1>2 DEF IInv, OneOwnedProcess, TypeOK, States
<1>4. /\ outcome \in {"NotSpawned", "Rejected", "NotReaped", "Ok"}
      /\ generation' \in 0..MaxGeneration /\ failed_spawn_cleanup' \in BOOLEAN
      /\ DOMAIN host' = HostFields
      /\ (host'.status # "None") = (outcome \in {"Ok", "NotReaped"})
      /\ (active' # {}) = (outcome = "Ok")
      /\ failed_spawn_cleanup' = (outcome = "NotReaped")
  BY <1>1, <1>3, AdoptOwns
<1>5. state' = IF outcome = "Ok" THEN "Bootstrapping"
               ELSE IF outcome = "NotReaped" THEN "Quarantined" ELSE "Exited"
  BY <1>1
<1>6. TypeOK'
  BY <1>2, <1>3, <1>4, <1>5 DEF IInv, OneOwnedProcess, TypeOK, States
<1>7. OneOwnedProcess'
  BY <1>4, <1>5, <1>6 DEF OneOwnedProcess
<1> QED  BY <1>2, <1>4, <1>7 DEF IInv

\* poll in RestartBackoff: the attempt is committed to the ledger before the spawn
\* is tried, and a ledger at its limit quarantines.
LEMMA PollBackoffStep == IInv /\ PollBackoff => IInv'
<1> SUFFICES ASSUME IInv, PollBackoff PROVE IInv'
  OBVIOUS
<1> DEFINE kept == prune_restart_attempts(restart_attempts)
<1>1. Tracks(replacements, kept) /\ Len(kept) <= Len(restart_attempts)
  BY TracksPrune DEF IInv
<1>2. /\ kept \in Seq(Ages) /\ Len(kept) \in Nat /\ Len(restart_attempts) \in Nat
      /\ Len(restart_attempts) <= maximum_restarts
      /\ generation \in 0..MaxGeneration /\ state = "RestartBackoff" /\ host.status = "None"
      /\ mode' \in {"Supervising", "Quarantined"}
  BY <1>1, LenProperties DEF IInv, OneOwnedProcess, TypeOK, Tracks, PollBackoff, NextMode
<1>3. CASE Len(kept) >= maximum_restarts
  <2>1. /\ state' = "Quarantined" /\ pending_restart' = NotPending /\ restart_attempts' = kept
        /\ UNCHANGED <<generation, active, failed_spawn_cleanup, host, replacements>>
    BY <1>3 DEF PollBackoff, history
  <2>2. TypeOK'
    BY <1>1, <1>2, <2>1, Constants DEF IInv, OneOwnedProcess, TypeOK, States
  <2>3. OneOwnedProcess'
    BY <2>1, <2>2 DEF IInv, OneOwnedProcess
  <2> QED  BY <1>1, <2>1, <2>3 DEF IInv
<1>4. CASE ~(Len(kept) >= maximum_restarts)
  <2>1. PICK outcome \in spawn_outcomes, took \in 0..MaxTook :
          /\ Adopt(outcome)
          /\ replacements' = InWindow(Aged(Append(replacements, 0), took))
          /\ IF outcome \in {"Ok", "NotReaped"}
             THEN /\ state' = IF outcome = "Ok" THEN "Bootstrapping" ELSE "Quarantined"
                  /\ pending_restart' = NotPending
                  /\ restart_attempts' = Aged(Append(kept, 0), took)
             ELSE schedule_restart(Aged(Append(kept, 0), took), 0)
    BY <1>4 DEF PollBackoff
  <2> DEFINE ages == Aged(Append(kept, 0), took)
  <2> HIDE DEF kept
  <2>2. Tracks(Append(replacements, 0), Append(kept, 0)) /\ Len(Append(kept, 0)) = Len(kept) + 1
    BY <1>1, TracksAttempt
  <2>3. took \in Nat
    BY <2>1, Constants
  <2>4. Tracks(replacements', ages)
    BY <2>1, <2>2, <2>3, TracksAge
  <2>5. Len(ages) <= maximum_restarts
    <3>1. Append(kept, 0) \in Seq(Ages)
      BY <2>2 DEF Tracks
    <3>2. Len(ages) = Len(kept) + 1
      BY <2>2, <2>3, <3>1, AgedAges
    <3> QED  BY <1>2, <1>4, <3>2, Constants
  <2>6. /\ outcome \in {"NotSpawned", "Rejected", "NotReaped", "Ok"}
        /\ generation' \in 0..MaxGeneration /\ failed_spawn_cleanup' \in BOOLEAN
        /\ DOMAIN host' = HostFields
        /\ (host'.status # "None") = (outcome \in {"Ok", "NotReaped"})
        /\ (active' # {}) = (outcome = "Ok")
        /\ failed_spawn_cleanup' = (outcome = "NotReaped")
    BY <1>2, <2>1, AdoptOwns
  <2>7. CASE outcome \in {"Ok", "NotReaped"}
    <3>1. /\ state' = IF outcome = "Ok" THEN "Bootstrapping" ELSE "Quarantined"
          /\ pending_restart' = NotPending /\ restart_attempts' = ages
      BY <2>1, <2>7
    <3>2. TypeOK'
      BY <1>2, <2>5, <2>6, <3>1 DEF TypeOK, States
    <3>3. OneOwnedProcess'
      BY <2>6, <2>7, <3>1, <3>2 DEF OneOwnedProcess
    <3> QED  BY <2>4, <2>6, <3>1, <3>3 DEF IInv
  <2>8. CASE outcome \notin {"Ok", "NotReaped"}
    <3>1. schedule_restart(ages, 0)
      BY <2>1, <2>8
    <3> HIDE DEF ages
    <3>2. /\ restart_attempts' = Aged(prune_restart_attempts(ages), 0)
          /\ Len(restart_attempts') <= maximum_restarts
          /\ \/ state' = "Quarantined" /\ pending_restart' = NotPending
             \/ state' = "RestartBackoff" /\ pending_restart' \in 0..(maximum_backoff + maximum_jitter)
      BY <2>4, <2>5, <3>1, ScheduleRestart
    <3>3. Tracks(replacements', prune_restart_attempts(ages))
      BY <2>4, TracksPrune
    <3>4. Tracks(replacements', restart_attempts')
      <4>1. prune_restart_attempts(ages) \in Seq(Ages)
        BY <3>3 DEF Tracks
      <4> QED  BY <3>2, <3>3, <4>1, AgedByNothing
    <3>5. TypeOK'
      BY <1>2, <2>6, <3>2, Constants DEF TypeOK, States, NotPending
    <3>6. OneOwnedProcess'
      BY <2>6, <2>8, <3>2, <3>5 DEF OneOwnedProcess
    <3> QED  BY <2>6, <3>4, <3>6 DEF IInv
  <2> QED  BY <2>7, <2>8
<1> QED  BY <1>3, <1>4

\* A termination reaps the child and schedules its replacement, or keeps its owner
\* in quarantine; an exit is scheduled from a reading taken before it.
LEMMA TerminateStep ==
  ASSUME IInv, NEW a \in active, state \in {"Bootstrapping", "Running"}, NEW why,
         NEW stale \in BOOLEAN, Terminate(why, stale), mode' \in {"Supervising", "Quarantined"}
  PROVE  IInv'
<1>0. /\ active # {} /\ ~failed_spawn_cleanup /\ host.status # "None" /\ pending_restart = NotPending
      /\ Len(restart_attempts) <= maximum_restarts /\ DOMAIN host = HostFields
      /\ restart_attempts \in Seq(Ages) /\ Tracks(replacements, restart_attempts)
      /\ generation \in 0..MaxGeneration /\ failed_spawn_cleanup \in BOOLEAN
  BY DEF IInv, OneOwnedProcess, TypeOK, Tracks
<1>1. PICK reaped \in BOOLEAN, took \in 0..MaxTook :
        /\ UNCHANGED <<generation, failed_spawn_cleanup, prompt>>
        /\ replacements' = InWindow(Aged(replacements, took))
        /\ IF reaped
           THEN /\ host' = NoProcess /\ active' = {}
                /\ IF stale THEN schedule_restart(restart_attempts, took)
                            ELSE schedule_restart(Aged(restart_attempts, took), 0)
           ELSE /\ state' = "Quarantined"
                /\ restart_attempts' = Aged(restart_attempts, took)
                /\ Unreaped
                /\ UNCHANGED <<active, pending_restart>>
  BY DEF Terminate
<1>2. took \in Nat
  BY Constants
<1> DEFINE aged == Aged(restart_attempts, took)
<1>3. /\ Tracks(replacements', aged) /\ Len(aged) <= maximum_restarts
  BY <1>0, <1>1, <1>2, TracksAge, AgedAges
<1>4. CASE ~reaped
  <2>1. /\ state' = "Quarantined" /\ restart_attempts' = aged /\ active' = active
        /\ pending_restart' = pending_restart
        /\ \E status \in {host.status, "Exited"} : host' = [host EXCEPT !.status = status]
    BY <1>1, <1>4 DEF Unreaped
  <2>2. DOMAIN host' = HostFields /\ host'.status # "None"
    BY <1>0, <2>1 DEF HostFields
  <2>3. TypeOK'
    <3>1. state' \in States /\ generation' \in 0..MaxGeneration /\ failed_spawn_cleanup' \in BOOLEAN
      BY <1>0, <1>1, <2>1 DEF States
    <3>2. Len(restart_attempts') <= maximum_restarts
      BY <1>3, <2>1
    <3>3. pending_restart' = NotPending /\ state' # "RestartBackoff"
      BY <1>0, <2>1
    <3> QED  BY <3>1, <3>2, <3>3 DEF TypeOK
  <2>4. OneOwnedProcess'
    BY <1>0, <1>1, <2>1, <2>2, <2>3 DEF OneOwnedProcess
  <2> QED  BY <1>3, <2>1, <2>2, <2>4 DEF IInv
<1>5. CASE reaped
  <2>1. /\ DOMAIN host' = HostFields /\ host'.status = "None" /\ active' = {}
        /\ failed_spawn_cleanup' = FALSE /\ generation' = generation
    BY <1>0, <1>1, <1>5 DEF NoProcess, HostFields
  <2>2. /\ Tracks(replacements', restart_attempts')
        /\ Len(restart_attempts') <= maximum_restarts
        /\ \/ state' = "Quarantined" /\ pending_restart' = NotPending
           \/ state' = "RestartBackoff" /\ pending_restart' \in 0..(maximum_backoff + maximum_jitter)
    <3>1. CASE stale
      <4>1. schedule_restart(restart_attempts, took)
        BY <1>1, <1>5, <3>1
      <4>2. Tracks(replacements, prune_restart_attempts(restart_attempts))
        BY <1>0, TracksPrune
      <4>3. Tracks(replacements', Aged(prune_restart_attempts(restart_attempts), took))
        BY <1>1, <1>2, <4>2, TracksAge
      <4> QED  BY <1>0, <1>2, <4>1, <4>3, ScheduleRestart
    <3>2. CASE ~stale
      <4>1. schedule_restart(aged, 0)
        BY <1>1, <1>5, <3>2
      <4> HIDE DEF aged
      <4>2. Tracks(replacements', prune_restart_attempts(aged))
        BY <1>3, TracksPrune
      <4>3. Aged(prune_restart_attempts(aged), 0) = prune_restart_attempts(aged)
        BY <4>2, AgedByNothing DEF Tracks
      <4> QED  BY <1>3, <4>1, <4>2, <4>3, ScheduleRestart
    <3> QED  BY <3>1, <3>2
  <2>3. TypeOK'
    <3>1. state' \in States /\ generation' \in 0..MaxGeneration /\ failed_spawn_cleanup' \in BOOLEAN
      BY <1>0, <2>1, <2>2 DEF States
    <3>2. /\ pending_restart' \in {NotPending} \cup 0..(maximum_backoff + maximum_jitter)
          /\ (pending_restart' # NotPending) <=> (state' = "RestartBackoff")
      BY <2>2, Constants DEF NotPending
    <3> QED  BY <2>2, <3>1, <3>2 DEF TypeOK
  <2>4. OneOwnedProcess'
    BY <2>1, <2>2, <2>3 DEF OneOwnedProcess
  <2> QED  BY <2>1, <2>2, <2>4 DEF IInv
<1> QED  BY <1>4, <1>5

\* A poll that finds nothing wrong keeps the process and its owner.
LEMMA ObserveStep ==
  ASSUME IInv, NEW a \in active, state \in {"Bootstrapping", "Running"}, Observe(a),
         mode' \in {"Supervising", "Quarantined"}
  PROVE  IInv'
<1>1. (\E why : Terminate(why, FALSE)) \/ \E x, out : maybe_send_probe(x, [host EXCEPT !.out = out])
  BY Zenon DEF Observe
<1>2. CASE \E why : Terminate(why, FALSE)
  BY <1>2, TerminateStep
<1>3. ASSUME NEW x, NEW out, maybe_send_probe(x, [host EXCEPT !.out = out]) PROVE IInv'
  <2> DEFINE h == [host EXCEPT !.out = out]
  <2>1. /\ DOMAIN h = HostFields /\ h.status = host.status
        /\ DOMAIN send_control_probe(x, h).host = HostFields
        /\ send_control_probe(x, h).host.status = host.status
    BY DEF IInv, HostFields, send_control_probe
  <2>2. active' # {} /\ DOMAIN host' = HostFields /\ host'.status = host.status
    BY <1>3, <2>1 DEF maybe_send_probe
  <2>3. /\ state' \in {"Bootstrapping", "Running"}
        /\ UNCHANGED <<generation, failed_spawn_cleanup, restart_attempts, pending_restart, replacements>>
    BY <1>3 DEF maybe_send_probe, history
  <2>4. TypeOK'
    BY <2>3 DEF IInv, OneOwnedProcess, TypeOK, States
  <2>5. OneOwnedProcess'
    BY <2>2, <2>3, <2>4 DEF IInv, OneOwnedProcess
  <2> QED  BY <2>2, <2>3, <2>5 DEF IInv
<1> QED  BY <1>1, <1>2, <1>3

\* poll_active, whatever the child did, preserves the invariant.
LEMMA PollActiveStep == IInv /\ PollActive => IInv'
<1> SUFFICES ASSUME IInv, PollActive PROVE IInv'
  OBVIOUS
<1>1. PICK a \in active : (host.status = "Exited" /\ Terminate("HostExited", TRUE)) \/ Observe(a)
  BY DEF PollActive
<1>2. state \in {"Bootstrapping", "Running"} /\ mode' \in {"Supervising", "Quarantined"}
  BY DEF PollActive, NextMode, IInv, OneOwnedProcess, TypeOK
<1> QED  BY <1>1, <1>2, TerminateStep, ObserveStep

\* A shutdown reaps, or keeps the owner in quarantine.
LEMMA ShutdownStep == IInv /\ Shutdown => IInv'
<1> SUFFICES ASSUME IInv, Shutdown PROVE IInv'
  OBVIOUS
<1>1. /\ pending_restart' = NotPending
      /\ UNCHANGED <<generation, restart_attempts, replacements>>
  BY DEF Shutdown, history
<1>2. CASE /\ state' = "Stopped" /\ host' = NoProcess
           /\ active' = {} /\ failed_spawn_cleanup' = FALSE /\ mode' = mode
  <2>1. host'.status = "None" /\ DOMAIN host' = HostFields
    BY <1>2 DEF NoProcess, HostFields
  <2>2. TypeOK'
    BY <1>1, <1>2 DEF IInv, OneOwnedProcess, TypeOK, States
  <2>3. OneOwnedProcess'
    BY <1>2, <2>1, <2>2 DEF OneOwnedProcess
  <2> QED  BY <1>1, <2>1, <2>3 DEF IInv
<1>3. CASE /\ ~(active = {} /\ ~failed_spawn_cleanup)
           /\ state' = "Quarantined" /\ mode' = "Quarantined" /\ Unreaped
           /\ active' = active /\ failed_spawn_cleanup' = failed_spawn_cleanup
  <2>1. host.status # "None" /\ DOMAIN host = HostFields
    BY <1>3 DEF IInv, OneOwnedProcess
  <2>2. host'.status # "None" /\ DOMAIN host' = HostFields
    BY <1>3, <2>1 DEF Unreaped, HostFields
  <2>3. TypeOK'
    BY <1>1, <1>3 DEF IInv, OneOwnedProcess, TypeOK, States
  <2>4. OneOwnedProcess'
    BY <1>3, <2>1, <2>2, <2>3 DEF IInv, OneOwnedProcess
  <2> QED  BY <1>1, <2>2, <2>4 DEF IInv
<1> QED  BY <1>2, <1>3 DEF Shutdown

\* Dropping the manager, which kills and reaps, preserves the invariant.
LEMMA DropManagerStep == IInv /\ DropManager => IInv'
<1> SUFFICES ASSUME IInv, DropManager PROVE IInv'
  OBVIOUS
<1>1. /\ state' = "Exited" /\ host' = NoProcess /\ active' = {} /\ failed_spawn_cleanup' = FALSE
      /\ pending_restart' = NotPending
      /\ UNCHANGED <<generation, restart_attempts, mode, replacements>>
  BY DEF DropManager, history
<1>2. host'.status = "None" /\ DOMAIN host' = HostFields
  BY <1>1 DEF NoProcess, HostFields
<1>3. TypeOK'
  BY <1>1 DEF IInv, OneOwnedProcess, TypeOK, States
<1>4. OneOwnedProcess'
  BY <1>1, <1>2, <1>3 DEF OneOwnedProcess
<1> QED  BY <1>1, <1>2, <1>4 DEF IInv

\* What the host does by itself leaves its owner alone.
LEMMA HostStep ==
  ASSUME IInv, UNCHANGED <<manager, mode, replacements>>,
         DOMAIN host' = HostFields, (host'.status # "None") <=> (host.status # "None")
  PROVE  IInv'
<1>1. UNCHANGED <<state, generation, active, failed_spawn_cleanup, restart_attempts, pending_restart>>
  BY DEF manager
<1>2. TypeOK'
  BY <1>1 DEF IInv, OneOwnedProcess, TypeOK
<1>3. OneOwnedProcess'
  BY <1>1, <1>2 DEF IInv, OneOwnedProcess
<1> QED  BY <1>1, <1>3 DEF IInv

\* Time passing between two polls preserves the invariant.
LEMMA TickStep == IInv /\ Tick => IInv'
<1> SUFFICES ASSUME IInv, Tick PROVE IInv'
  OBVIOUS
<1>1. /\ active' = {AgedHost(a) : a \in active}
      /\ restart_attempts' = Aged(restart_attempts, 1)
      /\ pending_restart' = IF pending_restart > 0 THEN pending_restart - 1 ELSE pending_restart
      /\ replacements' = InWindow(Aged(replacements, 1))
      /\ UNCHANGED <<state, generation, failed_spawn_cleanup, mode>>
  BY DEF Tick
<1>2. DOMAIN host' = HostFields /\ host'.status = host.status
  BY DEF Tick, IInv, HostFields
<1>3. (active' # {}) <=> (active # {})
  BY <1>1
<1>4. Tracks(replacements', restart_attempts')
  BY <1>1, TracksAge DEF IInv
<1>5. Len(restart_attempts') = Len(restart_attempts)
  BY <1>1, AgedAges DEF IInv, Tracks
<1>6. TypeOK'
  <2>1. /\ pending_restart' \in {NotPending} \cup 0..(maximum_backoff + maximum_jitter)
        /\ (pending_restart' # NotPending) <=> (pending_restart # NotPending)
    BY <1>1, Constants DEF IInv, OneOwnedProcess, TypeOK, NotPending
  <2> QED  BY <1>1, <1>5, <2>1 DEF IInv, OneOwnedProcess, TypeOK
<1>7. OneOwnedProcess'
  BY <1>1, <1>2, <1>3, <1>6 DEF IInv, OneOwnedProcess
<1> QED  BY <1>2, <1>4, <1>7 DEF IInv

-----------------------------------------------------------------------------
(***************************************************************************)
(* The invariant and the property.                                         *)
(***************************************************************************)
LEMMA InvInit == Init => IInv
<1> SUFFICES ASSUME Init PROVE IInv
  OBVIOUS
<1>1. DOMAIN host = HostFields /\ host.status = "None"
  BY DEF Init, NoProcess, HostFields
<1>2. Tracks(replacements, restart_attempts)
  BY DEF Init, Tracks
<1>3. Len(<<>>) <= maximum_restarts /\ 0 \in 0..MaxGeneration
  BY Constants
<1>4. TypeOK
  BY <1>3 DEF Init, TypeOK, States
<1> QED  BY <1>1, <1>2, <1>4 DEF Init, IInv, OneOwnedProcess

\* Every step of the manager and of the host preserves the invariant.
LEMMA InvStep == IInv /\ [Next]_vars => IInv'
<1> SUFFICES ASSUME IInv, [Next]_vars PROVE IInv'
  OBVIOUS
<1>1. CASE TryStart \/ PollBackoff \/ PollActive
  BY <1>1, TryStartStep, PollBackoffStep, PollActiveStep
<1>2. CASE Shutdown \/ DropManager \/ Tick
  BY <1>2, ShutdownStep, DropManagerStep, TickStep
<1>3. CASE PollFails
  <2>1. /\ mode' = "Quarantined"
        /\ UNCHANGED <<state, generation, active, failed_spawn_cleanup, restart_attempts,
                       pending_restart, host, replacements>>
    BY <1>3 DEF PollFails, manager, history
  <2>2. TypeOK'
    BY <2>1 DEF IInv, OneOwnedProcess, TypeOK
  <2> QED  BY <2>1, <2>2 DEF IInv, OneOwnedProcess
<1>4. CASE HostProgress \/ HostAck \/ HostHeartbeat \/ HostFails
  <2>1. UNCHANGED <<manager, mode, replacements>>
    BY <1>4 DEF HostProgress, HostAck, HostHeartbeat, HostFails, history
  <2>2. DOMAIN host' = HostFields /\ host.status = "Up" /\ host'.status # "None"
    BY <1>4 DEF HostProgress, HostAck, HostHeartbeat, HostFails, Writes, IInv, HostFields
  <2> QED  BY <2>1, <2>2, HostStep
<1>5. CASE UNCHANGED vars
  <2>1. UNCHANGED <<manager, mode, replacements>> /\ host' = host
    BY <1>5 DEF vars, history
  <2> QED  BY <2>1, HostStep DEF IInv
<1> QED  BY <1>1, <1>2, <1>3, <1>4, <1>5 DEF Next

\* In every reachable state one process is owned and the replacements of the last
\* window are the end of the restart ledger.
THEOREM Invariance == Spec => []IInv
BY InvInit, InvStep, PTL DEF Spec

\* One owned process at a time, and no more replacements in a window than
\* HostRestartPolicy allows, for every policy and every duration of a termination,
\* a backoff or a spawn.
THEOREM BoundedSupervision == Spec => []SupervisionIsBounded
<1>1. IInv => SupervisionIsBounded
  <2> SUFFICES ASSUME IInv PROVE SupervisionIsBounded
    OBVIOUS
  <2>1. /\ Len(replacements) <= Len(restart_attempts) /\ Len(restart_attempts) <= maximum_restarts
        /\ Len(replacements) \in Nat /\ Len(restart_attempts) \in Nat
    BY LenProperties DEF IInv, OneOwnedProcess, TypeOK, Tracks
  <2>2. Len(replacements) <= maximum_restarts
    BY <2>1, Constants
  <2> QED  BY <2>2 DEF SupervisionIsBounded, RestartBudgetHolds, IInv
<1> QED  BY <1>1, Invariance, PTL

=============================================================================
