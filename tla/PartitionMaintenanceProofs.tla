--------------------- MODULE PartitionMaintenanceProofs ---------------------
(***************************************************************************)
(* Proofs about PartitionMaintenance, for any number of workers, sizes of  *)
(* the day, window, retention, batch and lag: retention takes nothing that *)
(* is still inside the window, and a recent point finds its partition.     *)
(*                                                                         *)
(* Both rest on the cutoff of a pass being in the past when it is used:    *)
(* however long a pass takes, its cutoff never exceeds the one a pass      *)
(* begun now would have (CutoffInv).  RecentStorable moreover needs what   *)
(* each worker's last ensure is still worth (EnsuredInv): at most          *)
(* MaxLagDays old, and no pass of any worker has dropped a day of it that  *)
(* the retention window still covers.                                      *)
(***************************************************************************)
EXTENDS PartitionMaintenance, TLAPS

-----------------------------------------------------------------------------
(* The inductive invariant.                                                *)

Booted(w) == pc[w] # "boot"

\* The cutoff of a pass under way is at least RetentionDays old.
CutoffInv == \A w \in Workers : pc[w] = "retain" => cutoff[w] <= Cutoff

\* What the last ensure of a worker guarantees now.
EnsuredInv ==
    \A w \in Workers : Booted(w) =>
        /\ ensured[w] <= Day(now) /\ Day(now) <= ensured[w] + MaxLagDays
        /\ (Day(now) - RetentionDays)..(ensured[w] + FutureDays) \subseteq partitions

Inv ==
    /\ TypeOK
    /\ CutoffInv
    /\ EnsuredInv

-----------------------------------------------------------------------------
(* Days.                                                                   *)

\* Division by a positive number.
LEMMA Division ==
    ASSUME NEW a \in Int, NEW s \in Nat \ {0}
    PROVE  /\ a \div s \in Int
           /\ s * (a \div s) <= a
           /\ a < s * (a \div s) + s
OBVIOUS

\* A product grows with its factor.
LEMMA ProductMonotone ==
    ASSUME NEW s \in Nat \ {0}, NEW a \in Int, NEW b \in Int, a + 1 <= b
    PROVE  s * a + s <= s * b
OBVIOUS

\* The day a number of slots belongs to.
LEMMA DayBounds ==
    ASSUME NEW t \in Int
    PROVE  /\ Day(t) \in Int
           /\ SlotsPerDay * Day(t) <= t
           /\ t < SlotsPerDay * Day(t) + SlotsPerDay
BY PartitionAssumption, Division DEF Day, PartitionAssumption

\* Days are in the order of the time.
LEMMA DayMonotone ==
    ASSUME NEW t \in Int, NEW u \in Int, t <= u
    PROVE  Day(t) <= Day(u)
<1> USE PartitionAssumption DEF PartitionAssumption
<1>1. SUFFICES ASSUME Day(u) + 1 <= Day(t)
               PROVE  FALSE
  BY DayBounds
<1>2. PICK p \in Int, q \in Int : p = SlotsPerDay * Day(t) /\ q = SlotsPerDay * Day(u)
  BY DayBounds
<1>3. q + SlotsPerDay <= p
  BY <1>1, <1>2, DayBounds, ProductMonotone
<1>4. p <= t /\ u < q + SlotsPerDay
  BY <1>2, DayBounds
<1>5. QED
  BY <1>3, <1>4

\* Going back a number of days.
LEMMA DayShift ==
    ASSUME NEW t \in Int, NEW k \in Nat
    PROVE  t - k * SlotsPerDay \in Int /\ Day(t - k * SlotsPerDay) = Day(t) - k
<1> USE PartitionAssumption DEF PartitionAssumption
<1> DEFINE u == t - k * SlotsPerDay
<1>1. u \in Int
  OBVIOUS
<1>2. PICK a \in Int, b \in Int : a = Day(t) - k /\ b = Day(u)
  BY <1>1, DayBounds
<1>3. SlotsPerDay * a = SlotsPerDay * Day(t) - k * SlotsPerDay
  BY <1>2, DayBounds
<1>4. SlotsPerDay * a <= u /\ u < SlotsPerDay * a + SlotsPerDay
  BY <1>3, DayBounds
<1>5. SlotsPerDay * b <= u /\ u < SlotsPerDay * b + SlotsPerDay
  BY <1>1, <1>2, DayBounds
<1>6. PICK p \in Int, q \in Int : p = SlotsPerDay * a /\ q = SlotsPerDay * b
  OBVIOUS
<1>7. ~(a + 1 <= b)
  BY <1>1, <1>4, <1>5, <1>6, ProductMonotone
<1>8. ~(b + 1 <= a)
  BY <1>1, <1>4, <1>5, <1>6, ProductMonotone
<1>9. QED
  BY <1>1, <1>2, <1>7, <1>8

\* The retention limit, as a time and as a day.
LEMMA CutoffDay ==
    ASSUME TypeOK
    PROVE  now \in Int /\ Cutoff \in Int /\ Day(now) \in Int /\ Day(Cutoff) = Day(now) - RetentionDays
<1>1. now \in Int
  BY PartitionAssumption DEF TypeOK, PartitionAssumption
<1>2. QED
  BY <1>1, PartitionAssumption, DayBounds, DayShift DEF Cutoff, PartitionAssumption

\* A pass drops only days before the retention window.
LEMMA DropsOldDays ==
    ASSUME Inv, NEW w \in Workers, pc[w] = "retain"
    PROVE  /\ cutoff[w] \in Int /\ cutoff[w] <= Cutoff
           /\ \A d \in DroppedDays(cutoff[w]) : d \in Int /\ d < Day(now) - RetentionDays
<1>1. cutoff[w] \in Int /\ cutoff[w] <= Cutoff
  BY DEF Inv, TypeOK, CutoffInv
<1>2. Day(cutoff[w]) \in Int /\ Day(cutoff[w]) <= Day(Cutoff)
  BY <1>1, CutoffDay, DayBounds, DayMonotone DEF Inv
<1>3. Day(now) \in Int /\ Day(Cutoff) = Day(now) - RetentionDays
  BY CutoffDay DEF Inv
<1>4. \A d \in DroppedDays(cutoff[w]) : d \in Int /\ d < Day(cutoff[w])
  BY DEF DroppedDays, Inv, TypeOK
<1>5. QED
  BY <1>1, <1>2, <1>3, <1>4, PartitionAssumption DEF PartitionAssumption

\* A pass takes only rows before the retention window.
LEMMA DeletesExpired ==
    ASSUME Inv, NEW w \in Workers, RetainBatch(w), NEW t \in rows, t \notin rows'
    PROVE  Expired(t)
<1>1. pc[w] = "retain"
  BY DEF RetainBatch
<1>2. t \in Int /\ cutoff[w] \in Int /\ cutoff[w] <= Cutoff /\ Cutoff \in Int
  BY <1>1, DropsOldDays, CutoffDay, PartitionAssumption DEF Inv, TypeOK, PartitionAssumption
<1>3. \/ Day(t) \in DroppedDays(cutoff[w])
      \/ t < cutoff[w]
  BY DEF RetainBatch, DeletedRows
<1>4. t < cutoff[w]
  <2>1. SUFFICES ASSUME Day(t) < Day(cutoff[w])
                 PROVE  t < cutoff[w]
    BY <1>3 DEF DroppedDays
  <2>2. SUFFICES ASSUME cutoff[w] <= t
                 PROVE  FALSE
    BY <1>2
  <2>3. Day(cutoff[w]) <= Day(t)
    BY <1>2, <2>2, DayMonotone
  <2>4. Day(t) \in Int /\ Day(cutoff[w]) \in Int
    BY <1>2, DayBounds
  <2>5. QED
    BY <2>1, <2>3, <2>4
<1>5. QED
  BY <1>2, <1>4 DEF Expired, Cutoff

-----------------------------------------------------------------------------
(* Every step keeps the invariant.                                         *)

\* Types and cutoffs.
LEMMA TypeStep ==
    ASSUME Inv, [Next]_vars
    PROVE  TypeOK' /\ CutoffInv'
<1> USE PartitionAssumption DEF PartitionAssumption
<1>0. TypeOK /\ CutoffInv /\ now \in Int /\ Day(now) \in Int /\ Cutoff \in Int
  BY CutoffDay DEF Inv
<1>1. Window(Day(now)) \subseteq Int
  BY <1>0 DEF Window
<1>2. ASSUME NEW w \in Workers, Boot(w)
      PROVE  TypeOK' /\ CutoffInv'
  BY <1>0, <1>1, <1>2 DEF Boot, EnsureWindow, TypeOK, CutoffInv, Cutoff
<1>3. ASSUME NEW w \in Workers, EnsurePartitions(w)
      PROVE  TypeOK' /\ CutoffInv'
  BY <1>0, <1>1, <1>3 DEF EnsurePartitions, EnsureWindow, TypeOK, CutoffInv, Cutoff
<1>4. ASSUME NEW w \in Workers, FixCutoff(w)
      PROVE  TypeOK' /\ CutoffInv'
  <2>1. Cutoff <= now
    <3>1. RetentionDays * SlotsPerDay \in Nat
      OBVIOUS
    <3>2. QED
      BY <1>0, <3>1 DEF Cutoff
  <2>2. TypeOK'
    BY <1>0, <1>4, <2>1 DEF FixCutoff, TypeOK
  <2>3. Cutoff' = Cutoff
    BY <1>4 DEF FixCutoff, Cutoff
  <2>4. CutoffInv'
    BY <1>0, <1>4, <2>3 DEF FixCutoff, TypeOK, CutoffInv
  <2>5. QED
    BY <2>2, <2>4
<1>5. ASSUME NEW w \in Workers, RetainBatch(w)
      PROVE  TypeOK' /\ CutoffInv'
  <2>1. /\ rows' \subseteq rows /\ partitions' \subseteq partitions
        /\ UNCHANGED <<now, flushed, ensured, cutoff>>
        /\ pc' = [pc EXCEPT ![w] = "wait"] \/ pc' = pc
    BY <1>0, <1>5 DEF RetainBatch, TypeOK
  <2>2. QED
    BY <1>0, <2>1 DEF TypeOK, CutoffInv, Cutoff
<1>6. ASSUME NEW w \in Workers, TickerFires(w)
      PROVE  TypeOK' /\ CutoffInv'
  BY <1>0, <1>6 DEF TickerFires, TypeOK, CutoffInv, Cutoff
<1>7. ASSUME NEW t \in Timestamps, Flush(t)
      PROVE  TypeOK' /\ CutoffInv'
  <2>1. Day(t) \in Int
    BY DayBounds
  <2>2. partitions' \subseteq Int
    BY <1>0, <1>7, <2>1 DEF Flush, PartitionsForFlush, TypeOK
  <2>3. QED
    BY <1>0, <1>7, <2>2 DEF Flush, TypeOK, CutoffInv, Cutoff
<1>8. ASSUME TimePasses
      PROVE  TypeOK' /\ CutoffInv'
  <2>1. now' = now + 1 /\ now' \in Start..End /\ UNCHANGED <<partitions, rows, flushed, pc, ensured, cutoff>>
    BY <1>0, <1>8 DEF TimePasses, TypeOK
  <2>2. TypeOK'
    BY <1>0, <2>1 DEF TypeOK
  <2>3. Cutoff' = Cutoff + 1
    BY <1>0, <2>1 DEF Cutoff
  <2>4. CutoffInv'
    BY <1>0, <2>1, <2>3 DEF TypeOK, CutoffInv
  <2>5. QED
    BY <2>2, <2>4
<1>9. ASSUME UNCHANGED vars
      PROVE  TypeOK' /\ CutoffInv'
  BY <1>0, <1>9 DEF vars, TypeOK, CutoffInv, Cutoff
<1>10. QED
  BY <1>2, <1>3, <1>4, <1>5, <1>6, <1>7, <1>8, <1>9 DEF Next, WorkerStep

\* What each worker's last ensure guarantees.
LEMMA EnsuredStep ==
    ASSUME Inv, [Next]_vars
    PROVE  EnsuredInv'
<1> USE PartitionAssumption DEF PartitionAssumption
<1>0. TypeOK /\ EnsuredInv /\ now \in Int /\ Day(now) \in Int
  BY CutoffDay DEF Inv
<1>1. ASSUME NEW w \in Workers, Boot(w) \/ EnsurePartitions(w)
      PROVE  EnsuredInv'
  <2>1. /\ now' = now /\ partitions' = partitions \cup Window(Day(now))
        /\ ensured' = [ensured EXCEPT ![w] = Day(now)]
        /\ \A v \in Workers \ {w} : pc'[v] = pc[v]
    BY <1>0, <1>1 DEF Boot, EnsurePartitions, EnsureWindow, TypeOK
  <2>2. Day(now)' = Day(now)
    BY <2>1 DEF Day
  <2>3. (Day(now) - RetentionDays)..(Day(now) + FutureDays) \subseteq Window(Day(now))
    BY <1>0 DEF Window
  <2>4. ensured'[w] = Day(now) /\ \A v \in Workers \ {w} : ensured'[v] = ensured[v]
    BY <1>0, <2>1 DEF TypeOK
  <2>5. QED
    BY <1>0, <2>1, <2>2, <2>3, <2>4 DEF EnsuredInv, Booted
<1>2. ASSUME NEW w \in Workers, RetainBatch(w)
      PROVE  EnsuredInv'
  <2>1. /\ UNCHANGED <<now, ensured>> /\ partitions' = partitions \ DroppedDays(cutoff[w]) /\ pc[w] = "retain"
        /\ \A v \in Workers : pc'[v] # "boot" => pc[v] # "boot"
    BY <1>0, <1>2 DEF RetainBatch, TypeOK
  <2>2. Day(now)' = Day(now)
    BY <2>1 DEF Day
  <2>3. \A d \in DroppedDays(cutoff[w]) : d \in Int /\ d < Day(now) - RetentionDays
    BY <2>1, DropsOldDays
  <2>4. ASSUME NEW v \in Workers, Booted(v)
        PROVE  (Day(now) - RetentionDays)..(ensured[v] + FutureDays) \subseteq partitions'
    BY <1>0, <2>1, <2>3, <2>4 DEF EnsuredInv
  <2>5. QED
    BY <1>0, <2>1, <2>2, <2>4 DEF EnsuredInv, Booted
<1>3. ASSUME NEW w \in Workers, FixCutoff(w) \/ TickerFires(w)
      PROVE  EnsuredInv'
  <2>1. UNCHANGED <<now, ensured, partitions>> /\ \A v \in Workers : pc'[v] # "boot" => pc[v] # "boot"
    BY <1>0, <1>3 DEF FixCutoff, TickerFires, TypeOK
  <2>2. QED
    BY <1>0, <2>1 DEF EnsuredInv, Booted, Day
<1>4. ASSUME NEW t \in Timestamps, Flush(t)
      PROVE  EnsuredInv'
  <2>1. UNCHANGED <<now, ensured, pc>> /\ partitions \subseteq partitions'
    BY <1>4 DEF Flush, PartitionsForFlush
  <2>2. QED
    BY <1>0, <2>1 DEF EnsuredInv, Booted, Day
<1>5. ASSUME TimePasses
      PROVE  EnsuredInv'
  <2>1. /\ UNCHANGED <<partitions, pc, ensured>> /\ now' = now + 1
        /\ \A w \in Workers : pc[w] # "boot" => Day(now + 1) <= ensured[w] + MaxLagDays
    BY <1>5 DEF TimePasses
  <2>2. Day(now)' = Day(now + 1)
    BY <2>1 DEF Day
  <2>3. Day(now + 1) \in Int /\ Day(now) <= Day(now + 1)
    BY <1>0, DayBounds, DayMonotone
  <2>4. ASSUME NEW w \in Workers, Booted(w)
        PROVE  /\ ensured[w] <= Day(now + 1) /\ Day(now + 1) <= ensured[w] + MaxLagDays
               /\ (Day(now + 1) - RetentionDays)..(ensured[w] + FutureDays) \subseteq partitions
    <3>1. /\ ensured[w] \in Int /\ ensured[w] <= Day(now)
          /\ (Day(now) - RetentionDays)..(ensured[w] + FutureDays) \subseteq partitions
      BY <1>0, <2>4 DEF EnsuredInv, TypeOK
    <3>2. QED
      BY <1>0, <2>1, <2>3, <2>4, <3>1 DEF Booted
  <2>5. QED
    BY <2>1, <2>2, <2>4 DEF EnsuredInv, Booted
<1>6. ASSUME UNCHANGED vars
      PROVE  EnsuredInv'
  BY <1>0, <1>6 DEF vars, EnsuredInv, Booted, Day
<1>7. QED
  BY <1>1, <1>2, <1>3, <1>4, <1>5, <1>6 DEF Next, WorkerStep

-----------------------------------------------------------------------------
(* The theorems.                                                           *)

\* Inv holds in every state.
LEMMA InvInvariant == Spec => []Inv
<1>1. ASSUME Init
      PROVE  Inv
  <2> USE <1>1, PartitionAssumption DEF PartitionAssumption
  <2>1. Day(Start) \in Int
    BY DayBounds
  <2>2. TypeOK
    BY <2>1 DEF Init, TypeOK
  <2>3. CutoffInv /\ EnsuredInv
    BY DEF Init, CutoffInv, EnsuredInv, Booted
  <2>4. QED
    BY <2>2, <2>3 DEF Inv
<1>2. ASSUME Inv, [Next]_vars
      PROVE  Inv'
  BY <1>2, TypeStep, EnsuredStep DEF Inv
<1>3. QED
  BY <1>1, <1>2, PTL DEF Spec

\* The maintenance state is well-formed.
THEOREM TypeCorrect == Spec => []TypeOK
BY InvInvariant, PTL DEF Inv

\* A point inside the retention window, or of one of the days ahead that a
\* lagging maintenance has prepared, finds its partition.
THEOREM RecentStorableAlways == Spec => []RecentStorable
<1>1. ASSUME Inv
      PROVE  RecentStorable
  <2>1. SUFFICES ASSUME NEW w \in Workers, pc[w] # "boot",
                        NEW d \in (Day(now) - RetentionDays)..(Day(now) + FutureDays - MaxLagDays)
                 PROVE  d \in partitions
    BY DEF RecentStorable
  <2>2. Day(now) \in Int /\ ensured[w] \in Int
    BY <1>1, CutoffDay DEF Inv, TypeOK
  <2>3. /\ Day(now) <= ensured[w] + MaxLagDays
        /\ (Day(now) - RetentionDays)..(ensured[w] + FutureDays) \subseteq partitions
    BY <1>1, <2>1 DEF Inv, EnsuredInv, Booted
  <2>4. d \in (Day(now) - RetentionDays)..(ensured[w] + FutureDays)
    BY <2>1, <2>2, <2>3, PartitionAssumption DEF PartitionAssumption
  <2>5. QED
    BY <2>3, <2>4
<1>2. QED
  BY <1>1, InvInvariant, PTL

\* Retention takes no row that is still inside the retention window.
THEOREM RetainedIsKeptAlways == Spec => RetainedIsKept
<1>1. ASSUME Inv, [Next]_vars
      PROVE  [\A t \in rows : t \notin rows' => Expired(t)]_vars
  <2>1. SUFFICES ASSUME NEW t \in rows, t \notin rows'
                 PROVE  Expired(t)
    OBVIOUS
  <2>2. \E w \in Workers : RetainBatch(w)
    BY <1>1, <2>1 DEF Next, WorkerStep, vars, Boot, EnsurePartitions, FixCutoff, TickerFires, Flush, TimePasses
  <2>3. QED
    BY <1>1, <2>1, <2>2, DeletesExpired
<1>2. QED
  BY <1>1, InvInvariant, PTL DEF Spec, RetainedIsKept
=============================================================================
