---------------------------- MODULE PortPoolProofs ----------------------------
(***************************************************************************)
(* The port blocks of MediaSockets, proved for any number of blocks, any   *)
(* quarantine and any allowance: none is lost or given twice on any path,  *)
(* and none is given to a session while datagrams of an earlier one can    *)
(* still arrive.  The two hold each other up: a block leaves quarantine    *)
(* only once, and only behind all that entered before it.                  *)
(***************************************************************************)
EXTENDS MediaSockets, FiniteSetTheorems, SequenceTheorems, TLAPS

Entry == [block : Blocks, left : 0..ReuseDelay]

(* f are free, r in quarantine, s held by sessions; datagrams for the last *)
(* holder of b arrive for e[b] more ticks.                                 *)
Typed(f, r, e, s) ==
    /\ f \in Seq(Blocks) /\ r \in Seq(Entry)
    /\ e \in [Blocks -> 0..ReuseDelay] /\ s \subseteq Blocks

Apart(f, r, s) ==
    /\ \A i, j \in 1..Len(f) : f[i] = f[j] => i = j
    /\ \A i, j \in 1..Len(r) : r[i].block = r[j].block => i = j
    /\ \A i \in 1..Len(f), j \in 1..Len(r) : f[i] # r[j].block
    /\ \A i \in 1..Len(f) : f[i] \notin s
    /\ \A j \in 1..Len(r) : r[j].block \notin s

Complete(f, r, s) ==
    \A b \in Blocks : \/ \E i \in 1..Len(f) : f[i] = b
                      \/ \E j \in 1..Len(r) : r[j].block = b
                      \/ b \in s

Silent(f, r, e, s) ==
    /\ \A i \in 1..Len(f) : e[f[i]] = 0
    /\ \A j \in 1..Len(r) : e[r[j].block] <= r[j].left
    /\ \A b \in s : e[b] = 0

PoolOK(f, r, e, s) ==
    Typed(f, r, e, s) /\ Apart(f, r, s) /\ Complete(f, r, s) /\ Silent(f, r, e, s)

PoolInv == PoolOK(free, retired, echo, Open) /\ DOMAIN session = Blocks

-----------------------------------------------------------------------------
(* reclaim takes a prefix of the quarantine whose time is up.              *)
LEMMA DuePrefix ==
    ASSUME retired \in Seq(Entry)
    PROVE  DueCount \in 0..Len(retired) /\ \A i \in 1..DueCount : retired[i].left = 0
<1>. DEFINE D == {i \in DOMAIN retired : \A j \in 1..i : retired[j].left = 0}
<1>1. DOMAIN retired = 1..Len(retired) /\ Len(retired) \in Nat
  BY LenProperties
<1>2. IsFiniteSet(1..Len(retired)) /\ Cardinality(1..Len(retired)) = Len(retired)
  <2>. DEFINE m == Len(retired)
  <2>1. m \in Nat /\ m \in Int /\ 1 \in Int /\ (IF 1 > m THEN 0 ELSE m - 1 + 1) = m
    BY <1>1
  <2>. HIDE DEF m
  <2>2. IsFiniteSet(1..m) /\ Cardinality(1..m) = IF 1 > m THEN 0 ELSE m - 1 + 1
    BY <2>1, FS_Interval
  <2>. QED
    BY <2>1, <2>2 DEF m
<1>3. IsFiniteSet(D) /\ Cardinality(D) <= Len(retired) /\ Cardinality(D) \in Nat
  BY <1>1, <1>2, FS_Subset, FS_CardinalityType
<1>4. \A i \in 1..Cardinality(D) : i \in D
  <2>1. SUFFICES ASSUME NEW i \in 1..Cardinality(D), i \notin D PROVE FALSE
    OBVIOUS
  <2>2. \A k \in D : k < i
    BY <1>1, <1>3, <2>1
  <2>3. D \in SUBSET (1..(i - 1))
    BY <1>1, <2>1, <2>2
  <2>4. i - 1 \in Int /\ i \in Int /\ i >= 1 /\ 1 \in Int
    BY <1>3, <2>1
  <2>5. IsFiniteSet(1..(i - 1)) /\ Cardinality(1..(i - 1)) = i - 1
    <3>. HIDE DEF D
    <3>. DEFINE k == i - 1
    <3>1. k \in Int /\ (1 > k => k = 0) /\ k - 1 + 1 = k
      BY <2>4
    <3>. HIDE DEF k
    <3>2. IsFiniteSet(1..k) /\ Cardinality(1..k) = k
      BY <3>1, FS_Interval
    <3>. QED
      BY <3>2 DEF k
  <2>6. Cardinality(D) <= i - 1
    BY <2>3, <2>5, FS_Subset
  <2>. QED
    BY <1>3, <2>1, <2>4, <2>6
<1>5. DueCount = Cardinality(D)
  BY DEF DueCount
<1>6. \A i \in 1..Cardinality(D) : retired[i].left = 0
  BY <1>3, <1>4
<1>. QED
  BY <1>1, <1>3, <1>5, <1>6

(* Reclaiming moves the first blocks of the quarantine behind the free     *)
(* ones.                                                                   *)
LEMMA ReclaimedIs ==
    ASSUME PoolInv
    PROVE  /\ DueCount \in 0..Len(retired)
           /\ \A i \in 1..DueCount : retired[i].left = 0
           /\ Len(free) \in Nat /\ Len(retired) \in Nat
           /\ Reclaimed \in Seq(Blocks) /\ Len(Reclaimed) = Len(free) + DueCount
           /\ \A i \in 1..Len(Reclaimed) :
                 Reclaimed[i] = IF i <= Len(free) THEN free[i] ELSE retired[i - Len(free)].block
           /\ Quarantined \in Seq(Entry) /\ Len(Quarantined) = Len(retired) - DueCount
           /\ \A i \in 1..Len(Quarantined) : Quarantined[i] = retired[i + DueCount]
<1>. DEFINE due == [i \in 1..DueCount |-> retired[i].block]
<1>0. free \in Seq(Blocks) /\ retired \in Seq(Entry)
  BY DEF PoolInv, PoolOK, Typed
<1>1. Len(free) \in Nat /\ Len(retired) \in Nat
  BY <1>0, LenProperties
<1>2. DueCount \in 0..Len(retired) /\ \A i \in 1..DueCount : retired[i].left = 0
  BY <1>0, DuePrefix
<1>3. \A i \in 1..Len(retired) : retired[i] \in Entry
  BY <1>0, ElementOfSeq
<1>4. DueCount \in Nat /\ \A i \in 1..DueCount : retired[i].block \in Blocks
  BY <1>1, <1>2, <1>3 DEF Entry
<1>5. /\ due \in Seq(Blocks) /\ Len(due) = DueCount
      /\ \A k \in 1..DueCount : due[k] = retired[k].block
  BY <1>4
<1>6. Reclaimed = free \o due
  BY DEF Reclaimed
<1>. HIDE DEF due
<1>7. /\ Reclaimed \in Seq(Blocks) /\ Len(Reclaimed) = Len(free) + DueCount
      /\ \A i \in 1..Len(Reclaimed) :
            Reclaimed[i] = IF i <= Len(free) THEN free[i] ELSE retired[i - Len(free)].block
  <2>1. /\ free \o due \in Seq(Blocks) /\ Len(free \o due) = Len(free) + DueCount
        /\ \A i \in 1..(Len(free) + DueCount) :
              (free \o due)[i] = IF i <= Len(free) THEN free[i] ELSE due[i - Len(free)]
    BY <1>0, <1>5, ConcatProperties
  <2>2. \A i \in 1..(Len(free) + DueCount) : i > Len(free) => i - Len(free) \in 1..DueCount
    BY <1>1, <1>4
  <2>. QED
    BY <1>5, <1>6, <2>1, <2>2
<1>8. \A i \in (DueCount + 1)..Len(retired) : retired[i] \in Entry
  BY <1>3, <1>4
<1>9. /\ Quarantined \in Seq(Entry)
      /\ Len(Quarantined) = IF DueCount + 1 <= Len(retired) THEN Len(retired) - (DueCount + 1) + 1 ELSE 0
      /\ \A i \in 1..(Len(retired) - (DueCount + 1) + 1) : Quarantined[i] = retired[DueCount + 1 + i - 1]
  BY <1>1, <1>4, <1>8, SubSeqProperties DEF Quarantined
<1>10. Len(Quarantined) = Len(retired) - DueCount
  BY <1>1, <1>2, <1>4, <1>9
<1>11. \A i \in 1..Len(Quarantined) : Quarantined[i] = retired[i + DueCount]
  BY <1>1, <1>4, <1>9, <1>10
<1>. QED
  BY <1>1, <1>2, <1>7, <1>9, <1>10, <1>11

(* Reclaiming loses nothing: the blocks it frees are silent.               *)
LEMMA ReclaimOK ==
    ASSUME PoolInv
    PROVE  PoolOK(Reclaimed, Quarantined, echo, Open)
<1>. DEFINE d == DueCount
            n == Len(free)
            m == Len(retired)
<1>1. /\ d \in 0..m /\ n \in Nat /\ m \in Nat /\ \A i \in 1..d : retired[i].left = 0
      /\ Reclaimed \in Seq(Blocks) /\ Len(Reclaimed) = n + d
      /\ \A i \in 1..(n + d) : Reclaimed[i] = IF i <= n THEN free[i] ELSE retired[i - n].block
      /\ Quarantined \in Seq(Entry) /\ Len(Quarantined) = m - d
      /\ \A i \in 1..(m - d) : Quarantined[i] = retired[i + d]
  BY ReclaimedIs
<1>2. PoolOK(free, retired, echo, Open) /\ retired \in Seq(Entry) /\ echo \in [Blocks -> 0..ReuseDelay]
  BY DEF PoolInv, PoolOK, Typed
<1>3. \A i \in 1..m : retired[i].block \in Blocks
  <2>1. \A i \in 1..Len(retired) : retired[i] \in Entry
    BY <1>2, ElementOfSeq
  <2>. QED
    BY <2>1 DEF Entry
<1>. HIDE DEF d, n, m
<1>4. \A i \in 1..(n + d) : i > n => i - n \in 1..d /\ i - n \in 1..m
  BY <1>1
<1>5. \A i \in 1..(m - d) : i + d \in 1..m /\ i + d > d
  BY <1>1
<1>6. \A i \in 1..(n + d) : i <= n => i \in 1..n
  BY <1>1
<1>7. /\ \A i, j \in 1..n : free[i] = free[j] => i = j
      /\ \A i, j \in 1..m : retired[i].block = retired[j].block => i = j
      /\ \A i \in 1..n, j \in 1..m : free[i] # retired[j].block
      /\ \A i \in 1..n : free[i] \notin Open
      /\ \A j \in 1..m : retired[j].block \notin Open
  BY <1>2 DEF PoolOK, Apart, n, m
<1>11. /\ \A i \in 1..(n + d) : i <= n => Reclaimed[i] = free[i] /\ i \in 1..n
       /\ \A i \in 1..(n + d) : ~(i <= n) =>
             Reclaimed[i] = retired[i - n].block /\ i - n \in 1..m /\ i - n <= d
       /\ \A i \in 1..(m - d) :
             Quarantined[i].block = retired[i + d].block /\ i + d \in 1..m /\ ~(i + d <= d)
       /\ \A i, j \in 1..(n + d) : i - n = j - n => i = j
       /\ \A i, j \in 1..(m - d) : i + d = j + d => i = j
  BY <1>1, <1>4, <1>5, <1>6
<1>8. Apart(Reclaimed, Quarantined, Open)
  <2>1. ASSUME NEW i \in 1..(n + d), NEW j \in 1..(n + d), Reclaimed[i] = Reclaimed[j] PROVE i = j
    BY <1>7, <1>11, <2>1
  <2>2. ASSUME NEW i \in 1..(m - d), NEW j \in 1..(m - d), Quarantined[i].block = Quarantined[j].block
        PROVE  i = j
    BY <1>7, <1>11, <2>2
  <2>3. ASSUME NEW i \in 1..(n + d), NEW j \in 1..(m - d) PROVE Reclaimed[i] # Quarantined[j].block
    BY <1>7, <1>11
  <2>4. ASSUME NEW i \in 1..(n + d) PROVE Reclaimed[i] \notin Open
    BY <1>7, <1>11
  <2>5. ASSUME NEW j \in 1..(m - d) PROVE Quarantined[j].block \notin Open
    BY <1>7, <1>11
  <2>. QED
    BY <1>1, <2>1, <2>2, <2>3, <2>4, <2>5 DEF Apart
<1>9. Complete(Reclaimed, Quarantined, Open)
  <2>1. SUFFICES ASSUME NEW b \in Blocks
                 PROVE  \/ \E i \in 1..(n + d) : Reclaimed[i] = b
                        \/ \E j \in 1..(m - d) : Quarantined[j].block = b
                        \/ b \in Open
    BY <1>1 DEF Complete
  <2>2. ASSUME NEW i \in 1..n, free[i] = b PROVE \E k \in 1..(n + d) : Reclaimed[k] = b
    <3>1. i \in 1..(n + d) /\ i <= n
      BY <1>1, <2>2
    <3>2. Reclaimed[i] = b
      BY <1>1, <2>2, <3>1
    <3>. QED
      BY <3>1, <3>2
  <2>3. ASSUME NEW j \in 1..m, retired[j].block = b PROVE
               \/ \E i \in 1..(n + d) : Reclaimed[i] = b
               \/ \E i \in 1..(m - d) : Quarantined[i].block = b
    <3>1. CASE j <= d
      <4>1. j + n \in 1..(n + d) /\ j + n > n /\ (j + n) - n = j
        BY <1>1, <2>3, <3>1
      <4>2. Reclaimed[j + n] = b
        BY <1>1, <2>3, <4>1
      <4>. QED
        BY <4>1, <4>2
    <3>2. CASE j > d
      <4>1. j - d \in 1..(m - d) /\ (j - d) + d = j
        BY <1>1, <2>3, <3>2
      <4>2. Quarantined[j - d].block = b
        BY <1>1, <2>3, <4>1
      <4>. QED
        BY <4>1, <4>2
    <3>. QED
      BY <1>1, <2>3, <3>1, <3>2
  <2>. QED
    BY <1>2, <2>2, <2>3 DEF PoolOK, Complete, n, m
<1>10. Silent(Reclaimed, Quarantined, echo, Open)
  <2>1. /\ \A i \in 1..n : echo[free[i]] = 0
        /\ \A j \in 1..m : echo[retired[j].block] <= retired[j].left
        /\ \A b \in Open : echo[b] = 0
    BY <1>2 DEF PoolOK, Silent, n, m
  <2>2. ASSUME NEW i \in 1..(n + d) PROVE echo[Reclaimed[i]] = 0
    <3>1. CASE i <= n
      BY <1>1, <1>6, <2>1, <3>1
    <3>2. CASE i > n
      <4>1. i - n \in 1..d /\ i - n \in 1..m /\ Reclaimed[i] = retired[i - n].block
        BY <1>1, <1>4, <3>2
      <4>2. echo[retired[i - n].block] \in 0..ReuseDelay
        BY <1>2, <1>3, <4>1
      <4>3. echo[retired[i - n].block] <= 0
        BY <1>1, <2>1, <4>1
      <4>. QED
        BY <4>1, <4>2, <4>3, SocketsAssumption
    <3>. QED
      BY <1>1, <3>1, <3>2
  <2>3. ASSUME NEW j \in 1..(m - d) PROVE echo[Quarantined[j].block] <= Quarantined[j].left
    BY <1>1, <1>5, <2>1
  <2>. QED
    BY <1>1, <2>1, <2>2, <2>3 DEF Silent
<1>. QED
  BY <1>1, <1>2, <1>8, <1>9, <1>10 DEF PoolOK, Typed

(* The first k free blocks are found in use and go to the end of the       *)
(* quarantine; the next one, if d = 1, goes to a session.                  *)
LEMMA TakeOK ==
    ASSUME NEW f, NEW r, NEW e, NEW s, PoolOK(f, r, e, s),
           NEW k \in Nat, NEW d \in {0, 1}, k + d <= Len(f)
    PROVE  PoolOK(SubSeq(f, k + d + 1, Len(f)), r \o Retire(SubSeq(f, 1, k)), e,
                  s \cup {f[i] : i \in (k + 1)..(k + d)})
<1>. DEFINE n == Len(f)
            m == Len(r)
            f2 == SubSeq(f, k + d + 1, n)
            bs == SubSeq(f, 1, k)
            r2 == r \o Retire(bs)
            s2 == s \cup {f[i] : i \in (k + 1)..(k + d)}
<1>1. f \in Seq(Blocks) /\ r \in Seq(Entry) /\ e \in [Blocks -> 0..ReuseDelay] /\ s \subseteq Blocks
  BY DEF PoolOK, Typed
<1>2. n \in Nat /\ m \in Nat /\ k + d <= n /\ k <= n /\ k + d \in Nat
  BY <1>1, LenProperties
<1>3. (\A i \in 1..n : f[i] \in Blocks) /\ (\A i \in 1..m : r[i] \in Entry)
  BY <1>1, ElementOfSeq
<1>. HIDE DEF n, m
<1>4. f2 \in Seq(Blocks) /\ Len(f2) = n - k - d /\ \A i \in 1..(n - k - d) : f2[i] = f[i + k + d]
  <2>. DEFINE first == k + d + 1
  <2>1. /\ first \in Int /\ n \in Int /\ \A i \in first..n : i \in 1..n
        /\ n - first + 1 = n - k - d /\ (first > n => n - k - d = 0)
        /\ \A i \in 1..(n - k - d) : first + i - 1 = i + k + d
    BY <1>2
  <2>. HIDE DEF first, f2, bs, r2, s2
  <2>2. \A i \in first..n : f[i] \in Blocks
    BY <1>3, <2>1
  <2>3. /\ SubSeq(f, first, n) \in Seq(Blocks)
        /\ Len(SubSeq(f, first, n)) = IF first <= n THEN n - first + 1 ELSE 0
        /\ \A i \in 1..(n - first + 1) : SubSeq(f, first, n)[i] = f[first + i - 1]
    BY <2>1, <2>2, SubSeqProperties
  <2>4. f2 = SubSeq(f, first, n)
    BY DEF f2, first
  <2>5. Len(f2) = n - k - d
    BY <2>1, <2>3, <2>4
  <2>6. \A i \in 1..(n - k - d) : f2[i] = f[i + k + d]
    BY <2>1, <2>3, <2>4
  <2>. QED
    BY <2>3, <2>4, <2>5, <2>6
<1>5. bs \in Seq(Blocks) /\ Len(bs) = k /\ \A i \in 1..k : bs[i] = f[i]
  <2>1. \A i \in 1..k : f[i] \in Blocks
    BY <1>2, <1>3
  <2>2. /\ SubSeq(f, 1, k) \in Seq(Blocks)
        /\ Len(SubSeq(f, 1, k)) = IF 1 <= k THEN k - 1 + 1 ELSE 0
        /\ \A i \in 1..(k - 1 + 1) : SubSeq(f, 1, k)[i] = f[1 + i - 1]
    BY <2>1, SubSeqProperties
  <2>3. k - 1 + 1 = k /\ \A i \in 1..k : 1 + i - 1 = i
    OBVIOUS
  <2>. HIDE DEF bs
  <2>4. bs = SubSeq(f, 1, k)
    BY DEF bs
  <2>. QED
    BY <2>2, <2>3, <2>4
<1>. HIDE DEF bs
<1>6. /\ Retire(bs) \in Seq(Entry) /\ Len(Retire(bs)) = k
      /\ \A i \in 1..k : Retire(bs)[i] = [block |-> f[i], left |-> ReuseDelay]
  <2>1. DOMAIN bs = 1..k
    BY <1>5, LenProperties
  <2>2. \A i \in 1..k : [block |-> bs[i], left |-> ReuseDelay] \in Entry
    BY <1>2, <1>3, <1>5, SocketsAssumption DEF Entry
  <2>3. Retire(bs) = [i \in 1..k |-> [block |-> bs[i], left |-> ReuseDelay]]
    BY <2>1 DEF Retire
  <2>. QED
    BY <1>5, <2>2, <2>3
<1>7. /\ r2 \in Seq(Entry) /\ Len(r2) = m + k
      /\ \A i \in 1..(m + k) : r2[i] = IF i <= m THEN r[i] ELSE [block |-> f[i - m], left |-> ReuseDelay]
  <2>1. /\ r \o Retire(bs) \in Seq(Entry) /\ Len(r \o Retire(bs)) = m + k
        /\ \A i \in 1..(m + k) : (r \o Retire(bs))[i] = IF i <= m THEN r[i] ELSE Retire(bs)[i - m]
    BY <1>1, <1>6, ConcatProperties DEF m
  <2>2. \A i \in 1..(m + k) : i > m => i - m \in 1..k
    BY <1>2
  <2>. QED
    BY <1>2, <1>6, <2>1, <2>2
<1>. HIDE DEF f2, r2
<1>8. /\ \A i, j \in 1..n : f[i] = f[j] => i = j
      /\ \A i, j \in 1..m : r[i].block = r[j].block => i = j
      /\ \A i \in 1..n, j \in 1..m : f[i] # r[j].block
      /\ \A i \in 1..n : f[i] \notin s
      /\ \A j \in 1..m : r[j].block \notin s
  BY DEF PoolOK, Apart, n, m
<1>9. /\ \A i \in 1..(n - k - d) : i + k + d \in 1..n /\ i + k + d > k + d
      /\ \A i \in 1..(m + k) : i > m => i - m \in 1..n /\ i - m <= k
      /\ \A i \in 1..(m + k) : i <= m => i \in 1..m
      /\ \A i \in (k + 1)..(k + d) : i \in 1..n /\ i > k
  BY <1>2
<1>10. \A i \in 1..(m + k) : r2[i].block = IF i <= m THEN r[i].block ELSE f[i - m]
  BY <1>7
<1>11. s2 \subseteq Blocks /\ \A b \in s2 : b \in s \/ \E i \in (k + 1)..(k + d) : b = f[i]
  BY <1>1, <1>3, <1>9
<1>12. Apart(f2, r2, s2)
  <2>1. ASSUME NEW i \in 1..(n - k - d), NEW j \in 1..(n - k - d), f2[i] = f2[j] PROVE i = j
    <3>1. f[i + k + d] = f[j + k + d] /\ i + k + d \in 1..n /\ j + k + d \in 1..n
      BY <1>4, <1>9, <2>1
    <3>2. i + k + d = j + k + d
      BY <1>8, <3>1
    <3>. QED
      BY <1>2, <3>2
  <2>2. ASSUME NEW i \in 1..(m + k), NEW j \in 1..(m + k), r2[i].block = r2[j].block PROVE i = j
    <3>1. /\ i <= m => r2[i].block = r[i].block /\ i \in 1..m
          /\ j <= m => r2[j].block = r[j].block /\ j \in 1..m
          /\ ~(i <= m) => r2[i].block = f[i - m] /\ i - m \in 1..n
          /\ ~(j <= m) => r2[j].block = f[j - m] /\ j - m \in 1..n
          /\ i - m = j - m => i = j
      BY <1>2, <1>9, <1>10
    <3>2. CASE i <= m /\ j <= m
      BY <1>8, <2>2, <3>1, <3>2
    <3>3. CASE ~(i <= m) /\ ~(j <= m)
      BY <1>8, <2>2, <3>1, <3>3
    <3>. QED
      BY <1>8, <2>2, <3>1, <3>2, <3>3
  <2>3. ASSUME NEW i \in 1..(n - k - d), NEW j \in 1..(m + k) PROVE f2[i] # r2[j].block
    <3>1. f2[i] = f[i + k + d] /\ i + k + d \in 1..n /\ i + k + d > k
      BY <1>2, <1>4, <1>9
    <3>2. CASE j <= m
      BY <1>8, <1>9, <1>10, <3>1, <3>2
    <3>3. CASE ~(j <= m)
      <4>1. r2[j].block = f[j - m] /\ j - m \in 1..n /\ j - m <= k
        BY <1>2, <1>9, <1>10, <3>3
      <4>2. i + k + d # j - m
        BY <1>2, <3>1, <4>1
      <4>. QED
        BY <1>8, <3>1, <4>1, <4>2
    <3>. QED
      BY <3>2, <3>3
  <2>4. ASSUME NEW i \in 1..(n - k - d) PROVE f2[i] \notin s2
    <3>1. f2[i] = f[i + k + d] /\ i + k + d \in 1..n
      BY <1>2, <1>4, <1>9
    <3>2. ASSUME NEW a \in (k + 1)..(k + d) PROVE f[a] # f[i + k + d]
      <4>1. a \in 1..n /\ a # i + k + d
        BY <1>2, <1>9
      <4>. QED
        BY <1>8, <3>1, <4>1
    <3>. QED
      BY <1>8, <1>11, <3>1, <3>2
  <2>5. ASSUME NEW j \in 1..(m + k) PROVE r2[j].block \notin s2
    BY <1>2, <1>8, <1>9, <1>10, <1>11
  <2>. HIDE DEF s2
  <2>. QED
    BY <1>4, <1>7, <2>1, <2>2, <2>3, <2>4, <2>5 DEF Apart
<1>13. Complete(f2, r2, s2)
  <2>1. SUFFICES ASSUME NEW b \in Blocks
                 PROVE  \/ \E i \in 1..(n - k - d) : f2[i] = b
                        \/ \E j \in 1..(m + k) : r2[j].block = b
                        \/ b \in s2
    BY <1>4, <1>7 DEF Complete
  <2>2. ASSUME NEW i \in 1..n, f[i] = b
        PROVE  \/ \E j \in 1..(n - k - d) : f2[j] = b
               \/ \E j \in 1..(m + k) : r2[j].block = b
               \/ b \in s2
    <3>1. CASE i > k + d
      <4>1. i - k - d \in 1..(n - k - d) /\ (i - k - d) + k + d = i
        BY <1>2, <2>2, <3>1
      <4>. QED
        BY <1>4, <2>2, <4>1
    <3>2. CASE i <= k
      <4>1. i + m \in 1..(m + k) /\ i + m > m /\ (i + m) - m = i
        BY <1>2, <2>2, <3>2
      <4>. QED
        BY <1>2, <1>10, <2>2, <4>1
    <3>3. CASE i > k /\ i <= k + d
      BY <1>2, <2>2, <3>3
    <3>. QED
      BY <1>2, <3>1, <3>2, <3>3
  <2>3. ASSUME NEW j \in 1..m, r[j].block = b PROVE \E i \in 1..(m + k) : r2[i].block = b
    BY <1>2, <1>10, <2>3
  <2>4. CASE b \in s
    BY <2>4
  <2>. QED
    BY <2>2, <2>3, <2>4 DEF PoolOK, Complete, n, m
<1>14. Silent(f2, r2, e, s2)
  <2>1. /\ \A i \in 1..n : e[f[i]] = 0
        /\ \A j \in 1..m : e[r[j].block] <= r[j].left
        /\ \A b \in s : e[b] = 0
    BY DEF PoolOK, Silent, n, m
  <2>2. ASSUME NEW j \in 1..(m + k) PROVE e[r2[j].block] <= r2[j].left
    <3>1. CASE j <= m
      BY <1>7, <1>9, <2>1, <3>1
    <3>2. CASE j > m
      <4>1. e[f[j - m]] = 0 /\ r2[j].left = ReuseDelay /\ r2[j].block = f[j - m]
        BY <1>2, <1>7, <1>9, <2>1, <3>2
      <4>. QED
        BY <4>1, SocketsAssumption
    <3>. QED
      BY <1>2, <3>1, <3>2
  <2>3. ASSUME NEW i \in 1..(n - k - d) PROVE e[f2[i]] = 0
    BY <1>4, <1>9, <2>1
  <2>4. \A b \in s2 : e[b] = 0
    BY <1>9, <1>11, <2>1
  <2>. HIDE DEF s2
  <2>. QED
    BY <1>4, <1>7, <2>2, <2>3, <2>4 DEF Silent
<1>15. Typed(f2, r2, e, s2)
  BY <1>1, <1>4, <1>7, <1>11 DEF Typed
<1>16. PoolOK(f2, r2, e, s2)
  BY <1>12, <1>13, <1>14, <1>15 DEF PoolOK
<1>. QED
  BY <1>16 DEF f2, r2, bs, n

(* A released block enters the quarantine last, with its echo.             *)
LEMMA ReleaseOK ==
    ASSUME NEW f, NEW r, NEW e, NEW s, PoolOK(f, r, e, s), NEW b \in s
    PROVE  PoolOK(f, r \o Retire(<<b>>), [e EXCEPT ![b] = ReuseDelay], s \ {b})
<1>. DEFINE n == Len(f)
            m == Len(r)
            x == [block |-> b, left |-> ReuseDelay]
            r2 == r \o Retire(<<b>>)
            e2 == [e EXCEPT ![b] = ReuseDelay]
<1>1. f \in Seq(Blocks) /\ r \in Seq(Entry) /\ e \in [Blocks -> 0..ReuseDelay] /\ s \subseteq Blocks
  BY DEF PoolOK, Typed
<1>2. n \in Nat /\ m \in Nat /\ x \in Entry /\ ReuseDelay \in 0..ReuseDelay
  BY <1>1, LenProperties, SocketsAssumption DEF Entry
<1>3. \A i \in 1..n : f[i] \in Blocks
  BY <1>1, ElementOfSeq
<1>4. \A i \in 1..m : r[i] \in Entry /\ r[i].block \in Blocks
  <2>1. \A i \in 1..m : r[i] \in Entry
    BY <1>1, ElementOfSeq
  <2>. QED
    BY <2>1 DEF Entry
<1>. HIDE DEF n, m
<1>5. /\ r2 \in Seq(Entry) /\ Len(r2) = m + 1
      /\ \A i \in 1..(m + 1) : r2[i] = IF i <= m THEN r[i] ELSE x
  <2>1. Retire(<<b>>) = <<x>>
    BY DEF Retire
  <2>2. <<x>> \in Seq(Entry) /\ Len(<<x>>) = 1 /\ <<x>>[1] = x
    BY <1>2
  <2>. DEFINE one == <<x>>
  <2>3. one \in Seq(Entry) /\ Len(one) = 1 /\ one[1] = x /\ r2 = r \o one
    BY <2>1, <2>2
  <2>. HIDE DEF one, x, r2
  <2>4. /\ r \o one \in Seq(Entry) /\ Len(r \o one) = m + 1
        /\ \A i \in 1..(m + 1) : (r \o one)[i] = IF i <= m THEN r[i] ELSE one[i - m]
    <3>1. /\ r \o one \in Seq(Entry) /\ Len(r \o one) = Len(r) + Len(one)
          /\ \A i \in 1..(Len(r) + Len(one)) :
                (r \o one)[i] = IF i <= Len(r) THEN r[i] ELSE one[i - Len(r)]
      BY <1>1, <2>3, ConcatProperties
    <3>. QED
      BY <2>3, <3>1 DEF m
  <2>5. \A i \in 1..(m + 1) : ~(i <= m) => i - m = 1
    BY <1>2
  <2>. QED
    BY <2>3, <2>4, <2>5
<1>6. e2 \in [Blocks -> 0..ReuseDelay] /\ \A a \in Blocks : e2[a] = IF a = b THEN ReuseDelay ELSE e[a]
  BY <1>1, <1>2
<1>7. /\ \A i \in 1..(m + 1) : i <= m => r2[i] = r[i] /\ i \in 1..m
      /\ \A i \in 1..(m + 1) : ~(i <= m) =>
            i = m + 1 /\ r2[i].block = b /\ r2[i].left = ReuseDelay
  <2>1. x.block = b /\ x.left = ReuseDelay
    OBVIOUS
  <2>2. \A i \in 1..(m + 1) : (i <= m => i \in 1..m) /\ (~(i <= m) => i = m + 1)
    BY <1>2
  <2>. HIDE DEF x, r2
  <2>. QED
    BY <1>5, <2>1, <2>2
<1>. HIDE DEF r2, e2, x
<1>8. /\ \A i, j \in 1..n : f[i] = f[j] => i = j
      /\ \A i, j \in 1..m : r[i].block = r[j].block => i = j
      /\ \A i \in 1..n, j \in 1..m : f[i] # r[j].block
      /\ \A i \in 1..n : f[i] \notin s
      /\ \A j \in 1..m : r[j].block \notin s
  BY DEF PoolOK, Apart, n, m
<1>9. Apart(f, r2, s \ {b})
  <2>1. ASSUME NEW i \in 1..(m + 1), NEW j \in 1..(m + 1), r2[i].block = r2[j].block PROVE i = j
    BY <1>7, <1>8, <2>1
  <2>2. ASSUME NEW i \in 1..n, NEW j \in 1..(m + 1) PROVE f[i] # r2[j].block
    BY <1>7, <1>8
  <2>3. ASSUME NEW j \in 1..(m + 1) PROVE r2[j].block \notin s \ {b}
    BY <1>7, <1>8
  <2>. QED
    BY <1>5, <1>8, <2>1, <2>2, <2>3 DEF Apart, n
<1>10. Complete(f, r2, s \ {b})
  <2>1. m + 1 \in 1..(m + 1) /\ ~(m + 1 <= m) /\ \A j \in 1..m : j \in 1..(m + 1) /\ j <= m
    BY <1>2
  <2>2. r2[m + 1].block = b /\ \A j \in 1..m : r2[j] = r[j]
    BY <1>7, <2>1
  <2>. QED
    BY <1>5, <2>1, <2>2 DEF PoolOK, Complete, m
<1>11. Silent(f, r2, e2, s \ {b})
  <2>1. /\ \A i \in 1..n : e[f[i]] = 0
        /\ \A j \in 1..m : e[r[j].block] <= r[j].left
        /\ \A a \in s : e[a] = 0
    BY DEF PoolOK, Silent, n, m
  <2>2. ASSUME NEW j \in 1..(m + 1) PROVE e2[r2[j].block] <= r2[j].left
    <3>1. CASE j <= m
      BY <1>4, <1>6, <1>7, <1>8, <2>1, <3>1
    <3>2. CASE ~(j <= m)
      BY <1>1, <1>6, <1>7, <3>2, SocketsAssumption
    <3>. QED
      BY <3>1, <3>2
  <2>3. ASSUME NEW i \in 1..n PROVE e2[f[i]] = 0
    BY <1>3, <1>6, <1>8, <2>1
  <2>4. \A a \in s \ {b} : e2[a] = 0
    BY <1>1, <1>6, <2>1
  <2>. QED
    BY <1>5, <2>2, <2>3, <2>4 DEF Silent, n
<1>12. Typed(f, r2, e2, s \ {b})
  BY <1>1, <1>5, <1>6 DEF Typed
<1>13. PoolOK(f, r2, e2, s \ {b})
  BY <1>9, <1>10, <1>11, <1>12 DEF PoolOK
<1>. QED
  BY <1>13 DEF r2, e2

(* Quarantine and echo run down together.                                  *)
LEMMA TickOK ==
    ASSUME PoolInv, Tick
    PROVE  PoolOK(free, retired', echo', Open)
<1>. DEFINE m == Len(retired)
            down(l) == IF l = 0 THEN 0 ELSE l - 1
<1>1. PoolOK(free, retired, echo, Open) /\ retired \in Seq(Entry) /\ echo \in [Blocks -> 0..ReuseDelay]
      /\ free \in Seq(Blocks)
  BY DEF PoolInv, PoolOK, Typed
<1>2. m \in Nat /\ DOMAIN retired = 1..m /\ \A i \in 1..m : retired[i] \in Entry
  BY <1>1, LenProperties, ElementOfSeq
<1>3. \A i \in 1..m : [retired[i] EXCEPT !.left = down(@)] \in Entry
  <2>1. ASSUME NEW l \in 0..ReuseDelay PROVE down(l) \in 0..ReuseDelay
    BY SocketsAssumption
  <2>. HIDE DEF down, m
  <2>2. ASSUME NEW i \in 1..m PROVE [retired[i] EXCEPT !.left = down(@)] \in Entry
    <3>1. retired[i] \in [block : Blocks, left : 0..ReuseDelay]
      BY <1>2 DEF Entry
    <3>2. down(retired[i].left) \in 0..ReuseDelay
      BY <2>1, <3>1
    <3>. QED
      BY <3>1, <3>2 DEF Entry
  <2>. QED
    BY <2>2
<1>4. /\ retired' \in Seq(Entry) /\ Len(retired') = m
      /\ \A i \in 1..m : retired'[i] = [retired[i] EXCEPT !.left = down(@)]
  <2>1. retired' = [i \in 1..m |-> [retired[i] EXCEPT !.left = down(@)]]
    BY <1>2 DEF Tick
  <2>. QED
    BY <1>2, <1>3, <2>1
<1>5. \A i \in 1..m : /\ retired'[i].block = retired[i].block /\ retired[i].block \in Blocks
                      /\ retired'[i].left = down(retired[i].left) /\ retired[i].left \in 0..ReuseDelay
  BY <1>2, <1>4 DEF Entry
<1>6. /\ echo' \in [Blocks -> 0..ReuseDelay]
      /\ \A b \in Blocks : echo'[b] = down(echo[b]) /\ echo[b] \in 0..ReuseDelay
  <2>1. echo' = [b \in Blocks |-> down(echo[b])]
    BY DEF Tick
  <2>2. \A b \in Blocks : echo[b] \in 0..ReuseDelay /\ down(echo[b]) \in 0..ReuseDelay
    BY <1>1, SocketsAssumption
  <2>. QED
    BY <2>1, <2>2
<1>7. Apart(free, retired', Open) /\ Complete(free, retired', Open)
  <2>1. /\ \A i, j \in 1..m : retired[i].block = retired[j].block => i = j
        /\ \A i, j \in 1..Len(free) : free[i] = free[j] => i = j
        /\ \A i \in 1..Len(free), j \in 1..m : free[i] # retired[j].block
        /\ \A i \in 1..Len(free) : free[i] \notin Open
        /\ \A j \in 1..m : retired[j].block \notin Open
    BY <1>1 DEF PoolOK, Apart, m
  <2>2. \A b \in Blocks :
           \/ \E i \in 1..Len(free) : free[i] = b
           \/ \E j \in 1..m : retired[j].block = b
           \/ b \in Open
    BY <1>1 DEF PoolOK, Complete, m
  <2>. HIDE DEF m
  <2>3. Apart(free, retired', Open)
    BY <1>4, <1>5, <2>1 DEF Apart
  <2>4. Complete(free, retired', Open)
    BY <1>4, <1>5, <2>2 DEF Complete
  <2>. QED
    BY <2>3, <2>4
<1>8. Silent(free, retired', echo', Open)
  <2>1. ASSUME NEW j \in 1..m PROVE echo'[retired'[j].block] <= retired'[j].left
    <3>1. echo[retired[j].block] <= retired[j].left
      BY <1>1 DEF PoolOK, Silent, m
    <3>2. echo'[retired'[j].block] = down(echo[retired[j].block])
      BY <1>5, <1>6
    <3>3. /\ retired'[j].left = down(retired[j].left) /\ retired[j].left \in 0..ReuseDelay
          /\ echo[retired[j].block] \in 0..ReuseDelay
      BY <1>5, <1>6
    <3>4. down(echo[retired[j].block]) <= down(retired[j].left)
      BY <3>1, <3>3, SocketsAssumption
    <3>. QED
      BY <3>2, <3>3, <3>4
  <2>2. \A i \in 1..Len(free) : echo'[free[i]] = 0
    <3>1. \A i \in 1..Len(free) : echo[free[i]] = 0 /\ free[i] \in Blocks
      BY <1>1, ElementOfSeq DEF PoolOK, Silent
    <3>. QED
      BY <1>6, <3>1
  <2>3. \A b \in Open : echo'[b] = 0
    BY <1>1, <1>6 DEF PoolOK, Silent, Open
  <2>. QED
    BY <1>4, <2>1, <2>2, <2>3 DEF Silent
<1>. QED
  BY <1>1, <1>4, <1>6, <1>7, <1>8 DEF PoolOK, Typed

-----------------------------------------------------------------------------
LEMMA AllocateKeeps ==
    ASSUME PoolInv, NEW c \in Sessions, NEW k \in 0..NumBlocks, Allocate(c, k)
    PROVE  PoolInv'
<1>. DEFINE b == Reclaimed[k + 1]
<1>1. PoolOK(Reclaimed, Quarantined, echo, Open) /\ Reclaimed \in Seq(Blocks)
  BY ReclaimOK DEF PoolOK, Typed
<1>2. Len(Reclaimed) \in Nat /\ k \in Nat /\ 1 \in {0, 1} /\ k + 1 <= Len(Reclaimed)
  BY <1>1, LenProperties, SocketsAssumption DEF Allocate
<1>3. PoolOK(SubSeq(Reclaimed, k + 1 + 1, Len(Reclaimed)),
             Quarantined \o Retire(SubSeq(Reclaimed, 1, k)), echo,
             Open \cup {Reclaimed[i] : i \in (k + 1)..(k + 1)})
  BY <1>1, <1>2, TakeOK
<1>4. k + 1 + 1 = k + 2 /\ {Reclaimed[i] : i \in (k + 1)..(k + 1)} = {b}
  BY <1>2
<1>5. b \in Blocks /\ c # NoSession
  BY <1>1, <1>2, ElementOfSeq, SocketsAssumption
<1>6. Open' = Open \cup {b} /\ DOMAIN session' = Blocks
  BY <1>5 DEF Allocate, Open, PoolInv
<1>. QED
  BY <1>3, <1>4, <1>6 DEF Allocate, PoolInv

LEMMA AllocateFailsKeeps ==
    ASSUME PoolInv, NEW c, NEW k \in 0..NumBlocks, AllocateFails(c, k)
    PROVE  PoolInv'
<1>1. PoolOK(Reclaimed, Quarantined, echo, Open) /\ Reclaimed \in Seq(Blocks)
  BY ReclaimOK DEF PoolOK, Typed
<1>2. Len(Reclaimed) \in Nat /\ k \in Nat /\ 0 \in {0, 1} /\ k + 0 <= Len(Reclaimed)
  BY <1>1, LenProperties, SocketsAssumption DEF AllocateFails, TryBlocks
<1>3. PoolOK(SubSeq(Reclaimed, k + 0 + 1, Len(Reclaimed)),
             Quarantined \o Retire(SubSeq(Reclaimed, 1, k)), echo,
             Open \cup {Reclaimed[i] : i \in (k + 1)..(k + 0)})
  BY <1>1, <1>2, TakeOK
<1>4. k + 0 + 1 = k + 1 /\ Open \cup {Reclaimed[i] : i \in (k + 1)..(k + 0)} = Open
  BY <1>2
<1>5. Open' = Open
  BY DEF AllocateFails, sessionVars, Open
<1>. QED
  BY <1>3, <1>4, <1>5 DEF AllocateFails, TryBlocks, PoolInv, sessionVars

LEMMA ReleaseKeeps ==
    ASSUME PoolInv, NEW b \in Blocks, Release(b)
    PROVE  PoolInv'
<1>1. b \in Open /\ Open' = Open \ {b} /\ DOMAIN session' = Blocks
  BY DEF Release, Open, PoolInv
<1>2. PoolOK(free, retired \o Retire(<<b>>), [echo EXCEPT ![b] = ReuseDelay], Open \ {b})
  BY <1>1, ReleaseOK DEF PoolInv
<1>. QED
  BY <1>1, <1>2 DEF Release, ReleaseBlock, PoolInv

LEMMA NextKeeps == PoolInv /\ [Next]_vars => PoolInv'
<1>1. SUFFICES ASSUME PoolInv, [Next]_vars PROVE PoolInv'
  OBVIOUS
<1>2. ASSUME UNCHANGED <<portVars, session>> PROVE PoolInv'
  BY <1>1, <1>2 DEF PoolInv, PoolOK, Typed, Apart, Complete, Silent, Open, portVars
<1>3. CASE Command
  <2>1. ASSUME NEW c \in Sessions, NEW k \in 0..NumBlocks, Allocate(c, k) \/ AllocateFails(c, k) PROVE PoolInv'
    BY <1>1, <2>1, AllocateKeeps, AllocateFailsKeeps
  <2>2. ASSUME NEW b \in Blocks, Release(b) PROVE PoolInv'
    BY <1>1, <2>2, ReleaseKeeps
  <2>3. ASSUME NEW b \in Blocks, NEW n, ConnectFails(b) \/ Connect(b, n) PROVE PoolInv'
    BY <1>2, <2>3 DEF ConnectFails, Connect, sessionVars
  <2>4. CASE ReadStats
    <3>1. Open' = Open
      BY <2>4 DEF ReadStats, sessionVars, Open
    <3>. QED
      BY <1>1, <2>4, <3>1, ReclaimOK DEF ReadStats, PoolInv, sessionVars
  <2>. QED
    BY <1>3, <2>1, <2>2, <2>3, <2>4 DEF Command
<1>4. CASE Kernel
  <2>1. CASE Tick
    <3>1. Open' = Open
      BY <2>1 DEF Tick, sessionVars, Open
    <3>. QED
      BY <1>1, <2>1, <3>1, TickOK DEF Tick, PoolInv, sessionVars
  <2>2. ASSUME NEW b \in Blocks, NEW s \in Sides, Arrive(b, s) \/ Refill(b, s) PROVE PoolInv'
    BY <1>2, <2>2 DEF Arrive, Refill, sessionVars
  <2>. QED
    BY <1>4, <2>1, <2>2 DEF Kernel
<1>5. CASE Work
  <2>1. CASE Receive
    <3>1. CASE ReadStale
      BY <1>2, <3>1 DEF ReadStale, sessionVars
    <3>2. ASSUME NEW n, NEW m, NEW u, Read(n, m, u) PROVE PoolInv'
      <4>1. UNCHANGED <<portVars, sessionVars>>
        BY <3>2 DEF Read
      <4>. QED
        BY <1>2, <4>1 DEF sessionVars
    <3>. QED
      BY <2>1, <3>1, <3>2 DEF Receive, ReadDrained, ReadMore, ReadDeferred
  <2>. QED
    BY <1>2, <1>5, <2>1 DEF Work, Poll, Resume, FlushStale, Flush, sessionVars
<1>6. CASE UNCHANGED vars
  BY <1>2, <1>6 DEF vars, sessionVars
<1>. QED
  BY <1>1, <1>3, <1>4, <1>5, <1>6 DEF Next

LEMMA InitHolds == Init => PoolInv
<1>1. SUFFICES ASSUME Init PROVE PoolInv
  OBVIOUS
<1>2. free = [i \in 1..NumBlocks |-> i] /\ retired = <<>> /\ Open = {} /\ NumBlocks \in Nat
  BY <1>1, SocketsAssumption DEF Init, Blocks, Open
<1>3. free \in Seq(Blocks) /\ Len(free) = NumBlocks /\ \A i \in Blocks : free[i] = i
  BY <1>2 DEF Blocks
<1>4. retired \in Seq(Entry) /\ Len(retired) = 0
  BY <1>2
<1>5. echo = [b \in Blocks |-> 0] /\ 0 \in 0..ReuseDelay /\ DOMAIN session = Blocks
  BY <1>1, SocketsAssumption DEF Init
<1>6. Typed(free, retired, echo, Open)
  BY <1>2, <1>3, <1>4, <1>5 DEF Typed
<1>7. Apart(free, retired, Open) /\ Complete(free, retired, Open) /\ Silent(free, retired, echo, Open)
  BY <1>2, <1>3, <1>4, <1>5 DEF Apart, Complete, Silent, Blocks
<1>. QED
  BY <1>5, <1>6, <1>7 DEF PoolInv, PoolOK

(* The sum of BlocksAccounted: a block has one place, and one only.        *)
LEMMA OnePlace == PoolInv => BlocksAccounted
<1>1. SUFFICES ASSUME PoolInv, NEW b \in Blocks PROVE Places(b) = 1
  BY DEF BlocksAccounted
<1>. DEFINE F == {i \in DOMAIN free : free[i] = b}
            R == {i \in DOMAIN retired : retired[i].block = b}
<1>2. free \in Seq(Blocks) /\ retired \in Seq(Entry)
  BY <1>1 DEF PoolInv, PoolOK, Typed
<1>3. DOMAIN free = 1..Len(free) /\ DOMAIN retired = 1..Len(retired)
  BY <1>2, LenProperties
<1>4. Apart(free, retired, Open) /\ Complete(free, retired, Open)
  BY <1>1 DEF PoolInv, PoolOK
<1>0. Places(b) = Cardinality(F) + Cardinality(R) + (IF session[b] # NoSession THEN 1 ELSE 0)
  BY DEF Places
<1>5. CASE \E i \in 1..Len(free) : free[i] = b
  <2>1. PICK i \in 1..Len(free) : free[i] = b
    BY <1>5
  <2>2. F = {i} /\ R = {} /\ session[b] = NoSession
    BY <1>1, <1>3, <1>4, <2>1 DEF Apart, Open
  <2>3. Cardinality({i}) = 1 /\ Cardinality({}) = 0
    BY FS_EmptySet, FS_Singleton
  <2>. HIDE DEF F, R
  <2>. QED
    BY <1>0, <2>2, <2>3
<1>6. CASE \E i \in 1..Len(retired) : retired[i].block = b
  <2>1. PICK i \in 1..Len(retired) : retired[i].block = b
    BY <1>6
  <2>2. F = {} /\ R = {i} /\ session[b] = NoSession
    BY <1>1, <1>3, <1>4, <2>1 DEF Apart, Open
  <2>3. Cardinality({i}) = 1 /\ Cardinality({}) = 0
    BY FS_EmptySet, FS_Singleton
  <2>. HIDE DEF F, R
  <2>. QED
    BY <1>0, <2>2, <2>3
<1>7. CASE b \in Open
  <2>1. F = {} /\ R = {} /\ session[b] # NoSession
    BY <1>3, <1>4, <1>7 DEF Apart, Open
  <2>. QED
    BY <2>1, FS_EmptySet DEF Places
<1>. QED
  BY <1>1, <1>4, <1>5, <1>6, <1>7 DEF Complete

(* The invariant of every state (ports.rs: reclaim, allocate, release).    *)
LEMMA PoolSound == Spec => []PoolInv
BY InitHolds, NextKeeps, PTL DEF Spec

(* No path of allocation or release loses a port block or hands it out     *)
(* twice: every block is free, in quarantine or held, exactly once         *)
(* (ports.rs:51, worker.rs:574).                                           *)
THEOREM NoBlockLost == Spec => []BlocksAccounted
BY PoolSound, OnePlace, PTL

(* A session never gets a block on which datagrams for an earlier session  *)
(* can still arrive, however often a block is tried, retired and reclaimed *)
(* in between.                                                             *)
THEOREM NoEarlyReuse == Spec => []QuarantineHolds
<1>1. PoolInv => QuarantineHolds
  BY DEF PoolInv, PoolOK, Silent, QuarantineHolds
<1>. QED
  BY <1>1, PoolSound, PTL
=============================================================================
