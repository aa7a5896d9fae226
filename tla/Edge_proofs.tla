------------------------------ MODULE Edge_proofs ------------------------------
(***************************************************************************)
(* The server's edge, for any phones, addresses, messages, limits and      *)
(* sounds.  Each part has an inductive invariant of its own; the last      *)
(* section puts them together over the steps of MCEdge.                    *)
(***************************************************************************)
EXTENDS MCEdge, FiniteSetTheorems, SequenceTheorems, TLAPS

-----------------------------------------------------------------------------
(***************************************************************************)
(* Naturals.                                                               *)
(***************************************************************************)

\* A set of naturals that is not empty has a least one.
LEMMA LeastNatural ==
  ASSUME NEW T, T \subseteq Nat, T # {}
  PROVE  \E x \in T : \A y \in T : x <= y
<1>1. PICK x \in T : \A y \in T : ~(<<y, x>> \in OpToRel(<, Nat))
  BY NatLessThanWellFounded, WFMin
<1>2. ASSUME NEW y \in T PROVE x <= y
  <2>1. CASE y < x
    <3>1. <<y, x>> \in OpToRel(<, Nat)
      BY <2>1 DEF OpToRel
    <3> QED
      BY <1>1, <3>1
  <2> QED
    BY <2>1
<1> QED
  BY <1>2

\* Induction, for a set that holds zero and the successor of each of its naturals.
LEMMA SetInduction ==
  ASSUME NEW T, 0 \in T, \A n \in Nat : n \in T => n + 1 \in T
  PROVE  Nat \subseteq T
<1>1. SUFFICES ASSUME Nat \ T # {} PROVE FALSE
  OBVIOUS
<1>2. PICK x \in Nat \ T : \A y \in Nat \ T : x <= y
  BY <1>1, LeastNatural
<1>3. x # 0
  BY <1>2
<1>4. x - 1 \in Nat /\ x - 1 \in T
  BY <1>2, <1>3
<1> QED
  BY <1>2, <1>4

LEMMA IntervalSize ==
  ASSUME NEW a \in Int, NEW b \in Int, a <= b + 1
  PROVE  IsFiniteSet(a..b) /\ Cardinality(a..b) = b - a + 1
BY FS_Interval, SMTT(30)

\* The indices below every index outside of a set of them are an initial segment.
LEMMA InitialSegment ==
  ASSUME NEW n \in Nat, NEW old \in SUBSET (1..n),
         \A i \in old : \A j \in 1..i : j \in old
  PROVE  Cardinality(old) \in 0..n /\ old = 1..Cardinality(old)
<1>1. CASE old = 1..n
  <2>1. Cardinality(1..n) = n
    BY IntervalSize
  <2> QED
    BY <1>1, <2>1
<1>2. CASE old # 1..n
  <2> DEFINE rest == (1..n) \ old
  <2>0. rest \subseteq Nat /\ rest # {}
    <3>1. rest # {}
      BY <1>2
    <3> QED
      BY <3>1
  <2>1. PICK x \in rest : \A y \in rest : x <= y
    <3> HIDE DEF rest
    <3> QED
      BY <2>0, LeastNatural
  <2>2. old = 1..x - 1
    <3>1. ASSUME NEW i \in 1..x - 1 PROVE i \in old
      BY <2>1
    <3>2. ASSUME NEW i \in old PROVE i \in 1..x - 1
      BY <2>1
    <3> QED
      BY <3>1, <3>2
  <2>3. Cardinality(1..x - 1) = x - 1
    BY <2>1, IntervalSize
  <2> QED
    BY <2>1, <2>2, <2>3
<1> QED
  BY <1>1, <1>2

-----------------------------------------------------------------------------
(***************************************************************************)
(* The limiters.                                                           *)
(***************************************************************************)

\* What purge takes away is a prefix, and all of it is older than the window.
LEMMA RecentDropsOld ==
  ASSUME NEW times \in Seq(Nat), NEW at \in Nat
  PROVE  \E k \in 0..Len(times) :
            /\ Recent(times, at) = SubSeq(times, k + 1, Len(times))
            /\ \A i \in 1..k : at - times[i] >= Window
<1> DEFINE old == {i \in DOMAIN times : \A j \in 1..i : at - times[j] >= Window}
           k == Cardinality(old)
<1>1. old \in SUBSET (1..Len(times))
  OBVIOUS
<1>2. \A i \in old : \A j \in 1..i : j \in old
  OBVIOUS
<1>3. k \in 0..Len(times) /\ old = 1..k
  <2> HIDE DEF old
  <2> QED
    BY <1>1, <1>2, InitialSegment
<1>4. \A i \in 1..k : at - times[i] >= Window
  <2>1. \A i \in old : at - times[i] >= Window
    OBVIOUS
  <2> HIDE DEF old
  <2> QED
    BY <1>3, <2>1
<1>5. Recent(times, at) = SubSeq(times, k + 1, Len(times))
  BY DEF Recent
<1> QED
  BY <1>3, <1>4, <1>5

LEMMA RecentLength ==
  ASSUME NEW times \in Seq(Nat), NEW at \in Nat
  PROVE  Recent(times, at) \in Seq(Nat) /\ Len(Recent(times, at)) <= Len(times)
<1>1. PICK k \in 0..Len(times) : Recent(times, at) = SubSeq(times, k + 1, Len(times))
  BY RecentDropsOld
<1>2. \A i \in k + 1..Len(times) : times[i] \in Nat
  OBVIOUS
<1> QED
  BY <1>1, <1>2, SubSeqProperties

\* The history of an address and the times that a limiter keeps of it end alike, and
\* what the limiter no longer keeps is older than the window.
Aligned(hist, kept, at) ==
    \E n, m \in Nat :
       /\ n = Len(hist) /\ m = Len(kept)
       /\ \A j \in Nat : j < n /\ j < m => hist[n - j] = kept[m - j]
       /\ \A i \in 1..n : i <= n - m => at - hist[i] >= Window

LEMMA AlignedForgets ==
  ASSUME NEW hist \in Seq(Nat), NEW kept \in Seq(Nat), NEW at \in Nat, Aligned(hist, kept, at)
  PROVE  Aligned(hist, Recent(kept, at), at)
<1>1. PICK n \in Nat, m \in Nat :
         /\ n = Len(hist) /\ m = Len(kept)
         /\ \A j \in Nat : j < n /\ j < m => hist[n - j] = kept[m - j]
         /\ \A i \in 1..n : i <= n - m => at - hist[i] >= Window
  BY DEF Aligned
<1>2. PICK k \in 0..m : /\ Recent(kept, at) = SubSeq(kept, k + 1, m)
                        /\ \A i \in 1..k : at - kept[i] >= Window
  BY <1>1, RecentDropsOld
<1> DEFINE left == SubSeq(kept, k + 1, m)
<1>3. \A i \in k + 1..m : kept[i] \in Nat
  BY <1>1
<1>4. /\ Len(left) = m - k
      /\ \A i \in 1..m - k : left[i] = kept[i + k]
  <2>1. /\ Len(left) = IF k + 1 <= m THEN m - (k + 1) + 1 ELSE 0
        /\ \A i \in 1..m - (k + 1) + 1 : left[i] = kept[k + 1 + i - 1]
    BY <1>3, SubSeqProperties
  <2> HIDE DEF left
  <2> QED
    BY <2>1
<1> HIDE DEF left
<1>5. ASSUME NEW j \in Nat, j < n, j < m - k
      PROVE  hist[n - j] = left[m - k - j]
  <2>1. m - k - j \in 1..m - k /\ m - k - j + k = m - j /\ j < m
    BY <1>5
  <2>2. left[m - k - j] = kept[m - j]
    BY <2>1, <1>4
  <2> QED
    BY <2>1, <2>2, <1>1, <1>5
<1>6. ASSUME NEW i \in 1..n, i <= n - (m - k)
      PROVE  at - hist[i] >= Window
  <2>1. CASE i <= n - m
    BY <2>1, <1>1
  <2>2. CASE i > n - m
    <3>1. /\ n - i \in Nat /\ n - i < n /\ n - i < m /\ n - (n - i) = i
          /\ m - (n - i) \in 1..k
      BY <2>2, <1>6
    <3>2. hist[i] = kept[m - (n - i)]
      BY <3>1, <1>1
    <3> QED
      BY <3>1, <3>2, <1>2
  <2> QED
    BY <2>1, <2>2
<1>7. m - k \in Nat
  OBVIOUS
<1>8. Aligned(hist, left, at)
  BY <1>1, <1>4, <1>5, <1>6, <1>7 DEF Aligned
<1> QED
  BY <1>2, <1>8 DEF left

\* The clock moves, and the history forgets in its turn.
LEMMA AlignedAges ==
  ASSUME NEW hist \in Seq(Nat), NEW kept \in Seq(Nat), NEW at \in Nat, Aligned(hist, kept, at),
         NEW later \in Nat, later > at
  PROVE  Aligned(Recent(hist, later), kept, later)
<1>1. PICK n \in Nat, m \in Nat :
         /\ n = Len(hist) /\ m = Len(kept)
         /\ \A j \in Nat : j < n /\ j < m => hist[n - j] = kept[m - j]
         /\ \A i \in 1..n : i <= n - m => at - hist[i] >= Window
  BY DEF Aligned
<1>2. PICK k \in 0..n : Recent(hist, later) = SubSeq(hist, k + 1, n)
  BY <1>1, RecentDropsOld
<1> DEFINE left == SubSeq(hist, k + 1, n)
<1>3. \A i \in 1..n : hist[i] \in Nat
  BY <1>1
<1>4. /\ Len(left) = n - k
      /\ \A i \in 1..n - k : left[i] = hist[i + k]
  <2>1. /\ Len(left) = IF k + 1 <= n THEN n - (k + 1) + 1 ELSE 0
        /\ \A i \in 1..n - (k + 1) + 1 : left[i] = hist[k + 1 + i - 1]
    BY <1>3, SubSeqProperties
  <2> HIDE DEF left
  <2> QED
    BY <2>1
<1> HIDE DEF left
<1>5. ASSUME NEW j \in Nat, j < n - k, j < m
      PROVE  left[n - k - j] = kept[m - j]
  <2>1. n - k - j \in 1..n - k /\ n - k - j + k = n - j /\ j < n
    BY <1>5
  <2>2. left[n - k - j] = hist[n - j]
    BY <2>1, <1>4
  <2> QED
    BY <2>1, <2>2, <1>1, <1>5
<1>6. ASSUME NEW i \in 1..n - k, i <= n - k - m
      PROVE  later - left[i] >= Window
  <2>1. i + k \in 1..n /\ i + k <= n - m
    BY <1>6
  <2>2. at - hist[i + k] >= Window /\ hist[i + k] \in Nat /\ left[i] = hist[i + k]
    BY <2>1, <1>1, <1>3, <1>4
  <2>3. PICK x \in Nat, w \in Nat : x = left[i] /\ w = Window /\ at - x >= w
    BY <2>2, AdmissionAssumption
  <2>4. later - x >= w
    BY <2>3
  <2> QED
    BY <2>3, <2>4
<1>7. n - k \in Nat
  OBVIOUS
<1>8. Aligned(left, kept, later)
  <2> DEFINE p == n - k
  <2>1. /\ p \in Nat /\ p = Len(left) /\ m = Len(kept)
        /\ \A j \in Nat : j < p /\ j < m => left[p - j] = kept[m - j]
        /\ \A i \in 1..p : i <= p - m => later - left[i] >= Window
    BY <1>1, <1>4, <1>5, <1>6, <1>7
  <2> HIDE DEF p
  <2> QED
    BY <2>1 DEF Aligned
<1> QED
  BY <1>2, <1>8 DEF left

LEMMA AlignedGrows ==
  ASSUME NEW hist \in Seq(Nat), NEW kept \in Seq(Nat), NEW at \in Nat, Aligned(hist, kept, at)
  PROVE  Aligned(Append(hist, at), Append(kept, at), at)
<1>1. PICK n \in Nat, m \in Nat :
         /\ n = Len(hist) /\ m = Len(kept)
         /\ \A j \in Nat : j < n /\ j < m => hist[n - j] = kept[m - j]
         /\ \A i \in 1..n : i <= n - m => at - hist[i] >= Window
  BY DEF Aligned
<1> DEFINE h == Append(hist, at)
           s == Append(kept, at)
<1>2. /\ Len(h) = n + 1 /\ h[n + 1] = at
      /\ \A i \in 1..n : h[i] = hist[i]
  BY <1>1, AppendProperties
<1>3. /\ Len(s) = m + 1 /\ s[m + 1] = at
      /\ \A i \in 1..m : s[i] = kept[i]
  BY <1>1, AppendProperties
<1> HIDE DEF h, s
<1>4. ASSUME NEW j \in Nat, j < n + 1, j < m + 1
      PROVE  h[n + 1 - j] = s[m + 1 - j]
  <2>1. CASE j = 0
    BY <2>1, <1>2, <1>3
  <2>2. CASE j # 0
    <3>1. /\ j - 1 \in Nat /\ j - 1 < n /\ j - 1 < m
          /\ n - (j - 1) \in 1..n /\ n - (j - 1) = n + 1 - j
          /\ m - (j - 1) \in 1..m /\ m - (j - 1) = m + 1 - j
      BY <2>2, <1>4
    <3>2. hist[n - (j - 1)] = kept[m - (j - 1)]
      BY <3>1, <1>1
    <3> QED
      BY <3>1, <3>2, <1>2, <1>3
  <2> QED
    BY <2>1, <2>2
<1>5. ASSUME NEW i \in 1..n + 1, i <= n + 1 - (m + 1)
      PROVE  at - h[i] >= Window
  <2>1. i \in 1..n /\ i <= n - m
    BY <1>5
  <2> QED
    BY <2>1, <1>1, <1>2
<1>6. PICK p \in Nat, q \in Nat : p = n + 1 /\ q = m + 1
  OBVIOUS
<1>7. /\ p = Len(h) /\ q = Len(s)
      /\ \A j \in Nat : j < p /\ j < q => h[p - j] = s[q - j]
      /\ \A i \in 1..p : i <= p - q => at - h[i] >= Window
  BY <1>2, <1>3, <1>4, <1>5, <1>6
<1>8. Aligned(h, s, at)
  BY <1>7 DEF Aligned
<1> QED
  BY <1>8 DEF h, s

\* So a window holds no more of the history than the limiter keeps.
LEMMA AlignedCounts ==
  ASSUME NEW hist \in Seq(Nat), NEW kept \in Seq(Nat), now \in Nat, Aligned(hist, kept, now)
  PROVE  /\ IsFiniteSet(InWindow(hist))
         /\ Cardinality(InWindow(hist)) <= Len(kept)
<1>1. PICK n \in Nat, m \in Nat :
         /\ n = Len(hist) /\ m = Len(kept)
         /\ \A j \in Nat : j < n /\ j < m => hist[n - j] = kept[m - j]
         /\ \A i \in 1..n : i <= n - m => now - hist[i] >= Window
  BY DEF Aligned
<1>2. InWindow(hist) \in SUBSET (1..n)
  BY <1>1 DEF InWindow
<1>3. CASE n <= m
  <2>1. IsFiniteSet(1..n) /\ Cardinality(1..n) = n
    BY IntervalSize
  <2>2. IsFiniteSet(InWindow(hist)) /\ Cardinality(InWindow(hist)) <= n
    BY <1>2, <2>1, FS_Subset
  <2>3. Cardinality(InWindow(hist)) \in Nat
    BY <2>2, FS_CardinalityType
  <2> QED
    BY <1>1, <1>3, <2>2, <2>3
<1>4. CASE n > m
  <2> DEFINE last == n - m + 1..n
  <2>1. IsFiniteSet(last) /\ Cardinality(last) = m
    <3>1. n - m + 1 \in Int /\ n - m + 1 <= n + 1 /\ n - (n - m + 1) + 1 = m
      BY <1>4
    <3> QED
      BY <3>1, IntervalSize
  <2>2. InWindow(hist) \in SUBSET last
    <3>1. ASSUME NEW i \in InWindow(hist) PROVE i \in last
      <4>1. i \in 1..n /\ now - hist[i] < Window /\ hist[i] \in Nat
        BY <1>1 DEF InWindow
      <4>2. Window \in Nat
        BY AdmissionAssumption
      <4>3. ~(i <= n - m)
        BY <1>1, <4>1, <4>2
      <4> QED
        BY <4>1, <4>3
    <3> QED
      BY <3>1
  <2> HIDE DEF last
  <2> QED
    BY <1>1, <2>1, <2>2, FS_Subset
<1> QED
  BY <1>3, <1>4

-----------------------------------------------------------------------------
(***************************************************************************)
(* The tables of the limiters.                                             *)
(***************************************************************************)

IsTable(table) ==
    /\ table \in [DOMAIN table -> Seq(Nat)]
    /\ DOMAIN table \in SUBSET Address
    /\ IsFiniteSet(DOMAIN table)

LEMMA TimesAreTimes ==
  ASSUME NEW table, IsTable(table), NEW a
  PROVE  TimesOf(table, a) \in Seq(Nat)
BY DEF TimesOf, IsTable

LEMMA PurgedTable ==
  ASSUME NEW table, IsTable(table), now \in Nat
  PROVE  /\ IsTable(Purged(table))
         /\ DOMAIN Purged(table) \in SUBSET (DOMAIN table)
         /\ \A a : TimesOf(Purged(table), a) = Recent(TimesOf(table, a), now)
<1> DEFINE left == {b \in DOMAIN table : Recent(table[b], now) # << >>}
<1>1. Purged(table) = [a \in left |-> Recent(table[a], now)]
  BY DEF Purged
<1>2. \A b \in DOMAIN table : Recent(table[b], now) \in Seq(Nat)
  BY RecentLength DEF IsTable
<1>3. IsFiniteSet(left)
  BY FS_Subset DEF IsTable
<1>4. IsTable(Purged(table)) /\ DOMAIN Purged(table) \in SUBSET (DOMAIN table)
  BY <1>1, <1>2, <1>3 DEF IsTable
<1>5. Recent(<< >>, now) = << >>
  <2>1. << >> \in Seq(Nat) /\ Len(<< >>) = 0
    OBVIOUS
  <2>2. /\ Recent(<< >>, now) \in Seq(Nat) /\ Len(Recent(<< >>, now)) <= Len(<< >>)
    BY <2>1, RecentLength
  <2> QED
    BY <2>1, <2>2, EmptySeq, LenProperties
<1>6. ASSUME NEW a
      PROVE  TimesOf(Purged(table), a) = Recent(TimesOf(table, a), now)
  <2>1. CASE a \in left
    BY <1>1, <2>1 DEF TimesOf
  <2>2. CASE a \in DOMAIN table /\ a \notin left
    BY <1>1, <2>2 DEF TimesOf
  <2>3. CASE a \notin DOMAIN table
    BY <1>1, <1>5, <2>3 DEF TimesOf
  <2> QED
    BY <2>1, <2>2, <2>3
<1> QED
  BY <1>4, <1>6

\* The new table has the times for the address, and is the old one elsewhere.
Entered(new, old, a, times) ==
    /\ IsTable(new)
    /\ DOMAIN new = DOMAIN old \union {a}
    /\ \A b : TimesOf(new, b) = IF b = a THEN times ELSE TimesOf(old, b)

LEMMA WithTable ==
  ASSUME NEW table, IsTable(table), NEW a \in Address, NEW times \in Seq(Nat)
  PROVE  Entered(With(table, a, times), table, a, times)
<1>1. IsFiniteSet(DOMAIN table \union {a})
  BY FS_AddElement DEF IsTable
<1>2. DOMAIN With(table, a, times) = DOMAIN table \union {a}
  BY DEF With
<1>3. IsTable(With(table, a, times))
  BY <1>1, <1>2 DEF IsTable, With
<1>4. \A b : TimesOf(With(table, a, times), b)
             = IF b = a THEN times ELSE TimesOf(table, b)
  BY <1>2 DEF TimesOf, With
<1> QED
  BY <1>2, <1>3, <1>4 DEF Entered

-----------------------------------------------------------------------------
(***************************************************************************)
(* The requests of an address: the limiter keeps every one that is within  *)
(* the window, and at most the limit of them.                              *)
(***************************************************************************)

RequestsInv ==
    /\ now \in Nat
    /\ peer \in [Connection -> Address]
    /\ granted \in [Address -> Seq(Nat)]
    /\ IsTable(rates)
    /\ Cardinality(DOMAIN rates) <= MaxTracked
    /\ \A a \in Address : /\ Aligned(granted[a], TimesOf(rates, a), now)
                          /\ Len(TimesOf(rates, a)) <= MaxRequests

LEMMA EmptyAligned ==
  ASSUME NEW at
  PROVE  Aligned(<< >>, << >>, at)
<1>1. 0 \in Nat /\ 0 = Len(<< >>) /\ \A i : i \notin 1..0
  OBVIOUS
<1>2. \A j \in Nat : ~(j < 0)
  OBVIOUS
<1> QED
  BY <1>1, <1>2 DEF Aligned

LEMMA RequestsInit ==
  ASSUME AdmissionInit
  PROVE  RequestsInv
<1>1. peer \in [Connection -> Address]
  <2>1. (CHOOSE a \in Address : TRUE) \in Address
    BY AdmissionAssumption
  <2> QED
    BY <2>1 DEF AdmissionInit
<1>2. granted = [a \in Address |-> << >>] /\ rates = << >> /\ now = 0
  BY DEF AdmissionInit, CredentialsInit
<1>3. DOMAIN rates = {} /\ rates \in [{} -> Seq(Nat)]
  BY <1>2
<1>4. IsTable(rates) /\ Cardinality(DOMAIN rates) <= MaxTracked
  BY <1>3, FS_EmptySet, AdmissionAssumption DEF IsTable
<1>5. \A a \in Address : granted[a] = << >> /\ TimesOf(rates, a) = << >>
  BY <1>2, <1>3 DEF TimesOf
<1>6. \A a \in Address : /\ Aligned(granted[a], TimesOf(rates, a), now)
                         /\ Len(TimesOf(rates, a)) <= MaxRequests
  BY <1>5, EmptyAligned, AdmissionAssumption
<1>7. granted \in [Address -> Seq(Nat)]
  <2>1. << >> \in Seq(Nat)
    OBVIOUS
  <2> QED
    BY <1>2, <2>1
<1> QED
  BY <1>1, <1>2, <1>4, <1>6, <1>7 DEF RequestsInv

LEMMA AskKeepsRequests ==
  ASSUME RequestsInv, NEW c \in Connection, Ask(c)
  PROVE  RequestsInv'
<1> DEFINE a == peer[c]
           kept == TimesOf(Purged(rates), a)
<1>1. a \in Address /\ now' = now /\ peer' = peer
  BY DEF RequestsInv, Ask, connections
<1>2. /\ IsTable(Purged(rates)) /\ DOMAIN Purged(rates) \in SUBSET (DOMAIN rates)
      /\ \A b : TimesOf(Purged(rates), b) = Recent(TimesOf(rates, b), now)
  BY PurgedTable DEF RequestsInv
<1>3. \A b \in Address :
         /\ TimesOf(Purged(rates), b) \in Seq(Nat)
         /\ Aligned(granted[b], TimesOf(Purged(rates), b), now)
         /\ Len(TimesOf(Purged(rates), b)) <= MaxRequests
  <2> SUFFICES ASSUME NEW b \in Address
               PROVE  /\ TimesOf(Purged(rates), b) \in Seq(Nat)
                      /\ Aligned(granted[b], TimesOf(Purged(rates), b), now)
                      /\ Len(TimesOf(Purged(rates), b)) <= MaxRequests
    OBVIOUS
  <2>1. /\ now \in Nat /\ granted[b] \in Seq(Nat)
        /\ Aligned(granted[b], TimesOf(rates, b), now)
        /\ Len(TimesOf(rates, b)) <= MaxRequests
    BY DEF RequestsInv
  <2>2. TimesOf(rates, b) \in Seq(Nat)
    BY TimesAreTimes DEF RequestsInv
  <2>3. Aligned(granted[b], Recent(TimesOf(rates, b), now), now)
    BY <2>1, <2>2, AlignedForgets
  <2>4. /\ Recent(TimesOf(rates, b), now) \in Seq(Nat)
        /\ Len(Recent(TimesOf(rates, b), now)) <= Len(TimesOf(rates, b))
    BY <2>1, <2>2, RecentLength
  <2>5. /\ Len(Recent(TimesOf(rates, b), now)) \in Nat /\ Len(TimesOf(rates, b)) \in Nat
        /\ MaxRequests \in Nat
    BY <2>2, <2>4, AdmissionAssumption
  <2> QED
    BY <1>2, <2>1, <2>3, <2>4, <2>5
<1>4. Cardinality(DOMAIN Purged(rates)) <= MaxTracked
  <2>1. IsFiniteSet(DOMAIN rates) /\ Cardinality(DOMAIN rates) <= MaxTracked
    BY DEF RequestsInv, IsTable
  <2>2. /\ Cardinality(DOMAIN Purged(rates)) <= Cardinality(DOMAIN rates)
        /\ IsFiniteSet(DOMAIN Purged(rates))
    BY <1>2, <2>1, FS_Subset
  <2>3. Cardinality(DOMAIN Purged(rates)) \in Nat /\ Cardinality(DOMAIN rates) \in Nat
    BY <2>1, <2>2, FS_CardinalityType
  <2> QED
    BY <2>1, <2>2, <2>3, AdmissionAssumption
<1>5. CASE RequestAllowed(a)
  <2> DEFINE times == Append(kept, now)
  <2>1. rates' = With(Purged(rates), a, times)
    BY <1>5 DEF Ask
  <2>2. granted' = [granted EXCEPT ![a] = Append(@, now)]
    BY <1>5 DEF Ask
  <2>3. Tracks(Purged(rates), a) /\ Len(kept) < MaxRequests
    BY <1>5 DEF RequestAllowed
  <2>4. now \in Nat /\ kept \in Seq(Nat)
    BY <1>1, <1>3 DEF RequestsInv
  <2>5. times \in Seq(Nat) /\ Len(times) = Len(kept) + 1
    BY <2>4, AppendProperties
  <2>6. /\ IsTable(rates') /\ DOMAIN rates' = DOMAIN Purged(rates) \union {a}
        /\ \A b : TimesOf(rates', b)
                  = IF b = a THEN times ELSE TimesOf(Purged(rates), b)
    <3> DEFINE table == Purged(rates)
    <3>1. IsTable(table) /\ a \in Address /\ times \in Seq(Nat)
      BY <1>1, <1>2, <2>5
    <3>2. rates' = With(table, a, times)
      BY <2>1
    <3> HIDE DEF times, a, table
    <3>3. /\ IsTable(With(table, a, times))
          /\ DOMAIN With(table, a, times) = DOMAIN table \union {a}
          /\ \A b : TimesOf(With(table, a, times), b)
                    = IF b = a THEN times ELSE TimesOf(table, b)
      <4>1. Entered(With(table, a, times), table, a, times)
        BY <3>1, WithTable
      <4> QED
        BY <4>1 DEF Entered
    <3> QED
      BY <3>2, <3>3 DEF table
  <2>7. Cardinality(DOMAIN rates') <= MaxTracked
    <3>1. IsFiniteSet(DOMAIN Purged(rates))
      BY <1>2 DEF IsTable
    <3>2. Cardinality(DOMAIN rates') = IF a \in DOMAIN Purged(rates)
                                       THEN Cardinality(DOMAIN Purged(rates))
                                       ELSE Cardinality(DOMAIN Purged(rates)) + 1
      BY <2>6, <3>1, FS_AddElement
    <3>3. Cardinality(DOMAIN Purged(rates)) \in Nat /\ MaxTracked \in Nat
      BY <3>1, FS_CardinalityType, AdmissionAssumption
    <3> QED
      BY <1>4, <2>3, <3>2, <3>3 DEF Tracks
  <2>8. granted' \in [Address -> Seq(Nat)]
    BY <1>1, <2>2, <2>4 DEF RequestsInv
  <2>9. ASSUME NEW b \in Address
        PROVE  /\ Aligned(granted'[b], TimesOf(rates', b), now)
               /\ Len(TimesOf(rates', b)) <= MaxRequests
    <3>1. CASE b = a
      <4>1. granted'[b] = Append(granted[b], now) /\ TimesOf(rates', b) = times
        BY <2>2, <2>6, <3>1 DEF RequestsInv
      <4>2. Aligned(granted[b], kept, now) /\ granted[b] \in Seq(Nat)
        BY <1>3, <3>1 DEF RequestsInv
      <4>3. Aligned(granted'[b], times, now)
        <5> HIDE DEF kept, a
        <5> QED
          BY <2>4, <4>1, <4>2, AlignedGrows
      <4>4. Len(kept) \in Nat /\ MaxRequests \in Nat
        BY <2>4, AdmissionAssumption
      <4> HIDE DEF times, kept, a
      <4> QED
        BY <2>3, <2>5, <4>1, <4>3, <4>4
    <3>2. CASE b # a
      <4>1. granted'[b] = granted[b] /\ TimesOf(rates', b) = TimesOf(Purged(rates), b)
        BY <2>2, <2>6, <3>2 DEF RequestsInv
      <4> QED
        BY <1>3, <4>1
    <3> QED
      BY <3>1, <3>2
  <2>10. now' \in Nat /\ peer' \in [Connection -> Address]
    BY <1>1 DEF RequestsInv
  <2> HIDE DEF times, kept, a
  <2> QED
    BY <1>1, <2>6, <2>7, <2>8, <2>9, <2>10 DEF RequestsInv
<1>6. CASE ~RequestAllowed(a)
  <2>1. rates' = Purged(rates) /\ granted' = granted
    BY <1>6 DEF Ask
  <2>2. now' \in Nat /\ peer' \in [Connection -> Address] /\ granted' \in [Address -> Seq(Nat)]
    BY <1>1, <2>1 DEF RequestsInv
  <2>3. \A b \in Address : /\ Aligned(granted'[b], TimesOf(rates', b), now')
                           /\ Len(TimesOf(rates', b)) <= MaxRequests
    BY <1>1, <1>3, <2>1
  <2> QED
    BY <1>2, <1>4, <2>1, <2>2, <2>3 DEF RequestsInv
<1> QED
  BY <1>5, <1>6

LEMMA TickKeepsRequests ==
  ASSUME RequestsInv, Tick
  PROVE  RequestsInv'
<1>1. /\ now' = now + 1 /\ rates' = rates /\ peer' = peer
      /\ granted' = [a \in Address |-> Recent(granted[a], now')]
  BY DEF Tick, limiters
<1>2. now' \in Nat /\ now' > now /\ now \in Nat
  BY <1>1 DEF RequestsInv
<1>3. \A a \in Address : Recent(granted[a], now') \in Seq(Nat)
  BY <1>2, RecentLength DEF RequestsInv
<1>4. \A a \in Address : Aligned(granted'[a], TimesOf(rates, a), now')
  <2> SUFFICES ASSUME NEW a \in Address
               PROVE  Aligned(Recent(granted[a], now'), TimesOf(rates, a), now')
    BY <1>1
  <2>1. granted[a] \in Seq(Nat) /\ Aligned(granted[a], TimesOf(rates, a), now)
    BY DEF RequestsInv
  <2>2. TimesOf(rates, a) \in Seq(Nat)
    BY TimesAreTimes DEF RequestsInv
  <2> QED
    BY <1>2, <2>1, <2>2, AlignedAges
<1>5. granted' \in [Address -> Seq(Nat)]
  BY <1>1, <1>3
<1> QED
  BY <1>1, <1>2, <1>4, <1>5 DEF RequestsInv

\* A step that keeps the clock and the table of requests; a new connection has one of
\* the addresses.
LEMMA OthersKeepRequests ==
  ASSUME RequestsInv, UNCHANGED <<now, rates, granted>>,
         peer' = peer \/ \E a \in Address, c \in Connection : peer' = [peer EXCEPT ![c] = a]
  PROVE  RequestsInv'
<1>1. peer' \in [Connection -> Address]
  BY DEF RequestsInv
<1> QED
  BY <1>1 DEF RequestsInv

LEMMA RequestsNext ==
  ASSUME RequestsInv, AdmissionNext
  PROVE  RequestsInv'
<1>1. ASSUME NEW a \in Address, Accept(a) PROVE RequestsInv'
  BY <1>1, OthersKeepRequests DEF Accept, history
<1>2. ASSUME NEW c \in Connection, FailEarly(c) PROVE RequestsInv'
  BY <1>2, OthersKeepRequests DEF FailEarly
<1>3. ASSUME NEW c \in Connection, Upgrade(c) PROVE RequestsInv'
  BY <1>3, OthersKeepRequests DEF Upgrade, limiters, history
<1>4. ASSUME NEW c \in Connection, Hello(c) PROVE RequestsInv'
  BY <1>4, OthersKeepRequests DEF Hello, Answered, limiters, history
<1>5. ASSUME NEW c \in Connection, Leave(c) PROVE RequestsInv'
  BY <1>5, OthersKeepRequests DEF Leave, limiters, history
<1>6. ASSUME NEW c \in Connection, NEW tried, Handshake(c, tried) PROVE RequestsInv'
  BY <1>6, OthersKeepRequests DEF Handshake
<1>7. CASE Rotate
  BY <1>7, OthersKeepRequests DEF Rotate, limiters, history
<1>8. ASSUME NEW c \in Connection, Join(c) PROVE RequestsInv'
  BY <1>8, OthersKeepRequests DEF Join, limiters, history
<1> QED
  BY <1>1, <1>2, <1>3, <1>4, <1>5, <1>6, <1>7, <1>8, AskKeepsRequests, TickKeepsRequests
     DEF AdmissionNext, ConnectionStep

-----------------------------------------------------------------------------
(***************************************************************************)
(* The failures of an address: those of the last window, and the           *)
(* connections of the address that may yet fail, are together no more than *)
(* the limit allows, because no connection is let in at the limit; and so  *)
(* are the addresses in the table together with those that may come in.    *)
(***************************************************************************)

Stages == {"free", "upgrade", "handshake", "hello", "checked", "open"}

\* The connections that may yet record a failure.
Early == {c \in Connection : connection[c] \in {"upgrade", "handshake"}}
EarlyOf(a) == {c \in Early : peer[c] = a}
Peers == {peer[c] : c \in Early}

FailuresLeft ==
    \A a \in Address : Cardinality(InWindow(failed[a])) + Cardinality(EarlyOf(a))
                       <= MaxFailures - 1 + Cardinality(Connection)

TableLeft == Cardinality(DOMAIN failures \union Peers) <= MaxTracked + Cardinality(Connection)

PairingInv ==
    /\ now \in Nat
    /\ connection \in [Connection -> Stages]
    /\ peer \in [Connection -> Address]
    /\ failed \in [Address -> Seq(Nat)]
    /\ IsTable(failures)
    /\ \A a \in Address : Aligned(failed[a], TimesOf(failures, a), now)
    /\ FailuresLeft /\ TableLeft

LEMMA ImageSize ==
  ASSUME NEW S \in SUBSET Connection, NEW g
  PROVE  LET T == {g[c] : c \in S} IN
         IsFiniteSet(T) /\ Cardinality(T) <= Cardinality(Connection)
<1> DEFINE T == {g[c] : c \in S}
           f == [c \in S |-> g[c]]
<1>1. f \in Surjection(S, T)
  BY DEF Surjection
<1>2. /\ IsFiniteSet(S) /\ Cardinality(S) <= Cardinality(Connection)
      /\ Cardinality(Connection) \in Nat
  BY AdmissionAssumption, FS_Subset, FS_CardinalityType
<1>3. IsFiniteSet(T) /\ Cardinality(T) <= Cardinality(S)
  <2> HIDE DEF f, T
  <2> QED
    BY <1>1, <1>2, FS_Surjection
<1>4. Cardinality(S) \in Nat /\ Cardinality(T) \in Nat
  BY <1>2, <1>3, FS_CardinalityType
<1> QED
  BY <1>2, <1>3, <1>4

\* The sizes that these bounds speak of.
LEMMA PairingSizes ==
  ASSUME now \in Nat, failed \in [Address -> Seq(Nat)], IsTable(failures)
  PROVE  /\ \A a \in Address : /\ IsFiniteSet(InWindow(failed[a]))
                               /\ Cardinality(InWindow(failed[a])) \in Nat
         /\ \A a : /\ IsFiniteSet(EarlyOf(a)) /\ Cardinality(EarlyOf(a)) \in Nat
                   /\ Cardinality(EarlyOf(a)) <= Cardinality(Connection)
         /\ IsFiniteSet(Peers) /\ Cardinality(Peers) <= Cardinality(Connection)
         /\ IsFiniteSet(DOMAIN failures \union Peers)
         /\ Cardinality(Connection) \in Nat
<1>1. IsFiniteSet(Connection) /\ Cardinality(Connection) \in Nat
  BY AdmissionAssumption, FS_CardinalityType
<1>2. ASSUME NEW a \in Address
      PROVE  /\ IsFiniteSet(InWindow(failed[a]))
             /\ Cardinality(InWindow(failed[a])) \in Nat
  <2>1. PICK n \in Nat : InWindow(failed[a]) \in SUBSET (1..n)
    <3>1. failed[a] \in Seq(Nat)
      OBVIOUS
    <3>2. InWindow(failed[a]) \in SUBSET (1..Len(failed[a])) /\ Len(failed[a]) \in Nat
      BY <3>1 DEF InWindow
    <3> QED
      BY <3>2
  <2>2. IsFiniteSet(InWindow(failed[a]))
    BY <2>1, IntervalSize, FS_Subset
  <2> QED
    BY <2>2, FS_CardinalityType
<1>3. ASSUME NEW a
      PROVE  /\ IsFiniteSet(EarlyOf(a)) /\ Cardinality(EarlyOf(a)) \in Nat
             /\ Cardinality(EarlyOf(a)) <= Cardinality(Connection)
  <2>1. EarlyOf(a) \in SUBSET Connection
    BY DEF EarlyOf, Early
  <2> QED
    BY <1>1, <2>1, FS_Subset, FS_CardinalityType
<1>4. IsFiniteSet(Peers) /\ Cardinality(Peers) <= Cardinality(Connection)
  <2>1. Early \in SUBSET Connection
    BY DEF Early
  <2> QED
    BY <2>1, ImageSize DEF Peers
<1>5. IsFiniteSet(DOMAIN failures \union Peers)
  BY <1>4, FS_Union DEF IsTable
<1> QED
  BY <1>1, <1>2, <1>3, <1>4, <1>5

LEMMA PairingInit ==
  ASSUME AdmissionInit
  PROVE  PairingInv
<1>1. peer \in [Connection -> Address]
  BY RequestsInit DEF RequestsInv
<1>2. /\ connection = [c \in Connection |-> "free"]
      /\ failed = [a \in Address |-> << >>] /\ failures = << >> /\ now = 0
  BY DEF AdmissionInit, CredentialsInit
<1>3. DOMAIN failures = {} /\ failures \in [{} -> Seq(Nat)]
  BY <1>2
<1>4. IsTable(failures)
  BY <1>3, FS_EmptySet DEF IsTable
<1>5. failed \in [Address -> Seq(Nat)]
  <2>1. << >> \in Seq(Nat)
    OBVIOUS
  <2> QED
    BY <1>2, <2>1
<1>6. \A a \in Address : Aligned(failed[a], TimesOf(failures, a), now)
  <2>1. \A a \in Address : failed[a] = << >> /\ TimesOf(failures, a) = << >>
    BY <1>2, <1>3 DEF TimesOf
  <2> QED
    BY <2>1, EmptyAligned
<1>7. Early = {} /\ Peers = {} /\ \A a : EarlyOf(a) = {}
  BY <1>2 DEF Early, EarlyOf, Peers
<1>8. Cardinality(Connection) \in Nat /\ MaxFailures - 1 \in Nat /\ MaxTracked \in Nat
  BY AdmissionAssumption, FS_CardinalityType
<1>9. FailuresLeft
  <2>1. \A a \in Address : InWindow(failed[a]) = {}
    BY <1>2 DEF InWindow
  <2> QED
    <3>1. Cardinality({}) = 0
      BY FS_EmptySet
    <3>2. 0 + 0 <= MaxFailures - 1 + Cardinality(Connection)
      BY <1>8
    <3> QED
      BY <1>7, <2>1, <3>1, <3>2 DEF FailuresLeft
<1>10. TableLeft
  BY <1>3, <1>7, <1>8, FS_EmptySet DEF TableLeft
<1>11. connection \in [Connection -> Stages] /\ now \in Nat
  BY <1>2 DEF Stages
<1> QED
  BY <1>1, <1>4, <1>5, <1>6, <1>9, <1>10, <1>11 DEF PairingInv

\* A subset of what is counted is no larger.
LEMMA NoLarger ==
  ASSUME NEW T, IsFiniteSet(T), NEW U \in SUBSET T
  PROVE  /\ IsFiniteSet(U) /\ Cardinality(U) \in Nat /\ Cardinality(T) \in Nat
         /\ Cardinality(U) <= Cardinality(T)
BY FS_Subset, FS_CardinalityType

\* A step that keeps the table and makes no connection early.
LEMMA ShrinkKeepsPairing ==
  ASSUME PairingInv, UNCHANGED <<now, failures, failed, peer>>,
         connection' \in [Connection -> Stages], Early' \in SUBSET Early
  PROVE  PairingInv'
<1>1. /\ \A a \in Address : Cardinality(InWindow(failed[a])) \in Nat
      /\ \A a : IsFiniteSet(EarlyOf(a)) /\ IsFiniteSet(DOMAIN failures \union Peers)
      /\ Cardinality(Connection) \in Nat
  BY PairingSizes DEF PairingInv
<1>2. FailuresLeft'
  <2> SUFFICES ASSUME NEW a \in Address
               PROVE  Cardinality(InWindow(failed[a])) + Cardinality(EarlyOf(a)')
                      <= MaxFailures - 1 + Cardinality(Connection)
    BY DEF FailuresLeft, InWindow
  <2>1. EarlyOf(a)' \in SUBSET EarlyOf(a)
    BY DEF EarlyOf
  <2>2. /\ Cardinality(EarlyOf(a)') <= Cardinality(EarlyOf(a))
        /\ Cardinality(EarlyOf(a)') \in Nat /\ Cardinality(EarlyOf(a)) \in Nat
    BY <1>1, <2>1, NoLarger
  <2>3. Cardinality(InWindow(failed[a])) + Cardinality(EarlyOf(a))
        <= MaxFailures - 1 + Cardinality(Connection)
    BY DEF PairingInv, FailuresLeft
  <2> QED
    BY <1>1, <2>2, <2>3, AdmissionAssumption
<1>3. TableLeft'
  <2>1. DOMAIN failures \union Peers' \in SUBSET (DOMAIN failures \union Peers)
    BY DEF Peers
  <2>2. /\ Cardinality(DOMAIN failures \union Peers')
           <= Cardinality(DOMAIN failures \union Peers)
        /\ Cardinality(DOMAIN failures \union Peers') \in Nat
        /\ Cardinality(DOMAIN failures \union Peers) \in Nat
    BY <1>1, <2>1, NoLarger
  <2>3. Cardinality(DOMAIN failures \union Peers) <= MaxTracked + Cardinality(Connection)
    BY DEF PairingInv, TableLeft
  <2> QED
    BY <1>1, <2>2, <2>3, AdmissionAssumption DEF TableLeft
<1> QED
  BY <1>2, <1>3 DEF PairingInv

LEMMA TickKeepsPairing ==
  ASSUME PairingInv, Tick
  PROVE  PairingInv'
<1>1. /\ now' = now + 1 /\ UNCHANGED <<connection, peer, failures>>
      /\ failed' = [a \in Address |-> Recent(failed[a], now')]
  BY DEF Tick, limiters
<1>2. now' \in Nat /\ now' > now /\ now \in Nat
  BY <1>1 DEF PairingInv
<1>3. \A a \in Address : Recent(failed[a], now') \in Seq(Nat)
  BY <1>2, RecentLength DEF PairingInv
<1>4. failed' \in [Address -> Seq(Nat)]
  BY <1>1, <1>3
<1>5. \A a \in Address : Aligned(failed'[a], TimesOf(failures, a), now')
  <2> SUFFICES ASSUME NEW a \in Address
               PROVE  Aligned(Recent(failed[a], now'), TimesOf(failures, a), now')
    BY <1>1
  <2>1. failed[a] \in Seq(Nat) /\ Aligned(failed[a], TimesOf(failures, a), now)
    BY DEF PairingInv
  <2>2. TimesOf(failures, a) \in Seq(Nat)
    BY TimesAreTimes DEF PairingInv
  <2> QED
    BY <1>2, <2>1, <2>2, AlignedAges
<1>6. Early' = Early /\ Peers' = Peers /\ \A a : EarlyOf(a)' = EarlyOf(a)
  BY <1>1 DEF Early, Peers, EarlyOf
<1>7. FailuresLeft'
  <2> SUFFICES ASSUME NEW a \in Address
               PROVE  Cardinality(InWindow(failed[a])') + Cardinality(EarlyOf(a))
                      <= MaxFailures - 1 + Cardinality(Connection)
    BY <1>6 DEF FailuresLeft
  <2>1. Cardinality(InWindow(failed[a])') <= Cardinality(InWindow(failed[a]))
    <3> DEFINE h == failed[a]
    <3>1. h \in Seq(Nat)
      BY DEF PairingInv
    <3>2. PICK k \in 0..Len(h) : Recent(h, now') = SubSeq(h, k + 1, Len(h))
      BY <1>2, <3>1, RecentDropsOld
    <3>3. PICK n \in Nat : n = Len(h) /\ \A i \in 1..n : h[i] \in Nat
      BY <3>1
    <3> DEFINE left == SubSeq(h, k + 1, n)
    <3>4. Len(left) = n - k /\ \A i \in 1..n - k : left[i] = h[k + i]
      <4>1. \A i \in k + 1..n : h[i] \in Nat
        BY <3>2, <3>3
      <4>2. /\ Len(left) = IF k + 1 <= n THEN n - (k + 1) + 1 ELSE 0
            /\ \A i \in 1..n - (k + 1) + 1 : left[i] = h[k + 1 + i - 1]
        <5> HIDE DEF h
        <5> QED
          BY <3>2, <3>3, <4>1, SubSeqProperties
      <4> HIDE DEF left
      <4> QED
        BY <3>2, <3>3, <4>2
    <3>5. left \in Seq(Nat) /\ failed'[a] = left
      BY <1>1, <1>3, <3>2, <3>3
    <3> DEFINE now2 == {i \in 1..n : now' - h[i] < Window}
    <3>6. now2 \in SUBSET InWindow(h)
      <4>1. DOMAIN h = 1..n
        BY <3>1, <3>3
      <4> QED
        BY <1>1, <1>2, <3>3, <4>1, AdmissionAssumption DEF InWindow
    <3>7. IsFiniteSet(InWindow(h))
      BY PairingSizes DEF PairingInv
    <3>8. InWindow(failed[a])' = {i \in 1..n - k : now' - left[i] < Window}
      <4>1. DOMAIN left = 1..n - k
        <5> HIDE DEF left
        <5> QED
          BY <3>4, <3>5
      <4> HIDE DEF left
      <4> QED
        BY <3>5, <4>1 DEF InWindow
    <3> DEFINE f == [i \in InWindow(failed[a])' |-> k + i]
    <3>9. f \in Injection(InWindow(failed[a])', InWindow(h))
      <4> HIDE DEF left
      <4>1. \A i \in InWindow(failed[a])' : k + i \in now2 /\ i \in Nat
        BY <3>2, <3>3, <3>4, <3>8
      <4> HIDE DEF now2, h
      <4>2. f \in [InWindow(failed[a])' -> InWindow(h)]
        BY <3>6, <4>1
      <4>3. \A i, j \in InWindow(failed[a])' : f[i] = f[j] => i = j
        BY <3>2, <4>1
      <4> HIDE DEF f
      <4> QED
        BY <4>2, <4>3 DEF Injection, IsInjective
    <3> HIDE DEF f, h
    <3> QED
      BY <3>7, <3>9, FS_Injection DEF h
  <2>2. failed'[a] \in Seq(Nat)
    BY <1>4
  <2>3. Cardinality(InWindow(failed[a])') \in Nat
    <3>1. IsFiniteSet(InWindow(failed[a])')
      <4>1. PICK n \in Nat : n = Len(failed'[a])
        BY <2>2
      <4>2. InWindow(failed[a])' \in SUBSET (1..n)
        BY <2>2, <4>1 DEF InWindow
      <4>3. IsFiniteSet(1..n)
        BY <4>1, IntervalSize
      <4> QED
        BY <4>2, <4>3, FS_Subset
    <3> QED
      BY <3>1, FS_CardinalityType
  <2>4. /\ Cardinality(InWindow(failed[a])) \in Nat /\ Cardinality(EarlyOf(a)) \in Nat
        /\ Cardinality(Connection) \in Nat
    BY PairingSizes DEF PairingInv
  <2>5. Cardinality(InWindow(failed[a])) + Cardinality(EarlyOf(a))
        <= MaxFailures - 1 + Cardinality(Connection)
    BY DEF PairingInv, FailuresLeft
  <2> QED
    BY <2>1, <2>3, <2>4, <2>5, AdmissionAssumption
<1>8. TableLeft'
  BY <1>1, <1>6 DEF PairingInv, TableLeft
<1> QED
  BY <1>1, <1>2, <1>4, <1>5, <1>7, <1>8 DEF PairingInv

\* A failure: the connection that records it can record no other.
LEMMA FailureKeepsPairing ==
  ASSUME PairingInv, NEW c \in Early, RecordFailure(peer[c]), Closed(c),
         UNCHANGED <<now, peer>>
  PROVE  PairingInv'
<1> DEFINE a == peer[c]
<1>1. /\ a \in Address /\ c \in Connection /\ now \in Nat
      /\ failures' = With(failures, a, Append(TimesOf(failures, a), now))
      /\ failed' = [failed EXCEPT ![a] = Append(@, now)]
      /\ connection' = [connection EXCEPT ![c] = "free"]
  BY DEF PairingInv, Early, RecordFailure, Closed
<1>2. connection' \in [Connection -> Stages]
  BY <1>1 DEF PairingInv, Stages
<1>3. Early' = Early \ {c}
  BY <1>1 DEF PairingInv, Early
<1>4. TimesOf(failures, a) \in Seq(Nat) /\ failed[a] \in Seq(Nat)
  BY <1>1, TimesAreTimes DEF PairingInv
<1> DEFINE times == Append(TimesOf(failures, a), now)
<1>5. times \in Seq(Nat)
  BY <1>1, <1>4, AppendProperties
<1>6. /\ IsTable(failures') /\ DOMAIN failures' = DOMAIN failures \union {a}
      /\ \A b : TimesOf(failures', b) = IF b = a THEN times ELSE TimesOf(failures, b)
  <2>1. failures' = With(failures, a, times)
    BY <1>1
  <2>0. IsTable(failures) /\ a \in Address /\ times \in Seq(Nat)
    BY <1>1, <1>5 DEF PairingInv
  <2> HIDE DEF times, a
  <2>2. /\ IsTable(With(failures, a, times))
        /\ DOMAIN With(failures, a, times) = DOMAIN failures \union {a}
        /\ \A b : TimesOf(With(failures, a, times), b)
                  = IF b = a THEN times ELSE TimesOf(failures, b)
    <3>1. Entered(With(failures, a, times), failures, a, times)
      BY <2>0, WithTable
    <3> QED
      BY <3>1 DEF Entered
  <2> QED
    BY <2>1, <2>2
<1>7. /\ failed' \in [Address -> Seq(Nat)] /\ failed'[a] = Append(failed[a], now)
      /\ \A b \in Address : b # a => failed'[b] = failed[b]
  <2>1. Append(failed[a], now) \in Seq(Nat)
    BY <1>1, <1>4, AppendProperties
  <2> HIDE DEF a
  <2> QED
    BY <1>1, <2>1 DEF PairingInv
<1>8. ASSUME NEW b \in Address PROVE Aligned(failed'[b], TimesOf(failures', b), now')
  <2>1. Aligned(failed[b], TimesOf(failures, b), now)
    BY DEF PairingInv
  <2>2. CASE b = a
    <3>1. failed[a] \in Seq(Nat) /\ TimesOf(failures, a) \in Seq(Nat) /\ now \in Nat
      BY <1>1, <1>4
    <3>2. failed'[b] = Append(failed[a], now) /\ now' = now
      BY <1>1, <1>7, <2>2
    <3>3. TimesOf(failures', b) = Append(TimesOf(failures, a), now)
      BY <1>6, <2>2
    <3>4. Aligned(failed[a], TimesOf(failures, a), now)
      BY <2>1, <2>2
    <3> HIDE DEF a
    <3>5. Aligned(Append(failed[a], now), Append(TimesOf(failures, a), now), now)
      BY <3>1, <3>4, AlignedGrows
    <3> QED
      BY <3>2, <3>3, <3>5
  <2>3. CASE b # a
    BY <1>6, <1>7, <2>1, <2>3
  <2> QED
    BY <2>2, <2>3
<1>9. FailuresLeft'
  <2> SUFFICES ASSUME NEW b \in Address
               PROVE  Cardinality(InWindow(failed[b])') + Cardinality(EarlyOf(b)')
                      <= MaxFailures - 1 + Cardinality(Connection)
    BY DEF FailuresLeft
  <2>1. /\ IsFiniteSet(InWindow(failed[b])) /\ Cardinality(InWindow(failed[b])) \in Nat
        /\ IsFiniteSet(EarlyOf(b)) /\ Cardinality(EarlyOf(b)) \in Nat
        /\ Cardinality(Connection) \in Nat
    BY PairingSizes DEF PairingInv
  <2>2. Cardinality(InWindow(failed[b])) + Cardinality(EarlyOf(b))
        <= MaxFailures - 1 + Cardinality(Connection)
    BY DEF PairingInv, FailuresLeft
  <2>3. EarlyOf(b)' = EarlyOf(b) \ {c}
    BY <1>3 DEF EarlyOf
  <2>4. CASE b = a
    <3>1. InWindow(failed[b])' \in SUBSET (InWindow(failed[b]) \union {Len(failed[b]) + 1})
      <4> DEFINE h == failed[b]
      <4>1. h \in Seq(Nat) /\ failed'[b] = Append(h, now)
        BY <1>4, <1>7, <2>4
      <4>2. PICK n \in Nat : n = Len(h) /\ DOMAIN h = 1..n
        <5>1. h \in Seq(Nat)
          BY <4>1
        <5> HIDE DEF h, a
        <5>2. Len(h) \in Nat /\ DOMAIN h = 1..Len(h)
          BY <5>1
        <5> QED
          BY <5>2
      <4>3. /\ Len(Append(h, now)) = n + 1 /\ DOMAIN Append(h, now) = 1..n + 1
            /\ \A i \in 1..n : Append(h, now)[i] = h[i]
        BY <1>1, <4>1, <4>2, AppendProperties
      <4> HIDE DEF h
      <4>4. InWindow(failed[b])' \in SUBSET (InWindow(h) \union {n + 1})
        BY <4>1, <4>2, <4>3 DEF InWindow
      <4> QED
        BY <4>2, <4>4 DEF h
    <3>2. /\ IsFiniteSet(InWindow(failed[b]) \union {Len(failed[b]) + 1})
          /\ Cardinality(InWindow(failed[b]) \union {Len(failed[b]) + 1})
             <= Cardinality(InWindow(failed[b])) + 1
      <4> DEFINE T == InWindow(failed[b])
                 x == Len(failed[b]) + 1
      <4>1. IsFiniteSet(T) /\ Cardinality(T) \in Nat
        BY <2>1
      <4> HIDE DEF T, x
      <4>2. /\ IsFiniteSet(T \union {x})
            /\ Cardinality(T \union {x})
               = IF x \in T THEN Cardinality(T) ELSE Cardinality(T) + 1
        BY <4>1, FS_AddElement
      <4>3. Cardinality(T \union {x}) <= Cardinality(T) + 1
        BY <4>1, <4>2
      <4> QED
        BY <4>2, <4>3 DEF T, x
    <3>3. Cardinality(InWindow(failed[b])') <= Cardinality(InWindow(failed[b])) + 1
          /\ Cardinality(InWindow(failed[b])') \in Nat
      BY <2>1, <3>1, <3>2, NoLarger
    <3>4. c \in EarlyOf(b)
      BY <2>4 DEF EarlyOf
    <3>5. Cardinality(EarlyOf(b)') = Cardinality(EarlyOf(b)) - 1
      BY <2>1, <2>3, <3>4, FS_RemoveElement
    <3> QED
      BY <2>1, <2>2, <3>3, <3>5, AdmissionAssumption
  <2>5. CASE b # a
    <3>1. InWindow(failed[b])' = InWindow(failed[b])
      BY <1>7, <2>5 DEF InWindow
    <3>2. /\ Cardinality(EarlyOf(b)') <= Cardinality(EarlyOf(b))
          /\ Cardinality(EarlyOf(b)') \in Nat
      BY <2>1, <2>3, NoLarger
    <3> QED
      BY <2>1, <2>2, <3>1, <3>2, AdmissionAssumption
  <2> QED
    BY <2>4, <2>5
<1>10. TableLeft'
  <2>1. DOMAIN failures' \union Peers' \in SUBSET (DOMAIN failures \union Peers)
    BY <1>3, <1>6 DEF Peers
  <2>2. /\ IsFiniteSet(DOMAIN failures \union Peers) /\ Cardinality(Connection) \in Nat
        /\ Cardinality(DOMAIN failures \union Peers) <= MaxTracked + Cardinality(Connection)
    BY PairingSizes DEF PairingInv, TableLeft
  <2>3. /\ Cardinality(DOMAIN failures' \union Peers')
           <= Cardinality(DOMAIN failures \union Peers)
        /\ Cardinality(DOMAIN failures' \union Peers') \in Nat
        /\ Cardinality(DOMAIN failures \union Peers) \in Nat
    BY <2>1, <2>2, NoLarger
  <2> QED
    BY <2>2, <2>3, AdmissionAssumption DEF TableLeft
<1>11. now' \in Nat /\ peer' \in [Connection -> Address]
  BY DEF PairingInv
<1> QED
  BY <1>2, <1>6, <1>7, <1>8, <1>9, <1>10, <1>11 DEF PairingInv

\* A success: the address begins anew.
LEMMA SuccessKeepsPairing ==
  ASSUME PairingInv, NEW c \in Early, RecordSuccess(peer[c]), Reaches(c, "hello"),
         UNCHANGED <<now, peer>>
  PROVE  PairingInv'
<1> DEFINE a == peer[c]
<1>1. /\ a \in Address /\ c \in Connection /\ now \in Nat
      /\ failures' = [b \in DOMAIN failures \ {a} |-> failures[b]]
      /\ failed' = [failed EXCEPT ![a] = << >>]
      /\ connection' = [connection EXCEPT ![c] = "hello"]
  BY DEF PairingInv, Early, RecordSuccess, Reaches
<1>2. connection' \in [Connection -> Stages]
  BY <1>1 DEF PairingInv, Stages
<1>3. Early' = Early \ {c}
  BY <1>1 DEF PairingInv, Early
<1>4. /\ IsTable(failures') /\ DOMAIN failures' = DOMAIN failures \ {a}
      /\ \A b : TimesOf(failures', b) = IF b = a THEN << >> ELSE TimesOf(failures, b)
  <2>1. IsTable(failures)
    BY DEF PairingInv
  <2> HIDE DEF a
  <2>2. DOMAIN failures' = DOMAIN failures \ {a}
    BY <1>1
  <2>3. IsFiniteSet(DOMAIN failures')
    BY <2>1, <2>2, FS_Subset DEF IsTable
  <2>4. IsTable(failures')
    BY <1>1, <2>1, <2>2, <2>3 DEF IsTable
  <2> QED
    BY <1>1, <2>2, <2>4 DEF TimesOf
<1>5. /\ failed' \in [Address -> Seq(Nat)] /\ failed'[a] = << >>
      /\ \A b \in Address : b # a => failed'[b] = failed[b]
  <2>1. << >> \in Seq(Nat)
    OBVIOUS
  <2> HIDE DEF a
  <2> QED
    BY <1>1, <2>1 DEF PairingInv
<1>6. ASSUME NEW b \in Address PROVE Aligned(failed'[b], TimesOf(failures', b), now')
  <2>1. Aligned(failed[b], TimesOf(failures, b), now)
    BY DEF PairingInv
  <2>2. CASE b = a
    BY <1>4, <1>5, <2>2, EmptyAligned
  <2>3. CASE b # a
    BY <1>4, <1>5, <2>1, <2>3
  <2> QED
    BY <2>2, <2>3
<1>7. FailuresLeft'
  <2> SUFFICES ASSUME NEW b \in Address
               PROVE  Cardinality(InWindow(failed[b])') + Cardinality(EarlyOf(b)')
                      <= MaxFailures - 1 + Cardinality(Connection)
    BY DEF FailuresLeft
  <2>1. /\ Cardinality(InWindow(failed[b])) \in Nat
        /\ IsFiniteSet(EarlyOf(b)) /\ Cardinality(EarlyOf(b)) \in Nat
        /\ Cardinality(EarlyOf(b)) <= Cardinality(Connection)
        /\ Cardinality(Connection) \in Nat
    BY PairingSizes DEF PairingInv
  <2>2. Cardinality(InWindow(failed[b])) + Cardinality(EarlyOf(b))
        <= MaxFailures - 1 + Cardinality(Connection)
    BY DEF PairingInv, FailuresLeft
  <2>3. EarlyOf(b)' = EarlyOf(b) \ {c}
    BY <1>3 DEF EarlyOf
  <2>4. /\ Cardinality(EarlyOf(b)') <= Cardinality(EarlyOf(b))
        /\ Cardinality(EarlyOf(b)') \in Nat
    BY <2>1, <2>3, NoLarger
  <2>5. Cardinality(InWindow(failed[b])') = 0
        \/ Cardinality(InWindow(failed[b])') = Cardinality(InWindow(failed[b]))
    <3>1. CASE b = a
      <4>1. InWindow(failed[b])' = {}
        BY <1>5, <3>1 DEF InWindow
      <4> QED
        BY <4>1, FS_EmptySet
    <3>2. CASE b # a
      BY <1>5, <3>2 DEF InWindow
    <3> QED
      BY <3>1, <3>2
  <2>6. MaxFailures - 1 \in Nat
    BY AdmissionAssumption
  <2> QED
    BY <2>1, <2>2, <2>4, <2>5, <2>6
<1>8. TableLeft'
  <2>1. DOMAIN failures' \union Peers' \in SUBSET (DOMAIN failures \union Peers)
    BY <1>3, <1>4 DEF Peers
  <2>2. /\ IsFiniteSet(DOMAIN failures \union Peers) /\ Cardinality(Connection) \in Nat
        /\ Cardinality(DOMAIN failures \union Peers) <= MaxTracked + Cardinality(Connection)
    BY PairingSizes DEF PairingInv, TableLeft
  <2>3. /\ Cardinality(DOMAIN failures' \union Peers')
           <= Cardinality(DOMAIN failures \union Peers)
        /\ Cardinality(DOMAIN failures' \union Peers') \in Nat
        /\ Cardinality(DOMAIN failures \union Peers) \in Nat
    BY <2>1, <2>2, NoLarger
  <2> QED
    BY <2>2, <2>3, AdmissionAssumption DEF TableLeft
<1>9. now' \in Nat /\ peer' \in [Connection -> Address]
  BY DEF PairingInv
<1> QED
  BY <1>2, <1>4, <1>5, <1>6, <1>7, <1>8, <1>9 DEF PairingInv

\* What the answer of the limiter does to its table.
LEMMA AllowTable ==
  ASSUME PairingInv, NEW a \in Address
  PROVE  LET table == AfterPairingAllow(a) IN
         /\ IsTable(table)
         /\ \A b \in Address : Aligned(failed[b], TimesOf(table, b), now)
         /\ PairingAllowed(a) => Cardinality(InWindow(failed[a])) <= MaxFailures - 1
         /\ \/ DOMAIN table \in SUBSET (DOMAIN failures) /\ (PairingAllowed(a) => a \in DOMAIN table)
            \/ a \in DOMAIN table /\ Cardinality(DOMAIN table) <= MaxTracked
<1> DEFINE left == Purged(failures)
           kept == TimesOf(left, a)
           table == AfterPairingAllow(a)
<1>1. /\ IsTable(left) /\ DOMAIN left \in SUBSET (DOMAIN failures)
      /\ \A b : TimesOf(left, b) = Recent(TimesOf(failures, b), now)
  BY PurgedTable DEF PairingInv
<1>2. \A b \in Address : Aligned(failed[b], TimesOf(left, b), now)
  <2> SUFFICES ASSUME NEW b \in Address
               PROVE  Aligned(failed[b], Recent(TimesOf(failures, b), now), now)
    BY <1>1
  <2>1. now \in Nat /\ failed[b] \in Seq(Nat) /\ Aligned(failed[b], TimesOf(failures, b), now)
    BY DEF PairingInv
  <2>2. TimesOf(failures, b) \in Seq(Nat)
    BY TimesAreTimes DEF PairingInv
  <2> QED
    BY <2>1, <2>2, AlignedForgets
<1>3. kept \in Seq(Nat)
  BY <1>1, TimesAreTimes
<1>4. CASE Tracks(left, a)
  <2>1. table = With(left, a, kept)
    BY <1>4 DEF AfterPairingAllow
  <2>2. IsTable(left) /\ kept \in Seq(Nat)
    BY <1>1, <1>3
  <2>3. /\ IsTable(With(left, a, kept))
        /\ DOMAIN With(left, a, kept) = DOMAIN left \union {a}
        /\ \A b : TimesOf(With(left, a, kept), b)
                  = IF b = a THEN kept ELSE TimesOf(left, b)
    <3> HIDE DEF left, kept
    <3>1. Entered(With(left, a, kept), left, a, kept)
      BY <2>2, WithTable
    <3> QED
      BY <3>1 DEF Entered
  <2>4. IsTable(table) /\ \A b \in Address : Aligned(failed[b], TimesOf(table, b), now)
    <3> HIDE DEF table, left
    <3> QED
      BY <1>2, <2>1, <2>3
  <2>5. PairingAllowed(a) => Cardinality(InWindow(failed[a])) <= MaxFailures - 1
    <3> SUFFICES ASSUME PairingAllowed(a)
                 PROVE  Cardinality(InWindow(failed[a])) <= MaxFailures - 1
      OBVIOUS
    <3>1. Len(kept) < MaxFailures
      BY DEF PairingAllowed
    <3>2. now \in Nat /\ failed[a] \in Seq(Nat) /\ Aligned(failed[a], kept, now)
      BY <1>2 DEF PairingInv
    <3>3. Cardinality(InWindow(failed[a])) <= Len(kept)
      <4> HIDE DEF kept
      <4> QED
        BY <1>3, <3>2, AlignedCounts
    <3>4. Cardinality(InWindow(failed[a])) \in Nat
      BY PairingSizes DEF PairingInv
    <3>5. Len(kept) \in Nat /\ MaxFailures \in Nat
      BY <1>3, AdmissionAssumption
    <3> HIDE DEF kept
    <3> QED
      BY <3>1, <3>3, <3>4, <3>5
  <2>6. \/ DOMAIN table \in SUBSET (DOMAIN failures) /\ (PairingAllowed(a) => a \in DOMAIN table)
        \/ a \in DOMAIN table /\ Cardinality(DOMAIN table) <= MaxTracked
    <3>1. DOMAIN table = DOMAIN left \union {a}
      BY <2>1, <2>3
    <3>2. CASE a \in DOMAIN left
      <4> HIDE DEF table, left
      <4> QED
        BY <1>1, <3>1, <3>2
    <3>3. CASE a \notin DOMAIN left
      <4>1. Cardinality(DOMAIN left) < MaxTracked
        BY <1>4, <3>3 DEF Tracks
      <4>2. IsFiniteSet(DOMAIN left)
        BY <1>1 DEF IsTable
      <4> DEFINE D == DOMAIN left
      <4>3. Cardinality(D \union {a}) = Cardinality(D) + 1 /\ Cardinality(D) \in Nat
        <5>1. IsFiniteSet(D) /\ a \notin D
          BY <3>3, <4>2
        <5> HIDE DEF D
        <5> QED
          BY <5>1, FS_AddElement, FS_CardinalityType
      <4>4. MaxTracked \in Nat
        BY AdmissionAssumption
      <4> HIDE DEF table, left
      <4> QED
        BY <3>1, <4>1, <4>3, <4>4
    <3> QED
      BY <3>2, <3>3
  <2> HIDE DEF table
  <2> QED
    BY <2>4, <2>5, <2>6 DEF table
<1>5. CASE ~Tracks(left, a)
  <2>1. table = left /\ ~PairingAllowed(a)
    BY <1>5 DEF AfterPairingAllow, PairingAllowed
  <2> HIDE DEF left, table
  <2> QED
    BY <1>1, <1>2, <2>1 DEF table
<1> QED
  BY <1>4, <1>5

LEMMA AcceptKeepsPairing ==
  ASSUME PairingInv, NEW a \in Address, Accept(a)
  PROVE  PairingInv'
<1>1. /\ now' = now /\ failed' = failed /\ failures' = AfterPairingAllow(a)
  BY DEF Accept, history
<1>2. /\ IsTable(failures')
      /\ \A b \in Address : Aligned(failed[b], TimesOf(failures', b), now)
      /\ PairingAllowed(a) => Cardinality(InWindow(failed[a])) <= MaxFailures - 1
      /\ \/ DOMAIN failures' \in SUBSET (DOMAIN failures)
            /\ (PairingAllowed(a) => a \in DOMAIN failures')
         \/ a \in DOMAIN failures' /\ Cardinality(DOMAIN failures') <= MaxTracked
  <2> DEFINE table == AfterPairingAllow(a)
  <2>1. /\ IsTable(table)
        /\ \A b \in Address : Aligned(failed[b], TimesOf(table, b), now)
        /\ PairingAllowed(a) => Cardinality(InWindow(failed[a])) <= MaxFailures - 1
        /\ \/ DOMAIN table \in SUBSET (DOMAIN failures) /\ (PairingAllowed(a) => a \in DOMAIN table)
           \/ a \in DOMAIN table /\ Cardinality(DOMAIN table) <= MaxTracked
    BY AllowTable
  <2> HIDE DEF table
  <2> QED
    BY <1>1, <2>1 DEF table
<1>3. \/ connection' = connection /\ peer' = peer
      \/ /\ PairingAllowed(a)
         /\ \E c \in Connection : /\ connection[c] = "free"
                                  /\ connection' = [connection EXCEPT ![c] = "upgrade"]
                                  /\ peer' = [peer EXCEPT ![c] = a]
  BY DEF Accept, Reaches
<1>4. connection' \in [Connection -> Stages] /\ peer' \in [Connection -> Address]
  BY <1>3 DEF PairingInv, Stages
\* Only the address itself gains a connection, and only when it is let in.
<1>5. \A b : b # a => EarlyOf(b)' \in SUBSET EarlyOf(b)
  BY <1>3 DEF PairingInv, Early, EarlyOf
<1>6. ~PairingAllowed(a) => Early' = Early /\ peer' = peer
  BY <1>3 DEF Early
<1>7. Peers' \in SUBSET (Peers \union {a}) /\ (~PairingAllowed(a) => Peers' = Peers)
  BY <1>3 DEF PairingInv, Early, Peers
<1>8. /\ \A b \in Address : /\ IsFiniteSet(InWindow(failed[b]))
                            /\ Cardinality(InWindow(failed[b])) \in Nat
                            /\ IsFiniteSet(EarlyOf(b)) /\ Cardinality(EarlyOf(b)) \in Nat
      /\ Cardinality(Connection) \in Nat /\ IsFiniteSet(DOMAIN failures \union Peers)
      /\ Cardinality(DOMAIN failures \union Peers) <= MaxTracked + Cardinality(Connection)
  BY PairingSizes DEF PairingInv, TableLeft
<1>9. /\ \A b : Cardinality(EarlyOf(b)') \in Nat /\ Cardinality(EarlyOf(b)') <= Cardinality(Connection)
      /\ IsFiniteSet(Peers') /\ Cardinality(Peers') <= Cardinality(Connection)
  <2>1. Early' \in SUBSET Connection
    BY DEF Early
  <2>2. \A b : EarlyOf(b)' \in SUBSET Connection
    BY <2>1 DEF EarlyOf
  <2>3. Peers' = {peer'[c] : c \in Early'}
    BY DEF Peers
  <2>4. IsFiniteSet(Connection)
    BY AdmissionAssumption
  <2> QED
    BY <2>1, <2>2, <2>3, <2>4, NoLarger, ImageSize
<1>10. FailuresLeft'
  <2> SUFFICES ASSUME NEW b \in Address
               PROVE  Cardinality(InWindow(failed[b])) + Cardinality(EarlyOf(b)')
                      <= MaxFailures - 1 + Cardinality(Connection)
    BY <1>1 DEF FailuresLeft, InWindow
  <2>1. Cardinality(InWindow(failed[b])) + Cardinality(EarlyOf(b))
        <= MaxFailures - 1 + Cardinality(Connection)
    BY DEF PairingInv, FailuresLeft
  <2>2. MaxFailures - 1 \in Nat
    BY AdmissionAssumption
  <2>3. CASE b = a /\ PairingAllowed(a)
    <3>1. Cardinality(InWindow(failed[b])) <= MaxFailures - 1
      BY <1>2, <2>3
    <3> QED
      BY <1>8, <1>9, <2>2, <3>1
  <2>4. CASE b # a \/ ~PairingAllowed(a)
    <3>1. EarlyOf(b)' \in SUBSET EarlyOf(b)
      BY <1>5, <1>6, <2>4 DEF EarlyOf
    <3>2. Cardinality(EarlyOf(b)') <= Cardinality(EarlyOf(b))
      BY <1>8, <3>1, NoLarger
    <3> QED
      BY <1>8, <1>9, <2>1, <2>2, <3>2
  <2> QED
    BY <2>3, <2>4
<1>11. TableLeft'
  <2>1. CASE /\ DOMAIN failures' \in SUBSET (DOMAIN failures)
             /\ PairingAllowed(a) => a \in DOMAIN failures'
    <3>1. DOMAIN failures' \union Peers' \in SUBSET (DOMAIN failures \union Peers)
      BY <1>7, <2>1
    <3>2. /\ Cardinality(DOMAIN failures' \union Peers')
             <= Cardinality(DOMAIN failures \union Peers)
          /\ Cardinality(DOMAIN failures' \union Peers') \in Nat
          /\ Cardinality(DOMAIN failures \union Peers) \in Nat
      BY <1>8, <3>1, NoLarger
    <3> QED
      BY <1>8, <3>2, AdmissionAssumption DEF TableLeft
  <2>2. CASE Cardinality(DOMAIN failures') <= MaxTracked
    <3> DEFINE D == DOMAIN failures'
               P == Peers'
    <3>1. IsFiniteSet(D) /\ IsFiniteSet(P)
      BY <1>2, <1>9 DEF IsTable
    <3> HIDE DEF D, P
    <3>2. /\ Cardinality(D) \in Nat /\ Cardinality(P) \in Nat
          /\ Cardinality(D \intersect P) \in Nat
      BY <3>1, FS_CardinalityType, FS_Intersection
    <3>3. Cardinality(D \union P) = Cardinality(D) + Cardinality(P) - Cardinality(D \intersect P)
      BY <3>1, FS_Union
    <3>4. Cardinality(D \union P) <= Cardinality(D) + Cardinality(P)
      BY <3>2, <3>3
    <3>5. Cardinality(D) <= MaxTracked /\ Cardinality(P) <= Cardinality(Connection)
      BY <1>9, <2>2 DEF D, P
    <3>6. Cardinality(D \union P) <= MaxTracked + Cardinality(Connection)
      <4>1. Cardinality(D \union P) \in Int
        BY <3>2, <3>3
      <4>2. MaxTracked \in Nat
        BY AdmissionAssumption
      <4> QED
        BY <1>8, <3>2, <3>4, <3>5, <4>1, <4>2
    <3> QED
      BY <3>6 DEF TableLeft, D, P
  <2> QED
    BY <1>2, <2>1, <2>2
<1>12. now' \in Nat /\ failed' \in [Address -> Seq(Nat)]
       /\ \A b \in Address : Aligned(failed'[b], TimesOf(failures', b), now')
  BY <1>1, <1>2 DEF PairingInv
<1> QED
  BY <1>2, <1>4, <1>10, <1>11, <1>12 DEF PairingInv

LEMMA PairingNext ==
  ASSUME PairingInv, AdmissionNext
  PROVE  PairingInv'
<1>1. ASSUME NEW c \in Connection, FailEarly(c) PROVE PairingInv'
  BY <1>1, FailureKeepsPairing DEF FailEarly, Early
<1>2. ASSUME NEW c \in Connection, Upgrade(c) PROVE PairingInv'
  <2>1. /\ UNCHANGED <<now, failures, failed, peer>>
        /\ connection' = [connection EXCEPT ![c] = "handshake"] /\ connection[c] = "upgrade"
    BY <1>2 DEF Upgrade, Reaches, limiters, history
  <2>2. connection' \in [Connection -> Stages] /\ Early' \in SUBSET Early
    BY <2>1 DEF PairingInv, Stages, Early
  <2> QED
    BY <2>1, <2>2, ShrinkKeepsPairing
<1>3. ASSUME NEW c \in Connection, NEW stage \in {"free", "checked", "open"},
             UNCHANGED <<now, failures, failed, peer>>,
             connection' = [connection EXCEPT ![c] = stage]
      PROVE  PairingInv'
  <2>1. connection' \in [Connection -> Stages] /\ Early' \in SUBSET Early
    BY <1>3 DEF PairingInv, Stages, Early
  <2> QED
    BY <1>3, <2>1, ShrinkKeepsPairing
<1>4. ASSUME NEW c \in Connection, Hello(c) PROVE PairingInv'
  BY <1>3, <1>4 DEF Hello, Answered, Reaches, Closed, limiters, history
<1>5. ASSUME NEW c \in Connection, Leave(c) PROVE PairingInv'
  BY <1>3, <1>5 DEF Leave, Closed, limiters, history
<1>6. ASSUME UNCHANGED <<now, failures, failed, peer, connection>> PROVE PairingInv'
  <2>1. connection' \in [Connection -> Stages] /\ Early' \in SUBSET Early
    BY <1>6 DEF PairingInv, Early
  <2> QED
    BY <1>6, <2>1, ShrinkKeepsPairing
<1>7. ASSUME NEW c \in Connection, Ask(c) PROVE PairingInv'
  BY <1>6, <1>7 DEF Ask, connections
<1>8. CASE Rotate
  BY <1>6, <1>8 DEF Rotate, limiters, history
<1>9. ASSUME NEW c \in Connection, NEW tried, Handshake(c, tried) PROVE PairingInv'
  <2>1. c \in Early /\ UNCHANGED <<now, peer>>
    BY <1>9 DEF Handshake, Early
  <2>2. CASE Expired
    BY <1>3, <1>9, <2>2 DEF Handshake, Closed
  <2>3. CASE ~Expired /\ tried # code
    BY <1>9, <2>1, <2>3, FailureKeepsPairing DEF Handshake
  <2>4. CASE ~Expired /\ tried = code
    BY <1>9, <2>1, <2>4, SuccessKeepsPairing DEF Handshake
  <2> QED
    BY <2>2, <2>3, <2>4
<1>10. ASSUME NEW c \in Connection, Join(c) PROVE PairingInv'
  BY <1>3, <1>10 DEF Join, Reaches, limiters, history
<1> QED
  BY <1>1, <1>2, <1>4, <1>5, <1>7, <1>8, <1>9, <1>10, AcceptKeepsPairing, TickKeepsPairing
     DEF AdmissionNext, ConnectionStep

\* So the limits hold.
LEMMA InvHoldsLimits ==
  ASSUME RequestsInv, PairingInv
  PROVE  LimitsHold
<1>1. ASSUME NEW a \in Address
      PROVE  /\ Cardinality(InWindow(granted[a])) <= MaxRequests
             /\ Cardinality(InWindow(failed[a])) <= MaxFailures - 1 + Cardinality(Connection)
  <2>1. /\ now \in Nat /\ granted[a] \in Seq(Nat)
        /\ Aligned(granted[a], TimesOf(rates, a), now)
        /\ Len(TimesOf(rates, a)) <= MaxRequests
    BY DEF RequestsInv
  <2>2. TimesOf(rates, a) \in Seq(Nat)
    BY TimesAreTimes DEF RequestsInv
  <2>3. /\ IsFiniteSet(InWindow(granted[a]))
        /\ Cardinality(InWindow(granted[a])) <= Len(TimesOf(rates, a))
    BY <2>1, <2>2, AlignedCounts
  <2>4. /\ Cardinality(InWindow(granted[a])) \in Nat /\ Len(TimesOf(rates, a)) \in Nat
        /\ MaxRequests \in Nat
    BY <2>2, <2>3, FS_CardinalityType, AdmissionAssumption
  <2>5. /\ Cardinality(InWindow(failed[a])) \in Nat /\ Cardinality(EarlyOf(a)) \in Nat
        /\ Cardinality(Connection) \in Nat /\ MaxFailures - 1 \in Nat
    BY PairingSizes, AdmissionAssumption DEF PairingInv
  <2>6. Cardinality(InWindow(failed[a])) + Cardinality(EarlyOf(a))
        <= MaxFailures - 1 + Cardinality(Connection)
    BY DEF PairingInv, FailuresLeft
  <2> QED
    BY <2>1, <2>3, <2>4, <2>5, <2>6
<1>2. Cardinality(DOMAIN failures) <= MaxTracked + Cardinality(Connection)
  <2>1. /\ IsFiniteSet(DOMAIN failures \union Peers) /\ Cardinality(Connection) \in Nat
        /\ Cardinality(DOMAIN failures \union Peers) <= MaxTracked + Cardinality(Connection)
    BY PairingSizes DEF PairingInv, TableLeft
  <2>2. /\ Cardinality(DOMAIN failures) <= Cardinality(DOMAIN failures \union Peers)
        /\ Cardinality(DOMAIN failures) \in Nat
        /\ Cardinality(DOMAIN failures \union Peers) \in Nat
    BY <2>1, NoLarger
  <2> QED
    BY <2>1, <2>2, AdmissionAssumption
<1> QED
  BY <1>1, <1>2 DEF LimitsHold, RequestsInv

-----------------------------------------------------------------------------
(***************************************************************************)
(* The session of a phone.  A connection whose code was overtaken waits    *)
(* for its ClientHello with a code that is older than the current one or   *)
(* that has expired, and neither ever changes back.                        *)
(***************************************************************************)

Outdated(c) == used[c] < code \/ expires <= now

SessionsInv ==
    /\ now \in Nat /\ code \in Nat /\ expires \in Nat
    /\ connection \in [Connection -> Stages]
    /\ used \in [Connection -> Nat]
    /\ \A c \in Connection : used[c] <= code
    /\ overtaken \subseteq {c \in Connection : connection[c] = "hello" /\ Outdated(c)}
    /\ sessions \subseteq {c \in Connection : connection[c] = "open"}

\* An expiry is a time.
LEMMA ExpiryIsTime ==
  ASSUME now \in Nat, NEW list
  PROVE  ExpiryOf(list) \in Nat
BY CredentialsAssumption DEF ExpiryOf

LEMMA SessionsStart ==
  ASSUME AdmissionInit
  PROVE  SessionsInv
<1>1. /\ now = 0 /\ code = 1 /\ expires = ExpiryOf(addresses)
      /\ connection = [c \in Connection |-> "free"] /\ used = [c \in Connection |-> 0]
      /\ sessions = {} /\ overtaken = {}
  BY DEF AdmissionInit, CredentialsInit
<1>2. expires \in Nat
  BY <1>1, ExpiryIsTime
<1> QED
  BY <1>1, <1>2 DEF SessionsInv, Stages

\* A connection that ends is none of either set.
LEMMA ClosedKeepsSessions ==
  ASSUME SessionsInv, NEW c \in Connection, Closed(c), UNCHANGED <<now, code, expires>>
  PROVE  SessionsInv'
<1>1. /\ connection' = [connection EXCEPT ![c] = "free"] /\ used' = [used EXCEPT ![c] = 0]
      /\ sessions' = sessions \ {c} /\ overtaken' = overtaken \ {c}
  BY DEF Closed
<1>2. connection' \in [Connection -> Stages] /\ used' \in [Connection -> Nat]
  BY <1>1 DEF SessionsInv, Stages
<1>3. \A d \in Connection : used'[d] <= code'
  BY <1>1 DEF SessionsInv
<1>4. \A d \in Connection : d # c => connection'[d] = connection[d] /\ used'[d] = used[d]
  BY <1>1 DEF SessionsInv
<1> QED
  BY <1>1, <1>2, <1>3, <1>4 DEF SessionsInv, Outdated

\* A connection that was not overtaken, and has no session, goes on before its ClientHello
\* or after it.
LEMMA StageKeepsSessions ==
  ASSUME SessionsInv, NEW c \in Connection, connection[c] \notin {"hello", "open"},
         NEW stage \in Stages, connection' = [connection EXCEPT ![c] = stage],
         UNCHANGED <<now, code, expires, used, overtaken>>,
         sessions' = sessions \/ (stage = "open" /\ sessions' = sessions \union {c})
  PROVE  SessionsInv'
<1>1. connection' \in [Connection -> Stages] /\ connection'[c] = stage
  BY DEF SessionsInv
<1>2. \A d \in Connection : d # c => connection'[d] = connection[d]
  BY DEF SessionsInv
<1>3. c \notin overtaken /\ c \notin sessions
  BY DEF SessionsInv
<1> QED
  BY <1>1, <1>2, <1>3 DEF SessionsInv, Outdated

LEMMA HandshakeKeepsSessions ==
  ASSUME SessionsInv, NEW c \in Connection, NEW tried, Handshake(c, tried)
  PROVE  SessionsInv'
<1>1. connection[c] = "handshake" /\ UNCHANGED <<now, code, expires>>
  BY DEF Handshake, credentials
<1>2. CASE Expired \/ tried # code
  BY <1>1, <1>2, ClosedKeepsSessions DEF Handshake
<1>3. CASE ~Expired /\ tried = code
  <2>1. /\ connection' = [connection EXCEPT ![c] = "hello"]
        /\ used' = [used EXCEPT ![c] = code] /\ UNCHANGED <<sessions, overtaken>>
    BY <1>3 DEF Handshake, Reaches
  <2>2. connection' \in [Connection -> Stages] /\ used' \in [Connection -> Nat]
    BY <2>1 DEF SessionsInv, Stages
  <2>3. \A d \in Connection : used'[d] <= code
    BY <2>1 DEF SessionsInv
  <2>4. \A d \in Connection : d # c => connection'[d] = connection[d] /\ used'[d] = used[d]
    BY <2>1 DEF SessionsInv
  <2>5. c \notin overtaken /\ c \notin sessions
    BY <1>1 DEF SessionsInv
  <2> QED
    BY <1>1, <2>1, <2>2, <2>3, <2>4, <2>5 DEF SessionsInv, Outdated
<1> QED
  BY <1>2, <1>3

\* The code is replaced, or time goes by: the connections before their ClientHello that
\* are added to those overtaken are outdated.
LEMMA RotateKeepsSessions ==
  ASSUME SessionsInv, Rotate
  PROVE  SessionsInv'
<1>1. PICK list \in Networks : ReplaceAddresses(list)
  BY DEF Rotate
<1>2. code' = code + 1 /\ expires' = ExpiryOf(list)
  BY <1>1 DEF ReplaceAddresses
<1>3. /\ overtaken' = overtaken \union Pairing
      /\ UNCHANGED <<now, connection, used, sessions>>
  BY DEF Rotate
<1>4. expires' \in Nat /\ code' \in Nat
  BY <1>2, ExpiryIsTime DEF SessionsInv
<1>5. \A c \in Connection : used[c] < code'
  BY <1>2 DEF SessionsInv
<1>6. \A c \in Connection : used[c] <= code'
  BY <1>4, <1>5 DEF SessionsInv
<1> QED
  BY <1>3, <1>4, <1>5, <1>6 DEF SessionsInv, Outdated, Pairing

LEMMA TickKeepsSessions ==
  ASSUME SessionsInv, Tick
  PROVE  SessionsInv'
<1>1. /\ now' = now + 1
      /\ overtaken' = IF expires <= now' THEN overtaken \union Pairing ELSE overtaken
      /\ UNCHANGED <<code, expires, connection, used, sessions>>
  BY DEF Tick, credentials
<1>2. now' \in Nat /\ (expires <= now => expires <= now')
  BY <1>1 DEF SessionsInv
<1> QED
  BY <1>1, <1>2 DEF SessionsInv, Outdated, Pairing

LEMMA SessionsNext ==
  ASSUME SessionsInv, AdmissionNext
  PROVE  SessionsInv'
<1>1. ASSUME NEW a \in Address, Accept(a) PROVE SessionsInv'
  <2>1. UNCHANGED <<now, code, expires, used, sessions, overtaken>>
    BY <1>1 DEF Accept, credentials
  <2>2. CASE UNCHANGED connection
    BY <2>1, <2>2 DEF SessionsInv, Outdated
  <2>3. CASE \E c \in Connection : connection[c] = "free" /\ Reaches(c, "upgrade")
    <3>1. PICK c \in Connection : connection[c] = "free" /\ Reaches(c, "upgrade")
      BY <2>3
    <3> QED
      BY <2>1, <3>1, StageKeepsSessions DEF Reaches, Stages
  <2> QED
    BY <1>1, <2>2, <2>3 DEF Accept
<1>2. ASSUME NEW c \in Connection, FailEarly(c) PROVE SessionsInv'
  BY <1>2, ClosedKeepsSessions DEF FailEarly, credentials
<1>3. ASSUME NEW c \in Connection, Upgrade(c) PROVE SessionsInv'
  BY <1>3, StageKeepsSessions DEF Upgrade, Reaches, credentials, Stages
<1>4. ASSUME NEW c \in Connection, Hello(c) PROVE SessionsInv'
  <2>1. connection[c] = "hello" /\ UNCHANGED <<now, code, expires>>
    BY <1>4 DEF Hello, Answered, credentials
  <2>2. CASE Expired \/ used[c] # code
    BY <1>4, <2>1, <2>2, ClosedKeepsSessions DEF Hello, Answered
  <2>3. CASE ~(Expired \/ used[c] # code)
    <3>1. /\ connection' = [connection EXCEPT ![c] = "checked"]
          /\ UNCHANGED <<used, sessions, overtaken>>
      BY <1>4, <2>3 DEF Hello, Answered, Reaches
\* The code is the current one, and has not expired: the connection was not overtaken.
    <3>2. c \notin overtaken
      BY <2>3 DEF SessionsInv, Outdated, Expired
    <3>3. connection' \in [Connection -> Stages]
      BY <3>1 DEF SessionsInv, Stages
    <3>4. \A d \in Connection : d # c => connection'[d] = connection[d]
      BY <3>1 DEF SessionsInv
    <3>5. c \notin sessions
      BY <2>1 DEF SessionsInv
    <3> QED
      BY <2>1, <3>1, <3>2, <3>3, <3>4, <3>5 DEF SessionsInv, Outdated
  <2> QED
    BY <2>2, <2>3
<1>5. ASSUME NEW c \in Connection, Join(c) PROVE SessionsInv'
  BY <1>5, StageKeepsSessions DEF Join, Reaches, credentials, Stages
<1>6. ASSUME NEW c \in Connection, Leave(c) PROVE SessionsInv'
  BY <1>6, ClosedKeepsSessions DEF Leave, credentials
<1>7. ASSUME NEW c \in Connection, Ask(c) PROVE SessionsInv'
  BY <1>7 DEF Ask, credentials, connections, SessionsInv, Outdated
<1> QED
  BY <1>1, <1>2, <1>3, <1>4, <1>5, <1>6, <1>7, HandshakeKeepsSessions,
     RotateKeepsSessions, TickKeepsSessions DEF AdmissionNext, ConnectionStep

-----------------------------------------------------------------------------
(***************************************************************************)
(* The pairing page.                                                       *)
(***************************************************************************)

\* What is announced is the target, once its registration has ended, and the target
\* is what was last wanted, but for a wish that the task has yet to see.
PageInv ==
    /\ PageIsCurrent
    /\ \E host1 : announced \subseteq {host1}
    /\ task = "waiting" => announced \subseteq {target}
    /\ ~unseen => target = wanted

LEMMA PageStarts ==
  ASSUME PageInit
  PROVE  PageInv
BY DEF PageInit, PageInv, PageIsCurrent

LEMMA RedrawKeepsPage ==
  ASSUME PageInv, Redraw, UNCHANGED <<task, target, announced>>
  PROVE  PageInv'
<1>1. CASE ~missed'
  <2>1. PageIsCurrent'
    BY <1>1 DEF Redraw, PageIsCurrent, Blank
  <2>2. ~unseen' => target' = wanted'
    BY <1>1 DEF Redraw, Advertise, PageInv
  <2> QED
    BY <2>1, <2>2 DEF PageInv
<1>2. CASE missed'
  <2>1. UNCHANGED <<page, image, wanted, unseen>>
    BY <1>2 DEF Redraw
  <2> QED
    BY <1>2, <2>1 DEF PageInv, PageIsCurrent, Blank
<1> QED
  BY <1>1, <1>2

LEMMA PageStep ==
  ASSUME PageInv, PageNext
  PROVE  PageInv'
<1>1. CASE FirstDraw
  BY <1>1, RedrawKeepsPage DEF FirstDraw, Redraw
<1>2. CASE RefreshShown
  BY <1>2, RedrawKeepsPage DEF RefreshShown, Redraw
<1>3. ASSUME NEW chosen, Select(chosen) PROVE PageInv'
  BY <1>3, RedrawKeepsPage DEF Select, Redraw
<1>4. CASE Refresh
  BY <1>4 DEF Refresh, PageInv, PageIsCurrent, Blank, Shown, credentials, mdns
<1>5. CASE NetworkFound
  BY <1>5 DEF NetworkFound, PageInv, PageIsCurrent, Blank, Shown, credentials, mdns
<1>6. ASSUME NEW shown \in encoding, Encoded(shown) PROVE PageInv'
  BY <1>6 DEF Encoded, PageInv, PageIsCurrent, Blank, Shown, credentials, mdns
<1>7. CASE MdnsStep
  <2>1. UNCHANGED <<credentials, ui, wanted>>
    BY <1>7 DEF MdnsStep, Register, Update, StopAnnouncing, Withdraw
  <2>2. PageIsCurrent'
    BY <2>1 DEF PageInv, PageIsCurrent, Blank, Shown, credentials, ui
  <2>3. /\ \E host1 : announced' \subseteq {host1}
        /\ task' = "waiting" => announced' \subseteq {target'}
        /\ ~unseen' => target' = wanted'
    BY <1>7 DEF MdnsStep, Register, Update, StopAnnouncing, Withdraw, PageInv
  <2> QED
    BY <2>2, <2>3 DEF PageInv
<1>8. CASE DropHandle
  BY <1>8 DEF DropHandle, PageInv, PageIsCurrent, Blank, Shown, credentials, ui
<1> QED
  BY <1>1, <1>2, <1>3, <1>4, <1>5, <1>6, <1>7, <1>8 DEF PageNext

LEMMA PageCurrent ==
  ASSUME PageInv
  PROVE  PageAndNetworkAreCurrent
<1>1. Cardinality(announced) <= 1
  <2>1. PICK host1 : announced \in SUBSET {host1}
    BY DEF PageInv
  <2>2. IsFiniteSet({host1}) /\ Cardinality({host1}) = 1
    BY FS_Singleton
  <2> QED
    BY <2>1, <2>2, FS_Subset
<1>2. task = "waiting" /\ ~unseen => announced \subseteq {wanted}
  BY DEF PageInv
<1> QED
  BY <1>1, <1>2 DEF PageInv, PageAndNetworkAreCurrent, AnnouncedIsChosen

-----------------------------------------------------------------------------
(***************************************************************************)
(* The recording that a phone uploads.  The bytes of a recording are a sum *)
(* along a sequence, by induction on its length.                           *)
(***************************************************************************)

SoundPiece == [of : Uploads, number : Nat, bytes : Nat]

\* f sums up the first n pieces.
SumsUp(f, n, pcm) ==
    f = [k \in 0..n |-> IF k = 0 THEN 0 ELSE f[k - 1] + pcm[k].bytes]

LEMMA SumExists ==
  ASSUME NEW pcm, NEW n \in Nat
  PROVE  \E f : SumsUp(f, n, pcm)
<1> DEFINE T == {k \in Nat : \E f : SumsUp(f, k, pcm)}
<1>1. 0 \in T
  <2> DEFINE f == [k \in 0..0 |-> 0]
  <2>1. SumsUp(f, 0, pcm)
    BY DEF SumsUp
  <2> QED
    BY <2>1
<1>2. ASSUME NEW k \in Nat, k \in T PROVE k + 1 \in T
  <2>1. PICK f : SumsUp(f, k, pcm)
    BY <1>2
  <2> DEFINE g == [i \in 0..k + 1 |-> IF i = k + 1 THEN f[k] + pcm[k + 1].bytes ELSE f[i]]
  <2>2. DOMAIN f = 0..k /\ \A i \in 0..k : f[i] = IF i = 0 THEN 0 ELSE f[i - 1] + pcm[i].bytes
    BY <2>1 DEF SumsUp
  <2>3. \A i \in 0..k + 1 : g[i] = IF i = 0 THEN 0 ELSE g[i - 1] + pcm[i].bytes
    <3> SUFFICES ASSUME NEW i \in 0..k + 1
                 PROVE  g[i] = IF i = 0 THEN 0 ELSE g[i - 1] + pcm[i].bytes
      OBVIOUS
    <3>1. CASE i = k + 1
      <4>1. i # 0 /\ i - 1 = k /\ k # k + 1 /\ k \in 0..k + 1
        BY <3>1
      <4>2. g[i - 1] = f[k]
        BY <4>1
      <4> QED
        BY <3>1, <4>1, <4>2
    <3>2. CASE i # k + 1
      <4>1. i \in 0..k /\ g[i] = f[i]
        BY <3>2
      <4>2. i # 0 => i - 1 \in 0..k + 1 /\ i - 1 # k + 1
        BY <4>1
      <4>3. i # 0 => g[i - 1] = f[i - 1]
        BY <4>2
      <4> QED
        BY <2>2, <4>1, <4>3
    <3> QED
      BY <3>1, <3>2
  <2>4. g = [i \in 0..k + 1 |-> g[i]]
    OBVIOUS
  <2>5. SumsUp(g, k + 1, pcm)
    <3> HIDE DEF g
    <3> QED
      BY <2>3, <2>4 DEF SumsUp
  <2> QED
    BY <2>5
<1>3. Nat \subseteq T
  <2> HIDE DEF T
  <2> QED
    BY <1>1, <1>2, SetInduction
<1> QED
  BY <1>3

\* The sum of a recording is part of that of a longer one.
LEMMA SumUnique ==
  ASSUME NEW n \in Nat,
         NEW pcm, NEW f, SumsUp(f, n, pcm),
         NEW longer, NEW g, SumsUp(g, n + 1, longer),
         \A k \in 1..n : longer[k] = pcm[k]
  PROVE  g[n] = f[n]
<1> DEFINE T == {k \in Nat : k <= n => g[k] = f[k]}
<1>1. /\ \A k \in 0..n : f[k] = IF k = 0 THEN 0 ELSE f[k - 1] + pcm[k].bytes
      /\ \A k \in 0..n + 1 : g[k] = IF k = 0 THEN 0 ELSE g[k - 1] + longer[k].bytes
  BY DEF SumsUp
<1>2. 0 \in T
  <2>1. 0 \in 0..n /\ 0 \in 0..n + 1
    OBVIOUS
  <2> QED
    BY <1>1, <2>1
<1>3. ASSUME NEW k \in Nat, k \in T PROVE k + 1 \in T
  <2> SUFFICES ASSUME k + 1 <= n PROVE g[k + 1] = f[k + 1]
    OBVIOUS
  <2>1. /\ k + 1 \in 0..n /\ k + 1 \in 0..n + 1 /\ k + 1 \in 1..n /\ k + 1 # 0
        /\ k + 1 - 1 = k /\ k <= n
    OBVIOUS
  <2>2. g[k] = f[k]
    BY <1>3, <2>1
  <2> QED
    BY <1>1, <2>1, <2>2
<1>4. Nat \subseteq T
  <2> HIDE DEF T
  <2> QED
    BY <1>2, <1>3, SetInduction
<1> QED
  BY <1>4

LEMMA SumIsNat ==
  ASSUME NEW pcm, NEW n \in Nat, \A k \in 1..n : pcm[k].bytes \in Nat,
         NEW f, SumsUp(f, n, pcm)
  PROVE  \A k \in 0..n : f[k] \in Nat
<1> DEFINE T == {k \in Nat : k <= n => f[k] \in Nat}
<1>1. \A k \in 0..n : f[k] = IF k = 0 THEN 0 ELSE f[k - 1] + pcm[k].bytes
  BY DEF SumsUp
<1>2. 0 \in T
  <2>1. 0 \in 0..n
    OBVIOUS
  <2> QED
    BY <1>1, <2>1
<1>3. ASSUME NEW k \in Nat, k \in T PROVE k + 1 \in T
  <2> SUFFICES ASSUME k + 1 <= n PROVE f[k + 1] \in Nat
    OBVIOUS
  <2>1. k + 1 \in 0..n /\ k + 1 \in 1..n /\ k + 1 # 0 /\ k + 1 - 1 = k /\ k <= n
    OBVIOUS
  <2>2. f[k] \in Nat /\ pcm[k + 1].bytes \in Nat
    BY <1>3, <2>1
  <2>3. f[k + 1] = f[k] + pcm[k + 1].bytes
    BY <1>1, <2>1
  <2> QED
    BY <2>2, <2>3
<1>4. Nat \subseteq T
  <2> HIDE DEF T
  <2> QED
    BY <1>2, <1>3, SetInduction
<1> QED
  BY <1>4

LEMMA BytesSums ==
  ASSUME NEW pcm, Len(pcm) \in Nat
  PROVE  \E f : SumsUp(f, Len(pcm), pcm) /\ Bytes(pcm) = f[Len(pcm)]
<1> DEFINE sum == CHOOSE f : f = [k \in 0..Len(pcm) |->
                                    IF k = 0 THEN 0 ELSE f[k - 1] + pcm[k].bytes]
<1>1. Bytes(pcm) = sum[Len(pcm)]
  BY DEF Bytes
<1>2. \E f : f = [k \in 0..Len(pcm) |-> IF k = 0 THEN 0 ELSE f[k - 1] + pcm[k].bytes]
  BY SumExists DEF SumsUp
<1>3. sum = [k \in 0..Len(pcm) |-> IF k = 0 THEN 0 ELSE sum[k - 1] + pcm[k].bytes]
  BY <1>2
<1> HIDE DEF sum
<1> QED
  BY <1>1, <1>3 DEF SumsUp

\* Nothing has no bytes, and a piece that is added adds its own.
LEMMA BytesAdd ==
  ASSUME NEW pcm \in Seq(SoundPiece), NEW piece \in SoundPiece
  PROVE  /\ Bytes(pcm) \in Nat
         /\ Bytes(Append(pcm, piece)) = Bytes(pcm) + piece.bytes
<1> DEFINE longer == Append(pcm, piece)
<1>1. PICK n \in Nat : n = Len(pcm)
  OBVIOUS
<1>2. /\ Len(longer) = n + 1 /\ longer[n + 1] = piece
      /\ \A k \in 1..n : longer[k] = pcm[k]
  BY <1>1, AppendProperties
<1>3. \A k \in 1..n : pcm[k].bytes \in Nat
  <2>1. \A k \in 1..n : pcm[k] \in SoundPiece
    BY <1>1, ElementOfSeq
  <2> QED
    BY <2>1 DEF SoundPiece
<1> HIDE DEF longer
<1>4. PICK f : SumsUp(f, n, pcm) /\ Bytes(pcm) = f[n]
  BY <1>1, BytesSums
<1>5. PICK g : SumsUp(g, n + 1, longer) /\ Bytes(longer) = g[n + 1]
  BY <1>2, BytesSums
<1>6. g[n] = f[n]
  BY <1>2, <1>4, <1>5, SumUnique
<1>7. f[n] \in Nat
  <2>1. n \in 0..n
    OBVIOUS
  <2> QED
    BY <1>3, <1>4, <2>1, SumIsNat
<1>8. g[n + 1] = g[n] + piece.bytes
  <2>1. n + 1 \in 0..n + 1 /\ n + 1 # 0 /\ n + 1 - 1 = n
    OBVIOUS
  <2> QED
    BY <1>2, <1>5, <2>1 DEF SumsUp
<1> QED
  BY <1>4, <1>5, <1>6, <1>7, <1>8 DEF longer

LEMMA BytesOfNothing == Bytes(<< >>) = 0
<1>1. Len(<< >>) = 0 /\ 0 \in 0..0
  OBVIOUS
<1>2. PICK f : SumsUp(f, 0, << >>) /\ Bytes(<< >>) = f[0]
  BY <1>1, BytesSums
<1> QED
  BY <1>1, <1>2 DEF SumsUp

\* The pieces of a recording so far are those of one upload, in their order.
WholeRecording(pcm, id) ==
    /\ pcm \in Seq(SoundPiece)
    /\ \A i \in 1..Len(pcm) : pcm[i].of = id /\ pcm[i].number = i - 1
                              /\ pcm[i].bytes % BytesPerFrame = 0
    /\ Bytes(pcm) <= MaxBytes /\ Bytes(pcm) % BytesPerFrame = 0 /\ Bytes(pcm) \in Nat

UploadInv ==
    /\ WholeRecording(upload.pcm, upload.id)
    /\ upload.next = Len(upload.pcm)
    /\ upload = [id |-> upload.id, next |-> upload.next, pcm |-> upload.pcm]
    /\ \E id : WholeRecording(payload.pcm, id)
    /\ payload.frames * BytesPerFrame = Bytes(payload.pcm)

LEMMA NothingIsWhole == \A id : WholeRecording(<< >>, id)
<1>1. << >> \in Seq(SoundPiece) /\ Len(<< >>) = 0
  OBVIOUS
<1>2. Bytes(<< >>) = 0 /\ MaxBytes \in Nat
  BY BytesOfNothing, UploadAssumption
<1> QED
  BY <1>1, <1>2 DEF WholeRecording, BytesPerFrame

LEMMA UploadStarts ==
  ASSUME UploadInit
  PROVE  UploadInv
BY NothingIsWhole, BytesOfNothing DEF UploadInit, UploadInv, NoUpload, BytesPerFrame

\* Whatever is not kept: the next upload, if any, starts from nothing.
LEMMA EmptyKeepsUploads ==
  ASSUME UploadInv, NEW id, upload' = [NoUpload EXCEPT !.id = id], UNCHANGED payload
  PROVE  UploadInv'
<1>1. upload' = [id |-> id, next |-> 0, pcm |-> << >>]
  BY DEF NoUpload
<1>2. upload'.id = id /\ upload'.next = 0 /\ upload'.pcm = << >>
  BY <1>1
<1>3. WholeRecording(upload'.pcm, upload'.id) /\ upload'.next = Len(upload'.pcm)
  BY <1>2, NothingIsWhole
<1> QED
  BY <1>1, <1>2, <1>3 DEF UploadInv

LEMMA PieceKeepsWhole ==
  ASSUME UploadInv, NEW piece \in Pieces, Fits(piece)
  PROVE  WholeRecording(Append(upload.pcm, piece), upload.id)
         /\ Len(Append(upload.pcm, piece)) = upload.next + 1
<1> DEFINE pcm == upload.pcm
           longer == Append(pcm, piece)
<1>1. pcm \in Seq(SoundPiece) /\ WholeRecording(pcm, upload.id)
  BY DEF UploadInv, WholeRecording
<1>2. piece \in SoundPiece
  <2>1. /\ piece \in [of : Uploads, number : 0..MaxPieces - 1, bytes : Sizes]
        /\ 0..MaxPieces - 1 \subseteq Nat /\ Sizes \subseteq Nat
    BY UploadAssumption DEF Pieces
  <2> QED
    BY <2>1 DEF SoundPiece
<1>3. PICK n \in Nat : n = Len(pcm) /\ n = upload.next
  BY <1>1 DEF UploadInv
<1>4. /\ longer \in Seq(SoundPiece) /\ Len(longer) = n + 1 /\ longer[n + 1] = piece
      /\ \A i \in 1..n : longer[i] = pcm[i]
  <2>1. pcm \in Seq(SoundPiece) /\ n = Len(pcm)
    BY <1>1, <1>3
  <2> HIDE DEF pcm
  <2> QED
    BY <1>2, <2>1, AppendProperties
<1>5. Bytes(longer) = Bytes(pcm) + piece.bytes /\ Bytes(pcm) \in Nat /\ piece.bytes \in Nat
  <2> HIDE DEF pcm
  <2> QED
    BY <1>1, <1>2, BytesAdd DEF SoundPiece
<1>6. /\ piece.of = upload.id /\ piece.number = n
      /\ piece.bytes % BytesPerFrame = 0 /\ Bytes(pcm) + piece.bytes <= MaxBytes
  BY <1>3 DEF Fits
<1>7. ASSUME NEW i \in 1..n + 1
      PROVE  /\ longer[i].of = upload.id /\ longer[i].number = i - 1
             /\ longer[i].bytes % BytesPerFrame = 0
  <2>1. CASE i = n + 1
    <3> HIDE DEF longer
    <3> QED
      BY <1>3, <1>4, <1>6, <2>1
  <2>2. CASE i # n + 1
    <3>1. i \in 1..n
      BY <2>2
    <3>2. i \in 1..Len(pcm)
      BY <1>3, <3>1
    <3>3. /\ pcm[i].of = upload.id /\ pcm[i].number = i - 1
          /\ pcm[i].bytes % BytesPerFrame = 0
      BY <1>1, <3>2 DEF WholeRecording
    <3> HIDE DEF longer
    <3> QED
      BY <1>4, <3>1, <3>3
  <2> QED
    BY <2>1, <2>2
<1>8. Bytes(pcm) % BytesPerFrame = 0
  BY <1>1 DEF WholeRecording
<1>9. /\ Bytes(longer) <= MaxBytes /\ Bytes(longer) \in Nat
      /\ Bytes(longer) % BytesPerFrame = 0
  <2> HIDE DEF longer, pcm
  <2> QED
    BY <1>5, <1>6, <1>8 DEF BytesPerFrame
<1> HIDE DEF longer
<1>10. WholeRecording(longer, upload.id) /\ Len(longer) = upload.next + 1
  BY <1>3, <1>4, <1>7, <1>9 DEF WholeRecording
<1> QED
  BY <1>10 DEF longer

LEMMA UploadStep ==
  ASSUME UploadInv, UploadNext
  PROVE  UploadInv'
<1>1. CASE StartUpload
  BY <1>1, EmptyKeepsUploads DEF StartUpload
<1>2. NoUpload = [NoUpload EXCEPT !.id = 0]
  BY DEF NoUpload
<1>3. CASE DropUpload
  BY <1>2, <1>3, EmptyKeepsUploads DEF DropUpload
<1>4. CASE TakePiece
  <2>1. PICK piece \in Pieces :
           upload' = IF Fits(piece)
                     THEN [upload EXCEPT !.next = @ + 1, !.pcm = Append(@, piece)]
                     ELSE NoUpload
    BY <1>4 DEF TakePiece
  <2>2. payload' = payload
    BY <1>4 DEF TakePiece
  <2>3. CASE ~Fits(piece)
    BY <1>2, <2>1, <2>2, <2>3, EmptyKeepsUploads
  <2>4. CASE Fits(piece)
    <3> DEFINE pcm == Append(upload.pcm, piece)
    <3>1. upload = [id |-> upload.id, next |-> upload.next, pcm |-> upload.pcm]
      BY DEF UploadInv
    <3>2. upload' = [id |-> upload.id, next |-> upload.next + 1, pcm |-> pcm]
      BY <2>1, <2>4, <3>1
    <3>3. WholeRecording(pcm, upload.id) /\ Len(pcm) = upload.next + 1
      BY <2>4, PieceKeepsWhole
    <3> HIDE DEF pcm
    <3>4. /\ upload'.id = upload.id /\ upload'.next = upload.next + 1 /\ upload'.pcm = pcm
          /\ upload' = [id |-> upload'.id, next |-> upload'.next, pcm |-> upload'.pcm]
      BY <3>2
    <3> QED
      BY <2>2, <3>3, <3>4 DEF UploadInv
  <2> QED
    BY <2>3, <2>4
<1>5. CASE EndUpload
  <2>1. upload' = NoUpload
    BY <1>5 DEF EndUpload
  <2>2. \/ payload' = payload
        \/ \E end : Matches(end) /\ payload' = [pcm |-> upload.pcm, frames |-> end.frames]
    BY <1>5 DEF EndUpload
  <2>3. /\ upload' = [NoUpload EXCEPT !.id = 0]
    BY <1>2, <2>1
  <2>4. CASE payload' = payload
    BY <2>3, <2>4, EmptyKeepsUploads
  <2>5. ASSUME NEW end, Matches(end), payload' = [pcm |-> upload.pcm, frames |-> end.frames]
        PROVE  UploadInv'
    <3>1. payload'.pcm = upload.pcm /\ payload'.frames = end.frames
      BY <2>5
    <3>2. end.frames = Bytes(upload.pcm) \div BytesPerFrame
      BY <2>5 DEF Matches
    <3>3. /\ Bytes(upload.pcm) \in Nat /\ Bytes(upload.pcm) % BytesPerFrame = 0
          /\ WholeRecording(upload.pcm, upload.id)
      BY DEF UploadInv, WholeRecording
    <3>4. payload'.frames * BytesPerFrame = Bytes(payload'.pcm)
      <4> DEFINE b == Bytes(upload.pcm)
      <4>1. b \in Nat /\ b % 2 = 0
        BY <3>3 DEF BytesPerFrame
      <4> HIDE DEF b
      <4>2. (b \div 2) * 2 = b
        BY <4>1
      <4> QED
        BY <3>1, <3>2, <4>2 DEF b, BytesPerFrame
    <3>5. upload' = [id |-> 0, next |-> 0, pcm |-> << >>]
      BY <2>1 DEF NoUpload
    <3> QED
      BY <3>1, <3>3, <3>4, <3>5, NothingIsWhole DEF UploadInv
  <2> QED
    BY <2>2, <2>4, <2>5
<1> QED
  BY <1>1, <1>3, <1>4, <1>5 DEF UploadNext

LEMMA UploadsWhole ==
  ASSUME UploadInv
  PROVE  UploadsAreWhole
<1>1. PICK id : WholeRecording(payload.pcm, id)
  BY DEF UploadInv
<1>2. PICK n \in Nat : n = Len(payload.pcm) /\ DOMAIN payload.pcm = 1..n
  BY <1>1 DEF WholeRecording
<1>3. \A i \in 1..n : 1 \in 1..n
  OBVIOUS
<1> QED
  BY <1>1, <1>2, <1>3 DEF UploadsAreWhole, WholeRecording, UploadInv

-----------------------------------------------------------------------------
(***************************************************************************)
(* The recorder: the resampler's position is always that of the next       *)
(* output, the ring holds the newest outputs, and the listener's cursor    *)
(* never passes them.                                                      *)
(***************************************************************************)

\* The outputs of one long buffer, from number k on.
FollowOn(samples, k, step) == \A i \in DOMAIN samples : samples[i] = (k + i - 1) * step

ResamplerType ==
    resampler \in [step : Nat \ {0}, at : Nat, waiting : Nat, gone : Nat]

ResamplerAligned ==
    LET input == resampler.gone + resampler.waiting IN
    /\ resampler.gone * Parts + resampler.at = ring.next * resampler.step
    /\ input = 0 => ring.next = 0
    /\ ring.next > 0 => (ring.next - 1) * resampler.step + Parts < input * Parts
    /\ input > 0 => ring.next * resampler.step + Parts >= input * Parts

RingInv ==
    /\ ring.first \in Nat /\ ring.next \in Nat
    /\ ring.samples \in Seq(Int)
    /\ ring.first + Len(ring.samples) = ring.next
    /\ Len(ring.samples) = Lesser(ring.next, Capacity)
    /\ FollowOn(ring.samples, ring.first, resampler.step)

ListenerInv ==
    /\ listener.from \in Nat /\ listener.cursor \in 0..ring.next
    /\ listener.heard \in Seq(Int)
    /\ listener.from + Len(listener.heard) = listener.cursor
    /\ FollowOn(listener.heard, listener.from, resampler.step)

SamplerInv == ResamplerType /\ ResamplerAligned /\ RingInv /\ ListenerInv

LEMMA SamplerStarts ==
  ASSUME MicrophoneInit
  PROVE  SamplerInv
<1>1. /\ resampler.step \in Nat \ {0} /\ resampler.at = 0
      /\ resampler.waiting = 0 /\ resampler.gone = 0 /\ ResamplerType
  <2>1. resampler \in [step : Steps, at : {0}, waiting : {0}, gone : {0}]
    BY DEF MicrophoneInit
  <2>2. Steps \subseteq Nat \ {0}
    BY MicrophoneAssumption
  <2>3. resampler \in [step : Nat \ {0}, at : {0}, waiting : {0}, gone : {0}]
    BY <2>1, <2>2
  <2>4. ResamplerType
    BY <2>3 DEF ResamplerType
  <2> QED
    BY <2>3, <2>4
<1>2. /\ ring.samples = << >> /\ ring.first = 0 /\ ring.next = 0
      /\ listener.heard = << >> /\ listener.from = 0 /\ listener.cursor = 0
  BY DEF MicrophoneInit
<1>3. << >> \in Seq(Int) /\ Len(<< >>) = 0 /\ DOMAIN << >> = {}
  OBVIOUS
<1>4. ResamplerAligned
  BY <1>1, <1>2, MicrophoneAssumption DEF ResamplerAligned
<1>5. RingInv /\ ListenerInv
  BY <1>2, <1>3, MicrophoneAssumption DEF RingInv, ListenerInv, FollowOn, Lesser
<1> QED
  BY <1>1, <1>4, <1>5 DEF SamplerInv

\* A buffer completes some number of outputs: all that have a sample after them.
LEMMA OutputsCount ==
  ASSUME NEW at \in Nat, NEW step \in Nat \ {0}, NEW waiting \in Nat
  PROVE  \E n \in 0..Parts * waiting :
            /\ at + n * step + Parts >= waiting * Parts
            /\ n > 0 => at + (n - 1) * step + Parts < waiting * Parts
<1> DEFINE T == {n \in Nat : at + n * step + Parts >= waiting * Parts}
           most == Parts * waiting
<1>1. Parts \in Nat \ {0} /\ most \in Nat /\ most = waiting * Parts
  BY MicrophoneAssumption
<1>2. most * step >= most
  <2> HIDE DEF most
  <2>1. \A m \in Nat : m * step >= m
    OBVIOUS
  <2> QED
    BY <1>1, <2>1
<1>3. most \in T
  <2> HIDE DEF most
  <2>1. most * step \in Nat
    BY <1>1
  <2> QED
    BY <1>1, <1>2, <2>1
<1>4. PICK n \in T : \A m \in T : n <= m
  BY <1>3, LeastNatural
<1>5. n \in 0..most
  BY <1>1, <1>3, <1>4
<1>6. n > 0 => at + (n - 1) * step + Parts < waiting * Parts
  <2> SUFFICES ASSUME n > 0 PROVE at + (n - 1) * step + Parts < waiting * Parts
    OBVIOUS
  <2>1. n - 1 \in Nat /\ n - 1 \notin T
    BY <1>4
  <2>2. (n - 1) * step \in Nat /\ waiting * Parts \in Nat
    BY <2>1, <1>1
  <2> QED
    BY <2>1, <2>2, <1>1
<1> QED
  BY <1>4, <1>5, <1>6

LEMMA BufferOutputs ==
  ASSUME ResamplerType, NEW waiting \in Nat
  PROVE  LET out == Outputs(resampler, waiting)
             n == Len(out) IN
         /\ n \in Nat /\ DOMAIN out = 1..n
         /\ \A k \in 1..n : out[k] = resampler.gone * Parts + resampler.at
                                      + (k - 1) * resampler.step
         /\ resampler.at + n * resampler.step + Parts >= waiting * Parts
         /\ n > 0 => resampler.at + (n - 1) * resampler.step + Parts < waiting * Parts
<1> DEFINE Good(n) ==
             /\ resampler.at + n * resampler.step + Parts >= waiting * Parts
             /\ n > 0 => resampler.at + (n - 1) * resampler.step + Parts < waiting * Parts
           n == CHOOSE n \in 0..Parts * waiting : Good(n)
           out == [k \in 1..n |-> resampler.gone * Parts + resampler.at
                                  + (k - 1) * resampler.step]
<1>1. n \in 0..Parts * waiting /\ Good(n)
  BY OutputsCount DEF ResamplerType
<1>2. Outputs(resampler, waiting) = out
  BY DEF Outputs
<1>3. n \in Nat
  BY <1>1
<1> HIDE DEF n
<1>4. Len(out) = n /\ DOMAIN out = 1..n
  BY <1>3
<1> QED
  BY <1>1, <1>2, <1>3, <1>4

\* The ring after a buffer: the newest of the outputs before it and of its own.
LEMMA RingTakes ==
  ASSUME RingInv, ResamplerType, NEW out \in Seq(Int),
         FollowOn(out, ring.next, resampler.step),
         ring' = Stored(ring.samples, out), resampler'.step = resampler.step
  PROVE  RingInv' /\ ring'.next = ring.next + Len(out)
<1> DEFINE all == ring.samples \o out
           step == resampler.step
<1>1. PICK l \in Nat, n \in Nat : l = Len(ring.samples) /\ n = Len(out)
  BY DEF RingInv
<1>2. /\ all \in Seq(Int) /\ Len(all) = l + n
      /\ \A i \in 1..l : all[i] = ring.samples[i]
      /\ \A i \in l + 1..l + n : all[i] = out[i - l]
      /\ DOMAIN ring.samples = 1..l /\ DOMAIN out = 1..n
  <2>1. ring.samples \in Seq(Int)
    BY DEF RingInv
  <2>2. DOMAIN ring.samples = 1..l /\ DOMAIN out = 1..n
    BY <1>1, <2>1
  <2>3. /\ all \in Seq(Int) /\ Len(all) = Len(ring.samples) + Len(out)
        /\ \A i \in 1..Len(all) : all[i] = IF i <= Len(ring.samples) THEN ring.samples[i]
                                           ELSE out[i - Len(ring.samples)]
    BY <2>1, ConcatProperties
  <2> HIDE DEF all
  <2>4. /\ Len(all) = l + n
        /\ \A i \in 1..l + n : all[i] = IF i <= l THEN ring.samples[i] ELSE out[i - l]
    BY <1>1, <2>3
  <2>5. \A i \in 1..l : i \in 1..l + n /\ i <= l
    OBVIOUS
  <2>6. \A i \in l + 1..l + n : i \in 1..l + n /\ ~(i <= l)
    OBVIOUS
  <2> QED
    BY <2>2, <2>3, <2>4, <2>5, <2>6
<1>3. ring.first \in Nat /\ ring.next = ring.first + l /\ l = Lesser(ring.next, Capacity)
  BY <1>1 DEF RingInv
<1>4. \A i \in 1..l + n : all[i] = (ring.first + i - 1) * step
  <2> SUFFICES ASSUME NEW i \in 1..l + n PROVE all[i] = (ring.first + i - 1) * step
    OBVIOUS
  <2>1. CASE i \in 1..l
    BY <1>2, <2>1 DEF RingInv, FollowOn
  <2>2. CASE i \in l + 1..l + n
    <3>1. i - l \in 1..n /\ all[i] = out[i - l]
      <4>1. i - l \in 1..n
        BY <2>2
      <4> QED
        BY <1>2, <2>2, <4>1
    <3>2. out[i - l] = (ring.next + (i - l) - 1) * step
      BY <1>2, <3>1 DEF FollowOn
    <3>3. ring.next + (i - l) - 1 = ring.first + i - 1
      BY <1>3
    <3> QED
      BY <3>1, <3>2, <3>3
  <2>3. i \in 1..l \/ i \in l + 1..l + n
    OBVIOUS
  <2> QED
    BY <2>1, <2>2, <2>3
<1>5. PICK excess \in Nat : excess = IF l + n > Capacity THEN l + n - Capacity ELSE 0
  <2>1. Capacity \in Nat
    BY MicrophoneAssumption
  <2>2. (IF l + n > Capacity THEN l + n - Capacity ELSE 0) \in Nat
    BY <2>1
  <2> QED
    BY <2>2
<1>6. /\ ring'.samples = SubSeq(all, excess + 1, l + n)
      /\ ring'.first = ring.first + excess
      /\ ring'.next = ring.next + n
  <2>1. Len(ring.samples \o out) = l + n
    BY <1>2
  <2>2. excess = IF Len(ring.samples \o out) > Capacity
                 THEN Len(ring.samples \o out) - Capacity ELSE 0
    <3>1. Capacity \in Nat
      BY MicrophoneAssumption
    <3> QED
      BY <1>5, <2>1, <3>1
  <2>3. ring' = [samples |-> SubSeq(ring.samples \o out, excess + 1, Len(ring.samples \o out)),
                 first |-> ring.first + excess, next |-> ring.next + Len(out)]
    BY <2>2 DEF Stored
  <2>4. /\ ring'.samples = SubSeq(ring.samples \o out, excess + 1, Len(ring.samples \o out))
        /\ ring'.first = ring.first + excess /\ ring'.next = ring.next + Len(out)
    <3> DEFINE s == SubSeq(ring.samples \o out, excess + 1, Len(ring.samples \o out))
               f == ring.first + excess
               x == ring.next + Len(out)
    <3>1. ring' = [samples |-> s, first |-> f, next |-> x]
      BY <2>3
    <3> HIDE DEF s, f, x
    <3>2. ring'.samples = s /\ ring'.first = f /\ ring'.next = x
      BY <3>1
    <3> QED
      BY <3>2 DEF s, f, x
  <2> QED
    BY <1>1, <2>1, <2>4
<1>7. excess <= l + n
  BY <1>5, MicrophoneAssumption
<1>8. PICK m \in Nat : m = l + n - excess
  BY <1>7
<1> HIDE DEF all
<1>9. /\ ring'.samples \in Seq(Int) /\ Len(ring'.samples) = m
      /\ \A i \in 1..m : ring'.samples[i] = all[excess + i]
  <2>1. \A i \in excess + 1..l + n : i \in 1..Len(all)
    BY <1>2
  <2>2. \A i \in 1..m : excess + 1 + i - 1 = excess + i
    OBVIOUS
  <2>3. SubSeq(all, excess + 1, l + n) \in Seq(Int)
    BY <1>2, <1>7, SubSeqProperties
  <2>4. Len(SubSeq(all, excess + 1, l + n)) = m
    BY <1>2, <1>7, <1>8, SubSeqProperties
  <2>5. \A i \in 1..m : SubSeq(all, excess + 1, l + n)[i] = all[excess + 1 + i - 1]
    BY <1>2, <1>7, <2>4, SubSeqProperties
  <2> QED
    BY <1>6, <2>2, <2>3, <2>4, <2>5
<1>10. FollowOn(ring'.samples, ring'.first, step)
  <2> SUFFICES ASSUME NEW i \in 1..m PROVE ring'.samples[i] = (ring'.first + i - 1) * step
    BY <1>9 DEF FollowOn
  <2>1. excess + i \in 1..l + n
    BY <1>8
  <2>2. ring'.samples[i] = (ring.first + (excess + i) - 1) * step
    BY <1>4, <1>9, <2>1
  <2>3. ring.first \in Nat /\ ring'.first = ring.first + excess
    BY <1>3, <1>6
  <2>4. ring.first + (excess + i) - 1 = ring'.first + i - 1
    BY <2>3
  <2> QED
    BY <2>2, <2>4
<1>11. ring'.first + m = ring'.next /\ m = Lesser(ring'.next, Capacity)
  <2>1. /\ ring.first \in Nat /\ ring.next = ring.first + l
        /\ l = IF ring.next < Capacity THEN ring.next ELSE Capacity
    BY <1>3 DEF Lesser
  <2>2. ring'.first = ring.first + excess
    BY <1>6
  <2>3. ring'.next = ring.next + n
    BY <1>6
  <2>4. Capacity \in Nat
    BY MicrophoneAssumption
  <2>5. \A next \in Nat : l = (IF next < Capacity THEN next ELSE Capacity) =>
                           m = IF next + n < Capacity THEN next + n ELSE Capacity
    BY <1>5, <1>8, <2>4
  <2>6. m = Lesser(ring'.next, Capacity)
    <3>1. ring.next \in Nat
      BY <2>1
    <3>2. m = IF ring.next + n < Capacity THEN ring.next + n ELSE Capacity
      BY <2>1, <2>5, <3>1
    <3> QED
      BY <2>3, <3>2 DEF Lesser
  <2>7. ring.first + excess + m = ring.first + l + n
    BY <1>8, <2>1
  <2> QED
    BY <2>1, <2>2, <2>3, <2>6, <2>7
<1>12. ring'.first \in Nat /\ ring'.next \in Nat
  <2>1. ring.first \in Nat /\ ring.next \in Nat
    BY <1>3
  <2>2. ring'.first = ring.first + excess
    BY <1>6
  <2>3. ring'.next = ring.next + n
    BY <1>6
  <2>4. ring'.first \in Nat
    BY <2>1, <2>2
  <2>5. ring'.next \in Nat
    BY <2>1, <2>3
  <2> QED BY <2>4, <2>5
<1> QED
  BY <1>1, <1>6, <1>9, <1>10, <1>11, <1>12 DEF RingInv

\* The arithmetic of a buffer: n more outputs, after which the position is that of the
\* next one.
LEMMA PositionsAgree ==
  ASSUME NEW P \in Nat \ {0}, NEW step \in Nat \ {0}, NEW gone \in Nat, NEW at \in Nat,
         NEW before \in Nat, NEW waiting \in Nat, NEW n \in Nat, NEW next \in Nat,
         before <= waiting,
         gone * P + at = next * step,
         next > 0 => (next - 1) * step + P < (gone + before) * P,
         at + n * step + P >= waiting * P,
         n > 0 => at + (n - 1) * step + P < waiting * P
  PROVE  /\ gone * P + at + n * step = (next + n) * step
         /\ next + n > 0 => (next + n - 1) * step + P < (gone + waiting) * P
         /\ (next + n) * step + P >= (gone + waiting) * P
<1>1. (next + n) * step = next * step + n * step
  OBVIOUS
<1>2. (gone + waiting) * P = gone * P + waiting * P
  OBVIOUS
<1>3. next * step \in Nat /\ n * step \in Nat /\ gone * P \in Nat /\ waiting * P \in Nat
  OBVIOUS
<1>4. CASE n > 0
  <2>1. (next + n - 1) * step = next * step + (n - 1) * step
    OBVIOUS
  <2>2. (n - 1) * step \in Int
    OBVIOUS
  <2> QED
    BY <1>1, <1>2, <1>3, <1>4, <2>1, <2>2
<1>5. CASE n = 0
  <2>1. n * step = 0 /\ next + n = next
    BY <1>5
  <2>2. (gone + before) * P <= (gone + waiting) * P
    <3>1. PICK d \in Nat : waiting = before + d
      <4>1. waiting - before \in Nat /\ waiting = before + (waiting - before)
        OBVIOUS
      <4> QED
        BY <4>1
    <3>2. (gone + before + d) * P = (gone + before) * P + d * P
      OBVIOUS
    <3>3. d * P >= 0 /\ (gone + before) * P \in Nat
      OBVIOUS
    <3> QED
      BY <3>1, <3>2, <3>3
  <2>3. (next - 1) * step \in Int /\ (gone + before) * P \in Nat
    OBVIOUS
  <2> QED
    BY <1>1, <1>2, <1>3, <2>1, <2>2, <2>3
<1> QED
  BY <1>4, <1>5

\* The samples that no later output needs: the last one is kept.
LEMMA UsedSamples ==
  ASSUME NEW P \in Nat \ {0}, NEW at \in Nat, NEW waiting \in Nat, NEW gone \in Nat
  PROVE  LET spent == IF waiting = 0 THEN 0 ELSE Lesser(at \div P, waiting - 1) IN
         /\ spent \in 0..waiting
         /\ at - spent * P \in Nat
         /\ (gone + spent) * P + (at - spent * P) = gone * P + at
<1> DEFINE spent == IF waiting = 0 THEN 0 ELSE Lesser(at \div P, waiting - 1)
<1>1. PICK q \in Nat : q = at \div P /\ q * P <= at
  <2>1. at \div P \in Nat /\ (at \div P) * P <= at
    OBVIOUS
  <2> QED
    BY <2>1
<1>2. spent \in 0..waiting /\ spent <= q
  BY <1>1 DEF Lesser
<1> HIDE DEF spent
<1>3. spent * P <= q * P
  <2>1. q - spent \in Nat
    BY <1>2
  <2>2. \A d \in Nat : (spent + d) * P = spent * P + d * P /\ d * P >= 0
    BY <1>2
  <2>3. spent * P \in Int
    BY <1>2
  <2> QED
    BY <1>2, <2>1, <2>2, <2>3
<1>4. spent * P \in Nat /\ q * P \in Nat /\ (gone + spent) * P = gone * P + spent * P
  BY <1>2
<1>5. gone * P \in Nat
  OBVIOUS
<1>6. /\ spent \in 0..waiting
      /\ at - spent * P \in Nat
      /\ (gone + spent) * P + (at - spent * P) = gone * P + at
  <2>1. PICK u \in Nat, g \in Nat : u = spent * P /\ g = gone * P /\ u <= at
    BY <1>1, <1>3, <1>4, <1>5
  <2>2. at - u \in Nat /\ g + u + (at - u) = g + at
    BY <2>1
  <2> QED
    BY <1>2, <1>4, <2>1, <2>2
<1> QED
  BY <1>6 DEF spent

LEMMA PushKeepsSampler ==
  ASSUME SamplerInv, PushBuffer
  PROVE  SamplerInv'
<1> DEFINE step == resampler.step
           gone == resampler.gone
           P == Parts
<1>1. /\ step \in Nat \ {0} /\ gone \in Nat /\ resampler.at \in Nat /\ resampler.waiting \in Nat
      /\ resampler = [step |-> step, at |-> resampler.at, waiting |-> resampler.waiting,
                      gone |-> gone]
  BY DEF SamplerInv, ResamplerType
<1>2. P \in Nat \ {0} /\ BufferSizes \subseteq Nat
  BY MicrophoneAssumption
<1>3. PICK size \in BufferSizes :
          LET waiting == resampler.waiting + size
              out == Outputs(resampler, waiting)
              at == resampler.at + Len(out) * resampler.step
              spent == IF waiting = 0 THEN 0 ELSE Lesser(at \div Parts, waiting - 1) IN
          /\ resampler' = [resampler EXCEPT !.at = at - spent * Parts,
                               !.waiting = waiting - spent, !.gone = @ + spent]
          /\ ring' = Stored(ring.samples, out)
  BY DEF PushBuffer
<1> DEFINE waiting == resampler.waiting + size
           out == Outputs(resampler, waiting)
           n == Len(out)
           at == resampler.at + n * step
           spent == IF waiting = 0 THEN 0 ELSE Lesser(at \div P, waiting - 1)
<1>4. waiting \in Nat /\ resampler.waiting <= waiting
  BY <1>1, <1>2
<1>5. /\ n \in Nat /\ DOMAIN out = 1..n
      /\ \A k \in 1..n : out[k] = gone * P + resampler.at + (k - 1) * step
      /\ resampler.at + n * step + P >= waiting * P
      /\ n > 0 => resampler.at + (n - 1) * step + P < waiting * P
  BY <1>4, BufferOutputs DEF SamplerInv
<1>6. /\ resampler'.at = at - spent * P
      /\ resampler'.waiting = waiting - spent
      /\ resampler'.gone = gone + spent
      /\ resampler'.step = step
      /\ resampler' = [step |-> step, at |-> at - spent * P, waiting |-> waiting - spent,
                       gone |-> gone + spent]
  <2> DEFINE a == at - spent * P
             w == waiting - spent
             g == gone + spent
  <2>1. resampler' = [resampler EXCEPT !.at = a, !.waiting = w, !.gone = g]
    BY <1>3
  <2> HIDE DEF a, w, g
  <2>2. resampler' = [step |-> step, at |-> a, waiting |-> w, gone |-> g]
    BY <1>1, <2>1
  <2> HIDE DEF step
  <2>3. resampler'.at = a /\ resampler'.waiting = w /\ resampler'.gone = g /\ resampler'.step = step
    BY <2>2
  <2> QED
    BY <2>2, <2>3 DEF a, w, g
<1>7. ring' = Stored(ring.samples, out)
  BY <1>3
<1>8. /\ gone * P + resampler.at = ring.next * step
      /\ gone + resampler.waiting = 0 => ring.next = 0
      /\ ring.next > 0 => (ring.next - 1) * step + P < (gone + resampler.waiting) * P
      /\ ring.next \in Nat /\ RingInv
  BY DEF SamplerInv, ResamplerAligned, RingInv
<1> HIDE DEF out, n, step, gone, P
<1>9. at \in Nat
  BY <1>1, <1>5
<1> HIDE DEF waiting
<1>10. /\ gone * P + at = (ring.next + n) * step
       /\ ring.next + n > 0 => (ring.next + n - 1) * step + P < (gone + waiting) * P
       /\ (ring.next + n) * step + P >= (gone + waiting) * P
  <2>1. /\ gone * P + resampler.at + n * step = (ring.next + n) * step
        /\ ring.next + n > 0 => (ring.next + n - 1) * step + P < (gone + waiting) * P
        /\ (ring.next + n) * step + P >= (gone + waiting) * P
    BY <1>1, <1>2, <1>4, <1>5, <1>8, PositionsAgree
  <2>2. gone * P \in Nat /\ n * step \in Nat
    BY <1>1, <1>2, <1>5
  <2> QED
    BY <1>1, <2>1, <2>2
<1> HIDE DEF at, spent
<1>11. /\ spent \in 0..waiting /\ at - spent * P \in Nat
       /\ (gone + spent) * P + (at - spent * P) = gone * P + at
  BY <1>1, <1>2, <1>4, <1>9, UsedSamples DEF spent
<1>12. out \in Seq(Int) /\ FollowOn(out, ring.next, step)
  <2>1. \A k \in 1..n : out[k] = (ring.next + k - 1) * step
    <3> SUFFICES ASSUME NEW k \in 1..n PROVE out[k] = (ring.next + k - 1) * step
      OBVIOUS
    <3>1. (ring.next + k - 1) * step = ring.next * step + (k - 1) * step
      BY <1>1, <1>8
    <3> QED
      BY <1>5, <1>8, <3>1
  <2>2. \A k \in 1..n : (ring.next + k - 1) * step \in Int
    BY <1>1, <1>8
  <2>3. out = [k \in 1..n |-> out[k]]
    BY <1>5 DEF out, Outputs
  <2>4. out \in Seq(Int)
    BY <1>5, <2>1, <2>2, <2>3
  <2> QED
    BY <1>5, <2>1, <2>4 DEF FollowOn
<1>13. RingInv' /\ ring'.next = ring.next + n
  BY <1>6, <1>7, <1>8, <1>12, RingTakes DEF SamplerInv, step, n
<1>14. ResamplerType'
  BY <1>1, <1>4, <1>6, <1>11 DEF ResamplerType
<1>15. resampler'.gone + resampler'.waiting = gone + waiting
  BY <1>1, <1>4, <1>6, <1>11
<1>16. ResamplerAligned'
  <2>1. gone + waiting = 0 => ring.next + n = 0
    <3> SUFFICES ASSUME gone + waiting = 0 PROVE ring.next + n = 0
      OBVIOUS
    <3>1. gone = 0 /\ waiting = 0 /\ resampler.waiting = 0
      BY <1>1, <1>4
    <3>2. ring.next = 0
      BY <1>8, <3>1
    <3>3. n > 0 => resampler.at + (n - 1) * step + P < 0
      BY <1>2, <1>5, <3>1
    <3>4. n > 0 => (n - 1) * step >= 0
      BY <1>1, <1>5
    <3> QED
      BY <1>1, <1>2, <1>5, <3>2, <3>3, <3>4
  <2>2. resampler'.gone * P + resampler'.at = ring'.next * resampler'.step
    BY <1>6, <1>10, <1>11, <1>13
  <2>3. ring'.next = ring.next + n /\ resampler'.step = step
    BY <1>6, <1>13
  <2>4. PICK k \in Nat, input \in Nat : k = ring.next + n /\ input = gone + waiting
    <3>1. ring.next \in Nat
      BY <1>8
    <3>2. n \in Nat /\ gone \in Nat /\ waiting \in Nat
      BY <1>1, <1>4, <1>5
    <3> QED
      BY <3>1, <3>2
  <2>5. /\ input = 0 => k = 0
        /\ k > 0 => (k - 1) * step + P < input * P
        /\ k * step + P >= input * P
    <3>1. k > 0 => (ring.next + n - 1) * step + P < (gone + waiting) * P
      BY <1>10, <2>4
    <3>2. ring.next + n - 1 = k - 1
      <4>1. ring.next \in Nat
        BY <1>8
      <4>2. n \in Nat
        BY <1>5
      <4> QED
        BY <2>4, <4>1, <4>2
    <3>3. (ring.next + n) * step + P >= (gone + waiting) * P
      BY <1>10
    <3> QED
      BY <2>1, <2>4, <3>1, <3>2, <3>3
  <2>6. k = ring'.next /\ input = resampler'.gone + resampler'.waiting /\ step = resampler'.step
    BY <1>15, <2>3, <2>4
  <2> QED
    BY <2>2, <2>5, <2>6 DEF ResamplerAligned, P
<1>17. ListenerInv'
  <2>1. UNCHANGED listener
    BY DEF PushBuffer
  <2>2. \A c \in 0..ring.next : c \in 0..ring'.next
    BY <1>5, <1>8, <1>13
  <2> QED
    BY <1>6, <2>1, <2>2 DEF SamplerInv, ListenerInv, step
<1> QED
  BY <1>13, <1>14, <1>16, <1>17 DEF SamplerInv

LEMMA ListenKeepsSampler ==
  ASSUME SamplerInv, Listen
  PROVE  SamplerInv'
<1> DEFINE from == IF listener.cursor < ring.first THEN ring.first ELSE listener.cursor
<1>1. /\ UNCHANGED <<resampler, ring, voice>>
      /\ listener' = [cursor |-> ring.next, from |-> from,
                      heard |-> SubSeq(ring.samples, from - ring.first + 1, Len(ring.samples))]
  BY DEF Listen
<1>2. /\ ring.first \in Nat /\ ring.next \in Nat /\ ring.samples \in Seq(Int)
      /\ ring.first + Len(ring.samples) = ring.next
      /\ FollowOn(ring.samples, ring.first, resampler.step)
      /\ listener.cursor \in 0..ring.next
  BY DEF SamplerInv, RingInv, ListenerInv
<1>3. PICK l \in Nat : l = Len(ring.samples) /\ ring.first + l = ring.next
                       /\ DOMAIN ring.samples = 1..l
  BY <1>2
<1>4. from \in ring.first..ring.next
  BY <1>2, <1>3
<1> HIDE DEF from
<1>5. PICK b \in Nat, m \in Nat : b = from - ring.first /\ b + m = l
  <2>1. from - ring.first \in Nat /\ l - (from - ring.first) \in Nat
    <3>1. ring.first \in Nat
      BY <1>2
    <3>2. ring.next = ring.first + l
      BY <1>3
    <3> QED
      BY <1>4, <3>1, <3>2
  <2>2. (from - ring.first) + (l - (from - ring.first)) = l
    BY <1>2, <1>4
  <2> QED
    BY <2>1, <2>2
<1> DEFINE heard == SubSeq(ring.samples, b + 1, l)
<1>6. /\ heard \in Seq(Int) /\ Len(heard) = m
      /\ \A i \in 1..m : heard[i] = ring.samples[b + i]
  <2>1. \A i \in b + 1..l : ring.samples[i] \in Int
    BY <1>2, <1>3
  <2>2. \A i \in 1..m : b + 1 + i - 1 = b + i
    OBVIOUS
  <2>3. l - (b + 1) + 1 = m /\ (b + 1 <= l => l - (b + 1) + 1 = m) /\ (~(b + 1 <= l) => m = 0)
    BY <1>5
  <2>4. heard \in Seq(Int)
    BY <2>1, SubSeqProperties
  <2>5. Len(heard) = m
    BY <2>1, <2>3, SubSeqProperties
  <2>6. \A i \in 1..m : heard[i] = ring.samples[b + 1 + i - 1]
    BY <2>1, <2>3, SubSeqProperties
  <2> QED
    BY <2>2, <2>4, <2>5, <2>6
<1>7. /\ listener'.cursor = ring.next /\ listener'.from = from
      /\ listener'.heard = heard
  <2>1. listener' = [cursor |-> ring.next, from |-> from, heard |-> heard]
    BY <1>1, <1>3, <1>5
  <2> HIDE DEF heard
  <2> QED
    BY <2>1
<1> HIDE DEF heard
<1>8. FollowOn(heard, from, resampler.step)
  <2> SUFFICES ASSUME NEW i \in 1..m PROVE heard[i] = (from + i - 1) * resampler.step
    BY <1>6 DEF FollowOn
  <2>1. b + i \in 1..l
    BY <1>5
  <2>2. ring.samples[b + i] = (ring.first + (b + i) - 1) * resampler.step
    BY <1>2, <1>3, <2>1 DEF FollowOn
  <2>3. ring.first + (b + i) - 1 = from + i - 1
    <3>1. ring.first \in Nat /\ ring.next \in Nat
      BY <1>2
    <3>2. b = from - ring.first
      BY <1>5
    <3> QED
      BY <1>4, <3>1, <3>2
  <2> QED
    BY <1>6, <2>2, <2>3
<1>9. from + m = ring.next
  BY <1>2, <1>3, <1>4, <1>5
<1>10. ListenerInv'
  <2>1. from \in Nat /\ ring.next \in 0..ring.next
    BY <1>2, <1>4
  <2> QED
    BY <1>1, <1>6, <1>7, <1>8, <1>9, <2>1 DEF ListenerInv
<1>11. ResamplerType' /\ ResamplerAligned' /\ RingInv'
  BY <1>1 DEF SamplerInv, ResamplerType, ResamplerAligned, RingInv
<1> QED
  BY <1>10, <1>11 DEF SamplerInv

LEMMA SamplerWhole ==
  ASSUME SamplerInv
  PROVE  ResamplingIsSeamless /\ ListenerMissesNothing
<1>1. ResamplingIsSeamless
  BY DEF SamplerInv, ResamplerAligned, RingInv, FollowOn, ResamplingIsSeamless
<1>2. ListenerMissesNothing
  BY DEF SamplerInv, ListenerInv, FollowOn, ListenerMissesNothing
<1> QED
  BY <1>1, <1>2

-----------------------------------------------------------------------------
(***************************************************************************)
(* The detector of speech: its counters are the lengths of the last runs   *)
(* of frames that are alike, each cut off by a frame that is not.          *)
(***************************************************************************)

Was(frames, i) == IF i = 1 THEN "silent" ELSE frames[i - 1].state

\* A frame that counts towards the beginning of speech.
Begins(frames, i) == frames[i].speech /\ Was(frames, i) = "silent"

Frame == [speech : BOOLEAN, state : {"silent", "speaking", "ended"}]

\* The frames a counter counts, and the one that cut the run off.
SpeechCounted(frames, n, k) ==
    /\ k \in 0..n /\ k < StartFrames
    /\ \A i \in n - k + 1..n : Begins(frames, i)
    /\ k < n => ~Begins(frames, n - k)

SilenceCounted(frames, n, k) ==
    /\ k \in Nat /\ k < n /\ k < EndFrames
    /\ \A i \in n - k + 1..n : ~frames[i].speech
    /\ frames[n - k].speech

\* SpeechIsBounded, of frames after the first.
Bounded(heard, m, after) ==
    /\ Was(heard, m) = "silent" =>
          after = IF m >= StartFrames /\ \A i \in m - StartFrames + 1..m : Begins(heard, i)
                  THEN "speaking" ELSE "silent"
    /\ Was(heard, m) = "speaking" =>
          after = IF m >= EndFrames /\ \A i \in m - EndFrames + 1..m : ~heard[i].speech
                  THEN "ended" ELSE "speaking"
    /\ Was(heard, m) = "ended" => after = "silent"

VoiceInv ==
    LET n == Len(voice.frames) IN
    /\ voice = [state |-> voice.state, speech |-> voice.speech, silence |-> voice.silence,
                frames |-> voice.frames]
    /\ voice.frames \in Seq(Frame)
    /\ voice.state = Was(voice.frames, n + 1)
    /\ voice.state \in {"silent", "speaking", "ended"}
    /\ voice.state = "silent" => SpeechCounted(voice.frames, n, voice.speech)
    /\ voice.state = "speaking" => SilenceCounted(voice.frames, n, voice.silence)
    /\ n > 0 => Bounded(voice.frames, n, voice.state)

LEMMA VoiceStarts ==
  ASSUME MicrophoneInit
  PROVE  VoiceInv
<1>1. /\ voice.state = "silent" /\ voice.speech = 0 /\ voice.frames = << >>
      /\ voice = [state |-> voice.state, speech |-> voice.speech, silence |-> voice.silence,
                  frames |-> voice.frames]
  BY DEF MicrophoneInit
<1>2. Len(<< >>) = 0 /\ << >> \in Seq(Frame)
  OBVIOUS
<1>3. SpeechCounted(<< >>, 0, 0)
  BY MicrophoneAssumption DEF SpeechCounted
<1> QED
  BY <1>1, <1>2, <1>3 DEF VoiceInv, Was

\* What a frame leaves of the frames before it.
LEMMA FramesGrow ==
  ASSUME NEW frames \in Seq(Frame), NEW frame \in Frame, NEW n \in Nat, n = Len(frames)
  PROVE  LET all == Append(frames, frame) IN
         /\ all \in Seq(Frame) /\ Len(all) = n + 1 /\ all[n + 1] = frame
         /\ \A i \in 1..n : all[i] = frames[i]
         /\ \A i \in 1..n + 1 : Was(all, i) = Was(frames, i)
         /\ \A i \in 1..n : Begins(all, i) <=> Begins(frames, i)
         /\ Begins(all, n + 1) <=> frame.speech /\ Was(frames, n + 1) = "silent"
         /\ Was(all, n + 2) = frame.state
<1> DEFINE all == Append(frames, frame)
<1>1. /\ all \in Seq(Frame) /\ Len(all) = n + 1 /\ all[n + 1] = frame
      /\ \A i \in 1..n : all[i] = frames[i]
  BY AppendProperties
<1> HIDE DEF all
<1>2. \A i \in 1..n + 1 : Was(all, i) = Was(frames, i)
  <2> SUFFICES ASSUME NEW i \in 1..n + 1, i # 1 PROVE all[i - 1] = frames[i - 1]
    BY DEF Was
  <2> QED
    BY <1>1
<1>3. \A i \in 1..n : Begins(all, i) <=> Begins(frames, i)
  BY <1>1, <1>2 DEF Begins
<1>4. Begins(all, n + 1) <=> frame.speech /\ Was(frames, n + 1) = "silent"
  BY <1>1, <1>2 DEF Begins
<1>5. Was(all, n + 2) = frame.state
  BY <1>1 DEF Was
<1> QED
  BY <1>1, <1>2, <1>3, <1>4, <1>5 DEF all

\* The run of frames of speech goes on, up to the number that begins the speech.
LEMMA SpeechGoesOn ==
  ASSUME NEW frames, NEW all, NEW n \in Nat, NEW k, SpeechCounted(frames, n, k),
         \A i \in 1..n : Begins(all, i) <=> Begins(frames, i), Begins(all, n + 1)
  PROVE  LET begun == /\ n + 1 >= StartFrames
                      /\ \A i \in (n + 1) - StartFrames + 1..n + 1 : Begins(all, i) IN
         /\ k + 1 >= StartFrames <=> begun
         /\ k + 1 < StartFrames => SpeechCounted(all, n + 1, k + 1)
<1>1. StartFrames \in Nat \ {0}
  BY MicrophoneAssumption
<1>2. /\ k \in 0..n /\ k < StartFrames
      /\ \A i \in n - k + 1..n : Begins(frames, i)
      /\ k < n => ~Begins(frames, n - k)
  BY DEF SpeechCounted
<1>3. \A i \in n - k + 1..n + 1 : Begins(all, i)
  <2> SUFFICES ASSUME NEW i \in n - k + 1..n + 1, i # n + 1 PROVE Begins(all, i)
    OBVIOUS
  <2>1. i \in n - k + 1..n /\ i \in 1..n
    BY <1>2
  <2> QED
    BY <1>2, <2>1
<1>4. k < n => ~Begins(all, n - k)
  <2>1. k < n => n - k \in 1..n
    BY <1>2
  <2> QED
    BY <1>2, <2>1
<1>5. CASE k + 1 >= StartFrames
  <2>1. StartFrames = k + 1 /\ n + 1 >= StartFrames /\ n + 1 - StartFrames + 1 = n - k + 1
    BY <1>1, <1>2, <1>5
  <2> QED
    BY <1>2, <1>1, <1>3, <2>1
<1>6. CASE k + 1 < StartFrames
  <2>1. CASE k < n
    <3>1. n - k \in (n + 1) - StartFrames + 1..n + 1
      BY <1>1, <1>2, <1>6, <2>1
    <3>2. k + 1 \in 0..n + 1 /\ n + 1 - (k + 1) = n - k
      BY <1>2
    <3> QED
      BY <1>1, <1>2, <1>3, <1>4, <1>6, <2>1, <3>1, <3>2 DEF SpeechCounted
  <2>2. CASE k = n
    <3>1. k + 1 \in 0..n + 1 /\ n + 1 - (k + 1) = n - k /\ ~(n + 1 >= StartFrames)
          /\ ~(k + 1 < n + 1)
      BY <1>1, <1>2, <1>6, <2>2
    <3> QED
      BY <1>1, <1>2, <1>3, <1>6, <2>2, <3>1 DEF SpeechCounted
  <2> QED
    BY <1>2, <2>1, <2>2
<1> QED
  BY <1>1, <1>2, <1>5, <1>6

\* The run of silent frames goes on, up to the number that ends the speech.
LEMMA SilenceGoesOn ==
  ASSUME NEW frames, NEW all, NEW n \in Nat, NEW k, SilenceCounted(frames, n, k),
         \A i \in 1..n : all[i] = frames[i], ~all[n + 1].speech
  PROVE  LET over == /\ n + 1 >= EndFrames
                     /\ \A i \in (n + 1) - EndFrames + 1..n + 1 : ~all[i].speech IN
         /\ k + 1 >= EndFrames <=> over
         /\ k + 1 < EndFrames => SilenceCounted(all, n + 1, k + 1)
<1>1. EndFrames \in Nat \ {0}
  BY MicrophoneAssumption
<1>2. /\ k \in Nat /\ k < n /\ k < EndFrames
      /\ \A i \in n - k + 1..n : ~frames[i].speech
      /\ frames[n - k].speech
  BY DEF SilenceCounted
<1>3. \A i \in n - k + 1..n + 1 : ~all[i].speech
  <2> SUFFICES ASSUME NEW i \in n - k + 1..n + 1, i # n + 1 PROVE ~all[i].speech
    OBVIOUS
  <2>1. i \in n - k + 1..n /\ i \in 1..n
    BY <1>2
  <2> QED
    BY <1>2, <2>1
<1>4. all[n - k].speech
  <2>1. n - k \in 1..n
    BY <1>2
  <2> QED
    BY <1>2, <2>1
<1>5. CASE k + 1 >= EndFrames
  <2>1. EndFrames = k + 1 /\ n + 1 >= EndFrames /\ n + 1 - EndFrames + 1 = n - k + 1
    BY <1>1, <1>2, <1>5
  <2> QED
    BY <1>2, <1>1, <1>3, <2>1
<1>6. CASE k + 1 < EndFrames
  <2>1. n - k \in (n + 1) - EndFrames + 1..n + 1
    BY <1>1, <1>2, <1>6
  <2>2. k + 1 \in Nat /\ k + 1 < n + 1 /\ n + 1 - (k + 1) = n - k
    BY <1>2
  <2> QED
    BY <1>1, <1>2, <1>3, <1>4, <1>6, <2>1, <2>2 DEF SilenceCounted
<1> QED
  BY <1>1, <1>2, <1>5, <1>6

\* A frame is taken: what is left to show of it.
LEMMA FrameTaken ==
  ASSUME VoiceInv, NEW speech \in BOOLEAN, NEW state \in {"silent", "speaking", "ended"},
         NEW spoken, NEW silence, NEW n \in Nat, n = Len(voice.frames), NEW all,
         all = Append(voice.frames, [speech |-> speech, state |-> state]),
         voice' = [state |-> state, speech |-> spoken, silence |-> silence, frames |-> all],
         state = "silent" => SpeechCounted(all, n + 1, spoken),
         state = "speaking" => SilenceCounted(all, n + 1, silence),
         Bounded(all, n + 1, state)
  PROVE  VoiceInv'
<1>1. voice.frames \in Seq(Frame) /\ [speech |-> speech, state |-> state] \in Frame
  BY DEF VoiceInv, Frame
<1>2. all \in Seq(Frame) /\ Len(all) = n + 1 /\ Was(all, n + 2) = state
  <2>1. [speech |-> speech, state |-> state].state = state
    OBVIOUS
  <2> QED
    BY <1>1, <2>1, FramesGrow
<1>3. /\ voice'.state = state /\ voice'.speech = spoken
      /\ voice'.silence = silence /\ voice'.frames = all
  OBVIOUS
<1>4. n + 1 + 1 = n + 2
  OBVIOUS
<1> QED
  BY <1>2, <1>3, <1>4 DEF VoiceInv

LEMMA VoiceStep ==
  ASSUME VoiceInv, HearFrame
  PROVE  VoiceInv'
<1>1. StartFrames \in Nat \ {0} /\ EndFrames \in Nat \ {0}
  BY MicrophoneAssumption
<1> DEFINE frames == voice.frames
<1>2. PICK n \in Nat : n = Len(frames)
  BY DEF VoiceInv
<1>3. /\ frames \in Seq(Frame) /\ voice.state = Was(frames, n + 1)
      /\ voice.state \in {"silent", "speaking", "ended"}
      /\ voice.state = "silent" => SpeechCounted(frames, n, voice.speech)
      /\ voice.state = "speaking" => SilenceCounted(frames, n, voice.silence)
  BY <1>2 DEF VoiceInv
<1>4. voice = [state |-> voice.state, speech |-> voice.speech, silence |-> voice.silence,
               frames |-> frames]
  BY DEF VoiceInv
<1>5. PICK speech \in BOOLEAN :
         voice' = [Heard(voice, speech) EXCEPT !.frames =
                      Append(@, [speech |-> speech, state |-> Heard(voice, speech).state])]
  BY DEF HearFrame
<1> DEFINE all(state) == Append(frames, [speech |-> speech, state |-> state])
<1>6. ASSUME NEW state \in {"silent", "speaking", "ended"}
      PROVE  /\ \A i \in 1..n : all(state)[i] = frames[i]
             /\ all(state)[n + 1].speech <=> speech
             /\ Was(all(state), n + 1) = voice.state
             /\ \A i \in 1..n : Begins(all(state), i) <=> Begins(frames, i)
             /\ Begins(all(state), n + 1) <=> speech /\ voice.state = "silent"
  <2>1. /\ [speech |-> speech, state |-> state] \in Frame
        /\ [speech |-> speech, state |-> state].speech = speech
    BY DEF Frame
  <2>2. n + 1 \in 1..n + 1
    OBVIOUS
  <2> QED
    BY <1>2, <1>3, <2>1, <2>2, FramesGrow
<1>7. ASSUME NEW state \in {"silent", "speaking", "ended"}, NEW spoken, NEW silence,
             Heard(voice, speech) = [state |-> state, speech |-> spoken,
                                     silence |-> silence, frames |-> frames],
             state = "silent" => SpeechCounted(all(state), n + 1, spoken),
             state = "speaking" => SilenceCounted(all(state), n + 1, silence),
             Bounded(all(state), n + 1, state)
      PROVE  VoiceInv'
  <2>1. Heard(voice, speech).state = state
    BY <1>7
  <2>2. voice' = [state |-> state, speech |-> spoken, silence |-> silence,
                  frames |-> all(state)]
    <3> DEFINE heard == [state |-> state, speech |-> spoken, silence |-> silence,
                         frames |-> frames]
               last == [speech |-> speech, state |-> state]
    <3>1. voice' = [heard EXCEPT !.frames = Append(@, last)]
      BY <1>5, <1>7, <2>1
    <3> HIDE DEF last
    <3>2. voice' = [state |-> state, speech |-> spoken, silence |-> silence,
                    frames |-> Append(frames, last)]
      BY <3>1
    <3> QED
      BY <3>2 DEF last
  <2> HIDE DEF all
  <2>3. all(state) = Append(voice.frames, [speech |-> speech, state |-> state])
    BY DEF all
  <2> QED
    BY <1>2, <1>7, <2>2, <2>3, FrameTaken
<1>8. CASE voice.state = "silent" /\ speech
  <2> DEFINE k == voice.speech
             state == IF k + 1 >= StartFrames THEN "speaking" ELSE "silent"
  <2>1. Heard(voice, speech) = [state |-> state, speech |-> k + 1, silence |-> 0,
                                frames |-> frames]
    BY <1>4, <1>8 DEF Heard
  <2>2. state \in {"silent", "speaking", "ended"}
    OBVIOUS
  <2>3. SpeechCounted(frames, n, k)
    BY <1>3, <1>8
  <2> HIDE DEF state, k, all
  <2>4. /\ k + 1 >= StartFrames <=> /\ n + 1 >= StartFrames
                                    /\ \A i \in (n + 1) - StartFrames + 1..n + 1 : Begins(all(state), i)
        /\ k + 1 < StartFrames => SpeechCounted(all(state), n + 1, k + 1)
    BY <1>6, <1>8, <2>2, <2>3, SpeechGoesOn
  <2>5. Bounded(all(state), n + 1, state)
    <3>1. PICK a : a = all(state) /\ Was(a, n + 1) = "silent"
      BY <1>6, <1>8, <2>2
    <3>2. k + 1 >= StartFrames <=> /\ n + 1 >= StartFrames
                                   /\ \A i \in (n + 1) - StartFrames + 1..n + 1 : Begins(a, i)
      BY <2>4, <3>1
    <3>3. (k + 1 >= StartFrames => state = "speaking") /\ (~(k + 1 >= StartFrames) => state = "silent")
      BY DEF state
    <3>4. Was(a, n + 1) # "speaking" /\ Was(a, n + 1) # "ended"
      BY <3>1
    <3>5. state = IF /\ n + 1 >= StartFrames
                     /\ \A i \in (n + 1) - StartFrames + 1..n + 1 : Begins(a, i)
                  THEN "speaking" ELSE "silent"
      BY <3>2, <3>3, Zenon
    <3> QED
      BY <3>1, <3>4, <3>5, Zenon DEF Bounded
  <2>6. state = "silent" => SpeechCounted(all(state), n + 1, k + 1)
    <3>1. state = "silent" => k + 1 < StartFrames
      BY <1>1, <2>3 DEF state, SpeechCounted
    <3> QED
      BY <2>4, <3>1
  <2>7. state = "speaking" => SilenceCounted(all(state), n + 1, 0)
    <3>1. n + 1 - 0 = n + 1 /\ ~\E i : i \in n + 1 - 0 + 1..n + 1
      OBVIOUS
    <3>2. all(state)[n + 1].speech
      BY <1>6, <1>8, <2>2
    <3> QED
      BY <1>1, <3>1, <3>2 DEF SilenceCounted
  <2> QED
    BY <1>7, <2>1, <2>2, <2>5, <2>6, <2>7
<1>9. ASSUME NEW state \in {"silent", "speaking", "ended"},
             ~speech \/ voice.state # "silent"
      PROVE  SpeechCounted(all(state), n + 1, 0)
  <2> HIDE DEF all
  <2>1. n + 1 - 0 = n + 1 /\ ~\E i : i \in n + 1 - 0 + 1..n + 1
    OBVIOUS
  <2> QED
    BY <1>1, <1>6, <1>9, <2>1 DEF SpeechCounted
<1>10. CASE voice.state = "silent" /\ ~speech
  <2>1. Heard(voice, speech) = [state |-> "silent", speech |-> 0, silence |-> voice.silence,
                                frames |-> frames]
    BY <1>4, <1>10 DEF Heard
  <2> HIDE DEF all
  <2>2. SpeechCounted(all("silent"), n + 1, 0)
    BY <1>9, <1>10
  <2>3. Bounded(all("silent"), n + 1, "silent")
    <3>1. n + 1 >= StartFrames => n + 1 \in (n + 1) - StartFrames + 1..n + 1
      BY <1>1
    <3>2. Was(all("silent"), n + 1) = "silent" /\ ~Begins(all("silent"), n + 1)
      BY <1>6, <1>10
    <3>3. Was(all("silent"), n + 1) # "speaking" /\ Was(all("silent"), n + 1) # "ended"
      BY <3>2
    <3>4. "silent" = IF /\ n + 1 >= StartFrames
                        /\ \A i \in (n + 1) - StartFrames + 1..n + 1 : Begins(all("silent"), i)
                     THEN "speaking" ELSE "silent"
      BY <3>1, <3>2, Zenon
    <3> QED
      BY <3>2, <3>3, <3>4, Zenon DEF Bounded
  <2> QED
    BY <1>7, <2>1, <2>2, <2>3
<1>11. CASE voice.state = "speaking" /\ speech
  <2>1. Heard(voice, speech) = [state |-> "speaking", speech |-> voice.speech, silence |-> 0,
                                frames |-> frames]
    BY <1>4, <1>11 DEF Heard
  <2> HIDE DEF all
  <2>2. SilenceCounted(all("speaking"), n + 1, 0)
    <3>1. n + 1 - 0 = n + 1 /\ ~\E i : i \in n + 1 - 0 + 1..n + 1
      OBVIOUS
    <3>2. all("speaking")[n + 1].speech
      BY <1>6, <1>11
    <3> QED
      BY <1>1, <3>1, <3>2 DEF SilenceCounted
  <2>3. Bounded(all("speaking"), n + 1, "speaking")
    <3>1. n + 1 >= EndFrames => n + 1 \in (n + 1) - EndFrames + 1..n + 1
      BY <1>1
    <3>2. Was(all("speaking"), n + 1) = "speaking" /\ all("speaking")[n + 1].speech
      BY <1>6, <1>11
    <3>3. Was(all("speaking"), n + 1) # "silent" /\ Was(all("speaking"), n + 1) # "ended"
      BY <3>2
    <3>4. "speaking" = IF /\ n + 1 >= EndFrames
                          /\ \A i \in (n + 1) - EndFrames + 1..n + 1 : ~all("speaking")[i].speech
                       THEN "ended" ELSE "speaking"
      BY <3>1, <3>2, Zenon
    <3> QED
      BY <3>2, <3>3, <3>4, Zenon DEF Bounded
  <2> QED
    BY <1>7, <2>1, <2>2, <2>3
<1>12. CASE voice.state = "speaking" /\ ~speech
  <2> DEFINE k == voice.silence
             state == IF k + 1 >= EndFrames THEN "ended" ELSE "speaking"
  <2>1. Heard(voice, speech) = [state |-> state, speech |-> voice.speech, silence |-> k + 1,
                                frames |-> frames]
    BY <1>4, <1>12 DEF Heard
  <2>2. state \in {"silent", "speaking", "ended"}
    OBVIOUS
  <2>3. SilenceCounted(frames, n, k)
    BY <1>3, <1>12
  <2> HIDE DEF state, k, all
  <2>4. /\ k + 1 >= EndFrames <=> /\ n + 1 >= EndFrames
                                  /\ \A i \in (n + 1) - EndFrames + 1..n + 1 : ~all(state)[i].speech
        /\ k + 1 < EndFrames => SilenceCounted(all(state), n + 1, k + 1)
    BY <1>6, <1>12, <2>2, <2>3, SilenceGoesOn
  <2>5. Bounded(all(state), n + 1, state)
    <3>1. PICK a : a = all(state) /\ Was(a, n + 1) = "speaking"
      BY <1>6, <1>12, <2>2
    <3>2. k + 1 >= EndFrames <=> /\ n + 1 >= EndFrames
                                 /\ \A i \in (n + 1) - EndFrames + 1..n + 1 : ~a[i].speech
      BY <2>4, <3>1
    <3>3. (k + 1 >= EndFrames => state = "ended") /\ (~(k + 1 >= EndFrames) => state = "speaking")
      BY DEF state
    <3>4. Was(a, n + 1) # "silent" /\ Was(a, n + 1) # "ended"
      BY <3>1
    <3>5. state = IF /\ n + 1 >= EndFrames
                     /\ \A i \in (n + 1) - EndFrames + 1..n + 1 : ~a[i].speech
                  THEN "ended" ELSE "speaking"
      BY <3>2, <3>3, Zenon
    <3> QED
      BY <3>1, <3>4, <3>5, Zenon DEF Bounded
  <2>6. state = "speaking" => SilenceCounted(all(state), n + 1, k + 1)
    <3>1. state = "speaking" => k + 1 < EndFrames
      BY <1>1, <2>3 DEF state, SilenceCounted
    <3> QED
      BY <2>4, <3>1
  <2>7. state # "silent"
    BY DEF state
  <2> QED
    BY <1>7, <2>1, <2>2, <2>5, <2>6, <2>7
<1>13. CASE voice.state = "ended"
  <2>1. Heard(voice, speech) = [state |-> "silent", speech |-> 0, silence |-> 0,
                                frames |-> frames]
    BY <1>4, <1>13 DEF Heard
  <2> HIDE DEF all
  <2>2. SpeechCounted(all("silent"), n + 1, 0)
    BY <1>9, <1>13
  <2>3. Bounded(all("silent"), n + 1, "silent")
    BY <1>6, <1>13 DEF Bounded
  <2> QED
    BY <1>7, <2>1, <2>2, <2>3
<1> QED
  BY <1>3, <1>8, <1>10, <1>11, <1>12, <1>13

LEMMA VoiceHeard ==
  ASSUME VoiceInv
  PROVE  SpeechIsBounded
<1>1. PICK n \in Nat : n = Len(voice.frames)
  BY DEF VoiceInv
<1>2. voice.frames \in Seq(Frame) /\ DOMAIN voice.frames = 1..n
  BY <1>1 DEF VoiceInv
<1>3. \A i \in 1..n : voice.frames[i].speech \in BOOLEAN
  <2>1. \A i \in 1..n : voice.frames[i] \in Frame
    BY <1>2
  <2> QED
    BY <2>1 DEF Frame
<1>4. StartFrames \in Nat \ {0} /\ EndFrames \in Nat \ {0}
  BY MicrophoneAssumption
<1>5. \A k \in Nat \ {0} : n >= k => \A i \in n - k + 1..n : i \in 1..n
  OBVIOUS
<1>6. n > 0 => Bounded(voice.frames, n, voice.state)
  BY <1>1 DEF VoiceInv
<1>7. n > 0 => Was(voice.frames, n) \in {"silent", "speaking", "ended"}
  <2> SUFFICES ASSUME n > 0, n # 1 PROVE voice.frames[n - 1].state \in {"silent", "speaking", "ended"}
    BY DEF Was
  <2>1. n - 1 \in 1..n
    OBVIOUS
  <2>2. voice.frames[n - 1] \in Frame
    BY <1>2, <2>1
  <2> QED
    BY <2>2 DEF Frame
<1> QED
  BY <1>1, <1>3, <1>4, <1>5, <1>6, <1>7 DEF SpeechIsBounded, Bounded, Begins, Was

-----------------------------------------------------------------------------
(***************************************************************************)
(* The steps of MCEdge: what one part keeps, the others do not touch.      *)
(***************************************************************************)

AdmissionInv == RequestsInv /\ PairingInv

LEMMA AdmissionStays ==
  ASSUME AdmissionInv, UNCHANGED <<now, connection, peer, failures, rates, failed, granted>>
  PROVE  AdmissionInv'
<1>1. RequestsInv'
  BY DEF AdmissionInv, RequestsInv
<1>2. Early' = Early
  BY DEF Early
<1>3. Peers' = Peers /\ \A a : EarlyOf(a)' = EarlyOf(a)
  BY <1>2 DEF Peers, EarlyOf
<1>4. FailuresLeft' /\ TableLeft'
  <2>1. \A a \in Address : InWindow(failed[a])' = InWindow(failed[a])
    BY DEF InWindow
  <2> QED
    BY <1>3, <2>1 DEF AdmissionInv, PairingInv, FailuresLeft, TableLeft
<1> QED
  BY <1>1, <1>4 DEF AdmissionInv, PairingInv

LEMMA AdmissionKept ==
  ASSUME AdmissionInv, [EdgeNext]_edgeVars
  PROVE  AdmissionInv'
<1>1. CASE part = "admission" /\ AdmissionNext
  BY <1>1, RequestsNext, PairingNext DEF AdmissionInv
<1>2. CASE UNCHANGED admissionVars
  BY <1>2, AdmissionStays DEF admissionVars
<1>3. CASE part = "page" /\ PageNext /\ UNCHANGED admissionOnly
  <2>1. now' = now
    BY <1>3 DEF PageNext, FirstDraw, Refresh, NetworkFound, RefreshShown, Select, Encoded,
         MdnsStep, Register, Update, StopAnnouncing, Withdraw, DropHandle
  <2> QED
    BY <1>3, <2>1, AdmissionStays DEF admissionOnly
<1>4. CASE UNCHANGED edgeVars
  BY <1>4, AdmissionStays DEF edgeVars, admissionVars
<1> QED
  BY <1>1, <1>2, <1>3, <1>4 DEF EdgeNext

\* Nobody asks more often in a minute than the limit, fails to pair more often than the
\* limit and the connections that were let in before it, or makes the tables of the
\* limiters grow (PairingLimiter, ClientRequestLimiter).
THEOREM LimitsAreKept == EdgeSpec => []LimitsHold
<1>1. EdgeInit => AdmissionInv
  BY RequestsInit, PairingInit DEF EdgeInit, AdmissionInv
<1>2. AdmissionInv /\ [EdgeNext]_edgeVars => AdmissionInv'
  BY AdmissionKept
<1>3. AdmissionInv => LimitsHold
  BY InvHoldsLimits DEF AdmissionInv
<1> QED
  BY <1>1, <1>2, <1>3, PTL DEF EdgeSpec

\* While the credentials are the page's, no connection is made.
EdgeSessionsInv ==
    IF part = "page" THEN sessions = {} /\ overtaken = {} ELSE SessionsInv

LEMMA EdgeSessionsKept ==
  ASSUME EdgeSessionsInv, [EdgeNext]_edgeVars
  PROVE  EdgeSessionsInv'
<1>1. CASE part = "admission" /\ AdmissionNext /\ part' = part
  BY <1>1, SessionsNext DEF EdgeSessionsInv
<1>2. CASE part = "page" /\ part' = part /\ UNCHANGED admissionOnly
  BY <1>2 DEF EdgeSessionsInv, admissionOnly
<1>3. CASE UNCHANGED <<part, admissionVars>>
  <2>1. UNCHANGED <<now, code, expires, connection, used, sessions, overtaken>>
    BY <1>3 DEF admissionVars, credentials
  <2> QED
    BY <1>3, <2>1 DEF EdgeSessionsInv, SessionsInv, Outdated
<1> QED
  BY <1>1, <1>2, <1>3 DEF EdgeNext, edgeVars

\* A phone whose code is replaced or expires between its handshake and the look at its
\* ClientHello gets no session, however many connections, rotations and ends of others
\* come in between; for any number of connections and any life of a code (ClientHello).
THEOREM CodesStayCurrent == EdgeSpec => []OvertakenNeverPairs
<1>1. EdgeInit => EdgeSessionsInv
  BY SessionsStart DEF EdgeInit, AdmissionInit, EdgeSessionsInv
<1>2. EdgeSessionsInv /\ [EdgeNext]_edgeVars => EdgeSessionsInv'
  BY EdgeSessionsKept
<1>3. EdgeSessionsInv => OvertakenNeverPairs
  BY DEF EdgeSessionsInv, SessionsInv, OvertakenNeverPairs
<1> QED
  BY <1>1, <1>2, <1>3, PTL DEF EdgeSpec

\* The page of a part that is not run was never drawn, and nothing was announced.
EdgePageInv ==
    IF part = "page" THEN PageInv
    ELSE missed /\ image = page /\ announced = {} /\ task = "starting"

LEMMA EdgePageKept ==
  ASSUME EdgePageInv, [EdgeNext]_edgeVars
  PROVE  EdgePageInv'
<1>1. CASE part = "page" /\ PageNext /\ part' = part
  BY <1>1, PageStep DEF EdgePageInv
<1>2. CASE UNCHANGED <<part, pageVars>>
  <2>1. PageInv' <=> PageInv
    BY <1>2 DEF pageVars, PageInv, PageIsCurrent, Blank, Shown, credentials
  <2> QED
    BY <1>2, <2>1 DEF EdgePageInv, pageVars
<1>3. CASE part = "admission" /\ part' = part /\ UNCHANGED pageOnly
  BY <1>3 DEF EdgePageInv, pageOnly
<1> QED
  BY <1>1, <1>2, <1>3 DEF EdgeNext, edgeVars

\* The desktop never shows the image of another code or address than the text beside it,
\* or announces another address than the chosen one once it has caught up (qr,
\* maintain_mdns).
THEOREM PageStaysCurrent == EdgeSpec => []PageAndNetworkAreCurrent
<1>1. EdgeInit => EdgePageInv
  <2>1. PageInit => missed /\ image = page /\ announced = {} /\ task = "starting"
    BY DEF PageInit
  <2> QED
    BY <2>1, PageStarts DEF EdgeInit, EdgePageInv
<1>2. EdgePageInv /\ [EdgeNext]_edgeVars => EdgePageInv'
  BY EdgePageKept
<1>3. EdgePageInv => PageAndNetworkAreCurrent
  <2>1. Cardinality({}) = 0
    BY FS_EmptySet
  <2>2. CASE part = "page"
    BY <2>2, PageCurrent DEF EdgePageInv
  <2>3. CASE part # "page"
    BY <2>1, <2>3 DEF EdgePageInv, PageAndNetworkAreCurrent, PageIsCurrent, AnnouncedIsChosen
  <2> QED
    BY <2>2, <2>3
<1> QED
  BY <1>1, <1>2, <1>3, PTL DEF EdgeSpec

SoundInv == UploadInv /\ SamplerInv /\ VoiceInv

LEMMA SoundKept ==
  ASSUME SoundInv, [EdgeNext]_edgeVars
  PROVE  SoundInv'
<1>1. UploadInv'
  <2>1. CASE UploadNext
    BY <2>1, UploadStep DEF SoundInv
  <2>2. CASE UNCHANGED uploadVars
    BY <2>2 DEF SoundInv, UploadInv, uploadVars
  <2> QED
    BY <2>1, <2>2 DEF EdgeNext, edgeVars, soundVars
<1>2. SamplerInv'
  <2>1. CASE SamplerNext
    BY <2>1, PushKeepsSampler, ListenKeepsSampler DEF SoundInv, SamplerNext
  <2>2. CASE UNCHANGED <<resampler, ring, listener>>
    BY <2>2 DEF SoundInv, SamplerInv, ResamplerType, ResamplerAligned, RingInv, ListenerInv
  <2> QED
    BY <2>1, <2>2 DEF EdgeNext, edgeVars, soundVars, microphoneVars, HearFrame
<1>3. VoiceInv'
  <2>1. CASE HearFrame
    BY <2>1, VoiceStep DEF SoundInv
  <2>2. CASE UNCHANGED voice
    BY <2>2 DEF SoundInv, VoiceInv
  <2> QED
    BY <2>1, <2>2 DEF EdgeNext, edgeVars, soundVars, microphoneVars, SamplerNext, PushBuffer, Listen
<1> QED
  BY <1>1, <1>2, <1>3 DEF SoundInv

\* What a phone uploads and what the desktop records reach the program whole and in
\* order, however the sound is cut, and speech is told by whole runs of frames
\* (AudioAssembler, InputNormalizer, SampleBuffer, VoiceActivityDetector).
THEOREM SoundStaysWhole == EdgeSpec => []SoundIsWhole
<1>1. EdgeInit => SoundInv
  BY UploadStarts, SamplerStarts, VoiceStarts DEF EdgeInit, SoundInv
<1>2. SoundInv /\ [EdgeNext]_edgeVars => SoundInv'
  BY SoundKept
<1>3. SoundInv => SoundIsWhole
  BY UploadsWhole, SamplerWhole, VoiceHeard DEF SoundInv, SoundIsWhole, RecordingsAreWhole
<1> QED
  BY <1>1, <1>2, <1>3, PTL DEF EdgeSpec
================================================================================
