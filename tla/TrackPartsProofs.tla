-------------------------- MODULE TrackPartsProofs --------------------------
(* Proofs about split_to_parts.  PeaksOK, Apart, Outshone and Beside say what *)
(* the loop that prunes the peaks keeps, for the peaks before its index; what *)
(* the regions and the cuts need of the peaks follows (RegionIs), and then    *)
(* that no cut meets a null pointer and what is stored lies near its peak.    *)
EXTENDS TrackParts, SumTheorems, SequenceTheorems

-----------------------------------------------------------------------------
(* The track and its local maxima                                             *)

\* I is the intensity of the particles 0 .. Size - 1.
TrackOK == Size \in Nat /\ I \in [0 .. Size - 1 -> Nat]

LEMMA SizeIs ==
    ASSUME NEW n \in Nat, I \in [0 .. n - 1 -> Nat]
    PROVE  Size = n
<1>1. PICK b : b = n - 1
  OBVIOUS
<1>2. DOMAIN I = 0 .. b /\ b \in Int
  BY <1>1
<1>3. \A a \in Int : Cardinality(a .. b) = IF a > b THEN 0 ELSE b - a + 1
  BY <1>2, FS_Interval, Zenon
<1>4. Cardinality(0 .. b) = n
  BY <1>1, <1>2, <1>3
<1> QED
  BY <1>2, <1>4 DEF Size

LEMMA MaximaAre ==
    ASSUME TrackOK
    PROVE  \A k \in LocalMaxima :
              /\ k \in Int /\ 0 < k /\ k < Size - 1 /\ I[k] \in Nat
              /\ I[k - 1] \in Nat /\ I[k + 1] \in Nat /\ I[k - 1] <= I[k] /\ I[k + 1] <= I[k]
<1> TAKE k \in LocalMaxima
<1>1. k \in 0 .. Size - 1 /\ IsPeak(k)
  BY DEF LocalMaxima, TrackOK
<1>2. 0 < k /\ k < Size - 1 /\ I[k - 1] <= I[k] /\ I[k + 1] <= I[k]
  BY <1>1 DEF IsPeak
<1>3. k - 1 \in 0 .. Size - 1 /\ k + 1 \in 0 .. Size - 1
  BY <1>1, <1>2 DEF TrackOK
<1> QED
  BY <1>1, <1>2, <1>3 DEF TrackOK

\* Two local maxima side by side are equally bright, which no two neighbours of
\* a strict track are.
LEMMA MaximaApart ==
    ASSUME TrackOK, NEW k \in LocalMaxima, NEW l \in LocalMaxima, k < l,
           Strict \/ I[k] # I[l]
    PROVE  l - k >= 2
<1>1. /\ k \in Int /\ l \in Int /\ 0 < l /\ l < Size - 1 /\ I[k] \in Nat /\ I[l] \in Nat
      /\ I[k + 1] <= I[k] /\ I[l - 1] <= I[l]
  BY MaximaAre
<1>2. ASSUME l = k + 1
      PROVE  FALSE
  <2>1. l - 1 = k
    BY <1>1, <1>2
  <2>2. I[l] = I[k]
    BY <1>1, <1>2, <2>1
  <2>3. l \in DOMAIN I
    BY <1>1 DEF TrackOK
  <2>4. ~Strict
    BY <1>1, <2>1, <2>2, <2>3 DEF Strict
  <2> QED
    BY <2>2, <2>4
<1> QED
  BY <1>1, <1>2

-----------------------------------------------------------------------------
(* What pruning keeps                                                         *)

Gap == IF Strict THEN 2 * Buffer ELSE 2 * Buffer - 1

PeaksOK(s) ==
    /\ s \in Seq(Int)
    /\ \A i \in 1 .. Len(s) : s[i] \in LocalMaxima
    /\ \A i, k \in 1 .. Len(s) : i < k => s[i] < s[k]

\* The peaks before the index m do not crowd the next ones.
Apart(s, m) == \A i \in 1 .. Len(s) - 1 : i < m => s[i + 1] - s[i] >= Gap

\* No local maximum is brighter than all peaks of s.
Outshone(s) == \A k \in LocalMaxima : \E i \in 1 .. Len(s) : I[k] <= I[s[i]]

\* No drop follows that takes s[i].
Settled(s, m, i) == i < m \/ (i = m /\ (m < Len(s) => s[m + 1] - s[m] >= 2 * Buffer))

\* Every local maximum is a peak of s or crowded by one that stays.
Beside(s, m) ==
    \A k \in LocalMaxima : \E i \in 1 .. Len(s) :
        s[i] = k \/ (Settled(s, m, i) /\ Distance(k, s[i]) < 2 * Buffer)

PruneOK(s, m) == PeaksOK(s) /\ Apart(s, m) /\ Outshone(s) /\ (Strict => Beside(s, m))

LEMMA GapIs == Gap \in Int /\ Gap >= 3 /\ Gap <= 4 /\ (Strict => Gap = 4)
BY DEF Gap, Buffer

LEMMA PeakAt ==
    ASSUME TrackOK, NEW s, PeaksOK(s)
    PROVE  /\ Len(s) \in Nat
           /\ \A i \in 1 .. Len(s) :
                /\ s[i] \in Int /\ 0 < s[i] /\ s[i] < Size - 1 /\ I[s[i]] \in Nat
                /\ s[i] \in LocalMaxima
BY MaximaAre DEF PeaksOK

\* A sequence of peaks without the one at d.
LEMMA RemoveIs ==
    ASSUME NEW s \in Seq(Int), NEW d \in 1 .. Len(s)
    PROVE  /\ RemoveAt(s, d) \in Seq(Int) /\ Len(RemoveAt(s, d)) = Len(s) - 1
           /\ \A k \in 1 .. Len(s) - 1 :
                /\ k < d => RemoveAt(s, d)[k] = s[k]
                /\ k >= d => RemoveAt(s, d)[k] = s[k + 1]
<1>1. PICK a, b : a = SubSeq(s, 1, d - 1) /\ b = SubSeq(s, d + 1, Len(s))
  OBVIOUS
<1>2. Len(s) \in Nat /\ d \in Nat /\ d >= 1 /\ d <= Len(s)
  OBVIOUS
<1>3. a \in Seq(Int) /\ Len(a) = d - 1 /\ \A k \in 1 .. d - 1 : a[k] = s[k]
  BY <1>1, <1>2
<1>4. b \in Seq(Int) /\ Len(b) = Len(s) - d /\ \A k \in 1 .. Len(s) - d : b[k] = s[d + k]
  BY <1>1, <1>2
<1>5. /\ a \o b \in Seq(Int) /\ Len(a \o b) = Len(a) + Len(b)
      /\ \A k \in 1 .. Len(a) + Len(b) : (a \o b)[k] = IF k <= Len(a) THEN a[k] ELSE b[k - Len(a)]
  BY <1>3, <1>4, ConcatProperties
<1>6. PICK t : t = a \o b
  OBVIOUS
<1>7. ASSUME NEW k \in 1 .. Len(s) - 1
      PROVE  (k < d => t[k] = s[k]) /\ (k >= d => t[k] = s[k + 1])
  <2>1. k \in 1 .. Len(a) + Len(b)
    BY <1>2, <1>3, <1>4
  <2>2. t[k] = IF k <= Len(a) THEN a[k] ELSE b[k - Len(a)]
    BY <1>5, <1>6, <2>1
  <2>3. ASSUME k < d
        PROVE  t[k] = s[k]
    <3>1. k <= Len(a) /\ k \in 1 .. d - 1
      BY <1>2, <1>3, <2>3
    <3> QED
      BY <1>3, <2>2, <3>1
  <2>4. ASSUME k >= d
        PROVE  t[k] = s[k + 1]
    <3>1. ~(k <= Len(a)) /\ k - Len(a) \in 1 .. Len(s) - d /\ d + (k - Len(a)) = k + 1
      <4>1. PICK l, n : l = Len(a) /\ n = Len(s)
        OBVIOUS
      <4>2. l = d - 1 /\ n \in Nat /\ d \in Nat /\ k \in 1 .. n - 1 /\ k >= d
        BY <1>2, <1>3, <2>4, <4>1
      <4>3. ~(k <= l) /\ k - l \in 1 .. n - d /\ d + (k - l) = k + 1
        BY <4>2
      <4> QED
        BY <4>1, <4>3
    <3>2. b[k - Len(a)] = s[d + (k - Len(a))]
      BY <1>4, <3>1
    <3> QED
      BY <2>2, <3>1, <3>2
  <2> QED
    BY <2>3, <2>4
<1>8. t \in Seq(Int) /\ Len(t) = Len(s) - 1
  <2>1. Len(a) + Len(b) = Len(s) - 1
    BY <1>2, <1>3, <1>4
  <2> QED
    BY <1>5, <1>6, <2>1
<1>9. RemoveAt(s, d) = t
  BY <1>1, <1>6 DEF RemoveAt
<1> QED
  BY <1>7, <1>8, <1>9

\* One peak less, where another one is as bright.
LEMMA RemoveKeeps ==
    ASSUME TrackOK, NEW s, PeaksOK(s), Outshone(s), NEW d \in 1 .. Len(s),
           NEW c \in 1 .. Len(s), c # d, I[s[d]] <= I[s[c]]
    PROVE  PeaksOK(RemoveAt(s, d)) /\ Outshone(RemoveAt(s, d))
<1>1. PICK t : t = RemoveAt(s, d)
  OBVIOUS
<1>2. s \in Seq(Int) /\ Len(s) \in Nat
  BY DEF PeaksOK
<1>3. /\ t \in Seq(Int) /\ Len(t) = Len(s) - 1
      /\ \A k \in 1 .. Len(s) - 1 : (k < d => t[k] = s[k]) /\ (k >= d => t[k] = s[k + 1])
  BY <1>1, <1>2, RemoveIs
<1>4. PeaksOK(t)
  <2>1. ASSUME NEW k \in 1 .. Len(t)
        PROVE  t[k] \in LocalMaxima
    <3>1. k \in 1 .. Len(s) - 1 /\ k \in 1 .. Len(s) /\ k + 1 \in 1 .. Len(s)
      BY <1>2, <1>3
    <3>2. t[k] = s[k] \/ t[k] = s[k + 1]
      BY <1>2, <1>3, <3>1
    <3> QED
      BY <3>1, <3>2 DEF PeaksOK
  <2>2. ASSUME NEW i \in 1 .. Len(t), NEW k \in 1 .. Len(t), i < k
        PROVE  t[i] < t[k]
    <3>1. PICK e, f : e = (IF i < d THEN i ELSE i + 1) /\ f = (IF k < d THEN k ELSE k + 1)
      OBVIOUS
    <3>2. e \in 1 .. Len(s) /\ f \in 1 .. Len(s) /\ e < f
      BY <1>2, <1>3, <2>2, <3>1
    <3>3. i \in 1 .. Len(s) - 1 /\ k \in 1 .. Len(s) - 1 /\ d \in Int
      BY <1>2, <1>3
    <3>4. t[i] = s[e]
      BY <1>3, <3>1, <3>3
    <3>5. t[k] = s[f]
      BY <1>3, <3>1, <3>3
    <3> QED
      BY <3>2, <3>4, <3>5 DEF PeaksOK
  <2> QED
    BY <1>3, <2>1, <2>2 DEF PeaksOK
<1>5. \A i \in 1 .. Len(s) : i # d => \E k \in 1 .. Len(t) : t[k] = s[i]
  <2> TAKE i \in 1 .. Len(s)
  <2>1. CASE i < d
    <3>1. i \in 1 .. Len(t) /\ i \in 1 .. Len(s) - 1
      BY <1>2, <1>3, <2>1
    <3>2. t[i] = s[i]
      BY <1>3, <2>1, <3>1
    <3> QED
      BY <3>1, <3>2
  <2>2. CASE i > d
    <3>1. i - 1 \in 1 .. Len(s) - 1 /\ i - 1 \in 1 .. Len(t) /\ i - 1 >= d /\ (i - 1) + 1 = i
      BY <1>2, <1>3, <2>2
    <3>2. t[i - 1] = s[i]
      BY <1>3, <3>1
    <3> QED
      BY <3>1, <3>2
  <2> QED
    BY <1>2, <2>1, <2>2
<1>6. \A k \in LocalMaxima : I[k] \in Nat
  BY MaximaAre
<1>7. ASSUME NEW k \in LocalMaxima
      PROVE  \E i \in 1 .. Len(t) : I[k] <= I[t[i]]
  <2>1. PICK i \in 1 .. Len(s) : I[k] <= I[s[i]]
    BY DEF Outshone
  <2>2. I[k] \in Nat /\ I[s[d]] \in Nat /\ I[s[c]] \in Nat
    BY <1>6 DEF PeaksOK
  <2>3. PICK e \in 1 .. Len(s) : e # d /\ I[k] <= I[s[e]]
    BY <2>1, <2>2
  <2> QED
    BY <1>5, <2>3
<1> QED
  BY <1>1, <1>4, <1>7 DEF Outshone

\* A crowded peak at m is not settled.
LEMMA CrowdedOpen ==
    ASSUME NEW s, NEW m \in Nat, NEW i, m < Len(s), s[m + 1] - s[m] < 2 * Buffer,
           s[m] \in Int, s[m + 1] \in Int, Settled(s, m, i)
    PROVE  i < m
BY DEF Settled, Buffer

\* The peaks of s before d and behind it, where one is taken out.
LEMMA RemoveMoves ==
    ASSUME NEW s, PeaksOK(s), NEW d \in 1 .. Len(s), NEW t, t = RemoveAt(s, d)
    PROVE  /\ Len(s) \in Nat /\ Len(t) = Len(s) - 1
           /\ \A i \in 1 .. Len(s) : i < d => i \in 1 .. Len(t) /\ t[i] = s[i]
           /\ \A i \in 1 .. Len(s) : i > d => i - 1 \in 1 .. Len(t) /\ t[i - 1] = s[i]
<1>1. s \in Seq(Int) /\ Len(s) \in Nat
  BY DEF PeaksOK
<1>2. /\ Len(t) = Len(s) - 1
      /\ \A k \in 1 .. Len(s) - 1 : (k < d => t[k] = s[k]) /\ (k >= d => t[k] = s[k + 1])
  BY <1>1, RemoveIs
<1>3. ASSUME NEW i \in 1 .. Len(s), i < d
      PROVE  i \in 1 .. Len(t) /\ t[i] = s[i]
  <2>1. i \in 1 .. Len(s) - 1
    BY <1>1, <1>3
  <2> QED
    BY <1>2, <1>3, <2>1
<1>4. ASSUME NEW i \in 1 .. Len(s), i > d
      PROVE  i - 1 \in 1 .. Len(t) /\ t[i - 1] = s[i]
  <2>1. i - 1 \in 1 .. Len(s) - 1 /\ i - 1 >= d /\ (i - 1) + 1 = i
    BY <1>1, <1>4
  <2>2. t[i - 1] = s[(i - 1) + 1]
    BY <1>2, <2>1
  <2> QED
    BY <1>2, <2>1, <2>2
<1> QED
  BY <1>1, <1>2, <1>3, <1>4

\* Two peaks that do not crowd each other: the index moves on.
LEMMA KeepBothKeeps ==
    ASSUME TrackOK, NEW s, NEW m \in 1 .. Len(s) - 1, PruneOK(s, m),
           s[m + 1] - s[m] >= 2 * Buffer
    PROVE  PruneOK(s, m + 1)
<1>1. Len(s) \in Nat /\ m \in Nat
  BY PeakAt DEF PruneOK
<1>2. Apart(s, m + 1)
  <2> SUFFICES ASSUME NEW i \in 1 .. Len(s) - 1, i < m + 1
               PROVE  s[i + 1] - s[i] >= Gap
    BY DEF Apart
  <2>1. CASE i < m
    BY <2>1 DEF PruneOK, Apart
  <2>2. CASE i = m
    <3>1. s[m] \in Int /\ s[m + 1] \in Int
      BY <1>1, PeakAt DEF PruneOK
    <3> QED
      BY <2>2, <3>1, GapIs DEF Buffer
  <2> QED
    BY <1>1, <2>1, <2>2
<1>3. \A i \in 1 .. Len(s) : Settled(s, m, i) => Settled(s, m + 1, i)
  BY <1>1 DEF Settled
<1>4. Strict => Beside(s, m + 1)
  BY <1>3 DEF PruneOK, Beside
<1> QED
  BY <1>2, <1>4 DEF PruneOK

\* The second of two crowded peaks goes: the first one is settled.
LEMMA DropSecondKeeps ==
    ASSUME TrackOK, NEW s, NEW m \in 1 .. Len(s) - 1, PruneOK(s, m),
           s[m + 1] - s[m] < 2 * Buffer,
           m + 2 <= Len(s) => s[m + 2] - s[m] >= Gap,
           NEW c \in 1 .. Len(s), c # m + 1, I[s[m + 1]] <= I[s[c]]
    PROVE  PruneOK(RemoveAt(s, m + 1), m + 1)
<1>1. /\ PeaksOK(s) /\ Outshone(s) /\ Len(s) \in Nat /\ m \in Nat
      /\ \A i \in 1 .. Len(s) : s[i] \in Int
  BY PeakAt DEF PruneOK
<1>2. m + 1 \in 1 .. Len(s) /\ m \in 1 .. Len(s)
  BY <1>1
<1>3. PICK t : t = RemoveAt(s, m + 1)
  OBVIOUS
<1>4. PeaksOK(t) /\ Outshone(t)
  BY <1>1, <1>2, <1>3, RemoveKeeps
<1>5. /\ Len(t) = Len(s) - 1
      /\ \A i \in 1 .. Len(s) : i < m + 1 => i \in 1 .. Len(t) /\ t[i] = s[i]
      /\ \A i \in 1 .. Len(s) : i > m + 1 => i - 1 \in 1 .. Len(t) /\ t[i - 1] = s[i]
  <2>1. PICK d : d = m + 1
    OBVIOUS
  <2>2. d \in 1 .. Len(s) /\ t = RemoveAt(s, d)
    BY <1>2, <1>3, <2>1
  <2>3. /\ Len(s) \in Nat /\ Len(t) = Len(s) - 1
        /\ \A i \in 1 .. Len(s) : i < d => i \in 1 .. Len(t) /\ t[i] = s[i]
        /\ \A i \in 1 .. Len(s) : i > d => i - 1 \in 1 .. Len(t) /\ t[i - 1] = s[i]
    <3>1. PeaksOK(s)
      BY <1>1
    <3> QED
      BY <2>2, <3>1, RemoveMoves
  <2> QED
    BY <2>1, <2>3
<1>6. Apart(t, m + 1)
  <2> SUFFICES ASSUME NEW i \in 1 .. Len(t) - 1, i < m + 1
               PROVE  t[i + 1] - t[i] >= Gap
    BY DEF Apart
  <2>1. i \in 1 .. Len(s) - 1 /\ i + 2 <= Len(s) /\ i \in 1 .. Len(s)
    BY <1>1, <1>5
  <2>2. t[i] = s[i]
    BY <1>5, <2>1
  <2>3. CASE i < m
    <3>1. i + 1 \in 1 .. Len(s) /\ i + 1 < m + 1
      BY <1>1, <2>1, <2>3
    <3>2. t[i + 1] = s[i + 1]
      BY <1>5, <3>1
    <3> QED
      BY <2>1, <2>2, <2>3, <3>2 DEF PruneOK, Apart
  <2>4. CASE i = m
    <3>1. m + 2 \in 1 .. Len(s) /\ m + 2 > m + 1 /\ (m + 2) - 1 = i + 1
      BY <1>1, <2>1, <2>4
    <3>2. t[i + 1] = s[m + 2]
      BY <1>5, <3>1
    <3> QED
      BY <2>1, <2>2, <2>4, <3>2
  <2> QED
    BY <1>1, <2>3, <2>4
<1>7. ASSUME Strict
      PROVE  Beside(t, m + 1)
  <2> SUFFICES ASSUME NEW k \in LocalMaxima
               PROVE  \E i \in 1 .. Len(t) :
                         t[i] = k \/ (Settled(t, m + 1, i) /\ Distance(k, t[i]) < 2 * Buffer)
    BY DEF Beside
  <2>1. PICK i \in 1 .. Len(s) : s[i] = k \/ (Settled(s, m, i) /\ Distance(k, s[i]) < 2 * Buffer)
    BY <1>7 DEF PruneOK, Beside
  <2>2. CASE s[i] = k /\ i < m + 1
    <3>1. i \in 1 .. Len(t) /\ t[i] = k
      BY <1>5, <2>2
    <3> QED
      BY <3>1
  <2>3. CASE s[i] = k /\ i > m + 1
    <3>1. i - 1 \in 1 .. Len(t) /\ t[i - 1] = k
      BY <1>5, <2>3
    <3> QED
      BY <3>1
  <2>4. CASE s[i] = k /\ i = m + 1
    <3>1. m \in 1 .. Len(t) /\ t[m] = s[m]
      BY <1>1, <1>2, <1>5
    <3>2. Distance(k, t[m]) < 2 * Buffer
      <4>1. s[m] \in Int /\ s[m + 1] \in Int /\ s[m] < s[m + 1]
        BY <1>1, <1>2 DEF PeaksOK
      <4> QED
        BY <2>4, <3>1, <4>1 DEF Distance, Buffer
    <3>3. Settled(t, m + 1, m)
      BY <1>1 DEF Settled
    <3> QED
      BY <3>1, <3>2, <3>3
  <2>5. CASE Settled(s, m, i) /\ Distance(k, s[i]) < 2 * Buffer
    <3>1. i < m
      <4>1. s[m] \in Int /\ s[m + 1] \in Int /\ m < Len(s)
        BY <1>1, <1>2
      <4> QED
        BY <1>1, <2>5, <4>1, CrowdedOpen
    <3>2. i \in 1 .. Len(t) /\ t[i] = s[i] /\ Settled(t, m + 1, i)
      BY <1>1, <1>5, <3>1 DEF Settled
    <3> QED
      BY <2>5, <3>2
  <2> QED
    BY <1>1, <2>1, <2>2, <2>3, <2>4, <2>5
<1> QED
  BY <1>3, <1>4, <1>6, <1>7 DEF PruneOK

\* The first of two crowded peaks goes, and nothing crowds the second one.
LEMMA DropFirstKeeps ==
    ASSUME TrackOK, NEW s, NEW m \in 1 .. Len(s) - 1, PruneOK(s, m),
           s[m + 1] - s[m] < 2 * Buffer,
           m + 2 <= Len(s) => s[m + 2] - s[m + 1] >= 2 * Buffer,
           I[s[m]] <= I[s[m + 1]]
    PROVE  PruneOK(RemoveAt(s, m), m)
<1>1. /\ PeaksOK(s) /\ Outshone(s) /\ Len(s) \in Nat /\ m \in Nat
      /\ \A i \in 1 .. Len(s) : s[i] \in Int
      /\ \A i, k \in 1 .. Len(s) : i < k => s[i] < s[k]
  <2>1. PeaksOK(s) /\ Outshone(s)
    BY DEF PruneOK
  <2>2. Len(s) \in Nat /\ m \in Nat /\ \A i \in 1 .. Len(s) : s[i] \in Int
    BY <2>1, PeakAt
  <2> QED
    BY <2>1, <2>2 DEF PeaksOK
<1>2. m + 1 \in 1 .. Len(s) /\ m \in 1 .. Len(s) /\ m + 1 # m
  BY <1>1
<1>3. PICK t : t = RemoveAt(s, m)
  OBVIOUS
<1>4. PeaksOK(t) /\ Outshone(t)
  BY <1>1, <1>2, <1>3, RemoveKeeps
<1>5. /\ Len(t) = Len(s) - 1
      /\ \A i \in 1 .. Len(s) : i < m => i \in 1 .. Len(t) /\ t[i] = s[i]
      /\ \A i \in 1 .. Len(s) : i > m => i - 1 \in 1 .. Len(t) /\ t[i - 1] = s[i]
  <2>1. PICK d : d = m
    OBVIOUS
  <2>2. d \in 1 .. Len(s) /\ t = RemoveAt(s, d)
    BY <1>2, <1>3, <2>1
  <2>3. /\ Len(s) \in Nat /\ Len(t) = Len(s) - 1
        /\ \A i \in 1 .. Len(s) : i < d => i \in 1 .. Len(t) /\ t[i] = s[i]
        /\ \A i \in 1 .. Len(s) : i > d => i - 1 \in 1 .. Len(t) /\ t[i - 1] = s[i]
    BY <1>1, <2>2, RemoveMoves
  <2> QED
    BY <2>1, <2>3
<1>6. m \in 1 .. Len(t) /\ t[m] = s[m + 1]
  <2>1. m + 1 > m /\ (m + 1) - 1 = m
    BY <1>1
  <2> QED
    BY <1>2, <1>5, <2>1
<1>7. Apart(t, m)
  <2> SUFFICES ASSUME NEW i \in 1 .. Len(t) - 1, i < m
               PROVE  t[i + 1] - t[i] >= Gap
    BY DEF Apart
  <2>1. i \in 1 .. Len(s) - 1 /\ i \in 1 .. Len(s) /\ i + 1 \in 1 .. Len(s)
    BY <1>1, <1>5
  <2>2. t[i] = s[i] /\ s[i + 1] - s[i] >= Gap
    BY <1>5, <2>1 DEF PruneOK, Apart
  <2>3. CASE i + 1 < m
    BY <1>5, <2>1, <2>2, <2>3
  <2>4. CASE i + 1 = m
    <3>1. s[i + 1] < s[m + 1] /\ t[i + 1] = s[m + 1]
      BY <1>1, <1>2, <1>6, <2>4
    <3>2. s[i] \in Int /\ s[i + 1] \in Int /\ s[m + 1] \in Int
      BY <1>1, <1>2, <2>1
    <3>3. PICK x, y, z : x = s[i] /\ y = s[i + 1] /\ z = s[m + 1]
      OBVIOUS
    <3>4. x \in Int /\ y \in Int /\ z \in Int /\ y < z /\ y - x >= Gap
      BY <2>2, <3>1, <3>2, <3>3
    <3>5. z - x >= Gap
      BY <3>4, GapIs
    <3> QED
      BY <2>2, <3>1, <3>3, <3>5
  <2> QED
    BY <1>1, <2>3, <2>4
<1>8. Settled(t, m, m)
  <2> SUFFICES ASSUME m < Len(t)
               PROVE  t[m + 1] - t[m] >= 2 * Buffer
    BY DEF Settled
  <2>1. m + 2 \in 1 .. Len(s) /\ m + 2 > m /\ (m + 2) - 1 = m + 1
    BY <1>1, <1>5
  <2>2. t[m + 1] = s[m + 2]
    BY <1>5, <2>1
  <2> QED
    BY <1>6, <2>1, <2>2
<1>9. ASSUME Strict
      PROVE  Beside(t, m)
  <2> SUFFICES ASSUME NEW k \in LocalMaxima
               PROVE  \E i \in 1 .. Len(t) :
                         t[i] = k \/ (Settled(t, m, i) /\ Distance(k, t[i]) < 2 * Buffer)
    BY DEF Beside
  <2>1. PICK i \in 1 .. Len(s) : s[i] = k \/ (Settled(s, m, i) /\ Distance(k, s[i]) < 2 * Buffer)
    BY <1>9 DEF PruneOK, Beside
  <2>2. CASE s[i] = k /\ i < m
    <3>1. i \in 1 .. Len(t) /\ t[i] = k
      BY <1>5, <2>2
    <3> QED
      BY <3>1
  <2>3. CASE s[i] = k /\ i > m
    <3>1. i - 1 \in 1 .. Len(t) /\ t[i - 1] = k
      BY <1>5, <2>3
    <3> QED
      BY <3>1
  <2>4. CASE s[i] = k /\ i = m
    <3>1. Distance(k, t[m]) < 2 * Buffer
      BY <1>1, <1>2, <1>6, <2>4 DEF Distance, Buffer
    <3> QED
      BY <1>6, <1>8, <3>1
  <2>5. CASE Settled(s, m, i) /\ Distance(k, s[i]) < 2 * Buffer
    <3>1. i < m
      <4>1. s[m] \in Int /\ s[m + 1] \in Int /\ m < Len(s)
        BY <1>1, <1>2
      <4> QED
        BY <1>1, <2>5, <4>1, CrowdedOpen
    <3>2. i \in 1 .. Len(t) /\ t[i] = s[i] /\ Settled(t, m, i)
      BY <1>1, <1>5, <3>1 DEF Settled
    <3> QED
      BY <2>5, <3>2
  <2> QED
    BY <1>1, <2>1, <2>2, <2>3, <2>4, <2>5
<1> QED
  BY <1>3, <1>4, <1>7, <1>9 DEF PruneOK

\* The middle one of three crowded peaks stays alone; no local maximum of a strict
\* track is next to it.
LEMMA DropOuterKeeps ==
    ASSUME TrackOK, NEW s, NEW m \in 1 .. Len(s) - 2, PruneOK(s, m),
           s[m + 1] - s[m] < 2 * Buffer, s[m + 2] - s[m + 1] < 2 * Buffer,
           I[s[m]] <= I[s[m + 1]], I[s[m + 2]] <= I[s[m + 1]]
    PROVE  PruneOK(RemoveAt(RemoveAt(s, m + 2), m), m)
<1>1. PeaksOK(s) /\ Outshone(s)
  BY DEF PruneOK
<1>2. /\ Len(s) \in Nat /\ m \in Nat /\ \A i \in 1 .. Len(s) : s[i] \in Int
      /\ m \in 1 .. Len(s) /\ m + 1 \in 1 .. Len(s) /\ m + 2 \in 1 .. Len(s)
      /\ m + 1 # m + 2 /\ m + 1 # m
  BY <1>1, PeakAt
<1>3. \A i, k \in 1 .. Len(s) : i < k => s[i] < s[k]
  BY <1>1 DEF PeaksOK
<1>4. PICK t : t = RemoveAt(s, m + 2)
  OBVIOUS
<1>5. PeaksOK(t) /\ Outshone(t)
  BY <1>1, <1>2, <1>4, RemoveKeeps
<1>6. /\ Len(t) = Len(s) - 1
      /\ \A i \in 1 .. Len(s) : i < m + 2 => i \in 1 .. Len(t) /\ t[i] = s[i]
      /\ \A i \in 1 .. Len(s) : i > m + 2 => i - 1 \in 1 .. Len(t) /\ t[i - 1] = s[i]
  <2>1. PICK d : d = m + 2
    OBVIOUS
  <2>2. d \in 1 .. Len(s) /\ t = RemoveAt(s, d)
    BY <1>2, <1>4, <2>1
  <2>3. /\ Len(s) \in Nat /\ Len(t) = Len(s) - 1
        /\ \A i \in 1 .. Len(s) : i < d => i \in 1 .. Len(t) /\ t[i] = s[i]
        /\ \A i \in 1 .. Len(s) : i > d => i - 1 \in 1 .. Len(t) /\ t[i - 1] = s[i]
    <3>1. PeaksOK(s)
      BY <1>1
    <3> QED
      BY <2>2, <3>1, RemoveMoves
  <2> QED
    BY <2>1, <2>3
<1>7. t[m] = s[m] /\ t[m + 1] = s[m + 1] /\ m \in 1 .. Len(t) /\ m + 1 \in 1 .. Len(t)
  BY <1>2, <1>6
<1>8. PICK u : u = RemoveAt(t, m)
  OBVIOUS
<1>9. PeaksOK(u) /\ Outshone(u)
  BY <1>2, <1>5, <1>7, <1>8, RemoveKeeps
<1>10. /\ Len(t) \in Nat /\ Len(u) = Len(t) - 1
       /\ \A i \in 1 .. Len(t) : i < m => i \in 1 .. Len(u) /\ u[i] = t[i]
       /\ \A i \in 1 .. Len(t) : i > m => i - 1 \in 1 .. Len(u) /\ u[i - 1] = t[i]
  <2>1. PeaksOK(t)
    BY <1>5
  <2>2. m \in 1 .. Len(t) /\ u = RemoveAt(t, m)
    BY <1>7, <1>8
  <2>3. /\ Len(t) \in Nat /\ Len(u) = Len(t) - 1
        /\ \A i \in 1 .. Len(t) : i < m => i \in 1 .. Len(u) /\ u[i] = t[i]
        /\ \A i \in 1 .. Len(t) : i > m => i - 1 \in 1 .. Len(u) /\ u[i - 1] = t[i]
    BY <2>1, <2>2, RemoveMoves
  <2> QED
    BY <2>3
<1>11. ASSUME NEW i \in 1 .. Len(s), i < m
       PROVE  i \in 1 .. Len(u) /\ u[i] = s[i]
  BY <1>2, <1>6, <1>10, <1>11
<1>12. m \in 1 .. Len(u) /\ u[m] = s[m + 1]
  <2>1. m + 1 > m /\ (m + 1) - 1 = m
    BY <1>2
  <2>2. m \in 1 .. Len(u) /\ u[m] = t[m + 1]
    BY <1>7, <1>10, <2>1
  <2> QED
    BY <1>7, <2>2
<1>13. ASSUME NEW i \in 1 .. Len(s), i > m + 2
       PROVE  i - 2 \in 1 .. Len(u) /\ u[i - 2] = s[i]
  <2>1. i - 1 \in 1 .. Len(t) /\ t[i - 1] = s[i]
    BY <1>6, <1>13
  <2>2. i - 1 > m /\ (i - 1) - 1 = i - 2
    BY <1>2, <1>13
  <2> QED
    BY <1>10, <2>1, <2>2
<1>14. Apart(u, m)
  <2> SUFFICES ASSUME NEW i \in 1 .. Len(u) - 1, i < m
               PROVE  u[i + 1] - u[i] >= Gap
    BY DEF Apart
  <2>1. i \in 1 .. Len(s) - 1 /\ i \in 1 .. Len(s) /\ i + 1 \in 1 .. Len(s)
    BY <1>2, <1>6, <1>10
  <2>2. u[i] = s[i] /\ s[i + 1] - s[i] >= Gap
    BY <1>11, <2>1 DEF PruneOK, Apart
  <2>3. CASE i + 1 < m
    BY <1>11, <2>1, <2>2, <2>3
  <2>4. CASE i + 1 = m
    <3>1. s[i + 1] < s[m + 1] /\ u[i + 1] = s[m + 1]
      <4>1. m < m + 1
        BY <1>2
      <4>2. s[m] < s[m + 1]
        BY <1>2, <1>3, <4>1
      <4> QED
        BY <1>12, <2>4, <4>2
    <3>2. PICK x, y, z : x = s[i] /\ y = s[i + 1] /\ z = s[m + 1]
      OBVIOUS
    <3>3. x \in Int /\ y \in Int /\ z \in Int /\ y < z /\ y - x >= Gap
      BY <1>2, <2>1, <2>2, <3>1, <3>2
    <3>4. z - x >= Gap
      BY <3>3, GapIs
    <3> QED
      BY <2>2, <3>1, <3>2, <3>4
  <2> QED
    BY <1>2, <2>3, <2>4
<1>15. ASSUME Strict
       PROVE  Beside(u, m)
  <2>1. Settled(u, m, m)
    <3> SUFFICES ASSUME m < Len(u)
                 PROVE  u[m + 1] - u[m] >= 2 * Buffer
      BY DEF Settled
    <3>1. m + 3 \in 1 .. Len(s) /\ m + 3 > m + 2 /\ (m + 3) - 2 = m + 1 /\ m + 2 > m + 1
      BY <1>2, <1>6, <1>10
    <3>2. u[m + 1] = s[m + 3]
      BY <1>13, <3>1
    <3>3. PICK x, y, z : x = s[m + 1] /\ y = s[m + 2] /\ z = s[m + 3]
      OBVIOUS
    <3>4. x \in LocalMaxima /\ y \in LocalMaxima /\ z \in LocalMaxima /\ x < y /\ y < z
      <4>1. m + 2 < m + 3
        BY <1>2
      <4> QED
        BY <1>1, <1>2, <1>3, <3>1, <3>3, <4>1 DEF PeaksOK
    <3>5. y - x >= 2 /\ z - y >= 2
      BY <1>15, <3>4, MaximaApart
    <3>6. x \in Int /\ y \in Int /\ z \in Int
      BY <1>2, <3>1, <3>3
    <3>7. z - x >= 2 * Buffer
      BY <3>5, <3>6 DEF Buffer
    <3> QED
      BY <1>12, <3>2, <3>3, <3>7
  <2> SUFFICES ASSUME NEW k \in LocalMaxima
               PROVE  \E i \in 1 .. Len(u) :
                         u[i] = k \/ (Settled(u, m, i) /\ Distance(k, u[i]) < 2 * Buffer)
    BY DEF Beside
  <2>2. PICK i \in 1 .. Len(s) : s[i] = k \/ (Settled(s, m, i) /\ Distance(k, s[i]) < 2 * Buffer)
    BY <1>15 DEF PruneOK, Beside
  <2>3. CASE s[i] = k /\ i < m
    <3>1. i \in 1 .. Len(u) /\ u[i] = k
      BY <1>11, <2>3
    <3> QED
      BY <3>1
  <2>4. CASE s[i] = k /\ i > m + 2
    <3>1. i - 2 \in 1 .. Len(u) /\ u[i - 2] = k
      BY <1>13, <2>4
    <3> QED
      BY <3>1
  <2>5. CASE s[i] = k /\ i \in {m, m + 1, m + 2}
    <3>1. /\ s[m] \in Int /\ s[m + 1] \in Int /\ s[m + 2] \in Int
          /\ s[m] < s[m + 1] /\ s[m + 1] < s[m + 2]
      BY <1>2, <1>3
    <3>2. Distance(k, u[m]) < 2 * Buffer
      <4>1. PICK x, y, z : x = s[m] /\ y = s[m + 1] /\ z = s[m + 2]
        OBVIOUS
      <4>2. x \in Int /\ y \in Int /\ z \in Int /\ x < y /\ y < z /\ y - x < 2 * Buffer /\ z - y < 2 * Buffer
        BY <3>1, <4>1
      <4>3. k \in {x, y, z} /\ u[m] = y
        BY <1>12, <2>5, <4>1
      <4>4. Distance(x, y) < 2 * Buffer /\ Distance(y, y) < 2 * Buffer /\ Distance(z, y) < 2 * Buffer
        BY <4>2 DEF Distance, Buffer
      <4> QED
        BY <4>3, <4>4
    <3> QED
      BY <1>12, <2>1, <3>2
  <2>6. CASE Settled(s, m, i) /\ Distance(k, s[i]) < 2 * Buffer
    <3>1. i < m
      <4>1. s[m] \in Int /\ s[m + 1] \in Int /\ m < Len(s)
        BY <1>2
      <4> QED
        BY <1>2, <2>6, <4>1, CrowdedOpen
    <3>2. i \in 1 .. Len(u) /\ u[i] = s[i] /\ Settled(u, m, i)
      BY <1>2, <1>11, <3>1 DEF Settled
    <3> QED
      BY <2>6, <3>2
  <2> QED
    BY <1>2, <2>2, <2>3, <2>4, <2>5, <2>6
<1> QED
  BY <1>4, <1>8, <1>9, <1>14, <1>15 DEF PruneOK

\* The peaks that are kept are apart, and each local maximum has one beside it.
LEMMA PrunedIsRight ==
    ASSUME TrackOK, PruneOK(peaks, Len(peaks))
    PROVE  /\ PeaksApart
           /\ Strict => PeaksCovered
           /\ \A i, k \in 1 .. Len(peaks) : i < k => peaks[k] - peaks[i] >= Gap
<1>1. PeaksOK(peaks)
  BY DEF PruneOK
<1>2. Len(peaks) \in Nat /\ \A i \in 1 .. Len(peaks) : peaks[i] \in Int
  BY <1>1, PeakAt
<1>3. ASSUME NEW i \in 1 .. Len(peaks), NEW k \in 1 .. Len(peaks), i < k
      PROVE  peaks[k] - peaks[i] >= Gap
  <2>1. i \in 1 .. Len(peaks) - 1 /\ i < Len(peaks) /\ i + 1 \in 1 .. Len(peaks) /\ i + 1 <= k
    BY <1>2, <1>3
  <2>2. peaks[i + 1] - peaks[i] >= Gap
    BY <2>1 DEF PruneOK, Apart
  <2>3. peaks[i + 1] <= peaks[k]
    <3>1. CASE i + 1 = k
      BY <1>2, <2>1, <3>1
    <3>2. CASE i + 1 < k
      <4>1. peaks[i + 1] < peaks[k]
        BY <1>1, <2>1, <3>2 DEF PeaksOK
      <4> QED
        BY <1>2, <2>1, <4>1
    <3> QED
      BY <2>1, <3>1, <3>2
  <2>4. PICK x, y, z : x = peaks[i] /\ y = peaks[i + 1] /\ z = peaks[k]
    OBVIOUS
  <2>5. x \in Int /\ y \in Int /\ z \in Int
    BY <1>2, <2>1, <2>4
  <2>6. y - x >= Gap /\ y <= z
    BY <2>2, <2>3, <2>4
  <2>7. z - x >= Gap
    BY <2>5, <2>6, GapIs
  <2> QED
    BY <2>4, <2>7
<1>4. PeaksApart
  <2> SUFFICES ASSUME NEW p \in Kept, NEW q \in Kept, p # q
               PROVE  Distance(p, q) >= Gap
    BY DEF PeaksApart, Gap
  <2>1. PICK i \in 1 .. Len(peaks) : peaks[i] = p
    BY DEF Kept
  <2>2. PICK k \in 1 .. Len(peaks) : peaks[k] = q
    BY DEF Kept
  <2>3. p \in Int /\ q \in Int /\ Gap \in Int /\ Gap >= 3
    BY <1>2, <2>1, <2>2, GapIs
  <2>4. CASE i < k
    <3>1. q - p >= Gap
      BY <1>3, <2>1, <2>2, <2>4
    <3> QED
      BY <2>3, <3>1 DEF Distance
  <2>5. CASE k < i
    <3>1. p - q >= Gap
      BY <1>3, <2>1, <2>2, <2>5
    <3> QED
      BY <2>3, <3>1 DEF Distance
  <2> QED
    BY <1>2, <2>1, <2>2, <2>4, <2>5
<1>5. ASSUME Strict
      PROVE  PeaksCovered
  <2>1. ASSUME NEW k \in LocalMaxima
        PROVE  \E p \in Kept : Distance(k, p) < 2 * Buffer
    <3>1. PICK i \in 1 .. Len(peaks) :
             peaks[i] = k \/ Distance(k, peaks[i]) < 2 * Buffer
      BY <1>5 DEF PruneOK, Beside
    <3>2. peaks[i] \in Kept
      BY DEF Kept
    <3>3. peaks[i] = k => Distance(k, peaks[i]) < 2 * Buffer
      BY <1>2 DEF Distance, Buffer
    <3> QED
      BY <3>1, <3>2, <3>3
  <2>2. ASSUME NEW k \in LocalMaxima
        PROVE  \E p \in Kept : I[k] <= I[p]
    BY DEF PruneOK, Outshone, Kept
  <2> QED
    BY <2>1, <2>2 DEF PeaksCovered
<1> QED
  BY <1>3, <1>4, <1>5

-----------------------------------------------------------------------------
(* Regions                                                                    *)

LEMMA MaxOfTwo == \A x, y \in Int : Max({x, y}) = IF x >= y THEN x ELSE y
<1> TAKE x, y \in Int
<1>1. PICK m : m = IF x >= y THEN x ELSE y
  OBVIOUS
<1>2. m \in {x, y} /\ \A z \in {x, y} : z <= m
  BY <1>1
<1>3. PICK M : M = Max({x, y})
  OBVIOUS
<1>4. M \in {x, y} /\ \A z \in {x, y} : z <= M
  BY <1>2, <1>3 DEF Max
<1>5. M = m
  BY <1>1, <1>2, <1>4
<1> QED
  BY <1>1, <1>3, <1>5

LEMMA MinOfTwo == \A x, y \in Int : Min({x, y}) = IF x <= y THEN x ELSE y
<1> TAKE x, y \in Int
<1>1. PICK m : m = IF x <= y THEN x ELSE y
  OBVIOUS
<1>2. m \in {x, y} /\ \A z \in {x, y} : m <= z
  BY <1>1
<1>3. PICK M : M = Min({x, y})
  OBVIOUS
<1>4. M \in {x, y} /\ \A z \in {x, y} : M <= z
  BY <1>2, <1>3 DEF Min
<1>5. M = m
  BY <1>1, <1>2, <1>4
<1> QED
  BY <1>1, <1>3, <1>5

\* A region begins before its peak and ends behind it, at most the buffer away;
\* it does not reach into the next one, even where peaks are one particle nearer
\* than twice the buffer.
LEMMA RegionIs ==
    ASSUME TrackOK, PruneOK(peaks, Len(peaks))
    PROVE  \A i \in 1 .. Len(peaks) :
              /\ Region(i) \in Int \X Int
              /\ 0 <= Region(i)[1] /\ peaks[i] - Buffer <= Region(i)[1] /\ Region(i)[1] < peaks[i]
              /\ peaks[i] < Region(i)[2] /\ Region(i)[2] <= peaks[i] + Buffer + 1
              /\ Region(i)[2] <= Size
              /\ i < Len(peaks) => Region(i)[2] <= Region(i + 1)[1]
<1>1. PeaksOK(peaks)
  BY DEF PruneOK
<1>2. /\ Len(peaks) \in Nat /\ Size \in Int
      /\ \A i \in 1 .. Len(peaks) : peaks[i] \in Int /\ 0 < peaks[i] /\ peaks[i] < Size - 1
  BY <1>1, PeakAt DEF TrackOK
<1>3. ASSUME NEW i \in 1 .. Len(peaks)
      PROVE  /\ From(i) = IF peaks[i] - 2 >= 0 THEN peaks[i] - 2 ELSE 0
             /\ To(i) = IF peaks[i] + 3 <= Size THEN peaks[i] + 3 ELSE Size
  <2>0. PICK x : x = peaks[i]
    OBVIOUS
  <2>1. PICK a, b : a = x - 2 /\ b = x + 3
    OBVIOUS
  <2>2. a \in Int /\ b \in Int /\ a = peaks[i] - Buffer /\ b = peaks[i] + Buffer + 1
    <3>1. x \in Int
      BY <1>2, <2>0
    <3>2. a \in Int /\ b \in Int /\ a = x - 2 /\ b = x + 2 + 1
      BY <2>1, <3>1
    <3> QED
      BY <2>0, <3>2 DEF Buffer
  <2>3. Max({a, 0}) = IF a >= 0 THEN a ELSE 0
    BY <2>2, MaxOfTwo
  <2>4. Min({b, Size}) = IF b <= Size THEN b ELSE Size
    BY <1>2, <2>2, MinOfTwo
  <2> QED
    BY <2>0, <2>1, <2>2, <2>3, <2>4 DEF From, To
<1>4. \A i, k \in 1 .. Len(peaks) : i < k => peaks[k] - peaks[i] >= Gap
  BY PrunedIsRight
<1>5. ASSUME NEW i \in 1 .. Len(peaks) - 1
      PROVE  /\ i \in 1 .. Len(peaks) /\ i + 1 \in 1 .. Len(peaks) /\ (i + 1) - 1 = i
             /\ Overlap(i) => /\ From(i + 1) = peaks[i + 1] - 2
                              /\ To(i) - 1 <= From(i + 1) + 1
                              /\ peaks[i] < To(i) - 1
             /\ ~Overlap(i) => To(i) <= From(i + 1)
  <2>1. i \in 1 .. Len(peaks) /\ i + 1 \in 1 .. Len(peaks) /\ (i + 1) - 1 = i /\ i < i + 1
    BY <1>2
  <2>2. PICK x, y : x = peaks[i] /\ y = peaks[i + 1]
    OBVIOUS
  <2>3. x \in Int /\ y \in Int /\ 0 < x /\ x < Size - 1 /\ y < Size - 1
    BY <1>2, <2>1, <2>2
  <2>4. y - x >= 3
    <3>1. y - x >= Gap
      BY <1>4, <2>1, <2>2
    <3> QED
      BY <2>3, <3>1, GapIs
  <2>5. PICK a, b : a = To(i) /\ b = From(i + 1)
    OBVIOUS
  <2>6. a = x + 3 /\ b = y - 2
    <3>1. a = IF x + 3 <= Size THEN x + 3 ELSE Size
      BY <1>3, <2>1, <2>2, <2>5
    <3>2. b = IF y - 2 >= 0 THEN y - 2 ELSE 0
      BY <1>3, <2>1, <2>2, <2>5
    <3> QED
      BY <1>2, <2>3, <2>4, <3>1, <3>2
  <2>7. Overlap(i) <=> a > b
    BY <2>5 DEF Overlap
  <2>8. a > b => b = y - 2 /\ a - 1 <= b + 1 /\ x < a - 1
    BY <2>3, <2>4, <2>6
  <2>9. ~(a > b) => a <= b
    BY <2>3, <2>6
  <2>10. Overlap(i) => /\ From(i + 1) = peaks[i + 1] - 2
                       /\ To(i) - 1 <= From(i + 1) + 1
                       /\ peaks[i] < To(i) - 1
    BY <2>2, <2>5, <2>7, <2>8, Zenon
  <2>11. ~Overlap(i) => To(i) <= From(i + 1)
    BY <2>5, <2>7, <2>9, Zenon
  <2> QED
    BY <2>1, <2>10, <2>11
<1>6. ASSUME NEW i \in 1 .. Len(peaks)
      PROVE  /\ Region(i) \in Int \X Int
             /\ 0 <= Region(i)[1] /\ peaks[i] - Buffer <= Region(i)[1] /\ Region(i)[1] < peaks[i]
             /\ peaks[i] < Region(i)[2] /\ Region(i)[2] <= peaks[i] + Buffer + 1
             /\ Region(i)[2] <= Size
  <2>1. PICK a, b, p : a = Region(i)[1] /\ b = Region(i)[2] /\ p = peaks[i]
    OBVIOUS
  <2>2. p \in Int /\ 0 < p /\ p < Size - 1
    BY <1>2, <2>1
  <2>3. PICK f, t : f = From(i) /\ t = To(i)
    OBVIOUS
  <2>4. /\ f = IF p - 2 >= 0 THEN p - 2 ELSE 0
        /\ t = IF p + 3 <= Size THEN p + 3 ELSE Size
    BY <1>3, <2>1, <2>3
  <2>5. a = (IF Overlap(i - 1) THEN f + 1 ELSE f) /\ b = IF Overlap(i) THEN t - 1 ELSE t
    BY <2>1, <2>3 DEF Region
  <2>6. Overlap(i - 1) => f = p - 2
    <3>1. ASSUME Overlap(i - 1)
          PROVE  f = p - 2
      <4>1. i - 1 \in 1 .. Len(peaks) - 1 /\ (i - 1) + 1 = i
        BY <1>2, <3>1 DEF Overlap
      <4>2. From((i - 1) + 1) = peaks[(i - 1) + 1] - 2
        BY <1>5, <3>1, <4>1
      <4> QED
        BY <2>1, <2>3, <4>1, <4>2
    <3> QED
      BY <3>1
  <2>7. Overlap(i) => p < t - 1
    <3>1. ASSUME Overlap(i)
          PROVE  p < t - 1
      <4>1. i \in 1 .. Len(peaks) - 1
        BY <3>1 DEF Overlap
      <4> QED
        BY <1>5, <2>1, <2>3, <3>1, <4>1
    <3> QED
      BY <3>1
  <2>8. a \in Int /\ 0 <= a /\ p - 2 <= a /\ a < p
    <3>1. f \in Int /\ 0 <= f /\ p - 2 <= f /\ f < p
      BY <2>2, <2>4
    <3> QED
      BY <2>2, <2>5, <2>6, <3>1
  <2>9. b \in Int /\ p < b /\ b <= p + 3 /\ b <= Size
    <3>1. t \in Int /\ p < t /\ t <= p + 3 /\ t <= Size
      BY <1>2, <2>2, <2>4
    <3> QED
      BY <1>2, <2>2, <2>5, <2>7, <3>1
  <2>10. Region(i) = <<a, b>>
    BY <2>1 DEF Region
  <2>11. peaks[i] - Buffer = p - 2 /\ peaks[i] + Buffer + 1 = p + 3
    BY <2>1, <2>2 DEF Buffer
  <2>12. Region(i) \in Int \X Int
    BY <2>8, <2>9, <2>10
  <2>13. 0 <= a /\ peaks[i] - Buffer <= a /\ a < peaks[i]
    BY <2>1, <2>8, <2>11, Zenon
  <2>14. peaks[i] < b /\ b <= peaks[i] + Buffer + 1 /\ b <= Size
    BY <2>1, <2>9, <2>11, Zenon
  <2> QED
    BY <2>1, <2>12, <2>13, <2>14, Zenon
<1>7. ASSUME NEW i \in 1 .. Len(peaks), i < Len(peaks)
      PROVE  Region(i)[2] <= Region(i + 1)[1]
  <2>1. i \in 1 .. Len(peaks) - 1
    BY <1>2, <1>7
  <2>2. (i + 1) - 1 = i
    BY <1>2
  <2>3. /\ Region(i)[2] = IF Overlap(i) THEN To(i) - 1 ELSE To(i)
        /\ Region(i + 1)[1] = IF Overlap(i) THEN From(i + 1) + 1 ELSE From(i + 1)
    BY <2>2 DEF Region
  <2>4. /\ Overlap(i) => To(i) - 1 <= From(i + 1) + 1
        /\ ~Overlap(i) => To(i) <= From(i + 1)
    BY <1>5, <2>1
  <2> QED
    BY <2>3, <2>4, Zenon
<1> QED
  BY <1>6, <1>7

\* No region reaches into one behind it.
LEMMA RegionsApart ==
    ASSUME TrackOK, PruneOK(peaks, Len(peaks))
    PROVE  \A i, k \in 1 .. Len(peaks) : i < k => Region(i)[2] <= Region(k)[1]
<1> SUFFICES ASSUME NEW i \in 1 .. Len(peaks), NEW k \in 1 .. Len(peaks), i < k
             PROVE  Region(i)[2] <= Region(k)[1]
  OBVIOUS
<1>1. Len(peaks) \in Nat /\ \A n \in 1 .. Len(peaks) : peaks[n] \in Int
  BY PeakAt DEF PruneOK
<1>2. i < Len(peaks) /\ i + 1 \in 1 .. Len(peaks) /\ i + 1 <= k
  BY <1>1
<1>3. Region(i)[2] <= Region(i + 1)[1]
  BY <1>2, RegionIs
<1>4. CASE i + 1 = k
  BY <1>3, <1>4
<1>5. CASE i + 1 < k
  <2>1. PICK b, c, d, x, y : /\ b = Region(i)[2] /\ c = Region(i + 1)[1] /\ d = Region(k)[1]
                             /\ x = peaks[i + 1] /\ y = peaks[k]
    OBVIOUS
  <2>2. Region(i) \in Int \X Int /\ Region(i + 1) \in Int \X Int /\ Region(k) \in Int \X Int
    BY <1>2, RegionIs
  <2>3. b \in Int /\ c \in Int /\ d \in Int /\ x \in Int /\ y \in Int
    BY <1>1, <1>2, <2>1, <2>2
  <2>4. y - x >= 3
    <3>1. peaks[k] - peaks[i + 1] >= Gap
      BY <1>2, <1>5, PrunedIsRight
    <3>2. y - x >= Gap
      BY <2>1, <3>1
    <3> QED
      BY <2>3, <3>2, GapIs
  <2>5. c < x /\ b <= c
    BY <1>2, <1>3, <2>1, RegionIs
  <2>6. y - 2 <= d
    BY <2>1, RegionIs DEF Buffer
  <2> QED
    <3>1. b <= d
      BY <2>3, <2>4, <2>5, <2>6
    <3> QED
      BY <2>1, <3>1
<1> QED
  BY <1>1, <1>2, <1>4, <1>5

-----------------------------------------------------------------------------
(* Cuts                                                                       *)

LEMMA AtIs ==
    ASSUME NEW n \in Int, NEW k \in Int, 0 <= k, k < n, n >= 2
    PROVE  At(n, k) # NULL
<1>1. Min({k, n - 1}) \in Int
  BY MinOfTwo
<1>2. ~(k > n) /\ ~(n <= 1)
  OBVIOUS
<1>3. At(n, k) \in {k, Min({k, n - 1})}
  BY <1>2 DEF At
<1> QED
  BY <1>1, <1>3, PartsAssumption

\* Where the last part that was cut begins.
RestOf(n) == IF n = Len(peaks) THEN Size ELSE Region(n + 1)[1]

\* What is left of the track holds the next region, and at least two particles
\* from its first one on, so at() does not come to the null pointer.
LEMMA CutIsRight ==
    ASSUME TrackOK, PruneOK(peaks, Len(peaks)), left \in 1 .. Len(peaks), length = RestOf(left)
    PROVE  CutOutcome = "cut" /\ Region(left)[1] \in 0 .. Size
<1>1. Len(peaks) \in Nat /\ \A n \in 1 .. Len(peaks) : peaks[n] \in Int /\ 0 < peaks[n]
  BY PeakAt DEF PruneOK
<1>2. PICK i : i = left
  OBVIOUS
<1>3. PICK a, b, p : a = Region(i)[1] /\ b = Region(i)[2] /\ p = peaks[i]
  OBVIOUS
<1>4. i \in 1 .. Len(peaks)
  BY <1>2
<1>5. /\ Region(i) \in Int \X Int
      /\ 0 <= a /\ a < p /\ p < b /\ b <= Size
      /\ i < Len(peaks) => b <= Region(i + 1)[1]
  BY <1>3, <1>4, RegionIs
<1>6. a \in Int /\ b \in Int /\ p \in Int /\ 0 < p
  BY <1>1, <1>3, <1>4, <1>5
<1>7. length \in Int /\ b <= length
  <2>1. CASE i = Len(peaks)
    BY <1>2, <1>5, <2>1 DEF RestOf, TrackOK
  <2>2. CASE i # Len(peaks)
    <3>1. i + 1 \in 1 .. Len(peaks) /\ i < Len(peaks)
      BY <1>1, <1>4, <2>2
    <3>2. Region(i + 1) \in Int \X Int
      BY <3>1, RegionIs
    <3> QED
      BY <1>2, <1>5, <2>2, <3>1, <3>2 DEF RestOf
  <2> QED
    BY <2>1, <2>2
<1>8. PICK d : d = length - a
  OBVIOUS
<1>9. /\ a < length /\ length >= 2 /\ d \in Int /\ d >= 2 /\ ~(b > length)
  BY <1>5, <1>6, <1>7, <1>8
<1>10. At(length, a) # NULL
  BY <1>5, <1>6, <1>7, <1>9, AtIs
<1>11. At(d, 0) # NULL
  BY <1>9, AtIs
<1>12. CutOutcome = "cut"
  BY <1>2, <1>3, <1>8, <1>9, <1>10, <1>11 DEF CutOutcome, NextRegion
<1> QED
  BY <1>2, <1>3, <1>5, <1>6, <1>12 DEF TrackOK

-----------------------------------------------------------------------------
(* The centre of a part                                                       *)

\* The sum of h times the place, where the places lie between lo and hi.
LEMMA MomentBounds ==
    ASSUME NEW S, IsFiniteSet(S), NEW lo \in Int, NEW hi \in Int, NEW h, NEW w,
           \A x \in S : x \in Int /\ lo <= x /\ x <= hi /\ h[x] \in Nat /\ w[x] = x * h[x]
    PROVE  lo * Total(h, S) <= Total(w, S) /\ Total(w, S) <= hi * Total(h, S)
<1> DEFINE Right(u) == lo * Total(h, u) <= Total(w, u) /\ Total(w, u) <= hi * Total(h, u)
           B == {u \in SUBSET S : ~Right(u)}
<1> SUFFICES ASSUME B # {}
             PROVE  FALSE
  OBVIOUS
<1>1. PICK s \in B : IsFiniteSet(s) /\ \A u \in SUBSET s : u # s => u \notin B
  <2>1. B \in SUBSET SUBSET S
    OBVIOUS
  <2> HIDE DEF B
  <2> QED
    BY <2>1, LeastSubset
<1>2. \A x \in S : w[x] \in Int /\ h[x] \in Int
  <2>1. \A a \in Int, b \in Nat : a * b \in Int
    OBVIOUS
  <2> QED
    BY <2>1
<1>3. (\A x \in s : h[x] \in Nat) /\ (\A x \in s : w[x] \in Int)
  BY <1>2
<1>4. CASE s = {}
  <2>1. Total(h, {}) = 0 /\ Total(w, {}) = 0
    BY <1>1, <1>3, <1>4, TotalTakes, IntTotalTakes
  <2>2. lo * 0 = 0 /\ hi * 0 = 0
    OBVIOUS
  <2> QED
    BY <1>4, <2>1, <2>2
<1>5. ASSUME NEW x \in s
      PROVE  FALSE
  <2> DEFINE v == s \ {x}
  <2>1. v \in SUBSET s /\ v # s /\ v \in SUBSET S /\ IsFiniteSet(v)
    BY <1>1, FS_Subset
  <2>2. Total(h, s) = h[x] + Total(h, v)
    BY <1>1, <1>3, TotalTakes
  <2>3. Total(w, s) = w[x] + Total(w, v)
    BY <1>1, <1>3, IntTotalTakes
  <2>4. Total(h, v) \in Nat /\ Total(w, v) \in Int
    BY <1>3, <2>1, TotalTakes, IntTotalTakes
  <2>5. Right(v)
    BY <1>1, <2>1
  <2>6. x \in Int /\ lo <= x /\ x <= hi /\ h[x] \in Nat /\ w[x] = x * h[x]
    OBVIOUS
  <2>7. ~Right(s)
    BY <1>1
  <2> HIDE DEF v, B
  <2>8. PICK a, m, n : a = h[x] /\ m = Total(h, v) /\ n = Total(w, v)
    OBVIOUS
  <2>9. PICK la, ha, xa, lm, hm : /\ la = lo * a /\ ha = hi * a /\ xa = x * a
                                  /\ lm = lo * m /\ hm = hi * m
    OBVIOUS
  <2>10. a \in Nat /\ m \in Nat /\ n \in Int
    BY <2>4, <2>6, <2>8
  <2>11. la \in Int /\ ha \in Int /\ xa \in Int /\ lm \in Int /\ hm \in Int
    <3>1. \A p, q \in Int : p * q \in Int
      OBVIOUS
    <3> QED
      BY <2>6, <2>9, <2>10, <3>1
  <2>12. la <= xa /\ xa <= ha
    <3>1. \A p, q \in Int : \A r \in Nat : p <= q => p * r <= q * r
      OBVIOUS
    <3> QED
      BY <2>6, <2>9, <2>10, <3>1
  <2>13. lm <= n /\ n <= hm
    BY <2>5, <2>8, <2>9
  <2>14. lo * (a + m) = la + lm /\ hi * (a + m) = ha + hm
    <3>1. \A p, q, r \in Int : p * (q + r) = p * q + p * r
      OBVIOUS
    <3> QED
      BY <2>9, <2>10, <3>1
  <2>15. Total(h, s) = a + m /\ Total(w, s) = xa + n
    BY <2>2, <2>3, <2>6, <2>8, <2>9
  <2>16. la + lm <= xa + n /\ xa + n <= ha + hm
    BY <2>10, <2>11, <2>12, <2>13
  <2> QED
    BY <2>7, <2>14, <2>15, <2>16
<1> QED
  BY <1>4, <1>5

Moments == [k \in DOMAIN I |-> k * I[k]]

LEMMA MomentIs ==
    ASSUME TrackOK, NEW a
    PROVE  /\ IsFiniteSet(Within(a))
           /\ TotalI(a) = Total(I, Within(a))
           /\ AverageCord(a).z[1] = Total(Moments, Within(a))
<1> DEFINE e(k) == k * I[k]
           S == Within(a)
           E == CHOOSE g : g = [s \in SUBSET S |->
                    IF s = {} THEN 0 ELSE e(Picked(s)) + g[s \ {Picked(s)}]]
<1>1. IsFiniteSet(S)
  <2>1. \A n \in Int : IsFiniteSet(0 .. n)
    BY FS_Interval
  <2>2. DOMAIN I = 0 .. Size - 1 /\ Size - 1 \in Int
    BY DEF TrackOK
  <2>3. IsFiniteSet(DOMAIN I)
    BY <2>1, <2>2, Zenon
  <2>4. S \in SUBSET DOMAIN I
    BY DEF Within
  <2> HIDE DEF S
  <2> QED
    BY <2>3, <2>4, FS_Subset
<1>2. TotalI(a) = Total(I, S)
  BY Zenon DEF TotalI, MapThenSumSet, MapThenFoldSet, Picked, Total, IsSum
<1>3. AverageCord(a).z[1] = E[S]
  BY DEF AverageCord, MapThenSumSet, MapThenFoldSet, Picked
<1>4. \A k \in S : Moments[k] = e(k)
  BY DEF Moments, Within
<1> HIDE DEF S, e
<1>5. \A s \in SUBSET S : s # {} => Moments[Picked(s)] = e(Picked(s))
  BY <1>4, PickedIn
<1>7. PICK g : IsSum(g, Moments, S)
  BY <1>1, SumExists
<1>8. ASSUME NEW w
      PROVE  IsSum(w, Moments, S) <=> w = [s \in SUBSET S |->
                 IF s = {} THEN 0 ELSE e(Picked(s)) + w[s \ {Picked(s)}]]
  <2>1. [s \in SUBSET S |-> IF s = {} THEN 0 ELSE Moments[Picked(s)] + w[s \ {Picked(s)}]]
        = [s \in SUBSET S |-> IF s = {} THEN 0 ELSE e(Picked(s)) + w[s \ {Picked(s)}]]
    BY <1>5
  <2> QED
    BY <2>1 DEF IsSum
<1>9. IsSum(E, Moments, S)
  <2>1. \E w : w = [s \in SUBSET S |->
                 IF s = {} THEN 0 ELSE e(Picked(s)) + w[s \ {Picked(s)}]]
    BY <1>7, <1>8
  <2>2. E = [s \in SUBSET S |-> IF s = {} THEN 0 ELSE e(Picked(s)) + E[s \ {Picked(s)}]]
    BY <2>1
  <2> HIDE DEF E
  <2> QED
    BY <2>2, <1>8
<1> HIDE DEF E
<1>10. S \in SUBSET S
  OBVIOUS
<1>11. Total(Moments, S) = E[S]
  BY <1>1, <1>9, <1>10, TotalIs
<1> QED
  BY <1>1, <1>2, <1>3, <1>11 DEF S

\* What is stored for a part: a depth near the peak p, and no less light than
\* the peak has.
Near(particle, p) ==
    /\ (p - Buffer) * particle.z[2] <= particle.z[1]
    /\ particle.z[1] <= (p + Buffer) * particle.z[2]
    /\ I[p] <= particle.I

LEMMA CentreIsNear ==
    ASSUME TrackOK, PruneOK(peaks, Len(peaks)), NEW i \in 1 .. Len(peaks)
    PROVE  Near(AverageCord(Region(i)), peaks[i])
<1>1. PICK r, p : r = Region(i) /\ p = peaks[i]
  OBVIOUS
<1>2. p \in Int /\ 0 < p /\ p < Size - 1
  BY <1>1, PeakAt DEF PruneOK
<1>3. /\ r \in Int \X Int
      /\ 0 <= r[1] /\ p - Buffer <= r[1] /\ r[1] < p
      /\ p < r[2] /\ r[2] <= p + Buffer + 1 /\ r[2] <= Size
  BY <1>1, RegionIs
<1>4. IsFiniteSet(Within(r))
  BY MomentIs
<1>5. PICK lo, hi : lo = p - Buffer /\ hi = p + Buffer
  OBVIOUS
<1>6. lo \in Int /\ hi \in Int
  BY <1>2, <1>5 DEF Buffer
<1>7. \A k \in Within(r) :
         k \in Int /\ lo <= k /\ k <= hi /\ I[k] \in Nat /\ Moments[k] = k * I[k]
  <2> TAKE k \in Within(r)
  <2>1. k \in 0 .. Size - 1 /\ r[1] <= k /\ k < r[2]
    BY DEF Within, TrackOK
  <2>2. I[k] \in Nat /\ Moments[k] = k * I[k]
    BY <2>1 DEF TrackOK, Moments
  <2>3. k \in Int /\ lo <= k /\ k <= hi
    <3>1. PICK a, b : a = r[1] /\ b = r[2]
      OBVIOUS
    <3>2. a \in Int /\ b \in Int /\ lo <= a /\ b <= hi + 1 /\ a <= k /\ k < b /\ k \in Int
      <4>1. a \in Int /\ b \in Int /\ p - Buffer <= a /\ b <= p + Buffer + 1
        BY <1>3, <3>1
      <4>2. b <= hi + 1
        BY <1>2, <1>5, <4>1 DEF Buffer
      <4> QED
        BY <1>5, <2>1, <3>1, <4>1, <4>2
    <3> QED
      BY <1>6, <3>2
  <2> QED
    BY <2>2, <2>3
<1>8. lo * Total(I, Within(r)) <= Total(Moments, Within(r))
      /\ Total(Moments, Within(r)) <= hi * Total(I, Within(r))
  BY <1>4, <1>6, <1>7, MomentBounds
<1>9. I[p] <= Total(I, Within(r))
  <2>1. p \in Within(r)
    <3>1. p \in 0 .. Size - 1
      BY <1>2 DEF TrackOK
    <3>2. r[1] \in Int /\ r[1] <= p
      BY <1>2, <1>3
    <3> QED
      BY <1>3, <3>1, <3>2 DEF Within, TrackOK
  <2>2. Total(I, Within(r)) = I[p] + Total(I, Within(r) \ {p})
    BY <1>4, <1>7, <2>1, TotalTakes
  <2>3. Total(I, Within(r) \ {p}) \in Nat
    <3>1. IsFiniteSet(Within(r) \ {p})
      BY <1>4, FS_Subset
    <3>2. \A k \in Within(r) \ {p} : I[k] \in Nat
      BY <1>7
    <3> QED
      BY <3>1, <3>2, TotalTakes
  <2>4. I[p] \in Nat
    BY <1>7, <2>1
  <2> QED
    BY <2>2, <2>3, <2>4
<1>10. /\ AverageCord(r).z[1] = Total(Moments, Within(r))
       /\ AverageCord(r).z[2] = Total(I, Within(r))
       /\ AverageCord(r).I = Total(I, Within(r))
  <2>1. /\ TotalI(r) = Total(I, Within(r))
        /\ AverageCord(r).z[1] = Total(Moments, Within(r))
    BY MomentIs
  <2>2. AverageCord(r).z[2] = TotalI(r) /\ AverageCord(r).I = TotalI(r)
    <3> DEFINE m == MapThenSumSet(LAMBDA k : k * I[k], Within(r))
    <3>1. AverageCord(r) = [z |-> <<m, TotalI(r)>>, I |-> TotalI(r)]
      BY Zenon DEF AverageCord
    <3> HIDE DEF m
    <3> QED
      BY <3>1
  <2> QED
    BY <2>1, <2>2
<1> QED
  BY <1>1, <1>5, <1>8, <1>9, <1>10 DEF Near

-----------------------------------------------------------------------------
(* The search for the peaks                                                   *)

PeakSet(s) == {s[i] : i \in 1 .. Len(s)}

\* One more particle is looked at.
LEMMA FoundKeeps ==
    ASSUME TrackOK, NEW s, PeaksOK(s), NEW m \in 1 .. Size,
           PeakSet(s) = {k \in LocalMaxima : k < m - 1}, Len(s) < m,
           NEW t, t = IF IsPeak(m - 1) THEN Append(s, m - 1) ELSE s
    PROVE  PeaksOK(t) /\ PeakSet(t) = {k \in LocalMaxima : k < m} /\ Len(t) < m + 1
<1>1. PICK x : x = m - 1
  OBVIOUS
<1>2. m \in Int /\ x \in Int /\ x \in 0 .. Size - 1 /\ m = x + 1 /\ s \in Seq(Int) /\ Len(s) \in Nat
  BY <1>1 DEF PeaksOK, TrackOK
<1>3. IsPeak(x) <=> x \in LocalMaxima
  BY <1>2 DEF LocalMaxima, TrackOK
<1>4. \A k \in LocalMaxima : k \in Int
  BY MaximaAre
<1>5. \A k \in LocalMaxima : k < m <=> (k < x \/ k = x)
  BY <1>2, <1>4
<1>6. PeakSet(s) = {k \in LocalMaxima : k < x}
  BY <1>1
<1>7. CASE IsPeak(x)
  <2>1. t = Append(s, x)
    BY <1>1, <1>7
  <2>2. /\ t \in Seq(Int) /\ Len(t) = Len(s) + 1 /\ t[Len(s) + 1] = x
        /\ \A i \in 1 .. Len(s) : t[i] = s[i]
    BY <1>2, <2>1
  <2>3. \A i \in 1 .. Len(t) : i \in 1 .. Len(s) \/ i = Len(s) + 1
    BY <1>2, <2>2
  <2>4. \A i \in 1 .. Len(s) : s[i] \in LocalMaxima /\ s[i] < x
    <3>1. \A i \in 1 .. Len(s) : s[i] \in PeakSet(s)
      BY DEF PeakSet
    <3> QED
      BY <1>6, <3>1
  <2>5. \A i \in 1 .. Len(t) : t[i] \in LocalMaxima
    BY <1>3, <1>7, <2>2, <2>3, <2>4
  <2>6. ASSUME NEW i \in 1 .. Len(t), NEW k \in 1 .. Len(t), i < k
        PROVE  t[i] < t[k]
    <3>1. i \in 1 .. Len(s)
      BY <1>2, <2>2, <2>6
    <3>2. CASE k \in 1 .. Len(s)
      BY <2>2, <2>6, <3>1, <3>2 DEF PeaksOK
    <3>3. CASE k = Len(s) + 1
      BY <2>2, <2>4, <3>1, <3>3
    <3> QED
      BY <2>3, <3>2, <3>3
  <2>7. PeaksOK(t)
    BY <2>2, <2>5, <2>6 DEF PeaksOK
  <2>8. PeakSet(t) = PeakSet(s) \cup {x}
    <3>1. \A i \in 1 .. Len(s) : i \in 1 .. Len(t)
      BY <1>2, <2>2
    <3>2. Len(s) + 1 \in 1 .. Len(t)
      BY <1>2, <2>2
    <3> QED
      BY <2>2, <2>3, <3>1, <3>2 DEF PeakSet
  <2>9. PeakSet(t) = {k \in LocalMaxima : k < m}
    BY <1>3, <1>5, <1>6, <1>7, <2>8
  <2> QED
    BY <1>2, <2>2, <2>7, <2>9
<1>8. CASE ~IsPeak(x)
  <2>1. t = s
    BY <1>1, <1>8
  <2>2. {k \in LocalMaxima : k < m} = {k \in LocalMaxima : k < x}
    BY <1>3, <1>5, <1>8
  <2> QED
    BY <1>2, <1>6, <2>1, <2>2
<1> QED
  BY <1>7, <1>8

\* The loop of the pruning begins with every local maximum a peak.
LEMMA AllFoundIsRight ==
    ASSUME TrackOK, NEW s, PeaksOK(s), PeakSet(s) = {k \in LocalMaxima : k < Size}
    PROVE  PruneOK(s, 1)
<1>1. \A k \in LocalMaxima : \E i \in 1 .. Len(s) : s[i] = k
  <2>1. \A k \in LocalMaxima : k < Size
    <3>1. \A k \in LocalMaxima : k \in Int /\ k < Size - 1 /\ Size \in Int
      BY MaximaAre DEF TrackOK
    <3> QED
      BY <3>1
  <2>2. \A k \in LocalMaxima : k \in PeakSet(s)
    BY <2>1
  <2> QED
    BY <2>2 DEF PeakSet
<1>2. Apart(s, 1)
  BY DEF Apart, PeaksOK
<1>3. Outshone(s)
  <2> SUFFICES ASSUME NEW k \in LocalMaxima
               PROVE  \E i \in 1 .. Len(s) : I[k] <= I[s[i]]
    BY DEF Outshone
  <2>1. I[k] \in Nat
    BY MaximaAre
  <2>2. I[k] <= I[k]
    BY <2>1
  <2> QED
    BY <1>1, <2>2
<1>4. Beside(s, 1)
  BY <1>1 DEF Beside
<1> QED
  BY <1>2, <1>3, <1>4 DEF PruneOK

\* When no two peaks are left to compare, all have been.
LEMMA AllPruned ==
    ASSUME TrackOK, NEW s, NEW m \in Int, PruneOK(s, m), m >= Len(s)
    PROVE  PruneOK(s, Len(s))
<1>1. Len(s) \in Nat
  BY DEF PruneOK, PeaksOK
<1>2. Apart(s, Len(s))
  <2>1. \A i \in 1 .. Len(s) - 1 : i < m
    BY <1>1
  <2> QED
    BY <2>1 DEF PruneOK, Apart
<1>3. ASSUME Beside(s, m)
      PROVE  Beside(s, Len(s))
  <2>1. \A i \in 1 .. Len(s) : Settled(s, Len(s), i)
    BY <1>1 DEF Settled
  <2> QED
    BY <1>3, <2>1 DEF Beside
<1> QED
  BY <1>2, <1>3 DEF PruneOK

-----------------------------------------------------------------------------
(* The inductive invariant                                                    *)

\* The peaks found so far are the local maxima that have been looked at.
SearchInv ==
    pc = "peaks" => /\ PeakSet(peaks) = {k \in LocalMaxima : k < j - 1}
                    /\ j <= Size + 1 /\ Len(peaks) < j

PruneInv ==
    /\ pc = "prune" => PruneOK(peaks, j)
    /\ pc \in {"cut", "done", "written"} => PruneOK(peaks, Len(peaks))

\* The last regions have been cut, and the track ends where the last cut began.
CutInv ==
    /\ parts \in Seq(Int \X Int)
    /\ pc \in {"peaks", "prune"} => left = 0 /\ length = Size /\ parts = <<>>
    /\ pc \in {"cut", "done", "written"} =>
          /\ left \in 0 .. Len(peaks) /\ length = RestOf(left)
          /\ Len(parts) = Len(peaks) - left
          /\ \A n \in 1 .. Len(parts) : parts[n] = Region(Len(peaks) + 1 - n)
    /\ pc \in {"done", "written"} => left = 0

StoreInv ==
    /\ \E S : stored \in Seq(S)
    /\ pc \in {"peaks", "prune", "cut"} => stored = <<>>
    /\ Len(stored) <= Len(parts)
    /\ \A n \in 1 .. Len(stored) : Near(stored[n], PeakOf(n))
    /\ pc = "written" => Len(stored) = Len(parts)

PartsInv ==
    /\ TrackOK /\ PeaksOK(peaks) /\ j \in Nat \ {0}
    /\ pc \in {"peaks", "prune", "cut", "done", "written"}
    /\ SearchInv /\ PruneInv /\ CutInv /\ StoreInv

\* The track does not change.
LEMMA TrackStays ==
    ASSUME UNCHANGED I
    PROVE  /\ Size' = Size /\ LocalMaxima' = LocalMaxima /\ Strict' = Strict /\ Gap' = Gap
           /\ TrackOK' <=> TrackOK
<1>1. Size' = Size
  BY DEF Size
<1>2. LocalMaxima' = LocalMaxima
  BY <1>1, Zenon DEF LocalMaxima, IsPeak
<1>3. Strict' = Strict
  BY Zenon DEF Strict
<1>4. Gap' = Gap
  BY <1>3, Zenon DEF Gap
<1>5. TrackOK' <=> TrackOK
  BY <1>1, Zenon DEF TrackOK
<1> QED
  BY <1>1, <1>2, <1>3, <1>4, <1>5

\* s and m are the peaks and the index after the step.
LEMMA PeaksAfter ==
    ASSUME UNCHANGED I, NEW s, s = peaks', NEW m, m = j'
    PROVE  /\ PeaksOK(peaks)' <=> PeaksOK(s)
           /\ PruneOK(peaks, j)' <=> PruneOK(s, m)
           /\ PruneOK(peaks, Len(peaks))' <=> PruneOK(s, Len(s))
           /\ PeakSet(peaks)' = PeakSet(s)
<1>1. Size' = Size /\ LocalMaxima' = LocalMaxima /\ Strict' = Strict /\ Gap' = Gap
  BY TrackStays
<1>2. PeaksOK(peaks)' <=> PeaksOK(s)
  BY <1>1, Zenon DEF PeaksOK
<1>3. Apart(peaks, j)' <=> Apart(s, m)
  BY <1>1, Zenon DEF Apart
<1>4. Apart(peaks, Len(peaks))' <=> Apart(s, Len(s))
  BY <1>1, Zenon DEF Apart
<1>5. Outshone(peaks)' <=> Outshone(s)
  BY <1>1, Zenon DEF Outshone
<1>6. Beside(peaks, j)' <=> Beside(s, m)
  BY <1>1, Zenon DEF Beside, Settled, Distance
<1>7. Beside(peaks, Len(peaks))' <=> Beside(s, Len(s))
  BY <1>1, Zenon DEF Beside, Settled, Distance
<1>8. PruneOK(peaks, j)' <=> PruneOK(s, m)
  BY <1>1, <1>2, <1>3, <1>5, <1>6, Zenon DEF PruneOK
<1>9. PruneOK(peaks, Len(peaks))' <=> PruneOK(s, Len(s))
  BY <1>1, <1>2, <1>4, <1>5, <1>7, Zenon DEF PruneOK
<1>10. PeakSet(peaks)' = PeakSet(s)
  BY Zenon DEF PeakSet
<1> QED
  BY <1>2, <1>8, <1>9, <1>10

\* What is made of the peaks stays where they do.
LEMMA RegionsStay ==
    ASSUME UNCHANGED <<I, peaks>>
    PROVE  /\ \A n : Region(n)' = Region(n)
           /\ \A n : RestOf(n)' = RestOf(n)
           /\ \A n : PeakOf(n)' = PeakOf(n)
           /\ \A a, p : Near(a, p)' <=> Near(a, p)
<1>1. Size' = Size
  BY TrackStays
<1>2. \A n : From(n)' = From(n) /\ To(n)' = To(n)
  BY <1>1, Zenon DEF From, To
<1>3. \A n : Overlap(n)' <=> Overlap(n)
  BY <1>2, Zenon DEF Overlap
<1>4. \A n : Region(n)' = Region(n)
  BY <1>2, <1>3, Zenon DEF Region
<1>5. \A n : RestOf(n)' = RestOf(n)
  BY <1>1, <1>4, Zenon DEF RestOf
<1>6. \A n : PeakOf(n)' = PeakOf(n)
  BY Zenon DEF PeakOf
<1>7. \A a, p : Near(a, p)' <=> Near(a, p)
  BY Zenon DEF Near
<1> QED
  BY <1>4, <1>5, <1>6, <1>7

LEMMA PartsInvInit == Init => PartsInv
<1> SUFFICES ASSUME Init
             PROVE  PartsInv
  OBVIOUS
<1>1. TrackOK
  <2>1. PICK n \in Lengths : I \in [0 .. n - 1 -> Intensities]
    BY DEF Init
  <2>2. n \in Nat /\ I \in [0 .. n - 1 -> Nat]
    BY <2>1, PartsAssumption
  <2> QED
    BY <2>2, SizeIs DEF TrackOK
<1>2. PeaksOK(peaks)
  BY DEF Init, PeaksOK
<1>3. SearchInv
  <2>1. PeakSet(peaks) = {}
    BY DEF Init, PeakSet
  <2>2. \A k \in LocalMaxima : ~(k < 0)
    BY <1>1, MaximaAre
  <2>3. j = 1 /\ Len(peaks) = 0 /\ Size \in Nat
    BY <1>1 DEF Init, TrackOK
  <2> QED
    BY <2>1, <2>2, <2>3 DEF SearchInv
<1>4. CutInv
  BY DEF Init, CutInv
<1>5. StoreInv
  BY DEF Init, StoreInv
<1> QED
  BY <1>1, <1>2, <1>3, <1>4, <1>5 DEF Init, PartsInv, PruneInv

-----------------------------------------------------------------------------
(* The steps                                                                  *)

LEMMA FindPeaksKeeps ==
    ASSUME PartsInv, FindPeaks
    PROVE  PartsInv'
<1>1. PICK s, t, m : s = peaks /\ t = peaks' /\ m = j
  OBVIOUS
<1>2. UNCHANGED I /\ j' = m + 1 /\ pc = "peaks" /\ pc' = "peaks" /\ UNCHANGED <<left, length, parts, stored>>
  BY <1>1 DEF FindPeaks
<1>3. TrackOK /\ PeaksOK(s)
  BY <1>1 DEF PartsInv
<1>4. m \in 1 .. Size /\ Len(s) < m /\ PeakSet(s) = {k \in LocalMaxima : k < m - 1}
  BY <1>1, <1>2 DEF PartsInv, SearchInv, FindPeaks, TrackOK
<1>5. t = IF IsPeak(m - 1) THEN Append(s, m - 1) ELSE s
  BY <1>1 DEF FindPeaks
<1>6. PeaksOK(t) /\ PeakSet(t) = {k \in LocalMaxima : k < m} /\ Len(t) < m + 1
  BY <1>3, <1>4, <1>5, FoundKeeps
<1>7. Size' = Size /\ LocalMaxima' = LocalMaxima /\ TrackOK'
  BY <1>2, <1>3, TrackStays
<1>8. PeaksOK(peaks)' /\ PeakSet(peaks)' = PeakSet(t)
  BY <1>1, <1>2, <1>6, PeaksAfter
<1>9. SearchInv'
  <2>1. m \in Int /\ Size \in Int /\ (m + 1) - 1 = m /\ m + 1 <= Size + 1
    BY <1>3, <1>4 DEF TrackOK
  <2>2. PeakSet(peaks)' = {k \in LocalMaxima' : k < j' - 1}
    BY <1>2, <1>6, <1>7, <1>8, <2>1
  <2>3. j' <= Size' + 1 /\ Len(peaks') < j'
    BY <1>1, <1>2, <1>6, <1>7, <2>1
  <2> QED
    BY <2>2, <2>3 DEF SearchInv
<1>10. PruneInv'
  BY <1>2 DEF PruneInv
<1>11. CutInv'
  BY <1>2, <1>7 DEF PartsInv, CutInv
<1>12. StoreInv'
  BY <1>2 DEF PartsInv, StoreInv
<1>13. j' \in Nat \ {0}
  BY <1>2, <1>4
<1> QED
  BY <1>2, <1>7, <1>8, <1>9, <1>10, <1>11, <1>12, <1>13 DEF PartsInv

LEMMA AllFoundKeeps ==
    ASSUME PartsInv, AllFound
    PROVE  PartsInv'
<1>1. PICK s, m : s = peaks' /\ m = j'
  OBVIOUS
<1>2. /\ UNCHANGED <<I, peaks, left, length, parts, stored>> /\ pc = "peaks" /\ pc' = "prune"
      /\ s = peaks /\ m = 1 /\ j > Size
  BY <1>1 DEF AllFound
<1>3. TrackOK /\ PeaksOK(s)
  BY <1>2 DEF PartsInv
<1>4. PeakSet(s) = {k \in LocalMaxima : k < Size}
  <2>1. j - 1 = Size
    BY <1>2, <1>3 DEF PartsInv, SearchInv, TrackOK
  <2> QED
    BY <1>2, <2>1 DEF PartsInv, SearchInv
<1>5. PruneOK(s, m)
  BY <1>2, <1>3, <1>4, AllFoundIsRight
<1>6. PeaksOK(peaks)' /\ PruneOK(peaks, j)'
  BY <1>1, <1>2, <1>3, <1>5, PeaksAfter
<1>7. TrackOK' /\ Size' = Size
  BY <1>2, <1>3, TrackStays
<1>8. SearchInv' /\ PruneInv'
  BY <1>2, <1>6 DEF SearchInv, PruneInv
<1>9. CutInv'
  BY <1>2, <1>7 DEF PartsInv, CutInv
<1>10. StoreInv'
  BY <1>2 DEF PartsInv, StoreInv
<1> QED
  BY <1>1, <1>2, <1>6, <1>7, <1>8, <1>9, <1>10 DEF PartsInv

\* A turn of the loop that prunes, when what it leaves is right.
LEMMA GoOnKeeps ==
    ASSUME PartsInv, pc = "prune", NEW t, NEW k \in Nat \ {0}, PruneOK(t, k), GoOn(t, k)
    PROVE  PartsInv'
<1>1. /\ UNCHANGED <<I, left, length, parts, stored>> /\ pc' = "prune"
      /\ peaks' = t /\ j' = k
  BY DEF GoOn
<1>2. PeaksOK(peaks)' /\ PruneOK(peaks, j)'
  <2>1. PeaksOK(t)
    BY DEF PruneOK
  <2> QED
    BY <1>1, <2>1, PeaksAfter
<1>3. TrackOK' /\ Size' = Size
  BY <1>1, TrackStays DEF PartsInv
<1>4. SearchInv' /\ PruneInv'
  BY <1>1, <1>2 DEF SearchInv, PruneInv
<1>5. CutInv'
  BY <1>1, <1>3 DEF PartsInv, CutInv
<1>6. StoreInv'
  BY <1>1 DEF PartsInv, StoreInv
<1> QED
  BY <1>1, <1>2, <1>3, <1>4, <1>5, <1>6 DEF PartsInv

\* What a turn of the loop starts from.
LEMMA TurnHas ==
    ASSUME PartsInv, Pruning
    PROVE  /\ TrackOK /\ PruneOK(peaks, j) /\ PeaksOK(peaks) /\ pc = "prune"
           /\ j \in 1 .. Len(peaks) - 1 /\ Len(peaks) \in Nat
           /\ \A i \in 1 .. Len(peaks) : peaks[i] \in Int /\ I[peaks[i]] \in Nat
<1>1. TrackOK /\ PruneOK(peaks, j) /\ PeaksOK(peaks) /\ pc = "prune" /\ j \in Nat \ {0} /\ j < Len(peaks)
  BY DEF PartsInv, PruneInv, Pruning
<1>2. Len(peaks) \in Nat /\ \A i \in 1 .. Len(peaks) : peaks[i] \in Int /\ I[peaks[i]] \in Nat
  BY <1>1, PeakAt
<1> QED
  BY <1>1, <1>2

LEMMA KeepBothStep ==
    ASSUME PartsInv, KeepBoth
    PROVE  PartsInv'
<1>1. Pruning /\ ~Crowded(j) /\ GoOn(peaks, j + 1)
  BY DEF KeepBoth
<1>2. PICK s, m : s = peaks /\ m = j
  OBVIOUS
<1>3. TrackOK /\ PruneOK(s, m) /\ m \in 1 .. Len(s) - 1 /\ s[m] \in Int /\ s[m + 1] \in Int
  BY <1>1, <1>2, TurnHas
<1>4. s[m + 1] - s[m] >= 2 * Buffer
  BY <1>1, <1>2, <1>3 DEF Crowded, Pruning, Buffer
<1>5. PruneOK(s, m + 1)
  BY <1>3, <1>4, KeepBothKeeps
<1>6. m + 1 \in Nat \ {0}
  BY <1>3
<1> QED
  BY <1>1, <1>2, <1>5, <1>6, GoOnKeeps DEF Pruning

LEMMA DropMiddleStep ==
    ASSUME PartsInv, DropMiddle
    PROVE  PartsInv'
<1>1. /\ Pruning /\ Crowded(j) /\ Crowded(j + 1) /\ MiddleLowest(j)
      /\ GoOn(RemoveAt(peaks, j + 1), j + 1)
  BY DEF DropMiddle
<1>2. PICK s, m : s = peaks /\ m = j
  OBVIOUS
<1>3. /\ TrackOK /\ PruneOK(s, m) /\ PeaksOK(s) /\ m \in 1 .. Len(s) - 1 /\ Len(s) \in Nat
      /\ \A i \in 1 .. Len(s) : s[i] \in Int /\ I[s[i]] \in Nat
  BY <1>1, <1>2, TurnHas
<1>4. s[m + 1] - s[m] < 2 * Buffer /\ m + 1 < Len(s)
  BY <1>1, <1>2 DEF Crowded
<1>5. m \in 1 .. Len(s) /\ m + 1 \in 1 .. Len(s) /\ m + 2 \in 1 .. Len(s) /\ (m + 1) + 1 = m + 2
  BY <1>3, <1>4
<1>6. I[s[m + 1]] < I[s[m]] \/ I[s[m + 1]] < I[s[m + 2]]
  BY <1>1, <1>2 DEF MiddleLowest, Bright
<1>7. s[m + 2] - s[m] >= Gap
  <2>1. PICK x, y, z : x = s[m] /\ y = s[m + 1] /\ z = s[m + 2]
    OBVIOUS
  <2>2. x \in LocalMaxima /\ y \in LocalMaxima /\ z \in LocalMaxima /\ x < y /\ y < z
    <3>1. m < m + 1 /\ m + 1 < m + 2
      BY <1>3
    <3> QED
      BY <1>3, <1>5, <2>1, <3>1 DEF PeaksOK
  <2>3. x \in Int /\ y \in Int /\ z \in Int
    BY <1>3, <1>5, <2>1
  <2>4. CASE Strict
    <3>1. y - x >= 2 /\ z - y >= 2
      BY <1>3, <2>2, <2>4, MaximaApart
    <3>2. z - x >= Gap
      BY <2>3, <2>4, <3>1, GapIs
    <3> QED
      BY <2>1, <3>2
  <2>5. CASE ~Strict
    <3>1. Gap = 3
      BY <2>5 DEF Gap, Buffer
    <3>2. I[x] \in Nat /\ I[y] \in Nat /\ I[z] \in Nat
      BY <1>3, <1>5, <2>1
    <3>3. I[x] # I[y] \/ I[y] # I[z]
      BY <1>6, <2>1, <3>2
    <3>4. y - x >= 2 \/ z - y >= 2
      BY <1>3, <2>2, <3>3, MaximaApart
    <3>5. z - x >= 3
      BY <2>2, <2>3, <3>4
    <3> QED
      BY <2>1, <3>1, <3>5
  <2> QED
    BY <2>4, <2>5
<1>8. PICK c : c \in {m, m + 2} /\ I[s[m + 1]] < I[s[c]]
  BY <1>6
<1>9. c \in 1 .. Len(s) /\ c # m + 1 /\ I[s[m + 1]] <= I[s[c]]
  <2>1. c \in 1 .. Len(s) /\ c # m + 1
    BY <1>3, <1>5, <1>8
  <2>2. I[s[m + 1]] \in Nat /\ I[s[c]] \in Nat
    BY <1>3, <1>5, <2>1
  <2> QED
    BY <1>8, <2>1, <2>2
<1>10. PruneOK(RemoveAt(s, m + 1), m + 1)
  BY <1>3, <1>4, <1>7, <1>9, DropSecondKeeps
<1>11. m + 1 \in Nat \ {0}
  BY <1>3
<1>12. GoOn(RemoveAt(s, m + 1), m + 1) /\ pc = "prune"
  BY <1>1, <1>2 DEF Pruning
<1> QED
  BY <1>10, <1>11, <1>12, GoOnKeeps

LEMMA DropLaterStep ==
    ASSUME PartsInv, DropLater
    PROVE  PartsInv'
<1>1. /\ Pruning /\ Crowded(j) /\ ~Crowded(j + 1) /\ Bright(j) > Bright(j + 1)
      /\ GoOn(RemoveAt(peaks, j + 1), j + 1)
  BY DEF DropLater, CrowdedPair
<1>2. PICK s, m : s = peaks /\ m = j
  OBVIOUS
<1>3. /\ TrackOK /\ PruneOK(s, m) /\ PeaksOK(s) /\ m \in 1 .. Len(s) - 1 /\ Len(s) \in Nat
      /\ \A i \in 1 .. Len(s) : s[i] \in Int /\ I[s[i]] \in Nat
  BY <1>1, <1>2, TurnHas
<1>4. s[m + 1] - s[m] < 2 * Buffer
  BY <1>1, <1>2 DEF Crowded
<1>5. m \in 1 .. Len(s) /\ m + 1 \in 1 .. Len(s) /\ (m + 1) + 1 = m + 2 /\ m # m + 1
  BY <1>3
<1>6. I[s[m + 1]] <= I[s[m]]
  <2>1. I[s[m]] > I[s[m + 1]] /\ I[s[m]] \in Nat /\ I[s[m + 1]] \in Nat
    BY <1>1, <1>2, <1>3, <1>5 DEF Bright
  <2> QED
    BY <2>1
<1>7. m + 2 <= Len(s) => s[m + 2] - s[m] >= Gap
  <2>1. ASSUME m + 2 <= Len(s)
        PROVE  s[m + 2] - s[m] >= Gap
    <3>1. m + 2 \in 1 .. Len(s) /\ m + 1 < Len(s) /\ m < m + 1
      BY <1>3, <2>1
    <3>2. PICK x, y, z : x = s[m] /\ y = s[m + 1] /\ z = s[m + 2]
      OBVIOUS
    <3>3. x \in Int /\ y \in Int /\ z \in Int /\ x < y
      BY <1>3, <1>5, <3>1, <3>2 DEF PeaksOK
    <3>4. ~(z - y < 4)
      BY <1>1, <1>2, <1>5, <3>1, <3>2 DEF Crowded, Buffer
    <3>5. z - x >= Gap
      BY <3>3, <3>4, GapIs
    <3> QED
      BY <3>2, <3>5
  <2> QED
    BY <2>1
<1>8. PruneOK(RemoveAt(s, m + 1), m + 1)
  BY <1>3, <1>4, <1>5, <1>6, <1>7, DropSecondKeeps
<1>9. m + 1 \in Nat \ {0}
  BY <1>3
<1>10. GoOn(RemoveAt(s, m + 1), m + 1) /\ pc = "prune"
  BY <1>1, <1>2 DEF Pruning
<1> QED
  BY <1>8, <1>9, <1>10, GoOnKeeps

LEMMA DropEarlierStep ==
    ASSUME PartsInv, DropEarlier
    PROVE  PartsInv'
<1>1. /\ Pruning /\ Crowded(j) /\ ~Crowded(j + 1) /\ Bright(j) <= Bright(j + 1)
      /\ GoOn(RemoveAt(peaks, j), j)
  BY DEF DropEarlier, CrowdedPair
<1>2. PICK s, m : s = peaks /\ m = j
  OBVIOUS
<1>3. /\ TrackOK /\ PruneOK(s, m) /\ m \in 1 .. Len(s) - 1 /\ Len(s) \in Nat
      /\ \A i \in 1 .. Len(s) : s[i] \in Int
  BY <1>1, <1>2, TurnHas
<1>4. s[m + 1] - s[m] < 2 * Buffer
  BY <1>1, <1>2 DEF Crowded
<1>5. I[s[m]] <= I[s[m + 1]]
  BY <1>1, <1>2 DEF Bright
<1>6. m + 2 <= Len(s) => s[m + 2] - s[m + 1] >= 2 * Buffer
  <2>1. ASSUME m + 2 <= Len(s)
        PROVE  s[m + 2] - s[m + 1] >= 2 * Buffer
    <3>1. m + 2 \in 1 .. Len(s) /\ m + 1 \in 1 .. Len(s) /\ m + 1 < Len(s) /\ (m + 1) + 1 = m + 2
      BY <1>3, <2>1
    <3>2. PICK y, z : y = s[m + 1] /\ z = s[m + 2]
      OBVIOUS
    <3>3. y \in Int /\ z \in Int
      BY <1>3, <3>1, <3>2
    <3>4. ~(z - y < 2 * Buffer)
      BY <1>1, <1>2, <3>1, <3>2 DEF Crowded
    <3>5. z - y >= 2 * Buffer
      BY <3>3, <3>4 DEF Buffer
    <3> QED
      BY <3>2, <3>5
  <2> QED
    BY <2>1
<1>7. PruneOK(RemoveAt(s, m), m)
  BY <1>3, <1>4, <1>5, <1>6, DropFirstKeeps
<1>8. m \in Nat \ {0}
  BY <1>3
<1>9. GoOn(RemoveAt(s, m), m) /\ pc = "prune"
  BY <1>1, <1>2 DEF Pruning
<1> QED
  BY <1>7, <1>8, <1>9, GoOnKeeps

LEMMA DropOuterStep ==
    ASSUME PartsInv, DropOuter
    PROVE  PartsInv'
<1>1. /\ Pruning /\ Crowded(j) /\ Crowded(j + 1) /\ ~MiddleLowest(j)
      /\ GoOn(RemoveAt(RemoveAt(peaks, j + 2), j), j)
  BY DEF DropOuter
<1>2. PICK s, m : s = peaks /\ m = j
  OBVIOUS
<1>3. /\ TrackOK /\ PruneOK(s, m) /\ m \in 1 .. Len(s) - 1 /\ Len(s) \in Nat
      /\ \A i \in 1 .. Len(s) : I[s[i]] \in Nat
  BY <1>1, <1>2, TurnHas
<1>4. s[m + 1] - s[m] < 2 * Buffer /\ m + 1 < Len(s)
  BY <1>1, <1>2 DEF Crowded
<1>5. /\ m \in 1 .. Len(s) /\ m + 1 \in 1 .. Len(s) /\ m + 2 \in 1 .. Len(s)
      /\ (m + 1) + 1 = m + 2 /\ m \in 1 .. Len(s) - 2
  BY <1>3, <1>4
<1>6. s[m + 2] - s[m + 1] < 2 * Buffer
  BY <1>1, <1>2, <1>5 DEF Crowded
<1>7. I[s[m]] <= I[s[m + 1]] /\ I[s[m + 2]] <= I[s[m + 1]]
  <2>1. ~(I[s[m + 1]] < I[s[m]]) /\ ~(I[s[m + 1]] < I[s[m + 2]])
    BY <1>1, <1>2 DEF MiddleLowest, Bright
  <2> QED
    BY <1>3, <1>5, <2>1
<1>8. PruneOK(RemoveAt(RemoveAt(s, m + 2), m), m)
  BY <1>3, <1>4, <1>5, <1>6, <1>7, DropOuterKeeps
<1>9. m \in Nat \ {0}
  BY <1>3
<1>10. GoOn(RemoveAt(RemoveAt(s, m + 2), m), m) /\ pc = "prune"
  BY <1>1, <1>2 DEF Pruning
<1> QED
  BY <1>8, <1>9, <1>10, GoOnKeeps

LEMMA MakeRegionsKeeps ==
    ASSUME PartsInv, MakeRegions
    PROVE  PartsInv'
<1>1. PICK s, m : s = peaks' /\ m = j'
  OBVIOUS
<1>2. /\ UNCHANGED <<I, peaks, j, length, parts, stored>> /\ pc = "prune" /\ pc' = "cut"
      /\ left' = Len(s) /\ s = peaks /\ m = j /\ m >= Len(s)
  BY <1>1 DEF MakeRegions, RegionCount
<1>3. TrackOK /\ PeaksOK(s) /\ PruneOK(s, m) /\ m \in Int /\ Len(s) \in Nat
  BY <1>2 DEF PartsInv, PruneInv, PeaksOK
<1>4. PruneOK(s, Len(s))
  BY <1>2, <1>3, AllPruned
<1>5. PeaksOK(peaks)' /\ PruneOK(peaks, Len(peaks))'
  BY <1>1, <1>2, <1>3, <1>4, PeaksAfter
<1>6. TrackOK' /\ Size' = Size
  BY <1>2, <1>3, TrackStays
<1>7. SearchInv' /\ PruneInv'
  BY <1>2, <1>5 DEF SearchInv, PruneInv
<1>8. CutInv'
  <2>1. length = Size /\ parts = <<>> /\ parts \in Seq(Int \X Int)
    BY <1>2 DEF PartsInv, CutInv
  <2>2. RestOf(Len(s))' = Size
    <3>1. RestOf(Len(s)) = Size
      BY <1>2 DEF RestOf
    <3> QED
      BY <1>2, <3>1, RegionsStay
  <2>3. left' \in 0 .. Len(peaks') /\ length' = RestOf(left)' /\ Len(parts') = Len(peaks') - left'
    <3>1. RestOf(left)' = Size
      BY <1>2, <1>6 DEF RestOf
    <3> QED
      BY <1>1, <1>2, <1>3, <2>1, <3>1
  <2>4. parts' = <<>>
    BY <1>2, <2>1
  <2> QED
    BY <1>2, <2>1, <2>3, <2>4 DEF CutInv
<1>9. StoreInv'
  BY <1>2 DEF PartsInv, StoreInv, CutInv
<1> QED
  BY <1>2, <1>5, <1>6, <1>7, <1>8, <1>9 DEF PartsInv

\* What stays in a step that leaves the track and its peaks.
LEMMA AfterPruning ==
    ASSUME PartsInv, UNCHANGED <<I, peaks, j>>, pc \in {"cut", "done", "written"},
           pc' \in {"cut", "done", "written"}
    PROVE  /\ TrackOK' /\ PeaksOK(peaks)' /\ j' \in Nat \ {0} /\ SearchInv' /\ PruneInv'
           /\ TrackOK /\ PruneOK(peaks, Len(peaks)) /\ Len(peaks) \in Nat
<1>1. PICK s, m : s = peaks' /\ m = j'
  OBVIOUS
<1>2. s = peaks /\ TrackOK /\ PeaksOK(s) /\ PruneOK(s, Len(s)) /\ j \in Nat \ {0}
  BY <1>1 DEF PartsInv, PruneInv
<1>3. PeaksOK(peaks)' /\ PruneOK(peaks, Len(peaks))' /\ TrackOK'
  BY <1>1, <1>2, PeaksAfter, TrackStays
<1>4. SearchInv' /\ PruneInv'
  BY <1>3 DEF SearchInv, PruneInv
<1>5. Len(peaks) \in Nat
  BY <1>2 DEF PeaksOK
<1> QED
  BY <1>2, <1>3, <1>4, <1>5

LEMMA CutKeeps ==
    ASSUME PartsInv, Cut
    PROVE  PartsInv'
<1>1. pc = "cut" /\ left > 0 /\ UNCHANGED <<I, peaks, j, stored>> /\ pc' = CutOutcome
  BY DEF Cut
<1>2. TrackOK /\ PruneOK(peaks, Len(peaks)) /\ Len(peaks) \in Nat
  BY <1>1 DEF PartsInv, PruneInv, PeaksOK
<1>3. /\ left \in 1 .. Len(peaks) /\ length = RestOf(left)
      /\ parts \in Seq(Int \X Int) /\ Len(parts) = Len(peaks) - left
      /\ \A n \in 1 .. Len(parts) : parts[n] = Region(Len(peaks) + 1 - n)
  BY <1>1, <1>2 DEF PartsInv, CutInv
<1>4. CutOutcome = "cut"
  BY <1>2, <1>3, CutIsRight
<1>5. PICK l, r, q : l = left /\ r = Region(l) /\ q = parts'
  OBVIOUS
<1>6. pc' = "cut" /\ q = Append(parts, r) /\ length' = r[1] /\ left' = l - 1
  BY <1>1, <1>4, <1>5 DEF Cut, NextRegion
<1>7. TrackOK' /\ PeaksOK(peaks)' /\ j' \in Nat \ {0} /\ SearchInv' /\ PruneInv'
  BY <1>1, <1>6, AfterPruning
<1>8. r \in Int \X Int
  BY <1>2, <1>3, <1>5, RegionIs
<1>9. /\ q \in Seq(Int \X Int) /\ Len(q) = Len(parts) + 1 /\ q[Len(parts) + 1] = r
      /\ \A n \in 1 .. Len(parts) : q[n] = parts[n]
  <2> DEFINE Ranges == Int \X Int
  <2>1. parts \in Seq(Ranges) /\ r \in Ranges
    BY <1>3, <1>8
  <2> HIDE DEF Ranges
  <2>2. /\ Append(parts, r) \in Seq(Ranges) /\ Len(Append(parts, r)) = Len(parts) + 1
        /\ Append(parts, r)[Len(parts) + 1] = r
        /\ \A n \in 1 .. Len(parts) : Append(parts, r)[n] = parts[n]
    BY <2>1, AppendProperties
  <2> QED
    BY <1>6, <2>2 DEF Ranges
<1>10. CutInv'
  <2>1. l \in Int /\ l >= 1 /\ l <= Len(peaks) /\ Len(parts) \in Nat /\ Len(parts) = Len(peaks) - l
    BY <1>2, <1>3, <1>5
  <2>2. left' \in 0 .. Len(peaks') /\ Len(q) = Len(peaks') - left'
    BY <1>1, <1>2, <1>6, <1>9, <2>1
  <2>3. length' = RestOf(left)'
    <3>1. RestOf(left)' = RestOf(left')
      BY <1>1, <1>6, RegionsStay DEF RestOf
    <3>2. l - 1 # Len(peaks) /\ (l - 1) + 1 = l
      BY <1>2, <2>1
    <3>3. RestOf(l - 1) = r[1]
      BY <1>5, <3>2 DEF RestOf
    <3> QED
      BY <1>6, <3>1, <3>3
  <2>4. \A n \in 1 .. Len(q) : q[n] = (Region(Len(peaks) + 1 - n))'
    <3> TAKE n \in 1 .. Len(q)
    <3>1. (Region(Len(peaks) + 1 - n))' = Region(Len(peaks) + 1 - n)
      BY <1>1, RegionsStay
    <3>2. CASE n \in 1 .. Len(parts)
      BY <1>3, <1>9, <3>1, <3>2
    <3>3. CASE n = Len(parts) + 1
      <4>1. Len(peaks) + 1 - n = l
        BY <1>2, <2>1, <3>3
      <4> QED
        BY <1>5, <1>9, <3>1, <3>3, <4>1
    <3>4. n \in 1 .. Len(parts) \/ n = Len(parts) + 1
      <4>1. Len(q) = Len(parts) + 1 /\ n \in Nat /\ 1 <= n /\ n <= Len(q)
        BY <1>9, <2>1
      <4> QED
        BY <4>1, <2>1
    <3> QED
      BY <3>2, <3>3, <3>4
  <2> QED
    BY <1>5, <1>6, <1>9, <2>2, <2>3, <2>4 DEF CutInv
<1>11. StoreInv'
  <2>1. stored = <<>>
    BY <1>1 DEF PartsInv, StoreInv
  <2>2. Len(parts') \in Nat
    BY <1>5, <1>9
  <2>3. stored' = <<>> /\ pc' = "cut"
    BY <1>1, <1>6, <2>1
  <2>4. stored' \in Seq({})
    BY <2>3
  <2> QED
    BY <2>2, <2>3, <2>4 DEF StoreInv
<1> QED
  BY <1>6, <1>7, <1>10, <1>11 DEF PartsInv

\* The parts stay as they are.
LEMMA PartsStay ==
    ASSUME PartsInv, UNCHANGED <<I, peaks, j, left, length, parts>>,
           pc \in {"cut", "done", "written"}, pc' \in {"cut", "done", "written"},
           pc' \in {"done", "written"} => left = 0
    PROVE  CutInv'
<1>1. /\ left \in 0 .. Len(peaks) /\ length = RestOf(left)
      /\ parts \in Seq(Int \X Int) /\ Len(parts) = Len(peaks) - left
      /\ \A n \in 1 .. Len(parts) : parts[n] = Region(Len(peaks) + 1 - n)
  BY DEF PartsInv, CutInv
<1>2. RestOf(left)' = RestOf(left)
  BY RegionsStay DEF RestOf
<1>3. \A n \in 1 .. Len(parts) : parts[n] = (Region(Len(peaks) + 1 - n))'
  BY <1>1, RegionsStay
<1> QED
  BY <1>1, <1>2, <1>3 DEF CutInv

LEMMA FinishKeeps ==
    ASSUME PartsInv, Finish
    PROVE  PartsInv'
<1>1. /\ pc = "cut" /\ pc' = "done" /\ left = 0
      /\ UNCHANGED <<I, peaks, j, left, length, parts, stored>>
  BY DEF Finish
<1>2. TrackOK' /\ PeaksOK(peaks)' /\ j' \in Nat \ {0} /\ SearchInv' /\ PruneInv'
  BY <1>1, AfterPruning
<1>3. CutInv'
  BY <1>1, PartsStay
<1>4. StoreInv'
  BY <1>1 DEF PartsInv, StoreInv
<1> QED
  BY <1>1, <1>2, <1>3, <1>4 DEF PartsInv

LEMMA StoreLinkKeeps ==
    ASSUME PartsInv, StoreLink
    PROVE  PartsInv'
<1>1. PICK n, e, q : /\ n = Len(stored) + 1 /\ q = stored'
                     /\ e = AverageCord(parts[Len(stored) + 1])
  OBVIOUS
<1>2. /\ pc = "done" /\ pc' = "done" /\ Len(stored) < Len(parts) /\ q = Append(stored, e)
      /\ UNCHANGED <<I, peaks, j, left, length, parts>>
  BY <1>1 DEF StoreLink, StoreParticlePos
<1>3. TrackOK' /\ PeaksOK(peaks)' /\ j' \in Nat \ {0} /\ SearchInv' /\ PruneInv'
  BY <1>2, AfterPruning
<1>4. TrackOK /\ PruneOK(peaks, Len(peaks)) /\ Len(peaks) \in Nat
  BY <1>2, AfterPruning
<1>5. CutInv'
  <2>1. left = 0
    BY <1>2 DEF PartsInv, CutInv
  <2> QED
    BY <1>2, <2>1, PartsStay
<1>6. /\ left = 0 /\ Len(parts) = Len(peaks)
      /\ \A i \in 1 .. Len(parts) : parts[i] = Region(Len(peaks) + 1 - i)
  <2>1. left = 0 /\ Len(parts) = Len(peaks) - left
    BY <1>2 DEF PartsInv, CutInv
  <2>2. \A i \in 1 .. Len(parts) : parts[i] = Region(Len(peaks) + 1 - i)
    BY <1>2 DEF PartsInv, CutInv
  <2> QED
    BY <1>4, <2>1, <2>2
<1>7. PICK S : stored \in Seq(S)
  BY DEF PartsInv, StoreInv
<1>8. /\ q \in Seq(S \cup {e}) /\ Len(q) = n /\ q[n] = e
      /\ \A i \in 1 .. Len(stored) : q[i] = stored[i]
  <2>1. stored \in Seq(S \cup {e}) /\ e \in S \cup {e}
    BY <1>7
  <2> HIDE <1>7
  <2> QED
    BY <1>1, <1>2, <2>1
<1>9. Len(stored) \in Nat /\ n \in 1 .. Len(parts)
  BY <1>1, <1>2, <1>4, <1>6, <1>7
<1>10. Near(e, PeakOf(n))
  <2>1. PICK i : i = Len(peaks) + 1 - n
    OBVIOUS
  <2>2. i \in 1 .. Len(peaks)
    BY <1>4, <1>6, <1>9, <2>1
  <2>3. Near(AverageCord(Region(i)), peaks[i])
    BY <1>4, <2>2, CentreIsNear
  <2>4. e = AverageCord(Region(i)) /\ PeakOf(n) = peaks[i]
    BY <1>1, <1>6, <1>9, <2>1 DEF PeakOf
  <2> QED
    BY <2>3, <2>4
<1>11. \A i \in 1 .. Len(q) : Near(q[i], PeakOf(i))'
  <2> TAKE i \in 1 .. Len(q)
  <2>1. \A a, p : Near(a, p)' <=> Near(a, p)
    BY <1>2, RegionsStay
  <2>2. PeakOf(i)' = PeakOf(i)
    BY <1>2, RegionsStay
  <2>3. Near(q[i], PeakOf(i))
    <3>1. CASE i \in 1 .. Len(stored)
      BY <1>8, <3>1 DEF PartsInv, StoreInv
    <3>2. CASE i = n
      BY <1>8, <1>10, <3>2
    <3> QED
      BY <1>1, <1>8, <1>9, <3>1, <3>2
  <2> QED
    BY <1>2, <2>2, <2>3 DEF Near
<1>12. StoreInv'
  <2>1. stored' \in Seq(S \cup {e})
    BY <1>1, <1>8
  <2>2. (\A i \in 1 .. Len(stored) : Near(stored[i], PeakOf(i)))'
    BY <1>1, <1>11, Zenon DEF Near, PeakOf
  <2>3. Len(stored') <= Len(parts') /\ pc' = "done"
    BY <1>1, <1>2, <1>8, <1>9
  <2> QED
    BY <2>1, <2>2, <2>3 DEF StoreInv
<1> QED
  BY <1>2, <1>3, <1>5, <1>12 DEF PartsInv

LEMMA CloseGroupKeeps ==
    ASSUME PartsInv, CloseGroup
    PROVE  PartsInv'
<1>1. /\ pc = "done" /\ pc' = "written" /\ Len(stored) = Len(parts)
      /\ UNCHANGED <<I, peaks, j, left, length, parts, stored>>
  BY DEF CloseGroup
<1>2. TrackOK' /\ PeaksOK(peaks)' /\ j' \in Nat \ {0} /\ SearchInv' /\ PruneInv'
  BY <1>1, AfterPruning
<1>3. CutInv'
  <2>1. left = 0
    BY <1>1 DEF PartsInv, CutInv
  <2> QED
    BY <1>1, <2>1, PartsStay
<1>4. StoreInv'
  <2>1. \A i \in 1 .. Len(stored) : Near(stored[i], PeakOf(i))'
    <3> TAKE i \in 1 .. Len(stored)
    <3>1. Near(stored[i], PeakOf(i))
      BY DEF PartsInv, StoreInv
    <3>2. PeakOf(i)' = PeakOf(i)
      BY <1>1, RegionsStay
    <3> QED
      BY <1>1, <3>1, <3>2 DEF Near
  <2> QED
    BY <1>1, <2>1 DEF PartsInv, StoreInv
<1> QED
  BY <1>1, <1>2, <1>3, <1>4 DEF PartsInv

LEMMA StutterKeeps ==
    ASSUME PartsInv, UNCHANGED <<I, peaks, j, left, length, parts, stored, pc>>
    PROVE  PartsInv'
<1>1. PICK s, m : s = peaks' /\ m = j'
  OBVIOUS
<1>2. s = peaks /\ m = j /\ TrackOK /\ PeaksOK(s)
  BY <1>1 DEF PartsInv
<1>3. Size' = Size /\ LocalMaxima' = LocalMaxima /\ TrackOK'
  BY <1>2, TrackStays
<1>4. /\ PeaksOK(peaks)' /\ PeakSet(peaks)' = PeakSet(peaks)
      /\ PruneOK(peaks, j)' <=> PruneOK(peaks, j)
      /\ PruneOK(peaks, Len(peaks))' <=> PruneOK(peaks, Len(peaks))
  BY <1>1, <1>2, PeaksAfter
<1>5. SearchInv'
  BY <1>3, <1>4 DEF PartsInv, SearchInv
<1>6. PruneInv'
  BY <1>4 DEF PartsInv, PruneInv
<1>7. CutInv'
  <2>1. CASE pc \in {"cut", "done", "written"}
    <3>1. pc \in {"done", "written"} => left = 0
      BY DEF PartsInv, CutInv
    <3> QED
      BY <2>1, <3>1, PartsStay
  <2>2. CASE pc \in {"peaks", "prune"}
    BY <1>3, <2>2 DEF PartsInv, CutInv
  <2> QED
    BY <2>1, <2>2 DEF PartsInv
<1>8. StoreInv'
  <2>1. (\A i \in 1 .. Len(stored) : Near(stored[i], PeakOf(i)))'
        <=> \A i \in 1 .. Len(stored) : Near(stored[i], PeakOf(i))
    BY Zenon DEF Near, PeakOf
  <2> QED
    BY <2>1 DEF PartsInv, StoreInv
<1> QED
  BY <1>2, <1>3, <1>4, <1>5, <1>6, <1>7, <1>8 DEF PartsInv

LEMMA PartsInvKept == PartsInv /\ [Next]_vars => PartsInv'
<1> SUFFICES ASSUME PartsInv, [Next]_vars
             PROVE  PartsInv'
  OBVIOUS
<1>1. CASE Next
  BY <1>1, FindPeaksKeeps, AllFoundKeeps, KeepBothStep, DropMiddleStep, DropOuterStep,
     DropLaterStep, DropEarlierStep, MakeRegionsKeeps, CutKeeps, FinishKeeps,
     StoreLinkKeeps, CloseGroupKeeps DEF Next
<1>2. CASE UNCHANGED vars
  BY <1>2, StutterKeeps DEF vars
<1> QED
  BY <1>1, <1>2

-----------------------------------------------------------------------------
(* The theorems                                                               *)

\* In every track the pruning leaves peaks that do not crowd each other; of a
\* track without plateaus it drops none but a local maximum that one of the
\* peaks it keeps crowds, and it keeps a brightest one.
THEOREM PeaksRightAlways == Spec => []PeaksRight
<1>1. ASSUME PartsInv
      PROVE  PeaksRight
  <2>1. ASSUME pc = "cut"
        PROVE  PeaksApart /\ (Strict => PeaksCovered)
    <3>1. TrackOK /\ PruneOK(peaks, Len(peaks))
      BY <1>1, <2>1 DEF PartsInv, PruneInv
    <3> QED
      BY <3>1, PrunedIsRight
  <2> QED
    BY <2>1 DEF PeaksRight
<1> QED
  BY <1>1, PartsInvInit, PartsInvKept, PTL DEF Spec

\* With all regions cut, the tracks on the shelf share no particle, and each has
\* its own peak inside it and no other.
LEMMA PartsAreDisjoint ==
    ASSUME PartsInv, pc \in {"done", "written"}
    PROVE  PartsDisjoint
<1>1. TrackOK /\ PruneOK(peaks, Len(peaks)) /\ Len(peaks) \in Nat
  BY DEF PartsInv, PruneInv, PeaksOK
<1>2. /\ parts \in Seq(Int \X Int) /\ Len(parts) = Len(peaks) - left /\ left = 0
      /\ \A n \in 1 .. Len(parts) : parts[n] = Region(Len(peaks) + 1 - n)
  BY DEF PartsInv, CutInv
<1>3. PICK N : N = Len(peaks)
  OBVIOUS
<1>4. N \in Nat /\ Len(parts) = N /\ DOMAIN parts = 1 .. N
  BY <1>1, <1>2, <1>3
<1>5. \A n \in 1 .. N : N + 1 - n \in 1 .. N /\ parts[n] = Region(N + 1 - n)
                        /\ PeakOf(n) = peaks[N + 1 - n]
  BY <1>2, <1>3, <1>4 DEF PeakOf
<1>6. \A i \in 1 .. N : /\ peaks[i] \in Int /\ Region(i) \in Int \X Int
                        /\ Region(i)[1] < peaks[i] /\ peaks[i] < Region(i)[2]
  <2>1. \A i \in 1 .. N : peaks[i] \in Int
    BY <1>1, <1>3, PeakAt DEF PruneOK
  <2>2. \A i \in 1 .. N : Region(i) \in Int \X Int /\ Region(i)[1] < peaks[i]
                          /\ peaks[i] < Region(i)[2]
    BY <1>1, <1>3, RegionIs
  <2> QED
    BY <2>1, <2>2
<1>7. \A i, k \in 1 .. N : i < k => Region(i)[2] <= Region(k)[1]
  BY <1>1, <1>3, RegionsApart
<1>8. ASSUME NEW m \in 1 .. N, NEW n \in 1 .. N, m # n
      PROVE  parts[m][2] <= parts[n][1] \/ parts[n][2] <= parts[m][1]
  <2>1. PICK i, k : i = N + 1 - m /\ k = N + 1 - n
    OBVIOUS
  <2>2. i \in 1 .. N /\ k \in 1 .. N /\ parts[m] = Region(i) /\ parts[n] = Region(k)
    BY <1>5, <2>1
  <2>3. i < k \/ k < i
    BY <1>4, <1>8, <2>1
  <2> QED
    BY <1>7, <2>2, <2>3
<1>9. ASSUME NEW n \in 1 .. N
      PROVE  {p \in Kept : parts[n][1] <= p /\ p < parts[n][2]} = {PeakOf(n)}
  <2>1. PICK i : i = N + 1 - n
    OBVIOUS
  <2>2. i \in 1 .. N /\ parts[n] = Region(i) /\ PeakOf(n) = peaks[i]
    BY <1>5, <2>1
  <2>3. PICK a, b, q : a = Region(i)[1] /\ b = Region(i)[2] /\ q = peaks[i]
    OBVIOUS
  <2>4. a \in Int /\ b \in Int /\ q \in Int /\ a < q /\ q < b
    BY <1>6, <2>2, <2>3
  <2>5. q \in Kept /\ a <= q
    BY <1>3, <2>2, <2>3, <2>4 DEF Kept
  <2>6. ASSUME NEW k \in 1 .. N, a <= peaks[k], peaks[k] < b
        PROVE  k = i
    <3>1. PICK c, d, p : c = Region(k)[1] /\ d = Region(k)[2] /\ p = peaks[k]
      OBVIOUS
    <3>2. c \in Int /\ d \in Int /\ p \in Int /\ c < p /\ p < d
      BY <1>6, <3>1
    <3>3. a <= p /\ p < b
      BY <2>6, <3>1
    <3>4. i < k => b <= c
      BY <1>7, <2>2, <2>3, <3>1
    <3>5. k < i => d <= a
      BY <1>7, <2>2, <2>3, <3>1
    <3> QED
      BY <2>2, <2>4, <3>2, <3>3, <3>4, <3>5
  <2>7. \A p \in Kept : a <= p /\ p < b => p = q
    BY <1>3, <2>3, <2>6 DEF Kept
  <2>8. {p \in Kept : a <= p /\ p < b} = {q}
    BY <2>4, <2>5, <2>7
  <2> QED
    BY <2>2, <2>3, <2>8
<1> QED
  BY <1>3, <1>4, <1>8, <1>9 DEF PartsDisjoint

\* In every track the cuts find the particles they ask for, leave one track for
\* each peak, and each track gives one particle near its peak.
THEOREM CutsRightAlways == Spec => []CutsRight
<1>1. ASSUME PartsInv
      PROVE  CutsRight
  <2>1. pc \notin {"thrown", "crash"}
    BY <1>1 DEF PartsInv
  <2>2. pc = "done" => PartsDisjoint
    BY <1>1, PartsAreDisjoint
  <2>3. ASSUME pc = "written"
        PROVE  PeaksWritten
    <3>1. /\ Len(stored) = Len(parts) /\ (\E S : stored \in Seq(S))
          /\ \A i \in 1 .. Len(stored) : Near(stored[i], PeakOf(i))
      BY <1>1, <2>3 DEF PartsInv, StoreInv
    <3>2. Len(parts) = Len(peaks)
      BY <1>1, <2>3, PartsAreDisjoint DEF PartsDisjoint
    <3>3. DOMAIN stored = 1 .. Len(stored)
      BY <3>1
    <3> QED
      BY <3>1, <3>2, <3>3 DEF PeaksWritten, Near
  <2> QED
    BY <2>1, <2>2, <2>3 DEF CutsRight
<1> QED
  BY <1>1, PartsInvInit, PartsInvKept, PTL DEF Spec

=============================================================================
