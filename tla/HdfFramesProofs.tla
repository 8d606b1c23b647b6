-------------------------- MODULE HdfFramesProofs --------------------------
EXTENDS HdfFrames, SumTheorems, SequenceTheorems

(***************************************************************************)
(* Proofs about the identification and the file its frames go to.          *)
(* Identification alone: IdenInv says what the frames that are made        *)
(* consist of and what is carried to the next one; FramesTimed follows.    *)
(* The file: BaseInv relates the file, the program that runs and its       *)
(* buffers. Every step of a program keeps it, and what a step does is then *)
(* said once, in the lemmas OpenStep to ListStep. On it rest SavedInv,     *)
(* that what was saved stays; LaidInv, that every index a reader takes     *)
(* from an array lies in the one it looks into; MetaInv, that the          *)
(* parameters of a frame stay what the image says; TrackedInv, with        *)
(* SavedInv and LaidInv, that what the file has under a key of tracking    *)
(* says what the tracks of one run said, so that a sweep reads it back;    *)
(* ParamsInv, with MetaInv, that what a run gives to the file and its list *)
(* says what it used.                                                      *)
(***************************************************************************)

-----------------------------------------------------------------------------
(* Sequences of the elements of a set, and the greatest of a set              *)

\* A sequence of all elements of a set is one and has them all.
LEMMA OrderIs ==
    ASSUME NEW S, IsFiniteSet(S), NEW s \in SetToSeqs(S)
    PROVE  /\ Cardinality(S) \in Nat /\ Len(s) = Cardinality(S) /\ DOMAIN s = 1 .. Len(s)
           /\ \A n \in 1 .. Len(s) : s[n] \in S
           /\ \A x \in S : \E n \in 1 .. Len(s) : s[n] = x
           /\ \A m, n \in 1 .. Len(s) : s[m] = s[n] => m = n
<1> DEFINE D == 1 .. Cardinality(S)
<1>1. Cardinality(S) \in Nat
  BY FS_CardinalityType
<1>2. s \in [D -> S] /\ \A i, j \in D : i # j => s[i] # s[j]
  BY DEF SetToSeqs
<1>3. s \in Injection(D, S)
  BY <1>2, Fun_IsInj
<1>4. Cardinality(D) = Cardinality(S)
  BY <1>1, FS_Interval
<1>5. s \in Surjection(D, S)
  BY <1>3, <1>4, FS_Injection
<1>6. \A x \in S : \E n \in D : s[n] = x
  BY <1>5 DEF Surjection
<1>7. Len(s) = Cardinality(S)
  <2>1. PICK n : n = Cardinality(S)
    OBVIOUS
  <2>2. n \in Nat /\ s \in [1 .. n -> S]
    BY <1>1, <1>2, <2>1
  <2>3. Len(s) = n
    BY <2>2
  <2>4. QED
    BY <2>1, <2>3
<1>8. QED
  BY <1>1, <1>2, <1>6, <1>7

\* The order SetToSeq chooses of a finite set is one of its orders.
LEMMA SomeOrder ==
    ASSUME NEW S, IsFiniteSet(S)
    PROVE  SetToSeq(S) \in SetToSeqs(S)
<1> DEFINE D == 1 .. Cardinality(S)
<1>1. PICK F \in Bijection(D, S) : TRUE
  BY FS_CardinalityType, Fun_ExistsBij
<1>2. F \in [D -> S] /\ \A a, b \in D : F[a] = F[b] => a = b
  BY <1>1, Fun_BijectionProperties
<1>3. F \in [D -> S] /\ IsInjective(F)
  BY <1>2 DEF IsInjective
<1>4. SetToSeq(S) \in [D -> S] /\ IsInjective(SetToSeq(S))
  BY <1>3 DEF SetToSeq
<1>5. QED
  BY <1>4 DEF SetToSeqs, IsInjective

\* The greatest of a finite set of numbers is in it.
LEMMA MaxIs ==
    ASSUME NEW S \in SUBSET Nat, S # {}, IsFiniteSet(S)
    PROVE  Max(S) \in S /\ \A x \in S : x <= Max(S)
<1> DEFINE HasMax(u) == \E m \in u : \A x \in u : x <= m
           B == {u \in SUBSET S : u # {} /\ ~HasMax(u)}
<1>1. B = {}
  <2>1. SUFFICES ASSUME B # {} PROVE FALSE
    OBVIOUS
  <2>2. PICK s \in B : IsFiniteSet(s) /\ \A u \in SUBSET s : u # s => u \notin B
    <3>1. B \in SUBSET SUBSET S
      OBVIOUS
    <3> HIDE DEF B
    <3>2. QED
      BY <2>1, <3>1, LeastSubset
  <2>3. PICK x \in s : TRUE
    BY <2>2
  <2>4. s \in SUBSET Nat /\ x \in Nat /\ ~HasMax(s)
    BY <2>2, <2>3
  <2>5. CASE s \ {x} = {}
    BY <2>3, <2>4, <2>5
  <2>6. CASE s \ {x} # {}
    <3>1. s \ {x} \in SUBSET S /\ s \ {x} \notin B
      BY <2>2, <2>3
    <3>2. PICK m \in s \ {x} : \A y \in s \ {x} : y <= m
      BY <2>6, <3>1
    <3>3. CASE m <= x
      <4>1. \A y \in s : y <= x
        BY <2>4, <3>2, <3>3
      <4>2. QED
        BY <2>3, <2>4, <4>1
    <3>4. CASE x <= m
      <4>1. \A y \in s : y <= m
        BY <2>4, <3>2, <3>4
      <4>2. QED
        BY <3>2, <2>4, <4>1
    <3>5. QED
      BY <2>4, <3>2, <3>3, <3>4
  <2>7. QED
    BY <2>5, <2>6
<1>2. PICK m \in S : \A x \in S : x <= m
  BY <1>1
<1>3. \A x \in S : m >= x
  BY <1>2
<1> DEFINE P(m1) == \A x \in S : m1 >= x
<1>4. P(m) /\ Max(S) = CHOOSE m1 \in S : P(m1)
  BY <1>3 DEF Max
<1> HIDE DEF P
<1>5. Max(S) \in S /\ P(Max(S))
  BY <1>4
<1>6. QED
  BY <1>5 DEF P

\* max_part_indx_ is not below an index, and 0 without one.
LEMMA MaxIndIs ==
    ASSUME NEW S \in SUBSET Nat, IsFiniteSet(S)
    PROVE  MaxInd(S) \in {0} \cup S /\ \A x \in S : x <= MaxInd(S)
<1>1. {0} \cup S \in SUBSET Nat /\ {0} \cup S # {} /\ IsFiniteSet({0} \cup S)
  BY FS_AddElement, S \cup {0} = {0} \cup S
<1>2. QED
  BY <1>1, MaxIs DEF MaxInd

\* g and f together, g where both have a value.
LEMMA OverIs ==
    ASSUME NEW g, NEW f
    PROVE  /\ DOMAIN Over(g, f) = DOMAIN g \cup DOMAIN f
           /\ \A x \in DOMAIN g : Over(g, f)[x] = g[x]
           /\ \A x \in DOMAIN f : x \notin DOMAIN g => Over(g, f)[x] = f[x]
BY DEF Over

-----------------------------------------------------------------------------
(* The identification                                                         *)

\* What the planes, the elements of their stores and the frames are made of.
PlaneType == [time : Int, z : Int, found : SUBSET Nat]
KeyNames == {"acquisition-time-local", "z-position", "calibrated", "comment", "dtime"}
TypeNames == {"time", "float", "bool", "string", "int", "uint"}
Element == [key : KeyNames, type : TypeNames, val : Int]
FrameType == [image : SUBSET Nat, found : Nat, md : Seq(Element)]

\* The time between a frame and the one before it, 0 for the first.
Gap(j) == IF j = 1 THEN 0 ELSE stack[FirstPlane(j)].time - stack[FirstPlane(j - 1)].time

\* The parameters of frame j, whose z is left open.
FrameStore(j, z) ==
    IF Averaging
    THEN <<Elem("z-position", "float", z), Elem("calibrated", "bool", 1),
           Elem("dtime", "uint", Gap(j) % UintMod),
           Elem("acquisition-time-local", "string", stack[FirstPlane(j)].time)>>
    ELSE IF stack[j].time >= 0
    THEN <<Elem("acquisition-time-local", "time", stack[j].time), Elem("z-position", "float", z),
           Elem("calibrated", "bool", 1), Elem("comment", "string", 0), Elem("dtime", "int", Gap(j))>>
    ELSE <<Elem("z-position", "float", z), Elem("calibrated", "bool", 1), Elem("comment", "string", 0)>>

\* The types of the identification's variables, and the bounds of its counters.
IdenTypeOK ==
    /\ stack \in Seq(PlaneType)
    /\ \A i, j \in 1 .. NPlanes :
        IsFiniteSet(stack[i].found) /\ (stack[i].time >= 0 <=> stack[j].time >= 0)
    /\ Averaging => avgCount \in Nat \ {0} /\ NPlanes >= avgCount /\ stack[1].time >= 0
    /\ plane.at \in Nat /\ plane.loaded = plane.at + 1
    /\ count \in Nat /\ (Averaging => count <= avgCount)
    /\ times \in [prev : Int, cur : Int]
    /\ sumZ \in Int
    /\ wrapper \in Seq(FrameType)
    /\ Len(wrapper) <= NFramesOut

\* Frame j of the wrapper is made of its planes and says when they were taken.
FrameRight(j) ==
    /\ wrapper[j].image = PlanesOf(j)
    /\ \E z \in Int : wrapper[j].md = FrameStore(j, z)

\* What is carried from frame to frame, and from plane to plane of an average.
CarriedRight ==
    LET n == Len(wrapper) IN
    /\ n > 0 /\ stack[1].time >= 0 => times.prev = stack[FirstPlane(n)].time
    /\ Averaging /\ count > 0 =>
        /\ image = FirstPlane(n + 1) .. FirstPlane(n + 1) + count - 1
        /\ plane.loaded = FirstPlane(n + 1) + count - 1
        /\ times.cur = stack[FirstPlane(n + 1)].time
        /\ n = 0 => times.prev = times.cur

\* The inductive invariant of the identification.
IdenInv ==
    /\ IdenTypeOK
    /\ \A j \in 1 .. Len(wrapper) : FrameRight(j)
    /\ CarriedRight

\* The planes of the average that is being made are in the stack.
LEMMA PlanesInside ==
    ASSUME IdenTypeOK, Averaging, ~IdenDone, NEW c \in Nat, c < avgCount
    PROVE  /\ FirstPlane(Len(wrapper) + 1) = Len(wrapper) * avgCount + 1
           /\ FirstPlane(Len(wrapper) + 1) + c \in 1 .. NPlanes
<1> DEFINE n == Len(wrapper)  q == NPlanes \div avgCount
<1>1. n \in Nat /\ NPlanes \in Nat /\ avgCount \in Nat \ {0}
  BY DEF IdenTypeOK, NPlanes
<1>2. n < q
  BY <1>1 DEF IdenTypeOK, IdenDone, NFramesOut
<1>3. q \in Nat /\ q * avgCount <= NPlanes
  BY <1>1
<1>4. (n + 1) * avgCount <= q * avgCount
  BY <1>1, <1>2, <1>3
<1>5. (n + 1) * avgCount = n * avgCount + avgCount /\ n * avgCount \in Nat
  BY <1>1
<1>6. FirstPlane(n + 1) = n * avgCount + 1
  BY <1>1 DEF FirstPlane
<1>7. QED
  BY <1>1, <1>3, <1>4, <1>5, <1>6

\* The first element of a name answers.
LEMMA FirstAnswers ==
    ASSUME NEW s, NEW i \in 1 .. Len(s), NEW k, s[i].key = k, \A j \in 1 .. i - 1 : s[j].key # k,
           Len(s) \in Nat
    PROVE  ContainsKey(s, k) /\ GetKeyIndex(s, k) = i /\ GetValue(s, k) = s[i].val
<1> DEFINE P(n) == s[n].key = k /\ \A j \in 1 .. n - 1 : s[j].key # k
<1>1. P(i)
  OBVIOUS
<1>2. ASSUME NEW n \in 1 .. Len(s), P(n)
      PROVE  n = i
  <2>1. ~(n < i) /\ ~(i < n)
    BY <1>1, <1>2
  <2>2. QED
    BY <2>1
<1>3. GetKeyIndex(s, k) = i
  <2>1. GetKeyIndex(s, k) = CHOOSE n \in 1 .. Len(s) : P(n)
    BY DEF GetKeyIndex
  <2> HIDE DEF P
  <2>2. QED
    BY <2>1, <1>1, <1>2
<1>4. ContainsKey(s, k)
  BY DEF ContainsKey, Keys
<1>5. QED
  BY <1>3, <1>4 DEF GetValue

\* What a plane says of itself, in the order it is put in.
LEMMA PlaneStoreIs ==
    ASSUME NEW p \in PlaneType, NEW w,
           w = IF p.time >= 0
               THEN <<Elem("acquisition-time-local", "time", p.time), Elem("z-position", "float", p.z),
                      Elem("calibrated", "bool", 1), Elem("comment", "string", 0)>>
               ELSE <<Elem("z-position", "float", p.z), Elem("calibrated", "bool", 1),
                      Elem("comment", "string", 0)>>
    PROVE  PlaneStore(p) = w /\ w \in Seq(Element)
<1> DEFINE e1 == Elem("acquisition-time-local", "time", p.time)
           e2 == Elem("z-position", "float", p.z)
           e3 == Elem("calibrated", "bool", 1)
           e4 == Elem("comment", "string", 0)
<1>1. e1 \in Element /\ e2 \in Element /\ e3 \in Element /\ e4 \in Element
  BY DEF Element, Elem, PlaneType, KeyNames, TypeNames
<1>2. PICK u, s : /\ u = IF p.time >= 0 THEN <<e1>> ELSE <<>>
                  /\ s = <<e2, e3, e4>>
                  /\ PlaneStore(p) = u \o s
  BY DEF PlaneStore
<1>3. w = IF p.time >= 0 THEN <<e1, e2, e3, e4>> ELSE <<e2, e3, e4>>
  OBVIOUS
<1> HIDE DEF e1, e2, e3, e4
<1>4. s \in Seq(Element) /\ Len(s) = 3 /\ s[1] = e2 /\ s[2] = e3 /\ s[3] = e4
  BY <1>1, <1>2
<1>5. CASE p.time >= 0
  <2>1. u \in Seq(Element) /\ Len(u) = 1 /\ u[1] = e1
    BY <1>1, <1>2, <1>5
  <2>. DEFINE r == u \o s
  <2>2. /\ r \in Seq(Element)
        /\ Len(r) = 4
        /\ \A i \in 1 .. 4 : r[i] = IF i <= 1 THEN u[i] ELSE s[i - 1]
    <3>1. /\ r \in Seq(Element)
          /\ Len(r) = Len(u) + Len(s)
          /\ \A i \in 1 .. Len(u) + Len(s) : r[i] = IF i <= Len(u) THEN u[i] ELSE s[i - Len(u)]
      BY <2>1, <1>4, ConcatProperties
    <3>2. Len(u) + Len(s) = 4
      BY <2>1, <1>4
    <3>3. QED
      BY <3>1, <3>2, <2>1
  <2> HIDE DEF r
  <2>3. w \in Seq(Element) /\ Len(w) = 4 /\ w[1] = e1 /\ w[2] = e2 /\ w[3] = e3 /\ w[4] = e4
    BY <1>1, <1>3, <1>5
  <2>4. \A i \in 1 .. 4 : r[i] = w[i]
    BY <1>4, <2>1, <2>2, <2>3
  <2>5. r = w
    BY <2>2, <2>3, <2>4, SeqEqual
  <2>6. QED
    BY <1>2, <2>3, <2>5 DEF r
<1>6. CASE ~(p.time >= 0)
  <2>1. u = <<>> /\ w = s
    BY <1>2, <1>3, <1>6
  <2>2. QED
    BY <1>2, <1>4, <2>1, ConcatEmptySeq
<1>7. QED
  BY <1>5, <1>6

\* What the store of a plane answers when it is asked.
LEMMA PlaneStoreAnswers ==
    ASSUME NEW p \in PlaneType
    PROVE  /\ PlaneStore(p) \in Seq(Element)
           /\ ContainsKey(PlaneStore(p), "acquisition-time-local") <=> p.time >= 0
           /\ p.time >= 0 => GetValue(PlaneStore(p), "acquisition-time-local") = p.time
           /\ GetValue(PlaneStore(p), "z-position") = p.z
<1> DEFINE w == IF p.time >= 0
                THEN <<Elem("acquisition-time-local", "time", p.time), Elem("z-position", "float", p.z),
                       Elem("calibrated", "bool", 1), Elem("comment", "string", 0)>>
                ELSE <<Elem("z-position", "float", p.z), Elem("calibrated", "bool", 1),
                       Elem("comment", "string", 0)>>
<1>1. PICK s : s = PlaneStore(p) /\ s = w /\ s \in Seq(Element)
  BY PlaneStoreIs
<1>2. CASE p.time >= 0
  <2>1. Len(s) = 4 /\ s[1].key = "acquisition-time-local" /\ s[2].key = "z-position"
        /\ s[1].val = p.time /\ s[2].val = p.z
    BY <1>1, <1>2 DEF Elem
  <2>2. ContainsKey(s, "acquisition-time-local") /\ GetValue(s, "acquisition-time-local") = s[1].val
    BY <2>1, FirstAnswers
  <2>3. GetValue(s, "z-position") = s[2].val
    BY <2>1, FirstAnswers
  <2>4. QED
    BY <1>1, <1>2, <2>1, <2>2, <2>3
<1>3. CASE ~(p.time >= 0)
  <2>1. Len(s) = 3 /\ s[1].key = "z-position" /\ s[2].key = "calibrated" /\ s[3].key = "comment"
        /\ s[1].val = p.z
    BY <1>1, <1>3 DEF Elem
  <2>2. ~ContainsKey(s, "acquisition-time-local")
    BY <2>1 DEF ContainsKey, Keys
  <2>3. GetValue(s, "z-position") = s[1].val
    BY <2>1, FirstAnswers
  <2>4. QED
    BY <1>1, <1>3, <2>1, <2>2, <2>3
<1>4. QED
  BY <1>2, <1>3

\* The store of a timed plane, with the time since the frame before it.
LEMMA TimedStore ==
    ASSUME NEW p \in PlaneType, p.time >= 0, NEW d \in Int, NEW w,
           w = <<Elem("acquisition-time-local", "time", p.time), Elem("z-position", "float", p.z),
                 Elem("calibrated", "bool", 1), Elem("comment", "string", 0), Elem("dtime", "int", d)>>
    PROVE  AddElement(PlaneStore(p), "dtime", "int", d) = w /\ w \in Seq(Element)
<1> DEFINE e1 == Elem("acquisition-time-local", "time", p.time)
           e2 == Elem("z-position", "float", p.z)
           e3 == Elem("calibrated", "bool", 1)
           e4 == Elem("comment", "string", 0)
           e5 == Elem("dtime", "int", d)
<1>1. e1 \in Element /\ e2 \in Element /\ e3 \in Element /\ e4 \in Element /\ e5 \in Element
  BY DEF Element, Elem, PlaneType, KeyNames, TypeNames
<1>2. PICK s : s = PlaneStore(p) /\ s = <<e1, e2, e3, e4>>
  BY PlaneStoreIs
<1>3. w = <<e1, e2, e3, e4, e5>>
  OBVIOUS
<1> HIDE DEF e1, e2, e3, e4
<1>4. s \in Seq(Element) /\ Len(s) = 4 /\ s[1] = e1 /\ s[2] = e2 /\ s[3] = e3 /\ s[4] = e4
  BY <1>1, <1>2
<1>5. w \in Seq(Element) /\ Len(w) = 5 /\ w[1] = e1 /\ w[2] = e2 /\ w[3] = e3 /\ w[4] = e4 /\ w[5] = e5
  BY <1>1, <1>3
<1> HIDE DEF e5
<1>r. PICK r : r = Append(s, e5)
  OBVIOUS
<1>6. r \in Seq(Element) /\ Len(r) = 5 /\ r[5] = e5 /\ \A i \in 1 .. 4 : r[i] = s[i]
  <2>1. s \in Seq(Element) /\ e5 \in Element
    BY <1>1, <1>4
  <2>2. r \in Seq(Element) /\ Len(r) = Len(s) + 1
    BY <1>r, <2>1, AppendProperties
  <2>3. (\A i \in 1 .. Len(s) : r[i] = s[i]) /\ r[Len(s) + 1] = e5
    BY <1>r, <2>1, AppendProperties
  <2>4. Len(s) = 4
    BY <1>4
  <2>5. QED
    BY <2>2, <2>3, <2>4
<1>7. \A i \in 1 .. 5 : r[i] = w[i]
  BY <1>4, <1>5, <1>6
<1>8. r = w
  BY <1>5, <1>6, <1>7, SeqEqual
<1>9. QED
  BY <1>r, <1>2, <1>5, <1>8 DEF AddElement, e5

\* What a frame has to be depends on the image alone.
LEMMA WantedFixed ==
    ASSUME UNCHANGED <<stack, avgCount>>
    PROVE  /\ Averaging' = Averaging /\ NPlanes' = NPlanes /\ NFramesOut' = NFramesOut
           /\ \A j : FirstPlane(j)' = FirstPlane(j)
           /\ \A j : PlanesOf(j)' = PlanesOf(j)
           /\ \A j, z : FrameStore(j, z)' = FrameStore(j, z)
<1>1. Averaging' = Averaging /\ NPlanes' = NPlanes
  BY DEF Averaging, NPlanes
<1>2. NFramesOut' = NFramesOut
  BY <1>1 DEF NFramesOut
<1>3. \A j : FirstPlane(j)' = FirstPlane(j)
  BY <1>1 DEF FirstPlane
<1>4. \A j : PlanesOf(j)' = PlanesOf(j)
  BY <1>3 DEF PlanesOf
<1>5. \A j : Gap(j)' = Gap(j)
  BY <1>3 DEF Gap
<1>6. \A j, z : FrameStore(j, z)' = FrameStore(j, z)
  BY <1>1, <1>3, <1>5 DEF FrameStore
<1>7. QED
  BY <1>1, <1>2, <1>3, <1>4, <1>6

\* A frame that is right is added to frames that are.
LEMMA FrameAdded ==
    ASSUME IdenInv, ~IdenDone, UNCHANGED <<stack, avgCount>>,
           NEW n \in Nat, NEW md \in Seq(Element), NEW z \in Int,
           AddFrame(PlanesOf(Len(wrapper) + 1), n, md), md = FrameStore(Len(wrapper) + 1, z)
    PROVE  /\ wrapper' \in Seq(FrameType) /\ Len(wrapper') = Len(wrapper) + 1
           /\ Len(wrapper') <= NFramesOut'
           /\ \A j \in 1 .. Len(wrapper') : FrameRight(j)'
<1> DEFINE m == Len(wrapper)  e == [image |-> PlanesOf(m + 1), found |-> n, md |-> md]
<1>1. m \in Nat /\ m <= NFramesOut /\ m # NFramesOut /\ NFramesOut \in Int
  BY DEF IdenInv, IdenTypeOK, IdenDone, NFramesOut, NPlanes
<1>2. PlanesOf(m + 1) \in SUBSET Nat
  <2>1. FirstPlane(m + 1) \in Nat
    <3>1. CASE Averaging
      <4>1. avgCount \in Nat
        BY <3>1 DEF IdenInv, IdenTypeOK
      <4>2. m * avgCount \in Nat
        BY <1>1, <4>1
      <4>3. QED
        BY <1>1, <3>1, <4>2 DEF FirstPlane
    <3>2. CASE ~Averaging
      BY <1>1, <3>2 DEF FirstPlane
    <3>3. QED
      BY <3>1, <3>2
  <2>2. QED
    BY <2>1 DEF PlanesOf
<1>3. e \in FrameType
  BY <1>2 DEF FrameType
<1>4. wrapper' = Append(wrapper, e)
  BY DEF AddFrame
<1> HIDE DEF e
<1>5. /\ wrapper' \in Seq(FrameType) /\ Len(wrapper') = m + 1
      /\ wrapper'[m + 1] = e /\ \A j \in 1 .. m : wrapper'[j] = wrapper[j]
  BY <1>3, <1>4, AppendProperties DEF IdenInv, IdenTypeOK
<1>6. ASSUME NEW j \in 1 .. m + 1
      PROVE  FrameRight(j)'
  <2>1. CASE j = m + 1
    BY <2>1, <1>5, WantedFixed DEF FrameRight, e
  <2>2. CASE j \in 1 .. m
    BY <2>2, <1>5, WantedFixed DEF FrameRight, IdenInv
  <2>3. QED
    BY <1>1, <2>1, <2>2
<1>7. QED
  BY <1>1, <1>5, <1>6, WantedFixed

\* The invariant holds before the first plane.
LEMMA IdenInvInit ==
    ASSUME IdenInit
    PROVE  IdenInv
<1>1. PICK im \in Images : stack = im.planes /\ avgCount = im.avg
  BY DEF IdenInit
<1>2. stack \in Seq(PlaneType) /\ Len(stack) \in Nat
  BY <1>1, ImagesAssumption DEF PlaneType
<1>3. Averaging => avgCount \in Nat \ {0} /\ NPlanes >= avgCount /\ stack[1].time >= 0
  BY <1>1, ImagesAssumption DEF Averaging, NPlanes, IdenInit
<1>4. \A i, j \in 1 .. NPlanes :
        IsFiniteSet(stack[i].found) /\ (stack[i].time >= 0 <=> stack[j].time >= 0)
  BY <1>1, ImagesAssumption DEF NPlanes
<1>5. Len(wrapper) = 0 /\ wrapper \in Seq(FrameType)
  BY DEF IdenInit
<1>6. 0 <= NFramesOut
  BY <1>2, <1>3 DEF NFramesOut, NPlanes
<1>7. IdenTypeOK
  BY <1>2, <1>3, <1>4, <1>5, <1>6 DEF IdenTypeOK, IdenInit
<1>8. CarriedRight
  BY <1>5 DEF CarriedRight, IdenInit
<1>9. QED
  BY <1>5, <1>7, <1>8 DEF IdenInv

\* One turn of fill_wrapper keeps the invariant.
LEMMA IdenPlaneKeeps ==
    ASSUME IdenInv, NEW n, IdenPlane(n)
    PROVE  IdenInv'
<1> DEFINE m == Len(wrapper)  p == stack[plane'.loaded]
<1>1. ~Averaging /\ ~IdenDone /\ UNCHANGED <<stack, avgCount, count, sumZ>>
  BY DEF IdenPlane
<1>2. m \in Nat /\ m < NPlanes /\ NPlanes \in Nat
  BY <1>1 DEF IdenInv, IdenTypeOK, IdenDone, NFramesOut, NPlanes
<1>3. /\ plane'.at \in Nat /\ plane'.loaded = plane'.at + 1 /\ plane'.loaded = m + 1
  <2>1. PlaneWanted = m
    BY <1>1 DEF PlaneWanted
  <2>2. plane' = IF plane.at = m THEN plane ELSE [at |-> m, loaded |-> m + 1]
    BY <2>1 DEF IdenPlane, SelectPlane
  <2>3. plane.at \in Nat /\ plane.loaded = plane.at + 1
    BY DEF IdenInv, IdenTypeOK
  <2>4. QED
    BY <1>2, <2>2, <2>3
<1>4. p \in PlaneType /\ p = stack[m + 1] /\ (p.time >= 0 <=> stack[1].time >= 0)
  BY <1>2, <1>3 DEF IdenInv, IdenTypeOK, NPlanes
<1>5. n \in Nat
  BY <1>2, <1>4 DEF IdenPlane, PlaneType
<1>6. FirstPlane(m + 1) = m + 1 /\ FirstPlane(m) = m /\ FirstPlane(m + 2) = m + 2
  BY <1>1 DEF FirstPlane
<1>7. image' = PlanesOf(m + 1)
  <2>1. image' = {m + 1}
    BY <1>3 DEF IdenPlane
  <2>2. PlanesOf(m + 1) = (m + 1) .. (m + 1 + 1) - 1
    BY <1>1 DEF PlanesOf, FirstPlane
  <2>3. QED
    BY <1>2, <2>1, <2>2
<1>8. PICK md : /\ AddFrame(image', n, md)
                /\ md \in Seq(Element)
                /\ md = FrameStore(m + 1, p.z)
                /\ times' \in [prev : Int, cur : Int]
                /\ p.time >= 0 => times'.prev = p.time
  <2>1. CASE p.time >= 0
    <3> DEFINE d == IF m = 0 THEN 0 ELSE p.time - times.prev
    <3>1. /\ times' = [prev |-> p.time, cur |-> IF m = 0 THEN times.cur ELSE p.time]
          /\ AddFrame(image', n, AddElement(PlaneStore(p), "dtime", "int", d))
      BY <1>4, <2>1, PlaneStoreAnswers DEF IdenPlane
    <3>2. d = Gap(m + 1)
      BY <1>2, <1>4, <1>6, <2>1 DEF Gap, IdenInv, CarriedRight
    <3>3. d \in Int
      BY <1>4, <1>2 DEF PlaneType, IdenInv, IdenTypeOK
    <3> HIDE DEF d
    <3>4. PICK w : w = FrameStore(m + 1, p.z)
      OBVIOUS
    <3>5. w = <<Elem("acquisition-time-local", "time", p.time), Elem("z-position", "float", p.z),
                Elem("calibrated", "bool", 1), Elem("comment", "string", 0), Elem("dtime", "int", d)>>
      BY <1>1, <1>4, <2>1, <3>2, <3>4 DEF FrameStore
    <3>6. AddElement(PlaneStore(p), "dtime", "int", d) = w /\ w \in Seq(Element)
      BY <1>4, <2>1, <3>3, <3>5, TimedStore
    <3>7. times' \in [prev : Int, cur : Int] /\ times'.prev = p.time
      BY <3>1, <1>4 DEF IdenInv, IdenTypeOK, PlaneType
    <3>8. QED
      BY <3>1, <3>4, <3>6, <3>7
  <2>2. CASE ~(p.time >= 0)
    <3>1. times' = times /\ AddFrame(image', n, PlaneStore(p))
      BY <1>4, <2>2, PlaneStoreAnswers DEF IdenPlane
    <3>2. PICK w : w = FrameStore(m + 1, p.z)
      OBVIOUS
    <3>3. w = <<Elem("z-position", "float", p.z), Elem("calibrated", "bool", 1), Elem("comment", "string", 0)>>
      BY <1>1, <1>4, <2>2, <3>2 DEF FrameStore
    <3>4. PlaneStore(p) = w /\ w \in Seq(Element)
      BY <1>4, <2>2, <3>3, PlaneStoreIs
    <3>5. QED
      BY <2>2, <3>1, <3>2, <3>4 DEF IdenInv, IdenTypeOK
  <2>3. QED
    BY <2>1, <2>2
<1>9. p.z \in Int
  BY <1>4 DEF PlaneType
<1>10. /\ wrapper' \in Seq(FrameType) /\ Len(wrapper') = m + 1
       /\ Len(wrapper') <= NFramesOut'
       /\ \A j \in 1 .. Len(wrapper') : FrameRight(j)'
  BY <1>1, <1>5, <1>7, <1>8, <1>9, FrameAdded
<1>11. IdenTypeOK'
  BY <1>1, <1>3, <1>8, <1>10, WantedFixed DEF IdenTypeOK, IdenInv
<1>12. CarriedRight'
  BY <1>1, <1>4, <1>6, <1>8, <1>10, WantedFixed DEF CarriedRight
<1>13. QED
  BY <1>10, <1>11, <1>12 DEF IdenInv

\* So does one plane of an averaged frame.
LEMMA AvgPlaneKeeps ==
    ASSUME IdenInv, AvgPlane
    PROVE  IdenInv'
<1> DEFINE m == Len(wrapper)  p == stack[plane'.loaded]  f == FirstPlane(m + 1)
<1>1. Averaging /\ ~IdenDone /\ count < avgCount /\ UNCHANGED <<stack, avgCount, wrapper>>
      /\ count' = count + 1
  BY DEF AvgPlane
<1>2. /\ m \in Nat /\ count \in Nat /\ avgCount \in Nat
      /\ f = m * avgCount + 1 /\ f + count \in 1 .. NPlanes /\ f \in 1 .. NPlanes /\ f \in Nat
  <2>1. m \in Nat /\ count \in Nat /\ avgCount \in Nat \ {0} /\ 0 < avgCount
    BY <1>1 DEF IdenInv, IdenTypeOK
  <2>2. f = m * avgCount + 1 /\ f + count \in 1 .. NPlanes
    BY <1>1, <2>1, PlanesInside DEF IdenInv
  <2>3. f + 0 \in 1 .. NPlanes
    BY <1>1, <2>1, PlanesInside DEF IdenInv
  <2>4. m * avgCount \in Nat
    BY <2>1
  <2>5. QED
    BY <2>1, <2>2, <2>3, <2>4
<1>3. /\ plane'.at \in Nat /\ plane'.loaded = plane'.at + 1 /\ plane'.loaded = f + count
  <2>1. PlaneWanted = m * avgCount + count
    BY <1>1 DEF PlaneWanted
  <2>2. m * avgCount \in Nat
    BY <1>2
  <2>3. PICK w : w = m * avgCount + count
    OBVIOUS
  <2>4. plane' = IF plane.at = w THEN plane ELSE [at |-> w, loaded |-> w + 1]
    BY <2>1, <2>3 DEF AvgPlane, SelectPlane
  <2>5. plane.at \in Nat /\ plane.loaded = plane.at + 1
    BY DEF IdenInv, IdenTypeOK
  <2>6. count \in Nat
    BY DEF IdenInv, IdenTypeOK
  <2>7. w \in Nat /\ w + 1 = f + count
    BY <1>2, <2>2, <2>3, <2>6
  <2>8. QED
    BY <2>4, <2>5, <2>7
<1>4. p \in PlaneType /\ p = stack[f + count] /\ p.time \in Int /\ p.z \in Int
  <2>1. p = stack[f + count]
    BY <1>1, <1>3
  <2>2. p \in PlaneType
    BY <1>2, <2>1 DEF IdenInv, IdenTypeOK, NPlanes
  <2>3. QED
    BY <2>1, <2>2 DEF PlaneType
<1>5. stack[f].time >= 0 /\ p.time >= 0
  <2>1. 1 \in 1 .. NPlanes
    BY <1>2 DEF NPlanes, IdenInv, IdenTypeOK
  <2>2. stack[1].time >= 0
    BY <1>1 DEF IdenInv, IdenTypeOK
  <2>3. QED
    BY <1>2, <1>4, <2>1, <2>2 DEF IdenInv, IdenTypeOK
<1>6. /\ times' = [cur |-> IF count = 0 THEN p.time ELSE times.cur,
                   prev |-> IF m = 0 THEN (IF count = 0 THEN p.time ELSE times.cur) ELSE times.prev]
      /\ sumZ' = sumZ + p.z
  BY <1>4, <1>5, PlaneStoreAnswers DEF AvgPlane
<1>7. image' = f .. f + count' - 1
  <2>1. CASE count = 0
    BY <1>1, <1>2, <1>3, <2>1 DEF AvgPlane
  <2>2. CASE count > 0
    <3>1. image = f .. f + count - 1
      BY <1>1, <2>2 DEF IdenInv, CarriedRight
    <3>2. image' = image \cup {f + count}
      BY <1>3, <2>2 DEF AvgPlane
    <3>3. QED
      BY <1>1, <1>2, <3>1, <3>2
  <2>3. QED
    BY <1>2, <2>1, <2>2
<1>8. IdenTypeOK'
  <2>1. times' \in [prev : Int, cur : Int] /\ sumZ' \in Int
    BY <1>4, <1>6 DEF IdenInv, IdenTypeOK
  <2>2. count' \in Nat /\ count' <= avgCount
    BY <1>1, <1>2
  <2>3. QED
    BY <1>1, <1>3, <2>1, <2>2, WantedFixed DEF IdenInv, IdenTypeOK
<1>9. CarriedRight'
  <2>1. times'.cur = stack[f].time
    BY <1>1, <1>2, <1>4, <1>6 DEF IdenInv, CarriedRight
  <2>2. m = 0 => times'.prev = times'.cur
    BY <1>6
  <2>3. m > 0 => times'.prev = stack[FirstPlane(m)].time
    BY <1>5, <1>6, <1>1 DEF IdenInv, CarriedRight, IdenTypeOK
  <2>4. FirstPlane(m)' = FirstPlane(m) /\ FirstPlane(m + 1)' = f
    BY <1>1, WantedFixed
  <2>5. QED
    BY <1>1, <1>2, <1>3, <1>7, <2>1, <2>2, <2>3, <2>4 DEF CarriedRight
<1>10. \A j \in 1 .. Len(wrapper') : FrameRight(j)'
  BY <1>1, WantedFixed DEF IdenInv, FrameRight
<1>11. QED
  BY <1>8, <1>9, <1>10 DEF IdenInv

\* And the end of one.
LEMMA AvgFrameKeeps ==
    ASSUME IdenInv, NEW n, AvgFrame(n)
    PROVE  IdenInv'
<1> DEFINE m == Len(wrapper)  f == FirstPlane(m + 1)
<1>1. /\ Averaging /\ ~IdenDone /\ count = avgCount /\ UNCHANGED <<stack, avgCount, plane, image>>
      /\ n \in stack[plane.loaded].found
      /\ count' = 0 /\ sumZ' = 0 /\ times' = [times EXCEPT !.prev = times.cur]
  BY DEF AvgFrame
<1>2. /\ m \in Nat /\ avgCount \in Nat \ {0} /\ count > 0
  BY <1>1 DEF IdenInv, IdenTypeOK
<1>3. image = f .. f + avgCount - 1 /\ plane.loaded = f + avgCount - 1 /\ times.cur = stack[f].time
      /\ (m = 0 => times.prev = times.cur)
  BY <1>1, <1>2 DEF IdenInv, CarriedRight
<1>4. f = m * avgCount + 1 /\ f + (avgCount - 1) \in 1 .. NPlanes /\ m * avgCount \in Nat
  <2>1. avgCount - 1 \in Nat /\ avgCount - 1 < avgCount
    BY <1>2
  <2>2. f = m * avgCount + 1 /\ f + (avgCount - 1) \in 1 .. NPlanes
    BY <1>1, <2>1, PlanesInside DEF IdenInv
  <2>3. QED
    BY <1>2, <2>2
<1>5. n \in Nat
  <2>1. plane.loaded \in 1 .. Len(stack)
    BY <1>2, <1>3, <1>4 DEF NPlanes
  <2>2. stack[plane.loaded] \in PlaneType
    BY <2>1 DEF IdenInv, IdenTypeOK
  <2>3. QED
    BY <1>1, <2>2 DEF PlaneType
<1>6. image = PlanesOf(m + 1)
  <2>1. FirstPlane(m + 1 + 1) = (m + 1) * avgCount + 1
    BY <1>1, <1>2 DEF FirstPlane
  <2>2. (m + 1) * avgCount = m * avgCount + avgCount
    BY <1>2
  <2>3. QED
    BY <1>2, <1>3, <1>4, <2>1, <2>2 DEF PlanesOf
<1>7. times.cur - times.prev = Gap(m + 1)
  <2>1. stack[1].time >= 0 /\ times.cur \in Int /\ times.prev \in Int
    BY <1>1 DEF IdenInv, IdenTypeOK
  <2>2. m > 0 => times.prev = stack[FirstPlane(m)].time
    BY <2>1 DEF IdenInv, CarriedRight
  <2>3. QED
    BY <1>2, <1>3, <2>1, <2>2 DEF Gap
<1> DEFINE z == sumZ \div avgCount  d == (times.cur - times.prev) % UintMod
<1>8. z \in Int /\ d \in Int /\ times.cur \in Int
  <2>1. sumZ \in Int /\ times.cur \in Int /\ times.prev \in Int
    BY DEF IdenInv, IdenTypeOK
  <2>2. UintMod \in Nat \ {0}
    BY IntMaxAssumption DEF UintMod
  <2>3. QED
    BY <1>2, <2>1, <2>2
<1>9. PICK md : md = <<Elem("z-position", "float", z), Elem("calibrated", "bool", 1),
                       Elem("dtime", "uint", d), Elem("acquisition-time-local", "string", times.cur)>>
  OBVIOUS
<1>10. AddFrame(PlanesOf(m + 1), n, md)
  BY <1>6, <1>9 DEF AvgFrame
<1>11. md \in Seq(Element)
  BY <1>8, <1>9 DEF Element, Elem, KeyNames, TypeNames
<1>12. md = FrameStore(m + 1, z)
  BY <1>1, <1>3, <1>7, <1>9 DEF FrameStore
<1> HIDE DEF z
<1>13. /\ wrapper' \in Seq(FrameType) /\ Len(wrapper') = m + 1
       /\ Len(wrapper') <= NFramesOut'
       /\ \A j \in 1 .. Len(wrapper') : FrameRight(j)'
  BY <1>1, <1>5, <1>8, <1>10, <1>11, <1>12, FrameAdded
<1>14. IdenTypeOK'
  <2>1. times' \in [prev : Int, cur : Int] /\ times'.prev = stack[f].time
    BY <1>1, <1>3 DEF IdenInv, IdenTypeOK
  <2>2. QED
    BY <1>1, <1>2, <1>13, <2>1, WantedFixed DEF IdenInv, IdenTypeOK
<1>15. CarriedRight'
  <2>1. times'.prev = stack[f].time
    BY <1>1, <1>3 DEF IdenInv, IdenTypeOK
  <2>2. QED
    BY <1>1, <1>13, <2>1, WantedFixed DEF CarriedRight
<1>16. QED
  BY <1>13, <1>14, <1>15 DEF IdenInv

\* Every step of fill_wrapper, with and without averages, keeps it.
LEMMA IdenInvStep ==
    ASSUME IdenInv, IdenStep \/ UNCHANGED idenVars
    PROVE  IdenInv'
<1>1. CASE UNCHANGED idenVars
  <2>1. UNCHANGED <<stack, avgCount>> /\ wrapper' = wrapper
    BY <1>1 DEF idenVars
  <2>2. IdenTypeOK'
    BY <1>1, <2>1, WantedFixed DEF idenVars, IdenInv, IdenTypeOK
  <2>3. CarriedRight'
    BY <1>1, <2>1, WantedFixed DEF idenVars, IdenInv, CarriedRight
  <2>4. \A j \in 1 .. Len(wrapper') : FrameRight(j)'
    BY <2>1, WantedFixed DEF IdenInv, FrameRight
  <2>5. QED
    BY <2>2, <2>3, <2>4 DEF IdenInv
<1>2. ASSUME NEW n \in 0 .. MaxFound, IdenPlane(n) PROVE IdenInv'
  BY <1>2, IdenPlaneKeeps
<1>3. CASE AvgPlane
  BY <1>3, AvgPlaneKeeps
<1>4. ASSUME NEW n \in 0 .. MaxFound, AvgFrame(n) PROVE IdenInv'
  BY <1>4, AvgFrameKeeps
<1>5. QED
  BY <1>1, <1>2, <1>3, <1>4 DEF IdenStep

\* How many planes and frames there are is a number.
LEMMA NFramesType ==
    ASSUME IdenTypeOK
    PROVE  NPlanes \in Nat /\ NFramesOut \in Nat /\ Len(wrapper) \in Nat
<1>1. NPlanes \in Nat /\ Len(wrapper) \in Nat
  BY DEF IdenTypeOK, NPlanes
<1>2. CASE Averaging
  BY <1>1, <1>2 DEF IdenTypeOK, NFramesOut
<1>3. CASE ~Averaging
  BY <1>1, <1>3 DEF NFramesOut
<1>4. QED
  BY <1>1, <1>2, <1>3

\* What is found on a plane has indices up to MaxFound.
LEMMA MaxFoundType ==
    ASSUME IdenTypeOK
    PROVE  MaxFound \in Nat /\ \A i \in 1 .. NPlanes : \A n \in stack[i].found : n \in 0 .. MaxFound
<1> DEFINE D == 1 .. NPlanes  all == {stack[i].found : i \in D}  U == {0} \cup UNION all
<1>1. NPlanes \in Nat /\ stack \in Seq(PlaneType) /\ NPlanes = Len(stack)
  BY DEF IdenTypeOK, NPlanes
<1>2. \A i \in D : stack[i] \in PlaneType
  BY <1>1
<1>3. \A i \in D : stack[i].found \in SUBSET Nat /\ IsFiniteSet(stack[i].found)
  BY <1>2 DEF IdenTypeOK, PlaneType
<1>4. IsFiniteSet(all)
  <2> DEFINE F == [i \in D |-> stack[i].found]
  <2>1. F \in Surjection(D, all)
    BY DEF Surjection
  <2>2. IsFiniteSet(D)
    BY <1>1, FS_Interval
  <2> HIDE DEF F, D, all
  <2>3. QED
    BY <2>1, <2>2, FS_Surjection
<1>5. IsFiniteSet(UNION all) /\ UNION all \in SUBSET Nat
  BY <1>3, <1>4, FS_UNION
<1>6. U \in SUBSET Nat /\ U # {} /\ IsFiniteSet(U)
  <2> HIDE DEF all
  <2>1. IsFiniteSet((UNION all) \cup {0})
    BY <1>5, FS_AddElement
  <2>2. (UNION all) \cup {0} = U /\ U \in SUBSET Nat /\ U # {}
    BY <1>5
  <2> HIDE DEF U
  <2>3. QED
    BY <2>1, <2>2
<1>7. MaxFound = Max(U)
  BY DEF MaxFound
<1>8. Max(U) \in U /\ \A x \in U : x <= Max(U)
  BY <1>6, MaxIs
<1>9. QED
  BY <1>3, <1>6, <1>7, <1>8

\* The frames are made of planes that are there.
LEMMA FirstInside ==
    ASSUME IdenTypeOK, NEW j \in 1 .. NFramesOut
    PROVE  FirstPlane(j) \in 1 .. NPlanes
<1>1. NPlanes \in Nat
  BY DEF IdenTypeOK, NPlanes
<1>2. CASE Averaging
  <2>1. avgCount \in Nat \ {0}
    BY <1>2 DEF IdenTypeOK
  <2> DEFINE q == NPlanes \div avgCount
  <2>2. q \in Nat /\ q * avgCount <= NPlanes /\ j \in 1 .. q
    BY <1>1, <1>2, <2>1 DEF NFramesOut
  <2>3. (j - 1) * avgCount <= (q - 1) * avgCount /\ (j - 1) * avgCount \in Nat
    BY <2>1, <2>2
  <2>4. (q - 1) * avgCount = q * avgCount - avgCount
    BY <2>1, <2>2
  <2>5. FirstPlane(j) = (j - 1) * avgCount + 1
    BY <1>2 DEF FirstPlane
  <2> HIDE DEF q
  <2>6. QED
    BY <1>1, <2>1, <2>2, <2>3, <2>4, <2>5
<1>3. CASE ~Averaging
  BY <1>1, <1>3 DEF FirstPlane, NFramesOut
<1>4. QED
  BY <1>2, <1>3

\* What is asked of the parameters of a frame.
LEMMA FrameStoreAnswers ==
    ASSUME IdenTypeOK, NEW j \in 1 .. NFramesOut, NEW z \in Int, NEW md, md = FrameStore(j, z)
    PROVE  LET t == stack[FirstPlane(j)].time
           IN  IF t < 0 THEN ~ContainsKey(md, "dtime")
               ELSE /\ ContainsKey(md, "dtime")
                    /\ GetValue(md, "dtime") = IF Averaging THEN Gap(j) % UintMod ELSE Gap(j)
<1> DEFINE t == stack[FirstPlane(j)].time
<1>1. FirstPlane(j) \in 1 .. NPlanes
  BY FirstInside
<1>2. t \in Int
  <2>1. stack \in Seq(PlaneType) /\ FirstPlane(j) \in 1 .. Len(stack)
    BY <1>1 DEF IdenTypeOK, NPlanes
  <2>2. stack[FirstPlane(j)] \in PlaneType
    BY <2>1
  <2>3. QED
    BY <2>2 DEF PlaneType
<1>3. CASE Averaging
  <2>1. Len(md) = 4 /\ md[1].key = "z-position" /\ md[2].key = "calibrated" /\ md[3].key = "dtime"
        /\ md[3].val = Gap(j) % UintMod
    BY <1>3 DEF FrameStore, Elem
  <2>2. ContainsKey(md, "dtime") /\ GetValue(md, "dtime") = md[3].val
    BY <2>1, FirstAnswers
  <2>3. t >= 0
    <3>1. 1 \in 1 .. NPlanes
      BY <1>1 DEF IdenTypeOK, NPlanes
    <3>2. stack[1].time >= 0
      BY <1>3 DEF IdenTypeOK
    <3>3. QED
      BY <1>1, <3>1, <3>2 DEF IdenTypeOK
  <2>4. QED
    BY <1>2, <1>3, <2>1, <2>2, <2>3
<1>4. CASE ~Averaging /\ t >= 0
  <2>1. FirstPlane(j) = j
    BY <1>4 DEF FirstPlane
  <2>2. /\ Len(md) = 5 /\ md[1].key = "acquisition-time-local" /\ md[2].key = "z-position"
        /\ md[3].key = "calibrated" /\ md[4].key = "comment" /\ md[5].key = "dtime"
        /\ md[5].val = Gap(j)
    BY <1>4, <2>1 DEF FrameStore, Elem
  <2>3. ContainsKey(md, "dtime") /\ GetValue(md, "dtime") = md[5].val
    BY <2>2, FirstAnswers
  <2>4. QED
    BY <1>2, <1>4, <2>2, <2>3
<1>5. CASE ~Averaging /\ t < 0
  <2>1. FirstPlane(j) = j /\ ~(stack[j].time >= 0)
    BY <1>2, <1>5 DEF FirstPlane
  <2>2. Len(md) = 3 /\ md[1].key = "z-position" /\ md[2].key = "calibrated" /\ md[3].key = "comment"
    BY <1>5, <2>1 DEF FrameStore, Elem
  <2>3. ~ContainsKey(md, "dtime")
    BY <2>2 DEF ContainsKey, Keys
  <2>4. QED
    BY <1>5, <2>3
<1>6. QED
  BY <1>2, <1>3, <1>4, <1>5

\* The invariant says what FramesTimed asks of the frames.
LEMMA FramesTimedHolds ==
    ASSUME IdenInv
    PROVE  FramesTimed
<1> SUFFICES ASSUME NEW j \in 1 .. Len(wrapper)
             PROVE  /\ wrapper[j].image = PlanesOf(j)
                    /\ LET t == stack[FirstPlane(j)].time
                           gap == IF j = 1 THEN 0 ELSE t - stack[FirstPlane(j - 1)].time
                       IN  IF t < 0 THEN ~ContainsKey(wrapper[j].md, "dtime")
                           ELSE GetValue(wrapper[j].md, "dtime") = IF Averaging THEN gap % UintMod ELSE gap
  BY DEF FramesTimed
<1>1. wrapper[j].image = PlanesOf(j)
  BY DEF IdenInv, FrameRight
<1>2. PICK z \in Int : wrapper[j].md = FrameStore(j, z)
  BY DEF IdenInv, FrameRight
<1>3. j \in 1 .. NFramesOut
  <2>1. IdenTypeOK /\ Len(wrapper) <= NFramesOut
    BY DEF IdenInv, IdenTypeOK
  <2>2. NFramesOut \in Nat /\ Len(wrapper) \in Nat
    BY <2>1, NFramesType
  <2>3. QED
    BY <2>1, <2>2
<1>4. QED
  BY <1>1, <1>2, <1>3, FrameStoreAnswers DEF IdenInv, Gap

\* What each frame of the wrapper is made of and when it was taken: see
\* FramesTimed (iden.cpp:143-181, 393-462).
THEOREM FramesTimedAlways == HdfSpec => []FramesTimed
<1>1. HdfInit => IdenInv
  BY IdenInvInit DEF HdfInit
<1>2. IdenInv /\ [HdfNext]_<<idenVars, hdfVars>> => IdenInv'
  <2> SUFFICES ASSUME IdenInv, [HdfNext]_<<idenVars, hdfVars>>
               PROVE  IdenInv'
    OBVIOUS
  <2>1. IdenStep \/ UNCHANGED idenVars
    BY DEF HdfNext
  <2>2. QED
    BY <2>1, IdenInvStep
<1>3. IdenInv => FramesTimed
  BY FramesTimedHolds
<1>4. QED
  BY <1>1, <1>2, <1>3, PTL DEF HdfSpec
-----------------------------------------------------------------------------
(* The file, the program that runs and its buffers                            *)

\* The programs, where they can be, and the fields of their records and of the file.
Kinds == {"process", "tracking", "phi6"}
Writing == {"meta", "store", "close"}  \* with a group open
InOrder == {"root", "group", "done"} \cup Writing
ProgFields == {"kind", "key", "rkey", "pc", "frame", "at", "md", "size", "tracks", "err", "outside"}
FileFields == {"state", "planes", "params", "lists", "frames", "data", "attrs"}

\* How many values a data set has.
Width(d) == Cardinality(DOMAIN file.data[d])

\* Data sets are arrays from 0 on, in a file that is good, under parameters it has.
FileOK ==
    /\ DOMAIN file = FileFields
    /\ file.state \in {"absent", "good", "broken"}
    /\ file.state # "good" => file.data = <<>> /\ file.params = {}
    /\ file.planes \in {0, NFramesOut}
    /\ \A d \in DOMAIN file.data :
        /\ <<d[2], d[3]>> \in file.params
        /\ \E n \in Nat \ {0} : DOMAIN file.data[d] = 0 .. n - 1

\* Particles of a frame go to places of their own in arrays that have them.
BoxOK(f) ==
    LET n == Len(box[f]) IN
    /\ n \in Nat /\ DOMAIN box[f] = 1 .. n
    /\ prog.size[f] \in Nat \ {0}
    /\ prog.kind = "process" =>
        /\ n <= prog.size[f]
        /\ \A m \in 1 .. n : box[f][m].val[DX] = box[f][m].val[XPOS]
        /\ \A i \in 1 .. wrapper[f].found : \E m \in 1 .. n : box[f][m].val[XPOS] = i
    /\ prog.kind # "process" =>
        /\ \A m \in 1 .. n : box[f][m].ind \in 0 .. prog.size[f] - 1
        /\ \A l, m \in 1 .. n : box[f][l].ind = box[f][m].ind => box[f][l] = box[f][m]

\* The frames of a program whose data sets are not made yet.
FirstNew == IF prog.pc \in Writing THEN prog.frame + 1 ELSE prog.frame

\* A program works on the image's frames, has the groups of its parameters while it
\* writes, and knows of an error when, and only when, one was thrown.
ProgOK == prog # Nobody =>
    /\ IdenDone
    /\ DOMAIN prog = ProgFields
    /\ prog.kind \in Kinds
    /\ prog.pc \in InOrder \cup {"open", "thrown"}
    /\ prog.frame \in 1 .. NFramesOut + 1
    /\ DOMAIN box = 1 .. NFramesOut /\ Len(box) = NFramesOut
    /\ \A f \in 1 .. NFramesOut : BoxOK(f)
    /\ prog.kind # "process" => file.state = "good"
    /\ prog.pc # "thrown" => prog.err = "none"
    /\ prog.pc = "thrown" => prog.err # "none"
    /\ prog.pc \in InOrder =>
        /\ file.state = "good"
        /\ ParamGroups(Types) \subseteq file.params
        /\ \A f \in Nat : f >= FirstNew => Names(f, Types) \cap DOMAIN file.data = {}
    /\ prog.pc \in Writing => prog.frame <= NFramesOut /\ group.open
    /\ prog.pc = "done" => prog.frame = NFramesOut + 1
    /\ prog.pc \in {"open", "root"} => prog.frame = 1

\* An open group is that of the program's frame; its buffers and data sets fit.
GroupOK ==
    /\ group.open \in BOOLEAN
    /\ group.open =>
        /\ prog # Nobody /\ prog.pc \in Writing \cup {"thrown"} /\ prog.frame <= NFramesOut
        /\ file.state = "good"
        /\ DOMAIN group = {"open", "added", "vals"}
        /\ DOMAIN group.vals = Types
        /\ Names(prog.frame, Types) \subseteq DOMAIN file.data
        /\ \A t \in Types :
            /\ DOMAIN group.vals[t] = 0 .. prog.size[prog.frame] - 1
            /\ DOMAIN file.data[<<prog.frame, t, prog.key>>] = 0 .. prog.size[prog.frame] - 1

\* A key a program runs under is not one of a run that succeeded.
RunsOK ==
    /\ runs # {} => IdenDone
    /\ prog # Nobody => \A r \in runs : r.key = prog.key => r.code # 0
    /\ file.state = "absent" => Well = {}
    /\ \A r \in runs : r.kind = "process" /\ r.code = 0 => r.err = "none"

\* What the other invariants of the file rest on.
BaseInv == IdenInv /\ FileOK /\ ProgOK /\ GroupOK /\ RunsOK

\* A program goes on: it is itself, on the same image with the same particles.
GoesOn ==
    /\ UNCHANGED <<idenVars, box, runs>>
    /\ prog # Nobody /\ prog' # Nobody
    /\ DOMAIN prog' = ProgFields
    /\ prog'.kind = prog.kind /\ prog'.key = prog.key /\ prog'.rkey = prog.rkey
    /\ prog'.size = prog.size /\ prog'.md = prog.md /\ prog'.tracks = prog.tracks

\* Goto leaves all but where the program is.
LEMMA GotoIs ==
    ASSUME ProgOK, prog # Nobody, UNCHANGED <<idenVars, box, runs>>, NEW pc, Goto(pc)
    PROVE  /\ GoesOn /\ prog'.pc = pc /\ prog'.frame = prog.frame /\ prog'.err = prog.err
           /\ prog'.outside = prog.outside /\ prog'.at = prog.at
BY DEF ProgOK, ProgFields, Goto, GoesOn, Nobody, Kinds

\* Throw leaves all but where the program is and why.
LEMMA ThrowIs ==
    ASSUME ProgOK, prog # Nobody, UNCHANGED <<idenVars, box, runs>>, NEW kind, Throw(kind)
    PROVE  /\ GoesOn /\ prog'.pc = "thrown" /\ prog'.frame = prog.frame /\ prog'.err = kind
           /\ prog'.outside = prog.outside /\ prog'.at = prog.pc
BY DEF ProgOK, ProgFields, Throw, GoesOn, Nobody, Kinds

\* What depends on the image and the program alone stays.
LEMMA GoesOnKeeps ==
    ASSUME BaseInv, GoesOn
    PROVE  /\ IdenInv' /\ IdenDone' /\ IdenDone
           /\ NFramesOut' = NFramesOut /\ NFramesOut \in Nat
           /\ Types' = Types /\ Well' = Well /\ Appends' = Appends
           /\ \A T : ParamGroups(T)' = ParamGroups(T)
           /\ \A f, T : Names(f, T)' = Names(f, T)
           /\ \A f \in 1 .. NFramesOut : BoxOK(f)'
<1>1. IdenInv'
  BY IdenInvStep DEF BaseInv, GoesOn
<1>2. UNCHANGED <<stack, avgCount, wrapper>>
  BY DEF GoesOn, idenVars
<1>3. NFramesOut' = NFramesOut
  BY <1>2, WantedFixed
<1>4. NFramesOut \in Nat
  BY NFramesType DEF BaseInv, IdenInv
<1>5. IdenDone /\ IdenDone'
  BY <1>2, <1>3 DEF BaseInv, ProgOK, GoesOn, IdenDone
<1>6. Types' = Types /\ Well' = Well /\ Appends' = Appends
  BY DEF GoesOn, Types, Well, Appends
<1>7. \A T : ParamGroups(T)' = ParamGroups(T)
  BY DEF GoesOn, ParamGroups
<1>8. \A f, T : Names(f, T)' = Names(f, T)
  BY DEF GoesOn, Names
<1>9. ASSUME NEW f \in 1 .. NFramesOut
      PROVE  BoxOK(f)'
  <2>1. BoxOK(f)
    BY DEF BaseInv, ProgOK, GoesOn
  <2>2. QED
    BY <1>2, <2>1 DEF GoesOn, BoxOK
<1>10. QED
  BY <1>1, <1>3, <1>4, <1>5, <1>6, <1>7, <1>8, <1>9

\* The first n types of T are in T.
LEMMA BelowIs == \A T, n : Below(T, n) \subseteq T
BY DEF Below

\* initialize_wrapper: the file is there, with the groups of the parameters.
LEMMA OpenedIs ==
    ASSUME FileOK, NFramesOut' = NFramesOut, CanOpen, NEW T, file' = Opened(T)
    PROVE  /\ FileOK' /\ file'.state = "good" /\ ParamGroups(T) \subseteq file'.params
           /\ file'.lists = IF Appends THEN file.lists ELSE {}
           /\ file'.planes = IF Appends THEN file.planes ELSE 0
           /\ file'.frames = IF Appends THEN file.frames ELSE {}
           /\ file'.attrs = IF Appends THEN file.attrs ELSE <<>>
           /\ file'.data = IF Appends THEN file.data ELSE <<>>
           /\ file'.params = IF Appends THEN file.params \cup ParamGroups(T) ELSE ParamGroups(T)
<1>1. CASE Appends
  <2>1. file.state = "good" /\ file' = [file EXCEPT !.params = @ \cup ParamGroups(T)]
    BY <1>1 DEF CanOpen, Opened
  <2>2. /\ DOMAIN file' = FileFields /\ file'.state = "good" /\ file'.planes = file.planes
        /\ file'.params = file.params \cup ParamGroups(T) /\ file'.data = file.data
        /\ file'.lists = file.lists /\ file'.frames = file.frames /\ file'.attrs = file.attrs
    BY <2>1 DEF FileOK, FileFields
  <2>3. FileOK'
    BY <2>2 DEF FileOK
  <2>4. QED
    BY <1>1, <2>2, <2>3
<1>2. CASE ~Appends
  <2>1. file' = [NoFile EXCEPT !.state = "good", !.params = ParamGroups(T)]
    BY <1>2 DEF Opened
  <2>2. /\ DOMAIN file' = FileFields /\ file'.state = "good" /\ file'.planes = 0
        /\ file'.params = ParamGroups(T) /\ file'.data = <<>>
        /\ file'.lists = {} /\ file'.frames = {} /\ file'.attrs = <<>>
    BY <2>1 DEF NoFile, FileFields
  <2>3. DOMAIN file'.data = {}
    BY <2>2
  <2>4. FileOK'
    BY <2>2, <2>3 DEF FileOK
  <2>5. QED
    BY <1>2, <2>2, <2>4
<1>3. QED
  BY <1>1, <1>2

\* The data sets of a frame are made beside those that are there.
LEMMA MadeIs ==
    ASSUME FileOK, NFramesOut' = NFramesOut, file.state = "good",
           NEW f, NEW T, file' = WithFrame(f, T), CanMake(f, T),
           prog.size[f] \in Nat \ {0}, ParamGroups(T) \subseteq file.params
    PROVE  /\ FileOK' /\ file'.state = "good" /\ file'.params = file.params
           /\ file'.planes = file.planes /\ file'.lists = file.lists
           /\ file'.frames = file.frames \cup {f}
           /\ file'.attrs = Over(file.attrs, [g \in {f} |-> {}])
           /\ DOMAIN file'.data = DOMAIN file.data \cup Names(f, T)
           /\ \A d \in DOMAIN file.data : file'.data[d] = file.data[d] /\ d \notin Names(f, T)
           /\ \A d \in Names(f, T) : file'.data[d] = [i \in 0 .. prog.size[f] - 1 |-> FillValue]
<1> DEFINE new == [d \in Names(f, T) |-> [i \in 0 .. prog.size[f] - 1 |-> FillValue]]
<1>1. /\ DOMAIN file' = FileFields /\ file'.state = "good" /\ file'.params = file.params
      /\ file'.planes = file.planes /\ file'.lists = file.lists
      /\ file'.frames = file.frames \cup {f}
      /\ file'.attrs = Over(file.attrs, [g \in {f} |-> {}])
      /\ file'.data = Over(new, file.data)
  BY DEF WithFrame, FileOK, FileFields
<1>2. Names(f, T) \cap DOMAIN file.data = {}
  BY DEF CanMake
<1>3. DOMAIN new = Names(f, T) /\ \A d \in Names(f, T) : new[d] = [i \in 0 .. prog.size[f] - 1 |-> FillValue]
  OBVIOUS
<1> HIDE DEF new
<1>4. /\ DOMAIN file'.data = DOMAIN file.data \cup Names(f, T)
      /\ \A d \in DOMAIN file.data : file'.data[d] = file.data[d] /\ d \notin Names(f, T)
      /\ \A d \in Names(f, T) : file'.data[d] = [i \in 0 .. prog.size[f] - 1 |-> FillValue]
  <2>1. /\ DOMAIN Over(new, file.data) = DOMAIN new \cup DOMAIN file.data
        /\ \A x \in DOMAIN new : Over(new, file.data)[x] = new[x]
        /\ \A x \in DOMAIN file.data : x \notin DOMAIN new => Over(new, file.data)[x] = file.data[x]
    BY OverIs
  <2>2. QED
    BY <1>1, <1>2, <1>3, <2>1
<1>5. \A d \in Names(f, T) : /\ <<d[2], d[3]>> \in file.params
                             /\ DOMAIN file'.data[d] = 0 .. prog.size[f] - 1
  BY <1>4 DEF Names, ParamGroups
<1>6. FileOK'
  <2>1. ASSUME NEW d \in DOMAIN file'.data
        PROVE  <<d[2], d[3]>> \in file'.params /\ \E n \in Nat \ {0} : DOMAIN file'.data[d] = 0 .. n - 1
    <3>1. CASE d \in DOMAIN file.data
      BY <1>1, <1>4, <3>1 DEF FileOK
    <3>2. CASE d \in Names(f, T)
      BY <1>1, <1>5, <3>2
    <3>3. QED
      BY <1>4, <2>1, <3>1, <3>2
  <2>2. QED
    BY <1>1, <2>1 DEF FileOK
<1>7. QED
  BY <1>1, <1>4, <1>6

\* Written data sets have the lengths they were made with.
LEMMA WrittenIs ==
    ASSUME FileOK, GroupOK, group.open, NFramesOut' = NFramesOut,
           NEW T \in SUBSET Types, file' = Written(T)
    PROVE  /\ FileOK' /\ file'.state = "good" /\ file'.params = file.params
           /\ file'.planes = file.planes /\ file'.lists = file.lists
           /\ file'.frames = file.frames /\ file'.attrs = file.attrs
           /\ DOMAIN file'.data = DOMAIN file.data
           /\ \A d \in DOMAIN file.data :
                /\ DOMAIN file'.data[d] = DOMAIN file.data[d]
                /\ d \notin Names(prog.frame, T) => file'.data[d] = file.data[d]
           /\ \A t \in T : file'.data[<<prog.frame, t, prog.key>>] = group.vals[t]
<1> DEFINE N == Names(prog.frame, T)  new == [d \in N |-> group.vals[d[2]]]
<1>1. /\ DOMAIN file' = FileFields /\ file'.state = "good" /\ file'.params = file.params
      /\ file'.planes = file.planes /\ file'.lists = file.lists
      /\ file'.frames = file.frames /\ file'.attrs = file.attrs
      /\ file'.data = Over(new, file.data)
  BY DEF Written, FileOK, FileFields, GroupOK
<1>2. DOMAIN new = N /\ \A d \in N : new[d] = group.vals[d[2]]
  OBVIOUS
<1>3. N \subseteq DOMAIN file.data
  BY DEF GroupOK, Names
<1>4. \A d \in N : d[2] \in Types /\ d = <<prog.frame, d[2], prog.key>> /\ d[2] \in T
  BY DEF Names
<1>5. \A t \in T : <<prog.frame, t, prog.key>> \in N
  BY DEF Names
<1> HIDE DEF new, N
<1>6. /\ DOMAIN file'.data = DOMAIN file.data
      /\ \A d \in N : file'.data[d] = group.vals[d[2]]
      /\ \A d \in DOMAIN file.data : d \notin N => file'.data[d] = file.data[d]
  <2>1. /\ DOMAIN Over(new, file.data) = DOMAIN new \cup DOMAIN file.data
        /\ \A x \in DOMAIN new : Over(new, file.data)[x] = new[x]
        /\ \A x \in DOMAIN file.data : x \notin DOMAIN new => Over(new, file.data)[x] = file.data[x]
    BY OverIs
  <2>2. QED
    BY <1>1, <1>2, <1>3, <2>1
<1>7. \A d \in N : DOMAIN file'.data[d] = DOMAIN file.data[d]
  <2>1. \A t \in Types : DOMAIN group.vals[t] = DOMAIN file.data[<<prog.frame, t, prog.key>>]
    BY DEF GroupOK
  <2>2. QED
    BY <2>1, <1>4, <1>6
<1>8. \A t \in T : file'.data[<<prog.frame, t, prog.key>>] = group.vals[t]
  BY <1>5, <1>6
<1>9. \A d \in DOMAIN file.data : DOMAIN file'.data[d] = DOMAIN file.data[d]
  BY <1>6, <1>7
<1>10. FileOK'
  BY <1>1, <1>6, <1>9 DEF FileOK
<1>11. QED
  BY <1>1, <1>6, <1>8, <1>9, <1>10 DEF N

\* A step of a program that goes on keeps BaseInv when the file and the group are right
\* after it and the program is where the file says.
LEMMA GoesOnBase ==
    ASSUME BaseInv, GoesOn, FileOK', GroupOK',
           prog'.pc \in InOrder \cup {"thrown"}, prog'.frame \in 1 .. NFramesOut + 1,
           prog'.pc = "root" => prog'.frame = 1,
           file.state = "good" => file'.state = "good",
           file'.state = "absent" => file.state = "absent",
           prog'.pc = "thrown" <=> prog'.err # "none",
           prog'.pc \in InOrder =>
               /\ file'.state = "good"
               /\ ParamGroups(Types) \subseteq file'.params
               /\ \A f \in Nat : f >= FirstNew' => Names(f, Types) \cap DOMAIN file'.data = {},
           prog'.pc \in Writing => prog'.frame <= NFramesOut /\ group'.open,
           prog'.pc = "done" => prog'.frame = NFramesOut + 1
    PROVE  BaseInv'
<1>1. /\ IdenInv' /\ IdenDone' /\ IdenDone /\ NFramesOut' = NFramesOut
      /\ Types' = Types /\ Well' = Well
      /\ \A T : ParamGroups(T)' = ParamGroups(T)
      /\ \A f, T : Names(f, T)' = Names(f, T)
      /\ \A f \in 1 .. NFramesOut : BoxOK(f)'
  BY GoesOnKeeps
<1>2. ProgOK'
  <2>1. ProgOK /\ prog # Nobody
    BY DEF BaseInv, GoesOn
  <2>2. /\ DOMAIN prog' = ProgFields /\ prog'.kind \in Kinds
        /\ DOMAIN box' = 1 .. NFramesOut' /\ Len(box') = NFramesOut'
        /\ prog'.kind # "process" => file'.state = "good"
    BY <1>1, <2>1 DEF GoesOn, ProgOK
  <2>3. \A f \in Nat : Names(f, Types)' = Names(f, Types)
    BY <1>1 DEF Names
  <2>4. ParamGroups(Types)' = ParamGroups(Types)
    BY <1>1 DEF ParamGroups
  <2>5. prog'.pc \in InOrder =>
               /\ file'.state = "good"
               /\ ParamGroups(Types)' \subseteq file'.params
               /\ \A f \in Nat : f >= FirstNew' => Names(f, Types)' \cap DOMAIN file'.data = {}
    BY <2>3, <2>4
  <2>6. prog'.pc \in {"open", "root"} => prog'.frame = 1
    BY DEF InOrder, Writing
  <2>7. QED
    BY <1>1, <2>2, <2>5, <2>6 DEF ProgOK
<1>3. RunsOK'
  BY <1>1 DEF RunsOK, BaseInv, GoesOn
<1>4. QED
  BY <1>1, <1>2, <1>3 DEF BaseInv

\* Each step of a program keeps BaseInv: opening the file,
LEMMA OpenFileBase ==
    ASSUME BaseInv, OpenFile, UNCHANGED idenVars
    PROVE  BaseInv'
<1>1. /\ At("open") /\ prog # Nobody /\ prog.pc = "open" /\ ProgOK /\ FileOK /\ GroupOK
      /\ UNCHANGED <<idenVars, box, runs, group>>
      /\ Goto("root") /\ CanOpen /\ file' = Opened(Types) /\ file.params \cap ParamGroups(Types) = {}
  BY DEF OpenFile, At, BaseInv
<1>2. /\ GoesOn /\ prog'.pc = "root" /\ prog'.frame = prog.frame /\ prog'.err = prog.err
  BY <1>1, GotoIs
<1>3. NFramesOut' = NFramesOut
  BY <1>2, GoesOnKeeps
<1>4. /\ FileOK' /\ file'.state = "good" /\ ParamGroups(Types) \subseteq file'.params
      /\ file'.data = IF Appends THEN file.data ELSE <<>>
  BY <1>1, <1>3, OpenedIs
<1>5. ~group.open
  BY <1>1 DEF GroupOK, Writing
<1>6. GroupOK'
  BY <1>1, <1>5 DEF GroupOK
<1>7. ASSUME NEW f \in Nat
      PROVE  Names(f, Types) \cap DOMAIN file'.data = {}
  <2>1. DOMAIN file'.data \subseteq DOMAIN file.data
    BY <1>4
  <2>2. ASSUME NEW d \in Names(f, Types), d \in DOMAIN file.data
        PROVE  FALSE
    <3>1. <<d[2], d[3]>> \in ParamGroups(Types)
      BY <2>2 DEF Names, ParamGroups
    <3>2. <<d[2], d[3]>> \in file.params
      BY <1>1, <2>2 DEF FileOK
    <3>3. QED
      BY <1>1, <3>1, <3>2
  <2>3. QED
    BY <2>1, <2>2
<1>8. prog.frame \in 1 .. NFramesOut + 1 /\ prog.frame = 1 /\ prog.err = "none"
  BY <1>1 DEF ProgOK
<1>9. QED
  BY <1>2, <1>4, <1>6, <1>7, <1>8, GoesOnBase DEF InOrder, Writing

\* failing to open it,
LEMMA OpenFileFailsBase ==
    ASSUME BaseInv, OpenFileFails, UNCHANGED idenVars
    PROVE  BaseInv'
<1>1. /\ prog # Nobody /\ prog.pc = "open" /\ ProgOK /\ FileOK /\ GroupOK
      /\ UNCHANGED <<idenVars, box, runs, group>>
  BY DEF OpenFileFails, At, BaseInv
<1>2. PICK kind \in {"std", "h5"} : Throw(kind)
  BY DEF OpenFileFails
<1>3. /\ GoesOn /\ prog'.pc = "thrown" /\ prog'.frame = prog.frame /\ prog'.err = kind
  BY <1>1, <1>2, ThrowIs
<1>4. NFramesOut' = NFramesOut
  BY <1>3, GoesOnKeeps
<1>5. FileOK' /\ (file'.state = "good" \/ file'.state = file.state)
  <2>1. CASE file' = file
    BY <1>1, <1>4, <2>1 DEF FileOK
  <2>2. CASE CanOpen /\ \E T : file' = Opened(T)
    BY <1>1, <1>4, <2>2, OpenedIs
  <2>3. QED
    BY <2>1, <2>2 DEF OpenFileFails
<1>6. ~group.open
  BY <1>1 DEF GroupOK, Writing
<1>7. GroupOK'
  BY <1>1, <1>6 DEF GroupOK
<1>8. prog.frame \in 1 .. NFramesOut + 1
  BY <1>1 DEF ProgOK
<1>9. QED
  BY <1>2, <1>3, <1>5, <1>7, <1>8, GoesOnBase DEF InOrder, Writing

\* Buffers that stay are those of the data sets that stay.
LEMMA GroupStays ==
    ASSUME BaseInv, GoesOn, group' = group, prog'.frame = prog.frame, file'.state = file.state,
           DOMAIN file'.data = DOMAIN file.data,
           \A d \in DOMAIN file.data : DOMAIN file'.data[d] = DOMAIN file.data[d],
           group.open => prog'.pc \in Writing \cup {"thrown"}
    PROVE  GroupOK'
<1>1. GroupOK
  BY DEF BaseInv
<1>2. /\ NFramesOut' = NFramesOut /\ Types' = Types
      /\ \A f, T : Names(f, T)' = Names(f, T)
  BY GoesOnKeeps
<1>3. Names(prog.frame, Types)' = Names(prog.frame, Types)
  BY <1>2 DEF Names, GoesOn
<1>4. CASE ~group.open
  BY <1>1, <1>4 DEF GroupOK
<1>5. CASE group.open
  <2>1. \A t \in Types : <<prog.frame, t, prog.key>> \in DOMAIN file.data
    BY <1>1, <1>5 DEF GroupOK, Names
  <2>2. \A t \in Types : DOMAIN file'.data[<<prog.frame, t, prog.key>>] = DOMAIN file.data[<<prog.frame, t, prog.key>>]
    BY <2>1
  <2>3. QED
    BY <1>1, <1>2, <1>3, <1>5, <2>2 DEF GroupOK, GoesOn
<1>6. QED
  BY <1>4, <1>5

\* Attributes, planes and lists are no data sets.
LEMMA AsideIs ==
    ASSUME FileOK, NFramesOut' = NFramesOut, NEW x \in {"planes", "lists", "attrs"}, NEW v,
           file' = [file EXCEPT ![x] = v], x = "planes" => v \in {0, NFramesOut}
    PROVE  /\ FileOK' /\ file'.state = file.state /\ file'.params = file.params /\ file'.data = file.data
           /\ file'.frames = file.frames
           /\ file'.planes = IF x = "planes" THEN v ELSE file.planes
           /\ file'.lists = IF x = "lists" THEN v ELSE file.lists
           /\ file'.attrs = IF x = "attrs" THEN v ELSE file.attrs
<1>1. /\ DOMAIN file' = FileFields
      /\ file'.state = file.state /\ file'.params = file.params /\ file'.data = file.data
      /\ file'.frames = file.frames
      /\ file'.planes = IF x = "planes" THEN v ELSE file.planes
      /\ file'.lists = IF x = "lists" THEN v ELSE file.lists
      /\ file'.attrs = IF x = "attrs" THEN v ELSE file.attrs
  BY DEF FileOK, FileFields
<1>2. FileOK'
  BY <1>1 DEF FileOK
<1>3. QED
  BY <1>1, <1>2

\* A step that goes on, or fails, without a new data set.
LEMMA AsideBase ==
    ASSUME BaseInv, GoesOn, group' = group, prog'.frame = prog.frame,
           FileOK', file'.state = file.state, file'.params = file.params,
           DOMAIN file'.data = DOMAIN file.data,
           \A d \in DOMAIN file.data : DOMAIN file'.data[d] = DOMAIN file.data[d],
           prog'.pc \in InOrder \cup {"thrown"}, prog'.pc # "root",
           prog'.pc = "thrown" <=> prog'.err # "none",
           prog'.pc \in Writing <=> prog.pc \in Writing /\ prog'.pc # "thrown",
           prog'.pc \in InOrder => prog.pc \in InOrder,
           prog'.pc = "done" => prog.frame = NFramesOut + 1
    PROVE  BaseInv'
<1>1. ProgOK /\ prog # Nobody /\ NFramesOut \in Nat
  BY GoesOnKeeps DEF BaseInv, GoesOn
<1>2. group.open => prog'.pc \in Writing \cup {"thrown"}
  BY <1>1 DEF BaseInv, GroupOK, InOrder, Writing
<1>3. GroupOK'
  BY <1>2, GroupStays
<1>4. prog'.pc \in InOrder =>
          /\ file'.state = "good"
          /\ ParamGroups(Types) \subseteq file'.params
          /\ \A f \in Nat : f >= FirstNew' => Names(f, Types) \cap DOMAIN file'.data = {}
  <2>1. SUFFICES ASSUME prog'.pc \in InOrder
                 PROVE  /\ file'.state = "good"
                        /\ ParamGroups(Types) \subseteq file'.params
                        /\ \A f \in Nat : f >= FirstNew' => Names(f, Types) \cap DOMAIN file'.data = {}
    OBVIOUS
  <2>2. FirstNew' = FirstNew
    BY <2>1 DEF FirstNew, InOrder, Writing
  <2>3. QED
    BY <1>1, <2>1, <2>2 DEF ProgOK
<1>5. prog'.pc \in Writing => prog'.frame <= NFramesOut /\ group'.open
  BY <1>1 DEF ProgOK
<1>6. prog'.frame \in 1 .. NFramesOut + 1
  BY <1>1 DEF ProgOK
<1>7. QED
  BY <1>3, <1>4, <1>5, <1>6, GoesOnBase

\* writing the attributes of the root,
LEMMA WriteRootBase ==
    ASSUME BaseInv, WriteRoot \/ WriteRootFails, UNCHANGED idenVars
    PROVE  BaseInv'
<1>1. /\ prog # Nobody /\ prog.pc = "root" /\ ProgOK /\ FileOK
      /\ UNCHANGED <<idenVars, box, runs>> /\ group' = group
  BY DEF WriteRoot, WriteRootFails, At, BaseInv
<1>2. prog.err = "none" /\ Len(box) = NFramesOut
  BY <1>1 DEF ProgOK
<1>3. CASE WriteRoot
  <2>1. GoesOn /\ prog'.pc = "group" /\ prog'.frame = prog.frame /\ prog'.err = "none"
    BY <1>1, <1>2, <1>3, GotoIs DEF WriteRoot
  <2>2. NFramesOut' = NFramesOut
    BY <2>1, GoesOnKeeps
  <2>3. FileOK' /\ file'.state = file.state /\ file'.params = file.params /\ file'.data = file.data
    BY <1>1, <1>2, <1>3, <2>2, AsideIs DEF WriteRoot
  <2>4. QED
    BY <1>1, <2>1, <2>3, AsideBase DEF InOrder, Writing
<1>4. CASE WriteRootFails
  <2>1. PICK kind \in {"std", "h5"} : Throw(kind)
    BY <1>4 DEF WriteRootFails
  <2>2. GoesOn /\ prog'.pc = "thrown" /\ prog'.frame = prog.frame /\ prog'.err # "none"
    BY <1>1, <2>1, ThrowIs
  <2>3. NFramesOut' = NFramesOut /\ file' = file
    BY <1>4, <2>2, GoesOnKeeps DEF WriteRootFails
  <2>4. FileOK'
    BY <1>1, <2>3 DEF FileOK
  <2>5. QED
    BY <1>1, <2>2, <2>3, <2>4, AsideBase DEF InOrder, Writing
<1>5. QED
  BY <1>3, <1>4

\* writing the parameters of a frame,
LEMMA WriteMetaBase ==
    ASSUME BaseInv, WriteMeta, UNCHANGED idenVars
    PROVE  BaseInv'
<1>1. /\ prog # Nobody /\ prog.pc = "meta" /\ ProgOK /\ FileOK
      /\ UNCHANGED <<idenVars, box, runs>> /\ group' = group
  BY DEF WriteMeta, At, BaseInv
<1>2. prog.err = "none"
  BY <1>1 DEF ProgOK
<1>3. /\ GoesOn /\ prog'.frame = prog.frame
      /\ \/ prog'.pc = "store" /\ prog'.err = "none"
         \/ prog'.pc = "thrown" /\ prog'.err = "std"
  <2>1. CASE Goto("store")
    BY <1>1, <1>2, <2>1, GotoIs
  <2>2. CASE Throw("std")
    BY <1>1, <2>2, ThrowIs
  <2>3. QED
    BY <2>1, <2>2 DEF WriteMeta
<1>4. NFramesOut' = NFramesOut
  BY <1>3, GoesOnKeeps
<1>5. PICK v : file' = [file EXCEPT !.attrs = v]
  BY DEF WriteMeta
<1>6. FileOK' /\ file'.state = file.state /\ file'.params = file.params /\ file'.data = file.data
  BY <1>1, <1>4, <1>5, AsideIs
<1>7. QED
  BY <1>1, <1>3, <1>6, AsideBase DEF InOrder, Writing

\* writing the lists of parameters,
LEMMA WriteListBase ==
    ASSUME BaseInv, WriteList \/ WriteListFails, UNCHANGED idenVars
    PROVE  BaseInv'
<1>1. /\ prog # Nobody /\ prog.pc = "group" /\ ProgOK /\ FileOK /\ prog.frame > NFramesOut
      /\ UNCHANGED <<idenVars, box, runs>> /\ group' = group
  BY DEF WriteList, WriteListFails, At, BaseInv, ProgOK
<1>2. prog.err = "none" /\ prog.frame \in 1 .. NFramesOut + 1 /\ NFramesOut \in Nat
  BY <1>1, NFramesType DEF ProgOK, BaseInv, IdenInv
<1>3. /\ GoesOn /\ prog'.frame = prog.frame
      /\ \/ prog'.pc = "done" /\ prog'.err = "none"
         \/ prog'.pc = "thrown" /\ prog'.err = "h5"
  <2>1. CASE Goto("done")
    BY <1>1, <1>2, <2>1, GotoIs
  <2>2. CASE Throw("h5")
    BY <1>1, <2>2, ThrowIs
  <2>3. QED
    BY <2>1, <2>2 DEF WriteList, WriteListFails
<1>4. NFramesOut' = NFramesOut
  BY <1>3, GoesOnKeeps
<1>5. PICK v : file' = [file EXCEPT !.lists = v]
  BY DEF WriteList, WriteListFails
<1>6. FileOK' /\ file'.state = file.state /\ file'.params = file.params /\ file'.data = file.data
  BY <1>1, <1>4, <1>5, AsideIs
<1>7. QED
  BY <1>1, <1>2, <1>3, <1>6, AsideBase DEF InOrder, Writing

\* The buffers after the particles of the open frame are stored in them.
StoredVal(t, i) ==
    LET f == prog.frame
        Here == {n \in 1 .. Len(box[f]) : Index(box[f][n], n) = i}
    IN  IF Here = {} THEN group.vals[t][i] ELSE box[f][Max(Here)].val[t]

\* What storing the particles of a frame does, field by field.
LEMMA StoredIs ==
    ASSUME BaseInv, StoreParticles, UNCHANGED idenVars
    PROVE  /\ GoesOn /\ prog'.pc = "close" /\ prog'.frame = prog.frame /\ prog'.err = prog.err
           /\ prog'.at = prog.at
           /\ prog'.outside = (prog.outside \/
                  \E n \in 1 .. Len(box[prog.frame]) : Index(box[prog.frame][n], n) >= prog.size[prog.frame])
           /\ file' = file /\ group.open /\ group'.open = group.open
           /\ DOMAIN group' = DOMAIN group
           /\ group'.vals = [t \in Types |-> [i \in DOMAIN group.vals[t] |-> StoredVal(t, i)]]
<1>1. prog # Nobody /\ prog.pc = "store" /\ ProgOK /\ GroupOK /\ UNCHANGED <<idenVars, file, box, runs>>
  BY DEF StoreParticles, At, BaseInv
<1>2. /\ group.open /\ DOMAIN group = {"open", "added", "vals"}
      /\ DOMAIN prog = ProgFields /\ prog.kind \in Kinds
  BY <1>1 DEF ProgOK, GroupOK, Writing, InOrder
<1> DEFINE out == prog.outside \/
                    \E n \in 1 .. Len(box[prog.frame]) : Index(box[prog.frame][n], n) >= prog.size[prog.frame]
           v == [t \in Types |-> [i \in DOMAIN group.vals[t] |-> StoredVal(t, i)]]
<1>3. /\ prog' = [prog EXCEPT !.pc = "close", !.outside = out]
      /\ group' = [group EXCEPT !.added = Len(box[prog.frame]), !.vals = v]
  BY DEF StoreParticles, StoredVal
<1> HIDE DEF out, v
<1>4. /\ DOMAIN prog' = ProgFields /\ prog'.pc = "close" /\ prog'.outside = out
      /\ prog'.kind = prog.kind /\ prog'.key = prog.key /\ prog'.rkey = prog.rkey
      /\ prog'.size = prog.size /\ prog'.md = prog.md /\ prog'.tracks = prog.tracks
      /\ prog'.frame = prog.frame /\ prog'.err = prog.err /\ prog'.at = prog.at
  BY <1>2, <1>3 DEF ProgFields
<1>5. prog' # Nobody
  BY <1>2, <1>4 DEF Nobody, Kinds
<1>6. DOMAIN group' = DOMAIN group /\ group'.vals = v /\ group'.open = group.open
  BY <1>2, <1>3
<1>7. GoesOn
  BY <1>1, <1>4, <1>5 DEF GoesOn
<1>8. QED
  BY <1>1, <1>2, <1>4, <1>6, <1>7 DEF out, v

\* storing the particles of a frame in the buffers,
LEMMA StoreParticlesBase ==
    ASSUME BaseInv, StoreParticles, UNCHANGED idenVars
    PROVE  BaseInv'
<1>1. /\ prog # Nobody /\ prog.pc = "store" /\ ProgOK /\ GroupOK /\ FileOK
      /\ UNCHANGED <<idenVars, file, box, runs>>
  BY DEF StoreParticles, At, BaseInv
<1>2. /\ GoesOn /\ prog'.pc = "close" /\ prog'.frame = prog.frame /\ prog'.err = prog.err
      /\ file' = file /\ group.open /\ group'.open = group.open
      /\ DOMAIN group' = DOMAIN group
      /\ group'.vals = [t \in Types |-> [i \in DOMAIN group.vals[t] |-> StoredVal(t, i)]]
  BY StoredIs
<1>3. /\ NFramesOut' = NFramesOut /\ Types' = Types
      /\ \A f, T : Names(f, T)' = Names(f, T)
  BY <1>2, GoesOnKeeps
<1>4. FileOK'
  BY <1>1, <1>3 DEF FileOK
<1>5. DOMAIN group'.vals = Types /\ \A t \in Types : DOMAIN group'.vals[t] = DOMAIN group.vals[t]
  BY <1>2
<1>6. Names(prog.frame, Types)' = Names(prog.frame, Types)
  BY <1>2, <1>3 DEF Names, GoesOn
<1>7. GroupOK'
  <2>1. prog'.key = prog.key /\ prog'.size = prog.size /\ prog' # Nobody
    BY <1>2 DEF GoesOn
  <2>2. \A t \in Types :
            /\ DOMAIN group'.vals[t] = 0 .. prog'.size[prog'.frame] - 1
            /\ DOMAIN file'.data[<<prog'.frame, t, prog'.key>>] = 0 .. prog'.size[prog'.frame] - 1
    BY <1>1, <1>2, <1>5, <2>1 DEF GroupOK
  <2>3. QED
    BY <1>1, <1>2, <1>3, <1>5, <1>6, <2>1, <2>2 DEF GroupOK, Writing
<1>8. prog'.err = "none"
  BY <1>1, <1>2 DEF ProgOK
<1>9. /\ file'.state = "good" /\ ParamGroups(Types) \subseteq file'.params
      /\ \A f \in Nat : f >= FirstNew' => Names(f, Types) \cap DOMAIN file'.data = {}
  <2>1. FirstNew' = FirstNew
    BY <1>1, <1>2 DEF FirstNew, Writing
  <2>2. QED
    BY <1>1, <2>1 DEF ProgOK, InOrder, Writing
<1>10. prog'.frame <= NFramesOut /\ group'.open /\ prog'.frame \in 1 .. NFramesOut + 1
  BY <1>1, <1>2 DEF ProgOK, Writing
<1>11. QED
  BY <1>1, <1>2, <1>4, <1>7, <1>8, <1>9, <1>10, GoesOnBase DEF InOrder, Writing

\* opening the group of a frame and making its data sets,
LEMMA OpenGroupBase ==
    ASSUME BaseInv, OpenGroup \/ OpenGroupFails, UNCHANGED idenVars
    PROVE  BaseInv'
<1>1. /\ prog # Nobody /\ prog.pc = "group" /\ ProgOK /\ GroupOK /\ FileOK
      /\ UNCHANGED <<idenVars, box, runs>>
      /\ prog.frame <= NFramesOut
  BY DEF OpenGroup, OpenGroupFails, At, BaseInv, ProgOK
<1>2. /\ prog.err = "none" /\ prog.frame \in 1 .. NFramesOut + 1 /\ NFramesOut \in Nat
      /\ file.state = "good" /\ ParamGroups(Types) \subseteq file.params
      /\ \A f \in Nat : f >= prog.frame => Names(f, Types) \cap DOMAIN file.data = {}
  BY <1>1, NFramesType DEF ProgOK, BaseInv, IdenInv, InOrder, Writing, FirstNew
<1>3. prog.size[prog.frame] \in Nat \ {0}
  BY <1>1, <1>2 DEF ProgOK, BoxOK
<1>4. PICK T \in SUBSET Types :
        /\ CanMake(prog.frame, T) /\ file' = WithFrame(prog.frame, T)
        /\ \/ /\ T = Types /\ OpenGroup
           \/ Throw("h5") /\ OpenGroupFails
  <2>1. CASE OpenGroup
    BY <2>1 DEF OpenGroup
  <2>2. CASE OpenGroupFails
    BY <2>2, BelowIs DEF OpenGroupFails
  <2>3. QED
    BY <2>1, <2>2
<1>5. /\ GoesOn /\ prog'.frame = prog.frame
      /\ \/ prog'.pc = "meta" /\ prog'.err = "none" /\ OpenGroup /\ T = Types
         \/ prog'.pc = "thrown" /\ prog'.err = "h5" /\ OpenGroupFails
  <2>1. CASE OpenGroup /\ T = Types
    BY <1>1, <1>2, <2>1, GotoIs DEF OpenGroup
  <2>2. CASE Throw("h5") /\ OpenGroupFails
    BY <1>1, <2>2, ThrowIs
  <2>3. QED
    BY <1>4, <2>1, <2>2
<1>6. /\ NFramesOut' = NFramesOut /\ Types' = Types
      /\ \A f, S : Names(f, S)' = Names(f, S)
  BY <1>5, GoesOnKeeps
<1>7. /\ FileOK' /\ file'.state = "good" /\ file'.params = file.params
      /\ DOMAIN file'.data = DOMAIN file.data \cup Names(prog.frame, T)
      /\ \A d \in DOMAIN file.data : file'.data[d] = file.data[d] /\ d \notin Names(prog.frame, T)
      /\ \A d \in Names(prog.frame, T) : file'.data[d] = [i \in 0 .. prog.size[prog.frame] - 1 |-> FillValue]
  <2>1. ParamGroups(T) \subseteq file.params
    BY <1>2 DEF ParamGroups
  <2>2. QED
    BY <1>1, <1>2, <1>3, <1>4, <1>6, <2>1, MadeIs
<1>8. CASE prog'.pc = "meta" /\ prog'.err = "none" /\ OpenGroup /\ T = Types
  <2>1. group' = [open |-> TRUE, added |-> 0,
                  vals |-> [t \in Types |-> [i \in 0 .. prog.size[prog.frame] - 1 |-> BufferValue]]]
    BY <1>8 DEF OpenGroup
  <2>2. /\ group'.open = TRUE /\ DOMAIN group' = {"open", "added", "vals"} /\ DOMAIN group'.vals = Types
        /\ \A t \in Types : DOMAIN group'.vals[t] = 0 .. prog.size[prog.frame] - 1
    BY <2>1
  <2>3. \A t \in Types : <<prog.frame, t, prog.key>> \in Names(prog.frame, Types)
    BY DEF Names
  <2>4. Names(prog.frame, Types)' = Names(prog.frame, Types)
    BY <1>5, <1>6 DEF Names, GoesOn
  <2>5. prog'.key = prog.key /\ prog'.size = prog.size /\ prog' # Nobody
    BY <1>5 DEF GoesOn
  <2>6. \A t \in Types : DOMAIN file'.data[<<prog.frame, t, prog.key>>] = 0 .. prog.size[prog.frame] - 1
    BY <1>7, <1>8, <2>3
  <2>7. GroupOK'
    BY <1>1, <1>5, <1>6, <1>7, <1>8, <2>2, <2>4, <2>5, <2>6 DEF GroupOK, Writing
  <2>8. ASSUME NEW f \in Nat, f >= FirstNew'
        PROVE  Names(f, Types) \cap DOMAIN file'.data = {}
    <3>1. f >= prog.frame + 1
      BY <1>5, <1>8, <2>8 DEF FirstNew, Writing
    <3>2. f >= prog.frame /\ f # prog.frame
      BY <1>2, <3>1
    <3>3. Names(f, Types) \cap Names(prog.frame, Types) = {}
      BY <3>2 DEF Names
    <3>4. QED
      BY <1>2, <1>7, <1>8, <3>2, <3>3
  <2>9. QED
    BY <1>1, <1>2, <1>5, <1>7, <1>8, <2>2, <2>7, <2>8, GoesOnBase DEF InOrder, Writing
<1>9. CASE prog'.pc = "thrown" /\ prog'.err = "h5" /\ OpenGroupFails
  <2>1. group' = group /\ ~group.open
    BY <1>1, <1>9 DEF OpenGroupFails, GroupOK, Writing
  <2>2. GroupOK'
    BY <1>1, <2>1 DEF GroupOK
  <2>3. QED
    BY <1>2, <1>5, <1>7, <1>9, <2>2, GoesOnBase DEF InOrder, Writing
<1>10. QED
  BY <1>5, <1>8, <1>9

\* and writing the buffers when it is closed.
LEMMA CloseGroupBase ==
    ASSUME BaseInv, CloseGroup \/ CloseGroupFails, UNCHANGED idenVars
    PROVE  BaseInv'
<1>1. /\ prog # Nobody /\ prog.pc = "close" /\ ProgOK /\ GroupOK /\ FileOK
      /\ UNCHANGED <<idenVars, box, runs>>
  BY DEF CloseGroup, CloseGroupFails, At, BaseInv
<1>2. /\ prog.err = "none" /\ prog.frame \in 1 .. NFramesOut /\ NFramesOut \in Nat
      /\ file.state = "good" /\ ParamGroups(Types) \subseteq file.params /\ group.open
      /\ \A f \in Nat : f >= prog.frame + 1 => Names(f, Types) \cap DOMAIN file.data = {}
  BY <1>1, NFramesType DEF ProgOK, BaseInv, IdenInv, InOrder, Writing, FirstNew
<1>3. CASE CloseGroup
  <2>1. prog' = [prog EXCEPT !.pc = "group", !.frame = @ + 1] /\ DOMAIN prog = ProgFields
    BY <1>1, <1>3 DEF CloseGroup, ProgOK
  <2>2. /\ GoesOn /\ prog'.pc = "group" /\ prog'.frame = prog.frame + 1 /\ prog'.err = "none"
    BY <1>1, <1>2, <2>1 DEF GoesOn, ProgFields, ProgOK, Nobody, Kinds
  <2>3. NFramesOut' = NFramesOut
    BY <2>2, GoesOnKeeps
  <2>4. /\ FileOK' /\ file'.state = "good" /\ file'.params = file.params
        /\ DOMAIN file'.data = DOMAIN file.data
    BY <1>1, <1>2, <1>3, <2>3, WrittenIs DEF CloseGroup
  <2>5. group'.open = FALSE
    BY <1>3 DEF CloseGroup, Closed
  <2>6. GroupOK'
    BY <2>5 DEF GroupOK
  <2>7. \A f \in Nat : f >= FirstNew' => Names(f, Types) \cap DOMAIN file'.data = {}
    BY <1>2, <2>2, <2>4 DEF FirstNew, Writing
  <2>8. prog'.frame \in 1 .. NFramesOut + 1
    BY <1>2, <2>2
  <2>9. QED
    BY <1>2, <2>2, <2>4, <2>6, <2>7, <2>8, GoesOnBase DEF InOrder, Writing
<1>4. CASE CloseGroupFails
  <2>1. PICK kind \in {"std", "h5"} : Throw(kind)
    BY <1>4 DEF CloseGroupFails
  <2>2. GoesOn /\ prog'.pc = "thrown" /\ prog'.frame = prog.frame /\ prog'.err # "none"
    BY <1>1, <2>1, ThrowIs
  <2>3. NFramesOut' = NFramesOut /\ group' = group
    BY <1>4, <2>2, GoesOnKeeps DEF CloseGroupFails
  <2>4. /\ FileOK' /\ file'.state = file.state /\ file'.params = file.params
        /\ DOMAIN file'.data = DOMAIN file.data
        /\ \A d \in DOMAIN file.data : DOMAIN file'.data[d] = DOMAIN file.data[d]
    <3>1. CASE file' = file
      BY <1>1, <2>3, <3>1 DEF FileOK
    <3>2. CASE \E n : file' = Written(Below(Types, n))
      <4>1. PICK n : file' = Written(Below(Types, n))
        BY <3>2
      <4>2. Below(Types, n) \in SUBSET Types
        BY BelowIs
      <4>3. QED
        BY <1>1, <1>2, <2>3, <4>1, <4>2, WrittenIs
    <3>3. QED
      BY <1>4, <3>1, <3>2 DEF CloseGroupFails
  <2>5. QED
    BY <1>1, <2>2, <2>3, <2>4, AsideBase DEF InOrder, Writing
<1>5. QED
  BY <1>3, <1>4

-----------------------------------------------------------------------------
(* The ends and the starts                                                    *)

\* What stays of a program that ends with a code.
Record(code) ==
    [kind |-> prog.kind, key |-> prog.key, code |-> code,
     err |-> IF code = Killed THEN "killed" ELSE prog.err,
     at |-> prog.at, tracks |-> prog.tracks,
     kept |-> IF code = 0 THEN [f \in DOMAIN box |-> {box[f][n] : n \in 1 .. Len(box[f])}] ELSE <<>>]

\* The end of a program leaves its record, and nothing else of it.
LEMMA EndedIs ==
    ASSUME NEW code, Ended(code)
    PROVE  prog' = Nobody /\ box' = <<>> /\ group' = Closed /\ runs' = runs \cup {Record(code)}
BY DEF Ended, Record

\* How a program can end, and what that leaves of the file.
LEMMA EndsAre ==
    ASSUME BaseInv, Ends, UNCHANGED idenVars
    PROVE  /\ prog # Nobody /\ prog' = Nobody /\ box' = <<>> /\ group' = Closed /\ FileOK'
           /\ \/ /\ prog.pc = "done" /\ file' = file
                 /\ \/ runs' = runs \cup {Record(0)}
                    \/ runs' = runs \cup {Record(-1)}
              \/ /\ prog.pc = "thrown"
                 /\ \/ file' = file
                    \/ group.open /\ CountRight /\ \E T \in SUBSET Types : file' = Written(T)
                 /\ \/ runs' = runs \cup {Record(-1)}
                    \/ prog.kind = "phi6" /\ prog.err = "std" /\ runs' = runs \cup {Record(0)}
              \/ /\ file' = file \/ (file.state # "absent" /\ file' = [NoFile EXCEPT !.state = "broken"])
                 /\ runs' = runs \cup {Record(Killed)}
<1>1. FileOK /\ GroupOK /\ NFramesOut' = NFramesOut
  BY WantedFixed DEF BaseInv, idenVars
<1>2. CASE EndWell
  <2>1. PICK code \in {0, -1} : Ended(code)
    BY <1>2 DEF EndWell
  <2>2. prog # Nobody /\ prog.pc = "done" /\ file' = file
    BY <1>2 DEF EndWell, At
  <2>3. FileOK'
    BY <1>1, <2>2 DEF FileOK
  <2>4. QED
    BY <2>1, <2>2, <2>3, EndedIs
<1>3. CASE Unwind
  <2>1. prog # Nobody /\ prog.pc = "thrown"
    BY <1>3 DEF Unwind, At
  <2>2. PICK code : /\ code \in {0, -1} /\ (code = 0 => prog.kind = "phi6" /\ prog.err = "std")
                    /\ Ended(code)
    BY <1>3 DEF Unwind
  <2>3. file' = file \/ (group.open /\ CountRight /\ \E T \in SUBSET Types : file' = Written(T))
    <3>1. CASE group.open /\ CountRight
      <4>1. PICK n : file' = Written(Below(Types, n))
        BY <1>3, <3>1 DEF Unwind
      <4>2. Below(Types, n) \in SUBSET Types
        BY BelowIs
      <4>3. QED
        BY <3>1, <4>1, <4>2
    <3>2. CASE ~(group.open /\ CountRight)
      BY <1>3, <3>2 DEF Unwind
    <3>3. QED
      BY <3>1, <3>2
  <2>4. FileOK'
    <3>1. CASE file' = file
      BY <1>1, <3>1 DEF FileOK
    <3>2. CASE group.open /\ CountRight /\ \E T \in SUBSET Types : file' = Written(T)
      BY <1>1, <3>2, WrittenIs
    <3>3. QED
      BY <2>3, <3>1, <3>2
  <2>5. prog' = Nobody /\ box' = <<>> /\ group' = Closed /\ runs' = runs \cup {Record(code)}
    BY <2>2, EndedIs
  <2>6. QED
    BY <2>1, <2>2, <2>3, <2>4, <2>5
<1>4. CASE Kill
  <2>1. /\ prog # Nobody
        /\ file' = file \/ (file.state # "absent" /\ file' = [NoFile EXCEPT !.state = "broken"])
        /\ Ended(Killed)
    BY <1>4 DEF Kill
  <2>2. FileOK'
    <3>1. CASE file' = file
      BY <1>1, <3>1 DEF FileOK
    <3>2. CASE file' = [NoFile EXCEPT !.state = "broken"]
      <4>1. DOMAIN file' = FileFields /\ file'.state = "broken" /\ file'.planes = 0
            /\ file'.params = {} /\ file'.data = <<>>
        BY <3>2 DEF NoFile, FileFields
      <4>2. DOMAIN file'.data = {}
        BY <4>1
      <4>3. QED
        BY <4>1, <4>2 DEF FileOK
    <3>3. QED
      BY <2>1, <3>1, <3>2
  <2>3. QED
    BY <2>1, <2>2, EndedIs
<1>5. QED
  BY <1>2, <1>3, <1>4 DEF Ends

\* Every end of a program keeps BaseInv.
LEMMA EndsBase ==
    ASSUME BaseInv, Ends, UNCHANGED idenVars
    PROVE  BaseInv'
<1>1. /\ prog # Nobody /\ prog' = Nobody /\ box' = <<>> /\ group' = Closed /\ FileOK'
  BY EndsAre
<1>2. IdenInv' /\ IdenDone' /\ UNCHANGED <<stack, avgCount, wrapper>>
  <2>1. UNCHANGED <<stack, avgCount, wrapper>>
    BY DEF idenVars
  <2>2. NFramesOut' = NFramesOut
    BY <2>1, WantedFixed
  <2>3. QED
    BY <1>1, <2>1, <2>2, IdenInvStep DEF BaseInv, ProgOK, IdenDone
<1>3. ProgOK' /\ GroupOK'
  BY <1>1 DEF ProgOK, GroupOK, Closed
<1>4. PICK code : runs' = runs \cup {Record(code)} /\ code \in {0, -1, Killed}
  BY EndsAre
<1>5. Record(code).code = code /\ Record(code).kind = prog.kind
      /\ (code # Killed => Record(code).err = prog.err)
  BY DEF Record
<1>6. ASSUME Record(code).code = 0 PROVE prog.pc = "done" \/ prog.kind = "phi6"
  <2>1. code = 0
    BY <1>5, <1>6
  <2>2. Record(0) # Record(-1) /\ Record(0) # Record(Killed)
    BY DEF Record, Killed
  <2>3. Record(-1).code = -1 /\ Record(Killed).code = Killed
    BY DEF Record
  <2>4. CASE Record(0) \in runs
    <3>1. RunsOK
      BY DEF BaseInv
    <3>2. Record(0).key = prog.key
      BY DEF Record
    <3>3. QED
      BY <1>1, <1>5, <2>1, <2>4, <3>1, <3>2 DEF RunsOK
  <2>5. CASE Record(0) \notin runs
    BY <1>4, <2>1, <2>2, <2>5, EndsAre
  <2>6. QED
    BY <2>4, <2>5
<1>7. ASSUME prog.kind = "process", Record(code).code = 0
      PROVE  Record(code).err = "none"
  <2>1. prog.pc = "done" /\ code = 0
    BY <1>5, <1>6, <1>7
  <2>2. QED
    BY <1>1, <1>5, <2>1 DEF BaseInv, ProgOK, Killed
<1>8. ASSUME file'.state = "absent" PROVE Well' = {}
  <2>1. file' = file
    <3>1. ASSUME NEW T \in SUBSET Types, group.open, file' = Written(T)
          PROVE  FALSE
      <4>1. FileOK /\ GroupOK /\ NFramesOut' = NFramesOut
        BY <1>2, WantedFixed DEF BaseInv
      <4>2. file'.state = "good"
        BY <3>1, <4>1, WrittenIs
      <4>3. QED
        BY <1>8, <4>2
    <3>2. ASSUME file' = [NoFile EXCEPT !.state = "broken"]
          PROVE  FALSE
      BY <1>8, <3>2 DEF NoFile
    <3>3. QED
      BY <3>1, <3>2, EndsAre
  <2>2. Well = {}
    BY <1>8, <2>1 DEF BaseInv, RunsOK
  <2>3. ASSUME Record(code).code = 0, Record(code).err = "none"
        PROVE  FALSE
    <3>1. prog.pc = "done" \/ prog.kind = "phi6"
      BY <1>6, <2>3
    <3>2. prog.kind # "process" => file.state = "good"
      BY <1>1 DEF BaseInv, ProgOK
    <3>3. prog.pc = "done" => file.state = "good"
      BY <1>1 DEF BaseInv, ProgOK, InOrder
    <3>4. QED
      BY <1>8, <2>1, <3>1, <3>2, <3>3
  <2>4. QED
    BY <1>4, <2>2, <2>3 DEF Well
<1>9. RunsOK'
  BY <1>1, <1>2, <1>4, <1>5, <1>7, <1>8 DEF RunsOK, BaseInv
<1>10. QED
  BY <1>1, <1>2, <1>3, <1>9 DEF BaseInv

\* S is the set of the G[i], which know their i.
Indexes(G, K, S) ==
    /\ \A i \in K : G[i] \in S
    /\ \A x \in S : x.ind \in K /\ x = G[x.ind]

\* The particles of a set of indices, in some order: each is there, once.
LEMMA IndexedIs ==
    ASSUME NEW K, IsFiniteSet(K), NEW G, NEW S, Indexes(G, K, S), NEW b, b = SetToSeq(S)
    PROVE  /\ b \in SetToSeqs(S) /\ IsFiniteSet(S)
           /\ Len(b) \in Nat /\ DOMAIN b = 1 .. Len(b)
           /\ \A m \in 1 .. Len(b) : b[m].ind \in K /\ b[m] = G[b[m].ind]
           /\ \A i \in K : \E m \in 1 .. Len(b) : b[m] = G[i]
<1>1. IsFiniteSet(S)
  <2> DEFINE H == [i \in K |-> G[i]]
  <2>1. H \in Surjection(K, S)
    BY DEF Surjection, Indexes
  <2> HIDE DEF H
  <2>2. QED
    BY <2>1, FS_Surjection
<1>2. b \in SetToSeqs(S)
  BY <1>1, SomeOrder
<1>3. /\ Cardinality(S) \in Nat /\ Len(b) = Cardinality(S) /\ DOMAIN b = 1 .. Len(b)
      /\ \A n \in 1 .. Len(b) : b[n] \in S
      /\ \A x \in S : \E n \in 1 .. Len(b) : b[n] = x
  BY <1>1, <1>2, OrderIs
<1>4. QED
  BY <1>1, <1>2, <1>3 DEF Indexes

\* A program is at its beginning, with particles on all frames of the image.
Begins ==
    /\ prog = Nobody /\ prog' # Nobody
    /\ UNCHANGED <<idenVars, file, group, runs>>
    /\ DOMAIN prog' = ProgFields
    /\ prog'.kind \in Kinds /\ Claims(prog'.key)
    /\ prog'.pc = "open" /\ prog'.frame = 1 /\ prog'.err = "none" /\ prog'.at = "open"
    /\ prog'.kind # "process" =>
        file.state = "good" /\ file.planes > 0 /\ prog'.md = MdStores /\ Recorded(prog'.rkey)
    /\ prog'.kind = "process" => prog'.md = [f \in Frames |-> wrapper[f].md] /\ prog'.rkey = prog'.key
    /\ IdenDone
    /\ DOMAIN box' = 1 .. NFramesOut /\ Len(box') = NFramesOut
    /\ DOMAIN prog'.size = 1 .. NFramesOut
    /\ \A f \in 1 .. NFramesOut : BoxOK(f)'

\* process begins with the particles found on the frames.
LEMMA StartProcessBegins ==
    ASSUME BaseInv, NEW k, StartProcess(k), UNCHANGED idenVars
    PROVE  Begins /\ prog'.outside = FALSE /\ prog'.kind = "process" /\ prog'.tracks = <<>>
<1>1. /\ prog = Nobody /\ IdenDone /\ Claims(k)
      /\ UNCHANGED <<idenVars, file, group, runs>>
  BY DEF StartProcess, Free
<1>2. IdenTypeOK /\ NFramesOut \in Nat /\ Len(wrapper) = NFramesOut /\ MaxFound \in Nat
  BY <1>1, NFramesType, MaxFoundType DEF BaseInv, IdenInv, IdenDone
<1>3. /\ prog' = Program("process", k, k, [f \in Frames |-> wrapper[f].md],
                         [f \in Frames |-> MaxInd(0 .. wrapper[f].found - 1) + 1])
      /\ box' \in [Frames -> UNION {InSomeOrder({Processed(i) : i \in 1 .. n}) : n \in 0 .. MaxFound}]
      /\ \A f \in Frames : Len(box'[f]) = wrapper[f].found
  BY DEF StartProcess
<1>4. Frames = 1 .. NFramesOut
  BY DEF Frames
<1>5. /\ DOMAIN prog' = ProgFields /\ prog'.kind = "process" /\ prog'.key = k /\ prog'.rkey = k
      /\ prog'.pc = "open" /\ prog'.frame = 1 /\ prog'.err = "none" /\ prog'.at = "open"
      /\ prog'.outside = FALSE /\ prog'.tracks = <<>>
      /\ prog'.md = [f \in Frames |-> wrapper[f].md]
      /\ prog'.size = [f \in Frames |-> MaxInd(0 .. wrapper[f].found - 1) + 1]
  BY <1>3 DEF Program, ProgFields
<1>6. prog' # Nobody
  BY <1>5 DEF Nobody
<1>7. DOMAIN box' = 1 .. NFramesOut /\ Len(box') = NFramesOut
  <2>1. PICK U : box' \in [Frames -> U]
    BY <1>3
  <2>2. QED
    BY <1>2, <1>4, <2>1
<1>8. ASSUME NEW f \in 1 .. NFramesOut
      PROVE  BoxOK(f)'
  <2>1. PICK n \in 0 .. MaxFound : box'[f] \in SetToSeqs({Processed(i) : i \in 1 .. n})
    <3>1. box'[f] \in UNION {InSomeOrder({Processed(i) : i \in 1 .. n}) : n \in 0 .. MaxFound}
      BY <1>3, <1>4
    <3>2. QED
      BY <3>1 DEF InSomeOrder
  <2> DEFINE S == {Processed(i) : i \in 1 .. n}  F == [i \in 1 .. n |-> Processed(i)]
  <2>2. /\ \A x \in S : x.val[DX] = x.val[XPOS]
        /\ \A i \in 1 .. n : F[i] \in S /\ F[i].ind = i - 1 /\ F[i].val[XPOS] = i
    BY DEF Processed, TypesOf, DX, XPOS
  <2>3. IsFiniteSet(S) /\ Cardinality(S) = n
    <3>1. F \in Bijection(1 .. n, S)
      <4>1. F \in [1 .. n -> S] /\ \A x \in S : \E i \in 1 .. n : F[i] = x
        OBVIOUS
      <4>2. \A i, j \in 1 .. n : F[i] = F[j] => i = j
        BY <2>2
      <4> HIDE DEF F, S
      <4>3. QED
        BY <4>1, <4>2, Fun_IsInj, Fun_IsSurj DEF Bijection
    <3>2. IsFiniteSet(1 .. n) /\ Cardinality(1 .. n) = n
      BY FS_Interval
    <3> DEFINE N == 1 .. n
    <3> HIDE DEF F, S, N
    <3>3. F \in Bijection(N, S) /\ IsFiniteSet(N)
      BY <3>1, <3>2 DEF N
    <3>4. IsFiniteSet(S) /\ Cardinality(S) = Cardinality(N)
      <4>1. F \in Surjection(N, S) /\ F \in Injection(N, S)
        BY <3>3 DEF Bijection
      <4>2. QED
        BY <3>3, <4>1, FS_Surjection
    <3>5. QED
      BY <3>2, <3>4 DEF N
  <2> DEFINE s == box'[f]
  <2>4. /\ Len(s) = n /\ DOMAIN s = 1 .. n
        /\ \A m \in 1 .. n : s[m] \in S
        /\ \A x \in S : \E m \in 1 .. n : s[m] = x
    <3>1. s \in SetToSeqs(S)
      BY <2>1
    <3> HIDE DEF s, S
    <3>2. QED
      BY <2>3, <3>1, OrderIs
  <2>5. wrapper[f].found = n
    BY <1>3, <1>4, <2>4
  <2>6. prog'.size[f] = MaxInd(0 .. n - 1) + 1
    BY <1>4, <1>5, <2>5
  <2>7. MaxInd(0 .. n - 1) \in Nat /\ \A x \in 0 .. n - 1 : x <= MaxInd(0 .. n - 1)
    <3>1. 0 .. n - 1 \in SUBSET Nat /\ IsFiniteSet(0 .. n - 1)
      BY FS_Interval
    <3>2. QED
      BY <3>1, MaxIndIs
  <2>8. prog'.size[f] \in Nat \ {0} /\ n <= prog'.size[f]
    <3>1. CASE n = 0
      BY <2>6, <2>7, <3>1
    <3>2. CASE n > 0
      <4>1. n - 1 <= MaxInd(0 .. n - 1)
        BY <2>7, <3>2
      <4>2. QED
        BY <2>6, <2>7, <4>1
    <3>3. QED
      BY <3>1, <3>2
  <2>9. wrapper'[f] = wrapper[f]
    BY <1>1 DEF idenVars
  <2>10. \A i \in 1 .. n : \E m \in 1 .. n : box'[f][m].val[XPOS] = i
    <3> HIDE DEF S, F
    <3>1. SUFFICES ASSUME NEW i \in 1 .. n PROVE \E m \in 1 .. n : s[m].val[XPOS] = i
      OBVIOUS
    <3> HIDE DEF s
    <3>2. PICK m \in 1 .. n : s[m] = F[i]
      BY <2>2, <2>4
    <3>3. QED
      BY <2>2, <3>2
  <2>11. \A m \in 1 .. n : box'[f][m].val[DX] = box'[f][m].val[XPOS]
    BY <2>2, <2>4
  <2> HIDE DEF S, F
  <2>12. QED
    BY <1>5, <2>4, <2>5, <2>8, <2>9, <2>10, <2>11 DEF BoxOK
<1>9. DOMAIN prog'.size = 1 .. NFramesOut
  BY <1>4, <1>5
<1>10. QED
  BY <1>1, <1>5, <1>6, <1>7, <1>8, <1>9 DEF Begins, Kinds

\* The sequence b has the values of G at the indices K, each once.
FilledFrom(K, G, b) ==
    /\ Len(b) \in Nat /\ DOMAIN b = 1 .. Len(b) /\ MaxInd(K) \in Nat
    /\ \A m \in 1 .. Len(b) : b[m].ind \in 0 .. MaxInd(K)
    /\ \A l, m \in 1 .. Len(b) : b[l].ind = b[m].ind => b[l] = b[m]
    /\ \A m \in 1 .. Len(b) : b[m].ind \in K /\ b[m] = G[b[m].ind]
    /\ \A i \in K : \E m \in 1 .. Len(b) : b[m] = G[i]

\* Those read from the indices K fit an array that goes as far as the last.
LEMMA ReadersFit ==
    ASSUME NEW K \in SUBSET Nat, IsFiniteSet(K), NEW G, NEW S, NEW b, b = SetToSeq(S),
           Indexes(G, K, S)
    PROVE  FilledFrom(K, G, b)
<1>2. /\ Len(b) \in Nat /\ DOMAIN b = 1 .. Len(b)
      /\ \A m \in 1 .. Len(b) : b[m].ind \in K /\ b[m] = G[b[m].ind]
      /\ \A i \in K : \E m \in 1 .. Len(b) : b[m] = G[i]
  BY IndexedIs
<1>3. PICK M : M = MaxInd(K)
  OBVIOUS
<1>4. M \in {0} \cup K /\ \A x \in K : x <= M
  BY <1>3, MaxIndIs
<1>5. M \in Nat /\ \A x \in K : x \in 0 .. M
  BY <1>4
<1>6. \A m \in 1 .. Len(b) : b[m].ind \in 0 .. M
  BY <1>2, <1>5
<1>7. \A l, m \in 1 .. Len(b) : b[l].ind = b[m].ind => b[l] = b[m]
  BY <1>2
<1>8. QED
  BY <1>2, <1>3, <1>5, <1>6, <1>7 DEF FilledFrom

\* A function on 1 .. n has the length n.
LEMMA BoxLength ==
    ASSUME NEW n \in Nat, NEW b, DOMAIN b = 1 .. n, b = [f \in 1 .. n |-> b[f]]
    PROVE  Len(b) = n
<1>1. b \in [1 .. n -> {b[f] : f \in 1 .. n}]
  OBVIOUS
<1>2. QED
  BY <1>1

\* A program that reads the file starts with the particle F[f][i] for every index
\* i that is kept of frame f.
Reads(kind, k, rk, kept, F) ==
    /\ Free /\ Claims(k) /\ Recorded(rk) /\ file.state = "good" /\ file.planes > 0
    /\ kind \in {"tracking", "phi6"}
    /\ UNCHANGED <<idenVars, file, group, runs>>
    /\ kept \in Kept
    /\ \A f \in 1 .. file.planes : \A i \in kept[f] : F[f][i].ind = i
    /\ box' = [f \in 1 .. file.planes |-> SetToSeq({F[f][i] : i \in kept[f]})]
    /\ DOMAIN prog' = ProgFields
    /\ prog'.kind = kind /\ prog'.key = k /\ prog'.rkey = rk
    /\ prog'.pc = "open" /\ prog'.frame = 1 /\ prog'.err = "none" /\ prog'.at = "open"
    /\ prog'.md = MdStores
    /\ prog'.size = [f \in 1 .. file.planes |-> MaxInd(kept[f]) + 1]

\* A program that reads begins with particles on all frames.
LEMMA ReaderBegins ==
    ASSUME BaseInv, NEW kind, NEW k, NEW rk, NEW kept, NEW F, Reads(kind, k, rk, kept, F)
    PROVE  Begins
<1>1. prog = Nobody /\ runs # {} /\ kind \in {"tracking", "phi6"} /\ DOMAIN prog' = ProgFields
      /\ UNCHANGED <<idenVars, file, group, runs>>
  BY DEF Reads, Free, Recorded
<1>2. IdenDone /\ IdenTypeOK /\ NFramesOut \in Nat /\ Len(wrapper) = NFramesOut /\ MaxFound \in Nat
  BY <1>1, NFramesType, MaxFoundType DEF BaseInv, RunsOK, IdenInv, IdenDone
<1>3. file.planes = NFramesOut
  BY DEF BaseInv, FileOK, Reads
<1>4. prog' # Nobody
  BY <1>1 DEF Nobody, ProgFields
<1>5. /\ box' = [f \in 1 .. NFramesOut |-> SetToSeq({F[f][i] : i \in kept[f]})]
      /\ prog'.size = [f \in 1 .. NFramesOut |-> MaxInd(kept[f]) + 1]
      /\ \A f \in 1 .. NFramesOut : \A i \in kept[f] : F[f][i].ind = i
      /\ kept \in [1 .. NFramesOut -> SUBSET (0 .. MaxFound)]
  BY <1>3 DEF Reads, Kept
<1>6. DOMAIN box' = 1 .. NFramesOut /\ Len(box') = NFramesOut
  <2>1. DOMAIN box' = 1 .. NFramesOut /\ box' = [f \in 1 .. NFramesOut |-> box'[f]]
    BY <1>5
  <2>2. QED
    BY <1>2, <2>1, BoxLength
<1>7. ASSUME NEW f \in 1 .. NFramesOut
      PROVE  BoxOK(f)'
  <2>1. PICK K, G, b, n : /\ K = kept[f] /\ G = F[f] /\ b = box'[f] /\ n = prog'.size[f]
    OBVIOUS
  <2>2. K \in SUBSET Nat /\ IsFiniteSet(K)
    <3>1. K \in SUBSET (0 .. MaxFound)
      BY <1>5, <2>1
    <3>2. IsFiniteSet(0 .. MaxFound)
      BY <1>2, FS_Interval
    <3>3. IsFiniteSet(K)
      BY <3>1, <3>2, FS_Subset
    <3>4. QED
      BY <3>1, <3>3
  <2>3. b = SetToSeq({G[i] : i \in K}) /\ n = MaxInd(K) + 1 /\ \A i \in K : G[i].ind = i
    BY <1>5, <2>1
  <2>4. /\ Len(b) \in Nat /\ DOMAIN b = 1 .. Len(b) /\ MaxInd(K) \in Nat
        /\ \A m \in 1 .. Len(b) : b[m].ind \in 0 .. MaxInd(K)
        /\ \A l, m \in 1 .. Len(b) : b[l].ind = b[m].ind => b[l] = b[m]
    <3>1. PICK S : S = {G[i] : i \in K}
      OBVIOUS
    <3>2. Indexes(G, K, S)
      BY <2>3, <3>1 DEF Indexes
    <3>3. b = SetToSeq(S)
      BY <2>3, <3>1
    <3>4. FilledFrom(K, G, b)
      BY <2>2, <3>2, <3>3, ReadersFit
    <3>5. QED
      BY <3>4 DEF FilledFrom
  <2>5. prog'.kind # "process"
    BY <1>1 DEF Reads
  <2>6. n \in Nat \ {0} /\ \A m \in 1 .. Len(b) : b[m].ind \in 0 .. n - 1
    <3>1. PICK M : M = MaxInd(K)
      OBVIOUS
    <3>2. M \in Nat /\ n - 1 = M /\ n \in Nat \ {0}
      BY <2>3, <2>4, <3>1
    <3>3. QED
      BY <2>4, <3>1, <3>2
  <2>7. QED
    BY <2>1, <2>4, <2>5, <2>6 DEF BoxOK
<1>8. DOMAIN prog'.size = 1 .. NFramesOut
  BY <1>5
<1>9. /\ prog'.kind \in Kinds /\ Claims(prog'.key)
      /\ prog'.pc = "open" /\ prog'.frame = 1 /\ prog'.err = "none" /\ prog'.at = "open"
      /\ prog'.kind # "process" /\ file.state = "good" /\ file.planes > 0
      /\ prog'.md = MdStores /\ Recorded(prog'.rkey)
  BY DEF Reads, Kinds
<1>10. QED
  BY <1>1, <1>2, <1>4, <1>6, <1>7, <1>8, <1>9 DEF Begins

\* tracking reads the particles it keeps, with what their tracks say of them.
LEMMA TrackingReads ==
    ASSUME NEW k, NEW rk, StartTracking(k, rk), UNCHANGED idenVars
    PROVE  \E kept \in {x \in Kept : Passing(IdenPairs(rk), x)} : \E tracks \in TrackLists(kept) :
                /\ Reads("tracking", k, rk, kept,
                         [f \in 1 .. file.planes |-> [i \in kept[f] |-> Tracked(tracks, f, i)]])
                /\ prog'.outside = ReadsOutside(IdenPairs(rk)) /\ prog'.tracks = tracks
<1>1. /\ Free /\ Claims(k) /\ Recorded(rk) /\ CanRead(IdenPairs(rk))
      /\ UNCHANGED <<idenVars, file, group, runs>>
  BY DEF StartTracking
<1>2. PICK kept, tracks :
        /\ kept \in {x \in Kept : Passing(IdenPairs(rk), x)} /\ tracks \in TrackLists(kept)
        /\ box' = [f \in 1 .. file.planes |-> SetToSeq({Tracked(tracks, f, i) : i \in kept[f]})]
        /\ prog' = [Program("tracking", k, rk, MdStores,
                            [f \in 1 .. file.planes |-> MaxInd(kept[f]) + 1])
                    EXCEPT !.outside = ReadsOutside(IdenPairs(rk)), !.tracks = tracks]
  BY DEF StartTracking
<1> DEFINE F == [f \in 1 .. file.planes |-> [i \in kept[f] |-> Tracked(tracks, f, i)]]
<1>3. \A f \in 1 .. file.planes : \A i \in kept[f] : F[f][i] = Tracked(tracks, f, i) /\ F[f][i].ind = i
  <2>1. \A f, i : Tracked(tracks, f, i).ind = i
    BY DEF Tracked
  <2>2. QED
    BY <2>1
<1>4. ASSUME NEW f \in 1 .. file.planes
      PROVE  {F[f][i] : i \in kept[f]} = {Tracked(tracks, f, i) : i \in kept[f]}
  <2> HIDE DEF F
  <2>1. QED
    BY <1>3
<1>5. box' = [f \in 1 .. file.planes |-> SetToSeq({F[f][i] : i \in kept[f]})]
  <2> HIDE DEF F
  <2>1. QED
    BY <1>2, <1>4
<1>6. /\ DOMAIN prog' = ProgFields
      /\ prog'.kind = "tracking" /\ prog'.key = k /\ prog'.rkey = rk
      /\ prog'.pc = "open" /\ prog'.frame = 1 /\ prog'.err = "none" /\ prog'.at = "open"
      /\ prog'.md = MdStores
      /\ prog'.size = [f \in 1 .. file.planes |-> MaxInd(kept[f]) + 1]
      /\ prog'.outside = ReadsOutside(IdenPairs(rk)) /\ prog'.tracks = tracks
  <2>1. PICK sz, out, md : /\ sz = [f \in 1 .. file.planes |-> MaxInd(kept[f]) + 1]
                           /\ out = ReadsOutside(IdenPairs(rk)) /\ md = MdStores
    OBVIOUS
  <2>2. prog' = [Program("tracking", k, rk, md, sz) EXCEPT !.outside = out, !.tracks = tracks]
    BY <1>2, <2>1
  <2>3. /\ DOMAIN prog' = ProgFields
        /\ prog'.kind = "tracking" /\ prog'.key = k /\ prog'.rkey = rk
        /\ prog'.pc = "open" /\ prog'.frame = 1 /\ prog'.err = "none" /\ prog'.at = "open"
        /\ prog'.md = md /\ prog'.size = sz /\ prog'.outside = out /\ prog'.tracks = tracks
    BY <2>2 DEF Program, ProgFields
  <2>4. QED
    BY <2>1, <2>3
<1>7. Reads("tracking", k, rk, kept, F)
  <2> HIDE DEF F
  <2>1. QED
    BY <1>1, <1>2, <1>3, <1>5, <1>6 DEF Reads, CanRead
<1>8. QED
  BY <1>2, <1>6, <1>7

\* phi6 reads the particles it keeps.
LEMMA Phi6Reads ==
    ASSUME NEW k, NEW rk, StartPhi6(k, rk), UNCHANGED idenVars
    PROVE  \E kept \in Kept :
                /\ Passing(IdenPairs(rk), kept)
                /\ Reads("phi6", k, rk, kept,
                         [f \in 1 .. file.planes |-> [i \in kept[f] |->
                             [ind |-> i, val |-> [t \in TypesOf("phi6") |-> 0]]]])
                /\ prog'.outside = ReadsOutside(IdenPairs(rk)) /\ prog'.tracks = <<>>
<1> DEFINE Counted(i) == [ind |-> i, val |-> [t \in TypesOf("phi6") |-> 0]]
<1>1. /\ Free /\ Claims(k) /\ Recorded(rk) /\ CanRead(IdenPairs(rk))
      /\ UNCHANGED <<idenVars, file, group, runs>>
  BY DEF StartPhi6
<1>2. PICK kept \in Kept :
        /\ Passing(IdenPairs(rk), kept)
        /\ box' = [f \in 1 .. file.planes |-> SetToSeq({Counted(i) : i \in kept[f]})]
        /\ prog' = [Program("phi6", k, rk, MdStores,
                            [f \in 1 .. file.planes |-> MaxInd(kept[f]) + 1])
                    EXCEPT !.outside = ReadsOutside(IdenPairs(rk))]
  BY DEF StartPhi6
<1> DEFINE F == [f \in 1 .. file.planes |-> [i \in kept[f] |-> Counted(i)]]
<1>3. \A f \in 1 .. file.planes : \A i \in kept[f] : F[f][i] = Counted(i) /\ F[f][i].ind = i
  OBVIOUS
<1>4. ASSUME NEW f \in 1 .. file.planes
      PROVE  {F[f][i] : i \in kept[f]} = {Counted(i) : i \in kept[f]}
  <2> HIDE DEF F, Counted
  <2>1. QED
    BY <1>3
<1>5. box' = [f \in 1 .. file.planes |-> SetToSeq({F[f][i] : i \in kept[f]})]
  <2> HIDE DEF F, Counted
  <2>1. QED
    BY <1>2, <1>4
<1>6. /\ DOMAIN prog' = ProgFields
      /\ prog'.kind = "phi6" /\ prog'.key = k /\ prog'.rkey = rk
      /\ prog'.pc = "open" /\ prog'.frame = 1 /\ prog'.err = "none" /\ prog'.at = "open"
      /\ prog'.md = MdStores
      /\ prog'.size = [f \in 1 .. file.planes |-> MaxInd(kept[f]) + 1]
      /\ prog'.outside = ReadsOutside(IdenPairs(rk)) /\ prog'.tracks = <<>>
  <2>1. PICK sz, out, md : /\ sz = [f \in 1 .. file.planes |-> MaxInd(kept[f]) + 1]
                           /\ out = ReadsOutside(IdenPairs(rk)) /\ md = MdStores
    OBVIOUS
  <2>2. prog' = [Program("phi6", k, rk, md, sz) EXCEPT !.outside = out]
    BY <1>2, <2>1
  <2>3. /\ DOMAIN prog' = ProgFields
        /\ prog'.kind = "phi6" /\ prog'.key = k /\ prog'.rkey = rk
        /\ prog'.pc = "open" /\ prog'.frame = 1 /\ prog'.err = "none" /\ prog'.at = "open"
        /\ prog'.md = md /\ prog'.size = sz /\ prog'.outside = out /\ prog'.tracks = <<>>
    BY <2>2 DEF Program, ProgFields
  <2>4. QED
    BY <2>1, <2>3
<1>7. Reads("phi6", k, rk, kept, F)
  <2> HIDE DEF F, Counted
  <2>1. QED
    BY <1>1, <1>3, <1>5, <1>6 DEF Reads, CanRead
<1>8. QED
  BY <1>2, <1>6, <1>7

\* Every program that starts is at its beginning.
LEMMA StartsBegin ==
    ASSUME BaseInv, Starts, UNCHANGED idenVars
    PROVE  Begins
<1>1. PICK k \in Key, rk \in Key : StartProcess(k) \/ StartTracking(k, rk) \/ StartPhi6(k, rk)
  BY DEF Starts
<1>2. CASE StartProcess(k)
  BY <1>2, StartProcessBegins
<1>3. CASE StartTracking(k, rk)
  <2>1. PICK kept, F : Reads("tracking", k, rk, kept, F)
    BY <1>3, TrackingReads
  <2>2. QED
    BY <2>1, ReaderBegins
<1>4. CASE StartPhi6(k, rk)
  <2>1. PICK kept, F : Reads("phi6", k, rk, kept, F)
    BY <1>4, Phi6Reads
  <2>2. QED
    BY <2>1, ReaderBegins
<1>5. QED
  BY <1>1, <1>2, <1>3, <1>4

\* A program at its beginning keeps BaseInv.
LEMMA BeginsBase ==
    ASSUME BaseInv, Begins
    PROVE  BaseInv'
<1>1. /\ UNCHANGED <<stack, avgCount, wrapper>> /\ UNCHANGED <<idenVars, file, group, runs>>
  BY DEF Begins, idenVars
<1>2. NFramesOut' = NFramesOut /\ NFramesOut \in Nat
  BY <1>1, WantedFixed, NFramesType DEF BaseInv, IdenInv
<1>3. IdenInv' /\ IdenDone'
  BY <1>1, <1>2, IdenInvStep DEF BaseInv, Begins, IdenDone
<1>4. FileOK'
  BY <1>1, <1>2 DEF BaseInv, FileOK
<1>5. GroupOK'
  <2>1. ~group.open
    BY DEF BaseInv, GroupOK, Begins
  <2>2. QED
    BY <1>1, <2>1 DEF BaseInv, GroupOK
<1>6. ProgOK'
  BY <1>1, <1>2, <1>3 DEF ProgOK, Begins, InOrder, Writing
<1>7. RunsOK'
  <2>1. \A r \in runs : r.key = prog'.key => r.code # 0
    BY DEF Begins, Claims
  <2>2. Well' = Well
    BY <1>1 DEF Well
  <2>3. QED
    BY <1>1, <1>3, <2>1, <2>2 DEF BaseInv, RunsOK
<1>8. QED
  BY <1>3, <1>4, <1>5, <1>6, <1>7 DEF BaseInv

\* While frames are missing no program has been run.
LEMMA IdenBase ==
    ASSUME BaseInv, IdenStep, UNCHANGED hdfVars
    PROVE  BaseInv' /\ prog = Nobody /\ runs = {} /\ ~IdenDone /\ UNCHANGED <<file, prog, box, group, runs>>
<1>1. ~IdenDone
  BY DEF IdenStep, IdenPlane, AvgPlane, AvgFrame
<1>2. UNCHANGED <<file, prog, box, group, runs>>
  BY DEF hdfVars
<1>3. prog = Nobody /\ runs = {}
  BY <1>1 DEF BaseInv, ProgOK, RunsOK
<1>4. UNCHANGED <<stack, avgCount>>
  BY DEF IdenStep, IdenPlane, AvgPlane, AvgFrame
<1>5. NFramesOut' = NFramesOut
  BY <1>4, WantedFixed
<1>6. IdenInv'
  BY IdenInvStep DEF BaseInv
<1>7. FileOK' /\ ProgOK' /\ RunsOK'
  BY <1>2, <1>3, <1>5 DEF BaseInv, FileOK, ProgOK, RunsOK, Well
<1>8. GroupOK'
  BY <1>2, <1>3 DEF BaseInv, GroupOK
<1>9. QED
  BY <1>1, <1>2, <1>3, <1>6, <1>7, <1>8 DEF BaseInv

\* Without a file and a program BaseInv holds.
LEMMA BaseInvInit == HdfInit => BaseInv
<1> SUFFICES ASSUME HdfInit PROVE BaseInv
  OBVIOUS
<1>1. IdenInv
  BY IdenInvInit DEF HdfInit
<1>2. file = NoFile /\ prog = Nobody /\ group = Closed /\ runs = {}
  BY DEF HdfInit
<1>3. FileOK
  <2>1. DOMAIN file = FileFields /\ file.state = "absent" /\ file.planes = 0
        /\ file.params = {} /\ file.data = <<>>
    BY <1>2 DEF NoFile, FileFields
  <2>2. DOMAIN file.data = {}
    BY <2>1
  <2>3. QED
    BY <2>1, <2>2 DEF FileOK
<1>4. ProgOK /\ GroupOK /\ RunsOK
  BY <1>2 DEF ProgOK, GroupOK, RunsOK, Closed, Well
<1>5. QED
  BY <1>1, <1>3, <1>4 DEF BaseInv

\* Every step keeps BaseInv.
LEMMA BaseInvStep ==
    ASSUME BaseInv, [HdfNext]_<<idenVars, hdfVars>>
    PROVE  BaseInv'
<1>1. CASE UNCHANGED <<idenVars, hdfVars>>
  <2>1. /\ UNCHANGED <<stack, avgCount, wrapper>> /\ UNCHANGED idenVars
        /\ UNCHANGED <<file, prog, box, group, runs>>
    BY <1>1 DEF idenVars, hdfVars
  <2>2. NFramesOut' = NFramesOut
    BY <2>1, WantedFixed
  <2>3. IdenInv' /\ IdenDone' = IdenDone
    BY <2>1, <2>2, IdenInvStep DEF BaseInv, IdenDone
  <2>4. FileOK' /\ GroupOK' /\ RunsOK'
    BY <2>1, <2>2, <2>3 DEF BaseInv, FileOK, GroupOK, RunsOK, Types, Names, Well
  <2>5. \A f : BoxOK(f)' = BoxOK(f)
    BY <2>1 DEF BoxOK
  <2>6. ProgOK'
    BY <2>1, <2>2, <2>3, <2>5 DEF BaseInv, ProgOK, Types, Names, ParamGroups, FirstNew
  <2>7. QED
    BY <2>3, <2>4, <2>6 DEF BaseInv
<1>2. CASE IdenStep /\ UNCHANGED hdfVars
  BY <1>2, IdenBase
<1>3. CASE Starts /\ UNCHANGED idenVars
  BY <1>3, StartsBegin, BeginsBase
<1>4. CASE Writes /\ UNCHANGED idenVars
  BY <1>4, OpenFileBase, WriteRootBase, OpenGroupBase, WriteMetaBase, StoreParticlesBase,
     CloseGroupBase, WriteListBase DEF Writes
<1>5. CASE Fails /\ UNCHANGED idenVars
  BY <1>5, OpenFileFailsBase, WriteRootBase, OpenGroupBase, CloseGroupBase, WriteListBase DEF Fails
<1>6. CASE Ends /\ UNCHANGED idenVars
  BY <1>6, EndsBase
<1>7. QED
  BY <1>1, <1>2, <1>3, <1>4, <1>5, <1>6 DEF HdfNext

\* The file, the program and its buffers agree with each other in every state:
\* see BaseInv.
THEOREM BaseInvAlways == HdfSpec => []BaseInv
<1>1. HdfInit => BaseInv
  BY BaseInvInit
<1>2. BaseInv /\ [HdfNext]_<<idenVars, hdfVars>> => BaseInv'
  BY BaseInvStep
<1>3. QED
  BY <1>1, <1>2, PTL DEF HdfSpec

-----------------------------------------------------------------------------
(* What a step of a program does, to the program and to the file              *)

\* A program that stays at its frame, throws, goes to pc, or changes data sets only.
SameFrame == GoesOn /\ prog'.frame = prog.frame /\ wrapper' = wrapper
Threw == prog'.pc = "thrown" /\ prog'.err # "none" /\ prog'.at = prog.pc /\ prog'.outside = prog.outside
Went(pc) == prog'.pc = pc /\ prog'.err = "none" /\ prog'.outside = prog.outside /\ prog.err = "none"
FileButData == /\ file'.state = file.state /\ file'.planes = file.planes /\ file'.params = file.params
               /\ file'.lists = file.lists /\ file'.frames = file.frames /\ file'.attrs = file.attrs

\* What each step of a program does where it succeeds and where it fails, in the words
\* the invariants need: opening the file,
LEMMA OpenStep ==
    ASSUME BaseInv, OpenFile \/ OpenFileFails, UNCHANGED idenVars
    PROVE  /\ SameFrame /\ prog.pc = "open" /\ group' = group
           /\ Went("root") \/ Threw
           /\ \/ file' = file /\ Threw
              \/ \E T \in SUBSET Types :
                    /\ Went("root") => T = Types
                    /\ IF Appends THEN file.state = "good" ELSE file.state = "absent"
                    /\ ParamGroups(T) \cap file.params = {}
                    /\ file'.state = "good"
                    /\ file'.params = IF Appends THEN file.params \cup ParamGroups(T) ELSE ParamGroups(T)
                    /\ file'.lists = IF Appends THEN file.lists ELSE {}
                    /\ file'.planes = IF Appends THEN file.planes ELSE 0
                    /\ file'.frames = IF Appends THEN file.frames ELSE {}
                    /\ file'.attrs = IF Appends THEN file.attrs ELSE <<>>
                    /\ file'.data = IF Appends THEN file.data ELSE <<>>
<1>1. /\ prog # Nobody /\ prog.pc = "open" /\ ProgOK /\ FileOK /\ prog.err = "none"
      /\ UNCHANGED <<idenVars, box, runs>> /\ group' = group /\ wrapper' = wrapper
  BY DEF OpenFile, OpenFileFails, At, BaseInv, ProgOK, idenVars
<1>2. NFramesOut' = NFramesOut
  BY WantedFixed DEF idenVars
<1>3. CASE OpenFile
  <2>1. SameFrame /\ Went("root")
    BY <1>1, <1>3, GotoIs DEF OpenFile, SameFrame, Went
  <2>2. CanOpen /\ file' = Opened(Types) /\ ParamGroups(Types) \cap file.params = {}
    BY <1>3 DEF OpenFile
  <2>3. QED
    BY <1>1, <1>2, <2>1, <2>2, OpenedIs DEF CanOpen
<1>4. CASE OpenFileFails
  <2>1. PICK kind \in {"std", "h5"} : Throw(kind)
    BY <1>4 DEF OpenFileFails
  <2>2. SameFrame /\ Threw /\ ~Went("root")
    BY <1>1, <2>1, ThrowIs DEF SameFrame, Threw, Went
  <2>3. CASE file' = file
    BY <1>1, <2>2, <2>3
  <2>4. CASE \E n : CanOpen /\ ParamGroups(Below(Types, n)) \cap file.params = {} /\ file' = Opened(Below(Types, n))
    <3>1. PICK n : CanOpen /\ ParamGroups(Below(Types, n)) \cap file.params = {} /\ file' = Opened(Below(Types, n))
      BY <2>4
    <3>2. Below(Types, n) \in SUBSET Types
      BY BelowIs
    <3>3. QED
      BY <1>1, <1>2, <2>2, <3>1, <3>2, OpenedIs DEF CanOpen
  <2>5. QED
    BY <1>4, <2>3, <2>4 DEF OpenFileFails
<1>5. QED
  BY <1>3, <1>4

\* the attributes of the root,
LEMMA RootStep ==
    ASSUME BaseInv, WriteRoot \/ WriteRootFails, UNCHANGED idenVars
    PROVE  /\ SameFrame /\ prog.pc = "root" /\ group' = group
           /\ \/ Went("group") /\ file'.planes = NFramesOut
              \/ Threw /\ file'.planes = file.planes
           /\ file'.data = file.data /\ file'.state = file.state /\ file'.params = file.params
           /\ file'.lists = file.lists /\ file'.frames = file.frames /\ file'.attrs = file.attrs
<1>1. /\ prog # Nobody /\ prog.pc = "root" /\ ProgOK /\ FileOK /\ prog.err = "none" /\ Len(box) = NFramesOut
      /\ UNCHANGED <<idenVars, box, runs>> /\ group' = group /\ wrapper' = wrapper
  BY DEF WriteRoot, WriteRootFails, At, BaseInv, ProgOK, idenVars
<1>2. NFramesOut' = NFramesOut
  BY WantedFixed DEF idenVars
<1>3. CASE WriteRoot
  <2>1. SameFrame /\ Went("group")
    BY <1>1, <1>3, GotoIs DEF WriteRoot, SameFrame, Went
  <2>2. PICK v : v = NFramesOut /\ file' = [file EXCEPT !.planes = v]
    BY <1>1, <1>3 DEF WriteRoot
  <2>3. /\ file'.state = file.state /\ file'.params = file.params /\ file'.data = file.data
        /\ file'.frames = file.frames /\ file'.lists = file.lists /\ file'.attrs = file.attrs
        /\ file'.planes = v
    BY <1>1, <1>2, <2>2, AsideIs
  <2>4. QED
    BY <1>1, <2>1, <2>2, <2>3
<1>4. CASE WriteRootFails
  <2>1. PICK kind \in {"std", "h5"} : Throw(kind)
    BY <1>4 DEF WriteRootFails
  <2>2. SameFrame /\ Threw
    BY <1>1, <2>1, ThrowIs DEF SameFrame, Threw
  <2>3. file' = file
    BY <1>4 DEF WriteRootFails
  <2>4. QED
    BY <1>1, <2>2, <2>3
<1>5. QED
  BY <1>3, <1>4

\* the group of a frame, some of whose data sets may be made before one fails,
LEMMA GroupStep ==
    ASSUME BaseInv, OpenGroup \/ OpenGroupFails, UNCHANGED idenVars
    PROVE  /\ SameFrame /\ prog.pc = "group" /\ prog.frame \in 1 .. NFramesOut
           /\ file.state = "good" /\ file'.state = "good" /\ file'.params = file.params
           /\ file'.planes = file.planes /\ file'.lists = file.lists
           /\ file'.frames = file.frames \cup {prog.frame}
           /\ file'.attrs = Over(file.attrs, [g \in {prog.frame} |-> {}])
           /\ Appends <=> prog.frame \in file.frames
           /\ \E T \in SUBSET Types :
                /\ \/ Threw /\ group' = group
                   \/ /\ Went("meta") /\ T = Types
                      /\ group' = [open |-> TRUE, added |-> 0,
                              vals |-> [t \in Types |-> [i \in 0 .. prog.size[prog.frame] - 1 |-> BufferValue]]]
                /\ DOMAIN file'.data = DOMAIN file.data \cup Names(prog.frame, T)
                /\ \A d \in DOMAIN file.data : file'.data[d] = file.data[d] /\ d \notin Names(prog.frame, T)
                /\ \A d \in Names(prog.frame, T) :
                        file'.data[d] = [i \in 0 .. prog.size[prog.frame] - 1 |-> FillValue]
<1>1. /\ prog # Nobody /\ prog.pc = "group" /\ ProgOK /\ GroupOK /\ FileOK
      /\ UNCHANGED <<idenVars, box, runs>> /\ wrapper' = wrapper
      /\ prog.frame <= NFramesOut
  BY DEF OpenGroup, OpenGroupFails, At, BaseInv, ProgOK, idenVars
<1>2. /\ prog.err = "none" /\ prog.frame \in 1 .. NFramesOut
      /\ file.state = "good" /\ ParamGroups(Types) \subseteq file.params
  BY <1>1, NFramesType DEF ProgOK, BaseInv, IdenInv, InOrder, Writing
<1>3. prog.size[prog.frame] \in Nat \ {0}
  BY <1>1, <1>2 DEF ProgOK, BoxOK
<1>4. NFramesOut' = NFramesOut
  BY WantedFixed DEF idenVars
<1>5. PICK T \in SUBSET Types :
        /\ CanMake(prog.frame, T) /\ file' = WithFrame(prog.frame, T)
        /\ \/ /\ T = Types /\ OpenGroup
           \/ Throw("h5") /\ group' = group
  <2>1. CASE OpenGroup
    BY <2>1 DEF OpenGroup
  <2>2. CASE OpenGroupFails
    BY <2>2, BelowIs DEF OpenGroupFails
  <2>3. QED
    BY <2>1, <2>2
<1>6. /\ SameFrame
      /\ \/ Threw /\ group' = group
         \/ /\ Went("meta") /\ T = Types
            /\ group' = [open |-> TRUE, added |-> 0,
                    vals |-> [t \in Types |-> [i \in 0 .. prog.size[prog.frame] - 1 |-> BufferValue]]]
  <2>1. CASE T = Types /\ OpenGroup
    BY <1>1, <1>2, <2>1, GotoIs DEF OpenGroup, SameFrame, Went
  <2>2. CASE Throw("h5") /\ group' = group
    BY <1>1, <2>2, ThrowIs DEF SameFrame, Threw
  <2>3. QED
    BY <1>5, <2>1, <2>2
<1>7. ParamGroups(T) \subseteq file.params
  BY <1>2 DEF ParamGroups
<1>8. Appends <=> prog.frame \in file.frames
  BY <1>5 DEF CanMake
<1>9. QED
  BY <1>1, <1>2, <1>3, <1>4, <1>5, <1>6, <1>7, <1>8, MadeIs

\* the parameters of a frame, which may be refused,
LEMMA MetaStep ==
    ASSUME BaseInv, WriteMeta, UNCHANGED idenVars
    PROVE  /\ SameFrame /\ prog.pc = "meta" /\ group' = group /\ prog.frame \in 1 .. NFramesOut
           /\ IF Takes(file.attrs[prog.frame], prog.md[prog.frame]) THEN Went("store")
              ELSE Threw /\ prog'.err = "std"
           /\ file'.data = file.data /\ file'.state = file.state /\ file'.params = file.params
           /\ file'.planes = file.planes /\ file'.lists = file.lists /\ file'.frames = file.frames
           /\ file'.attrs = [file.attrs EXCEPT ![prog.frame] = AddMetaStore(@, prog.md[prog.frame])]
<1>1. /\ prog # Nobody /\ prog.pc = "meta" /\ ProgOK /\ FileOK /\ prog.err = "none" /\ prog.frame \in 1 .. NFramesOut
      /\ UNCHANGED <<idenVars, box, runs>> /\ group' = group /\ wrapper' = wrapper
  BY NFramesType DEF WriteMeta, At, BaseInv, ProgOK, Writing, IdenInv, idenVars
<1>2. NFramesOut' = NFramesOut
  BY WantedFixed DEF idenVars
<1>3. SameFrame /\ IF Takes(file.attrs[prog.frame], prog.md[prog.frame]) THEN Went("store")
                   ELSE Threw /\ prog'.err = "std"
  <2>1. CASE Takes(file.attrs[prog.frame], prog.md[prog.frame])
    BY <1>1, <2>1, GotoIs DEF WriteMeta, SameFrame, Went
  <2>2. CASE ~Takes(file.attrs[prog.frame], prog.md[prog.frame])
    BY <1>1, <2>2, ThrowIs DEF WriteMeta, SameFrame, Threw
  <2>3. QED
    BY <2>1, <2>2
<1>4. PICK f : f = prog.frame
  OBVIOUS
<1>5. PICK v : v = [file.attrs EXCEPT ![f] = AddMetaStore(@, prog.md[f])]
  OBVIOUS
<1>6. file' = [file EXCEPT !.attrs = v]
  <2>1. file' = [file EXCEPT !.attrs[f] = AddMetaStore(@, prog.md[f])]
    BY <1>4 DEF WriteMeta
  <2>2. QED
    BY <1>5, <2>1
<1>7. /\ file'.state = file.state /\ file'.params = file.params /\ file'.data = file.data
      /\ file'.frames = file.frames /\ file'.planes = file.planes /\ file'.lists = file.lists
      /\ file'.attrs = v
  BY <1>1, <1>2, <1>6, AsideIs
<1>8. QED
  BY <1>1, <1>3, <1>4, <1>5, <1>7

\* closing the group, where some of the buffers may be written before one fails,
LEMMA CloseStep ==
    ASSUME BaseInv, CloseGroup \/ CloseGroupFails, UNCHANGED idenVars
    PROVE  /\ GoesOn /\ wrapper' = wrapper /\ prog.pc = "close" /\ prog.frame \in 1 .. NFramesOut
           /\ file.state = "good" /\ FileButData
           /\ DOMAIN file'.data = DOMAIN file.data
           /\ \E T \in SUBSET Types :
                /\ \/ Threw /\ group' = group /\ prog'.frame = prog.frame
                   \/ Went("group") /\ group' = Closed /\ prog'.frame = prog.frame + 1 /\ T = Types
                /\ \A d \in DOMAIN file.data :
                     /\ DOMAIN file'.data[d] = DOMAIN file.data[d]
                     /\ d \notin Names(prog.frame, T) => file'.data[d] = file.data[d]
                /\ \A t \in T : file'.data[<<prog.frame, t, prog.key>>] = group.vals[t]
<1>1. /\ prog # Nobody /\ prog.pc = "close" /\ ProgOK /\ GroupOK /\ FileOK /\ DOMAIN prog = ProgFields
      /\ UNCHANGED <<idenVars, box, runs>> /\ wrapper' = wrapper
  BY DEF CloseGroup, CloseGroupFails, At, BaseInv, ProgOK, idenVars
<1>2. /\ prog.err = "none" /\ prog.frame \in 1 .. NFramesOut /\ file.state = "good" /\ group.open
  BY <1>1, NFramesType DEF ProgOK, BaseInv, IdenInv, InOrder, Writing
<1>3. NFramesOut' = NFramesOut
  BY WantedFixed DEF idenVars
<1>4. CASE CloseGroup
  <2>1. prog' = [prog EXCEPT !.pc = "group", !.frame = @ + 1]
    BY <1>4 DEF CloseGroup
  <2>2. GoesOn /\ Went("group") /\ prog'.frame = prog.frame + 1
    BY <1>1, <1>2, <2>1 DEF GoesOn, ProgFields, ProgOK, Nobody, Kinds, Went
  <2>3. file' = Written(Types) /\ group' = Closed
    BY <1>4 DEF CloseGroup
  <2>4. QED
    BY <1>1, <1>2, <1>3, <2>2, <2>3, WrittenIs DEF FileButData
<1>5. CASE CloseGroupFails
  <2>1. PICK kind \in {"std", "h5"} : Throw(kind)
    BY <1>5 DEF CloseGroupFails
  <2>2. SameFrame /\ Threw
    BY <1>1, <2>1, ThrowIs DEF SameFrame, Threw
  <2>3. group' = group
    BY <1>5 DEF CloseGroupFails
  <2>4. CASE file' = file
    BY <1>1, <1>2, <2>2, <2>3, <2>4, {} \in SUBSET Types DEF FileButData, SameFrame
  <2>5. CASE \E n : file' = Written(Below(Types, n))
    <3>1. PICK T \in SUBSET Types : file' = Written(T)
      BY <2>5, BelowIs
    <3>2. QED
      BY <1>1, <1>2, <1>3, <2>2, <2>3, <3>1, WrittenIs DEF FileButData, SameFrame
  <2>6. QED
    BY <1>5, <2>4, <2>5 DEF CloseGroupFails
<1>6. QED
  BY <1>4, <1>5

\* and the lists of parameters.
LEMMA ListStep ==
    ASSUME BaseInv, WriteList \/ WriteListFails, UNCHANGED idenVars
    PROVE  /\ SameFrame /\ prog.pc = "group" /\ prog.frame = NFramesOut + 1 /\ group' = group
           /\ \/ Went("done") /\ file'.lists = file.lists \cup ParamGroups(Types)
              \/ Threw /\ file.lists \subseteq file'.lists
           /\ file'.data = file.data /\ file'.state = file.state /\ file'.params = file.params
           /\ file'.planes = file.planes /\ file'.frames = file.frames /\ file'.attrs = file.attrs
<1>1. /\ prog # Nobody /\ prog.pc = "group" /\ ProgOK /\ FileOK /\ prog.err = "none" /\ prog.frame > NFramesOut
      /\ UNCHANGED <<idenVars, box, runs>> /\ group' = group /\ wrapper' = wrapper
  BY DEF WriteList, WriteListFails, At, BaseInv, ProgOK, idenVars
<1>2. NFramesOut' = NFramesOut /\ prog.frame = NFramesOut + 1
  BY <1>1, WantedFixed, NFramesType DEF idenVars, ProgOK, BaseInv, IdenInv
<1>3. PICK v : /\ file' = [file EXCEPT !.lists = v]
               /\ \/ Goto("done") /\ v = file.lists \cup ParamGroups(Types)
                  \/ Throw("h5") /\ file.lists \subseteq v
  <2>1. CASE WriteList
    BY <2>1 DEF WriteList
  <2>2. CASE WriteListFails
    BY <2>2 DEF WriteListFails
  <2>3. QED
    BY <2>1, <2>2
<1>4. SameFrame /\ (Goto("done") => Went("done")) /\ (Throw("h5") => Threw)
  BY <1>1, <1>3, GotoIs, ThrowIs DEF SameFrame, Went, Threw
<1>5. /\ file'.state = file.state /\ file'.params = file.params /\ file'.data = file.data
      /\ file'.frames = file.frames /\ file'.planes = file.planes /\ file'.attrs = file.attrs
      /\ file'.lists = v
  BY <1>1, <1>2, <1>3, AsideIs
<1>6. QED
  BY <1>1, <1>2, <1>3, <1>4, <1>5

-----------------------------------------------------------------------------
(* What a run saved                                                           *)

\* The arrays of a frame hold the particles K, or all n that were found.
ArraysRight(kind, D, K, n) ==
    \A t \in TypesOf(kind) :
        IF kind = "process"
        THEN /\ \A i \in DOMAIN D[t] : \A u \in TypesOf("process") : D[t][i] = D[u][i]
             /\ 1 .. n \subseteq {D[t][i] : i \in DOMAIN D[t]}
        ELSE /\ \A p \in K : p.ind \in DOMAIN D[t] /\ D[t][p.ind] = p.val[t]
             /\ \A i \in DOMAIN D[t] : D[t][i] = BufferValue \/ \E p \in K : p.ind = i

\* The particles K of frame f, or all that were found, are in the data sets of a run.
FrameSaved(kind, key, f, K) ==
    /\ \A t \in TypesOf(kind) : <<f, t, key>> \in DOMAIN file.data
    /\ ArraysRight(kind, [t \in TypesOf(kind) |-> file.data[<<f, t, key>>]], K, wrapper[f].found)

\* The particles the program holds of frame f.
Held(f) == {box[f][n] : n \in 1 .. Len(box[f])}

\* What a run that succeeded saved is there; a program that writes has saved the
\* frames before its own, and the buffers of its own go from empty to right.
SavedInv ==
    /\ file.state = "good" =>
        \A r \in Well : \A f \in DOMAIN r.kept : FrameSaved(r.kind, r.key, f, r.kept[f])
    /\ prog # Nobody =>
        /\ prog.pc \in InOrder =>
            \A f \in 1 .. prog.frame - 1 : FrameSaved(prog.kind, prog.key, f, Held(f))
        /\ prog.pc \in {"meta", "store"} =>
            \A t \in Types : \A i \in DOMAIN group.vals[t] : group.vals[t][i] = BufferValue
        /\ prog.pc = "close" =>
            ArraysRight(prog.kind, group.vals, Held(prog.frame), wrapper[prog.frame].found)

\* A frame that is saved stays saved while its data sets stay.
LEMMA SavedStays ==
    ASSUME NEW kind, NEW key, NEW f, NEW K, wrapper' = wrapper, FrameSaved(kind, key, f, K),
           \A t \in TypesOf(kind) : /\ <<f, t, key>> \in DOMAIN file'.data
                                    /\ file'.data[<<f, t, key>>] = file.data[<<f, t, key>>]
    PROVE  FrameSaved(kind, key, f, K)'
<1> DEFINE D == [t \in TypesOf(kind) |-> file.data[<<f, t, key>>]]
<1>1. D' = D
  OBVIOUS
<1>2. ArraysRight(kind, D, K, wrapper[f].found)
  BY DEF FrameSaved
<1> HIDE DEF D
<1>3. ArraysRight(kind, D', K, wrapper'[f].found)
  BY <1>1, <1>2
<1>4. QED
  BY <1>3 DEF FrameSaved, D

\* A step of a program leaves all but the data sets of its frame.
OthersStay ==
    /\ wrapper' = wrapper
    /\ file'.state = "good" =>
        /\ file.state = "good" \/ Well = {}
        /\ \A d \in DOMAIN file.data : d[1] # prog.frame \/ d[3] # prog.key =>
                d \in DOMAIN file'.data /\ file'.data[d] = file.data[d]

\* A program that leaves the data sets of other keys leaves what other runs saved.
LEMMA OthersSaved ==
    ASSUME BaseInv, SavedInv, prog # Nobody, OthersStay
    PROVE  file'.state = "good" =>
               \A r \in Well : \A f \in DOMAIN r.kept : FrameSaved(r.kind, r.key, f, r.kept[f])'
<1> SUFFICES ASSUME file'.state = "good", NEW r \in Well, NEW f \in DOMAIN r.kept
             PROVE  FrameSaved(r.kind, r.key, f, r.kept[f])'
  OBVIOUS
<1>1. FrameSaved(r.kind, r.key, f, r.kept[f])
  BY DEF OthersStay, SavedInv
<1>2. r.key # prog.key
  BY DEF BaseInv, RunsOK, Well
<1>3. ASSUME NEW t \in TypesOf(r.kind)
      PROVE  /\ <<f, t, r.key>> \in DOMAIN file'.data
             /\ file'.data[<<f, t, r.key>>] = file.data[<<f, t, r.key>>]
  <2>1. <<f, t, r.key>> \in DOMAIN file.data /\ <<f, t, r.key>>[3] = r.key
    BY <1>1 DEF FrameSaved
  <2>2. QED
    BY <1>2, <2>1 DEF OthersStay
<1>4. QED
  BY <1>1, <1>3, SavedStays DEF OthersStay

\* Frames that are done stay, and those a program starts with.
LEMMA GoesOnSaved ==
    ASSUME BaseInv, SavedInv, GoesOn, OthersStay, NEW fr, fr = prog.frame,
           prog'.pc \in InOrder =>
               \/ prog'.frame = 1 /\ prog.frame = 1
               \/ /\ prog.pc \in InOrder /\ file'.state = "good"
                  /\ \/ prog'.frame = prog.frame
                     \/ /\ prog'.frame = prog.frame + 1
                        /\ FrameSaved(prog.kind, prog.key, fr, Held(fr))',
           prog'.pc \in {"meta", "store"} =>
               \A t \in Types : \A i \in DOMAIN group'.vals[t] : group'.vals[t][i] = BufferValue,
           prog'.pc = "close" =>
               ArraysRight(prog.kind, group'.vals, Held(prog.frame), wrapper[prog.frame].found)
               /\ prog'.frame = prog.frame
    PROVE  SavedInv'
<1>1. /\ prog # Nobody /\ prog' # Nobody /\ wrapper' = wrapper /\ UNCHANGED <<box, runs>>
      /\ prog'.kind = prog.kind /\ prog'.key = prog.key
  BY DEF GoesOn, idenVars
<1>2. Well' = Well /\ Types' = Types /\ NFramesOut' = NFramesOut
  BY GoesOnKeeps
<1>3. file'.state = "good" =>
          \A r \in Well' : \A f \in DOMAIN r.kept : FrameSaved(r.kind, r.key, f, r.kept[f])'
  BY <1>1, <1>2, OthersSaved
<1>4. ASSUME prog'.pc \in InOrder, NEW f \in 1 .. prog'.frame - 1
      PROVE  FrameSaved(prog.kind, prog.key, f, Held(f))'
  <2>1. prog.frame \in Nat /\ (prog'.frame = prog.frame + 1 \/ prog'.frame = prog.frame)
    BY <1>1, <1>4 DEF BaseInv, ProgOK
  <2>2. CASE f = prog.frame
    <3>1. prog'.frame = prog.frame + 1 /\ fr = f
      BY <1>4, <2>1, <2>2
    <3>2. prog.frame # prog'.frame /\ prog'.frame # 1
      BY <1>4, <2>1, <2>2, <3>1
    <3>3. QED
      BY <1>4, <3>1, <3>2
  <2>3. CASE f # prog.frame
    <3>1. f \in 1 .. prog.frame - 1 /\ prog.pc \in InOrder /\ file'.state = "good"
      BY <1>4, <2>1, <2>3
    <3>2. FrameSaved(prog.kind, prog.key, f, Held(f))
      BY <1>1, <3>1 DEF SavedInv
    <3>3. PICK kind, key, K : kind = prog.kind /\ key = prog.key /\ K = Held(f)
      OBVIOUS
    <3>4. FrameSaved(kind, key, f, K)
      BY <3>2, <3>3
    <3>5. \A t \in TypesOf(kind) : /\ <<f, t, key>> \in DOMAIN file'.data
                                   /\ file'.data[<<f, t, key>>] = file.data[<<f, t, key>>]
      BY <2>3, <3>1, <3>4 DEF OthersStay, FrameSaved
    <3>6. FrameSaved(kind, key, f, K)'
      BY <1>1, <3>4, <3>5, SavedStays
    <3>7. kind = prog'.kind /\ key = prog'.key /\ K = Held(f)'
      BY <1>1, <3>3 DEF Held
    <3>8. QED
      BY <3>6, <3>7 DEF FrameSaved
  <2>4. QED
    BY <2>2, <2>3
<1>5. prog'.frame = prog.frame => Held(prog.frame)' = Held(prog.frame)
  BY <1>1 DEF Held
<1>6. prog'.pc = "close" => ArraysRight(prog'.kind, group'.vals, Held(prog.frame)', wrapper'[prog'.frame].found)
  BY <1>1, <1>5
<1>7. QED
  BY <1>1, <1>2, <1>3, <1>4, <1>6 DEF SavedInv

\* The particles of a new file go one after the other.
LEMMA StoredInTurn ==
    ASSUME prog.kind = "process", NEW t, NEW i \in Nat, Len(box[prog.frame]) \in Nat
    PROVE  StoredVal(t, i) = IF i + 1 <= Len(box[prog.frame]) THEN box[prog.frame][i + 1].val[t]
                             ELSE group.vals[t][i]
<1> DEFINE L == Len(box[prog.frame])
           H == {n \in 1 .. L : Index(box[prog.frame][n], n) = i}
<1>1. \A n \in 1 .. L : Index(box[prog.frame][n], n) = n - 1
  BY DEF Index, Appends
<1>2. H = {n \in 1 .. L : n - 1 = i}
  BY <1>1
<1>3. StoredVal(t, i) = IF H = {} THEN group.vals[t][i] ELSE box[prog.frame][Max(H)].val[t]
  BY DEF StoredVal
<1>4. CASE i + 1 <= L
  <2>1. \A n \in 1 .. L : n - 1 = i <=> n = i + 1
    OBVIOUS
  <2>2. H = {i + 1}
    BY <1>2, <1>4, <2>1
  <2> HIDE DEF H
  <2>3. IsFiniteSet(H)
    BY <2>2, FS_Singleton
  <2>4. H \in SUBSET Nat /\ H # {}
    BY <2>2
  <2>5. Max(H) \in H
    BY <2>3, <2>4, MaxIs
  <2>6. QED
    BY <1>3, <1>4, <2>2, <2>5
<1>5. CASE ~(i + 1 <= L)
  <2>1. H = {}
    BY <1>2, <1>5
  <2>2. QED
    BY <1>3, <1>5, <2>1
<1>6. QED
  BY <1>4, <1>5

\* Those of a file that is there go to their own places.
LEMMA StoredByIndex ==
    ASSUME prog.kind # "process", NEW t, NEW i \in Nat, Len(box[prog.frame]) \in Nat,
           \A l, m \in 1 .. Len(box[prog.frame]) :
               box[prog.frame][l].ind = box[prog.frame][m].ind => box[prog.frame][l] = box[prog.frame][m]
    PROVE  /\ \A n \in 1 .. Len(box[prog.frame]) :
                box[prog.frame][n].ind = i => StoredVal(t, i) = box[prog.frame][n].val[t]
           /\ (\A n \in 1 .. Len(box[prog.frame]) : box[prog.frame][n].ind # i) =>
                StoredVal(t, i) = group.vals[t][i]
<1> DEFINE L == Len(box[prog.frame])
           b == box[prog.frame]
           H == {n \in 1 .. L : Index(box[prog.frame][n], n) = i}
<1>1. \A n \in 1 .. L : Index(b[n], n) = b[n].ind
  BY DEF Index, Appends
<1>2. \A n \in 1 .. L : n \in H <=> b[n].ind = i
  BY <1>1
<1>3. StoredVal(t, i) = IF H = {} THEN group.vals[t][i] ELSE b[Max(H)].val[t]
  BY DEF StoredVal
<1>4. H \in SUBSET (1 .. L) /\ IsFiniteSet(H) /\ H \in SUBSET Nat
  <2>1. H \in SUBSET (1 .. L) /\ IsFiniteSet(1 .. L)
    BY FS_Interval
  <2> HIDE DEF H
  <2>2. IsFiniteSet(H)
    BY <2>1, FS_Subset
  <2>3. QED
    BY <2>1, <2>2
<1> HIDE DEF H, b
<1>5. ASSUME NEW n \in 1 .. L, b[n].ind = i
      PROVE  StoredVal(t, i) = b[n].val[t]
  <2>1. H # {}
    BY <1>2, <1>5
  <2>2. Max(H) \in H
    BY <1>4, <2>1, MaxIs
  <2>3. Max(H) \in 1 .. L /\ b[Max(H)].ind = i
    BY <1>2, <1>4, <2>2
  <2>4. b[Max(H)] = b[n]
    BY <1>5, <2>3 DEF b
  <2>5. QED
    BY <1>3, <2>1, <2>4
<1>6. ASSUME \A n \in 1 .. L : b[n].ind # i
      PROVE  StoredVal(t, i) = group.vals[t][i]
  <2>1. H = {}
    BY <1>2, <1>4, <1>6
  <2>2. QED
    BY <1>3, <2>1
<1>7. QED
  BY <1>5, <1>6 DEF b

\* Storing the particles of a frame makes its buffers right.
LEMMA StoredRight ==
    ASSUME BaseInv, SavedInv, StoreParticles, UNCHANGED idenVars
    PROVE  ArraysRight(prog.kind, group'.vals, Held(prog.frame), wrapper[prog.frame].found)
<1>1. /\ prog # Nobody /\ prog.pc = "store" /\ ProgOK /\ GroupOK /\ group.open
      /\ group'.vals = [t \in Types |-> [i \in DOMAIN group.vals[t] |-> StoredVal(t, i)]]
  <2>1. prog # Nobody /\ prog.pc = "store" /\ ProgOK /\ GroupOK
    BY DEF StoreParticles, At, BaseInv
  <2>2. QED
    BY <2>1, StoredIs
<1>2. prog.frame \in 1 .. NFramesOut
  BY <1>1, NFramesType DEF ProgOK, Writing, BaseInv, IdenInv
<1>3. BoxOK(prog.frame)
  BY <1>1, <1>2 DEF ProgOK
<1>4. PICK f, b, L, size, D, found :
          f = prog.frame /\ b = box[f] /\ L = Len(b) /\ size = prog.size[f] /\ D = group'.vals /\ found = wrapper[f].found
  OBVIOUS
<1>5. L \in Nat /\ DOMAIN b = 1 .. L /\ size \in Nat \ {0}
  BY <1>3, <1>4 DEF BoxOK
<1>6. \A t \in Types : DOMAIN group.vals[t] = 0 .. size - 1
  BY <1>1, <1>4 DEF GroupOK
<1>7. \A t \in Types : /\ DOMAIN D[t] = 0 .. size - 1
                       /\ \A i \in 0 .. size - 1 : D[t][i] = StoredVal(t, i)
  <2>1. SUFFICES ASSUME NEW t \in Types
                 PROVE  /\ DOMAIN D[t] = 0 .. size - 1
                        /\ \A i \in 0 .. size - 1 : D[t][i] = StoredVal(t, i)
    OBVIOUS
  <2>2. D[t] = [i \in DOMAIN group.vals[t] |-> StoredVal(t, i)]
    BY <1>1, <1>4
  <2>3. D[t] = [i \in 0 .. size - 1 |-> StoredVal(t, i)]
    BY <1>6, <2>2
  <2>4. QED
    BY <2>3
<1>8. \A t \in Types : \A i \in 0 .. size - 1 : group.vals[t][i] = BufferValue
  BY <1>1, <1>6 DEF SavedInv
<1>9. CASE prog.kind = "process"
  <2>1. /\ L <= size
        /\ \A m \in 1 .. L : b[m].val[DX] = b[m].val[XPOS]
        /\ \A i \in 1 .. found : \E m \in 1 .. L : b[m].val[XPOS] = i
    BY <1>3, <1>4, <1>9 DEF BoxOK
  <2>2. Types = {XPOS, DX} /\ TypesOf("process") = {XPOS, DX}
    BY <1>9 DEF Types, TypesOf
  <2>3. \A t \in Types : \A i \in 0 .. size - 1 :
            D[t][i] = IF i + 1 <= L THEN b[i + 1].val[XPOS] ELSE BufferValue
    <3>1. SUFFICES ASSUME NEW t \in Types, NEW i \in 0 .. size - 1
                   PROVE  D[t][i] = IF i + 1 <= L THEN b[i + 1].val[XPOS] ELSE BufferValue
      OBVIOUS
    <3>2. StoredVal(t, i) = IF i + 1 <= L THEN b[i + 1].val[t] ELSE group.vals[t][i]
      BY <1>4, <1>5, <1>9, StoredInTurn
    <3>3. i + 1 <= L => b[i + 1].val[t] = b[i + 1].val[XPOS]
      BY <1>5, <2>1, <2>2
    <3>4. QED
      BY <1>7, <1>8, <3>2, <3>3
  <2>4. ASSUME NEW t \in Types, NEW i \in 1 .. found
        PROVE  i \in {D[t][j] : j \in DOMAIN D[t]}
    <3>1. PICK m \in 1 .. L : b[m].val[XPOS] = i
      BY <2>1
    <3>2. m - 1 \in 0 .. size - 1 /\ m - 1 + 1 = m /\ m <= L
      BY <1>5, <2>1
    <3>3. D[t][m - 1] = i /\ m - 1 \in DOMAIN D[t]
      BY <1>7, <2>3, <3>1, <3>2
    <3>4. QED
      BY <3>3
  <2>5. \A t, u \in Types : \A i \in DOMAIN D[t] : D[t][i] = D[u][i]
    BY <1>7, <2>3
  <2>6. QED
    BY <1>4, <1>9, <2>2, <2>4, <2>5 DEF ArraysRight, Types
<1>10. CASE prog.kind # "process"
  <2>1. /\ \A m \in 1 .. L : b[m].ind \in 0 .. size - 1
        /\ \A l, m \in 1 .. L : b[l].ind = b[m].ind => b[l] = b[m]
    BY <1>3, <1>4, <1>10 DEF BoxOK
  <2>2. \A t \in Types : \A i \in 0 .. size - 1 :
            /\ \A n \in 1 .. L : b[n].ind = i => D[t][i] = b[n].val[t]
            /\ (\A n \in 1 .. L : b[n].ind # i) => D[t][i] = BufferValue
    <3>1. SUFFICES ASSUME NEW t \in Types, NEW i \in 0 .. size - 1
                   PROVE  /\ \A n \in 1 .. L : b[n].ind = i => D[t][i] = b[n].val[t]
                          /\ (\A n \in 1 .. L : b[n].ind # i) => D[t][i] = BufferValue
      OBVIOUS
    <3>2. /\ \A n \in 1 .. L : b[n].ind = i => StoredVal(t, i) = b[n].val[t]
          /\ (\A n \in 1 .. L : b[n].ind # i) => StoredVal(t, i) = group.vals[t][i]
      BY <1>4, <1>5, <1>10, <2>1, StoredByIndex
    <3>3. QED
      BY <1>7, <1>8, <3>2
  <2>3. \A p \in Held(f) : \E n \in 1 .. L : p = b[n]
    BY <1>4 DEF Held
  <2>4. \A n \in 1 .. L : b[n] \in Held(f)
    BY <1>4 DEF Held
  <2>5. \A t \in Types : \A p \in Held(f) : p.ind \in DOMAIN D[t] /\ D[t][p.ind] = p.val[t]
    <3>1. SUFFICES ASSUME NEW t \in Types, NEW p \in Held(f)
                   PROVE  p.ind \in DOMAIN D[t] /\ D[t][p.ind] = p.val[t]
      OBVIOUS
    <3>2. PICK n \in 1 .. L : p = b[n]
      BY <2>3
    <3>3. b[n].ind \in 0 .. size - 1
      BY <2>1
    <3>4. D[t][b[n].ind] = b[n].val[t]
      BY <2>2, <3>3
    <3>5. QED
      BY <1>7, <3>2, <3>3, <3>4
  <2>6. \A t \in Types : \A i \in DOMAIN D[t] : D[t][i] = BufferValue \/ \E p \in Held(f) : p.ind = i
    BY <1>7, <2>2, <2>4
  <2>7. QED
    BY <1>4, <1>10, <2>5, <2>6 DEF ArraysRight, Types
<1>11. QED
  BY <1>9, <1>10

\* Every step of a program keeps SavedInv,
LEMMA WritesSaved ==
    ASSUME BaseInv, SavedInv, Writes \/ Fails, UNCHANGED idenVars
    PROVE  SavedInv'
<1>1. CASE OpenFile \/ OpenFileFails
  <2>1. /\ SameFrame /\ prog.pc = "open" /\ group' = group /\ (Went("root") \/ Threw)
        /\ \/ file' = file
           \/ /\ IF Appends THEN file.state = "good" ELSE file.state = "absent"
              /\ file'.data = IF Appends THEN file.data ELSE <<>>
    BY <1>1, OpenStep
  <2>2. OthersStay
    <3>1. CASE file' = file
      <4>1. file.state \in {"good", "absent", "broken"}
        BY DEF BaseInv, FileOK
      <4>2. QED
        BY <2>1, <3>1, <4>1 DEF SameFrame, OthersStay
    <3>2. CASE Appends /\ file.state = "good" /\ file'.data = file.data
      BY <2>1, <3>2 DEF SameFrame, OthersStay
    <3>3. CASE ~Appends /\ file.state = "absent"
      <4>1. Well = {} /\ file.data = <<>>
        BY <3>3 DEF BaseInv, RunsOK, FileOK
      <4>2. DOMAIN file.data = {}
        BY <4>1
      <4>3. QED
        BY <2>1, <4>1, <4>2 DEF SameFrame, OthersStay
    <3>4. QED
      BY <2>1, <3>1, <3>2, <3>3
  <2>3. prog.frame = 1
    BY <2>1 DEF SavedInv, BaseInv, ProgOK, SameFrame, GoesOn
  <2>4. QED
    BY <2>1, <2>2, <2>3, GoesOnSaved DEF SameFrame, Went, Threw, InOrder, Writing
<1>2. CASE WriteRoot \/ WriteRootFails
  <2>1. /\ SameFrame /\ prog.pc = "root" /\ (Went("group") \/ Threw)
        /\ file'.data = file.data /\ file'.state = file.state
    BY <1>2, RootStep
  <2>2. OthersStay /\ file.state = "good"
    BY <2>1 DEF SameFrame, OthersStay, BaseInv, ProgOK, GoesOn, InOrder
  <2>3. QED
    BY <2>1, <2>2, GoesOnSaved DEF SameFrame, Went, Threw, InOrder, Writing
<1>3. CASE OpenGroup \/ OpenGroupFails
  <2>1. /\ SameFrame /\ prog.pc = "group" /\ file.state = "good" /\ file'.state = "good"
        /\ \A d \in DOMAIN file.data : d \in DOMAIN file'.data /\ file'.data[d] = file.data[d]
        /\ \/ Threw
           \/ /\ Went("meta")
              /\ group' = [open |-> TRUE, added |-> 0,
                           vals |-> [t \in Types |-> [i \in 0 .. prog.size[prog.frame] - 1 |-> BufferValue]]]
    BY <1>3, GroupStep
  <2>2. OthersStay
    BY <2>1 DEF SameFrame, OthersStay
  <2>3. Went("meta") => \A t \in Types : \A i \in DOMAIN group'.vals[t] : group'.vals[t][i] = BufferValue
    <3>1. SUFFICES ASSUME Went("meta") PROVE \A t \in Types : \A i \in DOMAIN group'.vals[t] : group'.vals[t][i] = BufferValue
      OBVIOUS
    <3>2. group'.vals = [t \in Types |-> [i \in 0 .. prog.size[prog.frame] - 1 |-> BufferValue]]
      BY <2>1, <3>1 DEF Went, Threw
    <3>3. QED
      BY <3>2
  <2>4. QED
    BY <2>1, <2>2, <2>3, GoesOnSaved DEF SameFrame, Went, Threw, InOrder, Writing
<1>4. CASE WriteMeta
  <2>1. /\ SameFrame /\ prog.pc = "meta" /\ group' = group /\ (Went("store") \/ Threw)
        /\ file'.data = file.data /\ file'.state = file.state
    BY <1>4, MetaStep
  <2>2. OthersStay /\ file.state = "good" /\ prog # Nobody
    BY <2>1 DEF SameFrame, OthersStay, BaseInv, ProgOK, GoesOn, InOrder, Writing
  <2>3. \A t \in Types : \A i \in DOMAIN group'.vals[t] : group'.vals[t][i] = BufferValue
    BY <2>1, <2>2 DEF SavedInv
  <2>4. QED
    BY <2>1, <2>2, <2>3, GoesOnSaved DEF SameFrame, Went, Threw, InOrder, Writing
<1>5. CASE StoreParticles
  <2>1. /\ prog # Nobody /\ prog.pc = "store"
        /\ GoesOn /\ prog'.pc = "close" /\ prog'.frame = prog.frame /\ file' = file
    <3>1. prog # Nobody /\ prog.pc = "store"
      BY <1>5 DEF StoreParticles, At
    <3>2. QED
      BY <1>5, <3>1, StoredIs
  <2>2. OthersStay /\ file'.state = "good"
    BY <2>1 DEF OthersStay, BaseInv, ProgOK, InOrder, Writing, idenVars
  <2>3. ArraysRight(prog.kind, group'.vals, Held(prog.frame), wrapper[prog.frame].found)
    BY <1>5, StoredRight
  <2>4. QED
    BY <2>1, <2>2, <2>3, GoesOnSaved DEF InOrder, Writing
<1>6. CASE CloseGroup \/ CloseGroupFails
  <2>1. PICK T \in SUBSET Types :
        /\ GoesOn /\ wrapper' = wrapper /\ prog.pc = "close" /\ prog.frame \in 1 .. NFramesOut
        /\ file.state = "good" /\ file'.state = "good"
        /\ DOMAIN file'.data = DOMAIN file.data
        /\ \/ Threw /\ prog'.frame = prog.frame
           \/ Went("group") /\ prog'.frame = prog.frame + 1 /\ T = Types
        /\ \A d \in DOMAIN file.data : d \notin Names(prog.frame, T) => file'.data[d] = file.data[d]
        /\ \A t \in T : file'.data[<<prog.frame, t, prog.key>>] = group.vals[t]
    BY <1>6, CloseStep DEF FileButData
  <2>2. \A d \in DOMAIN file.data : d[1] # prog.frame \/ d[3] # prog.key => d \notin Names(prog.frame, T)
    BY DEF Names
  <2>3. OthersStay
    BY <2>1, <2>2 DEF OthersStay
  <2>4. PICK fr : fr = prog.frame
    OBVIOUS
  <2>5. CASE Threw /\ prog'.frame = prog.frame
    BY <2>1, <2>3, <2>5, GoesOnSaved DEF Threw, InOrder, Writing
  <2>6. CASE Went("group") /\ prog'.frame = prog.frame + 1 /\ T = Types
    <3>1. prog # Nobody /\ GroupOK /\ group.open
      BY <2>1 DEF GoesOn, BaseInv, ProgOK, Writing
    <3>2. ArraysRight(prog.kind, group.vals, Held(fr), wrapper[fr].found)
      BY <2>1, <2>4, <3>1 DEF SavedInv
    <3>3. DOMAIN group.vals = Types /\ Names(fr, Types) \subseteq DOMAIN file.data
      BY <2>4, <3>1 DEF GroupOK
    <3>4. PICK kind, key, K, n : kind = prog.kind /\ key = prog.key /\ K = Held(fr) /\ n = wrapper[fr].found
      OBVIOUS
    <3>5. \A t \in TypesOf(kind) : <<fr, t, key>> \in DOMAIN file'.data
      BY <2>1, <3>3, <3>4 DEF Names, Types
    <3> DEFINE D == [t \in TypesOf(kind) |-> file'.data[<<fr, t, key>>]]
    <3>6. ArraysRight(kind, D, K, n)
      <4>1. \A t \in TypesOf(kind) : D[t] = group.vals[t]
        BY <2>1, <2>4, <2>6, <3>4 DEF Types
      <4> HIDE DEF D
      <4>2. ArraysRight(kind, group.vals, K, n)
        BY <3>2, <3>4
      <4>3. TypesOf("process") = TypesOf(kind) \/ kind # "process"
        OBVIOUS
      <4>4. QED
        BY <4>1, <4>2, <4>3 DEF ArraysRight
    <3>7. kind = prog'.kind /\ key = prog'.key /\ K = Held(fr)' /\ n = wrapper'[fr].found
      BY <2>1, <3>4 DEF GoesOn, Held
    <3>8. FrameSaved(prog.kind, prog.key, fr, Held(fr))'
      BY <3>5, <3>6, <3>7 DEF FrameSaved
    <3>9. QED
      BY <2>1, <2>3, <2>4, <2>6, <3>8, GoesOnSaved DEF Went, InOrder, Writing
  <2>7. QED
    BY <2>1, <2>5, <2>6
<1>7. CASE WriteList \/ WriteListFails
  <2>1. /\ SameFrame /\ prog.pc = "group" /\ (Went("done") \/ Threw)
        /\ file'.data = file.data /\ file'.state = file.state
    BY <1>7, ListStep
  <2>2. OthersStay /\ file.state = "good"
    BY <2>1 DEF SameFrame, OthersStay, BaseInv, ProgOK, GoesOn, InOrder
  <2>3. QED
    BY <2>1, <2>2, GoesOnSaved DEF SameFrame, Went, Threw, InOrder, Writing
<1>8. QED
  BY <1>1, <1>2, <1>3, <1>4, <1>5, <1>6, <1>7 DEF Writes, Fails

\* every end of one as well,
LEMMA EndsSaved ==
    ASSUME BaseInv, SavedInv, Ends, UNCHANGED idenVars
    PROVE  SavedInv'
<1>1. prog # Nobody /\ prog' = Nobody /\ ProgOK
  BY EndsAre DEF BaseInv
<1>2. OthersStay
  <2>1. wrapper' = wrapper
    BY DEF idenVars
  <2>2. CASE file' = file
    <3>1. file.state = "good" \/ file'.state # "good"
      BY <2>2
    <3>2. QED
      BY <2>1, <2>2, <3>1 DEF OthersStay
  <2>3. ASSUME group.open, NEW T \in SUBSET Types, file' = Written(T)
        PROVE  OthersStay
    <3>1. FileOK /\ GroupOK /\ NFramesOut' = NFramesOut
      BY WantedFixed DEF BaseInv, idenVars
    <3>2. /\ DOMAIN file'.data = DOMAIN file.data
          /\ \A d \in DOMAIN file.data : d \notin Names(prog.frame, T) => file'.data[d] = file.data[d]
      BY <2>3, <3>1, WrittenIs
    <3>3. \A d \in DOMAIN file.data : d[1] # prog.frame \/ d[3] # prog.key => d \notin Names(prog.frame, T)
      BY DEF Names
    <3>4. file.state = "good"
      BY <2>3, <3>1 DEF GroupOK
    <3>5. QED
      BY <2>1, <3>2, <3>3, <3>4 DEF OthersStay
  <2>4. CASE file' = [NoFile EXCEPT !.state = "broken"]
    <3>1. file'.state = "broken"
      BY <2>4 DEF NoFile
    <3>2. QED
      BY <2>1, <3>1 DEF OthersStay
  <2>5. QED
    BY <2>2, <2>3, <2>4, EndsAre
<1>3. file'.state = "good" =>
          \A r \in Well : \A f \in DOMAIN r.kept : FrameSaved(r.kind, r.key, f, r.kept[f])'
  BY <1>1, <1>2, OthersSaved
<1>4. ASSUME file'.state = "good", NEW r \in Well', r \notin Well, NEW f \in DOMAIN r.kept
      PROVE  FrameSaved(r.kind, r.key, f, r.kept[f])'
  <2>1. r \in runs' /\ r \notin runs /\ r.code = 0 /\ r.err = "none"
    BY <1>4 DEF Well
  <2>2. \A code : Record(code).code = code /\ (code # Killed => Record(code).err = prog.err)
    BY DEF Record
  <2>3. Killed # 0
    BY DEF Killed
  <2>4. prog.pc = "done" /\ file' = file /\ r = Record(0)
    BY <2>1, <2>2, <2>3, EndsAre
  <2>5. DOMAIN box = 1 .. NFramesOut /\ prog.frame = NFramesOut + 1 /\ NFramesOut \in Nat
    BY <1>1, <2>4, NFramesType DEF BaseInv, ProgOK, IdenInv
  <2>6. r.kind = prog.kind /\ r.key = prog.key /\ DOMAIN r.kept = DOMAIN box /\ r.kept[f] = Held(f)
    <3>1. r.kept = [g \in DOMAIN box |-> {box[g][n] : n \in 1 .. Len(box[g])}]
      BY <2>4 DEF Record
    <3>2. r.kept[f] = {box[f][n] : n \in 1 .. Len(box[f])}
      BY <1>4, <3>1
    <3>3. QED
      BY <2>4, <3>1, <3>2 DEF Record, Held
  <2>7. f \in 1 .. prog.frame - 1
    BY <1>4, <2>5, <2>6
  <2>8. FrameSaved(prog.kind, prog.key, f, Held(f))
    BY <1>1, <2>4, <2>7 DEF SavedInv, InOrder
  <2>9. FrameSaved(r.kind, r.key, f, r.kept[f])
    BY <2>6, <2>8
  <2>10. \A t \in TypesOf(r.kind) : /\ <<f, t, r.key>> \in DOMAIN file'.data
                                    /\ file'.data[<<f, t, r.key>>] = file.data[<<f, t, r.key>>]
    BY <2>4, <2>9 DEF FrameSaved
  <2>11. QED
    BY <1>2, <2>9, <2>10, SavedStays DEF OthersStay
<1>5. QED
  BY <1>1, <1>3, <1>4 DEF SavedInv

\* and so every step does.
LEMMA SavedInvStep ==
    ASSUME BaseInv, SavedInv, [HdfNext]_<<idenVars, hdfVars>>
    PROVE  SavedInv'
<1>1. CASE (Writes \/ Fails) /\ UNCHANGED idenVars
  BY <1>1, WritesSaved
<1>2. CASE Ends /\ UNCHANGED idenVars
  BY <1>2, EndsSaved
<1>3. CASE Starts /\ UNCHANGED idenVars
  <2>1. Begins
    BY <1>3, StartsBegin
  <2>2. /\ UNCHANGED <<file, runs>> /\ prog'.pc = "open" /\ UNCHANGED wrapper
    BY <2>1 DEF Begins, idenVars
  <2>3. Well' = Well
    BY <2>2 DEF Well
  <2>4. \A kind, key, f, K : FrameSaved(kind, key, f, K) => FrameSaved(kind, key, f, K)'
    BY <2>2 DEF FrameSaved
  <2>5. QED
    BY <2>2, <2>3, <2>4 DEF SavedInv, InOrder, Writing
<1>4. CASE IdenStep /\ UNCHANGED hdfVars
  <2>1. prog = Nobody /\ runs = {} /\ UNCHANGED <<file, prog, runs>>
    BY <1>4, IdenBase
  <2>2. QED
    BY <2>1 DEF SavedInv, Well
<1>5. CASE UNCHANGED <<idenVars, hdfVars>>
  <2>1. UNCHANGED <<file, prog, box, group, runs>> /\ UNCHANGED wrapper
    BY <1>5 DEF hdfVars, idenVars
  <2>2. Well' = Well /\ Types' = Types /\ \A f : Held(f)' = Held(f)
    BY <2>1 DEF Well, Types, Held
  <2>3. \A kind, key, f, K : FrameSaved(kind, key, f, K)' = FrameSaved(kind, key, f, K)
    BY <2>1 DEF FrameSaved
  <2>4. \A f : FrameSaved(prog.kind, prog.key, f, Held(f))' = FrameSaved(prog.kind, prog.key, f, Held(f))
    BY <2>1, <2>2 DEF FrameSaved, Held
  <2>5. Held(prog.frame)' = Held(prog.frame)
    BY <2>1 DEF Held
  <2>6. QED
    BY <2>1, <2>2, <2>3, <2>4, <2>5 DEF SavedInv
<1>6. QED
  BY <1>1, <1>2, <1>3, <1>4, <1>5 DEF HdfNext

\* What a run that says it is well has saved is in the file, whole, and stays:
\* see SavedFramesWhole (wrapper_o_hdf_group.cpp:210-284, 411-453,
\* wrapper_o_hdf.cpp:249-273).
THEOREM SavedFramesWholeAlways == HdfSpec => []SavedFramesWhole
<1>1. HdfInit => BaseInv /\ SavedInv
  <2>1. HdfInit => prog = Nobody /\ file.state = "absent"
    BY DEF HdfInit, NoFile
  <2>2. HdfInit => SavedInv
    BY <2>1 DEF SavedInv
  <2>3. QED
    BY <2>2, BaseInvInit
<1>2. BaseInv /\ SavedInv /\ [HdfNext]_<<idenVars, hdfVars>> => (BaseInv /\ SavedInv)'
  BY BaseInvStep, SavedInvStep
<1>3. BaseInv /\ SavedInv => SavedFramesWhole
  <2>1. SUFFICES ASSUME SavedInv, file.state = "good", NEW r \in Well, NEW f \in DOMAIN r.kept, NEW t \in TypesOf(r.kind)
                 PROVE  /\ <<f, t, r.key>> \in DOMAIN file.data
                        /\ LET d == file.data[<<f, t, r.key>>]
                           IN  IF r.kind = "process"
                               THEN /\ \A i \in DOMAIN d : \A u \in TypesOf("process") :
                                           d[i] = file.data[<<f, u, r.key>>][i]
                                    /\ 1 .. wrapper[f].found \subseteq {d[i] : i \in DOMAIN d}
                               ELSE /\ \A p \in r.kept[f] : p.ind \in DOMAIN d /\ d[p.ind] = p.val[t]
                                    /\ \A i \in DOMAIN d : d[i] = BufferValue \/ \E p \in r.kept[f] : p.ind = i
    BY Zenon DEF SavedFramesWhole
  <2>2. FrameSaved(r.kind, r.key, f, r.kept[f])
    BY <2>1 DEF SavedInv
  <2> DEFINE D == [u \in TypesOf(r.kind) |-> file.data[<<f, u, r.key>>]]
  <2>3. \A u \in TypesOf(r.kind) : D[u] = file.data[<<f, u, r.key>>]
    OBVIOUS
  <2>4. ArraysRight(r.kind, D, r.kept[f], wrapper[f].found)
    BY <2>2 DEF FrameSaved
  <2> HIDE DEF D
  <2>5. CASE r.kind = "process"
    <3>1. /\ \A i \in DOMAIN D[t] : \A u \in TypesOf("process") : D[t][i] = D[u][i]
          /\ 1 .. wrapper[f].found \subseteq {D[t][i] : i \in DOMAIN D[t]}
      BY <2>4, <2>5 DEF ArraysRight
    <3>2. \A i \in DOMAIN D[t] : \A u \in TypesOf("process") : D[t][i] = file.data[<<f, u, r.key>>][i]
      BY <2>3, <2>5, <3>1
    <3>3. QED
      BY <2>2, <2>3, <2>5, <3>1, <3>2 DEF FrameSaved
  <2>6. CASE r.kind # "process"
    BY <2>2, <2>3, <2>4, <2>6 DEF FrameSaved, ArraysRight
  <2>7. QED
    BY <2>5, <2>6
<1>4. QED
  BY <1>1, <1>2, <1>3, PTL DEF HdfSpec

-----------------------------------------------------------------------------
(* Where the data sets lie, and what the indices in them point at             *)

\* Data sets of process, of tracking, and two of the same program's.
OfProcess(d) == d[2] \in TypesOf("process")
OfTracking(d) == d[2] \in TypesOf("tracking")
Alike(d, e) == \E kind \in Kinds : d[2] \in TypesOf(kind) /\ e[2] \in TypesOf(kind)

\* An index that frame f may have for the frame after it.
NextFits(size, f, v) == v \in Int /\ (f + 1 \in DOMAIN size => v < size[f + 1])

\* Where data sets lie: those of one program and frame are alike, those of process have
\* one key, those of tracking go no further, and an index points into the next frame.
DataLaid ==
    /\ \A d \in DOMAIN file.data :
        /\ d = <<d[1], d[2], d[3]>> /\ d[1] \in 1 .. NFramesOut
        /\ d[2] = NEXT_INDX => \A i \in DOMAIN file.data[d] : file.data[d][i] \in Int
    /\ \A d, e \in DOMAIN file.data :
        /\ d[1] = e[1] /\ d[3] = e[3] /\ Alike(d, e) => DOMAIN file.data[d] = DOMAIN file.data[e]
        /\ OfProcess(d) /\ OfProcess(e) => d[3] = e[3]
        /\ d[1] = e[1] /\ OfProcess(d) /\ OfTracking(e) => DOMAIN file.data[e] \subseteq DOMAIN file.data[d]
        /\ d[2] = NEXT_INDX /\ OfTracking(e) /\ e[1] = d[1] + 1 /\ e[3] = d[3] =>
            \A i \in DOMAIN file.data[d] : file.data[d][i] < 0 \/ file.data[d][i] \in DOMAIN file.data[e]

\* The program has read nothing outside, and what it has read and will write fits.
ProgLaid == prog # Nobody =>
    /\ ~prog.outside
    /\ DOMAIN prog.size = 1 .. NFramesOut
    /\ prog.kind = "process" /\ prog.pc \in InOrder =>
        \A d \in DOMAIN file.data : OfProcess(d) /\ d[3] = prog.key
    /\ prog.kind = "tracking" =>
        /\ \A d \in DOMAIN file.data : OfProcess(d) => 0 .. prog.size[d[1]] - 1 \subseteq DOMAIN file.data[d]
        /\ \A f \in 1 .. NFramesOut : \A m \in 1 .. Len(box[f]) : NextFits(prog.size, f, box[f][m].val[NEXT_INDX])
        /\ group.open =>
            \A i \in DOMAIN group.vals[NEXT_INDX] : NextFits(prog.size, prog.frame, group.vals[NEXT_INDX][i])
        /\ prog.pc \in InOrder =>
            \A d \in DOMAIN file.data : d[2] = NEXT_INDX /\ d[3] = prog.key =>
                \A i \in DOMAIN file.data[d] : NextFits(prog.size, d[1], file.data[d][i])
    /\ group.open => \A f \in Nat : f > prog.frame => Names(f, Types) \cap DOMAIN file.data = {}

\* The two together are inductive.
LaidInv == DataLaid /\ ProgLaid

\* The types of the programs are different ones.
LEMMA TypesApart ==
    /\ TypesOf("process") = {XPOS, DX} /\ TypesOf("tracking") = {NEXT_INDX, PREV_INDX, TRACKID}
    /\ TypesOf("phi6") = {N_SIZE}
    /\ XPOS = 1 /\ DX = 9 /\ NEXT_INDX = 7 /\ PREV_INDX = 8 /\ TRACKID = 14 /\ N_SIZE = 17
    /\ \A k, l \in Kinds : k # l => TypesOf(k) \cap TypesOf(l) = {}
BY DEF TypesOf, XPOS, DX, NEXT_INDX, PREV_INDX, TRACKID, N_SIZE, Kinds

\* A name is a frame, a type and the program's key.
LEMMA NamesAre ==
    ASSUME NEW f, NEW T
    PROVE  /\ \A d \in Names(f, T) : d = <<d[1], d[2], d[3]>> /\ d[1] = f /\ d[2] \in T /\ d[3] = prog.key
           /\ \A d : d = <<d[1], d[2], d[3]>> /\ d[1] = f /\ d[2] \in T /\ d[3] = prog.key => d \in Names(f, T)
BY DEF Names

\* Data sets that stay as they are, or go, are laid as before.
LEMMA LaidStays ==
    ASSUME DataLaid, NFramesOut' = NFramesOut,
           \A d \in DOMAIN file'.data : d \in DOMAIN file.data /\ file'.data[d] = file.data[d]
    PROVE  DataLaid'
BY DEF DataLaid, Alike, OfProcess, OfTracking

\* What is laid for a program that goes on without a new data set or value.
LEMMA ProgLaidStays ==
    ASSUME BaseInv, BaseInv', DataLaid, ProgLaid, GoesOn, prog'.frame = prog.frame,
           prog'.outside = prog.outside,
           \A d \in DOMAIN file'.data : d \in DOMAIN file.data /\ file'.data[d] = file.data[d],
           group' = group,
           prog'.pc \in InOrder => prog.pc \in InOrder \/ (prog'.pc = "root" /\ (prog.kind = "process" => file'.data = <<>>))
    PROVE  ProgLaid'
<1>1. /\ NFramesOut' = NFramesOut /\ Types' = Types /\ NFramesOut \in Nat
      /\ \A f, T : Names(f, T)' = Names(f, T)
  BY GoesOnKeeps
<1>2. /\ prog # Nobody /\ prog' # Nobody /\ prog'.kind = prog.kind /\ prog'.key = prog.key
      /\ prog'.size = prog.size /\ box' = box /\ prog.kind \in Kinds
  BY DEF GoesOn, BaseInv, ProgOK
<1>3. \A f : Names(f, Types)' = Names(f, Types)
  BY <1>1, <1>2 DEF Names
<1>4. ~prog'.outside /\ DOMAIN prog'.size = 1 .. NFramesOut'
  BY <1>1, <1>2 DEF ProgLaid
<1>5. ASSUME prog'.kind = "process", prog'.pc \in InOrder, NEW d \in DOMAIN file'.data
      PROVE  OfProcess(d) /\ d[3] = prog'.key
  <2>1. CASE prog.pc \in InOrder
    BY <1>2, <1>5, <2>1 DEF ProgLaid
  <2>2. CASE file'.data = <<>>
    <3>1. DOMAIN file'.data = {}
      BY <2>2
    <3>2. QED
      BY <1>5, <3>1
  <2>3. QED
    BY <1>2, <1>5, <2>1, <2>2
<1>6. ASSUME prog'.kind = "tracking"
      PROVE  /\ \A d \in DOMAIN file'.data : OfProcess(d) => 0 .. prog'.size[d[1]] - 1 \subseteq DOMAIN file'.data[d]
             /\ \A f \in 1 .. NFramesOut' : \A m \in 1 .. Len(box'[f]) :
                    NextFits(prog'.size, f, box'[f][m].val[NEXT_INDX])
             /\ group'.open => \A i \in DOMAIN group'.vals[NEXT_INDX] :
                    NextFits(prog'.size, prog'.frame, group'.vals[NEXT_INDX][i])
  BY <1>1, <1>2, <1>6 DEF ProgLaid
<1>7. ASSUME prog'.kind = "tracking", prog'.pc \in InOrder,
             NEW d \in DOMAIN file'.data, d[2] = NEXT_INDX, d[3] = prog'.key, NEW i \in DOMAIN file'.data[d]
      PROVE  NextFits(prog'.size, d[1], file'.data[d][i])
  <2>1. CASE prog.pc \in InOrder
    <3>1. NextFits(prog.size, d[1], file.data[d][i])
      BY <1>2, <1>7, <2>1 DEF ProgLaid
    <3>2. QED
      BY <1>2, <1>7, <3>1
  <2>2. CASE prog'.pc = "root"
    <3>1. \A f \in Nat : f >= FirstNew' => Names(f, Types)' \cap DOMAIN file'.data = {}
      BY <1>2, <1>7 DEF BaseInv, ProgOK
    <3>2. FirstNew' = 1
      BY <1>2, <2>2 DEF FirstNew, Writing, BaseInv, ProgOK
    <3>3. d = <<d[1], d[2], d[3]>> /\ d[1] \in 1 .. NFramesOut
      BY <1>7 DEF DataLaid
    <3>4. d[2] \in Types
      BY <1>2, <1>7, TypesApart DEF Types
    <3>5. d \in Names(d[1], Types)
      BY <1>2, <1>7, <3>3, <3>4, NamesAre
    <3>6. QED
      BY <1>1, <1>3, <1>7, <3>1, <3>2, <3>3, <3>5
  <2>3. QED
    BY <1>7, <2>1, <2>2
<1>8. group'.open => \A f \in Nat : f > prog'.frame => Names(f, Types)' \cap DOMAIN file'.data = {}
  BY <1>2, <1>3 DEF ProgLaid
<1>9. QED
  BY <1>2, <1>4, <1>5, <1>6, <1>7, <1>8 DEF ProgLaid

\* What marks no particle fits as the index of a next one,
LEMMA SizesPositive ==
    ASSUME BaseInv, ProgLaid, prog # Nobody, NEW f, f + 1 \in DOMAIN prog.size, NEW v \in {FillValue, BufferValue, -1}
    PROVE  NextFits(prog.size, f, v) /\ v \in Int /\ v < 0
<1>1. BoxOK(f + 1)
  BY DEF BaseInv, ProgOK, ProgLaid
<1>2. prog.size[f + 1] \in Nat \ {0}
  BY <1>1 DEF BoxOK
<1>3. v \in Int /\ v < 0
  BY DEF FillValue, BufferValue
<1>4. QED
  BY <1>2, <1>3 DEF NextFits

\* whatever the frame.
LEMMA NegativeFits ==
    ASSUME BaseInv, ProgLaid, prog # Nobody, NEW f, NEW v \in {FillValue, BufferValue, -1}
    PROVE  NextFits(prog.size, f, v) /\ v \in Int /\ v < 0
<1>1. v \in Int /\ v < 0
  BY DEF FillValue, BufferValue
<1>2. CASE f + 1 \in DOMAIN prog.size
  BY <1>2, SizesPositive
<1>3. CASE f + 1 \notin DOMAIN prog.size
  BY <1>1, <1>3 DEF NextFits
<1>4. QED
  BY <1>1, <1>2, <1>3

\* A frame's data sets are made beside those that are laid.
LEMMA MadeLaid ==
    ASSUME BaseInv, LaidInv, prog # Nobody, prog.pc \in InOrder, FirstNew = prog.frame, prog.frame \in 1 .. NFramesOut,
           NFramesOut' = NFramesOut, NEW T \in SUBSET Types,
           DOMAIN file'.data = DOMAIN file.data \cup Names(prog.frame, T),
           \A d \in DOMAIN file.data : file'.data[d] = file.data[d] /\ d \notin Names(prog.frame, T),
           \A d \in Names(prog.frame, T) : file'.data[d] = [i \in 0 .. prog.size[prog.frame] - 1 |-> FillValue]
    PROVE  DataLaid'
<1>1. PICK fr, key, size, old, new, data :
          fr = prog.frame /\ key = prog.key /\ size = prog.size[fr]
          /\ old = DOMAIN file.data /\ new = Names(fr, T) /\ data = file'.data
  OBVIOUS
<1>2. BoxOK(fr) /\ prog.kind \in Kinds /\ fr \in 1 .. NFramesOut
  BY <1>1 DEF BaseInv, ProgOK
<1>3. size \in Nat \ {0}
  BY <1>1, <1>2 DEF BoxOK
<1>4. \A d \in new : d = <<d[1], d[2], d[3]>> /\ d[1] = fr /\ d[2] \in T /\ d[3] = key
  BY <1>1, NamesAre
<1>5. \A d \in old : ~(d[1] = fr /\ d[2] \in Types /\ d[3] = key)
  <2>1. Names(fr, Types) \cap old = {}
    <3>1. fr \in Nat /\ fr >= FirstNew
      BY <1>1, <1>2, NFramesType DEF BaseInv, IdenInv
    <3>2. QED
      BY <1>1, <3>1 DEF BaseInv, ProgOK
  <2>2. \A d \in old : d = <<d[1], d[2], d[3]>>
    BY <1>1 DEF LaidInv, DataLaid
  <2>3. QED
    BY <1>1, <2>1, <2>2, NamesAre
<1>6. /\ DOMAIN data = old \cup new
      /\ \A d \in old : data[d] = file.data[d]
      /\ \A d \in new : DOMAIN data[d] = 0 .. size - 1 /\ \A i \in 0 .. size - 1 : data[d][i] = FillValue
  <2>1. DOMAIN data = old \cup new /\ \A d \in old : data[d] = file.data[d]
    BY <1>1
  <2>2. ASSUME NEW d \in new
        PROVE  DOMAIN data[d] = 0 .. size - 1 /\ \A i \in 0 .. size - 1 : data[d][i] = FillValue
    <3>1. data[d] = [i \in 0 .. size - 1 |-> FillValue]
      BY <1>1, <2>2
    <3>2. QED
      BY <3>1
  <2>3. QED
    BY <2>1, <2>2
<1>7. FillValue \in Int /\ FillValue < 0
  BY DEF FillValue
<1>8. \A d, e \in old :
        /\ d[1] = e[1] /\ d[3] = e[3] /\ Alike(d, e) => DOMAIN data[d] = DOMAIN data[e]
        /\ OfProcess(d) /\ OfProcess(e) => d[3] = e[3]
        /\ d[1] = e[1] /\ OfProcess(d) /\ OfTracking(e) => DOMAIN data[e] \subseteq DOMAIN data[d]
        /\ d[2] = NEXT_INDX /\ OfTracking(e) /\ e[1] = d[1] + 1 /\ e[3] = d[3] =>
            \A i \in DOMAIN data[d] : data[d][i] < 0 \/ data[d][i] \in DOMAIN data[e]
  BY <1>1, <1>6 DEF LaidInv, DataLaid
<1>9. \A d \in DOMAIN data :
        /\ d = <<d[1], d[2], d[3]>> /\ d[1] \in 1 .. NFramesOut
        /\ d[2] = NEXT_INDX => \A i \in DOMAIN data[d] : data[d][i] \in Int
  <2>1. ASSUME NEW d \in old
        PROVE  /\ d = <<d[1], d[2], d[3]>> /\ d[1] \in 1 .. NFramesOut
               /\ d[2] = NEXT_INDX => \A i \in DOMAIN data[d] : data[d][i] \in Int
    BY <1>1, <1>6 DEF LaidInv, DataLaid
  <2>2. ASSUME NEW d \in new
        PROVE  /\ d = <<d[1], d[2], d[3]>> /\ d[1] \in 1 .. NFramesOut
               /\ d[2] = NEXT_INDX => \A i \in DOMAIN data[d] : data[d][i] \in Int
    BY <1>2, <1>4, <1>6, <1>7
  <2>3. QED
    BY <1>6, <2>1, <2>2
<1>10. ASSUME NEW d \in old, NEW e \in new, d[1] = e[1], d[3] = e[3]
       PROVE  ~Alike(d, e) /\ ~Alike(e, d)
  <2>1. e[2] \in Types /\ d[2] \notin Types /\ Types = TypesOf(prog.kind)
    BY <1>4, <1>5, <1>10 DEF Types
  <2>2. QED
    BY <1>2, <2>1, TypesApart DEF Alike
<1>11. ASSUME NEW d \in new, OfProcess(d)
       PROVE  prog.kind = "process" /\ \A e \in old : OfProcess(e) /\ e[3] = key /\ ~OfTracking(e)
  <2>1. d[2] \in TypesOf(prog.kind) /\ d[2] \in TypesOf("process")
    BY <1>4, <1>11 DEF Types, OfProcess
  <2>2. prog.kind = "process"
    BY <1>2, <2>1, TypesApart DEF Kinds
  <2>3. \A e \in old : OfProcess(e) /\ e[3] = key
    BY <1>1, <2>2 DEF LaidInv, ProgLaid
  <2>4. QED
    BY <2>2, <2>3, TypesApart DEF OfProcess, OfTracking, Kinds
<1>12. ASSUME NEW d \in new, OfTracking(d)
       PROVE  prog.kind = "tracking"
  <2>1. d[2] \in TypesOf(prog.kind) /\ d[2] \in TypesOf("tracking")
    BY <1>4, <1>12 DEF Types, OfTracking
  <2>2. QED
    BY <1>2, <2>1, TypesApart DEF Kinds
<1>13. ASSUME NEW d \in DOMAIN data, NEW e \in DOMAIN data
       PROVE  /\ d[1] = e[1] /\ d[3] = e[3] /\ Alike(d, e) => DOMAIN data[d] = DOMAIN data[e]
              /\ OfProcess(d) /\ OfProcess(e) => d[3] = e[3]
              /\ d[1] = e[1] /\ OfProcess(d) /\ OfTracking(e) => DOMAIN data[e] \subseteq DOMAIN data[d]
              /\ d[2] = NEXT_INDX /\ OfTracking(e) /\ e[1] = d[1] + 1 /\ e[3] = d[3] =>
                  \A i \in DOMAIN data[d] : data[d][i] < 0 \/ data[d][i] \in DOMAIN data[e]
  <2>1. CASE d \in old /\ e \in old
    BY <1>8, <2>1
  <2>2. CASE d \in new /\ e \in new
    <3>1. ~(OfProcess(d) /\ OfTracking(e))
      BY <1>11, <1>12, <2>2
    <3>2. d[1] = fr /\ e[1] = fr /\ d[3] = e[3] /\ DOMAIN data[d] = DOMAIN data[e] /\ ~(e[1] = d[1] + 1)
      BY <1>2, <1>4, <1>6, <2>2
    <3>3. QED
      BY <3>1, <3>2
  <2>3. CASE d \in new /\ e \in old
    <3>1. \A i \in DOMAIN data[d] : data[d][i] < 0
      BY <1>6, <1>7, <2>3
    <3>2. d[1] = e[1] /\ d[3] = e[3] => ~Alike(d, e)
      BY <1>10, <2>3
    <3>3. OfProcess(d) => OfProcess(e) /\ d[3] = e[3] /\ ~OfTracking(e)
      BY <1>4, <1>11, <2>3
    <3>4. QED
      BY <3>1, <3>2, <3>3
  <2>4. CASE d \in old /\ e \in new
    <3>1. OfProcess(e) => OfProcess(d) /\ d[3] = e[3] /\ ~OfTracking(e)
      BY <1>4, <1>11, <2>4, TypesApart DEF OfProcess, OfTracking, Kinds
    <3>2. d[1] = e[1] /\ OfProcess(d) /\ OfTracking(e) => DOMAIN data[e] \subseteq DOMAIN data[d]
      <4>1. HAVE d[1] = e[1] /\ OfProcess(d) /\ OfTracking(e)
      <4>2. prog.kind = "tracking" /\ d[1] = fr /\ DOMAIN data[e] = 0 .. size - 1 /\ data[d] = file.data[d]
        BY <1>4, <1>6, <1>12, <2>4, <4>1
      <4>3. \A c \in DOMAIN file.data : OfProcess(c) => 0 .. prog.size[c[1]] - 1 \subseteq DOMAIN file.data[c]
        BY <4>2 DEF LaidInv, ProgLaid
      <4>4. 0 .. prog.size[d[1]] - 1 \subseteq DOMAIN file.data[d]
        BY <1>1, <2>4, <4>1, <4>3
      <4>5. QED
        BY <1>1, <4>2, <4>4
    <3>3. ASSUME d[2] = NEXT_INDX, OfTracking(e), e[1] = d[1] + 1, e[3] = d[3], NEW i \in DOMAIN data[d]
          PROVE  data[d][i] < 0 \/ data[d][i] \in DOMAIN data[e]
      <4>1. prog.kind = "tracking" /\ d[3] = prog.key /\ d[1] + 1 = fr /\ DOMAIN data[e] = 0 .. size - 1
        <5>1. d[1] \in 1 .. NFramesOut
          BY <1>9
        <5>2. QED
          BY <1>1, <1>2, <1>4, <1>6, <1>12, <2>4, <3>3, <5>1
      <4>2. NextFits(prog.size, d[1], data[d][i])
        <5>1. \A c \in DOMAIN file.data : c[2] = NEXT_INDX /\ c[3] = prog.key =>
                \A j \in DOMAIN file.data[c] : NextFits(prog.size, c[1], file.data[c][j])
          BY <4>1 DEF LaidInv, ProgLaid
        <5>2. d \in DOMAIN file.data /\ data[d] = file.data[d]
          BY <1>1, <1>6, <2>4
        <5>3. QED
          BY <3>3, <4>1, <5>1, <5>2
      <4>3. fr \in DOMAIN prog.size
        BY <1>2 DEF LaidInv, ProgLaid
      <4>4. data[d][i] \in Int /\ data[d][i] < size
        BY <1>1, <4>1, <4>2, <4>3 DEF NextFits
      <4>5. QED
        BY <1>3, <4>1, <4>4
    <3>4. d[1] = e[1] /\ d[3] = e[3] => ~Alike(d, e)
      BY <1>10, <2>4
    <3>5. QED
      BY <3>1, <3>2, <3>3, <3>4
  <2>5. QED
    BY <1>6, <2>1, <2>2, <2>3, <2>4
<1>14. (\A d : OfProcess(d)' = OfProcess(d) /\ OfTracking(d)' = OfTracking(d)) /\ \A d, e : Alike(d, e)' = Alike(d, e)
  BY DEF OfProcess, OfTracking, Alike
<1>15. QED
  BY <1>1, <1>9, <1>13, <1>14 DEF DataLaid

\* Making the data sets of a frame keeps LaidInv,
LEMMA GroupLaid ==
    ASSUME BaseInv, BaseInv', LaidInv, OpenGroup \/ OpenGroupFails, UNCHANGED idenVars
    PROVE  LaidInv'
<1>1. /\ SameFrame /\ prog.pc = "group" /\ prog.frame \in 1 .. NFramesOut
      /\ file.state = "good" /\ file'.state = "good"
  BY GroupStep
<1>2. PICK T \in SUBSET Types :
        /\ \/ Threw /\ group' = group
           \/ /\ Went("meta") /\ T = Types
              /\ group' = [open |-> TRUE, added |-> 0,
                      vals |-> [t \in Types |-> [i \in 0 .. prog.size[prog.frame] - 1 |-> BufferValue]]]
        /\ DOMAIN file'.data = DOMAIN file.data \cup Names(prog.frame, T)
        /\ \A d \in DOMAIN file.data : file'.data[d] = file.data[d] /\ d \notin Names(prog.frame, T)
        /\ \A d \in Names(prog.frame, T) :
                file'.data[d] = [i \in 0 .. prog.size[prog.frame] - 1 |-> FillValue]
  BY GroupStep
<1>3. /\ NFramesOut' = NFramesOut /\ Types' = Types /\ NFramesOut \in Nat
      /\ GoesOn /\ prog'.frame = prog.frame
  BY <1>1, GoesOnKeeps DEF SameFrame
<1>4. /\ prog # Nobody /\ prog' # Nobody /\ prog'.kind = prog.kind /\ prog'.key = prog.key
      /\ prog'.size = prog.size /\ box' = box /\ prog.kind \in Kinds /\ prog'.outside = prog.outside
      /\ DataLaid /\ ProgLaid /\ ~group.open
  BY <1>1, <1>2, <1>3 DEF GoesOn, BaseInv, ProgOK, GroupOK, Writing, Went, Threw, LaidInv
<1>5. DataLaid'
  <2>1. prog.pc \in InOrder /\ FirstNew = prog.frame
    BY <1>1 DEF InOrder, FirstNew, Writing
  <2>2. QED
    BY <1>1, <1>2, <1>3, <1>4, <2>1, MadeLaid
<1>6. PICK fr, N, v : fr = prog.frame /\ N = Names(fr, T) /\ v = [i \in 0 .. prog.size[fr] - 1 |-> FillValue]
  OBVIOUS
<1>7. \A d \in N : d[2] \in TypesOf(prog.kind) /\ d[3] = prog.key /\ file'.data[d] = v
  <2>1. \A d \in N : file'.data[d] = v
    BY <1>2, <1>6
  <2>2. \A d \in N : d[2] \in T /\ d[3] = prog.key
    BY <1>6, NamesAre
  <2>3. QED
    BY <2>1, <2>2 DEF Types
<1>8. \A d \in DOMAIN file'.data : d \in N \/ (d \in DOMAIN file.data /\ file'.data[d] = file.data[d])
  BY <1>2, <1>6
<1>9. prog'.pc \in InOrder => prog'.pc = "meta" /\ group'.open
  BY <1>2 DEF Went, Threw, InOrder, Writing
<1>10. ASSUME prog.kind = "process", NEW d \in DOMAIN file'.data
       PROVE  OfProcess(d) /\ d[3] = prog.key
  <2>1. CASE d \in N
    BY <1>7, <1>10, <2>1 DEF OfProcess
  <2>2. CASE d \in DOMAIN file.data
    BY <1>1, <1>4, <1>10, <2>2 DEF ProgLaid, InOrder
  <2>3. QED
    BY <1>8, <2>1, <2>2
<1>11. ASSUME prog.kind = "tracking", NEW d \in DOMAIN file'.data
       PROVE  /\ OfProcess(d) => 0 .. prog.size[d[1]] - 1 \subseteq DOMAIN file'.data[d]
              /\ d[2] = NEXT_INDX /\ d[3] = prog.key =>
                    \A i \in DOMAIN file'.data[d] : NextFits(prog.size, d[1], file'.data[d][i])
  <2>1. CASE d \in N
    <3>1. ~OfProcess(d)
      BY <1>7, <1>11, <2>1, TypesApart DEF OfProcess, Kinds
    <3>2. \A i \in DOMAIN v : v[i] = FillValue
      BY <1>6
    <3>3. file'.data[d] = v
      BY <1>7, <2>1
    <3>4. QED
      BY <1>4, <3>1, <3>2, <3>3, NegativeFits
  <2>2. CASE d \in DOMAIN file.data /\ file'.data[d] = file.data[d]
    BY <1>1, <1>4, <1>11, <2>2 DEF ProgLaid, InOrder
  <2>3. QED
    BY <1>8, <2>1, <2>2
<1>12. ASSUME group'.open, prog.kind = "tracking", NEW i \in DOMAIN group'.vals[NEXT_INDX]
       PROVE  NextFits(prog.size, prog.frame, group'.vals[NEXT_INDX][i])
  <2>1. group'.vals = [t \in Types |-> [j \in 0 .. prog.size[prog.frame] - 1 |-> BufferValue]]
    <3>1. group' # group
      BY <1>4, <1>12
    <3>2. group' = [open |-> TRUE, added |-> 0,
                    vals |-> [t \in Types |-> [j \in 0 .. prog.size[prog.frame] - 1 |-> BufferValue]]]
      BY Zenon, <1>2, <3>1
    <3>3. QED
      BY <3>2
  <2>2. NEXT_INDX \in Types
    BY <1>12, TypesApart DEF Types
  <2>3. group'.vals[NEXT_INDX] = [j \in 0 .. prog.size[prog.frame] - 1 |-> BufferValue]
    BY <2>1, <2>2
  <2>4. group'.vals[NEXT_INDX][i] = BufferValue
    BY <1>12, <2>3
  <2>5. QED
    BY <1>4, <2>4, NegativeFits
<1>13. ASSUME group'.open, NEW f \in Nat, f > prog'.frame
       PROVE  Names(f, Types)' \cap DOMAIN file'.data = {}
  <2>1. prog'.pc = "meta"
    BY <1>2, <1>4, <1>13 DEF Went
  <2>2. FirstNew' = prog'.frame + 1 /\ prog'.pc \in InOrder
    BY <2>1 DEF FirstNew, Writing, InOrder
  <2>3. f >= FirstNew'
    BY <1>1, <1>3, <1>13, <2>2
  <2>4. QED
    BY <1>4, <2>2, <2>3 DEF BaseInv, ProgOK
<1>14. ProgLaid'
  BY <1>3, <1>4, <1>10, <1>11, <1>12, <1>13 DEF ProgLaid
<1>15. QED
  BY <1>5, <1>14 DEF LaidInv

\* What is written of a frame goes into data sets that are there; none is there yet
\* that its values point into.
LEMMA WrittenLaid ==
    ASSUME BaseInv, LaidInv, prog # Nobody, group.open, NFramesOut' = NFramesOut,
           NEW T \in SUBSET Types, DOMAIN file'.data = DOMAIN file.data,
           \A d \in DOMAIN file.data :
               /\ DOMAIN file'.data[d] = DOMAIN file.data[d]
               /\ d \notin Names(prog.frame, T) => file'.data[d] = file.data[d],
           \A t \in T : file'.data[<<prog.frame, t, prog.key>>] = group.vals[t]
    PROVE  DataLaid'
<1>1. PICK fr, key, data, old, vals :
        fr = prog.frame /\ key = prog.key /\ data = file'.data /\ old = file.data /\ vals = group.vals
  OBVIOUS
<1>2. /\ prog.kind \in Kinds /\ fr \in Nat
      /\ DOMAIN data = DOMAIN old /\ \A d \in DOMAIN old : DOMAIN data[d] = DOMAIN old[d]
  BY <1>1 DEF BaseInv, ProgOK
<1>3. \A d \in DOMAIN old :
        \/ data[d] = old[d]
        \/ d[1] = fr /\ d[2] \in Types /\ d[3] = key /\ data[d] = vals[d[2]]
  BY <1>1, NamesAre
<1>4. ASSUME NEW d \in DOMAIN data, d[2] = NEXT_INDX, data[d] # old[d]
      PROVE  /\ \A i \in DOMAIN data[d] : data[d][i] \in Int
             /\ \A e \in DOMAIN data : ~(OfTracking(e) /\ e[1] = d[1] + 1 /\ e[3] = d[3])
  <2>1. d[1] = fr /\ d[2] \in Types /\ d[3] = key /\ data[d] = vals[d[2]]
    BY <1>2, <1>3, <1>4
  <2>2. prog.kind = "tracking"
    BY <1>2, <1>4, <2>1, TypesApart DEF Types, Kinds
  <2>3. \A i \in DOMAIN data[d] : NextFits(prog.size, fr, data[d][i])
    BY <1>1, <1>4, <2>1, <2>2 DEF LaidInv, ProgLaid
  <2>4. ASSUME NEW e \in DOMAIN data, OfTracking(e), e[1] = d[1] + 1, e[3] = d[3]
        PROVE  FALSE
    <3>1. e = <<e[1], e[2], e[3]>>
      BY <1>1, <1>2 DEF LaidInv, DataLaid
    <3>2. e[2] \in Types
      BY <2>2, <2>4 DEF Types, OfTracking
    <3>3. e \in Names(fr + 1, Types)
      BY <1>1, <2>1, <2>4, <3>1, <3>2, NamesAre
    <3>4. Names(fr + 1, Types) \cap DOMAIN file.data = {}
      BY <1>1, <1>2 DEF LaidInv, ProgLaid
    <3>5. QED
      BY <1>1, <1>2, <3>3, <3>4
  <2>5. QED
    BY <2>3, <2>4 DEF NextFits
<1>5. \A d \in DOMAIN data :
        /\ d = <<d[1], d[2], d[3]>> /\ d[1] \in 1 .. NFramesOut
        /\ d[2] = NEXT_INDX => \A i \in DOMAIN data[d] : data[d][i] \in Int
  BY <1>1, <1>2, <1>4 DEF LaidInv, DataLaid
<1>6. ASSUME NEW d \in DOMAIN data, NEW e \in DOMAIN data
      PROVE  /\ d[1] = e[1] /\ d[3] = e[3] /\ Alike(d, e) => DOMAIN data[d] = DOMAIN data[e]
             /\ OfProcess(d) /\ OfProcess(e) => d[3] = e[3]
             /\ d[1] = e[1] /\ OfProcess(d) /\ OfTracking(e) => DOMAIN data[e] \subseteq DOMAIN data[d]
             /\ d[2] = NEXT_INDX /\ OfTracking(e) /\ e[1] = d[1] + 1 /\ e[3] = d[3] =>
                 \A i \in DOMAIN data[d] : data[d][i] < 0 \/ data[d][i] \in DOMAIN data[e]
  <2>1. /\ d[1] = e[1] /\ d[3] = e[3] /\ Alike(d, e) => DOMAIN old[d] = DOMAIN old[e]
        /\ OfProcess(d) /\ OfProcess(e) => d[3] = e[3]
        /\ d[1] = e[1] /\ OfProcess(d) /\ OfTracking(e) => DOMAIN old[e] \subseteq DOMAIN old[d]
        /\ d[2] = NEXT_INDX /\ OfTracking(e) /\ e[1] = d[1] + 1 /\ e[3] = d[3] =>
            \A i \in DOMAIN old[d] : old[d][i] < 0 \/ old[d][i] \in DOMAIN old[e]
    BY <1>1, <1>2 DEF LaidInv, DataLaid
  <2>2. DOMAIN data[d] = DOMAIN old[d] /\ DOMAIN data[e] = DOMAIN old[e]
    BY <1>2
  <2>3. CASE data[d] = old[d]
    BY <2>1, <2>2, <2>3
  <2>4. CASE data[d] # old[d]
    <3>1. ~(d[2] = NEXT_INDX /\ OfTracking(e) /\ e[1] = d[1] + 1 /\ e[3] = d[3])
      BY <1>4, <2>4
    <3>2. QED
      BY <2>1, <2>2, <3>1
  <2>5. QED
    BY <2>3, <2>4
<1>7. (\A d : OfProcess(d)' = OfProcess(d) /\ OfTracking(d)' = OfTracking(d)) /\ \A d, e : Alike(d, e)' = Alike(d, e)
  BY DEF OfProcess, OfTracking, Alike
<1>8. QED
  BY <1>1, <1>5, <1>6, <1>7 DEF DataLaid

\* storing particles in the buffers,
LEMMA StoredLaid ==
    ASSUME BaseInv, BaseInv', LaidInv, StoreParticles, UNCHANGED idenVars
    PROVE  LaidInv'
<1>1. prog # Nobody /\ prog.pc = "store" /\ ProgOK /\ GroupOK /\ DataLaid /\ ProgLaid
  BY DEF StoreParticles, At, BaseInv, LaidInv
<1>2. /\ GoesOn /\ prog'.pc = "close" /\ prog'.frame = prog.frame
      /\ file' = file /\ group.open /\ group'.open = group.open
      /\ group'.vals = [t \in Types |-> [i \in DOMAIN group.vals[t] |-> StoredVal(t, i)]]
  BY <1>1, StoredIs
<1>3. /\ NFramesOut' = NFramesOut /\ Types' = Types /\ NFramesOut \in Nat
  BY <1>2, GoesOnKeeps
<1>4. /\ prog' # Nobody /\ prog'.kind = prog.kind /\ prog'.key = prog.key
      /\ prog'.size = prog.size /\ box' = box
  BY <1>2 DEF GoesOn
<1>5. prog.frame \in 1 .. NFramesOut
  BY <1>1, <1>3 DEF ProgOK, Writing
<1>6. PICK f, b, L, size, D : f = prog.frame /\ b = box[f] /\ L = Len(b) /\ size = prog.size[f] /\ D = group'.vals
  OBVIOUS
<1>7. BoxOK(f)
  BY <1>1, <1>5, <1>6 DEF ProgOK
<1>8. /\ L \in Nat /\ DOMAIN b = 1 .. L /\ size \in Nat \ {0}
      /\ prog.kind = "process" => L <= size
      /\ prog.kind # "process" =>
            /\ \A m \in 1 .. L : b[m].ind \in 0 .. size - 1
            /\ \A l, m \in 1 .. L : b[l].ind = b[m].ind => b[l] = b[m]
  BY <1>6, <1>7 DEF BoxOK
<1>9. ~prog'.outside
  <2>1. ASSUME NEW n \in 1 .. L
        PROVE  ~(Index(b[n], n) >= size)
    <3>1. CASE prog.kind = "process"
      BY <1>8, <3>1 DEF Index, Appends
    <3>2. CASE prog.kind # "process"
      BY <1>8, <3>2 DEF Index, Appends
    <3>3. QED
      BY <3>1, <3>2
  <2>2. prog'.outside = (prog.outside \/
                  \E n \in 1 .. Len(box[prog.frame]) : Index(box[prog.frame][n], n) >= prog.size[prog.frame])
    BY <1>1, StoredIs
  <2>3. ~prog.outside
    BY <1>1 DEF ProgLaid
  <2>4. QED
    BY <1>6, <2>1, <2>2, <2>3
<1>10. ASSUME prog.kind = "tracking", NEW i \in DOMAIN D[NEXT_INDX]
       PROVE  NextFits(prog.size, f, D[NEXT_INDX][i])
  <2>1. NEXT_INDX \in Types
    BY <1>10, TypesApart DEF Types
  <2>2. D[NEXT_INDX] = [j \in DOMAIN group.vals[NEXT_INDX] |-> StoredVal(NEXT_INDX, j)]
    BY <1>2, <1>6, <2>1
  <2>3. i \in DOMAIN group.vals[NEXT_INDX] /\ D[NEXT_INDX][i] = StoredVal(NEXT_INDX, i)
    BY <1>10, <2>2
  <2>4. i \in 0 .. size - 1
    BY <1>1, <1>2, <1>6, <2>1, <2>3 DEF GroupOK
  <2>5. i \in Nat
    BY <1>8, <2>4
  <2>6. CASE \E n \in 1 .. L : b[n].ind = i
    <3>1. PICK n \in 1 .. L : b[n].ind = i
      BY <2>6
    <3>2. StoredVal(NEXT_INDX, i) = b[n].val[NEXT_INDX]
      BY <1>6, <1>8, <1>10, <2>5, <3>1, StoredByIndex
    <3>3. NextFits(prog.size, f, b[n].val[NEXT_INDX])
      BY <1>1, <1>5, <1>6, <1>10, <3>1 DEF ProgLaid
    <3>4. QED
      BY <2>3, <3>2, <3>3
  <2>7. CASE \A n \in 1 .. L : b[n].ind # i
    <3>1. StoredVal(NEXT_INDX, i) = group.vals[NEXT_INDX][i]
      BY <1>6, <1>8, <1>10, <2>5, <2>7, StoredByIndex
    <3>2. NextFits(prog.size, f, group.vals[NEXT_INDX][i])
      BY <1>1, <1>2, <1>6, <1>10, <2>3 DEF ProgLaid
    <3>3. QED
      BY <2>3, <3>1, <3>2
  <2>8. QED
    BY <2>6, <2>7
<1>11. \A h : Names(h, Types)' = Names(h, Types)
  BY <1>3, <1>4 DEF Names
<1>12. DataLaid'
  BY <1>1, <1>2, <1>3, LaidStays
<1>13. prog.pc \in InOrder
  BY <1>1 DEF InOrder, Writing
<1>14. ProgLaid'
  <2>1. prog.kind = "process" =>
            \A d \in DOMAIN file.data : OfProcess(d) /\ d[3] = prog.key
    BY <1>1, <1>13 DEF ProgLaid
  <2>2. prog.kind = "tracking" =>
        /\ \A d \in DOMAIN file.data : OfProcess(d) => 0 .. prog.size[d[1]] - 1 \subseteq DOMAIN file.data[d]
        /\ \A h \in 1 .. NFramesOut : \A m \in 1 .. Len(box[h]) : NextFits(prog.size, h, box[h][m].val[NEXT_INDX])
        /\ \A d \in DOMAIN file.data : d[2] = NEXT_INDX /\ d[3] = prog.key =>
                \A i \in DOMAIN file.data[d] : NextFits(prog.size, d[1], file.data[d][i])
    BY <1>1, <1>13 DEF ProgLaid
  <2>3. \A h \in Nat : h > prog.frame => Names(h, Types) \cap DOMAIN file.data = {}
    BY <1>1, <1>2 DEF ProgLaid
  <2>4. DOMAIN prog.size = 1 .. NFramesOut
    BY <1>1 DEF ProgLaid
  <2>5. prog.kind = "tracking" =>
            \A i \in DOMAIN group'.vals[NEXT_INDX] : NextFits(prog'.size, prog'.frame, group'.vals[NEXT_INDX][i])
    BY <1>2, <1>4, <1>6, <1>10
  <2>6. group'.open => \A h \in Nat : h > prog'.frame => Names(h, Types)' \cap DOMAIN file'.data = {}
    BY <1>2, <1>11, <2>3
  <2>7. file'.data = file.data
    BY <1>2
  <2>8. QED
    BY <1>3, <1>4, <1>9, <2>1, <2>2, <2>4, <2>5, <2>6, <2>7 DEF ProgLaid
<1>15. QED
  BY <1>12, <1>14 DEF LaidInv

\* writing the buffers,
LEMMA CloseLaid ==
    ASSUME BaseInv, BaseInv', LaidInv, CloseGroup \/ CloseGroupFails, UNCHANGED idenVars
    PROVE  LaidInv'
<1>1. PICK T \in SUBSET Types :
        /\ \/ Threw /\ group' = group /\ prog'.frame = prog.frame
           \/ Went("group") /\ group' = Closed /\ prog'.frame = prog.frame + 1 /\ T = Types
        /\ \A d \in DOMAIN file.data :
             /\ DOMAIN file'.data[d] = DOMAIN file.data[d]
             /\ d \notin Names(prog.frame, T) => file'.data[d] = file.data[d]
        /\ \A t \in T : file'.data[<<prog.frame, t, prog.key>>] = group.vals[t]
  BY CloseStep
<1>2. /\ GoesOn /\ prog.pc = "close" /\ prog.frame \in 1 .. NFramesOut /\ DOMAIN file'.data = DOMAIN file.data
  BY CloseStep
<1>3. /\ prog # Nobody /\ prog' # Nobody /\ prog'.kind = prog.kind /\ prog'.key = prog.key
      /\ prog'.size = prog.size /\ box' = box /\ prog.kind \in Kinds /\ group.open
      /\ DataLaid /\ ProgLaid /\ prog.pc \in InOrder
  BY <1>2 DEF GoesOn, BaseInv, ProgOK, LaidInv, InOrder, Writing
<1>4. NFramesOut' = NFramesOut /\ Types' = Types
  BY <1>2, GoesOnKeeps
<1>5. DataLaid'
  BY <1>1, <1>2, <1>3, <1>4, WrittenLaid
<1>6. ~prog'.outside /\ DOMAIN prog'.size = 1 .. NFramesOut'
  <2>1. prog'.outside = prog.outside
    BY <1>1 DEF Went, Threw
  <2>2. QED
    BY <1>3, <1>4, <2>1 DEF ProgLaid
<1>7. group'.open => group' = group /\ prog'.frame = prog.frame
  BY <1>1 DEF Closed
<1>8. \A h : Names(h, Types)' = Names(h, Types)
  BY <1>3, <1>4 DEF Names
<1>9. ASSUME prog.kind = "tracking", NEW d \in DOMAIN file'.data, d[2] = NEXT_INDX, d[3] = prog.key,
             NEW i \in DOMAIN file'.data[d]
      PROVE  NextFits(prog.size, d[1], file'.data[d][i])
  <2>1. CASE file'.data[d] = file.data[d]
    BY <1>2, <1>3, <1>9, <2>1 DEF ProgLaid
  <2>2. CASE file'.data[d] # file.data[d]
    <3>1. PICK fr : fr = prog.frame
      OBVIOUS
    <3>2. d \in Names(fr, T)
      BY <1>1, <1>2, <1>9, <2>2, <3>1
    <3>3. d = <<fr, d[2], prog.key>> /\ d[1] = fr /\ d[2] \in T
      BY <3>2, NamesAre
    <3>4. file'.data[d] = group.vals[NEXT_INDX]
      BY <1>1, <1>9, <3>1, <3>3
    <3>5. \A j \in DOMAIN group.vals[NEXT_INDX] : NextFits(prog.size, fr, group.vals[NEXT_INDX][j])
      BY <1>3, <1>9, <3>1 DEF ProgLaid
    <3>6. QED
      BY <1>9, <3>3, <3>4, <3>5
  <2>3. QED
    BY <2>1, <2>2
<1>10. ProgLaid'
  <2>1. prog.kind = "process" => \A d \in DOMAIN file'.data : OfProcess(d) /\ d[3] = prog.key
    BY <1>2, <1>3 DEF ProgLaid
  <2>2. prog.kind = "tracking" =>
        /\ \A d \in DOMAIN file'.data : OfProcess(d) => 0 .. prog.size[d[1]] - 1 \subseteq DOMAIN file'.data[d]
        /\ \A h \in 1 .. NFramesOut : \A m \in 1 .. Len(box[h]) : NextFits(prog.size, h, box[h][m].val[NEXT_INDX])
        /\ group'.open =>
            \A i \in DOMAIN group'.vals[NEXT_INDX] : NextFits(prog.size, prog'.frame, group'.vals[NEXT_INDX][i])
    BY <1>1, <1>2, <1>3, <1>7 DEF ProgLaid
  <2>3. group'.open => \A h \in Nat : h > prog'.frame => Names(h, Types) \cap DOMAIN file'.data = {}
    BY <1>2, <1>3, <1>7 DEF ProgLaid
  <2>4. QED
    BY <1>3, <1>4, <1>6, <1>8, <1>9, <2>1, <2>2, <2>3 DEF ProgLaid
<1>11. QED
  BY <1>5, <1>10 DEF LaidInv

\* every end of a program,
LEMMA EndsLaid ==
    ASSUME BaseInv, LaidInv, Ends, UNCHANGED idenVars
    PROVE  LaidInv'
<1>1. prog # Nobody /\ prog' = Nobody /\ NFramesOut' = NFramesOut /\ FileOK /\ GroupOK
  BY EndsAre, WantedFixed DEF idenVars, BaseInv
<1>2. DataLaid'
  <2>1. CASE file' = file
    BY <1>1, <2>1, LaidStays DEF LaidInv
  <2>2. ASSUME group.open, NEW T \in SUBSET Types, file' = Written(T)
        PROVE  DataLaid'
    <3>1. /\ DOMAIN file'.data = DOMAIN file.data
          /\ \A d \in DOMAIN file.data :
                /\ DOMAIN file'.data[d] = DOMAIN file.data[d]
                /\ d \notin Names(prog.frame, T) => file'.data[d] = file.data[d]
          /\ \A t \in T : file'.data[<<prog.frame, t, prog.key>>] = group.vals[t]
      BY <1>1, <2>2, WrittenIs
    <3>2. QED
      BY <1>1, <2>2, <3>1, WrittenLaid
  <2>3. CASE file' = [NoFile EXCEPT !.state = "broken"]
    <3>1. file'.data = <<>>
      BY <2>3 DEF NoFile
    <3>2. DOMAIN file'.data = {}
      BY <3>1
    <3>3. QED
      BY <3>2 DEF DataLaid
  <2>4. QED
    BY <2>1, <2>2, <2>3, EndsAre
<1>3. QED
  BY <1>1, <1>2 DEF LaidInv, ProgLaid

\* and every step of one.
LEMMA WritesLaid ==
    ASSUME BaseInv, BaseInv', LaidInv, Writes \/ Fails, UNCHANGED idenVars
    PROVE  LaidInv'
<1>1. NFramesOut' = NFramesOut
  BY WantedFixed DEF idenVars
<1>2. CASE OpenFile \/ OpenFileFails
  <2>1. /\ SameFrame /\ prog.pc = "open" /\ group' = group /\ (Went("root") \/ Threw)
        /\ \/ file' = file /\ Threw
           \/ file'.data = IF Appends THEN file.data ELSE <<>>
    BY <1>2, OpenStep
  <2>2. ASSUME NEW d \in DOMAIN file'.data
        PROVE  d \in DOMAIN file.data /\ file'.data[d] = file.data[d]
    BY <2>1, <2>2
  <2>3. DataLaid'
    BY <1>1, <2>2, LaidStays DEF LaidInv
  <2>4. prog'.pc \in InOrder => prog'.pc = "root" /\ (prog.kind = "process" => file'.data = <<>>)
    BY <2>1 DEF Went, Threw, InOrder, Writing, Appends
  <2>5. prog'.outside = prog.outside
    BY <2>1 DEF Went, Threw
  <2>6. QED
    BY <2>1, <2>2, <2>3, <2>4, <2>5, ProgLaidStays DEF LaidInv, SameFrame
<1>3. ASSUME SameFrame, group' = group, file'.data = file.data, prog'.outside = prog.outside, prog.pc \in InOrder
      PROVE  LaidInv'
  BY <1>1, <1>3, LaidStays, ProgLaidStays DEF LaidInv, SameFrame
<1>4. CASE WriteRoot \/ WriteRootFails
  BY <1>3, <1>4, RootStep DEF Went, Threw, InOrder
<1>5. CASE OpenGroup \/ OpenGroupFails
  BY <1>5, GroupLaid
<1>6. CASE WriteMeta
  <2>1. /\ SameFrame /\ prog.pc = "meta" /\ group' = group /\ file'.data = file.data /\ (Went("store") \/ Threw)
    BY <1>6, MetaStep
  <2>2. QED
    BY <1>3, <2>1 DEF Went, Threw, InOrder, Writing
<1>7. CASE StoreParticles
  BY <1>7, StoredLaid
<1>8. CASE CloseGroup \/ CloseGroupFails
  BY <1>8, CloseLaid
<1>9. CASE WriteList \/ WriteListFails
  <2>1. /\ SameFrame /\ prog.pc = "group" /\ group' = group /\ file'.data = file.data /\ (Went("done") \/ Threw)
    BY <1>9, ListStep
  <2>2. QED
    BY <1>3, <2>1 DEF Went, Threw, InOrder
<1>10. QED
  BY <1>2, <1>4, <1>5, <1>6, <1>7, <1>8, <1>9 DEF Writes, Fails

-----------------------------------------------------------------------------
(* What a program that starts reads, and the tracks it links                  *)

\* A data set is an array from 0 on.
LEMMA WidthIs ==
    ASSUME BaseInv, NEW d \in DOMAIN file.data
    PROVE  \E n \in Nat \ {0} : DOMAIN file.data[d] = 0 .. n - 1 /\ Width(d) = n
<1>1. PICK n \in Nat \ {0} : DOMAIN file.data[d] = 0 .. n - 1
  BY DEF BaseInv, FileOK
<1>2. Cardinality(0 .. n - 1) = n
  BY FS_Interval
<1>3. QED
  BY <1>1, <1>2 DEF Width

\* The arrays of process are alike: all of them are read, as far as they go.
LEMMA ProcessWidth ==
    ASSUME BaseInv, DataLaid, NEW rk, CanRead(IdenPairs(rk)), NEW f \in 1 .. file.planes
    PROVE  \E n \in Nat \ {0} :
              /\ \A p \in IdenPairs(rk) : /\ <<f, p[1], p[2]>> \in DOMAIN file.data
                                          /\ DOMAIN file.data[<<f, p[1], p[2]>>] = 0 .. n - 1
                                          /\ SizeOf(f, p) = n /\ Loaded(IdenPairs(rk), f, p)
              /\ NumEntries(IdenPairs(rk), f) = n
<1>1. PICK P : P = IdenPairs(rk)
  OBVIOUS
<1>2. P = {<<XPOS, rk>>, <<DX, rk>>}
  BY <1>1 DEF IdenPairs
<1>3. PICK x, e : x = <<f, XPOS, rk>> /\ e = <<f, DX, rk>>
  OBVIOUS
<1>4. x \in DOMAIN file.data /\ e \in DOMAIN file.data
  BY <1>1, <1>2, <1>3 DEF CanRead
<1>5. DOMAIN file.data[x] = DOMAIN file.data[e]
  <2>1. Alike(x, e) /\ x[1] = e[1] /\ x[3] = e[3]
    BY <1>3, TypesApart DEF Alike, Kinds
  <2>2. QED
    BY <1>4, <2>1 DEF DataLaid
<1>6. PICK n \in Nat \ {0} : DOMAIN file.data[x] = 0 .. n - 1 /\ Width(x) = n
  BY <1>4, WidthIs
<1>7. ASSUME NEW p \in P
      PROVE  /\ <<f, p[1], p[2]>> \in DOMAIN file.data
             /\ DOMAIN file.data[<<f, p[1], p[2]>>] = 0 .. n - 1 /\ SizeOf(f, p) = n
  <2>1. <<f, p[1], p[2]>> \in {x, e}
    BY <1>2, <1>3, <1>7
  <2>2. QED
    BY <1>4, <1>5, <1>6, <2>1 DEF SizeOf, Width
<1>8. \A p \in P : SizeOf(f, p) = n /\ n <= SizeOf(f, p) /\ Loaded(P, f, p)
  <2>1. \A p \in P : SizeOf(f, p) = n
    BY Zenon, <1>7
  <2>2. n <= n
    OBVIOUS
  <2>3. QED
    BY <2>1, <2>2 DEF Loaded
<1>9. NumEntries(P, f) = n
  <2>1. {SizeOf(f, p) : p \in P} = {n}
    BY <1>2, <1>8
  <2>2. QED
    BY <1>8, <2>1 DEF NumEntries
<1>10. QED
  BY <1>1, <1>7, <1>8, <1>9

\* A program that starts reads the arrays of process inside their bounds.
LEMMA NothingReadOutside ==
    ASSUME BaseInv, DataLaid, NEW rk, CanRead(IdenPairs(rk))
    PROVE  ReadsOutside(IdenPairs(rk)) = FALSE
<1>1. ASSUME NEW f \in 1 .. file.planes, NEW i \in 0 .. NumEntries(IdenPairs(rk), f) - 1, NEW p \in IdenPairs(rk)
      PROVE  Inside(IdenPairs(rk), f, p, i)
  <2>1. PICK n \in Nat \ {0} :
          /\ SizeOf(f, p) = n /\ Loaded(IdenPairs(rk), f, p) /\ NumEntries(IdenPairs(rk), f) = n
    BY ProcessWidth
  <2>2. QED
    BY <2>1 DEF Inside
<1>2. QED
  BY <1>1 DEF ReadsOutside

\* A track as it is linked: from its first particle on, while there is a next one.
LinkedFrom(c, kept, links, lo, a) ==
    /\ \A g \in lo .. file.planes :
         /\ c[g] = IF g = lo THEN a ELSE Linked(links, g - 1, c[g - 1])
         /\ c[g] \in {-1} \cup kept[g]
    /\ TrackFrom(links, lo, a) = [g \in {h \in lo .. file.planes : c[h] >= 0} |-> c[g]]

\* There is such a c.
LEMMA FromIs ==
    ASSUME NEW kept, kept \in Kept, file.planes \in Nat, MaxFound \in Nat, NEW links \in Links(kept),
           NEW lo \in 1 .. file.planes - 1, NEW a \in kept[lo]
    PROVE  \E c : LinkedFrom(c, kept, links, lo, a)
<1>2. PICK hi : hi = file.planes
  OBVIOUS
<1>3. /\ DOMAIN links = 1 .. hi - 1
      /\ \A f \in 1 .. hi - 1 : links[f] \subseteq kept[f] \X kept[f + 1]
  BY <1>2 DEF Links
<1>4. lo \in 1 .. hi - 1 /\ lo \in Int /\ hi \in Int /\ a \in kept[lo]
  BY <1>2
<1>5. \A g \in 1 .. hi : kept[g] \in SUBSET Nat
  BY <1>2 DEF Kept
<1> DEFINE W == [g \in lo .. hi |-> {-1} \cup kept[g]]
           L == (lo .. hi) \X (Nat \cup {-1})
           F == [x \in L |-> Linked(links, x[1], x[2])]
<1>6. ASSUME NEW g \in lo + 1 .. hi, NEW v \in W[g - 1]
      PROVE  Linked(links, g - 1, v) \in W[g] /\ F[<<g - 1, v>>] = Linked(links, g - 1, v)
  <2>1. g - 1 \in lo .. hi /\ g - 1 \in 1 .. hi - 1 /\ g \in lo .. hi /\ g - 1 + 1 = g
    BY <1>4
  <2>2. v \in {-1} \cup kept[g - 1] /\ v \in Nat \cup {-1}
    <3>1. v \in {-1} \cup kept[g - 1]
      BY <2>1
    <3>2. kept[g - 1] \in SUBSET Nat
      BY <1>5, <2>1
    <3>3. QED
      BY <3>1, <3>2
  <2>3. F[<<g - 1, v>>] = Linked(links, g - 1, v)
    <3>1. <<g - 1, v>> \in L /\ <<g - 1, v>>[1] = g - 1 /\ <<g - 1, v>>[2] = v
      BY <2>1, <2>2
    <3> HIDE DEF L
    <3>2. QED
      BY <3>1
  <2>4. NextOf(links, g - 1, v) \in {-1} \cup kept[g]
    <3>1. CASE \E p \in links[g - 1] : p[1] = v
      <4>1. PICK p : p = CHOOSE q \in links[g - 1] : q[1] = v
        OBVIOUS
      <4>2. p \in links[g - 1]
        BY <3>1, <4>1
      <4>3. NextOf(links, g - 1, v) = p[2]
        BY <3>1, <4>1 DEF NextOf
      <4>4. p \in kept[g - 1] \X kept[g]
        BY <1>3, <2>1, <4>2
      <4>5. QED
        BY <4>3, <4>4
    <3>2. CASE ~\E p \in links[g - 1] : p[1] = v
      BY <3>2 DEF NextOf
    <3>3. QED
      BY <3>1, <3>2
  <2>5. Linked(links, g - 1, v) \in {-1} \cup kept[g]
    BY <2>4 DEF Linked
  <2>6. W[g] = {-1} \cup kept[g]
    BY <2>1
  <2>7. QED
    BY <2>3, <2>5, <2>6
<1>7. a \in W[lo]
  BY <1>4
<1> HIDE DEF F, L
<1> DEFINE body(at) == [g \in lo .. hi |-> IF g = lo THEN a ELSE Linked(links, g - 1, at[g - 1])]
           at == CHOOSE at : at = body(at)
<1>8. \E c : c = body(c)
  <2> HIDE DEF W
  <2>1. \A g \in lo + 1 .. hi : \A v : v \in W[g - 1] => F[<<g - 1, v>>] \in W[g]
    <3>1. ASSUME NEW g \in lo + 1 .. hi, NEW v, v \in W[g - 1]
          PROVE  F[<<g - 1, v>>] \in W[g]
      BY <1>6, <3>1
    <3>2. QED
      BY <3>1
  <2>2. PICK c : IsChain(c, lo, hi, a, F, W)
    BY <1>4, <1>7, <2>1, ChainExists
  <2>3. /\ c = [g \in lo .. hi |-> IF g = lo THEN a ELSE F[<<g - 1, c[g - 1]>>]]
        /\ \A g \in lo .. hi : c[g] \in W[g]
    BY <2>2 DEF IsChain
  <2>4. ASSUME NEW g \in lo .. hi, g # lo
        PROVE  F[<<g - 1, c[g - 1]>>] = Linked(links, g - 1, c[g - 1])
    <3>1. g \in lo + 1 .. hi /\ g - 1 \in lo .. hi
      BY <1>4, <2>4
    <3>2. QED
      BY <1>6, <2>3, <3>1
  <2>5. c = body(c)
    BY <2>3, <2>4
  <2>6. QED
    BY <2>5
<1>9. at = body(at)
  BY <1>8
<1>10. TrackFrom(links, lo, a) = [g \in {h \in DOMAIN at : at[h] >= 0} |-> at[g]]
  BY <1>2 DEF TrackFrom
<1> HIDE DEF at
<1>11. DOMAIN at = lo .. hi /\ \A g \in lo .. hi : at[g] = IF g = lo THEN a ELSE Linked(links, g - 1, at[g - 1])
  BY <1>9
<1>12. \A g \in lo .. hi : at[g] \in W[g]
  <2>1. \A g \in lo + 1 .. hi : at[g - 1] \in W[g - 1] => at[g] \in W[g]
    <3>1. SUFFICES ASSUME NEW g \in lo + 1 .. hi, at[g - 1] \in W[g - 1]
                   PROVE  at[g] \in W[g]
      OBVIOUS
    <3>2. g \in lo .. hi /\ g # lo
      BY <1>4
    <3>3. QED
      BY <1>6, <1>11, <3>1, <3>2
  <2>2. at[lo] \in W[lo]
    BY <1>4, <1>7, <1>11
  <2> HIDE DEF W
  <2>3. QED
    BY <1>4, <2>1, <2>2, ChainStays
<1>13. \A g \in lo .. hi : at[g] \in {-1} \cup kept[g]
  BY <1>12
<1>14. LinkedFrom(at, kept, links, lo, a)
  BY <1>2, <1>10, <1>11, <1>13 DEF LinkedFrom
<1>15. QED
  BY <1>14

\* A track is a function to particles that are kept.
LEMMA TrackIs ==
    ASSUME NEW kept, kept \in Kept, file.planes \in Nat, MaxFound \in Nat,
           NEW links \in Links(kept), NEW t \in Tracks(links)
    PROVE  /\ \A g \in DOMAIN t : g \in 1 .. file.planes /\ t[g] \in kept[g]
           /\ t = [g \in DOMAIN t |-> t[g]]
<1>1. PICK w : /\ w \in (DOMAIN links) \X UNION {links[h] : h \in DOMAIN links}
               /\ w[2] \in links[w[1]] /\ t = TrackFrom(links, w[1], w[2][1])
  BY DEF Tracks
<1>2. PICK lo, a : lo = w[1] /\ a = w[2][1]
  OBVIOUS
<1>3. lo \in 1 .. file.planes - 1 /\ a \in kept[lo]
  <2>1. /\ DOMAIN links = 1 .. file.planes - 1
        /\ \A f \in 1 .. file.planes - 1 : links[f] \subseteq kept[f] \X kept[f + 1]
    BY DEF Links
  <2>2. lo \in 1 .. file.planes - 1 /\ w[2] \in kept[lo] \X kept[lo + 1]
    BY <1>1, <1>2, <2>1
  <2>3. QED
    BY <1>2, <2>2
<1>4. PICK c :
        /\ \A g \in lo .. file.planes : c[g] \in {-1} \cup kept[g]
        /\ t = [g \in {h \in lo .. file.planes : c[h] >= 0} |-> c[g]]
  <2>1. t = TrackFrom(links, lo, a)
    BY <1>1, <1>2
  <2>2. PICK c : LinkedFrom(c, kept, links, lo, a)
    BY <1>3, FromIs
  <2>3. QED
    BY <2>1, <2>2 DEF LinkedFrom
<1>5. ASSUME NEW g \in DOMAIN t
      PROVE  g \in 1 .. file.planes /\ t[g] \in kept[g]
  <2>1. g \in lo .. file.planes /\ c[g] >= 0 /\ t[g] = c[g]
    BY <1>4
  <2>2. c[g] \in {-1} \cup kept[g]
    BY <1>4, <2>1
  <2>3. QED
    BY <1>3, <2>1, <2>2
<1>6. t = [g \in DOMAIN t |-> t[g]]
  BY <1>4
<1>7. QED
  BY <1>5, <1>6

\* There are finitely many tracks.
LEMMA TracksFinite ==
    ASSUME NEW kept, kept \in Kept, file.planes \in Nat, MaxFound \in Nat, NEW links \in Links(kept)
    PROVE  IsFiniteSet(Tracks(links))
<1>1. PICK hi, M : hi = file.planes - 1 /\ M = 0 .. MaxFound
  OBVIOUS
<1> DEFINE I == {v \in (DOMAIN links) \X UNION {links[f] : f \in DOMAIN links} :
                    v[2] \in links[v[1]] /\ ~(v[1] > 1 /\ \E p \in links[v[1] - 1] : p[2] = v[2][1])}
           H == [w \in I |-> TrackFrom(links, w[1], w[2][1])]
<1>2. H \in Surjection(I, Tracks(links))
  <2>1. Tracks(links) = {TrackFrom(links, w[1], w[2][1]) : w \in I}
    BY DEF Tracks
  <2> HIDE DEF I
  <2>2. QED
    BY <2>1 DEF Surjection
<1>3. I \subseteq (1 .. hi) \X (M \X M)
  <2>1. DOMAIN links = 1 .. hi /\ \A f \in 1 .. hi : links[f] \subseteq kept[f] \X kept[f + 1]
    BY <1>1 DEF Links
  <2>2. \A f \in 1 .. hi : kept[f] \subseteq M /\ kept[f + 1] \subseteq M
    BY <1>1 DEF Kept
  <2>3. ASSUME NEW v \in I
        PROVE  v \in (1 .. hi) \X (M \X M)
    <3>1. v = <<v[1], v[2]>> /\ v[1] \in 1 .. hi /\ v[2] \in links[v[1]]
      BY <2>1
    <3>2. v[2] \in kept[v[1]] \X kept[v[1] + 1]
      BY <2>1, <3>1
    <3>3. v[2] \in M \X M
      BY <2>2, <3>1, <3>2
    <3>4. QED
      BY <3>1, <3>3
  <2> HIDE DEF I
  <2>4. QED
    BY <2>3
<1> HIDE DEF I, H
<1>4. IsFiniteSet(1 .. hi) /\ IsFiniteSet(M)
  <2>1. hi \in Int /\ 1 \in Int /\ 0 \in Int /\ MaxFound \in Int
    BY <1>1
  <2>2. IsFiniteSet(1 .. hi) /\ IsFiniteSet(0 .. MaxFound)
    BY <2>1, FS_Interval
  <2>3. QED
    BY <1>1, <2>2
<1>5. IsFiniteSet((1 .. hi) \X (M \X M))
  BY <1>4, FS_Product
<1>6. IsFiniteSet(I)
  BY <1>3, <1>5, FS_Subset
<1>7. QED
  BY <1>2, <1>6, FS_Surjection

\* What follows a particle in its track is kept of the frame after it.
LEMMA TrackedNext ==
    ASSUME NEW kept, kept \in Kept, file.planes \in Nat, MaxFound \in Nat,
           NEW tracks \in TrackLists(kept), NEW f \in Nat, NEW i
    PROVE  LET v == Tracked(tracks, f, i).val[NEXT_INDX] IN
           v = -1 \/ (f + 1 \in 1 .. file.planes /\ v \in kept[f + 1])
<1>1. PICK links \in Links(kept) : tracks \in SetToSeqs(Tracks(links))
  BY DEF TrackLists
<1>2. IsFiniteSet(Tracks(links))
  BY TracksFinite
<1>3. \A n \in 1 .. Len(tracks) : tracks[n] \in Tracks(links)
  BY <1>1, <1>2, OrderIs
<1>4. ASSUME NEW n \in 1 .. Len(tracks), f + 1 \in DOMAIN tracks[n]
      PROVE  f + 1 \in 1 .. file.planes /\ tracks[n][f + 1] \in kept[f + 1]
  BY <1>3, <1>4, TrackIs
<1> DEFINE on == {n \in 1 .. Len(tracks) : f \in DOMAIN tracks[n] /\ tracks[n][f] = i}
           beside == IF \E n \in on : f + 1 \in DOMAIN tracks[n]
                     THEN tracks[CHOOSE n \in on : f + 1 \in DOMAIN tracks[n]][f + 1] ELSE -1
<1>5. Tracked(tracks, f, i).val[NEXT_INDX] = beside
  BY TypesApart DEF Tracked
<1>6. \A n \in on : n \in 1 .. Len(tracks)
  OBVIOUS
<1> HIDE DEF on
<1>7. CASE \E n \in on : f + 1 \in DOMAIN tracks[n]
  <2>1. PICK n : n = CHOOSE m \in on : f + 1 \in DOMAIN tracks[m]
    OBVIOUS
  <2>2. n \in on /\ f + 1 \in DOMAIN tracks[n]
    BY <1>7, <2>1
  <2>3. beside = tracks[n][f + 1]
    BY <1>7, <2>1
  <2>4. QED
    BY <1>4, <1>5, <1>6, <2>2, <2>3
<1>8. CASE ~\E n \in on : f + 1 \in DOMAIN tracks[n]
  BY <1>5, <1>8
<1>9. QED
  BY <1>7, <1>8

\* A particle of a frame was read from an index that is kept.
LEMMA ReadBox ==
    ASSUME MaxFound \in Nat, NEW kind, NEW k, NEW rk, NEW kept, NEW F, Reads(kind, k, rk, kept, F),
           NEW f \in 1 .. file.planes, NEW m \in 1 .. Len(box'[f])
    PROVE  \E i \in kept[f] : box'[f][m] = F[f][i]
<1>1. PICK K, G, b, S : K = kept[f] /\ G = F[f] /\ b = box'[f] /\ S = {G[i] : i \in K}
  OBVIOUS
<1>2. b = SetToSeq(S) /\ \A i \in K : G[i].ind = i
  BY <1>1 DEF Reads
<1>3. Indexes(G, K, S)
  BY <1>1, <1>2 DEF Indexes
<1>4. IsFiniteSet(K)
  <2>1. K \in SUBSET (0 .. MaxFound)
    BY <1>1 DEF Reads, Kept
  <2>2. IsFiniteSet(0 .. MaxFound)
    BY FS_Interval
  <2>3. QED
    BY <2>1, <2>2, FS_Subset
<1>5. /\ b \in SetToSeqs(S) /\ IsFiniteSet(S)
      /\ Len(b) \in Nat /\ DOMAIN b = 1 .. Len(b)
      /\ \A l \in 1 .. Len(b) : b[l].ind \in K /\ b[l] = G[b[l].ind]
      /\ \A i \in K : \E l \in 1 .. Len(b) : b[l] = G[i]
  BY <1>2, <1>3, <1>4, IndexedIs
<1>6. QED
  BY <1>1, <1>5

\* A frame that tracking starts with goes no further than the arrays of process.
LEMMA TrackingFits ==
    ASSUME BaseInv, DataLaid, NEW k, NEW rk, StartTracking(k, rk), UNCHANGED idenVars
    PROVE  /\ prog'.outside = FALSE /\ prog'.kind = "tracking"
           /\ \A d \in DOMAIN file.data : OfProcess(d) => 0 .. prog'.size[d[1]] - 1 \subseteq DOMAIN file.data[d]
           /\ \A f \in 1 .. NFramesOut : \A m \in 1 .. Len(box'[f]) :
                NextFits(prog'.size, f, box'[f][m].val[NEXT_INDX])
<1>1. PICK kept : kept \in Kept /\ Passing(IdenPairs(rk), kept) /\ \E tracks \in TrackLists(kept) :
                /\ Reads("tracking", k, rk, kept,
                         [f \in 1 .. file.planes |-> [i \in kept[f] |-> Tracked(tracks, f, i)]])
                /\ prog'.outside = ReadsOutside(IdenPairs(rk)) /\ prog'.tracks = tracks
  BY TrackingReads
<1>2. PICK tracks : tracks \in TrackLists(kept)
                /\ Reads("tracking", k, rk, kept,
                         [f \in 1 .. file.planes |-> [i \in kept[f] |-> Tracked(tracks, f, i)]])
                /\ prog'.outside = ReadsOutside(IdenPairs(rk)) /\ prog'.tracks = tracks
  BY <1>1
<1>3. CanRead(IdenPairs(rk)) /\ kept \in Kept /\ Passing(IdenPairs(rk), kept)
  BY <1>1 DEF StartTracking
<1>4. PICK F : F = [f \in 1 .. file.planes |-> [i \in kept[f] |-> Tracked(tracks, f, i)]]
  OBVIOUS
<1>5. /\ box' = [f \in 1 .. file.planes |-> SetToSeq({F[f][i] : i \in kept[f]})]
      /\ prog'.size = [f \in 1 .. file.planes |-> MaxInd(kept[f]) + 1]
      /\ \A f \in 1 .. file.planes : \A i \in kept[f] : F[f][i].ind = i
      /\ file.planes > 0 /\ prog'.kind = "tracking" /\ prog = Nobody /\ runs # {}
  <2>1. Reads("tracking", k, rk, kept, F)
    BY <1>2, <1>4
  <2>2. QED
    BY <2>1 DEF Reads, Free, Recorded
<1>6. IdenDone /\ IdenTypeOK /\ NFramesOut \in Nat /\ Len(wrapper) = NFramesOut /\ MaxFound \in Nat
  BY <1>5, NFramesType, MaxFoundType DEF BaseInv, RunsOK, IdenInv, IdenDone
<1>7. file.planes = NFramesOut /\ file.planes \in Nat
  BY <1>5, <1>6 DEF BaseInv, FileOK
<1>8. prog'.outside = FALSE
  BY <1>2, <1>3, NothingReadOutside
<1>9. \A f \in 1 .. file.planes : kept[f] \in SUBSET Nat /\ IsFiniteSet(kept[f])
  <2>1. ASSUME NEW f \in 1 .. file.planes
        PROVE  kept[f] \in SUBSET Nat /\ IsFiniteSet(kept[f])
    <3>1. kept[f] \in SUBSET (0 .. MaxFound)
      BY <1>3 DEF Kept
    <3>2. IsFiniteSet(0 .. MaxFound)
      BY <1>6, FS_Interval
    <3>3. IsFiniteSet(kept[f])
      BY <3>1, <3>2, FS_Subset
    <3>4. QED
      BY <3>1, <3>3
  <2>2. QED
    BY <2>1
<1>10. \A f \in 1 .. file.planes : /\ prog'.size[f] = MaxInd(kept[f]) + 1
                                   /\ MaxInd(kept[f]) \in {0} \cup kept[f]
                                   /\ \A x \in kept[f] : x <= MaxInd(kept[f])
  BY <1>5, <1>9, MaxIndIs
<1>11. ASSUME NEW d \in DOMAIN file.data, OfProcess(d)
       PROVE  0 .. prog'.size[d[1]] - 1 \subseteq DOMAIN file.data[d]
  <2>1. PICK f : f = d[1]
    OBVIOUS
  <2>2. f \in 1 .. file.planes
    BY <1>7, <2>1 DEF DataLaid
  <2>3. PICK n \in Nat \ {0} :
              /\ \A p \in IdenPairs(rk) : /\ <<f, p[1], p[2]>> \in DOMAIN file.data
                                          /\ DOMAIN file.data[<<f, p[1], p[2]>>] = 0 .. n - 1
              /\ NumEntries(IdenPairs(rk), f) = n
    BY <1>3, <2>2, ProcessWidth
  <2>4. PICK x : x = <<f, XPOS, rk>>
    OBVIOUS
  <2>5. x \in DOMAIN file.data /\ DOMAIN file.data[x] = 0 .. n - 1
    <3>1. <<XPOS, rk>> \in IdenPairs(rk) /\ <<XPOS, rk>>[1] = XPOS /\ <<XPOS, rk>>[2] = rk
      BY DEF IdenPairs
    <3>2. QED
      BY <2>3, <2>4, <3>1
  <2>6. OfProcess(x) /\ x[1] = d[1] /\ x[3] = rk /\ Alike(x, d)
    BY <1>11, <2>1, <2>4, TypesApart DEF OfProcess, Alike, Kinds
  <2>7. d[3] = rk
    BY <1>11, <2>5, <2>6 DEF DataLaid
  <2>8. DOMAIN file.data[d] = 0 .. n - 1
    BY <2>5, <2>6, <2>7 DEF DataLaid
  <2>9. \A i \in kept[f] : i < n
    BY <1>3, <2>2, <2>3 DEF Passing
  <2>10. PICK M : M = MaxInd(kept[f])
    OBVIOUS
  <2>11. M \in Nat /\ M < n /\ prog'.size[f] = M + 1
    BY <1>9, <1>10, <2>2, <2>9, <2>10
  <2>12. QED
    BY <2>1, <2>8, <2>11
<1>12. ASSUME NEW f \in 1 .. NFramesOut, NEW m \in 1 .. Len(box'[f])
       PROVE  NextFits(prog'.size, f, box'[f][m].val[NEXT_INDX])
  <2>1. PICK i \in kept[f] : box'[f][m] = F[f][i]
    BY <1>2, <1>4, <1>6, <1>7, ReadBox
  <2>2. box'[f][m] = Tracked(tracks, f, i)
    BY <1>4, <1>7, <2>1
  <2>6. PICK v : v = Tracked(tracks, f, i).val[NEXT_INDX]
    OBVIOUS
  <2>7. v = -1 \/ (f + 1 \in 1 .. file.planes /\ v \in kept[f + 1])
    BY <1>2, <1>3, <1>6, <1>7, <2>6, TrackedNext
  <2>8. DOMAIN prog'.size = 1 .. file.planes
    BY <1>5
  <2>9. v \in Int
    BY <1>9, <2>7
  <2>10. ASSUME f + 1 \in DOMAIN prog'.size
         PROVE  v < prog'.size[f + 1]
    <3>1. PICK g, M : g = f + 1 /\ M = MaxInd(kept[g])
      OBVIOUS
    <3>2. g \in 1 .. file.planes /\ prog'.size[g] = M + 1 /\ M \in Nat /\ \A x \in kept[g] : x <= M
      BY <1>9, <1>10, <2>8, <2>10, <3>1
    <3>3. v <= M
      BY <2>7, <3>1, <3>2
    <3>4. QED
      BY <2>9, <3>1, <3>2, <3>3
  <2>11. QED
    BY <2>2, <2>6, <2>9, <2>10 DEF NextFits
<1>13. QED
  BY <1>5, <1>8, <1>11, <1>12

\* Every start of a program keeps LaidInv.
LEMMA StartsLaid ==
    ASSUME BaseInv, LaidInv, Starts, UNCHANGED idenVars
    PROVE  LaidInv'
<1>1. /\ prog' # Nobody /\ UNCHANGED <<file, group>> /\ prog'.pc = "open" /\ prog = Nobody
      /\ DOMAIN prog'.size = 1 .. NFramesOut
  BY StartsBegin DEF Begins
<1>2. NFramesOut' = NFramesOut /\ ~group.open
  BY <1>1, WantedFixed DEF idenVars, BaseInv, GroupOK
<1>3. DataLaid'
  BY <1>1, <1>2, LaidStays DEF LaidInv
<1>4. /\ prog'.outside = FALSE
      /\ prog'.kind = "tracking" =>
            /\ \A d \in DOMAIN file.data : OfProcess(d) => 0 .. prog'.size[d[1]] - 1 \subseteq DOMAIN file.data[d]
            /\ \A f \in 1 .. NFramesOut : \A m \in 1 .. Len(box'[f]) :
                 NextFits(prog'.size, f, box'[f][m].val[NEXT_INDX])
  <2>1. PICK k \in Key, rk \in Key : StartProcess(k) \/ StartTracking(k, rk) \/ StartPhi6(k, rk)
    BY DEF Starts
  <2>2. CASE StartProcess(k)
    BY <2>2, StartProcessBegins
  <2>3. CASE StartTracking(k, rk)
    BY <2>3, TrackingFits DEF LaidInv
  <2>4. CASE StartPhi6(k, rk)
    <3>1. CanRead(IdenPairs(rk))
      BY <2>4 DEF StartPhi6
    <3>2. ReadsOutside(IdenPairs(rk)) = FALSE
      BY <3>1, NothingReadOutside DEF LaidInv
    <3>3. PICK kept, F : Reads("phi6", k, rk, kept, F) /\ prog'.outside = ReadsOutside(IdenPairs(rk))
      BY <2>4, Phi6Reads
    <3>4. prog'.kind = "phi6"
      BY <3>3 DEF Reads
    <3>5. QED
      BY <3>2, <3>3, <3>4
  <2>5. QED
    BY <2>1, <2>2, <2>3, <2>4
<1>5. ProgLaid'
  BY <1>1, <1>2, <1>4 DEF ProgLaid, InOrder, Writing
<1>6. QED
  BY <1>3, <1>5 DEF LaidInv

\* Without a file and a program LaidInv holds.
LEMMA LaidInvInit == HdfInit => LaidInv
<1> SUFFICES ASSUME HdfInit PROVE LaidInv
  OBVIOUS
<1>1. prog = Nobody /\ file.data = <<>>
  BY DEF HdfInit, NoFile
<1>2. DOMAIN file.data = {}
  BY <1>1
<1>3. QED
  BY <1>1, <1>2 DEF LaidInv, DataLaid, ProgLaid

\* Every step keeps LaidInv.
LEMMA LaidInvStep ==
    ASSUME BaseInv, LaidInv, [HdfNext]_<<idenVars, hdfVars>>
    PROVE  LaidInv'
<1>1. CASE (Writes \/ Fails) /\ UNCHANGED idenVars
  BY <1>1, BaseInvStep, WritesLaid
<1>2. CASE Ends /\ UNCHANGED idenVars
  BY <1>2, EndsLaid
<1>3. CASE Starts /\ UNCHANGED idenVars
  BY <1>3, StartsLaid
<1>4. CASE IdenStep /\ UNCHANGED hdfVars
  <2>1. prog' = Nobody /\ file' = file
    BY <1>4, IdenBase
  <2>2. NFramesOut' = NFramesOut
    <3>1. UNCHANGED <<stack, avgCount>>
      BY <1>4 DEF IdenStep, IdenPlane, AvgPlane, AvgFrame
    <3>2. QED
      BY <3>1, WantedFixed
  <2>3. QED
    BY <2>1, <2>2, LaidStays DEF LaidInv, ProgLaid
<1>5. CASE UNCHANGED <<idenVars, hdfVars>>
  <2>1. UNCHANGED <<file, prog, box, group, runs>> /\ UNCHANGED idenVars
    BY <1>5 DEF hdfVars, idenVars
  <2>2. NFramesOut' = NFramesOut
    BY <2>1, WantedFixed DEF idenVars
  <2>3. DataLaid'
    BY <2>1, <2>2, LaidStays DEF LaidInv
  <2>4. Types' = Types /\ \A f : Names(f, Types)' = Names(f, Types)
    BY <2>1 DEF Types, Names
  <2>5. ProgLaid'
    BY <2>1, <2>2, <2>4 DEF LaidInv, ProgLaid
  <2>6. QED
    BY <2>3, <2>5 DEF LaidInv
<1>6. QED
  BY <1>1, <1>2, <1>3, <1>4, <1>5 DEF HdfNext

-----------------------------------------------------------------------------
(* What a sweep reads                                                         *)

\* The arrays of tracking are alike and no longer than those of process: an index
\* is inside all of them or none.
LEMMA TrackWidth ==
    ASSUME BaseInv, DataLaid, NEW rk, NEW tk, CanRead(TrackPairs(rk, tk)), NEW f \in 1 .. file.planes
    PROVE  \E n \in Nat \ {0} :
              /\ \A t \in TypesOf("tracking") :
                    /\ <<f, t, tk>> \in DOMAIN file.data /\ DOMAIN file.data[<<f, t, tk>>] = 0 .. n - 1
                    /\ \A i \in Int : Inside(TrackPairs(rk, tk), f, <<t, tk>>, i) <=> i < n
              /\ NumEntries(TrackPairs(rk, tk), f) = n
<1>1. PICK P, x, y : P = TrackPairs(rk, tk) /\ x = <<f, XPOS, rk>> /\ y = <<f, NEXT_INDX, tk>>
  OBVIOUS
<1>2. /\ \A p \in P : p = <<XPOS, rk>> \/ \E t \in TypesOf("tracking") : p = <<t, tk>>
      /\ <<XPOS, rk>> \in P /\ \A t \in TypesOf("tracking") : <<t, tk>> \in P
  BY <1>1 DEF TrackPairs
<1>3. x \in DOMAIN file.data /\ \A t \in TypesOf("tracking") : <<f, t, tk>> \in DOMAIN file.data
  <2>1. \A p \in P : <<f, p[1], p[2]>> \in DOMAIN file.data
    BY <1>1 DEF CanRead
  <2>2. <<f, <<XPOS, rk>>[1], <<XPOS, rk>>[2]>> \in DOMAIN file.data
    BY <1>2, <2>1
  <2>3. \A t \in TypesOf("tracking") : <<f, <<t, tk>>[1], <<t, tk>>[2]>> \in DOMAIN file.data
    BY <1>2, <2>1
  <2>4. QED
    BY <1>1, <2>2, <2>3
<1>4. NEXT_INDX \in TypesOf("tracking")
  BY TypesApart
<1>5. PICK n \in Nat \ {0} : DOMAIN file.data[y] = 0 .. n - 1 /\ Width(y) = n
  BY <1>1, <1>3, <1>4, WidthIs
<1>6. PICK m \in Nat \ {0} : DOMAIN file.data[x] = 0 .. m - 1 /\ Width(x) = m
  BY <1>3, WidthIs
<1>7. ASSUME NEW t \in TypesOf("tracking")
      PROVE  DOMAIN file.data[<<f, t, tk>>] = 0 .. n - 1 /\ SizeOf(f, <<t, tk>>) = n
  <2>1. PICK z : z = <<f, t, tk>>
    OBVIOUS
  <2>2. Alike(z, y) /\ z[1] = y[1] /\ z[3] = y[3] /\ z \in DOMAIN file.data /\ y \in DOMAIN file.data
    BY <1>1, <1>3, <1>4, <2>1 DEF Alike, Kinds
  <2>3. DOMAIN file.data[z] = DOMAIN file.data[y]
    BY <2>2 DEF DataLaid
  <2>4. Cardinality(DOMAIN file.data[z]) = n
    BY <1>5, <2>3 DEF Width
  <2>5. QED
    BY <1>5, <2>1, <2>3, <2>4 DEF SizeOf
<1>8. SizeOf(f, <<XPOS, rk>>) = m
  BY <1>1, <1>6 DEF SizeOf, Width
<1>9. n <= m
  <2>1. OfProcess(x) /\ OfTracking(y) /\ x[1] = y[1] /\ x \in DOMAIN file.data /\ y \in DOMAIN file.data
    BY <1>1, <1>3, <1>4, TypesApart DEF OfProcess, OfTracking
  <2>2. 0 .. n - 1 \subseteq 0 .. m - 1
    BY <1>5, <1>6, <2>1 DEF DataLaid
  <2>3. n - 1 \in 0 .. n - 1
    OBVIOUS
  <2>4. QED
    BY <2>2, <2>3
<1>10. \A p \in P : SizeOf(f, p) \in {n, m} /\ n <= SizeOf(f, p)
  <2>1. ASSUME NEW p \in P
        PROVE  SizeOf(f, p) \in {n, m}
    BY <1>2, <1>7, <1>8
  <2>2. QED
    BY <1>9, <2>1
<1>11. ASSUME NEW t \in TypesOf("tracking"), NEW i \in Int
       PROVE  Inside(P, f, <<t, tk>>, i) <=> i < n
  <2>1. SizeOf(f, <<t, tk>>) = n
    BY <1>7
  <2>2. \A p \in P : SizeOf(f, p) >= n
    BY <1>10
  <2>3. Loaded(P, f, <<t, tk>>)
    BY <2>1, <2>2 DEF Loaded
  <2>4. QED
    BY <2>1, <2>3 DEF Inside
<1>12. NumEntries(P, f) = n
  <2>1. PICK S : S = {SizeOf(f, p) : p \in P}
    OBVIOUS
  <2>2. n \in S
    <3>1. <<NEXT_INDX, tk>> \in P /\ SizeOf(f, <<NEXT_INDX, tk>>) = n
      BY <1>2, <1>4, <1>7
    <3>2. QED
      BY <2>1, <3>1
  <2>3. \A c \in S : (\A p \in P : c <= SizeOf(f, p)) => c = n
    <3>1. SUFFICES ASSUME NEW c \in S, \A p \in P : c <= SizeOf(f, p) PROVE c = n
      OBVIOUS
    <3>2. c \in {n, m} /\ n <= c
      BY <1>10, <2>1
    <3>3. <<NEXT_INDX, tk>> \in P /\ SizeOf(f, <<NEXT_INDX, tk>>) = n
      BY <1>2, <1>4, <1>7
    <3>4. c <= n
      BY <3>1, <3>3
    <3>5. QED
      BY <3>2, <3>4
  <2>4. NumEntries(P, f) = CHOOSE c \in S : \A p \in P : c <= SizeOf(f, p)
    BY <2>1 DEF NumEntries
  <2>5. \A p \in P : n <= SizeOf(f, p)
    BY <1>10
  <2>6. QED
    BY <2>2, <2>3, <2>4, <2>5
<1>13. QED
  BY <1>1, <1>3, <1>7, <1>11, <1>12

\* The Step and the next index of a Walk, by name.
NextRead(tk, f, i) == Value(f, <<NEXT_INDX, tk>>, i)
\* The next of a walk, from index i of frame f.
StepFrom(rk, tk, k, j, f, i) ==
    LET next == NextRead(tk, f, i)
    IN  CASE next < 0 -> End
          [] next >= 0 /\ f = file.planes -> Broken
          [] OTHER ->
             IF \E t \in TypesOf("tracking") : ~Inside(TrackPairs(rk, tk), f + 1, <<t, tk>>, next) THEN Outside
             ELSE IF Value(f + 1, <<PREV_INDX, tk>>, next) # i THEN Broken
             ELSE IF Value(f + 1, <<TRACKID, tk>>, next) # Value(k, <<TRACKID, tk>>, j) THEN Broken
             ELSE next

\* Where a walk under tk may be in frame f.
Walked(tk, f) == {v \in Int : v # Outside /\ (v >= 0 => f <= file.planes /\ v \in DOMAIN file.data[<<f, NEXT_INDX, tk>>])}

\* A step of a walk from where it may be leads to where it may be,
LEMMA StepStays ==
    ASSUME BaseInv, DataLaid, NEW rk, NEW tk, CanRead(TrackPairs(rk, tk)), NEW k, NEW j,
           file.planes \in Nat, NEW f \in 1 .. file.planes, NEW i \in Walked(tk, f), i >= 0
    PROVE  StepFrom(rk, tk, k, j, f, i) \in Walked(tk, f + 1)
<1>1. PICK d, next, step : /\ d = <<f, NEXT_INDX, tk>> /\ next = NextRead(tk, f, i)
                           /\ step = StepFrom(rk, tk, k, j, f, i)
  OBVIOUS
<1>2. NEXT_INDX \in TypesOf("tracking")
  BY TypesApart
<1>3. d \in DOMAIN file.data /\ i \in DOMAIN file.data[d] /\ next = file.data[d][i]
  <2>1. d \in DOMAIN file.data
    BY <1>1, <1>2, TrackWidth
  <2>2. next = file.data[d][i]
    BY <1>1 DEF NextRead, Value
  <2>3. QED
    BY <1>1, <2>1, <2>2 DEF Walked
<1>4. next \in Int
  BY <1>1, <1>3 DEF DataLaid
<1>5. End \in Int /\ Broken \in Int /\ End < 0 /\ Broken < 0 /\ End # Outside /\ Broken # Outside
      /\ Outside \in Int /\ Outside < 0
  BY DEF End, Broken, Outside
<1>6. End \in Walked(tk, f + 1) /\ Broken \in Walked(tk, f + 1)
  BY <1>5 DEF Walked
<1>7. CASE next < 0
  BY <1>1, <1>6, <1>7 DEF StepFrom
<1>8. CASE next >= 0 /\ f = file.planes
  BY <1>1, <1>4, <1>6, <1>8 DEF StepFrom
<1>9. CASE next >= 0 /\ f # file.planes
  <2>1. PICK e : e = <<f + 1, NEXT_INDX, tk>>
    OBVIOUS
  <2>2. f + 1 \in 1 .. file.planes
    BY <1>9
  <2>3. PICK n \in Nat \ {0} : \A t \in TypesOf("tracking") :
            /\ <<f + 1, t, tk>> \in DOMAIN file.data /\ DOMAIN file.data[<<f + 1, t, tk>>] = 0 .. n - 1
            /\ \A l \in Int : Inside(TrackPairs(rk, tk), f + 1, <<t, tk>>, l) <=> l < n
    BY <2>2, TrackWidth
  <2>4. e \in DOMAIN file.data /\ DOMAIN file.data[e] = 0 .. n - 1
    BY <1>2, <2>1, <2>3
  <2>5. next \in DOMAIN file.data[e]
    <3>1. OfTracking(e) /\ d[2] = NEXT_INDX /\ e[1] = d[1] + 1 /\ e[3] = d[3]
      BY <1>1, <1>2, <2>1 DEF OfTracking
    <3>2. file.data[d][i] < 0 \/ file.data[d][i] \in DOMAIN file.data[e]
      BY <1>3, <2>4, <3>1 DEF DataLaid
    <3>3. QED
      BY <1>3, <1>4, <1>9, <3>2
  <2>6. next \in Walked(tk, f + 1)
    BY <1>4, <1>5, <1>9, <2>1, <2>2, <2>5 DEF Walked
  <2>7. \A t \in TypesOf("tracking") : Inside(TrackPairs(rk, tk), f + 1, <<t, tk>>, next)
    <3>1. next < n
      BY <1>4, <2>4, <2>5
    <3>2. QED
      BY <1>4, <2>3, <3>1
  <2>8. step \in {next, Broken}
    <3>1. ~(next < 0) /\ ~(next >= 0 /\ f = file.planes)
      BY <1>4, <1>9
    <3>2. step = IF \E t \in TypesOf("tracking") : ~Inside(TrackPairs(rk, tk), f + 1, <<t, tk>>, next) THEN Outside
                 ELSE IF Value(f + 1, <<PREV_INDX, tk>>, next) # i THEN Broken
                 ELSE IF Value(f + 1, <<TRACKID, tk>>, next) # Value(k, <<TRACKID, tk>>, j) THEN Broken
                 ELSE next
      BY <1>1, <3>1 DEF StepFrom
    <3>3. QED
      BY <2>7, <3>2
  <2>9. QED
    BY <1>1, <1>6, <2>6, <2>8
<1>10. QED
  BY <1>4, <1>7, <1>8, <1>9

\* and so a walk is where it may be all the way.
LEMMA WalkStays ==
    ASSUME BaseInv, DataLaid, NEW rk, NEW tk, CanRead(TrackPairs(rk, tk)), file.planes \in Nat,
           NEW k \in 1 .. file.planes, NEW j \in Walked(tk, k)
    PROVE  LET at == Walk(rk, tk, k, j)  hi == file.planes + 1 - k IN
           /\ DOMAIN at = 0 .. hi
           /\ \A n \in 0 .. hi : at[n] \in Walked(tk, k + n)
           /\ \A n \in 0 .. hi : at[n] = IF n = 0 THEN j ELSE IF at[n - 1] < 0 THEN at[n - 1]
                                       ELSE StepFrom(rk, tk, k, j, k + n - 1, at[n - 1])
<1>1. PICK hi : hi = file.planes + 1 - k /\ hi \in Nat /\ \A n \in 1 .. hi : k + n - 1 \in 1 .. file.planes
  OBVIOUS
<1> DEFINE Go(n, v) == IF v < 0 THEN v ELSE StepFrom(rk, tk, k, j, k + n - 1, v)
           W == [n \in 0 .. hi |-> Walked(tk, k + n)]
           F == [x \in (0 .. hi) \X Int |-> Go(x[1] + 1, x[2])]
           body(at) == [n \in 0 .. hi |-> IF n = 0 THEN j ELSE Go(n, at[n - 1])]
           at == CHOOSE at : at = body(at)
<1>2. ASSUME NEW n \in 1 .. hi, NEW v, v \in W[n - 1]
      PROVE  Go(n, v) \in W[n] /\ F[<<n - 1, v>>] = Go(n, v)
  <2>1. n - 1 \in 0 .. hi /\ n \in 0 .. hi /\ n - 1 + 1 = n /\ k + (n - 1) = k + n - 1 /\ k + n - 1 + 1 = k + n
        /\ k + n - 1 \in 1 .. file.planes
    BY <1>1
  <2>2. v \in Walked(tk, k + n - 1) /\ v \in Int
    <3>1. v \in Walked(tk, k + (n - 1))
      BY <1>2, <2>1
    <3>2. QED
      BY <2>1, <3>1 DEF Walked
  <2>3. Go(n, v) \in Walked(tk, k + n)
    <3>1. CASE v < 0
      <4>1. v # Outside /\ ~(v >= 0)
        BY <2>2, <3>1 DEF Walked
      <4>2. v \in Walked(tk, k + n)
        BY <2>2, <4>1 DEF Walked
      <4>3. QED
        BY <3>1, <4>2
    <3>2. CASE v >= 0
      <4>1. StepFrom(rk, tk, k, j, k + n - 1, v) \in Walked(tk, k + n - 1 + 1)
        BY <2>1, <2>2, <3>2, StepStays
      <4>2. Go(n, v) = StepFrom(rk, tk, k, j, k + n - 1, v)
        BY <2>2, <3>2
      <4>3. QED
        BY <2>1, <4>1, <4>2
    <3>3. QED
      BY <2>2, <3>1, <3>2
  <2>4. W[n] = Walked(tk, k + n)
    BY <2>1
  <2>5. F[<<n - 1, v>>] = Go(n, v)
    <3>1. <<n - 1, v>> \in (0 .. hi) \X Int
      BY <2>1, <2>2
    <3>2. F[<<n - 1, v>>] = Go(n - 1 + 1, v)
      BY <3>1
    <3>3. QED
      BY <2>1, <3>2
  <2>6. QED
    BY <2>3, <2>4, <2>5
<1>3. j \in W[0]
  <2>1. 0 \in 0 .. hi /\ k + 0 = k
    BY <1>1
  <2>2. QED
    BY <2>1
<1>4. Walk(rk, tk, k, j) = at
  BY <1>1 DEF Walk, StepFrom, NextRead
<1> HIDE DEF F, Go, W
<1>5. \E c : c = body(c)
  <2> DEFINE lo == 0
  <2>1. \A n \in lo + 1 .. hi : \A v : v \in W[n - 1] => F[<<n - 1, v>>] \in W[n]
    <3>1. ASSUME NEW n \in lo + 1 .. hi, NEW v, v \in W[n - 1]
          PROVE  F[<<n - 1, v>>] \in W[n]
      BY <1>2, <3>1
    <3>2. QED
      BY <3>1
  <2>2. PICK c : IsChain(c, 0, hi, j, F, W)
    <3>1. lo \in Int /\ hi \in Int /\ j \in W[lo]
      BY <1>1, <1>3
    <3> HIDE DEF lo
    <3>2. \E c : IsChain(c, lo, hi, j, F, W)
      BY <2>1, <3>1, ChainExists
    <3>3. QED
      BY <3>2 DEF lo
  <2>3. /\ c = [n \in 0 .. hi |-> IF n = 0 THEN j ELSE F[<<n - 1, c[n - 1]>>]]
        /\ \A n \in 0 .. hi : c[n] \in W[n]
    BY <2>2 DEF IsChain
  <2>4. ASSUME NEW n \in 0 .. hi, n # 0
        PROVE  F[<<n - 1, c[n - 1]>>] = Go(n, c[n - 1])
    <3>1. n \in 1 .. hi /\ n - 1 \in 0 .. hi
      BY <1>1, <2>4
    <3>2. QED
      BY <1>2, <2>3, <3>1
  <2>5. c = body(c)
    BY <2>3, <2>4
  <2>6. QED
    BY <2>5
<1>6. at = body(at)
  BY <1>5
<1> HIDE DEF at
<1>7. \A n \in 0 .. hi : at[n] = IF n = 0 THEN j ELSE Go(n, at[n - 1])
  BY <1>6
<1>8. \A n \in 0 .. hi : at[n] \in W[n]
  <2> DEFINE lo == 0
  <2>1. \A n \in lo + 1 .. hi : at[n - 1] \in W[n - 1] => at[n] \in W[n]
    <3>1. ASSUME NEW n \in lo + 1 .. hi, at[n - 1] \in W[n - 1]
          PROVE  at[n] \in W[n]
      <4>1. n \in 0 .. hi /\ n \in 1 .. hi /\ n # 0
        BY <1>1
      <4>2. QED
        BY <1>2, <1>7, <3>1, <4>1
    <3>2. QED
      BY <3>1
  <2>2. lo \in Int /\ hi \in Int /\ at[lo] \in W[lo]
    BY <1>1, <1>3, <1>7
  <2> HIDE DEF lo
  <2>3. \A n \in lo .. hi : at[n] \in W[n]
    BY <2>1, <2>2, ChainStays
  <2>4. QED
    BY <2>3 DEF lo
<1>9. DOMAIN at = 0 .. hi
  BY <1>6
<1>10. QED
  BY <1>1, <1>4, <1>7, <1>8, <1>9 DEF W, Go

\* Nothing is read or written outside an array, whatever programs are run, fail or
\* are killed on the file in whatever order, and no walk of a sweep leaves one: see
\* NothingOutside (wrapper_i_hdf.cpp:246-256, 426-479,
\* wrapper_o_hdf_group.cpp:214-268).
THEOREM NothingOutsideAlways == HdfSpec => []NothingOutside
<1>1. HdfInit => BaseInv /\ LaidInv
  BY BaseInvInit, LaidInvInit
<1>2. BaseInv /\ LaidInv /\ [HdfNext]_<<idenVars, hdfVars>> => (BaseInv /\ LaidInv)'
  BY BaseInvStep, LaidInvStep
<1>3. BaseInv /\ LaidInv => NothingOutside
  <2>1. SUFFICES ASSUME BaseInv, LaidInv PROVE NothingOutside
    OBVIOUS
  <2>2. prog # Nobody => ~prog.outside
    BY <2>1 DEF LaidInv, ProgLaid
  <2>3. ASSUME NEW rk, NEW tk, CanRead(TrackPairs(rk, tk)), NEW w \in Walks(rk, tk)
        PROVE  LastOf(w) # Outside
    <3>1. PICK v : /\ v \in (1 .. file.planes) \X (0 .. MaxFound)
                   /\ v[2] < NumEntries(TrackPairs(rk, tk), v[1])
                   /\ w = <<v[1], Walk(rk, tk, v[1], v[2])>>
      BY <2>3 DEF Walks
    <3>2. PICK k, j : k = v[1] /\ j = v[2]
      OBVIOUS
    <3>3. k \in 1 .. file.planes /\ j \in 0 .. MaxFound
      BY <3>1, <3>2
    <3>4. file.planes \in Nat
      BY <2>1, NFramesType DEF BaseInv, FileOK, IdenInv
    <3>5. PICK n \in Nat \ {0} :
              /\ \A t \in TypesOf("tracking") :
                    /\ <<k, t, tk>> \in DOMAIN file.data /\ DOMAIN file.data[<<k, t, tk>>] = 0 .. n - 1
                    /\ \A i \in Int : Inside(TrackPairs(rk, tk), k, <<t, tk>>, i) <=> i < n
              /\ NumEntries(TrackPairs(rk, tk), k) = n
      BY <2>1, <2>3, <3>3, TrackWidth DEF LaidInv
    <3>6. j \in Walked(tk, k)
      <4>1. DOMAIN file.data[<<k, NEXT_INDX, tk>>] = 0 .. n - 1
        BY <3>5, TypesApart
      <4>2. j \in Nat /\ j < n
        BY <3>1, <3>2, <3>3, <3>5
      <4>3. QED
        BY <3>3, <3>4, <4>1, <4>2 DEF Walked, Outside
    <3>7. PICK m : m = file.planes + 1 - k
      OBVIOUS
    <3>8. m \in 0 .. file.planes + 1 - k
      BY <3>3, <3>4, <3>7
    <3>9. Walk(rk, tk, k, j)[m] \in Walked(tk, k + m)
      BY <2>1, <2>3, <3>3, <3>4, <3>6, <3>8, WalkStays DEF LaidInv
    <3>10. LastOf(w) = Walk(rk, tk, k, j)[m]
      BY <3>1, <3>2, <3>7 DEF LastOf
    <3>11. QED
      BY <3>9, <3>10 DEF Walked
  <2>4. QED
    BY <2>2, <2>3 DEF NothingOutside
<1>4. QED
  BY <1>1, <1>2, <1>3, PTL DEF HdfSpec

-----------------------------------------------------------------------------
(* The parameters of the frames                                               *)

\* The attributes after one more element of s.
AfterOne(s, n, v) ==
    IF Convertible(s[n]) /\ Agrees(v, Converted(s[n])) THEN SetAttr(v, Converted(s[n])) ELSE v

\* The attributes after n elements are those after n - 1 with one more.
LEMMA AttrsAfterIs ==
    ASSUME NEW attrs, NEW s, Len(s) \in Nat
    PROVE  /\ AttrsAfter(attrs, s)[0] = attrs
           /\ \A n \in 1 .. Len(s) : AttrsAfter(attrs, s)[n] = AfterOne(s, n, AttrsAfter(attrs, s)[n - 1])
<1>1. PICK hi : hi = Len(s) /\ hi \in Nat
  OBVIOUS
<1> DEFINE U == attrs \cup {Converted(s[i]) : i \in 1 .. hi}
           W == [n \in 0 .. hi |-> SUBSET U]
           F == [x \in (0 .. hi) \X SUBSET U |-> AfterOne(s, x[1] + 1, x[2])]
           body(at) == [n \in 0 .. hi |-> IF n = 0 THEN attrs ELSE AfterOne(s, n, at[n - 1])]
           at == CHOOSE at : at = body(at)
<1>2. ASSUME NEW n \in 1 .. hi, NEW v, v \in W[n - 1]
      PROVE  AfterOne(s, n, v) \in W[n] /\ F[<<n - 1, v>>] = AfterOne(s, n, v)
  <2>1. n - 1 \in 0 .. hi /\ n \in 0 .. hi /\ n - 1 + 1 = n
    BY <1>1
  <2>2. v \in SUBSET U
    BY <1>2, <2>1
  <2>3. Converted(s[n]) \in U
    BY <1>1
  <2>4. AfterOne(s, n, v) \in SUBSET U
    <3> HIDE DEF U
    <3>1. QED
      BY <2>2, <2>3 DEF AfterOne, SetAttr
  <2>5. <<n - 1, v>> \in (0 .. hi) \X SUBSET U
    BY <2>1, <2>2
  <2> HIDE DEF U
  <2>6. F[<<n - 1, v>>] = AfterOne(s, n - 1 + 1, v)
    BY <2>5
  <2>7. QED
    BY <2>1, <2>4, <2>6
<1>3. attrs \in W[0]
  BY <1>1
<1>4. AttrsAfter(attrs, s) = at
  BY <1>1 DEF AttrsAfter, AfterOne
<1> HIDE DEF F, W
<1>5. \E c : c = body(c)
  <2> DEFINE lo == 0
  <2>1. \A n \in lo + 1 .. hi : \A v : v \in W[n - 1] => F[<<n - 1, v>>] \in W[n]
    <3>1. ASSUME NEW n \in lo + 1 .. hi, NEW v, v \in W[n - 1]
          PROVE  F[<<n - 1, v>>] \in W[n]
      BY <1>2, <3>1
    <3>2. QED
      BY <3>1
  <2>2. PICK c : IsChain(c, 0, hi, attrs, F, W)
    <3>1. lo \in Int /\ hi \in Int /\ attrs \in W[lo]
      BY <1>1, <1>3
    <3> HIDE DEF lo
    <3>2. \E c : IsChain(c, lo, hi, attrs, F, W)
      BY <2>1, <3>1, ChainExists
    <3>3. QED
      BY <3>2 DEF lo
  <2>3. /\ c = [n \in 0 .. hi |-> IF n = 0 THEN attrs ELSE F[<<n - 1, c[n - 1]>>]]
        /\ \A n \in 0 .. hi : c[n] \in W[n]
    BY <2>2 DEF IsChain
  <2>4. ASSUME NEW n \in 0 .. hi, n # 0
        PROVE  F[<<n - 1, c[n - 1]>>] = AfterOne(s, n, c[n - 1])
    <3>1. n \in 1 .. hi /\ n - 1 \in 0 .. hi
      BY <1>1, <2>4
    <3>2. QED
      BY <1>2, <2>3, <3>1
  <2>5. c = body(c)
    BY <2>3, <2>4
  <2>6. QED
    BY <2>5
<1>6. at = body(at)
  BY <1>5
<1> HIDE DEF at
<1>7. \A n \in 0 .. hi : at[n] = IF n = 0 THEN attrs ELSE AfterOne(s, n, at[n - 1])
  BY <1>6
<1>8. 0 \in 0 .. hi /\ \A n \in 1 .. hi : n \in 0 .. hi /\ n # 0
  BY <1>1
<1>9. QED
  BY <1>1, <1>4, <1>7, <1>8

\* What all elements of s have to be for them to go in is decided one by one.
LEMMA TakesIs ==
    ASSUME NEW attrs, NEW s, Len(s) \in Nat
    PROVE  Takes(attrs, s) <=>
               \A n \in 1 .. Len(s) : Convertible(s[n]) /\ Agrees(AttrsAfter(attrs, s)[n - 1], Converted(s[n]))
BY DEF Takes, TakesElement

\* A store that goes in goes in whole.
LEMMA TakenWhole ==
    ASSUME NEW attrs, NEW s, Takes(attrs, s)
    PROVE  AddMetaStore(attrs, s) = AttrsAfter(attrs, s)[Len(s)]
<1>1. {n \in 1 .. Len(s) : ~TakesElement(attrs, s, n)} = {}
  BY DEF Takes
<1>2. QED
  BY <1>1 DEF AddMetaStore

\* The attributes the elements of s become, those with a name.
AttrsOf(s) == {Converted(s[i]) : i \in {j \in 1 .. Len(s) : Named(Converted(s[j]))}}

\* What goes into a group without attributes is all there is afterwards.
LEMMA FreshAttrs ==
    ASSUME NEW s, Len(s) \in Nat, Takes({}, s)
    PROVE  AddMetaStore({}, s) = AttrsOf(s)
<1> DEFINE upto(n) == {Converted(s[i]) : i \in {j \in 1 .. n : Named(Converted(s[j]))}}
           W == [n \in 0 .. Len(s) |-> {upto(n)}]
           lo == 0
<1>1. PICK at : at = AttrsAfter({}, s)
  OBVIOUS
<1>2. /\ at[0] = {}
      /\ \A n \in 1 .. Len(s) : at[n] = AfterOne(s, n, at[n - 1])
  BY <1>1, AttrsAfterIs
<1>3. \A n \in 1 .. Len(s) : Convertible(s[n]) /\ Agrees(at[n - 1], Converted(s[n]))
  BY <1>1, TakesIs
<1>4. \A n \in 1 .. Len(s) : at[n] = SetAttr(at[n - 1], Converted(s[n]))
  BY <1>2, <1>3 DEF AfterOne
<1>5. \A n \in 1 .. Len(s) : upto(n) = SetAttr(upto(n - 1), Converted(s[n]))
  <2>1. SUFFICES ASSUME NEW n \in 1 .. Len(s) PROVE upto(n) = SetAttr(upto(n - 1), Converted(s[n]))
    OBVIOUS
  <2>2. 1 .. n = (1 .. n - 1) \cup {n}
    OBVIOUS
  <2>3. QED
    BY <2>2 DEF SetAttr
<1>6. upto(0) = {}
  OBVIOUS
<1> HIDE DEF upto
<1>7. \A n \in lo + 1 .. Len(s) : at[n - 1] \in W[n - 1] => at[n] \in W[n]
  <2>1. SUFFICES ASSUME NEW n \in lo + 1 .. Len(s), at[n - 1] \in W[n - 1] PROVE at[n] \in W[n]
    OBVIOUS
  <2>2. n \in 1 .. Len(s) /\ n \in 0 .. Len(s) /\ n - 1 \in 0 .. Len(s)
    OBVIOUS
  <2>3. at[n - 1] = upto(n - 1)
    BY <2>1, <2>2
  <2>4. at[n] = upto(n)
    BY <1>4, <1>5, <2>2, <2>3
  <2>5. QED
    BY <2>2, <2>4
<1>8. lo \in Int /\ Len(s) \in Int /\ at[lo] \in W[lo]
  <2>1. 0 \in 0 .. Len(s)
    OBVIOUS
  <2>2. QED
    BY <1>2, <1>6, <2>1
<1>9. at[Len(s)] = upto(Len(s))
  <2> HIDE DEF lo, W
  <2>1. \A n \in lo .. Len(s) : at[n] \in W[n]
    BY <1>7, <1>8, ChainStays
  <2>2. Len(s) \in lo .. Len(s) /\ Len(s) \in 0 .. Len(s)
    BY DEF lo
  <2>3. QED
    BY <2>1, <2>2 DEF W
<1>10. upto(Len(s)) = AttrsOf(s)
  BY DEF upto, AttrsOf
<1>11. QED
  BY <1>1, <1>9, <1>10, TakenWhole

\* Attributes that a reader gets as they are: a name is there once and none is empty.
Steady(A) ==
    /\ IsFiniteSet(A)
    /\ \A a \in A : a.type \in {"int", "float", "string"} /\ a = Elem(a.key, a.type, a.val) /\ Named(a)
    /\ \A a, b \in A : a.key = b.key => a = b

\* A store read from attributes has an element for each.
LEMMA StoreOfSteady ==
    ASSUME NEW A, Steady(A)
    PROVE  /\ Len(StoreOf(A)) \in Nat
           /\ \A n \in 1 .. Len(StoreOf(A)) : StoreOf(A)[n] \in A
           /\ {StoreOf(A)[n] : n \in 1 .. Len(StoreOf(A))} = A
           /\ \A m, n \in 1 .. Len(StoreOf(A)) : StoreOf(A)[m] = StoreOf(A)[n] => m = n
<1> DEFINE S == {Elem(a.key, ReadType(a.type), a.val) : a \in {b \in A : b.type \in Readable}}
<1>1. \A a \in A : a.type \in Readable /\ Elem(a.key, ReadType(a.type), a.val) = a
  BY DEF Steady, Readable, ReadType
<1>2. S = A
  BY <1>1
<1>3. StoreOf(A) = SetToSeq(A)
  BY <1>2 DEF StoreOf
<1>4. PICK s : s = SetToSeq(A)
  OBVIOUS
<1>5. s \in SetToSeqs(A)
  BY <1>4, SomeOrder DEF Steady
<1>6. /\ Len(s) \in Nat /\ \A n \in 1 .. Len(s) : s[n] \in A
      /\ \A x \in A : \E n \in 1 .. Len(s) : s[n] = x
      /\ \A m, n \in 1 .. Len(s) : s[m] = s[n] => m = n
  BY <1>5, OrderIs DEF Steady
<1>7. {s[n] : n \in 1 .. Len(s)} = A
  BY <1>6
<1>8. QED
  BY <1>3, <1>4, <1>6, <1>7

\* Written once more, what was read is taken and changes nothing.
LEMMA WrittenOnceMore ==
    ASSUME NEW A, Steady(A)
    PROVE  Takes(A, StoreOf(A)) /\ AddMetaStore(A, StoreOf(A)) = A
<1>1. PICK s : s = StoreOf(A)
  OBVIOUS
<1>2. Len(s) \in Nat /\ \A n \in 1 .. Len(s) : s[n] \in A
  BY <1>1, StoreOfSteady
<1>3. PICK at : at = AttrsAfter(A, s)
  OBVIOUS
<1>4. \A n \in 1 .. Len(s) : Convertible(s[n]) /\ Converted(s[n]) = s[n] /\ Agrees(A, s[n]) /\ AfterOne(s, n, A) = A
  <2>1. SUFFICES ASSUME NEW n \in 1 .. Len(s), NEW a \in A, a = s[n]
                 PROVE  Convertible(a) /\ Converted(a) = a /\ Agrees(A, a) /\ AfterOne(s, n, A) = A
    BY <1>2
  <2>2. a.type \in {"int", "float", "string"} /\ a = Elem(a.key, a.type, a.val)
    BY DEF Steady
  <2>3. Convertible(a) /\ Converted(a) = a
    BY <2>2 DEF Convertible, Converted, StringTypes
  <2>4. Agrees(A, a)
    BY DEF Steady, Agrees
  <2>5. A \cup {a} = A
    OBVIOUS
  <2>6. AfterOne(s, n, A) = A
    BY <2>1, <2>3, <2>4, <2>5 DEF AfterOne, SetAttr
  <2>7. QED
    BY <2>3, <2>4, <2>6
<1> DEFINE W == [n \in 0 .. Len(s) |-> {A}]
           lo == 0
<1>5. \A n \in lo + 1 .. Len(s) : at[n - 1] \in W[n - 1] => at[n] \in W[n]
  <2>1. SUFFICES ASSUME NEW n \in lo + 1 .. Len(s), at[n - 1] \in W[n - 1] PROVE at[n] \in W[n]
    OBVIOUS
  <2>2. n \in 1 .. Len(s) /\ n \in 0 .. Len(s) /\ n - 1 \in 0 .. Len(s)
    BY <1>2
  <2>3. at[n - 1] = A
    BY <2>1, <2>2
  <2>4. at[n] = A
    BY <1>2, <1>3, <1>4, <2>2, <2>3, AttrsAfterIs
  <2>5. QED
    BY <2>2, <2>4
<1>6. lo \in Int /\ Len(s) \in Int /\ at[lo] \in W[lo]
  <2>1. 0 \in 0 .. Len(s) /\ at[0] = A
    BY <1>2, <1>3, AttrsAfterIs
  <2>2. QED
    BY <1>2, <2>1
<1>7. \A n \in 0 .. Len(s) : at[n] = A
  <2> HIDE DEF lo, W
  <2>1. \A n \in lo .. Len(s) : at[n] \in W[n]
    BY <1>5, <1>6, ChainStays
  <2>2. QED
    BY <2>1 DEF W, lo
<1>8. \A n \in 1 .. Len(s) : n - 1 \in 0 .. Len(s)
  BY <1>2
<1>9. Takes(A, s)
  BY <1>2, <1>3, <1>4, <1>7, <1>8, TakesIs
<1>10. Len(s) \in 0 .. Len(s)
  BY <1>2
<1>11. AddMetaStore(A, s) = A
  BY <1>3, <1>7, <1>9, <1>10, TakenWhole
<1>12. QED
  BY <1>1, <1>9, <1>11

\* The elements of s become attributes a reader gets as they are.
LEMMA AttrsOfSteady ==
    ASSUME NEW s \in Seq(Element), \A i, j \in 1 .. Len(s) : s[i].key = s[j].key => i = j
    PROVE  Steady(AttrsOf(s))
<1>1. Len(s) \in Nat /\ \A i \in 1 .. Len(s) : s[i] \in Element
  OBVIOUS
<1>2. PICK K : K = {j \in 1 .. Len(s) : Named(Converted(s[j]))}
  OBVIOUS
<1>3. K \subseteq 1 .. Len(s) /\ \A i \in K : Named(Converted(s[i]))
  BY <1>2
<1>4. PICK A : A = AttrsOf(s)
  OBVIOUS
<1>5. A = {Converted(s[i]) : i \in K}
  BY <1>2, <1>4 DEF AttrsOf
<1>6. IsFiniteSet(A)
  <2>1. PICK g : g = [i \in K |-> Converted(s[i])]
    OBVIOUS
  <2>2. g \in Surjection(K, A)
    BY <1>5, <2>1 DEF Surjection
  <2>3. IsFiniteSet(1 .. Len(s))
    BY <1>1, FS_Interval
  <2>4. IsFiniteSet(K)
    BY <1>3, <2>3, FS_Subset
  <2>5. QED
    BY <2>2, <2>4, FS_Surjection
<1>7. ASSUME NEW a \in A
      PROVE  \E i \in K : /\ a = Converted(s[i]) /\ a.key = s[i].key
                          /\ a.type \in {"int", "float", "string"} /\ a = Elem(a.key, a.type, a.val)
                          /\ Named(a)
  <2>1. PICK i \in K : a = Converted(s[i])
    BY <1>5
  <2>2. PICK e \in Element : e = s[i]
    BY <1>1, <1>3
  <2>3. e.type \in {"time", "float", "bool", "string", "int", "uint"}
    BY DEF Element, TypeNames
  <2>4. PICK t : a = Elem(e.key, t, e.val) /\ t \in {"int", "float", "string"}
    BY <2>1, <2>2, <2>3 DEF Converted, StringTypes
  <2>5. a.key = e.key /\ a.type = t /\ a = Elem(a.key, a.type, a.val)
    BY <2>4 DEF Elem
  <2>6. QED
    BY <1>3, <2>1, <2>2, <2>4, <2>5
<1>8. \A a, b \in A : a.key = b.key => a = b
  <2>1. SUFFICES ASSUME NEW a \in A, NEW b \in A, a.key = b.key PROVE a = b
    OBVIOUS
  <2>2. PICK i \in K, j \in K : a = Converted(s[i]) /\ a.key = s[i].key /\ b = Converted(s[j]) /\ b.key = s[j].key
    BY <1>7
  <2>3. i = j
    BY <1>3, <2>1, <2>2
  <2>4. QED
    BY <2>2, <2>3
<1>9. QED
  BY <1>4, <1>6, <1>7, <1>8 DEF Steady

\* What the identification says of a frame, in the types of the file.
Told(f) == AttrsOf(wrapper[f].md)

\* So does what the identification says of a frame.
LEMMA ToldSteady ==
    ASSUME IdenInv, NEW f \in 1 .. Len(wrapper)
    PROVE  Steady(Told(f)) /\ Len(wrapper[f].md) \in Nat
<1>1. PICK z \in Int : wrapper[f].md = FrameStore(f, z)
  BY DEF IdenInv, FrameRight
<1>2. PICK s \in Seq(Element) : s = wrapper[f].md
  <2>1. wrapper \in Seq(FrameType)
    BY DEF IdenInv, IdenTypeOK
  <2>2. wrapper[f] \in FrameType
    BY <2>1
  <2>3. wrapper[f].md \in Seq(Element)
    BY <2>2 DEF FrameType
  <2>4. QED
    BY <2>3
<1>3. s = FrameStore(f, z)
  BY <1>1, <1>2
<1>4. \A i, j \in 1 .. Len(s) : s[i].key = s[j].key => i = j
  <2>1. PICK d, t : d = Gap(f) % UintMod /\ t = stack[FirstPlane(f)].time
    OBVIOUS
  <2>2. PICK g, u : g = Gap(f) /\ u = stack[f].time
    OBVIOUS
  <2>3. CASE Averaging
    <3>1. s = <<Elem("z-position", "float", z), Elem("calibrated", "bool", 1),
                Elem("dtime", "uint", d), Elem("acquisition-time-local", "string", t)>>
      BY <1>3, <2>1, <2>3 DEF FrameStore
    <3>2. QED
      BY <3>1 DEF Elem
  <2>4. CASE ~Averaging /\ stack[f].time >= 0
    <3>1. s = <<Elem("acquisition-time-local", "time", u), Elem("z-position", "float", z),
                Elem("calibrated", "bool", 1), Elem("comment", "string", 0), Elem("dtime", "int", g)>>
      BY <1>3, <2>2, <2>4 DEF FrameStore
    <3>2. QED
      BY <3>1 DEF Elem
  <2>5. CASE ~Averaging /\ ~(stack[f].time >= 0)
    <3>1. s = <<Elem("z-position", "float", z), Elem("calibrated", "bool", 1), Elem("comment", "string", 0)>>
      BY <1>3, <2>5 DEF FrameStore
    <3>2. QED
      BY <3>1 DEF Elem
  <2>6. QED
    BY <2>3, <2>4, <2>5
<1>5. QED
  BY <1>2, <1>4, AttrsOfSteady DEF Told

\* A process has succeeded; and the group of a frame says what the image says of it.
HasRecorded == \E r \in runs : r.kind = "process" /\ r.code = 0
AttrsRight(f) == f \in file.frames /\ file.attrs[f] = Told(f)

\* A process that writes is the first to succeed, and has the frames before its own.
ProcessMeta ==
    /\ ~HasRecorded
    /\ \A f \in 1 .. prog.frame - 1 : AttrsRight(f)
    /\ prog.pc = "meta" => prog.frame \in file.frames /\ file.attrs[prog.frame] = {}
    /\ prog.pc \in {"store", "close"} => AttrsRight(prog.frame)

\* Once a process succeeded all groups say what the image says, and no later program is
\* refused: what it will write is what it read.
MetaInv ==
    /\ DOMAIN file.attrs = file.frames
    /\ HasRecorded /\ file.state = "good" => \A f \in 1 .. NFramesOut : AttrsRight(f)
    /\ \A r \in runs : r.kind # "process" => ~(r.err = "std" /\ r.at = "meta")
    /\ prog # Nobody /\ prog.kind # "process" =>
        /\ HasRecorded
        /\ \A f \in 1 .. NFramesOut : prog.md[f] = StoreOf(Told(f))
        /\ ~(prog.pc = "thrown" /\ prog.err = "std" /\ prog.at = "meta")
    /\ prog # Nobody /\ prog.kind = "process" =>
        /\ \A f \in 1 .. NFramesOut : prog.md[f] = wrapper[f].md
        /\ prog.pc \in InOrder => ProcessMeta

\* Groups that stay say what they said.
LEMMA AttrsStay ==
    ASSUME NEW f, wrapper' = wrapper, AttrsRight(f), f \in file'.frames, file'.attrs[f] = file.attrs[f]
    PROVE  AttrsRight(f)'
BY DEF AttrsRight, Told

\* A step of a program has to keep the frames of those that succeeded, and its own.
LEMMA GoesOnMeta ==
    ASSUME BaseInv, MetaInv, GoesOn, wrapper' = wrapper, DOMAIN file'.attrs = file'.frames,
           HasRecorded /\ file'.state = "good" =>
               file.state = "good" /\ \A f \in 1 .. NFramesOut : AttrsRight(f) => AttrsRight(f)',
           prog.kind # "process" => ~(prog'.pc = "thrown" /\ prog'.err = "std" /\ prog'.at = "meta"),
           prog.kind = "process" /\ prog'.pc \in InOrder => ProcessMeta'
    PROVE  MetaInv'
<1>1. /\ prog # Nobody /\ prog' # Nobody /\ runs' = runs
      /\ prog'.kind = prog.kind /\ prog'.md = prog.md
  BY DEF GoesOn
<1>2. NFramesOut' = NFramesOut
  BY GoesOnKeeps
<1>3. HasRecorded' = HasRecorded /\ \A f : Told(f)' = Told(f)
  BY <1>1 DEF HasRecorded, Told
<1>4. HasRecorded /\ file'.state = "good" => \A f \in 1 .. NFramesOut : AttrsRight(f)'
  BY DEF MetaInv
<1>5. prog.kind # "process" => HasRecorded /\ \A f \in 1 .. NFramesOut : prog.md[f] = StoreOf(Told(f))
  BY <1>1 DEF MetaInv
<1>6. prog.kind = "process" => \A f \in 1 .. NFramesOut : prog.md[f] = wrapper[f].md
  BY <1>1 DEF MetaInv
<1>7. \A r \in runs : r.kind # "process" => ~(r.err = "std" /\ r.at = "meta")
  BY DEF MetaInv
<1>8. HasRecorded' /\ file'.state = "good" => \A f \in 1 .. NFramesOut' : AttrsRight(f)'
  BY <1>2, <1>3, <1>4
<1>9. prog'.kind # "process" =>
        /\ HasRecorded'
        /\ \A f \in 1 .. NFramesOut' : prog'.md[f] = StoreOf(Told(f)')
        /\ ~(prog'.pc = "thrown" /\ prog'.err = "std" /\ prog'.at = "meta")
  BY <1>1, <1>2, <1>3, <1>5
<1>10. prog'.kind = "process" =>
        /\ \A f \in 1 .. NFramesOut' : prog'.md[f] = wrapper'[f].md
        /\ prog'.pc \in InOrder => ProcessMeta'
  BY <1>1, <1>2, <1>6
<1>11. QED
  BY <1>1, <1>7, <1>8, <1>9, <1>10 DEF MetaInv

\* A step that leaves the attributes alone.
LEMMA GoesOnAside ==
    ASSUME BaseInv, MetaInv, GoesOn, wrapper' = wrapper, file'.attrs = file.attrs,
           file'.frames = file.frames, file'.state = file.state,
           prog'.pc = "thrown" => prog'.at # "meta",
           prog'.pc \in InOrder =>
               /\ prog.pc \in InOrder /\ prog'.pc # "meta"
               /\ \/ prog'.frame = prog.frame /\ prog'.pc \notin {"store", "close"}
                  \/ prog'.frame = prog.frame /\ prog.pc \in {"store", "close"}
                  \/ prog'.frame = prog.frame + 1 /\ prog.pc = "close" /\ prog'.pc = "group"
    PROVE  MetaInv'
<1>1. prog # Nobody /\ runs' = runs /\ prog.frame \in Nat
  BY DEF GoesOn, BaseInv, ProgOK
<1>2. HasRecorded' = HasRecorded
  BY <1>1 DEF HasRecorded
<1>3. \A f : AttrsRight(f) => AttrsRight(f)'
  BY AttrsStay DEF AttrsRight
<1>4. ASSUME prog.kind = "process", prog'.pc \in InOrder
      PROVE  ProcessMeta'
  <2>1. prog.pc \in InOrder /\ ProcessMeta
    BY <1>1, <1>4 DEF MetaInv
  <2>2. /\ ~HasRecorded /\ \A f \in 1 .. prog.frame - 1 : AttrsRight(f)
        /\ prog.pc \in {"store", "close"} => AttrsRight(prog.frame)
    BY <2>1 DEF ProcessMeta
  <2>3. PICK fr : fr = prog.frame
    OBVIOUS
  <2>4. prog.pc \in {"store", "close"} => AttrsRight(fr)'
    BY <1>3, <2>2, <2>3
  <2>5. \A f \in 1 .. prog'.frame - 1 : AttrsRight(f)'
    <3>1. CASE prog'.frame = prog.frame
      BY <1>3, <2>2, <3>1
    <3>2. CASE prog'.frame = prog.frame + 1 /\ prog.pc = "close"
      <4>1. \A f \in 1 .. prog'.frame - 1 : f \in 1 .. prog.frame - 1 \/ f = fr
        BY <1>1, <2>3, <3>2
      <4>2. QED
        BY <1>3, <2>2, <2>4, <3>2, <4>1
    <3>3. QED
      BY <1>4, <3>1, <3>2
  <2>6. prog'.pc \in {"store", "close"} => prog'.frame = fr /\ AttrsRight(fr)'
    BY <1>4, <2>3, <2>4
  <2>7. prog'.pc \in {"store", "close"} => AttrsRight(prog.frame)'
    BY <2>6 DEF AttrsRight, Told
  <2>8. QED
    BY <1>2, <1>4, <2>2, <2>5, <2>7 DEF ProcessMeta
<1>5. DOMAIN file'.attrs = file'.frames
  BY DEF MetaInv
<1>6. QED
  BY <1>3, <1>4, <1>5, GoesOnMeta

\* Opening the file keeps MetaInv,
LEMMA OpenMeta ==
    ASSUME BaseInv, MetaInv, OpenFile \/ OpenFileFails, UNCHANGED idenVars
    PROVE  MetaInv'
<1>1. /\ GoesOn /\ wrapper' = wrapper /\ prog.pc = "open" /\ prog'.frame = prog.frame
      /\ Went("root") \/ Threw
      /\ \/ file' = file /\ Threw
         \/ /\ IF Appends THEN file.state = "good" ELSE file.state = "absent"
            /\ file'.state = "good"
            /\ file'.frames = IF Appends THEN file.frames ELSE {}
            /\ file'.attrs = IF Appends THEN file.attrs ELSE <<>>
  BY OpenStep DEF SameFrame
<1>2. prog # Nobody /\ prog.frame = 1 /\ runs' = runs
  BY <1>1 DEF GoesOn, BaseInv, ProgOK
<1>3. prog'.pc \in InOrder => Went("root") /\ ~Threw
  BY <1>1 DEF Went, Threw, InOrder, Writing
<1>4. ~(prog'.pc = "thrown" /\ prog'.at = "meta")
  BY <1>1 DEF Went, Threw
<1>5. HasRecorded => file.state # "absent"
  BY DEF HasRecorded, BaseInv, RunsOK, Well
<1>6. DOMAIN file'.attrs = file'.frames
  <2>1. DOMAIN file.attrs = file.frames
    BY DEF MetaInv
  <2>2. CASE file' = file
    BY <2>1, <2>2
  <2>3. CASE Appends /\ file'.frames = file.frames /\ file'.attrs = file.attrs
    BY <2>1, <2>3
  <2>4. CASE file'.frames = {} /\ file'.attrs = <<>>
    BY <2>4
  <2>5. QED
    BY <1>1, <2>2, <2>3, <2>4
<1>7. ASSUME HasRecorded, file'.state = "good"
      PROVE  file.state = "good" /\ \A f \in 1 .. NFramesOut : AttrsRight(f) => AttrsRight(f)'
  <2>1. file.state = "good" /\ file'.frames = file.frames /\ file'.attrs = file.attrs
    BY <1>1, <1>5, <1>7
  <2>2. QED
    BY <1>1, <2>1, AttrsStay DEF AttrsRight
<1>8. ASSUME prog.kind = "process", prog'.pc \in InOrder
      PROVE  ProcessMeta'
  <2>1. file.state = "absent"
    BY <1>1, <1>3, <1>8 DEF Appends
  <2>2. ~HasRecorded'
    BY <1>2, <1>5, <2>1 DEF HasRecorded
  <2>3. prog'.frame = 1 /\ prog'.pc = "root"
    BY <1>1, <1>2, <1>3, <1>8 DEF Went
  <2>4. \A f \in 1 .. prog'.frame - 1 : AttrsRight(f)'
    BY <2>3
  <2>5. QED
    BY <2>2, <2>3, <2>4 DEF ProcessMeta
<1>9. QED
  BY <1>1, <1>4, <1>6, <1>7, <1>8, GoesOnMeta

\* opening the group of a frame,
LEMMA GroupMeta ==
    ASSUME BaseInv, MetaInv, OpenGroup \/ OpenGroupFails, UNCHANGED idenVars
    PROVE  MetaInv'
<1>1. /\ GoesOn /\ wrapper' = wrapper /\ prog.pc = "group" /\ prog'.frame = prog.frame
      /\ prog.frame \in 1 .. NFramesOut /\ file.state = "good"
      /\ file'.frames = file.frames \cup {prog.frame}
      /\ file'.attrs = Over(file.attrs, [g \in {prog.frame} |-> {}])
      /\ Appends <=> prog.frame \in file.frames
      /\ Went("meta") \/ Threw
  BY GroupStep DEF SameFrame
<1>2. prog # Nobody /\ runs' = runs /\ DOMAIN file.attrs = file.frames
  BY <1>1 DEF GoesOn, MetaInv
<1>3. PICK fr, new : fr = prog.frame /\ new = [g \in {fr} |-> {}]
  OBVIOUS
<1>4. DOMAIN new = {fr} /\ new[fr] = {}
  BY <1>3
<1>5. /\ DOMAIN file'.attrs = DOMAIN file.attrs \cup {fr}
      /\ \A x \in DOMAIN file.attrs : file'.attrs[x] = file.attrs[x]
      /\ fr \notin DOMAIN file.attrs => file'.attrs[fr] = {}
  <2>1. PICK at, up : at = file.attrs /\ up = file'.attrs
    OBVIOUS
  <2>2. up = Over(at, new)
    BY <1>1, <1>3, <2>1
  <2>3. up = [x \in DOMAIN at \cup DOMAIN new |-> IF x \in DOMAIN at THEN at[x] ELSE new[x]]
    BY <2>2 DEF Over
  <2>4. QED
    BY <1>4, <2>1, <2>3
<1>6. \A f : AttrsRight(f) => AttrsRight(f)'
  <2>1. SUFFICES ASSUME NEW f, AttrsRight(f) PROVE AttrsRight(f)'
    OBVIOUS
  <2>2. f \in file.frames
    BY <2>1 DEF AttrsRight
  <2>3. f \in file'.frames /\ file'.attrs[f] = file.attrs[f]
    BY <1>1, <1>2, <1>5, <2>2
  <2>4. QED
    BY <1>1, <2>1, <2>3, AttrsStay
<1>7. ASSUME prog.kind = "process", prog'.pc \in InOrder
      PROVE  ProcessMeta'
  <2>1. prog'.pc = "meta"
    BY <1>1, <1>7 DEF Went, Threw, InOrder, Writing
  <2>2. ProcessMeta
    BY <1>1, <1>2, <1>7 DEF MetaInv, InOrder
  <2>3. ~HasRecorded' /\ \A f \in 1 .. prog'.frame - 1 : AttrsRight(f)'
    BY <1>1, <1>2, <1>6, <2>2 DEF ProcessMeta, HasRecorded
  <2>4. prog'.frame \in file'.frames /\ file'.attrs[prog'.frame] = {}
    BY <1>1, <1>2, <1>3, <1>5, <1>7 DEF Appends
  <2>5. QED
    BY <2>1, <2>3, <2>4 DEF ProcessMeta
<1>8. ~(prog'.pc = "thrown" /\ prog'.at = "meta")
  BY <1>1 DEF Went, Threw
<1>9. DOMAIN file'.attrs = file'.frames
  BY <1>1, <1>2, <1>3, <1>5
<1>10. QED
  BY <1>1, <1>6, <1>7, <1>8, <1>9, GoesOnMeta

\* What is written beside other data sets is what was read, and goes in; what the
\* first program writes is what the identification says.
LEMMA WriteMetaMeta ==
    ASSUME BaseInv, MetaInv, WriteMeta, UNCHANGED idenVars
    PROVE  MetaInv'
<1>1. PICK fr, A, md, B : /\ fr = prog.frame /\ A = file.attrs[fr] /\ md = prog.md[fr]
                          /\ B = AddMetaStore(A, md)
  OBVIOUS
<1>2. /\ GoesOn /\ wrapper' = wrapper /\ prog.pc = "meta" /\ prog'.frame = prog.frame
      /\ fr \in 1 .. NFramesOut
      /\ IF Takes(A, md) THEN Went("store") ELSE Threw /\ prog'.err = "std"
      /\ file'.state = file.state /\ file'.frames = file.frames
      /\ file'.attrs = [file.attrs EXCEPT ![fr] = B]
  BY <1>1, MetaStep DEF SameFrame
<1>3. /\ prog # Nobody /\ prog' # Nobody /\ runs' = runs /\ prog'.kind = prog.kind
      /\ DOMAIN file.attrs = file.frames /\ file.state = "good"
      /\ IdenInv /\ Len(wrapper) = NFramesOut
  BY <1>2 DEF GoesOn, MetaInv, BaseInv, ProgOK, InOrder, Writing, IdenDone
<1>4. Steady(Told(fr)) /\ Len(wrapper[fr].md) \in Nat
  BY <1>2, <1>3, ToldSteady
<1>5. /\ DOMAIN file'.attrs = file'.frames
      /\ \A f : f # fr => file'.attrs[f] = file.attrs[f]
      /\ fr \in file.frames => file'.attrs[fr] = B
  BY <1>2, <1>3
<1>6. \A f : f # fr /\ AttrsRight(f) => AttrsRight(f)'
  BY <1>2, <1>5, AttrsStay DEF AttrsRight
<1>7. CASE prog.kind # "process"
  <2>1. HasRecorded /\ md = StoreOf(Told(fr)) /\ AttrsRight(fr)
    BY <1>1, <1>2, <1>3, <1>7 DEF MetaInv
  <2>2. A = Told(fr) /\ fr \in file.frames
    BY <1>1, <2>1 DEF AttrsRight
  <2>3. Takes(A, md) /\ B = A
    BY <1>1, <1>4, <2>1, <2>2, WrittenOnceMore
  <2>4. AttrsRight(fr)'
    BY <1>1, <1>2, <1>5, <2>1, <2>2, <2>3, AttrsStay
  <2>5. prog'.pc = "store"
    BY <1>2, <2>3 DEF Went
  <2>6. QED
    BY <1>2, <1>3, <1>5, <1>6, <1>7, <2>4, <2>5, GoesOnMeta
<1>8. CASE prog.kind = "process"
  <2>1. ProcessMeta /\ md = wrapper[fr].md
    BY <1>1, <1>2, <1>3, <1>8 DEF MetaInv, InOrder, Writing
  <2>2. ~HasRecorded /\ A = {} /\ fr \in file.frames /\ \A f \in 1 .. prog.frame - 1 : AttrsRight(f)
    BY <1>1, <1>2, <2>1 DEF ProcessMeta
  <2>3. prog.frame \in Nat /\ \A f \in 1 .. prog.frame - 1 : f # fr
    BY <1>1, <1>2
  <2>4. ASSUME prog'.pc \in InOrder
        PROVE  ProcessMeta'
    <3>1. Takes(A, md) /\ prog'.pc = "store"
      BY <1>2, <2>4 DEF Went, Threw, InOrder, Writing
    <3>2. B = Told(fr)
      BY <1>1, <1>4, <2>1, <2>2, <3>1, FreshAttrs DEF Told
    <3>3. file'.attrs[fr] = Told(fr) /\ fr \in file'.frames
      BY <1>2, <1>5, <2>2, <3>2
    <3>4. prog'.frame = fr
      BY <1>1, <1>2
    <3>5. AttrsRight(prog.frame)'
      BY <1>2, <3>3, <3>4 DEF AttrsRight, Told
    <3>6. ~HasRecorded'
      BY <1>3, <2>2 DEF HasRecorded
    <3>7. \A f \in 1 .. prog'.frame - 1 : AttrsRight(f)'
      BY <1>2, <1>6, <2>2, <2>3
    <3>8. QED
      BY <3>1, <3>5, <3>6, <3>7 DEF ProcessMeta
  <2>5. QED
    BY <1>2, <1>5, <1>8, <2>2, <2>4, GoesOnMeta
<1>9. QED
  BY <1>7, <1>8

\* every step of a program,
LEMMA WritesMeta ==
    ASSUME BaseInv, MetaInv, Writes \/ Fails, UNCHANGED idenVars
    PROVE  MetaInv'
<1>1. CASE OpenFile \/ OpenFileFails
  BY <1>1, OpenMeta
<1>2. CASE WriteRoot \/ WriteRootFails
  <2>1. /\ SameFrame /\ prog.pc = "root" /\ (Went("group") \/ Threw)
        /\ file'.attrs = file.attrs /\ file'.frames = file.frames /\ file'.state = file.state
    BY <1>2, RootStep
  <2>2. QED
    BY <2>1, GoesOnAside DEF SameFrame, Went, Threw, InOrder, Writing
<1>3. CASE OpenGroup \/ OpenGroupFails
  BY <1>3, GroupMeta
<1>4. CASE WriteMeta
  BY <1>4, WriteMetaMeta
<1>5. CASE StoreParticles
  <2>1. /\ prog # Nobody /\ prog.pc = "store"
        /\ GoesOn /\ prog'.pc = "close" /\ prog'.frame = prog.frame /\ file' = file
    <3>1. prog # Nobody /\ prog.pc = "store"
      BY <1>5 DEF StoreParticles, At
    <3>2. QED
      BY <1>5, <3>1, StoredIs
  <2>2. wrapper' = wrapper
    BY DEF idenVars
  <2>3. QED
    BY <2>1, <2>2, GoesOnAside DEF InOrder, Writing
<1>6. CASE CloseGroup \/ CloseGroupFails
  <2>1. /\ GoesOn /\ wrapper' = wrapper /\ prog.pc = "close" /\ FileButData
        /\ \/ Threw
           \/ Went("group") /\ prog'.frame = prog.frame + 1
    BY <1>6, CloseStep
  <2>2. QED
    BY <2>1, GoesOnAside DEF FileButData, Went, Threw, InOrder, Writing
<1>7. CASE WriteList \/ WriteListFails
  <2>1. /\ SameFrame /\ prog.pc = "group" /\ (Went("done") \/ Threw)
        /\ file'.attrs = file.attrs /\ file'.frames = file.frames /\ file'.state = file.state
    BY <1>7, ListStep
  <2>2. QED
    BY <2>1, GoesOnAside DEF SameFrame, Went, Threw, InOrder, Writing
<1>8. QED
  BY <1>1, <1>2, <1>3, <1>4, <1>5, <1>6, <1>7 DEF Writes, Fails

\* every end of one,
LEMMA EndsMeta ==
    ASSUME BaseInv, MetaInv, Ends, UNCHANGED idenVars
    PROVE  MetaInv'
<1>1. prog # Nobody /\ prog' = Nobody /\ ProgOK /\ wrapper' = wrapper /\ NFramesOut' = NFramesOut
  BY EndsAre, WantedFixed DEF BaseInv, idenVars
<1>2. DOMAIN file.attrs = file.frames
  BY DEF MetaInv
<1>3. \/ file'.attrs = file.attrs /\ file'.frames = file.frames /\ file'.state = file.state
      \/ file'.attrs = <<>> /\ file'.frames = {} /\ file'.state = "broken"
  <2>1. CASE file' = file
    BY <2>1
  <2>2. ASSUME group.open, NEW T \in SUBSET Types, file' = Written(T)
        PROVE  file'.attrs = file.attrs /\ file'.frames = file.frames /\ file'.state = file.state
    <3>1. FileOK /\ GroupOK
      BY DEF BaseInv
    <3>2. QED
      BY <1>1, <2>2, <3>1, WrittenIs DEF GroupOK
  <2>3. CASE file' = [NoFile EXCEPT !.state = "broken"]
    BY <2>3 DEF NoFile
  <2>4. QED
    BY <2>1, <2>2, <2>3, EndsAre
<1>4. DOMAIN file'.attrs = file'.frames
  <2>1. CASE file'.attrs = <<>> /\ file'.frames = {}
    BY <2>1
  <2>2. QED
    BY <1>2, <1>3, <2>1
<1>5. PICK code : runs' = runs \cup {Record(code)}
  BY EndsAre
<1>6. /\ Record(code).kind = prog.kind /\ Record(code).code = code /\ Record(code).at = prog.at
      /\ Record(code).err = IF code = Killed THEN "killed" ELSE prog.err
  BY DEF Record
<1>7. ASSUME NEW r \in runs', r.kind # "process", r.err = "std", r.at = "meta"
      PROVE  FALSE
  <2>1. CASE r \in runs
    BY <1>7, <2>1 DEF MetaInv
  <2>2. CASE r = Record(code)
    <3>1. prog.kind # "process" /\ prog.err = "std" /\ prog.at = "meta"
      BY <1>6, <1>7, <2>2
    <3>2. prog.pc = "thrown"
      BY <1>1, <3>1 DEF ProgOK
    <3>3. QED
      BY <1>1, <3>1, <3>2 DEF MetaInv
  <2>3. QED
    BY <1>5, <1>7, <2>1, <2>2
<1>8. ASSUME HasRecorded', file'.state = "good", NEW f \in 1 .. NFramesOut
      PROVE  AttrsRight(f)'
  <2>1. file'.attrs = file.attrs /\ file'.frames = file.frames /\ file.state = "good"
    BY <1>3, <1>8
  <2>2. AttrsRight(f)
    <3>1. CASE HasRecorded
      BY <1>8, <2>1, <3>1 DEF MetaInv
    <3>2. CASE ~HasRecorded
      <4>1. PICK r \in runs' : r.kind = "process" /\ r.code = 0
        BY <1>8 DEF HasRecorded
      <4>2. r = Record(code) /\ r \notin runs
        BY <1>5, <3>2, <4>1 DEF HasRecorded
      <4>3. prog.kind = "process" /\ code = 0
        BY <1>6, <4>1, <4>2
      <4>4. Record(0) # Record(-1) /\ Record(0) # Record(Killed)
        BY DEF Record, Killed
      <4>5. prog.pc = "done"
        <5>1. Record(0) \in runs' /\ Record(0) \notin runs
          BY <4>2, <4>3
        <5>2. QED
          BY <4>3, <4>4, <5>1, EndsAre
      <4>6. prog.frame - 1 = NFramesOut
        BY <1>1, <4>5, NFramesType DEF ProgOK, BaseInv, IdenInv
      <4>7. ProcessMeta
        BY <1>1, <4>3, <4>5 DEF MetaInv, InOrder
      <4>8. QED
        BY <1>8, <4>6, <4>7 DEF ProcessMeta
    <3>3. QED
      BY <3>1, <3>2
  <2>3. QED
    BY <1>1, <2>1, <2>2, AttrsStay DEF AttrsRight
<1>9. QED
  BY <1>1, <1>4, <1>7, <1>8 DEF MetaInv

\* every start of one,
LEMMA BeginsMeta ==
    ASSUME BaseInv, MetaInv, Begins
    PROVE  MetaInv'
<1>1. /\ UNCHANGED <<file, runs, wrapper, stack, avgCount>> /\ prog' # Nobody /\ prog'.pc = "open"
      /\ prog'.kind # "process" =>
            file.state = "good" /\ file.planes > 0 /\ prog'.md = MdStores /\ Recorded(prog'.rkey)
      /\ prog'.kind = "process" => prog'.md = [f \in Frames |-> wrapper[f].md]
  BY DEF Begins, idenVars
<1>2. NFramesOut' = NFramesOut /\ HasRecorded' = HasRecorded
      /\ \A f : AttrsRight(f)' = AttrsRight(f) /\ Told(f)' = Told(f)
  BY <1>1, WantedFixed DEF HasRecorded, AttrsRight, Told
<1>3. ASSUME prog'.kind # "process"
      PROVE  HasRecorded /\ \A f \in 1 .. NFramesOut : prog'.md[f] = StoreOf(Told(f))
  <2>1. HasRecorded
    BY <1>1, <1>3 DEF Recorded, HasRecorded
  <2>2. file.planes = NFramesOut
    BY <1>1, <1>3 DEF BaseInv, FileOK
  <2>3. ASSUME NEW f \in 1 .. NFramesOut
        PROVE  prog'.md[f] = StoreOf(Told(f))
    <3>1. AttrsRight(f)
      BY <1>1, <1>3, <2>1 DEF MetaInv
    <3>2. prog'.md[f] = StoreOf(file.attrs[f])
      BY <1>1, <1>3, <2>2 DEF MdStores
    <3>3. QED
      BY <3>1, <3>2 DEF AttrsRight
  <2>4. QED
    BY <2>1, <2>3
<1>4. prog'.kind = "process" => \A f \in 1 .. NFramesOut : prog'.md[f] = wrapper[f].md
  BY <1>1 DEF Frames
<1>5. prog'.pc \notin InOrder /\ prog'.pc # "thrown"
  BY <1>1 DEF InOrder, Writing
<1>6. /\ DOMAIN file.attrs = file.frames
      /\ HasRecorded /\ file.state = "good" => \A f \in 1 .. NFramesOut : AttrsRight(f)
      /\ \A r \in runs : r.kind # "process" => ~(r.err = "std" /\ r.at = "meta")
  BY DEF MetaInv
<1>7. QED
  BY <1>1, <1>2, <1>3, <1>4, <1>5, <1>6 DEF MetaInv

\* and so every step does.
LEMMA MetaInvStep ==
    ASSUME BaseInv, MetaInv, [HdfNext]_<<idenVars, hdfVars>>
    PROVE  MetaInv'
<1>1. CASE (Writes \/ Fails) /\ UNCHANGED idenVars
  BY <1>1, WritesMeta
<1>2. CASE Ends /\ UNCHANGED idenVars
  BY <1>2, EndsMeta
<1>3. CASE Starts /\ UNCHANGED idenVars
  BY <1>3, StartsBegin, BeginsMeta
<1>4. CASE IdenStep /\ UNCHANGED hdfVars
  <2>1. prog = Nobody /\ runs = {} /\ UNCHANGED <<file, prog, runs>>
    BY <1>4, IdenBase
  <2>2. QED
    BY <2>1 DEF MetaInv, HasRecorded
<1>5. CASE UNCHANGED <<idenVars, hdfVars>>
  <2>1. UNCHANGED <<file, prog, runs, wrapper, stack, avgCount>>
    BY <1>5 DEF hdfVars, idenVars
  <2>2. NFramesOut' = NFramesOut /\ HasRecorded' = HasRecorded
        /\ \A f : AttrsRight(f)' = AttrsRight(f) /\ Told(f)' = Told(f)
    BY <2>1, WantedFixed DEF HasRecorded, AttrsRight, Told
  <2>3. ProcessMeta' = ProcessMeta
    BY <2>1, <2>2 DEF ProcessMeta, AttrsRight, Told
  <2>4. QED
    BY <2>1, <2>2, <2>3 DEF MetaInv
<1>6. QED
  BY <1>1, <1>2, <1>3, <1>4, <1>5 DEF HdfNext

\* No program has said anything at first.
LEMMA MetaInvInit ==
    ASSUME HdfInit
    PROVE  MetaInv
<1>1. prog = Nobody /\ runs = {} /\ file.frames = {} /\ file.attrs = <<>>
  BY DEF HdfInit, NoFile
<1>2. DOMAIN file.attrs = {}
  BY <1>1
<1>3. QED
  BY <1>1, <1>2 DEF MetaInv, HasRecorded

\* What the identification says of a frame reaches whoever reads the file, in the
\* types of the file, and no program is refused for writing it once more: see
\* MetaSurvives (wrapper_o_hdf_group.cpp:345-407, md_store_attr_list.cpp:39-79,
\* attr_list_hdf.cpp:428-492).
THEOREM MetaSurvivesAlways == HdfSpec => []MetaSurvives
<1>1. HdfInit => BaseInv /\ MetaInv
  BY BaseInvInit, MetaInvInit
<1>2. BaseInv /\ MetaInv /\ [HdfNext]_<<idenVars, hdfVars>> => (BaseInv /\ MetaInv)'
  BY BaseInvStep, MetaInvStep
<1>3. BaseInv /\ MetaInv => MetaSurvives
  <2>1. SUFFICES ASSUME BaseInv, MetaInv,
                        NEW k \in Key, Recorded(k), CanRead(IdenPairs(k)), NEW f \in 1 .. file.planes
                 PROVE  {MdStores[f][i] : i \in 1 .. Len(MdStores[f])} = Told(f)
    <3>1. MetaInv => \A r \in runs : r.kind # "process" => ~(r.err = "std" /\ r.at = "meta")
      BY DEF MetaInv
    <3>2. \A f : Told(f) = {Converted(wrapper[f].md[i]) :
                             i \in {j \in 1 .. Len(wrapper[f].md) : Named(Converted(wrapper[f].md[j]))}}
      BY DEF Told, AttrsOf
    <3>3. QED
      BY <2>1, <3>1, <3>2 DEF MetaSurvives
  <2>2. HasRecorded /\ runs # {}
    BY <2>1 DEF Recorded, HasRecorded
  <2>3. IdenInv /\ file.planes = NFramesOut /\ NFramesOut = Len(wrapper) /\ file.state = "good"
    BY <2>1, <2>2 DEF BaseInv, FileOK, RunsOK, IdenDone, CanRead
  <2>4. AttrsRight(f)
    BY <2>1, <2>2, <2>3 DEF MetaInv
  <2>5. MdStores[f] = StoreOf(Told(f))
    BY <2>4 DEF MdStores, AttrsRight
  <2>6. Steady(Told(f))
    BY <2>1, <2>3, ToldSteady
  <2>7. QED
    BY <2>5, <2>6, StoreOfSteady
<1>4. QED
  BY <1>1, <1>2, <1>3, PTL DEF HdfSpec
-----------------------------------------------------------------------------
(* Tracks, from the program that links them to one that reads them            *)

\* A track goes from frame to frame; two of a list are never at one particle.
TrackOK(t) == \E a, b \in 1 .. NFramesOut : a < b /\ t \in [a .. b -> 0 .. MaxFound]
TracksOK(tracks) ==
    /\ Len(tracks) \in Nat
    /\ \A n \in 1 .. Len(tracks) : TrackOK(tracks[n])
    /\ \A m, n \in 1 .. Len(tracks) : \A f \in DOMAIN tracks[m] \cap DOMAIN tracks[n] :
        tracks[m][f] = tracks[n][f] => m = n

\* The next particle is the one that is linked to.
LEMMA NextIs ==
    ASSUME NEW kept, kept \in Kept, NEW links \in Links(kept), NEW f \in DOMAIN links
    PROVE  /\ \A p \in links[f] : NextOf(links, f, p[1]) = p[2]
           /\ \A i : NextOf(links, f, i) # -1 => <<i, NextOf(links, f, i)>> \in links[f]
<1>1. /\ links[f] \subseteq kept[f] \X kept[f + 1]
      /\ \A p, q \in links[f] : p # q => p[1] # q[1] /\ p[2] # q[2]
  BY DEF Links
<1>2. ASSUME NEW i, \E p \in links[f] : p[1] = i
      PROVE  \E p \in links[f] : p = <<i, p[2]>> /\ NextOf(links, f, i) = p[2]
  <2>1. PICK p : p = CHOOSE q \in links[f] : q[1] = i
    OBVIOUS
  <2>2. p \in links[f] /\ p[1] = i
    BY <1>2, <2>1
  <2>3. NextOf(links, f, i) = p[2]
    BY <1>2, <2>1 DEF NextOf
  <2>4. p = <<p[1], p[2]>>
    BY <1>1, <2>2
  <2>5. QED
    BY <2>2, <2>3, <2>4
<1>3. ASSUME NEW p \in links[f]
      PROVE  NextOf(links, f, p[1]) = p[2]
  <2>1. PICK q \in links[f] : q = <<p[1], q[2]>> /\ NextOf(links, f, p[1]) = q[2]
    BY <1>2
  <2>2. q = p
    BY <1>1, <2>1
  <2>3. QED
    BY <2>1, <2>2
<1>4. ASSUME NEW i, NextOf(links, f, i) # -1
      PROVE  <<i, NextOf(links, f, i)>> \in links[f]
  <2>1. \E p \in links[f] : p[1] = i
    BY <1>4 DEF NextOf
  <2>2. PICK p \in links[f] : p = <<i, p[2]>> /\ NextOf(links, f, i) = p[2]
    BY <1>2, <2>1
  <2>3. QED
    BY <2>2
<1>5. QED
  BY <1>3, <1>4

\* From w, at a link nothing is linked to, the track t follows the links.
Follows(links, w, t) ==
    /\ w[1] \in DOMAIN links /\ w[2] \in links[w[1]]
    /\ ~(w[1] > 1 /\ \E p \in links[w[1] - 1] : p[2] = w[2][1])
    /\ t = TrackFrom(links, w[1], w[2][1])
    /\ t[w[1]] = w[2][1]
    /\ \E e \in w[1] + 1 .. file.planes :
        /\ DOMAIN t = w[1] .. e
        /\ \A g \in w[1] + 1 .. e : <<t[g - 1], t[g]>> \in links[g - 1]

\* Every track does.
LEMMA TrackFollows ==
    ASSUME NEW kept, kept \in Kept, file.planes \in Nat, MaxFound \in Nat,
           NEW links \in Links(kept), NEW t \in Tracks(links)
    PROVE  \E w : Follows(links, w, t)
<1>1. PICK w : /\ w \in (DOMAIN links) \X UNION {links[h] : h \in DOMAIN links}
               /\ w[2] \in links[w[1]] /\ t = TrackFrom(links, w[1], w[2][1])
               /\ ~(w[1] > 1 /\ \E p \in links[w[1] - 1] : p[2] = w[2][1])
  BY DEF Tracks
<1>2. PICK lo, hi, a, b : lo = w[1] /\ hi = file.planes /\ a = w[2][1] /\ b = w[2][2]
  OBVIOUS
<1>3. /\ DOMAIN links = 1 .. hi - 1
      /\ \A f \in 1 .. hi - 1 : links[f] \subseteq kept[f] \X kept[f + 1]
  BY <1>2 DEF Links
<1>4. \A f \in 1 .. hi : kept[f] \in SUBSET Nat
  BY <1>2 DEF Kept
<1>5. /\ lo \in 1 .. hi - 1 /\ lo \in 1 .. file.planes - 1 /\ hi \in Nat
      /\ a \in kept[lo] /\ b \in kept[lo + 1] /\ w[2] = <<a, b>>
  <2>1. lo \in 1 .. hi - 1 /\ w[2] \in kept[lo] \X kept[lo + 1]
    BY <1>1, <1>2, <1>3
  <2>2. QED
    BY <1>2, <2>1
<1>6. PICK c :
        /\ \A g \in lo .. hi :
             /\ c[g] = IF g = lo THEN a ELSE Linked(links, g - 1, c[g - 1])
             /\ c[g] \in {-1} \cup kept[g]
        /\ TrackFrom(links, lo, a) = [g \in {h \in lo .. hi : c[h] >= 0} |-> c[g]]
  <2>1. PICK c : LinkedFrom(c, kept, links, lo, a)
    BY <1>5, FromIs
  <2>2. QED
    BY <1>2, <2>1 DEF LinkedFrom
<1>7. t = [g \in {h \in lo .. hi : c[h] >= 0} |-> c[g]]
  BY <1>1, <1>2, <1>6
<1>8. \A g \in lo .. hi : c[g] = -1 \/ (c[g] \in Nat /\ c[g] \in kept[g])
  <2>1. ASSUME NEW g \in lo .. hi PROVE c[g] = -1 \/ (c[g] \in Nat /\ c[g] \in kept[g])
    <3>1. g \in 1 .. hi
      BY <1>5
    <3>2. QED
      BY <1>4, <1>6, <3>1
  <2>2. QED
    BY <2>1
<1>9. ASSUME NEW g \in lo + 1 .. hi
      PROVE  /\ c[g - 1] = -1 => c[g] = -1
             /\ c[g] # -1 => <<c[g - 1], c[g]>> \in links[g - 1]
  <2>1. g \in lo .. hi /\ g # lo /\ g - 1 \in DOMAIN links
    BY <1>3, <1>5
  <2>2. c[g] = Linked(links, g - 1, c[g - 1])
    BY <1>6, <2>1
  <2>3. c[g] # -1 => c[g] = NextOf(links, g - 1, c[g - 1]) /\ c[g - 1] >= 0
    BY <2>2 DEF Linked
  <2>4. NextOf(links, g - 1, c[g - 1]) # -1 => <<c[g - 1], NextOf(links, g - 1, c[g - 1])>> \in links[g - 1]
    BY <2>1, NextIs
  <2>5. QED
    BY <2>3, <2>4
<1> DEFINE S == {h \in lo .. hi : c[h] >= 0}
<1>10. lo \in S /\ lo + 1 \in S
  <2>1. lo \in lo .. hi /\ lo + 1 \in lo .. hi /\ lo \in DOMAIN links
    BY <1>3, <1>5
  <2>2. c[lo] = a /\ a \in Nat
    <3>1. c[lo] = a
      BY <1>6, <2>1
    <3>2. QED
      BY <1>4, <1>5, <3>1
  <2>3. c[lo + 1] = Linked(links, lo, a)
    <3>1. lo + 1 # lo /\ lo + 1 - 1 = lo
      BY <1>5
    <3>2. c[lo + 1] = Linked(links, lo + 1 - 1, c[lo + 1 - 1])
      BY <1>6, <2>1, <3>1
    <3>3. QED
      BY <2>2, <3>1, <3>2
  <2>4. <<a, b>> \in links[lo]
    BY <1>1, <1>2, <1>5
  <2>5. \A p \in links[lo] : NextOf(links, lo, p[1]) = p[2]
    BY <2>1, NextIs
  <2>6. NextOf(links, lo, a) = b
    BY <2>4, <2>5
  <2>7. c[lo + 1] = b /\ b \in Nat
    <3>1. c[lo + 1] = b
      BY <2>1, <2>2, <2>3, <2>6 DEF Linked
    <3>2. lo + 1 \in 1 .. hi
      BY <1>5
    <3>3. QED
      BY <1>4, <1>5, <3>1, <3>2
  <2>8. QED
    BY <2>1, <2>2, <2>7
<1>11. S \in SUBSET Nat /\ IsFiniteSet(S)
  <2>1. IsFiniteSet(lo .. hi)
    BY <1>5, FS_Interval
  <2>2. S \subseteq lo .. hi
    OBVIOUS
  <2>3. QED
    BY <1>5, <2>1, <2>2, FS_Subset
<1>12. PICK e \in S : \A h \in S : h <= e
  <2> HIDE DEF S
  <2>1. S # {}
    BY <1>10
  <2>2. QED
    BY <1>11, <2>1, MaxIs
<1>13. e \in lo + 1 .. hi
  BY <1>5, <1>10, <1>12
<1>14. ASSUME NEW g \in lo .. e
       PROVE  g \in S
  <2>1. SUFFICES ASSUME c[g] = -1 PROVE FALSE
    <3>1. g \in lo .. hi
      BY <1>5, <1>13
    <3>2. c[g] = -1 \/ c[g] \in Nat
      BY <1>8, <3>1
    <3>3. QED
      BY <3>1, <3>2
  <2> DEFINE W == [x \in g .. e |-> {-1}]
  <2>2. g \in Int /\ e \in Int /\ g <= e
    BY <1>5, <1>13
  <2>3. c[g] \in W[g]
    BY <2>1, <2>2
  <2>4. \A x \in g + 1 .. e : c[x - 1] \in W[x - 1] => c[x] \in W[x]
    <3>1. SUFFICES ASSUME NEW x \in g + 1 .. e, c[x - 1] \in W[x - 1] PROVE c[x] \in W[x]
      OBVIOUS
    <3>2. x \in lo + 1 .. hi /\ x - 1 \in g .. e /\ x \in g .. e
      BY <1>5, <1>13, <2>2
    <3>3. QED
      BY <1>9, <3>1, <3>2
  <2> HIDE DEF W
  <2>5. \A x \in g .. e : c[x] \in W[x]
    BY <2>2, <2>3, <2>4, ChainStays
  <2>6. c[e] \in W[e]
    BY <2>2, <2>5
  <2>7. QED
    BY <1>12, <2>2, <2>6 DEF W
<1>15. S = lo .. e
  BY <1>12, <1>13, <1>14
<1>16. DOMAIN t = lo .. e /\ \A g \in lo .. e : t[g] = c[g]
  BY <1>7, <1>15
<1>17. ASSUME NEW g \in lo + 1 .. e
       PROVE  <<t[g - 1], t[g]>> \in links[g - 1]
  <2>1. g \in lo + 1 .. hi /\ g - 1 \in lo .. e /\ g \in lo .. e
    BY <1>5, <1>13
  <2>2. c[g] >= 0
    BY <1>14, <2>1
  <2>3. <<c[g - 1], c[g]>> \in links[g - 1]
    BY <1>9, <2>1, <2>2
  <2>4. QED
    BY <1>16, <2>1, <2>3
<1>18. t[lo] = a
  <2>1. lo \in lo .. hi /\ lo \in lo .. e
    BY <1>5, <1>13
  <2>2. QED
    BY <1>6, <1>16, <2>1
<1>19. QED
  BY <1>1, <1>2, <1>13, <1>16, <1>17, <1>18 DEF Follows

\* Two tracks that meet are one.
LEMMA MeetOnce ==
    ASSUME NEW kept, kept \in Kept, file.planes \in Nat, MaxFound \in Nat, NEW links \in Links(kept),
           NEW v, NEW w, NEW t, NEW u, Follows(links, v, t), Follows(links, w, u), v[1] <= w[1],
           NEW f \in DOMAIN t \cap DOMAIN u, t[f] = u[f]
    PROVE  t = u
<1>1. PICK a, b, d, e :
        /\ a = v[1] /\ b = w[1]
        /\ d \in a + 1 .. file.planes /\ DOMAIN t = a .. d
        /\ \A g \in a + 1 .. d : <<t[g - 1], t[g]>> \in links[g - 1]
        /\ e \in b + 1 .. file.planes /\ DOMAIN u = b .. e
        /\ \A g \in b + 1 .. e : <<u[g - 1], u[g]>> \in links[g - 1]
  BY DEF Follows
<1>2. a \in Nat \ {0} /\ b \in Nat \ {0} /\ a <= b /\ f \in b .. d /\ f \in b .. e /\ b \in a .. d
  <2>1. DOMAIN links = 1 .. file.planes - 1
    BY DEF Links
  <2>2. QED
    BY <1>1, <2>1 DEF Follows
<1>3. \A g \in DOMAIN links : \A p, q \in links[g] : p # q => p[1] # q[1] /\ p[2] # q[2]
  BY DEF Links
<1>4. t[b] = u[b]
  <2>1. SUFFICES ASSUME t[b] # u[b] PROVE FALSE
    OBVIOUS
  <2> DEFINE c == [g \in b .. f |-> t[g] # u[g]]
             W == [g \in b .. f |-> {TRUE}]
  <2>2. b \in Int /\ f \in Int /\ b <= f /\ b \in b .. f /\ f \in b .. f
    BY <1>1, <1>2
  <2>3. c[b] \in W[b]
    BY <2>1, <2>2
  <2>4. \A g \in b + 1 .. f : c[g - 1] \in W[g - 1] => c[g] \in W[g]
    <3>1. SUFFICES ASSUME NEW g \in b + 1 .. f, c[g - 1] \in W[g - 1] PROVE c[g] \in W[g]
      OBVIOUS
    <3>2. g \in b .. f /\ g - 1 \in b .. f /\ g \in a + 1 .. d /\ g \in b + 1 .. e
      BY <1>1, <1>2
    <3>3. <<t[g - 1], t[g]>> \in links[g - 1] /\ <<u[g - 1], u[g]>> \in links[g - 1]
      BY <1>1, <3>2
    <3>4. t[g - 1] # u[g - 1]
      BY <3>1, <3>2
    <3>5. g - 1 \in DOMAIN links
      BY <1>1, <1>2, <3>2 DEF Links
    <3>6. t[g] # u[g]
      BY <1>3, <3>3, <3>4, <3>5
    <3>7. QED
      BY <3>2, <3>6
  <2> HIDE DEF c, W
  <2>5. \A g \in b .. f : c[g] \in W[g]
    BY <2>2, <2>3, <2>4, ChainStays
  <2>6. c[f] \in W[f]
    BY <2>2, <2>5
  <2>7. QED
    BY <2>2, <2>6 DEF c, W
<1>5. u[b] = w[2][1]
  BY <1>1 DEF Follows
<1>6. a = b
  <2>1. SUFFICES ASSUME a < b PROVE FALSE
    BY <1>2
  <2>2. b \in a + 1 .. d /\ b > 1
    BY <1>2, <2>1
  <2>3. <<t[b - 1], t[b]>> \in links[b - 1]
    BY <1>1, <2>2
  <2>4. <<t[b - 1], t[b]>>[2] = w[2][1]
    BY <1>4, <1>5
  <2>5. ~\E p \in links[b - 1] : p[2] = w[2][1]
    BY <1>1, <2>2 DEF Follows
  <2>6. QED
    BY <2>3, <2>4, <2>5
<1>7. v[2][1] = w[2][1]
  BY <1>1, <1>4, <1>5, <1>6 DEF Follows
<1>8. QED
  BY <1>1, <1>6, <1>7 DEF Follows

\* The tracks a program starts with go from frame to frame and never meet.
LEMMA TracksStart ==
    ASSUME NEW kept, kept \in Kept, file.planes = NFramesOut, NFramesOut \in Nat, MaxFound \in Nat,
           NEW tracks \in TrackLists(kept)
    PROVE  /\ TracksOK(tracks)
           /\ \A n \in 1 .. Len(tracks) : \A f \in DOMAIN tracks[n] : tracks[n][f] \in kept[f]
<1>1. PICK links \in Links(kept) : tracks \in SetToSeqs(Tracks(links))
  BY DEF TrackLists
<1>2. file.planes \in Nat
  OBVIOUS
<1>3. IsFiniteSet(Tracks(links))
  BY <1>2, TracksFinite
<1>4. /\ Len(tracks) \in Nat /\ \A n \in 1 .. Len(tracks) : tracks[n] \in Tracks(links)
      /\ \A m, n \in 1 .. Len(tracks) : tracks[m] = tracks[n] => m = n
  BY <1>1, <1>3, OrderIs
<1>5. ASSUME NEW t \in Tracks(links)
      PROVE  TrackOK(t) /\ \A f \in DOMAIN t : t[f] \in kept[f]
  <2>1. \A g \in DOMAIN t : g \in 1 .. file.planes /\ t[g] \in kept[g]
    BY <1>2, TrackIs
  <2>2. PICK w : Follows(links, w, t)
    BY <1>2, TrackFollows
  <2>3. PICK e : e \in w[1] + 1 .. file.planes /\ DOMAIN t = w[1] .. e
    BY <2>2 DEF Follows
  <2>4. w[1] \in 1 .. file.planes - 1
    BY <2>2 DEF Follows, Links
  <2>5. PICK a, b : a = w[1] /\ b = e
    OBVIOUS
  <2>6. a \in 1 .. NFramesOut /\ b \in 1 .. NFramesOut /\ a < b /\ DOMAIN t = a .. b
    BY <2>3, <2>4, <2>5
  <2>7. \A f \in a .. b : t[f] \in 0 .. MaxFound
    <3>1. ASSUME NEW f \in a .. b PROVE t[f] \in 0 .. MaxFound
      <4>1. f \in 1 .. file.planes /\ t[f] \in kept[f]
        BY <2>1, <2>6
      <4>2. kept[f] \subseteq 0 .. MaxFound
        BY <4>1 DEF Kept
      <4>3. QED
        BY <4>1, <4>2
    <3>2. QED
      BY <3>1
  <2>8. t = [f \in DOMAIN t |-> t[f]]
    BY <1>2, TrackIs
  <2>9. t \in [a .. b -> 0 .. MaxFound]
    BY <2>6, <2>7, <2>8
  <2>10. QED
    BY <2>1, <2>6, <2>9 DEF TrackOK
<1>6. ASSUME NEW t \in Tracks(links), NEW u \in Tracks(links), NEW f \in DOMAIN t \cap DOMAIN u, t[f] = u[f]
      PROVE  t = u
  <2>1. PICK v : Follows(links, v, t)
    BY <1>2, TrackFollows
  <2>2. PICK w : Follows(links, w, u)
    BY <1>2, TrackFollows
  <2>3. v[1] \in Int /\ w[1] \in Int
    <3>1. v[1] \in 1 .. file.planes - 1 /\ w[1] \in 1 .. file.planes - 1
      BY <2>1, <2>2 DEF Follows, Links
    <3>2. QED
      BY <1>2, <3>1
  <2>4. CASE v[1] <= w[1]
    BY <1>2, <1>6, <2>1, <2>2, <2>4, MeetOnce
  <2>5. CASE w[1] <= v[1]
    <3>1. f \in DOMAIN u \cap DOMAIN t /\ u[f] = t[f]
      BY <1>6
    <3>2. u = t
      BY <1>2, <2>1, <2>2, <2>5, <3>1, MeetOnce
    <3>3. QED
      BY <3>2
  <2>6. QED
    BY <2>3, <2>4, <2>5
<1>7. ASSUME NEW m \in 1 .. Len(tracks), NEW n \in 1 .. Len(tracks),
             NEW f \in DOMAIN tracks[m] \cap DOMAIN tracks[n], tracks[m][f] = tracks[n][f]
      PROVE  m = n
  <2>1. tracks[m] = tracks[n]
    BY <1>4, <1>6, <1>7
  <2>2. QED
    BY <1>4, <2>1
<1>8. QED
  BY <1>4, <1>5, <1>7 DEF TracksOK

\* The particle of track t in frame g, if it has one.
AtFrame(t, g) == IF g \in DOMAIN t THEN t[g] ELSE -1

\* What is said of a particle in a track, and of one in none.
LEMMA TrackedIs ==
    ASSUME NEW tracks, TracksOK(tracks), NEW f, NEW i
    PROVE  /\ Tracked(tracks, f, i).ind = i
           /\ \A n \in 1 .. Len(tracks) : f \in DOMAIN tracks[n] /\ tracks[n][f] = i =>
                /\ Tracked(tracks, f, i).val[NEXT_INDX] = AtFrame(tracks[n], f + 1)
                /\ Tracked(tracks, f, i).val[PREV_INDX] = AtFrame(tracks[n], f - 1)
                /\ Tracked(tracks, f, i).val[TRACKID] = n - 1
           /\ (\A n \in 1 .. Len(tracks) : ~(f \in DOMAIN tracks[n] /\ tracks[n][f] = i)) =>
                \A t \in TypesOf("tracking") : Tracked(tracks, f, i).val[t] = -1
<1> DEFINE on == {n \in 1 .. Len(tracks) : f \in DOMAIN tracks[n] /\ tracks[n][f] = i}
           Beside(g) == IF \E n \in on : g \in DOMAIN tracks[n]
                        THEN tracks[CHOOSE n \in on : g \in DOMAIN tracks[n]][g] ELSE -1
           val == [t \in TypesOf("tracking") |->
                     CASE t = NEXT_INDX -> Beside(f + 1)
                       [] t = PREV_INDX -> Beside(f - 1)
                       [] OTHER -> IF on = {} THEN -1 ELSE (CHOOSE n \in on : TRUE) - 1]
<1>1. Tracked(tracks, f, i) = [ind |-> i, val |-> val]
  BY DEF Tracked
<1>2. Tracked(tracks, f, i).ind = i /\ Tracked(tracks, f, i).val = val
  BY <1>1
<1> HIDE DEF on
<1>3. /\ val[NEXT_INDX] = Beside(f + 1) /\ val[PREV_INDX] = Beside(f - 1)
      /\ val[TRACKID] = IF on = {} THEN -1 ELSE (CHOOSE n \in on : TRUE) - 1
  BY TypesApart
<1> HIDE DEF val
<1>4. ASSUME NEW n \in on
      PROVE  on = {n}
  BY DEF on, TracksOK
<1>5. ASSUME NEW n \in 1 .. Len(tracks), f \in DOMAIN tracks[n], tracks[n][f] = i
      PROVE  /\ val[NEXT_INDX] = AtFrame(tracks[n], f + 1) /\ val[PREV_INDX] = AtFrame(tracks[n], f - 1)
             /\ val[TRACKID] = n - 1
  <2>1. on = {n}
    BY <1>4, <1>5 DEF on
  <2>2. (CHOOSE m \in on : TRUE) = n
    BY <2>1
  <2>3. ASSUME NEW g PROVE Beside(g) = AtFrame(tracks[n], g)
    <3>1. CASE g \in DOMAIN tracks[n]
      <4>1. (CHOOSE m \in on : g \in DOMAIN tracks[m]) = n
        BY <2>1, <3>1
      <4>2. QED
        BY <2>1, <3>1, <4>1 DEF AtFrame
    <3>2. CASE g \notin DOMAIN tracks[n]
      BY <2>1, <3>2 DEF AtFrame
    <3>3. QED
      BY <3>1, <3>2
  <2> HIDE DEF Beside
  <2>4. QED
    BY <1>3, <2>1, <2>2, <2>3
<1>6. ASSUME \A n \in 1 .. Len(tracks) : ~(f \in DOMAIN tracks[n] /\ tracks[n][f] = i)
      PROVE  \A t \in TypesOf("tracking") : val[t] = -1
  <2>1. on = {}
    BY <1>6 DEF on
  <2>2. \A g : Beside(g) = -1
    BY <2>1
  <2> HIDE DEF Beside
  <2>3. QED
    BY <1>3, <2>1, <2>2, TypesApart
<1>7. QED
  BY <1>2, <1>5, <1>6

\* The data sets of tracking under a key, and a value that is what the tracks say.
OfKey(tk) == {d \in DOMAIN file.data : OfTracking(d) /\ d[3] = tk}
Right(tracks, d, i) == file.data[d][i] = Tracked(tracks, d[1], i).val[d[2]]

\* What is under tk says what the tracks say, or was never written, in the last frame.
WrittenBy(tracks, tk) ==
    /\ TracksOK(tracks)
    /\ \A d \in OfKey(tk) :
        /\ \A n \in 1 .. Len(tracks) : d[1] \in DOMAIN tracks[n] => tracks[n][d[1]] \in DOMAIN file.data[d]
        /\ \A i \in DOMAIN file.data[d] :
            \/ Right(tracks, d, i)
            \/ file.data[d][i] = FillValue /\ \A e \in OfKey(tk) : e[1] <= d[1]

\* The boxes of a frame hold what the program's tracks say, of all that are in a track.
BoxTracked(f) ==
    /\ \A m \in 1 .. Len(box[f]) : box[f][m] = Tracked(prog.tracks, f, box[f][m].ind)
    /\ \A n \in 1 .. Len(prog.tracks) :
        f \in DOMAIN prog.tracks[n] => \E m \in 1 .. Len(box[f]) : box[f][m].ind = prog.tracks[n][f]

\* What tracking that works knows and has written: frames before its own are whole, and
\* buffers that are written, now or when it is unwound, are right.
TracksKept == prog # Nobody /\ prog.kind = "tracking" =>
    /\ TracksOK(prog.tracks)
    /\ \A f \in 1 .. NFramesOut : BoxTracked(f)
    /\ prog.pc \in InOrder \/ group.open => WrittenBy(prog.tracks, prog.key)
    /\ prog.pc \in InOrder =>
        \A d \in OfKey(prog.key) : d[1] < prog.frame => \A i \in DOMAIN file.data[d] : Right(prog.tracks, d, i)
    /\ group.open /\ group.added = Len(box[prog.frame]) =>
        \A t \in Types : \A i \in DOMAIN group.vals[t] :
            group.vals[t][i] = Tracked(prog.tracks, prog.frame, i).val[t]

\* Somebody has written what is under tk.
HasWriter(tk) ==
    \/ \E r \in runs : r.kind = "tracking" /\ r.key = tk /\ WrittenBy(r.tracks, tk)
    \/ prog # Nobody /\ prog.kind = "tracking" /\ prog.key = tk /\ WrittenBy(prog.tracks, tk)

\* The two together are inductive.
TrackedInv == (\A tk : OfKey(tk) # {} => HasWriter(tk)) /\ TracksKept

\* What a list of tracks has to be depends on the image alone.
LEMMA TracksFixed ==
    ASSUME UNCHANGED <<stack, avgCount>>
    PROVE  \A tracks : TracksOK(tracks)' = TracksOK(tracks)
<1>1. NFramesOut' = NFramesOut /\ MaxFound' = MaxFound
  BY WantedFixed DEF MaxFound, NPlanes
<1>2. QED
  BY <1>1 DEF TracksOK, TrackOK

\* What is under tk keeps its places, and its values unless right ones are written.
KeyStays(tk, tracks) ==
    /\ OfKey(tk)' = OfKey(tk)
    /\ \A d \in OfKey(tk) :
        /\ DOMAIN file'.data[d] = DOMAIN file.data[d]
        /\ \A i \in DOMAIN file.data[d] : file'.data[d][i] = file.data[d][i] \/ Right(tracks, d, i)'

\* Then it says what it said.
LEMMA KeyWritten ==
    ASSUME UNCHANGED <<stack, avgCount>>, NEW tk, NEW tracks, WrittenBy(tracks, tk), KeyStays(tk, tracks)
    PROVE  WrittenBy(tracks, tk)'
<1>1. TracksOK(tracks)'
  BY TracksFixed DEF WrittenBy
<1>2. ASSUME NEW d \in OfKey(tk), NEW i \in DOMAIN file.data[d]
      PROVE  Right(tracks, d, i)' \/ (file'.data[d][i] = FillValue /\ \A e \in OfKey(tk) : e[1] <= d[1])
  <2>1. CASE Right(tracks, d, i)'
    BY <2>1
  <2>2. CASE file'.data[d][i] = file.data[d][i]
    <3>1. Right(tracks, d, i) \/ (file.data[d][i] = FillValue /\ \A e \in OfKey(tk) : e[1] <= d[1])
      BY <1>2 DEF WrittenBy
    <3>2. Right(tracks, d, i) => Right(tracks, d, i)'
      BY <2>2 DEF Right
    <3>3. QED
      BY <2>2, <3>1, <3>2
  <2>3. QED
    BY <1>2, <2>1, <2>2 DEF KeyStays
<1>3. \A d \in OfKey(tk) : \A n \in 1 .. Len(tracks) :
        d[1] \in DOMAIN tracks[n] => tracks[n][d[1]] \in DOMAIN file'.data[d]
  BY DEF WrittenBy, KeyStays
<1>4. \A d \in OfKey(tk) : DOMAIN file'.data[d] = DOMAIN file.data[d]
  BY DEF KeyStays
<1>5. OfKey(tk)' = OfKey(tk)
  BY DEF KeyStays
<1>6. QED
  BY <1>1, <1>2, <1>3, <1>4, <1>5 DEF WrittenBy

\* Who has written under tk has, while nothing else is.
LEMMA WriterStays ==
    ASSUME UNCHANGED <<stack, avgCount>>, NEW tk, HasWriter(tk), runs \subseteq runs', \A tracks : KeyStays(tk, tracks),
           prog # Nobody /\ prog.kind = "tracking" =>
               \/ /\ prog' # Nobody /\ prog'.kind = "tracking"
                  /\ prog'.key = prog.key /\ prog'.tracks = prog.tracks
               \/ \E r \in runs' : r.kind = "tracking" /\ r.key = prog.key /\ r.tracks = prog.tracks
    PROVE  HasWriter(tk)'
<1>1. \A tracks : WrittenBy(tracks, tk) => WrittenBy(tracks, tk)'
  BY KeyWritten
<1>2. CASE \E r \in runs : r.kind = "tracking" /\ r.key = tk /\ WrittenBy(r.tracks, tk)
  <2>1. PICK r \in runs : r.kind = "tracking" /\ r.key = tk /\ WrittenBy(r.tracks, tk)
    BY <1>2
  <2>2. PICK tracks : tracks = r.tracks
    OBVIOUS
  <2>3. WrittenBy(tracks, tk)'
    BY <1>1, <2>1, <2>2
  <2>4. QED
    BY <2>1, <2>2, <2>3 DEF HasWriter
<1>3. CASE prog # Nobody /\ prog.kind = "tracking" /\ prog.key = tk /\ WrittenBy(prog.tracks, tk)
  <2>1. PICK tracks : tracks = prog.tracks
    OBVIOUS
  <2>2. WrittenBy(tracks, tk)'
    BY <1>1, <1>3, <2>1
  <2>3. QED
    BY <1>3, <2>1, <2>2 DEF HasWriter
<1>4. QED
  BY <1>2, <1>3 DEF HasWriter

\* The same data sets with the same values.
LEMMA SameKeys ==
    ASSUME \A d \in DOMAIN file.data : d \in DOMAIN file'.data /\ file'.data[d] = file.data[d],
           NEW tk, \A d \in DOMAIN file'.data : OfTracking(d) /\ d[3] = tk => d \in DOMAIN file.data
    PROVE  \A tracks : KeyStays(tk, tracks)
<1>1. OfKey(tk)' = OfKey(tk)
  BY DEF OfKey, OfTracking, TypesOf
<1>2. \A d \in OfKey(tk) : file'.data[d] = file.data[d]
  BY DEF OfKey
<1>3. QED
  BY <1>1, <1>2 DEF KeyStays

\* A step of a program that leaves the data sets keeps TrackedInv when the buffers are
\* right after it.
LEMMA GoesOnTracked ==
    ASSUME BaseInv, TrackedInv, GoesOn, file'.data = file.data,
           prog.kind = "tracking" /\ prog'.pc \in InOrder =>
               (prog.pc \in InOrder /\ prog'.frame = prog.frame) \/ OfKey(prog.key) = {},
           group'.open => group.open,
           prog.kind = "tracking" /\ group'.open /\ group'.added = Len(box[prog'.frame]) =>
               \A t \in Types : \A i \in DOMAIN group'.vals[t] :
                   group'.vals[t][i] = Tracked(prog.tracks, prog'.frame, i).val[t]
    PROVE  TrackedInv'
<1>1. UNCHANGED <<stack, avgCount>> /\ runs' = runs /\ box' = box
  BY DEF GoesOn, idenVars
<1>2. \A tk : OfKey(tk)' = OfKey(tk)
  BY DEF OfKey, OfTracking, TypesOf
<1>3. \A tk, tracks : KeyStays(tk, tracks)
  BY <1>2 DEF KeyStays
<1>4. ASSUME NEW tk, OfKey(tk)' # {}
      PROVE  HasWriter(tk)'
  <2>1. HasWriter(tk)
    BY <1>2, <1>4 DEF TrackedInv
  <2>2. QED
    BY <1>1, <1>3, <2>1, WriterStays DEF GoesOn
<1>5. SUFFICES ASSUME prog.kind = "tracking" PROVE TracksKept'
  BY <1>4 DEF TrackedInv, TracksKept, GoesOn
<1>6. PICK tracks, key : tracks = prog.tracks /\ key = prog.key
  OBVIOUS
<1>7. /\ prog'.tracks = tracks /\ prog'.key = key /\ prog # Nobody
      /\ TracksKept
  BY <1>6 DEF GoesOn, TrackedInv
<1>8. TracksOK(tracks) /\ TracksOK(tracks)'
  BY <1>1, <1>5, <1>6, <1>7, TracksFixed DEF TracksKept
<1>9. \A f \in 1 .. NFramesOut' : BoxTracked(f)'
  <2>1. NFramesOut' = NFramesOut
    BY <1>1, WantedFixed
  <2>2. \A f \in 1 .. NFramesOut : BoxTracked(f)
    BY <1>5, <1>7 DEF TracksKept
  <2>3. \A f : BoxTracked(f) => BoxTracked(f)'
    BY <1>1, <1>6, <1>7 DEF BoxTracked
  <2>4. QED
    BY <2>1, <2>2, <2>3
<1>10. ASSUME prog'.pc \in InOrder \/ group'.open
       PROVE  WrittenBy(tracks, key)'
  <2>1. CASE prog.pc \in InOrder \/ group.open
    <3>1. WrittenBy(tracks, key)
      BY <1>5, <1>6, <1>7, <2>1 DEF TracksKept
    <3>2. QED
      BY <1>1, <1>3, <3>1, KeyWritten
  <2>2. CASE OfKey(key) = {}
    BY <1>2, <1>8, <2>2 DEF WrittenBy
  <2>3. QED
    BY <1>5, <1>6, <1>10, <2>1, <2>2
<1>11. ASSUME prog'.pc \in InOrder, NEW d \in OfKey(key)', d[1] < prog'.frame, NEW i \in DOMAIN file'.data[d]
       PROVE  Right(tracks, d, i)'
  <2>1. d \in OfKey(key) /\ prog.pc \in InOrder /\ prog'.frame = prog.frame
    BY <1>2, <1>5, <1>6, <1>11
  <2>2. Right(tracks, d, i)
    BY <1>5, <1>6, <1>7, <1>11, <2>1 DEF TracksKept
  <2>3. QED
    BY <2>2 DEF Right
<1>12. Types' = Types
  BY DEF Types, GoesOn, TypesOf
<1>13. group'.open /\ group'.added = Len(box'[prog'.frame]) =>
         \A t \in Types' : \A i \in DOMAIN group'.vals[t] :
             group'.vals[t][i] = Tracked(tracks, prog'.frame, i).val[t]
  BY <1>1, <1>5, <1>6, <1>12
<1>14. \A f, i : Tracked(tracks, f, i)' = Tracked(tracks, f, i)
  OBVIOUS
<1>15. QED
  BY <1>7, <1>8, <1>9, <1>10, <1>11, <1>13 DEF TracksKept

\* Opening the file keeps it: nothing is under the key of a program that gets so far,
LEMMA OpenTracked ==
    ASSUME BaseInv, TrackedInv, OpenFile \/ OpenFileFails, UNCHANGED idenVars
    PROVE  TrackedInv'
<1>1. PICK T \in SUBSET Types :
        /\ GoesOn /\ prog.pc = "open" /\ group' = group /\ (Went("root") \/ Threw)
        /\ \/ file' = file /\ Threw
           \/ /\ Went("root") => T = Types
              /\ ParamGroups(T) \cap file.params = {}
              /\ IF Appends THEN file.state = "good" ELSE file.state = "absent"
              /\ file'.data = IF Appends THEN file.data ELSE <<>>
  <2>1. CASE file' = file /\ Threw
    BY <2>1, OpenStep DEF SameFrame
  <2>2. CASE ~(file' = file /\ Threw)
    BY <2>2, OpenStep DEF SameFrame
  <2>3. QED
    BY <2>1, <2>2
<1>2. file'.data = file.data
  <2>1. file.state = "absent" => file.data = <<>>
    BY DEF BaseInv, FileOK
  <2>2. QED
    BY <1>1, <2>1
<1>3. ~group.open
  BY <1>1 DEF BaseInv, GroupOK, Writing
<1>4. ASSUME prog.kind = "tracking", prog'.pc \in InOrder
      PROVE  OfKey(prog.key) = {}
  <2>1. Types = TypesOf("tracking") /\ ParamGroups(Types) \cap file.params = {}
    BY <1>1, <1>4 DEF Types, Went, Threw, InOrder, Writing
  <2>2. ASSUME NEW d \in OfKey(prog.key) PROVE FALSE
    <3>1. <<d[2], d[3]>> \in file.params /\ d[2] \in TypesOf("tracking") /\ d[3] = prog.key
      BY DEF OfKey, OfTracking, BaseInv, FileOK
    <3>2. <<d[2], d[3]>> \in ParamGroups(Types)
      BY <2>1, <3>1 DEF ParamGroups
    <3>3. QED
      BY <2>1, <3>1, <3>2
  <2>3. QED
    BY <2>2
<1>5. QED
  BY <1>1, <1>2, <1>3, <1>4, GoesOnTracked

\* Buffers that hold the particles of a frame, and nothing else, are right.
LEMMA BuffersRight ==
    ASSUME NEW tracks, TracksOK(tracks), NEW f, NEW D, NEW K, NEW n,
           \A p \in K : p = Tracked(tracks, f, p.ind),
           \A l \in 1 .. Len(tracks) : f \in DOMAIN tracks[l] => \E p \in K : p.ind = tracks[l][f],
           ArraysRight("tracking", D, K, n)
    PROVE  \A t \in TypesOf("tracking") : \A i \in DOMAIN D[t] : D[t][i] = Tracked(tracks, f, i).val[t]
<1>1. SUFFICES ASSUME NEW t \in TypesOf("tracking"), NEW i \in DOMAIN D[t]
               PROVE  D[t][i] = Tracked(tracks, f, i).val[t]
  OBVIOUS
<1>2. /\ \A p \in K : D[t][p.ind] = p.val[t]
      /\ D[t][i] = BufferValue \/ \E p \in K : p.ind = i
  BY DEF ArraysRight
<1>3. CASE \E p \in K : p.ind = i
  <2>1. PICK p \in K : p.ind = i
    BY <1>3
  <2>2. p = Tracked(tracks, f, i)
    BY <2>1
  <2>3. D[t][i] = p.val[t]
    BY <1>2, <2>1
  <2>4. QED
    BY <2>2, <2>3
<1>4. CASE ~\E p \in K : p.ind = i
  <2>1. \A l \in 1 .. Len(tracks) : ~(f \in DOMAIN tracks[l] /\ tracks[l][f] = i)
    BY <1>4
  <2>2. Tracked(tracks, f, i).val[t] = -1
    BY <2>1, TrackedIs
  <2>3. QED
    BY <1>2, <1>4, <2>2 DEF BufferValue
<1>5. QED
  BY <1>3, <1>4

\* storing the particles in the buffers,
LEMMA StoredTracked ==
    ASSUME BaseInv, SavedInv, TrackedInv, StoreParticles, UNCHANGED idenVars
    PROVE  TrackedInv'
<1>1. /\ prog # Nobody /\ prog.pc = "store" /\ GoesOn /\ prog'.pc = "close" /\ prog'.frame = prog.frame
      /\ file' = file /\ group.open
  <2>1. prog # Nobody /\ prog.pc = "store"
    BY DEF StoreParticles, At
  <2>2. QED
    BY <2>1, StoredIs
<1>2. ASSUME prog.kind = "tracking"
      PROVE  \A t \in Types : \A i \in DOMAIN group'.vals[t] :
                 group'.vals[t][i] = Tracked(prog.tracks, prog.frame, i).val[t]
  <2>1. prog.frame \in 1 .. NFramesOut
    BY <1>1, NFramesType DEF BaseInv, IdenInv, ProgOK, GroupOK
  <2>2. PICK tracks, f, K, n, D : /\ tracks = prog.tracks /\ f = prog.frame /\ K = Held(f)
                                  /\ n = wrapper[f].found /\ D = group'.vals
    OBVIOUS
  <2>3. ArraysRight("tracking", D, K, n)
    BY <1>2, <2>2, StoredRight
  <2>4. TracksOK(tracks) /\ BoxTracked(f)
    BY <1>1, <1>2, <2>1, <2>2 DEF TrackedInv, TracksKept
  <2>5. /\ \A p \in K : p = Tracked(tracks, f, p.ind)
        /\ \A l \in 1 .. Len(tracks) : f \in DOMAIN tracks[l] => \E p \in K : p.ind = tracks[l][f]
    BY <2>2, <2>4 DEF BoxTracked, Held
  <2>6. Types = TypesOf("tracking")
    BY <1>2 DEF Types
  <2>7. \A t \in TypesOf("tracking") : \A i \in DOMAIN D[t] : D[t][i] = Tracked(tracks, f, i).val[t]
    BY <2>3, <2>4, <2>5, BuffersRight
  <2>8. QED
    BY <2>2, <2>6, <2>7
<1>3. QED
  BY <1>1, <1>2, GoesOnTracked DEF InOrder, Writing

\* What tracking knows of its particles stays as it goes on.
LEMMA BoxesStay ==
    ASSUME BaseInv, TrackedInv, GoesOn, prog.kind = "tracking"
    PROVE  /\ TracksOK(prog.tracks) /\ TracksOK(prog.tracks)'
           /\ \A f \in 1 .. NFramesOut : BoxTracked(f)
           /\ \A f \in 1 .. NFramesOut' : BoxTracked(f)'
<1>1. UNCHANGED <<stack, avgCount>> /\ box' = box /\ prog'.tracks = prog.tracks /\ prog # Nobody
  BY DEF GoesOn, idenVars
<1>2. PICK tracks : tracks = prog.tracks
  OBVIOUS
<1>3. TracksOK(tracks) /\ \A f \in 1 .. NFramesOut : BoxTracked(f)
  BY <1>1, <1>2 DEF TrackedInv, TracksKept
<1>4. TracksOK(tracks)'
  BY <1>1, <1>3, TracksFixed
<1>5. NFramesOut' = NFramesOut
  BY <1>1, WantedFixed
<1>6. \A f : BoxTracked(f) => BoxTracked(f)'
  BY <1>1 DEF BoxTracked
<1>7. QED
  BY <1>1, <1>2, <1>3, <1>4, <1>5, <1>6

\* The data sets of a program that does not track are no data sets of tracking.
LEMMA NoTracking ==
    ASSUME prog.kind \in Kinds, prog.kind # "tracking"
    PROVE  \A f, T : T \in SUBSET Types => \A d \in Names(f, T) : ~OfTracking(d)
<1>1. Types \cap TypesOf("tracking") = {}
  BY TypesApart DEF Types, Kinds
<1>2. QED
  BY <1>1, NamesAre DEF OfTracking

\* making the data sets of a frame,
LEMMA GroupTracked ==
    ASSUME BaseInv, LaidInv, TrackedInv, OpenGroup \/ OpenGroupFails, UNCHANGED idenVars
    PROVE  TrackedInv'
<1>1. PICK T \in SUBSET Types :
        /\ GoesOn /\ prog'.frame = prog.frame /\ prog.pc = "group" /\ prog.frame \in 1 .. NFramesOut
        /\ \/ Threw /\ group' = group
           \/ /\ Went("meta")
              /\ group' = [open |-> TRUE, added |-> 0,
                           vals |-> [t \in Types |-> [i \in 0 .. prog.size[prog.frame] - 1 |-> BufferValue]]]
        /\ DOMAIN file'.data = DOMAIN file.data \cup Names(prog.frame, T)
        /\ \A d \in DOMAIN file.data : file'.data[d] = file.data[d]
        /\ \A d \in Names(prog.frame, T) :
                file'.data[d] = [i \in 0 .. prog.size[prog.frame] - 1 |-> FillValue]
  BY GroupStep DEF SameFrame
<1>2. /\ UNCHANGED <<stack, avgCount>> /\ runs' = runs /\ box' = box /\ ProgOK /\ GroupOK
      /\ prog # Nobody /\ prog' # Nobody /\ prog'.kind = prog.kind /\ prog'.key = prog.key
      /\ prog'.tracks = prog.tracks /\ prog.kind \in Kinds
      /\ prog.kind = "tracking" \/ prog.kind # "tracking"
  BY <1>1 DEF GoesOn, idenVars, BaseInv, ProgOK
<1>3. ASSUME NEW tk, OfKey(tk)' # {}, prog.kind # "tracking" \/ tk # prog.key
      PROVE  HasWriter(tk)'
  <2>1. \A d \in Names(prog.frame, T) : ~(OfTracking(d) /\ d[3] = tk)
    <3>1. CASE prog.kind # "tracking"
      BY <1>2, <3>1, NoTracking
    <3>2. CASE tk # prog.key
      BY <3>2, NamesAre
    <3>3. QED
      BY <1>3, <3>1, <3>2
  <2>2. \A d \in DOMAIN file'.data : OfTracking(d) /\ d[3] = tk => d \in DOMAIN file.data
    BY <1>1, <2>1
  <2>3. \A tracks : KeyStays(tk, tracks)
    BY <1>1, <2>2, SameKeys
  <2>4. OfKey(tk) # {}
    BY <1>3, <2>3 DEF KeyStays
  <2>5. HasWriter(tk)
    BY <2>4 DEF TrackedInv
  <2>6. QED
    BY <1>2, <2>3, <2>5, WriterStays
<1>4. SUFFICES ASSUME prog.kind = "tracking" PROVE TracksKept' /\ HasWriter(prog.key)'
  BY <1>2, <1>3 DEF TrackedInv, TracksKept
<1>5. /\ TracksOK(prog.tracks) /\ TracksOK(prog.tracks)'
      /\ \A f \in 1 .. NFramesOut : BoxTracked(f)
      /\ \A f \in 1 .. NFramesOut' : BoxTracked(f)'
  BY <1>1, <1>4, BoxesStay
<1>6. PICK tracks, key, f, size, b : /\ tracks = prog.tracks /\ key = prog.key /\ f = prog.frame
                                     /\ size = prog.size[f] /\ b = box[f]
  OBVIOUS
<1>7. /\ Len(b) \in Nat /\ size \in Nat \ {0} /\ \A m \in 1 .. Len(b) : b[m].ind \in 0 .. size - 1
      /\ \A n \in 1 .. Len(tracks) : f \in DOMAIN tracks[n] => \E m \in 1 .. Len(b) : b[m].ind = tracks[n][f]
  <2>1. BoxOK(f) /\ BoxTracked(f)
    BY <1>1, <1>2, <1>5, <1>6 DEF ProgOK
  <2>2. QED
    BY <1>4, <1>6, <2>1 DEF BoxOK, BoxTracked
<1>8. Types = TypesOf("tracking") /\ Types' = Types /\ prog.pc \in InOrder
  BY <1>1, <1>2, <1>4 DEF Types, InOrder
<1>9. ASSUME NEW d \in OfKey(key)
      PROVE  d[1] \in Nat /\ d[1] < f /\ (\A i \in DOMAIN file.data[d] : Right(tracks, d, i))
  <2>1. d \in DOMAIN file.data /\ d[2] \in Types /\ d[3] = key
    BY <1>8, <1>9 DEF OfKey, OfTracking
  <2>2. d = <<d[1], d[2], d[3]>> /\ d[1] \in Nat
    <3>1. d = <<d[1], d[2], d[3]>> /\ d[1] \in 1 .. NFramesOut
      BY <2>1 DEF LaidInv, DataLaid
    <3>2. QED
      BY <3>1
  <2>3. d \in Names(d[1], Types)
    BY <1>6, <2>1, <2>2, NamesAre
  <2>4. FirstNew = f
    BY <1>1, <1>6 DEF FirstNew, Writing
  <2>5. ~(d[1] >= f)
    BY <1>2, <1>8, <2>1, <2>2, <2>3, <2>4 DEF ProgOK
  <2>6. d[1] < f
    BY <1>1, <1>6, <2>2, <2>5
  <2>7. QED
    BY <1>2, <1>4, <1>6, <1>8, <1>9, <2>2, <2>6 DEF TrackedInv, TracksKept
<1>10. OfKey(key)' = OfKey(key) \cup Names(f, T)
  <2>1. \A d \in Names(f, T) : OfTracking(d) /\ d[3] = key
    BY <1>6, <1>8, NamesAre DEF OfTracking
  <2>2. QED
    BY <1>1, <1>6, <2>1 DEF OfKey, OfTracking, TypesOf
<1>11. ASSUME NEW d \in OfKey(key), NEW i \in DOMAIN file'.data[d]
       PROVE  Right(tracks, d, i)'
  <2>1. file'.data[d] = file.data[d]
    BY <1>1 DEF OfKey
  <2>2. Right(tracks, d, i)
    BY <1>9, <1>11, <2>1
  <2>3. QED
    BY <2>1, <2>2 DEF Right
<1>12. ASSUME NEW d \in Names(f, T)
       PROVE  /\ d[1] = f
              /\ \A n \in 1 .. Len(tracks) : d[1] \in DOMAIN tracks[n] => tracks[n][d[1]] \in DOMAIN file'.data[d]
              /\ \A i \in DOMAIN file'.data[d] : file'.data[d][i] = FillValue
  <2>1. d[1] = f
    BY NamesAre
  <2>2. file'.data[d] = [i \in 0 .. size - 1 |-> FillValue]
    BY <1>1, <1>6
  <2>3. DOMAIN file'.data[d] = 0 .. size - 1 /\ \A i \in 0 .. size - 1 : file'.data[d][i] = FillValue
    BY <2>2
  <2>4. QED
    BY <1>7, <2>1, <2>3
<1>13. WrittenBy(tracks, key)'
  <2>1. \A e \in OfKey(key)' : e[1] <= f
    BY <1>1, <1>6, <1>9, <1>10, <1>12
  <2>2. \A d \in OfKey(key) : \A n \in 1 .. Len(tracks) :
          d[1] \in DOMAIN tracks[n] => tracks[n][d[1]] \in DOMAIN file'.data[d]
    <3>1. WrittenBy(tracks, key)
      BY <1>2, <1>4, <1>6, <1>8 DEF TrackedInv, TracksKept
    <3>2. \A d \in OfKey(key) : file'.data[d] = file.data[d]
      BY <1>1 DEF OfKey
    <3>3. QED
      BY <3>1, <3>2 DEF WrittenBy
  <2>3. TracksOK(tracks)'
    BY <1>2, <1>5, <1>6
  <2>4. QED
    BY <1>10, <1>11, <1>12, <2>1, <2>2, <2>3 DEF WrittenBy
<1>14. ASSUME group'.open, group'.added = Len(box'[prog'.frame]), NEW t \in Types, NEW i \in DOMAIN group'.vals[t]
       PROVE  group'.vals[t][i] = Tracked(tracks, f, i).val[t]
  <2>1. ~group.open
    BY <1>1, <1>2 DEF GroupOK, Writing
  <2>2. group' = [open |-> TRUE, added |-> 0,
                  vals |-> [u \in Types |-> [j \in 0 .. prog.size[prog.frame] - 1 |-> BufferValue]]]
    BY <1>1, <1>14, <2>1
  <2>3. group'.added = 0 /\ group'.vals[t][i] = -1
    BY <1>14, <2>2 DEF BufferValue
  <2>4. Len(b) = 0
    BY <1>1, <1>2, <1>6, <1>14, <2>3
  <2>5. \A n \in 1 .. Len(tracks) : f \notin DOMAIN tracks[n]
    BY <1>7, <2>4
  <2>6. Tracked(tracks, f, i).val[t] = -1
    BY <1>5, <1>6, <1>8, <2>5, TrackedIs
  <2>7. QED
    BY <2>3, <2>6
<1>15. ASSUME NEW d \in OfKey(key)', d[1] < f, NEW i \in DOMAIN file'.data[d]
       PROVE  Right(tracks, d, i)'
  <2>1. d \in OfKey(key)
    BY <1>1, <1>6, <1>10, <1>12, <1>15
  <2>2. QED
    BY <1>11, <1>15, <2>1
<1>16. \A e, i : Tracked(tracks, e, i)' = Tracked(tracks, e, i)
  OBVIOUS
<1>17. TracksKept'
  <2>1. prog'.tracks = tracks /\ prog'.key = key /\ prog'.frame = f
    BY <1>1, <1>2, <1>6
  <2>2. QED
    BY <1>5, <1>8, <1>13, <1>14, <1>15, <2>1 DEF TracksKept
<1>18. HasWriter(prog.key)'
  <2>1. prog'.tracks = tracks /\ prog'.key = key /\ prog.key = key
    BY <1>2, <1>6
  <2>2. QED
    BY <1>2, <1>4, <1>13, <2>1 DEF HasWriter
<1>19. QED
  BY <1>17, <1>18

\* What buffers that are right are written to stays right or gets right.
LEMMA WrittenTracked ==
    ASSUME BaseInv, LaidInv, TracksKept, prog # Nobody, prog.kind = "tracking",
           NEW tracks, NEW key, NEW f, tracks = prog.tracks, key = prog.key, f = prog.frame,
           group.open, CountRight, NEW T \in SUBSET Types,
           DOMAIN file'.data = DOMAIN file.data,
           \A d \in DOMAIN file.data : /\ DOMAIN file'.data[d] = DOMAIN file.data[d]
                                       /\ d \notin Names(f, T) => file'.data[d] = file.data[d],
           \A t \in T : file'.data[<<f, t, key>>] = group.vals[t]
    PROVE  /\ KeyStays(key, tracks)
           /\ \A d \in OfKey(key) : \A i \in DOMAIN file.data[d] :
                /\ Right(tracks, d, i) => Right(tracks, d, i)'
                /\ d[1] = f /\ T = Types => Right(tracks, d, i)'
<1>2. OfKey(key)' = OfKey(key) /\ Types = TypesOf("tracking")
  BY DEF OfKey, OfTracking, TypesOf, Types
<1>3. ASSUME NEW d \in OfKey(key), NEW i \in DOMAIN file.data[d], d \in Names(f, T)
      PROVE  Right(tracks, d, i)'
  <2>1. PICK t : t \in T /\ t = d[2] /\ d[1] = f /\ d = <<f, t, key>>
    BY <1>3, NamesAre
  <2>2. d \in DOMAIN file.data /\ DOMAIN file'.data[d] = DOMAIN file.data[d]
    BY DEF OfKey
  <2>3. file'.data[d] = group.vals[t]
    BY <2>1
  <2>4. group.vals[t][i] = Tracked(tracks, f, i).val[t]
    <3>1. i \in DOMAIN group.vals[t]
      BY <1>3, <2>2, <2>3
    <3>2. t \in Types
      BY <2>1
    <3>3. QED
      BY <3>1, <3>2 DEF TracksKept, CountRight
  <2>5. file'.data[d][i] = Tracked(tracks, d[1], i).val[d[2]]
    BY <2>1, <2>3, <2>4
  <2>6. QED
    BY <2>5 DEF Right
<1>4. ASSUME NEW d \in OfKey(key), NEW i \in DOMAIN file.data[d], d \notin Names(f, T)
      PROVE  /\ file'.data[d][i] = file.data[d][i]
             /\ Right(tracks, d, i) => Right(tracks, d, i)'
  <2>1. file'.data[d] = file.data[d]
    BY <1>4 DEF OfKey
  <2>2. QED
    BY <2>1 DEF Right
<1>5. ASSUME NEW d \in OfKey(key), d[1] = f
      PROVE  d \in Names(f, Types)
  <2>1. d = <<d[1], d[2], d[3]>>
    BY DEF OfKey, LaidInv, DataLaid
  <2>2. d[2] \in Types /\ d[3] = prog.key
    BY <1>2 DEF OfKey, OfTracking
  <2>3. QED
    BY <1>5, <2>1, <2>2, NamesAre
<1>6. \A d \in OfKey(key) : DOMAIN file'.data[d] = DOMAIN file.data[d]
  BY DEF OfKey
<1>7. KeyStays(key, tracks)
  BY <1>2, <1>3, <1>4, <1>6 DEF KeyStays
<1>8. ASSUME NEW d \in OfKey(key), NEW i \in DOMAIN file.data[d]
      PROVE  /\ Right(tracks, d, i) => Right(tracks, d, i)'
             /\ d[1] = f /\ T = Types => Right(tracks, d, i)'
  <2>1. CASE d \in Names(f, T)
    BY <1>3, <2>1
  <2>2. CASE d \notin Names(f, T)
    BY <1>4, <1>5, <2>2
  <2>3. QED
    BY <2>1, <2>2
<1>9. QED
  BY <1>7, <1>8

\* Under other keys, and for other programs, nothing is written.
LEMMA OthersKeep ==
    ASSUME BaseInv, NEW T \in SUBSET Types, prog # Nobody,
           DOMAIN file'.data = DOMAIN file.data,
           \A d \in DOMAIN file.data : d \notin Names(prog.frame, T) => file'.data[d] = file.data[d],
           NEW tk, prog.kind # "tracking" \/ tk # prog.key
    PROVE  \A tracks : KeyStays(tk, tracks)
<1>1. prog.kind \in Kinds
  BY DEF BaseInv, ProgOK
<1>2. \A d \in Names(prog.frame, T) : ~(OfTracking(d) /\ d[3] = tk)
  <2>1. CASE prog.kind # "tracking"
    BY <1>1, <2>1, NoTracking
  <2>2. CASE tk # prog.key
    BY <2>2, NamesAre
  <2>3. QED
    BY <2>1, <2>2
<1>3. OfKey(tk)' = OfKey(tk)
  BY DEF OfKey, OfTracking, TypesOf
<1>4. \A d \in OfKey(tk) : file'.data[d] = file.data[d]
  BY <1>2 DEF OfKey
<1>5. QED
  BY <1>3, <1>4 DEF KeyStays

\* writing the buffers when the group is closed,
LEMMA CloseTracked ==
    ASSUME BaseInv, LaidInv, TrackedInv, CloseGroup \/ CloseGroupFails, UNCHANGED idenVars
    PROVE  TrackedInv'
<1>1. PICK T \in SUBSET Types :
        /\ GoesOn /\ prog.pc = "close" /\ prog.frame \in 1 .. NFramesOut
        /\ \/ Threw /\ group' = group /\ prog'.frame = prog.frame
           \/ Went("group") /\ group' = Closed /\ prog'.frame = prog.frame + 1 /\ T = Types
        /\ DOMAIN file'.data = DOMAIN file.data
        /\ \A d \in DOMAIN file.data : /\ DOMAIN file'.data[d] = DOMAIN file.data[d]
                                       /\ d \notin Names(prog.frame, T) => file'.data[d] = file.data[d]
        /\ \A t \in T : file'.data[<<prog.frame, t, prog.key>>] = group.vals[t]
  BY CloseStep
<1>2. /\ UNCHANGED <<stack, avgCount>> /\ runs' = runs /\ box' = box
      /\ prog # Nobody /\ prog' # Nobody /\ prog'.kind = prog.kind /\ prog'.key = prog.key
      /\ prog'.tracks = prog.tracks /\ group.open
      /\ prog.kind = "tracking" \/ prog.kind # "tracking"
  BY <1>1 DEF GoesOn, idenVars, BaseInv, ProgOK, Writing
<1>3. CASE ~CountRight
  <2>1. file' = file /\ Threw
    <3>1. CloseGroupFails
      BY <1>3 DEF CloseGroup
    <3>2. Throw("std") /\ file' = file
      BY <1>3, <3>1 DEF CloseGroupFails
    <3>3. prog'.pc = "thrown"
      <4>1. ProgOK /\ UNCHANGED <<idenVars, box, runs>>
        BY <1>2 DEF BaseInv
      <4>2. QED
        BY <1>2, <3>2, <4>1, ThrowIs
    <3>4. QED
      BY <1>1, <3>2, <3>3 DEF Went
  <2>2. group' = group /\ prog'.frame = prog.frame /\ prog'.pc = "thrown"
    BY <1>1, <2>1 DEF Went, Threw
  <2>3. QED
    BY <1>1, <1>2, <2>1, <2>2, GoesOnTracked DEF TrackedInv, TracksKept, InOrder, Writing
<1>4. CASE CountRight
  <2>1. ASSUME NEW tk, OfKey(tk)' # {}, prog.kind # "tracking" \/ tk # prog.key
        PROVE  HasWriter(tk)'
    <3>1. \A tracks : KeyStays(tk, tracks)
      BY <1>1, <1>2, <2>1, OthersKeep
    <3>2. HasWriter(tk)
      BY <2>1, <3>1 DEF TrackedInv, KeyStays
    <3>3. QED
      BY <1>2, <3>1, <3>2, WriterStays
  <2>2. SUFFICES ASSUME prog.kind = "tracking" PROVE TracksKept' /\ HasWriter(prog.key)'
    BY <1>2, <2>1 DEF TrackedInv, TracksKept
  <2>3. /\ TracksOK(prog.tracks) /\ TracksOK(prog.tracks)'
        /\ \A f \in 1 .. NFramesOut' : BoxTracked(f)'
    BY <1>1, <2>2, BoxesStay
  <2>4. PICK tracks, key, f : tracks = prog.tracks /\ key = prog.key /\ f = prog.frame
    OBVIOUS
  <2>5. /\ KeyStays(key, tracks)
        /\ \A d \in OfKey(key) : \A i \in DOMAIN file.data[d] :
                /\ Right(tracks, d, i) => Right(tracks, d, i)'
                /\ d[1] = f /\ T = Types => Right(tracks, d, i)'
    BY <1>1, <1>2, <1>4, <2>2, <2>4, WrittenTracked DEF TrackedInv
  <2>6. WrittenBy(tracks, key)'
    <3>1. WrittenBy(tracks, key)
      BY <1>2, <2>2, <2>4 DEF TrackedInv, TracksKept
    <3>2. QED
      BY <1>2, <2>5, <3>1, KeyWritten
  <2>7. ASSUME Went("group"), NEW d \in OfKey(key)', d[1] < prog'.frame, NEW i \in DOMAIN file'.data[d]
        PROVE  Right(tracks, d, i)'
    <3>1. prog'.frame = f + 1 /\ T = Types
      BY <1>1, <2>4, <2>7 DEF Went, Threw
    <3>2. d \in OfKey(key) /\ DOMAIN file'.data[d] = DOMAIN file.data[d]
      BY <2>5, <2>7 DEF KeyStays
    <3>3. d[1] \in Nat /\ f \in Nat
      <4>1. d[1] \in 1 .. NFramesOut
        BY <3>2 DEF LaidInv, DataLaid, OfKey
      <4>2. QED
        BY <1>1, <2>4, <4>1
    <3>4. CASE d[1] = f
      BY <2>5, <2>7, <3>1, <3>2, <3>4
    <3>5. CASE d[1] < f
      <4>1. Right(tracks, d, i)
        BY <1>1, <1>2, <2>2, <2>4, <2>7, <3>2, <3>5 DEF TrackedInv, TracksKept, InOrder, Writing
      <4>2. QED
        BY <2>5, <2>7, <3>2, <4>1
    <3>6. QED
      BY <2>7, <3>1, <3>3, <3>4, <3>5
  <2>8. group'.open /\ group'.added = Len(box'[prog'.frame]) =>
          \A t \in Types' : \A i \in DOMAIN group'.vals[t] :
              group'.vals[t][i] = Tracked(tracks, prog'.frame, i).val[t]
    <3>1. SUFFICES ASSUME group' = group, prog'.frame = prog.frame
                   PROVE  group'.open /\ group'.added = Len(box'[prog'.frame]) =>
                            \A t \in Types' : \A i \in DOMAIN group'.vals[t] :
                               group'.vals[t][i] = Tracked(tracks, prog'.frame, i).val[t]
      BY <1>1 DEF Closed
    <3>2. Types' = Types
      BY <1>2 DEF Types, TypesOf
    <3>3. QED
      BY <1>2, <2>2, <2>4, <3>1, <3>2 DEF TrackedInv, TracksKept
  <2>9. prog'.tracks = tracks /\ prog'.key = key /\ prog.key = key
    BY <1>2, <2>4
  <2>10. prog'.pc \in InOrder => Went("group")
    BY <1>1 DEF Threw, InOrder, Writing
  <2>11. \A e, i : Tracked(tracks, e, i)' = Tracked(tracks, e, i)
    OBVIOUS
  <2>12. TracksKept'
    BY <2>3, <2>4, <2>6, <2>7, <2>8, <2>9, <2>10 DEF TracksKept
  <2>13. HasWriter(prog.key)'
    BY <1>2, <2>2, <2>6, <2>9 DEF HasWriter
  <2>14. QED
    BY <2>12, <2>13
<1>5. QED
  BY <1>3, <1>4

\* every step of a program that works,
LEMMA WritesTracked ==
    ASSUME BaseInv, SavedInv, LaidInv, TrackedInv, Writes \/ Fails, UNCHANGED idenVars
    PROVE  TrackedInv'
<1>1. ASSUME SameFrame, group' = group, file'.data = file.data, prog.pc \in InOrder
      PROVE  TrackedInv'
  <2>1. GoesOn /\ prog'.frame = prog.frame
    BY <1>1 DEF SameFrame
  <2>2. prog.kind = "tracking" /\ group.open /\ group.added = Len(box[prog.frame]) =>
            \A t \in Types : \A i \in DOMAIN group.vals[t] :
                group.vals[t][i] = Tracked(prog.tracks, prog.frame, i).val[t]
    BY <2>1 DEF TrackedInv, TracksKept, GoesOn
  <2>3. QED
    BY <1>1, <2>1, <2>2, GoesOnTracked
<1>2. CASE OpenFile \/ OpenFileFails
  BY <1>2, OpenTracked
<1>3. CASE WriteRoot \/ WriteRootFails
  BY <1>1, <1>3, RootStep DEF InOrder
<1>4. CASE OpenGroup \/ OpenGroupFails
  BY <1>4, GroupTracked
<1>5. CASE WriteMeta
  BY <1>1, <1>5, MetaStep DEF InOrder, Writing
<1>6. CASE StoreParticles
  BY <1>6, StoredTracked
<1>7. CASE CloseGroup \/ CloseGroupFails
  BY <1>7, CloseTracked
<1>8. CASE WriteList \/ WriteListFails
  BY <1>1, <1>8, ListStep DEF InOrder
<1>9. QED
  BY <1>2, <1>3, <1>4, <1>5, <1>6, <1>7, <1>8 DEF Writes, Fails

\* every end of one,
LEMMA EndsTracked ==
    ASSUME BaseInv, LaidInv, TrackedInv, Ends, UNCHANGED idenVars
    PROVE  TrackedInv'
<1>1. /\ prog # Nobody /\ prog' = Nobody /\ NFramesOut' = NFramesOut /\ FileOK /\ GroupOK
      /\ UNCHANGED <<stack, avgCount>>
  BY EndsAre, WantedFixed DEF idenVars, BaseInv
<1>2. PICK code : runs' = runs \cup {Record(code)}
  BY EndsAre
<1>3. /\ runs \subseteq runs'
      /\ \E r \in runs' : r.kind = prog.kind /\ r.key = prog.key /\ r.tracks = prog.tracks
  <2>1. PICK r : r = Record(code)
    OBVIOUS
  <2>2. r.kind = prog.kind /\ r.key = prog.key /\ r.tracks = prog.tracks
    BY <2>1 DEF Record
  <2>3. QED
    BY <1>2, <2>1, <2>2
<1>4. ASSUME NEW tk, OfKey(tk) # {}, \A tracks : KeyStays(tk, tracks)
      PROVE  HasWriter(tk)'
  <2>1. HasWriter(tk)
    BY <1>4 DEF TrackedInv
  <2>2. QED
    BY <1>1, <1>3, <1>4, <2>1, WriterStays
<1>5. ASSUME NEW tk, OfKey(tk)' # {}
      PROVE  HasWriter(tk)'
  <2>1. CASE file' = file
    <3>1. \A tracks : KeyStays(tk, tracks)
      BY <2>1, SameKeys
    <3>2. OfKey(tk) # {}
      BY <1>5, <3>1 DEF KeyStays
    <3>3. QED
      BY <1>4, <3>1, <3>2
  <2>2. ASSUME group.open, CountRight, NEW T \in SUBSET Types, file' = Written(T)
        PROVE  HasWriter(tk)'
    <3>1. /\ DOMAIN file'.data = DOMAIN file.data
          /\ \A d \in DOMAIN file.data :
                /\ DOMAIN file'.data[d] = DOMAIN file.data[d]
                /\ d \notin Names(prog.frame, T) => file'.data[d] = file.data[d]
          /\ \A t \in T : file'.data[<<prog.frame, t, prog.key>>] = group.vals[t]
      BY <1>1, <2>2, WrittenIs
    <3>2. CASE prog.kind # "tracking" \/ tk # prog.key
      <4>1. \A tracks : KeyStays(tk, tracks)
        BY <1>1, <3>1, <3>2, OthersKeep
      <4>2. OfKey(tk) # {}
        BY <1>5, <4>1 DEF KeyStays
      <4>3. QED
        BY <1>4, <4>1, <4>2
    <3>3. CASE prog.kind = "tracking" /\ tk = prog.key
      <4>1. PICK tracks, f : tracks = prog.tracks /\ f = prog.frame
        OBVIOUS
      <4>2. KeyStays(tk, tracks)
        BY <1>1, <2>2, <3>1, <3>3, <4>1, WrittenTracked DEF TrackedInv
      <4>3. WrittenBy(tracks, tk)
        BY <1>1, <2>2, <3>3, <4>1 DEF TrackedInv, TracksKept
      <4>4. WrittenBy(tracks, tk)'
        BY <1>1, <4>2, <4>3, KeyWritten
      <4>5. PICK r \in runs' : r.kind = "tracking" /\ r.key = tk /\ r.tracks = tracks
        BY <1>3, <3>3, <4>1
      <4>6. QED
        BY <4>4, <4>5 DEF HasWriter
    <3>4. prog.kind = "tracking" \/ prog.kind # "tracking"
      OBVIOUS
    <3>5. QED
      BY <3>2, <3>3, <3>4
  <2>3. CASE file' = [NoFile EXCEPT !.state = "broken"]
    <3>1. file'.data = <<>>
      BY <2>3 DEF NoFile
    <3>2. DOMAIN file'.data = {}
      BY <3>1
    <3>3. QED
      BY <1>5, <3>2 DEF OfKey
  <2>4. QED
    BY <2>1, <2>2, <2>3, EndsAre
<1>6. QED
  BY <1>1, <1>5 DEF TrackedInv, TracksKept

\* and every start.
LEMMA StartsTracked ==
    ASSUME BaseInv, TrackedInv, Starts, UNCHANGED idenVars
    PROVE  TrackedInv'
<1>1. /\ prog' # Nobody /\ UNCHANGED <<file, group, runs>> /\ prog'.pc = "open" /\ prog = Nobody
      /\ UNCHANGED <<stack, avgCount>> /\ NFramesOut' = NFramesOut
  BY StartsBegin, WantedFixed DEF Begins, idenVars
<1>2. ASSUME NEW tk, OfKey(tk)' # {}
      PROVE  HasWriter(tk)'
  <2>1. \A tracks : KeyStays(tk, tracks)
    BY <1>1, SameKeys
  <2>2. OfKey(tk) # {}
    BY <1>2, <2>1 DEF KeyStays
  <2>3. HasWriter(tk)
    BY <2>2 DEF TrackedInv
  <2>4. QED
    BY <1>1, <2>1, <2>3, WriterStays
<1>3. ASSUME prog'.kind = "tracking"
      PROVE  TracksOK(prog.tracks)' /\ \A f \in 1 .. NFramesOut' : BoxTracked(f)'
  <2>1. PICK k \in Key, rk \in Key : StartTracking(k, rk)
    <3>1. PICK k \in Key, rk \in Key : StartProcess(k) \/ StartTracking(k, rk) \/ StartPhi6(k, rk)
      BY DEF Starts
    <3>2. ~StartProcess(k)
      BY <1>3, StartProcessBegins
    <3>3. ~StartPhi6(k, rk)
      <4>1. SUFFICES ASSUME StartPhi6(k, rk) PROVE FALSE
        OBVIOUS
      <4>2. PICK kept, F : Reads("phi6", k, rk, kept, F)
        BY <4>1, Phi6Reads
      <4>3. QED
        BY <1>3, <4>2 DEF Reads
    <3>4. QED
      BY <3>1, <3>2, <3>3
  <2>2. PICK kept : kept \in Kept /\ Passing(IdenPairs(rk), kept) /\ \E tracks \in TrackLists(kept) :
                /\ Reads("tracking", k, rk, kept,
                         [f \in 1 .. file.planes |-> [i \in kept[f] |-> Tracked(tracks, f, i)]])
                /\ prog'.tracks = tracks
    BY <2>1, TrackingReads
  <2>3. PICK tracks, F :
                /\ tracks \in TrackLists(kept) /\ Reads("tracking", k, rk, kept, F)
                /\ F = [f \in 1 .. file.planes |-> [i \in kept[f] |-> Tracked(tracks, f, i)]]
                /\ prog'.tracks = tracks
    BY <2>2
  <2>4. /\ NFramesOut \in Nat /\ MaxFound \in Nat /\ file.planes = NFramesOut
    <3>1. runs # {} /\ file.planes > 0
      BY <2>3 DEF Reads, Recorded
    <3>2. IdenTypeOK
      BY DEF BaseInv, IdenInv
    <3>3. NFramesOut \in Nat /\ MaxFound \in Nat
      BY <3>2, NFramesType, MaxFoundType
    <3>4. QED
      BY <3>1, <3>3 DEF BaseInv, FileOK
  <2>5. /\ TracksOK(tracks)
        /\ \A n \in 1 .. Len(tracks) : \A f \in DOMAIN tracks[n] : tracks[n][f] \in kept[f]
    BY <2>2, <2>3, <2>4, TracksStart
  <2>6. TracksOK(tracks)'
    BY <1>1, <2>5, TracksFixed
  <2>7. ASSUME NEW f \in 1 .. NFramesOut
        PROVE  /\ \A m \in 1 .. Len(box'[f]) : box'[f][m] = Tracked(tracks, f, box'[f][m].ind)
               /\ \A n \in 1 .. Len(tracks) :
                    f \in DOMAIN tracks[n] => \E m \in 1 .. Len(box'[f]) : box'[f][m].ind = tracks[n][f]
    <3>1. PICK K, G, b, S : K = kept[f] /\ G = F[f] /\ b = box'[f] /\ S = {G[i] : i \in K}
      OBVIOUS
    <3>2. f \in 1 .. file.planes
      BY <2>4
    <3>3. b = SetToSeq(S) /\ \A i \in K : G[i].ind = i
      <4>1. box' = [h \in 1 .. file.planes |-> SetToSeq({F[h][i] : i \in kept[h]})]
        BY <2>3 DEF Reads
      <4>2. \A i \in K : G[i].ind = i
        BY <2>3, <3>1, <3>2 DEF Reads
      <4>3. QED
        BY <3>1, <3>2, <4>1, <4>2
    <3>4. \A i \in K : G[i] = Tracked(tracks, f, i)
      BY <2>3, <3>1, <3>2
    <3>5. Indexes(G, K, S)
      BY <3>1, <3>3 DEF Indexes
    <3>6. IsFiniteSet(K)
      <4>1. K \in SUBSET (0 .. MaxFound)
        BY <2>2, <3>1, <3>2 DEF Kept
      <4>2. IsFiniteSet(0 .. MaxFound)
        BY <2>4, FS_Interval
      <4>3. QED
        BY <4>1, <4>2, FS_Subset
    <3>7. /\ \A l \in 1 .. Len(b) : b[l].ind \in K /\ b[l] = G[b[l].ind]
          /\ \A i \in K : \E l \in 1 .. Len(b) : b[l] = G[i]
      BY <3>3, <3>5, <3>6, IndexedIs
    <3>8. \A l \in 1 .. Len(b) : b[l] = Tracked(tracks, f, b[l].ind)
      BY <3>4, <3>7
    <3>9. ASSUME NEW n \in 1 .. Len(tracks), f \in DOMAIN tracks[n]
          PROVE  \E l \in 1 .. Len(b) : b[l].ind = tracks[n][f]
      <4>1. tracks[n][f] \in K
        BY <2>5, <3>1, <3>9
      <4>2. QED
        BY <3>3, <3>7, <4>1
    <3>10. QED
      BY <3>1, <3>8, <3>9
  <2>8. \A f \in 1 .. NFramesOut' : BoxTracked(f)'
    BY <1>1, <2>3, <2>7 DEF BoxTracked
  <2>9. QED
    BY <2>3, <2>6, <2>8
<1>4. ~group.open
  BY <1>1 DEF BaseInv, GroupOK
<1>5. TracksKept'
  BY <1>1, <1>3, <1>4 DEF TracksKept, InOrder, Writing
<1>6. QED
  BY <1>2, <1>5 DEF TrackedInv

\* Without a file and a program TrackedInv holds.
LEMMA TrackedInvInit == HdfInit => TrackedInv
<1> SUFFICES ASSUME HdfInit PROVE TrackedInv
  OBVIOUS
<1>1. prog = Nobody /\ file.data = <<>>
  BY DEF HdfInit, NoFile
<1>2. DOMAIN file.data = {}
  BY <1>1
<1>3. QED
  BY <1>1, <1>2 DEF TrackedInv, TracksKept, OfKey

\* Every step keeps TrackedInv.
LEMMA TrackedInvStep ==
    ASSUME BaseInv, SavedInv, LaidInv, TrackedInv, [HdfNext]_<<idenVars, hdfVars>>
    PROVE  TrackedInv'
<1>1. CASE (Writes \/ Fails) /\ UNCHANGED idenVars
  BY <1>1, WritesTracked
<1>2. CASE Ends /\ UNCHANGED idenVars
  BY <1>2, EndsTracked
<1>3. CASE Starts /\ UNCHANGED idenVars
  BY <1>3, StartsTracked
<1>4. ASSUME UNCHANGED <<file, prog, box, group, runs>>, UNCHANGED <<stack, avgCount>>
      PROVE  TrackedInv'
  <2>1. ASSUME NEW tk, OfKey(tk)' # {}
        PROVE  HasWriter(tk)'
    <3>1. \A tracks : KeyStays(tk, tracks)
      BY <1>4, SameKeys
    <3>2. HasWriter(tk)
      BY <2>1, <3>1 DEF TrackedInv, KeyStays
    <3>3. QED
      BY <1>4, <3>1, <3>2, WriterStays
  <2>2. ASSUME prog # Nobody, prog.kind = "tracking"
        PROVE  TracksKept'
    <3>1. NFramesOut' = NFramesOut
      BY <1>4, WantedFixed
    <3>2. TracksOK(prog.tracks)'
      <4>1. PICK tracks : tracks = prog.tracks
        OBVIOUS
      <4>2. TracksOK(tracks)'
        BY <1>4, <2>2, <4>1, TracksFixed DEF TrackedInv, TracksKept
      <4>3. QED
        BY <1>4, <4>1, <4>2
    <3>3. \A f : BoxTracked(f)' = BoxTracked(f)
      BY <1>4 DEF BoxTracked
    <3>4. \A tk, tracks : WrittenBy(tracks, tk) => WrittenBy(tracks, tk)'
      <4>1. \A tk, tracks : KeyStays(tk, tracks)
        BY <1>4 DEF KeyStays, OfKey, OfTracking, TypesOf
      <4>2. QED
        BY <1>4, <4>1, KeyWritten
    <3>5. \A tracks, d, i : Right(tracks, d, i)' = Right(tracks, d, i)
      BY <1>4 DEF Right
    <3>6. \A tk : OfKey(tk)' = OfKey(tk)
      BY <1>4 DEF OfKey, OfTracking, TypesOf
    <3>7. Types' = Types
      BY <1>4 DEF Types, TypesOf
    <3>8. PICK tracks, key : tracks = prog.tracks /\ key = prog.key
      OBVIOUS
    <3>9. (prog.pc \in InOrder \/ group.open) => WrittenBy(tracks, key)'
      BY <2>2, <3>4, <3>8 DEF TrackedInv, TracksKept
    <3>10. prog'.tracks = tracks /\ prog'.key = key
      BY <1>4, <3>8
    <3>11. QED
      BY <1>4, <2>2, <3>1, <3>2, <3>3, <3>5, <3>6, <3>7, <3>8, <3>9, <3>10 DEF TrackedInv, TracksKept
  <2>3. QED
    BY <1>4, <2>1, <2>2 DEF TrackedInv, TracksKept
<1>5. CASE IdenStep /\ UNCHANGED hdfVars
  <2>1. UNCHANGED <<file, prog, box, group, runs>>
    BY <1>5, IdenBase
  <2>2. UNCHANGED <<stack, avgCount>>
    BY <1>5 DEF IdenStep, IdenPlane, AvgPlane, AvgFrame
  <2>3. QED
    BY <1>4, <2>1, <2>2
<1>6. CASE UNCHANGED <<idenVars, hdfVars>>
  <2>1. UNCHANGED <<file, prog, box, group, runs>> /\ UNCHANGED <<stack, avgCount>>
    BY <1>6 DEF hdfVars, idenVars
  <2>2. QED
    BY <1>4, <2>1
<1>7. QED
  BY <1>1, <1>2, <1>3, <1>5, <1>6 DEF HdfNext

-----------------------------------------------------------------------------
(* A sweep reads what was written                                             *)

\* T, the l-th of tracks, goes from frame k to frame e,
IsTrack(tracks, l, T, k, e) ==
    /\ l \in 1 .. Len(tracks) /\ T = tracks[l]
    /\ k \in 1 .. NFramesOut /\ e \in 1 .. NFramesOut /\ k < e
    /\ T \in [k .. e -> 0 .. MaxFound]

\* and particle i of frame f is on it.
OnTrack(tracks, l, T, f, i) ==
    /\ l \in 1 .. Len(tracks) /\ T = tracks[l] /\ f \in DOMAIN T /\ i = T[f]
    /\ f \in 1 .. file.planes /\ i \in Nat

\* It is in the arrays, with the next and the previous particle and the number of T,
\* unless the last frame was never written.
ReadRight(rk, tk, l, T, f, i) ==
    /\ i < NumEntries(TrackPairs(rk, tk), f)
    /\ \A t \in TypesOf("tracking") : Inside(TrackPairs(rk, tk), f, <<t, tk>>, i)
    /\ \/ /\ NextRead(tk, f, i) = AtFrame(T, f + 1)
          /\ Value(f, <<PREV_INDX, tk>>, i) = AtFrame(T, f - 1)
          /\ Value(f, <<TRACKID, tk>>, i) = l - 1
       \/ f = file.planes
    /\ NextRead(tk, f, i) \in {AtFrame(T, f + 1), FillValue}

\* So are all particles of tracks that were written.
LEMMA ReadOfTrack ==
    ASSUME BaseInv, DataLaid, NEW rk, NEW tk, CanRead(TrackPairs(rk, tk)), file.planes = NFramesOut,
           NFramesOut \in Nat, NEW tracks, WrittenBy(tracks, tk),
           NEW l, NEW T, NEW f, NEW i, OnTrack(tracks, l, T, f, i)
    PROVE  ReadRight(rk, tk, l, T, f, i)
<1>1. PICK n \in Nat \ {0} :
              /\ \A t \in TypesOf("tracking") :
                    /\ <<f, t, tk>> \in DOMAIN file.data /\ DOMAIN file.data[<<f, t, tk>>] = 0 .. n - 1
                    /\ \A m \in Int : Inside(TrackPairs(rk, tk), f, <<t, tk>>, m) <=> m < n
              /\ NumEntries(TrackPairs(rk, tk), f) = n
  BY TrackWidth DEF OnTrack
<1>2. TracksOK(tracks) /\ f \in 1 .. file.planes /\ i \in Nat
  BY DEF WrittenBy, OnTrack
<1>3. ASSUME NEW t \in TypesOf("tracking")
      PROVE  /\ i \in 0 .. n - 1
             /\ \/ Value(f, <<t, tk>>, i) = Tracked(tracks, f, i).val[t]
                \/ f = file.planes /\ Value(f, <<t, tk>>, i) = FillValue
  <2>1. PICK d : d = <<f, t, tk>>
    OBVIOUS
  <2>2. d \in OfKey(tk) /\ DOMAIN file.data[d] = 0 .. n - 1 /\ d[1] = f /\ d[2] = t
    BY <1>1, <2>1 DEF OfKey, OfTracking
  <2>3. i \in DOMAIN file.data[d]
    BY <2>2 DEF WrittenBy, OnTrack
  <2>4. Right(tracks, d, i) \/ (file.data[d][i] = FillValue /\ \A e \in OfKey(tk) : e[1] <= f)
    BY <2>2, <2>3 DEF WrittenBy
  <2>5. Value(f, <<t, tk>>, i) = file.data[d][i]
    BY <2>1 DEF Value
  <2>6. ASSUME \A e \in OfKey(tk) : e[1] <= f
        PROVE  f = file.planes
    <3>1. PICK N, e : N = file.planes /\ e = <<N, t, tk>>
      OBVIOUS
    <3>2. N \in 1 .. file.planes /\ f <= N
      BY <1>2, <3>1
    <3>3. e \in DOMAIN file.data
      BY <3>1, <3>2, TrackWidth
    <3>4. e \in OfKey(tk) /\ e[1] = N
      BY <3>1, <3>3 DEF OfKey, OfTracking
    <3>5. N <= f
      BY <2>6, <3>4
    <3>6. QED
      BY <1>2, <3>1, <3>2, <3>5
  <2>7. QED
    BY <2>2, <2>3, <2>4, <2>5, <2>6 DEF Right
<1>4. /\ Tracked(tracks, f, i).val[NEXT_INDX] = AtFrame(T, f + 1)
      /\ Tracked(tracks, f, i).val[PREV_INDX] = AtFrame(T, f - 1)
      /\ Tracked(tracks, f, i).val[TRACKID] = l - 1
  BY <1>2, TrackedIs DEF OnTrack
<1>5. NEXT_INDX \in TypesOf("tracking") /\ PREV_INDX \in TypesOf("tracking") /\ TRACKID \in TypesOf("tracking")
  BY TypesApart
<1>6. /\ i < n
      /\ \/ NextRead(tk, f, i) = AtFrame(T, f + 1)
         \/ f = file.planes /\ NextRead(tk, f, i) = FillValue
      /\ \/ Value(f, <<PREV_INDX, tk>>, i) = AtFrame(T, f - 1)
         \/ f = file.planes /\ Value(f, <<PREV_INDX, tk>>, i) = FillValue
      /\ \/ Value(f, <<TRACKID, tk>>, i) = l - 1
         \/ f = file.planes /\ Value(f, <<TRACKID, tk>>, i) = FillValue
  BY <1>1, <1>2, <1>3, <1>4, <1>5 DEF NextRead
<1>7. \A t \in TypesOf("tracking") : Inside(TrackPairs(rk, tk), f, <<t, tk>>, i)
  <2>1. i \in Int /\ i < n
    BY <1>2, <1>6
  <2>2. QED
    BY <1>1, <2>1, Zenon
<1>8. QED
  BY <1>1, <1>6, <1>7 DEF ReadRight

\* Where a track begins a sweep begins, and nowhere else.
LEMMA StartsAtTrack ==
    ASSUME BaseInv, DataLaid, NEW rk, NEW tk, CanRead(TrackPairs(rk, tk)), file.planes = NFramesOut,
           NFramesOut \in Nat, NEW tracks, WrittenBy(tracks, tk),
           NEW k \in 1 .. file.planes, NEW j \in Nat, j < NumEntries(TrackPairs(rk, tk), k), StartsTrack(tk, k, j)
    PROVE  \E l, T, e : IsTrack(tracks, l, T, k, e) /\ T[k] = j
<1>1. PICK n \in Nat \ {0} :
              /\ \A t \in TypesOf("tracking") :
                    /\ <<k, t, tk>> \in DOMAIN file.data /\ DOMAIN file.data[<<k, t, tk>>] = 0 .. n - 1
                    /\ \A m \in Int : Inside(TrackPairs(rk, tk), k, <<t, tk>>, m) <=> m < n
              /\ NumEntries(TrackPairs(rk, tk), k) = n
  BY TrackWidth
<1>2. PICK d : d = <<k, NEXT_INDX, tk>>
  OBVIOUS
<1>3. NEXT_INDX \in TypesOf("tracking") /\ PREV_INDX \in TypesOf("tracking") /\ TracksOK(tracks)
  BY TypesApart DEF WrittenBy
<1>4. d \in OfKey(tk) /\ j \in DOMAIN file.data[d] /\ d[1] = k /\ d[2] = NEXT_INDX
  <2>1. d \in DOMAIN file.data /\ DOMAIN file.data[d] = 0 .. n - 1
    BY <1>1, <1>2, <1>3
  <2>2. d \in OfKey(tk) /\ d[1] = k /\ d[2] = NEXT_INDX
    BY <1>2, <1>3, <2>1 DEF OfKey, OfTracking
  <2>3. QED
    BY <1>1, <2>1, <2>2
<1>5. file.data[d][j] = NextRead(tk, k, j) /\ NextRead(tk, k, j) >= 0
  BY <1>2 DEF NextRead, Value, StartsTrack
<1>6. NextRead(tk, k, j) = Tracked(tracks, k, j).val[NEXT_INDX]
  <2>1. file.data[d][j] # FillValue
    BY <1>5 DEF FillValue
  <2>2. Right(tracks, d, j)
    BY <1>4, <2>1 DEF WrittenBy
  <2>3. QED
    BY <1>4, <1>5, <2>2 DEF Right
<1>7. PICK l \in 1 .. Len(tracks) : k \in DOMAIN tracks[l] /\ tracks[l][k] = j
  <2>1. SUFFICES ASSUME \A l \in 1 .. Len(tracks) : ~(k \in DOMAIN tracks[l] /\ tracks[l][k] = j) PROVE FALSE
    OBVIOUS
  <2>2. Tracked(tracks, k, j).val[NEXT_INDX] = -1
    BY <1>3, <2>1, TrackedIs
  <2>3. QED
    BY <1>5, <1>6, <2>2
<1>8. PICK T, a, e : /\ T = tracks[l] /\ a \in 1 .. NFramesOut /\ e \in 1 .. NFramesOut
                     /\ a < e /\ T \in [a .. e -> 0 .. MaxFound]
  BY <1>3 DEF TracksOK, TrackOK
<1>9. k \in DOMAIN T /\ T[k] = j /\ k \in a .. e
  BY <1>7, <1>8
<1>10. NextRead(tk, k, j) = AtFrame(T, k + 1)
  BY <1>3, <1>6, <1>7, <1>8, TrackedIs
<1>11. k + 1 \in a .. e
  <2>1. SUFFICES ASSUME k + 1 \notin DOMAIN T PROVE FALSE
    BY <1>8
  <2>2. NextRead(tk, k, j) = -1
    BY <1>10, <2>1 DEF AtFrame
  <2>3. QED
    BY <1>5, <2>2
<1>12. k < file.planes
  BY <1>8, <1>11
<1>13. Value(k, <<PREV_INDX, tk>>, j) = AtFrame(T, k - 1)
  <2>1. Value(k, <<PREV_INDX, tk>>, j) = AtFrame(T, k - 1) \/ k = file.planes
    <3>1. OnTrack(tracks, l, T, k, j)
      BY <1>8, <1>9 DEF OnTrack
    <3>2. ReadRight(rk, tk, l, T, k, j)
      BY <3>1, ReadOfTrack
    <3>3. QED
      BY <3>2 DEF ReadRight
  <2>2. QED
    BY <1>12, <2>1
<1>14. k = a
  <2>1. SUFFICES ASSUME k - 1 \in a .. e PROVE FALSE
    BY <1>8, <1>9
  <2>2. AtFrame(T, k - 1) = T[k - 1] /\ T[k - 1] \in 0 .. MaxFound
    BY <1>8, <2>1 DEF AtFrame
  <2>3. Value(k, <<PREV_INDX, tk>>, j) < 0
    BY DEF StartsTrack
  <2>4. QED
    BY <1>13, <2>2, <2>3
<1>15. IsTrack(tracks, l, T, k, e)
  BY <1>8, <1>14 DEF IsTrack
<1>16. QED
  BY <1>9, <1>15

\* A step of a walk along track T, that began in frame k, goes on along it or breaks.
LEMMA StepAlong ==
    ASSUME BaseInv, DataLaid, NEW rk, NEW tk, CanRead(TrackPairs(rk, tk)), file.planes = NFramesOut,
           NFramesOut \in Nat, NEW tracks, WrittenBy(tracks, tk), NEW l, NEW T, NEW k, NEW e, NEW j,
           OnTrack(tracks, l, T, k, j), k \in Nat, e \in 1 .. NFramesOut, k < e, DOMAIN T = k .. e,
           NEW f, NEW i, f \in k .. e, OnTrack(tracks, l, T, f, i),
           f # e => AtFrame(T, f + 1) \in Nat
    PROVE  StepFrom(rk, tk, k, j, f, i) \in {AtFrame(T, f + 1), Broken}
<1>1. PICK next, step : next = NextRead(tk, f, i) /\ step = StepFrom(rk, tk, k, j, f, i)
  OBVIOUS
<1>2. ReadRight(rk, tk, l, T, f, i) /\ ReadRight(rk, tk, l, T, k, j)
  BY ReadOfTrack
<1>3. next \in {AtFrame(T, f + 1), FillValue} /\ (next = AtFrame(T, f + 1) \/ f = file.planes)
  BY <1>1, <1>2 DEF ReadRight
<1>4. Value(k, <<TRACKID, tk>>, j) = l - 1
  <2>1. Value(k, <<TRACKID, tk>>, j) = l - 1 \/ k = file.planes
    BY <1>2 DEF ReadRight
  <2>2. QED
    BY <2>1
<1>5. CASE f = e
  <2>1. AtFrame(T, f + 1) = -1
    BY <1>5 DEF AtFrame
  <2>2. next \in Int /\ next < 0 /\ ~(next >= 0)
    BY <1>3, <2>1 DEF FillValue
  <2>3. step = End
    BY <1>1, <2>2 DEF StepFrom
  <2>4. QED
    BY <1>1, <2>1, <2>3 DEF End
<1>6. CASE f # e
  <2>1. f + 1 \in k .. e /\ f # file.planes /\ f + 1 \in 1 .. file.planes /\ f + 1 - 1 = f
    BY <1>6
  <2>2. next = AtFrame(T, f + 1) /\ next \in Nat
    BY <1>3, <1>6, <2>1
  <2>3. OnTrack(tracks, l, T, f + 1, next)
    BY <2>1, <2>2 DEF AtFrame, OnTrack
  <2>4. \A t \in TypesOf("tracking") : Inside(TrackPairs(rk, tk), f + 1, <<t, tk>>, next)
    <3>1. ReadRight(rk, tk, l, T, f + 1, next)
      BY <2>3, ReadOfTrack
    <3>2. QED
      BY <3>1 DEF ReadRight
  <2>5. step = IF \E t \in TypesOf("tracking") : ~Inside(TrackPairs(rk, tk), f + 1, <<t, tk>>, next) THEN Outside
               ELSE IF Value(f + 1, <<PREV_INDX, tk>>, next) # i THEN Broken
               ELSE IF Value(f + 1, <<TRACKID, tk>>, next) # Value(k, <<TRACKID, tk>>, j) THEN Broken
               ELSE next
    <3>1. ~(next < 0) /\ ~(next >= 0 /\ f = file.planes)
      BY <2>1, <2>2
    <3>2. QED
      BY <1>1, <3>1 DEF StepFrom
  <2>6. step \in {next, Broken}
    BY <2>4, <2>5
  <2>7. QED
    BY <1>1, <2>2, <2>6
<1>7. QED
  BY <1>5, <1>6

\* A walk that begins where track T does, and ends, reads T.
LEMMA WalkReads ==
    ASSUME BaseInv, DataLaid, NEW rk, NEW tk, CanRead(TrackPairs(rk, tk)), file.planes = NFramesOut,
           NFramesOut \in Nat, MaxFound \in Nat, NEW tracks, WrittenBy(tracks, tk), NEW l, NEW T, NEW k, NEW e,
           IsTrack(tracks, l, T, k, e), NEW w, w = <<k, Walk(rk, tk, k, T[k])>>, LastOf(w) = End
    PROVE  TrackOf(w) = T
<1>0. /\ l \in 1 .. Len(tracks) /\ T = tracks[l]
      /\ k \in 1 .. NFramesOut /\ e \in 1 .. NFramesOut /\ k < e
      /\ T \in [k .. e -> 0 .. MaxFound]
  BY DEF IsTrack
<1> USE <1>0
<1>1. PICK at, hi, j : /\ at = Walk(rk, tk, k, j) /\ hi = file.planes + 1 - k /\ j = T[k]
  OBVIOUS
<1>2. hi \in Nat /\ hi > 0 /\ at[hi] = End /\ w = <<k, at>> /\ w[1] = k /\ w[2] = at
  BY <1>1 DEF LastOf
<1>3. \A f \in k .. e : OnTrack(tracks, l, T, f, T[f])
  BY DEF OnTrack
<1>4. j \in Walked(tk, k)
  <2>1. PICK n \in Nat \ {0} :
              /\ \A t \in TypesOf("tracking") :
                    /\ <<k, t, tk>> \in DOMAIN file.data /\ DOMAIN file.data[<<k, t, tk>>] = 0 .. n - 1
                    /\ \A i \in Int : Inside(TrackPairs(rk, tk), k, <<t, tk>>, i) <=> i < n
              /\ NumEntries(TrackPairs(rk, tk), k) = n
    BY TrackWidth
  <2>2. ReadRight(rk, tk, l, T, k, j)
    <3>1. OnTrack(tracks, l, T, k, j)
      BY <1>1, <1>3
    <3>2. QED
      BY <3>1, ReadOfTrack
  <2>3. j < n /\ j \in Nat
    BY <1>1, <2>1, <2>2 DEF ReadRight
  <2>4. DOMAIN file.data[<<k, NEXT_INDX, tk>>] = 0 .. n - 1
    BY <2>1, TypesApart
  <2>5. QED
    BY <2>3, <2>4 DEF Walked, Outside
<1>5. /\ DOMAIN at = 0 .. hi
      /\ \A n \in 0 .. hi : at[n] = IF n = 0 THEN j ELSE IF at[n - 1] < 0 THEN at[n - 1]
                                    ELSE StepFrom(rk, tk, k, j, k + n - 1, at[n - 1])
  <2>1. file.planes \in Nat /\ k \in 1 .. file.planes
    OBVIOUS
  <2>2. LET c == Walk(rk, tk, k, j)  h == file.planes + 1 - k IN
           /\ DOMAIN c = 0 .. h
           /\ \A n \in 0 .. h : c[n] = IF n = 0 THEN j ELSE IF c[n - 1] < 0 THEN c[n - 1]
                                       ELSE StepFrom(rk, tk, k, j, k + n - 1, c[n - 1])
    BY <1>4, <2>1, WalkStays
  <2>3. QED
    BY <1>1, <2>2
<1> DEFINE W == [n \in 0 .. hi |-> {AtFrame(T, k + n), Broken}]
           B == [n \in 0 .. hi |-> {Broken}]
<1>6. Broken = -2 /\ End = -1
  BY DEF Broken, End
<1>7. ASSUME NEW n \in 1 .. hi
      PROVE  n \in 0 .. hi /\ n - 1 \in 0 .. hi /\ n # 0 /\ k + (n - 1) = k + n - 1 /\ k + n - 1 + 1 = k + n
  BY <1>2
<1>8. ASSUME NEW n \in 1 .. hi, at[n - 1] = Broken
      PROVE  at[n] = Broken
  <2>1. at[n] = IF at[n - 1] < 0 THEN at[n - 1] ELSE StepFrom(rk, tk, k, j, k + n - 1, at[n - 1])
    BY <1>5, <1>7
  <2>2. QED
    BY <1>6, <1>8, <2>1
<1>9. ASSUME NEW n \in 1 .. hi, at[n - 1] = AtFrame(T, k + n - 1)
      PROVE  at[n] \in {AtFrame(T, k + n), Broken}
  <2>1. PICK f : f = k + n - 1
    OBVIOUS
  <2>2. at[n] = IF at[n - 1] < 0 THEN at[n - 1] ELSE StepFrom(rk, tk, k, j, f, at[n - 1])
    BY <1>5, <1>7, <2>1
  <2>3. CASE f \in k .. e
    <3>1. at[n - 1] = T[f] /\ T[f] \in Nat
      BY <1>9, <2>1, <2>3 DEF AtFrame
    <3>2. at[n] = StepFrom(rk, tk, k, j, f, T[f])
      <4>1. PICK i : i = at[n - 1]
        OBVIOUS
      <4>2. i \in Nat
        BY <3>1, <4>1, Zenon
      <4>3. ~(i < 0)
        BY <4>2
      <4>4. at[n] = StepFrom(rk, tk, k, j, f, i)
        BY <2>2, <4>1, <4>3, Zenon
      <4>5. QED
        BY <3>1, <4>1, <4>4, Zenon
    <3>3. f # e => AtFrame(T, f + 1) \in Nat
      BY <2>3 DEF AtFrame
    <3>4. OnTrack(tracks, l, T, k, j) /\ OnTrack(tracks, l, T, f, T[f]) /\ DOMAIN T = k .. e /\ k \in Nat
      BY <1>1, <1>3, <2>3
    <3>5. StepFrom(rk, tk, k, j, f, T[f]) \in {AtFrame(T, f + 1), Broken}
      BY <2>3, <3>3, <3>4, StepAlong
    <3>6. QED
      BY <1>7, <2>1, <3>2, <3>5
  <2>4. CASE f \notin k .. e
    <3>1. at[n - 1] = -1
      BY <1>9, <2>1, <2>4 DEF AtFrame
    <3>2. f + 1 \notin k .. e
      BY <1>2, <2>1, <2>4
    <3>3. AtFrame(T, k + n) = -1
      BY <1>7, <2>1, <3>2 DEF AtFrame
    <3>4. QED
      BY <2>2, <3>1, <3>3
  <2>5. QED
    BY <2>3, <2>4
<1>10. \A n \in 0 .. hi : at[n] \in W[n]
  <2> DEFINE lo == 0
  <2>1. \A n \in lo + 1 .. hi : at[n - 1] \in W[n - 1] => at[n] \in W[n]
    <3>1. ASSUME NEW n \in lo + 1 .. hi, at[n - 1] \in W[n - 1]
          PROVE  at[n] \in W[n]
      <4>1. n \in 1 .. hi
        OBVIOUS
      <4>2. at[n - 1] \in {AtFrame(T, k + n - 1), Broken}
        BY <1>7, <3>1, <4>1
      <4>3. at[n] \in {AtFrame(T, k + n), Broken}
        BY <1>8, <1>9, <4>1, <4>2
      <4>4. QED
        BY <1>7, <4>1, <4>3
    <3>2. QED
      BY <3>1
  <2>2. lo \in Int /\ hi \in Int /\ at[lo] \in W[lo]
    <3>1. 0 \in 0 .. hi /\ k + 0 = k
      BY <1>2
    <3>2. at[0] = j /\ AtFrame(T, k) = j
      BY <1>1, <1>5, <3>1 DEF AtFrame
    <3>3. QED
      BY <1>2, <3>1, <3>2
  <2> HIDE DEF lo, W
  <2>3. \A n \in lo .. hi : at[n] \in W[n]
    BY <2>1, <2>2, ChainStays
  <2>4. QED
    BY <2>3 DEF lo
<1>11. ASSUME NEW m \in 0 .. hi
       PROVE  at[m] = AtFrame(T, k + m)
  <2>1. SUFFICES ASSUME at[m] = Broken PROVE FALSE
    BY <1>10
  <2>2. m \in Int /\ hi \in Int /\ at[m] \in B[m]
    BY <1>2, <2>1
  <2>3. \A n \in m + 1 .. hi : at[n - 1] \in B[n - 1] => at[n] \in B[n]
    <3>1. SUFFICES ASSUME NEW n \in m + 1 .. hi, at[n - 1] \in B[n - 1] PROVE at[n] \in B[n]
      OBVIOUS
    <3>2. n \in 1 .. hi
      BY <1>2
    <3>3. QED
      BY <1>7, <1>8, <3>1, <3>2
  <2> HIDE DEF B
  <2>4. \A n \in m .. hi : at[n] \in B[n]
    BY <2>2, <2>3, ChainStays
  <2>5. at[hi] \in B[hi] /\ hi \in 0 .. hi
    BY <1>2, <2>4
  <2>6. at[hi] = Broken
    BY <2>5 DEF B
  <2>7. QED
    BY <1>2, <1>6, <2>6
<1>12. \A m \in 0 .. hi : at[m] >= 0 <=> m \in 0 .. e - k
  <2>1. ASSUME NEW m \in 0 .. hi
        PROVE  at[m] >= 0 <=> m \in 0 .. e - k
    <3>1. CASE k + m \in k .. e
      <4>1. at[m] = T[k + m] /\ T[k + m] \in Nat
        BY <1>11, <3>1 DEF AtFrame
      <4>2. QED
        BY <3>1, <4>1
    <3>2. CASE k + m \notin k .. e
      <4>1. at[m] = -1
        BY <1>11, <3>2 DEF AtFrame
      <4>2. QED
        BY <1>2, <3>2, <4>1
    <3>3. QED
      BY <3>1, <3>2
  <2>2. QED
    BY <2>1
<1>13. {m \in DOMAIN at : at[m] >= 0} = 0 .. e - k
  <2>1. 0 .. e - k \subseteq 0 .. hi
    BY <1>1, <1>2
  <2>2. QED
    BY <1>5, <1>12, <2>1
<1>14. Cardinality(0 .. e - k) = e - k + 1
  <2>1. e - k \in Int /\ 0 \in Int /\ 0 <= e - k
    OBVIOUS
  <2>2. PICK b : b \in Int /\ 0 <= b /\ b = e - k
    BY <2>1, Zenon
  <2>3. Cardinality(0 .. b) = IF 0 > b THEN 0 ELSE b - 0 + 1
    BY <2>1, <2>2, FS_Interval, Zenon
  <2>4. Cardinality(0 .. b) = b + 1
    BY <2>2, <2>3
  <2>5. QED
    BY <2>2, <2>4, Zenon
<1>15. TrackOf(w) = [f \in k .. k + (e - k + 1) - 1 |-> at[f - k]]
  <2>1. Cardinality({m \in DOMAIN at : at[m] >= 0}) = e - k + 1
    BY <1>13, <1>14
  <2>2. TrackOf(w) = [f \in k .. k + Cardinality({m \in DOMAIN at : at[m] >= 0}) - 1 |-> at[f - k]]
    BY <1>2 DEF TrackOf
  <2>3. QED
    BY <2>1, <2>2
<1>16. k + (e - k + 1) - 1 = e
  OBVIOUS
<1>17. \A f \in k .. e : at[f - k] = T[f]
  <2>1. ASSUME NEW f \in k .. e
        PROVE  at[f - k] = T[f]
    <3>1. f - k \in 0 .. hi /\ k + (f - k) = f
      BY <1>1, <1>2
    <3>2. at[f - k] = AtFrame(T, f)
      BY <1>11, <3>1
    <3>3. QED
      BY <3>2 DEF AtFrame
  <2>2. QED
    BY <2>1
<1>18. QED
  BY <1>15, <1>16, <1>17

\* A sweep that meets no error reads the tracks that were written, all and only those.
LEMMA SweepReads ==
    ASSUME BaseInv, DataLaid, NEW rk, NEW tk, CanRead(TrackPairs(rk, tk)), file.planes = NFramesOut,
           NFramesOut \in Nat, MaxFound \in Nat, NEW tracks, WrittenBy(tracks, tk),
           \A w \in Walks(rk, tk) : LastOf(w) = End
    PROVE  {TrackOf(w) : w \in Walks(rk, tk)} = {tracks[n] : n \in 1 .. Len(tracks)}
<1>1. ASSUME NEW l, NEW T, NEW k, NEW e, IsTrack(tracks, l, T, k, e),
             NEW w \in Walks(rk, tk), w = <<k, Walk(rk, tk, k, T[k])>>
      PROVE  TrackOf(w) = T
  <2>1. LastOf(w) = End
    OBVIOUS
  <2>2. QED
    BY <1>1, <2>1, WalkReads
<1>2. ASSUME NEW w \in Walks(rk, tk)
      PROVE  \E n \in 1 .. Len(tracks) : TrackOf(w) = tracks[n]
  <2>1. PICK v : /\ v \in (1 .. file.planes) \X (0 .. MaxFound)
                 /\ v[2] < NumEntries(TrackPairs(rk, tk), v[1]) /\ StartsTrack(tk, v[1], v[2])
                 /\ w = <<v[1], Walk(rk, tk, v[1], v[2])>>
    BY DEF Walks
  <2>2. PICK k, j : k = v[1] /\ j = v[2]
    OBVIOUS
  <2>3. /\ k \in 1 .. file.planes /\ k \in 1 .. NFramesOut /\ j \in Nat
        /\ j < NumEntries(TrackPairs(rk, tk), k) /\ StartsTrack(tk, k, j)
        /\ w = <<k, Walk(rk, tk, k, j)>>
    BY <2>1, <2>2
  <2>4. \E l, T, e : IsTrack(tracks, l, T, k, e) /\ T[k] = j
    BY <2>3, StartsAtTrack
  <2>5. PICK l, T, e : IsTrack(tracks, l, T, k, e) /\ T[k] = j
    BY <2>4
  <2>6. w = <<k, Walk(rk, tk, k, T[k])>>
    BY <2>3, <2>5
  <2>7. TrackOf(w) = T
    BY <1>1, <2>3, <2>5, <2>6
  <2>8. QED
    BY <2>5, <2>7 DEF IsTrack
<1>3. ASSUME NEW l \in 1 .. Len(tracks)
      PROVE  \E w \in Walks(rk, tk) : TrackOf(w) = tracks[l]
  <2>1. PICK T, k, e : /\ T = tracks[l] /\ k \in 1 .. NFramesOut /\ e \in 1 .. NFramesOut
                       /\ k < e /\ T \in [k .. e -> 0 .. MaxFound]
    BY DEF WrittenBy, TracksOK, TrackOK
  <2>2. PICK j, w, v : j = T[k] /\ w = <<k, Walk(rk, tk, k, j)>> /\ v = <<k, j>>
    OBVIOUS
  <2>3. k \in 1 .. file.planes /\ j \in 0 .. MaxFound /\ j \in Nat /\ k + 1 \in k .. e /\ k # file.planes
    <3>1. k \in k .. e
      BY <2>1
    <3>2. j \in 0 .. MaxFound
      BY <2>1, <2>2, <3>1
    <3>3. QED
      BY <2>1, <3>2
  <2>4. OnTrack(tracks, l, T, k, j)
    BY <2>1, <2>2, <2>3 DEF OnTrack
  <2>5. ReadRight(rk, tk, l, T, k, j)
    BY <2>4, ReadOfTrack
  <2>6. /\ j < NumEntries(TrackPairs(rk, tk), k)
        /\ NextRead(tk, k, j) = AtFrame(T, k + 1) /\ Value(k, <<PREV_INDX, tk>>, j) = AtFrame(T, k - 1)
    BY <2>3, <2>5 DEF ReadRight
  <2>7. AtFrame(T, k + 1) \in Nat /\ AtFrame(T, k - 1) = -1
    <3>1. T[k + 1] \in 0 .. MaxFound /\ DOMAIN T = k .. e
      BY <2>1, <2>3
    <3>2. k - 1 \notin k .. e
      BY <2>1
    <3>3. QED
      BY <2>3, <3>1, <3>2 DEF AtFrame
  <2>8. StartsTrack(tk, k, j)
    BY <2>6, <2>7 DEF StartsTrack, NextRead
  <2>9. w \in Walks(rk, tk)
    <3>1. /\ v \in (1 .. file.planes) \X (0 .. MaxFound) /\ v[1] = k /\ v[2] = j
          /\ w = <<v[1], Walk(rk, tk, v[1], v[2])>>
      BY <2>2, <2>3
    <3>2. QED
      BY <2>6, <2>8, <3>1 DEF Walks
  <2>10. w = <<k, Walk(rk, tk, k, T[k])>>
    BY <2>2
  <2>11. IsTrack(tracks, l, T, k, e)
    BY <2>1 DEF IsTrack
  <2>12. TrackOf(w) = T
    BY <1>1, <2>9, <2>10, <2>11
  <2>13. QED
    BY <2>1, <2>9, <2>12
<1>4. QED
  BY <1>2, <1>3

\* No track is made up: where a sweep reads tracks under a key without an error, they are
\* those a run linked under this key, all of them from the length asked for, whatever was
\* run, failed or was killed on the file before: see TracksReadTrue (hash_case.cpp:358-452).
THEOREM TracksReadTrueAlways == HdfSpec => []TracksReadTrue
<1> DEFINE Inv == BaseInv /\ SavedInv /\ LaidInv /\ TrackedInv
<1>1. HdfInit => Inv
  <2>1. HdfInit => prog = Nobody /\ file.state = "absent"
    BY DEF HdfInit, NoFile
  <2>2. HdfInit => SavedInv
    BY <2>1 DEF SavedInv
  <2>3. QED
    BY <2>2, BaseInvInit, LaidInvInit, TrackedInvInit
<1>2. Inv /\ [HdfNext]_<<idenVars, hdfVars>> => Inv'
  BY BaseInvStep, SavedInvStep, LaidInvStep, TrackedInvStep
<1>3. Inv => TracksReadTrue
  <2>1. SUFFICES ASSUME Inv, prog = Nobody, NEW rk \in Key, NEW tk \in Key, CanRead(TrackPairs(rk, tk)),
                        Recorded(rk), \A w \in Walks(rk, tk) : LastOf(w) = End
                 PROVE  \E r \in runs : /\ r.kind = "tracking" /\ r.key = tk
                                        /\ \A m \in 2 .. 3 : TracksRead(rk, tk, m) =
                                              {t \in {r.tracks[n] : n \in 1 .. Len(r.tracks)} : Cardinality(DOMAIN t) >= m}
    BY DEF TracksReadTrue
  <2>2. /\ BaseInv /\ DataLaid /\ TrackedInv /\ file.planes > 0
    BY <2>1 DEF LaidInv, CanRead
  <2>3. file.planes = NFramesOut /\ NFramesOut \in Nat /\ MaxFound \in Nat
    <3>1. IdenTypeOK
      BY <2>2 DEF BaseInv, IdenInv
    <3>2. NFramesOut \in Nat /\ MaxFound \in Nat
      BY <3>1, NFramesType, MaxFoundType
    <3>3. QED
      BY <2>2, <3>2 DEF BaseInv, FileOK
  <2>4. OfKey(tk) # {}
    <3>1. 1 \in 1 .. file.planes
      BY <2>2, <2>3
    <3>2. PICK d : d = <<1, NEXT_INDX, tk>>
      OBVIOUS
    <3>3. NEXT_INDX \in TypesOf("tracking")
      BY TypesApart
    <3>4. d \in DOMAIN file.data
      BY <2>1, <2>2, <3>1, <3>2, <3>3, TrackWidth
    <3>5. QED
      BY <3>2, <3>3, <3>4 DEF OfKey, OfTracking
  <2>5. PICK r \in runs : r.kind = "tracking" /\ r.key = tk /\ WrittenBy(r.tracks, tk)
    BY <2>1, <2>2, <2>4 DEF TrackedInv, HasWriter
  <2>6. PICK tracks : tracks = r.tracks
    OBVIOUS
  <2>7. {TrackOf(w) : w \in Walks(rk, tk)} = {tracks[n] : n \in 1 .. Len(tracks)}
    <3>1. WrittenBy(tracks, tk)
      BY <2>5, <2>6
    <3>2. QED
      BY <2>1, <2>2, <2>3, <3>1, SweepReads
  <2>8. \A m : TracksRead(rk, tk, m) = {t \in {tracks[n] : n \in 1 .. Len(tracks)} : Cardinality(DOMAIN t) >= m}
    BY <2>7 DEF TracksRead
  <2>9. QED
    BY <2>5, <2>6, <2>8
<1>4. QED
  BY <1>1, <1>2, <1>3, PTL DEF HdfSpec
-----------------------------------------------------------------------------
(* What is recorded of a run                                                  *)

\* Where frames are averaged dtime is an unsigned int, which the file takes as an
\* int: the times of such an image are no further apart than an int can say.
TimesFit ==
    \A im \in Images : im.avg # NoAvg =>
        \A i, j \in 1 .. Len(im.planes) : im.planes[i].time - im.planes[j].time <= IntMax

\* The attribute the dtime of a frame becomes; all parameters of a frame become one.
DtimeAttr(f) == Elem("dtime", "int", IF Averaging THEN Gap(f) % UintMod ELSE Gap(f))
Fits(f) == \A i \in 1 .. Len(wrapper[f].md) : Convertible(wrapper[f].md[i])

\* A frame tells its dtime, or none, and one that an int can say.
LEMMA DtimeTold ==
    ASSUME IdenInv, NEW f \in 1 .. Len(wrapper)
    PROVE  /\ DtimeAttr(f) \in Told(f) \/ \A a \in Told(f) : a.key # "dtime"
           /\ Averaging /\ Fits(f) => Gap(f) % UintMod <= IntMax
<1>1. PICK z \in Int : wrapper[f].md = FrameStore(f, z)
  BY DEF IdenInv, FrameRight
<1>2. PICK s : s = wrapper[f].md
  OBVIOUS
<1>3. /\ \A i \in 1 .. Len(s) : Named(Converted(s[i])) => Converted(s[i]) \in Told(f)
      /\ \A a \in Told(f) : \E i \in 1 .. Len(s) : a = Converted(s[i])
  BY <1>2 DEF Told, AttrsOf
<1>4. s = FrameStore(f, z)
  BY <1>1, <1>2
<1>5. PICK d, g : d = Gap(f) % UintMod /\ g = Gap(f)
  OBVIOUS
<1>6. CASE Averaging
  <2>1. PICK t : t = stack[FirstPlane(f)].time
    OBVIOUS
  <2>2. s = <<Elem("z-position", "float", z), Elem("calibrated", "bool", 1),
              Elem("dtime", "uint", d), Elem("acquisition-time-local", "string", t)>>
    BY <1>4, <1>5, <1>6, <2>1 DEF FrameStore
  <2>3. Len(s) = 4 /\ s[3] = Elem("dtime", "uint", d)
    BY <2>2
  <2>4. Converted(s[3]) = Elem("dtime", "int", d)
    BY <2>3 DEF Converted, Elem, StringTypes
  <2>5. Named(Converted(s[3]))
    BY <2>4 DEF Named, Elem
  <2>6. Elem("dtime", "int", d) \in Told(f)
    BY <1>3, <2>3, <2>4, <2>5
  <2>7. Fits(f) => d <= IntMax
    <3>1. Fits(f) => Convertible(s[3])
      BY <1>2, <2>3 DEF Fits
    <3>2. QED
      BY <2>3, <3>1 DEF Convertible, Elem
  <2>8. QED
    BY <1>5, <1>6, <2>6, <2>7 DEF DtimeAttr
<1>7. CASE ~Averaging /\ stack[f].time >= 0
  <2>1. PICK u : u = stack[f].time
    OBVIOUS
  <2>2. s = <<Elem("acquisition-time-local", "time", u), Elem("z-position", "float", z),
              Elem("calibrated", "bool", 1), Elem("comment", "string", 0), Elem("dtime", "int", g)>>
    BY <1>4, <1>5, <1>7, <2>1 DEF FrameStore
  <2>3. Len(s) = 5 /\ s[5] = Elem("dtime", "int", g)
    BY <2>2
  <2>4. Converted(s[5]) = Elem("dtime", "int", g)
    BY <2>3 DEF Converted, Elem, StringTypes
  <2>5. Named(Converted(s[5]))
    BY <2>4 DEF Named, Elem
  <2>6. Elem("dtime", "int", g) \in Told(f)
    BY <1>3, <2>3, <2>4, <2>5
  <2>7. QED
    BY <1>5, <1>7, <2>6 DEF DtimeAttr
<1>8. CASE ~Averaging /\ ~(stack[f].time >= 0)
  <2>1. s = <<Elem("z-position", "float", z), Elem("calibrated", "bool", 1), Elem("comment", "string", 0)>>
    BY <1>4, <1>8 DEF FrameStore
  <2>2. \A i \in 1 .. Len(s) : s[i].key # "dtime"
    BY <2>1 DEF Elem
  <2>3. \A i \in 1 .. Len(s) : Converted(s[i]).key = s[i].key
    BY DEF Converted, Elem
  <2>4. ASSUME NEW a \in Told(f)
        PROVE  a.key # "dtime"
    <3>1. PICK i \in 1 .. Len(s) : a = Converted(s[i])
      BY <1>3
    <3>2. QED
      BY <2>2, <2>3, <3>1
  <2>5. QED
    BY <1>8, <2>4
<1>9. QED
  BY <1>6, <1>7, <1>8

\* Of attributes a reader gets as they are, each is found under its name.
LEMMA ReadAnswers ==
    ASSUME NEW A, Steady(A), NEW a \in A
    PROVE  GetValue(StoreOf(A), a.key) = a.val
<1>1. PICK s : s = StoreOf(A)
  OBVIOUS
<1>2. /\ Len(s) \in Nat /\ \A n \in 1 .. Len(s) : s[n] \in A
      /\ {s[n] : n \in 1 .. Len(s)} = A
      /\ \A m, n \in 1 .. Len(s) : s[m] = s[n] => m = n
  BY <1>1, StoreOfSteady
<1>3. PICK n \in 1 .. Len(s) : s[n] = a
  BY <1>2
<1>4. ASSUME NEW j \in 1 .. n - 1
      PROVE  s[j].key # a.key
  <2>1. j \in 1 .. Len(s) /\ j # n
    BY <1>2
  <2>2. s[j] \in A /\ s[j] # a
    BY <1>2, <1>3, <2>1
  <2>3. QED
    BY <2>2 DEF Steady
<1>5. GetValue(s, a.key) = s[n].val
  BY <1>2, <1>3, <1>4, FirstAnswers
<1>6. QED
  BY <1>1, <1>3, <1>5

\* The list of the cuts has each of them, and nothing else; where none is given
\* there is none.
LEMMA CutsAnswer ==
    ASSUME NEW who, NEW s, s = PramsWith(Cuts, who)
    PROVE  /\ Len(s) \in Nat /\ s \in Seq(Range(s))
           /\ \A n \in 1 .. Len(s) : s[n].key \in Cuts
           /\ \A c \in Cuts : \E n \in 1 .. Len(s) :
                s[n] = Elem(c, "float", CutValue(who)) /\ \A j \in 1 .. n - 1 : s[j].key # c
<1>1. IsFiniteSet(Cuts)
  <2>1. IsFiniteSet({"e_cut"}) /\ IsFiniteSet({"rg_cut"}) /\ IsFiniteSet({"shift_cut"})
    BY FS_Singleton
  <2>2. Cuts = ({"e_cut"} \cup {"rg_cut"}) \cup {"shift_cut"}
    BY DEF Cuts
  <2>3. QED
    BY <2>1, <2>2, FS_Union
<1>2. PICK cut : cut = SetToSeq(Cuts)
  OBVIOUS
<1>3. cut \in SetToSeqs(Cuts)
  BY <1>1, <1>2, SomeOrder
<1>4. PICK N : N = Cardinality(Cuts)
  OBVIOUS
<1>5. /\ N \in Nat /\ Len(cut) = N /\ \A n \in 1 .. N : cut[n] \in Cuts
      /\ \A x \in Cuts : \E n \in 1 .. N : cut[n] = x
      /\ \A m, n \in 1 .. N : cut[m] = cut[n] => m = n
  BY <1>1, <1>3, <1>4, OrderIs
<1>6. s = [i \in 1 .. N |-> Elem(cut[i], "float", CutValue(who))]
  BY <1>2, <1>4 DEF PramsWith
<1>7. Len(s) = N /\ DOMAIN s = 1 .. N
  BY <1>5, <1>6
<1>8. \A n \in 1 .. N : s[n] = Elem(cut[n], "float", CutValue(who)) /\ s[n].key = cut[n]
  BY <1>6 DEF Elem
<1>9. ASSUME NEW c \in Cuts
      PROVE  \E n \in 1 .. N : s[n] = Elem(c, "float", CutValue(who)) /\ \A j \in 1 .. n - 1 : s[j].key # c
  <2>1. PICK n \in 1 .. N : cut[n] = c
    BY <1>5
  <2>2. \A j \in 1 .. n - 1 : j \in 1 .. N /\ j # n
    BY <1>5
  <2>3. \A j \in 1 .. n - 1 : s[j].key # c
    BY <1>5, <1>8, <2>1, <2>2
  <2>4. QED
    BY <1>8, <2>1, <2>3
<1>10. s \in Seq(Range(s))
  <2>1. PICK R : R = Range(s)
    OBVIOUS
  <2>2. \A n \in 1 .. N : s[n] \in R
    BY <1>7, <2>1 DEF Range
  <2>3. s \in [1 .. N -> R]
    BY <1>6, <2>2
  <2>4. QED
    BY <1>5, <2>1, <2>3
<1>11. QED
  BY <1>5, <1>7, <1>8, <1>9, <1>10

\* One more element at the end is found under its name if that is new, and hides none.
LEMMA AppendAnswers ==
    ASSUME NEW R, NEW s \in Seq(R), NEW k, NEW t, NEW v, NEW a, a = AddElement(s, k, t, v)
    PROVE  /\ (\A n \in 1 .. Len(s) : s[n].key # k) => GetValue(a, k) = v
           /\ \A n \in 1 .. Len(s) : (\A j \in 1 .. n - 1 : s[j].key # s[n].key) =>
                GetValue(a, s[n].key) = s[n].val
<1>1. PICK e : e = Elem(k, t, v)
  OBVIOUS
<1>2. a = Append(s, e) /\ e.key = k /\ e.val = v
  BY <1>1 DEF AddElement, Elem
<1>3. Len(s) \in Nat /\ Len(a) = Len(s) + 1 /\ a[Len(s) + 1] = e
      /\ \A n \in 1 .. Len(s) : a[n] = s[n]
  BY <1>2
<1>4. ASSUME \A n \in 1 .. Len(s) : s[n].key # k
      PROVE  GetValue(a, k) = v
  <2>1. PICK i : i = Len(s) + 1
    OBVIOUS
  <2>2. i \in 1 .. Len(a) /\ a[i].key = k /\ a[i].val = v /\ Len(a) \in Nat
    BY <1>2, <1>3, <2>1
  <2>3. \A j \in 1 .. i - 1 : a[j].key # k
    BY <1>3, <1>4, <2>1
  <2>4. QED
    BY <2>2, <2>3, FirstAnswers
<1>5. ASSUME NEW n \in 1 .. Len(s), \A j \in 1 .. n - 1 : s[j].key # s[n].key
      PROVE  GetValue(a, s[n].key) = s[n].val
  <2>1. PICK c : c = s[n].key
    OBVIOUS
  <2>2. n \in 1 .. Len(a) /\ a[n].key = c /\ a[n].val = s[n].val /\ Len(a) \in Nat
    BY <1>3, <2>1
  <2>3. \A j \in 1 .. n - 1 : a[j].key # c
    BY <1>3, <1>5, <2>1
  <2>4. GetValue(a, c) = a[n].val
    BY <2>2, <2>3, FirstAnswers
  <2>5. QED
    BY <2>1, <2>2, <2>4
<1>6. QED
  BY <1>4, <1>5

\* What is recorded has the cuts of the filter, and the mean gap.
LEMMA RecordedAnswers ==
    ASSUME NEW given \in {{}, Cuts}
    PROVE  /\ \A c \in Cuts : GetValue(MdStore(given), c) = GetValue(FilterPrams(given), c)
           /\ GetValue(MdStore(given), "dtime") = AvgDtime
<1>1. PICK who : who = IF given = Cuts THEN "program" ELSE "file"
  OBVIOUS
<1>2. PICK s : s = PramsWith(Cuts, who)
  OBVIOUS
<1>3. /\ Len(s) \in Nat /\ s \in Seq(Range(s))
      /\ \A n \in 1 .. Len(s) : s[n].key \in Cuts
      /\ \A c \in Cuts : \E n \in 1 .. Len(s) :
            s[n] = Elem(c, "float", CutValue(who)) /\ \A j \in 1 .. n - 1 : s[j].key # c
  BY <1>2, CutsAnswer
<1>4. FilterPrams(given) = s
  BY <1>1, <1>2 DEF FilterPrams, ExtractPrams
<1>5. MdStore(given) = AddElement(s, "dtime", "int", AvgDtime)
  <2>1. CASE given = Cuts
    BY <1>1, <1>2, <2>1 DEF MdStore
  <2>2. CASE given # Cuts
    <3>1. given = {} /\ Cardinality(given) = 0
      BY <2>2, FS_EmptySet
    <3>2. PramsWith(given, "program") = <<>>
      BY <3>1 DEF PramsWith
    <3>3. s = ExtractPrams
      BY <1>1, <1>2, <2>2 DEF ExtractPrams
    <3>4. AddElements(<<>>, s) = s
      BY <1>3 DEF AddElements
    <3>5. QED
      BY <2>2, <3>2, <3>3, <3>4 DEF MdStore
  <2>3. QED
    BY <2>1, <2>2
<1>6. PICK a, v : a = MdStore(given) /\ v = AvgDtime
  OBVIOUS
<1>7. a = AddElement(s, "dtime", "int", v)
  BY <1>5, <1>6
<1>8. GetValue(a, "dtime") = v
  <2>1. \A n \in 1 .. Len(s) : s[n].key # "dtime"
    BY <1>3 DEF Cuts
  <2>2. QED
    BY <1>3, <1>7, <2>1, AppendAnswers
<1>9. ASSUME NEW c \in Cuts
      PROVE  GetValue(a, c) = GetValue(s, c)
  <2>1. PICK n \in 1 .. Len(s) :
            s[n] = Elem(c, "float", CutValue(who)) /\ \A j \in 1 .. n - 1 : s[j].key # c
    BY <1>3
  <2>2. s[n].key = c
    BY <2>1 DEF Elem
  <2>3. GetValue(s, c) = s[n].val
    BY <1>3, <2>1, <2>2, FirstAnswers
  <2>4. GetValue(a, c) = s[n].val
    BY <1>3, <1>7, <2>1, <2>2, AppendAnswers
  <2>5. QED
    BY <2>3, <2>4
<1>10. QED
  BY <1>4, <1>6, <1>8, <1>9

\* The differences of a sequence add up to the difference of its ends.
LEMMA GapsAddUp ==
    ASSUME NEW n \in Nat \ {0}, NEW T, \A f \in 1 .. n : T[f] \in Int,
           NEW h, \A f \in 2 .. n : h[f] = T[f] - T[f - 1]
    PROVE  Total(h, 2 .. n) = T[n] - T[1]
<1> DEFINE Bad == {m \in 1 .. n : Total(h, 2 .. m) # T[m] - T[1]}
<1>1. ASSUME Bad # {}
      PROVE  FALSE
  <2>1. PICK m \in Bad : \A l \in Bad : m <= l
    <3>1. Bad \in SUBSET Nat
      OBVIOUS
    <3> HIDE DEF Bad
    <3>2. QED
      BY <1>1, <3>1, LeastNatural
  <2>2. m \in 1 .. n /\ Total(h, 2 .. m) # T[m] - T[1]
    OBVIOUS
  <2>3. PICK S : S = 2 .. m
    OBVIOUS
  <2>4. IsFiniteSet(S) /\ S \subseteq 2 .. n
    BY <2>2, <2>3, FS_Interval
  <2>5. \A x \in S : h[x] \in Int
    <3>1. ASSUME NEW x \in S PROVE h[x] \in Int
      <4>1. x \in 2 .. n /\ x \in 1 .. n /\ x - 1 \in 1 .. n
        BY <2>4
      <4>2. QED
        BY <4>1
    <3>2. QED
      BY <3>1
  <2>6. Total(h, {}) = 0 /\ \A x \in S : Total(h, S) = h[x] + Total(h, S \ {x})
    BY <2>4, <2>5, IntTotalTakes
  <2>7. m # 1
    <3>1. ASSUME m = 1 PROVE FALSE
      <4>1. S = {} /\ T[m] - T[1] = 0
        BY <2>3, <3>1
      <4>2. QED
        BY <2>2, <2>3, <2>6, <4>1
    <3>2. QED
      BY <3>1
  <2>8. m \in 2 .. n /\ m - 1 \in 1 .. n /\ m \in S /\ S \ {m} = 2 .. m - 1
    BY <2>2, <2>3, <2>7
  <2>9. Total(h, 2 .. m - 1) = T[m - 1] - T[1]
    <3>1. m - 1 \notin Bad
      BY <2>1, <2>2, <2>8
    <3>2. QED
      BY <2>8, <3>1
  <2>10. Total(h, S) = h[m] + Total(h, 2 .. m - 1)
    BY <2>6, <2>8
  <2>11. T[m] \in Int /\ T[m - 1] \in Int /\ T[1] \in Int /\ h[m] = T[m] - T[m - 1]
    BY <2>2, <2>8
  <2>12. h[m] + (T[m - 1] - T[1]) = T[m] - T[1]
    BY <2>11
  <2>13. QED
    BY <2>2, <2>3, <2>9, <2>10, <2>12
<1>2. n \in 1 .. n /\ n \notin Bad
  BY <1>1
<1>3. QED
  BY <1>2

\* The mean gap is that of the sum of the gaps that were read.
LEMMA AvgDtimeIs ==
    ASSUME file.planes \in Nat, NEW k, \A f \in 2 .. file.planes : k[f] = GetValue(MdStores[f], "dtime"),
           NEW n, n = file.planes - 1
    PROVE  AvgDtime = (2 * Total(k, 2 .. file.planes) + n) \div (2 * n)
<1> DEFINE e(f) == GetValue(MdStores[f], "dtime")
           S == 2 .. file.planes
           E == CHOOSE g : g = [s \in SUBSET S |->
                    IF s = {} THEN 0 ELSE e(Picked(s)) + g[s \ {Picked(s)}]]
<1>1. AvgDtime = (2 * E[S] + n) \div (2 * n)
  BY DEF AvgDtime, MapThenSumSet, MapThenFoldSet, Picked
<1>2. S \in SUBSET S /\ IsFiniteSet(S)
  BY FS_Interval
<1>3. \A s \in SUBSET S : s # {} => k[Picked(s)] = e(Picked(s))
  BY PickedIn
<1> HIDE DEF S
<1>4. PICK g : IsSum(g, k, S)
  BY <1>2, SumExists
<1> HIDE DEF e
<1>5. ASSUME NEW w
      PROVE  IsSum(w, k, S) <=> w = [s \in SUBSET S |->
                 IF s = {} THEN 0 ELSE e(Picked(s)) + w[s \ {Picked(s)}]]
  <2>1. [s \in SUBSET S |-> IF s = {} THEN 0 ELSE k[Picked(s)] + w[s \ {Picked(s)}]]
        = [s \in SUBSET S |-> IF s = {} THEN 0 ELSE e(Picked(s)) + w[s \ {Picked(s)}]]
    BY <1>3
  <2> QED
    BY <2>1 DEF IsSum
<1>6. IsSum(E, k, S)
  <2>1. \E w : w = [s \in SUBSET S |->
                 IF s = {} THEN 0 ELSE e(Picked(s)) + w[s \ {Picked(s)}]]
    BY <1>4, <1>5
  <2>2. E = [s \in SUBSET S |-> IF s = {} THEN 0 ELSE e(Picked(s)) + E[s \ {Picked(s)}]]
    BY <2>1
  <2> HIDE DEF E
  <2> QED
    BY <2>2, <1>5
<1> HIDE DEF E
<1>7. Total(k, S) = E[S]
  BY <1>2, <1>6, TotalIs
<1> QED
  BY <1>1, <1>7 DEF S

\* A mean that is rounded lies within half a unit.
LEMMA RoundedWithin ==
    ASSUME NEW n \in Nat \ {0}, NEW s \in Int, NEW q, q = (2 * s + n) \div (2 * n)
    PROVE  2 * n * q \in 2 * s - n + 1 .. 2 * s + n
<1>1. PICK d, x : d = 2 * n /\ x = 2 * s + n
  OBVIOUS
<1>2. d \in Nat \ {0} /\ x \in Int
  BY <1>1
<1>3. q = x \div d
  BY <1>1
<1>4. q \in Int /\ d * q <= x /\ x < d * q + d
  BY <1>2, <1>3
<1>5. PICK y : y = d * q
  OBVIOUS
<1>6. y \in Int /\ y <= x /\ x < y + d
  BY <1>2, <1>4, <1>5
<1>7. y \in 2 * s - n + 1 .. 2 * s + n
  BY <1>1, <1>6
<1>8. 2 * n * q = y
  BY <1>1, <1>5
<1>9. QED
  BY <1>7, <1>8

\* A process that succeeded has put the list of its parameters into the file, and all it
\* had to say of a frame was taken; so has one that writes, as far as it has come.
ParamsInv ==
    /\ \E im \in Images : stack = im.planes /\ avgCount = im.avg
    /\ file.state = "good" =>
        \A r \in runs : r.kind = "process" /\ r.code = 0 => <<XPOS, r.key>> \in file.lists
    /\ HasRecorded => \A f \in 1 .. NFramesOut : Fits(f)
    /\ prog # Nobody /\ prog.kind = "process" =>
        /\ prog.pc \in InOrder => \A f \in 1 .. prog.frame - 1 : Fits(f)
        /\ prog.pc \in {"store", "close"} => Fits(prog.frame)
        /\ prog.pc = "done" => <<XPOS, prog.key>> \in file.lists

\* A step of a program has to keep the lists, and what was said of its own frames.
LEMMA GoesOnParams ==
    ASSUME BaseInv, ParamsInv, GoesOn,
           HasRecorded /\ file'.state = "good" => file.state = "good" /\ file.lists \subseteq file'.lists,
           prog.kind = "process" =>
               /\ prog'.pc \in InOrder => \A f \in 1 .. prog'.frame - 1 : Fits(f)
               /\ prog'.pc \in {"store", "close"} => Fits(prog'.frame)
               /\ prog'.pc = "done" => <<XPOS, prog.key>> \in file'.lists
    PROVE  ParamsInv'
<1>1. /\ prog # Nobody /\ prog' # Nobody /\ UNCHANGED <<runs, stack, avgCount, wrapper>>
      /\ prog'.kind = prog.kind /\ prog'.key = prog.key
  BY DEF GoesOn, idenVars
<1>2. NFramesOut' = NFramesOut
  BY GoesOnKeeps
<1>3. PICK fr : fr = prog'.frame
  OBVIOUS
<1>4. HasRecorded' = HasRecorded /\ \A f : Fits(f)' = Fits(f)
  BY <1>1 DEF HasRecorded, Fits
<1>5. (\E im \in Images : stack = im.planes /\ avgCount = im.avg)'
  BY <1>1 DEF ParamsInv
<1>6. file'.state = "good" => \A r \in runs : r.kind = "process" /\ r.code = 0 => <<XPOS, r.key>> \in file'.lists
  BY DEF ParamsInv, HasRecorded
<1>7. HasRecorded' => \A f \in 1 .. NFramesOut' : Fits(f)'
  BY <1>2, <1>4 DEF ParamsInv
<1>8. Fits(prog.frame)' <=> Fits(fr)
  BY <1>1, <1>3 DEF Fits
<1>9. prog'.kind = "process" =>
        /\ prog'.pc \in InOrder => \A f \in 1 .. prog'.frame - 1 : Fits(f)'
        /\ prog'.pc \in {"store", "close"} => Fits(prog.frame)'
        /\ prog'.pc = "done" => <<XPOS, prog'.key>> \in file'.lists
  BY <1>1, <1>3, <1>4, <1>8
<1>10. QED
  BY <1>1, <1>5, <1>6, <1>7, <1>9 DEF ParamsInv

\* A step that leaves the lists alone and tells of no frame.
LEMMA GoesOnTold ==
    ASSUME BaseInv, ParamsInv, GoesOn, file'.lists = file.lists, file'.state = file.state,
           prog'.pc \in InOrder =>
               /\ prog.pc \in InOrder /\ prog'.pc # "done"
               /\ \/ prog'.frame = prog.frame /\ prog'.pc \notin {"store", "close"}
                  \/ prog'.frame = prog.frame /\ prog.pc \in {"store", "close"}
                  \/ prog'.frame = prog.frame + 1 /\ prog.pc = "close" /\ prog'.pc = "group"
    PROVE  ParamsInv'
<1>1. prog # Nobody /\ prog.frame \in Nat
  BY DEF GoesOn, BaseInv, ProgOK
<1>2. ASSUME prog.kind = "process", prog'.pc \in InOrder
      PROVE  /\ \A f \in 1 .. prog'.frame - 1 : Fits(f)
             /\ prog'.pc \in {"store", "close"} => Fits(prog'.frame)
  <2>1. PICK fr : fr = prog.frame
    OBVIOUS
  <2>2. /\ \A f \in 1 .. fr - 1 : Fits(f)
        /\ prog.pc \in {"store", "close"} => Fits(fr)
    BY <1>1, <1>2, <2>1 DEF ParamsInv
  <2>3. CASE prog'.frame = prog.frame
    BY <1>2, <2>1, <2>2, <2>3
  <2>4. CASE prog'.frame = prog.frame + 1 /\ prog.pc = "close" /\ prog'.pc = "group"
    <3>1. \A f \in 1 .. prog'.frame - 1 : f \in 1 .. fr - 1 \/ f = fr
      BY <1>1, <2>1, <2>4
    <3>2. QED
      BY <2>2, <2>4, <3>1
  <2>5. QED
    BY <1>2, <2>3, <2>4
<1>3. prog'.pc \in {"store", "close", "done"} => prog'.pc \in InOrder
  BY DEF InOrder, Writing
<1>4. QED
  BY <1>2, <1>3, GoesOnParams

\* Opening the file,
LEMMA OpenParams ==
    ASSUME BaseInv, ParamsInv, OpenFile \/ OpenFileFails, UNCHANGED idenVars
    PROVE  ParamsInv'
<1>1. /\ GoesOn /\ prog.pc = "open" /\ prog'.frame = prog.frame
      /\ Went("root") \/ Threw
      /\ \/ file' = file
         \/ /\ IF Appends THEN file.state = "good" ELSE file.state = "absent"
            /\ file'.lists = IF Appends THEN file.lists ELSE {}
  BY OpenStep DEF SameFrame
<1>2. prog # Nobody /\ prog.frame = 1
  BY <1>1 DEF GoesOn, BaseInv, ProgOK
<1>3. HasRecorded => file.state # "absent"
  BY DEF HasRecorded, BaseInv, RunsOK, Well
<1>4. HasRecorded /\ file'.state = "good" => file.state = "good" /\ file.lists \subseteq file'.lists
  BY <1>1, <1>3
<1>5. prog'.pc \in {"root", "thrown"}
  BY <1>1 DEF Went, Threw
<1>6. \A f \in 1 .. prog'.frame - 1 : Fits(f)
  BY <1>1, <1>2
<1>7. QED
  BY <1>1, <1>4, <1>5, <1>6, GoesOnParams

\* saying what a frame is,
LEMMA MetaParams ==
    ASSUME BaseInv, MetaInv, ParamsInv, WriteMeta, UNCHANGED idenVars
    PROVE  ParamsInv'
<1>1. PICK fr, A, md : fr = prog.frame /\ A = file.attrs[fr] /\ md = prog.md[fr]
  OBVIOUS
<1>2. /\ GoesOn /\ prog.pc = "meta" /\ prog'.frame = fr /\ fr \in 1 .. NFramesOut
      /\ IF Takes(A, md) THEN Went("store") ELSE Threw
      /\ file'.state = file.state /\ file'.lists = file.lists
  BY <1>1, MetaStep DEF SameFrame
<1>3. prog # Nobody /\ IdenInv /\ Len(wrapper) = NFramesOut
  BY <1>2 DEF GoesOn, BaseInv, ProgOK, IdenDone
<1>4. prog'.pc \in {"store", "close", "done"} \cup InOrder => prog'.pc = "store" /\ Takes(A, md)
  BY <1>2 DEF Went, Threw, InOrder, Writing
<1>5. ASSUME prog.kind = "process"
      PROVE  (\A f \in 1 .. fr - 1 : Fits(f)) /\ (Takes(A, md) => Fits(fr))
  <2>1. \A f \in 1 .. fr - 1 : Fits(f)
    BY <1>1, <1>2, <1>3, <1>5 DEF ParamsInv, InOrder, Writing
  <2>2. md = wrapper[fr].md
    BY <1>1, <1>2, <1>3, <1>5 DEF MetaInv
  <2>3. Len(md) \in Nat
    BY <1>2, <1>3, <2>2, ToldSteady
  <2>4. Takes(A, md) => \A n \in 1 .. Len(md) : Convertible(md[n])
    BY <2>3, TakesIs
  <2>5. QED
    BY <2>1, <2>2, <2>4 DEF Fits
<1>6. QED
  BY <1>2, <1>4, <1>5, GoesOnParams

\* writing the lists,
LEMMA ListParams ==
    ASSUME BaseInv, ParamsInv, WriteList \/ WriteListFails, UNCHANGED idenVars
    PROVE  ParamsInv'
<1>1. /\ GoesOn /\ prog.pc = "group" /\ prog'.frame = prog.frame
      /\ \/ Went("done") /\ file'.lists = file.lists \cup ParamGroups(Types)
         \/ Threw /\ file.lists \subseteq file'.lists
      /\ file'.state = file.state
  BY ListStep DEF SameFrame
<1>2. prog # Nobody
  BY <1>1 DEF GoesOn
<1>3. prog'.pc \in {"done", "thrown"} /\ file.lists \subseteq file'.lists
  BY <1>1 DEF Went, Threw
<1>4. prog.kind = "process" => \A f \in 1 .. prog'.frame - 1 : Fits(f)
  BY <1>1, <1>2 DEF ParamsInv, InOrder
<1>5. prog.kind = "process" /\ prog'.pc = "done" => <<XPOS, prog.key>> \in file'.lists
  <2>1. SUFFICES ASSUME prog.kind = "process", prog'.pc = "done" PROVE <<XPOS, prog.key>> \in file'.lists
    OBVIOUS
  <2>2. file'.lists = file.lists \cup ParamGroups(Types)
    BY <1>1, <2>1 DEF Threw
  <2>3. XPOS \in Types
    BY <2>1, TypesApart DEF Types
  <2>4. <<XPOS, prog.key>> \in ParamGroups(Types)
    BY <2>3 DEF ParamGroups
  <2>5. QED
    BY <2>2, <2>4
<1>6. QED
  BY <1>1, <1>3, <1>4, <1>5, GoesOnParams

\* every step of a program,
LEMMA WritesParams ==
    ASSUME BaseInv, MetaInv, ParamsInv, Writes \/ Fails, UNCHANGED idenVars
    PROVE  ParamsInv'
<1>1. CASE OpenFile \/ OpenFileFails
  BY <1>1, OpenParams
<1>2. CASE WriteRoot \/ WriteRootFails
  <2>1. /\ SameFrame /\ prog.pc = "root" /\ (Went("group") \/ Threw)
        /\ file'.lists = file.lists /\ file'.state = file.state
    BY <1>2, RootStep
  <2>2. QED
    BY <2>1, GoesOnTold DEF SameFrame, Went, Threw, InOrder, Writing
<1>3. CASE OpenGroup \/ OpenGroupFails
  <2>1. /\ SameFrame /\ prog.pc = "group" /\ (Went("meta") \/ Threw)
        /\ file'.lists = file.lists /\ file'.state = file.state
    BY <1>3, GroupStep
  <2>2. QED
    BY <2>1, GoesOnTold DEF SameFrame, Went, Threw, InOrder, Writing
<1>4. CASE WriteMeta
  BY <1>4, MetaParams
<1>5. CASE StoreParticles
  <2>1. prog # Nobody /\ prog.pc = "store"
    BY <1>5 DEF StoreParticles, At
  <2>2. GoesOn /\ prog'.pc = "close" /\ prog'.frame = prog.frame /\ file' = file
    BY <1>5, <2>1, StoredIs
  <2>3. QED
    BY <2>1, <2>2, GoesOnTold DEF InOrder, Writing
<1>6. CASE CloseGroup \/ CloseGroupFails
  <2>1. /\ GoesOn /\ prog.pc = "close" /\ FileButData
        /\ \/ Threw
           \/ Went("group") /\ prog'.frame = prog.frame + 1
    BY <1>6, CloseStep
  <2>2. QED
    BY <2>1, GoesOnTold DEF FileButData, Went, Threw, InOrder, Writing
<1>7. CASE WriteList \/ WriteListFails
  BY <1>7, ListParams
<1>8. QED
  BY <1>1, <1>2, <1>3, <1>4, <1>5, <1>6, <1>7 DEF Writes, Fails

\* A process that succeeds has written all its frames and its lists.
LEMMA SucceedsWhenDone ==
    ASSUME BaseInv, Ends, UNCHANGED idenVars,
           NEW r \in runs', r \notin runs, r.kind = "process", r.code = 0
    PROVE  /\ prog # Nobody /\ prog.kind = "process" /\ prog.key = r.key
           /\ prog.pc = "done" /\ prog.frame - 1 = NFramesOut
<1>1. prog # Nobody /\ ProgOK
  BY EndsAre DEF BaseInv
<1>2. PICK code : runs' = runs \cup {Record(code)}
  BY EndsAre
<1>3. r = Record(code)
  BY <1>2
<1>4. Record(code).kind = prog.kind /\ Record(code).code = code /\ Record(code).key = prog.key
  BY DEF Record
<1>5. prog.kind = "process" /\ prog.key = r.key /\ code = 0
  BY <1>3, <1>4
<1>6. Record(0) # Record(-1) /\ Record(0) # Record(Killed)
  BY DEF Record, Killed
<1>7. prog.pc = "done"
  <2>1. Record(0) \in runs' /\ Record(0) \notin runs
    BY <1>2, <1>3, <1>5
  <2>2. QED
    BY <1>5, <1>6, <2>1, EndsAre
<1>8. prog.frame - 1 = NFramesOut
  BY <1>1, <1>7, NFramesType DEF ProgOK, BaseInv, IdenInv
<1>9. QED
  BY <1>1, <1>5, <1>7, <1>8

\* every end of one,
LEMMA EndsParams ==
    ASSUME BaseInv, ParamsInv, Ends, UNCHANGED idenVars
    PROVE  ParamsInv'
<1>1. prog # Nobody /\ prog' = Nobody /\ UNCHANGED <<stack, avgCount, wrapper>> /\ NFramesOut' = NFramesOut
  BY EndsAre, WantedFixed DEF idenVars
<1>2. \/ file'.lists = file.lists /\ file'.state = file.state
      \/ file'.state = "broken"
  <2>1. ASSUME group.open, NEW T \in SUBSET Types, file' = Written(T)
        PROVE  file'.lists = file.lists /\ file'.state = file.state
    <3>1. FileOK /\ GroupOK
      BY DEF BaseInv
    <3>2. QED
      BY <1>1, <2>1, <3>1, WrittenIs DEF GroupOK
  <2>2. CASE file' = [NoFile EXCEPT !.state = "broken"]
    BY <2>2 DEF NoFile
  <2>3. QED
    BY <2>1, <2>2, EndsAre
<1>3. ASSUME NEW r \in runs', r.kind = "process", r.code = 0
      PROVE  /\ file'.state = "good" => <<XPOS, r.key>> \in file'.lists
             /\ \A f \in 1 .. NFramesOut : Fits(f)
  <2>1. CASE r \in runs
    BY <1>2, <1>3, <2>1 DEF ParamsInv, HasRecorded
  <2>2. CASE r \notin runs
    <3>1. /\ prog.kind = "process" /\ prog.key = r.key /\ prog.pc = "done" /\ prog.frame - 1 = NFramesOut
      BY <1>3, <2>2, SucceedsWhenDone
    <3>2. <<XPOS, r.key>> \in file.lists /\ \A f \in 1 .. NFramesOut : Fits(f)
      BY <1>1, <3>1 DEF ParamsInv, InOrder
    <3>3. QED
      BY <1>2, <3>2
  <2>3. QED
    BY <2>1, <2>2
<1>4. \A f : Fits(f)' = Fits(f)
  BY <1>1 DEF Fits
<1>5. (\E im \in Images : stack = im.planes /\ avgCount = im.avg)'
  BY <1>1 DEF ParamsInv
<1>6. HasRecorded' => \A f \in 1 .. NFramesOut' : Fits(f)'
  BY <1>1, <1>3, <1>4 DEF HasRecorded
<1>7. QED
  BY <1>1, <1>3, <1>5, <1>6 DEF ParamsInv

\* and so every step does.
LEMMA ParamsInvStep ==
    ASSUME BaseInv, MetaInv, ParamsInv, [HdfNext]_<<idenVars, hdfVars>>
    PROVE  ParamsInv'
<1>1. CASE (Writes \/ Fails) /\ UNCHANGED idenVars
  BY <1>1, WritesParams
<1>2. CASE Ends /\ UNCHANGED idenVars
  BY <1>2, EndsParams
<1>3. ASSUME UNCHANGED <<file, runs, stack, avgCount>>,
             runs = {} \/ wrapper' = wrapper,
             prog' # Nobody => prog'.pc = "open" \/ UNCHANGED <<prog, wrapper>>
      PROVE  ParamsInv'
  <2>1. NFramesOut' = NFramesOut /\ HasRecorded' = HasRecorded
        /\ (wrapper' = wrapper => \A f : Fits(f)' = Fits(f))
    BY <1>3, WantedFixed DEF HasRecorded, Fits
  <2>2. HasRecorded => wrapper' = wrapper
    BY <1>3 DEF HasRecorded
  <2>3. HasRecorded' => \A f \in 1 .. NFramesOut' : Fits(f)'
    BY <2>1, <2>2 DEF ParamsInv
  <2>4. prog' # Nobody /\ prog'.kind = "process" =>
          /\ prog'.pc \in InOrder => \A f \in 1 .. prog'.frame - 1 : Fits(f)'
          /\ prog'.pc \in {"store", "close"} => Fits(prog.frame)'
          /\ prog'.pc = "done" => <<XPOS, prog'.key>> \in file'.lists
    <3>1. CASE UNCHANGED <<prog, wrapper>>
      <4>1. Fits(prog.frame)' = Fits(prog.frame)
        BY <3>1 DEF Fits
      <4>2. QED
        BY <1>3, <2>1, <3>1, <4>1 DEF ParamsInv
    <3>2. CASE prog'.pc = "open"
      BY <3>2 DEF InOrder, Writing
    <3>3. QED
      BY <1>3, <3>1, <3>2
  <2>5. QED
    BY <1>3, <2>3, <2>4 DEF ParamsInv
<1>4. CASE Starts /\ UNCHANGED idenVars
  <2>1. Begins
    BY <1>4, StartsBegin
  <2>2. UNCHANGED <<file, runs, stack, avgCount, wrapper>> /\ prog'.pc = "open"
    BY <2>1 DEF Begins, idenVars
  <2>3. QED
    BY <1>3, <2>2
<1>5. CASE IdenStep /\ UNCHANGED hdfVars
  <2>1. prog = Nobody /\ runs = {} /\ UNCHANGED <<file, prog, runs>>
    BY <1>5, IdenBase
  <2>2. UNCHANGED <<stack, avgCount>>
    BY <1>5 DEF IdenStep, IdenPlane, AvgPlane, AvgFrame
  <2>3. QED
    BY <1>3, <2>1, <2>2
<1>6. CASE UNCHANGED <<idenVars, hdfVars>>
  BY <1>3, <1>6 DEF hdfVars, idenVars
<1>7. QED
  BY <1>1, <1>2, <1>4, <1>5, <1>6 DEF HdfNext

\* What a reader finds as dtime of a frame but the first is the time since the one before.
LEMMA DtimeRead ==
    ASSUME TimesFit, BaseInv, MetaInv, ParamsInv, HasRecorded, file.state = "good", HasTimes,
           NEW f \in 2 .. file.planes
    PROVE  /\ FirstPlane(f) \in 1 .. NPlanes /\ FirstPlane(f - 1) \in 1 .. NPlanes
           /\ GetValue(MdStores[f], "dtime") = stack[FirstPlane(f)].time - stack[FirstPlane(f - 1)].time
<1>1. /\ IdenInv /\ IdenTypeOK /\ file.planes = NFramesOut /\ NFramesOut = Len(wrapper)
      /\ NFramesOut \in Nat /\ NPlanes \in Nat
  BY NFramesType DEF BaseInv, FileOK, RunsOK, IdenDone, IdenInv, HasRecorded, HasTimes
<1>2. f \in 1 .. NFramesOut /\ f - 1 \in 1 .. NFramesOut /\ f # 1
  BY <1>1
<1>3. PICK i, j : i = FirstPlane(f) /\ j = FirstPlane(f - 1)
  OBVIOUS
<1>4. i \in 1 .. NPlanes /\ j \in 1 .. NPlanes
  BY <1>1, <1>2, <1>3, FirstInside
<1>5. stack[i].time \in Int /\ stack[j].time \in Int
  <2>1. stack[i] \in PlaneType /\ stack[j] \in PlaneType
    BY <1>1, <1>4 DEF IdenTypeOK, NPlanes
  <2>2. QED
    BY <2>1 DEF PlaneType
<1>6. PICK g : g = stack[i].time - stack[j].time
  OBVIOUS
<1>7. Gap(f) = g /\ g \in Int
  BY <1>2, <1>3, <1>5, <1>6 DEF Gap
<1>8. PICK A : A = Told(f)
  OBVIOUS
<1>9. Steady(A) /\ MdStores[f] = StoreOf(A)
  <2>1. Steady(A)
    BY <1>1, <1>2, <1>8, ToldSteady
  <2>2. file.attrs[f] = A
    BY <1>2, <1>8 DEF MetaInv, AttrsRight
  <2>3. QED
    BY <2>1, <2>2 DEF MdStores
<1>10. \E a \in A : a.key = "dtime"
  <2>1. PICK s : s = StoreOf(A)
    OBVIOUS
  <2>2. CanGet(s, "dtime", "int")
    BY <1>9, <2>1 DEF HasTimes
  <2>3. PICK n \in 1 .. Len(s) : s[n].key = "dtime"
    BY <2>2 DEF CanGet, ContainsKey, Keys
  <2>4. s[n] \in A
    BY <1>9, <2>1, StoreOfSteady
  <2>5. QED
    BY <2>3, <2>4
<1>11. DtimeAttr(f) \in A
  BY <1>1, <1>2, <1>8, <1>10, DtimeTold
<1>12. GetValue(MdStores[f], "dtime") = IF Averaging THEN g % UintMod ELSE g
  <2>1. PICK v : v = IF Averaging THEN Gap(f) % UintMod ELSE Gap(f)
    OBVIOUS
  <2>2. PICK a : a = Elem("dtime", "int", v)
    OBVIOUS
  <2>3. a \in A /\ a.key = "dtime" /\ a.val = v
    BY <1>11, <2>1, <2>2 DEF DtimeAttr, Elem
  <2>4. GetValue(StoreOf(A), "dtime") = v
    BY <1>9, <2>3, ReadAnswers
  <2>5. QED
    BY <1>7, <1>9, <2>1, <2>4
<1>13. Averaging => g % UintMod = g
  <2>1. SUFFICES ASSUME Averaging PROVE g % UintMod = g
    OBVIOUS
  <2>2. PICK im \in Images : stack = im.planes /\ avgCount = im.avg
    BY DEF ParamsInv
  <2>3. stack[j].time - stack[i].time <= IntMax /\ stack[i].time - stack[j].time <= IntMax
    BY <1>4, <2>1, <2>2 DEF TimesFit, Averaging, NPlanes
  <2>4. IntMax \in Nat \ {0}
    BY IntMaxAssumption
  <2>5. g \in -IntMax .. IntMax
    BY <1>5, <1>6, <2>3, <2>4
  <2>6. Fits(f)
    BY <1>2 DEF ParamsInv
  <2>7. g % UintMod <= IntMax
    BY <1>1, <1>2, <1>7, <2>1, <2>6, DtimeTold
  <2>8. g < 0 => g % (2 * IntMax + 2) = g + (2 * IntMax + 2)
    BY <2>4, <2>5
  <2>9. g >= 0 => g % (2 * IntMax + 2) = g
    BY <2>4, <2>5
  <2>10. QED
    BY <2>4, <2>5, <2>7, <2>8, <2>9 DEF UintMod
<1>14. QED
  BY <1>3, <1>4, <1>6, <1>12, <1>13

\* What is recorded of a run is what it used, the mean time between the frames among it,
\* if times fit an int: see RecordedParams (tracking.cpp:205-251, hash_case.cpp:255-275).
THEOREM RecordedParamsAlways ==
    ASSUME TimesFit
    PROVE  HdfSpec => []RecordedParams
<1>1. HdfInit => BaseInv /\ MetaInv /\ ParamsInv
  <2>1. SUFFICES ASSUME HdfInit PROVE MetaInv /\ ParamsInv
    BY BaseInvInit
  <2>2. prog = Nobody /\ runs = {}
    BY <2>1 DEF HdfInit
  <2>3. \E im \in Images : stack = im.planes /\ avgCount = im.avg
    BY <2>1 DEF HdfInit, IdenInit
  <2>4. QED
    BY <2>1, <2>2, <2>3, MetaInvInit DEF ParamsInv, HasRecorded
<1>2. BaseInv /\ MetaInv /\ ParamsInv /\ [HdfNext]_<<idenVars, hdfVars>> => (BaseInv /\ MetaInv /\ ParamsInv)'
  BY BaseInvStep, MetaInvStep, ParamsInvStep
<1>3. BaseInv /\ MetaInv /\ ParamsInv => RecordedParams
  <2>1. SUFFICES ASSUME BaseInv, MetaInv, ParamsInv, prog = Nobody,
                        NEW k \in Key, Recorded(k), CanRead(IdenPairs(k)), HasTimes
                 PROVE  /\ CanExtract(k)
                        /\ \A given \in {{}, Cuts} : \A c \in Cuts :
                                GetValue(MdStore(given), c) = GetValue(FilterPrams(given), c)
                        /\ LET n == file.planes - 1
                               all == stack[FirstPlane(file.planes)].time - stack[1].time
                           IN  2 * n * GetValue(MdStore({}), "dtime") \in 2 * all - n + 1 .. 2 * all + n
    BY DEF RecordedParams
  <2>2. HasRecorded /\ file.state = "good"
    BY <2>1 DEF Recorded, HasRecorded, CanRead
  <2>3. CanExtract(k)
    BY <2>1, <2>2 DEF CanExtract, Recorded, ParamsInv
  <2>4. PICK p, n : p = file.planes /\ n = p - 1
    OBVIOUS
  <2>5. p \in Nat /\ n \in Nat \ {0}
    <3>1. p \in {0, NFramesOut} /\ NFramesOut \in Nat /\ p > 1
      BY <2>1, <2>4, NFramesType DEF BaseInv, FileOK, IdenInv, HasTimes
    <3>2. QED
      BY <2>4, <3>1
  <2>6. PICK T : T = [f \in 1 .. p |-> stack[FirstPlane(f)].time]
    OBVIOUS
  <2>7. PICK h : h = [f \in 2 .. p |-> GetValue(MdStores[f], "dtime")]
    OBVIOUS
  <2>8. \A f \in 2 .. p : h[f] = T[f] - T[f - 1]
    <3>1. SUFFICES ASSUME NEW f \in 2 .. p PROVE h[f] = T[f] - T[f - 1]
      OBVIOUS
    <3>2. f \in 1 .. p /\ f - 1 \in 1 .. p
      BY <2>5
    <3>3. GetValue(MdStores[f], "dtime") = stack[FirstPlane(f)].time - stack[FirstPlane(f - 1)].time
      BY <2>1, <2>2, <2>4, DtimeRead
    <3>4. QED
      BY <2>6, <2>7, <3>2, <3>3
  <2>9. \A f \in 1 .. p : T[f] \in Int
    <3>1. IdenTypeOK /\ p = NFramesOut
      BY <2>1, <2>4, <2>5 DEF BaseInv, IdenInv, FileOK
    <3>2. ASSUME NEW f \in 1 .. p PROVE T[f] \in Int
      <4>1. FirstPlane(f) \in 1 .. NPlanes
        BY <3>1, FirstInside
      <4>2. stack[FirstPlane(f)] \in PlaneType
        BY <3>1, <4>1 DEF IdenTypeOK, NPlanes
      <4>3. QED
        BY <2>6, <4>2 DEF PlaneType
    <3>3. QED
      BY <3>2
  <2>10. Total(h, 2 .. p) = T[p] - T[1]
    <3>1. p \in Nat \ {0}
      BY <2>4, <2>5
    <3>2. QED
      BY <2>8, <2>9, <3>1, GapsAddUp
  <2>11. PICK s : s = T[p] - T[1]
    OBVIOUS
  <2>12. s \in Int /\ s = stack[FirstPlane(p)].time - stack[1].time
    <3>1. 1 \in 1 .. p /\ p \in 1 .. p
      BY <2>4, <2>5
    <3>2. FirstPlane(1) = 1
      <4>1. IdenTypeOK
        BY <2>1 DEF BaseInv, IdenInv
      <4>2. Averaging => avgCount \in Nat
        BY <4>1 DEF IdenTypeOK
      <4>3. QED
        BY <4>2 DEF FirstPlane
    <3>3. QED
      BY <2>6, <2>9, <2>11, <3>1, <3>2
  <2>13. AvgDtime = (2 * s + n) \div (2 * n)
    BY <2>4, <2>5, <2>7, <2>10, <2>11, AvgDtimeIs
  <2>14. PICK q : q = AvgDtime
    OBVIOUS
  <2>15. 2 * n * q \in 2 * s - n + 1 .. 2 * s + n
    BY <2>5, <2>12, <2>13, <2>14, RoundedWithin
  <2>16. GetValue(MdStore({}), "dtime") = q
    BY <2>14, RecordedAnswers
  <2>17. QED
    BY <2>3, <2>4, <2>12, <2>15, <2>16, RecordedAnswers
<1>4. QED
  BY <1>1, <1>2, <1>3, PTL DEF HdfSpec

=============================================================================
