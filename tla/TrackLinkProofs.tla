-------------------------- MODULE TrackLinkProofs --------------------------
(* Proofs about module Tracks, about the linker and about the programs that   *)
(* read its tracks back and file results (StatPrograms).  The inductive       *)
(* invariant of Tracks is kept by every operation; the lemmas of the single   *)
(* operations do not mention Next, so the proofs about the linker and about   *)
(* Track_shelf::init cite them too.                                           *)
(*                                                                            *)
(* The linker works on the tracks through the operations of module Tracks     *)
(* only, so what is to be shown first is that each call it makes is a legal   *)
(* one (a particle without a track, behind the last one of its track): that   *)
(* needs to be known of the lists of candidates, from the moment they are     *)
(* filled to the moment the last of them is freed.                            *)
(*                                                                            *)
(* The programs are shown to link every track that is in the file, to give    *)
(* back what was added to an input wrapper, and to leave the results file the *)
(* richer for what they file and note in it and never the poorer.             *)
EXTENDS TrackLink, StatPrograms, SumTheorems, SequenceTheorems

TrackInv == TypeOK /\ ChainInv /\ CountAgrees

-----------------------------------------------------------------------------
(* Walking a chain                                                            *)

\* A walk meets the particle it starts from.
LEMMA ChainContains == \A p \in Particle : p \in Chain(p)
BY DEF Chain

\* A walk from a particle without next_ meets that particle only.
LEMMA ChainOfLast ==
    ASSUME NEW p \in Particle, next[p] = NULL
    PROVE  Chain(p) = {p} /\ ChainEnd(p) = p
<1>1. \A q \in Chain(p) : q \in {p}
  <2>1. {p} \in SUBSET Particle /\ p \in {p} /\ \A r \in {p} : next[r] # NULL => next[r] \in {p}
    OBVIOUS
  <2>2. QED BY <2>1 DEF Chain
<1>2. Chain(p) = {p}
  BY <1>1, ChainContains
<1>3. QED
  BY <1>2 DEF ChainEnd

\* A walk from a particle of a track meets the particles of the track from its
\* frame on, and no other.
LEMMA ChainIsTail ==
    ASSUME TypeOK, ChainInv, NEW p \in Particle, track[p] # NULL
    PROVE  Chain(p) = {q \in Particle : track[q] = track[p] /\ Frame[p] <= Frame[q]}
<1> DEFINE T == {q \in Particle : track[q] = track[p] /\ Frame[p] <= Frame[q]}
<1> USE ParticleAssumption, NullAssumption
<1>1. T \in SUBSET Particle /\ p \in T
  OBVIOUS
<1>2. ASSUME NEW r \in T, next[r] # NULL
      PROVE  next[r] \in T
  <2>1. next[r] \in Particle /\ track[next[r]] = track[r] /\ Frame[next[r]] = Frame[r] + 1
    BY <1>2 DEF TypeOK, ParticleOrNull, ChainInv, OneTrackAlongChain
  <2>2. QED BY <2>1
<1>3. Chain(p) \subseteq T
  BY <1>1, <1>2 DEF Chain
<1>4. ASSUME NEW S \in SUBSET Particle, p \in S,
             \A r \in S : next[r] # NULL => next[r] \in S
      PROVE  T \subseteq S
  <2> DEFINE B == {k \in Nat : \E q \in T \ S : Frame[q] = k}
  <2>1. SUFFICES ASSUME B # {} PROVE FALSE
    OBVIOUS
  <2>2. PICK m \in B : \A n \in B : m <= n
    BY <2>1, LeastNatural
  <2>3. PICK q \in T \ S : Frame[q] = m
    OBVIOUS
  <2>4. Frame[p] < Frame[q]
    BY <1>4, <2>3 DEF ChainInv, OnePerFrame
  <2>5. q # first[track[p]]
    BY <2>4 DEF ChainInv, Span, NoDanglingTrack, EndsAgree, TypeOK
  <2>6. prev[q] \in Particle /\ next[prev[q]] = q
    BY <2>5 DEF TypeOK, ParticleOrNull, ChainInv, EndsAgree, NoDanglingTrack, Reciprocal
  <2>7. track[prev[q]] = track[p] /\ Frame[prev[q]] + 1 = Frame[q]
    BY <2>6 DEF ChainInv, OneTrackAlongChain
  <2>8. prev[q] \in T
    BY <2>4, <2>6, <2>7
  <2>9. prev[q] \in S
    BY <2>2, <2>3, <2>6, <2>7, <2>8
  <2>10. QED
    BY <1>4, <2>3, <2>6, <2>9
<1>5. T \subseteq Chain(p)
  BY <1>4 DEF Chain
<1>6. QED
  BY <1>3, <1>5

\* The walk along a whole track ends at t_last_.
LEMMA ChainEndIsLast ==
    ASSUME TypeOK, ChainInv, NEW p \in Particle, track[p] # NULL
    PROVE  ChainEnd(p) = last[track[p]]
<1>1. \A q \in Particle : q \in Chain(p) <=> track[q] = track[p] /\ Frame[p] <= Frame[q]
  BY ChainIsTail
<1>2. track[p] \in Live
  BY DEF ChainInv, NoDanglingTrack
<1>3. last[track[p]] \in Chain(p) /\ next[last[track[p]]] = NULL
  BY <1>1, <1>2 DEF ChainInv, EndsAgree, Span, TypeOK, ParticleOrNull
<1>4. \A q \in Chain(p) : next[q] = NULL => q = last[track[p]]
  BY <1>1, <1>2 DEF ChainInv, EndsAgree, Chain
<1>5. QED
  BY <1>3, <1>4 DEF ChainEnd

-----------------------------------------------------------------------------
(* The operations                                                             *)

\* A particle of no track is the first and last of its own chain.
LEMMA FreeParticle ==
    ASSUME TypeOK, ChainInv, NEW p \in Particle, Free(p)
    PROVE  /\ next[p] = NULL /\ prev[p] = NULL
           /\ Chain(p) = {p} /\ ChainEnd(p) = p /\ Cardinality(Chain(p)) = 1
           /\ \A q \in Particle : next[q] # p /\ prev[q] # p
           /\ \A t \in Live : first[t] # p /\ last[t] # p
<1> USE NullAssumption
<1>1. next[p] = NULL /\ prev[p] = NULL
  BY DEF Free, ChainInv, OneTrackAlongChain
<1>2. Chain(p) = {p} /\ ChainEnd(p) = p
  BY <1>1, ChainOfLast
<1>3. Cardinality(Chain(p)) = 1
  BY <1>2, FS_Singleton
<1>4. \A q \in Particle : next[q] # p /\ prev[q] # p
  BY <1>1 DEF ChainInv, Reciprocal
<1>5. \A t \in Live : first[t] # p /\ last[t] # p
  BY DEF Free, ChainInv, EndsAgree, Live, TypeOK
<1>6. QED
  BY <1>1, <1>2, <1>3, <1>4, <1>5

\* There are finitely many boxes, so track_count_ is a number.
LEMMA ShelfIsFinite ==
    ASSUME TypeOK
    PROVE  IsFiniteSet(Box) /\ IsFiniteSet(shelf)
<1>1. IsFiniteSet(Box)
  <2>1. 0 \in Int /\ MaxTracks - 1 \in Int
    BY MaxTracksAssumption
  <2>2. QED
    BY <2>1, FS_Interval DEF Box
<1>2. QED
  BY <1>1, FS_Subset DEF TypeOK

\* Track_shelf::add_new_track of a particle of no track keeps the invariant.
LEMMA AddNewTrackKeeps ==
    ASSUME TrackInv, NEW p \in Particle, Free(p), AddNewTrack(p)
    PROVE  TrackInv'
<1> USE NullAssumption, MaxTracksAssumption DEF TrackInv
<1>1. /\ next[p] = NULL /\ prev[p] = NULL
      /\ Chain(p) = {p} /\ ChainEnd(p) = p /\ Cardinality(Chain(p)) = 1
      /\ \A q \in Particle : next[q] # p /\ prev[q] # p
      /\ \A t \in Live : first[t] # p /\ last[t] # p
  BY FreeParticle
<1>2. running \in Box /\ running \notin Live
  BY DEF AddNewTrack, BuildBox, TypeOK, Box, ChainInv, BoxesBuilt
<1>3. /\ track' = [track EXCEPT ![p] = running]
      /\ first' = [first EXCEPT ![running] = p]
      /\ last' = [last EXCEPT ![running] = p]
      /\ length' = [length EXCEPT ![running] = 1]
      /\ id' = [id EXCEPT ![running] = running]
      /\ running' = running + 1
      /\ shelf' = shelf \cup {running}
      /\ trackCount' = trackCount + 1
      /\ UNCHANGED <<next, prev, parts, thrown>>
  BY <1>1 DEF AddNewTrack, BuildBox, TypeOK
<1>4. Live' = Live \cup {running}
  BY <1>3 DEF Live
<1>5. \A q \in Particle : track[q] # running
  BY <1>2 DEF ChainInv, NoDanglingTrack, TypeOK
<1>6. TypeOK'
  BY <1>2, <1>3 DEF TypeOK, ParticleOrNull, Box, AddNewTrack, BuildBox
<1>7. Reciprocal'
  BY <1>3 DEF ChainInv, Reciprocal
<1>8. OneTrackAlongChain'
  BY <1>1, <1>2, <1>3 DEF ChainInv, OneTrackAlongChain, TypeOK, ParticleOrNull
<1>9. NoDanglingTrack'
  BY <1>3, <1>4 DEF ChainInv, NoDanglingTrack, TypeOK
<1>10. EndsAgree'
  <2> SUFFICES ASSUME NEW t \in Live'
               PROVE  /\ first'[t] = NULL <=> last'[t] = NULL
                      /\ first'[t] # NULL => track'[first'[t]] = t /\ track'[last'[t]] = t
                      /\ \A q \in Particle :
                            track'[q] = t => /\ first'[t] # NULL
                                             /\ prev'[q] = NULL <=> q = first'[t]
                                             /\ next'[q] = NULL <=> q = last'[t]
    BY DEF EndsAgree
  <2>1. CASE t = running
    BY <2>1, <1>1, <1>2, <1>3, <1>5 DEF TypeOK
  <2>2. CASE t # running
    <3>1. t \in Live /\ t \in Box /\ first'[t] = first[t] /\ last'[t] = last[t]
      BY <2>2, <1>3, <1>4 DEF Live, TypeOK
    <3>2. \A q \in Particle : track'[q] = t => q # p /\ track[q] = t
      BY <2>2, <1>3 DEF TypeOK
    <3>3. first[t] # p /\ last[t] # p
      BY <3>1, <1>1
    <3>4. QED
      BY <3>1, <3>2, <3>3, <1>3 DEF ChainInv, EndsAgree, TypeOK, ParticleOrNull
  <2>3. QED BY <2>1, <2>2
<1>11. OnePerFrame'
  BY <1>2, <1>3, <1>5 DEF ChainInv, OnePerFrame, TypeOK
<1>12. Span'
  <2> SUFFICES ASSUME NEW t \in Live'
               PROVE  IF first'[t] = NULL
                      THEN length'[t] = 0
                      ELSE /\ Frame[last'[t]] + 1 = Frame[first'[t]] + length'[t]
                           /\ \A q \in Particle :
                                 track'[q] = t => /\ Frame[first'[t]] <= Frame[q]
                                                  /\ Frame[q] <= Frame[last'[t]]
    BY DEF Span
  <2>1. CASE t = running
    <3>1. first'[t] = p /\ last'[t] = p /\ length'[t] = 1
      BY <2>1, <1>2, <1>3 DEF TypeOK
    <3>2. \A q \in Particle : track'[q] = t => q = p
      BY <2>1, <1>3, <1>5 DEF TypeOK
    <3>3. Frame[p] \in Nat /\ p # NULL
      BY ParticleAssumption
    <3>4. QED
      BY <3>1, <3>2, <3>3
  <2>2. CASE t # running
    BY <2>2, <1>1, <1>3, <1>4 DEF ChainInv, Span, Live, TypeOK
  <2>3. QED BY <2>1, <2>2
<1>13. BoxesBuilt'
  BY <1>2, <1>3, <1>4 DEF ChainInv, BoxesBuilt, TypeOK, Box, Live
<1>14. NeverNukes'
  BY <1>3 DEF ChainInv, NeverNukes
<1>15. CountAgrees'
  <2>1. IsFiniteSet(shelf)
    BY ShelfIsFinite
  <2>2. running \notin shelf
    BY <1>2 DEF Live
  <2>3. QED
    BY <2>1, <2>2, <1>3, FS_AddElement DEF CountAgrees
<1>16. QED
  BY <1>6, <1>7, <1>8, <1>9, <1>10, <1>11, <1>12, <1>13, <1>14, <1>15 DEF ChainInv

\* Track_box::push_back of a particle of no track on a box of the shelf that
\* has none yet, as Track_shelf::init does it.
LEMMA PushFirstKeeps ==
    ASSUME TrackInv, NEW t \in shelf, NEW p \in Particle, Free(p), PushFirst(t, p)
    PROVE  TrackInv'
<1> USE NullAssumption, MaxTracksAssumption, ParticleAssumption DEF TrackInv
<1>1. /\ next[p] = NULL /\ prev[p] = NULL
      /\ Chain(p) = {p} /\ ChainEnd(p) = p /\ Cardinality(Chain(p)) = 1
      /\ \A q \in Particle : next[q] # p /\ prev[q] # p
      /\ \A u \in Live : first[u] # p /\ last[u] # p
  BY FreeParticle
<1>2. t \in Live /\ t \in Box
  BY DEF Live, TypeOK
<1>3. /\ track' = [track EXCEPT ![p] = t]
      /\ first' = [first EXCEPT ![t] = p]
      /\ last' = [last EXCEPT ![t] = p]
      /\ length' = [length EXCEPT ![t] = 1]
      /\ UNCHANGED <<next, prev, id, running, shelf, trackCount, parts, thrown>>
  <2>1. length' = [length EXCEPT ![t] = 0 + Cardinality(Chain(p))]
    BY DEF PushFirst, JoinTail
  <2>2. 0 + Cardinality(Chain(p)) = 1
    BY <1>1
  <2>3. track' = [track EXCEPT ![p] = t]
    BY <1>1 DEF PushFirst, JoinTail, TypeOK
  <2>4. QED
    BY <2>1, <2>2, <2>3, <1>1 DEF PushFirst, JoinTail
<1>4. Live' = Live
  BY <1>3 DEF Live
<1>5. first[t] = NULL /\ \A q \in Particle : track[q] # t
  BY <1>2 DEF PushFirst, ChainInv, EndsAgree
<1>6. TypeOK'
  BY <1>2, <1>3 DEF TypeOK, ParticleOrNull
<1>7. Reciprocal'
  BY <1>3 DEF ChainInv, Reciprocal
<1>8. OneTrackAlongChain'
  BY <1>1, <1>2, <1>3 DEF ChainInv, OneTrackAlongChain, TypeOK, ParticleOrNull
<1>9. NoDanglingTrack'
  BY <1>2, <1>3, <1>4 DEF ChainInv, NoDanglingTrack, TypeOK
<1>10. EndsAgree'
  <2> SUFFICES ASSUME NEW u \in Live'
               PROVE  /\ first'[u] = NULL <=> last'[u] = NULL
                      /\ first'[u] # NULL => track'[first'[u]] = u /\ track'[last'[u]] = u
                      /\ \A q \in Particle :
                            track'[q] = u => /\ first'[u] # NULL
                                             /\ prev'[q] = NULL <=> q = first'[u]
                                             /\ next'[q] = NULL <=> q = last'[u]
    BY DEF EndsAgree
  <2>1. CASE u = t
    BY <2>1, <1>1, <1>2, <1>3, <1>5 DEF TypeOK
  <2>2. CASE u # t
    <3>1. u \in Live /\ u \in Box /\ first'[u] = first[u] /\ last'[u] = last[u]
      BY <2>2, <1>3, <1>4 DEF Live, TypeOK
    <3>2. \A q \in Particle : track'[q] = u => q # p /\ track[q] = u
      BY <2>2, <1>3 DEF TypeOK
    <3>3. first[u] # p /\ last[u] # p
      BY <3>1, <1>1
    <3>4. QED
      BY <3>1, <3>2, <3>3, <1>3 DEF ChainInv, EndsAgree, TypeOK, ParticleOrNull
  <2>3. QED BY <2>1, <2>2
<1>11. OnePerFrame'
  BY <1>2, <1>3, <1>5 DEF ChainInv, OnePerFrame, TypeOK
<1>12. Span'
  <2> SUFFICES ASSUME NEW u \in Live'
               PROVE  IF first'[u] = NULL
                      THEN length'[u] = 0
                      ELSE /\ Frame[last'[u]] + 1 = Frame[first'[u]] + length'[u]
                           /\ \A q \in Particle :
                                 track'[q] = u => /\ Frame[first'[u]] <= Frame[q]
                                                  /\ Frame[q] <= Frame[last'[u]]
    BY DEF Span
  <2>1. CASE u = t
    <3>1. first'[u] = p /\ last'[u] = p /\ length'[u] = 1
      BY <2>1, <1>2, <1>3 DEF TypeOK
    <3>2. \A q \in Particle : track'[q] = u => q = p
      BY <2>1, <1>3, <1>5 DEF TypeOK
    <3>3. QED
      BY <3>1, <3>2
  <2>2. CASE u # t
    BY <2>2, <1>1, <1>3, <1>4 DEF ChainInv, Span, Live, TypeOK
  <2>3. QED BY <2>1, <2>2
<1>13. BoxesBuilt'
  <2>1. t < running
    BY <1>2 DEF ChainInv, BoxesBuilt
  <2>2. QED
    BY <2>1, <1>2, <1>3, <1>4 DEF ChainInv, BoxesBuilt, TypeOK, Box, Live
<1>14. NeverNukes' /\ CountAgrees'
  BY <1>3 DEF ChainInv, NeverNukes, CountAgrees
<1>15. QED
  BY <1>6, <1>7, <1>8, <1>9, <1>10, <1>11, <1>12, <1>13, <1>14 DEF ChainInv

\* Track_box::push_back of a particle of no track, found in the frame after
\* that of t_last_: set_next and set_prev find null pointers, and the particle
\* becomes the new end.
LEMMA PushNextKeeps ==
    ASSUME TrackInv, NEW t \in shelf, NEW p \in Particle, Free(p), Follows(t, p),
           PushNext(t, p)
    PROVE  TrackInv'
<1> USE NullAssumption, MaxTracksAssumption, ParticleAssumption DEF TrackInv
<1> DEFINE l == last[t]
<1>1. /\ next[p] = NULL /\ prev[p] = NULL
      /\ Chain(p) = {p} /\ ChainEnd(p) = p /\ Cardinality(Chain(p)) = 1
      /\ \A q \in Particle : next[q] # p /\ prev[q] # p
      /\ \A u \in Live : first[u] # p /\ last[u] # p
  BY FreeParticle
<1>2. t \in Live /\ t \in Box
  BY DEF Live, TypeOK
<1>3. /\ l \in Particle /\ first[t] \in Particle /\ first[t] # NULL
      /\ track[l] = t /\ next[l] = NULL /\ l # p /\ Frame[p] = Frame[l] + 1
  BY <1>1, <1>2 DEF PushNext, Follows, TypeOK, ParticleOrNull, ChainInv, EndsAgree
<1>4. /\ next' = [next EXCEPT ![l] = p]
      /\ prev' = [prev EXCEPT ![p] = l]
      /\ track' = [track EXCEPT ![p] = t]
      /\ last' = [last EXCEPT ![t] = p]
      /\ length' = [length EXCEPT ![t] = length[t] + 1]
      /\ thrown' = FALSE
      /\ UNCHANGED <<first, id, running, shelf, trackCount, parts>>
  <2>1. thrown' = FALSE
    BY <1>1, <1>3 DEF PushNext, ChainInv, NeverNukes
  <2>2. QED
    BY <2>1, <1>1, <1>2, <1>3 DEF PushNext, JoinTail, TypeOK
<1>5. Live' = Live
  BY <1>4 DEF Live
<1>6. TypeOK'
  <2>1. next' \in [Particle -> ParticleOrNull] /\ prev' \in [Particle -> ParticleOrNull]
    BY <1>3, <1>4 DEF TypeOK, ParticleOrNull
  <2>2. track' \in [Particle -> Box \cup {NULL}] /\ last' \in [Box -> ParticleOrNull]
    BY <1>2, <1>4 DEF TypeOK, ParticleOrNull
  <2>3. length' \in [Box -> Nat]
    BY <1>2, <1>4 DEF TypeOK
  <2>4. QED
    BY <2>1, <2>2, <2>3, <1>4 DEF TypeOK
<1>7. Reciprocal'
  <2> SUFFICES ASSUME NEW q \in Particle, NEW r \in Particle
               PROVE  next'[q] = r <=> prev'[r] = q
    BY DEF Reciprocal
  <2>1. next[q] = r <=> prev[r] = q
    BY DEF ChainInv, Reciprocal
  <2>2. prev[r] # l
    BY <1>3 DEF ChainInv, Reciprocal
  <2>3. QED
    BY <2>1, <2>2, <1>1, <1>3, <1>4 DEF TypeOK
<1>8. OneTrackAlongChain'
  <2> SUFFICES ASSUME NEW q \in Particle
               PROVE  /\ track'[q] = NULL => next'[q] = NULL /\ prev'[q] = NULL
                      /\ next'[q] # NULL => /\ track'[next'[q]] = track'[q]
                                            /\ Frame[next'[q]] = Frame[q] + 1
    BY DEF OneTrackAlongChain
  <2>1. CASE q = l
    BY <2>1, <1>2, <1>3, <1>4 DEF TypeOK
  <2>2. CASE q = p
    BY <2>2, <1>1, <1>2, <1>3, <1>4 DEF TypeOK
  <2>3. CASE q # l /\ q # p
    <3>1. next'[q] = next[q] /\ prev'[q] = prev[q] /\ track'[q] = track[q] /\ next[q] # p
      BY <2>3, <1>1, <1>4 DEF TypeOK
    <3>2. next[q] # NULL => next[q] \in Particle /\ track'[next[q]] = track[next[q]]
      BY <3>1, <1>4 DEF TypeOK, ParticleOrNull
    <3>3. QED
      BY <3>1, <3>2 DEF ChainInv, OneTrackAlongChain
  <2>4. QED BY <2>1, <2>2, <2>3
<1>9. NoDanglingTrack'
  BY <1>2, <1>4, <1>5 DEF ChainInv, NoDanglingTrack, TypeOK
<1>10. EndsAgree'
  <2> SUFFICES ASSUME NEW u \in Live'
               PROVE  /\ first'[u] = NULL <=> last'[u] = NULL
                      /\ first'[u] # NULL => track'[first'[u]] = u /\ track'[last'[u]] = u
                      /\ \A q \in Particle :
                            track'[q] = u => /\ first'[u] # NULL
                                             /\ prev'[q] = NULL <=> q = first'[u]
                                             /\ next'[q] = NULL <=> q = last'[u]
    BY DEF EndsAgree
  <2>1. u \in Live /\ u \in Box /\ first'[u] = first[u]
    BY <1>4, <1>5 DEF Live, TypeOK
  <2>2. CASE u = t
    <3>1. last'[u] = p /\ first[t] # p /\ track[first[t]] = t
      BY <2>2, <1>1, <1>2, <1>3, <1>4 DEF TypeOK, ChainInv, EndsAgree
    <3>2. ASSUME NEW q \in Particle, track'[q] = t
          PROVE  /\ prev'[q] = NULL <=> q = first[t]
                 /\ next'[q] = NULL <=> q = p
      <4>1. CASE q = p
        BY <4>1, <3>1, <1>1, <1>3, <1>4 DEF TypeOK
      <4>2. CASE q # p
        <5>1. track[q] = t /\ prev'[q] = prev[q]
          BY <4>2, <3>2, <1>4 DEF TypeOK
        <5>2. next'[q] = IF q = l THEN p ELSE next[q]
          BY <1>4 DEF TypeOK
        <5>3. (prev[q] = NULL <=> q = first[t]) /\ (next[q] = NULL <=> q = l)
          BY <5>1, <1>2 DEF ChainInv, EndsAgree
        <5>4. QED
          BY <4>2, <5>1, <5>2, <5>3
      <4>3. QED BY <4>1, <4>2
    <3>3. track'[p] = t /\ track'[first[t]] = t
      BY <3>1, <1>3, <1>4 DEF TypeOK
    <3>4. QED
      BY <2>1, <2>2, <3>1, <3>2, <3>3, <1>3
  <2>3. CASE u # t
    <3>1. last'[u] = last[u]
      BY <2>3, <1>4 DEF TypeOK
    <3>2. \A q \in Particle : track'[q] = u =>
             track[q] = u /\ next'[q] = next[q] /\ prev'[q] = prev[q]
      BY <2>3, <1>3, <1>4 DEF TypeOK
    <3>3. first[u] # NULL => track'[first[u]] = u /\ track'[last[u]] = u
      BY <2>1, <1>1, <1>4 DEF ChainInv, EndsAgree, TypeOK, ParticleOrNull
    <3>4. QED
      BY <2>1, <3>1, <3>2, <3>3 DEF ChainInv, EndsAgree
  <2>4. QED BY <2>2, <2>3
<1>11. \A q \in Particle : track[q] = t => Frame[first[t]] <= Frame[q] /\ Frame[q] < Frame[p]
  BY <1>2, <1>3 DEF ChainInv, Span
<1>12. OnePerFrame'
  BY <1>2, <1>4, <1>11 DEF ChainInv, OnePerFrame, TypeOK
<1>13. Span'
  <2> SUFFICES ASSUME NEW u \in Live'
               PROVE  IF first'[u] = NULL
                      THEN length'[u] = 0
                      ELSE /\ Frame[last'[u]] + 1 = Frame[first'[u]] + length'[u]
                           /\ \A q \in Particle :
                                 track'[q] = u => /\ Frame[first'[u]] <= Frame[q]
                                                  /\ Frame[q] <= Frame[last'[u]]
    BY DEF Span
  <2>1. u \in Live /\ u \in Box /\ first'[u] = first[u]
    BY <1>4, <1>5 DEF Live, TypeOK
  <2>2. CASE u = t
    <3>1. last'[u] = p /\ length'[u] = length[t] + 1
      BY <2>2, <1>2, <1>4 DEF TypeOK
    <3>2. Frame[l] + 1 = Frame[first[t]] + length[t]
      BY <1>2, <1>3 DEF ChainInv, Span
    <3>3. Frame[p] + 1 = Frame[first[t]] + (length[t] + 1)
      BY <3>2, <1>2, <1>3 DEF TypeOK
    <3>4. Frame[first[t]] <= Frame[l]
      BY <1>2, <1>3 DEF ChainInv, Span
    <3>5. \A q \in Particle : track'[q] = u => Frame[first[t]] <= Frame[q] /\ Frame[q] <= Frame[p]
      <4>1. \A q \in Particle : track'[q] = u => q = p \/ track[q] = t
        BY <2>2, <1>4 DEF TypeOK
      <4>2. QED
        BY <4>1, <3>4, <1>3, <1>11
    <3>6. QED
      BY <2>1, <2>2, <3>1, <3>3, <3>5, <1>3
  <2>3. CASE u # t
    <3>1. last'[u] = last[u] /\ length'[u] = length[u]
      BY <2>3, <1>4 DEF TypeOK
    <3>2. \A q \in Particle : track'[q] = u => track[q] = u
      BY <2>3, <1>4 DEF TypeOK
    <3>3. QED
      BY <2>1, <3>1, <3>2 DEF ChainInv, Span
  <2>4. QED BY <2>2, <2>3
<1>14. BoxesBuilt'
  <2>1. t < running
    BY <1>2 DEF ChainInv, BoxesBuilt
  <2>2. QED
    BY <2>1, <1>2, <1>4, <1>5 DEF ChainInv, BoxesBuilt, TypeOK, Box, Live
<1>15. NeverNukes' /\ CountAgrees'
  BY <1>4 DEF ChainInv, NeverNukes, CountAgrees
<1>16. QED
  BY <1>6, <1>7, <1>8, <1>9, <1>10, <1>12, <1>13, <1>14, <1>15 DEF ChainInv

\* Track_shelf::add_track of a new box without particles keeps the invariant.
LEMMA AddEmptyTrackKeeps ==
    ASSUME TrackInv, AddEmptyTrack
    PROVE  TrackInv'
<1> USE MaxTracksAssumption DEF TrackInv
<1>1. running \in Box /\ running \notin Live
  BY DEF AddEmptyTrack, TypeOK, Box, ChainInv, BoxesBuilt
<1>2. first[running] = NULL /\ last[running] = NULL /\ length[running] = 0
  BY <1>1 DEF ChainInv, BoxesBuilt, Box
<1>3. \A q \in Particle : track[q] # running
  BY <1>1, NullAssumption DEF ChainInv, NoDanglingTrack, TypeOK
<1>4. Live' = Live \cup {running}
  BY DEF AddEmptyTrack, Live
<1>5. TypeOK'
  BY <1>1 DEF AddEmptyTrack, TypeOK, Box
<1>6. Reciprocal' /\ OneTrackAlongChain' /\ OnePerFrame' /\ NeverNukes'
  BY DEF AddEmptyTrack, ChainInv, Reciprocal, OneTrackAlongChain, OnePerFrame, NeverNukes
<1>7. NoDanglingTrack'
  BY <1>4 DEF AddEmptyTrack, ChainInv, NoDanglingTrack
<1>8. EndsAgree'
  BY <1>2, <1>3, <1>4 DEF AddEmptyTrack, ChainInv, EndsAgree
<1>9. Span'
  BY <1>2, <1>4 DEF AddEmptyTrack, ChainInv, Span
<1>10. BoxesBuilt'
  BY <1>1, <1>4 DEF AddEmptyTrack, ChainInv, BoxesBuilt, TypeOK, Box, Live
<1>11. CountAgrees'
  BY <1>1, ShelfIsFinite, FS_AddElement DEF AddEmptyTrack, CountAgrees, Live
<1>12. QED
  BY <1>5, <1>6, <1>7, <1>8, <1>9, <1>10, <1>11 DEF ChainInv

\* Track_shelf::renumber touches the ids only.
LEMMA RenumberKeeps ==
    ASSUME TrackInv, Renumber
    PROVE  TrackInv'
<1> USE DEF TrackInv
<1>1. Live' = Live
  BY DEF Renumber, Live
<1>2. id' \in [Box -> Nat]
  <2>1. \A t \in Box : Cardinality({u \in shelf : u < t}) \in Nat
    <3> TAKE t \in Box
    <3>1. {u \in shelf : u < t} \in SUBSET shelf
      OBVIOUS
    <3>2. IsFiniteSet({u \in shelf : u < t})
      BY <3>1, ShelfIsFinite, FS_Subset
    <3>3. QED
      BY <3>2, FS_CardinalityType
  <2>2. QED
    BY <2>1 DEF Renumber, TypeOK
<1>3. TypeOK'
  BY <1>2 DEF Renumber, TypeOK
<1>4. ChainInv'
  BY <1>1 DEF Renumber, ChainInv, Reciprocal, OneTrackAlongChain, NoDanglingTrack,
     EndsAgree, OnePerFrame, Span, BoxesBuilt, NeverNukes
<1>5. QED
  BY <1>3, <1>4 DEF Renumber, CountAgrees

\* What ~Track_box clears is the box's particles, all of them and no other.
LEMMA ReleasedIsMembers ==
    ASSUME TypeOK, ChainInv, NEW D \in SUBSET Live
    PROVE  Released(D) = {p \in Particle : track[p] \in D}
<1>1. ASSUME NEW t \in D, first[t] # NULL
      PROVE  \A p \in Particle : p \in Chain(first[t]) <=> track[p] = t
  <2>1. first[t] \in Particle /\ track[first[t]] = t /\ t # NULL
    BY <1>1, NullAssumption DEF TypeOK, ParticleOrNull, ChainInv, EndsAgree, Live
  <2>2. \A p \in Particle : track[p] = t => Frame[first[t]] <= Frame[p]
    BY <1>1 DEF ChainInv, Span
  <2>3. QED
    BY <2>1, <2>2, ChainIsTail
<1>2. \A p \in Particle : track[p] \in D => first[track[p]] # NULL
  BY DEF ChainInv, EndsAgree
<1>3. \A t \in D : first[t] # NULL => Chain(first[t]) \subseteq Particle
  BY DEF Chain
<1>4. QED
  BY <1>1, <1>2, <1>3 DEF Released

\* Deleting boxes of the shelf frees their particles and leaves every other
\* chain as it was.
LEMMA DeleteBoxesKeeps ==
    ASSUME TrackInv, NEW D \in SUBSET shelf, DeleteBoxes(D)
    PROVE  TrackInv'
<1> USE NullAssumption, ParticleAssumption DEF TrackInv
<1> DEFINE R == {p \in Particle : track[p] \in D}
<1>1. /\ next' = [p \in Particle |-> IF p \in R THEN NULL ELSE next[p]]
      /\ prev' = [p \in Particle |-> IF p \in R THEN NULL ELSE prev[p]]
      /\ track' = [p \in Particle |-> IF p \in R THEN NULL ELSE track[p]]
      /\ shelf' = shelf \ D
      /\ trackCount' = trackCount - Cardinality(D)
      /\ UNCHANGED <<first, last, length, id, running, parts, thrown>>
  BY ReleasedIsMembers DEF DeleteBoxes, Live
<1>2. Live' = Live \ D
  BY <1>1 DEF Live, ChainInv, BoxesBuilt
<1>3. CountAgrees' /\ trackCount' \in Nat
  <2>1. IsFiniteSet(shelf) /\ shelf \cap D = D
    BY ShelfIsFinite
  <2>2. Cardinality(shelf \ D) = Cardinality(shelf) - Cardinality(D)
    BY <2>1, FS_Difference
  <2>3. Cardinality(shelf \ D) \in Nat
    BY <2>1, FS_Difference, FS_CardinalityType
  <2>4. QED
    BY <2>2, <2>3, <1>1 DEF CountAgrees
<1>4. TypeOK'
  <2>1. /\ next' \in [Particle -> ParticleOrNull] /\ prev' \in [Particle -> ParticleOrNull]
        /\ track' \in [Particle -> Box \cup {NULL}]
    BY <1>1 DEF TypeOK, ParticleOrNull
  <2>2. QED
    BY <2>1, <1>1, <1>3 DEF TypeOK
<1>5. \A p \in Particle : /\ next[p] # NULL => next[p] \in Particle /\ (next[p] \in R <=> p \in R)
                          /\ prev[p] # NULL => prev[p] \in Particle /\ (prev[p] \in R <=> p \in R)
  <2>1. \A p \in Particle : next[p] # NULL => next[p] \in Particle /\ (next[p] \in R <=> p \in R)
    BY DEF TypeOK, ParticleOrNull, ChainInv, OneTrackAlongChain
  <2>2. \A p \in Particle : prev[p] # NULL => prev[p] \in Particle /\ next[prev[p]] = p
    BY DEF TypeOK, ParticleOrNull, ChainInv, Reciprocal
  <2>3. QED
    BY <2>1, <2>2
<1>6. Reciprocal'
  BY <1>1, <1>5 DEF ChainInv, Reciprocal
<1>7. OneTrackAlongChain'
  BY <1>1, <1>5 DEF ChainInv, OneTrackAlongChain
<1>8. NoDanglingTrack'
  BY <1>1, <1>2 DEF ChainInv, NoDanglingTrack
<1>9. EndsAgree'
  <2> SUFFICES ASSUME NEW t \in Live \ D
               PROVE  /\ first[t] = NULL <=> last[t] = NULL
                      /\ first[t] # NULL => track'[first[t]] = t /\ track'[last[t]] = t
                      /\ \A q \in Particle :
                            track'[q] = t => /\ first[t] # NULL
                                             /\ prev'[q] = NULL <=> q = first[t]
                                             /\ next'[q] = NULL <=> q = last[t]
    BY <1>1, <1>2 DEF EndsAgree
  <2>1. t # NULL
    BY DEF Live, TypeOK
  <2>2. \A q \in Particle : track'[q] = t =>
           track[q] = t /\ next'[q] = next[q] /\ prev'[q] = prev[q]
    BY <2>1, <1>1
  <2>3. first[t] # NULL => track'[first[t]] = t /\ track'[last[t]] = t
    BY <1>1 DEF ChainInv, EndsAgree, TypeOK, ParticleOrNull, Live
  <2>4. QED
    BY <2>2, <2>3 DEF ChainInv, EndsAgree
<1>10. OnePerFrame'
  BY <1>1 DEF ChainInv, OnePerFrame
<1>11. Span'
  <2>1. \A t \in Live \ D, q \in Particle : track'[q] = t => track[q] = t
    BY <1>1 DEF Live, TypeOK
  <2>2. QED
    BY <2>1, <1>1, <1>2 DEF ChainInv, Span
<1>12. BoxesBuilt' /\ NeverNukes'
  BY <1>1, <1>2 DEF ChainInv, BoxesBuilt, NeverNukes
<1>13. QED
  BY <1>3, <1>4, <1>6, <1>7, <1>8, <1>9, <1>10, <1>11, <1>12 DEF ChainInv

\* Track_box::at finds a particle for every index below length_, the one that
\* many frames after the first: a track has no gap.
LEMMA AtFinds ==
    ASSUME TypeOK, ChainInv, NEW t \in Live, NEW n \in Nat, n < length[t]
    PROVE  /\ first[t] # NULL
           /\ At(t, n) \in Particle
           /\ track[At(t, n)] = t
           /\ Frame[At(t, n)] = Frame[first[t]] + n
<1> USE NullAssumption, ParticleAssumption
<1> DEFINE T == {q \in Particle : track[q] = t /\ Frame[first[t]] + n <= Frame[q]}
           K == {k \in Nat : \E q \in T : Frame[q] = k}
<1>1. t \in Box /\ t # NULL /\ length[t] \in Nat
  BY DEF Live, TypeOK
<1>2. /\ first[t] \in Particle /\ last[t] \in Particle
      /\ track[first[t]] = t /\ track[last[t]] = t /\ first[t] # NULL
  BY <1>1 DEF TypeOK, ParticleOrNull, ChainInv, EndsAgree, Span
<1>3. Frame[last[t]] + 1 = Frame[first[t]] + length[t]
  BY <1>2 DEF ChainInv, Span
<1>4. last[t] \in T
  <2>1. Frame[first[t]] \in Nat /\ Frame[last[t]] \in Nat
    BY <1>2
  <2>2. Frame[first[t]] + n <= Frame[last[t]]
    BY <2>1, <1>1, <1>3
  <2>3. QED
    BY <2>2, <1>2
<1>5. K # {} /\ K \in SUBSET Nat
  BY <1>4
<1>6. PICK m \in K : \A k \in K : m <= k
  BY <1>5, LeastNatural
<1>7. PICK q \in T : Frame[q] = m
  OBVIOUS
<1>8. Frame[q] = Frame[first[t]] + n
  <2>1. SUFFICES ASSUME Frame[first[t]] + n < Frame[q] PROVE FALSE
    BY <1>2
  <2>2. q # first[t]
    BY <2>1, <1>2
  <2>3. prev[q] \in Particle /\ next[prev[q]] = q /\ q # NULL
    BY <2>2 DEF TypeOK, ParticleOrNull, ChainInv, EndsAgree, Reciprocal
  <2>4. track[prev[q]] = t /\ Frame[prev[q]] + 1 = Frame[q]
    BY <2>3 DEF ChainInv, OneTrackAlongChain
  <2>5. Frame[prev[q]] \in Nat /\ Frame[q] \in Nat /\ Frame[first[t]] \in Nat
    BY <2>3, <1>2
  <2>6. prev[q] \in T
    BY <2>1, <2>3, <2>4, <2>5
  <2>7. Frame[prev[q]] \in K
    BY <2>5, <2>6
  <2>8. m <= Frame[prev[q]]
    BY <2>7, <1>6
  <2>9. QED
    BY <2>4, <2>5, <2>8, <1>7
<1>9. \A r \in Particle : r \in Chain(first[t]) <=> track[r] = t
  <2>1. \A r \in Particle : track[r] = t => Frame[first[t]] <= Frame[r]
    BY <1>2 DEF ChainInv, Span
  <2>2. QED
    BY <2>1, <1>1, <1>2, ChainIsTail
<1>10. \E r \in Chain(first[t]) : Frame[r] = Frame[first[t]] + n
  BY <1>8, <1>9
<1>11. At(t, n) \in Chain(first[t]) /\ Frame[At(t, n)] = Frame[first[t]] + n
  BY <1>10 DEF At
<1>12. QED
  BY <1>2, <1>9, <1>11 DEF Chain

\* The frames of a track's particles are exactly those from the first to the
\* last, one particle each, so length_ counts the particles of the walk.
LEMMA LengthOfWalk ==
    ASSUME TypeOK, ChainInv, NEW t \in Live, first[t] # NULL
    PROVE  /\ length[t] = Cardinality(Chain(first[t]))
           /\ ChainEnd(first[t]) = last[t]
<1> USE NullAssumption, ParticleAssumption
<1> DEFINE C == Chain(first[t])
           I == Frame[first[t]] .. Frame[last[t]]
           G == [q \in C |-> Frame[q]]
<1>1. t # NULL /\ length[t] \in Nat
  BY DEF Live, TypeOK
<1>2. /\ first[t] \in Particle /\ last[t] \in Particle
      /\ track[first[t]] = t /\ track[last[t]] = t
      /\ Frame[first[t]] \in Nat /\ Frame[last[t]] \in Nat
      /\ Frame[last[t]] + 1 = Frame[first[t]] + length[t]
  BY DEF Live, TypeOK, ParticleOrNull, ChainInv, EndsAgree, Span
<1>3. \A q \in Particle : track[q] = t =>
         Frame[q] \in Nat /\ Frame[first[t]] <= Frame[q] /\ Frame[q] <= Frame[last[t]]
  BY <1>2 DEF ChainInv, Span
<1>4. \A q \in Particle : q \in C <=> track[q] = t
  BY <1>1, <1>2, <1>3, ChainIsTail
<1>5. C \in SUBSET Particle
  BY DEF Chain
<1>6. G \in [C -> I]
  BY <1>2, <1>3, <1>4, <1>5
<1>7. \A p, q \in C : G[p] = G[q] => p = q
  BY <1>1, <1>4, <1>5 DEF ChainInv, OnePerFrame
<1>8. ASSUME NEW k \in I PROVE \E q \in C : G[q] = k
  <2> DEFINE n == k - Frame[first[t]]
  <2>1. n \in Nat /\ n < length[t] /\ Frame[first[t]] + n = k
    BY <1>1, <1>2
  <2>2. At(t, n) \in C /\ Frame[At(t, n)] = k
    <3> HIDE DEF n, C
    <3>1. QED
      BY <2>1, <1>4, AtFinds
  <2>3. QED
    BY <2>2
<1>9. G \in Bijection(C, I)
  <2> HIDE DEF C, I, G
  <2>1. QED
    BY <1>6, <1>7, <1>8, Fun_IsBij
<1>10. IsFiniteSet(C)
  BY <1>5, FS_Subset
<1>11. Cardinality(I) = Cardinality(C)
  <2> HIDE DEF C, I, G
  <2>1. QED
    BY <1>9, <1>10, FS_Bijection, Fun_ExistsBij
<1>12. Cardinality(I) = length[t]
  <2>1. Frame[first[t]] <= Frame[last[t]]
    BY <1>2, <1>3
  <2>2. Cardinality(I) = Frame[last[t]] - Frame[first[t]] + 1
    BY <2>1, <1>2, FS_Interval
  <2>3. QED
    BY <2>2, <1>1, <1>2
<1>13. ChainEnd(first[t]) = last[t]
  BY <1>1, <1>2, ChainEndIsLast
<1>14. QED
  BY <1>11, <1>12, <1>13

\* One step along a track leads from one frame to the next, and from the last
\* particle nowhere.
LEMMA StepAlong ==
    ASSUME TypeOK, ChainInv, NEW t \in Live, NEW n \in Nat, n < length[t]
    PROVE  next[At(t, n)] = IF n + 1 < length[t] THEN At(t, n + 1) ELSE NULL
<1> USE NullAssumption, ParticleAssumption
<1> DEFINE p == At(t, n)
<1>1. t \in Box /\ t # NULL /\ length[t] \in Nat
  BY DEF Live, TypeOK
<1>2. first[t] # NULL /\ p \in Particle /\ track[p] = t /\ Frame[p] = Frame[first[t]] + n
  BY AtFinds
<1>3. first[t] \in Particle /\ last[t] \in Particle /\ track[last[t]] = t
  BY <1>1, <1>2 DEF TypeOK, ParticleOrNull, ChainInv, EndsAgree
<1>4. Frame[last[t]] + 1 = Frame[first[t]] + length[t]
  BY <1>2 DEF ChainInv, Span
<1>5. Frame[first[t]] \in Nat /\ Frame[last[t]] \in Nat
  BY <1>3
<1>6. next[p] = NULL <=> p = last[t]
  BY <1>2 DEF ChainInv, EndsAgree
<1>7. CASE n + 1 < length[t]
  <2>1. p # last[t]
    BY <1>1, <1>2, <1>4, <1>5, <1>7
  <2>2. next[p] \in Particle /\ track[next[p]] = t /\ Frame[next[p]] = Frame[p] + 1
    BY <2>1, <1>2, <1>6 DEF TypeOK, ParticleOrNull, ChainInv, OneTrackAlongChain
  <2>3. /\ At(t, n + 1) \in Particle /\ track[At(t, n + 1)] = t
        /\ Frame[At(t, n + 1)] = Frame[first[t]] + (n + 1)
    BY <1>7, AtFinds
  <2>4. Frame[next[p]] = Frame[At(t, n + 1)]
    BY <2>2, <2>3, <1>2, <1>5
  <2>5. next[p] = At(t, n + 1)
    BY <2>2, <2>3, <2>4, <1>1 DEF ChainInv, OnePerFrame
  <2> QED
    BY <2>5, <1>7
<1>8. CASE ~(n + 1 < length[t])
  <2>1. Frame[p] = Frame[last[t]]
    BY <1>1, <1>2, <1>4, <1>5, <1>8
  <2>2. p = last[t]
    BY <2>1, <1>1, <1>2, <1>3 DEF ChainInv, OnePerFrame
  <2> QED
    BY <2>2, <1>6, <1>8
<1> QED
  BY <1>7, <1>8

\* Where a walk of k steps along a track stands: on the particle k frames
\* behind the first, and nowhere when it has made as many steps as length_ says.
LEMMA WalkStands ==
    ASSUME TypeOK, ChainInv, NEW t \in Live
    PROVE  WalkOf(t) = [k \in 0 .. length[t] |-> IF k < length[t] THEN At(t, k) ELSE NULL]
<1> USE NullAssumption, ParticleAssumption
<1> DEFINE L == length[t]
           Steps(w) == w = [k \in 0 .. L |->
                              IF k = 0 THEN first[t]
                              ELSE IF w[k - 1] = NULL THEN NULL ELSE next[w[k - 1]]]
           g == [k \in 0 .. L |-> IF k < L THEN At(t, k) ELSE NULL]
<1>1. t \in Box /\ t # NULL /\ L \in Nat
  BY DEF Live, TypeOK
<1>2. first[t] = NULL <=> L = 0
  <2>1. first[t] = NULL => L = 0
    BY DEF ChainInv, Span
  <2>2. ASSUME first[t] # NULL
        PROVE  L # 0
    <3>1. first[t] \in Particle /\ last[t] \in Particle /\ track[last[t]] = t
      BY <1>1, <2>2 DEF TypeOK, ParticleOrNull, ChainInv, EndsAgree
    <3>2. /\ Frame[last[t]] + 1 = Frame[first[t]] + L
          /\ Frame[first[t]] <= Frame[last[t]]
          /\ Frame[first[t]] \in Nat /\ Frame[last[t]] \in Nat
      BY <2>2, <3>1 DEF ChainInv, Span
    <3> QED
      BY <3>2, <1>1
  <2> QED
    BY <2>1, <2>2
<1>3. g[0] = first[t]
  <2>1. CASE L = 0
    BY <2>1, <1>2
  <2>2. CASE L # 0
    <3>1. 0 \in Nat /\ 0 < L /\ first[t] # NULL
      BY <2>2, <1>1, <1>2
    <3>2. first[t] \in Particle /\ track[first[t]] = t
      BY <3>1, <1>1 DEF TypeOK, ParticleOrNull, ChainInv, EndsAgree
    <3>3. /\ At(t, 0) \in Particle /\ track[At(t, 0)] = t
          /\ Frame[At(t, 0)] = Frame[first[t]] + 0
      BY <3>1, AtFinds
    <3>4. Frame[At(t, 0)] = Frame[first[t]]
      BY <3>2, <3>3
    <3>5. At(t, 0) = first[t]
      BY <3>2, <3>3, <3>4, <1>1 DEF ChainInv, OnePerFrame
    <3> QED
      BY <3>1, <3>5, <1>1
  <2> QED
    BY <2>1, <2>2
<1>4. \A k \in 1 .. L : g[k - 1] # NULL /\ g[k] = next[g[k - 1]]
  <2> SUFFICES ASSUME NEW k \in 1 .. L
               PROVE  g[k - 1] # NULL /\ g[k] = next[g[k - 1]]
    OBVIOUS
  <2>1. k - 1 \in Nat /\ k - 1 < L /\ (k - 1) + 1 = k /\ k \in 0 .. L /\ k - 1 \in 0 .. L
    BY <1>1
  <2>2. g[k - 1] = At(t, k - 1) /\ g[k] = IF k < L THEN At(t, k) ELSE NULL
    BY <2>1
  <2>3. At(t, k - 1) \in Particle
    BY <2>1, AtFinds
  <2>4. next[At(t, k - 1)] = IF (k - 1) + 1 < L THEN At(t, (k - 1) + 1) ELSE NULL
    BY <2>1, StepAlong
  <2>5. next[At(t, k - 1)] = IF k < L THEN At(t, k) ELSE NULL
    BY <2>1, <2>4
  <2> HIDE DEF g
  <2> QED
    BY <2>2, <2>3, <2>5
<1>5. Steps(g)
  <2>1. \A k \in 0 .. L : g[k] = IF k = 0 THEN first[t]
                                 ELSE IF g[k - 1] = NULL THEN NULL ELSE next[g[k - 1]]
    <3> SUFFICES ASSUME NEW k \in 0 .. L, k # 0
                 PROVE  g[k] = IF g[k - 1] = NULL THEN NULL ELSE next[g[k - 1]]
      BY <1>3
    <3>1. k \in 1 .. L
      BY <1>1
    <3> HIDE DEF g
    <3> QED
      BY <3>1, <1>4
  <2>2. g = [k \in 0 .. L |-> g[k]]
    OBVIOUS
  <2> HIDE DEF g
  <2> QED
    BY <2>1, <2>2
<1>6. ASSUME NEW w, Steps(w)
      PROVE  w = g
  <2> DEFINE B == {k \in Nat : k \in 0 .. L /\ w[k] # g[k]}
  <2>1. ASSUME B # {}
        PROVE  FALSE
    <3>1. PICK m \in B : \A n \in B : m <= n
      BY <2>1, LeastNatural
    <3>2. m # 0
      BY <1>1, <1>3, <1>6
    <3>3. m - 1 \in Nat /\ m - 1 \in 0 .. L /\ m \in 1 .. L /\ m \in 0 .. L /\ ~(m <= m - 1)
      BY <3>2, <1>1
    <3>4. w[m - 1] = g[m - 1]
      BY <3>1, <3>3
    <3>5. w[m] = IF w[m - 1] = NULL THEN NULL ELSE next[w[m - 1]]
      BY <3>2, <3>3, <1>6
    <3>6. g[m - 1] # NULL /\ g[m] = next[g[m - 1]]
      BY <3>3, <1>4
    <3>7. w[m] # g[m]
      OBVIOUS
    <3> HIDE DEF g, B
    <3> QED
      BY <3>4, <3>5, <3>6, <3>7
  <2>2. \A k \in 0 .. L : w[k] = g[k]
    BY <2>1, <1>1
  <2>3. w = [k \in 0 .. L |-> w[k]]
    BY <1>6
  <2>4. g = [k \in 0 .. L |-> g[k]]
    OBVIOUS
  <2> HIDE DEF g
  <2> QED
    BY <2>2, <2>3, <2>4
<1>7. WalkOf(t) = CHOOSE w : Steps(w)
  BY DEF WalkOf
<1> QED
  BY <1>5, <1>6, <1>7

\* As many particles of a track lie in front of one as frames lie between it
\* and the first.
LEMMA InFrontCounted ==
    ASSUME TypeOK, ChainInv, NEW t \in Live, NEW n \in Nat, n < length[t]
    PROVE  Cardinality({q \in Particle : track[q] = t /\ Frame[q] < Frame[first[t]] + n}) = n
<1> USE ParticleAssumption, NullAssumption
<1> DEFINE C == {q \in Particle : track[q] = t /\ Frame[q] < Frame[first[t]] + n}
           F0 == Frame[first[t]]
           I == F0 .. F0 + n - 1
           G == [q \in C |-> Frame[q]]
<1>1. t \in Box /\ t # NULL /\ length[t] \in Nat /\ first[t] # NULL
  BY AtFinds DEF Live, TypeOK
<1>2. first[t] \in Particle /\ F0 \in Nat
  BY <1>1 DEF TypeOK, ParticleOrNull
<1>3. \A q \in Particle : track[q] = t => Frame[q] \in Nat /\ F0 <= Frame[q]
  BY <1>1, <1>2 DEF ChainInv, Span
<1>4. G \in [C -> I]
  <2>1. \A q \in C : Frame[q] \in I
    BY <1>2, <1>3
  <2> HIDE DEF C, I
  <2> QED
    BY <2>1
<1>5. \A p, q \in C : G[p] = G[q] => p = q
  BY <1>1 DEF ChainInv, OnePerFrame
<1>6. ASSUME NEW k \in I
      PROVE  \E q \in C : G[q] = k
  <2> DEFINE m == k - F0
  <2>1. m \in Nat /\ m < n /\ m < length[t] /\ F0 + m = k
    BY <1>1, <1>2
  <2>2. At(t, m) \in Particle /\ track[At(t, m)] = t /\ Frame[At(t, m)] = F0 + m
    <3> HIDE DEF m
    <3> QED
      BY <2>1, AtFinds
  <2>3. At(t, m) \in C /\ Frame[At(t, m)] = k
    <3>1. k < F0 + n
      BY <1>2
    <3> QED
      BY <3>1, <2>1, <2>2
  <2> HIDE DEF m, C
  <2> QED
    BY <2>3
<1>7. G \in Bijection(C, I)
  <2> HIDE DEF C, I, G
  <2> QED
    BY <1>4, <1>5, <1>6, Fun_IsBij
<1>8. IsFiniteSet(C)
  <2>1. C \in SUBSET Particle
    OBVIOUS
  <2> QED
    BY <2>1, FS_Subset
<1>9. Cardinality(I) = Cardinality(C)
  <2> HIDE DEF C, I, G
  <2> QED
    BY <1>7, <1>8, FS_Bijection, Fun_ExistsBij
<1>10. Cardinality(I) = n
  <2>1. F0 \in Int /\ F0 + n - 1 \in Int
    BY <1>2
  <2>2. Cardinality(I) = IF F0 > F0 + n - 1 THEN 0 ELSE F0 + n - 1 - F0 + 1
    <3> HIDE DEF F0
    <3> QED
      BY <2>1, FS_Interval
  <2> QED
    BY <2>2, <1>2
<1> QED
  BY <1>9, <1>10

\* Cutting a region out of a track leaves three consistent chains: the track
\* in front of the cut, the new track, and freed particles behind it.
LEMMA CutPartKeeps ==
    ASSUME TrackInv, NEW t \in shelf, NEW lo \in Nat, NEW hi \in Nat, CutPart(t, lo, hi)
    PROVE  TrackInv'
<1> USE NullAssumption, ParticleAssumption, MaxTracksAssumption DEF TrackInv
<1> DEFINE a == At(t, lo)
           z == At(t, hi - 1)
           u == running
           Rest(p) == track[p] = t /\ Frame[z] < Frame[p]
           Kept(p) == track[p] = t /\ Frame[a] <= Frame[p] /\ Frame[p] <= Frame[z]
<1>1. /\ t \in Live /\ t \in Box /\ t # NULL
      /\ u \in Box /\ u \notin Live /\ u # t /\ u # NULL
      /\ lo < hi /\ hi <= length[t] /\ length[t] \in Nat
  BY DEF CutPart, TypeOK, Box, ChainInv, BoxesBuilt, Live
<1>2. /\ first[t] \in Particle /\ last[t] \in Particle
      /\ track[first[t]] = t /\ track[last[t]] = t
      /\ a \in Particle /\ track[a] = t /\ Frame[a] = Frame[first[t]] + lo
      /\ z \in Particle /\ track[z] = t /\ Frame[z] = Frame[first[t]] + (hi - 1)
  <2>1. lo < length[t] /\ hi - 1 \in Nat /\ hi - 1 < length[t]
    BY <1>1
  <2>2. /\ first[t] # NULL
        /\ a \in Particle /\ track[a] = t /\ Frame[a] = Frame[first[t]] + lo
    BY <2>1, <1>1, AtFinds
  <2>3. z \in Particle /\ track[z] = t /\ Frame[z] = Frame[first[t]] + (hi - 1)
    BY <2>1, <1>1, AtFinds
  <2>4. QED
    BY <2>2, <2>3, <1>1 DEF ChainInv, EndsAgree, TypeOK, ParticleOrNull
<1>3. Frame[first[t]] \in Nat /\ Frame[a] \in Nat /\ Frame[z] \in Nat /\ Frame[a] <= Frame[z]
  BY <1>1, <1>2
<1>4. \A p \in Particle : /\ p \in Chain(z) \ {z} <=> Rest(p)
                          /\ p \in Chain(a) <=> Kept(p) \/ Rest(p)
  <2>1. \A p \in Particle : p \in Chain(z) <=> track[p] = t /\ Frame[z] <= Frame[p]
    BY <1>1, <1>2, ChainIsTail
  <2>2. \A p \in Particle : p \in Chain(a) <=> track[p] = t /\ Frame[a] <= Frame[p]
    BY <1>1, <1>2, ChainIsTail
  <2>3. \A p \in Particle : track[p] = t /\ Frame[p] = Frame[z] => p = z
    BY <1>1, <1>2 DEF ChainInv, OnePerFrame
  <2>4. \A p \in Particle : Frame[p] \in Nat
    OBVIOUS
  <2>5. QED
    BY <2>1, <2>2, <2>3, <2>4, <1>2, <1>3
<1>5. /\ next' = [p \in Particle |-> IF p = z \/ Rest(p) \/ p = prev[a] THEN NULL ELSE next[p]]
      /\ prev' = [p \in Particle |-> IF p = a \/ Rest(p) THEN NULL ELSE prev[p]]
      /\ track' = [p \in Particle |-> IF Rest(p) THEN NULL ELSE IF Kept(p) THEN u ELSE track[p]]
      /\ first' = [first EXCEPT ![t] = IF lo = 0 THEN NULL ELSE first[t], ![u] = a]
      /\ last' = [last EXCEPT ![t] = prev[a], ![u] = z]
      /\ length' = [length EXCEPT ![t] = lo, ![u] = hi - lo]
      /\ id' = [id EXCEPT ![u] = u]
      /\ running' = u + 1
      /\ parts' = parts \cup {u}
      /\ UNCHANGED <<shelf, trackCount, thrown>>
  BY <1>1, <1>4 DEF CutPart, TypeOK
<1>6. /\ prev[a] = NULL <=> lo = 0
      /\ lo # 0 => /\ prev[a] \in Particle /\ next[prev[a]] = a
                   /\ track[prev[a]] = t /\ Frame[prev[a]] + 1 = Frame[a]
  <2>1. prev[a] = NULL <=> a = first[t]
    BY <1>1, <1>2 DEF ChainInv, EndsAgree
  <2>2. a = first[t] <=> lo = 0
    BY <1>1, <1>2, <1>3 DEF ChainInv, OnePerFrame
  <2>3. prev[a] # NULL => prev[a] \in Particle /\ next[prev[a]] = a
    BY <1>2 DEF TypeOK, ParticleOrNull, ChainInv, Reciprocal
  <2>4. prev[a] # NULL => track[prev[a]] = t /\ Frame[prev[a]] + 1 = Frame[a]
    BY <2>3, <1>2 DEF ChainInv, OneTrackAlongChain
  <2>5. QED
    BY <2>1, <2>2, <2>3, <2>4
<1>7. Live' = Live \cup {u}
  BY <1>5 DEF Live
<1>8. TypeOK'
  <2>1. /\ next' \in [Particle -> ParticleOrNull] /\ prev' \in [Particle -> ParticleOrNull]
        /\ track' \in [Particle -> Box \cup {NULL}]
    BY <1>1, <1>5 DEF TypeOK, ParticleOrNull
  <2>2. first' \in [Box -> ParticleOrNull] /\ last' \in [Box -> ParticleOrNull]
    BY <1>1, <1>2, <1>5, <1>6 DEF TypeOK, ParticleOrNull
  <2>3. length' \in [Box -> Nat] /\ id' \in [Box -> Nat]
    <3>1. hi - lo \in Nat /\ u \in Nat
      BY <1>1 DEF TypeOK
    <3>2. QED
      BY <3>1, <1>1, <1>5 DEF TypeOK
  <2>4. running' \in 0 .. MaxTracks
    BY <1>1, <1>5 DEF Box
  <2>5. QED
    BY <2>1, <2>2, <2>3, <2>4, <1>1, <1>5 DEF TypeOK
<1>9. \A p \in Particle : next[p] # NULL =>
         /\ next[p] \in Particle /\ prev[next[p]] = p
         /\ track[next[p]] = track[p] /\ Frame[next[p]] = Frame[p] + 1
  BY DEF TypeOK, ParticleOrNull, ChainInv, Reciprocal, OneTrackAlongChain
<1>10. \A p \in Particle : Frame[p] \in Nat
  OBVIOUS
<1>11. \A p \in Particle : track[p] = t /\ Frame[p] = Frame[z] => p = z
  BY <1>1, <1>2 DEF ChainInv, OnePerFrame
<1>12. Reciprocal'
  <2> SUFFICES ASSUME NEW p \in Particle, NEW q \in Particle
               PROVE  next'[p] = q <=> prev'[q] = p
    BY DEF Reciprocal
  <2>1. next[p] = q <=> prev[q] = p
    BY DEF ChainInv, Reciprocal
  <2>2. ASSUME next'[p] = q PROVE prev'[q] = p
    <3>1. next[p] = q /\ p # z /\ ~Rest(p) /\ p # prev[a]
      BY <2>2, <1>5
    <3>2. q # a
      BY <3>1, <2>1
    <3>3. ~Rest(q)
      BY <3>1, <1>3, <1>9, <1>10, <1>11
    <3>4. QED
      BY <3>1, <3>2, <3>3, <2>1, <1>5
  <2>3. ASSUME prev'[q] = p PROVE next'[p] = q
    <3>1. prev[q] = p /\ q # a /\ ~Rest(q)
      BY <2>3, <1>5
    <3>2. next[p] = q
      BY <3>1, <2>1
    <3>3. p # prev[a]
      BY <3>1, <3>2, <1>2 DEF ChainInv, Reciprocal
    <3>4. p # z /\ ~Rest(p)
      BY <3>1, <3>2, <1>2, <1>3, <1>9, <1>10
    <3>5. QED
      BY <3>2, <3>3, <3>4, <1>5
  <2>4. QED BY <2>2, <2>3
<1>13. OneTrackAlongChain'
  <2> SUFFICES ASSUME NEW p \in Particle
               PROVE  /\ track'[p] = NULL => next'[p] = NULL /\ prev'[p] = NULL
                      /\ next'[p] # NULL => /\ track'[next'[p]] = track'[p]
                                            /\ Frame[next'[p]] = Frame[p] + 1
    BY DEF OneTrackAlongChain
  <2>1. track'[p] = NULL => next'[p] = NULL /\ prev'[p] = NULL
    BY <1>1, <1>5 DEF ChainInv, OneTrackAlongChain
  <2>2. ASSUME next'[p] # NULL
        PROVE  track'[next'[p]] = track'[p] /\ Frame[next'[p]] = Frame[p] + 1
    <3> DEFINE q == next[p]
    <3>1. next'[p] = q /\ p # z /\ ~Rest(p) /\ p # prev[a]
      BY <2>2, <1>5
    <3>2. q \in Particle /\ prev[q] = p /\ track[q] = track[p] /\ Frame[q] = Frame[p] + 1
      BY <2>2, <3>1, <1>9
    <3>3. Rest(q) <=> Rest(p)
      BY <3>1, <3>2, <1>3, <1>10, <1>11
    <3>4. Kept(q) <=> Kept(p)
      <4>1. SUFFICES ASSUME track[p] = t PROVE Kept(q) <=> Kept(p)
        BY <3>2
      <4>2. Frame[p] # Frame[z]
        BY <3>1, <4>1, <1>11
      <4>3. Frame[q] # Frame[a]
        <5>1. Frame[q] = Frame[a] => q = a
          BY <3>2, <4>1, <1>1, <1>2 DEF ChainInv, OnePerFrame
        <5>2. QED
          BY <5>1, <3>1, <3>2
      <4>4. QED
        BY <3>2, <4>1, <4>2, <4>3, <1>2, <1>10
    <3>5. QED
      BY <3>1, <3>2, <3>3, <3>4, <1>5
  <2>3. QED BY <2>1, <2>2
<1>14. NoDanglingTrack'
  BY <1>5, <1>7 DEF ChainInv, NoDanglingTrack
<1>15. OnePerFrame'
  <2> SUFFICES ASSUME NEW p \in Particle, NEW q \in Particle,
                      track'[p] # NULL, track'[p] = track'[q], Frame[p] = Frame[q]
               PROVE  p = q
    BY DEF OnePerFrame
  <2>1. \A r \in Particle : track[r] # u
    BY <1>1 DEF ChainInv, NoDanglingTrack
  <2>2. track[p] # NULL /\ track[p] = track[q]
    BY <2>1, <1>1, <1>5
  <2>3. QED
    BY <2>2 DEF ChainInv, OnePerFrame
<1>16. \A p \in Particle :
          /\ track'[p] = u <=> Kept(p)
          /\ track'[p] = t <=> track[p] = t /\ Frame[p] < Frame[a]
          /\ \A v \in Live \ {t} : track'[p] = v => track[p] = v
  <2> TAKE p \in Particle
  <2>1. track[p] # u
    BY <1>1 DEF ChainInv, NoDanglingTrack
  <2>2. \A v \in Live : v # NULL /\ v # u
    BY <1>1 DEF Live, TypeOK
  <2>3. track'[p] = IF Rest(p) THEN NULL ELSE IF Kept(p) THEN u ELSE track[p]
    BY <1>5
  <2>4. track[p] = t => \/ Frame[p] < Frame[a] /\ ~Rest(p) /\ ~Kept(p)
                        \/ Frame[a] <= Frame[p] /\ (Rest(p) \/ Kept(p))
    <3>1. Frame[p] \in Nat
      BY <1>10
    <3>2. CASE Frame[p] < Frame[a]
      <4>1. Frame[p] < Frame[z] /\ ~(Frame[a] <= Frame[p])
        BY <3>1, <3>2, <1>3
      <4>2. ~(Frame[z] < Frame[p])
        BY <3>1, <4>1, <1>3
      <4>3. QED
        BY <3>2, <4>1, <4>2
    <3>3. CASE Frame[a] <= Frame[p]
      <4>1. Frame[z] < Frame[p] \/ Frame[p] <= Frame[z]
        BY <3>1, <1>3
      <4>2. QED
        BY <3>3, <4>1
    <3>4. QED
      BY <3>1, <3>2, <3>3, <1>3
  <2>5. track'[p] = u <=> Kept(p)
    BY <2>1, <2>3, <1>1, <1>3, <1>10
  <2>6. track'[p] = t <=> track[p] = t /\ Frame[p] < Frame[a]
    <3>1. ~(Frame[p] < Frame[a] /\ Frame[a] <= Frame[p])
      BY <1>2, <1>10
    <3>2. track'[p] = t => ~Rest(p) /\ ~Kept(p) /\ track[p] = t
      BY <2>3, <1>1
    <3>3. QED
      BY <3>1, <3>2, <2>3, <2>4
  <2>7. \A v \in Live \ {t} : track'[p] = v => track[p] = v
    BY <2>2, <2>3
  <2>8. QED
    BY <2>5, <2>6, <2>7
<1>17. /\ first'[t] = (IF lo = 0 THEN NULL ELSE first[t]) /\ first'[u] = a
       /\ last'[t] = prev[a] /\ last'[u] = z
       /\ length'[t] = lo /\ length'[u] = hi - lo
       /\ \A v \in Live \ {t} : /\ v \in Box
                               /\ first'[v] = first[v] /\ last'[v] = last[v]
                               /\ length'[v] = length[v]
  BY <1>1, <1>5 DEF TypeOK, Live
<1>18. EndsAgree'
  <2> SUFFICES ASSUME NEW v \in Live'
               PROVE  /\ first'[v] = NULL <=> last'[v] = NULL
                      /\ first'[v] # NULL => track'[first'[v]] = v /\ track'[last'[v]] = v
                      /\ \A q \in Particle :
                            track'[q] = v => /\ first'[v] # NULL
                                             /\ prev'[q] = NULL <=> q = first'[v]
                                             /\ next'[q] = NULL <=> q = last'[v]
    BY DEF EndsAgree
  <2>1. CASE v = t
    <3>1. first'[t] = NULL <=> last'[t] = NULL
      BY <1>2, <1>6, <1>17
    <3>2. first'[t] # NULL => track'[first'[t]] = t /\ track'[last'[t]] = t
      <4>1. SUFFICES ASSUME lo # 0 PROVE track'[first[t]] = t /\ track'[prev[a]] = t
        BY <1>17
      <4>2. Frame[first[t]] < Frame[a] /\ Frame[prev[a]] < Frame[a]
        BY <4>1, <1>2, <1>3, <1>6, <1>10
      <4>3. QED
        BY <4>1, <4>2, <1>2, <1>6, <1>16
    <3>3. ASSUME NEW q \in Particle, track'[q] = t
          PROVE  /\ first'[t] # NULL
                 /\ prev'[q] = NULL <=> q = first[t]
                 /\ next'[q] = NULL <=> q = prev[a]
      <4>1. track[q] = t /\ Frame[q] < Frame[a] /\ q # a /\ q # z /\ ~Rest(q)
        BY <3>3, <1>3, <1>10, <1>16
      <4>2. lo # 0
        <5>1. Frame[first[t]] <= Frame[q]
          BY <4>1, <1>1, <1>2 DEF ChainInv, Span
        <5>2. QED
          BY <4>1, <5>1, <1>2, <1>3, <1>10
      <4>3. prev'[q] = NULL <=> q = first[t]
        BY <4>1, <1>1, <1>5 DEF ChainInv, EndsAgree
      <4>4. q # last[t]
        <5>1. Frame[z] <= Frame[last[t]]
          BY <1>1, <1>2 DEF ChainInv, Span
        <5>2. QED
          BY <4>1, <5>1, <1>3, <1>2, <1>10
      <4>5. next[q] # NULL
        BY <4>1, <4>4, <1>1 DEF ChainInv, EndsAgree
      <4>6. next'[q] = NULL <=> q = prev[a]
        BY <4>1, <4>5, <1>5
      <4>7. QED
        BY <4>2, <4>3, <4>6, <1>2, <1>17
    <3>4. QED
      <4>1. \A q \in Particle : track'[q] = t => first'[t] = first[t]
        BY <3>3, <1>17
      <4>2. QED
        BY <2>1, <3>1, <3>2, <3>3, <4>1, <1>17
  <2>2. CASE v = u
    <3>1. first'[u] = a /\ last'[u] = z /\ a # NULL /\ z # NULL
      BY <1>2, <1>17
    <3>2. track'[a] = u /\ track'[z] = u
      BY <1>2, <1>3, <1>16
    <3>3. ASSUME NEW q \in Particle, track'[q] = u
          PROVE  (prev'[q] = NULL <=> q = a) /\ (next'[q] = NULL <=> q = z)
      <4>1. Kept(q) /\ ~Rest(q)
        BY <3>3, <1>3, <1>10, <1>16
      <4>2. prev'[q] = NULL <=> q = a
        <5>1. q # a => q # first[t]
          <6>1. q = first[t] => Frame[q] = Frame[a]
            BY <4>1, <1>1, <1>2, <1>3
          <6>2. Frame[q] = Frame[a] => q = a
            BY <4>1, <1>1, <1>2 DEF ChainInv, OnePerFrame
          <6>3. QED
            BY <6>1, <6>2
        <5>2. q # a => prev[q] # NULL
          BY <4>1, <5>1, <1>1 DEF ChainInv, EndsAgree
        <5>3. QED
          BY <4>1, <5>2, <1>5
      <4>3. next'[q] = NULL <=> q = z
        <5>1. q # z => Frame[q] < Frame[z]
          BY <4>1, <1>3, <1>10, <1>11
        <5>2. Frame[z] <= Frame[last[t]]
          BY <1>1, <1>2 DEF ChainInv, Span
        <5>3. q # z => next[q] # NULL
          <6>1. q # z => q # last[t]
            BY <5>1, <5>2, <1>2, <1>3, <1>10
          <6>2. QED
            BY <4>1, <6>1, <1>1 DEF ChainInv, EndsAgree
        <5>4. q # prev[a]
          BY <4>1, <1>2, <1>3, <1>6, <1>10
        <5>5. QED
          BY <4>1, <5>3, <5>4, <1>5
      <4>4. QED BY <4>2, <4>3
    <3>4. QED
      BY <2>2, <3>1, <3>2, <3>3
  <2>3. CASE v # t /\ v # u
    <3>1. v \in Live \ {t}
      BY <2>3, <1>7
    <3>2. first'[v] = first[v] /\ last'[v] = last[v] /\ v # NULL
      BY <3>1, <1>17 DEF Live, TypeOK
    <3>3. ASSUME NEW q \in Particle, track[q] = v
          PROVE  track'[q] = v /\ prev'[q] = prev[q] /\ (next'[q] = NULL <=> next[q] = NULL)
      <4>1. ~Rest(q) /\ ~Kept(q) /\ q # a /\ q # z
        BY <2>3, <3>3, <1>2
      <4>2. q = prev[a] => lo = 0
        BY <2>3, <3>3, <1>6
      <4>3. q # prev[a]
        BY <4>2, <1>6
      <4>4. QED
        BY <3>3, <4>1, <4>3, <1>5
    <3>4. first[v] # NULL => track'[first[v]] = v /\ track'[last[v]] = v
      BY <3>1, <3>3, <1>17 DEF ChainInv, EndsAgree, TypeOK, ParticleOrNull
    <3>5. \A q \in Particle : track'[q] = v => track[q] = v
      BY <3>1, <1>16
    <3>6. QED
      BY <3>1, <3>2, <3>3, <3>4, <3>5 DEF ChainInv, EndsAgree
  <2>4. QED BY <2>1, <2>2, <2>3
<1>19. Span' /\ BoxesBuilt'
  <2>1. Span'
    <3> SUFFICES ASSUME NEW v \in Live'
                 PROVE  IF first'[v] = NULL
                        THEN length'[v] = 0
                        ELSE /\ Frame[last'[v]] + 1 = Frame[first'[v]] + length'[v]
                             /\ \A q \in Particle :
                                   track'[q] = v => /\ Frame[first'[v]] <= Frame[q]
                                                    /\ Frame[q] <= Frame[last'[v]]
      BY DEF Span
    <3>1. CASE v = t
      <4>1. \A q \in Particle : track[q] = t => Frame[first[t]] <= Frame[q]
        BY <1>1, <1>2 DEF ChainInv, Span
      <4>2. CASE lo = 0
        BY <3>1, <4>2, <1>17
      <4>3. CASE lo # 0
        <5>1. Frame[prev[a]] + 1 = Frame[first[t]] + lo
          BY <4>3, <1>2, <1>6
        <5>2. \A q \in Particle : track'[q] = t => Frame[first[t]] <= Frame[q] /\ Frame[q] <= Frame[prev[a]]
          BY <4>1, <4>3, <1>3, <1>6, <1>10, <1>16
        <5>3. QED
          BY <3>1, <4>3, <5>1, <5>2, <1>2, <1>17
      <4>4. QED BY <4>2, <4>3
    <3>2. CASE v = u
      <4>1. Frame[z] + 1 = Frame[a] + (hi - lo)
        BY <1>1, <1>2, <1>3
      <4>2. a # NULL
        BY <1>2
      <4>3. QED
        BY <3>2, <4>1, <4>2, <1>16, <1>17
    <3>3. CASE v # t /\ v # u
      <4>1. v \in Live \ {t}
        BY <3>3, <1>7
      <4>2. \A q \in Particle : track'[q] = v => track[q] = v
        BY <4>1, <1>16
      <4>3. QED
        BY <4>1, <4>2, <1>17 DEF ChainInv, Span
    <3>4. QED BY <3>1, <3>2, <3>3
  <2>2. BoxesBuilt'
    <3>1. \A v \in Live' : v < running'
      BY <1>1, <1>5, <1>7 DEF ChainInv, BoxesBuilt, Live, TypeOK, Box
    <3>2. (shelf \cap parts = {})'
      BY <1>1, <1>5 DEF ChainInv, BoxesBuilt, Live
    <3>3. ASSUME NEW v \in Box, v >= running'
          PROVE  first'[v] = NULL /\ last'[v] = NULL /\ length'[v] = 0
      <4>1. t < u
        BY <1>1 DEF ChainInv, BoxesBuilt
      <4>2. v # t /\ v # u /\ v >= running
        BY <3>3, <4>1, <1>1, <1>5 DEF Box
      <4>3. first'[v] = first[v] /\ last'[v] = last[v] /\ length'[v] = length[v]
        BY <4>2, <1>5 DEF TypeOK
      <4>4. QED
        BY <4>2, <4>3 DEF ChainInv, BoxesBuilt
    <3>4. QED
      BY <3>1, <3>2, <3>3 DEF BoxesBuilt
  <2>3. QED BY <2>1, <2>2
<1>20. NeverNukes' /\ CountAgrees'
  BY <1>5 DEF ChainInv, NeverNukes, CountAgrees
<1>21. QED
  BY <1>8, <1>12, <1>13, <1>14, <1>15, <1>18, <1>19, <1>20 DEF ChainInv

-----------------------------------------------------------------------------
(* The component                                                              *)

\* The constructors leave an empty shelf and unlinked particles.
LEMMA InitGood ==
    ASSUME Init
    PROVE  TrackInv
<1> USE MaxTracksAssumption, NullAssumption DEF Init
<1>1. TypeOK
  <2>1. /\ next \in [Particle -> ParticleOrNull] /\ prev \in [Particle -> ParticleOrNull]
        /\ track \in [Particle -> Box \cup {NULL}]
    BY DEF ParticleOrNull
  <2>2. first \in [Box -> ParticleOrNull] /\ last \in [Box -> ParticleOrNull]
    BY DEF ParticleOrNull
  <2>3. length \in [Box -> Nat] /\ id \in [Box -> Nat]
    OBVIOUS
  <2>4. running \in 0 .. MaxTracks
    OBVIOUS
  <2>5. QED
    BY <2>1, <2>2, <2>3, <2>4 DEF TypeOK
<1>2. ChainInv
  BY DEF ChainInv, Reciprocal, OneTrackAlongChain, NoDanglingTrack, EndsAgree,
     OnePerFrame, Span, BoxesBuilt, NeverNukes, Live
<1>3. CountAgrees
  BY FS_EmptySet DEF CountAgrees
<1>4. QED
  BY <1>1, <1>2, <1>3 DEF TrackInv

\* Every legal call keeps the invariant.
LEMMA NextKeeps ==
    ASSUME TrackInv, [Next]_trackVars
    PROVE  TrackInv'
<1>1. ASSUME NEW p \in Particle, Free(p), AddNewTrack(p) PROVE TrackInv'
  BY <1>1, AddNewTrackKeeps
<1>2. CASE AddEmptyTrack
  BY <1>2, AddEmptyTrackKeeps
<1>3. ASSUME NEW t \in shelf, NEW p \in Particle, Free(p), Follows(t, p), PushBack(t, p)
      PROVE  TrackInv'
  BY <1>3, PushFirstKeeps, PushNextKeeps DEF PushBack
<1>4. ASSUME NEW n \in 0 .. Cardinality(Particle) + 1, RemoveShortTracks(n)
      PROVE  TrackInv'
  <2>1. {t \in shelf : length[t] < n} \in SUBSET shelf
    OBVIOUS
  <2>2. QED
    BY <1>4, <2>1, DeleteBoxesKeeps DEF RemoveShortTracks
<1>5. CASE Renumber
  BY <1>5, RenumberKeeps
<1>6. ASSUME NEW t \in shelf, NEW lo \in 0 .. Cardinality(Particle),
             NEW hi \in 0 .. Cardinality(Particle), CutPart(t, lo, hi)
      PROVE  TrackInv'
  <2>1. lo \in Nat /\ hi \in Nat
    BY ParticleAssumption, FS_CardinalityType
  <2>2. QED
    BY <1>6, <2>1, CutPartKeeps
<1>7. CASE UNCHANGED trackVars
  BY <1>7 DEF trackVars, TrackInv, TypeOK, ChainInv, CountAgrees, Reciprocal,
     OneTrackAlongChain, NoDanglingTrack, EndsAgree, OnePerFrame, Span, BoxesBuilt,
     NeverNukes, Live
<1>8. QED
  BY <1>1, <1>2, <1>3, <1>4, <1>5, <1>6, <1>7 DEF Next

LEMMA TrackInvAlways == Spec => []TrackInv
<1>1. Init => TrackInv
  BY InitGood
<1>2. TrackInv /\ [Next]_trackVars => TrackInv'
  BY NextKeeps
<1>3. QED
  BY <1>1, <1>2, PTL DEF Spec

\* In every behaviour of the three classes, for any particles, frames and
\* number of boxes, the variables keep their types and the copies of every
\* pointer agree: both directions of the chains, the particles' tracks with the
\* ends and the length of the boxes.
THEOREM TracksConsistent == Spec => [](TypeOK /\ ChainInv)
<1>1. TrackInv => TypeOK /\ ChainInv
  BY DEF TrackInv
<1>2. QED
  BY <1>1, TrackInvAlways, PTL

\* track_count_ is the length of the list after every call, whatever was built,
\* deleted and cut.
THEOREM CountIsKept == Spec => []CountAgrees
<1>1. TrackInv => CountAgrees
  BY DEF TrackInv
<1>2. QED
  BY <1>1, TrackInvAlways, PTL

\* The cached length_ of a box is the number of particles a walk from t_first_
\* meets, and the walk ends at t_last_.
THEOREM LengthIsWalkAlways == Spec => []LengthIsWalk
<1>1. TrackInv => LengthIsWalk
  BY LengthOfWalk DEF TrackInv, LengthIsWalk
<1>2. QED
  BY <1>1, TrackInvAlways, PTL

\* Reading a track out gives its particles in the order of the frames, and as
\* many rows are announced as there are particles.
LEMMA ReadsInOrder ==
    ASSUME TypeOK, ChainInv, NEW t \in Live
    PROVE  LET mine == {p \in Particle : track[p] = t}
               n == Cardinality(mine)
               inOrder == [k \in 1 .. n |->
                              CHOOSE p \in mine :
                                  Cardinality({q \in mine : Frame[q] < Frame[p]}) = k - 1]
               steps == [k \in 1 .. n - 1 |-> <<inOrder[k], inOrder[k + 1]>>]
           IN  /\ ExtractRawPos(t) = [ends |-> "returned", rows |-> n, out |-> inOrder]
               /\ ExtractCorrectedPos(t) = [ends |-> "returned", rows |-> n, out |-> inOrder]
               /\ mine # {} =>
                     ExtractDisp(t) = [ends |-> "returned", rows |-> n, out |-> steps]
<1> USE ParticleAssumption, NullAssumption
<1> DEFINE L == length[t]
           mine == {p \in Particle : track[p] = t}
           front(p) == {q \in mine : Frame[q] < Frame[p]}
           order(k) == CHOOSE p \in mine : Cardinality(front(p)) = k - 1
           inOrder == [k \in 1 .. Cardinality(mine) |-> order(k)]
           W == WalkOf(t)
<1>1. t \in Box /\ t # NULL /\ L \in Nat
  BY DEF Live, TypeOK
<1>2. Cardinality(mine) = L /\ (mine # {} => first[t] # NULL)
  <2>1. CASE first[t] = NULL
    <3>1. mine = {} /\ L = 0
      BY <2>1 DEF ChainInv, EndsAgree, Span
    <3> QED
      BY <3>1, FS_EmptySet
  <2>2. CASE first[t] # NULL
    <3>1. first[t] \in Particle /\ track[first[t]] = t
      BY <2>2, <1>1 DEF TypeOK, ParticleOrNull, ChainInv, EndsAgree
    <3>2. \A q \in Particle : track[q] = t => Frame[first[t]] <= Frame[q]
      BY <2>2 DEF ChainInv, Span
    <3>3. Chain(first[t]) = mine
      BY <3>1, <3>2, <1>1, ChainIsTail
    <3>4. L = Cardinality(Chain(first[t]))
      BY <2>2, LengthOfWalk
    <3> QED
      BY <3>3, <3>4, <2>2
  <2> QED
    BY <2>1, <2>2
<1>3. ASSUME NEW k \in 1 .. L
      PROVE  inOrder[k] = At(t, k - 1)
  <2> DEFINE a == At(t, k - 1)
             F0 == Frame[first[t]]
  <2>1. k - 1 \in Nat /\ k - 1 < L
    BY <1>1
  <2>2. a \in mine /\ Frame[a] = F0 + (k - 1) /\ first[t] # NULL
    BY <2>1, AtFinds
  <2>3. ASSUME NEW p \in mine
        PROVE  Cardinality(front(p)) = k - 1 <=> p = a
    <3> DEFINE n == Frame[p] - F0
    <3>1. first[t] \in Particle /\ last[t] \in Particle
      BY <1>1, <2>2 DEF TypeOK, ParticleOrNull, ChainInv, EndsAgree
    <3>2. /\ F0 \in Nat /\ Frame[p] \in Nat /\ Frame[last[t]] \in Nat
          /\ F0 <= Frame[p] /\ Frame[p] <= Frame[last[t]]
          /\ Frame[last[t]] + 1 = F0 + L
      BY <3>1, <2>2 DEF ChainInv, Span
    <3>3. n \in Nat /\ n < L /\ F0 + n = Frame[p]
      BY <3>2, <1>1
    <3>4. front(p) = {q \in Particle : track[q] = t /\ Frame[q] < F0 + n}
      <4> HIDE DEF n
      <4> QED
        BY <3>3
    <3>5. Cardinality({q \in Particle : track[q] = t /\ Frame[q] < F0 + n}) = n
      <4> HIDE DEF n
      <4> QED
        BY <3>3, InFrontCounted
    <3>6. Cardinality(front(p)) = n
      BY <3>4, <3>5
    <3>7. n = k - 1 <=> Frame[p] = Frame[a]
      BY <2>1, <2>2, <3>2
    <3>8. Frame[p] = Frame[a] <=> p = a
      BY <2>2, <1>1 DEF ChainInv, OnePerFrame
    <3> HIDE DEF n, a, front
    <3> QED
      BY <3>6, <3>7, <3>8
  <2>4. inOrder[k] = CHOOSE p \in mine : Cardinality(front(p)) = k - 1
    BY <1>2
  <2> HIDE DEF a, front, mine, inOrder
  <2> QED
    BY <2>2, <2>3, <2>4 DEF a
<1>4. W = [k \in 0 .. L |-> IF k < L THEN At(t, k) ELSE NULL]
  BY WalkStands
<1>5. /\ \A k \in 1 .. L : W[k - 1] = At(t, k - 1) /\ At(t, k - 1) \in Particle
      /\ W[L] = NULL
      /\ \A k \in 0 .. L - 1 : W[k] # NULL
  <2>1. W[L] = NULL
    BY <1>1, <1>4
  <2>2. ASSUME NEW k \in 0 .. L - 1
        PROVE  W[k] = At(t, k) /\ At(t, k) \in Particle
    <3>1. k \in Nat /\ k < L /\ k \in 0 .. L
      BY <1>1
    <3>2. At(t, k) \in Particle
      BY <3>1, AtFinds
    <3> QED
      BY <3>1, <3>2, <1>4
  <2>3. \A k \in 1 .. L : k - 1 \in 0 .. L - 1
    BY <1>1
  <2> HIDE DEF W
  <2> QED
    BY <2>1, <2>2, <2>3
<1>6. ~WalksOff(t, L)
  BY <1>5 DEF WalksOff
<1>7. [k \in 1 .. L |-> W[k - 1]] = inOrder
  <2>1. inOrder = [k \in 1 .. L |-> inOrder[k]]
    <3>1. inOrder = [k \in 1 .. Cardinality(mine) |-> inOrder[k]]
      <4> HIDE DEF order, mine
      <4> QED
        OBVIOUS
    <3> HIDE DEF inOrder, mine
    <3> QED
      BY <3>1, <1>2
  <2>2. \A k \in 1 .. L : W[k - 1] = inOrder[k]
    BY <1>3, <1>5
  <2> HIDE DEF W, inOrder
  <2> QED
    BY <2>1, <2>2
<1>8. /\ ExtractRawPos(t) = [ends |-> "returned", rows |-> L, out |-> inOrder]
      /\ ExtractCorrectedPos(t) = [ends |-> "returned", rows |-> L, out |-> inOrder]
  <2>1. W[L] = NULL
    BY <1>5
  <2> HIDE DEF inOrder
  <2> QED
    BY <2>1, <1>6, <1>7 DEF ExtractRawPos, ExtractCorrectedPos
<1>9. ASSUME mine # {}
      PROVE  ExtractDisp(t) =
                 [ends |-> "returned", rows |-> L,
                  out |-> [k \in 1 .. L - 1 |-> <<inOrder[k], inOrder[k + 1]>>]]
  <2>1. \A k \in 1 .. L - 1 : W[k - 1] = inOrder[k] /\ W[k] = inOrder[k + 1]
    <3> SUFFICES ASSUME NEW k \in 1 .. L - 1
                 PROVE  W[k - 1] = inOrder[k] /\ W[k] = inOrder[k + 1]
      OBVIOUS
    <3>1. k \in 1 .. L /\ k + 1 \in 1 .. L /\ (k + 1) - 1 = k
      BY <1>1
    <3>2. W[k - 1] = inOrder[k] /\ W[(k + 1) - 1] = inOrder[k + 1]
      <4> HIDE DEF W, inOrder
      <4> QED
        BY <3>1, <1>3, <1>5
    <3> QED
      BY <3>1, <3>2
  <2>2. [k \in 1 .. L - 1 |-> <<W[k - 1], W[k]>>]
          = [k \in 1 .. L - 1 |-> <<inOrder[k], inOrder[k + 1]>>]
    <3> HIDE DEF W, inOrder
    <3> QED
      BY <2>1
  <2>3. first[t] # NULL /\ W[L] = NULL
    BY <1>2, <1>5, <1>9
  <2> HIDE DEF inOrder
  <2> QED
    BY <2>2, <2>3, <1>6 DEF ExtractDisp
<1> DEFINE n == Cardinality(mine)
           steps == [k \in 1 .. n - 1 |-> <<inOrder[k], inOrder[k + 1]>>]
<1>10. n = L
  BY <1>2
<1>11. mine # {} => ExtractDisp(t) = [ends |-> "returned", rows |-> n, out |-> steps]
  <2> HIDE DEF mine, L, inOrder, n
  <2> QED
    BY <1>10, <1>9
<1>12. /\ ExtractRawPos(t) = [ends |-> "returned", rows |-> n, out |-> inOrder]
       /\ ExtractCorrectedPos(t) = [ends |-> "returned", rows |-> n, out |-> inOrder]
  <2> HIDE DEF L, n, inOrder
  <2> QED
    BY <1>8, <1>10
<1> QED
  BY <1>11, <1>12

\* Whatever was linked, deleted and cut before, reading a track out for a script
\* neither throws nor follows a null pointer and fills in its particles, or the
\* steps between them, in the order of the frames; dims announces as many rows as
\* there are particles, which for the steps is one too many.
THEOREM ReadOutInOrder == Spec => []ExtractedInOrder
<1>1. TrackInv => ExtractedInOrder
  BY ReadsInOrder DEF TrackInv, ExtractedInOrder
<1>2. QED
  BY <1>1, TrackInvAlways, PTL

-----------------------------------------------------------------------------
(* The invariant of the linker                                                *)

\* The two frames that are being joined.
PSide == {p \in Particle : Frame[p] + 2 = frame}
NSide == {n \in Particle : Frame[n] + 1 = frame}

Joining == pc \in {"trivial", "pick", "grow", "pairs"}

\* Where the program is, and in which frame.
Shape ==
    /\ parts = {} /\ \A t \in shelf : first[t] # NULL
    /\ pc = "begin" => frame = 0
    /\ pc = "first" => frame = 1
    /\ pc \in {"first", "trivial"} => todo \subseteq NSide
    /\ pc \notin {"begin", "first"} => frame >= 2
    /\ pc \in {"linked", "trimmed", "numbered"} => frame = NFrames
    /\ pc \in {"first", "next"} \/ Joining => store = NSide
    /\ Joining => pList \subseteq PSide /\ nList \subseteq NSide

\* Which particles are in tracks.
Placed ==
    /\ pc \in {"begin", "first"} =>
         \A p \in Particle : track[p] # NULL <=> Frame[p] < frame /\ p \notin todo
    /\ pc \in {"next", "linked"} => \A p \in Particle : track[p] # NULL <=> Frame[p] < frame
    /\ Joining => \A p \in Particle :
         /\ Frame[p] + 1 < frame => track[p] # NULL
         /\ Frame[p] >= frame => track[p] = NULL

\* What the lists of p and n can be filled with.
NearBefore(n) == {p \in Particle : n \in Near(p)}

\* The lists of the frames ahead are filled, or not begun.
Ahead ==
    \A p \in Particle :
        /\ nPos[p] \subseteq Near(p) /\ pPos[p] \subseteq NearBefore(p)
        /\ Frame[p] + 1 = frame => nPos[p] = Near(p)
        /\ Frame[p] >= frame => nPos[p] = {}
        /\ Frame[p] = frame => pPos[p] = NearBefore(p)
        /\ Frame[p] > frame => pPos[p] = {}

\* Those of the frames behind are gone.
Behind ==
    \A p \in Particle :
        /\ Frame[p] + 2 < frame => nPos[p] = {}
        /\ Frame[p] + 1 < frame => pPos[p] = {}
        /\ ~Joining /\ pc # "barf" =>
             /\ Frame[p] + 2 = frame => nPos[p] = {}
             /\ Frame[p] + 1 = frame => pPos[p] = {}

\* While the trivial bonds are made the lists are as they were filled.
Bonding ==
    pc = "trivial" =>
        /\ pList = PSide /\ nList = NSide
        /\ \A p \in PSide :
             /\ nPos[p] = Near(p)
             /\ next[p] # NULL => OnlyPair(p, next[p])
        /\ \A n \in NSide :
             /\ pPos[n] = NearBefore(n)
             /\ n \in todo => track[n] = NULL
             /\ n \notin todo /\ track[n] = NULL => pPos[n] # {}
             /\ track[n] # NULL => pPos[n] = {} \/ prev[n] # NULL

\* Behind the trivial bonds: who has candidates waits in the lists.
Waiting ==
    pc \in {"pick", "grow", "pairs"} =>
        /\ \A p \in PSide : nPos[p] # {} => p \in pList /\ next[p] = NULL
        /\ \A n \in NSide :
             /\ track[n] = NULL <=> pPos[n] # {}
             /\ pPos[n] # {} => n \in nList

Mirrored(P) ==
    \A p \in P, n \in NSide : n \in nPos[p] <=> p \in pPos[n]

\* A subnetwork grows: what is missing in it is queued.
Growing ==
    /\ pc \in {"pick", "grow"} => Mirrored(PSide)
    /\ pc = "pick" => \A p \in pList : next[p] = NULL
    /\ pc = "grow" =>
         /\ \A p \in pSub \cup tmpP : p \in PSide /\ next[p] = NULL
         /\ \A p \in pSub : nPos[p] \subseteq nSub \cup tmpN
         /\ \A n \in nSub : pPos[n] \subseteq pSub \cup tmpP
         /\ \A n \in nSub \cup tmpN : n \in NSide /\ pPos[n] # {}

\* The pairs of a subnetwork are linked one by one.
Pairing ==
    pc = "pairs" =>
        /\ pSub \subseteq DOMAIN pairing /\ DOMAIN pairing \subseteq PSide
        /\ InjectiveOn(pairing, NULL)
        /\ \A p \in DOMAIN pairing \ pSub : nPos[p] = {}
        /\ \A p \in pSub :
             /\ next[p] = NULL
             /\ pairing[p] = NULL \/ pairing[p] \in nSub \cap Near(p)
        /\ \A n \in nSub : n \in NSide /\ pPos[n] # {} /\ pPos[n] \subseteq DOMAIN pairing
        /\ \A n \in NSide : pPos[n] \cap DOMAIN pairing # {} => n \in nSub
        /\ Mirrored(PSide \ DOMAIN pairing)

\* What the program removes and numbers.
Output ==
    /\ pc \in {"trimmed", "numbered"} => \A t \in shelf : length[t] >= ShortestKept
    /\ pc = "numbered" =>
         \A t \in shelf : id[t] = Cardinality({u \in shelf : u < t})

LinkInv ==
    /\ TrackInv /\ LinkTypeOK
    /\ Shape /\ Placed /\ Ahead /\ Behind
    /\ Bonding /\ Waiting /\ Growing /\ Pairing /\ Output

-----------------------------------------------------------------------------
(* What the calls do to the tracks                                            *)

\* A particle in no track gets one of its own.
LEMMA TrackAdded ==
    ASSUME TrackInv, NEW p \in Particle, track[p] = NULL, AddNewTrack(p)
    PROVE  /\ Next /\ TrackInv'
           /\ next' = next /\ prev' = prev /\ parts' = parts
           /\ track' = [track EXCEPT ![p] = running] /\ running # NULL
           /\ shelf' = shelf \cup {running} /\ first' = [first EXCEPT ![running] = p]
           /\ running \in Box
<1>1. TrackInv'
  BY AddNewTrackKeeps DEF Free
<1>2. Chain(p) = {p}
  BY FreeParticle DEF TrackInv, Free
<1>3. running \in Box /\ running # NULL
  BY MaxTracksAssumption, NullAssumption DEF AddNewTrack, BuildBox, TrackInv, TypeOK, Box
<1>4. track' = [q \in Particle |-> IF q = p THEN running ELSE track[q]]
  BY <1>2 DEF AddNewTrack, BuildBox
<1>5. track' = [track EXCEPT ![p] = running]
  BY <1>4 DEF TrackInv, TypeOK
<1>6. Next
  BY DEF Next, Free
<1> QED
  BY <1>1, <1>3, <1>5, <1>6 DEF AddNewTrack, BuildBox

\* A particle in no track is linked to the last one of a track.
LEMMA TrackGrown ==
    ASSUME TrackInv, NEW t \in shelf, NEW n \in Particle, track[n] = NULL,
           last[t] # NULL, Frame[n] = Frame[last[t]] + 1, PushBack(t, n)
    PROVE  /\ Next /\ TrackInv'
           /\ next' = [next EXCEPT ![last[t]] = n] /\ prev' = [prev EXCEPT ![n] = last[t]]
           /\ track' = [track EXCEPT ![n] = t] /\ t # NULL
           /\ UNCHANGED <<first, shelf, parts>>
<1>1. PushNext(t, n)
  BY DEF PushBack, PushFirst
<1>2. TrackInv'
  BY <1>1, PushNextKeeps DEF Free, Follows
<1>3. ~thrown'
  BY <1>2 DEF TrackInv, ChainInv, NeverNukes
<1>4. Chain(n) = {n} /\ next[n] = NULL
  BY FreeParticle DEF TrackInv, Free
<1>5. next' = [next EXCEPT ![last[t]] = n] /\ prev' = [prev EXCEPT ![n] = last[t]]
  BY <1>1, <1>3 DEF PushNext
<1>6. track' = [q \in Particle |-> IF q = n THEN t ELSE track[q]]
  BY <1>1, <1>3, <1>4 DEF PushNext, JoinTail
<1>7. track' = [track EXCEPT ![n] = t]
  BY <1>6 DEF TrackInv, TypeOK
<1>8. t # NULL
  BY NullAssumption DEF TrackInv, TypeOK
<1>9. Next
  BY DEF Next, Free, Follows
<1> QED
  BY <1>1, <1>2, <1>5, <1>7, <1>8, <1>9 DEF PushNext

\* Between the frames in hand a particle without a next one is the last of its
\* track, so one of the next frame may follow it.
LEMMA LastOfTrack ==
    ASSUME TrackInv, parts = {}, NEW p \in Particle, track[p] # NULL, next[p] = NULL
    PROVE  track[p] \in shelf /\ last[track[p]] = p
BY DEF TrackInv, ChainInv, NoDanglingTrack, EndsAgree, Live

\* A bond of two particles, as trivial_bonds and link_pairs make it.
LEMMA Bonded ==
    ASSUME TrackInv, parts = {}, NEW p \in Particle, track[p] # NULL, next[p] = NULL,
           NEW n \in Particle, track[n] = NULL, Frame[n] = Frame[p] + 1,
           PushBack(track[p], n)
    PROVE  /\ Next /\ TrackInv'
           /\ next' = [next EXCEPT ![p] = n] /\ prev' = [prev EXCEPT ![n] = p]
           /\ track' = [track EXCEPT ![n] = track[p]]
           /\ UNCHANGED <<first, shelf, parts>>
<1>1. track[p] \in shelf /\ last[track[p]] = p /\ p # NULL
  BY LastOfTrack, NullAssumption
<1> QED
  BY <1>1, TrackGrown

LEMMA Links ==
    ASSUME TrackInv, NEW p \in Particle
    PROVE  /\ track[p] = NULL => next[p] = NULL /\ prev[p] = NULL
           /\ next[p] # NULL => /\ next[p] \in Particle /\ track[next[p]] = track[p]
                                /\ Frame[next[p]] = Frame[p] + 1 /\ prev[next[p]] = p
           /\ prev[p] # NULL => prev[p] \in Particle /\ next[prev[p]] = p
BY DEF TrackInv, TypeOK, ParticleOrNull, ChainInv, OneTrackAlongChain, Reciprocal

\* The distances stay, and with them who is near whom.
LEMMA NearStays ==
    ASSUME dist' = dist
    PROVE  \A p \in Particle : Near(p)' = Near(p) /\ NearBefore(p)' = NearBefore(p)
BY DEF Near, NearBefore

LEMMA FrameTypes ==
    NFrames \in Nat /\ \A p \in Particle : Frame[p] \in Nat /\ Frame[p] < NFrames
BY FramesAssumption, ParticleAssumption

LEMMA NearFrames ==
    /\ \A p, n \in Particle : n \in Near(p) => Frame[n] = Frame[p] + 1
    /\ \A p \in Particle : Near(p) \subseteq Particle /\ NearBefore(p) \subseteq Particle
BY DEF Near, NearBefore, Consecutive

LEMMA ListsFilled ==
    ASSUME LinkTypeOK, NEW k
    PROVE  /\ FilledNext(k) \in [Particle -> SUBSET Particle]
           /\ FilledPrev(k) \in [Particle -> SUBSET Particle]
           /\ \A p \in Particle :
                /\ FilledNext(k)[p] = IF Frame[p] = k THEN nPos[p] \cup Near(p) ELSE nPos[p]
                /\ FilledPrev(k)[p] = IF Frame[p] = k + 1 THEN pPos[p] \cup NearBefore(p)
                                                          ELSE pPos[p]
<1>1. \A p \in Particle : Near(p) \in SUBSET Particle /\ NearBefore(p) \in SUBSET Particle
  BY NearFrames
<1> QED
  BY <1>1 DEF LinkTypeOK, FilledNext, FilledPrev, NearBefore

-----------------------------------------------------------------------------
(* From frame to frame                                                        *)

LEMMA BeginKeeps ==
    ASSUME LinkInv, Begin
    PROVE  LinkInv' /\ [Next]_trackVars
<1> USE FrameTypes
<1>1. /\ pc = "begin" /\ frame = 0 /\ pc' = "first" /\ frame' = 1 /\ UNCHANGED trackVars
      /\ dist' = dist /\ store' = InFrame(0) /\ todo' = InFrame(0)
      /\ nPos' = FilledNext(0) /\ pPos' = FilledPrev(0)
      /\ pList' = pList /\ nList' = nList /\ UNCHANGED netVars
  BY DEF LinkInv, Shape, Begin
<1>2. TrackInv'
  BY <1>1, NextKeeps DEF LinkInv
<1>3. InFrame(0) = NSide' /\ InFrame(0) \subseteq Particle
  BY <1>1 DEF InFrame, NSide
<1>4. LinkTypeOK'
  BY <1>1, <1>2, <1>3, ListsFilled, FramesAssumption DEF LinkInv, LinkTypeOK, netVars, TrackInv
<1>5. Shape' /\ Placed'
  BY <1>1, <1>3 DEF LinkInv, Shape, Placed, Joining, trackVars, InFrame
<1>6. \A p \in Particle : Near(p)' = Near(p) /\ NearBefore(p)' = NearBefore(p)
  BY <1>1, NearStays
<1>7. \A p \in Particle :
        /\ nPos'[p] = IF Frame[p] = 0 THEN nPos[p] \cup Near(p) ELSE nPos[p]
        /\ pPos'[p] = IF Frame[p] = 1 THEN pPos[p] \cup NearBefore(p) ELSE pPos[p]
  <2>1. /\ nPos' = FilledNext(0) /\ pPos' = FilledPrev(0) /\ LinkTypeOK
        /\ \A p \in Particle : Frame[p] = 0 + 1 <=> Frame[p] = 1
    BY <1>1 DEF LinkInv
  <2> QED
    BY <2>1, ListsFilled
<1>8. \A p \in Particle : /\ nPos[p] = {} /\ pPos[p] = {}
                          /\ Frame[p] = 0 => NearBefore(p) = {}
  <2> SUFFICES ASSUME NEW p \in Particle
               PROVE  nPos[p] = {} /\ pPos[p] = {} /\ (Frame[p] = 0 => NearBefore(p) = {})
    OBVIOUS
  <2>1. Frame[p] = 0 => NearBefore(p) = {}
    BY NearFrames DEF NearBefore
  <2> QED
    BY <1>1, <2>1 DEF LinkInv, Ahead
<1>9. Ahead'
  <2> SUFFICES ASSUME NEW p \in Particle
               PROVE  /\ nPos'[p] \subseteq Near(p) /\ pPos'[p] \subseteq NearBefore(p)
                      /\ Frame[p] = 0 => nPos'[p] = Near(p)
                      /\ Frame[p] >= 1 => nPos'[p] = {}
                      /\ Frame[p] = 1 => pPos'[p] = NearBefore(p)
                      /\ Frame[p] > 1 => pPos'[p] = {}
    BY <1>1, <1>6 DEF Ahead
  <2> QED
    BY <1>7, <1>8
<1>9a. Behind'
  <2> SUFFICES ASSUME NEW p \in Particle
               PROVE  /\ Frame[p] + 2 < 1 => nPos'[p] = {}
                      /\ Frame[p] + 1 < 1 => pPos'[p] = {}
                      /\ Frame[p] + 2 = 1 => nPos'[p] = {}
                      /\ Frame[p] + 1 = 1 => pPos'[p] = {}
    BY <1>1 DEF Behind
  <2>1. /\ Frame[p] \in Nat /\ nPos[p] = {} /\ pPos[p] = {}
        /\ pPos'[p] = IF Frame[p] = 1 THEN pPos[p] \cup NearBefore(p) ELSE pPos[p]
    BY <1>7, <1>8
  <2> QED
    BY <2>1
<1>10. Bonding' /\ Waiting' /\ Growing' /\ Pairing' /\ Output'
  BY <1>1 DEF Bonding, Waiting, Growing, Pairing, Output
<1> QED
  BY <1>1, <1>2, <1>4, <1>5, <1>9, <1>9a, <1>10 DEF LinkInv

LEMMA FirstTrackKeeps ==
    ASSUME LinkInv, NEW p \in Particle, FirstTrack(p)
    PROVE  LinkInv' /\ [Next]_trackVars
<1> USE FrameTypes
<1>1. /\ pc = "first" /\ frame = 1 /\ pc' = "first" /\ frame' = 1
      /\ p \in todo /\ todo' = todo \ {p} /\ AddNewTrack(p)
      /\ UNCHANGED <<dist, posVars, listVars, netVars>>
  BY DEF LinkInv, Shape, FirstTrack
<1>2. p \in NSide /\ track[p] = NULL
  BY <1>1 DEF LinkInv, Placed, Shape, NSide
<1>3. /\ Next /\ TrackInv' /\ track' = [track EXCEPT ![p] = running] /\ running # NULL
      /\ parts' = parts /\ shelf' = shelf \cup {running}
      /\ first' = [first EXCEPT ![running] = p] /\ running \in Box
  BY <1>1, <1>2, TrackAdded DEF LinkInv
<1>4. LinkTypeOK'
  BY <1>1, <1>3 DEF LinkInv, LinkTypeOK, TrackInv, posVars, listVars, netVars
<1>5. Shape'
  BY <1>1, <1>3, NullAssumption DEF LinkInv, Shape, Joining, NSide, listVars, TrackInv, TypeOK
<1>6. Placed'
  BY <1>1, <1>2, <1>3 DEF LinkInv, Placed, Joining, TrackInv, TypeOK, NSide
<1>7. Ahead' /\ Behind'
  BY <1>1, NearStays DEF LinkInv, Ahead, Behind, Joining, posVars
<1>8. Bonding' /\ Waiting' /\ Growing' /\ Pairing' /\ Output'
  BY <1>1 DEF Bonding, Waiting, Growing, Pairing, Output
<1> QED
  BY <1>3, <1>4, <1>5, <1>6, <1>7, <1>8 DEF LinkInv

LEMMA NextFrameKeeps ==
    ASSUME LinkInv, NextFrame
    PROVE  LinkInv' /\ [Next]_trackVars
<1> USE FrameTypes
<1>1. /\ frame \in Nat /\ frame >= 1 /\ frame < NFrames /\ frame' = frame + 1
      /\ pc \in {"first", "next"} /\ pc' = "trivial"
      /\ \A p \in Particle : track[p] # NULL <=> Frame[p] < frame
      /\ store = NSide
      /\ UNCHANGED <<trackVars, dist, netVars>>
      /\ pList' = store /\ store' = InFrame(frame)
      /\ nList' = InFrame(frame) /\ todo' = InFrame(frame)
  <2>1. frame \in 0 .. NFrames /\ Shape /\ Placed
    BY DEF LinkInv, LinkTypeOK
  <2>2. CASE pc = "next"
    BY <2>1, <2>2 DEF Shape, Placed, NextFrame, FramesLeft
  <2>3. CASE pc = "first" /\ todo = {}
    BY <2>1, <2>3 DEF Shape, Placed, NextFrame, FramesLeft
  <2> QED
    BY <2>2, <2>3 DEF NextFrame, AtLoopHead
<1>2. TrackInv'
  BY <1>1, NextKeeps DEF LinkInv
<1>3. /\ InFrame(frame) = NSide' /\ NSide = PSide'
      /\ InFrame(frame) \subseteq Particle /\ NSide \subseteq Particle
  BY <1>1 DEF InFrame, NSide, PSide
<1>4. \A p \in Particle : Near(p)' = Near(p) /\ NearBefore(p)' = NearBefore(p)
  BY <1>1, NearStays
<1>5. /\ nPos' \in [Particle -> SUBSET Particle] /\ pPos' \in [Particle -> SUBSET Particle]
      /\ \A p \in Particle :
           /\ nPos'[p] = IF Frame[p] = frame THEN nPos[p] \cup Near(p) ELSE nPos[p]
           /\ pPos'[p] = IF Frame[p] = frame + 1 THEN pPos[p] \cup NearBefore(p) ELSE pPos[p]
  <2>1. CASE frame + 1 < NFrames
    <3>1. nPos' = FilledNext(frame) /\ pPos' = FilledPrev(frame) /\ LinkTypeOK
      BY <2>1 DEF NextFrame, LinkInv
    <3> QED
      BY <3>1, ListsFilled
  <2>2. CASE ~(frame + 1 < NFrames)
    <3>1. nPos' = nPos /\ pPos' = pPos /\ LinkTypeOK
      BY <2>2 DEF NextFrame, posVars, LinkInv
    <3>2. \A p \in Particle : /\ Frame[p] # frame + 1
                              /\ Frame[p] = frame => Near(p) = {}
      <4>1. \A n \in Particle : Frame[n] # frame + 1
        BY <2>2, <1>1
      <4> QED
        BY <4>1, NearFrames
    <3> QED
      BY <3>1, <3>2 DEF LinkTypeOK
  <2> QED
    BY <2>1, <2>2
<1>6. LinkTypeOK'
  BY <1>1, <1>2, <1>3, <1>5 DEF LinkInv, LinkTypeOK, netVars, TrackInv
<1>7. Shape'
  BY <1>1, <1>3 DEF LinkInv, Shape, Joining, trackVars
<1>8. Placed'
  <2> SUFFICES ASSUME NEW p \in Particle
               PROVE  /\ Frame[p] + 1 < frame + 1 => track[p] # NULL
                      /\ Frame[p] >= frame + 1 => track[p] = NULL
    BY <1>1 DEF Placed, Joining, trackVars
  <2>1. Frame[p] \in Nat
    OBVIOUS
  <2> QED
    BY <2>1, <1>1
<1>9. Ahead'
  <2> SUFFICES ASSUME NEW p \in Particle
               PROVE  /\ nPos'[p] \subseteq Near(p) /\ pPos'[p] \subseteq NearBefore(p)
                      /\ Frame[p] + 1 = frame + 1 => nPos'[p] = Near(p)
                      /\ Frame[p] >= frame + 1 => nPos'[p] = {}
                      /\ Frame[p] = frame + 1 => pPos'[p] = NearBefore(p)
                      /\ Frame[p] > frame + 1 => pPos'[p] = {}
    BY <1>1, <1>4 DEF Ahead
  <2>1. /\ nPos'[p] = IF Frame[p] = frame THEN nPos[p] \cup Near(p) ELSE nPos[p]
        /\ pPos'[p] = IF Frame[p] = frame + 1 THEN pPos[p] \cup NearBefore(p) ELSE pPos[p]
    BY <1>5
  <2>2. /\ nPos[p] \subseteq Near(p) /\ pPos[p] \subseteq NearBefore(p)
        /\ Frame[p] >= frame => nPos[p] = {}
        /\ Frame[p] > frame => pPos[p] = {}
    BY DEF LinkInv, Ahead
  <2>3. Frame[p] \in Nat
    OBVIOUS
  <2> QED
    BY <2>1, <2>2, <2>3, <1>1
<1>10. Behind'
  <2> SUFFICES ASSUME NEW p \in Particle
               PROVE  /\ Frame[p] + 2 < frame + 1 => nPos'[p] = {}
                      /\ Frame[p] + 1 < frame + 1 => pPos'[p] = {}
    BY <1>1 DEF Behind, Joining
  <2>1. /\ nPos'[p] = IF Frame[p] = frame THEN nPos[p] \cup Near(p) ELSE nPos[p]
        /\ pPos'[p] = IF Frame[p] = frame + 1 THEN pPos[p] \cup NearBefore(p) ELSE pPos[p]
    BY <1>5
  <2>2. /\ Frame[p] + 2 < frame => nPos[p] = {}
        /\ Frame[p] + 1 < frame => pPos[p] = {}
        /\ Frame[p] + 2 = frame => nPos[p] = {}
        /\ Frame[p] + 1 = frame => pPos[p] = {}
    BY <1>1 DEF LinkInv, Behind, Joining
  <2>3. Frame[p] \in Nat
    OBVIOUS
  <2> QED
    BY <2>1, <2>2, <2>3, <1>1
<1>11. Bonding'
  <2>1. ASSUME NEW p \in NSide
        PROVE  nPos'[p] = Near(p) /\ next[p] = NULL
    <3>1. p \in Particle /\ Frame[p] + 1 = frame /\ Frame[p] \in Nat
      BY DEF NSide
    <3>2. nPos'[p] = nPos[p] /\ nPos[p] = Near(p)
      BY <3>1, <1>5, <1>1 DEF LinkInv, Ahead
    <3>3. next[p] # NULL => /\ next[p] \in Particle /\ Frame[next[p]] = frame
                            /\ track[next[p]] = track[p]
      BY <3>1, Links DEF LinkInv
    <3>4. track[p] # NULL
      BY <3>1, <1>1
    <3> QED
      BY <3>2, <3>3, <3>4, <1>1
  <2>2. ASSUME NEW n \in InFrame(frame)
        PROVE  pPos'[n] = NearBefore(n) /\ track[n] = NULL
    <3>1. n \in Particle /\ Frame[n] = frame
      BY DEF InFrame
    <3> QED
      BY <3>1, <1>1, <1>5 DEF LinkInv, Ahead
  <2>3. next' = next /\ track' = track /\ prev' = prev
    BY <1>1 DEF trackVars
  <2>4. PSide' \subseteq Particle /\ NSide' \subseteq Particle
    BY <1>3
  <2> QED
    BY <1>1, <1>3, <1>4, <2>1, <2>2, <2>3, <2>4, <1>1 DEF Bonding, OnlyPair
<1>12. Waiting' /\ Growing' /\ Pairing' /\ Output'
  BY <1>1 DEF Waiting, Growing, Pairing, Output
<1> QED
  BY <1>1, <1>2, <1>6, <1>7, <1>8, <1>9, <1>10, <1>11, <1>12 DEF LinkInv

\* ~track_list frees what the last frame has left.
LEMMA FinishKeeps ==
    ASSUME LinkInv, Finish
    PROVE  LinkInv' /\ [Next]_trackVars
<1> USE FrameTypes
<1>1. /\ frame \in Nat /\ frame >= 1 /\ frame = NFrames /\ frame' = frame
      /\ pc \in {"first", "next"} /\ pc' = "linked"
      /\ \A p \in Particle : track[p] # NULL <=> Frame[p] < frame
      /\ store = NSide /\ store' = {}
      /\ UNCHANGED <<trackVars, dist, pList, nList, todo, netVars>>
  <2>1. frame \in 0 .. NFrames /\ Shape /\ Placed
    BY DEF LinkInv, LinkTypeOK
  <2>2. CASE pc = "next"
    BY <2>1, <2>2 DEF Shape, Placed, Finish
  <2>3. CASE pc = "first" /\ todo = {}
    BY <2>1, <2>3 DEF Shape, Placed, Finish
  <2> QED
    BY <2>2, <2>3 DEF Finish, AtLoopHead
<1>2. TrackInv'
  BY <1>1, NextKeeps DEF LinkInv
<1>3. \A p \in Particle : /\ nPos'[p] = IF p \in store THEN {} ELSE nPos[p]
                          /\ pPos'[p] = IF p \in store THEN {} ELSE pPos[p]
  BY DEF Finish
<1>4. LinkTypeOK'
  BY <1>1, <1>2 DEF LinkInv, LinkTypeOK, netVars, TrackInv, Finish
<1>5. Shape' /\ Placed'
  BY <1>1, FramesAssumption DEF LinkInv, Shape, Placed, Joining, trackVars
<1>6. Ahead'
  <2> SUFFICES ASSUME NEW p \in Particle
               PROVE  /\ nPos'[p] \subseteq Near(p) /\ pPos'[p] \subseteq NearBefore(p)
                      /\ Frame[p] + 1 = frame => nPos'[p] = Near(p)
                      /\ Frame[p] >= frame => nPos'[p] = {}
                      /\ Frame[p] = frame => pPos'[p] = NearBefore(p)
                      /\ Frame[p] > frame => pPos'[p] = {}
    BY <1>1, NearStays DEF Ahead
  <2>1. ASSUME Frame[p] + 1 = frame
        PROVE  Near(p) = {}
    BY <2>1, <1>1, NearFrames
  <2>2. ~(Frame[p] >= frame) /\ ~(Frame[p] = frame) /\ ~(Frame[p] > frame)
    <3>1. Frame[p] \in Nat /\ Frame[p] < NFrames /\ NFrames \in Nat /\ frame = NFrames
      BY <1>1
    <3> QED
      BY <3>1
  <2>3. nPos[p] \subseteq Near(p) /\ pPos[p] \subseteq NearBefore(p)
    BY DEF LinkInv, Ahead
  <2>4. nPos'[p] \subseteq nPos[p] /\ pPos'[p] \subseteq pPos[p]
    BY <1>3
  <2> QED
    BY <2>1, <2>2, <2>3, <2>4
<1>7. Behind'
  <2> SUFFICES ASSUME NEW p \in Particle
               PROVE  /\ Frame[p] + 2 <= frame => nPos'[p] = {}
                      /\ Frame[p] + 1 <= frame => pPos'[p] = {}
    <3>1. \A p \in Particle : /\ Frame[p] + 2 < frame \/ Frame[p] + 2 = frame => Frame[p] + 2 <= frame
                              /\ Frame[p] + 1 < frame \/ Frame[p] + 1 = frame => Frame[p] + 1 <= frame
      BY <1>1
    <3> QED
      BY <3>1, <1>1 DEF Behind
  <2>1. /\ Frame[p] + 2 < frame => nPos[p] = {}
        /\ Frame[p] + 1 < frame => pPos[p] = {}
        /\ Frame[p] + 2 = frame => nPos[p] = {}
        /\ Frame[p] + 1 = frame => pPos[p] = {}
    BY <1>1 DEF LinkInv, Behind, Joining
  <2>2. Frame[p] \in Nat
    OBVIOUS
  <2> QED
    BY <2>1, <2>2, <1>1, <1>3
<1>8. Bonding' /\ Waiting' /\ Growing' /\ Pairing' /\ Output'
  BY <1>1 DEF Bonding, Waiting, Growing, Pairing, Output
<1> QED
  BY <1>1, <1>2, <1>4, <1>5, <1>6, <1>7, <1>8 DEF LinkInv

-----------------------------------------------------------------------------
(* Joining two frames                                                         *)

\* Freeing lists of the two frames in hand leaves those of the frames ahead and
\* behind as they are.
LEMMA Freed ==
    ASSUME LinkInv, Joining, frame' = frame, dist' = dist,
           \A p \in Particle :
               /\ nPos'[p] \subseteq nPos[p] /\ pPos'[p] \subseteq pPos[p]
               /\ Frame[p] + 2 # frame => nPos'[p] = nPos[p]
               /\ Frame[p] + 1 # frame => pPos'[p] = pPos[p],
           ~Joining' /\ pc' # "barf" =>
               (\A p \in PSide : nPos'[p] = {}) /\ (\A n \in NSide : pPos'[n] = {})
    PROVE  Ahead' /\ Behind'
<1> USE FrameTypes
<1>1. frame \in Nat
  BY DEF LinkInv, LinkTypeOK
<1>2. Ahead'
  <2> SUFFICES ASSUME NEW p \in Particle
               PROVE  /\ nPos'[p] \subseteq Near(p) /\ pPos'[p] \subseteq NearBefore(p)
                      /\ Frame[p] + 1 = frame => nPos'[p] = Near(p)
                      /\ Frame[p] >= frame => nPos'[p] = {}
                      /\ Frame[p] = frame => pPos'[p] = NearBefore(p)
                      /\ Frame[p] > frame => pPos'[p] = {}
    BY NearStays DEF Ahead
  <2>1. /\ nPos[p] \subseteq Near(p) /\ pPos[p] \subseteq NearBefore(p)
        /\ Frame[p] + 1 = frame => nPos[p] = Near(p)
        /\ Frame[p] >= frame => nPos[p] = {}
        /\ Frame[p] = frame => pPos[p] = NearBefore(p)
        /\ Frame[p] > frame => pPos[p] = {}
    BY DEF LinkInv, Ahead
  <2>2. Frame[p] \in Nat /\ (Frame[p] + 1 = frame => Frame[p] + 2 # frame)
        /\ (Frame[p] = frame => Frame[p] + 1 # frame)
    BY <1>1
  <2> QED
    BY <2>1, <2>2
<1>3. Behind'
  <2> SUFFICES ASSUME NEW p \in Particle
               PROVE  /\ Frame[p] + 2 < frame => nPos'[p] = {}
                      /\ Frame[p] + 1 < frame => pPos'[p] = {}
                      /\ ~Joining' /\ pc' # "barf" =>
                           /\ Frame[p] + 2 = frame => nPos'[p] = {}
                           /\ Frame[p] + 1 = frame => pPos'[p] = {}
    BY DEF Behind
  <2>1. /\ Frame[p] + 2 < frame => nPos[p] = {}
        /\ Frame[p] + 1 < frame => pPos[p] = {}
    BY DEF LinkInv, Behind
  <2>2. /\ Frame[p] + 2 = frame => p \in PSide
        /\ Frame[p] + 1 = frame => p \in NSide
    BY DEF PSide, NSide
  <2> QED
    BY <2>1, <2>2
<1> QED
  BY <1>2, <1>3

\* A list with one candidate in it has no other.
LEMMA OnlyOne ==
    ASSUME LinkTypeOK, NEW p \in Particle, Cardinality(nPos[p]) = 1
    PROVE  \A m, n \in nPos[p] : m = n
<1>1. IsFiniteSet(nPos[p])
  BY ParticleAssumption, FS_Subset DEF LinkTypeOK
<1> QED
  BY <1>1, FS_Singleton

\* A pair that trivial_bonds makes: both are free, in the two frames in hand.
LEMMA OnlyPairIsFree ==
    ASSUME LinkInv, pc = "trivial", NEW n \in todo, NEW p \in Particle, OnlyPair(p, n)
    PROVE  /\ n \in NSide /\ track[n] = NULL /\ n \in Near(p) /\ Frame[n] = Frame[p] + 1
           /\ p \in PSide /\ track[p] # NULL /\ next[p] = NULL
<1> USE FrameTypes
<1>1. /\ TrackInv /\ LinkTypeOK /\ Placed /\ Bonding /\ frame \in Nat /\ frame >= 2
      /\ todo \subseteq NSide
  BY DEF LinkInv, LinkTypeOK, Shape
<1>2. n \in NSide /\ track[n] = NULL /\ Frame[n] + 1 = frame
  BY <1>1 DEF Bonding, NSide
<1>3. pPos[n] = {p} /\ Cardinality(nPos[p]) = 1
  BY DEF OnlyPair
<1>4. n \in Near(p)
  BY <1>1, <1>2, <1>3 DEF Bonding, NearBefore
<1>5. Frame[n] = Frame[p] + 1 /\ p \in PSide
  BY <1>2, <1>4, NearFrames DEF PSide
<1>6. track[p] # NULL
  BY <1>1, <1>2, <1>5 DEF Placed, Joining
<1>7. next[p] = NULL
  <2> SUFFICES ASSUME next[p] # NULL
               PROVE  FALSE
    OBVIOUS
  <2>1. next[p] \in Particle /\ Frame[next[p]] = Frame[p] + 1 /\ track[next[p]] = track[p]
    BY <1>1, Links
  <2>2. next[p] \in NSide
    BY <2>1, <1>2, <1>5 DEF NSide
  <2>3. pPos[next[p]] = {p}
    BY <1>1, <1>5 DEF Bonding, OnlyPair
  <2>4. next[p] \in nPos[p] /\ n \in nPos[p]
    BY <1>1, <1>4, <1>5, <2>2, <2>3 DEF Bonding, NearBefore
  <2>5. next[p] = n
    BY <2>4, <1>1, <1>3, OnlyOne
  <2> QED
    BY <2>1, <2>5, <1>2, <1>6
<1> QED
  BY <1>2, <1>4, <1>5, <1>6, <1>7

LEMMA TrivialBondKeeps ==
    ASSUME LinkInv, NEW n \in Particle, TrivialBond(n)
    PROVE  LinkInv' /\ [Next]_trackVars
<1> USE FrameTypes
<1>1. /\ pc = "trivial" /\ pc' = "trivial" /\ n \in todo /\ todo' = todo \ {n}
      /\ UNCHANGED <<dist, posVars, frame, listVars, netVars>>
  BY DEF TrivialBond
<1>2. /\ TrackInv /\ LinkTypeOK /\ Shape /\ Placed /\ Bonding /\ frame \in Nat
      /\ todo \subseteq NSide /\ parts = {} /\ \A t \in shelf : first[t] # NULL
      /\ pList = PSide /\ nList = NSide /\ store = NSide /\ frame >= 2
  BY <1>1 DEF LinkInv, LinkTypeOK, Shape, Bonding, Joining
<1>3. n \in NSide /\ track[n] = NULL /\ Frame[n] + 1 = frame
  BY <1>1, <1>2 DEF Bonding, NSide
<1>4. Ahead' /\ Behind'
  BY <1>1, Freed DEF LinkInv, Joining, posVars
<1>5. PSide' = PSide /\ NSide' = NSide
  BY <1>1 DEF PSide, NSide
<1>6. \A p \in Particle : Near(p)' = Near(p) /\ NearBefore(p)' = NearBefore(p)
  BY <1>1, NearStays
\* What is to be shown of the tracks after the step.
<1> DEFINE Good ==
      /\ TrackInv' /\ [Next]_trackVars /\ parts' = {}
      /\ \A t \in shelf' : first'[t] # NULL
      /\ \A q \in Particle : q # n => track'[q] = track[q]
      /\ \A q \in PSide : next'[q] # next[q] => OnlyPair(q, n) /\ next'[q] = n
      /\ \A m \in NSide : m # n => prev'[m] = prev[m]
      /\ track'[n] = NULL => pPos[n] # {}
      /\ track'[n] # NULL => pPos[n] = {} \/ prev'[n] # NULL
<1>7. ASSUME pPos[n] = {}, AddNewTrack(n)
      PROVE  Good
  <2>1. /\ Next /\ TrackInv' /\ next' = next /\ prev' = prev /\ parts' = parts
        /\ track' = [track EXCEPT ![n] = running] /\ running # NULL
        /\ shelf' = shelf \cup {running} /\ first' = [first EXCEPT ![running] = n]
        /\ running \in Box
    BY <1>2, <1>3, <1>7, TrackAdded
  <2> QED
    BY <2>1, <1>2, <1>7, NullAssumption DEF TrackInv, TypeOK
<1>8. ASSUME NEW p \in Particle, OnlyPair(p, n), PushBack(track[p], n)
      PROVE  Good
  <2>1. Frame[n] = Frame[p] + 1 /\ p \in PSide /\ track[p] # NULL /\ next[p] = NULL
    BY <1>1, <1>8, OnlyPairIsFree
  <2>2. /\ Next /\ TrackInv'
        /\ next' = [next EXCEPT ![p] = n] /\ prev' = [prev EXCEPT ![n] = p]
        /\ track' = [track EXCEPT ![n] = track[p]]
        /\ UNCHANGED <<first, shelf, parts>>
    BY <1>2, <1>3, <1>8, <2>1, Bonded
  <2> QED
    BY <2>1, <2>2, <1>2, <1>8, NullAssumption DEF TrackInv, TypeOK
<1>9. ASSUME pPos[n] # {}, UNCHANGED trackVars
      PROVE  Good
  BY <1>9, <1>2, <1>3, NextKeeps DEF trackVars
<1>10. Good
  BY <1>7, <1>8, <1>9 DEF TrivialBond
<1>11. LinkTypeOK' /\ Shape'
  BY <1>1, <1>2, <1>5, <1>10
  DEF LinkTypeOK, Shape, Joining, posVars, listVars, netVars, TrackInv
<1>12. Placed'
  <2> SUFFICES ASSUME NEW q \in Particle
               PROVE  /\ Frame[q] + 1 < frame => track'[q] # NULL
                      /\ Frame[q] >= frame => track'[q] = NULL
    BY <1>1 DEF Placed, Joining
  <2>1. /\ Frame[q] + 1 < frame => track[q] # NULL
        /\ Frame[q] >= frame => track[q] = NULL
    BY <1>1, <1>2 DEF Placed, Joining
  <2>2. Frame[q] \in Nat
    OBVIOUS
  <2>3. CASE q = n
    BY <2>2, <2>3, <1>2, <1>3
  <2>4. CASE q # n
    BY <2>1, <2>4, <1>10
  <2> QED
    BY <2>3, <2>4
<1>13. Bonding'
  <2>1. pPos' = pPos /\ nPos' = nPos /\ pList' = pList /\ nList' = nList
    BY <1>1 DEF posVars, listVars
  <2>2. ASSUME NEW p \in PSide
        PROVE  /\ nPos[p] = Near(p)
               /\ next'[p] # NULL => OnlyPair(p, next'[p])
    <3>1. nPos[p] = Near(p) /\ (next[p] # NULL => OnlyPair(p, next[p]))
      BY <1>1, <1>2 DEF Bonding
    <3>2. CASE next'[p] = next[p]
      BY <3>1, <3>2
    <3>3. CASE next'[p] # next[p]
      BY <3>1, <3>3, <1>10
    <3> QED
      BY <3>2, <3>3
  <2>3. ASSUME NEW m \in NSide
        PROVE  /\ pPos[m] = NearBefore(m)
               /\ m \in todo' => track'[m] = NULL
               /\ m \notin todo' /\ track'[m] = NULL => pPos[m] # {}
               /\ track'[m] # NULL => pPos[m] = {} \/ prev'[m] # NULL
    <3>1. /\ pPos[m] = NearBefore(m)
          /\ m \in todo => track[m] = NULL
          /\ m \notin todo /\ track[m] = NULL => pPos[m] # {}
          /\ track[m] # NULL => pPos[m] = {} \/ prev[m] # NULL
          /\ m \in Particle
      BY <1>1, <1>2 DEF Bonding, NSide
    <3>2. CASE m = n
      BY <3>1, <3>2, <1>1, <1>10
    <3>3. CASE m # n
      BY <3>1, <3>3, <1>1, <1>10
    <3> QED
      BY <3>2, <3>3
  <2>4. PSide \subseteq Particle /\ NSide \subseteq Particle
    BY DEF PSide, NSide
  <2> QED
    BY <1>2, <1>5, <1>6, <2>1, <2>2, <2>3, <2>4, <1>1 DEF Bonding, OnlyPair
<1>14. Waiting' /\ Growing' /\ Pairing' /\ Output'
  BY <1>1 DEF Waiting, Growing, Pairing, Output
<1> QED
  BY <1>4, <1>10, <1>11, <1>12, <1>13, <1>14 DEF LinkInv

\* clean_lists empties the lists of both ends of every bond: behind it, who
\* has a candidate waits in the lists, and the candidates mirror each other.
LEMMA Cleaned ==
    ASSUME LinkInv, CleanLists
    PROVE  /\ \A p \in PSide :
                nPos'[p] # {} => p \in pList' /\ next[p] = NULL /\ nPos'[p] = nPos[p]
           /\ \A n \in NSide :
                /\ track[n] = NULL <=> pPos'[n] # {}
                /\ pPos'[n] # {} => n \in nList'
           /\ \A p \in PSide, n \in NSide : n \in nPos'[p] <=> p \in pPos'[n]
<1> USE FrameTypes
<1>1. /\ \A p \in Particle : nPos'[p] = IF p \in pList /\ next[p] # NULL THEN {} ELSE nPos[p]
      /\ \A n \in Particle : pPos'[n] = IF n \in nList /\ prev[n] # NULL THEN {} ELSE pPos[n]
      /\ nList' = {n \in nList : prev[n] = NULL /\ pPos[n] # {}}
      /\ pList' = {p \in pList : next[p] = NULL /\ nPos[p] # {}}
  BY DEF CleanLists, CandidatesAfterBonds
<1>2. TrackInv /\ LinkTypeOK /\ (\A p \in PSide : p \in Particle) /\ \A n \in NSide : n \in Particle
  BY DEF LinkInv, PSide, NSide
<1>3. CASE pc = "trivial" /\ todo = {}
  <2>1. /\ pList = PSide /\ nList = NSide
        /\ \A p \in PSide :
             /\ nPos[p] = Near(p)
             /\ next[p] # NULL => OnlyPair(p, next[p])
        /\ \A n \in NSide :
             /\ pPos[n] = NearBefore(n)
             /\ track[n] = NULL => pPos[n] # {}
             /\ track[n] # NULL => pPos[n] = {} \/ prev[n] # NULL
    BY <1>3 DEF LinkInv, Bonding
  <2>2. \A p \in PSide, n \in NSide : n \in nPos[p] <=> p \in pPos[n]
    BY <1>2, <2>1 DEF NearBefore
  <2>3. \A n \in NSide : track[n] = NULL => prev[n] = NULL
    BY <1>2, Links
  <2>4. ASSUME NEW p \in PSide, NEW n \in NSide, n \in nPos[p]
        PROVE  next[p] = NULL <=> prev[n] = NULL
    <3>1. ASSUME next[p] # NULL
          PROVE  prev[n] = p
      <4>1. next[p] \in Particle /\ Frame[next[p]] = Frame[p] + 1 /\ prev[next[p]] = p
        BY <1>2, <3>1, Links
      <4>2. next[p] \in NSide
        BY <4>1, FrameTypes DEF PSide, NSide
      <4>3. pPos[next[p]] = {p} /\ Cardinality(nPos[p]) = 1
        BY <2>1, <3>1 DEF OnlyPair
      <4>4. next[p] \in nPos[p]
        BY <4>2, <4>3, <2>2
      <4>5. next[p] = n
        BY <4>3, <4>4, <2>4, <1>2, OnlyOne
      <4> QED
        BY <4>1, <4>5
    <3>2. ASSUME prev[n] # NULL
          PROVE  next[p] = n
      <4>1. prev[n] \in Particle /\ next[prev[n]] = n
        BY <1>2, <3>2, Links
      <4>2. n # NULL
        BY <1>2, NullAssumption
      <4>3. Frame[n] = Frame[prev[n]] + 1
        BY <1>2, <4>1, <4>2, Links
      <4>4. prev[n] \in PSide
        BY <4>1, <4>3, <1>2 DEF PSide, NSide
      <4>5. pPos[n] = {prev[n]}
        BY <2>1, <4>1, <4>2, <4>4 DEF OnlyPair
      <4>6. p \in pPos[n]
        BY <2>2, <2>4
      <4> QED
        BY <4>1, <4>5, <4>6
    <3> QED
      BY <1>2, <3>1, <3>2, NullAssumption
  <2>5. \A p \in PSide, n \in NSide : n \in nPos'[p] <=> p \in pPos'[n]
    BY <1>1, <1>2, <2>1, <2>2, <2>4
  <2> QED
    BY <1>1, <1>2, <2>1, <2>3, <2>5
<1>4. CASE pc = "pairs" /\ pSub = {} /\ nSub = {}
  <2>1. /\ \A p \in PSide : nPos[p] # {} => p \in pList /\ next[p] = NULL
        /\ \A n \in NSide :
             /\ track[n] = NULL <=> pPos[n] # {}
             /\ pPos[n] # {} => n \in nList
    BY <1>4 DEF LinkInv, Waiting
  <2>2. /\ \A p \in DOMAIN pairing : nPos[p] = {}
        /\ \A n \in NSide : pPos[n] \cap DOMAIN pairing = {}
        /\ \A p \in PSide \ DOMAIN pairing, n \in NSide : n \in nPos[p] <=> p \in pPos[n]
    BY <1>4 DEF LinkInv, Pairing, Mirrored
  <2>3. \A p \in PSide, n \in NSide : n \in nPos[p] <=> p \in pPos[n]
    BY <2>2
  <2>4. \A n \in NSide : pPos[n] # {} => prev[n] = NULL
    BY <1>2, <2>1, Links
  <2>5. \A p \in PSide : nPos'[p] = nPos[p]
    BY <1>1, <1>2, <2>1
  <2>6. \A n \in NSide : pPos'[n] = pPos[n]
    BY <1>1, <1>2, <2>4
  <2> QED
    BY <1>1, <2>1, <2>3, <2>4, <2>5, <2>6
<1> QED
  BY <1>3, <1>4 DEF CleanLists, CleanDue

LEMMA CleanListsKeeps ==
    ASSUME LinkInv, CleanLists
    PROVE  LinkInv' /\ [Next]_trackVars
<1> USE FrameTypes
<1>1. /\ pc \in {"trivial", "pairs"} /\ frame' = frame /\ dist' = dist
      /\ UNCHANGED <<trackVars, store, todo, netVars>>
      /\ nList' \subseteq nList /\ pList' \subseteq pList
      /\ pc' = IF nList' # {} /\ pList' # {} THEN "pick" ELSE "next"
      /\ \A p \in pList' : next[p] = NULL
  BY DEF CleanLists, CleanDue
<1>2. /\ TrackInv /\ LinkTypeOK /\ Shape /\ Placed /\ frame \in Nat /\ frame >= 2
      /\ pList \subseteq PSide /\ nList \subseteq NSide /\ store = NSide
  BY <1>1 DEF LinkInv, LinkTypeOK, Shape, Joining
<1>3. PSide' = PSide /\ NSide' = NSide
  BY <1>1 DEF PSide, NSide
<1>4. TrackInv'
  BY <1>1, <1>2, NextKeeps
<1>5. /\ nPos' \in [Particle -> SUBSET Particle] /\ pPos' \in [Particle -> SUBSET Particle]
      /\ \A p \in Particle :
           /\ nPos'[p] \subseteq nPos[p] /\ pPos'[p] \subseteq pPos[p]
           /\ Frame[p] + 2 # frame => nPos'[p] = nPos[p]
           /\ Frame[p] + 1 # frame => pPos'[p] = pPos[p]
  <2>1. /\ \A p \in Particle : p \in pList => Frame[p] + 2 = frame
        /\ \A p \in Particle : p \in nList => Frame[p] + 1 = frame
    BY <1>2 DEF PSide, NSide
  <2>2. /\ \A p \in Particle : nPos'[p] = IF p \in pList /\ next[p] # NULL THEN {} ELSE nPos[p]
        /\ \A n \in Particle : pPos'[n] = IF n \in nList /\ prev[n] # NULL THEN {} ELSE pPos[n]
    BY DEF CleanLists, CandidatesAfterBonds
  <2>3. nPos' \in [Particle -> SUBSET Particle] /\ pPos' \in [Particle -> SUBSET Particle]
    BY <1>2 DEF CleanLists, CandidatesAfterBonds, LinkTypeOK
  <2> QED
    BY <2>1, <2>2, <2>3
<1>6. /\ \A p \in PSide : nPos'[p] # {} => p \in pList' /\ next[p] = NULL
      /\ \A n \in NSide :
           /\ track[n] = NULL <=> pPos'[n] # {}
           /\ pPos'[n] # {} => n \in nList'
      /\ \A p \in PSide, n \in NSide : n \in nPos'[p] <=> p \in pPos'[n]
  BY Cleaned
<1>7. ASSUME pc' = "next"
      PROVE  (\A p \in PSide : nPos'[p] = {}) /\ (\A n \in NSide : pPos'[n] = {})
  <2>1. nList' = {} \/ pList' = {}
    BY <1>1, <1>7
  <2>2. \A p \in PSide, n \in NSide : ~(n \in nPos'[p]) /\ ~(p \in pPos'[n])
    BY <2>1, <1>6
  <2>3. ASSUME NEW p \in PSide, NEW n \in nPos'[p]
        PROVE  FALSE
    <3>1. p \in Particle /\ Frame[p] + 2 = frame /\ n \in nPos[p]
      BY <1>5 DEF PSide
    <3>2. n \in Near(p) /\ n \in Particle
      BY <3>1, <1>2 DEF LinkInv, Ahead, LinkTypeOK
    <3>3. Frame[n] = Frame[p] + 1
      BY <3>1, <3>2, NearFrames
    <3>4. n \in NSide
      BY <3>1, <3>2, <3>3, <1>2 DEF NSide
    <3> QED
      BY <3>4, <2>2
  <2>4. ASSUME NEW n \in NSide, NEW p \in pPos'[n]
        PROVE  FALSE
    <3>1. n \in Particle /\ Frame[n] + 1 = frame /\ p \in pPos[n]
      BY <1>5 DEF NSide
    <3>2. p \in Particle /\ n \in Near(p)
      BY <3>1, <1>2 DEF LinkInv, Ahead, LinkTypeOK, NearBefore
    <3>3. Frame[n] = Frame[p] + 1
      BY <3>1, <3>2, NearFrames
    <3>4. p \in PSide
      BY <3>1, <3>2, <3>3, <1>2 DEF PSide
    <3> QED
      BY <3>4, <2>2
  <2> QED
    BY <2>3, <2>4
<1>8. Ahead' /\ Behind'
  BY <1>1, <1>2, <1>5, <1>7, Freed DEF Joining
<1>9. LinkTypeOK' /\ Shape'
  BY <1>1, <1>2, <1>3, <1>4, <1>5 DEF LinkTypeOK, Shape, Joining, netVars, TrackInv, trackVars
<1>10. Placed'
  <2>1. \A p \in Particle : /\ Frame[p] + 1 < frame => track[p] # NULL
                            /\ Frame[p] >= frame => track[p] = NULL
    BY <1>1, <1>2 DEF Placed, Joining
  <2>2. track' = track
    BY <1>1 DEF trackVars
  <2>3. CASE pc' = "pick"
    BY <2>1, <2>2, <2>3, <1>1 DEF Placed, Joining
  <2>4. CASE pc' = "next"
    <3>1. \A p \in Particle : Frame[p] + 1 = frame => track[p] # NULL
      BY <2>4, <1>6, <1>7 DEF NSide
    <3>2. ASSUME NEW p \in Particle
          PROVE  track[p] # NULL <=> Frame[p] < frame
      <4>1. Frame[p] \in Nat
        OBVIOUS
      <4> QED
        BY <4>1, <3>1, <2>1, <1>2
    <3> QED
      BY <3>2, <2>2, <2>4, <1>1 DEF Placed, Joining
  <2> QED
    BY <2>3, <2>4, <1>1
<1>11. Waiting' /\ Growing'
  <2>1. next' = next /\ track' = track
    BY <1>1 DEF trackVars
  <2> QED
    BY <2>1, <1>1, <1>3, <1>6 DEF Waiting, Growing, Mirrored
<1>12. Bonding' /\ Pairing' /\ Output'
  BY <1>1 DEF Bonding, Pairing, Output
<1> QED
  BY <1>1, <1>4, <1>8, <1>9, <1>10, <1>11, <1>12 DEF LinkInv

-----------------------------------------------------------------------------
(* A subnetwork                                                               *)

\* Steps that only collect a subnetwork or solve it.
LEMMA Collecting ==
    ASSUME LinkInv, pc \in {"pick", "grow"}, pc' \in {"grow", "pairs", "barf"},
           UNCHANGED <<trackVars, dist, posVars, frame, listVars, todo>>
    PROVE  /\ TrackInv' /\ Shape' /\ Placed' /\ Ahead' /\ Behind' /\ Bonding' /\ Waiting'
           /\ Output' /\ [Next]_trackVars /\ PSide' = PSide /\ NSide' = NSide
<1>1. PSide' = PSide /\ NSide' = NSide
  BY DEF PSide, NSide
<1>2. TrackInv'
  BY NextKeeps DEF LinkInv
<1>3. Shape' /\ Placed'
  BY <1>1 DEF LinkInv, Shape, Placed, Joining, trackVars, listVars
<1>4. Ahead' /\ Behind'
  BY Freed DEF posVars, Joining
<1>5. Bonding' /\ Waiting' /\ Output'
  BY <1>1 DEF LinkInv, Bonding, Waiting, Output, trackVars, posVars, listVars
<1> QED
  BY <1>1, <1>2, <1>3, <1>4, <1>5

\* Who is near a particle of one of the two frames is in the other.
LEMMA OtherSide ==
    ASSUME LinkInv
    PROVE  /\ \A p \in PSide, n \in Particle : n \in nPos[p] => n \in NSide /\ n \in Near(p)
           /\ \A n \in NSide, p \in Particle : p \in pPos[n] => p \in PSide /\ n \in Near(p)
           /\ \A p \in PSide : p \in Particle /\ nPos[p] \subseteq Particle
           /\ \A n \in NSide : n \in Particle /\ pPos[n] \subseteq Particle
<1> USE FrameTypes
<1>0. frame \in Nat
  BY DEF LinkInv, LinkTypeOK
<1>1. ASSUME NEW p \in PSide, NEW n \in Particle, n \in nPos[p]
      PROVE  n \in NSide /\ n \in Near(p)
  <2>1. p \in Particle /\ Frame[p] + 2 = frame
    BY DEF PSide
  <2>2. n \in Near(p)
    BY <1>1, <2>1 DEF LinkInv, Ahead
  <2>3. Frame[n] = Frame[p] + 1 /\ Frame[p] \in Nat
    BY <2>1, <2>2, NearFrames
  <2> QED
    BY <2>1, <2>2, <2>3, <1>0 DEF NSide
<1>2. ASSUME NEW n \in NSide, NEW p \in Particle, p \in pPos[n]
      PROVE  p \in PSide /\ n \in Near(p)
  <2>1. n \in Particle /\ Frame[n] + 1 = frame
    BY DEF NSide
  <2>2. n \in Near(p)
    BY <1>2, <2>1 DEF LinkInv, Ahead, NearBefore
  <2>3. Frame[n] = Frame[p] + 1 /\ Frame[p] \in Nat
    BY <2>1, <2>2, NearFrames
  <2> QED
    BY <2>1, <2>2, <2>3, <1>0 DEF PSide
<1> QED
  BY <1>1, <1>2 DEF LinkInv, LinkTypeOK, PSide, NSide

LEMMA PickFrontKeeps ==
    ASSUME LinkInv, NEW p \in Particle, PickFront(p)
    PROVE  LinkInv' /\ [Next]_trackVars
<1>1. /\ pc = "pick" /\ pc' = "grow" /\ p \in pList
      /\ pSub' = {p} /\ nSub' = {} /\ tmpP' = {} /\ tmpN' = nPos[p] /\ pairing' = pairing
      /\ UNCHANGED <<trackVars, dist, posVars, frame, listVars, todo>>
  BY DEF PickFront
<1>2. /\ TrackInv' /\ Shape' /\ Placed' /\ Ahead' /\ Behind' /\ Bonding' /\ Waiting'
      /\ Output' /\ [Next]_trackVars /\ PSide' = PSide /\ NSide' = NSide
  BY <1>1, Collecting
<1>3. LinkTypeOK'
  BY <1>1, <1>2 DEF LinkInv, LinkTypeOK, posVars, listVars, TrackInv
<1>4. p \in PSide /\ next[p] = NULL /\ Mirrored(PSide)
  BY <1>1 DEF LinkInv, Shape, Joining, Growing
<1>5. \A n \in nPos[p] : n \in NSide /\ pPos[n] # {}
  BY <1>4, OtherSide DEF Mirrored
<1>6. Growing'
  BY <1>1, <1>2, <1>4, <1>5 DEF Growing, Mirrored, posVars, trackVars
<1>7. Pairing'
  BY <1>1 DEF Pairing
<1> QED
  BY <1>2, <1>3, <1>6, <1>7 DEF LinkInv

\* One turn of set_up_sub_ntwrk: what comes in queues its candidates.
LEMMA GrowNetKeeps ==
    ASSUME LinkInv, GrowNet
    PROVE  LinkInv' /\ [Next]_trackVars
<1> DEFINE queuedN == tmpN \cup UNION {nPos[p] : p \in tmpP \ pSub}
<1>1. /\ pc = "grow" /\ pc' = "grow"
      /\ pSub' = pSub \cup tmpP /\ nSub' = nSub \cup queuedN
      /\ tmpP' = UNION {pPos[n] : n \in queuedN \ nSub} /\ tmpN' = {} /\ pairing' = pairing
      /\ UNCHANGED <<trackVars, dist, posVars, frame, listVars, todo>>
  BY DEF GrowNet
<1>2. /\ TrackInv' /\ Shape' /\ Placed' /\ Ahead' /\ Behind' /\ Bonding' /\ Waiting'
      /\ Output' /\ [Next]_trackVars /\ PSide' = PSide /\ NSide' = NSide
  BY <1>1, Collecting
<1>3. /\ Mirrored(PSide)
      /\ \A p \in pSub \cup tmpP : p \in PSide /\ next[p] = NULL
      /\ \A p \in pSub : nPos[p] \subseteq nSub \cup tmpN
      /\ \A n \in nSub : pPos[n] \subseteq pSub \cup tmpP
      /\ \A n \in nSub \cup tmpN : n \in NSide /\ pPos[n] # {}
  BY <1>1 DEF LinkInv, Growing
<1>4. /\ \A p \in PSide, n \in Particle : n \in nPos[p] => n \in NSide
      /\ \A n \in NSide, p \in Particle : p \in pPos[n] => p \in PSide
      /\ \A p \in PSide : p \in Particle /\ nPos[p] \subseteq Particle
      /\ \A n \in NSide : n \in Particle /\ pPos[n] \subseteq Particle
      /\ \A p \in PSide : nPos[p] # {} => next[p] = NULL
  BY <1>1, OtherSide DEF LinkInv, Waiting
<1>5. \A n \in queuedN : n \in NSide /\ pPos[n] # {}
  <2> SUFFICES ASSUME NEW p \in tmpP, NEW n \in nPos[p]
               PROVE  n \in NSide /\ pPos[n] # {}
    BY <1>3
  <2> QED
    BY <1>3, <1>4 DEF Mirrored
<1>6. \A p \in tmpP' : p \in PSide /\ next[p] = NULL
  <2> SUFFICES ASSUME NEW n \in queuedN, NEW p \in pPos[n]
               PROVE  p \in PSide /\ next[p] = NULL
    BY <1>1
  <2>1. n \in NSide /\ p \in PSide
    BY <1>4, <1>5
  <2>2. n \in nPos[p]
    BY <2>1, <1>3 DEF Mirrored
  <2> QED
    BY <2>1, <2>2, <1>4
<1>7. LinkTypeOK'
  <2>1. queuedN \subseteq Particle /\ tmpP' \subseteq Particle
    BY <1>4, <1>5, <1>6
  <2> QED
    BY <2>1, <1>1, <1>2 DEF LinkInv, LinkTypeOK, posVars, listVars, TrackInv
<1>8. Growing'
  <2>1. nPos' = nPos /\ pPos' = pPos /\ next' = next
    BY <1>1 DEF posVars, trackVars
  <2>2. \A p \in pSub' : nPos[p] \subseteq nSub'
    BY <1>1, <1>3
  <2>3. \A n \in nSub' : pPos[n] \subseteq pSub' \cup tmpP'
    BY <1>1, <1>3
  <2>4. \A n \in nSub' : n \in NSide /\ pPos[n] # {}
    BY <1>1, <1>3, <1>5
  <2>5. \A p \in pSub' \cup tmpP' : p \in PSide /\ next[p] = NULL
    BY <1>1, <1>3, <1>6
  <2> QED
    BY <2>1, <2>2, <2>3, <2>4, <2>5, <1>1, <1>2, <1>3 DEF Growing, Mirrored
<1>9. Pairing'
  BY <1>1 DEF Pairing
<1> QED
  BY <1>2, <1>7, <1>8, <1>9 DEF LinkInv

LEMMA BarfKeeps ==
    ASSUME LinkInv, Barf
    PROVE  LinkInv' /\ [Next]_trackVars
<1>1. /\ pc = "grow" /\ pc' = "barf"
      /\ UNCHANGED <<trackVars, dist, posVars, frame, listVars, todo, netVars>>
  BY DEF Barf
<1>2. /\ TrackInv' /\ Shape' /\ Placed' /\ Ahead' /\ Behind' /\ Bonding' /\ Waiting'
      /\ Output' /\ [Next]_trackVars
  BY <1>1, Collecting
<1>3. LinkTypeOK'
  BY <1>1, <1>2 DEF LinkInv, LinkTypeOK, posVars, listVars, netVars, TrackInv
<1>4. Growing' /\ Pairing'
  BY <1>1 DEF Growing, Pairing
<1> QED
  BY <1>2, <1>3, <1>4 DEF LinkInv

\* The search returns an assignment of the particles of the subnetwork to
\* candidates of theirs, which are all in it.
LEMMA SolveNetKeeps ==
    ASSUME LinkInv, SolveNet
    PROVE  LinkInv' /\ [Next]_trackVars
<1>1. /\ pc = "grow" /\ pc' = "pairs" /\ tmpP = {} /\ tmpN = {}
      /\ UNCHANGED <<pSub, nSub, tmpP, tmpN>>
      /\ UNCHANGED <<trackVars, dist, posVars, frame, listVars, todo>>
      /\ pairing' \in Assignments(pSub, [p \in pSub |-> nPos[p]], NULL)
  BY DEF SolveNet, OptimalAssignments
<1>2. /\ TrackInv' /\ Shape' /\ Placed' /\ Ahead' /\ Behind' /\ Bonding' /\ Waiting'
      /\ Output' /\ [Next]_trackVars /\ PSide' = PSide /\ NSide' = NSide
  BY <1>1, Collecting
<1>3. /\ DOMAIN pairing' = pSub
      /\ \A p \in pSub : pairing'[p] \in nPos[p] \cup {NULL}
      /\ InjectiveOn(pairing', NULL)
  BY <1>1 DEF Assignments
<1>4. /\ Mirrored(PSide)
      /\ \A p \in pSub : p \in PSide /\ next[p] = NULL
      /\ \A p \in pSub : nPos[p] \subseteq nSub
      /\ \A n \in nSub : pPos[n] \subseteq pSub
      /\ \A n \in nSub : n \in NSide /\ pPos[n] # {}
  BY <1>1 DEF LinkInv, Growing
<1>5. LinkTypeOK'
  BY <1>1, <1>2 DEF LinkInv, LinkTypeOK, posVars, listVars, TrackInv
<1>6. Growing'
  BY <1>1 DEF Growing
<1>7. Pairing'
  <2>1. \A p \in pSub : pairing'[p] = NULL \/ pairing'[p] \in nSub \cap Near(p)
    <3> SUFFICES ASSUME NEW p \in pSub, NEW n \in nPos[p]
                 PROVE  n \in nSub /\ n \in Near(p)
      BY <1>3
    <3> QED
      BY <1>4, OtherSide
  <2>2. \A n \in NSide : pPos[n] \cap pSub # {} => n \in nSub
    <3> SUFFICES ASSUME NEW n \in NSide, NEW p \in pSub, p \in pPos[n]
                 PROVE  n \in nSub
      OBVIOUS
    <3> QED
      BY <1>4 DEF Mirrored
  <2>3. \A p \in PSide \ pSub, n \in NSide : n \in nPos[p] <=> p \in pPos[n]
    BY <1>4 DEF Mirrored
  <2>4. \A p \in Particle : Near(p)' = Near(p)
    BY <1>1, NearStays
  <2>5. pSub \subseteq Particle /\ pSub \subseteq PSide
    BY <1>4 DEF PSide
  <2>6. nPos' = nPos /\ pPos' = pPos /\ next' = next /\ pSub' = pSub /\ nSub' = nSub
    BY <1>1 DEF posVars, trackVars
  <2> QED
    BY <1>1, <1>2, <1>3, <1>4, <2>1, <2>2, <2>3, <2>4, <2>5, <2>6 DEF Pairing, Mirrored
<1> QED
  BY <1>2, <1>5, <1>6, <1>7 DEF LinkInv

\* Steps of link_pairs: tracks change in the next frame only.
LEMMA StillPairing ==
    ASSUME LinkInv, pc = "pairs", pc' = "pairs", UNCHANGED <<dist, frame, listVars, todo>>,
           parts' = {}, \A t \in shelf' : first'[t] # NULL,
           \A q \in Particle : Frame[q] + 1 # frame => track'[q] = track[q],
           \A q \in Particle :
               /\ nPos'[q] \subseteq nPos[q] /\ pPos'[q] \subseteq pPos[q]
               /\ Frame[q] + 2 # frame => nPos'[q] = nPos[q]
               /\ Frame[q] + 1 # frame => pPos'[q] = pPos[q]
    PROVE  /\ Shape' /\ Placed' /\ Ahead' /\ Behind' /\ Bonding' /\ Growing' /\ Output'
           /\ PSide' = PSide /\ NSide' = NSide
<1> USE FrameTypes
<1>1. PSide' = PSide /\ NSide' = NSide
  BY DEF PSide, NSide
<1>2. Shape'
  BY <1>1 DEF LinkInv, Shape, Joining, listVars
<1>3. Placed'
  <2> SUFFICES ASSUME NEW q \in Particle
               PROVE  /\ Frame[q] + 1 < frame => track'[q] # NULL
                      /\ Frame[q] >= frame => track'[q] = NULL
    BY DEF Placed, Joining
  <2>1. /\ Frame[q] + 1 < frame => track[q] # NULL
        /\ Frame[q] >= frame => track[q] = NULL
    BY DEF LinkInv, Placed, Joining
  <2>2. Frame[q] \in Nat /\ frame \in Nat /\ (Frame[q] + 1 # frame => track'[q] = track[q])
    BY DEF LinkInv, LinkTypeOK
  <2> QED
    BY <2>1, <2>2
<1>4. Ahead' /\ Behind'
  BY Freed DEF Joining
<1>5. Bonding' /\ Growing' /\ Output'
  BY DEF Bonding, Growing, Output
<1> QED
  BY <1>1, <1>2, <1>3, <1>4, <1>5

LEMMA LinkPairKeeps ==
    ASSUME LinkInv, NEW p \in Particle, LinkPair(p)
    PROVE  LinkInv' /\ [Next]_trackVars
<1> USE FrameTypes
<1> DEFINE m == pairing[p]
<1>1. /\ pc = "pairs" /\ pc' = "pairs" /\ p \in pSub /\ pSub' = pSub \ {p}
      /\ nPos' = [nPos EXCEPT ![p] = {}]
      /\ UNCHANGED <<dist, frame, listVars, todo, tmpP, tmpN, pairing>>
  BY DEF LinkPair
<1>2. /\ TrackInv /\ LinkTypeOK /\ Shape /\ Placed /\ frame \in Nat /\ frame >= 2
      /\ parts = {} /\ \A t \in shelf : first[t] # NULL
  BY <1>1 DEF LinkInv, LinkTypeOK, Shape, Joining
<1>3. /\ pSub \subseteq DOMAIN pairing /\ DOMAIN pairing \subseteq PSide
      /\ InjectiveOn(pairing, NULL)
      /\ \A q \in DOMAIN pairing \ pSub : nPos[q] = {}
      /\ \A q \in pSub :
           /\ next[q] = NULL
           /\ pairing[q] = NULL \/ pairing[q] \in nSub \cap Near(q)
      /\ \A n \in nSub : n \in NSide /\ pPos[n] # {} /\ pPos[n] \subseteq DOMAIN pairing
      /\ \A n \in NSide : pPos[n] \cap DOMAIN pairing # {} => n \in nSub
      /\ \A q \in PSide \ DOMAIN pairing, n \in NSide : n \in nPos[q] <=> q \in pPos[n]
  BY <1>1 DEF LinkInv, Pairing, Mirrored
<1>4. /\ \A q \in PSide : nPos[q] # {} => q \in pList /\ next[q] = NULL
      /\ \A n \in NSide :
           /\ track[n] = NULL <=> pPos[n] # {}
           /\ pPos[n] # {} => n \in nList
  BY <1>1 DEF LinkInv, Waiting
<1>5. p \in PSide /\ Frame[p] + 2 = frame /\ next[p] = NULL /\ track[p] # NULL
  <2>1. p \in PSide /\ Frame[p] + 2 = frame /\ next[p] = NULL
    BY <1>1, <1>3 DEF PSide
  <2>2. Frame[p] + 1 < frame
    BY <2>1, <1>2
  <2> QED
    BY <2>1, <2>2, <1>1, <1>2 DEF Placed, Joining
\* What is to be shown of the tracks and of the next particles.
<1> DEFINE gone == IF m = NULL THEN {} ELSE {m}
           Good ==
      /\ TrackInv' /\ [Next]_trackVars /\ parts' = {}
      /\ \A t \in shelf' : first'[t] # NULL
      /\ gone \subseteq NSide
      /\ \A q \in Particle : IF q \in gone THEN track'[q] # NULL ELSE track'[q] = track[q]
      /\ \A q \in Particle : q # p => next'[q] = next[q]
      /\ nSub' = nSub \ gone
      /\ pPos' = [n \in Particle |-> IF n \in gone THEN {} ELSE pPos[n]]
<1>6. ASSUME m = NULL
      PROVE  Good
  <2>1. UNCHANGED <<trackVars, nSub, pPos>>
    BY <1>6 DEF LinkPair
  <2>2. TrackInv'
    BY <2>1, <1>2, NextKeeps
  <2>3. pPos' = [n \in Particle |-> IF n \in gone THEN {} ELSE pPos[n]]
    BY <2>1, <1>2, <1>6 DEF LinkTypeOK
  <2>4. nSub' = nSub \ gone /\ gone = {}
    BY <2>1, <1>6
  <2> HIDE DEF gone
  <2> QED
    BY <2>1, <2>2, <2>3, <2>4, <1>2 DEF trackVars
<1>7. ASSUME m # NULL
      PROVE  Good
  <2>1. PushBack(track[p], m) /\ nSub' = nSub \ {m} /\ pPos' = [pPos EXCEPT ![m] = {}]
    BY <1>7 DEF LinkPair
  <2>2. m \in nSub /\ m \in NSide /\ m \in Near(p) /\ m \in Particle /\ gone = {m}
    BY <1>1, <1>3, <1>7 DEF NSide
  <2>3. track[m] = NULL /\ Frame[m] = Frame[p] + 1
    BY <2>2, <1>3, <1>4, NearFrames
  <2>4. /\ Next /\ TrackInv'
        /\ next' = [next EXCEPT ![p] = m] /\ prev' = [prev EXCEPT ![m] = p]
        /\ track' = [track EXCEPT ![m] = track[p]]
        /\ UNCHANGED <<first, shelf, parts>>
    BY <2>1, <2>2, <2>3, <1>2, <1>5, Bonded
  <2>5. /\ \A q \in Particle : IF q \in gone THEN track'[q] # NULL ELSE track'[q] = track[q]
        /\ \A q \in Particle : q # p => next'[q] = next[q]
    BY <2>2, <2>4, <1>2, <1>5 DEF TrackInv, TypeOK
  <2>6. pPos' = [n \in Particle |-> IF n \in gone THEN {} ELSE pPos[n]]
    BY <2>1, <2>2, <1>2 DEF LinkTypeOK
  <2> HIDE DEF gone, m
  <2> QED
    BY <2>1, <2>2, <2>4, <2>5, <2>6, <1>2
<1>8. Good
  BY <1>6, <1>7
<1> HIDE DEF gone
<1>9. \A q \in Particle : /\ nPos'[q] = IF q = p THEN {} ELSE nPos[q]
                          /\ pPos'[q] = IF q \in gone THEN {} ELSE pPos[q]
  BY <1>1, <1>2, <1>8 DEF LinkTypeOK
<1>10. \A q \in Particle : q \in gone => Frame[q] + 1 = frame
  BY <1>8 DEF NSide
<1>11. /\ Shape' /\ Placed' /\ Ahead' /\ Behind' /\ Bonding' /\ Growing' /\ Output'
       /\ PSide' = PSide /\ NSide' = NSide
  <2>1. \A q \in Particle : Frame[q] + 1 # frame => track'[q] = track[q]
    BY <1>8, <1>10
  <2>2. \A q \in Particle :
          /\ nPos'[q] \subseteq nPos[q] /\ pPos'[q] \subseteq pPos[q]
          /\ Frame[q] + 2 # frame => nPos'[q] = nPos[q]
          /\ Frame[q] + 1 # frame => pPos'[q] = pPos[q]
    BY <1>5, <1>9, <1>10
  <2> QED
    BY <2>1, <2>2, <1>1, <1>8, StillPairing
<1>12. LinkTypeOK'
  <2>1. nPos' \in [Particle -> SUBSET Particle] /\ pPos' \in [Particle -> SUBSET Particle]
    BY <1>1, <1>2, <1>8 DEF LinkTypeOK
  <2> QED
    BY <2>1, <1>1, <1>2, <1>8 DEF LinkTypeOK, listVars, TrackInv
<1>13. /\ \A q \in PSide : q \in Particle
       /\ \A n \in NSide : n \in Particle
  BY DEF PSide, NSide
<1>14. Waiting'
  <2>1. pList' = pList /\ nList' = nList
    BY <1>1 DEF listVars
  <2>2. \A q \in PSide : nPos'[q] # {} => q \in pList /\ next'[q] = NULL
    BY <1>4, <1>8, <1>9, <1>13
  <2>3. \A n \in NSide : /\ track'[n] = NULL <=> pPos'[n] # {}
                         /\ pPos'[n] # {} => n \in nList
    BY <1>4, <1>8, <1>9, <1>13
  <2> QED
    BY <2>1, <2>2, <2>3, <1>11 DEF Waiting
<1>15. Pairing'
  <2>1. \A q \in pSub' : q \in Particle /\ q # p /\ pairing[q] \notin gone
    BY <1>1, <1>3, <1>13 DEF InjectiveOn, gone
  <2>2. \A q \in pSub' : /\ next'[q] = NULL
                         /\ pairing[q] = NULL \/ pairing[q] \in nSub' \cap Near(q)
    <3> SUFFICES ASSUME NEW q \in pSub'
                 PROVE  /\ next'[q] = NULL
                        /\ pairing[q] = NULL \/ pairing[q] \in nSub' \cap Near(q)
      OBVIOUS
    <3>1. q \in pSub /\ q \in Particle /\ q # p /\ pairing[q] \notin gone
      BY <2>1, <1>1
    <3> QED
      BY <3>1, <1>3, <1>8
  <2>3. \A n \in nSub' : n \in nSub /\ n \notin gone /\ n \in Particle
    BY <1>3, <1>8, <1>13
  <2>4. \A n \in nSub' : n \in NSide /\ pPos'[n] # {} /\ pPos'[n] \subseteq DOMAIN pairing
    BY <2>3, <1>3, <1>9
  <2>5. \A n \in NSide : pPos'[n] \cap DOMAIN pairing # {} => n \in nSub'
    BY <1>3, <1>8, <1>9, <1>13
  <2>6. \A q \in DOMAIN pairing \ pSub' : nPos'[q] = {}
    BY <1>1, <1>3, <1>9, <1>13
  <2>7. \A q \in PSide \ DOMAIN pairing, n \in NSide : n \in nPos'[q] <=> q \in pPos'[n]
    <3> SUFFICES ASSUME NEW q \in PSide \ DOMAIN pairing, NEW n \in NSide
                 PROVE  n \in nPos'[q] <=> q \in pPos'[n]
      OBVIOUS
    <3>1. nPos'[q] = nPos[q] /\ (n \in nPos[q] <=> q \in pPos[n])
      BY <1>1, <1>3, <1>9, <1>13
    <3>2. CASE n \in gone
      <4>1. n \in nSub
        BY <3>2, <1>1, <1>3 DEF gone
      <4> QED
        BY <4>1, <3>1, <3>2, <1>3, <1>9, <1>13
    <3>3. CASE n \notin gone
      BY <3>1, <3>3, <1>9, <1>13
    <3> QED
      BY <3>2, <3>3
  <2>8. \A q \in Particle : Near(q)' = Near(q)
    BY <1>1, NearStays
  <2>9. pairing' = pairing /\ pSub' \subseteq Particle /\ pSub' \subseteq pSub
    BY <2>1, <1>1
  <2> HIDE DEF m, Good
  <2> QED
    BY <1>3, <1>11, <2>2, <2>4, <2>5, <2>6, <2>7, <2>8, <2>9 DEF Pairing, Mirrored
<1> QED
  BY <1>8, <1>11, <1>12, <1>14, <1>15 DEF LinkInv

LEMMA LeftOverKeeps ==
    ASSUME LinkInv, NEW m \in Particle, LeftOver(m)
    PROVE  LinkInv' /\ [Next]_trackVars
<1> USE FrameTypes
<1>1. /\ pc = "pairs" /\ pc' = "pairs" /\ m \in nSub /\ AddNewTrack(m) /\ nSub' = nSub \ {m}
      /\ pPos' = [pPos EXCEPT ![m] = {}] /\ nPos' = nPos /\ pSub = {} /\ pSub' = {}
      /\ UNCHANGED <<dist, frame, listVars, todo, tmpP, tmpN, pairing>>
  BY DEF LeftOver
<1>2. /\ TrackInv /\ LinkTypeOK /\ Shape /\ Placed
      /\ parts = {} /\ \A t \in shelf : first[t] # NULL
  BY <1>1 DEF LinkInv, LinkTypeOK, Shape, Joining
<1>3. /\ DOMAIN pairing \subseteq PSide
      /\ InjectiveOn(pairing, NULL)
      /\ \A q \in DOMAIN pairing : nPos[q] = {}
      /\ \A n \in nSub : n \in NSide /\ pPos[n] # {} /\ pPos[n] \subseteq DOMAIN pairing
      /\ \A n \in NSide : pPos[n] \cap DOMAIN pairing # {} => n \in nSub
      /\ \A q \in PSide \ DOMAIN pairing, n \in NSide : n \in nPos[q] <=> q \in pPos[n]
  BY <1>1 DEF LinkInv, Pairing, Mirrored
<1>4. /\ \A q \in PSide : nPos[q] # {} => q \in pList /\ next[q] = NULL
      /\ \A n \in NSide :
           /\ track[n] = NULL <=> pPos[n] # {}
           /\ pPos[n] # {} => n \in nList
  BY <1>1 DEF LinkInv, Waiting
<1>5. m \in NSide /\ track[m] = NULL /\ Frame[m] + 1 = frame
  BY <1>1, <1>3, <1>4 DEF NSide
<1>6. /\ Next /\ TrackInv' /\ next' = next /\ prev' = prev /\ parts' = parts
      /\ track' = [track EXCEPT ![m] = running] /\ running # NULL
      /\ shelf' = shelf \cup {running} /\ first' = [first EXCEPT ![running] = m]
      /\ running \in Box
  BY <1>1, <1>2, <1>5, TrackAdded
<1>7. \A t \in shelf' : first'[t] # NULL
  BY <1>2, <1>6, NullAssumption DEF TrackInv, TypeOK
<1>8. \A q \in Particle : /\ IF q = m THEN track'[q] # NULL ELSE track'[q] = track[q]
                          /\ pPos'[q] = IF q = m THEN {} ELSE pPos[q]
  BY <1>1, <1>2, <1>6 DEF LinkTypeOK, TrackInv, TypeOK
<1>9. /\ Shape' /\ Placed' /\ Ahead' /\ Behind' /\ Bonding' /\ Growing' /\ Output'
      /\ PSide' = PSide /\ NSide' = NSide
  <2>1. \A q \in Particle : Frame[q] + 1 # frame => track'[q] = track[q]
    BY <1>5, <1>8
  <2>2. \A q \in Particle :
          /\ nPos'[q] \subseteq nPos[q] /\ pPos'[q] \subseteq pPos[q]
          /\ Frame[q] + 2 # frame => nPos'[q] = nPos[q]
          /\ Frame[q] + 1 # frame => pPos'[q] = pPos[q]
    BY <1>1, <1>5, <1>8
  <2> QED
    BY <2>1, <2>2, <1>1, <1>2, <1>6, <1>7, StillPairing
<1>10. LinkTypeOK'
  BY <1>1, <1>2, <1>6 DEF LinkTypeOK, listVars, TrackInv
<1>11. /\ \A q \in PSide : q \in Particle
       /\ \A n \in NSide : n \in Particle
  BY DEF PSide, NSide
<1>12. Waiting'
  <2>1. pList' = pList /\ nList' = nList
    BY <1>1 DEF listVars
  <2>2. \A n \in NSide : /\ track'[n] = NULL <=> pPos'[n] # {}
                         /\ pPos'[n] # {} => n \in nList
    BY <1>4, <1>8, <1>11
  <2> QED
    BY <2>1, <2>2, <1>1, <1>4, <1>6, <1>9 DEF Waiting
<1>13. Pairing'
  <2>1. \A n \in nSub' : n \in NSide /\ pPos'[n] # {} /\ pPos'[n] \subseteq DOMAIN pairing
    BY <1>1, <1>3, <1>8, <1>11
  <2>2. \A n \in NSide : pPos'[n] \cap DOMAIN pairing # {} => n \in nSub'
    BY <1>1, <1>3, <1>8, <1>11
  <2>3. \A q \in PSide \ DOMAIN pairing, n \in NSide : n \in nPos[q] <=> q \in pPos'[n]
    BY <1>1, <1>3, <1>8, <1>11
  <2> QED
    BY <1>1, <1>3, <1>9, <2>1, <2>2, <2>3 DEF Pairing, Mirrored
<1> QED
  BY <1>6, <1>9, <1>10, <1>12, <1>13 DEF LinkInv

-----------------------------------------------------------------------------
(* The end of the program                                                     *)

\* After the link only the short tracks go and the ids change.
LEMMA Afterwards ==
    ASSUME LinkInv, pc \in {"linked", "trimmed"}, pc' \in {"trimmed", "numbered"},
           UNCHANGED <<dist, posVars, frame, listVars, todo, netVars>>,
           parts' = parts, first' = first, shelf' \subseteq shelf, TrackInv'
    PROVE  /\ LinkTypeOK' /\ Shape' /\ Placed' /\ Ahead' /\ Behind'
           /\ Bonding' /\ Waiting' /\ Growing' /\ Pairing'
<1>1. LinkTypeOK'
  BY DEF LinkInv, LinkTypeOK, posVars, listVars, netVars, TrackInv
<1>2. Shape'
  BY DEF LinkInv, Shape, Joining, listVars
<1>3. Ahead' /\ Behind'
  BY NearStays DEF LinkInv, Ahead, Behind, Joining, posVars
<1>4. Placed' /\ Bonding' /\ Waiting' /\ Growing' /\ Pairing'
  BY DEF Placed, Joining, Bonding, Waiting, Growing, Pairing
<1> QED
  BY <1>1, <1>2, <1>3, <1>4

\* remove_short_tracks is the operation of module Tracks, whatever the limit.
LEMMA RemoveShortIsNext ==
    ASSUME TrackInv, parts = {}, \A t \in shelf : first[t] # NULL, RemoveShortTracks(2)
    PROVE  Next
<1>1. IsFiniteSet(Particle) /\ Cardinality(Particle) \in Nat
  BY ParticleAssumption, FS_CardinalityType
<1>2. CASE Particle = {}
  <2>1. shelf = {}
    BY <1>2, NullAssumption DEF TrackInv, TypeOK, ParticleOrNull
  <2>2. {t \in shelf : length[t] < 2} = {t \in shelf : length[t] < 0}
    BY <2>1
  <2>3. RemoveShortTracks(0) /\ 0 \in 0 .. Cardinality(Particle) + 1
    BY <2>2, <1>1 DEF RemoveShortTracks
  <2> QED
    BY <2>3 DEF Next
<1>3. CASE Particle # {}
  <2>1. Cardinality(Particle) # 0
    BY <1>1, <1>3, FS_EmptySet
  <2>2. 2 \in 0 .. Cardinality(Particle) + 1
    BY <1>1, <2>1
  <2> QED
    BY <2>2 DEF Next
<1> QED
  BY <1>2, <1>3

LEMMA RemoveSinglesKeeps ==
    ASSUME LinkInv, RemoveSingles
    PROVE  LinkInv' /\ [Next]_trackVars
<1>1. /\ pc = "linked" /\ pc' = "trimmed" /\ RemoveShortTracks(2)
      /\ UNCHANGED <<dist, posVars, frame, listVars, todo, netVars>>
  BY DEF RemoveSingles, ShortestKept
<1>2. /\ parts' = parts /\ first' = first /\ length' = length
      /\ shelf' = shelf \ {t \in shelf : length[t] < 2}
  BY <1>1 DEF RemoveShortTracks, DeleteBoxes
<1>3. Next
  BY <1>1, RemoveShortIsNext DEF LinkInv, Shape
<1>4. TrackInv'
  BY <1>3, NextKeeps DEF LinkInv
<1>5. /\ LinkTypeOK' /\ Shape' /\ Placed' /\ Ahead' /\ Behind'
      /\ Bonding' /\ Waiting' /\ Growing' /\ Pairing'
  BY <1>1, <1>2, <1>4, Afterwards
<1>6. Output'
  <2>1. \A t \in shelf' : length[t] >= 2
    <3> SUFFICES ASSUME NEW t \in shelf'
                 PROVE  length[t] >= 2
      OBVIOUS
    <3>1. t \in shelf /\ ~(length[t] < 2) /\ length[t] \in Nat
      BY <1>2 DEF LinkInv, TrackInv, TypeOK
    <3> QED
      BY <3>1
  <2> QED
    BY <2>1, <1>1, <1>2 DEF Output, ShortestKept
<1> QED
  BY <1>3, <1>4, <1>5, <1>6 DEF LinkInv

LEMMA NumberKeeps ==
    ASSUME LinkInv, Number
    PROVE  LinkInv' /\ [Next]_trackVars
<1>1. /\ pc = "trimmed" /\ pc' = "numbered" /\ Renumber
      /\ UNCHANGED <<dist, posVars, frame, listVars, todo, netVars>>
  BY DEF Number
<1>2. /\ UNCHANGED <<parts, first, length, shelf>>
      /\ \A t \in shelf : id'[t] = Cardinality({u \in shelf : u < t})
  BY <1>1 DEF Renumber, LinkInv, TrackInv, TypeOK
<1>3. Next
  BY <1>1 DEF Next
<1>4. TrackInv'
  BY <1>3, NextKeeps DEF LinkInv
<1>5. /\ LinkTypeOK' /\ Shape' /\ Placed' /\ Ahead' /\ Behind'
      /\ Bonding' /\ Waiting' /\ Growing' /\ Pairing'
  BY <1>1, <1>2, <1>4, Afterwards
<1>6. Output'
  BY <1>1, <1>2 DEF LinkInv, Output, ShortestKept
<1> QED
  BY <1>3, <1>4, <1>5, <1>6 DEF LinkInv

-----------------------------------------------------------------------------
(* The behaviours                                                             *)

LEMMA LinkInitGood ==
    ASSUME LinkInit
    PROVE  LinkInv
<1> USE FrameTypes
<1>1. /\ Init /\ pc = "begin" /\ frame = 0
      /\ nPos = [p \in Particle |-> {}] /\ pPos = [p \in Particle |-> {}]
      /\ store = {} /\ pList = {} /\ nList = {} /\ todo = {}
      /\ pSub = {} /\ nSub = {} /\ tmpP = {} /\ tmpN = {}
      /\ dist \in [Consecutive -> DistVals]
  BY DEF LinkInit
<1>2. TrackInv
  BY <1>1, InitGood
<1>3. LinkTypeOK
  <2>1. dist \in [Consecutive -> Nat]
    BY <1>1, LinkAssumption
  <2>2. nPos \in [Particle -> SUBSET Particle] /\ pPos \in [Particle -> SUBSET Particle]
    BY <1>1
  <2>3. frame \in 0 .. NFrames
    BY <1>1
  <2> QED
    BY <2>1, <2>2, <2>3, <1>1, <1>2 DEF LinkTypeOK, TrackInv
<1>4. Shape /\ Placed
  BY <1>1 DEF Shape, Placed, Joining, Init
<1>5. \A p \in Particle : NearBefore(p) = {} \/ Frame[p] # 0
  BY NearFrames DEF NearBefore
<1>6. Ahead /\ Behind
  <2>1. \A p \in Particle : nPos[p] = {} /\ pPos[p] = {} /\ Frame[p] + 1 # 0
    BY <1>1
  <2> QED
    BY <2>1, <1>1, <1>5 DEF Ahead, Behind
<1>7. Bonding /\ Waiting /\ Growing /\ Pairing /\ Output
  BY <1>1 DEF Bonding, Waiting, Growing, Pairing, Output
<1> QED
  BY <1>2, <1>3, <1>4, <1>6, <1>7 DEF LinkInv

LEMMA LinkStays ==
    ASSUME LinkInv, UNCHANGED vars
    PROVE  LinkInv'
<1>1. TrackInv'
  BY NextKeeps DEF LinkInv, vars
<1>2. UNCHANGED <<trackVars, dist, posVars, frame, listVars, todo, netVars, pc>>
  BY DEF vars, linkVars
<1>3. PSide' = PSide /\ NSide' = NSide /\ (Joining' <=> Joining)
  BY <1>2 DEF PSide, NSide, Joining
<1>4. LinkTypeOK'
  BY <1>1, <1>2 DEF LinkInv, LinkTypeOK, posVars, listVars, netVars, TrackInv
<1>5. Shape' /\ Placed' /\ Waiting' /\ Growing' /\ Output'
  BY <1>2, <1>3
  DEF LinkInv, Shape, Placed, Waiting, Growing, Mirrored, Output,
      trackVars, posVars, listVars, netVars
<1>6. Ahead' /\ Behind'
  BY <1>2, <1>3, NearStays DEF LinkInv, Ahead, Behind, posVars
<1>7. \A p \in Particle : Near(p)' = Near(p) /\ NearBefore(p)' = NearBefore(p)
  BY <1>2, NearStays
<1>8. PSide \subseteq Particle /\ NSide \subseteq Particle
  BY DEF PSide, NSide
<1>9. Bonding'
  BY <1>2, <1>3, <1>7, <1>8 DEF LinkInv, Bonding, OnlyPair, trackVars, posVars, listVars
<1>10. Pairing'
  BY <1>2, <1>3, <1>7, <1>8
  DEF LinkInv, Pairing, Mirrored, trackVars, posVars, netVars
<1> QED
  BY <1>1, <1>4, <1>5, <1>6, <1>9, <1>10 DEF LinkInv

LEMMA LinkStep ==
    ASSUME LinkInv, [LinkNext]_vars
    PROVE  LinkInv' /\ [Next]_trackVars
<1>1. CASE Begin
  BY <1>1, BeginKeeps
<1>2. ASSUME NEW p \in Particle, FirstTrack(p)
      PROVE  LinkInv' /\ [Next]_trackVars
  BY <1>2, FirstTrackKeeps
<1>3. CASE NextFrame
  BY <1>3, NextFrameKeeps
<1>4. CASE Finish
  BY <1>4, FinishKeeps
<1>5. ASSUME NEW n \in Particle, TrivialBond(n)
      PROVE  LinkInv' /\ [Next]_trackVars
  BY <1>5, TrivialBondKeeps
<1>6. CASE CleanLists
  BY <1>6, CleanListsKeeps
<1>7. ASSUME NEW p \in Particle, PickFront(p)
      PROVE  LinkInv' /\ [Next]_trackVars
  BY <1>7, PickFrontKeeps
<1>8. CASE GrowNet
  BY <1>8, GrowNetKeeps
<1>9. CASE Barf
  BY <1>9, BarfKeeps
<1>10. CASE SolveNet
  BY <1>10, SolveNetKeeps
<1>11. ASSUME NEW p \in Particle, LinkPair(p)
       PROVE  LinkInv' /\ [Next]_trackVars
  BY <1>11, LinkPairKeeps
<1>12. ASSUME NEW n \in Particle, LeftOver(n)
       PROVE  LinkInv' /\ [Next]_trackVars
  BY <1>12, LeftOverKeeps
<1>13. CASE RemoveSingles
  BY <1>13, RemoveSinglesKeeps
<1>14. CASE Number
  BY <1>14, NumberKeeps
<1>15. CASE UNCHANGED vars
  BY <1>15, LinkStays DEF vars
<1> QED
  BY <1>1, <1>2, <1>3, <1>4, <1>5, <1>6, <1>7, <1>8, <1>9, <1>10, <1>11, <1>12, <1>13,
     <1>14, <1>15 DEF LinkNext

LEMMA LinkInvAlways == LinkSpec => []LinkInv
<1>1. LinkInit => LinkInv
  BY LinkInitGood
<1>2. LinkInv /\ [LinkNext]_vars => LinkInv'
  BY LinkStep
<1>3. QED
  BY <1>1, <1>2, PTL DEF LinkSpec

\* Every call the linker makes of the track classes is a legal one: it hands
\* over particles that are in no track, frame by frame, and appends each behind
\* the last particle of its track.  So all that module Tracks promises holds of
\* the linker's tracks, and "nuking the list" is never thrown.
THEOREM LinkerCallsLegally == LinkSpec => Spec
<1>1. LinkInit => LinkInv /\ Init
  BY LinkInitGood DEF LinkInit
<1>2. LinkInv /\ [LinkNext]_vars => [Next]_trackVars
  BY LinkStep
<1>3. QED
  BY <1>1, <1>2, LinkInvAlways, PTL DEF LinkSpec, Spec

\* Whenever a frame has been joined, every particle of the frames taken so far
\* is in a track and no later one is, for any data set and search range.
THEOREM EveryParticleIsTracked == LinkSpec => []EveryParticleTracked
<1>1. LinkInv => EveryParticleTracked
  BY DEF LinkInv, Placed, EveryParticleTracked, AtLoopHead
<1>2. QED
  BY <1>1, LinkInvAlways, PTL

\* While subnetworks are picked the candidate lists mirror each other, and a
\* subnetwork handed to the search has no candidate outside it.
THEOREM SubnetsAreClosed == LinkSpec => []SubnetClosed
<1>1. LinkInv => SubnetClosed
  <2> SUFFICES ASSUME LinkInv
               PROVE  SubnetClosed
    OBVIOUS
  <2>1. CandidatesMirror
    <3> SUFFICES ASSUME pc = "pick", NEW p \in PSide, NEW n \in NSide
                 PROVE  /\ n \in nPos[p] <=> p \in pPos[n]
                        /\ n \in nPos[p] => p \in pList /\ n \in nList
      BY DEF CandidatesMirror, PSide, NSide
    <3>1. n \in nPos[p] <=> p \in pPos[n]
      BY DEF LinkInv, Growing, Mirrored
    <3> QED
      BY <3>1 DEF LinkInv, Waiting
  <2>2. ASSUME pc = "grow", tmpP = {}, tmpN = {}, NEW p \in Particle, NEW n \in Particle,
               n \in nPos[p], Frame[p] + 2 = frame
        PROVE  p \in pSub <=> n \in nSub
    <3>1. p \in PSide /\ n \in NSide
      BY <2>2, OtherSide DEF PSide
    <3>2. p \in pPos[n]
      BY <2>2, <3>1 DEF LinkInv, Growing, Mirrored
    <3> QED
      BY <2>2, <3>1, <3>2 DEF LinkInv, Growing
  <2> QED
    BY <2>1, <2>2 DEF SubnetClosed
<1>2. QED
  BY <1>1, LinkInvAlways, PTL

\* Every candidate list fill_pos_link_next has allocated is freed when its pair
\* of frames has been joined, and none is left when the link returns.
THEOREM CandidatesAreFreed == LinkSpec => []NoCandidateLeft
<1> USE FrameTypes
<1>1. LinkInv => NoCandidateLeft
  <2> SUFFICES ASSUME LinkInv
               PROVE  NoCandidateLeft
    OBVIOUS
  <2>1. ASSUME pc \in {"next", "linked"}, NEW p \in Particle
        PROVE  /\ Frame[p] + 1 < frame => nPos[p] = {}
               /\ Frame[p] < frame => pPos[p] = {}
    <3>1. /\ Frame[p] + 2 < frame => nPos[p] = {}
          /\ Frame[p] + 1 < frame => pPos[p] = {}
          /\ Frame[p] + 2 = frame => nPos[p] = {}
          /\ Frame[p] + 1 = frame => pPos[p] = {}
      BY <2>1 DEF LinkInv, Behind, Joining
    <3>2. Frame[p] \in Nat /\ frame \in Nat
      BY DEF LinkInv, LinkTypeOK
    <3> QED
      BY <3>1, <3>2
  <2>2. ASSUME pc = "linked", NEW p \in Particle
        PROVE  nPos[p] = {} /\ pPos[p] = {}
    <3>1. Frame[p] \in Nat /\ frame \in Nat /\ Frame[p] < frame
      BY <2>2 DEF LinkInv, LinkTypeOK, Shape
    <3>2. CASE Frame[p] + 1 < frame
      BY <3>1, <3>2, <2>1, <2>2
    <3>3. CASE Frame[p] + 1 = frame
      <4>1. nPos[p] = Near(p) /\ pPos[p] = {}
        BY <3>1, <3>3, <2>1, <2>2 DEF LinkInv, Ahead
      <4>2. frame = NFrames
        BY <2>2 DEF LinkInv, Shape
      <4>3. Near(p) = {}
        BY <4>2, <3>3, NearFrames
      <4> QED
        BY <4>1, <4>3
    <3> QED
      BY <3>1, <3>2, <3>3
  <2> QED
    BY <2>1, <2>2 DEF NoCandidateLeft
<1>2. QED
  BY <1>1, LinkInvAlways, PTL

\* The ids of the numbered tracks are 0, 1, ... in the order of the list.
LEMMA IdsCount ==
    ASSUME TrackInv, \A t \in shelf : id[t] = Cardinality({u \in shelf : u < t})
    PROVE  /\ {id[t] : t \in shelf} = 0 .. trackCount - 1
           /\ \A t, u \in shelf : t < u => id[t] < id[u]
<1> DEFINE below(t) == {u \in shelf : u < t}
           n == Cardinality(shelf)
           I == 0 .. n - 1
           F == [t \in shelf |-> id[t]]
<1>1. /\ IsFiniteSet(shelf) /\ n \in Nat /\ n = trackCount
      /\ \A t \in shelf : t \in Nat
  BY ShelfIsFinite, FS_CardinalityType DEF TrackInv, TypeOK, CountAgrees, Box
<1>2. ASSUME NEW t \in shelf
      PROVE  /\ IsFiniteSet(below(t)) /\ Cardinality(below(t)) \in Nat
             /\ Cardinality(below(t)) < n
  <2>1. below(t) \in SUBSET shelf /\ t \notin below(t)
    BY <1>1
  <2>2. IsFiniteSet(below(t)) /\ Cardinality(below(t)) <= n
        /\ (n = Cardinality(below(t)) => shelf = below(t))
    BY <2>1, <1>1, FS_Subset
  <2>3. Cardinality(below(t)) \in Nat
    BY <2>2, FS_CardinalityType
  <2>4. Cardinality(below(t)) # n
    BY <2>1, <2>2
  <2> HIDE DEF below, n
  <2> QED
    BY <2>2, <2>3, <2>4, <1>1
<1>3. ASSUME NEW t \in shelf, NEW u \in shelf, t < u
      PROVE  id[t] < id[u]
  <2>1. below(t) \in SUBSET below(u) /\ t \in below(u) /\ t \notin below(t)
    BY <1>1, <1>3
  <2>2. IsFiniteSet(below(u)) /\ Cardinality(below(u)) \in Nat /\ Cardinality(below(t)) \in Nat
    BY <1>2
  <2>3. /\ Cardinality(below(t)) <= Cardinality(below(u))
        /\ Cardinality(below(u)) = Cardinality(below(t)) => below(u) = below(t)
    BY <2>1, <2>2, FS_Subset
  <2>4. Cardinality(below(t)) # Cardinality(below(u))
    BY <2>1, <2>3
  <2>5. id[t] = Cardinality(below(t)) /\ id[u] = Cardinality(below(u))
    OBVIOUS
  <2> HIDE DEF below
  <2> QED
    BY <2>2, <2>3, <2>4, <2>5
<1>4. \A t \in shelf : F[t] = Cardinality(below(t)) /\ F[t] \in I
  <2> SUFFICES ASSUME NEW t \in shelf
               PROVE  F[t] = Cardinality(below(t)) /\ F[t] \in I
    OBVIOUS
  <2>1. F[t] = Cardinality(below(t))
    OBVIOUS
  <2>2. Cardinality(below(t)) \in I
    BY <1>1, <1>2
  <2> QED
    BY <2>1, <2>2
<1>5. F \in [shelf -> I]
  <2>1. \A t \in shelf : id[t] \in I
    BY <1>4
  <2> HIDE DEF I
  <2> QED
    BY <2>1
<1>6. \A t, u \in shelf : F[t] = F[u] => t = u
  <2> SUFFICES ASSUME NEW t \in shelf, NEW u \in shelf, id[t] = id[u]
               PROVE  t = u
    OBVIOUS
  <2>1. t \in Nat /\ u \in Nat /\ id[t] \in Nat
    BY <1>1 DEF TrackInv, TypeOK
  <2>2. ~(t < u) /\ ~(u < t)
    BY <2>1, <1>3
  <2> QED
    BY <2>1, <2>2
<1>7. F \in Injection(shelf, I)
  BY <1>5, <1>6, Fun_IsInj
<1>8. IsFiniteSet(I) /\ Cardinality(I) = n
  <2>1. 0 \in Int /\ n - 1 \in Int
    BY <1>1
  <2>2. IsFiniteSet(I) /\ Cardinality(I) = IF 0 > n - 1 THEN 0 ELSE n - 1 - 0 + 1
    BY <2>1, FS_Interval
  <2> QED
    BY <2>2, <1>1
<1>9. F \in Surjection(shelf, I)
  <2> HIDE DEF F, I
  <2> QED
    BY <1>7, <1>8, FS_Injection
<1>10. \A k \in I : \E t \in shelf : F[t] = k
  <2> HIDE DEF F, I
  <2> QED
    BY <1>9, Fun_SurjectionProperties
<1>11. {id[t] : t \in shelf} = I
  <2>1. \A t \in shelf : id[t] \in I
    BY <1>4
  <2>2. \A k \in I : \E t \in shelf : id[t] = k
    BY <1>10
  <2> HIDE DEF I
  <2> QED
    BY <2>1, <2>2
<1> QED
  BY <1>1, <1>3, <1>11

\* What the program writes can be read back: a particle has an id exactly when
\* it has a neighbour in time, and the ids are 0, 1, ... in list order.
THEOREM OutputCanBeRead == LinkSpec => []OutputReadable
<1>1. LinkInv => OutputReadable
  <2> SUFFICES ASSUME LinkInv, pc = "numbered"
               PROVE  /\ \A p \in Particle :
                            track[p] # NULL <=> next[p] # NULL \/ prev[p] # NULL
                      /\ {id[t] : t \in shelf} = 0 .. trackCount - 1
                      /\ \A t, u \in shelf : t < u => id[t] < id[u]
    BY DEF OutputReadable
  <2>1. /\ TrackInv /\ parts = {} /\ \A t \in shelf : length[t] >= 2
        /\ \A t \in shelf : id[t] = Cardinality({u \in shelf : u < t})
    BY DEF LinkInv, Shape, Output, ShortestKept
  <2>2. ASSUME NEW p \in Particle, track[p] # NULL, next[p] = NULL, prev[p] = NULL
        PROVE  FALSE
    <3> DEFINE t == track[p]
    <3>1. t \in shelf /\ t \in Live /\ length[t] \in Nat /\ length[t] >= 2
      BY <2>1, <2>2 DEF TrackInv, ChainInv, NoDanglingTrack, Live, TypeOK
    <3>2. p = first[t] /\ p = last[t] /\ first[t] # NULL
      BY <3>1, <2>1, <2>2 DEF TrackInv, ChainInv, EndsAgree
    <3>3. Frame[p] + 1 = Frame[p] + length[t]
      BY <3>1, <3>2, <2>1 DEF TrackInv, ChainInv, Span
    <3>4. Frame[p] \in Nat
      BY FrameTypes
    <3> HIDE DEF t
    <3> QED
      BY <3>1, <3>3, <3>4
  <2>3. \A p \in Particle : track[p] # NULL <=> next[p] # NULL \/ prev[p] # NULL
    BY <2>1, <2>2, Links
  <2> QED
    BY <2>1, <2>3, IdsCount
<1>2. QED
  BY <1>1, LinkInvAlways, PTL

\* A pair that link_pairs makes.
LEMMA PairIsFree ==
    ASSUME LinkInv, pc = "pairs", NEW p \in pSub
    PROVE  /\ p \in Particle /\ p \in PSide /\ p \in DOMAIN pairing
           /\ next[p] = NULL /\ track[p] # NULL
           /\ pairing[p] # NULL =>
                /\ pairing[p] \in nSub \cap NSide /\ pairing[p] \in Near(p)
                /\ track[pairing[p]] = NULL /\ Frame[pairing[p]] = Frame[p] + 1
<1> USE FrameTypes
<1>1. /\ p \in DOMAIN pairing /\ p \in PSide /\ next[p] = NULL
      /\ pairing[p] = NULL \/ pairing[p] \in nSub \cap Near(p)
      /\ \A n \in nSub : n \in NSide /\ pPos[n] # {}
  BY DEF LinkInv, Pairing
<1>2. p \in Particle /\ Frame[p] + 2 = frame
  BY <1>1 DEF PSide
<1>3. track[p] # NULL
  BY <1>2 DEF LinkInv, Placed, Joining
<1>4. ASSUME pairing[p] # NULL
      PROVE  /\ pairing[p] \in nSub \cap NSide /\ pairing[p] \in Near(p)
             /\ track[pairing[p]] = NULL /\ Frame[pairing[p]] = Frame[p] + 1
  <2>1. pairing[p] \in nSub \cap NSide /\ pairing[p] \in Near(p) /\ pPos[pairing[p]] # {}
    BY <1>1, <1>4
  <2>2. track[pairing[p]] = NULL
    BY <2>1 DEF LinkInv, Waiting
  <2> QED
    BY <2>1, <2>2, <1>2, NearFrames DEF NSide
<1> QED
  BY <1>1, <1>2, <1>3, <1>4

-----------------------------------------------------------------------------
(* The decomposition loses nothing                                            *)

\* What the links of f cost, one by one and over the particles of S.
LinkCosts(f, d) == [p \in Particle |-> LinkCost(p, f[p], d, NULL, MaxDispSq)]
CostOver(f, d, S) == Total(LinkCosts(f, d), S)

\* What the pair of frames in hand could be assigned.
FrameAssignments == Assignments(PSide, [p \in PSide |-> Near(p)], NULL)

\* Particles whose bond, or the lack of one, is settled.
Done == {p \in PSide : nPos[p] = {} /\ ~(pc = "pairs" /\ p \in DOMAIN pairing)}

\* Settled particles are bonded at least as cheaply as any assignment of the
\* whole pair of frames bonds them, and so are those of the pairing in hand.
Cheapest ==
    /\ Joining => \A p \in PSide :
         /\ nPos[p] \in {{}, Near(p)}
         /\ next[p] = NULL \/ next[p] \in Near(p)
    /\ pc = "pick" => \A p \in pList : nPos[p] # {}
    /\ pc = "grow" => \A p \in pSub \cup tmpP : nPos[p] # {}
    /\ pc \in {"pick", "grow", "pairs"} =>
         \A g \in FrameAssignments : CostOver(next, dist, Done) <= CostOver(g, dist, Done)
    /\ pc = "pairs" =>
         /\ \A p \in DOMAIN pairing \ pSub : next[p] = pairing[p]
         /\ \A g \in FrameAssignments :
              CostOver(pairing, dist, DOMAIN pairing) <= CostOver(g, dist, DOMAIN pairing)

LEMMA AssignmentIs ==
    ASSUME NEW P, NEW cand, NEW none, NEW f
    PROVE  f \in Assignments(P, cand, none) <=>
             /\ f = [p \in P |-> f[p]]
             /\ \A p \in P : f[p] \in cand[p] \cup {none}
             /\ InjectiveOn(f, none)
<1> DEFINE all == (UNION {cand[p] : p \in P}) \cup {none}
<1>1. f \in Assignments(P, cand, none) <=>
        /\ f \in [P -> all]
        /\ \A p \in P : f[p] \in cand[p] \cup {none}
        /\ InjectiveOn(f, none)
  BY DEF Assignments
<1>2. ASSUME \A p \in P : f[p] \in cand[p] \cup {none}, f = [p \in P |-> f[p]]
      PROVE  f \in [P -> all]
  <2>1. \A p \in P : f[p] \in all
    BY <1>2
  <2> HIDE DEF all
  <2> QED
    BY <2>1, <1>2
<1> HIDE DEF all
<1> QED
  BY <1>1, <1>2

\* A bond within the search range, or none, costs a number.
LEMMA CostsAreNumbers ==
    ASSUME LinkTypeOK, NEW f, NEW p \in Particle, f[p] = NULL \/ f[p] \in Near(p)
    PROVE  LinkCosts(f, dist)[p] \in Nat /\ LinkCosts(f, dist)[p] <= MaxDispSq
<1> DEFINE c == LinkCosts(f, dist)[p]
           step == <<p, f[p]>>
<1>1. CASE f[p] = NULL
  <2>1. c = MaxDispSq
    BY <1>1, Zenon DEF LinkCosts, LinkCost
  <2> QED
    BY <2>1, LinkAssumption
<1>2. CASE f[p] \in Near(p)
  <2>1. step \in Consecutive /\ dist[step] < MaxDispSq /\ f[p] # NULL
    <3>1. f[p] \in Particle /\ step \in Consecutive /\ dist[step] < MaxDispSq
      BY <1>2, Zenon DEF Near
    <3> HIDE DEF step
    <3> QED
      BY <3>1, NullAssumption
  <2>2. c = dist[step]
    BY <2>1, Zenon DEF LinkCosts, LinkCost
  <2> HIDE DEF step, c
  <2>3. dist[step] \in Nat
    BY <2>1 DEF LinkTypeOK
  <2>4. c \in Nat /\ c <= MaxDispSq
    BY <2>1, <2>2, <2>3, LinkAssumption
  <2> QED
    BY <2>4 DEF c
<1> QED
  BY <1>1, <1>2

\* Optimal means: no assignment is cheaper.
LEMMA OptimumIs ==
    ASSUME LinkTypeOK, NEW P \in SUBSET Particle, NEW cand, \A p \in P : cand[p] \subseteq Near(p)
    PROVE  \A f : f \in OptimalAssignments(P, cand, dist, NULL, MaxDispSq) <=>
             /\ f \in Assignments(P, cand, NULL)
             /\ \A g \in Assignments(P, cand, NULL) : CostOver(f, dist, P) <= CostOver(g, dist, P)
<1> DEFINE all == Assignments(P, cand, NULL)
           cost(f) == AssignmentCost(f, dist, NULL, MaxDispSq)
           costs == {cost(f) : f \in all}
<1>0. IsFiniteSet(P)
  BY ParticleAssumption, FS_Subset
<1>1. \A f \in all : cost(f) = CostOver(f, dist, P) /\ cost(f) \in Nat
  <2> SUFFICES ASSUME NEW f \in all
               PROVE  cost(f) = CostOver(f, dist, P) /\ cost(f) \in Nat
    OBVIOUS
  <2>1. DOMAIN f = P /\ \A p \in P : f[p] \in cand[p] \cup {NULL}
    BY AssignmentIs
  <2>2. \A p \in DOMAIN f : LinkCosts(f, dist)[p] = LinkCost(p, f[p], dist, NULL, MaxDispSq)
    BY <2>1 DEF LinkCosts
  <2>3. cost(f) = Total(LinkCosts(f, dist), DOMAIN f)
    BY <2>1, <2>2, <1>0, AssignmentCostIs
  <2>4. \A p \in P : LinkCosts(f, dist)[p] \in Nat
    BY <2>1, CostsAreNumbers
  <2>5. Total(LinkCosts(f, dist), P) \in Nat
    BY <2>4, <1>0, TotalTakes
  <2> HIDE DEF cost
  <2> QED
    BY <2>1, <2>3, <2>5 DEF CostOver
<1> HIDE DEF all, cost
<1>2. costs \in SUBSET Nat
  BY <1>1
<1>3. ASSUME all # {}
      PROVE  Min(costs) \in costs /\ \A c \in costs : Min(costs) <= c
  <2>1. costs # {}
    BY <1>3
  <2>2. \E m \in costs : \A n \in costs : m <= n
    <3> HIDE DEF costs
    <3> QED
      BY <1>2, <2>1, LeastNatural
  <2> HIDE DEF costs
  <2> QED
    BY <2>2 DEF Min
<1>4. OptimalAssignments(P, cand, dist, NULL, MaxDispSq) = {f \in all : cost(f) = Min(costs)}
  BY DEF OptimalAssignments, all, cost, costs
<1>5. ASSUME NEW f \in all
      PROVE  cost(f) = Min(costs) <=> \A g \in all : cost(f) <= cost(g)
  <2>1. Min(costs) \in costs /\ \A c \in costs : Min(costs) <= c
    BY <1>3
  <2>2. PICK g \in all : cost(g) = Min(costs)
    BY <2>1
  <2>3. \A h \in all : cost(h) \in costs
    OBVIOUS
  <2>4. \A h \in all : Min(costs) <= cost(h)
    BY <2>1, <2>3
  <2>5. cost(f) \in Nat /\ cost(g) \in Nat
    BY <1>1
  <2> HIDE DEF costs
  <2> QED
    BY <2>2, <2>4, <2>5
<1>6. \A f \in all : (\A g \in all : cost(f) <= cost(g)) <=>
                     \A g \in all : CostOver(f, dist, P) <= CostOver(g, dist, P)
  BY <1>1
<1> HIDE DEF costs
<1>7. \A f : f \in OptimalAssignments(P, cand, dist, NULL, MaxDispSq) <=>
               f \in all /\ \A g \in all : CostOver(f, dist, P) <= CostOver(g, dist, P)
  BY <1>4, <1>5, <1>6
<1> QED
  BY <1>7 DEF all



\* What a frame assignment gives to each particle, and what it costs.
LEMMA FrameAssignment ==
    ASSUME LinkTypeOK, NEW g \in FrameAssignments
    PROVE  /\ \A p \in PSide : g[p] = NULL \/ g[p] \in Near(p)
           /\ \A p \in PSide : LinkCosts(g, dist)[p] \in Nat
           /\ InjectiveOn(g, NULL) /\ DOMAIN g = PSide
<1> DEFINE near == [p \in PSide |-> Near(p)]
<1>1. /\ g = [p \in PSide |-> g[p]] /\ InjectiveOn(g, NULL)
      /\ \A p \in PSide : g[p] \in near[p] \cup {NULL}
  <2>1. g \in Assignments(PSide, near, NULL)
    BY DEF FrameAssignments
  <2> HIDE DEF near
  <2> QED
    BY <2>1, AssignmentIs
<1>2. \A p \in PSide : g[p] = NULL \/ g[p] \in Near(p)
  BY <1>1
<1>3. \A p \in PSide : p \in Particle
  BY DEF PSide
<1>4. \A p \in PSide : LinkCosts(g, dist)[p] \in Nat
  BY <1>2, <1>3, CostsAreNumbers
<1> QED
  BY <1>1, <1>2, <1>4

LEMMA SidesAreFinite ==
    /\ PSide \subseteq Particle
    /\ \A S \in SUBSET PSide : IsFiniteSet(S) /\ S \in SUBSET Particle
<1>1. PSide \subseteq Particle
  BY DEF PSide
<1>2. \A S \in SUBSET PSide : S \in SUBSET Particle
  BY <1>1
<1> QED
  BY <1>1, <1>2, ParticleAssumption, FS_Subset

\* In the trivial phase everything is decided particle by particle.
LEMMA TrivialIsCheapest ==
    ASSUME LinkInv, pc = "trivial", NEW g \in FrameAssignments,
           NEW S \in SUBSET PSide, \A p \in S : next[p] # NULL \/ Near(p) = {}
    PROVE  CostOver(next, dist, S) <= CostOver(g, dist, S)
<1>1. ASSUME NEW p \in S
      PROVE  /\ LinkCosts(next, dist)[p] \in Nat /\ LinkCosts(g, dist)[p] \in Nat
             /\ LinkCosts(next, dist)[p] <= LinkCosts(g, dist)[p]
  <2>1. /\ p \in PSide /\ p \in Particle
        /\ nPos[p] = Near(p) /\ (next[p] # NULL => OnlyPair(p, next[p]))
    BY SidesAreFinite DEF LinkInv, Bonding
  <2>2. g[p] = NULL \/ g[p] \in Near(p)
    BY <2>1, FrameAssignment DEF LinkInv
  <2>3. CASE next[p] = NULL
    <3>1. g[p] = NULL
      BY <2>2, <2>3
    <3>2. LinkCosts(next, dist)[p] = LinkCosts(g, dist)[p]
      BY <2>1, <2>3, <3>1, Zenon DEF LinkCosts, LinkCost
    <3>3. LinkCosts(g, dist)[p] \in Nat
      BY <2>1, <2>2, CostsAreNumbers DEF LinkInv
    <3> QED
      BY <3>2, <3>3
  <2>4. CASE next[p] # NULL
    <3>1. next[p] \in Near(p) /\ Near(p) = {next[p]}
      <4>1. next[p] \in NSide
        <5>1. next[p] \in Particle /\ Frame[next[p]] = Frame[p] + 1
          BY <2>1, <2>4, Links DEF LinkInv
        <5>2. Frame[p] \in Nat /\ Frame[p] + 2 = frame
          BY <2>1, FrameTypes DEF PSide
        <5> QED
          BY <5>1, <5>2 DEF NSide
      <4>2. p \in NearBefore(next[p])
        BY <2>1, <2>4, <4>1 DEF OnlyPair, LinkInv, Bonding
      <4>3. next[p] \in Near(p)
        BY <4>2 DEF NearBefore
      <4> QED
        BY <2>1, <2>4, <4>3, OnlyOne DEF OnlyPair, LinkInv, LinkTypeOK
    <3>2. CASE g[p] = next[p]
      <4>1. LinkCosts(next, dist)[p] = LinkCosts(g, dist)[p]
        BY <2>1, <3>2, Zenon DEF LinkCosts, LinkCost
      <4>2. LinkCosts(g, dist)[p] \in Nat
        BY <2>1, <2>2, CostsAreNumbers DEF LinkInv
      <4> QED
        BY <4>1, <4>2
    <3>3. CASE g[p] = NULL
      <4>1. LinkCosts(g, dist)[p] = MaxDispSq
        BY <2>1, <3>3, Zenon DEF LinkCosts, LinkCost
      <4>2. LinkCosts(next, dist)[p] \in Nat /\ LinkCosts(next, dist)[p] <= MaxDispSq
        BY <2>1, <3>1, CostsAreNumbers DEF LinkInv
      <4> QED
        BY <4>1, <4>2, LinkAssumption
    <3> QED
      BY <2>2, <3>1, <3>2, <3>3
  <2> QED
    BY <2>3, <2>4
<1>2. IsFiniteSet(S)
  BY SidesAreFinite
<1> QED
  BY <1>1, <1>2, TotalMonotone DEF CostOver

\* Two parts that are each cheapest are cheapest together.
LEMMA PartsAreCheapest ==
    ASSUME LinkTypeOK, NEW S \in SUBSET PSide, NEW T \in SUBSET S, NEW f, NEW g, NEW h,
           \A p \in S : f[p] = NULL \/ f[p] \in Near(p),
           \A p \in S : g[p] = NULL \/ g[p] \in Near(p),
           \A p \in T : f[p] = h[p],
           CostOver(h, dist, T) <= CostOver(g, dist, T),
           CostOver(f, dist, S \ T) <= CostOver(g, dist, S \ T)
    PROVE  CostOver(f, dist, S) <= CostOver(g, dist, S)
<1> DEFINE F == LinkCosts(f, dist)
           G == LinkCosts(g, dist)
           R == S \ T
<1>1. IsFiniteSet(S) /\ IsFiniteSet(T) /\ IsFiniteSet(R) /\ S \in SUBSET Particle
  BY SidesAreFinite
<1>2. \A p \in S : F[p] \in Nat /\ G[p] \in Nat
  BY <1>1, CostsAreNumbers
<1>3. CostOver(h, dist, T) = Total(F, T)
  <2>1. \A p \in T : F[p] = LinkCosts(h, dist)[p]
    BY <1>1, Zenon DEF LinkCosts
  <2> HIDE DEF F
  <2> QED
    BY <1>1, <2>1, TotalAgrees DEF CostOver
<1>4. /\ CostOver(g, dist, T) = Total(G, T) /\ CostOver(g, dist, R) = Total(G, R)
      /\ CostOver(f, dist, R) = Total(F, R)
      /\ CostOver(f, dist, S) = Total(F, S) /\ CostOver(g, dist, S) = Total(G, S)
  BY DEF CostOver
<1> HIDE DEF F, G
<1>5. Total(F, S) = Total(F, T) + Total(F, R) /\ Total(G, S) = Total(G, T) + Total(G, R)
  BY <1>1, <1>2, TotalSplits
<1>6. /\ Total(F, T) \in Nat /\ Total(F, R) \in Nat
      /\ Total(G, T) \in Nat /\ Total(G, R) \in Nat
  <2>1. /\ \A p \in T : F[p] \in Nat
        /\ \A p \in T : G[p] \in Nat
        /\ \A p \in R : F[p] \in Nat
        /\ \A p \in R : G[p] \in Nat
    BY <1>2
  <2> HIDE DEF R
  <2> QED
    BY <2>1, <1>1, TotalTakes
<1>7. Total(F, T) <= Total(G, T) /\ Total(F, R) <= Total(G, R)
  BY <1>3, <1>4
<1> HIDE DEF R
<1> QED
  BY <1>4, <1>5, <1>6, <1>7



LEMMA NextIsNear ==
    ASSUME LinkInv, Joining, Cheapest
    PROVE  \A p \in PSide : next[p] = NULL \/ next[p] \in Near(p)
BY DEF Cheapest

LEMMA TrivialGood == LinkInv /\ pc = "trivial" => Cheapest
<1> SUFFICES ASSUME LinkInv, pc = "trivial"
             PROVE  Cheapest
  OBVIOUS
<1>1. ASSUME NEW p \in PSide
      PROVE  nPos[p] = Near(p) /\ (next[p] = NULL \/ next[p] \in Near(p))
  <2>1. /\ p \in Particle
        /\ nPos[p] = Near(p) /\ (next[p] # NULL => OnlyPair(p, next[p]))
    BY SidesAreFinite DEF LinkInv, Bonding
  <2>2. CASE next[p] # NULL
    <3>1. next[p] \in NSide
      <4>1. next[p] \in Particle /\ Frame[next[p]] = Frame[p] + 1
        BY <2>1, <2>2, Links DEF LinkInv
      <4>2. Frame[p] \in Nat /\ Frame[p] + 2 = frame
        BY <2>1, FrameTypes DEF PSide
      <4> QED
        BY <4>1, <4>2 DEF NSide
    <3>2. p \in NearBefore(next[p])
      BY <2>1, <2>2, <3>1 DEF OnlyPair, LinkInv, Bonding
    <3> QED
      BY <2>1, <3>2 DEF NearBefore
  <2> QED
    BY <2>1, <2>2
<1> QED
  BY <1>1 DEF Cheapest

\* When the lists are cleaned, all that have lost their candidates are settled.
LEMMA AfterCleaning ==
    ASSUME LinkInv, Cheapest, CleanLists, NEW g \in FrameAssignments,
           NEW S, S = {p \in PSide : nPos'[p] = {}}
    PROVE  CostOver(next, dist, S) <= CostOver(g, dist, S)
<1>1. \A p \in Particle : nPos'[p] = IF p \in pList /\ next[p] # NULL THEN {} ELSE nPos[p]
  BY DEF CleanLists, CandidatesAfterBonds
<1>2. S \in SUBSET PSide /\ \A p \in PSide : p \in Particle
  BY SidesAreFinite
<1>3. CASE pc = "trivial"
  <2>1. ASSUME NEW p \in S
        PROVE  next[p] # NULL \/ Near(p) = {}
    <3>1. p \in PSide /\ p \in Particle /\ nPos'[p] = {}
      BY <1>2
    <3> QED
      BY <3>1, <1>1, <1>3 DEF LinkInv, Bonding
  <2> QED
    BY <1>2, <1>3, <2>1, TrivialIsCheapest
<1>4. CASE pc = "pairs" /\ pSub = {}
  <2> DEFINE T == DOMAIN pairing
  <2>1. /\ T \subseteq PSide /\ \A p \in T : nPos[p] = {} /\ next[p] = pairing[p]
        /\ CostOver(pairing, dist, T) <= CostOver(g, dist, T)
        /\ CostOver(next, dist, Done) <= CostOver(g, dist, Done)
    BY <1>4 DEF LinkInv, Pairing, Cheapest
  <2>2. \A p \in PSide : nPos'[p] = nPos[p]
    BY <1>1, <1>2, <1>4 DEF LinkInv, Waiting
  <2>3. T \in SUBSET S /\ S \ T = Done
    BY <2>1, <2>2, <1>4 DEF Done
  <2>4. /\ \A p \in S : next[p] = NULL \/ next[p] \in Near(p)
        /\ \A p \in S : g[p] = NULL \/ g[p] \in Near(p)
        /\ LinkTypeOK
    BY <1>2, <1>4, NextIsNear, FrameAssignment DEF LinkInv, Joining
  <2>5. CostOver(next, dist, S \ T) <= CostOver(g, dist, S \ T)
    BY <2>1, <2>3
  <2> HIDE DEF T
  <2> QED
    BY <1>2, <2>1, <2>3, <2>4, <2>5, PartsAreCheapest
<1> QED
  BY <1>3, <1>4 DEF CleanLists, CleanDue

-----------------------------------------------------------------------------
\* Steps that touch neither the distances nor the frame in hand.
LEMMA SameSides ==
    ASSUME UNCHANGED <<dist, frame>>
    PROVE  /\ PSide' = PSide /\ FrameAssignments' = FrameAssignments
           /\ \A p \in Particle : Near(p)' = Near(p)
<1>1. PSide' = PSide
  BY DEF PSide
<1>2. \A p \in Particle : Near(p)' = Near(p)
  BY NearStays
<1>3. \A p \in PSide : p \in Particle
  BY SidesAreFinite
<1>4. [p \in PSide' |-> Near(p)'] = [p \in PSide |-> Near(p)]
  BY <1>1, <1>2, <1>3
<1> QED
  BY <1>1, <1>2, <1>4 DEF FrameAssignments

\* It is enough to know what changes of the candidates, the bonds and Done.
LEMMA StillCheapest ==
    ASSUME LinkInv, Cheapest, UNCHANGED <<dist, frame>>, Joining,
           \A p \in PSide : nPos'[p] \in {{}, Near(p)},
           \A p \in PSide : next'[p] = NULL \/ next'[p] \in Near(p),
           pc' = "pick" => \A p \in pList' : nPos'[p] # {},
           pc' = "grow" => \A p \in (pSub \cup tmpP)' : nPos'[p] # {},
           pc' \in {"pick", "grow", "pairs"} => \A g \in FrameAssignments :
               CostOver(next', dist, Done') <= CostOver(g, dist, Done'),
           pc' = "pairs" =>
             /\ \A p \in DOMAIN pairing' \ pSub' : next'[p] = pairing'[p]
             /\ \A g \in FrameAssignments :
                  CostOver(pairing', dist, DOMAIN pairing')
                    <= CostOver(g, dist, DOMAIN pairing')
    PROVE  Cheapest'
<1>1. /\ PSide' = PSide /\ FrameAssignments' = FrameAssignments /\ dist' = dist
      /\ \A p \in Particle : Near(p)' = Near(p)
      /\ \A p \in PSide : p \in Particle
  BY SameSides, SidesAreFinite
<1>2. (Joining => \A p \in PSide :
         /\ nPos[p] \in {{}, Near(p)}
         /\ next[p] = NULL \/ next[p] \in Near(p))'
  BY <1>1
<1>3. (pc = "pick" => \A p \in pList : nPos[p] # {})'
  OBVIOUS
<1>4. (pc = "grow" => \A p \in pSub \cup tmpP : nPos[p] # {})'
  OBVIOUS
<1>5. (pc \in {"pick", "grow", "pairs"} =>
         \A g \in FrameAssignments : CostOver(next, dist, Done) <= CostOver(g, dist, Done))'
  BY <1>1
<1>6. (pc = "pairs" =>
         /\ \A p \in DOMAIN pairing \ pSub : next[p] = pairing[p]
         /\ \A g \in FrameAssignments :
              CostOver(pairing, dist, DOMAIN pairing) <= CostOver(g, dist, DOMAIN pairing))'
  BY <1>1
<1> QED
  BY <1>2, <1>3, <1>4, <1>5, <1>6 DEF Cheapest

LEMMA CleanListsCheap ==
    ASSUME LinkInv, Cheapest, CleanLists, pc' = "pick"
    PROVE  Cheapest'
<1>1. /\ \A p \in Particle : nPos'[p] = IF p \in pList /\ next[p] # NULL THEN {} ELSE nPos[p]
      /\ pList' = {p \in pList : next[p] = NULL /\ nPos[p] # {}}
      /\ next' = next /\ UNCHANGED <<dist, frame>> /\ Joining
  BY DEF CleanLists, CandidatesAfterBonds, trackVars, CleanDue, Joining
<1>2. \A p \in PSide : p \in Particle
  BY SidesAreFinite
<1>3. \A p \in PSide : nPos'[p] \in {{}, Near(p)}
  BY <1>1, <1>2 DEF Cheapest
<1>4. \A p \in PSide : next'[p] = NULL \/ next'[p] \in Near(p)
  BY <1>1, NextIsNear
<1>5. \A p \in pList' : nPos'[p] # {}
  BY <1>1 DEF LinkInv, LinkTypeOK
<1>6. Done' = {p \in PSide : nPos'[p] = {}}
  BY <1>1, SameSides DEF Done
<1>7. \A g \in FrameAssignments : CostOver(next, dist, Done') <= CostOver(g, dist, Done')
  BY <1>6, AfterCleaning
<1>8. pc' # "grow" /\ pc' # "pairs" /\ next' = next
  BY <1>1
<1> QED
  BY <1>1, <1>3, <1>4, <1>5, <1>7, <1>8, StillCheapest

LEMMA PickFrontCheap ==
    ASSUME LinkInv, Cheapest, NEW p \in Particle, PickFront(p)
    PROVE  Cheapest'
<1>1. /\ pc = "pick" /\ pc' = "grow" /\ p \in pList /\ pSub' = {p} /\ tmpP' = {}
      /\ next' = next /\ nPos' = nPos /\ UNCHANGED <<dist, frame>> /\ Joining
  BY DEF PickFront, trackVars, posVars, Joining
<1>2. Done' = Done
  BY <1>1, SameSides DEF Done
<1>3. \A q \in (pSub \cup tmpP)' : nPos'[q] # {}
  BY <1>1 DEF Cheapest
<1>4. /\ \A q \in PSide : nPos'[q] \in {{}, Near(q)} /\ (next'[q] = NULL \/ next'[q] \in Near(q))
      /\ \A g \in FrameAssignments : CostOver(next', dist, Done') <= CostOver(g, dist, Done')
  BY <1>1, <1>2 DEF Cheapest
<1> QED
  BY <1>1, <1>3, <1>4, StillCheapest

LEMMA GrowNetCheap ==
    ASSUME LinkInv, Cheapest, GrowNet
    PROVE  Cheapest'
<1> DEFINE queuedN == tmpN \cup UNION {nPos[p] : p \in tmpP \ pSub}
<1>1. /\ pc = "grow" /\ pc' = "grow" /\ pSub' = pSub \cup tmpP
      /\ tmpP' = UNION {pPos[n] : n \in queuedN \ nSub}
      /\ next' = next /\ nPos' = nPos /\ UNCHANGED <<dist, frame>> /\ Joining
  BY DEF GrowNet, trackVars, posVars, Joining
<1>2. Done' = Done
  BY <1>1, SameSides DEF Done
<1>3. ASSUME NEW n \in queuedN, NEW q \in pPos[n]
      PROVE  nPos[q] # {}
  <2>1. n \in NSide
    <3>1. \A p \in tmpP : p \in PSide
      BY <1>1 DEF LinkInv, Growing
    <3>2. \A m \in tmpN : m \in NSide
      BY <1>1 DEF LinkInv, Growing
    <3> QED
      BY <3>1, <3>2, OtherSide DEF PSide
  <2>2. q \in PSide
    BY <2>1, <1>3, OtherSide
  <2> QED
    BY <2>1, <2>2, <1>1, <1>3 DEF LinkInv, Growing, Mirrored
<1>4. \A q \in (pSub \cup tmpP)' : nPos'[q] # {}
  <2> HIDE DEF queuedN
  <2>1. \A q \in tmpP' : \E n \in queuedN : q \in pPos[n]
    BY <1>1
  <2>2. \A q \in tmpP' : nPos[q] # {}
    BY <2>1, <1>3
  <2>3. \A q \in pSub' : nPos[q] # {}
    BY <1>1 DEF Cheapest
  <2> QED
    BY <2>2, <2>3, <1>1
<1>5. /\ \A q \in PSide : nPos'[q] \in {{}, Near(q)} /\ (next'[q] = NULL \/ next'[q] \in Near(q))
      /\ \A g \in FrameAssignments : CostOver(next', dist, Done') <= CostOver(g, dist, Done')
  BY <1>1, <1>2 DEF Cheapest
<1> QED
  BY <1>1, <1>4, <1>5, StillCheapest

\* The search gives a subnetwork the best pairs it can have, and no assignment
\* of the whole pair of frames can do better in it.
LEMMA SolveNetCheap ==
    ASSUME LinkInv, Cheapest, SolveNet
    PROVE  Cheapest'
<1> DEFINE cand == [p \in pSub |-> nPos[p]]
<1>1. /\ pc = "grow" /\ pc' = "pairs" /\ pSub' = pSub
      /\ pairing' \in OptimalAssignments(pSub, cand, dist, NULL, MaxDispSq)
      /\ next' = next /\ nPos' = nPos /\ UNCHANGED <<dist, frame>> /\ Joining
  BY DEF SolveNet, trackVars, posVars, Joining
<1>2. \A p \in pSub : p \in PSide /\ p \in Particle /\ cand[p] = Near(p)
  BY <1>1, SidesAreFinite DEF LinkInv, Growing, Cheapest
<1>3. /\ pairing' \in Assignments(pSub, cand, NULL)
      /\ \A g \in Assignments(pSub, cand, NULL) :
           CostOver(pairing', dist, pSub) <= CostOver(g, dist, pSub)
  <2>1. pSub \in SUBSET Particle /\ LinkTypeOK /\ \A p \in pSub : cand[p] \subseteq Near(p)
    BY <1>2 DEF LinkInv, LinkTypeOK
  <2> HIDE DEF cand
  <2> QED
    BY <1>1, <2>1, OptimumIs
<1>4. DOMAIN pairing' = pSub
  BY <1>3 DEF Assignments
<1>5. ASSUME NEW g \in FrameAssignments
      PROVE  CostOver(pairing', dist, pSub) <= CostOver(g, dist, pSub)
  <2> DEFINE h == [p \in pSub |-> g[p]]
  <2>1. /\ \A p \in PSide : g[p] = NULL \/ g[p] \in Near(p)
        /\ InjectiveOn(g, NULL) /\ DOMAIN g = PSide
    BY FrameAssignment DEF LinkInv
  <2>2. h \in Assignments(pSub, cand, NULL)
    <3>1. \A p \in pSub : h[p] \in cand[p] \cup {NULL}
      BY <1>2, <2>1
    <3>2. InjectiveOn(h, NULL)
      BY <1>2, <2>1 DEF InjectiveOn
    <3>3. h = [p \in pSub |-> h[p]]
      OBVIOUS
    <3> HIDE DEF h, cand
    <3> QED
      BY <3>1, <3>2, <3>3, AssignmentIs
  <2>3. CostOver(h, dist, pSub) = CostOver(g, dist, pSub)
    <3>1. \A p \in pSub : LinkCosts(h, dist)[p] = LinkCosts(g, dist)[p]
      BY <1>2, Zenon DEF LinkCosts, LinkCost
    <3>2. IsFiniteSet(pSub)
      BY <1>2, SidesAreFinite
    <3> HIDE DEF h
    <3> QED
      BY <3>1, <3>2, TotalAgrees DEF CostOver
  <2>4. CostOver(pairing', dist, pSub) <= CostOver(h, dist, pSub)
    <3> HIDE DEF h, cand
    <3> QED
      BY <1>3, <2>2
  <2> QED
    BY <2>3, <2>4
<1>6. Done' = Done
  <2>1. \A p \in pSub : nPos[p] # {}
    BY <1>1 DEF Cheapest
  <2> QED
    BY <1>1, <1>4, <2>1, SameSides DEF Done
<1>7. /\ \A q \in PSide : nPos'[q] \in {{}, Near(q)} /\ (next'[q] = NULL \/ next'[q] \in Near(q))
      /\ \A g \in FrameAssignments : CostOver(next', dist, Done') <= CostOver(g, dist, Done')
  BY <1>1, <1>6 DEF Cheapest
<1>8. /\ \A q \in DOMAIN pairing' \ pSub' : next'[q] = pairing'[q]
      /\ \A g \in FrameAssignments :
           CostOver(pairing', dist, DOMAIN pairing') <= CostOver(g, dist, DOMAIN pairing')
  BY <1>1, <1>4, <1>5
<1> HIDE DEF cand
<1> QED
  BY <1>1, <1>7, <1>8, StillCheapest

LEMMA PairLinked ==
    ASSUME LinkInv, NEW p \in Particle, LinkPair(p)
    PROVE  next' = [next EXCEPT ![p] = pairing[p]]
<1>1. /\ pc = "pairs" /\ p \in pSub /\ TrackInv /\ parts = {}
  BY DEF LinkPair, LinkInv, Shape
<1>2. /\ next[p] = NULL /\ track[p] # NULL /\ next \in [Particle -> ParticleOrNull]
      /\ pairing[p] # NULL => /\ pairing[p] \in Particle /\ track[pairing[p]] = NULL
                              /\ Frame[pairing[p]] = Frame[p] + 1
  BY <1>1, PairIsFree DEF TrackInv, TypeOK, NSide
<1>3. CASE pairing[p] = NULL
  BY <1>2, <1>3 DEF LinkPair, trackVars
<1>4. CASE pairing[p] # NULL
  <2>1. PushBack(track[p], pairing[p])
    BY <1>4 DEF LinkPair
  <2> QED
    BY <2>1, <1>1, <1>2, <1>4, Bonded
<1> QED
  BY <1>3, <1>4

LEMMA LinkPairCheap ==
    ASSUME LinkInv, Cheapest, NEW p \in Particle, LinkPair(p)
    PROVE  Cheapest'
<1>1. /\ pc = "pairs" /\ pc' = "pairs" /\ p \in pSub /\ pSub' = pSub \ {p}
      /\ nPos' = [nPos EXCEPT ![p] = {}] /\ pairing' = pairing /\ UNCHANGED <<dist, frame>>
      /\ Joining /\ next' = [next EXCEPT ![p] = pairing[p]]
  BY PairLinked DEF LinkPair, Joining
<1>2. /\ p \in PSide /\ p \in DOMAIN pairing /\ next[p] = NULL
      /\ pairing[p] = NULL \/ pairing[p] \in Near(p)
  BY <1>1, PairIsFree
<1>3. /\ next \in [Particle -> ParticleOrNull] /\ nPos \in [Particle -> SUBSET Particle]
      /\ DOMAIN pairing \subseteq PSide /\ \A q \in PSide : q \in Particle
  BY <1>1, SidesAreFinite DEF LinkInv, TrackInv, TypeOK, LinkTypeOK, Pairing
<1>4. /\ \A q \in Particle : next'[q] = IF q = p THEN pairing[p] ELSE next[q]
      /\ \A q \in Particle : nPos'[q] = IF q = p THEN {} ELSE nPos[q]
  BY <1>1, <1>3
<1>5. Done' = Done
  BY <1>1, <1>2, <1>3, <1>4, SameSides DEF Done
<1>6. ASSUME NEW g \in FrameAssignments
      PROVE  CostOver(next', dist, Done') <= CostOver(g, dist, Done')
  <2>1. CostOver(next, dist, Done) <= CostOver(g, dist, Done)
    BY <1>1 DEF Cheapest
  <2>2. CostOver(next', dist, Done) = CostOver(next, dist, Done)
    <3>1. \A q \in Done : q \in Particle /\ next'[q] = next[q]
      BY <1>1, <1>2, <1>3, <1>4 DEF Done
    <3>2. \A q \in Done : LinkCosts(next', dist)[q] = LinkCosts(next, dist)[q]
      BY <3>1, Zenon DEF LinkCosts, LinkCost
    <3>3. Done \in SUBSET PSide
      BY DEF Done
    <3>4. IsFiniteSet(Done)
      BY <3>3, SidesAreFinite
    <3> QED
      BY <3>2, <3>4, TotalAgrees DEF CostOver
  <2> QED
    BY <2>1, <2>2, <1>5
<1>7. /\ \A q \in PSide : nPos'[q] \in {{}, Near(q)}
      /\ \A q \in PSide : next'[q] = NULL \/ next'[q] \in Near(q)
  BY <1>1, <1>2, <1>3, <1>4 DEF Cheapest
<1>8. /\ \A q \in DOMAIN pairing' \ pSub' : next'[q] = pairing'[q]
      /\ \A g \in FrameAssignments :
           CostOver(pairing', dist, DOMAIN pairing') <= CostOver(g, dist, DOMAIN pairing')
  <2>1. \A q \in DOMAIN pairing \ pSub : next[q] = pairing[q]
    BY <1>1 DEF Cheapest
  <2>2. \A q \in DOMAIN pairing \ (pSub \ {p}) : next'[q] = pairing[q]
    BY <2>1, <1>3, <1>4
  <2>3. \A g \in FrameAssignments :
           CostOver(pairing, dist, DOMAIN pairing) <= CostOver(g, dist, DOMAIN pairing)
    BY <1>1 DEF Cheapest
  <2> QED
    BY <2>2, <2>3, <1>1
<1> QED
  BY <1>1, <1>6, <1>7, <1>8, StillCheapest

LEMMA LeftOverCheap ==
    ASSUME LinkInv, Cheapest, NEW n \in Particle, LeftOver(n)
    PROVE  Cheapest' /\ next' = next
<1>1. /\ pc = "pairs" /\ pc' = "pairs" /\ n \in nSub /\ AddNewTrack(n)
      /\ nPos' = nPos /\ pSub' = pSub /\ pairing' = pairing /\ UNCHANGED <<dist, frame>>
      /\ Joining /\ TrackInv
  BY DEF LeftOver, LinkInv, Joining
<1>2. next' = next
  BY <1>1 DEF AddNewTrack
<1>3. Done' = Done
  BY <1>1, SameSides DEF Done
<1>4. /\ \A q \in PSide : nPos'[q] \in {{}, Near(q)} /\ (next'[q] = NULL \/ next'[q] \in Near(q))
      /\ \A g \in FrameAssignments : CostOver(next', dist, Done') <= CostOver(g, dist, Done')
      /\ \A q \in DOMAIN pairing' \ pSub' : next'[q] = pairing'[q]
      /\ \A g \in FrameAssignments :
           CostOver(pairing', dist, DOMAIN pairing') <= CostOver(g, dist, DOMAIN pairing')
  BY <1>1, <1>2, <1>3 DEF Cheapest
<1> QED
  BY <1>1, <1>2, <1>4, StillCheapest

LEMMA CheapStays ==
    ASSUME LinkInv, Cheapest, UNCHANGED vars
    PROVE  Cheapest'
<1>1. /\ UNCHANGED <<dist, frame, next, nPos, pList, pSub, tmpP, pairing, pc>>
  BY DEF vars, linkVars, trackVars, posVars, listVars, netVars
<1>2. CASE ~Joining
  BY <1>1, <1>2 DEF Cheapest, Joining
<1>3. CASE Joining
  <2>1. Done' = Done
    BY <1>1, SameSides DEF Done
  <2>2. /\ \A q \in PSide : nPos'[q] \in {{}, Near(q)}
                            /\ (next'[q] = NULL \/ next'[q] \in Near(q))
        /\ pc' = "pick" => \A p \in pList' : nPos'[p] # {}
        /\ pc' = "grow" => \A p \in (pSub \cup tmpP)' : nPos'[p] # {}
        /\ pc' \in {"pick", "grow", "pairs"} => \A g \in FrameAssignments :
               CostOver(next', dist, Done') <= CostOver(g, dist, Done')
        /\ pc' = "pairs" =>
             /\ \A p \in DOMAIN pairing' \ pSub' : next'[p] = pairing'[p]
             /\ \A g \in FrameAssignments :
                  CostOver(pairing', dist, DOMAIN pairing')
                    <= CostOver(g, dist, DOMAIN pairing')
    BY <1>1, <1>3, <2>1 DEF Cheapest
  <2> QED
    BY <1>1, <1>3, <2>2, StillCheapest
<1> QED
  BY <1>2, <1>3

LEMMA TrivialGoodNext == (LinkInv /\ pc = "trivial")' => Cheapest'
<1>1. LinkInv /\ pc = "trivial" => Cheapest
  BY TrivialGood
<1>2. QED
  BY <1>1, PTL

LEMMA CheapStep ==
    ASSUME LinkInv, LinkInv', Cheapest, [LinkNext]_vars
    PROVE  Cheapest'
<1>1. CASE ~Joining'
  BY <1>1 DEF Cheapest, Joining
<1>2. CASE pc' = "trivial"
  BY <1>2, TrivialGoodNext
<1>3. CASE pc' \in {"pick", "grow", "pairs"}
  <2>1. CASE CleanLists
    <3>1. pc' = "pick"
      BY <1>3, <2>1 DEF CleanLists
    <3> QED
      BY <2>1, <3>1, CleanListsCheap
  <2>2. ASSUME NEW p \in Particle, PickFront(p)
        PROVE  Cheapest'
    BY <2>2, PickFrontCheap
  <2>3. CASE GrowNet
    BY <2>3, GrowNetCheap
  <2>4. CASE SolveNet
    BY <2>4, SolveNetCheap
  <2>5. ASSUME NEW p \in Particle, LinkPair(p)
        PROVE  Cheapest'
    BY <2>5, LinkPairCheap
  <2>6. ASSUME NEW n \in Particle, LeftOver(n)
        PROVE  Cheapest'
    BY <2>6, LeftOverCheap
  <2>7. CASE UNCHANGED vars
    BY <2>7, CheapStays
  <2>8. /\ ~Begin /\ ~NextFrame /\ ~Finish /\ ~Barf /\ ~RemoveSingles /\ ~Number
        /\ \A p \in Particle : ~FirstTrack(p) /\ ~TrivialBond(p)
    BY <1>3 DEF Begin, NextFrame, Finish, Barf, RemoveSingles, Number, FirstTrack, TrivialBond
  <2> QED
    BY <2>1, <2>2, <2>3, <2>4, <2>5, <2>6, <2>7, <2>8 DEF LinkNext
<1> QED
  BY <1>1, <1>2, <1>3 DEF Joining

LEMMA CheapestAlways == LinkSpec => []Cheapest
<1>1. LinkInit => Cheapest
  BY DEF LinkInit, Cheapest, Joining
<1>2. LinkInv /\ LinkInv' /\ Cheapest /\ [LinkNext]_vars => Cheapest'
  BY CheapStep
<1>3. QED
  BY <1>1, <1>2, LinkInvAlways, PTL DEF LinkSpec

-----------------------------------------------------------------------------
(* The steps of the linker are steps of OptimalTracking                       *)

LEMMA SameOptimum ==
    ASSUME NEW P, NEW cand
    PROVE  Abstract!OptimalAssignments(P, cand, dist, NULL, MaxDispSq)
             = OptimalAssignments(P, cand, dist, NULL, MaxDispSq)
BY DEF Abstract!OptimalAssignments, Abstract!Assignments, Abstract!InjectiveOn,
       Abstract!AssignmentCost, Abstract!LinkCost, Abstract!MapThenSumSet,
       Abstract!MapThenFoldSet, Abstract!Min, OptimalAssignments, Assignments, InjectiveOn,
       AssignmentCost, LinkCost, MapThenSumSet, MapThenFoldSet, Min

LEMMA SameNear == \A p \in Particle : Abstract!Near(p) = Near(p)
<1>1. ASSUME NEW p \in Particle, NEW n \in Particle
      PROVE  <<p, n>> \in Consecutive <=> Frame[n] = Frame[p] + 1
  BY <1>1 DEF Consecutive
<1> QED
  BY <1>1, Zenon DEF Abstract!Near, Near

\* A bond once made stays: until the program removes the single particles no
\* next_ of the frames joined so far changes, and those have none.
BondsStay ==
    \A p \in Particle : Frame[p] + 1 < Joined => next'[p] = next[p]

LEMMA TrivialBondStays ==
    ASSUME LinkInv, NEW n \in Particle, TrivialBond(n)
    PROVE  BondsStay /\ UNCHANGED <<dist, frame>> /\ pc' = pc
<1>1. /\ pc = "trivial" /\ n \in todo /\ UNCHANGED <<dist, frame>> /\ pc' = pc
      /\ TrackInv /\ parts = {}
  BY DEF TrivialBond, LinkInv, Shape
<1>2. CASE next' = next
  BY <1>1, <1>2 DEF BondsStay
<1>3. ASSUME NEW p \in Particle, OnlyPair(p, n), PushBack(track[p], n)
      PROVE  BondsStay
  <2>1. /\ n \in NSide /\ track[n] = NULL /\ Frame[n] = Frame[p] + 1
        /\ p \in PSide /\ track[p] # NULL /\ next[p] = NULL
    BY <1>1, <1>3, OnlyPairIsFree
  <2>2. next' = [next EXCEPT ![p] = n]
    BY <1>1, <1>3, <2>1, Bonded
  <2>3. \A q \in Particle : q # p => next'[q] = next[q]
    BY <1>1, <2>2 DEF TrackInv, TypeOK
  <2>4. ~(Frame[p] + 1 < Joined)
    BY <1>1, <2>1, FrameTypes DEF PSide, Joined
  <2> QED
    BY <2>3, <2>4 DEF BondsStay
<1> QED
  BY <1>1, <1>2, <1>3 DEF TrivialBond, AddNewTrack, trackVars

LEMMA LinkPairStays ==
    ASSUME LinkInv, NEW p \in Particle, LinkPair(p)
    PROVE  BondsStay
<1>1. pc = "pairs" /\ p \in PSide /\ TrackInv
  BY PairIsFree DEF LinkPair, LinkInv
<1>2. \A q \in Particle : q # p => next'[q] = next[q]
  BY <1>1, PairLinked DEF TrackInv, TypeOK
<1>3. ~(Frame[p] + 1 < Joined)
  BY <1>1, FrameTypes DEF PSide, Joined
<1> QED
  BY <1>2, <1>3 DEF BondsStay

\* A particle alone in its track has no next one.
LEMMA RemovedHaveNone ==
    ASSUME LinkInv, RemoveSingles
    PROVE  next' = next
<1> DEFINE D == {t \in shelf : length[t] < 2}
<1>1. /\ RemoveShortTracks(2) /\ pc = "linked" /\ TypeOK /\ ChainInv
      /\ parts = {} /\ \A t \in shelf : first[t] # NULL
  BY DEF RemoveSingles, ShortestKept, LinkInv, TrackInv, Shape
<1>2. next' = [p \in Particle |-> IF p \in Released(D) THEN NULL ELSE next[p]]
  BY <1>1 DEF RemoveShortTracks, DeleteBoxes
<1>3. Released(D) = {p \in Particle : track[p] \in D}
  BY <1>1, ReleasedIsMembers DEF Live
<1>4. ASSUME NEW p \in Particle, track[p] \in D
      PROVE  next[p] = NULL
  <2> DEFINE t == track[p]
  <2>1. t \in shelf /\ t \in Live /\ length[t] \in Nat /\ length[t] < 2 /\ first[t] # NULL
    BY <1>1, <1>4 DEF Live, TypeOK
  <2>2. /\ Frame[last[t]] + 1 = Frame[first[t]] + length[t]
        /\ \A q \in Particle : track[q] = t => Frame[first[t]] <= Frame[q]
                                               /\ Frame[q] <= Frame[last[t]]
    BY <1>1, <2>1 DEF ChainInv, Span
  <2>3. first[t] \in Particle /\ last[t] \in Particle
    BY <1>1, <2>1 DEF TypeOK, ParticleOrNull, ChainInv, EndsAgree
  <2>4. CASE next[p] # NULL
    <3>1. next[p] \in Particle /\ track[next[p]] = t /\ Frame[next[p]] = Frame[p] + 1
      BY <2>4, Links DEF LinkInv
    <3>2. Frame[first[t]] <= Frame[p] /\ Frame[next[p]] <= Frame[last[t]]
      BY <2>2, <3>1
    <3>3. /\ Frame[first[t]] \in Nat /\ Frame[last[t]] \in Nat /\ Frame[p] \in Nat
          /\ Frame[next[p]] \in Nat
      BY <2>3, <3>1, FrameTypes
    <3> HIDE DEF t
    <3> QED
      BY <2>1, <2>2, <3>1, <3>2, <3>3
  <2> QED
    BY <2>4
<1> HIDE DEF D
<1> QED
  BY <1>1, <1>2, <1>3, <1>4 DEF TypeOK

\* link_next has returned: the bonds of the pair of frames are an optimum.
LEMMA FramesJoined ==
    ASSUME LinkInv, LinkInv', Cheapest, CleanLists, pc' = "next"
    PROVE  \E f \in OptimalAssignments(PSide, [p \in PSide |-> Near(p)], dist, NULL, MaxDispSq) :
              \A p \in PSide : f[p] = next[p]
<1> DEFINE near == [p \in PSide |-> Near(p)]
           f == [p \in PSide |-> next[p]]
<1>1. /\ Joining /\ LinkTypeOK /\ TrackInv /\ UNCHANGED <<dist, frame>>
      /\ \A p \in PSide : p \in Particle
  BY SidesAreFinite DEF CleanLists, CleanDue, Joining, LinkInv
<1>2. \A p \in PSide : next[p] = NULL \/ next[p] \in Near(p)
  BY <1>1, NextIsNear
<1>3. InjectiveOn(f, NULL)
  <2> SUFFICES ASSUME NEW p \in PSide, NEW q \in PSide, p # q, next[p] # NULL,
                      next[p] = next[q]
               PROVE  FALSE
    BY DEF InjectiveOn
  <2>1. prev[next[p]] = p /\ prev[next[q]] = q
    BY <1>1, Links
  <2> QED
    BY <2>1
<1>4. f \in Assignments(PSide, near, NULL)
  <2>1. f = [p \in PSide |-> f[p]] /\ \A p \in PSide : f[p] \in near[p] \cup {NULL}
    BY <1>2
  <2> HIDE DEF f, near
  <2> QED
    BY <2>1, <1>3, AssignmentIs
<1>5. \A p \in PSide : nPos'[p] = {}
  <2>1. \A p \in Particle : Frame[p] + 2 = frame' => nPos'[p] = {}
    <3>1. Behind' /\ pc' = "next"
      BY DEF LinkInv
    <3> QED
      BY <3>1 DEF Behind, Joining
  <2> QED
    BY <2>1, <1>1 DEF PSide
<1>6. ASSUME NEW g \in Assignments(PSide, near, NULL)
      PROVE  CostOver(f, dist, PSide) <= CostOver(g, dist, PSide)
  <2>1. g \in FrameAssignments
    BY DEF FrameAssignments
  <2>2. PSide = {p \in PSide : nPos'[p] = {}}
    BY <1>5
  <2>3. CostOver(next, dist, PSide) <= CostOver(g, dist, PSide)
    BY <2>1, <2>2, AfterCleaning
  <2>4. CostOver(f, dist, PSide) = CostOver(next, dist, PSide)
    <3>1. \A p \in PSide : LinkCosts(f, dist)[p] = LinkCosts(next, dist)[p]
      BY <1>1, Zenon DEF LinkCosts, LinkCost
    <3>2. IsFiniteSet(PSide)
      BY SidesAreFinite
    <3> HIDE DEF f
    <3> QED
      BY <3>1, <3>2, TotalAgrees DEF CostOver
  <2> QED
    BY <2>3, <2>4
<1>7. f \in OptimalAssignments(PSide, near, dist, NULL, MaxDispSq)
  <2>1. PSide \in SUBSET Particle /\ \A p \in PSide : near[p] \subseteq Near(p)
    BY <1>1
  <2> HIDE DEF f, near
  <2> QED
    BY <2>1, <1>1, <1>4, <1>6, OptimumIs
<1> QED
  BY <1>7

\* What a step does to the bonds of the frames joined so far.
LEMMA StepKeepsBonds ==
    ASSUME LinkInv, LinkInv', [LinkNext]_vars, ~(CleanLists /\ pc' = "next")
    PROVE  dist' = dist /\ Joined' = Joined /\ BondsStay
<1> USE FrameTypes
<1>0. /\ frame \in Nat /\ Shape /\ Shape'
  BY DEF LinkInv, LinkTypeOK
<1>1. CASE Begin
  BY <1>1 DEF Begin, Joined, trackVars, BondsStay
<1>2. ASSUME NEW p \in Particle, FirstTrack(p)
      PROVE  dist' = dist /\ Joined' = Joined /\ BondsStay
  BY <1>2 DEF FirstTrack, AddNewTrack, Joined, BondsStay
<1>3. CASE NextFrame
  BY <1>0, <1>3 DEF NextFrame, AtLoopHead, Joined, Shape, trackVars, BondsStay
<1>4. CASE Finish
  BY <1>0, <1>4, FramesAssumption DEF Finish, AtLoopHead, Joined, Shape, trackVars, BondsStay
<1>5. ASSUME NEW n \in Particle, TrivialBond(n)
      PROVE  dist' = dist /\ Joined' = Joined /\ BondsStay
  BY <1>5, TrivialBondStays DEF Joined
<1>6. CASE CleanLists
  BY <1>6 DEF CleanLists, CleanDue, Joined, trackVars, BondsStay
<1>7. ASSUME NEW p \in Particle, PickFront(p)
      PROVE  dist' = dist /\ Joined' = Joined /\ BondsStay
  BY <1>7 DEF PickFront, Joined, trackVars, BondsStay
<1>8. CASE GrowNet
  BY <1>8 DEF GrowNet, Joined, trackVars, BondsStay
<1>9. CASE Barf
  BY <1>9 DEF Barf, Joined, trackVars, BondsStay
<1>10. CASE SolveNet
  BY <1>10 DEF SolveNet, Joined, trackVars, BondsStay
<1>11. ASSUME NEW p \in Particle, LinkPair(p)
       PROVE  dist' = dist /\ Joined' = Joined /\ BondsStay
  BY <1>11, LinkPairStays DEF LinkPair, Joined
<1>12. ASSUME NEW n \in Particle, LeftOver(n)
       PROVE  dist' = dist /\ Joined' = Joined /\ BondsStay
  BY <1>12 DEF LeftOver, AddNewTrack, Joined, BondsStay
<1>13. CASE RemoveSingles
  BY <1>13, RemovedHaveNone DEF RemoveSingles, Joined, BondsStay
<1>14. CASE Number
  BY <1>14 DEF Number, Renumber, Joined, BondsStay
<1>15. CASE UNCHANGED vars
  BY <1>15 DEF vars, linkVars, trackVars, Joined, BondsStay
<1> QED
  BY <1>1, <1>2, <1>3, <1>4, <1>5, <1>6, <1>7, <1>8, <1>9, <1>10, <1>11, <1>12, <1>13,
     <1>14, <1>15 DEF LinkNext

\* The bonds OptimalTracking sees.
SettledBonds == [p \in Particle |-> IF Frame[p] + 1 < Joined THEN next[p] ELSE NULL]

LEMMA JoinIsStep ==
    ASSUME LinkInv, LinkInv', Cheapest, CleanLists, pc' = "next"
    PROVE  Abstract!JoinFrame
<1> USE FrameTypes
<1>1. /\ frame \in Nat /\ frame <= NFrames /\ frame >= 2 /\ frame' = frame
      /\ dist' = dist /\ next' = next
      /\ Joined = frame - 1 /\ Joined' = frame
  <2>1. pc \in {"trivial", "pairs"} /\ UNCHANGED <<dist, frame, trackVars>>
    BY DEF CleanLists, CleanDue
  <2> QED
    BY <2>1 DEF LinkInv, LinkTypeOK, Shape, Joined, trackVars
<1>2. Abstract!InFrame(Joined - 1) = PSide
  BY <1>1 DEF Abstract!InFrame, PSide
<1>3. [p \in PSide |-> Abstract!Near(p)] = [p \in PSide |-> Near(p)]
  BY SidesAreFinite, SameNear
<1>4. PICK f \in OptimalAssignments(PSide, [p \in PSide |-> Near(p)], dist, NULL, MaxDispSq) :
              \A p \in PSide : f[p] = next[p]
  BY FramesJoined
<1>5. f \in Abstract!OptimalAssignments(PSide, [p \in PSide |-> Abstract!Near(p)],
                                        dist, NULL, MaxDispSq)
  BY <1>3, <1>4, SameOptimum
<1>6. SettledBonds' = [p \in Particle |-> IF p \in PSide THEN f[p] ELSE SettledBonds[p]]
  <2>1. \A p \in Particle :
          (IF Frame[p] + 1 < Joined' THEN next'[p] ELSE NULL)
            = IF p \in PSide THEN f[p] ELSE SettledBonds[p]
    <3> SUFFICES ASSUME NEW p \in Particle
                 PROVE  (IF Frame[p] + 1 < frame THEN next[p] ELSE NULL)
                          = IF p \in PSide THEN f[p] ELSE SettledBonds[p]
      BY <1>1
    <3>1. SettledBonds[p] = IF Frame[p] + 1 < frame - 1 THEN next[p] ELSE NULL
      BY <1>1 DEF SettledBonds
    <3>2. Frame[p] \in Nat
      OBVIOUS
    <3> QED
      BY <1>1, <1>4, <3>1, <3>2 DEF PSide
  <2> QED
    BY <2>1 DEF SettledBonds
<1>7. Joined < NFrames /\ Joined' = Joined + 1
  BY <1>1
<1> QED
  BY <1>1, <1>2, <1>5, <1>6, <1>7 DEF Abstract!JoinFrame, SettledBonds

LEMMA StepImplements ==
    ASSUME LinkInv, LinkInv', Cheapest, [LinkNext]_vars
    PROVE  [Abstract!JoinFrame]_Abstract!vars
<1>1. CASE CleanLists /\ pc' = "next"
  BY <1>1, JoinIsStep
<1>2. CASE ~(CleanLists /\ pc' = "next")
  <2>1. dist' = dist /\ Joined' = Joined /\ BondsStay
    BY <1>2, StepKeepsBonds
  <2>2. SettledBonds' = SettledBonds
    BY <2>1 DEF SettledBonds, BondsStay
  <2> QED
    BY <2>1, <2>2 DEF Abstract!vars, SettledBonds
<1> QED
  BY <1>1, <1>2

\* The linker, which never looks at a whole pair of frames, implements the
\* specification that joins each pair by a minimum-cost assignment of all their
\* particles and takes no bond back: whatever it takes for granted in the
\* trivial bonds and gives to the search in closed subnetworks, the pieces add
\* up to an optimum of the whole.
THEOREM LinkerIsOptimal == LinkSpec => ImplementsOptimalTracking
<1>1. LinkInit => Abstract!Init
  <2> SUFFICES ASSUME LinkInit
               PROVE  Abstract!Init
    OBVIOUS
  <2>1. pc = "begin" /\ Joined = 1
    BY DEF LinkInit, Joined
  <2>2. \A p \in Particle : ~(Frame[p] + 1 < 1)
    BY FrameTypes
  <2>3. SettledBonds = [p \in Particle |-> NULL]
    BY <2>1, <2>2 DEF SettledBonds
  <2> QED
    BY <2>1, <2>3 DEF Abstract!Init, SettledBonds
<1>2. LinkInv /\ LinkInv' /\ Cheapest /\ [LinkNext]_vars => [Abstract!JoinFrame]_Abstract!vars
  BY StepImplements
<1>3. QED
  BY <1>1, <1>2, LinkInvAlways, CheapestAlways, PTL
  DEF LinkSpec, ImplementsOptimalTracking, Abstract!Spec

-----------------------------------------------------------------------------
(* Tracks read back from a file                                               *)

\* p comes before q in the file.
Earlier(p, q) == Frame[p] < Frame[q] \/ (Frame[p] = Frame[q] /\ p < q)

\* The particles of S in front of e.
InFront(S, e) == {d \in S : Earlier(d, e)}

\* A particle has more of them in front of it than each of those has.
LEMMA RanksGrow ==
    ASSUME NEW S \in SUBSET Particle, NEW d \in S, NEW e \in S, Earlier(d, e)
    PROVE  Cardinality(InFront(S, d)) < Cardinality(InFront(S, e))
<1> USE ParticleAssumption, NumbersAssumption
<1> DEFINE D == InFront(S, d)
           E == InFront(S, e)
<1>1. IsFiniteSet(D) /\ IsFiniteSet(E)
  <2>1. D \in SUBSET Particle /\ E \in SUBSET Particle
    BY DEF InFront
  <2> QED
    BY <2>1, FS_Subset
<1>2. d \notin D /\ D \cup {d} \in SUBSET E
  <2>1. \A p \in S : Frame[p] \in Nat /\ p \in Int
    OBVIOUS
  <2>2. d \notin D /\ d \in E
    BY <2>1 DEF InFront, Earlier
  <2>3. ASSUME NEW c \in D
        PROVE  c \in E
    <3>1. c \in S /\ Earlier(c, d)
      BY DEF InFront
    <3>2. Earlier(c, e)
      BY <2>1, <3>1 DEF Earlier
    <3> QED
      BY <3>1, <3>2 DEF InFront
  <2> HIDE DEF D, E
  <2> QED
    BY <2>2, <2>3
<1>3. Cardinality(D \cup {d}) = Cardinality(D) + 1
  BY <1>1, <1>2, FS_AddElement
<1>4. Cardinality(D \cup {d}) <= Cardinality(E)
  BY <1>1, <1>2, FS_Subset
<1>5. Cardinality(D) \in Nat /\ Cardinality(E) \in Nat
  BY <1>1, FS_CardinalityType
<1> QED
  BY <1>3, <1>4, <1>5

\* Master_box::priv_init goes through all particles, each once, in the order
\* of the frames.
LEMMA ReadingOrderIs ==
    ASSUME NEW S \in SUBSET Particle
    PROVE  /\ ReadingOrder(S) \in [1 .. Cardinality(S) -> S]
           /\ Cardinality(S) \in Nat
           /\ \A p \in S : \E k \in 1 .. Cardinality(S) : ReadingOrder(S)[k] = p
           /\ \A i, k \in 1 .. Cardinality(S) : i < k =>
                 /\ ReadingOrder(S)[i] # ReadingOrder(S)[k]
                 /\ Frame[ReadingOrder(S)[i]] <= Frame[ReadingOrder(S)[k]]
<1> USE ParticleAssumption, NumbersAssumption
<1> DEFINE R(e) == Cardinality(InFront(S, e))
           n == Cardinality(S)
           I == 0 .. n - 1
           F == [e \in S |-> R(e)]
           q == ReadingOrder(S)
<1>1. IsFiniteSet(S) /\ n \in Nat
  BY FS_Subset, FS_CardinalityType
<1>2. ASSUME NEW e \in S
      PROVE  R(e) \in I
  <2>1. InFront(S, e) \in SUBSET (S \ {e})
    BY DEF InFront, Earlier
  <2>2. IsFiniteSet(S \ {e}) /\ Cardinality(S \ {e}) = n - 1
    BY <1>1, FS_RemoveElement
  <2>3. R(e) \in Nat /\ R(e) <= n - 1
    BY <2>1, <2>2, FS_Subset, FS_CardinalityType
  <2> QED
    BY <2>3, <1>1
<1>3. ASSUME NEW d \in S, NEW e \in S, d # e
      PROVE  R(d) # R(e)
  <2>1. Earlier(d, e) \/ Earlier(e, d)
    BY <1>3 DEF Earlier
  <2> QED
    BY <2>1, <1>2, RanksGrow
<1>4. F \in Injection(S, I)
  <2> HIDE DEF R, I
  <2> QED
    BY <1>2, <1>3, Fun_IsInj
<1>5. IsFiniteSet(I) /\ Cardinality(I) = n
  <2>1. 0 \in Int /\ n - 1 \in Int /\ n \in Nat
    BY <1>1
  <2> HIDE DEF n
  <2>2. IsFiniteSet(I) /\ Cardinality(I) = IF 0 > n - 1 THEN 0 ELSE n - 1 - 0 + 1
    BY <2>1, FS_Interval
  <2> QED
    BY <2>1, <2>2
<1>6. \A k \in I : \E e \in S : F[e] = k
  <2> HIDE DEF F, I
  <2> QED
    BY <1>1, <1>4, <1>5, FS_Injection, Fun_SurjectionProperties
<1>7. q = [k \in 1 .. n |-> CHOOSE e \in S : R(e) = k - 1]
  BY DEF ReadingOrder, InOrder, InFront, Earlier
<1>8. ASSUME NEW k \in 1 .. n
      PROVE  q[k] \in S /\ R(q[k]) = k - 1
  <2>1. k - 1 \in I
    BY <1>1
  <2>2. \E e \in S : R(e) = k - 1
    BY <2>1, <1>6
  <2>3. q[k] = CHOOSE e \in S : R(e) = k - 1
    BY <1>7
  <2> HIDE DEF q, R
  <2> QED
    BY <2>2, <2>3
<1>9. ASSUME NEW i \in 1 .. n, NEW k \in 1 .. n, i < k
      PROVE  q[i] # q[k] /\ Frame[q[i]] <= Frame[q[k]]
  <2>1. q[i] \in S /\ q[k] \in S /\ R(q[i]) = i - 1 /\ R(q[k]) = k - 1
    <3> HIDE DEF q, R, n
    <3> QED
      BY <1>8
  <2>4. i \in Int /\ k \in Int
    BY <1>1
  <2>2. ~Earlier(q[k], q[i])
    <3> HIDE DEF q
    <3>1. ~(R(q[k]) < R(q[i]))
      <4> HIDE DEF R, n
      <4> QED
        BY <2>1, <2>4, <1>9
    <3> QED
      BY <2>1, <3>1, RanksGrow
  <2>3. Frame[q[i]] \in Nat /\ Frame[q[k]] \in Nat
    <3> HIDE DEF q
    <3> QED
      BY <2>1
  <2> HIDE DEF q, R
  <2> QED
    BY <2>1, <2>2, <2>3, <2>4, <1>9 DEF Earlier
<1>10. ASSUME NEW p \in S
       PROVE  \E k \in 1 .. n : q[k] = p
  <2>1. R(p) + 1 \in 1 .. n
    BY <1>1, <1>2
  <2>2. q[R(p) + 1] \in S /\ R(q[R(p) + 1]) = R(p)
    <3> DEFINE k == R(p) + 1
    <3>1. R(p) \in Int /\ k - 1 = R(p)
      <4> HIDE DEF R, n
      <4> QED
        BY <1>1, <1>2
    <3>3. k \in 1 .. n
      BY <2>1
    <3>2. q[k] \in S /\ R(q[k]) = k - 1
      <4> HIDE DEF R, n, q, k
      <4> QED
        BY <3>3, <1>8
    <3> QED
      BY <3>1, <3>2
  <2>3. q[R(p) + 1] = p
    BY <2>2, <1>3
  <2> QED
    BY <2>1, <2>3
<1>11. q \in [1 .. n -> S]
  <2> HIDE DEF q
  <2>1. q = [k \in 1 .. n |-> q[k]]
    BY <1>7
  <2> QED
    BY <2>1, <1>8
<1> QED
  BY <1>1, <1>9, <1>10, <1>11

-----------------------------------------------------------------------------

\* A row of boxes that are numbered without a gap.
LEMMA RowCounted ==
    ASSUME NEW a \in Nat, NEW b \in Nat, NEW m \in Nat, b <= m
    PROVE  Cardinality({v \in 0 .. m - 1 : a <= v /\ v < b}) = IF a <= b THEN b - a ELSE 0
<1>1. {v \in 0 .. m - 1 : a <= v /\ v < b} = a .. b - 1
  OBVIOUS
<1>2. a \in Int /\ b - 1 \in Int
  OBVIOUS
<1>3. Cardinality(a .. b - 1) = IF a > b - 1 THEN 0 ELSE b - 1 - a + 1
  BY <1>2, FS_Interval
<1>4. Cardinality(a .. b - 1) = IF a <= b THEN b - a ELSE 0
  <2>1. PICK c : c = Cardinality(a .. b - 1)
    OBVIOUS
  <2>2. c = IF a > b - 1 THEN 0 ELSE b - 1 - a + 1
    BY <1>3, <2>1
  <2>3. c = IF a <= b THEN b - a ELSE 0
    BY <2>2
  <2> QED
    BY <2>1, <2>3
<1> QED
  BY <1>1, <1>4

\* The iterator of the list of tracks, moved n boxes on or back.
LEMMA ForwardIs ==
    ASSUME NEW m \in Nat, shelf = 0 .. m - 1, NEW t \in Nat, NEW n \in Nat, t + n < m
    PROVE  Forward(t, n) = t + n
<1>1. t + n \in shelf /\ t <= t + n
  OBVIOUS
<1>2. Cardinality({v \in shelf : t <= v /\ v < t + n}) = n
  BY RowCounted
<1>3. ASSUME NEW u \in shelf, t <= u,
             Cardinality({v \in shelf : t <= v /\ v < u}) = n
      PROVE  u = t + n
  <2>1. u \in Nat /\ u <= m
    OBVIOUS
  <2>2. Cardinality({v \in shelf : t <= v /\ v < u}) = u - t
    BY <2>1, <1>3, RowCounted
  <2> QED
    BY <2>1, <2>2, <1>3
<1> QED
  BY <1>1, <1>2, <1>3 DEF Forward

LEMMA BackwardIs ==
    ASSUME NEW m \in Nat, shelf = 0 .. m - 1, NEW t \in Nat, NEW n \in Nat, t < m, n <= t
    PROVE  Backward(t, n) = t - n
<1>1. t - n \in shelf /\ t - n <= t /\ t - n \in Nat
  OBVIOUS
<1>2. Cardinality({v \in shelf : t - n <= v /\ v < t}) = n
  <2>1. PICK s \in Nat : s = t - n
    BY <1>1
  <2>2. s <= t /\ t <= m /\ t - s = n
    BY <2>1
  <2>3. Cardinality({v \in 0 .. m - 1 : s <= v /\ v < t}) = IF s <= t THEN t - s ELSE 0
    BY <2>2, RowCounted
  <2> QED
    BY <2>1, <2>2, <2>3
<1>3. ASSUME NEW u \in shelf, u <= t,
             Cardinality({v \in shelf : u <= v /\ v < t}) = n
      PROVE  u = t - n
  <2>1. u \in Nat /\ t <= m
    OBVIOUS
  <2>2. Cardinality({v \in shelf : u <= v /\ v < t}) = t - u
    BY <2>1, <1>3, RowCounted
  <2> QED
    BY <2>1, <2>2, <1>3
<1> QED
  BY <1>1, <1>2, <1>3 DEF Backward

\* Division by look_up_inc and its remainder.
LEMMA TableDivision ==
    ASSUME NEW a \in Nat
    PROVE  /\ a \div LookUpInc \in Nat /\ a % LookUpInc \in Nat /\ a % LookUpInc < LookUpInc
           /\ a = (a \div LookUpInc) * LookUpInc + (a % LookUpInc)
<1> USE LookUpIncAssumption
<1>1. PICK q, r : q = a \div LookUpInc /\ r = a % LookUpInc
  OBVIOUS
<1>2. LookUpInc \in Int /\ LookUpInc > 0
  OBVIOUS
<1>3. q \in Nat /\ r \in Nat /\ r < LookUpInc
  BY <1>1, <1>2
<1>4. a = LookUpInc * q + r
  BY <1>1, <1>2
<1>5. LookUpInc * q = q * LookUpInc
  BY <1>2, <1>3
<1>6. a = q * LookUpInc + r
  BY <1>4, <1>5
<1> QED
  BY <1>1, <1>3, <1>6, Zenon

LEMMA TableStep ==
    ASSUME NEW a \in Nat
    PROVE  (a + 1) \div LookUpInc =
              IF (a + 1) % LookUpInc = 0 THEN a \div LookUpInc + 1 ELSE a \div LookUpInc
<1> USE LookUpIncAssumption
<1> DEFINE x == a \div LookUpInc
           y == (a + 1) \div LookUpInc
           r == a % LookUpInc
           s == (a + 1) % LookUpInc
<1>1. x \in Nat /\ y \in Nat /\ r \in Nat /\ s \in Nat /\ r < LookUpInc /\ s < LookUpInc
  BY TableDivision
<1>2. a = x * LookUpInc + r /\ a + 1 = y * LookUpInc + s
  BY TableDivision
<1> HIDE DEF x, y, r, s
<1>3. (y - x) * LookUpInc = r + 1 - s
  BY <1>1, <1>2
<1>4. CASE s = 0
  BY <1>1, <1>3, <1>4
<1>5. CASE s # 0
  BY <1>1, <1>3, <1>5
<1> QED
  BY <1>4, <1>5 DEF x, y, s

-----------------------------------------------------------------------------

\* The particles whose turn has come, and those of them that are in a track.
Met == InFile \ ToSet(queue)
ReadIn == {p \in Met : file[p].id >= 0}

\* What is left of the Master_box, frame by frame, behind what was met.
Waits ==
    /\ queue \in Seq(InFile)
    /\ \A i, k \in DOMAIN queue : i < k =>
          queue[i] # queue[k] /\ Frame[queue[i]] <= Frame[queue[k]]
    /\ \A p \in Met, k \in DOMAIN queue : Frame[p] <= Frame[queue[k]]

\* pos_lookup_tab has an entry for every look_up_inc-th box.
Table ==
    /\ lookup \in Seq(Nat)
    /\ Len(lookup) = (running - 1) \div LookUpInc + 1
    /\ \A n \in DOMAIN lookup : lookup[n] = (n - 1) * LookUpInc

\* As many boxes as the ids that were met ask for, in the order of the ids.
Row ==
    /\ shelf = 0 .. running - 1 /\ running \in Nat \ {0}
    /\ trackCount = running /\ parts = {}
    /\ \A p \in Met : file[p].id < running
    /\ running = 1 \/ \E p \in InFile : file[p].id >= running - 1

\* The track of a particle is its id.
Held == \A p \in Particle : track[p] = IF p \in ReadIn THEN file[p].id ELSE NULL

ReadInv ==
    /\ job \in Jobs
    /\ job.tracks => file \in Files(job)
    /\ stage = "feed" => ~job.tracks
    /\ stage \in {"feed", "hash", "open"} => Init /\ cur = NULL
    /\ stage \in {"open", "read", "trim"} => job.tracks
    /\ stage = "read" => Waits
    /\ stage = "trim" => queue = <<>>
    /\ stage \in {"read", "trim"} => TrackInv /\ Row /\ Held /\ Table
    /\ stage = "read" /\ cur # NULL => queue # <<>> /\ cur = running - 1 /\ Id >= cur

\* The box that the table leads to is that of the track.
LEMMA FoundIs ==
    ASSUME Row, Table, NEW k \in Nat, k < running
    PROVE  Found(k) = k
<1> USE LookUpIncAssumption DEF Row
<1> DEFINE x == k \div LookUpInc
           r == k % LookUpInc
           y == (running - 1) \div LookUpInc
<1>1. /\ x \in Nat /\ r \in Nat /\ r < LookUpInc /\ k = x * LookUpInc + r
  BY TableDivision
<1>2. y \in Nat /\ y * LookUpInc <= running - 1 /\ running - 1 < y * LookUpInc + LookUpInc
  BY TableDivision
<1>3. Len(lookup) = y + 1 /\ DOMAIN lookup = 1 .. y + 1
  BY <1>2 DEF Table
<1>4. x <= y
  <2> HIDE DEF x, y, r
  <2>1. SUFFICES ASSUME y + 1 <= x PROVE FALSE
    BY <1>1, <1>2
  <2>2. (y + 1) * LookUpInc <= x * LookUpInc
    BY <2>1, <1>1, <1>2
  <2>3. (y + 1) * LookUpInc = y * LookUpInc + LookUpInc
    BY <1>2
  <2>4. y * LookUpInc \in Nat /\ x * LookUpInc \in Nat
    BY <1>1, <1>2
  <2> QED
    BY <2>2, <2>3, <2>4, <1>1, <1>2
<1>5. x * LookUpInc \in Nat /\ lookup[x + 1] = x * LookUpInc
  <2> HIDE DEF x, y
  <2>1. x + 1 \in DOMAIN lookup /\ x + 1 - 1 = x
    BY <1>1, <1>2, <1>3, <1>4
  <2> QED
    BY <2>1, <1>1 DEF Table
<1>6. Forward(lookup[x + 1], r) = k
  <2> HIDE DEF x, r
  <2> QED
    BY <1>1, <1>5, ForwardIs
<1>7. ASSUME x + 1 < Len(lookup)
      PROVE  Backward(lookup[x + 2], LookUpInc - r) = k
  <2> HIDE DEF x, y, r
  <2>1. x + 2 \in DOMAIN lookup /\ x + 2 - 1 = x + 1 /\ x + 1 <= y
    BY <1>1, <1>2, <1>3, <1>7
  <2>2. lookup[x + 2] = (x + 1) * LookUpInc
    <3>1. PICK n \in DOMAIN lookup : n = x + 2
      BY <2>1
    <3>2. n - 1 = x + 1
      BY <2>1, <3>1, <1>1
    <3>3. lookup[n] = (n - 1) * LookUpInc
      BY DEF Table
    <3> QED
      BY <3>1, <3>2, <3>3, Zenon
  <2>3. (x + 1) * LookUpInc = x * LookUpInc + LookUpInc
    BY <1>1
  <2>4. (x + 1) * LookUpInc <= y * LookUpInc
    BY <2>1, <1>1, <1>2
  <2>5. x * LookUpInc \in Nat /\ y * LookUpInc \in Nat
    BY <1>1, <1>2
  <2> DEFINE t == x * LookUpInc + LookUpInc
             n == LookUpInc - r
  <2>6. t \in Nat /\ n \in Nat /\ t < running /\ n <= t /\ t - n = k /\ lookup[x + 2] = t
    BY <2>2, <2>3, <2>4, <2>5, <1>1, <1>2
  <2> HIDE DEF t, n
  <2>7. Backward(t, n) = t - n
    BY <2>6, BackwardIs
  <2> QED
    BY <2>6, <2>7 DEF n
<1> QED
  BY <1>6, <1>7 DEF Found

-----------------------------------------------------------------------------

\* The file's particles are particles, and the tracks of a file are as the linker
\* writes them.
LEMMA FileIs ==
    ASSUME ReadInv, job.tracks
    PROVE  /\ InFile \in SUBSET Particle
           /\ \A p \in InFile : Frame[p] \in Nat
           /\ \A p, q \in InFile :
                /\ file[p].id \in Int
                /\ file[p].id >= 0 /\ file[q].id = file[p].id =>
                      /\ Frame[p] = Frame[q] => p = q
                      /\ \A n \in Frame[p] .. Frame[q] :
                            \E r \in InFile : file[r].id = file[p].id /\ Frame[r] = n
<1>1. InFile \in SUBSET Particle
  BY FilesAssumption DEF ReadInv, InFile
<1>2. \A p \in InFile : Frame[p] \in Nat
  BY <1>1, ParticleAssumption
<1>3. job \in Jobs /\ file \in Files(job)
  BY DEF ReadInv
<1> QED
  BY <1>1, <1>2, <1>3, TracksAssumption DEF InFile

\* Behind the tracks nothing of this changes any more, and in front of them not
\* yet.
LEMMA ElsewhereKeeps ==
    ASSUME ReadInv, job' = job, file' = file,
           stage' \notin {"feed", "hash", "open", "read", "trim"}
    PROVE  ReadInv'
BY DEF ReadInv

LEMMA ReadInitGood ==
    ASSUME StatInit
    PROVE  ReadInv
BY JobsAssumption DEF StatInit, ReadInv

\* Hash_shelf::push touches no track.
LEMMA PushKeeps ==
    ASSUME ReadInv, Push
    PROVE  ReadInv'
<1>1. stage = "hash" /\ stage' \in {"hash", "thrown"}
  BY DEF Push
<1>2. UNCHANGED <<trackVars, job, file, cur>>
  BY DEF Push
<1>3. Init => Init'
  BY <1>2 DEF Init, trackVars
<1> QED
  BY <1>1, <1>2, <1>3 DEF ReadInv

LEMMA HashedKeeps ==
    ASSUME ReadInv, Hashed
    PROVE  ReadInv'
<1>1. stage = "hash" /\ UNCHANGED <<trackVars, job, file, cur>>
  BY DEF Hashed
<1>2. \/ stage' = "open" /\ job.tracks
      \/ stage' \in {"fill", "correlate", "done"}
  BY DEF Hashed, After
<1>3. Init => Init'
  BY <1>1 DEF Init, trackVars
<1> QED
  BY <1>1, <1>2, <1>3 DEF ReadInv

\* The first box is there before a particle is looked at.
LEMMA OpenShelfKeeps ==
    ASSUME ReadInv, OpenShelf
    PROVE  ReadInv'
<1> USE LookUpIncAssumption
<1>1. /\ stage = "open" /\ stage' = "read" /\ UNCHANGED <<job, file, cur>>
      /\ AddEmptyTrack /\ lookup' = <<running>> /\ queue' = ReadingOrder(InFile)
      /\ Init /\ cur = NULL /\ job.tracks
  BY DEF OpenShelf, ReadInv
<1>2. TrackInv'
  BY <1>1, InitGood, AddEmptyTrackKeeps
<1>3. /\ running = 0 /\ running' = 1 /\ shelf' = {0} /\ trackCount' = 1 /\ parts' = {}
      /\ track' = [p \in Particle |-> NULL]
  BY <1>1 DEF Init, AddEmptyTrack
<1>4. InFile' = InFile /\ InFile \in SUBSET Particle
  BY <1>1, FileIs DEF InFile
<1> DEFINE q == ReadingOrder(InFile)
           n == Cardinality(InFile)
<1>5. /\ q \in [1 .. n -> InFile] /\ n \in Nat
      /\ \A p \in InFile : \E k \in 1 .. n : q[k] = p
      /\ \A i, k \in 1 .. n : i < k => q[i] # q[k] /\ Frame[q[i]] <= Frame[q[k]]
  BY <1>4, ReadingOrderIs
<1>6. Met' = {} /\ Waits'
  <2> HIDE DEF q, n
  <2>1. q \in Seq(InFile) /\ DOMAIN q = 1 .. n
    BY <1>5
  <2>2. queue' = q
    BY <1>1 DEF q
  <2>3. Met' = {}
    BY <2>1, <2>2, <1>4, <1>5 DEF Met, ToSet
  <2> QED
    BY <2>1, <2>2, <2>3, <1>4, <1>5 DEF Waits
<1>7. Row'
  BY <1>3, <1>6 DEF Row
<1>8. Held'
  BY <1>3, <1>6 DEF Held, ReadIn
<1>9. Table'
  <2>1. 0 \div LookUpInc = 0
    <3> DEFINE x == 0 \div LookUpInc
    <3>1. x \in Nat /\ 0 % LookUpInc \in Nat /\ 0 = x * LookUpInc + (0 % LookUpInc)
      BY TableDivision
    <3> HIDE DEF x
    <3>2. x = 0
      <4> SUFFICES ASSUME x # 0
                   PROVE  FALSE
        OBVIOUS
      <4>1. PICK z \in Nat : x = z + 1
        BY <3>1
      <4>2. z * LookUpInc \in Nat
        OBVIOUS
      <4>3. x * LookUpInc = z * LookUpInc + LookUpInc
        BY <4>1
      <4>4. PICK xl, zl, r : xl = x * LookUpInc /\ zl = z * LookUpInc /\ r = 0 % LookUpInc
        OBVIOUS
      <4>5. zl \in Nat /\ r \in Nat /\ xl = zl + LookUpInc /\ 0 = xl + r
        BY <3>1, <4>2, <4>3, <4>4, Zenon
      <4> QED
        BY <4>5
    <3> QED
      BY <3>2 DEF x
  <2>2. lookup' = <<0>> /\ running' - 1 = 0
    BY <1>1, <1>3
  <2> QED
    BY <2>1, <2>2 DEF Table
<1> QED
  BY <1>1, <1>2, <1>6, <1>7, <1>8, <1>9 DEF ReadInv

\* The next particle comes from no earlier frame than those that were met, and
\* all particles of the frames before it have been.
LEMMA NextOne ==
    ASSUME ReadInv, Reading, queue' = Tail(queue), file' = file
    PROVE  /\ Head(queue) \in InFile \ Met
           /\ Met' = Met \cup {Head(queue)}
           /\ \A q \in InFile : Frame[q] < Frame[Head(queue)] => q \in Met
           /\ \A q \in Met : Frame[q] <= Frame[Head(queue)]
           /\ Waits'
<1> DEFINE p == Head(queue)
<1>1. Waits /\ queue # <<>> /\ queue \in Seq(InFile) /\ job.tracks
  BY DEF ReadInv, Reading, Waits
<1>2. /\ p = queue[1] /\ 1 \in DOMAIN queue /\ p \in InFile /\ Len(queue) \in Nat
      /\ DOMAIN queue = 1 .. Len(queue)
  BY <1>1
<1>3. /\ Tail(queue) \in Seq(InFile) /\ Len(Tail(queue)) = Len(queue) - 1
      /\ DOMAIN Tail(queue) = 1 .. Len(queue) - 1
      /\ \A k \in 1 .. Len(queue) - 1 : Tail(queue)[k] = queue[k + 1]
  BY <1>1
<1>4. InFile' = InFile
  BY DEF InFile
<1>5. p \notin Met /\ \A q \in Met : Frame[q] <= Frame[p]
  BY <1>1, <1>2 DEF Met, ToSet, Waits
<1>6. \A q \in InFile : Frame[q] < Frame[p] => q \in Met
  <2> SUFFICES ASSUME NEW q \in InFile, Frame[q] < Frame[p], q \notin Met
               PROVE  FALSE
    OBVIOUS
  <2>1. PICK k \in DOMAIN queue : queue[k] = q
    BY DEF Met, ToSet
  <2>2. k = 1 \/ 1 < k
    BY <1>2
  <2>3. Frame[p] \in Nat /\ Frame[q] \in Nat
    BY <1>1, <1>2, FileIs
  <2>4. 1 < k => Frame[queue[1]] <= Frame[queue[k]]
    BY <1>1, <1>2 DEF Waits
  <2> QED
    BY <2>1, <2>2, <2>3, <2>4, <1>2
<1>7. ToSet(queue) = {p} \cup ToSet(Tail(queue)) /\ p \notin ToSet(Tail(queue))
  <2>1. ASSUME NEW k \in DOMAIN queue
        PROVE  queue[k] = p \/ queue[k] \in ToSet(Tail(queue))
    <3>1. CASE k = 1
      BY <3>1, <1>2
    <3>2. CASE k # 1
      <4>1. k - 1 \in 1 .. Len(queue) - 1 /\ k - 1 + 1 = k
        BY <3>2, <1>2
      <4> QED
        BY <4>1, <1>3 DEF ToSet
    <3> QED
      BY <3>1, <3>2
  <2>2. ASSUME NEW k \in 1 .. Len(queue) - 1
        PROVE  Tail(queue)[k] \in ToSet(queue) /\ Tail(queue)[k] # p
    <3>1. k + 1 \in DOMAIN queue /\ 1 < k + 1
      BY <1>2
    <3> QED
      BY <3>1, <1>1, <1>2, <1>3 DEF Waits, ToSet
  <2>3. p \in ToSet(queue)
    BY <1>2 DEF ToSet
  <2> QED
    BY <2>1, <2>2, <2>3, <1>3 DEF ToSet
<1>8. Met' = Met \cup {p}
  BY <1>2, <1>4, <1>7 DEF Met
<1>9. Waits'
  <2>1. queue' \in Seq(InFile') /\ DOMAIN queue' = 1 .. Len(queue) - 1
    BY <1>3, <1>4
  <2>2. ASSUME NEW i \in 1 .. Len(queue) - 1, NEW k \in 1 .. Len(queue) - 1, i < k
        PROVE  queue'[i] # queue'[k] /\ Frame[queue'[i]] <= Frame[queue'[k]]
    <3>1. i + 1 \in DOMAIN queue /\ k + 1 \in DOMAIN queue /\ i + 1 < k + 1
      BY <1>2, <2>2
    <3> QED
      BY <3>1, <1>1, <1>3 DEF Waits
  <2>3. ASSUME NEW q \in Met \cup {p}, NEW k \in 1 .. Len(queue) - 1
        PROVE  Frame[q] <= Frame[queue'[k]]
    <3>1. k + 1 \in DOMAIN queue /\ 1 < k + 1 /\ queue'[k] = queue[k + 1]
      BY <1>2, <1>3
    <3> QED
      BY <3>1, <1>1, <1>2 DEF Waits
  <2> QED
    BY <2>1, <2>2, <2>3, <1>8 DEF Waits
<1> QED
  BY <1>2, <1>5, <1>6, <1>8, <1>9

-----------------------------------------------------------------------------

\* While there is a particle to be looked at.
LEMMA AtOne ==
    ASSUME ReadInv, Reading
    PROVE  /\ stage = "read" /\ queue # <<>> /\ job.tracks
           /\ TrackInv /\ Row /\ Held /\ Table /\ Waits
           /\ cur # NULL => cur = running - 1 /\ Id >= cur
           /\ Head(queue) \in InFile /\ Id \in Int /\ running \in Nat
<1>1. /\ stage = "read" /\ queue # <<>> /\ job.tracks
      /\ TrackInv /\ Row /\ Held /\ Table /\ Waits
      /\ cur # NULL => cur = running - 1 /\ Id >= cur
  BY DEF Reading, ReadInv
<1>2. Head(queue) \in InFile
  BY <1>1 DEF Waits
<1> QED
  BY <1>1, <1>2, FileIs DEF Id, Row

LEMMA ReadUntrackedKeeps ==
    ASSUME ReadInv, ReadUntracked
    PROVE  ReadInv'
<1>1. /\ Reading /\ Id < 0 /\ queue' = Tail(queue)
      /\ UNCHANGED <<trackVars, job, file, stage, lookup, cur>>
  BY DEF ReadUntracked
<1>2. /\ stage = "read" /\ queue # <<>> /\ job.tracks
      /\ TrackInv /\ Row /\ Held /\ Table /\ Waits
      /\ cur # NULL => cur = running - 1 /\ Id >= cur
      /\ Head(queue) \in InFile /\ Id \in Int /\ running \in Nat
  BY <1>1, AtOne
<1>3. cur = NULL
  BY <1>1, <1>2 DEF Row
<1>4. Met' = Met \cup {Head(queue)} /\ Waits'
  BY <1>1, NextOne
<1>5. InFile' = InFile /\ file[Head(queue)].id < 0
  BY <1>1 DEF InFile, Id
<1>6. ReadIn' = ReadIn
  BY <1>1, <1>2, <1>4, <1>5 DEF ReadIn, Id
<1>7. TrackInv'
  BY <1>1, <1>2, NextKeeps
<1>8. Row'
  BY <1>1, <1>2, <1>4, <1>5 DEF Row, trackVars, Id
<1>9. Held' /\ Table'
  BY <1>1, <1>2, <1>6 DEF Held, Table, trackVars
<1> QED
  BY <1>1, <1>2, <1>3, <1>4, <1>7, <1>8, <1>9 DEF ReadInv

\* A box is added only while the id asks for one more.
LEMMA GrowKeeps ==
    ASSUME ReadInv, Grow
    PROVE  ReadInv'
<1> USE LookUpIncAssumption
<1>1. /\ Reading /\ Id >= trackCount /\ AddEmptyTrack /\ cur' = running
      /\ lookup' = IF (trackCount' - 1) % LookUpInc = 0 THEN Append(lookup, running) ELSE lookup
      /\ UNCHANGED <<job, file, stage, queue>>
  BY DEF Grow
<1>2. /\ stage = "read" /\ queue # <<>> /\ job.tracks
      /\ TrackInv /\ Row /\ Held /\ Table /\ Waits
      /\ Head(queue) \in InFile /\ Id \in Int
  BY <1>1, AtOne
<1>3. TrackInv'
  BY <1>1, <1>2, AddEmptyTrackKeeps
<1>4. /\ running' = running + 1 /\ shelf' = shelf \cup {running}
      /\ trackCount' = trackCount + 1 /\ UNCHANGED <<track, parts>>
  BY <1>1 DEF AddEmptyTrack
<1>5. InFile' = InFile /\ Met' = Met /\ ReadIn' = ReadIn /\ Id' = Id
  BY <1>1 DEF InFile, Met, ReadIn, Id
<1>6. /\ running \in Nat \ {0} /\ trackCount = running /\ Id >= running
      /\ file[Head(queue)].id = Id
  BY <1>1, <1>2 DEF Row, Id
<1>7. \A p \in Met : file[p].id < running'
  <2>1. \A p \in Met : file[p].id \in Int /\ file[p].id < running
    BY <1>2, FileIs DEF Row, Met
  <2> QED
    BY <2>1, <1>4, <1>6
<1>8. Row'
  <2>1. shelf' = 0 .. running' - 1
    BY <1>2, <1>4, <1>6 DEF Row
  <2>2. file[Head(queue)].id >= running' - 1
    BY <1>4, <1>6
  <2> QED
    <3>1. running' \in Nat \ {0} /\ trackCount' = running' /\ parts' = {}
      BY <1>2, <1>4, <1>6 DEF Row
    <3>2. \A p \in Met' : file'[p].id < running'
      BY <1>1, <1>5, <1>7
    <3>3. \E p \in InFile' : file'[p].id >= running' - 1
      BY <2>2, <1>1, <1>2, <1>5
    <3> QED
      BY <2>1, <3>1, <3>2, <3>3 DEF Row
<1>9. Held' /\ Waits'
  BY <1>1, <1>2, <1>4, <1>5 DEF Held, Waits
<1>10. Table'
  <2> DEFINE y == (running - 1) \div LookUpInc
             z == running \div LookUpInc
  <2>1. y \in Nat /\ Len(lookup) = y + 1 /\ running - 1 \in Nat
    BY <1>2, <1>6, TableDivision DEF Table
  <2>2. z = IF running % LookUpInc = 0 THEN y + 1 ELSE y
    <3>1. running - 1 + 1 = running
      BY <1>6
    <3>2. (running - 1 + 1) \div LookUpInc =
            IF (running - 1 + 1) % LookUpInc = 0 THEN y + 1 ELSE y
      BY <2>1, TableStep
    <3> QED
      BY <3>1, <3>2
  <2>3. running' - 1 = running /\ trackCount' - 1 = running
    BY <1>4, <1>6
  <2>4. CASE running % LookUpInc = 0
    <3>1. lookup' = Append(lookup, running) /\ z = y + 1
      BY <2>2, <2>3, <2>4, <1>1
    <3>2. running = z * LookUpInc
      BY <1>6, <2>4, TableDivision
    <3>3. /\ lookup' \in Seq(Nat) /\ Len(lookup') = z + 1 /\ DOMAIN lookup' = 1 .. z + 1
          /\ lookup'[z + 1] = z * LookUpInc
          /\ \A n \in 1 .. z : lookup'[n] = lookup[n] /\ n \in DOMAIN lookup
      <4> HIDE DEF y, z
      <4> QED
        BY <2>1, <3>1, <3>2, <1>2, <1>6 DEF Table
    <3>4. \A n \in DOMAIN lookup' : lookup'[n] = (n - 1) * LookUpInc
      <4> HIDE DEF y, z
      <4>1. \A n \in 1 .. z + 1 : n = z + 1 \/ n \in 1 .. z
        BY <2>1, <3>1
      <4>2. z + 1 - 1 = z
        BY <2>1, <3>1
      <4>3. \A n \in 1 .. z : lookup'[n] = (n - 1) * LookUpInc
        BY <3>3, <1>2 DEF Table
      <4>4. lookup'[z + 1] = (z + 1 - 1) * LookUpInc
        BY <4>2, <3>3
      <4> TAKE n \in DOMAIN lookup'
      <4>5. n \in 1 .. z + 1
        BY <3>3
      <4>6. CASE n = z + 1
        <5>1. n - 1 = z
          BY <4>6, <2>1, <3>1
        <5>2. lookup'[n] = z * LookUpInc
          BY <4>6, <3>3
        <5> QED
          BY <5>1, <5>2
      <4>7. CASE n # z + 1
        BY <4>1, <4>3, <4>5, <4>7, Zenon
      <4> QED
        BY <4>6, <4>7
    <3> QED
      BY <3>3, <3>4, <2>3 DEF Table
  <2>5. CASE running % LookUpInc # 0
    <3>1. lookup' = lookup /\ z = y
      BY <2>2, <2>3, <2>5, <1>1
    <3> QED
      BY <3>1, <2>1, <2>3, <1>2 DEF Table
  <2> QED
    BY <2>4, <2>5
<1>11. cur' # NULL => queue' # <<>> /\ cur' = running' - 1 /\ Id' >= cur'
  BY <1>1, <1>2, <1>4, <1>5, <1>6
<1> QED
  BY <1>1, <1>2, <1>3, <1>8, <1>9, <1>10, <1>11 DEF ReadInv

-----------------------------------------------------------------------------

\* push_back of a particle of no track behind the last one of a track.
LEMMA PushBackDoes ==
    ASSUME TrackInv, NEW t \in shelf, NEW p \in Particle, Free(p), Follows(t, p),
           PushBack(t, p)
    PROVE  /\ TrackInv' /\ track' = [track EXCEPT ![p] = t]
           /\ UNCHANGED <<running, shelf, trackCount, parts>>
<1>1. TrackInv'
  BY PushFirstKeeps, PushNextKeeps DEF PushBack
<1>2. thrown' = FALSE
  BY <1>1 DEF TrackInv, ChainInv, NeverNukes, TypeOK
<1>3. JoinTail(t, p, 0) \/ JoinTail(t, p, length[t])
  BY <1>2 DEF PushBack, PushFirst, PushNext
<1>4. Chain(p) = {p}
  BY FreeParticle DEF TrackInv
<1>5. track' = [track EXCEPT ![p] = t]
  BY <1>3, <1>4 DEF JoinTail, TrackInv, TypeOK
<1> QED
  BY <1>1, <1>5 DEF PushBack, PushFirst, PushNext

\* The box that a particle is pushed on ends in the frame before.
LEMMA PlaceFollows ==
    ASSUME ReadInv, Place
    PROVE  /\ Id \in shelf /\ Free(Head(queue)) /\ Follows(Id, Head(queue))
           /\ PushBack(Id, Head(queue))
<1> DEFINE p == Head(queue)
<1> USE ParticleAssumption, NullAssumption
<1>1. /\ Reading /\ Id >= 0 /\ Id < trackCount /\ queue' = Tail(queue) /\ file' = file
      /\ PushBack(IF cur # NULL THEN cur ELSE Found(Id), p)
  BY DEF Place
<1>2. /\ stage = "read" /\ queue # <<>> /\ job.tracks
      /\ TrackInv /\ Row /\ Held /\ Table /\ Waits
      /\ cur # NULL => cur = running - 1 /\ Id >= cur
      /\ p \in InFile /\ Id \in Int /\ running \in Nat
  BY <1>1, AtOne
<1>3. Id \in Nat /\ Id < running /\ Id \in shelf
  BY <1>1, <1>2 DEF Row
<1>4. (IF cur # NULL THEN cur ELSE Found(Id)) = Id
  <2>1. Found(Id) = Id
    BY <1>2, <1>3, FoundIs
  <2>2. cur # NULL => cur = Id
    BY <1>2, <1>3
  <2> QED
    BY <2>1, <2>2
<1>5. PushBack(Id, p)
  BY <1>1, <1>4
<1>6. /\ p \in InFile \ Met
      /\ \A q \in InFile : Frame[q] < Frame[p] => q \in Met
      /\ \A q \in Met : Frame[q] <= Frame[p]
  BY <1>1, NextOne
<1>7. p \in Particle /\ Free(p) /\ InFile \in SUBSET Particle
  BY <1>2, <1>6, FileIs DEF Held, ReadIn, Free
<1>8. ASSUME last[Id] # NULL
      PROVE  Frame[p] = Frame[last[Id]] + 1
  <2> DEFINE l == last[Id]
  <2>1. Id \in Live /\ Id \in Box
    BY <1>2, <1>3 DEF Live, TrackInv, TypeOK
  <2>2. l \in Particle /\ track[l] = Id /\ first[Id] # NULL
    BY <2>1, <1>2, <1>8 DEF TrackInv, TypeOK, ParticleOrNull, ChainInv, EndsAgree
  <2>3. l \in ReadIn /\ file[l].id = Id
    <3>1. Id # NULL
      BY <1>3, NullAssumption, <2>1 DEF Live
    <3>2. track[l] = IF l \in ReadIn THEN file[l].id ELSE NULL
      BY <2>2, <1>2 DEF Held
    <3> QED
      BY <2>2, <3>1, <3>2
  <2>4. l \in InFile /\ l \in Met /\ l # p
    BY <2>3, <1>6 DEF ReadIn, Met
  <2>5. file[p].id = Id
    BY DEF Id
  <2>6. Frame[l] \in Nat /\ Frame[p] \in Nat /\ Frame[l] <= Frame[p] /\ Frame[l] # Frame[p]
    BY <2>3, <2>4, <2>5, <1>2, <1>3, <1>6, FileIs
  <2>7. SUFFICES ASSUME Frame[l] + 1 < Frame[p] PROVE FALSE
    BY <2>6
  <2>8. PICK r \in InFile : file[r].id = file[l].id /\ Frame[r] = Frame[l] + 1
    <3>1. Frame[l] + 1 \in Frame[l] .. Frame[p]
      BY <2>6, <2>7
    <3> QED
      BY <3>1, <2>3, <2>4, <2>5, <1>2, <1>3, FileIs
  <2>9. r \in Met /\ r \in ReadIn
    BY <2>3, <2>7, <2>8, <1>3, <1>6 DEF ReadIn
  <2>10. track[r] = Id /\ r \in Particle
    BY <2>3, <2>8, <2>9, <1>2, <1>7 DEF Held
  <2>11. Frame[r] <= Frame[l]
    BY <2>1, <2>2, <2>10, <1>2 DEF TrackInv, ChainInv, Span
  <2> QED
    BY <2>6, <2>8, <2>11
<1> QED
  BY <1>3, <1>5, <1>7, <1>8 DEF Follows

LEMMA PlaceKeeps ==
    ASSUME ReadInv, Place
    PROVE  ReadInv'
<1> DEFINE p == Head(queue)
<1>1. /\ Reading /\ Id >= 0 /\ Id < trackCount /\ queue' = Tail(queue) /\ cur' = NULL
      /\ UNCHANGED <<job, file, stage, lookup>>
  BY DEF Place
<1>2. /\ stage = "read" /\ queue # <<>> /\ job.tracks
      /\ TrackInv /\ Row /\ Held /\ Table /\ Waits
      /\ p \in InFile /\ Id \in Int /\ running \in Nat
  BY <1>1, AtOne
<1>3. p \in Particle
  BY <1>2, FileIs
<1>4. /\ TrackInv' /\ track' = [track EXCEPT ![p] = Id]
      /\ UNCHANGED <<running, shelf, trackCount, parts>>
  <2>1. Id \in shelf /\ Free(p) /\ Follows(Id, p) /\ PushBack(Id, p)
    BY PlaceFollows
  <2> HIDE DEF p
  <2> QED
    BY <2>1, <1>2, <1>3, PushBackDoes
<1>5. Met' = Met \cup {p} /\ Waits' /\ InFile' = InFile
  BY <1>1, NextOne DEF InFile
<1>6. ReadIn' = ReadIn \cup {p}
  BY <1>1, <1>5 DEF ReadIn, Id
<1>7. Row'
  BY <1>1, <1>2, <1>4, <1>5 DEF Row, Id
<1>8. Held'
  <2> SUFFICES ASSUME NEW q \in Particle
               PROVE  track'[q] = IF q \in ReadIn' THEN file'[q].id ELSE NULL
    BY DEF Held
  <2>1. track'[q] = IF q = p THEN Id ELSE track[q]
    BY <1>2, <1>3, <1>4 DEF TrackInv, TypeOK
  <2> QED
    BY <2>1, <1>1, <1>2, <1>6 DEF Held, Id
<1>9. Table'
  BY <1>1, <1>2, <1>4 DEF Table
<1> QED
  BY <1>1, <1>2, <1>4, <1>5, <1>7, <1>8, <1>9 DEF ReadInv

LEMMA ReadAllKeeps ==
    ASSUME ReadInv, ReadAll
    PROVE  ReadInv'
<1>1. /\ stage = "read" /\ queue = <<>> /\ stage' = "trim"
      /\ UNCHANGED <<trackVars, job, file, queue, lookup, cur>>
  BY DEF ReadAll, After
<1>2. TrackInv'
  BY <1>1, NextKeeps DEF ReadInv
<1>3. Row' /\ Held' /\ Table'
  BY <1>1 DEF ReadInv, Row, Held, Table, Met, ReadIn, InFile, trackVars
<1> QED
  BY <1>1, <1>2, <1>3 DEF ReadInv

\* A step beside the tracks and the loop over the particles.
LEMMA QuietKeeps ==
    ASSUME ReadInv, UNCHANGED <<trackVars, job, file, queue, lookup, cur>>, stage' = stage
    PROVE  ReadInv'
<1>1. TrackInv => TrackInv'
  BY NextKeeps
<1>2. Init => Init'
  BY DEF Init, trackVars
<1>3. (Row => Row') /\ (Held => Held') /\ (Table => Table') /\ (Waits => Waits')
  BY DEF Row, Held, Table, Waits, Met, ReadIn, InFile, trackVars
<1> QED
  BY <1>1, <1>2, <1>3 DEF ReadInv, Id, trackVars

\* Every call of the programs keeps the invariant.
LEMMA StatNextKeeps ==
    ASSUME ReadInv, [StatNext]_<<trackVars, statVars>>
    PROVE  ReadInv'
<1>1. CASE Push
  BY <1>1, PushKeeps
<1>2. CASE Hashed
  BY <1>2, HashedKeeps
<1>3. CASE OpenShelf
  BY <1>3, OpenShelfKeeps
<1>4. CASE ReadUntracked
  BY <1>4, ReadUntrackedKeeps
<1>5. CASE Grow
  BY <1>5, GrowKeeps
<1>6. CASE Place
  BY <1>6, PlaceKeeps
<1>7. CASE ReadAll
  BY <1>7, ReadAllKeeps
<1>8. CASE Trim
  BY <1>8, ElsewhereKeeps DEF Trim, After
<1>9. CASE FillShelf
  BY <1>9, ElsewhereKeeps DEF FillShelf, After
<1>10. CASE NoCorrelator \/ CorrelateFails
  BY <1>10, ElsewhereKeeps DEF NoCorrelator, CorrelateFails
<1>11. CASE Correlate
  BY <1>11, ElsewhereKeeps DEF Correlate, After
<1>12. CASE MeanShelf
  BY <1>12, ElsewhereKeeps DEF MeanShelf, After
<1>13. CASE CutByLength
  BY <1>13, ElsewhereKeeps DEF CutByLength
<1>14. CASE Average
  BY <1>14, ElsewhereKeeps DEF Average
<1>15. CASE NextTurn
  BY <1>15, ElsewhereKeeps DEF NextTurn
<1>16. CASE UNCHANGED <<trackVars, statVars>>
  BY <1>16, QuietKeeps DEF statVars
<1> QED
  BY <1>1, <1>2, <1>3, <1>4, <1>5, <1>6, <1>7, <1>8, <1>9, <1>10, <1>11, <1>12, <1>13,
     <1>14, <1>15, <1>16 DEF StatNext

\* What is filled call by call has no tracks, and the filing comes behind them.
LEMMA ProgNextKeeps ==
    ASSUME ReadInv, [ProgNext]_allVars
    PROVE  ReadInv'
<1>1. CASE FeedStep \/ ScriptStep
  <2>1. /\ stage = "feed" /\ stage' \in {"feed", "crash", "thrown"}
        /\ UNCHANGED <<trackVars, job, file, queue, lookup, cur>>
    BY <1>1 DEF FeedStep, ScriptStep, Made
  <2> QED
    BY <2>1, QuietKeeps, ElsewhereKeeps
<1>2. CASE Fed
  <2>1. /\ stage = "feed" /\ stage' = "hash"
        /\ UNCHANGED <<trackVars, job, cur>>
    BY <1>2 DEF Fed
  <2>2. Init => Init'
    BY <2>1 DEF Init, trackVars
  <2> QED
    BY <2>1, <2>2 DEF ReadInv
<1>3. CASE Compute
  BY <1>3, StatNextKeeps DEF Compute
<1>4. CASE StartFiling \/ FileStep \/ FileFails
  <2>1. /\ stage' \in {"file", "average", "done", "thrown"}
        /\ UNCHANGED <<job, file>>
    BY <1>4 DEF StartFiling, FileStep, FileFails, Filing, Resume
  <2> QED
    BY <2>1, ElsewhereKeeps
<1>5. CASE NoteStep \/ ReadGroupNotes \/ ReadDsetNotes
  <2>1. /\ stage' = stage \/ stage' = "crash"
        /\ UNCHANGED <<trackVars, job, file, queue, lookup, cur>>
    BY <1>5 DEF NoteStep, ReadGroupNotes, ReadDsetNotes
  <2> QED
    BY <2>1, QuietKeeps, ElsewhereKeeps
<1>6. CASE UNCHANGED allVars
  BY <1>6, QuietKeeps DEF allVars, statVars
<1> QED
  BY <1>1, <1>2, <1>3, <1>4, <1>5, <1>6 DEF ProgNext

LEMMA ReadInvAlways == ProgSpec => []ReadInv
<1>1. ProgInit => ReadInv
  BY ReadInitGood DEF ProgInit
<1>2. ReadInv /\ [ProgNext]_allVars => ReadInv'
  BY ProgNextKeeps
<1> QED
  BY <1>1, <1>2, PTL DEF ProgSpec

-----------------------------------------------------------------------------

\* length_ is the number of particles that have the track for theirs.
LEMMA MembersCounted ==
    ASSUME TypeOK, ChainInv, NEW t \in Live
    PROVE  /\ Cardinality({p \in Particle : track[p] = t}) = length[t]
           /\ {p \in Particle : track[p] = t} # {} => first[t] # NULL
<1> USE ParticleAssumption, NullAssumption
<1> DEFINE mine == {p \in Particle : track[p] = t}
<1>1. t \in Box /\ t # NULL
  BY DEF Live, TypeOK
<1>2. CASE first[t] = NULL
  <2>1. mine = {} /\ length[t] = 0
    BY <1>2 DEF ChainInv, EndsAgree, Span
  <2> QED
    BY <2>1, FS_EmptySet
<1>3. CASE first[t] # NULL
  <2>1. first[t] \in Particle /\ track[first[t]] = t
    BY <1>1, <1>3 DEF TypeOK, ParticleOrNull, ChainInv, EndsAgree
  <2>2. \A q \in Particle : track[q] = t => Frame[first[t]] <= Frame[q]
    BY <1>3 DEF ChainInv, Span
  <2>3. Chain(first[t]) = mine
    BY <2>1, <2>2, <1>1, ChainIsTail
  <2>4. length[t] = Cardinality(Chain(first[t]))
    BY <1>3, LengthOfWalk
  <2> QED
    BY <2>3, <2>4, <1>3
<1> QED
  BY <1>2, <1>3

\* The last id is that of the last box.
LEMMA LastIdIs ==
    ASSUME ReadInv, stage = "trim"
    PROVE  running - 1 = IF InFile = {} THEN 0 ELSE Max({0} \cup {file[p].id : p \in InFile})
<1>1. Row /\ queue = <<>> /\ job.tracks
  BY DEF ReadInv
<1>2. Met = InFile
  BY <1>1 DEF Met, ToSet
<1> DEFINE ids == {0} \cup {file[p].id : p \in InFile}
           m == running - 1
<1>3. \A p \in InFile : file[p].id \in Int /\ file[p].id <= m
  BY <1>1, <1>2, FileIs DEF Row
<1>4. m \in Nat /\ (m = 0 \/ \E p \in InFile : file[p].id >= m)
  BY <1>1 DEF Row
<1>5. m \in ids /\ \A x \in ids : x \in Int /\ x <= m
  <2> HIDE DEF m
  <2>1. m = 0 \/ \E p \in InFile : file[p].id = m
    BY <1>3, <1>4
  <2> QED
    BY <2>1, <1>3, <1>4
<1>6. InFile = {} => m = 0
  BY <1>4
<1>7. Max(ids) = m
  <2> HIDE DEF ids, m
  <2>1. \A x \in ids : (\A y \in ids : x >= y) => x = m
    BY <1>4, <1>5
  <2>2. m \in ids /\ \A y \in ids : m >= y
    BY <1>4, <1>5
  <2> QED
    BY <2>1, <2>2 DEF Max
<1> QED
  BY <1>6, <1>7

\* Whatever the order the ids are met in, and whatever the distance of the
\* entries of the look-up table: read back, track k is the particles with id k,
\* linked frame by frame, and there is no track beyond the highest id.
THEOREM TracksAsWrittenAlways == ProgSpec => []TracksAsWritten
<1> USE ParticleAssumption, NullAssumption
<1>1. ASSUME ReadInv, stage = "trim"
      PROVE  /\ ~thrown
             /\ shelf = 0 .. (IF InFile = {} THEN 0
                              ELSE Max({0} \cup {file[p].id : p \in InFile}))
             /\ \A k \in shelf :
                   /\ length[k] = Cardinality(OfTrack(k))
                   /\ \A p \in OfTrack(k) :
                         /\ track[p] = k
                         /\ \A q \in OfTrack(k) :
                               (Frame[q] = Frame[p] + 1) <=> (next[p] = q)
  <2>1. TrackInv /\ Row /\ Held /\ queue = <<>> /\ job.tracks
    BY <1>1 DEF ReadInv
  <2>2. Met = InFile /\ InFile \in SUBSET Particle
    BY <1>1, <2>1, FileIs DEF Met, ToSet
  <2>3. ~thrown
    BY <2>1 DEF TrackInv, ChainInv, NeverNukes
  <2>4. shelf = 0 .. running - 1
    BY <2>1 DEF Row
  <2>5. ASSUME NEW k \in shelf
        PROVE  /\ length[k] = Cardinality(OfTrack(k))
               /\ \A p \in OfTrack(k) :
                     /\ track[p] = k
                     /\ \A q \in OfTrack(k) :
                           (Frame[q] = Frame[p] + 1) <=> (next[p] = q)
    <3>1. k \in Live /\ k \in Nat /\ k # NULL
      BY <2>1 DEF Live, TrackInv, TypeOK, Box, Row
    <3>2. OfTrack(k) = {p \in Particle : track[p] = k}
      BY <2>1, <2>2, <3>1 DEF OfTrack, Held, ReadIn
    <3>3. length[k] = Cardinality(OfTrack(k))
      BY <2>1, <3>1, <3>2, MembersCounted DEF TrackInv
    <3>4. ASSUME NEW p \in OfTrack(k), NEW q \in OfTrack(k)
          PROVE  (Frame[q] = Frame[p] + 1) <=> (next[p] = q)
      <4>1. p \in Particle /\ q \in Particle /\ track[p] = k /\ track[q] = k
        BY <3>2
      <4>2. Frame[p] \in Nat /\ Frame[q] \in Nat
        BY <4>1
      <4>3. next[p] = q => Frame[q] = Frame[p] + 1
        BY <2>1, <4>1 DEF TrackInv, ChainInv, OneTrackAlongChain
      <4>4. ASSUME Frame[q] = Frame[p] + 1
            PROVE  next[p] = q
        <5>1. first[k] # NULL /\ Frame[q] <= Frame[last[k]]
          BY <2>1, <3>1, <4>1 DEF TrackInv, ChainInv, EndsAgree, Span
        <5>2. p # last[k]
          BY <5>1, <4>2, <4>4
        <5>3. next[p] \in Particle
          BY <2>1, <3>1, <4>1, <5>2 DEF TrackInv, ChainInv, EndsAgree, TypeOK, ParticleOrNull
        <5>4. track[next[p]] = k /\ Frame[next[p]] = Frame[p] + 1
          BY <2>1, <4>1, <5>3 DEF TrackInv, ChainInv, OneTrackAlongChain
        <5> QED
          BY <2>1, <3>1, <4>1, <4>4, <5>3, <5>4 DEF TrackInv, ChainInv, OnePerFrame
      <4> QED
        BY <4>3, <4>4
    <3> QED
      BY <3>2, <3>3, <3>4
  <2> QED
    BY <2>3, <2>4, <2>5, <1>1, LastIdIs
<1>2. ReadInv => TracksAsWritten
  BY <1>1 DEF TracksAsWritten
<1> QED
  BY <1>2, ReadInvAlways, PTL

-----------------------------------------------------------------------------
(* An input wrapper and what was added to it                                  *)

Types == {"index", "xpos", "ypos", "zpos", "order"}
Kinds == {"int", "float", "complex"}

LEMMA RankIs ==
    /\ ToSet(TypeOrder) = Types
    /\ TypeRank("index") = 1 /\ TypeRank("xpos") = 2 /\ TypeRank("ypos") = 3
    /\ TypeRank("zpos") = 4 /\ TypeRank("order") = 5
    /\ \A t \in Types : ValueType(t) \in Kinds
<1>1. DOMAIN TypeOrder = 1 .. 5
  BY DEF TypeOrder
<1>2. 1 .. 5 = {1, 2, 3, 4, 5}
  OBVIOUS
<1>3. /\ TypeOrder[1] = "index" /\ TypeOrder[2] = "xpos" /\ TypeOrder[3] = "ypos"
      /\ TypeOrder[4] = "zpos" /\ TypeOrder[5] = "order"
  BY DEF TypeOrder
<1>4. ToSet(TypeOrder) = Types
  BY <1>1, <1>2, <1>3 DEF ToSet, Types
<1>5. ASSUME NEW t, NEW n \in {1, 2, 3, 4, 5}, TypeOrder[n] = t
      PROVE  TypeRank(t) = n
  <2>1. \A i \in {1, 2, 3, 4, 5} : TypeOrder[i] = t => i = n
    BY <1>3, <1>5
  <2> QED
    BY <2>1, <1>1, <1>2, <1>5 DEF TypeRank
<1>6. \A t \in Types : ValueType(t) \in Kinds
  BY DEF Types, Kinds, ValueType
<1> QED
  BY <1>3, <1>4, <1>5, <1>6

LEMMA TypesFinite == IsFiniteSet(Types)
<1>1. IsFiniteSet({"order"})
  BY FS_Singleton
<1>2. IsFiniteSet({"order"} \cup {"zpos"})
  BY <1>1, FS_AddElement
<1>3. IsFiniteSet({"order"} \cup {"zpos"} \cup {"ypos"})
  BY <1>2, FS_AddElement
<1>4. IsFiniteSet({"order"} \cup {"zpos"} \cup {"ypos"} \cup {"xpos"})
  BY <1>3, FS_AddElement
<1>5. IsFiniteSet({"order"} \cup {"zpos"} \cup {"ypos"} \cup {"xpos"} \cup {"index"})
  BY <1>4, FS_AddElement
<1>6. Types = {"order"} \cup {"zpos"} \cup {"ypos"} \cup {"xpos"} \cup {"index"}
  BY DEF Types
<1> QED
  BY <1>5, <1>6

\* The types of one kind have places of their own.
LEMMA SlotsDiffer ==
    ASSUME NEW types \in SUBSET Types, NEW t \in types, NEW u \in types, t # u,
           ValueType(t) = ValueType(u)
    PROVE  LET NthOf(x) == Cardinality({y \in types :
                               ValueType(y) = ValueType(x) /\ TypeRank(y) < TypeRank(x)})
           IN  NthOf(t) \in Nat /\ NthOf(t) # NthOf(u)
<1> DEFINE Below(x) == {y \in types : ValueType(y) = ValueType(x) /\ TypeRank(y) < TypeRank(x)}
<1>1. \A x \in Types : TypeRank(x) \in Nat
  BY RankIs DEF Types
<1>2. \A x, y \in Types : TypeRank(x) = TypeRank(y) => x = y
  BY RankIs DEF Types
<1>3. IsFiniteSet(types)
  BY TypesFinite, FS_Subset
<1>4. \A x \in types : IsFiniteSet(Below(x)) /\ Cardinality(Below(x)) \in Nat
  BY <1>3, FS_Subset, FS_CardinalityType
<1>5. ASSUME NEW x \in types, NEW y \in types, ValueType(x) = ValueType(y),
             TypeRank(x) < TypeRank(y)
      PROVE  Cardinality(Below(x)) < Cardinality(Below(y))
  <2>1. x \notin Below(x) /\ Below(x) \cup {x} \in SUBSET Below(y)
    BY <1>1, <1>5
  <2> HIDE DEF Below
  <2>2. Cardinality(Below(x) \cup {x}) = Cardinality(Below(x)) + 1
    BY <2>1, <1>4, FS_AddElement
  <2>3. Cardinality(Below(x) \cup {x}) <= Cardinality(Below(y))
    BY <2>1, <1>4, FS_Subset
  <2> QED
    BY <2>2, <2>3, <1>4
<1>6. TypeRank(t) < TypeRank(u) \/ TypeRank(u) < TypeRank(t)
  BY <1>1, <1>2
<1>7. Cardinality(Below(t)) # Cardinality(Below(u))
  <2> HIDE DEF Below
  <2> QED
    BY <1>4, <1>5, <1>6
<1>8. Cardinality(Below(t)) \in Nat
  BY <1>4
<1> QED
  BY <1>7, <1>8

IsSeq(s) == s \in Seq(ToSet(s))

LEMMA SeqIsSeq ==
    ASSUME NEW S, NEW s \in Seq(S)
    PROVE  IsSeq(s) /\ ToSet(s) \in SUBSET S
<1>1. /\ Len(s) \in Nat /\ DOMAIN s = 1 .. Len(s) /\ s = [i \in 1 .. Len(s) |-> s[i]]
      /\ \A i \in DOMAIN s : s[i] \in S
  OBVIOUS
<1>2. s \in [1 .. Len(s) -> ToSet(s)]
  BY <1>1 DEF ToSet
<1>3. s \in Seq(ToSet(s))
  BY <1>1, <1>2
<1> QED
  BY <1>1, <1>3 DEF IsSeq, ToSet

LEMMA FunIsSeq ==
    ASSUME NEW n \in Nat, NEW s, DOMAIN s = 1 .. n, s = [i \in 1 .. n |-> s[i]]
    PROVE  IsSeq(s) /\ Len(s) = n
<1>1. s \in [1 .. n -> ToSet(s)]
  BY DEF ToSet
<1>2. s \in Seq(ToSet(s))
  BY <1>1
<1> QED
  BY <1>2 DEF IsSeq


Fields == {"types", "slot", "data", "frames", "count", "z", "total", "locked", "open", "cur",
           "curSize", "curFrame", "added", "addedSet"}

\* The arrays of the types that are set up are apart from each other.
InputShape(w) ==
    /\ DOMAIN w = Fields
    /\ w.types \in SUBSET Types /\ w.slot \in [Types -> Int]
    /\ \A t \in w.types : w.slot[t] \in Nat
    /\ \A t, u \in w.types : t # u /\ ValueType(t) = ValueType(u) => w.slot[t] # w.slot[u]
    /\ DOMAIN w.data = Kinds
    /\ \A k \in Kinds : IsSeq(w.data[k])
    /\ w.cur \in Types \cup {"sentry"} /\ w.curFrame \in Int

\* The array of a type that is set up is there and holds what was added.
Kept(w, had) ==
    \A e \in DOMAIN had :
        /\ e = <<e[1], e[2]>> /\ e[1] \in Types /\ e[2] \in Int
        /\ e[1] \in w.types => /\ InVectors(w, e[1], e[2])
                               /\ ArrayAt(w, e[1], e[2]) = Holding(had[e])

InputInv(w, had) == InputShape(w) /\ Kept(w, had)

\* A call with arguments of its types.
Typed(c) ==
    /\ c.call = "setup" => c.types \in SUBSET Types
    /\ c.call = "open_frame" => c.frame \in Int
    /\ c.call = "set_data_type" => c.type \in Types
    /\ c.call = "add_data" => c.kind \in Kinds

\* A step that leaves the arrays alone.
LEMMA ArraysStay ==
    ASSUME NEW w, NEW v, NEW had, InputInv(w, had), DOMAIN v = Fields,
           v.types = w.types, v.slot = w.slot, v.data = w.data,
           v.curFrame \in Int, v.cur \in Types \cup {"sentry", w.cur}
    PROVE  InputInv(v, had)
<1>1. InputShape(v)
  BY DEF InputInv, InputShape
<1>2. Kept(v, had)
  BY DEF InputInv, Kept, InVectors, ArrayAt
<1> QED
  BY <1>1, <1>2 DEF InputInv

\* clean_data empties all arrays.
LEMMA OpenInputKeeps ==
    ASSUME NEW w, NEW had, InputInv(w, had)
    PROVE  InputInv(OpenInput(w).wrapper, NoAttrs)
<1> DEFINE v == OpenInput(w).wrapper
<1>1. /\ DOMAIN v = Fields /\ v.types = w.types /\ v.slot = w.slot /\ v.cur = w.cur
      /\ v.curFrame = w.curFrame
      /\ v.data = [k \in DOMAIN w.data |->
                     [i \in DOMAIN w.data[k] |-> [f \in DOMAIN w.data[k][i] |-> NullArray]]]
  BY DEF OpenInput, Returns, InputInv, InputShape, Fields
<1>2. ASSUME NEW k \in Kinds
      PROVE  IsSeq(v.data[k])
  <2>1. w.data[k] \in Seq(ToSet(w.data[k])) /\ DOMAIN w.data = Kinds
    BY DEF InputInv, InputShape, IsSeq
  <2>2. v.data[k] = [i \in 1 .. Len(w.data[k]) |-> [f \in DOMAIN w.data[k][i] |-> NullArray]]
    BY <1>1, <2>1
  <2>3. Len(w.data[k]) \in Nat
    BY <2>1
  <2> DEFINE d == v.data[k]
  <2>4. DOMAIN d = 1 .. Len(w.data[k]) /\ d = [i \in 1 .. Len(w.data[k]) |-> d[i]]
    BY <2>2
  <2> HIDE DEF d
  <2>5. IsSeq(d)
    BY <2>3, <2>4, FunIsSeq
  <2> QED
    BY <2>5 DEF d
<1>3. InputShape(v)
  <2> HIDE DEF v
  <2> QED
    BY <1>1, <1>2 DEF InputShape, InputInv
<1>4. DOMAIN NoAttrs = {}
  BY DEF NoAttrs
<1> QED
  BY <1>3, <1>4 DEF InputInv, Kept

LEMMA SeqIsFun ==
    ASSUME NEW s, IsSeq(s)
    PROVE  s = [i \in 1 .. Len(s) |-> s[i]]
<1> DEFINE S == ToSet(s)
<1>1. s \in Seq(S)
  BY DEF IsSeq
<1> HIDE DEF S
<1> QED
  BY <1>1

\* New vectors go behind the old ones.
LEMMA SeqsConcat ==
    ASSUME NEW s, NEW t, IsSeq(s), IsSeq(t)
    PROVE  IsSeq(s \o t) /\ ToSet(s \o t) \in SUBSET (ToSet(s) \cup ToSet(t))
<1> DEFINE S == ToSet(s) \cup ToSet(t)
<1>1. s \in Seq(S) /\ t \in Seq(S)
  BY DEF IsSeq
<1> HIDE DEF S
<1>2. /\ s \o t \in Seq(S) /\ Len(s \o t) \in Nat
      /\ \A i \in DOMAIN (s \o t) : (s \o t)[i] \in S
  BY <1>1, ConcatProperties
<1> QED
  BY <1>2, SeqIsSeq DEF S

LEMMA SetupKeeps ==
    ASSUME NEW w, NEW had, InputInv(w, had), NEW types \in SUBSET Types, NEW n
    PROVE  IF Setup(w, types, n).ends = "returns"
           THEN InputInv(Setup(w, types, n).wrapper, NoAttrs)
           ELSE Setup(w, types, n).wrapper = w
<1> DEFINE v == Setup(w, types, n).wrapper
           NthOf(x) == Cardinality({y \in types :
                           ValueType(y) = ValueType(x) /\ TypeRank(y) < TypeRank(x)})
<1>1. CASE w.locked
  BY <1>1 DEF Setup, Throws
<1>2. CASE ~w.locked
  <2>1. Setup(w, types, n).ends = "returns"
    BY <1>2 DEF Setup, Returns
  <2>2. /\ DOMAIN v = Fields /\ v.types = types /\ v.slot = Slots(w, types) /\ v.cur = w.cur
        /\ v.curFrame = w.curFrame
        /\ v.data = [k \in DOMAIN w.data |->
                       w.data[k] \o [i \in 1 .. Cardinality({t \in types : ValueType(t) = k}) |->
                                        [f \in 1 .. n |-> NullArray]]]
    BY <1>2 DEF Setup, Returns, InputInv, InputShape, Fields
  <2>3. \A t \in types : v.slot[t] = NthOf(t)
    BY <2>2 DEF Slots, InputInv, InputShape
  <2>4. v.slot \in [Types -> Int]
    <3>1. \A t \in types : NthOf(t) \in Nat
      <4> TAKE t \in types
      <4>1. IsFiniteSet({y \in types : ValueType(y) = ValueType(t) /\ TypeRank(y) < TypeRank(t)})
        BY TypesFinite, FS_Subset
      <4> QED
        BY <4>1, FS_CardinalityType
    <3> HIDE DEF NthOf
    <3>2. v.slot = [t \in Types |-> IF t \in types THEN NthOf(t) ELSE w.slot[t]]
      BY <2>2 DEF Slots, NthOf, InputInv, InputShape
    <3> HIDE DEF v
    <3> QED
      BY <3>1, <3>2 DEF InputInv, InputShape
  <2>5. \A t \in types : v.slot[t] \in Nat
    <3> HIDE DEF v
    <3> TAKE t \in types
    <3>1. IsFiniteSet({y \in types : ValueType(y) = ValueType(t) /\ TypeRank(y) < TypeRank(t)})
      BY TypesFinite, FS_Subset
    <3> QED
      BY <3>1, <2>3, FS_CardinalityType
  <2>6. \A t, u \in types : t # u /\ ValueType(t) = ValueType(u) => v.slot[t] # v.slot[u]
    <3> HIDE DEF v
    <3> TAKE t, u \in types
    <3> HAVE t # u /\ ValueType(t) = ValueType(u)
    <3>1. NthOf(t) # NthOf(u)
      BY SlotsDiffer
    <3> HIDE DEF NthOf
    <3> QED
      BY <2>3, <3>1
  <2>7. ASSUME NEW k \in Kinds
        PROVE  IsSeq(v.data[k])
    <3> DEFINE m == Cardinality({t \in types : ValueType(t) = k})
               new == [i \in 1 .. m |-> [f \in 1 .. n |-> NullArray]]
    <3>1. m \in Nat
      BY TypesFinite, FS_Subset, FS_CardinalityType
    <3>2. IsSeq(new)
      <4> HIDE DEF m
      <4> QED
        BY <3>1 DEF IsSeq, ToSet
    <3>3. IsSeq(w.data[k]) /\ v.data[k] = w.data[k] \o new
      BY <2>2 DEF InputInv, InputShape
    <3> HIDE DEF new, v
    <3> QED
      BY <3>2, <3>3, SeqsConcat
  <2>8. InputShape(v)
    <3> HIDE DEF v
    <3> QED
      BY <2>2, <2>4, <2>5, <2>6, <2>7 DEF InputShape, InputInv
  <2>9. DOMAIN NoAttrs = {}
    BY DEF NoAttrs
  <2> QED
    BY <2>1, <2>8, <2>9 DEF InputInv, Kept
<1> QED
  BY <1>1, <1>2

Without(had, f) == [e \in {d \in DOMAIN had : d[2] # f} |-> had[e]]

LEMMA LessKept ==
    ASSUME NEW w, NEW had, NEW f, InputInv(w, had)
    PROVE  InputInv(w, Without(had, f))
<1> DEFINE less == Without(had, f)
<1>1. /\ DOMAIN less = {d \in DOMAIN had : d[2] # f}
      /\ \A e \in DOMAIN less : e \in DOMAIN had /\ less[e] = had[e]
  BY DEF Without
<1> HIDE DEF less
<1>2. Kept(w, less)
  BY <1>1 DEF InputInv, Kept
<1> QED
  BY <1>2 DEF InputInv, less

\* close_frame touches no array.
LEMMA CloseFrameKeeps ==
    ASSUME NEW w, NEW had, InputInv(w, had)
    PROVE  InputInv(CloseFrame(w).wrapper, had)
<1> DEFINE v == CloseFrame(w).wrapper
<1>1. \/ v = w
      \/ v = [w EXCEPT !.addedSet = IF @ = "live" THEN "deleted" ELSE @,
                       !.curSize = 0, !.open = FALSE, !.cur = "sentry"]
  BY DEF CloseFrame, Crashes, Returns
<1>2. /\ DOMAIN v = Fields /\ v.types = w.types /\ v.slot = w.slot /\ v.data = w.data
      /\ v.curFrame = w.curFrame /\ (v.cur = w.cur \/ v.cur = "sentry")
  <2> HIDE DEF v
  <2> QED
    BY <1>1 DEF InputInv, InputShape, Fields
<1>3. v.curFrame \in Int
  <2> HIDE DEF v
  <2> QED
    BY <1>2 DEF InputInv, InputShape
<1> HIDE DEF v
<1>4. InputInv(v, had)
  BY <1>2, <1>3, ArraysStay
<1> QED
  BY <1>4 DEF v

\* The arrays of a frame are made anew; those of the other frames stay.
LEMMA AllocateKeeps ==
    ASSUME NEW w, NEW had, NEW f \in Int, InputInv(w, had)
    PROVE  InputInv(Allocate(w, f).wrapper, Without(had, f))
<1> DEFINE v == Allocate(w, f).wrapper
           less == Without(had, f)
           failing == {t \in w.types : ValueType(t) = "complex" \/ ~InVectors(w, t, f)}
           done == {t \in w.types : \A u \in failing : TypeRank(t) < TypeRank(u)}
           Made2(k, i) == \E t \in done : ValueType(t) = k /\ w.slot[t] + 1 = i
           data2 == [k \in DOMAIN w.data |-> [i \in DOMAIN w.data[k] |->
                        [g \in DOMAIN w.data[k][i] |->
                            IF g = f + 1 /\ Made2(k, i) THEN RawArray ELSE w.data[k][i][g]]]]
<1>1. v = [w EXCEPT !.data = data2]
  BY DEF Allocate, Returns, Throws
<1> HIDE DEF done
<1>2. /\ \A k \in DOMAIN w.data : DOMAIN data2[k] = DOMAIN w.data[k]
      /\ \A k \in DOMAIN w.data : \A i \in DOMAIN w.data[k] :
            DOMAIN data2[k][i] = DOMAIN w.data[k][i]
      /\ \A k \in DOMAIN w.data : \A i \in DOMAIN w.data[k] : \A g \in DOMAIN w.data[k][i] :
            g # f + 1 => data2[k][i][g] = w.data[k][i][g]
      /\ DOMAIN data2 = DOMAIN w.data
  OBVIOUS
<1>3. ASSUME NEW k \in Kinds
      PROVE  IsSeq(data2[k])
  <2> DEFINE d == data2[k]
  <2>1. Len(w.data[k]) \in Nat /\ DOMAIN w.data[k] = 1 .. Len(w.data[k]) /\ DOMAIN w.data = Kinds
    BY DEF InputInv, InputShape, IsSeq
  <2>2. DOMAIN d = 1 .. Len(w.data[k]) /\ d = [i \in 1 .. Len(w.data[k]) |-> d[i]]
    BY <2>1
  <2> HIDE DEF d
  <2>3. IsSeq(d)
    BY <2>1, <2>2, FunIsSeq
  <2> QED
    BY <2>3 DEF d
<1> HIDE DEF data2
<1>4. /\ DOMAIN v = Fields /\ v.types = w.types /\ v.slot = w.slot /\ v.cur = w.cur
      /\ v.curFrame = w.curFrame /\ v.data = data2
  BY <1>1 DEF InputInv, InputShape, Fields
<1> HIDE DEF v
<1>5. InputShape(v)
  BY <1>2, <1>3, <1>4 DEF InputInv, InputShape
<1>6. ASSUME NEW e \in DOMAIN less
      PROVE  /\ e = <<e[1], e[2]>> /\ e[1] \in Types /\ e[2] \in Int
             /\ e[1] \in v.types => /\ InVectors(v, e[1], e[2])
                                    /\ ArrayAt(v, e[1], e[2]) = Holding(less[e])
  <2>1. e \in DOMAIN had /\ e[2] # f /\ less[e] = had[e]
    BY DEF Without
  <2>2. /\ e = <<e[1], e[2]>> /\ e[1] \in Types /\ e[2] \in Int
        /\ e[1] \in w.types => /\ InVectors(w, e[1], e[2])
                               /\ ArrayAt(w, e[1], e[2]) = Holding(had[e])
    BY <2>1 DEF InputInv, Kept
  <2> HIDE DEF less
  <2>3. SUFFICES ASSUME e[1] \in w.types
                 PROVE  InVectors(v, e[1], e[2]) /\ ArrayAt(v, e[1], e[2]) = Holding(had[e])
    BY <1>4, <2>1, <2>2
  <2> DEFINE k == ValueType(e[1])
             i == w.slot[e[1]] + 1
             g == e[2] + 1
  <2>4. k \in Kinds /\ k \in DOMAIN w.data
    BY <2>2, RankIs DEF InputInv, InputShape
  <2>5. i \in DOMAIN w.data[k] /\ g \in DOMAIN w.data[k][i] /\ w.data[k][i][g] = Holding(had[e])
    BY <2>2, <2>3 DEF InVectors, ArrayAt
  <2>6. g # f + 1
    BY <2>1, <2>2
  <2> HIDE DEF k, i, g
  <2>7. i \in DOMAIN v.data[k] /\ g \in DOMAIN v.data[k][i] /\ v.data[k][i][g] = Holding(had[e])
    BY <1>2, <1>4, <2>4, <2>5, <2>6
  <2> QED
    BY <2>7, <1>4 DEF InVectors, ArrayAt, k, i, g
<1>7. Kept(v, less)
  BY <1>6 DEF Kept
<1> QED
  BY <1>5, <1>7 DEF InputInv, v

LEMMA OpenFrameOfKeeps ==
    ASSUME NEW w, NEW had, NEW f \in Int, NEW n, NEW z, InputInv(w, had)
    PROVE  InputInv(OpenFrameOf(w, f, n, z).wrapper, Without(had, f))
<1> DEFINE u == [w EXCEPT !.count[f + 1] = n, !.curSize = n, !.curFrame = f,
                          !.total = @ + n, !.z[f + 1] = z,
                          !.added = {}, !.addedSet = "live"]
           r == Allocate(u, f)
           v == OpenFrameOf(w, f, n, z).wrapper
<1>1. /\ DOMAIN u = Fields /\ u.types = w.types /\ u.slot = w.slot /\ u.data = w.data
      /\ u.curFrame = f /\ u.cur = w.cur
  BY DEF InputInv, InputShape, Fields
<1>2. v = w \/ v = r.wrapper \/ v = [r.wrapper EXCEPT !.open = TRUE]
  <2> HIDE DEF u
  <2> QED
    BY DEF OpenFrameOf, Throws, Returns, u
<1> HIDE DEF u
<1>3. InputInv(u, had)
  BY <1>1, ArraysStay
<1>4. InputInv(r.wrapper, Without(had, f))
  BY <1>3, AllocateKeeps
<1> HIDE DEF r, v
<1>5. CASE v = [r.wrapper EXCEPT !.open = TRUE]
  <2>1. /\ DOMAIN v = Fields /\ v.types = r.wrapper.types /\ v.slot = r.wrapper.slot
        /\ v.data = r.wrapper.data /\ v.curFrame = r.wrapper.curFrame /\ v.cur = r.wrapper.cur
        /\ v.curFrame \in Int
    BY <1>4, <1>5 DEF InputInv, InputShape, Fields
  <2> QED
    BY <2>1, <1>4, ArraysStay DEF v
<1> QED
  BY <1>2, <1>4, <1>5, LessKept DEF v

LEMMA OpenFrameKeeps ==
    ASSUME NEW w, NEW had, NEW f \in Int, NEW n, NEW z, InputInv(w, had)
    PROVE  InputInv(OpenFrame(w, f, n, z).wrapper, Without(had, f))
BY CloseFrameKeeps, OpenFrameOfKeeps DEF OpenFrame

LEMMA SetDataTypeKeeps ==
    ASSUME NEW w, NEW had, InputInv(w, had), NEW t \in Types
    PROVE  InputInv(SetDataType(w, t).wrapper, had)
<1> DEFINE v == SetDataType(w, t).wrapper
<1>1. v = w \/ v = [w EXCEPT !.added = @ \cup {t}, !.cur = t]
  BY DEF SetDataType, Throws, Returns
<1>2. /\ DOMAIN v = Fields /\ v.types = w.types /\ v.slot = w.slot /\ v.data = w.data
      /\ v.curFrame = w.curFrame /\ (v.cur = w.cur \/ v.cur = t) /\ v.curFrame \in Int
  <2> HIDE DEF v
  <2> QED
    BY <1>1 DEF InputInv, InputShape, Fields
<1> HIDE DEF v
<1>3. InputInv(v, had)
  BY <1>2, ArraysStay
<1> QED
  BY <1>3 DEF v

LEMMA ClearDataTypeKeeps ==
    ASSUME NEW w, NEW had, InputInv(w, had)
    PROVE  InputInv(ClearDataType(w).wrapper, had)
<1> DEFINE v == ClearDataType(w).wrapper
<1>2. /\ DOMAIN v = Fields /\ v.types = w.types /\ v.slot = w.slot /\ v.data = w.data
      /\ v.curFrame = w.curFrame /\ v.cur = "sentry" /\ v.curFrame \in Int
  BY DEF ClearDataType, Returns, InputInv, InputShape, Fields
<1> HIDE DEF v
<1>3. InputInv(v, had)
  BY <1>2, ArraysStay
<1> QED
  BY <1>3 DEF v

\* What had been added where, and then as t to f.
FedWith(w, had, t, f, vals) ==
    LET places == Reached(w, t) \X {f}
    IN  [e \in DOMAIN had \cup places |-> IF e \in places THEN vals ELSE had[e]]

\* What is added is in its array, and in no other's.
LEMMA AddDataKeeps ==
    ASSUME NEW w, NEW had, InputInv(w, had), NEW kind \in Kinds, NEW vals
    PROVE  IF AddData(w, kind, vals).ends = "returns"
           THEN InputInv(AddData(w, kind, vals).wrapper, FedWith(w, had, w.cur, w.curFrame, vals))
           ELSE AddData(w, kind, vals).wrapper = w
<1> DEFINE t0 == w.cur
           f0 == w.curFrame
           v == AddData(w, kind, vals).wrapper
           new == Reached(w, t0) \X {f0}
           more == FedWith(w, had, t0, f0, vals)
           k0 == ValueType(t0)
           i0 == w.slot[t0] + 1
           g0 == f0 + 1
<1>1. CASE AddData(w, kind, vals).ends # "returns"
  BY <1>1 DEF AddData, Throws, Returns
<1>2. CASE AddData(w, kind, vals).ends = "returns"
  <2>1. /\ ValueType(t0) = kind /\ InVectors(w, t0, f0)
        /\ v = [StoreArray(w, t0, f0, Holding(vals)) EXCEPT !.cur = "sentry"]
    BY <1>2 DEF AddData, Throws, Returns
  <2>2. t0 \in Types
    <3>1. ValueType("sentry") = "error"
      BY DEF ValueType
    <3>2. t0 # "sentry"
      BY <2>1, <3>1 DEF Kinds
    <3> QED
      BY <3>2 DEF InputInv, InputShape
  <2>3. /\ k0 \in Kinds /\ k0 \in DOMAIN w.data /\ i0 \in DOMAIN w.data[k0] /\ g0 \in DOMAIN w.data[k0][i0]
        /\ f0 \in Int /\ w.slot[t0] \in Int
    BY <2>1, <2>2, RankIs DEF InVectors, InputInv, InputShape
  <2>4. \A u \in Reached(w, t0) : u \in Types /\ ValueType(u) = k0 /\ w.slot[u] = w.slot[t0]
    BY <2>2 DEF Reached, InputInv, InputShape
  <2> DEFINE data2 == [w.data EXCEPT ![k0][i0][g0] = Holding(vals)]
  <2>5. /\ DOMAIN v = Fields /\ v.types = w.types /\ v.slot = w.slot /\ v.cur = "sentry"
        /\ v.curFrame = w.curFrame /\ v.data = data2
    BY Zenon, <2>1 DEF StoreArray, InputInv, InputShape, Fields
  <2>6. /\ DOMAIN data2 = DOMAIN w.data
        /\ \A k \in DOMAIN w.data : DOMAIN data2[k] = DOMAIN w.data[k]
        /\ \A k \in DOMAIN w.data : \A i \in DOMAIN w.data[k] :
              DOMAIN data2[k][i] = DOMAIN w.data[k][i]
        /\ \A k \in DOMAIN w.data : \A i \in DOMAIN w.data[k] : \A g \in DOMAIN w.data[k][i] :
              data2[k][i][g] = IF k = k0 /\ i = i0 /\ g = g0 THEN Holding(vals) ELSE w.data[k][i][g]
    BY Zenon, <2>3
  <2>7. ASSUME NEW k \in Kinds
        PROVE  IsSeq(data2[k])
    <3> DEFINE d == data2[k]
    <3>1. IsSeq(w.data[k]) /\ DOMAIN w.data = Kinds
      BY DEF InputInv, InputShape
    <3>2. Len(w.data[k]) \in Nat /\ DOMAIN w.data[k] = 1 .. Len(w.data[k])
      BY ONLY <3>1 DEF IsSeq
    <3>3. d = [i \in 1 .. Len(w.data[k]) |-> d[i]]
      <4>1. CASE k = k0
        <5>1. d = [w.data[k] EXCEPT ![i0][g0] = Holding(vals)]
          BY <4>1, <2>3
        <5> QED
          BY Zenon, <5>1, <3>2
      <4>2. CASE k # k0
        <5>1. d = w.data[k]
          BY <4>2, <3>1
        <5>2. w.data[k] = [i \in 1 .. Len(w.data[k]) |-> w.data[k][i]]
          BY <3>1, SeqIsFun
        <5> HIDE DEF d
        <5> QED
          BY <5>1, <5>2
      <4> QED
        BY Zenon, <4>1, <4>2
    <3>4. DOMAIN d = 1 .. Len(w.data[k])
      BY <2>6, <3>1, <3>2
    <3> HIDE DEF d
    <3>5. IsSeq(d)
      BY <3>2, <3>3, <3>4, FunIsSeq
    <3> QED
      BY <3>5 DEF d
  <2> HIDE DEF data2, v
  <2>8. InputShape(v)
    BY <2>5, <2>6, <2>7 DEF InputInv, InputShape
  <2>9. /\ DOMAIN more = DOMAIN had \cup new
        /\ \A e \in new : more[e] = vals
        /\ \A e \in DOMAIN had : e \notin new => more[e] = had[e]
    BY DEF FedWith
  <2> HIDE DEF more
  <2>10. \A u \in Reached(w, t0) : InVectors(v, u, f0) /\ ArrayAt(v, u, f0) = Holding(vals)
    BY <2>3, <2>4, <2>5, <2>6 DEF InVectors, ArrayAt
  <2>11. ASSUME NEW e \in DOMAIN had, e \notin new
         PROVE  /\ e = <<e[1], e[2]>> /\ e[1] \in Types /\ e[2] \in Int
                /\ e[1] \in v.types => /\ InVectors(v, e[1], e[2])
                                       /\ ArrayAt(v, e[1], e[2]) = Holding(had[e])
    <3>1. /\ e = <<e[1], e[2]>> /\ e[1] \in Types /\ e[2] \in Int
          /\ e[1] \in w.types => /\ InVectors(w, e[1], e[2])
                                 /\ ArrayAt(w, e[1], e[2]) = Holding(had[e])
      BY DEF InputInv, Kept
    <3>2. SUFFICES ASSUME e[1] \in w.types
                   PROVE  InVectors(v, e[1], e[2]) /\ ArrayAt(v, e[1], e[2]) = Holding(had[e])
      BY <3>1, <2>5
    <3> DEFINE k == ValueType(e[1])
               i == w.slot[e[1]] + 1
               g == e[2] + 1
    <3>3. k \in Kinds /\ k \in DOMAIN w.data /\ w.slot[e[1]] \in Int
      BY <3>1, RankIs DEF InputInv, InputShape
    <3>4. i \in DOMAIN w.data[k] /\ g \in DOMAIN w.data[k][i] /\ w.data[k][i][g] = Holding(had[e])
      BY <3>1, <3>2 DEF InVectors, ArrayAt
    <3>5. ~(k = k0 /\ i = i0 /\ g = g0)
      <4>1. SUFFICES ASSUME k = k0, i = i0, g = g0 PROVE FALSE
        OBVIOUS
      <4>2. e[2] = f0 /\ w.slot[e[1]] = w.slot[t0]
        BY <4>1, <3>1, <3>3, <2>3
      <4>3. e[1] \notin Reached(w, t0)
        BY <2>11, <3>1, <4>2
      <4>4. t0 \notin w.types
        BY <4>1, <4>2, <4>3, <3>2 DEF Reached, InputInv, InputShape
      <4> QED
        BY <4>1, <4>2, <4>3, <4>4, <3>2 DEF Reached
    <3> HIDE DEF k, i, g
    <3>6. i \in DOMAIN v.data[k] /\ g \in DOMAIN v.data[k][i] /\ v.data[k][i][g] = Holding(had[e])
      BY <2>5, <2>6, <3>3, <3>4, <3>5
    <3> QED
      BY <3>6, <2>5 DEF InVectors, ArrayAt, k, i, g
  <2>12. Kept(v, more)
    <3>1. \A e \in new : /\ e = <<e[1], e[2]>> /\ e[1] \in Types /\ e[2] = f0
                         /\ e[1] \in Reached(w, t0)
      BY <2>4
    <3> HIDE DEF new
    <3> QED
      BY <3>1, <2>3, <2>9, <2>10, <2>11 DEF Kept
  <2> QED
    BY <1>2, <2>8, <2>12 DEF InputInv, v, more
<1> QED
  BY <1>1, <1>2

InputCalls == {"open_wrapper", "setup", "open_frame", "set_data_type", "clear_data_type",
               "add_data", "close_frame", "finalize_wrapper"}

\* What a call has added, kind by kind.
LEMMA FedAfterIs ==
    ASSUME NEW c, NEW r
    PROVE  /\ c.call = "open_wrapper" => FedAfter(c, r) = NoAttrs
           /\ c.call = "setup" => FedAfter(c, r) = IF r.ends = "returns" THEN NoAttrs ELSE fed
           /\ c.call = "open_frame" => FedAfter(c, r) = Without(fed, c.frame)
           /\ c.call = "add_data" => FedAfter(c, r) =
                 IF r.ends = "returns"
                 THEN FedWith(source, fed, source.cur, source.curFrame, c.vals) ELSE fed
           /\ c.call \in {"set_data_type", "clear_data_type", "close_frame", "finalize_wrapper"} =>
                 FedAfter(c, r) = fed
<1>1. c.call = "open_wrapper" => FedAfter(c, r) = NoAttrs
  BY DEF FedAfter
<1>2. c.call = "setup" => FedAfter(c, r) = IF r.ends = "returns" THEN NoAttrs ELSE fed
  BY DEF FedAfter
<1>3. c.call = "open_frame" => FedAfter(c, r) = Without(fed, c.frame)
  BY DEF FedAfter, Without
<1>4. c.call = "add_data" => FedAfter(c, r) =
         IF r.ends = "returns"
         THEN FedWith(source, fed, source.cur, source.curFrame, c.vals) ELSE fed
  BY DEF FedAfter, FedWith
<1>5. c.call \in {"set_data_type", "clear_data_type", "close_frame", "finalize_wrapper"} =>
         FedAfter(c, r) = fed
  BY DEF FedAfter
<1> QED
  BY <1>1, <1>2, <1>3, <1>4, <1>5

\* The operation a call stands for.
LEMMA DoIs ==
    ASSUME NEW w, NEW c
    PROVE  /\ c.call = "open_wrapper" => Do(w, c) = OpenInput(w)
           /\ c.call = "setup" => Do(w, c) = Setup(w, c.types, c.frames)
           /\ c.call = "open_frame" => Do(w, c) = OpenFrame(w, c.frame, c.n, c.z)
           /\ c.call = "set_data_type" => Do(w, c) = SetDataType(w, c.type)
           /\ c.call = "clear_data_type" => Do(w, c) = ClearDataType(w)
           /\ c.call = "add_data" => Do(w, c) = AddData(w, c.kind, c.vals)
           /\ c.call = "close_frame" => Do(w, c) = CloseFrame(w)
           /\ c.call = "finalize_wrapper" => Do(w, c) = FinalizeInput(w)
BY DEF Do

\* Whatever the call, and however it ends.
LEMMA DoKeeps ==
    ASSUME InputInv(source, fed), NEW c, c.call \in InputCalls, Typed(c)
    PROVE  InputInv(Do(source, c).wrapper, FedAfter(c, Do(source, c)))
<1>1. CASE c.call = "open_wrapper"
  BY <1>1, DoIs, FedAfterIs, OpenInputKeeps
<1>2. CASE c.call = "setup"
  <2> DEFINE r == Setup(source, c.types, c.frames)
  <2>1. Do(source, c) = r /\ c.types \in SUBSET Types
    BY <1>2, DoIs DEF Typed
  <2>2. IF r.ends = "returns" THEN InputInv(r.wrapper, NoAttrs) ELSE r.wrapper = source
    BY <2>1, SetupKeeps
  <2>3. FedAfter(c, r) = IF r.ends = "returns" THEN NoAttrs ELSE fed
    BY <1>2, FedAfterIs
  <2> HIDE DEF r
  <2> QED
    BY <2>1, <2>2, <2>3
<1>3. CASE c.call = "open_frame"
  BY <1>3, DoIs, FedAfterIs, OpenFrameKeeps DEF Typed
<1>4. CASE c.call = "set_data_type"
  BY <1>4, DoIs, FedAfterIs, SetDataTypeKeeps DEF Typed
<1>5. CASE c.call = "clear_data_type"
  BY <1>5, DoIs, FedAfterIs, ClearDataTypeKeeps
<1>6. CASE c.call = "add_data"
  <2> DEFINE r == AddData(source, c.kind, c.vals)
             more == FedWith(source, fed, source.cur, source.curFrame, c.vals)
  <2>1. Do(source, c) = r /\ c.kind \in Kinds
    BY <1>6, DoIs DEF Typed
  <2>2. IF r.ends = "returns" THEN InputInv(r.wrapper, more) ELSE r.wrapper = source
    BY <2>1, AddDataKeeps
  <2>3. FedAfter(c, r) = IF r.ends = "returns" THEN more ELSE fed
    BY <1>6, FedAfterIs
  <2> HIDE DEF r, more
  <2> QED
    BY <2>1, <2>2, <2>3
<1>7. CASE c.call = "close_frame"
  BY <1>7, DoIs, FedAfterIs, CloseFrameKeeps
<1>8. CASE c.call = "finalize_wrapper"
  <2>1. Do(source, c).wrapper = source
    BY <1>8, DoIs DEF FinalizeInput, Returns
  <2> QED
    BY <1>8, <2>1, FedAfterIs
<1> QED
  BY <1>1, <1>2, <1>3, <1>4, <1>5, <1>6, <1>7, <1>8 DEF InputCalls

-----------------------------------------------------------------------------
(* The calls of proc_file                                                     *)

\* Sequences of elements of one set, one behind the other.
LEMMA FlatIsSeq ==
    ASSUME NEW S, NEW n \in Nat, NEW seqs \in [1 .. n -> Seq(S)], seqs \in Seq(Seq(S))
    PROVE  FlattenSeq(seqs) \in Seq(S)
<1>1. Len(seqs) = n
  OBVIOUS
<1>2. CASE n = 0
  BY <1>1, <1>2 DEF FlattenSeq
<1>3. CASE n > 0
  <2> DEFINE Rec(f) == [i \in 1 .. n |-> IF i = 1 THEN seqs[i] ELSE f[i - 1] \o seqs[i]]
             F == [x \in (0 .. n) \X Seq(S) |-> x[2] \o seqs[x[1] + 1]]
             W == [i \in 1 .. n |-> Seq(S)]
             flat == CHOOSE f : f = Rec(f)
  <2>1. 1 \in 1 .. n /\ seqs[1] \in W[1]
    BY <1>3
  <2>2. \A g \in 1 + 1 .. n : \A v : v \in W[g - 1] =>
           F[<<g - 1, v>>] = v \o seqs[g] /\ F[<<g - 1, v>>] \in W[g]
    <3> TAKE g \in 1 + 1 .. n
    <3>1. g - 1 \in 0 .. n /\ g - 1 \in 1 .. n /\ g \in 1 .. n /\ g - 1 + 1 = g
      BY <1>3
    <3> TAKE v
    <3> HAVE v \in W[g - 1]
    <3>2. v \in Seq(S)
      BY <3>1
    <3>3. F[<<g - 1, v>>] = v \o seqs[g]
      BY <3>1, <3>2
    <3>4. v \o seqs[g] \in Seq(S)
      BY <3>1, <3>2, ConcatProperties
    <3> QED
      BY <3>1, <3>3, <3>4
  <2> HIDE DEF F
  <2>3. PICK f : IsChain(f, 1, n, seqs[1], F, W)
    <3> DEFINE lo == 1
    <3>1. lo \in Int /\ n \in Int /\ seqs[1] \in W[lo]
      BY <2>1
    <3>2. \A g \in lo + 1 .. n : \A v : v \in W[g - 1] => F[<<g - 1, v>>] \in W[g]
      BY <2>2
    <3> HIDE DEF lo, W
    <3>3. \E f : IsChain(f, lo, n, seqs[1], F, W)
      BY <3>1, <3>2, ChainExists
    <3> QED
      BY <3>3 DEF lo
  <2>4. f = Rec(f)
    <3>1. /\ f = [g \in 1 .. n |-> IF g = 1 THEN seqs[1] ELSE F[<<g - 1, f[g - 1]>>]]
          /\ \A g \in 1 .. n : f[g] \in W[g]
      BY <2>3 DEF IsChain
    <3>2. \A g \in 1 .. n : g # 1 => F[<<g - 1, f[g - 1]>>] = f[g - 1] \o seqs[g]
      <4> TAKE g \in 1 .. n
      <4> HAVE g # 1
      <4>1. g \in 1 + 1 .. n /\ g - 1 \in 1 .. n
        BY <1>3
      <4> HIDE DEF W
      <4> QED
        BY <4>1, <3>1, <2>2
    <3>3. \A g \in 1 .. n : f[g] = IF g = 1 THEN seqs[g] ELSE f[g - 1] \o seqs[g]
      <4> HIDE DEF W
      <4> TAKE g \in 1 .. n
      <4>1. f[g] = IF g = 1 THEN seqs[1] ELSE F[<<g - 1, f[g - 1]>>]
        BY <3>1
      <4> QED
        BY <4>1, <3>2
    <3>4. f = [g \in 1 .. n |-> f[g]]
      BY <3>1
    <3> QED
      BY <3>3, <3>4
  <2>5. flat = Rec(flat)
    <3> HIDE DEF Rec
    <3> QED
      BY <2>4
  <2> HIDE DEF flat
  <2>6. \A g \in 1 .. n : flat[g] \in W[g]
    <3>1. 1 <= n => flat[1] \in W[1]
      BY <2>5, <2>1
    <3>2. \A g \in 1 + 1 .. n : flat[g - 1] \in W[g - 1] => flat[g] \in W[g]
      <4> TAKE g \in 1 + 1 .. n
      <4> HAVE flat[g - 1] \in W[g - 1]
      <4>1. g \in 1 .. n /\ g # 1 /\ g - 1 \in 1 .. n
        BY <1>3
      <4>2. flat[g] = flat[g - 1] \o seqs[g]
        BY <4>1, <2>5
      <4> QED
        BY <4>1, <4>2, ConcatProperties
    <3> DEFINE lo == 1
    <3>3. lo \in Int /\ n \in Int /\ (lo <= n => flat[lo] \in W[lo])
      BY <3>1
    <3>4. \A g \in lo + 1 .. n : flat[g - 1] \in W[g - 1] => flat[g] \in W[g]
      BY <3>2
    <3> HIDE DEF lo, W
    <3>5. \A g \in lo .. n : flat[g] \in W[g]
      BY <3>3, <3>4, ChainStays
    <3> QED
      BY <3>5 DEF lo
  <2>7. flat[n] \in Seq(S)
    BY <2>6, <1>3
  <2>8. FlattenSeq(seqs) = flat[n]
    BY <1>1, <1>3 DEF FlattenSeq, flat
  <2> QED
    BY <2>7, <2>8
<1> QED
  BY <1>2, <1>3

\* A call that proc_file makes.
OfPacking(c) ==
    /\ c.call \in InputCalls
    /\ c.call = "setup" => c.types = {"xpos", "ypos"}
    /\ c.call = "open_frame" => c.frame \in Int
    /\ c.call = "set_data_type" => c.type \in {"xpos", "ypos"}
    /\ c.call = "add_data" => c.kind = "float"

Packing(s) == IsSeq(s) /\ \A c \in ToSet(s) : OfPacking(c)

LEMMA PackingsConcat ==
    ASSUME NEW s, NEW t, Packing(s), Packing(t)
    PROVE  Packing(s \o t)
BY SeqsConcat DEF Packing

LEMMA PlaneCallsArePacking ==
    ASSUME NEW f \in Int, NEW slab, NEW spacing, NEW thick
    PROVE  Packing(PlaneCalls(f, slab, spacing, thick))
<1> DEFINE s == PlaneCalls(f, slab, spacing, thick)
<1>1. DOMAIN s = 1 .. 6 /\ s = [i \in 1 .. 6 |-> s[i]]
  BY DEF PlaneCalls
<1>2. 1 .. 6 = {1, 2, 3, 4, 5, 6}
  OBVIOUS
<1>3. /\ OfPacking(s[1]) /\ OfPacking(s[2]) /\ OfPacking(s[3]) /\ OfPacking(s[4])
      /\ OfPacking(s[5]) /\ OfPacking(s[6])
  BY DEF PlaneCalls, OfPacking, InputCalls
<1> HIDE DEF s
<1>4. IsSeq(s)
  <2> DEFINE n == 6
  <2>1. n \in Nat /\ DOMAIN s = 1 .. n /\ s = [i \in 1 .. n |-> s[i]]
    BY <1>1
  <2> HIDE DEF n
  <2> QED
    BY <2>1, FunIsSeq
<1>5. Packing(s)
  BY <1>1, <1>2, <1>3, <1>4 DEF Packing, ToSet
<1> QED
  BY <1>5 DEF s

LEMMA ProcFileIsPacking ==
    ASSUME NEW triples, NEW planes \in Nat, NEW spacing, NEW thick
    PROVE  Packing(ProcFile(triples, planes, spacing, thick))
<1> DEFINE front == <<[call |-> "open_wrapper"],
                      [call |-> "setup", types |-> {"xpos", "ypos"}, frames |-> planes]>>
           Calls(f) == PlaneCalls(f - 1, OnPlane(triples, f - 1, planes, spacing, thick),
                                  spacing, thick)
           seqs == [f \in 1 .. planes |-> Calls(f)]
           back == <<[call |-> "finalize_wrapper"]>>
           S == UNION {ToSet(seqs[f]) : f \in 1 .. planes}
<1>1. Packing(front)
  <2>1. DOMAIN front = {1, 2} /\ front \in Seq({front[1], front[2]})
    OBVIOUS
  <2>2. ToSet(front) = {front[1], front[2]}
    BY <2>1 DEF ToSet
  <2>3. OfPacking(front[1]) /\ OfPacking(front[2])
    BY DEF OfPacking, InputCalls
  <2> HIDE DEF front
  <2> QED
    BY <2>1, <2>2, <2>3 DEF Packing, IsSeq
<1>2. Packing(back)
  <2>1. DOMAIN back = {1} /\ back \in Seq({back[1]})
    OBVIOUS
  <2>2. ToSet(back) = {back[1]}
    BY <2>1 DEF ToSet
  <2>3. OfPacking(back[1])
    BY DEF OfPacking, InputCalls
  <2> HIDE DEF back
  <2> QED
    BY <2>1, <2>2, <2>3 DEF Packing, IsSeq
<1>3. \A f \in 1 .. planes : Packing(Calls(f))
  <2> TAKE f \in 1 .. planes
  <2>1. f - 1 \in Int
    OBVIOUS
  <2> QED
    BY <2>1, PlaneCallsArePacking
<1> HIDE DEF Calls
<1>4. /\ \A f \in 1 .. planes : seqs[f] \in Seq(S)
      /\ \A c \in S : OfPacking(c)
  <2>1. \A f \in 1 .. planes : Calls(f) \in Seq(ToSet(Calls(f)))
    BY <1>3 DEF Packing, IsSeq
  <2>2. \A f \in 1 .. planes : ToSet(Calls(f)) \in SUBSET S
    OBVIOUS
  <2>3. \A f \in 1 .. planes : \A c \in ToSet(Calls(f)) : OfPacking(c)
    BY <1>3 DEF Packing
  <2>4. S = UNION {ToSet(Calls(f)) : f \in 1 .. planes}
    OBVIOUS
  <2> HIDE DEF S
  <2>5. \A f \in 1 .. planes : Calls(f) \in Seq(S)
    BY <2>1, <2>2
  <2> QED
    BY <2>3, <2>4, <2>5
<1>5. seqs \in [1 .. planes -> Seq(S)] /\ seqs \in Seq(Seq(S))
  <2> HIDE DEF S
  <2>1. seqs \in [1 .. planes -> Seq(S)]
    BY <1>4
  <2> HIDE DEF seqs
  <2> QED
    BY <2>1
<1>6. FlattenSeq(seqs) \in Seq(S)
  <2> HIDE DEF S, seqs
  <2> QED
    BY <1>5, FlatIsSeq
<1>7. Packing(FlattenSeq(seqs))
  <2> HIDE DEF S, seqs
  <2> QED
    BY <1>4, <1>6, SeqIsSeq DEF Packing
<1>8. ProcFile(triples, planes, spacing, thick) = (front \o FlattenSeq(seqs)) \o back
  BY DEF ProcFile, Calls
<1> HIDE DEF front, back, seqs
<1> QED
  BY <1>1, <1>2, <1>7, <1>8, PackingsConcat

-----------------------------------------------------------------------------
(* The wrapper, step by step                                                  *)

\* What is in the wrapper is what was last added, and the calls to come have
\* arguments of their types.
SourceInv ==
    /\ job \in Jobs
    /\ InputInv(source, fed)
    /\ job.feed = "jb" => Packing(feed)
    /\ job.feed # "jb" => feed = <<>>

LEMMA SourceInitGood ==
    ASSUME ProgInit
    PROVE  SourceInv
<1>1. job \in Jobs /\ job.frames \in Nat
  BY JobsAssumption DEF ProgInit, StatInit
<1>2. source = NewInput /\ fed = NoAttrs
  BY DEF ProgInit
<1>3. /\ source.types = {} /\ source.slot = [t \in Types |-> -1]
      /\ source.data = [k \in Kinds |-> <<>>] /\ source.cur = "sentry" /\ source.curFrame = 0
      /\ DOMAIN source = Fields
  BY <1>2, RankIs DEF NewInput, Fields, Kinds
<1>4. InputShape(source)
  <2>1. IsSeq(<<>>)
    BY DEF IsSeq
  <2> QED
    BY <1>3, <2>1 DEF InputShape
<1>5. InputInv(source, fed)
  <2>1. DOMAIN NoAttrs = {}
    BY DEF NoAttrs
  <2> QED
    BY <1>2, <1>4, <2>1 DEF InputInv, Kept
<1>6. job.feed = "jb" => Packing(feed)
  BY <1>1, ProcFileIsPacking DEF ProgInit
<1>7. job.feed # "jb" => feed = <<>>
  BY DEF ProgInit
<1> QED
  BY <1>1, <1>5, <1>6, <1>7 DEF SourceInv

LEMMA FeedStepKeeps ==
    ASSUME SourceInv, FeedStep
    PROVE  SourceInv'
<1> DEFINE c == Head(feed)
<1>1. /\ feed # <<>> /\ Made(c) /\ feed' = Tail(feed) /\ job' = job
  BY DEF FeedStep
<1>2. job.feed = "jb" /\ Packing(feed) /\ InputInv(source, fed) /\ job \in Jobs
  BY <1>1 DEF SourceInv
<1>3. OfPacking(c) /\ Packing(feed')
  <2> DEFINE S == ToSet(feed)
  <2>1. feed \in Seq(S) /\ \A x \in S : OfPacking(x)
    BY <1>2 DEF Packing, IsSeq
  <2> HIDE DEF S
  <2>2. Head(feed) \in S /\ Tail(feed) \in Seq(S)
    BY <1>1, <2>1
  <2> QED
    BY <1>1, <2>1, <2>2, SeqIsSeq DEF Packing
<1> HIDE DEF c
<1>4. Typed(c) /\ c.call \in InputCalls
  BY <1>2, <1>3 DEF OfPacking, Typed, Types, Kinds
<1>5. /\ source' = Do(source, c).wrapper /\ fed' = FedAfter(c, Do(source, c))
  BY <1>1 DEF Made
<1>6. InputInv(source', fed')
  BY <1>2, <1>4, <1>5, DoKeeps
<1> QED
  BY <1>1, <1>2, <1>3, <1>6 DEF SourceInv

LEMMA ScriptStepKeeps ==
    ASSUME SourceInv, ScriptStep
    PROVE  SourceInv'
<1>1. PICK c \in ScriptCalls(job) : Made(c)
  BY DEF ScriptStep
<1>2. job.feed = "script" /\ job' = job /\ feed' = feed
  BY DEF ScriptStep
<1>3. job \in Jobs /\ InputInv(source, fed) /\ feed = <<>>
  BY <1>2 DEF SourceInv
<1>4. Typed(c) /\ c.call \in InputCalls
  <2>1. /\ c.call \in {"open_wrapper", "setup", "open_frame", "set_data_type",
                       "clear_data_type", "add_data", "close_frame", "finalize_wrapper"}
        /\ c.call = "setup" => c.types \subseteq ToSet(TypeOrder)
        /\ c.call = "open_frame" => c.frame \in Nat
        /\ c.call = "set_data_type" => c.type \in ToSet(TypeOrder)
        /\ c.call = "add_data" => c.kind \in {"int", "float", "complex"}
    BY ONLY <1>1, <1>2, <1>3, ScriptCallsAssumption
  <2> QED
    BY <1>1, <1>3, <2>1, RankIs DEF Typed, InputCalls, Kinds
<1>5. /\ source' = Do(source, c).wrapper /\ fed' = FedAfter(c, Do(source, c))
  BY <1>1 DEF Made
<1>6. InputInv(source', fed')
  BY Zenon, <1>3, <1>4, <1>5, DoKeeps
<1> QED
  BY <1>2, <1>3, <1>6 DEF SourceInv

\* No step of the programs makes another job of it.
LEMMA JobStays == StatNext => job' = job
BY DEF StatNext, Push, Hashed, OpenShelf, ReadUntracked, Grow, Place, ReadAll, Trim, FillShelf,
       NoCorrelator, CorrelateFails, Correlate, MeanShelf, CutByLength, Average, NextTurn

LEMMA SourceKeeps ==
    ASSUME SourceInv, [ProgNext]_allVars
    PROVE  SourceInv'
<1>1. CASE FeedStep
  BY <1>1, FeedStepKeeps
<1>2. CASE ScriptStep
  BY <1>2, ScriptStepKeeps
<1>3. ASSUME UNCHANGED <<job, feedVars>>
      PROVE  SourceInv'
  BY <1>3 DEF SourceInv, feedVars
<1>4. CASE Fed
  BY <1>3, <1>4 DEF Fed
<1>5. CASE Compute
  BY <1>3, <1>5, JobStays DEF Compute
<1>6. CASE StartFiling \/ FileStep \/ FileFails
  BY <1>3, <1>6 DEF StartFiling, FileStep, FileFails
<1>7. CASE NoteStep \/ ReadGroupNotes \/ ReadDsetNotes
  <2>1. UNCHANGED <<job, source, fed, feed>>
    BY <1>7 DEF NoteStep, ReadGroupNotes, ReadDsetNotes
  <2> QED
    BY <2>1 DEF SourceInv
<1>8. CASE UNCHANGED allVars
  BY <1>3, <1>8 DEF allVars, statVars
<1> QED
  BY <1>1, <1>2, <1>4, <1>5, <1>6, <1>7, <1>8 DEF ProgNext

\* Whatever calls are made on a wrapper and however they end, and however often
\* it is set up anew: what it gives back for a type that is set up is what was
\* last added there, as that type or as one that an earlier setup has left in its
\* place.
THEOREM GivesBackAlways == ProgSpec => []GivesBack
<1>1. ProgInit => SourceInv
  BY SourceInitGood
<1>2. SourceInv /\ [ProgNext]_allVars => SourceInv'
  BY SourceKeeps
<1>3. SourceInv => GivesBack
  <2> SUFFICES ASSUME SourceInv, NEW e \in DOMAIN fed, e[1] \in source.types, e[1] # "zpos",
                      NEW i \in DOMAIN fed[e]
               PROVE  Gives(source, e[1], e[2], i) /\ ValueOf(source, e[1], e[2], i) = fed[e][i]
    BY DEF GivesBack
  <2>1. InVectors(source, e[1], e[2]) /\ ArrayAt(source, e[1], e[2]) = Holding(fed[e])
    BY DEF SourceInv, InputInv, Kept
  <2> QED
    BY <2>1 DEF Gives, ValueOf, Holding
<1> QED
  BY <1>1, <1>2, <1>3, PTL DEF ProgSpec

-----------------------------------------------------------------------------
(* The recursive function behind a fold                                       *)

\* g folds S by F from b, an element that pick takes out of what is left at a time.
IsFold(g, F, b, pick, S) ==
    g = [s \in SUBSET S |-> IF s = {} THEN b ELSE F[<<pick[s], g[s \ {pick[s]}]>>]]

Picks(pick, S) == \A s \in SUBSET S : s # {} => pick[s] \in s

\* Two folds by the same function agree.
LEMMA FoldsAgree ==
    ASSUME NEW S, NEW T, NEW g, NEW f, NEW F, NEW b, NEW pick, NEW U, IsFiniteSet(U),
           U \in SUBSET S, U \in SUBSET T, Picks(pick, U),
           IsFold(g, F, b, pick, S), IsFold(f, F, b, pick, T)
    PROVE  \A s \in SUBSET U : g[s] = f[s]
<1> DEFINE B == {s \in SUBSET U : g[s] # f[s]}
<1>1. \A s \in SUBSET U :
        /\ g[s] = IF s = {} THEN b ELSE F[<<pick[s], g[s \ {pick[s]}]>>]
        /\ f[s] = IF s = {} THEN b ELSE F[<<pick[s], f[s \ {pick[s]}]>>]
  BY DEF IsFold
<1>2. ASSUME B # {}
      PROVE  FALSE
  <2>1. PICK s \in B : \A u \in SUBSET s : u # s => u \notin B
    <3>1. B \in SUBSET SUBSET U
      OBVIOUS
    <3> HIDE DEF B
    <3> QED
      BY <1>2, <3>1, LeastSubset
  <2>2. s # {}
    BY <1>1
  <2>3. pick[s] \in s /\ s \ {pick[s]} \in SUBSET U
    BY <2>2 DEF Picks
  <2>4. g[s \ {pick[s]}] = f[s \ {pick[s]}]
    BY <2>1, <2>3
  <2> QED
    BY <2>2, <2>3, <2>4, <1>1
<1> QED
  BY <1>2

\* Every finite set can be folded.
LEMMA FoldMade ==
    ASSUME NEW S, IsFiniteSet(S), NEW F, NEW b, NEW pick, Picks(pick, S)
    PROVE  \E g : IsFold(g, F, b, pick, S)
<1> DEFINE B == {s \in SUBSET S : ~ \E g : IsFold(g, F, b, pick, s)}
<1> SUFFICES ASSUME B # {}
             PROVE  FALSE
  OBVIOUS
<1>1. PICK s \in B : IsFiniteSet(s) /\ \A u \in SUBSET s : u # s => u \notin B
  <2>1. B \in SUBSET SUBSET S
    OBVIOUS
  <2> HIDE DEF B
  <2> QED
    BY <2>1, LeastSubset
<1> DEFINE G(v) == CHOOSE g : IsFold(g, F, b, pick, v)
           Rest(u) == u \ {pick[u]}
           g0 == [u \in SUBSET s |-> IF u = {} THEN b ELSE F[<<pick[u], G(Rest(u))[Rest(u)]>>]]
<1>2. ASSUME NEW v \in SUBSET s, v # s
      PROVE  IsFold(G(v), F, b, pick, v) /\ IsFiniteSet(v) /\ Picks(pick, v)
  <2>1. v \notin B /\ v \in SUBSET S
    BY <1>1, <1>2
  <2>2. \E g : IsFold(g, F, b, pick, v)
    BY <2>1
  <2>3. IsFiniteSet(v) /\ Picks(pick, v)
    BY <1>1, <2>1, FS_Subset DEF Picks
  <2> QED
    BY <2>2, <2>3
<1>3. \A u \in SUBSET s : u # {} => pick[u] \in u /\ Rest(u) \in SUBSET u
                                    /\ Rest(u) \in SUBSET s /\ Rest(u) # s
  BY DEF Picks
<1>4. \A u \in SUBSET s :
        g0[u] = IF u = {} THEN b ELSE F[<<pick[u], G(Rest(u))[Rest(u)]>>]
  <2> HIDE DEF G, Rest
  <2> QED
    OBVIOUS
<1> HIDE DEF g0, G, Rest
<1>5. ASSUME NEW v \in SUBSET s, v # s
      PROVE  g0[v] = G(v)[v]
  <2>1. IsFold(G(v), F, b, pick, v) /\ IsFiniteSet(v)
    BY <1>2, <1>5
  <2>2. G(v)[v] = IF v = {} THEN b ELSE F[<<pick[v], G(v)[Rest(v)]>>]
    BY <2>1 DEF IsFold, Rest
  <2>3. ASSUME v # {}
        PROVE  G(v)[Rest(v)] = G(Rest(v))[Rest(v)]
    <3>1. Rest(v) \in SUBSET v /\ Rest(v) \in SUBSET s /\ Rest(v) # s
      BY <1>3, <2>3
    <3>2. IsFold(G(Rest(v)), F, b, pick, Rest(v)) /\ IsFiniteSet(Rest(v)) /\ Picks(pick, Rest(v))
      BY <3>1, <1>2
    <3>3. Rest(v) \in SUBSET Rest(v)
      OBVIOUS
    <3> QED
      BY <2>1, <3>1, <3>2, <3>3, FoldsAgree
  <2> QED
    BY <2>2, <2>3, <1>4
<1>6. IsFold(g0, F, b, pick, s)
  <2>1. \A u \in SUBSET s : g0[u] = IF u = {} THEN b ELSE F[<<pick[u], g0[Rest(u)]>>]
    BY <1>3, <1>4, <1>5
  <2>2. g0 = [u \in SUBSET s |-> g0[u]]
    BY DEF g0
  <2> QED
    BY <2>1, <2>2 DEF IsFold, Rest
<1> QED
  BY <1>6

\* What holds of nothing, and of a set when it holds of the set without some
\* element, holds of every finite set.
LEMMA FoldStays ==
    ASSUME NEW S, IsFiniteSet(S), NEW g, NEW W, g[{}] \in W[{}],
           \A s \in SUBSET S : s # {} => \E x \in s : g[s \ {x}] \in W[s \ {x}] => g[s] \in W[s]
    PROVE  \A s \in SUBSET S : g[s] \in W[s]
<1> DEFINE B == {s \in SUBSET S : g[s] \notin W[s]}
<1>1. ASSUME B # {}
      PROVE  FALSE
  <2>1. PICK s \in B : \A u \in SUBSET s : u # s => u \notin B
    <3>1. B \in SUBSET SUBSET S
      OBVIOUS
    <3> HIDE DEF B
    <3> QED
      BY <1>1, <3>1, LeastSubset
  <2>2. s # {}
    OBVIOUS
  <2>3. PICK x \in s : g[s \ {x}] \in W[s \ {x}] => g[s] \in W[s]
    BY <2>2
  <2>4. s \ {x} \in SUBSET s /\ s \ {x} # s
    OBVIOUS
  <2> QED
    BY <2>1, <2>3, <2>4
<1> QED
  BY <1>1

\* A fold by a function that keeps its values in V.
LEMMA FoldExists ==
    ASSUME NEW S, IsFiniteSet(S), NEW F, NEW V, NEW b \in V, NEW pick, Picks(pick, S),
           \A x \in S : \A v \in V : F[<<x, v>>] \in V
    PROVE  \E g : IsFold(g, F, b, pick, S) /\ \A s \in SUBSET S : g[s] \in V
<1>1. PICK g : IsFold(g, F, b, pick, S)
  BY FoldMade
<1>2. \A s \in SUBSET S : g[s] = IF s = {} THEN b ELSE F[<<pick[s], g[s \ {pick[s]}]>>]
  BY <1>1 DEF IsFold
<1> DEFINE W == [s \in SUBSET S |-> V]
<1>3. g[{}] \in W[{}]
  <2>1. {} \in SUBSET S
    OBVIOUS
  <2> QED
    BY <1>2, <2>1
<1>4. \A s \in SUBSET S : s # {} => \E x \in s : g[s \ {x}] \in W[s \ {x}] => g[s] \in W[s]
  <2> TAKE s \in SUBSET S
  <2> HAVE s # {}
  <2>1. pick[s] \in s /\ s \ {pick[s]} \in SUBSET S /\ pick[s] \in S
    BY DEF Picks
  <2>2. g[s \ {pick[s]}] \in V => g[s] \in V
    BY <2>1, <1>2
  <2> QED
    BY <2>1, <2>2
<1> HIDE DEF W
<1>5. \A s \in SUBSET S : g[s] \in W[s]
  BY <1>3, <1>4, FoldStays
<1> QED
  BY <1>1, <1>5 DEF W

\* The greatest of some numbers up to n.
LEMMA GreatestIn ==
    ASSUME NEW n \in Nat, NEW s \in SUBSET (1 .. n), s # {}
    PROVE  Max(s) \in s
<1> DEFINE T == {n - x : x \in s}
<1>0. \A x \in s : n - x \in Nat
  OBVIOUS
<1>1. T \in SUBSET Nat /\ T # {}
  BY <1>0
<1> HIDE DEF T
<1>2. PICK m \in T : \A k \in T : m <= k
  BY <1>1, LeastNatural
<1>3. PICK x \in s : m = n - x
  BY DEF T
<1>4. \A y \in s : x >= y
  <2> TAKE y \in s
  <2>1. n - y \in T
    BY DEF T
  <2>2. x \in Int /\ y \in Int
    OBVIOUS
  <2> QED
    BY <2>1, <2>2, <1>2, <1>3
<1> QED
  BY <1>4 DEF Max

-----------------------------------------------------------------------------
(* Attributes                                                                 *)

\* The attributes b are a with more of them.
Grown(a, b) == \A k \in DOMAIN a : k \in DOMAIN b /\ a[k] = b[k]

\* What the attributes a have become are theirs or elements with a name.
GrownBy(a, b, elems) ==
    \A k \in DOMAIN b :
        \/ k \in DOMAIN a /\ a[k] = b[k]
        \/ \E e \in ToSet(elems) :
              e.key = k /\ Named(e) /\ b[k] = [type |-> e.type, val |-> e.val]

\* The attributes say what e says.
Settled(a, e) ==
    Named(e) => /\ e.key \in DOMAIN a
                /\ TypeClass(a[e.key].type) = TypeClass(e.type)
                /\ a[e.key].val = e.val

\* One turn of the loop of add_meta_data.
OneAttr(r, e, types, anew) ==
    LET known == IF anew THEN DOMAIN r.attrs ELSE r.keys
        ends == HowSetEnds(r.attrs, known, e, types)
    IN  IF r.ends # "returns" THEN r
        ELSE IF ends # "returns" THEN [r EXCEPT !.ends = ends]
        ELSE [r EXCEPT !.attrs = SetValue(@, known, e), !.keys = KnownAfter(@, e)]

\* Where the loop is with the elements at the places s.
AttrsAtPlaces(r, attrs, keys, elems, anew, s) ==
    /\ Grown(attrs, r.attrs) /\ GrownBy(attrs, r.attrs, elems)
    /\ ~anew /\ keys \subseteq DOMAIN attrs => r.keys \subseteq DOMAIN r.attrs
    /\ r.ends = "returns" /\ (anew \/ keys \subseteq DOMAIN attrs) =>
          \A i \in s : Settled(r.attrs, elems[i])

LEMMA GrownOn ==
    ASSUME NEW a, NEW b, NEW c, Grown(a, b), Grown(b, c)
    PROVE  Grown(a, c)
BY DEF Grown

LEMMA SettledOn ==
    ASSUME NEW a, NEW b, NEW e, Grown(a, b), Settled(a, e)
    PROVE  Settled(b, e)
BY DEF Grown, Settled

LEMMA WithIs ==
    ASSUME NEW f, NEW k, NEW v
    PROVE  /\ DOMAIN With(f, k, v) = DOMAIN f \cup {k}
           /\ With(f, k, v)[k] = v
           /\ \A e \in DOMAIN f : e # k => With(f, k, v)[e] = f[e]
BY DEF With

LEMMA SetValueIs ==
    ASSUME NEW attrs, NEW known, NEW e, NEW key, key = e.key
    PROVE  /\ key \notin known /\ Named(e) =>
                 /\ DOMAIN SetValue(attrs, known, e) = DOMAIN attrs \cup {key}
                 /\ SetValue(attrs, known, e)[key] = [type |-> e.type, val |-> e.val]
                 /\ \A k \in DOMAIN attrs : k # key => SetValue(attrs, known, e)[k] = attrs[k]
           /\ ~(key \notin known /\ Named(e)) => SetValue(attrs, known, e) = attrs
<1>1. PICK v : v = [type |-> e.type, val |-> e.val]
  OBVIOUS
<1>2. /\ DOMAIN With(attrs, key, v) = DOMAIN attrs \cup {key}
      /\ With(attrs, key, v)[key] = v
      /\ \A k \in DOMAIN attrs : k # key => With(attrs, key, v)[k] = attrs[k]
  BY DEF With
<1>3. SetValue(attrs, known, e) =
         IF key \notin known /\ Named(e) THEN With(attrs, key, v) ELSE attrs
  BY <1>1 DEF SetValue
<1>4. CASE key \notin known /\ Named(e)
  <2>1. SetValue(attrs, known, e) = With(attrs, key, v)
    BY <1>3, <1>4
  <2> QED
    BY <1>1, <1>2, <1>4, <2>1
<1>5. CASE ~(key \notin known /\ Named(e))
  BY <1>3, <1>5
<1> QED
  BY <1>4, <1>5

LEMMA OneAttrDoes ==
    ASSUME NEW attrs, NEW keys, NEW elems, NEW types, NEW anew \in BOOLEAN,
           NEW s, NEW x \in s, elems[x] \in ToSet(elems),
           NEW r, DOMAIN r = {"attrs", "keys", "ends"},
           AttrsAtPlaces(r, attrs, keys, elems, anew, s \ {x})
    PROVE  AttrsAtPlaces(OneAttr(r, elems[x], types, anew), attrs, keys, elems, anew, s)
<1> DEFINE e == elems[x]
           known == IF anew THEN DOMAIN r.attrs ELSE r.keys
           ends == HowSetEnds(r.attrs, known, e, types)
           v == OneAttr(r, e, types, anew)
           a2 == SetValue(r.attrs, known, e)
<1>1. CASE r.ends # "returns"
  <2>1. v = r
    BY <1>1 DEF OneAttr
  <2> QED
    BY <1>1, <2>1 DEF AttrsAtPlaces
<1>2. CASE r.ends = "returns" /\ ends # "returns"
  <2>1. v = [r EXCEPT !.ends = ends]
    BY <1>2 DEF OneAttr
  <2> HIDE DEF ends
  <2>2. v.attrs = r.attrs /\ v.keys = r.keys /\ v.ends # "returns"
    BY <1>2, <2>1
  <2> QED
    BY <2>2 DEF AttrsAtPlaces
<1>3. CASE r.ends = "returns" /\ ends = "returns"
  <2>1. v = [r EXCEPT !.attrs = SetValue(@, known, e), !.keys = KnownAfter(@, e)]
    BY <1>3 DEF OneAttr
  <2>2. v.attrs = a2 /\ v.keys = KnownAfter(r.keys, e) /\ v.ends = "returns"
    <3> HIDE DEF known, e
    <3> QED
      BY <1>3, <2>1
  <2>3. CanSet(r.attrs, known, e)
    <3> HIDE DEF known, e
    <3> QED
      BY <1>3 DEF HowSetEnds
  <2>0. /\ e.key \notin known /\ Named(e) =>
              /\ DOMAIN a2 = DOMAIN r.attrs \cup {e.key}
              /\ a2[e.key] = [type |-> e.type, val |-> e.val]
              /\ \A k \in DOMAIN r.attrs : k # e.key => a2[k] = r.attrs[k]
        /\ ~(e.key \notin known /\ Named(e)) => a2 = r.attrs
    <3>1. PICK key, a, kn, d : key = e.key /\ a = r.attrs /\ kn = known /\ d = e
      OBVIOUS
    <3>2. key = d.key
      BY <3>1
    <3>3. /\ key \notin kn /\ Named(d) =>
                /\ DOMAIN SetValue(a, kn, d) = DOMAIN a \cup {key}
                /\ SetValue(a, kn, d)[key] = [type |-> d.type, val |-> d.val]
                /\ \A k \in DOMAIN a : k # key => SetValue(a, kn, d)[k] = a[k]
          /\ ~(key \notin kn /\ Named(d)) => SetValue(a, kn, d) = a
      BY <3>2, SetValueIs
    <3>4. a2 = SetValue(a, kn, d)
      BY <3>1
    <3> HIDE DEF a2, e, known
    <3> QED
      BY <3>1, <3>3, <3>4
  <2> HIDE DEF v
  <2>4. Grown(r.attrs, a2)
    <3> HIDE DEF known, e
    <3>1. CASE e.key \notin known /\ Named(e)
      <4>1. e.key \notin DOMAIN r.attrs
        BY <2>3, <3>1 DEF CanSet
      <4> QED
        BY <3>1, <4>1, <2>0 DEF Grown
    <3>2. CASE ~(e.key \notin known /\ Named(e))
      BY <3>2 DEF SetValue, Grown
    <3> QED
      BY <3>1, <3>2
  <2>5. GrownBy(attrs, a2, elems)
    <3>1. GrownBy(attrs, r.attrs, elems)
      BY DEF AttrsAtPlaces
    <3>2. e \in ToSet(elems)
      OBVIOUS
    <3> HIDE DEF known, e
    <3>3. CASE e.key \notin known /\ Named(e)
      <4>1. /\ DOMAIN a2 = DOMAIN r.attrs \cup {e.key}
            /\ a2[e.key] = [type |-> e.type, val |-> e.val]
            /\ \A k \in DOMAIN r.attrs : k # e.key => a2[k] = r.attrs[k]
        BY <3>3, <2>0
      <4> HIDE DEF a2
      <4> QED
        BY <3>1, <3>2, <3>3, <4>1 DEF GrownBy
    <3>4. CASE ~(e.key \notin known /\ Named(e))
      BY <3>1, <3>4 DEF SetValue
    <3> QED
      BY <3>3, <3>4
  <2>6. Grown(attrs, a2)
    <3> HIDE DEF a2
    <3> QED
      BY <2>4, GrownOn DEF AttrsAtPlaces
  <2>7. ASSUME ~anew, keys \subseteq DOMAIN attrs
        PROVE  v.keys \subseteq DOMAIN a2
    <3>1. r.keys \subseteq DOMAIN r.attrs /\ known = r.keys
      BY <2>7 DEF AttrsAtPlaces
    <3>2. DOMAIN r.attrs \subseteq DOMAIN a2
      <4> HIDE DEF a2
      <4> QED
        BY <2>4 DEF Grown
    <3>3. Named(e) => e.key \in DOMAIN a2
      <4> HIDE DEF known, e
      <4>1. CASE e.key \in known
        BY <4>1, <3>1, <3>2
      <4>2. CASE e.key \notin known
        BY <4>2, <2>0
      <4> QED
        BY <4>1, <4>2
    <3> HIDE DEF a2, e, known
    <3> QED
      BY <3>1, <3>2, <3>3, <2>2 DEF KnownAfter
  <2>8. ASSUME anew \/ keys \subseteq DOMAIN attrs
        PROVE  \A i \in s : Settled(a2, elems[i])
    <3>1. \A i \in s \ {x} : Settled(a2, elems[i])
      <4> HIDE DEF a2
      <4> QED
        BY <1>3, <2>4, <2>8, SettledOn DEF AttrsAtPlaces
    <3>2. known \subseteq DOMAIN r.attrs
      BY <2>8 DEF AttrsAtPlaces
    <3>3. Settled(a2, e)
      <4> HIDE DEF known, e
      <4>1. CASE e.key \in known
        <5>1. Settled(r.attrs, e)
          BY <2>3, <3>2, <4>1 DEF CanSet, Settled
        <5> HIDE DEF a2
        <5> QED
          BY <5>1, <2>4, SettledOn
      <4>2. CASE e.key \notin known
        <5>1. Named(e) => e.key \in DOMAIN a2 /\ a2[e.key] = [type |-> e.type, val |-> e.val]
          BY <4>2, <2>0
        <5> HIDE DEF a2
        <5> QED
          BY <5>1 DEF Settled
      <4> QED
        BY <4>1, <4>2
    <3> HIDE DEF a2
    <3> QED
      BY <3>1, <3>3
  <2> HIDE DEF a2
  <2> QED
    BY <2>2, <2>5, <2>6, <2>7, <2>8 DEF AttrsAtPlaces, v
<1> QED
  BY <1>1, <1>2, <1>3

\* The values that the loop goes through.
AttrsRun(attrs, keys, elems) ==
    LET K == DOMAIN attrs \cup {e.key : e \in ToSet(elems)}
        U == {attrs[k] : k \in DOMAIN attrs} \cup {[type |-> e.type, val |-> e.val] : e \in ToSet(elems)}
    IN  [attrs : {attrs} \cup UNION {[D -> U] : D \in SUBSET K},
         keys : SUBSET (keys \cup K),
         ends : {"returns", "thrown", "hdf5"}]

LEMMA OneAttrStays ==
    ASSUME NEW attrs, NEW keys, NEW elems, NEW types, NEW anew,
           NEW e \in ToSet(elems), NEW r \in AttrsRun(attrs, keys, elems)
    PROVE  OneAttr(r, e, types, anew) \in AttrsRun(attrs, keys, elems)
<1> DEFINE K == DOMAIN attrs \cup {d.key : d \in ToSet(elems)}
           U == {attrs[k] : k \in DOMAIN attrs} \cup {[type |-> d.type, val |-> d.val] : d \in ToSet(elems)}
           A == {attrs} \cup UNION {[D -> U] : D \in SUBSET K}
           Q == SUBSET (keys \cup K)
           known == IF anew THEN DOMAIN r.attrs ELSE r.keys
           ends == HowSetEnds(r.attrs, known, e, types)
           v == OneAttr(r, e, types, anew)
           a2 == SetValue(r.attrs, known, e)
           k2 == KnownAfter(r.keys, e)
<1>1. AttrsRun(attrs, keys, elems) = [attrs : A, keys : Q, ends : {"returns", "thrown", "hdf5"}]
  BY DEF AttrsRun
<1>2. e.key \in K /\ [type |-> e.type, val |-> e.val] \in U
  OBVIOUS
<1>3. \A a \in A : DOMAIN a \in SUBSET K /\ \A k \in DOMAIN a : a[k] \in U
  OBVIOUS
<1> HIDE DEF K, U
<1>4. r.attrs \in A /\ r.keys \in Q /\ r = [attrs |-> r.attrs, keys |-> r.keys, ends |-> r.ends]
      /\ r.ends \in {"returns", "thrown", "hdf5"}
  <2> HIDE DEF A, Q
  <2> QED
    BY <1>1
<1>5. a2 \in A
  <2>1. CASE e.key \notin known /\ Named(e)
    <3> DEFINE x == [type |-> e.type, val |-> e.val]
    <3>1. a2 = With(r.attrs, e.key, x)
      BY <2>1 DEF SetValue
    <3> HIDE DEF known, x, A
    <3>2. \A k \in DOMAIN r.attrs \cup {e.key} : (IF k = e.key THEN x ELSE r.attrs[k]) \in U
      BY <1>2, <1>3, <1>4 DEF x
    <3>3. DOMAIN r.attrs \cup {e.key} \in SUBSET K
      BY <1>2, <1>3, <1>4
    <3>4. With(r.attrs, e.key, x) \in [DOMAIN r.attrs \cup {e.key} -> U]
      BY <3>2 DEF With
    <3> QED
      BY <3>1, <3>3, <3>4 DEF A
  <2>2. CASE ~(e.key \notin known /\ Named(e))
    <3> HIDE DEF A
    <3> QED
      BY <2>2, <1>4 DEF SetValue
  <2> QED
    BY <2>1, <2>2
<1>6. k2 \in Q
  BY <1>2, <1>4 DEF KnownAfter
<1>7. ends \in {"returns", "thrown", "hdf5"}
  BY DEF HowSetEnds
<1>8. v = IF r.ends # "returns" THEN r
          ELSE IF ends # "returns" THEN [r EXCEPT !.ends = ends]
          ELSE [r EXCEPT !.attrs = a2, !.keys = k2]
  BY DEF OneAttr
<1> HIDE DEF A, Q, ends, a2, k2, known, v
<1>9. CASE r.ends # "returns"
  BY <1>8, <1>9 DEF v
<1>10. CASE r.ends = "returns" /\ ends # "returns"
  <2>1. v = [attrs |-> r.attrs, keys |-> r.keys, ends |-> ends]
    BY <1>4, <1>8, <1>10
  <2> QED
    BY <2>1, <1>1, <1>4, <1>7 DEF v
<1>11. CASE r.ends = "returns" /\ ends = "returns"
  <2>1. v = [attrs |-> a2, keys |-> k2, ends |-> r.ends]
    BY <1>4, <1>8, <1>11
  <2> QED
    BY <2>1, <1>1, <1>4, <1>5, <1>6 DEF v
<1> QED
  BY <1>9, <1>10, <1>11

\* What add_meta_data leaves of an attribute list: nothing that was there is
\* changed, and when it returns every element is said.
LEMMA AttrsWithDoes ==
    ASSUME NEW attrs, NEW keys, NEW elems, IsSeq(elems), NEW types, NEW anew \in BOOLEAN
    PROVE  LET r == AttrsWith(attrs, keys, elems, types, anew)
           IN  /\ r \in AttrsRun(attrs, keys, elems)
               /\ AttrsAtPlaces(r, attrs, keys, elems, anew, DOMAIN elems)
<1> DEFINE base == [attrs |-> attrs, keys |-> keys, ends |-> "returns"]
           S == DOMAIN elems
           V == AttrsRun(attrs, keys, elems)
           pick == [s \in SUBSET S |-> Max(s)]
           F == [xv \in S \X V |-> OneAttr(xv[2], elems[xv[1]], types, anew)]
           Body(g) == [s \in SUBSET S |->
                          IF s = {} THEN base
                          ELSE OneAttr(g[s \ {Max(s)}], elems[Max(s)], types, anew)]
           it == CHOOSE g : g = Body(g)
<1>1. Len(elems) \in Nat /\ S = 1 .. Len(elems) /\ \A x \in S : elems[x] \in ToSet(elems)
  BY DEF IsSeq, ToSet
<1>2. IsFiniteSet(S)
  BY <1>1, FS_Interval
<1>3. \A s \in SUBSET S : s # {} => Max(s) \in s /\ Max(s) \in S /\ s \ {Max(s)} \in SUBSET S
  <2> TAKE s \in SUBSET S
  <2> HAVE s # {}
  <2>1. Max(s) \in s
    BY <1>1, GreatestIn
  <2> QED
    BY <2>1
<1>4. Picks(pick, S)
  BY <1>3 DEF Picks
<1>5. base \in V /\ DOMAIN base = {"attrs", "keys", "ends"}
  BY DEF AttrsRun
<1>6. \A x \in S : \A v \in V :
         F[<<x, v>>] = OneAttr(v, elems[x], types, anew) /\ F[<<x, v>>] \in V
  <2> TAKE x \in S
  <2> TAKE v \in V
  <2>1. OneAttr(v, elems[x], types, anew) \in V
    <3> HIDE DEF S
    <3> QED
      BY <1>1, OneAttrStays
  <2>2. F[<<x, v>>] = OneAttr(v, elems[x], types, anew)
    <3> HIDE DEF S, V
    <3> QED
      OBVIOUS
  <2> HIDE DEF F, V, S
  <2> QED
    BY <2>1, <2>2
<1> HIDE DEF F, V, S
<1>7. PICK g : IsFold(g, F, base, pick, S) /\ \A s \in SUBSET S : g[s] \in V
  <2>1. base \in V
    BY <1>5
  <2> HIDE DEF base, pick
  <2>2. \A x \in S : \A v \in V : F[<<x, v>>] \in V
    BY <1>6
  <2> QED
    BY <1>2, <1>4, <2>1, <2>2, FoldExists
<1>8. g = Body(g)
  <2>1. g = [s \in SUBSET S |-> IF s = {} THEN base ELSE F[<<pick[s], g[s \ {pick[s]}]>>]]
    BY <1>7 DEF IsFold
  <2>2. \A s \in SUBSET S : s # {} =>
           F[<<pick[s], g[s \ {pick[s]}]>>] = OneAttr(g[s \ {Max(s)}], elems[Max(s)], types, anew)
    BY <1>3, <1>6, <1>7
  <2> HIDE DEF base, pick
  <2> QED
    BY <2>1, <2>2
<1>9. it = Body(it)
  <2> HIDE DEF Body
  <2> QED
    BY <1>8
<1>10. AttrsWith(attrs, keys, elems, types, anew) = it[S]
  BY DEF AttrsWith, FoldLeft, MapThenFoldSet, OneAttr, S
<1> HIDE DEF it
<1>11. \A s \in SUBSET S : it[s] = IF s = {} THEN base
                                   ELSE OneAttr(it[s \ {Max(s)}], elems[Max(s)], types, anew)
  <2> HIDE DEF base
  <2> QED
    BY <1>9
<1> DEFINE W == [s \in SUBSET S |-> {r \in V : AttrsAtPlaces(r, attrs, keys, elems, anew, s)}]
<1>12. it[{}] \in W[{}]
  <2>1. it[{}] = base
    BY <1>11
  <2>2. AttrsAtPlaces(base, attrs, keys, elems, anew, {})
    BY DEF AttrsAtPlaces, Grown, GrownBy
  <2> HIDE DEF base
  <2> QED
    BY <2>1, <2>2, <1>5
<1>13. \A s \in SUBSET S : s # {} => \E x \in s : it[s \ {x}] \in W[s \ {x}] => it[s] \in W[s]
  <2> TAKE s \in SUBSET S
  <2> HAVE s # {}
  <2> DEFINE x == Max(s)
             r == it[s \ {x}]
  <2>1. x \in s /\ x \in S /\ s \ {x} \in SUBSET S
    BY <1>3
  <2>2. it[s] = OneAttr(r, elems[x], types, anew)
    BY <1>11
  <2> HIDE DEF x, r
  <2>3. ASSUME r \in V, AttrsAtPlaces(r, attrs, keys, elems, anew, s \ {x})
        PROVE  /\ OneAttr(r, elems[x], types, anew) \in V
               /\ AttrsAtPlaces(OneAttr(r, elems[x], types, anew), attrs, keys, elems, anew, s)
    <3>1. elems[x] \in ToSet(elems)
      BY <2>1, <1>1
    <3>2. DOMAIN r = {"attrs", "keys", "ends"}
      BY <2>3 DEF V, AttrsRun
    <3>3. OneAttr(r, elems[x], types, anew) \in V
      BY <2>3, <3>1, OneAttrStays DEF V
    <3> QED
      BY <2>1, <2>3, <3>1, <3>2, <3>3, OneAttrDoes
  <2>4. r \in W[s \ {x}] => it[s] \in W[s]
    BY <2>1, <2>2, <2>3
  <2> QED
    BY <2>1, <2>4 DEF r
<1> HIDE DEF W
<1>14. \A s \in SUBSET S : it[s] \in W[s]
  BY <1>2, <1>12, <1>13, FoldStays
<1>15. it[S] \in V /\ AttrsAtPlaces(it[S], attrs, keys, elems, anew, S)
  BY <1>14 DEF W
<1> QED
  BY <1>10, <1>15 DEF V, S

-----------------------------------------------------------------------------
(* A results file that only grows                                             *)

LEMMA KeysFinite ==
    ASSUME NEW elems, IsSeq(elems)
    PROVE  IsFiniteSet({e.key : e \in ToSet(elems)})
<1> DEFINE E == {e.key : e \in ToSet(elems)}
           I == 1 .. Len(elems)
           H == [i \in I |-> elems[i].key]
<1>1. Len(elems) \in Nat /\ DOMAIN elems = I
  BY DEF IsSeq
<1>2. H \in Surjection(I, E)
  BY <1>1 DEF Surjection, ToSet
<1>3. IsFiniteSet(I)
  BY <1>1, FS_Interval
<1> HIDE DEF I, H, E
<1>4. IsFiniteSet(E)
  BY <1>2, <1>3, FS_Surjection
<1> QED
  BY <1>4 DEF E

\* An attribute list as add_meta_data leaves it.
LEMMA AttrsOnlyGrow ==
    ASSUME NEW attrs, IsFiniteSet(DOMAIN attrs), NEW keys, NEW elems, IsSeq(elems), NEW types,
           NEW anew \in BOOLEAN
    PROVE  LET r == AttrsWith(attrs, keys, elems, types, anew)
           IN  /\ Grown(attrs, r.attrs) /\ IsFiniteSet(DOMAIN r.attrs)
               /\ ~anew /\ keys \subseteq DOMAIN attrs => r.keys \subseteq DOMAIN r.attrs
<1>1. PICK r : r = AttrsWith(attrs, keys, elems, types, anew)
  OBVIOUS
<1>2. r \in AttrsRun(attrs, keys, elems) /\ AttrsAtPlaces(r, attrs, keys, elems, anew, DOMAIN elems)
  BY <1>1, AttrsWithDoes
<1> DEFINE E == {e.key : e \in ToSet(elems)}
           K == DOMAIN attrs \cup E
<1>4. IsFiniteSet(E)
  BY KeysFinite
<1>5. IsFiniteSet(K)
  <2> HIDE DEF E
  <2> QED
    BY <1>4, FS_Union
<1>6. DOMAIN r.attrs \in SUBSET K
  BY <1>2 DEF AttrsRun
<1>7. IsFiniteSet(DOMAIN r.attrs)
  <2> HIDE DEF K
  <2> QED
    BY <1>5, <1>6, FS_Subset
<1> QED
  BY <1>1, <1>2, <1>7 DEF AttrsAtPlaces

DsetOk(d) == d = [type |-> d.type, vals |-> d.vals, attrs |-> d.attrs] /\ IsFiniteSet(DOMAIN d.attrs)

GroupOk(g) ==
    /\ g = [attrs |-> g.attrs, dsets |-> g.dsets] /\ IsFiniteSet(DOMAIN g.attrs)
    /\ \A n \in DOMAIN g.dsets : DsetOk(g.dsets[n])

FileOk(f) == <<>> \in DOMAIN f /\ \A path \in DOMAIN f : GroupOk(f[path])

\* A wrapper knows attributes of the group it is in.
ResultsOk(w) ==
    /\ DOMAIN w = {"open", "at", "keys", "file"}
    /\ FileOk(w.file) /\ w.at \in DOMAIN w.file
    /\ w.keys \subseteq DOMAIN w.file[w.at].attrs

DsetGrown(d, e) == d.type = e.type /\ d.vals = e.vals /\ Grown(d.attrs, e.attrs)

GroupGrown(g, h) ==
    /\ Grown(g.attrs, h.attrs)
    /\ \A n \in DOMAIN g.dsets : n \in DOMAIN h.dsets /\ DsetGrown(g.dsets[n], h.dsets[n])

Keeps(f, g) == \A path \in DOMAIN f : path \in DOMAIN g /\ GroupGrown(f[path], g[path])

LEMMA KeepsItself ==
    ASSUME NEW f
    PROVE  Keeps(f, f)
BY DEF Keeps, GroupGrown, DsetGrown, Grown

LEMMA GroupGrownOn ==
    ASSUME NEW a, NEW b, NEW c, GroupGrown(a, b), GroupGrown(b, c)
    PROVE  GroupGrown(a, c)
<1>1. Grown(a.attrs, c.attrs)
  BY DEF GroupGrown, Grown
<1>2. ASSUME NEW n \in DOMAIN a.dsets
      PROVE  n \in DOMAIN c.dsets /\ DsetGrown(a.dsets[n], c.dsets[n])
  <2>1. n \in DOMAIN b.dsets /\ DsetGrown(a.dsets[n], b.dsets[n])
    BY DEF GroupGrown
  <2>2. n \in DOMAIN c.dsets /\ DsetGrown(b.dsets[n], c.dsets[n])
    BY <2>1 DEF GroupGrown
  <2> QED
    BY <2>1, <2>2 DEF DsetGrown, Grown
<1> QED
  BY <1>1, <1>2 DEF GroupGrown

LEMMA KeepsOn ==
    ASSUME NEW f, NEW g, NEW h, Keeps(f, g), Keeps(g, h)
    PROVE  Keeps(f, h)
<1> SUFFICES ASSUME NEW path \in DOMAIN f
             PROVE  path \in DOMAIN h /\ GroupGrown(f[path], h[path])
  BY DEF Keeps
<1>1. path \in DOMAIN g /\ GroupGrown(f[path], g[path])
  BY DEF Keeps
<1>2. path \in DOMAIN h /\ GroupGrown(g[path], h[path])
  BY <1>1 DEF Keeps
<1> QED
  BY <1>1, <1>2, GroupGrownOn

\* A file in which one group has grown.
LEMMA OneGroupGrown ==
    ASSUME NEW f, FileOk(f), NEW at \in DOMAIN f, NEW g, GroupOk(g), GroupGrown(f[at], g)
    PROVE  LET h == [f EXCEPT ![at] = g]
           IN  FileOk(h) /\ Keeps(f, h) /\ DOMAIN h = DOMAIN f /\ h[at] = g
<1>1. PICK h : h = [f EXCEPT ![at] = g]
  OBVIOUS
<1>2. DOMAIN h = DOMAIN f /\ h[at] = g /\ \A path \in DOMAIN f : path # at => h[path] = f[path]
  BY <1>1
<1>3. FileOk(h)
  BY <1>2 DEF FileOk
<1>4. ASSUME NEW path \in DOMAIN f
      PROVE  GroupGrown(f[path], h[path])
  <2>1. CASE path = at
    BY <2>1, <1>2
  <2>2. CASE path # at
    <3>1. h[path] = f[path]
      BY <2>2, <1>2
    <3> QED
      BY <3>1, KeepsItself DEF Keeps
  <2> QED
    BY <2>1, <2>2
<1>5. Keeps(f, h)
  BY <1>2, <1>4 DEF Keeps
<1> QED
  BY <1>1, <1>2, <1>3, <1>5

CallKinds == {"open_wrapper", "close_wrapper", "open_group", "close_group", "add_dset",
              "add_meta_data", "add_dset_meta_data"}

GoodCall(c) ==
    /\ c.call \in CallKinds
    /\ c.call \in {"add_meta_data", "add_dset_meta_data"} => IsSeq(c.elems)

\* What holds of a wrapper before and after a call.
Goes(w, v) == ResultsOk(v) /\ Keeps(w.file, v.file)

LEMMA AddMetaDataGoes ==
    ASSUME NEW w, ResultsOk(w), NEW elems, IsSeq(elems)
    PROVE  Goes(w, AddMetaData(w, elems))
<1>1. CASE w.at = <<>>
  BY <1>1, KeepsItself DEF AddMetaData, Goes
<1>2. CASE w.at # <<>>
  <2>1. PICK a, f, r, as, ks : /\ a = w.at /\ f = w.file /\ as = f[a].attrs /\ ks = w.keys
                               /\ r = AttrsWith(as, ks, elems, SingleTypes, FALSE)
    OBVIOUS
  <2>2. /\ a \in DOMAIN f /\ FileOk(f) /\ GroupOk(f[a]) /\ IsFiniteSet(DOMAIN as)
        /\ ks \subseteq DOMAIN as
    BY <2>1 DEF ResultsOk, FileOk, GroupOk
  <2>3. Grown(as, r.attrs) /\ IsFiniteSet(DOMAIN r.attrs) /\ r.keys \subseteq DOMAIN r.attrs
    BY <2>1, <2>2, AttrsOnlyGrow
  <2>4. PICK g : g = [attrs |-> r.attrs, dsets |-> f[a].dsets]
    OBVIOUS
  <2>5. GroupOk(g)
    BY Zenon, <2>2, <2>3, <2>4 DEF GroupOk
  <2>6. GroupGrown(f[a], g)
    BY Zenon, <2>1, <2>3, <2>4 DEF GroupGrown, DsetGrown, Grown
  <2>7. PICK h : h = [f EXCEPT ![a] = g]
    OBVIOUS
  <2>8. FileOk(h) /\ Keeps(f, h) /\ DOMAIN h = DOMAIN f /\ h[a] = g
    BY <2>2, <2>5, <2>6, <2>7, OneGroupGrown
  <2>9. PICK v : v = AddMetaData(w, elems)
    OBVIOUS
  <2>10. r = InGroup(w, elems)
    BY <2>1 DEF InGroup
  <2>11. v = [w EXCEPT !.file[w.at].attrs = r.attrs, !.keys = r.keys]
    BY <1>2, <2>9, <2>10 DEF AddMetaData
  <2>12. [f[a] EXCEPT !.attrs = r.attrs] = g
    BY <2>2, <2>4 DEF GroupOk
  <2>13. [w.file EXCEPT ![w.at].attrs = r.attrs] = h
    BY <2>1, <2>7, <2>12
  <2>14. /\ DOMAIN v = {"open", "at", "keys", "file"} /\ v.at = a /\ v.keys = r.keys /\ v.file = h
    BY <2>1, <2>11, <2>13 DEF ResultsOk
  <2>15. ResultsOk(v)
    BY <2>2, <2>3, <2>4, <2>8, <2>14 DEF ResultsOk
  <2> QED
    BY <2>1, <2>8, <2>9, <2>14, <2>15 DEF Goes
<1> QED
  BY <1>1, <1>2

\* A data set with more attributes.
LEMMA AddDsetMetaDataGoes ==
    ASSUME NEW w, ResultsOk(w), NEW d, NEW elems, IsSeq(elems), NEW types
    PROVE  Goes(w, AddDsetMetaData(w, d, elems, types))
<1>1. CASE ~CanFindDset(w, d)
  BY <1>1, KeepsItself DEF AddDsetMetaData, Goes
<1>2. CASE CanFindDset(w, d)
  <2>1. PICK a, n, f, ds, as, r :
           /\ a = DsetAt(w, d) /\ n = d.name /\ f = w.file /\ ds = f[a].dsets /\ as = ds[n].attrs
           /\ r = AttrsWith(as, {}, elems, types, TRUE)
    OBVIOUS
  <2>2. /\ a \in DOMAIN f /\ n \in DOMAIN ds /\ FileOk(f) /\ GroupOk(f[a]) /\ DsetOk(ds[n])
        /\ IsFiniteSet(DOMAIN as)
    BY <1>2, <2>1 DEF ResultsOk, FileOk, GroupOk, DsetOk, CanFindDset
  <2>3. Grown(as, r.attrs) /\ IsFiniteSet(DOMAIN r.attrs)
    BY Zenon, <2>1, <2>2, AttrsOnlyGrow
  <2>4. PICK e : e = [type |-> ds[n].type, vals |-> ds[n].vals, attrs |-> r.attrs]
    BY Zenon
  <2>5. DsetOk(e) /\ DsetGrown(ds[n], e)
    BY Zenon, <2>1, <2>3, <2>4 DEF DsetOk, DsetGrown
  <2>6. PICK es : es = [ds EXCEPT ![n] = e]
    OBVIOUS
  <2>7. DOMAIN es = DOMAIN ds /\ es[n] = e /\ \A m \in DOMAIN ds : m # n => es[m] = ds[m]
    BY <2>6, <2>2
  <2>8. PICK g : g = [attrs |-> f[a].attrs, dsets |-> es]
    BY Zenon
  <2>9. GroupOk(g)
    BY Zenon, <2>1, <2>2, <2>5, <2>7, <2>8 DEF GroupOk
  <2>10. GroupGrown(f[a], g)
    <3>1. \A m \in DOMAIN ds : m \in DOMAIN es /\ DsetGrown(ds[m], es[m])
      <4> TAKE m \in DOMAIN ds
      <4>1. CASE m = n
        BY <4>1, <2>5, <2>7
      <4>2. CASE m # n
        BY <4>2, <2>7 DEF DsetGrown, Grown
      <4> QED
        BY <4>1, <4>2
    <3>2. Grown(f[a].attrs, g.attrs)
      BY <2>8 DEF Grown
    <3> QED
      BY <3>1, <3>2, <2>1, <2>8 DEF GroupGrown
  <2>11. PICK h : h = [f EXCEPT ![a] = g]
    OBVIOUS
  <2>12. FileOk(h) /\ Keeps(f, h) /\ DOMAIN h = DOMAIN f /\ h[a] = g
    BY <2>2, <2>9, <2>10, <2>11, OneGroupGrown
  <2>13. PICK v : v = AddDsetMetaData(w, d, elems, types)
    OBVIOUS
  <2>14. r = InDset(w, d, elems, types)
    BY Zenon, <2>1 DEF InDset, DsetAttrs
  <2>15. v = [w EXCEPT !.file[a].dsets[n].attrs = r.attrs]
    BY Zenon, <1>2, <2>1, <2>13, <2>14 DEF AddDsetMetaData
  <2>16. [ds[n] EXCEPT !.attrs = r.attrs] = e
    BY <2>2, <2>4 DEF DsetOk
  <2>17. [ds EXCEPT ![n].attrs = r.attrs] = es
    BY <2>6, <2>16
  <2>18. [f[a] EXCEPT !.dsets = es] = g
    BY <2>2, <2>8 DEF GroupOk
  <2>19. [f[a] EXCEPT !.dsets[n].attrs = r.attrs] = g
    BY <2>1, <2>17, <2>18
  <2>20. [f EXCEPT ![a].dsets[n].attrs = r.attrs] = h
    BY <2>11, <2>19
  <2>21. /\ DOMAIN v = {"open", "at", "keys", "file"} /\ v.at = w.at /\ v.keys = w.keys
         /\ v.file = h
    BY <2>1, <2>15, <2>20 DEF ResultsOk
  <2>22. ResultsOk(v)
    <3>1. w.at \in DOMAIN f /\ w.keys \subseteq DOMAIN f[w.at].attrs
      BY <2>1 DEF ResultsOk
    <3>2. f[w.at].attrs = h[w.at].attrs
      <4>1. CASE w.at = a
        BY <4>1, <2>8, <2>12
      <4>2. CASE w.at # a
        BY <4>2, <3>1, <2>11
      <4> QED
        BY <4>1, <4>2
    <3> QED
      BY <3>1, <3>2, <2>12, <2>21 DEF ResultsOk
  <2> QED
    BY <2>1, <2>12, <2>13, <2>21, <2>22 DEF Goes
<1> QED
  BY <1>1, <1>2

LEMMA OpenGroupGoes ==
    ASSUME NEW w, ResultsOk(w), NEW path
    PROVE  Goes(w, OpenGroup(w, path))
<1>1. PICK f, v, h : /\ f = w.file /\ v = OpenGroup(w, path)
                     /\ h = IF path \in DOMAIN f THEN f ELSE With(f, path, EmptyGroup)
  OBVIOUS
<1>2. /\ DOMAIN v = {"open", "at", "keys", "file"} /\ v.at = path /\ v.file = h
      /\ v.keys = IF path \in DOMAIN f THEN DOMAIN f[path].attrs ELSE {}
  BY <1>1 DEF OpenGroup, ResultsOk
<1>3. /\ EmptyGroup.attrs = NoAttrs /\ DOMAIN EmptyGroup.dsets = {} /\ DOMAIN NoAttrs = {}
      /\ EmptyGroup = [attrs |-> EmptyGroup.attrs, dsets |-> EmptyGroup.dsets]
  BY DEF EmptyGroup, NoAttrs
<1>4. GroupOk(EmptyGroup)
  <2>1. IsFiniteSet({})
    BY FS_EmptySet
  <2> QED
    BY <1>3, <2>1 DEF GroupOk
<1>5. DOMAIN h = DOMAIN f \cup {path} /\ \A p \in DOMAIN f : h[p] = f[p]
  BY <1>1 DEF With
<1>6. path \notin DOMAIN f => h[path] = EmptyGroup
  BY <1>1 DEF With
<1>7. FileOk(f)
  BY <1>1 DEF ResultsOk
<1>8. FileOk(h)
  BY <1>4, <1>5, <1>6, <1>7 DEF FileOk
<1>9. Keeps(f, h)
  BY <1>5, KeepsItself DEF Keeps
<1>10. v.keys \subseteq DOMAIN h[path].attrs
  BY <1>2, <1>5
<1> QED
  BY <1>1, <1>2, <1>5, <1>8, <1>9, <1>10 DEF Goes, ResultsOk

LEMMA AddDsetGoes ==
    ASSUME NEW w, ResultsOk(w), NEW name, NEW type, NEW vals, CanAddDset(w, name, type)
    PROVE  Goes(w, AddDset(w, name, type, vals))
<1>1. PICK a, f, ds, e, es :
         /\ a = w.at /\ f = w.file /\ ds = f[a].dsets
         /\ e = [type |-> type, vals |-> vals, attrs |-> NoAttrs] /\ es = With(ds, name, e)
  OBVIOUS
<1>2. a \in DOMAIN f /\ FileOk(f) /\ GroupOk(f[a]) /\ name \notin DOMAIN ds
  BY <1>1 DEF ResultsOk, FileOk, CanAddDset
<1>3. DOMAIN es = DOMAIN ds \cup {name} /\ es[name] = e /\ \A n \in DOMAIN ds : es[n] = ds[n]
  BY <1>1, <1>2 DEF With
<1>4. DsetOk(e)
  <2>1. DOMAIN NoAttrs = {} /\ IsFiniteSet({})
    BY FS_EmptySet DEF NoAttrs
  <2> QED
    BY <1>1, <2>1 DEF DsetOk
<1>5. PICK g : g = [attrs |-> f[a].attrs, dsets |-> es]
  OBVIOUS
<1>6. GroupOk(g)
  BY <1>1, <1>2, <1>3, <1>4, <1>5 DEF GroupOk
<1>7. GroupGrown(f[a], g)
  BY <1>1, <1>3, <1>5 DEF GroupGrown, DsetGrown, Grown
<1>8. PICK h : h = [f EXCEPT ![a] = g]
  OBVIOUS
<1>9. FileOk(h) /\ Keeps(f, h) /\ DOMAIN h = DOMAIN f /\ h[a] = g
  BY <1>2, <1>6, <1>7, <1>8, OneGroupGrown
<1>10. PICK v : v = AddDset(w, name, type, vals)
  OBVIOUS
<1>11. [f[a] EXCEPT !.dsets = With(@, name, e)] = g
  BY <1>1, <1>2, <1>5 DEF GroupOk
<1>12. v = [w EXCEPT !.file[w.at].dsets = With(@, name, e)]
  BY <1>1, <1>10 DEF AddDset
<1>13. [f EXCEPT ![a].dsets = With(@, name, e)] = h
  BY <1>8, <1>11
<1>14. /\ DOMAIN v = {"open", "at", "keys", "file"} /\ v.at = a /\ v.keys = w.keys /\ v.file = h
  BY <1>1, <1>12, <1>13 DEF ResultsOk
<1>15. v.keys \subseteq DOMAIN h[a].attrs
  BY <1>1, <1>5, <1>9, <1>14 DEF ResultsOk
<1> QED
  BY <1>1, <1>2, <1>9, <1>10, <1>14, <1>15 DEF Goes, ResultsOk

\* Whatever the call, nothing is lost of the file, refused or not.
LEMMA After1Goes ==
    ASSUME NEW w, ResultsOk(w), NEW c, GoodCall(c)
    PROVE  Goes(w, After1(w, c))
<1>0. Goes(w, w)
  BY KeepsItself DEF Goes
<1>1. CASE c.call = "add_meta_data"
  <2>1. After1(w, c) = AddMetaData(w, c.elems) /\ IsSeq(c.elems)
    BY <1>1 DEF After1, GoodCall
  <2>2. PICK elems : elems = c.elems
    OBVIOUS
  <2>3. Goes(w, AddMetaData(w, elems))
    BY <2>1, <2>2, AddMetaDataGoes
  <2> QED
    BY <2>1, <2>2, <2>3
<1>2. CASE c.call = "add_dset_meta_data"
  <2>1. After1(w, c) = AddDsetMetaData(w, c.dset, c.elems, c.types) /\ IsSeq(c.elems)
    BY <1>2 DEF After1, GoodCall
  <2>2. PICK elems, d, types : elems = c.elems /\ d = c.dset /\ types = c.types
    OBVIOUS
  <2>3. Goes(w, AddDsetMetaData(w, d, elems, types))
    BY <2>1, <2>2, AddDsetMetaDataGoes
  <2> QED
    BY <2>1, <2>2, <2>3
<1>3. CASE c.call = "open_wrapper"
  <2>1. After1(w, c) = [w EXCEPT !.open = TRUE]
    BY <1>3 DEF After1, OpenWrapper
  <2> QED
    BY <2>1, KeepsItself DEF Goes, ResultsOk
<1>4. CASE c.call \in {"close_wrapper", "close_group"}
  <2>1. PICK v : v = After1(w, c)
    OBVIOUS
  <2>2. DOMAIN v = DOMAIN w /\ v.at = <<>> /\ v.keys = {} /\ v.file = w.file
    BY <1>4, <2>1 DEF After1, CloseWrapper, CloseGroup, ResultsOk
  <2> QED
    BY <2>1, <2>2, KeepsItself DEF Goes, ResultsOk, FileOk
<1>5. CASE c.call = "open_group"
  <2>1. After1(w, c) = IF Refuses(w, c) THEN w ELSE OpenGroup(w, c.path)
    BY <1>5 DEF After1
  <2>2. PICK path : path = c.path
    OBVIOUS
  <2>3. Goes(w, OpenGroup(w, path))
    BY OpenGroupGoes
  <2> QED
    BY <1>0, <2>1, <2>2, <2>3
<1>6. CASE c.call = "add_dset"
  <2>1. After1(w, c) = IF Refuses(w, c) THEN w ELSE AddDset(w, c.name, c.type, c.vals)
    BY <1>6 DEF After1
  <2>2. PICK name, type, vals : name = c.name /\ type = c.type /\ vals = c.vals
    OBVIOUS
  <2>3. ~Refuses(w, c) => CanAddDset(w, name, type)
    BY <1>6, <2>2 DEF Refuses
  <2>4. ~Refuses(w, c) => Goes(w, AddDset(w, name, type, vals))
    BY <2>3, AddDsetGoes
  <2> QED
    BY <1>0, <2>1, <2>2, <2>4
<1> QED
  BY <1>1, <1>2, <1>3, <1>4, <1>5, <1>6 DEF GoodCall, CallKinds

-----------------------------------------------------------------------------
(* What is filed is a sequence of calls                                       *)

GoodCalls(s) == IsSeq(s) /\ \A c \in ToSet(s) : GoodCall(c)

LEMMA NoCallsGood == GoodCalls(<<>>)
BY DEF GoodCalls, IsSeq, ToSet

LEMMA GoodConcat ==
    ASSUME NEW s, NEW t, GoodCalls(s), GoodCalls(t)
    PROVE  GoodCalls(s \o t) /\ ((s # <<>> \/ t # <<>>) => s \o t # <<>>)
<1>1. GoodCalls(s \o t)
  BY SeqsConcat DEF GoodCalls
<1>2. ASSUME s # <<>> \/ t # <<>>
      PROVE  s \o t # <<>>
  <2>1. s \in Seq(ToSet(s)) /\ t \in Seq(ToSet(t))
    BY DEF GoodCalls, IsSeq
  <2>2. Len(s) \in Nat /\ Len(t) \in Nat /\ (Len(s) # 0 \/ Len(t) # 0)
    BY <2>1, <1>2
  <2>3. Len(s \o t) = Len(s) + Len(t)
    BY <2>1
  <2>4. Len(<<>>) = 0
    OBVIOUS
  <2> QED
    BY <2>2, <2>3, <2>4
<1> QED
  BY <1>1, <1>2

LEMMA GoodAtPlaces ==
    ASSUME NEW n \in Nat, NEW s, DOMAIN s = 1 .. n, s = [i \in 1 .. n |-> s[i]],
           \A i \in 1 .. n : GoodCall(s[i])
    PROVE  GoodCalls(s) /\ (n # 0 => s # <<>>)
<1>1. GoodCalls(s)
  BY FunIsSeq DEF GoodCalls, ToSet
<1>2. n # 0 => DOMAIN s # DOMAIN <<>>
  OBVIOUS
<1> QED
  BY <1>1, <1>2

\* Calls behind calls.
LEMMA GoodFlat ==
    ASSUME NEW n \in Nat, NEW seqs, DOMAIN seqs = 1 .. n, seqs = [i \in 1 .. n |-> seqs[i]],
           \A i \in 1 .. n : GoodCalls(seqs[i])
    PROVE  GoodCalls(FlattenSeq(seqs))
<1> DEFINE S == UNION {ToSet(seqs[i]) : i \in 1 .. n}
<1>1. \A i \in 1 .. n : seqs[i] \in Seq(S)
  <2> TAKE i \in 1 .. n
  <2>1. seqs[i] \in Seq(ToSet(seqs[i])) /\ ToSet(seqs[i]) \in SUBSET S
    BY DEF GoodCalls, IsSeq
  <2> HIDE DEF S
  <2> QED
    BY <2>1
<1>2. \A c \in S : GoodCall(c)
  BY DEF GoodCalls
<1> HIDE DEF S
<1>3. seqs \in [1 .. n -> Seq(S)] /\ seqs \in Seq(Seq(S))
  BY <1>1
<1>4. FlattenSeq(seqs) \in Seq(S)
  BY <1>3, FlatIsSeq
<1>5. PICK flat : flat = FlattenSeq(seqs)
  OBVIOUS
<1>6. IsSeq(flat) /\ ToSet(flat) \in SUBSET S
  BY <1>4, <1>5, SeqIsSeq
<1> QED
  BY <1>2, <1>5, <1>6 DEF GoodCalls

LEMMA GoodNext ==
    ASSUME NEW s, GoodCalls(s), s # <<>>
    PROVE  GoodCall(Head(s)) /\ GoodCalls(Tail(s))
<1> DEFINE S == ToSet(s)
<1>1. s \in Seq(S) /\ \A c \in S : GoodCall(c)
  BY DEF GoodCalls, IsSeq
<1> HIDE DEF S
<1>2. Head(s) \in S /\ Tail(s) \in Seq(S)
  BY <1>1
<1>3. PICK t : t = Tail(s)
  OBVIOUS
<1>4. IsSeq(t) /\ ToSet(t) \in SUBSET S
  BY <1>2, <1>3, SeqIsSeq
<1> QED
  BY <1>1, <1>2, <1>3, <1>4 DEF GoodCalls

LEMMA TuplesAreSeqs ==
    ASSUME NEW a, NEW b, NEW c, NEW d, NEW e, NEW f
    PROVE  /\ IsSeq(<<>>) /\ IsSeq(<<a>>) /\ IsSeq(<<a, b>>) /\ IsSeq(<<a, b, c>>)
           /\ IsSeq(<<a, b, c, d>>) /\ IsSeq(<<a, b, c, d, e>>) /\ IsSeq(<<a, b, c, d, e, f>>)
<1>1. \A S, s : s \in Seq(S) => IsSeq(s)
  BY SeqIsSeq
<1> DEFINE S == {a, b, c, d, e, f}
<1>2. /\ <<>> \in Seq(S) /\ <<a>> \in Seq(S) /\ <<a, b>> \in Seq(S) /\ <<a, b, c>> \in Seq(S)
      /\ <<a, b, c, d>> \in Seq(S) /\ <<a, b, c, d, e>> \in Seq(S) /\ <<a, b, c, d, e, f>> \in Seq(S)
  <2>1. a \in S /\ b \in S /\ c \in S /\ d \in S /\ e \in S /\ f \in S
    OBVIOUS
  <2> HIDE DEF S
  <2> QED
    BY <2>1
<1> HIDE DEF S
<1> QED
  BY <1>1, <1>2

\* The calls that have no elements, and those that have.
LEMMA CallsGood ==
    /\ GoodCall(CallOpen) /\ GoodCall(CallClose) /\ GoodCall(CallCloseGroup)
    /\ \A path : GoodCall(CallOpenGroup(path))
    /\ \A name, type, vals : GoodCall(CallDset(name, type, vals))
    /\ \A elems : IsSeq(elems) => GoodCall(CallMetaData(elems))
    /\ \A dset, elems, types : IsSeq(elems) => GoodCall(CallDsetMetaData(dset, elems, types))
BY DEF GoodCall, CallKinds, CallOpen, CallClose, CallCloseGroup, CallOpenGroup, CallDset,
       CallMetaData, CallDsetMetaData

LEMMA OneCallGood ==
    ASSUME NEW c, GoodCall(c)
    PROVE  GoodCalls(<<c>>) /\ <<c>> # <<>>
<1>1. IsSeq(<<c>>)
  BY TuplesAreSeqs
<1>2. ToSet(<<c>>) = {c}
  BY DEF ToSet
<1> QED
  BY <1>1, <1>2 DEF GoodCalls

LEMMA WithinGood ==
    ASSUME NEW isOpen, NEW s, GoodCalls(s)
    PROVE  GoodCalls(Within(isOpen, s)) /\ (s # <<>> => Within(isOpen, s) # <<>>)
<1>1. GoodCalls(<<CallOpen>>) /\ GoodCalls(<<CallClose>>)
  BY CallsGood, OneCallGood
<1>2. PICK a, b : a = <<CallOpen>> /\ b = <<CallClose>>
  OBVIOUS
<1>3. GoodCalls(a \o s) /\ (s # <<>> => a \o s # <<>>)
  BY <1>1, <1>2, GoodConcat
<1>4. PICK as : as = a \o s
  OBVIOUS
<1>5. GoodCalls(as \o b) /\ (s # <<>> => as \o b # <<>>)
  BY <1>1, <1>2, <1>3, <1>4, GoodConcat
<1> QED
  BY <1>2, <1>4, <1>5 DEF Within

LEMMA GofrCallsGood ==
    ASSUME NEW isOpen, NEW path, NEW counts, NEW nparts, NEW range, NEW temps, NEW md, IsSeq(md)
    PROVE  /\ GoodCalls(GofrCalls(isOpen, path, counts, nparts, range, temps, md))
           /\ GofrCalls(isOpen, path, counts, nparts, range, temps, md) # <<>>
<1>1. PICK s : s = GofrCalls(TRUE, path, counts, nparts, range, temps, md)
  OBVIOUS
<1>2. \A x : IsSeq(<<x>>)
  BY TuplesAreSeqs
<1>3. DOMAIN s = 1 .. 11 /\ s = [i \in 1 .. 11 |-> s[i]]
  BY <1>1 DEF GofrCalls, Within
<1>4. /\ GoodCall(s[1]) /\ GoodCall(s[2]) /\ GoodCall(s[3]) /\ GoodCall(s[4]) /\ GoodCall(s[5])
      /\ GoodCall(s[6]) /\ GoodCall(s[7]) /\ GoodCall(s[8]) /\ GoodCall(s[9]) /\ GoodCall(s[10])
      /\ GoodCall(s[11])
  BY <1>1, <1>2, CallsGood DEF GofrCalls, Within
<1>5. \A i \in 1 .. 11 : i \in {1, 2, 3, 4, 5, 6, 7, 8, 9, 10, 11}
  OBVIOUS
<1>6. \A i \in 1 .. 11 : GoodCall(s[i])
  BY <1>4, <1>5
<1>7. PICK n \in Nat : n = 11 /\ n # 0
  OBVIOUS
<1>8. GoodCalls(s) /\ s # <<>>
  BY <1>3, <1>6, <1>7, GoodAtPlaces
<1>9. GofrCalls(isOpen, path, counts, nparts, range, temps, md) = Within(isOpen, s)
  BY <1>1 DEF GofrCalls, Within
<1> QED
  BY <1>8, <1>9, WithinGood

LEMMA MsdCallsGood ==
    ASSUME NEW isOpen, NEW key, NEW disps, NEW maxStep, NEW md, IsSeq(md)
    PROVE  /\ GoodCalls(MsdCalls(isOpen, key, disps, maxStep, md))
           /\ MsdCalls(isOpen, key, disps, maxStep, md) # <<>>
<1>1. PICK s : s = MsdCalls(TRUE, key, disps, maxStep, md)
  OBVIOUS
<1>2. DOMAIN s = 1 .. 5 /\ s = [i \in 1 .. 5 |-> s[i]]
  BY <1>1 DEF MsdCalls, Within
<1>3. GoodCall(s[1]) /\ GoodCall(s[2]) /\ GoodCall(s[3]) /\ GoodCall(s[4]) /\ GoodCall(s[5])
  BY <1>1, CallsGood DEF MsdCalls, Within
<1>4. \A i \in 1 .. 5 : i \in {1, 2, 3, 4, 5}
  OBVIOUS
<1>5. \A i \in 1 .. 5 : GoodCall(s[i])
  BY <1>3, <1>4
<1>6. PICK n \in Nat : n = 5 /\ n # 0
  OBVIOUS
<1>7. GoodCalls(s) /\ s # <<>>
  BY <1>2, <1>5, <1>6, GoodAtPlaces
<1>8. MsdCalls(isOpen, key, disps, maxStep, md) = Within(isOpen, s)
  BY <1>1 DEF MsdCalls, Within
<1> QED
  BY <1>7, <1>8, WithinGood

LEMMA HistogramCallsGood ==
    ASSUME NEW isOpen, NEW path, NEW vals, NEW e, NEW nbins
    PROVE  /\ GoodCalls(HistogramCalls(isOpen, path, vals, e, nbins))
           /\ HistogramCalls(isOpen, path, vals, e, nbins) # <<>>
<1>1. PICK s : s = HistogramCalls(TRUE, path, vals, e, nbins)
  OBVIOUS
<1>2. \A x : IsSeq(<<x>>)
  BY TuplesAreSeqs
<1>3. DOMAIN s = 1 .. 10 /\ s = [i \in 1 .. 10 |-> s[i]]
  BY <1>1 DEF HistogramCalls, Within
<1>4. /\ GoodCall(s[1]) /\ GoodCall(s[2]) /\ GoodCall(s[3]) /\ GoodCall(s[4]) /\ GoodCall(s[5])
      /\ GoodCall(s[6]) /\ GoodCall(s[7]) /\ GoodCall(s[8]) /\ GoodCall(s[9]) /\ GoodCall(s[10])
  BY <1>1, <1>2, CallsGood DEF HistogramCalls, Within
<1>5. \A i \in 1 .. 10 : i \in {1, 2, 3, 4, 5, 6, 7, 8, 9, 10}
  OBVIOUS
<1>6. \A i \in 1 .. 10 : GoodCall(s[i])
  BY <1>4, <1>5
<1>7. PICK n \in Nat : n = 10 /\ n # 0
  OBVIOUS
<1>8. GoodCalls(s) /\ s # <<>>
  BY <1>3, <1>6, <1>7, GoodAtPlaces
<1>9. HistogramCalls(isOpen, path, vals, e, nbins) = Within(isOpen, s)
  BY <1>1 DEF HistogramCalls, Within
<1> QED
  BY <1>8, <1>9, WithinGood

LEMMA ThreeGood ==
    ASSUME NEW a, NEW b, NEW c, GoodCall(a), GoodCall(b), GoodCall(c)
    PROVE  GoodCalls(<<a, b>>) /\ GoodCalls(<<a, b, c>>)
<1>1. IsSeq(<<a, b>>) /\ IsSeq(<<a, b, c>>)
  BY TuplesAreSeqs
<1>2. ToSet(<<a, b>>) = {a, b} /\ ToSet(<<a, b, c>>) = {a, b, c}
  BY DEF ToSet
<1> QED
  BY <1>1, <1>2 DEF GoodCalls

LEMMA VanHoveCallsGood ==
    ASSUME NEW isOpen, NEW key, NEW disps, NEW maxStep \in Nat, NEW range, NEW nbins,
           NEW md, IsSeq(md)
    PROVE  /\ GoodCalls(VanHoveCalls(isOpen, key, disps, maxStep, range, nbins, md))
           /\ VanHoveCalls(isOpen, key, disps, maxStep, range, nbins, md) # <<>>
<1> DEFINE Hist(s, d, word) ==
               HistogramCalls(TRUE, Append(StepPath(key, s), <<word, 0>>),
                              AlongAxis(disps, s, d), Edges(-range, range), nbins)
           Made1(s) == <<CallOpenGroup(StepPath(key, s)), CallCloseGroup>>
                       \o Hist(s, 1, "x") \o Hist(s, 2, "y")
<1>1. PICK front : front = <<CallOpenGroup(<<<<"vanHove", key>>>>), CallMetaData(md), CallCloseGroup>>
  OBVIOUS
<1>2. PICK seqs : seqs = [s \in 1 .. maxStep |-> Made1(s)]
  OBVIOUS
<1>3. GoodCalls(front) /\ front # <<>>
  BY <1>1, CallsGood, ThreeGood
<1>4. \A s : GoodCalls(Hist(s, 1, "x")) /\ GoodCalls(Hist(s, 2, "y"))
  BY HistogramCallsGood
<1>5. \A s : GoodCalls(<<CallOpenGroup(StepPath(key, s)), CallCloseGroup>>)
  BY CallsGood, ThreeGood
<1>6. \A s : GoodCalls(Made1(s))
  <2> TAKE s
  <2>1. PICK a, b, c : /\ a = <<CallOpenGroup(StepPath(key, s)), CallCloseGroup>>
                       /\ b = Hist(s, 1, "x") /\ c = Hist(s, 2, "y")
    OBVIOUS
  <2>2. GoodCalls(a) /\ GoodCalls(b) /\ GoodCalls(c)
    BY <1>4, <1>5, <2>1
  <2>3. PICK ab : ab = a \o b
    OBVIOUS
  <2>4. GoodCalls(ab)
    BY <2>2, <2>3, GoodConcat
  <2>5. GoodCalls(ab \o c)
    BY <2>2, <2>4, GoodConcat
  <2> QED
    BY <2>1, <2>3, <2>5
<1> HIDE DEF Made1
<1>7. DOMAIN seqs = 1 .. maxStep /\ seqs = [s \in 1 .. maxStep |-> seqs[s]]
      /\ \A s \in 1 .. maxStep : GoodCalls(seqs[s])
  BY <1>2, <1>6
<1>8. PICK flat : flat = FlattenSeq(seqs)
  OBVIOUS
<1>9. GoodCalls(flat)
  BY <1>7, <1>8, GoodFlat
<1>10. GoodCalls(front \o flat) /\ front \o flat # <<>>
  BY <1>3, <1>9, GoodConcat
<1>11. PICK all : all = front \o flat
  OBVIOUS
<1>12. GoodCalls(Within(isOpen, all)) /\ Within(isOpen, all) # <<>>
  BY <1>10, <1>11, WithinGood
<1> QED
  BY <1>1, <1>2, <1>8, <1>11, <1>12 DEF VanHoveCalls, Made1

LEMMA CaseCallsGood ==
    ASSUME NEW path, NEW range, NEW nbins, NEW comp, NEW dset, NEW readComp, NEW md, IsSeq(md),
           NEW n \in Nat, NEW gofrs, DOMAIN gofrs = 1 .. n, gofrs = [i \in 1 .. n |-> gofrs[i]],
           \A i \in 1 .. n : GoodCalls(gofrs[i])
    PROVE  /\ GoodCalls(CaseCalls(path, CasePrams(range, nbins, comp, dset, readComp), md, gofrs))
           /\ CaseCalls(path, CasePrams(range, nbins, comp, dset, readComp), md, gofrs) # <<>>
<1>1. PICK prams : prams = CasePrams(range, nbins, comp, dset, readComp)
  OBVIOUS
<1>2. PICK a, b, c, d, z : /\ a = <<CallOpen, CallOpenGroup(path)>>
                           /\ b = [i \in DOMAIN prams |-> CallMetaData(<<prams[i]>>)]
                           /\ c = <<CallMetaData(md), CallCloseGroup>>
                           /\ d = FlattenSeq(gofrs) /\ z = <<CallClose>>
  OBVIOUS
<1>3. GoodCalls(a)
  BY <1>2, CallsGood, ThreeGood
<1>4. GoodCalls(b)
  <2>1. DOMAIN prams = 1 .. 4
    BY <1>1 DEF CasePrams
  <2>2. \A x : IsSeq(<<x>>)
    BY TuplesAreSeqs
  <2>3. \A i \in 1 .. 4 : GoodCall(b[i])
    BY <1>2, <2>1, <2>2, CallsGood
  <2>4. DOMAIN b = 1 .. 4 /\ b = [i \in 1 .. 4 |-> b[i]]
    BY <1>2, <2>1
  <2>5. PICK m \in Nat : m = 4
    OBVIOUS
  <2> QED
    BY <2>3, <2>4, <2>5, GoodAtPlaces
<1>5. GoodCalls(c)
  BY <1>2, CallsGood, ThreeGood
<1>6. GoodCalls(d)
  BY <1>2, GoodFlat
<1>7. GoodCalls(z) /\ z # <<>>
  BY <1>2, CallsGood, OneCallGood
<1>8. PICK ab : ab = a \o b
  OBVIOUS
<1>9. GoodCalls(ab)
  BY <1>3, <1>4, <1>8, GoodConcat
<1>10. PICK abc : abc = ab \o c
  OBVIOUS
<1>11. GoodCalls(abc)
  BY <1>5, <1>9, <1>10, GoodConcat
<1>12. PICK abcd : abcd = abc \o d
  OBVIOUS
<1>13. GoodCalls(abcd)
  BY <1>6, <1>11, <1>12, GoodConcat
<1>14. GoodCalls(abcd \o z) /\ abcd \o z # <<>>
  BY <1>7, <1>13, GoodConcat
<1> QED
  BY <1>1, <1>2, <1>8, <1>10, <1>12, <1>14 DEF CaseCalls

LEMMA MdStoreIsSeq ==
    ASSUME Out.kind \in {"gofr", "case", "general", "msd", "vanHove"}
    PROVE  IsSeq(MdStore)
<1>1. CASE Out.kind = "gofr"
  <2>1. MdStore = <<Real("max_range", job.range), Whole("nbins", job.nbins), Whole("comp_key", CompKey)>>
    BY <1>1 DEF MdStore
  <2> QED
    BY <2>1, TuplesAreSeqs
<1>2. CASE Out.kind = "case"
  <2>1. PICK a, b, c : /\ a = <<Real("max_range", job.range), Whole("nbins", job.nbins)>>
                       /\ b = IF Out.perComp > 0 THEN <<Whole("frames_per_comp", Out.perComp)>> ELSE <<>>
                       /\ c = <<Whole("comp_key", CompKey), Whole("comp_count", job.cases),
                                Elem("frames_per_comp", "uint", Step)>>
    OBVIOUS
  <2>2. IsSeq(a) /\ IsSeq(b) /\ IsSeq(c)
    BY <2>1, TuplesAreSeqs
  <2>3. PICK ab : ab = a \o b
    OBVIOUS
  <2>4. IsSeq(ab \o c)
    <3>1. IsSeq(ab)
      BY <2>2, <2>3, SeqsConcat
    <3> QED
      BY <2>2, <3>1, SeqsConcat
  <2>5. MdStore = a \o b \o c
    BY <1>2, <2>1 DEF MdStore
  <2> QED
    BY <2>3, <2>4, <2>5
<1>3. CASE Out.kind = "general"
  BY <1>3, TuplesAreSeqs DEF MdStore
<1>4. CASE Out.kind = "msd"
  <2>1. PICK a, b, c, d :
           /\ a = <<Whole("comp_key", CompKey), Elem("msd_steps", "uint", job.lens[turn] - 1),
                    Elem("min_track_length", "uint", job.lens[turn]), AvgTemp>>
           /\ b = IF WithCuts THEN <<Real("n_range", job.nrange)>> ELSE <<>>
           /\ c = IF job.nmin >= 0 THEN <<Whole("n_min", job.nmin)>> ELSE <<>>
           /\ d = IF job.nmax >= 0 THEN <<Whole("n_max", job.nmax)>> ELSE <<>>
    OBVIOUS
  <2>2. IsSeq(a) /\ IsSeq(b) /\ IsSeq(c) /\ IsSeq(d)
    BY <2>1, TuplesAreSeqs
  <2>3. PICK ab : ab = a \o b
    OBVIOUS
  <2>4. PICK abc : abc = ab \o c
    OBVIOUS
  <2>5. IsSeq(abc \o d)
    <3>1. IsSeq(ab)
      BY <2>2, <2>3, SeqsConcat
    <3>2. IsSeq(abc)
      BY <2>2, <2>4, <3>1, SeqsConcat
    <3> QED
      BY <2>2, <3>2, SeqsConcat
  <2>6. MdStore = a \o b \o c \o d
    BY <1>4, <2>1 DEF MdStore
  <2> QED
    BY <2>3, <2>4, <2>5, <2>6
<1>5. CASE Out.kind = "vanHove" /\ ~IsSweep
  <2>1. MdStore = <<Whole("max_step", MaxStep), Whole("nbins", Out.nbins), Real("max_range", Out.range),
                    Whole("min_track_length", job.trim), AvgTemp, Whole("comp_key", CompKey)>>
    BY <1>5 DEF MdStore
  <2> QED
    BY <2>1, TuplesAreSeqs
<1>6. CASE Out.kind = "vanHove" /\ IsSweep
  <2>1. MdStore = <<Whole("nbins", Out.nbins), Real("max_range", Out.range), Whole("comp_key", CompKey),
                    Elem("max_step", "uint", job.lens[turn] - 1),
                    Elem("min_track_length", "uint", job.lens[turn]), AvgTemp>>
    BY <1>6 DEF MdStore
  <2> QED
    BY <2>1, TuplesAreSeqs
<1> QED
  BY <1>1, <1>2, <1>3, <1>4, <1>5, <1>6

LEMMA SweptGood ==
    ASSUME NEW s, GoodCalls(s)
    PROVE  GoodCalls(Swept(s)) /\ (s # <<>> => Swept(s) # <<>>)
<1>1. PICK a, b : /\ a = IF turn = 1 THEN <<CallOpen>> ELSE <<>>
                  /\ b = IF turn = Len(job.lens) THEN <<CallClose>> ELSE <<>>
  OBVIOUS
<1>2. GoodCalls(a) /\ GoodCalls(b)
  BY <1>1, CallsGood, OneCallGood, NoCallsGood
<1>3. PICK as : as = a \o s
  OBVIOUS
<1>4. GoodCalls(as) /\ (s # <<>> => as # <<>>)
  BY <1>2, <1>3, GoodConcat
<1>5. GoodCalls(as \o b) /\ (s # <<>> => as \o b # <<>>)
  BY <1>2, <1>4, GoodConcat
<1> QED
  BY <1>1, <1>3, <1>5 DEF Swept

LEMMA WrittenGood ==
    ASSUME Out.kind \in {"gofr", "case", "general", "msd", "vanHove"}, job \in Jobs,
           turn \in DOMAIN job.lens
    PROVE  GoodCalls(Written) /\ Written # <<>>
<1>0. IsSeq(MdStore)
  BY MdStoreIsSeq
<1>00. PICK md : md = MdStore
  OBVIOUS
<1> DEFINE Gofr1(isOpen, path, c) ==
      GofrCalls(isOpen, path, [i \in 1 .. job.nbins |-> CountOf(tally[c], i - 1)],
                added[c], job.range, TempsOf(c), md)
<1>1. \A isOpen, path, c : GofrAt(isOpen, path, c) = Gofr1(isOpen, path, c)
  BY <1>00 DEF GofrAt
<1>2. \A isOpen, path, c : GoodCalls(Gofr1(isOpen, path, c)) /\ Gofr1(isOpen, path, c) # <<>>
  BY <1>0, <1>00, GofrCallsGood
<1> HIDE DEF Gofr1
<1>3. \A isOpen, path, c : GoodCalls(GofrAt(isOpen, path, c)) /\ GofrAt(isOpen, path, c) # <<>>
  BY <1>1, <1>2
<1>4. MaxStep \in Nat
  BY JobsAssumption DEF MaxStep
<1>5. CASE Out.kind \in {"gofr", "general"}
  <2>1. Written = GofrAt(FALSE, GofrPath, 0)
    BY <1>5 DEF Written
  <2> QED
    BY <2>1, <1>3
<1>6. CASE Out.kind = "case"
  <2>1. PICK n, gofrs : /\ n \in Nat /\ n = job.cases
             /\ gofrs = [c \in 1 .. n |-> GofrAt(TRUE, CompPath(GofrPath, c - 1), c - 1)]
    BY JobsAssumption
  <2>2. DOMAIN gofrs = 1 .. n /\ gofrs = [c \in 1 .. n |-> gofrs[c]]
        /\ \A c \in 1 .. n : GoodCalls(gofrs[c])
    BY <2>1, <1>3
  <2>3. PICK path, comp, range, nbins : path = GofrPath /\ comp = CompKey /\ range = job.range
                                        /\ nbins = job.nbins
    OBVIOUS
  <2>4. /\ GoodCalls(CaseCalls(path, CasePrams(range, nbins, comp, 0, 0), md, gofrs))
        /\ CaseCalls(path, CasePrams(range, nbins, comp, 0, 0), md, gofrs) # <<>>
    <3>1. n \in Nat
      BY <2>1
    <3> QED
      BY <1>0, <1>00, <2>2, <3>1, CaseCallsGood
  <2>5. Written = CaseCalls(path, CasePrams(range, nbins, comp, 0, 0), md, gofrs)
    BY <1>6, <1>00, <2>1, <2>3 DEF Written
  <2> QED
    BY <2>4, <2>5
<1>7. CASE Out.kind = "msd"
  <2>1. PICK key, disps, n, s : key = CompKey /\ disps = Disps /\ n = MaxStep
                                /\ s = MsdCalls(TRUE, key, disps, n, md)
    OBVIOUS
  <2>2. GoodCalls(s) /\ s # <<>>
    BY <1>0, <1>00, <2>1, MsdCallsGood
  <2>3. Written = Swept(s)
    BY <1>7, <1>00, <2>1 DEF Written
  <2> QED
    BY <2>2, <2>3, SweptGood
<1>8. CASE Out.kind = "vanHove"
  <2>1. PICK key, disps, n, range, nbins, s, t :
           /\ key = CompKey /\ disps = Disps /\ n = MaxStep /\ range = Out.range /\ nbins = Out.nbins
           /\ s = VanHoveCalls(TRUE, key, disps, n, range, nbins, md)
           /\ t = VanHoveCalls(FALSE, key, disps, n, range, nbins, md)
    OBVIOUS
  <2>2. GoodCalls(s) /\ GoodCalls(t) /\ s # <<>> /\ t # <<>>
    BY <1>0, <1>00, <1>4, <2>1, VanHoveCallsGood
  <2>3. GoodCalls(Swept(s)) /\ Swept(s) # <<>>
    BY <2>2, SweptGood
  <2>4. Written = IF IsSweep THEN Swept(s) ELSE t
    BY <1>8, <1>00, <2>1 DEF Written
  <2> QED
    BY <2>2, <2>3, <2>4
<1> QED
  BY <1>5, <1>6, <1>7, <1>8

-----------------------------------------------------------------------------
(* What is read into a store                                                 *)

Distinct(s) == \A i, k \in DOMAIN s : i # k => s[i].key # s[k].key

LEMMA Removed ==
    ASSUME NEW S, NEW s \in Seq(S), NEW i \in 1 .. Len(s)
    PROVE  /\ RemoveAt(s, i) \in Seq(S) /\ Len(RemoveAt(s, i)) = Len(s) - 1
           /\ \A j \in 1 .. Len(s) - 1 : RemoveAt(s, i)[j] = IF j < i THEN s[j] ELSE s[j + 1]
<1>0. Len(s) \in Nat
  OBVIOUS
<1>1. PICK n \in Nat : n = Len(s)
  OBVIOUS
<1>2. PICK a, b : a = SubSeq(s, 1, i - 1) /\ b = SubSeq(s, i + 1, n)
  OBVIOUS
<1>3. a \in Seq(S) /\ Len(a) = i - 1 /\ \A j \in 1 .. i - 1 : a[j] = s[j]
  BY <1>1, <1>2, SubSeqProperties
<1>4. b \in Seq(S) /\ Len(b) = n - i /\ \A j \in 1 .. n - i : b[j] = s[i + j]
  BY <1>1, <1>2, SubSeqProperties
<1>5. RemoveAt(s, i) = a \o b
  BY <1>1, <1>2 DEF RemoveAt
<1>6. /\ a \o b \in Seq(S) /\ Len(a \o b) = n - 1
      /\ \A j \in 1 .. n - 1 : (a \o b)[j] = IF j <= i - 1 THEN a[j] ELSE b[j - (i - 1)]
  BY <1>1, <1>3, <1>4, ConcatProperties
<1>7. \A j \in 1 .. n - 1 : (a \o b)[j] = IF j < i THEN s[j] ELSE s[j + 1]
  <2> TAKE j \in 1 .. n - 1
  <2>1. CASE j < i
    <3>1. j \in 1 .. i - 1 /\ j <= i - 1
      BY <2>1, <1>1
    <3> QED
      BY <3>1, <2>1, <1>3, <1>6
  <2>2. CASE ~(j < i)
    <3>1. j - (i - 1) \in 1 .. n - i /\ i + (j - (i - 1)) = j + 1 /\ ~(j <= i - 1)
      BY <2>2, <1>1
    <3>2. b[j - (i - 1)] = s[j + 1]
      BY <3>1, <1>4
    <3> QED
      BY <3>1, <3>2, <2>2, <1>6
  <2> QED
    BY <2>1, <2>2
<1> QED
  BY <1>1, <1>5, <1>6, <1>7

LEMMA SetElementIn ==
    ASSUME NEW S, NEW s \in Seq(S), NEW e \in S
    PROVE  /\ SetElement(s, e) \in Seq(S)
           /\ Distinct(s) => Distinct(SetElement(s, e))
<1>0. Len(s) \in Nat /\ DOMAIN s = 1 .. Len(s)
  OBVIOUS
<1>1. PICK n, key : n \in Nat /\ n = Len(s) /\ key = e.key
  BY <1>0
<1>2. PICK t : t = RemoveKey(s, key)
  OBVIOUS
<1>3. t \in Seq(S) /\ (Distinct(s) => Distinct(t) /\ \A j \in DOMAIN t : t[j].key # key)
  <2>1. CASE ~ContainsKey(s, key)
    <3>1. t = s
      BY <1>2, <2>1 DEF RemoveKey
    <3>2. \A j \in DOMAIN s : s[j].key # key
      BY <1>0, <2>1 DEF ContainsKey, Keys
    <3> QED
      BY <3>1, <3>2
  <2>2. CASE ContainsKey(s, key)
    <3>1. PICK i : i = GetKeyIndex(s, key)
      OBVIOUS
    <3>2. t = RemoveAt(s, i)
      BY <1>2, <2>2, <3>1 DEF RemoveKey
    <3>3. i \in 1 .. Len(s) /\ s[i].key = key
      <4> DEFINE T == {k \in 1 .. Len(s) : s[k].key = key}
      <4>1. T \in SUBSET Nat /\ T # {}
        BY <1>0, <2>2 DEF ContainsKey, Keys
      <4>2. PICK m \in T : \A k \in T : m <= k
        <5> HIDE DEF T
        <5> QED
          BY <4>1, LeastNatural
      <4>3. m \in 1 .. Len(s) /\ s[m].key = key /\ \A j \in 1 .. m - 1 : s[j].key # key
        BY <1>0, <4>2
      <4> QED
        BY <4>3, <3>1 DEF GetKeyIndex
    <3>4. /\ t \in Seq(S) /\ Len(t) = n - 1
          /\ \A j \in 1 .. n - 1 : t[j] = IF j < i THEN s[j] ELSE s[j + 1]
      BY <1>1, <3>2, <3>3, Removed
    <3>5. DOMAIN t = 1 .. n - 1
      BY <3>4
    <3> DEFINE old == [j \in 1 .. n - 1 |-> IF j < i THEN j ELSE j + 1]
    <3>6. \A j \in 1 .. n - 1 : old[j] \in 1 .. n /\ old[j] # i /\ t[j] = s[old[j]]
      BY <1>1, <3>3, <3>4
    <3>7. \A j, k \in 1 .. n - 1 : j # k => old[j] # old[k]
      BY <1>1, <3>3
    <3> HIDE DEF old
    <3>8. ASSUME Distinct(s)
          PROVE  Distinct(t) /\ \A j \in DOMAIN t : t[j].key # key
      <4>1. \A j, k \in 1 .. n : j # k => s[j].key # s[k].key
        BY <1>0, <1>1, <3>8 DEF Distinct
      <4>2. Distinct(t)
        BY <3>5, <3>6, <3>7, <4>1 DEF Distinct
      <4>3. \A j \in 1 .. n - 1 : s[old[j]].key # s[i].key
        BY <1>1, <3>3, <3>6, <4>1
      <4> QED
        BY <3>3, <3>5, <3>6, <4>2, <4>3
    <3> QED
      BY <3>4, <3>8
  <2> QED
    BY <2>1, <2>2
<1>4. PICK u : u = Append(t, e)
  OBVIOUS
<1>5. /\ u \in Seq(S) /\ Len(u) = Len(t) + 1 /\ u[Len(t) + 1] = e
      /\ \A j \in 1 .. Len(t) : u[j] = t[j]
  BY <1>3, <1>4, AppendProperties
<1>6. Len(t) \in Nat /\ DOMAIN t = 1 .. Len(t) /\ DOMAIN u = 1 .. Len(t) + 1
  BY <1>3, <1>5
<1>7. u = SetElement(s, e)
  BY <1>1, <1>2, <1>4 DEF SetElement
<1>8. ASSUME Distinct(s)
      PROVE  Distinct(u)
  <2>1. Distinct(t) /\ \A j \in DOMAIN t : t[j].key # key
    BY <1>3, <1>8
  <2>2. \A j \in 1 .. Len(t) + 1 : j \in 1 .. Len(t) \/ j = Len(t) + 1
    BY <1>6
  <2> QED
    BY <1>1, <1>5, <1>6, <2>1, <2>2 DEF Distinct
<1> QED
  BY <1>5, <1>7, <1>8

\* What get_meta_data leaves in a store: what was in it and what the keys say,
\* and no key becomes known twice.
LEMMA ReadIntoDoes ==
    ASSUME NEW base0, IsSeq(base0), Distinct(base0), NEW attrs, NEW keys, IsFiniteSet(keys)
    PROVE  /\ IsSeq(ReadInto(base0, attrs, keys)) /\ Distinct(ReadInto(base0, attrs, keys))
           /\ ToSet(ReadInto(base0, attrs, keys)) \in SUBSET
                 (ToSet(base0) \cup {Elem(k, attrs[k].type, attrs[k].val) : k \in keys})
<1> DEFINE E == ToSet(base0) \cup {Elem(k, attrs[k].type, attrs[k].val) : k \in keys}
           V == {r \in [store : Seq(E), stop : BOOLEAN] : Distinct(r.store)}
           base == [store |-> base0, stop |-> FALSE]
           One(k, r) == IF r.stop \/ attrs[k].type \in Tuples THEN [r EXCEPT !.stop = TRUE]
                        ELSE [r EXCEPT !.store = SetElement(@, Elem(k, attrs[k].type, attrs[k].val))]
           F == [kv \in keys \X V |-> One(kv[1], kv[2])]
           pick == [s \in SUBSET keys |-> CHOOSE x \in s : TRUE]
           Body(g) == [s \in SUBSET keys |->
                          IF s = {} THEN base
                          ELSE One(CHOOSE x \in s : TRUE, g[s \ {CHOOSE x \in s : TRUE}])]
           it == CHOOSE g : g = Body(g)
<1>1. base0 \in Seq(E)
  <2>1. base0 \in Seq(ToSet(base0)) /\ ToSet(base0) \in SUBSET E
    BY DEF IsSeq
  <2> HIDE DEF E
  <2> QED
    BY <2>1
<1>2. \A k \in keys : Elem(k, attrs[k].type, attrs[k].val) \in E
  OBVIOUS
<1> HIDE DEF E
<1>3. base \in V
  BY <1>1
<1>4. Picks(pick, keys)
  BY DEF Picks
<1>5. ASSUME NEW k \in keys, NEW r \in V
      PROVE  One(k, r) \in V
  <2>1. PICK e, st : e = Elem(k, attrs[k].type, attrs[k].val) /\ st = r.store
    OBVIOUS
  <2>2. /\ r = [store |-> st, stop |-> r.stop] /\ st \in Seq(E) /\ Distinct(st) /\ e \in E
        /\ r.stop \in BOOLEAN
    BY <1>2, <2>1
  <2>3. SetElement(st, e) \in Seq(E) /\ Distinct(SetElement(st, e))
    BY <2>2, SetElementIn
  <2>4. \/ One(k, r) = [store |-> st, stop |-> TRUE]
        \/ One(k, r) = [store |-> SetElement(st, e), stop |-> r.stop]
    BY <2>1, <2>2
  <2> HIDE DEF One
  <2>5. PICK v : v = One(k, r)
    OBVIOUS
  <2>6. v \in [store : Seq(E), stop : BOOLEAN] /\ Distinct(v.store)
    <3>1. CASE v = [store |-> st, stop |-> TRUE]
      <4>1. v.store = st
        BY <3>1
      <4> QED
        BY <3>1, <4>1, <2>2
    <3>2. CASE v = [store |-> SetElement(st, e), stop |-> r.stop]
      <4>1. v.store = SetElement(st, e)
        BY <3>2
      <4> QED
        BY <3>2, <4>1, <2>2, <2>3
    <3> QED
      BY <3>1, <3>2, <2>4, <2>5
  <2>7. v \in V
    BY <2>6
  <2> QED
    BY <2>5, <2>7
<1> HIDE DEF V, One
<1>6. \A k \in keys : \A r \in V : F[<<k, r>>] = One(k, r) /\ F[<<k, r>>] \in V
  BY <1>5
<1> HIDE DEF F
<1>7. PICK g : IsFold(g, F, base, pick, keys) /\ \A s \in SUBSET keys : g[s] \in V
  <2>1. base \in V
    BY <1>3
  <2> HIDE DEF base, pick
  <2>2. \A k \in keys : \A r \in V : F[<<k, r>>] \in V
    BY <1>6
  <2> QED
    BY <1>4, <2>1, <2>2, FoldExists
<1>8. g = Body(g)
  <2>1. g = [s \in SUBSET keys |-> IF s = {} THEN base ELSE F[<<pick[s], g[s \ {pick[s]}]>>]]
    BY <1>7 DEF IsFold
  <2>2. \A s \in SUBSET keys : s # {} =>
           /\ pick[s] = CHOOSE x \in s : TRUE
           /\ F[<<pick[s], g[s \ {pick[s]}]>>] = One(pick[s], g[s \ {pick[s]}])
    <3> TAKE s \in SUBSET keys
    <3> HAVE s # {}
    <3>1. pick[s] = CHOOSE x \in s : TRUE
      OBVIOUS
    <3> HIDE DEF pick
    <3>2. pick[s] \in s
      BY <1>4 DEF Picks
    <3>3. pick[s] \in keys /\ s \ {pick[s]} \in SUBSET keys
      BY <3>2
    <3> QED
      BY <3>1, <3>3, <1>6, <1>7
  <2> HIDE DEF base, pick
  <2> QED
    BY <2>1, <2>2
<1>9. it = Body(it)
  <2> HIDE DEF Body
  <2> QED
    BY <1>8
<1>10. ReadInto(base0, attrs, keys) = it[keys].store
  BY DEF ReadInto, FoldSet, MapThenFoldSet, One
<1> HIDE DEF it
<1>11. \A s \in SUBSET keys : it[s] = IF s = {} THEN base
             ELSE One(CHOOSE x \in s : TRUE, it[s \ {CHOOSE x \in s : TRUE}])
  <2> HIDE DEF base
  <2> QED
    BY <1>9
<1> DEFINE W == [s \in SUBSET keys |-> V]
<1>12. it[keys] \in V
  <2>1. it[{}] \in W[{}]
    BY <1>3, <1>11
  <2>2. \A s \in SUBSET keys : s # {} => \E x \in s : it[s \ {x}] \in W[s \ {x}] => it[s] \in W[s]
    <3> TAKE s \in SUBSET keys
    <3> HAVE s # {}
    <3>1. PICK x : x = CHOOSE y \in s : TRUE
      OBVIOUS
    <3>2. x \in s /\ x \in keys /\ s \ {x} \in SUBSET keys
      BY <3>1
    <3>3. it[s] = One(x, it[s \ {x}])
      BY <3>1, <1>11
    <3>4. it[s \ {x}] \in V => it[s] \in V
      BY <3>2, <3>3, <1>5
    <3> QED
      BY <3>2, <3>4
  <2> HIDE DEF W
  <2>3. \A s \in SUBSET keys : it[s] \in W[s]
    BY <2>1, <2>2, FoldStays
  <2> QED
    BY <2>3 DEF W
<1>13. PICK st : st = it[keys].store
  OBVIOUS
<1>14. st \in Seq(E) /\ Distinct(st)
  BY <1>12, <1>13 DEF V
<1>15. IsSeq(st) /\ ToSet(st) \in SUBSET E
  BY <1>14, SeqIsSeq
<1> QED
  BY <1>10, <1>13, <1>14, <1>15 DEF E

-----------------------------------------------------------------------------
(* The results file through the steps of a program                            *)

\* The turn is one of the job's, the wrapper and the calls to come are lawful,
\* and the file has grown from the prior one.
FileInv ==
    /\ job \in Jobs /\ turn \in DOMAIN job.lens
    /\ prior \in Priors(job)
    /\ ResultsOk(results) /\ Keeps(prior, results.file)
    /\ GoodCalls(calls)
    /\ stage = "file" => calls # <<>>
    /\ IsSeq(readMd) /\ Distinct(readMd)

LEMMA FileInitGood == ProgInit => FileInv
<1> SUFFICES ASSUME ProgInit
             PROVE  FileInv
  OBVIOUS
<1>1. job \in Jobs /\ turn = 1 /\ stage # "file" /\ prior \in Priors(job)
  BY DEF ProgInit, StatInit
<1>2. turn \in DOMAIN job.lens
  <2>1. job.lens \in Seq(Nat \ {0}) /\ job.lens # <<>>
    BY <1>1, JobsAssumption
  <2>2. Len(job.lens) \in Nat /\ Len(job.lens) # 0 /\ DOMAIN job.lens = 1 .. Len(job.lens)
    BY <2>1
  <2> QED
    BY <1>1, <2>2
<1>3. /\ <<>> \in DOMAIN prior
      /\ \A path \in DOMAIN prior :
            /\ prior[path] = [attrs |-> prior[path].attrs, dsets |-> prior[path].dsets]
            /\ IsFiniteSet(DOMAIN prior[path].attrs)
            /\ \A n \in DOMAIN prior[path].dsets : DsetOk(prior[path].dsets[n])
  BY <1>1, PriorsAssumption DEF DsetOk
<1>4. FileOk(prior)
  BY <1>3 DEF FileOk, GroupOk
<1>5. results = [open |-> FALSE, at |-> <<>>, keys |-> {}, file |-> prior]
  BY DEF ProgInit, WrapperOf
<1>6. DOMAIN results = {"open", "at", "keys", "file"} /\ results.at = <<>> /\ results.keys = {}
      /\ results.file = prior
  BY <1>5
<1>7. ResultsOk(results)
  BY <1>4, <1>6 DEF ResultsOk, FileOk
<1>8. Keeps(prior, results.file)
  BY <1>6, KeepsItself
<1>9. calls = <<>> /\ readMd = <<>>
  BY DEF ProgInit
<1>10. IsSeq(readMd) /\ Distinct(readMd)
  <2>1. IsSeq(<<>>)
    BY TuplesAreSeqs
  <2> QED
    BY <1>9, <2>1 DEF Distinct
<1> QED
  BY <1>1, <1>2, <1>7, <1>8, <1>9, <1>10, NoCallsGood DEF FileInv

\* The steps of Statistics neither file nor leave the turns of the job.
LEMMA TurnStays ==
    ASSUME StatNext, job \in Jobs, turn \in DOMAIN job.lens
    PROVE  turn' \in DOMAIN job.lens
<1>1. turn' = turn \/ NextTurn
  BY DEF StatNext, Push, Hashed, OpenShelf, ReadUntracked, Grow, Place, ReadAll, Trim, FillShelf,
         NoCorrelator, CorrelateFails, Correlate, MeanShelf, CutByLength, Average
<1>2. CASE NextTurn
  <2>1. Len(job.lens) \in Nat /\ DOMAIN job.lens = 1 .. Len(job.lens)
    BY JobsAssumption
  <2>2. turn' = IF turn < Len(job.lens) THEN turn + 1 ELSE turn
    BY <1>2 DEF NextTurn
  <2> QED
    BY <2>1, <2>2
<1> QED
  BY <1>1, <1>2

LEMMA StagesOfStat ==
    ASSUME StatNext, stage' = "file"
    PROVE  stage = "file"
<1>1. \A call : After(call) # "file"
  BY DEF After
<1>2. PICK read, trim, hash, fill, mean, correlate : 
           /\ read = After("read") /\ trim = After("trim") /\ hash = After("hash")
           /\ fill = After("fill") /\ mean = After("mean")
           /\ correlate = After("correlate")
  OBVIOUS
<1>3. read # "file" /\ trim # "file" /\ hash # "file" /\ fill # "file" /\ mean # "file"
      /\ correlate # "file"
  BY <1>1, <1>2
<1>4. CASE Push \/ Hashed \/ OpenShelf \/ ReadUntracked
  BY <1>2, <1>3, <1>4 DEF Push, Hashed, OpenShelf, ReadUntracked
<1>5. CASE Grow \/ Place \/ ReadAll
  BY <1>2, <1>3, <1>5 DEF Grow, Place, ReadAll
<1>6. CASE Trim \/ FillShelf
  BY <1>2, <1>3, <1>6 DEF Trim, FillShelf
<1>7. CASE NoCorrelator \/ CorrelateFails \/ Correlate
  BY <1>2, <1>3, <1>7 DEF NoCorrelator, CorrelateFails, Correlate
<1>8. CASE MeanShelf \/ CutByLength \/ Average \/ NextTurn
  BY <1>2, <1>3, <1>8 DEF MeanShelf, CutByLength, Average, NextTurn
<1> QED
  BY <1>4, <1>5, <1>6, <1>7, <1>8 DEF StatNext

\* The calls a script makes of a results wrapper.
LEMMA NoteCallsGood ==
    ASSUME job \in Jobs, job.feed = "notes", IsSeq(readMd), NEW c \in NoteCalls
    PROVE  GoodCall(c)
<1>1. CASE c \in ScriptCalls(job)
  BY <1>1, ScriptCallsAssumption DEF GoodCall, CallKinds, IsSeq
<1>2. CASE c = CallMetaData(readMd)
  BY <1>2, CallsGood
<1>3. ASSUME NEW k \in ScriptCalls(job), c = CallDsetMetaData(k.dset, readMd, DsetStoreTypes)
      PROVE  GoodCall(c)
  BY <1>3, CallsGood
<1> QED
  BY <1>1, <1>2, <1>3 DEF NoteCalls

LEMMA FileKeeps ==
    ASSUME FileInv, [ProgNext]_allVars
    PROVE  FileInv'
<1> USE DEF FileInv
<1>1. ASSUME UNCHANGED <<job, turn, fileVars>>, stage' = "file" => stage = "file"
      PROVE  FileInv'
  BY <1>1 DEF fileVars, noteVars
<1>2. CASE FeedStep
  BY <1>1, <1>2 DEF FeedStep, Made
<1>3. CASE ScriptStep
  BY <1>1, <1>3 DEF ScriptStep, Made
<1>4. CASE Fed
  BY <1>1, <1>4 DEF Fed
<1>5. CASE Compute
  <2>1. StatNext /\ UNCHANGED fileVars
    BY <1>5 DEF Compute
  <2>2. job' = job /\ turn' \in DOMAIN job.lens /\ (stage' = "file" => stage = "file")
    BY <2>1, JobStays, TurnStays, StagesOfStat
  <2> QED
    BY <2>1, <2>2 DEF fileVars, noteVars
<1>6. CASE StartFiling
  <2>1. Out.kind \in {"gofr", "case", "general", "msd", "vanHove"}
    BY <1>6 DEF StartFiling, Due
  <2>2. GoodCalls(Written) /\ Written # <<>>
    BY <2>1, WrittenGood
  <2>3. calls' = Written /\ UNCHANGED <<job, turn, results, prior, readMd>>
    BY <1>6 DEF StartFiling, noteVars
  <2> QED
    BY <2>2, <2>3
<1>7. CASE FileStep \/ FileFails
  <2>1. PICK w, v, c, s : w = results /\ v = results' /\ c = Head(calls) /\ s = calls
    OBVIOUS
  <2>2. GoodCall(c) /\ GoodCalls(Tail(s))
    BY <1>7, <2>1, GoodNext DEF FileStep, FileFails, Filing
  <2>3. v = After1(w, c) /\ UNCHANGED <<job, turn, prior, readMd>>
        /\ (calls' = <<>> \/ calls' = Tail(s)) /\ (stage' = "file" => calls' # <<>>)
    BY <1>7, <2>1 DEF FileStep, FileFails, Resume, noteVars
  <2>4. Goes(w, v)
    BY <2>1, <2>2, <2>3, After1Goes
  <2>5. ResultsOk(v) /\ Keeps(w.file, v.file)
    BY <2>4 DEF Goes
  <2>6. Keeps(prior, v.file)
    BY <2>1, <2>5, KeepsOn
  <2> QED
    BY <2>1, <2>2, <2>3, <2>5, <2>6, NoCallsGood
<1>8. CASE NoteStep
  <2>1. PICK c \in NoteCalls : /\ results' = After1(results, c)
                               /\ stage' = IF Dies(results, c) THEN "crash" ELSE stage
    BY <1>8 DEF NoteStep
  <2>2. PICK w, v : w = results /\ v = results'
    OBVIOUS
  <2>3. job.feed = "notes" /\ UNCHANGED <<job, turn, prior, calls, readMd>>
    BY <1>8 DEF NoteStep, Noting
  <2>4. GoodCall(c)
    BY <2>3, NoteCallsGood
  <2>5. Goes(w, v)
    BY <2>1, <2>2, <2>4, After1Goes
  <2>6. ResultsOk(v) /\ Keeps(prior, v.file)
    BY <2>2, <2>5, KeepsOn DEF Goes
  <2> QED
    BY <2>1, <2>2, <2>3, <2>6
<1>9. CASE ReadGroupNotes
  <2>1. PICK base0, attrs, keys : /\ base0 = readMd /\ keys = results.keys
                                  /\ attrs = results.file[results.at].attrs
    OBVIOUS
  <2>2. GroupOk(results.file[results.at]) /\ keys \subseteq DOMAIN attrs
    BY <2>1 DEF ResultsOk, FileOk
  <2>3. IsFiniteSet(keys)
    BY <2>1, <2>2, FS_Subset DEF GroupOk
  <2>4. IsSeq(ReadInto(base0, attrs, keys)) /\ Distinct(ReadInto(base0, attrs, keys))
    BY <2>1, <2>3, ReadIntoDoes
  <2>5. readMd' = ReadInto(base0, attrs, keys) /\ UNCHANGED <<job, turn, stage, results, prior, calls>>
    BY <1>9, <2>1 DEF ReadGroupNotes
  <2> QED
    BY <2>4, <2>5
<1>10. CASE ReadDsetNotes
  <2>1. PICK c \in ScriptCalls(job) :
           /\ CanFindDset(results, c.dset)
           /\ readMd' = ReadInto(readMd, DsetAttrs(results, c.dset), DOMAIN DsetAttrs(results, c.dset))
    BY <1>10 DEF ReadDsetNotes
  <2>2. PICK base0, attrs, keys, at, name, f :
           /\ base0 = readMd /\ attrs = DsetAttrs(results, c.dset) /\ keys = DOMAIN attrs
           /\ at = DsetAt(results, c.dset) /\ name = c.dset.name /\ f = results.file
    OBVIOUS
  <2>3. at \in DOMAIN f /\ name \in DOMAIN f[at].dsets /\ GroupOk(f[at])
    BY Zenon, <2>1, <2>2 DEF CanFindDset, ResultsOk, FileOk
  <2>4. IsFiniteSet(keys)
    BY <2>2, <2>3 DEF GroupOk, DsetOk, DsetAttrs
  <2>5. IsSeq(ReadInto(base0, attrs, keys)) /\ Distinct(ReadInto(base0, attrs, keys))
    BY <2>2, <2>4, ReadIntoDoes
  <2>6. readMd' = ReadInto(base0, attrs, keys) /\ UNCHANGED <<job, turn, stage, results, prior, calls>>
    BY <1>10, <2>1, <2>2 DEF ReadDsetNotes
  <2> QED
    BY <2>5, <2>6
<1>11. CASE UNCHANGED allVars
  BY <1>1, <1>11 DEF allVars, statVars
<1> QED
  BY <1>2, <1>3, <1>4, <1>5, <1>6, <1>7, <1>8, <1>9, <1>10, <1>11 DEF ProgNext

\* Whatever is filed and noted, and whichever call fails or crashes: a group, a
\* data set or an attribute that was in the results file is there as it was.
THEOREM PriorKeptAlways == ProgSpec => []PriorKept
<1>1. ProgInit => FileInv
  BY FileInitGood
<1>2. FileInv /\ [ProgNext]_allVars => FileInv'
  BY FileKeeps
<1>3. FileInv => PriorKept
  BY DEF FileInv, PriorKept, Keeps, GroupGrown, DsetGrown, Grown
<1> QED
  BY <1>1, <1>2, <1>3, PTL DEF ProgSpec

-----------------------------------------------------------------------------
(* The notes of a script                                                      *)

AttrsFit(a) == \A k \in DOMAIN a : Fits(a[k])

GroupFits(g) ==
    AttrsFit(g.attrs) /\ \A n \in DOMAIN g.dsets : AttrsFit(g.dsets[n].attrs)

FileFits(f) == \A path \in DOMAIN f : GroupFits(f[path])

ElemsFit(elems) == \A e \in ToSet(elems) : Fits(e)

\* The attributes of a group of a file, or of a data set of it.
AttrsOf(f, path, dset) == IF dset = "" THEN f[path].attrs ELSE f[path].dsets[dset].attrs

IsThere(f, path, dset) == path \in DOMAIN f /\ dset \in {""} \cup DOMAIN f[path].dsets

IsNoted(f, n) ==
    /\ IsThere(f, n.path, n.dset) /\ Fits(n.elem)
    /\ Settled(AttrsOf(f, n.path, n.dset), n.elem)

\* An element that the attributes of a group or of a data set say.
IsReadFrom(f, e) ==
    \E path \in DOMAIN f : \E dset \in {""} \cup DOMAIN f[path].dsets :
        LET attrs == AttrsOf(f, path, dset)
        IN  e.key \in DOMAIN attrs /\ attrs[e.key].type = e.type /\ attrs[e.key].val = e.val

LEMMA StillThere ==
    ASSUME NEW f, NEW g, Keeps(f, g), NEW path, NEW dset, IsThere(f, path, dset)
    PROVE  IsThere(g, path, dset) /\ Grown(AttrsOf(f, path, dset), AttrsOf(g, path, dset))
BY DEF Keeps, GroupGrown, DsetGrown, IsThere, AttrsOf

LEMMA StillNoted ==
    ASSUME NEW f, NEW g, Keeps(f, g), NEW n, IsNoted(f, n)
    PROVE  IsNoted(g, n)
<1>1. PICK path, dset, e, a, b :
         /\ path = n.path /\ dset = n.dset /\ e = n.elem
         /\ a = AttrsOf(f, path, dset) /\ b = AttrsOf(g, path, dset)
  OBVIOUS
<1>2. IsThere(f, path, dset) /\ Settled(a, e)
  BY <1>1 DEF IsNoted
<1>3. IsThere(g, path, dset) /\ Grown(a, b)
  BY <1>1, <1>2, StillThere
<1>4. Settled(b, e)
  BY <1>2, <1>3, SettledOn
<1> QED
  BY <1>1, <1>3, <1>4 DEF IsNoted

LEMMA StillReadFrom ==
    ASSUME NEW f, NEW g, Keeps(f, g), NEW e, IsReadFrom(f, e)
    PROVE  IsReadFrom(g, e)
<1>0. PICK path \in DOMAIN f : \E dset \in {""} \cup DOMAIN f[path].dsets :
         LET attrs == AttrsOf(f, path, dset)
         IN  e.key \in DOMAIN attrs /\ attrs[e.key].type = e.type /\ attrs[e.key].val = e.val
  BY DEF IsReadFrom
<1>1. PICK dset \in {""} \cup DOMAIN f[path].dsets :
         LET attrs == AttrsOf(f, path, dset)
         IN  e.key \in DOMAIN attrs /\ attrs[e.key].type = e.type /\ attrs[e.key].val = e.val
  BY <1>0
<1>2. IsThere(g, path, dset) /\ Grown(AttrsOf(f, path, dset), AttrsOf(g, path, dset))
  BY StillThere DEF IsThere
<1>3. PICK a, b : a = AttrsOf(f, path, dset) /\ b = AttrsOf(g, path, dset)
  OBVIOUS
<1>4. e.key \in DOMAIN b /\ b[e.key].type = e.type /\ b[e.key].val = e.val
  BY <1>1, <1>2, <1>3 DEF Grown
<1> QED
  BY <1>2, <1>3, <1>4 DEF IsReadFrom, IsThere

\* Elements that fit leave attributes that fit.
LEMMA GrownByFits ==
    ASSUME NEW a, NEW b, NEW elems, GrownBy(a, b, elems), AttrsFit(a), ElemsFit(elems)
    PROVE  AttrsFit(b)
<1> SUFFICES ASSUME NEW k \in DOMAIN b
             PROVE  Fits(b[k])
  BY DEF AttrsFit
<1>1. CASE k \in DOMAIN a /\ a[k] = b[k]
  BY <1>1 DEF AttrsFit
<1>2. ASSUME NEW e \in ToSet(elems), b[k] = [type |-> e.type, val |-> e.val]
      PROVE  Fits(b[k])
  <2>1. Fits(e)
    BY DEF ElemsFit
  <2>2. b[k].type = e.type /\ b[k].val = e.val
    BY <1>2
  <2> QED
    BY ONLY <2>1, <2>2 DEF Fits
<1> QED
  BY <1>1, <1>2 DEF GrownBy

\* What add_meta_data does to the open group, and to nothing else.
LEMMA AddMetaDataDoes ==
    ASSUME NEW w, ResultsOk(w), w.at # <<>>, NEW elems, IsSeq(elems)
    PROVE  /\ DOMAIN AddMetaData(w, elems).file = DOMAIN w.file
           /\ \A path \in DOMAIN w.file :
                 /\ path # w.at => AddMetaData(w, elems).file[path] = w.file[path]
                 /\ AddMetaData(w, elems).file[path].dsets = w.file[path].dsets
           /\ GrownBy(w.file[w.at].attrs, AddMetaData(w, elems).file[w.at].attrs, elems)
           /\ CanAddMetaData(w, elems) =>
                 \A e \in ToSet(elems) : Settled(AddMetaData(w, elems).file[w.at].attrs, e)
<1>1. PICK a, f, r, as, ks, v, h :
         /\ a = w.at /\ f = w.file /\ as = f[a].attrs /\ ks = w.keys
         /\ r = AttrsWith(as, ks, elems, SingleTypes, FALSE)
         /\ v = AddMetaData(w, elems) /\ h = [f EXCEPT ![a].attrs = r.attrs]
  OBVIOUS
<1>2. /\ a \in DOMAIN f /\ GroupOk(f[a]) /\ ks \subseteq DOMAIN as
  BY <1>1 DEF ResultsOk, FileOk
<1>3. AttrsAtPlaces(r, as, ks, elems, FALSE, DOMAIN elems)
  BY <1>1, AttrsWithDoes
<1>4. r = InGroup(w, elems)
  BY <1>1 DEF InGroup
<1>5. v = [w EXCEPT !.file[w.at].attrs = r.attrs, !.keys = r.keys]
  BY <1>1, <1>4 DEF AddMetaData
<1>6. v.file = h
  BY <1>1, <1>5 DEF ResultsOk
<1>7. h[a] = [f[a] EXCEPT !.attrs = r.attrs]
  BY <1>1, <1>2
<1>8. h[a].attrs = r.attrs /\ h[a].dsets = f[a].dsets
  BY <1>2, <1>7 DEF GroupOk
<1>9. DOMAIN h = DOMAIN f /\ \A path \in DOMAIN f : path # a => h[path] = f[path]
  BY <1>1
<1>10. GrownBy(as, r.attrs, elems)
  BY <1>3 DEF AttrsAtPlaces
<1>11. CanAddMetaData(w, elems) => \A e \in ToSet(elems) : Settled(r.attrs, e)
  BY <1>2, <1>3, <1>4 DEF CanAddMetaData, AttrsAtPlaces, ToSet
<1> QED
  BY ONLY Zenon, <1>1, <1>6, <1>8, <1>9, <1>10, <1>11

\* The same of a data set.
LEMMA AddDsetMetaDataDoes ==
    ASSUME NEW w, ResultsOk(w), NEW d, CanFindDset(w, d), NEW elems, IsSeq(elems), NEW types,
           NEW v, v = AddDsetMetaData(w, d, elems, types),
           NEW a, a = DsetAt(w, d), NEW n, n = d.name
    PROVE  /\ DOMAIN v.file = DOMAIN w.file
           /\ \A path \in DOMAIN w.file :
                 /\ path # a => v.file[path] = w.file[path]
                 /\ v.file[path].attrs = w.file[path].attrs
                 /\ DOMAIN v.file[path].dsets = DOMAIN w.file[path].dsets
           /\ \A m \in DOMAIN w.file[a].dsets :
                 m # n => v.file[a].dsets[m] = w.file[a].dsets[m]
           /\ GrownBy(w.file[a].dsets[n].attrs, v.file[a].dsets[n].attrs, elems)
           /\ CanAddDsetMetaData(w, d, elems, types) =>
                 \A e \in ToSet(elems) : Settled(v.file[a].dsets[n].attrs, e)
<1>1. PICK f, ds, as, r, h :
         /\ f = w.file /\ ds = f[a].dsets /\ as = ds[n].attrs
         /\ r = AttrsWith(as, {}, elems, types, TRUE)
         /\ h = [f EXCEPT ![a].dsets[n].attrs = r.attrs]
  OBVIOUS
<1>2. a \in DOMAIN f /\ n \in DOMAIN ds /\ GroupOk(f[a]) /\ DsetOk(ds[n])
  BY <1>1 DEF ResultsOk, FileOk, GroupOk, CanFindDset
<1>3. AttrsAtPlaces(r, as, {}, elems, TRUE, DOMAIN elems)
  BY <1>1, AttrsWithDoes
<1>4. r = InDset(w, d, elems, types)
  BY <1>1 DEF InDset, DsetAttrs
<1>5. v = [w EXCEPT !.file[a].dsets[n].attrs = r.attrs]
  BY Zenon, <1>1, <1>4 DEF AddDsetMetaData
<1>6. v.file = h
  BY Zenon, <1>1, <1>5 DEF ResultsOk
<1>7. h[a] = [f[a] EXCEPT !.dsets[n].attrs = r.attrs]
  BY Zenon, <1>1, <1>2
<1>8. h[a].attrs = f[a].attrs /\ h[a].dsets = [ds EXCEPT ![n].attrs = r.attrs]
  BY Zenon, <1>1, <1>2, <1>7 DEF GroupOk
<1>9. PICK es : es = h[a].dsets
  OBVIOUS
<1>10. DOMAIN es = DOMAIN ds /\ es[n] = [ds[n] EXCEPT !.attrs = r.attrs]
       /\ \A m \in DOMAIN ds : m # n => es[m] = ds[m]
  BY <1>2, <1>8, <1>9
<1>11. es[n].attrs = r.attrs
  BY ONLY Zenon, <1>2, <1>10 DEF DsetOk
<1>12. DOMAIN h = DOMAIN f /\ \A path \in DOMAIN f : path # a => h[path] = f[path]
  BY <1>1
<1>13. GrownBy(as, r.attrs, elems)
  BY <1>3 DEF AttrsAtPlaces
<1>14. CanAddDsetMetaData(w, d, elems, types) => \A e \in ToSet(elems) : Settled(r.attrs, e)
  BY ONLY <1>3, <1>4 DEF CanAddDsetMetaData, AttrsAtPlaces, ToSet
<1>15. \A path \in DOMAIN f :
          h[path].attrs = f[path].attrs /\ DOMAIN h[path].dsets = DOMAIN f[path].dsets
  BY ONLY Zenon, <1>1, <1>8, <1>9, <1>10, <1>12
<1>16. \A m \in DOMAIN f[a].dsets : m # n => h[a].dsets[m] = f[a].dsets[m]
  BY ONLY Zenon, <1>1, <1>9, <1>10
<1>17. h[a].dsets[n].attrs = r.attrs
  BY <1>9, <1>11
<1>18. /\ GrownBy(f[a].dsets[n].attrs, h[a].dsets[n].attrs, elems)
       /\ CanAddDsetMetaData(w, d, elems, types) =>
             \A e \in ToSet(elems) : Settled(h[a].dsets[n].attrs, e)
  BY ONLY Zenon, <1>1, <1>13, <1>14, <1>17
<1>19. v.file = h /\ w.file = f
  BY ONLY <1>1, <1>6
<1>20. /\ DOMAIN v.file = DOMAIN w.file
       /\ \A path \in DOMAIN w.file :
             /\ path # a => v.file[path] = w.file[path]
             /\ v.file[path].attrs = w.file[path].attrs
             /\ DOMAIN v.file[path].dsets = DOMAIN w.file[path].dsets
  BY <1>12, <1>15, <1>19
<1>21. \A m \in DOMAIN w.file[a].dsets : m # n => v.file[a].dsets[m] = w.file[a].dsets[m]
  BY <1>16, <1>19
<1>22. /\ GrownBy(w.file[a].dsets[n].attrs, v.file[a].dsets[n].attrs, elems)
       /\ CanAddDsetMetaData(w, d, elems, types) =>
             \A e \in ToSet(elems) : Settled(v.file[a].dsets[n].attrs, e)
  BY <1>18, <1>19
<1> QED
  BY <1>20, <1>21, <1>22

HasElems(c) == c.call \in {"add_meta_data", "add_dset_meta_data"}

\* A call with elements that fit leaves a file whose attributes do.
LEMMA After1Fits ==
    ASSUME NEW w, ResultsOk(w), FileFits(w.file), NEW c, GoodCall(c), HasElems(c) => ElemsFit(c.elems)
    PROVE  FileFits(After1(w, c).file)
<1>1. CASE c.call = "add_meta_data" /\ w.at # <<>>
  <2>1. PICK elems, v : elems = c.elems /\ v = AddMetaData(w, elems)
    OBVIOUS
  <2>2. After1(w, c) = v /\ IsSeq(elems) /\ ElemsFit(elems)
    BY <1>1, <2>1 DEF After1, GoodCall, HasElems
  <2>3. /\ DOMAIN v.file = DOMAIN w.file
        /\ \A path \in DOMAIN w.file :
              /\ path # w.at => v.file[path] = w.file[path]
              /\ v.file[path].dsets = w.file[path].dsets
        /\ GrownBy(w.file[w.at].attrs, v.file[w.at].attrs, elems)
    BY <1>1, <2>1, <2>2, AddMetaDataDoes
  <2>4. w.at \in DOMAIN w.file
    BY DEF ResultsOk
  <2>5. AttrsFit(w.file[w.at].attrs)
    BY <2>4 DEF FileFits, GroupFits
  <2>6. AttrsFit(v.file[w.at].attrs)
    BY <2>2, <2>3, <2>5, GrownByFits
  <2>7. \A path \in DOMAIN w.file : GroupFits(v.file[path])
    <3> TAKE path \in DOMAIN w.file
    <3>1. CASE path = w.at
      BY <3>1, <2>3, <2>4, <2>6 DEF FileFits, GroupFits
    <3>2. CASE path # w.at
      BY <3>2, <2>3 DEF FileFits
    <3> QED
      BY <3>1, <3>2
  <2> QED
    BY <2>2, <2>3, <2>7 DEF FileFits
<1>2. CASE c.call = "add_dset_meta_data" /\ CanFindDset(w, c.dset)
  <2>1. PICK elems, d, types, at, name, v :
           /\ elems = c.elems /\ d = c.dset /\ types = c.types /\ at = DsetAt(w, d) /\ name = d.name
           /\ v = AddDsetMetaData(w, d, elems, types)
    OBVIOUS
  <2>2. After1(w, c) = v /\ IsSeq(elems) /\ ElemsFit(elems) /\ CanFindDset(w, d)
    BY <1>2, <2>1 DEF After1, GoodCall, HasElems
  <2>3. /\ DOMAIN v.file = DOMAIN w.file
        /\ \A path \in DOMAIN w.file :
              /\ path # at => v.file[path] = w.file[path]
              /\ v.file[path].attrs = w.file[path].attrs
              /\ DOMAIN v.file[path].dsets = DOMAIN w.file[path].dsets
        /\ \A n \in DOMAIN w.file[at].dsets :
              n # name => v.file[at].dsets[n] = w.file[at].dsets[n]
        /\ GrownBy(w.file[at].dsets[name].attrs, v.file[at].dsets[name].attrs, elems)
    <3>1. ResultsOk(w) /\ CanFindDset(w, d) /\ IsSeq(elems)
      BY <2>2
    <3> QED
      BY ONLY <2>1, <3>1, AddDsetMetaDataDoes
  <2>4. at \in DOMAIN w.file /\ name \in DOMAIN w.file[at].dsets
    BY <2>1, <2>2 DEF CanFindDset
  <2>5. AttrsFit(w.file[at].dsets[name].attrs)
    BY <2>4 DEF FileFits, GroupFits
  <2>6. AttrsFit(v.file[at].dsets[name].attrs)
    BY <2>2, <2>3, <2>5, GrownByFits
  <2>7. \A path \in DOMAIN w.file : GroupFits(v.file[path])
    <3> TAKE path \in DOMAIN w.file
    <3>1. CASE path = at
      <4>1. \A n \in DOMAIN w.file[at].dsets : AttrsFit(v.file[at].dsets[n].attrs)
        <5> TAKE n \in DOMAIN w.file[at].dsets
        <5>1. CASE n = name
          BY <5>1, <2>6
        <5>2. CASE n # name
          BY <5>2, <2>3, <2>4 DEF FileFits, GroupFits
        <5> QED
          BY <5>1, <5>2
      <4> QED
        BY <3>1, <4>1, <2>3, <2>4 DEF FileFits, GroupFits
    <3>2. CASE path # at
      BY Zenon, <3>2, <2>3 DEF FileFits
    <3> QED
      BY <3>1, <3>2
  <2> QED
    BY <2>2, <2>3, <2>7 DEF FileFits
<1>3. CASE \/ c.call = "add_meta_data" /\ w.at = <<>>
           \/ c.call = "add_dset_meta_data" /\ ~CanFindDset(w, c.dset)
  BY <1>3 DEF After1, AddMetaData, AddDsetMetaData
<1>4. CASE c.call \in {"open_wrapper", "close_wrapper", "close_group"}
  <2>1. After1(w, c).file = w.file
    BY <1>4 DEF After1, OpenWrapper, CloseWrapper, CloseGroup, ResultsOk
  <2> QED
    BY <2>1
<1>5. CASE c.call = "open_group"
  <2>1. After1(w, c) = IF Refuses(w, c) THEN w ELSE OpenGroup(w, c.path)
    BY <1>5 DEF After1
  <2>2. PICK path, v, f : path = c.path /\ v = OpenGroup(w, path).file /\ f = w.file
    OBVIOUS
  <2>3. v = IF path \in DOMAIN f THEN f ELSE With(f, path, EmptyGroup)
    BY <2>2 DEF OpenGroup, ResultsOk
  <2>4. GroupFits(EmptyGroup)
    BY DEF EmptyGroup, NoAttrs, GroupFits, AttrsFit
  <2>5. FileFits(v)
    BY <2>2, <2>3, <2>4 DEF FileFits, With
  <2> QED
    BY <2>1, <2>2, <2>5
<1>6. CASE c.call = "add_dset"
  <2>1. After1(w, c) = IF Refuses(w, c) THEN w ELSE AddDset(w, c.name, c.type, c.vals)
    BY <1>6 DEF After1
  <2>2. PICK a, f, name, e, h, v :
           /\ a = w.at /\ f = w.file /\ name = c.name
           /\ e = [type |-> c.type, vals |-> c.vals, attrs |-> NoAttrs]
           /\ h = [f EXCEPT ![a].dsets = With(@, name, e)]
           /\ v = AddDset(w, c.name, c.type, c.vals)
    OBVIOUS
  <2>3. v.file = h
    BY <2>2 DEF AddDset, ResultsOk
  <2>4. a \in DOMAIN f /\ GroupOk(f[a])
    BY <2>2 DEF ResultsOk, FileOk
  <2>5. h[a] = [f[a] EXCEPT !.dsets = With(@, name, e)]
    BY <2>2, <2>4
  <2>6. h[a].attrs = f[a].attrs /\ h[a].dsets = With(f[a].dsets, name, e)
    BY <2>4, <2>5 DEF GroupOk
  <2>7. AttrsFit(e.attrs)
    BY <2>2 DEF NoAttrs, AttrsFit
  <2>8. PICK ds, es : ds = f[a].dsets /\ es = h[a].dsets
    OBVIOUS
  <2>9. DOMAIN es = DOMAIN ds \cup {name} /\ \A n \in DOMAIN es : es[n] = IF n = name THEN e ELSE ds[n]
    BY <2>6, <2>8 DEF With
  <2>10. AttrsFit(f[a].attrs) /\ \A n \in DOMAIN ds : AttrsFit(ds[n].attrs)
    BY <2>2, <2>4, <2>8 DEF FileFits, GroupFits
  <2>11. \A n \in DOMAIN es : AttrsFit(es[n].attrs)
    BY <2>7, <2>9, <2>10
  <2>12. GroupFits(h[a])
    BY <2>6, <2>8, <2>10, <2>11 DEF GroupFits
  <2>13. FileFits(h)
    BY <2>2, <2>4, <2>12 DEF FileFits
  <2> QED
    BY <2>1, <2>2, <2>3, <2>13
<1> QED
  BY <1>1, <1>2, <1>3, <1>4, <1>5, <1>6 DEF GoodCall, CallKinds

\* What a call that returns has noted is there.
LEMMA NotesOfNoted ==
    ASSUME ResultsOk(results), NEW c, GoodCall(c), ~Refuses(results, c),
           HasElems(c) => ElemsFit(c.elems), c.call = "add_dset_meta_data" => c.dset.name # "",
           NEW n \in NotesOf(c)
    PROVE  IsNoted(After1(results, c).file, n)
<1>1. PICK w, e : w = results /\ e = n.elem
  OBVIOUS
<1>2. CASE c.call = "add_meta_data"
  <2>1. PICK elems, v : elems = c.elems /\ v = AddMetaData(w, elems)
    OBVIOUS
  <2>2. After1(w, c) = v /\ IsSeq(elems) /\ ElemsFit(elems) /\ CanAddMetaData(w, elems)
    BY <1>1, <1>2, <2>1 DEF After1, GoodCall, HasElems, Refuses
  <2>3. n.path = w.at /\ n.dset = "" /\ e \in ToSet(elems)
    <3>1. NotesOf(c) = {[path |-> w.at, dset |-> "", elem |-> x] : x \in ToSet(elems)}
      BY <1>1, <1>2, <2>1 DEF NotesOf
    <3>2. PICK x \in ToSet(elems) : n = [path |-> w.at, dset |-> "", elem |-> x]
      BY <3>1
    <3> QED
      BY <1>1, <3>2
  <2>4. w.at # <<>> /\ w.at \in DOMAIN w.file
    BY <1>1, <2>2 DEF CanAddMetaData, ResultsOk
  <2>5. DOMAIN v.file = DOMAIN w.file /\ Settled(v.file[w.at].attrs, e)
    <3>1. ResultsOk(w) /\ IsSeq(elems) /\ w.at # <<>>
      BY <1>1, <2>2, <2>4
    <3> QED
      BY ONLY <2>1, <2>2, <2>3, <2>4, <3>1, AddMetaDataDoes
  <2>6. Fits(e)
    BY <2>2, <2>3 DEF ElemsFit
  <2> QED
    BY <1>1, <2>2, <2>3, <2>4, <2>5, <2>6 DEF IsNoted, IsThere, AttrsOf
<1>3. CASE c.call = "add_dset_meta_data"
  <2>1. PICK elems, d, types, at, name, v :
           /\ elems = c.elems /\ d = c.dset /\ types = c.types /\ at = DsetAt(w, d) /\ name = d.name
           /\ v = AddDsetMetaData(w, d, elems, types)
    OBVIOUS
  <2>2. After1(w, c) = v /\ IsSeq(elems) /\ ElemsFit(elems) /\ CanAddDsetMetaData(w, d, elems, types)
    BY <1>1, <1>3, <2>1 DEF After1, GoodCall, HasElems, Refuses
  <2>3. n.path = at /\ n.dset = name /\ e \in ToSet(elems) /\ name # ""
    <3>1. NotesOf(c) = {[path |-> at, dset |-> name, elem |-> x] : x \in ToSet(elems)}
      BY <1>1, <1>3, <2>1 DEF NotesOf
    <3>2. PICK x \in ToSet(elems) : n = [path |-> at, dset |-> name, elem |-> x]
      BY <3>1
    <3> QED
      BY <1>1, <1>3, <2>1, <3>2
  <2>4. CanFindDset(w, d) /\ at \in DOMAIN w.file /\ name \in DOMAIN w.file[at].dsets
    BY <2>1, <2>2 DEF CanAddDsetMetaData, CanFindDset
  <2>5. /\ DOMAIN v.file = DOMAIN w.file /\ DOMAIN v.file[at].dsets = DOMAIN w.file[at].dsets
        /\ Settled(v.file[at].dsets[name].attrs, e)
    <3>1. ResultsOk(w)
      BY <1>1
    <3>2. /\ IsSeq(elems) /\ CanFindDset(w, d) /\ v = AddDsetMetaData(w, d, elems, types)
          /\ at = DsetAt(w, d) /\ name = d.name
      BY <2>1, <2>2, <2>4
    <3>3. /\ DOMAIN v.file = DOMAIN w.file
          /\ \A path \in DOMAIN w.file :
                /\ v.file[path].attrs = w.file[path].attrs
                /\ DOMAIN v.file[path].dsets = DOMAIN w.file[path].dsets
      BY ONLY <3>1, <3>2, AddDsetMetaDataDoes
    <3>4. CanAddDsetMetaData(w, d, elems, types) =>
             \A x \in ToSet(elems) : Settled(v.file[at].dsets[name].attrs, x)
      BY ONLY <3>1, <3>2, AddDsetMetaDataDoes
    <3> QED
      BY <2>2, <2>3, <2>4, <3>3, <3>4
  <2>6. Fits(e)
    BY <2>2, <2>3 DEF ElemsFit
  <2> QED
    BY <1>1, <2>2, <2>3, <2>4, <2>5, <2>6 DEF IsNoted, IsThere, AttrsOf
<1> QED
  BY <1>2, <1>3 DEF NotesOf

\* The notes of a script on a results file, and what it has read of it; no other
\* job makes any.
NotesInv ==
    /\ FileInv
    /\ job.feed # "notes" => noted = {} /\ readMd = <<>>
    /\ job.feed = "notes" =>
          /\ stage \in {"feed", "crash"} /\ feed = <<>>
          /\ FileFits(results.file)
          /\ \A n \in noted : IsNoted(results.file, n)
          /\ \A e \in ToSet(readMd) : Fits(e) /\ IsReadFrom(results.file, e)

LEMMA NotesInitGood == ProgInit => NotesInv
<1> SUFFICES ASSUME ProgInit
             PROVE  NotesInv
  OBVIOUS
<1>1. FileInv
  BY FileInitGood
<1>2. noted = {} /\ readMd = <<>> /\ ToSet(readMd) = {}
  BY DEF ProgInit, ToSet
<1>3. ASSUME job.feed = "notes"
      PROVE  stage \in {"feed", "crash"} /\ feed = <<>> /\ FileFits(results.file)
  <2>1. stage = "feed" /\ feed = <<>>
    BY <1>3 DEF ProgInit, StatInit
  <2>2. results.file = prior /\ job \in Jobs /\ prior \in Priors(job)
    BY DEF ProgInit, StatInit, WrapperOf
  <2>3. FileFits(prior)
    <3> SUFFICES ASSUME NEW path \in DOMAIN prior
                 PROVE  GroupFits(prior[path])
      BY DEF FileFits
    <3>1. \A k \in DOMAIN prior[path].attrs : Fits(prior[path].attrs[k])
      BY <2>2, PriorsAssumption
    <3>2. ASSUME NEW n \in DOMAIN prior[path].dsets,
                 NEW k \in DOMAIN prior[path].dsets[n].attrs
          PROVE  Fits(prior[path].dsets[n].attrs[k])
      BY <2>2, PriorsAssumption
    <3> QED
      BY <3>1, <3>2 DEF GroupFits, AttrsFit
  <2> QED
    BY <2>1, <2>2, <2>3
<1> QED
  BY <1>1, <1>2, <1>3 DEF NotesInv

LEMMA StatElsewhere ==
    ASSUME StatNext
    PROVE  stage \notin {"feed", "crash"}
<1>1. CASE Push \/ Hashed \/ OpenShelf \/ ReadUntracked
  BY <1>1 DEF Push, Hashed, OpenShelf, ReadUntracked, Reading
<1>2. CASE Grow \/ Place \/ ReadAll
  BY <1>2 DEF Grow, Place, ReadAll, Reading
<1>3. CASE Trim \/ FillShelf
  BY <1>3 DEF Trim, FillShelf
<1>4. CASE NoCorrelator \/ CorrelateFails \/ Correlate
  BY <1>4 DEF NoCorrelator, CorrelateFails, Correlate
<1>5. CASE MeanShelf \/ CutByLength \/ Average \/ NextTurn
  BY <1>5 DEF MeanShelf, CutByLength, Average, NextTurn
<1> QED
  BY <1>1, <1>2, <1>3, <1>4, <1>5 DEF StatNext

\* The arguments of a script's calls.
LEMMA NoteCallsFit ==
    ASSUME job \in Jobs, \A e \in ToSet(readMd) : Fits(e), NEW c \in NoteCalls
    PROVE  /\ HasElems(c) => ElemsFit(c.elems)
           /\ c.call = "add_dset_meta_data" => c.dset.name # ""
<1>1. CASE c \in ScriptCalls(job)
  BY <1>1, ScriptCallsAssumption DEF HasElems, ElemsFit
<1>2. CASE c = CallMetaData(readMd)
  BY <1>2 DEF CallMetaData, HasElems, ElemsFit
<1>3. ASSUME NEW k \in ScriptCalls(job), k.call = "add_dset_meta_data",
             c = CallDsetMetaData(k.dset, readMd, DsetStoreTypes)
      PROVE  /\ HasElems(c) => ElemsFit(c.elems)
             /\ c.call = "add_dset_meta_data" => c.dset.name # ""
  <2>1. k.dset.name # ""
    BY <1>3, ScriptCallsAssumption
  <2> QED
    BY <1>3, <2>1 DEF CallDsetMetaData, HasElems, ElemsFit
<1> QED
  BY <1>1, <1>2, <1>3 DEF NoteCalls

LEMMA NotesStepKeeps ==
    ASSUME NotesInv, NoteStep
    PROVE  NotesInv'
<1>1. FileInv /\ FileInv'
  BY FileKeeps DEF NotesInv, ProgNext
<1>2. PICK c \in NoteCalls :
         /\ results' = After1(results, c)
         /\ noted' = IF Refuses(results, c) THEN noted ELSE noted \cup NotesOf(c)
         /\ stage' = IF Dies(results, c) THEN "crash" ELSE stage
  BY DEF NoteStep
<1>3. job.feed = "notes" /\ stage = "feed" /\ UNCHANGED <<job, feed, readMd>>
  BY DEF NoteStep, Noting
<1>4. /\ feed = <<>> /\ FileFits(results.file)
      /\ \A n \in noted : IsNoted(results.file, n)
      /\ \A e \in ToSet(readMd) : Fits(e) /\ IsReadFrom(results.file, e)
  BY <1>3 DEF NotesInv
<1>5. job \in Jobs /\ ResultsOk(results) /\ IsSeq(readMd)
  BY <1>1 DEF FileInv
<1>6. GoodCall(c)
  BY <1>3, <1>5, NoteCallsGood
<1>7. (HasElems(c) => ElemsFit(c.elems)) /\ (c.call = "add_dset_meta_data" => c.dset.name # "")
  BY <1>4, <1>5, NoteCallsFit
<1>8. PICK w, v, f, g : w = results /\ v = results' /\ f = w.file /\ g = v.file
  OBVIOUS
<1>9. v = After1(w, c) /\ ResultsOk(w)
  BY <1>2, <1>5, <1>8
<1>10. Keeps(f, g)
  BY <1>6, <1>8, <1>9, After1Goes DEF Goes
<1>11. FileFits(g)
  BY <1>4, <1>6, <1>7, <1>8, <1>9, After1Fits
<1>12. \A n \in noted' : IsNoted(g, n)
  <2>1. \A n \in noted : IsNoted(g, n)
    BY <1>4, <1>8, <1>10, StillNoted
  <2>2. ~Refuses(results, c) => \A n \in NotesOf(c) : IsNoted(After1(results, c).file, n)
    BY <1>5, <1>6, <1>7, NotesOfNoted
  <2>3. After1(results, c).file = g
    BY <1>8, <1>9
  <2> QED
    BY <1>2, <2>1, <2>2, <2>3
<1>13. \A e \in ToSet(readMd) : Fits(e) /\ IsReadFrom(g, e)
  BY <1>4, <1>8, <1>10, StillReadFrom
<1> QED
  BY <1>1, <1>2, <1>3, <1>4, <1>8, <1>11, <1>12, <1>13 DEF NotesInv

\* What is read into the store is what the attributes say.
LEMMA ReadsKeep ==
    ASSUME NotesInv, job.feed = "notes", FileInv', NEW path, NEW dset,
           IsThere(results.file, path, dset),
           NEW attrs, attrs = AttrsOf(results.file, path, dset), IsFiniteSet(DOMAIN attrs),
           NEW keys \in SUBSET DOMAIN attrs,
           readMd' = ReadInto(readMd, attrs, keys),
           UNCHANGED <<job, feed, stage, results, noted>>
    PROVE  NotesInv'
<1>1. IsSeq(readMd) /\ Distinct(readMd)
  BY DEF NotesInv, FileInv
<1>2. IsFiniteSet(keys)
  BY FS_Subset
<1>3. PICK base0 : base0 = readMd
  OBVIOUS
<1>4. ToSet(ReadInto(base0, attrs, keys)) \in SUBSET
         (ToSet(base0) \cup {Elem(k, attrs[k].type, attrs[k].val) : k \in keys})
  BY <1>1, <1>2, <1>3, ReadIntoDoes
<1>5. /\ FileFits(results.file) /\ stage \in {"feed", "crash"} /\ feed = <<>>
      /\ \A n \in noted : IsNoted(results.file, n)
      /\ \A e \in ToSet(readMd) : Fits(e) /\ IsReadFrom(results.file, e)
  BY DEF NotesInv
<1>6. AttrsFit(attrs)
  BY <1>5 DEF FileFits, GroupFits, IsThere, AttrsOf
<1>7. \A k \in keys : /\ Fits(Elem(k, attrs[k].type, attrs[k].val))
                      /\ IsReadFrom(results.file, Elem(k, attrs[k].type, attrs[k].val))
  <2> TAKE k \in keys
  <2>1. PICK e : e = Elem(k, attrs[k].type, attrs[k].val)
    OBVIOUS
  <2>2. e.key = k /\ e.type = attrs[k].type /\ e.val = attrs[k].val /\ k \in DOMAIN attrs
    BY <2>1 DEF Elem
  <2>3. Fits(e)
    BY <1>6, <2>2 DEF AttrsFit, Fits
  <2>4. IsReadFrom(results.file, e)
    BY <2>2 DEF IsReadFrom, IsThere
  <2> QED
    BY <2>1, <2>3, <2>4
<1>8. \A e \in ToSet(readMd') : Fits(e) /\ IsReadFrom(results.file, e)
  BY <1>3, <1>4, <1>5, <1>7
<1> QED
  BY <1>5, <1>8 DEF NotesInv

LEMMA NotesKeeps ==
    ASSUME NotesInv, [ProgNext]_allVars
    PROVE  NotesInv'
<1>1. FileInv /\ FileInv'
  BY FileKeeps DEF NotesInv
<1>2. job.feed = "notes" => stage \in {"feed", "crash"} /\ feed = <<>>
  BY DEF NotesInv
<1>3. ASSUME job.feed # "notes", job' = job, UNCHANGED <<noted, readMd>>
      PROVE  NotesInv'
  BY <1>1, <1>3 DEF NotesInv
<1>4. CASE FeedStep
  BY <1>2, <1>3, <1>4 DEF FeedStep, fileVars, noteVars
<1>5. CASE ScriptStep
  BY <1>3, <1>5 DEF ScriptStep, fileVars, noteVars
<1>6. CASE Fed
  BY <1>3, <1>6 DEF Fed, fileVars, noteVars
<1>7. CASE Compute
  <2>1. StatNext /\ UNCHANGED <<noted, readMd>>
    BY <1>7 DEF Compute, fileVars, noteVars
  <2>2. job' = job /\ stage \notin {"feed", "crash"}
    BY <2>1, JobStays, StatElsewhere
  <2> QED
    BY <1>2, <1>3, <2>1, <2>2
<1>8. CASE StartFiling
  BY <1>2, <1>3, <1>8 DEF StartFiling, Due, noteVars
<1>9. CASE FileStep \/ FileFails
  BY <1>2, <1>3, <1>9 DEF FileStep, FileFails, Filing, noteVars
<1>10. CASE NoteStep
  BY <1>10, NotesStepKeeps
<1>11. CASE ReadGroupNotes
  <2>1. PICK path, attrs, keys :
           path = results.at /\ attrs = results.file[path].attrs /\ keys = results.keys
    OBVIOUS
  <2>2. /\ job.feed = "notes" /\ readMd' = ReadInto(readMd, attrs, keys)
        /\ UNCHANGED <<job, feed, stage, results, noted>>
    BY <1>11, <2>1 DEF ReadGroupNotes, Noting
  <2>3. ResultsOk(results)
    BY <1>1 DEF FileInv
  <2>4. path \in DOMAIN results.file /\ GroupOk(results.file[path]) /\ keys \in SUBSET DOMAIN attrs
    BY <2>1, <2>3 DEF ResultsOk, FileOk
  <2>5. PICK dset : dset = ""
    OBVIOUS
  <2>6. /\ IsThere(results.file, path, dset) /\ attrs = AttrsOf(results.file, path, dset)
        /\ IsFiniteSet(DOMAIN attrs)
    BY <2>1, <2>4, <2>5 DEF IsThere, AttrsOf, GroupOk
  <2> QED
    BY <1>1, <2>2, <2>4, <2>6, ReadsKeep
<1>12. CASE ReadDsetNotes
  <2>1. PICK c \in ScriptCalls(job) :
           /\ c.call = "add_dset_meta_data" /\ CanFindDset(results, c.dset)
           /\ readMd' = ReadInto(readMd, DsetAttrs(results, c.dset), DOMAIN DsetAttrs(results, c.dset))
    BY <1>12 DEF ReadDsetNotes
  <2>2. PICK path, dset, attrs, keys :
           /\ path = DsetAt(results, c.dset) /\ dset = c.dset.name
           /\ attrs = DsetAttrs(results, c.dset) /\ keys = DOMAIN attrs
    OBVIOUS
  <2>3. /\ job.feed = "notes" /\ readMd' = ReadInto(readMd, attrs, keys)
        /\ UNCHANGED <<job, feed, stage, results, noted>>
    BY <1>12, <2>1, <2>2 DEF ReadDsetNotes, Noting
  <2>4. ResultsOk(results) /\ job \in Jobs
    BY Zenon, <1>1 DEF FileInv
  <2>5. /\ path \in DOMAIN results.file /\ dset \in DOMAIN results.file[path].dsets
        /\ GroupOk(results.file[path]) /\ attrs = results.file[path].dsets[dset].attrs
    BY Zenon, <2>1, <2>2, <2>4 DEF ResultsOk, FileOk, CanFindDset, DsetAttrs
  <2>6. dset # ""
    BY <2>1, <2>2, <2>4, ScriptCallsAssumption
  <2>7. /\ IsThere(results.file, path, dset) /\ attrs = AttrsOf(results.file, path, dset)
        /\ IsFiniteSet(DOMAIN attrs)
    BY <2>5, <2>6 DEF IsThere, AttrsOf, GroupOk, DsetOk
  <2>8. keys \in SUBSET DOMAIN attrs
    BY <2>2
  <2> QED
    BY <1>1, <2>3, <2>7, <2>8, ReadsKeep
<1>13. CASE UNCHANGED allVars
  BY <1>1, <1>13 DEF NotesInv, allVars, statVars, feedVars, fileVars, noteVars
<1> QED
  BY <1>4, <1>5, <1>6, <1>7, <1>8, <1>9, <1>10, <1>11, <1>12, <1>13 DEF ProgNext

\* The invariant says what NotesKept asks.
LEMMA NotesKeptHolds ==
    ASSUME NotesInv
    PROVE  NotesKept
<1>1. PICK f : f = results.file
  OBVIOUS
<1>2. \A path, dset : AttrsAt(path, dset) = AttrsOf(f, path, dset)
  BY <1>1 DEF AttrsAt, AttrsOf
<1>3. \A n \in noted : IsNoted(f, n)
  BY <1>1 DEF NotesInv
<1>4. \A e \in ToSet(readMd) : IsReadFrom(f, e)
  BY <1>1 DEF NotesInv, ToSet
<1>5. ASSUME NEW n \in noted, Named(n.elem)
      PROVE  /\ CanRead(AttrsAt(n.path, n.dset), n.elem.key, n.elem.type)
             /\ AttrsAt(n.path, n.dset)[n.elem.key].val = n.elem.val
  <2>1. PICK a, e : a = AttrsOf(f, n.path, n.dset) /\ e = n.elem
    OBVIOUS
  <2>2. Fits(e) /\ Settled(a, e) /\ Named(e)
    BY <1>3, <1>5, <2>1 DEF IsNoted
  <2>3. CanRead(a, e.key, e.type) /\ a[e.key].val = e.val
    BY <2>2 DEF Settled, CanRead, Fits
  <2> QED
    BY <1>2, <2>1, <2>3
<1>6. \A i, k \in DOMAIN readMd : i # k => readMd[i].key # readMd[k].key
  BY DEF NotesInv, FileInv, Distinct
<1>7. \A e \in ToSet(readMd) :
         \E path \in DOMAIN results.file : \E dset \in {""} \cup DOMAIN results.file[path].dsets :
            LET attrs == AttrsAt(path, dset)
            IN  e.key \in DOMAIN attrs /\ attrs[e.key].type = e.type /\ attrs[e.key].val = e.val
  BY <1>1, <1>2, <1>4 DEF IsReadFrom
<1> QED
  BY <1>5, <1>6, <1>7 DEF NotesKept

\* What a script has noted in a results file is read back as it was noted,
\* whatever it notes, reads and copies afterwards and however the calls end.
THEOREM NotesKeptAlways == ProgSpec => []NotesKept
<1>1. ProgInit => NotesInv
  BY NotesInitGood
<1>2. NotesInv /\ [ProgNext]_allVars => NotesInv'
  BY NotesKeeps
<1>3. NotesInv => NotesKept
  BY NotesKeptHolds
<1> QED
  BY <1>1, <1>2, <1>3, PTL DEF ProgSpec

=============================================================================
