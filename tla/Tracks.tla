------------------------------- MODULE Tracks -------------------------------
(* The linked structure the tracking programs build: particle_track objects   *)
(* chained through next_ and prev_, the Track_box objects that own the        *)
(* chains, and the Track_shelf list that owns the boxes                       *)
(* (common_src/cxx/particle_track.cpp, track_box.cpp, track_shelf.cpp).       *)
(*                                                                            *)
(* Every pointer that the code keeps twice (next/prev, a particle's track     *)
(* against its box's first/last/length) is kept twice here too, because the   *)
(* agreement of the copies is what can go wrong.  A Track_box is named by the *)
(* value running_count_ had when it was built, so the order of the names is   *)
(* the order of the std::list the boxes were appended to.                     *)
EXTENDS Naturals, FiniteSets

CONSTANTS
    Particle,   \* the particle_track objects
    Frame,      \* Frame[p] is the frame (or z plane) p was found in
    NULL,       \* the null pointer
    MaxTracks   \* bound: Track_box objects built in a behaviour

Box == 0 .. MaxTracks - 1

ASSUME ParticleAssumption == IsFiniteSet(Particle) /\ Frame \in [Particle -> Nat]
ASSUME NullAssumption == NULL \notin Particle /\ NULL \notin Box
ASSUME MaxTracksAssumption == MaxTracks \in Nat

VARIABLES
    next,       \* particle_track::next_
    prev,       \* particle_track::prev_
    track,      \* particle_track::track_
    first,      \* Track_box::t_first_
    last,       \* Track_box::t_last_
    length,     \* Track_box::length_
    id,         \* Track_box::id_
    running,    \* Track_box::running_count_
    shelf,      \* Track_shelf::tracks_ of the shelf the linker fills
    trackCount, \* Track_shelf::track_count_ of that shelf
    parts,      \* tracks_ of the second shelf, filled by split_to_parts
    thrown      \* the runtime_error "nuking the list" has been thrown

trackVars == <<next, prev, track, first, last, length, id, running, shelf,
               trackCount, parts, thrown>>

ParticleOrNull == Particle \cup {NULL}

Init ==
    /\ next = [p \in Particle |-> NULL]
    /\ prev = [p \in Particle |-> NULL]
    /\ track = [p \in Particle |-> NULL]
    /\ first = [t \in Box |-> NULL]
    /\ last = [t \in Box |-> NULL]
    /\ length = [t \in Box |-> 0]
    /\ id = [t \in Box |-> 0]
    /\ running = 0
    /\ shelf = {}
    /\ trackCount = 0
    /\ parts = {}
    /\ thrown = FALSE

-----------------------------------------------------------------------------
(* Walking a chain                                                            *)

\* The particles a walk along next_ from p meets: the least set that holds p
\* and is closed under next_.
Chain(p) ==
    {q \in Particle :
        \A S \in SUBSET Particle :
            (p \in S /\ \A r \in S : next[r] # NULL => next[r] \in S) => q \in S}

ChainEnd(p) == CHOOSE q \in Chain(p) : next[q] = NULL

\* Track_box::at for an index inside the track.  A track has one particle in
\* every frame from that of t_first_ on (Span and OnePerFrame below), so n
\* steps along it lead to the particle n frames later.
At(t, n) == CHOOSE q \in Chain(first[t]) : Frame[q] = Frame[first[t]] + n

\* The particles a loop over length_ steps from t_first_ stands on, and where it
\* stands behind the last step; NULL once it has walked off the end.
WalkOf(t) ==
    LET at[k \in 0 .. length[t]] ==
            IF k = 0 THEN first[t] ELSE IF at[k - 1] = NULL THEN NULL ELSE next[at[k - 1]]
    IN  at

WalksOff(t, steps) == \E k \in 0 .. steps - 1 : WalkOf(t)[k] = NULL

\* Track_box::extract_raw_pos, for the scripts: a track that is shorter or
\* longer than length_ makes it throw.  rows is dims[0], how many rows a script
\* is told that out has.
ExtractRawPos(t) ==
    [ends |-> IF WalksOff(t, length[t]) \/ WalkOf(t)[length[t]] # NULL
              THEN "thrown" ELSE "returned",
     rows |-> length[t],
     out |-> [k \in 1 .. length[t] |-> WalkOf(t)[k - 1]]]

\* extract_corrected_pos follows the pointer unseen.
ExtractCorrectedPos(t) ==
    [ends |-> IF WalksOff(t, length[t]) THEN "crash"
              ELSE IF WalkOf(t)[length[t]] # NULL THEN "thrown" ELSE "returned",
     rows |-> length[t],
     out |-> [k \in 1 .. length[t] |-> WalkOf(t)[k - 1]]]

\* Bug: as many displacements as particles.
ExtractDispWhole(t) ==
    [ends |-> IF first[t] = NULL \/ WalksOff(t, length[t]) \/ WalkOf(t)[length[t]] = NULL
              THEN "crash" ELSE "thrown",
     rows |-> length[t],
     out |-> [k \in 1 .. length[t] |-> <<WalkOf(t)[k - 1], WalkOf(t)[k]>>]]

\* extract_raw_disp and extract_corrected_disp: from each particle to the next.
\* The first one is followed before the loop has looked at length_.  dims[0] is
\* length_ here too, which is one row more than the loop fills in.
ExtractDisp(t) ==
    [ends |-> IF first[t] = NULL \/ WalksOff(t, length[t]) THEN "crash"
              ELSE IF WalkOf(t)[length[t]] # NULL THEN "thrown" ELSE "returned",
     rows |-> length[t],
     out |-> [k \in 1 .. length[t] - 1 |-> <<WalkOf(t)[k - 1], WalkOf(t)[k]>>]]

-----------------------------------------------------------------------------
(* Track_box and Track_shelf operations                                       *)

\* Track_box(first): the new box takes the particle and all that follow it.
BuildBox(p) ==
    /\ running < MaxTracks
    /\ track' = [q \in Particle |-> IF q \in Chain(p) THEN running ELSE track[q]]
    /\ first' = [first EXCEPT ![running] = p]
    /\ last' = [last EXCEPT ![running] = ChainEnd(p)]
    /\ length' = [length EXCEPT ![running] = Cardinality(Chain(p))]
    /\ id' = [id EXCEPT ![running] = running]
    /\ running' = running + 1

\* Bug: add_new_track without ++track_count_.
AddNewTrackUncounted(p) ==
    /\ BuildBox(p)
    /\ shelf' = shelf \cup {running}
    /\ UNCHANGED <<next, prev, trackCount, parts, thrown>>

\* Track_shelf::add_new_track.
AddNewTrack(p) ==
    /\ BuildBox(p)
    /\ shelf' = shelf \cup {running}
    /\ trackCount' = trackCount + 1
    /\ UNCHANGED <<next, prev, parts, thrown>>

\* Track_shelf::add_track(new Track_box(NULL)), as Track_shelf::init calls it.
AddEmptyTrack ==
    /\ running < MaxTracks
    /\ id' = [id EXCEPT ![running] = running]
    /\ running' = running + 1
    /\ shelf' = shelf \cup {running}
    /\ trackCount' = trackCount + 1
    /\ UNCHANGED <<next, prev, track, first, last, length, parts, thrown>>

\* Bug: reset_track starts counting at 0 instead of at the box's length.
JoinTailUncounted(t, p, count) ==
    /\ track' = [q \in Particle |-> IF q \in Chain(p) THEN t ELSE track[q]]
    /\ length' = [length EXCEPT ![t] = Cardinality(Chain(p))]
    /\ last' = [last EXCEPT ![t] = ChainEnd(p)]

\* particle_track::reset_track(t, count): the tail from p joins track t.
JoinTail(t, p, count) ==
    /\ track' = [q \in Particle |-> IF q \in Chain(p) THEN t ELSE track[q]]
    /\ length' = [length EXCEPT ![t] = count + Cardinality(Chain(p))]
    /\ last' = [last EXCEPT ![t] = ChainEnd(p)]

\* Track_box::push_back on a box with no particle yet.
PushFirst(t, p) ==
    /\ last[t] = NULL
    /\ first' = [first EXCEPT ![t] = p]
    /\ JoinTail(t, p, 0)
    /\ UNCHANGED <<next, prev, id, running, shelf, trackCount, parts, thrown>>

\* Track_box::push_back on a box that has a last particle.  set_next and
\* set_prev throw "nuking the list" when the pointer they set is not null: the
\* first before anything has changed, the second when set_next has been done.
PushNext(t, p) ==
    /\ last[t] # NULL
    /\ thrown' = (thrown \/ next[last[t]] # NULL \/ prev[p] # NULL)
    /\ next' = IF next[last[t]] = NULL THEN [next EXCEPT ![last[t]] = p] ELSE next
    /\ IF thrown'
       THEN UNCHANGED <<prev, track, length, last>>
       ELSE prev' = [prev EXCEPT ![p] = last[t]] /\ JoinTail(t, p, length[t])
    /\ UNCHANGED <<first, id, running, shelf, trackCount, parts>>

PushBack(t, p) == PushFirst(t, p) \/ PushNext(t, p)

\* Bug: ~Track_box reads get_next() after clear_track_data() and stops at once.
ReleasedFirstOnly(D) == {first[t] : t \in {u \in D : first[u] # NULL}}

\* ~Track_box for every box of D: the walk from t_first_ clears each particle.
Released(D) == UNION {Chain(first[t]) : t \in {u \in D : first[u] # NULL}}

\* Track_shelf::remove_track_internal_ for every box of D.
DeleteBoxes(D) ==
    /\ next' = [p \in Particle |-> IF p \in Released(D) THEN NULL ELSE next[p]]
    /\ prev' = [p \in Particle |-> IF p \in Released(D) THEN NULL ELSE prev[p]]
    /\ track' = [p \in Particle |-> IF p \in Released(D) THEN NULL ELSE track[p]]
    /\ shelf' = shelf \ D
    /\ trackCount' = trackCount - Cardinality(D)
    /\ UNCHANGED <<first, last, length, id, running, parts, thrown>>

\* Track_shelf::remove_short_tracks(n).
RemoveShortTracks(n) == DeleteBoxes({t \in shelf : length[t] < n})

\* Track_shelf::renumber: ids 0, 1, 2, ... in list order.
Renumber ==
    /\ id' = [t \in Box |-> IF t \in shelf THEN Cardinality({u \in shelf : u < t})
                                           ELSE id[t]]
    /\ UNCHANGED <<next, prev, track, first, last, length, running, shelf,
                   trackCount, parts, thrown>>

\* One cut of Track_box::split_to_parts: split_track(lo) makes a new box of the
\* particles from index lo on, trim_track(0, hi - lo) keeps its first hi - lo
\* particles and clears the rest, and the box goes to the output shelf.
CutPart(t, lo, hi) ==
    LET a == At(t, lo)
        z == At(t, hi - 1)
        rest == Chain(z) \ {z}
    IN  /\ running < MaxTracks
        /\ 0 <= lo /\ lo < hi /\ hi <= length[t]
        /\ next' = [p \in Particle |->
                      IF p = z \/ p \in rest \/ p = prev[a] THEN NULL ELSE next[p]]
        /\ prev' = [p \in Particle |->
                      IF p = a \/ p \in rest THEN NULL ELSE prev[p]]
        /\ track' = [p \in Particle |->
                       IF p \in rest THEN NULL
                       ELSE IF p \in Chain(a) THEN running ELSE track[p]]
        /\ first' = [first EXCEPT ![t] = IF lo = 0 THEN NULL ELSE @,
                                  ![running] = a]
        /\ last' = [last EXCEPT ![t] = prev[a], ![running] = z]
        /\ length' = [length EXCEPT ![t] = lo, ![running] = hi - lo]
        /\ id' = [id EXCEPT ![running] = running]
        /\ running' = running + 1
        /\ parts' = parts \cup {running}
        /\ UNCHANGED <<shelf, trackCount, thrown>>

-----------------------------------------------------------------------------
(* The legal calls.  The linker, Track_shelf::init and hash_case::init hand   *)
(* over particles that are in no track, frame by frame.                       *)

Free(p) == track[p] = NULL

Follows(t, p) == last[t] # NULL => Frame[p] = Frame[last[t]] + 1

Next ==
    \/ \E p \in Particle : Free(p) /\ AddNewTrack(p)
    \/ AddEmptyTrack
    \/ \E t \in shelf, p \in Particle : Free(p) /\ Follows(t, p) /\ PushBack(t, p)
    \/ \E n \in 0 .. Cardinality(Particle) + 1 : RemoveShortTracks(n)
    \/ Renumber
    \/ \E t \in shelf, lo, hi \in 0 .. Cardinality(Particle) : CutPart(t, lo, hi)

Spec == Init /\ [][Next]_trackVars

-----------------------------------------------------------------------------
(* Properties                                                                 *)

Live == shelf \cup parts

\* Every variable keeps its type.
TypeOK ==
    /\ next \in [Particle -> ParticleOrNull]
    /\ prev \in [Particle -> ParticleOrNull]
    /\ track \in [Particle -> Box \cup {NULL}]
    /\ first \in [Box -> ParticleOrNull]
    /\ last \in [Box -> ParticleOrNull]
    /\ length \in [Box -> Nat]
    /\ id \in [Box -> Nat]
    /\ running \in 0 .. MaxTracks
    /\ shelf \subseteq Box
    /\ trackCount \in Nat
    /\ parts \subseteq Box
    /\ thrown \in BOOLEAN

\* The two directions of the list agree, however tracks were linked, deleted
\* and cut: q is the next of p exactly when p is the prev of q.
Reciprocal == \A p, q \in Particle : next[p] = q <=> prev[q] = p

\* Linked particles belong to one track and sit in consecutive frames; a
\* particle of no track is linked to nothing.
OneTrackAlongChain ==
    \A p \in Particle :
        /\ track[p] = NULL => next[p] = NULL /\ prev[p] = NULL
        /\ next[p] # NULL =>
              track[next[p]] = track[p] /\ Frame[next[p]] = Frame[p] + 1

\* No particle points to a Track_box that has been deleted.
NoDanglingTrack == \A p \in Particle : track[p] # NULL => track[p] \in Live

\* A box's t_first_ and t_last_ are the only ends among its particles, and a
\* box without a first particle owns none and has length 0.
EndsAgree ==
    \A t \in Live :
        /\ first[t] = NULL <=> last[t] = NULL
        /\ first[t] # NULL => track[first[t]] = t /\ track[last[t]] = t
        /\ \A p \in Particle :
              track[p] = t => /\ first[t] # NULL
                              /\ prev[p] = NULL <=> p = first[t]
                              /\ next[p] = NULL <=> p = last[t]

\* No track holds two particles of one frame.
OnePerFrame ==
    \A p, q \in Particle :
        track[p] # NULL /\ track[p] = track[q] /\ Frame[p] = Frame[q] => p = q

\* length_ counts the frames from first to last, and every particle of the
\* track is in one of them: no gap and nothing beyond the ends.
Span ==
    \A t \in Live :
        IF first[t] = NULL
        THEN length[t] = 0
        ELSE /\ Frame[last[t]] + 1 = Frame[first[t]] + length[t]
             /\ \A p \in Particle :
                   track[p] = t => /\ Frame[first[t]] <= Frame[p]
                                   /\ Frame[p] <= Frame[last[t]]

\* The boxes of the two shelves are distinct objects that have been built, and
\* one that has not been built is empty.
BoxesBuilt ==
    /\ \A t \in Live : t < running
    /\ shelf \cap parts = {}
    /\ \A t \in Box : t >= running =>
          first[t] = NULL /\ last[t] = NULL /\ length[t] = 0

\* track_count_ is the length of the list.
CountAgrees == trackCount = Cardinality(shelf)

\* Linking never runs into the guard of set_next and set_prev.
NeverNukes == ~thrown

\* All of the above: what every operation of the three classes preserves.
ChainInv ==
    /\ Reciprocal
    /\ OneTrackAlongChain
    /\ NoDanglingTrack
    /\ EndsAgree
    /\ OnePerFrame
    /\ Span
    /\ BoxesBuilt
    /\ NeverNukes

\* The cached length is the number of particles a walk from t_first_ meets,
\* which is what every loop "for j < length_" over the chain relies on.
LengthIsWalk ==
    \A t \in Live :
        first[t] # NULL => /\ length[t] = Cardinality(Chain(first[t]))
                           /\ ChainEnd(first[t]) = last[t]

\* Whatever was linked, cut and deleted before, reading a track out for a script
\* neither throws nor follows a null pointer: it fills in the particles in the
\* order of the frames, as many rows as dims tells, or each step between two of
\* them once (the four extract functions of Track_box, which trust length_ in
\* different ways).  For the steps dims is wrong: it tells of a row for every
\* particle, and there is one step less, so a script that reads as many rows as
\* it is told goes one past the last of them.  The steps of a track whose
\* particles are all cut away cannot be read out at all.
ExtractedInOrder ==
    \A t \in Live :
        LET mine == {p \in Particle : track[p] = t}
            n == Cardinality(mine)
            inOrder == [k \in 1 .. n |->
                           CHOOSE p \in mine :
                               Cardinality({q \in mine : Frame[q] < Frame[p]}) = k - 1]
            steps == [k \in 1 .. n - 1 |-> <<inOrder[k], inOrder[k + 1]>>]
        IN  /\ ExtractRawPos(t) = [ends |-> "returned", rows |-> n, out |-> inOrder]
            /\ ExtractCorrectedPos(t) = [ends |-> "returned", rows |-> n, out |-> inOrder]
            /\ mine # {} =>
                  ExtractDisp(t) = [ends |-> "returned", rows |-> n, out |-> steps]

=============================================================================
