----------------------------- MODULE Statistics -----------------------------
(* The programs that read a tracked data set back and compute statistics of   *)
(* it: gofr and gofr_by_plane (pair correlations over the spatial hash), phi6 *)
(* (neighbourhoods), vanHove, vanHove_sweep and msd_sweep (displacements      *)
(* along tracks).  They are compositions of the same calls in the same order: *)
(* hash_case::init pushes the particles into the hash of their frame,         *)
(* Track_shelf::init puts them back into tracks, fill_in_neighborhood,        *)
(* compute_mean_disp, compute_corr and compute_corrected_TA use both.         *)
(*                                                                            *)
(* A job says which calls a program makes and with what parameters; a file is *)
(* what Master_box read: the position and track id of some of the particles.  *)
(* Each is chosen at the start and stays.  Boxes of tracks are those of       *)
(* Tracks, whose operations Track_shelf::init and the cuts are built from.    *)
EXTENDS Tracks, SpatialHash

CONSTANTS
    Jobs,       \* the jobs considered
    Files(_),   \* Files(j): the files a job j is run on
    LookUpInc   \* look_up_inc of Track_shelf::init, 100 in the code

ASSUME LookUpIncAssumption == LookUpInc \in Nat \ {0}

\* No coordinate lies a whole box below zero.
ASSUME FilesAssumption ==
    \A j \in Jobs : \A f \in Files(j) :
        /\ DOMAIN f \subseteq Particle
        /\ \A p \in DOMAIN f : \A d \in DOMAIN j.img : f[p].at[d] > -j.upb

\* Particles are numbered in the order of the file.
ASSUME NumbersAssumption == Particle \subseteq Int

\* The tracks of a file are such as the linker writes: of each track one particle
\* in every frame from its first to its last.
ASSUME TracksAssumption ==
    \A j \in Jobs : j.tracks =>
        \A f \in Files(j) : \A p, q \in DOMAIN f :
            /\ f[p].id \in Int
            /\ f[p].id >= 0 /\ f[q].id = f[p].id =>
                  /\ Frame[p] = Frame[q] => p = q
                  /\ \A n \in Frame[p] .. Frame[q] :
                        \E r \in DOMAIN f : f[r].id = f[p].id /\ Frame[r] = n

VARIABLES
    job,      \* what the program computes
    file,     \* file[p]: at is where p is, id its track id, for the p in the file
    stage,    \* the call the program makes next
    queue,    \* particles of the Master_box that the current loop has not met
    boxes,    \* boxes[f]: the hash boxes of frame f
    lookup,   \* pos_lookup_tab: every LookUpInc-th box of the list of tracks
    cur,      \* cur_track, when tracks were added for the current particle
    nhood,    \* particle::neighborhood_
    plane,    \* the frame the current loop over the shelves is at
    cum,      \* cum[f]: cumulative_disp_ of the shelf of frame f
    tally,    \* tally[c]: the bins the correlator c has counted, one by one
    added,    \* added[c]: its parts_added_
    turn,     \* turn of the sweep over minimal track lengths
    left,     \* tracks that compute_corrected_TA has not visited
    segs      \* the calls to add_disp: how far apart, from and to which particle

statVars == <<job, file, stage, queue, boxes, lookup, cur, nhood, plane, cum, tally,
              added, turn, left, segs>>

InFile == DOMAIN file
Shelf == [img |-> job.img, upb |-> job.upb]
LastFrame == job.frames - 1
Corrs == 0 .. job.cases - 1

\* particle_base::get_position.
Pos(p) == file[p].at

\* The elements of S one after the other, Before being a strict total order of them.
InOrder(S, Before(_, _)) ==
    [k \in 1 .. Cardinality(S) |->
        CHOOSE e \in S : Cardinality({d \in S : Before(d, e)}) = k - 1]

\* Master_box::priv_init: particles frame by frame, in the order of the file.
ReadingOrder(S) ==
    InOrder(S, LAMBDA p, q : Frame[p] < Frame[q] \/ (Frame[p] = Frame[q] /\ p < q))

StatInit ==
    /\ Init
    /\ job \in Jobs
    /\ file \in Files(job)
    /\ stage = IF job.feed = "no" THEN "hash" ELSE "feed"
    /\ queue = ReadingOrder(DOMAIN file)
    /\ boxes = [f \in 0 .. job.frames - 1 |->
                   [n \in 0 .. BoxCount([img |-> job.img, upb |-> job.upb]) - 1 |-> <<>>]]
    /\ lookup = <<>>
    /\ cur = NULL
    /\ nhood = [p \in DOMAIN file |-> <<>>]
    /\ plane = 0
    /\ cum = [f \in 0 .. job.frames - 1 |-> [j \in DOMAIN job.img |-> 0]]
    /\ tally = [c \in 0 .. job.cases - 1 |-> <<>>]
    /\ added = [c \in 0 .. job.cases - 1 |-> 0]
    /\ turn = 1
    /\ left = {}
    /\ segs = <<>>

\* The call that follows the one named, for this job.  "correlate" is the call
\* of gofr and gofr_by_plane, "fill" that of phi6 and of a msd_sweep with cuts.
After(call) ==
    CASE call = "hash" -> IF job.tracks THEN "open"
                          ELSE IF job.nrange > 0 THEN "fill"
                          ELSE IF job.range > 0 THEN "correlate" ELSE "done"
      [] call = "read" -> "trim"
      [] call = "trim" -> IF job.nrange > 0 THEN "fill" ELSE "mean"
      [] call = "fill" -> IF job.tracks THEN "mean" ELSE "done"
      [] call = "mean" -> "cut"
      [] OTHER -> "done"

-----------------------------------------------------------------------------
(* hash_case::init and Hash_shelf::push                                       *)

Push ==
    /\ stage = "hash" /\ queue # <<>>
    /\ LET p == Head(queue)
           n == HashFunction(Shelf, Pos(p))
       IN  IF CanHash(Shelf, Pos(p))
           THEN /\ boxes' = [boxes EXCEPT ![Frame[p]][n] = Append(@, p)]
                /\ queue' = Tail(queue)
                /\ UNCHANGED stage
           ELSE stage' = "thrown" /\ UNCHANGED <<boxes, queue>>
    /\ UNCHANGED <<trackVars, job, file, lookup, cur, nhood, plane, cum, tally, added,
                   turn, left, segs>>

Hashed ==
    /\ stage = "hash" /\ queue = <<>>
    /\ stage' = After("hash")
    /\ UNCHANGED <<trackVars, job, file, queue, boxes, lookup, cur, nhood, plane, cum,
                   tally, added, turn, left, segs>>

-----------------------------------------------------------------------------
(* Track_shelf::init(Master_box&): tracks by the ids of the file              *)

\* The first box is made whether or not there is a particle for it.
OpenShelf ==
    /\ stage = "open"
    /\ AddEmptyTrack
    /\ lookup' = <<running>>
    /\ queue' = ReadingOrder(InFile)
    /\ stage' = "read"
    /\ UNCHANGED <<job, file, boxes, cur, nhood, plane, cum, tally, added, turn, left, segs>>

\* The particle whose id is looked at, while there is one.
Reading == stage = "read" /\ queue # <<>>
Id == file[Head(queue)].id

ReadUntracked ==
    /\ Reading /\ Id < 0
    /\ queue' = Tail(queue)
    /\ UNCHANGED <<trackVars, job, file, stage, boxes, lookup, cur, nhood, plane, cum, tally,
                   added, turn, left, segs>>

\* One turn of the loop that adds tracks until there is one with this id.
Grow ==
    /\ Reading /\ Id >= trackCount
    /\ AddEmptyTrack
    /\ cur' = running
    /\ lookup' = IF (trackCount' - 1) % LookUpInc = 0 THEN Append(lookup, running) ELSE lookup
    /\ UNCHANGED <<job, file, stage, queue, boxes, nhood, plane, cum, tally, added, turn,
                   left, segs>>

\* The box n places after, or before, box t in the list of tracks.
Forward(t, n) == CHOOSE u \in shelf : t <= u /\ Cardinality({v \in shelf : t <= v /\ v < u}) = n
Backward(t, n) == CHOOSE u \in shelf : u <= t /\ Cardinality({v \in shelf : u <= v /\ v < t}) = n

\* Bug: the way back from the next entry of the table is measured from this one.
FoundBackwards(k) ==
    LET indx == k \div LookUpInc
        remin == k % LookUpInc
    IN  IF remin <= LookUpInc \div 2 \/ indx + 1 >= Len(lookup)
        THEN Forward(lookup[indx + 1], remin)
        ELSE Backward(lookup[indx + 2], remin)

\* The box of track k, looked up from the nearer entry of the table.
Found(k) ==
    LET indx == k \div LookUpInc
        remin == k % LookUpInc
    IN  IF remin <= LookUpInc \div 2 \/ indx + 1 >= Len(lookup)
        THEN Forward(lookup[indx + 1], remin)
        ELSE Backward(lookup[indx + 2], LookUpInc - remin)

Place ==
    /\ Reading /\ Id >= 0 /\ Id < trackCount
    /\ PushBack(IF cur # NULL THEN cur ELSE Found(Id), Head(queue))
    /\ cur' = NULL
    /\ queue' = Tail(queue)
    /\ UNCHANGED <<job, file, stage, boxes, lookup, nhood, plane, cum, tally, added, turn,
                   left, segs>>

ReadAll ==
    /\ stage = "read" /\ queue = <<>>
    /\ stage' = After("read")
    /\ UNCHANGED <<trackVars, job, file, queue, boxes, lookup, cur, nhood, plane, cum,
                   tally, added, turn, left, segs>>

\* remove_short_tracks(2), or (min_track_length) in vanHove.
Trim ==
    /\ stage = "trim"
    /\ RemoveShortTracks(job.trim)
    /\ stage' = After("trim")
    /\ UNCHANGED <<job, file, queue, boxes, lookup, cur, nhood, plane, cum, tally, added,
                   turn, left, segs>>

-----------------------------------------------------------------------------
(* fill_in_neighborhood                                                       *)

\* particle_base::add_to_neighborhood.
Added(p, q) ==
    Frame[q] = Frame[p] /\ q # p /\ DistanceSq(Pos(p), Pos(q)) < job.nrange * job.nrange

\* sort_neighborhood.
Nearer(p, q, r) == DistanceSq(Pos(p), Pos(q)) < DistanceSq(Pos(p), Pos(r))

AtLeastOne(n) == IF n < 1 THEN 1 ELSE n

Neighborhood(p, n) ==
    LET region == GetRegion(Shelf, boxes[Frame[p]], n,
                            AtLeastOne(InBoxes(Shelf, job.nrange)))
    IN  SortSeq(SelectSeq(region, LAMBDA q : Added(p, q)), LAMBDA q, r : Nearer(p, q, r))

\* Hash_shelf::fill_in_neighborhood for the shelf the loop is at.
FillShelf ==
    /\ stage = "fill"
    /\ nhood' = [p \in InFile |->
                    IF Frame[p] = plane
                    THEN nhood[p] \o Neighborhood(p, HashFunction(Shelf, Pos(p)))
                    ELSE nhood[p]]
    /\ plane' = IF plane < LastFrame THEN plane + 1 ELSE 0
    /\ stage' = IF plane < LastFrame THEN stage ELSE After("fill")
    /\ UNCHANGED <<trackVars, job, file, queue, boxes, lookup, cur, cum, tally, added,
                   turn, left, segs>>

-----------------------------------------------------------------------------
(* compute_corr                                                               *)

\* hash_case::compute_corr(Corr_case&): so many shelves to a correlator, the
\* rest to none.  A single Corr, as in gofr, takes every shelf.
Step == job.frames \div job.cases

MaxShelf == IF job.single THEN job.frames ELSE job.cases * Step

CorrOf(f) == IF job.single THEN 0 ELSE f \div Step

Buffer == InBoxes(Shelf, job.range)

\* Corr_gofr::compute: (int)(n_bins * sqrt(d) / max_range).
Bin(dsq) ==
    CHOOSE i \in 0 .. job.nbins :
        /\ (i * job.range) * (i * job.range) <= job.nbins * job.nbins * dsq
        /\ ((i + 1) * job.range) * ((i + 1) * job.range) > job.nbins * job.nbins * dsq

\* Bug: the particle itself is not skipped.
BinsWithSelf(p, list) ==
    LET near == SelectSeq(list, LAMBDA q : DistanceSq(Pos(p), Pos(q)) < job.range * job.range)
    IN  [k \in DOMAIN near |-> Bin(DistanceSq(Pos(p), Pos(near[k])))]

Bins(p, list) ==
    LET near == SelectSeq(list, LAMBDA q :
                    q # p /\ DistanceSq(Pos(p), Pos(q)) < job.range * job.range)
    IN  [k \in DOMAIN near |-> Bin(DistanceSq(Pos(p), Pos(near[k])))]

\* hash_box::compute_corr for one box: its particles against the region.  The
\* neighbourhoods stored in the particles would do for a range no longer than
\* theirs, which is 0 in the programs that correlate.
BoxBins(f, n) ==
    LET list == GetRegion(Shelf, boxes[f], n, Buffer)
    IN  FlattenSeq([k \in DOMAIN boxes[f][n] |-> Bins(boxes[f][n][k], list)])

\* gofr_by_plane computes the number of its correlators, which can be 0: the
\* division ends the program.
NoCorrelator ==
    /\ stage = "correlate" /\ job.cases = 0
    /\ stage' = "crash"
    /\ UNCHANGED <<trackVars, job, file, queue, boxes, lookup, cur, nhood, plane, cum,
                   tally, added, turn, left, segs>>

\* "the corr_case has more planes than the hash case", "buffer is bigger than a
\* hash dimension", "cord out of hash dimensions".
CorrelateFails ==
    /\ stage = "correlate" /\ job.cases > 0
    /\ \/ ~job.single /\ job.cases > job.frames
       \/ BufferTooBig(Shelf, Buffer)
       \/ ~InnerInDims(Shelf, Buffer)
    /\ stage' = "thrown"
    /\ UNCHANGED <<trackVars, job, file, queue, boxes, lookup, cur, nhood, plane, cum,
                   tally, added, turn, left, segs>>

\* Hash_shelf::compute_corr for the shelf the loop is at.
Correlate ==
    /\ stage = "correlate" /\ job.cases > 0
    /\ job.single \/ job.cases <= job.frames
    /\ ~BufferTooBig(Shelf, Buffer) /\ InnerInDims(Shelf, Buffer)
    /\ LET inner == InnerBoxes(Shelf, Buffer)
           c == CorrOf(plane)
       IN  /\ tally' = [tally EXCEPT ![c] =
                 @ \o FlattenSeq([k \in DOMAIN inner |-> BoxBins(plane, inner[k])])]
           /\ added' = [added EXCEPT ![c] =
                 @ + Len(FlattenSeq([k \in DOMAIN inner |-> boxes[plane][inner[k]]]))]
    /\ plane' = IF plane + 1 < MaxShelf THEN plane + 1 ELSE 0
    /\ stage' = IF plane + 1 < MaxShelf THEN stage ELSE After("correlate")
    /\ UNCHANGED <<trackVars, job, file, queue, boxes, lookup, cur, nhood, cum, turn, left,
                   segs>>

-----------------------------------------------------------------------------
(* compute_mean_disp                                                          *)

\* The particles of a frame that are linked forwards.
Linked(f) == {p \in InFile : Frame[p] = f /\ next[p] # NULL}

Disp(p, q) == Minus(Pos(q), Pos(p))

\* Bug: the mean is taken over all the particles of the frame.
MeanForwardDispOverAll(f) ==
    LET n == Cardinality({p \in InFile : Frame[p] = f})
    IN  [j \in DOMAIN job.img |->
            IF n = 0 THEN 0
            ELSE MapThenSumSet(LAMBDA p : Disp(p, next[p])[j], Linked(f)) \div n]

\* Hash_shelf::compute_mean_forward_disp: no particle, no displacement.  The
\* division is exact in the files of the instances.
MeanForwardDisp(f) ==
    LET n == Cardinality(Linked(f))
    IN  [j \in DOMAIN job.img |->
            IF n = 0 THEN 0
            ELSE MapThenSumSet(LAMBDA p : Disp(p, next[p])[j], Linked(f)) \div n]

\* The shelf keeps what had come together before it and passes on its own share.
MeanShelf ==
    /\ stage = "mean"
    /\ cum' = [f \in DOMAIN cum |->
                  IF f > plane THEN Plus(cum[f], MeanForwardDisp(plane)) ELSE cum[f]]
    /\ plane' = IF plane < LastFrame THEN plane + 1 ELSE 0
    /\ stage' = IF plane < LastFrame THEN stage ELSE After("mean")
    /\ UNCHANGED <<trackVars, job, file, queue, boxes, lookup, cur, nhood, tally, added,
                   turn, left, segs>>

\* particle_track::get_corrected_disp.
CorrectedDisp(p, q) ==
    Minus(Minus(Pos(q), cum[Frame[q]]), Minus(Pos(p), cum[Frame[p]]))

-----------------------------------------------------------------------------
(* The sweep: cut by length, then Track_shelf::compute_corrected_TA           *)

CutByLength ==
    /\ stage = "cut"
    /\ RemoveShortTracks(job.lens[turn])
    /\ left' = shelf'
    /\ segs' = <<>>
    /\ stage' = "average"
    /\ UNCHANGED <<job, file, queue, boxes, lookup, cur, nhood, plane, cum, tally, added, turn>>

\* The particles along a track; NULL behind its last one.
Walk(t) ==
    LET w[i \in 0 .. Cardinality(Particle)] ==
            IF i = 0 THEN first[t]
            ELSE IF w[i - 1] = NULL THEN NULL ELSE next[w[i - 1]]
    IN  w

\* Bug: the next segment starts one step on, not where the last one ended.
SegmentsOverlapping(t, s) ==
    LET w == Walk(t)
        starts == {i \in 0 .. length[t] : i + s \in DOMAIN w /\ w[i + s] # NULL}
        order == InOrder(starts, <)
    IN  [k \in DOMAIN order |-> <<s, w[order[k]], w[order[k] + s]>>]

\* compute_corrected_TA, one track and one number of steps: each segment starts
\* where the one before ended.
Segments(t, s) ==
    LET w == Walk(t)
        starts == {i \in 0 .. length[t] : i % s = 0 /\ i + s \in DOMAIN w /\ w[i + s] # NULL}
        order == InOrder(starts, <)
    IN  [k \in DOMAIN order |-> <<s, w[order[k]], w[order[k] + s]>>]

\* The segments of s steps of the tracks in S, one track after the other.
SegmentsOf(S, s) == FlattenSeq([k \in 1 .. Cardinality(S) |-> Segments(InOrder(S, <)[k], s)])

Squares(g) == [k \in DOMAIN g |-> SquareSum(CorrectedDisp(g[k][2], g[k][3]))]
Sum0(q) == FoldLeft(LAMBDA x, y : x + y, 0, q)

\* Track_shelf::msd: for each track that has such steps, the sum and the number
\* it divides it by before the tracks are averaged; the drift stays in.
Msd(s) ==
    LET of == InOrder({t \in shelf : s - 1 < length[t] - 1}, <)
        Raw(g) == [k \in DOMAIN g |-> DistanceSq(Pos(g[k][2]), Pos(g[k][3]))]
    IN  [k \in DOMAIN of |-> <<Sum0(Raw(Segments(of[k], s))), Len(Segments(of[k], s))>>]

\* Track_shelf::msd_corrected, for the matlab programs: for each number of steps
\* what the three counted vectors hold; the sum of the roots, which is not of
\* integers, is left out.  A track is asked only for steps that it has.
MsdCorrected(s) ==
    LET sq == Squares(SegmentsOf({t \in shelf : s - 1 < length[t] - 1}, s))
    IN  [msd |-> Sum0(sq), msd_sq |-> Sum0([k \in DOMAIN sq |-> sq[k] * sq[k]]),
         count |-> Len(sq)]

\* Track_shelf::disp_sq_hist: the points given to the histogram, for any number
\* of steps; a track that is too short is found so by step_forwards.
DispSqPoints(s) == Squares(SegmentsOf(shelf, s))

\* The tests of compute_corrected_TA_ncuts.
Violates(p) ==
    \/ job.nmin < 0 /\ Len(nhood[p]) < job.nmin
    \/ job.nmax < 0 /\ Len(nhood[p]) > job.nmax

\* One turn of its loop: at is current, to is next, bad is neighbor_violation.
CutsTurn(w, s, state) ==
    LET Past(k) == state.to + k \notin DOMAIN w \/ w[state.to + k] = NULL
        stop == {k \in 1 .. s : Past(k) \/ Violates(w[state.to + k])}
        k1 == CHOOSE k \in stop : \A m \in stop : k <= m
        reached == state.to + (IF stop = {} THEN s ELSE k1)
        bad == state.bad \/ stop # {}
        over == state.at + s \notin DOMAIN w \/ w[state.at + s] = NULL
    IN  IF state.end \/ Violates(w[state.to]) \/ (stop # {} /\ Past(k1))
        THEN [state EXCEPT !.end = TRUE]
        ELSE IF bad
        THEN [state EXCEPT !.at = state.at + s, !.to = reached, !.bad = TRUE, !.end = over]
        ELSE [state EXCEPT !.at = reached, !.to = reached,
                           !.out = Append(@, <<s, w[state.at], w[reached]>>)]

\* compute_corrected_TA_ncuts, one track and one number of steps.
SegmentsNcuts(t, s) ==
    LET w == Walk(t)
        turns[i \in 0 .. Cardinality(Particle)] ==
            IF i = 0 THEN [at |-> 0, to |-> 0, bad |-> FALSE, end |-> FALSE, out |-> <<>>]
            ELSE CutsTurn(w, s, turns[i - 1])
    IN  turns[Cardinality(Particle)].out

\* msd_sweep calls the one with cuts when either bound is given.
WithCuts == ~(job.nmin < 0 /\ job.nmax < 0)

\* max_step of the accumulator: one less than the minimal length in the sweeps,
\* a parameter of its own in vanHove.
MaxStep == IF job.maxstep > 0 THEN job.maxstep ELSE job.lens[turn] - 1

\* The call for the next track of the list.  No track is empty: the short ones have
\* been trimmed, so length - 1 does not wrap.
Average ==
    /\ stage = "average" /\ left # {}
    /\ LET t == CHOOSE u \in left : \A v \in left : u <= v
           most == IF length[t] - 1 < MaxStep THEN length[t] - 1 ELSE MaxStep
           all == [s \in 1 .. most |-> IF WithCuts THEN SegmentsNcuts(t, s) ELSE Segments(t, s)]
       IN  /\ segs' = segs \o FlattenSeq(all)
           /\ left' = left \ {t}
    /\ UNCHANGED <<trackVars, job, file, stage, queue, boxes, lookup, cur, nhood, plane, cum,
                   tally, added, turn>>

NextTurn ==
    /\ stage = "average" /\ left = {}
    /\ stage' = IF turn < Len(job.lens) THEN "cut" ELSE "done"
    /\ turn' = IF turn < Len(job.lens) THEN turn + 1 ELSE turn
    /\ UNCHANGED <<trackVars, job, file, queue, boxes, lookup, cur, nhood, plane, cum,
                   tally, added, left, segs>>

StatNext ==
    \/ Push \/ Hashed
    \/ OpenShelf \/ ReadUntracked \/ Grow \/ Place \/ ReadAll \/ Trim
    \/ FillShelf
    \/ NoCorrelator \/ CorrelateFails \/ Correlate
    \/ MeanShelf
    \/ CutByLength \/ Average \/ NextTurn

StatSpec == StatInit /\ [][StatNext]_<<trackVars, statVars>>

-----------------------------------------------------------------------------
(* Properties                                                                 *)

Filled == job.nrange > 0 /\ (stage = "mean" \/ stage = "done")

\* The neighbourhood of a particle is every other particle of its frame within
\* the range, wherever the borders of the boxes and of the image run between
\* them, each once and the nearest first (fill_in_neighborhood, get_region).
NeighborhoodsRight ==
    Filled =>
        \A p \in InFile :
            LET near == {q \in InFile : /\ Frame[q] = Frame[p] /\ q # p
                                       /\ DistanceSq(Pos(p), Pos(q)) < job.nrange * job.nrange}
            IN  /\ ToSet(nhood[p]) = near
                /\ Len(nhood[p]) = Cardinality(near)
                /\ \A i, k \in DOMAIN nhood[p] :
                      i < k => DistanceSq(Pos(p), Pos(nhood[p][i])) <=
                               DistanceSq(Pos(p), Pos(nhood[p][k]))

Correlated == job.range > 0 /\ stage = "done"

\* The particles whose coordinates put them Buffer boxes from the low border and
\* more than Buffer from the high one.
Inner(p) ==
    \A j \in DOMAIN job.img :
        /\ Buffer * job.upb <= Pos(p)[j]
        /\ Pos(p)[j] < (HashDims(Shelf)[j] - Buffer - 1) * job.upb

\* The image has room for an inner box along some axis.
RoomInside == \E j \in DOMAIN job.img : InnerSides(Shelf, Buffer)[j] >= 0

\* What correlator c is to count, by its share of the planes: the particles
\* away from the borders, and their pairs as far apart as bin i says.
PlanesOf(c) == {f \in 0 .. LastFrame : job.single \/ (c * Step <= f /\ f < (c + 1) * Step)}
CentersOf(c) == {p \in InFile : Frame[p] \in PlanesOf(c) /\ Inner(p)}
PairsOf(c, i) ==
    {l \in CentersOf(c) \X InFile :
        /\ Frame[l[2]] = Frame[l[1]] /\ l[2] # l[1]
        /\ DistanceSq(Pos(l[1]), Pos(l[2])) < job.range * job.range
        /\ Bin(DistanceSq(Pos(l[1]), Pos(l[2]))) = i}

\* Around every particle taken as a centre the whole range lies in the image, so
\* that no distance is counted too rarely: what leaving out the boxes at the
\* edges is for (Hash_shelf::compute_corr).  Not so where the image has no room
\* for an inner box on either axis and the two negative sides make one.
CentersInside ==
    Correlated /\ RoomInside =>
        \A f \in 0 .. MaxShelf - 1 :
            \A n \in ToSet(InnerBoxes(Shelf, Buffer)) :
                \A p \in ToSet(boxes[f][n]) : \A j \in DOMAIN job.img :
                    job.range <= Pos(p)[j] /\ Pos(p)[j] + job.range <= job.img[j]

\* A correlator has counted, in every bin, the pairs of a particle away from the
\* borders with any other of its frame at such a distance, each direction once,
\* and knows how many particles that was; every plane of its share went into
\* it, and no other; and a centre has the whole range around it
\* (hash_case::compute_corr, Corr_gofr::compute).
CountsRight ==
    /\ CentersInside
    /\ Correlated /\ RoomInside =>
         \A c \in Corrs :
             /\ added[c] = Cardinality(CentersOf(c))
             /\ \A k \in DOMAIN tally[c] : tally[c][k] \in 0 .. job.nbins - 1
             /\ \A i \in 0 .. job.nbins - 1 :
                   Cardinality({k \in DOMAIN tally[c] : tally[c][k] = i}) =
                   Cardinality(PairsOf(c, i))

OfTrack(k) == {p \in InFile : file[p].id = k}

\* After Track_shelf::init track k of the list is the particles with id k,
\* linked frame by frame, and there is no track beyond the highest id, whatever
\* the order the ids were met in and whichever way the table led to a box.
TracksAsWritten ==
    stage = "trim" =>
        /\ ~thrown
        /\ shelf = 0 .. (IF InFile = {} THEN 0
                         ELSE Max({0} \cup {file[p].id : p \in InFile}))
        /\ \A k \in shelf :
              /\ length[k] = Cardinality(OfTrack(k))
              /\ \A p \in OfTrack(k) :
                    /\ track[p] = k
                    /\ \A q \in OfTrack(k) :
                          (Frame[q] = Frame[p] + 1) <=> (next[p] = q)

Averaged == stage = "average" /\ left = {}

\* Every track of the minimal length has given, for every number of steps, as
\* many displacements as fit into it one after the other, each between two
\* particles of that track that far apart in time, and no shorter track has
\* given any; and msd, msd_corrected and disp_sq_hist, which walk the tracks with
\* other bounds, sum and sort the same displacements and never average none.
DisplacementsRight ==
    Averaged /\ ~WithCuts =>
        /\ \A i \in DOMAIN segs :
              LET s == segs[i][1]
                  p == segs[i][2]
                  q == segs[i][3]
              IN  /\ Frame[q] = Frame[p] + s
                  /\ file[p].id = file[q].id /\ file[p].id >= 0
                  /\ \A k \in DOMAIN segs :
                        k # i /\ segs[k][1] = s /\ file[segs[k][2]].id = file[p].id =>
                            Frame[segs[k][2]] >= Frame[q] \/ Frame[segs[k][3]] <= Frame[p]
        /\ \A k \in {file[p].id : p \in InFile} \ {-1}, s \in 1 .. MaxStep :
              LET n == Cardinality(OfTrack(k))
              IN  Cardinality({i \in DOMAIN segs : segs[i][1] = s /\ file[segs[i][2]].id = k}) =
                  IF n < job.lens[turn] THEN 0 ELSE (n - 1) \div s
        /\ \A s \in 1 .. LastFrame :
              LET links == {l \in InFile \X InFile :
                               /\ file[l[1]].id = file[l[2]].id /\ file[l[1]].id >= 0
                               /\ Frame[l[2]] = Frame[l[1]] + s
                               /\ LET t == OfTrack(file[l[1]].id)
                                  IN  /\ Cardinality(t) >= job.lens[turn]
                                      /\ (Frame[l[1]] - Min({Frame[p] : p \in t})) % s = 0}
                  SumOver(Of(_)) ==
                      MapThenSumSet(LAMBDA l : Of(SquareSum(CorrectedDisp(l[1], l[2]))), links)
              IN  /\ MsdCorrected(s) = [msd |-> SumOver(LAMBDA x : x),
                                        msd_sq |-> SumOver(LAMBDA x : x * x),
                                        count |-> Cardinality(links)]
                  /\ Sum0(DispSqPoints(s)) = MsdCorrected(s).msd
                  /\ \A k \in DOMAIN Msd(s) : Msd(s)[k][2] > 0
                  /\ Sum0([k \in DOMAIN Msd(s) |-> Msd(s)[k][1]]) =
                     MapThenSumSet(LAMBDA l : DistanceSq(Pos(l[1]), Pos(l[2])), links)
                  /\ Len(DispSqPoints(s)) = Cardinality(links)

\* While the tracks are those the drift was taken from, nothing of it is left:
\* the corrected one-step displacements out of each frame add up to zero.
DriftRemoved ==
    Averaged /\ ~WithCuts /\ job.lens[turn] <= job.trim =>
        \A f \in 0 .. LastFrame, j \in DOMAIN job.img :
            MapThenSumSet(LAMBDA i : CorrectedDisp(segs[i][2], segs[i][3])[j],
                          {i \in DOMAIN segs : segs[i][1] = 1 /\ Frame[segs[i][2]] = f}) = 0

\* What track_shelf.h says of compute_corrected_TA_ncuts: it "makes cuts based on
\* the number of neighbors a particles has".  A displacement that is counted
\* runs over particles with as many neighbours as were asked for.
CutsMade ==
    Averaged /\ WithCuts =>
        \A i \in DOMAIN segs : \A p \in OfTrack(file[segs[i][2]].id) :
            Frame[segs[i][2]] <= Frame[p] /\ Frame[p] <= Frame[segs[i][3]] =>
                /\ job.nmin >= 0 => Len(nhood[p]) >= job.nmin
                /\ job.nmax >= 0 => Len(nhood[p]) <= job.nmax

=============================================================================
