----------------------------- MODULE TrackParts -----------------------------
(* Track_box::split_to_parts (common_src/cxx/track_box.cpp): when the "time"  *)
(* of a track is the depth z, one track may run through several particles.    *)
(* The code finds the local maxima of the intensity along the track, drops    *)
(* the ones that crowd each other, gives each of the others a region and cuts *)
(* the regions out, the last one first.                                       *)
(*                                                                            *)
(* Module Tracks has the effect of one cut on the linked structure (CutPart); *)
(* this module has what decides the cuts, and what at(), split_track and      *)
(* trim_track do when a region does not fit the track that is left.  Then     *)
(* link3D writes one particle for every new track: Track_shelf::              *)
(* output_link_to_wrapper with the centre of the track's intensity.           *)
EXTENDS Integers, Sequences, FiniteSets, SequencesExt, FiniteSetsExt

CONSTANTS
    Lengths,     \* lengths of the track
    Intensities, \* values of D_I along it
    NULL         \* the null pointer

ASSUME PartsAssumption ==
    Lengths \subseteq Nat /\ Intensities \subseteq Nat /\ NULL \notin Int

Buffer == 2

VARIABLES
    I,      \* intensity of the particles 0, 1, ... of the track
    peaks,  \* peak_indx
    j,      \* the index of the loops (1 is the first particle, the first peak)
    left,   \* regions still to be cut
    length, \* length_ of what is left of the track
    parts,  \* index ranges <<from, to>> of the tracks on the output shelf
    stored, \* the particles in the group of the output file
    pc

vars == <<I, peaks, j, left, length, parts, stored, pc>>

Size == Cardinality(DOMAIN I)

Init ==
    /\ \E n \in Lengths : I \in [0 .. n - 1 -> Intensities]
    /\ peaks = <<>> /\ j = 1 /\ left = 0
    /\ length = Size
    /\ parts = <<>>
    /\ stored = <<>>
    /\ pc = "peaks"

-----------------------------------------------------------------------------
(* Local maxima                                                               *)

\* The ends of the track are no local maxima, and equal neighbours both are.
IsPeak(k) == /\ k > 0 /\ k < Size - 1
             /\ I[k - 1] <= I[k] /\ I[k + 1] <= I[k]

LocalMaxima == {k \in DOMAIN I : IsPeak(k)}

\* One turn for each particle.
FindPeaks ==
    /\ pc = "peaks" /\ j <= Size
    /\ peaks' = IF IsPeak(j - 1) THEN Append(peaks, j - 1) ELSE peaks
    /\ j' = j + 1
    /\ UNCHANGED <<I, left, length, parts, stored, pc>>

AllFound ==
    /\ pc = "peaks" /\ j > Size
    /\ pc' = "prune" /\ j' = 1
    /\ UNCHANGED <<I, peaks, left, length, parts, stored>>

Crowded(i) == i < Len(peaks) /\ peaks[i + 1] - peaks[i] < 2 * Buffer

Bright(i) == I[peaks[i]]

MiddleLowest(i) == Bright(i + 1) < Bright(i) \/ Bright(i + 1) < Bright(i + 2)

Pruning == pc = "prune" /\ j < Len(peaks)

\* The loop goes on at peak k of those that are left.
GoOn(remaining, k) ==
    /\ peaks' = remaining
    /\ j' = k
    /\ UNCHANGED <<I, left, length, parts, stored, pc>>

\* Bug: the loop index is moved on only where a peak is dropped.
KeepBothStuck == Pruning /\ ~Crowded(j) /\ GoOn(peaks, j)

KeepBoth == Pruning /\ ~Crowded(j) /\ GoOn(peaks, j + 1)

\* Three crowded peaks, the middle one lower than a neighbour.
DropMiddle ==
    /\ Pruning /\ Crowded(j) /\ Crowded(j + 1) /\ MiddleLowest(j)
    /\ GoOn(RemoveAt(peaks, j + 1), j + 1)

\* Three crowded peaks, the middle one at least as high: the later one goes first
\* and leaves the index of the earlier one right.
DropOuter ==
    /\ Pruning /\ Crowded(j) /\ Crowded(j + 1) /\ ~MiddleLowest(j)
    /\ GoOn(RemoveAt(RemoveAt(peaks, j + 2), j), j)

CrowdedPair == Pruning /\ Crowded(j) /\ ~Crowded(j + 1)

\* Bug: the comparison is turned round, the brighter of two peaks is dropped.
DropLaterReversed ==
    CrowdedPair /\ Bright(j) < Bright(j + 1) /\ GoOn(RemoveAt(peaks, j + 1), j + 1)

DropLater == CrowdedPair /\ Bright(j) > Bright(j + 1) /\ GoOn(RemoveAt(peaks, j + 1), j + 1)

DropEarlier == CrowdedPair /\ Bright(j) <= Bright(j + 1) /\ GoOn(RemoveAt(peaks, j), j)

-----------------------------------------------------------------------------
(* Regions                                                                    *)

From(i) == Max({peaks[i] - Buffer, 0})
To(i) == Min({peaks[i] + Buffer + 1, Size})

\* Two regions that overlap give up one particle each.
Overlap(i) == i \in 1 .. Len(peaks) - 1 /\ To(i) > From(i + 1)

\* Bug: the regions are not trimmed.
RegionUntrimmed(i) == <<From(i), To(i)>>

Region(i) == <<IF Overlap(i - 1) THEN From(i) + 1 ELSE From(i),
               IF Overlap(i) THEN To(i) - 1 ELSE To(i)>>

RegionCount == Len(peaks)

MakeRegions ==
    /\ pc = "prune" /\ j >= Len(peaks)
    /\ left' = RegionCount
    /\ pc' = "cut"
    /\ UNCHANGED <<I, peaks, j, length, parts, stored>>

-----------------------------------------------------------------------------
(* Cuts                                                                       *)

\* Track_box::at on a track of n particles, the version split_track and
\* trim_track call: the index of the particle it returns.  From the middle on
\* the walk starts at t_last_, and step_backwards asks for prev_ first.
At(n, k) ==
    IF k > n THEN NULL
    ELSE IF k < n \div 2 THEN k
    ELSE IF n <= 1 THEN NULL
    ELSE Min({k, n - 1})

NextRegion == Region(left)

\* What a cut comes to: a null pointer that at() has returned is followed, or
\* trim_track throws "track_box: stepped out of track", or the region is cut.
CutOutcome ==
    IF At(length, NextRegion[1]) = NULL \/ At(length - NextRegion[1], 0) = NULL
    THEN "crash"
    ELSE IF NextRegion[2] > length THEN "thrown" ELSE "cut"

\* add_track puts each new track behind the others, the last region first.
Cut ==
    /\ pc = "cut" /\ left > 0
    /\ pc' = CutOutcome
    /\ IF pc' = "cut"
       THEN /\ parts' = Append(parts, NextRegion)
            /\ length' = NextRegion[1]
            /\ left' = left - 1
       ELSE UNCHANGED <<parts, length, left>>
    /\ UNCHANGED <<I, peaks, j, stored>>

Finish ==
    /\ pc = "cut" /\ left = 0
    /\ pc' = "done"
    /\ UNCHANGED <<I, peaks, j, left, length, parts, stored>>

-----------------------------------------------------------------------------
(* Output: the z of the particle with index k is k                            *)

Within(a) == {k \in DOMAIN I : a[1] <= k /\ k < a[2]}

\* Track_box::average_cord: the sum of I and the depth as a quotient <<n, d>>,
\* which has a zero to divide by when the whole track is dark.
TotalI(a) == MapThenSumSet(LAMBDA k : I[k], Within(a))
AverageCord(a) ==
    [z |-> <<MapThenSumSet(LAMBDA k : k * I[k], Within(a)), TotalI(a)>>, I |-> TotalI(a)]

\* store_particle_pos: the next index of the group, which has been opened for as
\* many particles as the shelf has tracks.
StoreParticlePos(particle) ==
    /\ Len(stored) < Len(parts)
    /\ stored' = Append(stored, particle)

\* set_all_values for the next track of the list.
StoreLink ==
    /\ pc = "done" /\ Len(stored) < Len(parts)
    /\ StoreParticlePos(AverageCord(parts[Len(stored) + 1]))
    /\ UNCHANGED <<I, peaks, j, left, length, parts, pc>>

CloseGroup ==
    /\ pc = "done" /\ Len(stored) = Len(parts)
    /\ pc' = "written"
    /\ UNCHANGED <<I, peaks, j, left, length, parts, stored>>

Next ==
    \/ FindPeaks \/ AllFound
    \/ KeepBoth \/ DropMiddle \/ DropOuter \/ DropLater \/ DropEarlier
    \/ MakeRegions
    \/ Cut
    \/ Finish
    \/ StoreLink
    \/ CloseGroup

Spec == Init /\ [][Next]_vars /\ WF_vars(Next)

-----------------------------------------------------------------------------
(* Properties                                                                 *)

Kept == {peaks[i] : i \in 1 .. Len(peaks)}

Distance(p, q) == IF p < q THEN q - p ELSE p - q

\* No two neighbours in the track are equally bright.
Strict == \A k \in DOMAIN I : k > 0 => I[k] # I[k - 1]

TypeOK ==
    /\ Kept \subseteq DOMAIN I
    /\ j \in 1 .. Size + 1
    /\ left \in 0 .. Len(peaks)
    /\ length \in 0 .. Size
    /\ parts \in Seq((0 .. Size) \X (0 .. Size))
    /\ pc \in {"peaks", "prune", "cut", "done", "written", "thrown", "crash"}

\* The peaks that are kept do not crowd each other, although the loop never
\* goes back over a pair.  On a plateau they can be one particle nearer, which
\* is what trimming the regions by one particle each can still make good.
PeaksApart ==
    \A p, q \in Kept :
        p # q => Distance(p, q) >= IF Strict THEN 2 * Buffer ELSE 2 * Buffer - 1

\* A local maximum that is dropped is crowded by one that is kept, and a
\* brightest one is kept.
PeaksCovered ==
    /\ \A k \in LocalMaxima : \E p \in Kept : Distance(k, p) < 2 * Buffer
    /\ \A k \in LocalMaxima : \E p \in Kept : I[k] <= I[p]

\* Pruning the peaks, one or two at a time from the vector the loop indexes,
\* leaves them apart, and takes none of a track without plateaus for nothing.
PeaksRight == pc = "cut" => PeaksApart /\ (Strict => PeaksCovered)

\* The peak of the track that is number i on the shelf: the deepest comes first.
PeakOf(i) == peaks[Len(peaks) + 1 - i]

\* The new tracks share no particle, and each has one kept peak inside it, its own.
PartsDisjoint ==
    /\ Len(parts) = Len(peaks)
    /\ \A m, n \in DOMAIN parts :
          m # n => parts[m][2] <= parts[n][1] \/ parts[n][2] <= parts[m][1]
    /\ \A n \in DOMAIN parts :
          {p \in Kept : parts[n][1] <= p /\ p < parts[n][2]} = {PeakOf(n)}

\* Every peak that was kept is written as one particle no farther than the
\* buffer from it and at least as bright; a dark one, on a plateau of zeros, has
\* no depth at all.
PeaksWritten ==
    /\ Len(stored) = Len(peaks)
    /\ \A i \in DOMAIN stored :
          LET z == stored[i].z
          IN  /\ (PeakOf(i) - Buffer) * z[2] <= z[1] /\ z[1] <= (PeakOf(i) + Buffer) * z[2]
              /\ I[PeakOf(i)] <= stored[i].I

\* Cutting the regions from the back never asks for a particle that an earlier
\* cut has taken away: at() gives no null pointer to follow, and trim_track
\* never throws "track_box: stepped out of track".  In the end there is one
\* new track for every peak, and one particle in the output for every track.
CutsRight ==
    /\ pc \notin {"thrown", "crash"}
    /\ pc = "done" => PartsDisjoint
    /\ pc = "written" => PeaksWritten

\* split_to_parts and the output come to an end, whatever the intensities.
PartsEnd == <>(pc \in {"written", "thrown", "crash"})

=============================================================================
