---------------------------- MODULE SpatialHash -----------------------------
(* The spatial hash of one frame, Hash_shelf with its hash_boxes              *)
(* (common_src/cxx/hash_shelf.cpp, hash_box.cpp), and the boxes that          *)
(* Hash_shelf::compute_corr (corr.cpp) takes its centres from.                *)
(*                                                                            *)
(* A shelf is a record: img, the size of the image along each axis, and upb,  *)
(* the size of a box.  Positions and sizes are integers, so that "within      *)
(* range" is exact; everything is written for any number of axes, as the code *)
(* is for DIM_COUNT.  Boxes are numbered from 0, and a frame's boxes are a    *)
(* function from those numbers to the sequences of the particles pushed into  *)
(* them.  A box that was never made and one without a particle are the same.  *)
EXTENDS Integers, Sequences, SequencesExt

-----------------------------------------------------------------------------
(* Arithmetic of the code                                                     *)

CeilDiv(a, b) == (a + b - 1) \div b

Product(t) == FoldLeft(LAMBDA x, y : x * y, 1, t)

Magnitude(x) == IF x < 0 THEN -x ELSE x

\* Division and remainder of C++ round towards zero.  Negative divisors occur:
\* the inner boxes of a small image have negative sides.
Quotient(a, b) ==
    LET q == Magnitude(a) \div Magnitude(b)
    IN  IF (a < 0) = (b < 0) THEN q ELSE -q

Remainder(a, b) == a - b * Quotient(a, b)

Plus(s, t) == [j \in DOMAIN s |-> s[j] + t[j]]

Minus(s, t) == [j \in DOMAIN s |-> s[j] - t[j]]

SquareSum(t) == FoldLeft(LAMBDA x, y : x + y, 0, [j \in DOMAIN t |-> t[j] * t[j]])

\* particle_base::distancesq.
DistanceSq(x, y) == SquareSum(Minus(x, y))

-----------------------------------------------------------------------------
(* Boxes and their coordinates                                                *)

\* Hash_shelf::priv_init: hash_dims_.
HashDims(shelf) == [j \in DOMAIN shelf.img |-> CeilDiv(shelf.img[j], shelf.upb)]

BoxCount(shelf) == Product(HashDims(shelf))

\* hash_cum_dim_ of the hash, and the same products for the sides of a region.
CumDims(sides) == [j \in DOMAIN sides |-> Product(SubSeq(sides, 1, j - 1))]

InDims(shelf, cord) == \A j \in DOMAIN cord : cord[j] < HashDims(shelf)[j]

TupleToIndx(shelf, cord) ==
    LET cum == CumDims(HashDims(shelf))
    IN  FoldLeft(LAMBDA x, y : x + y, 0, [j \in DOMAIN cord |-> cord[j] * cum[j]])

IndxToTuple(shelf, n) ==
    LET dims == HashDims(shelf)
    IN  [j \in DOMAIN dims |-> Remainder(Quotient(n, CumDims(dims)[j]), dims[j])]

RangeIndxToTuple(n, sides) ==
    [j \in DOMAIN sides |-> Remainder(Quotient(n, CumDims(sides)[j]), sides[j])]

\* hash_function throws for a coordinate at or beyond the last box.  It casts
\* to unsigned, which makes a coordinate between -upb and 0 a 0; what a lower
\* one gives is undefined, and FilesAssumption of Statistics excludes it.
CanHash(shelf, x) == \A j \in DOMAIN x : x[j] < HashDims(shelf)[j] * shelf.upb

HashFunction(shelf, x) ==
    TupleToIndx(shelf, [j \in DOMAIN x |-> Quotient(x[j], shelf.upb)])

-----------------------------------------------------------------------------
(* Regions                                                                    *)

\* Bug: the region stops one box short at the high end.
TopCornerShort(shelf, center, range) ==
    [j \in DOMAIN center |->
        IF center[j] + range < HashDims(shelf)[j] - 1 THEN center[j] + range
        ELSE HashDims(shelf)[j] - 2]

\* Hash_shelf::make_region_corners cuts the region off at the borders.
BottomCorner(shelf, center, range) ==
    [j \in DOMAIN center |-> IF center[j] - range >= 0 THEN center[j] - range ELSE 0]

TopCorner(shelf, center, range) ==
    [j \in DOMAIN center |->
        IF center[j] + range < HashDims(shelf)[j] THEN center[j] + range
        ELSE HashDims(shelf)[j] - 1]

\* The boxes of the region with these sides, in the order the code visits them.
BoxesOf(shelf, bottom, sides) ==
    [n \in 1 .. Product(sides) |->
        TupleToIndx(shelf, Plus(RangeIndxToTuple(n - 1, sides), bottom))]

RegionBoxes(shelf, n, range) ==
    LET center == IndxToTuple(shelf, n)
        bottom == BottomCorner(shelf, center, range)
        sides == [j \in DOMAIN center |-> TopCorner(shelf, center, range)[j] - bottom[j] + 1]
    IN  BoxesOf(shelf, bottom, sides)

\* Hash_shelf::get_region: the particles in those boxes.
GetRegion(shelf, boxes, n, range) ==
    FlattenSeq([k \in DOMAIN RegionBoxes(shelf, n, range) |->
                   boxes[RegionBoxes(shelf, n, range)[k]]])

\* The number of boxes a distance spans, as get_region_px, compute_corr and
\* fill_in_neighborhood round it.
InBoxes(shelf, range) == CeilDiv(range, shelf.upb)

-----------------------------------------------------------------------------
(* Where compute_corr takes its centres from                                  *)

\* "buffer is bigger than a hash dimension".
BufferTooBig(shelf, buffer) == \E j \in DOMAIN shelf.img : buffer >= HashDims(shelf)[j]

\* region_sides = top_corner - bottom_corner, which is negative where the image
\* has fewer than 2 * buffer + 1 boxes.
InnerSides(shelf, buffer) ==
    [j \in DOMAIN shelf.img |-> HashDims(shelf)[j] - 2 * buffer - 1]

Bottom(shelf, buffer) == [j \in DOMAIN shelf.img |-> buffer]

\* With two negative sides the product is positive and the loop runs all the
\* same; tuple_to_indx throws where it leaves the hash.
InnerInDims(shelf, buffer) ==
    LET sides == InnerSides(shelf, buffer)
    IN  \A n \in 0 .. Product(sides) - 1 :
            InDims(shelf, Plus(RangeIndxToTuple(n, sides), Bottom(shelf, buffer)))

InnerBoxes(shelf, buffer) ==
    BoxesOf(shelf, Bottom(shelf, buffer), InnerSides(shelf, buffer))

=============================================================================
