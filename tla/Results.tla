------------------------------ MODULE Results ------------------------------
(* Generic_wrapper_hdf, through which the programs that compute statistics    *)
(* file what they found (common_src/cxx/generic_wrapper_hdf.cpp), and the     *)
(* calls that the correlators and accumulators make to it: Corr_case,         *)
(* Corr_gofr, TA_msd, TA_vanHove and Histogram.                               *)
(*                                                                            *)
(* A file is a function from the paths of its groups to their attributes and  *)
(* data sets, each a function from names; the empty path is the file itself   *)
(* and is also where a wrapper is that has no group open.  A path is a        *)
(* sequence of names, a name a pair of a word and a number as format_name     *)
(* joins them.  A float is a fraction <<n, d>>, and <<0, 0>> is not a number. *)
(* The attributes of a data set are kept beside its values.                   *)
EXTENDS ParamStore

Space == INSTANCE SpatialHash  \* Tuple

NoAttrs == [k \in {} |-> 0]
EmptyGroup == [attrs |-> NoAttrs, dsets |-> [n \in {} |-> 0]]
EmptyFile == [path \in {<<>>} |-> EmptyGroup]

\* Add or replace one entry of a function.
With(f, k, v) == [e \in DOMAIN f \cup {k} |-> IF e = k THEN v ELSE f[e]]

\* A wrapper for a file of type F_DISK_RDWR, which the programs ask for.  A file
\* that does not exist and an empty one are the same.  keys is keys_ of the
\* attributes of the open group, the names it was opened with and has added.
WrapperOf(file) == [open |-> FALSE, at |-> <<>>, keys |-> {}, file |-> file]

-----------------------------------------------------------------------------
(* The calls; those that can throw have a condition beside them               *)

OpenWrapper(w) == [w EXCEPT !.open = TRUE]

CloseWrapper(w) == [w EXCEPT !.open = FALSE, !.at = <<>>, !.keys = {}]

\* createGroup makes no group above the one it is asked for.
CanOpenGroup(w, path) ==
    w.open /\ w.at = <<>> /\ SubSeq(path, 1, Len(path) - 1) \in DOMAIN w.file

OpenGroup(w, path) ==
    [w EXCEPT !.at = path,
              !.keys = IF path \in DOMAIN w.file THEN DOMAIN w.file[path].attrs ELSE {},
              !.file = IF path \in DOMAIN @ THEN @ ELSE With(@, path, EmptyGroup)]

CloseGroup(w) == [w EXCEPT !.at = <<>>, !.keys = {}]

\* A data set that is there is never written again.
CanAddDset(w, name, type) ==
    w.open /\ type \in {"int", "uint", "float"} /\ name \notin DOMAIN w.file[w.at].dsets

AddDset(w, name, type, vals) ==
    [w EXCEPT !.file[w.at].dsets = With(@, name, [type |-> type, vals |-> vals, attrs |-> NoAttrs])]

\* Signed and unsigned are one class; each is read as the other.
TypeClass(t) == IF t \in {"int", "uint"} THEN "integer" ELSE t

NaN == <<0, 0>>

Tuples == {"pair", "triple"}
SingleTypes == {"int", "uint", "float", "string"} \cup Tuples
DsetStoreTypes == {"int", "float", "string"}

\* set_value of Attr_list_hdf without over_write, as every caller leaves it: an
\* attribute whose key is known has to be the same, and HDF5 makes none twice.
CanSet(attrs, keys, e) ==
    IF e.key \in keys
    THEN /\ TypeClass(attrs[e.key].type) = TypeClass(e.type)
         /\ attrs[e.key].val = e.val
         /\ e.type = "float" => e.val # NaN
    ELSE Named(e) => e.key \notin DOMAIN attrs

\* What is known is left as it is, and an empty string is not written.
SetValue(attrs, keys, e) ==
    IF e.key \notin keys /\ Named(e)
    THEN With(attrs, e.key, [type |-> e.type, val |-> e.val]) ELSE attrs

\* A tuple is written, but its key does not become known.
KnownAfter(keys, e) == IF Named(e) /\ e.type \notin Tuples THEN keys \cup {e.key} ELSE keys

\* add_meta_data, of one value or of an Md_store: element by element, up to one
\* that throws, which HDF5 does where a key that is not known is there.  types
\* are those the call has a case for.
HowSetEnds(attrs, keys, e, types) ==
    IF e.type \notin types THEN "thrown"
    ELSE IF CanSet(attrs, keys, e) THEN "returns"
    ELSE IF e.key \in keys THEN "thrown" ELSE "hdf5"

\* An attribute list as the call finds it, all of it known if it is opened anew
\* for every element.
AttrsWith(attrs, keys, elems, types, anew) ==
    FoldLeft(LAMBDA r, e :
                 LET known == IF anew THEN DOMAIN r.attrs ELSE r.keys
                     ends == HowSetEnds(r.attrs, known, e, types)
                 IN  IF r.ends # "returns" THEN r
                     ELSE IF ends # "returns" THEN [r EXCEPT !.ends = ends]
                     ELSE [r EXCEPT !.attrs = SetValue(@, known, e), !.keys = KnownAfter(@, e)],
             [attrs |-> attrs, keys |-> keys, ends |-> "returns"], elems)

InGroup(w, elems) == AttrsWith(w.file[w.at].attrs, w.keys, elems, SingleTypes, FALSE)

CanAddMetaData(w, elems) == w.at # <<>> /\ InGroup(w, elems).ends = "returns"

AddMetaData(w, elems) ==
    IF w.at = <<>> THEN w
    ELSE [w EXCEPT !.file[w.at].attrs = InGroup(w, elems).attrs, !.keys = InGroup(w, elems).keys]

\* A data set for its attributes: by its path in the file or, as here, by its
\* name in the open group; without one that is the file.
DsetAt(w, d) == IF d.here THEN w.at ELSE d.path

CanFindDset(w, d) ==
    w.open /\ DsetAt(w, d) \in DOMAIN w.file /\ d.name \in DOMAIN w.file[DsetAt(w, d)].dsets

DsetAttrs(w, d) == w.file[DsetAt(w, d)].dsets[d.name].attrs

\* add_meta_data with the name of a data set.
InDset(w, d, elems, types) == AttrsWith(DsetAttrs(w, d), {}, elems, types, TRUE)

CanAddDsetMetaData(w, d, elems, types) ==
    CanFindDset(w, d) /\ InDset(w, d, elems, types).ends = "returns"

AddDsetMetaData(w, d, elems, types) ==
    IF ~CanFindDset(w, d) THEN w
    ELSE [w EXCEPT !.file[DsetAt(w, d)].dsets[d.name].attrs = InDset(w, d, elems, types).attrs]

\* get_value of Attr_list_hdf: signed and unsigned are read as each other where
\* the value fits.
CanRead(attrs, key, type) ==
    /\ key \in DOMAIN attrs
    /\ TypeClass(attrs[key].type) = TypeClass(type)
    /\ type = "int" => attrs[key].val <= IntMax
    /\ type = "uint" => attrs[key].val >= 0

\* get_meta_data into an Md_store: every known key replaces what the store has
\* under it, up to a tuple, whose type is an error.  The keys are taken in one
\* fixed order, as the file lists them.
ReadInto(store, attrs, keys) ==
    FoldSet(LAMBDA k, r :
                IF r.stop \/ attrs[k].type \in Tuples THEN [r EXCEPT !.stop = TRUE]
                ELSE [r EXCEPT !.store = SetElement(@, Elem(k, attrs[k].type, attrs[k].val))],
            [store |-> store, stop |-> FALSE], keys).store

\* get_dset reads any integer as any other.
CanGetDset(w, name, type) ==
    /\ w.open /\ name \in DOMAIN w.file[w.at].dsets
    /\ TypeClass(w.file[w.at].dsets[name].type) = TypeClass(type)

GetDset(w, name) == w.file[w.at].dsets[name].vals

\* get_dset_info: the extents; the type it reports is V_ERROR for every data
\* set, since no case of the switch ends with a break.
GetDsetInfo(w, name) == [dims |-> <<Len(w.file[w.at].dsets[name].vals)>>, type |-> "error"]

CanGetMetaData(w, key, type) ==
    w.at # <<>> /\ CanRead(w.file[w.at].attrs, key, type)

GetMetaData(w, key) == w.file[w.at].attrs[key].val

-----------------------------------------------------------------------------
(* A call as a record, and carrying it out                                    *)

CallOpen == [call |-> "open_wrapper"]
CallClose == [call |-> "close_wrapper"]
CallOpenGroup(path) == [call |-> "open_group", path |-> path]
CallCloseGroup == [call |-> "close_group"]
CallDset(name, type, vals) == [call |-> "add_dset", name |-> name, type |-> type, vals |-> vals]
CallMetaData(elems) == [call |-> "add_meta_data", elems |-> elems]
CallDsetMetaData(dset, elems, types) ==
    [call |-> "add_dset_meta_data", dset |-> dset, elems |-> elems, types |-> types]

Refuses(w, c) ==
    CASE c.call = "open_group" -> ~CanOpenGroup(w, c.path)
      [] c.call = "add_dset" -> ~CanAddDset(w, c.name, c.type)
      [] c.call = "add_meta_data" -> ~CanAddMetaData(w, c.elems)
      [] c.call = "add_dset_meta_data" -> ~CanAddDsetMetaData(w, c.dset, c.elems, c.types)
      [] OTHER -> FALSE

\* What HDF5 throws is no std::exception: nothing between it and a script catches
\* it.  Without a file there is no pointer to look a data set up with.
Dies(w, c) ==
    CASE c.call = "open_group" -> w.open /\ w.at = <<>> /\ ~CanOpenGroup(w, c.path)
      [] c.call = "add_meta_data" -> w.at # <<>> /\ InGroup(w, c.elems).ends = "hdf5"
      [] c.call = "add_dset_meta_data" -> c.elems # <<>> /\ ~CanFindDset(w, c.dset)
      [] OTHER -> FALSE

\* What a call leaves behind; one that throws leaves the attributes it had set.
After1(w, c) ==
    CASE c.call = "add_meta_data" -> AddMetaData(w, c.elems)
      [] c.call = "add_dset_meta_data" -> AddDsetMetaData(w, c.dset, c.elems, c.types)
      [] c.call = "open_wrapper" -> OpenWrapper(w)
      [] c.call = "close_wrapper" -> CloseWrapper(w)
      [] c.call = "open_group" -> IF Refuses(w, c) THEN w ELSE OpenGroup(w, c.path)
      [] c.call = "close_group" -> CloseGroup(w)
      [] c.call = "add_dset" -> IF Refuses(w, c) THEN w ELSE AddDset(w, c.name, c.type, c.vals)

\* What calls leave when none is refused.
AfterAll(w, calls) == FoldLeft(After1, w, calls)

-----------------------------------------------------------------------------
(* What is filed                                                              *)

\* A writer opens the wrapper unless it is open, and closes it if it opened it.
Within(isOpen, calls) == IF isOpen THEN calls ELSE <<CallOpen>> \o calls \o <<CallClose>>

CountOf(bins, i) == Cardinality({k \in DOMAIN bins : bins[k] = i})

TotalOf(counts) == FoldLeft(LAMBDA x, y : x + y, 0, counts)

Fraction(n, d) == IF d = 0 THEN NaN ELSE <<n, d>>

\* Bug: the particles the counts are around are left out of the average.
NormalizeWithoutParts(counts, parts) ==
    LET n == Len(counts)
    IN  [j \in 1 .. n |-> Fraction(counts[j] * n * n, TotalOf(counts) * (2 * j - 1))]

\* Corr_gofr::normalize in two dimensions.  Range and pi cancel: the ring of
\* bin j has 2j + 1 parts of nbins * nbins of the disc.
Normalize(counts, parts) ==
    LET n == Len(counts)
    IN  [j \in 1 .. n |-> Fraction(counts[j] * n * n, (TotalOf(counts) + parts) * (2 * j - 1))]

\* What normalize returns, the density, times pi.
Rho(counts, parts, range) == Fraction(TotalOf(counts) + parts, range * range * parts)

\* Corr_gofr::out_to_wrapper.  temps are the temperatures of the planes that
\* have one.
GofrCalls(isOpen, path, counts, parts, range, temps, md) ==
    LET n == Len(counts)
    IN  Within(isOpen,
          <<CallOpenGroup(path),
            CallDset("bin_count", "float", Normalize(counts, parts)),
            CallDset("bin_edges", "float", [j \in 1 .. n |-> <<(j - 1) * range, n>>]),
            CallMetaData(md),
            CallMetaData(<<Elem("rho", "float", Rho(counts, parts, range))>>),
            CallMetaData(<<Elem("max_range", "float", <<range, 1>>)>>),
            CallMetaData(<<Elem("nbins", "uint", n)>>),
            CallMetaData(<<Elem("total_number", "uint", parts)>>),
            CallMetaData(<<Elem("plane_count", "uint", Len(temps))>>),
            CallMetaData(<<Elem("temperature", "float", Fraction(TotalOf(temps), Len(temps)))>>),
            CallCloseGroup>>)

\* Corr_case: its own parameters, in the order of the maps that hold them.
CasePrams(range, nbins, comp, dset, readComp) ==
    <<Elem("max_range", "float", <<range, 1>>), Elem("dset", "int", dset),
      Elem("nbins", "int", nbins), Elem("read_comp", "int", readComp)>>

\* Corr_case::out_to_wrapper: its own group, then one below it per correlator.
\* gofrs[c] are the calls of correlator c, for the path it is given.
CaseCalls(path, prams, md, gofrs) ==
    <<CallOpen, CallOpenGroup(path)>>
    \o [i \in DOMAIN prams |-> CallMetaData(<<prams[i]>>)]
    \o <<CallMetaData(md), CallCloseGroup>>
    \o FlattenSeq(gofrs)
    \o <<CallClose>>

CompPath(path, c) == Append(path, <<"comp", c>>)

\* TA_msd: the squares added up and their number, for every number of steps.
\* disps[k] is <<displacement, steps>>; add_disp throws for more than max_step.
MsdSum(disps, s) ==
    FoldLeft(LAMBDA x, d : IF d[2] = s THEN x + Space!SquareSum(d[1]) ELSE x, 0, disps)

MsdCount(disps, s) == Cardinality({k \in DOMAIN disps : disps[k][2] = s})

\* TA_msd::output_to_wrapper; a number of steps nothing was added for gives 0/0.
MsdCalls(isOpen, key, disps, maxStep, md) ==
    Within(isOpen,
      <<CallOpenGroup(<<<<"mean_squared_disp", key>>>>),
        CallMetaData(md),
        CallDset("msd", "float", [s \in 1 .. maxStep |->
                                     Fraction(MsdSum(disps, s), MsdCount(disps, s))]),
        CallDset("seg_count", "int", [s \in 1 .. maxStep |-> MsdCount(disps, s)]),
        CallCloseGroup>>)

\* Histogram: the edges in order, whichever way round they were given, and how
\* many of the values fall below, above and into each bin.
Edges(a, b) == IF b < a THEN <<b, a>> ELSE <<a, b>>

Under(vals, e) == Cardinality({k \in DOMAIN vals : vals[k] < e[1]})
Over(vals, e) == Cardinality({k \in DOMAIN vals : vals[k] >= e[2]})

HistBin(x, e, nbins) == ((x - e[1]) * nbins) \div (e[2] - e[1])

HistCount(vals, e, nbins, i) ==
    Cardinality({k \in DOMAIN vals : /\ e[1] <= vals[k] /\ vals[k] < e[2]
                                     /\ HistBin(vals[k], e, nbins) = i})

\* Histogram::output_to_wrapper.
HistogramCalls(isOpen, path, vals, e, nbins) ==
    Within(isOpen,
      <<CallOpenGroup(path),
        CallDset("disp_count", "int", [i \in 1 .. nbins |-> HistCount(vals, e, nbins, i - 1)]),
        CallDset("disp_edges", "float",
                 [i \in 1 .. nbins |-> <<e[1] * nbins + (i - 1) * (e[2] - e[1]), nbins>>]),
        CallMetaData(<<Elem("over_count", "int", Over(vals, e))>>),
        CallMetaData(<<Elem("under_count", "int", Under(vals, e))>>),
        CallMetaData(<<Elem("nbins", "uint", nbins)>>),
        CallMetaData(<<Elem("bottom_edge", "float", <<e[1], 1>>)>>),
        CallMetaData(<<Elem("top_edge", "float", <<e[2], 1>>)>>),
        CallMetaData(<<Elem("bin_width", "float", <<e[2] - e[1], nbins>>)>>),
        CallCloseGroup>>)

StepPath(key, s) == <<<<"vanHove", key>>, <<"step", s>>>>

\* The displacements over s steps along axis d.
AlongAxis(disps, s, d) ==
    LET those == SelectSeq(disps, LAMBDA e : e[2] = s)
    IN  [k \in DOMAIN those |-> those[k][1][d]]

\* TA_vanHove::output_to_wrapper: the group of each step is made before those
\* of its two histograms.
VanHoveCalls(isOpen, key, disps, maxStep, range, nbins, md) ==
    LET Hist(s, d, word) ==
            HistogramCalls(TRUE, Append(StepPath(key, s), <<word, 0>>),
                           AlongAxis(disps, s, d), Edges(-range, range), nbins)
    IN  Within(isOpen,
          <<CallOpenGroup(<<<<"vanHove", key>>>>), CallMetaData(md), CallCloseGroup>>
          \o FlattenSeq([s \in 1 .. maxStep |->
                 <<CallOpenGroup(StepPath(key, s)), CallCloseGroup>>
                 \o Hist(s, 1, "x") \o Hist(s, 2, "y")]))
=============================================================================
