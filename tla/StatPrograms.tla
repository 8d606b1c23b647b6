---------------------------- MODULE StatPrograms ----------------------------
(* The programs of Statistics with what they read and what they leave: where  *)
(* the particles come from an input wrapper that is filled call by call       *)
(* (gofr_general, or a script), and the results that gofr, gofr_by_plane,     *)
(* msd_sweep, vanHove and vanHove_sweep file, call by call, in a results file *)
(* that other programs, or a killed run under the same key, may have written. *)
(*                                                                            *)
(* job.feed is "jb" or "script" when the particles are added to a wrapper,    *)
(* "notes" when a script works on a results file; job.out says what is filed: *)
(* its kind and its first key.                                                *)
EXTENDS Statistics, Results, GenericInput

CONSTANTS
    Inputs(_),       \* Inputs(j): the packings a job j may be given
    ScriptCalls(_),  \* the calls that the script of job j makes
    FeedBound,       \* how many of them it makes at most
    Priors(_)        \* Priors(j): the results files that job j may find

\* Packings lie above the first plane, as the shift by half the box has it.
ASSUME InputsAssumption ==
    \A j \in Jobs : \A i \in Inputs(j) : \A k \in DOMAIN i : i[k][3] >= 0

\* A sweep or an accumulator is given its numbers of steps; what is filled by
\* calls has no tracks.
ASSUME JobsAssumption ==
    \A j \in Jobs :
        /\ j.frames \in Nat /\ j.cases \in Nat /\ j.maxstep \in Nat
        /\ j.lens \in Seq(Nat \ {0}) /\ j.lens # <<>>
        /\ j.feed # "no" => ~j.tracks

\* A value has the width of its type.
Fits(e) == (e.type = "int" => e.val <= IntMax) /\ (e.type = "uint" => e.val >= 0)

\* A script that fills a wrapper makes calls of it, one that works on a results
\* file those of that wrapper, and their arguments have their types.
ASSUME ScriptCallsAssumption ==
    \A j \in Jobs : \A c \in ScriptCalls(j) :
        /\ j.feed = "script" =>
              c.call \in {"open_wrapper", "setup", "open_frame", "set_data_type",
                          "clear_data_type", "add_data", "close_frame", "finalize_wrapper"}
        /\ j.feed = "notes" =>
              c.call \in {"open_wrapper", "close_wrapper", "open_group", "close_group",
                          "add_dset", "add_meta_data", "add_dset_meta_data"}
        /\ c.call = "setup" => c.types \subseteq ToSet(TypeOrder)
        /\ c.call = "open_frame" => c.frame \in Nat
        /\ c.call = "set_data_type" => c.type \in ToSet(TypeOrder)
        /\ c.call = "add_data" => c.kind \in {"int", "float", "complex"}
        /\ c.call \in {"add_meta_data", "add_dset_meta_data"} =>
              c.elems \in Seq(ToSet(c.elems)) /\ \A e \in ToSet(c.elems) : Fits(e)
        /\ c.call = "add_dset_meta_data" => c.dset.name # ""

\* A group and a data set are what the wrapper makes of them, and so is an
\* attribute.
ASSUME PriorsAssumption ==
    \A j \in Jobs : \A f \in Priors(j) :
        /\ <<>> \in DOMAIN f
        /\ \A path \in DOMAIN f :
              /\ f[path] = [attrs |-> f[path].attrs, dsets |-> f[path].dsets]
              /\ IsFiniteSet(DOMAIN f[path].attrs)
              /\ \A k \in DOMAIN f[path].attrs : Fits(f[path].attrs[k])
              /\ \A n \in DOMAIN f[path].dsets :
                    LET d == f[path].dsets[n]
                    IN  d = [type |-> d.type, vals |-> d.vals, attrs |-> d.attrs]
                        /\ IsFiniteSet(DOMAIN d.attrs)
                        /\ \A k \in DOMAIN d.attrs : Fits(d.attrs[k])

VARIABLES
    source,   \* the input wrapper
    input,    \* the triples of a packing
    feed,     \* calls to the input wrapper still to be made
    spent,    \* calls the script has made
    fed,      \* fed[<<t, f>>]: the values last added as type t to frame f
    results,  \* the wrapper of the results file
    prior,    \* the file it was opened on
    calls,    \* calls to that wrapper still to be made
    filed,    \* turns whose results the program has begun to file
    noted,    \* the notes a script has made: where, and which attribute
    readMd     \* the Md_store it reads attributes into

feedVars == <<source, input, feed, spent, fed>>
noteVars == <<noted, readMd>>
fileVars == <<results, prior, calls, filed, noteVars>>
allVars == <<trackVars, statVars, feedVars, fileVars>>

Out == job.out

ProgInit ==
    /\ StatInit
    /\ source = NewInput
    /\ input \in Inputs(job)
    /\ feed = IF job.feed = "jb"
              THEN ProcFile(input, job.frames, job.spacing, job.thick) ELSE <<>>
    /\ spent = 0
    /\ fed = NoAttrs
    /\ prior \in Priors(job)
    /\ results = WrapperOf(prior)
    /\ calls = <<>>
    /\ filed = 0
    /\ noted = {}
    /\ readMd = <<>>

-----------------------------------------------------------------------------
(* Filling the input wrapper                                                  *)

\* The types of a wrapper that get what is added as t: set_data_type asks neither
\* whether t is set up nor whose place it has, so a type that is not set up any
\* more is added over one that is.
Reached(w, t) ==
    {t} \cup {u \in w.types :
                t \notin w.types /\ ValueType(u) = ValueType(t) /\ w.slot[u] = w.slot[t]}

\* What has been added where, after the call c that ended as in r.
FedAfter(c, r) ==
    CASE c.call = "open_wrapper" \/ (c.call = "setup" /\ r.ends = "returns") -> NoAttrs
      [] c.call = "open_frame" -> [e \in {d \in DOMAIN fed : d[2] # c.frame} |-> fed[e]]
      [] c.call = "add_data" /\ r.ends = "returns" ->
            LET places == Reached(source, source.cur) \X {source.curFrame}
            IN  [e \in DOMAIN fed \cup places |-> IF e \in places THEN c.vals ELSE fed[e]]
      [] OTHER -> fed

Made(c) ==
    LET r == Do(source, c)
    IN  /\ source' = r.wrapper
        /\ fed' = FedAfter(c, r)
        /\ stage' = IF r.ends = "crash" THEN "crash"
                 ELSE IF r.ends = "thrown" /\ job.feed = "jb" THEN "thrown" ELSE stage

\* The next call of Wrapper_i_jb_binary::proc_file.
FeedStep ==
    /\ stage = "feed" /\ feed # <<>>
    /\ Made(Head(feed))
    /\ feed' = Tail(feed)
    /\ UNCHANGED <<trackVars, job, file, queue, boxes, lookup, cur, nhood, plane, cum, tally,
                   added, turn, left, segs, input, spent, fileVars>>

\* A script makes whatever call it likes and goes on when one throws.
ScriptStep ==
    /\ stage = "feed" /\ job.feed = "script" /\ spent < FeedBound
    /\ \E c \in ScriptCalls(job) : Made(c)
    /\ spent' = spent + 1
    /\ UNCHANGED <<trackVars, job, file, queue, boxes, lookup, cur, nhood, plane, cum, tally,
                   added, turn, left, segs, input, feed, fileVars>>

\* Particle number n of a frame of the wrapper, counted from 1.
Numbered(f, n) == InOrder({p \in Particle : Frame[p] = f}, <)[n]

\* hash_case::init(Wrapper_in&, Filter&, float) with Filter_trivial, as
\* gofr_general calls it: every particle the wrapper has.
Fed ==
    /\ stage = "feed" /\ job.feed = "jb" /\ feed = <<>>
    /\ LET slots == {s \in (0 .. LastFrame) \X (1 .. Cardinality(Particle)) :
                        s[2] <= NumEntries(source, s[1])}
           slotOf == [p \in {Numbered(s[1], s[2]) : s \in slots} |->
                         CHOOSE s \in slots : Numbered(s[1], s[2]) = p]
       IN  /\ file' = [p \in DOMAIN slotOf |->
                 [at |-> <<ValueOf(source, "xpos", slotOf[p][1], slotOf[p][2]),
                           ValueOf(source, "ypos", slotOf[p][1], slotOf[p][2])>>,
                  id |-> -1]]
           /\ queue' = ReadingOrder(DOMAIN file')
           /\ nhood' = [p \in DOMAIN file' |-> <<>>]
    /\ stage' = "hash"
    /\ UNCHANGED <<trackVars, job, boxes, lookup, cur, plane, cum, tally, added, turn, left,
                   segs, feedVars, fileVars>>

-----------------------------------------------------------------------------
(* Filing results                                                             *)

\* The key of the computation; a sweep claims one for each of its turns.
CompKey == Out.key + turn - 1

\* The sweeps get their maximal number of steps from each turn.
IsSweep == job.maxstep = 0

Whole(k, v) == Elem(k, "int", v)
Real(k, v) == Elem(k, "float", <<v, 1>>)

\* hash_case::get_avg_temp: the mean over the frames, the first one left out.
AvgTemp ==
    LET those == SelectSeq(Out.temps, LAMBDA t : t[1] > 0)
    IN  Elem("temperature", "float",
             Fraction(FoldLeft(LAMBDA x, t : x + t[2], 0, those), Len(those)))

\* The Md_store the program hands to its writers, without the keys and file
\* names and the time step that nothing else writes.  gofr_by_plane passes on
\* the frames_per_comp it was asked for and adds the one that came of it.
MdStore ==
    CASE Out.kind = "gofr" ->
            <<Real("max_range", job.range), Whole("nbins", job.nbins), Whole("comp_key", CompKey)>>
      [] Out.kind = "case" ->
            <<Real("max_range", job.range), Whole("nbins", job.nbins)>>
            \o (IF Out.perComp > 0 THEN <<Whole("frames_per_comp", Out.perComp)>> ELSE <<>>)
            \o <<Whole("comp_key", CompKey), Whole("comp_count", job.cases),
                 Elem("frames_per_comp", "uint", Step)>>
      [] Out.kind = "general" -> <<>>
      [] Out.kind = "msd" ->
            <<Whole("comp_key", CompKey), Elem("msd_steps", "uint", job.lens[turn] - 1),
              Elem("min_track_length", "uint", job.lens[turn]), AvgTemp>>
            \o (IF WithCuts THEN <<Real("n_range", job.nrange)>> ELSE <<>>)
            \o (IF job.nmin >= 0 THEN <<Whole("n_min", job.nmin)>> ELSE <<>>)
            \o (IF job.nmax >= 0 THEN <<Whole("n_max", job.nmax)>> ELSE <<>>)
      [] Out.kind = "vanHove" /\ ~IsSweep ->
            <<Whole("max_step", MaxStep), Whole("nbins", Out.nbins), Real("max_range", Out.range),
              Whole("min_track_length", job.trim), AvgTemp, Whole("comp_key", CompKey)>>
      [] Out.kind = "vanHove" /\ IsSweep ->
            <<Whole("nbins", Out.nbins), Real("max_range", Out.range), Whole("comp_key", CompKey),
              Elem("max_step", "uint", job.lens[turn] - 1),
              Elem("min_track_length", "uint", job.lens[turn]), AvgTemp>>

\* The temperatures of the planes of correlator c that were counted.
TempsOf(c) ==
    LET those == SelectSeq(Out.temps, LAMBDA t : t[1] < MaxShelf /\ CorrOf(t[1]) = c)
    IN  [k \in DOMAIN those |-> those[k][2]]

GofrPath == <<<<"gofr", CompKey>>>>

GofrAt(isOpen, path, c) ==
    GofrCalls(isOpen, path, [i \in 1 .. job.nbins |-> CountOf(tally[c], i - 1)],
              added[c], job.range, TempsOf(c), MdStore)

\* What the accumulator was given, and its steps.
Disps == [k \in DOMAIN segs |-> <<CorrectedDisp(segs[k][2], segs[k][3]), segs[k][1]>>]

\* The sweeps open the results file before their first turn and close it behind
\* their last; the other programs leave it to the writer.
Swept(written) ==
    (IF turn = 1 THEN <<CallOpen>> ELSE <<>>) \o written
    \o (IF turn = Len(job.lens) THEN <<CallClose>> ELSE <<>>)

Written ==
    CASE Out.kind \in {"gofr", "general"} -> GofrAt(FALSE, GofrPath, 0)
      [] Out.kind = "case" ->
            CaseCalls(GofrPath, CasePrams(job.range, job.nbins, CompKey, 0, 0), MdStore,
                      [c \in 1 .. job.cases |-> GofrAt(TRUE, CompPath(GofrPath, c - 1), c - 1)])
      [] Out.kind = "msd" -> Swept(MsdCalls(TRUE, CompKey, Disps, MaxStep, MdStore))
      [] Out.kind = "vanHove" /\ IsSweep ->
            Swept(VanHoveCalls(TRUE, CompKey, Disps, MaxStep, Out.range, Out.nbins, MdStore))
      [] Out.kind = "vanHove" /\ ~IsSweep ->
            VanHoveCalls(FALSE, CompKey, Disps, MaxStep, Out.range, Out.nbins, MdStore)

\* The program has come to the point where it files: at its end, or at the end
\* of the turn.
Due ==
    \/ Out.kind \in {"gofr", "case", "general"} /\ stage = "done" /\ filed = 0
    \/ Out.kind \in {"msd", "vanHove"} /\ stage = "average" /\ left = {} /\ filed < turn

Filing == stage = "file"

StartFiling ==
    /\ Due
    /\ calls' = Written
    /\ filed' = filed + 1
    /\ stage' = "file"
    /\ UNCHANGED <<trackVars, job, file, queue, boxes, lookup, cur, nhood, plane, cum, tally,
                   added, turn, left, segs, feedVars, results, prior, noteVars>>

\* Behind the last call the program is where it was.
Resume == IF Out.kind \in {"msd", "vanHove"} THEN "average" ELSE "done"

FileStep ==
    /\ Filing
    /\ ~Refuses(results, Head(calls))
    /\ results' = After1(results, Head(calls))
    /\ calls' = Tail(calls)
    /\ stage' = IF Tail(calls) = <<>> THEN Resume ELSE stage
    /\ UNCHANGED <<trackVars, job, file, queue, boxes, lookup, cur, nhood, plane, cum, tally,
                   added, turn, left, segs, feedVars, prior, filed, noteVars>>

\* No writer and no program but vanHove, which returns, catches what is thrown.
FileFails ==
    /\ Filing
    /\ Refuses(results, Head(calls))
    /\ results' = After1(results, Head(calls))
    /\ calls' = <<>>
    /\ stage' = "thrown"
    /\ UNCHANGED <<trackVars, job, file, queue, boxes, lookup, cur, nhood, plane, cum, tally,
                   added, turn, left, segs, feedVars, prior, filed, noteVars>>

-----------------------------------------------------------------------------
(* A script that reads and adds attributes of a results file                  *)

\* It adds one it makes up, or all it has read, to the open group or to a data
\* set.
NoteCalls ==
    ScriptCalls(job) \cup {CallMetaData(readMd)}
    \cup {CallDsetMetaData(c.dset, readMd, DsetStoreTypes) :
             c \in {k \in ScriptCalls(job) : k.call = "add_dset_meta_data"}}

\* The notes that a call has made when it returns.
NotesOf(c) ==
    CASE c.call = "add_meta_data" ->
            {[path |-> results.at, dset |-> "", elem |-> e] : e \in ToSet(c.elems)}
      [] c.call = "add_dset_meta_data" ->
            {[path |-> DsetAt(results, c.dset), dset |-> c.dset.name, elem |-> e] :
                e \in ToSet(c.elems)}
      [] OTHER -> {}

Noting == stage = "feed" /\ job.feed = "notes" /\ spent < FeedBound

\* It goes on when a call throws, unless it is HDF5 that does.
NoteStep ==
    /\ Noting
    /\ \E c \in NoteCalls :
          /\ results' = After1(results, c)
          /\ noted' = IF Refuses(results, c) THEN noted ELSE noted \cup NotesOf(c)
          /\ stage' = IF Dies(results, c) THEN "crash" ELSE stage
    /\ spent' = spent + 1
    /\ UNCHANGED <<trackVars, job, file, queue, boxes, lookup, cur, nhood, plane, cum, tally,
                   added, turn, left, segs, source, input, feed, fed, prior, calls, filed, readMd>>

\* get_meta_data into a store, of the open group.
ReadGroupNotes ==
    /\ Noting /\ results.at # <<>>
    /\ readMd' = ReadInto(readMd, results.file[results.at].attrs, results.keys)
    /\ spent' = spent + 1
    /\ UNCHANGED <<trackVars, job, file, stage, queue, boxes, lookup, cur, nhood, plane, cum, tally,
                   added, turn, left, segs, source, input, feed, fed, results, prior, calls,
                   filed, noted>>

\* The same of a data set that is there.
ReadDsetNotes ==
    /\ Noting
    /\ \E c \in ScriptCalls(job) :
          /\ c.call = "add_dset_meta_data" /\ CanFindDset(results, c.dset)
          /\ readMd' = ReadInto(readMd, DsetAttrs(results, c.dset),
                               DOMAIN DsetAttrs(results, c.dset))
    /\ spent' = spent + 1
    /\ UNCHANGED <<trackVars, job, file, stage, queue, boxes, lookup, cur, nhood, plane, cum, tally,
                   added, turn, left, segs, source, input, feed, fed, results, prior, calls,
                   filed, noted>>

-----------------------------------------------------------------------------
Compute == ~Due /\ StatNext /\ UNCHANGED <<feedVars, fileVars>>

ProgNext ==
    \/ FeedStep \/ ScriptStep \/ Fed
    \/ Compute
    \/ StartFiling \/ FileStep \/ FileFails
    \/ NoteStep \/ ReadGroupNotes \/ ReadDsetNotes

ProgSpec == ProgInit /\ [][ProgNext]_allVars

-----------------------------------------------------------------------------
(* Properties                                                                 *)

\* The particles of a packing that plane f of proc_file shows: those from the
\* plane up to the thickness of a slab above it, in the order of the packing.
Slab(f) ==
    SelectSeq(input, LAMBDA t : f * job.spacing <= t[3] /\ t[3] < f * job.spacing + job.thick)

\* What a wrapper gives back for a type and a frame is what was last added
\* there, whatever calls were made in between and however they ended: as this
\* type, or as one that an earlier setup has left in its place.
GivesBack ==
    \A e \in DOMAIN fed :
        e[1] \in source.types /\ e[1] # "zpos" =>
            \A i \in DOMAIN fed[e] :
                Gives(source, e[1], e[2], i) /\ ValueOf(source, e[1], e[2], i) = fed[e][i]

\* That holds of Wrapper_i_generic, and the particles gofr_general reads out of
\* a filled one are those of the packing, plane by plane
\* (Wrapper_i_jb_binary::proc_file).
FedRight ==
    /\ GivesBack
    /\ job.feed = "jb" /\ stage # "feed" =>
          \A f \in 0 .. LastFrame :
              /\ {p \in InFile : Frame[p] = f} = {Numbered(f, n) : n \in DOMAIN Slab(f)}
              /\ \A n \in DOMAIN Slab(f) :
                    Pos(Numbered(f, n)) = <<Slab(f)[n][1], Slab(f)[n][2]>>

\* The file as a reader finds it who opens the group at this path.
ReadAt(path) == [open |-> TRUE, at |-> path, file |-> results.file]

\* The data set is in the group, of that type and with those values.
Holds(path, name, type, vals) ==
    /\ path \in DOMAIN results.file
    /\ CanGetDset(ReadAt(path), name, type)
    /\ GetDset(ReadAt(path), name) = vals
    /\ GetDsetInfo(ReadAt(path), name).dims = <<Len(vals)>>

Says(path, key, type, val) ==
    /\ CanGetMetaData(ReadAt(path), key, type)
    /\ GetMetaData(ReadAt(path), key) = val

\* g(r) of correlator c as the pairs of the particles make it: the count of a
\* bin over what as many particles, spread evenly, would have made it.
GofrFiled(path, c) ==
    LET pairs == [i \in 1 .. job.nbins |-> Cardinality(PairsOf(c, i - 1))]
        all == FoldLeft(LAMBDA x, y : x + y, 0, pairs) + Cardinality(CentersOf(c))
    IN  /\ Holds(path, "bin_count", "float",
                 [i \in 1 .. job.nbins |->
                     Fraction(pairs[i] * job.nbins * job.nbins, all * (i * i - (i - 1) * (i - 1)))])
        /\ Says(path, "total_number", "int", Cardinality(CentersOf(c)))
        /\ Says(path, "plane_count", "int",
                Cardinality({k \in DOMAIN Out.temps : Out.temps[k][1] \in PlanesOf(c)}))

\* The drift of every frame as the links make it.
Drift ==
    LET links == {l \in InFile \X InFile :
                     /\ Frame[l[2]] = Frame[l[1]] + 1
                     /\ file[l[1]].id = file[l[2]].id /\ file[l[1]].id >= 0
                     /\ Cardinality(OfTrack(file[l[1]].id)) >= job.trim}
        LinksOf(g) == {l \in links : Frame[l[1]] = g}
        Mean(g, j) == IF LinksOf(g) = {} THEN 0
                      ELSE MapThenSumSet(LAMBDA l : Disp(l[1], l[2])[j], LinksOf(g))
                           \div Cardinality(LinksOf(g))
    IN  [f \in 0 .. LastFrame |->
            [j \in DOMAIN job.img |-> MapThenSumSet(LAMBDA g : Mean(g, j), 0 .. f - 1)]]

\* The displacements over s steps, end to end along the tracks that are long
\* enough in the current turn, without the drift.
EndToEnd(s, drift) ==
    {<<l[1], l[2], Minus(Disp(l[1], l[2]), Minus(drift[Frame[l[2]]], drift[Frame[l[1]]]))>> :
        l \in {k \in InFile \X InFile :
                 /\ Frame[k[2]] = Frame[k[1]] + s
                 /\ file[k[1]].id = file[k[2]].id /\ file[k[1]].id >= 0
                 /\ LET t == OfTrack(file[k[1]].id)
                    IN  /\ Cardinality(t) >= job.lens[turn]
                        /\ (Frame[k[1]] - Min({Frame[p] : p \in t})) % s = 0}}

MsdFiled(moves) ==
    LET path == <<<<"mean_squared_disp", CompKey>>>>
    IN  /\ Holds(path, "msd", "float",
                 [s \in 1 .. MaxStep |->
                     Fraction(MapThenSumSet(LAMBDA m : SquareSum(m[3]), moves[s]),
                              Cardinality(moves[s]))])
        /\ Holds(path, "seg_count", "int", [s \in 1 .. MaxStep |-> Cardinality(moves[s])])
        /\ Says(path, "min_track_length", "int", job.lens[turn])

\* Every displacement is in one bin, or counted as under or over.
VanHoveFiled(moves) ==
    \A s \in 1 .. MaxStep, j \in {1, 2} :
        LET path == <<<<"vanHove", CompKey>>, <<"step", s>>, <<IF j = 1 THEN "x" ELSE "y", 0>>>>
            In(lo, hi) == Cardinality({m \in moves[s] : /\ lo <= m[3][j] * Out.nbins
                                                       /\ m[3][j] * Out.nbins < hi})
            Edge(i) == 2 * i * Out.range - Out.nbins * Out.range
        IN  /\ Holds(path, "disp_count", "int",
                     [i \in 1 .. Out.nbins |-> In(Edge(i - 1), Edge(i))])
            /\ Says(path, "under_count", "int",
                    Cardinality({m \in moves[s] : m[3][j] < -Out.range}))
            /\ Says(path, "over_count", "int",
                    Cardinality({m \in moves[s] : m[3][j] >= Out.range}))

\* Every frame but the first counts once in the temperature of the results.
TempFiled ==
    LET after == 1 .. LastFrame
    IN  Says(<<<<IF Out.kind = "msd" THEN "mean_squared_disp" ELSE "vanHove", CompKey>>>>,
             "temperature", "float",
             Fraction(MapThenSumSet(LAMBDA f : Out.temps[f + 1][2], after), Cardinality(after)))

MovesFiled ==
    LET drift == Drift
        moves == [s \in 1 .. MaxStep |-> EndToEnd(s, drift)]
    IN  /\ IF Out.kind = "msd" THEN MsdFiled(moves) ELSE VanHoveFiled(moves)
        /\ TempFiled

\* Why a program can be refused: its key was used before, or the
\* frames_per_comp it was asked for is not the one it used.
Reused == \E path \in DOMAIN prior : path # <<>> /\ path[1][2] \in Out.key .. CompKey
Contradicted == Out.kind = "case" /\ Out.perComp > 0 /\ Out.perComp # Step

\* The attributes of a group, or of a data set of it.
AttrsAt(path, dset) ==
    IF dset = "" THEN results.file[path].attrs ELSE results.file[path].dsets[dset].attrs

\* A note that was accepted, if it is no empty string, is read back as it was
\* made, whatever is noted, read and copied afterwards, and what was read into a
\* store is in the file, each key once.
NotesKept ==
    /\ \A n \in {m \in noted : Named(m.elem)} :
          /\ CanRead(AttrsAt(n.path, n.dset), n.elem.key, n.elem.type)
          /\ AttrsAt(n.path, n.dset)[n.elem.key].val = n.elem.val
    /\ \A i, k \in DOMAIN readMd : i # k => readMd[i].key # readMd[k].key
    /\ \A e \in ToSet(readMd) :
          \E path \in DOMAIN results.file : \E dset \in {""} \cup DOMAIN results.file[path].dsets :
              LET attrs == AttrsAt(path, dset)
              IN  /\ e.key \in DOMAIN attrs /\ attrs[e.key].type = e.type
                  /\ attrs[e.key].val = e.val

Filed(here) == stage = here /\ filed > 0 /\ ~Due

\* Nothing that was in the results file is changed or lost, neither the values
\* of a data set nor an attribute of it or of a group, whatever is filed, and
\* whichever call fails (Generic_wrapper_hdf, Attr_list_hdf).
PriorKept ==
    \A path \in DOMAIN prior :
        /\ path \in DOMAIN results.file
        /\ \A n \in DOMAIN prior[path].dsets :
              LET was == prior[path].dsets[n]
                  is == results.file[path].dsets[n]
              IN  /\ n \in DOMAIN results.file[path].dsets
                  /\ was.type = is.type /\ was.vals = is.vals
                  /\ \A k \in DOMAIN was.attrs :
                        k \in DOMAIN is.attrs /\ was.attrs[k] = is.attrs[k]
        /\ \A k \in DOMAIN prior[path].attrs :
              /\ k \in DOMAIN results.file[path].attrs
              /\ prior[path].attrs[k] = results.file[path].attrs[k]

\* Prior results are kept; a program that got to its end has filed, under the key
\* it claimed, exactly what the particles and tracks it read make, with the
\* attributes that go with it; and it is refused only for those two reasons
\* (Corr_case, Corr_gofr, TA_msd, TA_vanHove and Histogram with
\* Generic_wrapper_hdf).  What a script notes in the file stays.
ResultsFiled ==
    /\ PriorKept
    /\ NotesKept
    /\ filed > 0 /\ stage = "thrown" => Reused \/ Contradicted
    /\ Filed("done") /\ Out.kind \in {"gofr", "general"} /\ RoomInside => GofrFiled(GofrPath, 0)
    /\ Filed("done") /\ Out.kind = "case" =>
          /\ RoomInside => \A c \in Corrs : GofrFiled(CompPath(GofrPath, c), c)
          /\ Says(GofrPath, "comp_count", "int", job.cases)
          /\ Says(GofrPath, "frames_per_comp", "int", Step)
    /\ Filed("average") /\ left = {} /\ filed = turn /\ ~WithCuts => MovesFiled
    /\ Filed("done") => ~results.open

=============================================================================
