---------------------------- MODULE MCStatistics ----------------------------
(* Instances of StatPrograms for TLC: eight particles in four frames.  Each job *)
(* has the files that make its own calls interesting.                         *)
EXTENDS StatPrograms

MCFrame == (1 :> 0) @@ (2 :> 0) @@ (3 :> 0) @@ (4 :> 1) @@ (5 :> 1) @@
           (6 :> 2) @@ (7 :> 2) @@ (8 :> 3)

\* What is filed: nothing, or results of this kind under this key.
NoResults == [kind |-> "none", key |-> 0, perComp |-> 0, temps |-> <<>>, range |-> 1, nbins |-> 1]
ResultsOf(kind, key) == [NoResults EXCEPT !.kind = kind, !.key = key]

\* The temperatures of the four frames.
Warming == <<<<0, 7>>, <<1, 8>>, <<2, 8>>, <<3, 9>>>>

\* A job that only fills the hash; the others add the calls of one program.
Plain == [name |-> "hash", img |-> <<7, 7>>, upb |-> 3, frames |-> 1, tracks |-> FALSE,
          nrange |-> 0, range |-> 0, nbins |-> 2, cases |-> 1, single |-> TRUE, trim |-> 2,
          lens |-> <<2>>, maxstep |-> 0, nmin |-> -1, nmax |-> -1,
          feed |-> "no", spacing |-> 1, thick |-> 1, out |-> NoResults]

\* Particles 1, 2 and 3 of one frame at any of these places.
Scattered(xs, ys) ==
    {[p \in 1 .. 3 |-> [at |-> at[p], id |-> -1]] : at \in [1 .. 3 -> xs \X ys]}

\* One particle in each of the first three frames and a second in the first.
Spread(xs, ys) ==
    {[p \in {1, 2, 4, 6} |-> [at |-> at[p], id |-> -1]] :
        at \in [{1, 2, 4, 6} -> xs \X ys]}

\* gofr takes boxes of half the range, gofr3D boxes of the range.
Gofr == [Plain EXCEPT !.name = "gofr", !.img = <<12, 11>>, !.upb = 2, !.range = 4,
                      !.out = [ResultsOf("gofr", 5) EXCEPT !.temps = <<<<0, 7>>>>]]
\* The same behind a run under the same key that was killed while it filed.
Again == [Gofr EXCEPT !.name = "again"]
\* gofr_general: three planes of a packing.
General == [Gofr EXCEPT !.name = "general", !.feed = "jb", !.frames = 3, !.spacing = 4,
                        !.thick = 2, !.out = ResultsOf("general", 0)]
Script == [Plain EXCEPT !.name = "script", !.feed = "script"]
\* A script that adds attributes to what gofr has filed.
Notes == [Plain EXCEPT !.name = "notes", !.feed = "notes"]
Gofr3D == [Plain EXCEPT !.name = "gofr3D", !.img = <<10, 12>>, !.range = 3, !.nbins = 3]
\* Images without room for an inner box: on one axis, on both, for the buffer.
GofrSmall(w, h) == [Gofr EXCEPT !.name = "small", !.img = <<w, h>>, !.out = NoResults]
ByPlane(c) == [Gofr3D EXCEPT !.name = "by_plane", !.frames = 3, !.single = FALSE, !.cases = c,
                             !.out = ResultsOf("case", 5)]
\* So many frames to a correlator as were asked for.
PerComp(n) == [ByPlane(3 \div n) EXCEPT !.name = "per_comp", !.out.perComp = n,
                                       !.out.temps = <<<<0, 7>>, <<1, 8>>>>]
Phi6(upb) == [Plain EXCEPT !.name = "phi6", !.upb = upb, !.nrange = 3]
Sweep == [Plain EXCEPT !.name = "sweep", !.frames = 4, !.img = <<9, 9>>, !.upb = 50,
                       !.tracks = TRUE, !.lens = <<2, 3>>,
                       !.out = [ResultsOf("msd", 5) EXCEPT !.temps = Warming]]
SweepAgain == [Sweep EXCEPT !.name = "sweep_again"]
VanHove == [Sweep EXCEPT !.name = "vanHove", !.trim = 3, !.lens = <<3>>, !.maxstep = 2,
                         !.out = [ResultsOf("vanHove", 5) EXCEPT !.range = 3, !.nbins = 3,
                                                                   !.temps = Warming]]
VanHoveSweep == [VanHove EXCEPT !.name = "vanHove_sweep", !.trim = 2, !.lens = <<2, 3>>, !.maxstep = 0]
LookUp == [Sweep EXCEPT !.name = "look_up", !.lens = <<2>>, !.out = NoResults]

MCJobs == {Plain, Gofr, Gofr3D, GofrSmall(12, 8), GofrSmall(7, 7), GofrSmall(5, 5),
           GofrSmall(4, 12)}
          \cup {ByPlane(c) : c \in 0 .. 4} \cup {PerComp(n) : n \in 1 .. 3}
          \cup {Phi6(2), Phi6(3), Sweep, VanHove, VanHoveSweep, LookUp}
          \cup {Again, SweepAgain, General, Script, Notes}

PartialInjections(A, B) == UNION {Injection(D, B) : D \in SUBSET A}

\* How particles of consecutive frames can be linked; particle 3 never is.
Linkings ==
    {l @@ m @@ n : l \in PartialInjections({1, 2}, {4, 5}),
                   m \in PartialInjections({4, 5}, {6, 7}),
                   n \in PartialInjections({6, 7}, {8})}

Firsts(l) == DOMAIN l \ Range(l)

\* The ids of the particles when the tracks have these numbers.
Ids(l, number) ==
    LET ident[p \in Particle] ==
            IF p \in DOMAIN number THEN number[p]
            ELSE IF p \in Range(l) THEN ident[CHOOSE q \in DOMAIN l : l[q] = p] ELSE -1
    IN  ident

\* The tracks of l and particle 3 as a track of its own, under any numbers.
Numbers(l) == Bijection(Firsts(l) \cup {3}, 0 .. Cardinality(Firsts(l)))

ByParticle(l) == [p \in Firsts(l) |-> Cardinality({q \in Firsts(l) : q < p})]

\* The x coordinates: drifting together, and each on its own.
Drifting == [p \in Particle |-> 2 * MCFrame[p]]
Scattering == [p \in Particle |-> (2 * p * p) % 6]

TrackFile(S, x, ids) == [p \in S |-> [at |-> <<x[p], 4>>, id |-> ids[p]]]

MCFiles(j) ==
    CASE j.name \in {"hash", "phi6"} -> Scattered({-1, 2, 6}, {2, 3, 9})
      [] j.name \in {"gofr", "small"} -> Scattered({2, 4, 7}, {4, 8})
      [] j.name = "gofr3D" -> Scattered({3, 5, 8}, {5, 6})
      [] j.name = "by_plane" -> Spread({3, 5}, {4, 6})
      [] j.name = "sweep" ->
            {<<>>} \cup {TrackFile(Particle, x, Ids(l, ByParticle(l))) :
                            x \in {Drifting, Scattering}, l \in Linkings}
      [] j.name = "vanHove" ->
            {TrackFile(Particle, Scattering, Ids(l, ByParticle(l))) : l \in Linkings}
      [] j.name = "again" -> {[p \in 1 .. 2 |-> [at |-> <<4 + p, 4>>, id |-> -1]]}
      [] j.name = "per_comp" -> Spread({3, 5}, {4})
      [] j.name = "sweep_again" ->
            {TrackFile({1, 4, 6}, Scattering, [p \in Particle |-> 0])}
      [] j.name = "vanHove_sweep" ->
            {TrackFile(Particle \ {3}, Scattering, Ids(l, ByParticle(l))) :
                l \in {k \in Linkings : Cardinality(DOMAIN k) >= 4}}
      [] j.name \in {"general", "script", "notes"} -> {<<>>}
      [] j.name = "look_up" ->
            UNION {{TrackFile(Particle, Drifting, Ids(l, n)) : n \in Numbers(l)} :
                   l \in {k \in Linkings : Cardinality(Firsts(k)) = 3}}

MCInputs(j) ==
    IF j.name # "general" THEN {<<>>}
    ELSE {<<<<x, 5, a>>, <<y, 4, b>>, <<7, 6, c>>>> :
             x \in {4, 6}, y \in {4, 7}, a \in {0, 1, 2}, b \in {0, 4}, c \in {1, 5, 9, 12}}

\* Two frames, an integer and two float types, wrong kinds and wrong sizes.
FeedCalls ==
    {[call |-> "open_wrapper"], [call |-> "clear_data_type"], [call |-> "close_frame"]}
    \cup {[call |-> "setup", types |-> t, frames |-> n] :
             t \in {{"xpos", "ypos"}, {"index", "ypos"}}, n \in {1, 2}}
    \cup {[call |-> "open_frame", frame |-> f, n |-> 1, z |-> 0] : f \in {0, 1}}
    \cup {[call |-> "set_data_type", type |-> t] : t \in {"index", "xpos", "ypos"}}
    \cup {[call |-> "add_data", kind |-> k, vals |-> v] :
             k \in {"int", "float"}, v \in {<<5>>, <<6>>, <<5, 6>>}}

\* A key of the group and one of its data set, each in two types, one of them a
\* pair; the data set by its name and by its path; another group.
NoteElems == {Elem("n", "int", -1), Elem("n", "uint", 2), Elem("at", "pair", <<1, 2>>)}
NoteDsets == {[here |-> h, path |-> <<<<"gofr", 5>>>>, name |-> "bin_count"] : h \in BOOLEAN}
NoteCallsOf ==
    {CallOpen, CallClose, CallCloseGroup}
    \cup {CallOpenGroup(<<<<"gofr", k>>>>) : k \in {5, 6}}
    \cup {CallMetaData(<<e>>) : e \in NoteElems}
    \cup {CallDsetMetaData(d, <<e>>, SingleTypes) : d \in NoteDsets, e \in NoteElems}

MCScriptCalls(j) == IF j.name = "notes" THEN NoteCallsOf ELSE FeedCalls

\* The results of other programs, and what a killed run of this one left: a
\* gofr that got through its first n calls, a msd_sweep that made other cuts.
OtherResults ==
    AfterAll(WrapperOf(EmptyFile),
             GofrCalls(FALSE, <<<<"gofr", 4>>>>, <<1, 1>>, 1, 4, <<>>, <<Whole("comp_key", 4)>>)).file

LeftByGofr(n) ==
    LET made == GofrCalls(FALSE, <<<<"gofr", 5>>>>, <<0, 1>>, 1, 4, <<7>>,
                          <<Real("max_range", 4), Whole("nbins", 2), Whole("comp_key", 5)>>)
    IN  AfterAll(WrapperOf(OtherResults), SubSeq(made, 1, n)).file

LeftBySweep(n, cuts) ==
    LET made == MsdCalls(FALSE, 6, <<>>, 2, <<Whole("comp_key", 6)>> \o cuts)
    IN  AfterAll(WrapperOf(OtherResults), SubSeq(made, 1, n)).file

MCPriors(j) ==
    CASE j.name = "notes" -> {LeftByGofr(13)}
      [] j.out.kind = "none" -> {EmptyFile}
      [] j.name = "again" -> {LeftByGofr(n) : n \in 0 .. 13}
      [] j.name = "sweep_again" ->
            {LeftBySweep(n, cuts) : n \in 0 .. 5, cuts \in {<<>>, <<Whole("n_min", 3)>>}}
            \cup {LeftBySweep(3, <<Whole("min_track_length", 4)>>)}
      [] OTHER -> {OtherResults}

\* Neighbourhoods matter: tracks one or two units apart, and bounds on one side
\* or both.
CutJobs == {[Sweep EXCEPT !.name = "cuts", !.nrange = 3, !.nmin = lo, !.nmax = hi] :
              lo \in {-1, 1}, hi \in {-1, 0, 2}}
CutFiles(j) ==
    {TrackFile({1, 2, 4, 5, 6, 7}, x, Ids((1 :> 4) @@ (2 :> 5) @@ (4 :> 6) @@ (5 :> 7),
                                          (1 :> 0) @@ (2 :> 1))) :
        x \in [Particle -> {2, 6}]}
=============================================================================
