------------------------------ MODULE HdfFrames ------------------------------
(* One HDF file of particles and the programs that use it one after the      *)
(* other: process makes it (Wrapper_o_hdf, NEW_FILE), tracking and phi6 read  *)
(* it (Wrapper_i_hdf, Master_box, hash_case) and add data sets of their own   *)
(* (APPEND_FILE); what hash_case::init reads back for a sweep is an operator. *)
(* A library call may fail at any step and a program may be killed at any     *)
(* step.                                                                      *)
(*                                                                            *)
(* A data set is an array from 0.  A frame's particles are the numbers 1, 2,  *)
(* ... of the wrapper the identification filled; two of the nine data types   *)
(* it writes stand for all, one below and one above those of tracking.        *)
EXTENDS Identification

CONSTANTS
    Key,        \* comp_keys that are handed out
    MaxRuns(_)  \* bound: programs that are run on the file of an image

VARIABLES
    file,     \* what is in the HDF file
    prog,     \* the program that runs: what, under which keys, where it is
    box,      \* its particles, frame by frame in the order of the hash boxes
    group,    \* current_group_: the buffers of the open frame
    runs      \* the programs that have ended

hdfVars == <<file, prog, box, group, runs>>

\* D_TYPE, in its order
XPOS == 1
NEXT_INDX == 7
PREV_INDX == 8
DX == 9
TRACKID == 14
N_SIZE == 17

TypesOf(kind) ==
    CASE kind = "process" -> {XPOS, DX}
      [] kind = "tracking" -> {NEXT_INDX, PREV_INDX, TRACKID}
      [] kind = "phi6" -> {N_SIZE}
      [] OTHER -> {}
Below(T, n) == {t \in T : Cardinality({u \in T : u <= t}) <= n}  \* the first n types of a set

FillValue == -1234  \* of a data set that was never written
BufferValue == -1   \* of an entry of a buffer nothing was stored in

Closed == [open |-> FALSE]
Nobody == [kind |-> "none"]
NoFile == [state |-> "absent", planes |-> 0, params |-> {}, lists |-> {},
           frames |-> {}, data |-> <<>>, attrs |-> <<>>]

Frames == 1 .. NFramesOut

\* What g has, and what f has elsewhere.
Over(g, f) == [x \in DOMAIN g \cup DOMAIN f |-> IF x \in DOMAIN g THEN g[x] ELSE f[x]]

HdfInit ==
    /\ IdenInit
    /\ file = NoFile
    /\ prog = Nobody
    /\ box = <<>>
    /\ group = Closed
    /\ runs = {}

-----------------------------------------------------------------------------
(* Wrapper_i_hdf::priv_init: all arrays of all frames are read at once; the   *)
(* types go in the order of D_TYPE, and an array longer than one before it in *)
(* its frame is left out.                                                     *)

SizeOf(f, p) == Cardinality(DOMAIN file.data[<<f, p[1], p[2]>>])
CanRead(pairs) ==
    /\ file.state = "good"
    /\ file.planes > 0
    /\ \A f \in 1 .. file.planes :
        /\ f \in file.frames
        /\ \E a \in file.attrs[f] : a.key = "z-position"
        /\ \A p \in pairs : <<f, p[1], p[2]>> \in DOMAIN file.data
Loaded(pairs, f, p) == \A q \in pairs : q[1] < p[1] => SizeOf(f, q) >= SizeOf(f, p)
NumEntries(pairs, f) == CHOOSE n \in {SizeOf(f, p) : p \in pairs} :
                            \A p \in pairs : n <= SizeOf(f, p)

\* get_value: it looks at neither the pointer of the array nor the index.
Inside(pairs, f, p, i) == Loaded(pairs, f, p) /\ i < SizeOf(f, p)
Value(f, p, i) == file.data[<<f, p[1], p[2]>>][i]

IdenPairs(k) == {<<XPOS, k>>, <<DX, k>>}
TrackPairs(k, tk) == {<<XPOS, k>>} \cup {<<t, tk>> : t \in TypesOf("tracking")}

MdStores == [f \in 1 .. file.planes |-> StoreOf(file.attrs[f])]

-----------------------------------------------------------------------------
(* The particles of a program                                                 *)

\* A comp_key no committed computation has: that of a failed one is handed out again.
\* Particles are read under a key that was recorded.
Claims(k) == k \in Key /\ \A r \in runs : r.key = k => r.code # 0
Recorded(k) == \E r \in runs : r.key = k /\ r.kind = "process" /\ r.code = 0
Free == prog = Nobody /\ Cardinality(runs) < MaxRuns(stack)

Program(kind, k, rk, mds, sizes) ==
    [kind |-> kind, key |-> k, rkey |-> rk, pc |-> "open", frame |-> 1, at |-> "open",
     md |-> mds, size |-> sizes, tracks |-> <<>>, err |-> "none", outside |-> FALSE]

\* The order of the boxes is that of the positions: any.  It is left at one where
\* particles are stored by index.
InSomeOrder(S) == SetToSeqs(S)

Processed(i) == [ind |-> i - 1, val |-> [t \in TypesOf("process") |-> i]]
MaxIndCount(S) == Cardinality(S) - 1  \* mutant: as many as are kept
MaxInd(S) == Max({0} \cup S)  \* max_part_indx_ starts at 0

StartProcess(k) ==
    /\ Free /\ IdenDone /\ Claims(k)
    /\ box' \in [Frames -> UNION {InSomeOrder({Processed(i) : i \in 1 .. n}) : n \in 0 .. MaxFound}]
    /\ \A f \in Frames : Len(box'[f]) = wrapper[f].found
    /\ prog' = Program("process", k, k, [f \in Frames |-> wrapper[f].md],
                       [f \in Frames |-> MaxInd(0 .. wrapper[f].found - 1) + 1])
    /\ UNCHANGED <<file, group, runs>>

\* Master_box::init: the entries that pass the filter; every type is looked at.
Kept == [1 .. file.planes -> SUBSET (0 .. MaxFound)]
Passing(pairs, kept) ==
    \A f \in 1 .. file.planes : \A i \in kept[f] : i < NumEntries(pairs, f)
ReadsOutside(pairs) ==
    \E f \in 1 .. file.planes : \E i \in 0 .. NumEntries(pairs, f) - 1, p \in pairs : ~Inside(pairs, f, p, i)

\* What linking and renumber leave: one to one links between frames; a track
\* starts at a link nothing is linked to, ids go in the order of the first frames.
Links(kept) ==
    LET Pairs(f) == {l \in SUBSET (kept[f] \X kept[f + 1]) :
                        \A p, q \in l : p # q => p[1] # q[1] /\ p[2] # q[2]}
    IN  {l \in [1 .. file.planes - 1 -> UNION {Pairs(f) : f \in 1 .. file.planes - 1}] :
            \A f \in DOMAIN l : l[f] \in Pairs(f)}
NextOf(l, f, i) == IF \E p \in l[f] : p[1] = i THEN (CHOOSE p \in l[f] : p[1] = i)[2] ELSE -1
Linked(links, f, i) == IF f \in DOMAIN links /\ i >= 0 THEN NextOf(links, f, i) ELSE -1
TrackFrom(links, f, i) ==
    LET at[g \in f .. file.planes] == IF g = f THEN i ELSE Linked(links, g - 1, at[g-1])
    IN  [g \in {h \in DOMAIN at : at[h] >= 0} |-> at[g]]
Tracks(links) ==
    {TrackFrom(links, w[1], w[2][1]) : w \in
        {v \in (DOMAIN links) \X UNION {links[f] : f \in DOMAIN links} :
            v[2] \in links[v[1]] /\ ~(v[1] > 1 /\ \E p \in links[v[1] - 1] : p[2] = v[2][1])}}
FirstFrame(t) == Min(DOMAIN t)
TrackLists(kept) ==
    UNION {{s \in SetToSeqs(Tracks(links)) : \A m, n \in 1 .. Len(s) :
               m < n => FirstFrame(s[m]) <= FirstFrame(s[n])} : links \in Links(kept)}
Tracked(tracks, f, i) ==
    LET on == {n \in 1 .. Len(tracks) : f \in DOMAIN tracks[n] /\ tracks[n][f] = i}
        Beside(g) == IF \E n \in on : g \in DOMAIN tracks[n]
                     THEN tracks[CHOOSE n \in on : g \in DOMAIN tracks[n]][g] ELSE -1
    IN  [ind |-> i, val |-> [t \in TypesOf("tracking") |->
            CASE t = NEXT_INDX -> Beside(f + 1)
              [] t = PREV_INDX -> Beside(f - 1)
              [] OTHER -> IF on = {} THEN -1 ELSE (CHOOSE n \in on : TRUE) - 1]]

\* The mean gap is taken over all frames but the first; without one it is 0 / 0.
HasTimes == file.planes > 1 /\ \A f \in 2 .. file.planes : CanGet(MdStores[f], "dtime", "int")
StartTracking(k, rk) ==
    LET pairs == IdenPairs(rk)
    IN  /\ Free /\ Claims(k) /\ Recorded(rk)
        /\ CanRead(pairs) /\ HasTimes
        /\ \E kept \in {x \in Kept : Passing(pairs, x)} : \E tracks \in TrackLists(kept) :
            /\ box' = [f \in 1 .. file.planes |-> SetToSeq({Tracked(tracks, f, i) : i \in kept[f]})]
            /\ prog' = [Program("tracking", k, rk, MdStores,
                                [f \in 1 .. file.planes |-> MaxInd(kept[f]) + 1])
                        EXCEPT !.outside = ReadsOutside(pairs), !.tracks = tracks]
        /\ UNCHANGED <<file, group, runs>>

\* phi6 fills the hash case without a master box.  What it computes is left at 0.
StartPhi6(k, rk) ==
    LET pairs == IdenPairs(rk)
        Counted(i) == [ind |-> i, val |-> [t \in TypesOf("phi6") |-> 0]]
    IN  /\ Free /\ Claims(k) /\ Recorded(rk)
        /\ CanRead(pairs)
        /\ \E kept \in Kept :
            /\ Passing(pairs, kept)
            /\ box' = [f \in 1 .. file.planes |-> SetToSeq({Counted(i) : i \in kept[f]})]
            /\ prog' = [Program("phi6", k, rk, MdStores,
                                [f \in 1 .. file.planes |-> MaxInd(kept[f]) + 1])
                        EXCEPT !.outside = ReadsOutside(pairs)]
        /\ UNCHANGED <<file, group, runs>>

-----------------------------------------------------------------------------
(* Writing: initialize_wrapper, then hash_case::output_to_wrapper with an     *)
(* open_group, add_meta_store, store_particle ... and close_group per frame,  *)
(* add_meta_data_list and finalize_wrapper                                    *)

Appends == prog.kind # "process"
Types == TypesOf(prog.kind)

At(pc) == prog # Nobody /\ prog.pc = pc
Goto(pc) == prog' = [prog EXCEPT !.pc = pc]
Throw(kind) == prog' = [prog EXCEPT !.err = kind, !.pc = "thrown", !.at = prog.pc]

\* initialize_wrapper creates the file and a group for each type's parameters.
ParamGroups(T) == {<<t, prog.key>> : t \in T}
CanOpen == IF Appends THEN file.state = "good" ELSE file.state = "absent"
Opened(T) ==
    IF Appends THEN [file EXCEPT !.params = @ \cup ParamGroups(T)]
    ELSE [NoFile EXCEPT !.state = "good", !.params = ParamGroups(T)]

OpenFile ==
    /\ At("open") /\ CanOpen
    /\ file.params \cap ParamGroups(Types) = {}
    /\ file' = Opened(Types)
    /\ Goto("root")
    /\ UNCHANGED <<box, group, runs>>

OpenFileFails ==
    /\ At("open")
    /\ \/ ~CanOpen /\ Throw("std") /\ file' = file
       \/ /\ CanOpen /\ Throw("h5")
          /\ \E n \in 0 .. Cardinality(Types) - 1 :
                /\ ParamGroups(Below(Types, n)) \cap file.params = {}
                /\ file' = Opened(Below(Types, n))
    /\ UNCHANGED <<box, group, runs>>

\* The number of planes is an attribute of the root: written, or compared.
WriteRoot ==
    /\ At("root")
    /\ file.planes \in {0, Len(box)}
    /\ file' = [file EXCEPT !.planes = Len(box)]
    /\ Goto("group")
    /\ UNCHANGED <<box, group, runs>>

WriteRootFails ==
    /\ At("root")
    /\ Throw(IF file.planes \in {0, Len(box)} THEN "h5" ELSE "std")
    /\ file' = file
    /\ UNCHANGED <<box, group, runs>>

\* The constructor of Wrapper_o_hdf_group makes one data set after the other;
\* current_group_ is set when it is through.
Names(f, T) == {<<f, t, prog.key>> : t \in T}
WithFrame(f, T) ==
    [file EXCEPT
        !.frames = @ \cup {f},
        !.attrs = Over(@, [g \in {f} |-> {}]),
        !.data = Over([d \in Names(f, T) |-> [i \in 0 .. prog.size[f] - 1 |-> FillValue]], @)]
CanMake(f, T) ==
    /\ Appends <=> f \in file.frames
    /\ Names(f, T) \cap DOMAIN file.data = {}

OpenGroup ==
    /\ At("group") /\ prog.frame <= Len(box)
    /\ CanMake(prog.frame, Types)
    /\ file' = WithFrame(prog.frame, Types)
    /\ group' = [open |-> TRUE, added |-> 0,
                 vals |-> [t \in Types |-> [i \in 0 .. prog.size[prog.frame] - 1 |-> BufferValue]]]
    /\ Goto("meta")
    /\ UNCHANGED <<box, runs>>

OpenGroupFails ==
    /\ At("group") /\ prog.frame <= Len(box)
    /\ \E n \in 0 .. Cardinality(Types) - 1 :
        /\ CanMake(prog.frame, Below(Types, n))
        /\ file' = WithFrame(prog.frame, Below(Types, n))
    /\ Throw("h5")
    /\ UNCHANGED <<box, group, runs>>

\* add_meta_store; what it throws is no exception of HDF5.
WriteMeta ==
    /\ At("meta")
    /\ LET f == prog.frame
       IN  /\ file' = [file EXCEPT !.attrs[f] = AddMetaStore(@, prog.md[f])]
           /\ IF Takes(file.attrs[f], prog.md[f]) THEN Goto("store") ELSE Throw("std")
    /\ UNCHANGED <<box, group, runs>>

\* store_particle of one after the other: appended values go to the particle's
\* own index, those of a new file to the next.
IndexNext(p, n) == n - 1  \* mutant: also when appending
Index(p, n) == IF Appends THEN p.ind ELSE n - 1
StoreParticles ==
    /\ At("store")
    /\ LET f == prog.frame
           Here(i) == {n \in 1 .. Len(box[f]) : Index(box[f][n], n) = i}
       IN  /\ group' = [group EXCEPT
                   !.added = Len(box[f]),
                   !.vals = [t \in Types |-> [i \in DOMAIN @[t] |->
                       IF Here(i) = {} THEN @[t][i] ELSE box[f][Max(Here(i))].val[t]]]]
           /\ prog' = [prog EXCEPT !.pc = "close",
                   !.outside = @ \/ \E n \in 1 .. Len(box[f]) : Index(box[f][n], n) >= prog.size[f]]
    /\ UNCHANGED <<file, box, runs>>

\* write_to_disk: refuses a wrong count, then writes the data sets one by one.
CountRight == group.added = Len(box[prog.frame])
Written(T) == [file EXCEPT !.data = Over([d \in Names(prog.frame, T) |-> group.vals[d[2]]], @)]

CloseGroup ==
    /\ At("close") /\ CountRight
    /\ file' = Written(Types)
    /\ group' = Closed
    /\ prog' = [prog EXCEPT !.pc = "group", !.frame = @ + 1]
    /\ UNCHANGED <<box, runs>>

CloseGroupFails ==
    /\ At("close")
    /\ IF CountRight
       THEN /\ \E n \in 0 .. Cardinality(Types) - 1 : file' = Written(Below(Types, n))
            /\ Throw("h5")
       ELSE file' = file /\ Throw("std")
    /\ UNCHANGED <<box, group, runs>>

WriteList ==
    /\ At("group") /\ prog.frame > Len(box)
    /\ file' = [file EXCEPT !.lists = @ \cup ParamGroups(Types)]
    /\ Goto("done")
    /\ UNCHANGED <<box, group, runs>>

WriteListFails ==
    /\ At("group") /\ prog.frame > Len(box)
    /\ \E n \in 0 .. Cardinality(Types) - 1 :
        file' = [file EXCEPT !.lists = @ \cup ParamGroups(Below(Types, n))]
    /\ Throw("h5")
    /\ UNCHANGED <<box, group, runs>>

-----------------------------------------------------------------------------
(* The ends.  process catches everything; tracking catches what is a          *)
(* std::exception, and that of HDF5 is none; phi6 catches a std::exception,   *)
(* says so, and goes on to record its results.                                *)

Killed == -9

\* Of what a run held only what the properties look at is kept.
Ended(code) ==
    /\ runs' = runs \cup {[kind |-> prog.kind, key |-> prog.key, code |-> code,
                           err |-> IF code = Killed THEN "killed" ELSE prog.err,
                           at |-> prog.at, tracks |-> prog.tracks,
                           kept |-> IF code = 0 THEN [f \in DOMAIN box |-> {box[f][n] : n \in 1 .. Len(box[f])}]
                                    ELSE <<>>]}
    /\ prog' = Nobody
    /\ box' = <<>>
    /\ group' = Closed

\* The file is closed and the results are recorded; for tracking more can fail.
EndWell ==
    /\ At("done")
    /\ \E code \in {0, -1} :
        /\ code # 0 => prog.kind = "tracking"
        /\ Ended(code)
    /\ UNCHANGED file

Terminates == prog.kind = "tracking" /\ prog.err = "h5"

\* ~Wrapper_o_hdf: finalize_wrapper closes an open group and swallows what it throws.
Unwind ==
    /\ At("thrown") /\ ~Terminates
    /\ IF group.open /\ CountRight
       THEN \E n \in 0 .. Cardinality(Types) : file' = Written(Below(Types, n))
       ELSE file' = file
    /\ Ended(IF prog.kind = "phi6" /\ prog.err = "std" THEN 0 ELSE -1)

\* A program that dies leaves a file that is as it stands or cannot be opened.
Kill ==
    /\ prog # Nobody
    /\ file' \in {file, [NoFile EXCEPT !.state = "broken"]}
    /\ file.state = "absent" => file' = file
    /\ Ended(Killed)

Starts == \E k, rk \in Key : StartProcess(k) \/ StartTracking(k, rk) \/ StartPhi6(k, rk)
Writes ==
    \/ OpenFile \/ WriteRoot \/ OpenGroup \/ WriteMeta \/ StoreParticles
    \/ CloseGroup \/ WriteList
Fails == OpenFileFails \/ WriteRootFails \/ OpenGroupFails \/ CloseGroupFails \/ WriteListFails
Ends == EndWell \/ Unwind \/ Kill

HdfNext ==
    \/ IdenStep /\ UNCHANGED hdfVars
    \/ (Starts \/ Writes \/ Fails \/ Ends) /\ UNCHANGED idenVars

HdfSpec == HdfInit /\ [][HdfNext]_<<idenVars, hdfVars>>

-----------------------------------------------------------------------------
(* hash_case::init of the sweeps: from every entry that has a next and no     *)
(* previous particle the next indices are walked.  A walk is the indices it   *)
(* passes; it ends, or meets what the code throws at, or leaves an array.     *)

End == -1
Broken == -2
Outside == -3

Walk(rk, tk, k, j) ==
    LET pairs == TrackPairs(rk, tk)
        Read(t, f, i) == Value(f, <<t, tk>>, i)
        Step(f, i) ==  \* from entry i of frame f
            LET next == Read(NEXT_INDX, f, i)
            IN  CASE next < 0 -> End
                  [] next >= 0 /\ f = file.planes -> Broken
                  [] OTHER ->
                     IF \E t \in TypesOf("tracking") : ~Inside(pairs, f + 1, <<t, tk>>, next) THEN Outside
                     ELSE IF Read(PREV_INDX, f + 1, next) # i THEN Broken
                     ELSE IF Read(TRACKID, f + 1, next) # Read(TRACKID, k, j) THEN Broken
                     ELSE next
        at[n \in 0 .. file.planes + 1 - k] ==
            IF n = 0 THEN j ELSE IF at[n-1] < 0 THEN at[n-1] ELSE Step(k + n - 1, at[n-1])
    IN  at

StartsTrack(tk, k, j) == Value(k, <<PREV_INDX, tk>>, j) < 0 /\ Value(k, <<NEXT_INDX, tk>>, j) >= 0
Walks(rk, tk) ==
    {<<w[1], Walk(rk, tk, w[1], w[2])>> : w \in
        {v \in (1 .. file.planes) \X (0 .. MaxFound) :
            v[2] < NumEntries(TrackPairs(rk, tk), v[1]) /\ StartsTrack(tk, v[1], v[2])}}
LastOf(w) == w[2][file.planes + 1 - w[1]]
TrackOf(w) ==
    LET n == Cardinality({m \in DOMAIN w[2] : w[2][m] >= 0})
    IN  [f \in w[1] .. w[1] + n - 1 |-> w[2][f - w[1]]]
TracksReadLonger(rk, tk, minLength) ==  \* mutant: the length asked for is not enough
    {t \in {TrackOf(w) : w \in Walks(rk, tk)} : Cardinality(DOMAIN t) > minLength}
TracksRead(rk, tk, minLength) ==
    {t \in {TrackOf(w) : w \in Walks(rk, tk)} : Cardinality(DOMAIN t) >= minLength}

-----------------------------------------------------------------------------
(* The cuts of a program's filter: taken from its own parameters if all three *)
(* are there, from those of the identification otherwise.  What is recorded   *)
(* of the run is app_prams with the cuts of the file, and the mean gap.       *)

Cuts == {"e_cut", "rg_cut", "shift_cut"}
CutValue(who) == IF who = "program" THEN 1 ELSE 0
PramsWith(given, who) ==
    LET cut == SetToSeq(given)
    IN  [i \in 1 .. Cardinality(given) |-> Elem(cut[i], "float", CutValue(who))]

\* extract_prams: the list of the X positions, where process has put it.
CanExtract(rk) == file.state = "good" /\ <<XPOS, rk>> \in file.lists
ExtractPrams == PramsWith(Cuts, "file")
FilterPrams(given) == IF given = Cuts THEN PramsWith(given, "program") ELSE ExtractPrams

AvgDtimeDown ==  \* mutant: the mean is cut off
    LET sum == MapThenSumSet(LAMBDA f : GetValue(MdStores[f], "dtime"), 2 .. file.planes)
    IN  sum \div (file.planes - 1)
AvgDtime ==
    LET n == file.planes - 1
        sum == MapThenSumSet(LAMBDA f : GetValue(MdStores[f], "dtime"), 2 .. file.planes)
    IN  (2 * sum + n) \div (2 * n)
MdStore(given) ==
    AddElement(IF given = Cuts THEN PramsWith(given, "program")
               ELSE AddElements(PramsWith(given, "program"), ExtractPrams),
               "dtime", "int", AvgDtime)

-----------------------------------------------------------------------------
(* Properties                                                                 *)

Well == {r \in runs : r.code = 0 /\ r.err = "none"}

\* A run that says it is well has its data sets in the file, whole, and they
\* stay: tracking and phi6 have their values at the indices the particles were
\* read from and the buffer's value elsewhere, process has all of a particle at
\* one index; whatever is run, fails or is killed afterwards on the file
\* (wrapper_o_hdf_group.cpp:210-284, 411-453, wrapper_o_hdf.cpp:249-273).
SavedFramesWhole ==
    prog = Nobody /\ file.state = "good" =>
    \A r \in Well : \A f \in DOMAIN r.kept : \A t \in TypesOf(r.kind) :
        /\ <<f, t, r.key>> \in DOMAIN file.data
        /\ LET d == file.data[<<f, t, r.key>>]
           IN  IF r.kind = "process"
               THEN /\ \A i \in DOMAIN d : \A u \in TypesOf("process") : d[i] = file.data[<<f, u, r.key>>][i]
                    /\ 1 .. wrapper[f].found \subseteq {d[i] : i \in DOMAIN d}
               ELSE /\ \A p \in r.kept[f] : p.ind \in DOMAIN d /\ d[p.ind] = p.val[t]
                    /\ \A i \in DOMAIN d : d[i] = BufferValue \/ \E p \in r.kept[f] : p.ind = i

\* No track is made up: where a sweep reads tracks under a key without an error
\* they are those a run linked under this key, all of them from the length asked
\* for, however often that key was tried, failed or was killed on this file
\* (hash_case.cpp:358-452).
TracksReadTrue ==
    prog = Nobody =>
    \A rk \in {k \in Key : Recorded(k)}, tk \in Key : \A m \in 2 .. 3 :
        CanRead(TrackPairs(rk, tk)) /\ (\A w \in Walks(rk, tk) : LastOf(w) = End) =>
            \E r \in runs :
                /\ r.kind = "tracking" /\ r.key = tk
                /\ TracksRead(rk, tk, m) =
                        {t \in {r.tracks[n] : n \in 1 .. Len(r.tracks)} : Cardinality(DOMAIN t) >= m}

\* get_value looks at no index and no pointer, store_particle at no bound: still
\* nothing is read or written outside an array, in no order of programs
\* (wrapper_i_hdf.cpp:246-256, 426-479, wrapper_o_hdf_group.cpp:214-268).
NothingOutside ==
    /\ prog # Nobody => ~prog.outside
    /\ prog = Nobody =>
        \A rk \in {k \in Key : Recorded(k)}, tk \in Key :
            CanRead(TrackPairs(rk, tk)) => \A w \in Walks(rk, tk) : LastOf(w) # Outside

\* What the identification says of a frame reaches whoever reads the file, in
\* the types of the file and with nothing added, and writing it once more beside
\* other data sets is never refused (wrapper_o_hdf_group.cpp:345-407,
\* md_store_attr_list.cpp:39-79, attr_list_hdf.cpp:428-492).
MetaSurvives ==
    prog = Nobody =>
    /\ \A r \in runs : r.kind # "process" => ~(r.err = "std" /\ r.at = "meta")
    /\ \A k \in Key : Recorded(k) /\ CanRead(IdenPairs(k)) =>
        \A f \in 1 .. file.planes :
            {MdStores[f][i] : i \in 1 .. Len(MdStores[f])} =
            {Converted(wrapper[f].md[i]) : i \in {j \in 1 .. Len(wrapper[f].md) : Named(Converted(wrapper[f].md[j]))}}

\* What is recorded of a run is what it used: the cuts of its filter, unless only
\* some were given, and the mean time between the frames of the images, through
\* conversion, file and list (tracking.cpp:205-251, hash_case.cpp:255-275).
RecordedParams ==
    prog = Nobody =>
    \A k \in Key : Recorded(k) /\ CanRead(IdenPairs(k)) /\ HasTimes =>
        /\ CanExtract(k)
        /\ \A given \in {{}, Cuts} : \A c \in Cuts :
                GetValue(MdStore(given), c) = GetValue(FilterPrams(given), c)
        /\ LET n == file.planes - 1
               all == stack[FirstPlane(file.planes)].time - stack[1].time
           IN  2 * n * GetValue(MdStore({}), "dtime") \in 2 * all - n + 1 .. 2 * all + n
=============================================================================
