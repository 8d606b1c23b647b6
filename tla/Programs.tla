------------------------------ MODULE Programs ------------------------------
(* The analysis programs (apps/*.cpp, iden/apps/*.cpp) and the scripts that   *)
(* start them (script_src/python/appwrappy/cpp_wrapper.py), several at once   *)
(* on one data base.  They share the operations of SQL_handler but not their  *)
(* order: some record a computation before they write it, some after; two     *)
(* make one computation per turn of a loop; phi6 adds to the file it read;    *)
(* and for Iden the script inserts the rows, around the program or behind it. *)
(*                                                                            *)
(* A program is a record: the parameters main asks for, those in the Md_store *)
(* it records, and the order of its steps.  A run is a process of one         *)
(* program; a run of Iden is the script together with the program it starts.  *)
EXTENDS SqlHandler, Sequences

CONSTANTS
    Program,  \* the programs that are used
    Dir,      \* directories, each with the files of one data set
    MaxTurns  \* bound: computations one sweep is asked for

VARIABLES
    prog, dir, \* what each run runs, and on what
    state,     \* idle, running, failing, or how it ended: zero, nonzero
    place,     \* its position in the steps of its program
    asked,     \* computations asked of it: "steps" of a sweep
    turn,      \* count, the turns of the loop that are over
    nth,       \* the number in the name of the file Iden makes
    planned,   \* the key the script has handed to the program
    content    \* the results in the files, and whether they are whole

progVars == <<prog, dir, state, place, asked, turn, nth, planned, content>>
progsVars == <<sqlVars, progVars>>

-----------------------------------------------------------------------------
(* Parameters: what the scripts put in the file, what the programs ask for,   *)
(* and what the insert statements bind                                        *)

Cuts == {"e_cut", "rg_cut", "shift_cut"}
Files == {"db_path", "fin", "fout"}
IdenComps == {"iden_key", "dset_key"}
TrackComps == {"iden_key", "track_key", "dset_key"}

\* do_gofr, do_gofr_by_plane, do_phi6, do_msd_sweep, do_vanHove_sweep, do_link3D,
\* do_Iden and do_Iden_avg; the optional parameters are left out.
GofrGiven == {"nbins", "max_range", "grp_name"} \cup IdenComps \cup Files
GofrByPlaneGiven == {"nbins", "max_range", "grp_name"} \cup IdenComps \cup Files
Phi6Given == {"neighbor_range", "grp_name"} \cup IdenComps \cup Files
MsdSweepGiven == {"trk_len_min", "trk_len_step", "steps"} \cup TrackComps \cup Files
VanHoveSweepGiven ==
    {"trk_len_min", "trk_len_step", "steps", "nbins", "max_range"} \cup TrackComps \cup Files
Link3DGiven ==
    {"box_side_len", "search_range", "min_trk_len", "grp_name", "link_key"}
    \cup IdenComps \cup Files
IdenGiven ==
    {"number", "dset_key", "md_format", "file_name", "p_rad", "d_rad", "mask_rad",
     "threshold", "hwhm", "top_cut"} \cup Cuts
IdenAvgGiven == (IdenGiven \ {"md_format"}) \cup {"avg_count"}

\* The first part of each main, up to the end of its parsing.
GofrAsks == {"max_range", "nbins", "grp_name"} \cup IdenComps \cup Files
GofrByPlaneAsks == {"max_range", "nbins", "grp_name"} \cup IdenComps \cup Files
Phi6Asks == {"neighbor_range"} \cup IdenComps \cup Files
MsdSweepAsks == {"trk_len_min"} \cup TrackComps \cup Files
VanHoveSweepAsks ==
    {"trk_len_min", "trk_len_step", "steps", "max_range", "nbins"} \cup TrackComps \cup Files
VanHoveAsks ==
    {"min_track_length", "max_step", "max_range", "nbins"} \cup TrackComps \cup Files
Gofr3DAsks == {"max_range", "nbins", "grp_name", "read_comp", "write_comp", "dset"}
Link3DAsks ==
    {"box_side_len", "search_range", "min_trk_len", "link_key"} \cup IdenComps \cup Files
IdenAsks == {"threshold", "p_rad", "hwhm", "d_rad", "top_cut", "mask_rad", "number"}
IdenAvgAsks == IdenAsks \cup {"avg_count"}

\* iden_md_fun and its kind: the keys they look up in the Md_store.  Nobody
\* claims iden or msd_sweep of SQL_handler: the scripts insert the rows of iden
\* themselves, and msd_sweep.cpp records each of its turns as an msd.
IdenColumns ==
    {"comp_key", "dset_key", "threshold", "hwhm", "p_rad", "d_rad", "mask_rad", "top_cut",
     "frames_avged"}
MsdSweepColumns == {"comp_key", "trk_len_min", "trk_len_step", "steps"} \cup TrackComps
GofrColumns ==
    {"comp_key", "nbins", "max_range", "fin", "fout"} \cup IdenComps \cup Cuts
GofrByPlaneColumns == GofrColumns \cup {"comp_count", "frames_per_comp"}
Phi6Columns == {"comp_key", "neighbor_range", "fin", "fout"} \cup IdenComps \cup Cuts
MsdColumns ==
    {"comp_key", "msd_steps", "min_track_length", "fin", "fout"} \cup TrackComps
VanHoveColumns ==
    {"comp_key", "dset_key", "track_key", "min_track_length", "max_step", "max_range",
     "nbins", "fin", "fout"}

Columns == [iden |-> IdenColumns, msd |-> MsdColumns, msd_sweep |-> MsdSweepColumns,
            gofr |-> GofrColumns, vanHove |-> VanHoveColumns,
            gofr_by_plane |-> GofrByPlaneColumns, phi6 |-> Phi6Columns]

-----------------------------------------------------------------------------
(* The programs: the second part of each main                                 *)

\* func: the function claimed; row: the keys of the Md_store when it is recorded;
\* out: the file written to.  "write" opens a group for the results and refuses a
\* name that is there, "create" a whole file, "fill" puts the results in.
Gofr ==
    [given |-> GofrGiven, asks |-> GofrAsks, func |-> "gofr", out |-> "gofr.h5",
     row |-> GofrGiven \cup Cuts \cup {"comp_key"},
     steps |-> <<"parse", "connect", "claim", "load", "write", "fill", "record",
                 "commit", "close">>]

\* Bug: the results of the loop over the planes are not described.
GofrByPlaneUndescribed ==
    [given |-> GofrByPlaneGiven, asks |-> GofrByPlaneAsks, func |-> "gofr_by_plane",
     out |-> "gofr_by_planes.h5",
     row |-> GofrByPlaneGiven \cup Cuts \cup {"comp_key", "comp_count"},
     steps |-> <<"parse", "connect", "claim", "load", "record", "write", "fill",
                 "commit", "close">>]

\* Bug: the commit comes with the row.
GofrByPlaneEarly ==
    [given |-> GofrByPlaneGiven, asks |-> GofrByPlaneAsks, func |-> "gofr_by_plane",
     out |-> "gofr_by_planes.h5",
     row |-> GofrByPlaneGiven \cup Cuts \cup {"comp_key", "comp_count", "frames_per_comp"},
     steps |-> <<"parse", "connect", "claim", "load", "record", "commit", "write",
                 "fill", "close">>]

\* "shove in to db, but don't commit": the row waits for the file.
GofrByPlane ==
    [given |-> GofrByPlaneGiven, asks |-> GofrByPlaneAsks, func |-> "gofr_by_plane",
     out |-> "gofr_by_planes.h5",
     row |-> GofrByPlaneGiven \cup Cuts \cup {"comp_key", "comp_count", "frames_per_comp"},
     steps |-> <<"parse", "connect", "claim", "load", "record", "write", "fill",
                 "commit", "close">>]

\* The results go into the file of the particles.
Phi6 ==
    [given |-> Phi6Given, asks |-> Phi6Asks, func |-> "phi6", out |-> "phi6 in fin",
     row |-> Phi6Given \cup Cuts \cup {"comp_key"},
     steps |-> <<"parse", "connect", "claim", "load", "record", "write", "fill",
                 "commit", "close">>]

\* The loop over the minimal track lengths, after everything is read.
MsdSweep ==
    [given |-> MsdSweepGiven, asks |-> MsdSweepAsks, func |-> "msd",
     out |-> "msd_sweep.h5",
     row |-> TrackComps \cup {"comp_key", "msd_steps", "min_track_length", "dtime",
                              "temperature", "fin", "fout"},
     steps |-> <<"parse", "load", "connect", "loop", "claim", "write", "fill", "record",
                 "commit", "again", "close">>]

VanHoveSweep ==
    [given |-> VanHoveSweepGiven, asks |-> VanHoveSweepAsks, func |-> "vanHove",
     out |-> "vanHove.h5",
     row |-> (VanHoveSweepGiven \ {"db_path"}) \cup {"comp_key", "max_step",
                "min_track_length", "dtime", "temperature"},
     steps |-> <<"parse", "load", "connect", "loop", "claim", "record", "write", "fill",
                 "commit", "again", "close">>]

\* Nothing is recorded or committed.  do_vanHove raises a NameError before it
\* starts the program; whoever starts it gives it what it asks for.
VanHove ==
    [given |-> VanHoveAsks, asks |-> VanHoveAsks, func |-> "vanHove", out |-> "vanHove.h5",
     row |-> {}, steps |-> <<"parse", "connect", "load", "claim", "write", "fill", "close">>]

\* No data base.
Gofr3D ==
    [given |-> Gofr3DAsks, asks |-> Gofr3DAsks, func |-> NOFUNCTION, out |-> "gofr3D.h5",
     row |-> {}, steps |-> <<"parse", "load", "write", "fill">>]

Link3D ==
    [given |-> Link3DGiven, asks |-> Link3DAsks, func |-> NOFUNCTION, out |-> "link3D.h5",
     row |-> {}, steps |-> <<"parse", "load", "create", "fill">>]

\* The script's rows are inserted around the program ...
Iden ==
    [given |-> IdenGiven, asks |-> IdenAsks, func |-> "iden", out |-> "iden.h5",
     row |-> {}, steps |-> <<"reserve", "parse", "load", "create", "fill", "enter">>]

\* ... or behind it.
IdenAvg ==
    [given |-> IdenAvgGiven, asks |-> IdenAvgAsks, func |-> "iden", out |-> "iden.h5",
     row |-> {}, steps |-> <<"plan", "parse", "load", "create", "fill", "enter_planned">>]

Main == [gofr |-> Gofr, gofr_by_plane |-> GofrByPlane, phi6 |-> Phi6,
         msd_sweep |-> MsdSweep, vanHove_sweep |-> VanHoveSweep, vanHove |-> VanHove,
         gofr3D |-> Gofr3D, link3D |-> Link3D, Iden |-> Iden, Iden_avg |-> IdenAvg]

ASSUME ProgramsAssumption ==
    /\ Program \subseteq DOMAIN Main
    /\ {Main[p].func : p \in Program} \subseteq Func \cup {NOFUNCTION}
    /\ NOFUNCTION \notin DOMAIN Columns
    /\ Reopeners = {}
    /\ MaxTurns \in Nat

-----------------------------------------------------------------------------
(* Runs                                                                       *)

ByScript == {"Iden", "Iden_avg"}
Sweeps == {"msd_sweep", "vanHove_sweep"}

ProgInit ==
    /\ SqlInit
    /\ prog \in [Handler -> Program]
    /\ dir \in [Handler -> Dir]
    /\ state = [r \in Handler |-> "idle"]
    /\ place = [r \in Handler |-> 0]
    /\ asked \in [Handler -> 0 .. MaxTurns]
    /\ \A r \in Handler : prog[r] \notin Sweeps => asked[r] = 1
    /\ turn = [r \in Handler |-> 0]
    /\ nth = [r \in Handler |-> 0]
    /\ planned = [r \in Handler |-> 0]
    /\ content = {}

Steps(r) == Main[prog[r]].steps
At(r, step) == state[r] = "running" /\ place[r] <= Len(Steps(r)) /\ Steps(r)[place[r]] = step
Position(r, step) == CHOOSE i \in DOMAIN Steps(r) : Steps(r)[i] = step
JumpTo(r, i) == place' = [place EXCEPT ![r] = i] /\ UNCHANGED state
GoOn(r) == JumpTo(r, place[r] + 1)
Fail(r) == state' = [state EXCEPT ![r] = "failing"] /\ UNCHANGED place

\* An exclusive transaction keeps readers out, the scripts' own does not.
Readable == \A h \in Handler : holder = h => prog[h] \in ByScript

IdenRows(d) == {m \in saved.meta : m.func = "iden" /\ dir[m.by] = d}

\* The script looks up the data it is to work on and starts the program; for
\* Iden it numbers the file by the computations the data set has.
Launch(r) ==
    /\ state[r] = "idle" /\ Readable
    /\ state' = [state EXCEPT ![r] = "running"]
    /\ place' = [place EXCEPT ![r] = 1]
    /\ nth' = [nth EXCEPT ![r] = IF prog[r] \in ByScript
                                  THEN Cardinality(IdenRows(dir[r])) ELSE 0]
    /\ UNCHANGED <<sqlVars, prog, dir, asked, turn, planned, content>>

\* do_Iden inserts the row of the computation before it starts the program: its
\* connection has the write lock from here on.
Reserve(r) ==
    /\ At(r, "reserve")
    /\ IF holder = NONE /\ saved.seq < MaxKey
       THEN /\ holder' = r /\ work' = WithComp(r, "iden")
            /\ planned' = [planned EXCEPT ![r] = saved.seq + 1]
            /\ GoOn(r)
       ELSE Fail(r) /\ UNCHANGED <<holder, work, planned>>
    /\ UNCHANGED <<saved, ownVars, prog, dir, asked, turn, nth, content>>

\* do_Iden_avg only computes the key it expects to get.
PlanKey(r) ==
    /\ At(r, "plan") /\ Readable
    /\ planned' = [planned EXCEPT ![r] = saved.seq + 1]
    /\ GoOn(r)
    /\ UNCHANGED <<sqlVars, prog, dir, asked, turn, nth, content>>

\* Reading the parameter file: a parameter that is missing ends the program.
Parse(r) ==
    /\ At(r, "parse")
    /\ IF Main[prog[r]].asks \subseteq Main[prog[r]].given THEN GoOn(r) ELSE Fail(r)
    /\ UNCHANGED <<sqlVars, prog, dir, asked, turn, nth, planned, content>>

Connect(r) ==
    /\ At(r, "connect")
    /\ Open(r) /\ GoOn(r)
    /\ UNCHANGED <<prog, dir, asked, turn, nth, planned, content>>

\* Reading the particles, and the computation itself.
Load(r) ==
    /\ At(r, "load")
    /\ GoOn(r)
    /\ UNCHANGED <<sqlVars, prog, dir, asked, turn, nth, planned, content>>

\* It throws: no file, no particles, a parameter out of range, a full disk.
Throw(r) ==
    /\ At(r, "load") \/ At(r, "write") \/ At(r, "create") \/ At(r, "fill")
    /\ Fail(r)
    /\ UNCHANGED <<sqlVars, prog, dir, asked, turn, nth, planned, content>>

\* The condition of the loop.
Loop(r) ==
    /\ At(r, "loop")
    /\ IF turn[r] < asked[r] THEN GoOn(r) ELSE JumpTo(r, Position(r, "again") + 1)
    /\ UNCHANGED <<sqlVars, prog, dir, asked, turn, nth, planned, content>>

\* Bug: the last turn is left out.
AgainOneLess(r) ==
    /\ At(r, "again")
    /\ turn' = [turn EXCEPT ![r] = @ + 1]
    /\ JumpTo(r, IF turn[r] + 2 < asked[r] THEN Position(r, "loop") ELSE place[r] + 1)
    /\ UNCHANGED <<sqlVars, prog, dir, asked, nth, planned, content>>

Again(r) ==
    /\ At(r, "again")
    /\ turn' = [turn EXCEPT ![r] = @ + 1]
    /\ JumpTo(r, Position(r, "loop"))
    /\ UNCHANGED <<sqlVars, prog, dir, asked, nth, planned, content>>

\* start_comp gives the key, or throws: the data base is locked, it does not
\* know the data set, or the keys of the instance are used up.
Claim(r) ==
    /\ At(r, "claim")
    /\ StartComp(r, Main[prog[r]].func) /\ GoOn(r)
    /\ UNCHANGED <<prog, dir, asked, turn, nth, planned, content>>

ClaimFails(r) ==
    /\ At(r, "claim")
    /\ \/ (holder # NONE \/ saved.seq = MaxKey) /\ UNCHANGED sqlVars
       \/ StartCompRefused(r)
    /\ Fail(r)
    /\ UNCHANGED <<prog, dir, asked, turn, nth, planned, content>>

\* The key in the names of the results.  link3D is given 0, gofr3D uses none.
KeyUsed(r) ==
    IF prog[r] \in ByScript THEN planned[r]
    ELSE IF Main[prog[r]].func = NOFUNCTION THEN 0 ELSE compKey[r]

Entry(r, whole) ==
    [dir |-> dir[r], out |-> Main[prog[r]].out, nth |-> nth[r], key |-> KeyUsed(r),
     by |-> r, whole |-> whole]

SameFile(r) == {c \in content : c.dir = dir[r] /\ c.out = Main[prog[r]].out /\ c.nth = nth[r]}

\* openGroup, createGroup and createDataSet: two groups of one name do not go
\* into a file.
Write(r) ==
    /\ At(r, "write")
    /\ IF \E c \in SameFile(r) : c.key = KeyUsed(r)
       THEN Fail(r) /\ UNCHANGED content
       ELSE GoOn(r) /\ content' = content \cup {Entry(r, FALSE)}
    /\ UNCHANGED <<sqlVars, prog, dir, asked, turn, nth, planned>>

\* Bug: NEW_FILE_OVR, what is there is thrown away.
CreateOver(r) ==
    /\ At(r, "create")
    /\ GoOn(r)
    /\ content' = (content \ SameFile(r)) \cup {Entry(r, FALSE)}
    /\ UNCHANGED <<sqlVars, prog, dir, asked, turn, nth, planned>>

\* initialize_wrapper with NEW_FILE, that is H5F_ACC_EXCL.
Create(r) ==
    /\ At(r, "create")
    /\ IF SameFile(r) # {}
       THEN Fail(r) /\ UNCHANGED content
       ELSE GoOn(r) /\ content' = content \cup {Entry(r, FALSE)}
    /\ UNCHANGED <<sqlVars, prog, dir, asked, turn, nth, planned>>

Fill(r) ==
    /\ At(r, "fill")
    /\ content' = (content \ {Entry(r, FALSE)}) \cup {Entry(r, TRUE)}
    /\ GoOn(r)
    /\ UNCHANGED <<sqlVars, prog, dir, asked, turn, nth, planned>>

\* phi6 catches a std::exception of its output, reports it, and goes on to the
\* commit.
Swallow(r) ==
    /\ prog[r] = "phi6" /\ (At(r, "write") \/ At(r, "fill"))
    /\ JumpTo(r, Position(r, "fill") + 1)
    /\ UNCHANGED <<sqlVars, prog, dir, asked, turn, nth, planned, content>>

HasColumns(r) == Columns[Main[prog[r]].func] \subseteq Main[prog[r]].row

Record(r) ==
    /\ At(r, "record") /\ HasColumns(r)
    /\ AddMdata(r, compKey[r]) /\ GoOn(r)
    /\ UNCHANGED <<prog, dir, asked, turn, nth, planned, content>>

\* A column that is not in the Md_store, or a key that is not in its table.
RecordFails(r) ==
    /\ At(r, "record")
    /\ IF HasColumns(r) THEN AddMdataRefused(r) ELSE AddMdataLeaks(r)
    /\ Fail(r)
    /\ UNCHANGED <<prog, dir, asked, turn, nth, planned, content>>

CommitStep(r) ==
    /\ At(r, "commit")
    /\ Commit(r) /\ GoOn(r)
    /\ UNCHANGED <<prog, dir, asked, turn, nth, planned, content>>

CloseStep(r) ==
    /\ At(r, "close")
    /\ Close(r) /\ GoOn(r)
    /\ UNCHANGED <<prog, dir, asked, turn, nth, planned, content>>

ScriptRow(r) == [key |-> planned[r], func |-> "iden", by |-> r]

\* do_Iden after the program has returned zero.
Enter(r) ==
    /\ At(r, "enter")
    /\ saved' = [work EXCEPT !.meta = @ \cup {ScriptRow(r)}]
    /\ work' = saved' /\ holder' = NONE
    /\ GoOn(r)
    /\ UNCHANGED <<ownVars, prog, dir, asked, turn, nth, planned, content>>

\* do_Iden_avg: the data base numbers the computation now, and the row of iden
\* has the number that was planned.
EnterPlanned(r) ==
    /\ At(r, "enter_planned") /\ holder = NONE /\ saved.seq < MaxKey
    /\ \A m \in saved.meta : ~(m.func = "iden" /\ m.key = planned[r])
    /\ saved' = [WithComp(r, "iden") EXCEPT !.meta = @ \cup {ScriptRow(r)}]
    /\ work' = saved'
    /\ GoOn(r)
    /\ UNCHANGED <<holder, ownVars, prog, dir, asked, turn, nth, planned, content>>

\* The data base is locked, or iden has a row with that number: the script ends
\* with the exception, on a transaction it has begun.
EnterFails(r) ==
    /\ At(r, "enter_planned")
    /\ \/ (holder # NONE \/ saved.seq = MaxKey) /\ UNCHANGED <<holder, work>>
       \/ /\ holder = NONE /\ saved.seq < MaxKey
          /\ \E m \in saved.meta : m.func = "iden" /\ m.key = planned[r]
          /\ holder' = r /\ work' = WithComp(r, "iden")
    /\ Fail(r)
    /\ UNCHANGED <<saved, ownVars, prog, dir, asked, turn, nth, planned, content>>

\* The process ends and its connection with it: after the last step ...
Finish(r) ==
    /\ state[r] = "running" /\ place[r] > Len(Steps(r))
    /\ Exit(r)
    /\ state' = [state EXCEPT ![r] = "zero"]
    /\ UNCHANGED <<prog, dir, place, asked, turn, nth, planned, content>>

\* Bug: the failing program stays, its connection with it.
EndWaiting(r) ==
    /\ state[r] = "failing"
    /\ state' = [state EXCEPT ![r] = "nonzero"]
    /\ UNCHANGED <<sqlVars, prog, dir, place, asked, turn, nth, planned, content>>

\* ... after an error; the script of Iden then rolls back ...
End(r) ==
    /\ state[r] = "failing"
    /\ Exit(r)
    /\ state' = [state EXCEPT ![r] = "nonzero"]
    /\ UNCHANGED <<prog, dir, place, asked, turn, nth, planned, content>>

\* ... or at any place, with what it has written left behind.
Kill(r) ==
    /\ state[r] \in {"running", "failing"}
    /\ Exit(r)
    /\ state' = [state EXCEPT ![r] = "nonzero"]
    /\ UNCHANGED <<prog, dir, place, asked, turn, nth, planned, content>>

Step(r) ==
    \/ Launch(r) \/ Reserve(r) \/ PlanKey(r) \/ Parse(r) \/ Connect(r) \/ Load(r)
    \/ Throw(r) \/ Loop(r) \/ Again(r) \/ Claim(r) \/ ClaimFails(r)
    \/ Write(r) \/ Create(r) \/ Fill(r) \/ Swallow(r) \/ Record(r) \/ RecordFails(r)
    \/ CommitStep(r) \/ CloseStep(r) \/ Enter(r) \/ EnterPlanned(r) \/ EnterFails(r)
    \/ Finish(r) \/ End(r)

ProgNext == \E r \in Handler : Step(r) \/ Kill(r)

ProgSpec ==
    ProgInit /\ [][ProgNext]_progsVars /\ \A r \in Handler : WF_progsVars(Step(r))

-----------------------------------------------------------------------------
(* Properties                                                                 *)

\* Whoever inserts the rows and in whatever order: a committed row has whole
\* results in its file under its key, and the row of a computation and the row of
\* its parameters come together.  Not so for phi6, which commits what it could
\* not write, and for the key of the computation of Iden_avg, which is planned.
RecordedIsWhole ==
    /\ \A m \in saved.meta : prog[m.by] # "phi6" =>
          \E c \in content : c.by = m.by /\ c.key = m.key /\ c.whole
    /\ {c \in saved.comps : prog[c.by] # "Iden_avg"} =
       {m \in saved.meta : prog[m.by] # "Iden_avg"}

\* A run that ends well has committed as many computations as it was asked for.
\* Not so for vanHove; gofr3D and link3D are not in the data base.
ZeroMeansRecorded ==
    \A r \in Handler :
        state[r] = "zero" /\ prog[r] \notin {"vanHove", "gofr3D", "link3D"} =>
            Cardinality({c \in saved.comps : c.by = r}) = asked[r]

\* What the script gives and main adds has every key the insert statement binds:
\* no program leaves a statement behind that keeps its connection open.
NothingUnbound == \A r \in Handler : ~leaked[r]

\* Two computations of particle positions of one data set are in two files,
\* although the files are numbered before the rows are inserted.
OneFilePerIden ==
    \A m, n \in saved.meta :
        m.func = "iden" /\ n.func = "iden" /\ dir[m.by] = dir[n.by] /\ m # n =>
            nth[m.by] # nth[n.by]

\* The lock is given back by every program, and by the script that holds it while
\* its program runs.
LockGivenBack == \A r \in Handler : holder = r ~> holder # r

=============================================================================
