----------------------------- MODULE TrackingRun -----------------------------
(* One analysis of a data set from end to end: the script                     *)
(* (script_src/python/appwrappy/cpp_wrapper.py, do_tracking) reads the highest*)
(* key and starts the program; the program (apps/tracking.cpp, main) claims a *)
(* key in the data base, writes its results into the HDF file of the data set *)
(* under that key, and records the computation.  The data base rolls back what*)
(* is not committed, the file does not.                                       *)
(*                                                                            *)
(* A run is a process with one SQL_handler (module SqlHandler); it runs once. *)
(* Several runs may work on one file, one after the other or at once.  The    *)
(* file has what the names in it tell apart: for a key, the groups under      *)
(* parameters, the data sets in the frame groups, and the group of the tracks.*)
EXTENDS SqlHandler

CONSTANTS
    File,     \* HDF files, each with the particles of one data set
    Tracking  \* F_TRACKING

ASSUME TrackingAssumption == Tracking \in Func /\ Reopeners = {}

VARIABLES
    pc,       \* where each run is
    file,     \* the file it reads and writes (fin and fout)
    planned,  \* write_comp, from the script
    content   \* what is in each file, and which run put it there

runVars == <<pc, file, planned, content>>
allVars == <<sqlVars, runVars>>

RunInit ==
    /\ SqlInit
    /\ pc = [r \in Handler |-> "idle"]
    /\ file \in [Handler -> File]
    /\ planned = [r \in Handler |-> 0]
    /\ content = [f \in File |-> {}]

GoOn(r, place) == pc' = [pc EXCEPT ![r] = place]

\* do_tracking: the next key as the committed rows tell it.  The read waits
\* while a run holds the lock.  Rows are never deleted, so the highest key is
\* the value of the counter.
Launch(r) ==
    /\ pc[r] = "idle" /\ holder = NONE
    /\ planned' = [planned EXCEPT ![r] = saved.seq + 1]
    /\ GoOn(r, "launched")
    /\ UNCHANGED <<sqlVars, file, content>>

Connect(r) ==
    /\ pc[r] = "launched"
    /\ Open(r)
    /\ GoOn(r, "connected")
    /\ UNCHANGED <<file, planned, content>>

Claim(r) ==
    /\ pc[r] = "connected"
    /\ StartComp(r, Tracking)
    /\ GoOn(r, "claimed")
    /\ UNCHANGED <<file, planned, content>>

\* start_comp throws: another run holds the lock, the data set is unknown, or
\* the keys of the instance are used up.
ClaimFails(r) ==
    /\ pc[r] = "connected"
    /\ \/ (holder # NONE \/ saved.seq = MaxKey) /\ UNCHANGED sqlVars
       \/ StartCompRefused(r)
    /\ GoOn(r, "failing")
    /\ UNCHANGED <<file, planned, content>>

\* createGroup and createDataSet refuse a name that is in the file.
Taken(r, kind, key) ==
    \E c \in content[file[r]] : c.kind = kind /\ c.key = key

Write(r, kind, key, place) ==
    IF Taken(r, kind, key)
    THEN GoOn(r, "failing") /\ UNCHANGED content
    ELSE /\ content' = [content EXCEPT ![file[r]] =
                          @ \cup {[kind |-> kind, key |-> key, run |-> r]}]
         /\ GoOn(r, place)

\* Bug: the groups of an earlier run are opened instead of refused.
WriteParametersOpening(r) ==
    /\ pc[r] = "claimed"
    /\ content' = [content EXCEPT ![file[r]] =
                     @ \cup {[kind |-> "parameters", key |-> compKey[r], run |-> r]}]
    /\ GoOn(r, "opened")
    /\ UNCHANGED <<sqlVars, file, planned>>

\* initialize_wrapper.
WriteParameters(r) ==
    /\ pc[r] = "claimed"
    /\ Write(r, "parameters", compKey[r], "opened")
    /\ UNCHANGED <<sqlVars, file, planned>>

\* hash_case::output_to_wrapper: the data sets of the frames.
WriteFrames(r) ==
    /\ pc[r] = "opened"
    /\ Write(r, "frames", compKey[r], "framed")
    /\ UNCHANGED <<sqlVars, file, planned>>

\* Track_shelf::output_to_wrapper names its group by write_comp.  A group that
\* is there is opened, and then its attributes or data sets are in the way.
WriteTracks(r) ==
    /\ pc[r] = "framed"
    /\ Write(r, "tracks", planned[r], "tracked")
    /\ UNCHANGED <<sqlVars, file, planned>>

\* Bug: the computation is recorded when the frames are written.
RecordEarly(r) ==
    /\ pc[r] \in {"framed", "tracked"}
    /\ AddMdata(r, compKey[r])
    /\ GoOn(r, "recorded")
    /\ UNCHANGED <<file, planned, content>>

Record(r) ==
    /\ pc[r] = "tracked"
    /\ AddMdata(r, compKey[r])
    /\ GoOn(r, "recorded")
    /\ UNCHANGED <<file, planned, content>>

\* add_mdata throws, with or without having rolled back.
RecordFails(r) ==
    /\ pc[r] = "tracked"
    /\ AddMdataRefused(r) \/ AddMdataLeaks(r)
    /\ GoOn(r, "failing")
    /\ UNCHANGED <<file, planned, content>>

CommitRun(r) ==
    /\ pc[r] = "recorded"
    /\ Commit(r)
    /\ GoOn(r, "committed")
    /\ UNCHANGED <<file, planned, content>>

CloseRun(r) ==
    /\ pc[r] = "committed"
    /\ Close(r)
    /\ GoOn(r, "done")
    /\ UNCHANGED <<file, planned, content>>

\* A failing program ends: main returns -1, or nothing catches the exception.
End(r) ==
    /\ pc[r] = "failing"
    /\ Exit(r)
    /\ GoOn(r, "failed")
    /\ UNCHANGED <<file, planned, content>>

\* It is killed, or a write fails, at any place; what is in the file stays.
Kill(r) ==
    /\ pc[r] \notin {"idle", "failed", "done"}
    /\ Exit(r)
    /\ GoOn(r, "failed")
    /\ UNCHANGED <<file, planned, content>>

Step(r) ==
    \/ Launch(r) \/ Connect(r) \/ Claim(r) \/ ClaimFails(r)
    \/ WriteParameters(r) \/ WriteFrames(r) \/ WriteTracks(r)
    \/ Record(r) \/ RecordFails(r) \/ CommitRun(r) \/ CloseRun(r)
    \/ End(r)

RunNext == \E r \in Handler : Step(r) \/ Kill(r)

RunSpec == RunInit /\ [][RunNext]_allVars /\ \A r \in Handler : WF_allVars(Step(r))

-----------------------------------------------------------------------------
(* Properties                                                                 *)

Working == {"claimed", "opened", "framed", "tracked", "recorded"}

Kind == {"parameters", "frames", "tracks"}

RunTypeOK ==
    /\ SqlTypeOK
    /\ pc \in [Handler -> Working \cup {"idle", "launched", "connected", "failing",
                                        "committed", "failed", "done"}]
    /\ file \in [Handler -> File]
    /\ planned \in [Handler -> 0 .. MaxKey + 1]
    /\ content \in [File -> SUBSET [kind : Kind, key : 1 .. MaxKey + 1, run : Handler]]

\* Whatever the data base has committed is complete: the run that claimed the
\* key has written its parameters, frames and tracks into its file, and the row
\* with the parameters of the computation is there.
RecordedIsWritten ==
    \A c \in saved.comps :
        /\ c \in saved.meta
        /\ \A k \in {"parameters", "frames"} :
              [kind |-> k, key |-> c.key, run |-> c.by] \in content[file[c.by]]
        /\ [kind |-> "tracks", key |-> planned[c.by], run |-> c.by] \in content[file[c.by]]

\* A key that was rolled back is handed out again, and what was written under it
\* stays in the file.  Still the parameters and the frames under one key of a file
\* are those of one run, and the tracks under one key those of one run.  It need
\* not be the same run: the tracks go under the key that the script has planned,
\* which may be the one under which another run has left its parameters.
PartsOfOneRun ==
    \A f \in File : \A a, b \in content[f] :
        a.key = b.key /\ (a.kind = "tracks" <=> b.kind = "tracks") => a.run = b.run

\* At most one run is between its claim and its commit.
OneAtWork ==
    \A r, s \in Handler : pc[r] \in Working /\ pc[s] \in Working => r = s

\* What sql_handler.h says of start_comp: it gives out "the key of the
\* computation".  Then the tracks of a computation are under that key.
TracksUnderCompKey ==
    \A c \in saved.comps :
        [kind |-> "tracks", key |-> c.key, run |-> c.by] \in content[file[c.by]]

=============================================================================
