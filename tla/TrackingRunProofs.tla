------------------------- MODULE TrackingRunProofs -------------------------
(* Proofs about TrackingRun, for any number of runs and files.  A run's step  *)
(* is a step of SqlHandler or leaves the data base alone, so the claims of    *)
(* SqlHandlerProofs hold; what has to be added is how far each run has come   *)
(* and what is in the files by then.                                          *)
EXTENDS TrackingRun, SqlHandlerProofs

Groups == {"parameters", "frames", "tracks"}

Has(r, kind, key) == [kind |-> kind, key |-> key, run |-> r] \in content[file[r]]

\* A run at work is in its transaction; a run that has started has a plan.
AtWork ==
    \A r \in Handler :
        /\ pc[r] \in Working => Claims(r)
        /\ pc[r] # "idle" => planned[r] >= 1

\* What a run has written and recorded by the place it is at.
Written ==
    \A r \in Handler :
        /\ pc[r] \in {"opened", "framed", "tracked", "recorded"} =>
              Has(r, "parameters", compKey[r])
        /\ pc[r] \in {"framed", "tracked", "recorded"} => Has(r, "frames", compKey[r])
        /\ pc[r] \in {"tracked", "recorded"} => Has(r, "tracks", planned[r])
        /\ pc[r] = "recorded" => MetaRow(r) \in work.meta

\* The open transaction adds to the committed rows nothing but the claim.
WorkRows ==
    /\ saved.meta \subseteq work.meta
    /\ \A c \in work.comps :
          c \in saved.comps \/ (Claims(holder) /\ holder \in Handler /\ c = MetaRow(holder))

SavedDone ==
    /\ RecordedIsWritten
    /\ \A c \in saved.comps : pc[c.by] # "idle"

\* The parameters come first, and a name is written by one run only.
ParametersFirst ==
    \A f \in File : \A a, b \in content[f] :
        /\ a.kind = "frames" =>
              [kind |-> "parameters", key |-> a.key, run |-> a.run] \in content[f]
        /\ a.kind = b.kind /\ a.key = b.key => a.run = b.run

RunInv == ClaimInv /\ RunTypeOK /\ AtWork /\ Written /\ WorkRows /\ SavedDone /\ ParametersFirst

-----------------------------------------------------------------------------
(* Steps of one run seen from the others                                      *)

\* The data base steps of a run are steps of SqlHandler.
LEMMA RunStepIsSqlStep ==
    ASSUME SqlTypeOK, [RunNext]_allVars
    PROVE  [SqlNext]_sqlVars
<1>1. CASE UNCHANGED allVars
  BY <1>1 DEF allVars
<1>2. ASSUME NEW r \in Handler, AddMdata(r, compKey[r]) PROVE SqlNext
  <2>1. compKey[r] \in 1 .. MaxKey
    BY <1>2 DEF AddMdata, Accepts, SqlTypeOK, Rows, Row
  <2> QED
    BY <1>2, <2>1 DEF SqlNext
<1>3. ASSUME NEW r \in Handler, Step(r) \/ Kill(r) PROVE [SqlNext]_sqlVars
  BY <1>2, <1>3, TrackingAssumption
     DEF Step, Kill, Launch, Connect, Claim, ClaimFails, WriteParameters, WriteFrames,
         WriteTracks, Record, RecordFails, CommitRun, CloseRun, End, SqlNext
<1> QED
  BY <1>1, <1>3 DEF RunNext

\* A handler's operation changes that handler only, and not the transaction of
\* another one.
OthersKept(r) ==
    /\ \A s \in Handler \ {r} :
          /\ connOpen'[s] = connOpen[s] /\ transOpen'[s] = transOpen[s]
          /\ transType'[s] = transType[s] /\ compKey'[s] = compKey[s]
    /\ holder \notin {NONE, r} => UNCHANGED dbVars

LEMMA OperationKeepsOthers ==
    ASSUME NEW r \in Handler, SqlTypeOK,
           \/ UNCHANGED sqlVars
           \/ Open(r) \/ Close(r) \/ StartComp(r, Tracking) \/ StartCompRefused(r)
           \/ AddMdata(r, compKey[r]) \/ Rollback(r) \/ AddMdataLeaks(r)
           \/ Commit(r) \/ Exit(r)
    PROVE  OthersKept(r)
<1>1. CASE Exit(r)
  <2>1. Discard(r) /\ Fresh(r)
    BY <1>1, ExitIs, TrackingAssumption
  <2> QED
    BY <2>1 DEF OthersKept, SqlTypeOK, dbVars, Fresh, Discard
<1> QED
  BY <1>1
     DEF OthersKept, SqlTypeOK, sqlVars, dbVars, ownVars, Open, Close, StartComp,
         StartCompRefused, AddMdata, Rollback, AddMdataLeaks, Commit, Ready, Discard

\* The files only grow, and by what the run at hand writes.
Grows(r) ==
    \/ content' = content
    \/ \E kind \in Groups, key \in 1 .. MaxKey + 1 :
          /\ ~Taken(r, kind, key)
          /\ content' = [content EXCEPT ![file[r]] =
                           @ \cup {[kind |-> kind, key |-> key, run |-> r]}]
          /\ \/ kind = "parameters"
             \/ kind = "frames" /\ Has(r, "parameters", key)
             \/ kind = "tracks"

Places == Working \cup {"idle", "launched", "connected", "failing",
                        "committed", "failed", "done"}

\* A step of run r, as the others and the files see it.
StepOf(r) ==
    /\ OthersKept(r) /\ Grows(r)
    /\ file' = file
    /\ pc' = [pc EXCEPT ![r] = pc'[r]] /\ pc'[r] # "idle" /\ pc'[r] \in Places
    /\ planned' = [planned EXCEPT ![r] = planned'[r]]
    /\ planned'[r] >= 1 /\ planned'[r] \in 0 .. MaxKey + 1
    /\ pc[r] # "idle" => planned' = planned

\* The key of a claim is one of the instance's keys.
LEMMA ClaimedKey ==
    ASSUME ClaimInv, NEW r \in Handler, Claims(r)
    PROVE  compKey[r] \in 1 .. MaxKey
BY DEF ClaimInv, CoreInv, ClaimInWork, MetaRow, SqlTypeOK, Rows, Row

\* Every action of a run is such a step.
LEMMA ActionsAreSteps ==
    ASSUME RunInv, NEW r \in Handler, Step(r) \/ Kill(r)
    PROVE  StepOf(r)
<1> USE DEF GoOn
<1>1. SqlTypeOK /\ pc \in [Handler -> Places] /\ file \in [Handler -> File]
      /\ planned \in [Handler -> 0 .. MaxKey + 1] /\ MaxKey \in Nat
      /\ saved.seq \in 0 .. MaxKey
  BY BoundAssumption DEF RunInv, RunTypeOK, Places, SqlTypeOK, Rows
<1>2. pc[r] # "idle" => planned[r] \in 1 .. MaxKey + 1
  BY <1>1 DEF RunInv, AtWork
<1>3. pc[r] \in Working => compKey[r] \in 1 .. MaxKey + 1
  BY <1>1, ClaimedKey DEF RunInv, AtWork
<1>4. OthersKept(r)
  BY <1>1, OperationKeepsOthers
     DEF Step, Kill, Launch, Connect, Claim, ClaimFails, WriteParameters, WriteFrames,
         WriteTracks, Record, RecordFails, CommitRun, CloseRun, End, AddMdataRefused
<1>5. ASSUME NEW kind \in Groups, NEW key \in 1 .. MaxKey + 1, NEW place,
             Write(r, kind, key, place),
             kind = "frames" => Has(r, "parameters", key)
      PROVE  Grows(r)
  BY <1>5 DEF Write, Grows, Groups
<1>6. CASE Launch(r)
  BY <1>1, <1>4, <1>6 DEF Launch, StepOf, Grows, Places
<1>7. CASE Connect(r) \/ Claim(r) \/ ClaimFails(r) \/ Record(r) \/ RecordFails(r)
           \/ CommitRun(r) \/ CloseRun(r) \/ End(r) \/ Kill(r)
  BY <1>1, <1>2, <1>4, <1>7
     DEF Connect, Claim, ClaimFails, Record, RecordFails, CommitRun, CloseRun, End, Kill,
         StepOf, Grows, Places, Working
<1>8. CASE WriteParameters(r)
  <2>1. Grows(r)
    BY <1>3, <1>5, <1>8 DEF WriteParameters, Working, Groups
  <2> QED
    BY <1>1, <1>2, <1>4, <1>8, <2>1 DEF WriteParameters, Write, StepOf, Places, Working
<1>9. CASE WriteFrames(r)
  <2>1. Grows(r)
    BY <1>3, <1>5, <1>9 DEF WriteFrames, Working, Groups, RunInv, Written
  <2> QED
    BY <1>1, <1>2, <1>4, <1>9, <2>1 DEF WriteFrames, Write, StepOf, Places, Working
<1>10. CASE WriteTracks(r)
  <2>1. Grows(r)
    BY <1>2, <1>5, <1>10 DEF WriteTracks, Groups
  <2> QED
    BY <1>1, <1>2, <1>4, <1>10, <2>1 DEF WriteTracks, Write, StepOf, Places, Working
<1> QED
  BY <1>6, <1>7, <1>8, <1>9, <1>10 DEF Step

\* The files keep their types and what is in them, and parameters come first.
LEMMA FilesKept ==
    ASSUME RunInv, NEW r \in Handler, StepOf(r)
    PROVE  /\ content' \in [File -> SUBSET [kind : Kind, key : 1 .. MaxKey + 1, run : Handler]]
           /\ \A f \in File : content[f] \subseteq content'[f]
           /\ ParametersFirst'
<1>1. /\ content \in [File -> SUBSET [kind : Kind, key : 1 .. MaxKey + 1, run : Handler]]
      /\ file[r] \in File
  BY DEF RunInv, RunTypeOK
<1>2. CASE content' = content
  BY <1>1, <1>2 DEF RunInv, ParametersFirst
<1>3. ASSUME NEW kind \in Groups, NEW key \in 1 .. MaxKey + 1,
             ~Taken(r, kind, key),
             content' = [content EXCEPT ![file[r]] =
                           @ \cup {[kind |-> kind, key |-> key, run |-> r]}],
             \/ kind = "parameters"
             \/ kind = "frames" /\ Has(r, "parameters", key)
             \/ kind = "tracks"
      PROVE  /\ content' \in [File -> SUBSET [kind : Kind, key : 1 .. MaxKey + 1,
                                               run : Handler]]
             /\ \A f \in File : content[f] \subseteq content'[f]
             /\ ParametersFirst'
  <2> DEFINE new == [kind |-> kind, key |-> key, run |-> r]
  <2>1. new \in [kind : Kind, key : 1 .. MaxKey + 1, run : Handler]
    BY DEF Kind, Groups
  <2>2. \A f \in File : content'[f] = IF f = file[r] THEN content[f] \cup {new}
                                                       ELSE content[f]
    BY <1>1, <1>3
  <2>3. content' \in [File -> SUBSET [kind : Kind, key : 1 .. MaxKey + 1, run : Handler]]
    BY <1>1, <1>3, <2>1
  <2>4. \A f \in File : content[f] \subseteq content'[f]
    BY <2>2
  <2>5. ASSUME NEW f \in File, NEW a \in content'[f], a.kind = "frames"
        PROVE  [kind |-> "parameters", key |-> a.key, run |-> a.run] \in content'[f]
    <3>1. CASE a \in content[f]
      BY <2>4, <2>5, <3>1 DEF RunInv, ParametersFirst
    <3>2. CASE f = file[r] /\ a = new
      BY <1>3, <2>4, <2>5, <3>2 DEF Has
    <3> QED
      BY <2>2, <3>1, <3>2
  <2>6. ASSUME NEW f \in File, NEW a \in content'[f], NEW b \in content'[f],
               a.kind = b.kind, a.key = b.key
        PROVE  a.run = b.run
    <3>1. CASE a \in content[f] /\ b \in content[f]
      BY <2>6, <3>1 DEF RunInv, ParametersFirst
    <3>2. CASE f = file[r] /\ (a = new \/ b = new)
      BY <1>3, <2>2, <2>6, <3>2 DEF Taken
    <3> QED
      BY <2>2, <3>1, <3>2
  <2> QED
    BY <2>3, <2>4, <2>5, <2>6 DEF ParametersFirst
<1> QED
  BY <1>2, <1>3 DEF StepOf, Grows

-----------------------------------------------------------------------------
(* The invariant is kept                                                      *)

\* A run at work stays in its transaction until it leaves off.
LEMMA WorkKept ==
    ASSUME RunInv, ClaimInv', NEW r \in Handler, Step(r) \/ Kill(r), StepOf(r)
    PROVE  AtWork'
<1> USE DEF GoOn
<1>1. /\ pc \in [Handler -> Places] /\ connOpen \in [Handler -> BOOLEAN]
      /\ transOpen \in [Handler -> BOOLEAN] /\ planned \in [Handler -> 0 .. MaxKey + 1]
  BY DEF RunInv, RunTypeOK, SqlTypeOK, Places
<1>2. pc'[r] \in Working => Claims(r)'
  <2>1. pc[r] \in Working => Claims(r)
    BY DEF RunInv, AtWork
  <2>2. CASE UNCHANGED sqlVars /\ pc[r] \in Working
    BY <2>1, <2>2 DEF sqlVars, ownVars, Claims
  <2>3. CASE Claim(r)
    BY <1>1, <2>3, TrackingAssumption DEF Claim, StartComp, Ready, Claims
  <2>4. CASE Record(r)
    BY <2>1, <2>4 DEF Record, AddMdata, ownVars, Claims, Working
  <2>5. CASE pc'[r] \notin Working
    BY <2>5
  <2> QED
    BY <1>1, <2>2, <2>3, <2>4, <2>5
       DEF Step, Kill, Launch, Connect, ClaimFails, WriteParameters, WriteFrames,
           WriteTracks, RecordFails, CommitRun, CloseRun, End, Write, Working
<1>3. ASSUME NEW s \in Handler, s # r
      PROVE  (pc'[s] \in Working => Claims(s)') /\ (pc'[s] # "idle" => planned'[s] >= 1)
  BY <1>1, <1>3 DEF StepOf, OthersKept, Claims, RunInv, AtWork
<1> QED
  BY <1>2, <1>3 DEF AtWork, StepOf

\* What a run has written stays, and each place is reached by writing.
LEMMA WrittenKept ==
    ASSUME RunInv, NEW r \in Handler, Step(r) \/ Kill(r), StepOf(r)
    PROVE  Written'
<1> USE DEF GoOn
<1>1. /\ pc \in [Handler -> Places] /\ planned \in [Handler -> 0 .. MaxKey + 1]
      /\ file \in [Handler -> File] /\ file' = file
      /\ content \in [File -> SUBSET [kind : Kind, key : 1 .. MaxKey + 1, run : Handler]]
  BY DEF RunInv, RunTypeOK, Places, StepOf
<1>2. \A f \in File : content[f] \subseteq content'[f]
  BY FilesKept
<1>3. ASSUME NEW s \in Handler, s # r
      PROVE  /\ pc'[s] \in {"opened", "framed", "tracked", "recorded"} =>
                    Has(s, "parameters", compKey[s])'
             /\ pc'[s] \in {"framed", "tracked", "recorded"} =>
                    Has(s, "frames", compKey[s])'
             /\ pc'[s] \in {"tracked", "recorded"} => Has(s, "tracks", planned[s])'
             /\ pc'[s] = "recorded" => MetaRow(s)' \in work'.meta
  <2>1. pc'[s] = pc[s] /\ compKey'[s] = compKey[s] /\ planned'[s] = planned[s]
        /\ MetaRow(s)' = MetaRow(s)
    BY <1>1, <1>3 DEF StepOf, OthersKept, MetaRow
  <2>2. pc[s] = "recorded" => work' = work
    <3> SUFFICES ASSUME pc[s] = "recorded" PROVE work' = work
      OBVIOUS
    <3>1. holder = s
      BY DEF RunInv, AtWork, Working, ClaimInv, CoreInv, ClaimHoldsLock
    <3> QED
      BY <1>3, <3>1, FuncAssumption DEF StepOf, OthersKept, dbVars
  <2> QED
    BY <1>1, <1>2, <2>1, <2>2 DEF Has, RunInv, Written
<1>4. /\ pc'[r] \in {"opened", "framed", "tracked", "recorded"} =>
            Has(r, "parameters", compKey[r])'
      /\ pc'[r] \in {"framed", "tracked", "recorded"} => Has(r, "frames", compKey[r])'
      /\ pc'[r] \in {"tracked", "recorded"} => Has(r, "tracks", planned[r])'
      /\ pc'[r] = "recorded" => MetaRow(r)' \in work'.meta
  <2>1. CASE WriteParameters(r)
    BY <1>1, <2>1 DEF WriteParameters, Write, Has, sqlVars, ownVars
  <2>2. CASE WriteFrames(r)
    BY <1>1, <1>2, <2>2 DEF WriteFrames, Write, Has, sqlVars, ownVars, RunInv, Written
  <2>3. CASE WriteTracks(r)
    BY <1>1, <1>2, <2>3 DEF WriteTracks, Write, Has, sqlVars, ownVars, RunInv, Written
  <2>4. CASE Record(r)
    <3>1. /\ work'.meta = work.meta \cup {MetaRow(r)} /\ compKey' = compKey
          /\ MetaRow(r)' = MetaRow(r)
      BY <2>4 DEF Record, AddMdata, ownVars, MetaRow, RunInv, ClaimInv, CoreInv,
                  SqlTypeOK, Rows
    <3>2. pc[r] = "tracked" /\ content' = content /\ planned' = planned
      BY <2>4 DEF Record
    <3> QED
      BY <1>1, <3>1, <3>2 DEF Has, RunInv, Written
  <2>5. CASE pc'[r] \notin {"opened", "framed", "tracked", "recorded"}
    BY <2>5
  <2> QED
    BY <1>1, <2>1, <2>2, <2>3, <2>4, <2>5
       DEF Step, Kill, Launch, Connect, Claim, ClaimFails, RecordFails, CommitRun,
           CloseRun, End
<1> QED
  BY <1>3, <1>4 DEF Written

\* The effect of a run's step on the rows.
LEMMA RowEffects ==
    ASSUME RunInv, NEW r \in Handler, Step(r) \/ Kill(r)
    PROVE  \/ UNCHANGED dbVars /\ (Claims(r)' <=> Claims(r)) /\ MetaRow(r)' = MetaRow(r)
           \/ UNCHANGED dbVars /\ ~Claims(r)
           \/ UNCHANGED <<saved, work>> /\ holder = NONE
           \/ Discard(r)
           \/ StartComp(r, Tracking)
           \/ AddMdata(r, compKey[r])
           \/ Commit(r) /\ pc[r] = "recorded"
<1>1. transOpen \in [Handler -> BOOLEAN] /\ connOpen \in [Handler -> BOOLEAN]
  BY DEF RunInv, ClaimInv, CoreInv, SqlTypeOK
<1>2. CASE UNCHANGED sqlVars
  BY <1>2 DEF sqlVars, ownVars, Claims, MetaRow
<1>3. CASE Open(r) \/ StartCompRefused(r) \/ AddMdataLeaks(r)
  <2>1. CASE Open(r)
    BY <2>1 DEF Open, Claims
  <2>2. CASE StartCompRefused(r)
    BY <2>2 DEF StartCompRefused, Ready
  <2>3. CASE AddMdataLeaks(r)
    BY <2>3 DEF AddMdataLeaks, Claims, MetaRow
  <2> QED
    BY <1>3, <2>1, <2>2, <2>3
<1>4. CASE Close(r) \/ Rollback(r) \/ Exit(r)
  BY <1>4, ExitIs, TrackingAssumption
     DEF Close, Rollback, RunInv, ClaimInv, CoreInv
<1> QED
  BY <1>2, <1>3, <1>4
     DEF Step, Kill, Launch, Connect, Claim, ClaimFails, WriteParameters, WriteFrames,
         WriteTracks, Record, RecordFails, CommitRun, CloseRun, End, AddMdataRefused

\* The open transaction holds the committed rows and the claim, no more.
LEMMA WorkRowsKept ==
    ASSUME RunInv, ClaimInv', NEW r \in Handler, Step(r) \/ Kill(r), StepOf(r)
    PROVE  WorkRows'
<1>1. /\ saved \in Rows /\ work \in Rows /\ holder \in Handler \cup {NONE}
      /\ holder = NONE => work = saved
      /\ transOpen \in [Handler -> BOOLEAN] /\ connOpen \in [Handler -> BOOLEAN]
      /\ transType \in [Handler -> Func \cup {NOFUNCTION}]
      /\ compKey \in [Handler -> 0 .. MaxKey]
  BY TrackingAssumption DEF RunInv, ClaimInv, CoreInv, SqlTypeOK
<1>2. \A s \in Handler \ {r} : (Claims(s)' <=> Claims(s)) /\ MetaRow(s)' = MetaRow(s)
  BY DEF StepOf, OthersKept, Claims, MetaRow
<1>3. WorkRows
  BY DEF RunInv
<1>4. CASE UNCHANGED dbVars /\ (Claims(r)' <=> Claims(r)) /\ MetaRow(r)' = MetaRow(r)
  <2>1. \A s \in Handler : (Claims(s)' <=> Claims(s)) /\ MetaRow(s)' = MetaRow(s)
    BY <1>2, <1>4
  <2>2. saved' = saved /\ work' = work /\ holder' = holder
    BY <1>4 DEF dbVars
  <2> QED
    BY <1>3, <2>1, <2>2 DEF WorkRows
<1>5. CASE UNCHANGED dbVars /\ ~Claims(r)
  <2>1. saved' = saved /\ work' = work /\ holder' = holder
    BY <1>5 DEF dbVars
  <2> SUFFICES ASSUME NEW c \in work.comps, c \notin saved.comps
               PROVE  Claims(holder)' /\ holder \in Handler /\ c = MetaRow(holder)'
    BY <1>3, <2>1 DEF WorkRows
  <2>2. Claims(holder) /\ holder \in Handler /\ c = MetaRow(holder)
    BY <1>3 DEF WorkRows
  <2>3. holder \in Handler \ {r}
    BY <1>5, <2>2
  <2> QED
    BY <1>2, <2>1, <2>2, <2>3
<1>6. CASE UNCHANGED <<saved, work>> /\ holder = NONE
  BY <1>1, <1>6 DEF WorkRows
<1>7. CASE Discard(r)
  <2>1. CASE holder = r
    BY <1>7, <2>1 DEF Discard, WorkRows
  <2>2. CASE holder # r
    <3>1. saved' = saved /\ work' = work /\ holder' = holder
      BY <1>7, <2>2 DEF Discard
    <3>2. ASSUME NEW c \in work.comps, c \notin saved.comps
          PROVE  Claims(holder)' /\ c = MetaRow(holder)' /\ holder \in Handler
      BY <1>2, <1>3, <2>2, <3>1, <3>2 DEF WorkRows
    <3> QED
      BY <1>3, <3>1, <3>2 DEF WorkRows
  <2> QED
    BY <2>1, <2>2
<1>8. CASE StartComp(r, Tracking)
  <2>1. /\ work'.comps = saved.comps \cup {NewRow(r, Tracking)}
        /\ work'.meta = saved.meta /\ saved' = saved /\ holder' = r
    BY <1>1, <1>8 DEF StartComp, WithComp, Rows
  <2>2. MetaRow(r)' = NewRow(r, Tracking) /\ Claims(r)'
    BY <1>1, <1>8, TrackingAssumption DEF StartComp, Ready, MetaRow, NewRow, Claims
  <2> QED
    BY <2>1, <2>2 DEF WorkRows
<1>9. CASE AddMdata(r, compKey[r])
  <2>1. /\ work'.comps = work.comps /\ work'.meta = work.meta \cup {MetaRow(r)}
        /\ saved' = saved /\ holder' = holder
    BY <1>1, <1>9 DEF AddMdata, Rows
  <2>2. (Claims(r)' <=> Claims(r)) /\ MetaRow(r)' = MetaRow(r)
    BY <1>9 DEF AddMdata, ownVars, Claims, MetaRow
  <2>3. \A s \in Handler : (Claims(s)' <=> Claims(s)) /\ MetaRow(s)' = MetaRow(s)
    BY <1>2, <2>2
  <2> QED
    BY <1>3, <2>1, <2>3 DEF WorkRows
<1>10. CASE Commit(r)
  BY <1>10 DEF Commit, WorkRows
<1> QED
  BY <1>4, <1>5, <1>6, <1>7, <1>8, <1>9, <1>10, RowEffects

\* What is committed stays complete, and a commit adds a complete computation.
LEMMA SavedKept ==
    ASSUME RunInv, NEW r \in Handler, Step(r) \/ Kill(r), StepOf(r)
    PROVE  SavedDone'
<1>1. /\ pc \in [Handler -> Places] /\ planned \in [Handler -> 0 .. MaxKey + 1]
      /\ file \in [Handler -> File] /\ file' = file
      /\ saved \in Rows /\ work \in Rows
  BY DEF RunInv, RunTypeOK, SqlTypeOK, Places, StepOf
<1>2. \A f \in File : content[f] \subseteq content'[f]
  BY FilesKept
<1> DEFINE Complete(c) ==
             /\ \A k \in {"parameters", "frames"} :
                   [kind |-> k, key |-> c.key, run |-> c.by] \in content[file[c.by]]
             /\ [kind |-> "tracks", key |-> planned[c.by], run |-> c.by]
                   \in content[file[c.by]]
             /\ pc[c.by] # "idle" /\ c.by \in Handler
<1>3. ASSUME NEW c, Complete(c) PROVE Complete(c)'
  <2>1. file'[c.by] = file[c.by] /\ file[c.by] \in File /\ planned'[c.by] = planned[c.by]
    BY <1>1, <1>3 DEF StepOf
  <2>2. pc'[c.by] # "idle"
    BY <1>1, <1>3 DEF StepOf
  <2> QED
    BY <1>2, <1>3, <2>1, <2>2
<1>4. \A c \in saved.comps : c \in saved.meta /\ Complete(c)
  <2>1. \A c \in saved.comps : c.by \in Handler
    BY <1>1 DEF Rows, Row
  <2> QED
    BY <2>1 DEF RunInv, SavedDone, RecordedIsWritten
<1>5. \A c \in saved'.comps : c \in saved'.meta /\ Complete(c)
  <2>1. CASE saved' = saved
    BY <1>4, <2>1
  <2>2. CASE Commit(r) /\ pc[r] = "recorded"
    <3>1. saved' = work /\ holder = r
      BY <2>2 DEF Commit
    <3>2. Complete(MetaRow(r)) /\ MetaRow(r) \in work.meta
      BY <2>2 DEF RunInv, Written, Has, MetaRow
    <3> QED
      BY <1>4, <3>1, <3>2 DEF RunInv, WorkRows
  <2>3. saved' = saved \/ (Commit(r) /\ pc[r] = "recorded")
    BY RowEffects DEF dbVars, Discard, StartComp, AddMdata
  <2> QED
    BY <2>1, <2>2, <2>3
<1>6. \A c \in saved'.comps : c \in saved'.meta /\ Complete(c)'
  BY <1>3, <1>5
<1> QED
  BY <1>6 DEF SavedDone, RecordedIsWritten

\* Every step of every run keeps the invariant.
LEMMA RunInvStep ==
    ASSUME RunInv, [RunNext]_allVars
    PROVE  RunInv'
<1>1. [SqlNext]_sqlVars
  BY RunStepIsSqlStep DEF RunInv, RunTypeOK
<1>2. ClaimInv'
  BY <1>1, ClaimStep, TrackingAssumption DEF RunInv
<1>3. CASE UNCHANGED allVars
  <2>1. /\ pc' = pc /\ file' = file /\ planned' = planned /\ content' = content
        /\ saved' = saved /\ work' = work /\ holder' = holder
        /\ connOpen' = connOpen /\ transOpen' = transOpen /\ transType' = transType
        /\ compKey' = compKey /\ leaked' = leaked /\ lost' = lost
    BY <1>3 DEF allVars, sqlVars, dbVars, ownVars, runVars
  <2> QED
    BY <1>2, <2>1 DEF RunInv, RunTypeOK, AtWork, Written, WorkRows, SavedDone,
                      ParametersFirst, RecordedIsWritten, Has, MetaRow, Claims, SqlTypeOK,
                      ClaimInv, CoreInv
<1>4. ASSUME NEW r \in Handler, Step(r) \/ Kill(r) PROVE RunInv'
  <2>1. StepOf(r)
    BY <1>4, ActionsAreSteps
  <2>2. RunTypeOK'
    BY <1>2, <2>1, FilesKept
       DEF RunInv, RunTypeOK, StepOf, Places, ClaimInv, CoreInv
  <2> QED
    BY <1>2, <1>4, <2>1, <2>2, FilesKept, WorkKept, WrittenKept, WorkRowsKept, SavedKept
       DEF RunInv
<1> QED
  BY <1>3, <1>4 DEF RunNext

LEMMA RunInvInit == RunInit => RunInv
<1> SUFFICES ASSUME RunInit PROVE RunInv
  OBVIOUS
<1>1. ClaimInv /\ SqlTypeOK
  BY ClaimInit DEF RunInit, ClaimInv, CoreInv
<1>2. 0 \in 0 .. MaxKey + 1
  BY BoundAssumption
<1>3. RunTypeOK
  BY <1>1, <1>2 DEF RunInit, RunTypeOK
<1>4. AtWork /\ Written
  BY DEF RunInit, AtWork, Written, Working
<1>5. WorkRows /\ SavedDone
  BY DEF RunInit, SqlInit, Empty, WorkRows, SavedDone, RecordedIsWritten
<1>6. ParametersFirst
  BY DEF RunInit, ParametersFirst
<1> QED
  BY <1>1, <1>3, <1>4, <1>5, <1>6 DEF RunInv

\* A committed computation is complete, however many runs claim, fail and are
\* killed at any of their steps.
THEOREM CommittedIsWritten == RunSpec => []RecordedIsWritten
<1>1. RunInv => RecordedIsWritten
  BY DEF RunInv, SavedDone
<1> QED
  BY <1>1, RunInvInit, RunInvStep, PTL DEF RunSpec

\* The parameters and frames that a file has under one key are those of one run,
\* and so are the tracks, although keys are handed out again after a rollback;
\* nothing is said of the tracks beside the parameters.
THEOREM PartsAreNotShared == RunSpec => []PartsOfOneRun
<1>1. RunInv => PartsOfOneRun
  <2> SUFFICES ASSUME RunInv, NEW f \in File, NEW a \in content[f], NEW b \in content[f],
                      a.key = b.key, a.kind = "tracks" <=> b.kind = "tracks"
               PROVE  a.run = b.run
    BY DEF PartsOfOneRun
  <2>1. \A c \in content[f] : c.kind \in {"parameters", "frames", "tracks"}
    BY DEF RunInv, RunTypeOK, Kind
  <2>2. CASE a.kind = "tracks"
    BY <2>2 DEF RunInv, ParametersFirst
  <2>3. CASE a.kind # "tracks"
    <3>1. \A c \in content[f] : c.kind # "tracks" =>
             [kind |-> "parameters", key |-> c.key, run |-> c.run] \in content[f]
      <4> SUFFICES ASSUME NEW c \in content[f], c.kind # "tracks"
                   PROVE  [kind |-> "parameters", key |-> c.key, run |-> c.run] \in content[f]
        OBVIOUS
      <4>1. CASE c.kind = "frames"
        BY <4>1 DEF RunInv, ParametersFirst
      <4>2. CASE c.kind = "parameters"
        <5>1. c \in [kind : Kind, key : 1 .. MaxKey + 1, run : Handler]
          BY DEF RunInv, RunTypeOK
        <5> QED
          BY <4>2, <5>1
      <4> QED
        BY <2>1, <4>1, <4>2
    <3> DEFINE pa == [kind |-> "parameters", key |-> a.key, run |-> a.run]
               pb == [kind |-> "parameters", key |-> b.key, run |-> b.run]
    <3>2. pa \in content[f] /\ pb \in content[f]
      BY <2>3, <3>1
    <3>3. pa.kind = pb.kind /\ pa.key = pb.key => pa.run = pb.run
      <4> HIDE DEF pa, pb
      <4> QED
        BY <3>2 DEF RunInv, ParametersFirst
    <3> QED
      BY <3>3
  <2> QED
    BY <2>2, <2>3
<1> QED
  BY <1>1, RunInvInit, RunInvStep, PTL DEF RunSpec

\* Two runs are never at work at once.
THEOREM WorkIsExclusive == RunSpec => []OneAtWork
<1>1. RunInv => OneAtWork
  BY DEF RunInv, AtWork, ClaimInv, CoreInv, ClaimHoldsLock, OneAtWork
<1> QED
  BY <1>1, RunInvInit, RunInvStep, PTL DEF RunSpec

=============================================================================
