--------------------------- MODULE ProgramsProofs ---------------------------
(* Proofs about any number of runs of the programs on one data base.  First   *)
(* the order of the steps is read off the text of each program (WellMade):    *)
(* what comes before what, and what a step needs behind it.  Then ProgInv     *)
(* says, for a run that has come so far in its program, what it holds in the  *)
(* data base (AtWork, ScriptAtWork), what it has in its file (Written), and   *)
(* how much of what it was asked for is committed (Counted).  A step of one   *)
(* run stands aside from the others (Aside), so each keeps its part.  On the  *)
(* parts rest the invariants the runs check.                                  *)
EXTENDS Programs, SqlHandlerProofs, FiniteSetTheorems

-----------------------------------------------------------------------------
(* The programs' texts: in which order each has its steps                     *)

\* Every a comes before every b; no b without an a before it; none of the names.
Before(S, a, b) == \A i, j \in DOMAIN S : S[i] = a /\ S[j] = b => i < j
Needs(S, a, b) == \A j \in DOMAIN S : S[j] = b => \E i \in DOMAIN S : i < j /\ S[i] = a
Lacks(S, names) == \A i \in DOMAIN S : S[i] \notin names

\* S is a sequence without repetition.
Numbered(S) ==
    /\ Len(S) \in Nat /\ DOMAIN S = 1 .. Len(S)
    /\ \A i, j \in DOMAIN S : S[i] = S[j] => i = j

\* What a program does with its claim, and when.
ClaimOrder(S) ==
    /\ \A b \in {"record", "fill", "commit", "close", "again", "create"} :
          Before(S, "claim", b)
    /\ Before(S, "commit", "again") /\ Before(S, "commit", "close")
    /\ Before(S, "record", "commit") /\ Before(S, "fill", "commit")
    /\ Needs(S, "claim", "record") /\ Needs(S, "claim", "commit")
    /\ Needs(S, "record", "commit") /\ Needs(S, "fill", "commit")
    /\ Needs(S, "commit", "again")
    /\ Before(S, "create", "fill") /\ Before(S, "commit", "create")

\* The steps of the programs that ask SQL_handler themselves, and those of the
\* scripts that insert the rows for Iden.
ServerSteps == {"connect", "claim", "record", "commit", "close", "loop", "again", "write"}
ScriptSteps == {"reserve", "plan", "enter", "enter_planned"}

\* The two programs whose rows a script inserts have none of the other steps.
ScriptOrder(p, S) ==
    /\ p \in ByScript => Lacks(S, ServerSteps) /\ Needs(S, "create", "fill")
    /\ p \notin ByScript => Lacks(S, ScriptSteps)
    /\ p # "Iden" => Lacks(S, {"reserve", "enter"})
    /\ p # "Iden_avg" => Lacks(S, {"plan", "enter_planned"})
    /\ \A i \in DOMAIN S : S[i] \in {"reserve", "plan"} => i = 1
    /\ Needs(S, "fill", "enter") /\ Needs(S, "fill", "enter_planned")
    /\ Needs(S, "reserve", "enter") /\ Needs(S, "plan", "enter_planned")

\* The two loops have one layout.
LoopOrder(p, S) ==
    /\ p \notin Sweeps => Lacks(S, {"loop", "again"})
    /\ p \in Sweeps =>
        /\ Len(S) = 11
        /\ S[4] = "loop" /\ S[5] = "claim" /\ S[9] = "commit" /\ S[10] = "again"
        /\ Before(S, "claim", "fill") /\ Before(S, "claim", "record")
        /\ Lacks(S, {"create"})

\* phi6 can leave its results out only just before its commit; nearly every
\* program has a step that commits.
Ends(p, S) ==
    /\ p = "phi6" =>
        S[6] = "write" /\ S[7] = "fill" /\ S[8] = "commit" /\ Len(S) = 9 /\ Lacks(S, {"create"})
    /\ p \notin {"vanHove", "gofr3D", "link3D"} =>
          \E i \in DOMAIN S : S[i] \in {"commit", "enter", "enter_planned"}

\* The file, the function and the columns of the row.
Described(p, m) ==
    /\ p \in ByScript <=> m.out = "iden.h5"
    /\ p \in ByScript => m.func = "iden"
    /\ ~Lacks(m.steps, {"claim"}) => m.func \in DOMAIN Columns \ {"iden"}
    /\ ~Lacks(m.steps, {"record"}) => Columns[m.func] \subseteq m.row

WellMade(p, m) ==
    /\ Numbered(m.steps) /\ ClaimOrder(m.steps) /\ ScriptOrder(p, m.steps)
    /\ LoopOrder(p, m.steps) /\ Ends(p, m.steps) /\ Described(p, m)

LEMMA GofrWellMade == WellMade("gofr", Gofr)
<1>1. Numbered(Gofr.steps) /\ ClaimOrder(Gofr.steps)
  BY DEF Gofr, Numbered, ClaimOrder, Before, Needs
<1>2. ScriptOrder("gofr", Gofr.steps)
  BY DEF Gofr, ScriptOrder, ByScript, ServerSteps, ScriptSteps, Lacks, Needs
<1>3. LoopOrder("gofr", Gofr.steps) /\ Ends("gofr", Gofr.steps)
  BY DEF Gofr, LoopOrder, Sweeps, Lacks, Before, Ends
<1>4. Described("gofr", Gofr)
  <2>1. GofrColumns \subseteq Gofr.row
    BY DEF Gofr, GofrColumns, GofrGiven, IdenComps, Cuts, Files
  <2>2. Columns["gofr"] = GofrColumns /\ "gofr" \in DOMAIN Columns
    BY DEF Columns
  <2> QED
    BY <2>1, <2>2 DEF Gofr, Described, ByScript
<1> QED
  BY <1>1, <1>2, <1>3, <1>4 DEF WellMade

LEMMA GofrByPlaneWellMade == WellMade("gofr_by_plane", GofrByPlane)
<1>1. Numbered(GofrByPlane.steps) /\ ClaimOrder(GofrByPlane.steps)
  BY DEF GofrByPlane, Numbered, ClaimOrder, Before, Needs
<1>2. ScriptOrder("gofr_by_plane", GofrByPlane.steps)
  BY DEF GofrByPlane, ScriptOrder, ByScript, ServerSteps, ScriptSteps, Lacks, Needs
<1>3. LoopOrder("gofr_by_plane", GofrByPlane.steps) /\ Ends("gofr_by_plane", GofrByPlane.steps)
  BY DEF GofrByPlane, LoopOrder, Sweeps, Lacks, Before, Ends
<1>4. Described("gofr_by_plane", GofrByPlane)
  <2>1. GofrByPlaneColumns \subseteq GofrByPlane.row
    BY DEF GofrByPlane, GofrByPlaneColumns, GofrColumns, GofrByPlaneGiven, IdenComps, Cuts, Files
  <2>2. Columns["gofr_by_plane"] = GofrByPlaneColumns /\ "gofr_by_plane" \in DOMAIN Columns
    BY DEF Columns
  <2> QED
    BY <2>1, <2>2 DEF GofrByPlane, Described, ByScript
<1> QED
  BY <1>1, <1>2, <1>3, <1>4 DEF WellMade

LEMMA Phi6WellMade == WellMade("phi6", Phi6)
<1>1. Numbered(Phi6.steps) /\ ClaimOrder(Phi6.steps)
  BY DEF Phi6, Numbered, ClaimOrder, Before, Needs
<1>2. ScriptOrder("phi6", Phi6.steps)
  BY DEF Phi6, ScriptOrder, ByScript, ServerSteps, ScriptSteps, Lacks, Needs
<1>3. LoopOrder("phi6", Phi6.steps) /\ Ends("phi6", Phi6.steps)
  BY DEF Phi6, LoopOrder, Sweeps, Lacks, Before, Ends
<1>4. Described("phi6", Phi6)
  <2>1. Phi6Columns \subseteq Phi6.row
    BY DEF Phi6, Phi6Columns, Phi6Given, IdenComps, Cuts, Files
  <2>2. Columns["phi6"] = Phi6Columns /\ "phi6" \in DOMAIN Columns
    BY DEF Columns
  <2> QED
    BY <2>1, <2>2 DEF Phi6, Described, ByScript
<1> QED
  BY <1>1, <1>2, <1>3, <1>4 DEF WellMade

LEMMA MsdSweepWellMade == WellMade("msd_sweep", MsdSweep)
<1>1. Numbered(MsdSweep.steps) /\ ClaimOrder(MsdSweep.steps)
  BY DEF MsdSweep, Numbered, ClaimOrder, Before, Needs
<1>2. ScriptOrder("msd_sweep", MsdSweep.steps)
  BY DEF MsdSweep, ScriptOrder, ByScript, ServerSteps, ScriptSteps, Lacks, Needs
<1>3. LoopOrder("msd_sweep", MsdSweep.steps) /\ Ends("msd_sweep", MsdSweep.steps)
  BY DEF MsdSweep, LoopOrder, Sweeps, Lacks, Before, Ends
<1>4. Described("msd_sweep", MsdSweep)
  <2>1. MsdColumns \subseteq MsdSweep.row
    BY DEF MsdSweep, MsdColumns, TrackComps
  <2>2. Columns["msd"] = MsdColumns /\ "msd" \in DOMAIN Columns
    BY DEF Columns
  <2> QED
    BY <2>1, <2>2 DEF MsdSweep, Described, ByScript
<1> QED
  BY <1>1, <1>2, <1>3, <1>4 DEF WellMade

LEMMA VanHoveSweepWellMade == WellMade("vanHove_sweep", VanHoveSweep)
<1>1. Numbered(VanHoveSweep.steps) /\ ClaimOrder(VanHoveSweep.steps)
  BY DEF VanHoveSweep, Numbered, ClaimOrder, Before, Needs
<1>2. ScriptOrder("vanHove_sweep", VanHoveSweep.steps)
  BY DEF VanHoveSweep, ScriptOrder, ByScript, ServerSteps, ScriptSteps, Lacks, Needs
<1>3. LoopOrder("vanHove_sweep", VanHoveSweep.steps) /\ Ends("vanHove_sweep", VanHoveSweep.steps)
  BY DEF VanHoveSweep, LoopOrder, Sweeps, Lacks, Before, Ends
<1>4. Described("vanHove_sweep", VanHoveSweep)
  <2>1. VanHoveColumns \subseteq VanHoveSweep.row
    BY DEF VanHoveSweep, VanHoveColumns, VanHoveSweepGiven, TrackComps, Files
  <2>2. Columns["vanHove"] = VanHoveColumns /\ "vanHove" \in DOMAIN Columns
    BY DEF Columns
  <2> QED
    BY <2>1, <2>2 DEF VanHoveSweep, Described, ByScript
<1> QED
  BY <1>1, <1>2, <1>3, <1>4 DEF WellMade

LEMMA VanHoveWellMade == WellMade("vanHove", VanHove)
<1>1. Numbered(VanHove.steps) /\ ClaimOrder(VanHove.steps)
  BY DEF VanHove, Numbered, ClaimOrder, Before, Needs
<1>2. ScriptOrder("vanHove", VanHove.steps)
  BY DEF VanHove, ScriptOrder, ByScript, ServerSteps, ScriptSteps, Lacks, Needs
<1>3. LoopOrder("vanHove", VanHove.steps) /\ Ends("vanHove", VanHove.steps)
  BY DEF VanHove, LoopOrder, Sweeps, Lacks, Before, Ends
<1>4. Described("vanHove", VanHove)
  BY DEF VanHove, Described, ByScript, Columns, Lacks
<1> QED
  BY <1>1, <1>2, <1>3, <1>4 DEF WellMade

LEMMA Gofr3DWellMade == WellMade("gofr3D", Gofr3D)
<1>1. Numbered(Gofr3D.steps) /\ ClaimOrder(Gofr3D.steps)
  BY DEF Gofr3D, Numbered, ClaimOrder, Before, Needs
<1>2. ScriptOrder("gofr3D", Gofr3D.steps)
  BY DEF Gofr3D, ScriptOrder, ByScript, ServerSteps, ScriptSteps, Lacks, Needs
<1>3. LoopOrder("gofr3D", Gofr3D.steps) /\ Ends("gofr3D", Gofr3D.steps)
  BY DEF Gofr3D, LoopOrder, Sweeps, Lacks, Before, Ends
<1>4. Described("gofr3D", Gofr3D)
  BY DEF Gofr3D, Described, ByScript, Columns, Lacks
<1> QED
  BY <1>1, <1>2, <1>3, <1>4 DEF WellMade

LEMMA Link3DWellMade == WellMade("link3D", Link3D)
<1>1. Numbered(Link3D.steps) /\ ClaimOrder(Link3D.steps)
  BY DEF Link3D, Numbered, ClaimOrder, Before, Needs
<1>2. ScriptOrder("link3D", Link3D.steps)
  BY DEF Link3D, ScriptOrder, ByScript, ServerSteps, ScriptSteps, Lacks, Needs
<1>3. LoopOrder("link3D", Link3D.steps) /\ Ends("link3D", Link3D.steps)
  BY DEF Link3D, LoopOrder, Sweeps, Lacks, Before, Ends
<1>4. Described("link3D", Link3D)
  BY DEF Link3D, Described, ByScript, Columns, Lacks
<1> QED
  BY <1>1, <1>2, <1>3, <1>4 DEF WellMade

LEMMA IdenWellMade == WellMade("Iden", Iden)
<1>1. Numbered(Iden.steps) /\ ClaimOrder(Iden.steps)
  BY DEF Iden, Numbered, ClaimOrder, Before, Needs
<1>2. ScriptOrder("Iden", Iden.steps)
  BY DEF Iden, ScriptOrder, ByScript, ServerSteps, ScriptSteps, Lacks, Needs
<1>3. LoopOrder("Iden", Iden.steps) /\ Ends("Iden", Iden.steps)
  BY DEF Iden, LoopOrder, Sweeps, Lacks, Before, Ends
<1>4. Described("Iden", Iden)
  BY DEF Iden, Described, ByScript, Columns, Lacks
<1> QED
  BY <1>1, <1>2, <1>3, <1>4 DEF WellMade

LEMMA IdenAvgWellMade == WellMade("Iden_avg", IdenAvg)
<1>1. Numbered(IdenAvg.steps) /\ ClaimOrder(IdenAvg.steps)
  BY DEF IdenAvg, Numbered, ClaimOrder, Before, Needs
<1>2. ScriptOrder("Iden_avg", IdenAvg.steps)
  BY DEF IdenAvg, ScriptOrder, ByScript, ServerSteps, ScriptSteps, Lacks, Needs
<1>3. LoopOrder("Iden_avg", IdenAvg.steps) /\ Ends("Iden_avg", IdenAvg.steps)
  BY DEF IdenAvg, LoopOrder, Sweeps, Lacks, Before, Ends
<1>4. Described("Iden_avg", IdenAvg)
  BY DEF IdenAvg, Described, ByScript, Columns, Lacks
<1> QED
  BY <1>1, <1>2, <1>3, <1>4 DEF WellMade

\* Every program is made as these operators say.
LEMMA ProgramsWellMade == \A p \in DOMAIN Main : WellMade(p, Main[p])
<1>1. DOMAIN Main = {"gofr", "gofr_by_plane", "phi6", "msd_sweep", "vanHove_sweep",
                     "vanHove", "gofr3D", "link3D", "Iden", "Iden_avg"}
  BY DEF Main
<1>2. /\ Main["gofr"] = Gofr /\ Main["gofr_by_plane"] = GofrByPlane
      /\ Main["phi6"] = Phi6 /\ Main["msd_sweep"] = MsdSweep
      /\ Main["vanHove_sweep"] = VanHoveSweep /\ Main["vanHove"] = VanHove
      /\ Main["gofr3D"] = Gofr3D /\ Main["link3D"] = Link3D
      /\ Main["Iden"] = Iden /\ Main["Iden_avg"] = IdenAvg
  BY DEF Main
<1> QED
  BY <1>1, <1>2, GofrWellMade, GofrByPlaneWellMade, Phi6WellMade, MsdSweepWellMade,
     VanHoveSweepWellMade, VanHoveWellMade, Gofr3DWellMade, Link3DWellMade,
     IdenWellMade, IdenAvgWellMade

-----------------------------------------------------------------------------
(* The invariant                                                              *)

\* The run has a step of its program behind it.
Passed(r, step) == \E i \in DOMAIN Steps(r) : i < place[r] /\ Steps(r)[i] = step

\* A claim, or the row of the script, that is not committed yet.
Holding(r) == Passed(r, "claim") /\ ~Passed(r, "commit") /\ ~Passed(r, "close")
Reserved(r) == Passed(r, "reserve") /\ ~Passed(r, "enter")
Running(r) == state[r] = "running"

States == {"idle", "running", "failing", "zero", "nonzero"}

ProgTypeOK ==
    /\ prog \in [Handler -> Program]
    /\ state \in [Handler -> States]
    /\ place \in [Handler -> Nat]
    /\ asked \in [Handler -> Nat]
    /\ turn \in [Handler -> Nat]
    /\ planned \in [Handler -> Nat]
    /\ dir \in [Handler -> Dir]
    /\ DOMAIN nth = Handler
    /\ \A c \in content : c.by \in Handler

\* What a run's parameters and numbers can be; Iden opens no connection.
RunTypeOK(r) ==
    /\ Running(r) => place[r] >= 1
    /\ prog[r] \in ByScript => ~connOpen[r]
    /\ planned[r] <= saved.seq + 1
    /\ Running(r) /\ (Passed(r, "plan") \/ Passed(r, "reserve")) => planned[r] >= 1
    /\ prog[r] \notin Sweeps => asked[r] = 1

\* Between claim and commit a run holds the lock with its row, and with the row
\* of its parameters once that is recorded, and with nothing else.
AtWork(r) ==
    Running(r) /\ Holding(r) =>
        /\ Claims(r) /\ transType[r] = Main[prog[r]].func
        /\ work.comps = saved.comps \cup {MetaRow(r)}
        /\ work.meta = saved.meta \cup (IF Passed(r, "record") THEN {MetaRow(r)} ELSE {})

\* So does the script of Iden while its program runs.
ScriptAtWork(r) ==
    Running(r) /\ Reserved(r) =>
        /\ holder = r
        /\ planned[r] = saved.seq + 1
        /\ work = WithComp(r, "iden")

\* The file as far as the program has come.
Written(r) ==
    /\ Running(r) /\ Passed(r, "create") /\ ~Passed(r, "fill") => Entry(r, FALSE) \in content
    /\ Running(r) /\ Passed(r, "fill") /\ ~Passed(r, "commit") /\ prog[r] # "phi6" =>
          Entry(r, TRUE) \in content

\* The committed computations of the run; its turn's is committed.
Mine(r) == {c \in saved.comps : c.by = r}
Done(r) == Passed(r, "commit") \/ Passed(r, "enter") \/ Passed(r, "enter_planned")

\* The committed computations of a run: one for each turn that is over, and one
\* for the turn it is in when that is done.
Counted(r) ==
    /\ IsFiniteSet(Mine(r))
    /\ state[r] = "idle" => Mine(r) = {} /\ turn[r] = 0
    /\ Running(r) =>
        /\ Cardinality(Mine(r)) = turn[r] + (IF Done(r) /\ ~Passed(r, "again") THEN 1 ELSE 0)
        /\ prog[r] \notin Sweeps => turn[r] = 0
        /\ turn[r] <= asked[r]
        /\ Passed(r, "loop") /\ ~Passed(r, "again") => turn[r] < asked[r]
        /\ Passed(r, "again") => turn[r] = asked[r]

RunInv(r) == RunTypeOK(r) /\ AtWork(r) /\ ScriptAtWork(r) /\ Written(r) /\ Counted(r)

\* A file of Iden has been made by one run.
OneMaker ==
    \A c, d \in content :
        c.out = "iden.h5" /\ d.out = "iden.h5" /\ c.dir = d.dir /\ c.nth = d.nth => c.by = d.by

\* A row of iden has been entered by a script behind its program's results.
Entered ==
    \A m \in saved.meta : m.func = "iden" =>
        /\ prog[m.by] \in ByScript /\ m = ScriptRow(m.by)
        /\ Entry(m.by, TRUE) \in content
        /\ state[m.by] # "idle"
        /\ Running(m.by) => Passed(m.by, "enter") \/ Passed(m.by, "enter_planned")

\* The inductive invariant.
ProgInv ==
    /\ ProgTypeOK /\ CoreInv
    /\ \A r \in Handler : RunInv(r)
    /\ OneMaker /\ Entered /\ RecordedIsWhole /\ NothingUnbound /\ ZeroMeansRecorded

-----------------------------------------------------------------------------
(* Where a step leads                                                         *)

LEMMA ItsProgram ==
    ASSUME ProgTypeOK, NEW r \in Handler
    PROVE  /\ prog[r] \in DOMAIN Main /\ WellMade(prog[r], Main[prog[r]])
           /\ Main[prog[r]].func \in Func \cup {NOFUNCTION}
BY ProgramsAssumption, ProgramsWellMade DEF ProgTypeOK

\* The step a run is at is one of its program's, and not behind it.
LEMMA AtStep ==
    ASSUME ProgTypeOK, NEW r \in Handler, RunTypeOK(r), NEW s, At(r, s)
    PROVE  /\ Running(r) /\ place[r] \in DOMAIN Steps(r) /\ Steps(r)[place[r]] = s
           /\ ~Passed(r, s)
           /\ \A x : Before(Steps(r), s, x) => ~Passed(r, x)
           /\ \A x : Needs(Steps(r), x, s) => Passed(r, x)
           /\ \A X : Lacks(Steps(r), X) => s \notin X
<1>1. Numbered(Steps(r)) /\ place[r] \in Nat
  BY ItsProgram DEF WellMade, ProgTypeOK, Steps
<1>2. Running(r) /\ place[r] \in DOMAIN Steps(r) /\ Steps(r)[place[r]] = s
  BY <1>1 DEF At, Running, RunTypeOK, Numbered
<1> HIDE DEF Steps
<1>3. ~Passed(r, s)
  BY <1>1, <1>2 DEF Passed, Numbered
<1>4. ASSUME NEW x, Before(Steps(r), s, x) PROVE ~Passed(r, x)
  <2> SUFFICES ASSUME NEW i \in DOMAIN Steps(r), i < place[r], Steps(r)[i] = x
               PROVE  FALSE
    BY DEF Passed
  <2>1. place[r] < i
    BY <1>2, <1>4 DEF Before
  <2> QED
    BY <2>1, <1>1 DEF Numbered
<1>5. ASSUME NEW x, Needs(Steps(r), x, s) PROVE Passed(r, x)
  BY <1>2, <1>5 DEF Needs, Passed
<1>6. ASSUME NEW X, Lacks(Steps(r), X) PROVE s \notin X
  BY <1>2, <1>6 DEF Lacks
<1> QED
  BY <1>2, <1>3, <1>4, <1>5, <1>6

\* What is behind a run needs what comes before it.
LEMMA PassedNeeds ==
    ASSUME ProgTypeOK, NEW r \in Handler, NEW a, NEW b, Needs(Steps(r), a, b), Passed(r, b)
    PROVE  Passed(r, a)
<1>1. Numbered(Steps(r)) /\ place[r] \in Nat
  BY ItsProgram DEF WellMade, ProgTypeOK, Steps
<1>2. PICK j \in DOMAIN Steps(r) : j < place[r] /\ Steps(r)[j] = b
  BY DEF Passed
<1>3. PICK i \in DOMAIN Steps(r) : i < j /\ Steps(r)[i] = a
  BY <1>2 DEF Needs
<1>4. i < place[r]
  BY <1>1, <1>2, <1>3 DEF Numbered
<1> QED
  BY <1>3, <1>4 DEF Passed

LEMMA PassedLacks ==
    ASSUME NEW r, NEW X, Lacks(Steps(r), X)
    PROVE  \A x \in X : ~Passed(r, x)
BY DEF Passed, Lacks

\* Going on leaves one more step behind.
LEMMA GoingOn ==
    ASSUME ProgTypeOK, NEW r \in Handler, RunTypeOK(r), NEW s, At(r, s), GoOn(r), prog' = prog
    PROVE  /\ \A x : Passed(r, x)' <=> Passed(r, x) \/ x = s
           /\ Running(r)' /\ place'[r] \in Nat /\ place'[r] >= 1
<1>1. Numbered(Steps(r)) /\ place[r] \in Nat /\ place \in [Handler -> Nat]
  BY ItsProgram DEF WellMade, ProgTypeOK, Steps
<1>2. place'[r] = place[r] + 1 /\ state' = state /\ Steps(r)' = Steps(r)
  BY <1>1 DEF GoOn, JumpTo, Steps
<1>3. place[r] \in DOMAIN Steps(r) /\ Steps(r)[place[r]] = s /\ Running(r)
  BY AtStep
<1>4. \A i \in DOMAIN Steps(r) : i < place[r] + 1 <=> i < place[r] \/ i = place[r]
  BY <1>1 DEF Numbered
<1>5. \A x : Passed(r, x)' <=> Passed(r, x) \/ x = s
  BY <1>2, <1>3, <1>4 DEF Passed
<1> QED
  BY <1>1, <1>2, <1>3, <1>5 DEF Running

-----------------------------------------------------------------------------
(* What is known at a step                                                    *)

\* A run has either the steps of a server program or those of a script.
LEMMA Kinds ==
    ASSUME ProgTypeOK, NEW r \in Handler
    PROVE  /\ prog[r] \in ByScript => \A x \in ServerSteps : ~Passed(r, x)
           /\ prog[r] \notin ByScript => \A x \in ScriptSteps : ~Passed(r, x)
           /\ prog[r] # "Iden" => ~Passed(r, "reserve") /\ ~Passed(r, "enter")
           /\ prog[r] # "Iden_avg" => ~Passed(r, "plan") /\ ~Passed(r, "enter_planned")
           /\ prog[r] \notin Sweeps => ~Passed(r, "loop") /\ ~Passed(r, "again")
           /\ prog[r] \in Sweeps => prog[r] \notin ByScript /\ ~Passed(r, "create")
<1>1. ScriptOrder(prog[r], Steps(r)) /\ LoopOrder(prog[r], Steps(r))
  BY ItsProgram DEF WellMade, Steps
<1>2. prog[r] # "Iden" => \A x \in {"reserve", "enter"} : ~Passed(r, x)
  BY <1>1, PassedLacks DEF ScriptOrder
<1>3. prog[r] # "Iden_avg" => \A x \in {"plan", "enter_planned"} : ~Passed(r, x)
  BY <1>1, PassedLacks DEF ScriptOrder
<1>4. prog[r] \notin Sweeps => \A x \in {"loop", "again"} : ~Passed(r, x)
  BY <1>1, PassedLacks DEF LoopOrder
<1>5. prog[r] \in Sweeps => \A x \in {"create"} : ~Passed(r, x)
  BY <1>1, PassedLacks DEF LoopOrder
<1>6. /\ prog[r] \in ByScript => \A x \in ServerSteps : ~Passed(r, x)
      /\ prog[r] \notin ByScript => \A x \in ScriptSteps : ~Passed(r, x)
  BY <1>1, PassedLacks DEF ScriptOrder
<1>7. prog[r] \in Sweeps => prog[r] \notin ByScript
  BY DEF Sweeps, ByScript
<1> QED
  BY <1>2, <1>3, <1>4, <1>5, <1>6, <1>7

LEMMA KindOfStep ==
    ASSUME ProgTypeOK, NEW r \in Handler, RunTypeOK(r), NEW s, At(r, s)
    PROVE  /\ s \in ServerSteps => prog[r] \notin ByScript
           /\ s \in ScriptSteps => prog[r] \in ByScript
           /\ s \in {"reserve", "enter"} => prog[r] = "Iden"
           /\ s \in {"plan", "enter_planned"} => prog[r] = "Iden_avg"
           /\ s \in {"loop", "again"} => prog[r] \in Sweeps
<1>1. ScriptOrder(prog[r], Steps(r)) /\ LoopOrder(prog[r], Steps(r))
  BY ItsProgram DEF WellMade, Steps
<1>2. \A X : Lacks(Steps(r), X) => s \notin X
  BY AtStep
<1> QED
  BY <1>1, <1>2 DEF ScriptOrder, LoopOrder

LEMMA AtClaim ==
    ASSUME ProgTypeOK, NEW r \in Handler, RunTypeOK(r), At(r, "claim")
    PROVE  /\ \A x \in {"claim", "record", "fill", "commit", "close", "again", "create"} :
                 ~Passed(r, x)
           /\ prog[r] \notin ByScript
<1>1. ClaimOrder(Steps(r))
  BY ItsProgram DEF WellMade, Steps
<1>2. \A x \in {"record", "fill", "commit", "close", "again", "create"} : ~Passed(r, x)
  BY <1>1, AtStep DEF ClaimOrder
<1>3. ~Passed(r, "claim")
  BY AtStep
<1> QED
  BY <1>2, <1>3, KindOfStep DEF ServerSteps

\* A program that claims has a function that is not iden.
LEMMA Claimant ==
    ASSUME ProgTypeOK, NEW r \in Handler, Passed(r, "claim")
    PROVE  /\ Main[prog[r]].func \in DOMAIN Columns \ {"iden"}
           /\ Main[prog[r]].func # NOFUNCTION
           /\ prog[r] \notin ByScript
<1>1. Described(prog[r], Main[prog[r]])
  BY ItsProgram DEF WellMade
<1>2. ~Lacks(Main[prog[r]].steps, {"claim"})
  BY DEF Passed, Steps, Lacks
<1>3. prog[r] \notin ByScript
  BY Kinds DEF ServerSteps
<1> QED
  BY <1>1, <1>2, <1>3, ProgramsAssumption DEF Described

LEMMA AtRecord ==
    ASSUME ProgTypeOK, NEW r \in Handler, RunTypeOK(r), At(r, "record")
    PROVE  Passed(r, "claim") /\ ~Passed(r, "record") /\ ~Passed(r, "commit") /\ HasColumns(r)
<1>1. ClaimOrder(Steps(r)) /\ Described(prog[r], Main[prog[r]])
  BY ItsProgram DEF WellMade, Steps
<1>2. Passed(r, "claim") /\ ~Passed(r, "record") /\ ~Passed(r, "commit")
  BY <1>1, AtStep DEF ClaimOrder
<1>3. ~Lacks(Main[prog[r]].steps, {"record"})
  BY AtStep DEF Steps, Lacks
<1> QED
  BY <1>1, <1>2, <1>3 DEF HasColumns, Described

LEMMA AtCommit ==
    ASSUME ProgTypeOK, NEW r \in Handler, RunTypeOK(r), At(r, "commit")
    PROVE  /\ \A x \in {"claim", "record", "fill"} : Passed(r, x)
           /\ \A x \in {"commit", "close", "again"} : ~Passed(r, x)
<1>1. ClaimOrder(Steps(r))
  BY ItsProgram DEF WellMade, Steps
<1>2. Passed(r, "claim") /\ Passed(r, "record") /\ Passed(r, "fill")
  BY <1>1, AtStep DEF ClaimOrder
<1>3. ~Passed(r, "commit") /\ ~Passed(r, "close") /\ ~Passed(r, "again")
  BY <1>1, AtStep DEF ClaimOrder
<1> QED
  BY <1>2, <1>3

\* A script begins with its row.
LEMMA AtScriptStart ==
    ASSUME ProgTypeOK, NEW r \in Handler, RunTypeOK(r), At(r, "reserve") \/ At(r, "plan")
    PROVE  \A x : ~Passed(r, x)
<1>1. ScriptOrder(prog[r], Steps(r)) /\ Numbered(Steps(r))
  BY ItsProgram DEF WellMade, Steps
<1>2. place[r] = 1
  BY <1>1, AtStep DEF ScriptOrder
<1> QED
  BY <1>1, <1>2 DEF Passed, Numbered

LEMMA AtEnter ==
    ASSUME ProgTypeOK, NEW r \in Handler, RunTypeOK(r)
    PROVE  /\ At(r, "enter") => Passed(r, "reserve") /\ Passed(r, "fill") /\ ~Passed(r, "enter")
           /\ At(r, "enter_planned") => /\ Passed(r, "plan") /\ Passed(r, "fill")
                                        /\ ~Passed(r, "enter_planned")
BY ItsProgram, AtStep DEF WellMade, Steps, ScriptOrder

LEMMA AtFill ==
    ASSUME ProgTypeOK, NEW r \in Handler, RunTypeOK(r)
    PROVE  /\ At(r, "fill") => ~Passed(r, "fill") /\ ~Passed(r, "commit")
           /\ At(r, "create") => ~Passed(r, "create") /\ ~Passed(r, "fill")
           /\ At(r, "fill") /\ prog[r] \in ByScript => Passed(r, "create")
BY ItsProgram, AtStep DEF WellMade, Steps, ScriptOrder, ClaimOrder

\* The loop's turn has not begun at its condition, and is over at its end.
LEMMA AtLoop ==
    ASSUME ProgTypeOK, NEW r \in Handler, RunTypeOK(r)
    PROVE  /\ At(r, "loop") => \A x \in {"claim", "record", "fill", "commit", "again", "loop"} :
                                  ~Passed(r, x)
           /\ At(r, "again") => Passed(r, "commit") /\ Passed(r, "loop") /\ ~Passed(r, "again")
<1> DEFINE S == Steps(r)
<1>1. LoopOrder(prog[r], S) /\ Numbered(S) /\ ClaimOrder(S)
  BY ItsProgram DEF WellMade, Steps
<1> HIDE DEF S
<1>2. ASSUME At(r, "loop")
      PROVE  \A x \in {"claim", "record", "fill", "commit", "again", "loop"} : ~Passed(r, x)
  <2>1. prog[r] \in Sweeps /\ place[r] \in DOMAIN S /\ S[place[r]] = "loop"
    BY <1>2, KindOfStep, AtStep DEF S
  <2>2. place[r] = 4
    BY <2>1, <1>1 DEF LoopOrder, Numbered
  <2>3. \A i \in DOMAIN S : i < 4 => S[i] \notin {"claim", "record", "fill", "commit", "again", "loop"}
    BY <2>1, <1>1 DEF LoopOrder, Numbered, Before, ClaimOrder
  <2> QED
    BY <2>2, <2>3 DEF Passed, S
<1>3. ASSUME At(r, "again")
      PROVE  Passed(r, "commit") /\ Passed(r, "loop") /\ ~Passed(r, "again")
  <2>1. prog[r] \in Sweeps /\ place[r] \in DOMAIN S /\ S[place[r]] = "again" /\ ~Passed(r, "again")
    BY <1>3, KindOfStep, AtStep DEF S
  <2>2. place[r] = 10
    BY <2>1, <1>1 DEF LoopOrder, Numbered
  <2>3. 4 \in DOMAIN S /\ 9 \in DOMAIN S /\ S[4] = "loop" /\ S[9] = "commit"
    BY <2>1, <1>1 DEF LoopOrder, Numbered
  <2> QED
    BY <2>1, <2>2, <2>3 DEF Passed, S
<1> QED
  BY <1>2, <1>3

\* The loop goes back to its condition and leaves behind its end.
LEMMA Jumps ==
    ASSUME ProgTypeOK, NEW r \in Handler, prog' = prog
    PROVE  /\ prog[r] \in Sweeps =>
                Position(r, "loop") = 4 /\ Position(r, "again") = 10
           /\ prog[r] \in Sweeps /\ place'[r] = 4 =>
                \A x \in {"claim", "record", "fill", "commit", "again", "loop"} : ~Passed(r, x)'
           /\ prog[r] \in Sweeps /\ place'[r] = 11 =>
                \A x \in {"loop", "commit", "again"} : Passed(r, x)'
           /\ prog[r] = "phi6" => Position(r, "fill") = 7
           /\ prog[r] = "phi6" /\ place[r] \in {6, 7} /\ place'[r] = 8 =>
                \A x : x \notin {"write", "fill"} => (Passed(r, x)' <=> Passed(r, x))
<1> DEFINE S == Steps(r)
<1>1. LoopOrder(prog[r], S) /\ Numbered(S) /\ ClaimOrder(S) /\ Ends(prog[r], S) /\ S' = S
  BY ItsProgram DEF WellMade, Steps
<1>2. \A x, i : i \in DOMAIN S /\ S[i] = x => Position(r, x) = i
  BY <1>1 DEF Position, Numbered
<1>3. \A x : Passed(r, x)' <=> \E i \in DOMAIN S : i < place'[r] /\ S[i] = x
  BY <1>1 DEF Passed, S
<1>4. \A x : Passed(r, x) <=> \E i \in DOMAIN S : i < place[r] /\ S[i] = x
  BY <1>1 DEF Passed, S
<1> HIDE DEF S
<1>5. prog[r] \in Sweeps => Position(r, "loop") = 4 /\ Position(r, "again") = 10
  BY <1>1, <1>2 DEF LoopOrder, Numbered
<1>6. prog[r] = "phi6" => Position(r, "fill") = 7
  BY <1>1, <1>2 DEF Ends, Numbered
<1>7. ASSUME prog[r] \in Sweeps, place'[r] = 4
      PROVE  \A x \in {"claim", "record", "fill", "commit", "again", "loop"} : ~Passed(r, x)'
  <2>1. \A i \in DOMAIN S : i < 4 => S[i] \notin {"claim", "record", "fill", "commit", "again", "loop"}
    BY <1>1, <1>7 DEF LoopOrder, Numbered, Before, ClaimOrder
  <2> QED
    BY <2>1, <1>3, <1>7
<1>8. ASSUME prog[r] \in Sweeps, place'[r] = 11
      PROVE  \A x \in {"loop", "commit", "again"} : Passed(r, x)'
  <2>1. /\ 4 \in DOMAIN S /\ 9 \in DOMAIN S /\ 10 \in DOMAIN S
        /\ S[4] = "loop" /\ S[9] = "commit" /\ S[10] = "again"
    BY <1>1, <1>8 DEF LoopOrder, Numbered
  <2> QED
    BY <2>1, <1>3, <1>8
<1>9. ASSUME prog[r] = "phi6", place[r] \in {6, 7}, place'[r] = 8
      PROVE  \A x : x \notin {"write", "fill"} => (Passed(r, x)' <=> Passed(r, x))
  <2>1. S[6] = "write" /\ S[7] = "fill" /\ DOMAIN S = 1 .. 9
    BY <1>1, <1>9 DEF Ends, Numbered
  <2> QED
    BY <2>1, <1>3, <1>4, <1>9
<1> QED
  BY <1>5, <1>6, <1>7, <1>8, <1>9

-----------------------------------------------------------------------------
(* What a step of one run leaves of the others                                *)

\* A step of r keeps all the others rely on: their own state, whole results, and
\* the data base while one of them has the lock.
Aside(r) ==
    /\ prog' = prog /\ dir' = dir /\ asked' = asked
    /\ saved.seq <= saved'.seq
    /\ \A c \in content : c.by # r \/ c.whole => c \in content'
    /\ \A g \in Handler \ {r} :
        /\ state'[g] = state[g] /\ place'[g] = place[g] /\ turn'[g] = turn[g]
        /\ nth'[g] = nth[g] /\ planned'[g] = planned[g]
        /\ compKey'[g] = compKey[g] /\ transType'[g] = transType[g]
        /\ connOpen'[g] = connOpen[g] /\ (Claims(g)' <=> Claims(g))
        /\ leaked'[g] => leaked[g]
        /\ holder = g => holder' = g /\ saved' = saved /\ work' = work
        /\ Mine(g)' = Mine(g)

\* A run keeps its part of the invariant while another one makes a step.
LEMMA OthersKeep ==
    ASSUME ProgTypeOK, CoreInv, CoreInv', NEW r \in Handler, NEW g \in Handler \ {r}, RunInv(g), Aside(r)
    PROVE  RunInv(g)'
<1>1. /\ \A x : Passed(g, x)' <=> Passed(g, x)
      /\ Running(g)' <=> Running(g)
      /\ Steps(g)' = Steps(g)
  BY DEF Aside, Passed, Steps, Running
<1>2. Holding(g)' = Holding(g) /\ Reserved(g)' = Reserved(g) /\ Done(g)' = Done(g)
  BY <1>1 DEF Holding, Reserved, Done
<1>3. saved.seq \in Nat /\ saved'.seq \in Nat /\ saved'.seq >= saved.seq
  BY DEF CoreInv, SqlTypeOK, Rows, Aside
<1>4. RunTypeOK(g)'
  BY <1>1, <1>3 DEF Aside, RunInv, RunTypeOK, ProgTypeOK
<1>5. AtWork(g)'
  <2> SUFFICES ASSUME Running(g), Holding(g) PROVE AtWork(g)'
    BY <1>1, <1>2 DEF AtWork
  <2>1. Claims(g) /\ holder = g
    BY DEF RunInv, AtWork, CoreInv, ClaimHoldsLock
  <2>2. saved' = saved /\ work' = work /\ Claims(g)' /\ MetaRow(g)' = MetaRow(g)
    BY <2>1 DEF Aside, MetaRow
  <2> QED
    BY <1>1, <2>2 DEF RunInv, AtWork, Aside
<1>6. ScriptAtWork(g)'
  <2> SUFFICES ASSUME Running(g), Reserved(g) PROVE ScriptAtWork(g)'
    BY <1>1, <1>2 DEF ScriptAtWork
  <2>1. holder = g
    BY DEF RunInv, ScriptAtWork
  <2>2. saved' = saved /\ work' = work /\ holder' = g /\ WithComp(g, "iden")' = WithComp(g, "iden")
    BY <2>1 DEF Aside, WithComp, NewRow
  <2> QED
    BY <2>2 DEF RunInv, ScriptAtWork, Aside
<1>7. Written(g)'
  <2>1. \A w \in BOOLEAN : Entry(g, w)' = Entry(g, w) /\ Entry(g, w).by = g
    BY DEF Aside, Entry, KeyUsed
  <2> QED
    BY <1>1, <2>1 DEF RunInv, Written, Aside
<1>8. Counted(g)'
  BY <1>1, <1>2 DEF RunInv, Counted, Aside
<1> QED
  BY <1>4, <1>5, <1>6, <1>7, <1>8 DEF RunInv

-----------------------------------------------------------------------------
(* What a step makes of the run itself                                        *)

\* A run that does not go on keeps what it has committed.
LEMMA AwayKeeps ==
    ASSUME ProgTypeOK, CoreInv, CoreInv', NEW r \in Handler, RunInv(r),
           ~Running(r)', state'[r] # "idle", prog' = prog, asked' = asked,
           planned'[r] = planned[r], saved.seq <= saved'.seq, Mine(r)' = Mine(r),
           connOpen'[r] => connOpen[r]
    PROVE  RunInv(r)'
<1>1. saved.seq \in Nat /\ saved'.seq \in Nat /\ saved'.seq >= saved.seq
  BY DEF CoreInv, SqlTypeOK, Rows
<1>2. RunTypeOK(r)'
  BY <1>1 DEF RunInv, RunTypeOK, ProgTypeOK
<1>3. AtWork(r)' /\ ScriptAtWork(r)' /\ Written(r)'
  BY DEF AtWork, ScriptAtWork, Written
<1>4. Counted(r)'
  BY DEF RunInv, Counted
<1> QED
  BY <1>2, <1>3, <1>4 DEF RunInv

RowSteps == {"claim", "record", "commit", "close", "reserve", "enter", "plan",
             "enter_planned", "loop", "again"}

\* A step that touches no row and none of what rows are made of.
LEMMA RowsKeep ==
    ASSUME ProgTypeOK, NEW r \in Handler, RunInv(r),
           \A x \in RowSteps : Passed(r, x)' <=> Passed(r, x),
           Running(r)', place'[r] >= 1, Running(r),
           prog' = prog, asked' = asked, turn' = turn, planned' = planned,
           saved' = saved, work' = work, holder' = holder,
           compKey' = compKey, transType' = transType, Claims(r) => Claims(r)',
           prog[r] \in ByScript => ~connOpen'[r]
    PROVE  RunTypeOK(r)' /\ AtWork(r)' /\ ScriptAtWork(r)' /\ Counted(r)'
<1>1. Holding(r)' = Holding(r) /\ Reserved(r)' = Reserved(r) /\ Done(r)' = Done(r)
  BY DEF Holding, Reserved, Done, RowSteps
<1>2. RunTypeOK(r)'
  BY DEF RunInv, RunTypeOK, RowSteps
<1>3. AtWork(r)'
  <2>1. MetaRow(r)' = MetaRow(r) /\ (Passed(r, "record")' <=> Passed(r, "record"))
    BY DEF MetaRow, RowSteps
  <2> QED
    BY <1>1, <2>1 DEF RunInv, AtWork
<1>4. ScriptAtWork(r)'
  BY <1>1 DEF RunInv, ScriptAtWork, WithComp, NewRow
<1>5. Counted(r)'
  <2>1. Mine(r)' = Mine(r) /\ state'[r] # "idle"
    BY DEF Mine, Running
  <2> QED
    BY <1>1, <2>1 DEF RunInv, Counted, RowSteps
<1> QED
  BY <1>2, <1>3, <1>4, <1>5

-----------------------------------------------------------------------------
(* Locks, claims and keys                                                     *)

\* Without claims there is little to keep.
LEMMA NoClaimsCore ==
    ASSUME \A h \in Handler : ~Claims(h), UNCHANGED ownVars, SqlTypeOK', KeysBelowSeq'
    PROVE  CoreInv'
BY DEF CoreInv, ClaimHoldsLock, ClaimInWork, Claims, ownVars

LEMMA IdenIsFunc ==
    ASSUME ProgTypeOK, NEW r \in Handler, prog[r] \in ByScript
    PROVE  "iden" \in Func
<1>1. Main[prog[r]].func = "iden"
  BY ItsProgram DEF WellMade, Described
<1>2. "iden" # NOFUNCTION
  BY ProgramsAssumption DEF Columns
<1> QED
  BY <1>1, <1>2, ItsProgram

\* The row a script inserts has the next key.
LEMMA ScriptComp ==
    ASSUME SqlTypeOK, KeysBelowSeq, NEW r \in Handler, "iden" \in Func, saved.seq < MaxKey
    PROVE  LET rows == WithComp(r, "iden")
           IN  /\ rows \in Rows /\ rows.seq = saved.seq + 1 /\ rows.meta = saved.meta
               /\ rows.comps = saved.comps \cup {NewRow(r, "iden")}
               /\ \A c \in rows.comps : c.key <= rows.seq
               /\ saved.seq <= rows.seq /\ rows.seq <= rows.seq
<1>1. WithComp(r, "iden") \in Rows
  BY RowTypes
<1>2. /\ saved.seq \in Nat
      /\ \A c \in saved.comps : c.key \in Nat /\ c.key <= saved.seq
  BY DEF SqlTypeOK, KeysBelowSeq, Rows, Row
<1>3. /\ WithComp(r, "iden").seq = saved.seq + 1 /\ WithComp(r, "iden").meta = saved.meta
      /\ WithComp(r, "iden").comps = saved.comps \cup {NewRow(r, "iden")}
      /\ NewRow(r, "iden").key = saved.seq + 1
  BY DEF WithComp, NewRow, SqlTypeOK, Rows
<1> QED
  BY <1>1, <1>2, <1>3

\* The scripts' own transactions keep the claims: there is none beside them.
LEMMA ScriptKeepsCore ==
    ASSUME ProgTypeOK, CoreInv, NEW r \in Handler, RunInv(r),
           Reserve(r) \/ Enter(r) \/ EnterPlanned(r) \/ EnterFails(r)
    PROVE  CoreInv'
<1>1. prog[r] \in ByScript /\ "iden" \in Func
  BY KindOfStep, IdenIsFunc DEF RunInv, Reserve, Enter, EnterPlanned, EnterFails, ScriptSteps
<1>2. CASE UNCHANGED sqlVars
  BY <1>2, CoreStep
<1>3. holder = NONE => \A h \in Handler : ~Claims(h)
  BY FuncAssumption DEF CoreInv, ClaimHoldsLock
<1>4. CASE /\ holder = NONE /\ saved.seq < MaxKey /\ UNCHANGED <<saved, ownVars>>
           /\ holder' = r /\ work' = WithComp(r, "iden")
  <2>1. SqlTypeOK'
    BY <1>1, <1>4, ScriptComp, FuncAssumption DEF CoreInv, SqlTypeOK, ownVars
  <2>2. KeysBelowSeq'
    BY <1>1, <1>4, ScriptComp DEF CoreInv, KeysBelowSeq
  <2> QED
    BY <1>3, <1>4, <2>1, <2>2, NoClaimsCore
<1>5. CASE EnterPlanned(r)
  <2> DEFINE rows == WithComp(r, "iden")
  <2>1. /\ holder = NONE /\ saved.seq < MaxKey /\ UNCHANGED ownVars /\ holder' = holder
        /\ saved' = [rows EXCEPT !.meta = @ \cup {ScriptRow(r)}] /\ work' = saved'
    BY <1>5 DEF EnterPlanned
  <2>2. /\ rows \in Rows /\ rows.seq = saved.seq + 1
        /\ \A c \in rows.comps : c.key <= rows.seq
    BY <1>1, <2>1, ScriptComp DEF CoreInv
  <2>3. saved.seq \in Nat /\ MaxKey \in Nat /\ planned[r] \in Nat
    BY BoundAssumption DEF CoreInv, SqlTypeOK, Rows, ProgTypeOK
  <2>4. Passed(r, "plan") /\ Running(r)
    BY <1>5, AtEnter, AtStep DEF EnterPlanned, RunInv
  <2>5. planned[r] \in 1 .. MaxKey
    BY <2>1, <2>3, <2>4 DEF RunInv, RunTypeOK
  <2>6. ScriptRow(r) \in Row
    BY <1>1, <2>5 DEF ScriptRow, Row
  <2>7. saved' \in Rows /\ saved'.comps = rows.comps /\ saved'.seq = rows.seq
    BY <2>1, <2>2, <2>6 DEF Rows
  <2>8. SqlTypeOK'
    BY <2>1, <2>7, FuncAssumption DEF CoreInv, SqlTypeOK, ownVars
  <2>9. KeysBelowSeq'
    BY <2>1, <2>2, <2>3, <2>7 DEF KeysBelowSeq
  <2> QED
    BY <1>3, <2>1, <2>8, <2>9, NoClaimsCore
<1>6. CASE Enter(r)
  <2>1. Reserved(r) /\ Running(r)
    BY <1>6, AtEnter, AtStep DEF Enter, RunInv, Reserved
  <2>2. holder = r /\ planned[r] = saved.seq + 1 /\ work = WithComp(r, "iden")
    BY <2>1 DEF RunInv, ScriptAtWork
  <2>3. \A h \in Handler : ~Claims(h)
    BY <1>1, <2>2 DEF CoreInv, ClaimHoldsLock, RunInv, RunTypeOK, Claims
  <2>4. work \in Rows /\ work.seq = saved.seq + 1 /\ saved.seq \in Nat
        /\ \A c \in work.comps : c.key <= work.seq
    BY <2>2 DEF CoreInv, SqlTypeOK, Rows, KeysBelowSeq, WithComp
  <2>5. ScriptRow(r) \in Row
    BY <1>1, <2>2, <2>4 DEF ScriptRow, Row, Rows
  <2>6. /\ saved' = [work EXCEPT !.meta = @ \cup {ScriptRow(r)}] /\ work' = saved'
        /\ holder' = NONE /\ UNCHANGED ownVars
    BY <1>6 DEF Enter
  <2>7. saved' \in Rows /\ saved'.comps = work.comps /\ saved'.seq = work.seq
    BY <2>4, <2>5, <2>6 DEF Rows
  <2>8. SqlTypeOK'
    BY <2>6, <2>7 DEF CoreInv, SqlTypeOK, ownVars
  <2>9. KeysBelowSeq'
    BY <2>4, <2>6, <2>7 DEF KeysBelowSeq
  <2> QED
    BY <2>3, <2>6, <2>8, <2>9, NoClaimsCore
<1>7. CASE Reserve(r) \/ EnterFails(r)
  <2>1. saved.seq < MaxKey \/ ~(saved.seq < MaxKey)
    OBVIOUS
  <2> QED
    BY <1>2, <1>4, <1>7 DEF Reserve, EnterFails, sqlVars, dbVars
<1> QED
  BY <1>5, <1>6, <1>7

\* The other steps are operations of SQL_handler, or leave it alone.
ServerStep(r) ==
    \/ Launch(r) \/ PlanKey(r) \/ Parse(r) \/ Connect(r) \/ Load(r)
    \/ Throw(r) \/ Loop(r) \/ Again(r) \/ Claim(r) \/ ClaimFails(r)
    \/ Write(r) \/ Create(r) \/ Fill(r) \/ Swallow(r) \/ Record(r) \/ RecordFails(r)
    \/ CommitStep(r) \/ CloseStep(r) \/ Finish(r) \/ End(r) \/ Kill(r)

LEMMA StepIsSqlStep ==
    ASSUME CoreInv, NEW r \in Handler, ServerStep(r)
    PROVE  [SqlNext]_sqlVars
<1>1. CASE Connect(r) \/ CloseStep(r) \/ CommitStep(r)
  BY <1>1 DEF Connect, CloseStep, CommitStep, SqlNext
<1>2. CASE Claim(r)
  <2>1. StartComp(r, Main[prog[r]].func) /\ Main[prog[r]].func \in Func
    BY <1>2, FuncAssumption DEF Claim, StartComp
  <2> QED
    BY <2>1 DEF SqlNext
<1>3. CASE ClaimFails(r) \/ RecordFails(r)
  BY <1>3 DEF ClaimFails, RecordFails, SqlNext
<1>4. CASE Record(r)
  <2>1. AddMdata(r, compKey[r])
    BY <1>4 DEF Record
  <2>2. compKey[r] \in 1 .. MaxKey
    BY <2>1 DEF AddMdata, Accepts, CoreInv, SqlTypeOK, Rows, Row
  <2> QED
    BY <2>1, <2>2 DEF SqlNext
<1>5. CASE Finish(r) \/ End(r) \/ Kill(r)
  BY <1>5 DEF Finish, End, Kill, SqlNext
<1>6. CASE \/ Launch(r) \/ PlanKey(r) \/ Parse(r) \/ Load(r) \/ Throw(r) \/ Loop(r) \/ Again(r)
           \/ Write(r) \/ Create(r) \/ Fill(r) \/ Swallow(r)
  BY <1>6 DEF Launch, PlanKey, Parse, Load, Throw, Loop, Again, Write, Create, Fill, Swallow
<1> QED
  BY <1>1, <1>2, <1>3, <1>4, <1>5, <1>6 DEF ServerStep

LEMMA CoreKept ==
    ASSUME ProgTypeOK, CoreInv, NEW r \in Handler, RunInv(r), Step(r) \/ Kill(r)
    PROVE  CoreInv'
<1>1. CASE ServerStep(r)
  BY <1>1, StepIsSqlStep, CoreStep
<1>2. CASE Reserve(r) \/ Enter(r) \/ EnterPlanned(r) \/ EnterFails(r)
  BY <1>2, ScriptKeepsCore
<1> QED
  BY <1>1, <1>2 DEF Step, ServerStep

-----------------------------------------------------------------------------
(* Every step keeps the types and stands aside from the other runs            *)

LEMMA TypesKept ==
    ASSUME ProgTypeOK, CoreInv, NEW r \in Handler, RunTypeOK(r), Step(r) \/ Kill(r)
    PROVE  ProgTypeOK'
<1>1. saved.seq + 1 \in Nat
  BY DEF CoreInv, SqlTypeOK, Rows
<1>2. \A w \in BOOLEAN : Entry(r, w).by = r
  BY DEF Entry
<1>3. \A i \in Nat : [place EXCEPT ![r] = i] \in [Handler -> Nat]
  BY DEF ProgTypeOK
<1>4. /\ \A x \in States : [state EXCEPT ![r] = x] \in [Handler -> States]
      /\ "running" \in States /\ "failing" \in States /\ "zero" \in States /\ "nonzero" \in States
  BY DEF ProgTypeOK, States
<1>5. Fail(r) => state' \in [Handler -> States] /\ place' \in [Handler -> Nat]
  BY <1>4 DEF Fail, ProgTypeOK
<1>6. GoOn(r) => state' \in [Handler -> States] /\ place' \in [Handler -> Nat]
  BY <1>3 DEF GoOn, JumpTo, ProgTypeOK
<1>7. CASE Launch(r)
  BY <1>3, <1>4, <1>7 DEF Launch, ProgTypeOK
<1>8. CASE Reserve(r) \/ PlanKey(r)
  BY <1>1, <1>5, <1>6, <1>8 DEF Reserve, PlanKey, ProgTypeOK
<1>9. CASE \/ Parse(r) \/ Connect(r) \/ Load(r) \/ Throw(r) \/ Claim(r) \/ ClaimFails(r)
           \/ Record(r) \/ RecordFails(r) \/ CommitStep(r) \/ CloseStep(r) \/ Enter(r)
           \/ EnterPlanned(r) \/ EnterFails(r)
  <2>1. GoOn(r) \/ Fail(r)
    BY <1>9 DEF Parse, Connect, Load, Throw, Claim, ClaimFails, Record, RecordFails, CommitStep,
                CloseStep, Enter, EnterPlanned, EnterFails
  <2>2. UNCHANGED <<prog, dir, asked, turn, nth, planned, content>>
    BY <1>9 DEF Parse, Connect, Load, Throw, Claim, ClaimFails, Record, RecordFails, CommitStep,
                CloseStep, Enter, EnterPlanned, EnterFails
  <2> QED
    BY <1>5, <1>6, <2>1, <2>2 DEF ProgTypeOK
<1>10. CASE Loop(r) \/ Again(r) \/ Swallow(r)
  <2>1. \E i \in Nat : JumpTo(r, i)
    <3>1. CASE Loop(r) \/ Again(r)
      <4>1. prog[r] \in Sweeps /\ Position(r, "loop") = 4 /\ Position(r, "again") = 10
        BY <3>1, KindOfStep, Jumps DEF Loop, Again
      <4>2. place[r] + 1 \in Nat
        BY DEF ProgTypeOK
      <4> QED
        BY <3>1, <4>1, <4>2 DEF Loop, Again, GoOn
    <3>2. CASE Swallow(r)
      <4>1. Position(r, "fill") = 7
        BY <3>2, Jumps DEF Swallow
      <4> QED
        BY <3>2, <4>1 DEF Swallow
    <3> QED
      BY <1>10, <3>1, <3>2
  <2>2. turn' \in [Handler -> Nat] /\ UNCHANGED <<prog, dir, asked, nth, planned, content>>
    BY <1>10 DEF Loop, Again, Swallow, ProgTypeOK
  <2> QED
    BY <1>3, <2>1, <2>2 DEF ProgTypeOK, JumpTo
<1>11. CASE Write(r) \/ Create(r) \/ Fill(r)
  <2>1. GoOn(r) \/ Fail(r)
    BY <1>11 DEF Write, Create, Fill
  <2>2. UNCHANGED <<prog, dir, asked, turn, nth, planned>>
    BY <1>11 DEF Write, Create, Fill
  <2>3. \A c \in content' : c \in content \/ \E w \in BOOLEAN : c = Entry(r, w)
    BY <1>11 DEF Write, Create, Fill
  <2> QED
    BY <1>2, <1>5, <1>6, <2>1, <2>2, <2>3 DEF ProgTypeOK
<1>12. CASE Finish(r) \/ End(r) \/ Kill(r)
  BY <1>4, <1>12 DEF Finish, End, Kill, ProgTypeOK
<1> QED
  BY <1>7, <1>8, <1>9, <1>10, <1>11, <1>12 DEF Step

\* What a program commits: its row in both tables, under a key nobody has.
LEMMA Committed ==
    ASSUME ProgTypeOK, CoreInv, NEW r \in Handler, RunInv(r), CommitStep(r)
    PROVE  /\ Claims(r) /\ holder = r /\ saved' = work
           /\ work.comps = saved.comps \cup {MetaRow(r)}
           /\ work.meta = saved.meta \cup {MetaRow(r)}
           /\ MetaRow(r) \notin saved.comps /\ MetaRow(r).by = r
           /\ MetaRow(r).func # "iden" /\ prog[r] \notin ByScript
           /\ MetaRow(r).key = compKey[r] /\ KeyUsed(r) = compKey[r]
<1>1. Running(r) /\ Holding(r) /\ Passed(r, "record") /\ Passed(r, "claim")
  BY AtCommit, AtStep DEF CommitStep, RunInv, Holding
<1>2. /\ Claims(r) /\ work.comps = saved.comps \cup {MetaRow(r)}
      /\ work.meta = saved.meta \cup {MetaRow(r)} /\ transType[r] = Main[prog[r]].func
  BY <1>1 DEF RunInv, AtWork
<1>3. holder = r /\ compKey[r] = saved.seq + 1
  BY <1>2 DEF CoreInv, ClaimHoldsLock, ClaimInWork
<1>4. MetaRow(r) \notin saved.comps
  BY <1>2, CoreFresh DEF ClaimFresh, MetaRow
<1>5. saved' = work
  BY DEF CommitStep, Commit
<1> QED
  BY <1>1, <1>2, <1>3, <1>4, <1>5, Claimant DEF MetaRow, KeyUsed

\* What the script of Iden commits.
LEMMA CommittedByScript ==
    ASSUME ProgTypeOK, CoreInv, NEW r \in Handler, RunInv(r), Enter(r)
    PROVE  /\ holder = r /\ prog[r] = "Iden" /\ Running(r)
           /\ saved'.comps = saved.comps \cup {ScriptRow(r)}
           /\ saved'.meta = saved.meta \cup {ScriptRow(r)}
           /\ saved'.seq = saved.seq + 1
           /\ ScriptRow(r) \notin saved.comps /\ ScriptRow(r).by = r
<1>1. Running(r) /\ Reserved(r) /\ prog[r] = "Iden"
  BY AtEnter, AtStep, KindOfStep DEF Enter, RunInv, Reserved
<1>2. holder = r /\ planned[r] = saved.seq + 1 /\ work = WithComp(r, "iden")
  BY <1>1 DEF RunInv, ScriptAtWork
<1>3. NewRow(r, "iden") = ScriptRow(r)
  BY <1>2 DEF NewRow, ScriptRow
<1>4. /\ work.comps = saved.comps \cup {ScriptRow(r)} /\ work.meta = saved.meta
      /\ work.seq = saved.seq + 1
  BY <1>2, <1>3 DEF WithComp, CoreInv, SqlTypeOK, Rows
<1>5. /\ saved'.comps = work.comps /\ saved'.meta = work.meta \cup {ScriptRow(r)}
      /\ saved'.seq = work.seq
  BY DEF Enter, CoreInv, SqlTypeOK, Rows
<1>6. ScriptRow(r) \notin saved.comps
  BY <1>2 DEF ScriptRow, CoreInv, KeysBelowSeq, SqlTypeOK, Rows, Row
<1> QED
  BY <1>1, <1>2, <1>4, <1>5, <1>6 DEF ScriptRow

\* What the script of Iden_avg commits: the key of the row it enters is the
\* planned one, that of the computation the next.
LEMMA CommittedUnplanned ==
    ASSUME ProgTypeOK, CoreInv, NEW r \in Handler, RunInv(r), EnterPlanned(r)
    PROVE  /\ holder = NONE /\ prog[r] = "Iden_avg" /\ Running(r)
           /\ saved'.comps = saved.comps \cup {NewRow(r, "iden")}
           /\ saved'.meta = saved.meta \cup {ScriptRow(r)}
           /\ saved'.seq = saved.seq + 1
           /\ NewRow(r, "iden") \notin saved.comps
           /\ NewRow(r, "iden").by = r /\ ScriptRow(r).by = r
<1>1. Running(r) /\ prog[r] = "Iden_avg"
  BY AtStep, KindOfStep DEF EnterPlanned, RunInv
<1>2. /\ saved'.comps = saved.comps \cup {NewRow(r, "iden")}
      /\ saved'.meta = saved.meta \cup {ScriptRow(r)} /\ saved'.seq = saved.seq + 1
  BY DEF EnterPlanned, WithComp, CoreInv, SqlTypeOK, Rows
<1>3. NewRow(r, "iden") \notin saved.comps
  BY DEF NewRow, CoreInv, KeysBelowSeq, SqlTypeOK, Rows, Row
<1> QED
  BY <1>1, <1>2, <1>3 DEF EnterPlanned, NewRow, ScriptRow

\* The part of the data base and the handlers.
SqlAside(r) ==
    /\ saved.seq <= saved'.seq
    /\ \A g \in Handler \ {r} :
        /\ compKey'[g] = compKey[g] /\ transType'[g] = transType[g]
        /\ connOpen'[g] = connOpen[g] /\ (Claims(g)' <=> Claims(g))
        /\ leaked'[g] => leaked[g]
        /\ holder = g => holder' = g /\ saved' = saved /\ work' = work
        /\ Mine(g)' = Mine(g)

LEMMA SqlStandsAside ==
    ASSUME ProgTypeOK, CoreInv, NEW r \in Handler, RunInv(r), Step(r) \/ Kill(r)
    PROVE  SqlAside(r)
<1>1. /\ saved.seq \in Nat /\ work.seq \in Nat /\ saved.seq <= work.seq
      /\ compKey \in [Handler -> 0 .. MaxKey] /\ transType \in [Handler -> Func \cup {NOFUNCTION}]
      /\ connOpen \in [Handler -> BOOLEAN] /\ transOpen \in [Handler -> BOOLEAN]
      /\ leaked \in [Handler -> BOOLEAN] /\ NONE \notin Handler
  BY FuncAssumption DEF CoreInv, SqlTypeOK, KeysBelowSeq, Rows
<1>2. saved' = saved => saved.seq <= saved'.seq /\ \A g \in Handler : Mine(g)' = Mine(g)
  BY <1>1 DEF Mine
<1>3. CASE Open(r) \/ Close(r) \/ StartCompRefused(r) \/ AddMdataLeaks(r)
  BY <1>1, <1>2, <1>3
     DEF SqlAside, Open, Close, Discard, StartCompRefused, Ready, AddMdataLeaks, dbVars, ownVars,
         Claims
<1>4. CASE AddMdata(r, compKey[r]) \/ Rollback(r) \/ Exit(r)
  <2>1. Exit(r) => Discard(r) /\ Fresh(r)
    BY ExitIs, ProgramsAssumption DEF CoreInv
  <2> QED
    BY <1>1, <1>2, <1>4, <2>1
       DEF SqlAside, AddMdata, Rollback, Fresh, Discard, ownVars, Claims
<1>5. ASSUME StartComp(r, Main[prog[r]].func) PROVE SqlAside(r)
  BY <1>1, <1>2, <1>5 DEF SqlAside, StartComp, Ready, Claims
<1>6. CASE CommitStep(r)
  <2>1. \A g \in Handler \ {r} : Mine(g)' = Mine(g)
    BY <1>6, Committed DEF Mine
  <2>2. holder = r /\ saved' = work
    BY <1>6, Committed
  <2> QED
    BY <1>1, <1>6, <2>1, <2>2 DEF SqlAside, CommitStep, Commit, Claims
<1>7. CASE UNCHANGED sqlVars
  BY <1>1, <1>2, <1>7 DEF SqlAside, sqlVars, dbVars, ownVars, Claims
<1>8. CASE Enter(r)
  <2>1. \A g \in Handler \ {r} : Mine(g)' = Mine(g)
    BY <1>8, CommittedByScript DEF Mine
  <2>2. holder = r /\ saved'.seq = saved.seq + 1 /\ UNCHANGED ownVars
    BY <1>8, CommittedByScript DEF Enter
  <2> QED
    BY <1>1, <2>1, <2>2 DEF SqlAside, ownVars, Claims
<1>9. CASE EnterPlanned(r)
  <2>1. \A g \in Handler \ {r} : Mine(g)' = Mine(g)
    BY <1>9, CommittedUnplanned DEF Mine
  <2>2. holder = NONE /\ saved'.seq = saved.seq + 1 /\ UNCHANGED ownVars
    BY <1>9, CommittedUnplanned DEF EnterPlanned
  <2> QED
    BY <1>1, <2>1, <2>2 DEF SqlAside, ownVars, Claims
<1>10. CASE Reserve(r) \/ EnterFails(r)
  <2>1. saved' = saved /\ UNCHANGED ownVars
        /\ (holder = NONE \/ UNCHANGED <<holder, work>>)
    BY <1>10 DEF Reserve, EnterFails
  <2> QED
    BY <1>1, <1>2, <2>1 DEF SqlAside, ownVars, Claims
<1>11. CASE \/ Connect(r) \/ Claim(r) \/ ClaimFails(r) \/ Record(r) \/ RecordFails(r)
            \/ CloseStep(r) \/ Finish(r) \/ End(r) \/ Kill(r)
  BY <1>3, <1>4, <1>5, <1>7, <1>11
     DEF Connect, Claim, ClaimFails, Record, RecordFails, AddMdataRefused, CloseStep,
         Finish, End, Kill
<1>12. CASE \/ Launch(r) \/ PlanKey(r) \/ Parse(r) \/ Load(r) \/ Throw(r) \/ Loop(r) \/ Again(r)
            \/ Write(r) \/ Create(r) \/ Fill(r) \/ Swallow(r)
  BY <1>7, <1>12
     DEF Launch, PlanKey, Parse, Load, Throw, Loop, Again, Write, Create, Fill, Swallow
<1> QED
  BY <1>6, <1>8, <1>9, <1>10, <1>11, <1>12 DEF Step

LEMMA StandsAside ==
    ASSUME ProgTypeOK, CoreInv, NEW r \in Handler, RunInv(r), Step(r) \/ Kill(r)
    PROVE  Aside(r)
<1>1. prog' = prog /\ dir' = dir /\ asked' = asked
  BY DEF Step, Launch, Reserve, PlanKey, Parse, Connect, Load, Throw, Loop, Again, Claim,
         ClaimFails, Write, Create, Fill, Swallow, Record, RecordFails, CommitStep, CloseStep,
         Enter, EnterPlanned, EnterFails, Finish, End, Kill
<1>2. \A c \in content : c.by # r \/ c.whole => c \in content'
  <2>1. CASE Write(r) \/ Create(r) \/ Fill(r)
    BY <2>1 DEF Write, Create, Fill, Entry
  <2>2. CASE UNCHANGED content
    BY <2>2
  <2> QED
    BY <2>1, <2>2
       DEF Step, Launch, Reserve, PlanKey, Parse, Connect, Load, Throw, Loop, Again, Claim,
           ClaimFails, Swallow, Record, RecordFails, CommitStep, CloseStep, Enter, EnterPlanned,
           EnterFails, Finish, End, Kill
<1>3. \A g \in Handler \ {r} : state'[g] = state[g] /\ place'[g] = place[g]
  BY DEF Step, Launch, Reserve, PlanKey, Parse, Connect, Load, Throw, Loop, Again, Claim,
         ClaimFails, Write, Create, Fill, Swallow, Record, RecordFails, CommitStep, CloseStep,
         Enter, EnterPlanned, EnterFails, Finish, End, Kill, GoOn, JumpTo, Fail, ProgTypeOK
<1>4. \A g \in Handler \ {r} : turn'[g] = turn[g] /\ nth'[g] = nth[g] /\ planned'[g] = planned[g]
  BY DEF Step, Launch, Reserve, PlanKey, Parse, Connect, Load, Throw, Loop, Again, Claim,
         ClaimFails, Write, Create, Fill, Swallow, Record, RecordFails, CommitStep, CloseStep,
         Enter, EnterPlanned, EnterFails, Finish, End, Kill, ProgTypeOK
<1> QED
  BY <1>1, <1>2, <1>3, <1>4, SqlStandsAside DEF Aside, SqlAside

-----------------------------------------------------------------------------
(* Every step keeps the invariant of its run                                  *)

LEMMA EndingsKeep ==
    ASSUME ProgTypeOK, CoreInv, CoreInv', NEW r \in Handler, RunInv(r),
           \/ Throw(r) \/ ClaimFails(r) \/ RecordFails(r) \/ EnterFails(r)
           \/ Finish(r) \/ End(r) \/ Kill(r)
           \/ (Reserve(r) \/ Parse(r) \/ Write(r) \/ Create(r)) /\ Fail(r)
    PROVE  RunInv(r)'
<1>1. /\ prog' = prog /\ asked' = asked /\ planned'[r] = planned[r] /\ saved' = saved
      /\ state'[r] \in {"failing", "zero", "nonzero"} /\ (connOpen'[r] => connOpen[r])
  <2>1. Fail(r) => state'[r] = "failing"
    BY DEF Fail, ProgTypeOK
  <2>2. CASE Throw(r) \/ EnterFails(r) \/ ClaimFails(r)
    BY <2>1, <2>2 DEF Throw, EnterFails, ClaimFails, StartCompRefused, sqlVars, dbVars, ownVars
  <2>3. CASE RecordFails(r)
    BY <2>1, <2>3 DEF RecordFails, AddMdataRefused, Rollback, Discard, AddMdataLeaks, dbVars
  <2>4. CASE Finish(r) \/ End(r) \/ Kill(r)
    BY <2>4 DEF Finish, End, Kill, Exit, Fresh, DiscardAll, ProgTypeOK, CoreInv, SqlTypeOK
  <2>5. CASE (Reserve(r) \/ Parse(r) \/ Write(r) \/ Create(r)) /\ Fail(r)
    <3>1. state' # state
      BY <2>1, <2>5, AtStep DEF Reserve, Parse, Write, Create, RunInv, Running
    <3>2. ~GoOn(r)
      BY <3>1 DEF GoOn, JumpTo
    <3> QED
      BY <2>1, <2>5, <3>2 DEF Reserve, Parse, Write, Create, sqlVars, dbVars, ownVars
  <2> QED
    BY <2>2, <2>3, <2>4, <2>5
<1>2. saved.seq <= saved'.seq /\ Mine(r)' = Mine(r)
  BY <1>1 DEF CoreInv, SqlTypeOK, Rows, Mine
<1> QED
  BY <1>1, <1>2, AwayKeeps DEF Running

\* Results are written by the way: the rows do not change.
LEMMA PlainStepsKeep ==
    ASSUME ProgTypeOK, CoreInv, NEW r \in Handler, RunInv(r),
           Parse(r) \/ Connect(r) \/ Load(r) \/ Write(r) \/ Create(r) \/ Fill(r), GoOn(r)
    PROVE  RunInv(r)'
<1>1. PICK s \in {"parse", "connect", "load", "write", "create", "fill"} :
          /\ At(r, s)
          /\ s = "create" => Create(r)
          /\ s = "fill" => Fill(r)
          /\ s \notin {"create", "fill"} => \A c \in content : c \in content'
  BY DEF Parse, Connect, Load, Write, Create, Fill
<1>2. /\ prog' = prog /\ dir' = dir /\ asked' = asked /\ turn' = turn /\ nth' = nth
      /\ planned' = planned /\ saved' = saved /\ work' = work /\ holder' = holder
      /\ compKey' = compKey /\ transType' = transType
  BY DEF Parse, Connect, Load, Write, Create, Fill, Open, sqlVars, dbVars, ownVars
<1>3. (Claims(r) => Claims(r)') /\ (prog[r] \in ByScript => ~connOpen'[r])
  <2>1. CASE Connect(r)
    BY <2>1, KindOfStep DEF Connect, Open, Claims, RunInv, ServerSteps
  <2>2. CASE Parse(r) \/ Load(r) \/ Write(r) \/ Create(r) \/ Fill(r)
    BY <2>2 DEF Parse, Load, Write, Create, Fill, sqlVars, ownVars, Claims, RunInv, RunTypeOK
  <2> QED
    BY <2>1, <2>2
<1>4. /\ \A x : Passed(r, x)' <=> Passed(r, x) \/ x = s
      /\ Running(r)' /\ place'[r] >= 1 /\ Running(r)
  BY <1>1, <1>2, GoingOn, AtStep DEF RunInv
<1>5. \A x \in RowSteps : Passed(r, x)' <=> Passed(r, x)
  BY <1>1, <1>4 DEF RowSteps
<1>6. RunTypeOK(r)' /\ AtWork(r)' /\ ScriptAtWork(r)' /\ Counted(r)'
  BY <1>2, <1>3, <1>4, <1>5, RowsKeep
<1>7. Written(r)'
  <2>1. \A w \in BOOLEAN : Entry(r, w)' = Entry(r, w)
    BY <1>2 DEF Entry, KeyUsed
  <2>2. CASE s = "create"
    <3>1. ~Passed(r, "fill") /\ Create(r)
      BY <1>1, <2>2, AtFill DEF RunInv
    <3>2. ~Fail(r)
      BY <1>4 DEF Fail, Running, ProgTypeOK
    <3>3. Entry(r, FALSE) \in content'
      BY <3>1, <3>2 DEF Create
    <3> QED
      BY <1>4, <2>1, <2>2, <3>1, <3>3 DEF Written
  <2>3. CASE s = "fill"
    <3>1. Entry(r, TRUE) \in content'
      BY <1>1, <2>3 DEF Fill
    <3> QED
      BY <1>4, <2>1, <2>3, <3>1 DEF Written
  <2>4. CASE s \notin {"create", "fill"}
    <3>1. \A x \in {"create", "fill", "commit"} : Passed(r, x)' <=> Passed(r, x)
      BY <1>1, <1>4, <1>5, <2>4 DEF RowSteps
    <3>2. \A c \in content : c \in content'
      BY <1>1, <2>4
    <3> QED
      BY <1>2, <1>4, <2>1, <3>1, <3>2 DEF RunInv, Written
  <2> QED
    BY <2>2, <2>3, <2>4
<1> QED
  BY <1>6, <1>7 DEF RunInv

LEMMA LaunchKeeps ==
    ASSUME ProgTypeOK, CoreInv, NEW r \in Handler, RunInv(r), Launch(r)
    PROVE  RunInv(r)'
<1>1. /\ prog' = prog /\ asked' = asked /\ planned' = planned /\ turn' = turn
      /\ saved' = saved /\ connOpen' = connOpen
      /\ state[r] = "idle" /\ state'[r] = "running" /\ place'[r] = 1
  BY DEF Launch, sqlVars, dbVars, ownVars, ProgTypeOK
<1>2. \A x : ~Passed(r, x)'
  <2>1. Steps(r)' = Steps(r) /\ Numbered(Steps(r))
    BY <1>1, ItsProgram DEF Steps, WellMade
  <2> QED
    BY <1>1, <2>1 DEF Passed, Numbered
<1>3. RunTypeOK(r)'
  BY <1>1, <1>2 DEF RunInv, RunTypeOK
<1>4. AtWork(r)' /\ ScriptAtWork(r)' /\ Written(r)'
  BY <1>2 DEF AtWork, Holding, ScriptAtWork, Reserved, Written
<1>5. Counted(r)'
  <2>1. Mine(r)' = {} /\ turn'[r] = 0 /\ asked'[r] \in Nat
    BY <1>1 DEF RunInv, Counted, Mine, ProgTypeOK
  <2>2. IsFiniteSet({}) /\ Cardinality({}) = 0
    BY FS_EmptySet
  <2> QED
    BY <1>1, <1>2, <2>1, <2>2 DEF Counted, Done
<1> QED
  BY <1>3, <1>4, <1>5 DEF RunInv

\* The script of Iden takes the lock with its row, that of Iden_avg a number.
LEMMA ScriptStartKeeps ==
    ASSUME ProgTypeOK, CoreInv, NEW r \in Handler, RunInv(r), Reserve(r) \/ PlanKey(r), GoOn(r)
    PROVE  RunInv(r)'
<1>1. PICK s \in {"reserve", "plan"} : At(r, s) /\ (s = "reserve" => Reserve(r))
  BY DEF Reserve, PlanKey
<1>0. prog' = prog
  BY DEF Reserve, PlanKey
<1>2. \A x : ~Passed(r, x)
  BY <1>1, AtScriptStart DEF RunInv
<1>3. /\ \A x : Passed(r, x)' <=> x = s
      /\ Running(r)' /\ place'[r] \in Nat /\ place'[r] >= 1 /\ Running(r)
  BY <1>0, <1>1, <1>2, GoingOn, AtStep DEF RunInv
<1>5. /\ asked' = asked /\ turn' = turn /\ saved' = saved /\ connOpen' = connOpen
      /\ planned'[r] = saved.seq + 1 /\ saved.seq \in Nat
  <2>1. ~Fail(r)
    BY <1>3 DEF Fail, GoOn, JumpTo, Running, ProgTypeOK
  <2> QED
    BY <2>1 DEF Reserve, PlanKey, sqlVars, dbVars, ownVars, ProgTypeOK, CoreInv, SqlTypeOK, Rows
<1>6. RunTypeOK(r)'
  BY <1>0, <1>3, <1>5 DEF RunInv, RunTypeOK
<1>7. AtWork(r)' /\ Written(r)'
  BY <1>1, <1>3 DEF AtWork, Holding, Written
<1>8. ScriptAtWork(r)'
  <2> SUFFICES ASSUME Reserved(r)' PROVE ScriptAtWork(r)'
    BY DEF ScriptAtWork
  <2>1. Reserve(r)
    BY <1>1, <1>3 DEF Reserved
  <2>2. ~Fail(r)
    BY <1>3 DEF Fail, GoOn, JumpTo, Running, ProgTypeOK
  <2>3. holder' = r /\ work' = WithComp(r, "iden")
    BY <2>1, <2>2 DEF Reserve
  <2> QED
    BY <1>5, <2>3 DEF ScriptAtWork, WithComp, NewRow
<1>9. Counted(r)'
  <2>1. Mine(r)' = Mine(r) /\ state'[r] # "idle"
    BY <1>3, <1>5 DEF Mine, Running
  <2> QED
    BY <1>0, <1>1, <1>2, <1>3, <1>5, <2>1 DEF RunInv, Counted, Done
<1> QED
  BY <1>6, <1>7, <1>8, <1>9 DEF RunInv

LEMMA LoopKeeps ==
    ASSUME ProgTypeOK, CoreInv, NEW r \in Handler, RunInv(r), Loop(r) \/ Again(r)
    PROVE  RunInv(r)'
<1>1. /\ prog' = prog /\ asked' = asked /\ planned' = planned /\ saved' = saved
      /\ connOpen' = connOpen /\ prog[r] \in Sweeps /\ Running(r)
      /\ state' = state
  BY KindOfStep, AtStep DEF Loop, Again, RunInv, GoOn, JumpTo, sqlVars, dbVars, ownVars
<1>2. /\ prog[r] \notin ByScript /\ asked[r] \in Nat /\ turn[r] \in Nat
      /\ \A x \in {"reserve", "enter", "plan", "enter_planned", "create"} : ~Passed(r, x)'
  <2>1. Steps(r)' = Steps(r) /\ ScriptOrder(prog[r], Steps(r)) /\ LoopOrder(prog[r], Steps(r))
    BY <1>1, ItsProgram DEF Steps, WellMade
  <2>2. prog[r] \notin ByScript
    BY <1>1 DEF Sweeps, ByScript
  <2>3. Lacks(Steps(r), ScriptSteps) /\ Lacks(Steps(r), {"create"})
    BY <1>1, <2>1, <2>2 DEF ScriptOrder, LoopOrder
  <2>4. \A x \in ScriptSteps \cup {"create"} : ~Passed(r, x)'
    BY <2>1, <2>3 DEF Passed, Lacks
  <2> QED
    BY <2>2, <2>4 DEF ScriptSteps, ProgTypeOK
<1>3. /\ Running(r)' /\ state'[r] # "idle" /\ Mine(r)' = Mine(r)
  BY <1>1 DEF Running, Mine
<1>4. IsFiniteSet(Mine(r)) /\ turn[r] <= asked[r]
  BY <1>1 DEF RunInv, Counted
\* into the loop, out of it, or back
<1>5. CASE Loop(r) /\ turn[r] < asked[r]
  <2>1. \A x \in {"claim", "record", "fill", "commit", "again", "loop"} : ~Passed(r, x)
    BY <1>5, AtLoop DEF Loop, RunInv
  <2>2. /\ \A x : Passed(r, x)' <=> Passed(r, x) \/ x = "loop"
        /\ place'[r] >= 1 /\ turn' = turn
    BY <1>1, <1>5, GoingOn DEF Loop, RunInv
  <2>3. RunTypeOK(r)' /\ AtWork(r)' /\ ScriptAtWork(r)' /\ Written(r)'
    BY <1>1, <1>2, <2>1, <2>2
       DEF RunInv, RunTypeOK, AtWork, Holding, ScriptAtWork, Reserved, Written
  <2>4. ~Done(r) /\ ~Done(r)'
    BY <1>2, <2>1, <2>2 DEF Done
  <2>5. Counted(r)'
    BY <1>1, <1>3, <1>4, <1>5, <2>1, <2>2, <2>4 DEF RunInv, Counted
  <2> QED
    BY <2>3, <2>5 DEF RunInv
<1>6. CASE Loop(r) /\ ~(turn[r] < asked[r])
  <2>1. \A x \in {"claim", "record", "fill", "commit", "again", "loop"} : ~Passed(r, x)
    BY <1>6, AtLoop DEF Loop, RunInv
  <2>2. place'[r] = 11 /\ turn' = turn
    BY <1>1, <1>6, Jumps DEF Loop, JumpTo, ProgTypeOK
  <2>3. Passed(r, "loop")' /\ Passed(r, "commit")' /\ Passed(r, "again")'
    BY <1>1, <2>2, Jumps
  <2>4. RunTypeOK(r)' /\ AtWork(r)' /\ ScriptAtWork(r)' /\ Written(r)'
    <3>1. place'[r] >= 1
      BY <2>2
    <3>2. RunTypeOK(r)'
      BY <1>1, <1>2, <3>1 DEF RunInv, RunTypeOK
    <3>3. AtWork(r)' /\ ScriptAtWork(r)' /\ Written(r)'
      BY <1>2, <2>3 DEF AtWork, Holding, ScriptAtWork, Reserved, Written
    <3> QED
      BY <3>2, <3>3
  <2>5. ~Done(r)
    BY <1>1, <1>2, <2>1, Kinds DEF Done, ScriptSteps
  <2>6. Counted(r)'
    BY <1>1, <1>2, <1>3, <1>4, <1>6, <2>2, <2>3, <2>5 DEF RunInv, Counted
  <2> QED
    BY <2>4, <2>6 DEF RunInv
<1>7. CASE Again(r)
  <2>1. Passed(r, "commit") /\ Passed(r, "loop") /\ ~Passed(r, "again")
    BY <1>7, AtLoop DEF Again, RunInv
  <2>2. place'[r] = 4 /\ turn'[r] = turn[r] + 1
    BY <1>1, <1>7, Jumps DEF Again, JumpTo, ProgTypeOK
  <2>3. \A x \in {"claim", "record", "fill", "commit", "again", "loop"} : ~Passed(r, x)'
    BY <1>1, <2>2, Jumps
  <2>4. RunTypeOK(r)' /\ AtWork(r)' /\ ScriptAtWork(r)' /\ Written(r)'
    <3>1. place'[r] >= 1
      BY <2>2
    <3>2. RunTypeOK(r)'
      BY <1>1, <1>2, <3>1 DEF RunInv, RunTypeOK
    <3>3. AtWork(r)' /\ ScriptAtWork(r)' /\ Written(r)'
      BY <1>2, <2>3 DEF AtWork, Holding, ScriptAtWork, Reserved, Written
    <3> QED
      BY <3>2, <3>3
  <2>5. Done(r) /\ ~Done(r)'
    BY <1>2, <2>1, <2>3 DEF Done
  <2>6. Counted(r)'
    BY <1>1, <1>2, <1>3, <1>4, <2>1, <2>2, <2>3, <2>5 DEF RunInv, Counted
  <2> QED
    BY <2>4, <2>6 DEF RunInv
<1> QED
  BY <1>5, <1>6, <1>7

\* start_comp gives the run the lock and its row.
LEMMA ClaimKeeps ==
    ASSUME ProgTypeOK, CoreInv, CoreInv', NEW r \in Handler, RunInv(r), Claim(r)
    PROVE  RunInv(r)'
<1> DEFINE f == Main[prog[r]].func
<1>1. /\ prog' = prog /\ asked' = asked /\ planned' = planned /\ saved' = saved /\ turn' = turn
      /\ At(r, "claim") /\ GoOn(r) /\ StartComp(r, f) /\ f \in Func
  BY FuncAssumption DEF Claim, StartComp
<1> HIDE DEF f
<1>2. /\ \A x \in {"claim", "record", "fill", "commit", "close", "again", "create"} :
            ~Passed(r, x)
      /\ prog[r] \notin ByScript
  BY <1>1, AtClaim DEF RunInv
<1>3. /\ \A x : Passed(r, x)' <=> Passed(r, x) \/ x = "claim"
      /\ Running(r)' /\ place'[r] >= 1 /\ Running(r)
  BY <1>1, GoingOn, AtStep DEF RunInv
<1>4. RunTypeOK(r)'
  BY <1>1, <1>2, <1>3 DEF RunInv, RunTypeOK
<1>5. AtWork(r)'
  <2>1. /\ Claims(r)' /\ transType'[r] = f /\ compKey'[r] = saved.seq + 1
    BY <1>1, ProgramsAssumption DEF StartComp, Ready, Claims, CoreInv, SqlTypeOK
  <2>2. MetaRow(r)' = NewRow(r, f)
    BY <2>1 DEF MetaRow, NewRow
  <2>3. work'.comps = saved.comps \cup {NewRow(r, f)} /\ work'.meta = saved.meta
    BY <1>1 DEF StartComp, WithComp, CoreInv, SqlTypeOK, Rows
  <2>4. ~Passed(r, "record")'
    BY <1>2, <1>3
  <2> QED
    BY <1>1, <2>1, <2>2, <2>3, <2>4 DEF AtWork, f
<1>6. ScriptAtWork(r)'
  <2>1. ~Passed(r, "reserve")
    BY <1>2, Kinds DEF ScriptSteps
  <2> QED
    BY <1>3, <2>1 DEF ScriptAtWork, Reserved
<1>7. Written(r)'
  BY <1>2, <1>3 DEF Written
<1>8. Counted(r)'
  <2>1. Mine(r)' = Mine(r) /\ state'[r] # "idle" /\ (Done(r)' <=> Done(r))
    BY <1>1, <1>3 DEF Mine, Running, Done
  <2> QED
    BY <1>1, <1>3, <2>1 DEF RunInv, Counted
<1> QED
  BY <1>4, <1>5, <1>6, <1>7, <1>8 DEF RunInv

\* phi6 goes on to the commit without its results.
LEMMA SwallowKeeps ==
    ASSUME ProgTypeOK, CoreInv, NEW r \in Handler, RunInv(r), Swallow(r)
    PROVE  RunInv(r)'
<1>1. /\ prog' = prog /\ dir' = dir /\ asked' = asked /\ turn' = turn /\ nth' = nth
      /\ planned' = planned /\ UNCHANGED sqlVars /\ state' = state /\ content' = content
      /\ prog[r] = "phi6"
  BY DEF Swallow, JumpTo
<1>2. place[r] \in {6, 7} /\ Running(r)
  <2>1. Numbered(Steps(r)) /\ Ends(prog[r], Steps(r))
    BY ItsProgram DEF WellMade, Steps
  <2>2. /\ place[r] \in DOMAIN Steps(r) /\ Running(r)
        /\ Steps(r)[place[r]] = "write" \/ Steps(r)[place[r]] = "fill"
    BY AtStep DEF Swallow, RunInv
  <2> HIDE DEF Steps
  <2> QED
    BY <1>1, <2>1, <2>2 DEF Numbered, Ends
<1>3. place'[r] = 8 /\ Running(r)'
  BY <1>1, <1>2, Jumps DEF Swallow, JumpTo, ProgTypeOK, Running
<1>4. \A x : x \notin {"write", "fill"} => (Passed(r, x)' <=> Passed(r, x))
  BY <1>1, <1>2, <1>3, Jumps
<1>5. RunTypeOK(r)' /\ AtWork(r)' /\ ScriptAtWork(r)' /\ Counted(r)'
  <2>1. \A x \in RowSteps : Passed(r, x)' <=> Passed(r, x)
    BY <1>4 DEF RowSteps
  <2>2. /\ saved' = saved /\ work' = work /\ holder' = holder /\ compKey' = compKey
        /\ transType' = transType /\ connOpen' = connOpen /\ (Claims(r) => Claims(r)')
    BY <1>1 DEF sqlVars, dbVars, ownVars, Claims
  <2> QED
    BY <1>1, <1>2, <1>3, <2>1, <2>2, RowsKeep DEF RunInv, RunTypeOK
<1>6. Written(r)'
  <2>1. Lacks(Steps(r), {"create"})
    BY <1>1, ItsProgram DEF WellMade, Steps, Ends
  <2>2. ~Passed(r, "create")
    BY <2>1, PassedLacks
  <2> QED
    BY <1>1, <1>4, <2>2 DEF Written
<1> QED
  BY <1>5, <1>6 DEF RunInv

\* add_mdata puts the row of the parameters beside that of the computation.
LEMMA RecordKeeps ==
    ASSUME ProgTypeOK, CoreInv, NEW r \in Handler, RunInv(r), Record(r)
    PROVE  RunInv(r)'
<1>1. /\ At(r, "record") /\ GoOn(r)
      /\ prog' = prog /\ dir' = dir /\ asked' = asked /\ turn' = turn /\ nth' = nth
      /\ planned' = planned /\ saved' = saved /\ UNCHANGED ownVars /\ content' = content
      /\ work' = [work EXCEPT !.meta = @ \cup {MetaRow(r)}]
  BY DEF Record, AddMdata
<1>2. /\ \A x : Passed(r, x)' <=> Passed(r, x) \/ x = "record"
      /\ Running(r)' /\ place'[r] >= 1 /\ Running(r)
  BY <1>1, GoingOn, AtStep DEF RunInv
<1>3. Passed(r, "claim") /\ ~Passed(r, "record") /\ ~Passed(r, "commit")
  BY <1>1, AtRecord DEF RunInv
<1>4. RunTypeOK(r)'
  BY <1>1, <1>2 DEF RunInv, RunTypeOK, ownVars
<1>5. AtWork(r)'
  <2> SUFFICES ASSUME Holding(r)' PROVE AtWork(r)'
    BY DEF AtWork
  <2>1. Holding(r)
    BY <1>2 DEF Holding
  <2>2. /\ Claims(r) /\ transType[r] = Main[prog[r]].func
        /\ work.comps = saved.comps \cup {MetaRow(r)} /\ work.meta = saved.meta
    BY <1>2, <1>3, <2>1 DEF RunInv, AtWork
  <2>3. work'.comps = work.comps /\ work'.meta = work.meta \cup {MetaRow(r)}
    BY <1>1 DEF CoreInv, SqlTypeOK, Rows
  <2>4. MetaRow(r)' = MetaRow(r) /\ Claims(r)' = Claims(r) /\ transType' = transType
    BY <1>1 DEF ownVars, MetaRow, Claims
  <2> QED
    BY <1>1, <1>2, <2>2, <2>3, <2>4 DEF AtWork
<1>6. ScriptAtWork(r)'
  <2>1. ~Passed(r, "reserve")
    BY <1>1, KindOfStep, Kinds DEF ServerSteps, ScriptSteps, RunInv
  <2> QED
    BY <1>2, <2>1 DEF ScriptAtWork, Reserved
<1>7. Written(r)'
  <2>1. \A w \in BOOLEAN : Entry(r, w)' = Entry(r, w)
    BY <1>1 DEF Entry, KeyUsed, ownVars
  <2> QED
    BY <1>1, <1>2, <2>1 DEF RunInv, Written
<1>8. Counted(r)'
  <2>1. Mine(r)' = Mine(r) /\ state'[r] # "idle" /\ (Done(r)' <=> Done(r))
    BY <1>1, <1>2 DEF Mine, Running, Done
  <2> QED
    BY <1>1, <1>2, <2>1 DEF RunInv, Counted
<1> QED
  BY <1>4, <1>5, <1>6, <1>7, <1>8 DEF RunInv

LEMMA CommitKeeps ==
    ASSUME ProgTypeOK, CoreInv, CoreInv', NEW r \in Handler, RunInv(r), CommitStep(r)
    PROVE  RunInv(r)'
<1>1. /\ At(r, "commit") /\ GoOn(r)
      /\ prog' = prog /\ asked' = asked /\ turn' = turn /\ planned' = planned
      /\ connOpen' = connOpen
  BY DEF CommitStep, Commit
<1>2. /\ \A x : Passed(r, x)' <=> Passed(r, x) \/ x = "commit"
      /\ Running(r)' /\ place'[r] >= 1 /\ Running(r)
  BY <1>1, GoingOn, AtStep DEF RunInv
<1>3. ~Passed(r, "commit") /\ ~Passed(r, "again") /\ prog[r] \notin ByScript
  BY <1>1, AtCommit, Committed DEF RunInv
<1>4. ~Passed(r, "reserve") /\ ~Passed(r, "create") /\ ~Done(r)
  <2>1. ~Passed(r, "reserve") /\ ~Passed(r, "enter") /\ ~Passed(r, "enter_planned")
    BY <1>3, Kinds DEF ScriptSteps
  <2>2. ~Passed(r, "create")
    <3>1. ClaimOrder(Steps(r))
      BY ItsProgram DEF WellMade, Steps
    <3> QED
      BY <1>1, <3>1, AtStep DEF ClaimOrder, RunInv
  <2> QED
    BY <1>3, <2>1, <2>2 DEF Done
<1>5. RunTypeOK(r)'
  <2>1. saved.seq \in Nat /\ saved'.seq \in Nat /\ saved.seq <= saved'.seq /\ planned[r] \in Nat
    BY StandsAside DEF Aside, CoreInv, SqlTypeOK, Rows, ProgTypeOK, Step
  <2>2. planned'[r] <= saved'.seq + 1
    BY <1>1, <2>1 DEF RunInv, RunTypeOK
  <2> QED
    BY <1>1, <1>2, <1>3, <2>2 DEF RunInv, RunTypeOK
<1>6. AtWork(r)' /\ ScriptAtWork(r)' /\ Written(r)'
  BY <1>2, <1>4 DEF AtWork, Holding, ScriptAtWork, Reserved, Written
<1>7. Counted(r)'
  <2>1. Mine(r)' = Mine(r) \cup {MetaRow(r)} /\ MetaRow(r) \notin Mine(r)
    BY Committed DEF Mine
  <2>2. IsFiniteSet(Mine(r)) /\ Cardinality(Mine(r)) = turn[r] /\ turn[r] \in Nat
    BY <1>2, <1>4 DEF RunInv, Counted, ProgTypeOK
  <2>3. IsFiniteSet(Mine(r)') /\ Cardinality(Mine(r)') = turn[r] + 1
    BY <2>1, <2>2, FS_AddElement
  <2>4. Done(r)' /\ state'[r] # "idle"
    BY <1>2 DEF Done, Running
  <2> QED
    BY <1>1, <1>2, <1>3, <2>3, <2>4 DEF RunInv, Counted
<1> QED
  BY <1>5, <1>6, <1>7 DEF RunInv

LEMMA CloseKeeps ==
    ASSUME ProgTypeOK, CoreInv, NEW r \in Handler, RunInv(r), CloseStep(r)
    PROVE  RunInv(r)'
<1>1. /\ At(r, "close") /\ GoOn(r)
      /\ prog' = prog /\ dir' = dir /\ asked' = asked /\ turn' = turn /\ nth' = nth
      /\ planned' = planned /\ saved' = saved /\ content' = content
      /\ compKey' = compKey /\ (connOpen'[r] => connOpen[r])
  BY DEF CloseStep, Close, Discard, CoreInv, SqlTypeOK
<1>2. /\ \A x : Passed(r, x)' <=> Passed(r, x) \/ x = "close"
      /\ Running(r)' /\ place'[r] >= 1 /\ Running(r)
  BY <1>1, GoingOn, AtStep DEF RunInv
<1>3. RunTypeOK(r)'
  BY <1>1, <1>2 DEF RunInv, RunTypeOK
<1>4. AtWork(r)' /\ ScriptAtWork(r)'
  <2>1. ~Passed(r, "reserve")
    BY <1>1, KindOfStep, Kinds DEF ServerSteps, ScriptSteps, RunInv
  <2> QED
    BY <1>2, <2>1 DEF AtWork, Holding, ScriptAtWork, Reserved
<1>5. Written(r)'
  <2>1. \A w \in BOOLEAN : Entry(r, w)' = Entry(r, w)
    BY <1>1 DEF Entry, KeyUsed
  <2> QED
    BY <1>1, <1>2, <2>1 DEF RunInv, Written
<1>6. Counted(r)'
  <2>1. Mine(r)' = Mine(r) /\ state'[r] # "idle" /\ (Done(r)' <=> Done(r))
    BY <1>1, <1>2 DEF Mine, Running, Done
  <2> QED
    BY <1>1, <1>2, <2>1 DEF RunInv, Counted
<1> QED
  BY <1>3, <1>4, <1>5, <1>6 DEF RunInv

\* The scripts' last step: one computation, whose results are in the file.
LEMMA EnterKeeps ==
    ASSUME ProgTypeOK, CoreInv, CoreInv', NEW r \in Handler, RunInv(r), Enter(r) \/ EnterPlanned(r)
    PROVE  RunInv(r)'
<1>1. PICK s \in {"enter", "enter_planned"} :
          At(r, s) /\ (s = "enter" => Enter(r)) /\ (s = "enter_planned" => EnterPlanned(r))
  BY DEF Enter, EnterPlanned
<1>2. /\ GoOn(r)
      /\ prog' = prog /\ dir' = dir /\ asked' = asked /\ turn' = turn /\ nth' = nth
      /\ planned' = planned /\ content' = content /\ UNCHANGED ownVars
  BY DEF Enter, EnterPlanned
<1>3. /\ \A x : Passed(r, x)' <=> Passed(r, x) \/ x = s
      /\ Running(r)' /\ place'[r] >= 1 /\ Running(r)
  BY <1>1, <1>2, GoingOn, AtStep DEF RunInv
<1>4. /\ prog[r] \in ByScript /\ prog[r] \notin Sweeps
      /\ \A x \in ServerSteps : ~Passed(r, x)
      /\ ~Done(r)
  <2>1. prog[r] \in ByScript
    BY <1>1, KindOfStep DEF RunInv, ScriptSteps
  <2>2. \A x \in ServerSteps : ~Passed(r, x)
    BY <2>1, Kinds
  <2>3. ~Passed(r, "enter") /\ ~Passed(r, "enter_planned")
    <3>1. CASE s = "enter"
      BY <1>1, <3>1, AtEnter, KindOfStep, Kinds DEF RunInv
    <3>2. CASE s = "enter_planned"
      BY <1>1, <3>2, AtEnter, KindOfStep, Kinds DEF RunInv
    <3> QED
      BY <3>1, <3>2
  <2> QED
    BY <2>1, <2>2, <2>3 DEF ByScript, Sweeps, ServerSteps, Done
<1>5. RunTypeOK(r)'
  <2>1. saved.seq \in Nat /\ saved'.seq \in Nat /\ saved.seq <= saved'.seq /\ planned[r] \in Nat
    BY StandsAside DEF Aside, CoreInv, SqlTypeOK, Rows, ProgTypeOK, Step
  <2>2. planned'[r] <= saved'.seq + 1
    BY <1>2, <2>1 DEF RunInv, RunTypeOK
  <2>3. \A x \in {"plan", "reserve"} : Passed(r, x)' <=> Passed(r, x)
    BY <1>1, <1>3
  <2> QED
    BY <1>2, <1>3, <2>2, <2>3 DEF RunInv, RunTypeOK, ownVars
<1>6. AtWork(r)' /\ ScriptAtWork(r)'
  <2>1. ~Passed(r, "claim")'
    BY <1>1, <1>3, <1>4 DEF ServerSteps
  <2>2. s = "enter_planned" => ~Passed(r, "reserve")
    BY <1>1, KindOfStep, Kinds DEF RunInv
  <2>3. ~Reserved(r)'
    BY <1>1, <1>3, <2>2 DEF Reserved
  <2> QED
    BY <2>1, <2>3 DEF AtWork, Holding, ScriptAtWork
<1>7. Written(r)'
  <2>1. \A w \in BOOLEAN : Entry(r, w)' = Entry(r, w)
    BY <1>2 DEF Entry, KeyUsed, ownVars
  <2>2. \A x \in {"create", "fill", "commit"} : Passed(r, x)' <=> Passed(r, x)
    BY <1>1, <1>3
  <2> QED
    BY <1>2, <1>3, <2>1, <2>2 DEF RunInv, Written
<1>8. Counted(r)'
  <2>1. \E c : Mine(r)' = Mine(r) \cup {c} /\ c \notin Mine(r)
    <3>1. CASE Enter(r)
      BY <3>1, CommittedByScript DEF Mine
    <3>2. CASE EnterPlanned(r)
      BY <3>2, CommittedUnplanned DEF Mine
    <3> QED
      BY <3>1, <3>2
  <2>2. IsFiniteSet(Mine(r)) /\ Cardinality(Mine(r)) = turn[r] /\ turn[r] = 0
    BY <1>3, <1>4 DEF RunInv, Counted, ProgTypeOK
  <2>3. IsFiniteSet(Mine(r)') /\ Cardinality(Mine(r)') = turn[r] + 1
    BY <2>1, <2>2, FS_AddElement
  <2>4. Done(r)' /\ state'[r] # "idle"
    BY <1>1, <1>3 DEF Done, Running
  <2>5. ~Passed(r, "loop")' /\ ~Passed(r, "again")'
    BY <1>1, <1>3, <1>4 DEF ServerSteps
  <2>6. turn'[r] <= asked'[r]
    BY <1>2, <1>3 DEF RunInv, Counted
  <2> QED
    BY <1>2, <2>2, <2>3, <2>4, <2>5, <2>6 DEF Counted
<1> QED
  BY <1>5, <1>6, <1>7, <1>8 DEF RunInv

LEMMA OwnKept ==
    ASSUME ProgTypeOK, CoreInv, CoreInv', NEW r \in Handler, RunInv(r), Step(r) \/ Kill(r)
    PROVE  RunInv(r)'
<1>1. CASE Launch(r) \/ Loop(r) \/ Again(r) \/ Claim(r)
  BY <1>1, LaunchKeeps, LoopKeeps, ClaimKeeps
<1>2. CASE Swallow(r) \/ Record(r) \/ CommitStep(r) \/ CloseStep(r) \/ Enter(r) \/ EnterPlanned(r)
  BY <1>2, SwallowKeeps, RecordKeeps, CommitKeeps, CloseKeeps, EnterKeeps
<1>3. CASE \/ Throw(r) \/ ClaimFails(r) \/ RecordFails(r) \/ EnterFails(r)
           \/ Finish(r) \/ End(r) \/ Kill(r)
  BY <1>3, EndingsKeep
<1>4. CASE Parse(r) \/ Connect(r) \/ Load(r) \/ Write(r) \/ Create(r) \/ Fill(r)
  <2>1. CASE GoOn(r)
    BY <1>4, <2>1, PlainStepsKeep
  <2>2. CASE ~GoOn(r)
    <3>1. (Parse(r) \/ Write(r) \/ Create(r)) /\ Fail(r)
      BY <1>4, <2>2 DEF Parse, Connect, Load, Write, Create, Fill
    <3> QED
      BY <3>1, EndingsKeep
  <2> QED
    BY <2>1, <2>2
<1>5. CASE Reserve(r) \/ PlanKey(r)
  <2>1. CASE GoOn(r)
    BY <1>5, <2>1, ScriptStartKeeps
  <2>2. CASE ~GoOn(r)
    <3>1. Reserve(r) /\ Fail(r)
      BY <1>5, <2>2 DEF Reserve, PlanKey
    <3> QED
      BY <3>1, EndingsKeep
  <2> QED
    BY <2>1, <2>2
<1> QED
  BY <1>1, <1>2, <1>3, <1>4, <1>5 DEF Step

-----------------------------------------------------------------------------
(* What is in the files                                                       *)

\* The entries of a run are its own.  For Iden a file is only made where none
\* is, and filled by who made it.
LEMMA NewEntries ==
    ASSUME ProgTypeOK, CoreInv, NEW r \in Handler, RunInv(r), Step(r) \/ Kill(r),
           NEW c \in content', c \notin content
    PROVE  /\ c.by = r /\ c.dir = dir[r] /\ c.out = Main[prog[r]].out /\ c.nth = nth[r]
           /\ c.out = "iden.h5" => SameFile(r) = {} \/ Entry(r, FALSE) \in content
<1>1. Write(r) \/ Create(r) \/ Fill(r)
  BY DEF Step, Launch, Reserve, PlanKey, Parse, Connect, Load, Throw, Loop, Again, Claim,
         ClaimFails, Swallow, Record, RecordFails, CommitStep, CloseStep, Enter, EnterPlanned,
         EnterFails, Finish, End, Kill
<1>2. \E w \in BOOLEAN : c = Entry(r, w)
  BY <1>1 DEF Write, Create, Fill
<1>3. c.by = r /\ c.dir = dir[r] /\ c.out = Main[prog[r]].out /\ c.nth = nth[r]
  BY <1>2 DEF Entry
<1>4. ASSUME c.out = "iden.h5" PROVE SameFile(r) = {} \/ Entry(r, FALSE) \in content
  <2>1. prog[r] \in ByScript
    BY <1>3, <1>4, ItsProgram DEF WellMade, Described
  <2>2. CASE Write(r)
    BY <2>1, <2>2, KindOfStep DEF Write, RunInv, ServerSteps
  <2>3. CASE Create(r)
    BY <2>3 DEF Create
  <2>4. CASE Fill(r)
    <3>1. Running(r) /\ Passed(r, "create") /\ ~Passed(r, "fill")
      BY <2>1, <2>4, AtFill, AtStep DEF Fill, RunInv
    <3> QED
      BY <3>1 DEF RunInv, Written
  <2> QED
    BY <1>1, <2>2, <2>3, <2>4
<1> QED
  BY <1>3, <1>4

LEMMA OneMakerKept ==
    ASSUME ProgTypeOK, CoreInv, NEW r \in Handler, RunInv(r), Step(r) \/ Kill(r), OneMaker
    PROVE  OneMaker'
<1>1. ASSUME NEW c \in content', NEW d \in content', c \notin content, d \in content,
             c.out = "iden.h5", d.out = "iden.h5", c.dir = d.dir, c.nth = d.nth
      PROVE  c.by = d.by
  <2>1. /\ c.by = r /\ c.dir = dir[r] /\ c.out = Main[prog[r]].out /\ c.nth = nth[r]
        /\ SameFile(r) = {} \/ Entry(r, FALSE) \in content
    BY <1>1, NewEntries
  <2>2. d \in SameFile(r)
    BY <1>1, <2>1 DEF SameFile
  <2>3. Entry(r, FALSE) \in content
    BY <2>1, <2>2
  <2>4. /\ Entry(r, FALSE).dir = d.dir /\ Entry(r, FALSE).nth = d.nth
        /\ Entry(r, FALSE).out = "iden.h5" /\ Entry(r, FALSE).by = r
    BY <1>1, <2>1 DEF Entry
  <2> QED
    BY <1>1, <2>1, <2>3, <2>4 DEF OneMaker
<1>2. ASSUME NEW c \in content', NEW d \in content', c \notin content, d \notin content
      PROVE  c.by = d.by
  BY <1>2, NewEntries
<1>3. ASSUME NEW c \in content', NEW d \in content',
             c.out = "iden.h5", d.out = "iden.h5", c.dir = d.dir, c.nth = d.nth
      PROVE  c.by = d.by
  <2>1. CASE c \in content /\ d \in content
    BY <1>3, <2>1 DEF OneMaker
  <2>2. CASE c \notin content /\ d \in content
    BY <1>1, <1>3, <2>2
  <2>3. CASE c \in content /\ d \notin content
    BY <1>1, <1>3, <2>3
  <2>4. CASE c \notin content /\ d \notin content
    BY <1>2, <2>4
  <2> QED
    BY <2>1, <2>2, <2>3, <2>4
<1> QED
  BY <1>3 DEF OneMaker

-----------------------------------------------------------------------------
(* What is in the tables                                                      *)

\* Rows are committed in three ways only.
LEMMA SavedChanges ==
    ASSUME NEW r \in Handler, Step(r) \/ Kill(r)
    PROVE  saved' = saved \/ CommitStep(r) \/ Enter(r) \/ EnterPlanned(r)
BY DEF Step, Launch, Reserve, PlanKey, Parse, Connect, Load, Throw, Loop, Again, Claim,
       ClaimFails, Write, Create, Fill, Swallow, Record, RecordFails, CloseStep,
       EnterFails, Finish, End, Kill, Open, StartComp, StartCompRefused, AddMdata,
       AddMdataRefused, AddMdataLeaks, Rollback, Close, Exit, Discard, DiscardAll, sqlVars,
       dbVars

\* Behind its start the script of Iden changes neither key nor number.
LEMMA ScriptGoesOn ==
    ASSUME ProgTypeOK, CoreInv, NEW r \in Handler, RunInv(r), Step(r) \/ Kill(r),
           prog[r] \in ByScript, state[r] # "idle",
           Running(r) => Passed(r, "enter") \/ Passed(r, "enter_planned")
    PROVE  /\ planned'[r] = planned[r] /\ nth'[r] = nth[r] /\ state'[r] # "idle"
           /\ Running(r)' => Passed(r, "enter")' \/ Passed(r, "enter_planned")'
<1>1. ~Launch(r) /\ ~Reserve(r) /\ ~PlanKey(r)
  BY AtScriptStart, AtStep DEF Launch, Reserve, PlanKey, RunInv
<1>2. ~Loop(r) /\ ~Again(r) /\ ~Swallow(r)
  BY KindOfStep DEF Loop, Again, Swallow, RunInv, ServerSteps, ByScript
<1>3. /\ planned' = planned /\ nth' = nth /\ prog' = prog
      /\ \/ \E s : At(r, s) /\ GoOn(r)
         \/ state'[r] \in {"failing", "zero", "nonzero"}
  <2>1. Fail(r) => state'[r] = "failing"
    BY DEF Fail, ProgTypeOK
  <2>2. CASE Finish(r) \/ End(r) \/ Kill(r)
    BY <2>2 DEF Finish, End, Kill, ProgTypeOK
  <2>3. CASE \/ Parse(r) \/ Connect(r) \/ Load(r) \/ Throw(r) \/ Claim(r) \/ ClaimFails(r)
             \/ Write(r) \/ Create(r) \/ Fill(r) \/ Record(r) \/ RecordFails(r)
             \/ CommitStep(r) \/ CloseStep(r) \/ Enter(r) \/ EnterPlanned(r) \/ EnterFails(r)
    BY <2>1, <2>3 DEF Parse, Connect, Load, Throw, Claim, ClaimFails, Write, Create, Fill,
          Record, RecordFails, CommitStep, CloseStep, Enter, EnterPlanned, EnterFails
  <2> QED
    BY <1>1, <1>2, <2>2, <2>3 DEF Step
<1>4. CASE \E s : At(r, s) /\ GoOn(r)
  <2>1. PICK s : At(r, s) /\ GoOn(r)
    BY <1>4
  <2>2. Running(r) /\ Running(r)' /\ \A x : Passed(r, x)' <=> Passed(r, x) \/ x = s
    BY <1>3, <2>1, GoingOn, AtStep DEF RunInv
  <2> QED
    BY <1>3, <2>2 DEF Running
<1>5. CASE state'[r] \in {"failing", "zero", "nonzero"}
  BY <1>3, <1>5 DEF Running
<1> QED
  BY <1>3, <1>4, <1>5

\* A row of iden keeps its script and its results.
LEMMA EnteredStays ==
    ASSUME ProgTypeOK, CoreInv, NEW r \in Handler, RunInv(r), Step(r) \/ Kill(r), Entered,
           NEW m \in saved.meta, m.func = "iden"
    PROVE  /\ prog'[m.by] \in ByScript /\ m = ScriptRow(m.by)'
           /\ Entry(m.by, TRUE)' \in content'
           /\ state'[m.by] # "idle"
           /\ Running(m.by)' => Passed(m.by, "enter")' \/ Passed(m.by, "enter_planned")'
<1> DEFINE g == m.by
<1>1. /\ g \in Handler /\ prog[g] \in ByScript /\ m = ScriptRow(g)
      /\ Entry(g, TRUE) \in content /\ state[g] # "idle"
      /\ Running(g) => Passed(g, "enter") \/ Passed(g, "enter_planned")
  BY DEF Entered, CoreInv, SqlTypeOK, Rows, Row
<1>2. Aside(r) /\ prog' = prog /\ dir' = dir
  BY StandsAside DEF Aside
<1>3. /\ planned'[g] = planned[g] /\ nth'[g] = nth[g] /\ state'[g] # "idle"
      /\ Running(g)' => Passed(g, "enter")' \/ Passed(g, "enter_planned")'
  <2>1. CASE g = r
    BY <1>1, <2>1, ScriptGoesOn
  <2>2. CASE g # r
    <3>1. /\ planned'[g] = planned[g] /\ nth'[g] = nth[g]
          /\ state'[g] = state[g] /\ place'[g] = place[g]
      BY <1>1, <1>2, <2>2 DEF Aside
    <3>2. /\ \A x : Passed(g, x)' <=> Passed(g, x)
          /\ Running(g)' <=> Running(g)
      BY <1>2, <3>1 DEF Passed, Steps, Running
    <3> QED
      BY <1>1, <3>1, <3>2
  <2> QED
    BY <2>1, <2>2
<1>4. Entry(g, TRUE)' = Entry(g, TRUE) /\ ScriptRow(g)' = ScriptRow(g)
  BY <1>1, <1>2, <1>3 DEF Entry, KeyUsed, ScriptRow
<1>5. Entry(g, TRUE) \in content'
  BY <1>1, <1>2 DEF Aside, Entry
<1> QED
  BY <1>1, <1>2, <1>3, <1>4, <1>5

\* What a script has entered, its program has written.
LEMMA EnteredBehind ==
    ASSUME ProgTypeOK, CoreInv, NEW r \in Handler, RunInv(r), Enter(r) \/ EnterPlanned(r)
    PROVE  /\ prog'[r] \in ByScript /\ ScriptRow(r)' = ScriptRow(r)
           /\ KeyUsed(r) = planned[r] /\ prog' = prog /\ content' = content
           /\ Entry(r, TRUE) \in content /\ Entry(r, TRUE)' = Entry(r, TRUE)
           /\ state'[r] # "idle"
           /\ Passed(r, "enter")' \/ Passed(r, "enter_planned")'
<1>1. PICK s \in {"enter", "enter_planned"} : At(r, s)
  BY DEF Enter, EnterPlanned
<1>2. /\ GoOn(r) /\ prog' = prog /\ dir' = dir /\ nth' = nth /\ planned' = planned
      /\ content' = content /\ compKey' = compKey
  BY DEF Enter, EnterPlanned, ownVars
<1>3. prog[r] \in ByScript
  BY <1>1, KindOfStep DEF RunInv, ScriptSteps
<1>4. Passed(r, "fill") /\ ~Passed(r, "commit") /\ Running(r)
  BY <1>1, <1>3, AtEnter, AtStep, Kinds DEF RunInv, ServerSteps
<1>5. Entry(r, TRUE) \in content
  BY <1>3, <1>4 DEF RunInv, Written, ByScript
<1>6. Running(r)' /\ Passed(r, s)'
  BY <1>1, <1>2, GoingOn DEF RunInv
<1> QED
  BY <1>1, <1>2, <1>3, <1>5, <1>6 DEF Entry, KeyUsed, ScriptRow, Running

LEMMA EnteredKept ==
    ASSUME ProgTypeOK, CoreInv, NEW r \in Handler, RunInv(r), Step(r) \/ Kill(r), Entered
    PROVE  Entered'
<1> SUFFICES ASSUME NEW m \in saved'.meta, m.func = "iden"
             PROVE  /\ prog'[m.by] \in ByScript /\ m = ScriptRow(m.by)'
                    /\ Entry(m.by, TRUE)' \in content'
                    /\ state'[m.by] # "idle"
                    /\ Running(m.by)' => \/ Passed(m.by, "enter")'
                                         \/ Passed(m.by, "enter_planned")'
  BY DEF Entered
<1>1. CASE m \in saved.meta
  BY <1>1, EnteredStays
<1>2. CASE m \notin saved.meta
  <2>1. CommitStep(r) \/ Enter(r) \/ EnterPlanned(r)
    BY <1>2, SavedChanges
  <2>2. ~CommitStep(r)
    BY <1>2, Committed
  <2>3. m = ScriptRow(r) /\ ScriptRow(r).by = r
    BY <1>2, <2>1, <2>2, CommittedByScript, CommittedUnplanned
  <2> QED
    BY <2>1, <2>2, <2>3, EnteredBehind
<1> QED
  BY <1>1, <1>2

\* The results of a row stay, those of a new one are there.
LEMMA WholeKept ==
    ASSUME ProgTypeOK, CoreInv, NEW r \in Handler, RunInv(r), Step(r) \/ Kill(r),
           RecordedIsWhole
    PROVE  RecordedIsWhole'
<1>1. Aside(r) /\ prog' = prog
  BY StandsAside DEF Aside
<1>2. ASSUME NEW m \in saved.meta, prog[m.by] # "phi6"
      PROVE  \E c \in content' : c.by = m.by /\ c.key = m.key /\ c.whole
  BY <1>1, <1>2 DEF RecordedIsWhole, Aside
<1>3. CASE saved' = saved
  BY <1>1, <1>2, <1>3 DEF RecordedIsWhole
<1>4. CASE CommitStep(r)
  <2>1. /\ saved'.comps = saved.comps \cup {MetaRow(r)}
        /\ saved'.meta = saved.meta \cup {MetaRow(r)}
        /\ MetaRow(r).by = r /\ MetaRow(r).key = compKey[r] /\ KeyUsed(r) = compKey[r]
    BY <1>4, Committed
  <2>2. prog[r] # "phi6" => Entry(r, TRUE) \in content'
    BY <1>4, AtCommit, AtStep DEF CommitStep, RunInv, Written
  <2>3. Entry(r, TRUE).by = r /\ Entry(r, TRUE).key = compKey[r] /\ Entry(r, TRUE).whole
    BY <2>1 DEF Entry
  <2>4. \A m \in saved'.meta : prog'[m.by] # "phi6" =>
            \E c \in content' : c.by = m.by /\ c.key = m.key /\ c.whole
    BY <1>1, <1>2, <2>1, <2>2, <2>3
  <2>5. {c \in saved'.comps : prog'[c.by] # "Iden_avg"} =
        {m \in saved'.meta : prog'[m.by] # "Iden_avg"}
    BY <1>1, <2>1 DEF RecordedIsWhole
  <2> QED
    BY <2>4, <2>5 DEF RecordedIsWhole
<1>5. CASE Enter(r) \/ EnterPlanned(r)
  <2>1. /\ saved'.meta = saved.meta \cup {ScriptRow(r)} /\ ScriptRow(r).by = r
        /\ ScriptRow(r).key = planned[r]
    BY <1>5, CommittedByScript, CommittedUnplanned DEF ScriptRow
  <2>2. Entry(r, TRUE) \in content' /\ KeyUsed(r) = planned[r]
    BY <1>5, EnteredBehind
  <2>3. Entry(r, TRUE).by = r /\ Entry(r, TRUE).key = planned[r] /\ Entry(r, TRUE).whole
    BY <2>2 DEF Entry
  <2>4. \A m \in saved'.meta : prog'[m.by] # "phi6" =>
            \E c \in content' : c.by = m.by /\ c.key = m.key /\ c.whole
    BY <1>1, <1>2, <2>1, <2>2, <2>3
  <2>5. {c \in saved'.comps : prog'[c.by] # "Iden_avg"} =
        {m \in saved'.meta : prog'[m.by] # "Iden_avg"}
    <3>1. CASE Enter(r)
      <4>1. /\ saved'.comps = saved.comps \cup {ScriptRow(r)}
            /\ saved'.meta = saved.meta \cup {ScriptRow(r)}
        BY <3>1, CommittedByScript
      <4> QED
        BY <1>1, <4>1 DEF RecordedIsWhole
    <3>2. CASE EnterPlanned(r)
      <4>1. /\ prog[r] = "Iden_avg"
            /\ saved'.comps = saved.comps \cup {NewRow(r, "iden")}
            /\ saved'.meta = saved.meta \cup {ScriptRow(r)}
            /\ NewRow(r, "iden").by = r /\ ScriptRow(r).by = r
        BY <3>2, CommittedUnplanned
      <4> QED
        BY <1>1, <4>1 DEF RecordedIsWhole
    <3> QED
      BY <1>5, <3>1, <3>2
  <2> QED
    BY <2>4, <2>5 DEF RecordedIsWhole
<1> QED
  BY <1>3, <1>4, <1>5, SavedChanges

\* A statement is only left behind by a row with a column too few.
LEMMA BoundKept ==
    ASSUME ProgTypeOK, CoreInv, NEW r \in Handler, RunInv(r), Step(r) \/ Kill(r),
           NothingUnbound
    PROVE  NothingUnbound'
<1>1. \A g \in Handler \ {r} : ~leaked'[g]
  BY StandsAside DEF Aside, NothingUnbound
<1>2. ~leaked'[r]
  <2>1. leaked \in [Handler -> BOOLEAN] /\ ~leaked[r]
    BY DEF NothingUnbound, CoreInv, SqlTypeOK
  <2>2. CASE RecordFails(r)
    BY <2>1, <2>2, AtRecord DEF RecordFails, AddMdataRefused, Rollback, RunInv
  <2>3. CASE Finish(r) \/ End(r) \/ Kill(r)
    BY <2>1, <2>3 DEF Finish, End, Kill, Exit, Fresh
  <2>4. CASE \/ Connect(r) \/ Claim(r) \/ ClaimFails(r) \/ Record(r) \/ CommitStep(r)
             \/ CloseStep(r)
    BY <2>1, <2>4 DEF Connect, Claim, ClaimFails, Record, CommitStep, CloseStep, Open,
          StartComp, StartCompRefused, AddMdata, Commit, Close, sqlVars, ownVars
  <2>5. CASE \/ Launch(r) \/ Reserve(r) \/ PlanKey(r) \/ Parse(r) \/ Load(r) \/ Throw(r)
             \/ Loop(r) \/ Again(r) \/ Write(r) \/ Create(r) \/ Fill(r) \/ Swallow(r)
             \/ Enter(r) \/ EnterPlanned(r) \/ EnterFails(r)
    BY <2>1, <2>5 DEF Launch, Reserve, PlanKey, Parse, Load, Throw, Loop, Again, Write, Create,
          Fill, Swallow, Enter, EnterPlanned, EnterFails, sqlVars, ownVars
  <2> QED
    BY <2>2, <2>3, <2>4, <2>5 DEF Step
<1> QED
  BY <1>1, <1>2 DEF NothingUnbound

\* A program that has its steps behind it has done what it was asked for.
LEMMA FinishedIsCounted ==
    ASSUME ProgTypeOK, NEW r \in Handler, RunInv(r), Running(r), place[r] > Len(Steps(r)),
           prog[r] \notin {"vanHove", "gofr3D", "link3D"}
    PROVE  Cardinality(Mine(r)) = asked[r]
<1> DEFINE S == Steps(r)
<1>1. Numbered(S) /\ LoopOrder(prog[r], S) /\ Ends(prog[r], S) /\ place[r] \in Nat
  BY ItsProgram DEF WellMade, Steps, ProgTypeOK
<1>2. \A i \in DOMAIN S : Passed(r, S[i])
  <2> SUFFICES ASSUME NEW i \in DOMAIN S PROVE Passed(r, S[i])
    OBVIOUS
  <2>1. i < place[r]
    <3> HIDE DEF S
    <3>1. place[r] > Len(S)
      BY DEF S
    <3> QED
      BY <1>1, <3>1 DEF Numbered
  <2> QED
    BY <2>1 DEF Passed
<1>3. CASE prog[r] \in Sweeps
  <2>1. 10 \in DOMAIN S /\ S[10] = "again"
    <3> HIDE DEF S
    <3> QED
      BY <1>1, <1>3 DEF LoopOrder, Numbered
  <2>2. Passed(r, "again")
    BY <1>2, <2>1
  <2> QED
    BY <2>2 DEF RunInv, Counted, ProgTypeOK
<1>4. CASE prog[r] \notin Sweeps
  <2>1. Done(r)
    BY <1>1, <1>2 DEF Ends, Done
  <2>2. ~Passed(r, "again")
    BY <1>4, Kinds
  <2> QED
    BY <1>4, <2>1, <2>2 DEF RunInv, Counted, RunTypeOK
<1> QED
  BY <1>3, <1>4

LEMMA ZeroKept ==
    ASSUME ProgTypeOK, CoreInv, NEW r \in Handler, RunInv(r), Step(r) \/ Kill(r),
           ZeroMeansRecorded
    PROVE  ZeroMeansRecorded'
<1>1. Aside(r) /\ prog' = prog /\ asked' = asked
  BY StandsAside DEF Aside
<1>2. ASSUME NEW g \in Handler, g # r, state'[g] = "zero",
             prog'[g] \notin {"vanHove", "gofr3D", "link3D"}
      PROVE  Cardinality(Mine(g)') = asked'[g]
  <2>1. state[g] = "zero" /\ Mine(g)' = Mine(g)
    BY <1>1, <1>2 DEF Aside
  <2> QED
    BY <1>1, <1>2, <2>1 DEF ZeroMeansRecorded, Mine
<1>3. ASSUME state'[r] = "zero", prog'[r] \notin {"vanHove", "gofr3D", "link3D"}
      PROVE  Cardinality(Mine(r)') = asked'[r]
  <2>1. state[r] # "zero"
    BY DEF Step, Launch, Reserve, PlanKey, Parse, Connect, Load, Throw, Loop, Again, Claim,
           ClaimFails, Write, Create, Fill, Swallow, Record, RecordFails, CommitStep, CloseStep,
           Enter, EnterPlanned, EnterFails, Finish, End, Kill, At
  <2>2. ~GoOn(r) /\ ~Fail(r) /\ ~(state' = state)
    BY <1>3, <2>1 DEF GoOn, JumpTo, Fail, ProgTypeOK
  <2>3. Finish(r)
    BY <1>3, <2>2
       DEF Step, Launch, Reserve, PlanKey, Parse, Connect, Load, Throw, Loop, Again, Claim,
           ClaimFails, Write, Create, Fill, Swallow, Record, RecordFails, CommitStep, CloseStep,
           Enter, EnterPlanned, EnterFails, End, Kill, JumpTo, ProgTypeOK
  <2>4. Running(r) /\ place[r] > Len(Steps(r)) /\ Mine(r)' = Mine(r)
    BY <2>3 DEF Finish, Running, Exit, DiscardAll, Mine
  <2> QED
    BY <1>1, <1>3, <2>4, FinishedIsCounted
<1> QED
  BY <1>2, <1>3 DEF ZeroMeansRecorded, Mine

-----------------------------------------------------------------------------
(* The invariant holds                                                        *)

LEMMA ProgStep == ProgInv /\ [ProgNext]_progsVars => ProgInv'
<1>1. ASSUME ProgInv, NEW r \in Handler, Step(r) \/ Kill(r) PROVE ProgInv'
  <2>1. ProgTypeOK /\ CoreInv /\ \A g \in Handler : RunInv(g)
    BY <1>1 DEF ProgInv
  <2>2. ProgTypeOK'
    BY <1>1, <2>1, TypesKept DEF RunInv
  <2>3. CoreInv'
    BY <1>1, <2>1, CoreKept
  <2>4. RunInv(r)'
    BY <1>1, <2>1, <2>3, OwnKept
  <2>5. Aside(r)
    BY <1>1, <2>1, StandsAside
  <2>6. \A g \in Handler \ {r} : RunInv(g)'
    BY <2>1, <2>3, <2>5, OthersKeep
  <2>7. OneMaker' /\ Entered'
    BY <1>1, <2>1, OneMakerKept, EnteredKept DEF ProgInv
  <2>8. RecordedIsWhole' /\ NothingUnbound' /\ ZeroMeansRecorded'
    BY <1>1, <2>1, WholeKept, BoundKept, ZeroKept DEF ProgInv
  <2> QED
    BY <2>2, <2>3, <2>4, <2>6, <2>7, <2>8 DEF ProgInv
<1>2. ASSUME ProgInv, UNCHANGED progsVars PROVE ProgInv'
  <2>1. UNCHANGED sqlVars /\ UNCHANGED progVars
    BY <1>2 DEF progsVars
  <2>2. CoreInv'
    BY <1>2, <2>1, CoreStep DEF ProgInv
  <2>3. ProgTypeOK'
    BY <1>2, <2>1 DEF ProgInv, ProgTypeOK, progVars
  <2>4. ASSUME NEW r \in Handler PROVE RunInv(r)'
    <3>1. /\ \A x : Passed(r, x)' <=> Passed(r, x)
          /\ Running(r)' <=> Running(r)
      BY <2>1 DEF Passed, Steps, Running, progVars
    <3>2. (Claims(r)' <=> Claims(r)) /\ MetaRow(r)' = MetaRow(r) /\ Mine(r)' = Mine(r)
          /\ WithComp(r, "iden")' = WithComp(r, "iden")
          /\ \A w \in BOOLEAN : Entry(r, w)' = Entry(r, w)
      BY <2>1 DEF sqlVars, dbVars, ownVars, progVars, Claims, MetaRow, Mine, WithComp, NewRow,
                  Entry, KeyUsed
    <3>3. RunInv(r)
      BY <1>2 DEF ProgInv
    <3>4. RunTypeOK(r)' /\ AtWork(r)' /\ ScriptAtWork(r)'
      BY <2>1, <3>1, <3>2, <3>3
         DEF RunInv, RunTypeOK, AtWork, Holding, ScriptAtWork, Reserved, sqlVars, dbVars,
             ownVars, progVars
    <3>5. Written(r)' /\ Counted(r)'
      BY <2>1, <3>1, <3>2, <3>3 DEF RunInv, Written, Counted, Done, progVars
    <3> QED
      BY <3>4, <3>5 DEF RunInv
  <2>5. OneMaker' /\ RecordedIsWhole' /\ NothingUnbound' /\ ZeroMeansRecorded'
    BY <1>2, <2>1 DEF ProgInv, OneMaker, RecordedIsWhole, NothingUnbound, ZeroMeansRecorded,
         sqlVars, dbVars, ownVars, progVars
  <2>6. Entered'
    BY <1>2, <2>1 DEF ProgInv, Entered, ScriptRow, Entry, KeyUsed, Running, Passed, Steps,
         sqlVars, dbVars, ownVars, progVars
  <2> QED
    BY <2>2, <2>3, <2>4, <2>5, <2>6 DEF ProgInv
<1> QED
  BY <1>1, <1>2 DEF ProgNext

LEMMA ProgStart == ProgInit => ProgInv
<1> SUFFICES ASSUME ProgInit PROVE ProgInv
  OBVIOUS
<1>1. CoreInv
  BY ClaimInit DEF ProgInit, ClaimInv
<1>2. ProgTypeOK
  BY ProgramsAssumption DEF ProgInit, ProgTypeOK, States
<1>3. /\ saved.comps = {} /\ saved.meta = {} /\ saved.seq = 0
      /\ \A r \in Handler : ~connOpen[r] /\ ~leaked[r]
  BY DEF ProgInit, SqlInit, Empty
<1>4. ASSUME NEW r \in Handler PROVE RunInv(r)
  <2>1. ~Running(r) /\ state[r] = "idle" /\ turn[r] = 0 /\ planned[r] = 0
    BY DEF ProgInit, Running
  <2>2. RunTypeOK(r)
    BY <1>3, <2>1 DEF RunTypeOK, ProgInit
  <2>3. Counted(r)
    <3>1. Mine(r) = {}
      BY <1>3 DEF Mine
    <3> QED
      BY <2>1, <3>1, FS_EmptySet DEF Counted
  <2> QED
    BY <2>1, <2>2, <2>3 DEF RunInv, AtWork, ScriptAtWork, Written
<1>5. OneMaker /\ Entered /\ RecordedIsWhole /\ NothingUnbound
  BY <1>3 DEF OneMaker, Entered, RecordedIsWhole, NothingUnbound, ProgInit
<1>6. ZeroMeansRecorded
  BY DEF ZeroMeansRecorded, ProgInit
<1> QED
  BY <1>1, <1>2, <1>4, <1>5, <1>6 DEF ProgInv

LEMMA ProgInvAlways == ProgSpec => []ProgInv
<1>1. ProgInit => ProgInv
  BY ProgStart
<1>2. ProgInv /\ [ProgNext]_progsVars => ProgInv'
  BY ProgStep
<1> QED
  BY <1>1, <1>2, PTL DEF ProgSpec

\* However many runs of whichever programs share the data base: a committed row
\* has its whole results in its file under its key (phi6 apart), and the row of a
\* computation and that of its parameters are committed together.
THEOREM CommittedResultsAreWhole == ProgSpec => []RecordedIsWhole
<1>1. ProgInv => RecordedIsWhole
  BY DEF ProgInv
<1> QED
  BY <1>1, ProgInvAlways, PTL

\* A program that returns zero has committed as many computations as it was
\* asked for, whatever failed, was refused or was killed beside it.
THEOREM ZeroIsRecorded == ProgSpec => []ZeroMeansRecorded
<1>1. ProgInv => ZeroMeansRecorded
  BY DEF ProgInv
<1> QED
  BY <1>1, ProgInvAlways, PTL

\* What the scripts give and the programs add has every key their insert
\* statements bind: no program leaves a statement behind.
THEOREM NoStatementIsLeft == ProgSpec => []NothingUnbound
<1>1. ProgInv => NothingUnbound
  BY DEF ProgInv
<1> QED
  BY <1>1, ProgInvAlways, PTL

\* Two runs of Iden never share a file, although they number their files before
\* either has entered its row: H5F_ACC_EXCL lets one of them make it.
THEOREM IdenFilesDiffer == ProgSpec => []OneFilePerIden
<1>1. ASSUME ProgInv PROVE OneFilePerIden
  <2> SUFFICES ASSUME NEW m \in saved.meta, NEW n \in saved.meta,
                      m.func = "iden", n.func = "iden", dir[m.by] = dir[n.by],
                      nth[m.by] = nth[n.by]
               PROVE  m = n
    BY DEF OneFilePerIden
  <2>1. /\ m = ScriptRow(m.by) /\ n = ScriptRow(n.by)
        /\ Entry(m.by, TRUE) \in content /\ Entry(n.by, TRUE) \in content
        /\ prog[m.by] \in ByScript /\ prog[n.by] \in ByScript
        /\ m.by \in Handler /\ n.by \in Handler
    BY <1>1 DEF ProgInv, Entered, CoreInv, SqlTypeOK, Rows, Row
  <2>2. Main[prog[m.by]].out = "iden.h5" /\ Main[prog[n.by]].out = "iden.h5"
    BY <1>1, <2>1, ItsProgram DEF ProgInv, WellMade, Described
  <2>3. /\ Entry(m.by, TRUE).out = "iden.h5" /\ Entry(n.by, TRUE).out = "iden.h5"
        /\ Entry(m.by, TRUE).dir = Entry(n.by, TRUE).dir
        /\ Entry(m.by, TRUE).nth = Entry(n.by, TRUE).nth
        /\ Entry(m.by, TRUE).by = m.by /\ Entry(n.by, TRUE).by = n.by
    BY <2>2 DEF Entry
  <2>4. m.by = n.by
    BY <1>1, <2>1, <2>3 DEF ProgInv, OneMaker
  <2> QED
    BY <2>1, <2>4
<1> QED
  BY <1>1, ProgInvAlways, PTL

=============================================================================
