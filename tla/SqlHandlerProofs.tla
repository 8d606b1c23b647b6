-------------------------- MODULE SqlHandlerProofs --------------------------
(* Proofs about SqlHandler, for any number of programs and any tables.        *)
(*                                                                            *)
(* The invariants the runs check are not inductive.  ClaimInv adds what makes *)
(* them so: the keys of a set of rows are not above its counter, and the      *)
(* claimed row is in the open transaction under the key after the last        *)
(* committed one.  A step of one handler cannot disturb the claim of another, *)
(* since that one holds the lock and the step would need it.                  *)
EXTENDS SqlHandler, TLAPS

-----------------------------------------------------------------------------
(* Types and the lock's connection, for handlers used in any order            *)

LockInv == SqlTypeOK /\ LockHasConnection

\* Discarding a transaction keeps the types of the data base.
LEMMA DiscardTypes ==
    ASSUME NEW h \in Handler, SqlTypeOK, Discard(h) \/ DiscardAll(h)
    PROVE  /\ saved' = saved /\ saved' \in Rows /\ work' \in Rows
           /\ holder' \in {holder, NONE} /\ holder' # h
           /\ holder' = NONE => work' = saved'
<1> DEFINE Others == Handler \cup {NONE} \cup {Old(g) : g \in Reopeners}
<1>1. holder \in Others /\ NONE \in Others /\ h # NONE
  BY FuncAssumption DEF SqlTypeOK
<1>2. saved \in Rows /\ work \in Rows /\ (holder = NONE => work = saved)
  BY DEF SqlTypeOK
<1> HIDE DEF Others
<1> QED
  BY <1>1, <1>2 DEF Discard, DiscardAll

\* A handler that is never opened over its connection has only one to lose.
LEMMA ExitIs ==
    ASSUME SqlTypeOK, Reopeners = {}, NEW h \in Handler, Exit(h)
    PROVE  Discard(h) /\ Fresh(h)
<1>1. holder # Old(h)
  BY FuncAssumption DEF SqlTypeOK
<1> QED
  BY <1>1 DEF Exit, Discard, DiscardAll

\* The rows that start_comp and add_mdata make have the type of a row.
LEMMA RowTypes ==
    ASSUME NEW h \in Handler, SqlTypeOK
    PROVE  /\ \A f \in Func : saved.seq < MaxKey => WithComp(h, f) \in Rows
           /\ \A rows \in Rows :
                 Accepts(rows, h) => [rows EXCEPT !.meta = @ \cup {MetaRow(h)}] \in Rows
<1> USE DEF SqlTypeOK
<1>1. ASSUME NEW f \in Func, saved.seq < MaxKey
      PROVE  WithComp(h, f) \in Rows
  <2>1. saved.seq + 1 \in 1 .. MaxKey /\ saved.seq + 1 \in 0 .. MaxKey
    BY <1>1, BoundAssumption DEF Rows
  <2>2. NewRow(h, f) \in Row
    BY <2>1, <1>1, FuncAssumption DEF NewRow, Row
  <2> QED
    BY <2>1, <2>2 DEF WithComp, Rows
<1>2. ASSUME NEW rows \in Rows, Accepts(rows, h)
      PROVE  [rows EXCEPT !.meta = @ \cup {MetaRow(h)}] \in Rows
  <2>1. compKey[h] \in 1 .. MaxKey /\ transType[h] \in Func
    BY <1>2, FuncAssumption DEF Accepts, Rows, Row
  <2>2. MetaRow(h) \in Row
    BY <2>1 DEF MetaRow, Row
  <2> QED
    BY <2>2 DEF Rows
<1> QED
  BY <1>1, <1>2

\* Every operation keeps the types.
LEMMA TypeStep ==
    ASSUME SqlTypeOK, [SqlNext]_sqlVars
    PROVE  SqlTypeOK'
<1>1. CASE UNCHANGED sqlVars
  BY <1>1 DEF sqlVars, dbVars, ownVars, SqlTypeOK, Rows, Row
<1>2. ASSUME NEW h \in Handler, Open(h) PROVE SqlTypeOK'
  BY <1>2 DEF Open, dbVars, SqlTypeOK
<1>3. ASSUME NEW h \in Handler, Close(h) PROVE SqlTypeOK'
  BY <1>3, DiscardTypes DEF Close, SqlTypeOK
<1>13. ASSUME NEW h \in Handler, Reopen(h) PROVE SqlTypeOK'
  <2>1. holder' \in {holder, Old(h)} /\ Old(h) \in {Old(g) : g \in Reopeners}
    BY <1>13 DEF Reopen
  <2>2. holder' = NONE => holder = NONE
    BY <1>13, FuncAssumption DEF Reopen
  <2>3. holder' \in Handler \cup {NONE} \cup {Old(g) : g \in Reopeners}
    BY <2>1 DEF SqlTypeOK
  <2> QED
    BY <1>13, <2>2, <2>3 DEF Reopen, SqlTypeOK
<1>4. ASSUME NEW h \in Handler, NEW f \in Func, StartComp(h, f) PROVE SqlTypeOK'
  <2>1. work' \in Rows
    BY <1>4, RowTypes DEF StartComp
  <2>2. saved.seq + 1 \in 0 .. MaxKey
    BY <1>4, BoundAssumption DEF StartComp, SqlTypeOK, Rows
  <2> QED
    BY <1>4, <2>1, <2>2, FuncAssumption DEF StartComp, SqlTypeOK
<1>5. ASSUME NEW h \in Handler, StartCompRefused(h) PROVE SqlTypeOK'
  BY <1>5, FuncAssumption DEF StartCompRefused, Ready, ownVars, SqlTypeOK
<1>6. ASSUME NEW h \in Handler, NEW k \in 1 .. MaxKey, AddMdata(h, k) PROVE SqlTypeOK'
  <2>1. work' \in Rows
    BY <1>6, RowTypes DEF AddMdata, SqlTypeOK
  <2> QED
    BY <1>6, <2>1, FuncAssumption DEF AddMdata, ownVars, SqlTypeOK
<1>7. ASSUME NEW h \in Handler, Rollback(h) PROVE SqlTypeOK'
  BY <1>7, DiscardTypes, FuncAssumption DEF Rollback, SqlTypeOK
<1>8. ASSUME NEW h \in Handler, AddMdataLeaks(h) \/ LookupLeaks(h) PROVE SqlTypeOK'
  BY <1>8 DEF AddMdataLeaks, LookupLeaks, dbVars, SqlTypeOK
<1>9. ASSUME NEW h \in Handler, AddMdataAlone(h) PROVE SqlTypeOK'
  <2>1. saved' \in Rows
    BY <1>9, RowTypes DEF AddMdataAlone, SqlTypeOK
  <2> QED
    BY <1>9, <2>1 DEF AddMdataAlone, ownVars, SqlTypeOK
<1>10. ASSUME NEW h \in Handler, Commit(h) PROVE SqlTypeOK'
  BY <1>10, FuncAssumption DEF Commit, SqlTypeOK
<1>11. ASSUME NEW h \in Handler, Destroy(h) \/ Exit(h) PROVE SqlTypeOK'
  <2>1. 0 \in 0 .. MaxKey
    BY BoundAssumption
  <2>2. (Discard(h) \/ DiscardAll(h)) /\ Fresh(h)
    BY <1>11 DEF Destroy, Exit
  <2>3. /\ connOpen' \in [Handler -> BOOLEAN] /\ transOpen' \in [Handler -> BOOLEAN]
        /\ transType' \in [Handler -> Func \cup {NOFUNCTION}]
        /\ compKey' \in [Handler -> 0 .. MaxKey]
        /\ leaked' \in [Handler -> BOOLEAN] /\ lost' \in [Handler -> BOOLEAN]
    BY <2>1, <2>2 DEF Fresh, SqlTypeOK
  <2>4. \A g \in Handler : transType'[g] = NOFUNCTION <=> ~transOpen'[g]
    BY <2>2 DEF Fresh, SqlTypeOK
  <2> QED
    BY <2>2, <2>3, <2>4, DiscardTypes DEF SqlTypeOK
<1>12. ASSUME NEW h \in Handler, DestroyFails(h) PROVE SqlTypeOK'
  BY <1>12 DEF DestroyFails, dbVars, SqlTypeOK
<1> QED
  BY <1>1, <1>2, <1>3, <1>4, <1>5, <1>6, <1>7, <1>8, <1>9, <1>10, <1>11, <1>12, <1>13
     DEF SqlNext, AddMdataRefused

\* A step after which h is open or has not the lock, and nobody else got it.
LEMMA LockStays ==
    ASSUME LockInv, NEW h \in Handler, holder' \in {holder, h, NONE},
           holder' = h => connOpen'[h],
           \A g \in Handler \ {h} : connOpen'[g] = connOpen[g]
    PROVE  LockHasConnection'
BY DEF LockInv, LockHasConnection

\* Every operation keeps the connection of the lock.
LEMMA LockStep ==
    ASSUME LockInv, [SqlNext]_sqlVars
    PROVE  LockInv'
<1>1. SqlTypeOK'
  BY TypeStep DEF LockInv
<1>T. SqlTypeOK /\ connOpen \in [Handler -> BOOLEAN]
  BY DEF LockInv, SqlTypeOK
<1>H. ASSUME NEW h \in Handler, holder = h
      PROVE  connOpen[h]
  BY <1>H, FuncAssumption DEF LockInv, LockHasConnection
<1>2. CASE UNCHANGED sqlVars
  BY <1>1, <1>2 DEF sqlVars, dbVars, ownVars, LockInv, LockHasConnection
<1>3. ASSUME NEW h \in Handler,
             Open(h) \/ AddMdataLeaks(h) \/ AddMdataAlone(h) \/ LookupLeaks(h) \/ DestroyFails(h)
      PROVE  LockHasConnection'
  <2>1. holder' = holder /\ (connOpen' = connOpen \/ connOpen' = [connOpen EXCEPT ![h] = TRUE])
    BY <1>3 DEF Open, AddMdataLeaks, AddMdataAlone, LookupLeaks, DestroyFails, dbVars, ownVars
  <2> QED
    BY <2>1, <1>T, <1>H, LockStays
<1>4. ASSUME NEW h \in Handler, (\E f \in Func : StartComp(h, f)) \/ Commit(h)
                \/ (\E k \in 1 .. MaxKey : AddMdata(h, k)) \/ StartCompRefused(h)
      PROVE  LockHasConnection'
  <2>1. holder' \in {h, NONE} /\ connOpen[h] /\ connOpen' = connOpen
    BY <1>4 DEF StartComp, StartCompRefused, Ready, AddMdata, Commit, InTransaction, ownVars
  <2> QED
    BY <2>1, LockStays
<1>5. ASSUME NEW h \in Handler, Close(h) \/ Rollback(h) \/ Destroy(h) \/ Exit(h)
      PROVE  LockHasConnection'
  <2>1. Discard(h) \/ DiscardAll(h)
    BY <1>5 DEF Close, Rollback, Destroy, Exit
  <2>2. holder' \in {holder, NONE} /\ holder' # h
    BY <2>1, <1>T, DiscardTypes
  <2>3. \A g \in Handler \ {h} : connOpen'[g] = connOpen[g]
    BY <1>5, <1>T DEF Close, Rollback, Destroy, Exit, Fresh
  <2> QED
    BY <2>2, <2>3, LockStays
<1>6. ASSUME NEW h \in Handler, Reopen(h)
      PROVE  LockHasConnection'
  BY <1>6 DEF Reopen, LockInv, LockHasConnection
<1> QED
  BY <1>1, <1>2, <1>3, <1>4, <1>5, <1>6 DEF SqlNext, AddMdataRefused, LockInv

LEMMA LockInit == SqlInit => LockInv
BY FuncAssumption, BoundAssumption
   DEF SqlInit, LockInv, SqlTypeOK, LockHasConnection, Empty, Rows

\* Whatever is called in whatever order, a second open_connection among it, the
\* lock is held through the connection of an open handler or through one that a
\* second open_connection has put another in the place of.
THEOREM LockKeepsConnection == SqlSpec => []LockHasConnection
<1>1. SqlInit => LockInv
  BY LockInit
<1>2. LockInv /\ [SqlNext]_sqlVars => LockInv'
  BY LockStep
<1>3. LockInv => LockHasConnection
  BY DEF LockInv
<1> QED
  BY <1>1, <1>2, <1>3, PTL DEF SqlSpec

-----------------------------------------------------------------------------
(* Claims, among handlers some of which are opened again on an open           *)
(* transaction                                                                *)

\* No key is above the counter, which an open transaction can only advance.
KeysBelowSeq ==
    /\ \A c \in saved.comps : c.key <= saved.seq
    /\ \A c \in work.comps : c.key <= work.seq
    /\ saved.seq <= work.seq

\* A claim's row is in the open transaction, under the next key.
ClaimInWork ==
    \A h \in Handler : Claims(h) =>
        compKey[h] = saved.seq + 1 /\ MetaRow(h) \in work.comps

MetaKept == Own(saved.meta) \subseteq saved.comps /\ Own(work.meta) \subseteq work.comps

\* What holds whoever inserts the rows of the parameters ...
CoreInv == SqlTypeOK /\ ClaimHoldsLock /\ KeysBelowSeq /\ ClaimInWork

\* ... and what SQL_handler keeps when it is alone in doing so.
ClaimInv == CoreInv /\ LockHasConnection /\ MetaKept

\* What ending a transaction without a commit leaves of the claims: those of
\* the other handlers, in the transaction they were in.
LEMMA DiscardClaims ==
    ASSUME NEW h \in Handler, CoreInv, Discard(h) \/ DiscardAll(h),
           ~Claims(h)',
           \A g \in Handler \ {h} : /\ Claims(g)' <=> Claims(g)
                                    /\ compKey'[g] = compKey[g]
                                    /\ transType'[g] = transType[g]
    PROVE  (ClaimHoldsLock /\ KeysBelowSeq /\ ClaimInWork)'
<1>1. ASSUME NEW g \in Handler, Claims(g)' PROVE /\ g # h /\ holder = g
                                                /\ holder' = g /\ work' = work
  <2>1. g # h /\ Claims(g)
    BY <1>1
  <2>2. holder = g /\ g # Old(h)
    BY <2>1, FuncAssumption DEF CoreInv, ClaimHoldsLock
  <2> QED
    BY <2>1, <2>2 DEF Discard, DiscardAll
<1>2. saved' = saved /\ (work' = work \/ work' = saved) /\ saved.seq <= saved.seq
  BY DEF Discard, DiscardAll, CoreInv, SqlTypeOK, Rows
<1>3. ClaimHoldsLock'
  BY <1>1 DEF ClaimHoldsLock
<1>4. ClaimInWork'
  <2> SUFFICES ASSUME NEW g \in Handler, Claims(g)'
               PROVE  compKey'[g] = saved'.seq + 1 /\ MetaRow(g)' \in work'.comps
    BY DEF ClaimInWork
  <2>1. Claims(g) /\ MetaRow(g)' = MetaRow(g)
    BY <1>1 DEF MetaRow
  <2> QED
    BY <1>1, <1>2, <2>1 DEF CoreInv, ClaimInWork
<1>5. KeysBelowSeq'
  BY <1>2 DEF CoreInv, KeysBelowSeq
<1> QED
  BY <1>3, <1>4, <1>5

\* start_comp: the new row has the next key, and nobody else has a claim.
LEMMA StartCompClaims ==
    ASSUME NEW h \in Handler, NEW f \in Func, CoreInv, StartComp(h, f)
    PROVE  (ClaimHoldsLock /\ KeysBelowSeq /\ ClaimInWork)'
<1> USE DEF StartComp, Ready
<1>1. saved.seq \in Nat /\ transType \in [Handler -> Func \cup {NOFUNCTION}]
      /\ compKey \in [Handler -> 0 .. MaxKey] /\ transOpen \in [Handler -> BOOLEAN]
  BY DEF CoreInv, SqlTypeOK, Rows
<1>2. /\ work'.comps = saved.comps \cup {NewRow(h, f)}
      /\ work'.meta = saved.meta /\ work'.seq = saved.seq + 1
  BY DEF WithComp, CoreInv, SqlTypeOK, Rows
<1>3. \A g \in Handler : Claims(g)' => g = h
  <2> SUFFICES ASSUME NEW g \in Handler, Claims(g)', g # h PROVE FALSE
    OBVIOUS
  <2>1. Claims(g)
    BY <1>1 DEF Claims
  <2> QED
    BY <2>1, FuncAssumption DEF CoreInv, ClaimHoldsLock
<1>4. NewRow(h, f).key = saved.seq + 1
  BY DEF NewRow
<1>5. KeysBelowSeq'
  BY <1>1, <1>2, <1>4 DEF CoreInv, KeysBelowSeq, SqlTypeOK, Rows, Row
<1>6. MetaRow(h)' = NewRow(h, f) /\ compKey'[h] = saved'.seq + 1
  BY <1>1 DEF MetaRow, NewRow
<1>7. ClaimInWork'
  BY <1>2, <1>3, <1>6 DEF ClaimInWork
<1>8. ClaimHoldsLock'
  BY <1>3 DEF ClaimHoldsLock
<1> QED
  BY <1>5, <1>7, <1>8

\* commit: the work becomes the saved rows, and no claim is left.
LEMMA CommitClaims ==
    ASSUME NEW h \in Handler, CoreInv, Commit(h)
    PROVE  (ClaimHoldsLock /\ KeysBelowSeq /\ ClaimInWork)'
<1>1. \A g \in Handler : ~Claims(g)'
  <2> SUFFICES ASSUME NEW g \in Handler, Claims(g)' PROVE FALSE
    OBVIOUS
  <2>1. g # h /\ Claims(g)
    BY DEF Commit, Claims, CoreInv, SqlTypeOK
  <2> QED
    BY <2>1 DEF Commit, CoreInv, ClaimHoldsLock
<1>2. saved' = work /\ work' = work /\ work.seq <= work.seq
  BY DEF Commit, CoreInv, SqlTypeOK, Rows
<1> QED
  BY <1>1, <1>2 DEF CoreInv, ClaimHoldsLock, KeysBelowSeq, ClaimInWork

\* A step that changes no claim and no row.
LEMMA SameClaims ==
    ASSUME CoreInv, UNCHANGED <<saved, work, holder, compKey, transType>>,
           \A g \in Handler : Claims(g)' => Claims(g)
    PROVE  (ClaimHoldsLock /\ KeysBelowSeq /\ ClaimInWork)'
BY DEF CoreInv, ClaimHoldsLock, KeysBelowSeq, ClaimInWork, MetaRow

\* Every operation keeps the claims.
LEMMA CoreStep ==
    ASSUME CoreInv, [SqlNext]_sqlVars
    PROVE  CoreInv'
<1>1. SqlTypeOK'
  BY TypeStep DEF CoreInv
<1> DEFINE Rest == ClaimHoldsLock /\ KeysBelowSeq /\ ClaimInWork
<1>T. /\ connOpen \in [Handler -> BOOLEAN] /\ transOpen \in [Handler -> BOOLEAN]
      /\ transType \in [Handler -> Func \cup {NOFUNCTION}]
      /\ compKey \in [Handler -> 0 .. MaxKey]
  BY DEF CoreInv, SqlTypeOK
<1>2. CASE UNCHANGED sqlVars
  BY <1>1, <1>2, SameClaims DEF sqlVars, dbVars, ownVars, Claims, CoreInv
<1>3. ASSUME NEW h \in Handler, Open(h) PROVE Rest'
  <2>1. \A g \in Handler : Claims(g)' => Claims(g)
    BY <1>3, <1>T DEF Open, Claims
  <2> QED
    BY <1>3, <2>1, SameClaims DEF Open, dbVars
<1>4. ASSUME NEW h \in Handler, Close(h) PROVE Rest'
  BY <1>4, <1>T, DiscardClaims DEF Close, Claims
<1>5. ASSUME NEW h \in Handler, NEW f \in Func, StartComp(h, f) PROVE Rest'
  BY <1>5, StartCompClaims
<1>6. ASSUME NEW h \in Handler, StartCompRefused(h) PROVE Rest'
  <2>1. \A g \in Handler : ~Claims(g)
    BY <1>6, FuncAssumption DEF StartCompRefused, Ready, CoreInv, ClaimHoldsLock
  <2>2. \A g \in Handler : ~Claims(g)'
    BY <1>6, <2>1 DEF StartCompRefused, ownVars, Claims
  <2>3. saved' = saved /\ work' = work
    BY <1>6 DEF StartCompRefused
  <2> QED
    BY <2>2, <2>3 DEF CoreInv, ClaimHoldsLock, KeysBelowSeq, ClaimInWork
<1>7. ASSUME NEW h \in Handler, NEW k \in 1 .. MaxKey, AddMdata(h, k) PROVE Rest'
  <2>1. work'.comps = work.comps /\ work'.seq = work.seq /\ saved' = saved
    BY <1>7 DEF AddMdata, CoreInv, SqlTypeOK, Rows
  <2>2. \A g \in Handler : (Claims(g)' <=> Claims(g)) /\ MetaRow(g)' = MetaRow(g)
                           /\ compKey'[g] = compKey[g] /\ holder' = holder
    BY <1>7 DEF AddMdata, ownVars, Claims, MetaRow
  <2> QED
    BY <2>1, <2>2 DEF CoreInv, ClaimHoldsLock, KeysBelowSeq, ClaimInWork
<1>8. ASSUME NEW h \in Handler, Rollback(h) PROVE Rest'
  BY <1>8, <1>T, DiscardClaims DEF Rollback, Claims
<1>9. ASSUME NEW h \in Handler, AddMdataLeaks(h) \/ LookupLeaks(h) \/ DestroyFails(h)
      PROVE  Rest'
  BY <1>9, SameClaims DEF AddMdataLeaks, LookupLeaks, DestroyFails, dbVars, Claims
<1>10. ASSUME NEW h \in Handler, AddMdataAlone(h) PROVE Rest'
  <2>1. \A g \in Handler : ~Claims(g)'
    BY <1>10, FuncAssumption DEF AddMdataAlone, ownVars, Claims, CoreInv, ClaimHoldsLock
  <2>2. /\ saved'.comps = saved.comps /\ saved'.seq = saved.seq /\ work' = saved'
        /\ saved.seq <= saved.seq
    BY <1>10 DEF AddMdataAlone, CoreInv, SqlTypeOK, Rows
  <2> QED
    BY <2>1, <2>2 DEF CoreInv, ClaimHoldsLock, KeysBelowSeq, ClaimInWork
<1>11. ASSUME NEW h \in Handler, Commit(h) PROVE Rest'
  BY <1>11, CommitClaims
<1>12. ASSUME NEW h \in Handler, Destroy(h) \/ Exit(h) PROVE Rest'
  BY <1>12, <1>T, DiscardClaims DEF Destroy, Exit, Fresh, Claims
<1>14. ASSUME NEW h \in Handler, Reopen(h) PROVE Rest'
  <2>1. \A g \in Handler : Claims(g)' => Claims(g) /\ g # h
    BY <1>14 DEF Reopen, Claims
  <2>2. \A g \in Handler : Claims(g)' => holder = g /\ holder' = g
    BY <1>14, <2>1 DEF Reopen, CoreInv, ClaimHoldsLock
  <2>3. UNCHANGED <<saved, work, compKey, transType>>
    BY <1>14 DEF Reopen
  <2> QED
    BY <2>1, <2>2, <2>3 DEF CoreInv, ClaimHoldsLock, KeysBelowSeq, ClaimInWork, MetaRow
<1>13. CASE SqlNext
  BY <1>13, <1>1, <1>3, <1>4, <1>5, <1>6, <1>7, <1>8, <1>9, <1>10, <1>11, <1>12, <1>14
     DEF SqlNext, AddMdataRefused, CoreInv
<1> QED
  BY <1>2, <1>13

\* Every operation keeps metadata rows with the computations they belong to.
LEMMA MetaStep ==
    ASSUME CoreInv, MetaKept, [SqlNext]_sqlVars
    PROVE  MetaKept'
<1>1. CASE UNCHANGED <<saved, work>>
  BY <1>1 DEF MetaKept
<1>2. ASSUME NEW h \in Handler, Discard(h) \/ DiscardAll(h) \/ Commit(h) PROVE MetaKept'
  BY <1>2 DEF MetaKept, Discard, DiscardAll, Commit
<1>3. ASSUME NEW h \in Handler, NEW f \in Func, StartComp(h, f) PROVE MetaKept'
  <2>1. /\ work'.comps = saved.comps \cup {NewRow(h, f)}
        /\ work'.meta = saved.meta /\ saved' = saved
    BY <1>3 DEF StartComp, WithComp, CoreInv, SqlTypeOK, Rows
  <2> QED
    BY <2>1 DEF MetaKept
<1>4. ASSUME NEW h \in Handler, NEW k \in 1 .. MaxKey, AddMdata(h, k) PROVE MetaKept'
  <2>1. /\ work'.comps = work.comps /\ saved' = saved
        /\ work'.meta = work.meta \cup {MetaRow(h)}
    BY <1>4 DEF AddMdata, CoreInv, SqlTypeOK, Rows
  <2>2. h \in Reopeners \/ MetaRow(h) \in work.comps
    BY <1>4 DEF AddMdata, InTransaction, Claims, CoreInv, ClaimInWork
  <2>3. MetaRow(h).by = h
    BY DEF MetaRow
  <2>4. Own(work'.meta) \subseteq Own(work.meta) \cup {MetaRow(h)}
        /\ (h \in Reopeners => Own(work'.meta) \subseteq Own(work.meta))
    BY <2>1, <2>3 DEF Own
  <2> QED
    BY <2>1, <2>2, <2>4 DEF MetaKept
<1>5. ASSUME NEW h \in Handler, AddMdataAlone(h) PROVE MetaKept'
  <2>1. h \in Reopeners
    BY <1>5, FuncAssumption
       DEF AddMdataAlone, InTransaction, Claims, CoreInv, ClaimHoldsLock
  <2>2. /\ saved'.comps = saved.comps /\ work' = saved'
        /\ saved'.meta = saved.meta \cup {MetaRow(h)}
    BY <1>5 DEF AddMdataAlone, CoreInv, SqlTypeOK, Rows
  <2>3. MetaRow(h).by = h
    BY DEF MetaRow
  <2>4. Own(saved'.meta) \subseteq Own(saved.meta)
    BY <2>1, <2>2, <2>3 DEF Own
  <2> QED
    BY <2>2, <2>4 DEF MetaKept
<1> QED
  BY <1>1, <1>2, <1>3, <1>4, <1>5
     DEF SqlNext, sqlVars, dbVars, Open, Reopen, Close, StartCompRefused, AddMdataRefused,
         AddMdataLeaks, LookupLeaks, Rollback, Destroy, DestroyFails, Exit

LEMMA ClaimStep ==
    ASSUME ClaimInv, [SqlNext]_sqlVars
    PROVE  ClaimInv'
BY CoreStep, MetaStep, LockStep DEF ClaimInv, CoreInv, LockInv

\* The claimed key is above every committed one.
LEMMA CoreFresh ==
    ASSUME CoreInv
    PROVE  ClaimFresh
<1> SUFFICES ASSUME NEW h \in Handler, Claims(h)
             PROVE  /\ \A c \in saved.comps : c.key # compKey[h]
                    /\ \E c \in work.comps : /\ c.key = compKey[h] /\ c.by = h
                                             /\ c.func = transType[h]
  BY DEF ClaimFresh
<1>1. compKey[h] = saved.seq + 1 /\ MetaRow(h) \in work.comps
  BY DEF CoreInv, ClaimInWork
<1>2. \A c \in saved.comps : c.key \in Nat /\ c.key <= saved.seq
  BY DEF CoreInv, KeysBelowSeq, SqlTypeOK, Rows, Row
<1>3. saved.seq \in Nat
  BY DEF CoreInv, SqlTypeOK, Rows
<1>4. \A c \in saved.comps : c.key # compKey[h]
  BY <1>1, <1>2, <1>3
<1> QED
  BY <1>1, <1>4 DEF MetaRow

LEMMA ClaimInit == SqlInit => ClaimInv
<1> SUFFICES ASSUME SqlInit PROVE ClaimInv
  OBVIOUS
<1>1. \A h \in Handler : ~Claims(h)
  BY DEF SqlInit, Claims
<1>2. /\ saved.comps = {} /\ work.comps = {} /\ saved.meta = {} /\ work.meta = {}
      /\ saved.seq <= work.seq
  BY DEF SqlInit, Empty
<1>3. MetaKept
  BY <1>2 DEF MetaKept, Own
<1> QED
  BY <1>1, <1>2, <1>3, LockInit
     DEF ClaimInv, CoreInv, LockInv, ClaimHoldsLock, KeysBelowSeq, ClaimInWork

LEMMA ClaimInvAlways == SqlSpec => []ClaimInv
<1>1. SqlInit => ClaimInv
  BY ClaimInit
<1>2. ClaimInv /\ [SqlNext]_sqlVars => ClaimInv'
  BY ClaimStep
<1> QED
  BY <1>1, <1>2, PTL DEF SqlSpec

\* Programs never share a claim, even beside handlers that carry trans_open_
\* over to a second connection: a handler that believes it is in a transaction
\* holds the exclusive lock.
THEOREM ClaimsAreExclusive == SqlSpec => []ClaimHoldsLock
<1>1. ClaimInv => ClaimHoldsLock
  BY DEF ClaimInv, CoreInv
<1> QED
  BY <1>1, ClaimInvAlways, PTL

\* The key of a claim is no committed one, although keys that were rolled back
\* are handed out again, and the open transaction has the claim's row.
THEOREM ClaimsAreFresh == SqlSpec => []ClaimFresh
<1>1. ClaimInv => ClaimFresh
  BY CoreFresh DEF ClaimInv
<1> QED
  BY <1>1, ClaimInvAlways, PTL

\* The rows of the metadata tables never name a computation of another program,
\* unless a handler writes on a flag that is left over.
THEOREM MetadataMatches == SqlSpec => []MetaMatchesComp
<1>1. ClaimInv => MetaMatchesComp
  BY DEF ClaimInv, MetaKept, MetaMatchesComp
<1> QED
  BY <1>1, ClaimInvAlways, PTL

=============================================================================
