----------------------------- MODULE SqlHandler -----------------------------
(* SQL_handler (common_src/cxx/sql_handler.cpp): every analysis program       *)
(* claims a computation key by inserting a row in the comps table inside an   *)
(* exclusive transaction, does its work, adds the row with its parameters and *)
(* commits.  What the class believes (conn_open_, trans_open_) is kept apart  *)
(* from what SQLite has (holder, work), since each can change alone.          *)
(*                                                                            *)
(* The data base is the shared file: saved is its committed content, work     *)
(* what the one open transaction sees, and a rollback drops work, the         *)
(* AUTOINCREMENT counter seq with it.  A call that throws before it has       *)
(* changed anything is no action.                                             *)
EXTENDS Naturals, FiniteSets

CONSTANTS
    Handler,    \* SQL_handler objects, each in a process of its own
    Func,       \* F_TYPE, without F_NOFUNCTION
    Listed,     \* functions that have a row in func_names
    Insertable, \* functions whose insert statement fits the table's columns
    NOFUNCTION, \* F_NOFUNCTION
    NONE,       \* nobody
    Reopeners,  \* the handlers that may be opened again, open or on a transaction
    MaxKey      \* bound: computation keys handed out

\* The connection db_ of h pointed to before h was opened over it: nothing points
\* to it any more, and it lives as long as the process.
Old(h) == <<"old", h>>

ASSUME FuncAssumption ==
    /\ Listed \subseteq Func /\ Insertable \subseteq Func
    /\ NOFUNCTION \notin Func
    /\ NONE \notin Handler
    /\ \A h \in Handler : Old(h) \notin Handler \cup {NONE}
    /\ Reopeners \subseteq Handler
ASSUME BoundAssumption == MaxKey \in Nat

VARIABLES
    saved,      \* the committed rows
    work,       \* the rows the open transaction sees; saved when there is none
    holder,     \* whose connection holds the exclusive lock: h for db_ of h, or Old(h)
    connOpen,   \* conn_open_
    transOpen,  \* trans_open_
    transType,  \* trans_type_
    compKey,    \* comp_key_
    leaked,     \* a prepared statement has not been finalized
    lost        \* the object is gone but its connection could not be closed

dbVars == <<saved, work, holder>>
ownVars == <<connOpen, transOpen, transType, compKey, leaked, lost>>
sqlVars == <<dbVars, ownVars>>

Empty == [comps |-> {}, meta |-> {}, seq |-> 0]

SqlInit ==
    /\ saved = Empty /\ work = Empty
    /\ holder = NONE
    /\ connOpen = [h \in Handler |-> FALSE]
    /\ transOpen = [h \in Handler |-> FALSE]
    /\ transType = [h \in Handler |-> NOFUNCTION]
    /\ compKey = [h \in Handler |-> 0]
    /\ leaked = [h \in Handler |-> FALSE]
    /\ lost = [h \in Handler |-> FALSE]

-----------------------------------------------------------------------------
(* What SQLite does                                                           *)

\* The connection of h ends its transaction, if it has one, without a commit.
Discard(h) ==
    /\ holder' = IF holder = h THEN NONE ELSE holder
    /\ work' = IF holder = h THEN saved ELSE work
    /\ UNCHANGED saved

\* So does every connection that the process of h has made.
DiscardAll(h) ==
    /\ holder' = IF holder \in {h, Old(h)} THEN NONE ELSE holder
    /\ work' = IF holder \in {h, Old(h)} THEN saved ELSE work
    /\ UNCHANGED saved

NewRow(h, f) == [key |-> saved.seq + 1, func |-> f, by |-> h]

WithComp(h, f) ==
    [saved EXCEPT !.comps = @ \cup {NewRow(h, f)}, !.seq = @ + 1]

MetaRow(h) == [key |-> compKey[h], func |-> transType[h], by |-> h]

\* The primary key and the foreign key of a metadata table.
Accepts(rows, h) ==
    /\ transType[h] \in Insertable
    /\ \E c \in rows.comps : c.key = compKey[h]
    /\ \A m \in rows.meta : ~(m.key = compKey[h] /\ m.func = transType[h])

-----------------------------------------------------------------------------
(* The operations                                                             *)

\* open_connection of a handler that is closed.  Only the Reopeners open one again
\* that was closed on an open transaction: trans_open_ is still set then.
Open(h) ==
    /\ ~connOpen[h] /\ ~lost[h]
    /\ h \in Reopeners \/ ~transOpen[h]
    /\ connOpen' = [connOpen EXCEPT ![h] = TRUE]
    /\ UNCHANGED <<dbVars, transOpen, transType, compKey, leaked, lost>>

\* open_connection of a handler that is open: nothing asks for conn_open_, the new
\* connection takes the place of the one in db_, which keeps its transaction, its
\* lock and its statements.
Reopen(h) ==
    /\ h \in Reopeners /\ connOpen[h] /\ ~lost[h]
    /\ holder' = IF holder = h THEN Old(h) ELSE holder
    /\ leaked' = [leaked EXCEPT ![h] = FALSE]
    /\ UNCHANGED <<saved, work, connOpen, transOpen, transType, compKey, lost>>

\* Bug: the return code of sqlite3_close is not looked at.
CloseUnchecked(h) ==
    /\ connOpen[h] /\ ~lost[h]
    /\ IF leaked[h] THEN UNCHANGED dbVars ELSE Discard(h)
    /\ connOpen' = [connOpen EXCEPT ![h] = FALSE]
    /\ UNCHANGED <<transOpen, transType, compKey, leaked, lost>>

\* close_connection: sqlite3_close refuses while a statement is not finalized,
\* otherwise it rolls the transaction back.  trans_open_ is left as it is.
Close(h) ==
    /\ connOpen[h] /\ ~lost[h] /\ ~leaked[h]
    /\ Discard(h)
    /\ connOpen' = [connOpen EXCEPT ![h] = FALSE]
    /\ UNCHANGED <<transOpen, transType, compKey, leaked, lost>>

\* Bug: BEGIN without EXCLUSIVE, nobody is kept out.
ReadyUnlocked(h) == connOpen[h] /\ ~lost[h] /\ ~transOpen[h]

\* The guards of start_comp and BEGIN EXCLUSIVE.
Ready(h) == connOpen[h] /\ ~lost[h] /\ ~transOpen[h] /\ holder = NONE

\* Bug: the rowid is read before the insert.
StartCompStaleKey(h, f) ==
    /\ Ready(h) /\ f \in Listed /\ saved.seq < MaxKey
    /\ holder' = h
    /\ work' = WithComp(h, f)
    /\ transOpen' = [transOpen EXCEPT ![h] = TRUE]
    /\ transType' = [transType EXCEPT ![h] = f]
    /\ compKey' = [compKey EXCEPT ![h] = saved.seq]
    /\ UNCHANGED <<saved, connOpen, leaked, lost>>

\* start_comp.
StartComp(h, f) ==
    /\ Ready(h) /\ f \in Listed /\ saved.seq < MaxKey
    /\ holder' = h
    /\ work' = WithComp(h, f)
    /\ transOpen' = [transOpen EXCEPT ![h] = TRUE]
    /\ transType' = [transType EXCEPT ![h] = f]
    /\ compKey' = [compKey EXCEPT ![h] = saved.seq + 1]
    /\ UNCHANGED <<saved, connOpen, leaked, lost>>

\* start_comp with a data set or a function the data base does not know: the
\* insert breaks a foreign key and start_comp throws after BEGIN and before
\* trans_open_ is set.
StartCompRefused(h) ==
    /\ Ready(h)
    /\ holder' = h
    /\ UNCHANGED <<saved, work, ownVars>>

InTransaction(h) == connOpen[h] /\ ~lost[h] /\ transOpen[h]

\* Bug: the comp_key of the Md_store is not compared with comp_key_.
AddMdataUnchecked(h, k) ==
    /\ InTransaction(h) /\ holder = h
    /\ \E c \in work.comps : c.key = k
    /\ work' = [work EXCEPT !.meta = @ \cup {[key |-> k, func |-> transType[h], by |-> h]}]
    /\ UNCHANGED <<saved, holder, ownVars>>

\* add_mdata, k the comp_key of the Md_store: the row goes in.
AddMdata(h, k) ==
    /\ InTransaction(h) /\ k = compKey[h] /\ holder = h /\ Accepts(work, h)
    /\ work' = [work EXCEPT !.meta = @ \cup {MetaRow(h)}]
    /\ UNCHANGED <<saved, holder, ownVars>>

\* rollback.  On a connection that has no transaction the ROLLBACK throws and
\* nothing changes.
Rollback(h) ==
    /\ InTransaction(h) /\ holder = h
    /\ Discard(h)
    /\ transOpen' = [transOpen EXCEPT ![h] = FALSE]
    /\ transType' = [transType EXCEPT ![h] = NOFUNCTION]
    /\ UNCHANGED <<connOpen, compKey, leaked, lost>>

\* add_mdata when a column is missing or a reference is broken: it rolls back
\* and throws.
AddMdataRefused(h) == Rollback(h)

\* add_mdata with a parameter missing from the Md_store: get_value throws
\* between prepare and finalize.
AddMdataLeaks(h) ==
    /\ InTransaction(h)
    /\ leaked' = [leaked EXCEPT ![h] = TRUE]
    /\ UNCHANGED <<dbVars, connOpen, transOpen, transType, compKey, lost>>

\* add_mdata on a flag left over from before the connection was closed: the
\* insert is a transaction of its own.
AddMdataAlone(h) ==
    /\ InTransaction(h) /\ holder = NONE /\ Accepts(saved, h)
    /\ saved' = [saved EXCEPT !.meta = @ \cup {MetaRow(h)}]
    /\ work' = saved'
    /\ UNCHANGED <<holder, ownVars>>

\* get_comp_mdata for a key that is not there throws without finalize.
LookupLeaks(h) ==
    /\ connOpen[h] /\ ~lost[h]
    /\ leaked' = [leaked EXCEPT ![h] = TRUE]
    /\ UNCHANGED <<dbVars, connOpen, transOpen, transType, compKey, lost>>

\* commit.
Commit(h) ==
    /\ InTransaction(h) /\ holder = h
    /\ saved' = work /\ holder' = NONE
    /\ transOpen' = [transOpen EXCEPT ![h] = FALSE]
    /\ transType' = [transType EXCEPT ![h] = NOFUNCTION]
    /\ UNCHANGED <<work, connOpen, compKey, leaked, lost>>

\* The handler of h is as the constructor makes it.
Fresh(h) ==
    /\ connOpen' = [connOpen EXCEPT ![h] = FALSE]
    /\ transOpen' = [transOpen EXCEPT ![h] = FALSE]
    /\ transType' = [transType EXCEPT ![h] = NOFUNCTION]
    /\ compKey' = [compKey EXCEPT ![h] = 0]
    /\ leaked' = [leaked EXCEPT ![h] = FALSE]
    /\ lost' = [lost EXCEPT ![h] = FALSE]

\* ~SQL_handler closes the connection, and the process may make a new handler.
Destroy(h) ==
    /\ ~lost[h] /\ ~leaked[h]
    /\ Discard(h) /\ Fresh(h)

\* ~SQL_handler swallows the exception of a close that was refused.
DestroyFails(h) ==
    /\ connOpen[h] /\ ~lost[h] /\ leaked[h]
    /\ lost' = [lost EXCEPT ![h] = TRUE]
    /\ UNCHANGED <<dbVars, connOpen, transOpen, transType, compKey, leaked>>

\* The process ends, or is killed: SQLite drops what it had not committed.
Exit(h) == DiscardAll(h) /\ Fresh(h)

SqlNext ==
    \E h \in Handler :
        \/ Open(h) \/ Reopen(h) \/ Close(h)
        \/ \E f \in Func : StartComp(h, f)
        \/ StartCompRefused(h)
        \/ \E k \in 1 .. MaxKey : AddMdata(h, k)
        \/ AddMdataRefused(h) \/ AddMdataLeaks(h) \/ AddMdataAlone(h)
        \/ LookupLeaks(h)
        \/ Commit(h) \/ Rollback(h)
        \/ Destroy(h) \/ DestroyFails(h)
        \/ Exit(h)

SqlSpec == SqlInit /\ [][SqlNext]_sqlVars

-----------------------------------------------------------------------------
(* Properties                                                                 *)

Row == [key : 1 .. MaxKey, func : Func, by : Handler]
Rows == [comps : SUBSET Row, meta : SUBSET Row, seq : 0 .. MaxKey]

\* Types; the type of the transaction is set exactly while the flag is.
SqlTypeOK ==
    /\ saved \in Rows /\ work \in Rows
    /\ holder \in Handler \cup {NONE} \cup {Old(h) : h \in Reopeners}
    /\ holder = NONE => work = saved
    /\ connOpen \in [Handler -> BOOLEAN]
    /\ transOpen \in [Handler -> BOOLEAN]
    /\ transType \in [Handler -> Func \cup {NOFUNCTION}]
    /\ compKey \in [Handler -> 0 .. MaxKey]
    /\ leaked \in [Handler -> BOOLEAN]
    /\ lost \in [Handler -> BOOLEAN]
    /\ \A h \in Handler : transType[h] = NOFUNCTION <=> ~transOpen[h]

\* A handler that never takes trans_open_ over to another connection, by opening
\* again, believes that it is in a transaction.
Claims(h) == h \notin Reopeners /\ connOpen[h] /\ transOpen[h]

\* A handler that believes it is in a transaction holds the exclusive lock, so
\* two programs never work on a claimed key at once, whatever a Reopener does.
ClaimHoldsLock == \A h \in Handler : Claims(h) => holder = h

\* The key in hand is this handler's own new row, and no committed computation
\* has it.
ClaimFresh ==
    \A h \in Handler : Claims(h) =>
        /\ \A c \in saved.comps : c.key # compKey[h]
        /\ \E c \in work.comps : c.key = compKey[h] /\ c.by = h /\ c.func = transType[h]

\* A committed metadata row belongs to a committed computation of the same
\* program and function: comp_key names one thing in all the tables.  The rows
\* of a Reopener are the exception: add_mdata trusts the flag that is left over.
Own(rows) == {m \in rows : m.by \notin Reopeners}

MetaMatchesComp == Own(saved.meta) \subseteq saved.comps

\* The lock is held through the connection of a handler that is open, whatever was
\* closed, refused or rolled back before, or through one that a handler was
\* opened over: it never stays behind with a connection that was closed.  The
\* second case is a lock that no call gives back; it takes a second
\* open_connection on an open handler, and only the end of the process mends it.
LockHasConnection ==
    holder # NONE =>
        \/ \E h \in Handler : holder = h /\ connOpen[h]
        \/ \E h \in Reopeners : holder = Old(h)

=============================================================================
