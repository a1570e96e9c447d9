------------------------------ MODULE ZFSqliteTool ------------------------------
(****************************************************************************)
(* ZFSqliteTool: class methods that open the database of a user, run one    *)
(* statement, a batch in a transaction, or a query, and close it again.     *)
(* The connection is kept in the static variable db of the class.           *)
(*                                                                          *)
(* Call is the set of calls made; a call has a pc of its own, and Overlap   *)
(* says whether a call may begin while another one runs (the class does not *)
(* guard against it).  Each call is about the same database file; statement *)
(* i of call c inserts the row <<c, i>>.                                    *)
(*                                                                          *)
(* SQLite is outside the repository.  It may refuse any statement (a        *)
(* constraint, a lock of another connection, a full disk), and after some   *)
(* refusals it has rolled the transaction back by itself.                   *)
(* Opening and committing may fail too.  BEGIN, whose result the code does  *)
(* not look at, does not fail: it is deferred and takes no lock, on a       *)
(* connection that was just opened.                                         *)
(****************************************************************************)
EXTENDS Naturals, FiniteSets

CONSTANTS
    Call,      \* the calls of the class methods
    Count,     \* [Call -> number of statements (rows, for a query) of the call]
    Overlap,   \* may calls run at the same time
    nil

ASSUME SqliteAssumption ==
    /\ Count \in [Call -> Nat \ {0}]
    /\ Overlap \in BOOLEAN
    /\ nil \notin Call \cup {"YES", "NO", "rows"}

VARIABLES
    db,       \* the static handle: the call that opened it, or nil
    conns,    \* the connection that each call's sqlite3_open made
    stored,   \* the rows in the database file
    pc,       \* where each call is
    at,       \* the statements that each call has run
    result    \* what each call returned

vars == <<db, conns, stored, pc, at, result>>

RowsOf(c) == {<<c, i>> : i \in 1..Count[c]}
Row == UNION {RowsOf(c) : c \in Call}

\* A connection: whether it is open, in a transaction, has a prepared statement
\* that is not finalized, and the rows it wrote in the transaction.
ConnRec == [state: {"unused", "open", "failed", "closed"}, txn: BOOLEAN,
            stmt: BOOLEAN, pending: SUBSET Row]

NewConn(state) == [state |-> state, txn |-> FALSE, stmt |-> FALSE, pending |-> {}]

NoConn == NewConn("unused")

----------------------------------------------------------------------------
(* SQLite on the connection that db holds (external).                       *)

Conn == conns[db]

SetConn(rec) == conns' = [conns EXCEPT ![db] = rec]

Rolledback(conn) == [conn EXCEPT !.txn = FALSE, !.pending = {}]

\* sqlite3_exec of a statement that inserts a row.
ExecOK(row) ==
    /\ Conn.state = "open"
    /\ IF Conn.txn
       THEN SetConn([Conn EXCEPT !.pending = @ \cup {row}]) /\ UNCHANGED stored
       ELSE stored' = stored \cup {row} /\ UNCHANGED conns

ExecFails ==
    /\ SetConn(Conn) \/ SetConn(Rolledback(Conn))
    /\ UNCHANGED stored

\* Mutant of beginTransaction: no transaction is begun.
beginTransactionForgotten == UNCHANGED <<conns, stored>>

\* "begin transaction" is taken to succeed.
beginTransaction ==
    /\ SetConn(IF Conn.state = "open" THEN [Conn EXCEPT !.txn = TRUE] ELSE Conn)
    /\ UNCHANGED stored

\* The return code of "commit transaction" is not looked at.
commitTransaction ==
    \/ /\ Conn.txn
       /\ stored' = stored \cup Conn.pending
       /\ SetConn(Rolledback(Conn))
    \/ ExecFails

\* Mutant of rollBackTransaction: what was written is committed.
rollBackTransactionKeeps ==
    SetConn(Rolledback(Conn)) /\ stored' = stored \cup Conn.pending

rollBackTransaction == SetConn(Rolledback(Conn)) /\ UNCHANGED stored

\* Mutant of Finalized: the statement is not finalized.
FinalizedForgotten(conn) == conn

\* sqlite3_finalize.
Finalized(conn) == [conn EXCEPT !.stmt = FALSE]

\* sqlite3_close rolls an open transaction back; it refuses to close while a
\* statement is not finalized.
closeDB ==
    SetConn(IF Conn.state = "open" /\ ~Conn.stmt
            THEN [Rolledback(Conn) EXCEPT !.state = "closed"] ELSE Conn)

----------------------------------------------------------------------------
(* The class methods.                                                       *)

Goto(c, label) == pc' = [pc EXCEPT ![c] = label]

Return(c, value) == Goto(c, "done") /\ result' = [result EXCEPT ![c] = value]

MayStart(c) ==
    /\ pc[c] = "idle"
    /\ Overlap \/ \A o \in Call : pc[o] \in {"idle", "done"}

\* openDB: db is overwritten also when the file cannot be opened.
OpenOK(c, label) ==
    /\ MayStart(c)
    /\ db' = c
    /\ conns' = [conns EXCEPT ![c] = NewConn("open")]
    /\ Goto(c, label)
    /\ UNCHANGED <<stored, at, result>>

\* A failed open returns NO (querySql: nil, also written "NO") and closes nothing.
OpenFails(c) ==
    /\ MayStart(c)
    /\ db' = c
    /\ conns' = [conns EXCEPT ![c] = NewConn("failed")]
    /\ Return(c, "NO")
    /\ UNCHANGED <<stored, at>>

Close(c, label, value) ==
    /\ pc[c] = label
    /\ closeDB
    /\ Return(c, value)
    /\ UNCHANGED <<db, stored, at>>

executeSql(c) ==
    \/ Count[c] = 1 /\ OpenOK(c, "exec")
    \/ /\ pc[c] = "exec"
       /\ \/ ExecOK(<<c, 1>>) /\ Goto(c, "closeYES")
          \/ ExecFails /\ Goto(c, "closeNO")
       /\ UNCHANGED <<db, at, result>>

Begin(c) ==
    /\ pc[c] = "begin"
    /\ beginTransaction
    /\ Goto(c, "loop")
    /\ UNCHANGED <<db, at, result>>

\* Mutant of MoreSqls: one statement too many.
MoreSqlsOffByOne(c) == at[c] <= Count[c]

MoreSqls(c) == at[c] < Count[c]

\* The next statement of the batch.
LoopExec(c) ==
    /\ pc[c] = "loop" /\ MoreSqls(c)
    /\ \/ /\ ExecOK(<<c, at[c] + 1>>)
          /\ at' = [at EXCEPT ![c] = @ + 1]
          /\ UNCHANGED pc
       \/ /\ ExecFails
          /\ Goto(c, "rollback")
          /\ UNCHANGED at
    /\ UNCHANGED <<db, result>>

\* Mutant of Rollback: the batch is tried again.
RollbackRetries(c) ==
    /\ pc[c] = "rollback"
    /\ rollBackTransaction
    /\ Goto(c, "begin")
    /\ at' = [at EXCEPT ![c] = 0]
    /\ UNCHANGED <<db, result>>

Rollback(c) ==
    /\ pc[c] = "rollback"
    /\ rollBackTransaction
    /\ Goto(c, "closeNO")
    /\ UNCHANGED <<db, at, result>>

Commit(c) ==
    /\ pc[c] = "loop" /\ ~MoreSqls(c)
    /\ commitTransaction
    /\ Goto(c, "closeYES")
    /\ UNCHANGED <<db, at, result>>

executeSqls(c) ==
    OpenOK(c, "begin") \/ Begin(c) \/ LoopExec(c) \/ Rollback(c) \/ Commit(c)

\* sqlite3_prepare: on failure there is no statement and finalize does nothing.
Prepare(c) ==
    /\ pc[c] = "prepare"
    /\ \/ /\ Conn.state = "open"
          /\ SetConn([Conn EXCEPT !.stmt = TRUE])
          /\ Goto(c, "step")
       \/ UNCHANGED conns /\ Goto(c, "closeNO")
    /\ UNCHANGED <<db, stored, at, result>>

\* sqlite3_step until it answers anything but SQLITE_ROW, then finalize.
Step(c) ==
    /\ pc[c] = "step"
    /\ \/ /\ at[c] < Count[c]
          /\ at' = [at EXCEPT ![c] = @ + 1]
          /\ UNCHANGED <<conns, pc>>
       \/ /\ SetConn(Finalized(Conn))
          /\ Goto(c, "closeRows")
          /\ UNCHANGED at
    /\ UNCHANGED <<db, stored, result>>

querySql(c) == OpenOK(c, "prepare") \/ Prepare(c) \/ Step(c)

----------------------------------------------------------------------------

\* The process ends at any point.  SQLite rolls the journals of the open
\* transactions back when the file is opened again.
Crash ==
    /\ \E c \in Call : pc[c] \notin {"idle", "done"}
    /\ db' = nil
    /\ conns' = [c \in Call |-> NoConn]
    /\ pc' = [c \in Call |-> IF pc[c] = "idle" THEN "idle" ELSE "done"]
    /\ UNCHANGED <<stored, at, result>>

Init ==
    /\ db = nil
    /\ conns = [c \in Call |-> NoConn]
    /\ stored = {}
    /\ pc = [c \in Call |-> "idle"]
    /\ at = [c \in Call |-> 0]
    /\ result = [c \in Call |-> nil]

Method(c) ==
    \/ executeSql(c) \/ executeSqls(c) \/ querySql(c)
    \/ OpenFails(c)
    \/ Close(c, "closeYES", "YES")
    \/ Close(c, "closeNO", "NO")
    \/ Close(c, "closeRows", "rows")

Next == (\E c \in Call : Method(c)) \/ Crash

\* A method that was entered goes on; nobody owes a new call.
Fairness == \A c \in Call : WF_vars(pc[c] # "idle" /\ Method(c))

Spec == Init /\ [][Next]_vars /\ Fairness

----------------------------------------------------------------------------
(* Properties.                                                              *)

PC == {"idle", "exec", "begin", "loop", "rollback", "prepare", "step",
       "closeYES", "closeNO", "closeRows", "done"}

\* The handle, the connections, the rows and the program counters have their types.
TypeOK ==
    /\ db \in Call \cup {nil}
    /\ conns \in [Call -> ConnRec]
    /\ stored \in SUBSET Row
    /\ pc \in [Call -> PC]
    /\ at \in [Call -> Nat]
    /\ result \in [Call -> {"YES", "NO", "rows", nil}]

\* "Begin the transaction ... roll the transaction back": the rows of a batch are
\* all in the file or none is, whichever statement fails, also when the commit
\* fails and when the process ends between any two steps of executeSqls.
AllOrNothing ==
    \A c \in Call : RowsOf(c) \subseteq stored \/ RowsOf(c) \cap stored = {}

\* A call that returned NO changed nothing, so it can be made again.
NoMeansNothing ==
    \A c \in Call : result[c] = "NO" => RowsOf(c) \cap stored = {}

\* Every path of the three methods closes the connection it opened: between calls
\* none is open, and none is in a transaction that would lock other connections out.
ConnectionsClosed ==
    (\A c \in Call : pc[c] \in {"idle", "done"}) =>
        \A c \in Call : conns[c].state # "open" /\ ~conns[c].txn

\* A call that was begun returns.
CallReturns == \A c \in Call : (pc[c] # "idle") ~> (pc[c] = "done")

================================================================================
