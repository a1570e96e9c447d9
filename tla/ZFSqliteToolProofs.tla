--------------------------- MODULE ZFSqliteToolProofs ---------------------------
(****************************************************************************)
(* Proofs about ZFSqliteTool for calls that do not overlap, with any number *)
(* of calls and statements, any failures of SQLite and a crash anywhere.    *)
(*                                                                          *)
(* None of the three properties is inductive.  CallInv says, for each point *)
(* of a method, what of the call's rows is in the file and what the         *)
(* connection holds: while the call can still return NO none of its rows is *)
(* in the file, and in the loop of executeSqls the rows written so far wait *)
(* in the transaction.  A call in progress owns the static handle db, so no *)
(* other call is in progress.                                               *)
(****************************************************************************)
EXTENDS ZFSqliteTool, TLAPS

Running == {"exec", "begin", "loop", "rollback", "prepare", "step",
            "closeYES", "closeNO", "closeRows"}

None(c) == RowsOf(c) \cap stored = {}

Stored(c) == RowsOf(c) \subseteq stored

CallInv(c) ==
    /\ pc[c] = "idle" => conns[c] = NoConn /\ None(c) /\ at[c] = 0 /\ result[c] = nil
    /\ pc[c] \in Running => db = c /\ conns[c].state = "open" /\ result[c] = nil
    /\ pc[c] \in Running \ {"closeYES"} => None(c)
    /\ pc[c] \in {"exec", "begin", "prepare"} => conns[c] = NewConn("open") /\ at[c] = 0
    /\ pc[c] = "exec" => Count[c] = 1
    /\ pc[c] = "loop" => /\ conns[c].txn /\ at[c] <= Count[c]
                         /\ conns[c].pending = {<<c, i>> : i \in 1..at[c]}
    /\ pc[c] \in Running \ {"step"} => ~conns[c].stmt
    /\ pc[c] = "done" => conns[c].state # "open" /\ ~conns[c].txn
    /\ result[c] = "NO" => None(c)
    /\ Stored(c) \/ None(c)

SqlInv == TypeOK /\ \A c \in Call : CallInv(c)

----------------------------------------------------------------------------

\* The rows of a call are rows of no other call.
LEMMA RowFacts ==
    ASSUME NEW c \in Call
    PROVE  /\ RowsOf(c) \subseteq Row
           /\ \A i \in 1..Count[c] : <<c, i>> \in RowsOf(c)
           /\ \A o \in Call \ {c} : RowsOf(o) \cap RowsOf(c) = {}
BY DEF RowsOf, Row

\* A step of one call keeps SqlInv if it keeps the call's part of it, and leaves the
\* other calls, none of which is in progress, and their rows alone.
LEMMA FrameStep ==
    ASSUME SqlInv, TypeOK', NEW c \in Call, CallInv(c)',
           \A o \in Call \ {c} :
               /\ pc[o] \notin Running
               /\ pc'[o] = pc[o] /\ conns'[o] = conns[o]
               /\ at'[o] = at[o] /\ result'[o] = result[o]
               /\ RowsOf(o) \cap stored' = RowsOf(o) \cap stored
    PROVE  SqlInv'
<1> SUFFICES ASSUME NEW o \in Call, o # c
             PROVE  CallInv(o)'
  BY DEF SqlInv
<1>1. CallInv(o)
  BY DEF SqlInv
<1>2. /\ pc[o] \notin Running
      /\ pc'[o] = pc[o] /\ conns'[o] = conns[o]
      /\ at'[o] = at[o] /\ result'[o] = result[o]
      /\ RowsOf(o) \cap stored' = RowsOf(o) \cap stored
  OBVIOUS
<1>3. None(o)' <=> None(o)
  BY <1>2 DEF None, RowsOf
<1>4. Stored(o)' <=> Stored(o)
  BY <1>2 DEF Stored, RowsOf
<1> QED
  BY <1>1, <1>2, <1>3, <1>4 DEF CallInv, Running

\* A call in progress holds the handle, so it is the only one.
LEMMA Alone ==
    ASSUME SqlInv, NEW c \in Call, pc[c] \in Running
    PROVE  /\ db = c
           /\ \A o \in Call \ {c} : pc[o] \notin Running
BY DEF SqlInv, CallInv

\* What TypeOK says of the variables.
LEMMA SqlTypes ==
    ASSUME TypeOK, NEW c \in Call
    PROVE  /\ conns \in [Call -> ConnRec] /\ conns[c] \in ConnRec
           /\ pc \in [Call -> PC] /\ at \in [Call -> Nat] /\ at[c] \in Nat
           /\ result \in [Call -> {"YES", "NO", "rows", nil}]
           /\ stored \in SUBSET Row
           /\ Count[c] \in Nat \ {0}
BY SqliteAssumption DEF TypeOK

\* The empty file satisfies SqlInv.
LEMMA SqlInitInv == Init => SqlInv
<1> SUFFICES ASSUME Init
             PROVE  SqlInv
  OBVIOUS
<1>1. NoConn \in ConnRec
  BY DEF NoConn, NewConn, ConnRec
<1>2. TypeOK
  BY <1>1 DEF Init, TypeOK, PC
<1>3. ASSUME NEW c \in Call
      PROVE  CallInv(c)
  BY SqliteAssumption DEF Init, CallInv, None, Stored, Running
<1> QED
  BY <1>2, <1>3 DEF SqlInv

----------------------------------------------------------------------------
(* One lemma for each step of the methods.                                  *)

\* Opening the database: the call that begins is alone, and takes the handle.
LEMMA OpenInv ==
    ASSUME SqlInv, ~Overlap, NEW c \in Call, NEW label \in {"exec", "begin", "prepare"},
           label = "exec" => Count[c] = 1, OpenOK(c, label)
    PROVE  SqlInv'
<1>1. /\ TypeOK /\ CallInv(c) /\ pc[c] = "idle"
      /\ \A o \in Call : pc[o] \in {"idle", "done"}
  BY DEF SqlInv, OpenOK, MayStart
<1>2. /\ db' = c /\ conns' = [conns EXCEPT ![c] = NewConn("open")]
      /\ pc' = [pc EXCEPT ![c] = label]
      /\ stored' = stored /\ at' = at /\ result' = result
  BY DEF OpenOK, Goto
<1>4. NewConn("open") \in ConnRec
  BY DEF NewConn, ConnRec
<1>5. TypeOK'
  BY <1>1, <1>2, <1>4 DEF TypeOK, PC
<1>6. CallInv(c)'
  <2>1. /\ conns'[c] = NewConn("open") /\ pc'[c] = label
        /\ at'[c] = at[c] /\ result'[c] = result[c]
    BY <1>1, <1>2, SqlTypes
  <2>2. /\ at[c] = 0 /\ result[c] = nil /\ None(c)
    BY <1>1 DEF CallInv
  <2>3. None(c)'
    BY <1>2, <2>2 DEF None, RowsOf
  <2> QED
    BY <1>2, <2>1, <2>2, <2>3, SqliteAssumption DEF CallInv, Running, NewConn
<1>7. \A o \in Call \ {c} : pc[o] \notin Running
  BY <1>1 DEF Running
<1> QED
  BY <1>1, <1>2, <1>5, <1>6, <1>7, FrameStep, SqlTypes

\* A failed open returns NO and leaves no connection open.
LEMMA OpenFailsInv ==
    ASSUME SqlInv, ~Overlap, NEW c \in Call, OpenFails(c)
    PROVE  SqlInv'
<1>1. /\ TypeOK /\ CallInv(c) /\ pc[c] = "idle"
      /\ \A o \in Call : pc[o] \in {"idle", "done"}
  BY DEF SqlInv, OpenFails, MayStart
<1>2. /\ db' = c /\ conns' = [conns EXCEPT ![c] = NewConn("failed")]
      /\ pc' = [pc EXCEPT ![c] = "done"]
      /\ result' = [result EXCEPT ![c] = "NO"]
      /\ stored' = stored /\ at' = at
  BY DEF OpenFails, Return, Goto
<1>3. NewConn("failed") \in ConnRec
  BY DEF NewConn, ConnRec
<1>4. TypeOK'
  BY <1>1, <1>2, <1>3 DEF TypeOK, PC
<1>5. CallInv(c)'
  <2>1. conns'[c] = NewConn("failed") /\ pc'[c] = "done" /\ result'[c] = "NO"
    BY <1>1, <1>2, SqlTypes
  <2>2. None(c)'
    BY <1>1, <1>2 DEF CallInv, None, RowsOf
  <2> QED
    BY <2>1, <2>2 DEF CallInv, Running, NewConn
<1>6. \A o \in Call \ {c} : pc[o] \notin Running
  BY <1>1 DEF Running
<1> QED
  BY <1>1, <1>2, <1>4, <1>5, <1>6, FrameStep, SqlTypes

\* The parts of ConnRec, and what a rollback leaves of a connection.
LEMMA ConnFacts ==
    ASSUME NEW conn \in ConnRec
    PROVE  /\ conn.pending \subseteq Row
           /\ Rolledback(conn) \in ConnRec
           /\ Rolledback(conn).state = conn.state
           /\ Rolledback(conn).stmt = conn.stmt
           /\ ~Rolledback(conn).txn /\ Rolledback(conn).pending = {}
           /\ \A rows \in SUBSET Row : [conn EXCEPT !.pending = rows] \in ConnRec
           /\ \A b \in BOOLEAN : [conn EXCEPT !.txn = b] \in ConnRec
           /\ \A b \in BOOLEAN : [conn EXCEPT !.stmt = b] \in ConnRec
           /\ [conn EXCEPT !.state = "closed"] \in ConnRec
BY DEF ConnRec, Rolledback

\* A step of the call in progress keeps SqlInv if it keeps the call's part of it and
\* adds none but the call's rows.
LEMMA OwnStep ==
    ASSUME SqlInv, TypeOK', NEW c \in Call, pc[c] \in Running, CallInv(c)',
           \A o \in Call \ {c} : /\ pc'[o] = pc[o] /\ conns'[o] = conns[o]
                                 /\ at'[o] = at[o] /\ result'[o] = result[o],
           stored \subseteq stored', stored' \subseteq stored \cup RowsOf(c)
    PROVE  SqlInv'
<1>1. \A o \in Call \ {c} : RowsOf(o) \cap stored' = RowsOf(o) \cap stored
  BY RowFacts
<1> QED
  BY <1>1, Alone, FrameStep

\* A step that leaves the file alone leaves the call's rows as they were.
LEMMA SameRows ==
    ASSUME NEW c \in Call, stored' = stored
    PROVE  (None(c)' <=> None(c)) /\ (Stored(c)' <=> Stored(c))
BY DEF None, Stored, RowsOf

\* closeDB and the return: the connection is closed and its transaction is gone.
LEMMA CloseInv ==
    ASSUME SqlInv, NEW c \in Call, NEW label \in {"closeYES", "closeNO", "closeRows"},
           NEW value \in {"YES", "NO", "rows"}, value = "NO" => label = "closeNO",
           Close(c, label, value)
    PROVE  SqlInv'
<1> DEFINE conn == [Rolledback(conns[c]) EXCEPT !.state = "closed"]
<1>1. /\ TypeOK /\ CallInv(c) /\ pc[c] = label /\ pc[c] \in Running /\ db = c
      /\ conns[c] \in ConnRec
  BY Alone, SqlTypes DEF SqlInv, Close, Running
<1>2. conns[c].state = "open" /\ ~conns[c].stmt
  BY <1>1 DEF CallInv, Running
<1>3. /\ conns' = [conns EXCEPT ![c] = conn]
      /\ pc' = [pc EXCEPT ![c] = "done"] /\ result' = [result EXCEPT ![c] = value]
      /\ db' = db /\ stored' = stored /\ at' = at
  BY <1>1, <1>2 DEF Close, closeDB, SetConn, Conn, Return, Goto
<1>4. conn \in ConnRec /\ conn.state = "closed" /\ ~conn.txn
  <2> HIDE DEF conn
  <2>1. Rolledback(conns[c]) \in ConnRec /\ ~Rolledback(conns[c]).txn
    BY <1>1, ConnFacts
  <2> QED
    BY <2>1, ConnFacts DEF conn, ConnRec
<1> HIDE DEF conn
<1>5. TypeOK'
  BY <1>1, <1>3, <1>4 DEF TypeOK, PC
<1>6. conns'[c] = conn /\ pc'[c] = "done" /\ result'[c] = value
  BY <1>1, <1>3, SqlTypes
<1>7. CallInv(c)'
  <2>1. value = "NO" => None(c)'
    BY <1>1, <1>3, SameRows DEF CallInv, Running
  <2>2. (Stored(c) \/ None(c))'
    BY <1>1, <1>3, SameRows DEF CallInv
  <2> QED
    BY <1>4, <1>6, <2>1, <2>2 DEF CallInv, Running
<1> QED
  BY <1>1, <1>3, <1>5, <1>7, OwnStep, SqlTypes

\* A refused statement leaves the file, and the connection open.
LEMMA ExecFailsFacts ==
    ASSUME TypeOK, NEW c \in Call, db = c, ExecFails
    PROVE  /\ stored' = stored
           /\ conns' \in [Call -> ConnRec]
           /\ \A o \in Call \ {c} : conns'[o] = conns[o]
           /\ conns'[c].state = conns[c].state /\ conns'[c].stmt = conns[c].stmt
<1>1. conns \in [Call -> ConnRec] /\ conns[c] \in ConnRec
  BY SqlTypes
<1>2. \E conn \in {conns[c], Rolledback(conns[c])} : conns' = [conns EXCEPT ![c] = conn]
  BY DEF ExecFails, SetConn, Conn
<1>3. PICK conn \in {conns[c], Rolledback(conns[c])} : conns' = [conns EXCEPT ![c] = conn]
  BY <1>2
<1>4. conn \in ConnRec /\ conn.state = conns[c].state /\ conn.stmt = conns[c].stmt
  BY <1>1, <1>3, ConnFacts
<1> QED
  BY <1>1, <1>3, <1>4 DEF ExecFails

\* The single statement of executeSql: it is stored, or NO will be returned.
LEMMA ExecInv ==
    ASSUME SqlInv, NEW c \in Call, pc[c] = "exec",
           \/ ExecOK(<<c, 1>>) /\ Goto(c, "closeYES")
           \/ ExecFails /\ Goto(c, "closeNO"),
           UNCHANGED <<db, at, result>>
    PROVE  SqlInv'
<1>1. /\ TypeOK /\ CallInv(c) /\ pc[c] \in Running /\ db = c
      /\ conns[c] \in ConnRec
  BY Alone, SqlTypes DEF SqlInv, Running
<1>2. conns[c] = NewConn("open") /\ Count[c] = 1 /\ result[c] = nil /\ None(c)
  BY <1>1 DEF CallInv, Running
<1>4. NewConn("open").txn = FALSE /\ NewConn("open").stmt = FALSE
      /\ NewConn("open").state = "open"
  BY DEF NewConn
<1>5. /\ conns' \in [Call -> ConnRec]
      /\ \A o \in Call \ {c} : conns'[o] = conns[o]
      /\ conns'[c].state = "open" /\ ~conns'[c].stmt
  <2>1. CASE ExecOK(<<c, 1>>)
    BY <1>1, <1>2, <1>4, <2>1, SqlTypes DEF ExecOK, Conn
  <2>2. CASE ExecFails
    BY <1>1, <1>2, <1>4, <2>2, ExecFailsFacts
  <2> QED
    BY <2>1, <2>2
<1>6. RowsOf(c) = {<<c, 1>>}
  BY <1>2 DEF RowsOf
<1>7. \/ pc' = [pc EXCEPT ![c] = "closeYES"] /\ stored' = stored \cup {<<c, 1>>}
      \/ pc' = [pc EXCEPT ![c] = "closeNO"] /\ stored' = stored
  BY <1>1, <1>2, <1>4 DEF ExecOK, ExecFails, Goto, Conn
<1>8. TypeOK'
  BY <1>1, <1>5, <1>6, <1>7, RowFacts DEF TypeOK, PC
<1>9. CallInv(c)'
  <2>1. result'[c] = nil /\ db' = c /\ pc'[c] \in {"closeYES", "closeNO"}
    BY <1>1, <1>2, <1>5, <1>7, SqlTypes
  <2>2. pc'[c] = "closeNO" => None(c)'
    BY <1>1, <1>2, <1>7, SameRows, SqlTypes
  <2>3. (Stored(c) \/ None(c))'
    <3>1. CASE stored' = stored \cup {<<c, 1>>}
      BY <1>6, <3>1 DEF Stored, RowsOf
    <3>2. CASE stored' = stored
      BY <1>2, <3>2, SameRows
    <3> QED
      BY <1>7, <3>1, <3>2
  <2> QED
    BY <1>5, <2>1, <2>2, <2>3, SqliteAssumption DEF CallInv, Running
<1> QED
  BY <1>1, <1>5, <1>6, <1>7, <1>8, <1>9, OwnStep, SqlTypes

\* Begin, of executeSqls: the transaction is open and empty.
LEMMA BeginInv ==
    ASSUME SqlInv, NEW c \in Call, Begin(c)
    PROVE  SqlInv'
<1>1. /\ TypeOK /\ CallInv(c) /\ pc[c] = "begin" /\ pc[c] \in Running /\ db = c
      /\ conns[c] \in ConnRec
  BY Alone, SqlTypes DEF SqlInv, Running, Begin
<1>2. conns[c] = NewConn("open") /\ at[c] = 0 /\ result[c] = nil /\ None(c)
  BY <1>1 DEF CallInv, Running
<1>3. PICK conn : conn = [conns[c] EXCEPT !.txn = TRUE]
  OBVIOUS
<1>4. /\ conns' = [conns EXCEPT ![c] = conn] /\ pc' = [pc EXCEPT ![c] = "loop"]
      /\ stored' = stored /\ db' = db /\ at' = at /\ result' = result
  <2>1. conns[c].state = "open"
    BY <1>2 DEF NewConn
  <2> QED
    BY <1>1, <1>3, <2>1 DEF Begin, beginTransaction, SetConn, Conn, Goto
<1>5. /\ conn \in ConnRec /\ conn.txn /\ conn.state = conns[c].state
      /\ conn.stmt = conns[c].stmt /\ conn.pending = conns[c].pending
  BY <1>1, <1>3 DEF ConnRec
<1>6. conn.state = "open" /\ ~conn.stmt /\ conn.pending = {}
  BY <1>2, <1>5 DEF NewConn
<1>7. TypeOK'
  BY <1>1, <1>4, <1>5 DEF TypeOK, PC
<1>8. CallInv(c)'
  <2>1. /\ conns'[c] = conn /\ result'[c] = nil /\ db' = c
        /\ pc'[c] = "loop" /\ at'[c] = 0
    BY <1>1, <1>2, <1>4, SqlTypes
  <2>2. None(c)'
    BY <1>2, <1>4, SameRows
  <2>3. {<<c, i>> : i \in 1..0} = {} /\ 0 <= Count[c]
    BY <1>1, SqlTypes
  <2> QED
    BY <1>5, <1>6, <2>1, <2>2, <2>3, SqliteAssumption DEF CallInv, Running
<1> QED
  BY <1>1, <1>4, <1>7, <1>8, OwnStep, SqlTypes

\* The loop of executeSqls: a row more waits in the transaction, or the loop ends.
LEMMA LoopInv ==
    ASSUME SqlInv, NEW c \in Call, LoopExec(c)
    PROVE  SqlInv'
<1>1. /\ TypeOK /\ CallInv(c) /\ pc[c] = "loop" /\ pc[c] \in Running /\ db = c
      /\ conns[c] \in ConnRec /\ at[c] \in Nat /\ Count[c] \in Nat
      /\ db' = db /\ result' = result
  BY Alone, SqlTypes DEF SqlInv, Running, LoopExec
<1>2. /\ conns[c].state = "open" /\ conns[c].txn /\ ~conns[c].stmt
      /\ conns[c].pending = {<<c, i>> : i \in 1..at[c]}
      /\ at[c] < Count[c] /\ result[c] = nil /\ None(c)
  BY <1>1 DEF CallInv, Running, LoopExec, MoreSqls
<1>3. CASE ExecOK(<<c, at[c] + 1>>) /\ at' = [at EXCEPT ![c] = @ + 1] /\ pc' = pc
  <2>1. PICK conn : conn = [conns[c] EXCEPT !.pending = @ \cup {<<c, at[c] + 1>>}]
    OBVIOUS
  <2>2. conns' = [conns EXCEPT ![c] = conn] /\ stored' = stored
    BY <1>1, <1>2, <1>3, <2>1 DEF ExecOK, Conn, SetConn
  <2>3. <<c, at[c] + 1>> \in Row
    BY <1>1, <1>2, RowFacts
  <2>4. /\ conn \in ConnRec /\ conn.txn /\ conn.state = "open" /\ ~conn.stmt
        /\ conn.pending = conns[c].pending \cup {<<c, at[c] + 1>>}
    BY <1>1, <1>2, <2>1, <2>3 DEF ConnRec
  <2>5. conn.pending = {<<c, i>> : i \in 1..(at[c] + 1)}
    BY <1>1, <1>2, <2>4
  <2>6. TypeOK'
    BY <1>1, <1>3, <2>2, <2>4 DEF TypeOK
  <2>7. CallInv(c)'
    <3>1. /\ conns'[c] = conn /\ result'[c] = nil /\ db' = c
          /\ pc'[c] = "loop" /\ at'[c] = at[c] + 1 /\ at[c] + 1 <= Count[c]
      BY <1>1, <1>2, <1>3, <2>2, SqlTypes
    <3>2. None(c)'
      BY <1>2, <2>2, SameRows
    <3> QED
      BY <2>4, <2>5, <3>1, <3>2, SqliteAssumption DEF CallInv, Running
  <2> QED
    BY <1>1, <1>3, <2>2, <2>6, <2>7, OwnStep, SqlTypes
<1>4. CASE ExecFails /\ Goto(c, "rollback") /\ at' = at
  <2>1. /\ stored' = stored /\ conns' \in [Call -> ConnRec]
        /\ \A o \in Call \ {c} : conns'[o] = conns[o]
        /\ conns'[c].state = "open" /\ ~conns'[c].stmt
    BY <1>1, <1>2, <1>4, ExecFailsFacts
  <2>2. pc' = [pc EXCEPT ![c] = "rollback"]
    BY <1>4 DEF Goto
  <2>3. TypeOK'
    BY <1>1, <1>4, <2>1, <2>2 DEF TypeOK, PC
  <2>4. CallInv(c)'
    <3>1. result'[c] = nil /\ db' = c /\ pc'[c] = "rollback"
      BY <1>1, <1>2, <2>2, SqlTypes
    <3>2. None(c)'
      BY <1>2, <2>1, SameRows
    <3> QED
      BY <2>1, <3>1, <3>2, SqliteAssumption DEF CallInv, Running
  <2> QED
    BY <1>1, <1>4, <2>1, <2>2, <2>3, <2>4, OwnStep, SqlTypes
<1> QED
  BY <1>3, <1>4 DEF LoopExec

\* Rollback, of executeSqls: nothing of the batch is left.
LEMMA RollbackInv ==
    ASSUME SqlInv, NEW c \in Call, Rollback(c)
    PROVE  SqlInv'
<1>1. /\ TypeOK /\ CallInv(c) /\ pc[c] = "rollback" /\ pc[c] \in Running /\ db = c
      /\ conns[c] \in ConnRec
  BY Alone, SqlTypes DEF SqlInv, Running, Rollback
<1>2. conns[c].state = "open" /\ ~conns[c].stmt /\ result[c] = nil /\ None(c)
  BY <1>1 DEF CallInv, Running
<1>3. /\ conns' = [conns EXCEPT ![c] = Rolledback(conns[c])]
      /\ pc' = [pc EXCEPT ![c] = "closeNO"]
      /\ stored' = stored /\ db' = db /\ at' = at /\ result' = result
  BY <1>1 DEF Rollback, rollBackTransaction, SetConn, Conn, Goto
<1>4. /\ Rolledback(conns[c]) \in ConnRec /\ ~Rolledback(conns[c]).stmt
      /\ Rolledback(conns[c]).state = "open"
  BY <1>1, <1>2, ConnFacts
<1>5. TypeOK'
  BY <1>1, <1>3, <1>4 DEF TypeOK, PC
<1>6. CallInv(c)'
  <2>1. /\ conns'[c] = Rolledback(conns[c]) /\ result'[c] = nil /\ db' = c
        /\ pc'[c] = "closeNO"
    BY <1>1, <1>2, <1>3, SqlTypes
  <2>2. None(c)'
    BY <1>2, <1>3, SameRows
  <2> QED
    BY <1>4, <2>1, <2>2, SqliteAssumption DEF CallInv, Running
<1> QED
  BY <1>1, <1>3, <1>5, <1>6, OwnStep, SqlTypes

\* Commit, of executeSqls: all the rows of the batch are stored, or none.
LEMMA CommitInv ==
    ASSUME SqlInv, NEW c \in Call, Commit(c)
    PROVE  SqlInv'
<1>1. /\ TypeOK /\ CallInv(c) /\ pc[c] = "loop" /\ pc[c] \in Running /\ db = c
      /\ conns[c] \in ConnRec /\ at[c] \in Nat /\ Count[c] \in Nat
      /\ db' = db /\ result' = result /\ at' = at /\ pc' = [pc EXCEPT ![c] = "closeYES"]
  BY Alone, SqlTypes DEF SqlInv, Running, Commit, Goto
<1>2. /\ conns[c].state = "open" /\ ~conns[c].stmt
      /\ conns[c].pending = {<<c, i>> : i \in 1..at[c]}
      /\ at[c] = Count[c] /\ result[c] = nil /\ None(c)
  BY <1>1 DEF CallInv, Running, Commit, MoreSqls
<1>3. conns[c].pending = RowsOf(c)
  BY <1>2 DEF RowsOf
<1>4. /\ conns' \in [Call -> ConnRec]
      /\ \A o \in Call \ {c} : conns'[o] = conns[o]
      /\ conns'[c].state = "open" /\ ~conns'[c].stmt
      /\ stored' = stored \/ stored' = stored \cup RowsOf(c)
  <2>1. CASE ExecFails
    BY <1>1, <1>2, <2>1, ExecFailsFacts
  <2>2. CASE stored' = stored \cup Conn.pending /\ SetConn(Rolledback(Conn))
    <3>1. conns' = [conns EXCEPT ![c] = Rolledback(conns[c])]
      BY <1>1, <2>2 DEF SetConn, Conn
    <3>2. /\ Rolledback(conns[c]) \in ConnRec /\ ~Rolledback(conns[c]).stmt
          /\ Rolledback(conns[c]).state = "open"
      BY <1>1, <1>2, ConnFacts
    <3> QED
      BY <1>1, <1>3, <2>2, <3>1, <3>2, SqlTypes DEF Conn
  <2> QED
    BY <2>1, <2>2 DEF Commit, commitTransaction
<1>5. TypeOK'
  BY <1>1, <1>4, RowFacts DEF TypeOK, PC
<1>6. CallInv(c)'
  <2>1. result'[c] = nil /\ db' = c /\ pc'[c] = "closeYES"
    BY <1>1, <1>2, SqlTypes
  <2>2. (Stored(c) \/ None(c))'
    <3>1. CASE stored' = stored
      BY <1>2, <3>1, SameRows
    <3>2. CASE stored' = stored \cup RowsOf(c)
      BY <3>2 DEF Stored, RowsOf
    <3> QED
      BY <1>4, <3>1, <3>2
  <2> QED
    BY <1>4, <2>1, <2>2, SqliteAssumption DEF CallInv, Running
<1> QED
  BY <1>1, <1>4, <1>5, <1>6, OwnStep, SqlTypes

\* A step of querySql stores nothing and keeps the connection.
LEMMA QueryStep ==
    ASSUME SqlInv, NEW c \in Call, pc[c] \in {"prepare", "step"},
           NEW b \in BOOLEAN, conns' = [conns EXCEPT ![c] = [conns[c] EXCEPT !.stmt = b]],
           NEW label \in {"step", "closeNO", "closeRows"}, b => label = "step",
           pc' = [pc EXCEPT ![c] = label],
           at' \in [Call -> Nat], \A o \in Call \ {c} : at'[o] = at[o],
           stored' = stored, db' = db, result' = result
    PROVE  SqlInv'
<1>1. /\ TypeOK /\ CallInv(c) /\ pc[c] \in Running /\ db = c
      /\ conns[c] \in ConnRec
  BY Alone, SqlTypes DEF SqlInv, Running
<1>2. conns[c].state = "open" /\ result[c] = nil /\ None(c)
  BY <1>1 DEF CallInv, Running
<1>3. PICK conn : conn = [conns[c] EXCEPT !.stmt = b]
  OBVIOUS
<1>4. conn \in ConnRec /\ conn.state = "open" /\ conn.stmt = b
  BY <1>1, <1>2, <1>3 DEF ConnRec
<1>5. conns' = [conns EXCEPT ![c] = conn]
  BY <1>3
<1>6. TypeOK'
  BY <1>1, <1>4, <1>5 DEF TypeOK, PC
<1>7. CallInv(c)'
  <2>1. conns'[c] = conn /\ result'[c] = nil /\ db' = c /\ pc'[c] = label
    BY <1>1, <1>2, <1>5, SqlTypes
  <2>2. None(c)'
    BY <1>2, SameRows
  <2> QED
    BY <1>4, <2>1, <2>2, SqliteAssumption DEF CallInv, Running
<1> QED
  BY <1>1, <1>5, <1>6, <1>7, OwnStep, SqlTypes

\* Prepare, of querySql: a statement is prepared, or there is none.
LEMMA PrepareInv ==
    ASSUME SqlInv, NEW c \in Call, Prepare(c)
    PROVE  SqlInv'
<1>1. /\ TypeOK /\ CallInv(c) /\ pc[c] = "prepare" /\ db = c /\ conns[c] \in ConnRec
      /\ stored' = stored /\ db' = db /\ at' = at /\ result' = result
  BY Alone, SqlTypes DEF SqlInv, Running, Prepare
<1>2. ~conns[c].stmt
  BY <1>1 DEF CallInv, Running
<1>3. conns[c] = [conns[c] EXCEPT !.stmt = FALSE]
  BY <1>1, <1>2 DEF ConnRec
<1>4. \/ /\ conns' = [conns EXCEPT ![c] = [conns[c] EXCEPT !.stmt = TRUE]]
         /\ pc' = [pc EXCEPT ![c] = "step"]
      \/ conns' = conns /\ pc' = [pc EXCEPT ![c] = "closeNO"]
  BY <1>1 DEF Prepare, SetConn, Conn, Goto
<1>5. conns = [conns EXCEPT ![c] = [conns[c] EXCEPT !.stmt = FALSE]]
  BY <1>1, <1>3, SqlTypes
<1>6. at' \in [Call -> Nat]
  BY <1>1, SqlTypes
<1>7. CASE /\ conns' = [conns EXCEPT ![c] = [conns[c] EXCEPT !.stmt = TRUE]]
           /\ pc' = [pc EXCEPT ![c] = "step"]
  BY <1>1, <1>6, <1>7, QueryStep
<1>8. CASE conns' = conns /\ pc' = [pc EXCEPT ![c] = "closeNO"]
  BY <1>1, <1>5, <1>6, <1>8, QueryStep
<1> QED
  BY <1>4, <1>7, <1>8

\* Step, of querySql: the statement is finalized before the connection is closed.
LEMMA StepInv ==
    ASSUME SqlInv, NEW c \in Call, Step(c)
    PROVE  SqlInv'
<1>1. /\ TypeOK /\ CallInv(c) /\ pc[c] = "step" /\ pc[c] \in Running /\ db = c
      /\ conns[c] \in ConnRec /\ at \in [Call -> Nat]
      /\ stored' = stored /\ db' = db /\ result' = result
  BY Alone, SqlTypes DEF SqlInv, Running, Step
<1>2. CASE at' = [at EXCEPT ![c] = @ + 1] /\ UNCHANGED <<conns, pc>>
  <2>1. TypeOK'
    BY <1>1, <1>2 DEF TypeOK
  <2>2. (None(c)' <=> None(c)) /\ (Stored(c)' <=> Stored(c))
    BY <1>1, SameRows
  <2>3. CallInv(c)'
    BY <1>1, <1>2, <2>2 DEF CallInv, Running
  <2> QED
    BY <1>1, <1>2, <2>1, <2>3, OwnStep
<1>3. CASE SetConn(Finalized(Conn)) /\ Goto(c, "closeRows") /\ UNCHANGED at
  BY <1>1, <1>3, QueryStep DEF SetConn, Finalized, Conn, Goto
<1> QED
  BY <1>2, <1>3 DEF Step

\* The end of the process: what was not committed is gone, and no call returns.
LEMMA CrashInv ==
    ASSUME SqlInv, Crash
    PROVE  SqlInv'
<1>1. /\ conns' = [c \in Call |-> NoConn] /\ db' = nil
      /\ pc' = [c \in Call |-> IF pc[c] = "idle" THEN "idle" ELSE "done"]
      /\ stored' = stored /\ at' = at /\ result' = result
  BY DEF Crash
<1>2. /\ NoConn \in ConnRec /\ NoConn.state = "unused" /\ ~NoConn.txn /\ ~NoConn.stmt
  BY DEF NoConn, NewConn, ConnRec
<1>3. TypeOK'
  BY <1>1, <1>2 DEF SqlInv, TypeOK, PC
<1>4. ASSUME NEW c \in Call
      PROVE  CallInv(c)'
  <2>1. CallInv(c) /\ (None(c)' <=> None(c)) /\ (Stored(c)' <=> Stored(c))
    BY <1>1, SameRows DEF SqlInv
  <2>2. conns'[c] = NoConn /\ (pc'[c] = "idle" <=> pc[c] = "idle")
        /\ pc'[c] \in {"idle", "done"}
    BY <1>1
  <2> QED
    BY <1>1, <1>2, <2>1, <2>2 DEF CallInv, Running
<1> QED
  BY <1>3, <1>4 DEF SqlInv

----------------------------------------------------------------------------
(* The specification.                                                       *)

\* SqlInv is inductive when calls do not overlap.
LEMMA SqlNextInv ==
    ASSUME ~Overlap, SqlInv, [Next]_vars
    PROVE  SqlInv'
<1>1. CASE Crash
  BY <1>1, CrashInv
<1>2. ASSUME NEW c \in Call, Method(c)
      PROVE  SqlInv'
  <2>1. CASE executeSql(c)
    BY <2>1, OpenInv, ExecInv DEF executeSql
  <2>2. CASE executeSqls(c)
    BY <2>2, OpenInv, BeginInv, LoopInv, RollbackInv, CommitInv DEF executeSqls
  <2>3. CASE querySql(c)
    BY <2>3, OpenInv, PrepareInv, StepInv DEF querySql
  <2>4. CASE OpenFails(c)
    BY <2>4, OpenFailsInv
  <2>5. CASE Close(c, "closeYES", "YES")
    BY <2>5, CloseInv
  <2>6. CASE Close(c, "closeNO", "NO")
    BY <2>6, CloseInv
  <2>7. CASE Close(c, "closeRows", "rows")
    BY <2>7, CloseInv
  <2> QED
    BY <1>2, <2>1, <2>2, <2>3, <2>4, <2>5, <2>6, <2>7 DEF Method
<1>3. CASE UNCHANGED vars
  <2>1. TypeOK'
    BY <1>3 DEF SqlInv, TypeOK, vars
  <2>2. ASSUME NEW c \in Call
        PROVE  CallInv(c)'
    BY <1>3, SameRows DEF SqlInv, CallInv, vars
  <2> QED
    BY <2>1, <2>2 DEF SqlInv
<1> QED
  BY <1>1, <1>2, <1>3 DEF Next

\* SqlInv holds in every state when calls do not overlap.
THEOREM SqlInvariance ==
    ASSUME ~Overlap
    PROVE  Spec => []SqlInv
<1>1. SqlInv /\ [Next]_vars => SqlInv'
  BY SqlNextInv
<1> QED
  BY <1>1, SqlInitInv, PTL DEF Spec

\* The handle, the connections, the rows and the program counters keep their types.
THEOREM SqlTypeInvariance ==
    ASSUME ~Overlap
    PROVE  Spec => []TypeOK
BY SqlInvariance, PTL DEF SqlInv

\* executeSqls is atomic: for every number of calls and statements, whatever SQLite
\* refuses and wherever the process ends, all the rows of a batch are stored or none.
THEOREM BatchesAtomic ==
    ASSUME ~Overlap
    PROVE  Spec => []AllOrNothing
<1>1. SqlInv => AllOrNothing
  BY DEF SqlInv, CallInv, AllOrNothing, None, Stored
<1> QED
  BY <1>1, SqlInvariance, PTL

\* A call of executeSql, executeSqls or querySql that returns NO stored nothing.
THEOREM RefusedStoresNothing ==
    ASSUME ~Overlap
    PROVE  Spec => []NoMeansNothing
<1>1. SqlInv => NoMeansNothing
  BY DEF SqlInv, CallInv, NoMeansNothing, None
<1> QED
  BY <1>1, SqlInvariance, PTL

\* Between calls no connection is open and no transaction is held: every path of the
\* methods goes through closeDB, with its statement finalized.
THEOREM ConnectionsAreClosed ==
    ASSUME ~Overlap
    PROVE  Spec => []ConnectionsClosed
<1>1. SqlInv => ConnectionsClosed
  <2> SUFFICES ASSUME SqlInv, \A c \in Call : pc[c] \in {"idle", "done"}, NEW c \in Call
               PROVE  conns[c].state # "open" /\ ~conns[c].txn
    BY DEF ConnectionsClosed
  <2>1. NoConn.state = "unused" /\ ~NoConn.txn
    BY DEF NoConn, NewConn
  <2> QED
    BY <2>1 DEF SqlInv, CallInv
<1> QED
  BY <1>1, SqlInvariance, PTL
================================================================================
