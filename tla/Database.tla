------------------------------- MODULE Database --------------------------------
(***************************************************************************)
(* sqlite_db, the typed wrapper of sqlite3, with the caller that the       *)
(* daemon is: run() opens the database and creates the tables before its   *)
(* loop, then statements are built, prepared, bound and executed one at a  *)
(* time.  Any call of sqlite may fail and the process may die anywhere;    *)
(* the tables outlive it.  The daemon catches no exception of a statement  *)
(* and closes the database only by exiting; another caller may do both.    *)
(*                                                                         *)
(* A column is its position in `columnas'; a field is v1..v6 of an obj_db. *)
(***************************************************************************)
EXTENDS Integers, SequencesExt, FiniteSetsExt

CONSTANTS Calls,    \* insert_obj and update_obj calls: columns, fields, their types, NULLs
          MaxLeaks  \* bound: statements left unfinalized

Fields == 1..6

\* A field's type: int or double, null_db, char*, string, another one that can be counted,
\* and the void* of the fields that are not there.
Types == {"number", "null", "chars", "string", "other", "void"}

ASSUME CallsAssumption ==
  /\ Calls \subseteq [op : {"insert", "update"}, cols : 1..12, set : Fields, where : Fields,
                      nulls : SUBSET Fields, type : [{"set", "where"} \X Fields -> Types]]
  /\ MaxLeaks \in Nat

Tables == <<"sensores", "log", "log_canal">>

VARIABLES at,        \* start, create, ready, prepare, bind, execute, closed, over, deleted
          tables,    \* in the file
          handle,    \* sqlite's connection: none, open, closed, freed twice
          db_status,
          open,      \* statements prepared and not finalized
          call,      \* the call going on
          size,      \* columnas_set and columnas_where
          cnt,       \* next table to create, next parameter to bind
          stmt,      \* the statement's pointer is not NULL
          bound,     \* parameter -> field it is bound to
          last,      \* what the latest call did and how it returned
          leaked     \* history: statements left by a bind that threw

volatile == <<handle, db_status, open, leaked>>
callVars == <<call, size, stmt, bound>>
vars == <<at, tables, volatile, callVars, cnt, last>>

NoCall == [op |-> "insert", cols |-> 1, set |-> 1, where |-> 1, nulls |-> {},
           type |-> [f \in {"set", "where"} \X Fields |-> "number"]]
Nothing == [k \in {} |-> <<"null">>]
NoResult == [applied |-> FALSE, result |-> "returned"]
Done == [applied |-> TRUE, result |-> "returned"]

Init ==
  /\ at = "start" /\ tables = {}
  /\ handle = "none" /\ db_status = "CLOSED" /\ open = 0 /\ leaked = 0
  /\ call = NoCall /\ size = [set |-> 1, where |-> 1] /\ stmt = FALSE /\ bound = Nothing
  /\ cnt = 1 /\ last = Done

-----------------------------------------------------------------------------
(* Opening, creating the tables, closing.                                   *)

Open ==
  /\ at = "start" /\ at' = "create"
  /\ handle' = "open" /\ db_status' = "OPEN" /\ cnt' = 1
  /\ UNCHANGED <<tables, open, leaked, callVars, last>>

\* exit( -1 ).
OpenFails ==
  /\ at = "start" /\ at' = "over"
  /\ UNCHANGED <<tables, volatile, callVars, cnt, last>>

\* query_db( "CREATE TABLE IF NOT EXISTS ..." ).
QueryDb ==
  /\ at = "create" /\ db_status = "OPEN"
  /\ tables' = tables \union {Tables[cnt]}
  /\ IF cnt = Len(Tables) THEN at' = "ready" /\ cnt' = 1 ELSE at' = at /\ cnt' = cnt + 1
  /\ UNCHANGED <<volatile, callVars, last>>

\* Mutant: the exception does not end the set-up.
QueryDbFailsOn ==
  /\ at = "create"
  /\ IF cnt = Len(Tables) THEN at' = "ready" /\ cnt' = 1 ELSE at' = at /\ cnt' = cnt + 1
  /\ UNCHANGED <<tables, volatile, callVars, last>>

\* close_db(): db_status stays OPEN.
CloseDb ==
  handle' = IF db_status = "CLOSED" THEN handle
            ELSE IF handle = "closed" THEN "freed twice"
            ELSE IF open > 0 THEN handle   \* SQLITE_BUSY
            ELSE "closed"

\* The exception is caught: delete theDB, exit( -1 ).
QueryDbFails ==
  /\ at = "create" /\ at' = "over"
  /\ CloseDb
  /\ UNCHANGED <<tables, db_status, open, leaked, callVars, cnt, last>>

\* close_db() by a caller: throws if it could not close.
CallerCloses ==
  /\ at = "ready" /\ CloseDb
  /\ at' = IF handle' = "closed" THEN "closed" ELSE at
  /\ UNCHANGED <<tables, db_status, open, leaked, callVars, cnt, last>>

\* The destructor swallows what close_db() throws.
Delete ==
  /\ at \in {"ready", "closed"} /\ at' = "deleted"
  /\ CloseDb
  /\ UNCHANGED <<tables, db_status, open, leaked, callVars, cnt, last>>

-----------------------------------------------------------------------------
(* insert_obj() and update_obj().                                           *)

\* get_obj_db_size(): for six fields it ends without a return.
GetObjDbSize(fields) == IF fields = 6 THEN 0..7 ELSE {fields}

Call(c) ==
  /\ at = "ready" /\ open < MaxLeaks /\ at' = "prepare"
  /\ call' = c /\ cnt' = 1 /\ bound' = Nothing
  /\ size' \in [set : GetObjDbSize(c.set), where : GetObjDbSize(c.where)]
  /\ last' = NoResult
  /\ UNCHANGED <<tables, volatile, stmt>>

\* Columns up to columnas_set are assigned, the others are conditions of the WHERE.
Assigned(k) == k <= size.set

\* An UPDATE that assigns nothing is no statement; an INSERT always is one.
Prepare ==
  /\ at = "prepare" /\ at' = "bind"
  /\ call.op = "update" => Assigned(1)
  /\ stmt' = TRUE /\ open' = open + 1
  /\ UNCHANGED <<tables, handle, db_status, leaked, call, size, cnt, bound, last>>

\* The answer is not looked at; the pointer is NULL.
PrepareFails ==
  /\ at = "prepare" /\ at' = "bind"
  /\ stmt' = FALSE
  /\ UNCHANGED <<tables, volatile, call, size, cnt, bound, last>>

\* Parameters that fields of t_set are bound to.
SetBinds == Min({size.set, 6})

\* Mutant: one field of t_set too many.
FieldLate(p) == IF p <= SetBinds + 1 THEN <<"set", p>> ELSE <<"where", p - SetBinds - 1>>

\* The field that binder() is given for a parameter.
FieldOf(p) ==
  IF call.op = "insert" \/ p <= SetBinds THEN <<"set", p>> ELSE <<"where", p - SetBinds>>

\* The unspecialised binder() and that of void* call nothing of sqlite.
HasBinder(p) == call.type[FieldOf(p)] \notin {"other", "void"}

\* What reaches sqlite3_step(): a number; the caller's text with the NUL that ends it, which
\* is counted as part of it; for a string the memory of binder()'s own parameter, destroyed
\* by then, which holds anything.
Passed == [number |-> "value", chars |-> "text and NUL", string |-> "dead memory"]

\* What binder() binds to a parameter.
Binder(p) ==
  LET f == FieldOf(p)
  IN  IF call.type[f] = "null" \/ (call.op = "insert" /\ p \in call.nulls)
        THEN <<"null">>
        ELSE <<Passed[call.type[f]], f>>

\* Parameters the call binds: the fields there are, up to v6, which for an update are
\* first those of t_set and then those of t_where.  An insert's void* fields are left out.
ToBind ==
  IF call.op = "insert" THEN call.set
  ELSE SetBinds + Min({size.set + size.where - SetBinds, 6})

Bind ==
  /\ at = "bind" /\ stmt /\ cnt <= ToBind /\ cnt <= call.cols /\ HasBinder(cnt)
  /\ bound' = [p \in DOMAIN bound \union {cnt} |-> IF p = cnt THEN Binder(cnt) ELSE bound[p]]
  /\ cnt' = cnt + 1
  /\ UNCHANGED <<at, tables, volatile, call, size, stmt, last>>

\* The parameter stays NULL, also one that the text does not have.
BindsNothing ==
  /\ at = "bind" /\ cnt <= ToBind /\ ~HasBinder(cnt)
  /\ cnt' = cnt + 1
  /\ UNCHANGED <<at, tables, volatile, callVars, last>>

Throw(exception) ==
  /\ last' = [applied |-> FALSE, result |-> exception]
  /\ at' \in {"ready", "over"}

\* binder_error_check() throws: a NULL statement (MISUSE), a parameter the text does not
\* have (RANGE), or sqlite is out of memory.  A statement there was is not finalized.
BindThrows ==
  /\ at = "bind" /\ cnt <= ToBind /\ HasBinder(cnt)
  /\ Throw(IF stmt /\ cnt > call.cols THEN "sqlite_index_excp" ELSE "sqlite_excp")
  /\ leaked' = IF stmt THEN leaked + 1 ELSE leaked
  /\ UNCHANGED <<tables, handle, db_status, open, callVars, cnt>>

BindsDone ==
  /\ at = "bind" /\ cnt > ToBind /\ at' = "execute"
  /\ UNCHANGED <<tables, volatile, callVars, cnt, last>>

\* sqlite3_step() succeeds; a row that OR IGNORE drops is no error.
Execute ==
  /\ at = "execute" /\ stmt /\ at' = "ready"
  /\ last' = Done
  /\ open' = open - 1
  /\ UNCHANGED <<tables, handle, db_status, leaked, callVars, cnt>>

\* Mutant: the answer looked at is that of sqlite3_finalize(), after the reset.
ExecuteFailsSilently ==
  /\ at = "execute" /\ stmt /\ at' = "ready"
  /\ last' = NoResult
  /\ open' = open - 1
  /\ UNCHANGED <<tables, handle, db_status, leaked, callVars, cnt>>

\* Mutant: the exception comes before sqlite3_finalize().
ExecuteFailsUnfinalized ==
  /\ at = "execute" /\ stmt
  /\ \E exception \in {"sqlite_busy_excp", "sqlite_insert_excp"} : Throw(exception)
  /\ UNCHANGED <<tables, volatile, callVars, cnt>>

\* sqlite3_step() fails: sqlite3_reset() answers the same again, the statement is
\* finalized, and then the exception is thrown.
ExecuteFails ==
  /\ at = "execute" /\ stmt
  /\ \E exception \in {"sqlite_busy_excp", "sqlite_insert_excp"} : Throw(exception)
  /\ open' = open - 1
  /\ UNCHANGED <<tables, handle, db_status, leaked, callVars, cnt>>

\* No statement and nothing was bound: sqlite3_reset( NULL ) answers SQLITE_OK.
ExecuteNothing ==
  /\ at = "execute" /\ ~stmt /\ at' = "ready"
  /\ UNCHANGED <<tables, volatile, callVars, cnt, last>>

-----------------------------------------------------------------------------
\* The process dies.
Die ==
  /\ at \notin {"over", "deleted"} /\ at' = "over"
  /\ UNCHANGED <<tables, volatile, callVars, cnt, last>>

\* The daemon is started again.
Restart ==
  /\ at \in {"over", "deleted"} /\ at' = "start"
  /\ handle' = "none" /\ db_status' = "CLOSED" /\ open' = 0 /\ leaked' = 0
  /\ last' = Done /\ UNCHANGED <<tables, callVars, cnt>>

Next ==
  \/ Open \/ OpenFails \/ QueryDb \/ QueryDbFails \/ CallerCloses \/ Delete
  \/ \E c \in Calls : Call(c)
  \/ Prepare \/ PrepareFails \/ Bind \/ BindsNothing \/ BindThrows \/ BindsDone
  \/ Execute \/ ExecuteFails \/ ExecuteNothing
  \/ Die \/ Restart

Spec == Init /\ [][Next]_vars

-----------------------------------------------------------------------------
(* Properties.                                                              *)

\* The variables keep their types.
TypeOK ==
  /\ at \in {"start", "create", "ready", "prepare", "bind", "execute", "closed", "over",
             "deleted"}
  /\ tables \subseteq {Tables[k] : k \in 1..3}
  /\ handle \in {"none", "open", "closed", "freed twice"}
  /\ db_status \in {"CLOSED", "OPEN"}
  /\ open \in 0..MaxLeaks /\ leaked \in 0..MaxLeaks
  /\ call \in Calls \union {NoCall} /\ size \in [set : 0..7, where : 0..7]
  /\ cnt \in 1..13 /\ stmt \in BOOLEAN
  /\ DOMAIN bound \subseteq 1..call.cols
  /\ last.applied \in BOOLEAN

\* No statement is built before the three tables exist, also when an earlier set-up died
\* or failed half way and the file has only some of them (peibol.cpp:67-96).
TablesBeforeUse ==
  at \in {"ready", "prepare", "bind", "execute"} => tables = {Tables[k] : k \in 1..3}

\* Between calls the only statements left are those of binds that threw, so deleting the
\* object closes the connection unless there was one (the destructor swallows sqlite's
\* BUSY) or close_db() had closed it already (sqlite_db.cpp:29-35, 307-326).
ClosedOnDelete ==
  /\ at = "ready" => open = leaked
  /\ at = "deleted" => \/ handle = "open" /\ leaked > 0
                       \/ handle \in {"closed", "freed twice"} /\ leaked = 0

\* There are as many columns as fields, and an update has at most five fields in each
\* structure, those that get_obj_db_size() can count.
AsAsked ==
  /\ call.op = "insert" => call.cols = call.set
  /\ call.op = "update" => /\ call.cols = call.set + call.where
                           /\ call.set <= 5 /\ call.where <= 5

\* The field that the caller means for a column.
Meant(k) ==
  IF call.op = "insert" \/ k <= call.set THEN <<"set", k>> ELSE <<"where", k - call.set>>

\* A call that binds anything and comes back without an exception was executed by sqlite,
\* and one that was executed comes back without one: the answer of sqlite3_step() survives
\* sqlite3_reset() and sqlite3_finalize(), and a bind notices a statement that could not be
\* prepared, whose answer nobody looks at (sqlite_db.h:109-140, 185-230).
BindsAny == \E p \in 1..ToBind : HasBinder(p)
NormalIffApplied == at = "ready" /\ BindsAny => (last.result = "returned") = last.applied

\* The two loops of a call, one for the text and one for the parameters, agree on the column
\* of every field (sqlite_db.h:166-206): an update assigns the columns of t_set and selects
\* by those of t_where, and a column of a number or a NULL gets that number or NULL.  Nothing
\* is said of the other types, whose binders do not keep what the caller gave them.
StatementAsMeant ==
  at = "execute" /\ AsAsked =>
    \A k \in 1..call.cols :
      /\ call.op = "update" => (Assigned(k) <=> k <= call.set)
      /\ call.type[Meant(k)] \in {"number", "null"} =>
           /\ k \in DOMAIN bound
           /\ bound[k] = IF call.type[Meant(k)] = "null"
                              \/ (call.op = "insert" /\ k \in call.nulls)
                           THEN <<"null">>
                           ELSE <<"value", Meant(k)>>
===============================================================================
