----------------------------- MODULE DatabaseProofs -----------------------------
(***************************************************************************)
(* Theorems about Database for every set of calls and number of leaks.     *)
(***************************************************************************)
EXTENDS Database, TLAPS

InCall == {"prepare", "bind", "execute"}
AllTables == {Tables[k] : k \in 1..3}

\* The set-up creates the tables in their order.
Tabled ==
  /\ tables \subseteq AllTables
  /\ at = "create" => cnt \in 1..3 /\ \A k \in 1..3 : k < cnt => Tables[k] \in tables
  /\ at \in InCall \union {"ready", "closed"} => tables = AllTables

\* The statements not finalized: the one in hand, and those of binds that threw.
Handled ==
  /\ leaked \in Nat
  /\ at \in {"start", "create"} => open = 0 /\ leaked = 0
  /\ at \in {"ready", "prepare"} => open = leaked
  /\ at \in {"bind", "execute"} /\ stmt => open = leaked + 1
  /\ at \in {"bind", "execute"} /\ ~stmt => open = leaked
  /\ at \in InCall \union {"create", "ready"} => handle = "open"
  /\ at \in InCall \union {"create", "ready", "closed"} => db_status = "OPEN"
  /\ at = "closed" => handle = "closed" /\ open = leaked /\ leaked = 0

Exceptions == {"sqlite_excp", "sqlite_index_excp", "sqlite_busy_excp", "sqlite_insert_excp"}

\* What a call has answered so far, and that a statement sqlite does not have is noticed by
\* the first bind.
Answered ==
  /\ at \in {"start", "create"} => last = Done
  /\ at \in InCall => last = NoResult
  /\ at = "bind" /\ ~stmt => \A p \in 1..cnt - 1 : ~HasBinder(p)
  /\ at = "execute" => stmt \/ ~BindsAny
  /\ at = "ready" /\ BindsAny => \/ last = Done
                                \/ \E e \in Exceptions : last = [applied |-> FALSE, result |-> e]

\* get_obj_db_size() can count the fields.
Counted == call.op = "update" => call.set <= 5 /\ call.where <= 5

\* The parameters bound so far.
BoundSoFar ==
  /\ at \in InCall =>
       /\ call \in Calls /\ size \in [set : 0..7, where : 0..7]
       /\ call.op = "update" /\ Counted => size = [set |-> call.set, where |-> call.where]
       /\ cnt \in Nat \ {0}
       /\ DOMAIN bound = {p \in 1..cnt - 1 : HasBinder(p)}
       /\ \A p \in DOMAIN bound : bound[p] = Binder(p)
  /\ at = "prepare" => cnt = 1
  /\ at = "execute" => cnt > ToBind

\* The inductive invariant.
IInv == Tabled /\ Handled /\ Answered /\ BoundSoFar /\ ClosedOnDelete

-----------------------------------------------------------------------------
(* Lemmas.                                                                  *)

\* The smaller of two numbers.
LEMMA MinOfTwo ==
  ASSUME NEW m \in Nat, NEW n \in Nat
  PROVE  Min({m, n}) = IF m <= n THEN m ELSE n
<1> DEFINE s == IF m <= n THEN m ELSE n
<1>1. s \in {m, n} /\ \A y \in {m, n} : s <= y
  OBVIOUS
<1>2. \A x \in {m, n} : (\A y \in {m, n} : x <= y) => x = s
  OBVIOUS
<1> HIDE DEF s
<1>3. Min({m, n}) = CHOOSE x \in {m, n} : \A y \in {m, n} : x <= y
  BY DEF Min
<1>4. Min({m, n}) = s
  BY <1>1, <1>2, <1>3
<1> QED BY <1>4 DEF s

\* No call binds more than six fields of each of two structures.
LEMMA BindsAtMost ==
  ASSUME call \in Calls, size \in [set : 0..7, where : 0..7]
  PROVE  ToBind \in 0..12
<1>1. call.set \in 1..6 /\ size.set \in 0..7 /\ size.where \in 0..7
  BY CallsAssumption DEF Fields
<1>2. SetBinds \in 0..6 /\ SetBinds <= size.set
  BY <1>1, MinOfTwo DEF SetBinds
<1>3. Min({size.set + size.where - SetBinds, 6}) \in 0..6
  <2>1. size.set + size.where - SetBinds \in Nat
    BY <1>1, <1>2
  <2> QED BY <2>1, MinOfTwo
<1> HIDE DEF SetBinds
<1> QED BY <1>1, <1>2, <1>3 DEF ToBind

\* The caller's structures, if they can be counted: as many binds as fields.
LEMMA BindsOfCounted ==
  ASSUME BoundSoFar, at \in InCall, Counted
  PROVE  /\ call.op = "insert" => ToBind = call.set
         /\ call.op = "update" => SetBinds = call.set /\ ToBind = call.set + call.where
         /\ call.set \in 1..6 /\ call.where \in 1..6 /\ call.op \in {"insert", "update"}
<1>1. /\ call.set \in 1..6 /\ call.where \in 1..6 /\ call.op \in {"insert", "update"}
  BY CallsAssumption DEF BoundSoFar, Fields
<1>2. ASSUME call.op = "update" PROVE SetBinds = call.set /\ ToBind = call.set + call.where
  <2>1. size.set = call.set /\ size.where = call.where /\ call.set <= 5 /\ call.where <= 5
    BY <1>2 DEF BoundSoFar, Counted
  <2>2. SetBinds = call.set
    BY <1>1, <2>1, MinOfTwo DEF SetBinds
  <2>3. size.set + size.where - SetBinds = call.where
    BY <1>1, <2>1, <2>2
  <2>4. Min({call.where, 6}) = call.where
    BY <1>1, <2>1, MinOfTwo
  <2> QED BY <1>2, <2>2, <2>3, <2>4 DEF ToBind
<1> QED BY <1>1, <1>2 DEF ToBind

-----------------------------------------------------------------------------
(* The steps.                                                               *)

\* The tables.
LEMMA TabledStep == ASSUME IInv, [Next]_vars PROVE Tabled'
<1> USE DEF IInv, Tabled, InCall
<1>1. CASE UNCHANGED <<at, tables, cnt>>
  BY <1>1
<1>2. CASE Open
  BY <1>2 DEF Open
<1>3. CASE QueryDb
  <2>1. cnt \in 1..3 /\ Len(Tables) = 3 /\ tables' = tables \union {Tables[cnt]}
    BY <1>3 DEF QueryDb, Tables
  <2>2. CASE cnt = 3
    BY <1>3, <2>1, <2>2 DEF QueryDb, AllTables
  <2>3. CASE cnt # 3
    BY <1>3, <2>1, <2>3 DEF QueryDb, AllTables
  <2> QED BY <2>2, <2>3
<1>4. CASE OpenFails \/ QueryDbFails \/ Delete \/ Die \/ Restart
  BY <1>4 DEF OpenFails, QueryDbFails, Delete, Die, Restart
<1>5. CASE CallerCloses
  BY <1>5 DEF CallerCloses
<1>6. CASE (\E c \in Calls : Call(c)) \/ Prepare \/ PrepareFails \/ Bind \/ BindsNothing
           \/ BindsDone \/ Execute \/ ExecuteNothing
  BY <1>6 DEF Call, Prepare, PrepareFails, Bind, BindsNothing, BindsDone, Execute,
              ExecuteNothing
<1>7. CASE BindThrows \/ ExecuteFails
  BY <1>7 DEF BindThrows, ExecuteFails, Throw
<1> QED BY <1>1, <1>2, <1>3, <1>4, <1>5, <1>6, <1>7 DEF Next, vars

\* The destructor: the connection stays if a statement does.
LEMMA DeleteStep == ASSUME Handled, Delete PROVE ClosedOnDelete'
<1>1. /\ at \in {"ready", "closed"} /\ at' = "deleted" /\ CloseDb /\ leaked' = leaked
  BY DEF Delete
<1>2. db_status = "OPEN" /\ leaked \in Nat
  BY <1>1, Zenon DEF Handled
<1>3. CASE at = "closed"
  <2>1. handle = "closed" /\ leaked = 0
    BY <1>3 DEF Handled
  <2> QED BY <1>1, <1>2, <2>1 DEF CloseDb, ClosedOnDelete
<1>4. CASE at = "ready"
  <2>1. handle = "open" /\ open = leaked
    BY <1>4 DEF Handled
  <2>2. handle' = IF leaked > 0 THEN "open" ELSE "closed"
    BY <1>1, <1>2, <2>1 DEF CloseDb
  <2>3. CASE leaked > 0
    BY <1>1, <2>2, <2>3 DEF ClosedOnDelete
  <2>4. CASE ~(leaked > 0)
    BY <1>1, <1>2, <2>2, <2>4 DEF ClosedOnDelete
  <2> QED BY <2>3, <2>4
<1> QED BY <1>1, <1>3, <1>4

\* The connection and its statements.
LEMMA HandledStep == ASSUME IInv, [Next]_vars PROVE Handled' /\ ClosedOnDelete'
<1> USE DEF IInv, Handled, ClosedOnDelete, InCall
<1>1. CASE UNCHANGED vars
  BY <1>1 DEF vars, volatile, callVars
<1>2. CASE Open
  BY <1>2 DEF Open, volatile, callVars
<1>3. CASE OpenFails
  BY <1>3 DEF OpenFails, volatile, callVars
<1>4. CASE QueryDb
  BY <1>4 DEF QueryDb, volatile, callVars
<1>5. CASE QueryDbFails
  BY <1>5 DEF QueryDbFails, CloseDb, volatile, callVars
<1>6. CASE Die
  BY <1>6 DEF Die, volatile, callVars
<1>7. CASE Restart
  BY <1>7 DEF Restart, volatile, callVars
<1>8. CASE CallerCloses
  BY <1>8 DEF CallerCloses, CloseDb, volatile, callVars
<1>9. CASE Delete
  BY <1>9, DeleteStep DEF Delete, volatile
<1>10. CASE \E c \in Calls : Call(c)
  BY <1>10 DEF Call, volatile, callVars
<1>11. CASE Prepare
  BY <1>11 DEF Prepare, volatile, callVars
<1>12. CASE PrepareFails
  BY <1>12 DEF PrepareFails, volatile, callVars
<1>13. CASE Bind
  BY <1>13 DEF Bind, volatile, callVars
<1>14. CASE BindsNothing
  BY <1>14 DEF BindsNothing, volatile, callVars
<1>15. CASE BindsDone
  BY <1>15 DEF BindsDone, volatile, callVars
<1>16. CASE BindThrows
  BY <1>16 DEF BindThrows, Throw, volatile, callVars
<1>17. CASE Execute
  BY <1>17 DEF Execute, volatile, callVars
<1>18. CASE ExecuteNothing
  BY <1>18 DEF ExecuteNothing, volatile, callVars
<1>19. CASE ExecuteFails
  BY <1>19 DEF ExecuteFails, Throw, volatile, callVars
<1> QED BY <1>1, <1>2, <1>3, <1>4, <1>5, <1>6, <1>7, <1>8, <1>9, <1>10,
           <1>11, <1>12, <1>13, <1>14, <1>16, <1>17, <1>18, <1>19, <1>15 DEF Next

\* What a call binds does not change with where it is.
LEMMA SameBinds ==
  ASSUME UNCHANGED <<call, size>>
  PROVE  (ToBind' = ToBind) /\ (\A p : HasBinder(p)' <=> HasBinder(p)) /\ (BindsAny' <=> BindsAny)
<1>1. ToBind' = ToBind /\ SetBinds' = SetBinds
  BY DEF ToBind, SetBinds
<1>2. \A p : HasBinder(p)' <=> HasBinder(p)
  BY <1>1 DEF HasBinder, FieldOf
<1> QED BY <1>1, <1>2 DEF BindsAny

\* The answers.  A call without its statement meets a bind, which throws, if it has one.
LEMMA AnsweredStep == ASSUME IInv, [Next]_vars PROVE Answered'
<1> USE DEF IInv, Answered, InCall, Exceptions
<1>1. CASE UNCHANGED vars
  BY <1>1, SameBinds DEF vars, volatile, callVars
<1>2. CASE Open \/ OpenFails \/ QueryDb \/ QueryDbFails \/ Die \/ Restart
  BY <1>2 DEF Open, OpenFails, QueryDb, QueryDbFails, Die, Restart, callVars
<1>3. CASE CallerCloses \/ Delete
  BY <1>3, SameBinds DEF CallerCloses, Delete, callVars
<1>4. CASE (\E c \in Calls : Call(c)) \/ Prepare \/ PrepareFails
  BY <1>4 DEF Call, Prepare, PrepareFails, BoundSoFar
<1>5. CASE Bind
  BY <1>5, SameBinds DEF Bind
<1>6. CASE BindsNothing
  <2>1. /\ at = "bind" /\ at' = at /\ ~HasBinder(cnt) /\ cnt' = cnt + 1
        /\ UNCHANGED <<call, size, stmt, last>>
    BY <1>6 DEF BindsNothing, callVars
  <2>2. cnt \in Nat \ {0}
    BY <2>1 DEF BoundSoFar
  <2> QED BY <2>1, <2>2, SameBinds
<1>7. CASE BindsDone
  <2>1. /\ at = "bind" /\ at' = "execute" /\ cnt > ToBind
        /\ UNCHANGED <<call, size, stmt, last>>
    BY <1>7 DEF BindsDone, callVars
  <2>2. ~stmt => ~BindsAny
    <3> SUFFICES ASSUME ~stmt, NEW p \in 1..ToBind PROVE ~HasBinder(p)
      BY DEF BindsAny
    <3>1. /\ call \in Calls /\ size \in [set : 0..7, where : 0..7] /\ cnt \in Nat
          /\ \A q \in 1..cnt - 1 : ~HasBinder(q)
      BY <2>1 DEF BoundSoFar
    <3>2. ToBind \in 0..12
      BY <3>1, BindsAtMost
    <3>3. p \in 1..cnt - 1
      BY <2>1, <3>1, <3>2
    <3> QED BY <3>1, <3>3
  <2> QED BY <2>1, <2>2, SameBinds
<1>8. CASE BindThrows \/ ExecuteFails
  BY <1>8 DEF BindThrows, ExecuteFails, Throw
<1>9. CASE Execute \/ ExecuteNothing
  BY <1>9, SameBinds DEF Execute, ExecuteNothing, callVars
<1> QED BY <1>1, <1>2, <1>3, <1>4, <1>5, <1>6, <1>7, <1>8, <1>9 DEF Next

\* The binds, in their order.
LEMMA BoundStep == ASSUME IInv, [Next]_vars PROVE BoundSoFar'
<1> USE DEF IInv, InCall
<1>1. CASE UNCHANGED vars
  BY <1>1, SameBinds DEF BoundSoFar, vars, callVars, Counted, SetBinds, Binder, FieldOf
<1>2. CASE at' \notin InCall
  BY <1>2 DEF BoundSoFar
<1>3. CASE \E c \in Calls : Call(c)
  <2>1. PICK c \in Calls : Call(c)
    BY <1>3
  <2>2. ASSUME call'.op = "update", Counted' PROVE size' = [set |-> c.set, where |-> c.where]
    <3>1. GetObjDbSize(c.set) = {c.set} /\ GetObjDbSize(c.where) = {c.where}
      BY <2>1, <2>2, CallsAssumption DEF Call, Counted, GetObjDbSize, Fields
    <3> QED BY <2>1, <3>1 DEF Call
  <2>3. c.set \in 1..6 /\ c.where \in 1..6
    BY CallsAssumption DEF Fields
  <2>4. GetObjDbSize(c.set) \subseteq 0..7 /\ GetObjDbSize(c.where) \subseteq 0..7
    BY <2>3 DEF GetObjDbSize
  <2>5. size' \in [set : 0..7, where : 0..7]
    BY <2>1, <2>4 DEF Call
  <2> QED BY <2>1, <2>2, <2>5 DEF BoundSoFar, Call, Nothing
<1>4. CASE Prepare \/ PrepareFails \/ BindsDone
  <2>1. /\ at \in InCall /\ UNCHANGED <<call, size, cnt, bound>>
        /\ at' = "prepare" => at = "prepare"
        /\ at' = "execute" => cnt > ToBind
    BY <1>4 DEF Prepare, PrepareFails, BindsDone, callVars
  <2>2. \A p : Binder(p)' = Binder(p)
    BY <2>1 DEF Binder, FieldOf, SetBinds
  <2>3. Counted' <=> Counted
    BY <2>1 DEF Counted
  <2>4. (\A p : HasBinder(p)' <=> HasBinder(p)) /\ ToBind' = ToBind
    BY <2>1, SameBinds
  <2> QED BY <2>1, <2>2, <2>3, <2>4 DEF BoundSoFar
<1>5. CASE Bind
  <2>1. /\ at = "bind" /\ at' = at /\ cnt' = cnt + 1 /\ call' = call /\ size' = size
        /\ HasBinder(cnt)
        /\ bound' = [p \in DOMAIN bound \union {cnt} |-> IF p = cnt THEN Binder(cnt)
                                                                   ELSE bound[p]]
    BY <1>5 DEF Bind
  <2>2. \A p : Binder(p)' = Binder(p)
    BY <2>1 DEF Binder, FieldOf, SetBinds
  <2>3. Counted' <=> Counted
    BY <2>1 DEF Counted
  <2>4. \A p : HasBinder(p)' <=> HasBinder(p)
    BY <2>1, SameBinds
  <2> QED BY <2>1, <2>2, <2>3, <2>4 DEF BoundSoFar
<1>6. CASE BindsNothing
  <2>1. /\ at = "bind" /\ at' = at /\ cnt' = cnt + 1 /\ call' = call /\ size' = size
        /\ ~HasBinder(cnt) /\ bound' = bound
    BY <1>6 DEF BindsNothing, callVars
  <2>2. \A p : Binder(p)' = Binder(p)
    BY <2>1 DEF Binder, FieldOf, SetBinds
  <2>3. Counted' <=> Counted
    BY <2>1 DEF Counted
  <2>4. \A p : HasBinder(p)' <=> HasBinder(p)
    BY <2>1, SameBinds
  <2> QED BY <2>1, <2>2, <2>3, <2>4 DEF BoundSoFar
<1> QED BY <1>1, <1>2, <1>3, <1>4, <1>5, <1>6
        DEF Next, Open, OpenFails, QueryDb, QueryDbFails, CallerCloses, Delete, BindThrows,
            Execute, ExecuteFails, ExecuteNothing, Throw, Die, Restart

-----------------------------------------------------------------------------
(* The theorems.                                                            *)

\* Nothing is open or created at first.
LEMMA InitInvariant == ASSUME Init PROVE IInv
BY DEF Init, IInv, Tabled, Handled, Answered, BoundSoFar, ClosedOnDelete, InCall

\* The inductive invariant holds in every behaviour of the wrapper and its caller.
THEOREM Inductive == Spec => []IInv
<1>1. IInv /\ [Next]_vars => IInv'
  BY TabledStep, HandledStep, AnsweredStep, BoundStep DEF IInv
<1> QED BY InitInvariant, <1>1, PTL DEF Spec

\* No statement is built before the three tables exist (peibol.cpp:67-96).
THEOREM TablesFirst == Spec => []TablesBeforeUse
<1>1. IInv => TablesBeforeUse
  BY DEF IInv, Tabled, TablesBeforeUse, InCall, AllTables
<1> QED BY Inductive, <1>1, PTL

\* Deleting the object closes the connection unless a bind threw
\* (sqlite_db.cpp:29-35, 307-326).
THEOREM DeletionCloses == Spec => []ClosedOnDelete
<1>1. IInv => ClosedOnDelete
  BY DEF IInv
<1> QED BY Inductive, <1>1, PTL

\* A call that binds anything comes back without an exception if and only if sqlite executed
\* it (sqlite_db.h:109-140, 185-230).
THEOREM AnswerSurvives == Spec => []NormalIffApplied
<1>1. IInv => NormalIffApplied
  <2> SUFFICES ASSUME IInv, at = "ready", BindsAny
               PROVE  (last.result = "returned") = last.applied
    BY DEF NormalIffApplied
  <2>1. CASE last = Done
    <3>1. last.result = "returned" /\ last.applied = TRUE
      BY <2>1 DEF Done
    <3> QED BY <3>1, Zenon
  <2>2. CASE \E e \in Exceptions : last = [applied |-> FALSE, result |-> e]
    <3>1. last.result # "returned" /\ last.applied = FALSE
      BY <2>2 DEF Exceptions
    <3> QED BY <3>1, Zenon
  <2> QED BY <2>1, <2>2 DEF IInv, Answered
<1> QED BY Inductive, <1>1, PTL

\* The text of a statement and its parameters agree on the column of every field, and those
\* of numbers and NULLs get them (sqlite_db.h:166-206).
THEOREM TextAndBindsAgree == Spec => []StatementAsMeant
<1>1. IInv => StatementAsMeant
  <2> SUFFICES ASSUME IInv, at = "execute", AsAsked, NEW k \in 1..call.cols
               PROVE  /\ call.op = "update" => (Assigned(k) <=> k <= call.set)
                      /\ call.type[Meant(k)] \in {"number", "null"} =>
                           /\ k \in DOMAIN bound
                           /\ bound[k] = IF call.type[Meant(k)] = "null"
                                              \/ (call.op = "insert" /\ k \in call.nulls)
                                           THEN <<"null">>
                                           ELSE <<"value", Meant(k)>>
    BY DEF StatementAsMeant
  <2>1. Counted
    BY DEF AsAsked, Counted
  <2>2. /\ call.op = "insert" => ToBind = call.set
        /\ call.op = "update" => SetBinds = call.set /\ ToBind = call.set + call.where
        /\ call.set \in 1..6 /\ call.where \in 1..6 /\ call.op \in {"insert", "update"}
    BY <2>1, BindsOfCounted DEF IInv, InCall
  <2>3. call.cols = ToBind
    BY <2>2 DEF AsAsked
  <2>4. FieldOf(k) = Meant(k)
    BY <2>2 DEF FieldOf, Meant
  <2>5. /\ cnt \in Nat /\ cnt > ToBind
        /\ DOMAIN bound = {p \in 1..cnt - 1 : HasBinder(p)}
        /\ \A p \in DOMAIN bound : bound[p] = Binder(p)
    BY DEF IInv, BoundSoFar, InCall
  <2>6. k \in 1..cnt - 1
    BY <2>2, <2>3, <2>5
  <2>7. ASSUME call.type[Meant(k)] \in {"number", "null"}
        PROVE  /\ k \in DOMAIN bound
               /\ bound[k] = IF call.type[Meant(k)] = "null"
                                  \/ (call.op = "insert" /\ k \in call.nulls)
                               THEN <<"null">>
                               ELSE <<"value", Meant(k)>>
    <3>1. HasBinder(k)
      BY <2>4, <2>7 DEF HasBinder
    <3>2. k \in DOMAIN bound /\ bound[k] = Binder(k)
      BY <2>5, <2>6, <3>1
    <3>3. Passed["number"] = "value"
      BY DEF Passed
    <3> QED BY <2>4, <2>7, <3>2, <3>3 DEF Binder
  <2>8. call.op = "update" => size.set = call.set
    BY <2>1 DEF IInv, BoundSoFar, InCall
  <2> QED BY <2>7, <2>8 DEF Assigned
<1> QED BY Inductive, <1>1, PTL
-----------------------------------------------------------------------------
(* Types.                                                                   *)

Lives == /\ at \in {"start", "create", "ready", "prepare", "bind", "execute", "closed", "over",
                    "deleted"}
         /\ handle \in {"none", "open", "closed", "freed twice"}
         /\ db_status \in {"CLOSED", "OPEN"}

\* A call begins only while a statement may still be left open.
Counts == /\ MaxLeaks \in Nat
          /\ open \in 0..MaxLeaks /\ leaked \in 0..MaxLeaks
          /\ (at = "prepare" => open < MaxLeaks)
          /\ cnt \in 1..13

CallTypes == /\ call \in Calls \union {NoCall} /\ size \in [set : 0..7, where : 0..7]
             /\ DOMAIN bound \subseteq 1..call.cols

Answers == stmt \in BOOLEAN /\ last.applied \in BOOLEAN

\* The object's life.
LEMMA LivesStep == ASSUME Lives, [Next]_vars PROVE Lives'
<1> USE DEF Lives
<1>1. CASE UNCHANGED vars
  BY <1>1 DEF vars, volatile
<1>2. CASE Open \/ OpenFails \/ QueryDb \/ Die \/ Restart
  BY <1>2 DEF Open, OpenFails, QueryDb, Die, Restart, volatile
<1>3. CASE QueryDbFails \/ CallerCloses \/ Delete
  BY <1>3 DEF QueryDbFails, CallerCloses, Delete, CloseDb
<1>4. CASE (\E c \in Calls : Call(c)) \/ Prepare \/ PrepareFails \/ Bind \/ BindsNothing
           \/ BindsDone \/ ExecuteNothing
  BY <1>4 DEF Call, Prepare, PrepareFails, Bind, BindsNothing, BindsDone, ExecuteNothing,
              volatile
<1>5. CASE BindThrows \/ Execute \/ ExecuteFails
  BY <1>5 DEF BindThrows, Execute, ExecuteFails, Throw
<1> QED BY <1>1, <1>2, <1>3, <1>4, <1>5 DEF Next

\* Statements are prepared and finalized within the bound, parameters within the text.
LEMMA CountsStep == ASSUME IInv, Counts, CallTypes, [Next]_vars PROVE Counts'
<1> USE DEF Counts
<1>1. CASE UNCHANGED vars
  BY <1>1 DEF vars, volatile
<1>2. CASE OpenFails \/ QueryDbFails \/ CallerCloses \/ Delete \/ BindsDone \/ ExecuteNothing
           \/ PrepareFails \/ Die
  BY <1>2 DEF OpenFails, QueryDbFails, CallerCloses, Delete, BindsDone, ExecuteNothing,
              PrepareFails, Die, volatile
<1>3. CASE Open \/ Restart \/ (\E c \in Calls : Call(c)) \/ Prepare
  BY <1>3 DEF Open, Restart, Call, Prepare, volatile
<1>4. CASE QueryDb
  <2>1. cnt \in 1..3 /\ Len(Tables) = 3
    BY <1>4 DEF QueryDb, IInv, Tabled, Tables
  <2> QED BY <1>4, <2>1 DEF QueryDb, volatile
<1>5. CASE Bind
  <2>1. call \in Calls /\ cnt \in Nat \ {0} /\ cnt <= call.cols /\ cnt' = cnt + 1
    BY <1>5 DEF Bind, IInv, BoundSoFar, InCall
  <2>2. call.cols \in 1..12
    BY <2>1, CallsAssumption
  <2> QED BY <1>5, <2>1, <2>2 DEF Bind, volatile
<1>6. CASE BindThrows
  <2>1. leaked \in Nat /\ (stmt => open = leaked + 1)
    BY <1>6 DEF BindThrows, IInv, Handled
  <2> QED BY <1>6, <2>1 DEF BindThrows, Throw
<1>7. CASE BindsNothing
  <2>1. call \in Calls /\ cnt \in Nat \ {0} /\ cnt <= ToBind /\ cnt' = cnt + 1
    BY <1>7 DEF BindsNothing, IInv, BoundSoFar, InCall
  <2>2. ToBind \in 0..12
    BY <2>1, BindsAtMost DEF CallTypes
  <2> QED BY <1>7, <2>1, <2>2 DEF BindsNothing, volatile
<1>8. CASE Execute \/ ExecuteFails
  <2>1. leaked \in Nat /\ open = leaked + 1 /\ open' = open - 1
    BY <1>8 DEF Execute, ExecuteFails, IInv, Handled
  <2> QED BY <1>8, <2>1 DEF Execute, ExecuteFails, Throw
<1> QED BY <1>1, <1>2, <1>3, <1>4, <1>5, <1>6, <1>7, <1>8 DEF Next

\* No parameter is bound beyond the text.
LEMMA CallTypesStep == ASSUME IInv, CallTypes, [Next]_vars PROVE CallTypes'
<1>1. CASE UNCHANGED <<call, size, bound>>
  BY <1>1 DEF CallTypes
<1>2. ASSUME NEW c \in Calls, Call(c) PROVE CallTypes'
  <2>1. c.set \in 1..6 /\ c.where \in 1..6
    BY CallsAssumption DEF Fields
  <2>2. GetObjDbSize(c.set) \subseteq 0..7 /\ GetObjDbSize(c.where) \subseteq 0..7
    BY <2>1 DEF GetObjDbSize
  <2>3. size' \in [set : 0..7, where : 0..7]
    BY <1>2, <2>2 DEF Call
  <2>4. call' = c /\ bound' = [k \in {} |-> <<"null">>]
    BY <1>2 DEF Call, Nothing
  <2> QED BY <2>3, <2>4 DEF CallTypes
<1>3. CASE Bind
  <2>1. /\ call' = call /\ size' = size /\ cnt \in Nat \ {0} /\ cnt <= call.cols
        /\ call \in Calls
        /\ bound' = [p \in DOMAIN bound \union {cnt} |-> IF p = cnt THEN Binder(cnt) ELSE bound[p]]
    BY <1>3 DEF Bind, IInv, BoundSoFar, InCall
  <2>2. cnt \in 1..call.cols
    BY <2>1, CallsAssumption
  <2>3. DOMAIN bound' = DOMAIN bound \union {cnt}
    BY <2>1
  <2> QED BY <2>1, <2>2, <2>3 DEF CallTypes
<1> QED BY <1>1, <1>2, <1>3
        DEF Next, vars, callVars, Open, OpenFails, QueryDb, QueryDbFails, CallerCloses, Delete,
            Prepare, PrepareFails, BindsNothing, BindThrows, BindsDone, Execute, ExecuteFails,
            ExecuteNothing, Die, Restart

\* What the caller is told.
LEMMA AnswersStep == ASSUME Answers, [Next]_vars PROVE Answers'
<1>1. CASE UNCHANGED <<stmt, last>>
  BY <1>1 DEF Answers
<1>2. last' = Done \/ last' = NoResult \/ (\E e : last' = [applied |-> FALSE, result |-> e])
      => last'.applied \in BOOLEAN
  <2>1. ASSUME NEW l, l = Done \/ l = NoResult \/ \E e : l = [applied |-> FALSE, result |-> e]
        PROVE  l.applied = TRUE \/ l.applied = FALSE
    BY <2>1 DEF Done, NoResult
  <2> QED BY <2>1, Zenon
<1>3. CASE Restart \/ (\E c \in Calls : Call(c)) \/ Execute
  <2>1. stmt' = stmt /\ (last' = Done \/ last' = NoResult)
    BY <1>3 DEF Restart, Call, Execute, callVars
  <2> QED BY <1>2, <2>1 DEF Answers
<1>4. CASE BindThrows \/ ExecuteFails
  <2>1. stmt' = stmt /\ \E e : last' = [applied |-> FALSE, result |-> e]
    BY <1>4 DEF BindThrows, ExecuteFails, Throw, callVars
  <2> QED BY <1>2, <2>1 DEF Answers
<1>5. CASE Prepare \/ PrepareFails
  BY <1>5 DEF Prepare, PrepareFails, Answers
<1> QED BY <1>1, <1>3, <1>4, <1>5
        DEF Next, vars, callVars, Open, OpenFails, QueryDb, QueryDbFails, CallerCloses, Delete,
            Bind, BindsNothing, BindsDone, ExecuteNothing, Die

\* The state keeps its types: no parameter beyond the text is ever bound, no statement is
\* finalized twice, and no more are left open than the bound has it (sqlite_db.h:109-230).
THEOREM TypeCorrect == Spec => []TypeOK
<1> DEFINE TypeInv == Lives /\ Counts /\ CallTypes /\ Answers
<1>1. Init => TypeInv
  <2> SUFFICES ASSUME Init PROVE TypeInv
    OBVIOUS
  <2>1. Lives /\ Counts
    BY CallsAssumption DEF Init, Lives, Counts
  <2>2. CallTypes
    BY DEF Init, CallTypes, NoCall, Nothing
  <2>3. Answers
    BY DEF Init, Answers, Done
  <2> QED BY <2>1, <2>2, <2>3
<1>2. IInv /\ TypeInv /\ [Next]_vars => TypeInv'
  BY LivesStep, CountsStep, CallTypesStep, AnswersStep
<1>3. IInv /\ TypeInv => TypeOK
  BY DEF IInv, Tabled, AllTables, Lives, Counts, CallTypes, Answers, TypeOK
<1> QED BY <1>1, <1>2, <1>3, Inductive, PTL DEF Spec
===============================================================================
