----------------------------- MODULE TimerProofs ------------------------------
(***************************************************************************)
(* Theorems about Timer for any number of seconds and any answer of        *)
(* pthread_kill() for a thread that has exited.                            *)
(***************************************************************************)
EXTENDS Timer, TLAPS

-----------------------------------------------------------------------------
(* Types.                                                                   *)

\* The variables that are true or false, and the others.
Flags == thread \in BOOLEAN /\ endOfTimer \in BOOLEAN /\ signalled \in BOOLEAN
Data ==
  /\ opc \in {"app", "starting", "cancelling", "destroying", "joining", "deleted",
              "crashed"}
  /\ tpc \in {"absent", "created", "awake", "sleeping", "woken", "decide",
              "expired", "callback", "returning", "exited"}
  /\ remain \in {0, 1, Sg} /\ left \in 0..Sg + 1 /\ ellapsed \in 0..Sg
  /\ asked \in {"no", "early", "late"}

LEMMA Types == TypeOK <=> Flags /\ Data
  BY Zenon DEF TypeOK, Flags, Data

LEMMA FlagsStep == Flags /\ [Next]_vars => Flags'
<1> SUFFICES ASSUME Flags, [Next]_vars PROVE Flags'
  OBVIOUS
<1> USE DEF Flags, ownerVars, threadVars, history
<1>0. \A b \in UpdatedThread : b \in BOOLEAN
  BY Zenon DEF UpdatedThread
<1>1. CASE Owner
  <2>1. CASE StartTimer
    BY <2>1, Zenon DEF StartTimer
  <2>2. CASE CreateFails
    BY <2>2, Zenon DEF CreateFails
  <2>3. CASE StartReturns \/ StartGivesUp \/ DeleteIdle \/ Join \/ JoinNull
    BY <2>3, Zenon DEF StartReturns, StartGivesUp, DeleteIdle, Join, JoinNull
  <2>4. CASE IsRunning
    BY <2>4, <1>0, Zenon DEF IsRunning
  <2>5. CASE CancelTimer
    BY <2>5, <1>0, Zenon DEF CancelTimer, Ask
  <2>6. CASE Delete
    BY <2>6, <1>0, Zenon DEF Delete, Ask
  <2>7. CASE Kill
    BY <2>7, Zenon DEF Kill, Woken
  <2> QED BY <1>1, <2>1, <2>2, <2>3, <2>4, <2>5, <2>6, <2>7 DEF Owner
<1>2. CASE Thread
  BY <1>2, Zenon DEF Thread, Run, Sleep, SleepEnds, TestLoop, Decide, Expire, CallbackCancels,
                     CallbackDeletes, CallbackReturns
<1>3. CASE Tick \/ Interrupt
  BY <1>3, Zenon DEF Tick, Interrupt, Woken
<1>4. CASE Over \/ UNCHANGED vars
  BY <1>4, Zenon DEF Over, vars
<1> QED BY <1>1, <1>2, <1>3, <1>4 DEF Next

\* remain is 0, 1 or Sg because the loop assigns its whole condition to it (CTimer.cpp:98).
LEMMA DataStep == Data /\ [Next]_vars => Data'
<1> SUFFICES ASSUME Data, [Next]_vars PROVE Data'
  OBVIOUS
<1> USE SgAssumption DEF SgAssumption, Data, ownerVars, threadVars, history
<1>1. CASE Owner
  <2>1. CASE StartTimer
    BY <2>1 DEF StartTimer
  <2>2. CASE CreateFails
    BY <2>2 DEF CreateFails
  <2>3. CASE StartReturns \/ StartGivesUp \/ DeleteIdle \/ Join \/ JoinNull
    BY <2>3 DEF StartReturns, StartGivesUp, DeleteIdle, Join, JoinNull
  <2>4. CASE IsRunning
    BY <2>4 DEF IsRunning
  <2>5. CASE CancelTimer
    BY <2>5 DEF CancelTimer, Ask
  <2>6. CASE Delete
    BY <2>6 DEF Delete, Ask
  <2>7. CASE Kill
    BY <2>7 DEF Kill, Woken
  <2> QED BY <1>1, <2>1, <2>2, <2>3, <2>4, <2>5, <2>6, <2>7 DEF Owner
<1>2. CASE Thread
  <2>1. CASE Run \/ Sleep \/ SleepEnds
    BY <2>1 DEF Run, Sleep, SleepEnds
  <2>2. CASE TestLoop
    BY <2>2 DEF TestLoop
  <2>3. CASE Decide \/ Expire \/ CallbackCancels \/ CallbackDeletes \/ CallbackReturns
    BY <2>3 DEF Decide, Expire, CallbackCancels, CallbackDeletes, CallbackReturns
  <2> QED BY <1>2, <2>1, <2>2, <2>3 DEF Thread
<1>3. CASE Tick
  BY <1>3 DEF Tick, Asleep
<1>4. CASE Interrupt
  BY <1>4 DEF Interrupt, Woken
<1>5. CASE Over \/ UNCHANGED vars
  BY <1>5 DEF Over, vars
<1> QED BY <1>1, <1>2, <1>3, <1>4, <1>5 DEF Next

LEMMA TypeStep == TypeOK /\ [Next]_vars => TypeOK'
<1>1. TypeOK' <=> Flags' /\ Data'
  BY Zenon DEF TypeOK, Flags, Data
<1> QED BY <1>1, Types, FlagsStep, DataStep

LEMMA TypeInit == Init => TypeOK
<1>1. Init => Flags
  BY Zenon DEF Init, Flags
<1>2. Init => Data
  BY SgAssumption, SMT DEF SgAssumption, Init, Data
<1> QED BY <1>1, <1>2, Types

\* The variables keep their types.
THEOREM TypeCorrect == Spec => []TypeOK
  BY TypeInit, TypeStep, PTL DEF Spec

-----------------------------------------------------------------------------
(* The strengthening.                                                       *)

\* While the thread lives and the object exists, the object holds the thread's
\* identifier: neither a start nor the destructor can overlook it.
Known == Live /\ opc # "deleted" => thread

\* A late cancellation is not undone: the thread is past the reset of endOfTimer, and not
\* yet past its last test unless it left there.
Heeded ==
  asked = "late" => endOfTimer /\ tpc \notin {"created", "expired", "callback", "returning"}

\* Without a signal there is one sleep, of all the seconds, and what is left of it
\* and what has gone by make them up.
Slept ==
  ~signalled =>
    /\ tpc = "awake" => remain = Sg
    /\ tpc = "sleeping" => left + ellapsed >= Sg
    /\ tpc = "woken" => left = 0
    /\ tpc \in {"woken", "decide", "expired", "callback"} => ellapsed >= Sg

IInv == TypeOK /\ ObjectOutlivesThread /\ Known /\ Heeded /\ Slept

LEMMA KnownStep ==
  TypeOK /\ Known /\ ObjectOutlivesThread /\ [Next]_vars => Known' /\ ObjectOutlivesThread'
<1> SUFFICES ASSUME TypeOK, Known, ObjectOutlivesThread, [Next]_vars
             PROVE  Known' /\ ObjectOutlivesThread'
  OBVIOUS
<1> USE KillAssumption DEF TypeOK, Known, ObjectOutlivesThread, Live, ownerVars, threadVars,
                           history
<1>0. \A b \in UpdatedThread : (b # thread => tpc = "exited") /\ b \in BOOLEAN
  BY DEF UpdatedThread
<1>1. CASE Owner
  <2>1. CASE StartTimer \/ CreateFails \/ StartReturns \/ StartGivesUp
    BY <2>1, <1>0 DEF StartTimer, CreateFails, StartReturns, StartGivesUp
  <2>2. CASE IsRunning \/ CancelTimer \/ Delete
    BY <2>2, <1>0 DEF IsRunning, CancelTimer, Delete
  <2>3. CASE Kill
    BY <2>3 DEF Kill, Woken
  <2>4. CASE DeleteIdle \/ Join \/ JoinNull
    BY <2>4 DEF DeleteIdle, Join, JoinNull
  <2> QED BY <1>1, <2>1, <2>2, <2>3, <2>4 DEF Owner
<1>2. CASE Thread
  BY <1>2 DEF Thread, Run, Sleep, SleepEnds, TestLoop, Decide, Expire, CallbackCancels,
              CallbackDeletes, CallbackReturns
<1>3. CASE Tick \/ Interrupt
  BY <1>3 DEF Tick, Interrupt, Woken
<1>4. CASE Over \/ UNCHANGED vars
  BY <1>4 DEF Over, vars
<1> QED BY <1>1, <1>2, <1>3, <1>4 DEF Next

LEMMA HeededStep == TypeOK /\ Heeded /\ [Next]_vars => Heeded'
<1> SUFFICES ASSUME TypeOK, Heeded, [Next]_vars PROVE Heeded'
  OBVIOUS
<1> USE DEF TypeOK, Heeded, Live, ownerVars, threadVars, history
<1>1. CASE Owner
  <2>1. CASE StartTimer \/ CreateFails \/ StartReturns \/ StartGivesUp
    BY <2>1 DEF StartTimer, CreateFails, StartReturns, StartGivesUp
  <2>2. CASE IsRunning \/ CancelTimer \/ Delete
    BY <2>2 DEF IsRunning, CancelTimer, Delete, Ask, Listening
  <2>3. CASE Kill
    BY <2>3 DEF Kill, Woken
  <2>4. CASE DeleteIdle \/ Join \/ JoinNull
    BY <2>4 DEF DeleteIdle, Join, JoinNull
  <2> QED BY <1>1, <2>1, <2>2, <2>3, <2>4 DEF Owner
<1>2. CASE Thread
  BY <1>2 DEF Thread, Run, Sleep, SleepEnds, TestLoop, Decide, Expire, CallbackCancels,
              CallbackDeletes, CallbackReturns
<1>3. CASE Tick \/ Interrupt
  BY <1>3 DEF Tick, Interrupt, Woken
<1>4. CASE Over \/ UNCHANGED vars
  BY <1>4 DEF Over, vars
<1> QED BY <1>1, <1>2, <1>3, <1>4 DEF Next

LEMMA SleptStep == TypeOK /\ Slept /\ [Next]_vars => Slept'
<1> SUFFICES ASSUME TypeOK, Slept, [Next]_vars PROVE Slept'
  OBVIOUS
<1> USE SgAssumption DEF TypeOK, Slept, ownerVars, threadVars, history
<1>1. CASE Owner
  <2>1. CASE StartTimer \/ CreateFails \/ StartReturns \/ StartGivesUp
    BY <2>1 DEF StartTimer, CreateFails, StartReturns, StartGivesUp
  <2>2. CASE IsRunning \/ CancelTimer \/ Delete
    BY <2>2 DEF IsRunning, CancelTimer, Delete, Ask
  <2>3. CASE Kill
    BY <2>3 DEF Kill, Woken
  <2>4. CASE DeleteIdle \/ Join \/ JoinNull
    BY <2>4 DEF DeleteIdle, Join, JoinNull
  <2> QED BY <1>1, <2>1, <2>2, <2>3, <2>4 DEF Owner
<1>2. CASE Thread
  <2>1. CASE Run \/ Sleep
    BY <2>1 DEF Run, Sleep
  <2>2. CASE SleepEnds
    BY <2>2 DEF SleepEnds
  <2>3. CASE TestLoop
    <3>1. ~signalled => Unslept = {0}
      BY <2>3 DEF TestLoop, Unslept
    <3> QED BY <2>3, <3>1 DEF TestLoop
  <2>4. CASE Decide \/ Expire \/ CallbackCancels \/ CallbackDeletes \/ CallbackReturns
    BY <2>4 DEF Decide, Expire, CallbackCancels, CallbackDeletes, CallbackReturns
  <2> QED BY <1>2, <2>1, <2>2, <2>3, <2>4 DEF Thread
<1>3. CASE Tick
  BY <1>3 DEF Tick, Asleep, Live
<1>4. CASE Interrupt
  BY <1>4 DEF Interrupt, Woken
<1>5. CASE Over \/ UNCHANGED vars
  BY <1>5 DEF Over, vars
<1> QED BY <1>1, <1>2, <1>3, <1>4, <1>5 DEF Next

\* The invariant is inductive.
THEOREM Inductive == Spec => []IInv
<1>1. Init => ObjectOutlivesThread /\ Known /\ Heeded /\ Slept
  BY Zenon DEF Init, ObjectOutlivesThread, Known, Live, Heeded, Slept
<1>2. IInv /\ [Next]_vars => IInv'
  BY TypeStep, KnownStep, HeededStep, SleptStep DEF IInv
<1>3. Init => IInv
  BY <1>1, TypeInit DEF IInv
<1> QED BY <1>2, <1>3, PTL DEF Spec

-----------------------------------------------------------------------------
(* The properties.                                                          *)

\* The object is there as long as run() may use it, whoever destroys the timer: the
\* destructor joins the thread it knows, and it always knows a thread that lives
\* (CTimer.cpp:39-47, 113).
THEOREM ObjectStays == Spec => []ObjectOutlivesThread
<1>1. IInv => ObjectOutlivesThread
  BY DEF IInv
<1> QED BY <1>1, Inductive, PTL

\* The time-out that the constructor's declaration calls millis (CTimer.hpp:15).
InSeconds == tpc = "callback" /\ ~signalled => ellapsed = Sg

\* It is in seconds: unless a signal woke it, a timer calls back when so many seconds have
\* passed and not before (CTimer.cpp:84, 98, 113).
THEOREM CountsSeconds == Spec => []InSeconds
<1>1. IInv => InSeconds
  BY SgAssumption DEF IInv, TypeOK, Slept, InSeconds
<1> QED BY <1>1, Inductive, PTL

\* startTimer() never leaves two threads on one object (CTimer.cpp:56-70, 120-125).
THEOREM NoSecondThread == Spec => OneThread
<1>1. IInv /\ [Next]_vars => [tpc' = "created" /\ tpc # "created" => ~Live]_vars
  <2> SUFFICES ASSUME IInv, [Next]_vars, tpc' = "created", tpc # "created"
               PROVE  ~Live
    OBVIOUS
  <2> USE DEF IInv, TypeOK, ownerVars, threadVars, history
  <2>1. StartTimer
    <3>1. CASE Owner
      BY <3>1 DEF Owner, CreateFails, StartReturns, StartGivesUp, IsRunning, CancelTimer,
                  Kill, Woken, DeleteIdle, Delete, Join, JoinNull
    <3>2. CASE Thread
      BY <3>2 DEF Thread, Run, Sleep, SleepEnds, TestLoop, Decide, Expire, CallbackCancels,
                  CallbackDeletes, CallbackReturns
    <3>3. CASE Tick \/ Interrupt \/ Over \/ UNCHANGED vars
      BY <3>3 DEF Tick, Interrupt, Woken, Over, vars
    <3> QED BY <3>1, <3>2, <3>3 DEF Next
  <2> QED BY <2>1, KillAssumption DEF StartTimer, UpdatedThread, Known, Live
<1> QED BY <1>1, Inductive, PTL DEF Spec, OneThread

\* A cancellation between the reset of endOfTimer and its test after the loop prevents the
\* callback, however the signal and the sleep race (CTimer.cpp:94-101, 142-152).  One that
\* comes after that test does not.
THEOREM LateCancellation == Spec => LateCancelHeeded
<1>1. IInv /\ [Next]_vars => [tpc # "callback" /\ tpc' = "callback" => asked # "late"]_vars
  <2> SUFFICES ASSUME IInv, [Next]_vars, tpc # "callback", tpc' = "callback"
               PROVE  asked # "late"
    OBVIOUS
  <2> USE DEF IInv, TypeOK, ownerVars, threadVars, history
  <2>1. Expire
    <3>1. CASE Owner
      BY <3>1 DEF Owner, StartTimer, CreateFails, StartReturns, StartGivesUp, IsRunning,
                  CancelTimer, Kill, Woken, DeleteIdle, Delete, Join, JoinNull
    <3>2. CASE Thread
      BY <3>2 DEF Thread, Run, Sleep, SleepEnds, TestLoop, Decide, CallbackCancels,
                  CallbackDeletes, CallbackReturns
    <3>3. CASE Tick \/ Interrupt \/ Over \/ UNCHANGED vars
      BY <3>3 DEF Tick, Interrupt, Woken, Over, vars
    <3> QED BY <3>1, <3>2, <3>3 DEF Next
  <2> QED BY <2>1 DEF Expire, Heeded
<1> QED BY <1>1, Inductive, PTL DEF Spec, LateCancelHeeded
-----------------------------------------------------------------------------
(* The end of the loop.                                                     *)

\* What run() has still to do.
Stage(t) ==
  IF t = "awake" THEN 7 ELSE IF t = "sleeping" THEN 6 ELSE IF t = "woken" THEN 5
  ELSE IF t = "decide" THEN 4 ELSE IF t = "expired" THEN 3 ELSE IF t = "callback" THEN 2
  ELSE IF t = "returning" THEN 1 ELSE 0

\* The thread has been told to stop, or its time is up.
Due == Live /\ tpc # "created" /\ (endOfTimer \/ ellapsed = Sg)

RunStep == Run \/ Sleep \/ SleepEnds \/ TestLoop \/ Decide \/ Expire \/ CallbackReturns

\* Seconds that may still pass before the sleep ends or the time is up.
Waiting == left + (Sg - ellapsed)

\* A due thread stays due until it exits.  Each of its steps takes it to a later stage,
\* a second that passes is one less to wait, and what the owner, a signal or the callback
\* do never takes it back.
LastTurn ==
  Due =>
    /\ Due' \/ tpc' = "exited"
    /\ RunStep => Stage(tpc') < Stage(tpc)
    /\ Tick => tpc' = tpc /\ Waiting' < Waiting
    /\ ~RunStep => Stage(tpc') <= Stage(tpc)
    /\ ~RunStep /\ tpc' = tpc => Waiting' <= Waiting

NoTurnMore == [][LastTurn]_vars

LEMMA Stages ==
  /\ Stage("awake") = 7 /\ Stage("sleeping") = 6 /\ Stage("woken") = 5
  /\ Stage("decide") = 4 /\ Stage("expired") = 3 /\ Stage("callback") = 2
  /\ Stage("returning") = 1 /\ Stage("exited") = 0
BY DEF Stage

\* The owner cannot start another thread while one lives, and its signal at most wakes it.
LEMMA OwnerLastTurn == ASSUME IInv, Due, Owner PROVE LastTurn
<1> USE SgAssumption, Stages DEF IInv, TypeOK, ownerVars, threadVars, history
<1>1. Owner => /\ UNCHANGED <<left, ellapsed>>
               /\ tpc' = tpc \/ (tpc = "sleeping" /\ tpc' = "woken")
               /\ endOfTimer => endOfTimer'
  <2>1. ~StartTimer /\ ~CreateFails
    BY KillAssumption DEF StartTimer, CreateFails, UpdatedThread, Known, Due, Live
  <2> QED BY <2>1 DEF Owner, StartReturns, StartGivesUp, IsRunning, CancelTimer, Kill, Woken,
                      DeleteIdle, Delete, Join, JoinNull
<1>2. Due'
  BY <1>1 DEF Due, Live
<1>3. ~Tick
  BY <1>1 DEF Tick, Asleep, Live, Due
<1>4. ~Run /\ ~Sleep /\ ~TestLoop /\ ~Decide /\ ~Expire /\ ~CallbackReturns
  BY <1>1 DEF Run, Sleep, TestLoop, Decide, Expire, CallbackReturns
<1>5. SleepEnds => Stage(tpc') < Stage(tpc)
  BY DEF SleepEnds
<1>6. Stage(tpc') <= Stage(tpc) /\ Waiting' <= Waiting
  <2>1. Waiting' = Waiting /\ Waiting \in Int
    BY <1>1 DEF Waiting
  <2>2. Stage(tpc') <= Stage(tpc)
    BY <1>1 DEF Due, Live
  <2> QED BY <2>1, <2>2
<1> QED BY <1>2, <1>3, <1>4, <1>5, <1>6 DEF LastTurn, RunStep

\* So do the thread's own steps.
LEMMA ThreadLastTurn == ASSUME IInv, Due, Thread PROVE LastTurn
<1> USE SgAssumption, Stages DEF IInv, TypeOK, ownerVars, threadVars, history
<1>1. ~Tick
  BY DEF Tick, Asleep, Live, Due, Thread, Run, Sleep, SleepEnds, TestLoop, Decide, Expire,
         CallbackCancels, CallbackDeletes, CallbackReturns
<1>2. CASE RunStep
  <2>1. ~Run
    BY DEF Run, Due
  <2>2. Due' \/ tpc' = "exited"
    BY <1>2, <2>1 DEF RunStep, Sleep, SleepEnds, TestLoop, Decide, Expire, CallbackReturns,
                      Due, Live
  <2>3. Stage(tpc') < Stage(tpc)
    BY <1>2, <2>1 DEF RunStep, Sleep, SleepEnds, TestLoop, Decide, Expire, CallbackReturns, Due
  <2> QED BY <1>1, <1>2, <2>2, <2>3 DEF LastTurn
<1>3. CASE CallbackCancels
  BY <1>1, <1>3 DEF CallbackCancels, LastTurn, Due, Live, Waiting, RunStep, Run, Sleep,
                    SleepEnds, TestLoop, Decide, Expire, CallbackReturns
<1>4. CASE CallbackDeletes
  BY <1>1, <1>4 DEF CallbackDeletes, LastTurn, Due, Live, Waiting, RunStep, Run, Sleep,
                    SleepEnds, TestLoop, Decide, Expire, CallbackReturns
<1> QED BY <1>2, <1>3, <1>4 DEF Thread, RunStep

\* Time and the other signals.
LEMMA OutsideLastTurn ==
  ASSUME IInv, Due, Tick \/ Interrupt \/ Over \/ UNCHANGED vars PROVE LastTurn
<1> USE SgAssumption, Stages DEF IInv, TypeOK, ownerVars, threadVars, history
<1>1. CASE Tick
  <2>1. tpc' = tpc /\ UNCHANGED endOfTimer /\ (ellapsed = Sg => ellapsed' = Sg)
    BY <1>1 DEF Tick
  <2>2. Waiting' < Waiting
    BY <1>1 DEF Tick, Asleep, Waiting
  <2>3. ~RunStep
    BY <2>1 DEF RunStep, Run, Sleep, SleepEnds, TestLoop, Decide, Expire, CallbackReturns
  <2>4. Stage(tpc') <= Stage(tpc)
    BY <2>1 DEF Due, Live
  <2>5. Due'
    BY <2>1 DEF Due, Live
  <2>6. Waiting' <= Waiting
    BY <1>1 DEF Tick, Asleep, Waiting
  <2> QED BY <2>1, <2>2, <2>3, <2>4, <2>5, <2>6 DEF LastTurn
<1>2. CASE Interrupt
  <2>1. tpc = "sleeping" /\ tpc' = "woken" /\ UNCHANGED <<endOfTimer, left, ellapsed>>
    BY <1>2 DEF Interrupt, Woken
  <2>2. Due' /\ Stage(tpc') < Stage(tpc) /\ Stage(tpc') <= Stage(tpc)
    BY <2>1 DEF Due, Live
  <2>3. ~Tick
    BY <2>1 DEF Tick
  <2> QED BY <2>1, <2>2, <2>3 DEF LastTurn
<1>3. CASE Over
  BY <1>3 DEF Over, Due
<1>4. CASE UNCHANGED vars
  BY <1>4 DEF vars, LastTurn, Due, Live, Waiting, Tick, Asleep, RunStep, Run,
              Sleep, SleepEnds, TestLoop, Decide, Expire, CallbackReturns
<1> QED BY <1>1, <1>2, <1>3, <1>4

\* Once cancelled or out of time run() ends, after at most one more sleep: no signal, no
\* later call of the owner and nothing the callback does makes its loop turn again
\* (CTimer.cpp:96-113).  It is why the destructor's pthread_join() returns, also when the
\* signal that was to end the sleep came before it.
THEOREM EndsWhenDue == Spec => NoTurnMore
<1>1. IInv /\ [Next]_vars => [LastTurn]_vars
  <2> SUFFICES ASSUME IInv, [Next]_vars, Due PROVE LastTurn
    BY DEF LastTurn
  <2> QED BY OwnerLastTurn, ThreadLastTurn, OutsideLastTurn DEF Next
<1> QED BY <1>1, Inductive, PTL DEF Spec, NoTurnMore
===============================================================================
