--------------------------------- MODULE Timer ---------------------------------
(***************************************************************************)
(* CTimer: an object whose owner starts, cancels and destroys it from one  *)
(* thread, and the private thread that sleeps and then calls back.  They   *)
(* share endOfTimer and the object, without a lock.                        *)
(*                                                                         *)
(* Time passes in whole seconds, on a clock nobody sets back: run() reads  *)
(* time(), and on a clock set back again and again signals would keep its  *)
(* loop turning.  A signal interrupts the thread only while it sleeps; one *)
(* that comes just before is handled and gone.                             *)
(* pthread_kill() of a thread that has exited but was not joined answers   *)
(* ESRCH or 0, as the C library at hand does.                              *)
(***************************************************************************)
EXTENDS Integers

CONSTANTS Sg,          \* seconds to wait
          ExitedKill,  \* answers of pthread_kill() for an exited thread
          OtherSignals \* may a signal other than SIGUSR1 reach the thread?

ASSUME SgAssumption == Sg \in Nat
ASSUME KillAssumption == ExitedKill \subseteq {"ESRCH", "0"} /\ ExitedKill # {}
ASSUME SignalsAssumption == OtherSignals \in BOOLEAN

VARIABLES thread,     \* the identifier of the latest thread is held (not 0)
          endOfTimer,
          opc,        \* the owner: app, starting, cancelling, destroying, joining,
                      \* deleted, crashed
          tpc,        \* the thread: where it is in run(), or absent or exited
          remain,     \* seconds asked of sleep()
          left,       \* kernel: seconds the sleep still lasts
          ellapsed,   \* seconds since run() began, counted up to Sg
          asked,      \* history: cancelTimer() since the start, before run() reset
                      \* endOfTimer (early) or between that and its last test (late)
          signalled   \* history: a signal ended a sleep since the start

ownerVars == <<thread, opc>>
threadVars == <<tpc, remain, left, ellapsed>>
history == <<asked, signalled>>
vars == <<ownerVars, endOfTimer, threadVars, history>>

Init ==
  /\ thread = FALSE /\ endOfTimer = FALSE
  /\ opc = "app" /\ tpc = "absent"
  /\ remain = 0 /\ left = 0 /\ ellapsed = 0
  /\ asked = "no" /\ signalled = FALSE

Live == tpc \notin {"absent", "exited"}

-----------------------------------------------------------------------------
(* The owner.                                                              *)

\* Mutant: the answer of pthread_kill() is read the other way round.
UpdatedThreadInverted ==
  IF thread /\ tpc = "exited" THEN {a = "ESRCH" : a \in ExitedKill} ELSE {FALSE}

\* updateThreadState(): what is held once pthread_kill( thread, 0 ) answered.
UpdatedThread ==
  IF thread /\ tpc = "exited" THEN {a = "0" : a \in ExitedKill} ELSE {thread}

\* A signal ends the sleep; otherwise its handler runs and nothing is left of it.
Woken ==
  IF tpc = "sleeping" THEN tpc' = "woken" /\ signalled' = TRUE
                      ELSE UNCHANGED <<tpc, signalled>>

\* run() has set endOfTimer back and not yet looked at it for the last time.
Listening == tpc \in {"awake", "sleeping", "woken", "decide"}

Ask ==
  /\ asked' = IF tpc = "created" THEN "early" ELSE IF Listening THEN "late" ELSE asked
  /\ UNCHANGED signalled

\* startTimer() with no thread: the new one sets endOfTimer back when it runs.
StartTimer ==
  /\ opc = "app" /\ FALSE \in UpdatedThread
  /\ thread' = TRUE /\ endOfTimer' = TRUE
  /\ opc' = "starting" /\ tpc' = "created"
  /\ asked' = "no" /\ signalled' = FALSE /\ ellapsed' = 0
  /\ UNCHANGED <<remain, left>>

\* pthread_create() fails and the exception leaves endOfTimer set.  What is then in
\* thread is undefined: 0 still, or an identifier that answers as an exited thread's.
CreateFails ==
  /\ opc = "app" /\ FALSE \in UpdatedThread
  /\ endOfTimer' = TRUE
  /\ \/ thread' = FALSE /\ UNCHANGED tpc
     \/ thread' = TRUE /\ tpc' = "exited"
  /\ UNCHANGED <<opc, remain, left, ellapsed, history>>

\* startTimer() returns: run() has begun, or 500 naps of 1 us have passed.
StartReturns ==
  /\ opc = "starting" /\ ~endOfTimer
  /\ opc' = "app"
  /\ UNCHANGED <<thread, endOfTimer, threadVars, history>>

StartGivesUp ==
  /\ opc = "starting" /\ endOfTimer
  /\ opc' = "app"
  /\ UNCHANGED <<thread, endOfTimer, threadVars, history>>

\* isRunning(), and startTimer() when there is a thread, only update thread.
IsRunning ==
  /\ opc = "app" /\ thread' \in UpdatedThread
  /\ UNCHANGED <<endOfTimer, opc, threadVars, history>>

\* cancelTimer() up to the signal, which is a step of its own.
CancelTimer ==
  /\ opc = "app" /\ thread' \in UpdatedThread
  /\ endOfTimer' = TRUE /\ Ask
  /\ opc' = IF thread' THEN "cancelling" ELSE "app"
  /\ UNCHANGED threadVars

Kill ==
  /\ opc \in {"cancelling", "destroying"}
  /\ Woken
  /\ opc' = IF opc = "cancelling" THEN "app" ELSE "joining"
  /\ UNCHANGED <<thread, endOfTimer, remain, left, ellapsed, asked>>

\* Mutant: the destructor cancels and does not join.
DeleteWithoutJoin ==
  /\ opc = "app" /\ thread' \in UpdatedThread
  /\ endOfTimer' = TRUE /\ Ask
  /\ opc' = "deleted"
  /\ UNCHANGED threadVars

\* Destructor without a thread, and with one: cancelTimer() (Kill), pthread_join().
DeleteIdle ==
  /\ opc = "app" /\ ~thread
  /\ opc' = "deleted"
  /\ UNCHANGED <<thread, endOfTimer, threadVars, history>>

Delete ==
  /\ opc = "app" /\ thread /\ thread' \in UpdatedThread
  /\ endOfTimer' = TRUE /\ Ask
  /\ opc' = IF thread' THEN "destroying" ELSE "joining"
  /\ UNCHANGED threadVars

Join ==
  /\ opc = "joining" /\ thread /\ tpc = "exited"
  /\ opc' = "deleted"
  /\ UNCHANGED <<thread, endOfTimer, threadVars, history>>

\* cancelTimer() found the thread gone and cleared the identifier: pthread_join( 0 ).
JoinNull ==
  /\ opc = "joining" /\ ~thread
  /\ opc' = "crashed"
  /\ UNCHANGED <<thread, endOfTimer, threadVars, history>>

-----------------------------------------------------------------------------
(* The thread: run().                                                      *)

\* What a cancellation did before is undone.
Run ==
  /\ tpc = "created" /\ tpc' = "awake"
  /\ remain' = Sg /\ ellapsed' = 0
  /\ endOfTimer' = FALSE
  /\ UNCHANGED <<ownerVars, left, history>>

\* Mutant: endOfTimer is set back at every turn of the loop.
SleepResets ==
  /\ tpc = "awake" /\ tpc' = "sleeping"
  /\ left' = remain /\ endOfTimer' = FALSE
  /\ UNCHANGED <<ownerVars, remain, ellapsed, history>>

Sleep ==
  /\ tpc = "awake" /\ tpc' = "sleeping"
  /\ left' = remain
  /\ UNCHANGED <<ownerVars, endOfTimer, remain, ellapsed, history>>

SleepEnds ==
  /\ tpc = "sleeping" /\ left = 0
  /\ tpc' = "woken"
  /\ UNCHANGED <<ownerVars, endOfTimer, remain, left, ellapsed, history>>

\* Seconds sleep() says are left: the part of a second may be rounded down.
Unslept == {left, left - 1} \cap Nat

\* Mutant: the time that went by is not looked at.
TestLoopUntimed ==
  /\ tpc = "woken"
  /\ \E answer \in Unslept : LET again == answer > 0 /\ ~endOfTimer IN
       /\ remain' = IF again THEN 1 ELSE 0
       /\ tpc' = IF again THEN "awake" ELSE "decide"
  /\ UNCHANGED <<ownerVars, endOfTimer, left, ellapsed, history>>

\* The loop's condition.  The whole of it is assigned to remain: a sleep after the
\* first lasts one second.
TestLoop ==
  /\ tpc = "woken"
  /\ \E answer \in Unslept : LET again == answer > 0 /\ ~endOfTimer /\ ellapsed < Sg IN
       /\ remain' = IF again THEN 1 ELSE 0
       /\ tpc' = IF again THEN "awake" ELSE "decide"
  /\ UNCHANGED <<ownerVars, endOfTimer, left, ellapsed, history>>

\* The last look at endOfTimer: interrupted, or expired.
Decide ==
  /\ tpc = "decide"
  /\ tpc' = IF endOfTimer THEN "exited" ELSE "expired"
  /\ UNCHANGED <<ownerVars, endOfTimer, remain, left, ellapsed, history>>

\* The expiry has been written to the log, and onTimerExpire() is called: a
\* cancellation meanwhile is not seen.
Expire ==
  /\ tpc = "expired" /\ tpc' = "callback"
  /\ UNCHANGED <<ownerVars, endOfTimer, remain, left, ellapsed, history>>

\* What the callback may do to its timer: startTimer() and isRunning() find the
\* thread they run on; cancelTimer() signals it.
CallbackCancels ==
  /\ tpc = "callback"
  /\ endOfTimer' = TRUE
  /\ UNCHANGED <<ownerVars, threadVars, history>>

\* The callback deletes its timer, which the owner no longer uses: pthread_join() of
\* the calling thread fails at once, and run() touches the object no more.
CallbackDeletes ==
  /\ tpc = "callback" /\ opc = "app"
  /\ endOfTimer' = TRUE /\ opc' = "deleted" /\ tpc' = "returning"
  /\ UNCHANGED <<thread, remain, left, ellapsed, history>>

\* run() ends without a return statement: compiled as the Makefile does, without
\* optimisation, it returns a value that nobody looks at.
CallbackReturns ==
  /\ tpc \in {"callback", "returning"} /\ tpc' = "exited"
  /\ UNCHANGED <<ownerVars, endOfTimer, remain, left, ellapsed, history>>

-----------------------------------------------------------------------------
(* The clock and the signals of the process (external).                    *)

Asleep == tpc = "sleeping" /\ left > 0

Tick ==
  /\ Live
  /\ ellapsed < Sg \/ Asleep
  /\ ellapsed' = IF ellapsed < Sg THEN ellapsed + 1 ELSE ellapsed
  /\ left' = IF Asleep THEN left - 1 ELSE left
  /\ UNCHANGED <<ownerVars, endOfTimer, tpc, remain, history>>

\* SIGTERM or the display tick, delivered to this thread.
Interrupt ==
  /\ OtherSignals /\ tpc = "sleeping" /\ Woken
  /\ UNCHANGED <<ownerVars, endOfTimer, remain, left, ellapsed, asked>>

-----------------------------------------------------------------------------
Owner ==
  \/ StartTimer \/ CreateFails \/ StartReturns \/ StartGivesUp
  \/ IsRunning \/ CancelTimer \/ Kill \/ DeleteIdle \/ Delete \/ Join \/ JoinNull

Thread ==
  \/ Run \/ Sleep \/ SleepEnds \/ TestLoop \/ Decide \/ Expire
  \/ CallbackCancels \/ CallbackDeletes \/ CallbackReturns

Over == opc \in {"deleted", "crashed"} /\ ~Live /\ UNCHANGED vars

Next == Owner \/ Thread \/ Tick \/ Interrupt \/ Over

Spec == Init /\ [][Next]_vars

\* Both threads are scheduled, the callback returns, and time passes.  Nothing makes
\* the owner call a method.
FairSpec ==
  /\ Spec
  /\ WF_vars(Run \/ Sleep \/ SleepEnds \/ TestLoop \/ Decide \/ Expire)
  /\ WF_vars(CallbackReturns)
  /\ WF_vars(Kill \/ Join \/ JoinNull)
  /\ WF_vars(Tick)

-----------------------------------------------------------------------------
TypeOK ==
  /\ thread \in BOOLEAN /\ endOfTimer \in BOOLEAN
  /\ opc \in {"app", "starting", "cancelling", "destroying", "joining", "deleted",
              "crashed"}
  /\ tpc \in {"absent", "created", "awake", "sleeping", "woken", "decide",
              "expired", "callback", "returning", "exited"}
  /\ remain \in {0, 1, Sg} /\ left \in 0..Sg + 1 /\ ellapsed \in 0..Sg
  /\ asked \in {"no", "early", "late"} /\ signalled \in BOOLEAN

\* run() uses its object through a pointer: the object is there as long as the thread
\* may use it, whoever destroys the timer and whenever.
ObjectOutlivesThread ==
  opc = "deleted" => tpc \in {"absent", "returning", "exited"}

\* Starting a timer never leaves two threads on one object.
OneThread == [][tpc' = "created" /\ tpc # "created" => ~Live]_vars

\* A cancellation that comes between run()'s reset of endOfTimer and its last look at it
\* is heeded: no callback follows, however the signal and the sleep race.
LateCancelHeeded ==
  [][tpc # "callback" /\ tpc' = "callback" => asked # "late"]_vars

\* A started timer expires or is interrupted: signals cannot keep its thread asleep.
TimerEnds == tpc = "created" ~> tpc = "exited"

\* The destructor returns (or dies in pthread_join()), also when the signal that was
\* to end the sleep came before it.
DestructionEnds == opc \in {"destroying", "joining"} ~> opc \in {"deleted", "crashed"}
===============================================================================
