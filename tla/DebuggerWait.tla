----------------------------- MODULE DebuggerWait -----------------------------
(***************************************************************************)
(* DebugUtil::WaitForDebugger (base/debug_util.cc) over                    *)
(* PlatformThread::Sleep (base/platform_thread_posix.cc): one test of the  *)
(* loop, one nanosleep or one signal per step.  Time is counted in ticks,  *)
(* Nap of which are 100 ms.  int32 is any signed type from -IntMax-1 to    *)
(* IntMax; the product in the loop's test wraps around, as it does in a    *)
(* build that lets the processor multiply (signed overflow is undefined).  *)
(***************************************************************************)
EXTENDS Integers

CONSTANTS Seconds,     \* what wait_seconds may be
          IntMax,      \* the largest int32
          Nap,         \* ticks in the 100 ms of one Sleep
          MaxSignals   \* bound on the signals that arrive

Polls == 10            \* polls per second

ASSUME IntAssumption == IntMax \in Nat \ {0} /\ Seconds \subseteq -IntMax-1..IntMax
ASSUME BoundAssumption == Nap \in Nat \ {0} /\ MaxSignals \in Nat

VARIABLES seconds,     \* wait_seconds
          i,           \* the loop's counter
          sleepTime,   \* what is left of the current Sleep
          elapsed,     \* ticks since the call
          signals,     \* signals that arrived
          pc,          \* "test", "sleep" or "done"
          answer

vars == <<seconds, i, sleepTime, elapsed, signals, pc, answer>>

\* Mutant: the product is as large as it has to be.
Unwrapped(n) == n

\* The value of an int32 expression.
Wrap(n) == ((n + IntMax + 1) % (2 * (IntMax + 1))) - (IntMax + 1)

\* DebugUtil::BeingDebugged on both systems.
BeingDebugged == FALSE
-----------------------------------------------------------------------------
Init ==
    /\ seconds \in Seconds
    /\ i = 0 /\ sleepTime = 0 /\ elapsed = 0 /\ signals = 0
    /\ pc = "test" /\ answer = FALSE

Return(b) ==
    /\ pc' = "done" /\ answer' = b
    /\ UNCHANGED <<seconds, i, sleepTime, elapsed, signals>>

\* i < wait_seconds * 10, and if (BeingDebugged()) before Sleep(100).
Test ==
    /\ pc = "test"
    /\ IF i < Wrap(seconds * Polls)
       THEN IF BeingDebugged THEN Return(TRUE)
            ELSE /\ sleepTime' = Nap /\ pc' = "sleep"
                 /\ UNCHANGED <<seconds, i, elapsed, signals, answer>>
       ELSE Return(FALSE)

\* Mutant: a Sleep with nothing left does not return.
SleepOverUnlessNil ==
    /\ pc = "sleep" /\ sleepTime > 0
    /\ elapsed' = elapsed + sleepTime /\ sleepTime' = 0
    /\ i' = i + 1 /\ pc' = "test"
    /\ UNCHANGED <<seconds, signals, answer>>

\* nanosleep returns 0 after sleepTime; ++i.
SleepOver ==
    /\ pc = "sleep"
    /\ elapsed' = elapsed + sleepTime /\ sleepTime' = 0
    /\ i' = i + 1 /\ pc' = "test"
    /\ UNCHANGED <<seconds, signals, answer>>

\* Mutant: an interrupted Sleep returns.
SignalReturns(left) ==
    /\ pc = "sleep" /\ signals < MaxSignals
    /\ signals' = signals + 1
    /\ elapsed' = elapsed + (sleepTime - left) /\ sleepTime' = 0
    /\ i' = i + 1 /\ pc' = "test"
    /\ UNCHANGED <<seconds, answer>>

\* nanosleep returns EINTR with left ticks remaining; Sleep goes on with those.
Signal(left) ==
    /\ pc = "sleep" /\ signals < MaxSignals /\ left <= sleepTime
    /\ signals' = signals + 1
    /\ elapsed' = elapsed + (sleepTime - left) /\ sleepTime' = left
    /\ UNCHANGED <<seconds, i, pc, answer>>

Next == Test \/ SleepOver \/ \E left \in 0..Nap : Signal(left)

\* The thread runs, and a sleep that no signal interrupts ends.
Spec == Init /\ [][Next]_vars /\ WF_vars(Test) /\ WF_vars(SleepOver)
-----------------------------------------------------------------------------
(***************************************************************************)
(* Properties.                                                             *)
(***************************************************************************)

\* The variables have their types; the counter is an int32 that never overflows.
TypeOK ==
    /\ seconds \in Seconds /\ i \in 0..IntMax /\ sleepTime \in 0..Nap
    /\ elapsed \in Nat /\ signals \in 0..MaxSignals
    /\ pc \in {"test", "sleep", "done"} /\ answer \in BOOLEAN

\* "Waits wait_seconds seconds for a debugger to attach" (debug_util.h): when the
\* call gives up that time has passed, no more and no less, wherever signals cut the
\* sleeps short and however often; none if it is negative.
\* Of a time whose number of polls is no int32 nothing is said: the call may give
\* up at once.
Fits == seconds * Polls \in -IntMax-1..IntMax
WaitsAsAsked ==
    pc = "done" /\ Fits =>
        elapsed = Nap * Polls * (IF seconds > 0 THEN seconds ELSE 0)

\* The call returns, for every wait_seconds, also if the product wraps around.
Returns == <>(pc = "done")
=============================================================================
