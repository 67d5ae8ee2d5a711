--------------------------- MODULE DebuggerWaitProofs ---------------------------
(***************************************************************************)
(* Theorems about DebuggerWait for every width of int32, every length of a *)
(* nap and every number of signals.                                        *)
(***************************************************************************)
EXTENDS DebuggerWait, TLAPS

\* The number of polls that the loop compares with.
Rounds == Wrap(seconds * Polls)

\* At the test the time that has passed is that of the naps so far, in a nap it is with
\* what is left of it that of one more; the loop is left at its bound.
Loop ==
    /\ pc = "test" => sleepTime = 0 /\ elapsed = Nap * i /\ (i = 0 \/ i <= Rounds)
    /\ pc = "sleep" => elapsed + sleepTime = Nap * (i + 1) /\ i < Rounds
    /\ pc = "done" => elapsed = Nap * i /\ i = (IF Rounds > 0 THEN Rounds ELSE 0)

IInv == TypeOK /\ Loop
-----------------------------------------------------------------------------
\* An int32 expression is an int32, and its own value if that fits.
LEMMA WrapFacts ==
  ASSUME NEW n \in Int
  PROVE  /\ Wrap(n) \in -IntMax-1..IntMax
         /\ n \in -IntMax-1..IntMax => Wrap(n) = n
<1> DEFINE w == 2 * (IntMax + 1)
<1>1. w \in Nat /\ w > 0
  BY IntAssumption
<1>2. (n + IntMax + 1) % w \in 0..(w - 1)
  BY <1>1, IntAssumption
<1>3. n + IntMax + 1 \in 0..(w - 1) => (n + IntMax + 1) % w = n + IntMax + 1
  BY <1>1, IntAssumption
<1> QED
  BY <1>2, <1>3, IntAssumption DEF Wrap

\* The bound of the loop is an int32.
LEMMA RoundsType == TypeOK => Rounds \in -IntMax-1..IntMax /\ seconds \in Int
<1> SUFFICES ASSUME TypeOK PROVE Rounds \in -IntMax-1..IntMax /\ seconds \in Int
  OBVIOUS
<1>1. seconds \in Int /\ seconds * Polls \in Int
  BY IntAssumption DEF TypeOK, Polls
<1> QED
  BY <1>1, WrapFacts DEF Rounds

\* A call begins in the inductive invariant.
LEMMA InitIInv == Init => IInv
<1> SUFFICES ASSUME Init PROVE IInv
  OBVIOUS
<1>1. TypeOK
  <2>1. i \in 0..IntMax /\ sleepTime \in 0..Nap /\ signals \in 0..MaxSignals /\ elapsed \in Nat
    BY IntAssumption, BoundAssumption DEF Init
  <2>2. answer \in BOOLEAN /\ pc = "test" /\ seconds \in Seconds
    BY DEF Init
  <2> QED
    BY <2>1, <2>2 DEF TypeOK
<1>2. Nap * 0 = 0
  BY BoundAssumption
<1>3. Loop
  BY <1>2 DEF Init, Loop
<1> QED
  BY <1>1, <1>3 DEF IInv

\* The test of the loop enters a nap or leaves the loop.
LEMMA TestIInv == IInv /\ Test => IInv'
<1> SUFFICES ASSUME IInv, Test PROVE IInv'
  OBVIOUS
<1>1. Rounds \in Int /\ Rounds' = Rounds /\ i \in Nat /\ Nap \in Nat
  BY RoundsType, IntAssumption, BoundAssumption DEF IInv, TypeOK, Test, Return, Rounds
<1>2. pc = "test" /\ sleepTime = 0 /\ elapsed = Nap * i /\ (i = 0 \/ i <= Rounds)
  BY DEF Test, IInv, Loop
<1>3. Nap * (i + 1) = Nap * i + Nap
  BY <1>1
<1>4. CASE i < Rounds
  <2>1. /\ sleepTime' = Nap /\ pc' = "sleep"
        /\ UNCHANGED <<seconds, i, elapsed, signals, answer>>
    BY <1>4 DEF Test, BeingDebugged, Rounds
  <2>2. TypeOK'
    BY <2>1, BoundAssumption DEF IInv, TypeOK
  <2>3. elapsed' + sleepTime' = Nap * (i' + 1)
    BY <1>2, <1>3, <2>1
  <2> QED
    BY <1>1, <1>4, <2>1, <2>2, <2>3 DEF IInv, Loop
<1>5. CASE ~(i < Rounds)
  <2>1. pc' = "done" /\ answer' = FALSE /\ UNCHANGED <<seconds, i, sleepTime, elapsed, signals>>
    BY <1>5 DEF Test, Return, Rounds
  <2>2. TypeOK'
    BY <2>1 DEF IInv, TypeOK
  <2>3. i = IF Rounds > 0 THEN Rounds ELSE 0
    BY <1>1, <1>2, <1>5
  <2> QED
    BY <1>1, <1>2, <2>1, <2>2, <2>3 DEF IInv, Loop
<1> QED
  BY <1>4, <1>5

\* A nap that is over is counted, and the counter is still an int32.
LEMMA SleepOverIInv == IInv /\ SleepOver => IInv'
<1> SUFFICES ASSUME IInv, SleepOver PROVE IInv'
  OBVIOUS
<1>1. Rounds \in -IntMax-1..IntMax /\ Rounds' = Rounds
  BY RoundsType DEF IInv, SleepOver, Rounds
<1>2. pc = "sleep" /\ elapsed + sleepTime = Nap * (i + 1) /\ i < Rounds
  BY DEF SleepOver, IInv, Loop
<1>3. /\ elapsed' = elapsed + sleepTime /\ sleepTime' = 0 /\ i' = i + 1 /\ pc' = "test"
      /\ UNCHANGED <<seconds, signals, answer>>
  BY DEF SleepOver
<1>4. i' \in 0..IntMax /\ i' <= Rounds
  BY <1>1, <1>2, <1>3, IntAssumption DEF IInv, TypeOK
<1>5. TypeOK'
  BY <1>3, <1>4, BoundAssumption DEF IInv, TypeOK
<1>6. elapsed' = Nap * i'
  BY <1>2, <1>3
<1> QED
  BY <1>1, <1>3, <1>4, <1>5, <1>6 DEF IInv, Loop

\* A signal splits a nap and takes nothing from it.
LEMMA SignalIInv == ASSUME IInv, NEW left \in 0..Nap, Signal(left) PROVE IInv'
<1>1. Rounds' = Rounds
  BY DEF Signal, Rounds
<1>2. pc = "sleep" /\ elapsed + sleepTime = Nap * (i + 1) /\ i < Rounds
  BY DEF Signal, IInv, Loop
<1>3. /\ elapsed' = elapsed + (sleepTime - left) /\ sleepTime' = left /\ left <= sleepTime
      /\ signals < MaxSignals /\ signals' = signals + 1 /\ UNCHANGED <<seconds, i, pc, answer>>
  BY DEF Signal
<1>4. TypeOK'
  BY <1>3, BoundAssumption DEF IInv, TypeOK
<1>5. elapsed' + sleepTime' = elapsed + sleepTime
  BY <1>3, BoundAssumption DEF IInv, TypeOK
<1> QED
  BY <1>1, <1>2, <1>3, <1>4, <1>5 DEF IInv, Loop

\* The invariant of every call.
LEMMA Invariance == Spec => []IInv
<1>1. IInv /\ UNCHANGED vars => IInv'
  BY DEF vars, IInv, TypeOK, Loop, Rounds
<1>2. IInv /\ [Next]_vars => IInv'
  BY <1>1, TestIInv, SleepOverIInv, SignalIInv DEF Next
<1> QED
  BY InitIInv, <1>2, PTL DEF Spec

\* Type correctness: the counter of the loop never overflows, also if the product in its
\* test does.
THEOREM TypeCorrect == Spec => []TypeOK
<1>1. IInv => TypeOK
  BY DEF IInv
<1> QED
  BY Invariance, <1>1, PTL

\* The call waits as long as it was asked to, however signals cut its sleeps.
THEOREM WaitCorrect == Spec => []WaitsAsAsked
<1>1. IInv => WaitsAsAsked
  <2> SUFFICES ASSUME IInv, pc = "done", Fits
               PROVE  elapsed = Nap * Polls * (IF seconds > 0 THEN seconds ELSE 0)
    BY DEF WaitsAsAsked
  <2>1. seconds \in Int /\ Nap \in Nat
    BY RoundsType, BoundAssumption DEF IInv
  <2>2. Rounds = seconds * 10
    BY <2>1, WrapFacts DEF Fits, Rounds, Polls
  <2>3. elapsed = Nap * (IF Rounds > 0 THEN Rounds ELSE 0)
    BY DEF IInv, Loop
  <2>4. CASE seconds > 0
    BY <2>1, <2>2, <2>3, <2>4 DEF Polls
  <2>5. CASE ~(seconds > 0)
    BY <2>1, <2>2, <2>3, <2>5 DEF Polls
  <2> QED
    BY <2>4, <2>5
<1> QED
  BY Invariance, <1>1, PTL
-----------------------------------------------------------------------------
\* How many tests and naps are left.
Left ==
    IF pc = "done" THEN 0
    ELSE IF pc = "sleep" THEN 2 * (Rounds - i)
    ELSE 2 * ((IF Rounds > 0 THEN Rounds ELSE 0) - i) + 1

\* The call comes closer to its end with every test and every nap, and a signal does not
\* throw it back: also if the product wraps around there are no more than 2 * IntMax + 1
\* steps but for the signals.
THEOREM WaitShrinks ==
  Spec => [](Left \in 0..2 * IntMax + 1)
            /\ [][Left' < Left \/ (Left' = Left /\ signals' = signals + 1)]_vars
<1>1. IInv => Left \in 0..2 * IntMax + 1
  <2> SUFFICES ASSUME IInv PROVE Left \in 0..2 * IntMax + 1
    OBVIOUS
  <2>1. Rounds \in Int /\ Rounds <= IntMax /\ i \in Nat /\ IntMax \in Nat
    BY RoundsType, IntAssumption DEF IInv, TypeOK
  <2>2. CASE pc = "test"
    BY <2>1, <2>2 DEF IInv, Loop, Left
  <2>3. CASE pc = "sleep"
    BY <2>1, <2>3 DEF IInv, Loop, Left
  <2>4. CASE pc = "done"
    BY <2>1, <2>4 DEF Left
  <2> QED
    BY <2>2, <2>3, <2>4 DEF IInv, TypeOK
<1>2. ASSUME IInv, Next PROVE Left' < Left \/ (Left' = Left /\ signals' = signals + 1)
  <2>1. Rounds \in Int /\ i \in Nat
    BY <1>2, RoundsType DEF IInv, TypeOK
  <2>2. CASE Test
    <3>1. pc = "test" /\ seconds' = seconds /\ i' = i
          /\ pc' = IF i < Rounds THEN "sleep" ELSE "done"
      BY <2>2 DEF Test, Return, BeingDebugged, Rounds
    <3>2. Rounds' = Rounds /\ (i = 0 \/ i <= Rounds)
      BY <1>2, <3>1 DEF IInv, Loop, Rounds
    <3>3. Left = 2 * ((IF Rounds > 0 THEN Rounds ELSE 0) - i) + 1
      BY <3>1 DEF Left
    <3>4. CASE i < Rounds
      <4>1. Left' = 2 * (Rounds - i)
        BY <3>1, <3>2, <3>4 DEF Left
      <4>2. Left = 2 * (Rounds - i) + 1
        BY <2>1, <3>3, <3>4
      <4> QED
        BY <2>1, <4>1, <4>2
    <3>5. CASE ~(i < Rounds)
      <4>1. Left' = 0
        BY <3>1, <3>5 DEF Left
      <4>2. Left > 0
        BY <2>1, <3>2, <3>3
      <4> QED
        BY <4>1, <4>2
    <3> QED
      BY <3>4, <3>5
  <2>3. CASE SleepOver
    <3>1. pc = "sleep" /\ pc' = "test" /\ seconds' = seconds /\ i' = i + 1
      BY <2>3 DEF SleepOver
    <3>2. Rounds' = Rounds /\ i < Rounds
      BY <1>2, <3>1 DEF IInv, Loop, Rounds
    <3>3. Left = 2 * (Rounds - i)
      BY <3>1 DEF Left
    <3>4. Left' = 2 * ((IF Rounds > 0 THEN Rounds ELSE 0) - (i + 1)) + 1
      BY <3>1, <3>2 DEF Left
    <3>5. Left' = 2 * (Rounds - (i + 1)) + 1
      BY <2>1, <3>2, <3>4
    <3> QED
      BY <2>1, <3>3, <3>5
  <2>4. ASSUME NEW left \in 0..Nap, Signal(left)
        PROVE  Left' = Left /\ signals' = signals + 1
    BY <2>4 DEF Signal, Left, Rounds
  <2> QED
    BY <1>2, <2>2, <2>3, <2>4 DEF Next
<1>3. IInv /\ [Next]_vars => [Left' < Left \/ (Left' = Left /\ signals' = signals + 1)]_vars
  BY <1>2
<1> QED
  BY Invariance, <1>1, <1>3, PTL DEF Spec
=============================================================================
