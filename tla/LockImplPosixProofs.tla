------------------------- MODULE LockImplPosixProofs -------------------------
(***************************************************************************)
(* Theorems about LockImplPosix for every set of threads, both builds and  *)
(* every bound on the nesting.                                             *)
(***************************************************************************)
EXTENDS LockImplPosix, TLAPS

\* With clients that keep the contract, a client believes to hold the lock
\* exactly if it owns the mutex, nobody waits for itself, and nothing has been
\* reported.
Disciplined ==
    ~Misuse =>
      /\ \A t \in Threads : claims[t] = IF owner = t THEN 1 ELSE 0
      /\ owner \notin calling
      /\ failed = {}

\* In a debug build the same, in one direction, until EDEADLK is reported.
Supervised ==
    Debug /\ "EDEADLK" \notin failed =>
      \A t \in Threads : claims[t] <= 1 /\ (claims[t] > 0 => owner = t)

\* In every build, whatever the clients do, the owner knows that it is inside.
Held == \A t \in Threads : owner = t => claims[t] > 0

IInv == TypeOK /\ Held /\ Disciplined /\ Supervised

\* The object is constructed into the inductive invariant.
LEMMA InitIInv == Init => IInv
<1> SUFFICES ASSUME Init PROVE IInv
  OBVIOUS
<1> USE DEF Init
<1>1. TypeOK
  BY ModesAssumption DEF TypeOK
<1>2. Disciplined
  BY NoThreadAssumption DEF Disciplined
<1>3. Supervised
  <2> SUFFICES ASSUME NEW t \in Threads PROVE claims[t] <= 1 /\ ~(claims[t] > 0)
    BY DEF Supervised
  <2> QED
    OBVIOUS
<1>4. Held
  BY NoThreadAssumption DEF Held
<1> QED
  BY <1>1, <1>2, <1>3, <1>4 DEF IInv

\* Every step of the object keeps its variables in their types.
LEMMA NextTypeOK == TypeOK /\ [Next]_vars => TypeOK'
<1> SUFFICES ASSUME TypeOK, [Next]_vars PROVE TypeOK'
  OBVIOUS
<1> USE DEF TypeOK, Errors
<1>1. CASE Destroy
  BY <1>1 DEF Destroy, Dcheck
<1>2. ASSUME NEW t \in Threads, LockCall(t) PROVE TypeOK'
  BY <1>2 DEF LockCall
<1>3. ASSUME NEW t \in Threads, LockReturn(t) PROVE TypeOK'
  BY <1>3 DEF LockReturn, Gain
<1>4. ASSUME NEW t \in Threads, LockDeadlock(t) PROVE TypeOK'
  BY <1>4 DEF LockDeadlock, Gain, Dcheck
<1>5. ASSUME NEW t \in Threads, TryTake(t) PROVE TypeOK'
  BY <1>5 DEF TryTake, Gain
<1>6. ASSUME NEW t \in Threads, TryBusy(t) PROVE TypeOK'
  BY <1>6 DEF TryBusy, vars
<1>7. ASSUME NEW t \in Threads, Unlock(t) PROVE TypeOK'
  BY <1>7 DEF Unlock, Lose
<1>8. ASSUME NEW t \in Threads, UnlockForeign(t) PROVE TypeOK'
  BY <1>8 DEF UnlockForeign, Lose, Dcheck
<1>9. CASE UNCHANGED vars
  BY <1>9 DEF vars
<1> QED
  BY <1>1, <1>2, <1>3, <1>4, <1>5, <1>6, <1>7, <1>8, <1>9 DEF Next

\* No step makes a thread the owner behind its back.
LEMMA NextHeld == IInv /\ [Next]_vars => Held'
<1> SUFFICES ASSUME IInv, [Next]_vars PROVE Held'
  OBVIOUS
<1> USE NoThreadAssumption DEF IInv, TypeOK, Held, Debug, Misuse
<1>1. CASE Destroy
  BY <1>1 DEF Destroy, Dcheck
<1>2. ASSUME NEW t \in Threads, LockCall(t) PROVE Held'
  BY <1>2 DEF LockCall
<1>3. ASSUME NEW t \in Threads, LockReturn(t) PROVE Held'
  BY <1>3 DEF LockReturn, Gain
<1>4. ASSUME NEW t \in Threads, LockDeadlock(t) PROVE Held'
  BY <1>4 DEF LockDeadlock, Gain
<1>5. ASSUME NEW t \in Threads, TryTake(t) PROVE Held'
  BY <1>5 DEF TryTake, Gain
<1>6. ASSUME NEW t \in Threads, TryBusy(t) PROVE Held'
  BY <1>6 DEF TryBusy, vars
<1>7. ASSUME NEW t \in Threads, Unlock(t) PROVE Held'
  BY <1>7 DEF Unlock, Lose
<1>8. ASSUME NEW t \in Threads, UnlockForeign(t) PROVE Held'
  BY <1>8 DEF UnlockForeign, Lose
<1>9. CASE UNCHANGED vars
  BY <1>9 DEF vars
<1> QED
  BY <1>1, <1>2, <1>3, <1>4, <1>5, <1>6, <1>7, <1>8, <1>9 DEF Next

\* Every step keeps claims and owner together for clients that keep the contract.
LEMMA NextDisciplined == IInv /\ [Next]_vars => Disciplined'
<1> SUFFICES ASSUME IInv, [Next]_vars, ~Misuse' PROVE Disciplined'
  BY DEF Disciplined
<1> USE NoThreadAssumption DEF IInv, TypeOK, Disciplined, Debug, Misuse
<1>1. CASE Destroy
  BY <1>1 DEF Destroy, MayDestroy, Dcheck
<1>2. ASSUME NEW t \in Threads, LockCall(t) PROVE Disciplined'
  BY <1>2 DEF LockCall, MayLock
<1>3. ASSUME NEW t \in Threads, LockReturn(t) PROVE Disciplined'
  BY <1>3 DEF LockReturn, Gain
<1>4. ASSUME NEW t \in Threads, LockDeadlock(t) PROVE Disciplined'
  BY <1>4 DEF LockDeadlock
<1>5. ASSUME NEW t \in Threads, TryTake(t) PROVE Disciplined'
  BY <1>5 DEF TryTake, Gain, Idle
<1>6. ASSUME NEW t \in Threads, TryBusy(t) PROVE Disciplined'
  BY <1>6 DEF TryBusy, vars
<1>7. ASSUME NEW t \in Threads, Unlock(t) PROVE Disciplined'
  BY <1>7 DEF Unlock, Lose
<1>8. ASSUME NEW t \in Threads, UnlockForeign(t) PROVE Disciplined'
  BY <1>8 DEF UnlockForeign, MayUnlock
<1>9. CASE UNCHANGED vars
  BY <1>9 DEF vars
<1> QED
  BY <1>1, <1>2, <1>3, <1>4, <1>5, <1>6, <1>7, <1>8, <1>9 DEF Next

\* Every step of a debug build keeps them together until it reports EDEADLK.
LEMMA NextSupervised == IInv /\ [Next]_vars => Supervised'
<1> SUFFICES ASSUME IInv, [Next]_vars, Debug' PROVE Supervised'
  BY DEF Supervised
<1> USE NoThreadAssumption DEF IInv, TypeOK, Supervised, Debug, Misuse
<1>1. CASE Destroy
  BY <1>1 DEF Destroy, Dcheck
<1>2. ASSUME NEW t \in Threads, LockCall(t) PROVE Supervised'
  BY <1>2 DEF LockCall
<1>3. ASSUME NEW t \in Threads, LockReturn(t) PROVE Supervised'
  BY <1>3 DEF LockReturn, Gain
<1>4. ASSUME NEW t \in Threads, LockDeadlock(t) PROVE Supervised'
  BY <1>4 DEF LockDeadlock, Dcheck
<1>5. ASSUME NEW t \in Threads, TryTake(t) PROVE Supervised'
  BY <1>5 DEF TryTake, Gain
<1>6. ASSUME NEW t \in Threads, TryBusy(t) PROVE Supervised'
  BY <1>6 DEF TryBusy, vars
<1>7. ASSUME NEW t \in Threads, Unlock(t) PROVE Supervised'
  BY <1>7 DEF Unlock, Lose
<1>8. ASSUME NEW t \in Threads, UnlockForeign(t) PROVE Supervised'
  BY <1>8 DEF UnlockForeign, Lose, Dcheck
<1>9. CASE UNCHANGED vars
  BY <1>9 DEF vars
<1> QED
  BY <1>1, <1>2, <1>3, <1>4, <1>5, <1>6, <1>7, <1>8, <1>9 DEF Next

\* The invariant of all behaviours of the object.
LEMMA Invariance == Spec => []IInv
<1>1. IInv /\ [Next]_vars => IInv'
  BY NextTypeOK, NextHeld, NextDisciplined, NextSupervised DEF IInv
<1> QED
  BY InitIInv, <1>1, PTL DEF Spec, Safe

\* Type correctness (lock_impl_posix.cc, every operation).
THEOREM TypeCorrect == Spec => []TypeOK
<1>1. IInv => TypeOK
  BY DEF IInv
<1> QED
  BY Invariance, <1>1, PTL

\* The lock excludes: no two clients that keep the contract are inside at once,
\* for any number of threads, in a debug and in a release build.
THEOREM Exclusive == Spec => []MutualExclusion
<1>1. IInv => MutualExclusion
  BY DEF IInv, Disciplined, MutualExclusion
<1> QED
  BY Invariance, <1>1, PTL

\* The DCHECKs on the pthread calls never fire for clients that keep the contract.
THEOREM NeverAccused == Spec => []NoFalseAlarm
<1>1. IInv => NoFalseAlarm
  BY DEF IInv, Disciplined, NoFalseAlarm
<1> QED
  BY Invariance, <1>1, PTL

\* In a debug build whatever puts two clients inside at once has been reported.
THEOREM NeverSilent == Spec => []NoSilentLoss
<1>1. IInv => NoSilentLoss
  BY NoThreadAssumption DEF IInv, TypeOK, Supervised, NoSilentLoss
<1> QED
  BY Invariance, <1>1, PTL

\* No step takes the mutex from its owner but the owner's own Unlock(): in a debug
\* build whatever the clients do, in a release build if they keep the contract.
THEOREM HolderFrees == Spec => OnlyHolderFrees
<1> DEFINE Frees == Debug \/ ~Misuse =>
       \A t \in Threads : owner = t /\ owner' # t => claims'[t] < claims[t]
<1>1. IInv /\ [Next]_vars => [Frees]_vars
  <2> SUFFICES ASSUME IInv, Next, Debug \/ ~Misuse,
                      NEW h \in Threads, owner = h, owner' # h
               PROVE  claims'[h] < claims[h]
    BY DEF vars
  <2> USE NoThreadAssumption DEF IInv, TypeOK, Held, Disciplined, Debug, Misuse
  <2>1. CASE Destroy
    BY <2>1 DEF Destroy
  <2>2. ASSUME NEW t \in Threads, LockCall(t) PROVE claims'[h] < claims[h]
    BY <2>2 DEF LockCall
  <2>3. ASSUME NEW t \in Threads, LockReturn(t) PROVE claims'[h] < claims[h]
    BY <2>3 DEF LockReturn
  <2>4. ASSUME NEW t \in Threads, LockDeadlock(t) PROVE claims'[h] < claims[h]
    BY <2>4 DEF LockDeadlock
  <2>5. ASSUME NEW t \in Threads, TryTake(t) PROVE claims'[h] < claims[h]
    BY <2>5 DEF TryTake
  <2>6. ASSUME NEW t \in Threads, TryBusy(t) PROVE claims'[h] < claims[h]
    BY <2>6 DEF TryBusy, vars
  <2>7. ASSUME NEW t \in Threads, Unlock(t) PROVE claims'[h] < claims[h]
    BY <2>7 DEF Unlock, Lose
  <2>8. ASSUME NEW t \in Threads, UnlockForeign(t) PROVE claims'[h] < claims[h]
    BY <2>8 DEF UnlockForeign, MayUnlock
  <2> QED
    BY <2>1, <2>2, <2>3, <2>4, <2>5, <2>6, <2>7, <2>8 DEF Next
<1> QED
  BY Invariance, <1>1, PTL DEF Spec, Safe, OnlyHolderFrees

\* In a release build what clients believe stays true, through recursive calls of
\* Lock() and lost calls of Unlock(), until an Unlock() frees another's mutex.
THEOREM ForeignUnlockMisleads == Spec => OnlyForeignUnlockMisleads
<1> DEFINE Kept == ~Debug /\ Honest => Honest' \/ FreedBehindBack
<1>1. IInv /\ [Next]_vars => [Kept]_vars
  <2> SUFFICES ASSUME IInv, Next, ~Debug, Honest PROVE Honest' \/ FreedBehindBack
    BY DEF vars
  <2> USE NoThreadAssumption DEF IInv, TypeOK, Held, Honest, Debug, Misuse
  <2>1. CASE Destroy
    BY <2>1 DEF Destroy
  <2>2. ASSUME NEW t \in Threads, LockCall(t) PROVE Honest'
    BY <2>2 DEF LockCall
  <2>3. ASSUME NEW t \in Threads, LockReturn(t) PROVE Honest'
    BY <2>3 DEF LockReturn, Gain
  <2>4. ASSUME NEW t \in Threads, LockDeadlock(t) PROVE FALSE
    BY <2>4 DEF LockDeadlock
  <2>5. ASSUME NEW t \in Threads, TryTake(t) PROVE Honest'
    BY <2>5 DEF TryTake, Gain
  <2>6. ASSUME NEW t \in Threads, TryBusy(t) PROVE Honest'
    BY <2>6 DEF TryBusy, vars
  <2>7. ASSUME NEW t \in Threads, Unlock(t) PROVE Honest'
    BY <2>7 DEF Unlock, Lose
  <2>8. ASSUME NEW t \in Threads, UnlockForeign(t) PROVE Honest' \/ FreedBehindBack
    <3>1. CASE owner' = owner
      BY <2>8, <3>1 DEF UnlockForeign, Lose
    <3>2. CASE owner = NoThread /\ owner' = NoThread
      BY <2>8, <3>2 DEF UnlockForeign, Lose
    <3>3. CASE owner \in Threads /\ owner' = NoThread
      BY <2>8, <3>3 DEF UnlockForeign, Lose, FreedBehindBack
    <3> QED
      BY <2>8, <3>1, <3>2, <3>3 DEF UnlockForeign
  <2> QED
    BY <2>1, <2>2, <2>3, <2>4, <2>5, <2>6, <2>7, <2>8 DEF Next
<1> QED
  BY Invariance, <1>1, PTL DEF Spec, Safe, OnlyForeignUnlockMisleads

\* The object implements AbstractLock, step by step, for clients that keep the
\* contract: every call and return is a step of the abstract lock or leaves it
\* as it is.  (That waiters are served needs the fairness and is checked by TLC.)
THEOREM ImplementsSteps == Spec => Promised!Safety
<1>1. Init => Promised!Init
  BY DEF Init, Promised!Init
<1>2. IInv /\ [Next]_vars => [Promised!Next]_(Promised!vars)
  <2> SUFFICES ASSUME IInv, [Next]_vars PROVE [Promised!Next]_(Promised!vars)
    OBVIOUS
  <2> USE NoThreadAssumption DEF IInv, TypeOK, Disciplined, Promised!vars, Misuse
  <2>0. mode' = mode
    BY DEF Next, vars, Destroy, LockCall, LockReturn, LockDeadlock, TryTake, TryBusy,
           Unlock, UnlockForeign
  <2>1. CASE Misuse
    BY <2>0, <2>1
  <2>2. CASE ~Misuse
    <3>1. CASE Destroy
      BY <2>0, <2>2, <3>1 DEF Destroy
    <3>2. ASSUME NEW t \in Threads, LockCall(t) PROVE Promised!Next
      BY <2>0, <2>2, <3>2 DEF LockCall, Idle, MayLock, Promised!Next, Promised!Request
    <3>3. ASSUME NEW t \in Threads, LockReturn(t) PROVE Promised!Next
      BY <2>0, <2>2, <3>3 DEF LockReturn, Promised!Next, Promised!Grant
    <3>4. ASSUME NEW t \in Threads, LockDeadlock(t) PROVE FALSE
      BY <2>2, <3>4 DEF LockDeadlock
    <3>5. ASSUME NEW t \in Threads, TryTake(t) PROVE Promised!Next
      BY <2>0, <2>2, <3>5 DEF TryTake, Idle, Promised!Next, Promised!TryGrant
    <3>6. ASSUME NEW t \in Threads, TryBusy(t) PROVE UNCHANGED Promised!vars
      BY <3>6 DEF TryBusy, vars
    <3>7. ASSUME NEW t \in Threads, Unlock(t) PROVE Promised!Next
      BY <2>0, <2>2, <3>7 DEF Unlock, Promised!Next, Promised!Release
    <3>8. ASSUME NEW t \in Threads, UnlockForeign(t) PROVE FALSE
      BY <2>2, <3>8 DEF UnlockForeign, MayUnlock
    <3>9. CASE UNCHANGED vars
      BY <3>9 DEF vars
    <3> QED
      BY <3>1, <3>2, <3>3, <3>4, <3>5, <3>6, <3>7, <3>8, <3>9 DEF Next
  <2> QED
    BY <2>1, <2>2
<1> QED
  BY Invariance, <1>1, <1>2, PTL DEF Spec, Safe, Promised!Safety
-----------------------------------------------------------------------------
\* The object is not destroyed under a call.
DestroyedAlone == destroyed => calling = {}

\* Who is inside Lock() waits for a mutex that is free, or refused to its own owner, or
\* owned by a client that is not in a call and may give it back.
WaitsForIdleHolder ==
    Debug \/ ~Misuse =>
      \A t \in calling :
        \/ owner = NoThread
        \/ Debug /\ owner \in calling
        \/ owner # t /\ Idle(owner) /\ MayUnlock(owner)

\* No deadlock inside the object: in a release build among clients that keep the contract,
\* in a debug build whatever they do.  (A release build lets a client wait for itself.)
THEOREM NobodyWaitsInVain == Spec => []WaitsForIdleHolder
<1>1. Init => DestroyedAlone
  BY DEF Init, DestroyedAlone
<1>2. DestroyedAlone /\ [Next]_vars => DestroyedAlone'
  <2> SUFFICES ASSUME DestroyedAlone, [Next]_vars PROVE DestroyedAlone'
    OBVIOUS
  <2> USE DEF DestroyedAlone
  <2>1. CASE Destroy
    BY <2>1 DEF Destroy
  <2>2. ASSUME NEW t \in Threads,
               \/ LockCall(t) \/ TryTake(t) \/ TryBusy(t) \/ Unlock(t) \/ UnlockForeign(t)
        PROVE  DestroyedAlone'
    BY <2>2 DEF LockCall, TryTake, TryBusy, Unlock, UnlockForeign, Idle, vars
  <2>3. ASSUME NEW t \in Threads, LockReturn(t) \/ LockDeadlock(t) PROVE DestroyedAlone'
    BY <2>3 DEF LockReturn, LockDeadlock
  <2>4. CASE UNCHANGED vars
    BY <2>4 DEF vars
  <2> QED
    BY <2>1, <2>2, <2>3, <2>4 DEF Next
<1>3. IInv /\ DestroyedAlone => WaitsForIdleHolder
  <2> SUFFICES ASSUME IInv, DestroyedAlone, Debug \/ ~Misuse, NEW t \in calling,
                      owner # NoThread, ~(Debug /\ owner \in calling)
               PROVE  owner # t /\ Idle(owner) /\ MayUnlock(owner)
    BY DEF WaitsForIdleHolder
  <2>1. owner \in Threads /\ owner \notin calling
    BY DEF IInv, TypeOK, Disciplined
  <2>2. claims[owner] > 0
    BY <2>1 DEF IInv, Held
  <2> QED
    BY <2>1, <2>2 DEF DestroyedAlone, Idle, MayUnlock
<1> QED
  BY Invariance, <1>1, <1>2, <1>3, PTL DEF Spec, Safe
=============================================================================
