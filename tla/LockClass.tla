------------------------------ MODULE LockClass ------------------------------
(***************************************************************************)
(* class Lock (base/lock.h), the wrapper that users are told to use instead*)
(* of LockImpl.  Acquire() and Release() forward to the LockImpl.  Try() is*)
(* declared bool and forwards too, but has no return statement: the result *)
(* that the caller sees is undefined, so it is any Boolean here.           *)
(***************************************************************************)
EXTENDS LockImplPosix

AcquireCall(t)   == LockCall(t)
AcquireReturn(t) == LockReturn(t)
Release(t)       == Unlock(t)

\* Lock::Try: lock_.Try() takes the mutex if it is free; the client acts on an
\* answer that has nothing to do with it.
Try(t) ==
    \E answer \in BOOLEAN :
        /\ Idle(t) /\ MayLock(t)
        /\ owner' = IF owner = NoThread THEN t ELSE owner
        /\ IF answer THEN Gain(t) ELSE UNCHANGED claims
        /\ UNCHANGED <<mode, calling, failed, destroyed>>

LockNext == \E t \in Threads :
    AcquireCall(t) \/ AcquireReturn(t) \/ Release(t) \/ Try(t)

LockSpec == Init /\ [][LockNext]_vars
-----------------------------------------------------------------------------
\* lock_impl.h says of Try(): "If the lock is not held, take it and return true.
\* If the lock is already held by something else, immediately return false".
\* So whoever was told to have the lock has it, and whoever has it was told.
TryTellsTheTruth == \A t \in Threads : claims[t] > 0 <=> owner = t
=============================================================================
