---------------------------- MODULE AbstractLock ----------------------------
(***************************************************************************)
(* What base/lock_impl.h promises of one lock object, whatever the         *)
(* platform: Lock() takes the lock, blocking until it is available; Try()  *)
(* takes it only if nobody holds it; Unlock() is called by the holder and  *)
(* makes the lock available again.  LockImplPosix and LockImplWin are      *)
(* shown to implement this specification.                                  *)
(***************************************************************************)
CONSTANTS Threads,   \* the threads that share the lock
          NoThread   \* "nobody", not a member of Threads

VARIABLES holder,    \* the thread that has the lock, or NoThread
          waiting    \* the threads blocked in Lock()

vars == <<holder, waiting>>

Init == holder = NoThread /\ waiting = {}

\* Lock() is called: from here on the caller is blocked.
Request(t) ==
    /\ t \notin waiting /\ holder # t
    /\ waiting' = waiting \cup {t}
    /\ UNCHANGED holder

\* Lock() returns: the lock was available and the caller has it.
Grant(t) ==
    /\ t \in waiting /\ holder = NoThread
    /\ holder' = t
    /\ waiting' = waiting \ {t}

\* Try() returns true.  (Try() returning false changes nothing.)
TryGrant(t) ==
    /\ t \notin waiting /\ holder = NoThread
    /\ holder' = t
    /\ UNCHANGED waiting

Release(t) ==
    /\ holder = t
    /\ holder' = NoThread
    /\ UNCHANGED waiting

Next == \E t \in Threads : Request(t) \/ Grant(t) \/ TryGrant(t) \/ Release(t)

\* "blocking until it is available if necessary": an available lock that is
\* wanted is given to somebody.  Nothing is said of which waiter is served.
Fairness == WF_vars(\E t \in Threads : Grant(t))

\* What may happen, and that what should happen does.
Safety == Init /\ [][Next]_vars
Spec   == Safety /\ Fairness
=============================================================================
