---------------------------- MODULE LockImplPosix ----------------------------
(***************************************************************************)
(* LockImpl on POSIX (base/lock_impl.h, base/lock_impl_posix.cc): one      *)
(* object around one pthread mutex, shared by the threads of a program.    *)
(*                                                                         *)
(* A debug build (NDEBUG not defined) makes the mutex PTHREAD_MUTEX_       *)
(* ERRORCHECK and DCHECKs every return value; a release build takes the    *)
(* default mutex and ignores them.  A failed DCHECK is LOG(FATAL), which   *)
(* logs and RETURNS: DebugUtil::BreakDebugger (debug_util_posix.cc) is     *)
(* empty.  So the calling thread goes on as if the call had succeeded;     *)
(* "failed" records what has been reported.                                *)
(***************************************************************************)
EXTENDS Naturals

CONSTANTS Threads,     \* the threads that share the object
          NoThread,    \* "nobody"
          Modes,       \* the programs that are looked at
          MaxClaims    \* bound on the nesting of Lock() by a misusing client

\* A program is built for debugging (NDEBUG is not defined) or not, and its threads
\* may or may not break the contract of lock_impl.h.
AllModes == [debug : BOOLEAN, misuse : BOOLEAN]

ASSUME NoThreadAssumption == NoThread \notin Threads
ASSUME ModesAssumption    == Modes \subseteq AllModes
ASSUME BoundAssumption    == MaxClaims \in Nat \ {0}

VARIABLES mode,        \* which program this is; it never changes
          owner,       \* os_lock_: the thread that owns the mutex
          calling,     \* the threads inside pthread_mutex_lock
          claims,      \* how often each client believes to hold the lock
          failed,      \* errno values for which a DCHECK has fired
          destroyed    \* ~LockImpl has run

vars == <<mode, owner, calling, claims, failed, destroyed>>

Debug  == mode.debug
Misuse == mode.misuse

\* The errors of the pthread calls that the DCHECKs look at.
Errors == {"EDEADLK", "EPERM", "EBUSY"}

\* Mutant: the return value is not looked at.
DcheckIgnored(e) == failed' = failed

\* DCHECK(rv == 0) with rv = e: reported in a debug build, compiled away else.
Dcheck(e) == failed' = IF Debug THEN failed \cup {e} ELSE failed

Idle(t) == t \notin calling /\ ~destroyed

\* The client's side: who may call what.  Without Misuse it is the contract of
\* lock_impl.h: the lock is not taken twice, only its holder releases it, and
\* it is free when it is destroyed.
MayLock(t)   == claims[t] < IF Misuse THEN MaxClaims ELSE 1
MayUnlock(t) == Misuse \/ claims[t] > 0
MayDestroy   == Misuse \/ \A t \in Threads : claims[t] = 0
-----------------------------------------------------------------------------
\* LockImpl::LockImpl: the mutex is initialised, of the kind the build selects.
Init ==
    /\ mode \in Modes
    /\ owner = NoThread
    /\ calling = {}
    /\ claims = [t \in Threads |-> 0]
    /\ failed = {}
    /\ destroyed = FALSE

Gain(t) == claims' = [claims EXCEPT ![t] = @ + 1]
Lose(t) == claims' = [claims EXCEPT ![t] = IF @ = 0 THEN 0 ELSE @ - 1]

\* LockImpl::Lock enters pthread_mutex_lock.
LockCall(t) ==
    /\ Idle(t) /\ MayLock(t)
    /\ calling' = calling \cup {t}
    /\ UNCHANGED <<mode, owner, claims, failed, destroyed>>

\* Mutant: the caller goes on without waiting for the owner.
LockReturnAtOnce(t) ==
    /\ t \in calling
    /\ owner' = t
    /\ calling' = calling \ {t}
    /\ Gain(t)
    /\ UNCHANGED <<mode, failed, destroyed>>

\* pthread_mutex_lock returns 0: the mutex was free.
LockReturn(t) ==
    /\ t \in calling /\ owner = NoThread
    /\ owner' = t
    /\ calling' = calling \ {t}
    /\ Gain(t)
    /\ UNCHANGED <<mode, failed, destroyed>>

\* Mutant: the mutex is not of the error-checking type.
LockDeadlockUnchecked(t) == FALSE /\ t \in calling /\ UNCHANGED vars

\* An error-checking mutex refuses its own owner with EDEADLK; DCHECK(rv == 0)
\* reports it and Lock() returns all the same.  A default mutex blocks.
LockDeadlock(t) ==
    /\ t \in calling /\ owner = t /\ Debug
    /\ calling' = calling \ {t}
    /\ Gain(t)
    /\ Dcheck("EDEADLK")
    /\ UNCHANGED <<mode, owner, destroyed>>

\* Mutant: Try() takes EBUSY for success.
TryTakeBusy(t) ==
    /\ Idle(t) /\ MayLock(t)
    /\ owner' = t
    /\ Gain(t)
    /\ UNCHANGED <<mode, calling, failed, destroyed>>

\* LockImpl::Try, returning true.
TryTake(t) ==
    /\ Idle(t) /\ MayLock(t) /\ owner = NoThread
    /\ owner' = t
    /\ Gain(t)
    /\ UNCHANGED <<mode, calling, failed, destroyed>>

\* LockImpl::Try, returning false: EBUSY, whoever the owner is.
TryBusy(t) ==
    /\ Idle(t) /\ owner # NoThread
    /\ UNCHANGED vars

\* Mutant: Unlock() returns without unlocking the mutex.
UnlockLost(t) ==
    /\ Idle(t) /\ MayUnlock(t) /\ owner = t
    /\ Lose(t)
    /\ UNCHANGED <<mode, owner, calling, failed, destroyed>>

\* LockImpl::Unlock by the owner.
Unlock(t) ==
    /\ Idle(t) /\ MayUnlock(t) /\ owner = t
    /\ owner' = NoThread
    /\ Lose(t)
    /\ UNCHANGED <<mode, calling, failed, destroyed>>

\* Mutant: the mutex is freed whoever asks for it.
UnlockForeignFrees(t) ==
    /\ Idle(t) /\ MayUnlock(t) /\ owner # t
    /\ owner' = NoThread
    /\ Lose(t)
    /\ Dcheck("EPERM")
    /\ UNCHANGED <<mode, calling, destroyed>>

\* LockImpl::Unlock by a thread that does not own the mutex: EPERM and a failed
\* DCHECK in a debug build; undefined for a default mutex, where the unlock
\* is either lost or frees the mutex under its owner.
UnlockForeign(t) ==
    /\ Idle(t) /\ MayUnlock(t) /\ owner # t
    /\ owner' \in IF Debug THEN {owner} ELSE {owner, NoThread}
    /\ Lose(t)
    /\ Dcheck("EPERM")
    /\ UNCHANGED <<mode, calling, destroyed>>

\* LockImpl::~LockImpl, once no call is in progress: EBUSY if it is owned.
Destroy ==
    /\ ~destroyed /\ calling = {} /\ MayDestroy
    /\ destroyed' = TRUE
    /\ IF owner = NoThread THEN UNCHANGED failed ELSE Dcheck("EBUSY")
    /\ UNCHANGED <<mode, owner, calling, claims>>

Next ==
    \/ Destroy
    \/ \E t \in Threads :
          \/ LockCall(t) \/ LockReturn(t) \/ LockDeadlock(t)
          \/ TryTake(t)  \/ TryBusy(t)
          \/ Unlock(t)   \/ UnlockForeign(t)

\* The OS gives a free mutex to one of the threads blocked on it (to which one
\* is not promised) and answers EDEADLK; no client is assumed to do anything.
Fairness ==
    /\ WF_vars(\E t \in Threads : LockReturn(t))
    /\ \A t \in Threads : WF_vars(LockDeadlock(t))

Safe == Init /\ [][Next]_vars
Spec == Safe /\ Fairness
-----------------------------------------------------------------------------
(***************************************************************************)
(* Properties.                                                             *)
(***************************************************************************)

\* The variables have their types.
TypeOK ==
    /\ mode \in AllModes
    /\ owner \in Threads \cup {NoThread}
    /\ calling \subseteq Threads
    /\ claims \in [Threads -> Nat]
    /\ failed \subseteq Errors
    /\ destroyed \in BOOLEAN

\* Two threads never believe to hold the lock at once (lock_impl.h: "Take the
\* lock, blocking until it is available"), if the clients keep the contract.
MutualExclusion ==
    ~Misuse => \A t, u \in Threads : claims[t] > 0 /\ claims[u] > 0 => t = u

\* The DCHECKs of lock_impl_posix.cc give no false alarm: with clients that keep
\* the contract none of them fires, in whatever order the threads run and
\* wherever the object is destroyed.
NoFalseAlarm == ~Misuse => failed = {}

\* The DCHECKs miss nothing that matters: in a debug build, whatever the clients
\* do, two threads are inside at once only after a recursive Lock() has been
\* reported.  (Nothing stops them then: a failed DCHECK returns.)
NoSilentLoss ==
    \/ ~Debug
    \/ "EDEADLK" \in failed
    \/ \A t, u \in Threads : claims[t] > 0 /\ claims[u] > 0 => t = u

\* A thread loses the mutex only by an Unlock() of its own: in a debug build even
\* a client that unlocks what it does not hold cannot take it from the owner.
OnlyHolderFrees ==
    [][Debug \/ ~Misuse =>
         \A t \in Threads : owner = t /\ owner' # t => claims'[t] < claims[t]]_vars

\* A debug build turns the self-deadlock of a recursive Lock() into a report: the
\* thread that waits for itself does not wait for ever.
NoSelfDeadlock ==
    Debug => \A t \in Threads : (t \in calling /\ owner = t) ~> (t \notin calling)

\* A release build reports nothing, but a recursive Lock() does no more than block
\* its caller: as long as each client that believes to hold the mutex owns it, and
\* once, only a step that frees the mutex behind a client's back can change that.
Honest == \A t \in Threads : claims[t] > 0 => owner = t /\ claims[t] = 1
FreedBehindBack == \E t \in Threads : owner = t /\ owner' = NoThread /\ claims'[t] > 0
OnlyForeignUnlockMisleads == [][~Debug /\ Honest => Honest' \/ FreedBehindBack]_vars

\* With clients that keep the contract the object does what lock_impl.h
\* promises, and a free mutex that is waited for is taken.  A program that breaks
\* it is promised nothing: it shows as a lock that nobody uses.
Promised == INSTANCE AbstractLock
    WITH holder  <- IF Misuse THEN NoThread ELSE owner,
         waiting <- IF Misuse THEN {} ELSE calling
ImplementsLock == Promised!Spec
=============================================================================
