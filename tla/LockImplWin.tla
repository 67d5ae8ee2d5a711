----------------------------- MODULE LockImplWin -----------------------------
(***************************************************************************)
(* LockImpl on Windows (base/lock_impl.h, base/lock_impl_win.cc): a        *)
(* CRITICAL_SECTION, which its owner may enter again, and, in a debug      *)
(* build, three fields that shadow it so that recursion can be reported    *)
(* and AssertAcquired() can tell who is inside.  The fields are written    *)
(* one at a time, under the section; AssertAcquired() reads them one at a  *)
(* time, possibly from a thread that is not inside.  A failed DCHECK logs  *)
(* and returns (debug_util_win.cc), so the caller goes on.                 *)
(*                                                                         *)
(* Clients may lock recursively and call AssertAcquired() at any time; they*)
(* unlock as often as they locked.                                         *)
(***************************************************************************)
EXTENDS Integers

CONSTANTS Threads,    \* the threads that share the object
          NoThread,   \* "nobody"; also the thread id 0
          Debug,      \* TRUE: NDEBUG is not defined
          MaxNest     \* bound on the nesting of Lock(); 1: no recursion

ASSUME NoThreadAssumption == NoThread \notin Threads
ASSUME BuildAssumption    == Debug \in BOOLEAN
ASSUME NestAssumption     == MaxNest \in Nat \ {0}

VARIABLES
    csOwner, csDepth,   \* os_lock_: the owner and how often it entered
    owningThreadId,     \* owning_thread_id_
    shadow,             \* recursion_count_shadow_
    recursionUsed,      \* recursion_used_
    pc,                 \* what each thread is about to do in a call
    verdict             \* what the last AssertAcquired() of each thread said

vars == <<csOwner, csDepth, owningThreadId, shadow, recursionUsed, pc, verdict>>

Inside  == {"stamp", "count", "check", "uncount", "clear", "leave"}
Outside == {"idle", "entering", "assert", "assertOwner", "accused"}
Labels  == Inside \cup Outside
Verdicts == {"none", "held", "not held"}

Goto(t, label) == pc' = [pc EXCEPT ![t] = label]
Forget(t)      == verdict' = [verdict EXCEPT ![t] = "none"]
Call(t, from, to) == pc[t] = from /\ Goto(t, to)
-----------------------------------------------------------------------------
Init ==
    /\ csOwner = NoThread /\ csDepth = 0
    /\ owningThreadId = NoThread /\ shadow = 0 /\ recursionUsed = FALSE
    /\ pc = [t \in Threads |-> "idle"]
    /\ verdict = [t \in Threads |-> "none"]

\* EnterCriticalSection and TryEnterCriticalSection: the section admits t.
Admits(t) == csOwner \in {t, NoThread}
Enter(t) ==
    /\ Admits(t)
    /\ csOwner' = t
    /\ csDepth' = csDepth + 1

\* LockImpl::Lock is called.
LockCall(t) ==
    /\ Call(t, "idle", "entering") /\ Forget(t)
    /\ csOwner = t => csDepth < MaxNest
    /\ UNCHANGED <<csOwner, csDepth, owningThreadId, shadow, recursionUsed>>

\* EnterCriticalSection returns; only a debug build has anything left to do.
EnterReturn(t) ==
    /\ Call(t, "entering", IF Debug THEN "stamp" ELSE "idle")
    /\ Enter(t)
    /\ UNCHANGED <<owningThreadId, shadow, recursionUsed, verdict>>

\* Mutant: Try() does not look at what TryEnterCriticalSection returns.
TrySucceedAlways(t) ==
    /\ Call(t, "idle", IF Debug THEN "stamp" ELSE "idle") /\ Forget(t)
    /\ csOwner = t => csDepth < MaxNest
    /\ csOwner' = t
    /\ csDepth' = csDepth + 1
    /\ UNCHANGED <<owningThreadId, shadow, recursionUsed>>

\* LockImpl::Try, where TryEnterCriticalSection succeeds.
TrySucceed(t) ==
    /\ Call(t, "idle", IF Debug THEN "stamp" ELSE "idle") /\ Forget(t)
    /\ csOwner = t => csDepth < MaxNest
    /\ Enter(t)
    /\ UNCHANGED <<owningThreadId, shadow, recursionUsed>>

\* LockImpl::Try, where it does not.
TryFail(t) ==
    /\ pc[t] = "idle" /\ ~Admits(t) /\ Forget(t)
    /\ UNCHANGED <<csOwner, csDepth, owningThreadId, shadow, recursionUsed, pc>>

\* Mutant: the owner is recorded by a recursive acquisition only.
StampOnce(t) ==
    /\ Call(t, "stamp", "count")
    /\ owningThreadId' = IF csDepth > 1 THEN t ELSE owningThreadId
    /\ UNCHANGED <<csOwner, csDepth, shadow, recursionUsed, verdict>>

\* owning_thread_id_ = PlatformThread::CurrentId();
Stamp(t) ==
    /\ Call(t, "stamp", "count")
    /\ owningThreadId' = t
    /\ UNCHANGED <<csOwner, csDepth, shadow, recursionUsed, verdict>>

\* Mutant: the count is left alone.
CountForgotten(t) ==
    /\ Call(t, "count", "check")
    /\ UNCHANGED <<csOwner, csDepth, owningThreadId, shadow, recursionUsed, verdict>>

\* recursion_count_shadow_++;
Count(t) ==
    /\ Call(t, "count", "check")
    /\ shadow' = shadow + 1
    /\ UNCHANGED <<csOwner, csDepth, owningThreadId, recursionUsed, verdict>>

\* Mutant: the comparison is off by one.
CheckLater(t) ==
    /\ Call(t, "check", "idle")
    /\ recursionUsed' = (recursionUsed \/ shadow = 3)
    /\ UNCHANGED <<csOwner, csDepth, owningThreadId, shadow, verdict>>

\* if (2 == recursion_count_shadow_ && !recursion_used_) { ... DCHECK(false); }
\* The report and the flag go together.
Check(t) ==
    /\ Call(t, "check", "idle")
    /\ recursionUsed' = (recursionUsed \/ shadow = 2)
    /\ UNCHANGED <<csOwner, csDepth, owningThreadId, shadow, verdict>>

\* LockImpl::Unlock is called by a thread that is inside.
UnlockCall(t) ==
    /\ csOwner = t /\ Forget(t)
    /\ Call(t, "idle", IF Debug THEN "uncount" ELSE "leave")
    /\ UNCHANGED <<csOwner, csDepth, owningThreadId, shadow, recursionUsed>>

\* --recursion_count_shadow_; DCHECK(recursion_count_shadow_ >= 0);
Uncount(t) ==
    /\ Call(t, "uncount", "clear")
    /\ shadow' = shadow - 1
    /\ UNCHANGED <<csOwner, csDepth, owningThreadId, recursionUsed, verdict>>

\* owning_thread_id_ = 0; also when an inner Unlock() leaves the lock held.
Clear(t) ==
    /\ Call(t, "clear", "leave")
    /\ owningThreadId' = NoThread
    /\ UNCHANGED <<csOwner, csDepth, shadow, recursionUsed, verdict>>

\* LeaveCriticalSection.
Leave(t) ==
    /\ Call(t, "leave", "idle")
    /\ csDepth' = csDepth - 1
    /\ csOwner' = IF csDepth = 1 THEN NoThread ELSE t
    /\ UNCHANGED <<owningThreadId, shadow, recursionUsed, verdict>>

\* LockImpl::AssertAcquired is called; it is empty in a release build.
AssertCall(t) ==
    /\ Debug
    /\ Call(t, "idle", "assert") /\ Forget(t)
    /\ UNCHANGED <<csOwner, csDepth, owningThreadId, shadow, recursionUsed>>

\* DCHECK(recursion_count_shadow_ > 0);
AssertCount(t) ==
    /\ Call(t, "assert", IF shadow > 0 THEN "assertOwner" ELSE "accused")
    /\ UNCHANGED <<csOwner, csDepth, owningThreadId, shadow, recursionUsed, verdict>>

\* Mutant: the count is taken for enough.
AssertOwnerUnread(t) ==
    /\ pc[t] \in {"assertOwner", "accused"} /\ Goto(t, "idle")
    /\ verdict' = [verdict EXCEPT ![t] =
          IF pc[t] = "assertOwner" THEN "held" ELSE "not held"]
    /\ UNCHANGED <<csOwner, csDepth, owningThreadId, shadow, recursionUsed>>

\* DCHECK(owning_thread_id_ == PlatformThread::CurrentId()), after the first
\* DCHECK passed or reported.
AssertOwner(t) ==
    /\ pc[t] \in {"assertOwner", "accused"} /\ Goto(t, "idle")
    /\ verdict' = [verdict EXCEPT ![t] =
          IF pc[t] = "assertOwner" /\ owningThreadId = t THEN "held" ELSE "not held"]
    /\ UNCHANGED <<csOwner, csDepth, owningThreadId, shadow, recursionUsed>>

Next == \E t \in Threads :
    \/ LockCall(t) \/ EnterReturn(t) \/ TrySucceed(t) \/ TryFail(t)
    \/ Stamp(t) \/ Count(t) \/ Check(t)
    \/ UnlockCall(t) \/ Uncount(t) \/ Clear(t) \/ Leave(t)
    \/ AssertCall(t) \/ AssertCount(t) \/ AssertOwner(t)

\* A free section admits one of the threads that wait for it, whichever.
Fairness == WF_vars(\E t \in Threads : EnterReturn(t))

Spec == Init /\ [][Next]_vars /\ Fairness
-----------------------------------------------------------------------------
(***************************************************************************)
(* Properties.                                                             *)
(***************************************************************************)

\* The variables have their types; the shadow count is never negative, so the
\* DCHECK in Unlock() never fires.
TypeOK ==
    /\ csOwner \in Threads \cup {NoThread} /\ csDepth \in 0..MaxNest
    /\ owningThreadId \in Threads \cup {NoThread}
    /\ shadow \in Nat /\ recursionUsed \in BOOLEAN
    /\ pc \in [Threads -> Labels]
    /\ verdict \in [Threads -> Verdicts]

\* AssertAcquired() passes only for the thread that is inside, although it reads
\* the two fields one after the other and without the lock: no interleaving with
\* the lock and unlock calls of the others makes it pass by accident.
AssertExposesOthers == \A t \in Threads : verdict[t] = "held" => csOwner = t

\* AssertAcquired() never accuses the thread that is inside, as long as recursion
\* has not been reported.  (After a recursive Lock() the inner Unlock() forgets the
\* owner and it does.)
AssertTrustsHolder ==
    \A t \in Threads : verdict[t] = "not held" /\ ~recursionUsed => csOwner # t

\* Recursion does not stay unnoticed: when a debug build's call has returned to a
\* thread that is inside twice, the DCHECK for recursion has fired.
RecursionReported ==
    \A t \in Threads :
        Debug /\ csOwner = t /\ csDepth > 1 /\ pc[t] \in Outside => recursionUsed

\* The shadow count is the real depth whenever the thread inside is not in the
\* middle of a call, and zero when nobody is inside.
ShadowIsDepth ==
    Debug => \/ csOwner = NoThread /\ shadow = 0
             \/ csOwner # NoThread /\ (pc[csOwner] \in Outside => shadow = csDepth)

\* Recursive or not, the lock does what lock_impl.h promises: entering again and
\* leaving an inner level change nothing for the other threads.
Promised == INSTANCE AbstractLock
    WITH holder <- csOwner,
         waiting <- {t \in Threads : pc[t] = "entering" /\ csOwner # t}
ImplementsLock == Promised!Spec
=============================================================================
