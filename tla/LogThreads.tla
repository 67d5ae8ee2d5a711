------------------------------ MODULE LogThreads ------------------------------
(***************************************************************************)
(* The threads of one POSIX process that log at the same time              *)
(* (base/logging.cc): ~LogMessage from the choice of the destination to the*)
(* unlock, InitializeLogFileHandle, which it calls before it takes any     *)
(* lock, and InitLogging.  The globals of namespace logging are plain      *)
(* variables, so each read and each write of one is a step of its own, as  *)
(* the source has them.  A build that keeps what it read in a register does*)
(* what this one does when nothing happens in between.  The choice of the  *)
(* unlock, which reads lock_log_file and then log_lock, is one step.       *)
(*                                                                         *)
(* Any thread may call InitLogging, any number of times, at the moments    *)
(* that the rules of the program allow: logging.h says that it is "normally*)
(* done at the beginning of application init" and nothing of a thread that *)
(* is logging meanwhile.  A release build: LockImpl does not check its     *)
(* mutex.  The text of a message and the file's contents are left out; what*)
(* was written is not a matter of this module but who may write, and       *)
(* through what.                                                           *)
(***************************************************************************)
EXTENDS Naturals, FiniteSets

CONSTANTS
    Threads,       \* the threads that log
    Locks,         \* the LockImpl objects that `new LockImpl` can return
    Files,         \* the FILE objects that fopen can return
    NoThread, NoLock, NoFile,   \* none of these: NULL
    LogMutex,      \* the global log_mutex, not a member of Locks
    Rules,         \* the rules that programs may keep, see rules
    MaxMessages,   \* bound on the messages of each thread
    MaxInits       \* bound on the calls of InitLogging

Destinations == {"NONE", "FILE", "SYSTEM", "BOTH"}
Lockings     == {"LOCK", "DONT_LOCK"}
Configs      == Destinations \X Lockings
ToFile       == {"FILE", "BOTH"}
NoCall       == <<"no", "call">>

\* When InitLogging is called: while no other thread is in a call of the module;
\* at any time if lock_log_file keeps its value, and else alone; at any time.
Overlaps == {"alone", "sameLocking", "free"}

ASSUME NullAssumption ==
    /\ NoThread \notin Threads
    /\ NoLock \notin Locks \cup {LogMutex} /\ LogMutex \notin Locks
    /\ NoFile \notin Files
ASSUME ThreadsAssumption == IsFiniteSet(Threads)
ASSUME RulesAssumption ==
    Rules \subseteq [overlap : Overlaps, fopenFails : BOOLEAN, configs : SUBSET Configs]
ASSUME BoundAssumption  == MaxMessages \in Nat /\ MaxInits \in Nat

VARIABLES
    rules,         \* what the program keeps to: when and with which <<destination,
                   \* locking>> it calls InitLogging, and whether fopen may fail
    destination,   \* logging_destination
    lockLogFile,   \* lock_log_file
    logFileName,   \* log_file_name: NULL, an empty one, the default, the one given
    logFile,       \* log_file
    logLock,       \* log_lock
    openFiles,     \* the FILE objects that are open
    allocated,     \* the LockImpl objects that exist
    owner,         \* who owns log_mutex and each LockImpl
    pc,            \* what each thread is about to do
    call,          \* the arguments of a thread that is in InitLogging
    alone,         \* the thread whose InitLogging runs alone, or NoThread
    target,        \* the lock each thread is at
    sent,          \* messages started by each thread
    inits,         \* calls of InitLogging so far
    crashed        \* a FILE that is not open, or a NULL lock, was used

flags    == <<destination, lockLogFile, logFileName>>
files    == <<logFile, openFiles>>
locks    == <<logLock, allocated>>
progress == <<call, alone, sent, inits, crashed, rules>>
vars     == <<rules, destination, lockLogFile, logFileName, logFile, logLock, openFiles,
              allocated, owner, pc, call, alone, target, sent, inits, crashed>>

InitLabels == {"close", "closeFile", "clear", "setLocking", "setDestination", "ifNone",
               "ifBoth", "setName", "emptyName", "assignName", "initLock"}
OpenLabels == {"openCheck", "nameCheck", "defaultName", "ifFile", "ifFileOrBoth",
               "fopen", "opened"}
Labels == InitLabels \cup OpenLabels \cup
          {"idle", "logToFile", "chooseLock", "mutex", "lockCheck", "newLock", "lockRead",
           "lockWait", "write", "unlock"}

\* The part of ~LogMessage between taking a lock and giving it back.
Writing == {"write", "unlock"}

At(t, label)       == ~crashed /\ pc[t] = label
Goto(t, label)     == pc' = [pc EXCEPT ![t] = label]
Go(t, from, label) == At(t, from) /\ Goto(t, label) /\ UNCHANGED progress
Quiescent          == ~crashed /\ \A t \in Threads : pc[t] = "idle"
-----------------------------------------------------------------------------
\* The initial values of the globals on POSIX.
Init ==
    /\ rules \in Rules
    /\ destination = "SYSTEM" /\ lockLogFile = "LOCK"
    /\ logFileName = "NULL" /\ logFile = NoFile /\ logLock = NoLock
    /\ openFiles = {} /\ allocated = {}
    /\ owner = [l \in Locks \cup {LogMutex} |-> NoThread]
    /\ pc = [t \in Threads |-> "idle"]
    /\ call = [t \in Threads |-> NoCall] /\ alone = NoThread
    /\ target = [t \in Threads |-> NoLock]
    /\ sent = [t \in Threads |-> 0] /\ inits = 0
    /\ crashed = FALSE

\* Another thread is assigning to *log_file_name: reading it, or assigning to it, is
\* then undefined.
NameRace(t) == \E u \in Threads \ {t} : pc[u] = "assignName"

\* What fopen(log_file_name->c_str(), "a") returns: it may fail, and does for an empty
\* name.  Files bounds how many can be open; the instances give enough of them.
FopenResults(t) ==
    (IF logFileName = "empty" /\ ~NameRace(t) THEN {} ELSE Files \ openFiles)
    \cup (IF rules.fopenFails \/ logFileName = "empty" \/ NameRace(t) THEN {NoFile} ELSE {})

\* log_lock = new LockImpl(); which of the objects it is makes no difference, for none
\* is ever deleted.
AllocateLock ==
    LET fresh == Locks \ allocated
        l     == CHOOSE l \in fresh : TRUE
    IN  /\ fresh # {}
        /\ logLock' = l
        /\ allocated' = allocated \cup {l}

\* The call of the thread returns.
Return(t) ==
    /\ Goto(t, "idle")
    /\ call' = [call EXCEPT ![t] = NoCall]
    /\ alone' = IF alone = t THEN NoThread ELSE alone
    /\ UNCHANGED <<sent, inits, crashed, rules>>

\* InitializeLogFileHandle returns true: to ~LogMessage, or to the end of
\* InitLogging.
ReturnTrue(t) ==
    IF call[t] = NoCall THEN Goto(t, "chooseLock") /\ UNCHANGED progress
    ELSE Return(t)

\* What the program's rules say of a call with this locking.
MayOverlap(lock) ==
    \/ rules.overlap = "free"
    \/ rules.overlap = "sameLocking" /\ lock = lockLogFile

\* InitLogging is called.
InitLogging(t, c) ==
    /\ At(t, "idle") /\ alone = NoThread
    /\ inits < MaxInits /\ inits' = inits + 1
    /\ IF MayOverlap(c[2]) THEN alone' = alone ELSE Quiescent /\ alone' = t
    /\ Goto(t, "close") /\ call' = [call EXCEPT ![t] = c]
    /\ UNCHANGED <<flags, files, locks, owner, target, sent, crashed, rules>>

\* if (log_file)
CloseCheck(t) ==
    /\ Go(t, "close", IF logFile = NoFile THEN "setLocking" ELSE "closeFile")
    /\ UNCHANGED <<flags, files, locks, owner, target>>

\* Mutant: log_file still points to the FILE that was closed.
CloseOldDangling(t) ==
    /\ Go(t, "closeFile", "setLocking")
    /\ logFile \in openFiles /\ openFiles' = openFiles \ {logFile}
    /\ UNCHANGED <<flags, locks, logFile, owner, target>>

\* { CloseFile(log_file);
CloseOld(t) ==
    /\ Go(t, "closeFile", "clear")
    /\ logFile \in openFiles /\ openFiles' = openFiles \ {logFile}
    /\ UNCHANGED <<flags, locks, logFile, owner, target>>

\* log_file = NULL; }
ClearFile(t) ==
    /\ Go(t, "clear", "setLocking")
    /\ logFile' = NoFile
    /\ UNCHANGED <<flags, locks, openFiles, owner, target>>

\* lock_log_file = lock_log;
SetLocking(t) ==
    /\ Go(t, "setLocking", "setDestination")
    /\ lockLogFile' = call[t][2]
    /\ UNCHANGED <<destination, logFileName, files, locks, owner, target>>

\* logging_destination = logging_dest;
SetDestination(t) ==
    /\ Go(t, "setDestination", "ifNone")
    /\ destination' = call[t][1]
    /\ UNCHANGED <<lockLogFile, logFileName, files, locks, owner, target>>

\* The early return, for which the destination is read again.  The comment says it is
\* for logging that is "disabled or only to system"; the test is for LOG_NONE ...
IfNone(t) ==
    /\ At(t, "ifNone")
    /\ IF destination = "NONE" THEN Return(t) ELSE Goto(t, "ifBoth") /\ UNCHANGED progress
    /\ UNCHANGED <<flags, files, locks, owner, target>>

\* ... and for LOG_TO_BOTH.
IfBoth(t) ==
    /\ At(t, "ifBoth")
    /\ IF destination = "BOTH" THEN Return(t) ELSE Goto(t, "setName") /\ UNCHANGED progress
    /\ UNCHANGED <<flags, files, locks, owner, target>>

\* if (!log_file_name)
SetName(t) ==
    /\ Go(t, "setName", IF logFileName = "NULL" THEN "emptyName" ELSE "assignName")
    /\ UNCHANGED <<flags, files, locks, owner, target>>

\* log_file_name = new PathString();
EmptyName(t) ==
    /\ Go(t, "emptyName", "assignName")
    /\ logFileName' = "empty"
    /\ UNCHANGED <<destination, lockLogFile, files, locks, owner, target>>

\* *log_file_name = new_log_file; the file is deleted if that is asked for.
AssignName(t) ==
    /\ Go(t, "assignName", "initLock")
    /\ logFileName' = "given"
    /\ UNCHANGED <<destination, lockLogFile, files, locks, owner, target>>

\* InitLogMutex() does nothing on POSIX; else if (!log_lock) ...
InitLock(t) ==
    /\ Go(t, "initLock", IF lockLogFile = "LOCK" \/ logLock # NoLock
                         THEN "openCheck" ELSE "newLock")
    /\ UNCHANGED <<flags, files, locks, owner, target>>
-----------------------------------------------------------------------------
\* A message starts, unless the rules make it wait for an InitLogging.
Begin(t) ==
    /\ At(t, "idle") /\ alone = NoThread
    /\ sent[t] < MaxMessages /\ sent' = [sent EXCEPT ![t] = @ + 1]
    /\ UNCHANGED <<flags, files, locks, owner, call, alone, target, inits, crashed, rules>>

\* A message that passes the level and the filter: logging_destination != LOG_NONE
Log(t) == Begin(t) /\ destination # "NONE" /\ Goto(t, "logToFile")

\* A message that is for nobody, or for stderr because it is an error.
LogElsewhere(t) == Begin(t) /\ destination = "NONE" /\ UNCHANGED pc

\* && logging_destination != LOG_ONLY_TO_SYSTEM_DEBUG_LOG
LogToFile(t) ==
    /\ Go(t, "logToFile", IF destination = "SYSTEM" THEN "idle" ELSE "openCheck")
    /\ UNCHANGED <<flags, files, locks, owner, target>>

\* Mutant: the file is opened for every message.
OpenCheckAgain(t) ==
    /\ Go(t, "openCheck", "nameCheck")
    /\ UNCHANGED <<flags, files, locks, owner, target>>

\* InitializeLogFileHandle: if (log_file) return true;
OpenCheck(t) ==
    /\ At(t, "openCheck")
    /\ IF logFile = NoFile THEN Goto(t, "nameCheck") /\ UNCHANGED progress
       ELSE ReturnTrue(t)
    /\ UNCHANGED <<flags, files, locks, owner, target>>

\* if (!log_file_name)
NameCheck(t) ==
    /\ Go(t, "nameCheck", IF logFileName = "NULL" THEN "defaultName" ELSE "ifFile")
    /\ UNCHANGED <<flags, files, locks, owner, target>>

\* log_file_name = new std::string("debug.log"); whatever is there by now.
DefaultName(t) ==
    /\ Go(t, "defaultName", "ifFile")
    /\ logFileName' = "default"
    /\ UNCHANGED <<destination, lockLogFile, files, locks, owner, target>>

\* A file is opened if the destination, which is read again, is LOG_ONLY_TO_FILE ...
IfFile(t) ==
    /\ Go(t, "ifFile", IF destination = "FILE" THEN "fopen" ELSE "ifFileOrBoth")
    /\ UNCHANGED <<flags, files, locks, owner, target>>

\* ... or LOG_TO_BOTH.
IfFileOrBoth(t) ==
    /\ At(t, "ifFileOrBoth")
    /\ IF destination = "BOTH" THEN Goto(t, "fopen") /\ UNCHANGED progress
       ELSE ReturnTrue(t)
    /\ UNCHANGED <<flags, files, locks, owner, target>>

\* log_file = fopen(log_file_name->c_str(), "a");
Fopen(t) ==
    /\ Go(t, "fopen", "opened")
    /\ \E f \in FopenResults(t) :
          logFile' = f /\ openFiles' = openFiles \cup ({f} \ {NoFile})
    /\ UNCHANGED <<flags, locks, owner, target>>

\* if (log_file == NULL) return false; and the message is dropped.
Opened(t) ==
    /\ At(t, "opened")
    /\ IF logFile = NoFile THEN Return(t) ELSE ReturnTrue(t)
    /\ UNCHANGED <<flags, files, locks, owner, target>>

\* if (lock_log_file == LOCK_LOG_FILE)
ChooseLock(t) ==
    /\ Go(t, "chooseLock", IF lockLogFile = "LOCK" THEN "mutex" ELSE "lockCheck")
    /\ UNCHANGED <<flags, files, locks, owner, target>>

\* Mutant: log_mutex is not waited for.
AcquireMutexAnyway(t) ==
    /\ Go(t, "mutex", "write")
    /\ target' = [target EXCEPT ![t] = LogMutex]
    /\ owner' = [owner EXCEPT ![LogMutex] = t]
    /\ UNCHANGED <<flags, files, locks>>

\* ACQUIRE_MUTEX(log_mutex), which is statically initialised.
AcquireMutex(t) ==
    /\ Go(t, "mutex", "write")
    /\ owner[LogMutex] = NoThread
    /\ target' = [target EXCEPT ![t] = LogMutex]
    /\ owner' = [owner EXCEPT ![LogMutex] = t]
    /\ UNCHANGED <<flags, files, locks>>

\* Mutant: the lock is made for every message.
LockCheckAlwaysNew(t) ==
    /\ Go(t, "lockCheck", "newLock")
    /\ UNCHANGED <<flags, files, locks, owner, target>>

\* if (!log_lock)
LockCheck(t) ==
    /\ Go(t, "lockCheck", IF logLock = NoLock THEN "newLock" ELSE "lockRead")
    /\ UNCHANGED <<flags, files, locks, owner, target>>

\* log_lock = new LockImpl(); whatever another thread has put there meanwhile.  A
\* message does it, or InitLogging.
NewLock(t) ==
    /\ Go(t, "newLock", IF call[t] = NoCall THEN "lockRead" ELSE "openCheck")
    /\ AllocateLock
    /\ UNCHANGED <<flags, files, owner, target>>

\* log_lock->Lock() reads log_lock ...
LockRead(t) ==
    /\ Go(t, "lockRead", "lockWait")
    /\ target' = [target EXCEPT ![t] = logLock]
    /\ UNCHANGED <<flags, files, locks, owner>>

\* ... and returns when that lock is free.
LockTake(t) ==
    /\ Go(t, "lockWait", "write")
    /\ owner[target[t]] = NoThread
    /\ owner' = [owner EXCEPT ![target[t]] = t]
    /\ UNCHANGED <<flags, files, locks, target>>

\* fprintf(log_file, ...)
Write(t) ==
    /\ Go(t, "write", "unlock")
    /\ logFile \in openFiles
    /\ UNCHANGED <<flags, files, locks, owner, target>>

\* Mutant: log_lock is released whenever there is one.
ToReleaseByLock == IF logLock = NoLock THEN LogMutex ELSE logLock

\* What the unlock releases: both flag and pointer are read again.
ToRelease == IF lockLogFile = "LOCK" THEN LogMutex ELSE logLock

\* Mutant: the lock is kept.
UnlockLost(t) ==
    /\ Go(t, "unlock", "idle") /\ ToRelease # NoLock /\ owner[ToRelease] = t
    /\ target' = [target EXCEPT ![t] = NoLock]
    /\ UNCHANGED <<flags, files, locks, owner>>

\* RELEASE_MUTEX(log_mutex) or log_lock->Unlock(), of the lock that was taken.
Unlock(t) ==
    /\ Go(t, "unlock", "idle") /\ ToRelease # NoLock /\ owner[ToRelease] = t
    /\ owner' = [owner EXCEPT ![ToRelease] = NoThread]
    /\ target' = [target EXCEPT ![t] = NoLock]
    /\ UNCHANGED <<flags, files, locks>>

\* The same of a lock that the thread does not own: undefined for a default
\* mutex, which is left as it is or set free.
UnlockForeign(t) ==
    /\ Go(t, "unlock", "idle") /\ ToRelease # NoLock /\ owner[ToRelease] # t
    /\ \E o \in {owner[ToRelease], NoThread} :
          owner' = [owner EXCEPT ![ToRelease] = o]
    /\ target' = [target EXCEPT ![t] = NoLock]
    /\ UNCHANGED <<flags, files, locks>>

\* fprintf or InitLogging's fclose of NULL or of a FILE that was closed, a name that
\* is read or assigned to while another thread assigns to it, or log_lock->Unlock()
\* without a log_lock: undefined, here the end of the process.
UseInvalid(t) ==
    /\ ~crashed
    /\ \/ pc[t] \in {"write", "closeFile"} /\ logFile \notin openFiles
       \/ pc[t] \in {"fopen", "assignName"} /\ NameRace(t)
       \/ pc[t] = "unlock" /\ ToRelease = NoLock
    /\ crashed' = TRUE
    /\ UNCHANGED <<flags, files, locks, owner, pc, call, alone, target, sent, inits, rules>>

Step(t) ==
    \/ CloseCheck(t) \/ CloseOld(t) \/ ClearFile(t) \/ SetLocking(t)
    \/ SetDestination(t) \/ IfNone(t) \/ IfBoth(t)
    \/ SetName(t) \/ EmptyName(t) \/ AssignName(t) \/ InitLock(t)
    \/ LogToFile(t) \/ OpenCheck(t) \/ NameCheck(t) \/ DefaultName(t)
    \/ IfFile(t) \/ IfFileOrBoth(t) \/ Fopen(t) \/ Opened(t)
    \/ ChooseLock(t) \/ AcquireMutex(t)
    \/ LockCheck(t) \/ NewLock(t) \/ LockRead(t) \/ LockTake(t)
    \/ Write(t) \/ UseInvalid(t) \/ Unlock(t) \/ UnlockForeign(t)

Next ==
    \E t \in Threads : \/ \E c \in rules.configs : InitLogging(t, c)
                      \/ Log(t) \/ LogElsewhere(t) \/ Step(t)

\* A thread in a call of the module goes on, and gets a lock that stays free.
\* Nobody has to log or to call InitLogging.  Since every thread sends finitely
\* many messages, a lock that is given back stays free in the end; a fair queue at
\* the mutex, which POSIX does not promise, is not assumed.
Fairness == \A t \in Threads : WF_vars(Step(t))

Spec == Init /\ [][Next]_vars /\ Fairness
-----------------------------------------------------------------------------
(***************************************************************************)
(* Properties.                                                             *)
(***************************************************************************)

\* The variables have their types.
TypeOK ==
    /\ rules \in Rules
    /\ destination \in Destinations /\ lockLogFile \in Lockings
    /\ logFileName \in {"NULL", "empty", "default", "given"}
    /\ logFile \in Files \cup {NoFile} /\ openFiles \subseteq Files
    /\ logLock \in Locks \cup {NoLock} /\ allocated \subseteq Locks
    /\ owner \in [Locks \cup {LogMutex} -> Threads \cup {NoThread}]
    /\ pc \in [Threads -> Labels]
    /\ call \in [Threads -> Configs \cup {NoCall}]
    /\ alone \in Threads \cup {NoThread}
    /\ target \in [Threads -> Locks \cup {LogMutex, NoLock}]
    /\ sent \in [Threads -> 0..MaxMessages] /\ inits \in 0..MaxInits
    /\ crashed \in BOOLEAN

\* The programs for which log_lock is there when a message needs it: InitLogging is
\* not asked for both destinations without file locking, the configuration in which
\* it returns before the lock is made; and if it may overlap with messages, not for
\* none without locking either, and it leaves lock_log_file alone while it does.
Prepared ==
    /\ <<"BOTH", "DONT_LOCK">> \notin rules.configs
    /\ \/ rules.overlap = "alone"
       \/ rules.overlap = "sameLocking" /\ <<"NONE", "DONT_LOCK">> \notin rules.configs

\* "try to prevent them from clobbering each other's writes": one thread at a time
\* is between lock and unlock, whether log_mutex or log_lock guards it and however
\* often InitLogging changed that, before or, within Prepared, during the messages.
\* With LOCK_LOG_FILE it holds in every configuration.
WritersExclude ==
    Prepared \/ (lockLogFile = "LOCK" /\ rules.overlap # "free") =>
        \A t, u \in Threads : pc[t] \in Writing /\ pc[u] \in Writing => t = u

\* The lock that is released, from globals that are read again, is the one that
\* was taken.
UnlocksOwn ==
    Prepared => \A t \in Threads : pc[t] \in Writing => owner[ToRelease] = t

\* When no thread is logging every lock is free: no message leaves one behind for
\* the next to hang on.
NoLockLeftHeld ==
    Prepared /\ Quiescent => \A l \in Locks \cup {LogMutex} : owner[l] = NoThread

\* InitLogging runs alone and fopen succeeds.
Calm == rules.overlap = "alone" /\ ~rules.fopenFails

\* Every write goes through a FILE that is open, although it is opened and read
\* outside the lock: "ensure that debug_file is initialized and can be used for
\* writing" (logging.cc, InitializeLogFileHandle).
WriterHasFile == Calm => \A t \in Threads : pc[t] = "write" => logFile \in openFiles

\* The unguarded fopen of a first message leaks FILE objects, but at most one per
\* thread, less the one in use, for each call of InitLogging.
FileLeakBounded ==
    Calm => Cardinality(openFiles) <= 1 + inits * (Cardinality(Threads) - 1)

\* The unguarded `new LockImpl` leaks at most one lock per thread, once in the life
\* of the process, whatever the program does.
LockLeakBounded == Cardinality(allocated) <= Cardinality(Threads)

\* Every call of the module returns (or the process is gone).
EveryCallReturns == \A t \in Threads : pc[t] # "idle" ~> (pc[t] = "idle" \/ crashed)

\* ... in a prepared program, also while InitLogging closes and opens the file, and
\* also if fopen fails.
PreparedCallsReturn ==
    \A t \in Threads : Prepared /\ pc[t] # "idle" ~> (pc[t] = "idle" \/ crashed)
=============================================================================
