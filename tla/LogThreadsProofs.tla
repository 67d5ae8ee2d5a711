-------------------------- MODULE LogThreadsProofs --------------------------
(***************************************************************************)
(* Theorems about LogThreads for every number of threads, messages, calls  *)
(* of InitLogging, locks and files, and for every set of rules.            *)
(***************************************************************************)
EXTENDS LogThreads, FiniteSetTheorems, TLAPS

\* The labels of InitLogging at which lock_log_file is already set.
AfterLocking == {"setDestination", "ifNone", "ifBoth", "setName", "emptyName",
                 "assignName", "initLock"}

\* InitLogging: where its caller is, that its rules are kept, and that a call that
\* overlaps with others asks for the locking that there is.
CallOK ==
    /\ alone # NoThread =>
          call[alone] # NoCall /\ \A t \in Threads : t # alone => pc[t] = "idle"
    /\ \A t \in Threads :
          /\ call[t] \in rules.configs \cup {NoCall}
          /\ pc[t] \in InitLabels => call[t] # NoCall
          /\ call[t] # NoCall => pc[t] \in InitLabels \cup OpenLabels \cup {"newLock"}
          /\ rules.overlap = "alone" /\ call[t] # NoCall => alone = t
          /\ rules.overlap # "free" /\ call[t] # NoCall
                /\ (alone # t \/ pc[t] \in AfterLocking) =>
                      lockLogFile = call[t][2]

\* Unless the rules are "free" the way of locking does not change under a thread
\* that logs, nor does the destination if InitLogging runs alone; and a thread that
\* writes under LOCK_LOG_FILE owns log_mutex.
PhaseOK ==
    \A t \in Threads :
      /\ rules.overlap = "alone" /\ pc[t] # "idle" /\ call[t] = NoCall =>
            /\ destination # "NONE"
            /\ pc[t] # "logToFile" => destination \in ToFile
            /\ pc[t] = "ifFileOrBoth" => destination = "BOTH"
      /\ pc[t] = "lockRead" => logLock # NoLock
      /\ pc[t] = "lockWait" => target[t] \in Locks
      /\ rules.overlap # "free" =>
            /\ pc[t] = "mutex" => lockLogFile = "LOCK"
            /\ pc[t] \in {"lockCheck", "newLock", "lockRead", "lockWait"} =>
                  lockLogFile # "LOCK"
            /\ lockLogFile = "LOCK" /\ pc[t] \in Writing => owner[LogMutex] = t

\* In the prepared programs: the lock that is needed exists, is only made while
\* nobody logs, is taken by who waits for it, belongs to who writes, and nobody
\* holds any other.
LockReady ==
    lockLogFile # "LOCK" /\ (destination \in ToFile \/ rules.overlap # "alone")
       /\ alone = NoThread => logLock # NoLock

ThreadReady(t) ==
    /\ pc[t] = "newLock" => alone = t
    /\ alone = t /\ lockLogFile # "LOCK" /\ pc[t] \in OpenLabels => logLock # NoLock
    /\ alone = t /\ pc[t] \in {"ifNone", "ifBoth"} => destination = call[t][1]
    /\ pc[t] = "lockWait" => target[t] = logLock
    /\ pc[t] \in Writing => ToRelease \in Locks \cup {LogMutex} /\ owner[ToRelease] = t
    /\ \A l \in Locks \cup {LogMutex} :
          owner[l] = t => pc[t] \in Writing /\ l = ToRelease

Ready   == LockReady /\ \A t \in Threads : ThreadReady(t)
ReadyOK == Prepared => Ready

\* The labels of a message for which InitializeLogFileHandle has opened the file.
HasFile == {"opened", "chooseLock", "mutex", "lockCheck", "newLock", "lockRead",
            "lockWait", "write", "unlock"}

\* When fopen succeeds and InitLogging runs alone, log_file is NULL or open, except
\* between the fclose and the assignment after it, and open for who relies on it; and a
\* name is only empty until InitLogging assigns to it.
FileOK ==
    Calm =>
      /\ (\A t \in Threads : pc[t] # "clear") => logFile \in openFiles \cup {NoFile}
      /\ \A t \in Threads :
            call[t] = NoCall /\ pc[t] \in HasFile => logFile \in openFiles
      /\ logFileName = "empty" => \E t \in Threads : pc[t] = "assignName"

\* The threads that are about to make the lock saw that there is none; together with
\* the locks there are they are never more than the threads.
Makers == {t \in Threads : pc[t] = "newLock"}
LeakOK ==
    /\ IsFiniteSet(allocated) /\ (allocated # {} => logLock # NoLock)
    /\ Cardinality(allocated) + Cardinality(Makers) <= Cardinality(Threads)

IInv == TypeOK /\ CallOK /\ PhaseOK /\ ReadyOK /\ FileOK /\ LeakOK

\* A lock that is made is one of those that there were not.
LEMMA AllocateOne ==
    AllocateLock => \E l \in Locks \ allocated :
                        logLock' = l /\ allocated' = allocated \cup {l}
BY Zenon DEF AllocateLock

\* The globals start in the inductive invariant.
LEMMA InitIInv == Init => IInv
<1> SUFFICES ASSUME Init PROVE IInv
  OBVIOUS
<1> USE NullAssumption DEF Init
<1>1. TypeOK
  <2>1. sent \in [Threads -> 0..MaxMessages] /\ inits \in 0..MaxInits
    BY BoundAssumption
  <2>2. pc \in [Threads -> Labels] /\ "idle" \notin InitLabels
    BY DEF Labels, InitLabels
  <2> QED
    BY <2>1, <2>2 DEF TypeOK, Destinations, Lockings
<1>2. CallOK /\ PhaseOK /\ FileOK
  BY DEF CallOK, AfterLocking, PhaseOK, FileOK, Writing, HasFile, InitLabels, OpenLabels
<1>3. ReadyOK
  BY DEF ReadyOK, Ready, LockReady, ThreadReady, Writing, OpenLabels
<1>4. LeakOK
  <2>1. Makers = {} /\ allocated = {}
    BY DEF Makers
  <2> QED
    BY <2>1, FS_EmptySet, FS_CardinalityType, ThreadsAssumption DEF LeakOK
<1> QED
  BY <1>1, <1>2, <1>3, <1>4 DEF IInv

\* The labels that the actions go to.
LEMMA LabelsKnown ==
    {"close", "closeFile", "clear", "setLocking", "setDestination", "ifNone", "ifBoth",
     "setName", "emptyName", "assignName", "initLock", "idle", "logToFile", "openCheck",
     "nameCheck", "defaultName", "ifFile", "ifFileOrBoth", "fopen", "opened", "chooseLock", "mutex",
     "lockCheck", "newLock", "lockRead", "lockWait", "write", "unlock"} \subseteq Labels
  BY DEF Labels, InitLabels, OpenLabels

\* The members of a rule.
LEMMA RuleFields ==
    ASSUME NEW r \in Rules
    PROVE  r.overlap \in Overlaps /\ r.fopenFails \in BOOLEAN /\ r.configs \subseteq Configs
  BY RulesAssumption

\* What a call of InitLogging can be given.
LEMMA ConfigFields ==
    ASSUME NEW c \in Configs
    PROVE  c[1] \in Destinations /\ c[2] \in Lockings /\ c = <<c[1], c[2]>> /\ c # NoCall
  BY DEF Configs, Destinations, Lockings, NoCall

\* A thread in the part of InitLogging that reads its arguments has some.
LEMMA Arguments ==
    ASSUME IInv, NEW t \in Threads, pc[t] \in InitLabels
    PROVE  /\ call[t] \in rules.configs \cap Configs
           /\ call[t][1] \in Destinations /\ call[t][2] \in Lockings
  BY ConfigFields DEF IInv, TypeOK, CallOK

\* The rules stay.
LEMMA RulesRigid == [Next]_vars => rules' = rules
  BY SMTT(30) DEF Next, Step, vars, progress, Go, Return, ReturnTrue, InitLogging, Log,
     LogElsewhere, Begin, CloseCheck, CloseOld, ClearFile, SetLocking, SetDestination,
     IfNone, IfBoth, SetName, EmptyName, AssignName, InitLock, LogToFile, OpenCheck,
     NameCheck, DefaultName, IfFile, IfFileOrBoth, Fopen, Opened, ChooseLock, AcquireMutex, LockCheck,
     NewLock, LockRead, LockTake, Write, UseInvalid, Unlock, UnlockForeign

\* A step that leaves log_lock and those who make one alone keeps LeakOK.
LEMMA LeakUntouched ==
    ASSUME LeakOK, UNCHANGED locks, Makers' = Makers PROVE LeakOK'
  BY DEF LeakOK, locks

\* A thread that sees no log_lock may become a maker: there is no lock yet.
LEMMA LeakMaker ==
    ASSUME LeakOK, UNCHANGED locks, logLock = NoLock PROVE LeakOK'
<1>1. allocated = {} /\ UNCHANGED <<allocated, logLock>>
  BY DEF LeakOK, locks
<1>2. Makers' \subseteq Threads
  BY DEF Makers
<1> QED
  BY <1>1, <1>2, ThreadsAssumption, FS_EmptySet, FS_Subset, FS_CardinalityType DEF LeakOK

\* Every step keeps the variables in their types.
LEMMA NextTypeOK == IInv /\ [Next]_vars => TypeOK'
<1> SUFFICES ASSUME IInv, [Next]_vars PROVE TypeOK'
  OBVIOUS
<1> USE NullAssumption, LabelsKnown DEF IInv, TypeOK
<1>1. ASSUME NEW t \in Threads, NEW c \in rules.configs, InitLogging(t, c) PROVE TypeOK'
  <2>1. inits' \in 0..MaxInits
    BY <1>1, BoundAssumption DEF InitLogging
  <2>2. c \in Configs
    BY RuleFields
  <2> QED
    BY <1>1, <2>1, <2>2, SMTT(30) DEF InitLogging, At, Goto, flags, files, locks
<1>2. ASSUME NEW t \in Threads, Log(t) PROVE TypeOK'
  <2>1. sent' \in [Threads -> 0..MaxMessages]
    BY <1>2, BoundAssumption DEF Log, Begin
  <2> QED
    BY <1>2, <2>1 DEF Log, Begin, Goto, flags, files, locks
<1>3. ASSUME NEW t \in Threads, LogElsewhere(t) PROVE TypeOK'
  <2>1. sent' \in [Threads -> 0..MaxMessages]
    BY <1>3, BoundAssumption DEF LogElsewhere, Begin
  <2> QED
    BY <1>3, <2>1 DEF LogElsewhere, Begin, Goto, flags, files, locks
<1>4. ASSUME NEW t \in Threads, CloseCheck(t) PROVE TypeOK'
  BY <1>4, SMTT(30) DEF CloseCheck, Go, At, Goto, progress, flags, files, locks
<1>5. ASSUME NEW t \in Threads, CloseOld(t) PROVE TypeOK'
  BY <1>5, SMTT(30) DEF CloseOld, Go, At, Goto, progress, flags, files, locks
<1>6. ASSUME NEW t \in Threads, ClearFile(t) PROVE TypeOK'
  BY <1>6, SMTT(30) DEF ClearFile, Go, At, Goto, progress, flags, files, locks
<1>7. ASSUME NEW t \in Threads, SetLocking(t) PROVE TypeOK'
  <2>1. call[t][1] \in Destinations /\ call[t][2] \in Lockings
    BY <1>7, Arguments DEF SetLocking, Go, At, InitLabels
  <2> QED
    BY <1>7, <2>1 DEF SetLocking, Go, Return, At, Goto, progress, flags, files, locks
<1>8. ASSUME NEW t \in Threads, SetDestination(t) PROVE TypeOK'
  <2>1. call[t][1] \in Destinations
    BY <1>8, Arguments DEF SetDestination, Go, At, InitLabels
  <2> QED
    BY <1>8, <2>1 DEF SetDestination, Go, At, Goto, progress, flags, files, locks
<1>9. ASSUME NEW t \in Threads, IfNone(t) PROVE TypeOK'
  <2>1. call[t][1] \in Destinations /\ call[t][2] \in Lockings
    BY <1>9, Arguments DEF IfNone, Go, At, InitLabels
  <2> QED
    BY <1>9, <2>1 DEF IfNone, Go, Return, At, Goto, progress, flags, files, locks
<1>10. ASSUME NEW t \in Threads, IfBoth(t) PROVE TypeOK'
  <2>1. call[t][1] \in Destinations /\ call[t][2] \in Lockings
    BY <1>10, Arguments DEF IfBoth, Go, At, InitLabels
  <2> QED
    BY <1>10, <2>1 DEF IfBoth, Go, Return, At, Goto, progress, flags, files, locks
<1>11. ASSUME NEW t \in Threads, SetName(t) PROVE TypeOK'
  BY <1>11, SMTT(30) DEF SetName, Go, At, Goto, progress, flags, files, locks
<1>12. ASSUME NEW t \in Threads, EmptyName(t) PROVE TypeOK'
  BY <1>12, SMTT(30) DEF EmptyName, Go, At, Goto, progress, flags, files, locks
<1>13. ASSUME NEW t \in Threads, AssignName(t) PROVE TypeOK'
  BY <1>13, SMTT(30) DEF AssignName, Go, At, Goto, progress, flags, files, locks
<1>14. ASSUME NEW t \in Threads, InitLock(t) PROVE TypeOK'
  BY <1>14, SMTT(30) DEF InitLock, Go, At, Goto, progress, flags, files, locks
<1>15. ASSUME NEW t \in Threads, LogToFile(t) PROVE TypeOK'
  BY <1>15, SMTT(30) DEF LogToFile, Go, At, Goto, progress, flags, files, locks
<1>16. ASSUME NEW t \in Threads, OpenCheck(t) PROVE TypeOK'
  BY <1>16, SMTT(30) DEF OpenCheck, ReturnTrue, Return, At, Goto, progress, flags, files, locks
<1>17. ASSUME NEW t \in Threads, NameCheck(t) PROVE TypeOK'
  BY <1>17, SMTT(30) DEF NameCheck, Go, At, Goto, progress, flags, files, locks
<1>18. ASSUME NEW t \in Threads, DefaultName(t) PROVE TypeOK'
  BY <1>18, SMTT(30) DEF DefaultName, Go, At, Goto, progress, flags, files, locks
<1>19. ASSUME NEW t \in Threads, IfFile(t) PROVE TypeOK'
  BY <1>19, SMTT(30) DEF IfFile, Go, At, Goto, progress, flags, files, locks
<1>20. ASSUME NEW t \in Threads, IfFileOrBoth(t) PROVE TypeOK'
  BY <1>20, SMTT(30) DEF IfFileOrBoth, ReturnTrue, Return, At, Goto, progress, flags, files, locks
<1>21. ASSUME NEW t \in Threads, Fopen(t) PROVE TypeOK'
  BY <1>21, SMTT(30) DEF Fopen, Go, FopenResults, At, Goto, progress, flags, files, locks
<1>22. ASSUME NEW t \in Threads, Opened(t) PROVE TypeOK'
  BY <1>22, SMTT(30) DEF Opened, ReturnTrue, Return, At, Goto, progress, flags, files, locks
<1>23. ASSUME NEW t \in Threads, ChooseLock(t) PROVE TypeOK'
  BY <1>23, SMTT(30) DEF ChooseLock, Go, At, Goto, progress, flags, files, locks
<1>24. ASSUME NEW t \in Threads, AcquireMutex(t) PROVE TypeOK'
  BY <1>24, SMTT(30) DEF AcquireMutex, Go, At, Goto, progress, flags, files, locks
<1>25. ASSUME NEW t \in Threads, LockCheck(t) PROVE TypeOK'
  BY <1>25, SMTT(30) DEF LockCheck, Go, At, Goto, progress, flags, files, locks
<1>26. ASSUME NEW t \in Threads, NewLock(t) PROVE TypeOK'
  BY <1>26, AllocateOne, SMTT(30) DEF NewLock, Go, At, Goto, progress, flags, files, locks
<1>27. ASSUME NEW t \in Threads, LockRead(t) PROVE TypeOK'
  BY <1>27, SMTT(30) DEF LockRead, Go, At, Goto, progress, flags, files, locks
<1>28. ASSUME NEW t \in Threads, LockTake(t) PROVE TypeOK'
  <2>1. target[t] \in Locks
    BY <1>28 DEF LockTake, Go, At, PhaseOK
  <2> QED
    BY <1>28, <2>1 DEF LockTake, Go, At, Goto, progress, flags, files, locks
<1>29. ASSUME NEW t \in Threads, Write(t) PROVE TypeOK'
  BY <1>29, SMTT(30) DEF Write, Go, At, Goto, progress, flags, files, locks
<1>30. ASSUME NEW t \in Threads, UseInvalid(t) PROVE TypeOK'
  BY <1>30, SMTT(30) DEF UseInvalid, At, Goto, progress, flags, files, locks
<1>31. ASSUME NEW t \in Threads, Unlock(t) PROVE TypeOK'
  BY <1>31, SMTT(30) DEF Unlock, Go, ToRelease, At, Goto, progress, flags, files, locks
<1>32. ASSUME NEW t \in Threads, UnlockForeign(t) PROVE TypeOK'
  <2>1. \A l \in Locks \cup {LogMutex} : owner'[l] \in Threads \cup {NoThread}
    BY <1>32 DEF UnlockForeign
  <2>2. owner' \in [Locks \cup {LogMutex} -> Threads \cup {NoThread}]
    BY <1>32, <2>1 DEF UnlockForeign
  <2> QED
    BY <1>32, <2>2 DEF UnlockForeign, Go, At, Goto, progress, flags, files, locks
<1>33. CASE UNCHANGED vars
  BY <1>33 DEF vars
<1> QED
  BY <1>1, <1>2, <1>3, <1>4, <1>5, <1>6, <1>7, <1>8, <1>9, <1>10,
     <1>11, <1>12, <1>13, <1>14, <1>15, <1>16, <1>17, <1>18, <1>19, <1>20,
     <1>21, <1>22, <1>23, <1>24, <1>25, <1>26, <1>27, <1>28, <1>29, <1>30,
     <1>31, <1>32, <1>33
     DEF Next, Step

\* InitLogging runs as the rules say.
LEMMA NextCallOK == IInv /\ [Next]_vars => CallOK'
<1> SUFFICES ASSUME IInv, [Next]_vars PROVE CallOK'
  OBVIOUS
<1> USE NullAssumption, ConfigFields DEF IInv, TypeOK, CallOK, AfterLocking, InitLabels, OpenLabels
<1>1. ASSUME NEW t \in Threads, NEW c \in rules.configs, InitLogging(t, c) PROVE CallOK'
  <2>1. c \in Configs /\ c # NoCall
    BY RuleFields, ConfigFields
  <2>2. pc[t] = "idle" /\ alone = NoThread
    BY <1>1 DEF InitLogging, At
  <2>3. pc' = [pc EXCEPT ![t] = "close"] /\ call' = [call EXCEPT ![t] = c]
    BY <1>1 DEF InitLogging, Goto
  <2>4. CASE MayOverlap(c[2])
    BY <1>1, <2>1, <2>2, <2>3, <2>4 DEF InitLogging, MayOverlap, flags, files, locks
  <2>5. CASE ~MayOverlap(c[2])
    <3>1. alone' = t /\ \A u \in Threads : pc[u] = "idle"
      BY <1>1, <2>5 DEF InitLogging, Quiescent
    <3> QED
      BY <1>1, <2>1, <2>2, <2>3, <3>1 DEF InitLogging, flags, files, locks
  <2> QED
    BY <2>4, <2>5
<1>2. ASSUME NEW t \in Threads, Log(t) PROVE CallOK'
  BY <1>2, SMTT(30) DEF Log, Begin, At, Goto, progress, flags, files, locks
<1>3. ASSUME NEW t \in Threads, LogElsewhere(t) PROVE CallOK'
  BY <1>3, SMTT(30) DEF LogElsewhere, Begin, At, Goto, progress, flags, files, locks
<1>4. ASSUME NEW t \in Threads, CloseCheck(t) PROVE CallOK'
  BY <1>4, SMTT(30) DEF CloseCheck, Go, At, Goto, progress, flags, files, locks
<1>5. ASSUME NEW t \in Threads, CloseOld(t) PROVE CallOK'
  BY <1>5, SMTT(30) DEF CloseOld, Go, At, Goto, progress, flags, files, locks
<1>6. ASSUME NEW t \in Threads, ClearFile(t) PROVE CallOK'
  BY <1>6, SMTT(30) DEF ClearFile, Go, At, Goto, progress, flags, files, locks
<1>7. ASSUME NEW t \in Threads, SetLocking(t) PROVE CallOK'
  BY <1>7, SMTT(30) DEF SetLocking, Go, At, Goto, progress, flags, files, locks
<1>8. ASSUME NEW t \in Threads, SetDestination(t) PROVE CallOK'
  BY <1>8, SMTT(30) DEF SetDestination, Go, At, Goto, progress, flags, files, locks
<1>9. ASSUME NEW t \in Threads, IfNone(t) PROVE CallOK'
  BY <1>9, SMTT(30) DEF IfNone, Return, At, Goto, progress, flags, files, locks
<1>10. ASSUME NEW t \in Threads, IfBoth(t) PROVE CallOK'
  BY <1>10, SMTT(30) DEF IfBoth, Return, At, Goto, progress, flags, files, locks
<1>11. ASSUME NEW t \in Threads, SetName(t) PROVE CallOK'
  BY <1>11, SMTT(30) DEF SetName, Go, At, Goto, progress, flags, files, locks
<1>12. ASSUME NEW t \in Threads, EmptyName(t) PROVE CallOK'
  BY <1>12, SMTT(30) DEF EmptyName, Go, At, Goto, progress, flags, files, locks
<1>13. ASSUME NEW t \in Threads, AssignName(t) PROVE CallOK'
  BY <1>13, SMTT(30) DEF AssignName, Go, At, Goto, progress, flags, files, locks
<1>14. ASSUME NEW t \in Threads, InitLock(t) PROVE CallOK'
  BY <1>14, SMTT(30) DEF InitLock, Go, At, Goto, progress, flags, files, locks
<1>15. ASSUME NEW t \in Threads, LogToFile(t) PROVE CallOK'
  BY <1>15, SMTT(30) DEF LogToFile, Go, At, Goto, progress, flags, files, locks
<1>16. ASSUME NEW t \in Threads, OpenCheck(t) PROVE CallOK'
  BY <1>16, SMTT(30) DEF OpenCheck, ReturnTrue, Return, At, Goto, progress, flags, files, locks
<1>17. ASSUME NEW t \in Threads, NameCheck(t) PROVE CallOK'
  BY <1>17, SMTT(30) DEF NameCheck, Go, At, Goto, progress, flags, files, locks
<1>18. ASSUME NEW t \in Threads, DefaultName(t) PROVE CallOK'
  BY <1>18, SMTT(30) DEF DefaultName, Go, At, Goto, progress, flags, files, locks
<1>19. ASSUME NEW t \in Threads, IfFile(t) PROVE CallOK'
  BY <1>19, SMTT(30) DEF IfFile, Go, At, Goto, progress, flags, files, locks
<1>20. ASSUME NEW t \in Threads, IfFileOrBoth(t) PROVE CallOK'
  BY <1>20, SMTT(30) DEF IfFileOrBoth, ReturnTrue, Return, At, Goto, progress, flags, files, locks
<1>21. ASSUME NEW t \in Threads, Fopen(t) PROVE CallOK'
  BY <1>21, SMTT(30) DEF Fopen, Go, FopenResults, At, Goto, progress, flags, files, locks
<1>22. ASSUME NEW t \in Threads, Opened(t) PROVE CallOK'
  BY <1>22, SMTT(30) DEF Opened, ReturnTrue, Return, At, Goto, progress, flags, files, locks
<1>23. ASSUME NEW t \in Threads, ChooseLock(t) PROVE CallOK'
  BY <1>23, SMTT(30) DEF ChooseLock, Go, At, Goto, progress, flags, files, locks
<1>24. ASSUME NEW t \in Threads, AcquireMutex(t) PROVE CallOK'
  BY <1>24, SMTT(30) DEF AcquireMutex, Go, At, Goto, progress, flags, files, locks
<1>25. ASSUME NEW t \in Threads, LockCheck(t) PROVE CallOK'
  BY <1>25, SMTT(30) DEF LockCheck, Go, At, Goto, progress, flags, files, locks
<1>26. ASSUME NEW t \in Threads, NewLock(t) PROVE CallOK'
  BY <1>26, AllocateOne, SMTT(30) DEF NewLock, Go, At, Goto, progress, flags, files, locks
<1>27. ASSUME NEW t \in Threads, LockRead(t) PROVE CallOK'
  BY <1>27, SMTT(30) DEF LockRead, Go, At, Goto, progress, flags, files, locks
<1>28. ASSUME NEW t \in Threads, LockTake(t) PROVE CallOK'
  BY <1>28, SMTT(30) DEF LockTake, Go, At, Goto, progress, flags, files, locks
<1>29. ASSUME NEW t \in Threads, Write(t) PROVE CallOK'
  BY <1>29, SMTT(30) DEF Write, Go, At, Goto, progress, flags, files, locks
<1>30. ASSUME NEW t \in Threads, UseInvalid(t) PROVE CallOK'
  BY <1>30, SMTT(30) DEF UseInvalid, At, Goto, progress, flags, files, locks
<1>31. ASSUME NEW t \in Threads, Unlock(t) PROVE CallOK'
  BY <1>31, SMTT(30) DEF Unlock, Go, ToRelease, At, Goto, progress, flags, files, locks
<1>32. ASSUME NEW t \in Threads, UnlockForeign(t) PROVE CallOK'
  BY <1>32, SMTT(30) DEF UnlockForeign, Go, ToRelease, At, Goto, progress, flags, files, locks
<1>33. CASE UNCHANGED vars
  BY <1>33 DEF vars
<1> QED
  BY <1>1, <1>2, <1>3, <1>4, <1>5, <1>6, <1>7, <1>8, <1>9, <1>10,
     <1>11, <1>12, <1>13, <1>14, <1>15, <1>16, <1>17, <1>18, <1>19, <1>20,
     <1>21, <1>22, <1>23, <1>24, <1>25, <1>26, <1>27, <1>28, <1>29, <1>30,
     <1>31, <1>32, <1>33
     DEF Next, Step

\* Nobody changes the way of locking under a thread that logs, and log_mutex excludes.
LEMMA NextPhaseOK == IInv /\ [Next]_vars => PhaseOK'
<1> SUFFICES ASSUME IInv, [Next]_vars PROVE PhaseOK'
  OBVIOUS
<1> USE NullAssumption, ConfigFields DEF IInv, TypeOK, CallOK, AfterLocking, PhaseOK, Writing,
    InitLabels, OpenLabels
<1>1. ASSUME NEW t \in Threads, NEW c \in rules.configs, InitLogging(t, c) PROVE PhaseOK'
  <2>1. c \in Configs /\ c # NoCall
    BY RuleFields, ConfigFields
  <2>2. pc[t] = "idle" /\ alone = NoThread
    BY <1>1 DEF InitLogging, At
  <2>3. pc' = [pc EXCEPT ![t] = "close"] /\ call' = [call EXCEPT ![t] = c]
    BY <1>1 DEF InitLogging, Goto
  <2> QED
    BY <1>1, <2>1, <2>2, <2>3 DEF InitLogging, flags, files, locks
<1>2. ASSUME NEW t \in Threads, Log(t) PROVE PhaseOK'
  BY <1>2, SMTT(30) DEF Log, Begin, At, Goto, progress, flags, files, locks
<1>3. ASSUME NEW t \in Threads, LogElsewhere(t) PROVE PhaseOK'
  BY <1>3, SMTT(30) DEF LogElsewhere, Begin, At, Goto, progress, flags, files, locks
<1>4. ASSUME NEW t \in Threads, CloseCheck(t) PROVE PhaseOK'
  BY <1>4, SMTT(30) DEF CloseCheck, Go, At, Goto, progress, flags, files, locks
<1>5. ASSUME NEW t \in Threads, CloseOld(t) PROVE PhaseOK'
  BY <1>5, SMTT(30) DEF CloseOld, Go, At, Goto, progress, flags, files, locks
<1>6. ASSUME NEW t \in Threads, ClearFile(t) PROVE PhaseOK'
  BY <1>6, SMTT(30) DEF ClearFile, Go, At, Goto, progress, flags, files, locks
<1>7. ASSUME NEW t \in Threads, SetLocking(t) PROVE PhaseOK'
  BY <1>7, SMTT(30) DEF SetLocking, Go, At, Goto, progress, flags, files, locks
<1>8. ASSUME NEW t \in Threads, SetDestination(t) PROVE PhaseOK'
  BY <1>8, SMTT(30) DEF SetDestination, Go, At, Goto, progress, flags, files, locks
<1>9. ASSUME NEW t \in Threads, IfNone(t) PROVE PhaseOK'
  BY <1>9, SMTT(30) DEF IfNone, Return, At, Goto, progress, flags, files, locks
<1>10. ASSUME NEW t \in Threads, IfBoth(t) PROVE PhaseOK'
  BY <1>10, SMTT(30) DEF IfBoth, Return, At, Goto, progress, flags, files, locks
<1>11. ASSUME NEW t \in Threads, SetName(t) PROVE PhaseOK'
  BY <1>11, SMTT(30) DEF SetName, Go, At, Goto, progress, flags, files, locks
<1>12. ASSUME NEW t \in Threads, EmptyName(t) PROVE PhaseOK'
  BY <1>12, SMTT(30) DEF EmptyName, Go, At, Goto, progress, flags, files, locks
<1>13. ASSUME NEW t \in Threads, AssignName(t) PROVE PhaseOK'
  BY <1>13, SMTT(30) DEF AssignName, Go, At, Goto, progress, flags, files, locks
<1>14. ASSUME NEW t \in Threads, InitLock(t) PROVE PhaseOK'
  BY <1>14, SMTT(30) DEF InitLock, Go, At, Goto, progress, flags, files, locks
<1>15. ASSUME NEW t \in Threads, LogToFile(t) PROVE PhaseOK'
  <2>1. destination \notin {"NONE", "SYSTEM"} => destination \in ToFile
    BY DEF Destinations, ToFile
  <2> QED
    BY <1>15, <2>1 DEF LogToFile, Go, At, Goto, progress, flags, files, locks
<1>16. ASSUME NEW t \in Threads, OpenCheck(t) PROVE PhaseOK'
  BY <1>16, SMTT(30) DEF OpenCheck, ReturnTrue, Return, At, Goto, progress, flags, files, locks
<1>17. ASSUME NEW t \in Threads, NameCheck(t) PROVE PhaseOK'
  BY <1>17, SMTT(30) DEF NameCheck, Go, At, Goto, progress, flags, files, locks
<1>18. ASSUME NEW t \in Threads, DefaultName(t) PROVE PhaseOK'
  BY <1>18, SMTT(30) DEF DefaultName, Go, At, Goto, progress, flags, files, locks
<1>19. ASSUME NEW t \in Threads, IfFile(t) PROVE PhaseOK'
  <2>1. destination \in ToFile /\ destination # "FILE" => destination = "BOTH"
    BY DEF ToFile
  <2> QED
    BY <1>19, <2>1 DEF IfFile, Go, At, Goto, progress, flags, files, locks
<1>20. ASSUME NEW t \in Threads, IfFileOrBoth(t) PROVE PhaseOK'
  BY <1>20, SMTT(30) DEF IfFileOrBoth, ReturnTrue, Return, At, Goto, progress, flags, files, locks
<1>21. ASSUME NEW t \in Threads, Fopen(t) PROVE PhaseOK'
  BY <1>21, SMTT(30) DEF Fopen, Go, FopenResults, At, Goto, progress, flags, files, locks
<1>22. ASSUME NEW t \in Threads, Opened(t) PROVE PhaseOK'
  BY <1>22, SMTT(30) DEF Opened, ReturnTrue, Return, At, Goto, progress, flags, files, locks
<1>23. ASSUME NEW t \in Threads, ChooseLock(t) PROVE PhaseOK'
  BY <1>23, SMTT(30) DEF ChooseLock, Go, At, Goto, progress, flags, files, locks
<1>24. ASSUME NEW t \in Threads, AcquireMutex(t) PROVE PhaseOK'
  BY <1>24, SMTT(30) DEF AcquireMutex, Go, At, Goto, progress, flags, files, locks
<1>25. ASSUME NEW t \in Threads, LockCheck(t) PROVE PhaseOK'
  BY <1>25, SMTT(30) DEF LockCheck, Go, At, Goto, progress, flags, files, locks
<1>26. ASSUME NEW t \in Threads, NewLock(t) PROVE PhaseOK'
  BY <1>26, AllocateOne, SMTT(30) DEF NewLock, Go, At, Goto, progress, flags, files, locks
<1>27. ASSUME NEW t \in Threads, LockRead(t) PROVE PhaseOK'
  BY <1>27, SMTT(30) DEF LockRead, Go, At, Goto, progress, flags, files, locks
<1>28. ASSUME NEW t \in Threads, LockTake(t) PROVE PhaseOK'
  BY <1>28, SMTT(30) DEF LockTake, Go, At, Goto, progress, flags, files, locks
<1>29. ASSUME NEW t \in Threads, Write(t) PROVE PhaseOK'
  BY <1>29, SMTT(30) DEF Write, Go, At, Goto, progress, flags, files, locks
<1>30. ASSUME NEW t \in Threads, UseInvalid(t) PROVE PhaseOK'
  BY <1>30, SMTT(30) DEF UseInvalid, At, Goto, progress, flags, files, locks
<1>31. ASSUME NEW t \in Threads, Unlock(t) PROVE PhaseOK'
  BY <1>31, SMTT(30) DEF Unlock, Go, ToRelease, At, Goto, progress, flags, files, locks
<1>32. ASSUME NEW t \in Threads, UnlockForeign(t) PROVE PhaseOK'
  BY <1>32, SMTT(30) DEF UnlockForeign, Go, ToRelease, At, Goto, progress, flags, files, locks
<1>33. CASE UNCHANGED vars
  BY <1>33 DEF vars
<1> QED
  BY <1>1, <1>2, <1>3, <1>4, <1>5, <1>6, <1>7, <1>8, <1>9, <1>10,
     <1>11, <1>12, <1>13, <1>14, <1>15, <1>16, <1>17, <1>18, <1>19, <1>20,
     <1>21, <1>22, <1>23, <1>24, <1>25, <1>26, <1>27, <1>28, <1>29, <1>30,
     <1>31, <1>32, <1>33
     DEF Next, Step

\* A lock that is prepared is never made again, and never lost.
LEMMA NextReadyOK == IInv /\ [Next]_vars => ReadyOK'
<1> SUFFICES ASSUME IInv, [Next]_vars, Prepared PROVE Ready'
  BY RulesRigid DEF Prepared, ReadyOK
<1>0. rules.overlap \in {"alone", "sameLocking"}
  BY DEF Prepared
<1> USE NullAssumption, ConfigFields DEF IInv, TypeOK, CallOK, AfterLocking, PhaseOK, ReadyOK, Ready,
    LockReady, ThreadReady, Writing, ToRelease, InitLabels, OpenLabels
<1>1. ASSUME NEW t \in Threads, NEW c \in rules.configs, InitLogging(t, c) PROVE Ready'
  <2>0. c \in Configs /\ c # NoCall
    BY RuleFields, ConfigFields
  <2>1. LockReady'
    BY <1>1, <2>0 DEF InitLogging, MayOverlap, Quiescent, At, Goto, progress, flags, files, locks
  <2>2. ASSUME NEW u \in Threads PROVE ThreadReady(u)'
    BY <1>1, <2>0, <2>2 DEF InitLogging, MayOverlap, Quiescent, At, Goto, progress, flags, files, locks
  <2> QED
    BY <2>1, <2>2 DEF Ready
<1>2. ASSUME NEW t \in Threads, Log(t) PROVE Ready'
  <2>1. LockReady'
    BY <1>2 DEF Log, Begin, At, Goto, progress, flags, files, locks
  <2>2. ASSUME NEW u \in Threads PROVE ThreadReady(u)'
    BY <1>2, <2>2 DEF Log, Begin, At, Goto, progress, flags, files, locks
  <2> QED
    BY <2>1, <2>2 DEF Ready
<1>3. ASSUME NEW t \in Threads, LogElsewhere(t) PROVE Ready'
  <2>1. LockReady'
    BY <1>3 DEF LogElsewhere, Begin, At, Goto, progress, flags, files, locks
  <2>2. ASSUME NEW u \in Threads PROVE ThreadReady(u)'
    BY <1>3, <2>2 DEF LogElsewhere, Begin, At, Goto, progress, flags, files, locks
  <2> QED
    BY <2>1, <2>2 DEF Ready
<1>4. ASSUME NEW t \in Threads, CloseCheck(t) PROVE Ready'
  <2>1. LockReady'
    BY <1>4 DEF CloseCheck, Go, At, Goto, progress, flags, files, locks
  <2>2. ASSUME NEW u \in Threads PROVE ThreadReady(u)'
    BY <1>4, <2>2 DEF CloseCheck, Go, At, Goto, progress, flags, files, locks
  <2> QED
    BY <2>1, <2>2 DEF Ready
<1>5. ASSUME NEW t \in Threads, CloseOld(t) PROVE Ready'
  <2>1. LockReady'
    BY <1>5 DEF CloseOld, Go, At, Goto, progress, flags, files, locks
  <2>2. ASSUME NEW u \in Threads PROVE ThreadReady(u)'
    BY <1>5, <2>2 DEF CloseOld, Go, At, Goto, progress, flags, files, locks
  <2> QED
    BY <2>1, <2>2 DEF Ready
<1>6. ASSUME NEW t \in Threads, ClearFile(t) PROVE Ready'
  <2>1. LockReady'
    BY <1>6 DEF ClearFile, Go, At, Goto, progress, flags, files, locks
  <2>2. ASSUME NEW u \in Threads PROVE ThreadReady(u)'
    BY <1>6, <2>2 DEF ClearFile, Go, At, Goto, progress, flags, files, locks
  <2> QED
    BY <2>1, <2>2 DEF Ready
<1>7. ASSUME NEW t \in Threads, SetLocking(t) PROVE Ready'
  <2>1. pc[t] = "setLocking" /\ pc' = [pc EXCEPT ![t] = "setDestination"]
    BY <1>7 DEF SetLocking, Go, At, Goto
  <2>2. lockLogFile' = call[t][2] /\ alone' = alone
    BY <1>7 DEF SetLocking, Go, progress
  <2>3. CASE alone = t
    <3>1. \A u \in Threads : u # t => pc[u] = "idle"
      BY <2>3
    <3>2. \A u \in Threads, l \in Locks \cup {LogMutex} : owner[l] # u
      BY <2>1, <3>1
    <3> QED
      BY <1>7, <2>1, <2>2, <2>3, <3>1, <3>2 DEF SetLocking, files, locks
  <2>4. CASE alone # t
    <3>1. lockLogFile' = lockLogFile
      BY <1>0, <2>1, <2>2, <2>4
    <3>2. ASSUME NEW u \in Threads PROVE ThreadReady(u)'
      BY <1>7, <2>1, <2>2, <3>1, <3>2 DEF SetLocking, files, locks
    <3> QED
      BY <1>7, <2>2, <3>1, <3>2 DEF SetLocking, locks, Go, progress
  <2> QED
    BY <2>3, <2>4
<1>8. ASSUME NEW t \in Threads, SetDestination(t) PROVE Ready'
  <2>1. /\ pc[t] = "setDestination" /\ pc' = [pc EXCEPT ![t] = "ifNone"]
        /\ destination' = call[t][1] /\ UNCHANGED <<lockLogFile, owner, target, progress, locks>>
    BY <1>8 DEF SetDestination, Go, At, Goto
  <2>2. alone # NoThread \/ rules.overlap # "alone"
    BY <2>1
  <2>3. LockReady'
    BY <2>1, <2>2 DEF progress, locks
  <2>4. ASSUME NEW u \in Threads PROVE ThreadReady(u)'
    <3>1. CASE u = t
      BY <2>1, <3>1 DEF progress, locks
    <3>2. CASE u # t
      BY <2>1, <2>4, <3>2 DEF progress, locks
    <3> QED
      BY <3>1, <3>2
  <2> QED
    BY <2>3, <2>4 DEF Ready
<1>9. ASSUME NEW t \in Threads, IfNone(t) PROVE Ready'
  <2>1. pc[t] = "ifNone" /\ UNCHANGED <<flags, files, locks, owner, target, rules>>
    BY <1>9 DEF IfNone, At, Return, progress
  <2>2. ASSUME NEW u \in Threads PROVE ThreadReady(u)'
    BY <1>9, <2>2 DEF IfNone, Return, At, Goto, progress, flags, files, locks
  <2>3. CASE destination # "NONE"
    BY <1>9, <2>1, <2>2, <2>3 DEF IfNone, Goto, progress, flags, locks
  <2>4. CASE destination = "NONE"
    <3>1. /\ call[t] \in rules.configs \cap Configs
          /\ alone = t => call[t] = <<"NONE", lockLogFile>>
      BY <1>0, <2>1, <2>4, Arguments
    <3>2. alone = t /\ lockLogFile # "LOCK" => rules.overlap = "alone"
      BY <3>1 DEF Prepared, Lockings
    <3>3. alone = NoThread \/ alone = t
      BY <2>1
    <3>4. LockReady'
      BY <2>1, <2>4, <3>2, <3>3 DEF flags, locks, ToFile
    <3> QED
      BY <2>2, <3>4 DEF Ready
  <2> QED
    BY <2>3, <2>4
<1>10. ASSUME NEW t \in Threads, IfBoth(t) PROVE Ready'
  <2>1. pc[t] = "ifBoth" /\ UNCHANGED <<flags, files, locks, owner, target, rules>>
    BY <1>10 DEF IfBoth, At, Return, progress
  <2>2. ASSUME NEW u \in Threads PROVE ThreadReady(u)'
    BY <1>10, <2>2 DEF IfBoth, Return, At, Goto, progress, flags, files, locks
  <2>3. CASE destination # "BOTH"
    BY <1>10, <2>1, <2>2, <2>3 DEF IfBoth, Goto, progress, flags, locks
  <2>4. CASE destination = "BOTH"
    <3>1. /\ call[t] \in rules.configs \cap Configs
          /\ alone = t => call[t] = <<"BOTH", lockLogFile>>
      BY <1>0, <2>1, <2>4, Arguments
    <3>2. alone = t /\ lockLogFile # "LOCK" => FALSE
      BY <3>1 DEF Prepared, Lockings
    <3>3. alone = NoThread \/ alone = t
      BY <2>1
    <3>4. LockReady'
      BY <2>1, <2>4, <3>2, <3>3 DEF flags, locks, ToFile
    <3> QED
      BY <2>2, <3>4 DEF Ready
  <2> QED
    BY <2>3, <2>4
<1>11. ASSUME NEW t \in Threads, SetName(t) PROVE Ready'
  <2>1. LockReady'
    BY <1>11 DEF SetName, Go, At, Goto, progress, flags, files, locks
  <2>2. ASSUME NEW u \in Threads PROVE ThreadReady(u)'
    BY <1>11, <2>2 DEF SetName, Go, At, Goto, progress, flags, files, locks
  <2> QED
    BY <2>1, <2>2 DEF Ready
<1>12. ASSUME NEW t \in Threads, EmptyName(t) PROVE Ready'
  <2>1. LockReady'
    BY <1>12 DEF EmptyName, Go, At, Goto, progress, flags, files, locks
  <2>2. ASSUME NEW u \in Threads PROVE ThreadReady(u)'
    BY <1>12, <2>2 DEF EmptyName, Go, At, Goto, progress, flags, files, locks
  <2> QED
    BY <2>1, <2>2 DEF Ready
<1>13. ASSUME NEW t \in Threads, AssignName(t) PROVE Ready'
  <2>1. LockReady'
    BY <1>13 DEF AssignName, Go, At, Goto, progress, flags, files, locks
  <2>2. ASSUME NEW u \in Threads PROVE ThreadReady(u)'
    BY <1>13, <2>2 DEF AssignName, Go, At, Goto, progress, flags, files, locks
  <2> QED
    BY <2>1, <2>2 DEF Ready
<1>14. ASSUME NEW t \in Threads, InitLock(t) PROVE Ready'
  <2>1. LockReady'
    BY <1>14 DEF InitLock, Go, At, Goto, progress, flags, files, locks
  <2>2. ASSUME NEW u \in Threads PROVE ThreadReady(u)'
    BY <1>14, <2>2 DEF InitLock, Go, At, Goto, progress, flags, files, locks
  <2> QED
    BY <2>1, <2>2 DEF Ready
<1>15. ASSUME NEW t \in Threads, LogToFile(t) PROVE Ready'
  <2>1. LockReady'
    BY <1>15 DEF LogToFile, Go, At, Goto, progress, flags, files, locks
  <2>2. ASSUME NEW u \in Threads PROVE ThreadReady(u)'
    BY <1>15, <2>2 DEF LogToFile, Go, At, Goto, progress, flags, files, locks
  <2> QED
    BY <2>1, <2>2 DEF Ready
<1>16. ASSUME NEW t \in Threads, OpenCheck(t) PROVE Ready'
  <2>1. LockReady'
    BY <1>16 DEF OpenCheck, ReturnTrue, Return, At, Goto, progress, flags, files, locks
  <2>2. ASSUME NEW u \in Threads PROVE ThreadReady(u)'
    BY <1>16, <2>2 DEF OpenCheck, ReturnTrue, Return, At, Goto, progress, flags, files, locks
  <2> QED
    BY <2>1, <2>2 DEF Ready
<1>17. ASSUME NEW t \in Threads, NameCheck(t) PROVE Ready'
  <2>1. LockReady'
    BY <1>17 DEF NameCheck, Go, At, Goto, progress, flags, files, locks
  <2>2. ASSUME NEW u \in Threads PROVE ThreadReady(u)'
    BY <1>17, <2>2 DEF NameCheck, Go, At, Goto, progress, flags, files, locks
  <2> QED
    BY <2>1, <2>2 DEF Ready
<1>18. ASSUME NEW t \in Threads, DefaultName(t) PROVE Ready'
  <2>1. LockReady'
    BY <1>18 DEF DefaultName, Go, At, Goto, progress, flags, files, locks
  <2>2. ASSUME NEW u \in Threads PROVE ThreadReady(u)'
    BY <1>18, <2>2 DEF DefaultName, Go, At, Goto, progress, flags, files, locks
  <2> QED
    BY <2>1, <2>2 DEF Ready
<1>19. ASSUME NEW t \in Threads, IfFile(t) PROVE Ready'
  <2>1. LockReady'
    BY <1>19 DEF IfFile, Go, At, Goto, progress, flags, files, locks
  <2>2. ASSUME NEW u \in Threads PROVE ThreadReady(u)'
    BY <1>19, <2>2 DEF IfFile, Go, At, Goto, progress, flags, files, locks
  <2> QED
    BY <2>1, <2>2 DEF Ready
<1>20. ASSUME NEW t \in Threads, IfFileOrBoth(t) PROVE Ready'
  <2>1. LockReady'
    BY <1>20 DEF IfFileOrBoth, ReturnTrue, Return, At, Goto, progress, flags, files, locks
  <2>2. ASSUME NEW u \in Threads PROVE ThreadReady(u)'
    BY <1>20, <2>2 DEF IfFileOrBoth, ReturnTrue, Return, At, Goto, progress, flags, files, locks
  <2> QED
    BY <2>1, <2>2 DEF Ready
<1>21. ASSUME NEW t \in Threads, Fopen(t) PROVE Ready'
  <2>1. LockReady'
    BY <1>21 DEF Fopen, Go, FopenResults, At, Goto, progress, flags, files, locks
  <2>2. ASSUME NEW u \in Threads PROVE ThreadReady(u)'
    BY <1>21, <2>2 DEF Fopen, Go, FopenResults, At, Goto, progress, flags, files, locks
  <2> QED
    BY <2>1, <2>2 DEF Ready
<1>22. ASSUME NEW t \in Threads, Opened(t) PROVE Ready'
  <2>1. LockReady'
    BY <1>22 DEF Opened, ReturnTrue, Return, At, Goto, progress, flags, files, locks
  <2>2. ASSUME NEW u \in Threads PROVE ThreadReady(u)'
    BY <1>22, <2>2 DEF Opened, ReturnTrue, Return, At, Goto, progress, flags, files, locks
  <2> QED
    BY <2>1, <2>2 DEF Ready
<1>23. ASSUME NEW t \in Threads, ChooseLock(t) PROVE Ready'
  <2>1. LockReady'
    BY <1>23 DEF ChooseLock, Go, At, Goto, progress, flags, files, locks
  <2>2. ASSUME NEW u \in Threads PROVE ThreadReady(u)'
    BY <1>23, <2>2 DEF ChooseLock, Go, At, Goto, progress, flags, files, locks
  <2> QED
    BY <2>1, <2>2 DEF Ready
<1>24. ASSUME NEW t \in Threads, AcquireMutex(t) PROVE Ready'
  <2>1. pc[t] = "mutex" /\ lockLogFile = "LOCK" /\ owner[LogMutex] = NoThread
    BY <1>24, <1>0 DEF AcquireMutex, Go, At
  <2>2. pc' = [pc EXCEPT ![t] = "write"] /\ owner' = [owner EXCEPT ![LogMutex] = t]
    BY <1>24 DEF AcquireMutex, Go, Goto
  <2>3. LockReady'
    BY <1>24 DEF AcquireMutex, Go, progress, flags, locks
  <2>4. ASSUME NEW u \in Threads PROVE ThreadReady(u)'
    <3>1. CASE u = t
      BY <1>24, <2>1, <2>2, <3>1 DEF AcquireMutex, Go, progress, flags, locks
    <3>2. CASE u # t
      BY <1>24, <2>1, <2>2, <2>4, <3>2 DEF AcquireMutex, Go, progress, flags, locks
    <3> QED
      BY <3>1, <3>2
  <2> QED
    BY <2>3, <2>4 DEF Ready
<1>25. ASSUME NEW t \in Threads, LockCheck(t) PROVE Ready'
  <2>1. pc[t] = "lockCheck" /\ lockLogFile # "LOCK"
    BY <1>25, <1>0 DEF LockCheck, Go, At
  <2>2. call[t] = NoCall /\ alone = NoThread
    BY <2>1
  <2>3. logLock # NoLock
    BY <2>1, <2>2
  <2>4. pc' = [pc EXCEPT ![t] = "lockRead"]
    BY <1>25, <2>3 DEF LockCheck, Go, Goto
  <2>5. LockReady'
    BY <1>25 DEF LockCheck, Go, progress, flags, locks
  <2>6. ASSUME NEW u \in Threads PROVE ThreadReady(u)'
    BY <1>25, <2>1, <2>4, <2>6 DEF LockCheck, Go, progress, flags, locks
  <2> QED
    BY <2>5, <2>6 DEF Ready
<1>26. ASSUME NEW t \in Threads, NewLock(t) PROVE Ready'
  <2>1. LockReady'
    BY <1>26, AllocateOne DEF NewLock, Go, At, Goto, progress, flags, files, locks
  <2>2. ASSUME NEW u \in Threads PROVE ThreadReady(u)'
    BY <1>26, <2>2, AllocateOne DEF NewLock, Go, At, Goto, progress, flags, files, locks
  <2> QED
    BY <2>1, <2>2 DEF Ready
<1>27. ASSUME NEW t \in Threads, LockRead(t) PROVE Ready'
  <2>1. LockReady'
    BY <1>27 DEF LockRead, Go, At, Goto, progress, flags, files, locks
  <2>2. ASSUME NEW u \in Threads PROVE ThreadReady(u)'
    BY <1>27, <2>2 DEF LockRead, Go, At, Goto, progress, flags, files, locks
  <2> QED
    BY <2>1, <2>2 DEF Ready
<1>28. ASSUME NEW t \in Threads, LockTake(t) PROVE Ready'
  <2>1. /\ pc[t] = "lockWait" /\ lockLogFile # "LOCK" /\ target[t] = logLock
        /\ logLock \in Locks /\ owner[logLock] = NoThread
    BY <1>28, <1>0 DEF LockTake, Go, At
  <2>2. pc' = [pc EXCEPT ![t] = "write"] /\ owner' = [owner EXCEPT ![logLock] = t]
    BY <1>28, <2>1 DEF LockTake, Go, Goto
  <2>3. LockReady'
    BY <1>28 DEF LockTake, Go, progress, flags, locks
  <2>4. ASSUME NEW u \in Threads PROVE ThreadReady(u)'
    <3>1. CASE u = t
      BY <1>28, <2>1, <2>2, <3>1 DEF LockTake, Go, progress, flags, locks
    <3>2. CASE u # t
      BY <1>28, <2>1, <2>2, <2>4, <3>2 DEF LockTake, Go, progress, flags, locks
    <3> QED
      BY <3>1, <3>2
  <2> QED
    BY <2>3, <2>4 DEF Ready
<1>29. ASSUME NEW t \in Threads, Write(t) PROVE Ready'
  <2>1. LockReady'
    BY <1>29 DEF Write, Go, At, Goto, progress, flags, files, locks
  <2>2. ASSUME NEW u \in Threads PROVE ThreadReady(u)'
    BY <1>29, <2>2 DEF Write, Go, At, Goto, progress, flags, files, locks
  <2> QED
    BY <2>1, <2>2 DEF Ready
<1>30. ASSUME NEW t \in Threads, UseInvalid(t) PROVE Ready'
  <2>1. LockReady'
    BY <1>30 DEF UseInvalid, At, Goto, progress, flags, files, locks
  <2>2. ASSUME NEW u \in Threads PROVE ThreadReady(u)'
    BY <1>30, <2>2 DEF UseInvalid, At, Goto, progress, flags, files, locks
  <2> QED
    BY <2>1, <2>2 DEF Ready
<1>31. ASSUME NEW t \in Threads, Unlock(t) PROVE Ready'
  <2>1. LockReady'
    BY <1>31 DEF Unlock, Go, ToRelease, At, Goto, progress, flags, files, locks
  <2>2. ASSUME NEW u \in Threads PROVE ThreadReady(u)'
    BY <1>31, <2>2 DEF Unlock, Go, ToRelease, At, Goto, progress, flags, files, locks
  <2> QED
    BY <2>1, <2>2 DEF Ready
<1>32. ASSUME NEW t \in Threads, UnlockForeign(t) PROVE Ready'
  <2>1. LockReady'
    BY <1>32 DEF UnlockForeign, Go, ToRelease, At, Goto, progress, flags, files, locks
  <2>2. ASSUME NEW u \in Threads PROVE ThreadReady(u)'
    BY <1>32, <2>2 DEF UnlockForeign, Go, ToRelease, At, Goto, progress, flags, files, locks
  <2> QED
    BY <2>1, <2>2 DEF Ready
<1>33. CASE UNCHANGED vars
  BY <1>33 DEF vars
<1> QED
  BY <1>1, <1>2, <1>3, <1>4, <1>5, <1>6, <1>7, <1>8, <1>9, <1>10,
     <1>11, <1>12, <1>13, <1>14, <1>15, <1>16, <1>17, <1>18, <1>19, <1>20,
     <1>21, <1>22, <1>23, <1>24, <1>25, <1>26, <1>27, <1>28, <1>29, <1>30,
     <1>31, <1>32, <1>33
     DEF Next, Step

\* When InitLogging runs alone nobody assigns to the name that fopen reads, and it is
\* not empty.
LEMMA CalmFopen ==
    ASSUME IInv, Calm, NEW t \in Threads, pc[t] = "fopen"
    PROVE  FopenResults(t) = Files \ openFiles
<1>1. ASSUME NEW u \in Threads, u # t PROVE pc[u] # "assignName"
  BY <1>1, NullAssumption DEF IInv, CallOK, Calm, InitLabels
<1>2. logFileName # "empty"
  BY <1>1 DEF IInv, FileOK
<1> QED
  BY <1>1, <1>2 DEF FopenResults, NameRace, Calm

\* A FILE is not closed under a thread that logs.
LEMMA NextFileOK == IInv /\ [Next]_vars => FileOK'
<1> SUFFICES ASSUME IInv, [Next]_vars PROVE FileOK'
  OBVIOUS
<1> USE NullAssumption, ConfigFields DEF IInv, TypeOK, CallOK, AfterLocking, PhaseOK, FileOK, HasFile, Calm,
    InitLabels, OpenLabels
<1>1. ASSUME NEW t \in Threads, NEW c \in rules.configs, InitLogging(t, c) PROVE FileOK'
  BY <1>1, SMTT(30) DEF InitLogging, At, Goto, MayOverlap, Quiescent, progress, flags, files, locks
<1>2. ASSUME NEW t \in Threads, Log(t) PROVE FileOK'
  BY <1>2, SMTT(30) DEF Log, Begin, At, Goto, progress, flags, files, locks
<1>3. ASSUME NEW t \in Threads, LogElsewhere(t) PROVE FileOK'
  BY <1>3, SMTT(30) DEF LogElsewhere, Begin, At, Goto, progress, flags, files, locks
<1>4. ASSUME NEW t \in Threads, CloseCheck(t) PROVE FileOK'
  BY <1>4, SMTT(30) DEF CloseCheck, Go, At, Goto, progress, flags, files, locks
<1>5. ASSUME NEW t \in Threads, CloseOld(t) PROVE FileOK'
  BY <1>5, SMTT(30) DEF CloseOld, Go, At, Goto, progress, flags, files, locks
<1>6. ASSUME NEW t \in Threads, ClearFile(t) PROVE FileOK'
  BY <1>6, SMTT(30) DEF ClearFile, Go, At, Goto, progress, flags, files, locks
<1>7. ASSUME NEW t \in Threads, SetLocking(t) PROVE FileOK'
  BY <1>7, SMTT(30) DEF SetLocking, Go, At, Goto, progress, flags, files, locks
<1>8. ASSUME NEW t \in Threads, SetDestination(t) PROVE FileOK'
  BY <1>8, SMTT(30) DEF SetDestination, Go, At, Goto, progress, flags, files, locks
<1>9. ASSUME NEW t \in Threads, IfNone(t) PROVE FileOK'
  BY <1>9, SMTT(30) DEF IfNone, Return, At, Goto, progress, flags, files, locks
<1>10. ASSUME NEW t \in Threads, IfBoth(t) PROVE FileOK'
  BY <1>10, SMTT(30) DEF IfBoth, Return, At, Goto, progress, flags, files, locks
<1>11. ASSUME NEW t \in Threads, SetName(t) PROVE FileOK'
  BY <1>11, SMTT(30) DEF SetName, Go, At, Goto, progress, flags, files, locks
<1>12. ASSUME NEW t \in Threads, EmptyName(t) PROVE FileOK'
  BY <1>12, SMTT(30) DEF EmptyName, Go, At, Goto, progress, flags, files, locks
<1>13. ASSUME NEW t \in Threads, AssignName(t) PROVE FileOK'
  BY <1>13, SMTT(30) DEF AssignName, Go, At, Goto, progress, flags, files, locks
<1>14. ASSUME NEW t \in Threads, InitLock(t) PROVE FileOK'
  BY <1>14, SMTT(30) DEF InitLock, Go, At, Goto, progress, flags, files, locks
<1>15. ASSUME NEW t \in Threads, LogToFile(t) PROVE FileOK'
  BY <1>15, SMTT(30) DEF LogToFile, Go, At, Goto, progress, flags, files, locks
<1>16. ASSUME NEW t \in Threads, OpenCheck(t) PROVE FileOK'
  BY <1>16, SMTT(30) DEF OpenCheck, ReturnTrue, Return, At, Goto, progress, flags, files, locks
<1>17. ASSUME NEW t \in Threads, NameCheck(t) PROVE FileOK'
  BY <1>17, SMTT(30) DEF NameCheck, Go, At, Goto, progress, flags, files, locks
<1>18. ASSUME NEW t \in Threads, DefaultName(t) PROVE FileOK'
  BY <1>18, SMTT(30) DEF DefaultName, Go, At, Goto, progress, flags, files, locks
<1>19. ASSUME NEW t \in Threads, IfFile(t) PROVE FileOK'
  BY <1>19, SMTT(30) DEF IfFile, Go, At, Goto, progress, flags, files, locks
<1>20. ASSUME NEW t \in Threads, IfFileOrBoth(t) PROVE FileOK'
  BY <1>20, SMTT(30) DEF IfFileOrBoth, ReturnTrue, Return, At, Goto, progress, flags, files, locks
<1>21. ASSUME NEW t \in Threads, Fopen(t) PROVE FileOK'
  <2>1. pc[t] = "fopen"
    BY <1>21 DEF Fopen, Go, At
  <2>2. Calm => FopenResults(t) = Files \ openFiles
    BY <2>1, CalmFopen
  <2> QED
    BY <1>21, <2>2 DEF Fopen, Go, At, Goto, progress, flags, locks
<1>22. ASSUME NEW t \in Threads, Opened(t) PROVE FileOK'
  BY <1>22, SMTT(30) DEF Opened, ReturnTrue, Return, At, Goto, progress, flags, files, locks
<1>23. ASSUME NEW t \in Threads, ChooseLock(t) PROVE FileOK'
  BY <1>23, SMTT(30) DEF ChooseLock, Go, At, Goto, progress, flags, files, locks
<1>24. ASSUME NEW t \in Threads, AcquireMutex(t) PROVE FileOK'
  BY <1>24, SMTT(30) DEF AcquireMutex, Go, At, Goto, progress, flags, files, locks
<1>25. ASSUME NEW t \in Threads, LockCheck(t) PROVE FileOK'
  BY <1>25, SMTT(30) DEF LockCheck, Go, At, Goto, progress, flags, files, locks
<1>26. ASSUME NEW t \in Threads, NewLock(t) PROVE FileOK'
  BY <1>26, AllocateOne, SMTT(30) DEF NewLock, Go, At, Goto, progress, flags, files, locks
<1>27. ASSUME NEW t \in Threads, LockRead(t) PROVE FileOK'
  BY <1>27, SMTT(30) DEF LockRead, Go, At, Goto, progress, flags, files, locks
<1>28. ASSUME NEW t \in Threads, LockTake(t) PROVE FileOK'
  BY <1>28, SMTT(30) DEF LockTake, Go, At, Goto, progress, flags, files, locks
<1>29. ASSUME NEW t \in Threads, Write(t) PROVE FileOK'
  BY <1>29, SMTT(30) DEF Write, Go, At, Goto, progress, flags, files, locks
<1>30. ASSUME NEW t \in Threads, UseInvalid(t) PROVE FileOK'
  BY <1>30, SMTT(30) DEF UseInvalid, At, Goto, progress, flags, files, locks
<1>31. ASSUME NEW t \in Threads, Unlock(t) PROVE FileOK'
  BY <1>31, SMTT(30) DEF Unlock, Go, ToRelease, At, Goto, progress, flags, files, locks
<1>32. ASSUME NEW t \in Threads, UnlockForeign(t) PROVE FileOK'
  BY <1>32, SMTT(30) DEF UnlockForeign, Go, ToRelease, At, Goto, progress, flags, files, locks
<1>33. CASE UNCHANGED vars
  BY <1>33 DEF vars
<1> QED
  BY <1>1, <1>2, <1>3, <1>4, <1>5, <1>6, <1>7, <1>8, <1>9, <1>10,
     <1>11, <1>12, <1>13, <1>14, <1>15, <1>16, <1>17, <1>18, <1>19, <1>20,
     <1>21, <1>22, <1>23, <1>24, <1>25, <1>26, <1>27, <1>28, <1>29, <1>30,
     <1>31, <1>32, <1>33
     DEF Next, Step

\* No more locks are made than there are threads.
LEMMA NextLeakOK == IInv /\ [Next]_vars => LeakOK'
<1> SUFFICES ASSUME IInv, [Next]_vars PROVE LeakOK'
  OBVIOUS
<1> USE NullAssumption DEF IInv, TypeOK, CallOK
<1>1. ASSUME NEW t \in Threads, NEW c \in rules.configs, InitLogging(t, c) PROVE LeakOK'
  <2>1. UNCHANGED locks /\ Makers' = Makers
    BY <1>1 DEF Makers, InitLogging, MayOverlap, Quiescent, At, Goto, progress
  <2> QED
    BY <2>1, LeakUntouched
<1>2. ASSUME NEW t \in Threads, Log(t) PROVE LeakOK'
  <2>1. UNCHANGED locks /\ Makers' = Makers
    BY <1>2 DEF Makers, Log, Begin, At, Goto, progress
  <2> QED
    BY <2>1, LeakUntouched
<1>3. ASSUME NEW t \in Threads, LogElsewhere(t) PROVE LeakOK'
  <2>1. UNCHANGED locks /\ Makers' = Makers
    BY <1>3 DEF Makers, LogElsewhere, Begin, At, Goto, progress
  <2> QED
    BY <2>1, LeakUntouched
<1>4. ASSUME NEW t \in Threads, CloseCheck(t) PROVE LeakOK'
  <2>1. UNCHANGED locks /\ Makers' = Makers
    BY <1>4 DEF Makers, CloseCheck, Go, At, Goto, progress
  <2> QED
    BY <2>1, LeakUntouched
<1>5. ASSUME NEW t \in Threads, CloseOld(t) PROVE LeakOK'
  <2>1. UNCHANGED locks /\ Makers' = Makers
    BY <1>5 DEF Makers, CloseOld, Go, At, Goto, progress
  <2> QED
    BY <2>1, LeakUntouched
<1>6. ASSUME NEW t \in Threads, ClearFile(t) PROVE LeakOK'
  <2>1. UNCHANGED locks /\ Makers' = Makers
    BY <1>6 DEF Makers, ClearFile, Go, At, Goto, progress
  <2> QED
    BY <2>1, LeakUntouched
<1>7. ASSUME NEW t \in Threads, SetLocking(t) PROVE LeakOK'
  <2>1. UNCHANGED locks /\ Makers' = Makers
    BY <1>7 DEF Makers, SetLocking, Go, At, Goto, progress
  <2> QED
    BY <2>1, LeakUntouched
<1>8. ASSUME NEW t \in Threads, SetDestination(t) PROVE LeakOK'
  <2>1. UNCHANGED locks /\ Makers' = Makers
    BY <1>8 DEF Makers, SetDestination, Go, At, Goto, progress
  <2> QED
    BY <2>1, LeakUntouched
<1>9. ASSUME NEW t \in Threads, IfNone(t) PROVE LeakOK'
  <2>1. UNCHANGED locks /\ Makers' = Makers
    BY <1>9 DEF Makers, IfNone, Return, At, Goto, progress
  <2> QED
    BY <2>1, LeakUntouched
<1>10. ASSUME NEW t \in Threads, IfBoth(t) PROVE LeakOK'
  <2>1. UNCHANGED locks /\ Makers' = Makers
    BY <1>10 DEF Makers, IfBoth, Return, At, Goto, progress
  <2> QED
    BY <2>1, LeakUntouched
<1>11. ASSUME NEW t \in Threads, SetName(t) PROVE LeakOK'
  <2>1. UNCHANGED locks /\ Makers' = Makers
    BY <1>11 DEF Makers, SetName, Go, At, Goto, progress
  <2> QED
    BY <2>1, LeakUntouched
<1>12. ASSUME NEW t \in Threads, EmptyName(t) PROVE LeakOK'
  <2>1. UNCHANGED locks /\ Makers' = Makers
    BY <1>12 DEF Makers, EmptyName, Go, At, Goto, progress
  <2> QED
    BY <2>1, LeakUntouched
<1>13. ASSUME NEW t \in Threads, AssignName(t) PROVE LeakOK'
  <2>1. UNCHANGED locks /\ Makers' = Makers
    BY <1>13 DEF Makers, AssignName, Go, At, Goto, progress
  <2> QED
    BY <2>1, LeakUntouched
<1>14. ASSUME NEW t \in Threads, InitLock(t) PROVE LeakOK'
  <2>1. CASE lockLogFile = "LOCK" \/ logLock # NoLock
    <3>1. UNCHANGED locks /\ Makers' = Makers
      BY <1>14, <2>1 DEF Makers, InitLock, Go, At, Goto
    <3> QED
      BY <3>1, LeakUntouched
  <2>2. CASE ~(lockLogFile = "LOCK" \/ logLock # NoLock)
    BY <1>14, <2>2, LeakMaker DEF InitLock
  <2> QED
    BY <2>1, <2>2
<1>15. ASSUME NEW t \in Threads, LogToFile(t) PROVE LeakOK'
  <2>1. UNCHANGED locks /\ Makers' = Makers
    BY <1>15 DEF Makers, LogToFile, Go, At, Goto, progress
  <2> QED
    BY <2>1, LeakUntouched
<1>16. ASSUME NEW t \in Threads, OpenCheck(t) PROVE LeakOK'
  <2>1. UNCHANGED locks /\ Makers' = Makers
    BY <1>16 DEF Makers, OpenCheck, ReturnTrue, Return, At, Goto, progress
  <2> QED
    BY <2>1, LeakUntouched
<1>17. ASSUME NEW t \in Threads, NameCheck(t) PROVE LeakOK'
  <2>1. UNCHANGED locks /\ Makers' = Makers
    BY <1>17 DEF Makers, NameCheck, Go, At, Goto, progress
  <2> QED
    BY <2>1, LeakUntouched
<1>18. ASSUME NEW t \in Threads, DefaultName(t) PROVE LeakOK'
  <2>1. UNCHANGED locks /\ Makers' = Makers
    BY <1>18 DEF Makers, DefaultName, Go, At, Goto, progress
  <2> QED
    BY <2>1, LeakUntouched
<1>19. ASSUME NEW t \in Threads, IfFile(t) PROVE LeakOK'
  <2>1. UNCHANGED locks /\ Makers' = Makers
    BY <1>19 DEF Makers, IfFile, Go, At, Goto, progress
  <2> QED
    BY <2>1, LeakUntouched
<1>20. ASSUME NEW t \in Threads, IfFileOrBoth(t) PROVE LeakOK'
  <2>1. UNCHANGED locks /\ Makers' = Makers
    BY <1>20 DEF Makers, IfFileOrBoth, ReturnTrue, Return, At, Goto, progress
  <2> QED
    BY <2>1, LeakUntouched
<1>21. ASSUME NEW t \in Threads, Fopen(t) PROVE LeakOK'
  <2>1. UNCHANGED locks /\ Makers' = Makers
    BY <1>21 DEF Makers, Fopen, Go, FopenResults, At, Goto, progress
  <2> QED
    BY <2>1, LeakUntouched
<1>22. ASSUME NEW t \in Threads, Opened(t) PROVE LeakOK'
  <2>1. UNCHANGED locks /\ Makers' = Makers
    BY <1>22 DEF Makers, Opened, ReturnTrue, Return, At, Goto, progress
  <2> QED
    BY <2>1, LeakUntouched
<1>23. ASSUME NEW t \in Threads, ChooseLock(t) PROVE LeakOK'
  <2>1. UNCHANGED locks /\ Makers' = Makers
    BY <1>23 DEF Makers, ChooseLock, Go, At, Goto, progress
  <2> QED
    BY <2>1, LeakUntouched
<1>24. ASSUME NEW t \in Threads, AcquireMutex(t) PROVE LeakOK'
  <2>1. UNCHANGED locks /\ Makers' = Makers
    BY <1>24 DEF Makers, AcquireMutex, Go, At, Goto, progress
  <2> QED
    BY <2>1, LeakUntouched
<1>25. ASSUME NEW t \in Threads, LockCheck(t) PROVE LeakOK'
  <2>1. CASE logLock # NoLock
    <3>1. UNCHANGED locks /\ Makers' = Makers
      BY <1>25, <2>1 DEF Makers, LockCheck, Go, At, Goto
    <3> QED
      BY <3>1, LeakUntouched
  <2>2. CASE ~(logLock # NoLock)
    BY <1>25, <2>2, LeakMaker DEF LockCheck
  <2> QED
    BY <2>1, <2>2
<1>26. ASSUME NEW t \in Threads, NewLock(t) PROVE LeakOK'
  <2>1. PICK l \in Locks \ allocated : logLock' = l /\ allocated' = allocated \cup {l}
    BY <1>26, AllocateOne DEF NewLock
  <2>2. t \in Makers /\ Makers' = Makers \ {t} /\ Makers \subseteq Threads
    BY <1>26 DEF NewLock, Go, At, Goto, Makers
  <2>3. IsFiniteSet(Makers)
    BY <2>2, ThreadsAssumption, FS_Subset
  <2>4. Cardinality(Makers') = Cardinality(Makers) - 1
    BY <2>2, <2>3, FS_RemoveElement
  <2>5. IsFiniteSet(allocated') /\ Cardinality(allocated') = Cardinality(allocated) + 1
    BY <2>1, FS_AddElement DEF LeakOK
  <2> QED
    BY <2>1, <2>3, <2>4, <2>5, ThreadsAssumption, FS_CardinalityType DEF LeakOK
<1>27. ASSUME NEW t \in Threads, LockRead(t) PROVE LeakOK'
  <2>1. UNCHANGED locks /\ Makers' = Makers
    BY <1>27 DEF Makers, LockRead, Go, At, Goto, progress
  <2> QED
    BY <2>1, LeakUntouched
<1>28. ASSUME NEW t \in Threads, LockTake(t) PROVE LeakOK'
  <2>1. UNCHANGED locks /\ Makers' = Makers
    BY <1>28 DEF Makers, LockTake, Go, At, Goto, progress
  <2> QED
    BY <2>1, LeakUntouched
<1>29. ASSUME NEW t \in Threads, Write(t) PROVE LeakOK'
  <2>1. UNCHANGED locks /\ Makers' = Makers
    BY <1>29 DEF Makers, Write, Go, At, Goto, progress
  <2> QED
    BY <2>1, LeakUntouched
<1>30. ASSUME NEW t \in Threads, UseInvalid(t) PROVE LeakOK'
  <2>1. UNCHANGED locks /\ Makers' = Makers
    BY <1>30 DEF Makers, UseInvalid, At, Goto, progress
  <2> QED
    BY <2>1, LeakUntouched
<1>31. ASSUME NEW t \in Threads, Unlock(t) PROVE LeakOK'
  <2>1. UNCHANGED locks /\ Makers' = Makers
    BY <1>31 DEF Makers, Unlock, Go, ToRelease, At, Goto, progress
  <2> QED
    BY <2>1, LeakUntouched
<1>32. ASSUME NEW t \in Threads, UnlockForeign(t) PROVE LeakOK'
  <2>1. UNCHANGED locks /\ Makers' = Makers
    BY <1>32 DEF Makers, UnlockForeign, Go, ToRelease, At, Goto, progress
  <2> QED
    BY <2>1, LeakUntouched
<1>33. CASE UNCHANGED vars
  BY <1>33, LeakUntouched DEF vars, locks, Makers
<1> QED
  BY <1>1, <1>2, <1>3, <1>4, <1>5, <1>6, <1>7, <1>8, <1>9, <1>10,
     <1>11, <1>12, <1>13, <1>14, <1>15, <1>16, <1>17, <1>18, <1>19, <1>20,
     <1>21, <1>22, <1>23, <1>24, <1>25, <1>26, <1>27, <1>28, <1>29, <1>30,
     <1>31, <1>32, <1>33
     DEF Next, Step

\* The invariant of all behaviours.
LEMMA Invariance == Spec => []IInv
<1>1. IInv /\ [Next]_vars => IInv'
  BY NextTypeOK, NextCallOK, NextPhaseOK, NextReadyOK, NextFileOK, NextLeakOK
     DEF IInv
<1> QED
  BY InitIInv, <1>1, PTL DEF Spec

\* Type correctness.
THEOREM TypeCorrect == Spec => []TypeOK
<1>1. IInv => TypeOK
  BY DEF IInv
<1> QED
  BY Invariance, <1>1, PTL

\* One writer at a time, in prepared programs and under LOCK_LOG_FILE.
THEOREM WritersSafe == Spec => []WritersExclude
<1>1. IInv => WritersExclude
  BY DEF IInv, PhaseOK, ReadyOK, Ready, ThreadReady, WritersExclude
<1> QED
  BY Invariance, <1>1, PTL

\* The lock that a thread releases is its own ...
THEOREM UnlockSafe == Spec => []UnlocksOwn
<1>1. IInv => UnlocksOwn
  BY DEF IInv, ReadyOK, Ready, ThreadReady, UnlocksOwn
<1> QED
  BY Invariance, <1>1, PTL

\* ... and when nobody logs, nobody holds a lock.
THEOREM QuiescentFree == Spec => []NoLockLeftHeld
<1>1. IInv => NoLockLeftHeld
  BY DEF IInv, TypeOK, ReadyOK, Ready, ThreadReady, NoLockLeftHeld, Quiescent, Writing
<1> QED
  BY Invariance, <1>1, PTL

\* No thread writes through a FILE that is not open, lazily as it is opened, if
\* fopen succeeds and InitLogging runs alone.
THEOREM FileSafe == Spec => []WriterHasFile
<1>1. IInv => WriterHasFile
  BY DEF IInv, TypeOK, CallOK, FileOK, HasFile, WriterHasFile, InitLabels, OpenLabels
<1> QED
  BY Invariance, <1>1, PTL

\* No more LockImpl objects are made than there are threads, whatever the program
\* does: the leak that logging.h admits is small.
THEOREM LeakIsSmall == Spec => []LockLeakBounded
<1>1. IInv => LockLeakBounded
  <2> SUFFICES ASSUME IInv PROVE LockLeakBounded
    OBVIOUS
  <2>1. IsFiniteSet(Makers)
    BY ThreadsAssumption, FS_Subset DEF Makers
  <2> QED
    BY <2>1, ThreadsAssumption, FS_CardinalityType DEF IInv, LeakOK, LockLeakBounded
<1> QED
  BY Invariance, <1>1, PTL

\* The leak of FILE objects.  Who passed the test of log_file may still open one;
\* each call of InitLogging lets every thread do so once, and closes one itself.
Openers  == {t \in Threads : pc[t] \in {"nameCheck", "defaultName", "ifFile",
                                        "ifFileOrBoth", "fopen"}}
Closers  == {t \in Threads : pc[t] \in {"close", "closeFile"}}
Clearers == {t \in Threads : pc[t] = "clear"}
Full     == 1 + inits * (Cardinality(Threads) - 1)

FileLeakOK ==
    Calm =>
      /\ IsFiniteSet(openFiles)
      /\ inits = 0 => /\ openFiles = {} /\ destination = "SYSTEM"
                      /\ \A t \in Threads : pc[t] \in {"idle", "logToFile"}
      /\ inits # 0 =>
            /\ Closers # {} =>
                  Cardinality(openFiles) <=
                      Full - Cardinality(Threads) + (IF logFile = NoFile THEN 0 ELSE 1)
            /\ Closers = {} /\ (logFile = NoFile \/ Clearers # {}) =>
                  Cardinality(openFiles) <= Full - Cardinality(Threads)
            /\ Closers = {} /\ Clearers = {} /\ logFile # NoFile =>
                  Cardinality(openFiles) + Cardinality(Openers) <= Full

\* The numbers are numbers, and one more call adds all threads but one.
LEMMA FullGrows ==
    ASSUME IInv
    PROVE  /\ inits \in Nat /\ Cardinality(Threads) \in Nat /\ Full \in Int
           /\ inits' = inits + 1 => Full' = Full + Cardinality(Threads) - 1
<1>1. inits \in Nat /\ Cardinality(Threads) \in Nat
  BY BoundAssumption, ThreadsAssumption, FS_CardinalityType DEF IInv, TypeOK
<1>2. ASSUME NEW n \in Nat, NEW m \in Int PROVE 1 + n * m \in Int /\ 1 + (n + 1) * m = 1 + n * m + m
  OBVIOUS
<1> QED
  BY <1>1, <1>2 DEF Full

\* Sets of threads are finite.
LEMMA OpenersFinite ==
    ASSUME NEW S \in SUBSET Threads
    PROVE  /\ IsFiniteSet(S) /\ Cardinality(S) \in Nat
           /\ \A T \in SUBSET S : Cardinality(T) <= Cardinality(S)
BY ThreadsAssumption, FS_Subset, FS_CardinalityType

\* A step that leaves the files alone, and lets nobody begin to open one while
\* there is one.
LEMMA FilesUntouched ==
    ASSUME IInv, FileLeakOK, UNCHANGED <<files, inits, rules>>,
           Closers' = Closers, Clearers' = Clearers,
           logFile = NoFile \/ Openers' \subseteq Openers,
           inits = 0 =>
               /\ destination' = destination
               /\ pc' = pc \/ \A t \in Threads : pc'[t] \in {"idle", "logToFile"}
    PROVE  FileLeakOK'
<1>1. Full' = Full /\ Calm' = Calm
  BY DEF Full, Calm
<1>2. Openers \in SUBSET Threads /\ Openers' \in SUBSET Threads
  BY DEF Openers
<1>3. Cardinality(openFiles) \in Nat \/ ~Calm
  BY FS_CardinalityType DEF FileLeakOK
<1>4. logFile # NoFile => Cardinality(Openers') <= Cardinality(Openers)
  BY <1>2, OpenersFinite
<1>5. Cardinality(Openers) \in Nat /\ Cardinality(Openers') \in Nat
  BY <1>2, OpenersFinite
<1>6. Full \in Int
  BY FullGrows
<1> QED
  BY <1>1, <1>3, <1>4, <1>5, <1>6 DEF FileLeakOK, files

\* If InitLogging runs alone, nobody else is in a call while one is in it.
LEMMA InitAlone ==
    ASSUME IInv, Calm, NEW t \in Threads, pc[t] \in {"close", "closeFile", "clear"},
           NEW u \in Threads, u # t
    PROVE  pc[u] = "idle"
BY NullAssumption DEF IInv, CallOK, Calm, InitLabels


\* Every step keeps the FILE objects within the bound.
LEMMA NextFileLeakOK == IInv /\ FileLeakOK /\ [Next]_vars => FileLeakOK'
<1> SUFFICES ASSUME IInv, FileLeakOK, [Next]_vars, Calm PROVE FileLeakOK'
  BY RulesRigid DEF FileLeakOK, Calm
<1>0. /\ pc \in [Threads -> Labels]
      /\ \A t \in Threads : pc[t] \notin {"idle", "logToFile"} => inits # 0
  BY DEF IInv, TypeOK, FileLeakOK
<1>1. ASSUME NEW t \in Threads, NEW c \in rules.configs, InitLogging(t, c) PROVE FileLeakOK'
  <2>1. /\ \A u \in Threads : pc[u] = "idle"
        /\ pc' = [pc EXCEPT ![t] = "close"] /\ inits' = inits + 1
        /\ UNCHANGED <<logFile, openFiles, rules>>
    BY <1>1 DEF InitLogging, MayOverlap, Calm, Quiescent, files, Goto
  <2>2. Closers = {} /\ Clearers = {} /\ Openers = {} /\ t \in Closers'
    BY <2>1, <1>0 DEF Closers, Clearers, Openers
  <2>3. Cardinality(Openers) = 0 /\ Cardinality({}) = 0
    BY <2>2, FS_EmptySet
  <2>4. IsFiniteSet(openFiles) /\ Cardinality(openFiles) \in Nat
    BY FS_CardinalityType DEF FileLeakOK
  <2>5. inits \in Nat /\ Cardinality(Threads) \in Nat /\ Full \in Int
        /\ Full' = Full + Cardinality(Threads) - 1
    BY FullGrows, <2>1
  <2>6. CASE inits = 0
    <3>1. logFile = NoFile
      BY <2>1, <2>6 DEF IInv, FileOK, FileLeakOK
    <3>2. Full = 1 /\ inits' # 0
      BY <2>1, <2>5, <2>6 DEF Full
    <3>3. Full' - Cardinality(Threads) = 0
      BY <2>5, <3>2
    <3>4. openFiles' = {} /\ Cardinality(openFiles') = 0 /\ IsFiniteSet(openFiles')
      BY <2>1, <2>3, <2>4, <2>6 DEF FileLeakOK
    <3>5. logFile' = NoFile /\ Closers' # {}
      BY <2>1, <2>2, <3>1
    <3> QED
      BY <3>2, <3>3, <3>4, <3>5 DEF FileLeakOK
  <2>7. CASE inits # 0
    <3>1. Cardinality(Threads) > 0
      BY ThreadsAssumption, FS_EmptySet, <2>5
    <3> QED
      BY <2>1, <2>2, <2>3, <2>4, <2>5, <2>7, <3>1 DEF FileLeakOK
  <2> QED
    BY <2>6, <2>7
<1>2. ASSUME NEW t \in Threads, Log(t) PROVE FileLeakOK'
  <2>1. /\ UNCHANGED <<files, inits, rules, destination>>
        /\ pc[t] = "idle" /\ pc' = [pc EXCEPT ![t] = "logToFile"]
    BY <1>2 DEF Log, Begin, flags, At, Goto
  <2>2. Closers' = Closers /\ Clearers' = Clearers /\ Openers' = Openers
    BY <2>1, <1>0 DEF Closers, Clearers, Openers
  <2>3. inits = 0 => \A u \in Threads : pc'[u] \in {"idle", "logToFile"}
    BY <2>1, <1>0 DEF FileLeakOK
  <2> QED
    BY <2>1, <2>2, <2>3, FilesUntouched
<1>3. ASSUME NEW t \in Threads, LogElsewhere(t) PROVE FileLeakOK'
  <2>1. UNCHANGED <<files, inits, rules, destination, pc>>
    BY <1>3 DEF LogElsewhere, Begin, flags
  <2>2. Closers' = Closers /\ Clearers' = Clearers /\ Openers' = Openers
    BY <2>1 DEF Closers, Clearers, Openers
  <2> QED
    BY <2>1, <2>2, FilesUntouched
<1>4. ASSUME NEW t \in Threads, CloseCheck(t) PROVE FileLeakOK'
  <2>1. /\ pc[t] = "close" /\ inits # 0 /\ UNCHANGED <<logFile, openFiles, inits, rules>>
        /\ pc' = [pc EXCEPT ![t] = IF logFile = NoFile THEN "setLocking" ELSE "closeFile"]
    BY <1>4, <1>0 DEF CloseCheck, Go, At, Goto, progress, files
  <2>2. \A u \in Threads : u # t => pc[u] = "idle"
    BY <2>1, InitAlone
  <2>3. t \in Closers /\ Clearers' = {} /\ (Closers' = {} <=> logFile = NoFile)
    BY <2>1, <2>2, <1>0 DEF Closers, Clearers
  <2>4. Full' = Full
    BY <2>1 DEF Full
  <2>5. CASE logFile = NoFile
    <3>1. /\ Closers # {} /\ Closers' = {} /\ UNCHANGED openFiles
          /\ inits # 0 /\ inits' # 0 /\ logFile' = NoFile
      BY <2>1, <2>3, <2>5
    <3>2. IsFiniteSet(openFiles) /\ Cardinality(openFiles) <= Full - Cardinality(Threads) + 0
      BY <2>5, <3>1 DEF FileLeakOK
    <3>3. Full \in Int /\ Cardinality(Threads) \in Nat
      BY FullGrows
    <3>4. Cardinality(openFiles') <= Full' - Cardinality(Threads)
      BY <2>4, <3>1, <3>2, <3>3
    <3> QED
      BY <3>1, <3>2, <3>4 DEF FileLeakOK
  <2>6. CASE logFile # NoFile
    <3>1. /\ Closers # {} /\ Closers' # {} /\ UNCHANGED openFiles
          /\ inits' # 0 /\ logFile' # NoFile
      BY <2>1, <2>3, <2>6
    <3>2. IsFiniteSet(openFiles) /\ Cardinality(openFiles) <= Full - Cardinality(Threads) + 1
      BY <2>1, <2>6, <3>1 DEF FileLeakOK
    <3> QED
      BY <2>4, <3>1, <3>2, <2>1 DEF FileLeakOK
  <2> QED
    BY <2>5, <2>6
<1>5. ASSUME NEW t \in Threads, CloseOld(t) PROVE FileLeakOK'
  <2>1. /\ pc[t] = "closeFile" /\ inits # 0 /\ logFile \in openFiles
        /\ pc' = [pc EXCEPT ![t] = "clear"]
        /\ openFiles' = openFiles \ {logFile} /\ UNCHANGED <<logFile, inits, rules>>
    BY <1>5, <1>0 DEF CloseOld, Go, At, Goto, progress
  <2>2. \A u \in Threads : u # t => pc[u] = "idle"
    BY <2>1, InitAlone
  <2>3. t \in Closers /\ Closers' = {} /\ Clearers' # {}
    BY <2>1, <2>2, <1>0 DEF Closers, Clearers
  <2>4. IsFiniteSet(openFiles) /\ Cardinality(openFiles) \in Nat
    BY FS_CardinalityType DEF FileLeakOK
  <2>5. /\ IsFiniteSet(openFiles') /\ logFile # NoFile
        /\ Cardinality(openFiles') = Cardinality(openFiles) - 1
    <3>1. NoFile \notin openFiles
      BY NullAssumption DEF IInv, TypeOK
    <3> QED
      BY <2>1, <2>4, <3>1, FS_RemoveElement
  <2>6. Full' = Full /\ Full \in Int /\ Cardinality(Threads) \in Nat
    BY <2>1, FullGrows DEF Full
  <2> QED
    BY <2>1, <2>3, <2>4, <2>5, <2>6 DEF FileLeakOK
<1>6. ASSUME NEW t \in Threads, ClearFile(t) PROVE FileLeakOK'
  <2>1. /\ pc[t] = "clear" /\ inits # 0 /\ pc' = [pc EXCEPT ![t] = "setLocking"]
        /\ logFile' = NoFile /\ UNCHANGED <<openFiles, inits, rules>>
    BY <1>6, <1>0 DEF ClearFile, Go, At, Goto, progress
  <2>2. \A u \in Threads : u # t => pc[u] = "idle"
    BY <2>1, InitAlone
  <2>3. t \in Clearers /\ Closers = {} /\ Closers' = {}
    BY <2>1, <2>2, <1>0 DEF Closers, Clearers
  <2>4. Full' = Full
    BY <2>1 DEF Full
  <2> QED
    BY <2>1, <2>3, <2>4 DEF FileLeakOK
<1>7. ASSUME NEW t \in Threads, SetLocking(t) PROVE FileLeakOK'
  <2>1. UNCHANGED <<files, inits, rules>> /\ inits # 0
    BY <1>7, <1>0 DEF SetLocking, At, progress, Go
  <2>2. Closers' = Closers /\ Clearers' = Clearers /\ Openers' \subseteq Openers
    BY <1>7, <1>0 DEF SetLocking, At, Goto, Closers, Clearers, Openers, Go
  <2> QED
    BY <2>1, <2>2, FilesUntouched
<1>8. ASSUME NEW t \in Threads, SetDestination(t) PROVE FileLeakOK'
  <2>1. UNCHANGED <<files, inits, rules>> /\ inits # 0
    BY <1>8, <1>0 DEF SetDestination, At, progress, Go
  <2>2. Closers' = Closers /\ Clearers' = Clearers /\ Openers' \subseteq Openers
    BY <1>8, <1>0 DEF SetDestination, At, Goto, Closers, Clearers, Openers, Go
  <2> QED
    BY <2>1, <2>2, FilesUntouched
<1>9. ASSUME NEW t \in Threads, IfNone(t) PROVE FileLeakOK'
  <2>1. UNCHANGED <<files, inits, rules>> /\ inits # 0
    BY <1>9, <1>0 DEF IfNone, At, progress, Return
  <2>2. Closers' = Closers /\ Clearers' = Clearers /\ Openers' \subseteq Openers
    BY <1>9, <1>0 DEF IfNone, At, Goto, Closers, Clearers, Openers, Return
  <2> QED
    BY <2>1, <2>2, FilesUntouched
<1>10. ASSUME NEW t \in Threads, IfBoth(t) PROVE FileLeakOK'
  <2>1. UNCHANGED <<files, inits, rules>> /\ inits # 0
    BY <1>10, <1>0 DEF IfBoth, At, progress, Return
  <2>2. Closers' = Closers /\ Clearers' = Clearers /\ Openers' \subseteq Openers
    BY <1>10, <1>0 DEF IfBoth, At, Goto, Closers, Clearers, Openers, Return
  <2> QED
    BY <2>1, <2>2, FilesUntouched
<1>11. ASSUME NEW t \in Threads, SetName(t) PROVE FileLeakOK'
  <2>1. UNCHANGED <<files, inits, rules>> /\ inits # 0
    BY <1>11, <1>0 DEF SetName, At, progress, Go
  <2>2. Closers' = Closers /\ Clearers' = Clearers /\ Openers' \subseteq Openers
    BY <1>11, <1>0 DEF SetName, At, Goto, Closers, Clearers, Openers, Go
  <2> QED
    BY <2>1, <2>2, FilesUntouched
<1>12. ASSUME NEW t \in Threads, EmptyName(t) PROVE FileLeakOK'
  <2>1. UNCHANGED <<files, inits, rules>> /\ inits # 0
    BY <1>12, <1>0 DEF EmptyName, At, progress, Go
  <2>2. Closers' = Closers /\ Clearers' = Clearers /\ Openers' \subseteq Openers
    BY <1>12, <1>0 DEF EmptyName, At, Goto, Closers, Clearers, Openers, Go
  <2> QED
    BY <2>1, <2>2, FilesUntouched
<1>13. ASSUME NEW t \in Threads, AssignName(t) PROVE FileLeakOK'
  <2>1. UNCHANGED <<files, inits, rules>> /\ inits # 0
    BY <1>13, <1>0 DEF AssignName, At, progress, Go
  <2>2. Closers' = Closers /\ Clearers' = Clearers /\ Openers' \subseteq Openers
    BY <1>13, <1>0 DEF AssignName, At, Goto, Closers, Clearers, Openers, Go
  <2> QED
    BY <2>1, <2>2, FilesUntouched
<1>14. ASSUME NEW t \in Threads, InitLock(t) PROVE FileLeakOK'
  <2>1. UNCHANGED <<files, inits, rules>> /\ inits # 0
    BY <1>14, <1>0 DEF InitLock, At, progress, Go
  <2>2. Closers' = Closers /\ Clearers' = Clearers /\ Openers' \subseteq Openers
    BY <1>14, <1>0 DEF InitLock, At, Goto, Closers, Clearers, Openers, Go
  <2> QED
    BY <2>1, <2>2, FilesUntouched
<1>15. ASSUME NEW t \in Threads, LogToFile(t) PROVE FileLeakOK'
  <2>1. /\ UNCHANGED <<files, inits, rules, destination>> /\ pc[t] = "logToFile"
        /\ pc' = [pc EXCEPT ![t] = IF destination = "SYSTEM" THEN "idle" ELSE "openCheck"]
    BY <1>15 DEF LogToFile, Go, progress, flags, At, Goto
  <2>2. Closers' = Closers /\ Clearers' = Clearers /\ Openers' = Openers
    BY <2>1, <1>0 DEF Closers, Clearers, Openers
  <2>3. inits = 0 => \A u \in Threads : pc'[u] \in {"idle", "logToFile"}
    BY <2>1, <1>0 DEF FileLeakOK
  <2> QED
    BY <2>1, <2>2, <2>3, FilesUntouched
<1>16. ASSUME NEW t \in Threads, OpenCheck(t) PROVE FileLeakOK'
  <2>1. UNCHANGED <<files, inits, rules>> /\ pc[t] = "openCheck" /\ inits # 0
    BY <1>16, <1>0 DEF OpenCheck, ReturnTrue, Return, At, progress
  <2>2. Closers' = Closers /\ Clearers' = Clearers
    BY <1>16, <1>0 DEF OpenCheck, ReturnTrue, Return, At, Goto, Closers, Clearers
  <2>3. logFile = NoFile \/ Openers' \subseteq Openers
    BY <1>16, <1>0 DEF OpenCheck, ReturnTrue, Return, At, Goto, Openers
  <2> QED
    BY <2>1, <2>2, <2>3, FilesUntouched
<1>17. ASSUME NEW t \in Threads, NameCheck(t) PROVE FileLeakOK'
  <2>1. UNCHANGED <<files, inits, rules>> /\ inits # 0
    BY <1>17, <1>0 DEF NameCheck, At, progress, Go
  <2>2. Closers' = Closers /\ Clearers' = Clearers /\ Openers' \subseteq Openers
    BY <1>17, <1>0 DEF NameCheck, At, Goto, Closers, Clearers, Openers, Go
  <2> QED
    BY <2>1, <2>2, FilesUntouched
<1>18. ASSUME NEW t \in Threads, DefaultName(t) PROVE FileLeakOK'
  <2>1. UNCHANGED <<files, inits, rules>> /\ inits # 0
    BY <1>18, <1>0 DEF DefaultName, At, progress, Go
  <2>2. Closers' = Closers /\ Clearers' = Clearers /\ Openers' \subseteq Openers
    BY <1>18, <1>0 DEF DefaultName, At, Goto, Closers, Clearers, Openers, Go
  <2> QED
    BY <2>1, <2>2, FilesUntouched
<1>19. ASSUME NEW t \in Threads, IfFile(t) PROVE FileLeakOK'
  <2>1. UNCHANGED <<files, inits, rules>> /\ inits # 0
    BY <1>19, <1>0 DEF IfFile, At, progress, Go
  <2>2. Closers' = Closers /\ Clearers' = Clearers /\ Openers' \subseteq Openers
    BY <1>19, <1>0 DEF IfFile, At, Goto, Closers, Clearers, Openers, Go
  <2> QED
    BY <2>1, <2>2, FilesUntouched
<1>20. ASSUME NEW t \in Threads, IfFileOrBoth(t) PROVE FileLeakOK'
  <2>1. UNCHANGED <<files, inits, rules>> /\ inits # 0
    BY <1>20, <1>0 DEF IfFileOrBoth, At, progress, ReturnTrue, Return
  <2>2. Closers' = Closers /\ Clearers' = Clearers /\ Openers' \subseteq Openers
    BY <1>20, <1>0 DEF IfFileOrBoth, At, Goto, Closers, Clearers, Openers, ReturnTrue, Return
  <2> QED
    BY <2>1, <2>2, FilesUntouched
<1>21. ASSUME NEW t \in Threads, Fopen(t) PROVE FileLeakOK'
  <2>1. PICK f \in Files \ openFiles : logFile' = f /\ openFiles' = openFiles \cup {f}
    <3>1. FopenResults(t) = Files \ openFiles
      BY <1>21, CalmFopen DEF Fopen, Go, At
    <3> QED
      BY <1>21, <3>1, NullAssumption DEF Fopen
  <2>2. /\ pc[t] = "fopen" /\ inits # 0 /\ pc' = [pc EXCEPT ![t] = "opened"]
        /\ UNCHANGED <<inits, rules>>
    BY <1>21, <1>0 DEF Fopen, Go, At, Goto, progress
  <2>3. Closers = {} /\ Clearers = {}
    BY <2>2, InitAlone DEF Closers, Clearers
  <2>4. Closers' = {} /\ Clearers' = {} /\ t \in Openers /\ Openers' = Openers \ {t}
    BY <2>2, <2>3, <1>0 DEF Closers, Clearers, Openers
  <2>5. /\ IsFiniteSet(openFiles) /\ Cardinality(openFiles) \in Nat
        /\ IsFiniteSet(openFiles') /\ Cardinality(openFiles') = Cardinality(openFiles) + 1
    BY <2>1, FS_CardinalityType, FS_AddElement DEF FileLeakOK
  <2>6. Openers \in SUBSET Threads
    BY DEF Openers
  <2>7. /\ Cardinality(Openers) \in Nat /\ Cardinality(Openers) <= Cardinality(Threads)
        /\ Cardinality(Openers') = Cardinality(Openers) - 1
    BY <2>4, <2>6, OpenersFinite, FS_RemoveElement
  <2>8. Full' = Full /\ Full \in Int /\ Cardinality(Threads) \in Nat
    BY <2>2, FullGrows DEF Full
  <2>9. logFile' # NoFile
    BY <2>1, NullAssumption
  <2> QED
    BY <2>2, <2>3, <2>4, <2>5, <2>7, <2>8, <2>9 DEF FileLeakOK
<1>22. ASSUME NEW t \in Threads, Opened(t) PROVE FileLeakOK'
  <2>1. UNCHANGED <<files, inits, rules>> /\ inits # 0
    BY <1>22, <1>0 DEF Opened, At, progress, ReturnTrue, Return
  <2>2. Closers' = Closers /\ Clearers' = Clearers /\ Openers' \subseteq Openers
    BY <1>22, <1>0 DEF Opened, At, Goto, Closers, Clearers, Openers, ReturnTrue, Return
  <2> QED
    BY <2>1, <2>2, FilesUntouched
<1>23. ASSUME NEW t \in Threads, ChooseLock(t) PROVE FileLeakOK'
  <2>1. UNCHANGED <<files, inits, rules>> /\ inits # 0
    BY <1>23, <1>0 DEF ChooseLock, At, progress, Go
  <2>2. Closers' = Closers /\ Clearers' = Clearers /\ Openers' \subseteq Openers
    BY <1>23, <1>0 DEF ChooseLock, At, Goto, Closers, Clearers, Openers, Go
  <2> QED
    BY <2>1, <2>2, FilesUntouched
<1>24. ASSUME NEW t \in Threads, AcquireMutex(t) PROVE FileLeakOK'
  <2>1. UNCHANGED <<files, inits, rules>> /\ inits # 0
    BY <1>24, <1>0 DEF AcquireMutex, At, progress, Go
  <2>2. Closers' = Closers /\ Clearers' = Clearers /\ Openers' \subseteq Openers
    BY <1>24, <1>0 DEF AcquireMutex, At, Goto, Closers, Clearers, Openers, Go
  <2> QED
    BY <2>1, <2>2, FilesUntouched
<1>25. ASSUME NEW t \in Threads, LockCheck(t) PROVE FileLeakOK'
  <2>1. UNCHANGED <<files, inits, rules>> /\ inits # 0
    BY <1>25, <1>0 DEF LockCheck, At, progress, Go
  <2>2. Closers' = Closers /\ Clearers' = Clearers /\ Openers' \subseteq Openers
    BY <1>25, <1>0 DEF LockCheck, At, Goto, Closers, Clearers, Openers, Go
  <2> QED
    BY <2>1, <2>2, FilesUntouched
<1>26. ASSUME NEW t \in Threads, NewLock(t) PROVE FileLeakOK'
  <2>1. UNCHANGED <<files, inits, rules>> /\ inits # 0
    BY <1>26, <1>0 DEF NewLock, At, progress, Go
  <2>2. Closers' = Closers /\ Clearers' = Clearers /\ Openers' \subseteq Openers
    BY <1>26, <1>0 DEF NewLock, At, Goto, Closers, Clearers, Openers, Go
  <2> QED
    BY <2>1, <2>2, FilesUntouched
<1>27. ASSUME NEW t \in Threads, LockRead(t) PROVE FileLeakOK'
  <2>1. UNCHANGED <<files, inits, rules>> /\ inits # 0
    BY <1>27, <1>0 DEF LockRead, At, progress, Go
  <2>2. Closers' = Closers /\ Clearers' = Clearers /\ Openers' \subseteq Openers
    BY <1>27, <1>0 DEF LockRead, At, Goto, Closers, Clearers, Openers, Go
  <2> QED
    BY <2>1, <2>2, FilesUntouched
<1>28. ASSUME NEW t \in Threads, LockTake(t) PROVE FileLeakOK'
  <2>1. UNCHANGED <<files, inits, rules>> /\ inits # 0
    BY <1>28, <1>0 DEF LockTake, At, progress, Go
  <2>2. Closers' = Closers /\ Clearers' = Clearers /\ Openers' \subseteq Openers
    BY <1>28, <1>0 DEF LockTake, At, Goto, Closers, Clearers, Openers, Go
  <2> QED
    BY <2>1, <2>2, FilesUntouched
<1>29. ASSUME NEW t \in Threads, Write(t) PROVE FileLeakOK'
  <2>1. UNCHANGED <<files, inits, rules>> /\ inits # 0
    BY <1>29, <1>0 DEF Write, At, progress, Go
  <2>2. Closers' = Closers /\ Clearers' = Clearers /\ Openers' \subseteq Openers
    BY <1>29, <1>0 DEF Write, At, Goto, Closers, Clearers, Openers, Go
  <2> QED
    BY <2>1, <2>2, FilesUntouched
<1>30. ASSUME NEW t \in Threads, UseInvalid(t) PROVE FileLeakOK'
  <2>1. UNCHANGED <<files, inits, rules, destination, pc>>
    BY <1>30 DEF UseInvalid, flags
  <2>2. Closers' = Closers /\ Clearers' = Clearers /\ Openers' = Openers
    BY <2>1 DEF Closers, Clearers, Openers
  <2> QED
    BY <2>1, <2>2, FilesUntouched
<1>31. ASSUME NEW t \in Threads, Unlock(t) PROVE FileLeakOK'
  <2>1. UNCHANGED <<files, inits, rules>> /\ inits # 0
    BY <1>31, <1>0 DEF Unlock, At, progress, Go
  <2>2. Closers' = Closers /\ Clearers' = Clearers /\ Openers' \subseteq Openers
    BY <1>31, <1>0 DEF Unlock, At, Goto, Closers, Clearers, Openers, Go
  <2> QED
    BY <2>1, <2>2, FilesUntouched
<1>32. ASSUME NEW t \in Threads, UnlockForeign(t) PROVE FileLeakOK'
  <2>1. UNCHANGED <<files, inits, rules>> /\ inits # 0
    BY <1>32, <1>0 DEF UnlockForeign, At, progress, Go
  <2>2. Closers' = Closers /\ Clearers' = Clearers /\ Openers' \subseteq Openers
    BY <1>32, <1>0 DEF UnlockForeign, At, Goto, Closers, Clearers, Openers, Go
  <2> QED
    BY <2>1, <2>2, FilesUntouched
<1>33. CASE UNCHANGED vars
  <2>1. UNCHANGED <<files, inits, rules, destination, pc>>
    BY <1>33 DEF vars, files
  <2>2. Closers' = Closers /\ Clearers' = Clearers /\ Openers' = Openers
    BY <2>1 DEF Closers, Clearers, Openers
  <2> QED
    BY <2>1, <2>2, FilesUntouched
<1> QED
  BY <1>1, <1>2, <1>3, <1>4, <1>5, <1>6, <1>7, <1>8, <1>9, <1>10,
     <1>11, <1>12, <1>13, <1>14, <1>15, <1>16, <1>17, <1>18, <1>19, <1>20,
     <1>21, <1>22, <1>23, <1>24, <1>25, <1>26, <1>27, <1>28, <1>29, <1>30,
     <1>31, <1>32, <1>33
     DEF Next, Step

\* Not more FILE objects are open than one, and one for each call of InitLogging
\* and each other thread: the leak of the unguarded fopen is bounded.
THEOREM FileLeakIsSmall == Spec => []FileLeakBounded
<1>1. Init => FileLeakOK
  BY FS_EmptySet DEF Init, FileLeakOK
<1>2. IInv /\ FileLeakOK => FileLeakBounded
  <2> SUFFICES ASSUME IInv, FileLeakOK, Calm PROVE FileLeakBounded
    BY DEF FileLeakBounded
  <2>1. Full \in Int /\ Cardinality(Threads) \in Nat /\ inits \in Nat
    BY FullGrows
  <2>2. Cardinality(openFiles) \in Nat
    BY FS_CardinalityType DEF FileLeakOK
  <2>3. Openers \in SUBSET Threads
    BY DEF Openers
  <2>4. Cardinality(Openers) \in Nat
    BY <2>3, OpenersFinite
  <2>5. Closers # {} => Cardinality(Threads) > 0
    BY <2>1, ThreadsAssumption, FS_EmptySet DEF Closers
  <2>6. Cardinality({}) = 0
    BY FS_EmptySet
  <2>7. inits # 0 => Cardinality(openFiles) <= Full
    BY <2>1, <2>2, <2>4, <2>5 DEF FileLeakOK
  <2>8. inits = 0 => Full = 1 /\ Cardinality(openFiles) = 0
    <3>1. inits = 0 => Full = 1
      BY <2>1 DEF Full
    <3> QED
      BY <2>6, <3>1 DEF FileLeakOK
  <2> QED
    BY <2>1, <2>2, <2>7, <2>8 DEF FileLeakBounded, Full
<1> QED
  BY Invariance, <1>1, <1>2, NextFileLeakOK, PTL DEF Spec
-----------------------------------------------------------------------------
(***************************************************************************)
(* The threads as clients of a lock: of log_mutex or of any LockImpl.  In  *)
(* the prepared programs all they do to it is what AbstractLock lets the   *)
(* clients of lock_impl.h do, which is what LockImplPosix and LockImplWin  *)
(* are shown to rely on and to provide.                                    *)
(***************************************************************************)
Blocked == {"mutex", "lockWait"}

\* The threads that wait for l.
Waiting(l) ==
    {t \in Threads : \/ l = LogMutex /\ pc[t] = "mutex"
                     \/ l # LogMutex /\ pc[t] = "lockWait" /\ target[t] = l}

UsesLock(l) == INSTANCE AbstractLock WITH holder <- owner[l], waiting <- Waiting(l)

\* A step that neither begins nor ends at a lock.
Elsewhere(t) ==
    /\ UNCHANGED <<owner, target>>
    /\ \/ pc' = pc
       \/ pc[t] \notin Blocked /\ \E to \in Labels \ Blocked : pc' = [pc EXCEPT ![t] = to]

LEMMA StepsElsewhere ==
  ASSUME TypeOK, NEW t \in Threads,
         \/ \E c \in rules.configs : InitLogging(t, c)
         \/ Log(t) \/ LogElsewhere(t)
         \/ CloseCheck(t) \/ CloseOld(t) \/ ClearFile(t) \/ SetLocking(t)
         \/ SetDestination(t) \/ IfNone(t) \/ IfBoth(t)
         \/ SetName(t) \/ EmptyName(t) \/ AssignName(t) \/ InitLock(t)
         \/ LogToFile(t) \/ OpenCheck(t) \/ NameCheck(t) \/ DefaultName(t)
         \/ IfFile(t) \/ IfFileOrBoth(t) \/ Fopen(t) \/ Opened(t)
         \/ LockCheck(t) \/ NewLock(t) \/ Write(t) \/ UseInvalid(t)
  PROVE  Elsewhere(t)
<1> USE LabelsKnown DEF Elsewhere, Blocked
<1>1. CASE \E c \in rules.configs : InitLogging(t, c)
  BY <1>1 DEF InitLogging, At, Goto
<1>2. CASE Log(t)
  BY <1>2 DEF Log, Begin, At, Goto
<1>3. CASE LogElsewhere(t)
  BY <1>3 DEF LogElsewhere, Begin
<1>4. CASE CloseCheck(t)
  BY <1>4 DEF CloseCheck, Go, At, Goto
<1>5. CASE CloseOld(t)
  BY <1>5 DEF CloseOld, Go, At, Goto
<1>6. CASE ClearFile(t)
  BY <1>6 DEF ClearFile, Go, At, Goto
<1>7. CASE SetLocking(t)
  BY <1>7 DEF SetLocking, Go, At, Goto
<1>8. CASE SetDestination(t)
  BY <1>8 DEF SetDestination, Go, At, Goto
<1>9. CASE IfNone(t)
  BY <1>9 DEF IfNone, Return, At, Goto
<1>10. CASE IfBoth(t)
  BY <1>10 DEF IfBoth, Return, At, Goto
<1>11. CASE SetName(t)
  BY <1>11 DEF SetName, Go, At, Goto
<1>12. CASE EmptyName(t)
  BY <1>12 DEF EmptyName, Go, At, Goto
<1>13. CASE AssignName(t)
  BY <1>13 DEF AssignName, Go, At, Goto
<1>14. CASE InitLock(t)
  BY <1>14 DEF InitLock, Go, At, Goto
<1>15. CASE LogToFile(t)
  BY <1>15 DEF LogToFile, Go, At, Goto
<1>16. CASE OpenCheck(t)
  BY <1>16 DEF OpenCheck, ReturnTrue, Return, At, Goto
<1>17. CASE NameCheck(t)
  BY <1>17 DEF NameCheck, Go, At, Goto
<1>18. CASE DefaultName(t)
  BY <1>18 DEF DefaultName, Go, At, Goto
<1>19. CASE IfFile(t)
  BY <1>19 DEF IfFile, Go, At, Goto
<1>20. CASE IfFileOrBoth(t)
  BY <1>20 DEF IfFileOrBoth, ReturnTrue, Return, At, Goto
<1>21. CASE Fopen(t)
  BY <1>21 DEF Fopen, Go, At, Goto
<1>22. CASE Opened(t)
  BY <1>22 DEF Opened, ReturnTrue, Return, At, Goto
<1>23. CASE LockCheck(t)
  BY <1>23 DEF LockCheck, Go, At, Goto
<1>24. CASE NewLock(t)
  BY <1>24 DEF NewLock, Go, At, Goto
<1>25. CASE Write(t)
  BY <1>25 DEF Write, Go, At, Goto
<1>26. CASE UseInvalid(t)
  BY <1>26 DEF UseInvalid
<1> QED
  BY <1>1, <1>2, <1>3, <1>4, <1>5, <1>6, <1>7, <1>8, <1>9, <1>10,
     <1>11, <1>12, <1>13, <1>14, <1>15, <1>16, <1>17, <1>18, <1>19, <1>20,
     <1>21, <1>22, <1>23, <1>24, <1>25, <1>26

\* ... is nothing to any lock.
LEMMA ElsewhereStutters ==
  ASSUME TypeOK, NEW t \in Threads, Elsewhere(t), NEW l \in Locks \cup {LogMutex}
  PROVE  UNCHANGED <<owner[l], Waiting(l)>>
<1>1. CASE pc' = pc
  BY <1>1 DEF Elsewhere, Waiting
<1>2. CASE pc' # pc
  <2>1. PICK to \in Labels \ Blocked : pc[t] \notin Blocked /\ pc' = [pc EXCEPT ![t] = to]
    BY <1>2 DEF Elsewhere
  <2>2. \A u \in Threads : pc[u] \in Blocked \/ pc'[u] \in Blocked => pc'[u] = pc[u]
    BY <2>1 DEF TypeOK
  <2> QED
    BY <2>2 DEF Elsewhere, Waiting, Blocked
<1> QED
  BY <1>1, <1>2

\* In a prepared program, who has a lock is writing, and waits for none.
LEMMA HolderWrites ==
  ASSUME IInv, Prepared, NEW t \in Threads, NEW l \in Locks \cup {LogMutex}, owner[l] = t
  PROVE  pc[t] \in Writing /\ l = ToRelease
  BY DEF IInv, ReadyOK, Ready, ThreadReady

\* Every step is one of those that AbstractLock allows, or nothing to the lock.
LEMMA StepUsesLock ==
  ASSUME IInv, Prepared, NEW t \in Threads, NEW l \in Locks \cup {LogMutex}, Step(t)
  PROVE  UsesLock(l)!Next \/ UNCHANGED <<owner[l], Waiting(l)>>
<1> USE NullAssumption DEF IInv, TypeOK
<1>1. CASE ChooseLock(t)
  <2>1. /\ pc[t] = "chooseLock" /\ UNCHANGED <<owner, target>>
        /\ pc' = [pc EXCEPT ![t] = IF lockLogFile = "LOCK" THEN "mutex" ELSE "lockCheck"]
    BY <1>1 DEF ChooseLock, Go, At, Goto
  <2>2. CASE lockLogFile = "LOCK" /\ l = LogMutex
    <3>1. t \notin Waiting(l) /\ Waiting(l)' = Waiting(l) \cup {t}
      BY <2>1, <2>2 DEF Waiting
    <3>2. owner[l] # t
      BY <2>1, HolderWrites DEF Writing
    <3> QED
      BY <2>1, <3>1, <3>2 DEF UsesLock!Next, UsesLock!Request
  <2>3. CASE ~(lockLogFile = "LOCK" /\ l = LogMutex)
    BY <2>1, <2>3 DEF Waiting
  <2> QED
    BY <2>2, <2>3
<1>2. CASE AcquireMutex(t)
  <2>1. /\ pc[t] = "mutex" /\ pc' = [pc EXCEPT ![t] = "write"]
        /\ owner[LogMutex] = NoThread /\ owner' = [owner EXCEPT ![LogMutex] = t]
        /\ target' = [target EXCEPT ![t] = LogMutex]
    BY <1>2 DEF AcquireMutex, Go, At, Goto
  <2>2. CASE l = LogMutex
    <3>1. t \in Waiting(l) /\ Waiting(l)' = Waiting(l) \ {t}
      BY <2>1, <2>2 DEF Waiting
    <3> QED
      BY <2>1, <2>2, <3>1 DEF UsesLock!Next, UsesLock!Grant
  <2>3. CASE l # LogMutex
    BY <2>1, <2>3 DEF Waiting
  <2> QED
    BY <2>2, <2>3
<1>3. CASE LockRead(t)
  <2>1. /\ pc[t] = "lockRead" /\ pc' = [pc EXCEPT ![t] = "lockWait"] /\ UNCHANGED owner
        /\ target' = [target EXCEPT ![t] = logLock]
    BY <1>3 DEF LockRead, Go, At, Goto
  <2>2. CASE l = logLock
    <3>1. l # LogMutex
      BY <2>2
    <3>2. t \notin Waiting(l) /\ Waiting(l)' = Waiting(l) \cup {t}
      BY <2>1, <2>2, <3>1 DEF Waiting
    <3>3. owner[l] # t
      BY <2>1, HolderWrites DEF Writing
    <3> QED
      BY <2>1, <3>2, <3>3 DEF UsesLock!Next, UsesLock!Request
  <2>3. CASE l # logLock
    BY <2>1, <2>3 DEF Waiting
  <2> QED
    BY <2>2, <2>3
<1>4. CASE LockTake(t)
  <2>1. /\ pc[t] = "lockWait" /\ pc' = [pc EXCEPT ![t] = "write"] /\ UNCHANGED target
        /\ owner[target[t]] = NoThread /\ owner' = [owner EXCEPT ![target[t]] = t]
    BY <1>4 DEF LockTake, Go, At, Goto
  <2>2. target[t] \in Locks
    BY <2>1 DEF PhaseOK
  <2>3. CASE l = target[t]
    <3>1. l # LogMutex
      BY <2>2, <2>3
    <3>2. t \in Waiting(l) /\ Waiting(l)' = Waiting(l) \ {t}
      BY <2>1, <2>3, <3>1 DEF Waiting
    <3> QED
      BY <2>1, <2>3, <3>2 DEF UsesLock!Next, UsesLock!Grant
  <2>4. CASE l # target[t]
    BY <2>1, <2>4 DEF Waiting
  <2> QED
    BY <2>3, <2>4
<1>5. CASE Unlock(t) \/ UnlockForeign(t)
  <2>1. /\ pc[t] = "unlock" /\ pc' = [pc EXCEPT ![t] = "idle"]
        /\ target' = [target EXCEPT ![t] = NoLock]
    BY <1>5 DEF Unlock, UnlockForeign, Go, At, Goto
  <2>2. ToRelease \in Locks \cup {LogMutex} /\ owner[ToRelease] = t
    BY <2>1 DEF ReadyOK, Ready, ThreadReady, Writing
  <2>3. owner' = [owner EXCEPT ![ToRelease] = NoThread]
    BY <1>5, <2>2 DEF Unlock, UnlockForeign
  <2>4. Waiting(l)' = Waiting(l)
    BY <2>1 DEF Waiting
  <2>5. CASE l = ToRelease
    BY <2>2, <2>3, <2>4, <2>5 DEF UsesLock!Next, UsesLock!Release
  <2>6. CASE l # ToRelease
    BY <2>2, <2>3, <2>4, <2>6
  <2> QED
    BY <2>5, <2>6
<1> QED
  BY <1>1, <1>2, <1>3, <1>4, <1>5, StepsElsewhere, ElsewhereStutters DEF Step

\* The threads of a prepared program keep the contract of lock_impl.h with log_mutex and
\* with every LockImpl: none asks for a lock that it has or has asked for, none is let
\* in while another has it, and none releases a lock that it does not have.
THEOREM LocksUsedAsPromised ==
  ASSUME NEW l \in Locks \cup {LogMutex}
  PROVE  Spec /\ Prepared => UsesLock(l)!Safety
<1>1. Init => UsesLock(l)!Init
  BY DEF Init, UsesLock!Init, Waiting
<1>2. Prepared /\ [Next]_vars => Prepared'
  BY RulesRigid DEF Prepared
<1>3. IInv /\ Prepared /\ [Next]_vars => [UsesLock(l)!Next]_(UsesLock(l)!vars)
  <2> SUFFICES ASSUME IInv, Prepared, [Next]_vars
               PROVE  UsesLock(l)!Next \/ UNCHANGED <<owner[l], Waiting(l)>>
    BY DEF UsesLock!vars
  <2>1. CASE UNCHANGED vars
    BY <2>1 DEF vars, Waiting
  <2>2. ASSUME NEW t \in Threads, \/ \E c \in rules.configs : InitLogging(t, c)
                                 \/ Log(t) \/ LogElsewhere(t)
        PROVE  UNCHANGED <<owner[l], Waiting(l)>>
    BY <2>2, StepsElsewhere, ElsewhereStutters DEF IInv
  <2>3. ASSUME NEW t \in Threads, Step(t)
        PROVE  UsesLock(l)!Next \/ UNCHANGED <<owner[l], Waiting(l)>>
    BY <2>3, StepUsesLock
  <2> QED
    BY <2>1, <2>2, <2>3 DEF Next
<1> QED
  BY <1>1, <1>2, <1>3, Invariance, PTL DEF Spec, UsesLock!Safety
\* Who waits for a lock that is taken waits for a thread that waits for none: it is
\* between lock and unlock, and that very lock is the one that it will give back.
WaitsForWriter ==
    \A l \in Locks \cup {LogMutex} : \A t \in Waiting(l) :
      owner[l] # NoThread =>
          /\ owner[l] \in Threads \ {t} /\ pc[owner[l]] \in Writing
          /\ l = ToRelease

\* No deadlock, of any number of threads: the chains of waiting have one link.
THEOREM NobodyWaitsInVain == Spec /\ Prepared => []WaitsForWriter
<1>1. Prepared /\ [Next]_vars => Prepared'
  BY RulesRigid DEF Prepared
<1>2. IInv /\ Prepared => WaitsForWriter
  <2> SUFFICES ASSUME IInv, Prepared, NEW l \in Locks \cup {LogMutex}, NEW t \in Waiting(l),
                      owner[l] # NoThread
               PROVE  /\ owner[l] \in Threads \ {t} /\ pc[owner[l]] \in Writing
                      /\ l = ToRelease
    BY DEF WaitsForWriter
  <2>1. owner[l] \in Threads
    BY DEF IInv, TypeOK
  <2>2. pc[owner[l]] \in Writing /\ l = ToRelease
    BY <2>1, HolderWrites
  <2>3. pc[t] \notin Writing
    BY DEF Waiting, Writing
  <2> QED
    BY <2>1, <2>2, <2>3
<1> QED
  BY <1>1, <1>2, Invariance, PTL DEF Spec

\* `new LockImpl` finds an object in every program: with as many of them as threads the
\* bound of the model never makes a thread wait that the code would not.
THEOREM LocksSuffice ==
  ASSUME IsFiniteSet(Locks), Cardinality(Locks) >= Cardinality(Threads)
  PROVE  Spec => []((\E t \in Threads : pc[t] = "newLock") => Locks \ allocated # {})
<1>1. IInv => ((\E t \in Threads : pc[t] = "newLock") => Locks \ allocated # {})
  <2> SUFFICES ASSUME IInv, NEW t \in Threads, pc[t] = "newLock", Locks \ allocated = {}
               PROVE  FALSE
    OBVIOUS
  <2>1. allocated = Locks
    BY DEF IInv, TypeOK
  <2>2. t \in Makers /\ Makers \subseteq Threads
    BY DEF Makers
  <2>3. IsFiniteSet(Makers)
    BY <2>2, ThreadsAssumption, FS_Subset
  <2>4. Cardinality(Makers) \in Nat /\ Cardinality(Makers) # 0
    BY <2>2, <2>3, FS_CardinalityType, FS_EmptySet
  <2>5. Cardinality(Locks) + Cardinality(Makers) <= Cardinality(Threads)
    BY <2>1 DEF IInv, LeakOK
  <2>6. Cardinality(Locks) \in Nat /\ Cardinality(Threads) \in Nat
    BY ThreadsAssumption, FS_CardinalityType
  <2> QED
    BY <2>4, <2>5, <2>6
<1> QED
  BY <1>1, Invariance, PTL
-----------------------------------------------------------------------------
\* How many steps the call of a thread has left at most.
LabelRank ==
    [idle |-> 0, unlock |-> 1, write |-> 2, mutex |-> 3, lockWait |-> 3, lockRead |-> 4,
     newLock |-> 5, lockCheck |-> 6, chooseLock |-> 7, opened |-> 8, fopen |-> 9,
     ifFileOrBoth |-> 10, ifFile |-> 11, defaultName |-> 12, nameCheck |-> 13,
     openCheck |-> 14, logToFile |-> 15, initLock |-> 16, assignName |-> 17,
     emptyName |-> 18, setName |-> 19, ifBoth |-> 20, ifNone |-> 21,
     setDestination |-> 22, setLocking |-> 23, clear |-> 24, closeFile |-> 25, close |-> 26]
Rank(t) == IF pc[t] = "newLock" /\ call[t] # NoCall THEN 15 ELSE LabelRank[pc[t]]

\* A step of a thread inside a call leaves its own call fewer steps and the calls of the
\* others as they were.
CallsAdvance ==
    \A t \in Threads : Step(t) =>
        \/ crashed'
        \/ Rank(t)' < Rank(t) /\ \A u \in Threads \ {t} : Rank(u)' = Rank(u)

\* A call that goes on goes forward, in whatever program: no interleaving sends a thread
\* back, so that a call of the module takes 26 steps of its thread at most.
THEOREM CallsShrink == Spec => [](\A t \in Threads : Rank(t) \in 0..26) /\ [][CallsAdvance]_vars
<1> USE DEF LabelRank, Rank
<1>1. IInv => \A t \in Threads : Rank(t) \in 0..26
  <2> SUFFICES ASSUME IInv, NEW t \in Threads PROVE Rank(t) \in 0..26
    OBVIOUS
  <2>1. pc[t] \in Labels
    BY DEF IInv, TypeOK
  <2> QED
    BY <2>1 DEF Labels, InitLabels, OpenLabels
<1>2. ASSUME IInv, NEW t \in Threads, Step(t), ~crashed'
      PROVE  Rank(t)' < Rank(t) /\ \A u \in Threads \ {t} : Rank(u)' = Rank(u)
  <2> DEFINE Done == Rank(t)' < Rank(t) /\ \A u \in Threads \ {t} : Rank(u)' = Rank(u)
  <2> USE <1>2 DEF IInv, TypeOK, At, Goto
  <2>1. CASE CloseCheck(t) \/ CloseOld(t) \/ ClearFile(t) \/ SetLocking(t)
             \/ SetDestination(t) \/ SetName(t) \/ EmptyName(t) \/ AssignName(t)
    BY <2>1 DEF CloseCheck, CloseOld, ClearFile, SetLocking, SetDestination, SetName,
                EmptyName, AssignName, Go, progress
  <2>2. CASE IfNone(t) \/ IfBoth(t)
    BY <2>2 DEF IfNone, IfBoth, Return, progress
  <2>3. CASE InitLock(t)
    <3>1. call[t] # NoCall
      BY <2>3 DEF InitLock, Go, CallOK, InitLabels
    <3> QED
      BY <2>3, <3>1 DEF InitLock, Go, progress
  <2>4. CASE OpenCheck(t)
    BY <2>4 DEF OpenCheck, ReturnTrue, Return, progress
  <2>5. CASE IfFileOrBoth(t)
    BY <2>5 DEF IfFileOrBoth, ReturnTrue, Return, progress
  <2>6. CASE LogToFile(t) \/ NameCheck(t) \/ DefaultName(t) \/ IfFile(t) \/ Fopen(t)
    BY <2>6 DEF LogToFile, NameCheck, DefaultName, IfFile, Fopen, Go, progress
  <2>7. CASE Opened(t)
    BY <2>7 DEF Opened, ReturnTrue, Return, progress
  <2>8. CASE ChooseLock(t)
    BY <2>8 DEF ChooseLock, Go, progress
  <2>9. CASE AcquireMutex(t)
    BY <2>9 DEF AcquireMutex, Go, progress
  <2>10. CASE LockCheck(t)
    <3>1. call[t] = NoCall
      BY <2>10 DEF LockCheck, Go, CallOK, InitLabels, OpenLabels
    <3> QED
      BY <2>10, <3>1 DEF LockCheck, Go, progress
  <2>11. CASE NewLock(t)
    BY <2>11 DEF NewLock, Go, progress
  <2>12. CASE LockRead(t)
    BY <2>12 DEF LockRead, Go, progress
  <2>13. CASE LockTake(t)
    BY <2>13 DEF LockTake, Go, progress
  <2>14. CASE Write(t)
    BY <2>14 DEF Write, Go, progress
  <2>15. CASE Unlock(t) \/ UnlockForeign(t)
    BY <2>15 DEF Unlock, UnlockForeign, Go, progress
  <2>16. CASE UseInvalid(t)
    BY <2>16 DEF UseInvalid
  <2> QED
    BY <2>1, <2>2, <2>3, <2>4, <2>5, <2>6, <2>7, <2>8, <2>9, <2>10, <2>11, <2>12, <2>13,
       <2>14, <2>15, <2>16 DEF Step
<1>3. IInv /\ [Next]_vars => [CallsAdvance]_vars
  BY <1>2 DEF CallsAdvance
<1> QED
  BY Invariance, <1>1, <1>3, PTL DEF Spec
=============================================================================
