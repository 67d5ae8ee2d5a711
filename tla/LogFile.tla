-------------------------------- MODULE LogFile --------------------------------
(***************************************************************************)
(* The log files of several processes (base/logging.cc): InitLogging for   *)
(* the file destination, the lazy InitializeLogFileHandle of the first     *)
(* message, the mutex and the write of ~LogMessage, on Windows and POSIX.  *)
(* Processes die at any step and start again.  The threads of one process  *)
(* are the matter of LogThreads; here each process logs from one.          *)
(*                                                                         *)
(* On Windows log_mutex is a named mutex that processes share and the      *)
(* write is SetFilePointer and WriteFile; on POSIX log_mutex belongs to    *)
(* the process, so that it is invisible here, and fprintf fills a buffer   *)
(* that stdio empties when it likes to.  A message is its two halves.      *)
(***************************************************************************)
EXTENDS Integers, Sequences

CONSTANTS
    Processes,   \* the processes that log
    Names,       \* the names of log files
    Default,     \* debug.log, the name if InitLogging gave none
    NoProcess, NoName,
    Rules,       \* the rules that programs may keep, see rules
    BufferSize,  \* halves of messages that the buffer of a FILE holds
    MaxMessages, \* bound on the messages of each process
    MaxCrashes   \* bound on the processes that die

Lockings == {"LOCK", "DONT_LOCK"}

ASSUME NameAssumption ==
    Default \in Names /\ NoName \notin Names /\ NoProcess \notin Processes
ASSUME RulesAssumption ==
    Rules \subseteq [os : {"windows", "posix"}, lockings : SUBSET Lockings,
                     again : BOOLEAN, openFails : BOOLEAN, calls : Nat]
ASSUME BoundAssumption ==
    {BufferSize, MaxMessages, MaxCrashes} \subseteq Nat

VARIABLES
    rules,     \* the system; the lockings that the programs ask for; whether they
               \* call InitLogging after they logged; whether a file may fail to
               \* open; a bound on the calls of InitLogging of each process
    disk,      \* the contents of each file
    owner,     \* who owns the mutex of each name (Windows)
    name,      \* log_file_name of each process
    file,      \* the name under which its log_file was opened, or NoName
    stale,     \* the processes whose file has been unlinked since (POSIX)
    since,     \* the first message that went to this log_file
    locking,   \* lock_log_file
    mutex,     \* the name for which log_mutex was made, or NoName (Windows)
    buffer,    \* what the FILE has not written yet (POSIX)
    position,  \* the file pointer (Windows)
    pc,        \* what the process is about to do
    sent,      \* messages it has started
    inits,     \* its calls of InitLogging
    crashes    \* processes that died so far

vars == <<rules, disk, owner, name, file, stale, since, locking, mutex, buffer,
          position, pc, sent, inits, crashes>>

\* The globals of logging.cc, what the system keeps for a process, the counters.
globals == <<name, locking, mutex>>
handle  == <<file, stale, since>>
counts  == <<sent, inits, crashes, rules>>

Windows == rules.os = "windows"
Labels  == {"idle", "delete", "open", "reopen", "lock", "seek", "write", "unlock"}

At(p, label)   == pc[p] = label
Goto(p, label) == pc' = [pc EXCEPT ![p] = label]

\* The halves of the n-th message of p, as they go to a file.
Half(p, n, h) == [from |-> p, number |-> n, half |-> h]
Halves(p, n)  == <<Half(p, n, 1), Half(p, n, 2)>>
HalfSet       == [from : Processes, number : Nat, half : 1..2]

Init ==
    /\ rules \in Rules
    /\ disk = [n \in Names |-> << >>] /\ owner = [n \in Names |-> NoProcess]
    /\ name = [p \in Processes |-> NoName] /\ file = [p \in Processes |-> NoName]
    /\ stale = {} /\ since = [p \in Processes |-> 0]
    /\ locking = [p \in Processes |-> "LOCK"] /\ mutex = [p \in Processes |-> NoName]
    /\ buffer = [p \in Processes |-> << >>] /\ position = [p \in Processes |-> 0]
    /\ pc = [p \in Processes |-> "idle"]
    /\ sent = [p \in Processes |-> 0] /\ inits = [p \in Processes |-> 0]
    /\ crashes = 0
-----------------------------------------------------------------------------
\* The contents of the files when p appends s to its own; to an unlinked one nobody
\* looks.
Appended(p, s) ==
    IF file[p] = NoName \/ p \in stale THEN disk ELSE [disk EXCEPT ![file[p]] = @ \o s]

\* When InitLogging is called: before the process logs, unless the rules say again.
MayInit(p) == rules.again \/ (name[p] = NoName /\ since[p] = 0)

\* InitLogging(n, LOG_ONLY_TO_FILE, lock, del): log_file is closed, which writes the
\* rest of the buffer, and the globals are set.
InitLogging(p, n, lock, del) ==
    /\ At(p, "idle") /\ inits[p] < rules.calls /\ MayInit(p)
    /\ inits' = [inits EXCEPT ![p] = @ + 1]
    /\ disk' = Appended(p, buffer[p]) /\ buffer' = [buffer EXCEPT ![p] = << >>]
    /\ file' = [file EXCEPT ![p] = NoName]
    /\ locking' = [locking EXCEPT ![p] = lock] /\ name' = [name EXCEPT ![p] = n]
    /\ Goto(p, IF del THEN "delete" ELSE "open")
    /\ UNCHANGED <<owner, stale, since, mutex, position, sent, crashes, rules>>

\* DeleteFilePath: unlink takes the file from under those who have it open;
\* DeleteFile fails if somebody has it open, for log files are not shared for
\* deletion.
DeleteOld(p) ==
    /\ At(p, "delete") /\ Goto(p, "open")
    /\ LET users == {q \in Processes : file[q] = name[p]} \ stale
       IN  IF Windows /\ users # {} THEN UNCHANGED <<disk, stale>>
           ELSE /\ disk' = [disk EXCEPT ![name[p]] = << >>]
                /\ stale' = stale \cup users
    /\ UNCHANGED <<globals, owner, file, since, buffer, position, counts>>

\* What the opening of a log file can return: on Windows a second attempt is made
\* with .\debug.log; the programs run in their own directory, so that is Default.
OpenResults(n) ==
    {n} \cup (IF ~rules.openFails THEN {} ELSE
              IF Windows THEN {Default, NoName} ELSE {NoName})

\* log_file is what was opened; the message m is the first to go there.
OpenFile(p, n, m) ==
    /\ \E f \in OpenResults(n) : file' = [file EXCEPT ![p] = f]
    /\ stale' = stale \ {p} /\ since' = [since EXCEPT ![p] = m]
    /\ position' = [position EXCEPT ![p] = 0]

\* InitLogMutex(): the mutex is made once, for the name there is at that time.
InitLogMutex(p) ==
    mutex' = IF Windows /\ locking[p] = "LOCK" /\ mutex[p] = NoName
             THEN [mutex EXCEPT ![p] = name[p]] ELSE mutex

\* The rest of InitLogging: InitLogMutex and InitializeLogFileHandle.
Open(p) ==
    /\ At(p, "open") /\ Goto(p, "idle")
    /\ InitLogMutex(p)
    /\ OpenFile(p, name[p], sent[p] + 1)
    /\ UNCHANGED <<disk, owner, name, locking, buffer, counts>>

\* A message for the file.  Without InitLogging that is so on Windows only.
Log(p) ==
    /\ At(p, "idle") /\ sent[p] < MaxMessages
    /\ Windows \/ name[p] # NoName
    /\ sent' = [sent EXCEPT ![p] = @ + 1]
    /\ Goto(p, IF file[p] = NoName THEN "reopen" ELSE "lock")
    /\ UNCHANGED <<globals, handle, disk, owner, buffer, position, inits, crashes, rules>>

\* InitializeLogFileHandle for a message; if it fails the message is dropped.
Reopen(p) ==
    /\ At(p, "reopen")
    /\ name' = IF name[p] = NoName THEN [name EXCEPT ![p] = Default] ELSE name
    /\ OpenFile(p, name'[p], sent[p])
    /\ Goto(p, IF file'[p] = NoName THEN "idle" ELSE "lock")
    /\ UNCHANGED <<disk, owner, locking, mutex, buffer, counts>>

\* Mutant: the mutex is not waited for.
LockAnyway(p) ==
    /\ At(p, "lock") /\ Goto(p, IF Windows THEN "seek" ELSE "write")
    /\ InitLogMutex(p)
    /\ UNCHANGED <<handle, disk, owner, name, locking, buffer, position, counts>>

\* WaitForSingleObject(log_mutex, INFINITE), of which the result is not looked at:
\* the mutex of a process that died is taken like a free one.  log_lock and the
\* mutex of POSIX concern the threads of the process only.
Lock(p) ==
    /\ At(p, "lock") /\ Goto(p, IF Windows THEN "seek" ELSE "write")
    /\ InitLogMutex(p)
    /\ IF Windows /\ locking[p] = "LOCK"
       THEN /\ owner[mutex'[p]] \in {NoProcess, p}
            /\ owner' = [owner EXCEPT ![mutex'[p]] = p]
       ELSE UNCHANGED owner
    /\ UNCHANGED <<handle, disk, name, locking, buffer, position, counts>>

\* Mutant: the pointer stays where the last write or the opening left it.
SeekNot(p) ==
    /\ At(p, "seek") /\ Goto(p, "write")
    /\ UNCHANGED <<globals, handle, disk, owner, buffer, position, counts>>

\* SetFilePointer(log_file, 0, 0, SEEK_END)
Seek(p) ==
    /\ At(p, "seek") /\ Goto(p, "write")
    /\ position' = [position EXCEPT ![p] = Len(disk[file[p]])]
    /\ UNCHANGED <<globals, handle, disk, owner, buffer, counts>>

\* The sequence s with the sequence t written over it, from position i on.
WriteOver(s, i, t) ==
    [j \in 1..(IF i + Len(t) > Len(s) THEN i + Len(t) ELSE Len(s)) |->
        IF j \in (i + 1)..(i + Len(t)) THEN t[j - i] ELSE s[j]]

\* WriteFile(log_file, ...)
WriteFile(p) ==
    /\ Windows /\ At(p, "write") /\ Goto(p, "unlock")
    /\ disk' = [disk EXCEPT ![file[p]] =
                   WriteOver(@, position[p], Halves(p, sent[p]))]
    /\ position' = [position EXCEPT ![p] = @ + 2]
    /\ UNCHANGED <<globals, handle, owner, buffer, counts>>

\* Mutant: the lock is kept.
UnlockLost(p) ==
    /\ At(p, "unlock") /\ Goto(p, "idle")
    /\ UNCHANGED <<globals, handle, disk, owner, buffer, position, counts>>

\* ReleaseMutex(log_mutex)
Unlock(p) ==
    /\ At(p, "unlock") /\ Goto(p, "idle")
    /\ owner' = IF locking[p] = "LOCK" THEN [owner EXCEPT ![mutex[p]] = NoProcess]
                ELSE owner
    /\ UNCHANGED <<globals, handle, disk, buffer, position, counts>>

\* fprintf(log_file, ...): the message joins the buffer.  When that overflows some of
\* it is written, at least what it cannot hold, and not by whole messages.
Fprintf(p) ==
    /\ ~Windows /\ At(p, "write") /\ Goto(p, "idle")
    /\ LET pending == buffer[p] \o Halves(p, sent[p])
       IN  \E n \in 0..Len(pending) :
              /\ IF Len(pending) <= BufferSize THEN n = 0 ELSE Len(pending) - n <= BufferSize
              /\ disk' = Appended(p, SubSeq(pending, 1, n))
              /\ buffer' = [buffer EXCEPT ![p] = SubSeq(pending, n + 1, Len(pending))]
    /\ UNCHANGED <<globals, handle, owner, position, counts>>

\* The process dies: its files are closed, its mutexes are free, its buffer is gone.
\* Another one takes its place.
Crash(p) ==
    /\ crashes < MaxCrashes /\ crashes' = crashes + 1
    /\ owner' = [n \in Names |-> IF owner[n] = p THEN NoProcess ELSE owner[n]]
    /\ file' = [file EXCEPT ![p] = NoName] /\ name' = [name EXCEPT ![p] = NoName]
    /\ stale' = stale \ {p} /\ since' = [since EXCEPT ![p] = 0]
    /\ locking' = [locking EXCEPT ![p] = "LOCK"]
    /\ mutex' = [mutex EXCEPT ![p] = NoName]
    /\ buffer' = [buffer EXCEPT ![p] = << >>]
    /\ position' = [position EXCEPT ![p] = 0] /\ inits' = [inits EXCEPT ![p] = 0]
    /\ Goto(p, "idle")
    /\ UNCHANGED <<disk, sent, rules>>

Step(p) == \/ DeleteOld(p) \/ Open(p) \/ Reopen(p) \/ Lock(p)
           \/ Seek(p) \/ WriteFile(p) \/ Unlock(p) \/ Fprintf(p)

Next ==
    \E p \in Processes :
       \/ \E n \in Names, lock \in rules.lockings, del \in BOOLEAN :
             InitLogging(p, n, lock, del)
       \/ Log(p) \/ Step(p) \/ Crash(p)

\* A process in a call goes on unless it dies.  Nobody has to log.  Each process
\* sends finitely many messages, so a mutex stays free in the end.
Fairness == \A p \in Processes : WF_vars(Step(p))

Spec == Init /\ [][Next]_vars /\ Fairness
-----------------------------------------------------------------------------
(***************************************************************************)
(* Properties.                                                             *)
(***************************************************************************)

\* The variables have their types.
TypeOK ==
    /\ rules \in Rules
    /\ disk \in [Names -> Seq(HalfSet)]
    /\ owner \in [Names -> Processes \cup {NoProcess}]
    /\ name \in [Processes -> Names \cup {NoName}]
    /\ file \in [Processes -> Names \cup {NoName}]
    /\ stale \subseteq Processes
    /\ since \in [Processes -> 0..MaxMessages + 1]
    /\ locking \in [Processes -> Lockings]
    /\ mutex \in [Processes -> Names \cup {NoName}]
    /\ buffer \in [Processes -> Seq(HalfSet)]
    /\ position \in [Processes -> Nat]
    /\ pc \in [Processes -> Labels]
    /\ sent \in [Processes -> 0..MaxMessages]
    /\ inits \in [Processes -> Nat] /\ crashes \in 0..MaxCrashes

\* "All processes writing to the log file must have their locking set for it to work
\* properly" (logging.h:123), each calls InitLogging "at the beginning", and the files
\* can be opened.
Promised ==
    Windows /\ rules.lockings \subseteq {"LOCK"} /\ ~rules.again /\ ~rules.openFails

\* Then two processes are never between the mutex and its release with the same file.
Writing(p) == pc[p] \in {"seek", "write", "unlock"}
WritersExclude ==
    Promised => \A p, q \in Processes :
                   Writing(p) /\ Writing(q) /\ file[p] = file[q] => p = q

\* On Windows the files are then what AbstractLog promises, although the pointer is
\* set and the message written in two calls, and although processes die in between.
PromisedLog == INSTANCE AbstractLog
            WITH log <- IF Promised THEN disk ELSE [n \in Names |-> << >>],
                 Numbers <- 1..MaxMessages
ImplementsLog == PromisedLog!Spec

\* What p has in its file and in its buffer.
Output(p) == disk[file[p]] \o buffer[p]

\* In s are all halves of messages m to n of p; those of p are in order, none twice.
Holds(s, p, m, n) ==
    \A k \in m..n, h \in 1..2 : \E i \in DOMAIN s : s[i] = Half(p, k, h)
Before(g, h) == g.number < h.number \/ (g.number = h.number /\ g.half < h.half)
InOrder(s, p) ==
    \A i, j \in DOMAIN s : i < j /\ s[i].from = p /\ s[j].from = p => Before(s[i], s[j])

\* Between its messages, every message of a process since it opened its file is in the
\* file or still in its buffer, in order and once; unless the file was unlinked.  On
\* POSIX whatever the programs do, for stdio appends; on Windows if the mutex is used
\* as promised.
NothingLost ==
    Promised \/ ~Windows =>
        \A p \in Processes : pc[p] = "idle" /\ file[p] # NoName /\ p \notin stale =>
            Holds(Output(p), p, since[p], sent[p]) /\ InOrder(Output(p), p)

\* Every call returns or its process dies, also when the holder of the mutex dies.
CallsReturn == \A p \in Processes : pc[p] # "idle" ~> pc[p] = "idle"

\* "the file should be locked during writes to make each log outut atomic"
\* (logging.h:117): the halves of a message are not separated.
OutputsAtomic ==
    rules.lockings \subseteq {"LOCK"} /\ ~rules.again =>
        \A n \in Names : \A i \in 1..(Len(disk[n]) - 1) :
            disk[n][i].half = 1 => disk[n][i + 1] = [disk[n][i] EXCEPT !.half = 2]
================================================================================
