# TLA+ models of chromium base, revision 4.0.210.0_p26329

This directory holds TLA+ specifications of the code under `src/base`, TLC
configurations that check them on small instances, and proofs for TLAPS. The
repository is a port of the early Chromium `base` library. What it has of its
own are the 4 000 lines of `src/base`, their unit tests and build files; the
other directories (`src/ext`, `src/third_party`, `src/testing/gtest`,
`src/base/third_party`) hold vendored code (gtest and gmock, ICU, libevent, zlib and
others), which is not modelled: it is more than nine tenths of the C++ in the tree, so a figure of
coverage over all of it says little about the models of `src/base`.

## 1. The system

| Part | State | Operations | Used by | Modules |
|---|---|---|---|---|
| `LockImpl`, POSIX | a pthread mutex | ctor, dtor, `Lock`, `Try`, `Unlock` | `Lock`, logging | `LockImplPosix` |
| `LockImpl`, Windows | a `CRITICAL_SECTION`; in debug builds owner, count, recursion flag | the same and `AssertAcquired` | `Lock`, logging | `LockImplWin` |
| `Lock` | a `LockImpl` | `Acquire`, `Release`, `Try` | programs | `LockClass` |
| logging | destination, level, filter, name and handle of the log file, lock mode, `log_mutex`, `log_lock`, handlers | `InitLogging`, the `Set...` functions, a message (`~LogMessage`) | every `DCHECK` | `LogThreads`, `LogFile`, `AbstractLog`, `LogRouting` |
| scoped handles | one handle each | ctor, dtor, `Set`, `Take`, `Close` | programs | `ScopedHandles` |
| `DebugUtil`, `PlatformThread` | none | `WaitForDebugger`, `Sleep`, stubs | logging, locks | `DebuggerWait` |
| `StringPiece` | pointer and length, no ownership | searches, `copy`, `substr`, comparisons | logging, tests | `StringPieceOps`, `StringPieceScan` |
| `string16` | none | the `c16` character loops | programs | `StringPieceOps` |
| `SysInfo` | none | queries of the system | programs | none |
| `atomicops`, `dynamic_annotations`, `string_util`, `basictypes`, `port` | none | declarations or empty functions | | none |

How they interact. A log message takes `log_mutex` (`LOCK_LOG_FILE`) or
`log_lock`, a `LockImpl`; a `LockImpl` of a debug build `DCHECK`s what pthread
returns; a failed `DCHECK` is a `LOG(FATAL)`, which ends in
`DebugUtil::BreakDebugger`. Both `BreakDebugger`s are empty. **So a failed
DCHECK logs and returns**, and every model lets the caller go on as if the call
had succeeded. `BeingDebugged` is always false.

What is hard in this code, and what makes it correct:

* Locks. Threads call in any order; clients lock twice, unlock what they do not
  hold, destroy what is held (`lock_unittest.cc` does). Correct: exclusion, no
  false alarm, nothing that matters unreported, the Windows shadow fields agree
  with the section although they are written and read one at a time.
* Logging under threads. The log file is opened before any lock is taken,
  `log_lock` is made by whoever needs it first, the unlock reads
  the globals anew, and `InitLogging` changes them one after the other without a
  lock. Correct: one writer at a time, through an open
  file, the lock that was taken is the one released, no thread hangs.
* Logging from several processes. Windows shares a named mutex and writes in two calls
  (seek to the end, write), POSIX shares nothing and appends what stdio has buffered;
  processes die in between and leave an abandoned mutex or an unwritten buffer. Correct: a
  file is a sequence of whole messages, nothing of a process that goes on is lost.
* Logging settings. `InitLogging` has an early return that skips name, deletion
  and lock. Correct: a message goes to the file asked for, errors are always
  seen, no file is emptied unasked.
* Handles. The system gives a closed value out again. Correct: one holder, one
  close, no leak.
* Loops and differences of unsigned sizes, 32-bit products, sleeps cut short by signals.

## 2. Modules

`AbstractLock` is the abstract specification: what `lock_impl.h` promises of a
lock (`holder`, `waiting`; request, grant, try, release; an available lock
that is wanted is given to somebody). `Safety` is its initial states and steps, `Spec` adds
the fairness.

`LockImplPosix` has one action per return of a pthread call. `Lock()` is two steps
(`LockCall`, then `LockReturn` or `LockDeadlock`), the other calls one.
`owner` is the mutex, `claims` what each *client* believes, which is what a
failed call that returns gets wrong. `mode` is chosen at the start and stays: `Debug` is
`!NDEBUG`, `Misuse` lets the clients break the contract. A release build has a default mutex: a recursive
`Lock()` blocks for ever, an unlock by another thread is undefined and is a choice
between "lost" and "frees the mutex".
It implements `AbstractLock` with `holder <- owner`, `waiting <- calling`; a program that
breaks the contract is promised nothing and maps to a lock that nobody uses.

`LockClass` extends it with class `Lock`. `Lock::Try` has no return
statement, so its answer is any Boolean.

`LockImplWin` splits each call at every access to a shadow field, and
`AssertAcquired` at its two reads, made without the lock. It implements
`AbstractLock` with `waiting` the threads that are entering and do not own the
section, so recursion is a stutter. Clients unlock as often as they lock.

`LogThreads` is `~LogMessage` from the choice of the destination to the unlock, and
`InitLogging`, for threads of one POSIX process, release build. Each read and each write of a
global is a step, except that the unlock, which looks at `lock_log_file` and `log_lock` again
(`ToRelease`), reads both in one. `pc` follows the source: `close`, `closeFile`, `clear`,
`setLocking`, `setDestination`, `ifNone`, `ifBoth`, `setName`, `emptyName`, `assignName`,
`initLock` are `InitLogging`; `logToFile` is the second look of `~LogMessage` at the destination;
`openCheck`, `nameCheck`, `defaultName`, `ifFile`, `ifFileOrBoth`, `fopen`, `opened` are
`InitializeLogFileHandle`, which both call (`call` says who did); `mutex` is `log_mutex`;
`lockCheck`, `newLock`, `lockRead`, `lockWait` are the lazy `log_lock`; then `write` and
`unlock`. FILE and LockImpl objects are model values. Using a FILE that is not open, or a NULL
lock, ends the process (`crashed`). Reading `*log_file_name` for `fopen` while another thread
assigns to it (`NameRace`, `logging.cc:291` and 238) is undefined: `fopen` may then fail, or the
process end. What the program does is a constant choice at the start (`rules`): with which
configurations it calls `InitLogging`; whether it does so *alone*, while others log as long as the
locking stays the same (*sameLocking*), or whenever it likes (*free*); whether `fopen` may fail.

`AbstractLog` is what `logging.h:117-137` promises of a file that several processes
write: it is a sequence of whole messages, those of one process in their order and each at most
once, and it is emptied only as a whole. A message is two halves, so that a torn one shows.

`LogFile` is the code behind it, for processes that log from one thread each: `InitLogging` for
a file (`InitLogging`, `DeleteOld`, `Open`), a message (`Log`, `Reopen` for the lazy opening,
`Lock`, then on Windows `Seek`, `WriteFile`, `Unlock`, on POSIX `Fprintf`), and `Crash`: a process
dies at any step, its mutexes become free and its buffer is gone, and a new one starts. `owner` is
the named mutex of each file name; `mutex` is the name for which a process made its own,
once. `WriteFile` is one system call and so one step: a process dies before or after it, and never
leaves part of a message on Windows. `stale` are the processes whose file was unlinked, `since` the first message that went to
the current file. `Rules` choose the system and what the programs keep to. Refinement:
`log <- disk` for programs that keep the promise (`Promised`: Windows, all with
`LOCK_LOG_FILE`, `InitLogging` before the first message, files that can be opened); other
programs map to empty logs.

`LogRouting` is the sequential side: levels, filter, handlers, the destinations of a
message and what `InitLogging` does to name, handle and files on disk. A file is
its number of lines, a message its severity and prefix. `asked` and `named` are not in the code:
what `InitLogging` was last called with, and the name that it last took over, which is an older one
after a call that returned early.

`ScopedHandles` is both scoped handle classes (`Windows` selects), clients
that pass each handle to one object, and a system that reuses values. The call whose result is
given to a constructor may fail with NULL or INVALID_HANDLE_VALUE (`CtorErrors`), so may that for
`Set`. `strays` records what was closed without being open.

`DebuggerWait` is `WaitForDebugger` calling `Sleep`, one step per test, completed
`nanosleep` or signal; `wait_seconds * 10` wraps like an `int32`.

`StringPieceOps` is what `StringPiece` does without a loop of its own, as operators: a piece is a
length and a text, a view a place and a length in a text; sums and differences wrap like
`size_type`. `std::search` and `std::find_end` are external, by what they promise. The
loops of `string16.cc` are recursive functions, one value per position of the loop. `c16len` of a
text without a 0 reads on; `Npos` stands for what it then answers, and nothing is claimed of it.

`StringPieceScan` is the loops of `find_first_of`, `find_first_not_of`,
`find_last_of`, `find_last_not_of` and, being the same loops, `find(char)` and
`rfind(char)`: a step per character, an index of type `size_type` that wraps at
`Npos`. The empty text and the empty set are answered before the loop. Its initial
states are all texts, so the properties of `StringPieceOps` are stated there.

The definitions that a comment calls a mutant are wrong on purpose and are used by no
specification; each shows that a property notices the bug it stands for.

## 3. What TLC checks

| Run | Instance | Shows |
|---|---|---|
| `posix` | 4 threads, both builds, with and without misuse, nesting 2 | `MutualExclusion`, `NoFalseAlarm` and `ImplementsLock` (safety and liveness of `AbstractLock`) with clients that keep the contract. With clients that do not: in a debug build `NoSilentLoss` (two clients are inside only after EDEADLK was reported), `OnlyHolderFrees`, `NoSelfDeadlock` (who waits for itself is released); in a release build `OnlyForeignUnlockMisleads` (belief and mutex part only when an unlock frees another's mutex) |
| `win` | 3 threads, debug, nesting 3 | `AssertExposesOthers`: `AssertAcquired` passes only for the holder, whatever its two reads interleave with. `AssertTrustsHolder`: it accuses the holder only after recursion was reported. `RecursionReported`, `ShadowIsDepth`, `ImplementsLock` |
| `log_threads` | 2 threads, 2 messages each, 2 `InitLogging`s, 5 kinds of program | `WritersExclude`, `UnlocksOwn`, `NoLockLeftHeld`, `PreparedCallsReturn` for programs that prepare their lock, `InitLogging` among running messages included; `WriterHasFile`, `FileLeakBounded` if it runs alone and `fopen` succeeds; `LockLeakBounded` for all |
| `log_file` | 2 processes, 2 files, 2 messages each, a crash, a buffer of 3 halves, 5 kinds of program | `ImplementsLog` for programs that keep the promise of `logging.h` on Windows; `NothingLost`, on Windows and POSIX; `CallsReturn` for all, also if the holder of the mutex dies |
| `routing` | 3 names, 2 messages, 2 `InitLogging`s, any `Set...` calls | `LastNameUsed`: a message goes to the file named by the last `InitLogging` that did not return early, or `debug.log` before, whatever was opened, closed and switched in between. `ErrorsAreSeen`, `FileGetsMessages` (destination FILE), `LinesOnlyDeletedOnRequest` |
| `handles` | 3 objects, 3 values; constructors and `Set` get either value of a failed call | `NothingLeaks`, `NothingClosedTwice` (beside open handles only INVALID_HANDLE_VALUE is closed), `OneHolder`, `NoStaleHandle` |
| `debugger_wait` | every 7-bit `wait_seconds`, 3 signals | `WaitsAsAsked`, `Returns` |
| `string_search` | texts of 0-4 of 3 characters, pieces of 0-2, every set and `pos`, 3-bit `size_type` | `AnswersLikeString`, `ReadsInside`, `SearchEnds`, `FindsAgree`, `ViewsStayInside`, `ComparesInOrder`, `Char16LikeChar` |

`TypeOK` is proved where a module has proofs, and checked for `DebuggerWait`, where it bounds a
32-bit counter. "Prepared" (`Prepared` in
`LogThreads`): never both destinations without file locking, and, if `InitLogging` runs while
others log, never "none" without locking either and never with another locking.

### Disagreements between the code and its comments

Four runs end in a counterexample, which TLC prints.

* `lock_try`: `Lock::Try` (`lock.h:30`) returns nothing; a client may go on without the lock
  (`TryTellsTheTruth`).
* `log_hang`: with both destinations and `DONT_LOCK_LOG_FILE`, `InitLogging` returns before it
  makes `log_lock`. In the race that follows a lock that a thread holds is replaced, the
  thread releases the new one, and a third waits for the old one for ever (`EveryCallReturns`).
  `logging.h:141` reserves the race for programs that do not call `InitLogging`, and
  speaks of a leak only.
* `routing_options`: the early return of `InitLogging` is for "none" and "both", its comment is
  about "disabled or only to system" (`logging.cc:280`). TLC prints one half of what follows: with
  the system only, a log file is deleted. The other half violates the same property
  (`FileOptionsHeeded`) and is printed if `Inits` asks for no deletion: with both destinations the
  name is ignored, and messages go to `debug.log`, or to the file of an earlier `InitLogging`.
  `LastNameUsed` says what the code does instead.
* `log_file_posix`: on POSIX `log_mutex` belongs to the process and `fprintf` writes whatever
  fills the buffer, so the messages of two processes that both set `LOCK_LOG_FILE` are torn
  (`OutputsAtomic`); `logging.h:119` promises "to make each log outut atomic" for "more than one
  process doing the logging".

Others were met while modelling and are built into the models without a run of their own:

* On Windows `log_mutex` is made once, for the file name of that time (`logging.cc:252`). After
  a second `InitLogging`, or one that follows a message to the default file, two processes that
  both lock write one file under two mutexes, where `logging.h:121` says "Other writers will
  block". So `Promised` asks for `InitLogging` first and once; without that condition (rule
  `again`) neither `WritersExclude` nor `ImplementsLog` holds.
* When the named file cannot be opened, `.\debug.log` is written under the mutex of the name
  (`logging.cc:223`), with the same effect (rule `openFails`); `Promised` asks for files that open.
* `InitLogging` while others log and with another locking (`free`) lets a message release
  what it did not take; there only `LockLeakBounded` is claimed.
* Two threads find `log_file` NULL; one opens it, `InitializeLogFileHandle` tells it that it "can
  be used for writing" (`logging.cc:177`), and the `fopen` of the other fails and stores NULL, through
  which the first writes (`logging.cc:238`). In the model the process ends there (`UseInvalid`);
  `WriterHasFile` is checked with an `fopen` that succeeds and does not hold otherwise.
* `lock_log_file` starts as `LOCK_LOG_FILE`, `logging.h:124` says otherwise.
* `LOG(FATAL)` returns, `logging.h:92` says that the program ends.
* A `ScopedHandle` constructed from a failed `CreateFile`, as in the example of its comment
  (`scoped_handle_win.h:18`), keeps INVALID_HANDLE_VALUE: only `Set` turns it into NULL. `IsValid()` is then
  TRUE, though it is there "to pick up our NULL usage for errors" (41). The model has such
  objects; its properties say that they do no harm to other handles, none that a valid
  object holds an open handle.
* `find_first_not_of` for an empty set answers 0 whatever `pos` is, where `std::string`
  answers `pos`; `AnswersLikeString` leaves that call out.

### Bounds

The locks and the log have no counters that matter beyond 2: what can go wrong needs one
holder, one that takes over and one that waits, so three threads are used where
waiting matters (`posix`, `win`, `log_hang`) and two where the races are between a pair
(`log_threads`, whose theorems cover more threads). Two messages per thread let a
lock be taken again after a release, two `InitLogging`s switch from one lock to the
other and back to the writer. `Locks` and `Files` hold enough objects that `new` and `fopen` never
run out. In `log_file` one crash is enough to leave a mutex abandoned while another waits and to
start a process anew among messages of its own; two messages of two halves overflow a
buffer of three within a message. Two files are the given one and the default.
At two threads and two `InitLogging`s the bound of `FileLeakBounded` is the number of
`Files`, so TLC can refute it only after one `InitLogging`; beyond that it is the theorem that shows it.
`MaxClaims` 2 and `MaxNest` 3 reach the first and a further recursive
acquisition. Two messages after two `InitLogging`s cover a handle that is left from the first.
Small widths (`Npos` 7, `IntMax` 63) put the wraps inside the explored range.

### Fairness

`LockImplPosix`, `LockImplWin`: a free mutex is given to *one of* the waiters (weak fairness
of the disjunction), EDEADLK is returned; no client is assumed to do anything. Nothing is said of
starvation, as POSIX does not. `LogThreads`: a thread inside a call of the module is scheduled, and gets
a lock that stays free. Weak fairness is enough since each thread sends finitely many
messages. `LogFile`: a process inside a call goes on unless it dies, and
crashes are finitely many; nobody has to log. `AbstractLog` promises no progress. `DebuggerWait`: the thread is scheduled, an uninterrupted sleep ends, signals
are finitely many. `StringPieceScan`: the code runs on.

`CHECK_DEADLOCK FALSE` is said where the model does stop: an object is destroyed, a
function has returned, the messages have run out, a release build locks itself up.

## 4. What is proved

The proofs hold for every value of the constants, under the `ASSUME`s of the modules
(NULL and nobody are none of the others, the bounds are numbers).

* `LockImplPosixProofs`: `TypeCorrect`, `Exclusive`, `NeverAccused`, `NeverSilent`,
  `HolderFrees`, `ForeignUnlockMisleads`, `ImplementsSteps` (`Spec => Promised!Safety`, the initial
  states and steps of `AbstractLock`) and `NobodyWaitsInVain`: who waits, waits for a mutex that is
  free, or that its owner is about to be refused, or whose owner is in no call and may unlock.
  The
  invariant adds three facts to `TypeOK`: the owner knows that it is inside
  (`Held`); with well-behaved clients belief and ownership are the same
  (`Disciplined`); in a debug build belief implies ownership until EDEADLK
  (`Supervised`). Exclusion alone is not inductive: a step of `Unlock` needs to know
  that the thread inside is the owner.
* `LockImplWinProofs`: `TypeCorrect`, `AssertSound`, `AssertComplete`, `RecursionNoticed`,
  `ShadowCorrect`, `ImplementsSteps` (as above). The invariant says, label by label, how
  the shadow count lags behind the depth (`ShadowOK`), that
  `owning_thread_id_` names the owner or nobody (`OwningOK`), and that before recursion is
  reported the section is entered at most twice, the second time by a call about to report
  it (`RecursionOK`).
* `LogThreadsProofs`: `TypeCorrect`, `WritersSafe`, `UnlockSafe`, `QuiescentFree`, `FileSafe`,
  `LeakIsSmall`, `FileLeakIsSmall`, `LocksUsedAsPromised`, `NobodyWaitsInVain`, `LocksSuffice`,
  `CallsShrink`. The invariant ties each label to the flags that the thread has read and
  that, by the rules of the program, nobody changes meanwhile; in a prepared program
  `log_lock` exists and a thread owns nothing but the lock it will release; if `fopen`
  succeeds and `InitLogging` runs alone, `log_file` is open from the moment a thread relies on it.
  For `LeakIsSmall`: the locks that were made and the threads about to make one are together
  never more than the threads, for once `log_lock` is set nobody starts to make another.
  For `FileLeakIsSmall`: who has passed the test of `log_file` may still open one more FILE; each
  call of `InitLogging` lets every thread do so once, and closes one itself.
  `LocksUsedAsPromised` closes the circle with the lock modules. They promise exclusion to clients
  that keep the contract of `lock_impl.h`; here the threads of a prepared program are such clients,
  of `log_mutex` and of every `LockImpl` that was ever made (`UsesLock(l)` is `AbstractLock` for one
  of them). Each half is a theorem: this one, and `ImplementsSteps` of either lock.
  `NobodyWaitsInVain`: the owner of a lock that is waited for is at `write` or `unlock`, where it
  waits for nothing, and it is this lock that it will release; so chains of waiting have one
  link. With `CallsShrink` (a step inside a call lowers the rank of its label, and no step
  changes the rank of another thread) this is the argument why `PreparedCallsReturn` holds, up to
  the fairness. `LocksSuffice`: the constant `Locks` bounds no program if it has as
  many members as there are threads.
* `LogFileProofs`: `TypeCorrect`, `WritersSafe`, `NoLoss`, `MessagesWhole`, `NobodyWaitsInVain`,
  `CallsShrink` and `Implements`, which is the whole of
  `Spec => ImplementsLog`. The invariant: in programs that keep the promise, file and mutex of a
  process have the same name, who is between `Lock` and `Unlock` owns it, and whose pointer was set
  stands at the end of the file until it writes (`PromisedOK`, on top of `HandleOK`, which says
  what is open where); so `WriteOver` at the pointer is an append. `NumbersOK` bounds the numbers
  in a file by what the process has sent, which is the order that `AbstractLog` asks for.
  `NoLoss` adds two facts: in every file the halves of a process are in order and come before
  those in its buffer, which holds only its own (`StreamOK`), and what it sent since it opened its
  file is in one of the two (`HeldOK`). A step appends a first part of what is pending and keeps the
  rest, so the proof is about order in the parts of a concatenation; what other processes write
  does not matter to it. `MessagesWhole` is drawn from the refinement: the logs of `AbstractLog` are
  pairs of halves, those of `LogFile` are its files, so no message is torn where `OutputsAtomic`
  is violated on POSIX. `NobodyWaitsInVain` is about all programs, also those that break the
  promise: who owns a mutex, under whatever name, is writing with that mutex and waits for
  no other (`HolderOK`); a process that dies owns none. `CallsShrink` as in `LogThreads`.
* `LogRoutingProofs`: `TypeCorrect`, `LastNameCorrect`, `ErrorsCorrect`, `FileCorrect`,
  `DeleteCorrect`. Name and handle are those that the last `InitLogging` to take over a name left,
  or `debug.log` and none; what it was last asked for determines the destination.
* `DebuggerWaitProofs`: `TypeCorrect`, `WaitCorrect`, `WaitShrinks`. The time that has passed is the number
  of completed polls times a nap, plus the part of the current sleep that is over. `WaitShrinks`: every test and every nap lowers the
  number of those that are left, at most 2 * `IntMax` + 1, also after the product has wrapped.
* `ScopedHandlesProofs`: `LeakFree`, `NoDoubleClose`, `HeldOnce` and `NeverStale`, for all programs
  and whatever failed calls return. The invariant: every handle of the system that an object or a
  client holds is open and has this one holder, so closing it takes it from nobody; an object whose
  constructor got INVALID_HANDLE_VALUE closes that value, which is no handle.
* `StringPieceScanProofs`: `TypeCorrect`, `ReadsSafe`, `SearchCorrect`, `ViewsSafe`,
  `FindsCorrect`, `CompareCorrect`, `Char16Correct`, `SearchShrinks`. The loop
  invariants say that the part of the text that was passed holds nothing that was looked for;
  the finds rest on the first and last element of a set of places, and on sums and differences
  that do not wrap where the code's tests let them be used.
  `CompareCorrect`: the sign of `Compare` is that of the first place where the pieces differ, or of
  the lengths; that this is an order is a case distinction on which of two first places comes first.
  `Char16Correct` is about recursive functions. A function that satisfies the equation is given
  explicitly (the first place that ends the loop, or the end), so the `CHOOSE` behind the
  recursion has one to choose; that all its choices agree at 0 follows by induction, which here
  is: if some place broke the claim, the last (for `C16Memset` the first) such place
  would not, by the equation (`Descent`, `Ascent`).
  `SearchShrinks`: an index that is counted down and compared as an unsigned number never passes 0,
  so every loop comes closer to its end; `SearchEnds` up to the fairness.

Only model-checked: what speaks of fairness (the liveness of `ImplementsLock`, `NoSelfDeadlock`,
`PreparedCallsReturn`, `CallsReturn`, `Returns`, `SearchEnds`), since the prover does not reason
about `ENABLED`. The parts of their arguments that are invariants or properties of steps are proved:
`NobodyWaitsInVain` and the theorems whose names end in `Shrink` or `Shrinks`. All other
properties of the passing runs are theorems.

## 5. What is not modelled

* Text: prefixes, time stamps, formatting, `SetLogItems`.
* `SetLogFilterPrefix` while a message is compared with the old prefix (`logging.cc:325`): what
  the reader then gets is undefined and no comment promises anything.
* The threads of a Windows process that log, and of a debug build, where a `DCHECK` inside
  `log_lock` logs again; several threads in each of several processes.
* `GENERIC_WRITE` without sharing for deletion, disks that are full, results of `WriteFile`,
  `CreateMutex` failing: nothing looks at them.
* The Windows lock's destructor, and unlocking a section that is not held.
* What becomes of what a dead process had in its stdio buffer, or what one writes to a file that another
  has unlinked: `LogFile` has both, no comment promises that such messages are kept, and
  `NothingLost` leaves them out.
* `copy` from a position past the end: `std::string` throws there, this code reads on; the
  property is about positions inside.
* `SysInfo`: each function is one system call and one expression without state. (`AmountOfPhysicalMemory`
  keeps the number of pages in an `int32`, `sys_info_posix.cc`.)
* `PlatformThread::Create`, `Join`: declared, not defined. `StackTrace`: prints nothing.
* `atomicops`, `dynamic_annotations`, `string_util`, `basictypes`, `port`: declarations, macros,
  empty functions.
* Vendored code and the test support.

## 6. Plan

Done: the locks, their abstract specification and proofs; logging as threads, as files of several
processes and as a sequence of settings, with proofs; handles, pieces, wide characters, the
wait for a debugger.

What could follow, by importance:

1. `LogThreads` for a Windows process: the handle that is INVALID_HANDLE_VALUE for a moment, and
   `InitLogMutex` in a race.
2. `LogThreads` over `LockImplPosix` in a debug build: messages from inside a lock.
3. `LockImplWin` with clients that unlock what they do not hold.
