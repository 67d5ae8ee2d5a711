------------------------------ MODULE LogRouting ------------------------------
(***************************************************************************)
(* Where a log message goes (base/logging.cc): the settings that one thread*)
(* makes between messages - InitLogging and the Set functions - and the    *)
(* decisions of ~LogMessage that depend on them: level, filter, stderr, log*)
(* file, handlers.  Each call is one step; LogThreads takes the part that  *)
(* threads share apart.  POSIX; nothing else touches the files.            *)
(*                                                                         *)
(* A message is its severity and its prefix, a file the number of its      *)
(* lines.                                                                  *)
(***************************************************************************)
EXTENDS Naturals

CONSTANTS
    Names,         \* names of log files; "debug.log" is one
    Writable,      \* those that fopen can open
    Prefixes,      \* what a message can start with
    Filters,       \* the prefixes that a filter can ask for
    NoFilter,      \* log_filter_prefix == NULL
    Levels,        \* what SetLogMinLevel is called with
    Inits,         \* the <<name, destination, delete_old>> given to InitLogging
    MaxMessages,   \* bound on the messages
    MaxInits       \* bound on the calls of InitLogging

INFO == 0   WARNING == 1   ERROR == 2   ERROR_REPORT == 3   FATAL == 4
Severities == INFO..FATAL
ToFile     == {"FILE", "BOTH"}
ToSystem   == {"SYSTEM", "BOTH"}

ASSUME NamesAssumption ==
    /\ "debug.log" \in Names /\ Writable \subseteq Names
    /\ Names \cap {"NULL", "stderr", "assert", "report"} = {}
ASSUME InitsAssumption ==
    Inits \subseteq Names \X {"NONE", "FILE", "SYSTEM", "BOTH"} \X BOOLEAN
ASSUME SettingsAssumption == Filters \subseteq Prefixes /\ Levels \subseteq Nat
ASSUME BoundAssumption == MaxMessages \in Nat /\ MaxInits \in Nat

VARIABLES
    minLevel,      \* log_min_level
    filter,        \* log_filter_prefix
    destination,   \* logging_destination
    logFileName,   \* log_file_name, "NULL" until there is one
    logFile,       \* the name under which log_file was opened, or "NULL"
    handlers,      \* which of log_assert_handler, log_report_handler are set
    lines,         \* the number of lines of each file on disk, 0 if it is empty
                   \* or absent
    asked,         \* what InitLogging was last called with
    named,         \* the name that it last took over, "debug.log" before
    last,          \* the last message and the sinks that it reached
    sent, inits    \* calls so far

vars == <<minLevel, filter, destination, logFileName, logFile, handlers, lines,
          asked, named, last, sent, inits>>

Nobody == [severity |-> INFO, level |-> INFO, sinks |-> {}]

Init ==
    /\ minLevel = INFO /\ filter = NoFilter
    /\ destination = "SYSTEM"
    /\ logFileName = "NULL" /\ logFile = "NULL"
    /\ handlers = {}
    /\ lines = [n \in Names |-> IF n \in Writable THEN 1 ELSE 0]  \* of earlier runs
    /\ asked = <<"NULL", "SYSTEM", FALSE>> /\ named = "debug.log"
    /\ last = Nobody
    /\ sent = 0 /\ inits = 0
-----------------------------------------------------------------------------
SetLogMinLevel ==
    /\ minLevel' \in Levels
    /\ UNCHANGED <<filter, destination, logFileName, logFile, handlers, lines, asked,
                   named, last, sent, inits>>

SetLogFilterPrefix ==
    /\ filter' \in Filters \cup {NoFilter}
    /\ UNCHANGED <<minLevel, destination, logFileName, logFile, handlers, lines, asked,
                   named, last, sent, inits>>

\* SetLogAssertHandler, SetReportHandlerFunction; NULL takes a handler back.
SetHandler ==
    /\ \E h \in {"assert", "report"} : handlers' \in {handlers \cup {h}, handlers \ {h}}
    /\ UNCHANGED <<minLevel, filter, destination, logFileName, logFile, lines, asked,
                   named, last, sent, inits>>

\* The state of the log file: its pointer, its name and the files on disk.
FileState == [file : Writable \cup {"NULL"}, name : Names \cup {"NULL"},
              disk : [Names -> Nat]]

\* Mutants: the default name is always used; fopen(name, "w").
OpenDefault(fs, dest) ==
    IF fs.file = "NULL" /\ dest \in ToFile
    THEN [fs EXCEPT !.file = "debug.log", !.name = "debug.log"] ELSE fs
OpenTruncating(fs, dest) ==
    LET name == IF fs.name = "NULL" THEN "debug.log" ELSE fs.name
    IN  IF fs.file # "NULL" THEN fs
        ELSE IF dest \in ToFile /\ name \in Writable
             THEN [file |-> name, name |-> name, disk |-> [fs.disk EXCEPT ![name] = 0]]
             ELSE [fs EXCEPT !.name = name]

\* InitializeLogFileHandle: a default name if there is none, then
\* fopen(name, "a"), which keeps what is there.
InitializeLogFileHandle(fs, dest) ==
    LET name == IF fs.name = "NULL" THEN "debug.log" ELSE fs.name
    IN  IF fs.file # "NULL" THEN fs
        ELSE IF dest \in ToFile /\ name \in Writable
             THEN [fs EXCEPT !.file = name, !.name = name]
             ELSE [fs EXCEPT !.name = name]

\* Mutant: the old file stays open.
ClosedNot(fs) == fs

\* if (log_file) { CloseFile(log_file); log_file = NULL; }
Closed(fs) == [fs EXCEPT !.file = "NULL"]

FileNow == [file |-> logFile, name |-> logFileName, disk |-> lines]
Becomes(fs) == logFile' = fs.file /\ logFileName' = fs.name /\ lines' = fs.disk

\* InitLogging.  The test for the early return is for LOG_NONE and for both
\* destinations; an existing file is deleted for the other two.
InitLogging(name, dest, delete) ==
    /\ inits < MaxInits /\ inits' = inits + 1
    /\ destination' = dest
    /\ asked' = <<name, dest, delete>>
    /\ LET old   == Closed(FileNow)
           fresh == [old EXCEPT !.name = name,
                                !.disk[name] = IF delete THEN 0 ELSE @]
       IN  IF dest \in {"NONE", "BOTH"} THEN Becomes(old) /\ named' = named
           ELSE Becomes(InitializeLogFileHandle(fresh, dest)) /\ named' = name
    /\ last' = Nobody
    /\ UNCHANGED <<minLevel, filter, handlers, sent>>

\* Mutant: the filter is for every severity.
AcceptsStrictly(severity, prefix) ==
    severity >= minLevel /\ (filter # NoFilter => prefix = filter)

\* The two early returns of ~LogMessage; the filter spares LOG_ERROR and above
\* (kMaxFilteredLogLevel).
Accepts(severity, prefix) ==
    /\ severity >= minLevel
    /\ filter # NoFilter /\ severity <= WARNING => prefix = filter

\* The handler that is called, the default ones doing nothing: DisplayDebugMessage
\* and BreakDebugger are empty, BeingDebugged is false.
Handled(severity) ==
    CASE severity = FATAL        -> handlers \cap {"assert"}
      [] severity = ERROR_REPORT -> handlers \cap {"report"}
      [] OTHER                   -> {}

\* ~LogMessage of a message that is not dropped.
LogMessage(severity, prefix) ==
    /\ sent < MaxMessages /\ sent' = sent + 1
    /\ Accepts(severity, prefix)
    /\ LET opened == IF destination \in ToFile
                     THEN InitializeLogFileHandle(FileNow, destination) ELSE FileNow
           file   == IF destination \in ToFile THEN {opened.file} \ {"NULL"} ELSE {}
           stderr == IF destination \in ToSystem \/ severity >= ERROR
                     THEN {"stderr"} ELSE {}
       IN  /\ Becomes([opened EXCEPT !.disk =
                         [n \in Names |-> IF n \in file THEN @[n] + 1 ELSE @[n]]])
           /\ last' = [severity |-> severity, level |-> minLevel,
                       sinks |-> file \cup stderr \cup Handled(severity)]
    /\ UNCHANGED <<minLevel, filter, destination, handlers, asked, named, inits>>

\* ~LogMessage of a message that is below the level or filtered.
LogDropped(severity, prefix) ==
    /\ sent < MaxMessages /\ sent' = sent + 1
    /\ ~Accepts(severity, prefix)
    /\ last' = [severity |-> severity, level |-> minLevel,
                sinks |-> {}]
    /\ UNCHANGED <<minLevel, filter, destination, logFileName, logFile, handlers, lines,
                   asked, named, inits>>

Next ==
    \/ SetLogMinLevel \/ SetLogFilterPrefix \/ SetHandler
    \/ \E i \in Inits : InitLogging(i[1], i[2], i[3])
    \/ \E s \in Severities, p \in Prefixes : LogMessage(s, p) \/ LogDropped(s, p)

Spec == Init /\ [][Next]_vars
-----------------------------------------------------------------------------
(***************************************************************************)
(* Properties.                                                             *)
(***************************************************************************)

\* The variables have their types; an open log file is one that can be opened.
TypeOK ==
    /\ minLevel \in Levels \cup {INFO} /\ filter \in Filters \cup {NoFilter}
    /\ destination \in {"NONE", "FILE", "SYSTEM", "BOTH"}
    /\ FileNow \in FileState
    /\ handlers \subseteq {"assert", "report"}
    /\ last.sinks \subseteq Names \cup {"stderr", "assert", "report"}
    /\ sent \in 0..MaxMessages /\ inits \in 0..MaxInits

\* Whatever the sequence of InitLogging and messages, a message that goes to a file
\* goes to the one that was named by the last call of InitLogging that got past its
\* early return, and to debug.log before; with both destinations, whose calls do not
\* get past it, it does go there.
LastNameUsed ==
    /\ last.sinks \cap Names \subseteq {named}
    /\ asked[2] = "BOTH" /\ named \in Writable /\ last.sinks # {} => named \in last.sinks

\* "Defaults to APPEND_TO_OLD_LOG_FILE": lines that are in a file are lost only by
\* an InitLogging for that file that asks for it.
LinesOnlyDeletedOnRequest ==
    [][\A n \in Names : lines'[n] < lines[n] =>
         inits' = inits + 1 /\ asked'[1] = n /\ asked'[3]]_vars

\* "Messages with severity of LOG_ERROR or higher will not be filtered" and "always
\* print to stderr": whatever the destination and the filter, such a message is
\* seen unless its severity is below the level.
ErrorsAreSeen ==
    last.severity >= ERROR /\ last.severity >= last.level => "stderr" \in last.sinks

\* After InitLogging for a file that can be written, every message that is not
\* dropped goes to that file and to no other.
FileGetsMessages ==
    asked[2] = "FILE" /\ asked[1] \in Writable /\ last.sinks # {} =>
        last.sinks \cap Names = {asked[1]}

\* "ignore file options if logging is disabled or only to system" (logging.cc,
\* InitLogging): then no file is deleted.  And otherwise they are heeded, InitLogging
\* "sets the log file name" (logging.h): messages go to the file that it named.
FileOptionsHeeded ==
    [][ /\ inits' # inits /\ asked'[2] \notin ToFile => lines' = lines
        /\ asked'[2] \in ToFile /\ asked'[1] \in Writable /\ last'.sinks # {} =>
             last'.sinks \cap Names = {asked'[1]} ]_vars
=============================================================================
