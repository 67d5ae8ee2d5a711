---------------------------- MODULE LogRoutingProofs ----------------------------
(***************************************************************************)
(* Theorems about LogRouting for every set of file names, prefixes and     *)
(* levels and every number of messages and calls of InitLogging.           *)
(***************************************************************************)
EXTENDS LogRouting, TLAPS

Sinks == Names \cup {"stderr", "assert", "report"}

\* What the last message and the last InitLogging are.
RecordsOK ==
    /\ last \in [severity : Severities, level : Nat, sinks : SUBSET Sinks]
    /\ asked \in Inits \cup {<<"NULL", "SYSTEM", FALSE>>}

\* The settings are those that InitLogging was last called with.
AskedOK ==
    /\ destination = asked[2]
    /\ asked[2] = "FILE" => logFileName = asked[1]

\* An open log file is the one that log_file_name names.
HandleMatchesName == logFile # "NULL" => logFile = logFileName

\* log_file_name is the name last taken over, if there was one.
NamedOK ==
    /\ named \in Names
    /\ logFileName # named => logFileName = "NULL" /\ named = "debug.log"

IInv == TypeOK /\ RecordsOK /\ AskedOK /\ HandleMatchesName /\ NamedOK
          /\ ErrorsAreSeen /\ FileGetsMessages /\ LastNameUsed
-----------------------------------------------------------------------------
\* The severities.
LEMMA SeverityFacts ==
    /\ Severities = 0..4 /\ INFO = 0 /\ WARNING = 1 /\ ERROR = 2 /\ ERROR_REPORT = 3
    /\ FATAL = 4
  BY DEF Severities, INFO, WARNING, ERROR, ERROR_REPORT, FATAL

\* What InitLogging may be called with.
LEMMA InitsFacts ==
    ASSUME NEW i \in Inits
    PROVE  /\ i[1] \in Names /\ i[2] \in {"NONE", "FILE", "SYSTEM", "BOTH"} /\ i[3] \in BOOLEAN
           /\ i = <<i[1], i[2], i[3]>>
  BY InitsAssumption

\* InitializeLogFileHandle keeps the lines, and what it opens has the name.
LEMMA OpenFacts ==
    ASSUME NEW fs \in FileState, NEW dest, fs.file # "NULL" => fs.file = fs.name
    PROVE  LET o == InitializeLogFileHandle(fs, dest)
           IN  /\ o \in FileState /\ o.disk = fs.disk
               /\ o.file # "NULL" => o.file = o.name
               /\ o.name = IF fs.name = "NULL" THEN "debug.log" ELSE fs.name
               /\ dest \in ToFile /\ o.name \in Writable => o.file = o.name
<1> USE NamesAssumption
<1> DEFINE name == IF fs.name = "NULL" THEN "debug.log" ELSE fs.name
<1>1. name \in Names
  BY DEF FileState
<1>2. CASE fs.file # "NULL"
  BY <1>2 DEF InitializeLogFileHandle, FileState
<1>3. CASE fs.file = "NULL" /\ dest \in ToFile /\ name \in Writable
  <2>1. InitializeLogFileHandle(fs, dest) = [fs EXCEPT !.file = name, !.name = name]
    BY <1>3 DEF InitializeLogFileHandle
  <2> QED
    BY <1>1, <1>3, <2>1 DEF FileState
<1>4. CASE fs.file = "NULL" /\ ~(dest \in ToFile /\ name \in Writable)
  <2>1. InitializeLogFileHandle(fs, dest) = [fs EXCEPT !.name = name]
    BY <1>4 DEF InitializeLogFileHandle
  <2> QED
    BY <1>1, <1>4, <2>1 DEF FileState
<1> QED
  BY <1>2, <1>3, <1>4

\* The program starts in the inductive invariant.
LEMMA InitIInv == Init => IInv
<1> SUFFICES ASSUME Init PROVE IInv
  OBVIOUS
<1> USE NamesAssumption, SeverityFacts DEF Init
<1>1. TypeOK
  <2>1. FileNow \in FileState
    BY DEF FileNow, FileState
  <2>2. last.sinks = {}
    BY DEF Nobody
  <2>3. sent \in 0..MaxMessages /\ inits \in 0..MaxInits
    BY BoundAssumption
  <2> QED
    BY <2>1, <2>2, <2>3 DEF TypeOK
<1>2. last = [severity |-> 0, level |-> 0, sinks |-> {}]
  BY DEF Nobody
<1>3. RecordsOK
  BY <1>2 DEF RecordsOK
<1>4. AskedOK
  BY DEF AskedOK
<1>5. HandleMatchesName /\ ErrorsAreSeen /\ FileGetsMessages
  BY <1>2 DEF HandleMatchesName, ErrorsAreSeen, FileGetsMessages
<1>6. NamedOK /\ LastNameUsed
  BY <1>2 DEF NamedOK, LastNameUsed
<1> QED
  BY <1>1, <1>3, <1>4, <1>5, <1>6 DEF IInv

\* The setters keep it: they do not touch what it is about.
LEMMA SetIInv ==
    IInv /\ (SetLogMinLevel \/ SetLogFilterPrefix \/ SetHandler \/ UNCHANGED vars) => IInv'
<1> SUFFICES ASSUME IInv, SetLogMinLevel \/ SetLogFilterPrefix \/ SetHandler \/ UNCHANGED vars
             PROVE  IInv'
  OBVIOUS
<1>1. UNCHANGED <<destination, logFileName, logFile, lines, asked, named, last, sent, inits>>
  BY DEF SetLogMinLevel, SetLogFilterPrefix, SetHandler, vars
<1>2. /\ minLevel' \in Levels \cup {INFO} /\ filter' \in Filters \cup {NoFilter}
      /\ handlers' \subseteq {"assert", "report"}
  BY DEF SetLogMinLevel, SetLogFilterPrefix, SetHandler, vars, IInv, TypeOK
<1> QED
  BY <1>1, <1>2 DEF IInv, TypeOK, FileNow, RecordsOK, AskedOK, HandleMatchesName,
     NamedOK, ErrorsAreSeen, FileGetsMessages, LastNameUsed

\* InitLogging leaves a file open only under the name that it sets.
LEMMA InitLoggingIInv ==
    ASSUME IInv, NEW i \in Inits, InitLogging(i[1], i[2], i[3])
    PROVE  IInv'
<1> DEFINE old   == Closed(FileNow)
           fresh == [old EXCEPT !.name = i[1], !.disk[i[1]] = IF i[3] THEN 0 ELSE @]
           new   == IF i[2] \in {"NONE", "BOTH"} THEN old
                    ELSE InitializeLogFileHandle(fresh, i[2])
<1> USE NamesAssumption, InitsFacts
<1>1. /\ inits < MaxInits /\ inits' = inits + 1 /\ destination' = i[2] /\ asked' = i
      /\ last' = Nobody /\ UNCHANGED <<minLevel, filter, handlers, sent>>
  BY DEF InitLogging
<1>2. logFile' = new.file /\ logFileName' = new.name /\ lines' = new.disk
  BY DEF InitLogging, Becomes
<1>3. FileNow \in FileState /\ old \in FileState /\ old.file = "NULL"
  BY DEF IInv, TypeOK, FileState, Closed
<1>4. fresh \in FileState /\ fresh.file = "NULL" /\ fresh.name = i[1]
  BY <1>3 DEF FileState
<1> HIDE DEF old, fresh
<1>5. /\ new \in FileState /\ (new.file # "NULL" => new.file = new.name)
      /\ i[2] = "FILE" => new.name = i[1]
  BY <1>3, <1>4, OpenFacts
<1> HIDE DEF new
<1>6. FileNow' = new
  BY <1>2, <1>5 DEF FileNow, FileState
<1>7. last' = [severity |-> 0, level |-> 0, sinks |-> {}]
  BY <1>1, SeverityFacts DEF Nobody
<1>8. TypeOK'
  BY <1>1, <1>5, <1>6, <1>7, BoundAssumption DEF IInv, TypeOK
<1>9. RecordsOK'
  <2>1. last' \in [severity : Severities, level : Nat, sinks : SUBSET Sinks]
    BY <1>7, SeverityFacts
  <2>2. asked' \in Inits
    BY <1>1
  <2> QED
    BY <2>1, <2>2 DEF RecordsOK
<1>10. AskedOK' /\ HandleMatchesName'
  BY <1>1, <1>2, <1>5 DEF AskedOK, HandleMatchesName
<1>11. ErrorsAreSeen' /\ FileGetsMessages' /\ LastNameUsed'
  BY <1>7, SeverityFacts DEF ErrorsAreSeen, FileGetsMessages, LastNameUsed
<1>12. NamedOK'
  <2>1. CASE i[2] \in {"NONE", "BOTH"}
    <3>1. named' = named /\ logFileName' = logFileName
      BY <1>2, <2>1 DEF InitLogging, new, old, Closed, FileNow
    <3> QED
      BY <3>1 DEF IInv, NamedOK
  <2>2. CASE i[2] \notin {"NONE", "BOTH"}
    <3>1. named' = i[1]
      BY <2>2 DEF InitLogging
    <3>2. new.name = i[1]
      BY <1>4, <2>2, OpenFacts DEF new
    <3> QED
      BY <1>2, <3>1, <3>2 DEF NamedOK
  <2> QED
    BY <2>1, <2>2
<1> QED
  BY <1>8, <1>9, <1>10, <1>11, <1>12 DEF IInv

\* A message goes to the file that is open or that it opens.
LEMMA LogMessageIInv ==
    ASSUME IInv, NEW s \in Severities, NEW p \in Prefixes, LogMessage(s, p)
    PROVE  IInv'
<1> DEFINE opened == IF destination \in ToFile
                     THEN InitializeLogFileHandle(FileNow, destination) ELSE FileNow
           file   == IF destination \in ToFile THEN {opened.file} \ {"NULL"} ELSE {}
           stderr == IF destination \in ToSystem \/ s >= ERROR THEN {"stderr"} ELSE {}
           sinks  == file \cup stderr \cup Handled(s)
           disk   == [n \in Names |-> IF n \in file THEN opened.disk[n] + 1 ELSE opened.disk[n]]
           new    == [opened EXCEPT !.disk = disk]
<1> USE NamesAssumption, SeverityFacts
<1>1. /\ sent < MaxMessages /\ sent' = sent + 1
      /\ UNCHANGED <<minLevel, filter, destination, handlers, asked, named, inits>>
      /\ last' = [severity |-> s, level |-> minLevel, sinks |-> sinks]
  BY DEF LogMessage
<1>2. logFile' = new.file /\ logFileName' = new.name /\ lines' = new.disk
  BY DEF LogMessage, Becomes
<1>3. /\ FileNow \in FileState /\ FileNow.name = logFileName
      /\ FileNow.file # "NULL" => FileNow.file = FileNow.name
  BY DEF IInv, TypeOK, HandleMatchesName, FileNow
<1>4. /\ opened \in FileState /\ (opened.file # "NULL" => opened.file = opened.name)
      /\ opened.name \in {logFileName, IF logFileName = "NULL" THEN "debug.log" ELSE logFileName}
      /\ destination \in ToFile /\ logFileName = "NULL" => opened.name = "debug.log"
      /\ destination \in ToFile /\ opened.name \in Writable => opened.file = opened.name
  BY <1>3, OpenFacts
<1> HIDE DEF opened
<1>5. disk \in [Names -> Nat]
  BY <1>4 DEF FileState
<1> HIDE DEF disk
<1>6. new \in FileState /\ new.file = opened.file /\ new.name = opened.name
  BY <1>4, <1>5 DEF FileState
<1>7. file \subseteq Names /\ stderr \subseteq {"stderr"} /\ Handled(s) \subseteq {"assert", "report"}
  BY <1>4 DEF FileState, Handled, IInv, TypeOK
<1> HIDE DEF new
<1>8. FileNow' = new
  BY <1>2, <1>6 DEF FileNow, FileState
<1>9. sinks \subseteq Sinks
  BY <1>7 DEF Sinks
<1>10. TypeOK'
  BY <1>1, <1>6, <1>8, <1>9, BoundAssumption DEF IInv, TypeOK, Sinks
<1>11. minLevel \in Nat
  BY SettingsAssumption DEF IInv, TypeOK
<1>12. RecordsOK'
  BY <1>1, <1>9, <1>11 DEF RecordsOK, IInv
<1>13. AskedOK' /\ HandleMatchesName'
  <2>1. asked[2] = "FILE" => logFileName = asked[1] /\ asked[1] \in Names
    <3>1. asked \in Inits \/ asked = <<"NULL", "SYSTEM", FALSE>>
      BY DEF IInv, RecordsOK
    <3>2. asked \in Inits => asked[1] \in Names
      BY InitsFacts
    <3>3. asked = <<"NULL", "SYSTEM", FALSE>> => asked[2] # "FILE"
      OBVIOUS
    <3>4. asked[2] = "FILE" => logFileName = asked[1]
      BY DEF IInv, AskedOK
    <3> QED
      BY <3>1, <3>2, <3>3, <3>4
  <2>2. asked[2] = "FILE" => logFileName' = logFileName
    BY <1>2, <1>4, <1>6, <2>1
  <2>3. destination' = asked'[2]
    BY <1>1 DEF IInv, AskedOK
  <2>4. AskedOK'
    BY <1>1, <2>1, <2>2, <2>3 DEF AskedOK
  <2>5. HandleMatchesName'
    BY <1>2, <1>4, <1>6 DEF HandleMatchesName
  <2> QED
    BY <2>4, <2>5
<1>14. ErrorsAreSeen'
  BY <1>1, <1>7 DEF ErrorsAreSeen
<1>15. FileGetsMessages'
  <2> SUFFICES ASSUME asked[2] = "FILE", asked[1] \in Writable, sinks # {}
               PROVE  sinks \cap Names = {asked[1]}
    BY <1>1 DEF FileGetsMessages
  <2>1. destination = "FILE" /\ logFileName = asked[1] /\ logFileName # "NULL"
    BY DEF IInv, AskedOK
  <2>2. opened.file = asked[1]
    BY <1>4, <2>1 DEF ToFile
  <2>3. file = {asked[1]}
    BY <2>1, <2>2 DEF ToFile
  <2> QED
    BY <1>7, <2>3
<1>16. opened.file \in {"NULL", named} /\ opened.name \in {logFileName, named}
  BY <1>4 DEF IInv, NamedOK
<1>17. NamedOK'
  BY <1>1, <1>2, <1>6, <1>16 DEF IInv, NamedOK
<1>18. LastNameUsed'
  <2>1. sinks \cap Names \subseteq {named}
    BY <1>7, <1>16
  <2>2. ASSUME asked[2] = "BOTH", named \in Writable PROVE named \in sinks
    <3>1. destination = "BOTH" /\ destination \in ToFile
      BY <2>2 DEF IInv, AskedOK, ToFile
    <3>2. opened.name = named
      BY <1>4, <1>16, <3>1 DEF IInv, NamedOK
    <3> QED
      BY <1>4, <2>2, <3>1, <3>2
  <2> QED
    BY <1>1, <2>1, <2>2 DEF LastNameUsed
<1> QED
  BY <1>10, <1>12, <1>13, <1>14, <1>15, <1>17, <1>18 DEF IInv

\* A dropped message leaves no trace but itself.
LEMMA LogDroppedIInv ==
    ASSUME IInv, NEW s \in Severities, NEW p \in Prefixes, LogDropped(s, p)
    PROVE  IInv'
<1> USE SeverityFacts
<1>1. /\ sent < MaxMessages /\ sent' = sent + 1 /\ ~Accepts(s, p)
      /\ last' = [severity |-> s, level |-> minLevel, sinks |-> {}]
      /\ UNCHANGED <<minLevel, filter, destination, logFileName, logFile, handlers, lines,
                     asked, named, inits>>
  BY DEF LogDropped
<1>2. minLevel \in Nat
  BY SettingsAssumption DEF IInv, TypeOK
<1>3. TypeOK' /\ RecordsOK'
  <2>1. TypeOK'
    BY <1>1, BoundAssumption DEF IInv, TypeOK, FileNow
  <2>2. last' \in [severity : Severities, level : Nat, sinks : SUBSET Sinks]
    BY <1>1, <1>2
  <2>3. RecordsOK'
    BY <1>1, <2>2 DEF IInv, RecordsOK
  <2> QED
    BY <2>1, <2>3
<1>4. ErrorsAreSeen'
  BY <1>1, <1>2 DEF ErrorsAreSeen, Accepts
<1> QED
  BY <1>1, <1>3, <1>4 DEF IInv, AskedOK, HandleMatchesName, NamedOK,
     FileGetsMessages, LastNameUsed

\* The inductive invariant is one.
LEMMA Invariance == Spec => []IInv
<1>1. IInv /\ [Next]_vars => IInv'
  BY SetIInv, InitLoggingIInv, LogMessageIInv, LogDroppedIInv DEF Next
<1> QED
  BY InitIInv, <1>1, PTL DEF Spec

\* Type correctness: what is open can be opened.
THEOREM TypeCorrect == Spec => []TypeOK
<1>1. IInv => TypeOK
  BY DEF IInv
<1> QED
  BY Invariance, <1>1, PTL

\* Messages go to the file that was named last by a call that got past the early
\* return, and to no other.
THEOREM LastNameCorrect == Spec => []LastNameUsed
<1>1. IInv => LastNameUsed
  BY DEF IInv
<1> QED
  BY Invariance, <1>1, PTL

\* Errors are printed whatever the settings are.
THEOREM ErrorsCorrect == Spec => []ErrorsAreSeen
<1>1. IInv => ErrorsAreSeen
  BY DEF IInv
<1> QED
  BY Invariance, <1>1, PTL

\* Messages go to the file that was asked for.
THEOREM FileCorrect == Spec => []FileGetsMessages
<1>1. IInv => FileGetsMessages
  BY DEF IInv
<1> QED
  BY Invariance, <1>1, PTL

\* Lines are lost only by an InitLogging that asks for it.
THEOREM DeleteCorrect == Spec => LinesOnlyDeletedOnRequest
<1> DEFINE A == \A n \in Names : lines'[n] < lines[n] =>
                    inits' = inits + 1 /\ asked'[1] = n /\ asked'[3]
<1>1. IInv /\ [Next]_vars => [A]_vars
  <2> SUFFICES ASSUME IInv, Next, NEW n \in Names, lines'[n] < lines[n]
               PROVE  inits' = inits + 1 /\ asked'[1] = n /\ asked'[3]
    OBVIOUS
  <2>1. lines \in [Names -> Nat] /\ FileNow \in FileState /\ FileNow.disk = lines
        /\ (FileNow.file # "NULL" => FileNow.file = FileNow.name)
    BY DEF IInv, TypeOK, FileNow, FileState, HandleMatchesName
  <2>2. lines' # lines
    BY <2>1
  <2>3. ASSUME NEW s \in Severities, NEW p \in Prefixes, LogMessage(s, p) PROVE FALSE
    <3> DEFINE opened == IF destination \in ToFile
                         THEN InitializeLogFileHandle(FileNow, destination) ELSE FileNow
               file   == IF destination \in ToFile THEN {opened.file} \ {"NULL"} ELSE {}
    <3>1. lines' = [m \in Names |-> IF m \in file THEN opened.disk[m] + 1 ELSE opened.disk[m]]
      <4>1. opened \in FileState
        BY <2>1, OpenFacts
      <4> HIDE DEF opened
      <4> QED
        BY <2>3, <4>1 DEF LogMessage, Becomes, FileState, opened
    <3>2. opened.disk = lines
      BY <2>1, OpenFacts
    <3> HIDE DEF opened, file
    <3>3. lines'[n] \in {lines[n], lines[n] + 1}
      BY <3>1, <3>2
    <3> QED
      BY <2>1, <3>3
  <2>4. ASSUME NEW i \in Inits, InitLogging(i[1], i[2], i[3])
        PROVE  inits' = inits + 1 /\ asked'[1] = n /\ asked'[3]
    <3> DEFINE old   == Closed(FileNow)
               fresh == [old EXCEPT !.name = i[1], !.disk[i[1]] = IF i[3] THEN 0 ELSE @]
               new   == IF i[2] \in {"NONE", "BOTH"} THEN old
                        ELSE InitializeLogFileHandle(fresh, i[2])
    <3>1. inits' = inits + 1 /\ asked' = i /\ lines' = new.disk
      BY <2>4, InitsFacts DEF InitLogging, Becomes
    <3>2. old \in FileState /\ old.disk = lines /\ old.file = "NULL"
      BY <2>1 DEF Closed, FileState
    <3>3. /\ fresh \in FileState /\ fresh.file = "NULL"
          /\ fresh.disk = [lines EXCEPT ![i[1]] = IF i[3] THEN 0 ELSE @]
      BY <2>1, <3>2, InitsFacts DEF FileState
    <3> HIDE DEF old, fresh
    <3>4. new.disk = lines \/ new.disk = fresh.disk
      BY <3>2, <3>3, OpenFacts
    <3>5. lines' = [lines EXCEPT ![i[1]] = IF i[3] THEN 0 ELSE @]
      BY <2>2, <3>1, <3>3, <3>4
    <3>6. n = i[1] /\ i[3]
      BY <2>1, <3>5, InitsFacts
    <3> QED
      BY <3>1, <3>6
  <2> QED
    BY <2>2, <2>3, <2>4 DEF Next, SetLogMinLevel, SetLogFilterPrefix, SetHandler, LogDropped
<1> QED
  BY Invariance, <1>1, PTL DEF Spec, LinesOnlyDeletedOnRequest
=============================================================================
