----------------------------- MODULE LogFileProofs -----------------------------
(***************************************************************************)
(* Theorems about LogFile for every number of processes, files, messages   *)
(* and crashes and every size of the stdio buffer.                         *)
(***************************************************************************)
EXTENDS LogFile, SequenceTheorems, TLAPS

\* The rules of a program do not change.
LEMMA RulesStay == [Next]_vars => rules' = rules
<1>1. ASSUME NEW p \in Processes, Step(p) PROVE rules' = rules
  <2>1. CASE Open(p) \/ Reopen(p) \/ DeleteOld(p)
    BY <2>1 DEF Open, Reopen, DeleteOld, counts
  <2>2. CASE Lock(p) \/ Seek(p) \/ WriteFile(p) \/ Unlock(p) \/ Fprintf(p)
    BY <2>2 DEF Lock, Seek, WriteFile, Unlock, Fprintf, counts
  <2> QED
    BY <1>1, <2>1, <2>2 DEF Step
<1>2. ASSUME NEW p \in Processes,
             \/ \E n \in Names, lock \in rules.lockings, del \in BOOLEAN :
                   InitLogging(p, n, lock, del)
             \/ Log(p) \/ Crash(p)
      PROVE  rules' = rules
  BY <1>2 DEF InitLogging, Log, Crash, counts
<1>3. UNCHANGED vars => rules' = rules
  BY DEF vars, counts
<1> QED
  BY <1>1, <1>2, <1>3 DEF Next

\* The last message of p that may be in a file: the one it is at is not.
Done(p) == IF pc[p] \in {"reopen", "lock", "seek", "write"} THEN sent[p] - 1 ELSE sent[p]

\* The messages of q in the sequence s have numbers up to k.
Upto(s, q, k) == \A i \in DOMAIN s : s[i].from = q => s[i].number <= k

\* Nothing is in a file or in a buffer that was not logged.
NumbersOK ==
    \A q \in Processes :
      /\ \A n \in Names : Upto(disk[n], q, Done(q))
      /\ \A p \in Processes : Upto(buffer[p], q, Done(q))

\* Who is at a message has its file open; who has none open has nothing buffered; on
\* Windows there is no buffer, a file that is open is not deleted, and a pointer is not
\* past the end.
HandleOK ==
    \A p \in Processes :
      /\ pc[p] \in {"reopen", "lock", "seek", "write"} => sent[p] > 0
      /\ pc[p] \in {"lock", "seek", "write", "unlock"} => file[p] # NoName
      /\ pc[p] \in {"delete", "open"} => name[p] # NoName /\ file[p] = NoName
      /\ pc[p] = "reopen" => file[p] = NoName
      /\ pc[p] \in {"seek", "unlock"} => Windows
      /\ file[p] = NoName => buffer[p] = << >>
      /\ Windows => buffer[p] = << >> /\ p \notin stale
      /\ Windows /\ pc[p] = "write" => position[p] <= Len(disk[file[p]])

\* If the programs keep the promise: mutex and file have the same name, who writes owns
\* the mutex, and its pointer is at the end of the file when it writes.
PromisedOK ==
    Promised => \A p \in Processes :
      /\ locking[p] = "LOCK"
      /\ file[p] \in {NoName, name[p]} /\ mutex[p] \in {NoName, name[p]}
      /\ pc[p] \in {"seek", "write", "unlock"} =>
            mutex[p] = name[p] /\ owner[name[p]] = p
      /\ pc[p] = "write" => position[p] = Len(disk[file[p]])

IInv == TypeOK /\ NumbersOK /\ HandleOK /\ PromisedOK
-----------------------------------------------------------------------------
\* A message is a sequence of two halves.
LEMMA HalvesType ==
    ASSUME NEW p \in Processes, NEW n \in Nat
    PROVE  /\ Halves(p, n) \in Seq(HalfSet) /\ Len(Halves(p, n)) = 2
           /\ DOMAIN Halves(p, n) = 1..2
           /\ \A h \in 1..2 : Halves(p, n)[h] = Half(p, n, h)
           /\ \A h \in 1..2 : Half(p, n, h) \in HalfSet /\ Half(p, n, h).from = p
                                /\ Half(p, n, h).number = n /\ Half(p, n, h).half = h
  BY DEF Halves, Half, HalfSet

\* Wherever it writes, what is in the file then is what was there and what was written,
\* and the file does not become shorter.
LEMMA WriteOverParts ==
    ASSUME NEW S, NEW s \in Seq(S), NEW t \in Seq(S), NEW i \in Nat, i <= Len(s)
    PROVE  LET w == WriteOver(s, i, t)
           IN  /\ w \in Seq(S) /\ Len(w) >= Len(s)
               /\ \A j \in DOMAIN w : \/ \E k \in DOMAIN s : w[j] = s[k]
                                      \/ \E k \in DOMAIN t : w[j] = t[k]
<1> DEFINE n == IF i + Len(t) > Len(s) THEN i + Len(t) ELSE Len(s)
           w == WriteOver(s, i, t)
<1>1. /\ Len(s) \in Nat /\ DOMAIN s = 1..Len(s) /\ Len(t) \in Nat /\ DOMAIN t = 1..Len(t)
      /\ n \in Nat /\ n >= Len(s)
  BY LenProperties
<1>2. /\ w = [j \in 1..n |-> IF j \in (i + 1)..(i + Len(t)) THEN t[j - i] ELSE s[j]]
      /\ DOMAIN w = 1..n
  BY DEF WriteOver
<1>3. ASSUME NEW j \in 1..n
      PROVE  \/ \E k \in DOMAIN s : w[j] = s[k]
             \/ \E k \in DOMAIN t : w[j] = t[k]
  <2>1. CASE j \in (i + 1)..(i + Len(t))
    <3>1. j - i \in DOMAIN t /\ w[j] = t[j - i]
      BY <1>1, <1>2, <2>1
    <3> QED
      BY <3>1
  <2>2. CASE j \notin (i + 1)..(i + Len(t))
    <3>1. j <= Len(s)
      BY <1>1, <2>2
    <3>2. j \in DOMAIN s /\ w[j] = s[j]
      BY <1>1, <1>2, <2>2, <3>1
    <3> QED
      BY <3>2
  <2> QED
    BY <2>1, <2>2
<1>4. \A j \in 1..n : w[j] \in S
  BY <1>3, ElementOfSeq, <1>1
<1>5. w \in Seq(S) /\ Len(w) = n
  BY <1>1, <1>2, <1>4, IsASeq, LenProperties
<1> QED
  BY <1>1, <1>2, <1>3, <1>5

\* Who writes at the end appends.
LEMMA WriteOverEnd ==
    ASSUME NEW S, NEW s \in Seq(S), NEW t \in Seq(S)
    PROVE  WriteOver(s, Len(s), t) = s \o t
<1>1. Len(s) \in Nat /\ DOMAIN s = 1..Len(s) /\ Len(t) \in Nat
  BY LenProperties
<1>2. WriteOver(s, Len(s), t) \in Seq(S)
  BY <1>1, WriteOverParts
<1>3. /\ s \o t \in Seq(S) /\ Len(s \o t) = Len(s) + Len(t)
      /\ \A i \in 1..(Len(s) + Len(t)) : (s \o t)[i] = IF i <= Len(s) THEN s[i] ELSE t[i - Len(s)]
  BY ConcatProperties
<1>4. /\ DOMAIN WriteOver(s, Len(s), t) = 1..(Len(s) + Len(t))
      /\ \A j \in 1..(Len(s) + Len(t)) : WriteOver(s, Len(s), t)[j] =
            IF j \in (Len(s) + 1)..(Len(s) + Len(t)) THEN t[j - Len(s)] ELSE s[j]
  BY <1>1 DEF WriteOver
<1>5. Len(WriteOver(s, Len(s), t)) = Len(s) + Len(t)
  BY <1>1, <1>2, <1>4, LenProperties
<1>6. \A j \in 1..(Len(s) + Len(t)) : WriteOver(s, Len(s), t)[j] = (s \o t)[j]
  BY <1>1, <1>3, <1>4
<1> QED
  BY <1>2, <1>3, <1>5, <1>6, SeqEqual

\* What the rules of a program are.
LEMMA RuleFields ==
    ASSUME NEW r \in Rules
    PROVE  r.lockings \subseteq Lockings /\ r.os \in {"windows", "posix"}
  BY RulesAssumption

\* Parts of a sequence.
LEMMA SubSeqType ==
    ASSUME NEW S, NEW s \in Seq(S), NEW n \in 0..Len(s)
    PROVE  SubSeq(s, 1, n) \in Seq(S) /\ SubSeq(s, n + 1, Len(s)) \in Seq(S)
  BY SubSeqProperties, ElementOfSeq, LenProperties

\* To append keeps the files sequences of halves.
LEMMA AppendedType ==
    ASSUME TypeOK, NEW p \in Processes, NEW s \in Seq(HalfSet)
    PROVE  Appended(p, s) \in [Names -> Seq(HalfSet)]
<1>1. ASSUME file[p] # NoName PROVE disk[file[p]] \o s \in Seq(HalfSet)
  BY <1>1, ConcatProperties DEF TypeOK
<1> QED
  BY <1>1 DEF Appended, TypeOK

\* Every step keeps the variables in their types.
LEMMA NextTypeOK == IInv /\ [Next]_vars => TypeOK'
<1> SUFFICES ASSUME IInv, [Next]_vars PROVE TypeOK'
  OBVIOUS
<1> USE NameAssumption DEF IInv, TypeOK, HandleOK
<1>1. ASSUME NEW p \in Processes, NEW n \in Names, NEW lock \in rules.lockings,
             NEW del \in BOOLEAN, InitLogging(p, n, lock, del)
      PROVE  TypeOK'
  <2>1. lock \in Lockings /\ inits'[p] \in Nat
    BY <1>1, RuleFields, SMTT(60) DEF InitLogging
  <2>2. disk' \in [Names -> Seq(HalfSet)]
    BY <1>1, AppendedType DEF InitLogging
  <2>3. << >> \in Seq(HalfSet)
    BY EmptySeq
  <2> QED
    BY <1>1, <2>1, <2>2, <2>3 DEF InitLogging, At, Goto, Labels
<1>2. ASSUME NEW p \in Processes, Log(p) PROVE TypeOK'
  <2>1. sent' \in [Processes -> 0..MaxMessages]
    BY <1>2, BoundAssumption, SMTT(60) DEF Log
  <2> QED
    BY <1>2, <2>1 DEF Log, At, Goto, Labels, globals, handle
<1>3. ASSUME NEW p \in Processes, DeleteOld(p) PROVE TypeOK'
  <2>1. name[p] \in Names /\ << >> \in Seq(HalfSet)
    BY <1>3, EmptySeq DEF DeleteOld, At
  <2>2. disk' \in [Names -> Seq(HalfSet)]
    BY <1>3, <2>1 DEF DeleteOld
  <2>3. stale' \subseteq Processes
    BY <1>3 DEF DeleteOld
  <2> QED
    BY <1>3, <2>2, <2>3 DEF DeleteOld, At, Goto, Labels, globals, counts
<1>4. ASSUME NEW p \in Processes, Open(p) PROVE TypeOK'
  <2>1. name[p] \in Names
    BY <1>4 DEF Open, At
  <2>2. file' \in [Processes -> Names \cup {NoName}]
    BY <1>4, <2>1 DEF Open, OpenFile, OpenResults
  <2>3. since' \in [Processes -> 0..MaxMessages + 1]
    BY <1>4, BoundAssumption, SMTT(60) DEF Open, OpenFile
  <2> QED
    BY <1>4, <2>1, <2>2, <2>3 DEF Open, OpenFile, InitLogMutex, At, Goto, Labels, counts
<1>5. ASSUME NEW p \in Processes, Reopen(p) PROVE TypeOK'
  <2>1. name' \in [Processes -> Names \cup {NoName}] /\ name'[p] \in Names
    BY <1>5 DEF Reopen
  <2>2. file' \in [Processes -> Names \cup {NoName}]
    BY <1>5, <2>1 DEF Reopen, OpenFile, OpenResults
  <2>3. since' \in [Processes -> 0..MaxMessages + 1]
    BY <1>5, BoundAssumption, SMTT(60) DEF Reopen, OpenFile
  <2> QED
    BY <1>5, <2>1, <2>2, <2>3 DEF Reopen, OpenFile, At, Goto, Labels, counts
<1>6. ASSUME NEW p \in Processes, Lock(p) PROVE TypeOK'
  <2>1. file[p] \in Names /\ mutex' \in [Processes -> Names \cup {NoName}]
    BY <1>6 DEF Lock, At, InitLogMutex
  <2>2. owner' \in [Names -> Processes \cup {NoProcess}]
    BY <1>6 DEF Lock
  <2> QED
    BY <1>6, <2>1, <2>2 DEF Lock, Goto, Labels, handle, counts
<1>7. ASSUME NEW p \in Processes, Seek(p) PROVE TypeOK'
  <2>1. file[p] \in Names
    BY <1>7 DEF Seek, At
  <2> QED
    BY <1>7, <2>1, LenProperties DEF Seek, At, Goto, Labels, globals, handle, counts
<1>8. ASSUME NEW p \in Processes, WriteFile(p) PROVE TypeOK'
  <2>1. file[p] \in Names /\ position[p] <= Len(disk[file[p]])
    BY <1>8 DEF WriteFile, At
  <2>2. WriteOver(disk[file[p]], position[p], Halves(p, sent[p])) \in Seq(HalfSet)
    BY <2>1, HalvesType, WriteOverParts, BoundAssumption, SMTT(60)
  <2> QED
    BY <1>8, <2>1, <2>2, SMTT(60) DEF WriteFile, At, Goto, Labels, globals, handle, counts
<1>9. ASSUME NEW p \in Processes, Unlock(p) PROVE TypeOK'
  BY <1>9 DEF Unlock, At, Goto, Labels, globals, handle, counts
<1>10. ASSUME NEW p \in Processes, Fprintf(p) PROVE TypeOK'
  <2> DEFINE pending == buffer[p] \o Halves(p, sent[p])
  <2>1. pending \in Seq(HalfSet) /\ Len(pending) \in Nat
    BY HalvesType, ConcatProperties, BoundAssumption, LenProperties, SMTT(60)
  <2>2. PICK n \in 0..Len(pending) :
             /\ disk' = Appended(p, SubSeq(pending, 1, n))
             /\ buffer' = [buffer EXCEPT ![p] = SubSeq(pending, n + 1, Len(pending))]
    BY <1>10 DEF Fprintf
  <2> HIDE DEF pending
  <2>3. /\ SubSeq(pending, 1, n) \in Seq(HalfSet)
        /\ SubSeq(pending, n + 1, Len(pending)) \in Seq(HalfSet)
    BY <2>1, SubSeqType
  <2>4. disk' \in [Names -> Seq(HalfSet)]
    BY <2>2, <2>3, AppendedType
  <2> QED
    BY <1>10, <2>2, <2>3, <2>4 DEF Fprintf, At, Goto, Labels, globals, handle, counts
<1>11. ASSUME NEW p \in Processes, Crash(p) PROVE TypeOK'
  <2>1. crashes' \in 0..MaxCrashes
    BY <1>11, BoundAssumption DEF Crash
  <2>2. << >> \in Seq(HalfSet)
    BY EmptySeq
  <2> QED
    BY <1>11, <2>1, <2>2, BoundAssumption, SMTT(60) DEF Crash, Goto, Labels, Lockings
<1>12. CASE UNCHANGED vars
  BY <1>12 DEF vars
<1> HIDE DEF IInv, TypeOK, HandleOK
<1>13. ASSUME NEW p \in Processes, Step(p) PROVE TypeOK'
  BY <1>13, <1>3, <1>4, <1>5, <1>6, <1>7, <1>8, <1>9, <1>10 DEF Step
<1> QED
  BY <1>1, <1>2, <1>11, <1>12, <1>13 DEF Next

\* What is in the parts of a sequence is in the sequence.
LEMMA SubSeqParts ==
    ASSUME NEW S, NEW s \in Seq(S), NEW n \in 0..Len(s)
    PROVE  /\ \A k \in DOMAIN SubSeq(s, 1, n) : \E j \in DOMAIN s : SubSeq(s, 1, n)[k] = s[j]
           /\ \A k \in DOMAIN SubSeq(s, n + 1, Len(s)) : \E j \in DOMAIN s :
                 SubSeq(s, n + 1, Len(s))[k] = s[j]
<1>1. Len(s) \in Nat /\ DOMAIN s = 1..Len(s) /\ \A i \in 1..Len(s) : s[i] \in S
  BY LenProperties, ElementOfSeq
<1>2. /\ SubSeq(s, 1, n) \in Seq(S) /\ Len(SubSeq(s, 1, n)) = n
      /\ \A k \in 1..n : SubSeq(s, 1, n)[k] = s[k]
  BY <1>1, SubSeqProperties
<1> DEFINE t == SubSeq(s, n + 1, Len(s))
<1>3. t = [k \in 1..(Len(s) - n) |-> s[k + n]]
  BY <1>1
<1>4. DOMAIN SubSeq(s, 1, n) = 1..n /\ DOMAIN t = 1..(Len(s) - n)
  BY <1>2, <1>3, LenProperties
<1>5. \A k \in 1..n : k \in DOMAIN s
  BY <1>1
<1>6. \A k \in 1..(Len(s) - n) : k + n \in DOMAIN s /\ t[k] = s[k + n]
  BY <1>1, <1>3
<1> QED
  BY <1>2, <1>4, <1>5, <1>6

\* Upto and the operations on sequences.
LEMMA UptoMore ==
    ASSUME NEW s \in Seq(HalfSet), NEW q, NEW k \in Int, NEW m \in Int, k <= m, Upto(s, q, k)
    PROVE  Upto(s, q, m)
<1> SUFFICES ASSUME NEW i \in DOMAIN s, s[i].from = q PROVE s[i].number <= m
  BY DEF Upto
<1>1. s[i] \in HalfSet
  BY ElementOfSeq, LenProperties
<1> QED
  BY <1>1 DEF HalfSet, Upto

LEMMA UptoConcat ==
    ASSUME NEW s \in Seq(HalfSet), NEW t \in Seq(HalfSet), NEW q, NEW k,
           Upto(s, q, k), Upto(t, q, k)
    PROVE  Upto(s \o t, q, k)
<1> SUFFICES ASSUME NEW i \in DOMAIN (s \o t), (s \o t)[i].from = q
             PROVE  (s \o t)[i].number <= k
  BY DEF Upto
<1>1. /\ Len(s) \in Nat /\ DOMAIN s = 1..Len(s) /\ Len(t) \in Nat /\ DOMAIN t = 1..Len(t)
  BY LenProperties
<1>2. /\ s \o t \in Seq(HalfSet) /\ Len(s \o t) = Len(s) + Len(t)
      /\ \A j \in 1..(Len(s) + Len(t)) : (s \o t)[j] = IF j <= Len(s) THEN s[j] ELSE t[j - Len(s)]
  BY ConcatProperties
<1>3. i \in 1..(Len(s) + Len(t))
  BY <1>2, LenProperties
<1>4. CASE i <= Len(s)
  <2>1. i \in DOMAIN s /\ (s \o t)[i] = s[i]
    BY <1>1, <1>2, <1>3, <1>4
  <2> QED
    BY <2>1 DEF Upto
<1>5. CASE ~(i <= Len(s))
  <2>1. i - Len(s) \in DOMAIN t /\ (s \o t)[i] = t[i - Len(s)]
    BY <1>1, <1>2, <1>3, <1>5
  <2> QED
    BY <2>1 DEF Upto
<1> QED
  BY <1>4, <1>5

LEMMA UptoParts ==
    ASSUME NEW s \in Seq(HalfSet), NEW q, NEW k, Upto(s, q, k), NEW n \in 0..Len(s)
    PROVE  Upto(SubSeq(s, 1, n), q, k) /\ Upto(SubSeq(s, n + 1, Len(s)), q, k)
  BY SubSeqParts DEF Upto

LEMMA UptoWriteOver ==
    ASSUME NEW s \in Seq(HalfSet), NEW t \in Seq(HalfSet), NEW i \in Nat, i <= Len(s),
           NEW q, NEW k, Upto(s, q, k), Upto(t, q, k)
    PROVE  Upto(WriteOver(s, i, t), q, k)
<1>1. \A j \in DOMAIN WriteOver(s, i, t) :
         \/ \E m \in DOMAIN s : WriteOver(s, i, t)[j] = s[m]
         \/ \E m \in DOMAIN t : WriteOver(s, i, t)[j] = t[m]
  BY WriteOverParts
<1> QED
  BY <1>1 DEF Upto

LEMMA UptoHalves ==
    ASSUME NEW p \in Processes, NEW n \in Nat, NEW q, NEW k, p = q => n <= k
    PROVE  Upto(Halves(p, n), q, k)
<1> SUFFICES ASSUME NEW i \in 1..2, Halves(p, n)[i].from = q PROVE Halves(p, n)[i].number <= k
  <2>1. DOMAIN Halves(p, n) = 1..2
    BY HalvesType
  <2> QED
    BY <2>1 DEF Upto
<1>1. Halves(p, n)[i] = Half(p, n, i) /\ Half(p, n, i).from = p /\ Half(p, n, i).number = n
  BY HalvesType
<1> QED
  BY <1>1

LEMMA UptoNone == \A q, k : Upto(<< >>, q, k)
  BY DEF Upto

LEMMA UptoAppended ==
    ASSUME TypeOK, NEW p \in Processes, NEW s \in Seq(HalfSet), NEW q, NEW k,
           \A n \in Names : Upto(disk[n], q, k), Upto(s, q, k), NEW n \in Names
    PROVE  Upto(Appended(p, s)[n], q, k)
<1>1. disk[n] \in Seq(HalfSet)
  BY DEF TypeOK
<1>2. Appended(p, s)[n] \in {disk[n], disk[n] \o s}
  BY DEF Appended, TypeOK
<1> QED
  BY <1>1, <1>2, UptoConcat

\* No process forgets a message that it has logged.
LEMMA DoneGrows ==
    ASSUME IInv, [Next]_vars, NEW q \in Processes
    PROVE  Done(q) \in Int /\ Done(q)' \in Int /\ Done(q) <= Done(q)'
<1> DEFINE P == Done(q)' \in Int /\ Done(q) <= Done(q)'
<1> USE DEF IInv, TypeOK, HandleOK, Done
<1>0. sent[q] \in Nat /\ Done(q) \in Int
  BY BoundAssumption
<1>1. ASSUME NEW p \in Processes, NEW n \in Names, NEW lock \in rules.lockings,
             NEW del \in BOOLEAN, InitLogging(p, n, lock, del)
      PROVE  P
  BY <1>0, <1>1, SMTT(60) DEF InitLogging, At, Goto
<1>2. ASSUME NEW p \in Processes, Log(p) PROVE P
  BY <1>0, <1>2, SMTT(60) DEF Log, At, Goto, counts
<1>3. ASSUME NEW p \in Processes, DeleteOld(p) PROVE P
  BY <1>0, <1>3, SMTT(60) DEF DeleteOld, At, Goto, counts
<1>4. ASSUME NEW p \in Processes, Open(p) PROVE P
  BY <1>0, <1>4, SMTT(60) DEF Open, At, Goto, counts
<1>5. ASSUME NEW p \in Processes, Reopen(p) PROVE P
  BY <1>0, <1>5 DEF Reopen, At, Goto, counts
<1>6. ASSUME NEW p \in Processes, Lock(p) PROVE P
  BY <1>0, <1>6, SMTT(60) DEF Lock, At, Goto, counts
<1>7. ASSUME NEW p \in Processes, Seek(p) PROVE P
  BY <1>0, <1>7 DEF Seek, At, Goto, counts
<1>8. ASSUME NEW p \in Processes, WriteFile(p) PROVE P
  BY <1>0, <1>8, SMTT(60) DEF WriteFile, At, Goto, counts
<1>9. ASSUME NEW p \in Processes, Unlock(p) PROVE P
  BY <1>0, <1>9, SMTT(60) DEF Unlock, At, Goto, counts
<1>10. ASSUME NEW p \in Processes, Fprintf(p) PROVE P
  BY <1>0, <1>10, SMTT(60) DEF Fprintf, At, Goto, counts
<1>11. ASSUME NEW p \in Processes, Crash(p) PROVE P
  BY <1>0, <1>11, SMTT(60) DEF Crash, At, Goto, counts
<1>12. CASE UNCHANGED vars
  BY <1>0, <1>12 DEF vars
<1> HIDE DEF IInv, TypeOK, HandleOK, Done
<1>13. ASSUME NEW p \in Processes, Step(p) PROVE P
  BY <1>13, <1>3, <1>4, <1>5, <1>6, <1>7, <1>8, <1>9, <1>10 DEF Step
<1> QED
  BY <1>0, <1>1, <1>2, <1>11, <1>12, <1>13 DEF Next

\* Only what was logged is in the files and buffers.
LEMMA NextNumbersOK == IInv /\ [Next]_vars => NumbersOK'
<1> SUFFICES ASSUME IInv, [Next]_vars PROVE NumbersOK'
  OBVIOUS
<1> SUFFICES ASSUME NEW q \in Processes
             PROVE  /\ \A n \in Names : Upto(disk'[n], q, Done(q)')
                    /\ \A r \in Processes : Upto(buffer'[r], q, Done(q)')
  BY DEF NumbersOK
<1> DEFINE P == /\ \A n \in Names : Upto(disk'[n], q, Done(q)')
                /\ \A r \in Processes : Upto(buffer'[r], q, Done(q)')
<1> USE DEF IInv
<1>c. /\ disk \in [Names -> Seq(HalfSet)] /\ buffer \in [Processes -> Seq(HalfSet)]
      /\ Done(q) \in Int /\ Done(q)' \in Int /\ Done(q) <= Done(q)'
  BY DoneGrows DEF TypeOK
<1>a. \A n \in Names : Upto(disk[n], q, Done(q)')
  BY <1>c, UptoMore DEF NumbersOK
<1>b. \A r \in Processes : Upto(buffer[r], q, Done(q)')
  BY <1>c, UptoMore DEF NumbersOK
<1>1. ASSUME NEW p \in Processes, NEW n \in Names, NEW lock \in rules.lockings,
             NEW del \in BOOLEAN, InitLogging(p, n, lock, del)
      PROVE  P
  <2>1. disk' = Appended(p, buffer[p]) /\ buffer' = [buffer EXCEPT ![p] = << >>]
    BY <1>1 DEF InitLogging
  <2>2. ASSUME NEW n_1 \in Names PROVE Upto(disk'[n_1], q, Done(q)')
    BY <1>a, <1>b, <1>c, <2>1, UptoAppended
  <2>3. ASSUME NEW r \in Processes PROVE Upto(buffer'[r], q, Done(q)')
    BY <1>b, <1>c, <2>1, UptoNone
  <2> QED
    BY <2>2, <2>3
<1>2. ASSUME NEW p \in Processes, Log(p) PROVE P
  <2>1. disk' = disk /\ buffer' = buffer
    BY <1>2 DEF Log
  <2> QED
    BY <1>a, <1>b, <2>1
<1>3. ASSUME NEW p \in Processes, DeleteOld(p) PROVE P
  <2>1. \A n \in Names : disk'[n] = disk[n] \/ disk'[n] = << >>
    BY <1>3, <1>c DEF DeleteOld
  <2>2. buffer' = buffer
    BY <1>3 DEF DeleteOld
  <2> QED
    BY <1>a, <1>b, <2>1, <2>2, UptoNone
<1>4. ASSUME NEW p \in Processes, Open(p) PROVE P
  <2>1. disk' = disk /\ buffer' = buffer
    BY <1>4 DEF Open
  <2> QED
    BY <1>a, <1>b, <2>1
<1>5. ASSUME NEW p \in Processes, Reopen(p) PROVE P
  <2>1. disk' = disk /\ buffer' = buffer
    BY <1>5 DEF Reopen
  <2> QED
    BY <1>a, <1>b, <2>1
<1>6. ASSUME NEW p \in Processes, Lock(p) PROVE P
  <2>1. disk' = disk /\ buffer' = buffer
    BY <1>6 DEF Lock
  <2> QED
    BY <1>a, <1>b, <2>1
<1>7. ASSUME NEW p \in Processes, Seek(p) PROVE P
  <2>1. disk' = disk /\ buffer' = buffer
    BY <1>7 DEF Seek
  <2> QED
    BY <1>a, <1>b, <2>1
<1>8. ASSUME NEW p \in Processes, WriteFile(p) PROVE P
  <2>1. file[p] \in Names /\ position[p] <= Len(disk[file[p]]) /\ sent[p] \in Nat
           /\ position[p] \in Nat
    BY <1>8, BoundAssumption DEF WriteFile, At, HandleOK, TypeOK
  <2>2. /\ disk' = [disk EXCEPT ![file[p]] =
                       WriteOver(disk[file[p]], position[p], Halves(p, sent[p]))]
        /\ buffer' = buffer
    BY <1>8 DEF WriteFile
  <2>3. p = q => Done(q)' = sent[p]
    BY <1>8 DEF WriteFile, Goto, Done, TypeOK, counts
  <2>4. Halves(p, sent[p]) \in Seq(HalfSet) /\ Upto(Halves(p, sent[p]), q, Done(q)')
    BY <2>1, <2>3, HalvesType, UptoHalves
  <2>5. Upto(WriteOver(disk[file[p]], position[p], Halves(p, sent[p])), q, Done(q)')
    BY <1>a, <1>c, <2>1, <2>4, UptoWriteOver
  <2>6. \A n \in Names : Upto(disk'[n], q, Done(q)')
    BY <1>a, <1>c, <2>1, <2>2, <2>5
  <2> QED
    BY <1>b, <2>2, <2>6
<1>9. ASSUME NEW p \in Processes, Unlock(p) PROVE P
  <2>1. disk' = disk /\ buffer' = buffer
    BY <1>9 DEF Unlock
  <2> QED
    BY <1>a, <1>b, <2>1
<1>10. ASSUME NEW p \in Processes, Fprintf(p) PROVE P
  <2> DEFINE pending == buffer[p] \o Halves(p, sent[p])
  <2>1. sent[p] \in Nat
    BY BoundAssumption DEF TypeOK
  <2>2. p = q => Done(q)' = sent[p]
    BY <1>10 DEF Fprintf, Goto, Done, TypeOK, counts
  <2>3. Halves(p, sent[p]) \in Seq(HalfSet) /\ Upto(Halves(p, sent[p]), q, Done(q)')
    BY <2>1, <2>2, HalvesType, UptoHalves
  <2>4. pending \in Seq(HalfSet) /\ Len(pending) \in Nat
    BY <1>c, <2>3, ConcatProperties, LenProperties
  <2>5. Upto(pending, q, Done(q)')
    BY <1>b, <1>c, <2>3, UptoConcat
  <2>6. PICK n \in 0..Len(pending) :
             /\ disk' = Appended(p, SubSeq(pending, 1, n))
             /\ buffer' = [buffer EXCEPT ![p] = SubSeq(pending, n + 1, Len(pending))]
    BY <1>10 DEF Fprintf
  <2> HIDE DEF pending
  <2>7. /\ Upto(SubSeq(pending, 1, n), q, Done(q)')
        /\ Upto(SubSeq(pending, n + 1, Len(pending)), q, Done(q)')
        /\ SubSeq(pending, 1, n) \in Seq(HalfSet)
    BY <2>4, <2>5, UptoParts, SubSeqType
  <2>8. \A m \in Names : Upto(disk'[m], q, Done(q)')
    BY <1>a, <2>6, <2>7, UptoAppended
  <2>9. \A r \in Processes : Upto(buffer'[r], q, Done(q)')
    BY <1>b, <1>c, <2>6, <2>7
  <2> QED
    BY <2>8, <2>9
<1>11. ASSUME NEW p \in Processes, Crash(p) PROVE P
  <2>1. disk' = disk /\ buffer' = [buffer EXCEPT ![p] = << >>]
    BY <1>11 DEF Crash
  <2> QED
    BY <1>a, <1>b, <1>c, <2>1, UptoNone
<1>12. CASE UNCHANGED vars
  BY <1>a, <1>b, <1>12 DEF vars
<1>13. ASSUME NEW p \in Processes, Step(p) PROVE P
  BY <1>13, <1>3, <1>4, <1>5, <1>6, <1>7, <1>8, <1>9, <1>10 DEF Step
<1> QED
  BY <1>1, <1>2, <1>11, <1>12, <1>13 DEF Next

\* Every step keeps log_file, its pointer and its buffer as HandleOK says.
LEMMA NextHandleOK == IInv /\ [Next]_vars => HandleOK'
<1> SUFFICES ASSUME IInv, [Next]_vars PROVE HandleOK'
  OBVIOUS
<1> USE NameAssumption DEF IInv, TypeOK, HandleOK
<1>1. ASSUME NEW p \in Processes, NEW n \in Names, NEW lock \in rules.lockings,
             NEW del \in BOOLEAN, InitLogging(p, n, lock, del)
      PROVE  HandleOK'
  <2>1. Windows => disk' = disk
    BY <1>1, ConcatEmptySeq DEF InitLogging, Appended
  <2> QED
    BY <1>1, <2>1, RuleFields DEF InitLogging, At, Goto, Windows
<1>2. ASSUME NEW p \in Processes, Log(p) PROVE HandleOK'
  <2>1. UNCHANGED <<name, file, stale, buffer, position, disk, rules>>
    BY <1>2 DEF Log, globals, handle
  <2>2. /\ pc' = [pc EXCEPT ![p] = IF file[p] = NoName THEN "reopen" ELSE "lock"]
        /\ sent' = [sent EXCEPT ![p] = @ + 1]
    BY <1>2 DEF Log, Goto
  <2>3. pc \in [Processes -> Labels] /\ sent \in [Processes -> Nat]
    BY BoundAssumption
  <2>4. \A q \in Processes : q # p => pc'[q] = pc[q] /\ sent'[q] = sent[q]
    <3> HIDE DEF IInv, TypeOK, HandleOK
    <3> QED
      BY <2>2, <2>3
  <2>5. sent'[p] > 0 /\ pc'[p] = IF file[p] = NoName THEN "reopen" ELSE "lock"
    BY <2>2, <2>3
  <2> QED
    BY <2>1, <2>4, <2>5 DEF Windows
<1>3. ASSUME NEW p \in Processes, DeleteOld(p) PROVE HandleOK'
  <2>1. Windows => \A q \in Processes : file[q] # NoName => disk'[file[q]] = disk[file[q]]
    BY <1>3 DEF DeleteOld, Windows, At
  <2>2. Windows => stale' = stale
    BY <1>3 DEF DeleteOld
  <2> QED
    BY <1>3, <2>1, <2>2 DEF DeleteOld, At, Goto, globals, counts, Windows
<1>4. ASSUME NEW p \in Processes, Open(p) PROVE HandleOK'
  BY <1>4, SMTT(60) DEF Open, OpenFile, At, Goto, counts, Windows
<1>5. ASSUME NEW p \in Processes, Reopen(p) PROVE HandleOK'
  BY <1>5, SMTT(60) DEF Reopen, OpenFile, At, Goto, counts, Windows
<1>6. ASSUME NEW p \in Processes, Lock(p) PROVE HandleOK'
  BY <1>6 DEF Lock, At, Goto, counts, handle, Windows
<1>7. ASSUME NEW p \in Processes, Seek(p) PROVE HandleOK'
  <2>1. file[p] \in Names
    BY <1>7 DEF Seek, At
  <2>2. Len(disk[file[p]]) \in Nat
    BY <2>1, LenProperties
  <2> QED
    BY <1>7, <2>1, <2>2, SMTT(60) DEF Seek, At, Goto, globals, handle, counts, Windows
<1>8. ASSUME NEW p \in Processes, WriteFile(p) PROVE HandleOK'
  <2>1. file[p] \in Names /\ position[p] <= Len(disk[file[p]])
    BY <1>8 DEF WriteFile, At
  <2>2. Len(WriteOver(disk[file[p]], position[p], Halves(p, sent[p]))) >= Len(disk[file[p]])
    BY <2>1, HalvesType, WriteOverParts, BoundAssumption, SMTT(60)
  <2>3. disk' \in [Names -> Seq(HalfSet)]
    BY NextTypeOK
  <2>4. \A n \in Names : /\ Len(disk[n]) \in Nat /\ Len(disk'[n]) \in Nat
                         /\ Len(disk'[n]) >= Len(disk[n])
    BY <1>8, <2>1, <2>2, <2>3, LenProperties DEF WriteFile
  <2> QED
    BY <1>8, <2>4, SMTT(60) DEF WriteFile, At, Goto, globals, handle, counts, Windows
<1>9. ASSUME NEW p \in Processes, Unlock(p) PROVE HandleOK'
  BY <1>9 DEF Unlock, At, Goto, globals, handle, counts, Windows
<1>10. ASSUME NEW p \in Processes, Fprintf(p) PROVE HandleOK'
  BY <1>10 DEF Fprintf, At, Goto, globals, handle, counts, Windows
<1>11. ASSUME NEW p \in Processes, Crash(p) PROVE HandleOK'
  BY <1>11, SMTT(60) DEF Crash, Goto, Windows
<1>12. CASE UNCHANGED vars
  BY <1>12 DEF vars, Windows
<1> HIDE DEF IInv, TypeOK, HandleOK
<1>13. ASSUME NEW p \in Processes, Step(p) PROVE HandleOK'
  BY <1>13, <1>3, <1>4, <1>5, <1>6, <1>7, <1>8, <1>9, <1>10 DEF Step
<1> QED
  BY <1>1, <1>2, <1>11, <1>12, <1>13 DEF Next

\* If the programs keep the promise, every step keeps what PromisedOK says.
LEMMA NextPromisedOK == IInv /\ [Next]_vars => PromisedOK'
<1> SUFFICES ASSUME IInv, [Next]_vars PROVE PromisedOK'
  OBVIOUS
<1> DEFINE R(q) == /\ locking[q] = "LOCK"
                   /\ file[q] \in {NoName, name[q]} /\ mutex[q] \in {NoName, name[q]}
                   /\ pc[q] \in {"seek", "write", "unlock"} =>
                         mutex[q] = name[q] /\ owner[name[q]] = q
                   /\ pc[q] = "write" => position[q] = Len(disk[file[q]])
<1> SUFFICES ASSUME Promised', NEW q \in Processes PROVE R(q)'
  BY DEF PromisedOK
<1> DEFINE P == R(q)'
<1>a. rules' = rules
  BY RulesStay
<1>b. Windows /\ rules.lockings \subseteq {"LOCK"} /\ ~rules.again /\ ~rules.openFails
  BY <1>a DEF Promised, Windows
<1>c. \A r \in Processes : R(r)
  BY <1>b DEF IInv, PromisedOK, Promised
<1> USE <1>b, <1>c, NameAssumption DEF IInv, TypeOK, HandleOK
<1>1. ASSUME NEW p \in Processes, NEW n \in Names, NEW lock \in rules.lockings,
             NEW del \in BOOLEAN, InitLogging(p, n, lock, del)
      PROVE  P
  <2>1. disk' = disk
    BY <1>1, ConcatEmptySeq, SMTT(60) DEF InitLogging, Appended
  <2> QED
    BY <1>1, <2>1, SMTT(60) DEF InitLogging, MayInit, At, Goto
<1>2. ASSUME NEW p \in Processes, Log(p) PROVE P
  BY <1>2 DEF Log, At, Goto, globals, handle
<1>3. ASSUME NEW p \in Processes, DeleteOld(p) PROVE P
  <2>1. ASSUME NEW r \in Processes, file[r] # NoName PROVE disk'[file[r]] = disk[file[r]]
    <3>1. r \notin stale
      BY <1>b
    <3>2. CASE file[r] = name[p]
      BY <1>3, <1>b, <2>1, <3>1, <3>2 DEF DeleteOld
    <3>3. CASE file[r] # name[p]
      <4>1. file[r] \in Names
        BY <2>1
      <4>2. disk' = disk \/ disk' = [disk EXCEPT ![name[p]] = << >>]
        BY <1>3 DEF DeleteOld
      <4> QED
        BY <3>3, <4>1, <4>2, SMTT(60)
    <3> QED
      BY <3>2, <3>3
  <2> QED
    BY <1>3, <2>1, SMTT(60) DEF DeleteOld, At, Goto, globals, counts
<1>4. ASSUME NEW p \in Processes, Open(p) PROVE P
  BY <1>4, SMTT(60) DEF Open, OpenFile, OpenResults, InitLogMutex, At, Goto, counts
<1>5. ASSUME NEW p \in Processes, Reopen(p) PROVE P
  BY <1>5 DEF Reopen, OpenFile, OpenResults, At, Goto, counts
<1>6. ASSUME NEW p \in Processes, Lock(p) PROVE P
  <2>1. name[p] \in Names /\ mutex'[p] = name[p] /\ file[p] = name[p]
    BY <1>6 DEF Lock, InitLogMutex, At
  <2> QED
    BY <1>6, <2>1 DEF Lock, InitLogMutex, At, Goto, counts, handle
<1>7. ASSUME NEW p \in Processes, Seek(p) PROVE P
  BY <1>7 DEF Seek, At, Goto, globals, handle, counts
<1>8. ASSUME NEW p \in Processes, WriteFile(p) PROVE P
  <2>1. file[p] = name[p] /\ owner[name[p]] = p /\ file[p] \in Names
    BY <1>8 DEF WriteFile, At
  <2>2. q # p /\ pc[q] = "write" => disk'[file[q]] = disk[file[q]]
    BY <1>8, <2>1 DEF WriteFile
  <2> QED
    BY <1>8, <2>1, <2>2, SMTT(60) DEF WriteFile, At, Goto, globals, handle, counts
<1>9. ASSUME NEW p \in Processes, Unlock(p) PROVE P
  BY <1>9 DEF Unlock, At, Goto, globals, handle, counts
<1>10. ASSUME NEW p \in Processes, Fprintf(p) PROVE P
  BY <1>10 DEF Fprintf
<1>11. ASSUME NEW p \in Processes, Crash(p) PROVE P
  BY <1>11 DEF Crash, Goto
<1>12. CASE UNCHANGED vars
  BY <1>12 DEF vars
<1> HIDE <1>b, <1>c DEF IInv, TypeOK, HandleOK
<1>13. ASSUME NEW p \in Processes, Step(p) PROVE P
  BY <1>13, <1>3, <1>4, <1>5, <1>6, <1>7, <1>8, <1>9, <1>10 DEF Step
<1> QED
  BY <1>1, <1>2, <1>11, <1>12, <1>13 DEF Next

\* The initial states.
LEMMA InitIInv == Init => IInv
<1> SUFFICES ASSUME Init PROVE IInv
  OBVIOUS
<1> USE DEF Init
<1>1. TypeOK
  <2>1. << >> \in Seq(HalfSet)
    BY EmptySeq
  <2> QED
    BY <2>1, BoundAssumption, NameAssumption DEF TypeOK, Lockings, Labels
<1>2. NumbersOK
  BY UptoNone DEF NumbersOK
<1>3. HandleOK
  BY DEF HandleOK
<1>4. PromisedOK
  BY DEF PromisedOK
<1> QED
  BY <1>1, <1>2, <1>3, <1>4 DEF IInv

\* The invariant.
THEOREM Invariance == Spec => []IInv
<1>1. IInv /\ [Next]_vars => IInv'
  BY NextTypeOK, NextNumbersOK, NextHandleOK, NextPromisedOK DEF IInv
<1> QED
  BY <1>1, InitIInv, PTL DEF Spec

\* The variables always have their types: no index and no name leaves its range.
THEOREM TypeCorrect == Spec => []TypeOK
<1>1. IInv => TypeOK
  BY DEF IInv
<1> QED
  BY <1>1, Invariance, PTL

\* Of processes that keep the promise one at a time is between the mutex and its
\* release, in each file.
THEOREM WritersSafe == Spec => []WritersExclude
<1>1. IInv => WritersExclude
  <2> SUFFICES ASSUME IInv, Promised, NEW p \in Processes, NEW q \in Processes,
                      Writing(p), Writing(q), file[p] = file[q]
               PROVE  p = q
    BY DEF WritersExclude
  <2>1. file[p] = name[p] /\ owner[name[p]] = p
    BY DEF IInv, HandleOK, PromisedOK, Writing
  <2>2. file[q] = name[q] /\ owner[name[q]] = q
    BY DEF IInv, HandleOK, PromisedOK, Writing
  <2> QED
    BY <2>1, <2>2
<1> QED
  BY <1>1, Invariance, PTL

\* The files of a program that keeps the promise, as AbstractLog sees them.
log == IF Promised THEN disk ELSE [n \in Names |-> << >>]

\* A message that is written is an Output of AbstractLog.
LEMMA WriteIsOutput ==
    ASSUME IInv, NEW p \in Processes, WriteFile(p), Promised
    PROVE  file[p] \in Names /\ sent[p] \in 1..MaxMessages
             /\ PromisedLog!Output(file[p], p, sent[p])
<1>1. /\ file[p] \in Names /\ position[p] = Len(disk[file[p]]) /\ pc[p] = "write"
      /\ sent[p] \in 1..MaxMessages
  BY BoundAssumption DEF IInv, TypeOK, HandleOK, PromisedOK, WriteFile, At
<1>2. disk[file[p]] \in Seq(HalfSet) /\ Halves(p, sent[p]) \in Seq(HalfSet)
  BY <1>1, HalvesType, BoundAssumption DEF IInv, TypeOK
<1>3. disk' = [disk EXCEPT ![file[p]] = disk[file[p]] \o Halves(p, sent[p])]
  BY <1>1, <1>2, WriteOverEnd DEF WriteFile
<1>4. Halves(p, sent[p]) = PromisedLog!Halves(p, sent[p])
  BY DEF Halves, Half, PromisedLog!Halves
<1>5. Promised'
  BY DEF WriteFile, counts, Promised, Windows
<1>6. ASSUME NEW i \in DOMAIN disk[file[p]], disk[file[p]][i].from = p
      PROVE  disk[file[p]][i].number < sent[p]
  <2>1. disk[file[p]][i].number <= sent[p] - 1
    BY <1>1, <1>6 DEF IInv, NumbersOK, Upto, Done
  <2>2. disk[file[p]][i] \in HalfSet
    BY <1>2, ElementOfSeq, LenProperties
  <2> QED
    BY <1>1, <2>1, <2>2, BoundAssumption DEF HalfSet
<1> QED
  BY <1>1, <1>3, <1>4, <1>5, <1>6 DEF PromisedLog!Output

\* A file that is deleted is a Remove of AbstractLog.
LEMMA DeleteIsRemove ==
    ASSUME IInv, NEW p \in Processes, DeleteOld(p), Promised
    PROVE  name[p] \in Names /\ (PromisedLog!Remove(name[p]) \/ UNCHANGED log)
<1>1. name[p] \in Names /\ Promised'
  BY DEF IInv, TypeOK, HandleOK, DeleteOld, At, counts, Promised, Windows
<1>2. disk' = disk \/ disk' = [disk EXCEPT ![name[p]] = << >>]
  BY DEF DeleteOld
<1> QED
  BY <1>1, <1>2 DEF PromisedLog!Remove, log

\* Every other step leaves the files of such programs alone.
LEMMA OthersStutter ==
    ASSUME IInv, [Next]_vars, Promised,
           \A p \in Processes : ~WriteFile(p) /\ ~DeleteOld(p)
    PROVE  UNCHANGED log
<1>1. rules' = rules
  BY RulesStay
<1>2. Windows /\ Promised'
  BY <1>1 DEF Promised, Windows
<1>3. ASSUME NEW p \in Processes, NEW n \in Names, NEW lock \in rules.lockings,
             NEW del \in BOOLEAN, InitLogging(p, n, lock, del)
      PROVE  disk' = disk
  BY <1>2, <1>3, ConcatEmptySeq DEF InitLogging, Appended, IInv, TypeOK, HandleOK
<1>4. ASSUME NEW p \in Processes, Step(p) PROVE disk' = disk
  BY <1>2, <1>4 DEF Step, Open, Reopen, Lock, Seek, Unlock, Fprintf
<1>5. ASSUME NEW p \in Processes, Log(p) \/ Crash(p) PROVE disk' = disk
  BY <1>5 DEF Log, Crash
<1>6. disk' = disk
  BY <1>3, <1>4, <1>5 DEF Next, vars
<1> QED
  BY <1>2, <1>6 DEF log

\* On Windows the files of the processes that keep the promise of logging.h are what
\* AbstractLog promises: whole messages, each once, in order, also if processes die.
THEOREM Implements == Spec => ImplementsLog
<1>1. Init => PromisedLog!Init
  BY DEF Init, PromisedLog!Init
<1>2. IInv /\ [Next]_vars => [PromisedLog!Next]_log
  <2> SUFFICES ASSUME IInv, [Next]_vars PROVE PromisedLog!Next \/ UNCHANGED log
    OBVIOUS
  <2>1. CASE ~Promised
    <3>1. rules' = rules
      BY RulesStay
    <3> QED
      BY <2>1, <3>1 DEF log, Promised, Windows
  <2>2. ASSUME Promised, NEW p \in Processes, WriteFile(p) PROVE PromisedLog!Next
    BY <2>2, WriteIsOutput DEF PromisedLog!Next
  <2>3. ASSUME Promised, NEW p \in Processes, DeleteOld(p)
        PROVE  PromisedLog!Next \/ UNCHANGED log
    BY <2>3, DeleteIsRemove DEF PromisedLog!Next
  <2> QED
    BY <2>1, <2>2, <2>3, OthersStutter
<1> QED
  BY <1>1, <1>2, Invariance, PTL DEF Spec, ImplementsLog, PromisedLog!Spec, log
-----------------------------------------------------------------------------
\* Nothing is lost.  In every file the halves of a process are in order and come
\* before those in its buffer, where only its own are; and what it sent since it opened
\* its file is in one of the two.
Ordered == Promised \/ ~Windows

Own(s, p)        == \A i \in DOMAIN s : s[i].from = p
Precede(s, t, p) == \A i \in DOMAIN s, j \in DOMAIN t :
                       s[i].from = p /\ t[j].from = p => Before(s[i], t[j])
In(x, s)         == \E i \in DOMAIN s : s[i] = x

StreamOK ==
    Ordered => \A p \in Processes :
      /\ Own(buffer[p], p) /\ InOrder(buffer[p], p)
      /\ \A n \in Names : InOrder(disk[n], p) /\ Precede(disk[n], buffer[p], p)

HeldOK ==
    Ordered => \A p \in Processes : file[p] # NoName /\ p \notin stale =>
      \A k \in since[p]..Done(p), h \in 1..2 :
         In(Half(p, k, h), disk[file[p]]) \/ In(Half(p, k, h), buffer[p])

\* The elements of a concatenation and where they come from.
LEMMA ConcatPlaces ==
    ASSUME NEW S, NEW s \in Seq(S), NEW t \in Seq(S)
    PROVE  /\ Len(s) \in Nat
           /\ \A i \in DOMAIN s : i \in 1..Len(s) /\ i \in DOMAIN (s \o t) /\ (s \o t)[i] = s[i]
           /\ \A i \in DOMAIN t : /\ i \in Nat \ {0} /\ i + Len(s) \in DOMAIN (s \o t)
                                  /\ (s \o t)[i + Len(s)] = t[i]
           /\ \A i \in DOMAIN (s \o t) :
                 /\ i \in Nat \ {0}
                 /\ \/ i \in DOMAIN s
                    \/ i > Len(s) /\ i - Len(s) \in DOMAIN t /\ (s \o t)[i] = t[i - Len(s)]
<1>1. Len(s) \in Nat /\ DOMAIN s = 1..Len(s) /\ Len(t) \in Nat /\ DOMAIN t = 1..Len(t)
  BY LenProperties
<1>2. /\ s \o t \in Seq(S) /\ Len(s \o t) = Len(s) + Len(t)
      /\ \A j \in 1..(Len(s) + Len(t)) : (s \o t)[j] = IF j <= Len(s) THEN s[j] ELSE t[j - Len(s)]
  BY ConcatProperties
<1>3. DOMAIN (s \o t) = 1..(Len(s) + Len(t))
  BY <1>2, LenProperties
<1>4. ASSUME NEW i \in DOMAIN t
      PROVE  /\ i \in Nat \ {0} /\ i + Len(s) \in DOMAIN (s \o t)
             /\ (s \o t)[i + Len(s)] = t[i]
  <2>1. i \in Nat \ {0} /\ i + Len(s) \in 1..(Len(s) + Len(t)) /\ ~(i + Len(s) <= Len(s))
           /\ (i + Len(s)) - Len(s) = i
    BY <1>1
  <2> QED
    BY <1>2, <1>3, <2>1
<1>5. ASSUME NEW i \in DOMAIN (s \o t), i \notin DOMAIN s
      PROVE  i > Len(s) /\ i - Len(s) \in DOMAIN t /\ (s \o t)[i] = t[i - Len(s)]
  BY <1>1, <1>2, <1>3, <1>5
<1>6. \A i \in DOMAIN s : i \in 1..Len(s) /\ i \in DOMAIN (s \o t) /\ (s \o t)[i] = s[i]
  BY <1>1, <1>2, <1>3
<1>7. \A i \in DOMAIN (s \o t) : i \in Nat \ {0}
  BY <1>1, <1>3
<1> QED
  BY <1>1, <1>4, <1>5, <1>6, <1>7

LEMMA ConcatTail ==
    ASSUME NEW S, NEW s \in Seq(S), NEW t \in Seq(S), NEW j \in DOMAIN t
    PROVE  \E i \in DOMAIN (s \o t) : (s \o t)[i] = t[j]
<1>1. j + Len(s) \in DOMAIN (s \o t) /\ (s \o t)[j + Len(s)] = t[j]
  BY ConcatPlaces
<1> QED
  BY <1>1

LEMMA InConcat ==
    ASSUME NEW S, NEW s \in Seq(S), NEW t \in Seq(S), NEW x
    PROVE  In(x, s \o t) <=> In(x, s) \/ In(x, t)
  BY ConcatPlaces DEF In

LEMMA OwnConcat ==
    ASSUME NEW s \in Seq(HalfSet), NEW t \in Seq(HalfSet), NEW p
    PROVE  Own(s \o t, p) <=> Own(s, p) /\ Own(t, p)
<1>1. Own(s, p) /\ Own(t, p) => Own(s \o t, p)
  BY ConcatPlaces DEF Own
<1>2. ASSUME Own(s \o t, p) PROVE Own(s, p) /\ Own(t, p)
  <2>1. Own(s, p)
    BY <1>2, ConcatPlaces DEF Own
  <2>2. ASSUME NEW i \in DOMAIN t PROVE t[i].from = p
    BY <1>2, ConcatPlaces DEF Own
  <2> QED
    BY <2>1, <2>2 DEF Own
<1> QED
  BY <1>1, <1>2

LEMMA PrecedeConcat ==
    ASSUME NEW s \in Seq(HalfSet), NEW t \in Seq(HalfSet), NEW u \in Seq(HalfSet), NEW p
    PROVE  /\ Precede(s \o t, u, p) <=> Precede(s, u, p) /\ Precede(t, u, p)
           /\ Precede(u, s \o t, p) <=> Precede(u, s, p) /\ Precede(u, t, p)
<1>1. /\ \A i \in DOMAIN (s \o t) : \/ \E j \in DOMAIN s : (s \o t)[i] = s[j]
                                    \/ \E j \in DOMAIN t : (s \o t)[i] = t[j]
      /\ \A j \in DOMAIN s : \E i \in DOMAIN (s \o t) : (s \o t)[i] = s[j]
      /\ \A j \in DOMAIN t : \E i \in DOMAIN (s \o t) : (s \o t)[i] = t[j]
  <2>1. ASSUME NEW j \in DOMAIN t PROVE \E i \in DOMAIN (s \o t) : (s \o t)[i] = t[j]
    BY ConcatTail
  <2>2. ASSUME NEW j \in DOMAIN s PROVE \E i \in DOMAIN (s \o t) : (s \o t)[i] = s[j]
    BY ConcatPlaces
  <2>3. ASSUME NEW i \in DOMAIN (s \o t)
        PROVE  \/ \E j \in DOMAIN s : (s \o t)[i] = s[j]
               \/ \E j \in DOMAIN t : (s \o t)[i] = t[j]
    BY ConcatPlaces
  <2> QED
    BY <2>1, <2>2, <2>3
<1> DEFINE st == s \o t
<1> HIDE DEF st
<1>2. /\ \A i \in DOMAIN st : \/ \E j \in DOMAIN s : st[i] = s[j]
                              \/ \E j \in DOMAIN t : st[i] = t[j]
      /\ \A j \in DOMAIN s : \E i \in DOMAIN st : st[i] = s[j]
      /\ \A j \in DOMAIN t : \E i \in DOMAIN st : st[i] = t[j]
  BY <1>1 DEF st
<1>3. Precede(st, u, p) <=> Precede(s, u, p) /\ Precede(t, u, p)
  BY <1>2, SMTT(60) DEF Precede
<1>4. Precede(u, st, p) <=> Precede(u, s, p) /\ Precede(u, t, p)
  BY <1>2, SMTT(60) DEF Precede
<1> QED
  BY <1>3, <1>4 DEF st

LEMMA InOrderConcat ==
    ASSUME NEW s \in Seq(HalfSet), NEW t \in Seq(HalfSet), NEW p
    PROVE  InOrder(s \o t, p) <=> InOrder(s, p) /\ InOrder(t, p) /\ Precede(s, t, p)
<1> DEFINE st == s \o t
<1>1. /\ Len(s) \in Nat
      /\ \A i \in DOMAIN s : i \in 1..Len(s) /\ i \in DOMAIN st /\ st[i] = s[i]
      /\ \A i \in DOMAIN t : /\ i \in Nat \ {0} /\ i + Len(s) \in DOMAIN st
                             /\ st[i + Len(s)] = t[i]
      /\ \A i \in DOMAIN st :
            /\ i \in Nat \ {0}
            /\ \/ i \in DOMAIN s
               \/ i > Len(s) /\ i - Len(s) \in DOMAIN t /\ st[i] = t[i - Len(s)]
  BY ConcatPlaces
<1> HIDE DEF st
<1>2. ASSUME InOrder(s, p), InOrder(t, p), Precede(s, t, p),
             NEW i \in DOMAIN st, NEW j \in DOMAIN st,
             i < j, st[i].from = p, st[j].from = p
      PROVE  Before(st[i], st[j])
  <2>1. CASE i \in DOMAIN s /\ j \in DOMAIN s
    BY <1>1, <1>2, <2>1 DEF InOrder
  <2>2. CASE i \in DOMAIN s /\ j \notin DOMAIN s
    BY <1>1, <1>2, <2>2 DEF Precede
  <2>3. CASE i \notin DOMAIN s /\ j \notin DOMAIN s
    <3>1. /\ i - Len(s) \in DOMAIN t /\ st[i] = t[i - Len(s)]
          /\ j - Len(s) \in DOMAIN t /\ st[j] = t[j - Len(s)]
          /\ i - Len(s) < j - Len(s)
      BY <1>1, <1>2, <2>3
    <3> QED
      BY <1>2, <3>1 DEF InOrder
  <2>4. ~(i \notin DOMAIN s /\ j \in DOMAIN s)
    BY <1>1, <1>2
  <2> QED
    BY <2>1, <2>2, <2>3, <2>4
<1>3. ASSUME InOrder(st, p) PROVE InOrder(s, p) /\ InOrder(t, p) /\ Precede(s, t, p)
  <2>1. InOrder(s, p)
    BY <1>1, <1>3 DEF InOrder
  <2>2. ASSUME NEW i \in DOMAIN t, NEW j \in DOMAIN t, i < j, t[i].from = p, t[j].from = p
        PROVE  Before(t[i], t[j])
    <3>1. /\ i + Len(s) \in DOMAIN st /\ st[i + Len(s)] = t[i]
          /\ j + Len(s) \in DOMAIN st /\ st[j + Len(s)] = t[j]
          /\ i + Len(s) < j + Len(s)
      BY <1>1, <2>2
    <3> QED
      BY <1>3, <2>2, <3>1 DEF InOrder
  <2>3. ASSUME NEW i \in DOMAIN s, NEW j \in DOMAIN t, s[i].from = p, t[j].from = p
        PROVE  Before(s[i], t[j])
    <3>1. /\ i \in DOMAIN st /\ st[i] = s[i]
          /\ j + Len(s) \in DOMAIN st /\ st[j + Len(s)] = t[j]
          /\ i < j + Len(s)
      BY <1>1, <2>3
    <3> QED
      BY <1>3, <2>3, <3>1 DEF InOrder
  <2> QED
    BY <2>1, <2>2, <2>3 DEF InOrder, Precede
<1>4. InOrder(st, p) <=> InOrder(s, p) /\ InOrder(t, p) /\ Precede(s, t, p)
  BY <1>2, <1>3 DEF InOrder
<1> QED
  BY <1>4 DEF st

\* A sequence without elements, and one that p alone has written, seen by another.
LEMMA NoneInOrder ==
    \A p : /\ Own(<< >>, p) /\ InOrder(<< >>, p)
           /\ \A s : Precede(s, << >>, p) /\ Precede(<< >>, s, p)
  BY DEF Own, InOrder, Precede

LEMMA OthersInOrder ==
    ASSUME NEW s, NEW p, NEW q, q # p, Own(s, p)
    PROVE  InOrder(s, q) /\ \A t : Precede(s, t, q) /\ Precede(t, s, q)
  BY DEF Own, InOrder, Precede

\* A message is in order, and after all of its process that was done before.
LEMMA HalvesInOrder ==
    ASSUME NEW p \in Processes, NEW n \in Nat, NEW s \in Seq(HalfSet), Upto(s, p, n - 1)
    PROVE  /\ Own(Halves(p, n), p) /\ InOrder(Halves(p, n), p)
           /\ Precede(s, Halves(p, n), p)
<1>1. /\ DOMAIN Halves(p, n) = 1..2
      /\ \A h \in 1..2 : /\ Halves(p, n)[h].from = p
                         /\ Halves(p, n)[h].number = n /\ Halves(p, n)[h].half = h
  BY HalvesType
<1>2. InOrder(Halves(p, n), p)
  BY <1>1 DEF InOrder, Before
<1>3. ASSUME NEW i \in DOMAIN s, NEW j \in 1..2, s[i].from = p
      PROVE  Before(s[i], Halves(p, n)[j])
  <2>1. s[i] \in HalfSet /\ s[i].number <= n - 1
    BY <1>3, ElementOfSeq, LenProperties DEF Upto
  <2>2. s[i].number < n
    BY <2>1 DEF HalfSet
  <2> QED
    BY <1>1, <2>2 DEF Before
<1> QED
  BY <1>1, <1>2, <1>3 DEF Own, Precede

\* A sequence is its two parts.
LEMMA SubSeqConcat ==
    ASSUME NEW S, NEW s \in Seq(S), NEW n \in 0..Len(s)
    PROVE  s = SubSeq(s, 1, n) \o SubSeq(s, n + 1, Len(s))
<1> DEFINE a == SubSeq(s, 1, n)
           b == SubSeq(s, n + 1, Len(s))
<1>1. Len(s) \in Nat /\ n \in Nat /\ n <= Len(s)
  BY LenProperties
<1>2. a \in Seq(S) /\ b \in Seq(S)
  BY SubSeqType
<1>3. Len(a) = n /\ \A k \in 1..n : a[k] = s[k]
  BY <1>1, SubSeqProperties
<1>4. b = [k \in 1..(Len(s) - n) |-> s[k + n]]
  BY <1>1
<1>5. Len(b) = Len(s) - n /\ \A k \in 1..(Len(s) - n) : b[k] = s[k + n]
  BY <1>1, <1>2, <1>4, LenProperties
<1> HIDE DEF a, b
<1>6. /\ a \o b \in Seq(S) /\ Len(a \o b) = Len(s)
      /\ \A j \in 1..Len(s) : (a \o b)[j] = IF j <= n THEN a[j] ELSE b[j - n]
  BY <1>1, <1>2, <1>3, <1>5, ConcatProperties
<1>7. \A j \in 1..Len(s) : (a \o b)[j] = s[j]
  <2>1. ASSUME NEW j \in 1..Len(s), j <= n PROVE (a \o b)[j] = s[j]
    BY <1>3, <1>6, <2>1
  <2>2. ASSUME NEW j \in 1..Len(s), ~(j <= n) PROVE (a \o b)[j] = s[j]
    <3>1. j - n \in 1..(Len(s) - n) /\ (j - n) + n = j
      BY <1>1, <2>2
    <3> QED
      BY <1>5, <1>6, <2>2, <3>1
  <2> QED
    BY <2>1, <2>2
<1> QED
  BY <1>1, <1>6, <1>7, SeqEqual DEF a, b

\* Whether the files of a program are ordered does not change.
LEMMA RulesRigid == [Next]_vars => rules' = rules /\ (Ordered' <=> Ordered)
<1>1. [Next]_vars => rules' = rules
  BY RulesStay
<1> QED
  BY <1>1 DEF Ordered, Promised, Windows

\* What p had buffered or just made goes to a file, all of it or the first part s, and t
\* stays in the buffer.
LEMMA FlushKeepsOrder ==
    ASSUME TypeOK, StreamOK, Ordered, NEW p \in Processes,
           NEW s \in Seq(HalfSet), NEW t \in Seq(HalfSet),
           Own(s, p), Own(t, p), InOrder(s, p), InOrder(t, p), Precede(s, t, p),
           \A n \in Names : Precede(disk[n], s, p) /\ Precede(disk[n], t, p),
           \A n \in Names : disk'[n] \in {disk[n], disk[n] \o s},
           buffer' = [buffer EXCEPT ![p] = t]
    PROVE  StreamOK'
<1> SUFFICES ASSUME NEW q \in Processes
             PROVE  /\ Own(buffer'[q], q) /\ InOrder(buffer'[q], q)
                    /\ \A n \in Names : InOrder(disk'[n], q) /\ Precede(disk'[n], buffer'[q], q)
  BY DEF StreamOK
<1>1. buffer' = [buffer EXCEPT ![p] = t] /\ buffer \in [Processes -> Seq(HalfSet)]
  BY DEF TypeOK
<1>2. /\ Own(buffer[q], q) /\ InOrder(buffer[q], q)
      /\ \A n \in Names : InOrder(disk[n], q) /\ Precede(disk[n], buffer[q], q)
  BY DEF StreamOK
<1>3. Own(buffer'[q], q) /\ InOrder(buffer'[q], q)
  BY <1>1, <1>2
<1>4. ASSUME NEW n \in Names
      PROVE  InOrder(disk'[n], q) /\ Precede(disk'[n], buffer'[q], q)
  <2>1. disk[n] \in Seq(HalfSet) /\ buffer[q] \in Seq(HalfSet)
    BY DEF TypeOK
  <2>2. /\ InOrder(s, q) /\ Precede(disk[n], s, q)
        /\ Precede(disk[n], buffer'[q], q) /\ Precede(s, buffer'[q], q)
        /\ buffer'[q] \in Seq(HalfSet)
    <3>1. CASE q = p
      BY <1>1, <3>1
    <3>2. CASE q # p
      BY <1>1, <1>2, <2>1, <3>2, OthersInOrder
    <3> QED
      BY <3>1, <3>2
  <2>3. InOrder(disk[n] \o s, q) /\ Precede(disk[n] \o s, buffer'[q], q)
    BY <1>2, <2>1, <2>2, InOrderConcat, PrecedeConcat
  <2> QED
    BY <1>2, <2>2, <2>3
<1> QED
  BY <1>3, <1>4

\* Nothing but the processes' own steps to disk and buffer disturbs the order.
LEMMA SameKeepsOrder ==
    ASSUME StreamOK, Ordered' <=> Ordered, buffer' = buffer,
           \A n \in Names : disk'[n] \in {disk[n], << >>}
    PROVE  StreamOK'
  BY NoneInOrder DEF StreamOK

\* What the next message makes of the buffer.
LEMMA PendingOK ==
    ASSUME IInv, StreamOK, Ordered, NEW p \in Processes, pc[p] = "write",
           NEW pending, pending = buffer[p] \o Halves(p, sent[p])
    PROVE  /\ pending \in Seq(HalfSet) /\ Own(pending, p) /\ InOrder(pending, p)
           /\ \A n \in Names : Precede(disk[n], pending, p)
<1>1. /\ sent[p] \in Nat /\ buffer[p] \in Seq(HalfSet)
      /\ \A n \in Names : disk[n] \in Seq(HalfSet)
  BY BoundAssumption DEF IInv, TypeOK
<1>2. /\ Upto(buffer[p], p, sent[p] - 1)
      /\ \A n \in Names : Upto(disk[n], p, sent[p] - 1)
  BY DEF IInv, NumbersOK, Done
<1>3. /\ Halves(p, sent[p]) \in Seq(HalfSet) /\ Own(Halves(p, sent[p]), p)
      /\ InOrder(Halves(p, sent[p]), p) /\ Precede(buffer[p], Halves(p, sent[p]), p)
      /\ \A n \in Names : Precede(disk[n], Halves(p, sent[p]), p)
  BY <1>1, <1>2, HalvesType, HalvesInOrder
<1>4. /\ Own(buffer[p], p) /\ InOrder(buffer[p], p)
      /\ \A n \in Names : Precede(disk[n], buffer[p], p)
  BY DEF StreamOK
<1>5. pending \in Seq(HalfSet)
  BY <1>1, <1>3, ConcatProperties
<1>6. \A n \in Names : Precede(disk[n], pending, p)
  BY <1>1, <1>3, <1>4, PrecedeConcat
<1> QED
  BY <1>1, <1>3, <1>4, <1>5, <1>6, OwnConcat, InOrderConcat

\* What fprintf does: pending is cut somewhere, its first part joins the file, unless
\* that was unlinked, and the rest is the buffer.
LEMMA FprintfParts ==
    ASSUME IInv, StreamOK, Ordered, NEW p \in Processes, Fprintf(p)
    PROVE  \E s, t \in Seq(HalfSet) :
             /\ s \o t = buffer[p] \o Halves(p, sent[p])
             /\ Own(s, p) /\ Own(t, p) /\ InOrder(s, p) /\ InOrder(t, p) /\ Precede(s, t, p)
             /\ \A n \in Names : Precede(disk[n], s, p) /\ Precede(disk[n], t, p)
             /\ disk' = Appended(p, s) /\ buffer' = [buffer EXCEPT ![p] = t]
<1> DEFINE pending == buffer[p] \o Halves(p, sent[p])
<1>1. /\ pending \in Seq(HalfSet) /\ Own(pending, p) /\ InOrder(pending, p)
      /\ \A n \in Names : Precede(disk[n], pending, p)
  BY PendingOK DEF Fprintf, At
<1>2. PICK n \in 0..Len(pending) :
           /\ disk' = Appended(p, SubSeq(pending, 1, n))
           /\ buffer' = [buffer EXCEPT ![p] = SubSeq(pending, n + 1, Len(pending))]
  BY DEF Fprintf
<1> HIDE DEF pending
<1> DEFINE s == SubSeq(pending, 1, n)
           t == SubSeq(pending, n + 1, Len(pending))
<1>3. s \in Seq(HalfSet) /\ t \in Seq(HalfSet) /\ pending = s \o t
  BY <1>1, SubSeqType, SubSeqConcat
<1>4. disk' = Appended(p, s) /\ buffer' = [buffer EXCEPT ![p] = t]
  BY <1>2
<1> HIDE DEF s, t
<1>5. /\ Own(s, p) /\ Own(t, p) /\ InOrder(s, p) /\ InOrder(t, p) /\ Precede(s, t, p)
  BY <1>1, <1>3, OwnConcat, InOrderConcat
<1>6. \A m \in Names : Precede(disk[m], s, p) /\ Precede(disk[m], t, p)
  <2> SUFFICES ASSUME NEW m \in Names PROVE Precede(disk[m], s, p) /\ Precede(disk[m], t, p)
    OBVIOUS
  <2>1. disk[m] \in Seq(HalfSet)
    BY DEF IInv, TypeOK
  <2> QED
    BY <1>1, <1>3, <2>1, PrecedeConcat
<1> QED
  BY <1>3, <1>4, <1>5, <1>6 DEF pending

\* What is appended goes to one file.
LEMMA AppendedCases ==
    ASSUME TypeOK, NEW p \in Processes, NEW s
    PROVE  \A n \in Names : Appended(p, s)[n] \in {disk[n], disk[n] \o s}
  BY DEF Appended, TypeOK

\* Every step keeps files and buffers in order.
LEMMA NextStreamOK == IInv /\ StreamOK /\ [Next]_vars => StreamOK'
<1> SUFFICES ASSUME IInv, StreamOK, [Next]_vars, Ordered PROVE StreamOK'
  BY RulesRigid DEF StreamOK
<1>a. /\ TypeOK /\ (Ordered' <=> Ordered)
      /\ disk \in [Names -> Seq(HalfSet)] /\ buffer \in [Processes -> Seq(HalfSet)]
  BY RulesRigid DEF IInv, TypeOK
<1>b. << >> \in Seq(HalfSet)
  BY EmptySeq
<1>1. ASSUME NEW p \in Processes, NEW n \in Names, NEW lock \in rules.lockings,
             NEW del \in BOOLEAN, InitLogging(p, n, lock, del)
      PROVE  StreamOK'
  <2>1. disk' = Appended(p, buffer[p]) /\ buffer' = [buffer EXCEPT ![p] = << >>]
    BY <1>1 DEF InitLogging
  <2>2. /\ Own(buffer[p], p) /\ InOrder(buffer[p], p)
        /\ \A m \in Names : Precede(disk[m], buffer[p], p)
    BY DEF StreamOK
  <2>3. buffer[p] \in Seq(HalfSet) /\ \A m \in Names : disk'[m] \in {disk[m], disk[m] \o buffer[p]}
    BY <1>a, <2>1, AppendedCases
  <2> QED
    BY <1>a, <1>b, <2>1, <2>2, <2>3, NoneInOrder, FlushKeepsOrder
<1>2. ASSUME NEW p \in Processes, DeleteOld(p) PROVE StreamOK'
  <2>1. buffer' = buffer /\ \A n \in Names : disk'[n] \in {disk[n], << >>}
    BY <1>2, <1>a DEF DeleteOld
  <2> QED
    BY <1>a, <2>1, SameKeepsOrder
<1>3. ASSUME NEW p \in Processes, WriteFile(p) PROVE StreamOK'
  <2>1. Promised /\ file[p] \in Names /\ pc[p] = "write" /\ buffer[p] = << >>
           /\ position[p] = Len(disk[file[p]]) /\ sent[p] \in Nat
    BY <1>3, BoundAssumption
       DEF WriteFile, At, Ordered, IInv, TypeOK, HandleOK, PromisedOK
  <2> DEFINE s == Halves(p, sent[p])
  <2>2. s \in Seq(HalfSet)
    BY <2>1, HalvesType
  <2>3. Own(s, p) /\ InOrder(s, p) /\ \A n \in Names : Precede(disk[n], s, p)
    <3>1. << >> \o s = s
      BY <2>2, ConcatEmptySeq
    <3> QED
      BY <2>1, <3>1, PendingOK
  <2>4. disk' = [disk EXCEPT ![file[p]] = disk[file[p]] \o s]
    BY <1>3, <1>a, <2>1, <2>2, WriteOverEnd DEF WriteFile
  <2>5. buffer' = [buffer EXCEPT ![p] = << >>]
    BY <1>3, <1>a, <2>1 DEF WriteFile
  <2> HIDE DEF s
  <2>6. \A n \in Names : disk'[n] \in {disk[n], disk[n] \o s}
    BY <1>a, <2>4
  <2> QED
    BY <1>a, <1>b, <2>2, <2>3, <2>5, <2>6, NoneInOrder, FlushKeepsOrder
<1>4. ASSUME NEW p \in Processes, Fprintf(p) PROVE StreamOK'
  <2>1. PICK s, t \in Seq(HalfSet) :
           /\ Own(s, p) /\ Own(t, p) /\ InOrder(s, p) /\ InOrder(t, p) /\ Precede(s, t, p)
           /\ \A n \in Names : Precede(disk[n], s, p) /\ Precede(disk[n], t, p)
           /\ disk' = Appended(p, s) /\ buffer' = [buffer EXCEPT ![p] = t]
    BY <1>4, FprintfParts
  <2>2. \A n \in Names : disk'[n] \in {disk[n], disk[n] \o s}
    BY <1>a, <2>1, AppendedCases
  <2> QED
    BY <1>a, <2>1, <2>2, FlushKeepsOrder
<1>5. ASSUME NEW p \in Processes, Crash(p) PROVE StreamOK'
  <2>1. disk' = disk /\ buffer' = [buffer EXCEPT ![p] = << >>]
    BY <1>5 DEF Crash
  <2>2. \A n \in Names : disk'[n] \in {disk[n], disk[n] \o << >>}
    BY <2>1
  <2> QED
    BY <1>a, <1>b, <2>1, <2>2, NoneInOrder, FlushKeepsOrder
<1>6. ASSUME disk' = disk, buffer' = buffer PROVE StreamOK'
  BY <1>6, <1>a, SameKeepsOrder
<1>7. ASSUME NEW p \in Processes, Step(p) PROVE StreamOK'
  BY <1>7, <1>2, <1>3, <1>4, <1>6 DEF Step, Open, Reopen, Lock, Seek, Unlock
<1>8. ASSUME NEW p \in Processes, Log(p) PROVE StreamOK'
  BY <1>8, <1>6 DEF Log
<1> QED
  BY <1>1, <1>5, <1>6, <1>7, <1>8 DEF Next, vars

\* A half that is in a file or buffer when p appends s is there afterwards.
LEMMA InGrows ==
    ASSUME TypeOK, NEW p \in Processes, NEW s \in Seq(HalfSet), NEW n \in Names, NEW x,
           In(x, disk[n])
    PROVE  In(x, Appended(p, s)[n])
<1>1. disk[n] \in Seq(HalfSet) /\ Appended(p, s)[n] \in {disk[n], disk[n] \o s}
  BY AppendedCases DEF TypeOK
<1>2. In(x, disk[n] \o s)
  BY <1>1, InConcat
<1> QED
  BY <1>1, <1>2

\* Both halves of a message are in it.
LEMMA HalvesHold ==
    ASSUME NEW p \in Processes, NEW n \in Nat, NEW h \in 1..2
    PROVE  In(Half(p, n, h), Halves(p, n))
  BY HalvesType DEF In

\* Every step keeps what was sent in file or buffer.
LEMMA NextHeldOK == IInv /\ StreamOK /\ HeldOK /\ [Next]_vars => HeldOK'
<1> SUFFICES ASSUME IInv, StreamOK, HeldOK, [Next]_vars, Ordered,
                    NEW q \in Processes, file'[q] # NoName, q \notin stale',
                    NEW k \in since'[q]..Done(q)', NEW h \in 1..2
             PROVE  In(Half(q, k, h), disk'[file'[q]]) \/ In(Half(q, k, h), buffer'[q])
  BY RulesRigid DEF HeldOK
<1> DEFINE x == Half(q, k, h)
           P == In(x, disk'[file'[q]]) \/ In(x, buffer'[q])
<1>a. /\ TypeOK /\ disk \in [Names -> Seq(HalfSet)] /\ buffer \in [Processes -> Seq(HalfSet)]
      /\ sent[q] \in Nat /\ since[q] \in Nat /\ k \in Int
      /\ file \in [Processes -> Names \cup {NoName}]
  BY BoundAssumption DEF IInv, TypeOK
<1>b. ASSUME file[q] # NoName, q \notin stale, k \in since[q]..Done(q)
      PROVE  file[q] \in Names /\ (In(x, disk[file[q]]) \/ In(x, buffer[q]))
  BY <1>a, <1>b DEF HeldOK
<1> HIDE DEF x
<1>1. ASSUME NEW p \in Processes, NEW n \in Names, NEW lock \in rules.lockings,
             NEW del \in BOOLEAN, InitLogging(p, n, lock, del)
      PROVE  P
  <2>1. /\ disk' = Appended(p, buffer[p]) /\ buffer' = [buffer EXCEPT ![p] = << >>]
        /\ file' = [file EXCEPT ![p] = NoName] /\ UNCHANGED <<stale, since, sent>>
        /\ pc' = [pc EXCEPT ![p] = IF del THEN "delete" ELSE "open"]
    BY <1>1 DEF InitLogging, Goto
  <2>2. q # p /\ file'[q] = file[q] /\ buffer'[q] = buffer[q] /\ Done(q)' = Done(q)
    BY <1>a, <2>1 DEF Done, IInv, TypeOK
  <2>3. file[q] \in Names /\ (In(x, disk[file[q]]) \/ In(x, buffer[q]))
    BY <1>b, <2>1, <2>2
  <2> QED
    BY <1>a, <2>1, <2>2, <2>3, InGrows
<1>2. ASSUME NEW p \in Processes, DeleteOld(p) PROVE P
  <2>1. /\ UNCHANGED <<file, since, buffer, sent>> /\ pc' = [pc EXCEPT ![p] = "open"]
        /\ pc[p] = "delete" /\ stale \subseteq stale'
    BY <1>2 DEF DeleteOld, At, Goto, counts
  <2>2. Done(q)' = Done(q) /\ q \notin stale
    BY <2>1 DEF Done, IInv, TypeOK
  <2>3. disk'[file[q]] = disk[file[q]]
    BY <1>2, <1>a, <2>1, <2>2 DEF DeleteOld
  <2> QED
    BY <1>b, <2>1, <2>2, <2>3
<1>3. ASSUME NEW p \in Processes, Open(p) PROVE P
  <2>1. /\ UNCHANGED <<disk, buffer, sent>> /\ pc' = [pc EXCEPT ![p] = "idle"]
        /\ pc[p] = "open" /\ stale' = stale \ {p} /\ since' = [since EXCEPT ![p] = sent[p] + 1]
        /\ \E f \in OpenResults(name[p]) : file' = [file EXCEPT ![p] = f]
    BY <1>3 DEF Open, OpenFile, At, Goto, counts
  <2>2. q # p
    <3> SUFFICES ASSUME q = p PROVE FALSE
      OBVIOUS
    <3>1. since'[q] = sent[q] + 1 /\ Done(q)' = sent[q]
      BY <2>1 DEF Done, IInv, TypeOK
    <3> QED
      BY <1>a, <3>1
  <2>3. Done(q)' = Done(q) /\ since'[q] = since[q] /\ file'[q] = file[q] /\ q \notin stale
    BY <2>1, <2>2 DEF Done, IInv, TypeOK
  <2> QED
    BY <1>b, <2>1, <2>3
<1>4. ASSUME NEW p \in Processes, Reopen(p) PROVE P
  <2>1. /\ UNCHANGED <<disk, buffer, sent>>
        /\ pc' = [pc EXCEPT ![p] = IF file'[p] = NoName THEN "idle" ELSE "lock"]
        /\ pc[p] = "reopen" /\ stale' = stale \ {p} /\ since' = [since EXCEPT ![p] = sent[p]]
        /\ \E f \in OpenResults(name'[p]) : file' = [file EXCEPT ![p] = f]
    BY <1>4 DEF Reopen, OpenFile, At, Goto, counts
  <2>2. q # p
    <3> SUFFICES ASSUME q = p PROVE FALSE
      OBVIOUS
    <3>1. since'[q] = sent[q] /\ Done(q)' = sent[q] - 1
      BY <2>1 DEF Done, IInv, TypeOK
    <3> QED
      BY <1>a, <3>1
  <2>3. Done(q)' = Done(q) /\ since'[q] = since[q] /\ file'[q] = file[q] /\ q \notin stale
    BY <2>1, <2>2 DEF Done, IInv, TypeOK
  <2> QED
    BY <1>b, <2>1, <2>3
<1>5. ASSUME NEW p \in Processes, WriteFile(p) PROVE P
  <2>1. Promised /\ file[p] \in Names /\ pc[p] = "write"
           /\ position[p] = Len(disk[file[p]]) /\ sent[p] \in Nat
    BY <1>5, BoundAssumption
       DEF WriteFile, At, Ordered, IInv, TypeOK, HandleOK, PromisedOK
  <2>2. Halves(p, sent[p]) \in Seq(HalfSet)
    BY <2>1, HalvesType
  <2>3. disk' = [disk EXCEPT ![file[p]] = disk[file[p]] \o Halves(p, sent[p])]
    BY <1>5, <1>a, <2>1, <2>2, WriteOverEnd DEF WriteFile
  <2>4. UNCHANGED <<file, stale, since, sent, buffer>> /\ pc' = [pc EXCEPT ![p] = "unlock"]
    BY <1>5 DEF WriteFile, Goto, handle, counts
  <2>5. CASE q = p /\ k = sent[p]
    <3>1. In(x, Halves(p, sent[p]))
      BY <2>1, <2>5, HalvesHold DEF x
    <3> QED
      BY <1>a, <2>1, <2>2, <2>3, <2>4, <2>5, <3>1, InConcat
  <2>6. CASE ~(q = p /\ k = sent[p])
    <3>1. k \in since[q]..Done(q)
      BY <1>a, <2>1, <2>4, <2>6 DEF Done, IInv, TypeOK
    <3>2. file[q] \in Names /\ (In(x, disk[file[q]]) \/ In(x, buffer[q]))
      BY <1>b, <2>4, <3>1
    <3>3. In(x, disk[file[q]]) => In(x, disk'[file[q]])
      BY <1>a, <2>2, <2>3, <3>2, InConcat
    <3> QED
      BY <2>4, <3>2, <3>3
  <2> QED
    BY <2>5, <2>6
<1>6. ASSUME NEW p \in Processes, Fprintf(p) PROVE P
  <2>1. PICK s, t \in Seq(HalfSet) :
           /\ s \o t = buffer[p] \o Halves(p, sent[p])
           /\ disk' = Appended(p, s) /\ buffer' = [buffer EXCEPT ![p] = t]
    BY <1>6, FprintfParts
  <2>2. /\ pc[p] = "write" /\ UNCHANGED <<file, stale, since, sent>>
        /\ pc' = [pc EXCEPT ![p] = "idle"] /\ sent[p] \in Nat
    BY <1>6, BoundAssumption DEF Fprintf, At, Goto, handle, counts, IInv, TypeOK
  <2>3. Halves(p, sent[p]) \in Seq(HalfSet) /\ buffer[p] \in Seq(HalfSet)
    BY <1>a, <2>2, HalvesType
  <2>4. In(x, buffer[p]) \/ In(x, Halves(p, sent[p])) => In(x, s) \/ In(x, t)
    <3>1. In(x, buffer[p]) \/ In(x, Halves(p, sent[p])) => In(x, s \o t)
      BY <2>1, <2>3, InConcat
    <3>2. In(x, s \o t) => In(x, s) \/ In(x, t)
      BY InConcat
    <3> QED
      BY <3>1, <3>2
  <2>5. \A n \in Names : In(x, disk[n]) => In(x, disk'[n])
    BY <1>a, <2>1, InGrows
  <2>6. CASE q = p
    <3>1. buffer'[q] = t /\ file[q] \in Names
      BY <1>a, <2>1, <2>2, <2>6
    <3>2. disk'[file[q]] = disk[file[q]] \o s
      BY <1>a, <2>1, <2>2, <2>6, <3>1 DEF Appended
    <3>3. In(x, s) => In(x, disk'[file[q]])
      BY <1>a, <3>1, <3>2, InConcat
    <3>4. CASE k = sent[p]
      <4>1. In(x, Halves(p, sent[p]))
        BY <2>2, <2>6, <3>4, HalvesHold DEF x
      <4> QED
        BY <2>2, <2>4, <3>1, <3>3, <4>1
    <3>5. CASE k # sent[p]
      <4>1. k \in since[q]..Done(q)
        BY <1>a, <2>2, <2>6, <3>5 DEF Done, IInv, TypeOK
      <4>2. In(x, disk[file[q]]) \/ In(x, buffer[q])
        BY <1>b, <2>2, <4>1
      <4> QED
        BY <2>2, <2>4, <2>5, <2>6, <3>1, <3>3, <4>2
    <3> QED
      BY <3>4, <3>5
  <2>7. CASE q # p
    <3>1. buffer'[q] = buffer[q] /\ Done(q)' = Done(q)
      BY <1>a, <2>1, <2>2, <2>7 DEF Done, IInv, TypeOK
    <3>2. file[q] \in Names /\ (In(x, disk[file[q]]) \/ In(x, buffer[q]))
      BY <1>b, <2>2, <3>1
    <3> QED
      BY <2>2, <2>5, <3>1, <3>2
  <2> QED
    BY <2>6, <2>7
<1>7. ASSUME NEW p \in Processes, Crash(p) PROVE P
  <2>1. /\ file' = [file EXCEPT ![p] = NoName] /\ stale' = stale \ {p}
        /\ since' = [since EXCEPT ![p] = 0] /\ buffer' = [buffer EXCEPT ![p] = << >>]
        /\ pc' = [pc EXCEPT ![p] = "idle"] /\ UNCHANGED <<disk, sent>>
    BY <1>7 DEF Crash, Goto
  <2>2. /\ q # p /\ file'[q] = file[q] /\ since'[q] = since[q] /\ q \notin stale
        /\ buffer'[q] = buffer[q] /\ Done(q)' = Done(q)
    BY <1>a, <2>1 DEF Done, IInv, TypeOK
  <2> QED
    BY <1>b, <2>1, <2>2
<1>8. ASSUME UNCHANGED <<file, stale, since, disk, buffer>>, Done(q)' = Done(q) PROVE P
  BY <1>8, <1>b
<1>9. ASSUME NEW p \in Processes, Lock(p) \/ Seek(p) \/ Unlock(p) \/ Log(p) PROVE P
  <2>1. UNCHANGED <<file, stale, since, disk, buffer>>
    BY <1>9 DEF Lock, Seek, Unlock, Log, handle
  <2>2. Done(q)' = Done(q)
    <3>1. CASE Lock(p) \/ Seek(p) \/ Unlock(p)
      BY <3>1 DEF Lock, Seek, Unlock, At, Goto, counts, Done, IInv, TypeOK, HandleOK
    <3>2. CASE Log(p)
      BY <1>a, <3>2, BoundAssumption, SMTT(60) DEF Log, At, Goto, Done, IInv, TypeOK
    <3> QED
      BY <1>9, <3>1, <3>2
  <2> QED
    BY <1>8, <2>1, <2>2
<1>10. ASSUME UNCHANGED vars PROVE P
  <2>1. UNCHANGED <<file, stale, since, disk, buffer>> /\ Done(q)' = Done(q)
    BY <1>10 DEF vars, Done
  <2> QED
    BY <1>8, <2>1
<1>11. ASSUME NEW p \in Processes, Step(p) PROVE P
  BY <1>11, <1>2, <1>3, <1>4, <1>5, <1>6, <1>9 DEF Step
<1> QED
  BY <1>1, <1>7, <1>9, <1>10, <1>11 DEF Next, x

\* Between its messages everything a process has sent since it opened its file is in
\* the file or in its buffer, in order and once, if the file was not unlinked: on POSIX
\* in every program, on Windows in those that keep the promise of logging.h, for any
\* number of processes, size of the buffer and sequence of crashes.
THEOREM NoLoss == Spec => []NothingLost
<1>1. Init => StreamOK /\ HeldOK
  <2> SUFFICES ASSUME Init PROVE StreamOK /\ HeldOK
    OBVIOUS
  <2>1. /\ \A n \in Names : disk[n] = << >>
        /\ \A p \in Processes : buffer[p] = << >> /\ file[p] = NoName
    BY DEF Init
  <2> QED
    BY <2>1, NoneInOrder DEF StreamOK, HeldOK
<1>2. IInv /\ StreamOK /\ HeldOK => NothingLost
  <2> SUFFICES ASSUME IInv, StreamOK, HeldOK, Ordered, NEW p \in Processes,
                      pc[p] = "idle", file[p] # NoName, p \notin stale
               PROVE  Holds(Output(p), p, since[p], sent[p]) /\ InOrder(Output(p), p)
    BY DEF NothingLost, Ordered
  <2>1. disk[file[p]] \in Seq(HalfSet) /\ buffer[p] \in Seq(HalfSet) /\ file[p] \in Names
    BY DEF IInv, TypeOK
  <2>2. InOrder(Output(p), p)
    BY <2>1, InOrderConcat DEF StreamOK, Output
  <2>3. \A k \in since[p]..sent[p], h \in 1..2 : In(Half(p, k, h), Output(p))
    BY <2>1, InConcat DEF HeldOK, Done, Output
  <2> QED
    BY <2>2, <2>3 DEF Holds, In
<1>3. StreamOK /\ HeldOK /\ IInv /\ [Next]_vars => StreamOK' /\ HeldOK'
  BY NextStreamOK, NextHeldOK
<1> QED
  BY <1>1, <1>2, <1>3, Invariance, PTL DEF Spec
-----------------------------------------------------------------------------
\* Each half of a message stands next to its other half.
Paired(s) ==
    \A i \in DOMAIN s :
      /\ s[i].half = 1 => i + 1 \in DOMAIN s /\ s[i + 1] = [s[i] EXCEPT !.half = 2]
      /\ s[i].half = 2 => i - 1 \in DOMAIN s /\ s[i] = [s[i - 1] EXCEPT !.half = 2]
                            /\ s[i - 1].half = 1

\* A message at the end of whole messages.
LEMMA PairedAppend ==
  ASSUME NEW s \in Seq(HalfSet), Paired(s), NEW p \in Processes, NEW n \in Nat
  PROVE  s \o Halves(p, n) \in Seq(HalfSet) /\ Paired(s \o Halves(p, n))
<1> DEFINE t == Halves(p, n)
           m == Len(s)
           w == s \o t
<1>1. /\ t \in Seq(HalfSet) /\ Len(t) = 2 /\ t[1] = Half(p, n, 1) /\ t[2] = Half(p, n, 2)
      /\ m \in Nat /\ DOMAIN s = 1..m
  BY HalvesType, LenProperties
<1> HIDE DEF t
<1>2. /\ w \in Seq(HalfSet) /\ Len(w) = m + 2
      /\ \A i \in 1..(m + 2) : w[i] = IF i <= m THEN s[i] ELSE t[i - m]
  <2>1. /\ w \in Seq(HalfSet) /\ Len(w) = Len(s) + Len(t)
        /\ \A i \in 1..(Len(s) + Len(t)) : w[i] = IF i <= Len(s) THEN s[i] ELSE t[i - Len(s)]
    BY <1>1, ConcatProperties
  <2> QED
    BY <1>1, <2>1
<1>3. DOMAIN w = 1..(m + 2)
  BY <1>2, LenProperties
<1>4. w[m + 1] = Half(p, n, 1) /\ w[m + 2] = Half(p, n, 2)
  BY <1>1, <1>2
<1>5. Half(p, n, 2) = [Half(p, n, 1) EXCEPT !.half = 2]
  BY DEF Half
<1>6. Half(p, n, 1).half = 1 /\ Half(p, n, 2).half = 2
  BY DEF Half
<1> HIDE DEF m, w
<1>7. ASSUME NEW i \in 1..m
      PROVE  /\ w[i].half = 1 => i + 1 \in DOMAIN w /\ w[i + 1] = [w[i] EXCEPT !.half = 2]
             /\ w[i].half = 2 => i - 1 \in DOMAIN w /\ w[i] = [w[i - 1] EXCEPT !.half = 2]
                                   /\ w[i - 1].half = 1
  <2>1. i \in DOMAIN s /\ i \in DOMAIN w /\ w[i] = s[i]
    BY <1>1, <1>2, <1>3
  <2>2. \A j \in DOMAIN s : j \in DOMAIN w /\ w[j] = s[j]
    BY <1>1, <1>2, <1>3
  <2> QED
    BY <2>1, <2>2 DEF Paired
<1>8. /\ w[m + 1].half = 1 /\ (m + 1) + 1 \in DOMAIN w
      /\ w[(m + 1) + 1] = [w[m + 1] EXCEPT !.half = 2]
  BY <1>1, <1>3, <1>4, <1>5, <1>6
<1>9. /\ w[m + 2].half = 2 /\ (m + 2) - 1 \in DOMAIN w /\ w[(m + 2) - 1].half = 1
      /\ w[m + 2] = [w[(m + 2) - 1] EXCEPT !.half = 2]
  BY <1>1, <1>3, <1>4, <1>5, <1>6
<1>10. \A i \in DOMAIN w : i \in 1..m \/ i = m + 1 \/ i = m + 2
  BY <1>1, <1>3
<1>11. ASSUME NEW i \in DOMAIN w
       PROVE  /\ w[i].half = 1 => i + 1 \in DOMAIN w /\ w[i + 1] = [w[i] EXCEPT !.half = 2]
              /\ w[i].half = 2 => i - 1 \in DOMAIN w /\ w[i] = [w[i - 1] EXCEPT !.half = 2]
                                    /\ w[i - 1].half = 1
  <2>1. CASE i \in 1..m
    BY <1>7, <2>1
  <2>2. CASE i = m + 1
    BY <1>8, <2>2
  <2>3. CASE i = m + 2
    <3>1. w[i].half # 1
      <4>1. w[m + 2].half = 2
        BY <1>9
      <4> QED
        BY <2>3, <4>1
    <3>2. i - 1 \in DOMAIN w /\ w[i] = [w[i - 1] EXCEPT !.half = 2] /\ w[i - 1].half = 1
      BY <1>9, <2>3
    <3> QED
      BY <3>1, <3>2
  <2> QED
    BY <1>10, <2>1, <2>2, <2>3
<1>12. Paired(w)
  BY <1>11 DEF Paired
<1> QED
  BY <1>2, <1>12 DEF w, t

\* What AbstractLog promises comes to this.
LEMMA PromisedPairs ==
  PromisedLog!Spec => [](log \in [Names -> Seq(HalfSet)] /\ \A n \in Names : Paired(log[n]))
<1> DEFINE Logs == log \in [Names -> Seq(HalfSet)] /\ \A n \in Names : Paired(log[n])
<1>1. << >> \in Seq(HalfSet) /\ Paired(<< >>)
  BY EmptySeq DEF Paired
<1>2. PromisedLog!Init => Logs
  BY <1>1 DEF PromisedLog!Init, log
<1>3. Logs /\ [PromisedLog!Next]_log => Logs'
  <2> SUFFICES ASSUME Logs, [PromisedLog!Next]_log PROVE Logs'
    OBVIOUS
  <2> DEFINE L == log
             M == log'
  <2> HIDE DEF L, M
  <2>0. L \in [Names -> Seq(HalfSet)] /\ \A n \in Names : Paired(L[n])
    BY DEF L
  <2> SUFFICES M \in [Names -> Seq(HalfSet)] /\ \A n \in Names : Paired(M[n])
    BY DEF M
  <2>1. CASE UNCHANGED log
    <3>1. M = L
      BY <2>1 DEF L, M
    <3> QED
      BY <2>0, <3>1
  <2>2. ASSUME NEW n \in Names, PromisedLog!Remove(n)
        PROVE  M \in [Names -> Seq(HalfSet)] /\ \A k \in Names : Paired(M[k])
    <3>1. M = [L EXCEPT ![n] = << >>]
      BY <2>2 DEF PromisedLog!Remove, L, M, log
    <3> QED
      BY <1>1, <2>0, <3>1
  <2>3. ASSUME NEW n \in Names, NEW p \in Processes, NEW k \in 1..MaxMessages,
               PromisedLog!Output(n, p, k)
        PROVE  M \in [Names -> Seq(HalfSet)] /\ \A j \in Names : Paired(M[j])
    <3>1. PromisedLog!Halves(p, k) = Halves(p, k)
      BY DEF PromisedLog!Halves, Halves, Half
    <3>2. M = [L EXCEPT ![n] = L[n] \o Halves(p, k)]
      BY <2>3, <3>1 DEF PromisedLog!Output, L, M, log
    <3>3. L[n] \o Halves(p, k) \in Seq(HalfSet) /\ Paired(L[n] \o Halves(p, k))
      BY <2>0, PairedAppend
    <3> QED
      BY <2>0, <3>2, <3>3
  <2> QED
    BY <2>1, <2>2, <2>3 DEF PromisedLog!Next, log
<1> QED
  BY <1>2, <1>3, PTL DEF PromisedLog!Spec, log

\* The streams of the processes, from the proof that nothing is lost.
LEMMA StreamInvariance == Spec => []StreamOK
<1>1. Init => StreamOK
  <2> SUFFICES ASSUME Init PROVE StreamOK
    OBVIOUS
  <2>1. /\ \A n \in Names : disk[n] = << >>
        /\ \A p \in Processes : buffer[p] = << >>
    BY DEF Init
  <2> QED
    BY <2>1, NoneInOrder DEF StreamOK
<1>2. StreamOK /\ IInv /\ [Next]_vars => StreamOK'
  BY NextStreamOK
<1> QED
  BY <1>1, <1>2, Invariance, PTL DEF Spec

\* In programs that keep the promise a file holds whole messages, those of one process in
\* order and none twice.
LogsWhole ==
    Promised => \A n \in Names : /\ Paired(disk[n])
                                 /\ \A p \in Processes : InOrder(disk[n], p)

\* "make each log outut atomic" (logging.h:117), where it is kept: on Windows, in programs
\* that keep the promise, at every moment, also after any number of deaths.
THEOREM MessagesWhole == Spec => []LogsWhole
<1>1. (\A n \in Names : Paired(log[n])) /\ StreamOK => LogsWhole
  BY DEF LogsWhole, log, StreamOK, Ordered
<1> QED
  BY <1>1, Implements, PromisedPairs, StreamInvariance, PTL DEF ImplementsLog
-----------------------------------------------------------------------------
\* Who owns a named mutex is writing, under the locking with which it took the mutex,
\* and has no other; who has a file open has a name for it.
HolderOK ==
    /\ \A n \in Names : owner[n] # NoProcess =>
          /\ Windows /\ Writing(owner[n])
          /\ locking[owner[n]] = "LOCK" /\ mutex[owner[n]] = n
    /\ \A p \in Processes : file[p] # NoName => name[p] # NoName

\* A step that gives no mutex to anybody, and leaves the others and a p that keeps one
\* as they are.
LEMMA HoldersKept ==
  ASSUME IInv, HolderOK, NEW p \in Processes,
         rules' = rules,
         \A n \in Names : owner'[n] = owner[n] \/ owner'[n] = NoProcess,
         \A q \in Processes \ {p} : /\ pc'[q] = pc[q] /\ locking'[q] = locking[q]
                                    /\ mutex'[q] = mutex[q] /\ file'[q] = file[q]
                                    /\ name'[q] = name[q],
         \A n \in Names : owner'[n] = p =>
             Writing(p)' /\ locking'[p] = locking[p] /\ mutex'[p] = mutex[p],
         file'[p] # NoName => name'[p] # NoName
  PROVE  HolderOK'
<1>1. ASSUME NEW n \in Names, owner'[n] # NoProcess
      PROVE  /\ Windows' /\ Writing(owner[n])'
             /\ locking'[owner'[n]] = "LOCK" /\ mutex'[owner'[n]] = n /\ owner'[n] = owner[n]
  <2>1. owner'[n] = owner[n] /\ owner[n] \in Processes
    BY <1>1 DEF IInv, TypeOK
  <2>2. /\ Windows /\ Writing(owner[n])
        /\ locking[owner[n]] = "LOCK" /\ mutex[owner[n]] = n
    BY <1>1, <2>1 DEF HolderOK
  <2>3. CASE owner[n] = p
    BY <2>1, <2>2, <2>3 DEF Windows
  <2>4. CASE owner[n] # p
    BY <2>1, <2>2, <2>4 DEF Windows, Writing
  <2> QED
    BY <2>3, <2>4
<1>2. ASSUME NEW q \in Processes, file'[q] # NoName PROVE name'[q] # NoName
  BY <1>2 DEF HolderOK
<1> QED
  BY <1>1, <1>2 DEF HolderOK, Writing

\* The settings of a process that writes stay until it has given the mutex back.
LEMMA NextHolderOK == IInv /\ HolderOK /\ [Next]_vars => HolderOK'
<1> SUFFICES ASSUME IInv, HolderOK, [Next]_vars PROVE HolderOK'
  OBVIOUS
<1>1. \A n \in Names : \A p \in Processes : owner[n] = p => Writing(p)
  BY NameAssumption DEF HolderOK
<1>2. \A p \in Processes : file[p] # NoName => name[p] # NoName
  BY DEF HolderOK
<1> USE NameAssumption DEF IInv, TypeOK, HandleOK, Writing, At, Goto
<1>3. ASSUME NEW p \in Processes, NEW n \in Names, NEW lock \in rules.lockings,
             NEW del \in BOOLEAN, InitLogging(p, n, lock, del)
      PROVE  HolderOK'
  <2>1. /\ UNCHANGED <<owner, mutex, rules>> /\ pc[p] = "idle" /\ file'[p] = NoName
        /\ \A q \in Processes \ {p} : /\ pc'[q] = pc[q] /\ locking'[q] = locking[q]
                                      /\ file'[q] = file[q] /\ name'[q] = name[q]
    BY <1>3 DEF InitLogging
  <2>2. \A m \in Names : owner[m] # p
    BY <1>1, <2>1
  <2> QED
    BY <2>1, <2>2, HoldersKept
<1>4. ASSUME NEW p \in Processes, Log(p) PROVE HolderOK'
  <2>1. UNCHANGED <<owner, mutex, rules, file, name, locking>> /\ pc[p] = "idle"
        /\ \A q \in Processes \ {p} : pc'[q] = pc[q]
    BY <1>4 DEF Log, globals, handle
  <2>2. \A n \in Names : owner[n] # p
    BY <1>1, <2>1
  <2> QED
    BY <1>2, <2>1, <2>2, HoldersKept
<1>5. ASSUME NEW p \in Processes, DeleteOld(p) PROVE HolderOK'
  <2>1. UNCHANGED <<owner, mutex, rules, file, name, locking>> /\ pc[p] = "delete"
        /\ \A q \in Processes \ {p} : pc'[q] = pc[q]
    BY <1>5 DEF DeleteOld, globals, counts
  <2>2. \A n \in Names : owner[n] # p
    BY <1>1, <2>1
  <2> QED
    BY <1>2, <2>1, <2>2, HoldersKept
<1>6. ASSUME NEW p \in Processes, Open(p) PROVE HolderOK'
  <2>1. UNCHANGED <<owner, rules, name, locking>> /\ pc[p] = "open" /\ name[p] # NoName
        /\ \A q \in Processes \ {p} : /\ pc'[q] = pc[q] /\ mutex'[q] = mutex[q]
                                      /\ file'[q] = file[q]
    BY <1>6 DEF Open, OpenFile, InitLogMutex, counts
  <2>2. \A n \in Names : owner[n] # p
    BY <1>1, <2>1
  <2> QED
    BY <2>1, <2>2, HoldersKept
<1>7. ASSUME NEW p \in Processes, Reopen(p) PROVE HolderOK'
  <2>1. UNCHANGED <<owner, rules, mutex, locking>> /\ pc[p] = "reopen" /\ name'[p] # NoName
        /\ \A q \in Processes \ {p} : /\ pc'[q] = pc[q] /\ name'[q] = name[q]
                                      /\ file'[q] = file[q]
    BY <1>7 DEF Reopen, OpenFile, counts
  <2>2. \A n \in Names : owner[n] # p
    BY <1>1, <2>1
  <2> QED
    BY <2>1, <2>2, HoldersKept
<1>8. ASSUME NEW p \in Processes, Lock(p) PROVE HolderOK'
  <2>1. \A n \in Names : owner[n] # p
    BY <1>1, <1>8 DEF Lock
  <2>2. /\ \A q \in Processes \ {p} : mutex'[q] = mutex[q] /\ pc'[q] = pc[q]
        /\ UNCHANGED <<locking, name, file, rules>>
        /\ pc'[p] = IF Windows THEN "seek" ELSE "write"
    BY <1>8 DEF Lock, InitLogMutex, handle, counts
  <2>3. CASE Windows /\ locking[p] = "LOCK"
    <3>1. owner' = [owner EXCEPT ![mutex'[p]] = p]
      BY <1>8, <2>3 DEF Lock
    <3>2. \A n \in Names : owner'[n] = IF n = mutex'[p] THEN p ELSE owner[n]
      BY <3>1
    <3>3. ASSUME NEW n \in Names, owner'[n] # NoProcess
          PROVE  /\ pc'[owner'[n]] \in {"seek", "write", "unlock"}
                 /\ locking'[owner'[n]] = "LOCK" /\ mutex'[owner'[n]] = n
      <4>1. CASE n = mutex'[p]
        BY <2>2, <2>3, <3>2, <4>1
      <4>2. CASE n # mutex'[p]
        <5>1. owner'[n] = owner[n] /\ owner[n] \in Processes \ {p}
          BY <2>1, <3>2, <3>3, <4>2
        <5> QED
          BY <2>2, <2>3, <3>3, <5>1 DEF HolderOK, Windows
      <4> QED
        BY <4>1, <4>2
    <3>4. Windows'
      BY <2>2, <2>3 DEF Windows
    <3> QED
      BY <1>2, <2>2, <3>3, <3>4 DEF HolderOK
  <2>4. CASE ~(Windows /\ locking[p] = "LOCK")
    <3>1. owner' = owner
      BY <1>8, <2>4 DEF Lock
    <3> QED
      BY <1>2, <2>1, <2>2, <3>1, HoldersKept
  <2> QED
    BY <2>3, <2>4
<1>9. ASSUME NEW p \in Processes, Seek(p) \/ WriteFile(p) PROVE HolderOK'
  <2>1. /\ UNCHANGED <<owner, mutex, rules, file, name, locking>>
        /\ pc'[p] \in {"write", "unlock"} /\ \A q \in Processes \ {p} : pc'[q] = pc[q]
    <3>1. CASE Seek(p)
      BY <3>1 DEF Seek, globals, handle, counts
    <3>2. CASE WriteFile(p)
      BY <3>2 DEF WriteFile, globals, handle, counts
    <3> QED
      BY <1>9, <3>1, <3>2
  <2> QED
    BY <1>2, <2>1, HoldersKept
<1>10. ASSUME NEW p \in Processes, Unlock(p) PROVE HolderOK'
  <2>1. /\ UNCHANGED <<locking, name, file, mutex, rules>> /\ pc[p] = "unlock"
        /\ \A q \in Processes \ {p} : pc'[q] = pc[q]
    BY <1>10 DEF Unlock, globals, handle, counts
  <2>2. ASSUME NEW n \in Names, owner[n] = p PROVE locking[p] = "LOCK" /\ mutex[p] = n
    BY <2>2 DEF HolderOK
  <2>3. ASSUME NEW n \in Names
        PROVE  owner'[n] # p /\ (owner'[n] = NoProcess \/ owner'[n] = owner[n])
    BY <1>10, <2>2 DEF Unlock
  <2> QED
    BY <1>2, <2>1, <2>3, HoldersKept
<1>11. ASSUME NEW p \in Processes, Fprintf(p) PROVE HolderOK'
  <2>1. /\ UNCHANGED <<owner, mutex, rules, file, name, locking>> /\ ~Windows
        /\ \A q \in Processes \ {p} : pc'[q] = pc[q]
    BY <1>11 DEF Fprintf, globals, handle, counts
  <2>2. \A n \in Names : owner[n] # p
    BY <2>1 DEF HolderOK
  <2> QED
    BY <1>2, <2>1, <2>2, HoldersKept
<1>12. ASSUME NEW p \in Processes, Crash(p) PROVE HolderOK'
  <2>1. /\ \A q \in Processes \ {p} : /\ pc'[q] = pc[q] /\ locking'[q] = locking[q]
                                      /\ mutex'[q] = mutex[q] /\ file'[q] = file[q]
                                      /\ name'[q] = name[q]
        /\ file'[p] = NoName /\ rules' = rules
    BY <1>12 DEF Crash
  <2>2. \A n \in Names : owner'[n] # p /\ (owner'[n] = NoProcess \/ owner'[n] = owner[n])
    BY <1>12 DEF Crash
  <2> QED
    BY <2>1, <2>2, HoldersKept
<1>13. CASE UNCHANGED vars
  BY <1>13 DEF vars, Windows, HolderOK
<1> HIDE DEF IInv, TypeOK, HandleOK
<1> QED
  BY <1>3, <1>4, <1>5, <1>6, <1>7, <1>8, <1>9, <1>10, <1>11, <1>12, <1>13 DEF Next, Step

LEMMA HolderInvariance == Spec => []HolderOK
<1>1. Init => HolderOK
  BY DEF Init, HolderOK
<1> QED
  BY <1>1, NextHolderOK, Invariance, PTL DEF Spec

\* The mutex that p waits for: the one that it has made or will make now.
Wanted(p) == IF mutex[p] = NoName THEN name[p] ELSE mutex[p]

\* In every program, whatever it does with names and lockings: who waits for a named mutex
\* that is taken waits for another process, which is past its own waiting and about to
\* give that mutex back, or to die, which frees it too.
WaitsForWriter ==
    \A p \in Processes : pc[p] = "lock" /\ Windows /\ locking[p] = "LOCK" =>
      /\ Wanted(p) \in Names
      /\ LET q == owner[Wanted(p)]
         IN  q # NoProcess => q \in Processes \ {p} /\ Writing(q) /\ mutex[q] = Wanted(p)

\* No deadlock: the chains of waiting have one link.
THEOREM NobodyWaitsInVain == Spec => []WaitsForWriter
<1>1. IInv /\ HolderOK => WaitsForWriter
  <2> SUFFICES ASSUME IInv, HolderOK, NEW p \in Processes, pc[p] = "lock"
               PROVE  /\ Wanted(p) \in Names
                      /\ LET q == owner[Wanted(p)]
                         IN  q # NoProcess =>
                               q \in Processes \ {p} /\ Writing(q) /\ mutex[q] = Wanted(p)
    BY DEF WaitsForWriter
  <2>1. Wanted(p) \in Names
    BY DEF IInv, TypeOK, HandleOK, HolderOK, Wanted
  <2>2. owner[Wanted(p)] \in Processes \cup {NoProcess}
    BY <2>1 DEF IInv, TypeOK
  <2>3. ~Writing(p)
    BY DEF Writing
  <2> QED
    BY <2>1, <2>2, <2>3 DEF HolderOK
<1> QED
  BY <1>1, Invariance, HolderInvariance, PTL
-----------------------------------------------------------------------------
\* How many steps the call of a process has left at most.
LabelRank == [idle |-> 0, unlock |-> 1, write |-> 2, seek |-> 3, lock |-> 4, reopen |-> 5,
              open |-> 1, delete |-> 2]
Rank(p) == LabelRank[pc[p]]

\* A step inside a call leaves it fewer steps, and the calls of the others as they were.
CallsAdvance ==
    \A p \in Processes : Step(p) =>
        Rank(p)' < Rank(p) /\ \A q \in Processes \ {p} : Rank(q)' = Rank(q)

\* A call goes forward with every step of its process and with no step of another: it has
\* five steps at most, and is never sent back to an earlier one.
THEOREM CallsShrink == Spec => [](\A p \in Processes : Rank(p) \in 0..5) /\ [][CallsAdvance]_vars
<1> USE DEF Rank, LabelRank
<1>1. IInv => \A p \in Processes : Rank(p) \in 0..5
  BY DEF IInv, TypeOK, Labels
<1>2. ASSUME IInv, NEW p \in Processes, Step(p)
      PROVE  Rank(p)' < Rank(p) /\ \A q \in Processes \ {p} : Rank(q)' = Rank(q)
  <2>0. pc \in [Processes -> Labels]
    BY <1>2 DEF IInv, TypeOK
  <2> USE <2>0 DEF At, Goto
  <2>1. CASE DeleteOld(p)
    BY <2>1 DEF DeleteOld
  <2>2. CASE Open(p)
    BY <2>2 DEF Open
  <2>3. CASE Reopen(p)
    BY <2>3 DEF Reopen
  <2>4. CASE Lock(p)
    BY <2>4 DEF Lock
  <2>5. CASE Seek(p)
    BY <2>5 DEF Seek
  <2>6. CASE WriteFile(p)
    BY <2>6 DEF WriteFile
  <2>7. CASE Unlock(p)
    BY <2>7 DEF Unlock
  <2>8. CASE Fprintf(p)
    BY <2>8 DEF Fprintf
  <2> QED
    BY <1>2, <2>1, <2>2, <2>3, <2>4, <2>5, <2>6, <2>7, <2>8 DEF Step
<1>3. IInv /\ [Next]_vars => [CallsAdvance]_vars
  BY <1>2 DEF CallsAdvance
<1> QED
  BY Invariance, <1>1, <1>3, PTL DEF Spec
================================================================================
