-------------------------- MODULE LockImplWinProofs --------------------------
(***************************************************************************)
(* Theorems about LockImplWin for every set of threads and every depth of  *)
(* recursion.                                                              *)
(***************************************************************************)
EXTENDS LockImplWin, TLAPS

\* Who is in the middle of a call that needs the section owns it.
SectionOK ==
    /\ csOwner = NoThread <=> csDepth = 0
    /\ \A t \in Threads :
          /\ pc[t] \in Inside => csOwner = t
          /\ pc[t] = "entering" /\ csOwner = t => csDepth < MaxNest
          /\ ~Debug => pc[t] \in {"idle", "entering", "leave"}

\* owning_thread_id_ never names anybody but the owner of the section, and names
\* nobody when the section is about to be left.
OwningOK ==
    owningThreadId # NoThread =>
        Debug /\ csOwner = owningThreadId /\ pc[owningThreadId] # "leave"

\* The shadow count lags behind the depth by the call in progress.
ShadowOK ==
    Debug =>
      /\ csOwner = NoThread => shadow = 0
      /\ \A t \in Threads : csOwner = t =>
            shadow = IF pc[t] \in {"stamp", "count", "clear", "leave"}
                     THEN csDepth - 1 ELSE csDepth

\* As long as recursion is not reported, the section is entered once, or a second
\* time by a call that is about to report it; and its owner is on record, but for
\* the first and the last moments.
RecursionOK ==
    Debug /\ ~recursionUsed =>
      \A t \in Threads : csOwner = t =>
        /\ csDepth = 1 \/ (csDepth = 2 /\ pc[t] \in {"stamp", "count", "check"})
        /\ pc[t] \notin {"stamp", "clear", "leave"} => owningThreadId = t

\* A verdict stands until its thread makes another call.
VerdictOK ==
    \A t \in Threads :
      /\ verdict[t] # "none" => pc[t] = "idle" /\ Debug
      /\ verdict[t] = "held" => csOwner = t
      /\ ~recursionUsed /\ (pc[t] = "accused" \/ verdict[t] = "not held") => csOwner # t

\* The two halves of TypeOK, which are proved apart.
CountsOK ==
    /\ csOwner \in Threads \cup {NoThread} /\ csDepth \in 0..MaxNest
    /\ shadow \in Nat
LabelsOK ==
    /\ owningThreadId \in Threads \cup {NoThread} /\ recursionUsed \in BOOLEAN
    /\ pc \in [Threads -> Labels]
    /\ verdict \in [Threads -> Verdicts]

Rest == SectionOK /\ OwningOK /\ ShadowOK /\ RecursionOK /\ VerdictOK
IInv == TypeOK /\ Rest

\* The labels that the actions go to, and the verdicts they leave.
LEMMA LabelsKnown ==
    /\ {"idle", "entering", "assert", "assertOwner", "accused"} \subseteq Labels
    /\ {"stamp", "count", "check", "uncount", "clear", "leave"} \subseteq Labels
    /\ {"none", "held", "not held"} \subseteq Verdicts
  BY DEF Labels, Inside, Outside, Verdicts

\* The object is constructed into the inductive invariant.
LEMMA InitIInv == Init => IInv
<1> SUFFICES ASSUME Init PROVE IInv
  OBVIOUS
<1> USE NoThreadAssumption, NestAssumption DEF Init
<1>1. TypeOK
  <2>1. csDepth \in 0..MaxNest /\ shadow \in Nat
    OBVIOUS
  <2> QED
    BY <2>1, LabelsKnown DEF TypeOK
<1>2. SectionOK
  BY DEF SectionOK, Inside
<1>3. OwningOK /\ ShadowOK /\ RecursionOK /\ VerdictOK
  BY DEF OwningOK, ShadowOK, RecursionOK, VerdictOK
<1> QED
  BY <1>1, <1>2, <1>3 DEF IInv, Rest

\* Every step keeps the counts in their ranges.
LEMMA NextCountsOK == IInv /\ [Next]_vars => CountsOK'
<1> SUFFICES ASSUME IInv, [Next]_vars PROVE CountsOK'
  OBVIOUS
<1> USE NoThreadAssumption, NestAssumption DEF IInv, Rest, CountsOK, TypeOK, SectionOK, Inside, ShadowOK
<1>1. ASSUME NEW t \in Threads, LockCall(t) PROVE CountsOK'
  BY <1>1 DEF LockCall, Call, Goto, Forget
<1>2. ASSUME NEW t \in Threads, EnterReturn(t) PROVE CountsOK'
  BY <1>2 DEF EnterReturn, Call, Goto, Enter, Admits
<1>3. ASSUME NEW t \in Threads, TrySucceed(t) PROVE CountsOK'
  BY <1>3 DEF TrySucceed, Call, Goto, Forget, Enter, Admits
<1>4. ASSUME NEW t \in Threads, TryFail(t) PROVE CountsOK'
  BY <1>4 DEF TryFail, Admits, Forget
<1>5. ASSUME NEW t \in Threads, Stamp(t) PROVE CountsOK'
  BY <1>5 DEF Stamp, Call, Goto
<1>6. ASSUME NEW t \in Threads, Count(t) PROVE CountsOK'
  BY <1>6 DEF Count, Call, Goto
<1>7. ASSUME NEW t \in Threads, Check(t) PROVE CountsOK'
  BY <1>7 DEF Check, Call, Goto
<1>8. ASSUME NEW t \in Threads, UnlockCall(t) PROVE CountsOK'
  BY <1>8 DEF UnlockCall, Call, Goto, Forget
<1>9. ASSUME NEW t \in Threads, Uncount(t) PROVE CountsOK'
  BY <1>9 DEF Uncount, Call, Goto
<1>10. ASSUME NEW t \in Threads, Clear(t) PROVE CountsOK'
  BY <1>10 DEF Clear, Call, Goto
<1>11. ASSUME NEW t \in Threads, Leave(t) PROVE CountsOK'
  BY <1>11 DEF Leave, Call, Goto
<1>12. ASSUME NEW t \in Threads, AssertCall(t) PROVE CountsOK'
  BY <1>12 DEF AssertCall, Call, Goto, Forget
<1>13. ASSUME NEW t \in Threads, AssertCount(t) PROVE CountsOK'
  BY <1>13 DEF AssertCount, Call, Goto
<1>14. ASSUME NEW t \in Threads, AssertOwner(t) PROVE CountsOK'
  BY <1>14 DEF AssertOwner, Goto
<1>15. CASE UNCHANGED vars
  BY <1>15 DEF vars
<1> QED
  BY <1>1, <1>2, <1>3, <1>4, <1>5, <1>6, <1>7,
     <1>8, <1>9, <1>10, <1>11, <1>12, <1>13, <1>14, <1>15 DEF Next

\* Every step keeps the other variables in their types.
LEMMA NextLabelsOK == IInv /\ [Next]_vars => LabelsOK'
<1> SUFFICES ASSUME IInv, [Next]_vars PROVE LabelsOK'
  OBVIOUS
<1> USE LabelsKnown DEF IInv, LabelsOK, TypeOK
<1>1. ASSUME NEW t \in Threads, LockCall(t) PROVE LabelsOK'
  BY <1>1 DEF LockCall, Call, Goto, Forget
<1>2. ASSUME NEW t \in Threads, EnterReturn(t) PROVE LabelsOK'
  BY <1>2 DEF EnterReturn, Call, Goto, Enter, Admits
<1>3. ASSUME NEW t \in Threads, TrySucceed(t) PROVE LabelsOK'
  BY <1>3 DEF TrySucceed, Call, Goto, Forget, Enter, Admits
<1>4. ASSUME NEW t \in Threads, TryFail(t) PROVE LabelsOK'
  BY <1>4 DEF TryFail, Admits, Forget
<1>5. ASSUME NEW t \in Threads, Stamp(t) PROVE LabelsOK'
  BY <1>5 DEF Stamp, Call, Goto
<1>6. ASSUME NEW t \in Threads, Count(t) PROVE LabelsOK'
  BY <1>6 DEF Count, Call, Goto
<1>7. ASSUME NEW t \in Threads, Check(t) PROVE LabelsOK'
  BY <1>7 DEF Check, Call, Goto
<1>8. ASSUME NEW t \in Threads, UnlockCall(t) PROVE LabelsOK'
  BY <1>8 DEF UnlockCall, Call, Goto, Forget
<1>9. ASSUME NEW t \in Threads, Uncount(t) PROVE LabelsOK'
  BY <1>9 DEF Uncount, Call, Goto
<1>10. ASSUME NEW t \in Threads, Clear(t) PROVE LabelsOK'
  BY <1>10 DEF Clear, Call, Goto
<1>11. ASSUME NEW t \in Threads, Leave(t) PROVE LabelsOK'
  BY <1>11 DEF Leave, Call, Goto
<1>12. ASSUME NEW t \in Threads, AssertCall(t) PROVE LabelsOK'
  BY <1>12 DEF AssertCall, Call, Goto, Forget
<1>13. ASSUME NEW t \in Threads, AssertCount(t) PROVE LabelsOK'
  BY <1>13 DEF AssertCount, Call, Goto
<1>14. ASSUME NEW t \in Threads, AssertOwner(t) PROVE LabelsOK'
  BY <1>14 DEF AssertOwner, Goto
<1>15. CASE UNCHANGED vars
  BY <1>15 DEF vars
<1> QED
  BY <1>1, <1>2, <1>3, <1>4, <1>5, <1>6, <1>7,
     <1>8, <1>9, <1>10, <1>11, <1>12, <1>13, <1>14, <1>15 DEF Next

\* Every step keeps the variables in their types.
LEMMA NextTypeOK == IInv /\ [Next]_vars => TypeOK'
  BY NextCountsOK, NextLabelsOK DEF TypeOK, CountsOK, LabelsOK

\* Only its owner works inside the section.
LEMMA NextSectionOK == IInv /\ [Next]_vars => SectionOK'
<1> SUFFICES ASSUME IInv, [Next]_vars PROVE SectionOK'
  OBVIOUS
<1> USE NoThreadAssumption, NestAssumption DEF IInv, Rest, TypeOK, SectionOK, Inside
<1>1. ASSUME NEW t \in Threads, LockCall(t) PROVE SectionOK'
  BY <1>1 DEF LockCall, Call, Goto, Forget
<1>2. ASSUME NEW t \in Threads, EnterReturn(t) PROVE SectionOK'
  BY <1>2 DEF EnterReturn, Call, Goto, Enter, Admits
<1>3. ASSUME NEW t \in Threads, TrySucceed(t) PROVE SectionOK'
  BY <1>3 DEF TrySucceed, Call, Goto, Forget, Enter, Admits
<1>4. ASSUME NEW t \in Threads, TryFail(t) PROVE SectionOK'
  BY <1>4 DEF TryFail, Admits, Forget
<1>5. ASSUME NEW t \in Threads, Stamp(t) PROVE SectionOK'
  BY <1>5 DEF Stamp, Call, Goto
<1>6. ASSUME NEW t \in Threads, Count(t) PROVE SectionOK'
  BY <1>6 DEF Count, Call, Goto
<1>7. ASSUME NEW t \in Threads, Check(t) PROVE SectionOK'
  BY <1>7 DEF Check, Call, Goto
<1>8. ASSUME NEW t \in Threads, UnlockCall(t) PROVE SectionOK'
  BY <1>8 DEF UnlockCall, Call, Goto, Forget
<1>9. ASSUME NEW t \in Threads, Uncount(t) PROVE SectionOK'
  BY <1>9 DEF Uncount, Call, Goto
<1>10. ASSUME NEW t \in Threads, Clear(t) PROVE SectionOK'
  BY <1>10 DEF Clear, Call, Goto
<1>11. ASSUME NEW t \in Threads, Leave(t) PROVE SectionOK'
  BY <1>11 DEF Leave, Call, Goto
<1>12. ASSUME NEW t \in Threads, AssertCall(t) PROVE SectionOK'
  BY <1>12 DEF AssertCall, Call, Goto, Forget
<1>13. ASSUME NEW t \in Threads, AssertCount(t) PROVE SectionOK'
  BY <1>13 DEF AssertCount, Call, Goto
<1>14. ASSUME NEW t \in Threads, AssertOwner(t) PROVE SectionOK'
  BY <1>14 DEF AssertOwner, Goto
<1>15. CASE UNCHANGED vars
  BY <1>15 DEF vars
<1> QED
  BY <1>1, <1>2, <1>3, <1>4, <1>5, <1>6, <1>7,
     <1>8, <1>9, <1>10, <1>11, <1>12, <1>13, <1>14, <1>15 DEF Next

\* Only the owner of the section is ever put on record.
LEMMA NextOwningOK == IInv /\ [Next]_vars => OwningOK'
<1> SUFFICES ASSUME IInv, [Next]_vars PROVE OwningOK'
  OBVIOUS
<1> USE NoThreadAssumption, NestAssumption DEF IInv, Rest, TypeOK, SectionOK, OwningOK, Inside
<1>1. ASSUME NEW t \in Threads, LockCall(t) PROVE OwningOK'
  BY <1>1 DEF LockCall, Call, Goto, Forget
<1>2. ASSUME NEW t \in Threads, EnterReturn(t) PROVE OwningOK'
  BY <1>2 DEF EnterReturn, Call, Goto, Enter, Admits
<1>3. ASSUME NEW t \in Threads, TrySucceed(t) PROVE OwningOK'
  BY <1>3 DEF TrySucceed, Call, Goto, Forget, Enter, Admits
<1>4. ASSUME NEW t \in Threads, TryFail(t) PROVE OwningOK'
  BY <1>4 DEF TryFail, Admits, Forget
<1>5. ASSUME NEW t \in Threads, Stamp(t) PROVE OwningOK'
  BY <1>5 DEF Stamp, Call, Goto
<1>6. ASSUME NEW t \in Threads, Count(t) PROVE OwningOK'
  BY <1>6 DEF Count, Call, Goto
<1>7. ASSUME NEW t \in Threads, Check(t) PROVE OwningOK'
  BY <1>7 DEF Check, Call, Goto
<1>8. ASSUME NEW t \in Threads, UnlockCall(t) PROVE OwningOK'
  BY <1>8 DEF UnlockCall, Call, Goto, Forget
<1>9. ASSUME NEW t \in Threads, Uncount(t) PROVE OwningOK'
  BY <1>9 DEF Uncount, Call, Goto
<1>10. ASSUME NEW t \in Threads, Clear(t) PROVE OwningOK'
  BY <1>10 DEF Clear, Call, Goto
<1>11. ASSUME NEW t \in Threads, Leave(t) PROVE OwningOK'
  BY <1>11 DEF Leave, Call, Goto
<1>12. ASSUME NEW t \in Threads, AssertCall(t) PROVE OwningOK'
  BY <1>12 DEF AssertCall, Call, Goto, Forget
<1>13. ASSUME NEW t \in Threads, AssertCount(t) PROVE OwningOK'
  BY <1>13 DEF AssertCount, Call, Goto
<1>14. ASSUME NEW t \in Threads, AssertOwner(t) PROVE OwningOK'
  BY <1>14 DEF AssertOwner, Goto
<1>15. CASE UNCHANGED vars
  BY <1>15 DEF vars
<1> QED
  BY <1>1, <1>2, <1>3, <1>4, <1>5, <1>6, <1>7,
     <1>8, <1>9, <1>10, <1>11, <1>12, <1>13, <1>14, <1>15 DEF Next

\* The shadow count follows the depth.
LEMMA NextShadowOK == IInv /\ [Next]_vars => ShadowOK'
<1> SUFFICES ASSUME IInv, [Next]_vars PROVE ShadowOK'
  OBVIOUS
<1> USE NoThreadAssumption, NestAssumption DEF IInv, Rest, TypeOK, SectionOK, ShadowOK, Inside
<1>1. ASSUME NEW t \in Threads, LockCall(t) PROVE ShadowOK'
  BY <1>1 DEF LockCall, Call, Goto, Forget
<1>2. ASSUME NEW t \in Threads, EnterReturn(t) PROVE ShadowOK'
  BY <1>2 DEF EnterReturn, Call, Goto, Enter, Admits
<1>3. ASSUME NEW t \in Threads, TrySucceed(t) PROVE ShadowOK'
  BY <1>3 DEF TrySucceed, Call, Goto, Forget, Enter, Admits
<1>4. ASSUME NEW t \in Threads, TryFail(t) PROVE ShadowOK'
  BY <1>4 DEF TryFail, Admits, Forget
<1>5. ASSUME NEW t \in Threads, Stamp(t) PROVE ShadowOK'
  BY <1>5 DEF Stamp, Call, Goto
<1>6. ASSUME NEW t \in Threads, Count(t) PROVE ShadowOK'
  BY <1>6 DEF Count, Call, Goto
<1>7. ASSUME NEW t \in Threads, Check(t) PROVE ShadowOK'
  BY <1>7 DEF Check, Call, Goto
<1>8. ASSUME NEW t \in Threads, UnlockCall(t) PROVE ShadowOK'
  BY <1>8 DEF UnlockCall, Call, Goto, Forget
<1>9. ASSUME NEW t \in Threads, Uncount(t) PROVE ShadowOK'
  BY <1>9 DEF Uncount, Call, Goto
<1>10. ASSUME NEW t \in Threads, Clear(t) PROVE ShadowOK'
  BY <1>10 DEF Clear, Call, Goto
<1>11. ASSUME NEW t \in Threads, Leave(t) PROVE ShadowOK'
  BY <1>11 DEF Leave, Call, Goto
<1>12. ASSUME NEW t \in Threads, AssertCall(t) PROVE ShadowOK'
  BY <1>12 DEF AssertCall, Call, Goto, Forget
<1>13. ASSUME NEW t \in Threads, AssertCount(t) PROVE ShadowOK'
  BY <1>13 DEF AssertCount, Call, Goto
<1>14. ASSUME NEW t \in Threads, AssertOwner(t) PROVE ShadowOK'
  BY <1>14 DEF AssertOwner, Goto
<1>15. CASE UNCHANGED vars
  BY <1>15 DEF vars
<1> QED
  BY <1>1, <1>2, <1>3, <1>4, <1>5, <1>6, <1>7,
     <1>8, <1>9, <1>10, <1>11, <1>12, <1>13, <1>14, <1>15 DEF Next

\* A second entry is reported before it can be used.
LEMMA NextRecursionOK == IInv /\ [Next]_vars => RecursionOK'
<1> SUFFICES ASSUME IInv, [Next]_vars PROVE RecursionOK'
  OBVIOUS
<1> USE NoThreadAssumption, NestAssumption DEF IInv, Rest, TypeOK, SectionOK, OwningOK, ShadowOK, RecursionOK, Inside
<1>1. ASSUME NEW t \in Threads, LockCall(t) PROVE RecursionOK'
  BY <1>1 DEF LockCall, Call, Goto, Forget
<1>2. ASSUME NEW t \in Threads, EnterReturn(t) PROVE RecursionOK'
  BY <1>2 DEF EnterReturn, Call, Goto, Enter, Admits
<1>3. ASSUME NEW t \in Threads, TrySucceed(t) PROVE RecursionOK'
  BY <1>3 DEF TrySucceed, Call, Goto, Forget, Enter, Admits
<1>4. ASSUME NEW t \in Threads, TryFail(t) PROVE RecursionOK'
  BY <1>4 DEF TryFail, Admits, Forget
<1>5. ASSUME NEW t \in Threads, Stamp(t) PROVE RecursionOK'
  BY <1>5 DEF Stamp, Call, Goto
<1>6. ASSUME NEW t \in Threads, Count(t) PROVE RecursionOK'
  BY <1>6 DEF Count, Call, Goto
<1>7. ASSUME NEW t \in Threads, Check(t) PROVE RecursionOK'
  BY <1>7 DEF Check, Call, Goto
<1>8. ASSUME NEW t \in Threads, UnlockCall(t) PROVE RecursionOK'
  BY <1>8 DEF UnlockCall, Call, Goto, Forget
<1>9. ASSUME NEW t \in Threads, Uncount(t) PROVE RecursionOK'
  BY <1>9 DEF Uncount, Call, Goto
<1>10. ASSUME NEW t \in Threads, Clear(t) PROVE RecursionOK'
  BY <1>10 DEF Clear, Call, Goto
<1>11. ASSUME NEW t \in Threads, Leave(t) PROVE RecursionOK'
  BY <1>11 DEF Leave, Call, Goto
<1>12. ASSUME NEW t \in Threads, AssertCall(t) PROVE RecursionOK'
  BY <1>12 DEF AssertCall, Call, Goto, Forget
<1>13. ASSUME NEW t \in Threads, AssertCount(t) PROVE RecursionOK'
  BY <1>13 DEF AssertCount, Call, Goto
<1>14. ASSUME NEW t \in Threads, AssertOwner(t) PROVE RecursionOK'
  BY <1>14 DEF AssertOwner, Goto
<1>15. CASE UNCHANGED vars
  BY <1>15 DEF vars
<1> QED
  BY <1>1, <1>2, <1>3, <1>4, <1>5, <1>6, <1>7,
     <1>8, <1>9, <1>10, <1>11, <1>12, <1>13, <1>14, <1>15 DEF Next

\* What AssertAcquired() said stays true until its thread goes on.
LEMMA NextVerdictOK == IInv /\ [Next]_vars => VerdictOK'
<1> SUFFICES ASSUME IInv, [Next]_vars PROVE VerdictOK'
  OBVIOUS
<1> USE NoThreadAssumption, NestAssumption DEF IInv, Rest, TypeOK, SectionOK, OwningOK, ShadowOK, RecursionOK, VerdictOK, Inside
<1>1. ASSUME NEW t \in Threads, LockCall(t) PROVE VerdictOK'
  BY <1>1 DEF LockCall, Call, Goto, Forget
<1>2. ASSUME NEW t \in Threads, EnterReturn(t) PROVE VerdictOK'
  BY <1>2 DEF EnterReturn, Call, Goto, Enter, Admits
<1>3. ASSUME NEW t \in Threads, TrySucceed(t) PROVE VerdictOK'
  BY <1>3 DEF TrySucceed, Call, Goto, Forget, Enter, Admits
<1>4. ASSUME NEW t \in Threads, TryFail(t) PROVE VerdictOK'
  BY <1>4 DEF TryFail, Admits, Forget
<1>5. ASSUME NEW t \in Threads, Stamp(t) PROVE VerdictOK'
  BY <1>5 DEF Stamp, Call, Goto
<1>6. ASSUME NEW t \in Threads, Count(t) PROVE VerdictOK'
  BY <1>6 DEF Count, Call, Goto
<1>7. ASSUME NEW t \in Threads, Check(t) PROVE VerdictOK'
  BY <1>7 DEF Check, Call, Goto
<1>8. ASSUME NEW t \in Threads, UnlockCall(t) PROVE VerdictOK'
  BY <1>8 DEF UnlockCall, Call, Goto, Forget
<1>9. ASSUME NEW t \in Threads, Uncount(t) PROVE VerdictOK'
  BY <1>9 DEF Uncount, Call, Goto
<1>10. ASSUME NEW t \in Threads, Clear(t) PROVE VerdictOK'
  BY <1>10 DEF Clear, Call, Goto
<1>11. ASSUME NEW t \in Threads, Leave(t) PROVE VerdictOK'
  BY <1>11 DEF Leave, Call, Goto
<1>12. ASSUME NEW t \in Threads, AssertCall(t) PROVE VerdictOK'
  BY <1>12 DEF AssertCall, Call, Goto, Forget
<1>13. ASSUME NEW t \in Threads, AssertCount(t) PROVE VerdictOK'
  <2>1. pc[t] = "assert" /\ Debug
    BY <1>13 DEF AssertCount, Call
  <2> HIDE DEF IInv, Rest, TypeOK, SectionOK, OwningOK, ShadowOK, RecursionOK, Inside
  <2>2. csOwner = t => shadow > 0
    <3>1. csDepth \in 0..MaxNest
      BY DEF IInv, TypeOK
    <3>2. csOwner = t => csDepth # 0
      BY DEF IInv, Rest, SectionOK
    <3>3. csOwner = t => shadow = csDepth
      BY <2>1 DEF IInv, Rest, ShadowOK
    <3> QED
      BY <3>1, <3>2, <3>3
  <2> QED
    BY <1>13, <2>1, <2>2 DEF AssertCount, Call, Goto, IInv, Rest, TypeOK
<1>14. ASSUME NEW t \in Threads, AssertOwner(t) PROVE VerdictOK'
  BY <1>14 DEF AssertOwner, Goto
<1>15. CASE UNCHANGED vars
  BY <1>15 DEF vars
<1> QED
  BY <1>1, <1>2, <1>3, <1>4, <1>5, <1>6, <1>7,
     <1>8, <1>9, <1>10, <1>11, <1>12, <1>13, <1>14, <1>15 DEF Next

\* The invariant of all behaviours of the object.
LEMMA Invariance == Spec => []IInv
<1>1. IInv /\ [Next]_vars => IInv'
  BY NextTypeOK, NextSectionOK, NextOwningOK, NextShadowOK, NextRecursionOK,
     NextVerdictOK DEF IInv, Rest
<1> QED
  BY InitIInv, <1>1, PTL DEF Spec

\* Type correctness; in particular the DCHECK on the shadow count in
\* LockImpl::Unlock never fires.
THEOREM TypeCorrect == Spec => []TypeOK
<1>1. IInv => TypeOK
  BY DEF IInv
<1> QED
  BY Invariance, <1>1, PTL

\* AssertAcquired() never vouches for a thread that does not hold the lock.
THEOREM AssertSound == Spec => []AssertExposesOthers
<1>1. IInv => AssertExposesOthers
  BY DEF IInv, Rest, VerdictOK, AssertExposesOthers
<1> QED
  BY Invariance, <1>1, PTL

\* AssertAcquired() never accuses the holder before recursion is reported.
THEOREM AssertComplete == Spec => []AssertTrustsHolder
<1>1. IInv => AssertTrustsHolder
  BY DEF IInv, Rest, VerdictOK, AssertTrustsHolder
<1> QED
  BY Invariance, <1>1, PTL

\* A debug build reports recursion before the second Lock() or Try() returns.
THEOREM RecursionNoticed == Spec => []RecursionReported
<1>1. IInv => RecursionReported
  BY DEF IInv, Rest, TypeOK, RecursionOK, RecursionReported, Outside
<1> QED
  BY Invariance, <1>1, PTL

\* The shadow count is the depth of the section between calls.
THEOREM ShadowCorrect == Spec => []ShadowIsDepth
<1>1. IInv => ShadowIsDepth
  BY DEF IInv, Rest, TypeOK, ShadowOK, ShadowIsDepth, Outside
<1> QED
  BY Invariance, <1>1, PTL

\* Every step of the Windows lock is a step of the abstract lock or leaves it as
\* it is, recursion included.
THEOREM ImplementsSteps == Spec => Promised!Safety
<1>1. Init => Promised!Init
  BY DEF Init, Promised!Init
<1>2. IInv /\ [Next]_vars => [Promised!Next]_(Promised!vars)
  <2> SUFFICES ASSUME IInv, [Next]_vars PROVE [Promised!Next]_(Promised!vars)
    OBVIOUS
  <2> USE NoThreadAssumption, NestAssumption
      DEF IInv, Rest, TypeOK, SectionOK, Inside, Promised!vars
  <2>1. ASSUME NEW t \in Threads, LockCall(t) PROVE [Promised!Next]_(Promised!vars)
    BY <2>1 DEF LockCall, Call, Goto, Forget, Promised!Next, Promised!Request
  <2>2. ASSUME NEW t \in Threads, EnterReturn(t) PROVE [Promised!Next]_(Promised!vars)
    BY <2>2 DEF EnterReturn, Call, Goto, Enter, Admits, Promised!Next, Promised!Grant
  <2>3. ASSUME NEW t \in Threads, TrySucceed(t) PROVE [Promised!Next]_(Promised!vars)
    BY <2>3 DEF TrySucceed, Call, Goto, Forget, Enter, Admits, Promised!Next, Promised!TryGrant
  <2>4. ASSUME NEW t \in Threads, TryFail(t) PROVE UNCHANGED Promised!vars
    BY <2>4 DEF TryFail, Admits, Forget
  <2>5. ASSUME NEW t \in Threads, Stamp(t) PROVE UNCHANGED Promised!vars
    BY <2>5 DEF Stamp, Call, Goto
  <2>6. ASSUME NEW t \in Threads, Count(t) PROVE UNCHANGED Promised!vars
    BY <2>6 DEF Count, Call, Goto
  <2>7. ASSUME NEW t \in Threads, Check(t) PROVE UNCHANGED Promised!vars
    BY <2>7 DEF Check, Call, Goto
  <2>8. ASSUME NEW t \in Threads, UnlockCall(t) PROVE UNCHANGED Promised!vars
    BY <2>8 DEF UnlockCall, Call, Goto, Forget
  <2>9. ASSUME NEW t \in Threads, Uncount(t) PROVE UNCHANGED Promised!vars
    BY <2>9 DEF Uncount, Call, Goto
  <2>10. ASSUME NEW t \in Threads, Clear(t) PROVE UNCHANGED Promised!vars
    BY <2>10 DEF Clear, Call, Goto
  <2>11. ASSUME NEW t \in Threads, Leave(t) PROVE [Promised!Next]_(Promised!vars)
    BY <2>11 DEF Leave, Call, Goto, Promised!Next, Promised!Release
  <2>12. ASSUME NEW t \in Threads, AssertCall(t) PROVE UNCHANGED Promised!vars
    BY <2>12 DEF AssertCall, Call, Goto, Forget
  <2>13. ASSUME NEW t \in Threads, AssertCount(t) PROVE UNCHANGED Promised!vars
    BY <2>13 DEF AssertCount, Call, Goto
  <2>14. ASSUME NEW t \in Threads, AssertOwner(t) PROVE UNCHANGED Promised!vars
    BY <2>14 DEF AssertOwner, Goto
  <2>15. CASE UNCHANGED vars
    BY <2>15 DEF vars
  <2> QED
    BY <2>1, <2>2, <2>3, <2>4, <2>5, <2>6, <2>7,
       <2>8, <2>9, <2>10, <2>11, <2>12, <2>13, <2>14, <2>15 DEF Next
<1> QED
  BY Invariance, <1>1, <1>2, PTL DEF Spec, Promised!Safety
=============================================================================
