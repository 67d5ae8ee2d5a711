------------------------- MODULE ScopedHandlesProofs -------------------------
(***************************************************************************)
(* Theorems about ScopedHandles for any number of objects and handles and  *)
(* for both classes.  Constructors may be given INVALID_HANDLE_VALUE: what *)
(* harm that does is said in the properties, not assumed away.             *)
(***************************************************************************)
EXTENDS ScopedHandles, TLAPS

\* What a client holds is open.
RawIsOpen == raw \subseteq open

\* Among the handles of the system: what an object holds is open and nobody else holds
\* it, and nothing is closed that is not open.
HandlesOwned ==
    /\ \A o \in live : handle[o] \in Handles => handle[o] \in open /\ handle[o] \notin raw
    /\ \A o, p \in live : handle[o] \in Handles /\ handle[o] = handle[p] => o = p
    /\ strays \cap Handles = {}

\* What is closed in vain came from a constructor.
StraysOK == strays \subseteq {Invalid} \cap CtorErrors

IInv == TypeOK /\ RawIsOpen /\ NothingLeaks /\ HandlesOwned /\ StraysOK

\* No object exists and nothing is open.
LEMMA InitIInv == Init => IInv
  BY DEF Init, IInv, TypeOK, RawIsOpen, NothingLeaks, HandlesOwned, StraysOK

\* Closing the handle of an object closes that handle, and in vain only
\* INVALID_HANDLE_VALUE from a constructor.
LEMMA ClosesOwn ==
  ASSUME IInv, NEW o \in live,
         IF IsValid(o) THEN CloseSystem(handle[o]) ELSE UNCHANGED <<open, strays>>
  PROVE  /\ open' = open \ {handle[o]}
         /\ strays' \subseteq {Invalid} \cap CtorErrors
<1>1. handle[o] \in Handles \cup CtorErrors \cup {Null} /\ CtorErrors \subseteq {Null, Invalid}
  BY ErrorsAssumption DEF IInv, TypeOK, Errors
<1>2. Null \notin open
  BY ValuesAssumption DEF IInv, TypeOK, Errors
<1>3. open' = open \ {handle[o]}
  BY <1>2 DEF IsValid, CloseSystem
<1>4. handle[o] \in Handles => strays' = strays
  BY DEF IInv, HandlesOwned, IsValid, CloseSystem
<1>5. handle[o] \notin Handles => strays' \subseteq strays \cup ({Invalid} \cap CtorErrors)
  BY <1>1 DEF IsValid, CloseSystem
<1> QED
  BY <1>3, <1>4, <1>5 DEF IInv, StraysOK

\* Every step keeps the invariant.
LEMMA NextIInv ==
  ASSUME IInv, [Next]_vars
  PROVE  IInv'
<1> USE ValuesAssumption, ErrorsAssumption
    DEF Errors, IInv, TypeOK, RawIsOpen, NothingLeaks, HandlesOwned, StraysOK
<1>1. ASSUME NEW h \in Handles, Open(h) PROVE IInv'
  BY <1>1 DEF Open
<1>2. ASSUME NEW h \in Handles, CloseRaw(h) PROVE IInv'
  BY <1>2 DEF CloseRaw, CloseSystem
<1>3. ASSUME NEW o \in Objects, Close(o) PROVE IInv'
  <2>1. o \in live /\ open' = open \ {handle[o]} /\ strays' \subseteq {Invalid} \cap CtorErrors
    BY <1>3, ClosesOwn DEF Close
  <2> QED
    BY <1>3, <2>1 DEF Close
<1>4. ASSUME NEW o \in Objects, Take(o) PROVE IInv'
  BY <1>4 DEF Take
<1>5. ASSUME NEW o \in Objects, Destroy(o) PROVE IInv'
  <2>1. o \in live /\ open' = open \ {handle[o]} /\ strays' \subseteq {Invalid} \cap CtorErrors
    BY <1>5, ClosesOwn DEF Destroy
  <2> QED
    BY <1>5, <2>1 DEF Destroy
<1>6. ASSUME NEW o \in Objects, NEW h \in Handles \cup Errors, Construct(o, h)
      PROVE  IInv'
  BY <1>6 DEF Construct
<1>7. ASSUME NEW o \in Objects, NEW h \in Handles \cup Errors, Set(o, h)
      PROVE  IInv'
  <2>1. o \in live /\ open' = open \ {handle[o]} /\ strays' \subseteq {Invalid} \cap CtorErrors
    BY <1>7, ClosesOwn DEF Set
  <2> QED
    BY <1>7, <2>1 DEF Set
<1>8. CASE UNCHANGED vars
  BY <1>8 DEF vars
<1> QED
  BY <1>1, <1>2, <1>3, <1>4, <1>5, <1>6, <1>7, <1>8 DEF Next

\* The invariant of every behaviour.
LEMMA Invariance == Spec => []IInv
  BY InitIInv, NextIInv, PTL DEF Spec

\* No open handle is forgotten, whatever the constructors are given.
THEOREM LeakFree == Spec => []NothingLeaks
<1>1. IInv => NothingLeaks
  BY DEF IInv
<1> QED
  BY Invariance, <1>1, PTL

\* Nothing is closed that is not open, but the INVALID_HANDLE_VALUE of a constructor:
\* no object closes a handle that the system has given to somebody else.
THEOREM NoDoubleClose == Spec => []NothingClosedTwice
<1>1. IInv => NothingClosedTwice
  BY DEF IInv, StraysOK, NothingClosedTwice
<1> QED
  BY Invariance, <1>1, PTL

\* What objects hold is a handle of the system, NULL, or INVALID_HANDLE_VALUE.
LEMMA HeldValues ==
  ASSUME IInv, NEW o \in live
  PROVE  handle[o] \in Handles \/ handle[o] \in {Null, Invalid}
  BY ErrorsAssumption DEF IInv, TypeOK, Errors

\* A handle of the system is held once, whatever the constructors are given.
THEOREM HeldOnce == Spec => []OneHolder
<1>1. IInv => OneHolder
  <2> SUFFICES ASSUME IInv PROVE OneHolder
    OBVIOUS
  <2>1. \A o, p \in live : handle[o] \in Handles /\ handle[o] = handle[p] => o = p
    BY DEF IInv, HandlesOwned
  <2>2. \A o \in live : handle[o] \notin raw
    <3> TAKE o \in live
    <3>1. CASE handle[o] \in Handles
      BY <3>1 DEF IInv, HandlesOwned
    <3>2. CASE handle[o] \in {Null, Invalid}
      BY <3>2, ValuesAssumption DEF IInv, TypeOK, Errors
    <3> QED
      BY <3>1, <3>2, HeldValues
  <2> QED
    BY <2>1, <2>2 DEF OneHolder
<1> QED
  BY Invariance, <1>1, PTL

\* What an object holds was not closed by anybody, whatever the constructors are given.
THEOREM NeverStale == Spec => []NoStaleHandle
<1>1. IInv => NoStaleHandle
  BY HeldValues DEF IInv, HandlesOwned, NoStaleHandle
<1> QED
  BY Invariance, <1>1, PTL
=============================================================================
