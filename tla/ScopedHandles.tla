----------------------------- MODULE ScopedHandles -----------------------------
(***************************************************************************)
(* ScopedStdioHandle (base/scoped_handle.h) and ScopedHandle               *)
(* (base/scoped_handle_win.h): objects that close the handle they hold.    *)
(* The clients here pass each handle on to one object and keep their hands *)
(* off it until Take() gives it back.  The system gives a closed handle out*)
(* again, so a handle that is closed twice may be somebody else's.         *)
(***************************************************************************)

CONSTANTS Objects,     \* the scoped objects, each constructed any number of times
          Handles,     \* the values of open handles
          Null,        \* NULL
          Invalid,     \* INVALID_HANDLE_VALUE
          Windows,     \* TRUE: ScopedHandle, FALSE: ScopedStdioHandle
          CtorErrors,  \* what a constructor may get from a call that failed
          SetErrors    \* what Set() may get from one

Errors == {Null, Invalid}

ASSUME ValuesAssumption ==
    Errors \cap Handles = {} /\ Null # Invalid /\ Windows \in BOOLEAN
ASSUME ErrorsAssumption ==
    /\ CtorErrors \subseteq Errors /\ SetErrors \subseteq Errors
    /\ ~Windows => CtorErrors \subseteq {Null} /\ SetErrors \subseteq {Null}

VARIABLES live,        \* the objects that exist
          handle,      \* handle_ of each object
          open,        \* the handles that are open
          raw,         \* the handles that a client holds itself
          strays       \* what was closed without being open

vars == <<live, handle, open, raw, strays>>
-----------------------------------------------------------------------------
Init ==
    /\ live = {} /\ handle = [o \in Objects |-> Null]
    /\ open = {} /\ raw = {} /\ strays = {}

\* CloseHandle(h) or fclose(h).
CloseSystem(h) ==
    /\ open' = open \ {h}
    /\ strays' = IF h \in open THEN strays ELSE strays \cup {h}

\* IsValid(), and handle_ != NULL.
IsValid(o) == handle[o] # Null

\* CreateFile, fopen: any handle that is not open, a closed one included.
Open(h) ==
    /\ h \notin open
    /\ open' = open \cup {h} /\ raw' = raw \cup {h}
    /\ UNCHANGED <<live, handle, strays>>

\* The client closes what it holds itself.
CloseRaw(h) ==
    /\ h \in raw /\ raw' = raw \ {h}
    /\ CloseSystem(h)
    /\ UNCHANGED <<live, handle>>

\* The constructors: handle_(h), as it comes; by default NULL.
Construct(o, h) ==
    /\ o \notin live /\ h \in raw \cup CtorErrors \cup {Null}
    /\ live' = live \cup {o}
    /\ handle' = [handle EXCEPT ![o] = h]
    /\ raw' = raw \ {h}
    /\ UNCHANGED <<open, strays>>

\* Mutant: the handle is remembered after it was closed.
CloseKeeping(o) ==
    /\ o \in live
    /\ IF IsValid(o) THEN CloseSystem(handle[o]) ELSE UNCHANGED <<open, strays>>
    /\ UNCHANGED <<live, handle, raw>>

\* Close(): an object that holds nothing closes nothing.
Close(o) ==
    /\ o \in live
    /\ IF IsValid(o) THEN CloseSystem(handle[o]) ELSE UNCHANGED <<open, strays>>
    /\ handle' = [handle EXCEPT ![o] = Null]
    /\ UNCHANGED <<live, raw>>

\* Mutant: the old handle is not closed.
SetOver(o, h) ==
    /\ o \in live /\ h \in raw \cup SetErrors
    /\ handle' = [handle EXCEPT ![o] = h]
    /\ raw' = raw \ {h}
    /\ UNCHANGED <<live, open, strays>>

\* Mutant: the old handle is closed but not forgotten.
SetUnreset(o, h) ==
    /\ o \in live /\ h \in raw \cup SetErrors
    /\ IF IsValid(o) THEN CloseSystem(handle[o]) ELSE UNCHANGED <<open, strays>>
    /\ handle' = [handle EXCEPT ![o] = IF Windows /\ h = Invalid THEN @ ELSE h]
    /\ raw' = raw \ {h}
    /\ UNCHANGED live

\* Set(): closes the old handle; only the class for Windows knows that
\* INVALID_HANDLE_VALUE is none, and keeps NULL for it.
Set(o, h) ==
    /\ o \in live /\ h \in raw \cup SetErrors
    /\ IF IsValid(o) THEN CloseSystem(handle[o]) ELSE UNCHANGED <<open, strays>>
    /\ handle' = [handle EXCEPT ![o] = IF Windows /\ h = Invalid THEN Null ELSE h]
    /\ raw' = raw \ {h}
    /\ UNCHANGED live

\* Mutant: the object goes on holding what it gives away.
TakeKeeping(o) ==
    /\ o \in live
    /\ raw' = raw \cup ({handle[o]} \cap Handles)
    /\ UNCHANGED <<live, handle, open, strays>>

\* Take(): the handle goes back to the client.
Take(o) ==
    /\ o \in live
    /\ raw' = raw \cup ({handle[o]} \cap Handles)
    /\ handle' = [handle EXCEPT ![o] = Null]
    /\ UNCHANGED <<live, open, strays>>

\* The destructors call Close().
Destroy(o) ==
    /\ o \in live /\ live' = live \ {o}
    /\ IF IsValid(o) THEN CloseSystem(handle[o]) ELSE UNCHANGED <<open, strays>>
    /\ handle' = [handle EXCEPT ![o] = Null]
    /\ UNCHANGED raw

Next ==
    \/ \E h \in Handles : Open(h) \/ CloseRaw(h)
    \/ \E o \in Objects : Close(o) \/ Take(o) \/ Destroy(o)
    \/ \E o \in Objects, h \in Handles \cup Errors : Construct(o, h) \/ Set(o, h)

Spec == Init /\ [][Next]_vars
-----------------------------------------------------------------------------
(***************************************************************************)
(* Properties.                                                             *)
(***************************************************************************)

\* The variables have their types; what does not exist holds nothing, and an object
\* has INVALID_HANDLE_VALUE from its constructor only.
TypeOK ==
    /\ live \subseteq Objects
    /\ handle \in [Objects -> Handles \cup CtorErrors \cup {Null}]
    /\ \A o \in Objects \ live : handle[o] = Null
    /\ open \subseteq Handles /\ raw \subseteq Handles
    /\ strays \subseteq Handles \cup Errors

\* "Used so we always remember to close the handle": a handle that is open is held,
\* by an object that will close it or by the client itself.
NothingLeaks == open \subseteq raw \cup {handle[o] : o \in live}

\* Nothing is closed that is not open, and so nothing that the system has given to
\* somebody else meanwhile: after Take, Close and Set no object holds what is not
\* its own.  The exception is INVALID_HANDLE_VALUE, which an object that got it from
\* its constructor closes: CloseHandle refuses it.
NothingClosedTwice == strays \subseteq {Invalid}

\* A handle of the system has one holder: no two objects, nor an object and the
\* client, hold it.
OneHolder ==
    /\ \A o, p \in live : handle[o] \in Handles /\ handle[o] = handle[p] => o = p
    /\ \A o \in live : handle[o] \notin raw

\* No object is left with a handle that was closed: what it holds is NULL, the
\* INVALID_HANDLE_VALUE of its constructor, or open.
NoStaleHandle == \A o \in live : handle[o] \in open \cup {Null, Invalid}
=============================================================================
