------------------------------- MODULE MCLogFile -------------------------------
(***************************************************************************)
(* Instances of LogFile for TLC.                                           *)
(***************************************************************************)
EXTENDS LogFile, TLC

Rule(os, lockings, again, fails, calls) ==
    [os |-> os, lockings |-> lockings, again |-> again, openFails |-> fails,
     calls |-> calls]

\* Programs that keep the promise of logging.h, those that do not, and POSIX.
AllRules ==
    { Rule("windows", {"LOCK"}, FALSE, FALSE, 1),
      Rule("windows", {"DONT_LOCK"}, FALSE, FALSE, 1),
      Rule("windows", {"LOCK"}, TRUE, TRUE, 1),
      Rule("posix", {"LOCK"}, TRUE, TRUE, 1),
      Rule("posix", {"LOCK"}, TRUE, FALSE, 2) }
PosixRules == { Rule("posix", {"LOCK"}, FALSE, FALSE, 1) }
================================================================================
