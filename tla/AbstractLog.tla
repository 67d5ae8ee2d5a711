------------------------------ MODULE AbstractLog ------------------------------
(***************************************************************************)
(* What logging.h promises of log files that several processes write with  *)
(* LOCK_LOG_FILE: "make each log outut atomic.  Other writers will block." *)
(* A log is a sequence of whole messages, those of one process in the order*)
(* in which it logged them, and each at most once; a log is emptied only as*)
(* a whole.  A message is its two halves, so that a torn one is not one.   *)
(***************************************************************************)
EXTENDS Naturals, Sequences

CONSTANTS Processes, Names, Numbers   \* Numbers: those of the messages of a process

VARIABLE log

\* The n-th message of process p as it stands in a file.
Halves(p, n) == << [from |-> p, number |-> n, half |-> 1],
                   [from |-> p, number |-> n, half |-> 2] >>

Init == log = [name \in Names |-> << >>]

\* A message of p arrives after all earlier ones of p.
Output(name, p, n) ==
    /\ \A i \in DOMAIN log[name] : log[name][i].from = p => log[name][i].number < n
    /\ log' = [log EXCEPT ![name] = @ \o Halves(p, n)]

\* DELETE_OLD_LOG_FILE.
Remove(name) == log' = [log EXCEPT ![name] = << >>]

Next == \E name \in Names :
            \/ Remove(name)
            \/ \E p \in Processes, n \in Numbers : Output(name, p, n)

Spec == Init /\ [][Next]_log
================================================================================
