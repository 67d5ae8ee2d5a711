----------------------------- MODULE MCLogThreads -----------------------------
(***************************************************************************)
(* Instances of LogThreads for TLC.                                        *)
(***************************************************************************)
EXTENDS LogThreads, TLC

\* The programs of the runs: every way to call InitLogging, alone; every way that
\* prepares its lock, while messages run; at any time.
Program(overlap, fails, configs) ==
    [overlap |-> overlap, fopenFails |-> fails, configs |-> configs]
Unlocked == {<<"NONE", "DONT_LOCK">>, <<"BOTH", "DONT_LOCK">>}

AllRules ==
    {Program("alone", fails, Configs \ {<<"BOTH", "DONT_LOCK">>}) : fails \in BOOLEAN}
    \cup {Program("alone", FALSE, {<<"BOTH", "DONT_LOCK">>, <<"FILE", "LOCK">>})}
    \cup {Program("sameLocking", TRUE, Configs \ Unlocked)}
    \cup {Program("free", FALSE, {<<"FILE", "DONT_LOCK">>})}
HangRules == {Program("alone", FALSE, {<<"BOTH", "DONT_LOCK">>})}
=============================================================================
