---------------------------- MODULE MCDebuggerWait ----------------------------
(***************************************************************************)
(* Instances of DebuggerWait for TLC: every int32 as wait_seconds.         *)
(***************************************************************************)
EXTENDS DebuggerWait

AllSeconds == -IntMax-1..IntMax
=============================================================================
