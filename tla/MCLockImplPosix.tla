--------------------------- MODULE MCLockImplPosix ---------------------------
(***************************************************************************)
(* Instances of LockImplPosix and LockClass for TLC.                       *)
(***************************************************************************)
EXTENDS LockClass

\* Both builds, with well-behaved threads only.
ContractModes == [debug : BOOLEAN, misuse : {FALSE}]
=============================================================================
