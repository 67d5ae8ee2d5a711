---------------------------- MODULE MCLockImplWin ----------------------------
(***************************************************************************)
(* LockImplWin for TLC; no symmetry, because liveness is checked.          *)
(***************************************************************************)
EXTENDS LockImplWin
=============================================================================
