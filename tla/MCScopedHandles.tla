--------------------------- MODULE MCScopedHandles ---------------------------
(***************************************************************************)
(* ScopedHandles for TLC.  Without symmetry the three objects and handles are*)
(* few enough.                                                             *)
(***************************************************************************)
EXTENDS ScopedHandles
=============================================================================
