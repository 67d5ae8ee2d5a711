-------------------------- MODULE MCStringPieceScan --------------------------
(***************************************************************************)
(* StringPieceScan for TLC.                                                *)
(***************************************************************************)
EXTENDS StringPieceScan
=============================================================================
