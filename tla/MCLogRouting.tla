----------------------------- MODULE MCLogRouting -----------------------------
(***************************************************************************)
(* Instances of LogRouting for TLC: the default name, a given one and one  *)
(* that cannot be opened.                                                  *)
(***************************************************************************)
EXTENDS LogRouting

AllNames      == {"debug.log", "my.log", "dir/none.log"}
WritableNames == {"debug.log", "my.log"}
AllInits      == AllNames \X {"NONE", "FILE", "SYSTEM", "BOTH"} \X BOOLEAN
=============================================================================
