----------------------------- MODULE MCLogStore -----------------------------
(***************************************************************************)
(* A store of a few entries.                                               *)
(***************************************************************************)
EXTENDS LogStore
=============================================================================
