----------------------------- MODULE MCConnection -----------------------------
(***************************************************************************)
(* Two connections: one whose goroutines outlive it and one that meets     *)
(* them.                                                                   *)
(***************************************************************************)
EXTENDS Connection, TLC
===============================================================================
