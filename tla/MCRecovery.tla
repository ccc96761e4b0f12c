----------------------------- MODULE MCRecovery -----------------------------
(***************************************************************************)
(* A small history for TLC: a limit order and a stop, a channel of one, a  *)
(* failing disk, a few crashes.                                            *)
(***************************************************************************)
EXTENDS Recovery

CONSTANTS o1, s1
MCIds == {o1, s1}
=============================================================================
