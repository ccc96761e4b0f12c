------------------------------- MODULE MCFeed -------------------------------
(* One browser that looks at two instruments, one of them busy. *)
EXTENDS Feed

CONSTANTS A, B
MCSize == (A :> 3) @@ (B :> 1)
=============================================================================
