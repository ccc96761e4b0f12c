------------------------------ MODULE MCTicket ------------------------------
(* A book with a bid alone, one with both sides, and none, as after a change  *)
(* of instrument.                                                            *)
EXTENDS Ticket

MCQuotes == {[best_bid |-> 1, best_ask |-> None, mid |-> None],
             [best_bid |-> 1, best_ask |-> 3, mid |-> 2], None}

\* One order of an earlier visit.
MCKept == <<0>>
=============================================================================
