----------------------------- MODULE MCBookFeed -----------------------------
(* Two bids share a level, two more are below; there are gaps between all    *)
(* levels.  Stream and ladder show fewer levels than the bids may have.      *)
EXTENDS BookFeed

CONSTANTS B1, B2, B3, B4, A1, A2
MCSide  == [o \in Orders |-> IF o \in {A1, A2} THEN "SELL" ELSE "BUY"]
MCPrice == [o \in Orders |-> CASE o \in {B1, B2} -> 8 [] o = B3 -> 4 [] o = B4 -> 2 [] o = A1 -> 12 [] o = A2 -> 16]
MCSize  == [o \in Orders |-> IF o = B2 THEN 2 ELSE 1]
=============================================================================
