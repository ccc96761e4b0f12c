----------------------------- MODULE Settlement -----------------------------
(***************************************************************************)
(* What a venue promises its traders, with no book, no queue, no stops and *)
(* no threads.  An order's terms are fixed when it is accepted.  From then *)
(* on its open quantity changes only by a printed trade, between a buy and *)
(* a sell that both have the quantity open, at a price neither would       *)
(* refuse; both lose exactly what was printed.                             *)
(***************************************************************************)
EXTENDS Orders

CONSTANTS Ids,
          NoPrint  \* the tape is empty

VARIABLES accepted,  \* the orders that exist
          terms,     \* terms[o]: side and limit price, 0 for no limit
          open,      \* open[o]: the quantity still open
          last       \* the newest print

vars == <<accepted, terms, open, last>>

Terms == [side: Sides \cup {"NONE"}, limit: Nat]

Prints == [buy: Ids, sell: Ids, price: Nat, qty: Nat \ {0}]

Agrees(t, price) ==
  \/ t.limit = 0
  \/ t.side = "BUY" /\ price <= t.limit
  \/ t.side = "SELL" /\ price >= t.limit

Init ==
  /\ accepted = {}
  /\ terms \in [Ids -> Terms]
  /\ open \in [Ids -> Nat]
  /\ last = NoPrint

\* Any terms and any quantity may be accepted; nobody else's change.
Accept(o) ==
  /\ o \notin accepted
  /\ accepted' = accepted \cup {o}
  /\ terms'[o] \in Terms /\ open'[o] \in Nat
  /\ terms' = [terms EXCEPT ![o] = terms'[o]]
  /\ open' = [open EXCEPT ![o] = open'[o]]
  /\ UNCHANGED last

\* The next value of `last' is the print being settled.
Settle ==
  LET t == last' IN
  /\ t \in Prints
  /\ {t.buy, t.sell} \subseteq accepted
  /\ terms[t.buy].side = "BUY" /\ Agrees(terms[t.buy], t.price)
  /\ terms[t.sell].side = "SELL" /\ Agrees(terms[t.sell], t.price)
  /\ t.qty <= open[t.buy] /\ t.qty <= open[t.sell]
  /\ open' = [open EXCEPT ![t.buy] = @ - t.qty, ![t.sell] = @ - t.qty]
  /\ UNCHANGED <<accepted, terms>>

Next == (\E o \in Ids : Accept(o)) \/ Settle

Spec == Init /\ [][Next]_vars

=============================================================================
