----------------------------- MODULE MCAccounts -----------------------------
(***************************************************************************)
(* Small registries for TLC.                                               *)
(***************************************************************************)
EXTENDS Accounts, TLC

Order(trader, symbol, side, qty, stop, valid) ==
  [trader |-> trader, symbol |-> symbol, side |-> side, qty |-> qty,
   stop |-> stop, valid |-> valid]

\* Enough for a position to be opened, added to, reduced, closed and flipped; a
\* trader facing itself; and a third trader, on another engine, who may take
\* the last account.
LedgerTerms ==
  <<Order("a", "X", "SELL", 1, FALSE, TRUE), Order("b", "X", "BUY", 1, FALSE, TRUE),
    Order("b", "X", "SELL", 2, FALSE, TRUE), Order("a", "X", "BUY", 3, TRUE, TRUE),
    Order("c", "Y", "SELL", 1, FALSE, FALSE)>>

=============================================================================
