----------------------------- MODULE MarketData -----------------------------
(***************************************************************************)
(* The pure functions that turn a book and a tape into what the API        *)
(* serves: the aggregated depth (internal/orderbook), the candles and the  *)
(* rolling statistics (internal/marketdata).                               *)
(*                                                                         *)
(* An order is [id, price, left, stamp, live], a print [price, quantity,   *)
(* time].  Prices are in a unit in which the mid of two prices is whole.   *)
(***************************************************************************)
EXTENDS Integers, SequencesExt, FiniteSetsExt

-----------------------------------------------------------------------------
(* The book *)

\* o has priority over p.
Before(o, p, descending) ==
  \/ o.price = p.price /\ o.stamp < p.stamp
  \/ o.price # p.price /\ (descending <=> o.price > p.price)

\* The live orders of one side's heap, in price-time priority.
collect(orders, descending) ==
  CHOOSE s \in SetToSeqs({o \in orders : o.live /\ o.left > 0}) :
    \A i, j \in DOMAIN s : i < j => ~ Before(s[j], s[i], descending)

Grouped(levels, o) ==
  IF levels # <<>> /\ Last(levels).price = o.price
  THEN [levels EXCEPT ![Len(levels)].quantity = @ + o.left,
                      ![Len(levels)].order_count = @ + 1]
  ELSE Append(levels, [price |-> o.price, quantity |-> o.left, order_count |-> 1])

LevelSizes(levels) == [i \in DOMAIN levels |-> levels[i].quantity]

\* Price levels, best first, each with the depth from the best price down to it.
aggregate(orders, maxLevels) ==
  LET levels == FoldLeft(Grouped, <<>>, orders)
      shown  == IF maxLevels > 0 /\ Len(levels) > maxLevels THEN maxLevels ELSE Len(levels)
  IN  [i \in 1..shown |->
        [price       |-> levels[i].price,
         quantity    |-> levels[i].quantity,
         order_count |-> levels[i].order_count,
         cumulative  |-> SumFunctionOnSet(LevelSizes(levels), 1..i)]]

Depth(bidOrders, askOrders, maxLevels, none) ==
  LET bids == aggregate(collect(bidOrders, TRUE), maxLevels)
      asks == aggregate(collect(askOrders, FALSE), maxLevels)
      both == bids # <<>> /\ asks # <<>>
  IN  [bids     |-> bids,
       asks     |-> asks,
       best_bid |-> IF bids = <<>> THEN none ELSE bids[1].price,
       best_ask |-> IF asks = <<>> THEN none ELSE asks[1].price,
       spread   |-> IF both THEN asks[1].price - bids[1].price ELSE none,
       mid      |-> IF both THEN (asks[1].price + bids[1].price) \div 2 ELSE none]

-----------------------------------------------------------------------------
(* The tape *)

Opening(t, step) ==
  LET bucket == t.time - (t.time % step)
  IN  [open_time |-> bucket, close_time |-> bucket + step,
       open |-> t.price, high |-> t.price, low |-> t.price, close |-> t.price,
       volume |-> t.quantity, trades |-> 1]

\* Mutant: a candle closes at its first print.
Extending_KeepsClose(candle, t) ==
  [candle EXCEPT !.high = Max({@, t.price}), !.low = Min({@, t.price}),
                 !.volume = @ + t.quantity, !.trades = @ + 1]

Extending(candle, t) ==
  [candle EXCEPT !.high = Max({@, t.price}), !.low = Min({@, t.price}), !.close = t.price,
                 !.volume = @ + t.quantity, !.trades = @ + 1]

Candles(tape, step, limit) ==
  LET Next(out, t) ==
        IF out # <<>> /\ Last(out).open_time = Opening(t, step).open_time
        THEN [out EXCEPT ![Len(out)] = Extending(@, t)]
        ELSE Append(out, Opening(t, step))
      all == FoldLeft(Next, <<>>, tape)
  IN  IF limit > 0 /\ Len(all) > limit THEN SubSeq(all, Len(all) - limit + 1, Len(all)) ELSE all

\* sort.Search halves the range <<i, j>>: what it finds is the first index at which
\* test holds only because test, once true, stays true.
Search(n, test) ==
  LET find[r \in (0..n) \X (0..n)] ==
        LET h == (r[1] + r[2]) \div 2
        IN  IF r[1] >= r[2] THEN r[1]
            ELSE find[IF test[h] THEN <<r[1], h>> ELSE <<h + 1, r[2]>>]
  IN  find[<<0, n>>]

From(tape, start) == SubSeq(tape, start + 1, Len(tape))

\* Mutant: a print just as old as the window is out of it.
InWindow_Strict(tape, window, now) ==
  From(tape, Search(Len(tape), [i \in 0..(Len(tape) - 1) |-> tape[i + 1].time > now - window]))

InWindow(tape, window, now) ==
  From(tape, Search(Len(tape), [i \in 0..(Len(tape) - 1) |-> tape[i + 1].time >= now - window]))

Volumes(prints)   == [i \in DOMAIN prints |-> prints[i].quantity]
Turnovers(prints) == [i \in DOMAIN prints |-> prints[i].price * prints[i].quantity]

Summarise(tape, window, now) ==
  LET inWindow == InWindow(tape, window, now)
      prices   == {t.price : t \in ToSet(inWindow)}
      Quiet(p) == [last |-> p, open |-> p, high |-> p, low |-> p, change |-> 0,
                   volume |-> 0, quote_volume |-> 0, trade_count |-> 0]
  IN  IF inWindow = <<>> THEN Quiet(IF tape = <<>> THEN 0 ELSE Last(tape).price)
      ELSE [last |-> Last(inWindow).price,
            open |-> inWindow[1].price,
            high |-> Max(prices), low |-> Min(prices),
            change |-> Last(inWindow).price - inWindow[1].price,
            volume |-> SumFunction(Volumes(inWindow)),
            quote_volume |-> SumFunction(Turnovers(inWindow)),
            trade_count |-> Len(inWindow)]
=============================================================================
