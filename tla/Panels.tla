------------------------------- MODULE Panels -------------------------------
(***************************************************************************)
(* What the terminal's panels draw (web/components): the ladder, the       *)
(* depth curve and the candle chart, as functions of what they are given.  *)
(* A plot is modelled by what it shows at which price: heights are         *)
(* quantities or prices over their span, as exact fractions                *)
(* <<part, whole>>.  Of the pixels they are scaled to, only the one that a *)
(* candle's body is never thinner than is kept.                            *)
(***************************************************************************)
EXTENDS MarketData

CONSTANT VISIBLE_LEVELS  \* rows of a side of the ladder

ASSUME PanelsAssumption == VISIBLE_LEVELS \in Nat \ {0}

firstOf(seq, n) == SubSeq(seq, 1, Min({n, Len(seq)}))

lastOr(levels, default) == IF levels = <<>> THEN default ELSE Last(levels).cumulative

-----------------------------------------------------------------------------
(* OrderBookPanel *)

percentOf(part, total) == IF total <= 0 THEN 0 ELSE Min({100, Max({0, (part * 100) \div total})})

LadderRow(level, side, max) ==
  [price |-> level.price, side |-> side, size |-> level.quantity, total |-> level.cumulative,
   width |-> percentOf(level.cumulative, max)]

\* The best offer just above the best bid.
AskRows(asks, max) == [i \in DOMAIN asks |-> LadderRow(Reverse(asks)[i], "SELL", max)]
BidRows(bids, max) == [i \in DOMAIN bids |-> LadderRow(bids[i], "BUY", max)]

\* Rows from top to bottom; both sides share a scale.
OrderBookPanel(depth) ==
  LET bids == firstOf(depth.bids, VISIBLE_LEVELS)
      asks == firstOf(depth.asks, VISIBLE_LEVELS)
      max  == Max({lastOr(bids, 0), lastOr(asks, 0), 1})
  IN  AskRows(asks, max) \o BidRows(bids, max)

\* Mutant: the ticket takes the side of the row.
Loaded_SameSide(row) == [price |-> row.price, side |-> row.side]

\* The order a click on a row loads into the ticket.
Loaded(row) == [price |-> row.price, side |-> IF row.side = "SELL" THEN "BUY" ELSE "SELL"]

-----------------------------------------------------------------------------
(* MarketDepthPanel *)

\* Mutant: the curve goes to the level's height before it moves.
Stepped_Early(path, l) == path \o << <<Last(path)[1], l.cumulative>>, <<l.price, l.cumulative>> >>

\* Across to the level's price, then to its height.
Stepped(path, l) == path \o << <<l.price, Last(path)[2]>>, <<l.price, l.cumulative>> >>

\* The corners of the curve, in the order they are drawn.
stepPath(levels) ==
  FoldLeft(Stepped, << <<levels[1].price, levels[1].cumulative>> >>, Tail(levels))

\* The height of a curve strictly between two corners.
heightAt(path, price) ==
  LET i == CHOOSE i \in 1..(Len(path) - 1) : path[i][1] < price /\ price < path[i + 1][1]
  IN  path[i][2]

\* Where the line between the two sides is drawn.
midX(depth) == depth.mid

MarketDepthPanel(depth) ==
  LET bids   == Reverse(depth.bids)
      prices == {l.price : l \in ToSet(depth.bids) \cup ToSet(depth.asks)}
  IN  [bid      |-> IF bids = <<>> THEN <<>> ELSE stepPath(bids),
       ask      |-> IF depth.asks = <<>> THEN <<>> ELSE stepPath(depth.asks),
       mid      |-> midX(depth),
       lo       |-> Min(prices),
       hi       |-> Max(prices),
       maxQty   |-> Max({lastOr(depth.bids, 0), lastOr(depth.asks, 0), 1}),
       bidDepth |-> lastOr(depth.bids, 0),
       askDepth |-> lastOr(depth.asks, 0)]

-----------------------------------------------------------------------------
(* CandleChart.  The prices of its axis are in hundredths, its margin being  *)
(* eight of them to each unit of the span.                                   *)

\* Mutant: the domain is the candles' alone.
Domain_CandlesOnly(candles, livePrice) ==
  {c.low : c \in ToSet(candles)} \cup {c.high : c \in ToSet(candles)}

\* The prices the axis must reach: every candle's, and the live one.
Domain(candles, livePrice) ==
  {c.low : c \in ToSet(candles)} \cup {c.high : c \in ToSet(candles)}
  \cup (IF livePrice \in Int /\ livePrice > 0 THEN {livePrice} ELSE {})

\* The axis: six lines, each with the price of its height (in five hundredths).
Grid(lo, hi) ==
  [i \in 0..5 |-> [height |-> <<5 - i, 5>>, price |-> 5 * hi - (hi - lo) * i]]

\* How high a price is between the ends of the axis.
height(price, lo, hi) == <<100 * price - lo, hi - lo>>

\* Pixels from the top of the plot to its bottom.
PLOT_H == 390

\* Its bottom and top: from the higher price down to the lower, and at least a pixel.
Body(from, to, lo, hi) ==
  LET top  == Max({from, to})
      drop == Max({100 * (top - Min({from, to})) * PLOT_H, hi - lo})
  IN  << <<(100 * top - lo) * PLOT_H - drop, (hi - lo) * PLOT_H>>, height(top, lo, hi)>>

Bar(candle, lo, hi) ==
  [key    |-> candle.open_time,
   rising |-> candle.close >= candle.open,
   wick   |-> <<height(candle.low, lo, hi), height(candle.high, lo, hi)>>,
   body   |-> Body(candle.open, candle.close, lo, hi)]

Marker(livePrice, lo, hi) ==
  IF livePrice \in Int /\ livePrice > 0 THEN {height(livePrice, lo, hi)} ELSE {}

CandleChart(candles, livePrice) ==
  LET low  == Min(Domain(candles, livePrice))
      high == Max(Domain(candles, livePrice))
      span == Max({high - low, 2})
      lo   == 100 * low - 8 * span
      hi   == 100 * high + 8 * span
  IN  [grid   |-> Grid(lo, hi),
       bars   |-> [i \in DOMAIN candles |-> Bar(candles[i], lo, hi)],
       marker |-> Marker(livePrice, lo, hi)]

=============================================================================
