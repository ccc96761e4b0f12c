------------------------------- MODULE Chart -------------------------------
(***************************************************************************)
(* One instrument's tape as it grows, and what is made of it: the candles  *)
(* and the statistics the server computes (internal/marketdata), the chart *)
(* and the header the terminal draws.                                      *)
(*                                                                         *)
(* The candles are polled and the live price is streamed: the chart draws  *)
(* the candles of one moment with the price of an earlier or later one.    *)
(***************************************************************************)
EXTENDS Panels

CONSTANTS
  Prices, Quantities,
  Steps,      \* candle intervals
  MaxHistory, \* maxTradeHistory
  MaxPrints,  \* bound: prints made
  MaxTime     \* bound: the clock

ASSUME ChartAssumption ==
  /\ Prices \subseteq Nat \ {0} /\ Quantities \subseteq Nat \ {0} /\ Steps \subseteq Nat \ {0}
  /\ MaxHistory \in Nat \ {0} /\ {MaxPrints, MaxTime} \subseteq Nat

VARIABLES
  tape,    \* Engine.trades, oldest first
  now,     \* the server's clock
  printed  \* prints made so far

vars == <<tape, now, printed>>

\* A print joins the tape with the clock's time: the matching loop makes them one
\* after the other.  A full tape drops its oldest.
recordTrade(p, q) ==
  /\ printed < MaxPrints
  /\ printed' = printed + 1
  /\ LET longer == Append(tape, [price |-> p, quantity |-> q, time |-> now])
     IN  tape' = IF Len(longer) > MaxHistory THEN Tail(longer) ELSE longer
  /\ UNCHANGED now

Tick ==
  /\ now < MaxTime
  /\ now' = now + 1
  /\ UNCHANGED <<tape, printed>>

Init == tape = <<>> /\ now = 0 /\ printed = 0

\* The price of the last print streamed, 0 before there is one.
livePrice(prints) == IF prints = <<>> THEN 0 ELSE Last(prints).price

Next == Tick \/ \E p \in Prices, q \in Quantities : recordTrade(p, q)

Spec == Init /\ [][Next]_vars

-----------------------------------------------------------------------------
(* Properties *)

\* The prints of a candle's span.
Within(candle) ==
  {i \in DOMAIN tape : candle.open_time <= tape[i].time /\ tape[i].time < candle.close_time}

\* The candles partition the tape: each print is in one, each holds a print, they
\* are in order and apart, and each opens, closes, peaks and dips where its own
\* prints do.  A limit keeps the newest (marketdata.go:76-81).
CandlesPartitionTape ==
  \A step \in Steps :
    LET candles == Candles(tape, step, 0)
    IN  /\ \A i \in DOMAIN tape : \E c \in ToSet(candles) : i \in Within(c)
        /\ \A k \in 2..Len(candles) : candles[k - 1].close_time <= candles[k].open_time
        /\ \A c \in ToSet(candles) :
             LET prints == Within(c)
                 prices == {tape[i].price : i \in prints}
             IN  /\ prints # {}
                 /\ c.open_time % step = 0 /\ c.close_time = c.open_time + step
                 /\ c.open = tape[Min(prints)].price /\ c.close = tape[Max(prints)].price
                 /\ c.low = Min(prices) /\ c.high = Max(prices)
                 /\ c.trades = Cardinality(prints)
                 /\ c.volume = SumFunctionOnSet(Volumes(tape), prints)
        /\ \A limit \in 1..(Len(candles) + 1) :
             Candles(tape, step, limit) =
               SubSeq(candles, Max({1, Len(candles) - limit + 1}), Len(candles))

\* A height strictly inside the plot.
Inside(y) == 0 < y[1] /\ y[1] < y[2]

Higher(y, z) == y[1] * z[2] >= z[1] * y[2]

\* The body is exactly one pixel high.
OnePixel(body) == PLOT_H * (body[2][1] * body[1][2] - body[1][1] * body[2][2]) = body[1][2] * body[2][2]

\* Everything drawn is inside the plot, and the marker between the labels of the axis
\* that enclose its price, though the live price may be that of a print the candles do
\* not have yet.  A body is always seen, and within its wick: only one drawn a pixel
\* high to be seen at all may reach below it.
ChartHoldsTheLivePrice ==
  \A step \in Steps, polled \in 1..Len(tape), live \in 0..Len(tape) :
    LET price == livePrice(SubSeq(tape, 1, live))
        chart == CandleChart(Candles(SubSeq(tape, 1, polled), step, 0), price)
    IN  /\ price > 0 <=> chart.marker # {}
        /\ \A y \in chart.marker :
             /\ Inside(y)
             /\ \A i \in 0..5 : Higher(y, chart.grid[i].height) <=> 500 * price >= chart.grid[i].price
        /\ \A bar \in ToSet(chart.bars) :
             /\ Inside(bar.wick[1]) /\ Inside(bar.wick[2])
             /\ Inside(bar.body[1]) /\ Inside(bar.body[2])
             /\ ~ Higher(bar.body[1], bar.body[2])
             /\ Higher(bar.wick[2], bar.body[2]) /\ Higher(bar.body[2], bar.wick[1])
             /\ Higher(bar.body[1], bar.wick[1]) \/ OnePixel(bar.body)

\* What is summed up is exactly the prints no older than the window, found by a
\* binary search that is right only because time never goes back on the tape.
HeaderIsTheWindow ==
  \A window \in 1..(MaxTime + 1) :
    LET stats  == Summarise(tape, window, now)
        recent == {i \in DOMAIN tape : tape[i].time >= now - window}
        prices == {tape[i].price : i \in recent}
    IN  /\ stats.trade_count = Cardinality(recent)
        /\ stats.volume = SumFunctionOnSet(Volumes(tape), recent)
        /\ stats.quote_volume = SumFunctionOnSet(Turnovers(tape), recent)
        /\ tape # <<>> => stats.last = Last(tape).price
        /\ recent # {} => /\ stats.open = tape[Min(recent)].price
                          /\ stats.high = Max(prices) /\ stats.low = Min(prices)
                          /\ stats.change = Last(tape).price - stats.open
        /\ recent = {} => stats.change = 0
=============================================================================
