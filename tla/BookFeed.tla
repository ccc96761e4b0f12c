------------------------------ MODULE BookFeed ------------------------------
(***************************************************************************)
(* How the terminal follows one book: a venue whose resting orders are     *)
(* filled in place, popped and cancelled (internal/orderbook, engine), the *)
(* ticker that republishes the book when its counters have moved           *)
(* (internal/api/stream.go), the browser's copy (web/lib/stream.ts), and   *)
(* the panels that draw it.                                                *)
(*                                                                         *)
(* Incoming orders are known by what they do to the book: each rests, or   *)
(* fills what is best a unit at a time.  The prints are Feed's business,   *)
(* and a change of instrument, which starts all of this anew, is too.      *)
(***************************************************************************)
EXTENDS Panels

CONSTANTS
  Orders,       \* orders that may rest
  Standing,     \* those that rest already when the browser connects
  Side, Price, Size,
  MaxLevels,    \* streamDepthLevels
  MaxIncoming,  \* bound: orders the venue handles
  MaxCuts,      \* bound: connections the network breaks
  MaxVersion,   \* bound: no order is cancelled again from this version on
  None

ASSUME BookFeedAssumption ==
  /\ Side \in [Orders -> {"BUY", "SELL"}]
  /\ IsFiniteSet(Orders)
  /\ Price \in [Orders -> Nat \ {0}] /\ Size \in [Orders -> Nat \ {0}]
  /\ \A o, p \in Orders : Side[o] = "BUY" /\ Side[p] = "SELL" =>
       Price[o] < Price[p] /\ (Price[o] + Price[p]) % 2 = 0  \* the mid is whole
  /\ {MaxLevels, MaxIncoming} \subseteq Nat \ {0}
  /\ {MaxCuts, MaxVersion} \subseteq Nat
  /\ Standing \subseteq Orders

VARIABLES
  \* the venue
  stage,     \* stage[o]: "new", "resting", "filled", "cancelled" or "popped"
  left,      \* left[o]: Remaining
  stamp,     \* stamp[o]: when it came to rest
  version,   \* OrderBook.version
  matched,   \* Engine.totalOrders
  busy,      \* the matching loop is inside an order
  \* the goroutine that serves the stream
  link,      \* "dialling" or "open"
  watermark, \* what the goroutine last wrote the book at
  tick,      \* counters read in the book tick under way, <<>> between ticks
  \* the browser
  pending,   \* pendingDepth
  depth,     \* StreamState.depth
  cuts       \* bookkeeping

book    == <<stage, left, stamp, version>>
venue   == <<book, matched, busy>>
server  == <<link, watermark, tick>>
browser == <<pending, depth>>
vars    == <<venue, server, browser, cuts>>

-----------------------------------------------------------------------------
(* The venue *)

\* An order is in its heap from the moment it rests until it is popped.
InBook(o) == stage[o] \in {"resting", "filled", "cancelled"}

Record(o) == [id |-> o, price |-> Price[o], left |-> left[o], stamp |-> stamp[o],
              live |-> stage[o] = "resting"]

Heap(side) == {Record(o) : o \in {p \in Orders : Side[p] = side /\ InBook(p)}}

\* Mutant: orders filled and not popped yet are collected too.
Snapshot_Dead == {<<o, left[o], stamp[o]>> : o \in {p \in Orders : InBook(p)}}

\* What a snapshot collects under the book's lock.  Where it is sent and kept it
\* stands for the depth aggregated from it, which is Shown.
Snapshot == {<<o, left[o], stamp[o]>> : o \in {p \in Orders : stage[p] = "resting"}}

Shown == Depth(Heap("BUY"), Heap("SELL"), MaxLevels, None)

\* The top of a heap: no order of its side is before it.
Top(o) ==
  /\ InBook(o)
  /\ \A p \in Orders : Side[p] = Side[o] /\ InBook(p) /\ p # o =>
       \/ Price[o] = Price[p] /\ stamp[o] <= stamp[p]
       \/ Price[o] # Price[p] /\ (Side[o] = "BUY" <=> Price[o] > Price[p])

\* What an order of the given side and limit could trade at once.
LiquidityAgainst(incomingSide, limit) ==
  SumFunctionOnSet(left,
    {o \in Orders : /\ Side[o] # incomingSide /\ stage[o] = "resting" /\ left[o] > 0
                    /\ IF incomingSide = "BUY" THEN Price[o] <= limit ELSE Price[o] >= limit})

Begin ==
  /\ ~busy /\ matched < MaxIncoming
  /\ busy' = TRUE
  /\ UNCHANGED <<book, matched, server, browser, cuts>>

\* What an order exhausts it pops before it is done.
Popped == \A o \in Orders : InBook(o) => left[o] > 0

\* What is left of an incoming order, or of a stop it triggers, rests.
AddOrder(o) ==
  /\ busy /\ Popped /\ stage[o] = "new"
  /\ stage' = [stage EXCEPT ![o] = "resting"]
  /\ stamp' = [stamp EXCEPT ![o] = Cardinality({p \in Orders : stage[p] # "new"})]
  /\ version' = version + 1
  /\ UNCHANGED <<left, matched, busy, server, browser, cuts>>

\* A fill in place: no counter moves.
Fill(o) ==
  /\ busy /\ Top(o) /\ stage[o] = "resting"
  /\ left' = [left EXCEPT ![o] = @ - 1]
  /\ stage' = [stage EXCEPT ![o] = IF left[o] = 1 THEN "filled" ELSE @]
  /\ UNCHANGED <<stamp, version, matched, busy, server, browser, cuts>>

\* What is exhausted or dead at the top of a heap is popped on the way.
Pop(o) ==
  /\ busy /\ Top(o) /\ stage[o] \in {"filled", "cancelled"}
  /\ stage' = [stage EXCEPT ![o] = "popped"]
  /\ version' = version + 1
  /\ UNCHANGED <<left, stamp, matched, busy, server, browser, cuts>>

\* The order is done with, and counted.
End ==
  /\ busy /\ Popped
  /\ busy' = FALSE /\ matched' = matched + 1
  /\ UNCHANGED <<book, server, browser, cuts>>

\* A cancel marks an order that is still in the book, in the middle of anything:
\* one filled and not popped yet, too, and one that is cancelled already.
CancelOrder(o) ==
  /\ InBook(o)
  /\ stage[o] = "cancelled" => version < MaxVersion
  /\ stage' = [stage EXCEPT ![o] = "cancelled"]
  /\ version' = version + 1
  /\ UNCHANGED <<left, stamp, matched, busy, server, browser, cuts>>

-----------------------------------------------------------------------------
(* The goroutine that serves the stream *)

writeSnapshot ==
  /\ link = "dialling"
  /\ link' = "open"
  /\ pending' = Snapshot
  /\ watermark' = <<>> /\ tick' = <<>>
  /\ UNCHANGED <<venue, depth, cuts>>

\* A book tick reads the orders counted, then the version of the book.
ReadMetrics ==
  /\ link = "open" /\ tick = <<>>
  /\ tick' = <<matched>>
  /\ UNCHANGED <<venue, link, watermark, browser, cuts>>

\* Mutant: the counters are those of structural changes alone.
Current_VersionOnly(seen) == <<0, version>>

Current(seen) == <<seen, version>>

\* Counters that have not moved end the tick.
ReadVersion ==
  /\ Len(tick) = 1
  /\ LET current == Current(tick[1])
     IN  IF current = watermark
         THEN tick' = <<>> /\ UNCHANGED watermark
         ELSE tick' = current /\ watermark' = current
  /\ UNCHANGED <<venue, link, browser, cuts>>

\* The book, read after its counters, is written.
writeBook ==
  /\ Len(tick) = 2
  /\ tick' = <<>>
  /\ pending' = Snapshot
  /\ UNCHANGED <<venue, link, watermark, depth, cuts>>

\* The network breaks the connection; EventSource dials again.  (It gives up in
\* Feed.)
Cut ==
  /\ cuts < MaxCuts
  /\ link = "open"
  /\ link' = "dialling"
  /\ watermark' = <<>> /\ tick' = <<>>
  /\ cuts' = cuts + 1
  /\ UNCHANGED <<venue, browser>>

-----------------------------------------------------------------------------
(* The browser *)

\* Mutant: only the first book is kept.
Flush_KeepsFirst ==
  /\ pending # None
  /\ depth' = IF depth = None THEN pending ELSE depth
  /\ pending' = None
  /\ UNCHANGED <<venue, server, cuts>>

Flush ==
  /\ pending # None
  /\ depth' = pending
  /\ pending' = None
  /\ UNCHANGED <<venue, server, cuts>>

-----------------------------------------------------------------------------

Init ==
  /\ stage = [o \in Orders |-> IF o \in Standing THEN "resting" ELSE "new"] /\ left = Size
  /\ stamp = [o \in Orders |-> 0]
  /\ version = 0 /\ matched = 0 /\ busy = FALSE
  /\ link = "dialling" /\ watermark = <<>> /\ tick = <<>>
  /\ pending = None /\ depth = None
  /\ cuts = 0

Book(o) == AddOrder(o) \/ Fill(o) \/ Pop(o) \/ CancelOrder(o)
Venue   == Begin \/ End \/ \E o \in Orders : Book(o)
Serve   == writeSnapshot \/ ReadMetrics \/ ReadVersion \/ writeBook \/ Cut

Next == Venue \/ Serve \/ Flush

\* The matching loop finishes the order it is in; the server's goroutine, its
\* ticker and the flush timer do not stop.
Fairness ==
  /\ WF_vars(End) /\ \A o \in Orders : WF_vars(Pop(o))
  /\ WF_vars(writeSnapshot) /\ WF_vars(ReadMetrics) /\ WF_vars(ReadVersion) /\ WF_vars(writeBook)
  /\ WF_vars(Flush)

Spec     == Init /\ [][Next]_vars
FairSpec == Spec /\ Fairness

\* The venue with nobody watching: every book there can be.
BookSpec == Init /\ [][Venue]_vars

-----------------------------------------------------------------------------
(* Properties *)

Contents == SUBSET (Orders \X (Nat \ {0}) \X (0..Cardinality(Orders)))

\* Type invariant; what is sent is always what is live, an order once.
TypeOK ==
  /\ stage \in [Orders -> {"new", "resting", "filled", "cancelled", "popped"}]
  /\ \A o \in Orders : left[o] \in 0..Size[o]
  /\ stamp \in [Orders -> 0..Cardinality(Orders)]
  /\ version \in Nat /\ matched \in 0..MaxIncoming /\ busy \in BOOLEAN
  /\ link \in {"dialling", "open"}
  /\ watermark \in Seq(Nat) /\ Len(watermark) \in {0, 2}
  /\ tick \in Seq(Nat) /\ Len(tick) \in 0..2
  /\ {pending, depth} \subseteq Contents \cup {None}
  /\ cuts \in 0..MaxCuts

\* The book on display becomes the venue's and stays so, once the venue is still:
\* the two counters miss no change of it, though a fill in place moves neither
\* and the book is read after them (stream.go:180-182 "Together they cover every
\* mutation").
DepthCatchesUp == <>[](depth = Snapshot)

\* A click on a row of the ladder loads an order that would take, from the book
\* displayed, exactly the row's total: the aggregate, the panel and the engine's
\* own count of the liquidity agree, among dead orders and shared levels.
LevelLoadsItsTotal ==
  LET rows == OrderBookPanel(Shown)
  IN  \A i \in DOMAIN rows :
        LiquidityAgainst(Loaded(rows[i]).side, Loaded(rows[i]).price) = rows[i].total

\* What the plot says of the book is what the engine counts: there is a corner over
\* each level, at the liquidity an order limited to its price would find, and the
\* curve's height between two asks is the liquidity up to any price between.  No
\* corner is outside the plot, and the mid divides the two sides
\* (MarketDepthPanel.tsx:158).
PlotMarksDepth ==
  LET shown == Shown
      panel == MarketDepthPanel(shown)
      asks  == shown.asks
      bids  == shown.bids
  IN  bids \o asks # <<>> =>
        /\ \A level \in ToSet(asks) :
             <<level.price, LiquidityAgainst("BUY", level.price)>> \in ToSet(panel.ask)
        /\ \A level \in ToSet(bids) :
             <<level.price, LiquidityAgainst("SELL", level.price)>> \in ToSet(panel.bid)
        /\ \A i \in 2..Len(asks) : \A p \in (asks[i - 1].price + 1)..(asks[i].price - 1) :
             heightAt(panel.ask, p) = LiquidityAgainst("BUY", p)
        /\ \A corner \in ToSet(panel.bid) \cup ToSet(panel.ask) :
             corner[1] \in panel.lo..panel.hi /\ corner[2] \in 0..panel.maxQty
        /\ panel.mid # None =>
             /\ \A corner \in ToSet(panel.bid) : corner[1] < panel.mid
             /\ \A corner \in ToSet(panel.ask) : corner[1] > panel.mid

-----------------------------------------------------------------------------
(* What a comment says, and the code does not do *)

\* MarketDepthPanel.tsx: the curve steps, so that it implies no liquidity at prices
\* that have none; its height between two levels of a side is what the engine
\* counts as the liquidity at that price.
CurveIsDepth ==
  LET shown == Shown
      panel == MarketDepthPanel(shown)
      asks  == shown.asks
      bids  == shown.bids
  IN  /\ \A i \in 2..Len(asks) : \A p \in (asks[i - 1].price + 1)..(asks[i].price - 1) :
           heightAt(panel.ask, p) = LiquidityAgainst("BUY", p)
      /\ \A i \in 2..Len(bids) : \A p \in (bids[i].price + 1)..(bids[i - 1].price - 1) :
           heightAt(panel.bid, p) = LiquidityAgainst("SELL", p)

=============================================================================
