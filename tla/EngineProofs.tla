---------------------------- MODULE EngineProofs ----------------------------
(***************************************************************************)
(* Proofs about one venue, for any set of orders, any requests, any number *)
(* of concurrent cancels and any channel and tape capacity.                *)
(*                                                                         *)
(* In turn: types, where orders are, the book and its priority; that the   *)
(* venue implements Settlement; cancels, stops, the tape and fill-or-kill; *)
(* and, until somebody cancels, the statuses.                              *)
(***************************************************************************)
EXTENDS Engine, Sums, TLAPS, SequenceTheorems

-----------------------------------------------------------------------------
(* The pure operators *)

LEMMA NormalizeType ==
  ASSUME NEW r \in Request
  PROVE  normalize(r) \in Request
  BY DEF normalize, Request, Types, TIFs, Sides

LEMMA ActivatedType ==
  ASSUME NEW r \in Request
  PROVE  activated(r) \in Request
  BY DEF activated, Request, Types, TIFs, Sides

LEMMA BlankType == Blank \in Request
  BY DEF Blank, Request, Types, TIFs, Sides

\* The trimmed tape is a tape.
LEMMA TapeType ==
  ASSUME EngineAssumption, trades \in Seq(Trade), NEW t \in Trade, recordTrade(t)
  PROVE  trades' \in Seq(Trade)
<1> DEFINE longer == Append(trades, t)
           excess == Len(longer) - MaxTrades
<1>1. longer \in Seq(Trade) /\ Len(longer) = Len(trades) + 1 /\ Len(trades) \in Nat
  OBVIOUS
<1>2. CASE excess > 0
  <2>1. excess + 1 \in 1..(Len(longer) + 1) /\ Len(longer) \in 0..Len(longer)
    BY <1>1, <1>2 DEF EngineAssumption
  <2>2. SubSeq(longer, excess + 1, Len(longer)) \in Seq(Trade)
    BY <1>1, <2>1, SubSeqProperties
  <2>3. QED
    BY <1>2, <2>2 DEF recordTrade
<1>3. CASE ~ (excess > 0)
  BY <1>1, <1>3 DEF recordTrade
<1>4. QED
  BY <1>2, <1>3

LEMMA AppendElements ==
  ASSUME NEW S, NEW s \in Seq(S), NEW e \in S
  PROVE  /\ Range(Append(s, e)) = Range(s) \cup {e}
         /\ (\A i, j \in DOMAIN s : s[i] = s[j] => i = j) /\ e \notin Range(s)
            => \A i, j \in DOMAIN Append(s, e) :
                 Append(s, e)[i] = Append(s, e)[j] => i = j
  BY DEF Range

LEMMA TailElements ==
  ASSUME NEW S, NEW s \in Seq(S), s # <<>>
  PROVE  /\ Range(s) = Range(Tail(s)) \cup {Head(s)}
         /\ Head(s) \in S
         /\ (\A i, j \in DOMAIN s : s[i] = s[j] => i = j)
            => /\ \A i, j \in DOMAIN Tail(s) : Tail(s)[i] = Tail(s)[j] => i = j
               /\ Head(s) \notin Range(Tail(s))
<1>1. /\ Len(s) \in Nat \ {0} /\ DOMAIN s = 1..Len(s)
      /\ Tail(s) \in Seq(S) /\ DOMAIN Tail(s) = 1..(Len(s) - 1)
      /\ Head(s) = s[1]
      /\ \A i \in DOMAIN Tail(s) : Tail(s)[i] = s[i + 1] /\ i + 1 \in DOMAIN s
  OBVIOUS
<1>2. \A i \in DOMAIN s : i = 1 \/ (i - 1 \in DOMAIN Tail(s) /\ s[i] = Tail(s)[i - 1])
  BY <1>1
<1>3. Range(s) = Range(Tail(s)) \cup {Head(s)}
  <2>1. ASSUME NEW i \in DOMAIN s
        PROVE  s[i] \in Range(Tail(s)) \cup {Head(s)}
    BY <1>1, <1>2 DEF Range
  <2>2. ASSUME NEW i \in DOMAIN Tail(s)
        PROVE  Tail(s)[i] \in Range(s)
    BY <1>1 DEF Range
  <2>3. Head(s) \in Range(s)
    <3>1. 1 \in DOMAIN s
      BY <1>1
    <3>2. QED
      BY <1>1, <3>1 DEF Range
  <2>4. QED
    BY <2>1, <2>2, <2>3 DEF Range
<1>4. ASSUME \A i, j \in DOMAIN s : s[i] = s[j] => i = j
      PROVE  /\ \A i, j \in DOMAIN Tail(s) : Tail(s)[i] = Tail(s)[j] => i = j
             /\ Head(s) \notin Range(Tail(s))
  <2>1. ASSUME NEW i \in DOMAIN Tail(s), NEW j \in DOMAIN Tail(s),
               Tail(s)[i] = Tail(s)[j]
        PROVE  i = j
    <3>1. i + 1 = j + 1
      BY <1>1, <1>4, <2>1
    <3>2. QED
      BY <3>1, <1>1
  <2>2. ASSUME NEW i \in DOMAIN Tail(s), Head(s) = Tail(s)[i]
        PROVE  FALSE
    <3>1. i + 1 = 1
      BY <1>1, <1>4, <2>2
    <3>2. QED
      BY <3>1, <1>1
  <2>3. QED
    BY <2>1, <2>2 DEF Range
<1>5. QED
  BY <1>1, <1>3, <1>4

-----------------------------------------------------------------------------
(* Type correctness *)

LEMMA InitType == ASSUME EngineAssumption PROVE Init => TypeOK
<1> SUFFICES ASSUME Init PROVE TypeOK
  OBVIOUS
<1>1. /\ order \in [Ids -> Request] /\ rem \in [Ids -> Nat]
      /\ status \in [Ids -> Statuses] /\ told \in [Ids -> Report]
  BY BlankType DEF Init, Statuses, Report
<1>2. queue \in Seq(Ids) /\ trades \in Seq(Trade) /\ counted \in [Ids -> SUBSET Ids]
  BY DEF Init
<1>3. pc \in Pcs /\ cur \in Ids \cup {None} /\ hit \in Ids \cup {None}
  BY DEF Init, Pcs
<1>4. /\ cpc \in [Cancellers -> {"ready", "stops", "mark", "tell", "acked", "missing"}]
      /\ cid \in [Cancellers -> Ids \cup {None}]
  BY DEF Init
<1>5. QED
  BY <1>1, <1>2, <1>3, <1>4 DEF Init, TypeOK

LEMMA IncomingType ==
  ASSUME TypeOK, cur \in Ids
  PROVE  Incoming \in Request
  BY NormalizeType DEF TypeOK, Incoming

LEMMA PublishType ==
  ASSUME TypeOK, NEW o \in Ids, NEW s \in Statuses, publishOrder(o, s)
  PROVE  told' \in [Ids -> Report]
  BY DEF TypeOK, publishOrder, Report

LEMMA PrintType ==
  ASSUME TypeOK, cur \in Ids, hit \in Ids
  PROVE  NewTrade \in Trade /\ FillQty \in Nat
<1>1. FillQty \in Nat
  BY DEF FillQty, TypeOK
<1>2. order[hit].price \in Nat
  BY DEF TypeOK, Request
<1>3. QED
  BY <1>1, <1>2 DEF NewTrade, Trade

LEMMA NextType ==
  ASSUME EngineAssumption, TypeOK, Control, Known, [Next]_vars
  PROVE  TypeOK'
<1> USE DEF shared, loop, past, client
<1>0. pc \notin {"idle", "drain", "stopped"} => cur \in Ids
  BY DEF TypeOK, Control
<1>1. ASSUME NEW o \in Ids, Submit(o) PROVE TypeOK'
  <2>1. PICK r \in Offers[o] : /\ order' = [order EXCEPT ![o] = r]
                               /\ rem' = [rem EXCEPT ![o] = r.qty]
    BY <1>1 DEF Submit
  <2>2. r \in Request /\ r.qty \in Nat
    <3>1. r \in Request
      BY DEF EngineAssumption
    <3>2. QED
      BY <3>1 DEF Request
  <2>3. order' \in [Ids -> Request] /\ rem' \in [Ids -> Nat]
    BY <2>1, <2>2 DEF TypeOK
  <2>4. status' \in [Ids -> Statuses] /\ queue' \in Seq(Ids)
    BY <1>1 DEF Submit, TypeOK, Statuses
  <2>5. QED
    BY <1>1, <2>3, <2>4 DEF Submit, TypeOK
<1>2. ASSUME Stop PROVE TypeOK'
  BY <1>2 DEF Stop, TypeOK
<1>3. ASSUME NEW c \in Cancellers, NEW o \in Ids, CancelInBook(c, o) PROVE TypeOK'
  BY <1>3 DEF CancelInBook, Cancelled, TypeOK, Statuses
<1>4. ASSUME NEW c \in Cancellers, NEW o \in Ids, CancelNotInBook(c, o) PROVE TypeOK'
  BY <1>4 DEF CancelNotInBook, TypeOK
<1>5. ASSUME NEW c \in Cancellers, CancelPendingStop(c) PROVE TypeOK'
  BY <1>5 DEF CancelPendingStop, TypeOK
<1>6. ASSUME NEW c \in Cancellers, CancelNotFound(c) PROVE TypeOK'
  BY <1>6 DEF CancelNotFound, TypeOK
<1>7. ASSUME NEW c \in Cancellers, CancelMark(c) PROVE TypeOK'
  BY <1>7 DEF CancelMark, Cancelled, TypeOK, Statuses
<1>8. ASSUME NEW c \in Cancellers, CancelTell(c) PROVE TypeOK'
  <2>1. cid[c] \in Ids
    BY <1>8 DEF CancelTell, Known
  <2>2. PICK s \in Statuses : publishOrder(cid[c], s)
    BY <1>0, <1>8, <2>1 DEF CancelTell, TypeOK, Statuses
  <2>3. told' \in [Ids -> Report]
    BY <1>0, <2>1, <2>2, PublishType
  <2>4. QED
    BY <1>8, <2>3 DEF CancelTell, TypeOK
<1>9. ASSUME Dequeue PROVE TypeOK'
  <2>1. cur' \in Ids /\ queue' \in Seq(Ids)
    BY <1>9 DEF Dequeue, TypeOK
  <2>2. QED
    BY <1>9, <2>1 DEF Dequeue, TypeOK, Pcs
<1>10. ASSUME Exit PROVE TypeOK'
  BY <1>10 DEF Exit, TypeOK, Pcs
<1>11. ASSUME Reject PROVE TypeOK'
  <2>1. cur \in Ids /\ Incoming \in Request
    BY <1>0, <1>11, IncomingType DEF Reject
  <2>2. told' \in [Ids -> Report]
    BY <1>11, <2>1, PublishType DEF Reject, Statuses
  <2>3. order' \in [Ids -> Request] /\ status' \in [Ids -> Statuses]
    BY <1>11, <2>1 DEF Reject, TypeOK, Statuses
  <2>4. QED
    BY <1>11, <2>2, <2>3 DEF Reject, TypeOK, Pcs
<1>12. ASSUME Park PROVE TypeOK'
  <2>1. cur \in Ids /\ Incoming \in Request
    BY <1>0, <1>12, IncomingType DEF Park
  <2>2. QED
    BY <1>12, <2>1 DEF Park, TypeOK, Pcs
<1>13. ASSUME MarkParked PROVE TypeOK'
  BY <1>13 DEF MarkParked, TypeOK, Pcs, Statuses
<1>14. ASSUME TellParked PROVE TypeOK'
  <2>1. cur \in Ids
    BY <1>0, <1>14 DEF TellParked
  <2>2. PICK s \in Statuses : publishOrder(cur, s)
    BY <1>0, <1>14, <2>1 DEF TellParked, TypeOK, Statuses
  <2>3. told' \in [Ids -> Report]
    BY <1>0, <2>1, <2>2, PublishType
  <2>4. QED
    BY <1>14, <2>3 DEF TellParked, TypeOK, Pcs
<1>15. ASSUME Kill PROVE TypeOK'
  <2>1. cur \in Ids /\ Incoming \in Request
    BY <1>0, <1>15, IncomingType DEF Kill
  <2>2. told' \in [Ids -> Report]
    BY <1>15, <2>1, PublishType DEF Kill, Statuses
  <2>3. order' \in [Ids -> Request] /\ status' \in [Ids -> Statuses]
    BY <1>15, <2>1 DEF Kill, TypeOK, Statuses
  <2>4. QED
    BY <1>15, <2>2, <2>3 DEF Kill, TypeOK, Pcs
<1>16. ASSUME Enter PROVE TypeOK'
  <2>1. cur \in Ids /\ Incoming \in Request
    BY <1>0, <1>16, IncomingType DEF Enter
  <2>2. Facers(Incoming) \subseteq Ids
    BY DEF Facers, Resting, TypeOK
  <2>3. counted' \in [Ids -> SUBSET Ids]
    BY <1>16, <2>2 DEF Enter, TypeOK
  <2>4. QED
    BY <1>16, <2>1, <2>3 DEF Enter, TypeOK, Pcs
<1>17. ASSUME Sweep PROVE TypeOK'
  BY <1>17 DEF Sweep, TypeOK
<1>18. ASSUME Hit PROVE TypeOK'
  BY <1>18 DEF Hit, Facing, Tops, Resting, TypeOK, Pcs
<1>19. ASSUME Fill PROVE TypeOK'
  <2>1. cur \in Ids /\ hit \in Ids
    BY <1>0, <1>19 DEF Fill, Control, Resting, TypeOK
  <2>2. FillQty \in Nat /\ rem[hit] - FillQty \in Nat /\ rem[cur] - FillQty \in Nat
    BY <2>1 DEF FillQty, TypeOK
  <2>3. rem' \in [Ids -> Nat] /\ status' \in [Ids -> Statuses]
    BY <1>19, <2>1, <2>2 DEF Fill, TypeOK, Statuses
  <2>4. trades' \in Seq(Trade)
    BY <1>19, <2>1, PrintType, TapeType DEF Fill, TypeOK
  <2>5. lastPrice' \in Nat
    BY <1>19, <2>1 DEF Fill, TypeOK, Request
  <2>6. QED
    BY <1>19, <2>3, <2>4, <2>5 DEF Fill, TypeOK, Pcs
<1>20. ASSUME TellFill PROVE TypeOK'
  <2>1. told' \in [Ids -> Report]
    BY <1>20 DEF TellFill, TypeOK, Report
  <2>2. QED
    BY <1>20, <2>1 DEF TellFill, TypeOK, Pcs
<1>21. ASSUME Pop PROVE TypeOK'
  BY <1>21 DEF Pop, TypeOK, Pcs
<1>22. ASSUME Finished PROVE TypeOK'
  BY <1>22 DEF Finished, TypeOK, Pcs
<1>23. ASSUME CancelRemainder PROVE TypeOK'
  <2>1. told' \in [Ids -> Report]
    BY <1>0, <1>23, PublishType DEF CancelRemainder, Statuses
  <2>2. QED
    BY <1>23, <2>1 DEF CancelRemainder, TypeOK, Pcs, Statuses
<1>24. ASSUME Rest PROVE TypeOK'
  BY <1>0, <1>24 DEF Rest, TypeOK, Pcs
<1>25. ASSUME TellRest PROVE TypeOK'
  <2>1. cur \in Ids /\ status[cur] \in Statuses
    BY <1>0, <1>25 DEF TellRest, TypeOK
  <2>2. told' \in [Ids -> Report]
    BY <1>25, <2>1, PublishType DEF TellRest
  <2>3. QED
    BY <1>25, <2>2 DEF TellRest, TypeOK, Pcs
<1>26. ASSUME TakeTriggered PROVE TypeOK'
  <2>1. order' \in [Ids -> Request] /\ status' \in [Ids -> Statuses]
    BY <1>26, ActivatedType DEF TakeTriggered, TypeOK, Statuses
  <2>2. Ready \subseteq Ids
    BY DEF Ready, TypeOK
  <2>3. QED
    BY <1>26, <2>1, <2>2 DEF TakeTriggered, Waiting, TypeOK
<1>27. ASSUME HandleTriggered PROVE TypeOK'
  BY <1>27 DEF HandleTriggered, TypeOK, Pcs
<1>28. ASSUME Drained PROVE TypeOK'
  BY <1>28 DEF Drained, TypeOK, Pcs
<1>29. ASSUME UNCHANGED vars PROVE TypeOK'
  BY <1>29 DEF vars, TypeOK
<1>30. QED
  BY <1>1, <1>2, <1>3, <1>4, <1>5, <1>6, <1>7, <1>8, <1>9, <1>10, <1>11, <1>12,
     <1>13, <1>14, <1>15, <1>16, <1>17, <1>18, <1>19, <1>20, <1>21, <1>22,
     <1>23, <1>24, <1>25, <1>26, <1>27, <1>28, <1>29
     DEF Next, Match, CancelStep

-----------------------------------------------------------------------------
(* The program counter, the order being handled and the order being filled *)

LEMMA NextControl ==
  ASSUME EngineAssumption, Inv, [Next]_vars
  PROVE  Control'
<1> USE DEF shared, loop, past, client
<1>0. TypeOK /\ Control /\ OnePlace /\ BookHoldsRestable /\ None \notin Ids
  BY DEF Inv, EngineAssumption
<1>1. ASSUME NEW o \in Ids, Submit(o) PROVE Control'
  <2>1. o \notin book /\ o # cur
    BY <1>1 DEF Submit, Inv, Known
  <2>2. PICK r \in Offers[o] : /\ order' = [order EXCEPT ![o] = r]
                               /\ rem' = [rem EXCEPT ![o] = r.qty]
    BY <1>1 DEF Submit
  <2>3. hit # None => hit \in book
    BY <1>0 DEF Control, Resting
  <2>4. \A p \in Ids \ {o} : order'[p] = order[p] /\ rem'[p] = rem[p]
    BY <2>2, <1>0 DEF TypeOK
  <2>5. UNCHANGED <<pc, cur, hit, book>>
    BY <1>1 DEF Submit
  <2>6. \A side : Resting(side)' = Resting(side)
    <3>1. \A p \in book : p \in Ids \ {o}
      BY <1>0, <2>1 DEF TypeOK
    <3>2. QED
      BY <2>4, <2>5, <3>1 DEF Resting
  <2>7. cur \in Ids \cup {None} /\ hit \in Ids \cup {None} /\ book \subseteq Ids
    BY <1>0 DEF TypeOK
  <2>8. cur \in Ids => order'[cur] = order[cur] /\ rem'[cur] = rem[cur]
    BY <2>1, <2>4
  <2>9. \A p \in book : order'[p] = order[p] /\ rem'[p] = rem[p]
    BY <2>1, <2>4, <2>7
  <2>10. pc \notin {"idle", "drain", "stopped"} => cur \in Ids
    BY <2>7, <1>0 DEF Control
  <2>11. hit # None => pc \in {"fill", "tellFill", "pop"}
    BY <1>0 DEF Control
  <2>12. hit # None =>
           /\ hit \in Resting(Opposite(order'[cur].side))
           /\ \A p \in Resting(order'[hit].side) : ~ Better(order'[p], order'[hit])
           /\ crosses(order'[cur], order'[hit].price)
    BY <2>3, <2>8, <2>9, <2>10, <2>11, <1>0 DEF Control, Resting
  <2>13. QED
    BY <2>3, <2>5, <2>6, <2>8, <2>9, <2>10, <2>12, <1>0 DEF Control
<1>2. ASSUME Stop PROVE Control'
  BY <1>0, <1>2 DEF Stop, Control, Resting
<1>3. ASSUME NEW c \in Cancellers, NEW o \in Ids,
             CancelInBook(c, o) \/ CancelNotInBook(c, o) PROVE Control'
  BY <1>0, <1>3 DEF CancelInBook, CancelNotInBook, Control, Resting
<1>4. ASSUME NEW c \in Cancellers, CancelStep(c) PROVE Control'
  BY <1>0, <1>4 DEF CancelStep, CancelPendingStop, CancelNotFound, CancelMark,
     CancelTell, Control, Resting
<1>5. ASSUME Dequeue PROVE Control'
  <2>1. cur' \in Ids
    BY <1>5, <1>0, TailElements DEF Dequeue, TypeOK
  <2>2. QED
    BY <1>0, <1>5, <2>1 DEF Dequeue, Control, Resting
<1>6. ASSUME Exit \/ Drained PROVE Control'
  BY <1>0, <1>6 DEF Exit, Drained, Control, Resting
<1>7. ASSUME Reject \/ Kill \/ Park PROVE Control'
  BY <1>0, <1>7 DEF Reject, Kill, Park, Control
<1>8. ASSUME MarkParked \/ TellParked \/ CancelRemainder \/ TellRest \/ Finished
      PROVE Control'
  BY <1>0, <1>8 DEF MarkParked, TellParked, CancelRemainder, TellRest, Finished, Control
<1>9. ASSUME Enter PROVE Control'
  <2>1. cur \in Ids /\ order'[cur] = Incoming
    BY <1>0, <1>9 DEF Enter, Control, TypeOK
  <2>2. QED
    BY <1>0, <1>9, <2>1 DEF Enter, Tradable, Control
<1>10. ASSUME Sweep PROVE Control'
  BY <1>0, <1>10 DEF Sweep, Control
<1>11. ASSUME Hit PROVE Control'
  <2>1. PICK best \in Facing :
          Live(best) /\ crosses(order[cur], order[best].price) /\ hit' = best
    BY <1>11 DEF Hit
  <2>2. /\ best \in Resting(Opposite(order[cur].side)) /\ best \in Ids
        /\ \A p \in Resting(Opposite(order[cur].side)) : ~ Better(order[p], order[best])
        /\ order[best].side = Opposite(order[cur].side)
        /\ rem[best] > 0
    BY <2>1, <1>0 DEF Facing, Tops, Resting, Live, TypeOK
  <2>3. \A side : Resting(side)' = Resting(side)
    BY <1>11 DEF Hit, Resting
  <2>4. QED
    BY <1>0, <1>11, <2>1, <2>2, <2>3 DEF Hit, Control
<1>12. ASSUME Fill PROVE Control'
  <2>1. \A side : Resting(side)' = Resting(side)
    BY <1>12 DEF Fill, Resting
  <2>2. QED
    BY <1>0, <1>12, <2>1 DEF Fill, Control
<1>13. ASSUME TellFill PROVE Control'
  <2>1. \A side : Resting(side)' = Resting(side)
    BY <1>13 DEF TellFill, Resting
  <2>2. QED
    BY <1>0, <1>13, <2>1 DEF TellFill, Control
<1>14. ASSUME Pop PROVE Control'
  BY <1>0, <1>14 DEF Pop, Control
<1>15. ASSUME Rest PROVE Control'
  BY <1>0, <1>15 DEF Rest, Control
<1>16. ASSUME TakeTriggered \/ HandleTriggered PROVE Control'
  BY <1>0, <1>16 DEF TakeTriggered, HandleTriggered, Control, TypeOK
<1>17. ASSUME UNCHANGED vars PROVE Control'
  BY <1>0, <1>17 DEF vars, Control, Resting
<1>18. QED
  BY <1>1, <1>2, <1>3, <1>4, <1>5, <1>6, <1>7, <1>8, <1>9, <1>10, <1>11, <1>12,
     <1>13, <1>14, <1>15, <1>16, <1>17 DEF Next, Match

-----------------------------------------------------------------------------
(* Where orders are *)

LEMMA RangeType ==
  ASSUME NEW S, NEW s \in Seq(S)
  PROVE  Range(s) \subseteq S
  BY DEF Range

\* Every order kept anywhere, the one being handled included.
Kept == Queued \cup batch \cup stops \cup book \cup ({cur} \ {None})

\* A step that sends no order keeps Known when it forgets no status and
\* keeps no order that was not kept before.
LEMMA KnownKept ==
  ASSUME TypeOK, Known, Kept' \subseteq Kept,
         \A o \in Ids : status[o] # "UNSENT" => status'[o] # "UNSENT",
         \A c \in Cancellers :
           cpc'[c] # "ready" => cid'[c] \in Ids /\ status[cid'[c]] # "UNSENT"
  PROVE  Known'
<1>1. Kept \subseteq Ids
  BY RangeType DEF Kept, Queued, TypeOK
<1>2. \A o \in Kept' : status'[o] # "UNSENT"
  BY <1>1 DEF Kept, Known
<1>3. QED
  BY <1>2 DEF Kept, Known

LEMMA NextKnown ==
  ASSUME EngineAssumption, Inv, [Next]_vars
  PROVE  Known'
<1> USE DEF shared, loop, past, client
<1>0. TypeOK /\ Known /\ Control /\ None \notin Ids
  BY DEF Inv, EngineAssumption
<1>00. cur \in Ids => cur \in Kept
  BY <1>0 DEF Kept
<1>1. ASSUME NEW o \in Ids, Submit(o) PROVE Known'
  <2>1. Queued' = Queued \cup {o}
    BY <1>0, <1>1, AppendElements DEF Submit, Queued, TypeOK
  <2>2. \A p \in Ids : status[p] # "UNSENT" => status'[p] # "UNSENT"
    BY <1>0, <1>1 DEF Submit, TypeOK
  <2>3. status'[o] # "UNSENT"
    BY <1>0, <1>1 DEF Submit, TypeOK
  <2>4. UNCHANGED <<batch, stops, book, cur, cpc, cid>>
    BY <1>1 DEF Submit
  <2>5. Queued \cup batch \cup stops \cup book \subseteq Ids /\ cur \in Ids \cup {None}
    BY <1>0, RangeType DEF Queued, TypeOK
  <2>6. QED
    BY <1>0, <2>1, <2>2, <2>3, <2>4, <2>5 DEF Known
<1>2. ASSUME NEW c \in Cancellers, NEW o \in Ids,
             CancelInBook(c, o) \/ CancelNotInBook(c, o) PROVE Known'
  <2>1. UNCHANGED Kept
    BY <1>2 DEF CancelInBook, CancelNotInBook, Kept, Queued
  <2>2. \A p \in Ids : status[p] # "UNSENT" => status'[p] # "UNSENT"
    BY <1>0, <1>2 DEF CancelInBook, Cancelled, CancelNotInBook, TypeOK
  <2>3. \A d \in Cancellers :
          cpc'[d] # "ready" => cid'[d] \in Ids /\ status[cid'[d]] # "UNSENT"
    <3>1. status[o] # "UNSENT"
      BY <1>0, <1>2 DEF CancelInBook, CancelNotInBook, Known
    <3>2. cpc'[c] # "ready" => cid'[c] = o
      BY <1>0, <1>2 DEF CancelInBook, CancelNotInBook, TypeOK
    <3>3. \A d \in Cancellers \ {c} : cpc'[d] = cpc[d] /\ cid'[d] = cid[d]
      BY <1>0, <1>2 DEF CancelInBook, CancelNotInBook, TypeOK
    <3>4. cpc'[c] # "ready"
      BY <1>0, <1>2 DEF CancelInBook, CancelNotInBook, TypeOK
    <3>5. QED
      BY <1>0, <3>1, <3>2, <3>3, <3>4 DEF Known
  <2>4. QED
    BY <1>0, <2>1, <2>2, <2>3, KnownKept
<1>3. ASSUME NEW c \in Cancellers, CancelStep(c) PROVE Known'
  <2>1. Kept' \subseteq Kept
    BY <1>3 DEF CancelStep, CancelPendingStop, CancelNotFound, CancelMark,
       CancelTell, Kept, Queued
  <2>2. \A p \in Ids : status[p] # "UNSENT" => status'[p] # "UNSENT"
    BY <1>0, <1>3 DEF CancelStep, CancelPendingStop, CancelNotFound, CancelMark,
       Cancelled, CancelTell, TypeOK
  <2>3. \A d \in Cancellers :
          cpc'[d] # "ready" => cid'[d] \in Ids /\ status[cid'[d]] # "UNSENT"
    BY <1>0, <1>3 DEF CancelStep, CancelPendingStop, CancelNotFound, CancelMark,
       CancelTell, TypeOK, Known
  <2>4. QED
    BY <1>0, <2>1, <2>2, <2>3, KnownKept
<1>4. ASSUME Dequeue PROVE Known'
  <2>1. Queued = Queued' \cup {cur'}
    BY <1>0, <1>4, TailElements DEF Dequeue, Queued, TypeOK
  <2>2. QED
    BY <1>0, <1>4, <2>1, KnownKept DEF Dequeue, Known, Kept
<1>5. ASSUME Stop \/ Exit \/ Park \/ Enter \/ TellParked \/ Sweep \/ Hit \/ TellFill
             \/ Pop \/ Finished \/ Rest \/ TellRest \/ Drained \/ HandleTriggered
      PROVE Known'
  <2>1. UNCHANGED <<status, cpc, cid>> /\ Queued' = Queued
    BY <1>5 DEF Stop, Exit, Park, Enter, TellParked, Sweep, Hit, TellFill, Pop,
       Finished, Rest, TellRest, Drained, HandleTriggered, Queued
  <2>2. Kept' \subseteq Kept
    BY <1>0, <1>5, <2>1 DEF Stop, Exit, Park, Enter, TellParked, Sweep, Hit, TellFill,
       Pop, Finished, Rest, TellRest, Drained, HandleTriggered, Kept, Control
  <2>3. QED
    BY <1>0, <2>1, <2>2, KnownKept DEF Known
<1>6. ASSUME Reject \/ MarkParked \/ Kill \/ CancelRemainder PROVE Known'
  <2>1. Kept' \subseteq Kept /\ UNCHANGED <<cpc, cid>>
    BY <1>6 DEF Reject, MarkParked, Kill, CancelRemainder, Kept, Queued
  <2>2. \A p \in Ids : status[p] # "UNSENT" => status'[p] # "UNSENT"
    BY <1>0, <1>6 DEF Reject, MarkParked, Kill, CancelRemainder, TypeOK
  <2>3. QED
    BY <1>0, <2>1, <2>2, KnownKept DEF Known
<1>7. ASSUME Fill PROVE Known'
  <2>1. \A o \in Ids : status[o] # "UNSENT" => status'[o] # "UNSENT"
    BY <1>0, <1>7 DEF Fill, TypeOK
  <2>2. UNCHANGED <<Kept, cpc, cid>>
    BY <1>7 DEF Fill, Kept, Queued
  <2>3. QED
    BY <1>0, <2>1, <2>2, KnownKept DEF Known
<1>8. ASSUME TakeTriggered PROVE Known'
  <2>1. \A o \in Ids : status[o] # "UNSENT" => status'[o] # "UNSENT"
    BY <1>0, <1>8 DEF TakeTriggered, TypeOK
  <2>2. Kept' \subseteq Kept /\ UNCHANGED <<cpc, cid>>
    BY <1>8 DEF TakeTriggered, Waiting, Kept, Queued, Ready
  <2>3. QED
    BY <1>0, <2>1, <2>2, KnownKept DEF Known
<1>9. ASSUME UNCHANGED vars PROVE Known'
  BY <1>0, <1>9 DEF vars, Known, Queued
<1>10. QED
  BY <1>1, <1>2, <1>3, <1>4, <1>5, <1>6, <1>7, <1>8, <1>9 DEF Next, Match

LEMMA NextOnePlace ==
  ASSUME EngineAssumption, Inv, [Next]_vars
  PROVE  OnePlace'
<1> USE DEF shared, loop, past, client
<1>0. TypeOK /\ Known /\ Control /\ OnePlace /\ None \notin Ids
  BY DEF Inv, EngineAssumption
<1>00. None \notin (Queued \cup batch \cup stops \cup book)'
  <2>1. TypeOK'
    BY NextType DEF Inv
  <2>2. Queued' \subseteq Ids
    BY <2>1, RangeType DEF Queued, TypeOK
  <2>3. QED
    BY <1>0, <2>1, <2>2 DEF TypeOK
<1>1. ASSUME NEW o \in Ids, Submit(o) PROVE OnePlace'
  <2>1. Queued' = Queued \cup {o}
    BY <1>0, <1>1, AppendElements DEF Submit, Queued, TypeOK
  <2>2. o \notin Queued \cup batch \cup stops \cup book \cup {cur}
    BY <1>0, <1>1 DEF Submit, Known
  <2>3. \A i, j \in DOMAIN queue' : queue'[i] = queue'[j] => i = j
    <3>1. queue \in Seq(Ids) /\ o \notin Range(queue) /\ queue' = Append(queue, o)
      BY <1>0, <1>1, <2>2 DEF Submit, Queued, TypeOK
    <3>2. \A i, j \in DOMAIN queue : queue[i] = queue[j] => i = j
      BY <1>0 DEF OnePlace
    <3>3. QED
      BY <3>1, <3>2, AppendElements
  <2>4. UNCHANGED <<cur, pc, batch, stops, book>>
    BY <1>1 DEF Submit
  <2>5. QED
    BY <1>0, <2>1, <2>2, <2>3, <2>4 DEF OnePlace
<1>2. ASSUME NEW c \in Cancellers, NEW o \in Ids,
             CancelInBook(c, o) \/ CancelNotInBook(c, o) PROVE OnePlace'
  BY <1>0, <1>2 DEF CancelInBook, CancelNotInBook, OnePlace, Queued
<1>3. ASSUME NEW c \in Cancellers, CancelStep(c) PROVE OnePlace'
  BY <1>0, <1>3 DEF CancelStep, CancelPendingStop, CancelNotFound, CancelMark,
     CancelTell, OnePlace, Queued
<1>4. ASSUME Dequeue PROVE OnePlace'
  <2>1. Queued = Queued' \cup {cur'}
    BY <1>0, <1>4, TailElements DEF Dequeue, Queued, TypeOK
  <2>2. /\ \A i, j \in DOMAIN queue' : queue'[i] = queue'[j] => i = j
        /\ cur' \notin Queued'
    BY <1>0, <1>4, TailElements DEF Dequeue, Queued, TypeOK, OnePlace
  <2>3. UNCHANGED <<batch, stops, book>>
    BY <1>4 DEF Dequeue
  <2>4. QED
    BY <1>0, <2>1, <2>2, <2>3 DEF OnePlace
<1>5. ASSUME Stop \/ Exit \/ Enter \/ MarkParked \/ Hit \/ Fill \/ TellFill
             \/ Park \/ Rest
      PROVE OnePlace'
  BY <1>0, <1>5 DEF Stop, Exit, Enter, MarkParked, Hit, Fill, TellFill, Park, Rest,
     OnePlace, Queued, Control
<1>6. ASSUME Reject \/ Kill \/ TellParked \/ Finished \/ CancelRemainder \/ TellRest
             \/ Drained PROVE OnePlace'
  BY <1>0, <1>00, <1>6 DEF Reject, Kill, TellParked, Finished, CancelRemainder,
     TellRest, Drained, OnePlace, Queued, Control
<1>7. ASSUME Sweep \/ Pop PROVE OnePlace'
  BY <1>0, <1>7 DEF Sweep, Pop, OnePlace, Queued
<1>8. ASSUME TakeTriggered PROVE OnePlace'
  BY <1>0, <1>00, <1>8 DEF TakeTriggered, Waiting, OnePlace, Queued, Ready, Control
<1>9. ASSUME HandleTriggered PROVE OnePlace'
  <2>1. cur' \in batch /\ batch' = batch \ {cur'}
    BY <1>9 DEF HandleTriggered
  <2>2. UNCHANGED <<queue, Queued, stops, book>>
    BY <1>9 DEF HandleTriggered, Queued
  <2>3. QED
    BY <1>0, <2>1, <2>2 DEF OnePlace
<1>10. ASSUME UNCHANGED vars PROVE OnePlace'
  BY <1>0, <1>10 DEF vars, OnePlace, Queued
<1>11. QED
  BY <1>1, <1>2, <1>3, <1>4, <1>5, <1>6, <1>7, <1>8, <1>9, <1>10 DEF Next, Match

-----------------------------------------------------------------------------
(* The stops map *)

\* Attributes change only when the order is sent, when it is being handled
\* and when its stop is triggered.
LEMMA OrderFrame ==
  ASSUME EngineAssumption, Inv, [Next]_vars, NEW o \in Ids, ~ Submit(o)
  PROVE  \/ order'[o] = order[o]
         \/ o = cur /\ pc = "handle" /\ order'[o] = normalize(order[o])
         \/ TakeTriggered /\ o \in Ready /\ order'[o] = activated(order[o])
<1> USE DEF shared, loop, past, client
<1>0. TypeOK /\ Control
  BY DEF Inv
<1>1. ASSUME NEW p \in Ids, Submit(p) PROVE order'[o] = order[o]
  <2>1. p # o
    BY <1>1
  <2>2. QED
    BY <1>0, <1>1, <2>1 DEF Submit, TypeOK
<1>2. ASSUME Reject \/ Park \/ Kill \/ Enter
      PROVE  order'[o] = order[o]
             \/ (o = cur /\ pc = "handle" /\ order'[o] = normalize(order[o]))
  <2>1. order' = [order EXCEPT ![cur] = Incoming] /\ pc = "handle"
    BY <1>2 DEF Reject, Park, Kill, Enter
  <2>2. order'[o] = IF o = cur THEN Incoming ELSE order[o]
    BY <1>0, <2>1 DEF TypeOK
  <2>3. QED
    BY <2>1, <2>2 DEF Incoming
<1>3. ASSUME TakeTriggered
      PROVE  order'[o] = order[o] \/ (o \in Ready /\ order'[o] = activated(order[o]))
  BY <1>0, <1>3 DEF TakeTriggered, TypeOK
<1>4. ASSUME \/ Stop \/ \E c \in Cancellers, p \in Ids :
                          CancelInBook(c, p) \/ CancelNotInBook(c, p)
             \/ \E c \in Cancellers : CancelStep(c)
      PROVE  UNCHANGED order
  BY <1>4 DEF Stop, CancelInBook, CancelNotInBook, CancelStep, CancelPendingStop,
     CancelNotFound, CancelMark, CancelTell
<1>5. ASSUME \/ Dequeue \/ Exit \/ MarkParked \/ TellParked \/ Sweep \/ Hit \/ Fill
             \/ TellFill \/ Pop \/ Finished \/ CancelRemainder \/ Rest \/ TellRest
             \/ HandleTriggered \/ Drained
      PROVE  UNCHANGED order
  BY <1>5 DEF Dequeue, Exit, MarkParked, TellParked, Sweep, Hit, Fill, TellFill, Pop,
     Finished, CancelRemainder, Rest, TellRest, HandleTriggered, Drained
<1>6. CASE UNCHANGED vars
  BY <1>6 DEF vars
<1>7. QED
  BY <1>1, <1>2, <1>3, <1>4, <1>5, <1>6 DEF Next, Match

LEMMA NextStopsAreStops ==
  ASSUME EngineAssumption, Inv, [Next]_vars
  PROVE  StopsAreStops'
<1> USE DEF shared, loop, past, client
<1>0. TypeOK /\ Known /\ Control /\ OnePlace /\ StopsAreStops
  BY DEF Inv
<1>1. CASE Park
  <2>1. cur \in Ids /\ order'[cur].type = "STOP" /\ stops' = stops \cup {cur}
    BY <1>0, <1>1 DEF Park, TypeOK, Control
  <2>2. \A o \in Ids \ {cur} : order'[o] = order[o]
    BY <1>0, <1>1 DEF Park, TypeOK
  <2>3. QED
    BY <1>0, <2>1, <2>2 DEF StopsAreStops, TypeOK
<1>2. CASE ~ Park
  <2>1. stops' \subseteq stops
    BY <1>2 DEF Next, vars, Match, Submit, Stop, CancelInBook, CancelNotInBook,
       CancelStep, CancelPendingStop, CancelNotFound, CancelMark, CancelTell, Dequeue,
       Exit, Reject, MarkParked, TellParked, Kill, Enter, Sweep, Hit, Fill, TellFill,
       Pop, Finished, CancelRemainder, Rest, TellRest, TakeTriggered, Waiting,
       HandleTriggered, Drained
  <2>2. ASSUME NEW o \in stops' PROVE order'[o] = order[o]
    <3>1. o \in Ids /\ o \in stops /\ status[o] # "UNSENT" /\ ~ (o = cur /\ pc = "handle")
      BY <1>0, <2>1 DEF TypeOK, Known, OnePlace
    <3>2. ~ (TakeTriggered /\ o \in Ready)
      BY DEF TakeTriggered, Waiting
    <3>3. ~ Submit(o)
      BY <3>1 DEF Submit
    <3>4. QED
      BY <3>1, <3>2, <3>3, OrderFrame
  <2>3. QED
    BY <1>0, <2>1, <2>2 DEF StopsAreStops
<1>3. QED
  BY <1>1, <1>2

-----------------------------------------------------------------------------
(* The book *)

\* What a resting order is made of changes only when it is filled: its
\* attributes never do, and no other order's quantity does.
LEMMA BookFrame ==
  ASSUME EngineAssumption, Inv, [Next]_vars
  PROVE  /\ \A o \in book : order'[o] = order[o]
         /\ ~ Fill => \A o \in book : rem'[o] = rem[o]
<1> USE DEF shared, loop, past, client
<1>0. TypeOK /\ Known /\ Control /\ OnePlace
  BY DEF Inv
<1>1. ASSUME NEW p \in Ids, Submit(p)
      PROVE  \A o \in book : order'[o] = order[o] /\ rem'[o] = rem[o]
  <2>1. p \notin book
    BY <1>0, <1>1 DEF Submit, Known
  <2>2. PICK r \in Offers[p] : /\ order' = [order EXCEPT ![p] = r]
                               /\ rem' = [rem EXCEPT ![p] = r.qty]
    BY <1>1 DEF Submit
  <2>3. QED
    BY <1>0, <2>1, <2>2 DEF TypeOK
<1>2. ASSUME Reject \/ Park \/ Kill \/ Enter
      PROVE  \A o \in book : order'[o] = order[o] /\ rem'[o] = rem[o]
  <2>1. cur \notin book
    BY <1>0, <1>2 DEF Reject, Park, Kill, Enter, OnePlace, Control
  <2>2. QED
    BY <1>0, <1>2, <2>1 DEF Reject, Park, Kill, Enter, TypeOK
<1>3. ASSUME TakeTriggered
      PROVE  \A o \in book : order'[o] = order[o] /\ rem'[o] = rem[o]
  <2>1. Ready \cap book = {}
    BY <1>0 DEF Ready, OnePlace
  <2>2. QED
    BY <1>0, <1>3, <2>1 DEF TakeTriggered, TypeOK
<1>4. ASSUME Fill PROVE order' = order
  BY <1>4 DEF Fill
<1>5. ASSUME \/ Stop \/ \E c \in Cancellers, o \in Ids :
                          CancelInBook(c, o) \/ CancelNotInBook(c, o)
             \/ \E c \in Cancellers : CancelStep(c)
      PROVE  UNCHANGED <<order, rem>>
  BY <1>5 DEF Stop, CancelInBook, CancelNotInBook, CancelStep, CancelPendingStop,
     CancelNotFound, CancelMark, CancelTell
<1>6. ASSUME \/ Dequeue \/ Exit \/ MarkParked \/ TellParked \/ Sweep \/ Hit \/ TellFill
             \/ Pop \/ Finished \/ CancelRemainder \/ Rest \/ TellRest
             \/ HandleTriggered \/ Drained
      PROVE  UNCHANGED <<order, rem>>
  BY <1>6 DEF Dequeue, Exit, MarkParked, TellParked, Sweep, Hit, TellFill, Pop,
     Finished, CancelRemainder, Rest, TellRest, HandleTriggered, Drained
<1>7. CASE UNCHANGED vars
  BY <1>7 DEF vars
<1>8. QED
  BY <1>1, <1>2, <1>3, <1>4, <1>5, <1>6, <1>7 DEF Next, Match

\* The book grows in Rest only.
LEMMA BookGrowth ==
  ASSUME Inv, [Next]_vars, ~ Rest
  PROVE  book' \subseteq book
<1> USE DEF shared, loop, past, client
<1>1. CASE \/ \E o \in Ids : Submit(o)
           \/ Stop \/ \E c \in Cancellers, o \in Ids :
                          CancelInBook(c, o) \/ CancelNotInBook(c, o)
           \/ \E c \in Cancellers : CancelStep(c)
  BY <1>1 DEF Submit, Stop, CancelInBook, CancelNotInBook, CancelStep,
     CancelPendingStop, CancelNotFound, CancelMark, CancelTell
<1>2. CASE Match
  BY <1>2 DEF Match, Dequeue, Exit, Reject, Park, MarkParked, TellParked, Kill, Enter,
     Sweep, Hit, Fill, TellFill, Pop, Finished, CancelRemainder, TellRest,
     TakeTriggered, HandleTriggered, Drained
<1>3. CASE UNCHANGED vars
  BY <1>3 DEF vars
<1>4. QED
  BY <1>1, <1>2, <1>3 DEF Next

LEMMA NextBookHoldsRestable ==
  ASSUME EngineAssumption, Inv, [Next]_vars
  PROVE  BookHoldsRestable'
<1> USE DEF shared, loop, past, client
<1>0. TypeOK /\ Control /\ BookHoldsRestable
  BY DEF Inv
<1>1. CASE Rest
  BY <1>0, <1>1 DEF Rest, BookHoldsRestable, Control, canRest, isValid
<1>2. CASE Fill
  <2>1. hit \in Ids /\ cur \in Ids
    BY <1>0, <1>2 DEF Fill, Control, TypeOK, Resting
  <2>2. \A o \in Ids \ {hit, cur} : rem'[o] = rem[o]
    BY <1>0, <1>2 DEF Fill, TypeOK
  <2>3. cur \notin book
    BY <1>0, <1>2 DEF Inv, OnePlace, Fill, Control
  <2>4. UNCHANGED <<book, order, hit>> /\ pc' = "tellFill"
    BY <1>2 DEF Fill
  <2>5. rem'[hit] \in Nat
    BY <2>1, NextType DEF Inv, TypeOK
  <2>6. QED
    BY <1>0, <1>2, <2>2, <2>3, <2>4 DEF BookHoldsRestable, TypeOK, Fill
<1>3. CASE Pop
  BY <1>0, <1>3 DEF Pop, BookHoldsRestable, TypeOK
<1>4. CASE ~ Rest /\ ~ Fill /\ ~ Pop
  <2>1. \A o \in book' : o \in book /\ order'[o] = order[o] /\ rem'[o] = rem[o]
    BY <1>4, BookFrame, BookGrowth
  <2>2. pc \in {"tellFill", "pop"} => hit' = hit /\ pc' \in {"tellFill", "pop"}
    BY <1>0, <1>4 DEF Next, vars, Match, Submit, Stop, CancelInBook, CancelNotInBook,
       CancelStep, CancelPendingStop, CancelNotFound, CancelMark, CancelTell, Dequeue,
       Exit, Reject, Park, MarkParked, TellParked, Kill, Enter, Sweep, Hit, TellFill,
       Finished, CancelRemainder, TellRest, TakeTriggered, HandleTriggered, Drained,
       Control
  <2>3. QED
    BY <1>0, <2>1, <2>2 DEF BookHoldsRestable, Control
<1>5. QED
  BY <1>1, <1>2, <1>3, <1>4

\* An incoming order that stops matching with something left does not cross
\* any live order of the other side: the heap's top is the best of them, and
\* it does not cross.
LEMMA NothingLeftToCross ==
  ASSUME Inv, pc = "match", rem[cur] > 0, Exhausted, canRest(order[cur]),
         NEW p \in Resting(Opposite(order[cur].side)), Live(p)
  PROVE  IF order[cur].side = "BUY" THEN order[cur].price < order[p].price
                                    ELSE order[p].price < order[cur].price
<1>0. TypeOK /\ Control /\ OnePlace
  BY DEF Inv
<1>1. PICK best \in Facing :
        Live(best) /\ ~ crosses(order[cur], order[best].price)
  BY DEF Exhausted
<1>2. /\ best \in Ids /\ p \in Ids /\ cur \in Ids
      /\ order[best].side = Opposite(order[cur].side)
      /\ order[p].side = Opposite(order[cur].side)
      /\ ~ Better(order[p], order[best])
  BY <1>0, <1>1 DEF Facing, Tops, Resting, TypeOK, Control
<1>3. /\ order[best].price \in Nat /\ order[p].price \in Nat /\ order[cur].price \in Nat
      /\ order[cur].side \in Sides
  BY <1>0, <1>2 DEF TypeOK, Request, Control, isValid
<1>4. CASE order[cur].side = "BUY"
  BY <1>1, <1>2, <1>3, <1>4 DEF crosses, Better, Opposite
<1>5. CASE order[cur].side = "SELL"
  BY <1>1, <1>2, <1>3, <1>5 DEF crosses, Better, Opposite
<1>6. QED
  BY <1>3, <1>4, <1>5 DEF Sides

\* A step that is not Rest revives no order of the book: only the order
\* being filled may come back from CANCELLED, and Alive counts it already.
LEMMA NoneRevived ==
  ASSUME EngineAssumption, Inv, [Next]_vars, ~ Rest,
         NEW o \in book', Alive(o)'
  PROVE  o \in book /\ Alive(o)
<1> USE DEF shared, loop, past, client
<1>0. TypeOK /\ Known /\ Control /\ OnePlace
  BY DEF Inv
<1>1. o \in book /\ o \in Ids
  BY <1>0, BookGrowth DEF TypeOK
<1>2. CASE Fill
  <2>1. /\ cur # o /\ cur \in Ids /\ hit \in Ids
    BY <1>0, <1>1, <1>2 DEF Fill, Control, OnePlace, TypeOK, Resting
  <2>2. CASE o = hit
    BY <1>0, <1>2, <2>2 DEF Alive, Fill, Control
  <2>3. CASE o # hit
    <3>1. rem'[o] = rem[o] /\ status'[o] = status[o]
      BY <1>0, <1>1, <1>2, <2>1, <2>3 DEF Fill, TypeOK
    <3>2. QED
      BY <1>2, <2>3, <3>1 DEF Alive, Live, Fill
  <2>4. QED
    BY <1>1, <2>2, <2>3
<1>3. CASE Hit
  BY <1>0, <1>1, <1>3 DEF Alive, Live, Hit, Facing, Tops, Resting
<1>4. CASE ~ Fill /\ ~ Hit
  <2>1. rem'[o] = rem[o]
    BY <1>1, <1>4, BookFrame
  <2>2. status'[o] = status[o] \/ status'[o] = "CANCELLED" \/ (o = hit /\ pc = "tellFill")
    <3>1. CASE \E p \in Ids : Submit(p)
      <4>1. PICK p \in Ids : Submit(p)
        BY <3>1
      <4>2. p # o
        BY <1>0, <1>1, <4>1 DEF Submit, Known
      <4>3. QED
        BY <1>0, <1>1, <4>1, <4>2 DEF Submit, TypeOK
    <3>2. CASE \/ \E c \in Cancellers, p \in Ids : CancelInBook(c, p)
               \/ \E c \in Cancellers : CancelMark(c)
      BY <1>0, <1>1, <3>2 DEF CancelInBook, CancelMark, Cancelled, OnePlace, TypeOK
    <3>3. CASE Reject \/ MarkParked \/ Kill \/ CancelRemainder
      <4>1. cur \in Ids
        BY <1>0, <3>3 DEF Reject, MarkParked, Kill, CancelRemainder, TypeOK, Control
      <4>2. cur # o
        BY <1>0, <1>1, <3>3 DEF Reject, MarkParked, Kill, CancelRemainder, OnePlace,
           Control
      <4>3. QED
        BY <1>0, <1>1, <3>3, <4>1, <4>2 DEF Reject, MarkParked, Kill, CancelRemainder,
           TypeOK
    <3>4. CASE TakeTriggered
      BY <1>0, <1>1, <3>4 DEF TakeTriggered, Waiting, Ready, OnePlace
    <3>5. CASE \/ Stop \/ \E c \in Cancellers, p \in Ids : CancelNotInBook(c, p)
               \/ \E c \in Cancellers :
                    CancelPendingStop(c) \/ CancelNotFound(c) \/ CancelTell(c)
      BY <3>5 DEF Stop, CancelNotInBook, CancelPendingStop, CancelNotFound, CancelTell
    <3>6. CASE \/ Dequeue \/ Exit \/ Park \/ TellParked \/ Enter \/ Sweep \/ TellFill
               \/ Pop \/ Finished \/ TellRest \/ HandleTriggered \/ Drained
               \/ UNCHANGED vars
      BY <3>6 DEF Dequeue, Exit, Park, TellParked, Enter, Sweep, TellFill, Pop, Finished,
         TellRest, HandleTriggered, Drained, vars
    <3>7. QED
      BY <1>4, <3>1, <3>2, <3>3, <3>4, <3>5, <3>6 DEF Next, Match, CancelStep
  <2>3. pc' \in {"fill", "tellFill"} => pc \in {"fill", "tellFill"} /\ hit' = hit
    BY <1>4 DEF Next, vars, Match, Submit, Stop, CancelInBook, CancelNotInBook,
       CancelStep, CancelPendingStop, CancelNotFound, CancelMark, CancelTell, Dequeue,
       Exit, Reject, Park, MarkParked, TellParked, Kill, Enter, Sweep, TellFill, Pop,
       Finished, CancelRemainder, Rest, TellRest, TakeTriggered, HandleTriggered, Drained
  <2>4. QED
    BY <1>1, <2>1, <2>2, <2>3 DEF Alive, Live
<1>5. QED
  BY <1>2, <1>3, <1>4

LEMMA NextNeverCrossed ==
  ASSUME EngineAssumption, Inv, [Next]_vars
  PROVE  NeverCrossed'
<1> USE DEF shared, loop, past, client
<1>0. TypeOK /\ Control /\ OnePlace /\ NeverCrossed
  BY DEF Inv
<1>1. SUFFICES ASSUME NEW b \in Resting("BUY")', NEW a \in Resting("SELL")',
                      Alive(b)', Alive(a)'
               PROVE  order'[b].price < order'[a].price
  BY DEF NeverCrossed
<1>2. b \in book' /\ a \in book'
  BY DEF Resting
<1>3. CASE Rest
  <2>1. /\ UNCHANGED <<order, rem, status, hit>> /\ book' = book \cup {cur}
        /\ pc = "match" /\ pc' = "tellRest" /\ cur \in Ids /\ hit = None
    BY <1>0, <1>3 DEF Rest, Control, TypeOK
  <2>2. order[b].side = "BUY" /\ order[a].side = "SELL" /\ Live(b) /\ Live(a)
    BY <1>1, <2>1 DEF Resting, Alive, Live
  <2>3. CASE b \in book /\ a \in book
    BY <1>0, <2>1, <2>2, <2>3 DEF NeverCrossed, Resting, Alive, Live
  <2>4. CASE b = cur
    <3>1. a \in Resting(Opposite(order[cur].side)) /\ order[cur].side = "BUY"
      BY <1>2, <2>1, <2>2, <2>4 DEF Resting, Opposite
    <3>2. QED
      BY <1>3, <2>1, <2>2, <2>4, <3>1, NothingLeftToCross DEF Rest
  <2>5. CASE a = cur
    <3>1. b \in Resting(Opposite(order[cur].side)) /\ order[cur].side = "SELL"
      BY <1>2, <2>1, <2>2, <2>5 DEF Resting, Opposite
    <3>2. QED
      BY <1>3, <2>1, <2>2, <2>5, <3>1, NothingLeftToCross DEF Rest
  <2>6. QED
    BY <1>2, <2>1, <2>3, <2>4, <2>5
<1>4. CASE ~ Rest
  <2>1. b \in book /\ a \in book /\ Alive(b) /\ Alive(a)
    BY <1>1, <1>2, <1>4, NoneRevived
  <2>2. order'[b] = order[b] /\ order'[a] = order[a]
    BY <2>1, BookFrame
  <2>3. b \in Resting("BUY") /\ a \in Resting("SELL")
    BY <1>1, <2>1, <2>2 DEF Resting
  <2>4. QED
    BY <1>0, <2>1, <2>2, <2>3 DEF NeverCrossed
<1>5. QED
  BY <1>3, <1>4

-----------------------------------------------------------------------------
(* The theorems *)

LEMMA InitInv == ASSUME EngineAssumption PROVE Init => Inv
<1> SUFFICES ASSUME Init PROVE Inv
  OBVIOUS
<1>1. TypeOK
  BY InitType
<1>2. Queued = {} /\ DOMAIN queue = {}
  BY DEF Init, Queued, Range
<1>3. Control /\ Known /\ OnePlace
  BY <1>1, <1>2 DEF Init, Control, Known, OnePlace
<1>4. BookHoldsRestable /\ NeverCrossed /\ StopsAreStops
  BY DEF Init, BookHoldsRestable, NeverCrossed, StopsAreStops, Resting
<1>5. QED
  BY <1>1, <1>3, <1>4 DEF Inv

\* Inv is inductive: it holds initially and every step preserves it.
THEOREM Invariance == Spec => []Inv
<1>1. Init => Inv
  BY InitInv, EngineAssumption
<1>2. Inv /\ [Next]_vars => Inv'
  <2> SUFFICES ASSUME Inv, [Next]_vars PROVE Inv'
    OBVIOUS
  <2>1. TypeOK'
    BY NextType, EngineAssumption DEF Inv
  <2>2. QED
    BY <2>1, NextControl, NextKnown, NextOnePlace, NextBookHoldsRestable,
       NextNeverCrossed, NextStopsAreStops, EngineAssumption DEF Inv
<1>3. QED
  BY <1>1, <1>2, PTL DEF Spec

\* The state keeps its types (models.Order and the fields of Engine).
THEOREM TypeCorrect == Spec => []TypeOK
<1>1. Inv => TypeOK
  BY DEF Inv
<1>2. QED
  BY <1>1, Invariance, PTL

\* No order is ever kept in two places, or twice in one: the channel, the
\* batch, the stops map, the book and the hands of the matching goroutine.
THEOREM EveryOrderInOnePlace == Spec => []OnePlace
<1>1. Inv => OnePlace
  BY DEF Inv
<1>2. QED
  BY <1>1, Invariance, PTL

\* Only good-till-cancelled limit orders with something left rest (canRest,
\* and the pop of an exhausted order in matchBuy and matchSell).
THEOREM BookIsRestable == Spec => []BookHoldsRestable
<1>1. Inv => BookHoldsRestable
  BY DEF Inv
<1>2. QED
  BY <1>1, Invariance, PTL

\* The book never holds a live bid at or above a live ask, whatever arrives
\* and whatever is cancelled between any two steps of the matching loop.
THEOREM BookIsNeverCrossed == Spec => []BookNeverCrossed
<1>1. Inv => BookNeverCrossed
  BY DEF Inv, BookNeverCrossed, NeverCrossed, Alive, Live
<1>2. QED
  BY <1>1, Invariance, PTL

\* Every print is against the best live order of its side of the book: the
\* top of the heap chosen in matchBuy or matchSell is still it in fill.
THEOREM MakerHasPriority == Spec => PriceTimePriority
<1>1. Inv /\ [Next]_vars =>
        [trades' # trades =>
           \A p \in Resting(order[hit].side) :
             Live(p) => ~ Better(order[p], order[hit])]_vars
  <2> SUFFICES ASSUME Inv, [Next]_vars, trades' # trades,
                      NEW p \in Resting(order[hit].side), Live(p)
               PROVE  ~ Better(order[p], order[hit])
    BY DEF vars
  <2>1. Fill
    BY DEF Next, vars, Match, Submit, Stop, CancelInBook, CancelNotInBook, CancelStep,
       CancelPendingStop, CancelNotFound, CancelMark, CancelTell, Dequeue, Exit, Reject,
       Park, MarkParked, TellParked, Kill, Enter, Sweep, Hit, TellFill, Pop, Finished,
       CancelRemainder, Rest, TellRest, TakeTriggered, HandleTriggered, Drained, past
  <2>2. QED
    BY <2>1 DEF Fill, Inv, Control
<1>2. QED
  BY <1>1, Invariance, PTL DEF Spec, PriceTimePriority

-----------------------------------------------------------------------------
(* Refinement: the venue implements Settlement *)

LEMMA TermsType == ASSUME NEW r \in Request PROVE TermsOf(r) \in Settling!Terms
  BY DEF TermsOf, Settling!Terms, Settling!Sides, Sides, Request

\* The terms of an order never change once it is sent.
LEMMA TermsFixed ==
  ASSUME EngineAssumption, Inv, [Next]_vars, NEW o \in Ids, ~ Submit(o)
  PROVE  TermsOf(order'[o]) = TermsOf(order[o])
<1>1. order[o] \in Request
  BY DEF Inv, TypeOK
<1>2. TermsOf(normalize(order[o])) = TermsOf(order[o])
  BY <1>1 DEF TermsOf, normalize, Request
<1>3. order[o].type = "STOP" => TermsOf(activated(order[o])) = TermsOf(order[o])
  <2>1. order[o].price \in Nat
    BY <1>1 DEF Request
  <2>2. activated(order[o]).side = order[o].side
        /\ activated(order[o]).price = order[o].price
    BY <1>1 DEF activated, Request
  <2>3. activated(order[o]).type = IF order[o].price > 0 THEN "LIMIT" ELSE "MARKET"
    BY <1>1 DEF activated, Request
  <2>4. QED
    BY <2>1, <2>2, <2>3 DEF TermsOf
<1>4. o \in Ready => order[o].type = "STOP"
  BY DEF Ready, Inv, StopsAreStops
<1>5. QED
  BY <1>2, <1>3, <1>4, OrderFrame

\* The newest print is the one just recorded, trimmed tape or not.
LEMMA NewestPrint ==
  ASSUME EngineAssumption, trades \in Seq(Trade), NEW t \in Trade, recordTrade(t)
  PROVE  trades' # <<>> /\ trades'[Len(trades')] = t
<1> DEFINE longer == Append(trades, t)
           excess == Len(longer) - MaxTrades
<1>1. longer \in Seq(Trade) /\ Len(longer) = Len(trades) + 1 /\ Len(trades) \in Nat
      /\ longer[Len(longer)] = t
  OBVIOUS
<1>2. CASE excess > 0
  <2> DEFINE kept == SubSeq(longer, excess + 1, Len(longer))
  <2>1. /\ excess + 1 \in 1..(Len(longer) + 1) /\ Len(longer) \in 0..Len(longer)
        /\ MaxTrades \in Nat \ {0} /\ Len(longer) - excess = MaxTrades
        /\ excess + 1 <= Len(longer) + 1 /\ excess \in Nat
    BY <1>1, <1>2 DEF EngineAssumption
  <2>2. /\ kept \in Seq(Trade) /\ Len(kept) = MaxTrades
        /\ \A i \in 1..MaxTrades : kept[i] = longer[excess + i]
    BY <1>1, <2>1, SubSeqProperties
  <2>3. kept[MaxTrades] = longer[Len(longer)]
    BY <1>1, <2>1, <2>2
  <2>4. trades' = kept
    BY <1>2 DEF recordTrade
  <2>5. QED
    BY <1>1, <2>1, <2>2, <2>3, <2>4
<1>3. CASE ~ (excess > 0)
  BY <1>1, <1>3 DEF recordTrade
<1>4. QED
  BY <1>2, <1>3

\* Only Fill moves quantities or prints; only Submit creates orders.
LEMMA SettlingFrame ==
  ASSUME EngineAssumption, Inv, [Next]_vars, ~ Fill, ~ \E o \in Ids : Submit(o)
  PROVE  /\ UNCHANGED <<rem, trades>>
         /\ \A o \in Ids : status'[o] = "UNSENT" <=> status[o] = "UNSENT"
<1> USE DEF shared, loop, past, client
<1>0. TypeOK /\ Known /\ Control
  BY DEF Inv
<1>1. CASE \E c \in Cancellers, o \in Ids : CancelInBook(c, o) \/ CancelNotInBook(c, o)
  BY <1>0, <1>1 DEF CancelInBook, Cancelled, CancelNotInBook, TypeOK, Known
<1>2. CASE \E c \in Cancellers : CancelStep(c)
  BY <1>0, <1>2 DEF CancelStep, CancelPendingStop, CancelNotFound, CancelMark,
     Cancelled, CancelTell, TypeOK, Known
<1>3. CASE Reject \/ MarkParked \/ Kill \/ CancelRemainder
  BY <1>0, <1>3 DEF Reject, MarkParked, Kill, CancelRemainder, TypeOK, Known, Control
<1>4. CASE TakeTriggered
  BY <1>0, <1>4 DEF TakeTriggered, Waiting, Ready, TypeOK, Known
<1>5. CASE \/ Stop \/ Dequeue \/ Exit \/ Park \/ TellParked \/ Enter \/ Sweep \/ Hit
           \/ TellFill \/ Pop \/ Finished \/ Rest \/ TellRest \/ HandleTriggered
           \/ Drained \/ UNCHANGED vars
  BY <1>5 DEF Stop, Dequeue, Exit, Park, TellParked, Enter, Sweep, Hit, TellFill, Pop,
     Finished, Rest, TellRest, HandleTriggered, Drained, vars
<1>6. QED
  BY <1>1, <1>2, <1>3, <1>4, <1>5 DEF Next, Match

\* A fill is a settlement: both orders exist, are on opposite sides, have the
\* quantity open, and the maker's price is inside the taker's limit.
LEMMA FillSettles ==
  ASSUME EngineAssumption, Inv, Fill
  PROVE  Settling!Settle
<1>0. TypeOK /\ Known /\ Control /\ BookHoldsRestable
  BY DEF Inv
<1>1. [Next]_vars
  BY DEF Next, Match
<1>2. /\ pc = "fill" /\ cur \in Ids /\ hit \in book /\ hit \in Ids
      /\ order[hit].side = Opposite(order[cur].side) /\ order[cur].side \in Sides
      /\ crosses(order[cur], order[hit].price) /\ rem[hit] > 0 /\ rem[cur] > 0
      /\ order[hit].type = "LIMIT" /\ order[hit].price > 0
      /\ status[cur] # "UNSENT" /\ status[hit] # "UNSENT"
  BY <1>0 DEF Fill, Control, Resting, TypeOK, BookHoldsRestable, canRest, isValid, Known
<1>3. /\ order[cur] \in Request /\ order[hit] \in Request
      /\ rem[cur] \in Nat /\ rem[hit] \in Nat /\ cur # hit
  BY <1>0, <1>2 DEF TypeOK, Opposite, Sides
<1>4. /\ FillQty \in Nat \ {0} /\ FillQty <= rem[hit] /\ FillQty <= rem[cur]
  BY <1>2, <1>3 DEF FillQty
<1>5. NewTrade \in Trade /\ trades' # <<>> /\ trades'[Len(trades')] = NewTrade
  BY <1>0, <1>2, PrintType, NewestPrint DEF Fill, TypeOK
<1>6. NewTrade \in Settling!Prints
  BY <1>2, <1>3, <1>4 DEF NewTrade, Settling!Prints, Request
<1>7. rem' = [rem EXCEPT ![NewTrade.buy] = @ - NewTrade.qty,
                         ![NewTrade.sell] = @ - NewTrade.qty]
  <2>1. rem' = [rem EXCEPT ![hit] = rem[hit] - FillQty, ![cur] = rem[cur] - FillQty]
    BY DEF Fill
  <2>2. QED
    BY <1>0, <1>2, <1>3, <2>1 DEF NewTrade, TypeOK
<1>8. /\ TermsOf(order[NewTrade.buy]).side = "BUY"
      /\ TermsOf(order[NewTrade.sell]).side = "SELL"
  BY <1>2, <1>3 DEF NewTrade, TermsOf, Opposite, Sides
<1>9. /\ Settling!Agrees(TermsOf(order[cur]), order[hit].price)
      /\ Settling!Agrees(TermsOf(order[hit]), order[hit].price)
  <2>1. order[hit].price \in Nat /\ order[cur].price \in Nat
    BY <1>3 DEF Request
  <2>2. CASE order[cur].side = "BUY"
    BY <1>2, <2>1, <2>2 DEF crosses, TermsOf, Settling!Agrees, Opposite
  <2>3. CASE order[cur].side = "SELL"
    BY <1>2, <2>1, <2>3 DEF crosses, TermsOf, Settling!Agrees, Opposite
  <2>4. QED
    BY <1>2, <2>2, <2>3 DEF Sides
<1>10. /\ Settling!Agrees(TermsOf(order[NewTrade.buy]), NewTrade.price)
       /\ Settling!Agrees(TermsOf(order[NewTrade.sell]), NewTrade.price)
  BY <1>9 DEF NewTrade
<1>11. \A o \in Ids : status'[o] = "UNSENT" <=> status[o] = "UNSENT"
  BY <1>0, <1>2 DEF Fill, TypeOK
<1>12. order' = order
  BY DEF Fill
<1>13. NewTrade.buy \in {cur, hit} /\ NewTrade.sell \in {cur, hit} /\ NewTrade.qty = FillQty
  BY DEF NewTrade
<1>14. QED
  BY <1>2, <1>4, <1>5, <1>6, <1>7, <1>8, <1>10, <1>11, <1>12, <1>13
     DEF Settling!Settle

LEMMA SubmitAccepts ==
  ASSUME EngineAssumption, Inv, NEW o \in Ids, Submit(o)
  PROVE  Settling!Accept(o)
<1> USE DEF shared, loop, past, client
<1>0. TypeOK /\ TypeOK'
  BY NextType DEF Inv, Next
<1>1. PICK r \in Offers[o] : /\ order' = [order EXCEPT ![o] = r]
                             /\ rem' = [rem EXCEPT ![o] = r.qty]
  BY DEF Submit
<1>2. status' = [status EXCEPT ![o] = "NEW"] /\ trades' = trades /\ status[o] = "UNSENT"
  BY DEF Submit
<1>3. {p \in Ids : status'[p] # "UNSENT"} = {p \in Ids : status[p] # "UNSENT"} \cup {o}
  BY <1>0, <1>2 DEF TypeOK
<1>4. TermsOf(order'[o]) \in Settling!Terms /\ rem'[o] \in Nat
  BY <1>0, TermsType DEF TypeOK
<1>5. [p \in Ids |-> TermsOf(order'[p])]
        = [[p \in Ids |-> TermsOf(order[p])] EXCEPT ![o] = TermsOf(order'[o])]
  BY <1>0, <1>1 DEF TypeOK
<1>6. rem' = [rem EXCEPT ![o] = rem'[o]]
  BY <1>0, <1>1 DEF TypeOK
<1>7. QED
  BY <1>2, <1>3, <1>4, <1>5, <1>6 DEF Settling!Accept

\* A venue, with all its threads, is a Settlement: every step that prints is a
\* settlement between two willing orders and every other step leaves the open
\* quantities, the terms and the newest print of the accepted orders alone.
THEOREM VenueSettles == Spec => Settles
<1>1. Init => Settling!Init
  BY TermsType, BlankType DEF Init, Settling!Init
<1>2. Inv /\ [Next]_vars => [Settling!Next]_(Settling!vars)
  <2> SUFFICES ASSUME Inv, [Next]_vars PROVE [Settling!Next]_(Settling!vars)
    OBVIOUS
  <2>1. CASE Fill
    BY <2>1, FillSettles, EngineAssumption DEF Settling!Next
  <2>2. ASSUME NEW o \in Ids, Submit(o) PROVE Settling!Next
    BY <2>2, SubmitAccepts, EngineAssumption DEF Settling!Next
  <2>3. CASE ~ Fill /\ ~ \E o \in Ids : Submit(o)
    <3>1. /\ UNCHANGED <<rem, trades>>
          /\ \A o \in Ids : status'[o] = "UNSENT" <=> status[o] = "UNSENT"
      BY <2>3, SettlingFrame, EngineAssumption
    <3>2. \A o \in Ids : TermsOf(order'[o]) = TermsOf(order[o])
      BY <2>3, TermsFixed, EngineAssumption
    <3>3. /\ {o \in Ids : status'[o] # "UNSENT"} = {o \in Ids : status[o] # "UNSENT"}
          /\ [o \in Ids |-> TermsOf(order'[o])] = [o \in Ids |-> TermsOf(order[o])]
      BY <3>1, <3>2
    <3>4. QED
      BY <3>1, <3>3 DEF Settling!vars
  <2>4. QED
    BY <2>1, <2>2, <2>3
<1>3. QED
  BY <1>1, <1>2, Invariance, PTL DEF Spec, Settles, Settling!Spec

-----------------------------------------------------------------------------
(* The inductive invariants *)

\* An order nothing will ever trade again: in no store a taker comes from, in
\* nobody's hands, and skipped if it is still in the book.
Gone(o) ==
  /\ status[o] # "UNSENT"
  /\ o \notin Queued \cup batch \cup stops
  /\ o # hit
  /\ o \in book => status[o] = "CANCELLED"
  /\ o = cur => pc \in {"parked", "tellParked", "tellRest"}

\* Only the maker about to be filled may be cancelled and trade; a stop taken
\* out of the map by a cancel will not.
CancelsHold ==
  /\ \A o \in Ids : status[o] = "CANCELLED" => Gone(o) \/ o = hit
  /\ \A c \in Cancellers : cpc[c] = "mark" => Gone(cid[c])

\* An ID no order was sent under has nothing to trade.
UnsentIsBlank == \A o \in Ids : status[o] = "UNSENT" => rem[o] = 0 /\ order[o].qty = 0

Whole(o) == rem[o] = order[o].qty

Told(o) == told[o] = [status |-> status[o], rem |-> rem[o]]

\* What Settled says of one order.
InItsPlace(o) ==
  /\ o \in book <=> status[o] \in {"NEW", "PARTIALLY_FILLED"}
  /\ o \in stops <=> status[o] = "PENDING"
  /\ rem[o] = 0 <=> status[o] = "FILLED" \/ order[o].qty = 0
  /\ Told(o)

\* The same of the order being handled, step by step.
InHand ==
  /\ pc = "handle" => status[cur] = "NEW" /\ Whole(cur)
  /\ pc \in {"parked", "tellParked"} => Whole(cur) /\ cur \in stops
  /\ pc = "tellParked" => status[cur] = "PENDING"
  /\ pc \in {"match", "fill", "tellFill", "pop"} =>
       /\ status[cur] \in {"NEW", "PARTIALLY_FILLED", "FILLED"}
       /\ rem[cur] = 0 <=> status[cur] = "FILLED"
       /\ pc # "tellFill" => status[cur] = "NEW" \/ Told(cur)
  /\ pc = "tellRest" => status[cur] \in {"NEW", "PARTIALLY_FILLED"}

\* And of the maker, from the fill to the pop.
JustHit ==
  pc \in {"tellFill", "pop"} =>
    /\ status[hit] \in {"PARTIALLY_FILLED", "FILLED"}
    /\ rem[hit] = 0 <=> status[hit] = "FILLED"
    /\ order[hit].qty > 0
    /\ pc = "pop" => Told(hit)

\* Until somebody cancels, every order is as its place and the program counter say.
Orderly ==
  /\ pc = "idle" => batch = {}
  /\ \A o \in Queued \cup batch : status[o] = "NEW" /\ Whole(o)
  /\ \A o \in stops : Whole(o)
  /\ \A o \in Ids \ (Queued \cup batch \cup {cur}) :
       status[o] # "UNSENT" /\ (o = hit => pc = "fill") => InItsPlace(o)
  /\ InHand /\ JustHit

-----------------------------------------------------------------------------
(* Triggered stops *)

\* Between two orders, with at least one print, no parked stop is at its trigger.
NoneReady == pc = "idle" /\ lastPrice > 0 => Ready = {}

\* The loop turns idle only when no stop is ready (Drained), and while it is idle
\* stops only leave the map, and the last price stays.
LEMMA NextNoneReady ==
  ASSUME EngineAssumption, Inv, NoneReady, [Next]_vars
  PROVE  NoneReady'
<1> USE DEF shared, loop, past, client
<1>0. TypeOK /\ Known
  BY DEF Inv
<1>1. ASSUME NEW o \in Ids, Submit(o) PROVE NoneReady'
  <2>1. UNCHANGED <<pc, lastPrice, stops>> /\ o \notin stops
    BY <1>0, <1>1 DEF Submit, Known
  <2>2. \A p \in stops : order'[p] = order[p]
    BY <1>0, <1>1, <2>1 DEF Submit, TypeOK
  <2>3. QED
    BY <2>1, <2>2 DEF NoneReady, Ready
<1>2. ASSUME \/ Stop \/ \E c \in Cancellers, o \in Ids :
                          CancelInBook(c, o) \/ CancelNotInBook(c, o)
             \/ \E c \in Cancellers : CancelStep(c)
      PROVE  NoneReady'
  <2>1. UNCHANGED <<pc, lastPrice, order>> /\ stops' \subseteq stops
    BY <1>2 DEF Stop, CancelInBook, CancelNotInBook, CancelStep, CancelPendingStop,
       CancelNotFound, CancelMark, CancelTell
  <2>2. QED
    BY <2>1 DEF NoneReady, Ready
<1>3. ASSUME Drained \/ UNCHANGED vars PROVE NoneReady'
  BY <1>0, <1>3 DEF Drained, vars, NoneReady, Ready, TypeOK
<1>4. ASSUME Match, ~ Drained PROVE NoneReady'
  BY <1>4 DEF Match, Dequeue, Exit, Reject, Park, MarkParked, TellParked, Kill, Enter,
     Sweep, Hit, Fill, TellFill, Pop, Finished, CancelRemainder, Rest, TellRest,
     TakeTriggered, HandleTriggered, NoneReady
<1>5. QED
  BY <1>1, <1>2, <1>3, <1>4 DEF Next

\* processOrder drains: whenever the engine waits for the next order, no stop in
\* the map is one the last print has reached, whatever has been cancelled since.
THEOREM StopsAreDrained == Spec => []NoStopLeftTriggered
<1>1. Init => NoneReady
  BY DEF Init, NoneReady
<1>2. Inv /\ NoneReady /\ [Next]_vars => NoneReady'
  BY NextNoneReady, EngineAssumption
<1>3. Inv /\ NoneReady => NoStopLeftTriggered
  <2> SUFFICES ASSUME Inv, NoneReady, pc = "idle", lastPrice > 0, NEW o \in stops
               PROVE  IF order[o].side = "BUY" THEN lastPrice < order[o].stopPrice
                                               ELSE lastPrice > order[o].stopPrice
    BY DEF NoStopLeftTriggered
  <2>1. ~ stopTriggered(order[o], lastPrice)
    BY DEF NoneReady, Ready
  <2>2. lastPrice \in Nat /\ order[o].stopPrice \in Nat
    BY DEF Inv, TypeOK, Request
  <2>3. QED
    BY <2>1, <2>2 DEF stopTriggered
<1>4. QED
  BY <1>1, <1>2, <1>3, Invariance, PTL DEF Spec

-----------------------------------------------------------------------------
(* Orders that will not trade again *)

\* Once gone, an order stays gone, and keeps what it has left.
LEMMA GoneStays ==
  ASSUME EngineAssumption, Inv, [Next]_vars, NEW o \in Ids, Gone(o)
  PROVE  Gone(o)' /\ rem'[o] = rem[o]
<1> USE DEF shared, loop, past, client
<1>0. TypeOK /\ Known /\ Control /\ OnePlace /\ None \notin Ids
  BY DEF Inv, EngineAssumption
<1>1. ASSUME NEW p \in Ids, Submit(p) PROVE Gone(o)' /\ rem'[o] = rem[o]
  <2>1. p # o
    BY <1>1 DEF Submit, Gone
  <2>2. Queued' = Queued \cup {p}
    BY <1>0, <1>1, AppendElements DEF Submit, Queued, TypeOK
  <2>3. QED
    BY <1>0, <1>1, <2>1, <2>2 DEF Submit, Gone, TypeOK
<1>2. ASSUME NEW c \in Cancellers, NEW p \in Ids, CancelInBook(c, p)
      PROVE  Gone(o)' /\ rem'[o] = rem[o]
  <2>1. o \in book => status'[o] = "CANCELLED"
    BY <1>0, <1>2 DEF CancelInBook, Cancelled, Gone, OnePlace, TypeOK
  <2>2. status'[o] # "UNSENT"
    BY <1>0, <1>2 DEF CancelInBook, Cancelled, Gone, TypeOK
  <2>3. QED
    BY <1>2, <2>1, <2>2 DEF CancelInBook, Gone, Queued
<1>3. ASSUME NEW c \in Cancellers, CancelMark(c) PROVE Gone(o)' /\ rem'[o] = rem[o]
  <2>1. o \in book => status'[o] = "CANCELLED"
    BY <1>0, <1>3 DEF CancelMark, Cancelled, Gone, OnePlace, TypeOK
  <2>2. status'[o] # "UNSENT"
    BY <1>0, <1>3 DEF CancelMark, Cancelled, Gone, TypeOK
  <2>3. QED
    BY <1>3, <2>1, <2>2 DEF CancelMark, Gone, Queued
<1>4. ASSUME Stop \/ (\E c \in Cancellers, p \in Ids : CancelNotInBook(c, p))
             \/ \E c \in Cancellers :
                  CancelPendingStop(c) \/ CancelNotFound(c) \/ CancelTell(c)
      PROVE  Gone(o)' /\ rem'[o] = rem[o]
  BY <1>4 DEF Stop, CancelNotInBook, CancelPendingStop, CancelNotFound, CancelTell,
     Gone, Queued
<1>5. ASSUME Dequeue PROVE Gone(o)' /\ rem'[o] = rem[o]
  <2>1. Queued = Queued' \cup {cur'}
    BY <1>0, <1>5, TailElements DEF Dequeue, Queued, TypeOK
  <2>2. QED
    BY <1>5, <2>1 DEF Dequeue, Gone
<1>6. ASSUME Reject \/ Kill \/ CancelRemainder PROVE Gone(o)' /\ rem'[o] = rem[o]
  <2>1. cur # o
    BY <1>6 DEF Reject, Kill, CancelRemainder, Gone
  <2>2. status'[o] = status[o]
    BY <1>0, <1>6, <2>1 DEF Reject, Kill, CancelRemainder, TypeOK
  <2>3. QED
    BY <1>0, <1>6, <2>2 DEF Reject, Kill, CancelRemainder, Gone, Queued
<1>7. ASSUME MarkParked PROVE Gone(o)' /\ rem'[o] = rem[o]
  <2>1. o = cur => o \notin book
    BY <1>0, <1>7 DEF MarkParked, OnePlace
  <2>2. o # cur => status'[o] = status[o]
    BY <1>0, <1>7 DEF MarkParked, TypeOK
  <2>3. status'[o] # "UNSENT"
    BY <1>0, <1>7 DEF MarkParked, TypeOK, Gone
  <2>4. QED
    BY <1>7, <2>1, <2>2, <2>3 DEF MarkParked, Gone, Queued
<1>8. ASSUME Exit \/ Park \/ Enter \/ TellParked \/ Finished \/ Rest \/ TellRest
             \/ HandleTriggered \/ Drained \/ UNCHANGED vars
      PROVE  Gone(o)' /\ rem'[o] = rem[o]
  BY <1>0, <1>8 DEF Exit, Park, Enter, TellParked, Finished, Rest, TellRest,
     HandleTriggered, Drained, vars, Gone, Queued
<1>9. ASSUME Sweep \/ TellFill \/ Pop PROVE Gone(o)' /\ rem'[o] = rem[o]
  BY <1>0, <1>9 DEF Sweep, TellFill, Pop, Gone, Queued
<1>10. ASSUME Hit PROVE Gone(o)' /\ rem'[o] = rem[o]
  <2>1. PICK best \in Facing : Live(best) /\ hit' = best
    BY <1>10 DEF Hit
  <2>2. best \in book /\ status[best] # "CANCELLED"
    BY <2>1 DEF Facing, Tops, Resting, Live
  <2>3. QED
    BY <1>10, <2>1, <2>2 DEF Hit, Gone, Queued
<1>11. ASSUME Fill PROVE Gone(o)' /\ rem'[o] = rem[o]
  <2>1. o \notin {hit, cur}
    BY <1>11 DEF Fill, Gone
  <2>2. status'[o] = status[o] /\ rem'[o] = rem[o]
    BY <1>0, <1>11, <2>1 DEF Fill, TypeOK
  <2>3. QED
    BY <1>11, <2>1, <2>2 DEF Fill, Gone, Queued
<1>12. ASSUME TakeTriggered PROVE Gone(o)' /\ rem'[o] = rem[o]
  <2>1. o \notin Ready
    BY DEF Ready, Gone
  <2>2. status'[o] = status[o] /\ rem'[o] = rem[o]
    BY <1>0, <1>12, <2>1 DEF TakeTriggered, TypeOK
  <2>3. QED
    BY <1>12, <2>1, <2>2 DEF TakeTriggered, Waiting, Gone, Queued
<1>13. QED
  BY <1>1, <1>2, <1>3, <1>4, <1>5, <1>6, <1>7, <1>8, <1>9, <1>10, <1>11, <1>12
     DEF Next, Match, CancelStep

\* Who may cancel an order.
LEMMA WhoCancels ==
  ASSUME EngineAssumption, Inv, [Next]_vars, NEW o \in Ids,
         status[o] # "CANCELLED", status'[o] = "CANCELLED"
  PROVE  \/ \E c \in Cancellers : CancelInBook(c, o)
         \/ \E c \in Cancellers : CancelMark(c) /\ o = cid[c]
         \/ (Kill \/ CancelRemainder) /\ o = cur
<1> USE DEF shared, loop, past, client
<1>0. TypeOK /\ Known
  BY DEF Inv
<1>1. CASE \E p \in Ids : Submit(p)
  BY <1>0, <1>1 DEF Submit, TypeOK
<1>2. CASE \E c \in Cancellers, p \in Ids : CancelInBook(c, p)
  <2>1. PICK c \in Cancellers, p \in Ids : CancelInBook(c, p)
    BY <1>2
  <2>2. CASE p # o
    BY <1>0, <2>1, <2>2 DEF CancelInBook, TypeOK
  <2>3. QED
    BY <2>1, <2>2
<1>3. CASE \E c \in Cancellers : CancelMark(c)
  BY <1>0, <1>3 DEF CancelMark, Known, TypeOK
<1>4. CASE Reject \/ MarkParked \/ Kill \/ CancelRemainder
  BY <1>0, <1>4 DEF Reject, MarkParked, Kill, CancelRemainder, TypeOK
<1>5. CASE Fill
  BY <1>0, <1>5 DEF Fill, TypeOK
<1>6. CASE TakeTriggered
  BY <1>0, <1>6 DEF TakeTriggered, TypeOK
<1>7. CASE \/ Stop \/ \E c \in Cancellers, p \in Ids : CancelNotInBook(c, p)
           \/ \E c \in Cancellers :
                CancelPendingStop(c) \/ CancelNotFound(c) \/ CancelTell(c)
  BY <1>7 DEF Stop, CancelNotInBook, CancelPendingStop, CancelNotFound, CancelTell
<1>8. CASE \/ Dequeue \/ Exit \/ Park \/ TellParked \/ Enter \/ Sweep \/ Hit
           \/ TellFill \/ Pop \/ Finished \/ Rest \/ TellRest \/ HandleTriggered
           \/ Drained \/ UNCHANGED vars
  BY <1>8 DEF Dequeue, Exit, Park, TellParked, Enter, Sweep, Hit, TellFill, Pop,
     Finished, Rest, TellRest, HandleTriggered, Drained, vars
<1>9. QED
  BY <1>1, <1>2, <1>3, <1>4, <1>5, <1>6, <1>7, <1>8 DEF Next, Match, CancelStep

\* A step that cancels an order which was not cancelled leaves it gone, unless
\* it is the maker being filled.
LEMMA CancelLeavesGone ==
  ASSUME EngineAssumption, Inv, CancelsHold, [Next]_vars, NEW o \in Ids,
         status'[o] = "CANCELLED"
  PROVE  Gone(o)' \/ o = hit'
<1> USE DEF shared, loop, past, client
<1>0. TypeOK /\ Known /\ Control /\ OnePlace /\ None \notin Ids
  BY DEF Inv, EngineAssumption
<1>1. CASE Gone(o)
  BY <1>1, GoneStays
<1>2. CASE o = hit
  <2>1. o \in book /\ o \notin Queued \cup batch \cup stops /\ o # cur
    BY <1>0, <1>2 DEF Control, Resting, OnePlace
  <2>2. hit # None
    BY <1>0, <1>2
  <2>3. CASE hit' = hit
    BY <1>2, <2>3
  <2>4. CASE hit' # hit
    <3>1. Pop
      BY <1>0, <2>2, <2>4 DEF Next, vars, Match, Submit, Stop, CancelInBook,
         CancelNotInBook, CancelStep, CancelPendingStop, CancelNotFound, CancelMark,
         CancelTell, Dequeue, Exit, Reject, Park, MarkParked, TellParked, Kill, Enter,
         Sweep, Hit, Fill, TellFill, Finished, CancelRemainder, Rest, TellRest,
         TakeTriggered, HandleTriggered, Drained, Control
    <3>2. QED
      BY <1>0, <2>1, <3>1 DEF Pop, Gone, Queued
  <2>5. QED
    BY <2>3, <2>4
<1>3. CASE ~ Gone(o) /\ o # hit
  <2>1. status[o] # "CANCELLED"
    BY <1>3 DEF CancelsHold
  <2>2. CASE \E c \in Cancellers : CancelInBook(c, o)
    <3>1. o \in book /\ o \notin Queued \cup batch \cup stops
          /\ (o = cur => pc = "tellRest")
      BY <1>0, <2>2 DEF CancelInBook, OnePlace
    <3>2. QED
      BY <1>3, <2>2, <3>1 DEF CancelInBook, Gone, Queued
  <2>3. ASSUME NEW c \in Cancellers, CancelMark(c), o = cid[c] PROVE Gone(o)
    BY <2>3 DEF CancelMark, CancelsHold
  <2>4. CASE Kill \/ CancelRemainder
    <3>1. o = cur
      BY <1>0, <2>1, <2>4 DEF Kill, CancelRemainder, TypeOK
    <3>2. o \notin Queued \cup batch \cup stops \cup book
      BY <1>0, <2>4, <3>1 DEF Kill, CancelRemainder, OnePlace
    <3>3. QED
      BY <1>0, <1>3, <2>4, <3>2 DEF Kill, CancelRemainder, Gone, Queued
  <2>5. QED
    BY <1>3, <2>1, <2>2, <2>3, <2>4, WhoCancels
<1>4. QED
  BY <1>1, <1>2, <1>3

\* What is cancelled stays gone, and so does what a cancel is about to mark.
LEMMA NextCancelsHold ==
  ASSUME EngineAssumption, Inv, CancelsHold, [Next]_vars
  PROVE  CancelsHold'
<1> USE DEF shared, loop, past, client
<1>0. TypeOK /\ Known /\ Control /\ OnePlace /\ None \notin Ids
  BY DEF Inv, EngineAssumption
<1>1. \A o \in Ids : status'[o] = "CANCELLED" => Gone(o)' \/ o = hit'
  BY CancelLeavesGone
<1>2. ASSUME NEW c \in Cancellers, cpc'[c] = "mark" PROVE Gone(cid[c])' /\ cid'[c] = cid[c]
  <2>1. CASE cpc[c] = "mark"
    <3>1. cid'[c] = cid[c]
      BY <1>0, <1>2, <2>1 DEF Next, vars, Match, Submit, Stop, CancelInBook,
         CancelNotInBook, CancelStep, CancelPendingStop, CancelNotFound, CancelMark,
         CancelTell, Dequeue, Exit, Reject, Park, MarkParked, TellParked, Kill, Enter,
         Sweep, Hit, Fill, TellFill, Pop, Finished, CancelRemainder, Rest, TellRest,
         TakeTriggered, HandleTriggered, Drained, TypeOK
    <3>2. cid[c] \in Ids /\ Gone(cid[c])
      BY <1>0, <2>1 DEF Known, CancelsHold
    <3>3. QED
      BY <3>1, <3>2, GoneStays
  <2>2. CASE cpc[c] # "mark"
    <3>1. CancelPendingStop(c)
      BY <1>0, <1>2, <2>2 DEF Next, vars, Match, Submit, Stop, CancelInBook,
         CancelNotInBook, CancelStep, CancelPendingStop, CancelNotFound, CancelMark,
         CancelTell, Dequeue, Exit, Reject, Park, MarkParked, TellParked, Kill, Enter,
         Sweep, Hit, Fill, TellFill, Pop, Finished, CancelRemainder, Rest, TellRest,
         TakeTriggered, HandleTriggered, Drained, TypeOK
    <3>2. cid[c] \in stops /\ status[cid[c]] # "UNSENT"
      BY <1>0, <3>1 DEF CancelPendingStop, Known
    <3>3. cid[c] \notin Queued \cup batch \cup book
      BY <1>0, <3>2 DEF OnePlace
    <3>4. cid[c] # hit
      BY <1>0, <3>2, <3>3 DEF Control, Resting, TypeOK
    <3>5. cid[c] = cur => pc \in {"parked", "tellParked"}
      BY <1>0, <3>2 DEF OnePlace
    <3>6. QED
      BY <3>1, <3>2, <3>3, <3>4, <3>5 DEF CancelPendingStop, Gone, Queued
  <2>3. QED
    BY <2>1, <2>2
<1>3. QED
  BY <1>1, <1>2 DEF CancelsHold, Gone, Queued

\* What a cancel has withdrawn is gone: the other half of CancelIsFinal is that
\* what is gone never trades (GoneStays).
THEOREM CancelledIsGone == Spec => []CancelsHold
<1>1. Init => CancelsHold
  BY DEF Init, CancelsHold
<1>2. Inv /\ CancelsHold /\ [Next]_vars => CancelsHold'
  BY NextCancelsHold, EngineAssumption
<1>3. QED
  BY <1>1, <1>2, Invariance, PTL DEF Spec


\* A cancel is final (the comment of orderbook.CancelOrder, and the answer of the
\* HTTP handler): whatever arrives and however the writes of the two sides fall,
\* an order cancelled when the matching loop is not filling it trades no more,
\* nor does a stop a cancel has taken out of the map but not marked yet.
THEOREM CancelsAreFinal == Spec => CancelIsFinal
<1>1. ASSUME NEW o \in Ids, NEW n \in Amounts
      PROVE  Spec => []((status[o] = "CANCELLED" /\ hit # o /\ rem[o] = n) => [](rem[o] = n))
  <2>1. Inv /\ CancelsHold /\ (status[o] = "CANCELLED" /\ hit # o /\ rem[o] = n)
          => Gone(o) /\ rem[o] = n
    BY DEF CancelsHold
  <2>2. Inv /\ Gone(o) /\ rem[o] = n /\ [Next]_vars => (Gone(o) /\ rem[o] = n)'
    BY GoneStays, EngineAssumption
  <2>3. QED
    BY <2>1, <2>2, Invariance, CancelledIsGone, PTL DEF Spec
<1>2. ASSUME NEW o \in Ids, NEW n \in Amounts, NEW c \in Cancellers
      PROVE  Spec => []((cpc[c] = "mark" /\ cid[c] = o /\ rem[o] = n) => [](rem[o] = n))
  <2>1. Inv /\ CancelsHold /\ (cpc[c] = "mark" /\ cid[c] = o /\ rem[o] = n)
          => Gone(o) /\ rem[o] = n
    BY DEF CancelsHold
  <2>2. Inv /\ Gone(o) /\ rem[o] = n /\ [Next]_vars => (Gone(o) /\ rem[o] = n)'
    BY GoneStays, EngineAssumption
  <2>3. QED
    BY <2>1, <2>2, Invariance, CancelledIsGone, PTL DEF Spec
<1>3. QED
  BY <1>1, <1>2 DEF CancelIsFinal

-----------------------------------------------------------------------------
(* The tape *)

\* A tape that is not full after a print has all of it.
LEMMA ShortTape ==
  ASSUME EngineAssumption, trades \in Seq(Trade), NEW t \in Trade, recordTrade(t),
         Len(trades') < MaxTrades
  PROVE  trades' = Append(trades, t) /\ Len(trades) < MaxTrades
<1> DEFINE longer == Append(trades, t)
           excess == Len(longer) - MaxTrades
<1>1. longer \in Seq(Trade) /\ Len(longer) = Len(trades) + 1 /\ Len(trades) \in Nat
      /\ MaxTrades \in Nat \ {0}
  BY DEF EngineAssumption
<1>2. CASE excess > 0
  <2>1. excess + 1 \in 1..(Len(longer) + 1) /\ Len(longer) \in 0..Len(longer)
    BY <1>1, <1>2
  <2>2. Len(SubSeq(longer, excess + 1, Len(longer))) = Len(longer) - (excess + 1) + 1
    BY <1>1, <1>2, <2>1, SubSeqProperties
  <2>3. trades' = SubSeq(longer, excess + 1, Len(longer))
    BY <1>2 DEF recordTrade
  <2>4. QED
    BY <1>1, <1>2, <2>2, <2>3
<1>3. CASE ~ (excess > 0)
  BY <1>1, <1>3 DEF recordTrade
<1>4. QED
  BY <1>2, <1>3

PrintsOf(o, tape) == {i \in DOMAIN tape : o \in {tape[i].buy, tape[i].sell}}

SumOf(o, tape) == SumFunctionOnSet([i \in DOMAIN tape |-> tape[i].qty], PrintsOf(o, tape))

\* What the tape printed for an order is a finite sum of naturals.
LEMMA PrintsAreFinite ==
  ASSUME NEW tape \in Seq(Trade), NEW o
  PROVE  /\ IsFiniteSet(PrintsOf(o, tape)) /\ PrintsOf(o, tape) \subseteq 1..Len(tape)
         /\ \A i \in PrintsOf(o, tape) : tape[i].qty \in Nat
         /\ SumOf(o, tape) \in Nat
<1>1. IsFiniteSet(1..Len(tape)) /\ DOMAIN tape = 1..Len(tape)
  BY FS_Interval
<1>2. IsFiniteSet(PrintsOf(o, tape))
  BY <1>1, FS_Subset DEF PrintsOf
<1>3. \A i \in PrintsOf(o, tape) : tape[i] \in Trade
  BY <1>1 DEF PrintsOf
<1>4. \A i \in PrintsOf(o, tape) : tape[i].qty \in Nat
  BY <1>3 DEF Trade
<1>5. \A i \in PrintsOf(o, tape) : [j \in DOMAIN tape |-> tape[j].qty][i] \in Nat
  BY <1>4 DEF PrintsOf
<1>6. SumOf(o, tape) \in Nat
  BY <1>2, <1>5, SumOfNats DEF SumOf
<1>7. QED
  BY <1>1, <1>2, <1>4, <1>6 DEF PrintsOf

\* One print more counts for the two orders it names.
LEMMA OnePrintMore ==
  ASSUME NEW tape \in Seq(Trade), NEW t \in Trade, NEW o
  PROVE  SumOf(o, Append(tape, t)) =
           SumOf(o, tape) + (IF o \in {t.buy, t.sell} THEN t.qty ELSE 0)
<1> DEFINE longer == Append(tape, t)
           f == [i \in DOMAIN tape |-> tape[i].qty]
           g == [i \in DOMAIN longer |-> longer[i].qty]
           S == PrintsOf(o, tape)
           n == Len(longer)
<1>1. /\ Len(tape) \in Nat /\ n = Len(tape) + 1 /\ longer \in Seq(Trade)
      /\ DOMAIN tape = 1..Len(tape) /\ DOMAIN longer = (1..Len(tape)) \cup {n}
      /\ n \notin 1..Len(tape) /\ longer[n] = t
      /\ \A i \in 1..Len(tape) : longer[i] = tape[i]
  OBVIOUS
<1>2. IsFiniteSet(S) /\ S \subseteq 1..Len(tape) /\ SumOf(o, tape) \in Nat
      /\ \A i \in S : tape[i].qty \in Nat
  BY PrintsAreFinite
<1>3. /\ \A i \in S : f[i] \in Nat /\ g[i] = f[i]
      /\ g[n] = t.qty /\ t.qty \in Nat /\ n \notin S
  <2>1. \A i \in S : f[i] = tape[i].qty /\ g[i] = longer[i].qty /\ longer[i] = tape[i]
    BY <1>1, <1>2
  <2>2. g[n] = longer[n].qty
    BY <1>1
  <2>3. t.qty \in Nat
    BY DEF Trade
  <2>4. QED
    BY <1>1, <1>2, <2>1, <2>2, <2>3
<1>4. PrintsOf(o, longer) = IF o \in {t.buy, t.sell} THEN S \cup {n} ELSE S
  BY <1>1 DEF PrintsOf
<1>5. SumOf(o, tape) = SumFunctionOnSet(f, S) /\ SumOf(o, longer) = SumFunctionOnSet(g, PrintsOf(o, longer))
  BY DEF SumOf
<1> HIDE DEF f, g, S, n, longer
<1>6. SumFunctionOnSet(f, S) \in Nat
  BY <1>2, <1>5
<1>7. SumFunctionOnSet(g, S) = SumFunctionOnSet(f, S)
  BY <1>2, <1>3, SumLooksAt
<1>8. \A i \in S \cup {n} : g[i] \in Int
  BY <1>3
<1>9. SumFunctionOnSet(g, S \cup {n}) = SumFunctionOnSet(g, S) + g[n]
  BY <1>2, <1>3, <1>8, SumAdds
<1>10. SumFunctionOnSet(g, PrintsOf(o, longer)) = SumFunctionOnSet(f, S) + (IF o \in {t.buy, t.sell} THEN t.qty ELSE 0)
  BY <1>3, <1>4, <1>6, <1>7, <1>9
<1>11. SumOf(o, longer) = SumOf(o, tape) + (IF o \in {t.buy, t.sell} THEN t.qty ELSE 0)
  BY <1>5, <1>10
<1>12. QED
  BY <1>11 DEF longer

\* Nothing was printed on an empty tape.
LEMMA NoPrints == ASSUME NEW o PROVE SumOf(o, <<>>) = 0
<1>1. PrintsOf(o, <<>>) = {}
  BY DEF PrintsOf
<1>2. IsFiniteSet({})
  BY FS_EmptySet
<1>3. SumFunctionOnSet([i \in DOMAIN <<>> |-> <<>>[i].qty], {}) = 0
  BY <1>2, SumSteps
<1>4. QED
  BY <1>1, <1>3 DEF SumOf

\* The attributes a fill and the tape go by change only when an order is sent.
LEMMA QtyFixed ==
  ASSUME EngineAssumption, Inv, [Next]_vars, NEW o \in Ids, ~ Submit(o)
  PROVE  /\ order'[o].qty = order[o].qty
         /\ order'[o].tif = "FOK" <=> order[o].tif = "FOK"
<1>1. order[o] \in Request
  BY DEF Inv, TypeOK
<1>2. normalize(order[o]).qty = order[o].qty
      /\ (normalize(order[o]).tif = "FOK" <=> order[o].tif = "FOK")
  BY <1>1 DEF normalize, Request
<1>3. activated(order[o]).qty = order[o].qty /\ activated(order[o]).tif = order[o].tif
  BY <1>1 DEF activated, Request
<1>4. QED
  BY <1>2, <1>3, OrderFrame

\* Only Submit gives an order a quantity.
LEMMA NextUnsentIsBlank ==
  ASSUME EngineAssumption, Inv, UnsentIsBlank, [Next]_vars
  PROVE  UnsentIsBlank'
<1>0. TypeOK /\ Known /\ Control
  BY DEF Inv
<1>1. SUFFICES ASSUME NEW o \in Ids, status'[o] = "UNSENT"
               PROVE  rem'[o] = 0 /\ order'[o].qty = 0
  BY DEF UnsentIsBlank
<1>2. ~ Submit(o)
  BY <1>0, <1>1 DEF Submit, TypeOK
<1>3. order'[o].qty = order[o].qty
  BY <1>2, QtyFixed
<1>4. CASE \E p \in Ids : Submit(p)
  <2>1. PICK p \in Ids : Submit(p)
    BY <1>4
  <2>2. p # o
    BY <1>2, <2>1
  <2>3. status'[o] = status[o] /\ rem'[o] = rem[o]
    BY <1>0, <2>1, <2>2 DEF Submit, TypeOK
  <2>4. QED
    BY <1>1, <1>3, <2>3 DEF UnsentIsBlank
<1>5. CASE Fill
  <2>1. status[cur] # "UNSENT" /\ status[hit] # "UNSENT"
    BY <1>0, <1>5 DEF Fill, Control, Known, Resting
  <2>2. status'[o] = status[o] /\ o \notin {hit, cur}
    BY <1>0, <1>1, <1>5, <2>1 DEF Fill, TypeOK
  <2>3. rem'[o] = rem[o]
    BY <1>0, <1>5, <2>2 DEF Fill, TypeOK
  <2>4. QED
    BY <1>1, <1>3, <2>2, <2>3 DEF UnsentIsBlank
<1>6. CASE ~ Fill /\ ~ \E p \in Ids : Submit(p)
  <2>1. rem' = rem /\ status[o] = "UNSENT"
    BY <1>1, <1>6, SettlingFrame
  <2>2. QED
    BY <1>3, <2>1 DEF UnsentIsBlank
<1>7. QED
  BY <1>4, <1>5, <1>6

\* A fill takes off both orders what it prints; nothing else takes or prints.
LEMMA NextTapeReconciles ==
  ASSUME EngineAssumption, Inv, UnsentIsBlank, TapeReconciles, [Next]_vars
  PROVE  TapeReconciles'
<1> USE DEF shared, loop, past, client
<1>0. TypeOK /\ Known /\ Control /\ OnePlace
  BY DEF Inv
<1>a. \A o : TradedOf(o) = SumOf(o, trades) /\ TradedOf(o)' = SumOf(o, trades')
  BY DEF TradedOf, SumOf, PrintsOf
<1>1. SUFFICES ASSUME Len(trades') < MaxTrades, NEW o \in Ids
               PROVE  rem'[o] + SumOf(o, trades') = order'[o].qty
  BY <1>a DEF TapeReconciles
<1>2. CASE Submit(o)
  <2>1. Len(trades) < MaxTrades /\ trades' = trades
    BY <1>1, <1>2 DEF Submit
  <2>2. rem[o] + SumOf(o, trades) = order[o].qty /\ rem[o] = 0 /\ order[o].qty = 0
    BY <1>a, <1>2, <2>1 DEF Submit, UnsentIsBlank, TapeReconciles
  <2>3. \E r \in Offers[o] : order'[o] = r /\ rem'[o] = r.qty
    BY <1>0, <1>2 DEF Submit, TypeOK
  <2>4. rem'[o] = order'[o].qty /\ rem'[o] \in Nat
    BY <2>3, NextType, EngineAssumption DEF Inv, TypeOK
  <2>5. SumOf(o, trades) \in Nat
    BY <1>0, PrintsAreFinite DEF TypeOK
  <2>6. QED
    BY <2>1, <2>2, <2>4, <2>5
<1>3. CASE Fill
  <2>1. cur \in Ids /\ hit \in Ids /\ hit # cur
    BY <1>0, <1>3 DEF Fill, Control, Resting, TypeOK, OnePlace
  <2>2. NewTrade \in Trade /\ FillQty \in Nat /\ NewTrade.qty = FillQty
        /\ {NewTrade.buy, NewTrade.sell} = {hit, cur}
    BY <1>0, <2>1, PrintType DEF NewTrade
  <2>3. trades' = Append(trades, NewTrade) /\ Len(trades) < MaxTrades
    BY <1>0, <1>1, <1>3, <2>2, ShortTape DEF Fill, TypeOK
  <2>4. SumOf(o, trades) \in Nat /\ SumOf(o, trades') =
          SumOf(o, trades) + (IF o \in {hit, cur} THEN FillQty ELSE 0)
    BY <1>0, <2>2, <2>3, PrintsAreFinite, OnePrintMore DEF TypeOK
  <2>5. rem'[o] = rem[o] - (IF o \in {hit, cur} THEN FillQty ELSE 0)
    BY <1>0, <1>3, <2>1 DEF Fill, TypeOK
  <2>6. rem[o] + SumOf(o, trades) = order[o].qty /\ order' = order /\ rem[o] \in Nat
    BY <1>0, <1>a, <1>3, <2>3 DEF Fill, TapeReconciles, TypeOK
  <2>7. QED
    BY <2>2, <2>4, <2>5, <2>6
<1>4. CASE ~ Submit(o) /\ ~ Fill
  <2>1. rem'[o] = rem[o] /\ trades' = trades
    <3>1. CASE \E p \in Ids : Submit(p)
      <4>1. PICK p \in Ids : Submit(p)
        BY <3>1
      <4>2. p # o
        BY <1>4, <4>1
      <4>3. QED
        BY <1>0, <4>1, <4>2 DEF Submit, TypeOK
    <3>2. CASE ~ \E p \in Ids : Submit(p)
      BY <1>4, <3>2, SettlingFrame
    <3>3. QED
      BY <3>1, <3>2
  <2>2. order'[o].qty = order[o].qty
    BY <1>4, QtyFixed
  <2>3. QED
    BY <1>1, <1>a, <2>1, <2>2 DEF TapeReconciles
<1>5. QED
  BY <1>2, <1>3, <1>4

\* Engine.recordTrade and applyFill: as long as the tape has dropped nothing, what
\* an order has lost from its quantity is what the tape printed for it, with any
\* number of cancels racing the fills.
THEOREM TapeIsExact == Spec => []TapeReconciles
<1>1. Init => UnsentIsBlank /\ TapeReconciles
  <2> SUFFICES ASSUME Init PROVE UnsentIsBlank /\ TapeReconciles
    OBVIOUS
  <2>1. UnsentIsBlank
    BY DEF Init, UnsentIsBlank, Blank
  <2>2. ASSUME NEW o \in Ids PROVE rem[o] + TradedOf(o) = order[o].qty
    <3>1. TradedOf(o) = SumOf(o, <<>>)
      BY DEF Init, TradedOf, SumOf, PrintsOf
    <3>2. rem[o] = 0 /\ order[o] = Blank
      BY DEF Init
    <3>3. Blank.qty = 0
      BY DEF Blank
    <3>4. QED
      BY <3>1, <3>2, <3>3, NoPrints
  <2>3. QED
    BY <2>1, <2>2 DEF TapeReconciles
<1>2. Inv /\ UnsentIsBlank /\ TapeReconciles /\ [Next]_vars
        => (UnsentIsBlank /\ TapeReconciles)'
  BY NextUnsentIsBlank, NextTapeReconciles, EngineAssumption
<1>3. QED
  BY <1>1, <1>2, Invariance, PTL DEF Spec

-----------------------------------------------------------------------------
(* What a step leaves alone *)

\* Nothing but a fill takes anything off an order.
LEMMA RemFrame ==
  ASSUME EngineAssumption, Inv, [Next]_vars, NEW o \in Ids, ~ Submit(o),
         ~ Fill \/ o \notin {hit, cur}
  PROVE  rem'[o] = rem[o]
<1>0. TypeOK
  BY DEF Inv
<1>1. CASE \E p \in Ids : Submit(p)
  <2>1. PICK p \in Ids : Submit(p)
    BY <1>1
  <2>2. p # o
    BY <2>1
  <2>3. QED
    BY <1>0, <2>1, <2>2 DEF Submit, TypeOK
<1>2. CASE Fill
  BY <1>0, <1>2 DEF Fill, TypeOK
<1>3. CASE ~ Fill /\ ~ \E p \in Ids : Submit(p)
  BY <1>3, SettlingFrame
<1>4. QED
  BY <1>1, <1>2, <1>3

\* An order no step fills stays whole.
LEMMA WholeStays ==
  ASSUME EngineAssumption, Inv, [Next]_vars, NEW o \in Ids, Whole(o), ~ Submit(o),
         ~ Fill \/ o \notin {hit, cur}
  PROVE  Whole(o)'
  BY QtyFixed, RemFrame DEF Whole

\* Takers come from the clients and from the stops map.
LEMMA WhereTakersComeFrom ==
  ASSUME EngineAssumption, Inv, [Next]_vars
  PROVE  /\ \A o \in Queued' \cup batch' :
              o \in Queued \cup batch \/ Submit(o) \/ (TakeTriggered /\ o \in Ready)
         /\ \A o \in stops' : o \in stops \/ (Park /\ o = cur)
<1> USE DEF shared, loop, past, client
<1>0. TypeOK
  BY DEF Inv
<1>1. ASSUME NEW p \in Ids, Submit(p)
      PROVE  Queued' = Queued \cup {p} /\ UNCHANGED <<batch, stops>>
  BY <1>0, <1>1, AppendElements DEF Submit, Queued, TypeOK
<1>2. CASE Dequeue
  <2>1. Queued = Queued' \cup {cur'}
    BY <1>0, <1>2, TailElements DEF Dequeue, Queued, TypeOK
  <2>2. QED
    BY <1>2, <2>1 DEF Dequeue
<1>3. CASE TakeTriggered \/ HandleTriggered \/ Park
  BY <1>3 DEF TakeTriggered, Waiting, HandleTriggered, Park, Queued
<1>4. CASE \/ Stop \/ Exit \/ Reject \/ MarkParked \/ TellParked \/ Kill \/ Enter
           \/ Sweep \/ Hit \/ Fill \/ TellFill \/ Pop \/ Finished \/ CancelRemainder
           \/ Rest \/ TellRest \/ Drained \/ UNCHANGED vars
  BY <1>4 DEF Stop, Exit, Reject, MarkParked, TellParked, Kill, Enter, Sweep, Hit, Fill,
     TellFill, Pop, Finished, CancelRemainder, Rest, TellRest, Drained, vars, Queued
<1>5. CASE \/ \E c \in Cancellers, p \in Ids : CancelInBook(c, p) \/ CancelNotInBook(c, p)
           \/ \E c \in Cancellers : CancelStep(c)
  BY <1>5 DEF CancelInBook, CancelNotInBook, CancelStep, CancelPendingStop,
     CancelNotFound, CancelMark, CancelTell, Queued
<1>6. QED
  BY <1>1, <1>2, <1>3, <1>4, <1>5 DEF Next, Match

-----------------------------------------------------------------------------
(* A venue nobody has cancelled in *)

\* A step of no cancel request.
NobodyCancels ==
  \A c \in Cancellers :
    ~ CancelStep(c) /\ \A o \in Ids : ~ CancelInBook(c, o) /\ ~ CancelNotInBook(c, o)

\* A request that has begun stays begun; so nobody cancels on the way to a state
\* in which nobody has.
LEMMA UncancelledBefore ==
  ASSUME EngineAssumption, TypeOK, [Next]_vars, Uncancelled'
  PROVE  Uncancelled /\ NobodyCancels
<1>1. cpc \in [Cancellers -> {"ready", "stops", "mark", "tell", "acked", "missing"}]
  BY DEF TypeOK
<1>2. ASSUME NEW c \in Cancellers, NEW o \in Ids,
             CancelInBook(c, o) \/ CancelNotInBook(c, o)
      PROVE  FALSE
  BY <1>1, <1>2 DEF CancelInBook, CancelNotInBook, Uncancelled
<1>3. ASSUME NEW c \in Cancellers, CancelStep(c) PROVE FALSE
  BY <1>1, <1>3 DEF CancelStep, CancelPendingStop, CancelNotFound, CancelMark,
     CancelTell, Uncancelled
<1>4. cpc' = cpc
  <2>1. CASE Match
    BY <2>1 DEF client, Match, Dequeue, Exit, Reject, Park, MarkParked, TellParked, Kill,
       Enter, Sweep, Hit, Fill, TellFill, Pop, Finished, CancelRemainder, Rest, TellRest,
       TakeTriggered, HandleTriggered, Drained
  <2>2. CASE Stop \/ (\E o \in Ids : Submit(o)) \/ UNCHANGED vars
    BY <2>2 DEF client, Stop, Submit, vars
  <2>3. QED
    BY <1>2, <1>3, <2>1, <2>2 DEF Next
<1>5. QED
  BY <1>2, <1>3, <1>4 DEF Uncancelled, NobodyCancels

\* What a step leaves alone: any order that is not sent, handled, hit or triggered.
LEMMA Untouched ==
  ASSUME EngineAssumption, Inv, NobodyCancels, [Next]_vars, NEW o \in Ids,
         ~ Submit(o), o # cur, o = hit => ~ (Fill \/ TellFill \/ Pop),
         ~ (TakeTriggered /\ o \in Ready)
  PROVE  /\ order'[o] = order[o] /\ rem'[o] = rem[o]
         /\ status'[o] = status[o] /\ told'[o] = told[o]
         /\ o \in stops' <=> o \in stops
         /\ ~ Sweep => (o \in book' <=> o \in book)
<1> USE DEF shared, loop, past, client
<1> DEFINE Same == /\ order'[o] = order[o] /\ rem'[o] = rem[o]
                   /\ status'[o] = status[o] /\ told'[o] = told[o]
                   /\ o \in stops' <=> o \in stops
                   /\ ~ Sweep => (o \in book' <=> o \in book)
<1>0. TypeOK /\ Control
  BY DEF Inv
<1>1. ASSUME NEW p \in Ids, Submit(p) PROVE Same
  <2>1. p # o
    BY <1>1
  <2>2. QED
    BY <1>0, <1>1, <2>1 DEF Submit, TypeOK
<1>2. CASE Stop \/ Dequeue \/ Exit \/ Sweep \/ Hit \/ Finished \/ Drained
           \/ HandleTriggered \/ UNCHANGED vars
  BY <1>2 DEF Stop, Dequeue, Exit, Sweep, Hit, Finished, Drained, HandleTriggered, vars
<1>3. CASE Reject \/ Kill \/ CancelRemainder
  BY <1>0, <1>3 DEF Reject, Kill, CancelRemainder, publishOrder, TypeOK
<1>4. CASE Park \/ MarkParked \/ Enter \/ Rest
  BY <1>0, <1>4 DEF Park, MarkParked, Enter, Rest, TypeOK
<1>5. CASE TellParked \/ TellRest
  BY <1>0, <1>5 DEF TellParked, TellRest, publishOrder, TypeOK
<1>6. CASE Fill \/ TellFill \/ Pop
  <2>1. o # hit
    BY <1>6
  <2>2. QED
    BY <1>0, <1>6, <2>1 DEF Fill, TellFill, Pop, TypeOK
<1>7. CASE TakeTriggered
  <2>1. o \notin Ready
    BY <1>7
  <2>2. QED
    BY <1>0, <1>7, <2>1 DEF TakeTriggered, Waiting, TypeOK
<1>8. QED
  BY <1>1, <1>2, <1>3, <1>4, <1>5, <1>6, <1>7 DEF Next, NobodyCancels, Match

\* Takers have traded nothing yet, and have the status they were put away with.
LEMMA NextTakers ==
  ASSUME EngineAssumption, Inv, NobodyCancels, Orderly, [Next]_vars
  PROVE  /\ \A o \in Queued' \cup batch' : status'[o] = "NEW" /\ Whole(o)'
         /\ \A o \in stops' : Whole(o)'
<1> USE DEF shared, loop, past, client
<1>0. TypeOK /\ Known /\ Control /\ OnePlace
  BY DEF Inv
<1>1. Queued \cup batch \cup stops \subseteq Ids
  BY <1>0, RangeType DEF Queued, TypeOK
<1>2. ASSUME NEW o \in Queued \cup batch PROVE status'[o] = "NEW" /\ Whole(o)'
  <2>1. /\ o \in Ids /\ o # cur /\ o # hit /\ o \notin Ready
        /\ ~ Submit(o)
    BY <1>0, <1>1 DEF Known, OnePlace, Control, Resting, Ready, Submit
  <2>2. QED
    BY <2>1, Untouched DEF Orderly, Whole
<1>3. ASSUME NEW o \in Ids, Submit(o) PROVE status'[o] = "NEW" /\ Whole(o)'
  BY <1>0, <1>3 DEF Submit, TypeOK, Whole
<1>4. ASSUME NEW o \in stops PROVE Whole(o)'
  <2>1. /\ o \in Ids /\ ~ Submit(o) /\ (~ Fill \/ o \notin {hit, cur})
    BY <1>0, <1>1 DEF Known, OnePlace, Control, Resting, Submit, Fill
  <2>2. QED
    BY <2>1, WholeStays DEF Orderly
<1>5. ASSUME NEW o \in Ready, TakeTriggered PROVE status'[o] = "NEW" /\ Whole(o)'
  <2>1. o \in stops /\ o \in Ids
    BY <1>1 DEF Ready
  <2>2. QED
    BY <1>0, <1>4, <1>5, <2>1 DEF TakeTriggered, TypeOK
<1>6. ASSUME NEW o \in Ids, Park, o = cur PROVE Whole(o)'
  <2>1. Whole(o) /\ ~ Submit(o) /\ ~ Fill
    BY <1>0, <1>6 DEF Park, Control, Orderly, InHand, Known, Submit, Fill, TypeOK
  <2>2. QED
    BY <2>1, WholeStays
<1>7. \A o \in Queued' \cup batch' \cup stops' : o \in Ids
  <2>1. TypeOK'
    BY <1>0, NextType
  <2>2. QED
    BY <2>1, RangeType DEF Queued, TypeOK
<1>8. QED
  BY <1>2, <1>3, <1>4, <1>5, <1>6, <1>7, WhereTakersComeFrom

\* As long as nobody cancels, whatever rests is alive, so nothing is ever swept.
LEMMA RestingIsLive ==
  ASSUME Inv, Orderly, NEW o \in book, o = hit => pc = "fill", o # cur
  PROVE  o \in Ids /\ InItsPlace(o) /\ Live(o)
<1>0. TypeOK /\ Known /\ OnePlace /\ BookHoldsRestable
  BY DEF Inv
<1>1. o \in Ids /\ status[o] # "UNSENT" /\ o \notin Queued \cup batch
  BY <1>0 DEF TypeOK, Known, OnePlace
<1>2. InItsPlace(o)
  BY <1>1 DEF Orderly
<1>3. rem[o] > 0
  BY <1>0 DEF BookHoldsRestable
<1>4. QED
  BY <1>1, <1>2, <1>3 DEF InItsPlace, Live

\* So the loop never meets a dead order at the top.
LEMMA NoSweep == ASSUME EngineAssumption, Inv, Orderly PROVE ~ Sweep
<1> SUFFICES ASSUME Sweep PROVE FALSE
  OBVIOUS
<1>1. PICK best \in Facing : ~ Live(best)
  BY DEF Sweep
<1>2. best \in book /\ pc = "match"
  BY <1>1 DEF Facing, Tops, Resting, Sweep
<1>3. cur \notin book /\ hit = None /\ cur # None
  BY <1>2 DEF Inv, OnePlace, Control
<1>4. (best = hit => pc = "fill") /\ best # cur
  BY <1>2, <1>3 DEF Inv, TypeOK, EngineAssumption
<1>5. QED
  BY <1>1, <1>2, <1>4, RestingIsLive

\* Where the order being handled ends up.
LEMMA LeavesInPlace ==
  ASSUME EngineAssumption, Inv, NobodyCancels, Orderly, [Next]_vars, NEW o \in Ids,
         o = cur, cur' # cur
  PROVE  InItsPlace(o)'
<1> USE DEF shared, loop, past, client
<1>0. /\ TypeOK /\ Known /\ Control /\ OnePlace /\ BookHoldsRestable /\ InHand
      /\ o # None
  BY DEF Inv, Orderly, EngineAssumption
<1>1. rem[o] \in Nat /\ order[o].qty \in Nat
  BY <1>0 DEF TypeOK, Request
<1>2. /\ Incoming.qty = order[o].qty
      /\ isValid(Incoming) => order[o].qty > 0
  <2>1. order[o] \in Request
    BY <1>0 DEF TypeOK
  <2>2. Incoming.qty = order[o].qty
    BY <2>1 DEF Incoming, normalize, Request
  <2>3. QED
    BY <2>2 DEF isValid
<1>3. ASSUME Reject PROVE InItsPlace(o)'
  <2>1. o \notin book \cup stops
    BY <1>0, <1>3 DEF Reject, OnePlace
  <2>2. /\ status'[o] = "REJECTED" /\ rem'[o] = rem[o] /\ order'[o].qty = order[o].qty
        /\ told'[o] = [status |-> "REJECTED", rem |-> rem[o]]
    BY <1>0, <1>2, <1>3 DEF Reject, publishOrder, TypeOK
  <2>3. rem[o] = order[o].qty
    BY <1>0, <1>3 DEF Reject, InHand, Whole
  <2>4. QED
    BY <1>3, <2>1, <2>2, <2>3 DEF Reject, InItsPlace, Told
<1>4. ASSUME Kill PROVE InItsPlace(o)'
  <2>1. o \notin book \cup stops
    BY <1>0, <1>4 DEF Kill, OnePlace
  <2>2. /\ status'[o] = "CANCELLED" /\ rem'[o] = rem[o] /\ order'[o].qty = order[o].qty
        /\ told'[o] = [status |-> "CANCELLED", rem |-> rem[o]]
    BY <1>0, <1>2, <1>4 DEF Kill, publishOrder, TypeOK
  <2>3. rem[o] = order[o].qty /\ order[o].qty > 0
    BY <1>0, <1>2, <1>4 DEF Kill, Tradable, InHand, Whole
  <2>4. QED
    BY <1>1, <1>4, <2>1, <2>2, <2>3 DEF Kill, InItsPlace, Told
<1>5. ASSUME TellParked PROVE InItsPlace(o)'
  <2>1. /\ status[o] = "PENDING" /\ rem[o] = order[o].qty
        /\ o \in stops /\ o \notin book
    BY <1>0, <1>5 DEF TellParked, InHand, Whole, OnePlace
  <2>2. told'[o] = [status |-> "PENDING", rem |-> rem[o]]
    BY <1>0, <1>5, <2>1 DEF TellParked, publishOrder, TypeOK
  <2>3. QED
    BY <1>0, <1>5, <2>1, <2>2 DEF TellParked, InItsPlace, Told
<1>6. ASSUME Finished PROVE InItsPlace(o)'
  <2>1. o \notin book \cup stops /\ order[o].qty > 0
    BY <1>0, <1>6 DEF Finished, OnePlace, Control, isValid
  <2>2. status[o] = "FILLED" /\ rem[o] = 0 /\ Told(o)
    BY <1>0, <1>6 DEF Finished, InHand
  <2>3. UNCHANGED <<order, rem, status, told, book, stops>>
    BY <1>6 DEF Finished
  <2>4. QED
    BY <2>1, <2>2, <2>3 DEF InItsPlace, Told
<1>7. ASSUME CancelRemainder PROVE InItsPlace(o)'
  <2>1. o \notin book \cup stops /\ order[o].qty > 0
    BY <1>0, <1>7 DEF CancelRemainder, OnePlace, Control, isValid
  <2>2. /\ status'[o] = "CANCELLED" /\ told'[o] = [status |-> "CANCELLED", rem |-> rem[o]]
    BY <1>0, <1>7 DEF CancelRemainder, publishOrder, TypeOK
  <2>3. UNCHANGED <<order, rem, book, stops>> /\ rem[o] > 0
    BY <1>7 DEF CancelRemainder
  <2>4. QED
    BY <1>1, <2>1, <2>2, <2>3 DEF InItsPlace, Told
<1>8. ASSUME TellRest PROVE InItsPlace(o)'
  <2>1. o \in book /\ o \notin stops /\ o # hit /\ order[o].qty > 0
    BY <1>0, <1>8 DEF TellRest, OnePlace, Control, isValid
  <2>2. rem[o] > 0 /\ status[o] \in {"NEW", "PARTIALLY_FILLED"}
    BY <1>0, <1>8, <2>1 DEF TellRest, BookHoldsRestable, InHand
  <2>3. told'[o] = [status |-> status[o], rem |-> rem[o]]
    BY <1>0, <1>8 DEF TellRest, publishOrder, TypeOK
  <2>4. QED
    BY <1>1, <1>8, <2>1, <2>2, <2>3 DEF TellRest, InItsPlace, Told
<1>9. ASSUME ~ Reject, ~ Kill, ~ TellParked, ~ Finished, ~ CancelRemainder, ~ TellRest
      PROVE  cur' = cur
  <2>1. ~ Dequeue /\ ~ HandleTriggered
    BY <1>0 DEF Dequeue, HandleTriggered, Control
  <2>2. QED
    BY <1>9, <2>1 DEF Next, NobodyCancels, vars, Match, Submit, Stop, Exit, Park, MarkParked, Enter,
       Sweep, Hit, Fill, TellFill, Pop, Rest, TakeTriggered, Drained
<1>10. QED
  BY <1>3, <1>4, <1>5, <1>6, <1>7, <1>8, <1>9

\* A step moves the order in hand and the one hit, and leaves the others in place.
LEMMA NextInItsPlace ==
  ASSUME EngineAssumption, Inv, NobodyCancels, Orderly, [Next]_vars,
         NEW o \in Ids \ (Queued' \cup batch' \cup {cur'}),
         status'[o] # "UNSENT", o = hit' => pc' = "fill"
  PROVE  InItsPlace(o)'
<1> USE DEF shared, loop, past, client
<1>0. TypeOK /\ Known /\ Control /\ OnePlace
  BY DEF Inv
<1>1. CASE o = cur
  BY <1>1, LeavesInPlace
<1>2. CASE Submit(o)
  BY <1>0, <1>2, AppendElements DEF Submit, Queued, TypeOK
<1>3. CASE o \in Queued \cup batch
  <2>1. CASE Dequeue
    <3>1. Queued = Queued' \cup {cur'}
      BY <1>0, <2>1, TailElements DEF Dequeue, Queued, TypeOK
    <3>2. QED
      BY <1>3, <2>1, <3>1 DEF Dequeue
  <2>2. CASE HandleTriggered
    BY <1>3, <2>2 DEF HandleTriggered, Queued
  <2>3. CASE \E p \in Ids : Submit(p)
    BY <1>0, <1>3, <2>3, AppendElements DEF Submit, Queued, TypeOK
  <2>4. CASE TakeTriggered
    BY <1>3, <2>4 DEF TakeTriggered, Queued
  <2>5. CASE ~ Dequeue /\ ~ HandleTriggered /\ ~ TakeTriggered /\ ~ \E p \in Ids : Submit(p)
    <3>1. Queued' = Queued /\ batch' = batch
      BY <2>5 DEF Next, NobodyCancels, vars, Match, Stop, Exit, Reject, Park, MarkParked, TellParked,
         Kill, Enter, Sweep, Hit, Fill, TellFill, Pop, Finished, CancelRemainder, Rest,
         TellRest, Drained, Queued
    <3>2. QED
      BY <1>3, <3>1
  <2>6. QED
    BY <2>1, <2>2, <2>3, <2>4, <2>5
<1>4. CASE TakeTriggered /\ o \in Ready
  BY <1>4 DEF TakeTriggered
<1>5. CASE o # cur /\ o \notin Queued \cup batch /\ ~ Submit(o)
           /\ ~ (TakeTriggered /\ o \in Ready)
  <2>1. CASE o = hit /\ pc \in {"tellFill", "pop"}
    <3>1. CASE Pop
      <4>1. /\ o \in book /\ o \notin stops /\ JustHit /\ pc = "pop"
            /\ rem[o] \in Nat
        BY <1>0, <2>1, <3>1 DEF Pop, Control, Resting, OnePlace, Orderly, TypeOK
      <4>2. UNCHANGED <<order, rem, status, told, stops>>
            /\ book' = IF rem[o] = 0 THEN book \ {o} ELSE book
        BY <2>1, <3>1 DEF Pop
      <4>3. QED
        BY <2>1, <4>1, <4>2 DEF JustHit, InItsPlace, Told
    <3>2. CASE ~ Pop
      <4>1. hit' = hit /\ pc' \in {"tellFill", "pop"}
        BY <2>1, <3>2 DEF Next, NobodyCancels, vars, Match, Submit, Stop, Dequeue, Exit, Reject, Park,
           MarkParked, TellParked, Kill, Enter, Sweep, Hit, Fill, TellFill, Finished,
           CancelRemainder, Rest, TellRest, TakeTriggered, HandleTriggered, Drained
      <4>2. QED
        BY <2>1, <4>1
    <3>3. QED
      BY <3>1, <3>2
  <2>2. CASE o = hit => pc = "fill"
    <3>1. ~ (o = hit /\ (Fill \/ TellFill \/ Pop))
      BY <2>2 DEF Fill, TellFill, Pop
    <3>2. status[o] # "UNSENT" /\ order'[o] = order[o] /\ rem'[o] = rem[o]
          /\ status'[o] = status[o] /\ told'[o] = told[o]
          /\ (o \in stops' <=> o \in stops) /\ (o \in book' <=> o \in book)
      BY <1>5, <3>1, Untouched, NoSweep
    <3>3. InItsPlace(o)
      BY <1>5, <2>2, <3>2 DEF Orderly
    <3>4. QED
      BY <3>2, <3>3 DEF InItsPlace, Told
  <2>3. QED
    BY <1>0, <2>1, <2>2 DEF Control, EngineAssumption
<1>6. QED
  BY <1>1, <1>2, <1>3, <1>4, <1>5

\* The order in hand, from its arrival to its last report.
LEMMA NextInHand ==
  ASSUME EngineAssumption, Inv, NobodyCancels, Orderly, [Next]_vars
  PROVE  InHand'
<1> USE DEF shared, loop, past, client
<1>0. TypeOK /\ Known /\ Control /\ OnePlace /\ InHand /\ None \notin Ids
  BY DEF Inv, Orderly, EngineAssumption
<1>1. ASSUME NEW p \in Ids, Submit(p) PROVE InHand'
  <2>1. /\ cur # None => /\ cur \in Ids /\ cur # p
                         /\ rem'[cur] = rem[cur] /\ status'[cur] = status[cur]
                         /\ order'[cur] = order[cur] /\ told'[cur] = told[cur]
        /\ UNCHANGED <<pc, cur, stops>>
    BY <1>0, <1>1 DEF Submit, Known, TypeOK
  <2>2. pc \notin {"idle", "drain", "stopped"} => cur # None
    BY <1>0 DEF Control
  <2>3. QED
    BY <1>0, <2>1, <2>2 DEF InHand, Whole, Told
<1>2. ASSUME \/ Reject \/ Kill \/ TellParked \/ Finished \/ CancelRemainder \/ TellRest
             \/ TakeTriggered \/ Drained \/ Exit
      PROVE  InHand'
  BY <1>2 DEF Reject, Kill, TellParked, Finished, CancelRemainder, TellRest,
     TakeTriggered, Drained, Exit, InHand
<1>3. ASSUME Stop \/ Sweep \/ UNCHANGED vars PROVE InHand'
  BY <1>0, <1>3, NoSweep DEF Stop, vars, InHand, Whole, Told
<1>4. ASSUME Dequeue \/ HandleTriggered PROVE InHand'
  <2>1. cur' \in Queued \cup batch
    BY <1>0, <1>4, TailElements DEF Dequeue, HandleTriggered, Queued, TypeOK
  <2>2. status[cur'] = "NEW" /\ Whole(cur)'
    BY <1>4, <2>1 DEF Dequeue, HandleTriggered, Orderly, Whole
  <2>3. QED
    BY <1>4, <2>2 DEF Dequeue, HandleTriggered, InHand
<1>5. ASSUME Park PROVE InHand'
  <2>1. cur \in Ids /\ Whole(cur) /\ ~ Submit(cur) /\ ~ Fill /\ cur' = cur
    BY <1>0, <1>5 DEF Park, Control, InHand, Known, Submit, Fill, TypeOK
  <2>2. Whole(cur)'
    <3>1. order'[cur].qty = order[cur].qty /\ rem' = rem
      BY <1>5, <2>1, QtyFixed DEF Park
    <3>2. QED
      BY <2>1, <3>1 DEF Whole
  <2>3. QED
    BY <1>5, <2>2 DEF Park, InHand
<1>6. ASSUME MarkParked PROVE InHand'
  <2>1. /\ cur \in Ids /\ Whole(cur) /\ cur \in stops
        /\ status'[cur] = "PENDING"
    BY <1>0, <1>6 DEF MarkParked, Control, InHand, TypeOK
  <2>2. QED
    BY <1>6, <2>1 DEF MarkParked, InHand, Whole
<1>7. ASSUME Enter PROVE InHand'
  <2>1. cur \in Ids /\ Whole(cur) /\ status[cur] = "NEW" /\ order[cur] \in Request
    BY <1>0, <1>7 DEF Enter, Control, InHand, TypeOK
  <2>2. order[cur].qty > 0
    <3>1. Incoming.qty = order[cur].qty
      BY <2>1 DEF Incoming, normalize, Request
    <3>2. QED
      BY <1>7, <3>1 DEF Enter, Tradable, isValid
  <2>3. rem[cur] # 0
    BY <2>2 , <2>1 DEF Whole
  <2>4. QED
    BY <1>7, <2>1, <2>3 DEF Enter, InHand
<1>8. ASSUME Hit PROVE InHand'
  BY <1>0, <1>8 DEF Hit, InHand, Told
<1>9. ASSUME Fill PROVE InHand'
  <2>1. cur \in Ids /\ hit \in Ids /\ hit # cur
    BY <1>0, <1>9 DEF Fill, Control, Resting, TypeOK, OnePlace
  <2>2. /\ rem'[cur] = rem[cur] - FillQty
        /\ status'[cur] = IF rem[cur] - FillQty = 0 THEN "FILLED" ELSE "PARTIALLY_FILLED"
    BY <1>0, <1>9, <2>1 DEF Fill, TypeOK
  <2>3. QED
    BY <1>9, <2>2 DEF Fill, InHand
<1>10. ASSUME TellFill PROVE InHand'
  <2>1. told'[cur] = [status |-> status[cur], rem |-> rem[cur]]
    BY <1>0, <1>10 DEF TellFill, Control, TypeOK
  <2>2. QED
    BY <1>0, <1>10, <2>1 DEF TellFill, InHand, Told
<1>11. ASSUME Pop PROVE InHand'
  BY <1>0, <1>11 DEF Pop, InHand, Told
<1>12. ASSUME Rest PROVE InHand'
  BY <1>0, <1>12 DEF Rest, InHand
<1>13. QED
  BY <1>1, <1>2, <1>3, <1>4, <1>5, <1>6, <1>7, <1>8, <1>9, <1>10, <1>11, <1>12
     DEF Next, NobodyCancels, Match

\* The maker, from the fill that changes it to the report of it.
LEMMA NextJustHit ==
  ASSUME EngineAssumption, Inv, NobodyCancels, Orderly, [Next]_vars
  PROVE  JustHit'
<1> USE DEF shared, loop, past, client
<1>0. TypeOK /\ Known /\ Control /\ OnePlace /\ JustHit /\ None \notin Ids
  BY DEF Inv, Orderly, EngineAssumption
<1>1. ASSUME NEW p \in Ids, Submit(p) PROVE JustHit'
  <2>1. hit # None => /\ hit \in Ids /\ hit # p
    BY <1>0, <1>1 DEF Submit, Control, Resting, Known, TypeOK
  <2>2. hit # None => /\ rem'[hit] = rem[hit] /\ status'[hit] = status[hit]
                      /\ order'[hit] = order[hit] /\ told'[hit] = told[hit]
    BY <1>0, <1>1, <2>1 DEF Submit, TypeOK
  <2>3. UNCHANGED <<pc, hit>>
    BY <1>1 DEF Submit
  <2>4. QED
    BY <1>0, <2>2, <2>3 DEF JustHit, Told, Control
<1>2. ASSUME Stop \/ UNCHANGED vars PROVE JustHit'
  BY <1>0, <1>2 DEF Stop, vars, JustHit, Told
<1>3. ASSUME Fill PROVE JustHit'
  <2>1. cur \in Ids /\ hit \in Ids /\ hit # cur /\ hit \in book /\ rem[hit] > 0
    BY <1>0, <1>3 DEF Fill, Control, Resting, TypeOK, OnePlace
  <2>2. /\ rem'[hit] = rem[hit] - FillQty
        /\ status'[hit] = IF rem[hit] - FillQty = 0 THEN "FILLED" ELSE "PARTIALLY_FILLED"
    BY <1>0, <1>3, <2>1 DEF Fill, TypeOK
  <2>3. InItsPlace(hit)
    BY <1>3, <2>1, RestingIsLive DEF Fill
  <2>4. order[hit].qty > 0
    <3>1. order[hit].qty \in Nat
      BY <1>0, <2>1 DEF TypeOK, Request
    <3>2. QED
      BY <2>1, <2>3, <3>1 DEF InItsPlace
  <2>5. QED
    BY <1>3, <2>2, <2>4 DEF Fill, JustHit
<1>4. ASSUME TellFill PROVE JustHit'
  <2>1. told'[hit] = [status |-> status[hit], rem |-> rem[hit]]
    BY <1>0, <1>4 DEF TellFill, Control, TypeOK
  <2>2. QED
    BY <1>0, <1>4, <2>1 DEF TellFill, JustHit, Told
<1>5. ASSUME Match, ~ Fill, ~ TellFill PROVE JustHit'
  BY <1>5, NoSweep DEF Match, Dequeue, Exit, Reject, Park, MarkParked, TellParked, Kill,
     Enter, Hit, Pop, Finished, CancelRemainder, Rest, TellRest, TakeTriggered,
     HandleTriggered, Drained, JustHit
<1>6. QED
  BY <1>1, <1>2, <1>3, <1>4, <1>5 DEF Next, NobodyCancels

-----------------------------------------------------------------------------
(* Until somebody cancels, every order is where its status says *)

\* An empty venue is orderly.
LEMMA InitOrderly ==
  ASSUME EngineAssumption, Init
  PROVE  Orderly
<1>1. Queued = {} /\ pc = "idle"
  BY DEF Init, Queued, Range
<1>2. InHand /\ JustHit
  BY <1>1 DEF InHand, JustHit
<1>3. QED
  BY <1>1, <1>2 DEF Init, Orderly

\* Every step but a cancel's keeps a venue orderly.
LEMMA NextOrderly ==
  ASSUME EngineAssumption, Inv, NobodyCancels, Orderly, [Next]_vars
  PROVE  Orderly'
<1>1. \A o \in (Queued \cup batch)' : status'[o] = "NEW" /\ Whole(o)'
  BY NextTakers
<1>2. \A o \in stops' : Whole(o)'
  BY NextTakers
<1>3. \A o \in Ids \ (Queued' \cup batch' \cup {cur'}) :
        status'[o] # "UNSENT" /\ (o = hit' => pc' = "fill") => InItsPlace(o)'
  BY NextInItsPlace
<1>4. InHand' /\ JustHit'
  BY NextInHand, NextJustHit
<1>5. pc' = "idle" => batch' = {}
  BY DEF Orderly, Next, NobodyCancels, vars, loop, Match, Submit, Stop, Dequeue, Exit, Reject, Park,
     MarkParked, TellParked, Kill, Enter, Sweep, Hit, Fill, TellFill, Pop, Finished,
     CancelRemainder, Rest, TellRest, TakeTriggered, HandleTriggered, Drained
<1>6. QED
  BY <1>1, <1>2, <1>3, <1>4, <1>5 DEF Orderly

\* Between any two steps of a venue, until somebody cancels, every order is where,
\* and as, its status says (Orderly), whatever is sent, parked, triggered and filled.
THEOREM VenueIsOrderly == Spec => [](Uncancelled => Orderly)
<1>1. Init => (Uncancelled => Orderly)
  BY InitOrderly, EngineAssumption
<1>2. Inv /\ (Uncancelled => Orderly) /\ [Next]_vars => (Uncancelled => Orderly)'
  <2> SUFFICES ASSUME Inv, Uncancelled => Orderly, [Next]_vars, Uncancelled'
               PROVE  Orderly'
    OBVIOUS
  <2>1. Uncancelled /\ NobodyCancels
    BY UncancelledBefore, EngineAssumption DEF Inv
  <2>2. QED
    BY <2>1, NextOrderly, EngineAssumption
<1>3. QED
  BY <1>1, <1>2, Invariance, PTL DEF Spec

\* Until somebody cancels, whenever the engine waits for an order, every order it
\* has handled is where its status says, and last reported as it is now.
THEOREM EveryOrderSettled == Spec => []Settled
<1>1. Inv /\ (Uncancelled => Orderly) => Settled
  <2> SUFFICES ASSUME Inv, Orderly, pc = "idle", NEW o \in Ids \ Queued, status[o] # "UNSENT"
               PROVE  InItsPlace(o)
    BY DEF Settled, InItsPlace, Told
  <2>1. cur = None /\ hit = None /\ o # None
    BY EngineAssumption DEF Inv, Control
  <2>2. o \notin batch
    BY DEF Orderly
  <2>3. QED
    BY <2>1, <2>2 DEF Orderly
<1>2. QED
  BY <1>1, VenueIsOrderly, Invariance, PTL

-----------------------------------------------------------------------------
(* Fill or kill *)

\* Nothing takes an order that was in the book anywhere else.
Booked(o) == status[o] # "UNSENT" /\ o \notin Queued \cup batch \cup stops /\ o # cur

\* What cancels have withdrawn of the orders the check of o counted.
Lost(o) == {p \in counted[o] : Withdrawn(p) /\ p \notin book}

\* An order that has not reached the matching loop has traded nothing.
TakersAreWhole ==
  /\ \A o \in Queued \cup batch \cup stops : Whole(o)
  /\ pc \in {"handle", "parked", "tellParked"} => Whole(cur)

\* What the loop skips in the book is exhausted or withdrawn by a cancel.
SkippedForAReason ==
  /\ \A o \in book : status[o] = "CANCELLED" => Withdrawn(o)
  /\ \A o \in Ids : status[o] = "FILLED" => rem[o] = 0

CountedAreBooked ==
  \A o \in Ids : IsFiniteSet(counted[o]) /\ \A p \in counted[o] : Booked(p)

\* A counted order is still to be traded with, or there is nothing left of it, or
\* a cancel has withdrawn it.
StillCounted(p) ==
  IF p \in book THEN p \in Resting(Opposite(order[cur].side))
                     /\ crosses(order[cur], order[p].price)
                ELSE rem[p] = 0 \/ Withdrawn(p)

\* A fill-or-kill order past its check wants no more than what is left of what the
\* check counted, and that is all it can trade with.
Covered ==
  /\ rem[cur] <= SumFunctionOnSet(rem, counted[cur])
  /\ \A p \in Resting(Opposite(order[cur].side)) :
       Alive(p) /\ crosses(order[cur], order[p].price) => p \in counted[cur]
  /\ \A p \in counted[cur] : StillCounted(p)

InLoop == pc \in {"match", "fill", "tellFill", "pop"}

\* Done with: whole, or short by no more than what cancels withdrew.
Excused(o) == Whole(o) \/ rem[o] <= SumFunctionOnSet(rem, Lost(o))

FokInv ==
  /\ IsFiniteSet(book)
  /\ TakersAreWhole /\ SkippedForAReason /\ CountedAreBooked
  /\ InLoop /\ order[cur].tif = "FOK" => Covered
  /\ \A o \in Ids : order[o].tif = "FOK" /\ o # cur => Excused(o)

\* Takers come whole from the clients and the stops map, and nothing fills them there.
LEMMA NextTakersAreWhole ==
  ASSUME EngineAssumption, Inv, TakersAreWhole, [Next]_vars
  PROVE  TakersAreWhole'
<1> USE DEF shared, loop, past, client
<1>0. TypeOK /\ Known /\ Control /\ OnePlace
  BY DEF Inv
<1>1. Queued \cup batch \cup stops \subseteq Ids
  BY <1>0, RangeType DEF Queued, TypeOK
<1>2. ASSUME NEW o \in Queued \cup batch \cup stops PROVE Whole(o)'
  <2>1. /\ o \in Ids /\ ~ Submit(o) /\ (~ Fill \/ o \notin {hit, cur})
    BY <1>0, <1>1 DEF Known, OnePlace, Control, Resting, Submit, Fill
  <2>2. QED
    BY <2>1, WholeStays DEF TakersAreWhole
<1>3. ASSUME NEW o \in Ids, Submit(o) PROVE Whole(o)'
  BY <1>0, <1>3 DEF Submit, TypeOK, Whole
<1>4. ASSUME pc \in {"handle", "parked", "tellParked"}, NEW o, o = cur PROVE Whole(o)'
  <2>1. o \in Ids /\ ~ Submit(o) /\ ~ Fill /\ Whole(o)
    BY <1>0, <1>4 DEF Control, Known, Submit, Fill, TypeOK, TakersAreWhole
  <2>2. QED
    BY <2>1, WholeStays
<1>5. \A o \in Queued' \cup batch' \cup stops' : o \in Ids
  <2>1. TypeOK'
    BY <1>0, NextType
  <2>2. QED
    BY <2>1, RangeType DEF Queued, TypeOK
<1>6. \A o \in Queued' \cup batch' \cup stops' : Whole(o)'
  <2>1. ASSUME NEW o \in Queued' \cup batch' \cup stops' PROVE Whole(o)'
    <3>1. o \in Queued \cup batch \cup stops \/ Submit(o) \/ (Park /\ o = cur)
      BY <1>5, <2>1, WhereTakersComeFrom DEF Ready
    <3>2. QED
      BY <1>2, <1>3, <1>4, <1>5, <2>1, <3>1 DEF Park
  <2>2. QED
    BY <2>1
<1>7. pc' \in {"handle", "parked", "tellParked"} => Whole(cur)'
  <2>1. SUFFICES ASSUME pc' \in {"handle", "parked", "tellParked"}, NEW o, o = cur'
                 PROVE  Whole(o)'
    BY DEF Whole
  <2>2. CASE Dequeue
    <3>1. o \in Queued
      BY <1>0, <2>1, <2>2, TailElements DEF Dequeue, Queued, TypeOK
    <3>2. QED
      BY <1>2, <3>1
  <2>3. CASE HandleTriggered
    BY <1>2, <2>1, <2>3 DEF HandleTriggered
  <2>4. CASE ~ Dequeue /\ ~ HandleTriggered
    <3>1. cur' = cur /\ pc \in {"handle", "parked", "tellParked"}
      BY <2>1, <2>4 DEF Next, vars, Match, Submit, Stop, CancelInBook,
         CancelNotInBook, CancelStep, CancelPendingStop, CancelNotFound, CancelMark,
         CancelTell, Exit, Reject, Park, MarkParked, TellParked, Kill, Enter,
         Sweep, Hit, Fill, TellFill, Pop, Finished, CancelRemainder, Rest, TellRest,
         TakeTriggered, Drained
    <3>2. QED
      BY <1>4, <2>1, <3>1
  <2>5. QED
    BY <2>2, <2>3, <2>4
<1>8. QED
  BY <1>6, <1>7 DEF TakersAreWhole

\* An acknowledged cancel stays one.
LEMMA AckedStays ==
  ASSUME EngineAssumption, Inv, [Next]_vars, NEW c \in Cancellers, cpc[c] = "acked"
  PROVE  cpc'[c] = "acked" /\ cid'[c] = cid[c]
<1>0. TypeOK
  BY DEF Inv
<1>1. QED
  BY <1>0 DEF Next, vars, shared, loop, past, client, Match, Submit, Stop, CancelInBook,
     CancelNotInBook, CancelStep, CancelPendingStop, CancelNotFound, CancelMark,
     CancelTell, Dequeue, Exit, Reject, Park, MarkParked, TellParked, Kill, Enter,
     Sweep, Hit, Fill, TellFill, Pop, Finished, CancelRemainder, Rest, TellRest,
     TakeTriggered, HandleTriggered, Drained, TypeOK

\* Only the fill that exhausts an order marks it FILLED.
LEMMA FilledIsExhausted ==
  ASSUME EngineAssumption, Inv, SkippedForAReason, [Next]_vars, NEW o \in Ids,
         status'[o] = "FILLED"
  PROVE  rem'[o] = 0
<1> USE DEF shared, loop, past, client
<1>0. TypeOK /\ Known /\ Control
  BY DEF Inv
<1>1. CASE Fill /\ o \in {hit, cur}
  BY <1>0, <1>1 DEF Fill, TypeOK
<1>2. CASE Submit(o)
  BY <1>0, <1>2 DEF Submit, TypeOK
<1>3. CASE ~ (Fill /\ o \in {hit, cur}) /\ ~ Submit(o)
  <2>1. rem'[o] = rem[o]
    BY <1>3, RemFrame
  <2>2. status[o] = "FILLED"
    <3>1. ASSUME NEW p \in Ids, Submit(p) PROVE status[o] = "FILLED"
      BY <1>0, <1>3, <3>1 DEF Submit, TypeOK
    <3>2. CASE \/ \E c \in Cancellers, p \in Ids : CancelInBook(c, p)
               \/ \E c \in Cancellers : CancelMark(c)
      BY <1>0, <3>2 DEF CancelInBook, CancelMark, Cancelled, TypeOK
    <3>3. CASE Reject \/ MarkParked \/ Kill \/ CancelRemainder \/ TakeTriggered
      BY <1>0, <3>3 DEF Reject, MarkParked, Kill, CancelRemainder, TakeTriggered, TypeOK
    <3>4. CASE Fill
      BY <1>0, <1>3, <3>4 DEF Fill, TypeOK
    <3>5. CASE \/ Stop \/ \E c \in Cancellers, p \in Ids : CancelNotInBook(c, p)
               \/ \E c \in Cancellers :
                    CancelPendingStop(c) \/ CancelNotFound(c) \/ CancelTell(c)
      BY <3>5 DEF Stop, CancelNotInBook, CancelPendingStop, CancelNotFound, CancelTell
    <3>6. CASE \/ Dequeue \/ Exit \/ Park \/ TellParked \/ Enter \/ Sweep \/ Hit
               \/ TellFill \/ Pop \/ Finished \/ Rest \/ TellRest \/ HandleTriggered
               \/ Drained \/ UNCHANGED vars
      BY <3>6 DEF Dequeue, Exit, Park, TellParked, Enter, Sweep, Hit, TellFill, Pop,
         Finished, Rest, TellRest, HandleTriggered, Drained, vars
    <3>7. QED
      BY <3>1, <3>2, <3>3, <3>4, <3>5, <3>6 DEF Next, Match, CancelStep
  <2>3. QED
    BY <2>1, <2>2 DEF SkippedForAReason
<1>4. QED
  BY <1>1, <1>2, <1>3

\* In the book, only a cancel request cancels.
LEMMA NextSkippedForAReason ==
  ASSUME EngineAssumption, Inv, CancelsHold, SkippedForAReason, [Next]_vars
  PROVE  SkippedForAReason'
<1> USE DEF shared, loop, past, client
<1>0. TypeOK /\ Known /\ Control /\ OnePlace
  BY DEF Inv
<1>1. ASSUME NEW o \in book', status'[o] = "CANCELLED" PROVE Withdrawn(o)'
  <2>1. o \in book
    <3>1. CASE Rest
      <4>1. o # cur
        BY <1>1, <3>1 DEF Rest
      <4>2. QED
        BY <1>1, <3>1, <4>1 DEF Rest
    <3>2. CASE ~ Rest
      BY <1>0, <3>2, BookGrowth
    <3>3. QED
      BY <3>1, <3>2
  <2>2. o \in Ids
    BY <1>0, <2>1 DEF TypeOK
  <2>3. CASE status[o] = "CANCELLED"
    BY <1>1, <2>1, <2>3, AckedStays DEF SkippedForAReason, Withdrawn
  <2>4. CASE status[o] # "CANCELLED"
    <3>1. CASE \E c \in Cancellers : CancelInBook(c, o)
      BY <1>0, <1>1, <3>1 DEF CancelInBook, Withdrawn, TypeOK
    <3>2. ASSUME NEW c \in Cancellers, CancelMark(c), o = cid[c] PROVE FALSE
      BY <2>1, <2>4, <3>2 DEF CancelMark, CancelsHold, Gone
    <3>3. CASE (Kill \/ CancelRemainder) /\ o = cur
      BY <1>0, <2>1, <3>3 DEF Kill, CancelRemainder, OnePlace
    <3>4. QED
      BY <1>1, <2>2, <2>4, <3>1, <3>2, <3>3, WhoCancels
  <2>5. QED
    BY <2>3, <2>4
<1>2. QED
  BY <1>1, FilledIsExhausted DEF SkippedForAReason

\* What was in the book is never a taker again.
LEMMA BookedStays ==
  ASSUME EngineAssumption, Inv, [Next]_vars, NEW o \in Ids, Booked(o)
  PROVE  Booked(o)'
<1> USE DEF shared, loop, past, client
<1>0. TypeOK /\ Known /\ Control /\ None \notin Ids
  BY DEF Inv, EngineAssumption
<1>1. ~ Submit(o)
  BY DEF Booked, Submit
<1>2. status'[o] # "UNSENT"
  <2>1. CASE \E p \in Ids : Submit(p)
    BY <1>0, <1>1, <2>1 DEF Submit, TypeOK, Booked
  <2>2. CASE Fill
    BY <1>0, <2>2 DEF Fill, TypeOK, Booked
  <2>3. CASE ~ Fill /\ ~ \E p \in Ids : Submit(p)
    BY <2>3, SettlingFrame DEF Booked
  <2>4. QED
    BY <2>1, <2>2, <2>3
<1>3. o \notin Queued' \cup batch' \cup stops'
  BY <1>1, WhereTakersComeFrom DEF Booked, Ready
<1>4. o # cur'
  <2>1. CASE Dequeue
    BY <1>0, <2>1, TailElements DEF Dequeue, Queued, TypeOK, Booked
  <2>2. CASE HandleTriggered
    BY <2>2 DEF HandleTriggered, Booked
  <2>3. CASE ~ Dequeue /\ ~ HandleTriggered
    <3>1. cur' \in {cur, None}
      BY <2>3 DEF Next, vars, Match, Submit, Stop, CancelInBook,
         CancelNotInBook, CancelStep, CancelPendingStop, CancelNotFound, CancelMark,
         CancelTell, Exit, Reject, Park, MarkParked, TellParked, Kill, Enter,
         Sweep, Hit, Fill, TellFill, Pop, Finished, CancelRemainder, Rest, TellRest,
         TakeTriggered, Drained
    <3>2. QED
      BY <1>0, <3>1 DEF Booked
  <2>4. QED
    BY <2>1, <2>2, <2>3
<1>5. QED
  BY <1>2, <1>3, <1>4 DEF Booked

\* What a check counts is in the book.
LEMMA NextCountedAreBooked ==
  ASSUME EngineAssumption, Inv, IsFiniteSet(book), CountedAreBooked, [Next]_vars
  PROVE  CountedAreBooked'
<1>0. TypeOK /\ Known /\ Control /\ OnePlace
  BY DEF Inv
<1>1. SUFFICES ASSUME NEW o \in Ids
               PROVE  IsFiniteSet(counted'[o]) /\ \A p \in counted'[o] : Booked(p)'
  BY DEF CountedAreBooked
<1>2. CASE counted'[o] = counted[o]
  <2>1. counted[o] \subseteq Ids
    BY <1>0 DEF TypeOK
  <2>2. QED
    BY <1>2, <2>1, BookedStays DEF CountedAreBooked
<1>3. CASE counted'[o] # counted[o]
  <2>1. Enter
    BY <1>3 DEF Next, vars, past, Match, Submit, Stop, CancelInBook,
       CancelNotInBook, CancelStep, CancelPendingStop, CancelNotFound, CancelMark,
       CancelTell, Dequeue, Exit, Reject, Park, MarkParked, TellParked, Kill,
       Sweep, Hit, Fill, TellFill, Pop, Finished, CancelRemainder, Rest, TellRest,
       TakeTriggered, HandleTriggered, Drained
  <2>2. counted'[o] = Facers(Incoming)
    BY <1>0, <1>3, <2>1 DEF Enter, TypeOK
  <2>3. Facers(Incoming) \subseteq book /\ book \subseteq Ids
    BY <1>0 DEF Facers, Resting, TypeOK
  <2>4. \A p \in book : Booked(p)
    BY <1>0, <2>1 DEF Enter, Known, OnePlace, Booked
  <2>5. QED
    BY <2>2, <2>3, <2>4, BookedStays, FS_Subset
<1>4. QED
  BY <1>2, <1>3

\* What has left the book never comes back, and keeps what it has left; if a
\* cancel has withdrawn it, it stays withdrawn.
LEMMA LeftStays ==
  ASSUME EngineAssumption, Inv, [Next]_vars, NEW o \in Ids, Booked(o), o \notin book
  PROVE  /\ o \notin book' /\ rem'[o] = rem[o]
         /\ Withdrawn(o) => Withdrawn(o)'
<1> USE DEF shared, loop, past, client
<1>0. TypeOK /\ Known /\ Control /\ OnePlace
  BY DEF Inv
<1>1. o # cur /\ ~ Submit(o)
  BY DEF Booked, Submit
<1>2. o \notin book'
  <2>1. CASE Rest
    BY <1>1, <2>1 DEF Rest
  <2>2. CASE ~ Rest
    BY <1>0, <2>2, BookGrowth
  <2>3. QED
    BY <2>1, <2>2
<1>3. pc \in {"fill", "tellFill", "pop"} => o # hit
  BY <1>0 DEF Control, Resting
<1>4. rem'[o] = rem[o]
  BY <1>1, <1>3, RemFrame DEF Fill
<1>5. ASSUME status[o] = "CANCELLED" PROVE status'[o] = "CANCELLED"
  <2>1. CASE \E p \in Ids : Submit(p)
    BY <1>0, <1>1, <1>5, <2>1 DEF Submit, TypeOK
  <2>2. CASE \/ \E c \in Cancellers, p \in Ids : CancelInBook(c, p)
             \/ \E c \in Cancellers : CancelMark(c)
    BY <1>0, <1>1, <1>3, <1>5, <2>2 DEF CancelInBook, CancelMark, Cancelled, TypeOK
  <2>3. CASE Reject \/ MarkParked \/ Kill \/ CancelRemainder
    BY <1>0, <1>1, <1>5, <2>3 DEF Reject, MarkParked, Kill, CancelRemainder, TypeOK
  <2>4. CASE Fill
    BY <1>0, <1>1, <1>3, <1>5, <2>4 DEF Fill, TypeOK
  <2>5. CASE TakeTriggered
    BY <1>0, <1>5, <2>5 DEF TakeTriggered, Ready, Booked, TypeOK
  <2>6. CASE \/ Stop \/ \E c \in Cancellers, p \in Ids : CancelNotInBook(c, p)
             \/ \E c \in Cancellers :
                  CancelPendingStop(c) \/ CancelNotFound(c) \/ CancelTell(c)
    BY <1>5, <2>6 DEF Stop, CancelNotInBook, CancelPendingStop, CancelNotFound, CancelTell
  <2>7. CASE \/ Dequeue \/ Exit \/ Park \/ TellParked \/ Enter \/ Sweep \/ Hit
             \/ TellFill \/ Pop \/ Finished \/ Rest \/ TellRest \/ HandleTriggered
             \/ Drained \/ UNCHANGED vars
    BY <1>5, <2>7 DEF Dequeue, Exit, Park, TellParked, Enter, Sweep, Hit, TellFill, Pop,
       Finished, Rest, TellRest, HandleTriggered, Drained, vars
  <2>8. QED
    BY <2>1, <2>2, <2>3, <2>4, <2>5, <2>6, <2>7 DEF Next, Match, CancelStep
<1>6. Withdrawn(o) => Withdrawn(o)'
  BY <1>5, AckedStays DEF Withdrawn
<1>7. QED
  BY <1>2, <1>4, <1>6

\* Liquidity is a finite sum of naturals.
LEMMA LiquidityType ==
  ASSUME TypeOK, IsFiniteSet(book), NEW r
  PROVE  IsFiniteSet(Facers(r)) /\ LiquidityAgainst(r) \in Nat
         /\ LiquidityAgainst(r) = SumFunctionOnSet(rem, Facers(r))
<1>1. IsFiniteSet(Facers(r))
  BY FS_Subset DEF Facers, Resting
<1>2. \A o \in Facers(r) : rem[o] \in Nat
  BY DEF Facers, Resting, TypeOK
<1>3. LiquidityAgainst(r) = SumFunctionOnSet(rem, Facers(r))
  BY DEF LiquidityAgainst, Facers
<1>4. SumFunctionOnSet(rem, Facers(r)) \in Nat
  BY <1>1, <1>2, SumOfNats
<1>5. QED
  BY <1>1, <1>3, <1>4

\* The records of the checks: each is made once, as the loop is entered.
LEMMA CountedFrame ==
  ASSUME EngineAssumption, Inv, [Next]_vars, NEW o \in Ids
  PROVE  \/ counted'[o] = counted[o]
         \/ Enter /\ o = cur /\ counted'[o] = Facers(Incoming)
<1>0. TypeOK
  BY DEF Inv
<1>1. CASE Enter
  BY <1>0, <1>1 DEF Enter, TypeOK
<1>2. CASE ~ Enter
  BY <1>2 DEF Next, vars, past, Match, Submit, Stop, CancelInBook, CancelNotInBook,
     CancelStep, CancelPendingStop, CancelNotFound, CancelMark, CancelTell, Dequeue, Exit,
     Reject, Park, MarkParked, TellParked, Kill, Sweep, Hit, Fill, TellFill, Pop, Finished,
     CancelRemainder, Rest, TellRest, TakeTriggered, HandleTriggered, Drained
<1>3. QED
  BY <1>1, <1>2

\* What cancels have withdrawn of the counted orders only grows.
LEMMA LostGrows ==
  ASSUME EngineAssumption, Inv, CountedAreBooked, [Next]_vars, NEW o \in Ids,
         counted'[o] = counted[o]
  PROVE  /\ SumFunctionOnSet(rem, Lost(o)) \in Nat
         /\ SumFunctionOnSet(rem', Lost(o)') \in Nat
         /\ SumFunctionOnSet(rem, Lost(o)) <= SumFunctionOnSet(rem', Lost(o)')
<1> DEFINE L == Lost(o)
           M == {p \in counted[o] : Withdrawn(p)' /\ p \notin book'}
<1>0. TypeOK /\ TypeOK'
  BY NextType DEF Inv
<1>1. M = Lost(o)'
  BY DEF Lost
<1>2. /\ IsFiniteSet(counted[o]) /\ counted[o] \subseteq Ids
      /\ \A p \in counted[o] : Booked(p)
  BY <1>0 DEF CountedAreBooked, TypeOK
<1>3. \A p \in L : p \in M /\ rem'[p] = rem[p]
  BY <1>2, LeftStays DEF Lost
<1>4. L \subseteq counted[o] /\ M \subseteq counted[o] /\ L \in SUBSET M
  BY <1>3 DEF Lost
<1>5. IsFiniteSet(L) /\ IsFiniteSet(M)
  BY <1>2, <1>4, FS_Subset
<1>6. \A p \in counted[o] : rem[p] \in Nat /\ rem'[p] \in Nat
  BY <1>0, <1>2 DEF TypeOK
<1>7. (\A p \in L : rem[p] \in Nat) /\ (\A p \in M : rem'[p] \in Nat)
  BY <1>4, <1>6
<1> HIDE DEF L, M
<1>8. SumFunctionOnSet(rem, L) = SumFunctionOnSet(rem', L)
  BY <1>3, <1>5, SumLooksAt
<1>9. SumFunctionOnSet(rem', L) <= SumFunctionOnSet(rem', M)
  BY <1>4, <1>5, <1>7, SumOfPart
<1>10. SumFunctionOnSet(rem, L) \in Nat /\ SumFunctionOnSet(rem', M) \in Nat
  BY <1>5, <1>7, SumOfNats
<1>11. QED
  BY <1>1, <1>8, <1>9, <1>10 DEF L

\* When the loop ends unfilled, nobody in the book can be traded with.
LEMMA NobodyLeft ==
  ASSUME Inv, pc = "match", Exhausted,
         NEW p \in Resting(Opposite(order[cur].side)), crosses(order[cur], order[p].price)
  PROVE  FALSE
<1>0. TypeOK /\ Control
  BY DEF Inv
<1>1. PICK best \in Facing : ~ crosses(order[cur], order[best].price)
  BY DEF Exhausted
<1>2. /\ best \in Ids /\ p \in Ids /\ cur \in Ids
      /\ order[best].side = Opposite(order[cur].side)
      /\ order[p].side = Opposite(order[cur].side)
      /\ ~ Better(order[p], order[best])
  BY <1>0, <1>1 DEF Facing, Tops, Resting, TypeOK, Control
<1>3. /\ order[best].price \in Nat /\ order[p].price \in Nat
      /\ order[cur].price \in Nat /\ order[cur].side \in Sides
  BY <1>0, <1>2 DEF TypeOK, Request, Control, isValid
<1>4. CASE order[cur].side = "BUY"
  BY <1>1, <1>2, <1>3, <1>4 DEF crosses, Better, Opposite
<1>5. CASE order[cur].side = "SELL"
  BY <1>1, <1>2, <1>3, <1>5 DEF crosses, Better, Opposite
<1>6. QED
  BY <1>3, <1>4, <1>5 DEF Sides

\* So an order that leaves the loop unfilled is short of what was withdrawn.
LEMMA ShortOfLost ==
  ASSUME EngineAssumption, Inv, FokInv, pc = "match", Exhausted, order[cur].tif = "FOK"
  PROVE  rem[cur] <= SumFunctionOnSet(rem, Lost(cur))
<1> DEFINE C == counted[cur]
           L == Lost(cur)
<1>0. TypeOK /\ Control /\ Covered
  BY DEF Inv, FokInv, InLoop
<1>1. cur \in Ids /\ IsFiniteSet(C) /\ C \subseteq Ids
  <2>1. cur \in Ids
    BY <1>0 DEF TypeOK, Control
  <2>2. IsFiniteSet(C)
    BY <2>1 DEF FokInv, CountedAreBooked
  <2>3. QED
    BY <1>0, <2>1, <2>2 DEF TypeOK
<1>2. \A p \in C : p \notin book
  BY <1>0, NobodyLeft DEF Covered, StillCounted
<1>3. \A p \in C \ L : rem[p] = 0
  BY <1>0, <1>2 DEF Covered, StillCounted, Lost
<1>4. L \in SUBSET C /\ \A p \in C : rem[p] \in Int
  BY <1>0, <1>1 DEF Lost, TypeOK
<1>5. rem[cur] <= SumFunctionOnSet(rem, C)
  BY <1>0 DEF Covered
<1> HIDE DEF C, L
<1>6. SumFunctionOnSet(rem, C) = SumFunctionOnSet(rem, L)
  BY <1>1, <1>3, <1>4, SumSkipsZeros
<1>7. QED
  BY <1>5, <1>6 DEF L

\* A fill-or-kill order leaves the loop filled, or short of what cancels withdrew,
\* and nothing trades it afterwards.
LEMMA NextExcused ==
  ASSUME EngineAssumption, Inv, FokInv, [Next]_vars,
         NEW o \in Ids, order'[o].tif = "FOK", o # cur'
  PROVE  Excused(o)'
<1> USE DEF shared, loop, past, client
<1>0. /\ TypeOK /\ Known /\ Control /\ OnePlace /\ BookHoldsRestable /\ None \notin Ids
      /\ TakersAreWhole /\ CountedAreBooked
  BY DEF Inv, FokInv, EngineAssumption
<1>1. CASE Submit(o)
  BY <1>0, <1>1 DEF Submit, TypeOK, Excused, Whole
<1>2. CASE ~ Submit(o)
  <2>1. order[o].tif = "FOK" /\ order'[o].qty = order[o].qty
    BY <1>2, QtyFixed
  <2>2. o \notin book
    BY <1>0, <2>1 DEF BookHoldsRestable
  <2>3. counted'[o] = counted[o]
    BY CountedFrame DEF Enter
  <2>4. /\ SumFunctionOnSet(rem, Lost(o)) \in Nat
        /\ SumFunctionOnSet(rem', Lost(o)') \in Nat
        /\ SumFunctionOnSet(rem, Lost(o)) <= SumFunctionOnSet(rem', Lost(o)')
    BY <1>0, <2>3, LostGrows
  <2>5. ~ Fill \/ o \notin {hit, cur}
    BY <1>0, <2>2 DEF Fill, Control, Resting
  <2>6. rem'[o] = rem[o] /\ rem[o] \in Nat
    BY <1>0, <1>2, <2>5, RemFrame DEF TypeOK
  <2>7. ASSUME Excused(o) PROVE Excused(o)'
    <3>1. CASE Whole(o)
      BY <2>1, <2>6, <3>1 DEF Whole, Excused
    <3>2. CASE rem[o] <= SumFunctionOnSet(rem, Lost(o))
      <4>1. rem'[o] <= SumFunctionOnSet(rem', Lost(o)')
        BY <2>4, <2>6, <3>2
      <4>2. QED
        BY <4>1 DEF Excused
    <3>3. QED
      BY <2>7, <3>1, <3>2 DEF Excused
  <2>8. CASE o # cur
    BY <2>1, <2>7, <2>8 DEF FokInv
  <2>9. CASE o = cur
    <3>1. CASE Reject \/ Kill \/ TellParked
      BY <1>0, <2>7, <2>9, <3>1 DEF Reject, Kill, TellParked, TakersAreWhole, Excused
    <3>2. CASE rem[o] = 0
      BY <2>4, <2>6, <2>7, <3>2 DEF Excused
    <3>3. CASE Finished /\ rem[o] # 0
      BY <2>1, <2>9, <3>3 DEF Finished, canRest
    <3>4. CASE CancelRemainder
      BY <2>1, <2>7, <2>9, <3>4, ShortOfLost DEF CancelRemainder, Excused
    <3>5. CASE TellRest
      BY <1>0, <2>2, <2>9, <3>5 DEF TellRest, Control
    <3>6. CASE ~ Reject /\ ~ Kill /\ ~ TellParked /\ ~ Finished /\ ~ CancelRemainder
               /\ ~ TellRest
      <4>1. ~ Dequeue /\ ~ HandleTriggered
        BY <1>0, <2>9 DEF Dequeue, HandleTriggered, Control
      <4>2. cur' = cur
        BY <3>6, <4>1 DEF Next, vars, Match, Submit, Stop, CancelInBook, CancelNotInBook,
           CancelStep, CancelPendingStop, CancelNotFound, CancelMark, CancelTell, Exit,
           Park, MarkParked, Enter, Sweep, Hit, Fill, TellFill, Pop, Rest, TakeTriggered,
           Drained
      <4>3. QED
        BY <2>9, <4>2
    <3>7. QED
      BY <3>1, <3>2, <3>3, <3>4, <3>5, <3>6
  <2>10. QED
    BY <2>8, <2>9
<1>3. QED
  BY <1>1, <1>2

\* As the loop is entered, the check has counted enough.
LEMMA EnterCovers ==
  ASSUME EngineAssumption, Inv, FokInv, Enter, order'[cur'].tif = "FOK"
  PROVE  Covered'
<1> USE DEF shared, loop, past, client
<1>0. TypeOK /\ Control /\ Next /\ [Next]_vars
  BY DEF Inv, Next, Match
<1>1. PICK r : r = Incoming
  OBVIOUS
<1>2. /\ cur \in Ids /\ cur' = cur /\ order'[cur] = r /\ r.tif = "FOK"
      /\ UNCHANGED <<rem, status, book, hit>> /\ pc' = "match"
  BY <1>0, <1>1 DEF Enter, Control, TypeOK
<1>3. counted'[cur] = Facers(r)
  BY <1>0, <1>1, <1>2 DEF Enter, TypeOK
<1>4. \A p \in book : order'[p] = order[p]
  BY <1>0, BookFrame
<1>5. rem'[cur] <= SumFunctionOnSet(rem', counted'[cur])
  <2>1. ~ (LiquidityAgainst(r) < rem[cur])
    BY <1>1, <1>2 DEF Enter, Unfillable
  <2>2. LiquidityAgainst(r) \in Nat /\ rem[cur] \in Nat
    BY <1>0, <1>2, LiquidityType DEF TypeOK, FokInv
  <2>3. rem[cur] <= SumFunctionOnSet(rem, Facers(r))
    BY <2>1, <2>2 DEF LiquidityAgainst
  <2>4. QED
    BY <1>2, <1>3, <2>3
<1>6. ASSUME NEW p \in Resting(Opposite(order[cur].side))',
             Alive(p)', crosses(order'[cur], order'[p].price)
      PROVE  p \in counted'[cur]
  <2>1. p \in Resting(Opposite(r.side)) /\ crosses(r, order[p].price)
    BY <1>2, <1>4, <1>6 DEF Resting
  <2>2. Live(p)
    BY <1>2, <1>6 DEF Alive, Live
  <2>3. QED
    BY <1>3, <2>1, <2>2 DEF Facers
<1>7. ASSUME NEW p \in counted'[cur] PROVE StillCounted(p)'
  <2>1. p \in Resting(Opposite(r.side)) /\ crosses(r, order[p].price) /\ p \in book
    BY <1>3, <1>7 DEF Facers, Resting
  <2>2. p \in book' /\ order'[p] = order[p] /\ order'[p].side = Opposite(r.side)
    BY <1>2, <1>4, <2>1 DEF Resting
  <2>3. QED
    BY <1>2, <2>1, <2>2 DEF StillCounted, Resting
<1>8. QED
  BY <1>2, <1>5, <1>6, <1>7 DEF Covered

\* A fill takes as much off the counted orders as off the order.
LEMMA FillTakesBoth ==
  ASSUME EngineAssumption, Inv, FokInv, Covered, Fill, NEW x, x = cur
  PROVE  rem'[x] <= SumFunctionOnSet(rem', counted[x])
<1> DEFINE C == counted[x]
<1>0. TypeOK /\ Control /\ OnePlace /\ CountedAreBooked
  BY DEF Inv, FokInv
<1>1. /\ x \in Ids /\ hit \in Ids /\ hit # x /\ rem[hit] > 0
      /\ hit \in Resting(Opposite(order[x].side)) /\ crosses(order[x], order[hit].price)
  BY <1>0 DEF Fill, Control, Resting, TypeOK, OnePlace
<1>2. hit \in C
  BY <1>0, <1>1 DEF Fill, Alive, Covered
<1>3. IsFiniteSet(C) /\ C \subseteq Ids /\ x \notin C
  BY <1>0, <1>1 DEF CountedAreBooked, Booked, TypeOK
<1>4. PICK q : q = FillQty
  OBVIOUS
<1>5. /\ q \in Nat /\ rem[x] \in Nat /\ rem[hit] \in Nat
      /\ rem[hit] - q \in Nat /\ rem[x] - q \in Nat
      /\ rem' = [rem EXCEPT ![hit] = rem[hit] - q, ![x] = rem[x] - q]
  <2>1. q \in Nat /\ rem[hit] - q \in Nat /\ rem[x] - q \in Nat
    BY <1>0, <1>1, <1>4 DEF FillQty, TypeOK
  <2>2. rem' = [rem EXCEPT ![hit] = rem[hit] - q, ![x] = rem[x] - q]
    BY <1>4 DEF Fill
  <2>3. QED
    BY <1>0, <1>1, <2>1, <2>2 DEF TypeOK
<1>6. /\ rem'[hit] = rem[hit] - q /\ rem'[x] = rem[x] - q
      /\ \A p \in C : rem[p] \in Int /\ rem'[p] \in Int
      /\ \A p \in C \ {hit} : rem[p] = rem'[p]
  BY <1>0, <1>1, <1>3, <1>5 DEF TypeOK
<1>7. rem[x] <= SumFunctionOnSet(rem, C)
  BY DEF Covered
<1> HIDE DEF C
<1>8. SumFunctionOnSet(rem', C) = SumFunctionOnSet(rem, C) + rem'[hit] - rem[hit]
  BY <1>2, <1>3, <1>6, SumChanges
<1>9. SumFunctionOnSet(rem, C) \in Int
  BY <1>3, <1>6, SumType
<1>10. rem'[x] <= SumFunctionOnSet(rem', C)
  BY <1>5, <1>6, <1>7, <1>8, <1>9
<1>11. QED
  BY <1>10 DEF C

\* An order leaves the book exhausted or withdrawn.
LEMMA LeavesForAReason ==
  ASSUME EngineAssumption, Inv, SkippedForAReason, [Next]_vars, NEW o \in book, o \notin book'
  PROVE  rem'[o] = 0 \/ Withdrawn(o)'
<1> USE DEF shared, loop, past, client
<1>0. TypeOK /\ Control /\ BookHoldsRestable /\ o \in Ids /\ None \notin Ids
  BY DEF Inv, TypeOK, EngineAssumption
<1>1. CASE Sweep
  <2>1. ~ Live(o) /\ UNCHANGED <<status, rem, cpc, cid>>
    BY <1>1 DEF Sweep
  <2>2. rem[o] > 0
    BY <1>0, <1>1 DEF Sweep, BookHoldsRestable
  <2>3. status[o] = "CANCELLED"
    BY <1>0, <2>1, <2>2 DEF Live, SkippedForAReason
  <2>4. QED
    BY <2>1, <2>3 DEF SkippedForAReason, Withdrawn
<1>2. CASE Pop
  BY <1>2 DEF Pop
<1>3. CASE ~ Sweep /\ ~ Pop
  BY <1>3 DEF Next, vars, Match, Submit, Stop, CancelInBook, CancelNotInBook,
     CancelStep, CancelPendingStop, CancelNotFound, CancelMark, CancelTell, Dequeue, Exit,
     Reject, Park, MarkParked, TellParked, Kill, Enter, Hit, Fill, TellFill, Finished,
     CancelRemainder, Rest, TellRest, TakeTriggered, HandleTriggered, Drained
<1>4. QED
  BY <1>1, <1>2, <1>3

\* What the check counted covers the order until it leaves the loop.
LEMMA NextCovered ==
  ASSUME EngineAssumption, Inv, FokInv, [Next]_vars, InLoop', order'[cur'].tif = "FOK"
  PROVE  Covered'
<1> USE DEF shared, loop, past, client
<1>0. /\ TypeOK /\ Known /\ Control /\ OnePlace /\ CountedAreBooked /\ SkippedForAReason
  BY DEF Inv, FokInv
<1>1. CASE Enter
  BY <1>1, EnterCovers
<1>2. CASE ~ Enter
  <2>1. InLoop /\ cur' = cur /\ ~ Rest /\ ~ TakeTriggered /\ pc # "handle"
    BY <1>2 DEF InLoop, Next, vars, Match, Submit, Stop, CancelInBook, CancelNotInBook,
       CancelStep, CancelPendingStop, CancelNotFound, CancelMark, CancelTell, Dequeue,
       Exit, Reject, Park, MarkParked, TellParked, Kill, Sweep, Hit, Fill, TellFill, Pop,
       Finished, CancelRemainder, Rest, TellRest, TakeTriggered, HandleTriggered, Drained
  <2>2. PICK x : x = cur
    OBVIOUS
  <2>3. x \in Ids /\ ~ Submit(x)
    BY <1>0, <2>1, <2>2 DEF InLoop, Control, Known, TypeOK, Submit
  <2>4. order'[x] = order[x] /\ counted'[x] = counted[x]
    <3>1. order'[x] = order[x]
      BY <2>1, <2>3, OrderFrame
    <3>2. QED
      BY <1>2, <2>3, <3>1, CountedFrame
  <2>5. Covered
    BY <2>1, <2>2, <2>4 DEF FokInv
  <2>6. counted[x] \subseteq Ids /\ \A p \in counted[x] : Booked(p)
    BY <1>0, <2>3 DEF CountedAreBooked, TypeOK
  <2>7. rem'[x] <= SumFunctionOnSet(rem', counted[x])
    <3>1. CASE Fill
      BY <2>2, <2>5, <3>1, FillTakesBoth
    <3>2. CASE ~ Fill
      <4>1. rem'[x] = rem[x]
        BY <2>3, <3>2, RemFrame
      <4>2. \A p \in counted[x] : rem[p] = rem'[p]
        BY <2>6, <3>2, RemFrame DEF Booked, Submit
      <4>3. SumFunctionOnSet(rem, counted[x]) = SumFunctionOnSet(rem', counted[x])
        BY <1>0, <2>3, <4>2, SumLooksAt DEF CountedAreBooked
      <4>4. QED
        BY <2>2, <2>5, <4>1, <4>3 DEF Covered
    <3>3. QED
      BY <3>1, <3>2
  <2>8. \A p \in book' : p \in book /\ order'[p] = order[p]
    BY <1>0, <2>1, BookGrowth, BookFrame
  <2>9. ASSUME NEW p \in Resting(Opposite(order[x].side))',
               Alive(p)', crosses(order'[x], order'[p].price)
        PROVE  p \in counted[x]
    <3>1. p \in book' /\ p \in book /\ order'[p] = order[p]
      BY <2>8, <2>9 DEF Resting
    <3>2. Alive(p)
      BY <2>1, <2>9, <3>1, NoneRevived
    <3>3. p \in Resting(Opposite(order[x].side)) /\ crosses(order[x], order[p].price)
      BY <2>4, <2>9, <3>1 DEF Resting
    <3>4. QED
      BY <2>2, <2>5, <3>2, <3>3 DEF Covered
  <2>10. ASSUME NEW p \in counted[x] PROVE StillCounted(p)'
    <3>1. StillCounted(p) /\ p \in Ids /\ Booked(p)
      BY <2>2, <2>5, <2>6 DEF Covered
    <3>2. CASE p \in book'
      BY <2>1, <2>2, <2>4, <2>8, <3>1, <3>2 DEF StillCounted, Resting
    <3>3. CASE p \notin book' /\ p \in book
      BY <1>0, <3>3, LeavesForAReason DEF StillCounted
    <3>4. CASE p \notin book' /\ p \notin book
      BY <3>1, <3>4, LeftStays DEF StillCounted
    <3>5. QED
      BY <3>2, <3>3, <3>4
  <2>11. QED
    BY <2>1, <2>2, <2>4, <2>7, <2>9, <2>10 DEF Covered
<1>3. QED
  BY <1>1, <1>2

\* Every step keeps the account of every fill-or-kill order.
LEMMA NextFokInv ==
  ASSUME EngineAssumption, Inv, CancelsHold, FokInv, [Next]_vars
  PROVE  FokInv'
<1>1. IsFiniteSet(book')
  <2>1. CASE Rest
    BY <2>1, FS_AddElement DEF Rest, FokInv
  <2>2. CASE ~ Rest
    BY <2>2, BookGrowth, FS_Subset DEF FokInv
  <2>3. QED
    BY <2>1, <2>2
<1>2. TakersAreWhole' /\ SkippedForAReason' /\ CountedAreBooked'
  BY NextTakersAreWhole, NextSkippedForAReason, NextCountedAreBooked DEF FokInv
<1>3. InLoop' /\ order'[cur'].tif = "FOK" => Covered'
  BY NextCovered
<1>4. \A o \in Ids : order'[o].tif = "FOK" /\ o # cur' => Excused(o)'
  BY NextExcused
<1>5. QED
  BY <1>1, <1>2, <1>3, <1>4 DEF FokInv

\* The fill-or-kill branch of processOrder and hasFullLiquidity, against cancels that
\* come between the check and the fills: a fill-or-kill order, parked stops included,
\* trades none of its quantity, or all of it but what acknowledged cancels have
\* withdrawn from the very orders its check counted.
THEOREM FillOrKill == Spec => []FokAllOrNothing
<1>1. Init => FokInv
  <2> SUFFICES ASSUME Init PROVE FokInv
    OBVIOUS
  <2>1. Queued = {} /\ IsFiniteSet({})
    BY FS_EmptySet DEF Init, Queued, Range
  <2>2. QED
    BY <2>1 DEF Init, FokInv, TakersAreWhole, SkippedForAReason, CountedAreBooked, InLoop,
       Blank
<1>2. Inv /\ CancelsHold /\ FokInv /\ [Next]_vars => FokInv'
  BY NextFokInv, EngineAssumption
<1>3. Inv /\ FokInv => FokAllOrNothing
  <2> SUFFICES ASSUME Inv, FokInv, NEW o \in Ids, order[o].tif = "FOK", o # cur,
                      ~ Whole(o)
               PROVE  rem[o] <= SumFunctionOnSet(rem, {p \in counted[o] : Withdrawn(p)})
    BY DEF FokAllOrNothing, Whole
  <2> DEFINE W == {p \in counted[o] : Withdrawn(p)}
             L == Lost(o)
  <2>1. rem[o] <= SumFunctionOnSet(rem, L)
    BY DEF FokInv, Excused
  <2>2. W \subseteq counted[o] /\ counted[o] \subseteq Ids /\ IsFiniteSet(counted[o])
    BY DEF FokInv, CountedAreBooked, Inv, TypeOK
  <2>3. IsFiniteSet(W) /\ L \in SUBSET W
    BY <2>2, FS_Subset DEF Lost
  <2>4. \A p \in W : rem[p] \in Nat
    BY <2>2 DEF Inv, TypeOK
  <2>5. rem[o] \in Nat
    BY DEF Inv, TypeOK
  <2> HIDE DEF W, L
  <2>6. IsFiniteSet(L) /\ \A p \in L : rem[p] \in Nat
    BY <2>3, <2>4, FS_Subset
  <2>7. SumFunctionOnSet(rem, L) <= SumFunctionOnSet(rem, W)
    BY <2>3, <2>4, SumOfPart
  <2>8. SumFunctionOnSet(rem, L) \in Nat /\ SumFunctionOnSet(rem, W) \in Nat
    BY <2>3, <2>4, <2>6, SumOfNats
  <2>9. rem[o] <= SumFunctionOnSet(rem, W)
    BY <2>1, <2>5, <2>7, <2>8
  <2>10. QED
    BY <2>9 DEF W
<1>4. QED
  BY <1>1, <1>2, <1>3, Invariance, CancelledIsGone, PTL DEF Spec

=============================================================================
