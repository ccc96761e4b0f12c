---------------------------- MODULE TicketProofs ----------------------------
(***************************************************************************)
(* Proofs about the order ticket, for any texts its inputs may hold, any   *)
(* quotes, accounts and presets and any number of submissions.             *)
(***************************************************************************)
EXTENDS Ticket, TLAPS, FiniteSetTheorems, SequenceTheorems

-----------------------------------------------------------------------------
(* The inductive invariant *)

\* A ticket is a record of its six fields, and a market order is not GTC.
Shape(t) ==
  /\ t = [side |-> t.side, type |-> t.type, tif |-> t.tif,
          price |-> t.price, stop |-> t.stop, size |-> t.size]
  /\ t.side \in {"BUY", "SELL"} /\ t.type \in {"LIMIT", "MARKET", "STOP"}
  /\ t.tif \in {"GTC", "IOC", "FOK"}

Sound(t) == Shape(t) /\ (t.type = "MARKET" => t.tif # "GTC")

Post == [n : Nat, passes : {TRUE}, phase : {"sent", "accepted", "refused"}]

\* Before any timer has fired early, what is in flight is what the state says.
Alone == ~ early => \/ posts = {}
                    \/ state = "submitting" /\ \E p \in posts : posts = {p}

Inv ==
  /\ Sound(ticket)
  /\ posts \subseteq Post
  /\ submits \in Nat
  /\ Alone
  /\ WorkingIsInFlight

-----------------------------------------------------------------------------
(* The ticket's operators *)

\* The effects give a market order a time in force and change no other choice.
LEMMA EffectsSound ==
  ASSUME NEW t, NEW q, Shape(t)
  PROVE  Sound(Effects(t, q))
<1> DEFINE u == Effects(t, q)
           seeded == IF t.price = Blank /\ midOf(q) # None THEN midOf(q) ELSE t.price
           force  == IF t.type = "MARKET" /\ t.tif = "GTC" THEN "IOC" ELSE t.tif
<1>1. t = [side |-> t.side, type |-> t.type, tif |-> t.tif,
           price |-> t.price, stop |-> t.stop, size |-> t.size]
  BY DEF Shape
<1>2. u = [t EXCEPT !.price = seeded, !.tif = force]
  BY <1>1 DEF Effects
<1> HIDE DEF u, seeded, force
<1>3. u = [side |-> t.side, type |-> t.type, tif |-> force,
           price |-> seeded, stop |-> t.stop, size |-> t.size]
  BY <1>1, <1>2
<1>4. force \in {"GTC", "IOC", "FOK"} /\ (t.type = "MARKET" => force # "GTC")
  BY DEF force, Shape
<1>5. Sound(u)
  BY <1>3, <1>4 DEF Shape, Sound
<1>6. QED
  BY <1>5 DEF u

\* What the ticket checks is what the server checks.
LEMMA MirrorsServer ==
  ASSUME NEW t, Shape(t), trader # None, ~ fails(t)
  PROVE  serverAccepts(Request(t))
<1>1. \A x : positive(x) => orZero(x) = x /\ x > 0
  BY DEF positive, orZero
<1>2. validate(t.type, IF t.type = "MARKET" THEN 0 ELSE parse(t.price),
               IF t.type = "STOP" THEN parse(t.stop) ELSE 0, parse(t.size))
  BY DEF fails
<1>3. orZero(parse(t.size)) > 0
  BY <1>1, <1>2 DEF validate
<1>4. t.type = "LIMIT" => orZero(parse(t.price)) > 0
  BY <1>1, <1>2 DEF validate
<1>5. t.type = "STOP" => orZero(parse(t.stop)) > 0
  BY <1>1, <1>2 DEF validate
<1>6. QED
  BY <1>3, <1>4, <1>5 DEF serverAccepts, Request, Shape

-----------------------------------------------------------------------------
(* The steps *)

LEMMA InitInv == Init => Inv
  BY DEF Init, Inv, Sound, Shape, EMPTY_TICKET, Alone, WorkingIsInFlight

\* A step that leaves the submissions alone.
LEMMA FormStep ==
  ASSUME Inv, Sound(ticket'), UNCHANGED <<state, posts, timers, submits, early>>
  PROVE  Inv'
  BY DEF Inv, Alone, WorkingIsInFlight

LEMMA ChangeStep ==
  ASSUME Inv, NEW t, Shape(t), Change(t)
  PROVE  Inv'
<1>1. Sound(ticket')
  BY EffectsSound DEF Change
<1>2. QED
  BY <1>1, FormStep DEF Change

\* A click on the ladder sets three fields at once.
LEMMA LoadedShape ==
  ASSUME NEW t, Shape(t), NEW price, NEW side \in {"BUY", "SELL"}
  PROVE  Shape([t EXCEPT !.price = price, !.type = "LIMIT", !.side = side])
<1> DEFINE a == [t EXCEPT !.price = price]
           b == [a EXCEPT !.type = "LIMIT"]
           c == [b EXCEPT !.side = side]
<1>1. Shape(a)
  BY DEF Shape
<1> HIDE DEF a
<1>2. Shape(b)
  BY <1>1 DEF Shape
<1> HIDE DEF b
<1>3. Shape(c)
  BY <1>2 DEF Shape
<1>4. c = [t EXCEPT !.price = price, !.type = "LIMIT", !.side = side]
  BY DEF a, b
<1> HIDE DEF c
<1>5. QED
  BY <1>3, <1>4

LEMMA EditStep ==
  ASSUME Inv, Edit
  PROVE  Inv'
<1> USE DEF Inv, Sound
<1>1. CASE setSide
  <2>1. PICK s \in {"BUY", "SELL"} : Change([ticket EXCEPT !.side = s])
    BY <1>1 DEF setSide
  <2>2. Shape([ticket EXCEPT !.side = s])
    BY DEF Shape
  <2>3. QED
    BY <2>1, <2>2, ChangeStep
<1>2. CASE setOrderType
  <2>1. PICK k \in {"LIMIT", "MARKET", "STOP"} : Change([ticket EXCEPT !.type = k])
    BY <1>2 DEF setOrderType
  <2>2. Shape([ticket EXCEPT !.type = k])
    BY DEF Shape
  <2>3. QED
    BY <2>1, <2>2, ChangeStep
<1>3. CASE setTif
  <2>1. PICK f \in {"GTC", "IOC", "FOK"} : Change([ticket EXCEPT !.tif = f])
    BY <1>3 DEF setTif
  <2>2. Shape([ticket EXCEPT !.tif = f])
    BY DEF Shape
  <2>3. QED
    BY <2>1, <2>2, ChangeStep
<1>4. CASE setPrice
  <2>1. PICK text \in Typed \cup {Blank} : Change([ticket EXCEPT !.price = text])
    BY <1>4 DEF setPrice
  <2>2. Shape([ticket EXCEPT !.price = text])
    BY DEF Shape
  <2>3. QED
    BY <2>1, <2>2, ChangeStep
<1>5. CASE setStopPrice
  <2>1. PICK text \in Typed \cup {Blank} : Change([ticket EXCEPT !.stop = text])
    BY <1>5 DEF setStopPrice
  <2>2. Shape([ticket EXCEPT !.stop = text])
    BY DEF Shape
  <2>3. QED
    BY <2>1, <2>2, ChangeStep
<1>6. CASE setSize
  <2>1. PICK text \in Typed \cup {Blank, Exp} : Change([ticket EXCEPT !.size = text])
    BY <1>6 DEF setSize
  <2>2. Shape([ticket EXCEPT !.size = text])
    BY DEF Shape
  <2>3. QED
    BY <2>1, <2>2, ChangeStep
<1>7. CASE preset
  <2>1. PICK percent \in Percents :
          Change([ticket EXCEPT !.size = applyPercent(ticket, quote, account, percent)])
    BY <1>7 DEF preset
  <2>2. Shape([ticket EXCEPT !.size = applyPercent(ticket, quote, account, percent)])
    BY DEF Shape
  <2>3. QED
    BY <2>1, <2>2, ChangeStep
<1>8. CASE ladder
  <2>1. \E price, side : handleSelectPrice(price, side)
    BY <1>8 DEF ladder
  <2>2. PICK price, side : handleSelectPrice(price, side)
    BY <2>1
  <2> DEFINE turned == IF side = "SELL" THEN "BUY" ELSE "SELL"
         loaded == [ticket EXCEPT !.price = price, !.type = "LIMIT", !.side = turned]
  <2>3. Change(loaded)
    BY <2>2 DEF handleSelectPrice
  <2>4. turned \in {"BUY", "SELL"}
    OBVIOUS
  <2> HIDE DEF turned
  <2>5. Shape(loaded)
    BY <2>4, LoadedShape
  <2>6. QED
    BY <2>3, <2>5, ChangeStep
<1>9. QED
  BY <1>1, <1>2, <1>3, <1>4, <1>5, <1>6, <1>7, <1>8 DEF Edit

LEMMA SubmitStep ==
  ASSUME Inv, handleSubmit
  PROVE  Inv'
<1>1. /\ Sound(ticket) /\ ticket' = ticket
      /\ state # "submitting" /\ trader # None
      /\ early' = early
  BY DEF handleSubmit, submittable, Inv
<1>2. CASE fails(ticket)
  BY <1>1, <1>2 DEF handleSubmit, Inv, Alone, WorkingIsInFlight
<1>3. CASE ~ fails(ticket)
  <2> DEFINE p == [n |-> submits + 1, passes |-> serverAccepts(Request(ticket)),
                   phase |-> "sent"]
  <2>1. /\ state' = "submitting" /\ submits' = submits + 1
        /\ posts' = posts \cup {p}
    BY <1>3 DEF handleSubmit
  <2>2. serverAccepts(Request(ticket)) = TRUE
    BY <1>1, <1>3, MirrorsServer DEF Sound
  <2>3. p \in Post
    BY <2>2 DEF Post, Inv
  <2>4. Alone'
    BY <1>1, <2>1 DEF Inv, Alone
  <2>5. QED
    BY <1>1, <2>1, <2>3, <2>4 DEF Inv, WorkingIsInFlight
<1>4. QED
  BY <1>2, <1>3

LEMMA SubmissionStep ==
  ASSUME Inv, NEW p \in posts, Submission(p)
  PROVE  Inv'
<1>1. Sound(ticket') /\ submits' \in Nat /\ early' = early
  BY DEF Submission, PlaceOrder, onSubmitted, fail, Inv
<1>2. CASE PlaceOrder(p)
  <2>1. PICK phase \in {"accepted", "refused"} : posts' = InPhase(p, phase)
    BY <1>2 DEF PlaceOrder
  <2> DEFINE moved == [p EXCEPT !.phase = phase]
  <2>2. state' = state
    BY <1>2 DEF PlaceOrder
  <2>3. moved \in Post
    BY DEF Inv, Post
  <2>4. posts' = (posts \ {p}) \cup {moved}
    BY <2>1 DEF InPhase
  <2>5. Alone'
    <3>1. CASE posts = {p}
      BY <1>1, <2>2, <2>4, <3>1 DEF Inv, Alone
    <3>2. CASE posts # {p}
      BY <1>1, <3>2 DEF Inv, Alone
    <3>3. QED
      BY <3>1, <3>2
  <2>6. QED
    BY <1>1, <2>3, <2>4, <2>5 DEF Inv, WorkingIsInFlight
<1>3. CASE onSubmitted(p) \/ fail(p)
  <2>1. posts' = posts \ {p} /\ state' \in {"success", "error"}
    BY <1>3 DEF onSubmitted, fail
  <2>2. Alone'
    BY <1>1, <2>1 DEF Inv, Alone
  <2>3. QED
    BY <1>1, <2>1, <2>2 DEF Inv, WorkingIsInFlight
<1>4. QED
  BY <1>2, <1>3 DEF Submission

LEMMA TimerStep ==
  ASSUME Inv, NEW n \in Numbers, resetTimer(n)
  PROVE  Inv'
  BY DEF Inv, resetTimer, Alone, WorkingIsInFlight

LEMMA NextInv == Inv /\ [Next]_vars => Inv'
<1> SUFFICES ASSUME Inv, [Next]_vars PROVE Inv'
  OBVIOUS
<1>1. CASE Hydrate \/ Regenerate \/ Symbols \/ AccountArrives
  <2>1. UNCHANGED form
    BY <1>1 DEF Hydrate, Regenerate, Symbols, AccountArrives
  <2>2. QED
    BY <2>1, FormStep DEF Inv, form
<1>2. CASE Edit
  BY <1>2, EditStep
<1>3. CASE handleSubmit
  BY <1>3, SubmitStep
<1>4. CASE \E q \in Quotes : Quote(q)
  <2>1. PICK q \in Quotes : Quote(q)
    BY <1>4
  <2>2. Sound(ticket')
    BY <2>1, EffectsSound DEF Quote, Inv, Sound
  <2>3. QED
    BY <2>1, <2>2, FormStep DEF Quote
<1>5. CASE \E p \in posts : Submission(p)
  BY <1>5, SubmissionStep
<1>6. CASE \E n \in Numbers : resetTimer(n)
  BY <1>6, TimerStep
<1>7. CASE UNCHANGED vars
  BY <1>7, FormStep DEF vars, form, Inv
<1>8. QED
  BY <1>1, <1>2, <1>3, <1>4, <1>5, <1>6, <1>7 DEF Next

-----------------------------------------------------------------------------
(* The theorems *)

\* The invariant the theorems below rest on.
THEOREM Invariance == Spec => []Inv
  BY InitInv, NextInv, PTL DEF Spec

\* Whatever the user and the market do to the ticket, no request it sends is one
\* that PlaceOrder's checks refuse, and no market order is GTC.
THEOREM TicketMirrorsServer == Spec => []SentPassesServer
<1>1. Inv => SentPassesServer
  BY DEF Inv, Sound, Post, SentPassesServer
<1>2. QED
  BY <1>1, Invariance, PTL

\* Two submissions are in flight only after a reset timer has fired early.
THEOREM SubmitsOneAtATime == Spec => []OneAtATime
<1>1. Inv => OneAtATime
  <2> SUFFICES ASSUME Inv, ~ early PROVE ~ (Cardinality(posts) > 1)
    BY DEF OneAtATime
  <2>1. posts = {} \/ \E p \in posts : posts = {p}
    BY DEF Inv, Alone
  <2>2. Cardinality(posts) \in {0, 1}
    BY <2>1, FS_EmptySet, FS_Singleton
  <2>3. QED
    BY <2>2
<1>2. QED
  BY <1>1, Invariance, PTL

\* The ticket is never left working with nothing in flight.
THEOREM TicketIsNotWedged == Spec => []WorkingIsInFlight
<1>1. Inv => WorkingIsInFlight
  BY DEF Inv
<1>2. QED
  BY <1>1, Invariance, PTL

-----------------------------------------------------------------------------
(* Types *)

WellTyped ==
  /\ trader \in 1..MaxTraders \cup {None}
  /\ symbol \in BOOLEAN /\ quote \in Quotes \cup {None} /\ account \in Holdings \cup {None}
  /\ {ticket.price, ticket.stop, ticket.size} \subseteq Texts
  /\ state \in {"idle", "submitting", "success", "error"}
  /\ timers \subseteq Numbers /\ submits \in 0..MaxSubmits

\* An answer that it was placed is never ahead of the order.
OrdersTracked ==
  /\ ToSet(Kept) \subseteq placed /\ placed \subseteq Numbers \cup ToSet(Kept)
  /\ \A p \in posts : p.n \in Numbers /\ (p.phase = "accepted" => p.n \in placed)
  /\ tracked \in Seq(placed) /\ Len(tracked) <= MaxTracked /\ IsInjective(tracked)

TypedInv == Inv /\ WellTyped /\ OrdersTracked

Priced(q) == q = None \/ {q.best_bid, q.best_ask, q.mid} \subseteq (Nat \ {0}) \cup {None}

\* The price and the size that the ticket seeds are numbers; so no preset divides
\* by nothing.
LEMMA PresetType ==
  ASSUME TicketAssumption, NEW t, {t.price, t.stop, t.size} \subseteq Texts, NEW q, Priced(q),
         NEW held \in Holdings, NEW percent \in Percents
  PROVE  applyPercent(t, q, held, percent) # None => applyPercent(t, q, held, percent) \in Texts
<1> DEFINE touch == IF q = None THEN None ELSE IF t.side = "BUY" THEN q.best_ask ELSE q.best_bid
           price == referencePrice(t, q)
<1>1. touch \in (Nat \ {0}) \cup {None} /\ midOf(q) \in (Nat \ {0}) \cup {None}
  BY DEF Priced, midOf
<1>2. positive(parse(t.price)) => parse(t.price) \in Nat \ {0}
  BY DEF positive, parse, Texts
<1>3. price \in (Nat \ {0}) \cup {None}
  <2>1. price = IF t.type # "MARKET" /\ positive(parse(t.price)) THEN parse(t.price)
                ELSE IF touch # None THEN touch ELSE midOf(q)
    BY DEF referencePrice
  <2> HIDE DEF touch, price
  <2>2. QED
    BY <1>1, <1>2, <2>1
<1>4. held \in Nat /\ percent \in 1..100 /\ Cash \in Nat
  BY DEF TicketAssumption
<1>5. (held * percent) \div 100 \in Nat
  <2>1. held * percent \in Nat
    BY <1>4
  <2>2. QED
    BY <2>1
<1>6. price # None => (Cash * percent) \div (100 * price) \in Nat
  <2> HIDE DEF price
  <2>1. SUFFICES ASSUME NEW k \in Nat \ {0}
                 PROVE  (Cash * percent) \div (100 * k) \in Nat
    BY <1>3
  <2>2. Cash * percent \in Nat /\ 100 * k \in Nat \ {0}
    BY <1>4
  <2>3. \A m \in Nat, n \in Nat \ {0} : m \div n \in Nat
    <3>1. SUFFICES ASSUME NEW m \in Nat, NEW n \in Nat \ {0}, m \div n < 0
                   PROVE  FALSE
      OBVIOUS
    <3>2. m = n * (m \div n) + (m % n) /\ m % n \in 0..(n - 1) /\ m \div n \in Int
      BY <3>1
    <3>3. n * (m \div n) <= - n
      BY <3>1, <3>2
    <3>4. QED
      BY <3>1, <3>2, <3>3
  <2>4. QED
    BY <2>2, <2>3
<1>7. applyPercent(t, q, held, percent)
        = IF t.side = "SELL" /\ held > 0 THEN (held * percent) \div 100
          ELSE IF price = None THEN None ELSE (Cash * percent) \div (100 * price)
  BY DEF applyPercent
<1> HIDE DEF price
<1>8. QED
  BY <1>5, <1>6, <1>7 DEF Texts

\* The effects write no text but the mid.
LEMMA EffectsTyped ==
  ASSUME NEW t, Shape(t), {t.price, t.stop, t.size} \subseteq Texts, NEW q, Priced(q)
  PROVE  LET u == Effects(t, q) IN {u.price, u.stop, u.size} \subseteq Texts
<1> DEFINE seeded == IF t.price = Blank /\ midOf(q) # None THEN midOf(q) ELSE t.price
           force  == IF t.type = "MARKET" /\ t.tif = "GTC" THEN "IOC" ELSE t.tif
           u == [t EXCEPT !.price = seeded, !.tif = force]
<1>1. t = [side |-> t.side, type |-> t.type, tif |-> t.tif,
           price |-> t.price, stop |-> t.stop, size |-> t.size]
  BY DEF Shape
<1>2. Effects(t, q) = u
  BY <1>1 DEF Effects
<1>3. seeded \in Texts
  BY DEF midOf, Priced, Texts
<1> HIDE DEF seeded, force
<1>4. u.price = seeded /\ u.stop = t.stop /\ u.size = t.size
  BY <1>1
<1>5. QED
  BY <1>2, <1>3, <1>4

\* An event of the ticket's, whose fields are texts before its effects.
LEMMA ChangeTyped ==
  ASSUME TicketAssumption, TypedInv, NEW t, Shape(t), {t.price, t.stop, t.size} \subseteq Texts,
         Change(t)
  PROVE  WellTyped' /\ OrdersTracked'
<1>1. Priced(quote)
  BY DEF TypedInv, WellTyped, Priced, TicketAssumption
<1>2. {ticket'.price, ticket'.stop, ticket'.size} \subseteq Texts
  BY <1>1, EffectsTyped DEF Change
<1>3. QED
  BY <1>2 DEF Change, TypedInv, WellTyped, OrdersTracked, page

\* Every event of the form leaves texts in the inputs.
LEMMA EditTyped ==
  ASSUME TicketAssumption, TypedInv, Edit
  PROVE  WellTyped' /\ OrdersTracked'
<1>0. /\ Shape(ticket) /\ {ticket.price, ticket.stop, ticket.size} \subseteq Texts
      /\ Typed \cup {Blank, Exp} \subseteq Texts
      /\ quote \in Quotes \cup {None} /\ account \in Holdings \cup {None}
  BY DEF TypedInv, Inv, Sound, WellTyped, TicketAssumption, Texts
<1>1. ASSUME NEW k, NEW x, NEW t,
             \/ k \in {"BUY", "SELL"} /\ t = [ticket EXCEPT !.side = k]
             \/ k \in {"LIMIT", "MARKET", "STOP"} /\ t = [ticket EXCEPT !.type = k]
             \/ k \in {"GTC", "IOC", "FOK"} /\ t = [ticket EXCEPT !.tif = k]
             \/ x \in Texts /\ t \in {[ticket EXCEPT !.price = x], [ticket EXCEPT !.stop = x],
                                      [ticket EXCEPT !.size = x]}
      PROVE  Shape(t) /\ {t.price, t.stop, t.size} \subseteq Texts
  BY <1>0, <1>1 DEF Shape
<1>2. CASE \/ setSide \/ setOrderType \/ setTif \/ setPrice \/ setStopPrice \/ setSize
  <2>1. PICK t : Change(t) /\ Shape(t) /\ {t.price, t.stop, t.size} \subseteq Texts
    BY <1>0, <1>1, <1>2 DEF setSide, setOrderType, setTif, setPrice, setStopPrice, setSize
  <2>2. QED
    BY <2>1, ChangeTyped
<1>3. CASE preset
  <2>1. account \in Holdings /\ Priced(quote)
    BY <1>0, <1>3 DEF preset, Priced, TicketAssumption
  <2>2. PICK percent \in Percents :
          /\ applyPercent(ticket, quote, account, percent) # None
          /\ Change([ticket EXCEPT !.size = applyPercent(ticket, quote, account, percent)])
    BY <1>3 DEF preset
  <2>3. PICK x \in Texts : Change([ticket EXCEPT !.size = x])
    BY <1>0, <2>1, <2>2, PresetType
  <2>4. QED
    BY <1>1, <2>3, ChangeTyped
<1>4. CASE ladder
  <2>1. PICK price \in Nat, side \in {"BUY", "SELL"} : handleSelectPrice(price, side)
    BY <1>0, <1>4 DEF ladder, TicketAssumption
  <2> DEFINE turned == IF side = "SELL" THEN "BUY" ELSE "SELL"
             loaded == [ticket EXCEPT !.price = price, !.type = "LIMIT", !.side = turned]
  <2>2. Change(loaded) /\ turned \in {"BUY", "SELL"}
    BY <2>1 DEF handleSelectPrice
  <2> HIDE DEF turned
  <2>3. loaded.price = price /\ loaded.stop = ticket.stop /\ loaded.size = ticket.size
    BY <1>0 DEF Shape
  <2>4. Shape(loaded)
    BY <1>0, <2>2, LoadedShape
  <2> HIDE DEF loaded
  <2>5. {loaded.price, loaded.stop, loaded.size} \subseteq Texts
    BY <1>0, <2>3 DEF Texts
  <2>6. QED
    BY <2>2, <2>4, <2>5, ChangeTyped
<1>5. QED
  BY <1>2, <1>3, <1>4 DEF Edit

\* Tracking a submission that was placed keeps what is tracked distinct, and short.
LEMMA TrackOrderKeeps ==
  ASSUME TicketAssumption, tracked \in Seq(placed), Len(tracked) <= MaxTracked,
         IsInjective(tracked), NEW n \in placed
  PROVE  LET l == trackOrder(n)
         IN  l \in Seq(placed) /\ Len(l) <= MaxTracked /\ IsInjective(l)
<1>1. CASE n \in ToSet(tracked)
  BY <1>1 DEF trackOrder
<1>2. CASE n \notin ToSet(tracked)
  <2> DEFINE longer == <<n>> \o tracked
             k == Min({Len(tracked) + 1, MaxTracked})
             l == SubSeq(longer, 1, k)
  <2>1. trackOrder(n) = l
    BY <1>2 DEF trackOrder
  <2>2. k \in 1..(Len(tracked) + 1) /\ k <= MaxTracked
    <3>1. Len(tracked) + 1 \in Nat \ {0} /\ MaxTracked \in Nat \ {0}
      BY DEF TicketAssumption
    <3>2. ASSUME NEW a \in Nat \ {0}, NEW b \in Nat \ {0}
          PROVE  Min({a, b}) \in {a, b} /\ Min({a, b}) <= a /\ Min({a, b}) <= b
      <4>1. \E x \in {a, b} : \A y \in {a, b} : x <= y
        BY <3>2
      <4>2. QED
        BY <4>1 DEF Min
    <3>3. /\ k \in {Len(tracked) + 1, MaxTracked}
          /\ k <= Len(tracked) + 1
          /\ k <= MaxTracked
      BY <3>1, <3>2, Zenon
    <3>4. QED
      <4> HIDE DEF k
      <4> QED
        BY <3>1, <3>3
  <2>3. /\ longer \in Seq(placed) /\ Len(longer) = 1 + Len(tracked)
        /\ \A i \in 1..(1 + Len(tracked)) : longer[i] = IF i = 1 THEN n ELSE tracked[i - 1]
    <3>1. <<n>> \in Seq(placed) /\ Len(<<n>>) = 1 /\ <<n>>[1] = n
      OBVIOUS
    <3>2. \A i \in 1..(1 + Len(tracked)) : i <= 1 <=> i = 1
      OBVIOUS
    <3>3. QED
      BY <3>1, <3>2, ConcatProperties
  <2> HIDE DEF longer, k
  <2>4. l \in Seq(placed) /\ Len(l) = k /\ \A i \in 1..k : l[i] = longer[i]
    <3>1. \A i \in 1..k : longer[i] \in placed
      BY <2>2, <2>3
    <3>2. k - 1 + 1 = k /\ 1 <= k /\ k \in Int
      BY <2>2
    <3>3. \A i \in 1..k : 1 + i - 1 = i
      BY <2>2
    <3>4. QED
      BY <3>1, <3>2, <3>3, SubSeqProperties
  <2> HIDE DEF l
  <2>5. DOMAIN l = 1..k /\ \A i \in 1..k : l[i] = IF i = 1 THEN n ELSE tracked[i - 1]
    BY <2>2, <2>3, <2>4
  <2>6. ASSUME NEW i \in 1..k, i # 1
        PROVE  i - 1 \in DOMAIN tracked /\ tracked[i - 1] # n
    <3>1. i - 1 \in DOMAIN tracked
      BY <2>2, <2>6
    <3>2. QED
      BY <1>2, <3>1 DEF ToSet
  <2>7. ASSUME NEW i \in 1..k, NEW j \in 1..k, l[i] = l[j]
        PROVE  i = j
    <3>1. CASE i = 1 \/ j = 1
      BY <2>5, <2>6, <2>7, <3>1
    <3>2. CASE i # 1 /\ j # 1
      <4>1. i - 1 = j - 1
        BY <2>5, <2>6, <2>7, <3>2 DEF IsInjective
      <4>2. QED
        BY <4>1
    <3>3. QED
      BY <3>1, <3>2
  <2>8. IsInjective(l)
    BY <2>5, <2>7 DEF IsInjective
  <2>9. QED
    BY <2>1, <2>2, <2>4, <2>8
<1>3. QED
  BY <1>1, <1>2

\* A submission takes its number, and is tracked when it was placed.
LEMMA SubmissionTyped ==
  ASSUME TicketAssumption, TypedInv, NEW p \in posts, Submission(p)
  PROVE  WellTyped' /\ OrdersTracked'
<1>0. p \in Post /\ posts \subseteq Post
  BY DEF TypedInv, Inv
<1>1. CASE PlaceOrder(p)
  <2>1. PICK phase \in {"accepted", "refused"} :
          /\ posts' = InPhase(p, phase) /\ p.phase = "sent"
          /\ placed' = IF phase = "accepted" THEN placed \cup {p.n} ELSE placed
    BY <1>1 DEF PlaceOrder
  <2> DEFINE moved == [p EXCEPT !.phase = phase]
  <2>2. moved.n = p.n /\ moved.phase = phase /\ posts' = (posts \ {p}) \cup {moved}
    BY <1>0, <2>1 DEF InPhase, Post
  <2>3. UNCHANGED <<page, ticket, state, timers, submits>>
    BY <1>1 DEF PlaceOrder
  <2> HIDE DEF moved
  <2>4. /\ placed \subseteq placed' /\ placed' \subseteq Numbers \cup ToSet(Kept)
        /\ ToSet(Kept) \subseteq placed'
    BY <2>1 DEF TypedInv, OrdersTracked
  <2>5. \A q \in posts' : q.n \in Numbers /\ (q.phase = "accepted" => q.n \in placed')
    BY <2>1, <2>2, <2>4 DEF TypedInv, OrdersTracked
  <2>6. tracked' \in Seq(placed')
    BY <2>3, <2>4 DEF TypedInv, OrdersTracked, page
  <2>7. QED
    BY <2>3, <2>4, <2>5, <2>6 DEF TypedInv, WellTyped, OrdersTracked, page
<1>2. CASE onSubmitted(p)
  <2>1. /\ posts' = posts \ {p} /\ tracked' = trackOrder(p.n) /\ p.n \in placed
        /\ p.n \in Numbers
        /\ state' = "success" /\ timers' = timers \cup {p.n}
        /\ UNCHANGED <<trader, symbol, quote, account, ticket, submits, placed>>
    BY <1>2 DEF onSubmitted, TypedInv, OrdersTracked
  <2>2. trackOrder(p.n) \in Seq(placed) /\ Len(trackOrder(p.n)) <= MaxTracked
        /\ IsInjective(trackOrder(p.n))
    BY <2>1, TrackOrderKeeps DEF TypedInv, OrdersTracked
  <2>3. QED
    BY <2>1, <2>2 DEF TypedInv, WellTyped, OrdersTracked
<1>3. CASE fail(p)
  BY <1>3 DEF fail, TypedInv, WellTyped, OrdersTracked, page
<1>4. QED
  BY <1>1, <1>2, <1>3 DEF Submission

\* What an earlier visit left is orders, once each, within the cap.
LEMMA KeptIs ==
  ASSUME TicketAssumption, ToSet(Kept) \subseteq placed
  PROVE  Kept \in Seq(placed) /\ Len(Kept) <= MaxTracked /\ IsInjective(Kept)
<1>1. DOMAIN Kept = 1..Len(Kept) /\ Len(Kept) \in Nat
  BY DEF TicketAssumption
<1>2. \A i \in 1..Len(Kept) : Kept[i] \in placed
  BY <1>1 DEF ToSet
<1>3. Kept \in [1..Len(Kept) -> placed]
  BY <1>2 DEF TicketAssumption
<1>4. Kept \in Seq(placed)
  BY <1>1, <1>3
<1>5. QED
  BY <1>4 DEF TicketAssumption

\* Every step of the page keeps the types, and what is tracked placed and distinct.
LEMMA NextTyped ==
  ASSUME TicketAssumption, TypedInv, [Next]_vars
  PROVE  WellTyped' /\ OrdersTracked'
<1>1. CASE Hydrate \/ Regenerate \/ Symbols \/ AccountArrives
  <2>1. 1 \in 1..MaxTraders
    BY DEF TicketAssumption
  <2>2. /\ trader' \in 1..MaxTraders \cup {None} /\ account' \in Holdings \cup {None}
        /\ symbol' \in BOOLEAN /\ tracked' \in {tracked, Kept, <<>>}
        /\ UNCHANGED <<quote, form, placed>>
    <3>1. trader \in 1..MaxTraders \cup {None} /\ account \in Holdings \cup {None} /\ symbol \in BOOLEAN
      BY DEF TypedInv, WellTyped
    <3>2. CASE Hydrate
      BY <2>1, <3>1, <3>2 DEF Hydrate
    <3>3. CASE Regenerate
      <4>1. trader + 1 \in 1..MaxTraders
        BY <3>1, <3>3 DEF Regenerate, TicketAssumption
      <4>2. QED
        BY <3>1, <3>3, <4>1 DEF Regenerate
    <3>4. CASE Symbols
      BY <3>1, <3>4 DEF Symbols
    <3>5. CASE AccountArrives
      BY <3>1, <3>5 DEF AccountArrives
    <3>6. QED
      BY <1>1, <3>2, <3>3, <3>4, <3>5
  <2>3. /\ tracked' \in Seq(placed) /\ Len(tracked') <= MaxTracked /\ IsInjective(tracked')
    <3>1. /\ Kept \in Seq(placed) /\ Len(Kept) <= MaxTracked /\ IsInjective(Kept)
      BY KeptIs DEF TypedInv, OrdersTracked
    <3>2. /\ <<>> \in Seq(placed) /\ Len(<<>>) <= MaxTracked /\ IsInjective(<<>>)
      BY DEF IsInjective, TicketAssumption
    <3>3. CASE tracked' = tracked
      BY <3>3 DEF TypedInv, OrdersTracked
    <3>4. CASE tracked' = Kept
      BY <3>1, <3>4
    <3>5. CASE tracked' = <<>>
      BY <3>2, <3>5
    <3>6. QED
      BY <2>2, <3>3, <3>4, <3>5
  <2>4. QED
    BY <2>2, <2>3 DEF TypedInv, WellTyped, OrdersTracked, form
<1>2. CASE Edit
  BY <1>2, EditTyped
<1>3. CASE handleSubmit
  <2>1. /\ UNCHANGED <<page, ticket, timers, placed>> /\ state' \in {"error", "submitting"}
        /\ submits' \in {submits, submits + 1} /\ submits < MaxSubmits
        /\ \A q \in posts' : q \in posts \/ (q.n = submits + 1 /\ q.phase = "sent")
    BY <1>3 DEF handleSubmit
  <2>2. submits' \in 0..MaxSubmits /\ submits + 1 \in Numbers
    BY <2>1 DEF TypedInv, WellTyped, TicketAssumption, Numbers
  <2>3. QED
    BY <2>1, <2>2 DEF TypedInv, WellTyped, OrdersTracked, page
<1>4. ASSUME NEW q \in Quotes, Quote(q)
      PROVE  WellTyped' /\ OrdersTracked'
  <2>1. Priced(q)
    BY DEF Priced, TicketAssumption
  <2>2. {ticket'.price, ticket'.stop, ticket'.size} \subseteq Texts
    BY <1>4, <2>1, EffectsTyped DEF Quote, TypedInv, Inv, Sound, WellTyped
  <2>3. QED
    BY <1>4, <2>2 DEF Quote, TypedInv, WellTyped, OrdersTracked
<1>5. ASSUME NEW p \in posts, Submission(p)
      PROVE  WellTyped' /\ OrdersTracked'
  BY <1>5, SubmissionTyped
<1>6. ASSUME NEW n \in Numbers, resetTimer(n)
      PROVE  WellTyped' /\ OrdersTracked'
  BY <1>6 DEF resetTimer, TypedInv, WellTyped, OrdersTracked, page
<1>7. CASE UNCHANGED vars
  BY <1>7 DEF vars, page, form, TypedInv, WellTyped, OrdersTracked
<1>8. QED
  BY <1>1, <1>2, <1>3, <1>4, <1>5, <1>6, <1>7 DEF Next

\* The inputs never hold anything but what was typed, a price of the book or a whole
\* size; and what the page tracks was placed, is tracked once, and within the cap.
THEOREM TypeCorrect == Spec => []TypeOK
<1>1. TicketAssumption /\ Init => TypedInv
  <2>1. SUFFICES ASSUME TicketAssumption, Init
                 PROVE  WellTyped /\ OrdersTracked
    BY InitInv DEF TypedInv
  <2>2. IsInjective(<<>>) /\ Len(<<>>) = 0 /\ <<>> \in Seq(placed)
    BY DEF IsInjective
  <2>3. QED
    <3>1. WellTyped
      <4>1. 0 \in 0..MaxSubmits
        BY <2>1 DEF TicketAssumption
      <4>2. QED
        BY <2>1, <4>1 DEF Init, WellTyped, EMPTY_TICKET, Texts
    <3>2. OrdersTracked
      BY <2>1, <2>2 DEF Init, OrdersTracked, TicketAssumption
    <3>3. QED
      BY <3>1, <3>2
<1>2. TicketAssumption /\ TypedInv /\ [Next]_vars => TypedInv'
  BY NextInv, NextTyped DEF TypedInv
<1>3. ASSUME TypedInv
      PROVE  TypeOK
  <2>1. ToSet(tracked) \subseteq placed
    BY <1>3 DEF TypedInv, OrdersTracked, ToSet
  <2>2. QED
    BY <1>3, <2>1 DEF TypedInv, Inv, Post, WellTyped, OrdersTracked, TypeOK
<1>4. QED
  BY <1>1, <1>2, <1>3, TicketAssumption, PTL DEF Spec
=============================================================================
