--------------------------- MODULE RecoveryProofs ---------------------------
(***************************************************************************)
(* What a restart keeps, for any number of orders and crashes: proofs      *)
(* about Recovery.  Two lemmas say how a step may change the log           *)
(* (LogGrows) and the orders put to the engine (SeenSteps); each part of   *)
(* the invariant follows from them.                                        *)
(***************************************************************************)
EXTENDS Recovery, TLAPS, SequenceTheorems

LEMMA RecordType ==
  ASSUME NEW o \in Ids
  PROVE  OrderRecord(o) \in Record /\ CancelRecord(o) \in Record
  BY DEF OrderRecord, CancelRecord, Record

LEMMA RecordsDiffer ==
  ASSUME RecoveryAssumption, NEW o \in Ids, NEW p \in Ids
  PROVE  /\ OrderRecord(o) # CancelRecord(p)
         /\ OrderRecord(o) = OrderRecord(p) => o = p
         /\ CancelRecord(o) = CancelRecord(p) => o = p
         /\ Garbage \notin {OrderRecord(o), CancelRecord(o)}
<1>1. Garbage \notin {OrderRecord(o), CancelRecord(o)}
  BY RecordType DEF RecoveryAssumption
<1>2. OrderRecord(o).kind # CancelRecord(p).kind
  BY DEF OrderRecord, CancelRecord
<1>3. OrderRecord(o).id = o /\ OrderRecord(p).id = p
  BY DEF OrderRecord
<1>4. CancelRecord(o).id = o /\ CancelRecord(p).id = p
  BY DEF CancelRecord
<1>5. QED
  BY <1>1, <1>2, <1>3, <1>4

-----------------------------------------------------------------------------
(* The log *)

\* What a write of rec may do to the log: lines with a newline stay, and what
\* is new is rec on a line of its own, or does not parse.
Grown(rec) ==
  /\ file' \in Seq(Line)
  /\ Len(file') >= Len(file)
  /\ \A i \in 1..Len(file) : file[i].ended => file'[i] = file[i]
  /\ \A i \in 1..Len(file') :
       \/ file'[i].rec = Garbage
       \/ i \in 1..Len(file) /\ file'[i] = file[i]
       \/ i = Len(file) + 1 /\ file'[i].rec = rec
  /\ \A i \in 1..Len(file') : i < Len(file') => file'[i].ended

LEMMA WriteGrows ==
  ASSUME TypeOK, UnendedIsLast, NEW rec \in Record \cup {Garbage},
         NEW e \in BOOLEAN, file' = Written(rec, e)
  PROVE  /\ Grown(rec)
         /\ Len(file') > 0
         /\ file'[Len(file')].ended = e
         /\ file'[Len(file')].rec \in {rec, Garbage}
<1>0. file \in Seq(Line)
  BY DEF TypeOK
<1>1. CASE Torn
  <2>1. Len(file) \in 1..Len(file) /\ ~ file[Len(file)].ended
    BY <1>0, <1>1 DEF Torn
  <2>2. file' = [file EXCEPT ![Len(file)] = [rec |-> Garbage, ended |-> e]]
    BY <1>1 DEF Written
  <2>3. [rec |-> Garbage, ended |-> e] \in Line
    BY DEF Line
  <2>4. file' \in Seq(Line) /\ Len(file') = Len(file)
    BY <1>0, <2>1, <2>2, <2>3
  <2>5. \A i \in 1..Len(file) :
          file'[i] = IF i = Len(file) THEN [rec |-> Garbage, ended |-> e] ELSE file[i]
    BY <1>0, <2>2
  <2>6. QED
    BY <1>0, <2>1, <2>4, <2>5 DEF Grown, UnendedIsLast
<1>2. CASE ~ Torn
  <2>1. file' = Append(file, [rec |-> rec, ended |-> e])
    BY <1>2 DEF Written
  <2>2. [rec |-> rec, ended |-> e] \in Line
    BY DEF Line
  <2>3. /\ file' \in Seq(Line) /\ Len(file') = Len(file) + 1
        /\ \A i \in 1..Len(file) : file'[i] = file[i]
        /\ file'[Len(file) + 1] = [rec |-> rec, ended |-> e]
    BY <1>0, <2>1, <2>2, AppendProperties
  <2>4. \A i \in 1..Len(file) : file[i].ended
    BY <1>0, <1>2 DEF Torn, UnendedIsLast
  <2>5. QED
    BY <1>0, <2>3, <2>4 DEF Grown
<1>3. QED
  BY <1>1, <1>2

LEMMA CutGrows ==
  ASSUME TypeOK, UnendedIsLast, NEW rec \in Record, file' \in CutShort(rec)
  PROVE  Grown(rec)
<1>1. CASE file' = file
  BY <1>1 DEF Grown, TypeOK, UnendedIsLast
<1>2. CASE file' = Written(Garbage, FALSE)
  <2>1. Grown(Garbage)
    BY <1>2, WriteGrows
  <2>2. QED
    BY <2>1 DEF Grown
<1>3. CASE file' = Written(rec, FALSE)
  BY <1>3, WriteGrows
<1>4. CASE file' = Written(rec, TRUE)
  BY <1>4, WriteGrows
<1>5. QED
  BY <1>1, <1>2, <1>3, <1>4 DEF CutShort

\* A step leaves the log alone or writes one record, of a request that was
\* about to record it.
LEMMA LogGrows ==
  ASSUME TypeOK, UnendedIsLast, [Next]_vars
  PROVE  \/ file' = file
         \/ \E o \in Ids : /\ Grown(OrderRecord(o)) /\ place[o] = "logging"
                           /\ place'[o] \notin {"unsent", "logging"}
         \/ \E o \in Ids : Grown(CancelRecord(o)) /\ cancel[o] = "logging"
<1> USE DEF venue, client
<1>1. CASE \E o \in Ids : LogOrder(o)
  <2>1. PICK o \in Ids : LogOrder(o)
    BY <1>1
  <2>2. Grown(OrderRecord(o))
    BY <2>1, WriteGrows, RecordType DEF LogOrder
  <2>3. QED
    BY <2>1, <2>2 DEF LogOrder, TypeOK
<1>2. CASE \E o \in Ids : LogOrderFails(o)
  <2>1. PICK o \in Ids : LogOrderFails(o)
    BY <1>2
  <2>2. Grown(OrderRecord(o))
    BY <2>1, CutGrows, RecordType DEF LogOrderFails
  <2>3. QED
    BY <2>1, <2>2 DEF LogOrderFails, TypeOK
<1>3. CASE \E o \in Ids : LogCancel(o)
  <2>1. PICK o \in Ids : LogCancel(o)
    BY <1>3
  <2>2. Grown(CancelRecord(o))
    BY <2>1, WriteGrows, RecordType DEF LogCancel
  <2>3. QED
    BY <2>1, <2>2 DEF LogCancel
<1>4. CASE \E o \in Ids : LogCancelFails(o)
  <2>1. PICK o \in Ids : LogCancelFails(o)
    BY <1>4
  <2>2. QED
    BY <2>1, CutGrows, RecordType DEF LogCancelFails
<1>5. CASE Crash
  <2>1. CASE \E o \in Ids : place[o] = "logging" /\ file' \in CutShort(OrderRecord(o))
    <3>1. PICK o \in Ids : place[o] = "logging" /\ file' \in CutShort(OrderRecord(o))
      BY <2>1
    <3>2. place'[o] = "lost"
      BY <1>5, <3>1 DEF Crash
    <3>3. QED
      BY <3>1, <3>2, CutGrows, RecordType
  <2>2. CASE \E o \in Ids : cancel[o] = "logging" /\ file' \in CutShort(CancelRecord(o))
    BY <2>2, CutGrows, RecordType
  <2>3. CASE file' = file
    BY <2>3
  <2>4. QED
    BY <1>5, <2>1, <2>2, <2>3 DEF Crash
<1>6. CASE UNCHANGED file
  BY <1>6
<1>7. QED
  BY <1>1, <1>2, <1>3, <1>4, <1>5, <1>6 DEF Next, vars, Send, Submit, Refuse, Cancel,
     Take, Restart, Replay, ReplayOrder, ReplayCancel, ReplayFails, ReplayDone

LEMMA NextUnendedIsLast ==
  ASSUME TypeOK, UnendedIsLast, [Next]_vars
  PROVE  UnendedIsLast'
  BY LogGrows DEF UnendedIsLast, Grown

\* A line that keeps an order, or keeps the process from starting, stays.
LEMMA KeptStays ==
  ASSUME TypeOK, UnendedIsLast, [Next]_vars,
         NEW o \in Ids, NEW n \in Nat, n <= Len(file), Kept(o, n)
  PROVE  Kept(o, n)' /\ Kept(o, Len(file))'
<1>1. Len(file) \in Nat /\ Len(file') \in Nat
  BY LogGrows DEF TypeOK, Grown
<1>2. PICK i \in 1..n : file[i].ended /\ file[i].rec \in {OrderRecord(o), Garbage}
  BY DEF Kept
<1>3. Len(file) <= Len(file') /\ file'[i] = file[i]
  BY <1>1, <1>2, LogGrows DEF Grown
<1>4. i \in 1..Len(file')
  BY <1>1, <1>2, <1>3
<1>5. QED
  BY <1>2, <1>3, <1>4 DEF Kept

-----------------------------------------------------------------------------
(* Requests *)

\* An answer is for good, and no request goes back.
LEMMA RequestSteps ==
  ASSUME TypeOK, [Next]_vars, NEW o \in Ids
  PROVE  /\ place'[o] = place[o] \/ place[o] \in {"unsent", "logging", "logged"}
         /\ place[o] # "unsent" => place'[o] # "unsent"
         /\ place'[o] = "logging" => place[o] \in {"unsent", "logging"}
         /\ cancel[o] # "unsent" => cancel'[o] # "unsent"
<1> USE DEF venue, client
<1>1. CASE \E p \in Ids : Send(p) \/ LogOrder(p) \/ LogOrderFails(p) \/ Submit(p) \/ Refuse(p)
  BY <1>1 DEF Send, LogOrder, LogOrderFails, Submit, Refuse, TypeOK
<1>2. CASE \E p \in Ids : Cancel(p) \/ LogCancel(p) \/ LogCancelFails(p)
  BY <1>2 DEF Cancel, LogCancel, LogCancelFails, TypeOK
<1>3. CASE Crash
  BY <1>3 DEF Crash
<1>4. CASE UNCHANGED <<place, cancel>>
  BY <1>4
<1>5. QED
  BY <1>1, <1>2, <1>3, <1>4 DEF Next, vars, Take, Restart, Replay, ReplayOrder,
     ReplayCancel, ReplayFails, ReplayDone

-----------------------------------------------------------------------------
(* The log and the requests together *)

LEMMA NextOneLineEach ==
  ASSUME RecoveryAssumption, TypeOK, UnendedIsLast, OneLineEach, [Next]_vars
  PROVE  OneLineEach'
<1> SUFFICES ASSUME NEW o \in Ids, NEW i \in 1..Len(file'),
                    file'[i].rec = OrderRecord(o)
             PROVE  /\ place'[o] \notin {"unsent", "logging"}
                    /\ \A j \in 1..Len(file') : file'[j].rec = OrderRecord(o) => i = j
  BY DEF OneLineEach
<1>1. OrderRecord(o) # Garbage
  BY RecordsDiffer
<1>2. CASE file' = file
  BY <1>2, RequestSteps DEF OneLineEach
<1>3. CASE \E p \in Ids : /\ Grown(OrderRecord(p)) /\ place[p] = "logging"
                          /\ place'[p] \notin {"unsent", "logging"}
  <2>1. PICK p \in Ids : /\ Grown(OrderRecord(p)) /\ place[p] = "logging"
                         /\ place'[p] \notin {"unsent", "logging"}
    BY <1>3
  <2>2. \A j \in 1..Len(file') : file'[j].rec = OrderRecord(o) =>
          \/ j \in 1..Len(file) /\ file[j].rec = OrderRecord(o)
          \/ j = Len(file) + 1 /\ o = p
    BY <1>1, <2>1, RecordsDiffer DEF Grown
  <2>3. place[o] \notin {"unsent", "logging"} \/ o = p
    BY <2>2 DEF OneLineEach
  <2>4. o = p => \A j \in 1..Len(file) : file[j].rec # OrderRecord(o)
    BY <2>1 DEF OneLineEach
  <2>5. QED
    BY <2>1, <2>2, <2>3, <2>4, RequestSteps DEF OneLineEach
<1>4. CASE \E p \in Ids : Grown(CancelRecord(p)) /\ cancel[p] = "logging"
  <2>1. PICK p \in Ids : Grown(CancelRecord(p))
    BY <1>4
  <2>2. \A j \in 1..Len(file') : file'[j].rec = OrderRecord(o) =>
          j \in 1..Len(file) /\ file[j].rec = OrderRecord(o)
    BY <1>1, <2>1, RecordsDiffer DEF Grown
  <2>3. QED
    BY <2>2, RequestSteps DEF OneLineEach
<1>5. QED
  BY <1>2, <1>3, <1>4, LogGrows

LEMMA NextCancelsWereAsked ==
  ASSUME RecoveryAssumption, TypeOK, UnendedIsLast, CancelsWereAsked, [Next]_vars
  PROVE  CancelsWereAsked'
<1> SUFFICES ASSUME NEW o \in Ids, NEW i \in 1..Len(file'),
                    file'[i].rec = CancelRecord(o)
             PROVE  cancel'[o] # "unsent"
  BY DEF CancelsWereAsked
<1>1. cancel[o] # "unsent"
  BY LogGrows, RecordsDiffer DEF Grown, CancelsWereAsked
<1>2. QED
  BY <1>1, RequestSteps

LEMMA NextAckedIsOnDisk ==
  ASSUME TypeOK, UnendedIsLast, AckedIsOnDisk, [Next]_vars
  PROVE  AckedIsOnDisk'
<1> SUFFICES ASSUME NEW o \in Ids, place'[o] \in {"logged", "acked", "refused"}
             PROVE  Kept(o, Len(file))'
  BY DEF AckedIsOnDisk
<1> USE DEF venue, client
<1>1. CASE place[o] \in {"logged", "acked", "refused"}
  <2>1. Len(file) \in Nat
    BY DEF TypeOK
  <2>2. QED
    BY <1>1, <2>1, KeptStays DEF AckedIsOnDisk
<1>2. CASE LogOrder(o)
  <2>1. /\ Grown(OrderRecord(o)) /\ Len(file') > 0
        /\ file'[Len(file')].ended = TRUE
        /\ file'[Len(file')].rec \in {OrderRecord(o), Garbage}
    BY <1>2, WriteGrows, RecordType DEF LogOrder
  <2>2. Len(file') \in 1..Len(file')
    BY <2>1 DEF Grown
  <2>3. QED
    BY <2>1, <2>2 DEF Kept
<1>3. CASE place[o] \notin {"logged", "acked", "refused"} /\ ~ LogOrder(o)
  <2>1. CASE \E p \in Ids : \/ Send(p) \/ LogOrder(p) \/ LogOrderFails(p)
                            \/ Submit(p) \/ Refuse(p)
    BY <1>3, <2>1 DEF Send, LogOrder, LogOrderFails, Submit, Refuse, TypeOK
  <2>2. CASE Crash
    BY <1>3, <2>2 DEF Crash
  <2>3. CASE UNCHANGED place
    BY <1>3, <2>3
  <2>4. QED
    BY <2>1, <2>2, <2>3 DEF Next, vars, Cancel, LogCancel, LogCancelFails, Take,
       Restart, Replay, ReplayOrder, ReplayCancel, ReplayFails, ReplayDone
<1>4. QED
  BY <1>1, <1>2, <1>3

\* What a request was preceded by is fixed when it is sent.
LEMMA AfterSteps ==
  ASSUME TypeOK, [Next]_vars, NEW o \in Ids
  PROVE  \/ after'[o] = after[o]
         \/ /\ place[o] = "unsent" /\ file' = file
            /\ after'[o] = {p \in Ids : place[p] = "acked"}
<1> USE DEF venue, client
<1>1. CASE \E p \in Ids : Send(p)
  BY <1>1 DEF Send, TypeOK
<1>2. CASE UNCHANGED after
  BY <1>2
<1>3. QED
  BY <1>1, <1>2 DEF Next, vars, LogOrder, LogOrderFails, Submit, Refuse, Cancel,
     LogCancel, LogCancelFails, Take, Crash, Restart, Replay, ReplayOrder,
     ReplayCancel, ReplayFails, ReplayDone

LEMMA NextDiskOrder ==
  ASSUME RecoveryAssumption, TypeOK, UnendedIsLast, OneLineEach, AckedIsOnDisk,
         DiskOrder, [Next]_vars
  PROVE  DiskOrder'
<1> SUFFICES ASSUME NEW o \in Ids, NEW p \in after'[o]
             PROVE  /\ place'[p] = "acked"
                    /\ \A k \in 1..Len(file') :
                         file'[k].rec = OrderRecord(o) => Kept(p, k - 1)'
  BY DEF DiskOrder
<1>0. file \in Seq(Line) /\ Len(file) \in Nat
  BY DEF TypeOK
<1>1. CASE after'[o] = after[o]
  <2>1. p \in Ids /\ place[p] = "acked"
    BY <1>1 DEF DiskOrder, TypeOK
  <2>2. place'[p] = "acked"
    BY <2>1, RequestSteps
  <2>3. ASSUME NEW k \in 1..Len(file'), file'[k].rec = OrderRecord(o)
        PROVE  k - 1 \in Nat /\ k - 1 <= Len(file) /\ Kept(p, k - 1)
    <3>1. OrderRecord(o) # Garbage
      BY RecordsDiffer
    <3>2. CASE k \in 1..Len(file) /\ file'[k] = file[k]
      BY <1>0, <1>1, <2>3, <3>2 DEF DiskOrder
    <3>3. CASE k = Len(file) + 1
      BY <1>0, <2>1, <3>3 DEF AckedIsOnDisk
    <3>4. QED
      BY <1>0, <2>3, <3>1, <3>2, <3>3, LogGrows DEF Grown
  <2>4. QED
    BY <2>1, <2>2, <2>3, KeptStays
<1>2. CASE /\ place[o] = "unsent" /\ file' = file
           /\ after'[o] = {q \in Ids : place[q] = "acked"}
  BY <1>2, RequestSteps DEF OneLineEach
<1>3. QED
  BY <1>1, <1>2, AfterSteps

-----------------------------------------------------------------------------
(* The orders put to the engine *)

LEMMA RangeOfAppend ==
  ASSUME NEW s \in Seq(Ids), NEW o \in Ids
  PROVE  Range(Append(s, o)) = Range(s) \cup {o}
<1>1. /\ Len(s) \in Nat /\ Len(Append(s, o)) = Len(s) + 1
      /\ \A i \in 1..Len(s) : Append(s, o)[i] = s[i]
      /\ Append(s, o)[Len(s) + 1] = o
      /\ DOMAIN s = 1..Len(s) /\ DOMAIN Append(s, o) = 1..(Len(s) + 1)
  BY AppendProperties
<1>2. \A i \in 1..Len(s) : i \in 1..(Len(s) + 1)
  BY <1>1
<1>3. Len(s) + 1 \in 1..(Len(s) + 1)
  BY <1>1
<1>4. \A i \in 1..(Len(s) + 1) : i \in 1..Len(s) \/ i = Len(s) + 1
  BY <1>1
<1>5. QED
  BY <1>1, <1>2, <1>3, <1>4 DEF Range

LEMMA RangeOfConcat ==
  ASSUME NEW s \in Seq(Ids), NEW t \in Seq(Ids)
  PROVE  Range(s \o t) = Range(s) \cup Range(t)
<1>1. /\ Len(s) \in Nat /\ Len(t) \in Nat
      /\ Len(s \o t) = Len(s) + Len(t)
      /\ DOMAIN (s \o t) = 1..(Len(s) + Len(t))
      /\ DOMAIN s = 1..Len(s) /\ DOMAIN t = 1..Len(t)
      /\ \A i \in 1..(Len(s) + Len(t)) :
           (s \o t)[i] = IF i <= Len(s) THEN s[i] ELSE t[i - Len(s)]
  BY ConcatProperties
<1>2. \A i \in 1..Len(s) : i \in 1..(Len(s) + Len(t)) /\ (s \o t)[i] = s[i]
  BY <1>1
<1>3. \A i \in 1..Len(t) :
        i + Len(s) \in 1..(Len(s) + Len(t)) /\ (s \o t)[i + Len(s)] = t[i]
  BY <1>1
<1>4. \A i \in 1..(Len(s) + Len(t)) : i \in 1..Len(s) \/ i - Len(s) \in 1..Len(t)
  BY <1>1
<1>5. \A x \in Range(s \o t) : x \in Range(s) \cup Range(t)
  <2> SUFFICES ASSUME NEW i \in 1..(Len(s) + Len(t))
               PROVE  (s \o t)[i] \in Range(s) \cup Range(t)
    BY <1>1 DEF Range
  <2>1. CASE i <= Len(s)
    <3>1. i \in 1..Len(s)
      BY <1>1, <2>1
    <3>2. QED
      BY <1>1, <1>2, <3>1 DEF Range
  <2>2. CASE ~ (i <= Len(s))
    <3>1. i - Len(s) \in 1..Len(t)
      BY <1>1, <2>2
    <3>2. QED
      BY <1>1, <2>2, <3>1 DEF Range
  <2>3. QED
    BY <2>1, <2>2
<1>6. \A x \in Range(s) \cup Range(t) : x \in Range(s \o t)
  BY <1>1, <1>2, <1>3 DEF Range
<1>7. QED
  BY <1>5, <1>6

\* Taking an order off the channel leaves the sequence as it was.
LEMMA TakeKeepsSeen ==
  ASSUME TypeOK, Take
  PROVE  Seen' = Seen
<1> DEFINE q == queue  t == taken
<1>1. q \in Seq(Ids) /\ t \in Seq(Ids) /\ q # <<>>
  BY DEF TypeOK, Take
<1>2. /\ Head(q) \in Ids /\ Tail(q) \in Seq(Ids) /\ Len(Tail(q)) = Len(q) - 1
      /\ q[1] = Head(q) /\ \A i \in 1..Len(Tail(q)) : Tail(q)[i] = q[i + 1]
      /\ Len(q) \in Nat \ {0}
  BY <1>1, HeadTailProperties, EmptySeq
<1>3. /\ Append(t, Head(q)) \in Seq(Ids) /\ Len(Append(t, Head(q))) = Len(t) + 1
      /\ \A i \in 1..Len(t) : Append(t, Head(q))[i] = t[i]
      /\ Append(t, Head(q))[Len(t) + 1] = Head(q) /\ Len(t) \in Nat
  BY <1>1, <1>2, AppendProperties
<1>4. /\ t \o q \in Seq(Ids) /\ Len(t \o q) = Len(t) + Len(q)
      /\ \A i \in 1..(Len(t) + Len(q)) :
           (t \o q)[i] = IF i <= Len(t) THEN t[i] ELSE q[i - Len(t)]
  BY <1>1, ConcatProperties
<1> DEFINE u == Append(t, Head(q)) \o Tail(q)
<1>5. /\ u \in Seq(Ids) /\ Len(u) = Len(t) + 1 + (Len(q) - 1)
      /\ \A i \in 1..(Len(t) + 1 + (Len(q) - 1)) :
           u[i] = IF i <= Len(t) + 1 THEN Append(t, Head(q))[i]
                                     ELSE Tail(q)[i - (Len(t) + 1)]
  BY <1>2, <1>3, ConcatProperties
<1>6. Len(u) = Len(t \o q)
  BY <1>2, <1>3, <1>4, <1>5
<1>7. ASSUME NEW i \in 1..Len(u)
      PROVE  u[i] = (t \o q)[i]
  <2>1. CASE i <= Len(t)
    BY <1>2, <1>3, <1>4, <1>5, <2>1
  <2>2. CASE i = Len(t) + 1
    BY <1>2, <1>3, <1>4, <1>5, <2>2
  <2>3. CASE i > Len(t) + 1
    <3>1. i - (Len(t) + 1) \in 1..Len(Tail(q))
      BY <1>2, <1>3, <1>5, <2>3
    <3>2. Tail(q)[i - (Len(t) + 1)] = q[i - (Len(t) + 1) + 1]
      BY <1>2, <3>1
    <3>3. i - (Len(t) + 1) + 1 = i - Len(t)
      BY <1>3, <1>5, <2>3
    <3>4. QED
      BY <1>2, <1>3, <1>4, <1>5, <2>3, <3>2, <3>3
  <2>4. QED
    BY <1>2, <1>3, <1>5, <2>1, <2>2, <2>3
<1>8. u = t \o q
  BY <1>4, <1>5, <1>6, <1>7, SeqEqual
<1>9. QED
  BY <1>8 DEF Take, Seen

\* A step leaves the sequence alone, ends it, or adds one order to it.
LEMMA SeenSteps ==
  ASSUME TypeOK, [Next]_vars
  PROVE  /\ Seen \in Seq(Ids)
         /\ \/ Seen' = Seen
            \/ Seen' = <<>> /\ Crash
            \/ \E o \in Ids : Seen' = Append(Seen, o) /\ (Submit(o) \/ ReplayOrder(o))
<1> USE DEF venue, client
<1>0. Seen \in Seq(Ids)
  BY ConcatProperties DEF TypeOK, Seen
<1>1. CASE Take
  BY <1>0, <1>1, TakeKeepsSeen
<1>2. CASE Crash
  <2>1. Seen' = <<>>
    BY <1>2, EmptySeq, ConcatProperties DEF Crash, Seen
  <2>2. QED
    BY <1>0, <1>2, <2>1
<1>3. CASE \E o \in Ids : Submit(o) \/ ReplayOrder(o)
  <2>1. PICK o \in Ids : Submit(o) \/ ReplayOrder(o)
    BY <1>3
  <2>2. queue' = Append(queue, o) /\ taken' = taken
    BY <2>1 DEF Submit, ReplayOrder
  <2>3. taken \o Append(queue, o) = Append(taken \o queue, o)
    BY DEF TypeOK
  <2>4. QED
    BY <1>0, <2>1, <2>2, <2>3 DEF Seen
<1>4. CASE UNCHANGED <<queue, taken>>
  BY <1>0, <1>4 DEF Seen
<1>5. QED
  BY <1>1, <1>2, <1>3, <1>4 DEF Next, vars, Send, LogOrder, LogOrderFails, Refuse, Cancel,
     LogCancel, LogCancelFails, Restart, Replay, ReplayCancel, ReplayFails, ReplayDone

\* What was put to the engine stays in the sequence until a crash.
LEMMA SeenGrows ==
  ASSUME TypeOK, [Next]_vars, ~ Crash
  PROVE  Range(Seen) \subseteq Range(Seen')
  BY SeenSteps, RangeOfAppend

\* An order that joins the sequence is not yet in it.
LEMMA NewIsNotSeen ==
  ASSUME TypeOK, OneLineEach, ReplayedSoFar, SeenWereLogged,
         NEW o \in Ids, Submit(o) \/ ReplayOrder(o)
  PROVE  o \notin Range(Seen)
<1>1. CASE Submit(o)
  BY <1>1 DEF Submit, SeenWereLogged
<1>2. CASE ReplayOrder(o)
  <2>1. at \in 1..Len(file) /\ file[at].rec = OrderRecord(o) /\ mode = "replaying"
    BY <1>2 DEF ReplayOrder, Reading, TypeOK
  <2>2. ASSUME o \in Range(Seen) PROVE FALSE
    <3>1. PICK i \in 1..Len(file) : i < at /\ file[i].rec = OrderRecord(o)
      BY <2>1, <2>2 DEF ReplayedSoFar
    <3>2. i = at
      BY <2>1, <3>1 DEF OneLineEach
    <3>3. QED
      BY <2>1, <3>1, <3>2
  <2>3. QED
    BY <2>2
<1>3. QED
  BY <1>1, <1>2

LEMMA NextType ==
  ASSUME TypeOK, UnendedIsLast, [Next]_vars
  PROVE  TypeOK'
<1> USE DEF venue, client
<1>1. file' \in Seq(Line)
  BY LogGrows DEF Grown, TypeOK
<1>2. queue' \in Seq(Ids) /\ taken' \in Seq(Ids) /\ book' \subseteq Ids /\ stops' \subseteq Ids
  <2>1. CASE Take
    <3>1. Head(queue) \in Ids /\ Tail(queue) \in Seq(Ids)
      BY <2>1, HeadTailProperties, EmptySeq DEF Take, TypeOK
    <3>2. QED
      BY <2>1, <3>1, AppendProperties DEF Take, TypeOK
  <2>2. CASE \E o \in Ids : Submit(o) \/ ReplayOrder(o) \/ Cancel(o) \/ ReplayCancel(o)
    <3>1. PICK o \in Ids : Submit(o) \/ ReplayOrder(o) \/ Cancel(o) \/ ReplayCancel(o)
      BY <2>2
    <3>2. Append(queue, o) \in Seq(Ids)
      BY AppendProperties DEF TypeOK
    <3>3. /\ queue' \in {queue, Append(queue, o)} /\ taken' = taken
          /\ book' \subseteq book /\ stops' \subseteq stops
      BY <3>1 DEF Submit, ReplayOrder, Cancel, ReplayCancel
    <3>4. QED
      BY <3>2, <3>3 DEF TypeOK
  <2>3. CASE Crash
    BY <2>3, EmptySeq DEF Crash
  <2>4. CASE UNCHANGED venue
    BY <2>4 DEF TypeOK
  <2>5. QED
    BY <2>1, <2>2, <2>3, <2>4 DEF Next, vars, Send, LogOrder, LogOrderFails, Refuse,
       LogCancel, LogCancelFails, Restart, Replay, ReplayFails, ReplayDone
<1>3. /\ place' \in [Ids -> {"unsent", "logging", "logged", "acked", "refused", "failed", "lost"}]
      /\ cancel' \in [Ids -> {"unsent", "logging", "acked", "lost"}]
      /\ after' \in [Ids -> SUBSET Ids]
  <2>1. CASE \E o \in Ids : \/ Send(o) \/ LogOrder(o) \/ LogOrderFails(o)
                            \/ Submit(o) \/ Refuse(o)
    <3>1. PICK o \in Ids : \/ Send(o) \/ LogOrder(o) \/ LogOrderFails(o)
                           \/ Submit(o) \/ Refuse(o)
      BY <2>1
    <3>2. {p \in Ids : place[p] = "acked"} \in SUBSET Ids
      OBVIOUS
    <3>3. /\ cancel' = cancel
          /\ \/ after' = after
             \/ after' = [after EXCEPT ![o] = {p \in Ids : place[p] = "acked"}]
      BY <3>1 DEF Send, LogOrder, LogOrderFails, Submit, Refuse
    <3>4. \E v \in {"logging", "logged", "failed", "acked", "refused"} :
            place' = [place EXCEPT ![o] = v]
      BY <3>1 DEF Send, LogOrder, LogOrderFails, Submit, Refuse
    <3>5. QED
      BY <3>2, <3>3, <3>4 DEF TypeOK
  <2>2. CASE \E o \in Ids : Cancel(o) \/ LogCancel(o) \/ LogCancelFails(o)
    BY <2>2 DEF Cancel, LogCancel, LogCancelFails, TypeOK
  <2>3. CASE Crash
    BY <2>3 DEF Crash, TypeOK
  <2>4. CASE UNCHANGED client
    BY <2>4 DEF TypeOK
  <2>5. QED
    BY <2>1, <2>2, <2>3, <2>4 DEF Next, vars, Take, Restart, Replay, ReplayOrder,
       ReplayCancel, ReplayFails, ReplayDone
<1>4. /\ mode' \in {"serving", "replaying", "down", "refused"}
      /\ at' \in Nat \ {0} /\ crashes' \in 0..MaxCrashes
  <2>1. CASE Crash
    BY <2>1, RecoveryAssumption DEF Crash, TypeOK, RecoveryAssumption
  <2>2. CASE Restart \/ Replay
    BY <2>2 DEF Restart, Replay, ReplayOrder, ReplayCancel, ReplayFails, ReplayDone, TypeOK
  <2>3. CASE UNCHANGED <<mode, at, crashes>>
    BY <2>3 DEF TypeOK
  <2>4. QED
    BY <2>1, <2>2, <2>3 DEF Next, vars, Send, LogOrder, LogOrderFails, Submit, Refuse,
       Cancel, LogCancel, LogCancelFails, Take
<1>5. QED
  BY <1>1, <1>2, <1>3, <1>4 DEF TypeOK

LEMMA NextInFlight ==
  ASSUME TypeOK, InFlight, [Next]_vars
  PROVE  InFlight'
<1> USE DEF venue, client
<1>1. CASE Crash
  BY <1>1 DEF Crash, InFlight
<1>2. CASE Restart \/ Replay
  BY <1>2 DEF Restart, Replay, ReplayOrder, ReplayCancel, ReplayFails, ReplayDone,
     Reading, InFlight
<1>3. CASE Take
  BY <1>3 DEF Take, InFlight
<1>4. CASE \E o \in Ids : \/ Send(o) \/ LogOrder(o) \/ LogOrderFails(o) \/ Submit(o)
                          \/ Refuse(o) \/ Cancel(o) \/ LogCancel(o) \/ LogCancelFails(o)
  <2>1. mode = "serving" /\ mode' = "serving"
    BY <1>4 DEF Send, LogOrder, LogOrderFails, Submit, Refuse, Cancel, LogCancel,
       LogCancelFails
  <2>2. QED
    BY <2>1 DEF InFlight
<1>5. CASE UNCHANGED vars
  BY <1>5 DEF vars, InFlight
<1>6. QED
  BY <1>1, <1>2, <1>3, <1>4, <1>5 DEF Next

LEMMA NextReplayedSoFar ==
  ASSUME RecoveryAssumption, TypeOK, InFlight, ReplayedSoFar, [Next]_vars
  PROVE  ReplayedSoFar'
<1> USE DEF venue, client
<1>0. at \in Nat \ {0} /\ Len(file) \in Nat /\ Seen \in Seq(Ids)
  BY SeenSteps DEF TypeOK
<1>1. CASE Restart
  <2>1. Seen = <<>> /\ Seen' = Seen
    BY <1>1, EmptySeq, ConcatProperties DEF Restart, InFlight, Seen
  <2>2. Range(Seen') = {} /\ at' = 1
    BY <1>1, <2>1 DEF Restart, Range
  <2>3. QED
    BY <1>1, <2>2 DEF Restart, ReplayedSoFar
<1>2. CASE Take
  <2>1. UNCHANGED <<mode, file, at>> /\ Seen' = Seen
    BY <1>2, TakeKeepsSeen DEF Take
  <2>2. QED
    BY <2>1 DEF ReplayedSoFar
<1>3. ASSUME NEW o \in Ids, ReplayOrder(o)
      PROVE  ReplayedSoFar'
  <2>1. /\ mode = "replaying" /\ file' = file /\ at' = at + 1
        /\ at \in 1..Len(file) /\ file[at].rec = OrderRecord(o)
    BY <1>0, <1>3 DEF ReplayOrder, Reading
  <2>2. Seen' = Append(Seen, o)
    <3>1. queue' = Append(queue, o) /\ taken' = taken
      BY <1>3 DEF ReplayOrder
    <3>2. QED
      BY <3>1 DEF TypeOK, Seen
  <2>3. Range(Seen') = Range(Seen) \cup {o}
    BY <1>0, <2>2, RangeOfAppend
  <2>4. \A i \in 1..Len(file) : i < at' => i < at \/ i = at
    BY <1>0, <2>1
  <2>5. \A i \in 1..Len(file) : i < at' =>
          /\ file[i].rec # Garbage
          /\ \A p \in Ids : file[i].rec = OrderRecord(p) => p \in Range(Seen')
    BY <2>1, <2>3, <2>4, RecordsDiffer DEF ReplayedSoFar
  <2>6. \A p \in Range(Seen') :
          \E i \in 1..Len(file) : i < at' /\ file[i].rec = OrderRecord(p)
    BY <1>0, <2>1, <2>3 DEF ReplayedSoFar
  <2>7. QED
    BY <2>1, <2>5, <2>6 DEF ReplayedSoFar
<1>4. ASSUME NEW o \in Ids, ReplayCancel(o)
      PROVE  ReplayedSoFar'
  <2>1. /\ mode = "replaying" /\ file' = file /\ at' = at + 1
        /\ at \in 1..Len(file) /\ file[at].rec = CancelRecord(o)
    BY <1>0, <1>4 DEF ReplayCancel, Reading
  <2>2. Seen' = Seen
    BY <1>4 DEF ReplayCancel, Seen
  <2>3. \A i \in 1..Len(file) : i < at' => i < at \/ i = at
    BY <1>0, <2>1
  <2>4. file[at].rec # Garbage /\ \A p \in Ids : file[at].rec # OrderRecord(p)
    BY <2>1, RecordsDiffer
  <2>5. \A p \in Range(Seen') :
          \E i \in 1..Len(file) : i < at' /\ file[i].rec = OrderRecord(p)
    BY <1>0, <2>1, <2>2 DEF ReplayedSoFar
  <2>6. QED
    BY <2>1, <2>2, <2>3, <2>4, <2>5 DEF ReplayedSoFar
<1>5. CASE UNCHANGED vars
  BY <1>5 DEF vars, ReplayedSoFar, Seen
<1>6. CASE mode' # "replaying"
  BY <1>6 DEF ReplayedSoFar
<1>7. QED
  BY <1>1, <1>2, <1>3, <1>4, <1>5, <1>6 DEF Next, Replay, Send, LogOrder,
     LogOrderFails, Submit, Refuse, Cancel, LogCancel, LogCancelFails, Crash,
     ReplayFails, ReplayDone

LEMMA NextSeenWereLogged ==
  ASSUME TypeOK, OneLineEach, InFlight, SeenWereLogged, [Next]_vars
  PROVE  SeenWereLogged'
<1> USE DEF venue, client
<1>0. Seen \in Seq(Ids) /\ \A o \in Range(Seen) : o \in Ids
  BY SeenSteps, RangeOfSeq
<1>1. \A o \in Range(Seen) : place'[o] \notin {"unsent", "logging", "logged"}
  BY <1>0, RequestSteps DEF SeenWereLogged
<1>2. CASE Seen' = Seen
  BY <1>1, <1>2 DEF SeenWereLogged
<1>3. CASE Seen' = <<>>
  <2>1. Range(Seen') = {}
    BY <1>3 DEF Range
  <2>2. QED
    BY <2>1 DEF SeenWereLogged
<1>4. ASSUME NEW o \in Ids, Seen' = Append(Seen, o), Submit(o) \/ ReplayOrder(o)
      PROVE  SeenWereLogged'
  <2>1. Range(Seen') = Range(Seen) \cup {o}
    BY <1>0, <1>4, RangeOfAppend
  <2>2. CASE Submit(o)
    <3>1. place'[o] = "acked"
      BY <2>2 DEF Submit, TypeOK
    <3>2. QED
      BY <1>1, <2>1, <3>1 DEF SeenWereLogged
  <2>3. CASE ReplayOrder(o)
    <3>1. /\ at \in 1..Len(file) /\ file[at].rec = OrderRecord(o)
          /\ mode # "serving" /\ place' = place
      BY <2>3 DEF ReplayOrder, Reading, TypeOK
    <3>2. place'[o] \notin {"unsent", "logging", "logged"}
      BY <3>1 DEF OneLineEach, InFlight
    <3>3. QED
      BY <1>1, <2>1, <3>2 DEF SeenWereLogged
  <2>4. QED
    BY <1>4, <2>2, <2>3
<1>5. QED
  BY <1>2, <1>3, <1>4, SeenSteps

LEMMA NextAckedIsSeen ==
  ASSUME TypeOK, UnendedIsLast, AckedIsOnDisk, ReplayedSoFar, AckedIsSeen, [Next]_vars
  PROVE  AckedIsSeen'
<1> SUFFICES ASSUME mode' = "serving", NEW o \in Ids, place'[o] = "acked"
             PROVE  o \in Range(Seen')
  BY DEF AckedIsSeen
<1> USE DEF venue, client
<1>1. CASE ReplayDone
  <2>1. place[o] = "acked" /\ mode = "replaying" /\ Seen' = Seen
    BY <1>1 DEF ReplayDone, Seen
  <2>2. PICK i \in 1..Len(file) :
          file[i].ended /\ file[i].rec \in {OrderRecord(o), Garbage}
    BY <2>1 DEF AckedIsOnDisk, Kept
  <2>3. i < at
    <3>1. CASE at <= Len(file)
      <4>1. at \in 1..Len(file) /\ ~ file[at].ended
        BY <1>1, <3>1 DEF ReplayDone, TypeOK
      <4>2. at = Len(file) /\ i # at
        BY <2>2, <4>1 DEF UnendedIsLast, TypeOK
      <4>3. QED
        BY <4>2 DEF TypeOK
    <3>2. CASE ~ (at <= Len(file))
      BY <3>2 DEF TypeOK
    <3>3. QED
      BY <3>1, <3>2
  <2>4. QED
    BY <2>1, <2>2, <2>3 DEF ReplayedSoFar
<1>2. CASE Submit(o)
  <2>1. Seen \in Seq(Ids) /\ Seen' = Append(Seen, o)
    BY <1>2, SeenSteps DEF Submit, Seen, TypeOK
  <2>2. QED
    BY <2>1, RangeOfAppend
<1>3. CASE mode = "serving" /\ ~ Submit(o)
  <2>1. ~ Crash
    BY DEF Crash
  <2>2. place[o] = "acked"
    <3>1. CASE \E p \in Ids : \/ Send(p) \/ LogOrder(p) \/ LogOrderFails(p)
                              \/ Submit(p) \/ Refuse(p)
      BY <1>3, <3>1 DEF Send, LogOrder, LogOrderFails, Submit, Refuse, TypeOK
    <3>2. CASE UNCHANGED place
      BY <3>2
    <3>3. QED
      BY <2>1, <3>1, <3>2 DEF Next, vars, Cancel, LogCancel, LogCancelFails, Take,
         Restart, Replay, ReplayOrder, ReplayCancel, ReplayFails, ReplayDone
  <2>3. QED
    BY <1>3, <2>1, <2>2, SeenGrows DEF AckedIsSeen
<1>4. CASE mode # "serving" /\ ~ ReplayDone
  BY <1>4 DEF Next, vars, Send, LogOrder, LogOrderFails, Submit, Refuse, Cancel,
     LogCancel, LogCancelFails, Take, Crash, Restart, Replay, ReplayOrder,
     ReplayCancel, ReplayFails
<1>5. QED
  BY <1>1, <1>2, <1>3, <1>4

LEMMA NextTakenIsWorking ==
  ASSUME TypeOK, CancelsWereAsked, TakenIsWorking, [Next]_vars
  PROVE  TakenIsWorking'
<1> SUFFICES ASSUME NEW o \in Range(taken'), cancel'[o] = "unsent"
             PROVE  o \in book' \cup stops'
  BY DEF TakenIsWorking
<1> USE DEF venue, client
<1>0. \A p \in Range(taken) : p \in Ids
  BY RangeOfSeq DEF TypeOK
<1>1. CASE Take
  <2>1. Head(queue) \in Ids /\ cancel' = cancel
    BY <1>1, HeadTailProperties, EmptySeq DEF Take, TypeOK
  <2>2. Range(taken') = Range(taken) \cup {Head(queue)}
    BY <1>1, <2>1, RangeOfAppend DEF Take, TypeOK
  <2>3. book \cup stops \cup {Head(queue)} = book' \cup stops'
    BY <1>1 DEF Take
  <2>4. QED
    BY <2>1, <2>2, <2>3 DEF TakenIsWorking
<1>2. CASE Crash
  <2>1. taken' = <<>>
    BY <1>2 DEF Crash
  <2>2. Range(taken') = {}
    BY <2>1 DEF Range
  <2>3. QED
    BY <2>2
<1>3. ASSUME NEW p \in Ids, Cancel(p)
      PROVE  o \in book' \cup stops'
  <2>1. o \in Ids /\ o \in Range(taken)
    BY <1>0, <1>3 DEF Cancel
  <2>2. o # p /\ cancel[o] = "unsent"
    BY <1>3, <2>1 DEF Cancel, TypeOK
  <2>3. QED
    BY <1>3, <2>1, <2>2 DEF Cancel, TakenIsWorking
<1>4. ASSUME NEW p \in Ids, ReplayCancel(p)
      PROVE  o \in book' \cup stops'
  <2>1. at \in 1..Len(file) /\ file[at].rec = CancelRecord(p)
    BY <1>4 DEF ReplayCancel, Reading, TypeOK
  <2>2. cancel[p] # "unsent" /\ cancel' = cancel /\ taken' = taken
    BY <1>4, <2>1 DEF CancelsWereAsked, ReplayCancel
  <2>3. QED
    BY <1>4, <2>2 DEF ReplayCancel, TakenIsWorking
<1>5. ASSUME UNCHANGED <<taken, book, stops>>
      PROVE  o \in book' \cup stops'
  <2>1. o \in Range(taken) /\ o \in Ids
    BY <1>0, <1>5
  <2>2. cancel[o] = "unsent"
    BY <2>1, RequestSteps
  <2>3. QED
    BY <1>5, <2>1, <2>2 DEF TakenIsWorking
<1>6. QED
  BY <1>1, <1>2, <1>3, <1>4, <1>5 DEF Next, vars, Send, LogOrder, LogOrderFails, Submit,
     Refuse, LogCancel, LogCancelFails, Restart, Replay, ReplayOrder, ReplayFails,
     ReplayDone

LEMMA NextExactlyOnce ==
  ASSUME TypeOK, OneLineEach, ReplayedSoFar, SeenWereLogged, ExactlyOnce, [Next]_vars
  PROVE  ExactlyOnce'
<1>0. Seen \in Seq(Ids)
  BY SeenSteps
<1>1. CASE Seen' = Seen
  BY <1>1 DEF ExactlyOnce
<1>2. CASE Seen' = <<>>
  BY <1>2 DEF ExactlyOnce
<1>3. ASSUME NEW o \in Ids, Seen' = Append(Seen, o), Submit(o) \/ ReplayOrder(o)
      PROVE  ExactlyOnce'
  <2>1. o \notin Range(Seen)
    BY <1>3, NewIsNotSeen
  <2>2. /\ Len(Seen) \in Nat /\ DOMAIN Seen = 1..Len(Seen)
        /\ DOMAIN Seen' = 1..(Len(Seen) + 1)
        /\ \A i \in 1..Len(Seen) : Seen'[i] = Seen[i] /\ Seen[i] # o
        /\ Seen'[Len(Seen) + 1] = o
    BY <1>0, <1>3, <2>1, AppendProperties DEF Range
  <2>3. \A i \in 1..(Len(Seen) + 1) : i \in 1..Len(Seen) \/ i = Len(Seen) + 1
    BY <2>2
  <2>4. QED
    BY <2>2, <2>3 DEF ExactlyOnce
<1>4. QED
  BY <1>1, <1>2, <1>3, SeenSteps

\* What an order must come after has joined the sequence before it does.
LEMMA AheadIsSeen ==
  ASSUME RecoveryAssumption, TypeOK, OneLineEach, DiskOrder, ReplayedSoFar, AckedIsSeen,
         NEW o \in Ids, Submit(o) \/ ReplayOrder(o), NEW p \in after[o]
  PROVE  p \in Range(Seen)
<1>1. p \in Ids /\ place[p] = "acked"
  BY DEF DiskOrder, TypeOK
<1>2. CASE Submit(o)
  BY <1>1, <1>2 DEF Submit, AckedIsSeen
<1>3. CASE ReplayOrder(o)
  <2>1. at \in 1..Len(file) /\ file[at].rec = OrderRecord(o) /\ mode = "replaying"
    BY <1>3 DEF ReplayOrder, Reading, TypeOK
  <2>2. PICK i \in 1..(at - 1) : file[i].rec \in {OrderRecord(p), Garbage}
    BY <2>1 DEF DiskOrder, Kept
  <2>3. i \in 1..Len(file) /\ i < at
    BY <2>1 DEF TypeOK
  <2>4. QED
    BY <1>1, <2>1, <2>2, <2>3 DEF ReplayedSoFar
<1>4. QED
  BY <1>2, <1>3

LEMMA NextAckOrderKept ==
  ASSUME RecoveryAssumption, TypeOK, OneLineEach, DiskOrder, ReplayedSoFar,
         SeenWereLogged, AckedIsSeen, AckOrderKept, [Next]_vars
  PROVE  AckOrderKept'
<1> USE DEF venue, client
<1>0. /\ Seen \in Seq(Ids) /\ Len(Seen) \in Nat /\ DOMAIN Seen = 1..Len(Seen)
      /\ \A i \in 1..Len(Seen) : Seen[i] \in Ids /\ Seen[i] \in Range(Seen)
  BY SeenSteps, ElementOfSeq DEF Range
<1>1. \A i \in 1..Len(Seen) : after'[Seen[i]] = after[Seen[i]]
  BY <1>0, AfterSteps DEF SeenWereLogged
<1>2. CASE Seen' = Seen
  BY <1>0, <1>1, <1>2 DEF AckOrderKept
<1>3. CASE Seen' = <<>>
  BY <1>3 DEF AckOrderKept
<1>4. ASSUME NEW o \in Ids, Seen' = Append(Seen, o), Submit(o) \/ ReplayOrder(o)
      PROVE  AckOrderKept'
  <2>1. /\ DOMAIN Seen' = 1..(Len(Seen) + 1)
        /\ \A i \in 1..Len(Seen) : Seen'[i] = Seen[i]
        /\ Seen'[Len(Seen) + 1] = o
    BY <1>0, <1>4, AppendProperties
  <2>2. after' = after
    BY <1>4 DEF Submit, ReplayOrder
  <2>3. ASSUME NEW i \in 1..Len(Seen), NEW p \in after'[Seen'[i]]
        PROVE  \E j \in 1..(i - 1) : Seen'[j] = p
    <3>1. PICK j \in 1..(i - 1) : Seen[j] = p
      BY <1>0, <2>1, <2>2, <2>3 DEF AckOrderKept
    <3>2. j \in 1..Len(Seen)
      BY <1>0
    <3>3. QED
      BY <2>1, <3>1, <3>2
  <2>4. ASSUME NEW p \in after'[o]
        PROVE  \E j \in 1..Len(Seen) : Seen'[j] = p
    <3>1. p \in Range(Seen)
      BY <1>4, <2>2, <2>4, AheadIsSeen
    <3>2. QED
      BY <1>0, <2>1, <3>1 DEF Range
  <2>5. (Len(Seen) + 1) - 1 = Len(Seen)
    BY <1>0
  <2>6. \A i \in 1..(Len(Seen) + 1) : i \in 1..Len(Seen) \/ i = Len(Seen) + 1
    BY <1>0
  <2>7. QED
    BY <2>1, <2>3, <2>4, <2>5, <2>6 DEF AckOrderKept
<1>5. QED
  BY <1>2, <1>3, <1>4, SeenSteps

-----------------------------------------------------------------------------
(* The theorems *)

LEMMA InitInv ==
  ASSUME RecoveryAssumption, Init
  PROVE  Inv
<1>1. Seen = <<>> /\ Len(file) = 0
  BY EmptySeq, ConcatProperties DEF Init, Seen
<1>2. Range(Seen) = {} /\ Range(taken) = {}
  BY <1>1 DEF Init, Range
<1>3. TypeOK
  BY EmptySeq DEF Init, TypeOK, RecoveryAssumption
<1>4. /\ UnendedIsLast /\ OneLineEach /\ CancelsWereAsked /\ AckedIsOnDisk
      /\ DiskOrder /\ InFlight /\ ReplayedSoFar
  BY <1>1 DEF Init, UnendedIsLast, OneLineEach, CancelsWereAsked, AckedIsOnDisk,
     DiskOrder, InFlight, ReplayedSoFar
<1>5. SeenWereLogged /\ AckedIsSeen /\ TakenIsWorking
  BY <1>2 DEF Init, SeenWereLogged, AckedIsSeen, TakenIsWorking
<1>6. ExactlyOnce /\ AckOrderKept
  BY <1>1 DEF ExactlyOnce, AckOrderKept
<1>7. QED
  BY <1>3, <1>4, <1>5, <1>6 DEF Inv

\* Every step, a crash in the middle of a write or of a replay among them,
\* keeps the log, the requests and the running process in agreement.
THEOREM Invariance == Spec => []Inv
<1> USE RecoveryAssumption
<1>1. Init => Inv
  BY InitInv
<1>2. Inv /\ [Next]_vars => Inv'
  <2> SUFFICES ASSUME Inv, [Next]_vars PROVE Inv'
    OBVIOUS
  <2>1. /\ TypeOK' /\ UnendedIsLast' /\ OneLineEach' /\ CancelsWereAsked'
        /\ AckedIsOnDisk' /\ DiskOrder' /\ InFlight'
    BY NextType, NextUnendedIsLast, NextOneLineEach, NextCancelsWereAsked,
       NextAckedIsOnDisk, NextDiskOrder, NextInFlight DEF Inv
  <2>2. ReplayedSoFar' /\ SeenWereLogged' /\ AckedIsSeen' /\ TakenIsWorking'
    BY NextReplayedSoFar, NextSeenWereLogged, NextAckedIsSeen, NextTakenIsWorking DEF Inv
  <2>3. ExactlyOnce' /\ AckOrderKept'
    BY NextExactlyOnce, NextAckOrderKept DEF Inv
  <2>4. QED
    BY <2>1, <2>2, <2>3 DEF Inv
<1>3. QED
  BY <1>1, <1>2, PTL DEF Spec

\* No process puts an order to the engine twice, whatever the log of earlier
\* processes holds.
THEOREM NoOrderTwice == Spec => []ExactlyOnce
<1>1. Inv => ExactlyOnce
  BY DEF Inv
<1>2. QED
  BY <1>1, Invariance, PTL

\* An order sent after another was acknowledged is behind it in every process
\* that sees it.
THEOREM OrderSurvives == Spec => []AckOrderKept
<1>1. Inv => AckOrderKept
  BY DEF Inv
<1>2. QED
  BY <1>1, Invariance, PTL

\* An acknowledged order that nobody tried to cancel is working whenever the
\* server serves: the log held it, and its replay reached it.
THEOREM AckedSurvives == Spec => []AckedIsWorking
<1>1. Inv => AckedIsWorking
  <2> SUFFICES ASSUME Inv, mode = "serving", NEW o \in Ids,
                      place[o] = "acked", cancel[o] = "unsent"
               PROVE  o \in Range(queue) \cup book \cup stops
    BY DEF AckedIsWorking
  <2>1. o \in Range(taken) \cup Range(queue)
    BY RangeOfConcat DEF Inv, AckedIsSeen, Seen, TypeOK
  <2>2. QED
    BY <2>1 DEF Inv, TakenIsWorking
<1>2. QED
  BY <1>1, Invariance, PTL

\* Every variable keeps its type.
THEOREM TypeCorrect == Spec => []TypeOK
<1>1. Inv => TypeOK
  BY DEF Inv
<1>2. QED
  BY <1>1, Invariance, PTL

=============================================================================
