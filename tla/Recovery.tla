------------------------------ MODULE Recovery ------------------------------
(***************************************************************************)
(* The write-ahead log and what survives a crash: internal/wal, the parts  *)
(* of PlaceOrder and CancelOrder that use it, and the replay in            *)
(* cmd/main.go, which feeds a matching engine that is already running.     *)
(*                                                                         *)
(* Matching itself is in Engine.  Here an order that the engine takes      *)
(* stays in the book, or among the stops if it is one, until cancelled:    *)
(* what trades depends only on the sequence of orders taken and cancelled, *)
(* which is what this module is about.                                     *)
(*                                                                         *)
(* The log's mutex makes an append one step.  A crash, or a failing disk,  *)
(* may leave any prefix of the line being written.                         *)
(***************************************************************************)
EXTENDS Naturals, Sequences, Functions

CONSTANTS
  Ids,         \* order IDs (UUIDs: never reused)
  StopIds,     \* the orders that are stops
  QueueCap,    \* capacity of orderChan
  DiskFails,   \* whether a write or a sync may return an error
  MaxCrashes,  \* bound on crashes, for TLC
  Garbage      \* a line that does not parse

Record == [kind: {"order", "cancel"}, id: Ids]

ASSUME RecoveryAssumption ==
  /\ StopIds \subseteq Ids
  /\ QueueCap \in Nat \ {0}
  /\ DiskFails \in BOOLEAN
  /\ MaxCrashes \in Nat
  /\ Garbage \notin Record

VARIABLES
  file,     \* the lines on disk: a record or Garbage, with or without its newline
  mode,     \* "serving", "replaying", "down", or "refused" to start
  at,       \* the next line to replay
  queue,    \* orderChan
  taken,    \* what the engine has taken off it since the process started
  book,     \* live resting orders
  stops,    \* pending stops
  place,    \* place[o]: where the POST request for o is
  cancel,   \* cancel[o]: where the DELETE request for o is
  after,    \* after[o]: the orders acknowledged before o was sent
  crashes

venue  == <<queue, taken, book, stops>>
client == <<place, cancel, after>>
vars   == <<file, mode, at, queue, taken, book, stops, place, cancel, after, crashes>>

-----------------------------------------------------------------------------

OrderRecord(o)  == [kind |-> "order", id |-> o]
CancelRecord(o) == [kind |-> "cancel", id |-> o]
Line == [rec: Record \cup {Garbage}, ended: BOOLEAN]

Torn == file # <<>> /\ ~ file[Len(file)].ended

\* The log after a write.  The file is opened for appending wherever it ends:
\* after a torn line the two become one that does not parse.
Written(rec, ended) ==
  IF Torn THEN [file EXCEPT ![Len(file)] = [rec |-> Garbage, ended |-> ended]]
          ELSE Append(file, [rec |-> rec, ended |-> ended])

\* The log after a write that was cut short: nothing, part of the record, the
\* record without its newline, or all of it.
CutShort(rec) ==
  {file, Written(Garbage, FALSE), Written(rec, FALSE), Written(rec, TRUE)}

Init ==
  /\ file = <<>>
  /\ mode = "serving"
  /\ at = 1
  /\ queue = <<>> /\ taken = <<>>
  /\ book = {} /\ stops = {}
  /\ place = [o \in Ids |-> "unsent"]
  /\ cancel = [o \in Ids |-> "unsent"]
  /\ after = [o \in Ids |-> {}]
  /\ crashes = 0

-----------------------------------------------------------------------------
(* POST /order: record, then submit, then answer *)

Send(o) ==
  /\ mode = "serving" /\ place[o] = "unsent"
  /\ place' = [place EXCEPT ![o] = "logging"]
  /\ after' = [after EXCEPT ![o] = {p \in Ids : place[p] = "acked"}]
  /\ UNCHANGED <<file, mode, at, venue, cancel, crashes>>

\* Mutant: the write may still be in a buffer when the request goes on.
LogOrder_Unsynced(o) ==
  /\ mode = "serving" /\ place[o] = "logging"
  /\ file' \in {file, Written(OrderRecord(o), TRUE)}
  /\ place' = [place EXCEPT ![o] = "logged"]
  /\ UNCHANGED <<mode, at, venue, cancel, after, crashes>>

LogOrder(o) ==
  /\ mode = "serving" /\ place[o] = "logging"
  /\ file' = Written(OrderRecord(o), TRUE)
  /\ place' = [place EXCEPT ![o] = "logged"]
  /\ UNCHANGED <<mode, at, venue, cancel, after, crashes>>

\* 500: the order is not submitted.
LogOrderFails(o) ==
  /\ DiskFails
  /\ mode = "serving" /\ place[o] = "logging"
  /\ file' \in CutShort(OrderRecord(o))
  /\ place' = [place EXCEPT ![o] = "failed"]
  /\ UNCHANGED <<mode, at, venue, cancel, after, crashes>>

\* 201.
Submit(o) ==
  /\ mode = "serving" /\ place[o] = "logged"
  /\ Len(queue) < QueueCap
  /\ queue' = Append(queue, o)
  /\ place' = [place EXCEPT ![o] = "acked"]
  /\ UNCHANGED <<file, mode, at, taken, book, stops, cancel, after, crashes>>

\* 503: the channel is full.
Refuse(o) ==
  /\ mode = "serving" /\ place[o] = "logged"
  /\ Len(queue) >= QueueCap
  /\ place' = [place EXCEPT ![o] = "refused"]
  /\ UNCHANGED <<file, mode, at, venue, cancel, after, crashes>>

-----------------------------------------------------------------------------
(* DELETE /order/{id}: cancel, then record, then answer.  A client knows an  *)
(* ID once its order is acknowledged.  A 404 changes nothing.                *)

Cancel(o) ==
  /\ mode = "serving" /\ place[o] = "acked" /\ cancel[o] = "unsent"
  /\ o \in book \cup stops
  /\ book' = book \ {o}
  /\ stops' = stops \ {o}
  /\ cancel' = [cancel EXCEPT ![o] = "logging"]
  /\ UNCHANGED <<file, mode, at, queue, taken, place, after, crashes>>

LogCancel(o) ==
  /\ mode = "serving" /\ cancel[o] = "logging"
  /\ file' = Written(CancelRecord(o), TRUE)
  /\ cancel' = [cancel EXCEPT ![o] = "acked"]
  /\ UNCHANGED <<mode, at, venue, place, after, crashes>>

\* The error is only logged, and the client is told 200 all the same.
LogCancelFails(o) ==
  /\ DiskFails
  /\ mode = "serving" /\ cancel[o] = "logging"
  /\ file' \in CutShort(CancelRecord(o))
  /\ cancel' = [cancel EXCEPT ![o] = "acked"]
  /\ UNCHANGED <<mode, at, venue, place, after, crashes>>

-----------------------------------------------------------------------------
(* The matching goroutine runs during replay and service alike *)

\* Mutant: the engines are started only after the replay.
Take_OnlyServing ==
  /\ mode = "serving" /\ queue # <<>>
  /\ taken' = Append(taken, Head(queue))
  /\ queue' = Tail(queue)
  /\ IF Head(queue) \in StopIds
     THEN stops' = stops \cup {Head(queue)} /\ UNCHANGED book
     ELSE book' = book \cup {Head(queue)} /\ UNCHANGED stops
  /\ UNCHANGED <<file, mode, at, client, crashes>>

Take ==
  /\ mode \in {"serving", "replaying"} /\ queue # <<>>
  /\ taken' = Append(taken, Head(queue))
  /\ queue' = Tail(queue)
  /\ IF Head(queue) \in StopIds
     THEN stops' = stops \cup {Head(queue)} /\ UNCHANGED book
     ELSE book' = book \cup {Head(queue)} /\ UNCHANGED stops
  /\ UNCHANGED <<file, mode, at, client, crashes>>

-----------------------------------------------------------------------------
(* Crash and replay *)

\* A request without its answer never gets one.  One that was appending may
\* have written part of its line; the mutex lets no two write at once.
Crash ==
  /\ mode \in {"serving", "replaying"} /\ crashes < MaxCrashes
  /\ crashes' = crashes + 1
  /\ mode' = "down"
  /\ \/ UNCHANGED file
     \/ \E o \in Ids : place[o] = "logging" /\ file' \in CutShort(OrderRecord(o))
     \/ \E o \in Ids : cancel[o] = "logging" /\ file' \in CutShort(CancelRecord(o))
  /\ queue' = <<>> /\ taken' = <<>>
  /\ book' = {} /\ stops' = {}
  /\ place' = [o \in Ids |-> IF place[o] \in {"logging", "logged"} THEN "lost" ELSE place[o]]
  /\ cancel' = [o \in Ids |-> IF cancel[o] = "logging" THEN "lost" ELSE cancel[o]]
  /\ UNCHANGED <<at, after>>

\* Mutant: line numbers start at 0.
Restart_AtZero ==
  /\ mode = "down"
  /\ mode' = "replaying"
  /\ at' = 0
  /\ UNCHANGED <<file, venue, client, crashes>>

Restart ==
  /\ mode = "down"
  /\ mode' = "replaying"
  /\ at' = 1
  /\ UNCHANGED <<file, venue, client, crashes>>

Reading(rec) == mode = "replaying" /\ at <= Len(file) /\ file[at].rec = rec

\* Mutant: replay goes through the path that records.
ReplayOrder_LogsAgain(o) ==
  /\ Reading(OrderRecord(o))
  /\ Len(queue) < QueueCap
  /\ queue' = Append(queue, o)
  /\ at' = at + 1
  /\ file' = Written(OrderRecord(o), TRUE)
  /\ UNCHANGED <<mode, taken, book, stops, client, crashes>>

\* SubmitBlocking: waits for space.
ReplayOrder(o) ==
  /\ Reading(OrderRecord(o))
  /\ Len(queue) < QueueCap
  /\ queue' = Append(queue, o)
  /\ at' = at + 1
  /\ UNCHANGED <<file, mode, taken, book, stops, client, crashes>>

\* The book only, whether or not the order has reached it.
ReplayCancel(o) ==
  /\ Reading(CancelRecord(o))
  /\ book' = book \ {o}
  /\ at' = at + 1
  /\ UNCHANGED <<file, mode, queue, taken, stops, client, crashes>>

\* A line that ends and does not parse: the process exits.
ReplayFails ==
  /\ Reading(Garbage) /\ file[at].ended
  /\ mode' = "refused"
  /\ UNCHANGED <<file, at, venue, client, crashes>>

\* Mutant: the server accepts traffic before the log has been read.
ReplayDone_Early ==
  /\ mode = "replaying"
  /\ mode' = "serving"
  /\ UNCHANGED <<file, at, venue, client, crashes>>

\* The end of the file, or a torn line, which can only be the last.  Drain
\* gives up after ten seconds and its answer is ignored, so the queue need not
\* be empty when the server starts.
ReplayDone ==
  /\ mode = "replaying"
  /\ at <= Len(file) => file[at].rec = Garbage /\ ~ file[at].ended
  /\ mode' = "serving"
  /\ UNCHANGED <<file, at, venue, client, crashes>>

Replay == (\E o \in Ids : ReplayOrder(o) \/ ReplayCancel(o)) \/ ReplayFails \/ ReplayDone

Next ==
  \/ \E o \in Ids :
       \/ Send(o) \/ LogOrder(o) \/ LogOrderFails(o) \/ Submit(o) \/ Refuse(o)
       \/ Cancel(o) \/ LogCancel(o) \/ LogCancelFails(o)
  \/ Take \/ Crash \/ Restart \/ Replay

Spec == Init /\ [][Next]_vars

\* The matching goroutine and the replaying one keep running.
FairSpec == Spec /\ WF_vars(Take) /\ WF_vars(Replay)

-----------------------------------------------------------------------------
(* Properties *)

\* Every variable keeps the shape the code's types give it.
TypeOK ==
  /\ file \in Seq(Line)
  /\ mode \in {"serving", "replaying", "down", "refused"}
  /\ at \in Nat \ {0}
  /\ queue \in Seq(Ids) /\ taken \in Seq(Ids)
  /\ book \subseteq Ids /\ stops \subseteq Ids
  /\ place \in [Ids -> {"unsent", "logging", "logged", "acked", "refused", "failed", "lost"}]
  /\ cancel \in [Ids -> {"unsent", "logging", "acked", "lost"}]
  /\ after \in [Ids -> SUBSET Ids]
  /\ crashes \in 0..MaxCrashes

\* The orders this process has put to the engine, in order.
Seen == taken \o queue

\* An order that was acknowledged and that nobody tried to cancel is working
\* whenever the server accepts requests, however often it crashed and wherever
\* the log was torn.
AckedIsWorking ==
  mode = "serving" =>
    \A o \in Ids : place[o] = "acked" /\ cancel[o] = "unsent" =>
      o \in Range(queue) \cup book \cup stops

\* No process ever puts an order to the engine twice, though it may have come
\* from a client or from the log, which a recovered process appends to again.
ExactlyOnce == \A i, j \in DOMAIN Seen : Seen[i] = Seen[j] => i = j

\* An order sent after another was acknowledged comes after it in every
\* process that sees it, before a crash and after.
AckOrderKept ==
  \A i \in DOMAIN Seen : \A p \in after[Seen[i]] :
    \E j \in 1..(i - 1) : Seen[j] = p

\* Replay ends, though it waits for space in a channel shorter than the log.
ReplayEnds == (mode = "replaying") ~> (mode # "replaying")

-----------------------------------------------------------------------------
(* The inductive invariant of RecoveryProofs *)

\* Only the last line may lack its newline.
UnendedIsLast == \A i \in 1..Len(file) : i < Len(file) => file[i].ended

\* Each order has at most one line, and none before its request writes it.
OneLineEach ==
  \A o \in Ids : \A i \in 1..Len(file) : file[i].rec = OrderRecord(o) =>
    /\ place[o] \notin {"unsent", "logging"}
    /\ \A j \in 1..Len(file) : file[j].rec = OrderRecord(o) => i = j

CancelsWereAsked ==
  \A o \in Ids : \A i \in 1..Len(file) :
    file[i].rec = CancelRecord(o) => cancel[o] # "unsent"

\* Among the first n lines, o has one that will stay, or one that will keep
\* the process from starting.
Kept(o, n) ==
  \E i \in 1..n : file[i].ended /\ file[i].rec \in {OrderRecord(o), Garbage}

AckedIsOnDisk ==
  \A o \in Ids : place[o] \in {"logged", "acked", "refused"} => Kept(o, Len(file))

\* What was acknowledged before an order was sent is ahead of it in the log.
DiskOrder ==
  \A o \in Ids : \A p \in after[o] :
    /\ place[p] = "acked"
    /\ \A k \in 1..Len(file) : file[k].rec = OrderRecord(o) => Kept(p, k - 1)

InFlight ==
  /\ mode # "serving" => \A o \in Ids : place[o] \notin {"logging", "logged"}
  /\ mode = "down" => queue = <<>> /\ taken = <<>>

\* The replaying process has put to the engine the lines it has read.
ReplayedSoFar ==
  mode = "replaying" =>
    /\ \A i \in 1..Len(file) : i < at =>
         /\ file[i].rec # Garbage
         /\ \A o \in Ids : file[i].rec = OrderRecord(o) => o \in Range(Seen)
    /\ \A o \in Range(Seen) :
         \E i \in 1..Len(file) : i < at /\ file[i].rec = OrderRecord(o)

SeenWereLogged ==
  \A o \in Range(Seen) : place[o] \notin {"unsent", "logging", "logged"}

AckedIsSeen ==
  mode = "serving" => \A o \in Ids : place[o] = "acked" => o \in Range(Seen)

TakenIsWorking ==
  \A o \in Range(taken) : cancel[o] = "unsent" => o \in book \cup stops

Inv == /\ TypeOK /\ UnendedIsLast /\ OneLineEach /\ CancelsWereAsked
       /\ AckedIsOnDisk /\ DiskOrder /\ InFlight /\ ReplayedSoFar
       /\ SeenWereLogged /\ AckedIsSeen /\ TakenIsWorking
       /\ ExactlyOnce /\ AckOrderKept

-----------------------------------------------------------------------------
(* What comments and documents say, and the code does not do *)

\* README: a request refused with 503 is safe to retry; so the refused order
\* itself does not run.
RefusedNeverRuns == \A o \in Range(taken) : place[o] # "refused"

\* wal: replaying the log in order reconstructs the book exactly; so a logged
\* cancel still holds once the replayed orders have been taken.
CancelSurvives ==
  mode = "serving" /\ queue = <<>> =>
    \A o \in book \cup stops : cancel[o] # "acked"

\* wal: a truncated final line is tolerated, for a crash in the middle of a
\* write is what the log exists for; so crashes alone do not make it unreadable.
LogStaysReadable == mode # "refused"

=============================================================================
