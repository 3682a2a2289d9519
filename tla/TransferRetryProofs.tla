------------------------- MODULE TransferRetryProofs ------------------------
(***************************************************************************)
(* Theorems about the streams of Transfer and the retry: a file is listed  *)
(* at most twice, no task waits for an answer that nobody is to give, what *)
(* is told is final, and what the retry cannot do, for any number of       *)
(* files, connections and pool entries, and whatever breaks.               *)
(***************************************************************************)
EXTENDS TransferProofs

-----------------------------------------------------------------------------
(* Where a stream is.  A connection has seats: seat 0 is its handler's, seat  *)
(* k the kth of its inbox.                                                    *)

Seat(c, k) == IF k = 0 THEN rxPc[c] # "accept" ELSE k \in 1 .. Len(inbox[c])
At(c, k)   == IF k = 0 THEN rxReq[c] ELSE inbox[c][k]

StreamOf(t, a) == [transfer |-> t, attempt |-> a]

InFlight(t, a) == \E c \in Conns, k \in Nat : Seat(c, k) /\ At(c, k) = StreamOf(t, a)

\* Attempt a of t has opened no stream.
Unsent(t, a) ==
    \/ pc[t] \in {"none", "ticket", "dropped", "start", "lookup"}
    \/ pc[t] = "try" /\ attempt[t] <= a
    \/ a = 2 /\ pc[t] \in {"connect", "dial"}
    \/ a = 2 /\ pc[t] \in {"wait", "finish", "store"} /\ attempt[t] = 1

\* What attempt a may still add to the receiving application's list.
Left(t, a) == IF Unsent(t, a) \/ InFlight(t, a) THEN 1 ELSE 0

\* A stream is at one place, ...
Exclusive ==
    \A c, d \in Conns : \A k, l \in Nat :
        Seat(c, k) /\ Seat(d, l) /\ At(c, k) = At(d, l) => c = d /\ k = l

\* ... and somebody has sent it.
SentOnly ==
    \A c \in Conns : \A k \in Nat :
        Seat(c, k) => ~Unsent(At(c, k).transfer, At(c, k).attempt)

\* What is listed and what may yet be are no more than two.
Budget == \A t \in Transfers : received[t] + Left(t, 1) + Left(t, 2) <= 2

Streams == Exclusive /\ SentOnly /\ Budget

\* The stream that a step has opened is at the end of its inbox.
Opened(c, k) ==
    \E t \in Transfers :
        /\ OpenStream(t) /\ conn[t] = c
        /\ k = Len(inbox[c]) + 1
        /\ inbox'[c] = Append(inbox[c], StreamOf(t, attempt[t]))

LEMMA StreamFields ==
  ASSUME NEW t, NEW a
  PROVE  StreamOf(t, a).transfer = t /\ StreamOf(t, a).attempt = a
  BY DEF StreamOf

LEMMA SeatTyped ==
  ASSUME TInv, NEW c \in Conns, NEW k \in Nat, Seat(c, k)
  PROVE  At(c, k) \in Stream
  BY DEF TInv, StreamTypes, HandlerTypes, Seat, At

\* The three things that can happen to a connection.
LEMMA ConnMoves ==
  ASSUME TInv, [Next]_vars, NEW c \in Conns
  PROVE  \/ /\ inbox'[c] \in {inbox[c], <<>>}
            /\ rxPc'[c] = "accept" \/ (rxPc[c] # "accept" /\ rxReq'[c] = rxReq[c])
         \/ Accept(c)
         \/ \E t \in Transfers : OpenStream(t) /\ conn[t] = c
  <1> DEFINE Kept == /\ inbox'[c] \in {inbox[c], <<>>}
                     /\ rxPc'[c] = "accept" \/ (rxPc[c] # "accept" /\ rxReq'[c] = rxReq[c])
  <1> USE DEF TInv, StreamTypes, HandlerTypes
  <1>1. ASSUME NEW d \in Conns, Handler(d), d # c
        PROVE  Kept
    BY <1>1 DEF PeerStep, Handler, Accept, RequestFails, Download, Export, Ack, AckFails, Callback, HandlerEnds
  <1>2. CASE Handler(c) /\ ~Accept(c)
    BY <1>2 DEF PeerStep, Handler, RequestFails, Download, Export, Ack, AckFails, Callback, HandlerEnds
  <1>3. ASSUME NEW t \in Transfers, SendTask(t), ~OpenStream(t)
        PROVE  Kept
    <2>1. UNCHANGED inbox
      BY <1>3 DEF SendTask, Begin, Finish, DialFails, GiveUp, Acked, PoolHit, PoolMiss, ConnectPooled,
            ConnectMiss, Retry, DialOk, Store, Use
    <2> QED
      BY <1>3, <2>1, TaskLeaves
  <1>4. ASSUME NEW t \in Transfers, OpenStream(t), conn[t] # c
        PROVE  Kept
    <2>1. inbox'[c] = inbox[c]
      BY <1>4 DEF OpenStream
    <2>2. UNCHANGED <<rxPc, rxReq>>
      BY <1>4 DEF OpenStream, TaskStep
    <2> QED
      BY <2>1, <2>2
  <1>5. CASE Call \/ (\E n \in 1 .. MaxBatch : SendFiles(n)) \/ Api
    BY <1>5 DEF Call, SendFiles, FileMissing, Register, TicketFails, Spawn, AllSpawned,
          AllReported, AbandonCall, sfRest, peerVars,
          Api, CancelTransfer, CancelHandle, CleanupStale, CleanupFinished, apiRest
  <1>6. CASE \/ (\E d \in Conns : Break(d)) \/ (\E t \in Downloadable : DownloadFromTicket(t))
             \/ Listen \/ UNCHANGED vars
    BY <1>6 DEF Break, DownloadFromTicket, Listen, vars, peerVars
  <1>7. CASE PeerRestarts
    BY <1>7 DEF PeerRestarts
  <1> QED
    BY <1>1, <1>2, <1>3, <1>4, <1>5, <1>6, <1>7 DEF Next

\* An accept moves the streams of its connection forward by a seat.
Shift(c) == IF rxPc[c] = "accept" /\ rxPc'[c] = "download" THEN 1 ELSE 0

\* A seated stream was seated before, or has just been opened.
LEMMA SeatsMove ==
  ASSUME TInv, [Next]_vars, NEW c \in Conns, NEW k \in Nat, Seat(c, k)'
  PROVE  \/ Seat(c, k + Shift(c)) /\ At(c, k)' = At(c, k + Shift(c))
         \/ Opened(c, k) /\ At(c, k)' = inbox'[c][k]
  <1>0. inbox[c] \in Seq(Stream)
    BY DEF TInv, StreamTypes
  <1>1. CASE /\ inbox'[c] \in {inbox[c], <<>>}
             /\ rxPc'[c] = "accept" \/ (rxPc[c] # "accept" /\ rxReq'[c] = rxReq[c])
    BY <1>0, <1>1 DEF Seat, At, Shift
  <1>2. CASE Accept(c)
    <2>1. /\ inbox[c] # <<>> /\ inbox'[c] = Tail(inbox[c]) /\ rxPc[c] = "accept"
          /\ rxPc'[c] = "download" /\ rxReq'[c] = inbox[c][1]
      BY <1>0, <1>2 DEF Accept, PeerStep, TInv, StreamTypes, HandlerTypes
    <2>2. Len(inbox[c]) \in Nat \ {0} /\ Len(inbox'[c]) = Len(inbox[c]) - 1
      BY <1>0, <2>1
    <2>3. \A i \in 1 .. Len(inbox'[c]) : inbox'[c][i] = inbox[c][i + 1]
      BY <1>0, <2>1
    <2>4. Shift(c) = 1
      BY <2>1 DEF Shift
    <2>5. CASE k = 0
      BY <2>1, <2>2, <2>4, <2>5 DEF Seat, At
    <2>6. CASE k # 0
      BY <2>2, <2>3, <2>4, <2>6 DEF Seat, At
    <2> QED
      BY <2>5, <2>6
  <1>3. ASSUME NEW t \in Transfers, OpenStream(t), conn[t] = c
        PROVE  \/ Seat(c, k + Shift(c)) /\ At(c, k)' = At(c, k + Shift(c))
               \/ Opened(c, k) /\ At(c, k)' = inbox'[c][k]
    <2>1. /\ inbox'[c] = Append(inbox[c], StreamOf(t, attempt[t]))
          /\ UNCHANGED <<rxPc, rxReq>>
      BY <1>3 DEF OpenStream, TaskStep, StreamOf, TInv, StreamTypes
    <2>2. StreamOf(t, attempt[t]) \in Stream
      BY DEF TInv, TaskTypes, Stream, StreamOf
    <2>3. /\ Len(inbox'[c]) = Len(inbox[c]) + 1
          /\ \A i \in 1 .. Len(inbox[c]) : inbox'[c][i] = inbox[c][i]
      BY <1>0, <2>1, <2>2
    <2>4. \/ Seat(c, k) /\ At(c, k)' = At(c, k)
          \/ k = Len(inbox[c]) + 1 /\ At(c, k)' = inbox'[c][k]
      BY <1>0, <2>1, <2>3 DEF Seat, At
    <2>5. Shift(c) = 0 /\ k + 0 = k
      BY <2>1 DEF Shift
    <2> QED
      BY <1>3, <2>1, <2>4, <2>5 DEF Opened
  <1> QED
    BY <1>1, <1>2, <1>3, ConnMoves

-----------------------------------------------------------------------------
(* A retry duplicates a file at most once.                                    *)

\* What has been sent stays sent, and opening a stream sends it.
LEMMA UnsentEnds ==
  ASSUME TInv, Progress, [Next]_vars, NEW t \in Transfers, NEW a \in {1, 2}, Unsent(t, a)'
  PROVE  Unsent(t, a) /\ ~(OpenStream(t) /\ attempt[t] = a)
  <1> USE DEF TInv, TaskTypes
  <1>1. ASSUME NEW s \in Transfers, SendTask(s), s # t
        PROVE  pc'[t] = pc[t] /\ attempt'[t] = attempt[t]
    BY <1>1 DEF TaskStep, SendTask, Begin, Finish, DialFails, GiveUp, Acked, PoolHit, PoolMiss,
          ConnectPooled, ConnectMiss, Retry, DialOk, OpenStream, Store, Use
  <1>2. CASE OpenStream(t)
    BY <1>2 DEF OpenStream, TaskStep, Unsent
  <1>3. CASE Begin(t) \/ Finish(t) \/ DialFails(t) \/ GiveUp(t) \/ Acked(t)
    <2>1. UNCHANGED attempt
      BY <1>3 DEF Begin, Finish, DialFails, GiveUp, Acked
    <2>2. \/ pc[t] = "start" /\ pc'[t] = "lookup"
          \/ pc[t] = "dial" /\ pc'[t] = "finish"
          \/ pc[t] \in {"try", "wait"} /\ pc'[t] = "finish" /\ attempt[t] = 2
          \/ pc[t] = "wait" /\ pc'[t] = "finish"
          \/ pc[t] = "finish" /\ pc'[t] = "store"
      BY <1>3 DEF Begin, Finish, DialFails, GiveUp, Acked, AttemptError, TaskStep
    <2>3. ~OpenStream(t)
      BY <2>2 DEF OpenStream, TaskStep
    <2> QED
      BY <2>1, <2>2, <2>3 DEF Unsent
  <1>4. CASE PoolHit(t) \/ PoolMiss(t) \/ ConnectPooled(t) \/ ConnectMiss(t) \/ Retry(t)
    <2>1. \/ pc[t] = "lookup"
          \/ pc[t] = "connect" /\ pc'[t] = "try" /\ attempt'[t] = 2
          \/ pc[t] = "connect" /\ pc'[t] = "dial"
          \/ pc[t] \in {"try", "wait"} /\ pc'[t] = "connect" /\ attempt[t] = 1
      BY <1>4 DEF PoolHit, PoolMiss, ConnectPooled, ConnectMiss, Retry, Use, AttemptError, TaskStep
    <2>2. ~OpenStream(t)
      BY <2>1 DEF OpenStream, TaskStep
    <2> QED
      BY <2>1, <2>2 DEF Unsent
  <1>5. CASE DialOk(t) \/ Store(t)
    <2>1. \/ pc[t] = "dial" /\ pc'[t] = "try" /\ attempt'[t] = 2
          \/ pc'[t] = "done"
      BY <1>5 DEF DialOk, Store, Use, TaskStep
    <2>2. ~OpenStream(t)
      BY <2>1 DEF OpenStream, TaskStep
    <2> QED
      BY <2>1, <2>2 DEF Unsent
  <1>6. CASE Call \/ \E n \in 1 .. MaxBatch : SendFiles(n)
    <2>1. UNCHANGED attempt
      BY <1>6 DEF Call, SendFiles, FileMissing, Register, TicketFails, Spawn, AllSpawned, AllReported,
            AbandonCall, sfRest
    <2>2. pc'[t] = pc[t] \/ pc[t] \in {"none", "ticket"}
      BY <1>6, CallMoves
    <2>3. ~OpenStream(t) \/ pc[t] = "try"
      BY DEF OpenStream, TaskStep
    <2>4. ~OpenStream(t) \/ pc'[t] = "wait"
      BY DEF OpenStream, TaskStep
    <2> QED
      BY <2>1, <2>2, <2>3, <2>4 DEF Unsent
  <1>7. CASE pc'[t] = pc[t] /\ attempt'[t] = attempt[t]
    <2>1. ~OpenStream(t)
      BY <1>7 DEF OpenStream, TaskStep
    <2> QED
      BY <1>7, <2>1 DEF Unsent
  <1>8. CASE Api
    BY <1>7, <1>8 DEF Api, CancelTransfer, CancelHandle, CleanupStale, CleanupFinished, apiRest, taskVars
  <1>9. ASSUME NEW c \in Conns, Handler(c) \/ Break(c)
        PROVE  UNCHANGED <<pc, attempt>>
    BY <1>9 DEF Handler, Accept, RequestFails, Download, Export, Ack, AckFails, Callback, HandlerEnds,
          PeerStep, Break, taskVars
  <1>10. CASE (\E s \in Downloadable : DownloadFromTicket(s)) \/ Listen \/ PeerRestarts \/ UNCHANGED vars
    BY <1>7, <1>10 DEF DownloadFromTicket, Listen, PeerRestarts, vars, taskVars
  <1> QED
    BY <1>1, <1>2, <1>3, <1>4, <1>5, <1>6, <1>7, <1>8, <1>9, <1>10 DEF Next, SendTask

\* The stream that a step opens was not sent before.
LEMMA OpenedUnsent ==
  ASSUME TInv, TInv', Progress, [Next]_vars, NEW c \in Conns, NEW k \in Nat, Opened(c, k)
  PROVE  \E t \in Transfers : \E a \in {1, 2} :
           /\ OpenStream(t) /\ attempt[t] = a /\ conn[t] = c
           /\ k = Len(inbox[c]) + 1
           /\ inbox'[c][k] = StreamOf(t, a)
           /\ Unsent(t, a) /\ ~Unsent(t, a)'
  <1>1. PICK t \in Transfers :
          /\ OpenStream(t) /\ conn[t] = c
          /\ k = Len(inbox[c]) + 1
          /\ inbox'[c] = Append(inbox[c], StreamOf(t, attempt[t]))
    BY DEF Opened
  <1>2. attempt[t] \in {1, 2}
    BY DEF TInv, TaskTypes
  <1>3. inbox[c] \in Seq(Stream) /\ StreamOf(t, attempt[t]) \in Stream
    BY <1>2 DEF TInv, StreamTypes, Stream, StreamOf
  <1>4. inbox'[c][k] = StreamOf(t, attempt[t])
    BY <1>1, <1>3
  <1>5. Unsent(t, attempt[t])
    BY <1>1, <1>2 DEF OpenStream, TaskStep, Unsent
  <1>6. PICK a \in {1, 2} : attempt[t] = a
    BY <1>2
  <1>7. ~Unsent(t, a)'
    BY <1>1, <1>6, UnsentEnds
  <1> QED
    BY <1>1, <1>4, <1>5, <1>6, <1>7

LEMMA ExclusiveStep ==
  ASSUME TInv, TInv', Progress, Streams, [Next]_vars
  PROVE  Exclusive'
  <1> SUFFICES ASSUME NEW c \in Conns, NEW d \in Conns, NEW k \in Nat, NEW l \in Nat,
                      Seat(c, k)', Seat(d, l)', At(c, k)' = At(d, l)'
               PROVE  c = d /\ k = l
    BY DEF Exclusive
  <1>1. \/ Seat(c, k + Shift(c)) /\ At(c, k)' = At(c, k + Shift(c))
        \/ Opened(c, k) /\ At(c, k)' = inbox'[c][k]
    BY SeatsMove
  <1>2. \/ Seat(d, l + Shift(d)) /\ At(d, l)' = At(d, l + Shift(d))
        \/ Opened(d, l) /\ At(d, l)' = inbox'[d][l]
    BY SeatsMove
  <1>3. k + Shift(c) \in Nat /\ l + Shift(d) \in Nat
    BY DEF Shift
  <1>4. CASE /\ Seat(c, k + Shift(c)) /\ At(c, k)' = At(c, k + Shift(c))
             /\ Seat(d, l + Shift(d)) /\ At(d, l)' = At(d, l + Shift(d))
    <2>1. c = d /\ k + Shift(c) = l + Shift(d)
      BY <1>3, <1>4 DEF Streams, Exclusive
    <2> QED
      BY <2>1 DEF Shift
  <1>5. CASE /\ Seat(c, k + Shift(c)) /\ At(c, k)' = At(c, k + Shift(c))
             /\ Opened(d, l) /\ At(d, l)' = inbox'[d][l]
    <2>1. PICK t \in Transfers, a \in {1, 2} : inbox'[d][l] = StreamOf(t, a) /\ Unsent(t, a)
      BY <1>5, OpenedUnsent
    <2>2. At(c, k + Shift(c)) = StreamOf(t, a)
      BY <1>5, <2>1
    <2> QED
      BY <1>3, <1>5, <2>1, <2>2, StreamFields DEF Streams, SentOnly
  <1>6. CASE /\ Opened(c, k) /\ At(c, k)' = inbox'[c][k]
             /\ Seat(d, l + Shift(d)) /\ At(d, l)' = At(d, l + Shift(d))
    <2>1. PICK t \in Transfers, a \in {1, 2} : inbox'[c][k] = StreamOf(t, a) /\ Unsent(t, a)
      BY <1>6, OpenedUnsent
    <2>2. At(d, l + Shift(d)) = StreamOf(t, a)
      BY <1>6, <2>1
    <2> QED
      BY <1>3, <1>6, <2>1, <2>2, StreamFields DEF Streams, SentOnly
  <1>7. CASE Opened(c, k) /\ At(c, k)' = inbox'[c][k] /\ Opened(d, l) /\ At(d, l)' = inbox'[d][l]
    <2>1. PICK s \in Transfers : OpenStream(s) /\ conn[s] = c /\ k = Len(inbox[c]) + 1
                                 /\ inbox'[c][k] = StreamOf(s, attempt[s])
      BY <1>7, OpenedUnsent
    <2>2. PICK t \in Transfers : OpenStream(t) /\ conn[t] = d /\ l = Len(inbox[d]) + 1
                                 /\ inbox'[d][l] = StreamOf(t, attempt[t])
      BY <1>7, OpenedUnsent
    <2>3. StreamOf(s, attempt[s]) = StreamOf(t, attempt[t])
      BY <1>7, <2>1, <2>2
    <2>4. s = t
      BY <2>3, StreamFields
    <2> QED
      BY <2>1, <2>2, <2>4
  <1> QED
    BY <1>1, <1>2, <1>4, <1>5, <1>6, <1>7

LEMMA SentOnlyStep ==
  ASSUME TInv, TInv', Progress, Streams, [Next]_vars
  PROVE  SentOnly'
  <1> SUFFICES ASSUME NEW c \in Conns, NEW k \in Nat, Seat(c, k)'
               PROVE  ~Unsent(At(c, k).transfer, At(c, k).attempt)'
    BY DEF SentOnly
  <1>1. k + Shift(c) \in Nat
    BY DEF Shift
  <1>2. CASE Seat(c, k + Shift(c)) /\ At(c, k)' = At(c, k + Shift(c))
    <2>1. PICK t \in Transfers, a \in {1, 2} : At(c, k + Shift(c)) = StreamOf(t, a)
      BY <1>1, <1>2, SeatTyped DEF Stream, StreamOf
    <2>2. ~Unsent(t, a)
      BY <1>1, <1>2, <2>1 DEF Streams, SentOnly, StreamOf
    <2>3. ~Unsent(t, a)'
      BY <2>2, UnsentEnds
    <2>4. At(c, k)' = StreamOf(t, a)
      BY <1>2, <2>1
    <2> QED
      BY <2>3, <2>4 DEF StreamOf, Unsent
  <1>3. CASE Opened(c, k) /\ At(c, k)' = inbox'[c][k]
    <2>1. PICK t \in Transfers, a \in {1, 2} : inbox'[c][k] = StreamOf(t, a) /\ ~Unsent(t, a)'
      BY <1>3, OpenedUnsent
    <2>2. At(c, k)' = StreamOf(t, a)
      BY <1>3, <2>1
    <2> QED
      BY <2>1, <2>2 DEF StreamOf, Unsent
  <1> QED
    BY <1>2, <1>3, SeatsMove

\* What an attempt may still add does not come back.
LEMMA LeftShrinks ==
  ASSUME TInv, TInv', Progress, Streams, [Next]_vars, NEW t \in Transfers, NEW a \in {1, 2}
  PROVE  Left(t, a)' <= Left(t, a)
  <1>1. Unsent(t, a)' => Unsent(t, a)
    BY UnsentEnds
  <1>2. ASSUME NEW c \in Conns, NEW k \in Nat, Seat(c, k)', At(c, k)' = StreamOf(t, a)
        PROVE  Unsent(t, a) \/ InFlight(t, a)
    <2>1. k + Shift(c) \in Nat
      BY DEF Shift
    <2>2. CASE Seat(c, k + Shift(c)) /\ At(c, k)' = At(c, k + Shift(c))
      BY <1>2, <2>1, <2>2 DEF InFlight
    <2>3. CASE Opened(c, k) /\ At(c, k)' = inbox'[c][k]
      <3>1. PICK s \in Transfers, b \in {1, 2} : inbox'[c][k] = StreamOf(s, b) /\ Unsent(s, b)
        BY <2>3, OpenedUnsent
      <3>2. StreamOf(s, b) = StreamOf(t, a)
        BY <1>2, <2>3, <3>1
      <3>3. s = t /\ b = a
        BY <3>2, StreamFields
      <3> QED
        BY <3>1, <3>3
    <2> QED
      BY <1>2, <2>2, <2>3, SeatsMove
  <1>3. InFlight(t, a)' => Unsent(t, a) \/ InFlight(t, a)
    <2>1. StreamOf(t, a)' = StreamOf(t, a)
      BY DEF StreamOf
    <2> QED
      BY <1>2, <2>1 DEF InFlight
  <1> QED
    BY <1>1, <1>3 DEF Left

\* A callback lists a stream that has left its attempt with nothing more to add.
LEMMA CallbackSpends ==
  ASSUME TInv, TInv', Progress, Streams, [Next]_vars, NEW c \in Conns, Callback(c)
  PROVE  \E t \in Transfers : \E a \in {1, 2} :
           /\ t = rxReq[c].transfer
           /\ Left(t, a) = 1 /\ Left(t, a)' = 0
  <1>1. rxPc[c] = "callback" /\ rxPc'[c] = "accept" /\ rxReq[c] \in Stream
    BY DEF Callback, PeerStep, TInv, HandlerTypes
  <1>2. PICK t \in Transfers, a \in {1, 2} : rxReq[c] = StreamOf(t, a)
    BY <1>1 DEF Stream, StreamOf
  <1>3. Seat(c, 0) /\ At(c, 0) = StreamOf(t, a)
    BY <1>1, <1>2 DEF Seat, At
  <1>4. ~Unsent(t, a)
    BY <1>3, StreamFields DEF Streams, SentOnly
  <1>5. ~Unsent(t, a)'
    BY <1>4, UnsentEnds
  <1>6. ASSUME NEW d \in Conns, NEW k \in Nat, Seat(d, k)', At(d, k)' = StreamOf(t, a)
        PROVE  FALSE
    <2>1. k + Shift(d) \in Nat
      BY DEF Shift
    <2>2. CASE Seat(d, k + Shift(d)) /\ At(d, k)' = At(d, k + Shift(d))
      <3>1. At(d, k + Shift(d)) = At(c, 0)
        BY <1>3, <1>6, <2>2
      <3>2. d = c /\ k + Shift(d) = 0
        BY <1>3, <2>1, <2>2, <3>1 DEF Streams, Exclusive
      <3>3. d = c /\ k = 0
        BY <3>2 DEF Shift
      <3>4. ~Seat(c, 0)'
        BY <1>1 DEF Seat
      <3> QED
        BY <1>6, <3>3, <3>4
    <2>3. CASE Opened(d, k) /\ At(d, k)' = inbox'[d][k]
      <3>1. PICK s \in Transfers, b \in {1, 2} : inbox'[d][k] = StreamOf(s, b) /\ Unsent(s, b)
        BY <2>3, OpenedUnsent
      <3>2. StreamOf(s, b) = StreamOf(t, a)
        BY <1>6, <2>3, <3>1
      <3>3. s = t /\ b = a
        BY <3>2, StreamFields
      <3> QED
        BY <1>4, <3>1, <3>3
    <2> QED
      BY <1>6, <2>2, <2>3, SeatsMove
  <1>7. InFlight(t, a) /\ ~InFlight(t, a)'
    <2>1. StreamOf(t, a)' = StreamOf(t, a)
      BY DEF StreamOf
    <2> QED
      BY <1>3, <1>6, <2>1 DEF InFlight
  <1>8. Left(t, a) = 1 /\ Left(t, a)' = 0
    BY <1>5, <1>7 DEF Left
  <1>9. t = rxReq[c].transfer
    BY <1>2, StreamFields
  <1> QED
    BY <1>8, <1>9

\* The list grows by a callback, and is lost with the process.
LEMMA ReceivedMoves ==
  ASSUME TInv, [Next]_vars, NEW t \in Transfers
  PROVE  \/ received'[t] \in {0, received[t]}
         \/ /\ received'[t] = received[t] + 1
            /\ \E c \in Conns : Callback(c) /\ t = rxReq[c].transfer
  <1> USE DEF TInv, HandlerTypes, peerVars
  <1>1. ASSUME NEW s \in Transfers, SendTask(s)
        PROVE  UNCHANGED received
    BY <1>1, TaskLeaves
  <1>2. ASSUME NEW c \in Conns, Callback(c)
        PROVE  \/ received'[t] = received[t]
               \/ received'[t] = received[t] + 1 /\ t = rxReq[c].transfer
    BY <1>2 DEF Callback, AddReceivedFile
  <1>3. ASSUME NEW c \in Conns, Handler(c) \/ Break(c), ~Callback(c)
        PROVE  UNCHANGED received
    BY <1>3 DEF Handler, Accept, RequestFails, Download, Export, Ack, AckFails, HandlerEnds, Break
  <1>4. CASE Call \/ (\E n \in 1 .. MaxBatch : SendFiles(n)) \/ Api
    BY <1>4 DEF Call, SendFiles, FileMissing, Register, TicketFails, Spawn, AllSpawned,
          AllReported, AbandonCall, sfRest,
          Api, CancelTransfer, CancelHandle, CleanupStale, CleanupFinished, apiRest
  <1>5. CASE (\E s \in Downloadable : DownloadFromTicket(s)) \/ Listen \/ UNCHANGED vars
    BY <1>5 DEF DownloadFromTicket, Listen, vars
  <1>6. CASE PeerRestarts
    BY <1>6 DEF PeerRestarts
  <1> QED
    BY <1>1, <1>2, <1>3, <1>4, <1>5, <1>6 DEF Next

LEMMA BudgetStep ==
  ASSUME TInv, TInv', Progress, Streams, [Next]_vars
  PROVE  Budget'
  <1> SUFFICES ASSUME NEW t \in Transfers
               PROVE  received'[t] + Left(t, 1)' + Left(t, 2)' <= 2
    BY DEF Budget
  <1>1. /\ Left(t, 1)' <= Left(t, 1)
        /\ Left(t, 2)' <= Left(t, 2)
    BY LeftShrinks
  <1>2. /\ Left(t, 1) \in {0, 1} /\ Left(t, 2) \in {0, 1}
        /\ Left(t, 1)' \in {0, 1} /\ Left(t, 2)' \in {0, 1}
    BY DEF Left
  <1>3. received[t] \in Nat /\ received[t] + Left(t, 1) + Left(t, 2) <= 2
    BY DEF TInv, HandlerTypes, Streams, Budget
  <1>4. CASE received'[t] \in {0, received[t]}
    BY <1>1, <1>2, <1>3, <1>4
  <1>5. CASE received'[t] = received[t] + 1 /\ \E c \in Conns : Callback(c) /\ t = rxReq[c].transfer
    <2>1. PICK a \in {1, 2} : Left(t, a) = 1 /\ Left(t, a)' = 0
      BY <1>5, CallbackSpends
    <2>2. CASE a = 1
      BY <1>1, <1>2, <1>3, <1>5, <2>1, <2>2
    <2>3. CASE a = 2
      BY <1>1, <1>2, <1>3, <1>5, <2>1, <2>3
    <2> QED
      BY <2>2, <2>3
  <1> QED
    BY <1>4, <1>5, ReceivedMoves

LEMMA StreamsHold == Spec => []Streams
  <1>1. Init => Streams
    <2> SUFFICES ASSUME Init PROVE Streams
      OBVIOUS
    <2>1. ASSUME NEW c \in Conns, NEW k \in Nat
          PROVE  ~Seat(c, k)
      BY DEF Init, Seat
    <2>2. Exclusive /\ SentOnly
      BY <2>1 DEF Exclusive, SentOnly
    <2>3. Budget
      BY DEF Init, Budget, Left
    <2> QED
      BY <2>2, <2>3 DEF Streams
  <1>2. TInv /\ TInv' /\ Progress /\ Streams /\ [Next]_vars => Streams'
    BY ExclusiveStep, SentOnlyStep, BudgetStep DEF Streams
  <1> QED
    BY <1>1, <1>2, Typed, ProgressHolds, PTL DEF Spec

\* For any number of files, connections that break at any moment, lost ACKs and
\* a peer that restarts: the receiving application lists a file at most twice.
THEOREM ListedAtMostTwice == Spec => []AtMostTwice
  <1>1. TInv /\ Streams => AtMostTwice
    <2> SUFFICES ASSUME TInv, Streams, NEW t \in Transfers
                 PROVE  received[t] <= 2
      BY DEF AtMostTwice
    <2>1. received[t] \in Nat /\ Left(t, 1) \in {0, 1} /\ Left(t, 2) \in {0, 1}
      BY DEF TInv, HandlerTypes, Left
    <2> QED
      BY <2>1 DEF Streams, Budget
  <1> QED
    BY <1>1, Typed, StreamsHold, PTL

\* A task whose first attempt waits, or was the last.
FirstAttempt(t) == pc[t] \in {"wait", "finish", "store"} /\ attempt[t] = 1

OnceUnlessRetried == \A t \in Transfers : FirstAttempt(t) => received[t] <= 1

\* It is the retry (transfer.rs:710-731) that doubles a file, nothing else: one
\* whose first attempt has not failed is listed at most once, though handlers,
\* connections and other transfers' retries interleave with it as they like.
THEOREM ListedOnceUnlessRetried == Spec => []OnceUnlessRetried
  <1>1. TInv /\ Streams => OnceUnlessRetried
    <2> SUFFICES ASSUME TInv, Streams, NEW t \in Transfers, FirstAttempt(t)
                 PROVE  received[t] <= 1
      BY DEF OnceUnlessRetried
    <2>1. received[t] \in Nat /\ Left(t, 1) \in {0, 1} /\ Left(t, 2) = 1
      BY DEF TInv, HandlerTypes, Left, Unsent, FirstAttempt
    <2> QED
      BY <2>1 DEF Streams, Budget
  <1> QED
    BY <1>1, Typed, StreamsHold, PTL

-----------------------------------------------------------------------------
(* Nobody waits in vain.                                                      *)

\* The connections in use have been dialled: the next one is nobody's yet.
Dialled ==
    /\ \A t \in Transfers : conn[t] \in 0 .. made
    /\ tmPool \in 0 .. made
    /\ \A i \in 1 .. Len(epPool) : epPool[i] \in 1 .. made

LEMMA DialledStep ==
  ASSUME TInv, Dialled, [Next]_vars
  PROVE  Dialled'
  <1> USE DEF TInv, TaskTypes, PoolTypes, Dialled
  <1>1. CASE UNCHANGED <<conn, made, epPool>> /\ tmPool' \in {tmPool, NoConn}
    BY <1>1 DEF NoConn
  <1>2. ASSUME NEW t \in Transfers, DialOk(t)
        PROVE  Dialled'
    <2>1. made \in Nat /\ made' = made + 1 /\ tmPool' = tmPool /\ conn' = [conn EXCEPT ![t] = made + 1]
      BY <1>2 DEF DialOk, Use
    <2>2. \A s \in Transfers : conn'[s] \in 0 .. made'
      BY <2>1
    <2>3. made + 1 \in Conns
      BY <1>2, <2>1, TransferAssumption DEF DialOk, Conns
    <2>4. \A i \in 1 .. Len(epPool') : epPool'[i] \in 1 .. made'
      <3>1. epPool' = Append(epPool, made + 1) \/ epPool' = epPool
        BY <1>2 DEF DialOk
      <3>2. CASE epPool' = Append(epPool, made + 1)
        <4>1. Len(epPool') = Len(epPool) + 1
          BY <2>3, <3>2
        <4>2. \A i \in 1 .. Len(epPool) : epPool'[i] = epPool[i]
          BY <2>3, <3>2
        <4>3. epPool'[Len(epPool) + 1] = made + 1
          BY <2>3, <3>2
        <4>4. Len(epPool) \in Nat
          OBVIOUS
        <4>5. ASSUME NEW i \in 1 .. Len(epPool')
              PROVE  epPool'[i] \in 1 .. made + 1
          <5>1. CASE i \in 1 .. Len(epPool)
            BY <2>1, <4>2, <5>1
          <5>2. CASE i = Len(epPool) + 1
            BY <2>1, <4>3, <5>2
          <5> QED
            BY <4>1, <4>4, <5>1, <5>2
        <4> QED
          BY <2>1, <4>5
      <3>3. CASE epPool' = epPool
        BY <2>1, <3>3
      <3> QED
        BY <3>1, <3>2, <3>3
    <2> QED
      BY <2>1, <2>2, <2>4
  <1>3. ASSUME NEW t \in Transfers, PoolHit(t) \/ ConnectPooled(t)
        PROVE  Dialled'
    <2>1. PICK c \in 0 .. made : conn' = [conn EXCEPT ![t] = c]
      BY <1>3 DEF PoolHit, ConnectPooled, Use
    <2>2. UNCHANGED <<tmPool, epPool, made>>
      BY <1>3 DEF PoolHit, ConnectPooled, poolVars
    <2> QED
      BY <2>1, <2>2
  <1>4. ASSUME NEW t \in Transfers, Acked(t)
        PROVE  Dialled'
    BY <1>4 DEF Acked
  <1>5. ASSUME NEW t \in Transfers, Store(t)
        PROVE  Dialled'
    <2>1. conn' = [conn EXCEPT ![t] = 0] /\ UNCHANGED <<tmPool, epPool, made>>
      BY <1>5 DEF Store, poolVars, NoConn
    <2> QED
      BY <2>1
  <1>6. ASSUME NEW t \in Transfers, \/ Begin(t) \/ PoolMiss(t) \/ ConnectMiss(t) \/ DialFails(t)
                                    \/ OpenStream(t) \/ Retry(t) \/ GiveUp(t) \/ Finish(t)
        PROVE  Dialled'
    BY <1>1, <1>6 DEF Begin, PoolMiss, ConnectMiss, DialFails, OpenStream, Retry, GiveUp, Finish, poolVars
  <1>7. CASE Call \/ (\E n \in 1 .. MaxBatch : SendFiles(n)) \/ Api
    BY <1>1, <1>7 DEF Call, SendFiles, FileMissing, Register, TicketFails, Spawn, AllSpawned,
          AllReported, AbandonCall, sfRest, poolVars, taskVars,
          Api, CancelTransfer, CancelHandle, CleanupStale, CleanupFinished, apiRest
  <1>8. ASSUME NEW c \in Conns, Handler(c) \/ Break(c)
        PROVE  Dialled'
    BY <1>1, <1>8 DEF Handler, Accept, RequestFails, Download, Export, Ack, AckFails, Callback, HandlerEnds,
          PeerStep, Break, taskVars, poolVars
  <1>9. CASE (\E t \in Downloadable : DownloadFromTicket(t)) \/ Listen \/ PeerRestarts \/ UNCHANGED vars
    BY <1>1, <1>9 DEF DownloadFromTicket, Listen, PeerRestarts, vars, taskVars, poolVars
  <1> QED
    BY <1>2, <1>3, <1>4, <1>5, <1>6, <1>7, <1>8, <1>9 DEF Next, SendTask

\* A task that waits has just opened its stream, or waited before.
LEMMA WaitMoves ==
  ASSUME TInv, Progress, [Next]_vars, NEW t \in Transfers, pc'[t] = "wait", ~OpenStream(t)
  PROVE  pc[t] = "wait" /\ conn'[t] = conn[t] /\ attempt'[t] = attempt[t]
  <1> USE DEF TInv, TaskTypes
  <1>1. ASSUME NEW s \in Transfers, SendTask(s), s # t
        PROVE  pc'[t] = pc[t] /\ conn'[t] = conn[t] /\ attempt'[t] = attempt[t]
    BY <1>1 DEF TaskStep, SendTask, Begin, Finish, DialFails, GiveUp, Acked, PoolHit, PoolMiss,
          ConnectPooled, ConnectMiss, Retry, DialOk, OpenStream, Store, Use
  <1>2. ~SendTask(t)
    BY DEF TaskStep, SendTask, Begin, Finish, DialFails, GiveUp, Acked, PoolHit, PoolMiss,
          ConnectPooled, ConnectMiss, Retry, DialOk, Store
  <1>3. CASE Call \/ \E n \in 1 .. MaxBatch : SendFiles(n)
    <2>1. UNCHANGED <<conn, attempt>>
      BY <1>3 DEF Call, SendFiles, FileMissing, Register, TicketFails, Spawn, AllSpawned, AllReported,
            AbandonCall, sfRest
    <2>2. pc'[t] = pc[t]
      BY <1>3, CallMoves
    <2> QED
      BY <2>1, <2>2
  <1>4. CASE Api
    BY <1>4 DEF Api, CancelTransfer, CancelHandle, CleanupStale, CleanupFinished, apiRest, taskVars
  <1>5. ASSUME NEW c \in Conns, Handler(c) \/ Break(c)
        PROVE  UNCHANGED <<pc, conn, attempt>>
    BY <1>5 DEF Handler, Accept, RequestFails, Download, Export, Ack, AckFails, Callback, HandlerEnds,
          PeerStep, Break, taskVars
  <1>6. CASE (\E s \in Downloadable : DownloadFromTicket(s)) \/ Listen \/ PeerRestarts \/ UNCHANGED vars
    BY <1>6 DEF DownloadFromTicket, Listen, PeerRestarts, vars, taskVars
  <1> QED
    BY <1>1, <1>2, <1>3, <1>4, <1>5, <1>6 DEF Next

\* Who waits on a connection that works, without an answer, did so before.
LEMMA StillWaits ==
  ASSUME TInv, Dialled, [Next]_vars, NEW t \in Transfers,
         ~OpenStream(t), ~Store(t), conn'[t] = conn[t], conn'[t] \in alive', reply'[t] = "none"
  PROVE  conn[t] \in alive /\ reply[t] = "none"
  <1> USE DEF TInv, StreamTypes, PoolTypes
  <1>1. ASSUME NEW s \in Transfers, SendTask(s)
        PROVE  conn[t] \in alive /\ reply'[t] = reply[t]
    <2>1. CASE DialOk(s)
      <3>1. made \in Nat /\ conn[t] \in 0 .. made /\ alive' = alive \union {made + 1} /\ UNCHANGED reply
        BY <2>1 DEF DialOk, Use, Dialled
      <3> QED
        BY <3>1
    <2>2. CASE OpenStream(s) \/ Store(s)
      BY <2>2 DEF OpenStream, Store, TaskStep
    <2>3. CASE ~DialOk(s) /\ ~OpenStream(s) /\ ~Store(s)
      BY <1>1, <2>3 DEF TaskStep, SendTask, Begin, Finish, DialFails, GiveUp, Acked, PoolHit, PoolMiss,
            ConnectPooled, ConnectMiss, Retry, Use
    <2> QED
      BY <2>1, <2>2, <2>3
  <1>2. ASSUME NEW c \in Conns, Handler(c)
        PROVE  UNCHANGED alive /\ reply[t] = "none"
    BY <1>2 DEF Handler, Accept, RequestFails, Download, Export, Ack, AckFails, Callback, HandlerEnds,
          PeerStep, Answer
  <1>3. CASE Call \/ (\E n \in 1 .. MaxBatch : SendFiles(n)) \/ Api
    BY <1>3 DEF Call, SendFiles, FileMissing, Register, TicketFails, Spawn, AllSpawned,
          AllReported, AbandonCall, sfRest,
          Api, CancelTransfer, CancelHandle, CleanupStale, CleanupFinished, apiRest
  <1>4. CASE \/ (\E c \in Conns : Break(c)) \/ (\E s \in Downloadable : DownloadFromTicket(s))
             \/ Listen \/ PeerRestarts \/ UNCHANGED vars
    BY <1>4 DEF Break, DownloadFromTicket, Listen, PeerRestarts, vars
  <1> HIDE DEF TInv, StreamTypes, PoolTypes
  <1> QED
    BY <1>1, <1>2, <1>3, <1>4 DEF Next

\* A stream leaves the peer by an answer.
LEMMA ServedStays ==
  ASSUME TInv, Dialled, [Next]_vars, NEW t \in Transfers, NEW c \in Conns,
         conn[t] = c, conn'[t] = c, attempt'[t] = attempt[t], Served(t),
         c \in alive, c \in alive', reply'[t] = "none"
  PROVE  Served(t)'
  <1> DEFINE s == StreamOf(t, attempt[t])
  <1>0. /\ inbox[c] \in Seq(Stream) /\ s \in Stream
        /\ s.transfer = t /\ s.attempt = attempt[t]
        /\ reply \in [Transfers -> {"none", "ack", "closed"}]
    BY DEF TInv, StreamTypes, TaskTypes, Stream, StreamOf
  <1>1. \/ \E i \in 1 .. Len(inbox[c]) : inbox[c][i] = s
        \/ rxPc[c] \in {"download", "export", "ack"} /\ rxReq[c] = s
    BY DEF Served, StreamOf
  <1> SUFFICES \/ \E i \in 1 .. Len(inbox'[c]) : inbox'[c][i] = s
               \/ rxPc'[c] \in {"download", "export", "ack"} /\ rxReq'[c] = s
    BY DEF Served, StreamOf
  <1> USE DEF TInv, StreamTypes, HandlerTypes
  <1> HIDE DEF s
  <1>2. CASE UNCHANGED <<inbox, rxPc, rxReq>>
    BY <1>1, <1>2
  <1>3. ASSUME NEW d \in Conns, Handler(d), d # c
        PROVE  inbox'[c] = inbox[c] /\ rxPc'[c] = rxPc[c] /\ rxReq'[c] = rxReq[c]
    BY <1>3 DEF PeerStep, Handler, Accept, RequestFails, Download, Export, Ack, AckFails, Callback, HandlerEnds
  <1>4. CASE Accept(c)
    <2>1. /\ inbox[c] # <<>> /\ inbox'[c] = Tail(inbox[c]) /\ rxPc[c] = "accept"
          /\ rxPc'[c] = "download" /\ rxReq'[c] = inbox[c][1]
      BY <1>0, <1>4 DEF Accept, PeerStep
    <2>2. PICK i \in 1 .. Len(inbox[c]) : inbox[c][i] = s
      BY <1>1, <2>1
    <2>3. CASE i = 1
      BY <2>1, <2>2, <2>3
    <2>4. CASE i # 1
      <3>1. i - 1 \in 1 .. Len(inbox'[c]) /\ inbox'[c][i - 1] = inbox[c][i]
        BY <1>0, <2>1, <2>4
      <3> QED
        BY <2>2, <3>1
    <2> QED
      BY <2>3, <2>4
  <1>5. CASE RequestFails(c) \/ Ack(c)
    <2>1. UNCHANGED inbox /\ (Answer(c, "closed") \/ Answer(c, "ack"))
      BY <1>5 DEF RequestFails, Ack
    <2>2. rxReq[c] # s
      BY <1>0, <2>1 DEF Answer
    <2> QED
      BY <1>1, <2>1, <2>2
  <1>6. CASE Download(c) \/ Export(c) \/ Callback(c)
    BY <1>1, <1>6 DEF Download, Export, Callback, PeerStep
  <1>7. ~AckFails(c) /\ ~HandlerEnds(c)
    BY DEF AckFails, HandlerEnds
  <1>8. ASSUME NEW u \in Transfers, SendTask(u)
        PROVE  \/ \E i \in 1 .. Len(inbox'[c]) : inbox'[c][i] = s
               \/ rxPc'[c] \in {"download", "export", "ack"} /\ rxReq'[c] = s
    <2>1. UNCHANGED <<rxPc, rxReq>>
      BY <1>8, TaskLeaves
    <2>2. CASE OpenStream(u) /\ inbox'[c] # inbox[c]
      <3>1. inbox'[c] = Append(inbox[c], StreamOf(u, attempt[u]))
        BY <2>2 DEF OpenStream, StreamOf
      <3>2. StreamOf(u, attempt[u]) \in Stream
        BY DEF TaskTypes, Stream, StreamOf
      <3>3. \A i \in 1 .. Len(inbox[c]) : i \in 1 .. Len(inbox'[c]) /\ inbox'[c][i] = inbox[c][i]
        BY <1>0, <3>1, <3>2
      <3> QED
        BY <1>1, <2>1, <3>3
    <2>3. ~OpenStream(u) => UNCHANGED inbox
      BY <1>8 DEF SendTask, Begin, Finish, DialFails, GiveUp, Acked, PoolHit, PoolMiss, ConnectPooled,
            ConnectMiss, Retry, DialOk, Store, Use
    <2> QED
      BY <1>1, <2>1, <2>2, <2>3
  <1>9. CASE Call \/ (\E n \in 1 .. MaxBatch : SendFiles(n)) \/ Api
    BY <1>2, <1>9 DEF Call, SendFiles, FileMissing, Register, TicketFails, Spawn, AllSpawned,
          AllReported, AbandonCall, sfRest, peerVars,
          Api, CancelTransfer, CancelHandle, CleanupStale, CleanupFinished, apiRest
  <1>10. CASE \/ (\E d \in Conns : Break(d)) \/ (\E u \in Downloadable : DownloadFromTicket(u))
              \/ Listen \/ UNCHANGED vars
    BY <1>2, <1>10 DEF Break, DownloadFromTicket, Listen, vars, peerVars
  <1>11. ~PeerRestarts
    BY DEF PeerRestarts
  <1> QED
    BY <1>1, <1>3, <1>4, <1>5, <1>6, <1>7, <1>8, <1>9, <1>10, <1>11 DEF Next, Handler

LEMMA NoneStrandedStep ==
  ASSUME TInv, TInv', Progress, Dialled, NoneStranded, [Next]_vars
  PROVE  NoneStranded'
  <1> SUFFICES ASSUME NEW t \in Transfers, pc'[t] = "wait", conn'[t] \in alive', reply'[t] = "none"
               PROVE  Served(t)'
    BY DEF NoneStranded
  <1>1. CASE OpenStream(t)
    <2>1. conn[t] \in Conns /\ conn'[t] = conn[t] /\ attempt'[t] = attempt[t]
      <3>1. conn[t] \in alive /\ UNCHANGED <<conn, attempt>>
        BY <1>1 DEF OpenStream
      <3>2. conn[t] \in 1 .. made /\ made \in 0 .. MaxConns /\ MaxConns \in Nat
        BY <3>1, TransferAssumption DEF TInv, PoolTypes
      <3> QED
        BY <3>1, <3>2 DEF Conns
    <2>2. inbox'[conn[t]] = Append(inbox[conn[t]], StreamOf(t, attempt[t]))
      BY <1>1, <2>1 DEF OpenStream, StreamOf, TInv, StreamTypes
    <2>3. inbox[conn[t]] \in Seq(Stream) /\ StreamOf(t, attempt[t]) \in Stream
      BY <2>1 DEF TInv, StreamTypes, TaskTypes, Stream, StreamOf
    <2>4. \E i \in 1 .. Len(inbox'[conn[t]]) : inbox'[conn[t]][i] = StreamOf(t, attempt[t])
      BY <2>2, <2>3
    <2> QED
      BY <2>1, <2>4 DEF Served, StreamOf
  <1>2. CASE ~OpenStream(t)
    <2>1. pc[t] = "wait" /\ conn'[t] = conn[t] /\ attempt'[t] = attempt[t]
      BY <1>2, WaitMoves
    <2>2. ~Store(t)
      BY <2>1 DEF Store, TaskStep
    <2>3. conn[t] \in alive /\ reply[t] = "none"
      BY <1>2, <2>1, <2>2, StillWaits
    <2>4. conn[t] \in Conns
      <3>1. conn[t] \in 1 .. made /\ made \in 0 .. MaxConns /\ MaxConns \in Nat
        BY <2>3, TransferAssumption DEF TInv, PoolTypes
      <3> QED
        BY <3>1 DEF Conns
    <2>5. Served(t)
      BY <2>1, <2>3 DEF NoneStranded
    <2> QED
      BY <2>1, <2>3, <2>4, <2>5, ServedStays
  <1> QED
    BY <1>1, <1>2

\* For any number of files, connections and handlers that fail anywhere: a task
\* whose read has no timeout has an answer, a broken connection, or its stream
\* with the peer.
THEOREM NobodyStranded == Spec => []NoneStranded
  <1>1. Init => Dialled /\ NoneStranded
    BY DEF Init, Dialled, NoneStranded, NoConn
  <1>2. TInv /\ TInv' /\ Progress /\ Dialled /\ NoneStranded /\ [Next]_vars => Dialled' /\ NoneStranded'
    BY DialledStep, NoneStrandedStep
  <1> QED
    BY <1>1, <1>2, Typed, ProgressHolds, PTL DEF Spec

-----------------------------------------------------------------------------
(* What is listed is on disk, unless two files have one name; and what is     *)
(* told is final.                                                             *)

LEMMA ShownStep ==
  ASSUME TInv, DistinctNames, Stored, ShownIsOnDisk, [Next]_vars
  PROVE  ShownIsOnDisk'
  <1> SUFFICES ASSUME NEW t \in Transfers, received'[t] > 0
               PROVE  Exported(t)'
    BY DEF ShownIsOnDisk
  <1>1. Exported(t) => Exported(t)'
    BY DiskMoves
  <1>2. CASE received'[t] \in {0, received[t]}
    BY <1>1, <1>2 DEF ShownIsOnDisk
  <1>3. ASSUME NEW c \in Conns, Callback(c), t = rxReq[c].transfer
        PROVE  Exported(t)'
    BY <1>1, <1>3 DEF Stored, Callback, PeerStep
  <1> QED
    BY <1>2, <1>3, ReceivedMoves

\* If no two files of one peer have one name, every file the receiving
\* application lists is in its download directory, whatever breaks: the
\* overwriting export (transfer.rs:346-352) is the only way to lose one.
THEOREM ShownUnlessNamesCollide ==
  ASSUME DistinctNames
  PROVE  Spec => []ShownIsOnDisk
  <1>1. Init => Stored /\ ShownIsOnDisk
    BY DEF Init, Stored, CompletedIsExported, ShownIsOnDisk
  <1>2. TInv /\ Stored /\ ShownIsOnDisk /\ [Next]_vars => Stored' /\ ShownIsOnDisk'
    BY StoredStep, ShownStep
  <1> QED
    BY <1>1, <1>2, Typed, PTL DEF Spec

\* A handle that was told an outcome is told no other.
ToldOnce == \A t \in Transfers : report[t] \in Terminal => report'[t] = report[t]

\* Whoever cancels, and whenever: the task reads the flag once, and what it
\* then tells the handle (transfer.rs:748-757) is the last it tells.
THEOREM OutcomeIsFinal == Spec => [][ToldOnce]_vars
  <1>1. TInv /\ Progress /\ [Next]_vars => [ToldOnce]_vars
    <2> SUFFICES ASSUME TInv, Progress, Next, NEW t \in Transfers, report[t] \in Terminal
                 PROVE  report'[t] = report[t]
      BY DEF ToldOnce
    <2>1. pc[t] \in {"store", "done"}
      BY DEF Progress, Told, TInv, TaskTypes, TaskPc, Terminal
    <2>2. CASE Call \/ \E n \in 1 .. MaxBatch : SendFiles(n)
      BY <2>2, CallMoves
    <2>3. ASSUME NEW s \in Transfers, SendTask(s)
          PROVE  report'[t] = report[t]
      <3>1. CASE s # t
        BY <2>3, <3>1, TaskMoves
      <3>2. CASE s = t
        <4>1. Store(t)
          BY <2>1, <2>3, <3>2 DEF TaskStep, SendTask, Begin, Finish, DialFails, GiveUp, Acked, PoolHit,
                PoolMiss, ConnectPooled, ConnectMiss, Retry, DialOk, OpenStream, AttemptError
        <4> QED
          BY <4>1 DEF Store
      <3> QED
        BY <3>1, <3>2
    <2> QED
      BY <2>2, <2>3, OthersLeaveTasks DEF Next
  <1> QED
    BY <1>1, Typed, ProgressHolds, PTL DEF Spec
\* The three copies of an ended transfer's state.
CopiesAgree ==
    \A t \in Transfers : pc[t] = "done" /\ t \notin cancelled =>
        report[t] = result[t] /\ entry[t] \in {"absent", report[t]}

LEMMA CopiesStep ==
  ASSUME TInv, Progress, CopiesAgree, [Next]_vars
  PROVE  CopiesAgree'
  <1> USE DEF TInv, TaskTypes, MapTypes, CopiesAgree
  <1>1. CASE UNCHANGED <<pc, result, report, cancelled, entry>>
    BY <1>1
  <1>2. CASE Call \/ \E n \in 1 .. MaxBatch : SendFiles(n)
    <2>1. UNCHANGED <<result, report, cancelled>>
      BY <1>2 DEF Call, SendFiles, FileMissing, Register, TicketFails, Spawn, AllSpawned, AllReported,
            AbandonCall, sfRest
    <2>2. \A t \in Transfers : pc'[t] = "done" => pc[t] = "done" /\ entry'[t] = entry[t]
      BY <1>2 DEF Call, SendFiles, FileMissing, Register, TicketFails, Spawn, AllSpawned, AllReported,
            AbandonCall
    <2> QED
      BY <2>1, <2>2
  <1>3. ASSUME NEW t \in Transfers, SendTask(t)
        PROVE  CopiesAgree'
    <2>1. UNCHANGED cancelled
      BY <1>3 DEF SendTask, Begin, Finish, DialFails, GiveUp, Acked, PoolHit, PoolMiss, ConnectPooled,
            ConnectMiss, Retry, DialOk, OpenStream, Store, Use, mapVars
    <2>2. \A s \in Transfers \ {t} : entry'[s] = entry[s]
      BY <1>3 DEF SendTask, Begin, Finish, DialFails, GiveUp, Acked, PoolHit, PoolMiss, ConnectPooled,
            ConnectMiss, Retry, DialOk, OpenStream, Store, Use, mapVars
    <2>3. CASE Store(t)
      <3>1. pc[t] = "store" /\ UNCHANGED <<result, report>> /\ entry'[t] \in {"absent", result[t]}
        BY <2>3 DEF Store, TaskStep
      <3>2. report[t] = result[t]
        BY <3>1 DEF Progress, Told
      <3> QED
        BY <1>3, <2>1, <2>2, <3>1, <3>2, TaskMoves
    <2>4. CASE ~Store(t)
      <3>1. pc'[t] # "done"
        BY <1>3, <2>4 DEF TaskStep, SendTask, Begin, Finish, DialFails, GiveUp, Acked, PoolHit, PoolMiss,
              ConnectPooled, ConnectMiss, Retry, DialOk, OpenStream
      <3> QED
        BY <1>3, <2>1, <2>2, <3>1, TaskMoves
    <2> QED
      BY <2>3, <2>4
  <1>4. CASE Api
    <2>1. UNCHANGED <<pc, result, report>>
      BY <1>4, OthersLeaveTasks
    <2>2. \A t \in Transfers : t \notin cancelled' => t \notin cancelled /\ entry'[t] \in {"absent", entry[t]}
      BY <1>4 DEF Api, CancelTransfer, CancelHandle, CleanupStale, CleanupFinished, apiRest, mapVars
    <2> QED
      BY <2>1, <2>2
  <1>5. ASSUME NEW c \in Conns, Handler(c) \/ Break(c)
        PROVE  UNCHANGED <<pc, result, report, cancelled, entry>>
    BY <1>5 DEF Handler, Accept, RequestFails, Download, Export, Ack, AckFails, Callback, HandlerEnds,
          PeerStep, Break, taskVars, mapVars
  <1>6. CASE (\E t \in Downloadable : DownloadFromTicket(t)) \/ Listen \/ PeerRestarts \/ UNCHANGED vars
    BY <1>1, <1>6 DEF DownloadFromTicket, Listen, PeerRestarts, vars, taskVars, mapVars
  <1> QED
    BY <1>1, <1>2, <1>3, <1>4, <1>5, <1>6 DEF Next

\* The task's progress, the last message to the handle and the transfers map are
\* written at different moments (transfer.rs:748-757, 883), with cleanups between
\* them; once the task has ended they agree, or the map has dropped the transfer.
\* Only a cancel can leave them apart.
THEOREM CopiesComeToAgree == Spec => []CopiesAgree
  <1>1. Init => CopiesAgree
    BY DEF Init, CopiesAgree
  <1> QED
    BY <1>1, Typed, ProgressHolds, CopiesStep, PTL DEF Spec

-----------------------------------------------------------------------------
(* A peer whose connections have all broken.                                  *)

\* No connection works, the endpoint's pool has an entry for the peer, nobody
\* dials it, and no answer is still to be read.
CutOff ==
    /\ alive = {} /\ epPool # <<>>
    /\ \A t \in Transfers : pc[t] # "dial" /\ (pc[t] = "wait" => reply[t] # "ack")

NoCompletion == \A t \in Transfers : result'[t] = "Completed" => result[t] = "Completed"

StaysCutOff == CutOff => CutOff' /\ made' = made /\ NoCompletion

LEMMA CutOffTask ==
  ASSUME TInv, CutOff, NEW t \in Transfers, SendTask(t)
  PROVE  CutOff' /\ made' = made /\ NoCompletion
  <1> USE DEF TInv, TaskTypes, StreamTypes, PoolTypes, CutOff, NoCompletion, TaskStep
  <1>1. ~ConnectMiss(t) /\ ~DialOk(t) /\ ~DialFails(t) /\ ~OpenStream(t) /\ ~Acked(t)
    BY DEF ConnectMiss, DialOk, DialFails, OpenStream, Acked
  <1>2. CASE Begin(t) \/ GiveUp(t) \/ Finish(t)
    BY <1>2 DEF Begin, GiveUp, Finish, poolVars
  <1>3. CASE PoolHit(t) \/ PoolMiss(t) \/ ConnectPooled(t) \/ Retry(t)
    BY <1>3 DEF PoolHit, PoolMiss, ConnectPooled, Retry, Use, poolVars
  <1>4. CASE Store(t)
    BY <1>4 DEF Store, poolVars
  <1> QED
    BY <1>1, <1>2, <1>3, <1>4 DEF SendTask

LEMMA CutOffPeer ==
  ASSUME TInv, CutOff,
         \/ (\E c \in Conns : Handler(c) \/ Break(c))
         \/ (\E t \in Downloadable : DownloadFromTicket(t))
         \/ Listen \/ PeerRestarts
  PROVE  CutOff' /\ made' = made
  <1>1. UNCHANGED <<pc, epPool, made, reply>> /\ alive' = {}
    <2>1. ASSUME NEW c \in Conns, Handler(c)
          PROVE  UNCHANGED <<pc, epPool, made, reply, alive>>
      BY <2>1 DEF Handler, Accept, RequestFails, Download, Export, Ack, AckFails, Callback, HandlerEnds,
            PeerStep, Answer, taskVars, poolVars, CutOff
    <2>2. ASSUME NEW c \in Conns, Break(c)
          PROVE  FALSE
      BY <2>2 DEF Break, CutOff
    <2>3. CASE (\E t \in Downloadable : DownloadFromTicket(t)) \/ Listen \/ PeerRestarts
      BY <2>3 DEF DownloadFromTicket, Listen, PeerRestarts, taskVars, poolVars, CutOff
    <2> QED
      BY <2>1, <2>2, <2>3 DEF CutOff
  <1> QED
    BY <1>1 DEF CutOff

\* Endpoint::connect asks its pool first and looks at no connection's condition
\* (endpoint.rs:618-622), and what it pools it never gives back.  So once every
\* connection to the peer has broken, as when the peer restarts, it never dials
\* that peer again, and no transfer to it completes any more, the retry "with a
\* fresh connection" (transfer.rs:718) included.
THEOREM BrokenPeerStaysCutOff == Spec => [][StaysCutOff]_vars
  <1>1. TInv /\ [Next]_vars => [StaysCutOff]_vars
    <2> SUFFICES ASSUME TInv, Next, CutOff
                 PROVE  CutOff' /\ made' = made /\ NoCompletion
      BY DEF StaysCutOff
    <2>1. CASE Call \/ \E n \in 1 .. MaxBatch : SendFiles(n)
      <3>1. UNCHANGED <<epPool, made, alive, reply, result>>
        BY <2>1 DEF Call, SendFiles, FileMissing, Register, TicketFails, Spawn, AllSpawned, AllReported,
              AbandonCall, sfRest, poolVars
      <3>2. \A t \in Transfers : pc'[t] \in {pc[t], "ticket", "dropped", "start"}
        BY <2>1 DEF Call, SendFiles, FileMissing, Register, TicketFails, Spawn, AllSpawned, AllReported,
              AbandonCall, TInv, TaskTypes
      <3> QED
        BY <3>1, <3>2 DEF CutOff, NoCompletion
    <2>2. CASE Api
      <3>1. UNCHANGED <<pc, epPool, made, alive, reply, result>>
        BY <2>2 DEF Api, CancelTransfer, CancelHandle, CleanupStale, CleanupFinished, apiRest, taskVars
      <3> QED
        BY <3>1 DEF CutOff, NoCompletion
    <2>3. CASE \/ (\E c \in Conns : Handler(c) \/ Break(c))
               \/ (\E t \in Downloadable : DownloadFromTicket(t))
               \/ Listen \/ PeerRestarts
      BY <2>3, CutOffPeer, OthersLeaveTasks DEF NoCompletion
    <2> QED
      BY <2>1, <2>2, <2>3, CutOffTask DEF Next
  <1> QED
    BY <1>1, Typed, PTL DEF Spec
=============================================================================
