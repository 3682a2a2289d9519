---------------------------- MODULE TransferProofs ---------------------------
(***************************************************************************)
(* Theorems about Transfer: its types, its list of active transfers, that  *)
(* what is acknowledged is stored, and that it implements Delivery, for    *)
(* any number of files, connections and pool entries.                      *)
(***************************************************************************)
EXTENDS Transfer, TLAPS

-----------------------------------------------------------------------------
(* Types, a group of variables at a time.                                     *)

CallTypes ==
    /\ sfPc \in {"idle", "file", "ticket", "await"}
    /\ cursor \in 1 .. NumTransfers + 1
    /\ upTo \in 0 .. NumTransfers
    /\ handles \subseteq Transfers
    /\ sfPc = "ticket" => cursor <= upTo    \* a ticket is for a file of the call

TaskTypes ==
    /\ pc \in [Transfers -> TaskPc]
    /\ conn \in [Transfers -> Conns \union {NoConn}]
    /\ attempt \in [Transfers -> {1, 2}]
    /\ result \in [Transfers -> State]
    /\ report \in [Transfers -> State]

MapTypes ==
    /\ cancelled \subseteq Transfers
    /\ entry \in [Transfers -> State \union {"absent"}]

PoolTypes ==
    /\ tmPool \in Conns \union {NoConn}
    /\ epPool \in Seq(Conns) /\ Len(epPool) <= PerPeer
    /\ made \in 0 .. MaxConns
    /\ alive \subseteq 1 .. made

StreamTypes ==
    /\ reply \in [Transfers -> {"none", "ack", "closed"}]
    /\ inbox \in [Conns -> Seq(Stream)]

HandlerTypes ==
    /\ rxPc \in [Conns -> {"accept", "download", "export", "ack", "callback"}]
    /\ rxReq \in [Conns -> Stream \union {NoStream}]
    /\ disk \in [Names -> Transfers \union {Nothing}]
    /\ listening \in BOOLEAN
    /\ received \in [Transfers -> Nat]
    \* past its accept, a handler serves a stream
    /\ \A c \in Conns : rxPc[c] # "accept" => rxReq[c] \in Stream

TInv == CallTypes /\ TaskTypes /\ MapTypes /\ PoolTypes /\ StreamTypes /\ HandlerTypes

LEMMA TypesSuffice == TInv => TypeOK
  BY DEF TInv, TypeOK, CallTypes, TaskTypes, MapTypes, PoolTypes, StreamTypes, HandlerTypes

LEMMA TypeInit == Init => TInv
  <1> SUFFICES ASSUME Init PROVE TInv
    OBVIOUS
  <1>1. CallTypes
    BY TransferAssumption DEF Init, CallTypes
  <1>2. TaskTypes /\ MapTypes
    BY DEF Init, TaskTypes, MapTypes, TaskPc, State
  <1>3. PoolTypes
    BY TransferAssumption DEF Init, PoolTypes
  <1>4. StreamTypes
    BY DEF Init, StreamTypes
  <1>5. HandlerTypes
    BY DEF Init, HandlerTypes
  <1> QED
    BY <1>1, <1>2, <1>3, <1>4, <1>5 DEF TInv

LEMMA CallTypesKept ==
  ASSUME CallTypes, Call \/ \E n \in 1 .. MaxBatch : SendFiles(n)
  PROVE  CallTypes'
  <1>0. NumTransfers \in Nat /\ MaxBatch \in Nat
    BY TransferAssumption
  <1>1. ASSUME NEW n \in 1 .. MaxBatch, SendFiles(n)
        PROVE  CallTypes'
    BY <1>0, <1>1 DEF CallTypes, SendFiles
  <1>2. CASE FileMissing \/ TicketFails
    BY <1>0, <1>2 DEF CallTypes, FileMissing, TicketFails, AbandonCall
  <1>3. CASE Register
    BY <1>3 DEF CallTypes, Register
  <1>4. CASE Spawn
    BY <1>0, <1>4 DEF CallTypes, Spawn, Transfers
  <1>5. CASE AllSpawned \/ AllReported
    BY <1>5 DEF CallTypes, AllSpawned, AllReported
  <1> QED
    BY <1>1, <1>2, <1>3, <1>4, <1>5 DEF Call

LEMMA TypeCall ==
  ASSUME TInv, Call \/ \E n \in 1 .. MaxBatch : SendFiles(n)
  PROVE  TInv'
  <1>1. UNCHANGED sfRest
    BY DEF Call, SendFiles, FileMissing, Register, TicketFails, Spawn, AllSpawned, AllReported, AbandonCall
  <1>2. TaskTypes'
    <2>1. pc' \in [Transfers -> TaskPc]
      BY DEF TInv, TaskTypes, TaskPc,
            Call, SendFiles, FileMissing, Register, TicketFails, Spawn, AllSpawned, AllReported
    <2> QED
      BY <1>1, <2>1 DEF TInv, TaskTypes, sfRest
  <1>3. MapTypes'
    BY <1>1 DEF TInv, MapTypes, State, sfRest,
          Call, SendFiles, FileMissing, Register, TicketFails, Spawn, AllSpawned, AllReported
  <1>4. PoolTypes' /\ StreamTypes' /\ HandlerTypes'
    BY <1>1 DEF TInv, PoolTypes, StreamTypes, HandlerTypes, sfRest, poolVars, peerVars
  <1> QED
    BY <1>2, <1>3, <1>4, CallTypesKept DEF TInv

\* Each step of a send task leaves the call and the handlers alone.
LEMMA TaskLeaves ==
  ASSUME NEW t \in Transfers, SendTask(t)
  PROVE  UNCHANGED <<sfVars, disk, listening, received, rxPc, rxReq>>
  BY DEF SendTask, Begin, Finish, DialFails, GiveUp, Acked, PoolHit, PoolMiss, ConnectMiss, Retry,
        ConnectPooled, DialOk, OpenStream, Store, TaskStep, sfVars, peerVars

LEMMA TypeTask ==
  ASSUME TInv, NEW t \in Transfers, SendTask(t)
  PROVE  TInv'
  <1>1. CallTypes' /\ HandlerTypes'
    BY TaskLeaves DEF TInv, CallTypes, HandlerTypes, sfVars
  <1>2. CASE Begin(t) \/ Finish(t) \/ DialFails(t) \/ GiveUp(t) \/ Acked(t)
    <2>1. TaskTypes'
      BY <1>2 DEF TInv, TaskTypes, TaskPc, State, Terminal, TaskStep,
            Begin, Finish, DialFails, GiveUp, Acked
    <2>2. MapTypes' /\ StreamTypes'
      BY <1>2 DEF TInv, MapTypes, StreamTypes, mapVars, Begin, Finish, DialFails, GiveUp, Acked
    <2>3. UNCHANGED <<epPool, made, alive>> /\ tmPool' \in {tmPool, conn[t]}
      BY <1>2 DEF poolVars, TaskStep, Begin, Finish, DialFails, GiveUp, Acked
    <2>4. PoolTypes'
      BY <2>3 DEF TInv, TaskTypes, PoolTypes
    <2> QED
      BY <1>1, <2>1, <2>2, <2>4 DEF TInv
  <1>3. CASE PoolHit(t) \/ PoolMiss(t) \/ ConnectPooled(t) \/ ConnectMiss(t) \/ Retry(t)
    <2>1. ConnectPooled(t) => epPool[Len(epPool)] \in Conns
      BY DEF TInv, PoolTypes, ConnectPooled
    <2>2. TaskTypes'
      BY <1>3, <2>1 DEF TInv, TaskTypes, PoolTypes, TaskPc, TaskStep, Use,
            PoolHit, PoolMiss, ConnectPooled, ConnectMiss, Retry
    <2>3. MapTypes' /\ PoolTypes' /\ StreamTypes'
      BY <1>3 DEF TInv, MapTypes, PoolTypes, StreamTypes, TaskStep, Use, mapVars, poolVars,
            PoolHit, PoolMiss, ConnectPooled, ConnectMiss, Retry
    <2> QED
      BY <1>1, <2>2, <2>3 DEF TInv
  <1>4. CASE DialOk(t)
    <2>1. made + 1 \in Conns /\ made' \in 0 .. MaxConns /\ alive' \subseteq 1 .. made'
      BY <1>4, TransferAssumption DEF TInv, PoolTypes, DialOk, Conns
    <2>2. epPool' \in Seq(Conns) /\ Len(epPool') <= PerPeer
      BY <1>4, <2>1, TransferAssumption DEF TInv, PoolTypes, DialOk
    <2>3. TaskTypes'
      BY <1>4, <2>1 DEF TInv, TaskTypes, TaskPc, DialOk, Use
    <2> QED
      BY <1>1, <1>4, <2>1, <2>2, <2>3 DEF TInv, MapTypes, PoolTypes, StreamTypes, DialOk, Use, mapVars
  <1>5. CASE OpenStream(t)
    <2>1. conn[t] \in Conns
      <3>1. conn[t] \in alive
        BY <1>5 DEF OpenStream
      <3>2. conn[t] \in 1 .. made
        BY <3>1 DEF TInv, PoolTypes
      <3>3. made \in 0 .. MaxConns /\ MaxConns \in Nat
        BY TransferAssumption DEF TInv, PoolTypes
      <3> QED
        BY <3>2, <3>3 DEF Conns
    <2>2. [transfer |-> t, attempt |-> attempt[t]] \in Stream
      BY DEF TInv, TaskTypes, Stream
    <2>3. StreamTypes'
      BY <1>5, <2>1, <2>2 DEF TInv, StreamTypes, OpenStream
    <2> QED
      BY <1>1, <1>5, <2>3 DEF TInv, TaskTypes, MapTypes, PoolTypes, TaskPc, OpenStream, TaskStep,
            mapVars, poolVars
  <1>6. CASE Store(t)
    <2>1. TaskTypes' /\ MapTypes'
      BY <1>6 DEF TInv, TaskTypes, MapTypes, TaskPc, Store, TaskStep
    <2>2. PoolTypes' /\ StreamTypes'
      BY <1>6 DEF TInv, PoolTypes, StreamTypes, Store, TaskStep, poolVars
    <2> QED
      BY <1>1, <2>1, <2>2 DEF TInv
  <1> QED
    BY <1>2, <1>3, <1>4, <1>5, <1>6 DEF SendTask

LEMMA TypeHandler ==
  ASSUME TInv, NEW c \in Conns, Handler(c)
  PROVE  TInv'
  <1>1. UNCHANGED <<sfVars, taskVars, mapVars, poolVars, alive>>
    BY DEF Handler, Accept, RequestFails, Download, Export, Ack, AckFails, Callback, HandlerEnds, PeerStep
  <1>2. CallTypes' /\ TaskTypes' /\ MapTypes' /\ PoolTypes'
    BY <1>1 DEF TInv, CallTypes, TaskTypes, MapTypes, PoolTypes, sfVars, taskVars, mapVars, poolVars
  <1>3. CASE Accept(c)
    <2>1. Head(inbox[c]) \in Stream /\ Tail(inbox[c]) \in Seq(Stream)
      BY <1>3 DEF TInv, StreamTypes, Accept
    <2>2. StreamTypes'
      BY <1>3, <2>1 DEF TInv, StreamTypes, Accept
    <2>3. HandlerTypes'
      BY <1>3, <2>1 DEF TInv, HandlerTypes, Accept, PeerStep
    <2> QED
      BY <1>2, <2>2, <2>3 DEF TInv
  <1>4. CASE RequestFails(c) \/ Download(c) \/ Ack(c) \/ AckFails(c) \/ HandlerEnds(c)
    <2>1. reply' \in [Transfers -> {"none", "ack", "closed"}]
      <3>1. ASSUME NEW r \in {"closed", "ack"}, Answer(c, r)
            PROVE  reply' \in [Transfers -> {"none", "ack", "closed"}]
        BY <3>1 DEF TInv, StreamTypes, Answer
      <3> QED
        BY <1>4, <3>1 DEF TInv, StreamTypes, RequestFails, Download, Ack, AckFails, HandlerEnds
    <2>3. <<>> \in Seq(Stream)
      OBVIOUS
    <2>4. inbox' \in [Conns -> Seq(Stream)]
      BY <1>4, <2>3 DEF TInv, StreamTypes, RequestFails, Download, Ack, AckFails, HandlerEnds
    <2>2. HandlerTypes'
      BY <1>4 DEF TInv, HandlerTypes, RequestFails, Download, Ack, AckFails, HandlerEnds, PeerStep
    <2> QED
      BY <1>2, <2>1, <2>2, <2>4 DEF TInv, StreamTypes
  <1>5. CASE Export(c) \/ Callback(c)
    <2>1. rxReq[c].transfer \in Transfers /\ rxReq[c] \in Stream
      BY <1>5 DEF TInv, HandlerTypes, Export, Callback, PeerStep, Stream
    <2>2. HandlerTypes'
      BY <1>5, <2>1 DEF TInv, HandlerTypes, Export, Callback, AddReceivedFile, PeerStep
    <2> QED
      BY <1>2, <1>5, <2>2 DEF TInv, StreamTypes, Export, Callback
  <1> QED
    BY <1>3, <1>4, <1>5 DEF Handler

LEMMA TypeStep ==
  ASSUME TInv, [Next]_vars
  PROVE  TInv'
  <1> USE DEF TInv, CallTypes, TaskTypes, MapTypes, PoolTypes, StreamTypes, HandlerTypes,
              sfVars, taskVars, mapVars, poolVars, peerVars
  <1>1. CASE Api
    <2>1. MapTypes'
      <3>1. ASSUME NEW t \in Cancellable, CancelTransfer(t) \/ CancelHandle(t)
            PROVE  MapTypes'
        <4>1. t \in Transfers
          BY TransferAssumption DEF Transfers
        <4> QED
          BY <3>1, <4>1 DEF CancelTransfer, CancelHandle, State, Terminal
      <3>2. CASE CleanupStale \/ CleanupFinished
        BY <3>2 DEF CleanupStale, CleanupFinished
      <3> QED
        BY <1>1, <3>1, <3>2 DEF Api
    <2>2. UNCHANGED apiRest /\ tmPool' \in {tmPool, NoConn}
      BY <1>1 DEF Api, CancelTransfer, CancelHandle, CleanupStale, CleanupFinished
    <2> QED
      BY <2>1, <2>2 DEF apiRest
  <1>2. ASSUME NEW c \in Conns, Break(c)
        PROVE  TInv'
    BY <1>2 DEF Break
  <1>3. ASSUME NEW t \in Downloadable, DownloadFromTicket(t)
        PROVE  TInv'
    <2>1. t \in Transfers
      BY TransferAssumption DEF Transfers
    <2> QED
      BY <1>3, <2>1 DEF DownloadFromTicket
  <1>4. CASE Listen
    BY <1>4 DEF Listen
  <1>5. CASE PeerRestarts
    <2>1. CallTypes' /\ TaskTypes' /\ MapTypes'
      BY <1>5 DEF PeerRestarts
    <2>2. PoolTypes' /\ StreamTypes'
      BY <1>5 DEF PeerRestarts
    <2>3. HandlerTypes'
      BY <1>5 DEF PeerRestarts
    <2> QED
      BY <2>1, <2>2, <2>3
  <1>6. CASE UNCHANGED vars
    BY <1>6 DEF vars
  <1> QED
    BY <1>1, <1>2, <1>3, <1>4, <1>5, <1>6, TypeCall, TypeTask, TypeHandler DEF Next

LEMMA Typed == Spec => []TInv
  BY TypeInit, TypeStep, PTL DEF Spec

\* Types: the transfers, the pools and the peer stay well typed; the pool
\* that only grows stays within its limit.
THEOREM TypeCorrect == Spec => []TypeOK
  BY Typed, TypesSuffice, PTL

-----------------------------------------------------------------------------
(* What a task has told.                                                      *)

\* The files of the call that no task has yet, and what each task's progress
\* says at each of its steps.
Untouched ==
    /\ \A t \in Transfers : t > cursor => pc[t] = "none"
    /\ sfPc # "ticket" => \A t \in Transfers : t = cursor => pc[t] = "none"
    /\ sfPc = "ticket" => pc[cursor] = "ticket"

Told(t) ==
    /\ pc[t] \in {"none", "ticket", "dropped", "start"} =>
          report[t] = "Pending" /\ result[t] = "Pending"
    /\ pc[t] \in {"lookup", "connect", "dial", "try", "wait"} =>
          report[t] = "InProgress" /\ result[t] = "InProgress"
    /\ pc[t] = "finish" => report[t] = "InProgress" /\ result[t] \in {"Completed", "Failed"}
    /\ pc[t] \in {"store", "done"} => result[t] \in Terminal /\ report[t] = result[t]

Progress == Untouched /\ \A t \in Transfers : Told(t)

\* The rest of the program does not touch calls and tasks.
LEMMA OthersLeaveTasks ==
  ASSUME \/ Api \/ (\E c \in Conns : Handler(c) \/ Break(c))
         \/ (\E t \in Downloadable : DownloadFromTicket(t))
         \/ Listen \/ PeerRestarts \/ UNCHANGED vars
  PROVE  UNCHANGED <<sfVars, pc, result, report>>
  <1> USE DEF sfVars, taskVars
  <1>1. CASE Api
    BY <1>1 DEF Api, CancelTransfer, CancelHandle, CleanupStale, CleanupFinished, apiRest
  <1>2. ASSUME NEW c \in Conns, Handler(c) \/ Break(c)
        PROVE  UNCHANGED <<sfVars, pc, result, report>>
    BY <1>2 DEF Handler, Accept, RequestFails, Download, Export, Ack, AckFails, Callback, HandlerEnds,
          PeerStep, Break
  <1>3. CASE (\E t \in Downloadable : DownloadFromTicket(t)) \/ Listen \/ PeerRestarts \/ UNCHANGED vars
    BY <1>3 DEF DownloadFromTicket, Listen, PeerRestarts, vars
  <1> QED
    BY <1>1, <1>2, <1>3

LEMMA UntouchedByCall ==
  ASSUME TInv, Untouched, Call \/ \E n \in 1 .. MaxBatch : SendFiles(n)
  PROVE  Untouched'
  <1>0. cursor \in Nat /\ upTo \in Nat /\ (\A t \in Transfers : t \in Nat)
    BY TransferAssumption DEF TInv, CallTypes, Transfers
  <1>1. CASE FileMissing
    BY <1>0, <1>1 DEF Untouched, FileMissing, AbandonCall
  <1>2. CASE TicketFails
    <2>1. cursor <= upTo /\ cursor' = upTo + 1 /\ sfPc' = "idle" /\ sfPc = "ticket"
      BY <1>2 DEF TInv, CallTypes, TicketFails, AbandonCall
    <2>2. \A t \in Transfers : t >= cursor' => pc[t] = "none" /\ t # cursor
      BY <1>0, <2>1 DEF Untouched
    <2>3. \A t \in Transfers : t >= cursor' => pc'[t] = "none"
      BY <1>2, <2>2 DEF TicketFails, TInv, TaskTypes
    <2>4. cursor' \in Nat
      BY <1>0, <2>1
    <2>5. \A t \in Transfers : t > cursor' \/ t = cursor' => t >= cursor'
      BY <1>0, <2>4
    <2>6. sfPc' # "ticket"
      BY <2>1
    <2> QED
      BY <2>3, <2>5, <2>6 DEF Untouched
  <1>3. CASE Register
    <2>1. cursor \in Transfers
      <3>1. cursor \in 1 .. NumTransfers + 1 /\ upTo \in 0 .. NumTransfers /\ cursor <= upTo
        BY <1>3 DEF TInv, CallTypes, Register
      <3>2. NumTransfers \in Nat
        BY TransferAssumption
      <3> QED
        BY <3>1, <3>2 DEF Transfers
    <2> QED
      BY <1>0, <1>3, <2>1 DEF Untouched, Register, TInv, TaskTypes
  <1>4. CASE Spawn
    <2>1. cursor' = cursor + 1 /\ sfPc' = "file"
      BY <1>4 DEF Spawn
    <2>2. \A t \in Transfers : t >= cursor' => pc[t] = "none" /\ t # cursor
      BY <1>0, <2>1 DEF Untouched
    <2> QED
      BY <1>0, <1>4, <2>1, <2>2 DEF Untouched, Spawn, TInv, TaskTypes
  <1>5. CASE AllSpawned \/ AllReported \/ \E n \in 1 .. MaxBatch : SendFiles(n)
    BY <1>5 DEF Untouched, AllSpawned, AllReported, SendFiles
  <1> QED
    BY <1>1, <1>2, <1>3, <1>4, <1>5 DEF Call

\* What a call does to the file at its cursor.
LEMMA CallMoves ==
  ASSUME TInv, Progress, Call \/ \E n \in 1 .. MaxBatch : SendFiles(n)
  PROVE  /\ UNCHANGED <<result, report>>
         /\ \A t \in Transfers :
              \/ pc'[t] = pc[t]
              \/ t = cursor /\ pc[t] = "none" /\ pc'[t] = "ticket" /\ Register
              \/ t = cursor /\ pc[t] = "ticket" /\ pc'[t] = "dropped" /\ TicketFails
              \/ t = cursor /\ pc[t] = "ticket" /\ pc'[t] = "start" /\ Spawn
  BY DEF TInv, TaskTypes, Progress, Untouched, sfRest,
        Call, SendFiles, FileMissing, Register, TicketFails, Spawn, AllSpawned, AllReported, AbandonCall

\* A send task speaks for its own transfer alone.
LEMMA TaskMoves ==
  ASSUME TInv, NEW t \in Transfers, SendTask(t)
  PROVE  /\ pc[t] \notin {"none", "ticket", "dropped", "done"}
         /\ pc'[t] \notin {"none", "ticket", "dropped", "start"}
         /\ \A s \in Transfers \ {t} :
              pc'[s] = pc[s] /\ result'[s] = result[s] /\ report'[s] = report[s]
  <1> USE DEF TInv, TaskTypes, TaskStep
  <1>1. CASE Begin(t) \/ Finish(t) \/ DialFails(t) \/ GiveUp(t) \/ Acked(t)
    BY <1>1 DEF Begin, Finish, DialFails, GiveUp, Acked, AttemptError
  <1>2. CASE PoolHit(t) \/ PoolMiss(t) \/ ConnectPooled(t) \/ ConnectMiss(t) \/ Retry(t)
    BY <1>2 DEF PoolHit, PoolMiss, ConnectPooled, ConnectMiss, Retry, Use, AttemptError
  <1>3. CASE DialOk(t) \/ OpenStream(t) \/ Store(t)
    BY <1>3 DEF DialOk, OpenStream, Store, Use
  <1> QED
    BY <1>1, <1>2, <1>3 DEF SendTask

LEMMA ToldByTask ==
  ASSUME TInv, NEW t \in Transfers, Told(t), SendTask(t)
  PROVE  Told(t)'
  <1> USE DEF TInv, TaskTypes, TaskStep, Told
  <1>1. CASE Begin(t) \/ DialFails(t)
    BY <1>1 DEF Begin, DialFails
  <1>2. CASE GiveUp(t) \/ Acked(t)
    BY <1>2 DEF GiveUp, Acked, AttemptError
  <1>3. CASE Finish(t)
    BY <1>3 DEF Finish, Terminal
  <1>4. CASE PoolHit(t) \/ PoolMiss(t) \/ ConnectPooled(t) \/ ConnectMiss(t) \/ Retry(t)
    BY <1>4 DEF PoolHit, PoolMiss, ConnectPooled, ConnectMiss, Retry, Use, AttemptError
  <1>5. CASE DialOk(t) \/ OpenStream(t) \/ Store(t)
    BY <1>5 DEF DialOk, OpenStream, Store, Use
  <1> QED
    BY <1>1, <1>2, <1>3, <1>4, <1>5 DEF SendTask

LEMMA ProgressStep ==
  ASSUME TInv, Progress, [Next]_vars
  PROVE  Progress'
  <1>1. CASE Call \/ \E n \in 1 .. MaxBatch : SendFiles(n)
    <2>1. Untouched'
      BY <1>1, UntouchedByCall DEF Progress
    <2>2. \A t \in Transfers : Told(t)'
      BY <1>1, CallMoves DEF Progress, Told
    <2> QED
      BY <2>1, <2>2 DEF Progress
  <1>2. ASSUME NEW t \in Transfers, SendTask(t)
        PROVE  Progress'
    <2>1. Told(t)'
      BY <1>2, ToldByTask DEF Progress
    <2>2. \A s \in Transfers \ {t} : Told(s)'
      BY <1>2, TaskMoves DEF Progress, Told
    <2>3. Untouched'
      <3>1. UNCHANGED <<sfPc, cursor>>
        BY <1>2, TaskLeaves DEF sfVars
      <3>2. sfPc = "ticket" => cursor \in Transfers
        BY TransferAssumption DEF TInv, CallTypes, Transfers
      <3> QED
        BY <1>2, <3>1, <3>2, TaskMoves DEF Progress, Untouched
    <2> QED
      BY <2>1, <2>2, <2>3 DEF Progress
  <1>3. CASE UNCHANGED <<sfVars, pc, result, report>>
    BY <1>3 DEF Progress, Untouched, Told, sfVars
  <1> QED
    BY <1>1, <1>2, <1>3, OthersLeaveTasks DEF Next

LEMMA ProgressHolds == Spec => []Progress
  <1>1. Init => Progress
    BY DEF Init, Progress, Untouched, Told
  <1> QED
    BY <1>1, Typed, ProgressStep, PTL DEF Spec

-----------------------------------------------------------------------------
(* The list of active transfers.                                              *)

\* An entry is active from its registration to the task's store, which writes
\* a terminal state.
Active(t) ==
    /\ pc[t] \in Running \union {"ticket", "store"} /\ t \notin cancelled => t \in ActiveTransfers
    /\ t \in ActiveTransfers => pc[t] \in Running \union {"ticket", "dropped", "store"}

Tracked == \A t \in Transfers : Active(t)

LEMMA ActiveUnchanged ==
  ASSUME NEW t, Active(t), pc'[t] = pc[t], entry'[t] = entry[t], cancelled \subseteq cancelled'
  PROVE  Active(t)'
  BY DEF Active, ActiveTransfers, Running

LEMMA TrackedByTask ==
  ASSUME TInv, Progress, Tracked, NEW t \in Transfers, SendTask(t)
  PROVE  Tracked'
  <1> USE DEF TInv, TaskTypes, MapTypes, TaskStep, mapVars
  <1>1. UNCHANGED cancelled
    BY DEF SendTask, Begin, Finish, DialFails, GiveUp, Acked, PoolHit, PoolMiss, ConnectPooled,
          ConnectMiss, Retry, DialOk, OpenStream, Store, Use
  <1>2. CASE Store(t)
    <2>1. result[t] \in Terminal
      BY <1>2 DEF Store, Progress, Told
    <2>2. Active(t)'
      BY <1>2, <2>1 DEF Store, Active, ActiveTransfers, Running, Terminal
    <2>3. ASSUME NEW s \in Transfers \ {t}
          PROVE  Active(s)'
      BY <1>1, <1>2, ActiveUnchanged DEF Store, Tracked
    <2> QED
      BY <2>2, <2>3 DEF Tracked
  <1>3. CASE ~Store(t)
    <2>1. UNCHANGED entry
      BY <1>3 DEF SendTask, Begin, Finish, DialFails, GiveUp, Acked, PoolHit, PoolMiss, ConnectPooled,
            ConnectMiss, Retry, DialOk, OpenStream, Use
    <2>2. pc[t] \in Running /\ pc'[t] \in Running \union {"store"}
      BY <1>3 DEF SendTask, Begin, Finish, DialFails, GiveUp, Acked, PoolHit, PoolMiss, ConnectPooled,
            ConnectMiss, Retry, DialOk, OpenStream, Use, AttemptError, Running
    <2>3. Active(t)'
      BY <1>1, <2>1, <2>2 DEF Tracked, Active, ActiveTransfers
    <2>4. ASSUME NEW s \in Transfers \ {t}
          PROVE  Active(s)'
      BY <1>1, <2>1, TaskMoves, ActiveUnchanged DEF Tracked
    <2> QED
      BY <2>3, <2>4 DEF Tracked
  <1> QED
    BY <1>2, <1>3

LEMMA TrackedStep ==
  ASSUME TInv, Progress, Tracked, [Next]_vars
  PROVE  Tracked'
  <1> USE DEF TInv, TaskTypes, MapTypes
  <1>1. CASE Call \/ \E n \in 1 .. MaxBatch : SendFiles(n)
    <2>1. UNCHANGED cancelled
      BY <1>1 DEF Call, SendFiles, FileMissing, Register, TicketFails, Spawn, AllSpawned, AllReported,
            AbandonCall, sfRest
    <2>2. CASE Register
      <3>1. \A t \in Transfers \ {cursor} : pc'[t] = pc[t] /\ entry'[t] = entry[t]
        BY <2>2 DEF Register
      <3>2. \A t \in Transfers : t = cursor => pc'[t] = "ticket" /\ entry'[t] = "Pending"
        BY <2>2 DEF Register
      <3> QED
        BY <2>1, <3>1, <3>2 DEF Tracked, Active, ActiveTransfers
    <2>3. CASE ~Register
      <3>1. UNCHANGED entry
        BY <1>1, <2>3 DEF Call, SendFiles, FileMissing, TicketFails, Spawn, AllSpawned, AllReported
      <3> QED
        BY <1>1, <2>1, <2>3, <3>1, CallMoves DEF Tracked, Active, ActiveTransfers, Running
    <2> QED
      BY <2>2, <2>3
  <1>2. CASE Api
    <2>1. UNCHANGED pc /\ cancelled \subseteq cancelled'
      BY <1>2 DEF Api, CancelTransfer, CancelHandle, CleanupStale, CleanupFinished, apiRest, taskVars, mapVars
    <2>2. ASSUME NEW t \in Cancellable, CancelTransfer(t) \/ CancelHandle(t)
          PROVE  Tracked'
      <3>1. t \in cancelled' /\ entry'[t] \in {entry[t], "Cancelled"}
        BY <2>2 DEF CancelTransfer, CancelHandle
      <3>2. \A s \in Transfers \ {t} : entry'[s] = entry[s] /\ (s \in cancelled <=> s \in cancelled')
        BY <2>2 DEF CancelTransfer, CancelHandle
      <3> QED
        BY <2>1, <3>1, <3>2 DEF Tracked, Active, ActiveTransfers
    <2>3. CASE CleanupStale
      BY <2>1, <2>3 DEF CleanupStale, Tracked, Active, ActiveTransfers, mapVars
    <2>4. CASE CleanupFinished
      BY <2>1, <2>4 DEF CleanupFinished, Tracked, Active, ActiveTransfers
    <2> QED
      BY <1>2, <2>2, <2>3, <2>4 DEF Api
  <1>3. ASSUME NEW c \in Conns, Handler(c) \/ Break(c)
        PROVE  Tracked'
    <2>1. UNCHANGED <<pc, mapVars>>
      BY <1>3 DEF Handler, Accept, RequestFails, Download, Export, Ack, AckFails, Callback, HandlerEnds,
            PeerStep, Break, taskVars
    <2> QED
      BY <2>1 DEF Tracked, Active, ActiveTransfers, mapVars
  <1>4. CASE (\E t \in Downloadable : DownloadFromTicket(t)) \/ Listen \/ PeerRestarts \/ UNCHANGED vars
    <2>1. UNCHANGED <<pc, mapVars>>
      BY <1>4 DEF DownloadFromTicket, Listen, PeerRestarts, vars, taskVars
    <2> QED
      BY <2>1 DEF Tracked, Active, ActiveTransfers, mapVars
  <1> QED
    BY <1>1, <1>2, <1>3, <1>4, TrackedByTask DEF Next

\* For any number of transfers, callers that cancel and rounds of cleanup, the
\* list of active transfers holds what runs, and little else.
THEOREM ActiveListTrue == Spec => []ActiveIsRunning
  <1>1. Init => Tracked
    BY DEF Init, Tracked, Active, ActiveTransfers, Running
  <1>2. Tracked => ActiveIsRunning
    BY DEF Tracked, Active, ActiveIsRunning
  <1> QED
    BY <1>1, <1>2, Typed, ProgressHolds, TrackedStep, PTL DEF Spec

-----------------------------------------------------------------------------
(* What is completed is stored, if no two files have one name: what is on     *)
(* disk is then never replaced by another's.                                  *)

DistinctNames == \A s, t \in Transfers : NameOf[s] = NameOf[t] => s = t

\* The peer serves tasks that have started, ...
Started(t) == pc[t] \notin {"none", "ticket", "dropped"}

Requested ==
    /\ \A c \in Conns : \A i \in 1 .. Len(inbox[c]) : Started(inbox[c][i].transfer)
    /\ \A c \in Conns : rxPc[c] # "accept" => Started(rxReq[c].transfer)

\* ... and an ACK, from the moment it is due, is for a file on disk.
Stored ==
    /\ \A t \in Transfers : reply[t] = "ack" => Exported(t)
    /\ \A c \in Conns : rxPc[c] \in {"ack", "callback"} => Exported(rxReq[c].transfer)
    /\ CompletedIsExported

LEMMA StoreAdds ==
  ASSUME TInv, DistinctNames, NEW t \in Transfers, disk' = [disk EXCEPT ![NameOf[t]] = t]
  PROVE  \A s \in Transfers : Exported(s)' <=> Exported(s) \/ s = t
  BY DEF TInv, HandlerTypes, DistinctNames, Exported, Names

LEMMA StartedStays ==
  ASSUME TInv, Progress, [Next]_vars, NEW t \in Transfers, Started(t)
  PROVE  Started(t)'
  <1>1. CASE Call \/ \E n \in 1 .. MaxBatch : SendFiles(n)
    BY <1>1, CallMoves DEF Started
  <1>2. ASSUME NEW s \in Transfers, SendTask(s)
        PROVE  Started(t)'
    BY <1>2, TaskMoves DEF Started
  <1>3. CASE UNCHANGED <<sfVars, pc, result, report>>
    BY <1>3 DEF Started
  <1> QED
    BY <1>1, <1>2, <1>3, OthersLeaveTasks DEF Next

\* A stream in the inbox was there before, or is the one just opened.
LEMMA InboxMoves ==
  ASSUME TInv, [Next]_vars, NEW c \in Conns, NEW i \in 1 .. Len(inbox'[c])
  PROVE  \/ \E j \in 1 .. Len(inbox[c]) : inbox'[c][i] = inbox[c][j]
         \/ \E t \in Transfers : OpenStream(t) /\ inbox'[c][i].transfer = t
  <1> USE DEF TInv, StreamTypes
  <1>1. CASE inbox'[c] = inbox[c]
    BY <1>1
  <1>2. ASSUME NEW d \in Conns, Handler(d)
        PROVE  inbox'[c] = inbox[c] \/ inbox'[c] = <<>> \/ (inbox[c] # <<>> /\ inbox'[c] = Tail(inbox[c]))
    BY <1>2 DEF Handler, Accept, RequestFails, Download, Export, Ack, AckFails, Callback, HandlerEnds
  <1>3. CASE inbox[c] # <<>> /\ inbox'[c] = Tail(inbox[c])
    <2>1. inbox[c] \in Seq(Stream)
      OBVIOUS
    <2>2. i + 1 \in 1 .. Len(inbox[c]) /\ inbox'[c][i] = inbox[c][i + 1]
      BY <1>3, <2>1
    <2> QED
      BY <2>2
  <1>4. CASE inbox'[c] = <<>>
    BY <1>4
  <1>5. ASSUME NEW t \in Transfers, OpenStream(t), inbox'[c] # inbox[c]
        PROVE  \/ \E j \in 1 .. Len(inbox[c]) : inbox'[c][i] = inbox[c][j]
               \/ inbox'[c][i].transfer = t
    <2>1. inbox'[c] = Append(inbox[c], [transfer |-> t, attempt |-> attempt[t]])
      BY <1>5 DEF OpenStream
    <2>2. inbox[c] \in Seq(Stream) /\ [transfer |-> t, attempt |-> attempt[t]] \in Stream
      BY DEF Stream, TaskTypes
    <2> QED
      BY <2>1, <2>2
  <1>6. ASSUME NEW t \in Transfers, SendTask(t), ~OpenStream(t)
        PROVE  UNCHANGED inbox
    BY <1>6 DEF SendTask, Begin, Finish, DialFails, GiveUp, Acked, PoolHit, PoolMiss, ConnectPooled,
          ConnectMiss, Retry, DialOk, Store, Use
  <1>7. CASE Call \/ (\E n \in 1 .. MaxBatch : SendFiles(n)) \/ Api
    BY <1>1, <1>7 DEF Call, SendFiles, FileMissing, Register, TicketFails, Spawn, AllSpawned,
          AllReported, AbandonCall, sfRest,
          Api, CancelTransfer, CancelHandle, CleanupStale, CleanupFinished, apiRest
  <1>8. CASE \/ (\E d \in Conns : Break(d)) \/ (\E t \in Downloadable : DownloadFromTicket(t))
             \/ Listen \/ UNCHANGED vars
    BY <1>1, <1>8 DEF Break, DownloadFromTicket, Listen, vars
  <1>9. CASE PeerRestarts
    BY <1>4, <1>9 DEF PeerRestarts
  <1> QED
    BY <1>1, <1>2, <1>3, <1>4, <1>5, <1>6, <1>7, <1>8, <1>9 DEF Next

\* A handler's request was its own before, or the first of its inbox.
LEMMA HandlerMoves ==
  ASSUME TInv, [Next]_vars, NEW c \in Conns, rxPc'[c] # "accept"
  PROVE  \/ /\ rxReq'[c] = rxReq[c]
            /\ \/ rxPc'[c] = rxPc[c]
               \/ rxPc[c] = "download" /\ rxPc'[c] = "export"
               \/ rxPc[c] = "export" /\ rxPc'[c] = "ack" /\ Export(c)
               \/ rxPc[c] = "ack" /\ rxPc'[c] = "callback"
         \/ inbox[c] # <<>> /\ rxReq'[c] = Head(inbox[c]) /\ rxPc'[c] = "download"
  <1> USE DEF TInv, HandlerTypes, peerVars
  <1>1. ASSUME NEW d \in Conns, Handler(d), d # c
        PROVE  rxPc'[c] = rxPc[c] /\ rxReq'[c] = rxReq[c]
    BY <1>1 DEF PeerStep, Handler, Accept, RequestFails, Download, Export, Ack, AckFails, Callback, HandlerEnds
  <1>2. CASE Handler(c)
    BY <1>2 DEF PeerStep, Handler, Accept, RequestFails, Download, Export, Ack, AckFails, Callback, HandlerEnds
  <1>3. CASE Call \/ (\E n \in 1 .. MaxBatch : SendFiles(n)) \/ Api
    BY <1>3 DEF Call, SendFiles, FileMissing, Register, TicketFails, Spawn, AllSpawned,
          AllReported, AbandonCall, sfRest,
          Api, CancelTransfer, CancelHandle, CleanupStale, CleanupFinished, apiRest
  <1>4. CASE \/ (\E d \in Conns : Break(d)) \/ (\E t \in Downloadable : DownloadFromTicket(t))
             \/ Listen \/ UNCHANGED vars \/ PeerRestarts
    BY <1>4 DEF Break, DownloadFromTicket, Listen, PeerRestarts, vars
  <1> QED
    BY <1>1, <1>2, <1>3, <1>4, TaskLeaves DEF Next

LEMMA RequestedStep ==
  ASSUME TInv, TInv', Progress, Requested, [Next]_vars
  PROVE  Requested'
  <1>1. ASSUME NEW c \in Conns, NEW i \in 1 .. Len(inbox'[c])
        PROVE  Started(inbox[c][i].transfer)'
    <2>1. ASSUME NEW j \in 1 .. Len(inbox[c]), inbox'[c][i] = inbox[c][j]
          PROVE  Started(inbox[c][i].transfer)'
      <3>1. inbox[c][j] \in Stream
        BY DEF TInv, StreamTypes
      <3>2. inbox[c][j].transfer \in Transfers /\ Started(inbox[c][j].transfer)
        BY <3>1 DEF Requested, Stream
      <3> QED
        BY <2>1, <3>2, StartedStays DEF Started
    <2>2. ASSUME NEW t \in Transfers, OpenStream(t), inbox'[c][i].transfer = t
          PROVE  Started(inbox[c][i].transfer)'
      <3>1. pc'[t] = "wait"
        BY <2>2 DEF OpenStream, TaskStep, TInv, TaskTypes
      <3> QED
        BY <2>2, <3>1 DEF Started
    <2> QED
      BY <2>1, <2>2, InboxMoves
  <1>2. ASSUME NEW c \in Conns, rxPc'[c] # "accept"
        PROVE  Started(rxReq[c].transfer)'
    <2>1. CASE rxReq'[c] = rxReq[c] /\ rxPc[c] # "accept"
      <3>1. rxReq[c].transfer \in Transfers /\ Started(rxReq[c].transfer)
        BY <2>1 DEF Requested, TInv, HandlerTypes, Stream
      <3> QED
        BY <2>1, <3>1, StartedStays DEF Started
    <2>2. CASE inbox[c] # <<>> /\ rxReq'[c] = Head(inbox[c])
      <3>1. inbox[c] \in Seq(Stream)
        BY DEF TInv, StreamTypes
      <3>2. 1 \in 1 .. Len(inbox[c]) /\ rxReq'[c] = inbox[c][1] /\ inbox[c][1] \in Stream
        BY <2>2, <3>1
      <3>3. inbox[c][1].transfer \in Transfers /\ Started(inbox[c][1].transfer)
        BY <3>2 DEF Requested, Stream
      <3> QED
        BY <3>2, <3>3, StartedStays DEF Started
    <2> QED
      BY <1>2, <2>1, <2>2, HandlerMoves
  <1> QED
    BY <1>1, <1>2 DEF Requested

\* A file is stored by an export or a download from its ticket, and then stays.
LEMMA DiskMoves ==
  ASSUME TInv, DistinctNames, [Next]_vars
  PROVE  \/ UNCHANGED disk /\ \A s \in Transfers : Exported(s)' <=> Exported(s)
         \/ \E t \in Transfers :
              /\ \A s \in Transfers : Exported(s)' <=> Exported(s) \/ s = t
              /\ \/ \E c \in Conns : Export(c) /\ t = rxReq[c].transfer
                 \/ t \in Downloadable /\ DownloadFromTicket(t)
  <1>1. ASSUME NEW c \in Conns, Export(c)
        PROVE  /\ rxReq[c].transfer \in Transfers
               /\ \A s \in Transfers : Exported(s)' <=> Exported(s) \/ s = rxReq[c].transfer
    <2>1. rxReq[c].transfer \in Transfers /\ disk' = [disk EXCEPT ![NameOf[rxReq[c].transfer]] = rxReq[c].transfer]
      BY <1>1 DEF Export, PeerStep, TInv, HandlerTypes, Stream
    <2> QED
      BY <2>1, StoreAdds
  <1>2. ASSUME NEW t \in Downloadable, DownloadFromTicket(t)
        PROVE  t \in Transfers /\ \A s \in Transfers : Exported(s)' <=> Exported(s) \/ s = t
    <2>1. t \in Transfers
      BY TransferAssumption DEF Transfers
    <2> QED
      BY <1>2, <2>1, StoreAdds DEF DownloadFromTicket
  <1>3. CASE Call \/ (\E n \in 1 .. MaxBatch : SendFiles(n)) \/ Api
    BY <1>3 DEF Exported, Call, SendFiles, FileMissing, Register, TicketFails, Spawn, AllSpawned,
          AllReported, AbandonCall, sfRest, peerVars,
          Api, CancelTransfer, CancelHandle, CleanupStale, CleanupFinished, apiRest
  <1>4. ASSUME NEW c \in Conns, Handler(c) \/ Break(c), ~Export(c)
        PROVE  UNCHANGED disk
    BY <1>4 DEF Handler, Accept, RequestFails, Download, Ack, AckFails, Callback, HandlerEnds, Break, peerVars
  <1>5. CASE Listen \/ PeerRestarts \/ UNCHANGED vars
    BY <1>5 DEF Exported, Listen, PeerRestarts, vars, peerVars
  <1> QED
    BY <1>1, <1>2, <1>3, <1>4, <1>5, TaskLeaves DEF Next, Exported

\* A transfer is completed after an ACK.
LEMMA CompletedByAck ==
  ASSUME TInv, [Next]_vars, NEW t \in Transfers,
         "Completed" \in {result'[t], report'[t], entry'[t]}
  PROVE  "Completed" \in {result[t], report[t], entry[t]} \/ reply[t] = "ack"
  <1> USE DEF TInv, TaskTypes, MapTypes, taskVars, mapVars
  <1>1. CASE Call \/ (\E n \in 1 .. MaxBatch : SendFiles(n))
    BY <1>1 DEF Call, SendFiles, FileMissing, Register, TicketFails, Spawn, AllSpawned,
          AllReported, AbandonCall, sfRest
  <1>2. CASE Api
    BY <1>2 DEF Api, CancelTransfer, CancelHandle, CleanupStale, CleanupFinished, apiRest
  <1>3. ASSUME NEW s \in Transfers, SendTask(s)
        PROVE  "Completed" \in {result[t], report[t], entry[t]} \/ reply[t] = "ack"
    <2>1. CASE Begin(s) \/ Finish(s) \/ DialFails(s) \/ GiveUp(s) \/ Acked(s)
      BY <2>1 DEF Begin, Finish, DialFails, GiveUp, Acked
    <2>2. CASE PoolHit(s) \/ PoolMiss(s) \/ ConnectPooled(s) \/ ConnectMiss(s) \/ Retry(s) \/ DialOk(s)
      BY <2>2 DEF PoolHit, PoolMiss, ConnectPooled, ConnectMiss, Retry, DialOk, Use
    <2>3. CASE OpenStream(s) \/ Store(s)
      BY <2>3 DEF OpenStream, Store
    <2> QED
      BY <1>3, <2>1, <2>2, <2>3 DEF SendTask
  <1>4. ASSUME NEW c \in Conns, Handler(c) \/ Break(c)
        PROVE  UNCHANGED <<result, report, entry>>
    BY <1>4 DEF PeerStep, Handler, Accept, RequestFails, Download, Export, Ack, AckFails, Callback,
          HandlerEnds, Break
  <1>5. CASE (\E s \in Downloadable : DownloadFromTicket(s)) \/ Listen \/ PeerRestarts \/ UNCHANGED vars
    BY <1>5 DEF DownloadFromTicket, Listen, PeerRestarts, vars
  <1> QED
    BY <1>1, <1>2, <1>3, <1>4, <1>5 DEF Next

\* An ACK is for the file of the stream it comes on.
LEMMA AckMoves ==
  ASSUME TInv, [Next]_vars, NEW t \in Transfers, reply'[t] = "ack"
  PROVE  reply[t] = "ack" \/ \E c \in Conns : rxPc[c] = "ack" /\ rxReq[c].transfer = t
  <1> USE DEF TInv, StreamTypes
  <1>1. CASE Call \/ (\E n \in 1 .. MaxBatch : SendFiles(n)) \/ Api
    BY <1>1 DEF Call, SendFiles, FileMissing, Register, TicketFails, Spawn, AllSpawned,
          AllReported, AbandonCall, sfRest,
          Api, CancelTransfer, CancelHandle, CleanupStale, CleanupFinished, apiRest
  <1>2. ASSUME NEW s \in Transfers, SendTask(s)
        PROVE  reply[t] = "ack"
    BY <1>2 DEF SendTask, Begin, Finish, DialFails, GiveUp, Acked, PoolHit, PoolMiss, ConnectPooled,
          ConnectMiss, Retry, DialOk, OpenStream, Store, Use
  <1>3. ASSUME NEW c \in Conns, Handler(c)
        PROVE  reply[t] = "ack" \/ (rxPc[c] = "ack" /\ rxReq[c].transfer = t)
    BY <1>3 DEF Answer, PeerStep, Handler, Accept, RequestFails, Download, Export, Ack, AckFails, Callback,
          HandlerEnds
  <1>4. CASE \/ (\E c \in Conns : Break(c)) \/ (\E s \in Downloadable : DownloadFromTicket(s))
             \/ Listen \/ PeerRestarts \/ UNCHANGED vars
    BY <1>4 DEF Break, DownloadFromTicket, Listen, PeerRestarts, vars
  <1> QED
    BY <1>1, <1>2, <1>3, <1>4 DEF Next

LEMMA StoredStep ==
  ASSUME TInv, DistinctNames, Stored, [Next]_vars
  PROVE  Stored'
  <1>1. \A s \in Transfers : Exported(s) => Exported(s)'
    BY DiskMoves
  <1>2. ASSUME NEW t \in Transfers, reply'[t] = "ack"
        PROVE  Exported(t)'
    BY <1>1, <1>2, AckMoves DEF Stored
  <1>3. ASSUME NEW c \in Conns, rxPc'[c] \in {"ack", "callback"}
        PROVE  Exported(rxReq[c].transfer)'
    <2>1. rxReq'[c] = rxReq[c] /\ rxPc[c] # "accept" /\ (rxPc[c] \in {"ack", "callback"} \/ Export(c))
      BY <1>3, HandlerMoves
    <2>2. rxReq[c].transfer \in Transfers
      BY <2>1 DEF TInv, HandlerTypes, Stream
    <2>3. CASE rxPc[c] \in {"ack", "callback"}
      BY <1>1, <2>1, <2>2, <2>3 DEF Stored, Exported
    <2>4. CASE Export(c)
      <3>1. disk' = [disk EXCEPT ![NameOf[rxReq[c].transfer]] = rxReq[c].transfer]
        BY <2>4 DEF Export
      <3> QED
        BY <2>1, <2>2, <3>1, StoreAdds DEF Exported
    <2> QED
      BY <2>1, <2>3, <2>4
  <1>4. CompletedIsExported'
    BY <1>1, CompletedByAck DEF Stored, CompletedIsExported
  <1> QED
    BY <1>2, <1>3, <1>4 DEF Stored

\* For any number of files of different names, whatever connections break and
\* whichever ACKs are lost or answered twice: what is said to be completed is
\* in the peer's download directory.
THEOREM CompletedIsStored ==
  ASSUME DistinctNames
  PROVE  Spec => []CompletedIsExported
  <1>1. Init => Stored
    BY DEF Init, Stored, CompletedIsExported
  <1>2. Stored => CompletedIsExported
    BY DEF Stored
  <1>3. TInv /\ Stored /\ [Next]_vars => Stored'
    BY StoredStep
  <1> QED
    BY <1>1, <1>2, <1>3, Typed, PTL DEF Spec

-----------------------------------------------------------------------------
(* Transfer implements Delivery.                                              *)

\* The abstract state is left as it was.
Stutters ==
    \A t \in Transfers : Outcome(t)' = Outcome(t) /\ (Exported(t)' <=> Exported(t))

LEMMA StutterMaps ==
  ASSUME Stutters
  PROVE  UNCHANGED Abstract!deliveryVars
  BY DEF Stutters, Abstract!deliveryVars

LEMMA OutcomeKept ==
  ASSUME NEW t \in Transfers, report'[t] = report[t],
         pc[t] \in {"none", "ticket", "dropped"} <=> pc'[t] \in {"none", "ticket", "dropped"}
  PROVE  Outcome(t)' = Outcome(t)
  BY DEF Outcome

\* Steps of a call: Spawn starts the file at the cursor.
LEMMA CallMaps ==
  ASSUME TInv, Progress, Call \/ \E n \in 1 .. MaxBatch : SendFiles(n)
  PROVE  [Abstract!DeliveryNext]_(Abstract!deliveryVars)
  <1>1. \A t \in Transfers : Exported(t)' <=> Exported(t)
    BY DEF Exported, Call, SendFiles, FileMissing, Register, TicketFails, Spawn, AllSpawned,
          AllReported, AbandonCall, sfRest, peerVars
  <1>2. CASE Spawn
    <2>1. PICK f \in Transfers : f = cursor
      <3>1. cursor \in 1 .. NumTransfers + 1 /\ upTo \in 0 .. NumTransfers /\ cursor <= upTo
        BY <1>2 DEF TInv, CallTypes, Spawn
      <3>2. NumTransfers \in Nat
        BY TransferAssumption
      <3> QED
        BY <3>1, <3>2 DEF Transfers
    <2>2. /\ pc[f] = "ticket" /\ pc'[f] = "start" /\ report'[f] = report[f]
          /\ report[f] = "Pending"
      BY <1>2, <2>1 DEF TInv, TaskTypes, Spawn, sfRest, Progress, Untouched, Told
    <2>3. Outcome(f) = "none" /\ Outcome(f)' = "started"
      BY <2>2 DEF Outcome, Terminal
    <2>4. \A t \in Transfers \ {f} : Outcome(t)' = Outcome(t)
      BY <1>2, <2>1 DEF Outcome, TInv, TaskTypes, Spawn, sfRest
    <2>5. Abstract!Start(f)
      BY <1>1, <2>3, <2>4 DEF Abstract!Start
    <2> QED
      BY <2>5 DEF Abstract!DeliveryNext
  <1>3. CASE ~Spawn
    <2>1. \A t \in Transfers : Outcome(t)' = Outcome(t)
      BY <1>3, CallMoves, OutcomeKept
    <2> QED
      BY <1>1, <2>1, StutterMaps DEF Stutters
  <1> QED
    BY <1>2, <1>3

\* Steps of a send task: Finish concludes, with Completed only if it is stored.
LEMMA TaskMaps ==
  ASSUME TInv, Progress, Stored, NEW t \in Transfers, SendTask(t)
  PROVE  [Abstract!DeliveryNext]_(Abstract!deliveryVars)
  <1>1. \A s \in Transfers : Exported(s)' <=> Exported(s)
    BY TaskLeaves DEF Exported
  <1>2. \A s \in Transfers \ {t} : Outcome(s)' = Outcome(s)
    BY TaskMoves DEF Outcome
  <1>3. CASE Finish(t)
    <2>1. /\ pc[t] = "finish" /\ pc'[t] = "store" /\ report[t] = "InProgress"
          /\ report'[t] \in Terminal /\ (report'[t] = "Completed" => result[t] = "Completed")
      BY <1>3 DEF Finish, TaskStep, TInv, TaskTypes, Progress, Told, Terminal
    <2>2. Outcome(t) = "started" /\ Outcome(t)' = report'[t]
      BY <2>1 DEF Outcome, Terminal
    <2>3. report'[t] = "Completed" => Exported(t)
      BY <2>1 DEF Stored, CompletedIsExported
    <2>4. Abstract!Conclude(t, report'[t])
      BY <1>1, <1>2, <2>2, <2>3 DEF Abstract!Conclude
    <2>5. Abstract!Conclusion(t)
      BY <2>1, <2>4 DEF Abstract!Conclusion, Terminal
    <2> QED
      BY <2>5 DEF Abstract!DeliveryNext
  <1>4. CASE ~Finish(t)
    <2>1. report'[t] = report[t] \/ (report[t] = "Pending" /\ report'[t] = "InProgress")
      BY <1>4 DEF TInv, TaskTypes, Progress, Told, TaskStep, SendTask, Begin, DialFails, GiveUp, Acked, PoolHit, PoolMiss,
            ConnectPooled, ConnectMiss, Retry, DialOk, OpenStream, Store, Use
    <2>2. Outcome(t)' = Outcome(t)
      BY <2>1, TaskMoves DEF Outcome, Terminal
    <2> QED
      BY <1>1, <1>2, <2>2, StutterMaps DEF Stutters
  <1> QED
    BY <1>3, <1>4

\* Steps of everything else: what is stored is the file of a started transfer.
LEMMA OtherMaps ==
  ASSUME TInv, DistinctNames, Requested, [Next]_vars, UNCHANGED <<sfVars, pc, result, report>>
  PROVE  [Abstract!DeliveryNext]_(Abstract!deliveryVars)
  <1>1. \A s \in Transfers : Outcome(s)' = Outcome(s)
    BY DEF Outcome
  <1>2. CASE \A s \in Transfers : Exported(s)' <=> Exported(s)
    BY <1>1, <1>2, StutterMaps DEF Stutters
  <1>3. ASSUME NEW t \in Transfers, \A s \in Transfers : Exported(s)' <=> Exported(s) \/ s = t, Started(t)
        PROVE  Abstract!DeliveryNext
    <2>1. report[t] \in Terminal \/ Outcome(t) = "started"
      BY <1>3 DEF Outcome, Started
    <2>2. Outcome(t) # "none"
      BY <2>1 DEF Outcome, Terminal
    <2>3. Abstract!Deliver(t)
      BY <1>1, <1>3, <2>2 DEF Abstract!Deliver
    <2> QED
      BY <2>3 DEF Abstract!DeliveryNext
  <1>4. ASSUME NEW c \in Conns, Export(c)
        PROVE  Started(rxReq[c].transfer)
    BY <1>4 DEF Export, PeerStep, Requested, TInv, HandlerTypes
  <1>5. ASSUME NEW t \in Downloadable, DownloadFromTicket(t)
        PROVE  Started(t)
    BY <1>5 DEF DownloadFromTicket, Started
  <1> QED
    BY <1>2, <1>3, <1>4, <1>5, DiskMoves

LEMMA InitMaps == Init => Abstract!DeliveryInit
  <1> SUFFICES ASSUME Init PROVE Abstract!DeliveryInit
    OBVIOUS
  <1>1. \A t \in Transfers : Outcome(t) = "none" /\ ~Exported(t)
    <2>1. \A t \in Transfers : t # Nothing /\ NameOf[t] \in Names
      BY TransferAssumption DEF Transfers, Names, Nothing
    <2> QED
      BY <2>1 DEF Init, Outcome, Exported, Terminal
  <1> QED
    BY <1>1 DEF Abstract!DeliveryInit

\* For any number of files of different names, any batches, pools and breaks,
\* and callers that cancel: the transfer manager keeps the promise of Delivery.
THEOREM TransferImplementsDelivery ==
  ASSUME DistinctNames
  PROVE  Spec => ImplementsDelivery
  <1>1. Init => Requested /\ Stored
    BY DEF Init, Requested, Stored, CompletedIsExported
  <1>2. TInv /\ TInv' /\ Progress /\ Requested /\ Stored /\ [Next]_vars => Requested' /\ Stored'
    BY RequestedStep, StoredStep
  <1>3. TInv /\ Progress /\ Requested /\ Stored /\ [Next]_vars
           => [Abstract!DeliveryNext]_(Abstract!deliveryVars)
    BY CallMaps, TaskMaps, OtherMaps, OthersLeaveTasks DEF Next
  <1>4. Spec => Abstract!DeliverySafety
    BY <1>1, <1>2, <1>3, InitMaps, Typed, ProgressHolds, PTL DEF Spec, Abstract!DeliverySafety
  <1> QED
    BY <1>4 DEF ImplementsDelivery
=============================================================================
