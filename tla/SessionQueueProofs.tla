-------------------------- MODULE SessionQueueProofs ------------------------
(***************************************************************************)
(* Theorems about Session as the user sees it: the file pipeline is the    *)
(* queue of FileQueue, and one step alone makes the portal say Connected   *)
(* without a peer.                                                         *)
(***************************************************************************)
EXTENDS SessionProofs

-----------------------------------------------------------------------------
(* Session implements FileQueue.                                              *)

Waiting == txBatch \union InChannel \union pollBatch \union pending
IsOpen  == net \in {"init", "running"}

LEMMA BeforeDisjoint ==
  ASSUME NEW S, NEW T, S \subseteq Nat, Before(S, T)
  PROVE  S \cap T = {}
  <1>1. ASSUME NEW f \in S, f \in T
        PROVE  FALSE
    <2>1. f < f /\ f \in Nat
      BY <1>1 DEF Before
    <2> QED
      BY <2>1
  <1> QED
    BY <1>1

\* Files are numbers; no file waits at two places, and what is in the hands of
\* the transfer task is before the rest.
LEMMA Places ==
  ASSUME TypeOK, Pipe
  PROVE  /\ txBatch \subseteq Nat /\ InChannel \subseteq Nat /\ pollBatch \subseteq Nat
         /\ Before(txBatch, InChannel) /\ Before(txBatch, pollBatch) /\ Before(txBatch, pending)
         /\ Before(InChannel, pollBatch) /\ Before(InChannel, pending)
         /\ Before(pollBatch, pending)
  <1>1. queued \in Nat /\ DOMAIN sendCh = 1 .. Len(sendCh)
    BY SessionAssumption DEF TypeOK
  <1>2. txBatch \subseteq Nat /\ InChannel \subseteq Nat /\ pollBatch \subseteq Nat
    BY <1>1 DEF Pipe, Holding, InChannel
  <1>3. \A f \in InChannel : \E i \in DOMAIN sendCh : f \in sendCh[i]
    BY DEF InChannel
  <1>4. Before(txBatch, InChannel)
    BY <1>3 DEF Pipe, PipelineIsFifo, InOrder, Before
  <1>5. Before(InChannel, pollBatch) /\ Before(InChannel, pending)
    BY <1>3 DEF Pipe, PipelineIsFifo, InOrder, Before
  <1>6. Before(txBatch, pollBatch) /\ Before(txBatch, pending) /\ Before(pollBatch, pending)
    BY DEF Pipe, PipelineIsFifo, InOrder, Before
  <1> QED
    BY <1>2, <1>4, <1>5, <1>6

\* A request that enters the channel, and one that leaves it.
LEMMA ChannelGains ==
  ASSUME TypeOK, NEW S \in SUBSET AllFiles, sendCh' = Append(sendCh, S)
  PROVE  InChannel' = InChannel \union S
  <1>1. /\ DOMAIN sendCh = 1 .. Len(sendCh) /\ DOMAIN sendCh' = 1 .. Len(sendCh')
        /\ Len(sendCh) \in Nat /\ Len(sendCh') = Len(sendCh) + 1
        /\ sendCh'[Len(sendCh) + 1] = S
        /\ \A i \in 1 .. Len(sendCh) : sendCh'[i] = sendCh[i]
    BY DEF TypeOK
  <1>2. \A i : i \in DOMAIN sendCh' <=> i \in DOMAIN sendCh \/ i = Len(sendCh) + 1
    BY <1>1
  <1>3. \A f : (\E i \in DOMAIN sendCh' : f \in sendCh'[i])
                 <=> f \in S \/ \E i \in DOMAIN sendCh : f \in sendCh[i]
    BY <1>1, <1>2
  <1> QED
    BY <1>3 DEF InChannel

LEMMA ChannelLoses ==
  ASSUME TypeOK, sendCh # <<>>, sendCh' = Tail(sendCh)
  PROVE  InChannel = Head(sendCh) \union InChannel'
  <1>1. /\ DOMAIN sendCh = 1 .. Len(sendCh) /\ DOMAIN sendCh' = 1 .. Len(sendCh')
        /\ Len(sendCh) \in Nat /\ Len(sendCh') = Len(sendCh) - 1
        /\ 1 \in 1 .. Len(sendCh) /\ Head(sendCh) = sendCh[1]
        /\ \A i \in 1 .. Len(sendCh') : i + 1 \in 1 .. Len(sendCh) /\ sendCh'[i] = sendCh[i + 1]
    BY DEF TypeOK
  <1>2. ASSUME NEW i \in DOMAIN sendCh, i # 1
        PROVE  i - 1 \in DOMAIN sendCh' /\ sendCh'[i - 1] = sendCh[i]
    <2>1. i - 1 \in 1 .. Len(sendCh') /\ (i - 1) + 1 = i
      BY <1>1, <1>2
    <2> QED
      BY <1>1, <2>1
  <1>3. ASSUME NEW f, NEW i \in DOMAIN sendCh, f \in sendCh[i]
        PROVE  f \in sendCh[1] \/ \E j \in DOMAIN sendCh' : f \in sendCh'[j]
    BY <1>2, <1>3
  <1>4. ASSUME NEW f, NEW j \in DOMAIN sendCh', f \in sendCh'[j]
        PROVE  \E i \in DOMAIN sendCh : f \in sendCh[i]
    BY <1>1, <1>4
  <1> QED
    BY <1>1, <1>3, <1>4 DEF InChannel

LEMMA QueueStutters ==
  ASSUME UNCHANGED <<queued, handled>>, Waiting' = Waiting, IsOpen' <=> IsOpen
  PROVE  UNCHANGED Queue!queueVars
  BY DEF Queue!queueVars, Waiting, IsOpen

\* The steps of the other tasks: the queue shuts, or nothing happens to it.
LEMMA OthersMap ==
  ASSUME \/ Quit \/ Lifecycle \/ World \/ Stream \/ PeerTask \/ UNCHANGED vars
         \/ TxCheck \/ TxMark \/ TxChoose \/ TxSendOk \/ TxSendErr
  PROVE  [Queue!QueueNext]_(Queue!queueVars)
  <1>1. UNCHANGED pipeline /\ (IsOpen' => IsOpen)
    BY OthersLeavePipe DEF IsOpen
  <1>2. UNCHANGED <<queued, handled>> /\ Waiting' = Waiting
    BY <1>1 DEF pipeline, Waiting, InChannel
  <1>3. CASE IsOpen' <=> IsOpen
    BY <1>2, <1>3, QueueStutters
  <1>4. CASE IsOpen /\ ~IsOpen'
    <2>1. Queue!Shut
      BY <1>2, <1>4 DEF Queue!Shut, Waiting, IsOpen
    <2> QED
      BY <2>1 DEF Queue!QueueNext
  <1> QED
    BY <1>1, <1>3, <1>4

\* A drop of n files is a drop, of the next n numbers.
LEMMA DropMaps ==
  ASSUME TypeOK, NEW n \in AllFiles, QueueFiles(n)
  PROVE  Queue!QueueNext
  <1> DEFINE S == queued + 1 .. queued + n
  <1>1. /\ queued \in Nat /\ n \in Nat /\ MaxFiles \in Nat /\ queued + n <= MaxFiles
        /\ queued' = queued + n /\ pending' = pending \union S
        /\ UNCHANGED <<net, pollBatch, sendCh, txBatch, handled>>
    BY SessionAssumption DEF TypeOK, QueueFiles, AllFiles, pollVars, txVars, txRest
  <1>2. S \in SUBSET AllFiles
    BY <1>1 DEF AllFiles
  <1>3. 1 .. queued' = (1 .. queued) \union S
    BY <1>1
  <1>4. Queue!Earlier(1 .. queued, S)
    BY <1>1 DEF Queue!Earlier
  <1>5. Waiting' = Waiting \union S /\ handled' = handled /\ IsOpen' = IsOpen
    BY <1>1 DEF Waiting, InChannel, IsOpen
  <1> HIDE DEF S
  <1>6. Queue!Drop(S)
    BY <1>3, <1>4, <1>5 DEF Queue!Drop, Waiting, IsOpen
  <1> QED
    BY <1>2, <1>6 DEF Queue!QueueNext

\* The poller moves files along, or drops its request when the receiver is gone.
LEMMA PollerMaps ==
  ASSUME TypeOK, Winding, Pipe, Poller
  PROVE  [Queue!QueueNext]_(Queue!queueVars)
  <1>1. CASE PollerTake
    <2>1. /\ pollBatch = {} /\ pollBatch' = pending /\ pending' = {}
          /\ UNCHANGED <<queued, net, sendCh, txBatch, handled>>
      BY <1>1 DEF PollerTake, Pipe, Holding, txVars, txRest
    <2> QED
      BY <2>1, QueueStutters DEF Waiting, InChannel, IsOpen
  <1>2. CASE PollerSend
    <2>1. /\ sendCh' = Append(sendCh, pollBatch) /\ pollBatch' = {}
          /\ UNCHANGED <<queued, net, pending, txBatch, handled>>
      BY <1>2 DEF PollerSend, txVars, txRest, appVars
    <2>2. InChannel' = InChannel \union pollBatch
      BY <2>1, ChannelGains DEF TypeOK
    <2> QED
      BY <2>1, <2>2, QueueStutters DEF Waiting, IsOpen
  <1>3. CASE PollerSendFails
    <2>1. /\ pollBatch' = {} /\ ~IsOpen
          /\ UNCHANGED <<queued, net, pending, sendCh, txBatch, handled>>
      BY <1>3 DEF PollerSendFails, Winding, NoneEnded, IsOpen, txVars, txRest, appVars
    <2>2. txBatch \cap pollBatch = {} /\ InChannel \cap pollBatch = {} /\ pollBatch \cap pending = {}
      BY Places, BeforeDisjoint
    <2>3. Waiting' = Waiting \ pollBatch
      BY <2>1, <2>2 DEF Waiting, InChannel
    <2>4. Queue!Forget(pollBatch)
      BY <2>1, <2>3 DEF Queue!Forget, Waiting, IsOpen
    <2>5. pollBatch \in SUBSET Waiting
      BY DEF Waiting
    <2> QED
      BY <2>4, <2>5 DEF Queue!QueueNext, Waiting
  <1>4. CASE PollerCancelled
    <2>1. UNCHANGED <<queued, net, pending, pollBatch, sendCh, txBatch, handled>>
      BY <1>4 DEF PollerCancelled, txVars, txRest, appVars
    <2> QED
      BY <2>1, QueueStutters DEF Waiting, InChannel, IsOpen
  <1> QED
    BY <1>1, <1>2, <1>3, <1>4 DEF Poller

\* The transfer task deals with its request, which is the oldest.
LEMMA TransferTaskMaps ==
  ASSUME TypeOK, Winding, Pipe, TransferTask
  PROVE  [Queue!QueueNext]_(Queue!queueVars)
  <1>1. CASE TxReceive
    <2>1. /\ txBatch = {} /\ txBatch' = Head(sendCh) /\ sendCh' = Tail(sendCh) /\ sendCh # <<>>
          /\ UNCHANGED <<queued, net, pending, pollBatch, handled>>
      BY <1>1 DEF TxReceive, TxStep, Pipe, Holding, appVars, pollVars
    <2>2. InChannel = txBatch' \union InChannel'
      BY <2>1, ChannelLoses
    <2> QED
      BY <2>1, <2>2, QueueStutters DEF Waiting, IsOpen
  <1>2. CASE TxNoPeer \/ TxFinished \/ TxFailed
    <2>1. /\ handled' = handled \union txBatch /\ txBatch' = {}
          /\ UNCHANGED <<queued, net, pending, pollBatch, sendCh>>
      BY <1>2 DEF TxNoPeer, TxFinished, TxFailed, TxStep, TxDone, SetPortalState, pollVars
    <2>2. txBatch \cap InChannel = {} /\ txBatch \cap pollBatch = {} /\ txBatch \cap pending = {}
      BY Places, BeforeDisjoint
    <2>3. Waiting' = Waiting \ txBatch
      BY <2>1, <2>2 DEF Waiting, InChannel
    <2>4. Queue!Earlier(txBatch, Waiting \ txBatch)
      BY Places DEF Queue!Earlier, Before, Waiting
    <2>5. Queue!Deal(txBatch)
      BY <2>1, <2>3, <2>4 DEF Queue!Deal, Waiting
    <2>6. txBatch \in SUBSET Waiting
      BY DEF Waiting
    <2> QED
      BY <2>5, <2>6 DEF Queue!QueueNext, Waiting
  <1>3. CASE TxCancelled
    <2>1. /\ sendCh' = <<>> /\ ~IsOpen
          /\ UNCHANGED <<queued, net, pending, pollBatch, txBatch, handled>>
      BY <1>3 DEF TxCancelled, TxStep, IsOpen, pollVars, appVars
    <2>2. txBatch \cap InChannel = {} /\ InChannel \cap pollBatch = {} /\ InChannel \cap pending = {}
      BY Places, BeforeDisjoint
    <2>3. InChannel' = {}
      BY <2>1 DEF InChannel
    <2>4. Waiting' = Waiting \ InChannel
      BY <2>1, <2>2, <2>3 DEF Waiting
    <2>5. Queue!Forget(InChannel)
      BY <2>1, <2>4 DEF Queue!Forget, Waiting, IsOpen
    <2>6. InChannel \in SUBSET Waiting
      BY DEF Waiting
    <2> QED
      BY <2>5, <2>6 DEF Queue!QueueNext, Waiting
  <1> QED
    BY <1>1, <1>2, <1>3, OthersMap DEF TransferTask

\* For any number of files, dropped in any portions, and any capacity of the
\* channel: every step of the application is a step of FileQueue, or none.
THEOREM SessionImplementsQueue == Spec => ImplementsFileQueue
  <1>1. Init => Queue!QueueInit
    BY SessionAssumption DEF Init, Queue!QueueInit, InChannel
  <1>2. TypeOK /\ Winding /\ Pipe /\ [Next]_vars => [Queue!QueueNext]_(Queue!queueVars)
    BY OthersMap, DropMaps, PollerMaps, TransferTaskMaps DEF Next, UI
  <1>3. Spec => Queue!QueueSafety
    BY <1>1, <1>2, TypeCorrect, WindingHolds, PipeHolds, PTL DEF Spec, Queue!QueueSafety
  <1> QED
    BY <1>3 DEF ImplementsFileQueue

-----------------------------------------------------------------------------
(* A portal that says Connected without a peer.                               *)

\* A handler of the peer task has a peer.
HasPeer == peerPc \in {"connApp", "connTm", "connPortal"} => peerArg # NoPeer

LEMMA HasPeerKept ==
  ASSUME HasPeer, [Next]_vars
  PROVE  HasPeer'
  <1>1. CASE PeerTask
    <2>1. ASSUME NEW p \in Peers, PeerDiscovered(p) \/ PeerLost(p)
          PROVE  HasPeer'
      BY <2>1, SessionAssumption DEF PeerDiscovered, PeerLost, HasPeer
    <2>2. CASE ConnectApp \/ ConnectTm \/ ConnectPortal \/ LoseApp \/ LoseTm \/ LosePortal
      BY <2>2 DEF ConnectApp, ConnectTm, ConnectPortal, LoseApp, LoseTm, LosePortal, PeerStep, HasPeer
    <2>3. CASE PeerCancelled
      BY <2>3 DEF PeerCancelled, HasPeer
    <2> QED
      BY <1>1, <2>1, <2>2, <2>3 DEF PeerTask
  <1>2. CASE ~PeerTask
    BY <1>2, OthersLeavePeer DEF HasPeer, Next
  <1> QED
    BY <1>1, <1>2

OnlyTxFinished == ConnectedMeansPeer /\ ~ConnectedMeansPeer' => TxFinished

\* Of all the writers of the portal, only the transfer task's write after its
\* transfers (main.rs:455-458), which does not look at the peer, makes it say
\* Connected when there is none: the peer task's two writes, whatever runs
\* between them, and the UI's never do.
THEOREM OnlyFinishedMisleads == Spec => [][OnlyTxFinished]_vars
  <1>1. TypeOK /\ PeerRecords /\ HasPeer /\ [Next]_vars => [OnlyTxFinished]_vars
    <2> SUFFICES ASSUME PeerRecords, HasPeer, Next, ConnectedMeansPeer, ~TxFinished
                 PROVE  ConnectedMeansPeer'
      BY DEF OnlyTxFinished
    <2> USE DEF ConnectedMeansPeer
    <2>1. CASE UI \/ Lifecycle
      BY <2>1 DEF UI, QueueFiles, Quit, Lifecycle, InitOk, InitFails, Cancel, Stop, appVars
    <2>2. CASE World \/ Stream
      BY <2>2 DEF World, Stream, restVars, appVars
    <2>3. CASE PeerTask
      <3>1. ASSUME NEW p \in Peers, PeerDiscovered(p) \/ PeerLost(p)
            PROVE  ConnectedMeansPeer'
        BY <3>1 DEF PeerDiscovered, PeerLost, appVars
      <3>2. CASE ConnectApp \/ LoseApp
        BY <3>2 DEF ConnectApp, LoseApp, SetConnectedPeer
      <3>3. CASE ConnectTm \/ LoseTm \/ PeerCancelled
        BY <3>3 DEF ConnectTm, LoseTm, PeerCancelled, appVars
      <3>4. CASE ConnectPortal
        BY <3>4 DEF ConnectPortal, PeerStep, SetPortalState, PeerRecords, HasPeer
      <3>5. CASE LosePortal
        BY <3>5 DEF LosePortal, SetPortalState
      <3> QED
        BY <2>3, <3>1, <3>2, <3>3, <3>4, <3>5 DEF PeerTask
    <2>4. CASE Poller
      BY <2>4 DEF Poller, PollerTake, PollerSend, PollerSendFails, PollerCancelled, appVars
    <2>5. CASE TransferTask
      BY <2>5 DEF TransferTask, TxReceive, TxCheck, TxNoPeer, TxMark, TxChoose, TxSendOk, TxSendErr,
            TxFailed, TxCancelled, SetPortalState, appVars
    <2> QED
      BY <2>1, <2>2, <2>3, <2>4, <2>5 DEF Next
  <1>2. Init => PeerRecords /\ HasPeer
    BY DEF Init, PeerRecords, HasPeer
  <1> QED
    BY <1>1, <1>2, TypeCorrect, RecordsKept, HasPeerKept, PTL DEF Spec
-----------------------------------------------------------------------------
(* From one peer to another.                                                  *)

PeerNeverSwapped ==
    /\ appPeer' # appPeer => NoPeer \in {appPeer, appPeer'}
    /\ tmPeer' # tmPeer => NoPeer \in {tmPeer, tmPeer'}

\* Neither record of the connected peer goes from one peer straight to another:
\* what handle_peer_event reads (main.rs:360) still holds at the two writes of
\* connect_to_peer, so a disconnection lies between any two peers.
THEOREM PeerChangesByNone == Spec => [][PeerNeverSwapped]_vars
  <1>1. PeerRecords /\ [Next]_vars => [PeerNeverSwapped]_vars
    <2> SUFFICES ASSUME PeerRecords, [Next]_vars
                 PROVE  PeerNeverSwapped
      OBVIOUS
    <2> USE DEF PeerNeverSwapped
    <2>1. CASE ~PeerTask
      BY <2>1, OthersLeavePeer DEF Next
    <2>2. ASSUME NEW p \in Peers, PeerDiscovered(p) \/ PeerLost(p)
          PROVE  PeerNeverSwapped
      BY <2>2 DEF PeerDiscovered, PeerLost, appVars
    <2>3. CASE ConnectApp \/ ConnectTm \/ ConnectPortal
      BY <2>3 DEF ConnectApp, ConnectTm, ConnectPortal, PeerStep, SetConnectedPeer, SetPortalState,
            PeerRecords, appVars
    <2>4. CASE LoseApp \/ LoseTm \/ LosePortal \/ PeerCancelled
      BY <2>4 DEF LoseApp, LoseTm, LosePortal, PeerCancelled, SetConnectedPeer, SetPortalState, appVars
    <2> QED
      BY <2>1, <2>2, <2>3, <2>4 DEF PeerTask
  <1>2. Init => PeerRecords
    BY DEF Init, PeerRecords
  <1> QED
    BY <1>1, <1>2, RecordsKept, PTL DEF Spec
=============================================================================
