---------------------------- MODULE SessionProofs ----------------------------
(***************************************************************************)
(* Theorems about Session and the peer stream it reads: its safety         *)
(* properties for any number of peers and files and any capacities of the  *)
(* two channels.                                                           *)
(***************************************************************************)
EXTENDS Session, TLAPS

-----------------------------------------------------------------------------
(* Types.                                                                     *)

LEMMA EmptyStream == <<>> \in Seq(PeerEvent) /\ Len(<<>>) <= EventCap
  BY EventCapAssumption

LEMMA EmptyPipeline ==
    <<>> \in Seq(SUBSET AllFiles) /\ Len(<<>>) <= ChanCap /\ 0 \in 0 .. MaxFiles
  BY SessionAssumption

LEMMA TypeInit == Init => TypeOK
  <1> SUFFICES ASSUME Init PROVE TypeOK
    OBVIOUS
  <1>1. StreamTypeOK
    BY EmptyStream DEF Init, StreamInit, StreamTypeOK
  <1> QED
    BY <1>1, EmptyPipeline DEF Init, TypeOK, PortalState, PeerSteps, TxSteps

LEMMA TypeEmit ==
  ASSUME StreamTypeOK, NEW e \in PeerEvent, Emit(e), streamPc = "announce"
  PROVE  /\ events' \in Seq(PeerEvent) /\ Len(events') <= EventCap
         /\ streamPc' \in {"poll", "announce", "stopped"}
  BY EventCapAssumption DEF StreamTypeOK, Emit

LEMMA TypeStreamStep ==
  ASSUME StreamTypeOK, StreamStep
  PROVE  StreamTypeOK'
  <1>1. CASE Poll
    BY <1>1 DEF StreamTypeOK, Poll
  <1>2. ASSUME NEW p \in Peers, AnnounceFresh(p)
        PROVE  StreamTypeOK'
    BY <1>2, TypeEmit DEF StreamTypeOK, AnnounceFresh, PeerEvent, Discovered
  <1>3. ASSUME NEW p \in Peers, SkipFresh(p)
        PROVE  StreamTypeOK'
    BY <1>3 DEF StreamTypeOK, SkipFresh
  <1>4. ASSUME NEW p \in Peers, AnnounceLost(p)
        PROVE  StreamTypeOK'
    BY <1>4, TypeEmit DEF StreamTypeOK, AnnounceLost, PeerEvent, Lost
  <1>5. CASE EndRound
    BY <1>5 DEF StreamTypeOK, EndRound
  <1> QED
    BY <1>1, <1>2, <1>3, <1>4, <1>5 DEF StreamStep

LEMMA TypeStream ==
  ASSUME TypeOK, Stream
  PROVE  TypeOK'
  BY TypeStreamStep DEF TypeOK, Stream, restVars, appVars, peerVars, pollVars, txVars, txRest

LEMMA TypeReceive ==
  ASSUME StreamTypeOK, NEW e, Receive(e)
  PROVE  StreamTypeOK'
  BY EventCapAssumption DEF StreamTypeOK, Receive

LEMMA TypePeerTask ==
  ASSUME TypeOK, PeerTask
  PROVE  TypeOK'
  <1>1. ASSUME NEW p \in Peers, PeerDiscovered(p)
        PROVE  TypeOK'
    BY <1>1, TypeReceive DEF TypeOK, PeerDiscovered, appVars, pollVars, txVars, txRest, PeerSteps
  <1>2. ASSUME NEW p \in Peers, PeerLost(p)
        PROVE  TypeOK'
    BY <1>2, TypeReceive DEF TypeOK, PeerLost, appVars, pollVars, txVars, txRest, PeerSteps
  <1>3. ASSUME NEW from, NEW to \in PeerSteps, PeerStep(from, to)
        PROVE  /\ StreamTypeOK' /\ peerPc' \in PeerSteps /\ peerArg' \in Peers \union {NoPeer}
               /\ UNCHANGED <<net, pollVars, sendCh, txRest>>
    BY <1>3 DEF TypeOK, StreamTypeOK, PeerStep, streamVars
  <1>4. CASE ConnectApp \/ ConnectTm \/ ConnectPortal \/ LoseApp \/ LoseTm \/ LosePortal
    BY <1>3, <1>4 DEF TypeOK, ConnectApp, ConnectTm, ConnectPortal, LoseApp, LoseTm, LosePortal,
          SetConnectedPeer, SetPortalState, NoteShown, appVars, pollVars, txRest, PeerSteps,
          PortalState
  <1>5. CASE PeerCancelled
    BY <1>5, EmptyStream DEF TypeOK, StreamTypeOK, PeerCancelled, Close, appVars, pollVars,
          txVars, txRest, PeerSteps
  <1> QED
    BY <1>1, <1>2, <1>4, <1>5 DEF PeerTask

LEMMA TypePoller ==
  ASSUME TypeOK, Poller
  PROVE  TypeOK'
  <1> USE DEF TypeOK, StreamTypeOK, streamVars, appVars, peerVars, txVars, txRest
  <1>1. CASE PollerTake
    BY <1>1 DEF PollerTake
  <1>2. CASE PollerSend
    BY <1>2, SessionAssumption DEF PollerSend
  <1>3. CASE PollerSendFails
    BY <1>3 DEF PollerSendFails
  <1>4. CASE PollerCancelled
    BY <1>4 DEF PollerCancelled
  <1> QED
    BY <1>1, <1>2, <1>3, <1>4 DEF Poller

LEMMA TypeTransferTask ==
  ASSUME TypeOK, TransferTask
  PROVE  TypeOK'
  <1> USE DEF TypeOK, StreamTypeOK, streamVars, appVars, peerVars, pollVars, TxStep, TxSteps
  <1>1. CASE TxReceive
    BY <1>1, SessionAssumption DEF TxReceive
  <1>2. CASE TxCheck \/ TxMark \/ TxChoose \/ TxSendOk \/ TxSendErr
    BY <1>2 DEF TxCheck, TxMark, TxChoose, TxSendOk, TxSendErr, SetPortalState, PortalState
  <1>3. CASE TxNoPeer \/ TxFinished \/ TxFailed
    BY <1>3 DEF TxNoPeer, TxFinished, TxFailed, TxDone, SetPortalState, PortalState
  <1>4. CASE TxCancelled
    BY <1>4, SessionAssumption DEF TxCancelled
  <1> QED
    BY <1>1, <1>2, <1>3, <1>4 DEF TransferTask

LEMMA TypeNext ==
  ASSUME TypeOK, [Next]_vars
  PROVE  TypeOK'
  <1>1. CASE UI
    <2>1. ASSUME NEW n \in AllFiles, QueueFiles(n)
          PROVE  TypeOK'
      <3>1. queued' \in 0 .. MaxFiles /\ pending' \subseteq AllFiles
        BY <2>1, SessionAssumption DEF TypeOK, QueueFiles, AllFiles
      <3> QED
        BY <2>1, <3>1 DEF TypeOK, StreamTypeOK, streamVars, peerVars, pollVars, txVars, txRest,
              QueueFiles, PortalState
    <2>2. CASE Quit
      BY <2>2 DEF TypeOK, StreamTypeOK, streamVars, peerVars, pollVars, txVars, txRest, Quit
    <2> QED
      BY <1>1, <2>1, <2>2 DEF UI
  <1>2. CASE Lifecycle
    BY <1>2 DEF TypeOK, StreamTypeOK, streamVars, appVars, peerVars, pollVars, txVars, txRest,
          Lifecycle, InitOk, InitFails, Cancel, Stop
  <1>3. CASE World
    BY <1>3 DEF TypeOK, StreamTypeOK, World, Environment, Appear, Vanish,
          restVars, appVars, peerVars, pollVars, txVars, txRest
  <1>4. CASE UNCHANGED vars
    BY <1>4 DEF TypeOK, StreamTypeOK, vars, streamVars, appVars, peerVars, pollVars, txVars, txRest
  <1> QED
    BY <1>1, <1>2, <1>3, <1>4, TypeStream, TypePeerTask, TypePoller, TypeTransferTask DEF Next

\* Types: the variables of Session and of the peer stream stay well typed, and
\* neither channel holds more than its capacity.
THEOREM TypeCorrect == Spec => []TypeOK
  BY TypeInit, TypeNext, PTL DEF Spec

-----------------------------------------------------------------------------
(* The two records of the connected peer.                                     *)

\* What they are at each step of the peer task's handlers.
PeerRecords ==
    /\ peerPc \in {"recv", "done"} => tmPeer = appPeer
    /\ peerPc = "connApp" => appPeer = NoPeer /\ tmPeer = NoPeer
    /\ peerPc = "connTm" => appPeer = peerArg /\ tmPeer = NoPeer
    /\ peerPc \in {"connPortal", "lostApp"} => appPeer = peerArg /\ tmPeer = peerArg
    /\ peerPc = "lostTm" => appPeer = NoPeer /\ tmPeer = peerArg
    /\ peerPc = "lostPortal" => appPeer = NoPeer /\ tmPeer = NoPeer

\* Only the peer task writes them.
LEMMA OthersLeavePeer ==
  ASSUME UI \/ Lifecycle \/ World \/ Stream \/ Poller \/ TransferTask \/ UNCHANGED vars
  PROVE  UNCHANGED <<appPeer, peerPc, peerArg, tmPeer>>
  <1>1. CASE UI \/ Lifecycle
    BY <1>1 DEF UI, QueueFiles, Quit, Lifecycle, InitOk, InitFails, Cancel, Stop, peerVars, appVars
  <1>2. CASE World \/ Stream \/ UNCHANGED vars
    BY <1>2 DEF World, Stream, restVars, vars, peerVars, appVars
  <1>3. CASE Poller
    BY <1>3 DEF Poller, PollerTake, PollerSend, PollerSendFails, PollerCancelled, peerVars, appVars
  <1>4. CASE TransferTask
    BY <1>4 DEF TransferTask, TxReceive, TxCheck, TxNoPeer, TxMark, TxChoose, TxSendOk, TxSendErr,
          TxFinished, TxFailed, TxCancelled, TxStep, SetPortalState, peerVars, appVars
  <1> QED
    BY <1>1, <1>2, <1>3, <1>4

LEMMA RecordsKept ==
  ASSUME PeerRecords, [Next]_vars
  PROVE  PeerRecords'
  <1>1. CASE PeerTask
    <2> USE DEF PeerRecords, PeerStep, appVars
    <2>1. ASSUME NEW p \in Peers, PeerDiscovered(p) \/ PeerLost(p)
          PROVE  PeerRecords'
      BY <2>1 DEF PeerDiscovered, PeerLost
    <2>2. CASE ConnectApp \/ ConnectTm \/ ConnectPortal
      BY <2>2 DEF ConnectApp, ConnectTm, ConnectPortal, SetConnectedPeer, SetPortalState
    <2>3. CASE LoseApp \/ LoseTm \/ LosePortal
      BY <2>3 DEF LoseApp, LoseTm, LosePortal, SetConnectedPeer, SetPortalState
    <2>4. CASE PeerCancelled
      BY <2>4 DEF PeerCancelled
    <2> QED
      BY <1>1, <2>1, <2>2, <2>3, <2>4 DEF PeerTask
  <1>2. CASE ~PeerTask
    BY <1>2, OthersLeavePeer DEF PeerRecords, Next
  <1> QED
    BY <1>1, <1>2

\* The two records are written by one task, and never hold two different peers.
PeersAgree == (appPeer # NoPeer /\ tmPeer # NoPeer) => tmPeer = appPeer

LEMMA RecordsAgree ==
  ASSUME TypeOK, PeerRecords
  PROVE  PeersAgree
  BY DEF PeersAgree, PeerRecords, TypeOK, PeerSteps

LEMMA RecordsHold == Spec => []PeerRecords
  <1>1. Init => PeerRecords
    BY DEF Init, PeerRecords
  <1> QED
    BY <1>1, RecordsKept, PTL DEF Spec

-----------------------------------------------------------------------------
(* The peer a request is sent to.                                             *)

\* Between the transfer task's check and the choice of send_files, whatever
\* either record holds has been on screen; only then is a peer chosen.
Choosing ==
    /\ txPc \in {"mark", "send"} => {appPeer, tmPeer} \ {NoPeer} \subseteq shown
    /\ txPc \notin {"files", "await", "failed"} => dest = NoPeer
    /\ SentToShown

LEMMA ChoosingByPeerTask ==
  ASSUME PeerRecords, Choosing, PeerTask
  PROVE  Choosing'
  <1> USE DEF Choosing, SentToShown, txVars, txRest
  <1>1. ASSUME NEW p \in Peers, PeerDiscovered(p) \/ PeerLost(p)
        PROVE  Choosing'
    BY <1>1 DEF PeerDiscovered, PeerLost, appVars
  <1>2. CASE ConnectApp
    BY <1>2 DEF ConnectApp, PeerStep, SetConnectedPeer, NoteShown
  <1>3. CASE ConnectTm
    BY <1>3 DEF ConnectTm, PeerStep, PeerRecords, appVars
  <1>4. CASE ConnectPortal \/ LoseApp \/ LoseTm \/ LosePortal
    BY <1>4 DEF ConnectPortal, LoseApp, LoseTm, LosePortal, PeerStep, SetConnectedPeer,
          SetPortalState, appVars
  <1>5. CASE PeerCancelled
    BY <1>5 DEF PeerCancelled, appVars
  <1> QED
    BY <1>1, <1>2, <1>3, <1>4, <1>5 DEF PeerTask

LEMMA ChoosingByTransferTask ==
  ASSUME TypeOK, PeerRecords, Choosing, TransferTask
  PROVE  Choosing'
  <1> USE DEF Choosing, SentToShown, TxStep
  <1>1. UNCHANGED <<appPeer, tmPeer>>
    BY OthersLeavePeer
  <1>2. CASE TxCheck
    BY <1>1, <1>2, RecordsAgree DEF TxCheck, PeersAgree
  <1>3. CASE TxChoose
    BY <1>1, <1>3 DEF TxChoose
  <1>4. CASE TxReceive \/ TxMark \/ TxSendOk \/ TxSendErr \/ TxCancelled
    BY <1>1, <1>4 DEF TxReceive, TxMark, TxSendOk, TxSendErr, TxCancelled
  <1>5. CASE TxNoPeer \/ TxFinished \/ TxFailed
    BY <1>5 DEF TxNoPeer, TxFinished, TxFailed, TxDone
  <1> QED
    BY <1>2, <1>3, <1>4, <1>5 DEF TransferTask

LEMMA ChoosingKept ==
  ASSUME TypeOK, PeerRecords, Choosing, [Next]_vars
  PROVE  Choosing'
  <1>1. CASE UI \/ Lifecycle \/ World \/ Stream \/ Poller \/ UNCHANGED vars
    <2>1. UNCHANGED <<appPeer, tmPeer>>
      BY <1>1, OthersLeavePeer
    <2>2. UNCHANGED <<txPc, dest, shown>>
      BY <1>1 DEF UI, QueueFiles, Quit, Lifecycle, InitOk, InitFails, Cancel, Stop, World, Stream,
            restVars, vars, Poller, PollerTake, PollerSend, PollerSendFails, PollerCancelled,
            txVars, txRest
    <2> QED
      BY <2>1, <2>2 DEF Choosing, SentToShown
  <1> QED
    BY <1>1, ChoosingByPeerTask, ChoosingByTransferTask DEF Next

\* Between main.rs:416, which asks whether there is a peer, and transfer.rs:565,
\* which asks which, any number of peers may come and go: the files of a request
\* go to none that was not on screen in between.
THEOREM RequestsGoToShown == Spec => []SentToShown
  <1>1. Init => Choosing
    BY DEF Init, Choosing, SentToShown
  <1>2. Choosing => SentToShown
    BY DEF Choosing
  <1> QED
    BY <1>1, <1>2, TypeCorrect, RecordsHold, ChoosingKept, PTL DEF Spec

-----------------------------------------------------------------------------
(* The network winds down only after Quit.                                    *)

\* No task has ended while it runs.
NoneEnded ==
    net \in {"init", "running"} => peerPc # "done" /\ pollPc # "done" /\ txPc # "done"

Winding == NoneEnded /\ NoSelfShutdown

LEMMA WindingKept ==
  ASSUME TypeOK, Winding, [Next]_vars
  PROVE  Winding'
  <1> USE DEF Winding, NoneEnded, NoSelfShutdown
  <1>1. CASE UI \/ World \/ Stream \/ UNCHANGED vars
    BY <1>1 DEF UI, QueueFiles, Quit, World, Stream, restVars, vars, appVars, peerVars,
          pollVars, txVars, txRest
  <1>2. CASE Lifecycle
    BY <1>2 DEF Lifecycle, InitOk, InitFails, Cancel, Stop, appVars, peerVars, pollVars,
          txVars, txRest
  <1>3. CASE PeerTask
    BY <1>3 DEF PeerTask, PeerDiscovered, PeerLost, ConnectApp, ConnectTm, ConnectPortal,
          LoseApp, LoseTm, LosePortal, PeerCancelled, PeerStep, SetConnectedPeer, SetPortalState,
          appVars, pollVars, txVars, txRest
  <1>4. CASE Poller
    BY <1>4 DEF Poller, PollerTake, PollerSend, PollerSendFails, PollerCancelled, Up,
          appVars, peerVars, txVars, txRest
  <1>5. CASE TransferTask
    BY <1>5 DEF TransferTask, TxReceive, TxCheck, TxNoPeer, TxMark, TxChoose, TxSendOk, TxSendErr,
          TxFinished, TxFailed, TxCancelled, TxStep, SetPortalState, TxDone,
          appVars, peerVars, pollVars
  <1> QED
    BY <1>1, <1>2, <1>3, <1>4, <1>5 DEF Next

\* No task ends by itself and takes the network down with it: it stops only
\* after the user has quit.
THEOREM OnlyQuitStops == Spec => []NoSelfShutdown
  <1>1. Init => Winding
    BY DEF Init, Winding, NoneEnded, NoSelfShutdown
  <1>2. Winding => NoSelfShutdown
    BY DEF Winding
  <1> QED
    BY <1>1, <1>2, TypeCorrect, WindingKept, PTL DEF Spec

-----------------------------------------------------------------------------
(* "Sending..." is shown over a pipeline that is not empty.                   *)

LEMMA SendingKept ==
  ASSUME TypeOK, Winding, SendingIsReal, [Next]_vars
  PROVE  SendingIsReal'
  <1> USE DEF SendingIsReal
  <1>1. CASE UI
    <2>1. ASSUME NEW n \in AllFiles, QueueFiles(n)
          PROVE  pending' # {}
      <3>1. queued + n \in queued + 1 .. queued + n
        BY SessionAssumption DEF TypeOK, AllFiles
      <3> QED
        BY <2>1, <3>1 DEF QueueFiles
    <2>2. CASE Quit
      BY <2>2 DEF Quit, pollVars, txVars, txRest
    <2> QED
      BY <1>1, <2>1, <2>2 DEF UI
  <1>2. CASE Lifecycle
    BY <1>2 DEF Lifecycle, InitOk, InitFails, Cancel, Stop, appVars, pollVars, txVars, txRest
  <1>3. CASE World \/ Stream \/ UNCHANGED vars
    BY <1>3 DEF World, Stream, restVars, vars, appVars, pollVars, txVars, txRest
  <1>4. CASE PeerTask
    BY <1>4 DEF PeerTask, PeerDiscovered, PeerLost, ConnectApp, ConnectTm, ConnectPortal,
          LoseApp, LoseTm, LosePortal, PeerCancelled, PeerStep, SetConnectedPeer, SetPortalState,
          appVars, pollVars, txVars, txRest
  <1>5. CASE Poller
    <2>1. CASE PollerTake
      BY <2>1 DEF PollerTake
    <2>2. CASE PollerSend
      <3>1. sendCh' # <<>>
        BY <2>2 DEF PollerSend, TypeOK
      <3> QED
        BY <3>1
    <2>3. CASE PollerSendFails
      BY <2>3 DEF PollerSendFails, txVars, txRest
    <2>4. CASE PollerCancelled
      BY <2>4 DEF PollerCancelled, appVars, txVars, txRest
    <2> QED
      BY <1>5, <2>1, <2>2, <2>3, <2>4 DEF Poller
  <1>6. CASE TransferTask
    BY <1>6 DEF TransferTask, TxReceive, TxCheck, TxNoPeer, TxMark, TxChoose, TxSendOk, TxSendErr,
          TxFinished, TxFailed, TxCancelled, TxStep, SetPortalState, TxDone,
          appVars, pollVars
  <1> QED
    BY <1>1, <1>2, <1>3, <1>4, <1>5, <1>6 DEF Next

\* Whatever order the UI, the peer task and the transfer task write the portal
\* in, it does not say "Sending..." when there is nothing left to send.
THEOREM SendingIsTrue == Spec => []SendingIsReal
  <1>1. Init => SendingIsReal
    BY DEF Init, SendingIsReal
  <1>2. Spec => []Winding
    <2>1. Init => Winding
      BY DEF Init, Winding, NoneEnded, NoSelfShutdown
    <2> QED
      BY <2>1, TypeCorrect, WindingKept, PTL DEF Spec
  <1> QED
    BY <1>1, <1>2, TypeCorrect, SendingKept, PTL DEF Spec

-----------------------------------------------------------------------------
(* The peer stream.                                                           *)

\* What is still to be announced, and that a dropped channel stays empty.
Round ==
    /\ streamPc = "poll" => fresh = {} /\ gone = {}
    /\ streamPc # "poll" => fresh \subseteq current \ lastPeers /\ gone \subseteq lastPeers \ current
    /\ ~rxOpen => events = <<>>

News == Round /\ StaleNewsCorrected /\ NoDoubleDiscovery

\* A step of the stream changes the channel by at most one event at its end.
LEMMA StreamAppends ==
  ASSUME StreamStep
  PROVE  \/ events' = events
         \/ rxOpen /\ \E p \in Peers : AnnounceFresh(p) /\ events' = Append(events, Discovered(p))
         \/ rxOpen /\ \E p \in Peers : AnnounceLost(p) /\ events' = Append(events, Lost(p))
  BY DEF StreamStep, Poll, AnnounceFresh, SkipFresh, AnnounceLost, EndRound, Emit

LEMMA RoundStream ==
  ASSUME Round, StreamStep
  PROVE  Round'
  <1> USE DEF Round
  <1>1. CASE Poll
    BY <1>1 DEF Poll
  <1>2. ASSUME NEW p \in Peers, AnnounceFresh(p) \/ SkipFresh(p) \/ AnnounceLost(p)
        PROVE  Round'
    BY <1>2 DEF AnnounceFresh, SkipFresh, AnnounceLost, Emit
  <1>3. CASE EndRound
    BY <1>3 DEF EndRound
  <1> QED
    BY <1>1, <1>2, <1>3 DEF StreamStep

\* The stream's own steps never make stale what can be retracted.
LEMMA StreamKeeps ==
  ASSUME StreamTypeOK, Round, rxOpen, StreamStep,
         NEW p \in Peers, NEW i \in 0 .. Len(events), Retractable(p, i)
  PROVE  Retractable(p, i)'
  <1>1. ASSUME NEW k \in i + 1 .. Len(events), events[k] = Lost(p)
        PROVE  Retractable(p, i)'
    <2>1. k \in i + 1 .. Len(events') /\ events'[k] = events[k]
      BY StreamAppends DEF StreamTypeOK
    <2> QED
      BY <1>1, <2>1 DEF Retractable, Lost
  <1>2. ASSUME p \in Known \ fresh
        PROVE  p \in Known' \ fresh' \/ p \in gone'
    <2>1. CASE Poll
      BY <1>2, <2>1 DEF Poll, Known
    <2>2. ASSUME NEW q \in Peers, AnnounceFresh(q) \/ SkipFresh(q) \/ AnnounceLost(q)
          PROVE  p \in Known' \ fresh'
      BY <1>2, <2>2 DEF AnnounceFresh, SkipFresh, AnnounceLost, Emit, Known
    <2>3. CASE EndRound
      BY <1>2, <2>3 DEF EndRound, Known
    <2> QED
      BY <2>1, <2>2, <2>3 DEF StreamStep
  <1>3. ASSUME p \in gone
        PROVE  Retractable(p, i)'
    <2>1. streamPc # "poll"
      BY <1>3 DEF Round
    <2>2. CASE AnnounceLost(p)
      <3>1. events' = Append(events, Lost(p))
        BY <2>2, rxOpen DEF AnnounceLost, Emit
      <3>2. Len(events') = Len(events) + 1 /\ events'[Len(events')] = Lost(p)
            /\ Len(events') \in i + 1 .. Len(events')
        BY <3>1 DEF StreamTypeOK
      <3> QED
        BY <3>2 DEF Retractable, Lost
    <2>3. CASE ~AnnounceLost(p)
      <3>1. p \in gone'
        BY <1>3, <2>1, <2>3 DEF StreamStep, Poll, AnnounceFresh, SkipFresh, AnnounceLost, EndRound
      <3> QED
        BY <3>1 DEF Retractable
    <2> QED
      BY <2>2, <2>3
  <1> QED
    BY <1>1, <1>2, <1>3 DEF Retractable

\* Nor does the reader, by what it takes from the channel.
LEMMA ReceiveKeeps ==
  ASSUME StreamTypeOK, NEW e, Receive(e),
         NEW p \in Peers, NEW i \in 1 .. Len(events), Retractable(p, i)
  PROVE  Retractable(p, i - 1)'
  <1>1. Known' = Known /\ fresh' = fresh /\ gone' = gone
    BY DEF Receive, Known
  <1>2. ASSUME NEW k \in i + 1 .. Len(events), events[k] = Lost(p)
        PROVE  k - 1 \in (i - 1) + 1 .. Len(events') /\ events'[k - 1] = Lost(p)
    BY <1>2 DEF Receive, StreamTypeOK
  <1>3. CASE \E k \in i + 1 .. Len(events) : events[k] = Lost(p)
    BY <1>2, <1>3 DEF Retractable, Lost
  <1> QED
    BY <1>1, <1>3 DEF Retractable

LEMMA ReceiveOther ==
  ASSUME StreamTypeOK, NEW e, Receive(e),
         NEW p \in Peers, e # Lost(p), Retractable(p, 0)
  PROVE  Retractable(p, 0)'
  <1>1. Known' = Known /\ fresh' = fresh /\ gone' = gone
    BY DEF Receive, Known
  <1>2. ASSUME NEW k \in 0 + 1 .. Len(events), events[k] = Lost(p)
        PROVE  k - 1 \in 0 + 1 .. Len(events') /\ events'[k - 1] = Lost(p)
    BY <1>2 DEF Receive, StreamTypeOK
  <1>3. CASE \E k \in 0 + 1 .. Len(events) : events[k] = Lost(p)
    BY <1>2, <1>3 DEF Retractable, Lost
  <1> QED
    BY <1>1, <1>3 DEF Retractable

\* StaleNewsCorrected in the next state, an event at a time.
LEMMA NewsByPeer ==
  ASSUME StreamTypeOK',
         \A i \in 1 .. Len(events') : \A p \in Peers :
            events'[i] = Discovered(p) => Retractable(p, i)'
  PROVE  StaleNewsCorrected'
  <1> SUFFICES ASSUME NEW i \in DOMAIN events', events'[i].kind = "Discovered"
               PROVE  Retractable(events[i].peer, i)'
    BY DEF StaleNewsCorrected
  <1>1. i \in 1 .. Len(events') /\ events'[i] \in PeerEvent
    BY DEF StreamTypeOK
  <1>2. events'[i].peer \in Peers /\ events'[i] = Discovered(events'[i].peer)
    BY <1>1 DEF PeerEvent, Discovered
  <1> QED
    BY <1>1, <1>2 DEF Retractable

LEMMA StaleStream ==
  ASSUME StreamTypeOK, StreamTypeOK', Round, StaleNewsCorrected, StreamStep
  PROVE  StaleNewsCorrected'
  <1>1. DOMAIN events = 1 .. Len(events) /\ DOMAIN events' = 1 .. Len(events')
    BY DEF StreamTypeOK
  <1>2. ASSUME NEW i \in 1 .. Len(events'), NEW p \in Peers, events'[i] = Discovered(p)
        PROVE  Retractable(p, i)'
    <2>1. CASE i \in 1 .. Len(events)
      <3>1. events[i] = Discovered(p) /\ i \in 0 .. Len(events)
        BY <1>2, <2>1, StreamAppends DEF StreamTypeOK
      <3>2. rxOpen
        BY <2>1 DEF Round, StreamTypeOK
      <3>3. Retractable(p, i)
        BY <1>1, <2>1, <3>1 DEF StaleNewsCorrected, Discovered
      <3> QED
        BY <3>1, <3>2, <3>3, StreamKeeps
    <2>2. CASE i \notin 1 .. Len(events)
      <3>1. ASSUME NEW q \in Peers, events' = Append(events, Lost(q))
            PROVE  FALSE
        <4>1. events'[i] = Lost(q)
          BY <2>2, <3>1 DEF StreamTypeOK
        <4> QED
          BY <1>2, <4>1 DEF Lost, Discovered
      <3>2. events' # events
        BY <2>2
      <3>3. PICK q \in Peers : rxOpen /\ AnnounceFresh(q) /\ events' = Append(events, Discovered(q))
        BY <3>1, <3>2, StreamAppends
      <3>4. events'[i] = Discovered(q)
        BY <2>2, <3>3 DEF StreamTypeOK
      <3>5. q \in Known' \ fresh'
        BY <3>3 DEF AnnounceFresh, Emit, Known, Round
      <3> QED
        BY <1>2, <3>4, <3>5 DEF Retractable, Discovered
    <2> QED
      BY <2>1, <2>2
  <1> QED
    BY <1>2, NewsByPeer

LEMMA DoubleStream ==
  ASSUME StreamTypeOK, StreamTypeOK', News, StreamStep
  PROVE  NoDoubleDiscovery'
  <1>1. DOMAIN events = 1 .. Len(events) /\ DOMAIN events' = 1 .. Len(events')
    BY DEF StreamTypeOK
  <1> SUFFICES ASSUME NEW i \in 1 .. Len(events'), NEW j \in 1 .. Len(events'), i < j,
                      events'[i].kind = "Discovered", events'[j] = events'[i]
               PROVE  \E k \in i + 1 .. j - 1 : events'[k] = Lost(events'[i].peer)
    BY <1>1 DEF NoDoubleDiscovery, Lost
  <1>2. i \in 1 .. Len(events) /\ \A k \in 1 .. Len(events) : events'[k] = events[k]
    <2>1. Len(events') <= Len(events) + 1
      BY StreamAppends DEF StreamTypeOK
    <2>2. \A k \in 1 .. Len(events) : events'[k] = events[k]
      BY StreamAppends DEF StreamTypeOK
    <2> QED
      BY <2>1, <2>2 DEF StreamTypeOK
  <1>3. CASE j \in 1 .. Len(events)
    <2>1. PICK k \in i + 1 .. j - 1 : events[k] = Lost(events[i].peer)
      BY <1>1, <1>2, <1>3 DEF News, NoDoubleDiscovery
    <2>2. k \in 1 .. Len(events)
      BY <1>2, <1>3 DEF StreamTypeOK
    <2> QED
      BY <1>2, <2>1, <2>2
  <1>4. CASE j \notin 1 .. Len(events)
    <2>1. PICK p \in Peers : AnnounceFresh(p) /\ events' = Append(events, Discovered(p))
      <3>1. ASSUME NEW p \in Peers, events' = Append(events, Lost(p))
            PROVE  FALSE
        <4>1. events'[j] = Lost(p)
          BY <1>4, <3>1 DEF StreamTypeOK
        <4> QED
          BY <4>1 DEF Lost
      <3>2. events' # events
        BY <1>4
      <3> QED
        BY <3>1, <3>2, StreamAppends
    <2>2. j = Len(events) + 1 /\ events'[j] = Discovered(p)
      BY <1>4, <2>1 DEF StreamTypeOK
    <2>3. events[i] = Discovered(p)
      BY <1>2, <2>2
    <2>4. Retractable(p, i)
      BY <1>1, <1>2, <2>3 DEF News, StaleNewsCorrected, Discovered
    <2>5. p \notin Known \ fresh /\ p \notin gone
      BY <2>1 DEF AnnounceFresh, News, Round, Known
    <2>6. PICK k \in i + 1 .. Len(events) : events[k] = Lost(p)
      BY <2>4, <2>5 DEF Retractable
    <2>7. k \in i + 1 .. j - 1 /\ k \in 1 .. Len(events)
      BY <1>2, <2>2, <2>6 DEF StreamTypeOK
    <2> QED
      BY <1>2, <2>3, <2>6, <2>7 DEF Discovered
  <1> QED
    BY <1>3, <1>4

LEMMA NewsReceive ==
  ASSUME StreamTypeOK, News, NEW e, Receive(e)
  PROVE  News'
  <1>1. Round'
    BY DEF News, Round, Receive
  <1>2. StreamTypeOK'
    BY TypeReceive
  <1>3. DOMAIN events = 1 .. Len(events) /\ DOMAIN events' = 1 .. Len(events')
    BY <1>2 DEF StreamTypeOK
  <1>4. /\ Len(events) \in Nat /\ Len(events') = Len(events) - 1
        /\ \A i \in 1 .. Len(events') : i + 1 \in 1 .. Len(events) /\ events'[i] = events[i + 1]
    BY DEF Receive, StreamTypeOK
  <1>5. StaleNewsCorrected'
    <2>1. ASSUME NEW i \in 1 .. Len(events'), NEW p \in Peers, events'[i] = Discovered(p)
          PROVE  Retractable(p, i)'
      <3>1. i + 1 \in 1 .. Len(events) /\ (i + 1) - 1 = i /\ events[i + 1] = Discovered(p)
        BY <1>4, <2>1
      <3>2. Retractable(p, i + 1)
        BY <1>3, <3>1 DEF News, StaleNewsCorrected, Discovered
      <3>3. Retractable(p, (i + 1) - 1)'
        BY <3>1, <3>2, ReceiveKeeps
      <3> QED
        BY <3>1, <3>3
    <2> QED
      BY <1>2, <2>1, NewsByPeer
  <1>6. NoDoubleDiscovery'
    <2> SUFFICES ASSUME NEW i \in 1 .. Len(events'), NEW j \in 1 .. Len(events'), i < j,
                        events'[i].kind = "Discovered", events'[j] = events'[i]
                 PROVE  \E k \in i + 1 .. j - 1 : events'[k] = Lost(events'[i].peer)
      BY <1>3 DEF NoDoubleDiscovery, Lost
    <2>1. /\ i + 1 \in 1 .. Len(events) /\ j + 1 \in 1 .. Len(events) /\ i + 1 < j + 1
          /\ events[i + 1].kind = "Discovered" /\ events[j + 1] = events[i + 1]
      BY <1>4
    <2>2. PICK k \in (i + 1) + 1 .. (j + 1) - 1 : events[k] = Lost(events[i + 1].peer)
      BY <1>3, <2>1 DEF News, NoDoubleDiscovery
    <2>3. k - 1 \in i + 1 .. j - 1 /\ k - 1 \in 1 .. Len(events') /\ (k - 1) + 1 = k
      BY <1>4, <2>2
    <2> QED
      BY <1>4, <2>2, <2>3
  <1> QED
    BY <1>1, <1>5, <1>6 DEF News

channel == <<lastPeers, current, fresh, gone, streamPc, events, rxOpen>>

LEMMA NewsUnchanged ==
  ASSUME News, UNCHANGED channel
  PROVE  News'
  BY DEF channel, News, Round, StaleNewsCorrected, NoDoubleDiscovery, Retractable, Known, Lost

\* Only the stream and the reads of the peer task touch the channel.
LEMMA OthersLeaveChannel ==
  ASSUME UI \/ Lifecycle \/ World \/ Poller \/ TransferTask \/ UNCHANGED vars
            \/ ConnectApp \/ ConnectTm \/ ConnectPortal \/ LoseApp \/ LoseTm \/ LosePortal
  PROVE  UNCHANGED channel
  <1> USE DEF channel, streamVars
  <1>1. CASE UI \/ Lifecycle
    BY <1>1 DEF UI, QueueFiles, Quit, Lifecycle, InitOk, InitFails, Cancel, Stop
  <1>2. CASE World \/ UNCHANGED vars
    BY <1>2 DEF World, Environment, Appear, Vanish, vars
  <1>3. CASE Poller
    BY <1>3 DEF Poller, PollerTake, PollerSend, PollerSendFails, PollerCancelled
  <1>4. CASE TransferTask
    BY <1>4 DEF TransferTask, TxReceive, TxCheck, TxNoPeer, TxMark, TxChoose, TxSendOk, TxSendErr,
          TxFinished, TxFailed, TxCancelled, TxStep
  <1>5. CASE ConnectApp \/ ConnectTm \/ ConnectPortal \/ LoseApp \/ LoseTm \/ LosePortal
    BY <1>5 DEF ConnectApp, ConnectTm, ConnectPortal, LoseApp, LoseTm, LosePortal, PeerStep
  <1> QED
    BY <1>1, <1>2, <1>3, <1>4, <1>5

LEMMA NewsKept ==
  ASSUME TypeOK, News, [Next]_vars
  PROVE  News'
  <1>1. CASE Stream
    <2>1. StreamTypeOK /\ StreamStep
      BY <1>1 DEF TypeOK, Stream
    <2>2. StreamTypeOK'
      BY <2>1, TypeStreamStep
    <2> QED
      BY <2>1, <2>2, RoundStream, StaleStream, DoubleStream DEF News
  <1>2. ASSUME NEW p \in Peers, PeerDiscovered(p) \/ PeerLost(p)
        PROVE  News'
    BY <1>2, NewsReceive DEF PeerDiscovered, PeerLost, TypeOK
  <1>3. CASE PeerCancelled
    <2>1. events' = <<>> /\ rxOpen' = FALSE /\ UNCHANGED <<fresh, gone, lastPeers, current, streamPc>>
      BY <1>3 DEF PeerCancelled, Close
    <2> QED
      BY <2>1 DEF News, Round, StaleNewsCorrected, NoDoubleDiscovery
  <1> QED
    BY <1>1, <1>2, <1>3, OthersLeaveChannel, NewsUnchanged DEF Next, PeerTask

LEMMA NewsHolds == Spec => []News
  <1>1. Init => News
    BY DEF Init, StreamInit, News, Round, StaleNewsCorrected, NoDoubleDiscovery
  <1> QED
    BY <1>1, NewsKept, TypeCorrect, PTL DEF Spec

\* For any number of peers and any capacity, a reader is never told twice of
\* an arrival without the departure in between.
THEOREM NewsAlternates == Spec => []NoDoubleDiscovery
  BY NewsHolds, PTL DEF News

\* ... and a Discovered event that no longer holds is followed by its Lost.
THEOREM NewsIsCorrected == Spec => []StaleNewsCorrected
  BY NewsHolds, PTL DEF News

-----------------------------------------------------------------------------
(* A connection can be retracted.                                             *)

\* From the read of its Discovered event on, the peer that is or is about to
\* be connected can be.
Attached ==
    /\ peerPc = "connApp" => peerArg \in Peers
    /\ rxOpen /\ peerPc = "connApp" => Retractable(peerArg, 0)
    /\ ConnectionRetractable

LEMMA AttachedUnchanged ==
  ASSUME Attached, UNCHANGED <<channel, appPeer, peerPc, peerArg>>
  PROVE  Attached'
  BY DEF Attached, ConnectionRetractable, channel, Retractable, Known, Lost

LEMMA AttachedStream ==
  ASSUME TypeOK, News, Attached, Stream
  PROVE  Attached'
  <1>1. StreamTypeOK /\ StreamStep /\ Round
    BY DEF TypeOK, Stream, News
  <1>2. UNCHANGED <<appPeer, peerPc, peerArg, rxOpen>>
    BY <1>1 DEF Stream, restVars, appVars, peerVars, StreamStep, Poll, AnnounceFresh, SkipFresh,
          AnnounceLost, EndRound, Emit
  <1>3. Len(events) \in Nat /\ 0 \in 0 .. Len(events)
    BY <1>1 DEF StreamTypeOK
  <1>4. ASSUME rxOpen, peerPc = "connApp"
        PROVE  Retractable(peerArg, 0)'
    <2>1. peerArg \in Peers /\ Retractable(peerArg, 0)
      BY <1>4 DEF Attached
    <2>2. \A p \in Peers : Retractable(p, 0) => Retractable(p, 0)'
      BY <1>1, <1>3, <1>4, StreamKeeps
    <2> QED
      BY <1>2, <2>1, <2>2 DEF Retractable
  <1>5. ASSUME rxOpen, appPeer # NoPeer, peerPc # "lostApp"
        PROVE  Retractable(appPeer, 0)'
    <2>1. appPeer \in Peers /\ Retractable(appPeer, 0)
      BY <1>5 DEF Attached, ConnectionRetractable, TypeOK
    <2>2. \A p \in Peers : Retractable(p, 0) => Retractable(p, 0)'
      BY <1>1, <1>3, <1>5, StreamKeeps
    <2> QED
      BY <1>2, <2>1, <2>2 DEF Retractable
  <1> QED
    BY <1>2, <1>4, <1>5 DEF Attached, ConnectionRetractable

LEMMA AttachedRead ==
  ASSUME TypeOK, News, Attached, NEW p \in Peers, PeerDiscovered(p) \/ PeerLost(p)
  PROVE  Attached'
  <1>1. StreamTypeOK /\ peerPc = "recv" /\ UNCHANGED <<appPeer, rxOpen>> /\ rxOpen
    BY DEF TypeOK, PeerDiscovered, PeerLost, appVars, Receive
  <1>2. ASSUME NEW e, Receive(e), appPeer # NoPeer, e # Lost(appPeer)
        PROVE  Retractable(appPeer, 0)'
    <2>1. appPeer \in Peers /\ Retractable(appPeer, 0)
      BY <1>1, <1>2 DEF Attached, ConnectionRetractable, TypeOK
    <2>2. \A q \in Peers : e # Lost(q) /\ Retractable(q, 0) => Retractable(q, 0)'
      BY <1>1, <1>2, ReceiveOther
    <2> QED
      BY <1>1, <1>2, <2>1, <2>2 DEF Retractable
  <1>3. CASE PeerDiscovered(p)
    <2>1. Receive(Discovered(p)) /\ Discovered(p) # Lost(appPeer)
      BY <1>3 DEF PeerDiscovered, Discovered, Lost
    <2>2. CASE appPeer = NoPeer
      <3>1. events[1] = Discovered(p) /\ 1 \in 1 .. Len(events) /\ DOMAIN events = 1 .. Len(events)
        BY <1>1, <2>1 DEF Receive, StreamTypeOK
      <3>2. Retractable(p, 1)
        BY <3>1 DEF News, StaleNewsCorrected, Discovered
      <3>3. Retractable(p, 1 - 1)'
        BY <1>1, <2>1, <3>1, <3>2, ReceiveKeeps
      <3>4. peerPc' = "connApp" /\ peerArg' = p
        BY <1>3, <2>2 DEF PeerDiscovered
      <3> QED
        BY <1>1, <2>2, <3>3, <3>4 DEF Attached, ConnectionRetractable, Retractable
    <2>3. CASE appPeer # NoPeer
      <3>1. peerPc' = "recv"
        BY <1>1, <1>3, <2>3 DEF PeerDiscovered
      <3> QED
        BY <1>2, <2>1, <2>3, <3>1 DEF Attached, ConnectionRetractable
    <2> QED
      BY <2>2, <2>3
  <1>4. CASE PeerLost(p)
    <2>1. Receive(Lost(p))
      BY <1>4 DEF PeerLost
    <2>2. CASE appPeer = p
      BY <1>1, <1>4, <2>2 DEF PeerLost, Attached, ConnectionRetractable
    <2>3. CASE appPeer # p
      <3>1. peerPc' = "recv" /\ Lost(p) # Lost(appPeer)
        BY <1>1, <1>4, <2>3 DEF PeerLost, Lost
      <3> QED
        BY <1>1, <1>2, <2>1, <3>1 DEF Attached, ConnectionRetractable
    <2> QED
      BY <2>2, <2>3
  <1> QED
    BY <1>3, <1>4

LEMMA AttachedHandler ==
  ASSUME TypeOK, PeerRecords, Attached,
         ConnectApp \/ ConnectTm \/ ConnectPortal \/ LoseApp \/ LoseTm \/ LosePortal
  PROVE  Attached'
  <1>1. UNCHANGED channel
    BY OthersLeaveChannel
  <1>2. \A p : Retractable(p, 0)' <=> Retractable(p, 0)
    BY <1>1 DEF channel, Retractable, Known, Lost
  <1>3. rxOpen' = rxOpen /\ peerPc' # "connApp"
    BY <1>1 DEF channel, ConnectApp, ConnectTm, ConnectPortal, LoseApp, LoseTm, LosePortal, PeerStep
  <1>4. ASSUME rxOpen, appPeer' # NoPeer
        PROVE  Retractable(appPeer', 0)
    BY <1>4 DEF Attached, ConnectionRetractable, PeerRecords, appVars,
          ConnectApp, ConnectTm, ConnectPortal, LoseApp, LoseTm, LosePortal, PeerStep,
          SetConnectedPeer, SetPortalState
  <1> QED
    BY <1>1, <1>3, <1>4 DEF Attached, ConnectionRetractable, channel, Retractable, Known, Lost

LEMMA AttachedKept ==
  ASSUME TypeOK, News, PeerRecords, Attached, [Next]_vars
  PROVE  Attached'
  <1>1. CASE UI \/ Lifecycle \/ World \/ Poller \/ TransferTask \/ UNCHANGED vars
    BY <1>1, OthersLeavePeer, OthersLeaveChannel, AttachedUnchanged
  <1>2. CASE PeerCancelled
    BY <1>2 DEF PeerCancelled, Close, Attached, ConnectionRetractable
  <1> QED
    BY <1>1, <1>2, AttachedStream, AttachedRead, AttachedHandler DEF Next, PeerTask

\* For any number of peers that come and go while the stream is blocked and
\* the handlers are half-way, a connected peer is never one that the
\* application will not hear of again.
THEOREM ConnectionsEnd == Spec => []ConnectionRetractable
  <1>1. Init => Attached /\ PeerRecords
    BY DEF Init, StreamInit, Attached, ConnectionRetractable, PeerRecords
  <1>2. Attached => ConnectionRetractable
    BY DEF Attached
  <1> QED
    BY <1>1, <1>2, TypeCorrect, NewsHolds, RecordsKept, AttachedKept, PTL DEF Spec

-----------------------------------------------------------------------------
(* The file pipeline is first-in first-out and loses nothing.                 *)

\* Only queued files are in it, and a task between two requests holds none.
Holding ==
    /\ handled \union txBatch \union pollBatch \union pending \subseteq 1 .. queued
    /\ \A i \in 1 .. Len(sendCh) : sendCh[i] \subseteq 1 .. queued
    /\ pollPc # "send" => pollBatch = {}
    /\ txPc \in {"recv", "done"} => txBatch = {}

Pipe == Holding /\ PipelineIsFifo

pipeline == <<queued, pending, pollBatch, sendCh, txBatch, handled>>

LEMMA PipeUnchanged ==
  ASSUME Pipe, UNCHANGED pipeline,
         net' \in {"init", "running"} => net \in {"init", "running"},
         pollPc' # "send" => pollPc # "send",
         txPc' \in {"recv", "done"} => txPc \in {"recv", "done"}
  PROVE  Pipe'
  BY DEF Pipe, Holding, PipelineIsFifo, InOrder, NoneLost, InPipeline, Before, pipeline

\* What leaves the pipeline's order as it was.
LEMMA OthersLeavePipe ==
  ASSUME \/ Quit \/ Lifecycle \/ World \/ Stream \/ PeerTask \/ UNCHANGED vars
         \/ TxCheck \/ TxMark \/ TxChoose \/ TxSendOk \/ TxSendErr
  PROVE  /\ UNCHANGED pipeline
         /\ net' \in {"init", "running"} => net \in {"init", "running"}
         /\ pollPc' # "send" => pollPc # "send"
         /\ txPc' \in {"recv", "done"} => txPc \in {"recv", "done"}
  <1> USE DEF pipeline, appVars, pollVars, txVars, txRest
  <1>1. CASE Quit \/ Lifecycle
    BY <1>1 DEF Quit, Lifecycle, InitOk, InitFails, Cancel, Stop
  <1>2. CASE World \/ Stream \/ UNCHANGED vars
    BY <1>2 DEF World, Stream, restVars, vars
  <1>3. CASE PeerTask
    BY <1>3 DEF PeerTask, PeerDiscovered, PeerLost, ConnectApp, ConnectTm, ConnectPortal,
          LoseApp, LoseTm, LosePortal, PeerCancelled, PeerStep, SetConnectedPeer, SetPortalState
  <1>4. CASE TxCheck \/ TxMark \/ TxChoose \/ TxSendOk \/ TxSendErr
    BY <1>4 DEF TxCheck, TxMark, TxChoose, TxSendOk, TxSendErr, TxStep, SetPortalState
  <1> QED
    BY <1>1, <1>2, <1>3, <1>4

\* New files come after all others, and behind the poller's.
LEMMA PipeQueue ==
  ASSUME TypeOK, Pipe, NEW n \in AllFiles, QueueFiles(n)
  PROVE  Pipe'
  <1>1. /\ queued \in Nat /\ n \in Nat /\ queued' = queued + n
        /\ pending' = pending \union (queued + 1 .. queued + n)
        /\ UNCHANGED <<net, pollPc, pollBatch, sendCh, txPc, txBatch, handled>>
    BY SessionAssumption DEF TypeOK, QueueFiles, AllFiles, pollVars, txVars, txRest
  <1>2. Holding'
    BY <1>1 DEF Pipe, Holding
  <1>3. DOMAIN sendCh = 1 .. Len(sendCh)
    BY DEF TypeOK
  <1>4. InOrder'
    BY <1>1, <1>3 DEF Pipe, Holding, PipelineIsFifo, InOrder, Before
  <1>5. NoneLost'
    <2>1. \A f \in 1 .. queued' : f \in 1 .. queued \/ f \in pending'
      BY <1>1
    <2>2. \A f : InPipeline(f) => InPipeline(f)'
      BY <1>1 DEF InPipeline
    <2>3. \A f \in pending' : InPipeline(f)'
      BY DEF InPipeline
    <2> QED
      BY <1>1, <2>1, <2>2, <2>3 DEF Pipe, PipelineIsFifo, NoneLost
  <1> QED
    BY <1>2, <1>4, <1>5 DEF Pipe, PipelineIsFifo

LEMMA PipeTake ==
  ASSUME TypeOK, Pipe, PollerTake
  PROVE  Pipe'
  <1>1. /\ pollBatch = {} /\ pollBatch' = pending /\ pending' = {} /\ pollPc' = "send"
        /\ UNCHANGED <<queued, net, sendCh, txPc, txBatch, handled>>
    BY DEF PollerTake, Pipe, Holding, txVars, txRest
  <1> QED
    BY <1>1 DEF Pipe, Holding, PipelineIsFifo, InOrder, NoneLost, InPipeline, Before

\* The request goes behind the requests of the channel.
LEMMA PipeSend ==
  ASSUME TypeOK, Pipe, PollerSend
  PROVE  Pipe'
  <1>1. /\ sendCh' = Append(sendCh, pollBatch) /\ pollBatch' = {} /\ pollPc' = "poll"
        /\ UNCHANGED <<queued, net, pending, txPc, txBatch, handled>>
    BY DEF PollerSend, txVars, txRest, appVars
  <1>2. /\ DOMAIN sendCh = 1 .. Len(sendCh) /\ DOMAIN sendCh' = 1 .. Len(sendCh')
        /\ Len(sendCh) \in Nat /\ Len(sendCh') = Len(sendCh) + 1
        /\ sendCh'[Len(sendCh) + 1] = pollBatch
        /\ \A i \in 1 .. Len(sendCh) : sendCh'[i] = sendCh[i]
    BY <1>1 DEF TypeOK
  <1>3. \A i \in 1 .. Len(sendCh') : i \in 1 .. Len(sendCh) \/ i = Len(sendCh) + 1
    BY <1>2
  <1>4. Holding'
    BY <1>1, <1>2, <1>3 DEF Pipe, Holding
  <1>5. InOrder'
    <2>1. /\ Before(handled, txBatch)'
          /\ \A i \in DOMAIN sendCh' : Before(handled \union txBatch, sendCh[i])'
          /\ \A i \in DOMAIN sendCh' : Before(sendCh[i], pollBatch \union pending)'
      BY <1>1, <1>2, <1>3 DEF Pipe, PipelineIsFifo, InOrder, Before
    <2>2. ASSUME NEW i \in DOMAIN sendCh', NEW j \in DOMAIN sendCh', i < j
          PROVE  Before(sendCh[i], sendCh[j])'
      <3>1. i \in 1 .. Len(sendCh)
        BY <1>2, <2>2
      <3> QED
        BY <1>2, <1>3, <2>2, <3>1 DEF Pipe, PipelineIsFifo, InOrder, Before
    <2>3. Before(handled \union txBatch, pollBatch \union pending)' /\ Before(pollBatch, pending)'
      BY <1>1 DEF Pipe, PipelineIsFifo, InOrder, Before
    <2> QED
      BY <2>1, <2>2, <2>3 DEF InOrder
  <1>6. \A f : InPipeline(f) => InPipeline(f)'
    <2> SUFFICES ASSUME NEW f, InPipeline(f) PROVE InPipeline(f)'
      OBVIOUS
    <2>1. CASE f \in pollBatch
      <3>1. Len(sendCh) + 1 \in DOMAIN sendCh' /\ f \in sendCh'[Len(sendCh) + 1]
        BY <1>2, <2>1
      <3> QED
        BY <3>1 DEF InPipeline
    <2>2. CASE \E i \in DOMAIN sendCh : f \in sendCh[i]
      <3>1. PICK i \in DOMAIN sendCh : f \in sendCh[i]
        BY <2>2
      <3>2. i \in DOMAIN sendCh' /\ f \in sendCh'[i]
        BY <1>2, <3>1
      <3> QED
        BY <3>2 DEF InPipeline
    <2> QED
      BY <1>1, <2>1, <2>2 DEF InPipeline
  <1> QED
    BY <1>1, <1>4, <1>5, <1>6 DEF Pipe, PipelineIsFifo, NoneLost

\* The receiver is gone only once the network winds down.
LEMMA PipeDropped ==
  ASSUME TypeOK, Winding, Pipe, PollerSendFails \/ PollerCancelled \/ TxCancelled
  PROVE  Pipe'
  <1>1. net \notin {"init", "running"} /\ net' = net
    BY DEF Winding, NoneEnded, PollerSendFails, PollerCancelled, TxCancelled, TxStep, Up
  <1>2. NoneLost'
    BY <1>1 DEF NoneLost
  <1>3. CASE PollerSendFails \/ PollerCancelled
    BY <1>2, <1>3 DEF PollerSendFails, PollerCancelled, appVars, txVars, txRest, Pipe, Holding,
          PipelineIsFifo, InOrder, Before
  <1>4. CASE TxCancelled
    BY <1>2, <1>4 DEF TxCancelled, TxStep, appVars, pollVars, Pipe, Holding,
          PipelineIsFifo, InOrder, Before
  <1> QED
    BY <1>3, <1>4

\* The oldest request leaves the channel.
LEMMA PipeReceive ==
  ASSUME TypeOK, Pipe, TxReceive
  PROVE  Pipe'
  <1>1. /\ txBatch = {} /\ txBatch' = Head(sendCh) /\ sendCh' = Tail(sendCh) /\ txPc' = "check"
        /\ sendCh # <<>>
        /\ UNCHANGED <<queued, net, pending, pollPc, pollBatch, handled>>
    BY DEF TxReceive, TxStep, Pipe, Holding, appVars, pollVars
  <1>2. /\ DOMAIN sendCh = 1 .. Len(sendCh) /\ DOMAIN sendCh' = 1 .. Len(sendCh')
        /\ Len(sendCh) \in Nat /\ Len(sendCh') = Len(sendCh) - 1
        /\ 1 \in 1 .. Len(sendCh) /\ txBatch' = sendCh[1]
        /\ \A i \in 1 .. Len(sendCh') : i + 1 \in 1 .. Len(sendCh) /\ sendCh'[i] = sendCh[i + 1]
    BY <1>1 DEF TypeOK
  <1>3. Holding'
    BY <1>1, <1>2 DEF Pipe, Holding
  <1>4. InOrder'
    <2>1. Before(handled, txBatch)' /\ Before(pollBatch, pending)'
          /\ Before(handled \union txBatch, pollBatch \union pending)'
      BY <1>1, <1>2 DEF Pipe, PipelineIsFifo, InOrder, Before
    <2>2. ASSUME NEW i \in DOMAIN sendCh'
          PROVE  /\ Before(handled \union txBatch, sendCh[i])'
                 /\ Before(sendCh[i], pollBatch \union pending)'
      <3>1. i + 1 \in DOMAIN sendCh /\ sendCh'[i] = sendCh[i + 1] /\ 1 < i + 1 /\ 1 \in DOMAIN sendCh
        BY <1>2, <2>2
      <3> QED
        BY <1>1, <1>2, <3>1 DEF Pipe, PipelineIsFifo, InOrder, Before
    <2>3. ASSUME NEW i \in DOMAIN sendCh', NEW j \in DOMAIN sendCh', i < j
          PROVE  Before(sendCh[i], sendCh[j])'
      <3>1. /\ i + 1 \in DOMAIN sendCh /\ j + 1 \in DOMAIN sendCh /\ i + 1 < j + 1
            /\ sendCh'[i] = sendCh[i + 1] /\ sendCh'[j] = sendCh[j + 1]
        BY <1>2, <2>3
      <3> QED
        BY <3>1 DEF Pipe, PipelineIsFifo, InOrder, Before
    <2> QED
      BY <2>1, <2>2, <2>3 DEF InOrder
  <1>5. \A f : InPipeline(f) => InPipeline(f)'
    <2> SUFFICES ASSUME NEW f, InPipeline(f) PROVE InPipeline(f)'
      OBVIOUS
    <2>1. CASE \E i \in DOMAIN sendCh : f \in sendCh[i]
      <3>1. PICK i \in DOMAIN sendCh : f \in sendCh[i]
        BY <2>1
      <3>2. CASE i = 1
        BY <1>2, <3>1, <3>2 DEF InPipeline
      <3>3. CASE i # 1
        <4>1. i - 1 \in 1 .. Len(sendCh') /\ (i - 1) + 1 = i
          BY <1>2, <3>1, <3>3
        <4>2. i - 1 \in DOMAIN sendCh' /\ f \in sendCh'[i - 1]
          BY <1>2, <3>1, <4>1
        <4> QED
          BY <4>2 DEF InPipeline
      <3> QED
        BY <3>2, <3>3
    <2> QED
      BY <1>1, <2>1 DEF InPipeline
  <1> QED
    BY <1>1, <1>3, <1>4, <1>5 DEF Pipe, PipelineIsFifo, NoneLost

LEMMA PipeDone ==
  ASSUME TypeOK, Pipe, TxNoPeer \/ TxFinished \/ TxFailed
  PROVE  Pipe'
  <1>1. /\ handled' = handled \union txBatch /\ txBatch' = {}
        /\ UNCHANGED <<queued, net, pending, pollPc, pollBatch, sendCh>>
    BY DEF TxNoPeer, TxFinished, TxFailed, TxStep, TxDone, SetPortalState, pollVars
  <1> QED
    BY <1>1 DEF Pipe, Holding, PipelineIsFifo, InOrder, NoneLost, InPipeline, Before

LEMMA PipeKept ==
  ASSUME TypeOK, Winding, Pipe, [Next]_vars
  PROVE  Pipe'
  <1>1. CASE \/ Quit \/ Lifecycle \/ World \/ Stream \/ PeerTask \/ UNCHANGED vars
             \/ TxCheck \/ TxMark \/ TxChoose \/ TxSendOk \/ TxSendErr
    BY <1>1, OthersLeavePipe, PipeUnchanged
  <1>2. CASE UI
    BY <1>1, <1>2, PipeQueue DEF UI
  <1>3. CASE Poller
    BY <1>3, PipeTake, PipeSend, PipeDropped DEF Poller
  <1>4. CASE TransferTask
    BY <1>1, <1>4, PipeReceive, PipeDone, PipeDropped DEF TransferTask
  <1> QED
    BY <1>1, <1>2, <1>3, <1>4 DEF Next

LEMMA WindingHolds == Spec => []Winding
  <1>1. Init => Winding
    BY DEF Init, Winding, NoneEnded, NoSelfShutdown
  <1> QED
    BY <1>1, TypeCorrect, WindingKept, PTL DEF Spec

LEMMA PipeHolds == Spec => []Pipe
  <1>1. Init => Pipe
    BY SessionAssumption DEF Init, Pipe, Holding, PipelineIsFifo, InOrder, NoneLost, Before
  <1> QED
    BY <1>1, WindingHolds, TypeCorrect, PipeKept, PTL DEF Spec

\* For any number of files, in any drops, and any capacity of the channel, no
\* file is lost, duplicated or overtaken between the drop and its handler.
THEOREM PipelineHolds == Spec => []PipelineIsFifo
  <1>1. Pipe => PipelineIsFifo
    BY DEF Pipe
  <1> QED
    BY <1>1, PipeHolds, PTL
=============================================================================
