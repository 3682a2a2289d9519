------------------------------- MODULE Session ------------------------------
(***************************************************************************)
(* One running instance of the application: AppState (src/app/state.rs)    *)
(* shared by the UI thread and the tasks that run_networking spawns        *)
(* (src/main.rs), fed by the peer stream of PeerStream.tla.                *)
(*                                                                         *)
(* Every AppState method is one critical section of its RwLock, and so one *)
(* step; a handler that calls several of them is several steps.  Only the  *)
(* peer task writes connected_peer, so its read of it is merged with the   *)
(* recv() or check that precedes it.  TransferManager::send_files and the  *)
(* transfers it starts are seen from the outside here, but for the peer    *)
(* they are for: they succeed, fail or end, at any time (Transfer.tla has  *)
(* their detail).                                                          *)
(*                                                                         *)
(* Files are numbered in the order the UI queues them; a Vec of files that *)
(* moves as a whole is the set of its numbers.                             *)
(***************************************************************************)
EXTENDS PeerStream

CONSTANTS NoPeer,     \* None
          ChanCap,    \* SEND_FILES_CHANNEL_CAPACITY (32 in the code)
          MaxFiles    \* bound: files the user ever queues

ASSUME SessionAssumption ==
    /\ NoPeer \notin Peers
    /\ ChanCap \in Nat \ {0}
    /\ MaxFiles \in Nat

VARIABLES
    portal,     \* AppState.portal_state
    appPeer,    \* AppState.connected_peer
    pending,    \* AppState.pending_send_files
    shutdown,   \* AppState.shutdown
    queued,     \* how many files the UI has queued so far
    net,        \* "init", "running", "stopping" (token cancelled) or "stopped"
    peerPc,     \* the peer task: "recv", a step of its handlers, or "done"
    peerArg,    \* the peer of the event being handled
    tmPeer,     \* TransferManager.connected_peer
    pollPc,     \* the file poller: "poll", "send" or "done"
    pollBatch,  \* the request it is sending
    sendCh,     \* the send_files channel
    txPc,       \* the transfer task: "recv", a step of its handler, or "done"
    txBatch,    \* the request it is handling
    dest,       \* peer_addr of its send_files: the peer its files go to
    handled,    \* files of the requests it has dealt with
    shown       \* history: peers on screen between its check and that choice

appVars  == <<portal, appPeer, pending, shutdown, queued>>
peerVars == <<peerPc, peerArg, tmPeer>>
pollVars == <<pollPc, pollBatch>>
txRest   == <<txPc, txBatch, dest, handled>>
txVars   == <<txRest, shown>>
vars == <<streamVars, appVars, net, peerVars, pollVars, sendCh, txVars>>

PortalState == {"Idle", "Searching", "Connected", "Transferring"}
PeerSteps == {"recv", "connApp", "connTm", "connPortal",
              "lostApp", "lostTm", "lostPortal", "done"}
TxSteps == {"recv", "check", "noPeer", "mark", "send", "files", "await", "failed", "done"}
AllFiles == 1 .. MaxFiles

TypeOK ==
    /\ StreamTypeOK
    /\ portal \in PortalState
    /\ appPeer \in Peers \union {NoPeer}
    /\ pending \subseteq AllFiles
    /\ shutdown \in BOOLEAN
    /\ queued \in 0 .. MaxFiles
    /\ net \in {"init", "running", "stopping", "stopped"}
    /\ peerPc \in PeerSteps
    /\ peerArg \in Peers \union {NoPeer}
    /\ tmPeer \in Peers \union {NoPeer}
    /\ pollPc \in {"poll", "send", "done"}
    /\ pollBatch \subseteq AllFiles
    /\ sendCh \in Seq(SUBSET AllFiles)
    /\ Len(sendCh) <= ChanCap
    /\ txPc \in TxSteps
    /\ txBatch \subseteq AllFiles
    /\ dest \in Peers \union {NoPeer}
    /\ handled \subseteq AllFiles
    /\ shown \subseteq Peers \union {NoPeer}

Init ==
    /\ StreamInit
    /\ portal = "Idle" /\ appPeer = NoPeer /\ pending = {}
    /\ shutdown = FALSE /\ queued = 0
    /\ net = "init"
    /\ peerPc = "recv" /\ peerArg = NoPeer /\ tmPeer = NoPeer
    /\ pollPc = "poll" /\ pollBatch = {}
    /\ sendCh = <<>>
    /\ txPc = "recv" /\ txBatch = {} /\ dest = NoPeer /\ handled = {} /\ shown = {}

Up == net \in {"running", "stopping"}    \* the tasks exist

-----------------------------------------------------------------------------
(* The UI thread: drops and file pickers queue files at any time, before the *)
(* network is up and after it failed; Quit raises the shutdown flag.         *)

\* queue_files_for_send with n paths.
QueueFiles(n) ==
    /\ queued + n <= MaxFiles
    /\ pending' = pending \union (queued + 1 .. queued + n)
    /\ queued' = queued + n
    /\ portal' = "Transferring"
    /\ UNCHANGED <<streamVars, appPeer, shutdown, net, peerVars, pollVars, sendCh, txVars>>

Quit ==
    /\ ~shutdown
    /\ shutdown' = TRUE
    /\ UNCHANGED <<streamVars, portal, appPeer, pending, queued, net, peerVars,
                   pollVars, sendCh, txVars>>

UI == (\E n \in AllFiles : QueueFiles(n)) \/ Quit

-----------------------------------------------------------------------------
(* run_networking: initialise, spawn the tasks, wait for any of them to end,  *)
(* cancel the others, sleep, return (the runtime is dropped, tasks with it).  *)

InitOk ==
    /\ net = "init"
    /\ net' = "running"
    /\ UNCHANGED <<streamVars, appVars, peerVars, pollVars, sendCh, txVars>>

\* Endpoint::new or TransferManager::new fails: run_networking returns at once.
InitFails ==
    /\ net = "init"
    /\ net' = "stopped"
    /\ UNCHANGED <<streamVars, appVars, peerVars, pollVars, sendCh, txVars>>

\* The monitor sees the flag, or the select sees a task that has ended.
Cancel ==
    /\ net = "running"
    /\ shutdown \/ "done" \in {peerPc, pollPc, txPc}
    /\ net' = "stopping"
    /\ UNCHANGED <<streamVars, appVars, peerVars, pollVars, sendCh, txVars>>

Stop ==
    /\ net = "stopping"
    /\ net' = "stopped"
    /\ UNCHANGED <<streamVars, appVars, peerVars, pollVars, sendCh, txVars>>

Lifecycle == InitOk \/ InitFails \/ Cancel \/ Stop

-----------------------------------------------------------------------------
(* The peer task.  Its select is biased towards cancellation; a handler, once *)
(* entered, has no await point and runs to its end.                           *)

\* handle_peer_event on Discovered: connect unless connected_peer is set.
PeerDiscovered(p) ==
    /\ net = "running" /\ peerPc = "recv"
    /\ Receive(Discovered(p))
    /\ IF appPeer = NoPeer
       THEN peerPc' = "connApp" /\ peerArg' = p
       ELSE UNCHANGED <<peerPc, peerArg>>
    /\ UNCHANGED <<appVars, net, tmPeer, pollVars, sendCh, txVars>>

\* Mutant: no disconnection while files are being sent.
PeerLost_NotWhileSending(p) ==
    /\ net = "running" /\ peerPc = "recv"
    /\ Receive(Lost(p))
    /\ IF appPeer = p /\ portal # "Transferring"
       THEN peerPc' = "lostApp" /\ peerArg' = p
       ELSE UNCHANGED <<peerPc, peerArg>>
    /\ UNCHANGED <<appVars, net, tmPeer, pollVars, sendCh, txVars>>

\* handle_peer_event on Lost: disconnect if it is the connected peer.
PeerLost(p) ==
    /\ net = "running" /\ peerPc = "recv"
    /\ Receive(Lost(p))
    /\ IF appPeer = p
       THEN peerPc' = "lostApp" /\ peerArg' = p
       ELSE UNCHANGED <<peerPc, peerArg>>
    /\ UNCHANGED <<appVars, net, tmPeer, pollVars, sendCh, txVars>>

\* AppState::set_connected_peer: the peer and the portal in one critical section.
SetConnectedPeer(p) ==
    /\ appPeer' = p
    /\ portal' = IF p = NoPeer THEN "Idle" ELSE "Connected"
    /\ UNCHANGED <<pending, shutdown, queued>>

\* AppState::set_portal_state
SetPortalState(s) ==
    /\ portal' = s
    /\ UNCHANGED <<appPeer, pending, shutdown, queued>>

\* One step of a handler of the peer task, from one pc to the next.
PeerStep(from, to) ==
    /\ peerPc = from
    /\ peerPc' = to
    /\ peerArg' = IF to = "recv" THEN NoPeer ELSE peerArg
    /\ UNCHANGED <<streamVars, net, pollVars, sendCh, txRest>>

\* History: p comes on screen while a request is between its check and its choice.
NoteShown(p) == shown' = IF txPc \in {"mark", "send"} THEN shown \union {p} ELSE shown

\* connect_to_peer
ConnectApp    == PeerStep("connApp", "connTm") /\ SetConnectedPeer(peerArg)
                                               /\ NoteShown(peerArg) /\ UNCHANGED tmPeer
ConnectTm     == PeerStep("connTm", "connPortal") /\ tmPeer' = peerArg
                                                  /\ UNCHANGED <<appVars, shown>>
ConnectPortal == PeerStep("connPortal", "recv") /\ SetPortalState("Connected")
                                                /\ UNCHANGED <<tmPeer, shown>>

\* Mutant: the transfer manager keeps the lost peer.
LoseTm_KeepsPeer == PeerStep("lostTm", "lostPortal") /\ UNCHANGED <<tmPeer, appVars, shown>>

\* the Lost arm of handle_peer_event
LoseApp    == PeerStep("lostApp", "lostTm") /\ SetConnectedPeer(NoPeer)
                                             /\ UNCHANGED <<tmPeer, shown>>
LoseTm     == PeerStep("lostTm", "lostPortal") /\ tmPeer' = NoPeer /\ UNCHANGED <<appVars, shown>>
LosePortal == PeerStep("lostPortal", "recv") /\ SetPortalState("Idle")
                                             /\ UNCHANGED <<tmPeer, shown>>

\* The task ends and drops the stream's receiver.
PeerCancelled ==
    /\ net = "stopping" /\ peerPc = "recv"
    /\ peerPc' = "done"
    /\ Close
    /\ UNCHANGED <<appVars, net, peerArg, tmPeer, pollVars, sendCh, txVars>>

PeerTask ==
    \/ \E p \in Peers : PeerDiscovered(p) \/ PeerLost(p)
    \/ ConnectApp \/ ConnectTm \/ ConnectPortal
    \/ LoseApp \/ LoseTm \/ LosePortal
    \/ PeerCancelled

-----------------------------------------------------------------------------
(* The file poller: every 50 ms, moves what is pending into the channel.      *)

\* Mutant: files wait in pending until a peer is connected.
PollerTake_IfConnected ==
    /\ net = "running" /\ pollPc = "poll"
    /\ pending # {} /\ appPeer # NoPeer
    /\ pollBatch' = pending
    /\ pending' = {}
    /\ pollPc' = "send"
    /\ UNCHANGED <<streamVars, portal, appPeer, shutdown, queued, net, peerVars, sendCh, txVars>>

\* Only the poller takes files, so has_pending and take are one step.
PollerTake ==
    /\ net = "running" /\ pollPc = "poll"
    /\ pending # {}
    /\ pollBatch' = pending
    /\ pending' = {}
    /\ pollPc' = "send"
    /\ UNCHANGED <<streamVars, portal, appPeer, shutdown, queued, net, peerVars, sendCh, txVars>>

\* Mutant: an unbounded channel.
PollerSend_Unbounded ==
    /\ Up /\ pollPc = "send" /\ txPc # "done"
    /\ sendCh' = Append(sendCh, pollBatch)
    /\ pollBatch' = {}
    /\ pollPc' = "poll"
    /\ UNCHANGED <<streamVars, appVars, net, peerVars, txVars>>

\* Mutant: pending is cleared once its copy has been sent.
PollerSend_ClearsPending ==
    /\ Up /\ pollPc = "send" /\ txPc # "done"
    /\ Len(sendCh) < ChanCap
    /\ sendCh' = Append(sendCh, pollBatch)
    /\ pollBatch' = {}
    /\ pending' = {}
    /\ pollPc' = "poll"
    /\ UNCHANGED <<streamVars, portal, appPeer, shutdown, queued, net, peerVars, txVars>>

\* send(request).await: not raced with the cancellation token.
PollerSend ==
    /\ Up /\ pollPc = "send" /\ txPc # "done"
    /\ Len(sendCh) < ChanCap
    /\ sendCh' = Append(sendCh, pollBatch)
    /\ pollBatch' = {}
    /\ pollPc' = "poll"
    /\ UNCHANGED <<streamVars, appVars, net, peerVars, txVars>>

\* The receiver is gone: the request is dropped and the task ends.
PollerSendFails ==
    /\ Up /\ pollPc = "send" /\ txPc = "done"
    /\ pollBatch' = {}
    /\ pollPc' = "done"
    /\ UNCHANGED <<streamVars, appVars, net, peerVars, sendCh, txVars>>

PollerCancelled ==
    /\ net = "stopping" /\ pollPc = "poll"
    /\ pollPc' = "done"
    /\ UNCHANGED <<streamVars, appVars, net, peerVars, pollBatch, sendCh, txVars>>

Poller == PollerTake \/ PollerSend \/ PollerSendFails \/ PollerCancelled

-----------------------------------------------------------------------------
(* The transfer task: handle_send_request on one request at a time.  A        *)
(* handler is not raced with the cancellation token either.                   *)

TxStep(from, to) ==
    /\ txPc = from
    /\ txPc' = to
    /\ UNCHANGED <<streamVars, net, peerVars, pollVars>>

\* The request is dealt with, whatever became of its files.
TxDone ==
    /\ handled' = handled \union txBatch
    /\ txBatch' = {}
    /\ dest' = NoPeer /\ shown' = {}
    /\ UNCHANGED sendCh

TxReceive ==
    /\ net = "running"
    /\ TxStep("recv", "check")
    /\ sendCh # <<>>
    /\ txBatch' = Head(sendCh)
    /\ sendCh' = Tail(sendCh)
    /\ UNCHANGED <<appVars, dest, handled, shown>>

\* connected_peer().is_none(), and the write of the portal it decides.
TxCheck ==
    /\ TxStep("check", IF appPeer = NoPeer THEN "noPeer" ELSE "mark")
    /\ shown' = {appPeer} \ {NoPeer}
    /\ UNCHANGED <<appVars, sendCh, txBatch, dest, handled>>

\* Mutant: the portal is left as it was.
TxNoPeer_KeepsPortal == TxStep("noPeer", "recv") /\ TxDone /\ UNCHANGED appVars

\* Mutant: break instead of return.
TxNoPeer_EndsTask == TxStep("noPeer", "done") /\ SetPortalState("Idle") /\ TxDone

\* Mutant: the files go back to pending, to be sent when there is a peer.
TxNoPeer_Requeues ==
    /\ TxStep("noPeer", "recv")
    /\ portal' = "Idle"
    /\ pending' = pending \union txBatch
    /\ txBatch' = {}
    /\ UNCHANGED <<appPeer, shutdown, queued, sendCh, dest, handled, shown>>

TxNoPeer == TxStep("noPeer", "recv") /\ SetPortalState("Idle") /\ TxDone

TxMark == TxStep("mark", "send") /\ SetPortalState("Transferring")
                                 /\ UNCHANGED <<sendCh, txBatch, dest, handled, shown>>

\* send_files reads the transfer manager's peer, once for all its files: Err if
\* there is none by now.
TxChoose ==
    /\ TxStep("send", IF tmPeer = NoPeer THEN "failed" ELSE "files")
    /\ dest' = tmPeer
    /\ UNCHANGED <<appVars, sendCh, txBatch, handled, shown>>

\* It returns Ok with a handle per file ...
TxSendOk ==
    /\ Up
    /\ TxStep("files", "await")
    /\ UNCHANGED <<appVars, sendCh, txBatch, dest, handled, shown>>

\* ... or Err: a missing file, a ticket that cannot be made.
TxSendErr ==
    /\ Up
    /\ TxStep("files", "failed")
    /\ UNCHANGED <<appVars, sendCh, txBatch, dest, handled, shown>>

\* Mutant: the portal is not set back after the transfers.
TxFinished_KeepsPortal == Up /\ TxStep("await", "recv") /\ TxDone /\ UNCHANGED appVars

\* Every handle has reported a terminal state or closed.
TxFinished == Up /\ TxStep("await", "recv") /\ SetPortalState("Connected") /\ TxDone

TxFailed == TxStep("failed", "recv") /\ SetPortalState("Idle") /\ TxDone

\* The task ends and drops the receiver, with the requests still in the channel.
TxCancelled ==
    /\ net = "stopping"
    /\ TxStep("recv", "done")
    /\ sendCh' = <<>>
    /\ UNCHANGED <<appVars, txBatch, dest, handled, shown>>

TransferTask ==
    \/ TxReceive \/ TxCheck \/ TxNoPeer \/ TxMark \/ TxChoose
    \/ TxSendOk \/ TxSendErr \/ TxFinished \/ TxFailed \/ TxCancelled

-----------------------------------------------------------------------------
restVars == <<appVars, net, peerVars, pollVars, sendCh, txVars>>

Stream == Up /\ StreamStep /\ UNCHANGED restVars
World  == Environment /\ UNCHANGED restVars

Next == UI \/ Lifecycle \/ World \/ Stream \/ PeerTask \/ Poller \/ TransferTask

\* Tokio polls every ready task and timers fire; transfers end (QUIC's idle
\* timeout).  Nothing obliges the user, the network or the initialisation, nor
\* send_files to return: it awaits Endpoint::node_addr (transfer.rs:547).
Fairness ==
    /\ WF_vars(Cancel)
    /\ WF_vars(Stream)
    /\ WF_vars(PeerTask)
    /\ WF_vars(Poller)
    /\ WF_vars(TransferTask /\ txPc # "files")

Spec == Init /\ [][Next]_vars /\ Fairness

-----------------------------------------------------------------------------
\* Every file of S was queued before every file of T.
Before(S, T) == \A a \in S, b \in T : a < b

(***************************************************************************)
(* The file pipeline is first-in first-out and, while the network runs,    *)
(* holds every queued file in exactly one place: pending, the poller's     *)
(* request, the channel, the transfer task's request, or dealt with.       *)
(* Nothing is lost or sent twice between the UI's queue_files_for_send and *)
(* handle_send_request, whatever the UI adds in between.                   *)
(***************************************************************************)
InOrder ==
    /\ Before(handled, txBatch)
    /\ \A i \in DOMAIN sendCh : Before(handled \union txBatch, sendCh[i])
    /\ \A i, j \in DOMAIN sendCh : i < j => Before(sendCh[i], sendCh[j])
    /\ \A i \in DOMAIN sendCh : Before(sendCh[i], pollBatch \union pending)
    /\ Before(handled \union txBatch, pollBatch \union pending)
    /\ Before(pollBatch, pending)

InPipeline(f) ==
    \/ f \in handled \union txBatch \union pollBatch \union pending
    \/ \E i \in DOMAIN sendCh : f \in sendCh[i]

NoneLost == net \in {"init", "running"} => \A f \in 1 .. queued : InPipeline(f)

PipelineIsFifo == InOrder /\ NoneLost

(***************************************************************************)
(* Session implements FileQueue: however pending, the poller's request,    *)
(* the channel and the transfer task's request cut the drops up (state.rs: *)
(* 374-383, main.rs:225-287), to the user they are one queue that deals    *)
(* with every file once, in order, until the network winds down.           *)
(***************************************************************************)
InChannel == UNION {sendCh[i] : i \in DOMAIN sendCh}

Queue == INSTANCE FileQueue WITH
    Files <- AllFiles,
    dropped <- 1 .. queued,
    waiting <- txBatch \union InChannel \union pollBatch \union pending,
    dealt <- handled,
    open <- net \in {"init", "running"}

ImplementsFileQueue == Queue!QueueSafety

(***************************************************************************)
(* "Sending..." is never shown over an empty pipeline: when the portal is  *)
(* Transferring, some file is queued, in the channel or being handled,     *)
(* however the peer task's and the UI's writes of the portal interleave    *)
(* with the transfer task's (main.rs:416-462, state.rs:374-383).           *)
(***************************************************************************)
SendingIsReal ==
    (portal = "Transferring" /\ net \in {"init", "running"}) =>
        \/ pending # {} \/ pollBatch # {} \/ sendCh # <<>>
        \/ txPc # "recv"

(***************************************************************************)
(* The transfer task asks AppState whether there is a peer (main.rs:416)   *)
(* and send_files asks the transfer manager which (transfer.rs:565), while *)
(* the peer task writes the two in steps (main.rs:371-372, 393-399).  The  *)
(* files of a request still go to a peer that was on screen at some moment *)
(* between the two questions, never to one that was gone by the first.     *)
(* They go on to it when it leaves the screen for another afterwards.      *)
(***************************************************************************)
SentToShown == dest # NoPeer => dest \in shown

(***************************************************************************)
(* A connection can always still be retracted: while the stream is read,   *)
(* the connected peer is in the stream's last snapshot, or its Lost event  *)
(* is on the way.  No order of appearances, polls and handlers leaves the  *)
(* application attached to a peer it will not hear of again.               *)
(***************************************************************************)
ConnectionRetractable ==
    (rxOpen /\ appPeer # NoPeer /\ peerPc # "lostApp") => Retractable(appPeer, 0)

(***************************************************************************)
(* The network winds down only when the user quits: no task ends, and so   *)
(* cancels the others (main.rs:317-336), while the application is in use.  *)
(***************************************************************************)
NoSelfShutdown == net = "stopping" => shutdown

\* The one await of the pipeline that may never end.
SendHangs == <>[](txPc = "files")

\* Every queued file reaches the end of handle_send_request, through however
\* many full channels, while the network runs (main.rs:254-287, 225-250), unless
\* a send_files never returns.
FilesHandled ==
    \/ SendHangs
    \/ \A f \in AllFiles : (queued >= f) ~> (f \in handled \/ net # "running")

\* The portal does not stay on "Sending...": each queueing is followed by a
\* handler that ends in Connected or Idle (main.rs:419, 458, 462), unless a
\* send_files never returns.
SendingEnds ==
    \/ SendHangs
    \/ (portal = "Transferring") ~> (portal # "Transferring" \/ net # "running")

\* A connected peer that leaves for good is in the end disconnected, even if
\* the stream was blocked on a full channel when it left.
LostPeerReleased ==
    \A p \in Peers :
        <>[](p \notin visible) => <>[](appPeer # p \/ net # "running")

(***************************************************************************)
(* A peer that comes to stay gets connected and stays so, however slowly   *)
(* the stream is read.  Two things are needed for it: no other peer is     *)
(* ever seen, for a Discovered event is dropped while another peer is      *)
(* connected (main.rs:360); and this one comes once, for a peer that is    *)
(* gone at its lookup and back at the next poll is recorded as known but   *)
(* never announced (discovery.rs:347, 371).                                *)
(***************************************************************************)
SolePeerConnected ==
    \A p \in Peers :
        /\ [](visible \subseteq {p})
        /\ [](p \in visible => [](p \in visible))
        /\ <>(p \in visible)
        => <>[](appPeer = p \/ net # "running")

(***************************************************************************)
(* "Connected to a peer, ready to transfer." (state.rs:23): the portal is  *)
(* Connected only while a peer is.                                         *)
(***************************************************************************)
ConnectedMeansPeer == portal = "Connected" => appPeer # NoPeer
=============================================================================
