------------------------------ MODULE Transfer ------------------------------
(***************************************************************************)
(* TransferManager (src/net/transfer.rs) sending files to one peer, and    *)
(* the FileTransferHandler of that peer, over connections that break.      *)
(*                                                                         *)
(* send_files registers each file, makes its ticket and spawns a send      *)
(* task; the tasks of a call run concurrently.  A task opens a stream on   *)
(* the connection of the manager's own pool, or failing that on the one    *)
(* Endpoint::connect returns (which has a pool of its own), sends the      *)
(* ticket and waits, without a timeout, for the ACK.  The peer accepts the *)
(* streams of a connection one at a time, downloads, exports, acknowledges *)
(* and tells its application.  A connection may break at any time, at both *)
(* ends; the peer may restart.                                             *)
(***************************************************************************)
EXTENDS Naturals, Sequences

CONSTANTS NumTransfers, \* bound: files ever given to send_files
          MaxBatch,     \* bound: files in one call of it
          MaxConns,     \* bound: connections ever dialled
          Cancellable,  \* bound: the transfers some caller may cancel
          Downloadable, \* bound: the transfers whose ticket the peer gets otherwise
          PerPeer,      \* MAX_CONNECTIONS_PER_PEER (3 in the code)
          NameOf        \* [t]: the file name of the path, all that is sent of it

ASSUME TransferAssumption ==
    /\ NumTransfers \in Nat
    /\ MaxBatch \in Nat
    /\ MaxConns \in Nat
    /\ PerPeer \in Nat \ {0}
    /\ Cancellable \subseteq 1 .. NumTransfers
    /\ Downloadable \subseteq 1 .. NumTransfers
    /\ NameOf \in [1 .. NumTransfers -> Nat]

Transfers == 1 .. NumTransfers      \* TransferId, in the order of allocation
Conns     == 1 .. MaxConns
NoConn    == 0
Names     == {NameOf[t] : t \in Transfers}
Nothing   == 0                      \* no file of that name

VARIABLES
    sfPc,       \* send_files and its caller: "idle", "file", "ticket" or "await"
    cursor,     \* the next file of the call
    upTo,       \* the last file of the call
    handles,    \* transfers whose handle the caller holds
    pc,         \* [t]: "none", "ticket", then the steps of t's send task
    conn,       \* [t]: the connection t's task is using
    attempt,    \* [t]: 1 on the manager's pool, 2 on Endpoint::connect's answer
    result,     \* [t]: progress.state, as the task last set it
    report,     \* [t]: the last state sent to the handle
    cancelled,  \* transfers whose cancelled flag is set
    entry,      \* [t]: progress.state in the transfers map, or "absent"
    tmPool,     \* ConnectionPool's entry for the peer, or NoConn
    epPool,     \* the Endpoint pool's entries for the peer, never released
    made,       \* connections dialled so far
    alive,      \* connections that still work
    reply,      \* [t]: what the peer answered on t's current stream
    inbox,      \* [c]: streams opened on c and not yet accepted by the peer
    rxPc,       \* [c]: the handler of c: "accept" or a step of its loop
    rxReq,      \* [c]: the stream it is serving
    disk,       \* [name]: whose content the peer's download directory has there
    listening,  \* the peer's receive_loop has set on_file_received
    received    \* [t]: how often t is in the peer's AppState.received_files

sfVars   == <<sfPc, cursor, upTo, handles>>
taskVars == <<pc, conn, attempt, result, report>>
poolVars == <<tmPool, epPool, made>>
mapVars  == <<cancelled, entry>>
peerVars == <<rxPc, rxReq, disk, listening, received>>
vars == <<sfVars, taskVars, mapVars, poolVars, alive, reply, inbox, peerVars>>

Terminal == {"Completed", "Failed", "Cancelled"}
State    == {"Pending", "InProgress"} \union Terminal
TaskPc   == {"none", "ticket", "dropped", "start", "lookup", "connect", "dial",
             "try", "wait", "finish", "store", "done"}
Stream   == [transfer : Transfers, attempt : {1, 2}]
NoStream == [transfer |-> 0, attempt |-> 1]

\* active_transfers, and the TransferProgress::is_active it filters by.
ActiveTransfers == {t \in Transfers : entry[t] \in {"Pending", "InProgress"}}

Exported(t) == disk[NameOf[t]] = t

TypeOK ==
    /\ sfPc \in {"idle", "file", "ticket", "await"}
    /\ cursor \in 1 .. NumTransfers + 1
    /\ upTo \in 0 .. NumTransfers
    /\ handles \subseteq Transfers
    /\ pc \in [Transfers -> TaskPc]
    /\ conn \in [Transfers -> Conns \union {NoConn}]
    /\ attempt \in [Transfers -> {1, 2}]
    /\ result \in [Transfers -> State]
    /\ report \in [Transfers -> State]
    /\ cancelled \subseteq Transfers
    /\ entry \in [Transfers -> State \union {"absent"}]
    /\ tmPool \in Conns \union {NoConn}
    /\ epPool \in Seq(Conns) /\ Len(epPool) <= PerPeer
    /\ made \in 0 .. MaxConns
    /\ alive \subseteq 1 .. made
    /\ reply \in [Transfers -> {"none", "ack", "closed"}]
    /\ inbox \in [Conns -> Seq(Stream)]
    /\ rxPc \in [Conns -> {"accept", "download", "export", "ack", "callback"}]
    /\ rxReq \in [Conns -> Stream \union {NoStream}]
    /\ disk \in [Names -> Transfers \union {Nothing}]
    /\ listening \in BOOLEAN
    /\ received \in [Transfers -> Nat]

Init ==
    /\ sfPc = "idle" /\ cursor = 1 /\ upTo = 0 /\ handles = {}
    /\ pc = [t \in Transfers |-> "none"]
    /\ conn = [t \in Transfers |-> NoConn]
    /\ attempt = [t \in Transfers |-> 1]
    /\ result = [t \in Transfers |-> "Pending"]
    /\ report = [t \in Transfers |-> "Pending"]
    /\ cancelled = {}
    /\ entry = [t \in Transfers |-> "absent"]
    /\ tmPool = NoConn /\ epPool = <<>> /\ made = 0 /\ alive = {}
    /\ reply = [t \in Transfers |-> "none"]
    /\ inbox = [c \in Conns |-> <<>>]
    /\ rxPc = [c \in Conns |-> "accept"]
    /\ rxReq = [c \in Conns |-> NoStream]
    /\ disk = [n \in Names |-> Nothing] /\ listening = FALSE
    /\ received = [t \in Transfers |-> 0]

-----------------------------------------------------------------------------
(* send_files, called by the transfer task, which then waits on the handles.  *)

sfRest == <<conn, attempt, result, report, cancelled, poolVars, alive, reply, inbox, peerVars>>

SendFiles(n) ==
    /\ sfPc = "idle"
    /\ cursor + n <= NumTransfers + 1
    /\ upTo' = cursor + n - 1
    /\ handles' = {}
    /\ sfPc' = "file"
    /\ UNCHANGED <<cursor, pc, entry, sfRest>>

\* Err ends the call: its other files are not sent, its handles are dropped.
AbandonCall ==
    /\ sfPc' = "idle"
    /\ cursor' = upTo + 1
    /\ handles' = {}
    /\ UNCHANGED <<upTo, sfRest>>

\* send_file_to_peer: the path does not exist, or has no metadata.
FileMissing ==
    /\ sfPc = "file" /\ cursor <= upTo
    /\ AbandonCall
    /\ UNCHANGED <<pc, entry>>

\* transfers.insert with state Pending.
Register ==
    /\ sfPc = "file" /\ cursor <= upTo
    /\ entry' = [entry EXCEPT ![cursor] = "Pending"]
    /\ pc' = [pc EXCEPT ![cursor] = "ticket"]
    /\ sfPc' = "ticket"
    /\ UNCHANGED <<cursor, upTo, handles, sfRest>>

\* create_ticket(path).await? returns early: no task, and the entry stays.  Its
\* node_addr().await has no timeout, so neither this nor Spawn need ever happen.
TicketFails ==
    /\ sfPc = "ticket"
    /\ pc' = [pc EXCEPT ![cursor] = "dropped"]
    /\ AbandonCall
    /\ UNCHANGED entry

\* The ticket is made, the task spawned and the handle returned.
Spawn ==
    /\ sfPc = "ticket"
    /\ pc' = [pc EXCEPT ![cursor] = "start"]
    /\ handles' = handles \union {cursor}
    /\ cursor' = cursor + 1
    /\ sfPc' = "file"
    /\ UNCHANGED <<upTo, entry, sfRest>>

AllSpawned ==
    /\ sfPc = "file" /\ cursor > upTo
    /\ sfPc' = "await"
    /\ UNCHANGED <<cursor, upTo, handles, pc, entry, sfRest>>

\* handle_send_request has drained every handle: a terminal state or a closed
\* channel, both of which the task's last report brings.
AllReported ==
    /\ sfPc = "await"
    /\ \A t \in handles : report[t] \in Terminal
    /\ sfPc' = "idle"
    /\ UNCHANGED <<cursor, upTo, handles, pc, entry, sfRest>>

Call ==
    \/ FileMissing \/ Register \/ TicketFails \/ Spawn
    \/ AllSpawned \/ AllReported

-----------------------------------------------------------------------------
(* The send task of t.                                                        *)

TaskStep(t, from, to) ==
    /\ pc[t] = from
    /\ pc' = [pc EXCEPT ![t] = to]
    /\ UNCHANGED <<sfVars, alive, disk, listening, received, rxPc, rxReq>>

\* The first progress message.
Begin(t) ==
    /\ TaskStep(t, "start", "lookup")
    /\ result' = [result EXCEPT ![t] = "InProgress"]
    /\ report' = [report EXCEPT ![t] = "InProgress"]
    /\ UNCHANGED <<conn, attempt, mapVars, poolVars, reply, inbox>>

\* Attempt n, on connection c.
Use(t, n, c) ==
    /\ conn' = [conn EXCEPT ![t] = c]
    /\ attempt' = [attempt EXCEPT ![t] = n]
    /\ UNCHANGED <<result, report, mapVars, reply, inbox>>

\* ConnectionPool::get finds an entry that is not too old ...
PoolHit(t) ==
    /\ tmPool # NoConn
    /\ TaskStep(t, "lookup", "try")
    /\ Use(t, 1, tmPool)
    /\ UNCHANGED poolVars

\* ... or none, or one that is, which it removes.
PoolMiss(t) ==
    /\ TaskStep(t, "lookup", "connect")
    /\ tmPool' = NoConn
    /\ UNCHANGED <<conn, attempt, result, report, mapVars, epPool, made, reply, inbox>>

\* Endpoint::connect: the newest pooled connection, whatever its condition.
ConnectPooled(t) ==
    /\ epPool # <<>>
    /\ TaskStep(t, "connect", "try")
    /\ Use(t, 2, epPool[Len(epPool)])
    /\ UNCHANGED poolVars

ConnectMiss(t) ==
    /\ epPool = <<>>
    /\ TaskStep(t, "connect", "dial")
    /\ UNCHANGED <<conn, attempt, result, report, mapVars, poolVars, reply, inbox>>

\* Mutant: no limit per peer.
DialOk_NoCap(t) ==
    /\ made < MaxConns
    /\ pc[t] = "dial"
    /\ pc' = [pc EXCEPT ![t] = "try"]
    /\ made' = made + 1
    /\ alive' = alive \union {made + 1}
    /\ epPool' = Append(epPool, made + 1)
    /\ Use(t, 2, made + 1)
    /\ UNCHANGED <<sfVars, tmPool, peerVars>>

\* The dial succeeds; the pool keeps the connection if it has room by then.
DialOk(t) ==
    /\ made < MaxConns
    /\ pc[t] = "dial"
    /\ pc' = [pc EXCEPT ![t] = "try"]
    /\ made' = made + 1
    /\ alive' = alive \union {made + 1}
    /\ epPool' = IF Len(epPool) < PerPeer THEN Append(epPool, made + 1) ELSE epPool
    /\ Use(t, 2, made + 1)
    /\ UNCHANGED <<sfVars, tmPool, peerVars>>

DialFails(t) ==
    /\ TaskStep(t, "dial", "finish")
    /\ result' = [result EXCEPT ![t] = "Failed"]
    /\ UNCHANGED <<conn, attempt, report, mapVars, poolVars, reply, inbox>>

\* try_send_on_connection: open a stream, write the ticket, finish.
OpenStream(t) ==
    /\ conn[t] \in alive
    /\ TaskStep(t, "try", "wait")
    /\ inbox' = [inbox EXCEPT ![conn[t]] =
                    Append(@, [transfer |-> t, attempt |-> attempt[t]])]
    /\ reply' = [reply EXCEPT ![t] = "none"]
    /\ UNCHANGED <<conn, attempt, result, report, mapVars, poolVars>>

\* Mutant: a stream the peer drops is not an error.
AttemptError_OnlyDead(t) == pc[t] \in {"try", "wait"} /\ conn[t] \notin alive

\* An error of open_bi, write_all or read_exact.
AttemptError(t) ==
    \/ pc[t] = "try" /\ conn[t] \notin alive
    \/ pc[t] = "wait" /\ (conn[t] \notin alive \/ reply[t] = "closed")

\* The first attempt fails: drop the peer's pool entry, go and connect.
Retry(t) ==
    /\ AttemptError(t) /\ attempt[t] = 1
    /\ TaskStep(t, pc[t], "connect")
    /\ tmPool' = NoConn
    /\ UNCHANGED <<conn, attempt, result, report, mapVars, epPool, made, reply, inbox>>

\* The second one fails: so does the transfer.
GiveUp(t) ==
    /\ AttemptError(t) /\ attempt[t] = 2
    /\ TaskStep(t, pc[t], "finish")
    /\ result' = [result EXCEPT ![t] = "Failed"]
    /\ UNCHANGED <<conn, attempt, report, mapVars, poolVars, reply, inbox>>

\* ACK: complete, and keep the connection for the next transfer.
Acked(t) ==
    /\ reply[t] = "ack"
    /\ TaskStep(t, "wait", "finish")
    /\ result' = [result EXCEPT ![t] = "Completed"]
    /\ tmPool' = conn[t]
    /\ UNCHANGED <<conn, attempt, report, mapVars, epPool, made, reply, inbox>>

\* Read the cancelled flag, then send the last progress message.
Finish(t) ==
    LET final == IF t \in cancelled THEN "Cancelled" ELSE result[t]
    IN  /\ TaskStep(t, "finish", "store")
        /\ result' = [result EXCEPT ![t] = final]
        /\ report' = [report EXCEPT ![t] = final]
        /\ UNCHANGED <<conn, attempt, mapVars, poolVars, reply, inbox>>

\* Mutant: the flag is read again, and the handle told again.
Store_ReportsAgain(t) ==
    LET final == IF t \in cancelled THEN "Cancelled" ELSE result[t]
    IN  /\ TaskStep(t, "store", "done")
        /\ entry' = [entry EXCEPT ![t] = IF @ = "absent" THEN @ ELSE final]
        /\ result' = [result EXCEPT ![t] = final]
        /\ report' = [report EXCEPT ![t] = final]
        /\ UNCHANGED <<conn, attempt, reply, cancelled, poolVars, inbox>>

\* transfers.get_mut: overwrite the entry's progress, if there still is one.
\* The task ends, and its connection handle and stream with it.
Store(t) ==
    /\ TaskStep(t, "store", "done")
    /\ entry' = [entry EXCEPT ![t] = IF @ = "absent" THEN @ ELSE result[t]]
    /\ conn' = [conn EXCEPT ![t] = NoConn]
    /\ attempt' = [attempt EXCEPT ![t] = 1]
    /\ reply' = [reply EXCEPT ![t] = "none"]
    /\ UNCHANGED <<result, report, cancelled, poolVars, inbox>>

SendTask(t) ==
    \/ Begin(t) \/ PoolHit(t) \/ PoolMiss(t)
    \/ ConnectPooled(t) \/ ConnectMiss(t) \/ DialOk(t) \/ DialFails(t)
    \/ OpenStream(t) \/ Retry(t) \/ GiveUp(t) \/ Acked(t)
    \/ Finish(t) \/ Store(t)

-----------------------------------------------------------------------------
(* Callers of the public API, and the periodic work of receive_loop.          *)

apiRest == <<sfVars, taskVars, epPool, made, alive, reply, inbox, peerVars>>

\* cancel_transfer: under the entry's lock, the flag and the entry's state.
CancelTransfer(t) ==
    /\ entry[t] # "absent"
    /\ cancelled' = cancelled \union {t}
    /\ entry' = [entry EXCEPT ![t] = "Cancelled"]
    /\ UNCHANGED <<tmPool, apiRest>>

\* TransferHandle::cancel: the flag alone.
CancelHandle(t) ==
    /\ t \in handles
    /\ cancelled' = cancelled \union {t}
    /\ UNCHANGED <<tmPool, entry, apiRest>>

\* cleanup_stale, with the entry old enough.
CleanupStale ==
    /\ tmPool # NoConn
    /\ tmPool' = NoConn
    /\ UNCHANGED <<mapVars, apiRest>>

\* Mutant: retain only what is InProgress.
CleanupFinished_DropsPending ==
    /\ entry' = [t \in Transfers |-> IF entry[t] = "InProgress" THEN entry[t] ELSE "absent"]
    /\ UNCHANGED <<tmPool, cancelled, apiRest>>

\* cleanup_finished: retain what is active.
CleanupFinished ==
    /\ entry' = [t \in Transfers |-> IF t \in ActiveTransfers THEN entry[t] ELSE "absent"]
    /\ UNCHANGED <<tmPool, cancelled, apiRest>>

Api ==
    \/ \E t \in Cancellable : CancelTransfer(t) \/ CancelHandle(t)
    \/ CleanupStale \/ CleanupFinished

-----------------------------------------------------------------------------
(* The peer: one handler per connection.                                      *)

PeerStep(c, from, to, req) ==
    /\ rxPc[c] = from
    /\ rxPc' = [rxPc EXCEPT ![c] = to]
    /\ rxReq' = [rxReq EXCEPT ![c] = req]
    /\ UNCHANGED <<sfVars, taskVars, mapVars, poolVars, alive>>

\* The peer's end of the stream answers r; the task hears it only if the
\* stream is still the one it waits on and the connection works.
Answer(c, r) ==
    LET t == rxReq[c].transfer
    IN  reply' = IF c \in alive /\ conn[t] = c /\ attempt[t] = rxReq[c].attempt
                 THEN [reply EXCEPT ![t] = r]
                 ELSE reply

\* Mutant: a request is served again and again, for it is never taken out.
Accept_KeepsRequest(c) ==
    /\ inbox[c] # <<>>
    /\ PeerStep(c, "accept", "download", Head(inbox[c]))
    /\ UNCHANGED <<reply, inbox, disk, listening, received>>

\* accept_bi and read_to_end.
Accept(c) ==
    /\ inbox[c] # <<>>
    /\ PeerStep(c, "accept", "download", Head(inbox[c]))
    /\ inbox' = [inbox EXCEPT ![c] = Tail(@)]
    /\ UNCHANGED <<reply, disk, listening, received>>

\* Mutant: the failed stream is kept open.
RequestFails_KeepsStream(c) ==
    /\ rxPc[c] \in {"download", "export"}
    /\ PeerStep(c, rxPc[c], "accept", NoStream)
    /\ UNCHANGED <<reply, inbox, disk, listening, received>>

\* read_to_end, the download or the export fails: the stream is dropped.  A file
\* that is there already is taken to survive a failed export over it.
RequestFails(c) ==
    /\ rxPc[c] \in {"download", "export"}
    /\ PeerStep(c, rxPc[c], "accept", NoStream)
    /\ Answer(c, "closed")
    /\ UNCHANGED <<inbox, disk, listening, received>>

\* Mutant: acknowledged before it is exported.
Download_AcksAtOnce(c) ==
    /\ PeerStep(c, "download", "export", rxReq[c])
    /\ Answer(c, "ack")
    /\ UNCHANGED <<inbox, disk, listening, received>>

\* The blob comes over a connection of its own, so c need not be alive.
Download(c) ==
    /\ PeerStep(c, "download", "export", rxReq[c])
    /\ UNCHANGED <<reply, inbox, disk, listening, received>>

\* ExportMode::Copy to download_dir.join(file_name), over what is there.
Export(c) ==
    LET t == rxReq[c].transfer
    IN  /\ PeerStep(c, "export", "ack", rxReq[c])
        /\ disk' = [disk EXCEPT ![NameOf[t]] = t]
        /\ UNCHANGED <<reply, inbox, listening, received>>

\* Mutant: the handler forgets the callback.
Ack_NoCallback(c) ==
    /\ PeerStep(c, "ack", "accept", NoStream)
    /\ Answer(c, "ack")
    /\ UNCHANGED <<inbox, disk, listening, received>>

\* write_all of the ACK succeeds, on a broken connection perhaps in vain.
Ack(c) ==
    /\ PeerStep(c, "ack", "callback", rxReq[c])
    /\ Answer(c, "ack")
    /\ UNCHANGED <<inbox, disk, listening, received>>

\* It fails: the application is not told.
AckFails(c) ==
    /\ c \notin alive
    /\ PeerStep(c, "ack", "accept", NoStream)
    /\ UNCHANGED <<reply, inbox, disk, listening, received>>

\* The application's list of received files gets one more.
AddReceivedFile(t) == received' = [received EXCEPT ![t] = @ + 1]

\* on_file_received, if it is set by now.
Callback(c) ==
    /\ PeerStep(c, "callback", "accept", NoStream)
    /\ IF listening THEN AddReceivedFile(rxReq[c].transfer) ELSE UNCHANGED received
    /\ UNCHANGED <<reply, inbox, disk, listening>>

\* accept_bi reports the broken connection: the handler ends, and the streams
\* it had not accepted with it.
HandlerEnds(c) ==
    /\ c \notin alive
    /\ inbox[c] # <<>>
    /\ PeerStep(c, "accept", "accept", NoStream)
    /\ inbox' = [inbox EXCEPT ![c] = <<>>]
    /\ UNCHANGED <<reply, disk, listening, received>>

Handler(c) ==
    \/ Accept(c) \/ RequestFails(c) \/ Download(c) \/ Export(c)
    \/ Ack(c) \/ AckFails(c) \/ Callback(c) \/ HandlerEnds(c)

\* download_from_ticket: the peer's application downloads and exports a ticket
\* that it got by other means, and lists nothing.
DownloadFromTicket(t) ==
    /\ pc[t] \notin {"none", "ticket", "dropped"}
    /\ disk' = [disk EXCEPT ![NameOf[t]] = t]
    /\ UNCHANGED <<sfVars, taskVars, mapVars, poolVars, alive, reply, inbox,
                   rxPc, rxReq, listening, received>>

\* receive_loop starts after the router has begun to accept.
Listen ==
    /\ ~listening
    /\ listening' = TRUE
    /\ UNCHANGED <<sfVars, taskVars, mapVars, poolVars, alive, reply, inbox,
                   rxPc, rxReq, disk, received>>

-----------------------------------------------------------------------------
\* The network breaks one connection, noticed at both ends (QUIC idle timeout).
Break(c) ==
    /\ c \in alive
    /\ alive' = alive \ {c}
    /\ UNCHANGED <<sfVars, taskVars, mapVars, poolVars, reply, inbox, peerVars>>

\* The peer's process restarts: only its download directory survives.
PeerRestarts ==
    /\ listening
    /\ alive' = {}
    /\ inbox' = [c \in Conns |-> <<>>]
    /\ rxPc' = [c \in Conns |-> "accept"]
    /\ rxReq' = [c \in Conns |-> NoStream]
    /\ listening' = FALSE
    /\ received' = [t \in Transfers |-> 0]
    /\ UNCHANGED <<sfVars, taskVars, mapVars, poolVars, reply, disk>>

Next ==
    \/ \E n \in 1 .. MaxBatch : SendFiles(n)
    \/ Call
    \/ \E t \in Transfers : SendTask(t)
    \/ Api
    \/ \E c \in Conns : Handler(c) \/ Break(c)
    \/ \E t \in Downloadable : DownloadFromTicket(t)
    \/ Listen
    \/ PeerRestarts

\* Tokio runs every ready task; imports, dials, downloads and exports end in
\* success or failure.  Nothing obliges a caller, the network or the peer's start,
\* nor Iroh to tell create_ticket our address (transfer.rs:547, endpoint.rs:587).
Fairness ==
    /\ WF_vars(Call /\ sfPc # "ticket")
    /\ \A t \in Transfers : WF_vars(SendTask(t))
    /\ \A c \in Conns : WF_vars(Handler(c))

Spec == Init /\ [][Next]_vars /\ Fairness

-----------------------------------------------------------------------------
Running == {"start", "lookup", "connect", "dial", "try", "wait", "finish"}

(***************************************************************************)
(* A transfer reported, stored or about to be reported as Completed is in  *)
(* the peer's download directory: no ACK of another stream, of an earlier  *)
(* attempt on the same connection or of another transfer is taken for its  *)
(* own (transfer.rs:690-701, 357-388).                                     *)
(***************************************************************************)
CompletedIsExported ==
    \A t \in Transfers :
        "Completed" \in {result[t], report[t], entry[t]} => Exported(t)

(***************************************************************************)
(* The retry duplicates a file at most once: when the ACK of the first     *)
(* attempt is lost the receiving application may list the file twice,      *)
(* never more (transfer.rs:710-731).                                       *)
(***************************************************************************)
AtMostTwice == \A t \in Transfers : received[t] <= 2

(***************************************************************************)
(* Nobody waits in vain: read_exact has no timeout (transfer.rs:690-693),  *)
(* so a task that waits on a connection that works, and has no answer yet, *)
(* needs its stream to be with the peer still: not accepted, or in the     *)
(* hands of a handler that has not answered it, and no longer if that      *)
(* handler fails, or the connection was another's and is dialled again.    *)
(***************************************************************************)
Served(t) ==
    LET c == conn[t]
        s == [transfer |-> t, attempt |-> attempt[t]]
    IN  \/ \E i \in 1 .. Len(inbox[c]) : inbox[c][i] = s
        \/ rxPc[c] \in {"download", "export", "ack"} /\ rxReq[c] = s

NoneStranded ==
    \A t \in Transfers :
        pc[t] = "wait" => conn[t] \notin alive \/ reply[t] # "none" \/ Served(t)

(***************************************************************************)
(* active_transfers tells what runs: the map's entry and the task's own    *)
(* progress are two copies (transfer.rs:619, 753, 883).  A transfer that   *)
(* nobody cancelled is active while its task runs, whenever the periodic   *)
(* cleanup looks; and one that is active has a task, unless its ticket     *)
(* failed, which leaves an entry that no cleanup drops.                    *)
(***************************************************************************)
ActiveIsRunning ==
    \A t \in Transfers :
        /\ pc[t] \in Running /\ t \notin cancelled => t \in ActiveTransfers
        /\ t \in ActiveTransfers => pc[t] \in Running \union {"ticket", "dropped", "store"}

\* The peer exports and acknowledges t before receive_loop has set the callback
\* (transfer.rs:480 accepts, 828-829 sets it).
Unheard(t) ==
    ~listening /\ \E c \in Conns : rxPc[c] = "callback" /\ rxReq[c].transfer = t

Restarts == listening /\ <>~listening

(***************************************************************************)
(* A file acknowledged to its sender gets into the list of the receiving   *)
(* application, although the ACK is written before the callback runs and   *)
(* the connection may break between the two: unless the application        *)
(* restarts, the transfer is told it failed or was cancelled, or the       *)
(* handler was done before receive_loop had set the callback; such a file  *)
(* is in the download directory and never listed.                          *)
(***************************************************************************)
AcknowledgedIsShown ==
    \A t \in Transfers :
        (pc[t] = "start") ~>
            \/ received[t] > 0
            \/ report[t] \in {"Failed", "Cancelled"}
            \/ Unheard(t)
            \/ Restarts

\* The one await of send_files itself that may never end.
TicketHangs == <>[](sfPc = "ticket")

\* send_files and the caller's wait on its handles end, although no read has a
\* timeout: every stream is answered, dropped, or breaks with its connection.  A
\* ticket that is never made is the exception (transfer.rs:547, no timeout).
CallEnds == TicketHangs \/ ((sfPc # "idle") ~> (sfPc = "idle"))

(***************************************************************************)
(* Transfer implements Delivery: what the handle is told, against what the *)
(* peer has on disk.                                                       *)
(***************************************************************************)
Outcome(t) ==
    IF report[t] \in Terminal THEN report[t]
    ELSE IF pc[t] \in {"none", "ticket", "dropped"} THEN "none"
    ELSE "started"

Abstract == INSTANCE Delivery WITH
    Files <- Transfers,
    outcome <- [t \in Transfers |-> Outcome(t)],
    delivered <- {t \in Transfers : Exported(t)}

ImplementsDelivery == Abstract!DeliverySafety

\* ... and each started transfer does come to its outcome.
EveryTransferConcludes == Abstract!DeliverySpec

(***************************************************************************)
(* "A received file that's ready to be dragged to a destination."          *)
(* (state.rs:77): what the receiving application lists is in its download  *)
(* directory, under the name it lists.                                     *)
(***************************************************************************)
ShownIsOnDisk == \A t \in Transfers : received[t] > 0 => Exported(t)
=============================================================================
