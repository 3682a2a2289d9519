----------------------------- MODULE PeerStream -----------------------------
(***************************************************************************)
(* Discovery::peer_stream (src/net/discovery.rs): a spawned task that      *)
(* polls Iroh's table of remote nodes once a second, compares it with the  *)
(* previous poll and sends one PeerEvent per difference over a bounded     *)
(* mpsc channel.  A poll is not atomic: the table changes between the      *)
(* snapshot, the lookup of each new peer, and each (possibly blocking)     *)
(* send.  The receiver belongs to the peer task of Session.tla.            *)
(***************************************************************************)
EXTENDS Naturals, Sequences

CONSTANTS Peers,      \* node ids other than our own
          EventCap    \* capacity of the event channel (128 in the code)

ASSUME EventCapAssumption == EventCap \in Nat \ {0}

VARIABLES visible,    \* peers with an address in Iroh's table (environment)
          lastPeers,  \* last_peers: the snapshot of the previous round
          current,    \* current_peers: the snapshot of this round
          fresh,      \* peers of current \ lastPeers still to be announced
          gone,       \* peers of lastPeers \ current still to be announced
          streamPc,   \* "poll", "announce" or "stopped"
          events,     \* the event channel
          rxOpen      \* the receiving half has not been dropped

streamVars == <<visible, lastPeers, current, fresh, gone, streamPc, events, rxOpen>>

Discovered(p) == [kind |-> "Discovered", peer |-> p]
Lost(p)       == [kind |-> "Lost", peer |-> p]
PeerEvent     == [kind : {"Discovered", "Lost"}, peer : Peers]

StreamTypeOK ==
    /\ visible \subseteq Peers
    /\ lastPeers \subseteq Peers
    /\ current \subseteq Peers
    /\ fresh \subseteq Peers
    /\ gone \subseteq Peers
    /\ streamPc \in {"poll", "announce", "stopped"}
    /\ events \in Seq(PeerEvent)
    /\ Len(events) <= EventCap
    /\ rxOpen \in BOOLEAN

StreamInit ==
    /\ visible \in SUBSET Peers
    /\ lastPeers = {} /\ current = {} /\ fresh = {} /\ gone = {}
    /\ streamPc = "poll"
    /\ events = <<>>
    /\ rxOpen = TRUE

-----------------------------------------------------------------------------
\* Iroh's mDNS adds a node's addresses to the table, or drops the last of them.
Appear(p) ==
    /\ p \notin visible
    /\ visible' = visible \union {p}
    /\ UNCHANGED <<lastPeers, current, fresh, gone, streamPc, events, rxOpen>>

Vanish(p) ==
    /\ p \in visible
    /\ visible' = visible \ {p}
    /\ UNCHANGED <<lastPeers, current, fresh, gone, streamPc, events, rxOpen>>

\* The snapshot that opens a round.
Poll ==
    /\ streamPc = "poll"
    /\ current' = visible
    /\ fresh' = visible \ lastPeers
    /\ gone' = lastPeers \ visible
    /\ streamPc' = "announce"
    /\ UNCHANGED <<visible, lastPeers, events, rxOpen>>

\* tx.send(e).await: waits for room; fails, and ends the task, without a receiver.
Emit(e) ==
    IF rxOpen
    THEN /\ Len(events) < EventCap
         /\ events' = Append(events, e)
         /\ UNCHANGED streamPc
    ELSE /\ streamPc' = "stopped"
         /\ UNCHANGED events

\* remote_info(p) is Some: certain while p is in the table, possible afterwards.
AnnounceFresh(p) ==
    /\ streamPc = "announce"
    /\ p \in fresh
    /\ Emit(Discovered(p))
    /\ fresh' = fresh \ {p}
    /\ UNCHANGED <<visible, lastPeers, current, gone, rxOpen>>

\* remote_info(p) is None: p left the table after the snapshot; no event.
SkipFresh(p) ==
    /\ streamPc = "announce"
    /\ p \in fresh \ visible
    /\ fresh' = fresh \ {p}
    /\ UNCHANGED <<visible, lastPeers, current, gone, streamPc, events, rxOpen>>

\* Mutant: try_send, with the error ignored.
AnnounceLost_TrySend(p) ==
    /\ streamPc = "announce"
    /\ fresh = {}
    /\ p \in gone
    /\ events' = IF Len(events) < EventCap THEN Append(events, Lost(p)) ELSE events
    /\ gone' = gone \ {p}
    /\ UNCHANGED <<visible, lastPeers, current, fresh, streamPc, rxOpen>>

\* The second loop, entered when every fresh peer has been dealt with.
AnnounceLost(p) ==
    /\ streamPc = "announce"
    /\ fresh = {}
    /\ p \in gone
    /\ Emit(Lost(p))
    /\ gone' = gone \ {p}
    /\ UNCHANGED <<visible, lastPeers, current, fresh, rxOpen>>

\* Mutant: last_peers is not updated.
EndRound_KeepsLast ==
    /\ streamPc = "announce"
    /\ fresh = {} /\ gone = {}
    /\ streamPc' = "poll"
    /\ UNCHANGED <<visible, lastPeers, current, fresh, gone, events, rxOpen>>

\* Mutant: the task returns after a round without peers.
EndRound_StopsWhenEmpty ==
    /\ streamPc = "announce"
    /\ fresh = {} /\ gone = {}
    /\ lastPeers' = current
    /\ streamPc' = IF current = {} THEN "stopped" ELSE "poll"
    /\ UNCHANGED <<visible, current, fresh, gone, events, rxOpen>>

\* last_peers = current_peers, then one second of sleep.
EndRound ==
    /\ streamPc = "announce"
    /\ fresh = {} /\ gone = {}
    /\ lastPeers' = current
    /\ streamPc' = "poll"
    /\ UNCHANGED <<visible, current, fresh, gone, events, rxOpen>>

Environment == \E p \in Peers : Appear(p) \/ Vanish(p)

StreamStep ==
    \/ Poll
    \/ \E p \in Peers : AnnounceFresh(p) \/ SkipFresh(p) \/ AnnounceLost(p)
    \/ EndRound

\* The receiving half: recv() of the next event, and its drop.
Receive(e) ==
    /\ rxOpen
    /\ events # <<>>
    /\ e = Head(events)
    /\ events' = Tail(events)
    /\ UNCHANGED <<visible, lastPeers, current, fresh, gone, streamPc, rxOpen>>

Close ==
    /\ rxOpen
    /\ rxOpen' = FALSE
    /\ events' = <<>>
    /\ UNCHANGED <<visible, lastPeers, current, fresh, gone, streamPc>>

-----------------------------------------------------------------------------
\* The peers the stream's reader will believe in once it has read every event.
Known == IF streamPc = "poll" THEN lastPeers ELSE current

(***************************************************************************)
(* Two Discovered events of the same peer always have a Lost between them  *)
(* in the channel: a reader can never be told twice that a peer arrived    *)
(* (the difference against last_peers in discovery.rs).                    *)
(***************************************************************************)
NoDoubleDiscovery ==
    \A i, j \in DOMAIN events :
        (i < j /\ events[i].kind = "Discovered" /\ events[j] = events[i])
            => \E k \in i+1 .. j-1 : events[k] = Lost(events[i].peer)

\* p's last Discovered event still holds, or a Lost(p) is yet to be sent or
\* sits in the channel after position i.
Retractable(p, i) ==
    \/ p \in Known \ fresh
    \/ p \in gone
    \/ \E k \in i+1 .. Len(events) : events[k] = Lost(p)

(***************************************************************************)
(* A Discovered event whose peer has left, or left and come back, is always *)
(* followed by its Lost event, in the channel or still to be sent in this  *)
(* round: a reader that acts on stale news is told so.                     *)
(***************************************************************************)
StaleNewsCorrected ==
    \A i \in DOMAIN events :
        events[i].kind = "Discovered" => Retractable(events[i].peer, i)
=============================================================================
