--------------------------- MODULE DiscoveryCache ---------------------------
(***************************************************************************)
(* The peer cache of Discovery (src/net/discovery.rs): a list of peers     *)
(* with a time to live, behind a RwLock, in front of Iroh's table of       *)
(* remote nodes.  Its callers are threads that hold no lock between the    *)
(* check of the cache, the query of the table and the store of the answer, *)
(* so a query may be stored long after it was made, and after a newer one. *)
(* iter_peers, peer_count and has_peers take the steps of known_peers, and *)
(* answer the list, its length, or whether that is zero.                   *)
(***************************************************************************)
EXTENDS Naturals, FiniteSets

CONSTANTS Peers,     \* node ids other than our own
          Me,        \* our_node_id
          Callers,   \* threads that call the operations of Discovery
          TTL        \* the cache's time to live, in ticks of the clock

ASSUME CacheAssumption ==
    /\ Me \notin Peers
    /\ TTL \in Nat \ {0}

Nodes == Peers \union {Me}
Ops   == {"known_peers", "known_peers_fresh", "get_peer"}
NoOp  == "none"

VARIABLES
    table,    \* the nodes of Iroh's table that have an address (environment)
    cached,   \* PeerCache.peers
    age,      \* ticks since PeerCache.last_updated, up to TTL
    pc,       \* [c]: "idle", "check", "query", "store", "lookup" or "done"
    op,       \* [c]: the operation called
    arg,      \* [c]: the node get_peer is asked for (Me for the others)
    got,      \* [c]: the peers its query found, or its answer
    \* What the properties speak of, and no step depends on:
    always,   \* [c]: nodes in the table all through c's direct call so far
    ever,     \* [c]: nodes in the table at some moment of it
    uptime,   \* ticks since the cache was made, up to TTL
    origin,   \* the query that cached comes from: "none", or "before" or
              \* "after" the last invalidate_cache
    early,    \* callers whose query was made before the last invalidation
    overlap   \* some query had been made and not stored at that invalidation

cacheVars  == <<cached, age>>
callVars   == <<pc, op, arg, got>>
recordVars == <<always, ever, uptime, origin, early, overlap>>
vars == <<table, cacheVars, callVars, recordVars>>

TypeOK ==
    /\ table \subseteq Nodes
    /\ cached \subseteq Peers
    /\ age \in 0 .. TTL
    /\ pc \in [Callers -> {"idle", "check", "query", "store", "lookup", "done"}]
    /\ op \in [Callers -> Ops \union {NoOp}]
    /\ arg \in [Callers -> Nodes]
    /\ got \in [Callers -> SUBSET Nodes]
    /\ always \in [Callers -> SUBSET Nodes]
    /\ ever \in [Callers -> SUBSET Nodes]
    /\ uptime \in 0 .. TTL
    /\ origin \in {"none", "before", "after"}
    /\ early \subseteq Callers
    /\ overlap \in BOOLEAN

\* PeerCache::new: an empty list, as old as now.
Init ==
    /\ table \in SUBSET Nodes
    /\ cached = {} /\ age = 0
    /\ pc = [c \in Callers |-> "idle"]
    /\ op = [c \in Callers |-> NoOp]
    /\ arg = [c \in Callers |-> Me]
    /\ got = [c \in Callers |-> {}]
    /\ always = [c \in Callers |-> {}]
    /\ ever = [c \in Callers |-> {}]
    /\ uptime = 0 /\ origin = "none" /\ early = {} /\ overlap = FALSE

-----------------------------------------------------------------------------
(* The table and the clock.                                                   *)

\* The operations that promise to look past the cache.
Direct(o) == o \in {"known_peers_fresh", "get_peer"}

\* The table becomes T, under every call in progress.
Change(T) ==
    /\ table' = T
    /\ always' = [c \in Callers |-> always[c] \intersect T]
    /\ ever' = [c \in Callers |-> IF Direct(op[c]) /\ pc[c] # "done"
                                  THEN ever[c] \union T ELSE ever[c]]
    /\ UNCHANGED <<cacheVars, callVars, uptime, origin, early, overlap>>

\* A peer gains its first address, or loses the last one.
Appear(n) == n \notin table /\ Change(table \union {n})
Vanish(n) == n \in table /\ Change(table \ {n})

Tick ==
    /\ age < TTL \/ uptime < TTL
    /\ age' = IF age < TTL THEN age + 1 ELSE TTL
    /\ uptime' = IF uptime < TTL THEN uptime + 1 ELSE TTL
    /\ UNCHANGED <<table, cached, callVars, always, ever, origin, early, overlap>>

-----------------------------------------------------------------------------
(* The calls.                                                                 *)

\* PeerCache::is_stale, negated.
Fresh == age < TTL

\* The cached list answers o, asked for n: get_peer needs n itself to be in it.
Answers(o, n) == Fresh /\ (o = "get_peer" => n \in cached)

\* Mutant: our own announcement is taken for a peer's.
QueryPeers_WithUs == table

\* query_peers: the nodes with an address, without ourselves.
QueryPeers == table \ {Me}

\* Mutant: known_peers_fresh looks into the cache first.
FirstStep_AlwaysCache(o) == "check"

FirstStep(o) == IF o = "known_peers_fresh" THEN "query" ELSE "check"

\* A call begins; iter_peers, has_peers and peer_count go as known_peers does.
Begin(c, o, n) ==
    /\ pc[c] = "idle"
    /\ o = "get_peer" \/ n = Me
    /\ pc' = [pc EXCEPT ![c] = FirstStep(o)]
    /\ op' = [op EXCEPT ![c] = o]
    /\ arg' = [arg EXCEPT ![c] = n]
    /\ always' = [always EXCEPT ![c] = IF Direct(o) THEN table ELSE {}]
    /\ ever' = [ever EXCEPT ![c] = IF Direct(o) THEN table ELSE {}]
    /\ UNCHANGED <<table, cacheVars, got, uptime, origin, early, overlap>>

\* A step of c's call, after which it holds S.
CallStep(c, from, to, S) ==
    /\ pc[c] = from
    /\ pc' = [pc EXCEPT ![c] = to]
    /\ got' = [got EXCEPT ![c] = S]
    /\ UNCHANGED <<table, op, arg, always, ever, uptime, overlap>>

\* Mutant: what is asked for is kept alive.
Hit_Touches(c) ==
    /\ Answers(op[c], arg[c])
    /\ CallStep(c, "check", "done", IF op[c] = "get_peer" THEN {arg[c]} ELSE cached)
    /\ age' = 0
    /\ UNCHANGED <<cached, origin, early>>

\* Under the read lock, the cache answers ...
Hit(c) ==
    /\ Answers(op[c], arg[c])
    /\ CallStep(c, "check", "done", IF op[c] = "get_peer" THEN {arg[c]} ELSE cached)
    /\ UNCHANGED <<cacheVars, origin, early>>

\* ... or it does not, and the lock is released.
Miss(c) ==
    /\ ~Answers(op[c], arg[c])
    /\ CallStep(c, "check", IF op[c] = "get_peer" THEN "lookup" ELSE "query", got[c])
    /\ UNCHANGED <<cacheVars, origin, early>>

Query(c) ==
    /\ CallStep(c, "query", "store", QueryPeers)
    /\ early' = early \ {c}
    /\ UNCHANGED <<cacheVars, origin>>

\* Under the write lock, PeerCache::update with what the query found: however
\* old that is by now, it counts as new.
Store(c) ==
    /\ CallStep(c, "store", "done", got[c])
    /\ cached' = got[c]
    /\ age' = 0
    /\ origin' = IF c \in early THEN "before" ELSE "after"
    /\ early' = early \ {c}

\* get_peer asks the table for its node, our own not excepted.
Lookup(c) ==
    /\ CallStep(c, "lookup", "done", {arg[c]} \intersect table)
    /\ UNCHANGED <<cacheVars, origin, early>>

\* The caller has its answer.
Return(c) ==
    /\ pc[c] = "done"
    /\ pc' = [pc EXCEPT ![c] = "idle"]
    /\ op' = [op EXCEPT ![c] = NoOp]
    /\ arg' = [arg EXCEPT ![c] = Me]
    /\ got' = [got EXCEPT ![c] = {}]
    /\ always' = [always EXCEPT ![c] = {}]
    /\ ever' = [ever EXCEPT ![c] = {}]
    /\ UNCHANGED <<table, cacheVars, uptime, origin, early, overlap>>

\* Mutant: the list is cleared, and stays as young as it was.
InvalidateCache_KeepsTime ==
    /\ cached' = {}
    /\ origin' = IF origin = "none" THEN "none" ELSE "before"
    /\ early' = {c \in Callers : pc[c] = "store"}
    /\ overlap' = (early' # {})
    /\ UNCHANGED <<table, age, callVars, always, ever, uptime>>

\* invalidate_cache, by anyone: last_updated is set further back than the TTL;
\* the list itself is kept.
InvalidateCache ==
    /\ age' = TTL
    /\ origin' = IF origin = "none" THEN "none" ELSE "before"
    /\ early' = {c \in Callers : pc[c] = "store"}
    /\ overlap' = (early' # {})
    /\ UNCHANGED <<table, cached, callVars, always, ever, uptime>>

Proceed(c) == Hit(c) \/ Miss(c) \/ Query(c) \/ Store(c) \/ Lookup(c) \/ Return(c)

Next ==
    \/ \E p \in Peers : Appear(p) \/ Vanish(p)
    \/ Tick
    \/ \E c \in Callers :
          (\E o \in Ops, n \in Nodes : Begin(c, o, n)) \/ Proceed(c)
    \/ InvalidateCache

\* Time passes and a thread that is in a call goes on; no lock is held for long.
\* Nothing obliges a thread to call, or the network to keep still.
Fairness == WF_vars(Tick) /\ \A c \in Callers : WF_vars(Proceed(c))

Spec == Init /\ [][Next]_vars /\ Fairness

-----------------------------------------------------------------------------
(***************************************************************************)
(* As long as the cache answers, what it answers comes from a query made   *)
(* after the last invalidate_cache, with two exceptions: a query that was  *)
(* in flight at that invalidation and was stored after it, and the empty   *)
(* list of a new cache, which answers for no longer than one TTL           *)
(* (discovery.rs:110-139, 226-239, 251-254).                               *)
(***************************************************************************)
FreshIsJustified ==
    Fresh =>
        /\ origin = "before" => overlap
        /\ origin = "none" => uptime < TTL

(***************************************************************************)
(* The calls that promise to go past the cache do: known_peers_fresh omits *)
(* no peer that was there all through the call and adds none that was      *)
(* there at no moment of it, and get_peer does not miss a node that was    *)
(* there all along, whatever the cache holds and other callers store       *)
(* (discovery.rs:241-247, 291-321).                                        *)
(***************************************************************************)
DirectAnswers ==
    \A c \in Callers : pc[c] = "done" =>
        /\ op[c] = "known_peers_fresh" =>
              always[c] \ {Me} \subseteq got[c] /\ got[c] \subseteq ever[c]
        /\ op[c] = "get_peer" => (arg[c] \in always[c] => got[c] = {arg[c]})

\* Some thread goes on asking for the list.
Asked == \E c \in Callers : pc[c] = "check" /\ op[c] = "known_peers"

(***************************************************************************)
(* The cache converges: a peer that stays is in the end always in the      *)
(* list, and one that is gone never, if anyone keeps asking, although a    *)
(* hit refreshes nothing and queries may be stored in another order than   *)
(* they were made in (discovery.rs:222-239).                               *)
(***************************************************************************)
CacheConverges ==
    \A p \in Peers :
        /\ (<>[](p \in table) /\ []<>Asked) => <>[](p \in cached)
        /\ (<>[](p \notin table) /\ []<>Asked) => <>[](p \notin cached)
=============================================================================
