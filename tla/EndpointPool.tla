---------------------------- MODULE EndpointPool ----------------------------
(***************************************************************************)
(* The connection pool of Endpoint (src/net/endpoint.rs) and the two       *)
(* operations that use it, connect and get_pooled_connection, called by    *)
(* several tasks.  Every pool operation runs under one async mutex, and so *)
(* is one step; a call of several operations interleaves with others, and  *)
(* a dropped PooledConnection is returned by a task spawned for it.        *)
(*                                                                         *)
(* A pool entry is its connection_id.  The Vec of a peer is the set of its *)
(* entries in the order of their ids: add pushes a new, larger id, and get *)
(* pushes back the one it popped.                                          *)
(***************************************************************************)
EXTENDS Naturals, FiniteSets

CONSTANTS Peers,
          NoPeer,
          Users,      \* the calls in progress, and the wrappers they end in
          MaxSize,    \* max_size (32; 0 when pooling is disabled)
          PerPeer,    \* MAX_CONNECTIONS_PER_PEER (3)
          MaxCalls    \* bound: calls ever made

ASSUME PoolAssumption ==
    /\ NoPeer \notin Peers
    /\ IsFiniteSet(Users)
    /\ MaxSize \in Nat
    /\ PerPeer \in Nat \ {0}
    /\ MaxCalls \in Nat

Ids  == 1 .. 2 * MaxCalls    \* a call allocates two at most
NoId == 0

VARIABLES
    owner,    \* [i]: the peer whose Vec has entry i, or NoPeer
    ref,      \* [i]: meta.ref_count
    old,      \* entries whose last_used is more than the idle timeout ago
    total,    \* total_connections
    nextId,   \* next_connection_id
    calls,    \* calls made so far
    uPc,      \* [u]: "idle" or the next step of the call, or what it holds
    uPeer,    \* [u]: the peer of the call
    uWrap,    \* [u]: the call is get_pooled_connection, not connect
    uId       \* [u]: the connection_id of the wrapper u holds

poolVars == <<owner, ref, old, total, nextId>>
userVars == <<calls, uPc, uPeer, uWrap, uId>>
vars == <<poolVars, userVars>>

UserPc == {"idle", "get", "connect", "dial", "addConnect", "addPooled",
           "raw", "held", "returning"}

TypeOK ==
    /\ owner \in [Ids -> Peers \union {NoPeer}]
    /\ ref \in [Ids -> Nat]
    /\ old \subseteq Ids
    /\ total \in Nat
    /\ nextId \in 1 .. 2 * MaxCalls + 1
    /\ calls \in 0 .. MaxCalls
    /\ uPc \in [Users -> UserPc]
    /\ uPeer \in [Users -> Peers \union {NoPeer}]
    /\ uWrap \in [Users -> BOOLEAN]
    /\ uId \in [Users -> Ids \union {NoId}]

Init ==
    /\ owner = [i \in Ids |-> NoPeer]
    /\ ref = [i \in Ids |-> 0]
    /\ old = {} /\ total = 0 /\ nextId = 1 /\ calls = 0
    /\ uPc = [u \in Users |-> "idle"]
    /\ uPeer = [u \in Users |-> NoPeer]
    /\ uWrap = [u \in Users |-> FALSE]
    /\ uId = [u \in Users |-> NoId]

-----------------------------------------------------------------------------
(* ConnectionPoolInner.                                                       *)

Pool    == {i \in Ids : owner[i] # NoPeer}
Mine(p) == {i \in Pool : owner[i] = p}

\* The entries of S leave the pool.
Remove(S) == owner' = [i \in Ids |-> IF i \in S THEN NoPeer ELSE owner[i]]

\* Mutant: the reference count is ignored.
Expired_ByAge(i) == i \in old

\* is_expired: idle for too long, and nobody refers to it.
Expired(i) == i \in old /\ ref[i] = 0

\* Mutant: total_connections counts the popped entries still.
Get_KeepsTotal(p, i) ==
    LET popped == {j \in Mine(p) : j > i}
    IN  /\ i \in Mine(p) /\ ~Expired(i)
        /\ \A j \in popped : Expired(j)
        /\ Remove(popped)
        /\ ref' = [ref EXCEPT ![i] = @ + 1]
        /\ UNCHANGED <<old, nextId, total>>

\* get_connection pops the expired entries above i, and answers i.
Get(p, i) ==
    LET popped == {j \in Mine(p) : j > i}
    IN  /\ i \in Mine(p) /\ ~Expired(i)
        /\ \A j \in popped : Expired(j)
        /\ Remove(popped)
        /\ total' = total - Cardinality(popped)
        /\ ref' = [ref EXCEPT ![i] = @ + 1]
        /\ UNCHANGED <<old, nextId>>

\* It finds every entry of the peer expired, if there is any.
GetNone(p) ==
    /\ \A j \in Mine(p) : Expired(j)
    /\ Remove(Mine(p))
    /\ total' = total - Cardinality(Mine(p))
    /\ UNCHANGED <<ref, old, nextId>>

\* Mutant: a new entry starts with no reference.
Insert_Unreferenced(p, i) ==
    /\ owner' = [owner EXCEPT ![i] = p]
    /\ ref' = [ref EXCEPT ![i] = 0]
    /\ old' = old \ {i}
    /\ total' = total + 1

\* add_connection and return_connection insert an entry, in use once.
Insert(p, i) ==
    /\ owner' = [owner EXCEPT ![i] = p]
    /\ ref' = [ref EXCEPT ![i] = 1]
    /\ old' = old \ {i}
    /\ total' = total + 1

HasRoom(p) == total < MaxSize /\ Cardinality(Mine(p)) < PerPeer

Add(p) ==
    /\ HasRoom(p)
    /\ nextId \in Ids
    /\ Insert(p, nextId)
    /\ nextId' = nextId + 1

AddNone(p) == ~HasRoom(p) /\ UNCHANGED poolVars

\* return_connection.  fetch_sub on a count of 0 would wrap: TypeOK says it is
\* never done.
Return(p, i) ==
    \/ /\ total >= MaxSize
       /\ UNCHANGED poolVars
    \/ /\ total < MaxSize
       /\ i \in Mine(p)
       /\ ref' = [ref EXCEPT ![i] = @ - 1]
       /\ old' = old \ {i}
       /\ UNCHANGED <<owner, total, nextId>>
    \/ /\ total < MaxSize
       /\ i \notin Mine(p)
       /\ IF Cardinality(Mine(p)) < PerPeer
          THEN Insert(p, i)
          ELSE UNCHANGED <<owner, ref, old, total>>
       /\ UNCHANGED nextId

\* cleanup_expired, with its saturating_sub.
Cleanup ==
    LET dead == {i \in Pool : Expired(i)}
    IN  /\ dead # {}
        /\ Remove(dead)
        /\ total' = IF Cardinality(dead) <= total THEN total - Cardinality(dead) ELSE 0
        /\ UNCHANGED <<ref, old, nextId, userVars>>

\* The idle timeout of an entry runs out.
Age(i) ==
    /\ i \in Pool \ old
    /\ old' = old \union {i}
    /\ UNCHANGED <<owner, ref, total, nextId, userVars>>

-----------------------------------------------------------------------------
(* Endpoint::connect and Endpoint::get_pooled_connection.                     *)

UserStep(u, from, to, id) ==
    /\ uPc[u] = from
    /\ uPc' = [uPc EXCEPT ![u] = to]
    /\ uId' = [uId EXCEPT ![u] = id]
    /\ uPeer' = [uPeer EXCEPT ![u] = IF to = "idle" THEN NoPeer ELSE @]
    /\ UNCHANGED <<calls, uWrap>>

\* A call begins: connect, or get_pooled_connection if wrap.
Call(u, p, wrap) ==
    /\ uPc[u] = "idle"
    /\ calls < MaxCalls
    /\ calls' = calls + 1
    /\ uPc' = [uPc EXCEPT ![u] = IF wrap THEN "get" ELSE "connect"]
    /\ uPeer' = [uPeer EXCEPT ![u] = p]
    /\ uWrap' = [uWrap EXCEPT ![u] = wrap]
    /\ UNCHANGED <<uId, poolVars>>

\* get_pooled_connection asks the pool, and wraps what it answers.
PooledHit(u, i) == UserStep(u, "get", "held", i) /\ Get(uPeer[u], i)
PooledMiss(u)   == UserStep(u, "get", "connect", NoId) /\ GetNone(uPeer[u])

\* What a connection from connect is for: its caller, or a wrapper.
Connected(u) == IF uWrap[u] THEN "addPooled" ELSE "raw"

\* connect asks the pool too; of its answer it keeps the connection, not the id.
ConnectHit(u, i) == UserStep(u, "connect", Connected(u), NoId) /\ Get(uPeer[u], i)
ConnectMiss(u)   == UserStep(u, "connect", "dial", NoId) /\ GetNone(uPeer[u])

Dialled(u)   == UserStep(u, "dial", "addConnect", NoId) /\ UNCHANGED poolVars
DialFails(u) == UserStep(u, "dial", "idle", NoId) /\ UNCHANGED poolVars

\* connect adds the new connection, if it can, and forgets its id.
ConnectAdd(u) ==
    /\ UserStep(u, "addConnect", Connected(u), NoId)
    /\ Add(uPeer[u]) \/ AddNone(uPeer[u])

\* get_pooled_connection adds it (again), or fails with PoolAtCapacity.
PooledAdd(u)     == UserStep(u, "addPooled", "held", nextId) /\ Add(uPeer[u])
PooledAddNone(u) == UserStep(u, "addPooled", "idle", NoId) /\ AddNone(uPeer[u])

\* The caller of connect drops its connection: the pool does not hear of it.
DropRaw(u) == UserStep(u, "raw", "idle", NoId) /\ UNCHANGED poolVars

\* Drop for PooledConnection spawns a task, which returns the connection.
DropPooled(u) == UserStep(u, "held", "returning", uId[u]) /\ UNCHANGED poolVars
Returned(u)   == UserStep(u, "returning", "idle", NoId) /\ Return(uPeer[u], uId[u])

\* into_inner takes the connection out of the wrapper: its drop does nothing.
IntoInner(u) == UserStep(u, "held", "raw", NoId) /\ UNCHANGED poolVars

User(u) ==
    \/ \E p \in Peers, wrap \in BOOLEAN : Call(u, p, wrap)
    \/ \E i \in Ids : PooledHit(u, i) \/ ConnectHit(u, i)
    \/ PooledMiss(u) \/ ConnectMiss(u)
    \/ Dialled(u) \/ DialFails(u)
    \/ ConnectAdd(u) \/ PooledAdd(u) \/ PooledAddNone(u)
    \/ DropRaw(u) \/ DropPooled(u) \/ Returned(u) \/ IntoInner(u)

Next ==
    \/ \E u \in Users : User(u)
    \/ \E i \in Ids : Age(i)
    \/ Cleanup

Spec == Init /\ [][Next]_vars

-----------------------------------------------------------------------------
\* The wrappers, live or on their way back, of entry i.
Holders(i) == {u \in Users : uPc[u] \in {"held", "returning"} /\ uId[u] = i}

(***************************************************************************)
(* total_connections is maintained by hand in four places: it is always    *)
(* the number of entries, within max_size, and no peer exceeds its share.  *)
(* The saturating_sub of cleanup_expired never saturates.                  *)
(***************************************************************************)
CountIsExact == total = Cardinality(Pool)
WithinLimits ==
    /\ total <= MaxSize
    /\ \A p \in Peers : Cardinality(Mine(p)) <= PerPeer
PoolBounded == CountIsExact /\ WithinLimits

(***************************************************************************)
(* The entry of a wrapper stays in the pool, with a count that covers all  *)
(* its wrappers, until they have come back: cleanup and get do not expire  *)
(* a connection in use, ref_count does not wrap below zero, and the branch *)
(* of return_connection that re-inserts a missing entry is never taken.    *)
(***************************************************************************)
RefsCoverHolders ==
    /\ \A u \in Users : uPc[u] \in {"held", "returning"} => uId[u] \in Mine(uPeer[u])
    /\ \A i \in Pool : Cardinality(Holders(i)) <= ref[i]

(***************************************************************************)
(* ref_count is the "number of active references" (endpoint.rs:128): once  *)
(* every call has ended and every connection and wrapper is dropped, it is *)
(* zero, and the entry can expire.                                         *)
(***************************************************************************)
QuietIsUnreferenced ==
    (\A u \in Users : uPc[u] = "idle") => \A i \in Pool : ref[i] = 0
=============================================================================
