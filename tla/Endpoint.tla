------------------------------ MODULE Endpoint ------------------------------
(***************************************************************************)
(* The life of one Endpoint (src/net/endpoint.rs) and its cached           *)
(* NodeAddr: node_addr, invalidate_node_addr_cache and shutdown, called by *)
(* concurrent tasks.  The state is behind a lock that is never held over   *)
(* an await; the cache is behind an async mutex.  The endpoint exists      *)
(* while the process Self is "running" in DeviceKey, and is made anew by   *)
(* its next start.                                                         *)
(***************************************************************************)
EXTENDS DeviceKey, Naturals

CONSTANTS Self,      \* the process that owns the endpoint
          Caller,    \* its tasks that call the endpoint
          Nobody,    \* the holder of a free mutex
          NoAddr,    \* an empty cache
          MaxMoves   \* bound on the changes of the device's address

ASSUME EndpointAssumption == Self \in Proc /\ Nobody \notin Caller /\ MaxMoves \in Nat

VARIABLES state,     \* EndpointState, or "None" while there is no Endpoint
          closed,    \* the Iroh endpoint has been closed
          cache,     \* node_addr_cache
          lock,      \* the holder of its mutex
          pc,        \* position of each caller
          got,       \* address each caller has fetched, or the oldest it may get
          here,      \* the device's address: the number of its changes
          floor,     \* history: the address at the last invalidation
          late       \* history: the callers it found fetching an address

lifeVars == <<state, closed, cache, lock, pc, got, here, floor, late>>
vars == <<keyVars, lifeVars>>

Addr == 0 .. MaxMoves

\* A cached address, and whether its TTL lasts; "late" is history: the address
\* was fetched while the cache was invalidated.
CachedNodeAddr == [addr : Addr, valid : BOOLEAN, late : BOOLEAN]

\* CachedNodeAddr::is_valid, of an address that is there.
CacheValid == cache # NoAddr /\ cache.valid

\* The positions from which a caller awaits the mutex.
Lockers == {"check", "store", "drop", "clear"}

TypeOK ==
    /\ KeyTypeOK
    /\ state \in {"None", "Running", "Shutdown"}
    /\ closed \in BOOLEAN
    /\ cache \in CachedNodeAddr \union {NoAddr}
    /\ lock \in Caller \union {Nobody}
    /\ pc \in [Caller -> Lockers \union {"idle", "state", "fetch", "close"}]
    /\ got \in [Caller -> Addr]
    /\ here \in Addr
    /\ floor \in Addr
    /\ late \in SUBSET Caller
    /\ state = "None" <=> phase[Self] # "running"
    /\ closed => state = "Shutdown"
    /\ lock \in Caller => pc[lock] \in Lockers

\* The fields of a new Endpoint, and of none.
Blank ==
    /\ closed' = FALSE
    /\ cache' = NoAddr
    /\ lock' = Nobody
    /\ pc' = [c \in Caller |-> "idle"]
    /\ got' = [c \in Caller |-> 0]
    /\ floor' = 0
    /\ late' = {}

Init ==
    /\ KeyInit
    /\ state = "None"
    /\ closed = FALSE
    /\ cache = NoAddr
    /\ lock = Nobody
    /\ pc = [c \in Caller |-> "idle"]
    /\ got = [c \in Caller |-> 0]
    /\ here = 0
    /\ floor = 0
    /\ late = {}

-----------------------------------------------------------------------------
\* A step of a process, with what it does to the endpoint of Self.
Process ==
    /\ KeyNext
    /\ IF phase'[Self] = phase[Self] \/ "running" \notin {phase[Self], phase'[Self]}
       THEN UNCHANGED lifeVars
       ELSE /\ state' = IF phase'[Self] = "running" THEN "Running" ELSE "None"
            /\ Blank
            /\ UNCHANGED here

\* The network changes the device's address.
Move ==
    /\ here < MaxMoves
    /\ here' = here + 1
    /\ UNCHANGED <<keyVars, state, closed, cache, lock, pc, got, floor, late>>

\* The TTL of the cached address has passed.
Expire ==
    /\ CacheValid
    /\ cache' = [cache EXCEPT !.valid = FALSE]
    /\ UNCHANGED <<keyVars, state, closed, lock, pc, got, here, floor, late>>

-----------------------------------------------------------------------------
Step(c, from, to) == pc[c] = from /\ pc' = [pc EXCEPT ![c] = to]

\* A task calls node_addr or invalidate_node_addr_cache.
Call(c) ==
    /\ state # "None"
    /\ Step(c, "idle", "check") \/ Step(c, "idle", "drop")
    /\ UNCHANGED <<keyVars, state, closed, cache, lock, got, here, floor, late>>

\* shutdown: the state is replaced in one critical section, so one caller
\* gets the Iroh endpoint; any other call returns.
CallShutdown(c) ==
    /\ state = "Running"
    /\ state' = "Shutdown"
    /\ Step(c, "idle", "clear")
    /\ UNCHANGED <<keyVars, closed, cache, lock, got, here, floor, late>>

\* node_addr_cache.lock().await
Acquire(c) ==
    /\ lock = Nobody
    /\ pc[c] \in Lockers
    /\ lock' = c
    /\ UNCHANGED <<keyVars, state, closed, cache, pc, got, here, floor, late>>

Release(c) == lock = c /\ lock' = Nobody

\* node_addr: the cached address is valid, and is the answer.
Hit(c) ==
    /\ Release(c)
    /\ Step(c, "check", "idle")
    /\ CacheValid
    /\ UNCHANGED <<keyVars, state, closed, cache, got, here, floor, late>>

\* Mutant: one critical section from the test of the cache to its update.
Miss_KeepsLock(c) ==
    /\ lock = c
    /\ Step(c, "check", "state")
    /\ ~CacheValid
    /\ UNCHANGED <<keyVars, state, closed, cache, lock, got, here, floor, late>>

Miss(c) ==
    /\ Release(c)
    /\ Step(c, "check", "state")
    /\ ~CacheValid
    /\ UNCHANGED <<keyVars, state, closed, cache, got, here, floor, late>>

\* node_addr reads the state and takes a handle of the Iroh endpoint.
CloneEndpoint(c) ==
    /\ state = "Running"
    /\ Step(c, "state", "fetch")
    /\ got' = [got EXCEPT ![c] = here]
    /\ late' = late \ {c}
    /\ UNCHANGED <<keyVars, state, closed, cache, lock, here, floor>>

IsShutdown(c) ==
    /\ state = "Shutdown"
    /\ Step(c, "state", "idle")
    /\ UNCHANGED <<keyVars, state, closed, cache, lock, got, here, floor, late>>

\* endpoint.node_addr().await: an address the device had since the call.
Fetched(c) ==
    /\ Step(c, "fetch", "store")
    /\ \E a \in got[c] .. here : got' = [got EXCEPT ![c] = a]
    /\ UNCHANGED <<keyVars, state, closed, cache, lock, here, floor, late>>

FetchFails(c) ==
    /\ Step(c, "fetch", "idle")
    /\ UNCHANGED <<keyVars, state, closed, cache, lock, got, here, floor, late>>

\* The address goes into the cache, with a new TTL, and is the answer.
Store(c) ==
    /\ Release(c)
    /\ Step(c, "store", "idle")
    /\ cache' = [addr |-> got[c], valid |-> TRUE, late |-> c \in late]
    /\ UNCHANGED <<keyVars, state, closed, got, here, floor, late>>

\* Mutant: only an address whose TTL has passed is dropped.
ClearCache_IfExpired ==
    /\ cache' = IF CacheValid THEN cache ELSE NoAddr
    /\ floor' = here
    /\ late' = {c \in Caller : pc[c] \in {"fetch", "store"}}

\* invalidate_node_addr_cache
ClearCache ==
    /\ cache' = NoAddr
    /\ floor' = here
    /\ late' = {c \in Caller : pc[c] \in {"fetch", "store"}}

Invalidate(c) ==
    /\ Release(c)
    /\ Step(c, "drop", "idle")
    /\ ClearCache
    /\ UNCHANGED <<keyVars, state, closed, got, here>>

\* shutdown goes on: the cache, then the Iroh endpoint.
ShutdownClears(c) ==
    /\ Release(c)
    /\ Step(c, "clear", "close")
    /\ ClearCache
    /\ UNCHANGED <<keyVars, state, closed, got, here>>

Close(c) ==
    /\ Step(c, "close", "idle")
    /\ closed' = TRUE
    /\ UNCHANGED <<keyVars, state, cache, lock, got, here, floor, late>>

-----------------------------------------------------------------------------
CallerStep(c) ==
    \/ Hit(c) \/ Miss(c) \/ CloneEndpoint(c) \/ IsShutdown(c)
    \/ Store(c) \/ Invalidate(c) \/ ShutdownClears(c) \/ Close(c)

Fetch(c) == Fetched(c) \/ FetchFails(c)

Next ==
    \/ Process
    \/ Move
    \/ Expire
    \/ \E c \in Caller : \/ Call(c) \/ CallShutdown(c) \/ Acquire(c)
                         \/ CallerStep(c) \/ Fetch(c)

\* Tokio runs every ready task and its mutex queues those that wait; nothing
\* makes Iroh answer a fetch.
Fairness == \A c \in Caller : WF_vars(CallerStep(c)) /\ SF_vars(Acquire(c))

Spec == Init /\ [][Next]_vars /\ Fairness

-----------------------------------------------------------------------------
(***************************************************************************)
(* After an invalidation, or the one in shutdown, the cache brings back an *)
(* address the device had before it only from a call that was fetching     *)
(* meanwhile: no order of checks, fetches, stores and invalidations lets   *)
(* an older address in, or through, in any other way.                      *)
(***************************************************************************)
InvalidationHolds ==
    cache # NoAddr => cache.addr >= floor \/ cache.late

(***************************************************************************)
(* A shutdown closes the Iroh endpoint unless the process ends first, even *)
(* if Iroh never answers the calls of node_addr in flight: node_addr keeps *)
(* neither lock over its await.                                            *)
(***************************************************************************)
ShutdownCloses == state = "Shutdown" ~> closed \/ state = "None"
=============================================================================
