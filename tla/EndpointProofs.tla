--------------------------- MODULE EndpointProofs ---------------------------
(***************************************************************************)
(* Proofs about the device's identity, for any number of processes, and    *)
(* about the cached address, for any number of callers.                    *)
(***************************************************************************)
EXTENDS Endpoint, TLAPS

-----------------------------------------------------------------------------
(* The key file.                                                              *)

\* What the file holds, as each process that depends on it knows.
FileMatches ==
    \A p \in Proc :
        /\ phase[p] = "creating" => file = NoFile
        /\ phase[p] = "writing" => file = Short
        /\ phase[p] \in {"binding", "running"} => file = key[p]

KeyInv == FileMatches /\ IdentityKept

\* The types of the key's variables are kept by every step of a process.
LEMMA KeyTypeStep ==
    ASSUME KeyTypeOK, NEW p \in Proc, Start(p) \/ Crash(p)
    PROVE  KeyTypeOK'
<1> USE KeyAssumption DEF KeyTypeOK, Phase, Goes, Ends
<1>1. CASE FindsFile(p)
    BY <1>1 DEF FindsFile
<1>2. CASE FindsNone(p)
    BY <1>2 DEF FindsNone, Fresh
<1>3. CASE Reads(p)
    BY <1>3 DEF Reads
<1>4. CASE Creates(p)
    BY <1>4 DEF Creates
<1>5. CASE Writes(p)
    BY <1>5 DEF Writes
<1>6. CASE Binds(p)
    BY <1>6 DEF Binds
<1>7. CASE ReadFails(p) \/ CreateFails(p) \/ WriteFails(p) \/ BindFails(p) \/ Crash(p)
    BY <1>7 DEF ReadFails, CreateFails, WriteFails, BindFails, Crash
<1>8. QED
    BY <1>1, <1>2, <1>3, <1>4, <1>5, <1>6, <1>7 DEF Start

\* While one process creates the file, the processes that run know what it
\* holds: there is none, for each of them would have read or written it.
LEMMA KeyInvStep ==
    ASSUME KeyTypeOK, KeyInv, OneCreates, NEW p \in Proc, Start(p) \/ Crash(p)
    PROVE  KeyInv'
<1> USE KeyAssumption DEF KeyTypeOK, Phase, Goes, Ends, KeyInv, FileMatches, IdentityKept
<1>1. CASE FindsFile(p)
    BY <1>1 DEF FindsFile
<1>2. CASE FindsNone(p)
    BY <1>2 DEF FindsNone
<1>3. CASE Reads(p)
    BY <1>3 DEF Reads
<1>4. CASE Creates(p)
    <2>1. file = NoFile /\ used = {}
        BY <1>4 DEF Creates
    <2>2. \A q \in Proc \ {p} : phase[q] \in {"down", "reading"}
        BY <1>4, <2>1 DEF Creates, OneCreates
    <2>3. QED
        BY <1>4, <2>1, <2>2 DEF Creates
<1>5. CASE Writes(p)
    <2>1. file = Short /\ used = {}
        BY <1>5 DEF Writes
    <2>2. \A q \in Proc \ {p} : phase[q] \in {"down", "reading"}
        BY <1>5, <2>1 DEF Writes, OneCreates
    <2>3. QED
        BY <1>5, <2>1, <2>2 DEF Writes
<1>6. CASE Binds(p)
    BY <1>6 DEF Binds
<1>7. CASE ReadFails(p) \/ CreateFails(p) \/ WriteFails(p) \/ BindFails(p) \/ Crash(p)
    BY <1>7 DEF ReadFails, CreateFails, WriteFails, BindFails, Crash
<1>8. QED
    BY <1>1, <1>2, <1>3, <1>4, <1>5, <1>6, <1>7 DEF Start

\* Every step of the endpoint is a step of a process, or leaves the key alone.
LEMMA KeySteps ==
    ASSUME [Next]_vars
    PROVE  (\E p \in Proc : Start(p) \/ Crash(p)) \/ UNCHANGED keyVars
<1>1. CASE Process
    BY <1>1 DEF Process, KeyNext
<1>2. CASE Move \/ Expire \/ UNCHANGED vars
    BY <1>2 DEF Move, Expire, vars
<1>3. ASSUME NEW c \in Caller,
             Call(c) \/ CallShutdown(c) \/ Acquire(c) \/ CallerStep(c) \/ Fetch(c)
      PROVE  UNCHANGED keyVars
    BY <1>3 DEF Call, CallShutdown, Acquire, CallerStep, Fetch, Hit, Miss, CloneEndpoint,
                IsShutdown, Store, Invalidate, ShutdownClears, Close, Fetched, FetchFails
<1>4. QED
    BY <1>1, <1>2, <1>3 DEF Next

(***************************************************************************)
(* However many processes share the directory, and wherever they crash or  *)
(* fail, an endpoint never runs under a key that is not the one in the     *)
(* file, as long as no two processes are in their first start at once.     *)
(***************************************************************************)
THEOREM OneIdentity == Spec /\ []OneCreates => []IdentityKept
<1>1. Init => KeyTypeOK /\ KeyInv
    BY KeyAssumption DEF Init, KeyInit, KeyTypeOK, Phase, KeyInv, FileMatches, IdentityKept
<1>2. KeyTypeOK /\ KeyInv /\ OneCreates /\ [Next]_vars => (KeyTypeOK /\ KeyInv)'
    <2>1. SUFFICES ASSUME KeyTypeOK, KeyInv, OneCreates, [Next]_vars
                   PROVE  KeyTypeOK' /\ KeyInv'
        OBVIOUS
    <2>2. CASE UNCHANGED keyVars
        BY <2>1, <2>2 DEF keyVars, KeyTypeOK, KeyInv, FileMatches, IdentityKept
    <2>3. CASE \E p \in Proc : Start(p) \/ Crash(p)
        BY <2>1, <2>3, KeyTypeStep, KeyInvStep
    <2>4. QED
        BY <2>1, <2>2, <2>3, KeySteps
<1>3. KeyInv => IdentityKept
    BY DEF KeyInv
<1>4. QED
    BY <1>1, <1>2, <1>3, PTL DEF Spec

\* A device on which one process runs at a time has one identity for ever.
COROLLARY SoleIdentity ==
    ASSUME Proc = {Self}
    PROVE  Spec => []IdentityKept
<1>1. OneCreates
    BY DEF OneCreates
<1>2. QED
    BY <1>1, OneIdentity, PTL

-----------------------------------------------------------------------------
(* The cached address.                                                        *)

\* A caller that has taken the endpoint in shutdown has left none behind.
Closing == \A c \in Caller : pc[c] \in {"clear", "close"} => state = "Shutdown"

\* A caller whose fetch the last invalidation did not find got a later address.
FetchesHold ==
    \A c \in Caller : pc[c] \in {"fetch", "store"} => c \in late \/ got[c] >= floor

IInv ==
    /\ TypeOK
    /\ Closing
    /\ floor <= here
    /\ FetchesHold
    /\ InvalidationHolds

\* A start or the end of the endpoint's process, or a step of another process.
LEMMA ProcessKeeps ==
    ASSUME IInv, Process
    PROVE  IInv'
<1>1. KeyTypeOK'
    BY KeyTypeStep DEF IInv, TypeOK, Process, KeyNext
<1>2. CASE UNCHANGED lifeVars /\ (phase'[Self] = "running" <=> phase[Self] = "running")
    BY <1>1, <1>2, EndpointAssumption
    DEF IInv, TypeOK, lifeVars, Closing, FetchesHold, InvalidationHolds
<1>3. CASE /\ state' = IF phase'[Self] = "running" THEN "Running" ELSE "None"
           /\ Blank
           /\ UNCHANGED here
    <2>1. 0 \in Addr /\ floor' <= here' /\ Closing' /\ FetchesHold' /\ InvalidationHolds'
        BY <1>3, EndpointAssumption
        DEF IInv, TypeOK, Addr, Blank, Closing, FetchesHold, InvalidationHolds
    <2>2. TypeOK'
        BY <1>1, <1>3, <2>1, EndpointAssumption DEF IInv, TypeOK, Blank
    <2>3. QED
        BY <2>1, <2>2 DEF IInv
<1>4. QED
    BY <1>2, <1>3 DEF Process

\* The device moves, the cached address ages, a caller takes the mutex.
LEMMA OthersKeep ==
    ASSUME IInv, Move \/ Expire \/ (\E c \in Caller : Acquire(c)) \/ UNCHANGED vars
    PROVE  IInv'
<1>1. CASE Move
    BY <1>1, EndpointAssumption
    DEF IInv, TypeOK, KeyTypeOK, keyVars, Closing, FetchesHold, InvalidationHolds, Addr, Move
<1>2. CASE Expire
    <2>1. cache \in CachedNodeAddr
        BY <1>2 DEF Expire, CacheValid, IInv, TypeOK
    <2>2. cache' \in CachedNodeAddr /\ cache'.addr = cache.addr /\ cache'.late = cache.late
        BY <1>2, <2>1 DEF Expire, CachedNodeAddr
    <2>3. QED
        BY <1>2, <2>1, <2>2
        DEF IInv, TypeOK, KeyTypeOK, keyVars, Closing, FetchesHold, InvalidationHolds, Expire, CacheValid
<1>3. CASE \E c \in Caller : Acquire(c)
    BY <1>3 DEF IInv, TypeOK, KeyTypeOK, keyVars, Closing, FetchesHold, InvalidationHolds, Acquire
<1>4. CASE UNCHANGED vars
    BY <1>4 DEF IInv, TypeOK, KeyTypeOK, vars, lifeVars, keyVars, Closing, FetchesHold, InvalidationHolds
<1>5. QED
    BY <1>1, <1>2, <1>3, <1>4

\* The steps of node_addr, invalidate_node_addr_cache and shutdown.
LEMMA CallerKeeps ==
    ASSUME IInv, NEW c \in Caller, Call(c) \/ CallShutdown(c) \/ CallerStep(c) \/ Fetch(c)
    PROVE  IInv'
<1> USE EndpointAssumption
    DEF IInv, TypeOK, KeyTypeOK, keyVars, Closing, FetchesHold, Addr, Lockers, Step, Release
<1>1. CASE Call(c)
    BY <1>1 DEF Call, InvalidationHolds
<1>2. CASE CallShutdown(c)
    BY <1>2 DEF CallShutdown, InvalidationHolds
<1>3. CASE Hit(c) \/ Miss(c)
    BY <1>3 DEF Hit, Miss, InvalidationHolds
<1>4. CASE CloneEndpoint(c) \/ IsShutdown(c)
    BY <1>4 DEF CloneEndpoint, IsShutdown, InvalidationHolds
<1>5. CASE Fetch(c)
    BY <1>5 DEF Fetch, Fetched, FetchFails, InvalidationHolds
<1>6. CASE Store(c)
    <2>1. /\ cache' \in CachedNodeAddr
          /\ cache'.addr = got[c]
          /\ cache'.late = (c \in late)
        BY <1>6 DEF Store, CachedNodeAddr
    <2>2. InvalidationHolds'
        BY <1>6, <2>1 DEF Store, InvalidationHolds
    <2>3. QED
        BY <1>6, <2>1, <2>2 DEF Store
<1>7. CASE Invalidate(c) \/ ShutdownClears(c)
    BY <1>7 DEF Invalidate, ShutdownClears, ClearCache, InvalidationHolds
<1>8. CASE Close(c)
    BY <1>8 DEF Close, InvalidationHolds
<1>9. QED
    BY <1>1, <1>2, <1>3, <1>4, <1>5, <1>6, <1>7, <1>8 DEF CallerStep

\* The invariant of the cached address holds in every state.
LEMMA Invariance == Spec => []IInv
<1>1. Init => IInv
    <2>1. Init => /\ 0 \in Addr /\ floor <= here
                  /\ Closing /\ FetchesHold /\ InvalidationHolds
        BY EndpointAssumption DEF Init, Addr, Closing, FetchesHold, InvalidationHolds
    <2>2. Init => KeyTypeOK
        BY KeyAssumption DEF Init, KeyInit, KeyTypeOK, Phase
    <2>3. Init => TypeOK
        BY <2>1, <2>2, EndpointAssumption DEF Init, KeyInit, TypeOK
    <2>4. QED
        BY <2>1, <2>2, <2>3 DEF IInv
<1>2. IInv /\ [Next]_vars => IInv'
    BY ProcessKeeps, OthersKeep, CallerKeeps DEF Next
<1>3. QED
    BY <1>1, <1>2, PTL DEF Spec

(***************************************************************************)
(* The endpoint's variables stay well typed: there is an endpoint exactly  *)
(* while its process runs, it is closed only after a shutdown, and the     *)
(* mutex is held only by a caller that is to use the cache.                *)
(***************************************************************************)
THEOREM EndpointTypeCorrect == Spec => []TypeOK
<1>1. IInv => TypeOK
    BY DEF IInv
<1>2. QED
    BY <1>1, Invariance, PTL

(***************************************************************************)
(* For any number of callers and address changes, an address older than    *)
(* the last invalidation is in the cache only if a call that was fetching  *)
(* during the invalidation stored it.                                      *)
(***************************************************************************)
THEOREM InvalidationIsKept == Spec => []InvalidationHolds
<1>1. IInv => InvalidationHolds
    BY DEF IInv
<1>2. QED
    BY <1>1, Invariance, PTL
=============================================================================
