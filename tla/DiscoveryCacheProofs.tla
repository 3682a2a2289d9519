------------------------ MODULE DiscoveryCacheProofs ------------------------
(***************************************************************************)
(* Proofs about the peer cache, for any number of peers and callers and    *)
(* any time to live.                                                       *)
(***************************************************************************)
EXTENDS DiscoveryCache, TLAPS

-----------------------------------------------------------------------------
(* Types.                                                                     *)

\* What is about to be stored is a list of peers, without ourselves.
StoresPeers == \A c \in Callers : pc[c] = "store" => got[c] \subseteq Peers

TInv == TypeOK /\ StoresPeers

LEMMA TypeInit == Init => TInv
<1> USE CacheAssumption DEF Init, TypeOK, Nodes
<1>1. ASSUME Init
      PROVE  TypeOK
    <2>1. table \subseteq Nodes /\ cached \subseteq Peers /\ age \in 0 .. TTL
        BY <1>1
    <2>2. pc \in [Callers -> {"idle", "check", "query", "store", "lookup", "done"}]
        BY <1>1
    <2>3. op \in [Callers -> Ops \union {NoOp}] /\ arg \in [Callers -> Nodes]
        BY <1>1
    <2>4. got \in [Callers -> SUBSET Nodes] /\ always \in [Callers -> SUBSET Nodes]
        BY <1>1
    <2>5. ever \in [Callers -> SUBSET Nodes]
        BY <1>1
    <2>6. uptime \in 0 .. TTL /\ origin \in {"none", "before", "after"}
        BY <1>1
    <2>7. early \subseteq Callers /\ overlap \in BOOLEAN
        BY <1>1
    <2>8. QED
        BY <2>1, <2>2, <2>3, <2>4, <2>5, <2>6, <2>7
<1>2. Init => StoresPeers
    BY DEF StoresPeers
<1>3. QED
    BY <1>1, <1>2 DEF TInv

LEMMA TypeStep == TInv /\ [Next]_vars => TInv'
<1> SUFFICES ASSUME TInv, [Next]_vars
             PROVE  TInv'
    OBVIOUS
<1> USE CacheAssumption DEF TInv, TypeOK, StoresPeers, Nodes, Ops
<1>1. ASSUME NEW p \in Peers, Appear(p) \/ Vanish(p)
      PROVE  TInv'
    BY <1>1 DEF Appear, Vanish, Change, cacheVars, callVars
<1>2. CASE Tick
    BY <1>2 DEF Tick, callVars
<1>3. ASSUME NEW c \in Callers, NEW o \in Ops, NEW n \in Nodes, Begin(c, o, n)
      PROVE  TInv'
    BY <1>3 DEF Begin, FirstStep, cacheVars
<1>4. ASSUME NEW c \in Callers, Proceed(c)
      PROVE  TInv'
    <2>1. CASE Hit(c)
        BY <1>4, <2>1 DEF Hit, CallStep, cacheVars
    <2>2. CASE Miss(c)
        BY <1>4, <2>2 DEF Miss, CallStep, cacheVars
    <2>3. CASE Query(c)
        BY <1>4, <2>3 DEF Query, CallStep, QueryPeers, cacheVars
    <2>4. CASE Lookup(c)
        BY <1>4, <2>4 DEF Lookup, CallStep, cacheVars
    <2>5. CASE Return(c)
        BY <1>4, <2>5 DEF Return, cacheVars
    <2>6. CASE Store(c)
        BY <1>4, <2>6 DEF Store, CallStep
    <2>7. QED
        BY <1>4, <2>1, <2>2, <2>3, <2>4, <2>5, <2>6 DEF Proceed
<1>5. CASE InvalidateCache
    BY <1>5 DEF InvalidateCache, callVars
<1>6. CASE UNCHANGED vars
    BY <1>6 DEF vars, cacheVars, callVars, recordVars
<1>7. QED
    BY <1>1, <1>2, <1>3, <1>4, <1>5, <1>6 DEF Next

(***************************************************************************)
(* The cache stays well typed: no operation stores our own node, and the   *)
(* age of the list never leaves its range, for any peers, callers and TTL. *)
(***************************************************************************)
THEOREM TypeCorrect == Spec => []TypeOK
<1>1. TInv => TypeOK
    BY DEF TInv
<1>2. QED
    BY <1>1, TypeInit, TypeStep, PTL DEF Spec

-----------------------------------------------------------------------------
(* Where a fresh answer comes from.                                           *)

\* Queries older than the last invalidation are in flight only if it met them,
\* and a list nobody queried is as old as the cache, or invalidated.
Sources ==
    /\ \A c \in early : pc[c] = "store"
    /\ early # {} => overlap
    /\ origin = "none" => (age = TTL \/ uptime = age)

JInv == TInv /\ Sources /\ FreshIsJustified

LEMMA JustifiedInit == Init => JInv
<1>1. Init => Sources /\ FreshIsJustified
    BY CacheAssumption DEF Init, Sources, FreshIsJustified, Fresh
<1>2. QED
    BY <1>1, TypeInit DEF JInv

LEMMA JustifiedStep == JInv /\ [Next]_vars => JInv'
<1> SUFFICES ASSUME JInv, [Next]_vars
             PROVE  Sources' /\ FreshIsJustified'
    BY TypeStep DEF JInv
<1> USE CacheAssumption DEF JInv, TInv, TypeOK, Sources, FreshIsJustified, Fresh
<1>1. ASSUME NEW p \in Peers, Appear(p) \/ Vanish(p)
      PROVE  Sources' /\ FreshIsJustified'
    BY <1>1 DEF Appear, Vanish, Change, cacheVars, callVars
<1>2. CASE Tick
    BY <1>2 DEF Tick, callVars
<1>3. ASSUME NEW c \in Callers, NEW o \in Ops, NEW n \in Nodes, Begin(c, o, n)
      PROVE  Sources' /\ FreshIsJustified'
    BY <1>3 DEF Begin, FirstStep, cacheVars
<1>4. ASSUME NEW c \in Callers, Proceed(c)
      PROVE  Sources' /\ FreshIsJustified'
    <2>1. CASE Hit(c)
        BY <1>4, <2>1 DEF Hit, CallStep, cacheVars
    <2>2. CASE Miss(c)
        BY <1>4, <2>2 DEF Miss, CallStep, cacheVars
    <2>3. CASE Query(c)
        BY <1>4, <2>3 DEF Query, CallStep, cacheVars
    <2>4. CASE Lookup(c)
        BY <1>4, <2>4 DEF Lookup, CallStep, cacheVars
    <2>5. CASE Return(c)
        BY <1>4, <2>5 DEF Return, cacheVars
    <2>6. CASE Store(c)
        BY <1>4, <2>6 DEF Store, CallStep
    <2>7. QED
        BY <1>4, <2>1, <2>2, <2>3, <2>4, <2>5, <2>6 DEF Proceed
<1>5. CASE InvalidateCache
    <2>1. age' = TTL /\ ~Fresh'
        BY <1>5 DEF InvalidateCache
    <2>2. \A c \in early' : pc'[c] = "store"
        BY <1>5 DEF InvalidateCache, callVars
    <2>3. early' # {} => overlap'
        BY <1>5, Zenon DEF InvalidateCache
    <2>4. QED
        BY <2>1, <2>2, <2>3
<1>6. CASE UNCHANGED vars
    BY <1>6 DEF vars, cacheVars, callVars, recordVars
<1>7. QED
    BY <1>1, <1>2, <1>3, <1>4, <1>5, <1>6 DEF Next

(***************************************************************************)
(* For any number of callers, the cache answers with a list from before    *)
(* the last invalidation only if that invalidation overtook a query, and   *)
(* with a list nobody queried only during its first TTL.                   *)
(***************************************************************************)
THEOREM FreshAnswers == Spec => []FreshIsJustified
<1>1. JInv => FreshIsJustified
    BY DEF JInv
<1>2. QED
    BY <1>1, JustifiedInit, JustifiedStep, PTL DEF Spec

-----------------------------------------------------------------------------
(* The direct calls.                                                          *)

\* What each step of a call may rely on.
Recorded ==
    \A c \in Callers :
        /\ always[c] \subseteq table
        /\ pc[c] = "check" => op[c] # "known_peers_fresh"
        /\ pc[c] \in {"query", "store"} => op[c] # "get_peer"
        /\ pc[c] = "lookup" => op[c] = "get_peer"
        /\ (Direct(op[c]) /\ pc[c] # "done") => table \subseteq ever[c]
        /\ (pc[c] = "store" /\ op[c] = "known_peers_fresh") =>
              always[c] \ {Me} \subseteq got[c] /\ got[c] \subseteq ever[c]
        /\ pc[c] = "idle" => op[c] = NoOp

DInv == TInv /\ Recorded /\ DirectAnswers

LEMMA DirectInit == Init => DInv
<1>1. Init => Recorded /\ DirectAnswers
    BY DEF Init, Recorded, DirectAnswers, Direct, NoOp
<1>2. QED
    BY <1>1, TypeInit DEF DInv

LEMMA DirectStep == DInv /\ [Next]_vars => DInv'
<1> SUFFICES ASSUME DInv, [Next]_vars
             PROVE  Recorded' /\ DirectAnswers'
    BY TypeStep DEF DInv
<1> USE CacheAssumption
    DEF DInv, TInv, TypeOK, Recorded, DirectAnswers, Direct, NoOp, Nodes, Ops
<1>1. ASSUME NEW p \in Peers, Appear(p) \/ Vanish(p)
      PROVE  Recorded' /\ DirectAnswers'
    BY <1>1 DEF Appear, Vanish, Change, callVars
<1>2. CASE Tick
    BY <1>2 DEF Tick, callVars
<1>3. ASSUME NEW c \in Callers, NEW o \in Ops, NEW n \in Nodes, Begin(c, o, n)
      PROVE  Recorded' /\ DirectAnswers'
    BY <1>3 DEF Begin, FirstStep
<1>4. ASSUME NEW c \in Callers, Proceed(c)
      PROVE  Recorded' /\ DirectAnswers'
    <2>1. CASE Hit(c)
        BY <1>4, <2>1 DEF Hit, Answers, CallStep
    <2>2. CASE Miss(c)
        BY <1>4, <2>2 DEF Miss, CallStep
    <2>3. CASE Query(c)
        BY <1>4, <2>3 DEF Query, CallStep, QueryPeers
    <2>4. CASE Lookup(c)
        BY <1>4, <2>4 DEF Lookup, CallStep
    <2>5. CASE Return(c)
        BY <1>4, <2>5 DEF Return
    <2>6. CASE Store(c)
        BY <1>4, <2>6 DEF Store, CallStep
    <2>7. QED
        BY <1>4, <2>1, <2>2, <2>3, <2>4, <2>5, <2>6 DEF Proceed
<1>5. CASE InvalidateCache
    BY <1>5 DEF InvalidateCache, callVars
<1>6. CASE UNCHANGED vars
    BY <1>6 DEF vars, callVars, recordVars
<1>7. QED
    BY <1>1, <1>2, <1>3, <1>4, <1>5, <1>6 DEF Next

(***************************************************************************)
(* known_peers_fresh and get_peer never miss what was there all along, for *)
(* any number of callers storing old lists meanwhile.                      *)
(***************************************************************************)
THEOREM DirectAnswersHold == Spec => []DirectAnswers
<1>1. DInv => DirectAnswers
    BY DEF DInv
<1>2. QED
    BY <1>1, DirectInit, DirectStep, PTL DEF Spec
=============================================================================
