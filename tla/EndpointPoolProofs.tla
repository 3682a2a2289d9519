------------------------ MODULE EndpointPoolProofs --------------------------
(***************************************************************************)
(* Proofs about the endpoint's connection pool, for any number of peers,   *)
(* concurrent callers and calls, and any limits.                           *)
(***************************************************************************)
EXTENDS EndpointPool, FiniteSetTheorems, TLAPS

-----------------------------------------------------------------------------
(* The inductive invariant.                                                   *)

\* Ids are allocated in increasing order.
IdsInOrder == \A i \in Pool : i < nextId

\* A call in progress, or a wrapper, is for a peer.
CallsHavePeers == \A u \in Users : uPc[u] # "idle" => uPeer[u] \in Peers

\* The entry of each wrapper is in the pool.
HeldIsPooled ==
    \A u \in Users : uPc[u] \in {"held", "returning"} => uId[u] \in Mine(uPeer[u])

\* The count of each entry covers its wrappers.
RefsSuffice == \A i \in Pool : Cardinality(Holders(i)) <= ref[i]

IInv ==
    /\ TypeOK
    /\ IdsInOrder
    /\ CallsHavePeers
    /\ HeldIsPooled
    /\ RefsSuffice
    /\ PoolBounded

-----------------------------------------------------------------------------
(* Cardinalities.                                                             *)

\* A finite set without one of its subsets.
LEMMA CardinalityDiff ==
    ASSUME NEW S, IsFiniteSet(S), NEW T \in SUBSET S
    PROVE  /\ IsFiniteSet(S \ T)
           /\ Cardinality(S \ T) \in Nat
           /\ Cardinality(T) \in Nat
           /\ Cardinality(T) <= Cardinality(S)
           /\ Cardinality(S \ T) = Cardinality(S) - Cardinality(T)
<1>1. IsFiniteSet(T) /\ IsFiniteSet(S \ T) /\ Cardinality(T) <= Cardinality(S)
    BY FS_Subset
<1>2. Cardinality(S) \in Nat /\ Cardinality(T) \in Nat /\ Cardinality(S \ T) \in Nat
    BY <1>1, FS_CardinalityType
<1>3. (S \ T) \union T = S /\ (S \ T) \intersect T = {}
    OBVIOUS
<1>4. Cardinality(S) = Cardinality(S \ T) + Cardinality(T) - Cardinality({})
    BY <1>1, <1>3, FS_Union
<1>5. Cardinality({}) = 0
    BY FS_EmptySet
<1>6. QED
    BY <1>1, <1>2, <1>4, <1>5

\* The sets the model counts are finite.
LEMMA PoolFinite ==
    /\ IsFiniteSet(Pool)
    /\ Cardinality(Pool) \in Nat
    /\ \A p : IsFiniteSet(Mine(p)) /\ Cardinality(Mine(p)) \in Nat
    /\ \A i : IsFiniteSet(Holders(i)) /\ Cardinality(Holders(i)) \in Nat
<1>1. IsFiniteSet(Ids)
    BY FS_Interval, PoolAssumption DEF Ids
<1>2. IsFiniteSet(Pool)
    <2>1. Pool \in SUBSET Ids
        BY DEF Pool
    <2>2. QED
        BY <1>1, <2>1, FS_Subset
<1>3. ASSUME NEW p PROVE IsFiniteSet(Mine(p))
    <2>1. Mine(p) \in SUBSET Pool
        BY DEF Mine
    <2>2. QED
        BY <1>2, <2>1, FS_Subset
<1>4. ASSUME NEW i PROVE IsFiniteSet(Holders(i))
    <2>1. Holders(i) \in SUBSET Users
        BY DEF Holders
    <2>2. QED
        BY PoolAssumption, <2>1, FS_Subset
<1>5. QED
    BY <1>2, <1>3, <1>4, FS_CardinalityType

-----------------------------------------------------------------------------
(* The operations of ConnectionPoolInner.                                     *)

PoolTypeOK ==
    /\ owner \in [Ids -> Peers \union {NoPeer}]
    /\ ref \in [Ids -> Nat]
    /\ old \subseteq Ids
    /\ total \in Nat
    /\ nextId \in 1 .. 2 * MaxCalls + 1

\* What every operation keeps true of the pool by itself.
PoolOK == PoolTypeOK /\ IdsInOrder /\ PoolBounded

\* An operation loses no entry in use, and takes no reference away.
Keeps ==
    \A j \in Pool : ref[j] > 0 => j \in Pool' /\ owner'[j] = owner[j] /\ ref'[j] >= ref[j]

\* Removing entries leaves the others with their peers.
LEMMA Removal ==
    ASSUME PoolTypeOK, NEW S \in SUBSET Pool, Remove(S)
    PROVE  /\ owner' \in [Ids -> Peers \union {NoPeer}]
           /\ Pool' = Pool \ S
           /\ \A p \in Peers : Mine(p)' = Mine(p) \ S
           /\ \A j \in Pool \ S : owner'[j] = owner[j]
BY PoolAssumption DEF PoolTypeOK, Remove, Pool, Mine

\* Removing expired entries, and counting them out, keeps the pool in order.
LEMMA RemovalKeeps ==
    ASSUME PoolOK, NEW S \in SUBSET Pool, Remove(S),
           \A j \in S : Expired(j),
           total' = total - Cardinality(S),
           ref' \in [Ids -> Nat], \A j \in Ids : ref'[j] >= ref[j],
           UNCHANGED <<old, nextId>>
    PROVE  PoolOK' /\ Keeps
<1>1. /\ owner' \in [Ids -> Peers \union {NoPeer}]
      /\ Pool' = Pool \ S
      /\ \A p \in Peers : Mine(p)' = Mine(p) \ S
      /\ \A j \in Pool \ S : owner'[j] = owner[j]
    BY Removal DEF PoolOK
<1>2. /\ Cardinality(Pool') = Cardinality(Pool) - Cardinality(S)
      /\ Cardinality(Pool') \in Nat /\ Cardinality(S) \in Nat
    BY <1>1, PoolFinite, CardinalityDiff
<1>3. \A p \in Peers : Cardinality(Mine(p)') <= PerPeer
    <2>1. TAKE p \in Peers
    <2>2. Mine(p)' \in SUBSET Mine(p)
        BY <1>1
    <2>3. Cardinality(Mine(p)') <= Cardinality(Mine(p)) /\ Cardinality(Mine(p)') \in Nat
        BY <2>2, PoolFinite, FS_Subset, FS_CardinalityType
    <2>4. QED
        BY <2>3, PoolFinite, PoolAssumption DEF PoolOK, PoolBounded, WithinLimits
<1>4. PoolTypeOK' /\ IdsInOrder'
    BY <1>1, <1>2 DEF PoolOK, PoolTypeOK, IdsInOrder, PoolBounded, CountIsExact
<1>5. PoolBounded'
    BY <1>1, <1>2, <1>3, PoolAssumption
       DEF PoolOK, PoolTypeOK, PoolBounded, CountIsExact, WithinLimits
<1>6. Keeps
    <2>1. SUFFICES ASSUME NEW j \in Pool, ref[j] > 0
                   PROVE  j \in Pool' /\ owner'[j] = owner[j] /\ ref'[j] >= ref[j]
        BY DEF Keeps
    <2>2. j \notin S
        BY <2>1 DEF Expired
    <2>3. QED
        BY <1>1, <2>1, <2>2 DEF Pool
<1>7. QED
    BY <1>4, <1>5, <1>6 DEF PoolOK

\* get_connection that answers an entry, which gains a reference.
LEMMA GetKeeps ==
    ASSUME PoolOK, NEW p \in Peers, NEW i \in Ids, Get(p, i)
    PROVE  /\ PoolOK' /\ Keeps
           /\ i \in Mine(p)'
           /\ ref' = [ref EXCEPT ![i] = @ + 1]
<1> DEFINE popped == {j \in Mine(p) : j > i}
<1>1. /\ popped \in SUBSET Pool
      /\ i \in Mine(p) /\ i \notin popped
      /\ \A j \in popped : Expired(j)
      /\ Remove(popped)
      /\ total' = total - Cardinality(popped)
      /\ ref' = [ref EXCEPT ![i] = @ + 1]
      /\ UNCHANGED <<old, nextId>>
    BY DEF Get, Mine, Ids
<1>2. ref' \in [Ids -> Nat] /\ \A j \in Ids : ref'[j] >= ref[j]
    BY <1>1 DEF PoolOK, PoolTypeOK
<1>3. PoolOK' /\ Keeps
    <2> HIDE DEF popped
    <2>1. QED
        BY <1>1, <1>2, RemovalKeeps
<1>4. i \in Mine(p)'
    <2> HIDE DEF popped
    <2>1. Mine(p)' = Mine(p) \ popped
        BY <1>1, Removal DEF PoolOK
    <2>2. QED
        BY <1>1, <2>1
<1>5. QED
    BY <1>1, <1>3, <1>4

\* get_connection that finds every entry of the peer expired.
LEMMA GetNoneKeeps ==
    ASSUME PoolOK, NEW p \in Peers, GetNone(p)
    PROVE  PoolOK' /\ Keeps
<1>1. Mine(p) \in SUBSET Pool
    BY DEF Mine
<1>2. ref' \in [Ids -> Nat] /\ \A j \in Ids : ref'[j] >= ref[j]
    BY DEF PoolOK, PoolTypeOK, GetNone
<1>3. QED
    BY <1>1, <1>2, RemovalKeeps DEF GetNone

\* cleanup_expired: its saturating subtraction is a plain one.
LEMMA CleanupKeeps ==
    ASSUME PoolOK, Cleanup
    PROVE  PoolOK' /\ Keeps
<1> DEFINE dead == {i \in Pool : Expired(i)}
<1>1. dead \in SUBSET Pool
    OBVIOUS
<1>2. /\ Cardinality(dead) <= Cardinality(Pool)
      /\ Cardinality(dead) \in Nat
    <2> HIDE DEF dead
    <2>1. QED
        BY <1>1, PoolFinite, CardinalityDiff
<1>3. /\ total' = total - Cardinality(dead)
      /\ Remove(dead)
      /\ UNCHANGED <<ref, old, nextId>>
    BY <1>2 DEF Cleanup, PoolOK, PoolBounded, CountIsExact
<1>4. ref' \in [Ids -> Nat] /\ \A j \in Ids : ref'[j] >= ref[j]
    BY <1>3 DEF PoolOK, PoolTypeOK
<1>5. \A j \in dead : Expired(j)
    OBVIOUS
<1>6. QED
    <2> HIDE DEF dead
    <2>1. QED
        BY <1>1, <1>3, <1>4, <1>5, RemovalKeeps

\* add_connection: the new entry is a new id, with one reference.
LEMMA AddKeeps ==
    ASSUME PoolOK, NEW p \in Peers, Add(p)
    PROVE  /\ PoolOK' /\ Keeps
           /\ nextId \in Ids \ Pool
           /\ nextId \in Mine(p)'
           /\ ref'[nextId] = 1
<1>1. /\ nextId \in Ids /\ nextId \notin Pool
      /\ owner' = [owner EXCEPT ![nextId] = p]
      /\ ref' = [ref EXCEPT ![nextId] = 1]
      /\ old' = old \ {nextId}
      /\ total' = total + 1
      /\ nextId' = nextId + 1
      /\ total < MaxSize /\ Cardinality(Mine(p)) < PerPeer
    <2>1. Pool \subseteq Ids
        BY DEF Pool
    <2>2. \A i \in Pool : i < nextId /\ i \in Nat
        BY <2>1, PoolAssumption DEF PoolOK, IdsInOrder, Ids
    <2>3. nextId \notin Pool
        BY <2>2
    <2>4. QED
        BY <2>3 DEF Add, Insert, HasRoom
<1>2. /\ Pool' = Pool \union {nextId}
      /\ Mine(p)' = Mine(p) \union {nextId}
      /\ \A q \in Peers \ {p} : Mine(q)' = Mine(q)
      /\ PoolTypeOK'
    BY <1>1, PoolAssumption DEF PoolOK, PoolTypeOK, Pool, Mine, Ids
<1>3. Cardinality(Pool') = Cardinality(Pool) + 1
    BY <1>1, <1>2, PoolFinite, FS_AddElement
<1>4. Cardinality(Mine(p)') = Cardinality(Mine(p)) + 1
    <2>1. nextId \notin Mine(p)
        BY <1>1 DEF Mine
    <2>2. QED
        BY <2>1, <1>2, PoolFinite, FS_AddElement
<1>5. \A q \in Peers : Cardinality(Mine(q)') <= PerPeer
    BY <1>1, <1>2, <1>4, PoolFinite, PoolAssumption DEF PoolOK, PoolBounded, WithinLimits
<1>6. PoolBounded'
    BY <1>1, <1>3, <1>5, PoolAssumption
       DEF PoolOK, PoolTypeOK, PoolBounded, CountIsExact, WithinLimits
<1>7. IdsInOrder'
    <2>1. \A i \in Pool : i < nextId /\ i \in Nat
        BY PoolAssumption DEF PoolOK, IdsInOrder, Pool, Ids
    <2>2. nextId \in Nat
        BY <1>1, PoolAssumption DEF Ids
    <2>3. QED
        BY <1>1, <1>2, <2>1, <2>2 DEF IdsInOrder
<1>8. Keeps
    BY <1>1, <1>2 DEF Keeps, PoolOK, PoolTypeOK, Pool
<1>9. ref'[nextId] = 1
    BY <1>1 DEF PoolOK, PoolTypeOK
<1>10. QED
    BY <1>1, <1>2, <1>6, <1>7, <1>8, <1>9 DEF PoolOK

\* return_connection of an entry that is in the pool, and in use: the entry
\* stays, with one reference less unless the pool is full.
LEMMA ReturnKeeps ==
    ASSUME PoolOK, NEW p \in Peers, NEW i \in Mine(p), ref[i] > 0, Return(p, i)
    PROVE  /\ PoolOK'
           /\ owner' = owner /\ Pool' = Pool
           /\ ref' = ref \/ ref' = [ref EXCEPT ![i] = @ - 1]
<1>1. /\ UNCHANGED <<owner, total, nextId>>
      /\ old' \subseteq old
      /\ ref' = ref \/ ref' = [ref EXCEPT ![i] = @ - 1]
    BY DEF Return, poolVars
<1>2. i \in Ids
    BY DEF Mine, Pool
<1>3. ref' \in [Ids -> Nat]
    BY <1>1, <1>2 DEF PoolOK, PoolTypeOK
<1>4. Pool' = Pool /\ \A q \in Peers : Mine(q)' = Mine(q)
    BY <1>1 DEF Pool, Mine
<1>5. PoolOK'
    BY <1>1, <1>3, <1>4
       DEF PoolOK, PoolTypeOK, IdsInOrder, PoolBounded, CountIsExact, WithinLimits
<1>6. QED
    BY <1>1, <1>4, <1>5

\* A step that leaves the pool alone keeps it in order.
LEMMA SamePoolKeeps ==
    ASSUME PoolOK, UNCHANGED poolVars
    PROVE  PoolOK' /\ Keeps
<1>1. Pool' = Pool /\ \A q \in Peers : Mine(q)' = Mine(q)
    BY DEF poolVars, Pool, Mine
<1>2. PoolOK'
    BY <1>1 DEF poolVars, PoolOK, PoolTypeOK, IdsInOrder, PoolBounded,
                CountIsExact, WithinLimits
<1>3. Keeps
    BY <1>1 DEF Keeps, poolVars, PoolOK, PoolTypeOK, Pool
<1>4. QED
    BY <1>2, <1>3

\* An idle timeout that runs out.
LEMMA AgeKeeps ==
    ASSUME PoolOK, NEW i \in Ids, Age(i)
    PROVE  PoolOK' /\ Keeps
<1>1. Pool' = Pool /\ \A q \in Peers : Mine(q)' = Mine(q)
    BY DEF Age, Pool, Mine
<1>2. PoolOK'
    BY <1>1 DEF Age, PoolOK, PoolTypeOK, IdsInOrder, PoolBounded,
                CountIsExact, WithinLimits
<1>3. Keeps
    BY <1>1 DEF Keeps, Age, PoolOK, PoolTypeOK, Pool
<1>4. QED
    BY <1>2, <1>3

-----------------------------------------------------------------------------
(* The calls.                                                                 *)

Holding(u) == uPc[u] \in {"held", "returning"}

UserTypeOK ==
    /\ calls \in 0 .. MaxCalls
    /\ uPc \in [Users -> UserPc]
    /\ uPeer \in [Users -> Peers \union {NoPeer}]
    /\ uWrap \in [Users -> BOOLEAN]
    /\ uId \in [Users -> Ids \union {NoId}]

\* IInv, split in the pool's part and the calls'.
LEMMA IInvParts ==
    IInv <=> PoolOK /\ UserTypeOK /\ CallsHavePeers /\ HeldIsPooled /\ RefsSuffice
BY DEF IInv, PoolOK, TypeOK, PoolTypeOK, UserTypeOK

\* The entry of a wrapper is in use.
LEMMA HeldIsReferenced ==
    ASSUME IInv, NEW u \in Users, Holding(u)
    PROVE  uId[u] \in Pool /\ ref[uId[u]] > 0 /\ uPeer[u] \in Peers
<1>1. uId[u] \in Mine(uPeer[u]) /\ uPeer[u] \in Peers
    BY DEF IInv, HeldIsPooled, CallsHavePeers, Holding
<1>2. uId[u] \in Pool
    BY <1>1 DEF Mine
<1>3. {u} \in SUBSET Holders(uId[u])
    BY DEF Holders, Holding
<1>4. Cardinality({u}) <= Cardinality(Holders(uId[u]))
    BY <1>3, PoolFinite, FS_Subset
<1>5. Cardinality({u}) = 1
    BY FS_Singleton
<1>6. ref[uId[u]] \in Nat /\ Cardinality(Holders(uId[u])) <= ref[uId[u]]
    BY <1>2 DEF IInv, TypeOK, RefsSuffice, Pool
<1>7. QED
    BY <1>1, <1>2, <1>4, <1>5, <1>6, PoolFinite

\* A step that keeps the entries in use, and after which no wrapper exists
\* that did not hold the same entry before, preserves the invariant.
LEMMA NoNewHolder ==
    ASSUME IInv, PoolOK', Keeps, UserTypeOK', CallsHavePeers',
           \A v \in Users : Holding(v)' => /\ Holding(v)
                                           /\ uId'[v] = uId[v]
                                           /\ uPeer'[v] = uPeer[v]
    PROVE  IInv'
<1>1. HeldIsPooled'
    <2>1. SUFFICES ASSUME NEW v \in Users, Holding(v)'
                   PROVE  (uId[v] \in Mine(uPeer[v]))'
        BY DEF HeldIsPooled, Holding
    <2>2. /\ Holding(v) /\ uId'[v] = uId[v] /\ uPeer'[v] = uPeer[v]
          /\ uId[v] \in Pool /\ ref[uId[v]] > 0
          /\ owner[uId[v]] = uPeer[v]
        BY <2>1, HeldIsReferenced DEF IInv, HeldIsPooled, Holding, Mine
    <2>3. uId[v] \in Pool' /\ owner'[uId[v]] = owner[uId[v]]
        BY <2>2 DEF Keeps
    <2>4. QED
        BY <2>2, <2>3 DEF Mine
<1>2. RefsSuffice'
    <2>1. SUFFICES ASSUME NEW i \in Pool'
                   PROVE  Cardinality(Holders(i)') <= ref'[i]
        BY DEF RefsSuffice
    <2>2. Holders(i)' \in SUBSET Holders(i)
        BY DEF Holders, Holding
    <2>3. /\ IsFiniteSet(Holders(i)')
          /\ Cardinality(Holders(i)') \in Nat
          /\ Cardinality(Holders(i)') <= Cardinality(Holders(i))
        BY <2>2, PoolFinite, FS_Subset, FS_CardinalityType
    <2>4. ref'[i] \in Nat
        BY DEF PoolOK, PoolTypeOK, Pool
    <2>5. CASE Holders(i)' = {}
        <3>1. Cardinality(Holders(i)') = 0
            BY <2>5, FS_EmptySet
        <3>2. QED
            BY <2>4, <3>1
    <2>6. CASE Holders(i)' # {}
        <3>1. PICK v \in Users : Holding(v) /\ uId[v] = i
            BY <2>2, <2>6 DEF Holders, Holding
        <3>2. i \in Pool /\ ref[i] > 0
            BY <3>1, HeldIsReferenced
        <3>3. ref'[i] >= ref[i] /\ ref[i] \in Nat
            BY <3>2 DEF Keeps, IInv, TypeOK, Pool
        <3>4. Cardinality(Holders(i)) <= ref[i]
            BY <3>2 DEF IInv, RefsSuffice
        <3>5. QED
            BY <2>3, <2>4, <3>3, <3>4, PoolFinite
    <2>7. QED
        BY <2>5, <2>6
<1>3. QED
    <2>1. IInv' <=> (PoolOK /\ UserTypeOK /\ CallsHavePeers /\ HeldIsPooled /\ RefsSuffice)'
        BY IInvParts, PTL
    <2>2. QED
        BY <1>1, <1>2, <2>1

\* A call that takes entry i into a wrapper, with a reference of its own.
LEMMA NewHolder ==
    ASSUME IInv, PoolOK', Keeps, NEW u \in Users, NEW i \in Ids, NEW p \in Peers,
           ~Holding(u), UserTypeOK',
           uPc' = [uPc EXCEPT ![u] = "held"],
           uId' = [uId EXCEPT ![u] = i],
           uPeer' = uPeer, uPeer[u] = p,
           i \in Mine(p)',
           ref'[i] >= Cardinality(Holders(i)) + 1
    PROVE  IInv'
<1>1. UserTypeOK
    BY IInvParts
<1>2. \A v \in Users \ {u} : uPc'[v] = uPc[v] /\ uId'[v] = uId[v] /\ uPeer'[v] = uPeer[v]
    BY <1>1 DEF UserTypeOK
<1>3. uPc'[u] = "held" /\ uId'[u] = i /\ uPeer'[u] = uPeer[u]
    BY <1>1 DEF UserTypeOK
<1>4. CallsHavePeers'
    BY <1>2, <1>3 DEF IInv, CallsHavePeers
<1>5. HeldIsPooled'
    <2>1. SUFFICES ASSUME NEW v \in Users, Holding(v)'
                   PROVE  (uId[v] \in Mine(uPeer[v]))'
        BY DEF HeldIsPooled, Holding
    <2>2. CASE v = u
        BY <1>3, <2>2 DEF Mine
    <2>3. CASE v # u
        <3>1. /\ Holding(v) /\ uId[v] \in Pool /\ ref[uId[v]] > 0
              /\ owner[uId[v]] = uPeer[v]
            BY <1>2, <2>1, <2>3, HeldIsReferenced DEF IInv, HeldIsPooled, Holding, Mine
        <3>2. uId[v] \in Pool' /\ owner'[uId[v]] = owner[uId[v]]
            BY <3>1 DEF Keeps
        <3>3. QED
            BY <1>2, <2>3, <3>1, <3>2 DEF Mine
    <2>4. QED
        BY <2>2, <2>3
<1>6. RefsSuffice'
    <2>1. SUFFICES ASSUME NEW j \in Pool'
                   PROVE  Cardinality(Holders(j)') <= ref'[j]
        BY DEF RefsSuffice
    <2>2. CASE j = i
        <3>1. Holders(i)' = Holders(i) \union {u} /\ u \notin Holders(i)
            BY <1>2, <1>3 DEF Holders, Holding
        <3>2. Cardinality(Holders(i)') = Cardinality(Holders(i)) + 1
            BY <3>1, PoolFinite, FS_AddElement
        <3>3. QED
            BY <2>2, <3>2
    <2>3. CASE j # i
        <3>1. Holders(j)' = Holders(j)
            BY <1>2, <1>3, <2>3 DEF Holders, Holding
        <3>2. ref'[j] \in Nat
            BY DEF PoolOK, PoolTypeOK, Pool
        <3>3. CASE Holders(j) = {}
            <4>1. Cardinality(Holders(j)) = 0
                BY <3>3, FS_EmptySet
            <4>2. QED
                BY <3>1, <3>2, <4>1
        <3>4. CASE Holders(j) # {}
            <4>1. PICK v \in Users : Holding(v) /\ uId[v] = j
                BY <3>4 DEF Holders, Holding
            <4>2. j \in Pool /\ ref[j] > 0
                BY <4>1, HeldIsReferenced
            <4>3. ref'[j] >= ref[j] /\ ref[j] \in Nat
                BY <4>2 DEF Keeps, IInv, TypeOK, Pool
            <4>4. Cardinality(Holders(j)) <= ref[j]
                BY <4>2 DEF IInv, RefsSuffice
            <4>5. QED
                BY <3>1, <3>2, <4>3, <4>4, PoolFinite
        <3>5. QED
            BY <3>3, <3>4
    <2>4. QED
        BY <2>2, <2>3
<1>7. QED
    <2>1. IInv' <=> (PoolOK /\ UserTypeOK /\ CallsHavePeers /\ HeldIsPooled /\ RefsSuffice)'
        BY IInvParts, PTL
    <2>2. QED
        BY <1>4, <1>5, <1>6, <2>1

\* The wrapper that comes back takes at most its own reference with it.
LEMMA ReturnedKeeps ==
    ASSUME IInv, NEW u \in Users, Returned(u)
    PROVE  IInv'
<1> DEFINE i == uId[u]
<1>1. PoolOK /\ UserTypeOK
    BY IInvParts
<1>2. uPc[u] = "returning" /\ Holding(u) /\ Return(uPeer[u], i)
    BY DEF Returned, UserStep, Holding
<1>3. /\ i \in Pool /\ i \in Mine(uPeer[u]) /\ i \in Ids
      /\ ref[i] > 0 /\ uPeer[u] \in Peers
    BY <1>2, HeldIsReferenced DEF IInv, HeldIsPooled, Holding, Pool
<1>4. /\ PoolOK'
      /\ owner' = owner /\ Pool' = Pool
      /\ ref' = ref \/ ref' = [ref EXCEPT ![i] = @ - 1]
    <2> HIDE DEF i
    <2>1. QED
        BY <1>1, <1>2, <1>3, ReturnKeeps
<1>5. /\ UserTypeOK' /\ uPc'[u] = "idle"
      /\ \A v \in Users \ {u} : uPc'[v] = uPc[v] /\ uId'[v] = uId[v] /\ uPeer'[v] = uPeer[v]
    BY <1>1 DEF Returned, UserStep, UserTypeOK, UserPc
<1>6. CallsHavePeers' /\ HeldIsPooled'
    <2>1. \A v \in Users : Mine(uPeer[v])' = {j \in Pool : owner[j] = uPeer'[v]}
        BY <1>4 DEF Mine
    <2>2. QED
        BY <1>5, <2>1 DEF IInv, CallsHavePeers, HeldIsPooled, Mine
<1>7. RefsSuffice'
    <2>1. SUFFICES ASSUME NEW j \in Pool
                   PROVE  Cardinality(Holders(j)') <= ref'[j]
        BY <1>4 DEF RefsSuffice
    <2>2. Cardinality(Holders(j)) <= ref[j] /\ ref[j] \in Nat
        BY DEF IInv, TypeOK, RefsSuffice, Pool
    <2>3. CASE j = i
        <3>1. Holders(j)' = Holders(j) \ {u} /\ u \in Holders(j)
            BY <1>2, <1>5, <2>3 DEF Holders, Holding
        <3>2. Cardinality(Holders(j)') = Cardinality(Holders(j)) - 1
            BY <3>1, PoolFinite, FS_RemoveElement
        <3>3. ref'[j] >= ref[j] - 1 /\ ref'[j] \in Nat
            BY <1>1, <1>3, <1>4, <2>2, <2>3 DEF PoolOK, PoolTypeOK
        <3>4. QED
            BY <2>2, <3>2, <3>3, PoolFinite
    <2>4. CASE j # i
        <3>1. Holders(j)' = Holders(j)
            BY <1>5, <2>4, <1>2 DEF Holders, Holding
        <3>2. ref'[j] = ref[j]
            BY <1>1, <1>4, <2>4 DEF PoolOK, PoolTypeOK, Pool
        <3>3. QED
            BY <2>2, <3>1, <3>2
    <2>5. QED
        BY <2>3, <2>4
<1>8. QED
    <2>1. IInv' <=> (PoolOK /\ UserTypeOK /\ CallsHavePeers /\ HeldIsPooled /\ RefsSuffice)'
        BY IInvParts, PTL
    <2>2. QED
        BY <1>4, <1>5, <1>6, <1>7, <2>1

\* A call that takes a step and has no wrapper after it, or the one it had.
LEMMA UserStepKeeps ==
    ASSUME IInv, NEW u \in Users, NEW from, NEW to \in UserPc, NEW id,
           UserStep(u, from, to, id),
           from # "idle",
           \/ to \notin {"held", "returning"} /\ id = NoId
           \/ from = "held" /\ to = "returning" /\ id = uId[u],
           PoolOK', Keeps
    PROVE  IInv'
<1>1. UserTypeOK
    BY IInvParts
<1>2. \A v \in Users \ {u} : uPc'[v] = uPc[v] /\ uId'[v] = uId[v] /\ uPeer'[v] = uPeer[v]
    BY <1>1 DEF UserStep, UserTypeOK
<1>3. /\ uPc[u] = from /\ uPc'[u] = to /\ uId'[u] = id
      /\ uPeer'[u] = IF to = "idle" THEN NoPeer ELSE uPeer[u]
    BY <1>1 DEF UserStep, UserTypeOK
<1>4. id \in Ids \union {NoId}
    BY <1>1 DEF UserTypeOK
<1>5. UserTypeOK'
    BY <1>1, <1>4 DEF UserStep, UserTypeOK
<1>6. CallsHavePeers'
    BY <1>2, <1>3 DEF IInv, CallsHavePeers
<1>7. \A v \in Users : Holding(v)' => /\ Holding(v)
                                      /\ uId'[v] = uId[v]
                                      /\ uPeer'[v] = uPeer[v]
    BY <1>2, <1>3 DEF Holding
<1>8. QED
    BY <1>5, <1>6, <1>7, NoNewHolder

\* Every step of a call.
LEMMA UserKeeps ==
    ASSUME IInv, NEW u \in Users, User(u)
    PROVE  IInv'
<1>1. PoolOK /\ UserTypeOK
    BY IInvParts
<1>2. ASSUME NEW p \in Peers, NEW wrap \in BOOLEAN, Call(u, p, wrap)
      PROVE  IInv'
    <2>1. PoolOK' /\ Keeps
        BY <1>1, <1>2, SamePoolKeeps DEF Call
    <2>2. UserTypeOK'
        BY <1>1, <1>2, PoolAssumption DEF Call, UserTypeOK, UserPc
    <2>3. /\ \A v \in Users \ {u} :
               uPc'[v] = uPc[v] /\ uId'[v] = uId[v] /\ uPeer'[v] = uPeer[v]
          /\ uPc'[u] \in {"get", "connect"} /\ uPeer'[u] = p
        BY <1>1, <1>2 DEF Call, UserTypeOK
    <2>4. CallsHavePeers'
        BY <2>3 DEF IInv, CallsHavePeers
    <2>5. \A v \in Users : Holding(v)' => /\ Holding(v)
                                          /\ uId'[v] = uId[v]
                                          /\ uPeer'[v] = uPeer[v]
        BY <2>3 DEF Holding
    <2>6. QED
        BY <2>1, <2>2, <2>4, <2>5, NoNewHolder
<1>3. ASSUME NEW i \in Ids, PooledHit(u, i)
      PROVE  IInv'
    <2>1. PICK p \in Peers : p = uPeer[u] /\ ~Holding(u)
        BY <1>3 DEF PooledHit, UserStep, IInv, CallsHavePeers, Holding
    <2>2. /\ PoolOK' /\ Keeps
          /\ i \in Mine(p)'
          /\ ref' = [ref EXCEPT ![i] = @ + 1]
        BY <1>1, <1>3, <2>1, GetKeeps DEF PooledHit
    <2>3. /\ uPc' = [uPc EXCEPT ![u] = "held"]
          /\ uId' = [uId EXCEPT ![u] = i]
          /\ uPeer' = uPeer
        BY <1>1, <1>3 DEF PooledHit, UserStep, UserTypeOK
    <2>4. UserTypeOK'
        BY <1>1, <1>3, <2>3 DEF PooledHit, UserStep, UserTypeOK, UserPc
    <2>5. ref'[i] = ref[i] + 1 /\ ref[i] \in Nat
        BY <1>1, <2>2 DEF PoolOK, PoolTypeOK
    <2>6. i \in Pool
        BY <1>3 DEF PooledHit, Get, Mine
    <2>7. ref'[i] >= Cardinality(Holders(i)) + 1
        BY <2>5, <2>6, PoolFinite DEF IInv, RefsSuffice
    <2>8. QED
        BY <2>1, <2>2, <2>3, <2>4, <2>7, NewHolder
<1>4. ASSUME NEW i \in Ids, ConnectHit(u, i)
      PROVE  IInv'
    <2>1. uPeer[u] \in Peers
        BY <1>4 DEF ConnectHit, UserStep, IInv, CallsHavePeers
    <2>2. PoolOK' /\ Keeps
        BY <1>1, <1>4, <2>1, GetKeeps DEF ConnectHit
    <2>3. Connected(u) \in UserPc \ {"held", "returning"}
        BY DEF Connected, UserPc
    <2>4. QED
        BY <1>4, <2>2, <2>3, UserStepKeeps DEF ConnectHit
<1>5. CASE PooledMiss(u)
    <2>1. uPeer[u] \in Peers
        BY <1>5 DEF PooledMiss, UserStep, IInv, CallsHavePeers
    <2>2. PoolOK' /\ Keeps
        BY <1>1, <1>5, <2>1, GetNoneKeeps DEF PooledMiss
    <2>3. QED
        BY <1>5, <2>2, UserStepKeeps DEF PooledMiss, UserPc
<1>6. CASE ConnectMiss(u)
    <2>1. uPeer[u] \in Peers
        BY <1>6 DEF ConnectMiss, UserStep, IInv, CallsHavePeers
    <2>2. PoolOK' /\ Keeps
        BY <1>1, <1>6, <2>1, GetNoneKeeps DEF ConnectMiss
    <2>3. QED
        BY <1>6, <2>2, UserStepKeeps DEF ConnectMiss, UserPc
<1>7. CASE Dialled(u)
    BY <1>1, <1>7, SamePoolKeeps, UserStepKeeps DEF Dialled, UserPc
<1>8. CASE DialFails(u)
    BY <1>1, <1>8, SamePoolKeeps, UserStepKeeps DEF DialFails, UserPc
<1>9. CASE ConnectAdd(u)
    <2>1. uPeer[u] \in Peers
        BY <1>9 DEF ConnectAdd, UserStep, IInv, CallsHavePeers
    <2>2. PoolOK' /\ Keeps
        BY <1>1, <1>9, <2>1, AddKeeps, SamePoolKeeps DEF ConnectAdd, AddNone
    <2>3. Connected(u) \in UserPc \ {"held", "returning"}
        BY DEF Connected, UserPc
    <2>4. QED
        BY <1>9, <2>2, <2>3, UserStepKeeps DEF ConnectAdd
<1>10. CASE PooledAdd(u)
    <2>1. PICK p \in Peers : p = uPeer[u] /\ ~Holding(u)
        BY <1>10 DEF PooledAdd, UserStep, IInv, CallsHavePeers, Holding
    <2>2. /\ PoolOK' /\ Keeps
          /\ nextId \in Ids \ Pool
          /\ nextId \in Mine(p)'
          /\ ref'[nextId] = 1
        BY <1>1, <1>10, <2>1, AddKeeps DEF PooledAdd
    <2>3. /\ uPc' = [uPc EXCEPT ![u] = "held"]
          /\ uId' = [uId EXCEPT ![u] = nextId]
          /\ uPeer' = uPeer
        BY <1>1, <1>10 DEF PooledAdd, UserStep, UserTypeOK
    <2>4. UserTypeOK'
        BY <1>1, <1>10, <2>2, <2>3 DEF PooledAdd, UserStep, UserTypeOK, UserPc
    <2>5. Holders(nextId) = {}
        BY <2>2, HeldIsReferenced DEF Holders, Holding
    <2>6. Cardinality(Holders(nextId)) = 0
        BY <2>5, FS_EmptySet
    <2>7. ref'[nextId] >= Cardinality(Holders(nextId)) + 1
        BY <2>2, <2>6
    <2>8. PICK i \in Ids : i = nextId
        BY <2>2
    <2>9. QED
        BY <2>1, <2>2, <2>3, <2>4, <2>7, <2>8, NewHolder
<1>11. CASE PooledAddNone(u)
    BY <1>1, <1>11, SamePoolKeeps, UserStepKeeps DEF PooledAddNone, AddNone, UserPc
<1>12. CASE DropRaw(u)
    BY <1>1, <1>12, SamePoolKeeps, UserStepKeeps DEF DropRaw, UserPc
<1>13. CASE DropPooled(u)
    BY <1>1, <1>13, SamePoolKeeps, UserStepKeeps DEF DropPooled, UserPc
<1>14. CASE IntoInner(u)
    BY <1>1, <1>14, SamePoolKeeps, UserStepKeeps DEF IntoInner, UserPc
<1>15. QED
    BY <1>2, <1>3, <1>4, <1>5, <1>6, <1>7, <1>8, <1>9, <1>10, <1>11, <1>12,
       <1>13, <1>14, ReturnedKeeps DEF User

\* A step of the pool's own, between those of the calls.
LEMMA BackgroundKeeps ==
    ASSUME IInv, PoolOK', Keeps, UNCHANGED userVars
    PROVE  IInv'
<1>1. UserTypeOK' /\ CallsHavePeers'
    BY IInvParts DEF userVars, UserTypeOK, CallsHavePeers
<1>2. \A v \in Users : Holding(v)' => /\ Holding(v)
                                      /\ uId'[v] = uId[v]
                                      /\ uPeer'[v] = uPeer[v]
    BY DEF userVars, Holding
<1>3. QED
    BY <1>1, <1>2, NoNewHolder

-----------------------------------------------------------------------------
(* The invariant, and what follows from it.                                   *)

\* The invariant holds at first,
LEMMA InitIInv == Init => IInv
<1> SUFFICES ASSUME Init PROVE IInv
    OBVIOUS
<1>1. Pool = {} /\ \A p \in Peers : Mine(p) = {}
    BY DEF Init, Pool, Mine
<1>2. PoolOK
    <2>1. PoolTypeOK
        BY PoolAssumption DEF Init, PoolTypeOK, Ids
    <2>2. PoolBounded
        BY <1>1, FS_EmptySet, PoolAssumption
           DEF Init, PoolBounded, CountIsExact, WithinLimits
    <2>3. QED
        BY <1>1, <2>1, <2>2 DEF PoolOK, IdsInOrder
<1>3. UserTypeOK /\ CallsHavePeers /\ HeldIsPooled
    BY PoolAssumption DEF Init, UserTypeOK, UserPc, CallsHavePeers, HeldIsPooled
<1>4. RefsSuffice
    BY <1>1 DEF RefsSuffice
<1>5. QED
    BY <1>2, <1>3, <1>4, IInvParts

\* every step preserves it,
LEMMA NextIInv == IInv /\ [Next]_vars => IInv'
<1> SUFFICES ASSUME IInv, [Next]_vars PROVE IInv'
    OBVIOUS
<1>1. PoolOK
    BY IInvParts
<1>2. ASSUME NEW u \in Users, User(u)
      PROVE  IInv'
    BY <1>2, UserKeeps
<1>3. ASSUME NEW i \in Ids, Age(i)
      PROVE  IInv'
    BY <1>1, <1>3, AgeKeeps, BackgroundKeeps DEF Age
<1>4. CASE Cleanup
    BY <1>1, <1>4, CleanupKeeps, BackgroundKeeps DEF Cleanup
<1>5. CASE UNCHANGED vars
    BY <1>1, <1>5, SamePoolKeeps, BackgroundKeeps DEF vars
<1>6. QED
    BY <1>2, <1>3, <1>4, <1>5 DEF Next

\* and so it always holds.
LEMMA Invariance == Spec => []IInv
BY InitIInv, NextIInv, PTL DEF Spec

(***************************************************************************)
(* Type correctness: among others no fetch_sub of return_connection takes  *)
(* a reference count below zero, and total_connections stays a natural.    *)
(***************************************************************************)
THEOREM TypeCorrect == Spec => []TypeOK
<1>1. IInv => TypeOK
    BY DEF IInv
<1>2. QED
    BY <1>1, Invariance, PTL

(***************************************************************************)
(* For any number of callers: total_connections, kept by hand in get,      *)
(* add, return and cleanup, is the number of pooled connections, at most   *)
(* max_size, and at most MAX_CONNECTIONS_PER_PEER of them are of one peer. *)
(***************************************************************************)
THEOREM Bounded == Spec => []PoolBounded
<1>1. IInv => PoolBounded
    BY DEF IInv
<1>2. QED
    BY <1>1, Invariance, PTL

(***************************************************************************)
(* For any number of callers: a connection in use is never expired, and    *)
(* the reference count of an entry covers all its wrappers.                *)
(***************************************************************************)
THEOREM InUseIsKept == Spec => []RefsCoverHolders
<1>1. IInv => RefsCoverHolders
    BY DEF IInv, HeldIsPooled, RefsSuffice, RefsCoverHolders
<1>2. QED
    BY <1>1, Invariance, PTL

-----------------------------------------------------------------------------
(* A pool that is full of entries in use.                                     *)

Clogged == total >= MaxSize /\ \A i \in Pool : ref[i] > 0

\* In such a pool nothing is popped, added or returned.
LEMMA CloggedPool ==
  ASSUME TypeOK, Clogged, NEW p
  PROVE  /\ (\E i \in Ids : Get(p, i)) => Clogged'
         /\ GetNone(p) => Clogged'
         /\ Add(p) \/ AddNone(p) => Clogged'
         /\ \A i : Return(p, i) => Clogged'
         /\ Cleanup => Clogged'
<1>1. \A i \in Pool : ~Expired(i)
    BY DEF Clogged, Expired
<1>2. Mine(p) \subseteq Pool /\ Cardinality({}) = 0
    BY FS_EmptySet DEF Mine
<1>3. UNCHANGED <<owner, ref, total>> => Clogged'
    BY DEF Clogged, Pool
<1>4. Remove({}) => UNCHANGED owner
    BY DEF Remove, TypeOK
<1>5. total \in Nat /\ total - 0 = total
    BY DEF TypeOK
<1>6. ASSUME NEW i \in Ids, Get(p, i)
      PROVE  Clogged'
    <2>1. {j \in Mine(p) : j > i} = {}
        BY <1>1, <1>2, <1>6 DEF Get
    <2>2. UNCHANGED <<owner, total>> /\ ref' = [ref EXCEPT ![i] = @ + 1]
        BY <1>2, <1>4, <1>5, <1>6, <2>1 DEF Get
    <2>3. \A j \in Pool : ref'[j] > 0
        BY <2>2 DEF Clogged, TypeOK, Pool
    <2>4. QED
        BY <2>2, <2>3 DEF Clogged, Pool
<1>7. ASSUME GetNone(p)
      PROVE  Clogged'
    <2>1. Mine(p) = {}
        BY <1>1, <1>2, <1>7 DEF GetNone
    <2>2. UNCHANGED <<owner, ref, total>>
        BY <1>2, <1>4, <1>5, <1>7, <2>1 DEF GetNone
    <2>3. QED
        BY <1>3, <2>2
<1>8. ASSUME Add(p) \/ AddNone(p)
      PROVE  Clogged'
    <2>1. ~HasRoom(p)
        BY PoolAssumption DEF HasRoom, Clogged, TypeOK
    <2>2. QED
        BY <1>3, <1>8, <2>1 DEF Add, AddNone, poolVars
<1>9. ASSUME NEW i, Return(p, i)
      PROVE  Clogged'
    <2>1. ~(total < MaxSize)
        BY PoolAssumption DEF Clogged, TypeOK
    <2>2. QED
        BY <1>3, <1>9, <2>1 DEF Return, poolVars
<1>10. ~Cleanup
    BY <1>1 DEF Cleanup
<1>11. QED
    BY <1>6, <1>7, <1>8, <1>9, <1>10

StaysClogged == Clogged => Clogged'

(***************************************************************************)
(* For any number of callers and any limits: a pool that is full, with all *)
(* its entries referred to, never accepts another connection.  The early   *)
(* return of return_connection (endpoint.rs:262) comes before the count is *)
(* taken back, so in a full pool no reference is ever given up, no entry   *)
(* expires, and get_pooled_connection fails for every peer not in it.      *)
(***************************************************************************)
THEOREM FullPoolStaysFull == Spec => [][StaysClogged]_vars
<1>1. IInv /\ [Next]_vars => [StaysClogged]_vars
    <2> SUFFICES ASSUME TypeOK, Clogged, Next
                 PROVE  Clogged'
        BY DEF IInv, StaysClogged
    <2>1. UNCHANGED poolVars => Clogged'
        BY DEF poolVars, Clogged, Pool
    <2>2. ASSUME NEW u \in Users, User(u)
          PROVE  Clogged'
        <3>1. CASE \E i \in Ids : PooledHit(u, i) \/ ConnectHit(u, i)
            BY <3>1, CloggedPool DEF PooledHit, ConnectHit
        <3>2. CASE PooledMiss(u) \/ ConnectMiss(u)
            BY <3>2, CloggedPool DEF PooledMiss, ConnectMiss
        <3>3. CASE ConnectAdd(u) \/ PooledAdd(u) \/ PooledAddNone(u)
            BY <3>3, CloggedPool DEF ConnectAdd, PooledAdd, PooledAddNone
        <3>4. CASE Returned(u)
            BY <3>4, CloggedPool DEF Returned
        <3>5. CASE \/ \E p \in Peers, wrap \in BOOLEAN : Call(u, p, wrap)
                   \/ Dialled(u) \/ DialFails(u) \/ DropRaw(u) \/ DropPooled(u) \/ IntoInner(u)
            BY <2>1, <3>5 DEF Call, Dialled, DialFails, DropRaw, DropPooled, IntoInner
        <3>6. QED
            BY <2>2, <3>1, <3>2, <3>3, <3>4, <3>5 DEF User
    <2>3. ASSUME NEW i \in Ids, Age(i)
          PROVE  Clogged'
        BY <2>3 DEF Age, Clogged, Pool
    <2>4. Cleanup => Clogged'
        BY CloggedPool
    <2>5. QED
        BY <2>2, <2>3, <2>4 DEF Next
<1>2. QED
    BY <1>1, Invariance, PTL DEF Spec
=============================================================================
