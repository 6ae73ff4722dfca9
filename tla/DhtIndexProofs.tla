--------------------------- MODULE DhtIndexProofs ---------------------------
(***************************************************************************)
(* The invariants of DhtIndex and its refinement of NodeRegistry, proved   *)
(* for every set of ids, addresses, shards and timestamps.                 *)
(***************************************************************************)
EXTENDS DhtIndex, TLAPS

\* What every call of store_entry and remove_entry finds and leaves behind.
Coherent(t) == /\ t \in Tables
               /\ SameNodes(t)
               /\ OnePairPerNode(t)
               /\ HoldersExact(t)
               /\ AddressesCurrent(t)

(***************************************************************************)
(* The inductive invariant: the containers are coherent, and a running     *)
(* sweep holds exactly the pairs that are still to be removed.             *)
(***************************************************************************)
Inv == /\ Coherent(dht)
       /\ SweepExact
       /\ sweep \subseteq Times \X NodeIds
       /\ now \in Times

-----------------------------------------------------------------------------
(* The containers after remove_entry and after the updates of store_entry. *)

\* remove_entry keeps every container within its type.
LEMMA RemoveType ==
  ASSUME NEW t \in Tables, NEW n \in NodeIds, SameNodes(t)
  PROVE  Remove(t, n) \in Tables
<1>1. CASE ~Verify(t, n)
  BY <1>1 DEF Remove
<1>2. CASE Verify(t, n)
  <2>1. t.idToIp[n] \in Ips
    BY <1>2 DEF SameNodes, Tables, Map
  <2>2. AddressesAfterRemoval(t, n) \in Map(Ips, NodeIds \cup {EmptyId})
    BY <2>1 DEF AddressesAfterRemoval, Tables, Map
  <2>3. HoldersAfterRemoval(t, n) \in Map(Shards, SUBSET NodeIds)
    BY DEF HoldersAfterRemoval, Tables, Map, SetAt
  <2>4. ExpiryOrderAfterRemoval(t, n) \in SUBSET (Times \X NodeIds)
    BY DEF ExpiryOrderAfterRemoval, Tables
  <2>5. /\ Without(t.idToIp, n) \in Map(NodeIds, Ips)
        /\ Without(t.idToGeneration, n) \in Map(NodeIds, Generations)
        /\ Without(t.idToExpiry, n) \in Map(NodeIds, Times)
        /\ Without(t.idToShards, n) \in Map(NodeIds, SUBSET Shards)
        /\ Without(t.idToInformation, n) \in Map(NodeIds, Infos)
        /\ Without(t.idToLiveness, n) \in Map(NodeIds, {0})
    BY DEF Without, Tables, Map
  <2> QED
    BY <1>2, <2>2, <2>3, <2>4, <2>5 DEF Remove, Tables
<1> QED
  BY <1>1, <1>2

\* The updates of store_entry keep every container within its type.
LEMMA InsertType ==
  ASSUME NEW t \in Tables, NEW n \in NodeIds, NEW a \in Adverts
  PROVE  Insert(t, n, a) \in Tables
<1>1. [t.ipToId EXCEPT ![a.ip] = n] \in Map(Ips, NodeIds \cup {EmptyId})
  BY DEF Tables, Map, Adverts
<1>2. /\ [t.idToIp EXCEPT ![n] = a.ip] \in Map(NodeIds, Ips)
      /\ [t.idToGeneration EXCEPT ![n] = a.generation] \in Map(NodeIds, Generations)
      /\ [t.idToExpiry EXCEPT ![n] = a.expiry] \in Map(NodeIds, Times)
      /\ [t.idToInformation EXCEPT ![n] = a.information] \in Map(NodeIds, Infos)
      /\ [t.idToLiveness EXCEPT ![n] = 0] \in Map(NodeIds, {0})
  BY DEF Tables, Map, Adverts
<1>3. ExpiryOrderAfterInsert(t, n, a) \in SUBSET (Times \X NodeIds)
  BY DEF ExpiryOrderAfterInsert, Tables, Adverts
<1>4. [s \in Shards |-> IF s \in a.shards THEN SetAt(t.shardToIds, s) \cup {n}
                                          ELSE t.shardToIds[s]]
        \in Map(Shards, SUBSET NodeIds)
  BY DEF Tables, Map, SetAt
<1>5. (IF a.shards = {} THEN t.idToShards
       ELSE [t.idToShards EXCEPT ![n] = SetAt(t.idToShards, n) \cup a.shards])
        \in Map(NodeIds, SUBSET Shards)
  <2>1. SetAt(t.idToShards, n) \cup a.shards \in SUBSET Shards
    BY DEF Tables, Map, SetAt, Adverts
  <2> QED
    BY <2>1 DEF Tables, Map
<1> QED
  BY <1>1, <1>2, <1>3, <1>4, <1>5 DEF Insert, Tables

(***************************************************************************)
(* remove_entry forgets node n, in every container, and touches no other   *)
(* node.                                                                   *)
(***************************************************************************)
LEMMA RemoveNodes ==
  ASSUME NEW t \in Tables, NEW n \in NodeIds, Verify(t, n), NEW m \in NodeIds
  PROVE  LET u == Remove(t, n) IN
         /\ Verify(u, m) <=> Verify(t, m) /\ m # n
         /\ u.idToIp[m] = IF m = n THEN Absent ELSE t.idToIp[m]
         /\ u.idToGeneration[m] = IF m = n THEN Absent ELSE t.idToGeneration[m]
         /\ u.idToExpiry[m] = IF m = n THEN Absent ELSE t.idToExpiry[m]
         /\ u.idToShards[m] = IF m = n THEN Absent ELSE t.idToShards[m]
         /\ u.idToInformation[m] = IF m = n THEN Absent ELSE t.idToInformation[m]
         /\ u.idToLiveness[m] = IF m = n THEN Absent ELSE t.idToLiveness[m]
  BY DEF Remove, Verify, Without, Tables, Map

\* The updates of store_entry give node n the advertisement a.
LEMMA InsertNodes ==
  ASSUME NEW t \in Tables, NEW n \in NodeIds, NEW a \in Adverts, NEW m \in NodeIds
  PROVE  LET u == Insert(t, n, a) IN
         /\ Verify(u, m) <=> Verify(t, m) \/ m = n
         /\ u.idToIp[m] = IF m = n THEN a.ip ELSE t.idToIp[m]
         /\ u.idToGeneration[m] = IF m = n THEN a.generation ELSE t.idToGeneration[m]
         /\ u.idToExpiry[m] = IF m = n THEN a.expiry ELSE t.idToExpiry[m]
         /\ u.idToInformation[m] = IF m = n THEN a.information ELSE t.idToInformation[m]
         /\ u.idToLiveness[m] = IF m = n THEN 0 ELSE t.idToLiveness[m]
<1>1. a.generation # Absent
  BY AbsentIsNoValue DEF Adverts
<1> QED
  BY <1>1 DEF Insert, Verify, Tables, Map

\* They add the advertised shards to those recorded for node n.
LEMMA InsertShards ==
  ASSUME NEW t \in Tables, NEW n \in NodeIds, NEW a \in Adverts
  PROVE  LET u == Insert(t, n, a) IN
         /\ SetAt(u.idToShards, n) = SetAt(t.idToShards, n) \cup a.shards
         /\ \A m \in NodeIds \ {n} : u.idToShards[m] = t.idToShards[m]
<1>1. SetAt(t.idToShards, n) \cup a.shards # Absent
  <2>1. SetAt(t.idToShards, n) \cup a.shards \in SUBSET Shards
    BY DEF Tables, Map, SetAt, Adverts
  <2> QED
    BY <2>1, AbsentIsNoValue
<1> QED
  BY <1>1 DEF Insert, Tables, Map, SetAt

-----------------------------------------------------------------------------
(* Both leave the containers coherent.                                     *)

LEMMA RemoveCoherent ==
  ASSUME NEW t, Coherent(t), NEW n \in NodeIds
  PROVE  Coherent(Remove(t, n))
<1>1. CASE ~Verify(t, n)
  BY <1>1 DEF Remove
<1>2. CASE Verify(t, n)
  <2> DEFINE u == Remove(t, n)
  <2> HIDE DEF u
  <2>1. t \in Tables /\ u \in Tables
    BY RemoveType DEF Coherent, u
  <2>2. \A m \in NodeIds :
          /\ Verify(u, m) <=> Verify(t, m) /\ m # n
          /\ u.idToIp[m] = IF m = n THEN Absent ELSE t.idToIp[m]
          /\ u.idToExpiry[m] = IF m = n THEN Absent ELSE t.idToExpiry[m]
          /\ u.idToShards[m] = IF m = n THEN Absent ELSE t.idToShards[m]
          /\ u.idToInformation[m] = IF m = n THEN Absent ELSE t.idToInformation[m]
          /\ u.idToLiveness[m] = IF m = n THEN Absent ELSE t.idToLiveness[m]
    BY <1>2, <2>1, RemoveNodes DEF u
  <2>3. SameNodes(u)
    BY <2>2 DEF Coherent, SameNodes
  <2>4. OnePairPerNode(u)
    <3>1. u.expiryOrder = t.expiryOrder \ {<<t.idToExpiry[n], n>>}
      BY <1>2 DEF u, Remove, ExpiryOrderAfterRemoval
    <3>2. t.expiryOrder = {<<t.idToExpiry[m], m>> : m \in {k \in NodeIds : Verify(t, k)}}
      BY DEF Coherent, OnePairPerNode
    <3> QED
      BY <2>2, <3>1, <3>2 DEF OnePairPerNode
  <2>5. HoldersExact(u)
    <3> SUFFICES ASSUME NEW s \in Shards
                 PROVE  SetAt(u.shardToIds, s) =
                          {m \in NodeIds : s \in SetAt(u.idToShards, m)}
      BY DEF HoldersExact
    <3>1. SetAt(t.shardToIds, s) = {m \in NodeIds : s \in SetAt(t.idToShards, m)}
      BY DEF Coherent, HoldersExact
    <3>2. \A m \in NodeIds : s \in SetAt(u.idToShards, m)
                               <=> m # n /\ s \in SetAt(t.idToShards, m)
      BY <2>2 DEF SetAt
    <3>3. SetAt(u.shardToIds, s) = SetAt(t.shardToIds, s) \ {n}
      <4>1. u.shardToIds[s] = IF s \in SetAt(t.idToShards, n)
                              THEN SetAt(t.shardToIds, s) \ {n} ELSE t.shardToIds[s]
        BY <1>2 DEF u, Remove, HoldersAfterRemoval
      <4>2. CASE s \in SetAt(t.idToShards, n)
        <5>1. SetAt(t.shardToIds, s) \ {n} \in SUBSET NodeIds
          BY <3>1
        <5> QED
          BY <4>1, <4>2, <5>1, AbsentIsNoValue DEF SetAt
      <4>3. CASE s \notin SetAt(t.idToShards, n)
        BY <3>1, <4>1, <4>3 DEF SetAt
      <4> QED
        BY <4>2, <4>3
    <3> QED
      BY <3>1, <3>2, <3>3
  <2>6. AddressesCurrent(u)
    <3> SUFFICES ASSUME NEW i \in Ips, u.ipToId[i] \notin {Absent, EmptyId}
                 PROVE  u.idToIp[u.ipToId[i]] = i
      BY DEF AddressesCurrent
    <3>1. t.idToIp[n] \in Ips
      BY <1>2, <2>1 DEF Coherent, SameNodes, Tables, Map
    <3>2. u.ipToId = AddressesAfterRemoval(t, n)
      BY <1>2 DEF u, Remove
    <3>3. u.ipToId[i] = t.ipToId[i]
      BY <2>1, <3>1, <3>2 DEF AddressesAfterRemoval, Tables, Map
    <3>4. t.idToIp[t.ipToId[i]] = i /\ t.ipToId[i] \in NodeIds
      BY <2>1, <3>3 DEF Coherent, AddressesCurrent, Tables, Map
    <3>5. t.ipToId[i] # n
      BY <2>1, <3>1, <3>2, <3>3, <3>4 DEF AddressesAfterRemoval, Tables, Map
    <3> QED
      BY <2>2, <3>3, <3>4, <3>5
  <2> QED
    BY <2>1, <2>3, <2>4, <2>5, <2>6 DEF Coherent, u
<1> QED
  BY <1>1, <1>2

LEMMA InsertCoherent ==
  ASSUME NEW t, Coherent(t), NEW n \in NodeIds, ~Verify(t, n), NEW a \in Adverts
  PROVE  Coherent(Insert(t, n, a))
<1> DEFINE u == Insert(t, n, a)
<1> HIDE DEF u
<1>1. t \in Tables /\ u \in Tables
  BY InsertType DEF Coherent, u
<1>2. \A m \in NodeIds :
        /\ Verify(u, m) <=> Verify(t, m) \/ m = n
        /\ u.idToIp[m] = IF m = n THEN a.ip ELSE t.idToIp[m]
        /\ u.idToExpiry[m] = IF m = n THEN a.expiry ELSE t.idToExpiry[m]
        /\ u.idToInformation[m] = IF m = n THEN a.information ELSE t.idToInformation[m]
        /\ u.idToLiveness[m] = IF m = n THEN 0 ELSE t.idToLiveness[m]
  BY <1>1, InsertNodes DEF u
<1>shards. /\ SetAt(u.idToShards, n) = SetAt(t.idToShards, n) \cup a.shards
      /\ \A m \in NodeIds \ {n} : u.idToShards[m] = t.idToShards[m]
  BY <1>1, InsertShards DEF u
<1>3. a.ip \in Ips /\ a.shards \in SUBSET Shards
  BY DEF Adverts
<1>4. a.ip # Absent /\ a.expiry # Absent /\ a.information # Absent
  BY AbsentIsNoValue DEF Adverts
<1>5. SetAt(t.idToShards, n) = {}
  BY DEF Coherent, SameNodes, SetAt
<1>6. SameNodes(u)
  BY <1>2, <1>shards, <1>4, AbsentIsNoValue DEF Coherent, SameNodes
<1>7. OnePairPerNode(u)
  <2>1. u.expiryOrder = t.expiryOrder \cup {<<a.expiry, n>>}
    BY DEF u, Insert, ExpiryOrderAfterInsert
  <2>2. t.expiryOrder = {<<t.idToExpiry[m], m>> : m \in {k \in NodeIds : Verify(t, k)}}
    BY DEF Coherent, OnePairPerNode
  <2> QED
    BY <1>2, <2>1, <2>2 DEF OnePairPerNode
<1>8. HoldersExact(u)
  <2> SUFFICES ASSUME NEW s \in Shards
               PROVE  SetAt(u.shardToIds, s) =
                        {m \in NodeIds : s \in SetAt(u.idToShards, m)}
    BY DEF HoldersExact
  <2>1. SetAt(t.shardToIds, s) = {m \in NodeIds : s \in SetAt(t.idToShards, m)}
    BY DEF Coherent, HoldersExact
  <2>2. u.shardToIds[s] = IF s \in a.shards THEN SetAt(t.shardToIds, s) \cup {n}
                                            ELSE t.shardToIds[s]
    BY DEF u, Insert
  <2>3. SetAt(t.shardToIds, s) \cup {n} # Absent
    <3>1. SetAt(t.shardToIds, s) \cup {n} \in SUBSET NodeIds
      BY <2>1
    <3> QED
      BY <3>1, AbsentIsNoValue
  <2>4. SetAt(u.shardToIds, s) = IF s \in a.shards THEN SetAt(t.shardToIds, s) \cup {n}
                                                   ELSE SetAt(t.shardToIds, s)
    BY <2>2, <2>3 DEF SetAt
  <2>5. \A m \in NodeIds : s \in SetAt(u.idToShards, m)
                             <=> \/ m = n /\ s \in a.shards
                                 \/ s \in SetAt(t.idToShards, m)
    BY <1>shards, <1>5 DEF SetAt
  <2> QED
    BY <2>1, <2>4, <2>5
<1>9. AddressesCurrent(u)
  <2> SUFFICES ASSUME NEW i \in Ips, u.ipToId[i] \notin {Absent, EmptyId}
               PROVE  u.idToIp[u.ipToId[i]] = i
    BY DEF AddressesCurrent
  <2>1. u.ipToId[i] = IF i = a.ip THEN n ELSE t.ipToId[i]
    BY <1>1, <1>3 DEF u, Insert, Tables, Map
  <2>2. CASE i = a.ip
    BY <1>2, <2>1, <2>2
  <2>3. CASE i # a.ip
    <3>1. t.idToIp[t.ipToId[i]] = i /\ t.ipToId[i] \in NodeIds
      BY <1>1, <2>1, <2>3 DEF Coherent, AddressesCurrent, Tables, Map
    <3>2. t.ipToId[i] # n
      BY <3>1, AbsentIsNoValue DEF Coherent, SameNodes
    <3> QED
      BY <1>2, <2>1, <2>3, <3>1, <3>2
  <2> QED
    BY <2>2, <2>3
<1> QED
  BY <1>1, <1>6, <1>7, <1>8, <1>9 DEF Coherent, u

-----------------------------------------------------------------------------
(* The invariant.                                                          *)

LEMMA EmptyCoherent == Coherent(EmptyTables)
<1> USE DEF EmptyTables
<1>1. EmptyTables \in Tables
  BY DEF Tables, Map
<1>2. \A n \in NodeIds : ~Verify(EmptyTables, n)
  BY DEF Verify
<1>3. SameNodes(EmptyTables) /\ OnePairPerNode(EmptyTables)
  BY <1>2 DEF SameNodes, OnePairPerNode
<1>4. HoldersExact(EmptyTables) /\ AddressesCurrent(EmptyTables)
  BY DEF HoldersExact, SetAt, AddressesCurrent
<1> QED
  BY <1>1, <1>3, <1>4 DEF Coherent

LEMMA InitInv == Init => Inv
  BY EmptyCoherent DEF Init, Inv, SweepExact

(***************************************************************************)
(* A pair of the running sweep is the current pair of a registered node,   *)
(* and removing the node removes exactly that pair from the ordered set.   *)
(***************************************************************************)
LEMMA SweepPairs ==
  ASSUME Inv, NEW p \in sweep
  PROVE  /\ p[2] \in NodeIds
         /\ Verify(dht, p[2])
         /\ p = <<dht.idToExpiry[p[2]], p[2]>>
         /\ Remove(dht, p[2]).expiryOrder = dht.expiryOrder \ {p}
<1>1. p \in dht.expiryOrder
  BY DEF Inv, SweepExact
<1>2. PICK n \in NodeIds : Verify(dht, n) /\ p = <<dht.idToExpiry[n], n>>
  BY <1>1 DEF Inv, Coherent, OnePairPerNode
<1> QED
  BY <1>2 DEF Remove, ExpiryOrderAfterRemoval

LEMMA NextInv == Inv /\ [Next]_vars => Inv'
<1> SUFFICES ASSUME Inv, [Next]_vars
             PROVE  Inv'
  OBVIOUS
<1>1. ASSUME NEW n \in NodeIds, NEW a \in Adverts, Store(n, a)
      PROVE  Inv'
  <2>1. CASE ~Verify(dht, n) /\ dht' = Insert(dht, n, a)
    BY <1>1, <2>1, InsertCoherent DEF Inv, Store, SweepExact
  <2>2. CASE Verify(dht, n) /\ dht' = Insert(Remove(dht, n), n, a)
    <3>1. Coherent(Remove(dht, n))
      BY RemoveCoherent DEF Inv
    <3>2. ~Verify(Remove(dht, n), n)
      BY <2>2, RemoveNodes DEF Inv, Coherent
    <3> QED
      BY <1>1, <2>2, <3>1, <3>2, InsertCoherent DEF Inv, Store, SweepExact
  <2>3. CASE UNCHANGED dht
    BY <1>1, <2>3 DEF Inv, Store, SweepExact
  <2> QED
    BY <1>1, <2>1, <2>2, <2>3 DEF Store
<1>2. CASE CleanByExpiryTime
  <2>1. sweep' \subseteq Times \X NodeIds
    BY <1>2 DEF CleanByExpiryTime, Inv, Coherent, Tables
  <2> QED
    BY <1>2, <2>1 DEF CleanByExpiryTime, Inv, SweepExact
<1>3. ASSUME NEW p \in sweep, RemoveExpired(p)
      PROVE  Inv'
  <2>1. /\ p[2] \in NodeIds
        /\ dht'.expiryOrder = dht.expiryOrder \ {p}
    BY <1>3, SweepPairs DEF RemoveExpired
  <2>2. Coherent(dht')
    BY <1>3, <2>1, RemoveCoherent DEF RemoveExpired, Inv
  <2>3. SweepExact'
    BY <1>3, <2>1 DEF RemoveExpired, Inv, SweepExact
  <2> QED
    BY <1>3, <2>2, <2>3 DEF RemoveExpired, Inv
<1>4. CASE Tick
  BY <1>4 DEF Tick, Inv, SweepExact
<1>5. CASE UNCHANGED vars
  BY <1>5 DEF vars, Inv, SweepExact
<1> QED
  BY <1>1, <1>2, <1>3, <1>4, <1>5 DEF Next

THEOREM Invariance == Spec => []Inv
  BY InitInv, NextInv, PTL DEF Spec

(***************************************************************************)
(* Every container holds what its C++ type allows, in every reachable      *)
(* state.                                                                  *)
(***************************************************************************)
THEOREM TypeCorrect == Spec => []TypeOK
<1>1. Inv => TypeOK
  BY DEF Inv, Coherent, TypeOK
<1> QED
  BY <1>1, Invariance, PTL

(***************************************************************************)
(* The containers keyed by node id, and the ordered set of expiry times,   *)
(* always describe the same nodes: no call of store_entry or               *)
(* clean_by_expiry_time, in any order, leaves one of them behind.          *)
(***************************************************************************)
THEOREM IndexesAgree == Spec => []IndexConsistent
<1>1. Inv => IndexConsistent
  BY DEF Inv, Coherent, IndexConsistent
<1> QED
  BY <1>1, Invariance, PTL

(***************************************************************************)
(* query_node_ids_by_shard_id returns exactly the nodes whose current      *)
(* advertisement lists the shard.                                          *)
(***************************************************************************)
THEOREM QueriesExact == Spec => []ShardIndexExact
<1>1. Inv => ShardIndexExact
  BY DEF Inv, Coherent, ShardIndexExact
<1> QED
  BY <1>1, Invariance, PTL

(***************************************************************************)
(* An address that resolves to a node resolves to one that is registered   *)
(* at this address now.                                                    *)
(***************************************************************************)
THEOREM AddressesForward == Spec => []IpForward
<1>1. Inv => IpForward
  BY DEF Inv, Coherent, IpForward
<1> QED
  BY <1>1, Invariance, PTL

(***************************************************************************)
(* clean_by_expiry_time removes the expired entries, all of them and no    *)
(* others.                                                                 *)
(***************************************************************************)
THEOREM SweepsExact == Spec => []SweepExact
<1>1. Inv => SweepExact
  BY DEF Inv
<1> QED
  BY <1>1, Invariance, PTL

-----------------------------------------------------------------------------
(* The two address maps.                                                   *)

(***************************************************************************)
(* docs/dht_operation.md:192 calls them "Bidirectional mappings between IP *)
(* addresses and node IDs": one is the inverse of the other, and so no     *)
(* address is some node's that has left.                                   *)
(***************************************************************************)
MapsInverse(t) ==
  /\ \A i \in Ips, n \in NodeIds : t.ipToId[i] = n <=> t.idToIp[n] = i
  /\ \A i \in Ips : t.ipToId[i] # Absent => t.ipToId[i] \in NodeIds

Bidirectional == MapsInverse(dht)

\* No two nodes are registered under one address.
Apart(t) == \A m, n \in NodeIds : t.idToIp[m] = t.idToIp[n] /\ t.idToIp[m] # Absent => m = n

AddressesApart == Apart(dht)

\* With the maps inverse, the address that remove_entry looks up is its node's.
LEMMA RemoveInverse ==
  ASSUME NEW t, Coherent(t), MapsInverse(t), NEW n \in NodeIds
  PROVE  MapsInverse(Remove(t, n))
<1>1. CASE ~Verify(t, n)
  BY <1>1 DEF Remove
<1>2. CASE Verify(t, n)
  <2> DEFINE u == Remove(t, n)
  <2>1. t.idToIp[n] \in Ips
    BY <1>2 DEF Coherent, SameNodes, Tables, Map
  <2>2. t.ipToId[t.idToIp[n]] = n /\ n # Absent
    BY <2>1, AbsentIsNoValue DEF MapsInverse
  <2>3. AddressesAfterRemoval(t, n) = [t.ipToId EXCEPT ![t.idToIp[n]] = Absent]
    BY <2>2 DEF AddressesAfterRemoval
  <2>4. \A i \in Ips : u.ipToId[i] = IF i = t.idToIp[n] THEN Absent ELSE t.ipToId[i]
    BY <1>2, <2>3 DEF Remove, Coherent, Tables, Map
  <2>5. \A m \in NodeIds : u.idToIp[m] = IF m = n THEN Absent ELSE t.idToIp[m]
    BY <1>2, RemoveNodes DEF Coherent
  <2> HIDE DEF u
  <2> QED
    BY <2>2, <2>4, <2>5, AbsentIsNoValue DEF MapsInverse, u
<1> QED
  BY <1>1, <1>2

\* With the maps inverse, a node that joins at a free address keeps them so.
LEMMA InsertInverse ==
  ASSUME NEW t, Coherent(t), MapsInverse(t), NEW n \in NodeIds, ~Verify(t, n),
         NEW a \in Adverts, Apart(Insert(t, n, a))
  PROVE  MapsInverse(Insert(t, n, a))
<1> DEFINE u == Insert(t, n, a)
<1>1. \A i \in Ips : u.ipToId[i] = IF i = a.ip THEN n ELSE t.ipToId[i]
  BY DEF Insert, Coherent, Tables, Map
<1>2. \A m \in NodeIds : u.idToIp[m] = IF m = n THEN a.ip ELSE t.idToIp[m]
  BY InsertNodes DEF Coherent
<1>3. t.idToIp[n] = Absent /\ a.ip \in Ips /\ a.ip # Absent
  BY AbsentIsNoValue DEF Coherent, SameNodes, Adverts
<1> HIDE DEF u
<1>4. \A m \in NodeIds \ {n} : t.idToIp[m] # a.ip
  BY <1>2, <1>3 DEF Apart, u
<1>5. \A i \in Ips : t.ipToId[i] # n
  BY <1>3, AbsentIsNoValue DEF MapsInverse
<1> QED
  BY <1>1, <1>2, <1>3, <1>4, <1>5 DEF MapsInverse, u

LEMMA InverseInit == Init => Bidirectional
  BY AbsentIsNoValue DEF Init, EmptyTables, Bidirectional, MapsInverse

LEMMA InverseNext ==
  Inv /\ Bidirectional /\ AddressesApart' /\ [Next]_vars => Bidirectional'
<1> SUFFICES ASSUME Inv, Bidirectional, AddressesApart', [Next]_vars
             PROVE  Bidirectional'
  OBVIOUS
<1>1. ASSUME NEW n \in NodeIds, NEW a \in Adverts, Store(n, a)
      PROVE  Bidirectional'
  <2>1. CASE ~Verify(dht, n) /\ dht' = Insert(dht, n, a)
    BY <2>1, InsertInverse DEF Inv, Bidirectional, AddressesApart
  <2>2. CASE Verify(dht, n) /\ dht' = Insert(Remove(dht, n), n, a)
    <3>1. Coherent(Remove(dht, n)) /\ MapsInverse(Remove(dht, n))
      BY RemoveCoherent, RemoveInverse DEF Inv, Bidirectional
    <3>2. ~Verify(Remove(dht, n), n)
      BY <2>2, RemoveNodes DEF Inv, Coherent
    <3> QED
      BY <2>2, <3>1, <3>2, InsertInverse DEF Bidirectional, AddressesApart
  <2>3. CASE UNCHANGED dht
    BY <2>3 DEF Bidirectional
  <2> QED
    BY <1>1, <2>1, <2>2, <2>3 DEF Store
<1>2. ASSUME NEW p \in sweep, RemoveExpired(p)
      PROVE  Bidirectional'
  BY <1>2, SweepPairs, RemoveInverse DEF RemoveExpired, Inv, Bidirectional
<1>3. CASE UNCHANGED dht
  BY <1>3 DEF Bidirectional
<1> QED
  BY <1>1, <1>2, <1>3 DEF Next, CleanByExpiryTime, Tick, vars

(***************************************************************************)
(* The documented promise holds as long as no two nodes are registered     *)
(* under the same address, through every replacement, move, removal and    *)
(* sweep.  The run dht_phantom_address shows that it does not without      *)
(* this: two nodes at one address are what it takes.                       *)
(***************************************************************************)
THEOREM AddressesBothWays == Spec /\ []AddressesApart => []Bidirectional
  BY InverseInit, InverseNext, Invariance, PTL DEF Spec

\* Under the same condition no address is left behind by its node.
THEOREM NoPhantomWhenApart == Spec /\ []AddressesApart => []NoPhantomAddress
<1>1. Bidirectional => NoPhantomAddress
  BY DEF Bidirectional, MapsInverse, NoPhantomAddress
<1> QED
  BY <1>1, AddressesBothWays, PTL

-----------------------------------------------------------------------------
(* The refinement.                                                         *)

\* What the registry shows of one node.
LEMMA ViewOfNode ==
  ASSUME NEW m \in NodeIds
  PROVE  RegistryView[m] = IF Verify(dht, m) /\ m \notin Swept THEN Advert(m)
                                                               ELSE Absent
  BY DEF RegistryView

\* An advertisement is a record, which Absent is not.
LEMMA AdvertPresent ==
  ASSUME Inv, NEW m \in NodeIds, Verify(dht, m)
  PROVE  Advert(m) \in Adverts
<1>1. SetAt(dht.idToShards, m) \in SUBSET Shards
  BY DEF Inv, Coherent, Tables, Map, SetAt
<1>2. /\ dht.idToIp[m] \in Ips
      /\ dht.idToGeneration[m] \in Generations
      /\ dht.idToExpiry[m] \in Times
      /\ dht.idToInformation[m] \in Infos
  BY DEF Inv, Coherent, SameNodes, Tables, Map, Verify
<1> QED
  BY <1>1, <1>2 DEF Advert, Adverts

(***************************************************************************)
(* Entering an advertisement of a node that is not known changes the view  *)
(* at that node only, to exactly the advertisement.                        *)
(***************************************************************************)
LEMMA InsertView ==
  ASSUME NEW t, Coherent(t), NEW n \in NodeIds, ~Verify(t, n), NEW a \in Adverts,
         dht' = Insert(t, n, a)
  PROVE  /\ Verify(dht, n)'
         /\ Advert(n)' = a
         /\ \A m \in NodeIds \ {n} :
              /\ Verify(dht, m)' <=> Verify(t, m)
              /\ Advert(m)' = [ip          |-> t.idToIp[m],
                               generation  |-> t.idToGeneration[m],
                               expiry      |-> t.idToExpiry[m],
                               shards      |-> SetAt(t.idToShards, m),
                               information |-> t.idToInformation[m]]
<1> DEFINE u == Insert(t, n, a)
<1> HIDE DEF u
<1>0. dht' = u
  BY DEF u
<1>1. t \in Tables
  BY DEF Coherent
<1>2. \A m \in NodeIds :
        /\ Verify(u, m) <=> Verify(t, m) \/ m = n
        /\ u.idToIp[m] = IF m = n THEN a.ip ELSE t.idToIp[m]
        /\ u.idToGeneration[m] = IF m = n THEN a.generation ELSE t.idToGeneration[m]
        /\ u.idToExpiry[m] = IF m = n THEN a.expiry ELSE t.idToExpiry[m]
        /\ u.idToInformation[m] = IF m = n THEN a.information ELSE t.idToInformation[m]
  BY <1>1, InsertNodes DEF u
<1>3. /\ SetAt(u.idToShards, n) = a.shards
      /\ \A m \in NodeIds \ {n} : u.idToShards[m] = t.idToShards[m]
  <2>1. SetAt(t.idToShards, n) = {}
    BY DEF Coherent, SameNodes, SetAt
  <2>2. SetAt(u.idToShards, n) = SetAt(t.idToShards, n) \cup a.shards
    BY <1>1, InsertShards DEF u
  <2>3. \A m \in NodeIds \ {n} : u.idToShards[m] = t.idToShards[m]
    BY <1>1, InsertShards DEF u
  <2> QED
    BY <2>1, <2>2, <2>3
<1>4. \A m \in NodeIds \ {n} : SetAt(u.idToShards, m) = SetAt(t.idToShards, m)
  BY <1>3 DEF SetAt
<1>5. [ip |-> a.ip, generation |-> a.generation, expiry |-> a.expiry,
       shards |-> a.shards, information |-> a.information] = a
  BY DEF Adverts
<1> QED
  BY <1>0, <1>2, <1>3, <1>4, <1>5 DEF Verify, Advert

\* Replacing a known node's entry does not change what is seen of the others.
LEMMA ReplaceView ==
  ASSUME Inv, NEW n \in NodeIds, Verify(dht, n), NEW a \in Adverts,
         dht' = Insert(Remove(dht, n), n, a)
  PROVE  /\ Verify(dht, n)'
         /\ Advert(n)' = a
         /\ \A m \in NodeIds \ {n} : /\ Verify(dht, m)' <=> Verify(dht, m)
                                     /\ Advert(m)' = Advert(m)
<1> DEFINE t == Remove(dht, n)
<1> HIDE DEF t
<1>1. Coherent(t)
  BY RemoveCoherent DEF Inv, t
<1>2. \A m \in NodeIds :
        /\ Verify(t, m) <=> Verify(dht, m) /\ m # n
        /\ t.idToIp[m] = IF m = n THEN Absent ELSE dht.idToIp[m]
        /\ t.idToGeneration[m] = IF m = n THEN Absent ELSE dht.idToGeneration[m]
        /\ t.idToExpiry[m] = IF m = n THEN Absent ELSE dht.idToExpiry[m]
        /\ t.idToShards[m] = IF m = n THEN Absent ELSE dht.idToShards[m]
        /\ t.idToInformation[m] = IF m = n THEN Absent ELSE dht.idToInformation[m]
  BY RemoveNodes DEF Inv, Coherent, t
<1>3. dht' = Insert(t, n, a) /\ ~Verify(t, n)
  BY <1>2 DEF t
<1>4. /\ Verify(dht, n)'
      /\ Advert(n)' = a
      /\ \A m \in NodeIds \ {n} :
           /\ Verify(dht, m)' <=> Verify(t, m)
           /\ Advert(m)' = [ip          |-> t.idToIp[m],
                            generation  |-> t.idToGeneration[m],
                            expiry      |-> t.idToExpiry[m],
                            shards      |-> SetAt(t.idToShards, m),
                            information |-> t.idToInformation[m]]
  BY <1>1, <1>3, InsertView
<1>5. \A m \in NodeIds \ {n} : SetAt(t.idToShards, m) = SetAt(dht.idToShards, m)
  BY <1>2 DEF SetAt
<1> QED
  BY <1>2, <1>4, <1>5 DEF Advert

\* A store that is not ignored changes what is seen of one node only.
LEMMA StoreView ==
  ASSUME Inv, NEW n \in NodeIds, NEW a \in Adverts, Store(n, a), dht' # dht
  PROVE  /\ Verify(dht, n)'
         /\ Verify(dht, n) => Supersedes(dht, n, a)
         /\ Advert(n)' = a
         /\ \A m \in NodeIds \ {n} : /\ Verify(dht, m)' <=> Verify(dht, m)
                                     /\ Advert(m)' = Advert(m)
<1>1. CASE ~Verify(dht, n) /\ dht' = Insert(dht, n, a)
  BY <1>1, InsertView DEF Inv, Advert
<1>2. CASE Verify(dht, n) /\ Supersedes(dht, n, a) /\ dht' = Insert(Remove(dht, n), n, a)
  BY <1>2, ReplaceView
<1> QED
  BY <1>1, <1>2 DEF Store

\* An iteration of a sweep changes what is seen of one node only.
LEMMA RemoveView ==
  ASSUME Inv, NEW p \in sweep, RemoveExpired(p)
  PROVE  /\ ~Verify(dht, p[2])'
         /\ \A m \in NodeIds \ {p[2]} : /\ Verify(dht, m)' <=> Verify(dht, m)
                                        /\ Advert(m)' = Advert(m)
<1>1. p[2] \in NodeIds /\ Verify(dht, p[2])
  BY SweepPairs
<1>2. dht \in Tables /\ dht' = Remove(dht, p[2])
  BY DEF RemoveExpired, Inv, Coherent
<1>3. \A m \in NodeIds :
        LET n == p[2] IN
        /\ Verify(dht', m) <=> Verify(dht, m) /\ m # n
        /\ dht'.idToIp[m] = IF m = n THEN Absent ELSE dht.idToIp[m]
        /\ dht'.idToGeneration[m] = IF m = n THEN Absent ELSE dht.idToGeneration[m]
        /\ dht'.idToExpiry[m] = IF m = n THEN Absent ELSE dht.idToExpiry[m]
        /\ dht'.idToShards[m] = IF m = n THEN Absent ELSE dht.idToShards[m]
        /\ dht'.idToInformation[m] = IF m = n THEN Absent ELSE dht.idToInformation[m]
  BY <1>1, <1>2, RemoveNodes
<1> QED
  BY <1>1, <1>3 DEF Verify, Advert, SetAt

LEMMA RefinementInit == Init => Registry!Init
<1> SUFFICES ASSUME Init PROVE Registry!Init
  OBVIOUS
<1>1. \A n \in NodeIds : ~Verify(dht, n)
  BY DEF Init, EmptyTables, Verify
<1> QED
  BY <1>1 DEF Init, RegistryView, Registry!Init

LEMMA RefinementNext == Inv /\ [Next]_vars => [Registry!Next]_(Registry!vars)
<1> SUFFICES ASSUME Inv, [Next]_vars
             PROVE  [Registry!Next]_(Registry!vars)
  OBVIOUS
<1>1. \A m \in NodeIds : RegistryView[m] = IF Verify(dht, m) /\ m \notin Swept
                                           THEN Advert(m) ELSE Absent
  BY ViewOfNode
<1>2. \A m \in NodeIds : RegistryView'[m] = IF Verify(dht, m)' /\ m \notin Swept'
                                            THEN Advert(m)' ELSE Absent
  BY DEF RegistryView
<1>3. \A m \in NodeIds : Verify(dht, m) => Advert(m) # Absent
  BY AdvertPresent, AbsentIsNoAdvert
<1>4. ASSUME NEW n \in NodeIds, NEW a \in Adverts, Store(n, a)
      PROVE  [Registry!Next]_(Registry!vars)
  <2>1. Swept = {} /\ Swept' = {} /\ now' = now
    BY <1>4 DEF Store, Swept
  <2>2. CASE UNCHANGED dht
    BY <2>1, <2>2, <1>4 DEF Store, Registry!vars, RegistryView, Advert, Swept
  <2>3. CASE dht' # dht
    <3>1. /\ Verify(dht, n)'
          /\ Verify(dht, n) => Supersedes(dht, n, a)
          /\ Advert(n)' = a
          /\ \A m \in NodeIds \ {n} : /\ Verify(dht, m)' <=> Verify(dht, m)
                                      /\ Advert(m)' = Advert(m)
      BY <1>4, <2>3, StoreView
    <3>2. RegistryView' = [RegistryView EXCEPT ![n] = a]
      BY <1>1, <1>2, <2>1, <3>1 DEF RegistryView
    <3>3. Registry!Registered(n) => RegistryView[n].generation < a.generation
      <4>1. Registry!Registered(n) => Verify(dht, n) /\ RegistryView[n] = Advert(n)
        BY <1>1, <2>1 DEF Registry!Registered
      <4>2. Advert(n).generation = dht.idToGeneration[n]
        BY DEF Advert
      <4> QED
        BY <3>1, <4>1, <4>2 DEF Supersedes
    <3>4. a \in Registry!Adverts
      BY DEF Registry!Adverts, Adverts
    <3> QED
      BY <2>1, <3>2, <3>3, <3>4 DEF Registry!Advertise, Registry!Next
  <2> QED
    BY <2>2, <2>3
<1>5. CASE CleanByExpiryTime
  <2>1. Swept = {} /\ UNCHANGED <<dht, now>>
    BY <1>5 DEF CleanByExpiryTime, Swept
  <2>2. \A m \in NodeIds : m \in Swept' <=> Verify(dht, m) /\ dht.idToExpiry[m] <= now
    <3>1. sweep' = {p \in dht.expiryOrder : p[1] <= now}
      BY <1>5 DEF CleanByExpiryTime
    <3>2. dht.expiryOrder = {<<dht.idToExpiry[k], k>> : k \in {j \in NodeIds : Verify(dht, j)}}
      BY DEF Inv, Coherent, OnePairPerNode
    <3>3. \A m \in NodeIds : m \in Swept' <=> \E p \in sweep' : p[2] = m
      BY DEF Swept
    <3>4. \A m \in NodeIds : Verify(dht, m) <=> <<dht.idToExpiry[m], m>> \in dht.expiryOrder
      BY <3>2
    <3> TAKE m \in NodeIds
    <3>5. ASSUME NEW p \in sweep', p[2] = m
          PROVE  Verify(dht, m) /\ dht.idToExpiry[m] <= now
      BY <3>1, <3>2, <3>5
    <3>6. ASSUME Verify(dht, m), dht.idToExpiry[m] <= now
          PROVE  \E p \in sweep' : p[2] = m
      <4>1. <<dht.idToExpiry[m], m>> \in sweep'
        BY <3>1, <3>4, <3>6
      <4> QED
        BY <4>1
    <3> QED
      BY <3>3, <3>5, <3>6
  <2>3. \A m \in NodeIds : Advert(m)' = Advert(m) /\ (Verify(dht, m)' <=> Verify(dht, m))
    BY <2>1 DEF Advert
  <2>4. \A m \in NodeIds : Advert(m).expiry = dht.idToExpiry[m]
    BY DEF Advert
  <2>5. RegistryView' = [n \in NodeIds |->
                           IF Registry!Registered(n) /\ RegistryView[n].expiry <= now
                           THEN Absent ELSE RegistryView[n]]
    BY <1>1, <1>2, <1>3, <2>1, <2>2, <2>3, <2>4 DEF Registry!Registered, RegistryView
  <2> QED
    BY <2>1, <2>5 DEF Registry!CleanExpired, Registry!Next
<1>6. ASSUME NEW p \in sweep, RemoveExpired(p)
      PROVE  [Registry!Next]_(Registry!vars)
  <2>1. /\ p[2] \in NodeIds /\ Verify(dht, p[2]) /\ p[2] \in Swept
        /\ p = <<dht.idToExpiry[p[2]], p[2]>>
    BY SweepPairs DEF Swept
  <2>2. \A m \in NodeIds \ {p[2]} : m \in Swept' <=> m \in Swept
    BY <1>6, <2>1 DEF RemoveExpired, Swept
  <2>3. /\ ~Verify(dht, p[2])'
        /\ \A m \in NodeIds \ {p[2]} : /\ Verify(dht, m)' <=> Verify(dht, m)
                                       /\ Advert(m)' = Advert(m)
    BY <1>6, RemoveView
  <2>4. RegistryView' = RegistryView
    BY <1>1, <1>2, <2>1, <2>2, <2>3 DEF RegistryView
  <2> QED
    BY <1>6, <2>4 DEF RemoveExpired, Registry!vars
<1>7. CASE Tick
  <2>1. RegistryView' = RegistryView
    BY <1>7 DEF Tick, RegistryView, Advert, Swept
  <2> QED
    BY <1>7, <2>1 DEF Tick, Registry!Tick, Registry!Next
<1>8. CASE UNCHANGED vars
  BY <1>8 DEF vars, RegistryView, Advert, Swept, Registry!vars
<1> QED
  BY <1>4, <1>5, <1>6, <1>7, <1>8 DEF Next

(***************************************************************************)
(* DHT_operation implements the registry: stores act on one node as a      *)
(* whole, stale ones not at all, and a whole sweep takes effect at once,   *)
(* whatever order its iterations run in.                                   *)
(***************************************************************************)
THEOREM Refinement == Spec => ImplementsRegistry
  BY RefinementInit, RefinementNext, Invariance, PTL
  DEF Spec, ImplementsRegistry, Registry!Spec

=============================================================================
