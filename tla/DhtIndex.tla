------------------------------ MODULE DhtIndex ------------------------------
(***************************************************************************)
(* DHT_operation: the registry of nodes a pacPrism server keeps in nine    *)
(* containers that must agree with each other.                             *)
(*                                                                         *)
(* The containers are the fields of the record dht.  An unordered_map is a *)
(* total function that is Absent on the keys it lacks; the ordered set of  *)
(* (expiry, id) pairs is a set of pairs.  The server is single-threaded,   *)
(* so store_entry is one step.  clean_by_expiry_time is a loop: its first  *)
(* pass (CleanByExpiryTime) collects the expired pairs in sweep, and each  *)
(* iteration of its second pass (RemoveExpired) removes one of them.  No   *)
(* other handler runs while sweep is not empty.                            *)
(***************************************************************************)
EXTENDS Integers

CONSTANTS
  NodeIds,      \* the ids nodes advertise themselves under
  Ips,          \* the addresses they advertise
  Shards,       \* the shard ids they hold
  Generations,  \* values of generation_timestamp
  Times,        \* values of expiry_timestamp and of the wall clock
  Infos,        \* the opaque information strings
  Absent,       \* marks a key that a map does not contain
  EmptyId       \* the empty string, the value operator[] gives a new key

(***************************************************************************)
(* The timestamps are int64_t; nothing here adds to them, so they cannot   *)
(* overflow.  EmptyId may or may not be one of NodeIds: from_json accepts  *)
(* an empty node_id.                                                       *)
(***************************************************************************)
ASSUME TimestampsAreIntegers == Generations \subseteq Int /\ Times \subseteq Int

ASSUME AbsentIsNoValue ==
  /\ Absent # EmptyId
  /\ Absent \notin NodeIds /\ Absent \notin Ips /\ Absent \notin Infos
  /\ Absent \notin Generations /\ Absent \notin Times /\ Absent # 0
  /\ \A N \in SUBSET NodeIds : Absent # N
  /\ \A S \in SUBSET Shards : Absent # S

\* struct dht_entry without its node_id
Adverts == [ip: Ips, generation: Generations, expiry: Times,
            shards: SUBSET Shards, information: Infos]

ASSUME AbsentIsNoAdvert == \A a \in Adverts : Absent # a

Map(K, V) == [K -> {Absent} \cup V]

Tables == [ipToId        : Map(Ips, NodeIds \cup {EmptyId}),
           idToIp        : Map(NodeIds, Ips),
           idToGeneration: Map(NodeIds, Generations),
           expiryOrder   : SUBSET (Times \X NodeIds),
           idToExpiry    : Map(NodeIds, Times),
           shardToIds    : Map(Shards, SUBSET NodeIds),
           idToShards    : Map(NodeIds, SUBSET Shards),
           idToInformation : Map(NodeIds, Infos),
           idToLiveness  : Map(NodeIds, {0})]

VARIABLES
  dht,          \* the nine containers
  sweep,        \* the pairs clean_by_expiry_time still has to remove
  now           \* the wall clock, read by clean_by_expiry_time

vars == <<dht, sweep, now>>

-----------------------------------------------------------------------------
(* What the member functions do to the containers.                         *)

EmptyTables ==
  [ipToId         |-> [i \in Ips |-> Absent],
   idToIp         |-> [n \in NodeIds |-> Absent],
   idToGeneration |-> [n \in NodeIds |-> Absent],
   expiryOrder    |-> {},
   idToExpiry     |-> [n \in NodeIds |-> Absent],
   shardToIds     |-> [s \in Shards |-> Absent],
   idToShards     |-> [n \in NodeIds |-> Absent],
   idToInformation |-> [n \in NodeIds |-> Absent],
   idToLiveness   |-> [n \in NodeIds |-> Absent]]

\* verify_entry: the generation map decides whether a node is known
Verify(t, n) == t.idToGeneration[n] # Absent

\* query_node_ids_by_shard_id: Absent stands for the null pointer
Query(t, s) == t.shardToIds[s]

\* map[key] for a map of sets: a missing key reads as the empty set
SetAt(m, k) == IF m[k] = Absent THEN {} ELSE m[k]

Without(m, k) == [m EXCEPT ![k] = Absent]

(***************************************************************************)
(* Faulty variants of the definitions below.  No specification uses them:  *)
(* each stands for a slip one could make in the code, and shows that a     *)
(* property would notice it.                                               *)
(***************************************************************************)

\* the address is left behind
FaultyAddressesAfterRemoval(t, n) == t.ipToId

\* the node's shard ids are erased before the loop that walks them
FaultyHoldersAfterRemoval(t, n) == t.shardToIds

\* the expiry time is erased before it is used to find the pair
FaultyExpiryOrderAfterRemoval(t, n) == t.expiryOrder \ {<<0, n>>}

\* the pair is built with the other timestamp, which is an int64_t as well
FaultyExpiryOrderAfterInsert(t, n, a) == t.expiryOrder \cup {<<a.generation, n>>}

\* an entry of the same generation replaces the stored one
FaultySupersedes(t, n, a) == t.idToGeneration[n] <= a.generation

\* an entry replaces the stored one whatever its generation
FaultyAccepts(t, n, a) == TRUE

\* an entry that expires this very second is left
FaultyCleanByExpiryTime ==
  /\ sweep = {}
  /\ sweep' = {p \in dht.expiryOrder : p[1] < now}
  /\ UNCHANGED <<dht, now>>

(***************************************************************************)
(* remove_entry.  The comparison of the owner of the node's address uses   *)
(* operator[], which inserts the key with an empty id when it is missing;  *)
(* that key stays unless the removed node's own id is empty.  A shard that *)
(* loses its last holder keeps its key, with an empty set.                 *)
(***************************************************************************)
AddressesAfterRemoval(t, n) ==
  LET ip    == t.idToIp[n]
      owner == IF t.ipToId[ip] = Absent THEN EmptyId ELSE t.ipToId[ip]
  IN  [t.ipToId EXCEPT ![ip] = IF owner = n THEN Absent ELSE owner]

HoldersAfterRemoval(t, n) ==
  [s \in Shards |-> IF s \in SetAt(t.idToShards, n)
                    THEN SetAt(t.shardToIds, s) \ {n} ELSE t.shardToIds[s]]

ExpiryOrderAfterRemoval(t, n) == t.expiryOrder \ {<<t.idToExpiry[n], n>>}

Remove(t, n) ==
  IF ~Verify(t, n) THEN t ELSE
  [ipToId         |-> AddressesAfterRemoval(t, n),
   idToIp         |-> Without(t.idToIp, n),
   idToGeneration |-> Without(t.idToGeneration, n),
   expiryOrder    |-> ExpiryOrderAfterRemoval(t, n),
   idToExpiry     |-> Without(t.idToExpiry, n),
   shardToIds     |-> HoldersAfterRemoval(t, n),
   idToShards     |-> Without(t.idToShards, n),
   idToInformation |-> Without(t.idToInformation, n),
   idToLiveness   |-> Without(t.idToLiveness, n)]

\* The updates at the end of store_entry.
ExpiryOrderAfterInsert(t, n, a) == t.expiryOrder \cup {<<a.expiry, n>>}

Insert(t, n, a) ==
  [ipToId         |-> [t.ipToId EXCEPT ![a.ip] = n],
   idToIp         |-> [t.idToIp EXCEPT ![n] = a.ip],
   idToGeneration |-> [t.idToGeneration EXCEPT ![n] = a.generation],
   expiryOrder    |-> ExpiryOrderAfterInsert(t, n, a),
   idToExpiry     |-> [t.idToExpiry EXCEPT ![n] = a.expiry],
   shardToIds     |-> [s \in Shards |-> IF s \in a.shards
                                        THEN SetAt(t.shardToIds, s) \cup {n}
                                        ELSE t.shardToIds[s]],
   idToShards     |-> IF a.shards = {} THEN t.idToShards
                      ELSE [t.idToShards EXCEPT
                              ![n] = SetAt(t.idToShards, n) \cup a.shards],
   idToInformation |-> [t.idToInformation EXCEPT ![n] = a.information],
   idToLiveness   |-> [t.idToLiveness EXCEPT ![n] = 0]]

\* store_entry replaces a known node's entry only by a newer one.
Supersedes(t, n, a) == t.idToGeneration[n] < a.generation

-----------------------------------------------------------------------------
(* The handlers.                                                           *)

Init == /\ dht = EmptyTables
        /\ sweep = {}
        /\ now \in Times

\* store_entry of an advertisement a by node n
Store(n, a) ==
  /\ sweep = {}
  /\ \/ /\ ~Verify(dht, n)
        /\ dht' = Insert(dht, n, a)
     \/ /\ Verify(dht, n) /\ Supersedes(dht, n, a)
        /\ dht' = Insert(Remove(dht, n), n, a)
     \/ /\ Verify(dht, n) /\ ~Supersedes(dht, n, a)
        /\ UNCHANGED dht                              \* "else return"
  /\ UNCHANGED <<sweep, now>>

\* first pass of clean_by_expiry_time: the prefix of the ordered set
CleanByExpiryTime ==
  /\ sweep = {}
  /\ sweep' = {p \in dht.expiryOrder : p[1] <= now}
  /\ UNCHANGED <<dht, now>>

(***************************************************************************)
(* One iteration of the second pass.  The pairs were collected in expiry   *)
(* order; among equal expiry times the order is that of the id strings,    *)
(* which is arbitrary here.                                                *)
(***************************************************************************)
RemoveExpired(p) ==
  /\ \A q \in sweep : p[1] <= q[1]
  /\ dht' = Remove(dht, p[2])
  /\ sweep' = sweep \ {p}
  /\ UNCHANGED now

(***************************************************************************)
(* system_clock is not monotonic.  clean_by_expiry_time reads it once, so  *)
(* while a sweep runs now stands for the value it read.                    *)
(***************************************************************************)
Tick == sweep = {} /\ now' \in Times /\ UNCHANGED <<dht, sweep>>

Next == \/ \E n \in NodeIds, a \in Adverts : Store(n, a)
        \/ CleanByExpiryTime
        \/ \E p \in sweep : RemoveExpired(p)
        \/ Tick

Spec == Init /\ [][Next]_vars

-----------------------------------------------------------------------------
(* Properties.                                                             *)

TypeOK == /\ dht \in Tables
          /\ sweep \subseteq Times \X NodeIds
          /\ now \in Times

(***************************************************************************)
(* All containers keyed by node id know the same nodes, and the ordered    *)
(* set has exactly one pair per node, carrying that node's expiry time.    *)
(* remove_entry and store_entry must keep this in step by hand, with the   *)
(* old expiry time looked up before it is erased.                          *)
(***************************************************************************)
SameNodes(t) ==
  \A n \in NodeIds : /\ t.idToIp[n] # Absent          <=> Verify(t, n)
                     /\ t.idToExpiry[n] # Absent      <=> Verify(t, n)
                     /\ t.idToInformation[n] # Absent <=> Verify(t, n)
                     /\ t.idToLiveness[n] # Absent    <=> Verify(t, n)
                     /\ t.idToShards[n] # Absent      => Verify(t, n)

OnePairPerNode(t) ==
  t.expiryOrder = {<<t.idToExpiry[n], n>> : n \in {m \in NodeIds : Verify(t, m)}}

IndexConsistent == SameNodes(dht) /\ OnePairPerNode(dht)

(***************************************************************************)
(* A query for a shard returns exactly the nodes whose current             *)
(* advertisement lists the shard: no removed node, no node of an older     *)
(* advertisement, and none forgotten.                                      *)
(***************************************************************************)
HoldersExact(t) ==
  \A s \in Shards :
    SetAt(t.shardToIds, s) = {n \in NodeIds : s \in SetAt(t.idToShards, n)}

ShardIndexExact == HoldersExact(dht)

(***************************************************************************)
(* An address never resolves to a node that has left or has moved: when    *)
(* it resolves to an id at all, that node's current address is this one.   *)
(* remove_entry erases the address only if it still belongs to the node.   *)
(***************************************************************************)
AddressesCurrent(t) ==
  \A i \in Ips : t.ipToId[i] \notin {Absent, EmptyId} => t.idToIp[t.ipToId[i]] = i

IpForward == AddressesCurrent(dht)

(***************************************************************************)
(* The two passes of clean_by_expiry_time agree: at every iteration what   *)
(* is left of the collected list is exactly the entries that are still     *)
(* expired, so that the loop removes those, all of them and nothing else.  *)
(***************************************************************************)
SweepExact ==
  sweep # {} => sweep = {p \in dht.expiryOrder : p[1] <= now}

(***************************************************************************)
(* The containers implement the registry.  An entry that a running sweep   *)
(* has collected counts as removed, so the sweep takes effect at once and  *)
(* no partial state is visible.                                            *)
(***************************************************************************)
Swept == {p[2] : p \in sweep}

Advert(n) == [ip          |-> dht.idToIp[n],
              generation  |-> dht.idToGeneration[n],
              expiry      |-> dht.idToExpiry[n],
              shards      |-> SetAt(dht.idToShards, n),
              information |-> dht.idToInformation[n]]

RegistryView == [n \in NodeIds |-> IF Verify(dht, n) /\ n \notin Swept
                                   THEN Advert(n) ELSE Absent]

Registry == INSTANCE NodeRegistry WITH registry <- RegistryView

ImplementsRegistry == Registry!Spec

-----------------------------------------------------------------------------
(* What the documentation says of the containers and the code does not do. *)

(***************************************************************************)
(* docs/dht_operation.md:170, remove_entry: "Complete removal of a node    *)
(* from all 9 index structures" and :183 "Ensures all indexes remain       *)
(* consistent".  Every address in the address map is some node's address.  *)
(***************************************************************************)
NoPhantomAddress ==
  \A i \in Ips : dht.ipToId[i] # Absent =>
                   \E n \in NodeIds : dht.idToIp[n] = i

=============================================================================
