---------------------------- MODULE NodeRegistry ----------------------------
(***************************************************************************)
(* What pacPrism's distributed hash table promises its users: a map from   *)
(* node ids to the advertisement each node made last.  The nine containers *)
(* of DHT_operation (module DhtIndex) are an implementation of this map.   *)
(***************************************************************************)
EXTENDS Integers

CONSTANTS
  NodeIds,      \* the ids nodes advertise themselves under
  Ips,          \* the addresses they advertise
  Shards,       \* the shard ids they hold
  Generations,  \* generation timestamps, ordered by <
  Times,        \* expiry timestamps and clock readings, ordered by <=
  Infos,        \* the opaque information strings
  Absent        \* marks an id with no advertisement

\* struct dht_entry without its node_id
Adverts == [ip: Ips, generation: Generations, expiry: Times,
            shards: SUBSET Shards, information: Infos]

VARIABLES
  registry,     \* the advertisement of every node, or Absent
  now           \* the reading of the wall clock

vars == <<registry, now>>

TypeOK == /\ registry \in [NodeIds -> {Absent} \cup Adverts]
          /\ now \in Times

Registered(n) == registry[n] # Absent

Init == /\ registry = [n \in NodeIds |-> Absent]
        /\ now \in Times

(***************************************************************************)
(* A node advertises itself.  Only an unknown node or a strictly newer     *)
(* generation changes the registry; everything else is ignored, which is a *)
(* stuttering step here.                                                   *)
(***************************************************************************)
Advertise(n, a) ==
  /\ Registered(n) => registry[n].generation < a.generation
  /\ registry' = [registry EXCEPT ![n] = a]
  /\ UNCHANGED now

\* Every advertisement that has expired disappears, in one step.
CleanExpired ==
  /\ registry' = [n \in NodeIds |->
                    IF Registered(n) /\ registry[n].expiry <= now
                    THEN Absent ELSE registry[n]]
  /\ UNCHANGED now

\* The wall clock may be set to anything, backwards included.
Tick == now' \in Times /\ UNCHANGED registry

Next == \/ Tick
        \/ CleanExpired
        \/ \E n \in NodeIds, a \in Adverts : Advertise(n, a)

Spec == Init /\ [][Next]_vars

=============================================================================
