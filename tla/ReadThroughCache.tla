-------------------------- MODULE ReadThroughCache --------------------------
(***************************************************************************)
(* What FileCache promises its clients: a map from paths to the version    *)
(* that the upstream served for the target that was first fetched to the   *)
(* path.  It promises no more than that: a target is not sure to get a     *)
(* version of its own if another target names the same path, or if the     *)
(* path was there from the beginning.  A fetch takes effect at once and    *)
(* for good, every body is of the version in the map, and a client is      *)
(* refused only what is not there.  The files that fetch_from_upstream     *)
(* fills piece by piece, under their final names, are an implementation of *)
(* this map (module FileCache).                                            *)
(***************************************************************************)
CONSTANTS
  Clients,      \* package clients, one request at a time each
  Targets,      \* what clients ask for, and the upstream serves
  Paths,        \* what the map is from
  CachePath,    \* the path of every target
  Versions,     \* the versions an upstream file goes through
  Absent        \* marks a path that has not been fetched

VARIABLES
  upstream,     \* the version of every target the upstream serves now
  cache,        \* the version of every path in the cache, or Absent
  client        \* what every client has asked and received

vars == <<upstream, cache, client>>

\* seen: the versions that the pieces received so far come from
ClientStates == [stage: {"idle", "waiting", "served", "refused"},
                 target: Targets, path: Paths, seen: SUBSET Versions]

TypeOK == /\ upstream \in [Targets -> Versions]
          /\ cache \in [Paths -> Versions \cup {Absent}]
          /\ client \in [Clients -> ClientStates]

Asking(stage, t) == [stage |-> stage, target |-> t, path |-> CachePath[t], seen |-> {}]

Init == /\ upstream \in [Targets -> Versions]
        /\ cache \in [Paths -> Versions \cup {Absent}]
        /\ client \in [Clients -> {Asking("idle", t) : t \in Targets}]

Publish(t) ==
  /\ \E v \in Versions : upstream' = [upstream EXCEPT ![t] = v]
  /\ UNCHANGED <<cache, client>>

Ask(c, t) ==
  /\ client[c].stage # "waiting"
  /\ client' = [client EXCEPT ![c] = Asking("waiting", t)]
  /\ UNCHANGED <<upstream, cache>>

Waiting(c) == client[c].stage = "waiting"

\* The answer of the upstream is in the cache at once.
Fetch(c) ==
  /\ Waiting(c) /\ cache[client[c].path] = Absent
  /\ cache' = [cache EXCEPT ![client[c].path] = upstream[client[c].target]]
  /\ UNCHANGED <<upstream, client>>

Serve(c) ==
  /\ Waiting(c) /\ cache[client[c].path] # Absent
  /\ client' = [client EXCEPT ![c].stage = "served"]
  /\ UNCHANGED <<upstream, cache>>

Refuse(c) ==
  /\ Waiting(c) /\ cache[client[c].path] = Absent
  /\ client' = [client EXCEPT ![c].stage = "refused"]
  /\ UNCHANGED <<upstream, cache>>

\* The body arrives a piece at a time, each of the version in the cache.
Receive(c) ==
  /\ client[c].stage = "served" /\ cache[client[c].path] # Absent
  /\ client' = [client EXCEPT ![c].seen = {cache[client[c].path]}]
  /\ UNCHANGED <<upstream, cache>>

\* Clients lose their connections, but nothing is lost from the cache.
Lose(lost) ==
  /\ \A c \in lost : client[c].stage \in {"waiting", "served"}
  /\ client' = [c \in Clients |-> IF c \in lost THEN [client[c] EXCEPT !.stage = "idle"]
                                                ELSE client[c]]
  /\ UNCHANGED <<upstream, cache>>

Next == \/ \E t \in Targets : Publish(t)
        \/ \E c \in Clients, t \in Targets : Ask(c, t)
        \/ \E c \in Clients : Fetch(c) \/ Serve(c) \/ Refuse(c) \/ Receive(c)
        \/ \E lost \in SUBSET Clients : Lose(lost)

Spec == Init /\ [][Next]_vars

=============================================================================
