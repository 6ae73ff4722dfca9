----------------------------- MODULE MCDhtIndex -----------------------------
(***************************************************************************)
(* Finite instances of DhtIndex for TLC.  Ids, addresses and shards are    *)
(* model values, timestamps a few consecutive integers.  The generation    *)
(* and the expiry time of a node, and the clock, range independently, so   *)
(* every order of them occurs.  No value is both a generation and a time:  *)
(* nothing compares the two, and one in place of the other is noticed.     *)
(***************************************************************************)
EXTENDS DhtIndex, TLC

CONSTANTS n1, n2,                  \* two nodes beside the one with the empty id
          MaxGeneration, MaxTime   \* bounds on the timestamps

MCNodeIds == {n1, n2, EmptyId}

MCTimes == 1..MaxTime
MCGenerations == (MaxTime + 1)..(MaxTime + MaxGeneration)

(***************************************************************************)
(* Addresses, shards and the nodes with a name may be renamed freely: no   *)
(* definition names one of them.  EmptyId is distinguished.                *)
(***************************************************************************)
Symmetry == Permutations({n1, n2}) \cup Permutations(Ips) \cup Permutations(Shards)

=============================================================================
