----------------------------- MODULE MCNodeApi ------------------------------
(***************************************************************************)
(* A finite instance of NodeApi for TLC.  The requests are: every entry in *)
(* a well-formed store; every operation in every spelling, with each       *)
(* method, for every node and shard; and those that are not a node's.  As  *)
(* in MCDhtIndex, no value is both a generation and a time.                *)
(***************************************************************************)
EXTENDS NodeApi

CONSTANTS n1, n2, s1

MCNodeIds == {n1, n2}
MCShards == {s1}
MCTimes == 1..2
MCGenerations == 3..4

StoreRequest(headers, body) ==
  [headers |-> headers, method |-> "POST", api |-> TRUE, word |-> "store",
   mark |-> "none", text |-> Blank, body |-> body]

Stores == {StoreRequest(Identified, b) : b \in Bodies}

Spellings == [headers: {Identified}, method: {"GET", "POST"}, api: {TRUE},
              word: Words, mark: Marks, text: Texts, body: {Absent}]

Strangers == {[StoreRequest(h, b) EXCEPT !.api = a, !.word = w] :
                h \in SUBSET Identified, b \in {[id |-> n1, advert |-> CHOOSE x \in Adverts : TRUE]},
                a \in BOOLEAN, w \in {"store", "clean/expiry"}}

MCSent == Stores \cup Strangers
          \cup {r \in Spellings : (r.mark = "none" => r.text = Blank)
                                  /\ (r.word \notin {"verify", "query"} => r.text = Blank)}

=============================================================================
