------------------------------ MODULE NodeApi -------------------------------
(***************************************************************************)
(* The HTTP interface of the registry: Validator::validate_request and     *)
(* Router::node_response_router over DHT_operation.                        *)
(*                                                                         *)
(* A request is routed, handled and answered in one handler, so it is one  *)
(* step; only clean/expiry takes several, one for each iteration of its    *)
(* sweep (handling), and nothing else runs meanwhile.  Requests come from  *)
(* anyone, in any order and any number of times: a delayed, repeated or    *)
(* overtaken advertisement is a later request with an older entry.  The    *)
(* registry is in memory, so a restart empties it.                         *)
(*                                                                         *)
(* heard, cleaned and since are history: what the server has acknowledged. *)
(***************************************************************************)
EXTENDS DhtIndex

CONSTANTS
  Sent,         \* the requests that are sent in this instance
  Idle,         \* no clean/expiry is being handled
  Never         \* there was no clean/expiry since the start

(***************************************************************************)
(* The target of a request is the prefix /api/dht/ (or something else, if  *)
(* not api) followed by word, mark and text.  The word "other" is any that *)
(* is no operation, "verify/n" before a "?" for one.  A text with the key  *)
(* "shard_id" is one in which the first "shard_id=" is followed by value   *)
(* up to a "&" or the end; with the key "none" the text is value itself.   *)
(* The body is a dht_entry or, if Absent, not the JSON of one.  "GET" is   *)
(* any method but POST.                                                    *)
(***************************************************************************)
Words == {"verify", "store", "query", "clean/expiry", "clean/liveness", "other"}
Marks == {"?", "/", "none"}
Texts == [key: {"none", "shard_id"}, value: NodeIds \cup Shards \cup {EmptyId}]
Blank == [key |-> "none", value |-> EmptyId]
Bodies == [id: NodeIds, advert: Adverts]

Identified == {"pacPrism_node_id", "pacPrism_node_signature"}

Requests == [headers: SUBSET Identified, method: {"GET", "POST"}, api: BOOLEAN,
             word: Words, mark: Marks, text: Texts, body: Bodies \cup {Absent}]

ASSUME NodeApiAssumptions ==
  /\ Sent \subseteq Requests
  /\ Idle \notin Requests
  /\ Never \notin Times
  /\ Absent \notin Bodies

VARIABLES
  handling,     \* the clean/expiry request that is being handled, if any
  answer,       \* the last response
  heard,        \* for every node the generations acknowledged since it last left
  cleaned,      \* the clock reading of the last clean/expiry that was answered
  since         \* the nodes whose entries were acknowledged since then

apiVars == <<dht, sweep, now, handling, answer, heard, cleaned, since>>

(***************************************************************************)
(* What a response says: its status (0 for one that is not the registry's) *)
(* and, for verify and query, the text asked about and the nodes named.    *)
(* The headers and the method are those of its request.                    *)
(***************************************************************************)
Responses == [status: {0, 200, 201, 400, 404}, headers: SUBSET Identified,
              method: {"GET", "POST"}, asked: Texts, ids: SUBSET NodeIds]

Response(r, status, asked, ids) ==
  [status |-> status, headers |-> r.headers, method |-> r.method,
   asked |-> asked, ids |-> ids]

NoResponse == [status |-> 0, headers |-> {}, method |-> "GET", asked |-> Blank, ids |-> {}]

-----------------------------------------------------------------------------
\* A faulty variant of Validate, used by no specification, that a property
\* notices: one of the two headers is enough.  (The others are in DhtIndex.)
FaultyValidate(r) == IF r.headers = {} THEN "PlainClient" ELSE "Node"

-----------------------------------------------------------------------------
(* Routing.                                                                *)

\* validate_request; verify_node_identity accepts every signature
Validate(r) == CASE r.headers = {}         -> "PlainClient"
                 [] r.headers = Identified -> "Node"
                 [] OTHER                  -> "Invalid"

(***************************************************************************)
(* A "?" splits the path anywhere.  Without one, a path that starts with   *)
(* "clean/" is an operation as a whole, so that clean/expiry/x is none;    *)
(* any other is split at its first "/".                                    *)
(***************************************************************************)
Unsplit(r) == r.mark = "/" /\ r.word \in {"clean/expiry", "clean/liveness"}

Operation(r) == IF Unsplit(r) THEN "other" ELSE r.word

Params(r) == IF Unsplit(r) \/ r.mark = "none" THEN Blank ELSE r.text

\* A text that contains "shard_id=" is the id of none of the nodes.
IdAsked(r) == IF Params(r).key = "none" THEN Params(r) ELSE Blank

ShardAsked(r) == IF Params(r).key = "shard_id" THEN Params(r).value ELSE EmptyId

Routed(r) == handling = Idle /\ Validate(r) = "Node" /\ r.api

\* the operations that node_response_router knows, with what it asks of each
Calls(r, operation) ==
  /\ Routed(r) /\ Operation(r) = operation
  /\ operation \in {"store", "clean/expiry", "clean/liveness"} => r.method = "POST"
  /\ operation = "verify" => Params(r) # Blank

Unchanged == UNCHANGED <<dht, sweep, now, handling, heard, cleaned, since>>

-----------------------------------------------------------------------------
(* The operations.                                                         *)

VerifyEntry(r) ==
  /\ Calls(r, "verify")
  /\ answer' = Response(r, 200, IdAsked(r),
                        {n \in NodeIds : Verify(dht, n)
                                         /\ IdAsked(r) = [key |-> "none", value |-> n]})
  /\ Unchanged

\* The answer is "success" whether or not store_entry took the entry.
StoreEntry(r) ==
  /\ Calls(r, "store") /\ r.body # Absent
  /\ Store(r.body.id, r.body.advert)
  /\ answer' = Response(r, 201, Blank, {})
  /\ heard' = [heard EXCEPT ![r.body.id] = @ \cup {r.body.advert.generation}]
  /\ since' = since \cup {r.body.id}
  /\ UNCHANGED <<handling, cleaned>>

\* A null pointer is answered as an empty set.
NodesFound(s) == IF s \in Shards THEN SetAt(dht.shardToIds, s) ELSE {}

QueryShard(r) ==
  /\ Calls(r, "query") /\ ShardAsked(r) # EmptyId
  /\ answer' = Response(r, 200, Params(r), NodesFound(ShardAsked(r)))
  /\ Unchanged

CleanExpiry(r) ==
  /\ Calls(r, "clean/expiry")
  /\ CleanByExpiryTime
  /\ handling' = r
  /\ answer' = NoResponse
  /\ UNCHANGED <<heard, cleaned, since>>

RemoveNext ==
  /\ handling # Idle
  /\ \E p \in sweep : /\ RemoveExpired(p)
                      /\ heard' = [heard EXCEPT ![p[2]] = {}]
  /\ UNCHANGED <<handling, answer, cleaned, since>>

CleanReturns ==
  /\ handling # Idle /\ sweep = {}
  /\ handling' = Idle
  /\ answer' = Response(handling, 200, Blank, {})
  /\ cleaned' = now
  /\ since' = {}
  /\ UNCHANGED <<dht, sweep, now, heard>>

\* clean_by_liveness has an empty body.
CleanLiveness(r) ==
  /\ Calls(r, "clean/liveness")
  /\ answer' = Response(r, 200, Blank, {})
  /\ Unchanged

BadRequest(r) ==
  /\ handling = Idle
  /\ \/ Validate(r) = "Invalid"
     \/ Validate(r) = "Node" /\ ~r.api
     \/ Calls(r, "store") /\ r.body = Absent
     \/ Calls(r, "query") /\ ShardAsked(r) = EmptyId
  /\ answer' = Response(r, 400, Blank, {})
  /\ Unchanged

NotFound(r) ==
  /\ Routed(r)
  /\ \A operation \in Words \ {"other"} : ~Calls(r, operation)
  /\ answer' = Response(r, 404, Blank, {})
  /\ Unchanged

\* plain_response_router, which does not touch the registry
PlainClient(r) ==
  /\ handling = Idle /\ Validate(r) = "PlainClient"
  /\ answer' = NoResponse
  /\ Unchanged

-----------------------------------------------------------------------------
ApiInit == /\ Init
           /\ handling = Idle
           /\ answer = NoResponse
           /\ heard = [n \in NodeIds |-> {}]
           /\ cleaned = Never
           /\ since = {}

(***************************************************************************)
(* The process ends and is started again: killed, stopped, or left by an   *)
(* exception, as when the answer to a verify or a query cannot be written  *)
(* as JSON (dump is called outside the try block, and throws if it is to   *)
(* repeat a text that is not UTF-8).                                       *)
(***************************************************************************)
Restart ==
  /\ dht' = EmptyTables
  /\ sweep' = {}
  /\ handling' = Idle
  /\ answer' = NoResponse
  /\ heard' = [n \in NodeIds |-> {}]
  /\ cleaned' = Never
  /\ since' = {}
  /\ UNCHANGED now

ClockMoves == /\ handling = Idle /\ Tick
              /\ UNCHANGED <<handling, answer, heard, cleaned, since>>

Handle(r) == \/ VerifyEntry(r) \/ StoreEntry(r) \/ QueryShard(r)
             \/ CleanExpiry(r) \/ CleanLiveness(r)
             \/ BadRequest(r) \/ NotFound(r) \/ PlainClient(r)

Sweeping == RemoveNext \/ CleanReturns

ApiNext == (\E r \in Sent : Handle(r)) \/ Sweeping \/ ClockMoves \/ Restart

ApiSpec == ApiInit /\ [][ApiNext]_apiVars

-----------------------------------------------------------------------------
(* Properties.                                                             *)

ApiTypeOK == /\ TypeOK
             /\ handling \in Sent \cup {Idle}
             /\ answer \in Responses
             /\ heard \in [NodeIds -> SUBSET Generations]
             /\ cleaned \in Times \cup {Never}
             /\ since \subseteq NodeIds

(***************************************************************************)
(* What a 201 is worth.  It may acknowledge an entry that was ignored, and *)
(* entries come late, twice and in any order; still a node is registered   *)
(* if and only if one of its entries was acknowledged since it last left   *)
(* (swept, or with everything at a restart), and always under the highest  *)
(* generation that was.                                                    *)
(***************************************************************************)
NewestHeard ==
  \A n \in NodeIds :
    /\ Verify(dht, n) <=> heard[n] # {}
    /\ Verify(dht, n) => /\ dht.idToGeneration[n] \in heard[n]
                         /\ \A g \in heard[n] : g <= dht.idToGeneration[n]

(***************************************************************************)
(* An answer names exactly the nodes that are registered when it is given: *)
(* a verify the node asked about if some entry of it was acknowledged, a   *)
(* query those of them whose current entry lists the shard.                *)
(***************************************************************************)
AnswersExact ==
  answer.status = 200 /\ answer.asked # Blank =>
    answer.ids = {n \in NodeIds :
                    /\ heard[n] # {}
                    /\ IF answer.asked.key = "none" THEN answer.asked.value = n
                       ELSE answer.asked.value \in SetAt(dht.idToShards, n)}

(***************************************************************************)
(* What a clean/expiry promises.  A registered node whose entry had        *)
(* expired when the last clean/expiry read the clock has advertised itself *)
(* afterwards: it was not forgotten by the sweep, but a late entry brought *)
(* it back, and the server keeps no memory of the removal.                 *)
(***************************************************************************)
CleanedUpTo ==
  cleaned # Never =>
    \A n \in NodeIds :
      Verify(dht, n) /\ dht.idToExpiry[n] <= cleaned => n \in since

(***************************************************************************)
(* What may change about a node, and for whom.  The entry of a node is     *)
(* replaced only by a newer one, for a POST with both headers that is      *)
(* answered 201 and concerns no other node; it is removed only while a     *)
(* POST with both headers asks for a clean/expiry, and only if its time    *)
(* has come.  A restart takes them all.                                    *)
(***************************************************************************)
Authorised(r) == r.headers = Identified /\ r.method = "POST"

Replaced(n) == /\ answer'.status = 201 /\ Authorised(answer')
               /\ Verify(dht', n)
               /\ Verify(dht, n) => Advert(n).generation < Advert(n)'.generation
               /\ \A m \in NodeIds \ {n} : Advert(m)' = Advert(m)

Expired(n) == /\ handling # Idle /\ Authorised(handling)
              /\ ~Verify(dht', n)
              /\ Advert(n).expiry <= now

ChangesAuthorised ==
  [][\A n \in NodeIds : Advert(n)' # Advert(n) => Replaced(n) \/ Expired(n) \/ Restart]_apiVars

=============================================================================
