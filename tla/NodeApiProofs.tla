--------------------------- MODULE NodeApiProofs ----------------------------
(***************************************************************************)
(* The invariants of NodeApi, proved for every set of nodes, shards and    *)
(* integer timestamps, and every set of requests.                          *)
(*                                                                         *)
(* Every step but a restart is a step of DhtIndex, so its invariant holds  *)
(* here too.  The rest is three conjuncts: what handling means for the     *)
(* sweep, and the properties themselves, which are then inductive.         *)
(***************************************************************************)
EXTENDS NodeApi, DhtIndexProofs

HandlingInv ==
  IF handling = Idle THEN sweep = {}
  ELSE /\ Authorised(handling)
       /\ answer = NoResponse
       /\ sweep = {p \in dht.expiryOrder : p[1] <= now}

ApiInv == /\ Inv
          /\ ApiTypeOK
          /\ HandlingInv
          /\ NewestHeard
          /\ AnswersExact
          /\ CleanedUpTo

-----------------------------------------------------------------------------
(* Requests and what they are routed to.                                   *)

\* A request that is routed to an operation of the registry has both headers.
LEMMA NodeHeaders ==
  ASSUME NEW r, Validate(r) = "Node"
  PROVE  r.headers = Identified
  BY DEF Validate

\* The parameters of a request are one of the texts.
LEMMA ParamsType ==
  ASSUME NEW r \in Requests
  PROVE  Params(r) \in Texts /\ IdAsked(r) \in Texts
  BY DEF Params, IdAsked, Requests, Texts, Blank

\* A response has the type of responses if its parts have theirs.
LEMMA ResponseType ==
  ASSUME NEW r \in Requests, NEW status \in {0, 200, 201, 400, 404},
         NEW asked \in Texts, NEW ids \in SUBSET NodeIds
  PROVE  Response(r, status, asked, ids) \in Responses
  BY DEF Response, Responses, Requests

LEMMA NoResponseType == NoResponse \in Responses
  BY DEF NoResponse, Responses, Texts, Blank

-----------------------------------------------------------------------------
(* The registry after one of DhtIndex's steps.                             *)

(***************************************************************************)
(* An acknowledged entry makes its node known, under the higher of the two *)
(* generations, and leaves all others as they are.                         *)
(***************************************************************************)
LEMMA StoreEffect ==
  ASSUME Inv, NEW n \in NodeIds, NEW a \in Adverts, Store(n, a)
  PROVE  /\ Verify(dht', n)
         /\ \/ Verify(dht, n) /\ a.generation <= dht.idToGeneration[n]
               /\ dht'.idToGeneration[n] = dht.idToGeneration[n]
            \/ /\ Verify(dht, n) => dht.idToGeneration[n] < a.generation
               /\ dht'.idToGeneration[n] = a.generation
         /\ \A m \in NodeIds \ {n} :
              /\ Verify(dht', m) <=> Verify(dht, m)
              /\ dht'.idToGeneration[m] = dht.idToGeneration[m]
              /\ dht'.idToExpiry[m] = dht.idToExpiry[m]
<1>1. dht \in Tables /\ SameNodes(dht)
  BY DEF Inv, Coherent
<1>2. CASE ~Verify(dht, n) /\ dht' = Insert(dht, n, a)
  BY <1>1, <1>2, InsertNodes
<1>3. CASE Verify(dht, n) /\ Supersedes(dht, n, a) /\ dht' = Insert(Remove(dht, n), n, a)
  <2> DEFINE t == Remove(dht, n)
  <2>1. t \in Tables
    BY <1>1, RemoveType
  <2>2. \A m \in NodeIds :
          /\ Verify(t, m) <=> Verify(dht, m) /\ m # n
          /\ t.idToGeneration[m] = IF m = n THEN Absent ELSE dht.idToGeneration[m]
          /\ t.idToExpiry[m] = IF m = n THEN Absent ELSE dht.idToExpiry[m]
    BY <1>1, <1>3, RemoveNodes
  <2> HIDE DEF t
  <2>3. dht' = Insert(t, n, a)
    BY <1>3 DEF t
  <2>4. \A m \in NodeIds :
          /\ Verify(dht', m) <=> Verify(t, m) \/ m = n
          /\ dht'.idToGeneration[m] = IF m = n THEN a.generation ELSE t.idToGeneration[m]
          /\ dht'.idToExpiry[m] = IF m = n THEN a.expiry ELSE t.idToExpiry[m]
    BY <2>1, <2>3, InsertNodes
  <2> QED
    BY <1>3, <2>2, <2>4 DEF Supersedes
<1>4. CASE Verify(dht, n) /\ ~Supersedes(dht, n, a) /\ UNCHANGED dht
  <2>1. dht.idToGeneration[n] \in Int /\ a.generation \in Int
    BY <1>1, <1>4, TimestampsAreIntegers DEF Verify, Tables, Map, Adverts
  <2> QED
    BY <1>4, <2>1 DEF Supersedes
<1> QED
  BY <1>2, <1>3, <1>4 DEF Store

\* An iteration of a sweep removes a node and leaves the others.
LEMMA RemoveEffect ==
  ASSUME Inv, NEW p \in sweep, RemoveExpired(p)
  PROVE  /\ p[2] \in NodeIds
         /\ dht'.expiryOrder = dht.expiryOrder \ {p}
         /\ ~Verify(dht', p[2])
         /\ \A m \in NodeIds \ {p[2]} :
              /\ Verify(dht', m) <=> Verify(dht, m)
              /\ dht'.idToGeneration[m] = dht.idToGeneration[m]
              /\ dht'.idToExpiry[m] = dht.idToExpiry[m]
<1>1. /\ p[2] \in NodeIds /\ Verify(dht, p[2])
      /\ dht'.expiryOrder = dht.expiryOrder \ {p}
  BY SweepPairs DEF RemoveExpired
<1>2. dht \in Tables /\ dht' = Remove(dht, p[2])
  BY DEF Inv, Coherent, RemoveExpired
<1> QED
  BY <1>1, <1>2, RemoveNodes

\* A node that is listed under a shard is registered.
LEMMA HolderKnown ==
  ASSUME Inv, NEW n \in NodeIds, NEW s, s \in SetAt(dht.idToShards, n)
  PROVE  s \in Shards /\ Verify(dht, n)
<1>1. dht.idToShards[n] # Absent
  BY DEF SetAt
<1>2. dht.idToShards[n] \in SUBSET Shards
  BY <1>1 DEF Inv, Coherent, Tables, Map
<1> QED
  BY <1>1, <1>2 DEF Inv, Coherent, SameNodes, SetAt

-----------------------------------------------------------------------------
(* The invariant.                                                          *)

LEMMA ApiInitInv == ApiInit => ApiInv
<1> SUFFICES ASSUME ApiInit PROVE ApiInv
  OBVIOUS
<1>1. Inv
  BY InitInv DEF ApiInit
<1>2. ApiTypeOK
  BY <1>1, NoResponseType DEF ApiInit, ApiTypeOK, TypeOK, Inv, Coherent
<1>3. \A n \in NodeIds : ~Verify(dht, n)
  BY DEF ApiInit, Init, EmptyTables, Verify
<1>4. NewestHeard
  BY <1>3 DEF ApiInit, NewestHeard
<1> QED
  BY <1>1, <1>2, <1>4 DEF ApiInit, Init, ApiInv, HandlingInv, AnswersExact, NoResponse,
     CleanedUpTo

\* A request that only reads leaves everything but the answer as it is.
LEMMA ReadStep ==
  ASSUME ApiInv, Unchanged, handling = Idle, answer' \in Responses, AnswersExact'
  PROVE  ApiInv'
<1>1. Inv'
  BY DEF ApiInv, Inv, SweepExact, Unchanged
<1>2. ApiTypeOK' /\ HandlingInv'
  BY DEF ApiInv, ApiTypeOK, TypeOK, HandlingInv, Unchanged
<1>3. NewestHeard' /\ CleanedUpTo'
  BY DEF ApiInv, NewestHeard, CleanedUpTo, Unchanged
<1> QED
  BY <1>1, <1>2, <1>3 DEF ApiInv

LEMMA VerifyStep ==
  ASSUME ApiInv, NEW r \in Requests, VerifyEntry(r)
  PROVE  ApiInv'
<1> DEFINE p   == IdAsked(r)
           ids == {n \in NodeIds : Verify(dht, n) /\ p = [key |-> "none", value |-> n]}
<1>1. Unchanged /\ handling = Idle /\ answer' = Response(r, 200, p, ids)
  BY DEF VerifyEntry, Calls, Routed
<1>2. answer' \in Responses
  BY <1>1, ParamsType, ResponseType
<1>3. AnswersExact'
  <2>1. p # Blank => p.key = "none" /\ p = [key |-> "none", value |-> p.value]
    BY ParamsType DEF IdAsked, Texts
  <2>2. \A n \in NodeIds : Verify(dht, n) <=> heard'[n] # {}
    BY <1>1 DEF Unchanged, ApiInv, NewestHeard
  <2>3. answer'.asked = p /\ answer'.ids = ids
    BY <1>1 DEF Response
  <2>4. p # Blank => ids = {n \in NodeIds : heard'[n] # {} /\ p.value = n}
    BY <2>1, <2>2
  <2> HIDE DEF p, ids
  <2> QED
    BY <2>1, <2>3, <2>4 DEF AnswersExact
<1> QED
  BY <1>1, <1>2, <1>3, ReadStep

LEMMA QueryStep ==
  ASSUME ApiInv, NEW r \in Requests, QueryShard(r)
  PROVE  ApiInv'
<1> DEFINE s == ShardAsked(r)
<1>1. /\ Unchanged /\ handling = Idle
      /\ answer' = Response(r, 200, Params(r), NodesFound(s))
  BY DEF QueryShard, Calls, Routed
<1>2. Params(r).key # "none" /\ Params(r).value = s
  BY DEF QueryShard, ShardAsked
<1>3. NodesFound(s) = {n \in NodeIds : s \in SetAt(dht.idToShards, n)}
  <2>1. CASE s \in Shards
    BY <2>1 DEF ApiInv, Inv, Coherent, HoldersExact, NodesFound
  <2>2. CASE s \notin Shards
    BY <2>2, HolderKnown DEF NodesFound, ApiInv
  <2> QED
    BY <2>1, <2>2
<1>4. answer' \in Responses
  BY <1>1, <1>3, ParamsType, ResponseType
<1>5. AnswersExact'
  <2>1. \A n \in NodeIds : s \in SetAt(dht.idToShards, n) => heard[n] # {}
    BY HolderKnown DEF ApiInv, NewestHeard
  <2>2. answer'.asked = Params(r) /\ answer'.ids = NodesFound(s)
    BY <1>1 DEF Response
  <2>3. dht' = dht /\ heard' = heard
    BY <1>1 DEF Unchanged
  <2> HIDE DEF s
  <2> QED
    BY <1>2, <1>3, <2>1, <2>2, <2>3 DEF AnswersExact
<1> QED
  BY <1>1, <1>4, <1>5, ReadStep

\* The responses that name no node.
LEMMA PlainStep ==
  ASSUME ApiInv, NEW r \in Requests,
         CleanLiveness(r) \/ BadRequest(r) \/ NotFound(r) \/ PlainClient(r)
  PROVE  ApiInv'
<1>1. Unchanged /\ handling = Idle
  BY DEF CleanLiveness, BadRequest, NotFound, PlainClient, Calls, Routed
<1>2. Blank \in Texts
  BY DEF Blank, Texts
<1>3. /\ answer'.asked = Blank
      /\ answer' \in Responses
  <2>1. CASE PlainClient(r)
    BY <2>1, NoResponseType DEF PlainClient, NoResponse
  <2>2. ASSUME NEW status \in {200, 400, 404}, answer' = Response(r, status, Blank, {})
        PROVE  answer'.asked = Blank /\ answer' \in Responses
    BY <1>2, <2>2, ResponseType DEF Response
  <2> QED
    BY <2>1, <2>2 DEF CleanLiveness, BadRequest, NotFound
<1>4. AnswersExact'
  BY <1>3 DEF AnswersExact
<1> QED
  BY <1>1, <1>3, <1>4, ReadStep

LEMMA StoreStep ==
  ASSUME ApiInv, NEW r \in Requests, StoreEntry(r)
  PROVE  ApiInv'
<1> DEFINE n == r.body.id
           a == r.body.advert
<1>1. n \in NodeIds /\ a \in Adverts
  BY DEF StoreEntry, Requests, Bodies
<1>2. /\ Store(n, a) /\ handling = Idle /\ sweep' = {} /\ now' = now
      /\ answer' = Response(r, 201, Blank, {})
      /\ heard' = [heard EXCEPT ![n] = @ \cup {a.generation}]
      /\ since' = since \cup {n}
      /\ handling' = handling /\ cleaned' = cleaned
  BY DEF StoreEntry, Calls, Routed, Store
<1>3. /\ Verify(dht', n)
      /\ \/ Verify(dht, n) /\ a.generation <= dht.idToGeneration[n]
            /\ dht'.idToGeneration[n] = dht.idToGeneration[n]
         \/ /\ Verify(dht, n) => dht.idToGeneration[n] < a.generation
            /\ dht'.idToGeneration[n] = a.generation
      /\ \A m \in NodeIds \ {n} :
           /\ Verify(dht', m) <=> Verify(dht, m)
           /\ dht'.idToGeneration[m] = dht.idToGeneration[m]
           /\ dht'.idToExpiry[m] = dht.idToExpiry[m]
  BY <1>1, <1>2, StoreEffect DEF ApiInv
<1>4. Inv'
  BY <1>1, <1>2, NextInv DEF Next, ApiInv
<1>5. a.generation \in Generations /\ a.generation \in Int
  BY <1>1, TimestampsAreIntegers DEF Adverts
<1>6. heard \in [NodeIds -> SUBSET Generations]
  BY DEF ApiInv, ApiTypeOK
<1> HIDE DEF n, a
<1>7. NewestHeard'
  <2>1. heard'[n] = heard[n] \cup {a.generation}
    BY <1>1, <1>2, <1>6
  <2>2. \A g \in heard[n] : g \in Int
    BY <1>1, <1>6, TimestampsAreIntegers
  <2>3. \A g \in heard[n] : Verify(dht, n) /\ g <= dht.idToGeneration[n]
    BY <1>1 DEF ApiInv, NewestHeard
  <2>4. Verify(dht, n) => dht.idToGeneration[n] \in heard[n]
    BY <1>1 DEF ApiInv, NewestHeard
  <2>5. /\ dht'.idToGeneration[n] \in heard'[n]
        /\ \A g \in heard'[n] : g <= dht'.idToGeneration[n]
    BY <1>3, <1>5, <2>1, <2>2, <2>3, <2>4
  <2>6. ASSUME NEW m \in NodeIds \ {n}
        PROVE  /\ Verify(dht', m) <=> heard'[m] # {}
               /\ Verify(dht', m) => /\ dht'.idToGeneration[m] \in heard'[m]
                                    /\ \A g \in heard'[m] : g <= dht'.idToGeneration[m]
    <3>1. heard'[m] = heard[m]
      BY <1>1, <1>2, <1>6
    <3> QED
      BY <1>3, <3>1 DEF ApiInv, NewestHeard
  <2> QED
    BY <1>3, <2>1, <2>5, <2>6 DEF NewestHeard
<1>8. CleanedUpTo'
  BY <1>1, <1>2, <1>3 DEF ApiInv, CleanedUpTo
<1>9. answer' \in Responses /\ AnswersExact'
  <2>1. Blank \in Texts
    BY DEF Blank, Texts
  <2> QED
    BY <1>2, <2>1, ResponseType DEF AnswersExact, Response
<1>10. ApiTypeOK'
  <2>1. heard' \in [NodeIds -> SUBSET Generations]
    BY <1>1, <1>2, <1>5, <1>6
  <2>2. since' \subseteq NodeIds /\ handling' \in Sent \cup {Idle}
        /\ cleaned' \in Times \cup {Never}
    BY <1>1, <1>2 DEF ApiInv, ApiTypeOK
  <2>3. TypeOK'
    BY <1>4 DEF Inv, Coherent, TypeOK
  <2> QED
    BY <1>9, <2>1, <2>2, <2>3 DEF ApiTypeOK
<1>11. HandlingInv'
  BY <1>2 DEF HandlingInv
<1> QED
  BY <1>4, <1>7, <1>8, <1>9, <1>10, <1>11 DEF ApiInv

LEMMA CleanStep ==
  ASSUME ApiInv, NEW r \in Sent, CleanExpiry(r)
  PROVE  ApiInv'
<1>1. /\ CleanByExpiryTime /\ dht' = dht /\ now' = now
      /\ sweep' = {p \in dht.expiryOrder : p[1] <= now}
      /\ handling' = r /\ answer' = NoResponse
      /\ heard' = heard /\ cleaned' = cleaned /\ since' = since
  BY DEF CleanExpiry, CleanByExpiryTime
<1>2. Inv'
  BY <1>1, NextInv DEF Next, ApiInv
<1>3. ApiTypeOK'
  BY <1>1, <1>2, NoResponseType DEF ApiInv, ApiTypeOK, TypeOK, Inv, Coherent
<1>4. Authorised(r) /\ r # Idle
  BY NodeHeaders, NodeApiAssumptions DEF CleanExpiry, Calls, Routed, Authorised
<1>5. HandlingInv'
  BY <1>1, <1>4 DEF HandlingInv, Authorised
<1>6. NewestHeard' /\ CleanedUpTo' /\ AnswersExact'
  BY <1>1 DEF ApiInv, NewestHeard, CleanedUpTo, AnswersExact, NoResponse
<1> QED
  BY <1>2, <1>3, <1>5, <1>6 DEF ApiInv

LEMMA RemoveStep == ApiInv /\ RemoveNext => ApiInv'
<1> SUFFICES ASSUME ApiInv, RemoveNext PROVE ApiInv'
  OBVIOUS
<1>1. PICK p \in sweep : RemoveExpired(p) /\ heard' = [heard EXCEPT ![p[2]] = {}]
  BY DEF RemoveNext
<1>2. /\ handling # Idle /\ handling' = handling /\ answer' = answer
      /\ cleaned' = cleaned /\ since' = since /\ now' = now /\ sweep' = sweep \ {p}
  BY <1>1 DEF RemoveNext, RemoveExpired
<1>3. /\ p[2] \in NodeIds
      /\ dht'.expiryOrder = dht.expiryOrder \ {p}
      /\ ~Verify(dht', p[2])
      /\ \A m \in NodeIds \ {p[2]} : /\ Verify(dht', m) <=> Verify(dht, m)
                                     /\ dht'.idToGeneration[m] = dht.idToGeneration[m]
                                     /\ dht'.idToExpiry[m] = dht.idToExpiry[m]
  BY <1>1, RemoveEffect DEF ApiInv
<1>4. Inv'
  BY <1>1, NextInv DEF Next, ApiInv
<1>5. heard \in [NodeIds -> SUBSET Generations]
  BY DEF ApiInv, ApiTypeOK
<1>6. /\ heard' \in [NodeIds -> SUBSET Generations] /\ heard'[p[2]] = {}
      /\ \A m \in NodeIds \ {p[2]} : heard'[m] = heard[m]
  BY <1>1, <1>3, <1>5
<1>7. ApiTypeOK'
  BY <1>2, <1>4, <1>6 DEF ApiInv, ApiTypeOK, TypeOK, Inv, Coherent
<1>8. HandlingInv'
  BY <1>2, <1>3 DEF ApiInv, HandlingInv
<1>9. NewestHeard'
  BY <1>3, <1>6 DEF ApiInv, NewestHeard
<1>10. CleanedUpTo'
  BY <1>2, <1>3 DEF ApiInv, CleanedUpTo
<1>11. AnswersExact'
  BY <1>2 DEF ApiInv, HandlingInv, AnswersExact, NoResponse
<1> QED
  BY <1>4, <1>7, <1>8, <1>9, <1>10, <1>11 DEF ApiInv

(***************************************************************************)
(* When the loop has ended nothing is left that had expired: the list was  *)
(* exactly that, and every registered node has its pair in the ordered     *)
(* set.                                                                    *)
(***************************************************************************)
LEMMA ReturnStep == ApiInv /\ CleanReturns => ApiInv'
<1> SUFFICES ASSUME ApiInv, CleanReturns PROVE ApiInv'
  OBVIOUS
<1>1. /\ handling # Idle /\ sweep = {} /\ handling' = Idle
      /\ answer' = Response(handling, 200, Blank, {}) /\ cleaned' = now /\ since' = {}
      /\ dht' = dht /\ sweep' = sweep /\ now' = now /\ heard' = heard
  BY DEF CleanReturns
<1>2. handling \in Requests
  BY <1>1, NodeApiAssumptions DEF ApiInv, ApiTypeOK
<1>3. Inv'
  BY <1>1 DEF ApiInv, Inv, SweepExact
<1>4. answer' \in Responses /\ AnswersExact'
  <2>1. Blank \in Texts
    BY DEF Blank, Texts
  <2> QED
    BY <1>1, <1>2, <2>1, ResponseType DEF AnswersExact, Response
<1>5. ApiTypeOK'
  BY <1>1, <1>3, <1>4 DEF ApiInv, ApiTypeOK, TypeOK, Inv, Coherent
<1>6. HandlingInv' /\ NewestHeard'
  BY <1>1 DEF ApiInv, HandlingInv, NewestHeard
<1>7. CleanedUpTo'
  <2>1. \A p \in dht.expiryOrder : ~(p[1] <= now)
    BY <1>1 DEF ApiInv, HandlingInv
  <2>2. \A n \in NodeIds : Verify(dht, n) => <<dht.idToExpiry[n], n>> \in dht.expiryOrder
    BY DEF ApiInv, Inv, Coherent, OnePairPerNode
  <2>3. ASSUME NEW n \in NodeIds, Verify(dht, n)
        PROVE  ~(dht.idToExpiry[n] <= now)
    <3>1. <<dht.idToExpiry[n], n>>[1] = dht.idToExpiry[n]
      OBVIOUS
    <3> QED
      BY <2>1, <2>2, <2>3, <3>1
  <2> QED
    BY <1>1, <2>3 DEF CleanedUpTo
<1> QED
  BY <1>3, <1>4, <1>5, <1>6, <1>7 DEF ApiInv

LEMMA RestartStep == ApiInv /\ Restart => ApiInv'
<1> SUFFICES ASSUME ApiInv, Restart PROVE ApiInv'
  OBVIOUS
<1> USE DEF Restart
<1>1. Inv'
  BY EmptyCoherent DEF ApiInv, Inv, SweepExact
<1>2. ApiTypeOK'
  BY <1>1, NoResponseType DEF ApiTypeOK, TypeOK, Inv, Coherent
<1>3. \A n \in NodeIds : ~Verify(dht', n) /\ heard'[n] = {}
  BY DEF EmptyTables, Verify
<1>4. NewestHeard'
  BY <1>3 DEF NewestHeard
<1>5. HandlingInv' /\ CleanedUpTo' /\ AnswersExact'
  BY DEF HandlingInv, CleanedUpTo, AnswersExact, NoResponse
<1> QED
  BY <1>1, <1>2, <1>4, <1>5 DEF ApiInv

LEMMA ClockStep == ApiInv /\ ClockMoves => ApiInv'
<1> SUFFICES ASSUME ApiInv, ClockMoves PROVE ApiInv'
  OBVIOUS
<1>1. /\ Tick /\ dht' = dht /\ sweep' = sweep /\ sweep = {} /\ handling = Idle
      /\ handling' = handling /\ answer' = answer /\ heard' = heard
      /\ cleaned' = cleaned /\ since' = since
  BY DEF ClockMoves, Tick
<1>2. Inv'
  BY <1>1, NextInv DEF Next, ApiInv
<1>3. ApiTypeOK' /\ HandlingInv'
  BY <1>1, <1>2 DEF ApiInv, ApiTypeOK, TypeOK, Inv, Coherent, HandlingInv
<1>4. NewestHeard' /\ CleanedUpTo' /\ AnswersExact'
  BY <1>1 DEF ApiInv, NewestHeard, CleanedUpTo, AnswersExact
<1> QED
  BY <1>2, <1>3, <1>4 DEF ApiInv

LEMMA ApiNextInv == ApiInv /\ [ApiNext]_apiVars => ApiInv'
<1> SUFFICES ASSUME ApiInv, [ApiNext]_apiVars PROVE ApiInv'
  OBVIOUS
<1>1. ASSUME NEW r \in Sent, Handle(r) PROVE ApiInv'
  <2>1. r \in Requests
    BY NodeApiAssumptions
  <2> QED
    BY <1>1, <2>1, VerifyStep, StoreStep, QueryStep, CleanStep, PlainStep DEF Handle
<1>2. CASE UNCHANGED apiVars
  <2>1. Inv'
    BY <1>2 DEF apiVars, ApiInv, Inv, SweepExact
  <2>2. ApiTypeOK' /\ HandlingInv'
    BY <1>2, <2>1 DEF apiVars, ApiInv, ApiTypeOK, TypeOK, Inv, Coherent, HandlingInv
  <2>3. NewestHeard' /\ CleanedUpTo' /\ AnswersExact'
    BY <1>2 DEF apiVars, ApiInv, NewestHeard, CleanedUpTo, AnswersExact
  <2> QED
    BY <2>1, <2>2, <2>3 DEF ApiInv
<1> QED
  BY <1>1, <1>2, RemoveStep, ReturnStep, RestartStep, ClockStep DEF ApiNext, Sweeping

THEOREM ApiInvariance == ApiSpec => []ApiInv
  BY ApiInitInv, ApiNextInv, PTL DEF ApiSpec

-----------------------------------------------------------------------------
(* The properties.                                                         *)

(***************************************************************************)
(* The registry, the answers and the history keep their types.             *)
(***************************************************************************)
THEOREM ApiTypeCorrect == ApiSpec => []ApiTypeOK
<1>1. ApiInv => ApiTypeOK
  BY DEF ApiInv
<1> QED
  BY <1>1, ApiInvariance, PTL

(***************************************************************************)
(* What a 201 of store is worth: the node stays registered, under the      *)
(* highest generation acknowledged, until a sweep or a restart.            *)
(***************************************************************************)
THEOREM AcknowledgedIsRegistered == ApiSpec => []NewestHeard
<1>1. ApiInv => NewestHeard
  BY DEF ApiInv
<1> QED
  BY <1>1, ApiInvariance, PTL

(***************************************************************************)
(* The answers of verify and query are exact.                              *)
(***************************************************************************)
THEOREM AnswersAreExact == ApiSpec => []AnswersExact
<1>1. ApiInv => AnswersExact
  BY DEF ApiInv
<1> QED
  BY <1>1, ApiInvariance, PTL

(***************************************************************************)
(* After a clean/expiry, only a node that has advertised itself since can  *)
(* be registered with an entry that had expired.                           *)
(***************************************************************************)
THEOREM CleansAreComplete == ApiSpec => []CleanedUpTo
<1>1. ApiInv => CleanedUpTo
  BY DEF ApiInv
<1> QED
  BY <1>1, ApiInvariance, PTL

(***************************************************************************)
(* An acknowledged POST replaces one entry, by a newer one; a clean/expiry *)
(* removes what has expired; a restart takes everything; nothing else      *)
(* touches an entry.                                                       *)
(***************************************************************************)
THEOREM OnlyNodesChange == ApiSpec => ChangesAuthorised
<1> DEFINE A == \A n \in NodeIds : Advert(n)' # Advert(n) =>
                                     Replaced(n) \/ Expired(n) \/ Restart
<1>1. ApiInv /\ [ApiNext]_apiVars => [A]_apiVars
  <2> SUFFICES ASSUME ApiInv, ApiNext, NEW n \in NodeIds,
                      Advert(n)' # Advert(n), ~Restart
               PROVE  Replaced(n) \/ Expired(n)
    OBVIOUS
  <2>1. Inv /\ dht' # dht
    BY DEF ApiInv, Advert
  <2>2. ASSUME NEW r \in Sent, StoreEntry(r) PROVE Replaced(n)
    <3>1. answer' = Response(r, 201, Blank, {}) /\ r.headers = Identified /\ r.method = "POST"
      BY <2>2, NodeHeaders DEF StoreEntry, Calls, Routed
    <3>2. r.body.id \in NodeIds /\ r.body.advert \in Adverts
      BY <2>2, NodeApiAssumptions DEF StoreEntry, Requests, Bodies
    <3>3. /\ Verify(dht, r.body.id)'
          /\ Verify(dht, r.body.id) => Supersedes(dht, r.body.id, r.body.advert)
          /\ Advert(r.body.id)' = r.body.advert
          /\ \A m \in NodeIds \ {r.body.id} : Advert(m)' = Advert(m)
      BY <2>1, <2>2, <3>2, StoreView DEF StoreEntry
    <3>4. n = r.body.id
      BY <3>3
    <3>5. Verify(dht', n)
      BY <3>3, <3>4 DEF Verify
    <3>6. Advert(n).generation = dht.idToGeneration[n]
      BY DEF Advert
    <3> QED
      BY <3>1, <3>3, <3>4, <3>5, <3>6 DEF Replaced, Authorised, Response, Supersedes
  <2>3. ASSUME NEW r \in Sent, Handle(r) PROVE StoreEntry(r)
    BY <2>1, <2>3 DEF Handle, VerifyEntry, QueryShard, CleanExpiry, CleanByExpiryTime,
       CleanLiveness, BadRequest, NotFound, PlainClient, Unchanged
  <2>4. CASE RemoveNext
    <3>1. PICK p \in sweep : RemoveExpired(p)
      BY <2>4 DEF RemoveNext
    <3>2. ~Verify(dht, p[2])' /\ n = p[2]
      BY <2>1, <3>1, RemoveView
    <3>3. p = <<dht.idToExpiry[p[2]], p[2]>>
      BY <2>1, SweepPairs
    <3>4. handling # Idle /\ Authorised(handling) /\ p[1] <= now
      BY <2>4, <3>1 DEF RemoveNext, ApiInv, HandlingInv
    <3>5. Advert(n).expiry = p[1]
      BY <3>2, <3>3 DEF Advert
    <3> QED
      BY <3>2, <3>4, <3>5 DEF Expired, Verify
  <2> QED
    BY <2>1, <2>2, <2>3, <2>4 DEF ApiNext, Sweeping, CleanReturns, ClockMoves, Tick
<1> QED
  BY <1>1, ApiInvariance, PTL DEF ApiSpec, ChangesAuthorised

-----------------------------------------------------------------------------
(* The promise of the registry, kept through HTTP.                         *)

(***************************************************************************)
(* All that users can see of the registry, they can see of NodeRegistry:   *)
(* a request that stores is one advertisement, a clean/expiry takes all    *)
(* the expired nodes at once when it starts, whatever runs in between, and *)
(* no other request is visible.  Only a restart does what NodeRegistry     *)
(* cannot: it forgets every node.                                          *)
(***************************************************************************)
Forgets == /\ RegistryView' = [n \in NodeIds |-> Absent]
           /\ UNCHANGED now

RegistryOrRestart == [][Registry!Next \/ Forgets]_(Registry!vars)

\* What is no restart is a step of the containers.
LEMMA ContainerStep ==
  ASSUME ApiNext, ~Restart
  PROVE  [Next]_vars
<1>1. ASSUME NEW r \in Sent, StoreEntry(r) PROVE Next
  <2>1. r.body \in Bodies
    BY <1>1, NodeApiAssumptions DEF StoreEntry, Requests
  <2> QED
    BY <1>1, <2>1 DEF StoreEntry, Bodies, Next
<1>2. ASSUME NEW r \in Sent, CleanExpiry(r) PROVE Next
  BY <1>2 DEF CleanExpiry, Next
<1>3. ASSUME NEW r \in Sent, Handle(r), ~StoreEntry(r), ~CleanExpiry(r)
      PROVE  UNCHANGED vars
  BY <1>3 DEF Handle, VerifyEntry, QueryShard, CleanLiveness, BadRequest, NotFound,
     PlainClient, Unchanged, vars
<1>4. CASE RemoveNext
  BY <1>4 DEF RemoveNext, Next
<1>5. CASE CleanReturns
  BY <1>5 DEF CleanReturns, vars
<1>6. CASE ClockMoves
  BY <1>6 DEF ClockMoves, Next
<1> QED
  BY <1>1, <1>2, <1>3, <1>4, <1>5, <1>6 DEF ApiNext, Sweeping

LEMMA RestartForgets == Restart => Forgets
<1> SUFFICES ASSUME Restart PROVE Forgets
  OBVIOUS
<1>1. \A n \in NodeIds : ~Verify(dht, n)'
  BY DEF Restart, EmptyTables, Verify
<1> QED
  BY <1>1 DEF Forgets, RegistryView, Restart

(***************************************************************************)
(* The HTTP interface keeps the promise of the registry until the process  *)
(* is restarted, and after the restart again.                              *)
(***************************************************************************)
THEOREM PromiseThroughHttp == ApiSpec => Registry!Init /\ RegistryOrRestart
<1>1. ApiInit => Registry!Init
  BY RefinementInit DEF ApiInit
<1>2. ApiInv /\ [ApiNext]_apiVars => [Registry!Next \/ Forgets]_(Registry!vars)
  <2> SUFFICES ASSUME ApiInv, [ApiNext]_apiVars
               PROVE  [Registry!Next \/ Forgets]_(Registry!vars)
    OBVIOUS
  <2>1. CASE ApiNext /\ Restart
    BY <2>1, RestartForgets
  <2>2. CASE ~Restart \/ UNCHANGED apiVars
    <3>1. [Next]_vars
      BY <2>2, ContainerStep DEF apiVars, vars
    <3> QED
      BY <3>1, RefinementNext DEF ApiInv
  <2> QED
    BY <2>1, <2>2
<1> QED
  BY <1>1, <1>2, ApiInvariance, PTL DEF ApiSpec, RegistryOrRestart

=============================================================================
