-------------------------- MODULE HttpServerProofs --------------------------
(***************************************************************************)
(* What HttpServer guarantees for any number of clients, requests and      *)
(* descriptors, whatever goes wrong.                                       *)
(***************************************************************************)
EXTENDS HttpServer, SequenceTheorems, FiniteSetTheorems, TLAPS

(***************************************************************************)
(* The state of one connection r.  One operation is outstanding while it   *)
(* is open, and a reply is under way while that is the router or a write.  *)
(***************************************************************************)
OwnedOnce(r) ==
  /\ r.link = "open"  => r.ops = {"read"} \/ r.ops \in {{"route"}, {"write"}}
  /\ r.link # "open"  => r.ops = {}
  /\ r.ops \in {{"route"}, {"write"}} <=> r.reply # NoReply

(***************************************************************************)
(* What has been answered, what is being answered and what is still in the *)
(* inbox follow each other in the order the client sent them.              *)
(***************************************************************************)
InSequence(r) ==
  /\ \A i, j \in DOMAIN r.answered : i < j => r.answered[i] < r.answered[j]
  /\ \A i, j \in DOMAIN r.inbox : i < j => r.inbox[i].number < r.inbox[j].number
  /\ \A i \in DOMAIN r.answered : r.answered[i] <= r.sent
  /\ \A j \in DOMAIN r.inbox : r.inbox[j].number <= r.sent
  /\ \A i \in DOMAIN r.answered, j \in DOMAIN r.inbox : r.answered[i] < r.inbox[j].number
  /\ r.reply # NoReply =>
       /\ r.reply.number <= r.sent
       /\ \A i \in DOMAIN r.answered : r.answered[i] < r.reply.number
       /\ \A j \in DOMAIN r.inbox : r.reply.number < r.inbox[j].number

\* A client that waits for its responses has one request under way at most.
OneUnderWay(r) ==
  ~r.ahead =>
    /\ \A i \in DOMAIN r.answered : r.answered[i] = i
    /\ r.sent <= Len(r.answered) + 1
    /\ r.inbox # <<>> => /\ r.reply = NoReply
                         /\ Len(r.inbox) = 1
                         /\ r.inbox[1].number = Len(r.answered) + 1
    /\ r.reply # NoReply => r.reply.number = Len(r.answered) + 1

Sound(r) == /\ r \in Connections
            /\ OwnedOnce(r) /\ InSequence(r) /\ OneUnderWay(r)

Inv == /\ process \in {"running", "stopped", "failed", "crashed"}
       /\ signalled \in BOOLEAN /\ accepting \in BOOLEAN /\ acceptError \in BOOLEAN
       /\ conn \in [Clients -> Connections]
       /\ \A c \in Clients : Sound(conn[c])

-----------------------------------------------------------------------------
(* One connection.                                                         *)

LEMMA FreshSound ==
  ASSUME NEW link \in {"none", "queued"}
  PROVE  Sound(Fresh(link))
<1>1. Fresh(link) \in Connections
  BY EmptySeq DEF Fresh, Connections
<1> QED
  BY <1>1 DEF Sound, OwnedOnce, InSequence, OneUnderWay, Fresh

LEMMA ClosedSound ==
  ASSUME NEW r, Sound(r)
  PROVE  Sound(Closed(r))
<1> DEFINE q == Closed(r)
<1>1. /\ q.link = "closed" /\ q.ops = {} /\ q.inbox = <<>> /\ q.reply = NoReply
      /\ q.answered = r.answered /\ q.sent = r.sent /\ q.ahead = r.ahead
      /\ q.peer = r.peer
  BY DEF Closed, Sound, Connections
<1>2. q \in Connections
  BY EmptySeq DEF Closed, Sound, Connections
<1> HIDE DEF q
<1>3. OwnedOnce(q)
  BY <1>1 DEF OwnedOnce
<1>4. InSequence(q)
  BY <1>1 DEF InSequence, Sound
<1>5. OneUnderWay(q)
  BY <1>1 DEF OneUnderWay, Sound
<1> QED
  BY <1>1, <1>2, <1>3, <1>4, <1>5 DEF Sound, q

\* What is left of an inbox are its later requests, in order.
LEMMA UnreadLater ==
  ASSUME NEW inbox \in Seq(Requests), inbox # <<>>, NEW rest \in Unread(inbox)
  PROVE  /\ rest \in Seq(Requests)
         /\ \E k \in 2..(Len(inbox) + 1) :
              /\ Len(rest) = Len(inbox) + 1 - k
              /\ \A j \in 1..Len(rest) : rest[j].number = inbox[j + k - 1].number
<1>l. Len(inbox) \in Nat /\ \A j \in 1..Len(inbox) : inbox[j] \in Requests
  BY LenProperties, ElementOfSeq
<1>1. ASSUME NEW k \in 2..(Len(inbox) + 1), NEW s, s = SubSeq(inbox, k, Len(inbox))
      PROVE  /\ s \in Seq(Requests) /\ Len(s) = Len(inbox) + 1 - k
             /\ \A j \in 1..Len(s) : s[j] = inbox[j + k - 1]
  <2>1. \A j \in k..Len(inbox) : inbox[j] \in Requests
    BY <1>l
  <2> QED
    BY <1>l, <1>1, <2>1, SubSeqProperties
<1>2. CASE \E k \in 2..(Len(inbox) + 1) : rest = SubSeq(inbox, k, Len(inbox))
  BY <1>1, <1>2
<1>3. CASE \E k \in 2..(Len(inbox) + 1) :
             /\ SubSeq(inbox, k, Len(inbox)) # <<>>
             /\ rest = [SubSeq(inbox, k, Len(inbox)) EXCEPT ![1].kind = "garbage"]
  <2>0. PICK k \in 2..(Len(inbox) + 1) :
             /\ SubSeq(inbox, k, Len(inbox)) # <<>>
             /\ rest = [SubSeq(inbox, k, Len(inbox)) EXCEPT ![1].kind = "garbage"]
    BY <1>3
  <2> DEFINE s == SubSeq(inbox, k, Len(inbox))
  <2>1. s # <<>> /\ rest = [s EXCEPT ![1].kind = "garbage"]
    BY <2>0
  <2>2. /\ s \in Seq(Requests) /\ Len(s) = Len(inbox) + 1 - k
        /\ \A j \in 1..Len(s) : s[j] = inbox[j + k - 1]
    BY <1>1
  <2> HIDE DEF s
  <2>3. 1 \in 1..Len(s) /\ s[1] \in Requests
    BY <2>1, <2>2, EmptySeq, ElementOfSeq
  <2> DEFINE e == [s[1] EXCEPT !.kind = "garbage"]
  <2>4. e \in Requests /\ e.number = s[1].number
    BY <2>3 DEF Requests, Kinds
  <2>5. rest = [s EXCEPT ![1] = e]
    BY <2>1
  <2> HIDE DEF e
  <2>6. /\ rest \in Seq(Requests) /\ Len(rest) = Len(s)
        /\ \A j \in 1..Len(s) : rest[j] = IF j = 1 THEN e ELSE s[j]
    BY <2>2, <2>3, <2>4, <2>5, ExceptSeq
  <2> QED
    BY <2>2, <2>4, <2>6
<1> QED
  BY <1>2, <1>3 DEF Unread

LEMMA RouteSound ==
  ASSUME NEW r, Sound(r), r.ops = {"read"}, r.inbox # <<>>,
         NEW rest \in Unread(r.inbox)
  PROVE  Sound(Route([r EXCEPT !.inbox = rest], Head(r.inbox)))
<1> DEFINE q == Route([r EXCEPT !.inbox = rest], Head(r.inbox))
<1>0. /\ r \in Connections /\ r.inbox \in Seq(Requests) /\ r.link = "open"
      /\ Len(r.inbox) \in Nat \ {0} /\ DOMAIN r.inbox = 1..Len(r.inbox)
  BY EmptySeq, LenProperties DEF Sound, OwnedOnce, Connections
<1>1. Head(r.inbox) = r.inbox[1] /\ r.inbox[1] \in Requests
  BY <1>0, ElementOfSeq
<1>2. rest \in Seq(Requests) /\ DOMAIN rest = 1..Len(rest) /\ Len(rest) \in Nat
  BY <1>0, UnreadLater, LenProperties
<1>3. PICK k \in 2..(Len(r.inbox) + 1) :
              /\ Len(rest) = Len(r.inbox) + 1 - k
              /\ \A j \in 1..Len(rest) : rest[j].number = r.inbox[j + k - 1].number
  BY <1>0, UnreadLater
<1>4. /\ q.link = "open" /\ q.ops = {"route"} /\ q.inbox = rest /\ q.reply = r.inbox[1]
      /\ q.answered = r.answered /\ q.sent = r.sent /\ q.ahead = r.ahead
      /\ q.peer = r.peer
  BY <1>0, <1>1 DEF Route, Connections
<1>5. q \in Connections
  BY <1>0, <1>1, <1>2 DEF Route, Connections
<1> HIDE DEF q
<1>6. OwnedOnce(q)
  BY <1>1, <1>4 DEF OwnedOnce, NoReply, Requests
<1>7. InSequence(q)
  <2>1. InSequence(r)
    BY DEF Sound
  <2>2. \A j \in 1..Len(rest) : j + k - 1 \in 1..Len(r.inbox) /\ 1 < j + k - 1
    BY <1>0, <1>2, <1>3
  <2>3. \A i, j \in DOMAIN rest : i < j => rest[i].number < rest[j].number
    <3> TAKE i, j \in DOMAIN rest
    <3>1. i < j => i + k - 1 < j + k - 1
      BY <1>2, <1>3
    <3> QED
      BY <1>0, <1>2, <1>3, <2>1, <2>2, <3>1 DEF InSequence
  <2>4. \A j \in DOMAIN rest : /\ rest[j].number <= r.sent
                               /\ r.inbox[1].number < rest[j].number
                               /\ \A i \in DOMAIN r.answered : r.answered[i] < rest[j].number
    <3> TAKE j \in DOMAIN rest
    <3> DEFINE m == j + k - 1
    <3>1. m \in DOMAIN r.inbox /\ 1 \in DOMAIN r.inbox /\ 1 < m
      BY <1>0, <1>2, <2>2
    <3>2. rest[j].number = r.inbox[m].number
      BY <1>2, <1>3
    <3> HIDE DEF m
    <3> QED
      BY <2>1, <3>1, <3>2 DEF InSequence
  <2>5. /\ r.inbox[1].number <= r.sent
        /\ \A i \in DOMAIN r.answered : r.answered[i] < r.inbox[1].number
    BY <1>0, <2>1 DEF InSequence
  <2> QED
    BY <1>4, <2>1, <2>3, <2>4, <2>5 DEF InSequence
<1>8. OneUnderWay(q)
  <2>1. ASSUME ~r.ahead
        PROVE  Len(r.inbox) = 1 /\ r.inbox[1].number = Len(r.answered) + 1 /\ rest = <<>>
    <3>1. Len(r.inbox) = 1 /\ r.inbox[1].number = Len(r.answered) + 1
      BY <2>1 DEF Sound, OneUnderWay
    <3>2. Len(rest) = 0
      BY <1>2, <1>3, <3>1
    <3> QED
      BY <1>2, <3>1, <3>2, EmptySeq
  <2> QED
    BY <1>4, <2>1 DEF OneUnderWay, Sound
<1> QED
  BY <1>4, <1>5, <1>6, <1>7, <1>8 DEF Sound, q

LEMMA RespondSound ==
  ASSUME NEW r, Sound(r), r.ops = {"route"}
  PROVE  Sound(Respond(r))
<1> DEFINE q == Respond(r)
<1>1. r \in Connections /\ r.link = "open" /\ r.reply # NoReply
  BY DEF Sound, OwnedOnce
<1>2. /\ q.link = r.link /\ q.ops = {"write"} /\ q.inbox = r.inbox /\ q.reply = r.reply
      /\ q.answered = r.answered /\ q.sent = r.sent /\ q.ahead = r.ahead
      /\ q.peer = r.peer
  BY <1>1 DEF Respond, Connections
<1>3. q \in Connections
  BY <1>1 DEF Respond, Connections
<1> HIDE DEF q
<1>4. OwnedOnce(q)
  BY <1>1, <1>2 DEF OwnedOnce
<1>5. InSequence(q)
  BY <1>2 DEF Sound, InSequence
<1>6. OneUnderWay(q)
  BY <1>2 DEF Sound, OneUnderWay
<1> QED
  BY <1>2, <1>3, <1>4, <1>5, <1>6 DEF Sound, q

LEMMA AfterWriteSound ==
  ASSUME NEW r, Sound(r), r.ops = {"write"}
  PROVE  LET sent == Append(r.answered, r.reply.number)
             q    == AfterWrite([r EXCEPT !.answered = sent])
         IN  Sound(q)
<1> DEFINE n == Len(r.answered)
           sent == Append(r.answered, r.reply.number)
           w == [r EXCEPT !.answered = sent]
           q == AfterWrite(w)
<1>0. /\ r \in Connections /\ r.link = "open" /\ r.reply # NoReply
      /\ r.reply \in Requests /\ r.reply.number \in Nat \ {0}
      /\ r.answered \in Seq(Nat \ {0}) /\ r.inbox \in Seq(Requests)
  BY DEF Sound, OwnedOnce, Connections, Requests
<1>1. n \in Nat /\ DOMAIN r.answered = 1..n
  BY <1>0, LenProperties
<1>2. /\ sent \in Seq(Nat \ {0}) /\ Len(sent) = n + 1
      /\ \A i \in 1..n : sent[i] = r.answered[i]
      /\ sent[n + 1] = r.reply.number
  BY <1>0, AppendProperties
<1>3. DOMAIN sent = 1..(n + 1)
  BY <1>2, LenProperties
<1> HIDE DEF n, sent
<1>4. /\ w.reply = r.reply /\ w.answered = sent /\ w.sent = r.sent /\ w.ahead = r.ahead
      /\ w.peer = r.peer /\ w.inbox = r.inbox /\ w.link = "open"
  BY <1>0 DEF Connections
<1>w. w \in Connections
  BY <1>0, <1>2 DEF Connections
<1> HIDE DEF w
<1>5. /\ q.answered = sent /\ q.sent = r.sent /\ q.ahead = r.ahead /\ q.peer = r.peer
      /\ q.reply = NoReply /\ q.inbox \in {r.inbox, <<>>}
      /\ \/ q.link = "open" /\ q.ops = {"read"}
         \/ q.link = "closed" /\ q.ops = {}
      /\ q \in Connections
  <2>1. CASE r.reply.kind = "persistent"
    <3> DEFINE p == [w EXCEPT !.ops = {"read"}, !.reply = NoReply]
    <3>1. q = p
      BY <1>4, <2>1 DEF AfterWrite
    <3>2. p \in Connections
      BY <1>w DEF Connections
    <3>3. /\ p.answered = w.answered /\ p.sent = w.sent /\ p.ahead = w.ahead
          /\ p.peer = w.peer /\ p.reply = NoReply /\ p.inbox = w.inbox
          /\ p.link = w.link /\ p.ops = {"read"}
      BY <1>w DEF Connections
    <3> HIDE DEF p, q
    <3> QED
      BY <1>4, <3>1, <3>2, <3>3
  <2>2. CASE r.reply.kind # "persistent"
    <3>1. q = Closed(w)
      BY <1>4, <2>2 DEF AfterWrite
    <3>2. Closed(w) \in Connections
      BY <1>w, EmptySeq DEF Connections, Closed
    <3>3. /\ Closed(w).answered = w.answered /\ Closed(w).sent = w.sent
          /\ Closed(w).ahead = w.ahead /\ Closed(w).peer = w.peer
          /\ Closed(w).reply = NoReply /\ Closed(w).inbox = <<>>
          /\ Closed(w).link = "closed" /\ Closed(w).ops = {}
      BY <1>w DEF Connections, Closed
    <3> HIDE DEF q
    <3> QED
      BY <1>4, <3>1, <3>2, <3>3
  <2> QED
    BY <2>1, <2>2
<1> HIDE DEF q
<1>6. OwnedOnce(q)
  BY <1>5 DEF OwnedOnce
<1>7. InSequence(q)
  <2>1. InSequence(r)
    BY DEF Sound
  <2>2. \A i \in DOMAIN sent : \/ i \in DOMAIN r.answered /\ i < n + 1 /\ sent[i] = r.answered[i]
                               \/ i = n + 1 /\ sent[i] = r.reply.number
    BY <1>1, <1>2, <1>3
  <2>3. \A i, j \in DOMAIN sent : i < j => sent[i] < sent[j]
    <3> TAKE i, j \in DOMAIN sent
    <3>1. i < j => i < n + 1 /\ i \in DOMAIN r.answered
      BY <1>1, <1>3
    <3>2. CASE j \in DOMAIN r.answered /\ sent[j] = r.answered[j]
      BY <2>1, <2>2, <3>1, <3>2, <1>1, <1>2 DEF InSequence
    <3>3. CASE j = n + 1 /\ sent[j] = r.reply.number
      BY <1>0, <2>1, <3>1, <3>3, <1>1, <1>2 DEF InSequence
    <3> QED
      BY <2>2, <3>2, <3>3
  <2>4. \A i \in DOMAIN sent : /\ sent[i] <= r.sent
                               /\ \A j \in DOMAIN r.inbox : sent[i] < r.inbox[j].number
    BY <1>0, <2>1, <2>2 DEF InSequence
  <2>5. DOMAIN q.inbox \subseteq DOMAIN r.inbox /\ \A j \in DOMAIN q.inbox : q.inbox[j] = r.inbox[j]
    BY <1>5
  <2> QED
    BY <1>5, <2>1, <2>3, <2>4, <2>5 DEF InSequence
<1>8. OneUnderWay(q)
  <2>1. ASSUME ~r.ahead
        PROVE  /\ r.inbox = <<>> /\ r.reply.number = n + 1 /\ r.sent <= n + 1
               /\ \A i \in 1..n : r.answered[i] = i
    BY <1>0, <1>1, <2>1 DEF Sound, OneUnderWay, n
  <2>2. ASSUME ~r.ahead
        PROVE  \A i \in DOMAIN sent : sent[i] = i
    BY <1>1, <1>2, <1>3, <2>1, <2>2
  <2>3. r.sent \in Nat
    BY <1>0 DEF Connections
  <2> QED
    BY <1>1, <1>2, <1>5, <2>1, <2>2, <2>3 DEF OneUnderWay
<1> QED
  BY <1>5, <1>6, <1>7, <1>8 DEF Sound, q, w, sent

LEMMA SendSound ==
  ASSUME NEW r, Sound(r), NEW kind \in Kinds
  PROVE  LET n == r.sent + 1
             q == [r EXCEPT !.inbox = Append(r.inbox, [number |-> n, kind |-> kind]),
                            !.sent  = n,
                            !.ahead = r.ahead \/ Len(r.answered) < r.sent]
         IN  Sound(q)
<1> DEFINE n == r.sent + 1
           request == [number |-> n, kind |-> kind]
           inbox == Append(r.inbox, request)
           q == [r EXCEPT !.inbox = inbox, !.sent = n,
                          !.ahead = r.ahead \/ Len(r.answered) < r.sent]
           k == Len(r.inbox)
<1>0. /\ r \in Connections /\ r.inbox \in Seq(Requests) /\ r.sent \in Nat
      /\ r.answered \in Seq(Nat \ {0}) /\ r.ahead \in BOOLEAN
  BY DEF Sound, Connections
<1>1. /\ k \in Nat /\ DOMAIN r.inbox = 1..k
      /\ Len(r.answered) \in Nat /\ DOMAIN r.answered = 1..Len(r.answered)
  BY <1>0, LenProperties
<1>2. request \in Requests /\ request.number = r.sent + 1
  BY <1>0 DEF Requests
<1> HIDE DEF request
<1>3. /\ inbox \in Seq(Requests) /\ Len(inbox) = k + 1 /\ inbox # <<>>
      /\ \A j \in 1..k : inbox[j] = r.inbox[j]
      /\ inbox[k + 1] = request
  BY <1>0, <1>2, AppendProperties
<1>4. DOMAIN inbox = 1..(k + 1)
  BY <1>3, LenProperties
<1> HIDE DEF inbox
<1> DEFINE ahead == r.ahead \/ Len(r.answered) < r.sent
<1>a. ahead \in BOOLEAN
  OBVIOUS
<1>n. n \in Nat
  BY <1>0
<1> HIDE DEF ahead, n
<1>t. [r EXCEPT !.inbox = inbox, !.sent = n, !.ahead = ahead] \in Connections
  BY <1>0, <1>3, <1>a, <1>n DEF Connections
<1>f. LET e == [r EXCEPT !.inbox = inbox, !.sent = n, !.ahead = ahead] IN
      /\ e.link = r.link /\ e.ops = r.ops /\ e.reply = r.reply /\ e.answered = r.answered
      /\ e.inbox = inbox /\ e.sent = n /\ e.peer = r.peer /\ e.ahead = ahead
  BY <1>0, <1>a DEF Connections
<1>5. /\ q \in Connections
      /\ q.link = r.link /\ q.ops = r.ops /\ q.reply = r.reply /\ q.answered = r.answered
      /\ q.inbox = inbox /\ q.sent = r.sent + 1 /\ q.peer = r.peer
      /\ q.ahead = (r.ahead \/ Len(r.answered) < r.sent)
  BY <1>t, <1>f DEF ahead, n
<1> USE DEF n
<1> HIDE DEF q, k
<1>6. OwnedOnce(q)
  BY <1>5 DEF OwnedOnce, Sound
<1>7. InSequence(q)
  <2>1. InSequence(r)
    BY DEF Sound
  <2>2. \A j \in DOMAIN inbox : \/ j \in DOMAIN r.inbox /\ inbox[j] = r.inbox[j]
                                \/ j = k + 1 /\ inbox[j].number = r.sent + 1
    BY <1>1, <1>2, <1>3, <1>4
  <2>3. \A i \in DOMAIN r.answered : r.answered[i] \in Nat
    BY <1>0, <1>1, ElementOfSeq
  <2>4. \A j \in DOMAIN r.inbox : r.inbox[j].number \in Nat
    <3>1. \A j \in DOMAIN r.inbox : r.inbox[j] \in Requests
      BY <1>0, <1>1, ElementOfSeq
    <3> QED
      BY <3>1 DEF Requests
  <2>5. \A i, j \in DOMAIN inbox : i < j => inbox[i].number < inbox[j].number
    <3> TAKE i, j \in DOMAIN inbox
    <3>1. i < j => i \in DOMAIN r.inbox /\ inbox[i] = r.inbox[i]
      BY <1>1, <1>3, <1>4
    <3>2. CASE j \in DOMAIN r.inbox /\ inbox[j] = r.inbox[j]
      BY <2>1, <3>1, <3>2 DEF InSequence
    <3>3. CASE j = k + 1 /\ inbox[j].number = r.sent + 1
      BY <1>0, <2>1, <2>4, <3>1, <3>3 DEF InSequence
    <3> QED
      BY <2>2, <3>2, <3>3
  <2>6. \A i \in DOMAIN r.answered : /\ r.answered[i] <= n
                                     /\ \A j \in DOMAIN inbox : r.answered[i] < inbox[j].number
    BY <1>0, <2>1, <2>2, <2>3, <2>4 DEF InSequence
  <2>7. \A j \in DOMAIN inbox : inbox[j].number <= n
    BY <1>0, <2>1, <2>2, <2>4 DEF InSequence
  <2>8. r.reply # NoReply =>
          /\ r.reply.number <= n
          /\ \A j \in DOMAIN inbox : r.reply.number < inbox[j].number
    <3>1. r.reply # NoReply => r.reply.number \in Nat
      BY <1>0 DEF Connections, Requests
    <3> QED
      BY <1>0, <2>1, <2>2, <2>4, <3>1 DEF InSequence
  <2> QED
    BY <1>5, <2>1, <2>5, <2>6, <2>7, <2>8 DEF InSequence
<1>8. OneUnderWay(q)
  <2>1. ASSUME ~q.ahead
        PROVE  /\ ~r.ahead /\ r.sent = Len(r.answered)
               /\ \A i \in DOMAIN r.answered : r.answered[i] = i
    <3>1. ~r.ahead /\ ~(Len(r.answered) < r.sent)
      BY <1>5, <2>1
    <3>2. \A i \in DOMAIN r.answered : r.answered[i] = i /\ i <= r.sent
      BY <3>1 DEF Sound, OneUnderWay, InSequence
    <3>3. Len(r.answered) <= r.sent
      BY <1>0, <1>1, <3>2
    <3> QED
      BY <1>0, <1>1, <3>1, <3>2, <3>3
  <2>2. ASSUME ~q.ahead
        PROVE  r.inbox = <<>> /\ r.reply = NoReply
    <3>1. r.inbox # <<>> => 1 \in DOMAIN r.inbox /\ r.inbox[1].number = r.sent + 1
      BY <1>0, <1>1, <2>1, <2>2 DEF Sound, OneUnderWay, k
    <3>2. \A j \in DOMAIN r.inbox : r.inbox[j].number <= r.sent
      BY DEF Sound, InSequence
    <3>3. r.reply # NoReply => r.reply.number = r.sent + 1 /\ r.reply.number <= r.sent
      BY <2>1, <2>2 DEF Sound, OneUnderWay, InSequence
    <3> QED
      BY <1>0, <3>1, <3>2, <3>3
  <2>3. r.inbox = <<>> => k = 0
    BY EmptySeq DEF k
  <2>4. ASSUME ~q.ahead
        PROVE  Len(inbox) = 1 /\ inbox[1].number = Len(r.answered) + 1
    BY <1>2, <1>3, <2>1, <2>2, <2>3, <2>4
  <2> SUFFICES ASSUME ~q.ahead
               PROVE  /\ \A i \in DOMAIN q.answered : q.answered[i] = i
                      /\ q.sent <= Len(q.answered) + 1
                      /\ q.reply = NoReply /\ Len(q.inbox) = 1
                      /\ q.inbox[1].number = Len(q.answered) + 1
    BY DEF OneUnderWay
  <2>5. \A i \in DOMAIN q.answered : q.answered[i] = i
    BY <1>5, <2>1
  <2>6. q.sent <= Len(q.answered) + 1
    BY <1>0, <1>1, <1>5, <2>1
  <2>7. q.reply = NoReply
    BY <1>5, <2>2
  <2>8. Len(q.inbox) = 1 /\ q.inbox[1].number = Len(q.answered) + 1
    BY <1>5, <2>4
  <2> QED
    BY <2>5, <2>6, <2>7, <2>8
<1> QED
  BY <1>5, <1>6, <1>7, <1>8 DEF Sound, q, inbox, request

-----------------------------------------------------------------------------
(* The server.                                                             *)

\* A step that replaces one connection by a sound one, whose client has not
\* come back from a reset after the server failed.
LEMMA OneChanges ==
  ASSUME Inv, NEW c \in Clients, NEW q, Sound(q),
         conn' = [conn EXCEPT ![c] = q],
         process' = process, signalled' \in BOOLEAN, accepting' \in BOOLEAN,
         acceptError' \in BOOLEAN
  PROVE  Inv'
<1>1. conn' \in [Clients -> Connections]
  BY DEF Inv, Sound
<1>2. \A d \in Clients : conn'[d] = IF d = c THEN q ELSE conn[d]
  BY DEF Inv
<1>3. \A d \in Clients : Sound(conn'[d])
  BY <1>2 DEF Inv
<1> QED
  BY <1>1, <1>3 DEF Inv

\* The end of the process closes every connection.
LEMMA ExitInv ==
  ASSUME Inv, NEW how \in {"stopped", "failed", "crashed"}, Exit(how)
  PROVE  Inv'
<1>1. \A c \in Clients : conn'[c] = IF Connected(c) THEN Closed(conn[c]) ELSE conn[c]
  BY DEF Exit
<1>2. \A c \in Clients : Sound(conn'[c])
  BY <1>1, ClosedSound DEF Inv
<1>3. conn' \in [Clients -> Connections]
  <2>1. \A c \in Clients : conn'[c] \in Connections
    BY <1>2 DEF Sound
  <2> QED
    BY <2>1 DEF Exit
<1> QED
  BY <1>2, <1>3 DEF Inv, Exit

LEMMA CloseInv ==
  ASSUME Inv, NEW c \in Clients, Close(c)
  PROVE  Inv'
<1>1. Sound(Closed(conn[c]))
  BY ClosedSound DEF Inv
<1>2. conn' = [conn EXCEPT ![c] = Closed(conn[c])]
  BY DEF Close
<1> QED
  BY <1>1, <1>2, OneChanges DEF Close, Inv

LEMMA AcceptInv ==
  ASSUME Inv, NEW c \in Clients, Accept(c)
  PROVE  Inv'
<1> DEFINE r == conn[c]
           q == [r EXCEPT !.link = "open", !.ops = {"read"}]
<1>1. Sound(r) /\ r \in Connections /\ r.link = "queued"
  BY DEF Inv, Accept, Sound
<1>2. conn' = [conn EXCEPT ![c] = q]
  BY DEF Accept
<1> HIDE DEF r
<1>3. /\ q.link = "open" /\ q.ops = {"read"} /\ q.inbox = r.inbox /\ q.reply = r.reply
      /\ q.answered = r.answered /\ q.sent = r.sent /\ q.ahead = r.ahead
      /\ q.peer = r.peer
  BY <1>1 DEF Connections
<1>4. q \in Connections
  BY <1>1 DEF Connections
<1> HIDE DEF q
<1>5. OwnedOnce(q)
  BY <1>1, <1>3 DEF Sound, OwnedOnce
<1>6. InSequence(q)
  BY <1>1, <1>3 DEF Sound, InSequence
<1>7. OneUnderWay(q)
  BY <1>1, <1>3 DEF Sound, OneUnderWay
<1>8. Sound(q)
  BY <1>4, <1>5, <1>6, <1>7 DEF Sound
<1> QED
  BY <1>2, <1>3, <1>8, OneChanges DEF Accept, Inv, r

LEMMA ReadRequestInv ==
  ASSUME Inv, NEW c \in Clients, ReadRequest(c)
  PROVE  Inv'
<1>1. Sound(conn[c]) /\ conn[c].ops = {"read"} /\ conn[c].inbox # <<>>
  BY DEF Inv, ReadRequest, Reading, Sound, OwnedOnce
<1>2. PICK rest \in Unread(conn[c].inbox) :
        conn' = [conn EXCEPT ![c] =
                   Route([conn[c] EXCEPT !.inbox = rest], Head(conn[c].inbox))]
  BY DEF ReadRequest
<1> DEFINE q == Route([conn[c] EXCEPT !.inbox = rest], Head(conn[c].inbox))
<1>3. Sound(q)
  BY <1>1, RouteSound
<1>4. conn' = [conn EXCEPT ![c] = q]
  BY <1>2
<1> HIDE DEF q
<1> QED
  BY <1>3, <1>4, OneChanges DEF ReadRequest, Inv

LEMMA RouterReturnsInv ==
  ASSUME Inv, NEW c \in Clients, RouterReturns(c)
  PROVE  Inv'
<1>1. Sound(conn[c]) /\ conn[c].ops = {"route"}
  BY DEF Inv, RouterReturns, Routing, Sound, OwnedOnce
<1> DEFINE q == Respond(conn[c])
<1>2. Sound(q)
  BY <1>1, RespondSound
<1>3. conn' = [conn EXCEPT ![c] = q]
  BY DEF RouterReturns
<1> HIDE DEF q
<1> QED
  BY <1>2, <1>3, OneChanges DEF RouterReturns, Inv

LEMMA WriteResponseInv ==
  ASSUME Inv, NEW c \in Clients, WriteResponse(c)
  PROVE  Inv'
<1>1. Sound(conn[c]) /\ conn[c].ops = {"write"}
  BY DEF Inv, WriteResponse, Writing, Sound, OwnedOnce
<1> DEFINE sent == Append(conn[c].answered, conn[c].reply.number)
           q    == AfterWrite([conn[c] EXCEPT !.answered = sent])
<1>2. Sound(q)
  BY <1>1, AfterWriteSound
<1>3. conn' = [conn EXCEPT ![c] = q]
  BY DEF WriteResponse
<1> HIDE DEF q
<1> QED
  BY <1>2, <1>3, OneChanges DEF WriteResponse, Inv

LEMMA ConnectInv ==
  ASSUME Inv, NEW c \in Clients, Connect(c)
  PROVE  Inv'
<1>1. Sound(Fresh("queued"))
  BY FreshSound
<1> QED
  BY <1>1, OneChanges DEF Connect, Running, Inv

LEMMA SendInv ==
  ASSUME Inv, NEW c \in Clients, NEW kind \in Kinds, Send(c, kind)
  PROVE  Inv'
<1> DEFINE n == conn[c].sent + 1
           q == [conn[c] EXCEPT
                   !.inbox = Append(conn[c].inbox, [number |-> n, kind |-> kind]),
                   !.sent  = n,
                   !.ahead = conn[c].ahead \/ Len(conn[c].answered) < conn[c].sent]
<1>1. Sound(conn[c])
  BY DEF Inv
<1>2. Sound(q)
  BY <1>1, SendSound
<1>3. conn' = [conn EXCEPT ![c] = q]
  BY DEF Send
<1> HIDE DEF q
<1> QED
  BY <1>2, <1>3, OneChanges DEF Send, Inv

\* A client that shuts down or resets leaves its connection sound.
LEMMA PeerSound ==
  ASSUME NEW r, Sound(r), NEW peer \in {"shut", "reset"},
         NEW rest, rest = r.inbox \/ rest = <<>>,
         NEW q, q = [r EXCEPT !.peer = peer, !.inbox = rest]
  PROVE  Sound(q)
<1>1. r \in Connections
  BY DEF Sound
<1>2. rest \in Seq(Requests)
  BY <1>1, EmptySeq DEF Connections
<1>3. /\ q.link = r.link /\ q.ops = r.ops /\ q.inbox = rest /\ q.reply = r.reply
      /\ q.answered = r.answered /\ q.sent = r.sent /\ q.ahead = r.ahead
      /\ q.peer = peer
  BY <1>1 DEF Connections
<1>4. q \in Connections
  BY <1>1, <1>2 DEF Connections
<1>5. OwnedOnce(q)
  BY <1>3 DEF Sound, OwnedOnce
<1>6. InSequence(q)
  BY <1>3 DEF Sound, InSequence
<1>7. OneUnderWay(q)
  BY <1>3 DEF Sound, OneUnderWay
<1> QED
  BY <1>3, <1>4, <1>5, <1>6, <1>7 DEF Sound

LEMMA ShutInv ==
  ASSUME Inv, NEW c \in Clients, Shut(c)
  PROVE  Inv'
<1> DEFINE r == conn[c]
<1>1. Sound(r) /\ r \in Connections /\ r.peer = "up"
  BY DEF Inv, Sound, Shut
<1>2. conn' = [conn EXCEPT ![c] = [r EXCEPT !.peer = "shut"]]
  BY DEF Shut
<1>3. PICK rest : rest = r.inbox
  OBVIOUS
<1> HIDE DEF r
<1>4. PICK q : q = [r EXCEPT !.peer = "shut", !.inbox = rest]
  OBVIOUS
<1>5. Sound(q)
  BY <1>1, <1>3, <1>4, PeerSound
<1>6. q = [r EXCEPT !.peer = "shut"]
  BY <1>1, <1>3, <1>4 DEF Connections
<1> QED
  BY <1>1, <1>2, <1>5, <1>6, OneChanges DEF Shut, Inv, r

LEMMA ResetInv ==
  ASSUME Inv, NEW c \in Clients, Reset(c)
  PROVE  Inv'
<1> DEFINE r == conn[c]
<1>1. PICK rest \in {r.inbox, <<>>} :
        conn' = [conn EXCEPT ![c] = [r EXCEPT !.peer = "reset", !.inbox = rest]]
  BY DEF Reset
<1> DEFINE q == [r EXCEPT !.peer = "reset", !.inbox = rest]
<1>2. Sound(r)
  BY DEF Inv
<1>3. conn' = [conn EXCEPT ![c] = q]
  BY <1>1
<1> HIDE DEF r
<1>4. PICK e : e = q
  OBVIOUS
<1>5. Sound(e)
  BY <1>2, <1>4, PeerSound
<1> HIDE DEF q
<1> QED
  BY <1>3, <1>4, <1>5, OneChanges DEF Reset, Inv

LEMMA InitInv == Init => Inv
<1> SUFFICES ASSUME Init PROVE Inv
  OBVIOUS
<1>1. \A c \in Clients : conn[c] = Fresh("none")
  BY DEF Init
<1>2. Sound(Fresh("none"))
  BY FreshSound
<1>3. \A c \in Clients : Sound(conn[c])
  BY <1>1, <1>2
<1>4. conn \in [Clients -> Connections]
  BY <1>2 DEF Init, Sound
<1> QED
  BY <1>3, <1>4 DEF Init, Inv

LEMMA NextInv == Inv /\ [Next]_vars => Inv'
<1> SUFFICES ASSUME Inv, [Next]_vars PROVE Inv'
  OBVIOUS
<1>1. CASE AcceptFails
  BY <1>1 DEF AcceptFails, Inv
<1>2. ASSUME NEW c \in Clients, Accept(c) PROVE Inv'
  BY <1>2, AcceptInv
<1>3. ASSUME NEW c \in Clients, ReadRequest(c) PROVE Inv'
  BY <1>3, ReadRequestInv
<1>4. ASSUME NEW c \in Clients, ReadEndOfStream(c) PROVE Inv'
  BY <1>4, CloseInv DEF ReadEndOfStream
<1>5. ASSUME NEW c \in Clients, ReadError(c) PROVE Inv'
  BY <1>5, CloseInv, ExitInv DEF ReadError
<1>6. ASSUME NEW c \in Clients, WriteResponse(c) PROVE Inv'
  BY <1>6, WriteResponseInv
<1>7. ASSUME NEW c \in Clients, WriteFails(c) PROVE Inv'
  BY <1>7, CloseInv DEF WriteFails, WriteError
<1>8. CASE Signal
  BY <1>8, ExitInv DEF Signal
<1>9. ASSUME NEW c \in Clients, Connect(c) PROVE Inv'
  BY <1>9, ConnectInv
<1>10. ASSUME NEW c \in Clients, Shut(c) PROVE Inv'
  BY <1>10, ShutInv
<1>11. ASSUME NEW c \in Clients, Reset(c) PROVE Inv'
  BY <1>11, ResetInv
<1>12. ASSUME NEW c \in Clients, NEW kind \in Kinds, Send(c, kind) PROVE Inv'
  BY <1>12, SendInv
<1>13. CASE UNCHANGED vars
  BY <1>13 DEF vars, Inv
<1>14. ASSUME NEW c \in Clients, RouterReturns(c) PROVE Inv'
  BY <1>14, RouterReturnsInv
<1>15. ASSUME NEW c \in Clients, NullResponse(c) \/ RouterThrows(c) PROVE Inv'
  BY <1>15, ExitInv DEF NullResponse, RouterThrows
<1>16. CASE SignalArrives
  BY <1>16 DEF SignalArrives, Inv
<1> QED
  BY <1>1, <1>2, <1>3, <1>4, <1>5, <1>6, <1>7, <1>8, <1>9, <1>10, <1>11, <1>12, <1>13,
     <1>14, <1>15, <1>16 DEF Next, Serve, Accepted, Read, Routed, Write

\* The invariant holds in every reachable state.
THEOREM Invariance == Spec => []Inv
<1> QED
  BY InitInv, NextInv, PTL DEF Spec

-----------------------------------------------------------------------------
(* What it gives.                                                          *)

\* Every variable of the server and of its connections has its type.
THEOREM TypeCorrect == Spec => []TypeOK
<1>1. Inv => TypeOK
  BY DEF Inv, TypeOK
<1> QED
  BY <1>1, Invariance, PTL

\* Every open socket has exactly one operation outstanding, whose handler
\* owns it: it is neither lost nor used twice at once.
THEOREM OneOperationEach == Spec => []OneOperation
<1>1. Inv => OneOperation
  <2> SUFFICES ASSUME Inv, NEW c \in Clients
               PROVE  /\ Cardinality(conn[c].ops) = IF conn[c].link = "open" THEN 1 ELSE 0
                      /\ conn[c].ops \cap {"route", "write"} # {} <=> conn[c].reply # NoReply
    BY DEF OneOperation
  <2>1. OwnedOnce(conn[c])
    BY DEF Inv, Sound
  <2>2. /\ Cardinality({}) = 0
        /\ Cardinality({"read"}) = 1 /\ Cardinality({"route"}) = 1
        /\ Cardinality({"write"}) = 1
    BY FS_EmptySet, FS_Singleton
  <2>3. Cardinality(conn[c].ops) = IF conn[c].link = "open" THEN 1 ELSE 0
    BY <2>1, <2>2 DEF OwnedOnce
  <2>4. conn[c].ops \cap {"route", "write"} # {} <=> conn[c].ops \in {{"route"}, {"write"}}
    BY <2>1 DEF OwnedOnce
  <2> QED
    BY <2>1, <2>3, <2>4 DEF OwnedOnce
<1> QED
  BY <1>1, Invariance, PTL

\* No request is answered twice or before an earlier one, and a client that
\* waits for each response gets them one for one.
THEOREM InOrder == Spec => []ResponsesInOrder
<1>1. Inv => ResponsesInOrder
  BY DEF Inv, Sound, InSequence, OneUnderWay, ResponsesInOrder
<1> QED
  BY <1>1, Invariance, PTL

(***************************************************************************)
(* The process ends, for all clients, only by a signal, in the router with *)
(* a request that one of them has sent, or by the reset of a client whose  *)
(* connection is being read.                                               *)
(***************************************************************************)
THEOREM EndsOnlyForCause == Spec => EndsForCause
<1> DEFINE Cause ==
      \/ process' = "stopped" /\ signalled /\ Free
      \/ /\ process' \in {"failed", "crashed"}
         /\ \E c \in Clients : Routing(c) /\ conn[c].reply \in Requests
      \/ /\ process' = "failed"
         /\ \E c \in Clients : Reading(c) /\ conn[c].peer = "reset"
<1>1. Inv /\ [Next]_vars => [Running /\ ~Running' => Cause]_vars
  <2> SUFFICES ASSUME Inv, Next, Running, ~Running' PROVE Cause
    OBVIOUS
  <2>1. process' # process
    BY DEF Running
  <2>2. ASSUME NEW c \in Clients, RouterThrows(c) \/ NullResponse(c) PROVE Cause
    <3>1. Routing(c) /\ process' \in {"failed", "crashed"}
      BY <2>2 DEF RouterThrows, NullResponse, Exit
    <3>2. conn[c].reply \in Requests
      BY <3>1 DEF Routing, Inv, Sound, OwnedOnce, Connections
    <3> QED
      BY <3>1, <3>2
  <2>3. ASSUME NEW c \in Clients, ReadError(c) PROVE Cause
    BY <2>1, <2>3 DEF ReadError, Close, Exit
  <2>4. CASE Signal
    BY <2>4 DEF Signal, Exit
  <2>5. ASSUME NEW c \in Clients, Serve(c)
        PROVE  RouterThrows(c) \/ NullResponse(c) \/ ReadError(c)
    BY <2>1, <2>5 DEF Serve, Accepted, Read, Routed, Write, Accept, AcceptFails,
       ReadRequest, ReadEndOfStream, RouterReturns, WriteResponse, WriteFails, WriteError, Close
  <2> QED
    BY <2>1, <2>2, <2>3, <2>4, <2>5 DEF Next, AcceptFails, SignalArrives, Connect, Shut,
       Reset, Send
<1> QED
  BY <1>1, Invariance, PTL DEF Spec, EndsForCause

-----------------------------------------------------------------------------
(* Nobody who waits is forgotten.                                          *)

\* A request that a waiting client has sent is in the socket, in the router
\* or being answered, unless the client has reset.
Held(r) ==
  r.link \in {"queued", "open"} /\ ~r.ahead /\ Len(r.answered) < r.sent =>
    r.inbox # <<>> \/ r.reply # NoReply \/ r.peer = "reset"

AllHeld == \A c \in Clients : Held(conn[c])

LEMMA OneHeld ==
  ASSUME Inv, AllHeld, NEW c \in Clients, NEW q, Held(q), conn' = [conn EXCEPT ![c] = q]
  PROVE  AllHeld'
BY DEF AllHeld, Inv

LEMMA ClosedHeld ==
  ASSUME NEW r \in Connections
  PROVE  Held(Closed(r))
BY DEF Held, Closed, Connections

LEMMA ExitHeld ==
  ASSUME Inv, AllHeld, NEW how, Exit(how)
  PROVE  AllHeld'
<1>1. \A c \in Clients : conn'[c] = IF Connected(c) THEN Closed(conn[c]) ELSE conn[c]
  BY DEF Exit
<1>2. \A c \in Clients : Held(Closed(conn[c])) /\ Held(conn[c])
  BY ClosedHeld DEF AllHeld, Inv
<1> QED
  BY <1>1, <1>2 DEF AllHeld

LEMMA CloseHeld ==
  ASSUME Inv, AllHeld, NEW c \in Clients, Close(c)
  PROVE  AllHeld'
<1>1. Held(Closed(conn[c]))
  BY ClosedHeld DEF Inv
<1> QED
  BY <1>1, OneHeld DEF Close

LEMMA AcceptHeld ==
  ASSUME Inv, AllHeld, NEW c \in Clients, Accept(c)
  PROVE  AllHeld'
<1>1. PICK q : q = [conn[c] EXCEPT !.link = "open", !.ops = {"read"}]
  OBVIOUS
<1>2. conn[c] \in Connections /\ Held(conn[c]) /\ conn[c].link = "queued"
  BY DEF Inv, AllHeld, Accept
<1>3. /\ q.inbox = conn[c].inbox /\ q.reply = conn[c].reply /\ q.peer = conn[c].peer
      /\ q.ahead = conn[c].ahead /\ q.sent = conn[c].sent /\ q.answered = conn[c].answered
  BY <1>1, <1>2 DEF Connections
<1>4. Held(q)
  BY <1>2, <1>3 DEF Held
<1> QED
  BY <1>1, <1>4, OneHeld DEF Accept

LEMMA ReadHeld ==
  ASSUME Inv, AllHeld, NEW c \in Clients, ReadRequest(c)
  PROVE  AllHeld'
<1>1. PICK rest \in Unread(conn[c].inbox) :
        conn' = [conn EXCEPT ![c] =
                   Route([conn[c] EXCEPT !.inbox = rest], Head(conn[c].inbox))]
  BY DEF ReadRequest
<1>2. PICK q : q = Route([conn[c] EXCEPT !.inbox = rest], Head(conn[c].inbox))
  OBVIOUS
<1>3. conn[c] \in Connections /\ conn[c].inbox # <<>> /\ conn[c].inbox \in Seq(Requests)
  BY DEF Inv, ReadRequest, Connections
<1>4. Head(conn[c].inbox) \in Requests
  BY <1>3, HeadTailProperties
<1>5. q.reply = Head(conn[c].inbox)
  BY <1>2, <1>3 DEF Route, Connections
<1>6. NoReply \notin Requests
  BY DEF NoReply, Requests
<1>7. Held(q)
  BY <1>4, <1>5, <1>6 DEF Held
<1> QED
  BY <1>1, <1>2, <1>7, OneHeld

LEMMA RouterReturnsHeld ==
  ASSUME Inv, AllHeld, NEW c \in Clients, RouterReturns(c)
  PROVE  AllHeld'
<1>1. PICK q : q = Respond(conn[c])
  OBVIOUS
<1>2. conn[c] \in Connections /\ Held(conn[c])
  BY DEF Inv, AllHeld
<1>3. /\ q.inbox = conn[c].inbox /\ q.reply = conn[c].reply /\ q.peer = conn[c].peer
      /\ q.link = conn[c].link /\ q.ahead = conn[c].ahead
      /\ q.sent = conn[c].sent /\ q.answered = conn[c].answered
  BY <1>1, <1>2 DEF Respond, Connections
<1>4. Held(q)
  BY <1>2, <1>3 DEF Held
<1> QED
  BY <1>1, <1>4, OneHeld DEF RouterReturns

\* When a waiting client has been answered, it has nothing else under way.
LEMMA WriteHeld ==
  ASSUME Inv, AllHeld, NEW c \in Clients, WriteResponse(c)
  PROVE  AllHeld'
<1> DEFINE r == conn[c]
           sent == Append(r.answered, r.reply.number)
           w == [r EXCEPT !.answered = sent]
<1>1. r \in Connections /\ r.reply # NoReply /\ OneUnderWay(r)
  BY DEF Inv, Sound, OwnedOnce, WriteResponse, Writing
<1>2. r.answered \in Seq(Nat \ {0}) /\ r.reply.number \in Nat \ {0} /\ r.sent \in Nat
  BY <1>1 DEF Connections, Requests
<1>3. sent \in Seq(Nat \ {0}) /\ Len(sent) = Len(r.answered) + 1 /\ Len(r.answered) \in Nat
  BY <1>2, AppendProperties, LenProperties
<1>4. PICK q : q = AfterWrite(w)
  OBVIOUS
<1>5. conn' = [conn EXCEPT ![c] = q]
  BY <1>4 DEF WriteResponse
<1> HIDE DEF r, sent
<1>6. w \in Connections /\ w.answered = sent /\ w.sent = r.sent /\ w.ahead = r.ahead
  BY <1>1, <1>3 DEF Connections
<1> HIDE DEF w
<1>7. \/ q = Closed(w)
      \/ q.answered = sent /\ q.sent = r.sent /\ q.ahead = r.ahead
  <2> DEFINE p == [w EXCEPT !.ops = {"read"}, !.reply = NoReply]
  <2>1. p.answered = sent /\ p.sent = r.sent /\ p.ahead = r.ahead
    BY <1>6 DEF Connections
  <2>2. q = p \/ q = Closed(w)
    BY <1>4 DEF AfterWrite
  <2> HIDE DEF p
  <2> QED
    BY <2>1, <2>2
<1>8. Held(q)
  BY <1>1, <1>2, <1>3, <1>6, <1>7, ClosedHeld DEF Held, OneUnderWay
<1> QED
  BY <1>5, <1>8, OneHeld

LEMMA SendHeld ==
  ASSUME Inv, AllHeld, NEW c \in Clients, NEW kind \in Kinds, Send(c, kind)
  PROVE  AllHeld'
<1> DEFINE r == conn[c]
           n == r.sent + 1
           request == [number |-> n, kind |-> kind]
           inbox == Append(r.inbox, request)
<1>1. PICK q : q = [r EXCEPT !.inbox = inbox, !.sent = n,
                             !.ahead = r.ahead \/ Len(r.answered) < r.sent]
  OBVIOUS
<1>2. conn' = [conn EXCEPT ![c] = q]
  BY <1>1 DEF Send
<1>3. r \in Connections /\ r.inbox \in Seq(Requests) /\ r.sent \in Nat
  BY DEF Inv, Connections
<1>4. request \in Requests
  BY <1>3 DEF Requests
<1> HIDE DEF r, request
<1>5. inbox # <<>>
  BY <1>3, <1>4, AppendProperties, EmptySeq
<1> HIDE DEF inbox
<1>6. q.inbox = inbox
  BY <1>1, <1>3 DEF Connections
<1>7. Held(q)
  BY <1>5, <1>6 DEF Held
<1> QED
  BY <1>2, <1>7, OneHeld

LEMMA ShutHeld ==
  ASSUME Inv, AllHeld, NEW c \in Clients, Shut(c)
  PROVE  AllHeld'
<1>1. PICK q : q = [conn[c] EXCEPT !.peer = "shut"]
  OBVIOUS
<1>2. conn[c] \in Connections /\ Held(conn[c]) /\ conn[c].peer = "up"
  BY DEF Inv, AllHeld, Shut
<1>3. /\ q.inbox = conn[c].inbox /\ q.reply = conn[c].reply /\ q.link = conn[c].link
      /\ q.ahead = conn[c].ahead /\ q.sent = conn[c].sent /\ q.answered = conn[c].answered
  BY <1>1, <1>2 DEF Connections
<1>4. Held(q)
  BY <1>2, <1>3 DEF Held
<1>5. conn' = [conn EXCEPT ![c] = q]
  BY <1>1 DEF Shut
<1> QED
  BY <1>4, <1>5, OneHeld

LEMMA ResetHeld ==
  ASSUME Inv, AllHeld, NEW c \in Clients, Reset(c)
  PROVE  AllHeld'
<1>1. PICK rest \in {conn[c].inbox, <<>>} :
        conn' = [conn EXCEPT ![c] = [conn[c] EXCEPT !.peer = "reset", !.inbox = rest]]
  BY DEF Reset
<1>2. PICK q : q = [conn[c] EXCEPT !.peer = "reset", !.inbox = rest]
  OBVIOUS
<1>3. q.peer = "reset"
  BY <1>2 DEF Inv, Connections
<1>4. Held(q)
  BY <1>3 DEF Held
<1> QED
  BY <1>1, <1>2, <1>4, OneHeld

LEMMA NextHeld == Inv /\ AllHeld /\ [Next]_vars => AllHeld'
<1> SUFFICES ASSUME Inv, AllHeld, [Next]_vars PROVE AllHeld'
  OBVIOUS
<1>1. ASSUME NEW c \in Clients, Serve(c) PROVE AllHeld'
  <2>1. CASE Accepted(c)
    BY <2>1, AcceptHeld DEF Accepted, AcceptFails, AllHeld
  <2>2. CASE Read(c)
    BY <2>2, ReadHeld, CloseHeld, ExitHeld DEF Read, ReadEndOfStream, ReadError
  <2>3. CASE Routed(c)
    BY <2>3, RouterReturnsHeld, ExitHeld DEF Routed, NullResponse, RouterThrows
  <2>4. CASE Write(c)
    BY <2>4, WriteHeld, CloseHeld DEF Write, WriteFails, WriteError
  <2> QED
    BY <1>1, <2>1, <2>2, <2>3, <2>4 DEF Serve
<1>2. CASE Signal
  BY <1>2, ExitHeld DEF Signal
<1>3. CASE SignalArrives
  BY <1>3 DEF SignalArrives, AllHeld
<1>4. ASSUME NEW c \in Clients, Connect(c) PROVE AllHeld'
  <2>1. Held(Fresh("queued"))
    BY DEF Held, Fresh
  <2> QED
    BY <1>4, <2>1, OneHeld DEF Connect
<1>5. ASSUME NEW c \in Clients, Shut(c) \/ Reset(c) PROVE AllHeld'
  BY <1>5, ShutHeld, ResetHeld
<1>6. ASSUME NEW c \in Clients, NEW kind \in Kinds, Send(c, kind) PROVE AllHeld'
  BY <1>6, SendHeld
<1>7. CASE UNCHANGED vars
  BY <1>7 DEF vars, AllHeld
<1>8. CASE AcceptFails
  BY <1>8 DEF AcceptFails, AllHeld
<1> QED
  BY <1>1, <1>2, <1>3, <1>4, <1>5, <1>6, <1>7, <1>8 DEF Next

(***************************************************************************)
(* What is under way for a client that waits: its next request, alone in   *)
(* the socket with a read outstanding; or that request in the router, or   *)
(* its response being written; or, after a reset, a read that will fail.   *)
(***************************************************************************)
UnderWay(c) ==
  LET r == conn[c]  next == Len(r.answered) + 1 IN
  \/ r.ops = {"read"} /\ Len(r.inbox) = 1 /\ r.inbox[1].number = next
  \/ r.ops \in {{"route"}, {"write"}} /\ r.reply.number = next
  \/ r.ops = {"read"} /\ r.inbox = <<>> /\ r.peer = "reset"

NobodyForgotten == \A c \in Clients : Awaiting(c) => UnderWay(c)

(***************************************************************************)
(* The request of a client that waits for each response is never lost with *)
(* a buffer, and never left without an operation whose handler will take   *)
(* it further: what RequestsAnswered needs beside fairness.                *)
(***************************************************************************)
THEOREM WaitersAreServed == Spec => []NobodyForgotten
<1>1. Init => AllHeld
  BY DEF Init, AllHeld, Held, Fresh
<1>2. Inv /\ AllHeld => NobodyForgotten
  <2> SUFFICES ASSUME Inv, AllHeld, NEW c \in Clients, Awaiting(c)
               PROVE  UnderWay(c)
    BY DEF NobodyForgotten
  <2>1. OwnedOnce(conn[c]) /\ OneUnderWay(conn[c]) /\ Held(conn[c])
    BY DEF Inv, Sound, AllHeld
  <2>2. conn[c].link = "open" /\ ~conn[c].ahead /\ Len(conn[c].answered) < conn[c].sent
    BY DEF Awaiting
  <2> QED
    BY <2>1, <2>2 DEF OwnedOnce, OneUnderWay, Held, UnderWay
<1> QED
  BY <1>1, <1>2, NextHeld, Invariance, PTL DEF Spec

-----------------------------------------------------------------------------
(* The sessions that the connections implement.                            *)

LEMMA NoReplyNumber == NoReply.number = 0
  BY DEF NoReply

LEMMA NoNumbers == Numbers(<<>>) = {}
  BY EmptySeq DEF Numbers

(***************************************************************************)
(* A session given by its fields, and the set that holds just that one: an *)
(* update of several fields is found by the set it takes a session to.     *)
(***************************************************************************)
Session(l, p, n, w, k, a) ==
  [link |-> l, peer |-> p, sent |-> n, pending |-> w, current |-> k, answered |-> a]

Only(l, p, n, w, k, a) ==
  [link: {l}, peer: {p}, sent: {n}, pending: {w}, current: {k}, answered: {a}]

LEMMA OnlySession ==
  ASSUME NEW l, NEW p, NEW n, NEW w, NEW k, NEW a, NEW s
  PROVE  s \in Only(l, p, n, w, k, a) <=> s = Session(l, p, n, w, k, a)
  BY DEF Only, Session

LEMMA EndedSession ==
  ASSUME NEW l, NEW p, NEW n, NEW w, NEW k, NEW a
  PROVE  Sessions!Ended(Session(l, p, n, w, k, a)) = Session("closed", p, n, {}, 0, a)
<1> DEFINE s == Session(l, p, n, w, k, a)
<1>1. s \in Only(l, p, n, w, k, a)
  BY OnlySession
<1> HIDE DEF s
<1>2. [s EXCEPT !.link = "closed", !.pending = {}, !.current = 0]
        \in Only("closed", p, n, {}, 0, a)
  BY <1>1 DEF Only
<1> QED
  BY <1>2, OnlySession DEF Sessions!Ended, s

\* What a session shows of a connection.
LEMMA SessionShows ==
  ASSUME NEW r
  PROVE  SessionOf(r) = Session(r.link, r.peer, r.sent, Numbers(r.inbox),
                                r.reply.number, r.answered)
  BY DEF SessionOf, Session

LEMMA SessionFields ==
  ASSUME NEW r
  PROVE  /\ SessionOf(r).link = r.link /\ SessionOf(r).peer = r.peer
         /\ SessionOf(r).sent = r.sent /\ SessionOf(r).pending = Numbers(r.inbox)
         /\ SessionOf(r).current = r.reply.number /\ SessionOf(r).answered = r.answered
  BY DEF SessionOf

LEMMA SessionSeen ==
  ASSUME NEW c \in Clients
  PROVE  SessionView[c] = SessionOf(conn[c])
  BY DEF SessionView

\* A step that changes one connection changes one session.
LEMMA OneSession ==
  ASSUME Inv, NEW c \in Clients, NEW q, conn' = [conn EXCEPT ![c] = q], process' = process,
         NEW s, SessionOf(q) = s
  PROVE  Sessions!Becomes(c, s)
<1>1. \A d \in Clients : conn'[d] = IF d = c THEN q ELSE conn[d]
  BY DEF Inv
<1>2. SessionView' = [d \in Clients |-> SessionOf(conn'[d])]
  BY DEF SessionView
<1>3. [SessionView EXCEPT ![c] = s] = [d \in Clients |-> IF d = c THEN s ELSE SessionOf(conn[d])]
  BY DEF SessionView
<1>4. \A d \in Clients : SessionOf(conn'[d]) = IF d = c THEN s ELSE SessionOf(conn[d])
  BY <1>1
<1>5. Running' = Running
  BY DEF Running
<1> QED
  BY <1>2, <1>3, <1>4, <1>5 DEF Sessions!Becomes

LEMMA ClosedSession ==
  ASSUME NEW r, Sound(r)
  PROVE  SessionOf(Closed(r)) = Sessions!Ended(SessionOf(r))
<1> DEFINE q == Closed(r)
<1>1. /\ q.link = "closed" /\ q.inbox = <<>> /\ q.reply = NoReply
      /\ q.answered = r.answered /\ q.sent = r.sent /\ q.peer = r.peer
  BY DEF Closed, Sound, Connections
<1> HIDE DEF q
<1>2. SessionOf(q) = Session("closed", r.peer, r.sent, {}, 0, r.answered)
  BY <1>1, NoNumbers, NoReplyNumber, SessionShows
<1>3. Sessions!Ended(SessionOf(r)) = Session("closed", r.peer, r.sent, {}, 0, r.answered)
  BY SessionShows, EndedSession
<1> QED
  BY <1>2, <1>3 DEF q

\* The end of the process is the end of every session.
LEMMA ExitDown ==
  ASSUME Inv, Running, NEW how \in {"stopped", "failed", "crashed"}, Exit(how)
  PROVE  Sessions!Down
<1>1. Running /\ ~Running'
  BY DEF Exit, Running
<1>2. \A c \in Clients : Sessions!Connected(c) <=> Connected(c)
  BY SessionSeen, SessionFields DEF Sessions!Connected, Connected
<1>3. \A c \in Clients :
        SessionOf(conn'[c]) = IF Sessions!Connected(c) THEN Sessions!Ended(SessionView[c])
                                                       ELSE SessionView[c]
  <2> TAKE c \in Clients
  <2>1. conn'[c] = IF Connected(c) THEN Closed(conn[c]) ELSE conn[c]
    BY DEF Exit
  <2>2. SessionOf(Closed(conn[c])) = Sessions!Ended(SessionOf(conn[c]))
    BY ClosedSession DEF Inv
  <2> QED
    BY <1>2, <2>1, <2>2, SessionSeen
<1>4. SessionView' = [c \in Clients |-> SessionOf(conn'[c])]
  BY DEF SessionView
<1> QED
  BY <1>1, <1>3, <1>4 DEF Sessions!Down

\* A connection is closed for a reason.
LEMMA CloseEnds ==
  ASSUME Inv, NEW c \in Clients, Running, conn[c].link = "open", Close(c),
         conn[c].inbox # <<>> \/ conn[c].reply # NoReply \/ conn[c].peer # "up"
  PROVE  Sessions!End(c)
<1>1. Sound(conn[c]) /\ conn[c] \in Connections
  BY DEF Inv, Sound
<1>2. SessionOf(Closed(conn[c])) = Sessions!Ended(SessionView[c])
  BY <1>1, ClosedSession, SessionSeen
<1>3. Sessions!Becomes(c, Sessions!Ended(SessionView[c]))
  BY <1>2, OneSession DEF Close
<1>4. conn[c].inbox # <<>> => Numbers(conn[c].inbox) # {}
  <2>1. conn[c].inbox \in Seq(Requests)
    BY <1>1 DEF Connections
  <2>2. conn[c].inbox # <<>> => 1 \in DOMAIN conn[c].inbox
    BY <2>1, EmptySeq, LenProperties
  <2> QED
    BY <2>2 DEF Numbers
<1>5. conn[c].reply # NoReply => conn[c].reply.number # 0
  BY <1>1 DEF Connections, Requests
<1> QED
  BY <1>3, <1>4, <1>5, SessionSeen, SessionFields DEF Sessions!End, Sessions!Open

LEMMA AcceptSession ==
  ASSUME Inv, NEW c \in Clients, Accept(c)
  PROVE  Sessions!Accept(c)
<1> DEFINE r == conn[c]
           q == [r EXCEPT !.link = "open", !.ops = {"read"}]
           s == [SessionView[c] EXCEPT !.link = "open"]
<1>1. r \in Connections /\ r.link = "queued" /\ Running
  BY DEF Inv, Accept, Free
<1>2. conn' = [conn EXCEPT ![c] = q] /\ process' = process
  BY DEF Accept
<1>3. SessionView[c] = SessionOf(r)
  BY SessionSeen
<1> HIDE DEF r
<1>4. /\ q.link = "open" /\ q.peer = r.peer /\ q.sent = r.sent /\ q.inbox = r.inbox
      /\ q.reply = r.reply /\ q.answered = r.answered
  BY <1>1 DEF Connections
<1> HIDE DEF q
<1>5. SessionOf(q) = Session("open", r.peer, r.sent, Numbers(r.inbox), r.reply.number, r.answered)
  BY <1>4, SessionShows
<1>6. s = Session("open", r.peer, r.sent, Numbers(r.inbox), r.reply.number, r.answered)
  <2>1. SessionView[c] \in Only(r.link, r.peer, r.sent, Numbers(r.inbox),
                             r.reply.number, r.answered)
    BY <1>3, SessionShows, OnlySession
  <2>2. s \in Only("open", r.peer, r.sent, Numbers(r.inbox), r.reply.number, r.answered)
    BY <2>1 DEF Only
  <2> HIDE DEF s
  <2> QED
    BY <2>2, OnlySession
<1>7. Sessions!Becomes(c, s)
  BY <1>2, <1>5, <1>6, OneSession
<1> QED
  BY <1>1, <1>3, <1>7, SessionFields DEF Sessions!Accept

\* Where the i-th element is after the first k - 1 have been taken away.
LEMMA PlaceInRest ==
  ASSUME NEW l \in Nat, NEW k \in 2..(l + 1), NEW i \in k..l
  PROVE  /\ i - k + 1 \in 1..(l + 1 - k)
         /\ (i - k + 1) + k - 1 = i
  OBVIOUS

\* The first k - 1 requests are gone, and they are those up to the last of them.
LEMMA LaterNumbers ==
  ASSUME NEW inbox \in Seq(Requests), NEW rest \in Seq(Requests),
         \A i, j \in DOMAIN inbox : i < j => inbox[i].number < inbox[j].number,
         NEW k \in 2..(Len(inbox) + 1), Len(rest) = Len(inbox) + 1 - k,
         \A j \in 1..Len(rest) : rest[j].number = inbox[j + k - 1].number
  PROVE  Numbers(rest) = {m \in Numbers(inbox) : inbox[k - 1].number < m}
<1>1. /\ Len(inbox) \in Nat /\ DOMAIN inbox = 1..Len(inbox)
      /\ Len(rest) \in Nat /\ DOMAIN rest = 1..Len(rest)
      /\ k - 1 \in DOMAIN inbox
  BY LenProperties
<1>2. \A i \in DOMAIN inbox : inbox[i].number \in Nat
  <2>1. \A i \in 1..Len(inbox) : inbox[i] \in Requests
    BY ElementOfSeq
  <2> QED
    BY <1>1, <2>1 DEF Requests
<1>3. ASSUME NEW j \in DOMAIN rest
      PROVE  /\ rest[j].number \in Numbers(inbox)
             /\ inbox[k - 1].number < rest[j].number
  <2> DEFINE i == j + k - 1
  <2>1. i \in DOMAIN inbox /\ k - 1 < i /\ rest[j].number = inbox[i].number
    BY <1>1
  <2> HIDE DEF i
  <2> QED
    BY <1>1, <2>1 DEF Numbers
<1>4. ASSUME NEW i \in DOMAIN inbox, inbox[k - 1].number < inbox[i].number
      PROVE  inbox[i].number \in Numbers(rest)
  <2>1. ~(i <= k - 1)
    <3>1. i < k - 1 => inbox[i].number < inbox[k - 1].number
      BY <1>1
    <3>2. inbox[i].number \in Nat /\ inbox[k - 1].number \in Nat
      BY <1>1, <1>2
    <3> QED
      BY <1>1, <1>4, <3>1, <3>2
  <2> DEFINE j == i - k + 1
  <2>2. j \in DOMAIN rest /\ j + k - 1 = i
    <3>1. i \in 1..Len(inbox) /\ k \in 2..(Len(inbox) + 1) /\ i >= k
      BY <1>1, <2>1
    <3>2. j \in 1..(Len(inbox) + 1 - k) /\ j + k - 1 = i
      <4>1. i \in k..Len(inbox)
        BY <1>1, <3>1
      <4> QED
        BY <1>1, <4>1, PlaceInRest
    <3> HIDE DEF j
    <3> QED
      BY <1>1, <3>2
  <2>3. rest[j].number = inbox[i].number
    BY <1>1, <2>2
  <2> HIDE DEF j
  <2> QED
    BY <2>2, <2>3 DEF Numbers
<1> QED
  BY <1>3, <1>4 DEF Numbers

LEMMA ReadTakes ==
  ASSUME Inv, NEW c \in Clients, ReadRequest(c)
  PROVE  Sessions!Take(c)
<1> DEFINE r == conn[c]
<1>1. /\ Sound(r) /\ r.ops = {"read"} /\ r.inbox # <<>> /\ Running
      /\ r.inbox \in Seq(Requests) /\ r \in Connections /\ r.link = "open"
      /\ r.reply = NoReply
  <2>1. Sound(r) /\ "read" \in r.ops /\ r.inbox # <<>> /\ Running
    BY DEF Inv, ReadRequest, Reading, Free
  <2> HIDE DEF r
  <2>2. r.ops = {"read"} /\ r.link = "open" /\ r.reply = NoReply
    BY <2>1 DEF Sound, OwnedOnce
  <2> QED
    BY <2>1, <2>2 DEF Sound, Connections
<1>2. PICK rest \in Unread(r.inbox) :
        conn' = [conn EXCEPT ![c] = Route([r EXCEPT !.inbox = rest], Head(r.inbox))]
  BY DEF ReadRequest
<1> DEFINE q == Route([r EXCEPT !.inbox = rest], Head(r.inbox))
<1>3. conn' = [conn EXCEPT ![c] = q] /\ process' = process
  BY <1>2 DEF ReadRequest
<1> HIDE DEF r
<1>4. /\ Len(r.inbox) \in Nat \ {0} /\ DOMAIN r.inbox = 1..Len(r.inbox)
      /\ Head(r.inbox) = r.inbox[1]
  BY <1>1, EmptySeq, LenProperties
<1>5. /\ q.link = r.link /\ q.inbox = rest /\ q.reply = r.inbox[1] /\ q.peer = r.peer
      /\ q.answered = r.answered /\ q.sent = r.sent
  BY <1>1, <1>4 DEF Route, Connections
<1> HIDE DEF q
<1>6. rest \in Seq(Requests)
  BY <1>1, UnreadLater
<1>7. PICK k \in 2..(Len(r.inbox) + 1) :
              /\ Len(rest) = Len(r.inbox) + 1 - k
              /\ \A j \in 1..Len(rest) : rest[j].number = r.inbox[j + k - 1].number
  BY <1>1, UnreadLater
<1>8. \A i, j \in DOMAIN r.inbox : i < j => r.inbox[i].number < r.inbox[j].number
  BY <1>1 DEF Sound, InSequence
<1> DEFINE n == r.inbox[1].number
           last == r.inbox[k - 1].number
           pending == Numbers(r.inbox)
<1>9. Numbers(rest) = {m \in pending : last < m}
  BY <1>1, <1>6, <1>7, <1>8, LaterNumbers
<1>10. n \in pending /\ last \in pending
  BY <1>4, <1>7 DEF Numbers
<1>11. \A m \in pending : n <= m
  <2> SUFFICES ASSUME NEW i \in DOMAIN r.inbox PROVE n <= r.inbox[i].number
    BY DEF Numbers
  <2>1. n \in Nat /\ r.inbox[i].number \in Nat
    <3>1. \A m \in 1..Len(r.inbox) : r.inbox[m] \in Requests
      BY <1>1, ElementOfSeq
    <3> QED
      BY <1>4, <3>1 DEF Requests
  <2>2. i = 1 \/ 1 < i
    BY <1>4
  <2> QED
    BY <1>4, <1>8, <2>1, <2>2
<1> DEFINE later == {m \in pending : last < m}
           s == [SessionView[c] EXCEPT !.current = n, !.pending = later]
<1>12. SessionView[c] = SessionOf(r)
  BY SessionSeen DEF r
<1>13. SessionOf(q) = s
  <2>1. Numbers(q.inbox) = later /\ q.reply.number = n
    BY <1>5, <1>9
  <2> HIDE DEF n, later
  <2>2. SessionOf(q) = Session(r.link, r.peer, r.sent, later, n, r.answered)
    BY <1>5, <2>1, SessionShows
  <2>3. s = Session(r.link, r.peer, r.sent, later, n, r.answered)
    <3>1. SessionView[c] \in Only(r.link, r.peer, r.sent, Numbers(r.inbox),
                               r.reply.number, r.answered)
      BY <1>12, SessionShows, OnlySession
    <3>2. s \in Only(r.link, r.peer, r.sent, later, n, r.answered)
      BY <3>1 DEF Only
    <3> HIDE DEF s
    <3> QED
      BY <3>2, OnlySession
  <2> QED
    BY <2>2, <2>3
<1>14. /\ SessionView[c].pending = pending /\ SessionView[c].current = 0
       /\ SessionView[c].link = "open"
  BY <1>1, <1>12, SessionFields DEF NoReply
<1> HIDE DEF s
<1>15. Sessions!Becomes(c, s)
  BY <1>3, <1>13, OneSession
<1> HIDE DEF n, last, pending
<1> QED
  BY <1>1, <1>10, <1>11, <1>14, <1>15 DEF Sessions!Take, Sessions!Open, s

LEMMA RouterReturnsUnseen ==
  ASSUME Inv, NEW c \in Clients, RouterReturns(c)
  PROVE  UNCHANGED Sessions!vars
<1> DEFINE r == conn[c]
           q == Respond(r)
<1>1. r \in Connections /\ SessionView[c] = SessionOf(r)
  BY SessionSeen DEF Inv
<1>2. conn' = [conn EXCEPT ![c] = q] /\ process' = process
  BY DEF RouterReturns
<1> HIDE DEF r
<1>3. /\ q.link = r.link /\ q.peer = r.peer /\ q.sent = r.sent /\ q.inbox = r.inbox
      /\ q.reply = r.reply /\ q.answered = r.answered
  BY <1>1 DEF Respond, Connections
<1> HIDE DEF q
<1>4. SessionOf(q) = SessionView[c]
  BY <1>1, <1>3, SessionShows
<1>5. Sessions!Becomes(c, SessionView[c])
  BY <1>2, <1>4, OneSession
<1>6. [SessionView EXCEPT ![c] = SessionView[c]] = SessionView
  BY DEF SessionView
<1> QED
  BY <1>5, <1>6 DEF Sessions!Becomes, Sessions!vars

LEMMA WriteAnswers ==
  ASSUME Inv, NEW c \in Clients, WriteResponse(c)
  PROVE  Sessions!Answer(c)
<1> DEFINE r == conn[c]
           sent == Append(r.answered, r.reply.number)
           w == [r EXCEPT !.answered = sent]
           q == AfterWrite(w)
           s == Sessions!Answered(c)
           pending == Numbers(r.inbox)
<1>1. /\ Sound(r) /\ r \in Connections /\ r.link = "open" /\ Running
      /\ r.reply.number # 0
  <2>1. Sound(r) /\ "write" \in r.ops /\ Running
    BY DEF Inv, WriteResponse, Writing, Free
  <2> HIDE DEF r
  <2>2. r \in Connections /\ r.link = "open" /\ r.reply # NoReply
    BY <2>1 DEF Sound, OwnedOnce
  <2> QED
    BY <2>1, <2>2 DEF Connections, Requests
<1>2. conn' = [conn EXCEPT ![c] = q] /\ process' = process
  BY DEF WriteResponse
<1>3. SessionView[c] = SessionOf(r)
  BY SessionSeen
<1>4. /\ SessionView[c].link = "open" /\ SessionView[c].current = r.reply.number
      /\ SessionView[c].answered = r.answered
      /\ SessionView[c] = Session(r.link, r.peer, r.sent, pending, r.reply.number, r.answered)
  BY <1>1, <1>3, SessionFields, SessionShows
<1>5. s = [SessionView[c] EXCEPT !.answered = sent, !.current = 0]
  BY <1>4 DEF Sessions!Answered
<1> HIDE DEF r, sent, s, pending
<1>6. s = Session(r.link, r.peer, r.sent, pending, 0, sent)
  <2>1. SessionView[c] \in Only(r.link, r.peer, r.sent, pending, r.reply.number, r.answered)
    BY <1>4, OnlySession
  <2>2. s \in Only(r.link, r.peer, r.sent, pending, 0, sent)
    BY <1>5, <2>1 DEF Only
  <2> QED
    BY <2>2, OnlySession
<1>7. Sessions!Ended(s) = Session("closed", r.peer, r.sent, {}, 0, sent)
  BY <1>6, EndedSession
<1>8. w \in [link: {r.link}, peer: {r.peer}, ops: {r.ops}, inbox: {r.inbox}, reply: {r.reply},
             sent: {r.sent}, answered: {sent}, ahead: {r.ahead}]
  BY <1>1 DEF Connections
<1> HIDE DEF w
<1>9. SessionOf(q) \in {s, Sessions!Ended(s)}
  <2>1. CASE r.reply.kind = "persistent"
    <3>1. q = [w EXCEPT !.ops = {"read"}, !.reply = NoReply]
      BY <1>8, <2>1 DEF AfterWrite
    <3>2. /\ q.link = r.link /\ q.peer = r.peer /\ q.sent = r.sent /\ q.inbox = r.inbox
          /\ q.reply = NoReply /\ q.answered = sent
      BY <1>8, <3>1
    <3> HIDE DEF q
    <3> QED
      BY <1>6, <3>2, NoReplyNumber, SessionShows DEF pending
  <2>2. CASE r.reply.kind # "persistent"
    <3>1. q = Closed(w)
      BY <1>8, <2>2 DEF AfterWrite
    <3>2. /\ q.link = "closed" /\ q.peer = r.peer /\ q.sent = r.sent /\ q.inbox = <<>>
          /\ q.reply = NoReply /\ q.answered = sent
      BY <1>8, <3>1 DEF Closed
    <3> HIDE DEF q
    <3> QED
      BY <1>7, <3>2, NoNumbers, NoReplyNumber, SessionShows
  <2> QED
    BY <2>1, <2>2
<1> HIDE DEF q
<1>10. \E e \in {s, Sessions!Ended(s)} : Sessions!Becomes(c, e)
  BY <1>2, <1>9, OneSession
<1> QED
  BY <1>1, <1>4, <1>10 DEF Sessions!Answer, Sessions!Open, s

LEMMA ConnectSession ==
  ASSUME Inv, NEW c \in Clients, Connect(c)
  PROVE  Sessions!Connect(c)
<1>1. SessionOf(Fresh("queued")) = Sessions!New("queued")
  BY NoNumbers DEF SessionOf, Fresh, NoReply, Sessions!New
<1>2. Sessions!Becomes(c, Sessions!New("queued"))
  BY <1>1, OneSession DEF Connect
<1> QED
  BY <1>2, SessionSeen, SessionFields DEF Connect, Connected, Sessions!Connect, Sessions!Connected

LEMMA ShutSession ==
  ASSUME Inv, NEW c \in Clients, Shut(c)
  PROVE  Sessions!Shut(c)
<1> DEFINE r == conn[c]
           q == [r EXCEPT !.peer = "shut"]
           s == [SessionView[c] EXCEPT !.peer = "shut"]
<1>1. r \in Connections /\ SessionView[c] = SessionOf(r)
  BY SessionSeen DEF Inv
<1>2. conn' = [conn EXCEPT ![c] = q] /\ process' = process
  BY DEF Shut
<1>3. Sessions!Connected(c) /\ SessionView[c].peer = "up"
  BY <1>1, SessionFields DEF Shut, Connected, Sessions!Connected
<1> HIDE DEF r
<1>4. /\ q.link = r.link /\ q.peer = "shut" /\ q.sent = r.sent /\ q.inbox = r.inbox
      /\ q.reply = r.reply /\ q.answered = r.answered
  BY <1>1 DEF Connections
<1> HIDE DEF q
<1>5. SessionOf(q) = Session(r.link, "shut", r.sent, Numbers(r.inbox), r.reply.number, r.answered)
  BY <1>4, SessionShows
<1>6. s = Session(r.link, "shut", r.sent, Numbers(r.inbox), r.reply.number, r.answered)
  <2>1. SessionView[c] \in Only(r.link, r.peer, r.sent, Numbers(r.inbox),
                             r.reply.number, r.answered)
    BY <1>1, SessionShows, OnlySession
  <2>2. s \in Only(r.link, "shut", r.sent, Numbers(r.inbox), r.reply.number, r.answered)
    BY <2>1 DEF Only
  <2> HIDE DEF s
  <2> QED
    BY <2>2, OnlySession
<1>7. Sessions!Becomes(c, s)
  BY <1>2, <1>5, <1>6, OneSession
<1> QED
  BY <1>3, <1>7 DEF Sessions!Shut

LEMMA ResetSession ==
  ASSUME Inv, NEW c \in Clients, Reset(c)
  PROVE  Sessions!Reset(c)
<1> DEFINE r == conn[c]
<1>1. r \in Connections /\ SessionView[c] = SessionOf(r)
  BY SessionSeen DEF Inv
<1>2. PICK rest \in {r.inbox, <<>>} :
        conn' = [conn EXCEPT ![c] = [r EXCEPT !.peer = "reset", !.inbox = rest]]
  BY DEF Reset
<1> DEFINE q == [r EXCEPT !.peer = "reset", !.inbox = rest]
           s == [SessionView[c] EXCEPT !.peer = "reset", !.pending = Numbers(rest)]
<1>3. conn' = [conn EXCEPT ![c] = q] /\ process' = process
  BY <1>2 DEF Reset
<1>4. Sessions!Connected(c)
  BY <1>1, SessionFields DEF Reset, Connected, Sessions!Connected
<1> HIDE DEF r
<1>5. /\ q.link = r.link /\ q.peer = "reset" /\ q.sent = r.sent /\ q.inbox = rest
      /\ q.reply = r.reply /\ q.answered = r.answered
  BY <1>1 DEF Connections
<1> HIDE DEF q
<1>6. SessionOf(q) = Session(r.link, "reset", r.sent, Numbers(rest), r.reply.number, r.answered)
  BY <1>5, SessionShows
<1>7. s = Session(r.link, "reset", r.sent, Numbers(rest), r.reply.number, r.answered)
  <2>1. SessionView[c] \in Only(r.link, r.peer, r.sent, Numbers(r.inbox),
                             r.reply.number, r.answered)
    BY <1>1, SessionShows, OnlySession
  <2>2. s \in Only(r.link, "reset", r.sent, Numbers(rest), r.reply.number, r.answered)
    BY <2>1 DEF Only
  <2> HIDE DEF s
  <2> QED
    BY <2>2, OnlySession
<1>8. Sessions!Becomes(c, s)
  BY <1>3, <1>6, <1>7, OneSession
<1>9. Numbers(rest) \in {SessionView[c].pending, {}}
  BY <1>1, <1>2, NoNumbers, SessionFields
<1> QED
  BY <1>4, <1>8, <1>9 DEF Sessions!Reset

LEMMA SendSession ==
  ASSUME Inv, NEW c \in Clients, NEW kind \in Kinds, Send(c, kind)
  PROVE  Sessions!Send(c)
<1> DEFINE r == conn[c]
           n == r.sent + 1
           request == [number |-> n, kind |-> kind]
           inbox == Append(r.inbox, request)
           ahead == r.ahead \/ Len(r.answered) < r.sent
           q == [r EXCEPT !.inbox = inbox, !.sent = n, !.ahead = ahead]
<1>1. r \in Connections /\ r.inbox \in Seq(Requests) /\ r.sent \in Nat
      /\ SessionView[c] = SessionOf(r)
  BY SessionSeen DEF Inv, Connections
<1>2. Sessions!Connected(c) /\ SessionView[c].peer = "up" /\ SessionView[c].sent = r.sent
      /\ SessionView[c].pending = Numbers(r.inbox)
  BY <1>1, SessionFields DEF Sessions!Connected, Connected, Send
<1>3. conn' = [conn EXCEPT ![c] = q] /\ process' = process
  BY DEF Send
<1>4. Numbers(inbox) = Numbers(r.inbox) \cup {n}
  <2>1. request \in Requests /\ request.number = n
    BY <1>1 DEF Requests
  <2> HIDE DEF request, r, n
  <2>2. /\ DOMAIN inbox = 1..(Len(r.inbox) + 1) /\ DOMAIN r.inbox = 1..Len(r.inbox)
        /\ Len(r.inbox) \in Nat
        /\ \A j \in 1..Len(r.inbox) : inbox[j] = r.inbox[j]
        /\ inbox[Len(r.inbox) + 1] = request
    BY <1>1, <2>1, AppendProperties, LenProperties
  <2> HIDE DEF inbox
  <2>3. \A j \in DOMAIN inbox : inbox[j].number \in Numbers(r.inbox) \cup {n}
    <3> TAKE j \in DOMAIN inbox
    <3>1. j \in DOMAIN r.inbox \/ j = Len(r.inbox) + 1
      BY <2>2
    <3> QED
      BY <2>1, <2>2, <3>1 DEF Numbers
  <2>4. \A j \in DOMAIN r.inbox : j \in DOMAIN inbox /\ inbox[j] = r.inbox[j]
    BY <2>2
  <2>5. Len(r.inbox) + 1 \in DOMAIN inbox
    BY <2>2
  <2> QED
    BY <2>1, <2>2, <2>3, <2>4, <2>5 DEF Numbers
<1> DEFINE pending == Numbers(r.inbox) \cup {n}
           s == [SessionView[c] EXCEPT !.sent = n, !.pending = pending]
<1> HIDE DEF r, n, ahead, inbox
<1>5. /\ q.link = r.link /\ q.peer = r.peer /\ q.sent = n /\ q.inbox = inbox
      /\ q.reply = r.reply /\ q.answered = r.answered
  BY <1>1 DEF Connections
<1> HIDE DEF q
<1>6. SessionOf(q) = Session(r.link, r.peer, n, pending, r.reply.number, r.answered)
  BY <1>4, <1>5, SessionShows
<1>7. s = Session(r.link, r.peer, n, pending, r.reply.number, r.answered)
  <2>1. SessionView[c] \in Only(r.link, r.peer, r.sent, Numbers(r.inbox),
                             r.reply.number, r.answered)
    BY <1>1, SessionShows, OnlySession
  <2>2. s \in Only(r.link, r.peer, n, pending, r.reply.number, r.answered)
    BY <2>1 DEF Only
  <2> HIDE DEF s
  <2> QED
    BY <2>2, OnlySession
<1>8. Sessions!Becomes(c, s)
  BY <1>3, <1>6, <1>7, OneSession
<1> QED
  BY <1>2, <1>8 DEF Sessions!Send, n

\* Every step of the server and of its clients is one of the sessions, or
\* nothing that a session shows.
LEMMA NextSessions ==
  ASSUME Inv, [Next]_vars
  PROVE  [Sessions!Next]_(Sessions!vars)
<1>1. CASE UNCHANGED <<process, conn>>
  BY <1>1 DEF Sessions!vars, SessionView, Running
<1>2. ASSUME NEW c \in Clients, Accept(c) PROVE Sessions!Next
  BY <1>2, AcceptSession DEF Sessions!Next
<1>3. ASSUME NEW c \in Clients, ReadRequest(c) PROVE Sessions!Next
  BY <1>3, ReadTakes DEF Sessions!Next
<1>4. ASSUME NEW c \in Clients, Reading(c) \/ Writing(c)
      PROVE  /\ Running /\ conn[c].link = "open"
             /\ Writing(c) => conn[c].reply # NoReply
  BY <1>4 DEF Reading, Writing, Free, Inv, Sound, OwnedOnce
<1>5. ASSUME NEW c \in Clients, ReadEndOfStream(c) PROVE Sessions!Next
  <2>1. Sessions!End(c)
    BY <1>4, <1>5, CloseEnds DEF ReadEndOfStream
  <2> QED
    BY <2>1 DEF Sessions!Next
<1>6. ASSUME NEW c \in Clients, ReadError(c) PROVE Sessions!Next
  <2>1. CASE Exit("failed")
    BY <1>4, <1>6, <2>1, ExitDown DEF ReadError, Sessions!Next
  <2>2. CASE Close(c)
    <3>1. conn[c].inbox # <<>> \/ conn[c].peer # "up"
      BY <1>6 DEF ReadError
    <3>2. Sessions!End(c)
      BY <1>4, <1>6, <2>2, <3>1, CloseEnds DEF ReadError
    <3> QED
      BY <3>2 DEF Sessions!Next
  <2> QED
    BY <1>6, <2>1, <2>2 DEF ReadError
<1>7. ASSUME NEW c \in Clients, RouterReturns(c) PROVE UNCHANGED Sessions!vars
  BY <1>7, RouterReturnsUnseen
<1>8. ASSUME NEW c \in Clients, NullResponse(c) \/ RouterThrows(c) PROVE Sessions!Next
  BY <1>8, ExitDown DEF NullResponse, RouterThrows, Sessions!Next
<1>9. ASSUME NEW c \in Clients, WriteResponse(c) PROVE Sessions!Next
  BY <1>9, WriteAnswers DEF Sessions!Next
<1>10. ASSUME NEW c \in Clients, WriteFails(c) PROVE Sessions!Next
  <2>1. Sessions!End(c)
    BY <1>4, <1>10, CloseEnds DEF WriteFails, WriteError
  <2> QED
    BY <2>1 DEF Sessions!Next
<1>11. CASE Signal
  BY <1>11, ExitDown DEF Signal, Free, Sessions!Next
<1>12. ASSUME NEW c \in Clients, Connect(c) \/ Shut(c) \/ Reset(c) PROVE Sessions!Next
  BY <1>12, ConnectSession, ShutSession, ResetSession DEF Sessions!Next
<1>13. ASSUME NEW c \in Clients, NEW kind \in Kinds, Send(c, kind) PROVE Sessions!Next
  BY <1>13, SendSession DEF Sessions!Next
<1>14. ASSUME AcceptFails PROVE UNCHANGED <<process, conn>>
  BY <1>14 DEF AcceptFails
<1>15. CASE SignalArrives
  BY <1>1, <1>15 DEF SignalArrives
<1> QED
  BY <1>1, <1>2, <1>3, <1>5, <1>6, <1>7, <1>8, <1>9, <1>10, <1>11, <1>12, <1>13,
     <1>14, <1>15 DEF Next, Serve, Accepted, Read, Routed, Write, vars

LEMMA InitSessions == Init => Sessions!Init
<1>1. SessionOf(Fresh("none")) = Sessions!New("none")
  BY NoNumbers DEF SessionOf, Fresh, NoReply, Sessions!New
<1> QED
  BY <1>1 DEF Init, Sessions!Init, SessionView, Running

(***************************************************************************)
(* The server is one that serves sessions: the request that is next is     *)
(* taken up and answered before any other of its session, it is lost only  *)
(* with its connection or by the client's reset, and no session ends       *)
(* without a reason, however many there are.                               *)
(***************************************************************************)
THEOREM Implementation == Spec => ImplementsSessions
<1>1. Inv /\ [Next]_vars => [Sessions!Next]_(Sessions!vars)
  BY NextSessions
<1> QED
  BY <1>1, InitSessions, Invariance, PTL DEF Spec, ImplementsSessions, Sessions!Spec

=============================================================================
