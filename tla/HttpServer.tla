----------------------------- MODULE HttpServer -----------------------------
(***************************************************************************)
(* ServerTrans: the asynchronous HTTP server, and the thread it shares     *)
(* with the router.                                                        *)
(*                                                                         *)
(* One thread runs an io_context.  A step of the server is the completion  *)
(* of one asynchronous operation (an accept, a read, a write, the signal)  *)
(* with everything its handler does, which always ends in starting the     *)
(* next operation or in letting go of the socket.  Between two such steps  *)
(* clients connect, send, shut down, reset and receive at will.            *)
(*                                                                         *)
(* The handler of a read calls the router, which may fetch a file from the *)
(* upstream before it returns: those are two steps, and until the second   *)
(* no other handler runs.  How the router comes to its answer is the       *)
(* subject of other modules; here a request is one of three kinds, and the *)
(* answer a response, an exception or, after a fetch that failed, a null   *)
(* pointer.                                                                *)
(***************************************************************************)
EXTENDS Integers, Sequences, FiniteSets

CONSTANTS
  Clients,      \* clients, one connection at a time each
  MaxRequests,  \* requests each client sends on one connection (a bound for TLC)
  MaxSockets,   \* connections the process has file descriptors for
  Faults        \* what may go wrong in this instance, a subset of AllFaults

(***************************************************************************)
(* persistent: HTTP/1.1, so that the response says keep-alive.  final:     *)
(* HTTP/1.0.  garbage: anything the parser refuses, a body above its limit *)
(* of 1 MB included.                                                       *)
(***************************************************************************)
Kinds == {"persistent", "final", "garbage"}

(***************************************************************************)
(* reset: a client resets its connection.  body: the file behind a         *)
(* response fails while it is sent.  signal: SIGINT or SIGTERM.  null: the *)
(* fetch for a conditional request fails.  throw: the router throws.       *)
(***************************************************************************)
AllFaults == {"reset", "body", "signal", "null", "throw"}

ASSUME HttpServerAssumptions ==
  /\ IsFiniteSet(Clients)
  /\ MaxRequests \in [Clients -> Nat] /\ MaxSockets \in Nat \ {0}
  /\ Faults \subseteq AllFaults

VARIABLES
  process,      \* "running"; "stopped" by a signal; "failed" by an exception;
                \* "crashed" by the null pointer
  signalled,    \* a signal has arrived
  accepting,    \* an async_accept is outstanding
  acceptError,  \* an accept has failed, and its handler has said so
  conn          \* the connection of every client

vars == <<process, signalled, accepting, acceptError, conn>>

(***************************************************************************)
(* link: "none" before the first connection, "queued" in the listen        *)
(* backlog, "open" while the server holds a socket, "closed" after.        *)
(* peer: the client's end: "up", "shut" after its FIN, "reset" after RST.  *)
(* ops: the asynchronous operations outstanding on the socket; "route"     *)
(* stands for the handler of its read while that is in the router.         *)
(* inbox: the requests that are on their way or in the socket's buffer.    *)
(* reply: the request that is being routed, or its response written.       *)
(* sent: the number of requests sent.  answered: the requests whose        *)
(* responses were written, in that order.  ahead: the client has sent a    *)
(* request before it had the response to the previous one.                 *)
(***************************************************************************)
Requests == [number: Nat \ {0}, kind: Kinds]
NoReply == [number |-> 0, kind |-> "garbage"]

Connections ==
  [link    : {"none", "queued", "open", "closed"},
   peer    : {"up", "shut", "reset"},
   ops     : SUBSET {"read", "route", "write"},
   inbox   : Seq(Requests),
   reply   : Requests \cup {NoReply},
   sent    : Nat,
   answered: Seq(Nat \ {0}),
   ahead   : BOOLEAN]

Fresh(link) == [link |-> link, peer |-> "up", ops |-> {}, inbox |-> <<>>,
                reply |-> NoReply, sent |-> 0, answered |-> <<>>, ahead |-> FALSE]

Running == process = "running"

\* The thread is in the router for c, or in the io_context.
Routing(c) == "route" \in conn[c].ops
Free == Running /\ \A c \in Clients : ~Routing(c)

Connected(c) == conn[c].link \in {"queued", "open"}

Open == {c \in Clients : conn[c].link = "open"}

\* start_server: the acceptor listens and the first accept is started
Init == /\ process = "running"
        /\ signalled = FALSE
        /\ accepting = TRUE
        /\ acceptError = FALSE
        /\ conn = [c \in Clients |-> Fresh("none")]

-----------------------------------------------------------------------------
(* Faulty variants of definitions below, used by no specification: each is *)
(* a slip one could make in the code, and shows that a property notices.   *)

\* start_accept is not called again
FaultyAccept(c) ==
  /\ Free /\ accepting /\ conn[c].link = "queued" /\ Cardinality(Open) < MaxSockets
  /\ conn' = [conn EXCEPT ![c] = [@ EXCEPT !.link = "open", !.ops = {"read"}]]
  /\ accepting' = FALSE
  /\ UNCHANGED <<process, signalled, acceptError>>

\* the next read is started along with the write
FaultyRespond(r) == [r EXCEPT !.ops = {"read", "write"}]

\* the request that was parsed stays in the buffer
FaultyUnread(inbox) == {inbox}

\* no read follows a response, and the socket is kept
FaultyAfterWrite(r) == [r EXCEPT !.ops = {}, !.reply = NoReply]

\* the write is started again after it has completed
FaultyWriteAgain(r) == [r EXCEPT !.reply = NoReply]

\* the handler of the signal closes the acceptor only
FaultySignal ==
  /\ signalled /\ Free
  /\ accepting' = FALSE
  /\ UNCHANGED <<process, signalled, acceptError, conn>>

\* a failed write is an error of the server
FaultyWriteError(c) ==
  /\ process' = "failed" /\ accepting' = FALSE
  /\ UNCHANGED <<signalled, acceptError, conn>>

-----------------------------------------------------------------------------
(* Ends.                                                                   *)

\* The last handler that holds the socket lets go of it.
Closed(r) == [r EXCEPT !.link = "closed", !.ops = {}, !.inbox = <<>>, !.reply = NoReply]

Close(c) == /\ conn' = [conn EXCEPT ![c] = Closed(@)]
            /\ UNCHANGED <<process, signalled, accepting, acceptError>>

\* io_context::run ends, and with it main: every socket is gone.
Exit(how) ==
  /\ process' = how
  /\ accepting' = FALSE
  /\ conn' = [c \in Clients |-> IF Connected(c) THEN Closed(conn[c]) ELSE conn[c]]
  /\ UNCHANGED <<signalled, acceptError>>

\* A failed write: the handler returns, and nobody holds the socket.
WriteError(c) == Close(c)

-----------------------------------------------------------------------------
(* Accepting.                                                              *)

Accept(c) ==
  /\ Free /\ accepting /\ conn[c].link = "queued" /\ Cardinality(Open) < MaxSockets
  /\ conn' = [conn EXCEPT ![c] = [@ EXCEPT !.link = "open", !.ops = {"read"}]]
  /\ UNCHANGED <<process, signalled, accepting, acceptError>>

(***************************************************************************)
(* No descriptor is left.  accept4 takes one before it looks at the        *)
(* backlog, and the call is made when the accept is started, so it may     *)
(* fail before anyone has connected.  The handler prints the error and     *)
(* does not accept again; a connection in the backlog stays where it is.   *)
(***************************************************************************)
AcceptFails ==
  /\ Free /\ accepting /\ Cardinality(Open) >= MaxSockets
  /\ accepting' = FALSE
  /\ acceptError' = TRUE
  /\ UNCHANGED <<process, signalled, conn>>

-----------------------------------------------------------------------------
(* Reading and responding.                                                 *)

Reading(c) == Free /\ "read" \in conn[c].ops
Writing(c) == Free /\ "write" \in conn[c].ops

(***************************************************************************)
(* What is left in the socket after its first request was read.  The read  *)
(* may have taken more into the flat_buffer than that request: any number  *)
(* of whole requests, and a part of the next.  The flat_buffer is dropped  *)
(* with the handler, so the rest of a request read in part is garbage.     *)
(***************************************************************************)
Unread(inbox) ==
  LET rests == {SubSeq(inbox, k, Len(inbox)) : k \in 2..(Len(inbox) + 1)}
  IN  rests \cup {[s EXCEPT ![1].kind = "garbage"] : s \in rests \ {<<>>}}

\* response_builder calls the router.
Route(r, request) == [r EXCEPT !.ops = {"route"}, !.reply = request]

ReadRequest(c) ==
  /\ Reading(c) /\ conn[c].inbox # <<>> /\ Head(conn[c].inbox).kind # "garbage"
  /\ \E rest \in Unread(conn[c].inbox) :
       conn' = [conn EXCEPT ![c] =
                  Route([conn[c] EXCEPT !.inbox = rest], Head(conn[c].inbox))]
  /\ UNCHANGED <<process, signalled, accepting, acceptError>>

\* The router returns and response_sender starts the write.
Respond(r) == [r EXCEPT !.ops = {"write"}]

RouterReturns(c) ==
  /\ Running /\ Routing(c)
  /\ conn' = [conn EXCEPT ![c] = Respond(@)]
  /\ UNCHANGED <<process, signalled, accepting, acceptError>>

(***************************************************************************)
(* response_builder calls the router outside any try block.  is_cached     *)
(* throws if the file system cannot tell (a name that is too long, a       *)
(* directory that may not be searched), and dump if an answer is to repeat *)
(* a text that is not UTF-8.  Nothing catches it before main.              *)
(***************************************************************************)
RouterThrows(c) ==
  /\ "throw" \in Faults /\ Running /\ Routing(c)
  /\ Exit("failed")

\* response_sender dereferences the null response of a conditional request
\* whose fetch failed; any request may be one.
NullResponse(c) ==
  /\ "null" \in Faults /\ Running /\ Routing(c)
  /\ Exit("crashed")

\* end_of_stream: the client is done, between two requests
ReadEndOfStream(c) ==
  /\ Reading(c) /\ conn[c].inbox = <<>> /\ conn[c].peer = "shut"
  /\ Close(c)

(***************************************************************************)
(* Any other read error.  Before it closes the socket the handler prints   *)
(* remote_endpoint(), which throws if the peer has reset the connection    *)
(* (always on Linux, not necessarily elsewhere).  Nothing catches it       *)
(* before main.                                                            *)
(***************************************************************************)
ReadError(c) ==
  /\ Reading(c)
  /\ IF conn[c].inbox = <<>> THEN conn[c].peer = "reset"
                             ELSE Head(conn[c].inbox).kind = "garbage"
  /\ \/ conn[c].peer = "reset" /\ Exit("failed")
     \/ Close(c)

(***************************************************************************)
(* keep_alive() of the response, which is that of the request's HTTP       *)
(* version: a read with a new buffer, or the end of the connection.        *)
(***************************************************************************)
AfterWrite(r) == IF r.reply.kind = "persistent"
                 THEN [r EXCEPT !.ops = {"read"}, !.reply = NoReply] ELSE Closed(r)

WriteResponse(c) ==
  /\ Writing(c) /\ conn[c].peer # "reset"
  /\ LET sent == Append(conn[c].answered, conn[c].reply.number) IN
     conn' = [conn EXCEPT ![c] = AfterWrite([conn[c] EXCEPT !.answered = sent])]
  /\ UNCHANGED <<process, signalled, accepting, acceptError>>

WriteFails(c) ==
  /\ Writing(c)
  /\ conn[c].peer = "reset" \/ "body" \in Faults
  /\ WriteError(c)

(***************************************************************************)
(* SIGINT or SIGTERM.  Its handler waits for the thread like any other,    *)
(* and then stops the io_context, whatever is outstanding.                 *)
(***************************************************************************)
SignalArrives ==
  /\ "signal" \in Faults /\ Running
  /\ signalled' = TRUE
  /\ UNCHANGED <<process, accepting, acceptError, conn>>

Signal == signalled /\ Free /\ Exit("stopped")

-----------------------------------------------------------------------------
(* The clients.                                                            *)

Connect(c) ==
  /\ Running /\ ~Connected(c)
  /\ conn' = [conn EXCEPT ![c] = Fresh("queued")]
  /\ UNCHANGED <<process, signalled, accepting, acceptError>>

Send(c, kind) ==
  /\ Connected(c) /\ conn[c].peer = "up" /\ conn[c].sent < MaxRequests[c]
  /\ LET n == conn[c].sent + 1 IN
     conn' = [conn EXCEPT ![c] =
       [conn[c] EXCEPT
          !.inbox = Append(conn[c].inbox, [number |-> n, kind |-> kind]),
          !.sent  = n,
          !.ahead = conn[c].ahead \/ Len(conn[c].answered) < conn[c].sent]]
  /\ UNCHANGED <<process, signalled, accepting, acceptError>>

Shut(c) ==
  /\ Connected(c) /\ conn[c].peer = "up"
  /\ conn' = [conn EXCEPT ![c].peer = "shut"]
  /\ UNCHANGED <<process, signalled, accepting, acceptError>>

\* What the server has not read yet may or may not survive the reset.
Reset(c) ==
  /\ "reset" \in Faults /\ Connected(c) /\ conn[c].peer # "reset"
  /\ \E rest \in {conn[c].inbox, <<>>} :
       conn' = [conn EXCEPT ![c] = [@ EXCEPT !.peer = "reset", !.inbox = rest]]
  /\ UNCHANGED <<process, signalled, accepting, acceptError>>

-----------------------------------------------------------------------------
Accepted(c) == Accept(c) \/ (conn[c].link = "queued" /\ AcceptFails)
Read(c) == ReadRequest(c) \/ ReadEndOfStream(c) \/ ReadError(c)
Routed(c) == RouterReturns(c) \/ RouterThrows(c) \/ NullResponse(c)
Write(c) == WriteResponse(c) \/ WriteFails(c)

\* The handlers that bring the connection of c forward.
Serve(c) == Accepted(c) \/ Read(c) \/ Routed(c) \/ Write(c)

Next == \/ \E c \in Clients : Serve(c)
        \/ AcceptFails \/ SignalArrives \/ Signal
        \/ \E c \in Clients : Connect(c) \/ Shut(c) \/ Reset(c)
        \/ \E c \in Clients, kind \in Kinds : Send(c, kind)

Spec == Init /\ [][Next]_vars

(***************************************************************************)
(* io_context runs the handler of every operation that has completed, in   *)
(* the order of completion, when the thread comes back from the router     *)
(* (hence SF): the connection of a client that is waiting for the server   *)
(* comes forward.  The router returns: that a silent upstream can keep it  *)
(* from doing so is shown in FileCache.  A write completes if the client   *)
(* takes the response or resets, which is assumed here.  No client is      *)
(* obliged to send, to shut down or to connect.                            *)
(***************************************************************************)
Fairness == SF_vars(Signal) /\ \A c \in Clients : SF_vars(Serve(c))

FairSpec == Spec /\ Fairness

-----------------------------------------------------------------------------
(* Properties.                                                             *)

TypeOK == /\ process \in {"running", "stopped", "failed", "crashed"}
          /\ signalled \in BOOLEAN /\ accepting \in BOOLEAN /\ acceptError \in BOOLEAN
          /\ conn \in [Clients -> Connections]

(***************************************************************************)
(* The sockets are owned by the handlers of their operations alone.  Every *)
(* open connection has exactly one operation outstanding: with none it     *)
(* would be lost, with two they would overlap on one stream.               *)
(***************************************************************************)
OneOperation ==
  \A c \in Clients :
    /\ Cardinality(conn[c].ops) = IF conn[c].link = "open" THEN 1 ELSE 0
    /\ conn[c].ops \cap {"route", "write"} # {} <=> conn[c].reply # NoReply

(***************************************************************************)
(* No request is answered twice, and none before an earlier one.  To a     *)
(* client that waits for each response, the i-th response answers its i-th *)
(* request; one that sends ahead cannot rely on it, since requests in the  *)
(* dropped buffer are never answered.                                      *)
(***************************************************************************)
ResponsesInOrder ==
  \A c \in Clients :
    LET a == conn[c].answered IN
    /\ \A i, j \in DOMAIN a : i < j => a[i] < a[j]
    /\ ~conn[c].ahead => \A i \in DOMAIN a : a[i] = i

(***************************************************************************)
(* What can end the process for all clients, whatever is outstanding: a    *)
(* signal, while the thread is free; an exception or a null pointer, while *)
(* the router is at work on a request that one client has sent; and the    *)
(* read of a client that has reset.  Not a request the parser refuses, not *)
(* a failed write, not a failed accept, not a client that goes early.      *)
(***************************************************************************)
EndsForCause ==
  [][Running /\ ~Running' =>
       \/ process' = "stopped" /\ signalled /\ Free
       \/ /\ process' \in {"failed", "crashed"}
          /\ \E c \in Clients : Routing(c) /\ conn[c].reply \in Requests
       \/ /\ process' = "failed"
          /\ \E c \in Clients : Reading(c) /\ conn[c].peer = "reset"]_vars

(***************************************************************************)
(* A client that waits for each response gets it, or sees its connection   *)
(* end.                                                                    *)
(***************************************************************************)
Awaiting(c) == /\ Running /\ conn[c].link = "open" /\ ~conn[c].ahead
               /\ Len(conn[c].answered) < conn[c].sent

RequestsAnswered == \A c \in Clients : Awaiting(c) ~> ~Awaiting(c)

(***************************************************************************)
(* A connection in the backlog is accepted in the end, unless an accept    *)
(* has failed: the accept chain does not break in any other way.           *)
(***************************************************************************)
ConnectionsAccepted ==
  \A c \in Clients :
    Running /\ conn[c].link = "queued" ~> ~Running \/ conn[c].link # "queued" \/ acceptError

(***************************************************************************)
(* A signal ends the process, even if it arrives while the thread is in    *)
(* the router; the server may have come to another end by then.            *)
(***************************************************************************)
SignalStops == signalled ~> ~Running

(***************************************************************************)
(* Operations that complete one after the other on one thread, each        *)
(* starting the next, amount to sessions that take up the earliest request *)
(* that is left and answer it before the next, whatever other connections  *)
(* do meanwhile: the request that is next is lost only with its connection *)
(* or by the client's reset, and no session ends without a reason.         *)
(***************************************************************************)
Numbers(inbox) == {inbox[i].number : i \in DOMAIN inbox}

SessionOf(r) == [link    |-> r.link,
                 peer    |-> r.peer,
                 sent    |-> r.sent,
                 pending |-> Numbers(r.inbox),
                 current |-> r.reply.number,
                 answered|-> r.answered]

SessionView == [c \in Clients |-> SessionOf(conn[c])]

Sessions == INSTANCE HttpSessions WITH up <- Running, session <- SessionView

ImplementsSessions == Sessions!Spec

=============================================================================
