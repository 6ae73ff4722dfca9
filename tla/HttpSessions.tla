---------------------------- MODULE HttpSessions ----------------------------
(***************************************************************************)
(* What ServerTrans promises its clients.  A session takes up its requests *)
(* one at a time, always the earliest that is left, and answers each       *)
(* before it takes up another.  A request may be passed over only while an *)
(* earlier one is taken up; one that is next is lost with its connection   *)
(* or by a reset, and in no other way.  The server ends a session only for *)
(* a reason, and nothing that happens to one session shows in another, the *)
(* end of the process excepted.  The handlers of module HttpServer are an  *)
(* implementation of these sessions.                                       *)
(***************************************************************************)
EXTENDS Integers, Sequences

CONSTANT
  Clients       \* clients, one session at a time each

VARIABLES
  up,           \* the process is running
  session       \* the session of every client

vars == <<up, session>>

(***************************************************************************)
(* Requests are known by their numbers: sent is the last one sent, pending *)
(* are those that have not been taken up, current is the one that has been *)
(* (0 for none), answered are the others in the order of their responses.  *)
(***************************************************************************)
Sessions == [link    : {"none", "queued", "open", "closed"},
             peer    : {"up", "shut", "reset"},
             sent    : Nat,
             pending : SUBSET (Nat \ {0}),
             current : Nat,
             answered: Seq(Nat \ {0})]

TypeOK == up \in BOOLEAN /\ session \in [Clients -> Sessions]

New(link) == [link |-> link, peer |-> "up", sent |-> 0, pending |-> {},
              current |-> 0, answered |-> <<>>]

Ended(s) == [s EXCEPT !.link = "closed", !.pending = {}, !.current = 0]

Connected(c) == session[c].link \in {"queued", "open"}

Open(c) == up /\ session[c].link = "open"

Init == up = TRUE /\ session = [c \in Clients |-> New("none")]

-----------------------------------------------------------------------------
Becomes(c, s) == session' = [session EXCEPT ![c] = s] /\ UNCHANGED up

Connect(c) == up /\ ~Connected(c) /\ Becomes(c, New("queued"))

Send(c) ==
  /\ Connected(c) /\ session[c].peer = "up"
  /\ LET n == session[c].sent + 1 IN
     Becomes(c, [session[c] EXCEPT !.sent = n, !.pending = session[c].pending \cup {n}])

Shut(c) == Connected(c) /\ session[c].peer = "up"
           /\ Becomes(c, [session[c] EXCEPT !.peer = "shut"])

\* What has not been taken up may or may not survive a reset.
Reset(c) ==
  /\ Connected(c)
  /\ \E rest \in {session[c].pending, {}} :
       Becomes(c, [session[c] EXCEPT !.peer = "reset", !.pending = rest])

Accept(c) == up /\ session[c].link = "queued"
             /\ Becomes(c, [session[c] EXCEPT !.link = "open"])

\* The earliest request is taken up.  Those that came along with it, up to
\* some last one, are passed over.
Take(c) ==
  /\ Open(c) /\ session[c].current = 0
  /\ \E n, last \in session[c].pending :
       /\ \A m \in session[c].pending : n <= m
       /\ Becomes(c, [session[c] EXCEPT
                        !.current = n,
                        !.pending = {m \in session[c].pending : last < m}])

Answered(c) == [session[c] EXCEPT !.answered = Append(session[c].answered, session[c].current),
                                  !.current  = 0]

\* A response may end the session.
Answer(c) == /\ Open(c) /\ session[c].current # 0
             /\ \E s \in {Answered(c), Ended(Answered(c))} : Becomes(c, s)

\* The reasons to end a session: a request that cannot be read or answered,
\* or a client that is gone.
End(c) ==
  /\ Open(c)
  /\ session[c].pending # {} \/ session[c].current # 0 \/ session[c].peer # "up"
  /\ Becomes(c, Ended(session[c]))

Down ==
  /\ up /\ up' = FALSE
  /\ session' = [c \in Clients |-> IF Connected(c) THEN Ended(session[c]) ELSE session[c]]

Next == \/ \E c \in Clients : Connect(c) \/ Send(c) \/ Shut(c) \/ Reset(c)
        \/ \E c \in Clients : Accept(c) \/ Take(c) \/ Answer(c) \/ End(c)
        \/ Down

Spec == Init /\ [][Next]_vars

=============================================================================
