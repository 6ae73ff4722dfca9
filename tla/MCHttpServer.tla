---------------------------- MODULE MCHttpServer ----------------------------
(***************************************************************************)
(* A finite instance of HttpServer for TLC: two clients and descriptors    *)
(* for one connection, so that an accept can fail.  One client sends three *)
(* requests, enough for one of them to be skipped between two that are     *)
(* answered; the other competes with it for the server.                    *)
(***************************************************************************)
EXTENDS HttpServer

CONSTANTS c1, c2

MCClients == {c1, c2}
MCMaxRequests == [c \in MCClients |-> IF c = c1 THEN 3 ELSE 1]

=============================================================================
