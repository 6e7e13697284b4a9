----------------------------- MODULE HttpService -----------------------------
(***************************************************************************)
(* What a worker promises a peer that speaks HTTP/1.1 one request at a     *)
(* time: each request gets its own answer, in order, before the            *)
(* connection ends.  How, by which thread, through which descriptor, with  *)
(* which ClientInfo, is none of the peer's business.                       *)
(***************************************************************************)
EXTENDS Naturals, Sequences

CONSTANTS Conns, Urls

VARIABLES requests,  \* what each peer asked on its present connection
          replies    \* the answers it has got
serviceVars == <<requests, replies>>

ServiceInit == requests = [c \in Conns |-> <<>>] /\ replies = [c \in Conns |-> <<>>]

Ask(c) == /\ replies[c] = requests[c]
          /\ \E u \in Urls : requests' = [requests EXCEPT ![c] = Append(requests[c], u)]
          /\ UNCHANGED replies

Reply(c) == /\ Len(replies[c]) < Len(requests[c])
            /\ replies' = [replies EXCEPT ![c] =
                              Append(replies[c], requests[c][Len(replies[c]) + 1])]
            /\ UNCHANGED requests

\* The peer starts a new connection; nothing it asked on the old one is open.
Renew(c) == /\ replies[c] = requests[c]
            /\ requests' = [requests EXCEPT ![c] = <<>>]
            /\ replies' = [replies EXCEPT ![c] = <<>>]

\* The connection may also have ended with a request open.
Drop(c) == /\ requests' = [requests EXCEPT ![c] = <<>>]
           /\ replies' = [replies EXCEPT ![c] = <<>>]

ServiceNext == \E c \in Conns : Ask(c) \/ Reply(c) \/ Renew(c)
ServiceSpec == ServiceInit /\ [][ServiceNext]_serviceVars

\* The promise that is left when opening and sending files may fail.
BestEffortNext == \E c \in Conns : Ask(c) \/ Reply(c) \/ Drop(c)
BestEffortSpec == ServiceInit /\ [][BestEffortNext]_serviceVars
==============================================================================
