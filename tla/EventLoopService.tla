--------------------------- MODULE EventLoopService ---------------------------
(***************************************************************************)
(* EventLoop seen as an HttpService: a peer's requests are those the       *)
(* worker has run respond_to_client for and those still in the socket, its *)
(* replies are what its decoder made of the bytes.  It takes turns, so     *)
(* that at most one request is in the socket.                              *)
(***************************************************************************)
EXTENDS EventLoop

Unread(c) == IF inbox[c] # <<>> /\ Head(inbox[c]).k # "junk"
             THEN <<Head(inbox[c]).url>> ELSE <<>>

Service == INSTANCE HttpService WITH
               requests <- [c \in Conns |-> asked[c] \o Unread(c)],
               replies  <- [c \in Conns |-> ear[c].got]

\* With peers that wait for their answers and with descriptors to spare, the
\* worker keeps the promise of HttpService: no answer is lost, swapped with
\* another's, made up, or given to the wrong peer, and no connection ends
\* with a request open.
ImplementsService == Service!ServiceSpec

\* Whatever fails around the worker, an answer is lost only with its
\* connection, and none is swapped, made up or given to the wrong peer.
ImplementsBestEffort == Service!BestEffortSpec
==============================================================================
