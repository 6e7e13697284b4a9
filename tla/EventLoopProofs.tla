--------------------------- MODULE EventLoopProofs ---------------------------
(***************************************************************************)
(* What holds of the worker for any number of peers, descriptors and       *)
(* requests, and for every way in which peers and system may misbehave.    *)
(***************************************************************************)
EXTENDS EventLoop, TLAPS

-----------------------------------------------------------------------------
(* Types of the operators the actions are built from.                      *)

\* What a peer makes of some bytes is again a sequence of responses.
LEMMA HeardType ==
    ASSUME TypeOK, NEW c \in Conns, NEW u \in Urls \cup {NULL}, NEW what
    PROVE  Heard(c, u, what) \in Ears
<1>1. ear[c] \in Ears
    BY DEF TypeOK
<1> DEFINE e == ear[c]
<1>2. e.got \in Seq(Urls \cup {NULL}) /\ e.wire \in Urls \cup {NULL}
    BY <1>1 DEF Ears
<1>3. Append(e.got, u) \in Seq(Urls \cup {NULL}) /\ Append(e.got, NULL) \in Seq(Urls \cup {NULL})
    BY <1>2
<1>4. /\ [e EXCEPT !.got = Append(e.got, u)] \in Ears
      /\ [e EXCEPT !.wire = u] \in Ears
      /\ [got |-> Append(e.got, u), wire |-> NULL] \in Ears
      /\ [got |-> Append(e.got, NULL), wire |-> NULL] \in Ears
    BY <1>1, <1>3 DEF Ears
<1> QED
    BY <1>1, <1>4 DEF Heard

\* send() changes at most what the peer behind the descriptor has heard.
LEMMA SendType ==
    ASSUME TypeOK, NEW fd \in Fds, NEW u \in Urls \cup {NULL}, NEW what, Send(fd, u, what)
    PROVE  ear' \in [Conns -> Ears]
<1>1. ear \in [Conns -> Ears] /\ fdt[fd] \in Files
    BY DEF TypeOK
<1>2. CASE Reaches(fd)
    <2> DEFINE c == fdt[fd].of
    <2>1. c \in Conns
        BY <1>1, <1>2 DEF Reaches, Files
    <2>2. Heard(c, u, what) \in Ears
        BY <2>1, HeardType
    <2>3. ear' = [ear EXCEPT ![c] = Heard(c, u, what)]
        BY <1>2 DEF Send
    <2> QED
        BY <1>1, <2>2, <2>3
<1>3. CASE ~Reaches(fd)
    BY <1>1, <1>3 DEF Send
<1> QED
    BY <1>2, <1>3

LEMMA SurviveType ==
    ASSUME NEW risk \in BOOLEAN, MaySurvive(risk)
    PROVE  alive' \in BOOLEAN
BY DEF MaySurvive

\* close_client keeps the types of what it works on.
LEMMA CloseClientType ==
    ASSUME TypeOK, NEW fd \in Fds, NEW h \in [Slots -> ClientInfos],
           NEW t \in [Fds -> Files], CloseClient(fd, h, t)
    PROVE  /\ clientList' \in [Fds -> Slots \cup {NULL}]
           /\ heap' \in [Slots -> ClientInfos]
           /\ fdt' \in [Fds -> Files]
<1>1. clientList \in [Fds -> Slots \cup {NULL}]
    BY DEF TypeOK
<1>2. CASE clientList[fd] = NULL /\ heap' = h /\ fdt' = t /\ UNCHANGED clientList
    BY <1>1, <1>2
<1>3. ASSUME NEW s \in Slots, fdt' = Closed(t, h[s].fd, h[s].fileFd),
             heap' = [h EXCEPT ![s].live = FALSE],
             clientList' = [clientList EXCEPT ![fd] = NULL]
      PROVE  /\ clientList' \in [Fds -> Slots \cup {NULL}]
             /\ heap' \in [Slots -> ClientInfos]
             /\ fdt' \in [Fds -> Files]
    <2>1. clientList' \in [Fds -> Slots \cup {NULL}]
        BY <1>1, <1>3
    <2>2. [h[s] EXCEPT !.live = FALSE] \in ClientInfos
        BY DEF ClientInfos
    <2>3. heap' \in [Slots -> ClientInfos]
        BY <1>3, <2>2
    <2>4. Free \in Files
        BY DEF Free, Files
    <2>5. fdt' \in [Fds -> Files]
        BY <1>3, <2>4 DEF Closed
    <2> QED
        BY <2>1, <2>3, <2>5
<1> QED
    BY <1>2, <1>3 DEF CloseClient

\* respond_to_client keeps the types of what it works on.
LEMMA RespondType ==
    ASSUME TypeOK, NEW fd \in Fds, NEW s \in Slots, NEW u \in Urls, NEW t,
           heap[s].conn \in Conns,
           t \in {fdt} \cup {[fdt EXCEPT ![x] = ListedDir] : x \in LowestFree},
           RespondToClient(fd, s, u, t)
    PROVE  /\ alive' \in BOOLEAN
           /\ jobs' \subseteq Jobs /\ (\A j \in jobs' : Numbered(j))
           /\ ear' \in [Conns -> Ears]
           /\ t \in [Fds -> Files]
<1>1. t \in [Fds -> Files]
    <2>1. ListedDir \in Files /\ fdt \in [Fds -> Files]
        BY DEF ListedDir, Files, TypeOK
    <2> QED
        BY <2>1 DEF LowestFree
<1>2. OpenJob(s, u) \in Jobs /\ Numbered(OpenJob(s, u))
    <2>1. asked[heap[s].conn] \in Seq(Urls)
        BY DEF TypeOK
    <2>2. Len(asked[heap[s].conn]) \in Nat
        BY <2>1
    <2> QED
        BY <2>2 DEF OpenJob, Jobs, Numbered, NoFd
<1>3. jobs \subseteq Jobs /\ (\A j \in jobs : Numbered(j)) /\ ear \in [Conns -> Ears]
      /\ alive \in BOOLEAN
    BY DEF TypeOK
<1>4. CASE /\ jobs' = jobs \cup {OpenJob(s, u)}
           /\ UNCHANGED <<alive, ear>>
    BY <1>1, <1>2, <1>3, <1>4
<1>5. CASE /\ Send(fd, u, "page") \/ Send(fd, u, "head") \/ UNCHANGED ear
           /\ MaySurvive(MayBreak(fd)) /\ UNCHANGED jobs
    <2>1. ear' \in [Conns -> Ears]
        BY <1>3, <1>5, SendType
    <2>2. alive' \in BOOLEAN
        BY <1>5 DEF MaySurvive
    <2> QED
        BY <1>1, <1>3, <1>5, <2>1, <2>2
<1>6. CASE alive' = FALSE /\ UNCHANGED <<jobs, ear>>
    BY <1>1, <1>3, <1>6
<1> QED
    BY <1>4, <1>5, <1>6
    DEF RespondToClient, SendPage, SendRedirection, SendOnce, ListDirDies

-----------------------------------------------------------------------------
(* Type correctness: one lemma for each actor.                             *)

LEMMA PeerMoveType ==
    ASSUME TypeOK, NEW c \in Conns, PeerMove(c)
    PROVE  TypeOK'
<1>1. CASE PeerConnect(c)
    <2>1. Silence \in Ears
        BY DEF Silence, Ears
    <2> QED
        BY <1>1, <2>1 DEF PeerConnect, TypeOK
<1>2. CASE PeerClose(c)
    BY <1>2 DEF PeerClose, TypeOK
<1>3. ASSUME NEW m \in Msgs, PeerSend(c, m)
      PROVE  TypeOK'
    BY <1>3 DEF PeerSend, TypeOK
<1> QED
    BY <1>1, <1>2, <1>3 DEF PeerMove

LEMMA AcceptHandlerType ==
    ASSUME TypeOK, NEW c \in Conns, AcceptHandler(c)
    PROVE  TypeOK'
<1>1. Sock(c) \in Files
    BY DEF Sock, Files
<1>2. CASE AcceptTooBig(c)
    BY <1>2 DEF AcceptTooBig, TypeOK
<1>3. CASE AcceptOccupied(c)
    BY <1>1, <1>3 DEF AcceptOccupied, TypeOK, LowestFree
<1>4. CASE AcceptInstall(c)
    <2> DEFINE new(x) == [live |-> TRUE, conn |-> c, fd |-> x,
                          file |-> NULL, fileFd |-> NoFd]
    <2>1. PICK x \in LowestFree, s \in Slots :
              /\ fdt' = [fdt EXCEPT ![x] = Sock(c)]
              /\ clientList' = [clientList EXCEPT ![x] = s]
              /\ heap' = [heap EXCEPT ![s] = new(x)]
              /\ MaySurvive(x = MAX_ALLOWED_CLIENT)
        BY <1>4 DEF AcceptInstall
    <2>2. x \in Fds
        BY DEF LowestFree
    <2>3. new(x) \in ClientInfos
        BY <2>2 DEF ClientInfos
    <2>4. alive' \in BOOLEAN
        BY <2>1 DEF MaySurvive
    <2>5. /\ backlog' \subseteq Conns
          /\ UNCHANGED <<jobs, peer, inbox, asked, ear>>
        BY <1>4 DEF AcceptInstall, TypeOK
    <2> HIDE DEF new
    <2> QED
        BY <1>1, <2>1, <2>2, <2>3, <2>4, <2>5 DEF TypeOK
<1> QED
    BY <1>2, <1>3, <1>4 DEF AcceptHandler

LEMMA ClientIoHandlerType ==
    ASSUME TypeOK, NEW c \in Conns, ClientIoHandler(c)
    PROVE  TypeOK'
<1>1. PICK fd \in Fds, s \in Slots :
          /\ heap[s].conn = c
          /\ \/ ReadRequest(fd, s) \/ ReadBadEscape(fd, s)
             \/ ReadJunk(fd, s) \/ ReadEof(fd, s) \/ ReadError(fd, s)
    BY DEF ClientIoHandler
<1>2. /\ heap \in [Slots -> ClientInfos] /\ fdt \in [Fds -> Files]
      /\ inbox \in [Conns -> Seq(Msgs)] /\ asked \in [Conns -> Seq(Urls)]
    BY DEF TypeOK
<1>3. ASSUME inbox[c] # <<>>
      PROVE  Head(inbox[c]) \in Msgs /\ Tail(inbox[c]) \in Seq(Msgs)
    BY <1>2, <1>3
<1>4. CASE ReadRequest(fd, s)
    <2> DEFINE m == Head(inbox[c])
               h == OnUrl(s, m.url)
    <2>1. /\ inbox[c] # <<>> /\ m.k \in {"get", "upgrade"}
          /\ inbox' = [inbox EXCEPT ![c] = Tail(inbox[c])]
          /\ asked' = [asked EXCEPT ![c] = Append(asked[c], m.url)]
          /\ UNCHANGED <<backlog, peer>>
        BY <1>1, <1>4 DEF ReadRequest
    <2>2. PICK t \in {fdt} \cup {[fdt EXCEPT ![x] = ListedDir] : x \in LowestFree} :
              /\ RespondToClient(fd, s, m.url, t)
              /\ \/ m.k = "get" /\ heap' = h /\ fdt' = t /\ UNCHANGED clientList
                 \/ m.k = "upgrade" /\ CloseClient(fd, h, t)
        BY <1>1, <1>4 DEF ReadRequest, AfterParse
    <2>3. m \in Msgs /\ Tail(inbox[c]) \in Seq(Msgs)
        BY <1>3, <2>1
    <2>4. m.url \in Urls
        BY <2>1, <2>3 DEF Msgs
    <2>5. h \in [Slots -> ClientInfos]
        <3>1. [heap[s] EXCEPT !.file = m.url] \in ClientInfos
            BY <1>2, <2>4 DEF ClientInfos
        <3> QED
            BY <1>2, <3>1 DEF OnUrl
    <2>6. /\ alive' \in BOOLEAN
          /\ jobs' \subseteq Jobs /\ (\A j \in jobs' : Numbered(j))
          /\ ear' \in [Conns -> Ears]
          /\ t \in [Fds -> Files]
        BY <1>1, <2>2, <2>4, RespondType
    <2>7. /\ clientList' \in [Fds -> Slots \cup {NULL}]
          /\ heap' \in [Slots -> ClientInfos]
          /\ fdt' \in [Fds -> Files]
        <3> HIDE DEF h, m
        <3>1. CASE heap' = h /\ fdt' = t /\ UNCHANGED clientList
            BY <2>5, <2>6, <3>1 DEF TypeOK
        <3>2. CASE CloseClient(fd, h, t)
            BY <2>5, <2>6, <3>2, CloseClientType
        <3> QED
            BY <2>2, <3>1, <3>2
    <2>8. inbox' \in [Conns -> Seq(Msgs)] /\ asked' \in [Conns -> Seq(Urls)]
        <3>1. Append(asked[c], m.url) \in Seq(Urls)
            BY <1>2, <2>4
        <3> QED
            BY <1>2, <2>1, <2>3, <3>1
    <2> QED
        BY <2>1, <2>6, <2>7, <2>8 DEF TypeOK
<1>5. CASE ReadJunk(fd, s) \/ ReadEof(fd, s) \/ ReadError(fd, s)
    <2>1. /\ CloseClient(fd, heap, fdt)
          /\ UNCHANGED <<alive, jobs, backlog, peer, asked, ear>>
        BY <1>5 DEF ReadJunk, ReadEof, ReadError, kernelVars
    <2>2. inbox' \in [Conns -> Seq(Msgs)]
        BY <1>1, <1>2, <1>3, <1>5 DEF ReadJunk, ReadEof, ReadError, kernelVars
    <2>3. /\ clientList' \in [Fds -> Slots \cup {NULL}]
          /\ heap' \in [Slots -> ClientInfos]
          /\ fdt' \in [Fds -> Files]
        BY <1>2, <2>1, CloseClientType
    <2> QED
        BY <2>1, <2>2, <2>3 DEF TypeOK
<1>6. CASE ReadBadEscape(fd, s)
    BY <1>6 DEF ReadBadEscape, kernelVars, TypeOK
<1> QED
    BY <1>1, <1>4, <1>5, <1>6

\* The job set after a thread finished j.
LEMMA FinishedType ==
    ASSUME TypeOK, NEW j \in jobs, NEW st \in {"ok", "err"}, NEW in \in Fds \cup {NoFd},
           jobs' = Finished(j, st, in),
           (j.op = "open" /\ st = "ok") \/ j.op = "send" => in \in Fds
    PROVE  jobs' \subseteq Jobs /\ (\A i \in jobs' : Numbered(i))
<1>1. j \in Jobs /\ Numbered(j)
    BY DEF TypeOK
<1> DEFINE f == [j EXCEPT !.st = st, !.in = in]
<1>2. f \in Jobs /\ Numbered(f)
    BY <1>1 DEF Jobs, Numbered
<1> QED
    BY <1>2 DEF Finished, TypeOK

LEMMA EioThreadType ==
    ASSUME TypeOK, NEW c \in Conns, EioThread(c)
    PROVE  TypeOK'
<1>1. PICK j \in jobs : EioOpen(j) \/ EioSend(j)
    BY DEF EioThread
<1>2. j \in Jobs /\ Numbered(j) /\ fdt \in [Fds -> Files]
    BY DEF TypeOK
<1>3. CASE EioOpen(j)
    <2>1. fdt' \in [Fds -> Files]
        <3>1. File(j.file) \in Files
            BY <1>2 DEF File, Files, Jobs
        <3> QED
            BY <1>2, <1>3, <3>1 DEF EioOpen
    <2>2. jobs' \subseteq Jobs /\ (\A i \in jobs' : Numbered(i))
        BY <1>3, FinishedType DEF EioOpen, LowestFree
    <2> QED
        BY <1>3, <2>1, <2>2 DEF EioOpen, kernelVars, TypeOK
<1>4. CASE EioSend(j)
    <2>1. j.in \in Fds /\ j.out \in Fds /\ j.file \in Urls /\ j.op = "send"
        BY <1>2, <1>4 DEF EioSend, Numbered, Jobs
    <2>2. jobs' \subseteq Jobs /\ (\A i \in jobs' : Numbered(i))
        <3>1. jobs' = Finished(j, "ok", j.in) \/ jobs' = Finished(j, "err", j.in)
            BY <1>4 DEF EioSend
        <3> QED
            BY <2>1, <3>1, FinishedType
    <2>3. ear' \in [Conns -> Ears]
        <3>1. \/ UNCHANGED ear
              \/ \E u \in Urls \cup {NULL}, what \in {"body", "part"} : Send(j.out, u, what)
            BY <1>4, <2>1 DEF EioSend
        <3> QED
            BY <2>1, <3>1, SendType DEF TypeOK
    <2> QED
        BY <1>4, <2>2, <2>3 DEF EioSend, kernelVars, TypeOK
<1> QED
    BY <1>1, <1>3, <1>4

LEMMA CallbackType ==
    ASSUME TypeOK, NEW c \in Conns, Callback(c)
    PROVE  TypeOK'
<1>1. PICK j \in jobs : FileOpenFailed(j) \/ FileOpenDone(j) \/ FileSendFailed(j) \/ FileSendDone(j)
    BY DEF Callback
<1>2. /\ j \in Jobs /\ Numbered(j) /\ fdt \in [Fds -> Files]
      /\ heap \in [Slots -> ClientInfos] /\ heap[j.slot] \in ClientInfos
      /\ j.slot \in Slots /\ heap[j.slot].fd \in Fds
    BY DEF TypeOK, Jobs, ClientInfos
<1>3. jobs \ {j} \subseteq Jobs /\ (\A i \in jobs \ {j} : Numbered(i))
    BY DEF TypeOK
<1>4. CASE FileOpenFailed(j) \/ FileSendFailed(j)
    <2>1. /\ CloseClient(heap[j.slot].fd, heap, fdt) /\ jobs' = jobs \ {j}
          /\ MaySurvive(Stale(j)) /\ UNCHANGED <<kernelVars, ear>>
        BY <1>4 DEF FileOpenFailed, FileSendFailed
    <2>2. /\ clientList' \in [Fds -> Slots \cup {NULL}]
          /\ heap' \in [Slots -> ClientInfos]
          /\ fdt' \in [Fds -> Files]
        BY <1>2, <2>1, CloseClientType
    <2>3. alive' \in BOOLEAN
        BY <2>1 DEF MaySurvive
    <2> QED
        BY <1>3, <2>1, <2>2, <2>3 DEF TypeOK, kernelVars
<1>5. CASE FileOpenDone(j)
    <2>1. j.op = "open" /\ j.in \in Fds /\ UNCHANGED <<clientList, fdt, kernelVars>>
        BY <1>2, <1>5 DEF FileOpenDone, Numbered
    <2>2. CASE heap[j.slot].file = NULL
        BY <1>3, <1>5, <2>1, <2>2 DEF FileOpenDone, TypeOK, kernelVars
    <2>3. CASE heap[j.slot].file # NULL
        <3>1. /\ \/ \E u \in Urls \cup {NULL}, what \in {"head", "page"} :
                       Send(heap[j.slot].fd, u, what)
                 \/ UNCHANGED ear
              /\ heap' = [heap EXCEPT ![j.slot].fileFd = j.in]
              /\ jobs' = (jobs \ {j}) \cup {SendJob(j)} \/ jobs' = jobs \ {j}
              /\ MaySurvive(Stale(j) \/ MayBreak(heap[j.slot].fd))
            <4>1. heap[j.slot].file \in Urls \cup {NULL}
                BY <1>2 DEF ClientInfos
            <4> QED
                BY <1>5, <2>3, <4>1 DEF FileOpenDone, SendHeader, SendOnce, AfterOpen
        <3>2. heap[j.slot].file \in Urls
            BY <1>2, <2>3 DEF ClientInfos
        <3>3. SendJob(j) \in Jobs /\ Numbered(SendJob(j))
            BY <1>2, <2>1, <3>2 DEF SendJob, Jobs, Numbered
        <3>4. jobs' \subseteq Jobs /\ (\A i \in jobs' : Numbered(i))
            BY <1>3, <3>1, <3>3
        <3>5. heap' \in [Slots -> ClientInfos]
            <4>1. [heap[j.slot] EXCEPT !.fileFd = j.in] \in ClientInfos
                BY <1>2, <2>1 DEF ClientInfos
            <4> QED
                BY <1>2, <3>1, <4>1
        <3>6. ear' \in [Conns -> Ears]
            BY <1>2, <3>1, SendType DEF TypeOK
        <3>7. alive' \in BOOLEAN
            BY <3>1 DEF MaySurvive
        <3> QED
            BY <2>1, <3>4, <3>5, <3>6, <3>7 DEF TypeOK, kernelVars
    <2> QED
        BY <2>2, <2>3
<1>6. CASE FileSendDone(j)
    <2>1. /\ fdt' = Closed(fdt, heap[j.slot].fileFd, NoFd)
          /\ heap' = [heap EXCEPT ![j.slot].fileFd = NoFd]
          /\ jobs' = jobs \ {j} /\ MaySurvive(Stale(j))
          /\ UNCHANGED <<clientList, kernelVars, ear>>
        BY <1>6 DEF FileSendDone
    <2>2. fdt' \in [Fds -> Files]
        BY <1>2, <2>1 DEF Closed, Free, Files
    <2>3. heap' \in [Slots -> ClientInfos]
        <3>1. [heap[j.slot] EXCEPT !.fileFd = NoFd] \in ClientInfos
            BY <1>2 DEF ClientInfos
        <3> QED
            BY <1>2, <2>1, <3>1
    <2>4. alive' \in BOOLEAN
        BY <2>1 DEF MaySurvive
    <2> QED
        BY <1>3, <2>1, <2>2, <2>3, <2>4 DEF TypeOK, kernelVars
<1> QED
    BY <1>1, <1>4, <1>5, <1>6

LEMMA InitType == Init => TypeOK
<1> SUFFICES ASSUME Init PROVE TypeOK
    OBVIOUS
<1>1. 0 \in Fds
    BY NumberAssumption DEF Fds
<1>2. NoClient \in ClientInfos /\ Free \in Files /\ Silence \in Ears
    BY <1>1 DEF NoClient, ClientInfos, Free, Files, Silence, Ears
<1> QED
    BY <1>2 DEF Init, TypeOK

\* Every variable keeps its type, and no job is ever given a number that is
\* none: what eio_sendfile gets came from a finished open() and a ClientInfo.
THEOREM TypeCorrect == Spec => []TypeOK
<1>1. TypeOK /\ [Next]_vars => TypeOK'
    <2> SUFFICES ASSUME TypeOK, [Next]_vars
                 PROVE  TypeOK'
        OBVIOUS
    <2>1. CASE UNCHANGED vars
        BY <2>1 DEF vars, TypeOK
    <2>2. ASSUME NEW c \in Conns, PeerMove(c) \/ Worker(c)
          PROVE  TypeOK'
        BY <2>2, PeerMoveType, AcceptHandlerType, ClientIoHandlerType, EioThreadType,
           CallbackType DEF Worker
    <2> QED
        BY <2>1, <2>2 DEF Next
<1> QED
    BY <1>1, InitType, PTL DEF Spec

-----------------------------------------------------------------------------
(* client_list and the heap.  TableExact is inductive together with the    *)
(* types: the only writers of the table, of live and of fd are the         *)
(* installing exit of accept_handler and close_client.                     *)

LEMMA TableKept ==
    ASSUME TableExact, TypeOK, clientList' = clientList,
           \A s \in Slots : heap'[s].live = heap[s].live /\ heap'[s].fd = heap[s].fd
    PROVE  TableExact'
<1>1. \A fd \in Fds : clientList[fd] \in Slots \cup {NULL}
    BY DEF TypeOK
<1> QED
    BY <1>1 DEF TableExact

\* A handler may have changed other fields of the heap before it closes.
LEMMA CloseClientTable ==
    ASSUME TableExact, TypeOK, NEW fd \in Fds, NEW t,
           NEW h \in [Slots -> ClientInfos],
           \A s \in Slots : h[s].live = heap[s].live /\ h[s].fd = heap[s].fd,
           CloseClient(fd, h, t)
    PROVE  TableExact'
<1>1. /\ clientList \in [Fds -> Slots \cup {NULL}]
      /\ \A s \in Slots : heap[s].fd \in Fds
    BY DEF TypeOK, ClientInfos
<1>2. CASE clientList[fd] = NULL /\ heap' = h /\ fdt' = t /\ UNCHANGED clientList
    BY <1>2, TableKept
<1>3. ASSUME NEW s \in Slots, clientList[fd] = s,
             heap' = [h EXCEPT ![s].live = FALSE],
             clientList' = [clientList EXCEPT ![fd] = NULL]
      PROVE  TableExact'
    <2>1. heap[s].fd = fd
        BY <1>3, NullAssumption DEF TableExact
    <2>2. /\ \A r \in Slots : heap'[r].fd = heap[r].fd
          /\ \A r \in Slots \ {s} : heap'[r].live = heap[r].live
          /\ ~heap'[s].live
        BY <1>3
    <2>3. ASSUME NEW n \in Fds, clientList'[n] # NULL
          PROVE  heap'[clientList'[n]].live /\ heap'[clientList'[n]].fd = n
        <3>1. n # fd /\ clientList'[n] = clientList[n] /\ clientList[n] \in Slots
            BY <1>1, <1>3, <2>3
        <3>2. heap[clientList[n]].live /\ heap[clientList[n]].fd = n
            BY <2>3, <3>1 DEF TableExact
        <3>3. clientList[n] # s
            BY <2>1, <3>1, <3>2
        <3> QED
            BY <2>2, <3>1, <3>2, <3>3
    <2>4. ASSUME NEW r \in Slots, heap'[r].live
          PROVE  clientList'[heap'[r].fd] = r
        <3>1. r # s /\ heap[r].live
            BY <2>2, <2>4
        <3>2. clientList[heap[r].fd] = r
            BY <3>1 DEF TableExact
        <3>3. heap[r].fd # fd
            BY <1>3, <3>1, <3>2
        <3> QED
            BY <1>1, <1>3, <2>2, <3>2, <3>3
    <2> QED
        BY <2>3, <2>4 DEF TableExact
<1> QED
    BY <1>2, <1>3 DEF CloseClient

LEMMA AcceptInstallTable ==
    ASSUME TableExact, TypeOK, NEW c \in Conns, AcceptInstall(c)
    PROVE  TableExact'
<1> DEFINE new(x) == [live |-> TRUE, conn |-> c, fd |-> x,
                      file |-> NULL, fileFd |-> NoFd]
<1>1. PICK x \in LowestFree, s \in Slots :
          /\ clientList[x] = NULL /\ ~heap[s].live
          /\ clientList' = [clientList EXCEPT ![x] = s]
          /\ heap' = [heap EXCEPT ![s] = new(x)]
    BY DEF AcceptInstall
<1>2. /\ x \in Fds /\ s # NULL
      /\ clientList \in [Fds -> Slots \cup {NULL}] /\ heap \in [Slots -> ClientInfos]
    BY NullAssumption DEF LowestFree, TypeOK
<1>3. /\ heap'[s].live /\ heap'[s].fd = x
      /\ \A r \in Slots \ {s} : heap'[r] = heap[r]
    BY <1>1, <1>2
<1>4. ASSUME NEW n \in Fds, clientList'[n] # NULL
      PROVE  heap'[clientList'[n]].live /\ heap'[clientList'[n]].fd = n
    <2>1. CASE n = x
        BY <1>1, <1>2, <1>3, <2>1
    <2>2. CASE n # x
        <3>1. clientList'[n] = clientList[n] /\ clientList[n] \in Slots
            BY <1>1, <1>2, <1>4, <2>2
        <3>2. heap[clientList[n]].live /\ heap[clientList[n]].fd = n
            BY <1>4, <3>1 DEF TableExact
        <3> QED
            BY <1>1, <1>3, <3>1, <3>2
    <2> QED
        BY <2>1, <2>2
<1>5. ASSUME NEW r \in Slots, heap'[r].live
      PROVE  clientList'[heap'[r].fd] = r
    <2>1. CASE r = s
        BY <1>1, <1>2, <1>3, <2>1
    <2>2. CASE r # s
        <3>1. clientList[heap[r].fd] = r /\ heap'[r] = heap[r]
            BY <1>3, <1>5, <2>2 DEF TableExact
        <3>2. heap[r].fd # x /\ heap[r].fd \in Fds
            BY <1>1, <1>2, <3>1, NullAssumption DEF ClientInfos
        <3> QED
            BY <1>1, <1>2, <3>1, <3>2
    <2> QED
        BY <2>1, <2>2
<1> QED
    BY <1>4, <1>5 DEF TableExact

LEMMA ClientIoHandlerTable ==
    ASSUME TableExact, TypeOK, NEW c \in Conns, ClientIoHandler(c)
    PROVE  TableExact'
<1>1. PICK fd \in Fds, s \in Slots :
          /\ heap[s].conn = c
          /\ \/ ReadRequest(fd, s) \/ ReadBadEscape(fd, s)
             \/ ReadJunk(fd, s) \/ ReadEof(fd, s) \/ ReadError(fd, s)
    BY DEF ClientIoHandler
<1>2. heap \in [Slots -> ClientInfos] /\ inbox \in [Conns -> Seq(Msgs)]
    BY DEF TypeOK
<1>3. CASE ReadRequest(fd, s)
    <2> DEFINE m == Head(inbox[heap[s].conn])
               h == OnUrl(s, m.url)
    <2>1. /\ inbox[heap[s].conn] # <<>> /\ m.k \in {"get", "upgrade"}
          /\ \E t \in {fdt} \cup {[fdt EXCEPT ![x] = ListedDir] : x \in LowestFree} :
                \/ heap' = h /\ UNCHANGED clientList
                \/ CloseClient(fd, h, t)
        BY <1>3 DEF ReadRequest, AfterParse
    <2>2. h \in [Slots -> ClientInfos]
        <3>1. m \in Msgs
            BY <1>1, <1>2, <2>1
        <3>2. m.url \in Urls
            BY <2>1, <3>1 DEF Msgs
        <3>3. [heap[s] EXCEPT !.file = m.url] \in ClientInfos
            BY <1>2, <3>2 DEF ClientInfos
        <3> QED
            BY <1>2, <3>3 DEF OnUrl
    <2>3. \A r \in Slots : h[r].live = heap[r].live /\ h[r].fd = heap[r].fd
        BY <1>2 DEF ClientInfos, OnUrl
    <2> HIDE DEF h
    <2> QED
        BY <2>1, <2>2, <2>3, TableKept, CloseClientTable
<1>4. CASE ReadJunk(fd, s) \/ ReadEof(fd, s) \/ ReadError(fd, s)
    <2>1. CloseClient(fd, heap, fdt)
        BY <1>4 DEF ReadJunk, ReadEof, ReadError
    <2> QED
        BY <1>2, <2>1, CloseClientTable
<1>5. CASE ReadBadEscape(fd, s)
    BY <1>5, TableKept DEF ReadBadEscape
<1> QED
    BY <1>1, <1>3, <1>4, <1>5

LEMMA CallbackTable ==
    ASSUME TableExact, TypeOK, NEW c \in Conns, Callback(c)
    PROVE  TableExact'
<1>1. PICK j \in jobs : FileOpenFailed(j) \/ FileOpenDone(j) \/ FileSendFailed(j) \/ FileSendDone(j)
    BY DEF Callback
<1>2. /\ heap \in [Slots -> ClientInfos] /\ j.slot \in Slots
      /\ heap[j.slot].fd \in Fds
    BY DEF TypeOK, Jobs, ClientInfos
<1>3. CASE FileOpenFailed(j) \/ FileSendFailed(j)
    <2>1. CloseClient(heap[j.slot].fd, heap, fdt)
        BY <1>3 DEF FileOpenFailed, FileSendFailed
    <2> QED
        BY <1>2, <2>1, CloseClientTable
<1>4. CASE FileOpenDone(j) \/ FileSendDone(j)
    <2>1. /\ clientList' = clientList
          /\ \/ heap' = heap
             \/ \E n \in Fds \cup {NoFd} : heap' = [heap EXCEPT ![j.slot].fileFd = n]
        BY <1>4 DEF FileOpenDone, FileSendDone, TypeOK, Numbered
    <2>2. ASSUME NEW s \in Slots
          PROVE  heap'[s].live = heap[s].live /\ heap'[s].fd = heap[s].fd
        <3>1. CASE heap' = heap
            BY <3>1
        <3>2. ASSUME NEW n \in Fds \cup {NoFd}, heap' = [heap EXCEPT ![j.slot].fileFd = n]
              PROVE  heap'[s].live = heap[s].live /\ heap'[s].fd = heap[s].fd
            <4>1. CASE s = j.slot
                BY <1>2, <3>2, <4>1 DEF ClientInfos
            <4>2. CASE s # j.slot
                BY <1>2, <3>2, <4>2
            <4> QED
                BY <4>1, <4>2
        <3> QED
            BY <2>1, <3>1, <3>2
    <2> QED
        BY <2>1, <2>2, TableKept
<1> QED
    BY <1>1, <1>3, <1>4

\* client_list and the heap agree for every behaviour of peers and system.
THEOREM TableCorrect == Spec => []TableExact
<1>1. Init => TableExact
    BY DEF Init, TableExact, NoClient
<1>2. TypeOK /\ TableExact /\ [Next]_vars => TableExact'
    <2> SUFFICES ASSUME TypeOK, TableExact, [Next]_vars
                 PROVE  TableExact'
        OBVIOUS
    <2>1. CASE UNCHANGED <<clientList, heap>>
        BY <2>1, TableKept
    <2>2. ASSUME NEW c \in Conns, PeerMove(c) \/ Worker(c)
          PROVE  TableExact'
        <3>1. CASE PeerMove(c) \/ AcceptTooBig(c) \/ AcceptOccupied(c) \/ EioThread(c)
            BY <2>1, <3>1 DEF PeerMove, PeerConnect, PeerSend, PeerClose, AcceptTooBig,
               AcceptOccupied, EioThread, EioOpen, EioSend
        <3>2. CASE AcceptInstall(c) \/ ClientIoHandler(c) \/ Callback(c)
            BY <3>2, AcceptInstallTable, ClientIoHandlerTable, CallbackTable
        <3> QED
            BY <2>2, <3>1, <3>2 DEF Worker, AcceptHandler
    <2> QED
        BY <2>1, <2>2 DEF Next, vars
<1> QED
    BY <1>1, <1>2, TypeCorrect, PTL DEF Spec
==============================================================================
