----------------------- MODULE EventLoopServiceProofs -----------------------
(***************************************************************************)
(* The worker implements HttpService as far as it can promise it, and does *)
(* not leave a peer waiting when libeio and the sockets do their part.     *)
(***************************************************************************)
EXTENDS EventLoopService, EventLoopOrderProofs, FiniteSetTheorems

-----------------------------------------------------------------------------
(* The refinement, one connection at a time.                               *)

Requests(c) == asked[c] \o Unread(c)

LEMMA RequestsRead ==
    ASSUME Inv, NEW c \in Conns
    PROVE  /\ asked[c] \in Seq(Urls) /\ ear[c].got \in Seq(Urls \cup {NULL})
           /\ inbox[c] = <<>> => Requests(c) = asked[c]
           /\ inbox[c] # <<>> => IF Head(inbox[c]).k = "junk" THEN Requests(c) = asked[c]
                                 ELSE Requests(c) = Append(asked[c], Head(inbox[c]).url)
<1>1. asked[c] \in Seq(Urls) /\ ear[c].got \in Seq(Urls \cup {NULL})
    BY DEF Inv, TypeOK, Ears
<1>2. \A u : asked[c] \o <<>> = asked[c] /\ asked[c] \o <<u>> = Append(asked[c], u)
    BY <1>1
<1> QED
    BY <1>1, <1>2 DEF Requests, Unread

\* A step seen by no peer, and a step that one peer sees as an answer.
LEMMA StutterStep ==
    ASSUME \A c \in Conns : Requests(c)' = Requests(c) /\ ear'[c].got = ear[c].got
    PROVE  UNCHANGED Service!serviceVars
BY DEF Requests, Service!serviceVars

LEMMA ReplyStep ==
    ASSUME NEW c \in Conns, \A d \in Conns : Requests(d)' = Requests(d),
           \A d \in Conns \ {c} : ear'[d].got = ear[d].got,
           Len(ear[c].got) < Len(Requests(c)),
           ear'[c].got = Append(ear[c].got, Requests(c)[Len(ear[c].got) + 1])
    PROVE  Service!Reply(c)
BY DEF Requests, Service!Reply

LEMMA PeerMoveService ==
    ASSUME Inv, Orderly, NEW c \in Conns, PeerMove(c)
    PROVE  \/ Service!Ask(c) \/ UNCHANGED Service!serviceVars
           \/ PeerConnect(c) /\ Service!Drop(c)
<1>1. /\ inbox \in [Conns -> Seq(Msgs)] /\ asked \in [Conns -> Seq(Urls)]
      /\ ear \in [Conns -> Ears] /\ \A w \in PeerDepartures : w \notin Unruly
    BY DEF Inv, TypeOK, Orderly
<1>2. CASE PeerConnect(c)
    <2>1. /\ inbox'[c] = <<>> /\ asked'[c] = <<>> /\ ear'[c].got = <<>>
          /\ \A d \in Conns \ {c} : /\ inbox'[d] = inbox[d] /\ asked'[d] = asked[d]
                                    /\ ear'[d] = ear[d]
        BY <1>1, <1>2 DEF PeerConnect, Silence
    <2>2. Requests(c)' = <<>>
        BY <2>1 DEF Requests, Unread
    <2>3. \A d \in Conns \ {c} : Requests(d)' = Requests(d) /\ ear'[d].got = ear[d].got
        BY <2>1 DEF Requests, Unread
    <2> QED
        BY <1>2, <2>1, <2>2, <2>3 DEF Service!Drop, Requests
<1>3. ASSUME NEW m \in Msgs, PeerSend(c, m)
      PROVE  Service!Ask(c) \/ UNCHANGED Service!serviceVars
    <2>1. /\ inbox[c] = <<>> /\ Len(ear[c].got) = Len(asked[c]) /\ m.k # "upgrade"
          /\ inbox' = [inbox EXCEPT ![c] = Append(inbox[c], m)]
          /\ asked' = asked /\ ear' = ear
        BY <1>1, <1>3 DEF PeerSend, Settled, Idle, PeerDepartures
    <2>2. /\ inbox'[c] # <<>> /\ Head(inbox'[c]) = m
          /\ \A d \in Conns \ {c} : inbox'[d] = inbox[d] /\ asked'[d] = asked[d]
        BY <1>1, <2>1
    <2>3. \A d \in Conns \ {c} : Requests(d)' = Requests(d)
        BY <2>2 DEF Requests, Unread
    <2>4. CASE m.k = "junk"
        <3>1. Requests(c)' = Requests(c)
            BY <2>1, <2>2, <2>4 DEF Requests, Unread
        <3> QED
            BY <2>1, <2>3, <3>1, StutterStep
    <2>5. CASE m.k = "get"
        <3>1. m.url \in Urls
            BY <2>5 DEF Msgs
        <3>2. Requests(c) = asked[c]
            BY <2>1, RequestsRead
        <3>3. Requests(c)' = Append(Requests(c), m.url)
            <4>1. Requests(c)' = asked[c] \o <<m.url>>
                BY <2>1, <2>2, <2>5 DEF Requests, Unread
            <4>2. asked[c] \in Seq(Urls)
                BY <1>1
            <4> QED
                BY <3>1, <3>2, <4>1, <4>2
        <3>4. ear[c].got = Requests(c)
            <4>1. Hearing(c) /\ asked[c] \in Seq(Urls) /\ ear[c].got \in Seq(Urls \cup {NULL})
                BY RequestsRead DEF Inv, Turns
            <4> QED
                BY <2>1, <3>2, <4>1 DEF Hearing
        <3> QED
            BY <2>1, <2>3, <3>1, <3>3, <3>4 DEF Service!Ask, Requests
    <2> QED
        BY <2>1, <2>4, <2>5 DEF Msgs
<1>4. CASE PeerClose(c)
    BY <1>4, StutterStep DEF PeerClose, Requests, Unread
<1> QED
    BY <1>2, <1>3, <1>4 DEF PeerMove

LEMMA ClientIoService ==
    ASSUME Inv, alive, Orderly, NEW c \in Conns, ClientIoHandler(c)
    PROVE  Service!Reply(c) \/ UNCHANGED Service!serviceVars
<1>1. PICK fd \in Fds, s \in Slots :
          /\ heap[s].conn = c
          /\ \/ ReadRequest(fd, s) \/ ReadBadEscape(fd, s)
             \/ ReadJunk(fd, s) \/ ReadEof(fd, s) \/ ReadError(fd, s)
    BY DEF ClientIoHandler
<1>2. /\ inbox \in [Conns -> Seq(Msgs)] /\ asked \in [Conns -> Seq(Urls)]
      /\ ear \in [Conns -> Ears] /\ Waiting(c)
    BY DEF Inv, TypeOK, Turns
<1>3. CASE ReadRequest(fd, s)
    <2>1. PICK u \in Urls : AnsweredOrPut(c, u)
        BY <1>1, <1>3, ReadRequestOrder
    <2>2. /\ inbox'[c] = <<>> /\ asked'[c] = Append(asked[c], u)
          /\ \A d \in Conns \ {c} : inbox'[d] = inbox[d] /\ asked'[d] = asked[d]
        BY <1>2, <2>1 DEF AnsweredOrPut
    <2>3. /\ Requests(c) = Append(asked[c], u) /\ asked[c] \in Seq(Urls)
          /\ Len(asked[c]) = Len(ear[c].got)
        BY <1>2, <2>1, RequestsRead DEF AnsweredOrPut, Waiting
    <2>4. Requests(c)' = Requests(c)
        <3>1. Requests(c)' = asked'[c] \o <<>>
            BY <2>2 DEF Requests, Unread
        <3>2. Append(asked[c], u) \in Seq(Urls)
            BY <2>3
        <3> QED
            BY <2>2, <2>3, <3>1, <3>2
    <2>5. \A d \in Conns : Requests(d)' = Requests(d)
        BY <2>2, <2>4 DEF Requests, Unread
    <2>6. CASE ear' = [ear EXCEPT ![c] = [ear[c] EXCEPT !.got = Append(ear[c].got, u)]]
        <3>1. /\ ear'[c].got = Append(ear[c].got, u)
              /\ \A d \in Conns \ {c} : ear'[d] = ear[d]
            BY <1>2, <2>6 DEF Ears
        <3>2. Len(ear[c].got) < Len(Requests(c)) /\ Requests(c)[Len(ear[c].got) + 1] = u
            <4>1. PICK q \in Seq(Urls) : q = asked[c]
                BY <2>3
            <4>2. Len(Append(q, u)) = Len(q) + 1 /\ Append(q, u)[Len(q) + 1] = u
                OBVIOUS
            <4>3. Len(q) \in Nat
                OBVIOUS
            <4> QED
                BY <2>3, <4>1, <4>2, <4>3
        <3> QED
            BY <2>5, <3>1, <3>2, ReplyStep
    <2>7. CASE ear' = ear \/ ear' = [ear EXCEPT ![c] = [ear[c] EXCEPT !.wire = u]]
        <3>1. \A d \in Conns : ear'[d].got = ear[d].got
            <4>1. CASE ear' = ear
                BY <4>1
            <4>2. CASE ear' = [ear EXCEPT ![c] = [ear[c] EXCEPT !.wire = u]]
                BY <1>2, <4>2 DEF Ears
            <4> QED
                BY <2>7, <4>1, <4>2
        <3> QED
            BY <2>5, <3>1, StutterStep
    <2> QED
        BY <2>1, <2>6, <2>7 DEF AnsweredOrPut
<1>4. CASE ReadJunk(fd, s)
    <2>1. /\ inbox[c] # <<>> /\ Head(inbox[c]).k = "junk" /\ Tail(inbox[c]) = <<>>
          /\ inbox' = [inbox EXCEPT ![c] = Tail(inbox[c])] /\ asked' = asked /\ ear' = ear
        BY <1>1, <1>2, <1>4 DEF ReadJunk, Waiting
    <2>2. /\ inbox'[c] = <<>>
          /\ \A d \in Conns \ {c} : inbox'[d] = inbox[d] /\ asked'[d] = asked[d]
        BY <1>2, <2>1
    <2>3. Unread(c)' = Unread(c) /\ \A d \in Conns \ {c} : Unread(d)' = Unread(d)
        BY <2>1, <2>2 DEF Unread
    <2>4. \A d \in Conns : Requests(d)' = Requests(d)
        BY <2>1, <2>3 DEF Requests
    <2> QED
        BY <2>1, <2>4, StutterStep
<1>5. CASE ReadEof(fd, s) \/ ReadError(fd, s) \/ ReadBadEscape(fd, s)
    BY <1>5, StutterStep DEF ReadEof, ReadError, ReadBadEscape, kernelVars, Requests, Unread
<1> QED
    BY <1>1, <1>3, <1>4, <1>5

LEMMA EioThreadService ==
    ASSUME Inv, NEW c \in Conns, EioThread(c)
    PROVE  Service!Reply(c) \/ UNCHANGED Service!serviceVars
<1>1. PICK j \in jobs : j.conn = c /\ (EioOpen(j) \/ EioSend(j))
    BY DEF EioThread
<1>2. CASE EioOpen(j)
    BY <1>2, StutterStep DEF EioOpen, kernelVars, Requests, Unread
<1>3. CASE EioSend(j)
    <2>1. /\ SentOrNot(j) /\ Served(j) /\ Waiting(c) /\ Hearing(c)
          /\ j.op = "send" /\ j.st = "queued" /\ ear \in [Conns -> Ears]
        BY <1>3, EioSendOrder DEF EioSend, Inv, Turns, TypeOK
    <2>2. \A d \in Conns : Requests(d)' = Requests(d)
        BY <2>1 DEF SentOrNot, Requests, Unread
    <2>3. Requests(c) = asked[c] /\ asked[c] \in Seq(Urls) /\ ear[c].got \in Seq(Urls \cup {NULL})
        <3>1. inbox[c] = <<>>
            BY <1>1, <2>1 DEF Waiting
        <3> QED
            BY <3>1, RequestsRead
    <2>4. Len(asked[c]) = Len(ear[c].got) + 1 /\ j.file = asked[c][Len(asked[c])]
        BY <1>1, <2>1 DEF Served, Hearing
    <2>5. CASE ear' = [ear EXCEPT ![c] = [got |-> Append(ear[c].got, j.file), wire |-> NULL]]
        <3>1. /\ ear'[c].got = Append(ear[c].got, j.file)
              /\ \A d \in Conns \ {c} : ear'[d] = ear[d]
            BY <2>1, <2>5
        <3>2. Len(ear[c].got) < Len(Requests(c)) /\ Requests(c)[Len(ear[c].got) + 1] = j.file
            BY <2>3, <2>4
        <3> QED
            BY <2>2, <3>1, <3>2, ReplyStep
    <2>6. CASE ear' = ear
        BY <2>2, <2>6, StutterStep
    <2> QED
        BY <1>1, <2>1, <2>5, <2>6 DEF SentOrNot
<1> QED
    BY <1>1, <1>2, <1>3

LEMMA CallbackService ==
    ASSUME Inv, Orderly, NEW c \in Conns, Callback(c)
    PROVE  UNCHANGED Service!serviceVars
<1>1. PICK j \in jobs : FileOpenFailed(j) \/ FileOpenDone(j) \/ FileSendFailed(j) \/ FileSendDone(j)
    BY DEF Callback
<1>2. UNCHANGED <<inbox, asked>>
    BY <1>1 DEF FileOpenFailed, FileOpenDone, FileSendFailed, FileSendDone, kernelVars
<1>3. \A d \in Conns : ear'[d].got = ear[d].got
    <2>1. CASE FileOpenDone(j)
        <3>1. HeadSent(j)
            BY <2>1, FileOpenDoneOrder
        <3> QED
            BY <3>1 DEF HeadSent
    <2> QED
        BY <1>1, <2>1 DEF FileOpenFailed, FileSendFailed, FileSendDone
<1> QED
    BY <1>2, <1>3, StutterStep DEF Requests, Unread

\* With peers that take turns every step of the worker is one that a
\* BestEffort service may take, or none that a peer can see.
THEOREM BestEffortCorrect == ASSUME Orderly PROVE Spec => ImplementsBestEffort
<1>1. Init => Service!ServiceInit
    BY DEF Init, Service!ServiceInit, Unread, Silence
<1>2. ASSUME Inv, [Next]_vars
      PROVE  [Service!BestEffortNext]_Service!serviceVars
    <2>1. CASE UNCHANGED vars
        BY <2>1, StutterStep DEF vars, Requests, Unread
    <2>2. CASE Next
        <3>1. alive
            BY <2>2 DEF Next
        <3>2. PICK c \in Conns : PeerMove(c) \/ Worker(c)
            BY <2>2 DEF Next
        <3>3. CASE AcceptHandler(c)
            BY <3>3, StutterStep DEF AcceptHandler, AcceptTooBig, AcceptOccupied, AcceptInstall,
               Requests, Unread
        <3> QED
            BY <1>2, <3>1, <3>2, <3>3, PeerMoveService, ClientIoService, EioThreadService,
               CallbackService DEF Worker, Service!BestEffortNext
    <2> QED
        BY <1>2, <2>1, <2>2
<1> QED
    BY <1>1, <1>2, InvCorrect, PTL DEF Spec, ImplementsBestEffort, Service!BestEffortSpec

-----------------------------------------------------------------------------
(* NotLeftWaiting.  It needs to know that a send that ended has given the  *)
(* peer its answer, and that a connection not yet accepted awaits nothing. *)

Reliable == "short_send" \notin Unruly /\ "oom" \notin Unruly

Attended ==
    /\ \A j \in jobs : j.op = "send" /\ j.st # "queued" =>
           j.st = "ok" /\ ear[j.conn].wire = NULL
    /\ \A c \in backlog : ear[c].wire = NULL

LEMMA PeerMoveAttended ==
    ASSUME Inv, Attended, NotLeftWaiting, NEW c \in Conns, PeerMove(c)
    PROVE  Attended' /\ NotLeftWaiting'
<1>1. /\ ear \in [Conns -> Ears] /\ peer \in [Conns -> {"away", "up", "closed"}]
      /\ \A j \in jobs : j.conn \in Conns
      /\ backlog \subseteq Conns
    BY DEF Inv, TypeOK, Jobs
<1>2. CASE PeerConnect(c)
    <2>1. /\ ear'[c].wire = NULL /\ backlog' = backlog \cup {c} /\ fdt' = fdt /\ jobs' = jobs
          /\ \A d \in Conns \ {c} : ear'[d] = ear[d] /\ peer'[d] = peer[d]
        BY <1>1, <1>2 DEF PeerConnect, Silence
    <2> QED
        BY <1>1, <2>1 DEF Attended, NotLeftWaiting, ServerEnd
<1>3. CASE PeerClose(c) \/ \E m \in Msgs : PeerSend(c, m)
    <2>1. /\ ear' = ear /\ backlog' = backlog /\ fdt' = fdt /\ jobs' = jobs
          /\ \A d \in Conns : peer'[d] = "up" => peer[d] = "up"
        BY <1>1, <1>3 DEF PeerClose, PeerSend
    <2> QED
        BY <2>1 DEF Attended, NotLeftWaiting, ServerEnd
<1> QED
    BY <1>2, <1>3 DEF PeerMove

LEMMA AcceptAttended ==
    ASSUME Inv, Orderly, Attended, NotLeftWaiting, NEW c \in Conns, AcceptHandler(c)
    PROVE  Attended' /\ NotLeftWaiting'
<1>1. /\ c \in backlog /\ backlog' = backlog \ {c}
      /\ UNCHANGED <<jobs, peer, ear>>
    BY DEF AcceptHandler, AcceptTooBig, AcceptOccupied, AcceptInstall
<1>2. ASSUME NEW d \in Conns, d # c, ServerEnd(d)'
      PROVE  ServerEnd(d)
    <2>1. fdt \in [Fds -> Files]
        BY DEF Inv, TypeOK
    <2>2. fdt' = fdt \/ \E x \in Fds : fdt' = [fdt EXCEPT ![x] = Sock(c)]
        BY DEF AcceptHandler, AcceptTooBig, AcceptOccupied, AcceptInstall, LowestFree
    <2> QED
        BY <1>2, <2>1, <2>2 DEF ServerEnd, Sock
<1> QED
    BY <1>1, <1>2 DEF Attended, NotLeftWaiting

LEMMA ClientIoAttended ==
    ASSUME Inv, alive, Orderly, Reliable, Attended, NotLeftWaiting, NEW c \in Conns,
           ClientIoHandler(c)
    PROVE  Attended' /\ NotLeftWaiting'
<1>1. PICK fd \in Fds, s \in Slots :
          /\ heap[s].conn = c
          /\ \/ ReadRequest(fd, s) \/ ReadBadEscape(fd, s)
             \/ ReadJunk(fd, s) \/ ReadEof(fd, s) \/ ReadError(fd, s)
    BY DEF ClientIoHandler
<1>2. CASE ReadRequest(fd, s)
    <2>1. PICK u \in Urls : AnsweredOrPut(c, u)
        BY <1>1, <1>2, ReadRequestOrder
    <2>2. \A n \in Fds : fdt'[n] = fdt[n] \/ fdt[n] = Free
        BY <1>1, <1>2, ReadRequestOrder
    <2>3. ServerEnd(c) /\ c \notin backlog
        <3>1. ServerEnd(c)
            BY <1>1, <1>2 DEF ReadRequest, Watched, ServerEnd
        <3> QED
            BY <3>1, ServerEndLive DEF Inv, Holdings, Holds
    <2>4. \A d \in Conns \ {c} : ear'[d] = ear[d] /\ inbox'[d] = inbox[d]
        BY <2>1 DEF AnsweredOrPut, Inv, TypeOK
    <2>5. ear'[c] = ear[c] \/ ear'[c].wire = NULL \/ Reply(ear'[c].wire) = "301"
        <3>1. ear[c] \in Ears /\ ear \in [Conns -> Ears] /\ ear[c].wire = NULL
            BY <2>1 DEF AnsweredOrPut, Inv, TypeOK, Turns, Waiting
        <3> QED
            BY <2>1, <3>1 DEF AnsweredOrPut, Ears, Reliable
    <2>6. \A j \in jobs : j.conn # c
        BY <2>1 DEF AnsweredOrPut, Inv, Turns, Waiting
    <2>7. ASSUME NEW d \in Conns, ServerEnd(d)'
          PROVE  ServerEnd(d)
        <3>1. \A n \in Fds : fdt'[n] = fdt[n] \/ fdt'[n].k # "sock"
            <4>1. PICK t \in {fdt} \cup {[fdt EXCEPT ![x] = ListedDir] : x \in LowestFree} :
                      AfterParse(Head(inbox[c]), fd, OnUrl(s, Head(inbox[c]).url), t)
                BY <1>1, <1>2 DEF ReadRequest
            <4>2. fdt' = t
                BY <2>1, <4>1 DEF AnsweredOrPut, AfterParse
            <4>3. fdt \in [Fds -> Files]
                BY DEF Inv, TypeOK
            <4> QED
                BY <4>2, <4>3 DEF LowestFree, ListedDir
        <3> QED
            BY <2>7, <3>1 DEF ServerEnd, Sock
    <2>8. Attended'
        <3>1. ASSUME NEW j \in jobs', j.op = "send"
              PROVE  j \in jobs /\ j.conn \in Conns \ {c}
            BY <2>1, <2>6, <3>1 DEF AnsweredOrPut, Inv, TypeOK, Jobs
        <3>2. \A d \in backlog' : d \in backlog /\ d \in Conns \ {c}
            BY <2>1, <2>3 DEF AnsweredOrPut, Inv, TypeOK
        <3> QED
            BY <2>4, <3>1, <3>2 DEF Attended
    <2>9. NotLeftWaiting'
        <3>1. \A d \in Conns : peer'[d] = peer[d]
            BY <2>1 DEF AnsweredOrPut
        <3>2. \A j \in jobs : j \in jobs'
            BY <2>1 DEF AnsweredOrPut
        <3>3. ASSUME NEW d \in Conns, peer'[d] = "up", ServerEnd(d)',
                     ear'[d].wire # NULL, Reply(ear'[d].wire) = "open"
              PROVE  \E j \in jobs' : j.conn = d /\ j.op = "send"
            <4>1. ear'[d] = ear[d]
                BY <2>4, <2>5, <3>3
            <4> QED
                BY <2>7, <3>1, <3>2, <3>3, <4>1 DEF NotLeftWaiting
        <3> QED
            BY <3>3 DEF NotLeftWaiting
    <2> QED
        BY <2>8, <2>9
<1>3. CASE ReadJunk(fd, s) \/ ReadEof(fd, s) \/ ReadError(fd, s)
    <2>1. /\ CloseClient(fd, heap, fdt) /\ UNCHANGED <<jobs, backlog, peer, ear>>
        BY <1>3 DEF ReadJunk, ReadEof, ReadError, kernelVars
    <2>2. \A d \in Conns : ServerEnd(d)' => ServerEnd(d)
        BY <2>1 DEF CloseClient, Closed, ServerEnd, Sock, Free
    <2> QED
        BY <2>1, <2>2 DEF Attended, NotLeftWaiting
<1>4. CASE ReadBadEscape(fd, s)
    BY <1>4 DEF ReadBadEscape, kernelVars, Attended, NotLeftWaiting, ServerEnd
<1> QED
    BY <1>1, <1>2, <1>3, <1>4

LEMMA EioThreadAttended ==
    ASSUME Inv, Reliable, Attended, NotLeftWaiting, NEW c \in Conns, EioThread(c)
    PROVE  Attended' /\ NotLeftWaiting'
<1>1. PICK j \in jobs : j.conn = c /\ (EioOpen(j) \/ EioSend(j))
    BY DEF EioThread
<1>2. CASE EioOpen(j)
    <2>1. /\ j.op = "open" /\ UNCHANGED <<peer, ear, backlog>> /\ j \in Jobs
          /\ \E st \in {"ok", "err"}, x \in Fds \cup {NoFd} : jobs' = Finished(j, st, x)
        BY <1>2 DEF EioOpen, kernelVars, LowestFree, Inv, TypeOK
    <2>2. PICK st \in {"ok", "err"}, x \in Fds \cup {NoFd} : jobs' = Finished(j, st, x)
        BY <2>1
    <2>3. PICK k : k = [j EXCEPT !.st = st, !.in = x]
        OBVIOUS
    <2>4. jobs' = (jobs \ {j}) \cup {k} /\ k.op = "open"
        BY <2>1, <2>2, <2>3 DEF Finished, Jobs
    <2>5. ASSUME NEW d \in Conns, ServerEnd(d)'
          PROVE  ServerEnd(d)
        <3>1. fdt' = fdt \/ \E y \in Fds : fdt' = [fdt EXCEPT ![y] = File(j.file)]
            BY <1>2 DEF EioOpen, LowestFree
        <3>2. fdt \in [Fds -> Files]
            BY DEF Inv, TypeOK
        <3> QED
            BY <2>5, <3>1, <3>2 DEF ServerEnd, Sock, File
    <2> QED
        BY <2>1, <2>4, <2>5 DEF Attended, NotLeftWaiting
<1>3. CASE EioSend(j)
    <2>1. SentOrNot(j) /\ ear \in [Conns -> Ears] /\ backlog \subseteq Conns
          /\ \A i \in jobs : i.conn \in Conns
        BY <1>3, EioSendOrder DEF Inv, TypeOK, Jobs
    <2>2. /\ \A i \in jobs : i \in jobs' \/ i = j
          /\ \E k \in jobs' : k.op = "send" /\ k.conn = c
          /\ \A k \in jobs' : \/ k \in jobs \ {j}
                              \/ k.conn = c /\ k.st = "ok" /\ ear'[c].wire = NULL
        BY <1>1, <2>1 DEF SentOrNot, EndedWell, Reliable
    <2>3. \A d \in Conns \ {c} : ear'[d] = ear[d]
        BY <1>1, <2>1 DEF SentOrNot
    <2>4. \A i \in jobs \ {j} : i.conn # c
        BY <1>1 DEF Inv, JobsMatch
    <2>5. Attended'
        BY <2>1, <2>2, <2>3, <2>4 DEF Attended, SentOrNot
    <2>6. UNCHANGED <<fdt, peer>>
        BY <2>1 DEF SentOrNot
    <2>7. NotLeftWaiting'
        <3>1. ASSUME NEW d \in Conns, d # c, NEW i \in jobs, i.conn = d, i.op = "send"
              PROVE  i \in jobs'
            BY <1>1, <2>2, <3>1
        <3> QED
            BY <2>2, <2>3, <2>6, <3>1 DEF NotLeftWaiting, ServerEnd
    <2> QED
        BY <2>5, <2>7
<1> QED
    BY <1>1, <1>2, <1>3

LEMMA CallbackAttended ==
    ASSUME Inv, Orderly, Reliable, Attended, NotLeftWaiting, NEW c \in Conns, Callback(c)
    PROVE  Attended' /\ NotLeftWaiting'
<1>1. PICK j \in jobs : FileOpenFailed(j) \/ FileOpenDone(j) \/ FileSendFailed(j) \/ FileSendDone(j)
    BY DEF Callback
<1>2. /\ Served(j) /\ \A i \in jobs : i.conn \in Conns
      /\ \A i \in jobs \ {j} : i.conn # j.conn
    BY DEF Inv, Turns, JobsMatch, TypeOK, Jobs
<1>3. ~FileSendFailed(j)
    BY DEF FileSendFailed, Attended
<1>4. CASE FileOpenFailed(j) \/ FileSendDone(j)
    <2>1. /\ jobs' = jobs \ {j} /\ UNCHANGED <<backlog, peer, ear>>
          /\ \A d \in Conns : ServerEnd(d)' => ServerEnd(d)
        BY <1>4 DEF FileOpenFailed, FileSendDone, CloseClient, Closed, ServerEnd, Sock, Free,
           kernelVars
    <2>2. ear[j.conn].wire = NULL
        BY <1>2, <1>4 DEF FileOpenFailed, FileSendDone, Served, Attended
    <2> QED
        BY <2>1, <2>2 DEF Attended, NotLeftWaiting
<1>5. CASE FileOpenDone(j)
    <2>1. HeadSent(j)
        BY <1>5, FileOpenDoneOrder
    <2>2. \E i \in jobs' : i.op = "send" /\ i.conn = j.conn
        BY <2>1 DEF HeadSent, Reliable
    <2>3. /\ \A i \in jobs : i = j \/ i \in jobs'
          /\ \A d \in Conns \ {j.conn} : ear'[d] = ear[d]
          /\ j.op = "open" /\ UNCHANGED <<fdt, backlog, peer>>
          /\ \A i \in jobs' : i \in jobs \/ (i.op = "send" /\ i.st = "queued")
        BY <2>1 DEF HeadSent
    <2>4. j.conn \notin backlog /\ backlog \subseteq Conns
        BY DEF Inv, JobsMatch, Matches, Holdings, Holds, TypeOK, Jobs
    <2>5. Attended'
        <3>1. ASSUME NEW i \in jobs', i.op = "send", i.st # "queued"
              PROVE  i \in jobs \ {j} /\ i.conn \in Conns \ {j.conn}
            BY <1>2, <2>3, <3>1
        <3> QED
            BY <2>3, <2>4, <3>1 DEF Attended
    <2>6. NotLeftWaiting'
        <3>1. ASSUME NEW d \in Conns, d # j.conn, NEW i \in jobs, i.conn = d, i.op = "send"
              PROVE  i \in jobs'
            BY <2>3, <3>1
        <3> QED
            BY <2>2, <2>3, <3>1 DEF NotLeftWaiting, ServerEnd
    <2> QED
        BY <2>5, <2>6
<1> QED
    BY <1>1, <1>3, <1>4, <1>5

\* When sends end in full and libeio takes what it is given, a peer that waits
\* for a body waits for a send.
THEOREM WaitingCorrect == ASSUME Orderly, Reliable PROVE Spec => []NotLeftWaiting
<1>1. Init => Attended /\ NotLeftWaiting
    BY DEF Init, Attended, NotLeftWaiting, Silence
<1>2. ASSUME Inv, Attended, NotLeftWaiting, [Next]_vars
      PROVE  Attended' /\ NotLeftWaiting'
    <2>1. CASE UNCHANGED vars
        BY <1>2, <2>1 DEF vars, Attended, NotLeftWaiting, ServerEnd
    <2>2. CASE Next
        BY <1>2, <2>2, PeerMoveAttended, AcceptAttended, ClientIoAttended, EioThreadAttended,
           CallbackAttended DEF Next, Worker
    <2> QED
        BY <1>2, <2>1, <2>2
<1> QED
    BY <1>1, <1>2, InvCorrect, PTL DEF Spec

-----------------------------------------------------------------------------
(* ImplementsService.  Nothing fails when the files are there, libeio and  *)
(* the sockets take what they are given and each peer can have its socket  *)
(* and one file.                                                           *)

\* respondIndexs keeps a descriptor for good and respondRedirection leaves the
\* peer waiting for a body: with either the promise cannot be kept.
Provided ==
    /\ Unruly \cap Faults = {} /\ BadEscapes = {}
    /\ \A u \in Urls : Reply(u) \notin {"index", "301"}
    /\ IsFiniteSet(Conns) /\ FdLimit >= 2 * Cardinality(Conns)

\* Nobody is given up: no job fails, a send that ended has given its answer,
\* every request read and not answered is in a job, every request not read is
\* behind a connection, and whoever left had all answers.
NobodyGivenUp ==
    /\ \A fd \in Fds : fdt[fd].k # "dir"
    /\ \A j \in jobs :
          /\ j.st # "err"
          /\ j.op = "send" /\ j.st = "ok" => Len(asked[j.conn]) = Len(ear[j.conn].got)
    /\ \A c \in Conns :
          /\ Len(ear[c].got) < Len(asked[c]) => \E j \in jobs : j.conn = c
          /\ inbox[c] # <<>> => c \in backlog \/ ServerEnd(c)
          /\ peer[c] # "up" => Idle(c)

\* Of the free numbers one is the lowest.
LEMMA LowestExists ==
    ASSUME NEW x \in Fds, fdt[x] = Free
    PROVE  LowestFree # {}
<1> DEFINE F == {0 .. z : z \in {w \in Fds : fdt[w] = Free}}
           R == StrictSubsetOrdering(Fds)
<1>1. IsFiniteSet(Fds) /\ Fds \subseteq Nat
    BY NumberAssumption, FS_Interval DEF Fds
<1>2. IsWellFoundedOn(R, SUBSET Fds)
    BY <1>1, FS_StrictSubsetOrderingWellFounded, FS_FiniteSubsetsOfFinite
<1>3. F \subseteq SUBSET Fds /\ 0 .. x \in F
    BY NumberAssumption DEF Fds
<1>4. PICK I \in F : \A J \in F : <<J, I>> \notin R
    <2> HIDE DEF F, R
    <2> QED
        BY <1>2, <1>3, WFMin
<1>5. PICK y \in Fds : fdt[y] = Free /\ I = 0 .. y
    OBVIOUS
<1>6. ASSUME NEW z \in Fds, fdt[z] = Free, ~(y <= z)
      PROVE  FALSE
    <2>1. 0 .. z \in F /\ 0 .. z \subseteq 0 .. y /\ 0 .. z # 0 .. y
        BY <1>1, <1>6
    <2>2. <<0 .. z, 0 .. y>> \in R
        BY <1>3, <1>5, <2>1 DEF StrictSubsetOrdering
    <2> QED
        BY <1>4, <1>5, <2>1, <2>2
<1> QED
    BY <1>5, <1>6 DEF LowestFree

\* A socket belongs to one peer, a file to one peer, and the peer whose file is
\* to be opened has none yet: there is a number left.
LEMMA NumberLeft ==
    ASSUME Inv, Provided, NobodyGivenUp, NEW j \in jobs, j.op = "open", j.st = "queued"
    PROVE  LowestFree # {}
<1> DEFINE socks == {fd \in Fds : fdt[fd].k = "sock"}
           files == {fd \in Fds : fdt[fd].k = "file"}
           others == Conns \ {j.conn}
           n == Cardinality(Conns)
<1>1. /\ fdt \in [Fds -> Files] /\ heap \in [Slots -> ClientInfos]
      /\ clientList \in [Fds -> Slots \cup {NULL}]
      /\ \A i \in jobs : i.conn \in Conns /\ i.slot \in Slots /\ Numbered(i)
      /\ \A s \in Slots : heap[s].fd \in Fds /\ heap[s].fileFd \in Fds \cup {NoFd}
    BY DEF Inv, TypeOK, Jobs, ClientInfos
<1>2. n \in Nat /\ FdLimit \in Nat /\ FdLimit >= 2 * n
    BY FS_CardinalityType, NumberAssumption DEF Provided
<1>3. IsFiniteSet(socks) /\ Cardinality(socks) \in Nat /\ Cardinality(socks) <= n
    <2> DEFINE owner == [fd \in socks |-> heap[clientList[fd]].conn]
    <2>1. ASSUME NEW fd \in socks
          PROVE  /\ clientList[fd] \in Slots /\ heap[clientList[fd]].live
                 /\ heap[clientList[fd]].fd = fd /\ owner[fd] \in Conns
                 /\ owner[fd] = heap[clientList[fd]].conn
        <3>1. clientList[fd] # NULL
            BY DEF Inv, Holdings, Held
        <3>2. /\ clientList[fd] \in Slots /\ heap[clientList[fd]].live
              /\ heap[clientList[fd]].fd = fd
            BY <1>1, <3>1 DEF Inv, TableExact
        <3> QED
            BY <3>2 DEF Inv, Holdings, Holds
    <2>2. ASSUME NEW x \in socks, NEW y \in socks, owner[x] = owner[y]
          PROVE  x = y
        <3>1. PICK s \in Slots : /\ s = clientList[x] /\ heap[s].live /\ heap[s].fd = x
                                 /\ owner[x] = heap[s].conn
            BY <2>1
        <3>2. PICK r \in Slots : /\ r = clientList[y] /\ heap[r].live /\ heap[r].fd = y
                                 /\ owner[y] = heap[r].conn
            BY <2>1
        <3>3. Apart(s, r)
            BY <3>1, <3>2 DEF Inv, Holdings
        <3> QED
            BY <2>2, <3>1, <3>2, <3>3 DEF Apart
    <2>3. owner \in [socks -> Conns]
        BY <2>1
    <2> HIDE DEF owner
    <2>4. owner \in Injection(socks, Conns)
        BY <2>2, <2>3 DEF Injection, IsInjective
    <2> QED
        BY <2>4, FS_Injection, FS_CardinalityType DEF Provided
<1>4. IsFiniteSet(files) /\ Cardinality(files) \in Nat /\ Cardinality(files) < n
    <2> DEFINE Owns(fd, c) ==
                   \/ \E i \in jobs : OpenDone(i) /\ i.in = fd /\ i.conn = c
                   \/ \E s \in Slots : heap[s].live /\ heap[s].fileFd = fd /\ heap[s].conn = c
               owner == [fd \in files |-> CHOOSE c \in others : Owns(fd, c)]
    <2>1. ASSUME NEW fd \in files
          PROVE  \E c \in others : Owns(fd, c)
        <3>1. \/ \E i \in jobs : OpenDone(i) /\ i.in = fd
              \/ \E s \in Slots : heap[s].live /\ heap[s].fileFd = fd
            BY DEF Inv, Holdings, Held
        <3>2. ASSUME NEW i \in jobs, OpenDone(i), i.in = fd
              PROVE  i.conn \in others
            BY <1>1, <3>2 DEF Inv, JobsMatch, OpenDone
        <3>3. ASSUME NEW s \in Slots, heap[s].live, heap[s].fileFd = fd
              PROVE  heap[s].conn \in others
            <4>1. fd # NoFd
                BY DEF Fds, NoFd
            <4>2. heap[s].conn \in Conns
                BY <3>3 DEF Inv, Holdings, Holds
            <4>3. s # j.slot
                BY <3>3, <4>1 DEF Inv, JobsMatch, Matches
            <4>4. heap[s].conn # j.conn
                BY <1>1, <3>3, <4>3 DEF Inv, JobsMatch, Matches, Holdings, Apart
            <4> QED
                BY <4>2, <4>4
        <3> QED
            BY <3>1, <3>2, <3>3
    <2>2. ASSUME NEW x \in files, NEW y \in files, NEW c \in others, Owns(x, c), Owns(y, c)
          PROVE  x = y
        <3>1. x # NoFd /\ y # NoFd
            BY DEF Fds, NoFd
        <3>2. ASSUME NEW i \in jobs, OpenDone(i), i.conn = c,
                     NEW s \in Slots, heap[s].live, heap[s].conn = c
              PROVE  heap[s].fileFd = NoFd
            <4>1. Matches(i) /\ i.slot \in Slots
                BY <1>1 DEF Inv, JobsMatch
            <4>2. s = i.slot
                BY <3>2, <4>1 DEF Matches, Inv, Holdings, Apart
            <4> QED
                BY <3>2, <4>1, <4>2 DEF Matches, OpenDone
        <3>3. CASE \E i \in jobs : OpenDone(i) /\ i.conn = c
            <4>1. PICK i \in jobs : OpenDone(i) /\ i.conn = c
                BY <3>3
            <4>2. \A k \in jobs : k.conn = c => k = i
                BY <4>1 DEF Inv, JobsMatch
            <4> QED
                BY <2>2, <3>1, <3>2, <4>1, <4>2
        <3>4. CASE ~\E i \in jobs : OpenDone(i) /\ i.conn = c
            <4>1. PICK s \in Slots : heap[s].live /\ heap[s].fileFd = x /\ heap[s].conn = c
                BY <2>2, <3>4
            <4>2. PICK r \in Slots : heap[r].live /\ heap[r].fileFd = y /\ heap[r].conn = c
                BY <2>2, <3>4
            <4>3. s = r
                BY <4>1, <4>2 DEF Inv, Holdings, Apart
            <4> QED
                BY <4>1, <4>2, <4>3
        <3> QED
            BY <2>2, <3>3, <3>4
    <2>3. ASSUME NEW fd \in files
          PROVE  owner[fd] \in others /\ Owns(fd, owner[fd])
        <3> HIDE DEF Owns
        <3> QED
            BY <2>1
    <2>4. owner \in [files -> others]
        BY <2>3
    <2> HIDE DEF owner, Owns
    <2>5. owner \in Injection(files, others)
        BY <2>2, <2>3, <2>4 DEF Injection, IsInjective
    <2>6. IsFiniteSet(others) /\ Cardinality(others) = n - 1
        BY <1>1, FS_RemoveElement DEF Provided
    <2> QED
        BY <1>2, <2>5, <2>6, FS_Injection, FS_CardinalityType
<1>5. IsFiniteSet(socks \cup files) /\ Cardinality(socks \cup files) < FdLimit
    <2>1. /\ IsFiniteSet(socks \cup files)
          /\ Cardinality(socks \cup files) =
                Cardinality(socks) + Cardinality(files) - Cardinality(socks \cap files)
        BY <1>3, <1>4, FS_Union
    <2>2. Cardinality(socks \cap files) \in Nat
        BY <1>3, FS_Subset, FS_CardinalityType
    <2> QED
        BY <1>2, <1>3, <1>4, <2>1, <2>2
<1>6. Cardinality(Fds) = FdLimit
    BY <1>2, NumberAssumption, FS_Interval DEF Fds
<1>7. PICK x \in Fds : x \notin socks \cup files
    <2>1. PICK taken : taken = socks \cup files
        OBVIOUS
    <2>2. taken \subseteq Fds /\ Cardinality(taken) < FdLimit
        BY <1>5, <2>1
    <2>3. taken # Fds
        BY <1>2, <1>6, <2>2
    <2> QED
        BY <2>1, <2>2, <2>3
<1>8. fdt[x] = Free
    BY <1>1, <1>7 DEF Files, Free, NobodyGivenUp
<1> QED
    BY <1>7, <1>8, LowestExists

\* Who is given up by nobody gives up only when all is answered.
LEMMA PeerMoveGivesUp ==
    ASSUME Inv, Orderly, NobodyGivenUp, NEW c \in Conns, PeerMove(c)
    PROVE  NobodyGivenUp'
<1>1. /\ inbox \in [Conns -> Seq(Msgs)] /\ asked \in [Conns -> Seq(Urls)]
      /\ ear \in [Conns -> Ears] /\ peer \in [Conns -> {"away", "up", "closed"}]
      /\ ear[c].got \in Seq(Urls \cup {NULL}) /\ asked[c] \in Seq(Urls)
      /\ \A j \in jobs : j.conn \in Conns
      /\ Hearing(c) /\ \A w \in PeerDepartures : w \notin Unruly
    BY DEF Inv, TypeOK, Ears, Jobs, Turns, Orderly
<1>2. CASE PeerConnect(c)
    <2>1. /\ UNCHANGED <<fdt, jobs>> /\ backlog' = backlog \cup {c}
          /\ peer'[c] = "up" /\ inbox'[c] = <<>> /\ asked'[c] = <<>> /\ ear'[c] = Silence
          /\ \A d \in Conns \ {c} : /\ peer'[d] = peer[d] /\ inbox'[d] = inbox[d]
                                    /\ asked'[d] = asked[d] /\ ear'[d] = ear[d]
        BY <1>1, <1>2 DEF PeerConnect
    <2>2. \A j \in jobs : j.conn # c
        BY <1>2 DEF PeerConnect, Forgotten
    <2> QED
        BY <1>1, <2>1, <2>2 DEF NobodyGivenUp, ServerEnd, Idle, Silence
<1>3. ASSUME NEW m \in Msgs, PeerSend(c, m)
      PROVE  NobodyGivenUp'
    <2>1. /\ UNCHANGED <<fdt, jobs, backlog, peer, asked, ear>>
          /\ peer[c] = "up" /\ (c \in backlog \/ ServerEnd(c))
          /\ \A d \in Conns \ {c} : inbox'[d] = inbox[d]
        BY <1>1, <1>3 DEF PeerSend
    <2> QED
        BY <1>1, <2>1 DEF NobodyGivenUp, ServerEnd, Idle
<1>4. CASE PeerClose(c)
    <2>1. /\ UNCHANGED <<fdt, jobs, backlog, inbox, asked, ear>>
          /\ \A d \in Conns \ {c} : peer'[d] = peer[d]
          /\ Settled(c) \/ Hopeless(c)
        BY <1>1, <1>4 DEF PeerClose, PeerDepartures
    <2>2. Hopeless(c) => Idle(c)
        <3> SUFFICES ASSUME Hopeless(c) PROVE Idle(c)
            OBVIOUS
        <3>1. Len(ear[c].got) = Len(asked[c])
            <4>1. Len(ear[c].got) \in Nat /\ Len(asked[c]) \in Nat
                BY <1>1
            <4>2. ~(Len(ear[c].got) < Len(asked[c]))
                BY DEF Hopeless, NobodyGivenUp
            <4>3. Len(ear[c].got) <= Len(asked[c])
                BY <1>1 DEF Hearing
            <4> QED
                BY <4>1, <4>2, <4>3
        <3>2. ear[c].wire = NULL
            BY <1>1, <3>1 DEF Hearing
        <3>3. inbox[c] = <<>>
            BY DEF Hopeless, NobodyGivenUp
        <3> QED
            BY <3>1, <3>2, <3>3 DEF Idle
    <2>3. Idle(c)
        BY <2>1, <2>2 DEF Settled
    <2> QED
        BY <2>1, <2>3 DEF NobodyGivenUp, ServerEnd, Idle
<1> QED
    BY <1>2, <1>3, <1>4 DEF PeerMove

LEMMA AcceptGivesUp ==
    ASSUME Inv, Orderly, NobodyGivenUp, NEW c \in Conns, AcceptHandler(c)
    PROVE  NobodyGivenUp'
<1>1. /\ fdt \in [Fds -> Files] /\ clientList \in [Fds -> Slots \cup {NULL}]
      /\ heap \in [Slots -> ClientInfos]
    BY DEF Inv, TypeOK
<1>2. ASSUME NEW x \in LowestFree
      PROVE  /\ x \in Fds /\ fdt[x] = Free /\ x < MAX_ALLOWED_CLIENT /\ clientList[x] = NULL
    <2>1. x \in Fds /\ fdt[x] = Free /\ x < MAX_ALLOWED_CLIENT
        BY NumberAssumption DEF LowestFree, Fds, Orderly
    <2>2. clientList[x] = NULL
        <3> SUFFICES ASSUME clientList[x] # NULL PROVE FALSE
            OBVIOUS
        <3>1. fdt[x] = Sock(heap[clientList[x]].conn)
            BY <2>1, InvOwned DEF NumbersOwned
        <3> QED
            BY <2>1, <3>1 DEF Free, Sock
    <2> QED
        BY <2>1, <2>2
<1>3. /\ UNCHANGED <<jobs, peer, inbox, asked, ear>> /\ backlog' = backlog \ {c}
      /\ \E x \in LowestFree : fdt' = [fdt EXCEPT ![x] = Sock(c)]
    <2>1. ~AcceptTooBig(c)
        BY <1>2, NumberAssumption DEF AcceptTooBig, Fds
    <2>2. ~AcceptOccupied(c)
        BY <1>2, NumberAssumption DEF AcceptOccupied, Fds
    <2> QED
        BY <2>1, <2>2 DEF AcceptHandler, AcceptInstall
<1>4. PICK x \in LowestFree : fdt' = [fdt EXCEPT ![x] = Sock(c)]
    BY <1>3
<1>5. /\ x \in Fds /\ fdt[x] = Free /\ fdt'[x] = Sock(c)
      /\ \A n \in Fds \ {x} : fdt'[n] = fdt[n]
    BY <1>1, <1>2, <1>4
<1>6. ServerEnd(c)' /\ \A d \in Conns : ServerEnd(d) => ServerEnd(d)'
    BY <1>5 DEF ServerEnd, Sock, Free
<1>7. \A n \in Fds : fdt'[n].k # "dir"
    BY <1>5 DEF NobodyGivenUp, Sock
<1>8. \A d \in Conns : d \in backlog => d \in backlog' \/ ServerEnd(d)'
    BY <1>3, <1>6
<1> QED
    BY <1>3, <1>6, <1>7, <1>8 DEF NobodyGivenUp, Idle

\* A request read is answered at once or put into a job.
LEMMA ReadRequestGivesUp ==
    ASSUME Inv, alive, Orderly, Provided, NobodyGivenUp, NEW c \in Conns,
           NEW fd \in Fds, NEW s \in Slots, heap[s].conn = c, ReadRequest(fd, s)
    PROVE  NobodyGivenUp'
<1> DEFINE u == Head(inbox[c]).url
<1>1. /\ inbox \in [Conns -> Seq(Msgs)] /\ asked \in [Conns -> Seq(Urls)]
      /\ ear \in [Conns -> Ears] /\ peer \in [Conns -> {"away", "up", "closed"}]
      /\ asked[c] \in Seq(Urls) /\ ear[c].got \in Seq(Urls \cup {NULL})
      /\ jobs \subseteq Jobs /\ \A w \in Faults : w \notin Unruly
    BY DEF Inv, TypeOK, Ears, Provided
<1>2. PICK v \in Urls : AnsweredOrPut(c, v)
    BY ReadRequestOrder
<1>3. /\ u = v /\ inbox[c] # <<>> /\ Head(inbox[c]).k = "get"
      /\ inbox' = [inbox EXCEPT ![c] = <<>>]
      /\ asked' = [asked EXCEPT ![c] = Append(asked[c], v)]
      /\ (\A j \in jobs : j \in jobs') /\ (\A j \in jobs' : j \in jobs \/ j.op = "open")
      /\ UNCHANGED <<backlog, peer>> /\ \A d \in Conns \ {c} : ear'[d] = ear[d]
    BY <1>1, <1>2 DEF AnsweredOrPut
<1>4. /\ fdt[fd] = Sock(c) /\ peer[c] = "up" /\ Len(asked[c]) = Len(ear[c].got)
      /\ ear[c].wire = NULL /\ \A j \in jobs : j.conn # c
    <2>1. fdt[fd] = Sock(c)
        BY DEF ReadRequest, Watched
    <2>2. peer[c] = "up"
        BY <1>1, <1>3 DEF NobodyGivenUp, Idle
    <2> QED
        BY <1>3, <2>1, <2>2 DEF Inv, Turns, Waiting
<1>5. PICK t \in {fdt} \cup {[fdt EXCEPT ![x] = ListedDir] : x \in LowestFree} :
          RespondToClient(fd, s, u, t) /\ AfterParse(Head(inbox[c]), fd, OnUrl(s, u), t)
    BY DEF ReadRequest
<1>6. fdt' = t
    BY <1>3, <1>5 DEF AfterParse
<1>7. /\ fdt' = fdt
      /\ \/ jobs' = jobs \cup {OpenJob(s, u)} /\ ear' = ear
         \/ SendPage(fd, u)
    BY <1>1, <1>3, <1>5, <1>6 DEF RespondToClient, Provided, Faults
<1>8. \/ jobs' = jobs \cup {OpenJob(s, u)} /\ ear' = ear
      \/ jobs' = jobs /\ ear' = [ear EXCEPT ![c] = [ear[c] EXCEPT !.got = Append(ear[c].got, u)]]
    <2> SUFFICES ASSUME SendPage(fd, u)
                 PROVE  /\ jobs' = jobs
                        /\ ear' = [ear EXCEPT ![c] = [ear[c] EXCEPT !.got = Append(ear[c].got, u)]]
        BY <1>7
    <2>1. Reaches(fd) /\ fdt[fd].of = c
        BY <1>4 DEF Reaches, Sock
    <2>2. Open(c)
        <3>1. Len(inbox[c]) > 0
            BY <1>1, <1>3
        <3> QED
            BY <1>1, <1>4, <3>1 DEF Open
    <2>3. Heard(c, v, "page") = [ear[c] EXCEPT !.got = Append(ear[c].got, v)]
        BY <1>4, <2>2, HeardInTurn
    <2> QED
        BY <1>1, <1>3, <2>1, <2>3 DEF SendPage, SendOnce, PiledUp, Send, Faults
<1>9. /\ Len(asked'[c]) = Len(asked[c]) + 1
      /\ \A d \in Conns \ {c} : asked'[d] = asked[d] /\ inbox'[d] = inbox[d]
      /\ inbox'[c] = <<>>
    BY <1>1, <1>3
<1>10. \A j \in jobs' : /\ j \in jobs \/ (j.st = "queued" /\ j.op = "open")
                       /\ j.st # "err"
    <2>1. OpenJob(s, u).st = "queued" /\ OpenJob(s, u).op = "open"
        BY DEF OpenJob
    <2> QED
        BY <1>8, <2>1 DEF NobodyGivenUp
<1>11. Len(ear'[c].got) < Len(asked'[c]) => \E j \in jobs' : j.conn = c
    <2>1. CASE jobs' = jobs \cup {OpenJob(s, u)} /\ ear' = ear
        <3>1. OpenJob(s, u).conn = c
            BY DEF OpenJob
        <3> QED
            BY <2>1, <3>1
    <2>2. CASE ear' = [ear EXCEPT ![c] = [ear[c] EXCEPT !.got = Append(ear[c].got, u)]]
        <3>1. ear'[c].got = Append(ear[c].got, u)
            BY <1>1, <2>2 DEF Ears
        <3>2. Len(Append(ear[c].got, u)) = Len(ear[c].got) + 1
            BY <1>1, <1>3
        <3> QED
            BY <1>1, <1>4, <1>9, <3>1, <3>2
    <2> QED
        BY <1>8, <2>1, <2>2
<1>12. ASSUME NEW d \in Conns \ {c}
       PROVE  /\ Len(ear'[d].got) < Len(asked'[d]) => \E j \in jobs' : j.conn = d
              /\ inbox'[d] # <<>> => d \in backlog' \/ ServerEnd(d)'
              /\ peer'[d] # "up" => Idle(d)'
    BY <1>3, <1>7, <1>9 DEF NobodyGivenUp, ServerEnd, Idle
<1>13. ASSUME NEW j \in jobs', j.op = "send", j.st = "ok"
       PROVE  Len(asked'[j.conn]) = Len(ear'[j.conn].got)
    <2>1. j \in jobs /\ j.conn \in Conns \ {c}
        BY <1>1, <1>4, <1>10, <1>13 DEF Jobs
    <2> QED
        BY <1>3, <1>9, <1>13, <2>1 DEF NobodyGivenUp
<1> QED
    BY <1>3, <1>4, <1>7, <1>9, <1>10, <1>11, <1>12, <1>13 DEF NobodyGivenUp

LEMMA ClientIoGivesUp ==
    ASSUME Inv, alive, Orderly, Provided, NobodyGivenUp, NEW c \in Conns, ClientIoHandler(c)
    PROVE  NobodyGivenUp'
<1>1. PICK fd \in Fds, s \in Slots :
          /\ heap[s].conn = c
          /\ \/ ReadRequest(fd, s) \/ ReadBadEscape(fd, s)
             \/ ReadJunk(fd, s) \/ ReadEof(fd, s) \/ ReadError(fd, s)
    BY DEF ClientIoHandler
<1>2. CASE ReadRequest(fd, s)
    BY <1>1, <1>2, ReadRequestGivesUp
<1>3. CASE ReadJunk(fd, s) \/ ReadEof(fd, s) \/ ReadError(fd, s)
    <2>1. /\ clientList[fd] = s /\ CloseClient(fd, heap, fdt)
          /\ UNCHANGED <<jobs, backlog, peer, asked, ear>>
          /\ inbox' = inbox \/ inbox' = [inbox EXCEPT ![c] = Tail(inbox[c])]
        BY <1>1, <1>3 DEF ReadJunk, ReadEof, ReadError, Watched, kernelVars
    <2>2. /\ heap[s].live /\ heap[s].fd = fd /\ fdt[fd] = Sock(c) /\ s # NULL
        BY <1>1, <2>1, NullAssumption DEF Inv, TableExact, Holdings, Holds
    <2>3. inbox \in [Conns -> Seq(Msgs)] /\ \A d \in Conns : Waiting(d)
        BY DEF Inv, TypeOK, Turns
    <2>4. inbox'[c] = <<>> /\ \A d \in Conns \ {c} : inbox'[d] = inbox[d]
        <3>1. CASE ReadJunk(fd, s)
            BY <1>1, <2>3, <3>1 DEF ReadJunk, Waiting
        <3>2. CASE ReadEof(fd, s)
            BY <1>1, <3>2 DEF ReadEof, kernelVars
        <3>3. ~ReadError(fd, s)
            BY <1>1, <2>2 DEF ReadError
        <3> QED
            BY <1>3, <3>1, <3>2, <3>3
    <2>5. CASE \A j \in jobs : j.slot # s
        <3>1. jobs' = {j \in jobs : j.slot # s}
            BY <2>1, <2>5
        <3>2. /\ \A n \in Fds : fdt'[n] = fdt[n] \/ fdt'[n] = Free
              /\ \A d \in Conns : ServerEnd(d) /\ d # c => ServerEnd(d)'
            BY <1>1, <2>1, <2>2, <2>5, <3>1, CloseHoldings
        <3> QED
            BY <2>1, <2>4, <3>2 DEF NobodyGivenUp, Idle, Free
    <2>6. \A j \in jobs : j.slot # s
        <3>1. \A j \in jobs : j.conn # c
            <4>1. CASE ReadJunk(fd, s)
                BY <1>1, <2>3, <4>1 DEF ReadJunk, Waiting
            <4>2. CASE ReadEof(fd, s)
                BY <1>1, <4>2 DEF ReadEof, Inv, Turns, Served
            <4>3. ~ReadError(fd, s)
                BY <1>1, <2>2 DEF ReadError
            <4> QED
                BY <1>3, <4>1, <4>2, <4>3
        <3> QED
            BY <1>1, <3>1 DEF Inv, JobsMatch, Matches
    <2> QED
        BY <2>5, <2>6
<1>4. CASE ReadBadEscape(fd, s)
    BY <1>4 DEF ReadBadEscape, kernelVars, NobodyGivenUp, ServerEnd, Idle
<1> QED
    BY <1>1, <1>2, <1>3, <1>4

\* open() finds a number and the file, sendfile() the socket and its peer.
LEMMA EioThreadGivesUp ==
    ASSUME Inv, Orderly, Provided, NobodyGivenUp, NEW c \in Conns, EioThread(c)
    PROVE  NobodyGivenUp'
<1>1. PICK j \in jobs : j.conn = c /\ (EioOpen(j) \/ EioSend(j))
    BY DEF EioThread
<1>2. /\ fdt \in [Fds -> Files] /\ ear \in [Conns -> Ears] /\ asked \in [Conns -> Seq(Urls)]
      /\ ear[c].got \in Seq(Urls \cup {NULL}) /\ asked[c] \in Seq(Urls)
      /\ j \in Jobs /\ jobs \subseteq Jobs /\ Numbered(j) /\ Served(j) /\ Hearing(c)
      /\ (\A i \in jobs \ {j} : i.conn # c) /\ \A w \in Faults : w \notin Unruly
    BY <1>1 DEF Inv, TypeOK, Ears, Turns, JobsMatch, Provided
<1>3. CASE EioOpen(j)
    <2>1. LowestFree # {} /\ "vanish" \notin Unruly /\ j.op = "open"
        BY <1>2, <1>3, NumberLeft DEF EioOpen, Faults
    <2>2. PICK x \in LowestFree : /\ fdt' = [fdt EXCEPT ![x] = File(j.file)]
                                  /\ jobs' = Finished(j, "ok", x)
        BY <1>3, <2>1 DEF EioOpen
    <2>3. /\ x \in Fds /\ fdt[x] = Free /\ fdt'[x] = File(j.file)
          /\ \A n \in Fds \ {x} : fdt'[n] = fdt[n]
        BY <1>2, <2>2 DEF LowestFree
    <2>4. (\A n \in Fds : fdt'[n].k # "dir") /\ \A d \in Conns : ServerEnd(d) => ServerEnd(d)'
        BY <2>3 DEF NobodyGivenUp, File, ServerEnd, Sock, Free
    <2>5. PICK k : k = [j EXCEPT !.st = "ok", !.in = x]
        OBVIOUS
    <2>6. jobs' = (jobs \ {j}) \cup {k} /\ k.op = "open" /\ k.st = "ok" /\ k.conn = c
        BY <1>1, <1>2, <2>1, <2>2, <2>5 DEF Finished, Jobs
    <2>7. UNCHANGED <<backlog, peer, inbox, asked, ear>>
        BY <1>3 DEF EioOpen, kernelVars
    <2> QED
        BY <1>1, <2>4, <2>6, <2>7 DEF NobodyGivenUp, Idle
<1>4. CASE EioSend(j)
    <2>1. /\ j.op = "send" /\ j.st = "queued"
          /\ UNCHANGED <<fdt, backlog, peer, inbox, asked>>
        BY <1>4 DEF EioSend, kernelVars
    <2>2. /\ fdt[j.in] = File(j.file) /\ fdt[j.out] = Sock(c) /\ peer[c] = "up"
          /\ ear[c].wire = j.file /\ Len(asked[c]) = Len(ear[c].got) + 1 /\ j.file \in Urls
        <3>1. fdt[j.in] = File(j.file) /\ fdt[j.out] = Sock(c)
            BY <1>1, <2>1, InvOwned DEF NumbersOwned
        <3>2. ear[c].wire # NULL /\ peer[c] = "up" /\ j.file = asked[c][Len(asked[c])]
            BY <1>1, <1>2, <2>1 DEF Served
        <3> QED
            BY <1>2, <3>1, <3>2 DEF Hearing, Jobs
    <2>3. Reaches(j.out) /\ ~MayBreak(j.out) /\ fdt[j.in].k = "file" /\ fdt[j.out].of = c
        BY <2>2 DEF Reaches, MayBreak, Sock, File
    <2>4. Send(j.out, j.file, "body") /\ jobs' = Finished(j, "ok", j.in)
        BY <1>2, <1>4, <2>2, <2>3 DEF EioSend, Faults
    <2>5. ear' = [ear EXCEPT ![c] = [got |-> Append(ear[c].got, j.file), wire |-> NULL]]
        BY <2>2, <2>3, <2>4, HeardInTurn DEF Send
    <2>6. /\ Len(ear'[c].got) = Len(asked[c]) /\ \A d \in Conns \ {c} : ear'[d] = ear[d]
        BY <1>2, <2>2, <2>5
    <2>7. PICK k : k = [j EXCEPT !.st = "ok", !.in = j.in]
        OBVIOUS
    <2>8. jobs' = (jobs \ {j}) \cup {k} /\ k.st = "ok" /\ k.conn = c
        BY <1>1, <1>2, <2>4, <2>7 DEF Finished, Jobs
    <2>9. ASSUME NEW i \in jobs'
          PROVE  /\ i.st # "err"
                 /\ i.op = "send" /\ i.st = "ok" => Len(asked'[i.conn]) = Len(ear'[i.conn].got)
        <3>1. CASE i = k
            BY <2>1, <2>6, <2>8, <3>1
        <3>2. CASE i \in jobs \ {j}
            <4>1. i.conn \in Conns \ {c}
                BY <1>2, <3>2 DEF Jobs
            <4> QED
                BY <2>1, <2>6, <3>2, <4>1 DEF NobodyGivenUp
        <3> QED
            BY <2>8, <3>1, <3>2
    <2>10. ASSUME NEW d \in Conns
           PROVE  /\ Len(ear'[d].got) < Len(asked'[d]) => \E i \in jobs' : i.conn = d
                  /\ inbox'[d] # <<>> => d \in backlog' \/ ServerEnd(d)'
                  /\ peer'[d] # "up" => Idle(d)'
        <3>1. CASE d = c
            BY <2>1, <2>2, <2>8, <3>1 DEF NobodyGivenUp, ServerEnd
        <3>2. CASE d # c
            <4>1. \A i \in jobs : i.conn = d => i \in jobs'
                BY <1>1, <2>8, <3>2
            <4> QED
                BY <2>1, <2>6, <3>2, <4>1 DEF NobodyGivenUp, ServerEnd, Idle
        <3> QED
            BY <3>1, <3>2
    <2> QED
        BY <2>1, <2>9, <2>10 DEF NobodyGivenUp
<1> QED
    BY <1>1, <1>3, <1>4

LEMMA CallbackGivesUp ==
    ASSUME Inv, Orderly, Provided, NobodyGivenUp, NEW c \in Conns, Callback(c)
    PROVE  NobodyGivenUp'
<1>1. PICK j \in jobs : FileOpenFailed(j) \/ FileOpenDone(j) \/ FileSendFailed(j) \/ FileSendDone(j)
    BY DEF Callback
<1>2. /\ (\A i \in jobs : i.conn \in Conns) /\ \A i \in jobs \ {j} : i.conn # j.conn
      /\ ear \in [Conns -> Ears] /\ fdt \in [Fds -> Files] /\ Numbered(j)
      /\ \A d \in Conns : Len(ear[d].got) \in Nat /\ Len(asked[d]) \in Nat
    BY DEF Inv, TypeOK, Jobs, JobsMatch, Ears
<1>3. ~FileOpenFailed(j) /\ ~FileSendFailed(j)
    BY DEF FileOpenFailed, FileSendFailed, NobodyGivenUp
<1>4. CASE FileOpenDone(j)
    <2>1. /\ HeadSent(j) /\ Served(j)
        BY <1>4, FileOpenDoneOrder DEF Inv, Turns
    <2>2. /\ ear'[j.conn].got = ear[j.conn].got
          /\ \A d \in Conns \ {j.conn} : ear'[d] = ear[d]
          /\ \A i \in jobs : i = j \/ i \in jobs'
          /\ \A i \in jobs' : i \in jobs \/ (i.op = "send" /\ i.st = "queued")
          /\ \E i \in jobs' : i.op = "send" /\ i.conn = j.conn
          /\ UNCHANGED <<fdt, backlog, peer, inbox, asked>> /\ peer[j.conn] = "up"
        BY <2>1 DEF HeadSent, Provided, Faults, Served
    <2>3. \A d \in Conns : ear'[d].got = ear[d].got
        BY <2>2
    <2>4. ASSUME NEW d \in Conns
          PROVE  Len(ear'[d].got) < Len(asked'[d]) => \E i \in jobs' : i.conn = d
        BY <2>2, <2>3 DEF NobodyGivenUp
    <2>5. ASSUME NEW d \in Conns, peer'[d] # "up"
          PROVE  Idle(d)'
        <3>1. d # j.conn /\ peer[d] # "up" /\ ear'[d] = ear[d]
            BY <2>2, <2>5
        <3> QED
            BY <2>2, <3>1 DEF NobodyGivenUp, Idle
    <2>6. ASSUME NEW i \in jobs'
          PROVE  /\ i.st # "err"
                 /\ i.op = "send" /\ i.st = "ok" => Len(asked'[i.conn]) = Len(ear'[i.conn].got)
        BY <1>2, <2>2, <2>3 DEF NobodyGivenUp
    <2> QED
        BY <2>2, <2>4, <2>5, <2>6 DEF NobodyGivenUp, ServerEnd
<1>5. CASE FileSendDone(j)
    <2>1. /\ j.op = "send" /\ j.st = "ok" /\ jobs' = jobs \ {j}
          /\ UNCHANGED <<backlog, peer, inbox, asked, ear>>
          /\ \A n \in Fds : fdt'[n] = fdt[n] \/ fdt'[n] = Free
        BY <1>5 DEF FileSendDone, kernelVars, Closed
    <2>2. \A d \in Conns : ServerEnd(d) => ServerEnd(d)'
        BY <1>5, FileSendDoneOrder
    <2>3. Len(asked[j.conn]) = Len(ear[j.conn].got)
        BY <2>1 DEF NobodyGivenUp
    <2>4. ASSUME NEW d \in Conns, Len(ear[d].got) < Len(asked[d])
          PROVE  \E i \in jobs' : i.conn = d
        BY <1>2, <2>1, <2>3, <2>4 DEF NobodyGivenUp
    <2> QED
        BY <2>1, <2>2, <2>4 DEF NobodyGivenUp, Idle, Free
<1> QED
    BY <1>1, <1>3, <1>4, <1>5

\* A peer that comes back had all its answers.
LEMMA ConnectService ==
    ASSUME Inv, NobodyGivenUp, NEW c \in Conns, PeerConnect(c)
    PROVE  Service!Renew(c)
<1>1. /\ inbox \in [Conns -> Seq(Msgs)] /\ asked \in [Conns -> Seq(Urls)]
      /\ ear \in [Conns -> Ears] /\ Hearing(c)
    BY DEF Inv, TypeOK, Turns
<1>2. /\ inbox'[c] = <<>> /\ asked'[c] = <<>> /\ ear'[c].got = <<>> /\ peer[c] # "up"
      /\ \A d \in Conns \ {c} : inbox'[d] = inbox[d] /\ asked'[d] = asked[d] /\ ear'[d] = ear[d]
    BY <1>1 DEF PeerConnect, Silence
<1>3. ear[c].got = Requests(c)
    <2>1. Idle(c)
        BY <1>2 DEF NobodyGivenUp
    <2>2. Requests(c) = asked[c] /\ asked[c] \in Seq(Urls) /\ ear[c].got \in Seq(Urls \cup {NULL})
        BY <2>1, RequestsRead DEF Idle
    <2>3. Len(ear[c].got) = Len(asked[c])
        BY <2>1 DEF Idle
    <2>4. \A i \in 1 .. Len(ear[c].got) : ear[c].got[i] = asked[c][i]
        BY <1>1 DEF Hearing
    <2> QED
        BY <2>2, <2>3, <2>4
<1>4. Requests(c)' = <<>>
    BY <1>2 DEF Requests, Unread
<1>5. \A d \in Conns \ {c} : Requests(d)' = Requests(d) /\ ear'[d].got = ear[d].got
    BY <1>2 DEF Requests, Unread
<1> QED
    BY <1>2, <1>3, <1>4, <1>5 DEF Service!Renew, Requests

\* With peers that take turns and two descriptors for each of them, and when no
\* file is gone and libeio and the sockets take what they are given, every step
\* of the worker is one the service may take: no connection ends with a request
\* open.
THEOREM ServiceKept == ASSUME Orderly, Provided PROVE Spec => ImplementsService
<1>1. Init => Service!ServiceInit /\ NobodyGivenUp
    BY DEF Init, Service!ServiceInit, Unread, Silence, NobodyGivenUp, Idle, Free
<1>2. ASSUME Inv, NobodyGivenUp, [Next]_vars
      PROVE  NobodyGivenUp' /\ [Service!ServiceNext]_Service!serviceVars
    <2>1. CASE UNCHANGED vars
        BY <1>2, <2>1, StutterStep DEF vars, Requests, Unread, NobodyGivenUp, Idle, ServerEnd
    <2>2. CASE Next
        <3>1. alive
            BY <2>2 DEF Next
        <3>2. PICK c \in Conns : PeerMove(c) \/ Worker(c)
            BY <2>2 DEF Next
        <3>3. NobodyGivenUp'
            BY <1>2, <3>1, <3>2, PeerMoveGivesUp, AcceptGivesUp, ClientIoGivesUp,
               EioThreadGivesUp, CallbackGivesUp DEF Worker
        <3>4. AcceptHandler(c) => UNCHANGED Service!serviceVars
            BY StutterStep DEF AcceptHandler, AcceptTooBig, AcceptOccupied, AcceptInstall,
               Requests, Unread
        <3>5. PeerMove(c) => Service!Ask(c) \/ Service!Renew(c) \/ UNCHANGED Service!serviceVars
            BY <1>2, PeerMoveService, ConnectService
        <3>6. Worker(c) => Service!Reply(c) \/ UNCHANGED Service!serviceVars
            BY <1>2, <3>1, <3>4, ClientIoService, EioThreadService, CallbackService DEF Worker
        <3> QED
            BY <3>2, <3>3, <3>5, <3>6 DEF Service!ServiceNext
    <2> QED
        BY <1>2, <2>1, <2>2
<1> QED
    BY <1>1, <1>2, InvCorrect, PTL DEF Spec, ImplementsService, Service!ServiceSpec
==============================================================================
