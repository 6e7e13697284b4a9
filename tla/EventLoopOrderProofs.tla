------------------------ MODULE EventLoopOrderProofs ------------------------
(***************************************************************************)
(* What holds of the worker as long as the peers take turns with it: they  *)
(* wait for the answer and its callback before they move on, and ask for   *)
(* no upgrade.  Everything that may go wrong around the worker still may.  *)
(***************************************************************************)
EXTENDS EventLoopProofs

Orderly == Unruly \cap PeerDepartures = {} /\ FdLimit <= MAX_ALLOWED_CLIENT

-----------------------------------------------------------------------------
(* The inductive invariant.  NumbersOwned does not say which ClientInfo a  *)
(* number belongs to, nor that it belongs to no other; Holdings does.      *)

OpenDone(j) == j.op = "open" /\ j.st = "ok"

\* What the live ClientInfos hold is open on what they hold it for, ...
Holds(s) ==
    /\ heap[s].conn \in Conns /\ heap[s].conn \notin backlog
    /\ fdt[heap[s].fd] = Sock(heap[s].conn)
    /\ heap[s].fileFd # NoFd => fdt[heap[s].fileFd] = File(heap[s].file)
\* ... no two hold the same, ...
Apart(s, r) ==
    /\ heap[s].conn = heap[r].conn => s = r
    /\ heap[s].fileFd = heap[r].fileFd => heap[s].fileFd = NoFd \/ s = r
\* ... and nothing else is open.
Held(fd) ==
    /\ fdt[fd].k = "file" => \/ \E j \in jobs : OpenDone(j) /\ j.in = fd
                             \/ \E s \in Slots : heap[s].live /\ heap[s].fileFd = fd
    /\ fdt[fd].k = "sock" => clientList[fd] # NULL

Holdings ==
    /\ \A s \in Slots : heap[s].live => Holds(s)
    /\ \A s, r \in Slots : heap[s].live /\ heap[r].live => Apart(s, r)
    /\ \A fd \in Fds : Held(fd)

\* A job is that of the ClientInfo it points to, and works on its numbers.
Matches(j) ==
    /\ heap[j.slot].live /\ heap[j.slot].conn = j.conn /\ heap[j.slot].file = j.file
    /\ j.op = "open" => heap[j.slot].fileFd = NoFd
    /\ j.op = "send" => j.in = heap[j.slot].fileFd /\ j.out = heap[j.slot].fd
    /\ OpenDone(j) => /\ fdt[j.in] = File(j.file)
                      /\ \A s \in Slots : heap[s].live => heap[s].fileFd # j.in
JobsMatch ==
    /\ \A j \in jobs : Matches(j)
    /\ \A i, j \in jobs : /\ i.conn = j.conn => i = j
                          /\ OpenDone(i) /\ OpenDone(j) /\ i.in = j.in => i = j

\* A peer has one request under way, and the worker is in one place with it:
\* not read yet, answered in part, or in a job of libeio.
Waiting(c) ==
    inbox[c] # <<>> =>
        /\ Tail(inbox[c]) = <<>> /\ Head(inbox[c]).k # "upgrade"
        /\ Len(asked[c]) = Len(ear[c].got) /\ ear[c].wire = NULL
        /\ \A j \in jobs : j.conn # c
        /\ peer[c] # "up" => c \notin backlog /\ ~ServerEnd(c)
Hearing(c) ==
    /\ Len(ear[c].got) <= Len(asked[c])
    /\ \A i \in 1 .. Len(ear[c].got) : ear[c].got[i] = asked[c][i]
    /\ ear[c].wire # NULL => /\ Len(asked[c]) = Len(ear[c].got) + 1
                             /\ ear[c].wire = asked[c][Len(asked[c])]
Served(j) ==
    /\ peer[j.conn] = "up"
    /\ Len(asked[j.conn]) # 0 /\ j.file = asked[j.conn][Len(asked[j.conn])]
    /\ j.op = "open" => /\ ear[j.conn].wire = NULL
                        /\ Len(asked[j.conn]) = Len(ear[j.conn].got) + 1
    /\ j.op = "send" /\ j.st = "queued" => ear[j.conn].wire # NULL
\* A file left open is one whose peer will not ask again.
LeftOpen(s) ==
    heap[s].live /\ heap[s].fileFd # NoFd =>
        ear[heap[s].conn].wire # NULL \/ \E j \in jobs : j.slot = s

Turns ==
    /\ \A c \in Conns : Waiting(c) /\ Hearing(c)
    /\ \A j \in jobs : Served(j)
    /\ \A s \in Slots : LeftOpen(s)

Inv == TypeOK /\ TableExact /\ Holdings /\ JobsMatch /\ Turns

\* A peer that takes turns has left before nothing it is to be sent: a handler
\* of connection c ends the worker for one of two reasons only.
Excused(c) ==
    /\ ServerEnd(c) /\ inbox[c] # <<>>
    /\ LET u == Head(inbox[c]).url IN
        \/ u \in BadEscapes
        \/ u \in Urls /\ Reply(u) = "index" /\ LowestFree = {}

LEMMA OrderlyTurns == Orderly => "pipelining" \notin Unruly
BY DEF Orderly, PeerDepartures

-----------------------------------------------------------------------------
(* What the invariant says.                                                *)

LEMMA InvOwned == Inv => NumbersOwned
<1> SUFFICES ASSUME Inv PROVE NumbersOwned
    OBVIOUS
<1>1. /\ clientList \in [Fds -> Slots \cup {NULL}] /\ heap \in [Slots -> ClientInfos]
      /\ jobs \subseteq Jobs /\ \A j \in jobs : Numbered(j)
    BY DEF Inv, TypeOK
<1>2. ASSUME NEW fd \in Fds, clientList[fd] # NULL
      PROVE  fdt[fd] = Sock(heap[clientList[fd]].conn)
    BY <1>1, <1>2 DEF Inv, TableExact, Holdings, Holds
<1>3. ASSUME NEW j \in jobs
      PROVE  /\ j.op = "open" /\ j.st = "ok" => fdt[j.in] = File(j.file)
             /\ j.op = "send" => fdt[j.in] = File(j.file) /\ fdt[j.out] = Sock(j.conn)
    <2>1. j.slot \in Slots /\ heap[j.slot].live /\ Holds(j.slot) /\ Matches(j) /\ Numbered(j)
        BY <1>1 DEF Inv, JobsMatch, Matches, Holdings, Jobs
    <2>2. j.op = "send" => j.in # NoFd
        BY <2>1 DEF Numbered, Fds, NoFd
    <2> QED
        BY <2>1, <2>2 DEF Matches, Holds, OpenDone
<1> QED
    BY <1>2, <1>3 DEF Inv, Holdings, Held, OpenDone, NumbersOwned

-----------------------------------------------------------------------------
(* close_client on a client that libeio has nothing open for.              *)

LEMMA CloseHoldings ==
    ASSUME Inv, NEW s \in Slots, heap[s].live, CloseClient(heap[s].fd, heap, fdt),
           \A j \in jobs : j.slot = s => ~OpenDone(j),
           jobs' = {j \in jobs : j.slot # s}, backlog' = backlog
    PROVE  /\ Holdings' /\ JobsMatch'
           /\ \A r \in Slots : /\ heap'[r].live => r # s /\ heap'[r] = heap[r]
                               /\ heap'[r].conn = heap[r].conn
           /\ \A n \in Fds : fdt'[n] = fdt[n] \/ fdt'[n] = Free
           /\ \A d \in Conns : ServerEnd(d) /\ d # heap[s].conn => ServerEnd(d)'
<1> DEFINE F == heap[s].fd
           G == heap[s].fileFd
<1>1. /\ heap \in [Slots -> ClientInfos] /\ clientList \in [Fds -> Slots \cup {NULL}]
      /\ fdt \in [Fds -> Files] /\ jobs \subseteq Jobs /\ NULL \notin Slots
      /\ \A j \in jobs : Numbered(j) /\ j.slot \in Slots
    BY NullAssumption DEF Inv, TypeOK, Jobs
<1>2. clientList[F] = s /\ F \in Fds
    BY <1>1 DEF Inv, TableExact, ClientInfos
<1>3. /\ fdt' = [n \in Fds |-> IF n = F \/ n = G THEN Free ELSE fdt[n]]
      /\ heap' = [heap EXCEPT ![s].live = FALSE]
      /\ clientList' = [clientList EXCEPT ![F] = NULL]
    BY <1>1, <1>2 DEF CloseClient, Closed
<1>4. \A r \in Slots : /\ heap'[r].live => r # s /\ heap[r].live /\ heap'[r] = heap[r]
                       /\ r # s => heap'[r] = heap[r]
                       /\ heap'[r].conn = heap[r].conn
    BY <1>1, <1>3 DEF ClientInfos
<1>5. Holds(s) /\ fdt[F].k = "sock" /\ (G # NoFd => fdt[G].k = "file")
    BY DEF Inv, Holdings, Holds, Sock, File
<1>6. ASSUME NEW r \in Slots, heap'[r].live
      PROVE  Holds(r)'
    <2>1. r # s /\ heap[r].live /\ heap'[r] = heap[r] /\ Holds(r) /\ Apart(r, s)
        BY <1>4, <1>6 DEF Inv, Holdings
    <2>2. heap[r].fd \in Fds /\ heap[r].fileFd \in Fds \cup {NoFd}
        BY <1>1 DEF ClientInfos
    <2>3. fdt'[heap[r].fd] = fdt[heap[r].fd]
        <3>1. heap[r].fd # F
            BY <1>2, <2>1 DEF Inv, TableExact
        <3>2. heap[r].fd # G
            BY <1>5, <2>1, <2>2 DEF Holds, Sock, Fds, NoFd
        <3> QED
            BY <1>3, <2>2, <3>1, <3>2
    <2>4. heap[r].fileFd # NoFd => fdt'[heap[r].fileFd] = fdt[heap[r].fileFd]
        BY <1>3, <1>5, <2>1, <2>2 DEF Holds, File, Apart
    <2> QED
        BY <2>1, <2>3, <2>4 DEF Holds, Sock, File
<1>7. ASSUME NEW fd \in Fds
      PROVE  Held(fd)'
    <2>1. CASE fdt'[fd] = Free
        BY <2>1 DEF Held, Free
    <2>2. CASE fdt'[fd] = fdt[fd] /\ fd # F /\ fd # G
        <3>1. fdt[fd].k = "sock" => clientList'[fd] # NULL
            BY <1>1, <1>3, <2>2 DEF Inv, Holdings, Held
        <3>2. ASSUME NEW j \in jobs, OpenDone(j), j.in = fd
              PROVE  \E i \in jobs' : OpenDone(i) /\ i.in = fd
            BY <3>2
        <3>3. ASSUME NEW r \in Slots, heap[r].live, heap[r].fileFd = fd
              PROVE  heap'[r].live /\ heap'[r].fileFd = fd
            BY <1>4, <2>2, <3>3
        <3>4. Held(fd)
            BY DEF Inv, Holdings
        <3> QED
            BY <2>2, <3>1, <3>2, <3>3, <3>4 DEF Held, OpenDone
    <2> QED
        BY <1>3, <2>1, <2>2
<1>8. ASSUME NEW j \in jobs'
      PROVE  Matches(j)'
    <2>1. j \in jobs /\ j.slot # s /\ Matches(j) /\ heap'[j.slot] = heap[j.slot]
        BY <1>1, <1>4 DEF Inv, JobsMatch
    <2>2. OpenDone(j) => fdt'[j.in] = fdt[j.in]
        <3>1. OpenDone(j) => j.in \in Fds /\ fdt[j.in].k = "file" /\ j.in # G
            BY <1>1, <2>1 DEF Matches, OpenDone, Numbered, File
        <3> QED
            BY <1>3, <1>5, <3>1
    <2> QED
        BY <1>4, <2>1, <2>2 DEF Matches, OpenDone, File
<1>9. \A r, q \in Slots : heap'[r].live /\ heap'[q].live => Apart(r, q)'
    BY <1>4 DEF Inv, Holdings, Apart
<1>10. JobsMatch'
    BY <1>8 DEF Inv, JobsMatch, OpenDone
<1>11. ASSUME NEW d \in Conns, ServerEnd(d), d # heap[s].conn
       PROVE  ServerEnd(d)'
    <2>1. PICK n \in Fds : fdt[n] = Sock(d)
        BY <1>11 DEF ServerEnd
    <2>2. n # F /\ n # G
        BY <1>5, <1>11, <2>1 DEF Holds, Sock, Fds, NoFd
    <2> QED
        BY <1>3, <2>1, <2>2 DEF ServerEnd, Sock
<1> QED
    BY <1>3, <1>4, <1>6, <1>7, <1>9, <1>10, <1>11 DEF Holdings

LEMMA CloseTurns ==
    ASSUME Inv, NEW s \in Slots, heap[s].live, CloseClient(heap[s].fd, heap, fdt),
           \A j \in jobs : j.slot = s => ~OpenDone(j),
           jobs' = {j \in jobs : j.slot # s}, UNCHANGED <<backlog, peer, asked, ear>>,
           \A c \in Conns : inbox'[c] = inbox[c] \/ inbox'[c] = <<>>
    PROVE  Turns'
<1>1. /\ \A r \in Slots : heap'[r].live => r # s /\ heap'[r] = heap[r]
      /\ \A n \in Fds : fdt'[n] = fdt[n] \/ fdt'[n] = Free
    BY CloseHoldings
<1>2. ASSUME NEW c \in Conns
      PROVE  Waiting(c)' /\ Hearing(c)'
    <2>1. Waiting(c) /\ Hearing(c)
        BY DEF Inv, Turns
    <2>2. ServerEnd(c)' => ServerEnd(c)
        BY <1>1 DEF ServerEnd, Sock, Free
    <2> QED
        BY <2>1, <2>2 DEF Waiting, Hearing
<1>3. \A j \in jobs' : Served(j)'
    BY DEF Inv, Turns, Served
<1>4. \A r \in Slots : LeftOpen(r)'
    BY <1>1 DEF Inv, Turns, LeftOpen
<1> QED
    BY <1>2, <1>3, <1>4 DEF Turns

\* The jobs left after a callback are those of the other clients.
LEMMA OthersJobs ==
    ASSUME Inv, NEW j \in jobs
    PROVE  /\ jobs \ {j} = {i \in jobs : i.slot # j.slot}
           /\ j.slot \in Slots /\ heap[j.slot].live /\ Matches(j) /\ Holds(j.slot)
           /\ Served(j) /\ Numbered(j)
BY DEF Inv, JobsMatch, Matches, Holdings, Turns, TypeOK, Jobs

-----------------------------------------------------------------------------
(* One lemma for each actor.                                               *)

\* A worker's socket and a live ClientInfo come together.
LEMMA ServerEndLive ==
    ASSUME Inv, NEW c \in Conns
    PROVE  ServerEnd(c) <=> \E s \in Slots : heap[s].live /\ heap[s].conn = c
<1>1. /\ heap \in [Slots -> ClientInfos] /\ clientList \in [Fds -> Slots \cup {NULL}]
    BY DEF Inv, TypeOK
<1>2. ASSUME NEW fd \in Fds, fdt[fd] = Sock(c)
      PROVE  \E s \in Slots : heap[s].live /\ heap[s].conn = c
    <2>1. clientList[fd] # NULL
        BY <1>2 DEF Inv, Holdings, Held, Sock
    <2>2. /\ clientList[fd] \in Slots /\ heap[clientList[fd]].live
          /\ heap[clientList[fd]].fd = fd
        BY <1>1, <2>1 DEF Inv, TableExact
    <2> QED
        <3>1. fdt[fd] = Sock(heap[clientList[fd]].conn)
            BY <2>2 DEF Inv, Holdings, Holds
        <3> QED
            BY <1>2, <2>2, <3>1 DEF Sock
<1>3. ASSUME NEW s \in Slots, heap[s].live, heap[s].conn = c
      PROVE  ServerEnd(c)
    BY <1>1, <1>3 DEF Inv, Holdings, Holds, ServerEnd, ClientInfos
<1> QED
    BY <1>2, <1>3 DEF ServerEnd

LEMMA PeerMoveOrder ==
    ASSUME Inv, Orderly, NEW c \in Conns, PeerMove(c)
    PROVE  Holdings' /\ JobsMatch' /\ Turns'
<1>1. /\ \A w \in PeerDepartures : w \notin Unruly
      /\ heap \in [Slots -> ClientInfos]
      /\ inbox \in [Conns -> Seq(Msgs)] /\ asked \in [Conns -> Seq(Urls)]
      /\ ear \in [Conns -> Ears] /\ peer \in [Conns -> {"away", "up", "closed"}]
    BY DEF Inv, TypeOK, Orderly
<1>2. CASE PeerConnect(c)
    <2>1. /\ UNCHANGED <<clientList, heap, fdt, jobs>> /\ backlog' = backlog \cup {c}
          /\ \A s \in Slots : heap[s].live => heap[s].conn # c
          /\ \A j \in jobs : j.conn # c
          /\ peer'[c] = "up" /\ inbox'[c] = <<>> /\ asked'[c] = <<>> /\ ear'[c] = Silence
          /\ \A d \in Conns \ {c} : /\ peer'[d] = peer[d] /\ inbox'[d] = inbox[d]
                                    /\ asked'[d] = asked[d] /\ ear'[d] = ear[d]
        BY <1>1, <1>2 DEF PeerConnect, Forgotten
    <2>2. Holdings' /\ JobsMatch'
        BY <2>1 DEF Inv, Holdings, Holds, Apart, Held, JobsMatch, Matches, OpenDone
    <2>3. ASSUME NEW d \in Conns
          PROVE  Waiting(d)' /\ Hearing(d)'
        <3>1. CASE d = c
            BY <2>1, <3>1 DEF Waiting, Hearing, Silence
        <3>2. CASE d # c
            <4>1. Waiting(d) /\ Hearing(d)
                BY DEF Inv, Turns
            <4>2. /\ peer'[d] = peer[d] /\ inbox'[d] = inbox[d]
                  /\ asked'[d] = asked[d] /\ ear'[d] = ear[d]
                BY <2>1, <3>2
            <4>3. ServerEnd(d)' = ServerEnd(d) /\ (d \in backlog' <=> d \in backlog)
                BY <2>1, <3>2 DEF ServerEnd
            <4>4. Waiting(d)'
                BY <2>1, <4>1, <4>2, <4>3 DEF Waiting
            <4>5. Hearing(d)'
                BY <4>1, <4>2 DEF Hearing
            <4> QED
                BY <4>4, <4>5
        <3> QED
            BY <3>1, <3>2
    <2>4. ASSUME NEW j \in jobs'
          PROVE  Served(j)'
        <3>1. j \in jobs /\ j.conn \in Conns \ {c}
            BY <2>1 DEF Inv, TypeOK, Jobs
        <3>2. Served(j)
            BY <3>1 DEF Inv, Turns
        <3>3. /\ peer'[j.conn] = peer[j.conn] /\ asked'[j.conn] = asked[j.conn]
              /\ ear'[j.conn] = ear[j.conn]
            BY <2>1, <3>1
        <3> QED
            BY <3>2, <3>3 DEF Served
    <2>5. \A s \in Slots : LeftOpen(s)'
        BY <2>1 DEF Inv, Turns, LeftOpen, Holdings, Holds
    <2> QED
        BY <2>2, <2>3, <2>4, <2>5 DEF Turns
<1>3. ASSUME NEW m \in Msgs, PeerSend(c, m)
      PROVE  Holdings' /\ JobsMatch' /\ Turns'
    <2>1. /\ peer[c] = "up" /\ Settled(c) /\ m.k # "upgrade"
          /\ inbox' = [inbox EXCEPT ![c] = Append(inbox[c], m)]
          /\ UNCHANGED <<clientList, heap, fdt, jobs, backlog, peer, asked, ear>>
        BY <1>1, <1>3 DEF PeerSend, PeerDepartures
    <2>2. Holdings' /\ JobsMatch'
        BY <2>1 DEF Inv, Holdings, Holds, Apart, Held, JobsMatch, Matches, OpenDone
    <2>3. /\ inbox[c] = <<>> /\ ear[c].wire = NULL /\ Len(ear[c].got) = Len(asked[c])
          /\ \A j \in jobs : j.conn # c
        BY <1>1, <2>1 DEF Settled, Idle, PeerDepartures
    <2>4. inbox'[c] = <<m>> /\ \A d \in Conns \ {c} : inbox'[d] = inbox[d]
        BY <1>1, <2>1, <2>3
    <2>5. ASSUME NEW d \in Conns
          PROVE  Waiting(d)' /\ Hearing(d)'
        <3>1. CASE d = c
            <4>1. Tail(<<m>>) = <<>> /\ Head(<<m>>) = m
                OBVIOUS
            <4> QED
                BY <2>1, <2>3, <2>4, <3>1, <4>1 DEF Waiting, Inv, Turns, Hearing
        <3>2. CASE d # c
            BY <2>1, <2>4, <3>2 DEF Inv, Turns, Waiting, Hearing, ServerEnd
        <3> QED
            BY <3>1, <3>2
    <2>6. (\A j \in jobs' : Served(j)') /\ \A s \in Slots : LeftOpen(s)'
        BY <2>1 DEF Inv, Turns, Served, LeftOpen
    <2> QED
        BY <2>2, <2>5, <2>6 DEF Turns
<1>4. CASE PeerClose(c)
    <2>1. /\ Settled(c) \/ Hopeless(c)
          /\ peer' = [peer EXCEPT ![c] = "closed"]
          /\ UNCHANGED <<clientList, heap, fdt, jobs, backlog, inbox, asked, ear>>
        BY <1>1, <1>4 DEF PeerClose, PeerDepartures
    <2>2. Holdings' /\ JobsMatch'
        BY <2>1 DEF Inv, Holdings, Holds, Apart, Held, JobsMatch, Matches, OpenDone
    <2>3. /\ \A j \in jobs : j.conn # c
          /\ inbox[c] = <<>> \/ (c \notin backlog /\ ~ServerEnd(c))
        BY <1>1, <2>1 DEF Settled, Idle, Hopeless, PeerDepartures
    <2>4. \A d \in Conns \ {c} : peer'[d] = peer[d]
        BY <1>1, <2>1
    <2>5. ASSUME NEW d \in Conns
          PROVE  Waiting(d)' /\ Hearing(d)'
        <3>1. Waiting(d) /\ Hearing(d)
            BY DEF Inv, Turns
        <3> QED
            BY <2>1, <2>3, <2>4, <3>1 DEF Waiting, Hearing, ServerEnd
    <2>6. \A j \in jobs' : Served(j)'
        BY <2>1, <2>3, <2>4 DEF Inv, Turns, Served, TypeOK, Jobs
    <2>7. \A s \in Slots : LeftOpen(s)'
        BY <2>1 DEF Inv, Turns, LeftOpen
    <2> QED
        BY <2>2, <2>5, <2>6, <2>7 DEF Turns
<1> QED
    BY <1>2, <1>3, <1>4 DEF PeerMove

\* accept_handler never meets a taken entry: a number with one is open.
LEMMA AcceptOrder ==
    ASSUME Inv, Orderly, NEW c \in Conns, AcceptHandler(c)
    PROVE  /\ Holdings' /\ JobsMatch' /\ Turns'
           /\ alive' = TRUE /\ \A n \in Fds : fdt'[n] = fdt[n] \/ fdt[n] = Free
<1>1. /\ heap \in [Slots -> ClientInfos] /\ clientList \in [Fds -> Slots \cup {NULL}]
      /\ fdt \in [Fds -> Files] /\ NULL \notin Slots
      /\ \A s \in Slots : heap[s].fd \in Fds /\ heap[s].fileFd \in Fds \cup {NoFd}
      /\ \A j \in jobs : j.slot \in Slots /\ Numbered(j)
    BY NullAssumption DEF Inv, TypeOK, Jobs, ClientInfos
<1>2. ASSUME NEW x \in LowestFree
      PROVE  x \in Fds /\ fdt[x] = Free /\ x < MAX_ALLOWED_CLIENT /\ clientList[x] = NULL
    <2>1. x \in Fds /\ fdt[x] = Free
        BY DEF LowestFree
    <2>2. x < MAX_ALLOWED_CLIENT
        BY <2>1, NumberAssumption DEF Orderly, Fds
    <2>3. clientList[x] # NULL => fdt[x].k = "sock"
        <3> SUFFICES ASSUME clientList[x] # NULL PROVE fdt[x].k = "sock"
            OBVIOUS
        <3>1. /\ clientList[x] \in Slots /\ heap[clientList[x]].live
              /\ heap[clientList[x]].fd = x
            BY <1>1, <2>1 DEF Inv, TableExact
        <3>2. Holds(clientList[x])
            BY <3>1 DEF Inv, Holdings
        <3> QED
            BY <3>1, <3>2 DEF Holds, Sock
    <2> QED
        BY <2>1, <2>2, <2>3 DEF Free
<1>3. ~AcceptTooBig(c) /\ ~AcceptOccupied(c)
    BY <1>2, NumberAssumption DEF AcceptTooBig, AcceptOccupied, Fds
<1>4. PICK x \in LowestFree, s \in Slots :
          /\ ~heap[s].live
          /\ fdt' = [fdt EXCEPT ![x] = Sock(c)]
          /\ clientList' = [clientList EXCEPT ![x] = s]
          /\ heap' = [heap EXCEPT ![s] = [live |-> TRUE, conn |-> c, fd |-> x,
                                          file |-> NULL, fileFd |-> NoFd]]
          /\ MaySurvive(x = MAX_ALLOWED_CLIENT)
    BY <1>3 DEF AcceptHandler, AcceptInstall
<1>5. c \in backlog /\ backlog' = backlog \ {c} /\ UNCHANGED <<jobs, peer, inbox, asked, ear>>
    BY <1>3 DEF AcceptHandler, AcceptInstall
<1>6. /\ heap'[s].live /\ heap'[s].conn = c /\ heap'[s].fd = x /\ heap'[s].fileFd = NoFd
      /\ \A r \in Slots \ {s} : heap'[r] = heap[r]
      /\ \A n \in Fds \ {x} : fdt'[n] = fdt[n] /\ clientList'[n] = clientList[n]
      /\ fdt'[x] = Sock(c) /\ clientList'[x] = s /\ fdt[x] = Free /\ x \in Fds
    BY <1>1, <1>2, <1>4
<1>7. \A r \in Slots : heap[r].live => /\ heap[r].conn # c /\ r # s
                                       /\ heap[r].fd # x /\ heap[r].fileFd # x
    <2> SUFFICES ASSUME NEW r \in Slots, heap[r].live
                 PROVE  heap[r].conn # c /\ r # s /\ heap[r].fd # x /\ heap[r].fileFd # x
        OBVIOUS
    <2>1. Holds(r)
        BY DEF Inv, Holdings
    <2> QED
        BY <1>4, <1>5, <1>6, <2>1 DEF Holds, Sock, File, Free, NoFd, Fds
<1>8. ASSUME NEW r \in Slots, heap'[r].live
      PROVE  Holds(r)'
    <2>1. CASE r = s
        BY <1>5, <1>6, <2>1 DEF Holds, Sock
    <2>2. CASE r # s
        <3>1. heap[r].live /\ heap'[r] = heap[r] /\ Holds(r)
            BY <1>6, <1>8, <2>2 DEF Inv, Holdings
        <3> QED
            BY <1>1, <1>5, <1>6, <1>7, <3>1 DEF Holds, Sock, File
    <2> QED
        BY <2>1, <2>2
<1>9. \A r, q \in Slots : heap'[r].live /\ heap'[q].live => Apart(r, q)'
    BY <1>6, <1>7 DEF Inv, Holdings, Apart
<1>10. ASSUME NEW fd \in Fds
       PROVE  Held(fd)'
    <2>1. CASE fd = x
        BY <1>1, <1>6, <2>1 DEF Held, Sock
    <2>2. CASE fd # x
        BY <1>4, <1>5, <1>6, <2>2 DEF Inv, Holdings, Held, OpenDone
    <2> QED
        BY <2>1, <2>2
<1>11. ASSUME NEW j \in jobs
       PROVE  Matches(j)' /\ j.conn # c
    <2>1. Matches(j) /\ heap'[j.slot] = heap[j.slot]
        BY <1>1, <1>4, <1>6 DEF Inv, JobsMatch, Matches
    <2>2. OpenDone(j) => fdt'[j.in] = fdt[j.in] /\ j.in # NoFd
        <3>1. OpenDone(j) => j.in \in Fds /\ fdt[j.in].k = "file"
            BY <1>1, <2>1 DEF Matches, OpenDone, Numbered, File
        <3> QED
            BY <1>6, <3>1 DEF Free, Fds, NoFd
    <2> QED
        BY <1>1, <1>6, <1>7, <2>1, <2>2 DEF Matches, OpenDone, File
<1>12. Holdings' /\ JobsMatch'
    BY <1>5, <1>8, <1>9, <1>10, <1>11 DEF Inv, Holdings, JobsMatch, OpenDone
<1>13. ASSUME NEW d \in Conns
       PROVE  Waiting(d)' /\ Hearing(d)'
    <2>1. Waiting(d) /\ Hearing(d)
        BY DEF Inv, Turns
    <2>2. d # c => (ServerEnd(d)' => ServerEnd(d))
        BY <1>6 DEF ServerEnd, Sock
    <2> QED
        BY <1>5, <2>1, <2>2 DEF Waiting, Hearing
<1>14. (\A j \in jobs' : Served(j)') /\ \A r \in Slots : LeftOpen(r)'
    BY <1>5, <1>6 DEF Inv, Turns, Served, LeftOpen
<1>15. alive' = TRUE
    <2>1. x # MAX_ALLOWED_CLIENT
        BY <1>2, NumberAssumption DEF Fds
    <2> QED
        BY <1>4, <2>1 DEF MaySurvive
<1> QED
    BY <1>6, <1>12, <1>13, <1>14, <1>15 DEF Turns

\* No peer has given up on what it hears.
LEMMA NotDeaf ==
    ASSUME Inv, NEW c \in Conns
    PROVE  ~Deaf(c)
<1>1. /\ ear[c].got \in Seq(Urls \cup {NULL}) /\ asked[c] \in Seq(Urls) /\ NULL \notin Urls
      /\ Hearing(c)
    BY NullAssumption DEF Inv, TypeOK, Ears, Turns
<1> SUFFICES ASSUME ear[c].got # <<>> PROVE ear[c].got[Len(ear[c].got)] # NULL
    BY DEF Deaf
<1>2. Len(ear[c].got) \in 1 .. Len(ear[c].got)
    BY <1>1
<1>3. /\ ear[c].got[Len(ear[c].got)] = asked[c][Len(ear[c].got)]
      /\ asked[c][Len(ear[c].got)] \in Urls
    BY <1>1, <1>2 DEF Hearing
<1> QED
    BY <1>1, <1>3

\* What a peer makes of an answer it waits for, and of the body after a head.
LEMMA HeardInTurn ==
    ASSUME Inv, NEW c \in Conns, NEW u \in Urls
    PROVE  /\ ear[c].wire = NULL /\ Open(c) =>
                 /\ Heard(c, u, "page") = [ear[c] EXCEPT !.got = Append(ear[c].got, u)]
                 /\ Heard(c, u, "head") = [ear[c] EXCEPT !.wire = u]
           /\ ear[c].wire = u =>
                 /\ Heard(c, u, "body") = [got |-> Append(ear[c].got, u), wire |-> NULL]
                 /\ Heard(c, u, "part") = ear[c]
BY NotDeaf, NullAssumption DEF Heard

\* One more request read, and at most its answer heard.
LEMMA HearingNext ==
    ASSUME Inv, NEW c \in Conns, NEW u \in Urls, Len(asked[c]) = Len(ear[c].got),
           ear[c].wire = NULL, asked' = [asked EXCEPT ![c] = Append(asked[c], u)],
           \/ ear' = ear
           \/ ear' = [ear EXCEPT ![c] = [ear[c] EXCEPT !.got = Append(ear[c].got, u)]]
           \/ ear' = [ear EXCEPT ![c] = [ear[c] EXCEPT !.wire = u]]
    PROVE  /\ \A d \in Conns : Hearing(d)'
           /\ \A d \in Conns \ {c} : asked'[d] = asked[d] /\ ear'[d] = ear[d]
           /\ Len(asked'[c]) = Len(ear[c].got) + 1 /\ asked'[c][Len(asked'[c])] = u
<1>1. /\ ear \in [Conns -> Ears] /\ asked \in [Conns -> Seq(Urls)] /\ asked[c] \in Seq(Urls)
      /\ ear[c].got \in Seq(Urls \cup {NULL}) /\ \A d \in Conns : Hearing(d)
    BY DEF Inv, TypeOK, Ears, Turns
<1>2. /\ asked'[c] = Append(asked[c], u)
      /\ \A d \in Conns \ {c} : asked'[d] = asked[d] /\ ear'[d] = ear[d]
    BY <1>1
<1>3. /\ Len(asked'[c]) = Len(ear[c].got) + 1 /\ asked'[c][Len(asked'[c])] = u
      /\ \A i \in 1 .. Len(ear[c].got) : asked'[c][i] = ear[c].got[i]
    BY <1>1, <1>2 DEF Hearing
<1>4. \/ ear'[c] = ear[c]
      \/ ear'[c].got = Append(ear[c].got, u) /\ ear'[c].wire = NULL
      \/ ear'[c].got = ear[c].got /\ ear'[c].wire = u
    BY <1>1 DEF Ears
<1>5. Hearing(c)'
    <2>1. CASE ear'[c].got = Append(ear[c].got, u) /\ ear'[c].wire = NULL
        BY <1>1, <1>3, <2>1 DEF Hearing
    <2>2. CASE ear'[c].got = ear[c].got /\ ear'[c].wire \in {NULL, u}
        BY <1>1, <1>3, <2>2 DEF Hearing
    <2> QED
        BY <1>4, <2>1, <2>2
<1>6. \A d \in Conns \ {c} : Hearing(d)'
    BY <1>1, <1>2 DEF Hearing
<1> QED
    BY <1>2, <1>3, <1>5, <1>6

\* The peer's one request is read, and answered, answered in part or given to
\* libeio.
AnsweredOrPut(c, u) ==
    /\ inbox[c] # <<>> /\ Head(inbox[c]).k = "get" /\ Head(inbox[c]).url = u
    /\ inbox' = [inbox EXCEPT ![c] = <<>>]
    /\ asked' = [asked EXCEPT ![c] = Append(asked[c], u)]
    /\ \/ ear' = ear
       \/ ear' = [ear EXCEPT ![c] = [ear[c] EXCEPT !.got = Append(ear[c].got, u)]]
       \/ /\ ear' = [ear EXCEPT ![c] = [ear[c] EXCEPT !.wire = u]]
          /\ Reply(u) = "301" \/ "short_send" \in Unruly
    /\ \A j \in jobs : j \in jobs'
    /\ \A j \in jobs' : j \in jobs \/ j.op = "open"
    /\ UNCHANGED <<backlog, peer>>

\* A request is read from a peer whose answers are all given.
LEMMA ReadRequestOrder ==
    ASSUME Inv, alive, Orderly, NEW fd \in Fds, NEW s \in Slots, NEW c \in Conns,
           heap[s].conn = c, ReadRequest(fd, s)
    PROVE  /\ Holdings' /\ JobsMatch' /\ Turns'
           /\ alive' = TRUE \/ Excused(c)
           /\ \A n \in Fds : fdt'[n] = fdt[n] \/ fdt[n] = Free
           /\ \E u \in Urls : AnsweredOrPut(c, u)
<1> DEFINE u == Head(inbox[c]).url
<1>0. PICK job : job = OpenJob(s, u)
    OBVIOUS
<1>1. /\ heap \in [Slots -> ClientInfos] /\ clientList \in [Fds -> Slots \cup {NULL}]
      /\ fdt \in [Fds -> Files] /\ NULL \notin Slots /\ NULL \notin Urls
      /\ inbox \in [Conns -> Seq(Msgs)] /\ asked \in [Conns -> Seq(Urls)]
      /\ ear \in [Conns -> Ears] /\ alive \in BOOLEAN
      /\ \A r \in Slots : heap[r].fd \in Fds /\ heap[r].fileFd \in Fds \cup {NoFd}
      /\ \A j \in jobs : j.slot \in Slots /\ j.conn \in Conns /\ Numbered(j) /\ Matches(j)
    BY NullAssumption DEF Inv, TypeOK, Jobs, ClientInfos, JobsMatch
<1>2. /\ clientList[fd] = s /\ fdt[fd] = Sock(c) /\ inbox[c] # <<>>
      /\ inbox' = [inbox EXCEPT ![c] = Tail(inbox[c])]
      /\ asked' = [asked EXCEPT ![c] = Append(asked[c], u)]
      /\ UNCHANGED <<backlog, peer>>
    BY DEF ReadRequest, Watched
<1>3. heap[s].live /\ heap[s].fd = fd /\ Holds(s)
    BY <1>1, <1>2 DEF Inv, TableExact, Holdings
<1>4. /\ Tail(inbox[c]) = <<>> /\ Head(inbox[c]).k # "upgrade" /\ peer[c] = "up"
      /\ Len(asked[c]) = Len(ear[c].got) /\ ear[c].wire = NULL
      /\ \A j \in jobs : j.conn # c /\ j.slot # s
    <2>1. ServerEnd(c)
        BY <1>2 DEF ServerEnd
    <2> QED
        BY <1>1, <1>2, <2>1 DEF Inv, Turns, Waiting, Matches
<1>5. heap[s].fileFd = NoFd
    BY <1>3, <1>4 DEF Inv, Turns, LeftOpen
<1>6. PICK t \in {fdt} \cup {[fdt EXCEPT ![x] = ListedDir] : x \in LowestFree} :
          RespondToClient(fd, s, u, t) /\ heap' = OnUrl(s, u) /\ fdt' = t /\ UNCHANGED clientList
    BY <1>4 DEF ReadRequest, AfterParse
<1>7. u \in Urls
    <2>1. Head(inbox[c]) \in Msgs /\ Head(inbox[c]).k # "junk"
        BY <1>1, <1>2 DEF ReadRequest
    <2> QED
        BY <1>4, <2>1 DEF Msgs
<1>8. Reaches(fd) /\ ~MayBreak(fd) /\ Open(c)
    <2>1. Len(inbox[c]) \in Nat /\ Len(inbox[c]) > 0
        BY <1>1, <1>2
    <2>2. Len(asked[c]) \in Nat /\ Len(ear[c].got) \in Nat /\ Len(asked[c]) = Len(ear[c].got)
        BY <1>1, <1>4 DEF Ears
    <2>3. fdt[fd].k = "sock" /\ fdt[fd].of = c
        BY <1>2 DEF Sock
    <2>4. Open(c)
        <3>1. \A n, i \in Nat : i > 0 => n < n + i
            OBVIOUS
        <3> QED
            BY <2>1, <2>2, <3>1 DEF Open
    <2> QED
        BY <1>4, <2>3, <2>4 DEF Reaches, MayBreak
<1>9. /\ Send(fd, u, "page") => ear' = [ear EXCEPT ![c] = [ear[c] EXCEPT !.got = Append(ear[c].got, u)]]
      /\ Send(fd, u, "head") => ear' = [ear EXCEPT ![c] = [ear[c] EXCEPT !.wire = u]]
    <2>1. fdt[fd].of = c
        BY <1>2 DEF Sock
    <2>2. /\ Heard(c, u, "page") = [ear[c] EXCEPT !.got = Append(ear[c].got, u)]
          /\ Heard(c, u, "head") = [ear[c] EXCEPT !.wire = u]
        <3> HIDE DEF u
        <3> QED
            BY <1>4, <1>7, <1>8, HeardInTurn
    <2> HIDE DEF u
    <2> QED
        BY <1>8, <2>1, <2>2 DEF Send
<1>10. /\ \/ jobs' = jobs \cup {job} /\ ear' = ear
          \/ jobs' = jobs /\ ear' = ear
          \/ jobs' = jobs /\ ear' = [ear EXCEPT ![c] = [ear[c] EXCEPT !.got = Append(ear[c].got, u)]]
          \/ jobs' = jobs /\ ear' = [ear EXCEPT ![c] = [ear[c] EXCEPT !.wire = u]]
             /\ (Reply(u) = "301" \/ "short_send" \in Unruly)
       /\ \/ alive' = alive \/ alive' = TRUE
          \/ Reply(u) = "index" /\ LowestFree = {}
    <2>1. ~PiledUp(fd)
        BY OrderlyTurns DEF PiledUp
    <2> HIDE DEF u
    <2> QED
        BY <1>0, <1>6, <1>8, <1>9, <2>1
        DEF RespondToClient, SendPage, SendRedirection, SendOnce, ListDirDies, MaySurvive
<1>11. /\ heap'[s] = [heap[s] EXCEPT !.file = u]
       /\ \A r \in Slots \ {s} : heap'[r] = heap[r]
    BY <1>1, <1>6 DEF OnUrl
<1>12. /\ heap'[s].live /\ heap'[s].conn = c /\ heap'[s].fd = fd
       /\ heap'[s].file = u /\ heap'[s].fileFd = NoFd
    BY <1>1, <1>3, <1>5, <1>11 DEF ClientInfos
<1>13. \A n \in Fds : fdt'[n] = fdt[n] \/ (fdt[n] = Free /\ fdt'[n] = ListedDir)
    BY <1>1, <1>6 DEF LowestFree
<1>14. \A r \in Slots : /\ heap'[r].live = heap[r].live /\ heap'[r].conn = heap[r].conn
                        /\ heap'[r].fd = heap[r].fd /\ heap'[r].fileFd = heap[r].fileFd
    BY <1>3, <1>5, <1>11, <1>12
<1>15. /\ job.conn = c /\ job.slot = s /\ job.op = "open" /\ job.st = "queued" /\ job.file = u
       /\ \A j \in jobs' : j \in jobs \/ j = job
    BY <1>0, <1>10 DEF OpenJob
<1> HIDE DEF u
<1>16. Holdings'
    <2>1. ASSUME NEW r \in Slots, heap'[r].live
          PROVE  Holds(r)'
        <3>1. Holds(r)
            BY <1>14, <2>1 DEF Inv, Holdings
        <3>2. heap[r].fileFd # NoFd => heap'[r] = heap[r]
            BY <1>5, <1>11
        <3> QED
            BY <1>1, <1>2, <1>13, <1>14, <3>1, <3>2 DEF Holds, Sock, File, Free
    <2>2. \A r, q \in Slots : heap'[r].live /\ heap'[q].live => Apart(r, q)'
        BY <1>14 DEF Inv, Holdings, Apart
    <2>3. ASSUME NEW n \in Fds
          PROVE  Held(n)'
        <3>1. CASE fdt'[n] = fdt[n]
            <4>1. Held(n)
                BY DEF Inv, Holdings
            <4>2. \A j \in jobs : j \in jobs'
                BY <1>10
            <4> QED
                BY <1>6, <1>14, <3>1, <4>1, <4>2 DEF Held, OpenDone
        <3>2. CASE fdt'[n] = ListedDir
            BY <3>2 DEF Held, ListedDir
        <3> QED
            BY <1>13, <3>1, <3>2
    <2> QED
        BY <2>1, <2>2, <2>3 DEF Holdings
<1>17. JobsMatch'
    <2>1. ASSUME NEW j \in jobs
          PROVE  Matches(j)'
        <3>1. Matches(j) /\ heap'[j.slot] = heap[j.slot]
            BY <1>1, <1>4, <1>11
        <3>2. OpenDone(j) => fdt'[j.in] = fdt[j.in]
            <4>1. OpenDone(j) => j.in \in Fds /\ fdt[j.in] # Free
                BY <1>1, <3>1 DEF Matches, OpenDone, Numbered, File, Free
            <4> QED
                BY <1>13, <4>1
        <3> QED
            BY <1>14, <3>1, <3>2 DEF Matches, OpenDone, File
    <2>2. Matches(job)'
        BY <1>12, <1>15 DEF Matches, OpenDone
    <2>3. ASSUME NEW i \in jobs', NEW j \in jobs'
          PROVE  /\ i.conn = j.conn => i = j
                 /\ OpenDone(i) /\ OpenDone(j) /\ i.in = j.in => i = j
        BY <1>4, <1>15 DEF Inv, JobsMatch, OpenDone
    <2> QED
        BY <1>15, <2>1, <2>2, <2>3 DEF JobsMatch, OpenDone
<1>18. Turns'
    <2>1. /\ \A d \in Conns : Hearing(d)'
          /\ \A d \in Conns \ {c} : asked'[d] = asked[d] /\ ear'[d] = ear[d]
          /\ Len(asked'[c]) = Len(ear[c].got) + 1 /\ asked'[c][Len(asked'[c])] = u
        <3> HIDE DEF u
        <3>1. asked' = [asked EXCEPT ![c] = Append(asked[c], u)]
            BY <1>2
        <3>2. \/ ear' = ear
              \/ ear' = [ear EXCEPT ![c] = [ear[c] EXCEPT !.got = Append(ear[c].got, u)]]
              \/ ear' = [ear EXCEPT ![c] = [ear[c] EXCEPT !.wire = u]]
            BY <1>10
        <3> QED
            BY <1>4, <1>7, <3>1, <3>2, HearingNext
    <2>2. ASSUME NEW d \in Conns
          PROVE  Waiting(d)'
        <3>1. CASE d = c
            BY <1>1, <1>2, <1>4, <3>1 DEF Waiting
        <3>2. CASE d # c
            <4>1. inbox'[d] = inbox[d] /\ (ServerEnd(d)' => ServerEnd(d))
                BY <1>1, <1>2, <1>13, <3>2 DEF ServerEnd, Sock, ListedDir
            <4> QED
                BY <1>2, <1>15, <2>1, <3>2, <4>1 DEF Inv, Turns, Waiting
        <3> QED
            BY <3>1, <3>2
    <2>3. ASSUME NEW j \in jobs'
          PROVE  Served(j)'
        <3>1. CASE j \in jobs
            BY <1>1, <1>2, <1>4, <2>1, <3>1 DEF Inv, Turns, Served
        <3>2. CASE j \notin jobs
            <4>1. j = job /\ ear' = ear
                BY <1>10, <3>2
            <4>2. Len(ear[c].got) \in Nat
                BY <1>1 DEF Ears
            <4>3. Len(asked'[c]) # 0 /\ Len(asked'[c]) = Len(ear'[c].got) + 1 /\ ear'[c].wire = NULL
                BY <1>4, <2>1, <4>1, <4>2
            <4> QED
                BY <1>2, <1>4, <1>15, <2>1, <4>1, <4>3 DEF Served
        <3> QED
            BY <3>1, <3>2
    <2>4. ASSUME NEW r \in Slots
          PROVE  LeftOpen(r)'
        <3>1. CASE r = s
            BY <1>12, <3>1 DEF LeftOpen
        <3>2. CASE r # s
            <4>1. heap[r].live => heap[r].conn # c /\ heap[r].conn \in Conns
                BY <1>3, <3>2 DEF Inv, Holdings, Apart, Holds
            <4>2. \A j \in jobs : j \in jobs'
                BY <1>10
            <4> QED
                BY <1>11, <2>1, <3>2, <4>1, <4>2 DEF Inv, Turns, LeftOpen
        <3> QED
            BY <3>1, <3>2
    <2> QED
        BY <2>1, <2>2, <2>3, <2>4 DEF Turns
<1> QED
    <2>1. alive' = TRUE \/ Excused(c)
        <3>1. ServerEnd(c)
            BY <1>2 DEF ServerEnd
        <3> QED
            BY <1>2, <1>7, <1>10, <3>1 DEF Excused, u
    <2>2. AnsweredOrPut(c, u)
        <3>1. Head(inbox[c]).k = "get" /\ Head(inbox[c]).url = u
            BY <1>4 DEF ReadRequest, u
        <3>2. \A j \in jobs' : j \in jobs \/ j.op = "open"
            BY <1>15
        <3> QED
            BY <1>2, <1>4, <1>10, <3>1, <3>2 DEF AnsweredOrPut
    <2> QED
        BY <1>7, <1>13, <1>16, <1>17, <1>18, <2>1, <2>2

LEMMA ClientIoOrder ==
    ASSUME Inv, alive, Orderly, NEW c \in Conns, ClientIoHandler(c)
    PROVE  /\ Holdings' /\ JobsMatch' /\ Turns'
           /\ alive' = TRUE \/ Excused(c)
           /\ \A d \in Conns : ServerEnd(d) =>
                 \/ ServerEnd(d)' \/ peer[d] # "up"
                 \/ inbox[d] # <<>> /\ Head(inbox[d]).k = "junk"
<1>1. PICK fd \in Fds, s \in Slots :
          /\ heap[s].conn = c
          /\ \/ ReadRequest(fd, s) \/ ReadBadEscape(fd, s)
             \/ ReadJunk(fd, s) \/ ReadEof(fd, s) \/ ReadError(fd, s)
    BY DEF ClientIoHandler
<1>2. CASE ReadRequest(fd, s)
    <2>1. /\ Holdings' /\ JobsMatch' /\ Turns'
          /\ alive' = TRUE \/ Excused(c)
          /\ \A n \in Fds : fdt'[n] = fdt[n] \/ fdt[n] = Free
        BY <1>1, <1>2, ReadRequestOrder
    <2>2. \A d \in Conns : ServerEnd(d) => ServerEnd(d)'
        BY <2>1 DEF ServerEnd, Sock, Free
    <2> QED
        BY <2>1, <2>2
<1>3. CASE ReadJunk(fd, s) \/ ReadEof(fd, s) \/ ReadError(fd, s)
    <2>1. /\ clientList[fd] = s /\ CloseClient(fd, heap, fdt)
          /\ UNCHANGED <<alive, jobs, backlog, peer, asked, ear>>
        BY <1>3 DEF ReadJunk, ReadEof, ReadError, Watched, kernelVars
    <2>2. heap[s].live /\ heap[s].fd = fd /\ fdt[fd] = Sock(c)
        <3>1. heap[s].live /\ heap[s].fd = fd
            BY <2>1, NullAssumption DEF Inv, TableExact
        <3> QED
            BY <1>1, <3>1 DEF Inv, Holdings, Holds
    <2>3. ~ReadError(fd, s)
        BY <1>1, <2>2 DEF ReadError
    <2>4. \A j \in jobs : j.conn # c
        BY <1>1, <1>3, <2>3 DEF ReadJunk, ReadEof, Inv, Turns, Waiting, Served
    <2>5. \A d \in Conns : inbox'[d] = inbox[d] \/ inbox'[d] = <<>>
        <3>1. inbox \in [Conns -> Seq(Msgs)]
            BY DEF Inv, TypeOK
        <3>2. inbox[c] # <<>> => Tail(inbox[c]) = <<>>
            BY DEF Inv, Turns, Waiting
        <3> QED
            BY <1>1, <1>3, <2>3, <3>1, <3>2 DEF ReadJunk, ReadEof, kernelVars
    <2>6. \A j \in jobs : j.slot # s
        BY <1>1, <2>4 DEF Inv, JobsMatch, Matches
    <2>7. jobs' = {j \in jobs : j.slot # s}
        BY <2>1, <2>6
    <2>8. /\ Holdings' /\ JobsMatch'
          /\ \A d \in Conns : ServerEnd(d) /\ d # c => ServerEnd(d)'
        BY <1>1, <2>1, <2>2, <2>6, <2>7, CloseHoldings
    <2>9. Turns'
        BY <2>1, <2>2, <2>5, <2>6, <2>7, CloseTurns
    <2>10. peer[c] # "up" \/ (inbox[c] # <<>> /\ Head(inbox[c]).k = "junk")
        BY <1>1, <1>3, <2>3 DEF ReadJunk, ReadEof
    <2> QED
        BY <2>1, <2>8, <2>9, <2>10 DEF Inv, TypeOK
<1>4. CASE ReadBadEscape(fd, s)
    <2>1. /\ UNCHANGED <<clientList, heap, fdt, jobs, kernelVars, ear>>
          /\ Watched(fd, s) /\ inbox[c] # <<>> /\ Head(inbox[c]).url \in BadEscapes
        BY <1>1, <1>4 DEF ReadBadEscape
    <2>2. Holdings' /\ JobsMatch' /\ Turns' /\ \A d \in Conns : ServerEnd(d)' = ServerEnd(d)
        BY <2>1 DEF kernelVars, Inv, Holdings, Holds, Apart, Held, JobsMatch, Matches, OpenDone,
           Turns, Waiting, Hearing, Served, LeftOpen, ServerEnd
    <2>3. Excused(c)
        BY <1>1, <2>1 DEF Excused, Watched, ServerEnd
    <2> QED
        BY <2>2, <2>3
<1> QED
    BY <1>1, <1>2, <1>3, <1>4

\* A thread of libeio opens a file.
LEMMA EioOpenOrder ==
    ASSUME Inv, NEW j \in jobs, EioOpen(j)
    PROVE  /\ Holdings' /\ JobsMatch' /\ Turns'
           /\ \A n \in Fds : fdt'[n] = fdt[n] \/ fdt[n] = Free
<1>1. /\ fdt \in [Fds -> Files] /\ heap \in [Slots -> ClientInfos]
      /\ \A r \in Slots : heap[r].fd \in Fds /\ heap[r].fileFd \in Fds \cup {NoFd}
      /\ \A i \in jobs : i \in Jobs /\ Numbered(i) /\ i.slot \in Slots
    BY DEF Inv, TypeOK, Jobs, ClientInfos
<1>2. /\ j.op = "open" /\ j.st = "queued" /\ Matches(j) /\ Served(j)
      /\ UNCHANGED <<alive, clientList, heap, backlog, peer, inbox, asked, ear>>
    BY DEF EioOpen, kernelVars, Inv, JobsMatch, Turns
<1>3. PICK st \in {"ok", "err"}, x \in Fds \cup {NoFd} :
          /\ jobs' = Finished(j, st, x)
          /\ \/ /\ st = "ok" /\ x \in Fds /\ fdt[x] = Free
                /\ fdt' = [fdt EXCEPT ![x] = File(j.file)]
             \/ st = "err" /\ x = NoFd /\ fdt' = fdt
    BY DEF EioOpen, LowestFree
<1>4. PICK k : k = [j EXCEPT !.st = st, !.in = x]
    OBVIOUS
<1>5. /\ jobs' = (jobs \ {j}) \cup {k} /\ k.conn = j.conn /\ k.slot = j.slot
      /\ k.op = "open" /\ k.file = j.file /\ k.st = st /\ k.in = x
    BY <1>1, <1>2, <1>3, <1>4 DEF Finished, Jobs
<1>6. /\ \A n \in Fds : fdt'[n] = fdt[n] \/ (st = "ok" /\ n = x /\ fdt[n] = Free)
      /\ st = "ok" => x \in Fds /\ fdt[x] = Free /\ fdt'[x] = File(j.file)
    BY <1>1, <1>3
<1>7. \A i \in jobs : OpenDone(i) => i.in \in Fds /\ fdt[i.in] = File(i.file)
    BY <1>1 DEF Inv, JobsMatch, Matches, OpenDone, Numbered
<1>8. \A r \in Slots : heap[r].live =>
          Holds(r) /\ (st = "ok" => heap[r].fd # x /\ heap[r].fileFd # x)
    BY <1>6 DEF Inv, Holdings, Holds, Sock, File, Free, Fds, NoFd
<1>9. ASSUME NEW r \in Slots, heap[r].live
      PROVE  Holds(r)'
    BY <1>1, <1>2, <1>6, <1>8, <1>9 DEF Holds, Sock, File, Free, Inv, Holdings
<1>10. ASSUME NEW n \in Fds
       PROVE  Held(n)'
    <2>1. CASE fdt'[n] = fdt[n]
        BY <1>2, <1>5, <2>1 DEF Inv, Holdings, Held, OpenDone
    <2>2. CASE st = "ok" /\ n = x
        BY <1>5, <1>6, <2>2 DEF Held, OpenDone, File
    <2> QED
        BY <1>6, <2>1, <2>2
<1>11. ASSUME NEW i \in jobs, i # j
       PROVE  Matches(i)' /\ i.conn # j.conn /\ (OpenDone(i) => i.in # x \/ st = "err")
    BY <1>2, <1>6, <1>7, <1>11 DEF Inv, JobsMatch, Matches, OpenDone, File, Free
<1>12. Matches(k)'
    BY <1>2, <1>5, <1>6, <1>8 DEF Matches, OpenDone, File
<1>13. JobsMatch'
    BY <1>5, <1>11, <1>12 DEF Inv, JobsMatch, OpenDone
<1>14. Holdings'
    BY <1>2, <1>9, <1>10 DEF Inv, Holdings, Apart
<1>15. ASSUME NEW d \in Conns
       PROVE  Waiting(d)' /\ Hearing(d)'
    <2>1. ServerEnd(d)' => ServerEnd(d)
        BY <1>6 DEF ServerEnd, Sock, File
    <2> QED
        BY <1>2, <1>5, <2>1 DEF Inv, Turns, Waiting, Hearing
<1>16. (\A i \in jobs' : Served(i)') /\ \A r \in Slots : LeftOpen(r)'
    <2>1. Served(k)'
        BY <1>2, <1>5 DEF Served
    <2> QED
        BY <1>2, <1>5, <2>1 DEF Inv, Turns, Served, LeftOpen
<1> QED
    BY <1>6, <1>13, <1>14, <1>15, <1>16 DEF Turns

EndedWell(k, j) ==
    "short_send" \notin Unruly => k.st = "ok" /\ ear'[j.conn].wire = NULL

\* The peer gets the body, and with it the answer, unless sendfile() fell short.
SentOrNot(j) ==
    /\ j.op = "send"
    /\ LET e == ear[j.conn] IN
        \/ ear' = ear
        \/ ear' = [ear EXCEPT ![j.conn] = [got |-> Append(e.got, j.file), wire |-> NULL]]
    /\ \A i \in jobs \ {j} : i \in jobs'
    /\ \E k \in jobs' : k.op = "send" /\ k.conn = j.conn
    /\ \A k \in jobs' : k \in jobs \ {j} \/ (k.conn = j.conn /\ EndedWell(k, j))
    /\ UNCHANGED <<clientList, fdt, backlog, peer, inbox, asked>>

\* A thread of libeio sends the file the client holds, to the client's socket.
LEMMA EioSendOrder ==
    ASSUME Inv, NEW j \in jobs, EioSend(j)
    PROVE  Holdings' /\ JobsMatch' /\ Turns' /\ SentOrNot(j)
<1> DEFINE c == j.conn
<1>1. /\ ear \in [Conns -> Ears] /\ asked \in [Conns -> Seq(Urls)]
      /\ NULL \notin Urls /\ j \in Jobs /\ j.conn \in Conns /\ j.file \in Urls
      /\ ear[j.conn] \in Ears /\ ear[j.conn].got \in Seq(Urls \cup {NULL})
      /\ Matches(j) /\ Served(j) /\ Holds(j.slot) /\ j.slot \in Slots /\ Numbered(j)
      /\ Hearing(j.conn) /\ Waiting(j.conn)
    BY NullAssumption, OthersJobs DEF Inv, TypeOK, Jobs, Ears, Turns
<1>2. /\ j.op = "send" /\ j.st = "queued"
      /\ UNCHANGED <<alive, clientList, heap, fdt, backlog, peer, inbox, asked>>
    BY DEF EioSend, kernelVars
<1>3. /\ fdt[j.out] = Sock(c) /\ fdt[j.in] = File(j.file)
      /\ Reaches(j.out) /\ ~MayBreak(j.out) /\ fdt[j.out].of = c
    <2>1. fdt[j.out] = Sock(c) /\ fdt[j.in] = File(j.file)
        BY <1>1, <1>2 DEF Matches, Holds, Numbered, Fds, NoFd
    <2>2. fdt[j.out].k = "sock" /\ fdt[j.out].of = c
        BY <2>1 DEF Sock
    <2> QED
        BY <1>1, <2>1, <2>2 DEF Served, Reaches, MayBreak
<1>4. ear[c].wire = j.file /\ Len(asked[c]) = Len(ear[c].got) + 1
    BY <1>1, <1>2 DEF Served, Hearing
<1>5. /\ Heard(c, j.file, "body") = [got |-> Append(ear[c].got, j.file), wire |-> NULL]
      /\ Heard(c, j.file, "part") = ear[c]
    BY <1>1, <1>4, HeardInTurn
<1>6. PICK st \in {"ok", "err"} : jobs' = Finished(j, st, j.in)
    BY DEF EioSend
<1>7. \/ ear' = ear
      \/ ear' = [ear EXCEPT ![c] = [got |-> Append(ear[c].got, j.file), wire |-> NULL]]
    <2>1. \/ Send(j.out, j.file, "body") \/ Send(j.out, j.file, "part") \/ ear' = ear
        BY <1>3 DEF EioSend
    <2>2. ear = [ear EXCEPT ![c] = ear[c]]
        BY <1>1
    <2> HIDE DEF c
    <2> QED
        BY <1>3, <1>5, <2>1, <2>2 DEF Send
<1>8. PICK k : k = [j EXCEPT !.st = st, !.in = j.in]
    OBVIOUS
<1>9. /\ jobs' = (jobs \ {j}) \cup {k} /\ k.conn = c /\ k.slot = j.slot /\ k.op = "send"
      /\ k.file = j.file /\ k.st = st /\ k.in = j.in /\ k.out = j.out
    BY <1>1, <1>2, <1>6, <1>8 DEF Finished, Jobs
<1>10. Holdings'
    BY <1>2, <1>9 DEF Inv, Holdings, Holds, Apart, Held, OpenDone
<1>11. JobsMatch'
    <2>1. Matches(k)'
        BY <1>1, <1>2, <1>9 DEF Matches, OpenDone
    <2>2. \A i \in jobs : Matches(i)'
        BY <1>2 DEF Inv, JobsMatch, Matches, OpenDone
    <2> QED
        BY <1>2, <1>9, <2>1, <2>2 DEF Inv, JobsMatch, OpenDone
<1>12. \A d \in Conns \ {c} : ear'[d] = ear[d]
    BY <1>1, <1>7
<1>13. ASSUME NEW d \in Conns
       PROVE  Waiting(d)' /\ Hearing(d)'
    <2>1. CASE d # c
        <3>1. Waiting(d) /\ Hearing(d) /\ ear'[d] = ear[d]
            BY <1>12, <2>1 DEF Inv, Turns
        <3>2. Waiting(d)'
            BY <1>2, <1>9, <2>1, <3>1 DEF Waiting, ServerEnd
        <3>3. Hearing(d)'
            BY <1>2, <3>1 DEF Hearing
        <3> QED
            BY <3>2, <3>3
    <2>2. CASE d = c
        <3>1. inbox[c] = <<>>
            BY <1>1 DEF Waiting
        <3>2. Waiting(d)'
            BY <1>2, <2>2, <3>1 DEF Waiting
        <3>3. CASE ear' = ear
            BY <1>1, <1>2, <2>2, <3>2, <3>3 DEF Hearing
        <3>4. CASE ear'[c] = [got |-> Append(ear[c].got, j.file), wire |-> NULL]
            <4>1. ear'[c].got = Append(ear[c].got, j.file) /\ ear'[c].wire = NULL
                BY <3>4
            <4>2. j.file = asked[c][Len(ear[c].got) + 1]
                BY <1>1, <1>4 DEF Served
            <4>3. PICK q \in Seq(Urls \cup {NULL}) : q = ear[c].got
                BY <1>1 DEF Ears
            <4>4. /\ Len(Append(q, j.file)) = Len(q) + 1 /\ Append(q, j.file)[Len(q) + 1] = j.file
                  /\ \A i \in 1 .. Len(q) : Append(q, j.file)[i] = q[i]
                  /\ Len(q) \in Nat
                OBVIOUS
            <4>5. /\ asked'[d] = asked[c] /\ Len(asked[c]) = Len(q) + 1
                  /\ \A i \in 1 .. Len(q) : q[i] = asked[c][i]
                  /\ asked[c][Len(q) + 1] = j.file
                BY <1>1, <1>2, <1>4, <2>2, <4>2, <4>3 DEF Hearing
            <4>6. ear'[d].got = Append(q, j.file) /\ ear'[d].wire = NULL
                BY <2>2, <4>1, <4>3
            <4>7. Hearing(d)'
                BY <4>4, <4>5, <4>6 DEF Hearing
            <4> QED
                BY <3>2, <4>7
        <3> QED
            BY <1>1, <1>7, <3>2, <3>3, <3>4
    <2> QED
        BY <2>1, <2>2
<1>14. ASSUME NEW i \in jobs'
       PROVE  Served(i)'
    <2>1. CASE i = k
        BY <1>1, <1>2, <1>6, <1>9, <2>1 DEF Served
    <2>2. CASE i # k
        <3>1. i \in jobs /\ i.conn # c /\ i.conn \in Conns
            BY <1>9, <2>2 DEF Inv, JobsMatch, TypeOK, Jobs
        <3> QED
            BY <1>2, <1>12, <3>1 DEF Inv, Turns, Served
    <2> QED
        BY <2>1, <2>2
<1>15. ASSUME NEW r \in Slots
       PROVE  LeftOpen(r)'
    <2>1. CASE r = j.slot
        BY <1>9, <2>1 DEF LeftOpen
    <2>2. CASE r # j.slot
        <3>1. heap[r].live => heap[r].conn # c /\ heap[r].conn \in Conns
            BY <1>1, <2>2 DEF Inv, Holdings, Apart, Holds, Matches
        <3> QED
            BY <1>2, <1>9, <1>12, <2>2, <3>1 DEF Inv, Turns, LeftOpen
    <2> QED
        BY <2>1, <2>2
<1>16. "short_send" \notin Unruly => k.st = "ok" /\ ear'[c].wire = NULL
    <2> SUFFICES ASSUME "short_send" \notin Unruly PROVE k.st = "ok" /\ ear'[c].wire = NULL
        OBVIOUS
    <2>1. fdt[j.in].k = "file"
        BY <1>3 DEF File
    <2>2. Send(j.out, j.file, "body") /\ jobs' = Finished(j, "ok", j.in)
        BY <1>3, <2>1 DEF EioSend
    <2>3. ear' = [ear EXCEPT ![c] = [got |-> Append(ear[c].got, j.file), wire |-> NULL]]
        <3> HIDE DEF c
        <3> QED
            BY <1>3, <1>5, <2>2 DEF Send
    <2>4. k.st = "ok"
        <3>1. PICK i : i = [j EXCEPT !.st = "ok", !.in = j.in]
            OBVIOUS
        <3>2. i \in jobs' /\ i \notin jobs /\ i.st = "ok"
            <4>1. i.conn = j.conn /\ i.st = "ok" /\ i \in jobs'
                BY <1>1, <2>2, <3>1 DEF Finished, Jobs
            <4> QED
                BY <1>2, <4>1 DEF Inv, JobsMatch
        <3> QED
            BY <1>9, <3>2
    <2> QED
        BY <1>1, <2>3, <2>4
<1>17. SentOrNot(j)
    <2>1. jobs' = (jobs \ {j}) \cup {k} /\ k.op = "send" /\ k.conn = j.conn
        BY <1>9
    <2>2. EndedWell(k, j)
        BY <1>16 DEF EndedWell
    <2>3. \A i \in jobs' : i \in jobs \ {j} \/ (i.conn = j.conn /\ EndedWell(i, j))
        BY <2>1, <2>2
    <2>4. (\A i \in jobs \ {j} : i \in jobs') /\ k \in jobs'
        BY <2>1
    <2> QED
        BY <1>2, <1>7, <2>1, <2>3, <2>4 DEF SentOrNot
<1> QED
    BY <1>10, <1>11, <1>13, <1>14, <1>15, <1>17 DEF Turns

\* The peer gets the head, and libeio the file to send.
HeadSent(j) ==
    /\ j.op = "open" /\ ear'[j.conn].got = ear[j.conn].got
    /\ \A d \in Conns \ {j.conn} : ear'[d] = ear[d]
    /\ \A i \in jobs : i = j \/ i \in jobs'
    /\ \A i \in jobs' : i \in jobs \/ (i.op = "send" /\ i.st = "queued")
    /\ "oom" \notin Unruly => \E i \in jobs' : i.op = "send" /\ i.conn = j.conn
    /\ UNCHANGED <<clientList, fdt, backlog, peer, inbox, asked>>

\* file_open_done: the client takes the file, and its peer hears the head.
LEMMA FileOpenDoneOrder ==
    ASSUME Inv, Orderly, NEW j \in jobs, FileOpenDone(j)
    PROVE  /\ Holdings' /\ JobsMatch' /\ Turns' /\ alive' = TRUE
           /\ HeadSent(j)
<1> DEFINE c == j.conn
           s == j.slot
<1>1. /\ ear \in [Conns -> Ears] /\ asked \in [Conns -> Seq(Urls)]
      /\ heap \in [Slots -> ClientInfos]
      /\ \A r \in Slots : heap[r].fd \in Fds /\ heap[r].fileFd \in Fds \cup {NoFd}
      /\ NULL \notin Urls /\ j \in Jobs /\ c \in Conns /\ j.file \in Urls
      /\ ear[c] \in Ears /\ ear[c].got \in Seq(Urls \cup {NULL})
      /\ \A i \in jobs : i \in Jobs /\ Numbered(i) /\ i.slot \in Slots /\ i.conn \in Conns
    BY NullAssumption DEF Inv, TypeOK, Jobs, Ears, ClientInfos
<1>2. /\ Matches(j) /\ Served(j) /\ Holds(s) /\ s \in Slots /\ heap[s].live
      /\ Hearing(c) /\ Waiting(c)
    BY <1>1, OthersJobs DEF Inv, Turns
<1>3. /\ OpenDone(j) /\ heap[s].file # NULL /\ Send(heap[s].fd, heap[s].file, "head")
      /\ heap' = [heap EXCEPT ![s].fileFd = j.in]
      /\ jobs' = (jobs \ {j}) \cup {SendJob(j)} \/ jobs' = jobs \ {j}
      /\ MaySurvive(Stale(j) \/ MayBreak(heap[s].fd))
      /\ UNCHANGED <<clientList, fdt, backlog, peer, inbox, asked>>
    <2>1. ~PiledUp(heap[s].fd)
        BY OrderlyTurns DEF PiledUp
    <2> QED
        BY <1>1, <1>2, <2>1
        DEF FileOpenDone, SendHeader, SendOnce, Matches, AfterOpen, OpenDone, kernelVars
<1>4. /\ Reaches(heap[s].fd) /\ ~MayBreak(heap[s].fd) /\ ~Stale(j)
      /\ fdt[heap[s].fd].of = c /\ heap[s].file = j.file
    <2>1. fdt[heap[s].fd].k = "sock" /\ fdt[heap[s].fd].of = c
        BY <1>2 DEF Matches, Holds, Sock
    <2> QED
        BY <1>2, <2>1 DEF Served, Reaches, MayBreak, Stale, Matches
<1>5. ear[c].wire = NULL /\ Len(asked[c]) = Len(ear[c].got) + 1 /\ inbox[c] = <<>>
    BY <1>1, <1>2, <1>3 DEF Served, OpenDone, Waiting
<1>6. Open(c)
    <2>1. Len(inbox[c]) = 0 /\ Len(ear[c].got) \in Nat
        BY <1>1, <1>5
    <2>2. \A n \in Nat : n < (n + 1) + 0
        OBVIOUS
    <2> HIDE DEF c
    <2> QED
        BY <1>5, <2>1, <2>2 DEF Open
<1>7. ear' = [ear EXCEPT ![c] = [ear[c] EXCEPT !.wire = j.file]]
    <2>1. Heard(c, j.file, "head") = [ear[c] EXCEPT !.wire = j.file]
        BY <1>1, <1>5, <1>6, HeardInTurn
    <2> HIDE DEF c, s
    <2> QED
        BY <1>3, <1>4, <2>1 DEF Send, s
<1>8. /\ ear'[c].got = ear[c].got /\ ear'[c].wire = j.file
      /\ \A d \in Conns \ {c} : ear'[d] = ear[d]
    BY <1>1, <1>7 DEF Ears
<1>9. /\ heap'[s].live /\ heap'[s].conn = c /\ heap'[s].fd = heap[s].fd
      /\ heap'[s].file = j.file /\ heap'[s].fileFd = j.in
      /\ \A r \in Slots \ {s} : heap'[r] = heap[r]
    <2>1. heap[s] \in ClientInfos
        BY <1>1, <1>2
    <2> QED
        BY <1>1, <1>2, <1>3, <1>4, <2>1 DEF Matches, ClientInfos
<1>10. PICK k : k = SendJob(j)
    OBVIOUS
<1>11. /\ jobs' = (jobs \ {j}) \cup {k} \/ jobs' = jobs \ {j}
       /\ k.conn = c /\ k.slot = s /\ k.op = "send" /\ k.st = "queued"
       /\ k.file = j.file /\ k.in = j.in /\ k.out = heap[s].fd
    BY <1>1, <1>3, <1>4, <1>10 DEF SendJob, Jobs
<1>12. /\ j.in \in Fds /\ j.in # NoFd /\ fdt[j.in] = File(j.file)
       /\ \A r \in Slots : heap[r].live => heap[r].fileFd # j.in
       /\ heap[s].fileFd = NoFd
    BY <1>1, <1>2, <1>3 DEF Matches, OpenDone, Numbered, Fds, NoFd
<1>13. \A i \in jobs \ {j} : /\ i.slot # s /\ i.conn # c /\ Matches(i) /\ Served(i)
                             /\ OpenDone(i) => i.in # j.in
    BY <1>2, <1>3 DEF Inv, JobsMatch, Matches, Turns
<1>14. \A r \in Slots : heap[r].live /\ r # s => heap[r].conn # c /\ heap[r].conn \in Conns
    BY <1>2 DEF Inv, Holdings, Apart, Holds, Matches
<1>15. Holdings'
    <2>1. ASSUME NEW r \in Slots, heap'[r].live
          PROVE  Holds(r)'
        BY <1>2, <1>3, <1>9, <1>12, <2>1 DEF Inv, Holdings, Holds, Matches
    <2>2. ASSUME NEW r \in Slots, NEW q \in Slots, heap'[r].live, heap'[q].live
          PROVE  Apart(r, q)'
        BY <1>2, <1>9, <1>12, <1>14, <2>2 DEF Inv, Holdings, Apart
    <2>3. ASSUME NEW n \in Fds
          PROVE  Held(n)'
        <3>1. CASE n = j.in
            BY <1>2, <1>3, <1>9, <1>12, <3>1 DEF Held, File
        <3>2. CASE n # j.in
            <4>1. Held(n)
                BY DEF Inv, Holdings
            <4>2. \A i \in jobs : i.in = n => i \in jobs'
                BY <1>11, <3>2
            <4>3. \A r \in Slots : heap[r].live /\ heap[r].fileFd = n => r # s
                BY <1>12, <1>1, <3>2 DEF Fds, NoFd
            <4> QED
                BY <1>3, <1>9, <4>1, <4>2, <4>3 DEF Held, OpenDone
        <3> QED
            BY <3>1, <3>2
    <2> QED
        BY <2>1, <2>2, <2>3 DEF Holdings
<1>16. JobsMatch'
    <2>1. Matches(k)'
        BY <1>9, <1>11 DEF Matches, OpenDone
    <2>2. ASSUME NEW i \in jobs \ {j}
          PROVE  Matches(i)'
        BY <1>1, <1>3, <1>9, <1>13 DEF Matches, OpenDone
    <2> QED
        BY <1>11, <1>13, <2>1, <2>2 DEF Inv, JobsMatch, OpenDone
<1>17. Turns'
    <2>1. ASSUME NEW d \in Conns
          PROVE  Waiting(d)' /\ Hearing(d)'
        <3>1. CASE d = c
            BY <1>2, <1>3, <1>5, <1>8, <3>1 DEF Waiting, Hearing, Served
        <3>2. CASE d # c
            BY <1>3, <1>8, <1>11, <3>2 DEF Inv, Turns, Waiting, Hearing, ServerEnd
        <3> QED
            BY <3>1, <3>2
    <2>2. Served(k)'
        BY <1>1, <1>2, <1>3, <1>8, <1>11 DEF Served
    <2>3. \A i \in jobs \ {j} : Served(i)'
        BY <1>1, <1>3, <1>8, <1>13 DEF Served
    <2>4. ASSUME NEW r \in Slots
          PROVE  LeftOpen(r)'
        BY <1>1, <1>8, <1>9, <1>11, <1>14 DEF Inv, Turns, LeftOpen
    <2> QED
        BY <1>11, <2>1, <2>2, <2>3, <2>4 DEF Turns
<1>18. alive' = TRUE
    BY <1>3, <1>4 DEF MaySurvive
<1>19. HeadSent(j)
    <2>1. "oom" \notin Unruly => jobs' = (jobs \ {j}) \cup {k}
        BY <1>3, <1>10 DEF FileOpenDone, AfterOpen
    <2>2. "oom" \notin Unruly => \E i \in jobs' : i.op = "send" /\ i.conn = j.conn
        BY <1>11, <2>1
    <2>3. /\ \A i \in jobs : i = j \/ i \in jobs'
          /\ \A i \in jobs' : i \in jobs \/ (i.op = "send" /\ i.st = "queued")
        <3>1. jobs' \subseteq jobs \cup {k} /\ jobs \ {j} \subseteq jobs'
            BY <1>11
        <3>2. k.op = "send" /\ k.st = "queued"
            BY <1>11
        <3>3. \A i \in jobs : i = j \/ i \in jobs'
            BY <3>1
        <3>4. \A i \in jobs' : i \in jobs \/ i = k
            BY <3>1
        <3> QED
            BY <3>2, <3>3, <3>4
    <2>4. j.op = "open"
        BY <1>3 DEF OpenDone
    <2> QED
        BY <1>3, <1>8, <2>2, <2>3, <2>4 DEF HeadSent
<1> QED
    BY <1>15, <1>16, <1>17, <1>18, <1>19

\* file_send_done: the client gives the file back.
LEMMA FileSendDoneOrder ==
    ASSUME Inv, NEW j \in jobs, FileSendDone(j)
    PROVE  /\ Holdings' /\ JobsMatch' /\ Turns' /\ alive' = TRUE
           /\ \A d \in Conns : ServerEnd(d) => ServerEnd(d)'
<1> DEFINE s == j.slot
           G == heap[s].fileFd
<1>1. /\ heap \in [Slots -> ClientInfos] /\ fdt \in [Fds -> Files]
      /\ \A r \in Slots : heap[r].fd \in Fds /\ heap[r].fileFd \in Fds \cup {NoFd}
      /\ \A i \in jobs : Numbered(i) /\ i.slot \in Slots
    BY DEF Inv, TypeOK, Jobs, ClientInfos
<1>2. /\ Matches(j) /\ Holds(s) /\ s \in Slots /\ heap[s].live /\ j.op = "send"
      /\ G \in Fds /\ G # NoFd /\ fdt[G] = File(heap[s].file)
    BY <1>1, OthersJobs DEF FileSendDone, Matches, Holds, Numbered, Fds, NoFd
<1>3. /\ heap' = [heap EXCEPT ![s].fileFd = NoFd]
      /\ jobs' = jobs \ {j} /\ alive' = TRUE
      /\ UNCHANGED <<clientList, backlog, peer, inbox, asked, ear>>
    BY <1>2 DEF FileSendDone, MaySurvive, Stale, Matches, kernelVars
<1>4. /\ \A n \in Fds \ {G} : fdt'[n] = fdt[n]
      /\ fdt'[G] = Free
    BY <1>1, <1>2 DEF FileSendDone, Closed, Fds, NoFd
<1>5. /\ heap'[s].fileFd = NoFd
      /\ \A r \in Slots : /\ heap'[r].live = heap[r].live /\ heap'[r].conn = heap[r].conn
                          /\ heap'[r].fd = heap[r].fd /\ heap'[r].file = heap[r].file
                          /\ r # s => heap'[r].fileFd = heap[r].fileFd
    <2>1. heap'[s] = [heap[s] EXCEPT !.fileFd = NoFd] /\ heap[s] \in ClientInfos
        BY <1>1, <1>2, <1>3
    <2>2. \A r \in Slots \ {s} : heap'[r] = heap[r]
        BY <1>1, <1>3
    <2> QED
        BY <2>1, <2>2 DEF ClientInfos
<1> HIDE DEF s, G
<1>6. \A i \in jobs' : /\ i \in jobs /\ i.slot # s /\ Matches(i) /\ Served(i)
                       /\ OpenDone(i) => i.in \in Fds \ {G}
    <2>1. \A i \in jobs' : i \in jobs /\ i.slot # s /\ Matches(i) /\ Served(i)
        BY <1>3, OthersJobs DEF s
    <2>2. \A i \in jobs' : OpenDone(i) => i.in \in Fds /\ i.in # G
        BY <1>1, <1>2, <2>1 DEF Matches, OpenDone, Numbered, G
    <2> QED
        BY <2>1, <2>2
<1>7. \A r \in Slots : heap[r].live /\ r # s => heap[r].fileFd # G /\ Holds(r)
    BY <1>2 DEF Inv, Holdings, Apart, G
<1>8. ASSUME NEW r \in Slots, heap[r].live
      PROVE  heap[r].fd # G
    <2>1. Holds(r)
        BY <1>8 DEF Inv, Holdings
    <2> QED
        BY <1>2, <2>1 DEF Holds, Sock, File
<1>9. Holdings'
    <2>1. ASSUME NEW r \in Slots, heap'[r].live
          PROVE  Holds(r)'
        <3>1. Holds(r) /\ fdt'[heap[r].fd] = fdt[heap[r].fd]
            BY <1>1, <1>4, <1>5, <1>8, <2>1 DEF Inv, Holdings
        <3>2. heap'[r].fileFd # NoFd => /\ heap'[r].fileFd = heap[r].fileFd
                                        /\ fdt'[heap[r].fileFd] = fdt[heap[r].fileFd]
            BY <1>1, <1>4, <1>5, <1>7, <2>1
        <3> QED
            BY <1>3, <1>5, <3>1, <3>2 DEF Holds, Sock, File
    <2>2. ASSUME NEW r \in Slots, NEW q \in Slots, heap'[r].live, heap'[q].live
          PROVE  Apart(r, q)'
        BY <1>5, <2>2 DEF Inv, Holdings, Apart
    <2>3. ASSUME NEW n \in Fds
          PROVE  Held(n)'
        <3>1. CASE n = G
            BY <1>4, <3>1 DEF Held, Free
        <3>2. CASE n # G
            <4>1. Held(n) /\ fdt'[n] = fdt[n]
                BY <1>4, <3>2 DEF Inv, Holdings
            <4>2. \A i \in jobs : OpenDone(i) => i \in jobs'
                BY <1>2, <1>3 DEF OpenDone
            <4>3. \A r \in Slots : heap[r].fileFd = n => r # s
                BY <3>2 DEF G
            <4> QED
                BY <1>3, <1>5, <4>1, <4>2, <4>3 DEF Held, OpenDone
        <3> QED
            BY <3>1, <3>2
    <2> QED
        BY <2>1, <2>2, <2>3 DEF Holdings
<1>10. JobsMatch'
    <2>1. ASSUME NEW i \in jobs'
          PROVE  Matches(i)'
        <3>1. i.slot \in Slots /\ Matches(i) /\ i.slot # s
            BY <1>1, <1>6
        <3>2. \A r \in Slots : heap'[r].fileFd = heap[r].fileFd \/ heap'[r].fileFd = NoFd
            BY <1>5
        <3>3. OpenDone(i) => fdt'[i.in] = fdt[i.in] /\ i.in # NoFd
            BY <1>4, <1>6 DEF Fds, NoFd
        <3> QED
            BY <1>5, <3>1, <3>2, <3>3 DEF Matches, OpenDone, File
    <2> QED
        BY <1>6, <2>1 DEF Inv, JobsMatch, OpenDone
<1>11. \A n \in Fds : fdt'[n] = fdt[n] \/ fdt'[n] = Free
    BY <1>4
<1>12. Turns'
    <2>1. ASSUME NEW d \in Conns
          PROVE  Waiting(d)' /\ Hearing(d)'
        <3>1. ServerEnd(d)' => ServerEnd(d)
            BY <1>11 DEF ServerEnd, Sock, Free
        <3> QED
            BY <1>3, <3>1 DEF Inv, Turns, Waiting, Hearing
    <2>2. \A i \in jobs' : Served(i)'
        BY <1>3, <1>6 DEF Served
    <2>3. ASSUME NEW r \in Slots
          PROVE  LeftOpen(r)'
        <3>1. \A i \in jobs : i.slot # s => i \in jobs'
            BY <1>3 DEF s
        <3> QED
            BY <1>3, <1>5, <3>1 DEF Inv, Turns, LeftOpen
    <2> QED
        BY <2>1, <2>2, <2>3 DEF Turns
<1>13. ASSUME NEW d \in Conns, ServerEnd(d)
       PROVE  ServerEnd(d)'
    BY <1>2, <1>4, <1>13 DEF ServerEnd, Sock, File
<1> QED
    BY <1>3, <1>9, <1>10, <1>12, <1>13

LEMMA CallbackOrder ==
    ASSUME Inv, Orderly, NEW c \in Conns, Callback(c)
    PROVE  /\ Holdings' /\ JobsMatch' /\ Turns' /\ alive' = TRUE
           /\ \A d \in Conns : ServerEnd(d) => \/ ServerEnd(d)'
                                               \/ \E j \in jobs : j.conn = d /\ j.st = "err"
<1>1. PICK j \in jobs : FileOpenFailed(j) \/ FileOpenDone(j) \/ FileSendFailed(j) \/ FileSendDone(j)
    BY DEF Callback
<1>2. CASE FileOpenDone(j)
    <2>1. fdt' = fdt
        BY <1>2 DEF FileOpenDone
    <2> QED
        BY <1>2, <2>1, FileOpenDoneOrder DEF ServerEnd, Sock
<1>3. CASE FileSendDone(j)
    BY <1>3, FileSendDoneOrder
<1>4. CASE FileOpenFailed(j) \/ FileSendFailed(j)
    <2> DEFINE s == j.slot
    <2>1. s \in Slots /\ heap[s].live /\ Matches(j) /\ j.st = "err"
        BY <1>4, OthersJobs DEF FileOpenFailed, FileSendFailed
    <2>2. /\ CloseClient(heap[s].fd, heap, fdt) /\ jobs' = jobs \ {j}
          /\ MaySurvive(Stale(j)) /\ UNCHANGED <<backlog, peer, inbox, asked, ear>>
        BY <1>4 DEF FileOpenFailed, FileSendFailed, kernelVars
    <2>3. /\ jobs' = {i \in jobs : i.slot # s}
          /\ \A i \in jobs : i.slot = s => ~OpenDone(i)
        BY <2>1, <2>2, OthersJobs DEF OpenDone
    <2>4. alive' = TRUE
        BY <2>1, <2>2 DEF MaySurvive, Stale, Matches
    <2>5. /\ Holdings' /\ JobsMatch'
          /\ \A d \in Conns : ServerEnd(d) /\ d # heap[s].conn => ServerEnd(d)'
        BY <2>1, <2>2, <2>3, CloseHoldings
    <2>6. Turns'
        BY <2>1, <2>2, <2>3, CloseTurns
    <2> QED
        BY <2>1, <2>4, <2>5, <2>6 DEF Matches
<1> QED
    BY <1>1, <1>2, <1>3, <1>4

-----------------------------------------------------------------------------
(* The theorems.                                                           *)

LEMMA InvInit == Init => Inv
<1> SUFFICES ASSUME Init PROVE Inv
    OBVIOUS
<1>1. TypeOK
    BY InitType
<1>2. TableExact
    BY DEF Init, TableExact, NoClient
<1>3. Holdings /\ JobsMatch
    BY DEF Init, Holdings, Held, JobsMatch, NoClient, Free
<1>4. Turns
    BY DEF Init, Turns, Waiting, Hearing, LeftOpen, NoClient, Silence
<1> QED
    BY <1>1, <1>2, <1>3, <1>4 DEF Inv

\* HangUpForCause, of one step.
Caused == \A c \in Conns : ServerEnd(c) /\ ~ServerEnd(c)' =>
             \/ peer[c] # "up"
             \/ inbox[c] # <<>> /\ Head(inbox[c]).k \in {"junk", "upgrade"}
             \/ \E j \in jobs : j.conn = c /\ j.st = "err"

LEMMA InvStep ==
    ASSUME Orderly, Inv, Next
    PROVE  /\ Holdings' /\ JobsMatch' /\ Turns' /\ Caused
           /\ alive' = TRUE \/ \E c \in Conns : Excused(c)
<1>1. alive /\ alive = TRUE
    BY DEF Next, Inv, TypeOK
<1>2. PICK c \in Conns : PeerMove(c) \/ Worker(c)
    BY DEF Next
<1>3. CASE PeerMove(c)
    <2>1. fdt' = fdt /\ alive' = alive
        BY <1>3 DEF PeerMove, PeerConnect, PeerSend, PeerClose
    <2> QED
        BY <1>1, <1>3, <2>1, PeerMoveOrder DEF Caused, ServerEnd, Sock
<1>4. CASE AcceptHandler(c)
    <2>1. /\ Holdings' /\ JobsMatch' /\ Turns' /\ alive' = TRUE
          /\ \A n \in Fds : fdt'[n] = fdt[n] \/ fdt[n] = Free
        BY <1>4, AcceptOrder
    <2>2. \A d \in Conns : ServerEnd(d) => ServerEnd(d)'
        BY <2>1 DEF ServerEnd, Sock, Free
    <2> QED
        BY <2>1, <2>2 DEF Caused
<1>5. CASE ClientIoHandler(c)
    BY <1>1, <1>5, ClientIoOrder DEF Caused
<1>6. CASE EioThread(c)
    <2>1. PICK j \in jobs : EioOpen(j) \/ EioSend(j)
        BY <1>6 DEF EioThread
    <2>2. CASE EioOpen(j)
        <3>1. alive' = alive
            BY <2>2 DEF EioOpen
        <3> QED
            BY <1>1, <2>2, <3>1, EioOpenOrder DEF Caused, ServerEnd, Sock, Free
    <2>3. CASE EioSend(j)
        <3>1. alive' = alive /\ fdt' = fdt
            BY <2>3 DEF EioSend
        <3> QED
            BY <1>1, <2>3, <3>1, EioSendOrder DEF Caused, ServerEnd, Sock
    <2> QED
        BY <2>1, <2>2, <2>3
<1>7. CASE Callback(c)
    BY <1>7, CallbackOrder DEF Caused
<1> QED
    BY <1>2, <1>3, <1>4, <1>5, <1>6, <1>7 DEF Worker

LEMMA InvKept ==
    ASSUME Orderly, TypeOK', TableExact', Inv, [Next]_vars
    PROVE  Inv' /\ [Caused]_vars
<1>1. CASE UNCHANGED vars
    BY <1>1 DEF vars, Inv, Holdings, Holds, Apart, Held, JobsMatch, Matches, OpenDone, Turns,
       Waiting, Hearing, Served, LeftOpen, ServerEnd
<1>2. CASE Next
    BY <1>2, InvStep DEF Inv
<1> QED
    BY <1>1, <1>2

\* Whatever libeio, the files and the sockets do: as long as the peers take
\* turns, the parts of the worker agree on every number and every request.
THEOREM InvCorrect == ASSUME Orderly PROVE Spec => []Inv
<1>1. Inv /\ TypeOK' /\ TableExact' /\ [Next]_vars => Inv'
    BY InvKept
<1> QED
    BY <1>1, InvInit, TypeCorrect, TableCorrect, PTL DEF Spec

\* No number is used for another file or client than it was opened for, and
\* none is lost, however often the kernel reuses the numbers and eio_open or
\* eio_sendfile fails.
THEOREM OwnedCorrect == ASSUME Orderly PROVE Spec => []NumbersOwned
BY InvOwned, InvCorrect, PTL

\* Each peer hears whole answers, to its own requests, in the order it asked.
THEOREM ServiceCorrect == ASSUME Orderly PROVE Spec => []ServedInOrder
<1>1. Inv => ServedInOrder
    <2> SUFFICES ASSUME Inv, NEW c \in Conns
                 PROVE  /\ Len(ear[c].got) <= Len(asked[c])
                        /\ ear[c].got = SubSeq(asked[c], 1, Len(ear[c].got))
        BY DEF ServedInOrder
    <2>1. /\ Hearing(c) /\ ear[c].got \in Seq(Urls \cup {NULL}) /\ asked[c] \in Seq(Urls)
        BY DEF Inv, Turns, TypeOK, Ears
    <2> QED
        BY <2>1 DEF Hearing
<1> QED
    BY <1>1, InvCorrect, PTL

\* The worker hangs up only on a peer that left, sent junk or asked for what
\* libeio could not do.
THEOREM HangUpCorrect == ASSUME Orderly PROVE Spec => HangUpForCause
<1>1. Inv /\ TypeOK' /\ TableExact' /\ [Next]_vars => [Caused]_vars
    BY InvKept
<1> QED
    BY <1>1, InvCorrect, TypeCorrect, TableCorrect, PTL DEF Spec, HangUpForCause, Caused

\* EndsForCause, of one step.
Ended == alive /\ ~alive' => \E c \in Conns :
             /\ ServerEnd(c)
             /\ \/ /\ inbox[c] # <<>>
                   /\ LET u == Head(inbox[c]).url IN
                        \/ u \in BadEscapes
                        \/ u \in Urls /\ Reply(u) = "index" /\ LowestFree = {}
                \/ peer[c] # "up" /\ (inbox[c] # <<>> \/ \E j \in jobs : j.conn = c)

\* The worker ends only over a target that decode asserts against or over a
\* directory to list with no descriptor left: whatever else libeio, the files
\* and the sockets do, no failed request of one peer ends it for the others.
THEOREM SurvivalCorrect == ASSUME Orderly PROVE Spec => EndsForCause
<1>1. ASSUME Inv, [Next]_vars
      PROVE  [alive /\ ~alive' => \E c \in Conns : Excused(c)]_vars
    BY <1>1, InvStep
<1>2. ASSUME Inv, [Next]_vars
      PROVE  [Ended]_vars
    BY <1>1, <1>2 DEF Excused, Ended
<1> QED
    BY <1>2, InvCorrect, PTL DEF Spec, EndsForCause, Ended
==============================================================================
