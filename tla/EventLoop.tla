------------------------------ MODULE EventLoop ------------------------------
(***************************************************************************)
(* One worker process of efserv: the libev loop of EventLoop.cpp, the      *)
(* thread pool of libeio that opens and sends files for it, and the peers. *)
(*                                                                         *)
(* The loop's thread runs one handler at a time, so accept_handler, each   *)
(* exit of client_io_handler, file_open_done and file_send_done are one    *)
(* action each.  Between two of them the pool's threads run open() and     *)
(* sendfile() (EioOpen, EioSend), in any order: several threads take jobs  *)
(* and finish them when they finish.                                       *)
(*                                                                         *)
(* What the C++ shares by number or by pointer is shared so here: file     *)
(* descriptors are numbers the kernel hands out lowest first and reuses,   *)
(* a ClientInfo is a heap cell that new may reuse after delete, and a job  *)
(* holds the raw pointer and the raw numbers eio_open and eio_sendfile got. *)
(***************************************************************************)
EXTENDS Respond, Integers, Sequences

CONSTANTS Conns,               \* the peers, each with one connection at a time
          Slots,               \* heap cells for ClientInfo
          Urls,                \* the request targets of this instance
          Site,                \* what the server's data say of each target
          BadEscapes,          \* the targets with an escape decode asserts against
          DirIndexs,           \* the dir_indexs setting
          FdLimit,             \* RLIMIT_NOFILE less the descriptors always open
          MAX_ALLOWED_CLIENT,  \* the length of client_list
          MaxReq,              \* bound: requests a peer makes on a connection
          Unruly,              \* which departures from order may happen
          NULL

\* What a peer may do beyond waiting for its answer and for the worker's
\* callback before its next move ...
PeerDepartures == {"pipelining",   \* send before the answer came
                   "early_close",  \* leave before the answer came
                   "quick",        \* move on before the callback of its answer
                   "upgrade"}      \* ask for a protocol upgrade
\* ... and what may go wrong around the worker.
Faults == {"short_send",  \* send or sendfile meets a full socket buffer
           "vanish",      \* the file is gone when open() comes
           "oom"}         \* eio_open or eio_sendfile returns NULL

ASSUME SiteAssumption ==
    Site \in [Urls -> Facts] /\ DirIndexs \in BOOLEAN /\ BadEscapes \subseteq Urls
ASSUME NumberAssumption ==
    FdLimit \in Nat \ {0} /\ MAX_ALLOWED_CLIENT \in Nat \ {0} /\ MaxReq \in Nat
ASSUME NullAssumption == NULL \notin Conns \cup Slots \cup Urls
ASSUME UnrulyAssumption == Unruly \subseteq PeerDepartures \cup Faults

Fds   == 0 .. FdLimit - 1
NoFd  == -1
Msgs  == [k : {"get", "upgrade"}, url : Urls] \cup [k : {"junk"}, url : {NULL}]
Reply(u) == Answer(Site[u], DirIndexs)

VARIABLES
    alive,       \* the worker process has not died
    clientList,  \* client_list: descriptor -> ClientInfo or NULL
    heap,        \* the ClientInfo cells; a deleted one keeps its last content
    fdt,         \* the process's descriptor table
    jobs,        \* eio requests not yet called back; conn and n are for the reader
    backlog,     \* connections the kernel completed, not yet accepted
    peer,        \* "away", "up" or "closed": the peer's end
    inbox,       \* what the peer sent and the worker has not read
    asked,       \* the targets respond_to_client has run for, in order
    ear          \* what the peer decoded: responses got, body awaited

vars == <<alive, clientList, heap, fdt, jobs, backlog, peer, inbox, asked, ear>>
kernelVars == <<backlog, peer, inbox, asked>>

Free       == [k |-> "free", of |-> NULL]
Sock(c)    == [k |-> "sock", of |-> c]
File(u)    == [k |-> "file", of |-> u]
ListedDir  == [k |-> "dir", of |-> NULL]
NoClient   == [live |-> FALSE, conn |-> NULL, fd |-> 0, file |-> NULL, fileFd |-> NoFd]
Silence    == [got |-> <<>>, wire |-> NULL]

Init ==
    /\ alive = TRUE
    /\ clientList = [fd \in Fds |-> NULL]
    /\ heap = [s \in Slots |-> NoClient]
    /\ fdt = [fd \in Fds |-> Free]
    /\ jobs = {}
    /\ backlog = {}
    /\ peer = [c \in Conns |-> "away"]
    /\ inbox = [c \in Conns |-> <<>>]
    /\ asked = [c \in Conns |-> <<>>]
    /\ ear = [c \in Conns |-> Silence]

-----------------------------------------------------------------------------
(* The kernel: descriptors and sockets.                                    *)

\* accept(), open() and opendir() get the lowest free number, if there is one.
LowestFree == {x \in Fds : fdt[x] = Free /\ \A y \in Fds : fdt[y] = Free => x <= y}

ServerEnd(c)  == \E fd \in Fds : fdt[fd] = Sock(c)
Reaches(fd)   == fdt[fd].k = "sock" /\ peer[fdt[fd].of] = "up"
\* A write to a socket whose peer left may raise SIGPIPE, which nobody ignores.
MayBreak(fd)  == fdt[fd].k = "sock" /\ peer[fdt[fd].of] # "up"

\* The peer's decoder.  It counts a response it has no open request for, and
\* bytes that do not fit the response it is reading, as NULL and stops there.
Open(c) == Len(ear[c].got) < Len(asked[c]) + Len(inbox[c])
Deaf(c) == ear[c].got # <<>> /\ ear[c].got[Len(ear[c].got)] = NULL
Heard(c, u, what) ==
    LET e == ear[c] IN
    CASE Deaf(c) \/ (what = "part" /\ e.wire = u) -> e
      [] ~Deaf(c) /\ what = "page" /\ e.wire = NULL /\ Open(c) ->
            [e EXCEPT !.got = Append(e.got, u)]
      [] ~Deaf(c) /\ what = "head" /\ e.wire = NULL /\ Open(c) ->
            [e EXCEPT !.wire = u]
      [] ~Deaf(c) /\ what = "body" /\ e.wire = u /\ u # NULL ->
            [got |-> Append(e.got, u), wire |-> NULL]
      [] OTHER -> [got |-> Append(e.got, NULL), wire |-> NULL]

\* Bytes written to descriptor fd reach whoever is behind it now.
Send(fd, u, what) ==
    ear' = IF Reaches(fd)
           THEN [ear EXCEPT ![fdt[fd].of] = Heard(fdt[fd].of, u, what)]
           ELSE ear
MaySurvive(risk) == alive' \in (IF risk THEN BOOLEAN ELSE {TRUE})

-----------------------------------------------------------------------------
(* The peers.                                                              *)

Idle(c) == /\ inbox[c] = <<>> /\ ear[c].wire = NULL
           /\ Len(ear[c].got) = Len(asked[c])
Settled(c) == Idle(c) /\ ("quick" \in Unruly \/ \A j \in jobs : j.conn # c)
\* The peer can only give up: the worker closed, or a body will not come.
Hopeless(c) == /\ c \notin backlog
               /\ \A j \in jobs : j.conn # c
               /\ \/ ~ServerEnd(c)
                  \/ inbox[c] = <<>> /\ (ear[c].wire # NULL \/ Deaf(c))

\* Nothing of an earlier connection of this peer is left in the worker.
Forgotten(c) == /\ c \notin backlog /\ ~ServerEnd(c)
                /\ \A s \in Slots : heap[s].live => heap[s].conn # c
                /\ \A j \in jobs : j.conn # c

PeerConnect(c) ==
    /\ peer[c] # "up" /\ Forgotten(c)
    /\ peer' = [peer EXCEPT ![c] = "up"]
    /\ backlog' = backlog \cup {c}
    /\ inbox' = [inbox EXCEPT ![c] = <<>>]
    /\ asked' = [asked EXCEPT ![c] = <<>>]
    /\ ear' = [ear EXCEPT ![c] = Silence]
    /\ UNCHANGED <<alive, clientList, heap, fdt, jobs>>

PeerSend(c, m) ==
    /\ peer[c] = "up" /\ (c \in backlog \/ ServerEnd(c))
    /\ Len(asked[c]) + Len(inbox[c]) < MaxReq
    /\ Settled(c) \/ "pipelining" \in Unruly
    /\ m.k = "upgrade" => "upgrade" \in Unruly
    /\ inbox' = [inbox EXCEPT ![c] = Append(inbox[c], m)]
    /\ UNCHANGED <<alive, clientList, heap, fdt, jobs, backlog, peer, asked, ear>>

PeerClose(c) ==
    /\ peer[c] = "up"
    /\ Settled(c) \/ Hopeless(c) \/ "early_close" \in Unruly
    /\ peer' = [peer EXCEPT ![c] = "closed"]
    /\ UNCHANGED <<alive, clientList, heap, fdt, jobs, backlog, inbox, asked, ear>>

-----------------------------------------------------------------------------
(* accept_handler: one action per exit.  With no free descriptor accept()  *)
(* fails and the handler returns, leaving the connection in the backlog.   *)

AcceptTooBig(c) ==
    /\ c \in backlog
    /\ \E x \in LowestFree : x > MAX_ALLOWED_CLIENT
    /\ backlog' = backlog \ {c}
    /\ UNCHANGED <<alive, clientList, heap, fdt, jobs, peer, inbox, asked, ear>>

\* client_list[MAX_ALLOWED_CLIENT] is past the array: it may read as anything.
AcceptOccupied(c) ==
    /\ c \in backlog
    /\ \E x \in LowestFree :
        /\ x <= MAX_ALLOWED_CLIENT
        /\ clientList[x] # NULL \/ x = MAX_ALLOWED_CLIENT
        /\ fdt' = [fdt EXCEPT ![x] = Sock(c)]
    /\ backlog' = backlog \ {c}
    /\ UNCHANGED <<alive, clientList, heap, jobs, peer, inbox, asked, ear>>

\* The store past the array overwrites a neighbour: the worker may not survive.
AcceptInstall(c) ==
    /\ c \in backlog
    /\ \E x \in LowestFree, s \in Slots :
        /\ x <= MAX_ALLOWED_CLIENT /\ clientList[x] = NULL
        /\ ~heap[s].live
        /\ fdt' = [fdt EXCEPT ![x] = Sock(c)]
        /\ clientList' = [clientList EXCEPT ![x] = s]
        /\ heap' = [heap EXCEPT ![s] = [live |-> TRUE, conn |-> c, fd |-> x,
                                        file |-> NULL, fileFd |-> NoFd]]
        /\ MaySurvive(x = MAX_ALLOWED_CLIENT)
    /\ backlog' = backlog \ {c}
    /\ UNCHANGED <<jobs, peer, inbox, asked, ear>>

AcceptHandler(c) == AcceptTooBig(c) \/ AcceptOccupied(c) \/ AcceptInstall(c)

-----------------------------------------------------------------------------
(* close_client, run on the heap h and the descriptor table t that the     *)
(* calling handler has made so far.  ~ClientInfo closes by number.         *)

ClosedFileOnly(t, fd, fileFd) ==  \* mutant: the socket is not closed
    [n \in Fds |-> IF n = fileFd THEN Free ELSE t[n]]
Closed(t, fd, fileFd) == [n \in Fds |-> IF n = fd \/ n = fileFd THEN Free ELSE t[n]]

CloseClientKeepingEntry(fd, h, t) ==  \* mutant: client_list[fd] is not reset
    \/ clientList[fd] = NULL /\ heap' = h /\ fdt' = t /\ UNCHANGED clientList
    \/ \E s \in Slots :
        /\ clientList[fd] = s
        /\ fdt' = Closed(t, h[s].fd, h[s].fileFd)
        /\ heap' = [h EXCEPT ![s].live = FALSE]
        /\ UNCHANGED clientList
CloseClient(fd, h, t) ==
    \/ /\ clientList[fd] = NULL
       /\ heap' = h /\ fdt' = t /\ UNCHANGED clientList
    \/ \E s \in Slots :
        /\ clientList[fd] = s
        /\ fdt' = Closed(t, h[s].fd, h[s].fileFd)
        /\ heap' = [h EXCEPT ![s].live = FALSE]
        /\ clientList' = [clientList EXCEPT ![fd] = NULL]

-----------------------------------------------------------------------------
(* client_io_handler.  A read event is handled one message at a time; a    *)
(* buffer with several is the run of that many actions.                    *)

\* The watcher of fd sees the socket it was started on: epoll forgets a
\* descriptor when its number is closed.
Watched(fd, s) == clientList[fd] = s /\ fdt[fd] = Sock(heap[s].conn)

OpenJob(s, u) == [conn |-> heap[s].conn, n |-> Len(asked[heap[s].conn]), slot |-> s,
                  op |-> "open", st |-> "queued", file |-> u, in |-> NoFd, out |-> NoFd]

\* What is made in memory goes through one send() on a socket that does not
\* block, and nobody looks at its count.  A buffer with room takes it whole;
\* where earlier answers lie unread it may take a part, or nothing.  Of a part
\* the peer awaits the rest, as it awaits the body after a head.
PiledUp(fd) == /\ {"short_send", "pipelining"} \subseteq Unruly
               /\ Reaches(fd) /\ ear[fdt[fd].of] # Silence
SendOnce(fd, u, what) ==
    \/ Send(fd, u, what)
    \/ PiledUp(fd) /\ Send(fd, u, "head")
    \/ PiledUp(fd) /\ UNCHANGED ear

\* An answer made in memory: respondErr or respondIndexs.  A listing may be
\* longer than an empty buffer.
PageHeadOnly(fd, u) ==  \* mutant: the head without the content
    Send(fd, u, "head") /\ MaySurvive(MayBreak(fd)) /\ UNCHANGED jobs
SendPage(fd, u) ==
    /\ \/ SendOnce(fd, u, "page")
       \/ "short_send" \in Unruly /\ Send(fd, u, "head")
    /\ MaySurvive(MayBreak(fd))
    /\ UNCHANGED jobs

\* respondRedirection sends no Content-Length: the peer waits for a body.
SendRedirection(fd, u) ==
    SendOnce(fd, u, "head") /\ MaySurvive(MayBreak(fd)) /\ UNCHANGED jobs

\* listDir() makes the descriptor table t: opendir() takes a number for good,
\* and without a free one readdir(NULL) is fatal.
ListDir(t) == \E x \in LowestFree : t = [fdt EXCEPT ![x] = ListedDir]
ListDirDies(t) == LowestFree = {} /\ t = fdt /\ alive' = FALSE

\* respond_to_client; t is the descriptor table after it.
RespondToClient(fd, s, u, t) ==
    \/ /\ Reply(u) = "open" /\ t = fdt
       /\ jobs' = jobs \cup {OpenJob(s, u)}
       /\ UNCHANGED <<alive, ear>>
    \/ Reply(u) = "open" /\ t = fdt /\ "oom" \in Unruly /\ SendPage(fd, u)
    \/ Reply(u) = "index" /\ ListDir(t) /\ SendPage(fd, u)
    \/ Reply(u) = "index" /\ ListDirDies(t) /\ UNCHANGED <<jobs, ear>>
    \/ Reply(u) = "301" /\ t = fdt /\ SendRedirection(fd, u)
    \/ Reply(u) \in {"403", "404", "500"} /\ t = fdt /\ SendPage(fd, u)

OnUrlUnset(s, u) == heap  \* mutant: no FileHandler is made
OnUrl(s, u) == [heap EXCEPT ![s].file = u]

\* What client_io_handler does when the parser has run over a message.
AfterParseClosing(m, fd, h, t) ==  \* mutant: every message ends its connection
    CloseClient(fd, h, t)
AfterParse(m, fd, h, t) ==
    \/ m.k = "get" /\ heap' = h /\ fdt' = t /\ UNCHANGED clientList
    \/ m.k = "upgrade" /\ CloseClient(fd, h, t)

\* on_url and on_message_complete inside http_parser_execute.
ReadRequest(fd, s) ==
    /\ Watched(fd, s)
    /\ LET c == heap[s].conn IN
        /\ inbox[c] # <<>> /\ Head(inbox[c]).k \in {"get", "upgrade"}
        /\ LET m == Head(inbox[c]) IN
            /\ inbox' = [inbox EXCEPT ![c] = Tail(inbox[c])]
            /\ asked' = [asked EXCEPT ![c] = Append(asked[c], m.url)]
            /\ \E t \in {fdt} \cup {[fdt EXCEPT ![x] = ListedDir] : x \in LowestFree} :
                /\ RespondToClient(fd, s, m.url, t)
                /\ AfterParse(m, fd, OnUrl(s, m.url), t)
    /\ UNCHANGED <<backlog, peer>>

\* UrlEncode::decode asserts in on_url that every escape is whole and of
\* hexadecimal digits.  A build without assertions goes on: ReadRequest.
ReadBadEscape(fd, s) ==
    /\ Watched(fd, s)
    /\ LET c == heap[s].conn IN
        inbox[c] # <<>> /\ Head(inbox[c]).url \in BadEscapes
    /\ alive' = FALSE
    /\ UNCHANGED <<clientList, heap, fdt, jobs, kernelVars, ear>>

ReadJunkDying(fd, s) ==  \* mutant: an error of the parser is fatal
    /\ Watched(fd, s)
    /\ inbox[heap[s].conn] # <<>> /\ Head(inbox[heap[s].conn]).k = "junk"
    /\ alive' = FALSE
    /\ UNCHANGED <<clientList, heap, fdt, jobs, kernelVars, ear>>
\* http_parser_execute stops short of the buffer's end.
ReadJunk(fd, s) ==
    /\ Watched(fd, s)
    /\ LET c == heap[s].conn IN
        /\ inbox[c] # <<>> /\ Head(inbox[c]).k = "junk"
        /\ inbox' = [inbox EXCEPT ![c] = Tail(inbox[c])]
    /\ CloseClient(fd, heap, fdt)
    /\ UNCHANGED <<alive, jobs, backlog, peer, asked, ear>>

\* recv() returns 0.
ReadEof(fd, s) ==
    /\ Watched(fd, s)
    /\ peer[heap[s].conn] # "up" /\ inbox[heap[s].conn] = <<>>
    /\ CloseClient(fd, heap, fdt)
    /\ UNCHANGED <<alive, jobs, kernelVars, ear>>

\* EV_ERROR, or FIONREAD refused: the number is no longer the client's socket.
ReadError(fd, s) ==
    /\ clientList[fd] = s /\ fdt[fd] # Sock(heap[s].conn)
    /\ CloseClient(fd, heap, fdt)
    /\ UNCHANGED <<alive, jobs, kernelVars, ear>>

ClientIoHandler(c) ==
    \E fd \in Fds, s \in Slots :
        /\ heap[s].conn = c
        /\ \/ ReadRequest(fd, s) \/ ReadBadEscape(fd, s)
           \/ ReadJunk(fd, s) \/ ReadEof(fd, s) \/ ReadError(fd, s)

-----------------------------------------------------------------------------
(* libeio's threads.                                                       *)

Finished(j, st, in) == (jobs \ {j}) \cup {[j EXCEPT !.st = st, !.in = in]}

EioOpen(j) ==
    /\ j.op = "open" /\ j.st = "queued"
    /\ \/ \E x \in LowestFree : /\ fdt' = [fdt EXCEPT ![x] = File(j.file)]
                                /\ jobs' = Finished(j, "ok", x)
       \/ /\ LowestFree = {} \/ "vanish" \in Unruly
          /\ jobs' = Finished(j, "err", NoFd) /\ UNCHANGED fdt
    /\ UNCHANGED <<alive, clientList, heap, kernelVars, ear>>

\* sendfile() asks for as many bytes as j.file had when it was stat'ed, of
\* whatever is open at j.in, to whatever is open at j.out.  The socket does
\* not block: a full buffer ends the call short, or with EAGAIN.
EioSend(j) ==
    /\ j.op = "send" /\ j.st = "queued"
    /\ \/ /\ Reaches(j.out) /\ fdt[j.in].k = "file"
          /\ Send(j.out, IF fdt[j.in] = File(j.file) THEN j.file ELSE NULL, "body")
          /\ jobs' = Finished(j, "ok", j.in)
       \/ /\ Reaches(j.out) /\ fdt[j.in].k = "file" /\ "short_send" \in Unruly
          /\ Send(j.out, j.file, "part")
          /\ jobs' = Finished(j, "ok", j.in)
       \/ /\ MayBreak(j.out) /\ fdt[j.in].k = "file"
          /\ jobs' = Finished(j, "ok", j.in) /\ UNCHANGED ear
       \/ /\ \/ ~Reaches(j.out) \/ fdt[j.in].k # "file"
             \/ "short_send" \in Unruly
          /\ jobs' = Finished(j, "err", j.in) /\ UNCHANGED ear
    /\ UNCHANGED <<alive, clientList, heap, fdt, kernelVars>>

EioThread(c) == \E j \in jobs : j.conn = c /\ (EioOpen(j) \/ EioSend(j))

-----------------------------------------------------------------------------
(* The callbacks, run by the loop from eio_poll().                         *)

\* The ClientInfo the job points to was deleted: reading it is undefined.  It
\* crashes, or finds the old content, or that of the ClientInfo there now.
Stale(j) == ~heap[j.slot].live \/ heap[j.slot].conn # j.conn

SendJobEarly(j) ==  \* mutant: client->file_fd is read before it is set
    [j EXCEPT !.op = "send", !.st = "queued", !.in = heap[j.slot].fileFd,
              !.file = heap[j.slot].file, !.out = heap[j.slot].fd]
SendJob(j) == [j EXCEPT !.op = "send", !.st = "queued",
                        !.file = heap[j.slot].file, !.out = heap[j.slot].fd]

\* respondHeader, with the type and the size of the client's FileHandler.
NoHeader(j) == UNCHANGED ear  \* mutant: the body without its head
\* The file follows a header that was cut too: the peer can decode neither.
SendHeader(j) ==
    LET fd == heap[j.slot].fd IN
    \/ SendOnce(fd, heap[j.slot].file, "head")
    \/ PiledUp(fd) /\ Send(fd, NULL, "page")

AfterOpenNothing(j) == jobs \ {j}  \* mutant: eio_sendfile is not called
AfterOpen(j) == (jobs \ {j}) \cup {SendJob(j)}

FileOpenFailed(j) ==
    /\ j.op = "open" /\ j.st = "err"
    /\ CloseClient(heap[j.slot].fd, heap, fdt)
    /\ jobs' = jobs \ {j}
    /\ MaySurvive(Stale(j))
    /\ UNCHANGED <<kernelVars, ear>>

\* client->file is NULL in a ClientInfo that has read no request yet.
FileOpenDone(j) ==
    /\ j.op = "open" /\ j.st = "ok"
    /\ \/ /\ heap[j.slot].file = NULL
          /\ alive' = FALSE /\ jobs' = jobs \ {j} /\ UNCHANGED <<heap, ear>>
       \/ /\ heap[j.slot].file # NULL
          /\ SendHeader(j)
          /\ heap' = [heap EXCEPT ![j.slot].fileFd = j.in]
          /\ \/ jobs' = AfterOpen(j)
             \/ "oom" \in Unruly /\ jobs' = jobs \ {j}
          /\ MaySurvive(Stale(j) \/ MayBreak(heap[j.slot].fd))
    /\ UNCHANGED <<clientList, fdt, kernelVars>>

FileSendFailed(j) ==
    /\ j.op = "send" /\ j.st = "err"
    /\ CloseClient(heap[j.slot].fd, heap, fdt)
    /\ jobs' = jobs \ {j}
    /\ MaySurvive(Stale(j))
    /\ UNCHANGED <<kernelVars, ear>>

FileSendDoneClosing(j) ==  \* mutant: a file sent ends its connection
    /\ j.op = "send" /\ j.st = "ok"
    /\ CloseClient(heap[j.slot].fd, heap, fdt)
    /\ jobs' = jobs \ {j} /\ MaySurvive(Stale(j))
    /\ UNCHANGED <<kernelVars, ear>>
FileSendDoneKeeping(j) ==  \* mutant: client->file_fd is not reset
    /\ j.op = "send" /\ j.st = "ok"
    /\ fdt' = Closed(fdt, heap[j.slot].fileFd, NoFd)
    /\ jobs' = jobs \ {j} /\ MaySurvive(Stale(j))
    /\ UNCHANGED <<clientList, heap, kernelVars, ear>>
FileSendDone(j) ==
    /\ j.op = "send" /\ j.st = "ok"
    /\ fdt' = Closed(fdt, heap[j.slot].fileFd, NoFd)
    /\ heap' = [heap EXCEPT ![j.slot].fileFd = NoFd]
    /\ jobs' = jobs \ {j}
    /\ MaySurvive(Stale(j))
    /\ UNCHANGED <<clientList, kernelVars, ear>>

Callback(c) == \E j \in jobs : /\ j.conn = c
                               /\ \/ FileOpenFailed(j) \/ FileOpenDone(j)
                                  \/ FileSendFailed(j) \/ FileSendDone(j)

-----------------------------------------------------------------------------
PeerMove(c) == PeerConnect(c) \/ PeerClose(c) \/ \E m \in Msgs : PeerSend(c, m)
Worker(c)   == AcceptHandler(c) \/ ClientIoHandler(c) \/ EioThread(c) \/ Callback(c)

Next == alive /\ \E c \in Conns : PeerMove(c) \/ Worker(c)
Spec == Init /\ [][Next]_vars

\* libev calls every pending watcher in each turn of the loop, libeio serves
\* its queue first in first out and the kernel its backlog: no connection is
\* passed over for ever.  Of the peers nothing is assumed.
Fairness == \A c \in Conns : /\ WF_vars(alive /\ AcceptHandler(c))
                             /\ WF_vars(alive /\ ClientIoHandler(c))
                             /\ WF_vars(alive /\ EioThread(c))
                             /\ WF_vars(alive /\ Callback(c))
FairSpec == Spec /\ Fairness

-----------------------------------------------------------------------------
(* Properties.                                                             *)

ClientInfos == [live : BOOLEAN, conn : Conns \cup {NULL}, fd : Fds,
                file : Urls \cup {NULL}, fileFd : Fds \cup {NoFd}]
Files       == [k : {"free", "dir"}, of : {NULL}] \cup [k : {"sock"}, of : Conns]
               \cup [k : {"file"}, of : Urls]
Jobs        == [conn : Conns, n : Nat, slot : Slots, op : {"open", "send"},
                st : {"queued", "ok", "err"}, file : Urls,
                in : Fds \cup {NoFd}, out : Fds \cup {NoFd}]
Ears        == [got : Seq(Urls \cup {NULL}), wire : Urls \cup {NULL}]
\* A finished open holds a descriptor; a send holds two.
Numbered(j) == /\ j.op = "open" /\ j.st = "ok" => j.in \in Fds
               /\ j.op = "send" => j.in \in Fds /\ j.out \in Fds

\* Every variable has its type, and every number a job will use is one.
TypeOK ==
    /\ alive \in BOOLEAN
    /\ clientList \in [Fds -> Slots \cup {NULL}]
    /\ heap \in [Slots -> ClientInfos]
    /\ fdt \in [Fds -> Files]
    /\ jobs \subseteq Jobs /\ \A j \in jobs : Numbered(j)
    /\ backlog \subseteq Conns
    /\ peer \in [Conns -> {"away", "up", "closed"}]
    /\ inbox \in [Conns -> Seq(Msgs)]
    /\ asked \in [Conns -> Seq(Urls)]
    /\ ear \in [Conns -> Ears]

\* client_list and the heap agree whatever the peers do: the entry of a number
\* is the one live ClientInfo that carries this number, so close_client always
\* deletes a live ClientInfo, deletes it once, and leaves no entry to a dead one.
TableExact ==
    /\ \A fd \in Fds : clientList[fd] # NULL =>
           heap[clientList[fd]].live /\ heap[clientList[fd]].fd = fd
    /\ \A s \in Slots : heap[s].live => clientList[heap[s].fd] = s

\* Every number the worker still means to use is open on what it was opened
\* for, and every open file or socket is one that somebody will close.
NumbersOwned ==
    /\ \A fd \in Fds : clientList[fd] # NULL =>
           fdt[fd] = Sock(heap[clientList[fd]].conn)
    /\ \A j \in jobs : /\ j.op = "open" /\ j.st = "ok" => fdt[j.in] = File(j.file)
                       /\ j.op = "send" => /\ fdt[j.in] = File(j.file)
                                           /\ fdt[j.out] = Sock(j.conn)
    /\ \A fd \in Fds : fdt[fd].k = "file" =>
           \/ \E j \in jobs : j.op = "open" /\ j.st = "ok" /\ j.in = fd
           \/ \E s \in Slots : heap[s].live /\ heap[s].fileFd = fd
    /\ \A fd \in Fds : fdt[fd].k = "sock" => clientList[fd] # NULL

\* A peer hears the answers to its requests, each whole, in the order it asked.
ServedInOrder ==
    \A c \in Conns : LET got == ear[c].got IN
        /\ Len(got) <= Len(asked[c])
        /\ got = SubSeq(asked[c], 1, Len(got))

\* A peer is not left in the middle of a file: as long as it waits for the
\* body, the worker has a job for it or has closed the connection.
NotLeftWaiting ==
    \A c \in Conns :
        /\ peer[c] = "up" /\ ServerEnd(c)
        /\ ear[c].wire # NULL /\ Reply(ear[c].wire) = "open"
        => \E j \in jobs : j.conn = c /\ j.op = "send"

\* The worker ends only in a handler of a connection that gave it a reason: a
\* target decode asserts against, a directory to list with no descriptor left,
\* or an answer under way to a peer that left.
EndsForCause ==
    [][alive /\ ~alive' => \E c \in Conns :
          /\ ServerEnd(c)
          /\ \/ /\ inbox[c] # <<>>
                /\ LET u == Head(inbox[c]).url IN
                     \/ u \in BadEscapes
                     \/ u \in Urls /\ Reply(u) = "index" /\ LowestFree = {}
             \/ peer[c] # "up" /\ (inbox[c] # <<>> \/ \E j \in jobs : j.conn = c)]_vars

\* accept_handler stays inside client_list.
InBounds == \A fd \in Fds : clientList[fd] # NULL => fd < MAX_ALLOWED_CLIENT

\* accept() never returns a number whose entry in client_list is still taken:
\* the handler prints a complaint if it does, and loses the connection.
EntryFreeOnAccept ==
    \A x \in LowestFree : backlog # {} /\ x < MAX_ALLOWED_CLIENT => clientList[x] = NULL

\* The worker closes a connection only for a reason of that connection: its
\* peer left or sent what the parser refuses, or a request of it failed.
HangUpForCause ==
    [][\A c \in Conns : ServerEnd(c) /\ ~ServerEnd(c)' =>
          \/ peer[c] # "up"
          \/ inbox[c] # <<>> /\ Head(inbox[c]).k \in {"junk", "upgrade"}
          \/ \E j \in jobs : j.conn = c /\ j.st = "err"]_vars

\* Every request is answered.
Answered ==
    \A c \in Conns : Open(c) /\ (\A i \in DOMAIN inbox[c] : inbox[c][i].k = "get")
                     ~> Len(ear[c].got) = Len(asked[c]) + Len(inbox[c])

\* Of a connection whose peer left nothing stays in the worker.
Released == \A c \in Conns : peer[c] = "closed" ~> Forgotten(c)
==============================================================================
