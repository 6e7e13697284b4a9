-------------------------------- MODULE Workers --------------------------------
(***************************************************************************)
(* The processes of efserv: a parent that reads its configuration, binds   *)
(* the socket and forks workers, workers that share the socket's backlog,  *)
(* whoever presses ^C, and whoever starts the server again after it left.  *)
(***************************************************************************)
EXTENDS Naturals, Sequences, FiniteSets

CONSTANTS Workers,    \* DEFAULT_PROC_COUNT of them
          Conns,      \* the connections that will be made
          Files,      \* what the configuration file may hold, see Line
          MaxFds,     \* descriptors a worker has for clients and directories
          MaxStarts,  \* bound: how often the server is started
          MaxFaults   \* bound: forks that fail and workers that crash

ASSUME BoundsAssumption == MaxFds \in Nat /\ MaxStarts \in Nat /\ MaxFaults \in Nat

Keys   == {"port", "dir_indexs"}
Values == {"number", "junk"}  \* does stoi() take it?

\* A line is a setting or something sscanf makes none of, and may be as long as
\* getline's buffer allows ("full") or longer ("over").
NoSetting == [key |-> "none", value |-> "none"]
Settings  == [key : Keys, value : Values] \cup {NoSetting}
Line      == [setting : Settings, size : {"short", "full", "over"}]
ASSUME FilesAssumption == Files \subseteq Seq(Line)

VARIABLES file,    \* the configuration file
          line,    \* the next line to read
          failed,  \* the stream's failbit
          ini,     \* the parent's ServEnv: a value for the keys that were set
          daemon,  \* --deamon, the same at every start
          parent,  \* where main() is
          worker,  \* what each worker does
          conf,    \* the ServEnv the workers were forked with
          backlog, \* connections to be accepted
          conn,    \* what became of each connection
          hit,     \* workers with a SIGINT to handle ...
          struck,  \* ... and whether the parent has one
          taken,   \* connections each worker accepted
          leaked,  \* ev_io each worker allocated for nothing ...
          starved, \* ... not counted in those that met accept() without descriptors
          open,    \* clients each worker has now
          dirs,    \* directories each worker opened and never closes
          accepted, starts, faults

reading  == <<file, line, failed, ini>>
sockets  == <<backlog, conn>>
counts   == <<taken, leaked, accepted>>
tables   == <<open, dirs, starved>>
vars     == <<reading, daemon, parent, worker, conf, sockets, hit, struck,
              counts, tables, starts, faults>>

Default == [k \in Keys |-> "default"]
Alive   == {w \in Workers : worker[w] \in {"idle", "woken"}}
Full(w) == open[w] + dirs[w] = MaxFds
Held    == parent \in {"fork", "wait"} \/ Alive # {}

Init == /\ file \in Files /\ line = 1 /\ failed = FALSE /\ ini = Default
        /\ daemon \in BOOLEAN /\ parent = "parse"
        /\ worker = [w \in Workers |-> "none"] /\ conf = Default
        /\ backlog = <<>> /\ conn = [c \in Conns |-> "new"]
        /\ hit = {} /\ struck = FALSE
        /\ taken = [w \in Workers |-> 0] /\ leaked = [w \in Workers |-> 0]
        /\ open = [w \in Workers |-> 0] /\ dirs = [w \in Workers |-> 0] /\ starved = {}
        /\ accepted = 0 /\ starts = 1 /\ faults = 0

\* Whoever is last to leave takes the socket with it, and what waited there.
Closed(par, work) ==
    LET held == par \in {"fork", "wait"}
                \/ \E w \in Workers : work[w] \in {"idle", "woken"}
    IN  /\ backlog' = IF held THEN backlog ELSE <<>>
        /\ conn' = [c \in Conns |-> IF conn[c] = "queued" /\ ~held THEN "reset" ELSE conn[c]]

-----------------------------------------------------------------------------
(* main() *)

\* Ini::set: a later line replaces an earlier one.
SetOnce(map, s) == IF s = NoSetting \/ map[s.key] # "default" THEN map  \* mutant
                   ELSE [map EXCEPT ![s.key] = s.value]
Set(map, s) == IF s = NoSetting THEN map ELSE [map EXCEPT ![s.key] = s.value]

\* getline fails when the buffer is full and the line is not over; after that
\* every getline fails, and none meets the end of the file.
OverrunsFull(l) == l.size # "short"  \* mutant: one byte less
Overruns(l) == l.size = "over"

\* One round of the loop in Ini::parse that reads a line.
ReadLine ==
    /\ parent = "parse" /\ ~struck /\ ~failed /\ line <= Len(file)
    /\ line' = line + 1
    /\ IF Overruns(file[line])
       THEN failed' = TRUE /\ UNCHANGED ini
       ELSE ini' = Set(ini, file[line].setting) /\ UNCHANGED failed
    /\ UNCHANGED <<file, daemon, parent, worker, conf, sockets, hit, struck,
                   counts, tables, starts, faults>>

\* The file is over.  bind(): a port that is not a number is an exception that
\* nobody catches, and a port somebody still listens on is an error.
Bind ==
    /\ parent = "parse" /\ ~struck /\ ~failed /\ line > Len(file)
    /\ \/ /\ ini["port"] = "junk" \/ Held
          /\ parent' = "gone"
          /\ UNCHANGED <<worker, conf, counts, tables>>
       \/ /\ ini["port"] # "junk" /\ ~Held
          /\ parent' = "fork"
          /\ conf' = ini
          /\ worker' = [w \in Workers |-> "none"]
          /\ taken' = [w \in Workers |-> 0] /\ leaked' = [w \in Workers |-> 0]
          /\ open' = [w \in Workers |-> 0] /\ dirs' = [w \in Workers |-> 0] /\ starved' = {}
          /\ accepted' = 0
    /\ UNCHANGED <<reading, daemon, sockets, hit, struck, starts, faults>>

\* A round of the loop that forks.  A fork is not begun with a signal pending.
Fork(w) ==
    /\ parent = "fork" /\ ~struck /\ worker[w] = "none"
    /\ worker' = [worker EXCEPT ![w] = "idle"]
    /\ UNCHANGED <<reading, daemon, parent, conf, sockets, hit, struck, counts, tables, starts, faults>>

\* All are forked, or one fork failed.
ForkEnds ==
    /\ parent = "fork" /\ ~struck
    /\ \/ /\ \A w \in Workers : worker[w] # "none"
          /\ UNCHANGED faults
       \/ /\ \E w \in Workers : worker[w] = "none"
          /\ faults < MaxFaults /\ faults' = faults + 1
    /\ parent' = "wait"
    /\ UNCHANGED <<reading, daemon, worker, conf, sockets, hit, struck, counts, tables, starts>>

\* wait(NULL) returns for the first child that ended, or if there is none.
NoWait == TRUE  \* mutant: wait(NULL) is not called
WaitForAnEnd == \E w \in Workers : worker[w] = "gone"  \* mutant: not without a child
WaitReturns == \/ \E w \in Workers : worker[w] = "gone"
               \/ \A w \in Workers : worker[w] = "none"
WaitEnds ==
    /\ parent = "wait" /\ ~struck
    /\ daemon \/ WaitReturns
    /\ parent' = "gone" /\ Closed("gone", worker)
    /\ UNCHANGED <<reading, daemon, worker, conf, hit, struck, counts, tables, starts, faults>>

\* Somebody starts the server again, perhaps with another configuration.
Start ==
    /\ parent = "gone" /\ starts < MaxStarts /\ starts' = starts + 1
    /\ parent' = "parse" /\ struck' = FALSE
    /\ file' \in Files /\ line' = 1 /\ failed' = FALSE /\ ini' = Default
    /\ UNCHANGED <<daemon, worker, conf, sockets, hit, counts, tables, faults>>

-----------------------------------------------------------------------------
(* ^C *)

\* The terminal signals the processes of the job in the foreground: those the
\* parent has forked, as long as it is there itself.
Interrupt ==
    /\ parent # "gone" /\ ~struck
    /\ struck' = TRUE
    /\ hit' = IF parent = "parse" THEN hit ELSE Alive
    /\ UNCHANGED <<reading, daemon, parent, worker, conf, sockets, counts, tables, starts, faults>>

\* signal_handler: exit(0), in the parent and in each worker.
ParentExits ==
    /\ struck /\ parent # "gone"
    /\ parent' = "gone" /\ Closed("gone", worker)
    /\ UNCHANGED <<reading, daemon, worker, conf, hit, struck, counts, tables, starts, faults>>

LeaveHit(w) ==  \* mutant: the signal stays behind
    /\ worker' = [worker EXCEPT ![w] = "gone"] /\ Closed(parent, worker')
    /\ UNCHANGED <<reading, daemon, parent, conf, struck, hit, counts, tables, starts>>
Leave(w) ==
    /\ worker' = [worker EXCEPT ![w] = "gone"] /\ hit' = hit \ {w}
    /\ Closed(parent, worker')
    /\ UNCHANGED <<reading, daemon, parent, conf, struck, counts, tables, starts>>

HandlerReturns(w) ==  \* mutant: the worker's handler does not exit
    w \in hit /\ hit' = hit \ {w} /\ UNCHANGED faults
    /\ UNCHANGED <<reading, daemon, parent, worker, conf, sockets, struck, counts, tables, starts>>
SignalHandler(w) == w \in hit /\ Leave(w) /\ UNCHANGED faults

-----------------------------------------------------------------------------
(* The workers *)

Connect(c) ==
    /\ Held /\ conn[c] = "new"
    /\ conn' = [conn EXCEPT ![c] = "queued"] /\ backlog' = Append(backlog, c)
    /\ UNCHANGED <<reading, daemon, parent, worker, conf, hit, struck, counts, tables, starts, faults>>

\* The socket is readable in every worker's epoll as long as somebody waits.
Wake(w) ==
    /\ worker[w] = "idle" /\ backlog # <<>>
    /\ worker' = [worker EXCEPT ![w] = "woken"]
    /\ UNCHANGED <<reading, daemon, parent, conf, sockets, hit, struck, counts, tables, starts, faults>>

\* accept_handler allocates the watcher first and loses it when accept() fails:
\* because another worker was faster, or for want of a descriptor.  In this
\* case the connection stays where it is and wakes the worker again, as often
\* as the loop turns: what that costs is not counted.
\* (Its exits for a number too large or taken are EventLoop's.)
Gets(w) == backlog # <<>> /\ ~Full(w)
LosesAlways(w) == TRUE  \* mutant: the watcher is not kept either
Loses(w) == ~Gets(w)
AcceptHandler(w) ==
    /\ worker[w] = "woken" /\ worker' = [worker EXCEPT ![w] = "idle"]
    /\ starved' = IF backlog # <<>> /\ Full(w) THEN starved \cup {w} ELSE starved
    /\ leaked' = IF Loses(w) /\ w \notin starved' THEN [leaked EXCEPT ![w] = @ + 1] ELSE leaked
    /\ \/ /\ Gets(w)
          /\ backlog' = Tail(backlog)
          /\ conn' = [conn EXCEPT ![Head(backlog)] = "accepted"]
          /\ taken' = [taken EXCEPT ![w] = @ + 1] /\ accepted' = accepted + 1
          /\ open' = [open EXCEPT ![w] = @ + 1]
       \/ /\ ~Gets(w)
          /\ UNCHANGED <<sockets, taken, accepted, open>>
    /\ UNCHANGED <<reading, daemon, parent, conf, hit, struck, dirs, starts, faults>>

\* close_client
CloseClient(w) ==
    /\ w \in Alive /\ open[w] > 0 /\ open' = [open EXCEPT ![w] = @ - 1]
    /\ UNCHANGED <<reading, daemon, parent, worker, conf, sockets, hit, struck, counts,
                   dirs, starved, starts, faults>>

\* dir_indexs is read when a directory is asked for; again nobody catches.
\* listDir() never closes what it opened, and without a descriptor left it
\* reads from NULL.
ListsDirectory(w) == conf["dir_indexs"] # "junk" /\ ~Full(w)
AskDirectory(w) ==
    /\ w \in Alive /\ open[w] > 0
    /\ \/ /\ ListsDirectory(w) /\ dirs' = [dirs EXCEPT ![w] = @ + 1]
          /\ UNCHANGED <<reading, daemon, parent, worker, conf, sockets, hit, struck, counts,
                         open, starved, starts>>
       \/ ~ListsDirectory(w) /\ Leave(w)
    /\ UNCHANGED faults

\* A worker crashes, as EventLoop and HttpReader say it may.
Crash(w) == /\ w \in Alive /\ faults < MaxFaults /\ faults' = faults + 1
            /\ Leave(w)

-----------------------------------------------------------------------------

Main    == ReadLine \/ Bind \/ (\E w \in Workers : Fork(w)) \/ ForkEnds \/ WaitEnds
Work(w) == Wake(w) \/ AcceptHandler(w)
Next == \/ Main \/ Start \/ Interrupt \/ ParentExits
        \/ \E c \in Conns : Connect(c)
        \/ \E w \in Workers : \/ Work(w) \/ CloseClient(w) \/ AskDirectory(w)
                              \/ SignalHandler(w) \/ Crash(w)

\* Every process that can run does so in the end.  Of the clients nothing is
\* assumed: they may stay for ever.
Fairness == /\ WF_vars(Main) /\ WF_vars(ParentExits)
            /\ \A w \in Workers : WF_vars(Work(w)) /\ WF_vars(SignalHandler(w))
Spec == Init /\ [][Next]_vars /\ Fairness

-----------------------------------------------------------------------------

TypeOK == /\ line \in Nat /\ ini \in [Keys -> Values \cup {"default"}]
          /\ parent \in {"parse", "fork", "wait", "gone"}
          /\ worker \in [Workers -> {"none", "idle", "woken", "gone"}]
          /\ conn \in [Conns -> {"new", "queued", "accepted", "reset"}]
          /\ hit \subseteq Alive
          /\ taken \in [Workers -> Nat] /\ leaked \in [Workers -> Nat] /\ accepted \in Nat
          /\ open \in [Workers -> Nat] /\ dirs \in [Workers -> Nat]
          /\ \A w \in Workers : open[w] + dirs[w] <= MaxFds
          /\ starved \subseteq Workers

\* The herd's cost: a worker that accept() never failed for want of descriptors
\* has lost at most one watcher for each connection that another accepted.
LeakBounded == \A w \in Workers \ starved : leaked[w] <= accepted - taken[w]

\* As long as no worker has ended, the parent of a server in the foreground is
\* there, so ^C reaches every worker it has not reached already.
ParentStays ==
    parent = "gone" /\ ~daemon /\ Alive \ hit # {} => \E w \in Workers : worker[w] = "gone"

\* What the file says: the last line that sets a key.
FileSays(k) ==
    LET sets == {i \in DOMAIN file : file[i].setting.key = k}
    IN  IF sets = {} THEN "default"
        ELSE file[CHOOSE i \in sets : \A j \in sets : j <= i].setting.value

\* The workers run with what the file of this start says, whatever ran before,
\* and no worker runs with a port that is not a number.
ConfigTakesEffect ==
    parent \in {"fork", "wait"} => /\ \A k \in Keys : conf[k] = FileSays(k)
                                   /\ conf["port"] # "junk"

\* A worker accepts each connection, or the last process that holds the socket
\* leaves and takes it along; it waits for ever only if every worker that runs
\* is out of descriptors for ever.
NoneForgotten ==
    \A c \in Conns : <>[](conn[c] = "queued")
                     => <>[](Alive # {} /\ \A w \in Alive : Full(w))

\* ^C on a server that listens frees the port in the end.
InterruptStops == (struck /\ parent \in {"fork", "wait"}) ~> ~Held

\* If every line fits into the buffer, the configuration is read to its end.
Fits == \A i \in DOMAIN file : file[i].size # "over"
StartsUp == parent = "parse" /\ Fits ~> parent # "parse"
==============================================================================
