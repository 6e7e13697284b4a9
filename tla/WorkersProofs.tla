----------------------------- MODULE WorkersProofs -----------------------------
(***************************************************************************)
(* The processes of efserv for every number of workers, connections,       *)
(* starts and crashes, and every configuration file.                       *)
(***************************************************************************)
EXTENDS Workers, TLAPS

\* TypeOK, with the sequences and the truth values it leaves out.
Types == /\ TypeOK /\ line > 0
         /\ file \in Seq(Line) /\ backlog \in Seq(Conns)
         /\ daemon \in BOOLEAN /\ struck \in BOOLEAN /\ failed \in BOOLEAN

\* A worker that was woken in vain is about to lose one watcher more.
Watchers == \A w \in Workers \ starved :
    /\ leaked[w] + taken[w] <= accepted
    /\ worker[w] = "woken" /\ backlog = <<>> => leaked[w] + taken[w] + 1 <= accepted

\* A parent in the foreground left workers behind only if one of them ended
\* first or ^C is on its way to them; so too while another start is under way.
LeftBehind ==
    /\ parent \in {"parse", "gone"} /\ ~daemon /\ Alive \ hit # {} =>
            \E w \in Workers : worker[w] = "gone"
    /\ parent \in {"fork", "wait"} /\ struck => Alive \subseteq hit

\* What the first n lines of the file say of a key.
SaysUpTo(k, n, v) ==
    \/ v = "default" /\ \A i \in 1..n : file[i].setting.key # k
    \/ \E i \in 1..n : /\ file[i].setting.key = k /\ v = file[i].setting.value
                       /\ \A j \in 1..n : file[j].setting.key = k => j <= i

\* The map holds what the lines read so far say, and nothing of the parent's
\* configuration changes once it has bound its socket.
Config ==
    /\ parent = "parse" /\ ~failed =>
           line \in 1..Len(file) + 1 /\ \A k \in Keys : SaysUpTo(k, line - 1, ini[k])
    /\ parent \in {"fork", "wait"} =>
           conf["port"] # "junk" /\ \A k \in Keys : SaysUpTo(k, Len(file), conf[k])

WInv == Types /\ Watchers /\ LeftBehind /\ Config

-----------------------------------------------------------------------------

\* A server that was not started holds nothing.
LEMMA WInvInit == Init => WInv
<1> SUFFICES ASSUME Init PROVE WInv
    OBVIOUS
<1>1. file \in Seq(Line)
    BY FilesAssumption DEF Init
<1>2. Alive = {}
    BY DEF Init, Alive
<1>3. Types
  <2>1. TypeOK /\ line > 0
      BY <1>2, BoundsAssumption DEF Init, TypeOK, Default
  <2>2. backlog \in Seq(Conns)
      BY DEF Init
  <2>3. daemon \in BOOLEAN /\ struck \in BOOLEAN /\ failed \in BOOLEAN
      BY DEF Init
  <2> QED
      BY <1>1, <2>1, <2>2, <2>3 DEF Types
<1>4. Watchers
    BY DEF Init, Watchers
<1>5. LeftBehind
    BY <1>2 DEF Init, LeftBehind
<1>6. Config
  <2>1. line \in 1..Len(file) + 1
      BY <1>1 DEF Init
  <2>2. \A k \in Keys : SaysUpTo(k, line - 1, ini[k])
      BY DEF Init, SaysUpTo, Default
  <2> QED
      BY <2>1, <2>2 DEF Init, Config
<1> QED
    BY <1>3, <1>4, <1>5, <1>6 DEF WInv

\* Whoever leaves, the backlog stays or is empty; it is emptied only when no
\* worker is there.
LEMMA ClosedIs ==
    ASSUME NEW par, NEW work, Closed(par, work), Types
    PROVE  /\ backlog' = backlog \/ (backlog' = <<>> /\ ~\E w \in Workers : work[w] \in {"idle", "woken"})
           /\ backlog' \in Seq(Conns)
           /\ conn' \in [Conns -> {"new", "queued", "accepted", "reset"}]
<1>1. <<>> \in Seq(Conns)
    OBVIOUS
<1>2. conn \in [Conns -> {"new", "queued", "accepted", "reset"}] /\ backlog \in Seq(Conns)
    BY DEF Types, TypeOK
<1> QED
    BY <1>1, <1>2 DEF Closed

\* How a worker leaves: on a signal, on an exception, on a crash.
Leaves(w) == SignalHandler(w) \/ (AskDirectory(w) /\ Leave(w)) \/ Crash(w)
LEMMA LeavesBy ==
    ASSUME NEW w \in Workers, Leaves(w)
    PROVE  Leave(w) /\ w \in hit \cup Alive
BY DEF Leaves, SignalHandler, AskDirectory, Crash

\* What else a client may make its worker do: take one descriptor for good, or
\* give one back.
Serves(w) ==
    /\ w \in Alive
    /\ \/ open' = open /\ dirs' = [dirs EXCEPT ![w] = @ + 1] /\ ~Full(w)
       \/ dirs' = dirs /\ open' = [open EXCEPT ![w] = @ - 1] /\ open[w] > 0
    /\ UNCHANGED <<reading, daemon, parent, worker, conf, sockets, hit, struck, counts,
                   starved, starts, faults>>
LEMMA ServesBy ==
    ASSUME NEW w \in Workers, CloseClient(w) \/ AskDirectory(w)
    PROVE  Serves(w) \/ Leaves(w)
BY DEF CloseClient, AskDirectory, ListsDirectory, Serves, Leaves

-----------------------------------------------------------------------------

\* Every step keeps the types.
LEMMA TypesStep == Types /\ [Next]_vars => Types'
<1> SUFFICES ASSUME Types, [Next]_vars PROVE Types'
    OBVIOUS
<1> USE DEF reading, sockets, counts, tables
<1>1. CASE ReadLine
  <2>1. file[line] \in Line
      BY <1>1 DEF ReadLine, Types, TypeOK
  <2>2. ini' \in [Keys -> Values \cup {"default"}]
    <3>1. file[line].setting \in Settings
        BY <2>1 DEF Line
    <3>2. Set(ini, file[line].setting) \in [Keys -> Values \cup {"default"}]
      <4>1. CASE file[line].setting = NoSetting
          BY <4>1 DEF Set, Types, TypeOK
      <4>2. CASE file[line].setting # NoSetting
        <5>1. file[line].setting.key \in Keys /\ file[line].setting.value \in Values
            BY <3>1, <4>2 DEF Settings
        <5> QED
            BY <4>2, <5>1 DEF Set, Types, TypeOK
      <4> QED
          BY <4>1, <4>2
    <3> QED
        BY <1>1, <3>2 DEF ReadLine, Types, TypeOK
  <2>3. line' \in Nat /\ line' > 0
      BY <1>1 DEF ReadLine, Types, TypeOK
  <2>6. failed' \in BOOLEAN
    <3>1. failed' = TRUE \/ failed' = failed
        BY <1>1 DEF ReadLine
    <3> QED
        BY <3>1, Zenon DEF Types
  <2>4. UNCHANGED <<file, daemon, parent, worker, conn, backlog, hit, struck, counts, tables>>
      BY <1>1 DEF ReadLine
  <2>5. hit' \subseteq Alive'
      BY <2>4 DEF Types, TypeOK, Alive
  <2> QED
      BY <2>2, <2>3, <2>4, <2>5, <2>6 DEF Types, TypeOK
<1>2. CASE Bind
  <2>1. CASE parent' = "gone"
      BY <1>2, <2>1 DEF Bind, Types, TypeOK, Alive
  <2>2. CASE parent' # "gone"
    <3>1. Alive = {} /\ parent' = "fork" /\ worker' = [w \in Workers |-> "none"]
        BY <1>2, <2>2 DEF Bind, Held
    <3>2. Alive' = {}
        BY <3>1 DEF Alive
    <3>3. /\ taken' \in [Workers -> Nat] /\ leaked' \in [Workers -> Nat] /\ accepted' \in Nat
          /\ open' \in [Workers -> Nat] /\ dirs' \in [Workers -> Nat] /\ starved' \subseteq Workers
          /\ \A w \in Workers : open'[w] + dirs'[w] <= MaxFds
        BY <1>2, <2>2, BoundsAssumption DEF Bind
    <3> QED
        BY <1>2, <3>1, <3>2, <3>3 DEF Bind, Types, TypeOK
  <2> QED
      BY <2>1, <2>2
<1>3. ASSUME NEW w \in Workers, Fork(w)
      PROVE  Types'
    BY <1>3 DEF Fork, Types, TypeOK, Alive
<1>4. CASE ForkEnds
    BY <1>4 DEF ForkEnds, Types, TypeOK, Alive
<1>5. CASE WaitEnds \/ ParentExits
  <2>1. Closed("gone", worker) /\ parent' = "gone"
      BY <1>5 DEF WaitEnds, ParentExits
  <2>2. backlog' \in Seq(Conns) /\ conn' \in [Conns -> {"new", "queued", "accepted", "reset"}]
      BY <2>1, ClosedIs
  <2>3. UNCHANGED <<reading, daemon, worker, hit, struck, counts, tables>>
      BY <1>5 DEF WaitEnds, ParentExits
  <2> QED
      BY <2>1, <2>2, <2>3 DEF Types, TypeOK, Alive
<1>6. CASE Start
  <2>1. file' \in Seq(Line)
      BY <1>6, FilesAssumption DEF Start
  <2>2. line' > 0 /\ line' \in Nat /\ ini' \in [Keys -> Values \cup {"default"}]
      BY <1>6 DEF Start, Default
  <2>3. UNCHANGED <<daemon, worker, conn, backlog, hit, counts, tables>> /\ parent' = "parse"
      BY <1>6 DEF Start
  <2>4. failed' \in BOOLEAN /\ struck' \in BOOLEAN
      BY <1>6 DEF Start
  <2>5. TypeOK'
      BY <2>2, <2>3 DEF Types, TypeOK, Alive
  <2> QED
      BY <2>1, <2>2, <2>3, <2>4, <2>5 DEF Types
<1>7. CASE Interrupt
    BY <1>7 DEF Interrupt, Types, TypeOK, Alive
<1>8. ASSUME NEW c \in Conns, Connect(c)
      PROVE  Types'
  <2>1. Append(backlog, c) \in Seq(Conns)
      BY DEF Types
  <2> QED
      BY <1>8, <2>1 DEF Connect, Types, TypeOK, Alive
<1>9. ASSUME NEW w \in Workers, Wake(w)
      PROVE  Types'
    BY <1>9 DEF Wake, Types, TypeOK, Alive
<1>10. ASSUME NEW w \in Workers, AcceptHandler(w)
       PROVE  Types'
  <2>1. UNCHANGED <<reading, daemon, parent, hit, struck>> /\ worker' = [worker EXCEPT ![w] = "idle"]
      BY <1>10 DEF AcceptHandler
  <2>2. hit' \subseteq Alive' /\ worker' \in [Workers -> {"none", "idle", "woken", "gone"}]
      BY <2>1 DEF Types, TypeOK, Alive
  <2>3. taken' \in [Workers -> Nat] /\ leaked' \in [Workers -> Nat] /\ accepted' \in Nat
    <3>1. \/ taken' = taken /\ accepted' = accepted
          \/ taken' = [taken EXCEPT ![w] = @ + 1] /\ accepted' = accepted + 1
        BY <1>10 DEF AcceptHandler
    <3>2. leaked' = IF Loses(w) /\ w \notin starved' THEN [leaked EXCEPT ![w] = @ + 1] ELSE leaked
        BY <1>10 DEF AcceptHandler
    <3>3. leaked' = leaked \/ leaked' = [leaked EXCEPT ![w] = @ + 1]
        BY <3>2
    <3>4. /\ taken \in [Workers -> Nat] /\ leaked \in [Workers -> Nat] /\ accepted \in Nat
          /\ taken[w] + 1 \in Nat /\ leaked[w] + 1 \in Nat
        BY DEF Types, TypeOK
    <3>5. leaked' \in [Workers -> Nat]
        BY <3>3, <3>4
    <3> QED
        BY <3>1, <3>4, <3>5
  <2>5. /\ open' \in [Workers -> Nat] /\ dirs' \in [Workers -> Nat] /\ starved' \subseteq Workers
        /\ \A v \in Workers : open'[v] + dirs'[v] <= MaxFds
    <3>1. dirs' = dirs /\ starved' \subseteq Workers
        BY <1>10 DEF AcceptHandler, Types, TypeOK
    <3>2. CASE open' = open
        BY <3>1, <3>2 DEF Types, TypeOK
    <3>3. CASE open' = [open EXCEPT ![w] = @ + 1] /\ ~Full(w)
      <4>1. /\ open \in [Workers -> Nat] /\ dirs \in [Workers -> Nat] /\ MaxFds \in Nat
            /\ \A v \in Workers : open[v] + dirs[v] <= MaxFds
          BY BoundsAssumption DEF Types, TypeOK
      <4>2. open[w] + dirs[w] # MaxFds
          BY <3>3 DEF Full
      <4>3. /\ open'[w] = open[w] + 1
            /\ \A v \in Workers \ {w} : open'[v] = open[v]
          BY <3>3, <4>1
      <4> QED
          BY <3>1, <3>3, <4>1, <4>2, <4>3
    <3> QED
        BY <1>10, <3>2, <3>3 DEF AcceptHandler, Gets
  <2>4. backlog' \in Seq(Conns) /\ conn' \in [Conns -> {"new", "queued", "accepted", "reset"}]
    <3>1. CASE Gets(w)
      <4>1. Tail(backlog) \in Seq(Conns)
          BY <3>1 DEF Gets, Types
      <4> QED
          BY <1>10, <3>1, <4>1 DEF AcceptHandler, Types, TypeOK
    <3>2. CASE ~Gets(w)
        BY <1>10, <3>2 DEF AcceptHandler, Types, TypeOK
    <3> QED
        BY <3>1, <3>2
  <2> QED
      BY <2>1, <2>2, <2>3, <2>4, <2>5 DEF Types, TypeOK
<1>11. ASSUME NEW w \in Workers, Leave(w)
       PROVE  Types'
  <2>1. worker' = [worker EXCEPT ![w] = "gone"] /\ hit' = hit \ {w}
      BY <1>11 DEF Leave
  <2>2. backlog' \in Seq(Conns) /\ conn' \in [Conns -> {"new", "queued", "accepted", "reset"}]
      BY <1>11, ClosedIs DEF Leave
  <2>3. hit' \subseteq Alive' /\ worker' \in [Workers -> {"none", "idle", "woken", "gone"}]
      BY <2>1 DEF Types, TypeOK, Alive
  <2> QED
      BY <1>11, <2>2, <2>3 DEF Leave, Types, TypeOK
<1>12. ASSUME NEW w \in Workers, Serves(w)
       PROVE  Types'
  <2>1. /\ open' \in [Workers -> Nat] /\ dirs' \in [Workers -> Nat]
        /\ \A v \in Workers : open'[v] + dirs'[v] <= MaxFds
    <3>1. /\ open \in [Workers -> Nat] /\ dirs \in [Workers -> Nat] /\ MaxFds \in Nat
          /\ \A v \in Workers : open[v] + dirs[v] <= MaxFds
        BY BoundsAssumption DEF Types, TypeOK
    <3>2. CASE open' = open /\ dirs' = [dirs EXCEPT ![w] = @ + 1] /\ ~Full(w)
      <4>1. open[w] + dirs[w] # MaxFds /\ dirs'[w] = dirs[w] + 1
            /\ \A v \in Workers \ {w} : dirs'[v] = dirs[v]
          BY <3>1, <3>2 DEF Full
      <4> QED
          BY <3>1, <3>2, <4>1
    <3>3. CASE dirs' = dirs /\ open' = [open EXCEPT ![w] = @ - 1] /\ open[w] > 0
      <4>1. open'[w] = open[w] - 1 /\ \A v \in Workers \ {w} : open'[v] = open[v]
          BY <3>1, <3>3
      <4> QED
          BY <3>1, <3>3, <4>1
    <3> QED
        BY <1>12, <3>2, <3>3 DEF Serves
  <2> QED
      BY <1>12, <2>1 DEF Serves, Types, TypeOK, Alive
<1>13. CASE UNCHANGED vars
    BY <1>13 DEF vars, Types, TypeOK, Alive
<1> QED
    BY <1>1, <1>2, <1>3, <1>4, <1>5, <1>6, <1>7, <1>8, <1>9, <1>10, <1>11, <1>12, <1>13,
       LeavesBy, ServesBy
    DEF Next, Main, Work, Leaves

\* Whoever accepts or is woken in vain pays from what others accepted.
LEMMA WatchersStep == Types /\ Watchers /\ [Next]_vars => Watchers'
<1> SUFFICES ASSUME Types, Watchers, [Next]_vars PROVE Watchers'
    OBVIOUS
<1> USE DEF sockets, counts, tables
<1>1. ASSUME UNCHANGED <<worker, backlog, counts, starved>>
      PROVE  Watchers'
    BY <1>1 DEF Watchers
<1>2. CASE ReadLine \/ ForkEnds \/ Start \/ Interrupt \/ UNCHANGED vars
    BY <1>1, <1>2 DEF ReadLine, ForkEnds, Start, Interrupt, vars
<1>3. CASE Bind
  <2>1. CASE parent' = "gone"
      BY <1>1, <1>3, <2>1 DEF Bind
  <2>2. CASE parent' # "gone"
    <3>1. \A w \in Workers : worker'[w] = "none" /\ leaked'[w] = 0 /\ taken'[w] = 0
        BY <1>3, <2>2 DEF Bind
    <3>2. accepted' = 0
        BY <1>3, <2>2 DEF Bind
    <3> QED
        BY <3>1, <3>2 DEF Watchers
  <2> QED
      BY <2>1, <2>2
<1>4. ASSUME NEW w \in Workers, Fork(w)
      PROVE  Watchers'
    BY <1>4 DEF Fork, Watchers, Types, TypeOK
<1>5. CASE WaitEnds \/ ParentExits
  <2>1. Closed("gone", worker) /\ UNCHANGED <<worker, counts, starved>>
      BY <1>5 DEF WaitEnds, ParentExits
  <2>2. backlog' = backlog \/ ~\E w \in Workers : worker[w] \in {"idle", "woken"}
      BY <2>1, ClosedIs
  <2> QED
      BY <2>1, <2>2 DEF Watchers
<1>6. ASSUME NEW c \in Conns, Connect(c)
      PROVE  Watchers'
  <2>1. backlog' # <<>>
      BY <1>6 DEF Connect, Types
  <2> QED
      BY <1>6, <2>1 DEF Connect, Watchers
<1>7. ASSUME NEW w \in Workers, Wake(w)
      PROVE  Watchers'
    BY <1>7 DEF Wake, Watchers, Types, TypeOK
<1>8. ASSUME NEW w \in Workers, AcceptHandler(w)
      PROVE  Watchers'
  <2>1. \A v \in Workers : /\ worker'[v] = (IF v = w THEN "idle" ELSE worker[v])
                           /\ taken[v] \in Nat /\ leaked[v] \in Nat
      BY <1>8 DEF AcceptHandler, Types, TypeOK
  <2>2. accepted \in Nat /\ worker[w] = "woken"
      BY <1>8 DEF AcceptHandler, Types, TypeOK
  <2>3. CASE Gets(w)
    <3>1. /\ \A v \in Workers : taken'[v] = (IF v = w THEN taken[v] + 1 ELSE taken[v])
          /\ accepted' = accepted + 1 /\ leaked' = leaked /\ starved' = starved
      <4>1. /\ accepted' = accepted + 1 /\ taken' = [taken EXCEPT ![w] = @ + 1]
            /\ leaked' = leaked /\ starved' = starved
          BY <1>8, <2>3, Zenon DEF AcceptHandler, Loses, Gets
      <4>2. taken \in [Workers -> Nat]
          BY DEF Types, TypeOK
      <4> QED
          BY <4>1, <4>2
    <3> QED
        BY <2>1, <2>2, <3>1 DEF Watchers
  <2>4. CASE backlog = <<>>
    <3>1. /\ \A v \in Workers \ starved :
                leaked'[v] = (IF v = w THEN leaked[v] + 1 ELSE leaked[v])
          /\ accepted' = accepted /\ taken' = taken /\ starved' = starved
        BY <1>8, <2>4 DEF AcceptHandler, Loses, Gets, Types, TypeOK
    <3> QED
        BY <2>1, <2>2, <2>4, <3>1 DEF Watchers
  <2>5. CASE backlog # <<>> /\ Full(w)
    <3>1. /\ starved' = starved \cup {w} /\ leaked' = leaked /\ backlog' = backlog
          /\ accepted' = accepted /\ taken' = taken
        BY <1>8, <2>5 DEF AcceptHandler, Loses, Gets, Types, TypeOK
    <3> QED
        BY <2>1, <3>1 DEF Watchers
  <2> QED
      BY <2>3, <2>4, <2>5 DEF Gets
<1>9. ASSUME NEW w \in Workers, Leaves(w)
      PROVE  Watchers'
  <2>1. Leave(w)
      BY <1>9, LeavesBy
  <2>2. /\ Closed(parent, worker') /\ worker' = [worker EXCEPT ![w] = "gone"]
        /\ UNCHANGED <<counts, starved>>
      BY <2>1 DEF Leave
  <2>3. backlog' = backlog \/ ~\E v \in Workers : worker'[v] \in {"idle", "woken"}
      BY <2>2, ClosedIs
  <2> QED
      BY <2>2, <2>3 DEF Watchers, Types, TypeOK
<1>10. ASSUME NEW w \in Workers, Serves(w)
       PROVE  Watchers'
    BY <1>1, <1>10 DEF Serves
<1> QED
    BY <1>2, <1>3, <1>4, <1>5, <1>6, <1>7, <1>8, <1>9, <1>10, ServesBy
    DEF Next, Main, Work, Leaves

-----------------------------------------------------------------------------

\* Who leaves workers behind does it for the sake of one that ended, or for ^C.
LEMMA LeftBehindStep == Types /\ LeftBehind /\ [Next]_vars => LeftBehind'
<1> SUFFICES ASSUME Types, LeftBehind, [Next]_vars PROVE LeftBehind'
    OBVIOUS
<1>1. ASSUME UNCHANGED <<parent, daemon, worker, hit, struck>>
      PROVE  LeftBehind'
    BY <1>1 DEF LeftBehind, Alive
<1>2. CASE ReadLine \/ UNCHANGED vars \/ \E c \in Conns : Connect(c)
    BY <1>1, <1>2 DEF ReadLine, Connect, vars, reading
<1>3. CASE Bind
  <2>1. UNCHANGED <<hit, struck, daemon>> /\ ~struck
      BY <1>3 DEF Bind
  <2>2. CASE parent' = "gone"
      BY <1>3, <2>1, <2>2 DEF Bind, LeftBehind, Alive
  <2>3. CASE parent' # "gone"
    <3>1. parent' = "fork" /\ ~struck'
        BY <1>3, <2>1, <2>3 DEF Bind
    <3> QED
        BY <3>1 DEF LeftBehind
  <2> QED
      BY <2>2, <2>3
<1>4. ASSUME NEW w \in Workers, Fork(w)
      PROVE  LeftBehind'
  <2>1. parent' = "fork" /\ ~struck'
      BY <1>4 DEF Fork
  <2> QED
      BY <2>1 DEF LeftBehind
<1>5. CASE ForkEnds
  <2>1. parent' = "wait" /\ ~struck'
      BY <1>5 DEF ForkEnds
  <2> QED
      BY <2>1 DEF LeftBehind
<1>6. CASE WaitEnds
  <2>1. parent' = "gone" /\ UNCHANGED <<daemon, worker, hit>> /\ (daemon \/ WaitReturns)
      BY <1>6 DEF WaitEnds
  <2>2. WaitReturns => Alive = {} \/ \E w \in Workers : worker[w] = "gone"
      BY DEF WaitReturns, Alive
  <2> QED
      BY <2>1, <2>2 DEF LeftBehind, Alive
<1>7. CASE ParentExits
    BY <1>7 DEF ParentExits, LeftBehind, Alive, Types, TypeOK
<1>8. CASE Start
    BY <1>8 DEF Start, LeftBehind, Alive
<1>9. CASE Interrupt
    BY <1>9 DEF Interrupt, LeftBehind, Alive, Types, TypeOK
<1>10. ASSUME NEW w \in Workers, Wake(w) \/ AcceptHandler(w)
       PROVE  LeftBehind'
  <2>1. UNCHANGED <<parent, daemon, hit, struck>>
      BY <1>10 DEF Wake, AcceptHandler
  <2>2. PICK s \in {"idle", "woken"} : worker' = [worker EXCEPT ![w] = s]
      BY <1>10 DEF Wake, AcceptHandler
  <2>4. worker[w] \in {"idle", "woken"}
      BY <1>10 DEF Wake, AcceptHandler
  <2>3. Alive' = Alive /\ \A v \in Workers : worker[v] = "gone" => worker'[v] = "gone"
      BY <2>2, <2>4 DEF Alive, Types, TypeOK
  <2> QED
      BY <2>1, <2>3 DEF LeftBehind
<1>11. ASSUME NEW w \in Workers, Leaves(w)
       PROVE  LeftBehind'
  <2>1. Leave(w)
      BY <1>11, LeavesBy
  <2>2. /\ worker' = [worker EXCEPT ![w] = "gone"] /\ hit' = hit \ {w}
        /\ UNCHANGED <<parent, daemon, struck>>
      BY <2>1 DEF Leave
  <2>3. worker'[w] = "gone" /\ Alive' = Alive \ {w}
      BY <2>2 DEF Alive, Types, TypeOK
  <2> QED
      BY <2>2, <2>3 DEF LeftBehind
<1>12. ASSUME NEW w \in Workers, Serves(w)
       PROVE  LeftBehind'
    BY <1>1, <1>12 DEF Serves
<1> QED
    BY <1>2, <1>3, <1>4, <1>5, <1>6, <1>7, <1>8, <1>9, <1>10, <1>11, <1>12, ServesBy
    DEF Next, Main, Work, Leaves

-----------------------------------------------------------------------------

\* A round of the loop in Ini::parse: what was said of a key is replaced by the
\* line that sets it, and kept by the others.
LEMMA SaysOneMore ==
    ASSUME Types, NEW k \in Keys, line \in 1..Len(file), SaysUpTo(k, line - 1, ini[k])
    PROVE  SaysUpTo(k, line, Set(ini, file[line].setting)[k])
<1> DEFINE s == file[line].setting
<1>1. s \in Settings
  <2>1. file[line] \in Line
      BY DEF Types
  <2> QED
      BY <2>1 DEF Line
<1>2. ini \in [Keys -> Values \cup {"default"}]
    BY DEF Types, TypeOK
<1>3. CASE s.key = k
  <2>1. s # NoSetting
      BY <1>3 DEF NoSetting, Keys
  <2>2. Set(ini, s)[k] = s.value
      BY <1>2, <1>3, <2>1 DEF Set
  <2> QED
      BY <1>3, <2>2 DEF SaysUpTo
<1>4. CASE s.key # k
  <2>1. Set(ini, s)[k] = ini[k]
      BY <1>2, <1>4 DEF Set
  <2>2. \A i \in 1..line : file[i].setting.key = k => i \in 1..line - 1
      BY <1>4
  <2>3. CASE \A i \in 1..line - 1 : file[i].setting.key # k
      BY <2>1, <2>2, <2>3 DEF SaysUpTo
  <2>4. CASE \E i \in 1..line - 1 : file[i].setting.key = k
    <3>1. PICK i \in 1..line - 1 :
              /\ file[i].setting.key = k /\ ini[k] = file[i].setting.value
              /\ \A j \in 1..line - 1 : file[j].setting.key = k => j <= i
        BY <2>4 DEF SaysUpTo
    <3>2. \A j \in 1..line : file[j].setting.key = k => j <= i
        BY <2>2, <3>1
    <3> QED
        BY <2>1, <3>1, <3>2 DEF SaysUpTo
  <2> QED
      BY <2>3, <2>4
<1> QED
    BY <1>3, <1>4

\* The map follows the file, and the workers get the map.
LEMMA ConfigStep == Types /\ Config /\ [Next]_vars => Config'
<1> SUFFICES ASSUME Types, Config, [Next]_vars PROVE Config'
    OBVIOUS
<1> USE DEF reading
<1>1. ASSUME UNCHANGED <<reading, conf, parent>> \/ (UNCHANGED <<reading, conf>> /\ parent' = "gone")
      PROVE  Config'
    BY <1>1 DEF Config, SaysUpTo
<1>2. CASE Interrupt \/ ParentExits \/ WaitEnds \/ UNCHANGED vars \/ \E c \in Conns : Connect(c)
    BY <1>1, <1>2 DEF Interrupt, ParentExits, WaitEnds, Connect, vars
<1>3. ASSUME NEW w \in Workers, Fork(w) \/ Wake(w) \/ AcceptHandler(w)
      PROVE  Config'
    BY <1>1, <1>3 DEF Fork, Wake, AcceptHandler
<1>4. ASSUME NEW w \in Workers, Leaves(w)
      PROVE  Config'
  <2>1. Leave(w)
      BY <1>4, LeavesBy
  <2> QED
      BY <1>1, <2>1 DEF Leave
<1>5. CASE ForkEnds
    BY <1>5 DEF ForkEnds, Config, SaysUpTo
<1>6. CASE Start
  <2>1. line' = 1 /\ ini' = Default /\ file' \in Seq(Line) /\ parent' = "parse"
      BY <1>6, FilesAssumption DEF Start
  <2>2. line' \in 1..Len(file') + 1
      BY <2>1
  <2>3. \A k \in Keys : SaysUpTo(k, line - 1, ini[k])'
      BY <2>1 DEF SaysUpTo, Default
  <2> QED
      BY <2>1, <2>2, <2>3 DEF Config
<1>7. CASE ReadLine
  <2>1. UNCHANGED <<file, parent, conf>> /\ parent = "parse" /\ ~failed
      BY <1>7 DEF ReadLine
  <2>2. line' = line + 1 /\ line \in 1..Len(file)
      BY <1>7 DEF ReadLine, Types, TypeOK
  <2>3. CASE Overruns(file[line])
    <3>1. failed'
        BY <1>7, <2>3 DEF ReadLine
    <3> QED
        BY <2>1, <3>1 DEF Config
  <2>4. CASE ~Overruns(file[line])
    <3>1. ini' = Set(ini, file[line].setting)
        BY <1>7, <2>4 DEF ReadLine
    <3>2. \A k \in Keys : SaysUpTo(k, line - 1, ini[k])
        BY <2>1 DEF Config
    <3>3. \A k \in Keys : SaysUpTo(k, line, Set(ini, file[line].setting)[k])
        BY <2>2, <3>2, SaysOneMore
    <3>4. line' - 1 = line /\ line' \in 1..Len(file) + 1
        BY <2>2, <1>7 DEF Types
    <3>5. \A k \in Keys : SaysUpTo(k, line - 1, ini[k])'
        BY <2>1, <3>1, <3>3, <3>4 DEF SaysUpTo
    <3> QED
        BY <2>1, <3>4, <3>5 DEF Config
  <2> QED
      BY <2>3, <2>4
<1>8. CASE Bind
  <2>1. CASE parent' = "gone"
      BY <1>1, <1>8, <2>1 DEF Bind
  <2>2. CASE parent' # "gone"
    <3>1. /\ parent' = "fork" /\ conf' = ini /\ file' = file
          /\ ini["port"] # "junk" /\ line > Len(file)
          /\ parent = "parse" /\ ~failed
        BY <1>8, <2>2 DEF Bind
    <3>2. line \in 1..Len(file) + 1 /\ \A k \in Keys : SaysUpTo(k, line - 1, ini[k])
        BY <3>1 DEF Config
    <3>3. line - 1 = Len(file)
        BY <3>1, <3>2 DEF Types
    <3>4. \A k \in Keys : SaysUpTo(k, Len(file), conf[k])'
        BY <3>1, <3>2, <3>3 DEF SaysUpTo
    <3> QED
        BY <3>1, <3>4 DEF Config
  <2> QED
      BY <2>1, <2>2
<1>9. ASSUME NEW w \in Workers, Serves(w)
      PROVE  Config'
    BY <1>1, <1>9 DEF Serves
<1> QED
    BY <1>2, <1>3, <1>4, <1>5, <1>6, <1>7, <1>8, <1>9, ServesBy DEF Next, Main, Work, Leaves

-----------------------------------------------------------------------------

\* The parts make an inductive invariant.
LEMMA Invariant == Spec => []WInv
<1>1. WInv /\ [Next]_vars => WInv'
    BY TypesStep, WatchersStep, LeftBehindStep, ConfigStep DEF WInv
<1> QED
    BY <1>1, WInvInit, PTL DEF Spec

\* The variables of every reachable state have their types.
THEOREM TypeCorrect == Spec => []TypeOK
<1>1. WInv => TypeOK
    BY DEF WInv, Types
<1> QED
    BY <1>1, Invariant, PTL

\* accept_handler's herd, however many workers wake for however many
\* connections, costs a worker that never ran out of descriptors at most one
\* watcher for each connection another accepted.
THEOREM HerdCost == Spec => []LeakBounded
<1>1. WInv => LeakBounded
    BY DEF WInv, Watchers, LeakBounded, Types, TypeOK
<1> QED
    BY <1>1, Invariant, PTL

\* wait(NULL) keeps the parent of a server in the foreground until a worker
\* ends or ^C was sent to all that run.
THEOREM ParentWaits == Spec => []ParentStays
<1>1. WInv => ParentStays
    BY DEF WInv, LeftBehind, ParentStays
<1> QED
    BY <1>1, Invariant, PTL

\* The workers run with what the last line of each key in the file says.
THEOREM LastLineCounts == Spec => []ConfigTakesEffect
<1>1. ASSUME Types, NEW k \in Keys, SaysUpTo(k, Len(file), conf[k])
      PROVE  conf[k] = FileSays(k)
  <2> DEFINE sets == {i \in DOMAIN file : file[i].setting.key = k}
  <2>1. DOMAIN file = 1..Len(file)
      BY <1>1 DEF Types
  <2>2. CASE sets = {}
      BY <1>1, <2>1, <2>2 DEF SaysUpTo, FileSays
  <2>3. CASE sets # {}
    <3>1. PICK i \in sets : conf[k] = file[i].setting.value /\ \A j \in sets : j <= i
        BY <1>1, <2>1, <2>3 DEF SaysUpTo
    <3>2. \A h \in sets : (\A j \in sets : j <= h) => h = i
        BY <2>1, <3>1
    <3>3. (CHOOSE h \in sets : \A j \in sets : j <= h) = i
        BY <3>1, <3>2
    <3> QED
        BY <2>3, <3>1, <3>3 DEF FileSays
  <2> QED
      BY <2>2, <2>3
<1>2. WInv => ConfigTakesEffect
    BY <1>1 DEF WInv, Config, ConfigTakesEffect
<1> QED
    BY <1>2, Invariant, PTL
==============================================================================
