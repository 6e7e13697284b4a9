------------------------ MODULE HttpReaderReadsProofs ------------------------
(***************************************************************************)
(* Where the reads end, and what was sent before, makes no difference: if  *)
(* each message means what it says when it is sent alone and arrives in    *)
(* one read, it does so on any connection.  For whoever keeps one parser   *)
(* that holds of every request that is not refused for its size; for       *)
(* efserv as long as no read ends where it does harm, either.              *)
(***************************************************************************)
EXTENDS HttpReaderProofs, FiniteSetTheorems, SequenceTheorems

-----------------------------------------------------------------------------
(* A message alone                                                         *)

\* The reader after k symbols of a message that comes first and in one read.
Alone(m) ==
    LET e[k \in 0..Len(m.wire)] ==
            IF k = 0 THEN Enter(Fresh) ELSE Feed(e[k - 1], m.wire[k]).e
    IN  e

\* What it hears of the k-th symbol.
Heard(m, k) == Feed(Alone(m)[k - 1], m.wire[k]).call

\* A message begins with a method, whose first symbol no request can begin
\* after, or it is given up at once.
Begins(m) ==
    /\ m.wire # <<>> /\ m.wire[1] \notin Eol /\ Len(m.target) \in Nat \ {0}
    /\ \/ Heard(m, 1) = "error"
       \/ /\ Len(m.wire) >= 3 /\ Heard(m, 3) = "mark"
          /\ \A k \in {2, 3} : m.wire[k] \notin Eol \cup Methods

\* The symbols of the url are those from the third on, it is heard of at the
\* symbol after it and the request at the last one.
UrlEnd(m) == Len(m.target) + 2
Event(m, k) == CASE k = 3             -> "mark"
                 [] k = UrlEnd(m) + 1 -> "url"
                 [] k = Len(m.wire)   -> "complete"
                 [] OTHER             -> "none"

\* A request, alone, is heard as it was meant; if its url can be decoded, so is that.
AsMeant(m) ==
    LET end == Alone(m)[Len(m.wire)].p
    IN  /\ m.last \in BOOLEAN /\ m.upgrade \in BOOLEAN
        /\ UrlEnd(m) + 1 < Len(m.wire) /\ m.target = SubSeq(m.wire, 3, UrlEnd(m))
        /\ \A k \in 1..Len(m.wire) : Heard(m, k) = Event(m, k)
        /\ \A k \in 0..Len(m.wire) :
              /\ Alone(m)[k].p.state \in UrlStates <=> k \in 3..UrlEnd(m)
              /\ Alone(m)[k].p.upgrade => m.upgrade
        /\ end.upgrade = m.upgrade /\ end.state = (IF m.last THEN "dead" ELSE "start_req")
        /\ BadEscape(m.target) \/ \A slash \in Slashes(Path(Decode(m.target))) :
              Target(Decode(m.target), slash) = m.means

\* Anything else, alone, is refused before it is complete, and not for its size.
Refused(m) ==
    /\ \A k \in 1..Len(m.wire) : Heard(m, k) # "complete" /\ ~TooMany(Alone(m)[k - 1])
    /\ Alone(m)[Len(m.wire)].p.failed

\* All messages are either.
Clear == \A m \in Messages : /\ m.well \in BOOLEAN /\ Begins(m)
                             /\ IF m.well THEN AsMeant(m) ELSE Refused(m)

-----------------------------------------------------------------------------
(* What an earlier message leaves in a parser.  http_parser sets its fields *)
(* again as it comes to them; until then they may hold anything.            *)

Idle      == {"start_req", "dead"}
Unversioned == {"req_method", "spaces_before_url", "http_start", "http_HT", "http_HTTP",
                "first_http_major"} \cup UrlStates
NamedStates == {"header_field", "header_value_discard_ws", "header_value_discard_ws_almost_done",
                "header_value_discard_lws", "header_value_start", "header_value",
                "header_almost_done", "header_value_lws"}
DoneStates == {"headers_done"} \cup ChunkStates \cup BodyStates

\* Two parsers in the same place, alike in what is set already.
Alike(p, q) ==
    /\ p.failed = q.failed
    /\ ~p.failed =>
        /\ p.state = q.state
        /\ p.state \notin Idle =>
              /\ p.flags = q.flags /\ p.length = q.length /\ p.method = q.method
              /\ p.state \in DoneStates \/ "TRAILING" \in p.flags => p.upgrade = q.upgrade
        /\ p.state \notin Idle \cup Unversioned =>
              /\ p.major = q.major
              /\ p.state \notin {"http_major", "first_http_minor"} => p.minor = q.minor
        /\ p.state \in NamedStates => p.hs = q.hs

\* The same is called, and the same is left of what differed.
Matches(p, q, o, r) ==
    /\ o.again = r.again /\ o.call = r.call /\ Alike(o.p, r.p)
    /\ o.call = "complete" \/ p.upgrade = q.upgrade => o.p.upgrade = r.p.upgrade

\* An error is one for both.
LEMMA FailMatches ==
    ASSUME NEW p \in Parsers, NEW q \in Parsers
    PROVE  Matches(p, q, Fail(p), Fail(q))
BY DEF Matches, Alike, Fail, Outcome, Parsers

\* A state y may be followed by x with no field set: x asks for no more.
Leads(y, x) ==
    /\ x \in States /\ (x \in Idle \/ y \notin Idle)
    /\ x \in DoneStates \ Idle => y \in DoneStates
    /\ x \notin Idle \cup Unversioned => y \notin Idle \cup Unversioned
    /\ x \notin Idle \cup Unversioned \cup {"http_major", "first_http_minor"} =>
           y \notin Idle \cup Unversioned \cup {"http_major", "first_http_minor"}
    /\ x \in NamedStates => y \in NamedStates

\* Where the cases go.
LEMMA Ways ==
    /\ Leads("dead", "dead") /\ Leads("req_method", "spaces_before_url")
    /\ \A y \in {"spaces_before_url"} \cup UrlStates, x \in UrlStates : Leads(y, x)
    /\ \A y \in UrlStates : Leads(y, "http_start")
    /\ Leads("http_start", "http_HT") /\ Leads("http_HT", "http_HTTP")
    /\ Leads("http_HTTP", "first_http_major") /\ Leads("http_major", "first_http_minor")
    /\ Leads("http_minor", "line_almost_done") /\ Leads("http_minor", "header_field_start")
    /\ Leads("line_almost_done", "header_field_start")
    /\ Leads("header_field_start", "headers_almost_done")
    /\ Leads("header_field", "header_value_discard_ws")
    /\ \A x \in {"header_value_discard_ws_almost_done", "header_value_discard_lws", "header_value"} :
           Leads("header_value_discard_ws", x)
    /\ Leads("header_value_start", "header_value")
    /\ Leads("header_value_discard_ws_almost_done", "header_value_discard_lws")
    /\ Leads("header_value", "header_almost_done") /\ Leads("header_almost_done", "header_value_lws")
    /\ Leads("header_value_lws", "header_value_start")
    /\ Leads("header_value_lws", "header_field_start")
    /\ Leads("header_value_discard_lws", "header_value_discard_ws")
    /\ Leads("header_value_discard_lws", "header_field_start")
    /\ \A y \in DoneStates : Leads(y, "start_req") /\ Leads(y, "dead")
    /\ \A y \in DoneStates, x \in DoneStates : y \notin Idle /\ Leads(y, x)
    /\ \A y \in DoneStates : Leads(y, "header_field_start")
BY DEF Leads, States, Idle, Unversioned, NamedStates, DoneStates, UrlStates, ChunkStates, BodyStates

\* A parser that goes there without setting a field.
LEMMA ToMatches ==
    ASSUME NEW p \in Parsers, NEW q \in Parsers, NEW x, Alike(p, q), Leads(p.state, x)
    PROVE  /\ Alike(To(p, x), To(q, x)) /\ To(p, x).upgrade = p.upgrade
           /\ To(q, x).upgrade = q.upgrade
           /\ Matches(p, q, Take(To(p, x)), Take(To(q, x)))
           /\ Matches(p, q, Again(To(p, x)), Again(To(q, x)))
           /\ Matches(p, q, Mark(To(p, x)), Mark(To(q, x)))
           /\ Matches(p, q, Call(To(p, x), "url"), Call(To(q, x), "url"))
           /\ \A ok : Matches(p, q, Expect(p, ok, x), Expect(q, ok, x))
<1> DEFINE a == To(p, x)
           b == To(q, x)
<1>1. /\ a.state = x /\ b.state = x
      /\ a.flags = p.flags /\ a.length = p.length /\ a.method = p.method /\ a.upgrade = p.upgrade
      /\ a.major = p.major /\ a.minor = p.minor /\ a.hs = p.hs /\ a.failed = p.failed
      /\ b.flags = q.flags /\ b.length = q.length /\ b.method = q.method /\ b.upgrade = q.upgrade
      /\ b.major = q.major /\ b.minor = q.minor /\ b.hs = q.hs /\ b.failed = q.failed
    BY DEF To, Parsers
<1> HIDE DEF a, b
<1>2. Alike(a, b)
    BY <1>1 DEF Alike, Leads
<1>3. \A again, call : call # "complete" =>
          Matches(p, q, Outcome(a, again, call), Outcome(b, again, call))
    BY <1>1, <1>2 DEF Matches, Outcome
<1>4. \A ok : Matches(p, q, Expect(p, ok, x), Expect(q, ok, x))
    BY <1>3, FailMatches DEF Expect, Take, a, b
<1> QED
    BY <1>1, <1>2, <1>3, <1>4 DEF Take, Again, Mark, Call, a, b

\* A parser that stays as it is.
LEMMA TakeMatches == ASSUME NEW p, NEW q, Alike(p, q) PROVE Matches(p, q, Take(p), Take(q))
BY DEF Matches, Take, Outcome

\* A pair of parsers a case finds.
Pair(p, q) == p \in Parsers /\ q \in Parsers /\ ~p.failed /\ ~q.failed /\ Alike(p, q)

\* The cases that go on to one state or fail.
LEMMA OneWayMatches ==
    ASSUME NEW p, NEW q, NEW s, Pair(p, q)
    PROVE  /\ p.state = "dead" => Matches(p, q, Dead(p, s), Dead(q, s))
           /\ p.state = "req_method" => Matches(p, q, ReqMethod(p, s), ReqMethod(q, s))
           /\ p.state = "http_start" => Matches(p, q, HttpStart(p, s), HttpStart(q, s))
           /\ p.state = "http_HT" => Matches(p, q, HttpHT(p, s), HttpHT(q, s))
           /\ p.state = "http_HTTP" => Matches(p, q, HttpHTTP(p, s), HttpHTTP(q, s))
           /\ p.state = "line_almost_done" => Matches(p, q, LineAlmostDone(p, s), LineAlmostDone(q, s))
           /\ p.state = "header_almost_done" =>
                  Matches(p, q, HeaderAlmostDone(p, s), HeaderAlmostDone(q, s))
           /\ p.state = "header_value_discard_ws_almost_done" =>
                  Matches(p, q, DiscardWsAlmostDone(p, s), DiscardWsAlmostDone(q, s))
           /\ p.state = "chunk_data_almost_done" =>
                  Matches(p, q, ChunkDataAlmostDone(p, s), ChunkDataAlmostDone(q, s))
<1>1. \A x : Leads(p.state, x) => \A ok : Matches(p, q, Expect(p, ok, x), Expect(q, ok, x))
    BY ToMatches DEF Pair
<1>2. p.state = "chunk_data_almost_done" => Leads(p.state, "chunk_data_done")
    BY Ways DEF DoneStates, ChunkStates
<1> QED
    BY <1>1, <1>2, Ways, TakeMatches
       DEF Dead, ReqMethod, HttpStart, HttpHT, HttpHTTP, LineAlmostDone, HeaderAlmostDone,
           DiscardWsAlmostDone, ChunkDataAlmostDone, Pair

\* s_start_req sets all that is asked of the request line.
LEMMA StartReqMatches ==
    ASSUME NEW p, NEW q, NEW s, Pair(p, q), p.state = "start_req"
    PROVE  Matches(p, q, StartReq(p, s), StartReq(q, s))
<1> DEFINE b(r) == [r EXCEPT !.flags = {}, !.length = MaxUint]
           n(r) == [b(r) EXCEPT !.state = "req_method", !.method = s]
<1>1. Matches(p, q, Fail(b(p)), Fail(b(q)))
    BY DEF Matches, Alike, Fail, Outcome, Pair, Parsers
<1>2. Matches(p, q, Take(n(p)), Take(n(q)))
    BY DEF Matches, Alike, Take, Outcome, Pair, Parsers, DoneStates, ChunkStates, BodyStates,
           Unversioned, NamedStates
<1>3. Matches(p, q, Take(p), Take(q))
    BY TakeMatches DEF Pair
<1> QED
    BY <1>1, <1>2, <1>3 DEF StartReq

\* parse_url_char stays in the url or gives s_dead.
LEMMA UrlGoesOn == \A y, s : ParseUrlChar(y, s) \in UrlStates \cup {"dead"}
<1> SUFFICES ASSUME NEW y, NEW s PROVE ParseUrlChar(y, s) \in UrlStates \cup {"dead"}
    OBVIOUS
<1>1. \A x \in {"path", "query_string_start", "query_string", "server_with_at", "server", "schema",
                "schema_slash", "schema_slash_slash", "server_start", "fragment_start", "fragment"} :
          x \in UrlStates
    BY DEF UrlStates
<1>2. Server(s) \in UrlStates \cup {"dead"} /\ InPath(s) \in UrlStates \cup {"dead"}
      /\ InQuery(s) \in UrlStates \cup {"dead"}
    BY <1>1 DEF Server, InPath, InQuery
<1>3. y \in {"fragment_start", "fragment"} => InFragment(y, s) \in UrlStates \cup {"dead"}
    BY <1>1 DEF InFragment
<1> QED
    BY <1>1, <1>2, <1>3 DEF ParseUrlChar

\* The states of the url.
LEMMA UrlMatches ==
    ASSUME NEW p, NEW q, NEW s, Pair(p, q)
    PROVE  /\ p.state = "spaces_before_url" =>
                  Matches(p, q, SpacesBeforeUrl(p, s), SpacesBeforeUrl(q, s))
           /\ p.state \in UrlStates => Matches(p, q, UrlPrefix(p, s), UrlPrefix(q, s))
           /\ p.state \in UrlStates => Matches(p, q, Url(p, s), Url(q, s))
<1>1. p.state = q.state /\ p \in Parsers /\ q \in Parsers
    BY DEF Pair, Alike
<1>2. ASSUME p.state = "spaces_before_url"
      PROVE  Matches(p, q, SpacesBeforeUrl(p, s), SpacesBeforeUrl(q, s))
    <2> DEFINE from == IF p.method = "CONNECT" THEN "server_start" ELSE p.state
               next == ParseUrlChar(from, s)
    <2>1. p.method = q.method
        BY <1>2 DEF Pair, Alike, Idle
    <2>2. next # "dead" => Matches(p, q, Mark(To(p, next)), Mark(To(q, next)))
        BY <1>2, UrlGoesOn, Ways, ToMatches DEF Pair
    <2> HIDE DEF next
    <2> QED
        BY <1>1, <2>1, <2>2, FailMatches, TakeMatches DEF SpacesBeforeUrl, Pair, next
<1>3. ASSUME p.state \in UrlStates PROVE Matches(p, q, UrlPrefix(p, s), UrlPrefix(q, s))
    <2> DEFINE next == ParseUrlChar(p.state, s)
    <2>1. next # "dead" => Matches(p, q, Take(To(p, next)), Take(To(q, next)))
        BY <1>3, UrlGoesOn, Ways, ToMatches DEF Pair
    <2> HIDE DEF next
    <2> QED
        BY <1>1, <2>1, FailMatches DEF UrlPrefix, Expect, next
<1>4. ASSUME p.state \in UrlStates PROVE Matches(p, q, Url(p, s), Url(q, s))
    <2> DEFINE v(r, x) == To([r EXCEPT !.major = 0, !.minor = 9], x)
    <2>1. ASSUME NEW x \in {"line_almost_done", "header_field_start"}
          PROVE  Matches(p, q, Call(v(p, x), "url"), Call(v(q, x), "url"))
        <3>1. p.state \notin Idle
            BY <1>4 DEF UrlStates, Idle
        <3>2. x \notin DoneStates /\ x \notin NamedStates /\ x \notin Idle
            BY DEF DoneStates, ChunkStates, BodyStates, NamedStates, Idle
        <3> QED
            BY <3>1, <3>2 DEF Matches, Alike, Call, Outcome, Pair, Parsers, To
    <2>2. Matches(p, q, Call(To(p, "http_start"), "url"), Call(To(q, "http_start"), "url"))
        BY <1>4, Ways, ToMatches DEF Pair
    <2> HIDE DEF v
    <2> QED
        BY <1>3, <1>4, <2>1, <2>2 DEF Url, v
<1> QED
    BY <1>2, <1>3, <1>4

\* The version.
LEMMA VersionMatches ==
    ASSUME NEW p, NEW q, NEW s, Pair(p, q)
    PROVE  /\ p.state = "first_http_major" =>
                  Matches(p, q, FirstHttpMajor(p, s), FirstHttpMajor(q, s))
           /\ p.state = "http_major" => Matches(p, q, HttpMajor(p, s), HttpMajor(q, s))
           /\ p.state = "first_http_minor" =>
                  Matches(p, q, FirstHttpMinor(p, s), FirstHttpMinor(q, s))
           /\ p.state = "http_minor" => Matches(p, q, HttpMinor(p, s), HttpMinor(q, s))
<1>1. p.state = q.state /\ p \in Parsers /\ q \in Parsers
    BY DEF Pair, Alike
<1>2. ASSUME NEW n, p.state \in {"first_http_major", "http_major"}
      PROVE  Matches(p, q, MajorDigit(p, n), MajorDigit(q, n))
    <2>1. Matches(p, q, Take([p EXCEPT !.major = n, !.state = "http_major"]),
                        Take([q EXCEPT !.major = n, !.state = "http_major"]))
        BY <1>2 DEF Matches, Alike, Take, Outcome, Pair, Parsers, Idle, Unversioned, NamedStates,
                    DoneStates, ChunkStates, BodyStates, UrlStates
    <2> QED
        BY <1>1, <2>1, FailMatches DEF MajorDigit
<1>3. ASSUME NEW n, p.state \in {"first_http_minor", "http_minor"}
      PROVE  Matches(p, q, MinorDigit(p, n), MinorDigit(q, n))
    <2>1. Matches(p, q, Take([p EXCEPT !.minor = n, !.state = "http_minor"]),
                        Take([q EXCEPT !.minor = n, !.state = "http_minor"]))
        BY <1>3 DEF Matches, Alike, Take, Outcome, Pair, Parsers, Idle, Unversioned, NamedStates,
                    DoneStates, ChunkStates, BodyStates, UrlStates
    <2> QED
        BY <1>1, <2>1, FailMatches DEF MinorDigit
<1>4. /\ p.state = "http_major" => p.major = q.major
      /\ p.state = "http_minor" => p.minor = q.minor
    BY DEF Pair, Alike, Idle, Unversioned, UrlStates
<1>5. /\ p.state = "http_major" =>
             Matches(p, q, Take(To(p, "first_http_minor")), Take(To(q, "first_http_minor")))
      /\ p.state = "http_minor" => \A x \in {"line_almost_done", "header_field_start"} :
             Matches(p, q, Take(To(p, x)), Take(To(q, x)))
    BY Ways, ToMatches DEF Pair
<1> QED
    BY <1>1, <1>2, <1>3, <1>4, <1>5, FailMatches
       DEF FirstHttpMajor, HttpMajor, FirstHttpMinor, HttpMinor

\* In a header, all is set but upgrade.
LEMMA NamedAlike ==
    ASSUME NEW p, NEW q, Pair(p, q), p.state \in NamedStates \cup {"header_field_start"}
    PROVE  /\ p.state = q.state /\ p.flags = q.flags /\ p.length = q.length
           /\ p.method = q.method /\ p.major = q.major /\ p.minor = q.minor
           /\ p.state \in NamedStates => p.hs = q.hs
           /\ "TRAILING" \in p.flags => p.upgrade = q.upgrade
BY DEF Pair, Alike, Idle, Unversioned, UrlStates, NamedStates

\* The states of a header are none of the others.
LEMMA NamedAre ==
    \A x \in NamedStates :
        x \notin Idle \cup Unversioned \cup {"http_major", "first_http_minor"} \cup DoneStates
BY DEF NamedStates, Idle, Unversioned, UrlStates, DoneStates, ChunkStates, BodyStates

\* A state of a header with the same name or value so far.
LEMMA SetMatches ==
    ASSUME NEW p, NEW q, Pair(p, q), p.state \in NamedStates \cup {"header_field_start"},
           NEW x \in NamedStates, NEW h
    PROVE  Matches(p, q, Take([p EXCEPT !.state = x, !.hs = h]),
                         Take([q EXCEPT !.state = x, !.hs = h]))
<1> DEFINE a == [p EXCEPT !.state = x, !.hs = h]
           b == [q EXCEPT !.state = x, !.hs = h]
<1>1. /\ a.state = x /\ a.hs = h /\ a.length = p.length
      /\ a.failed = p.failed /\ a.flags = p.flags /\ a.upgrade = p.upgrade
      /\ a.major = p.major /\ a.minor = p.minor /\ a.method = p.method
      /\ b.state = x /\ b.hs = h /\ b.length = q.length
      /\ b.failed = q.failed /\ b.flags = q.flags /\ b.upgrade = q.upgrade
      /\ b.major = q.major /\ b.minor = q.minor /\ b.method = q.method
    BY DEF Pair, Parsers
<1> HIDE DEF a, b
<1>2. Alike(a, b)
    BY <1>1, NamedAlike, NamedAre DEF Pair, Alike
<1>3. Matches(p, q, Take(a), Take(b))
    BY <1>1, <1>2 DEF Matches, Take, Outcome
<1> QED
    BY <1>3 DEF a, b

\* What holds of the parsers after a step within the case holds of the case.
LEMMA MatchesFrom ==
    ASSUME NEW p, NEW q, NEW a, NEW b, NEW o, NEW r, Matches(a, b, o, r),
           a.upgrade = p.upgrade, b.upgrade = q.upgrade
    PROVE  Matches(p, q, o, r)
BY DEF Matches

\* The same within a state, after what the case did before.
LEMMA HsMatches ==
    ASSUME NEW p, NEW q, NEW a, NEW b, Pair(a, b), a.state \in NamedStates,
           a.upgrade = p.upgrade, b.upgrade = q.upgrade, NEW h
    PROVE  Matches(p, q, Take([a EXCEPT !.hs = h]), Take([b EXCEPT !.hs = h]))
<1>1. a.state = b.state /\ a \in Parsers /\ b \in Parsers
    BY NamedAlike DEF Pair
<1>2. /\ [a EXCEPT !.hs = h] = [a EXCEPT !.state = a.state, !.hs = h]
      /\ [b EXCEPT !.hs = h] = [b EXCEPT !.state = a.state, !.hs = h]
    BY <1>1 DEF Parsers
<1>3. Matches(a, b, Take([a EXCEPT !.state = a.state, !.hs = h]),
                    Take([b EXCEPT !.state = a.state, !.hs = h]))
    <2> DEFINE x == a.state
    <2>1. x \in NamedStates
        OBVIOUS
    <2> HIDE DEF x
    <2>2. Matches(a, b, Take([a EXCEPT !.state = x, !.hs = h]), Take([b EXCEPT !.state = x, !.hs = h]))
        BY <2>1, SetMatches
    <2> QED
        BY <2>2 DEF x
<1>4. Matches(a, b, Take([a EXCEPT !.hs = h]), Take([b EXCEPT !.hs = h]))
    BY <1>2, <1>3
<1> QED
    BY <1>4 DEF Matches

\* A flag that a header sets.
LEMMA FlagMatches ==
    ASSUME NEW p, NEW q, Pair(p, q), p.state \in NamedStates, NEW f \in Flags, f # "TRAILING"
    PROVE  /\ Pair(Flag(p, f), Flag(q, f)) /\ Flag(p, f).state = p.state
           /\ Flag(p, f).upgrade = p.upgrade /\ Flag(q, f).upgrade = q.upgrade
           /\ Flag(p, f).hs = p.hs /\ Flag(q, f).hs = q.hs
<1> DEFINE a == Flag(p, f)
           b == Flag(q, f)
<1>1. /\ a \in Parsers /\ a.state = p.state /\ a.hs = p.hs /\ a.length = p.length
      /\ a.failed = p.failed /\ a.flags = p.flags \cup {f} /\ a.upgrade = p.upgrade
      /\ a.major = p.major /\ a.minor = p.minor /\ a.method = p.method
      /\ b \in Parsers /\ b.state = q.state /\ b.hs = q.hs /\ b.length = q.length
      /\ b.failed = q.failed /\ b.flags = q.flags \cup {f} /\ b.upgrade = q.upgrade
      /\ b.major = q.major /\ b.minor = q.minor /\ b.method = q.method
    BY DEF Flag, Pair, Parsers
<1> HIDE DEF a, b
<1>2. Pair(a, b)
    BY <1>1, NamedAlike DEF Pair, Alike
<1> QED
    BY <1>1, <1>2 DEF a, b

\* The flags earned at the end of a value.
LEMMA EarnedMatches ==
    ASSUME NEW p, NEW q, Pair(p, q), p.state \in NamedStates
    PROVE  /\ Pair(Earned(p), Earned(q)) /\ Earned(p).state = p.state
           /\ Earned(p).upgrade = p.upgrade /\ Earned(q).upgrade = q.upgrade
<1>1. p.hs = q.hs
    BY NamedAlike
<1>2. \A f \in {"KEEP_ALIVE", "CLOSE", "CHUNKED", "CONNECTION_UPGRADE"} :
          f \in Flags /\ f # "TRAILING"
    BY DEF Flags
<1> QED
    BY <1>1, <1>2, FlagMatches DEF Earned

\* The name of a header.
LEMMA NameMatches ==
    ASSUME NEW p, NEW q, NEW s, Pair(p, q)
    PROVE  /\ p.state = "header_field_start" =>
                  Matches(p, q, HeaderFieldStart(p, s), HeaderFieldStart(q, s))
           /\ p.state = "header_field" => Matches(p, q, HeaderField(p, s), HeaderField(q, s))
<1>1. p.state = q.state /\ p \in Parsers /\ q \in Parsers
    BY DEF Pair, Alike
<1>2. ASSUME p.state = "header_field_start"
      PROVE  Matches(p, q, HeaderFieldStart(p, s), HeaderFieldStart(q, s))
    <2>1. "header_field" \in NamedStates
        BY DEF NamedStates
    <2>2. LET x == "headers_almost_done"
          IN  /\ Matches(p, q, Take(To(p, x)), Take(To(q, x)))
              /\ Matches(p, q, Again(To(p, x)), Again(To(q, x)))
        BY <1>2, Ways, ToMatches DEF Pair
    <2>3. LET h == NameBegins(s)
          IN  Matches(p, q, Take([p EXCEPT !.state = "header_field", !.hs = h]),
                            Take([q EXCEPT !.state = "header_field", !.hs = h]))
        BY <1>2, <2>1, SetMatches
    <2> QED
        BY <1>1, <2>2, <2>3, FailMatches DEF HeaderFieldStart
<1>3. ASSUME p.state = "header_field" PROVE Matches(p, q, HeaderField(p, s), HeaderField(q, s))
    <2> DEFINE h == NameGoesOn(p.hs, s)
    <2>1. p.state \in NamedStates
        BY <1>3 DEF NamedStates
    <2>2. Matches(p, q, Take([p EXCEPT !.hs = h]), Take([q EXCEPT !.hs = h]))
        BY <2>1, HsMatches
    <2>3. p.hs = q.hs
        BY <2>1, NamedAlike
    <2>4. Matches(p, q, Take(To(p, "header_value_discard_ws")), Take(To(q, "header_value_discard_ws")))
        BY <1>3, Ways, ToMatches DEF Pair
    <2> HIDE DEF h
    <2> QED
        BY <1>1, <2>2, <2>3, <2>4, FailMatches DEF HeaderField, h
<1> QED
    BY <1>2, <1>3

\* The first digit of a length.
LEMMA FirstDigitMatches ==
    ASSUME NEW p, NEW q, NEW s, Pair(p, q), p.state \in NamedStates
    PROVE  Matches(p, q, FirstDigit(p, s), FirstDigit(q, s))
<1> DEFINE a == Flag(p, "CONTENTLENGTH")
           b == Flag(q, "CONTENTLENGTH")
<1>1. /\ Pair(a, b) /\ a.state = p.state /\ a.upgrade = p.upgrade /\ b.upgrade = q.upgrade
    BY FlagMatches DEF Flags
<1> HIDE DEF a, b
<1>2. Matches(a, b, Take([a EXCEPT !.length = Value[s]]), Take([b EXCEPT !.length = Value[s]]))
    BY <1>1, NamedAlike, NamedAre DEF Matches, Alike, Take, Outcome, Pair, Parsers
<1>3. Matches(p, q, Take([a EXCEPT !.length = Value[s]]), Take([b EXCEPT !.length = Value[s]]))
    BY <1>1, <1>2, MatchesFrom
<1>4. p.flags = q.flags /\ Matches(p, q, Fail(p), Fail(q))
    BY NamedAlike, FailMatches DEF Pair
<1> QED
    BY <1>3, <1>4 DEF FirstDigit, a, b

\* The first symbol of a value.
LEMMA ValueStartMatches ==
    ASSUME NEW p, NEW q, NEW s, Pair(p, q), p.state \in {"header_value_discard_ws", "header_value_start"}
    PROVE  Matches(p, q, HeaderValueStart(p, s), HeaderValueStart(q, s))
<1> DEFINE v == "header_value"
           a == To(p, v)
           b == To(q, v)
<1>1. p.state \in NamedStates /\ v \in NamedStates /\ v \in States
    BY DEF NamedStates, States
<1>2. /\ Pair(a, b) /\ a.state = v /\ a.upgrade = p.upgrade /\ b.upgrade = q.upgrade
      /\ a.hs = p.hs /\ b.hs = q.hs /\ p.hs = q.hs /\ Matches(p, q, Take(a), Take(b))
    <2>1. Alike(a, b) /\ a.upgrade = p.upgrade /\ b.upgrade = q.upgrade
          /\ Matches(p, q, Take(a), Take(b))
        BY <1>1, Ways, ToMatches DEF Pair
    <2>2. a \in Parsers /\ b \in Parsers /\ a.state = v /\ a.hs = p.hs /\ b.hs = q.hs
          /\ a.failed = p.failed /\ b.failed = q.failed
        BY <1>1 DEF Pair, To, Parsers
    <2> QED
        BY <1>1, <2>1, <2>2, NamedAlike DEF Pair
<1> HIDE DEF a, b
<1>3. ASSUME NEW h PROVE Matches(p, q, Take([a EXCEPT !.hs = h]), Take([b EXCEPT !.hs = h]))
    BY <1>1, <1>2, HsMatches
<1>4. LET c == Flag(a, "UPGRADE")
          d == Flag(b, "UPGRADE")
      IN  Matches(p, q, Take([c EXCEPT !.hs = "general"]), Take([d EXCEPT !.hs = "general"]))
    <2> DEFINE c == Flag(a, "UPGRADE")
               d == Flag(b, "UPGRADE")
    <2>1. Pair(c, d) /\ c.state = v /\ c.upgrade = p.upgrade /\ d.upgrade = q.upgrade
        BY <1>1, <1>2, FlagMatches DEF Flags
    <2> HIDE DEF c, d
    <2>2. Matches(p, q, Take([c EXCEPT !.hs = "general"]), Take([d EXCEPT !.hs = "general"]))
        BY <1>1, <2>1, HsMatches
    <2> QED
        BY <2>2 DEF c, d
<1>5. Matches(p, q, FirstDigit(a, s), FirstDigit(b, s))
    BY <1>1, <1>2, FirstDigitMatches, MatchesFrom
<1> QED
    BY <1>2, <1>3, <1>4, <1>5 DEF HeaderValueStart, a, b

\* The blanks before a value.
LEMMA DiscardMatches ==
    ASSUME NEW p, NEW q, NEW s, Pair(p, q)
    PROVE  /\ p.state = "header_value_discard_ws" =>
                  Matches(p, q, HeaderValueDiscardWs(p, s), HeaderValueDiscardWs(q, s))
           /\ p.state = "header_value_discard_lws" => Matches(p, q, DiscardLws(p, s), DiscardLws(q, s))
<1>1. ASSUME p.state = "header_value_discard_ws"
      PROVE  Matches(p, q, HeaderValueDiscardWs(p, s), HeaderValueDiscardWs(q, s))
    <2>1. \A x \in {"header_value_discard_ws_almost_done", "header_value_discard_lws"} :
              Matches(p, q, Take(To(p, x)), Take(To(q, x)))
        BY <1>1, Ways, ToMatches DEF Pair
    <2> QED
        BY <1>1, <2>1, TakeMatches, ValueStartMatches DEF HeaderValueDiscardWs, Pair
<1>2. ASSUME p.state = "header_value_discard_lws"
      PROVE  Matches(p, q, DiscardLws(p, s), DiscardLws(q, s))
    <2>1. LET x == "header_value_discard_ws" IN Matches(p, q, Take(To(p, x)), Take(To(q, x)))
        BY <1>2, Ways, ToMatches DEF Pair
    <2>2. LET x == "header_field_start"
          IN  Matches(p, q, Again(To(Earned(p), x)), Again(To(Earned(q), x)))
        <3> DEFINE a == Earned(p)
                   b == Earned(q)
                   x == "header_field_start"
        <3>1. Pair(a, b) /\ a.state = p.state /\ a.upgrade = p.upgrade /\ b.upgrade = q.upgrade
            BY <1>2, EarnedMatches DEF NamedStates
        <3> HIDE DEF a, b
        <3>2. Matches(a, b, Again(To(a, x)), Again(To(b, x)))
            BY <1>2, <3>1, Ways, ToMatches DEF Pair
        <3> QED
            BY <3>1, <3>2, MatchesFrom DEF a, b
    <2> QED
        BY <2>1, <2>2 DEF DiscardLws
<1> QED
    BY <1>1, <1>2

\* A further symbol of a value.
LEMMA ValueCharMatches ==
    ASSUME NEW p, NEW q, NEW s, Pair(p, q), p.state = "header_value"
    PROVE  Matches(p, q, HeaderValueChar(p, s), HeaderValueChar(q, s))
<1>1. /\ p.state \in NamedStates /\ p.hs = q.hs /\ p.length = q.length
      /\ p \in Parsers /\ q \in Parsers
    BY NamedAlike DEF Pair, NamedStates
<1>2. Matches(p, q, Take(p), Take(q)) /\ Matches(p, q, Fail(p), Fail(q))
    BY <1>1, TakeMatches, FailMatches DEF Pair
<1>3. ASSUME NEW h PROVE Matches(p, q, Take([p EXCEPT !.hs = h]), Take([q EXCEPT !.hs = h]))
    BY <1>1, HsMatches
<1>4. LET a == Earned(p)
          b == Earned(q)
      IN  Matches(p, q, Take([a EXCEPT !.hs = "token_start"]), Take([b EXCEPT !.hs = "token_start"]))
    <2> DEFINE a == Earned(p)
               b == Earned(q)
    <2>1. Pair(a, b) /\ a.state = p.state /\ a.upgrade = p.upgrade /\ b.upgrade = q.upgrade
        BY <1>1, EarnedMatches
    <2> HIDE DEF a, b
    <2>2. Matches(p, q, Take([a EXCEPT !.hs = "token_start"]), Take([b EXCEPT !.hs = "token_start"]))
        BY <1>1, <2>1, HsMatches
    <2> QED
        BY <2>2 DEF a, b
<1>5. Matches(p, q, MoreDigits(p, s), MoreDigits(q, s))
    <2> DEFINE n == Longer(p.length, s)
    <2>1. Matches(p, q, Take([p EXCEPT !.length = n]), Take([q EXCEPT !.length = n]))
        BY <1>1, NamedAlike, NamedAre DEF Matches, Alike, Take, Outcome, Pair, Parsers
    <2> HIDE DEF n
    <2> QED
        BY <1>1, <1>2, <2>1 DEF MoreDigits, n
<1> QED
    BY <1>1, <1>2, <1>3, <1>4, <1>5 DEF HeaderValueChar

\* The value of a header and its end.
LEMMA ValueMatches ==
    ASSUME NEW p, NEW q, NEW s, Pair(p, q)
    PROVE  /\ p.state = "header_value" => Matches(p, q, HeaderValue(p, s), HeaderValue(q, s))
           /\ p.state = "header_value_lws" => Matches(p, q, HeaderValueLws(p, s), HeaderValueLws(q, s))
<1>1. ASSUME p.state = "header_value" PROVE Matches(p, q, HeaderValue(p, s), HeaderValue(q, s))
    <2>1. LET x == "header_almost_done"
          IN  /\ Matches(p, q, Take(To(p, x)), Take(To(q, x)))
              /\ Matches(p, q, Again(To(p, x)), Again(To(q, x)))
        BY <1>1, Ways, ToMatches DEF Pair
    <2> QED
        BY <1>1, <2>1, ValueCharMatches DEF HeaderValue
<1>2. ASSUME p.state = "header_value_lws"
      PROVE  Matches(p, q, HeaderValueLws(p, s), HeaderValueLws(q, s))
    <2>1. LET x == "header_value_start" IN Matches(p, q, Again(To(p, x)), Again(To(q, x)))
        BY <1>2, Ways, ToMatches DEF Pair
    <2>2. LET x == "header_field_start"
          IN  Matches(p, q, Again(To(Earned(p), x)), Again(To(Earned(q), x)))
        <3> DEFINE a == Earned(p)
                   b == Earned(q)
                   x == "header_field_start"
        <3>1. Pair(a, b) /\ a.state = p.state /\ a.upgrade = p.upgrade /\ b.upgrade = q.upgrade
            BY <1>2, EarnedMatches DEF NamedStates
        <3> HIDE DEF a, b
        <3>2. Matches(a, b, Again(To(a, x)), Again(To(b, x)))
            BY <1>2, <3>1, Ways, ToMatches DEF Pair
        <3> QED
            BY <3>1, <3>2, MatchesFrom DEF a, b
    <2> QED
        BY <2>1, <2>2 DEF HeaderValueLws
<1> QED
    BY <1>1, <1>2

\* After the headers, all that is looked at is set.
LEMMA DoneAlike ==
    ASSUME NEW p, NEW q, Pair(p, q), p.state \in DoneStates
    PROVE  /\ p.state = q.state /\ p.flags = q.flags /\ p.length = q.length
           /\ p.method = q.method /\ p.major = q.major /\ p.minor = q.minor
           /\ p.upgrade = q.upgrade
BY DEF Pair, Alike, Idle, Unversioned, UrlStates, DoneStates, BodyStates, ChunkStates

\* Parsers that agree on it match, however they were left.
LEMMA DoneMatches ==
    ASSUME NEW p, NEW q, Pair(p, q), p.state \in DoneStates, NEW a, NEW b, NEW again, NEW call,
           a.state = b.state, a.state \notin NamedStates, a.flags = b.flags, a.length = b.length,
           a.failed = b.failed,
           a.method = p.method, a.major = p.major, a.minor = p.minor, a.upgrade = p.upgrade,
           b.method = q.method, b.major = q.major, b.minor = q.minor, b.upgrade = q.upgrade
    PROVE  Matches(p, q, Outcome(a, again, call), Outcome(b, again, call))
BY DoneAlike DEF Matches, Alike, Outcome

\* The end of the headers.
LEMMA HeadersEndMatches ==
    ASSUME NEW p, NEW q, NEW s, Pair(p, q), p.state = "headers_almost_done"
    PROVE  Matches(p, q, HeadersAlmostDone(p, s), HeadersAlmostDone(q, s))
<1>1. /\ p.flags = q.flags /\ p.length = q.length /\ p.method = q.method
      /\ p.major = q.major /\ p.minor = q.minor
      /\ "TRAILING" \in p.flags => p.upgrade = q.upgrade
    BY DEF Pair, Alike, Idle, Unversioned, UrlStates
<1>2. Matches(p, q, Fail(p), Fail(q))
    BY FailMatches DEF Pair
<1>3. "TRAILING" \in p.flags =>
          Matches(p, q, Again(To(p, "message_done")), Again(To(q, "message_done")))
    BY <1>1 DEF Matches, Alike, Again, Outcome, To, Pair, Parsers, NamedStates
<1>4. ASSUME NEW u
      PROVE  Matches(p, q, Again([p EXCEPT !.state = "headers_done", !.upgrade = u]),
                           Again([q EXCEPT !.state = "headers_done", !.upgrade = u]))
    BY <1>1 DEF Matches, Alike, Again, Outcome, Pair, Parsers, NamedStates
<1> QED
    BY <1>1, <1>2, <1>3, <1>4 DEF HeadersAlmostDone

\* The message is complete: whether another may follow is the same for both.
LEMMA CompleteMatches ==
    ASSUME NEW p, NEW q, Pair(p, q), p.state \in DoneStates
    PROVE  /\ Matches(p, q, Complete(p), Complete(q))
           /\ Matches(p, q, Complete([p EXCEPT !.nread = 0]), Complete([q EXCEPT !.nread = 0]))
<1>1. ASSUME NEW a \in Parsers, NEW b \in Parsers, ~a.failed, ~b.failed, a.flags = b.flags,
             a.major = p.major, a.minor = p.minor, a.upgrade = p.upgrade,
             b.major = q.major, b.minor = q.minor, b.upgrade = q.upgrade
      PROVE  Matches(p, q, Complete(a), Complete(b))
    <2>1. p.major = q.major /\ p.minor = q.minor /\ p.upgrade = q.upgrade
        BY DoneAlike
    <2>2. ShouldKeepAlive(a) = ShouldKeepAlive(b)
        BY <1>1, <2>1 DEF ShouldKeepAlive
    <2>3. ASSUME NEW x \in Idle
          PROVE  Matches(p, q, Call(To(a, x), "complete"), Call(To(b, x), "complete"))
        BY <1>1, <2>1 DEF Matches, Alike, Call, Outcome, To, Parsers, Idle, NamedStates, Unversioned
    <2> QED
        BY <2>2, <2>3 DEF Complete, NewMessage, Idle
<1>2. /\ p.flags = q.flags
      /\ \A r \in {p, q} : /\ r \in Parsers /\ ~r.failed
                           /\ [r EXCEPT !.nread = 0] \in Parsers
                           /\ [r EXCEPT !.nread = 0].failed = r.failed
                           /\ [r EXCEPT !.nread = 0].flags = r.flags
                           /\ [r EXCEPT !.nread = 0].major = r.major
                           /\ [r EXCEPT !.nread = 0].minor = r.minor
                           /\ [r EXCEPT !.nread = 0].upgrade = r.upgrade
    BY DoneAlike, Constant DEF Pair, Parsers
<1> QED
    BY <1>1, <1>2

\* s_headers_done: there is a body for both or for neither.
LEMMA HeadersDoneMatches ==
    ASSUME NEW p, NEW q, NEW s, Pair(p, q), p.state = "headers_done"
    PROVE  Matches(p, q, HeadersDone(p, s), HeadersDone(q, s))
<1>1. p.state \in DoneStates
    BY DEF DoneStates
<1>2. HasBody(p) = HasBody(q) /\ p.upgrade = q.upgrade /\ p.method = q.method /\ p.flags = q.flags
    BY <1>1, DoneAlike DEF HasBody
<1>3. Matches(p, q, Complete([p EXCEPT !.nread = 0]), Complete([q EXCEPT !.nread = 0]))
    BY <1>1, CompleteMatches
<1>4. ASSUME NEW x \in {"chunk_size_start", "body_identity"}
      PROVE  Matches(p, q, Take(To([p EXCEPT !.nread = 0], x)),
                           Take(To([q EXCEPT !.nread = 0], x)))
    <2> DEFINE a == To([p EXCEPT !.nread = 0], x)
               b == To([q EXCEPT !.nread = 0], x)
    <2>1. /\ a.state = x /\ b.state = x /\ x \notin NamedStates /\ a.failed = b.failed
          /\ a.flags = b.flags /\ a.length = b.length
          /\ a.method = p.method /\ a.major = p.major /\ a.minor = p.minor /\ a.upgrade = p.upgrade
          /\ b.method = q.method /\ b.major = q.major /\ b.minor = q.minor /\ b.upgrade = q.upgrade
        BY <1>1, DoneAlike DEF To, Pair, Parsers, NamedStates
    <2> HIDE DEF a, b
    <2> QED
        BY <1>1, <2>1, DoneMatches DEF Take, a, b
<1>5. Matches(p, q, Fail(p), Fail(q))
    BY FailMatches DEF Pair
<1> QED
    BY <1>2, <1>3, <1>4, <1>5 DEF HeadersDone

\* The body, by length or in chunks.
LEMMA BodyMatches ==
    ASSUME NEW p, NEW q, NEW s, Pair(p, q)
    PROVE  /\ p.state = "body_identity" => Matches(p, q, BodyIdentity(p, s), BodyIdentity(q, s))
           /\ p.state = "message_done" => Matches(p, q, MessageDone(p, s), MessageDone(q, s))
           /\ p.state = "chunk_size_start" => Matches(p, q, ChunkSizeStart(p, s), ChunkSizeStart(q, s))
           /\ p.state = "chunk_size" => Matches(p, q, ChunkSize(p, s), ChunkSize(q, s))
           /\ p.state = "chunk_parameters" => Matches(p, q, ChunkParameters(p, s), ChunkParameters(q, s))
           /\ p.state = "chunk_size_almost_done" =>
                  Matches(p, q, ChunkSizeAlmostDone(p, s), ChunkSizeAlmostDone(q, s))
           /\ p.state = "chunk_data" => Matches(p, q, ChunkData(p, s), ChunkData(q, s))
           /\ p.state = "chunk_data_done" => Matches(p, q, ChunkDataDone(p, s), ChunkDataDone(q, s))
<1> SUFFICES ASSUME p.state \in BodyStates \cup ChunkStates
             PROVE  /\ Matches(p, q, BodyIdentity(p, s), BodyIdentity(q, s))
                    /\ Matches(p, q, MessageDone(p, s), MessageDone(q, s))
                    /\ Matches(p, q, ChunkSizeStart(p, s), ChunkSizeStart(q, s))
                    /\ Matches(p, q, ChunkSize(p, s), ChunkSize(q, s))
                    /\ Matches(p, q, ChunkParameters(p, s), ChunkParameters(q, s))
                    /\ Matches(p, q, ChunkSizeAlmostDone(p, s), ChunkSizeAlmostDone(q, s))
                    /\ Matches(p, q, ChunkData(p, s), ChunkData(q, s))
                    /\ Matches(p, q, ChunkDataDone(p, s), ChunkDataDone(q, s))
    BY DEF BodyStates, ChunkStates
<1>1. p.state \in DoneStates /\ p \in Parsers /\ q \in Parsers
    BY DEF DoneStates, Pair
<1>2. p.length = q.length /\ p.flags = q.flags
    BY <1>1, DoneAlike
<1>3. Matches(p, q, Fail(p), Fail(q)) /\ Matches(p, q, Take(p), Take(q))
    BY <1>1, FailMatches, TakeMatches DEF Pair
<1>4. ASSUME NEW x \in ChunkStates \cup BodyStates
      PROVE  Matches(p, q, Take(To(p, x)), Take(To(q, x)))
    BY <1>1, Ways, ToMatches DEF DoneStates, Pair
<1>5. ASSUME NEW n, NEW x \in BodyStates \cup ChunkStates, NEW again
      PROVE  /\ Matches(p, q, Take([p EXCEPT !.length = n]), Take([q EXCEPT !.length = n]))
             /\ Matches(p, q, Outcome(To([p EXCEPT !.length = n], x), again, "none"),
                              Outcome(To([q EXCEPT !.length = n], x), again, "none"))
             /\ Matches(p, q, Take([p EXCEPT !.length = n, !.state = x]),
                              Take([q EXCEPT !.length = n, !.state = x]))
             /\ Matches(p, q, Take([p EXCEPT !.state = x, !.nread = 0]),
                              Take([q EXCEPT !.state = x, !.nread = 0]))
             /\ Matches(p, q, Take(To([p EXCEPT !.nread = 0], x)),
                              Take(To([q EXCEPT !.nread = 0], x)))
    <2> DEFINE Sides(a, b) ==
                   /\ a.state = b.state /\ a.state \notin NamedStates /\ a.failed = b.failed
                   /\ a.flags = b.flags /\ a.length = b.length
                   /\ a.method = p.method /\ a.major = p.major /\ a.minor = p.minor
                   /\ a.upgrade = p.upgrade
                   /\ b.method = q.method /\ b.major = q.major /\ b.minor = q.minor
                   /\ b.upgrade = q.upgrade
    <2>1. \A a, b, g : Sides(a, b) => Matches(p, q, Outcome(a, g, "none"), Outcome(b, g, "none"))
        BY <1>1, DoneMatches
    <2>2. p.state = q.state /\ p.failed = q.failed /\ x \notin NamedStates /\ p.state \notin NamedStates
        BY <1>1, DoneAlike DEF Pair, Alike, NamedStates, DoneStates, BodyStates, ChunkStates
    <2>3. Sides([p EXCEPT !.length = n], [q EXCEPT !.length = n])
        BY <1>1, <1>2, <2>2 DEF Parsers
    <2>4. Sides(To([p EXCEPT !.length = n], x), To([q EXCEPT !.length = n], x))
        BY <1>1, <1>2, <2>2 DEF Parsers, To
    <2>5. Sides([p EXCEPT !.length = n, !.state = x], [q EXCEPT !.length = n, !.state = x])
        BY <1>1, <1>2, <2>2 DEF Parsers
    <2>6. Sides([p EXCEPT !.state = x, !.nread = 0], [q EXCEPT !.state = x, !.nread = 0])
        BY <1>1, <1>2, <2>2 DEF Parsers
    <2>7. Sides(To([p EXCEPT !.nread = 0], x), To([q EXCEPT !.nread = 0], x))
        BY <1>1, <1>2, <2>2 DEF Parsers, To
    <2> HIDE DEF Sides
    <2> QED
        BY <2>1, <2>3, <2>4, <2>5, <2>6, <2>7 DEF Take
<1>6. LET a == Flag([p EXCEPT !.nread = 0], "TRAILING")
          b == Flag([q EXCEPT !.nread = 0], "TRAILING")
          x == "header_field_start"
      IN  Matches(p, q, Take(To(a, x)), Take(To(b, x)))
    <2> DEFINE a == To(Flag([p EXCEPT !.nread = 0], "TRAILING"), "header_field_start")
               b == To(Flag([q EXCEPT !.nread = 0], "TRAILING"), "header_field_start")
    <2>1. /\ a.state = b.state /\ a.state \notin NamedStates /\ a.failed = b.failed
          /\ a.flags = b.flags /\ a.length = b.length
          /\ a.method = p.method /\ a.major = p.major /\ a.minor = p.minor /\ a.upgrade = p.upgrade
          /\ b.method = q.method /\ b.major = q.major /\ b.minor = q.minor /\ b.upgrade = q.upgrade
        BY <1>1, <1>2 DEF Parsers, Pair, Alike, To, Flag, NamedStates
    <2> HIDE DEF a, b
    <2> QED
        BY <1>1, <2>1, DoneMatches DEF Take, a, b
<1>7. Matches(p, q, BodyIdentity(p, s), BodyIdentity(q, s))
    <2> DEFINE n == p.length - 1
    <2>1. [p EXCEPT !.length = @ - 1] = [p EXCEPT !.length = n]
          /\ [q EXCEPT !.length = @ - 1] = [q EXCEPT !.length = n]
          /\ [p EXCEPT !.length = n].length = n /\ [q EXCEPT !.length = n].length = n
        BY <1>1, <1>2 DEF Parsers
    <2>2. "message_done" \in BodyStates
        BY DEF BodyStates
    <2> HIDE DEF n
    <2> QED
        BY <1>5, <2>1, <2>2 DEF BodyIdentity, Again, Take
<1>8. Matches(p, q, ChunkData(p, s), ChunkData(q, s))
    <2> DEFINE n == p.length - 1
    <2>1. [p EXCEPT !.length = @ - 1] = [p EXCEPT !.length = n]
          /\ [q EXCEPT !.length = @ - 1] = [q EXCEPT !.length = n]
          /\ [p EXCEPT !.length = n].length = n /\ [q EXCEPT !.length = n].length = n
        BY <1>1, <1>2 DEF Parsers
    <2>2. "chunk_data_almost_done" \in ChunkStates
        BY DEF ChunkStates
    <2> HIDE DEF n
    <2> QED
        BY <1>5, <2>1, <2>2 DEF ChunkData, Take
<1>9. Matches(p, q, MessageDone(p, s), MessageDone(q, s))
    BY <1>1, CompleteMatches DEF MessageDone
<1>10. \A x \in {"chunk_size", "chunk_size_almost_done", "chunk_parameters", "chunk_data",
                 "chunk_size_start"} : x \in BodyStates \cup ChunkStates
    BY DEF ChunkStates
<1>11. Matches(p, q, ChunkSizeStart(p, s), ChunkSizeStart(q, s))
    BY <1>3, <1>5, <1>10 DEF ChunkSizeStart
<1>12. Matches(p, q, ChunkSize(p, s), ChunkSize(q, s))
    <2> DEFINE n == LongerHex(p.length, s)
               fits == (MaxUint - 16) \div 16 >= p.length
    <2>1. Matches(p, q, Take([p EXCEPT !.length = n]), Take([q EXCEPT !.length = n]))
        BY <1>5, <1>10
    <2>2. n = LongerHex(q.length, s) /\ fits = ((MaxUint - 16) \div 16 >= q.length)
        BY <1>2
    <2> HIDE DEF n, fits
    <2> DEFINE skip == s \in {";", "sp"}
               digit == s \in Digits
    <2>7. /\ s = "cr" => ~skip /\ ~digit
          /\ skip => ~digit
        BY Zenon DEF Digits
    <2>3. CASE s = "cr"
        <3>1. /\ ChunkSize(p, s) = Take(To(p, "chunk_size_almost_done"))
              /\ ChunkSize(q, s) = Take(To(q, "chunk_size_almost_done"))
            BY <2>3, <2>7, Zenon DEF ChunkSize
        <3> QED
            BY <1>4, <1>10, <3>1, Zenon
    <2>4. CASE s # "cr" /\ skip
        <3>1. /\ ChunkSize(p, s) = Take(To(p, "chunk_parameters"))
              /\ ChunkSize(q, s) = Take(To(q, "chunk_parameters"))
            BY <2>4, <2>7, Zenon DEF ChunkSize
        <3> QED
            BY <1>4, <1>10, <3>1, Zenon
    <2>5. CASE s # "cr" /\ ~skip /\ digit /\ fits
        <3>1. /\ ChunkSize(p, s) = Take([p EXCEPT !.length = n])
              /\ ChunkSize(q, s) = Take([q EXCEPT !.length = n])
            BY <2>2, <2>5, Zenon DEF ChunkSize, n, fits
        <3> QED
            BY <2>1, <3>1, Zenon
    <2>6. CASE s # "cr" /\ ~skip /\ ~(digit /\ fits)
        <3>1. ChunkSize(p, s) = Fail(p) /\ ChunkSize(q, s) = Fail(q)
            BY <2>2, <2>6, Zenon DEF ChunkSize, fits
        <3> QED
            BY <1>3, <3>1, Zenon
    <2> QED
        BY <2>3, <2>4, <2>5, <2>6, Zenon
<1>13. Matches(p, q, ChunkParameters(p, s), ChunkParameters(q, s))
    BY <1>3, <1>4, <1>10 DEF ChunkParameters
<1>14. Matches(p, q, ChunkSizeAlmostDone(p, s), ChunkSizeAlmostDone(q, s))
    BY <1>2, <1>3, <1>5, <1>6, <1>10 DEF ChunkSizeAlmostDone
<1>15. Matches(p, q, ChunkDataDone(p, s), ChunkDataDone(q, s))
    BY <1>3, <1>5, <1>10 DEF ChunkDataDone
<1> QED
    BY <1>7, <1>8, <1>9, <1>11, <1>12, <1>13, <1>14, <1>15

\* Every case does the same with the same symbol.
LEMMA CaseMatches ==
    ASSUME NEW p, NEW q, NEW s, Pair(p, q) PROVE Matches(p, q, Case(p, s), Case(q, s))
<1>1. p.state = q.state /\ p.state \in States
    BY DEF Pair, Alike, Parsers
<1> DEFINE y == p.state
           prefix == {"schema", "schema_slash", "schema_slash_slash", "server_start"}
           url == {"server", "server_with_at", "path", "query_string_start", "query_string",
                   "fragment_start", "fragment"}
           line == {"dead", "req_method", "http_start", "http_HT", "http_HTTP", "line_almost_done",
                    "header_almost_done", "header_value_discard_ws_almost_done",
                    "chunk_data_almost_done"}
           version == {"first_http_major", "http_major", "first_http_minor", "http_minor"}
           header == {"header_field_start", "header_field", "header_value_discard_ws",
                      "header_value_start", "header_value", "header_value_lws",
                      "header_value_discard_lws", "headers_almost_done", "headers_done"}
           body == {"body_identity", "message_done", "chunk_size_start", "chunk_size",
                    "chunk_parameters", "chunk_size_almost_done", "chunk_data", "chunk_data_done"}
<1>2. CASE y \in line
    BY <1>1, <1>2, OneWayMatches DEF Case
<1>3. CASE y \in {"start_req", "spaces_before_url"}
    BY <1>1, <1>3, StartReqMatches, UrlMatches DEF Case
<1>4. CASE y \in prefix
    <2>1. y \in UrlStates
        BY <1>4 DEF UrlStates
    <2> QED
        BY <1>1, <1>4, <2>1, UrlMatches DEF Case
<1>5. CASE y \in url
    <2>1. y \in UrlStates
        BY <1>5 DEF UrlStates
    <2> QED
        BY <1>1, <1>5, <2>1, UrlMatches DEF Case
<1>6. CASE y \in version
    BY <1>1, <1>6, VersionMatches DEF Case
<1>7. CASE y \in header
    BY <1>1, <1>7, NameMatches, DiscardMatches, ValueStartMatches, ValueMatches, HeadersEndMatches,
       HeadersDoneMatches DEF Case
<1>8. CASE y \in body
    BY <1>1, <1>8, BodyMatches DEF Case
<1>9. y \in line \cup {"start_req", "spaces_before_url"} \cup prefix \cup url \cup version
            \cup header \cup body
    BY <1>1 DEF States, UrlStates, ChunkStates, BodyStates
<1> QED
    BY <1>2, <1>3, <1>4, <1>5, <1>6, <1>7, <1>8, <1>9

\* A symbol looked at once more is looked at once more by both.
LEMMA LookMatches ==
    ASSUME NEW p, NEW q, NEW s, NEW o, NEW r, Matches(p, q, o, r), SoundOutcome(o), SoundOutcome(r)
    PROVE  Matches(p, q, Look(o, s), Look(r, s))
<1>1. CASE ~o.again
    BY <1>1 DEF Look, Matches
<1>2. CASE o.again
    <2>1. Pair(o.p, r.p)
        BY <1>2 DEF Pair, SoundOutcome, Sound, Matches
    <2>2. Matches(o.p, r.p, Case(o.p, s), Case(r.p, s))
        BY <2>1, CaseMatches
    <2>3. Matches(p, q, Case(o.p, s), Case(r.p, s))
        BY <2>2 DEF Matches
    <2> QED
        BY <1>2, <2>3 DEF Look, Matches
<1> QED
    BY <1>1, <1>2

\* One symbol.
LEMMA ByteMatches ==
    ASSUME NEW p, NEW q, NEW s, Good(p), Good(q), Alike(p, q),
           p.failed \/ ~Overflows(p), q.failed \/ ~Overflows(q)
    PROVE  Matches(p, q, Byte(p, s), Byte(q, s))
<1>1. CASE p.failed
    <2>1. p \in Parsers /\ q \in Parsers /\ q.failed
        BY <1>1 DEF Good, Sound, Alike
    <2> QED
        BY <1>1, <2>1, FailMatches DEF Byte
<1>2. CASE ~p.failed
    <2> DEFINE a == Count(p)
               b == Count(q)
    <2>7. ~q.failed
        BY <1>2 DEF Alike
    <2>1. /\ a.failed = p.failed /\ a.state = p.state /\ a.hs = p.hs /\ a.flags = p.flags
          /\ a.length = p.length /\ a.major = p.major /\ a.minor = p.minor /\ a.method = p.method
          /\ a.upgrade = p.upgrade /\ a \in Parsers /\ Sound(a)
        BY <1>2, CountIsSound DEF Good, Sound
    <2>2. /\ b.failed = q.failed /\ b.state = q.state /\ b.hs = q.hs /\ b.flags = q.flags
          /\ b.length = q.length /\ b.major = q.major /\ b.minor = q.minor /\ b.method = q.method
          /\ b.upgrade = q.upgrade /\ b \in Parsers /\ Sound(b)
        BY <2>7, CountIsSound DEF Good, Sound
    <2>3. Pair(a, b)
        BY <1>2, <2>1, <2>2 DEF Pair, Alike
    <2> DEFINE o == Case(a, s)
               r == Case(b, s)
    <2>4. Matches(a, b, o, r) /\ SoundOutcome(o) /\ SoundOutcome(r)
        BY <2>1, <2>2, <2>3, CaseMatches, CaseIsSound DEF Pair
    <2> HIDE DEF o, r, a, b
    <2>5. Matches(a, b, Look(Look(Look(o, s), s), s), Look(Look(Look(r, s), s), s))
        BY <2>4, LookMatches, LookIsSound
    <2>6. Matches(p, q, Look(Look(Look(o, s), s), s), Look(Look(Look(r, s), s), s))
        BY <2>1, <2>2, <2>5 DEF Matches
    <2> QED
        BY <1>2, <2>6, <2>7 DEF Byte, o, r, a, b
<1> QED
    BY <1>1, <1>2

-----------------------------------------------------------------------------
(* The inductive invariant                                                  *)

\* The message that is being sent, alone, as far as it was sent.
At    == Alone(message)[sent]
InUrl == sent \in 3..UrlEnd(message)
UrlUpTo(m, k) == IF k <= UrlEnd(m) THEN SubSeq(m.wire, 3, k) ELSE m.target
UrlSoFar == UrlUpTo(message, sent)

\* The well-behaved user is where the message alone would have brought it.
LibAsAlone ==
    message.well /\ ~ended /\ "lib" \notin long =>
        /\ Alike(lib.in.p, At.p)
        /\ lib.in.marked <=> InUrl
        /\ lib.url \in Seq(Symbols) /\ lib.in.run \in Seq(Symbols)
        /\ ~InUrl => lib.in.run = <<>>
        /\ lib.url \o lib.in.run = UrlSoFar
        /\ lib.done = (IF Left THEN 0 ELSE 1)
        /\ ~Left => lib.in.p.upgrade = At.p.upgrade

\* efserv is there too, and will keep its parser,
KeepsUp ==
    /\ Alike(serv.p, At.p) /\ serv.p.upgrade = At.p.upgrade
    /\ kept \/ serv.marked \/ (before = 0 /\ sent < 3)
    /\ message.well => (serv.marked <=> InUrl)
    /\ ~Left => ~serv.p.upgrade

\* or it has lost it before the first url, and takes nothing of what follows.
Lost == torn /\ before = 0 /\ sent \in {1, 2} /\ serv = Enter(Fresh)

\* After a request that does not keep the connection alive nothing is taken.
AtDead == sent = 0 /\ kept /\ serv.p.state = "dead" /\ ~serv.marked

ServAsAlone ==
    status = "open" =>
        /\ ~serv.p.failed
        /\ sent >= 1 => Heard(message, 1) # "error"
        /\ IF ended THEN AtDead ELSE KeepsUp \/ Lost

\* What was handled, as long as no read has ended where it does harm and the
\* request was not too long.
RunIsMarked == ~serv.marked => serv.run = <<>>
ClientAsSent ==
    /\ InUrl => serv.run = UrlSoFar
    /\ ~InUrl => serv.run = <<>>
    /\ sent > UrlEnd(message) => client = message.means
HandledInOrder ==
    /\ ended \/ ~message.well => served = <<>>
    /\ message.well /\ ~ended /\ ~torn /\ "serv" \notin long /\ ~BadEscape(message.target) =>
           IF status = "open" THEN ClientAsSent /\ served = Due
           ELSE message.upgrade /\ status = "closed" /\ served \in {<<>>, Due}

ReadsInv == /\ PlaceOK /\ BothGood /\ Good(At.p)
            /\ LibAsAlone /\ ServAsAlone /\ RunIsMarked /\ HandledInOrder

-----------------------------------------------------------------------------
(* A message alone has a run of its own                                     *)

\* A set of numbers has a smallest one.
LEMMA SmallestNumber ==
    ASSUME NEW T \in SUBSET Nat, T # {}
    PROVE  \E n \in T : \A k \in T : n <= k
<1>1. PICK top \in T : TRUE
    OBVIOUS
<1>2. top \in Nat
    OBVIOUS
<1> DEFINE F == {0..n : n \in {k \in T : k <= top}}
<1>3. IsFiniteSet(0..top)
    BY <1>2, FS_Interval
<1>4. IsWellFoundedOn(StrictSubsetOrdering(0..top), SUBSET (0..top))
    BY <1>3, FS_StrictSubsetOrderingWellFounded, FS_FiniteSubsetsOfFinite
<1>5. F \subseteq SUBSET (0..top) /\ 0..top \in F
    BY <1>1, <1>2
<1>6. PICK s \in F : \A t \in F : ~(<<t, s>> \in StrictSubsetOrdering(0..top))
    <2> HIDE DEF F
    <2> QED
        BY <1>4, <1>5, WFMin
<1>7. PICK n \in T : n <= top /\ s = 0..n
    BY <1>6
<1>8. ASSUME NEW k \in T, ~(n <= k) PROVE FALSE
    <2>1. k \in Nat /\ n \in Nat /\ k < n /\ k <= top
        BY <1>2, <1>7, <1>8
    <2>2. 0..k \in F /\ 0..k \subseteq 0..n /\ 0..k # 0..n /\ 0..n \subseteq 0..top
        BY <1>2, <1>7, <2>1
    <2>3. <<0..k, s>> \in StrictSubsetOrdering(0..top)
        BY <1>7, <2>2, Zenon DEF StrictSubsetOrdering
    <2> QED
        BY <1>6, <2>2, <2>3
<1> QED
    BY <1>7, <1>8

\* A reader begins anew and is fed the symbols of the message in turn.
LEMMA AloneIs ==
    ASSUME NEW m, Len(m.wire) \in Nat
    PROVE  /\ Alone(m)[0] = Enter(Fresh)
           /\ \A k \in 1..Len(m.wire) : Alone(m)[k] = Feed(Alone(m)[k - 1], m.wire[k]).e
<1> DEFINE len == Len(m.wire)
           runs(e, n) == e = [k \in 0..n |-> IF k = 0 THEN Enter(Fresh)
                                             ELSE Feed(e[k - 1], m.wire[k]).e]
           T == {n \in 0..len : ~(\E e : runs(e, n))}
<1>1. T = {}
    <2> SUFFICES ASSUME T # {} PROVE FALSE
        OBVIOUS
    <2>1. PICK n \in T : \A k \in T : n <= k
        <3>1. T \in SUBSET Nat
            OBVIOUS
        <3> HIDE DEF T
        <3> QED
            BY <3>1, SmallestNumber
    <2>2. n \in Nat /\ n <= len /\ ~(\E e : runs(e, n))
        BY <2>1
    <2>3. CASE n = 0
        <3> DEFINE e == [k \in 0..0 |-> Enter(Fresh)]
                   g == [k \in 0..0 |-> IF k = 0 THEN Enter(Fresh) ELSE Feed(e[k - 1], m.wire[k]).e]
        <3>1. \A k \in 0..0 : k = 0 /\ g[k] = Enter(Fresh)
            OBVIOUS
        <3>2. g = e
            <4>1. g = [k \in 0..0 |-> g[k]]
                OBVIOUS
            <4> HIDE DEF g
            <4> QED
                BY <3>1, <4>1
        <3>3. runs(e, 0)
            BY <3>2
        <3> QED
            BY <2>2, <2>3, <3>3
    <2>4. CASE n # 0
        <3>1. n - 1 \in 0..len /\ ~(n <= n - 1)
            BY <2>2, <2>4
        <3>2. PICK e : runs(e, n - 1)
            BY <2>1, <3>1
        <3> DEFINE f == [k \in 0..n |-> IF k = n THEN Feed(e[n - 1], m.wire[n]).e ELSE e[k]]
        <3>3. ASSUME NEW k \in 0..n
              PROVE  f[k] = IF k = 0 THEN Enter(Fresh) ELSE Feed(f[k - 1], m.wire[k]).e
            <4>1. CASE k = n
                <5>1. f[k] = Feed(e[n - 1], m.wire[n]).e /\ f[n - 1] = e[n - 1]
                    BY <2>2, <2>4, <4>1
                <5> QED
                    BY <2>4, <4>1, <5>1
            <4>2. CASE k # n
                <5>1. k \in 0..(n - 1) /\ f[k] = e[k]
                    BY <2>2, <4>2
                <5>2. k # 0 => f[k - 1] = e[k - 1]
                    BY <2>2, <5>1
                <5>3. e[k] = IF k = 0 THEN Enter(Fresh) ELSE Feed(e[k - 1], m.wire[k]).e
                    BY <3>2, <5>1
                <5> QED
                    BY <5>1, <5>2, <5>3
            <4> QED
                BY <4>1, <4>2
        <3>4. runs(f, n)
            <4> DEFINE g == [k \in 0..n |-> IF k = 0 THEN Enter(Fresh)
                                            ELSE Feed(f[k - 1], m.wire[k]).e]
            <4>1. DOMAIN f = 0..n /\ DOMAIN g = 0..n /\ \A k \in 0..n : f[k] = g[k]
                BY <3>3
            <4>2. f = [k \in 0..n |-> f[k]] /\ g = [k \in 0..n |-> g[k]]
                OBVIOUS
            <4> HIDE DEF f
            <4> QED
                BY <4>1, <4>2
        <3> QED
            BY <2>2, <3>4
    <2> QED
        BY <2>3, <2>4
<1>2. \E e : runs(e, len)
    <2>1. len \in 0..len
        OBVIOUS
    <2> HIDE DEF runs
    <2> QED
        BY <1>1, <2>1
<1>3. runs(Alone(m), len)
    BY <1>2 DEF Alone
<1>4. \A k \in 0..len : Alone(m)[k] = IF k = 0 THEN Enter(Fresh)
                                      ELSE Feed(Alone(m)[k - 1], m.wire[k]).e
    BY <1>3
<1> QED
    BY <1>4

-----------------------------------------------------------------------------
(* One symbol for two readers                                               *)

\* Readers with alike parsers hear the same and stay alike.
LEMMA FeedMatches ==
    ASSUME NEW e, NEW q, NEW s, Good(e.p), Good(q.p), Alike(e.p, q.p), ~TooMany(e), ~TooMany(q)
    PROVE  LET f == Feed(e, s)
               g == Feed(q, s)
           IN  /\ f.call = g.call /\ Alike(f.e.p, g.e.p)
               /\ f.call = "complete" \/ e.p.upgrade = q.p.upgrade =>
                      f.e.p.upgrade = g.e.p.upgrade
               /\ f.call # "error" => ~f.e.p.failed
<1>1. Matches(e.p, q.p, Byte(e.p, s), Byte(q.p, s))
    BY ByteMatches DEF TooMany
<1>2. Byte(e.p, s).p.failed = Byte(q.p, s).p.failed
    BY <1>1 DEF Matches, Alike
<1> QED
    BY <1>1, <1>2 DEF Feed, Matches

\* One too many is an error.
LEMMA TooManyIsHeard ==
    ASSUME NEW e, NEW s, Good(e.p), TooMany(e) PROVE Feed(e, s).call = "error"
<1>1. Byte(e.p, s).p.failed
    BY DEF TooMany, Byte, Fail, Outcome, Good, Sound, Parsers
<1> QED
    BY <1>1 DEF Feed

\* The end of a read changes nothing of a parser but its count.
LEMMA EndMatches ==
    ASSUME NEW e, GoodReader(e), NEW q, Alike(e.p, q), ~AtEnd(e).failed
    PROVE  /\ ~e.p.failed /\ AtEnd(e) \in Parsers /\ Alike(AtEnd(e), q)
           /\ AtEnd(e).upgrade = e.p.upgrade /\ AtEnd(e).state = e.p.state
<1> DEFINE Kept(a) ==
        /\ a.failed = e.p.failed /\ a.state = e.p.state /\ a.hs = e.p.hs
        /\ a.flags = e.p.flags /\ a.length = e.p.length /\ a.method = e.p.method
        /\ a.major = e.p.major /\ a.minor = e.p.minor /\ a.upgrade = e.p.upgrade
<1>1. Good(AtEnd(e)) /\ e.p \in Parsers
    BY AtEndIsGood DEF GoodReader, Good, Sound
<1>2. \/ AtEnd(e) = e.p
      \/ \E n : AtEnd(e) = [e.p EXCEPT !.nread = n]
    BY AtEndIsGood
<1>3. Kept(e.p) /\ \A n : Kept([e.p EXCEPT !.nread = n])
    BY <1>1 DEF Parsers
<1>4. Kept(AtEnd(e))
    <2> HIDE DEF Kept
    <2> QED
        BY <1>2, <1>3
<1> QED
    BY <1>1, <1>4 DEF Alike, Good, Sound

\* What is assumed of a request, and what a wire is made of.
LEMMA WellIs ==
    ASSUME Clear, NEW m \in Messages, m.well
    PROVE  /\ AsMeant(m) /\ Len(m.wire) \in Nat /\ UrlEnd(m) \in Nat
           /\ UrlEnd(m) >= 3 /\ UrlEnd(m) + 1 < Len(m.wire)
           /\ m.wire \in Seq(Symbols) /\ \A k \in 1..Len(m.wire) : m.wire[k] \in Symbols
<1>1. AsMeant(m) /\ Len(m.target) \in Nat \ {0}
    BY DEF Clear, Begins
<1>2. m.wire \in Seq(Symbols)
    BY MessagesAssumption
<1> QED
    BY <1>1, <1>2 DEF AsMeant, UrlEnd

\* Whoever hears of no error has a parser that did not fail.
LEMMA ErrorIsHeard ==
    ASSUME NEW e, NEW s, Feed(e, s).call # "error" PROVE ~Feed(e, s).e.p.failed
BY DEF Feed

\* Its parser does not fail.
LEMMA WellGoesOn ==
    ASSUME Clear, NEW m \in Messages, m.well, NEW k \in 0..Len(m.wire)
    PROVE  ~Alone(m)[k].p.failed
<1>1. /\ Len(m.wire) \in Nat /\ Alone(m)[0] = Enter(Fresh)
      /\ \A j \in 1..Len(m.wire) : Alone(m)[j] = Feed(Alone(m)[j - 1], m.wire[j]).e
    BY WellIs, AloneIs
<1>2. CASE k = 0
    BY <1>1, <1>2 DEF Enter, Fresh
<1>3. CASE k # 0
    <2>1. k \in 1..Len(m.wire)
        BY <1>1, <1>3
    <2>2. Heard(m, k) # "error"
        BY <2>1, WellIs DEF AsMeant, Event
    <2> QED
        BY <1>1, <2>1, <2>2, ErrorIsHeard DEF Heard
<1> QED
    BY <1>2, <1>3

\* The url grows by the symbols it is made of.
LEMMA UrlGrows ==
    ASSUME Clear, NEW m \in Messages, m.well, NEW k \in 1..Len(m.wire)
    PROVE  /\ UrlUpTo(m, k - 1) \in Seq(Symbols)
           /\ UrlUpTo(m, k) = IF k \in 3..UrlEnd(m) THEN Append(UrlUpTo(m, k - 1), m.wire[k])
                              ELSE UrlUpTo(m, k - 1)
           /\ k <= 3 => UrlUpTo(m, k - 1) = <<>>
<1> DEFINE w == m.wire
           end == UrlEnd(m)
<1>1. /\ w \in Seq(Symbols) /\ Len(w) \in Nat /\ end \in Nat /\ end >= 3 /\ end + 1 < Len(w)
      /\ m.target = SubSeq(w, 3, end) /\ k \in Int
    BY WellIs DEF AsMeant
<1> HIDE DEF w, end
<1>2. ASSUME NEW j \in 0..Len(w) PROVE SubSeq(w, 3, j) \in Seq(Symbols)
    <2>1. \A i \in 3..j : w[i] \in Symbols
        BY <1>1
    <2> QED
        BY <1>1, <2>1, SubSeqProperties
<1>3. \A j \in Int : j < 3 => SubSeq(w, 3, j) = <<>>
    BY SubSeqEmpty
<1>4. k - 1 \in 0..Len(w) /\ end \in 0..Len(w)
    BY <1>1 DEF w
<1>5. UrlUpTo(m, k - 1) \in Seq(Symbols)
    BY <1>1, <1>2, <1>4 DEF UrlUpTo, w, end
<1>6. CASE k \in 3..end
    <2>1. k \in 3..Len(w) /\ 3 \in 1..Len(w)
        BY <1>1, <1>6
    <2>2. SubSeq(w, 3, k) = SubSeq(w, 3, k - 1) \o <<w[k]>>
        BY <1>1, <2>1, SubSeqRecursiveSecond
    <2>3. SubSeq(w, 3, k - 1) \in Seq(Symbols) /\ w[k] \in Symbols
        BY <1>1, <1>2, <1>4, <2>1
    <2>4. SubSeq(w, 3, k - 1) \o <<w[k]>> = Append(SubSeq(w, 3, k - 1), w[k])
        BY <2>3
    <2>5. k <= end /\ k - 1 <= end
        BY <1>1, <1>6
    <2> QED
        BY <1>3, <1>5, <1>6, <2>2, <2>4, <2>5 DEF UrlUpTo, w, end
<1>7. CASE k < 3
    <2>1. SubSeq(w, 3, k) = <<>> /\ SubSeq(w, 3, k - 1) = <<>>
        BY <1>1, <1>3, <1>7
    <2>2. k <= end /\ k - 1 <= end /\ k \notin 3..end
        BY <1>1, <1>7
    <2> QED
        BY <1>5, <2>1, <2>2 DEF UrlUpTo, w, end
<1>8. CASE k > end
    BY <1>1, <1>5, <1>8 DEF UrlUpTo, w, end
<1> QED
    BY <1>1, <1>6, <1>7, <1>8 DEF end

\* A reader that is where the message alone would have brought it hears the
\* next symbol as it was meant.
LEMMA HeardAsMeant ==
    ASSUME Clear, NEW m \in Messages, m.well, NEW k \in 1..Len(m.wire), NEW e,
           Good(e.p), Good(Alone(m)[k - 1].p), Alike(e.p, Alone(m)[k - 1].p),
           e.marked <=> (k - 1) \in 3..UrlEnd(m), ~TooMany(e)
    PROVE  LET f == Feed(e, m.wire[k])
           IN  /\ f.call = Event(m, k) /\ Alike(f.e.p, Alone(m)[k].p) /\ ~f.e.p.failed
               /\ f.e.marked <=> k \in 3..UrlEnd(m)
               /\ f.e.run = IF k \in 3..UrlEnd(m) THEN Append(e.run, m.wire[k]) ELSE <<>>
               /\ k = Len(m.wire) \/ e.p.upgrade = Alone(m)[k - 1].p.upgrade =>
                      f.e.p.upgrade = Alone(m)[k].p.upgrade
<1> DEFINE f == Feed(e, m.wire[k])
           g == Feed(Alone(m)[k - 1], m.wire[k])
<1>1. /\ AsMeant(m) /\ Len(m.wire) \in Nat /\ UrlEnd(m) \in Nat /\ UrlEnd(m) >= 3
      /\ UrlEnd(m) + 1 < Len(m.wire) /\ k \in Int
    BY WellIs
<1>2. Alone(m)[k] = g.e
    BY <1>1, AloneIs
<1>3. g.call = Event(m, k)
    BY <1>1 DEF AsMeant, Heard
<1>5. Event(m, k) # "error"
    BY DEF Event
<1>9. ~TooMany(Alone(m)[k - 1])
    BY <1>3, <1>5, TooManyIsHeard
<1>4. /\ f.call = g.call /\ Alike(f.e.p, g.e.p)
      /\ f.call = "complete" \/ e.p.upgrade = Alone(m)[k - 1].p.upgrade =>
             f.e.p.upgrade = g.e.p.upgrade
      /\ f.call # "error" => ~f.e.p.failed
    BY <1>9, FeedMatches
<1>6. /\ f.e.marked = ((e.marked \/ f.call = "mark") /\ f.call # "url")
      /\ f.e.run = IF f.e.marked THEN Append(e.run, m.wire[k]) ELSE <<>>
    BY <1>3, <1>4, <1>5 DEF Feed
<1> HIDE DEF f, g
<1>7. f.e.marked <=> k \in 3..UrlEnd(m)
    <2>1. CASE k = 3
        <3>1. \A end, len \in Int : 3 <= end /\ end + 1 < len =>
                  3 \in 3..end /\ 3 # end + 1 /\ 3 # len
            OBVIOUS
        <3>2. /\ UrlEnd(m) \in Int /\ Len(m.wire) \in Int
              /\ 3 <= UrlEnd(m) /\ UrlEnd(m) + 1 < Len(m.wire)
            BY <1>1
        <3>3. k \in 3..UrlEnd(m) /\ k # UrlEnd(m) + 1 /\ k # Len(m.wire)
            BY <2>1, <3>1, <3>2, Zenon
        <3>4. f.call = "mark"
            BY <1>3, <1>4, <2>1, <3>3 DEF Event
        <3> QED
            BY <1>6, <3>4, <3>3
    <2>2. CASE k = UrlEnd(m) + 1
        <3>1. f.call = "url" /\ k \notin 3..UrlEnd(m)
            BY <1>1, <1>3, <1>4, <2>2 DEF Event
        <3> QED
            BY <1>6, <3>1
    <2>3. CASE k # 3 /\ k # UrlEnd(m) + 1
        <3>1. f.call \notin {"mark", "url"}
            BY <1>3, <1>4, <2>3 DEF Event
        <3>2. (k - 1) \in 3..UrlEnd(m) <=> k \in 3..UrlEnd(m)
            BY <1>1, <2>3
        <3> QED
            BY <1>6, <3>1, <3>2
    <2> QED
        BY <2>1, <2>2, <2>3
<1>8. k = Len(m.wire) => f.call = "complete"
    BY <1>1, <1>3, <1>4 DEF Event
<1> QED
    BY <1>2, <1>3, <1>4, <1>5, <1>6, <1>7, <1>8 DEF f, g

\* So does one that begins a new read there.
LEMMA EnteredAsMeant ==
    ASSUME Clear, NEW m \in Messages, m.well, NEW k \in 0..Len(m.wire), NEW p,
           Alike(p, Alone(m)[k].p)
    PROVE  /\ Enter(p).p = p /\ Enter(p).run = <<>>
           /\ Enter(p).marked <=> k \in 3..UrlEnd(m)
<1>1. ~Alone(m)[k].p.failed
    BY WellGoesOn
<1>2. p.state = Alone(m)[k].p.state
    BY <1>1 DEF Alike
<1>3. Alone(m)[k].p.state \in UrlStates <=> k \in 3..UrlEnd(m)
    BY WellIs DEF AsMeant
<1> QED
    BY <1>2, <1>3 DEF Enter

-----------------------------------------------------------------------------
(* The well-behaved user                                                    *)

\* Where the next symbol brings the message alone.
LEMMA NextAt ==
    ASSUME PlaceOK, Left, message' = message, sent' = sent + 1, NEW k, k = sent + 1
    PROVE  /\ k \in 1..Len(message.wire) /\ k - 1 = sent
           /\ Len(message.wire) \in Nat /\ message \in Messages
           /\ At = Alone(message)[k - 1] /\ At' = Alone(message)[k]
           /\ At' = Feed(At, message.wire[k]).e
           /\ Heard(message, k) = Feed(At, message.wire[k]).call
           /\ InUrl <=> k - 1 \in 3..UrlEnd(message)
           /\ InUrl' <=> k \in 3..UrlEnd(message)
           /\ UrlSoFar = UrlUpTo(message, k - 1) /\ UrlSoFar' = UrlUpTo(message, k)
           /\ Left' <=> k # Len(message.wire)
<1>1. message \in Messages /\ sent \in 0..Len(message.wire) /\ sent < Len(message.wire)
    BY DEF PlaceOK, Left
<1>2. Len(message.wire) \in Nat
    BY <1>1, MessagesAssumption
<1>3. k \in 1..Len(message.wire) /\ k - 1 = sent
    BY <1>1, <1>2
<1>4. Alone(message)[k] = Feed(Alone(message)[k - 1], message.wire[k]).e
    BY <1>2, <1>3, AloneIs
<1>5. /\ At = Alone(message)[k - 1] /\ (InUrl <=> k - 1 \in 3..UrlEnd(message))
      /\ UrlSoFar = UrlUpTo(message, k - 1)
    BY <1>3 DEF At, InUrl, UrlSoFar
<1>6. /\ At' = Alone(message)[k] /\ (InUrl' <=> k \in 3..UrlEnd(message))
      /\ UrlSoFar' = UrlUpTo(message, k)
    BY DEF At, InUrl, UrlSoFar
<1>7. Left' <=> k # Len(message.wire)
    BY <1>1, <1>2 DEF Left
<1>8. Heard(message, k) = Feed(At, message.wire[k]).call
    BY <1>5 DEF Heard
<1> QED
    BY <1>1, <1>2, <1>3, <1>4, <1>5, <1>6, <1>7, <1>8

\* What is appended to the second part is appended to the whole.
LEMMA Joined ==
    ASSUME NEW S, NEW a \in Seq(S), NEW b \in Seq(S), NEW s \in S
    PROVE  /\ a \o b \in Seq(S) /\ Append(b, s) \in Seq(S) /\ <<>> \in Seq(S)
           /\ a \o <<>> = a /\ a \o Append(b, s) = Append(a \o b, s)
<1>1. a \o b \in Seq(S) /\ Append(b, s) \in Seq(S) /\ <<>> \in Seq(S) /\ <<s>> \in Seq(S)
    BY ConcatProperties, AppendProperties
<1>2. a \o <<>> = a
    BY ConcatEmptySeq
<1>3. (a \o b) \o <<s>> = a \o (b \o <<s>>)
    BY <1>1, ConcatAssociative
<1>4. Append(b, s) = b \o <<s>> /\ Append(a \o b, s) = (a \o b) \o <<s>>
    BY <1>1, AppendIsConcat
<1> QED
    BY <1>1, <1>2, <1>3, <1>4

\* The message alone has a sound parser at every symbol.
LEMMA AtGood == PlaceOK /\ Good(At.p) /\ [Next]_vars => Good(At.p)'
<1> SUFFICES ASSUME PlaceOK, Good(At.p), [Next]_vars PROVE Good(At'.p)
    OBVIOUS
<1>1. CASE NextByte
    <2>1. At' = Feed(At, message.wire[sent + 1]).e
        BY <1>1, NextAt, Zenon DEF NextByte
    <2> QED
        BY <2>1, FeedIsGood DEF GoodReader
<1>2. CASE NextMessage
    <2>1. message' \in Messages /\ sent' = 0
        BY <1>2 DEF NextMessage
    <2>2. Len(message'.wire) \in Nat
        BY <2>1, MessagesAssumption
    <2>3. At' = Enter(Fresh)
        BY <2>1, <2>2, AloneIs DEF At
    <2> QED
        BY <2>3, FreshIsGood, EnterIsGood DEF GoodReader
<1>3. CASE EndOfRead \/ UNCHANGED vars
    BY <1>3 DEF EndOfRead, vars, At
<1> QED
    BY <1>1, <1>2, <1>3 DEF Next

\* Every symbol keeps the well-behaved user where the message alone would be.
LEMMA LibNextByte ==
    ASSUME Clear, PlaceOK, BothGood, Good(At.p), LibAsAlone, NextByte
    PROVE  LibAsAlone'
<1> SUFFICES ASSUME message.well, ~ended, "lib" \notin long, ~TooMany(lib.in) PROVE LibAsAlone'
    BY DEF LibAsAlone, NextByte, Long
<1> PICK k : k = sent + 1
    OBVIOUS
<1> DEFINE s == message.wire[k]
           f == Feed(lib.in, s)
           upto == UrlUpTo(message, k - 1)
<1>1. Left /\ message' = message /\ sent' = sent + 1 /\ ended' = ended /\ lib' = LibHears(f)
    BY DEF NextByte
<1>2. /\ k \in 1..Len(message.wire) /\ k - 1 = sent /\ message \in Messages
      /\ At = Alone(message)[k - 1] /\ At' = Alone(message)[k]
      /\ InUrl <=> k - 1 \in 3..UrlEnd(message)
      /\ InUrl' <=> k \in 3..UrlEnd(message)
      /\ UrlSoFar = upto /\ UrlSoFar' = UrlUpTo(message, k)
      /\ Left' <=> k # Len(message.wire)
    BY <1>1, NextAt
<1>3. /\ Alike(lib.in.p, At.p) /\ (lib.in.marked <=> InUrl)
      /\ lib.url \in Seq(Symbols) /\ lib.in.run \in Seq(Symbols)
      /\ (~InUrl => lib.in.run = <<>>) /\ lib.url \o lib.in.run = upto /\ lib.done = 0
    BY <1>1, <1>2 DEF LibAsAlone
<1>4. Good(lib.in.p)
    BY DEF BothGood, GoodReader
<1>5. /\ s \in Symbols /\ UrlEnd(message) \in Nat /\ UrlEnd(message) >= 3
      /\ UrlEnd(message) + 1 < Len(message.wire) /\ Len(message.wire) \in Nat
    BY <1>2, WellIs
<1> HIDE DEF s, upto
<1>6. /\ f.call = Event(message, k) /\ Alike(f.e.p, At'.p)
      /\ f.e.marked <=> k \in 3..UrlEnd(message)
      /\ f.e.run = IF k \in 3..UrlEnd(message) THEN Append(lib.in.run, s) ELSE <<>>
      /\ k = Len(message.wire) \/ lib.in.p.upgrade = At.p.upgrade => f.e.p.upgrade = At'.p.upgrade
    <2>1. /\ Good(Alone(message)[k - 1].p) /\ Alike(lib.in.p, Alone(message)[k - 1].p)
          /\ lib.in.marked <=> (k - 1) \in 3..UrlEnd(message)
        BY <1>2, <1>3
    <2> QED
        BY <1>2, <1>4, <2>1, HeardAsMeant DEF s
<1>7. /\ upto \in Seq(Symbols)
      /\ UrlUpTo(message, k) = IF k \in 3..UrlEnd(message) THEN Append(upto, s) ELSE upto
    BY <1>2, UrlGrows DEF s, upto
<1> HIDE DEF f
<1>8. /\ lib'.in = f.e
      /\ lib'.url = (IF f.call = "url" THEN lib.url \o lib.in.run ELSE lib.url)
      /\ lib'.done = (IF f.call = "complete" THEN 1 ELSE 0)
    BY <1>1, <1>3 DEF LibHears
<1>9. lib'.url \in Seq(Symbols) /\ lib'.in.run \in Seq(Symbols)
    <2>1. lib.url \o lib.in.run \in Seq(Symbols) /\ Append(lib.in.run, s) \in Seq(Symbols)
          /\ <<>> \in Seq(Symbols)
        BY <1>3, <1>5, Joined
    <2> QED
        BY <1>3, <1>6, <1>8, <2>1
<1>10. lib'.url \o lib'.in.run = UrlUpTo(message, k)
    <2>1. CASE k \in 3..UrlEnd(message)
        <3>1. f.call # "url"
            BY <1>5, <1>6, <2>1 DEF Event
        <3>2. lib.url \o Append(lib.in.run, s) = Append(lib.url \o lib.in.run, s)
            <4>1. lib.url \in Seq(Symbols) /\ lib.in.run \in Seq(Symbols) /\ s \in Symbols
                BY <1>3, <1>5
            <4>2. \A a, b \in Seq(Symbols), x \in Symbols : a \o Append(b, x) = Append(a \o b, x)
                BY Joined
            <4> QED
                BY <4>1, <4>2
        <3> QED
            BY <1>3, <1>6, <1>7, <1>8, <2>1, <3>1, <3>2
    <2>2. CASE k = UrlEnd(message) + 1
        <3>1. f.call = "url" /\ k \notin 3..UrlEnd(message)
            BY <1>5, <1>6, <2>2 DEF Event
        <3>2. upto \o <<>> = upto
            BY <1>7, ConcatEmptySeq
        <3> QED
            BY <1>3, <1>6, <1>7, <1>8, <3>1, <3>2
    <2>3. CASE k \notin 3..UrlEnd(message) /\ k # UrlEnd(message) + 1
        <3>1. f.call # "url"
            BY <1>6, <2>3 DEF Event
        <3>2. ~InUrl
            BY <1>2, <1>4, <1>5, <2>3
        <3> QED
            BY <1>3, <1>6, <1>7, <1>8, <2>3, <3>1, <3>2
    <2> QED
        BY <2>1, <2>2, <2>3
<1>11. lib'.done = (IF Left' THEN 0 ELSE 1)
    <2>1. f.call = "complete" <=> k = Len(message.wire)
        BY <1>5, <1>6 DEF Event
    <2> QED
        BY <1>2, <1>8, <2>1
<1>12. ~InUrl' => lib'.in.run = <<>>
    BY <1>2, <1>6, <1>8
<1>13. ~Left' => lib'.in.p.upgrade = At'.p.upgrade
    BY <1>2, <1>6, <1>8
<1> QED
    BY <1>2, <1>6, <1>8, <1>9, <1>10, <1>11, <1>12, <1>13 DEF LibAsAlone

\* Wherever a read ends, it stays there: the pieces of a url are put together.
LEMMA LibEndOfRead ==
    ASSUME Clear, PlaceOK, BothGood, LibAsAlone, EndOfRead
    PROVE  LibAsAlone'
<1> SUFFICES ASSUME message.well, ~ended, "lib" \notin long, ~EndsLong(lib.in) PROVE LibAsAlone'
    BY DEF LibAsAlone, EndOfRead, Long
<1> DEFINE p == AtEnd(lib.in)
<1>1. /\ message' = message /\ sent' = sent /\ ended' = ended
      /\ lib' = [lib EXCEPT !.in = Enter(p), !.url = @ \o lib.in.run]
    BY DEF EndOfRead
<1>2. /\ Alike(lib.in.p, At.p) /\ (lib.in.marked <=> InUrl)
      /\ lib.url \in Seq(Symbols) /\ lib.in.run \in Seq(Symbols)
      /\ lib.url \o lib.in.run = UrlSoFar /\ lib.done = (IF Left THEN 0 ELSE 1)
      /\ (~Left => lib.in.p.upgrade = At.p.upgrade)
    BY DEF LibAsAlone
<1>7. Alike(p, At.p) /\ p.upgrade = lib.in.p.upgrade
    <2>1. ~At.p.failed
        BY WellGoesOn DEF PlaceOK, At
    <2>2. ~lib.in.p.failed
        BY <1>2, <2>1 DEF Alike
    <2> QED
        BY <1>2, <2>2, EndMatches DEF EndsLong, BothGood
<1> HIDE DEF p
<1>3. /\ Enter(p).p = p /\ Enter(p).run = <<>>
      /\ Enter(p).marked <=> InUrl
    BY <1>7, EnteredAsMeant DEF PlaceOK, At, InUrl
<1>4. /\ lib'.in = Enter(p) /\ lib'.url = UrlSoFar /\ lib'.done = lib.done
    BY <1>1, <1>2 DEF BothGood
<1>5. UrlSoFar \in Seq(Symbols) /\ UrlSoFar \o <<>> = UrlSoFar /\ <<>> \in Seq(Symbols)
    <2>1. lib.url \o lib.in.run \in Seq(Symbols)
        BY <1>2, ConcatProperties, Zenon
    <2> QED
        BY <1>2, <2>1, ConcatEmptySeq
<1>6. (Left' <=> Left) /\ (InUrl' <=> InUrl) /\ At' = At /\ UrlSoFar' = UrlSoFar
    BY <1>1 DEF Left, InUrl, At, UrlSoFar
<1> QED
    BY <1>1, <1>2, <1>3, <1>4, <1>5, <1>6, <1>7 DEF LibAsAlone

-----------------------------------------------------------------------------
(* efserv                                                                   *)

\* A new parser takes no symbol that no request begins with, and none takes
\* anything but the ends of lines after the last request.
LEMMA NothingTaken ==
    ASSUME NEW e, NEW s
    PROVE  /\ e.p = Fresh /\ s \notin Eol \cup Methods => Feed(e, s).call = "error"
           /\ e.p \in Parsers /\ ~e.p.failed /\ e.p.state = "dead" /\ s \notin Eol =>
                  Feed(e, s).call = "error"
<1>1. ASSUME NEW p \in Parsers PROVE Fail(p).p.failed /\ ~Fail(p).again
    BY DEF Fail, Outcome, Parsers
<1>2. ASSUME NEW p \in Parsers, ~p.failed, p.state = "dead", s \notin Eol
      PROVE  Byte(p, s).p.failed
    <2>3. CASE Overflows(p)
        BY <1>1, <2>3 DEF Byte
    <2> SUFFICES ASSUME ~Overflows(p) PROVE Byte(p, s).p.failed
        BY <2>3
    <2> DEFINE c == Count(p)
    <2>1. /\ c \in Parsers /\ c.state = "dead"
        BY <1>2, Free, FreeStatesAre, CountIsSound DEF Sound
    <2>2. Case(c, s) = Fail(c)
        <3> HIDE DEF c
        <3>1. Case(c, s) = Dead(c, s)
            BY <2>1 DEF Case
        <3> QED
            BY <1>2, <3>1 DEF Dead, Expect
    <2> QED
        BY <1>1, <1>2, <2>1, <2>2 DEF Byte, Look
<1>3. ASSUME s \notin Eol \cup Methods PROVE Byte(Fresh, s).p.failed
    <2>1. Fresh \in Parsers /\ ~Fresh.failed /\ Fresh.state = "start_req"
        BY FreshIsGood DEF Good, Sound, Fresh
    <2>5. CASE Overflows(Fresh)
        BY <1>1, <2>1, <2>5 DEF Byte
    <2> SUFFICES ASSUME ~Overflows(Fresh) PROVE Byte(Fresh, s).p.failed
        BY <2>5
    <2> DEFINE c == Count(Fresh)
               b == [c EXCEPT !.flags = {}, !.length = MaxUint]
    <2>2. c \in Parsers /\ c.state = "start_req"
        BY <2>1, FreshIsGood, CountIsSound DEF Good, Sound
    <2>3. b \in Parsers
        <3> HIDE DEF c
        <3>1. MaxUint \in 0..MaxUint /\ {} \in SUBSET Flags
            BY MaxUintAssumption
        <3> QED
            BY <2>2, <3>1 DEF Parsers
    <2>4. Case(c, s) = Fail(b)
        <3> HIDE DEF c
        <3>1. Case(c, s) = StartReq(c, s)
            BY <2>2 DEF Case
        <3> QED
            BY <1>3, <3>1 DEF StartReq
    <2> HIDE DEF b
    <2> QED
        BY <1>1, <2>1, <2>3, <2>4 DEF Byte, Look
<1> QED
    BY <1>2, <1>3 DEF Feed

\* What is assumed of a message that has begun well.
LEMMA Begun ==
    ASSUME Clear, PlaceOK
    PROVE  /\ Begins(message) /\ Len(message.wire) \in Nat /\ Len(message.wire) >= 1
           /\ message.wire[1] \notin Eol /\ Len(message.target) \in Nat \ {0}
           /\ message.well \in BOOLEAN
           /\ ~message.well => Refused(message)
           /\ Heard(message, 1) # "error" =>
                  /\ Len(message.wire) >= 3 /\ Heard(message, 3) = "mark"
                  /\ \A k \in {2, 3} : message.wire[k] \notin Eol \cup Methods
<1>1. message \in Messages
    BY DEF PlaceOK
<1>2. message.wire \in Seq(Symbols)
    BY <1>1, MessagesAssumption
<1>3. Begins(message) /\ message.well \in BOOLEAN /\ (~message.well => Refused(message))
    BY <1>1 DEF Clear
<1>4. Len(message.wire) \in Nat /\ Len(message.wire) >= 1
    BY <1>2, <1>3, EmptySeq DEF Begins
<1> QED
    BY <1>3, <1>4 DEF Begins

\* A message alone is not refused for its size.
LEMMA AtNotTooMany == ASSUME Clear, PlaceOK, Good(At.p), Left PROVE ~TooMany(At)
<1> PICK k : k = sent + 1
    OBVIOUS
<1>1. /\ k \in 1..Len(message.wire) /\ k - 1 = sent /\ message \in Messages
    BY Begun DEF PlaceOK, Left
<1>2. At = Alone(message)[k - 1]
    BY <1>1 DEF At
<1>3. CASE message.well
    <2>1. Heard(message, k) # "error"
        BY <1>1, <1>3, WellIs DEF AsMeant, Event
    <2> QED
        BY <1>2, <2>1, TooManyIsHeard DEF Heard
<1>4. CASE ~message.well
    BY <1>1, <1>2, <1>4, Begun DEF Refused
<1> QED
    BY <1>3, <1>4, Begun

\* on_url stores the parser, unless the worker dies.
LEMMA OnUrlKeeps ==
    ASSUME NEW url, OnUrl(url)
    PROVE  /\ status' = "open" => kept' = TRUE
           /\ status = "open" => status' \in {"open", "dead"}
BY DEF OnUrl

\* What one symbol does to efserv.
LEMMA ServHears ==
    ASSUME NextByte, status = "open"
    PROVE  LET f == Feed(serv, message.wire[sent + 1])
           IN  /\ serv' = f.e
               /\ status' = "open" => f.call # "error"
               /\ f.call # "complete" => served' = served
               /\ f.call \notin {"url"} => kept' = kept
               /\ f.call = "url" /\ status' = "open" => kept' = TRUE
               /\ f.call = "complete" /\ status' = "open" => ~f.e.p.upgrade
<1> DEFINE f == Feed(serv, message.wire[sent + 1])
<1>1. /\ serv' = f.e
      /\ \/ f.call \in {"none", "mark"} /\ UNCHANGED <<kept, client, served, status>>
         \/ f.call = "url" /\ OnUrl(serv.run) /\ UNCHANGED served
         \/ f.call = "complete" /\ OnMessageComplete(f.e.p.upgrade) /\ UNCHANGED <<kept, client>>
         \/ f.call = "error" /\ status' = "closed" /\ UNCHANGED <<kept, client, served>>
    BY DEF NextByte
<1> HIDE DEF f
<1>2. CASE f.call = "url"
    BY <1>1, <1>2, OnUrlKeeps DEF f
<1>3. CASE f.call = "complete"
    BY <1>1, <1>3 DEF OnMessageComplete, f
<1>4. CASE f.call \notin {"url", "complete"}
    BY <1>1, <1>4 DEF f
<1> QED
    BY <1>2, <1>3, <1>4

\* A symbol that efserv takes leaves it where the message alone would be.
LEMMA KeepsUpNextByte ==
    ASSUME Clear, PlaceOK, BothGood, Good(At.p), NextByte, status = "open", ~serv.p.failed,
           sent >= 1 => Heard(message, 1) # "error", KeepsUp, status' = "open"
    PROVE  KeepsUp' /\ ~serv'.p.failed /\ Heard(message, 1) # "error"
<1> PICK k : k = sent + 1
    OBVIOUS
<1> DEFINE f == Feed(serv, message.wire[k])
<1>1. Left /\ message' = message /\ sent' = k /\ before' = before
    BY DEF NextByte
<1>2. /\ k \in 1..Len(message.wire) /\ k - 1 = sent /\ message \in Messages
      /\ Len(message.wire) \in Nat
      /\ At = Alone(message)[k - 1] /\ At' = Alone(message)[k]
      /\ At' = Feed(At, message.wire[k]).e
      /\ Heard(message, k) = Feed(At, message.wire[k]).call
      /\ InUrl <=> k - 1 \in 3..UrlEnd(message)
      /\ InUrl' <=> k \in 3..UrlEnd(message)
      /\ Left' <=> k # Len(message.wire)
    BY <1>1, NextAt
<1>3. /\ serv' = f.e /\ f.call # "error"
      /\ f.call # "url" => kept' = kept
      /\ f.call = "url" => kept' = TRUE
      /\ f.call = "complete" => ~f.e.p.upgrade
    BY ServHears
<1>4. /\ f.call = Heard(message, k) /\ Alike(f.e.p, At'.p) /\ ~f.e.p.failed
      /\ f.e.p.upgrade = At'.p.upgrade
    <2>1. Good(serv.p) /\ Alike(serv.p, At.p) /\ serv.p.upgrade = At.p.upgrade
        BY DEF BothGood, GoodReader, KeepsUp
    <2>2. ~TooMany(At) /\ ~TooMany(serv)
        BY <1>1, <1>3, <2>1, AtNotTooMany, TooManyIsHeard
    <2> QED
        BY <1>2, <1>3, <2>1, <2>2, FeedMatches
<1>5. f.e.marked = ((serv.marked \/ f.call = "mark") /\ f.call # "url")
    BY <1>4 DEF Feed
<1> HIDE DEF f
<1>6. Heard(message, 1) # "error"
    BY <1>2, <1>3, <1>4
<1>7. kept' \/ serv'.marked \/ (before' = 0 /\ sent' < 3)
    <2>1. k = 3 => f.call = "mark"
        BY <1>4, <1>6, Begun
    <2>2. kept \/ serv.marked \/ (before = 0 /\ sent < 3)
        BY DEF KeepsUp
    <2>3. CASE f.call = "url"
        BY <1>3, <2>3
    <2>4. CASE f.call = "mark"
        <3>1. serv'.marked
            BY <1>3, <1>5, <2>4
        <3> QED
            BY <3>1
    <2>5. CASE f.call \notin {"url", "mark"}
        <3>1. kept' = kept /\ (serv.marked => serv'.marked)
            BY <1>3, <1>5, <2>5
        <3>2. sent < 3 => sent' < 3
            BY <1>1, <1>2, <2>1, <2>5
        <3> QED
            BY <1>1, <2>2, <3>1, <3>2
    <2> QED
        BY <2>3, <2>4, <2>5
<1>8. message.well => (serv'.marked <=> InUrl')
    <2> SUFFICES ASSUME message.well PROVE serv'.marked <=> InUrl'
        OBVIOUS
    <2>1. Good(serv.p) /\ Alike(serv.p, At.p) /\ (serv.marked <=> InUrl)
        BY DEF BothGood, GoodReader, KeepsUp
    <2>3. ~TooMany(serv)
        BY <1>3, <2>1, TooManyIsHeard DEF f
    <2>2. f.e.marked <=> k \in 3..UrlEnd(message)
        BY <1>2, <2>1, <2>3, HeardAsMeant DEF f
    <2> QED
        BY <1>2, <1>3, <2>2
<1>9. ~Left' => ~serv'.p.upgrade
    <2> SUFFICES ASSUME k = Len(message.wire) PROVE ~f.e.p.upgrade
        BY <1>2, <1>3
    <2>1. ~At'.p.failed
        BY <1>4 DEF Alike
    <2>2. message.well
        BY <1>2, <2>1, Begun DEF Refused
    <2>3. Heard(message, k) = "complete"
        BY <1>2, <2>2, WellIs DEF AsMeant, Event
    <2> QED
        BY <1>3, <1>4, <2>3
<1> QED
    BY <1>1, <1>3, <1>4, <1>6, <1>7, <1>8, <1>9 DEF KeepsUp

\* A parser that was lost takes nothing, and so does one that is at its end.
LEMMA NothingHeard ==
    ASSUME Clear, PlaceOK, BothGood, NextByte, ~serv.p.failed,
           sent >= 1 => Heard(message, 1) # "error", (ended /\ AtDead) \/ Lost
    PROVE  Feed(serv, message.wire[sent + 1]).call = "error"
<1>1. CASE ended /\ AtDead
    <2>1. sent + 1 = 1 /\ serv.p.state = "dead" /\ serv.p \in Parsers
        BY <1>1 DEF AtDead, BothGood, GoodReader, Good, Sound
    <2>2. message.wire[sent + 1] \notin Eol
        BY <2>1, Begun
    <2> QED
        BY <2>1, <2>2, NothingTaken
<1>2. CASE Lost
    <2>1. sent + 1 \in {2, 3} /\ sent >= 1 /\ serv.p = Fresh
        BY <1>2 DEF Lost, Enter
    <2>2. message.wire[sent + 1] \notin Eol \cup Methods
        BY <2>1, Begun
    <2> QED
        BY <2>1, <2>2, NothingTaken
<1> QED
    BY <1>1, <1>2

\* So efserv is where the message alone would be, has lost its parser, or has
\* closed the connection.
LEMMA ServNextByte ==
    ASSUME Clear, PlaceOK, BothGood, Good(At.p), ServAsAlone, NextByte
    PROVE  ServAsAlone'
<1> SUFFICES ASSUME status' = "open" PROVE ServAsAlone'
    BY DEF ServAsAlone
<1>1. status = "open"
    BY DEF NextByte
<1>2. /\ ~serv.p.failed /\ (sent >= 1 => Heard(message, 1) # "error")
      /\ IF ended THEN AtDead ELSE KeepsUp \/ Lost
    BY <1>1 DEF ServAsAlone
<1>3. Feed(serv, message.wire[sent + 1]).call # "error"
    BY <1>1, ServHears
<1>4. ~ended /\ KeepsUp
    BY <1>2, <1>3, NothingHeard
<1>5. KeepsUp' /\ ~serv'.p.failed /\ Heard(message, 1) # "error"
    BY <1>1, <1>2, <1>4, KeepsUpNextByte
<1>6. ended' = ended /\ Heard(message, 1)' = Heard(message, 1)
    BY DEF NextByte
<1> QED
    BY <1>4, <1>5, <1>6 DEF ServAsAlone

\* The end of a read keeps what efserv has stored, and loses the rest.
LEMMA ServEndOfRead ==
    ASSUME Clear, PlaceOK, BothGood, ServAsAlone, EndOfRead
    PROVE  ServAsAlone'
<1> SUFFICES ASSUME status' = "open" PROVE ServAsAlone'
    BY DEF ServAsAlone
<1>1. /\ status = "open" /\ message' = message /\ sent' = sent /\ before' = before
      /\ ended' = ended /\ torn' = (torn \/ Tears(sent)) /\ (Flushed \/ NotMarked)
    BY DEF EndOfRead
<1>2. /\ ~serv.p.failed /\ (sent >= 1 => Heard(message, 1) # "error")
      /\ IF ended THEN AtDead ELSE KeepsUp \/ Lost
    BY <1>1 DEF ServAsAlone
<1>3. /\ At' = At /\ (InUrl' <=> InUrl) /\ (Left' <=> Left) /\ message \in Messages
      /\ At = Alone(message)[sent] /\ (InUrl <=> sent \in 3..UrlEnd(message))
      /\ sent \in 0..Len(message.wire) /\ Heard(message, 1)' = Heard(message, 1)
    BY <1>1 DEF At, InUrl, Left, PlaceOK
<1>4. ASSUME NEW p PROVE Enter(p).p = p /\ (Enter(p).marked <=> p.state \in UrlStates)
    BY DEF Enter
<1>5. ~Fresh.failed /\ ~Enter(Fresh).marked /\ Enter(Fresh).p = Fresh /\ ~Fresh.upgrade
    BY <1>4 DEF Fresh, UrlStates
<1>6. ASSUME KeepsUp, ~ended, kept', NEW p, serv' = Enter(p), Alike(p, At.p), ~p.failed,
             p.upgrade = serv.p.upgrade
      PROVE  ServAsAlone'
    <2>1. Alike(serv'.p, At'.p) /\ serv'.p.upgrade = At'.p.upgrade
        BY <1>3, <1>4, <1>6 DEF KeepsUp
    <2>2. message.well => (serv'.marked <=> InUrl)
        BY <1>3, <1>6, EnteredAsMeant DEF KeepsUp
    <2>3. ~Left' => ~serv'.p.upgrade
        BY <1>3, <1>4, <1>6 DEF KeepsUp
    <2>4. KeepsUp'
        BY <1>1, <1>3, <1>6, <2>1, <2>2, <2>3 DEF KeepsUp
    <2> QED
        BY <1>1, <1>2, <1>3, <1>4, <1>6, <2>4 DEF ServAsAlone
<1>7. CASE Flushed
    <2>1. serv.marked /\ kept' = TRUE /\ serv' = Enter(serv.p)
        BY <1>7, OnUrlKeeps DEF Flushed
    <2>2. ~AtDead /\ ~Lost
        BY <1>5, <2>1 DEF AtDead, Lost
    <2>3. KeepsUp /\ ~ended
        BY <1>2, <2>2
    <2>4. Alike(serv.p, At.p)
        BY <2>3 DEF KeepsUp
    <2> QED
        BY <1>2, <1>6, <2>1, <2>3, <2>4
<1>8. CASE NotMarked
    <2> DEFINE p == AtEnd(serv)
    <2>1. /\ ~serv.marked /\ kept' = kept /\ ~p.failed
          /\ serv' = Enter(IF kept THEN p ELSE Fresh)
        BY <1>1, <1>8 DEF NotMarked
    <2>6. ASSUME NEW q, Alike(serv.p, q)
          PROVE  Alike(p, q) /\ p.upgrade = serv.p.upgrade /\ p.state = serv.p.state
        BY <2>1, <2>6, EndMatches DEF BothGood
    <2> HIDE DEF p
    <2>2. CASE ended
        <3>1. AtDead /\ serv' = Enter(p)
            BY <1>2, <2>1, <2>2 DEF AtDead
        <3>3. p.state = serv.p.state
            BY <2>6 DEF Alike
        <3>2. serv'.p.state = "dead" /\ ~serv'.p.failed /\ ~serv'.marked
            BY <1>4, <2>1, <3>1, <3>3 DEF AtDead, UrlStates
        <3> QED
            BY <1>1, <1>2, <1>3, <2>1, <2>2, <3>1, <3>2 DEF ServAsAlone, AtDead
    <2>3. CASE ~ended /\ Lost
        <3>1. serv' = Enter(Fresh)
            <4>1. serv = Enter(Fresh) /\ serv.p = Fresh /\ ~serv.loops
                BY <1>4, <2>3 DEF Lost, Enter
            <4>2. p = Fresh
                BY <4>1 DEF AtEnd, p
            <4> QED
                BY <2>1, <4>2
        <3>2. Lost'
            BY <1>1, <2>3, <3>1 DEF Lost
        <3> QED
            BY <1>1, <1>2, <1>3, <1>5, <2>3, <3>1, <3>2 DEF ServAsAlone
    <2>4. CASE ~ended /\ KeepsUp /\ kept
        <3>1. kept' = kept /\ serv' = Enter(p)
            BY <2>1, <2>4
        <3>2. Alike(p, At.p) /\ p.upgrade = serv.p.upgrade
            BY <2>4, <2>6 DEF KeepsUp
        <3> QED
            BY <1>6, <2>1, <2>4, <3>1, <3>2
    <2>5. CASE ~ended /\ KeepsUp /\ ~kept
        <3>1. serv' = Enter(Fresh) /\ before = 0 /\ sent < 3
            BY <2>1, <2>5 DEF KeepsUp
        <3>2. CASE sent = 0
            <4>1. At = Enter(Fresh)
                BY <1>3, <3>2, Begun, AloneIs
            <4>2. message.well => (serv'.marked <=> InUrl)
                <5>1. Alike(Fresh, Alone(message)[sent].p)
                    BY <1>3, <1>5, <4>1 DEF Alike
                <5> QED
                    BY <1>3, <3>1, <5>1, EnteredAsMeant
            <4>3. KeepsUp'
                BY <1>1, <1>3, <1>5, <3>1, <4>1, <4>2 DEF KeepsUp, Alike
            <4> QED
                BY <1>1, <1>2, <1>3, <1>5, <2>5, <3>1, <4>3 DEF ServAsAlone
        <3>3. CASE sent # 0
            <4>1. sent \in {1, 2}
                BY <1>3, <3>1, <3>3, Begun
            <4>2. Tears(sent)
                <5>1. Len(message.target) \in Nat \ {0}
                    BY Begun
                <5>2. sent >= 1 /\ sent <= 2 + Len(message.target)
                    BY <4>1, <5>1
                <5>3. (IF before = 0 THEN 1 ELSE 3) = 1
                    BY <3>1
                <5> QED
                    BY <5>2, <5>3 DEF Tears
            <4>3. Lost'
                BY <1>1, <3>1, <4>1, <4>2 DEF Lost
            <4> QED
                BY <1>1, <1>2, <1>3, <1>5, <2>5, <3>1, <4>3 DEF ServAsAlone
        <3> QED
            BY <3>2, <3>3
    <2> QED
        BY <1>2, <2>2, <2>3, <2>4, <2>5
<1> QED
    BY <1>1, <1>7, <1>8

-----------------------------------------------------------------------------
(* Between messages                                                         *)

\* On an open connection a message that is over was a request, the last
\* had not been sent, and efserv keeps its parser.
LEMMA MessageOver ==
    ASSUME Clear, PlaceOK, BothGood, ServAsAlone, status = "open", ~Left
    PROVE  /\ ~ended /\ KeepsUp /\ message.well /\ kept /\ ~InUrl /\ ~serv.marked
           /\ ~At.p.failed /\ At.p.state = (IF message.last THEN "dead" ELSE "start_req")
           /\ message.last \in BOOLEAN /\ ~serv.p.upgrade
<1>1. /\ message \in Messages /\ Len(message.wire) \in Nat /\ Len(message.wire) >= 1
      /\ sent = Len(message.wire)
    BY Begun DEF PlaceOK, Left
<1>2. /\ ~serv.p.failed /\ Heard(message, 1) # "error" /\ Len(message.wire) >= 3
      /\ IF ended THEN AtDead ELSE KeepsUp \/ Lost
    BY <1>1, Begun DEF ServAsAlone
<1>3. ~ended /\ KeepsUp
    <2>1. \A n \in Nat : n >= 3 => n # 0 /\ n # 1 /\ n # 2
        OBVIOUS
    <2>2. ~AtDead /\ ~Lost
        <3>1. sent # 0 /\ sent # 1 /\ sent # 2
            BY <1>1, <1>2, <2>1, Zenon
        <3> QED
            BY <3>1 DEF AtDead, Lost
    <2> QED
        BY <1>2, <2>2
<1>4. ~At.p.failed /\ At = Alone(message)[Len(message.wire)]
    BY <1>1, <1>2, <1>3 DEF KeepsUp, Alike, At
<1>5. message.well
    BY <1>4, Begun DEF Refused
<1>6. /\ AsMeant(message) /\ UrlEnd(message) \in Nat /\ UrlEnd(message) + 1 < Len(message.wire)
    BY <1>1, <1>5, WellIs
<1>7. ~InUrl /\ ~serv.marked
    BY <1>1, <1>3, <1>5, <1>6 DEF InUrl, KeepsUp
<1>8. kept
    BY <1>1, <1>2, <1>3, <1>7 DEF KeepsUp
<1>9. At.p.state = (IF message.last THEN "dead" ELSE "start_req") /\ message.last \in BOOLEAN
    BY <1>4, <1>6 DEF AsMeant
<1> QED
    BY <1>3, <1>4, <1>5, <1>7, <1>8, <1>9 DEF KeepsUp

\* The next message begins where a new connection would.
LEMMA MessageBegins ==
    ASSUME Clear, NextMessage
    PROVE  /\ At' = Enter(Fresh) /\ ~InUrl' /\ Left'
           /\ message'.well => UrlSoFar' = <<>> /\ UrlEnd(message') \in Nat
<1>1. message' \in Messages /\ sent' = 0
    BY DEF NextMessage
<1>2. message'.wire \in Seq(Symbols) /\ message'.wire # <<>>
    BY <1>1, MessagesAssumption DEF Clear, Begins
<1>3. Len(message'.wire) \in Nat /\ Len(message'.wire) >= 1
    BY <1>2, EmptySeq
<1>4. At' = Enter(Fresh)
    BY <1>1, <1>3, AloneIs DEF At
<1>5. ~InUrl' /\ Left'
    BY <1>1, <1>3 DEF InUrl, Left
<1>6. ASSUME message'.well PROVE UrlSoFar' = <<>> /\ UrlEnd(message') \in Nat
    <2>1. UrlEnd(message') \in Nat
        BY <1>1, <1>6, WellIs
    <2>2. SubSeq(message'.wire, 3, 0) = <<>>
        BY SubSeqEmpty
    <2> QED
        BY <1>1, <2>1, <2>2 DEF UrlSoFar, UrlUpTo
<1> QED
    BY <1>4, <1>5, <1>6

\* A parser ready for a request is alike to a new one.
LEMMA ReadyIsFresh ==
    ASSUME NEW p \in Parsers, ~p.failed, p.state = "start_req" PROVE Alike(p, Fresh)
<1>1. p.failed = FALSE /\ Fresh.failed = FALSE /\ Fresh.state = "start_req"
    BY DEF Parsers, Fresh
<1> QED
    BY <1>1 DEF Alike, Idle, Unversioned, NamedStates, UrlStates

\* So the well-behaved user is at the beginning of the next request, unless
\* the last one was not to keep the connection alive;
LEMMA LibNextMessage ==
    ASSUME Clear, PlaceOK, BothGood, LibAsAlone, ServAsAlone, NextMessage
    PROVE  LibAsAlone'
<1> SUFFICES ASSUME message'.well, ~ended', "lib" \notin long PROVE LibAsAlone'
    BY DEF LibAsAlone, NextMessage
<1>1. /\ ~Left /\ status = "open" /\ ended' = (ended \/ message.last)
      /\ lib' = [lib EXCEPT !.url = <<>>, !.done = 0]
    BY DEF NextMessage
<1>2. /\ ~ended /\ message.well /\ ~InUrl /\ ~At.p.failed
      /\ At.p.state = (IF message.last THEN "dead" ELSE "start_req")
    BY <1>1, MessageOver
<1>3. /\ Alike(lib.in.p, At.p) /\ ~lib.in.marked /\ lib.in.run = <<>>
    BY <1>2 DEF LibAsAlone
<1>4. Alike(lib.in.p, Fresh)
    <2>1. lib.in.p \in Parsers
        BY DEF BothGood, GoodReader, Good, Sound
    <2> QED
        BY <1>1, <1>2, <1>3, <2>1, ReadyIsFresh DEF Alike
<1>5. /\ lib'.in = lib.in /\ lib'.url = <<>> /\ lib'.done = 0
    BY <1>1 DEF BothGood
<1>6. At'.p = Fresh /\ ~InUrl' /\ Left' /\ UrlSoFar' = <<>>
    BY MessageBegins DEF Enter
<1>7. <<>> \in Seq(Symbols) /\ <<>> \o <<>> = <<>>
    BY EmptySeq, ConcatEmptySeq
<1> QED
    BY <1>3, <1>4, <1>5, <1>6, <1>7 DEF LibAsAlone

\* so is efserv.
LEMMA ServNextMessage ==
    ASSUME Clear, PlaceOK, BothGood, ServAsAlone, NextMessage
    PROVE  ServAsAlone'
<1>1. /\ ~Left /\ status = "open" /\ status' = "open" /\ ended' = (ended \/ message.last)
      /\ serv' = serv /\ kept' = kept /\ sent' = 0
    BY DEF NextMessage
<1>2. /\ ~ended /\ KeepsUp /\ kept /\ ~serv.marked /\ ~At.p.failed /\ ~serv.p.upgrade
      /\ At.p.state = (IF message.last THEN "dead" ELSE "start_req")
      /\ message.last \in BOOLEAN
    BY <1>1, MessageOver
<1>3. ~serv.p.failed /\ serv.p.state = At.p.state
    BY <1>2 DEF KeepsUp, Alike
<1>4. At'.p = Fresh /\ ~InUrl' /\ Left'
    BY MessageBegins DEF Enter
<1>5. CASE message.last
    <2>1. ended' /\ AtDead'
        BY <1>1, <1>2, <1>3, <1>5 DEF AtDead
    <2> QED
        BY <1>1, <1>3, <2>1 DEF ServAsAlone
<1>6. CASE ~message.last
    <2>1. Alike(serv.p, Fresh)
        BY <1>2, <1>3, <1>6, ReadyIsFresh DEF BothGood, GoodReader, Good, Sound
    <2>2. serv.p.upgrade = Fresh.upgrade
        BY <1>2 DEF BothGood, GoodReader, Good, Sound, Parsers, Fresh
    <2>3. KeepsUp'
        BY <1>1, <1>2, <1>4, <2>1, <2>2 DEF KeepsUp
    <2> QED
        BY <1>1, <1>2, <1>3, <1>6, <2>3 DEF ServAsAlone
<1> QED
    BY <1>5, <1>6

-----------------------------------------------------------------------------
(* What efserv handles                                                      *)

\* A symbol of a request on an open connection no read has torn: the url is
\* taken as a whole, and the request handled at the last symbol.
LEMMA RequestNextByte ==
    ASSUME Clear, PlaceOK, BothGood, Good(At.p), NextByte, status = "open", message.well, ~ended,
           KeepsUp, ClientAsSent, served = <<>>, ~TooMany(serv), ~BadEscape(message.target)
    PROVE  IF status' = "open" THEN ClientAsSent' /\ served' = Due'
           ELSE message.upgrade /\ status' = "closed" /\ served' = Due'
<1> PICK k : k = sent + 1
    OBVIOUS
<1> DEFINE f == Feed(serv, message.wire[k])
<1>1. /\ Left /\ message' = message /\ sent' = k /\ ended' = ended /\ serv' = f.e
      /\ \/ f.call \in {"none", "mark"} /\ UNCHANGED <<kept, client, served, status>>
         \/ f.call = "url" /\ OnUrl(serv.run) /\ UNCHANGED served
         \/ f.call = "complete" /\ OnMessageComplete(f.e.p.upgrade) /\ UNCHANGED <<kept, client>>
         \/ f.call = "error" /\ status' = "closed" /\ UNCHANGED <<kept, client, served>>
    BY DEF NextByte
<1>2. /\ k \in 1..Len(message.wire) /\ k - 1 = sent /\ message \in Messages
      /\ At = Alone(message)[k - 1] /\ At' = Alone(message)[k]
      /\ InUrl <=> k - 1 \in 3..UrlEnd(message)
      /\ InUrl' <=> k \in 3..UrlEnd(message)
      /\ UrlSoFar = UrlUpTo(message, k - 1) /\ UrlSoFar' = UrlUpTo(message, k)
      /\ Left' <=> k # Len(message.wire)
    BY <1>1, NextAt
<1>3. /\ AsMeant(message) /\ UrlEnd(message) \in Nat /\ UrlEnd(message) >= 3
      /\ UrlEnd(message) + 1 < Len(message.wire) /\ Len(message.wire) \in Nat
    BY <1>2, WellIs
<1>4. /\ f.call = Event(message, k)
      /\ f.e.run = IF k \in 3..UrlEnd(message) THEN Append(serv.run, message.wire[k]) ELSE <<>>
      /\ f.e.p.upgrade = At'.p.upgrade
    <2>1. /\ Good(serv.p) /\ Alike(serv.p, At.p) /\ (serv.marked <=> InUrl)
          /\ serv.p.upgrade = At.p.upgrade
        BY DEF BothGood, GoodReader, KeepsUp
    <2> QED
        BY <1>2, <2>1, HeardAsMeant
<1> HIDE DEF f
<1>5. InUrl' => serv'.run = UrlSoFar'
    <2> SUFFICES ASSUME k \in 3..UrlEnd(message) PROVE f.e.run = UrlUpTo(message, k)
        BY <1>1, <1>2
    <2>1. UrlUpTo(message, k) = Append(UrlUpTo(message, k - 1), message.wire[k])
          /\ (k <= 3 => UrlUpTo(message, k - 1) = <<>>)
        BY <1>2, UrlGrows
    <2>2. serv.run = UrlUpTo(message, k - 1)
        <3>1. CASE InUrl
            BY <1>2, <3>1 DEF ClientAsSent
        <3>2. CASE ~InUrl
            BY <1>2, <1>3, <2>1, <3>2 DEF ClientAsSent
        <3> QED
            BY <3>1, <3>2
    <2> QED
        BY <1>4, <2>1, <2>2
<1>6. ~InUrl' => serv'.run = <<>>
    BY <1>1, <1>2, <1>4
<1>7. Due' = IF Left' THEN <<>> ELSE <<message.means>>
    BY <1>1 DEF Due
<1>8. k = UrlEnd(message) + 1 => Left'
    BY <1>2, <1>3
<1>9. CASE f.call \in {"none", "mark"}
    <2>1. status' = "open" /\ client' = client /\ served' = <<>> /\ Left'
        BY <1>1, <1>2, <1>4, <1>3, <1>9 DEF Event
    <2>2. k # UrlEnd(message) + 1
        BY <1>3, <1>4, <1>9 DEF Event
    <2>3. k > UrlEnd(message) => sent > UrlEnd(message)
        BY <1>2, <1>3, <2>2
    <2>4. ClientAsSent'
        BY <1>1, <1>5, <1>6, <2>1, <2>3 DEF ClientAsSent
    <2> QED
        BY <1>7, <2>1, <2>4
<1>10. CASE f.call = "url"
    <2>1. k = UrlEnd(message) + 1
        BY <1>3, <1>4, <1>10 DEF Event
    <2>2. InUrl /\ UrlUpTo(message, k - 1) = message.target
        BY <1>2, <1>3, <2>1 DEF UrlUpTo, AsMeant
    <2>3. serv.run = message.target
        BY <1>2, <2>2 DEF ClientAsSent
    <2>4. OnUrl(message.target) /\ served' = <<>>
        BY <1>1, <1>10, <2>3
    <2>5. status' = "open" /\ client' = message.means
        BY <1>1, <1>3, <2>4 DEF OnUrl, AsMeant, Decoded
    <2>6. ClientAsSent'
        BY <1>1, <1>5, <1>6, <2>5 DEF ClientAsSent
    <2> QED
        BY <1>7, <1>8, <2>1, <2>4, <2>5, <2>6
<1>11. CASE f.call = "complete"
    <2>1. k = Len(message.wire) /\ sent > UrlEnd(message)
        <3>1. k = Len(message.wire)
            BY <1>4, <1>11 DEF Event
        <3>2. \A end, len, n \in Int : end + 1 < len /\ len - 1 = n => n > end
            OBVIOUS
        <3>3. k \in Int /\ sent \in Int /\ UrlEnd(message) \in Int
            BY <1>2, <1>3
        <3> QED
            BY <1>2, <1>3, <3>1, <3>2, <3>3, Zenon
    <2>2. client = message.means
        BY <2>1 DEF ClientAsSent
    <2>3. /\ served' = Append(served, client) /\ client' = client
          /\ status' = IF f.e.p.upgrade THEN "closed" ELSE status
        BY <1>1, <1>11 DEF OnMessageComplete
    <2>4. served' = Due'
        <3>1. Append(<<>>, client) = <<client>>
            OBVIOUS
        <3>2. ~Left'
            BY <1>2, <2>1
        <3> QED
            BY <1>7, <2>2, <2>3, <3>1, <3>2
    <2>5. f.e.p.upgrade => message.upgrade
        <3>1. k \in 0..Len(message.wire)
            BY <1>2, <1>3
        <3>2. Alone(message)[k].p.upgrade => message.upgrade
            BY <1>3, <3>1, Zenon DEF AsMeant
        <3> QED
            BY <1>2, <1>4, <3>2
    <2>6. ClientAsSent'
        BY <1>1, <1>5, <1>6, <2>2, <2>3 DEF ClientAsSent
    <2> QED
        BY <2>3, <2>4, <2>5, <2>6
<1>12. f.call # "error"
    BY <1>4 DEF Event
<1> QED
    BY <1>1, <1>9, <1>10, <1>11, <1>12

\* What no request is made of is not handled, nor is what follows the last.
LEMMA NothingServed ==
    ASSUME Clear, PlaceOK, BothGood, Good(At.p), ServAsAlone, NextByte,
           ended \/ ~message.well
    PROVE  served' = served
<1>1. CASE status # "open"
    BY <1>1 DEF NextByte
<1>2. CASE status = "open"
    <2> DEFINE f == Feed(serv, message.wire[sent + 1])
    <2>1. /\ ~serv.p.failed /\ (sent >= 1 => Heard(message, 1) # "error")
          /\ IF ended THEN AtDead ELSE KeepsUp \/ Lost
        BY <1>2 DEF ServAsAlone
    <2>2. CASE ended \/ Lost
        <3>1. f.call = "error"
            BY <2>1, <2>2, NothingHeard
        <3> QED
            BY <1>2, <3>1, ServHears
    <2>3. CASE ~ended /\ KeepsUp
        <3>1. PICK k : k = sent + 1
            OBVIOUS
        <3>2. Left /\ message' = message /\ sent' = sent + 1
            BY DEF NextByte
        <3>3. /\ k \in 1..Len(message.wire)
              /\ Heard(message, k) = Feed(At, message.wire[k]).call
            BY <3>1, <3>2, NextAt
        <3>4. Heard(message, k) # "complete"
            BY <2>3, <3>3, Begun DEF Refused
        <3>5. f.call = Heard(message, k) \/ f.call = "error"
            <4>1. Good(serv.p) /\ Alike(serv.p, At.p)
                BY <2>3 DEF BothGood, GoodReader, KeepsUp
            <4>2. ~TooMany(At)
                BY <3>2, AtNotTooMany
            <4>3. CASE TooMany(serv)
                BY <4>1, <4>3, TooManyIsHeard
            <4>4. CASE ~TooMany(serv)
                BY <3>1, <3>3, <4>1, <4>2, <4>4, FeedMatches
            <4> QED
                BY <4>3, <4>4
        <3> QED
            BY <1>2, <3>4, <3>5, ServHears
    <2> QED
        BY <2>1, <2>2, <2>3
<1> QED
    BY <1>1, <1>2

\* Every symbol leaves what was handled in order.
LEMMA HandledNextByte ==
    ASSUME Clear, PlaceOK, BothGood, Good(At.p), ServAsAlone, HandledInOrder, NextByte
    PROVE  HandledInOrder'
<1>1. /\ Left /\ message' = message /\ ended' = ended /\ torn' = torn
      /\ long' = Long(TooMany(lib.in), TooMany(serv))
    BY DEF NextByte
<1>2. ended \/ ~message.well => served' = <<>>
    BY NothingServed DEF HandledInOrder
<1> DEFINE fits == ~ended /\ ~torn /\ "serv" \notin long' /\ ~BadEscape(message.target)
<1>3. ASSUME message.well, fits, status # "open"
      PROVE  message.upgrade /\ status' = "closed" /\ served' = <<>>
    <2>1. "serv" \notin long
        BY <1>1, <1>3 DEF Long
    <2> QED
        BY <1>1, <1>3, <2>1 DEF HandledInOrder, NextByte, Due
<1>4. ASSUME message.well, fits, status = "open"
      PROVE  IF status' = "open" THEN ClientAsSent' /\ served' = Due'
             ELSE message.upgrade /\ status' = "closed" /\ served' = Due'
    <2>1. KeepsUp
        BY <1>4 DEF ServAsAlone, Lost
    <2>3. "serv" \notin long /\ ~TooMany(serv)
        BY <1>1, <1>4 DEF Long
    <2>2. ClientAsSent /\ served = <<>>
        BY <1>1, <1>4, <2>3 DEF HandledInOrder, Due
    <2> QED
        BY <1>4, <2>1, <2>2, <2>3, RequestNextByte
<1>5. status # "open" => status' # "open"
    BY DEF NextByte
<1> QED
    BY <1>1, <1>2, <1>3, <1>4, <1>5 DEF HandledInOrder

\* The end of a read, where it does no harm, changes nothing of it.
LEMMA HandledEndOfRead ==
    ASSUME Clear, PlaceOK, BothGood, ServAsAlone, HandledInOrder, EndOfRead
    PROVE  HandledInOrder'
<1>1. /\ message' = message /\ sent' = sent /\ ended' = ended /\ served' = served
      /\ torn' = (torn \/ Tears(sent)) /\ long' = Long(EndsLong(lib.in), EndsLong(serv))
      /\ \/ status # "open" /\ UNCHANGED <<serv, kept, client, status>>
         \/ status = "open" /\ (Flushed \/ NotMarked)
    BY DEF EndOfRead
<1>2. Due' = Due /\ (InUrl' <=> InUrl) /\ UrlSoFar' = UrlSoFar
    BY <1>1 DEF Due, Left, InUrl, UrlSoFar
<1>3. ended' \/ ~message'.well => served' = <<>>
    BY <1>1 DEF HandledInOrder
<1> DEFINE fits == /\ ~ended /\ ~torn /\ ~Tears(sent) /\ "serv" \notin long'
                   /\ ~BadEscape(message.target)
<1>8. fits => "serv" \notin long
    BY <1>1 DEF Long
<1>4. ASSUME message.well, fits, status = "open"
      PROVE  IF status' = "open" THEN ClientAsSent' /\ served' = Due'
             ELSE message.upgrade /\ status' = "closed" /\ served' = Due'
    <2>1. KeepsUp
        BY <1>4 DEF ServAsAlone, Lost
    <2>2. ClientAsSent /\ served = Due
        BY <1>4, <1>8 DEF HandledInOrder
    <2>3. ~InUrl
        <3>1. sent \in Nat /\ Len(message.target) \in Nat \ {0}
            BY Begun DEF PlaceOK
        <3>2. InUrl => sent >= 3 /\ sent <= 2 + Len(message.target)
            BY <3>1 DEF InUrl, UrlEnd
        <3>3. InUrl => Tears(sent)
            <4>1. CASE before = 0
                BY <3>1, <3>2, <4>1 DEF Tears
            <4>2. CASE before # 0
                BY <3>1, <3>2, <4>2 DEF Tears
            <4> QED
                BY <4>1, <4>2
        <3> QED
            BY <1>4, <3>3
    <2>4. NotMarked
        BY <1>1, <1>4, <2>1, <2>3 DEF KeepsUp, Flushed
    <2>8. ~AtEnd(serv).failed /\ AtEnd(serv).upgrade = serv.p.upgrade
        <3>1. ~serv.p.failed /\ Alike(serv.p, At.p)
            BY <1>4, <2>1 DEF ServAsAlone, KeepsUp
        <3>2. ~EndsLong(serv)
            BY <1>1, <1>4 DEF Long
        <3>3. ~AtEnd(serv).failed
            BY <3>1, <3>2 DEF EndsLong
        <3> QED
            BY <3>1, <3>3, EndMatches DEF BothGood
    <2>5. /\ client' = client /\ serv'.run = <<>>
          /\ status' = IF serv.p.upgrade THEN "closed" ELSE status
        BY <2>4, <2>8 DEF NotMarked, Enter
    <2>6. serv.p.upgrade => message.upgrade
        <3>1. message \in Messages /\ sent \in 0..Len(message.wire)
            BY DEF PlaceOK
        <3>2. AsMeant(message)
            BY <1>4, <3>1, WellIs
        <3> QED
            BY <2>1, <3>1, <3>2 DEF KeepsUp, At, AsMeant
    <2>7. ClientAsSent'
        BY <1>1, <1>2, <2>2, <2>3, <2>5 DEF ClientAsSent
    <2> QED
        BY <1>1, <1>2, <1>4, <2>2, <2>5, <2>6, <2>7
<1>5. ASSUME message.well, fits, status # "open"
      PROVE  status' # "open" /\ message.upgrade /\ status' = "closed" /\ served' \in {<<>>, Due'}
    BY <1>1, <1>2, <1>5, <1>8 DEF HandledInOrder
<1> QED
    BY <1>1, <1>3, <1>4, <1>5 DEF HandledInOrder

\* Nothing is handled of a message that is only about to be sent.
LEMMA HandledNextMessage ==
    ASSUME Clear, PlaceOK, BothGood, ServAsAlone, RunIsMarked, NextMessage
    PROVE  HandledInOrder'
<1>1. /\ ~Left /\ status = "open" /\ status' = "open" /\ torn' = torn /\ serv' = serv
      /\ served' = <<>> /\ sent' = 0
    BY DEF NextMessage
<1>2. ~ended /\ message.well /\ ~InUrl /\ ~serv.marked
    BY <1>1, MessageOver
<1>3. ~InUrl' /\ Left' /\ (message'.well => UrlEnd(message') \in Nat)
    BY MessageBegins
<1>4. Due' = <<>>
    BY <1>3 DEF Due
<1>5. ASSUME message'.well PROVE ClientAsSent'
    <2>1. serv.run = <<>>
        BY <1>2 DEF RunIsMarked
    <2>2. ~(sent' > UrlEnd(message'))
        BY <1>1, <1>3, <1>5
    <2> QED
        BY <1>1, <1>3, <2>1, <2>2 DEF ClientAsSent
<1> QED
    BY <1>1, <1>4, <1>5 DEF HandledInOrder

\* What is not part of a url is never collected for on_url.
LEMMA RunStays == RunIsMarked /\ [Next]_vars => RunIsMarked'
<1> SUFFICES ASSUME RunIsMarked, [Next]_vars PROVE RunIsMarked'
    OBVIOUS
<1>1. \/ serv' = serv \/ \E s : serv' = Feed(serv, s).e \/ \E p : serv' = Enter(p)
    BY DEF Next, NextByte, EndOfRead, Flushed, NotMarked, NextMessage, vars
<1>2. ASSUME NEW s PROVE ~Feed(serv, s).e.marked => Feed(serv, s).e.run = <<>>
    BY DEF Feed
<1>3. ASSUME NEW p PROVE Enter(p).run = <<>>
    BY DEF Enter
<1> QED
    BY <1>1, <1>2, <1>3 DEF RunIsMarked

-----------------------------------------------------------------------------
(* The theorems                                                             *)

\* A connection begins where the message alone begins.
LEMMA InitReads == ASSUME Clear PROVE Init => ReadsInv
<1> SUFFICES ASSUME Init PROVE ReadsInv
    OBVIOUS
<1>1. /\ message \in Messages /\ sent = 0 /\ before = 0 /\ ended = FALSE /\ torn = FALSE
      /\ lib = [in |-> Enter(Fresh), url |-> <<>>, done |-> 0]
      /\ serv = Enter(Fresh) /\ served = <<>> /\ status = "open"
    BY DEF Init
<1>2. PlaceOK /\ BothGood
    BY InitPlace, InitGood
<1>3. Len(message.wire) \in Nat /\ Len(message.wire) >= 1
    BY <1>2, Begun
<1>4. At = Enter(Fresh) /\ Left /\ ~InUrl
    BY <1>1, <1>3, AloneIs DEF At, Left, InUrl
<1>5. Enter(Fresh).p = Fresh /\ ~Enter(Fresh).marked /\ Enter(Fresh).run = <<>>
      /\ ~Fresh.failed /\ ~Fresh.upgrade
    BY DEF Enter, Fresh, UrlStates
<1>6. Alike(Fresh, Fresh)
    BY DEF Alike
<1>7. ASSUME message.well PROVE UrlEnd(message) \in Nat /\ UrlSoFar = <<>>
    <2>1. UrlEnd(message) \in Nat
        BY <1>1, <1>7, WellIs
    <2>2. SubSeq(message.wire, 3, 0) = <<>>
        BY SubSeqEmpty
    <2> QED
        BY <1>1, <2>1, <2>2 DEF UrlSoFar, UrlUpTo
<1>8. LibAsAlone
    <2>1. <<>> \in Seq(Symbols) /\ <<>> \o <<>> = <<>>
        BY EmptySeq, ConcatEmptySeq
    <2>2. lib.in = Enter(Fresh) /\ lib.url = <<>> /\ lib.done = 0
        BY <1>1
    <2> QED
        BY <1>4, <1>5, <1>6, <1>7, <2>1, <2>2 DEF LibAsAlone
<1>9. KeepsUp
    BY <1>1, <1>4, <1>5, <1>6 DEF KeepsUp
<1>10. ServAsAlone
    BY <1>1, <1>5, <1>9 DEF ServAsAlone
<1>11. HandledInOrder
    <2>1. Due = <<>>
        BY <1>4 DEF Due
    <2>2. message.well => ClientAsSent
        BY <1>1, <1>4, <1>5, <1>7 DEF ClientAsSent
    <2> QED
        BY <1>1, <2>1, <2>2 DEF HandledInOrder
<1>12. Good(At.p)
    BY <1>4, <1>5, FreshIsGood
<1> QED
    BY <1>1, <1>2, <1>5, <1>8, <1>10, <1>11, <1>12 DEF ReadsInv, RunIsMarked

\* Every step keeps both users where the message alone would be.
LEMMA NextReads == ASSUME Clear PROVE ReadsInv /\ [Next]_vars => ReadsInv'
<1> SUFFICES ASSUME ReadsInv, [Next]_vars PROVE ReadsInv'
    OBVIOUS
<1>1. /\ PlaceOK /\ BothGood /\ Good(At.p) /\ LibAsAlone /\ ServAsAlone /\ HandledInOrder
      /\ RunIsMarked
    BY DEF ReadsInv
<1>2. PlaceOK' /\ Good(At.p)' /\ RunIsMarked'
    BY <1>1, NextPlace, AtGood, RunStays
<1>3. CASE NextByte
    BY <1>1, <1>2, <1>3, NextByteGood, LibNextByte, ServNextByte, HandledNextByte DEF ReadsInv
<1>4. CASE EndOfRead
    BY <1>1, <1>2, <1>4, EndOfReadGood, LibEndOfRead, ServEndOfRead, HandledEndOfRead DEF ReadsInv
<1>5. CASE NextMessage
    BY <1>1, <1>2, <1>5, NextMessageGood, LibNextMessage, ServNextMessage, HandledNextMessage
       DEF ReadsInv
<1>6. CASE UNCHANGED vars
    BY <1>1, <1>6 DEF vars, ReadsInv, PlaceOK, BothGood, At, LibAsAlone, ServAsAlone,
       RunIsMarked, HandledInOrder, InUrl, UrlSoFar, Left, KeepsUp, Lost, AtDead, ClientAsSent, Due, Tears
<1> QED
    BY <1>3, <1>4, <1>5, <1>6 DEF Next

\* http_parser hears of every request once, at its last byte, with the url
\* that was sent, and knows whether another may follow: however the requests
\* are cut into reads and whatever came before them on the connection, for all
\* messages that it takes as they are meant when each comes alone in one read;
\* but for a request refused as the count of its header bytes, which does depend
\* on the reads and on trailers sent before, passed its limit.
THEOREM ReadsMakeNoDifference == ASSUME Clear PROVE Spec => []ParsedAsMeant
<1>1. ReadsInv => ParsedAsMeant
    <2> SUFFICES ASSUME ReadsInv, message.well, ~ended, "lib" \notin long
                 PROVE  /\ ~lib.in.p.failed
                        /\ lib.done = (IF Left THEN 0 ELSE 1)
                        /\ ~Left => /\ lib.url = message.target
                                    /\ lib.in.p.upgrade = message.upgrade
                                    /\ (lib.in.p.state = "dead") = message.last
        BY DEF ParsedAsMeant
    <2>1. /\ PlaceOK /\ Alike(lib.in.p, At.p) /\ lib.done = (IF Left THEN 0 ELSE 1)
          /\ lib.url \in Seq(Symbols) /\ (~InUrl => lib.in.run = <<>>)
          /\ lib.url \o lib.in.run = UrlSoFar
          /\ (~Left => lib.in.p.upgrade = At.p.upgrade)
        BY DEF ReadsInv, LibAsAlone
    <2>2. message \in Messages /\ sent \in 0..Len(message.wire)
        BY <2>1 DEF PlaceOK
    <2>3. ~At.p.failed
        BY <2>2, WellGoesOn DEF At
    <2>4. ~lib.in.p.failed /\ lib.in.p.state = At.p.state
        BY <2>1, <2>3 DEF Alike
    <2>5. ASSUME ~Left
          PROVE  /\ lib.url = message.target /\ lib.in.p.upgrade = message.upgrade
                 /\ (lib.in.p.state = "dead") = message.last
        <3>1. /\ AsMeant(message) /\ UrlEnd(message) \in Nat /\ Len(message.wire) \in Nat
              /\ UrlEnd(message) + 1 < Len(message.wire)
            BY <2>2, WellIs
        <3>2. sent = Len(message.wire)
            BY <2>2, <2>5, <3>1 DEF Left
        <3>3. ~InUrl /\ UrlSoFar = message.target
            BY <3>1, <3>2 DEF InUrl, UrlSoFar, UrlUpTo
        <3>4. lib.url = message.target
            BY <2>1, <3>3, ConcatEmptySeq
        <3>5. At.p.upgrade = message.upgrade /\ message.last \in BOOLEAN
              /\ At.p.state = (IF message.last THEN "dead" ELSE "start_req")
            BY <3>1, <3>2 DEF AsMeant, At
        <3> QED
            BY <2>1, <2>4, <2>5, <3>4, <3>5
    <2> QED
        BY <2>1, <2>4, <2>5
<1> QED
    BY <1>1, InitReads, NextReads, PTL DEF Spec

\* efserv handles each such request whose url can be decoded once, when it is
\* complete, as it was meant, nothing of what is not a request, and keeps the
\* connection open for the next: as long as no read ends in a url, or before the
\* first url, and no count of header bytes passed the limit.
THEOREM WholeUrlsAreHandled == ASSUME Clear PROVE Spec => []HandledAsSent
<1>1. ReadsInv => HandledAsSent
    <2> SUFFICES ASSUME ReadsInv, ~torn, "serv" \notin long, ~BadEscape(message.target)
                 PROVE  RequestsHandled /\ (status # "open" => ended \/ message.upgrade \/ ~message.well)
        BY DEF HandledAsSent
    <2>1. /\ ended \/ ~message.well => served = <<>>
          /\ message.well /\ ~ended =>
                 IF status = "open" THEN served = Due
                 ELSE message.upgrade /\ status = "closed" /\ served \in {<<>>, Due}
        BY DEF ReadsInv, HandledInOrder
    <2>2. ended \/ ~message.well => Due = <<>>
        BY DEF Due
    <2> QED
        BY <2>1, <2>2 DEF RequestsHandled, GivenUp
<1> QED
    BY <1>1, InitReads, NextReads, PTL DEF Spec

\* Nothing is handled after a request that was not to keep the connection
\* alive, however the reads end.
THEOREM NothingAfterTheLast == ASSUME Clear PROVE Spec => []LastIsLast
<1>1. ReadsInv => LastIsLast
    BY DEF ReadsInv, HandledInOrder, LastIsLast
<1> QED
    BY <1>1, InitReads, NextReads, PTL DEF Spec
=============================================================================
