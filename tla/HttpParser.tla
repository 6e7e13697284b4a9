------------------------------ MODULE HttpParser ------------------------------
(***************************************************************************)
(* http_parser as efserv runs it: HTTP_REQUEST, strict, with the callbacks *)
(* on_url and on_message_complete and no others.                           *)
(*                                                                         *)
(* The parser is a machine that takes one byte at a time.  A symbol is a   *)
(* byte, or a run of bytes that the parser takes along one path whatever   *)
(* stands before it: a method, or a part of one of the words it looks for. *)
(* Words are cut where the parser has to choose.  There is one operator    *)
(* per group of cases of the switch in http_parser_execute; it gives the   *)
(* outcome of one symbol for a parser in that state.                       *)
(***************************************************************************)
EXTENDS Integers

CONSTANTS MaxUint,       \* ULLONG_MAX, which also stands for "no length given"
          MaxVersion,    \* the largest version number, 999 in the code
          MaxHeaderSize  \* HTTP_MAX_HEADER_SIZE, in symbols

\* unhex gives up to 15, and a chunk size of one digit must be below MaxUint.
ASSUME MaxUintAssumption == MaxUint \in Nat /\ MaxUint > 16
\* Version 0.9 is stored without a test.
ASSUME MaxVersionAssumption == MaxVersion \in Nat /\ MaxVersion >= 9
ASSUME MaxHeaderSizeAssumption == MaxHeaderSize \in Nat \ {0}

-----------------------------------------------------------------------------
(* Symbols *)

Eol     == {"cr", "lf"}
Blank   == {"sp", "ht"}
\* Digits of a length, a chunk size or a version; three of them are enough to
\* tell zero, one and more.
Digits  == {"0", "1", "2"}
Value   == [d \in Digits |-> IF d = "0" THEN 0 ELSE IF d = "1" THEN 1 ELSE 2]
\* All methods but CONNECT are taken the same way.
Methods == {"DELETE", "GET", "POST", "CONNECT"}
Dashed  == {"tent-length", "ansfer-encoding", "oxy-connection", "ep-alive"}
Letters == Methods \cup {"HT", "TP"}
           \cup {"con", "nection", "tr", "up", "grade", "pr", "name",
                 "ke", "clo", "se", "chu", "nked"}
Punctuation == {"/", "*", "?", "#", ":", "@", "%", "+", ",", ";", "."}
Symbols == Eol \cup Blank \cup Digits \cup Letters \cup Dashed \cup Punctuation

\* Symbols that are one byte: what a body is made of.
Bytes == Eol \cup Blank \cup Digits \cup Punctuation

Alnum        == Letters \cup Digits
TokenChar    == Alnum \cup Dashed \cup {"*", "#", "%", "+", "."}
UrlChar      == (Alnum \cup Dashed \cup Punctuation) \ {"?", "#"}
UserinfoChar == Alnum \cup Dashed \cup {"%", ";", ":", "+", ",", "*", "."}

-----------------------------------------------------------------------------
(* The parser *)

UrlStates == {"schema", "schema_slash", "schema_slash_slash", "server_start",
              "server", "server_with_at", "path", "query_string_start",
              "query_string", "fragment_start", "fragment"}
ChunkStates == {"chunk_size_start", "chunk_size", "chunk_parameters",
                "chunk_size_almost_done", "chunk_data",
                "chunk_data_almost_done", "chunk_data_done"}
BodyStates == {"chunk_data", "chunk_data_almost_done", "chunk_data_done",
               "body_identity", "message_done"}
States == UrlStates \cup ChunkStates \cup BodyStates \cup
          {"dead", "start_req", "req_method", "spaces_before_url",
           "http_start", "http_HT", "http_HTTP",
           "first_http_major", "http_major", "first_http_minor", "http_minor",
           "line_almost_done", "header_field_start", "header_field",
           "header_value_discard_ws", "header_value_discard_ws_almost_done",
           "header_value_discard_lws", "header_value_start", "header_value",
           "header_value_lws", "header_almost_done",
           "headers_almost_done", "headers_done"}

\* What the header under the parser is so far: header_state and index.
FieldStates == {"general", "CON", "matching_proxy_connection",
                "matching_transfer_encoding", "matching_upgrade",
                "connection", "content_length", "transfer_encoding", "upgrade"}
ValueStates == {"general", "content_length", "matching_chunked", "chunked",
                "token_start", "token", "matching_keep_alive",
                "matching_close", "matching_upgrade_option",
                "keep_alive", "close", "upgrade_option"}
Flags == {"CHUNKED", "KEEP_ALIVE", "CLOSE", "CONNECTION_UPGRADE", "TRAILING",
          "UPGRADE", "CONTENTLENGTH"}

\* http_errno is kept as "there was an error".  nread counts symbols, and stays
\* at the limit in a parser that failed because of it.
Parsers == [state : States, hs : FieldStates \cup ValueStates,
            flags : SUBSET Flags, length : 0..MaxUint, nread : 0..MaxHeaderSize,
            major : 0..MaxVersion, minor : 0..MaxVersion,
            method : Methods,
            failed : BOOLEAN, upgrade : BOOLEAN]

\* http_parser_init
Fresh == [state |-> "start_req", hs |-> "general", flags |-> {}, length |-> 0,
          nread |-> 0, major |-> 0, minor |-> 0, method |-> "DELETE",
          failed |-> FALSE, upgrade |-> FALSE]

ShouldKeepAliveByVersion(p) == p.major > 0 /\ p.minor > 0 \* mutant: no header
\* http_should_keep_alive; a request never needs the end of the stream.
ShouldKeepAlive(p) == IF p.major > 0 /\ p.minor > 0
                      THEN "CLOSE" \notin p.flags
                      ELSE "KEEP_ALIVE" \in p.flags

\* What one case does with a symbol: the parser it leaves, whether the symbol
\* is looked at once more (goto reexecute), and what is called or marked.
Outcome(p, again, call) == [p |-> p, again |-> again, call |-> call]
Take(p)    == Outcome(p, FALSE, "none")
Again(p)   == Outcome(p, TRUE, "none")
Mark(p)    == Outcome(p, FALSE, "mark")
Call(p, c) == Outcome(p, FALSE, c)
Fail(p)    == Outcome([p EXCEPT !.failed = TRUE], FALSE, "none")

To(p, state)   == [p EXCEPT !.state = state]
Flag(p, f)     == [p EXCEPT !.flags = @ \cup {f}]
Expect(p, ok, state) == IF ok THEN Take(To(p, state)) ELSE Fail(p)

\* NEW_MESSAGE in strict mode.
NewMessage(p) == To(p, IF ShouldKeepAlive(p) THEN "start_req" ELSE "dead")

-----------------------------------------------------------------------------
(* The request line *)

\* s_dead: after a request that does not keep the connection alive.
Dead(p, s) == Expect(p, s \in Eol, "dead")

StartReq(p, s) ==
    LET begun == [p EXCEPT !.flags = {}, !.length = MaxUint]
    IN  CASE s \in Eol     -> Take(p)
          [] s \in Methods -> Take([begun EXCEPT !.state = "req_method",
                                                 !.method = s])
          [] OTHER         -> Fail(begun)

ReqMethod(p, s) == Expect(p, s = "sp", "spaces_before_url")

\* parse_url_char: the state after s, "dead" when s may not stand there.
Server(s) ==
    CASE s = "/"            -> "path"
      [] s = "?"            -> "query_string_start"
      [] s = "@"            -> "server_with_at"
      [] s \in UserinfoChar -> "server"
      [] OTHER              -> "dead"
InPath(s) ==
    CASE s \in UrlChar -> "path"
      [] s = "?"       -> "query_string_start"
      [] s = "#"       -> "fragment_start"
      [] OTHER         -> "dead"
InQuery(s) ==
    CASE s \in UrlChar \cup {"?"} -> "query_string"
      [] s = "#"                  -> "fragment_start"
      [] OTHER                    -> "dead"
InFragment(state, s) ==
    CASE s \in UrlChar \cup {"?"} -> "fragment"
      [] s = "#"                  -> state
      [] OTHER                    -> "dead"
ParseUrlChar(state, s) ==
    CASE state = "spaces_before_url" /\ s \in {"/", "*"}     -> "path"
      [] state \in {"spaces_before_url", "schema"}
             /\ s \in Letters                                -> "schema"
      [] state = "schema" /\ s = ":"                         -> "schema_slash"
      [] state = "schema_slash" /\ s = "/"                   -> "schema_slash_slash"
      [] state = "schema_slash_slash" /\ s = "/"             -> "server_start"
      [] state \in {"server_start", "server"}                -> Server(s)
      [] state = "server_with_at" /\ s # "@"                 -> Server(s)
      [] state = "path"                                      -> InPath(s)
      [] state \in {"query_string_start", "query_string"}    -> InQuery(s)
      [] state \in {"fragment_start", "fragment"}            -> InFragment(state, s)
      [] OTHER                                               -> "dead"

SpacesBeforeUrl(p, s) ==
    LET from == IF p.method = "CONNECT" THEN "server_start" ELSE p.state
        next == ParseUrlChar(from, s)
    IN  CASE s = "sp"                   -> Take(p)
          [] s # "sp" /\ next = "dead"  -> Fail(p)
          [] s # "sp" /\ next # "dead"  -> Mark(To(p, next))

\* s_req_schema up to s_req_server_start: no white space, so the url cannot end.
UrlPrefix(p, s) ==
    LET next == ParseUrlChar(p.state, s) IN Expect(p, next # "dead", next)

Url(p, s) ==
    LET http09 == [p EXCEPT !.major = 0, !.minor = 9]
    IN  CASE s = "sp" -> Call(To(p, "http_start"), "url")
          [] s = "cr" -> Call(To(http09, "line_almost_done"), "url")
          [] s = "lf" -> Call(To(http09, "header_field_start"), "url")
          [] OTHER    -> UrlPrefix(p, s)

HttpStart(p, s) == IF s = "sp" THEN Take(p) ELSE Expect(p, s = "HT", "http_HT")
HttpHT(p, s)    == Expect(p, s = "TP", "http_HTTP")
HttpHTTP(p, s)  == Expect(p, s = "/", "first_http_major")

\* A version number, a digit at a time.
Longer(n, s) == 10 * n + Value[s]
MajorDigit(p, n) == IF n > MaxVersion THEN Fail(p)
                    ELSE Take([p EXCEPT !.major = n, !.state = "http_major"])
MinorDigit(p, n) == IF n > MaxVersion THEN Fail(p)
                    ELSE Take([p EXCEPT !.minor = n, !.state = "http_minor"])
FirstHttpMajor(p, s) ==
    IF s \in Digits \ {"0"} THEN MajorDigit(p, Value[s]) ELSE Fail(p)
HttpMajor(p, s) ==
    CASE s = "."       -> Take(To(p, "first_http_minor"))
      [] s \in Digits  -> MajorDigit(p, Longer(p.major, s))
      [] OTHER         -> Fail(p)
FirstHttpMinor(p, s) ==
    IF s \in Digits THEN MinorDigit(p, Value[s]) ELSE Fail(p)
HttpMinor(p, s) ==
    CASE s = "cr"      -> Take(To(p, "line_almost_done"))
      [] s = "lf"      -> Take(To(p, "header_field_start"))
      [] s \in Digits  -> MinorDigit(p, Longer(p.minor, s))
      [] OTHER         -> Fail(p)

LineAlmostDone(p, s) == Expect(p, s = "lf", "header_field_start")

-----------------------------------------------------------------------------
(* Headers *)

\* The words looked for in a header's name, cut where two of them part.
NameBegins(s) ==
    CASE s = "con" -> "CON"
      [] s = "pr"  -> "matching_proxy_connection"
      [] s = "tr"  -> "matching_transfer_encoding"
      [] s = "up"  -> "matching_upgrade"
      [] OTHER     -> "general"
NameGoesOn(hs, s) ==
    CASE hs = "CON" /\ s = "nection"                                 -> "connection"
      [] hs = "CON" /\ s = "tent-length"                             -> "content_length"
      [] hs = "matching_proxy_connection" /\ s = "oxy-connection"    -> "connection"
      [] hs = "matching_transfer_encoding" /\ s = "ansfer-encoding"  -> "transfer_encoding"
      [] hs = "matching_upgrade" /\ s = "grade"                      -> "upgrade"
      [] OTHER                                                       -> "general"

HeaderFieldStart(p, s) ==
    CASE s = "cr"         -> Take(To(p, "headers_almost_done"))
      [] s = "lf"         -> Again(To(p, "headers_almost_done"))
      [] s \in TokenChar  -> Take([p EXCEPT !.state = "header_field",
                                            !.hs = NameBegins(s)])
      [] OTHER            -> Fail(p)

HeaderField(p, s) ==
    CASE s \in TokenChar -> Take([p EXCEPT !.hs = NameGoesOn(p.hs, s)])
      [] s = ":"         -> Take(To(p, "header_value_discard_ws"))
      [] OTHER           -> Fail(p)

\* The options of a Connection header: each begins after a comma.
OptionBegins(s) ==
    CASE s = "ke"  -> "matching_keep_alive"
      [] s = "clo" -> "matching_close"
      [] s = "up"  -> "matching_upgrade_option"
      [] OTHER     -> "token"

FirstDigit(p, s) ==
    IF s \notin Digits \/ "CONTENTLENGTH" \in p.flags
    THEN Fail(p)
    ELSE Take([Flag(p, "CONTENTLENGTH") EXCEPT !.length = Value[s]])

HeaderValueStart(p, s) ==
    LET q == To(p, "header_value")
    IN  CASE p.hs = "upgrade" ->
                Take([Flag(q, "UPGRADE") EXCEPT !.hs = "general"])
          [] p.hs = "transfer_encoding" ->
                Take([q EXCEPT !.hs = IF s = "chu" THEN "matching_chunked" ELSE "general"])
          [] p.hs = "content_length" -> FirstDigit(q, s)
          [] p.hs = "connection"     -> Take([q EXCEPT !.hs = OptionBegins(s)])
          [] p.hs = "token_start"    -> Take(q)
          [] OTHER                   -> Take([q EXCEPT !.hs = "general"])

HeaderValueDiscardWs(p, s) ==
    CASE s \in Blank -> Take(p)
      [] s = "cr"    -> Take(To(p, "header_value_discard_ws_almost_done"))
      [] s = "lf"    -> Take(To(p, "header_value_discard_lws"))
      [] OTHER       -> HeaderValueStart(p, s)

\* A further digit of Content-Length.  The value so far is tested, not the sum.
MoreDigits(p, s) ==
    CASE s = "sp" -> Take(p)
      [] s \in Digits /\ (MaxUint - 10) \div 10 >= p.length ->
            Take([p EXCEPT !.length = Longer(p.length, s)])
      [] OTHER    -> Fail(p)

EarnedLate(p) ==  \* mutant: a value that ends in "close" is forgotten
    CASE p.hs = "keep_alive"     -> Flag(p, "KEEP_ALIVE")
      [] p.hs = "chunked"        -> Flag(p, "CHUNKED")
      [] p.hs = "upgrade_option" -> Flag(p, "CONNECTION_UPGRADE")
      [] OTHER                   -> p
\* A flag a header asks for is set when its value ends there.
Earned(p) ==
    CASE p.hs = "keep_alive"     -> Flag(p, "KEEP_ALIVE")
      [] p.hs = "close"          -> Flag(p, "CLOSE")
      [] p.hs = "chunked"        -> Flag(p, "CHUNKED")
      [] p.hs = "upgrade_option" -> Flag(p, "CONNECTION_UPGRADE")
      [] OTHER                   -> p

\* c is LOWER(ch), which makes a tab a ')': only a space is skipped.
InOption(hs, s) ==
    CASE hs = "token_start" ->
            (CASE s \in {"ke", "clo", "up"}     -> OptionBegins(s)
               [] s = "sp"                      -> "token_start"
               [] s \in TokenChar \cup {"@"}    -> "token"
               [] OTHER                         -> "general")
      [] hs = "matching_keep_alive" ->
            (IF s = "ep-alive" THEN "keep_alive" ELSE "token")
      [] hs = "matching_close" ->
            (IF s = "se" THEN "close" ELSE "token")
      [] hs = "matching_upgrade_option" ->
            (IF s = "grade" THEN "upgrade_option" ELSE "token")
      [] hs = "token" ->
            (IF s = "," THEN "token_start" ELSE "token")

HeaderValueChar(p, s) ==
    CASE p.hs = "general" -> Take(p)
      [] p.hs = "content_length" -> MoreDigits(p, s)
      [] p.hs = "matching_chunked" ->
            Take([p EXCEPT !.hs = IF s = "nked" THEN "chunked" ELSE "general"])
      [] p.hs = "chunked" ->
            Take([p EXCEPT !.hs = IF s = "sp" THEN "chunked" ELSE "general"])
      [] p.hs \in {"keep_alive", "close", "upgrade_option"} ->
            (CASE s = ","  -> Take([Earned(p) EXCEPT !.hs = "token_start"])
               [] s = "sp" -> Take(p)
               [] OTHER    -> Take([p EXCEPT !.hs = "token"]))
      [] OTHER -> Take([p EXCEPT !.hs = InOption(p.hs, s)])

HeaderValue(p, s) ==
    CASE s = "cr" -> Take(To(p, "header_almost_done"))
      [] s = "lf" -> Again(To(p, "header_almost_done"))
      [] OTHER    -> HeaderValueChar(p, s)

HeaderAlmostDone(p, s) == Expect(p, s = "lf", "header_value_lws")

\* A line that begins with a blank goes on with the value of the last header.
HeaderValueLws(p, s) ==
    IF s \in Blank THEN Again(To(p, "header_value_start"))
    ELSE Again(To(Earned(p), "header_field_start"))

DiscardWsAlmostDone(p, s) == Expect(p, s = "lf", "header_value_discard_lws")

DiscardLws(p, s) ==
    IF s \in Blank THEN Take(To(p, "header_value_discard_ws"))
    ELSE Again(To(Earned(p), "header_field_start"))

\* efserv sets no on_headers_complete, so no body is ever skipped.
HeadersAlmostDone(p, s) ==
    CASE s # "lf" -> Fail(p)
      [] s = "lf" /\ "TRAILING" \in p.flags -> Again(To(p, "message_done"))
      [] s = "lf" /\ "TRAILING" \notin p.flags /\ {"CHUNKED", "CONTENTLENGTH"} \subseteq p.flags ->
            Fail(p)
      [] OTHER ->
            Again([p EXCEPT !.state = "headers_done",
                            !.upgrade = \/ {"UPGRADE", "CONNECTION_UPGRADE"} \subseteq p.flags
                                        \/ p.method = "CONNECT"])

\* The message is over.
Complete(p) == Call(NewMessage(p), "complete")

HasBodyIfSet(p) == "CHUNKED" \in p.flags \/ p.length # MaxUint  \* mutant: not 0
HasBody(p) == "CHUNKED" \in p.flags \/ p.length \notin {0, MaxUint}

HeadersDoneCounting(p, s) ==  \* mutant: nread is not set to 0
    CASE s # "lf" -> Fail(p)
      [] s = "lf" /\ p.upgrade /\ (p.method = "CONNECT" \/ ~HasBody(p)) -> Complete(p)
      [] s = "lf" /\ ~HasBody(p) /\ ~p.upgrade -> Complete(p)
      [] OTHER -> Take(To(p, IF "CHUNKED" \in p.flags
                             THEN "chunk_size_start" ELSE "body_identity"))
HeadersDone(p, s) ==
    LET q == [p EXCEPT !.nread = 0]
    IN  CASE s # "lf" -> Fail(p)
          [] s = "lf" /\ p.upgrade /\ (p.method = "CONNECT" \/ ~HasBody(p)) -> Complete(q)
          [] s = "lf" /\ ~HasBody(p) /\ ~p.upgrade -> Complete(q)
          [] OTHER -> Take(To(q, IF "CHUNKED" \in p.flags
                                 THEN "chunk_size_start" ELSE "body_identity"))

-----------------------------------------------------------------------------
(* The body *)

\* Taken in bulk by the code; the last byte is looked at once more.
BodyIdentity(p, s) ==
    LET q == [p EXCEPT !.length = @ - 1]
    IN  IF q.length = 0 THEN Again(To(q, "message_done")) ELSE Take(q)

MessageDone(p, s) == Complete(p)

ChunkSizeStart(p, s) ==
    IF s \in Digits
    THEN Take([p EXCEPT !.length = Value[s], !.state = "chunk_size"])
    ELSE Fail(p)

LongerHex(n, s) == 16 * n + Value[s]
ChunkSizeUnbounded(p, s) ==  \* mutant: no test for overflow
    CASE s = "cr" -> Take(To(p, "chunk_size_almost_done"))
      [] s \in {";", "sp"} -> Take(To(p, "chunk_parameters"))
      [] s \in Digits -> Take([p EXCEPT !.length = LongerHex(p.length, s)])
      [] OTHER    -> Fail(p)
ChunkSize(p, s) ==
    CASE s = "cr" -> Take(To(p, "chunk_size_almost_done"))
      [] s \in {";", "sp"} -> Take(To(p, "chunk_parameters"))
      [] s \in Digits /\ (MaxUint - 16) \div 16 >= p.length ->
            Take([p EXCEPT !.length = LongerHex(p.length, s)])
      [] OTHER    -> Fail(p)

ChunkParameters(p, s) ==
    Take(IF s = "cr" THEN To(p, "chunk_size_almost_done") ELSE p)

\* The last chunk is empty; headers may follow it.
ChunkSizeAlmostDone(p, s) ==
    LET q == [p EXCEPT !.nread = 0]
    IN  CASE s # "lf"                  -> Fail(p)
          [] s = "lf" /\ p.length = 0  -> Take(To(Flag(q, "TRAILING"), "header_field_start"))
          [] s = "lf" /\ p.length # 0  -> Take(To(q, "chunk_data"))

ChunkData(p, s) ==
    LET q == [p EXCEPT !.length = @ - 1]
    IN  Take(IF q.length = 0 THEN To(q, "chunk_data_almost_done") ELSE q)

ChunkDataAlmostDone(p, s) == Expect(p, s = "cr", "chunk_data_done")
ChunkDataDone(p, s) ==
    IF s = "lf" THEN Take([p EXCEPT !.state = "chunk_size_start", !.nread = 0])
    ELSE Fail(p)

-----------------------------------------------------------------------------
(* http_parser_execute *)

Case(p, s) ==
    CASE p.state = "dead"                                -> Dead(p, s)
      [] p.state = "start_req"                           -> StartReq(p, s)
      [] p.state = "req_method"                          -> ReqMethod(p, s)
      [] p.state = "spaces_before_url"                   -> SpacesBeforeUrl(p, s)
      [] p.state \in {"schema", "schema_slash", "schema_slash_slash",
                      "server_start"}                    -> UrlPrefix(p, s)
      [] p.state \in {"server", "server_with_at", "path",
                      "query_string_start", "query_string",
                      "fragment_start", "fragment"}      -> Url(p, s)
      [] p.state = "http_start"                          -> HttpStart(p, s)
      [] p.state = "http_HT"                             -> HttpHT(p, s)
      [] p.state = "http_HTTP"                           -> HttpHTTP(p, s)
      [] p.state = "first_http_major"                    -> FirstHttpMajor(p, s)
      [] p.state = "http_major"                          -> HttpMajor(p, s)
      [] p.state = "first_http_minor"                    -> FirstHttpMinor(p, s)
      [] p.state = "http_minor"                          -> HttpMinor(p, s)
      [] p.state = "line_almost_done"                    -> LineAlmostDone(p, s)
      [] p.state = "header_field_start"                  -> HeaderFieldStart(p, s)
      [] p.state = "header_field"                        -> HeaderField(p, s)
      [] p.state = "header_value_discard_ws"             -> HeaderValueDiscardWs(p, s)
      [] p.state = "header_value_start"                  -> HeaderValueStart(p, s)
      [] p.state = "header_value"                        -> HeaderValue(p, s)
      [] p.state = "header_almost_done"                  -> HeaderAlmostDone(p, s)
      [] p.state = "header_value_lws"                    -> HeaderValueLws(p, s)
      [] p.state = "header_value_discard_ws_almost_done" -> DiscardWsAlmostDone(p, s)
      [] p.state = "header_value_discard_lws"            -> DiscardLws(p, s)
      [] p.state = "headers_almost_done"                 -> HeadersAlmostDone(p, s)
      [] p.state = "headers_done"                        -> HeadersDone(p, s)
      [] p.state = "body_identity"                       -> BodyIdentity(p, s)
      [] p.state = "message_done"                        -> MessageDone(p, s)
      [] p.state = "chunk_size_start"                    -> ChunkSizeStart(p, s)
      [] p.state = "chunk_size"                          -> ChunkSize(p, s)
      [] p.state = "chunk_parameters"                    -> ChunkParameters(p, s)
      [] p.state = "chunk_size_almost_done"              -> ChunkSizeAlmostDone(p, s)
      [] p.state = "chunk_data"                          -> ChunkData(p, s)
      [] p.state = "chunk_data_almost_done"              -> ChunkDataAlmostDone(p, s)
      [] p.state = "chunk_data_done"                     -> ChunkDataDone(p, s)

\* COUNT_HEADER_SIZE of each symbol up to the body.
Counts(p)    == p.state \notin BodyStates
Overflows(p) == Counts(p) /\ p.nread = MaxHeaderSize
Count(p)     == IF Counts(p) THEN [p EXCEPT !.nread = @ + 1] ELSE p

\* One symbol: refused after an error, else counted while the header is parsed
\* and looked at until a case takes it.  Four cases in a row are the most there
\* are, at the line feed that ends the headers.
Look(o, s) == IF o.again THEN Case(o.p, s) ELSE o
Byte(p, s) == IF p.failed \/ Overflows(p) THEN Fail(p)
              ELSE Look(Look(Look(Case(Count(p), s), s), s), s)

\* s_header_field and s_header_value take all they can of a read in one go and
\* count it once more: exact if the name or value ends there, else one too many.
Loops(p, next) == next.state = p.state /\ p.state \in {"header_field", "header_value"}
BreakOff(p)    == IF p.failed \/ p.nread = MaxHeaderSize
                  THEN [p EXCEPT !.failed = TRUE] ELSE [p EXCEPT !.nread = @ + 1]

\* What the code asserts of a parser when it takes the next byte.
AssertsHold(p) == ~p.failed =>
    /\ p.state \in {"body_identity", "chunk_data"} => p.length \notin {0, MaxUint}
    /\ p.state \in ChunkStates => "CHUNKED" \in p.flags
    /\ p.state = "chunk_data_almost_done" => p.length = 0
    /\ p.state = "chunk_size_start" => p.nread = 0
    /\ p.state = "header_field" => p.hs \in FieldStates
    /\ p.state = "header_value" => p.hs \in ValueStates
==============================================================================
