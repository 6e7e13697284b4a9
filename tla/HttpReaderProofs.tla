--------------------------- MODULE HttpReaderProofs ---------------------------
(***************************************************************************)
(* What holds of http_parser in efserv's hands for every peer: no assert   *)
(* of http_parser_execute can fail.  What the code asserts is not          *)
(* inductive: Sound adds that no size of a chunk is the value that stands  *)
(* for "none", which http_parser_execute relies on when it takes the chunk.*)
(***************************************************************************)
EXTENDS HttpReader, TLAPS

\* States with a chunk's size in content_length, states the code asserts
\* something in, and the others.
LengthStates == {"chunk_size", "chunk_parameters", "chunk_size_almost_done"}
CheckedStates == ChunkStates \cup {"body_identity", "header_field", "header_value"}
FreeStates == States \ CheckedStates

\* A parser between two bytes.
Sound(p) ==
    /\ p \in Parsers
    /\ ~p.failed =>
        /\ p.state \in {"body_identity", "chunk_data"} => p.length \notin {0, MaxUint}
        /\ p.state \in ChunkStates => "CHUNKED" \in p.flags
        /\ p.state = "chunk_data_almost_done" => p.length = 0
        /\ p.state = "header_field" => p.hs \in FieldStates
        /\ p.state = "header_value" => p.hs \in ValueStates
        /\ p.state \in LengthStates => p.length # MaxUint

\* What a case leaves; a byte is only looked at again if nothing failed.
SoundOutcome(o) ==
    /\ Sound(o.p)
    /\ ~o.p.failed /\ o.p.state = "chunk_size_start" => o.p.nread = 0
    /\ o.again => ~o.p.failed

\* Values that are in range whatever the constants are.
LEMMA Constant ==
    /\ 0 \in 0..MaxUint /\ MaxUint \in 0..MaxUint /\ 0 \in 0..MaxHeaderSize
    /\ {} \in SUBSET Flags
    /\ "general" \in FieldStates \cup ValueStates
  BY MaxUintAssumption, MaxHeaderSizeAssumption DEF FieldStates

\* The states nothing is asserted in.
LEMMA FreeStatesAre ==
    \A x \in {"dead", "start_req", "req_method", "spaces_before_url",
       "schema", "schema_slash", "schema_slash_slash", "server_start",
       "server", "server_with_at", "path", "query_string_start",
       "query_string", "fragment_start", "fragment",
       "http_start", "http_HT", "http_HTTP",
       "first_http_major", "http_major", "first_http_minor", "http_minor",
       "line_almost_done", "header_field_start",
       "header_value_discard_ws", "header_value_discard_ws_almost_done",
       "header_value_discard_lws", "header_value_start",
       "header_value_lws", "header_almost_done",
       "headers_almost_done", "headers_done", "message_done"} : x \in FreeStates
  BY DEF FreeStates, States, UrlStates, ChunkStates, BodyStates, CheckedStates

\* A parser in one of them is sound, whatever else it holds.
LEMMA Free ==
    ASSUME NEW p \in Parsers, p.state \in FreeStates
    PROVE  Sound(p) /\ p.state # "chunk_size_start"
  BY DEF Sound, FreeStates, CheckedStates, ChunkStates, LengthStates

\* After an error nothing is asserted.
LEMMA FailIsSound == ASSUME NEW p \in Parsers PROVE SoundOutcome(Fail(p))
  BY DEF Fail, Outcome, SoundOutcome, Sound, Parsers

\* An outcome is as sound as its parser.
LEMMA OutcomeIsSound ==
    ASSUME NEW p, Sound(p), p.state # "chunk_size_start", NEW a \in BOOLEAN, NEW c,
           a => ~p.failed
    PROVE  SoundOutcome(Outcome(p, a, c))
  BY DEF Outcome, SoundOutcome

\* Going to a state leaves a parser there.
LEMMA ToIsParser == ASSUME NEW p \in Parsers, NEW x \in States
                   PROVE  To(p, x) \in Parsers /\ To(p, x).state = x /\ To(p, x).failed = p.failed
  BY DEF To, Parsers

\* Going to a state nothing is asserted in is sound.
LEMMA ToFree == ASSUME NEW p \in Parsers, NEW x \in FreeStates
                PROVE  /\ Sound(To(p, x)) /\ To(p, x).state # "chunk_size_start"
                       /\ To(p, x) \in Parsers /\ To(p, x).failed = p.failed
  BY ToIsParser, Free DEF FreeStates

\* So is every outcome that goes there.
LEMMA TakeFree == ASSUME NEW p \in Parsers, NEW x \in FreeStates
                PROVE  /\ SoundOutcome(Take(To(p, x)))
                       /\ ~p.failed => SoundOutcome(Again(To(p, x)))
                       /\ SoundOutcome(Mark(To(p, x)))
                       /\ \A c : SoundOutcome(Call(To(p, x), c))
                       /\ \A ok : SoundOutcome(Expect(p, ok, x))
  BY ToFree, OutcomeIsSound, FailIsSound DEF Take, Again, Mark, Call, Expect

\* s_start_req sets up the request before it looks at the method.
LEMMA StartReqIsSound ==
    ASSUME NEW p, NEW s, Sound(p), p.state = "start_req"
    PROVE  SoundOutcome(StartReq(p, s))
  <1> DEFINE begun == [p EXCEPT !.flags = {}, !.length = MaxUint]
             named == [begun EXCEPT !.state = "req_method", !.method = s]
  <1>1. begun \in Parsers
    BY Constant DEF Sound, Parsers
  <1>2. s \in Methods => named \in Parsers /\ named.state = "req_method"
    BY <1>1, FreeStatesAre DEF Parsers, FreeStates
  <1>3. SoundOutcome(Fail(begun))
    BY <1>1, FailIsSound
  <1>4. s \in Methods => SoundOutcome(Take(named))
    BY <1>2, Free, FreeStatesAre, OutcomeIsSound DEF Take
  <1>5. SoundOutcome(Take(p))
    BY Free, FreeStatesAre, OutcomeIsSound DEF Take, Sound
  <1> QED
    BY <1>3, <1>4, <1>5 DEF StartReq

\* A parser may stay where nothing is asserted.
LEMMA KeepFree == ASSUME NEW p, Sound(p), p.state \in FreeStates
                  PROVE  SoundOutcome(Take(p)) /\ SoundOutcome(Fail(p))
  BY Free, OutcomeIsSound, FailIsSound DEF Take, Sound

\* The cases that go on to one state, in which nothing is asserted, or fail.
LEMMA OneWayIsSound ==
    ASSUME NEW p, NEW s, Sound(p), p.state \in FreeStates
    PROVE  /\ SoundOutcome(Dead(p, s)) /\ SoundOutcome(ReqMethod(p, s))
           /\ SoundOutcome(HttpStart(p, s)) /\ SoundOutcome(HttpHT(p, s))
           /\ SoundOutcome(HttpHTTP(p, s)) /\ SoundOutcome(LineAlmostDone(p, s))
           /\ SoundOutcome(HeaderAlmostDone(p, s))
           /\ SoundOutcome(DiscardWsAlmostDone(p, s))
  BY TakeFree, KeepFree, FreeStatesAre
     DEF Dead, ReqMethod, HttpStart, HttpHT, HttpHTTP, LineAlmostDone, HeaderAlmostDone,
         DiscardWsAlmostDone, Sound

\* parse_url_char only gives states of the url, or s_dead.
LEMMA ParseUrlCharFree ==
    ASSUME NEW state, NEW s PROVE ParseUrlChar(state, s) \in FreeStates
  <1>1. Server(s) \in FreeStates
    BY FreeStatesAre DEF Server
  <1>2. InPath(s) \in FreeStates
    BY FreeStatesAre DEF InPath
  <1>3. InQuery(s) \in FreeStates
    BY FreeStatesAre DEF InQuery
  <1>4. state \in {"fragment_start", "fragment"} => InFragment(state, s) \in FreeStates
    BY FreeStatesAre DEF InFragment
  <1> QED
    BY <1>1, <1>2, <1>3, <1>4, FreeStatesAre DEF ParseUrlChar

\* s_req_spaces_before_url.
LEMMA SpacesBeforeUrlIsSound ==
    ASSUME NEW p, NEW s, Sound(p), p.state = "spaces_before_url"
    PROVE  SoundOutcome(SpacesBeforeUrl(p, s))
  BY TakeFree, KeepFree, FreeStatesAre, ParseUrlCharFree DEF SpacesBeforeUrl, Sound

\* s_req_schema up to s_req_server_start.
LEMMA UrlPrefixIsSound ==
    ASSUME NEW p, NEW s, Sound(p), p.state \in UrlStates
    PROVE  SoundOutcome(UrlPrefix(p, s))
  BY TakeFree, ParseUrlCharFree DEF UrlPrefix, Sound

\* s_req_server up to s_req_fragment; a request line without version is 0.9.
LEMMA UrlIsSound ==
    ASSUME NEW p, NEW s, Sound(p), p.state \in UrlStates
    PROVE  SoundOutcome(Url(p, s))
  <1>1. 0 \in 0..MaxVersion /\ 9 \in 0..MaxVersion
    BY MaxVersionAssumption
  <1>2. [p EXCEPT !.major = 0, !.minor = 9] \in Parsers
    BY <1>1 DEF Sound, Parsers
  <1> QED
    BY <1>2, UrlPrefixIsSound, TakeFree, FreeStatesAre DEF Url, Sound

\* A digit of the major version is refused or leaves it in range.
LEMMA MajorDigitIsSound ==
    ASSUME NEW p, Sound(p), NEW n \in Nat PROVE SoundOutcome(MajorDigit(p, n))
  <1> DEFINE q == [p EXCEPT !.major = n, !.state = "http_major"]
  <1>1. CASE n > MaxVersion
    BY <1>1, FailIsSound DEF MajorDigit, Sound
  <1>2. CASE ~(n > MaxVersion)
    <2>1. n \in 0..MaxVersion
      BY <1>2, MaxVersionAssumption
    <2>2. q \in Parsers /\ q.state = "http_major"
      BY <2>1, FreeStatesAre DEF Sound, Parsers, FreeStates
    <2> QED
      BY <1>2, <2>2, Free, FreeStatesAre, OutcomeIsSound DEF MajorDigit, Take
  <1> QED
    BY <1>1, <1>2

\* The same for the minor version.
LEMMA MinorDigitIsSound ==
    ASSUME NEW p, Sound(p), NEW n \in Nat PROVE SoundOutcome(MinorDigit(p, n))
  <1> DEFINE q == [p EXCEPT !.minor = n, !.state = "http_minor"]
  <1>1. CASE n > MaxVersion
    BY <1>1, FailIsSound DEF MinorDigit, Sound
  <1>2. CASE ~(n > MaxVersion)
    <2>1. n \in 0..MaxVersion
      BY <1>2, MaxVersionAssumption
    <2>2. q \in Parsers /\ q.state = "http_minor"
      BY <2>1, FreeStatesAre DEF Sound, Parsers, FreeStates
    <2> QED
      BY <1>2, <2>2, Free, FreeStatesAre, OutcomeIsSound DEF MinorDigit, Take
  <1> QED
    BY <1>1, <1>2

\* What a digit adds to a number.
LEMMA DigitValue ==
    ASSUME NEW s \in Digits
    PROVE  /\ Value[s] \in 0..2
           /\ \A n \in Nat : Longer(n, s) \in Nat /\ Longer(n, s) <= 10 * n + 2
           /\ \A n \in Nat : LongerHex(n, s) \in Nat /\ LongerHex(n, s) <= 16 * n + 2
  <1>1. Value[s] \in 0..2
    BY DEF Value, Digits
  <1> QED
    BY <1>1 DEF Longer, LongerHex

\* s_req_first_http_major.
LEMMA FirstHttpMajorIsSound ==
    ASSUME NEW p, NEW s, Sound(p), p.state = "first_http_major"
    PROVE  SoundOutcome(FirstHttpMajor(p, s))
  <1>1. s \in Digits => Value[s] \in Nat
    BY DigitValue
  <1> QED
    BY <1>1, MajorDigitIsSound, FailIsSound DEF FirstHttpMajor, Sound

\* s_req_first_http_minor.
LEMMA FirstHttpMinorIsSound ==
    ASSUME NEW p, NEW s, Sound(p), p.state = "first_http_minor"
    PROVE  SoundOutcome(FirstHttpMinor(p, s))
  <1>1. s \in Digits => Value[s] \in Nat
    BY DigitValue
  <1> QED
    BY <1>1, MinorDigitIsSound, FailIsSound DEF FirstHttpMinor, Sound

\* s_req_http_major.
LEMMA HttpMajorIsSound ==
    ASSUME NEW p, NEW s, Sound(p), p.state = "http_major"
    PROVE  SoundOutcome(HttpMajor(p, s))
  <1>1. p.major \in Nat
    BY MaxVersionAssumption DEF Sound, Parsers
  <1>2. s \in Digits => Longer(p.major, s) \in Nat
    BY <1>1, DigitValue
  <1> QED
    BY <1>2, MajorDigitIsSound, TakeFree, FreeStatesAre, FailIsSound DEF HttpMajor, Sound

\* s_req_http_minor.
LEMMA HttpMinorIsSound ==
    ASSUME NEW p, NEW s, Sound(p), p.state = "http_minor"
    PROVE  SoundOutcome(HttpMinor(p, s))
  <1>1. p.minor \in Nat
    BY MaxVersionAssumption DEF Sound, Parsers
  <1>2. s \in Digits => Longer(p.minor, s) \in Nat
    BY <1>1, DigitValue
  <1> QED
    BY <1>2, MinorDigitIsSound, TakeFree, FreeStatesAre, FailIsSound DEF HttpMinor, Sound

\* While a name is read header_state only takes values the switch of
\* s_header_field knows.
LEMMA FieldStatesAre ==
    ASSUME NEW hs, NEW s
    PROVE  NameBegins(s) \in FieldStates /\ NameGoesOn(hs, s) \in FieldStates
  BY DEF NameBegins, NameGoesOn, FieldStates

\* A parser that reads a name is sound if its header_state is one of these.
LEMMA HeaderFieldFits ==
    ASSUME NEW p \in Parsers, NEW hs \in FieldStates
    PROVE  SoundOutcome(Take([p EXCEPT !.state = "header_field", !.hs = hs]))
  <1> DEFINE q == [p EXCEPT !.state = "header_field", !.hs = hs]
  <1>1. q \in Parsers /\ q.state = "header_field" /\ q.hs = hs
    BY DEF Parsers, States
  <1>2. Sound(q) /\ q.state # "chunk_size_start"
    BY <1>1 DEF Sound, ChunkStates, LengthStates
  <1> QED
    BY <1>2, OutcomeIsSound DEF Take

\* s_header_field_start.
LEMMA HeaderFieldStartIsSound ==
    ASSUME NEW p, NEW s, Sound(p), ~p.failed, p.state = "header_field_start"
    PROVE  SoundOutcome(HeaderFieldStart(p, s))
  BY TakeFree, FreeStatesAre, FailIsSound, FieldStatesAre, HeaderFieldFits DEF HeaderFieldStart, Sound

\* s_header_field.
LEMMA HeaderFieldIsSound ==
    ASSUME NEW p, NEW s, Sound(p), p.state = "header_field"
    PROVE  SoundOutcome(HeaderField(p, s))
  <1>1. SoundOutcome(Take([p EXCEPT !.hs = NameGoesOn(p.hs, s)]))
    <2>1. [p EXCEPT !.hs = NameGoesOn(p.hs, s)]
            = [p EXCEPT !.state = "header_field", !.hs = NameGoesOn(p.hs, s)]
      BY DEF Sound, Parsers
    <2> QED
      BY <2>1, FieldStatesAre, HeaderFieldFits DEF Sound
  <1> QED
    BY <1>1, TakeFree, FreeStatesAre, FailIsSound DEF HeaderField, Sound

\* While a value is read header_state only takes values the switch of
\* s_header_value knows.
LEMMA ValueStatesAre ==
    /\ \A x \in {"general", "content_length", "matching_chunked", "chunked", "token_start", "token",
        "matching_keep_alive", "matching_close", "matching_upgrade_option",
        "keep_alive", "close", "upgrade_option"} : x \in ValueStates
    /\ \A s : OptionBegins(s) \in ValueStates
    /\ \A s : \A hs \in {"token_start", "matching_keep_alive", "matching_close",
                         "matching_upgrade_option", "token"} : InOption(hs, s) \in ValueStates
  <1>1. \A s : OptionBegins(s) \in ValueStates
    BY DEF OptionBegins, ValueStates
  <1>2. ASSUME NEW s, NEW hs \in {"token_start", "matching_keep_alive", "matching_close",
                         "matching_upgrade_option", "token"}
        PROVE  InOption(hs, s) \in ValueStates
    BY <1>1 DEF InOption, ValueStates
  <1> QED
    BY <1>1, <1>2 DEF ValueStates

\* A parser that reads a value is sound if its header_state is one of these.
LEMMA HeaderValueFits ==
    ASSUME NEW p \in Parsers, p.state = "header_value", p.hs \in ValueStates
    PROVE  Sound(p) /\ SoundOutcome(Take(p))
  <1>1. Sound(p) /\ p.state # "chunk_size_start"
    BY DEF Sound, ChunkStates, LengthStates
  <1> QED
    BY <1>1, OutcomeIsSound DEF Take

\* Setting a flag changes the flags and nothing else.
LEMMA FlagFits ==
    ASSUME NEW p \in Parsers, NEW f \in Flags
    PROVE  /\ Flag(p, f) \in Parsers /\ Flag(p, f).state = p.state
           /\ Flag(p, f).hs = p.hs /\ Flag(p, f).length = p.length
           /\ Flag(p, f).failed = p.failed /\ Flag(p, f).flags = p.flags \cup {f}
  BY DEF Flag, Parsers

\* Setting header_state changes nothing else.
LEMMA HsFits ==
    ASSUME NEW p \in Parsers, NEW hs \in FieldStates \cup ValueStates
   
   PROVE  /\ [p EXCEPT !.hs = hs] \in Parsers /\ [p EXCEPT !.hs = hs].state = p.state
           /\ [p EXCEPT !.hs = hs].hs = hs
  BY DEF Parsers

\* Setting content_length changes nothing else.
LEMMA LengthFits ==
    ASSUME NEW p \in Parsers, NEW n \in 0..MaxUint
   
   PROVE  /\ [p EXCEPT !.length = n] \in Parsers /\ [p EXCEPT !.length = n].state = p.state
           /\ [p EXCEPT !.length = n].hs = p.hs /\ [p EXCEPT !.length = n].length = n
           /\ [p EXCEPT !.length = n].flags = p.flags
           /\ [p EXCEPT !.length = n].failed = p.failed
           /\ [p EXCEPT !.length = n].nread = p.nread
  BY DEF Parsers

\* One digit is in range, and below the value that means none was given.
LEMMA ValueIsLength ==
    ASSUME NEW s \in Digits
    PROVE  Value[s] \in 0..MaxUint /\ Value[s] # MaxUint
  <1>1. Value[s] \in 0..2
    BY DigitValue
  <1> QED
    BY <1>1, MaxUintAssumption

\* The names of the flags.
LEMMA FlagsAre == \A x \in {"CHUNKED", "KEEP_ALIVE", "CLOSE", "CONNECTION_UPGRADE", "TRAILING",
                          "UPGRADE", "CONTENTLENGTH"} : x \in Flags
  BY DEF Flags

\* The first digit of Content-Length.
LEMMA FirstDigitIsSound ==
    ASSUME NEW p \in Parsers, NEW s, p.state = "header_value", p.hs = "content_length"
    PROVE  SoundOutcome(FirstDigit(p, s))
  <1> DEFINE q == Flag(p, "CONTENTLENGTH")
  <1>1. q \in Parsers /\ q.state = "header_value" /\ q.hs = "content_length"
    BY FlagFits, FlagsAre
  <1>2. ASSUME s \in Digits PROVE SoundOutcome(Take([q EXCEPT !.length = Value[s]]))
    <2> DEFINE r == [q EXCEPT !.length = Value[s]]
    <2>1. Value[s] \in 0..MaxUint
      BY <1>2, ValueIsLength
    <2>2. r \in Parsers /\ r.state = "header_value" /\ r.hs = "content_length"
      BY <1>1, <2>1, LengthFits
    <2> QED
      BY <2>2, HeaderValueFits, ValueStatesAre
  <1> QED
    BY <1>2, FailIsSound DEF FirstDigit

\* s_header_value_start, from whatever header it is entered.
LEMMA HeaderValueStartIsSound ==
    ASSUME NEW p, NEW s, Sound(p) PROVE SoundOutcome(HeaderValueStart(p, s))
  <1> DEFINE q == To(p, "header_value")
  <1>1. q \in Parsers /\ q.state = "header_value" /\ q.hs = p.hs
    BY DEF Sound, Parsers, To, States
  <1>2. \A hs \in ValueStates : SoundOutcome(Take([q EXCEPT !.hs = hs]))
    BY <1>1, HsFits, HeaderValueFits
  <1>3. SoundOutcome(Take([Flag(q, "UPGRADE") EXCEPT !.hs = "general"]))
    <2> DEFINE r == Flag(q, "UPGRADE")
    <2>1. r \in Parsers /\ r.state = "header_value"
      BY <1>1, FlagFits, FlagsAre
    <2>2. /\ [r EXCEPT !.hs = "general"] \in Parsers
          /\ [r EXCEPT !.hs = "general"].state = "header_value"
          /\ [r EXCEPT !.hs = "general"].hs = "general"
      BY <2>1, HsFits, ValueStatesAre
    <2> QED
      BY <2>2, HeaderValueFits, ValueStatesAre
  <1>4. p.hs = "content_length" => SoundOutcome(FirstDigit(q, s))
    BY <1>1, FirstDigitIsSound
  <1>5. p.hs = "token_start" => SoundOutcome(Take(q))
    BY <1>1, HeaderValueFits, ValueStatesAre
  <1> QED
    BY <1>2, <1>3, <1>4, <1>5, ValueStatesAre DEF HeaderValueStart

\* s_header_value_discard_ws, which falls through to it.
LEMMA HeaderValueDiscardWsIsSound ==
    ASSUME NEW p, NEW s, Sound(p), p.state = "header_value_discard_ws"
    PROVE  SoundOutcome(HeaderValueDiscardWs(p, s))
  BY HeaderValueStartIsSound, TakeFree, KeepFree, FreeStatesAre DEF HeaderValueDiscardWs, Sound

\* The flags earned at the end of a value change nothing else.
LEMMA EarnedFits ==
    ASSUME NEW p \in Parsers
   
   PROVE  /\ Earned(p) \in Parsers /\ Earned(p).state = p.state /\ Earned(p).hs = p.hs
           /\ Earned(p).failed = p.failed
  BY FlagFits, FlagsAre DEF Earned

\* A further digit of Content-Length does not overflow, though the code
\* tests the value before it adds the digit.
LEMMA MoreDigitsIsSound ==
    ASSUME NEW p \in Parsers, NEW s, p.state = "header_value", p.hs = "content_length"
    PROVE  SoundOutcome(MoreDigits(p, s))
  <1>1. SoundOutcome(Take(p)) /\ SoundOutcome(Fail(p))
    BY HeaderValueFits, ValueStatesAre, FailIsSound
  <1>2. ASSUME s \in Digits, (MaxUint - 10) \div 10 >= p.length
        PROVE  SoundOutcome(Take([p EXCEPT !.length = Longer(p.length, s)]))
    <2> DEFINE n == Longer(p.length, s)
    <2>1. p.length \in Nat
      BY MaxUintAssumption DEF Parsers
    <2>2. n \in Nat /\ n <= 10 * p.length + 2
      BY <2>1, <1>2, DigitValue
    <2>3. 10 * p.length <= MaxUint - 10
      BY <1>2, <2>1, MaxUintAssumption
    <2>4. n \in 0..MaxUint
      BY <2>1, <2>2, <2>3, MaxUintAssumption
    <2> HIDE DEF n
    <2>5. /\ [p EXCEPT !.length = n] \in Parsers
          /\ [p EXCEPT !.length = n].state = "header_value"
          /\ [p EXCEPT !.length = n].hs = "content_length"
      BY <2>4, LengthFits
    <2>6. SoundOutcome(Take([p EXCEPT !.length = n]))
      BY <2>5, HeaderValueFits, ValueStatesAre
    <2> QED
      BY <2>6 DEF n
  <1> QED
    BY <1>1, <1>2 DEF MoreDigits

\* s_header_value, within a value.
LEMMA HeaderValueCharIsSound ==
    ASSUME NEW p \in Parsers, NEW s, p.state = "header_value", p.hs \in ValueStates
    PROVE  SoundOutcome(HeaderValueChar(p, s))
  <1>1. SoundOutcome(Take(p))
    BY HeaderValueFits
  <1>2. ASSUME NEW hs \in ValueStates PROVE SoundOutcome(Take([p EXCEPT !.hs = hs]))
    BY HsFits, HeaderValueFits
  <1>3. SoundOutcome(Take([Earned(p) EXCEPT !.hs = "token_start"]))
    <2> DEFINE q == Earned(p)
    <2>1. q \in Parsers /\ q.state = "header_value"
      BY EarnedFits
    <2> HIDE DEF q
    <2>2. /\ [q EXCEPT !.hs = "token_start"] \in Parsers
          /\ [q EXCEPT !.hs = "token_start"].state = "header_value"
          /\ [q EXCEPT !.hs = "token_start"].hs = "token_start"
      BY <2>1, HsFits, ValueStatesAre
    <2>3. SoundOutcome(Take([q EXCEPT !.hs = "token_start"]))
      BY <2>2, HeaderValueFits, ValueStatesAre
    <2> QED
      BY <2>3 DEF q
  <1>4. CASE p.hs = "general"
    BY <1>1, <1>4 DEF HeaderValueChar
  <1>5. CASE p.hs = "content_length"
    BY <1>5, MoreDigitsIsSound DEF HeaderValueChar
  <1>6. CASE p.hs \in {"matching_chunked", "chunked"}
    BY <1>2, <1>6, ValueStatesAre DEF HeaderValueChar
  <1>7. CASE p.hs \in {"keep_alive", "close", "upgrade_option"}
    BY <1>1, <1>2, <1>3, <1>7, ValueStatesAre DEF HeaderValueChar
  <1>8. CASE p.hs \in {"token_start", "matching_keep_alive", "matching_close",
                       "matching_upgrade_option", "token"}
    <2>1. InOption(p.hs, s) \in ValueStates
      BY <1>8, ValueStatesAre
    <2>2. HeaderValueChar(p, s) = Take([p EXCEPT !.hs = InOption(p.hs, s)])
      BY <1>8 DEF HeaderValueChar
    <2> QED
      BY <1>2, <2>1, <2>2
  <1> QED
    BY <1>4, <1>5, <1>6, <1>7, <1>8 DEF ValueStates

\* s_header_value.
LEMMA HeaderValueIsSound ==
    ASSUME NEW p, NEW s, Sound(p), ~p.failed, p.state = "header_value"
    PROVE  SoundOutcome(HeaderValue(p, s))
  <1>1. p \in Parsers /\ p.hs \in ValueStates
    BY DEF Sound
  <1> QED
    BY <1>1, HeaderValueCharIsSound, TakeFree, FreeStatesAre DEF HeaderValue

\* s_header_value_lws.
LEMMA HeaderValueLwsIsSound ==
    ASSUME NEW p, NEW s, Sound(p), ~p.failed, p.state = "header_value_lws"
    PROVE  SoundOutcome(HeaderValueLws(p, s))
  <1>1. p \in Parsers /\ Earned(p) \in Parsers /\ ~Earned(p).failed
    BY EarnedFits DEF Sound
  <1> QED
    BY <1>1, TakeFree, FreeStatesAre DEF HeaderValueLws

\* s_header_value_discard_lws.
LEMMA DiscardLwsIsSound ==
    ASSUME NEW p, NEW s, Sound(p), ~p.failed, p.state = "header_value_discard_lws"
    PROVE  SoundOutcome(DiscardLws(p, s))
  <1>1. p \in Parsers /\ Earned(p) \in Parsers /\ ~Earned(p).failed
    BY EarnedFits DEF Sound
  <1> QED
    BY <1>1, TakeFree, FreeStatesAre DEF DiscardLws

\* s_headers_almost_done.
LEMMA HeadersAlmostDoneIsSound ==
    ASSUME NEW p, NEW s, Sound(p), ~p.failed, p.state = "headers_almost_done"
    PROVE  SoundOutcome(HeadersAlmostDone(p, s))
  <1> DEFINE up == \/ {"UPGRADE", "CONNECTION_UPGRADE"} \subseteq p.flags
                   \/ p.method = "CONNECT"
             q == [p EXCEPT !.state = "headers_done", !.upgrade = up]
  <1>1. up \in BOOLEAN
    OBVIOUS
  <1> HIDE DEF up
  <1>2. q \in Parsers /\ q.state = "headers_done" /\ ~q.failed
    BY <1>1, FreeStatesAre DEF Sound, Parsers, FreeStates
  <1>3. SoundOutcome(Again(q))
    BY <1>2, Free, FreeStatesAre, OutcomeIsSound DEF Again
  <1> QED
    BY <1>3, KeepFree, TakeFree, FreeStatesAre DEF HeadersAlmostDone, Sound, up

\* Setting nread changes nothing else.
LEMMA CountedFits ==
    ASSUME NEW p \in Parsers, NEW b \in 0..MaxHeaderSize
    PROVE  /\ [p EXCEPT !.nread = b] \in Parsers
           /\ [p EXCEPT !.nread = b].state = p.state /\ [p EXCEPT !.nread = b].hs = p.hs
           /\ [p EXCEPT !.nread = b].flags = p.flags
           /\ [p EXCEPT !.nread = b].length = p.length
           /\ [p EXCEPT !.nread = b].failed = p.failed
           /\ [p EXCEPT !.nread = b].nread = b
  BY DEF Parsers

\* After a message the parser is at the start, or dead.
LEMMA CompleteIsSound == ASSUME NEW p \in Parsers PROVE SoundOutcome(Complete(p))
  BY ToFree, FreeStatesAre, OutcomeIsSound DEF Complete, Call, NewMessage

\* Going to a state changes nothing else.
LEMMA ToFits ==
    ASSUME NEW p \in Parsers, NEW x \in States
    PROVE  /\ To(p, x) \in Parsers /\ To(p, x).state = x /\ To(p, x).hs = p.hs
           /\ To(p, x).flags = p.flags /\ To(p, x).length = p.length
           /\ To(p, x).failed = p.failed /\ To(p, x).nread = p.nread
  BY DEF To, Parsers

\* What makes a parser within a chunked body sound.
LEMMA ChunkIsSound ==
    ASSUME NEW p \in Parsers, "CHUNKED" \in p.flags, p.state \in ChunkStates,
           p.state \in LengthStates => p.length # MaxUint,
           p.state = "chunk_data" => p.length \notin {0, MaxUint},
           p.state = "chunk_data_almost_done" => p.length = 0,
           p.state = "chunk_size_start" => p.nread = 0
    PROVE  SoundOutcome(Take(p))
  BY DEF SoundOutcome, Sound, Take, Outcome, ChunkStates

\* Going on within a chunked body.
LEMMA ToChunk ==
    ASSUME NEW p \in Parsers, "CHUNKED" \in p.flags, NEW x \in ChunkStates,
           x \in LengthStates => p.length # MaxUint,
           x = "chunk_data" => p.length \notin {0, MaxUint},
           x = "chunk_data_almost_done" => p.length = 0,
           x = "chunk_size_start" => p.nread = 0
    PROVE  SoundOutcome(Take(To(p, x)))
  <1>1. x \in States
    BY DEF States
  <1> DEFINE q == To(p, x)
  <1>2. /\ q \in Parsers /\ q.state = x /\ q.flags = p.flags
        /\ q.length = p.length /\ q.nread = p.nread
    BY <1>1, ToFits
  <1> HIDE DEF q
  <1>3. SoundOutcome(Take(q))
    BY <1>2, ChunkIsSound
  <1> QED
    BY <1>3 DEF q

\* What makes a parser within a body of known length sound.
LEMMA BodyIsSound ==
    ASSUME NEW p \in Parsers, p.state = "body_identity", p.length \notin {0, MaxUint}
    PROVE  SoundOutcome(Take(p))
  BY DEF SoundOutcome, Sound, Take, Outcome, ChunkStates, LengthStates

\* s_headers_done enters a body only if there is one.
LEMMA HeadersDoneIsSound ==
    ASSUME NEW p, NEW s, Sound(p), ~p.failed, p.state = "headers_done"
    PROVE  SoundOutcome(HeadersDone(p, s))
  <1> DEFINE q == [p EXCEPT !.nread = 0]
  <1>1. q \in Parsers /\ q.flags = p.flags /\ q.length = p.length /\ q.nread = 0
    BY CountedFits, Constant DEF Sound
  <1> HIDE DEF q
  <1>2. SoundOutcome(Complete(q)) /\ SoundOutcome(Fail(p))
    BY <1>1, CompleteIsSound, FailIsSound DEF Sound
  <1>3. ASSUME "CHUNKED" \in p.flags
  PROVE  SoundOutcome(Take(To(q, "chunk_size_start")))
    <2>1. "chunk_size_start" \in ChunkStates /\ "chunk_size_start" \in States
          /\ "chunk_size_start" \notin LengthStates
      BY DEF ChunkStates, States, LengthStates
    <2> QED
      BY <1>1, <1>3, <2>1, ToFits, ChunkIsSound
  <1>4. ASSUME "CHUNKED" \notin p.flags, HasBody(p)
  PROVE  SoundOutcome(Take(To(q, "body_identity")))
    <2>1. "body_identity" \in States
      BY DEF States, BodyStates
    <2>2. p.length \notin {0, MaxUint}
      BY <1>4 DEF HasBody
    <2> QED
      BY <1>1, <2>1, <2>2, ToFits, BodyIsSound
  <1>5. CASE HasBody(p)
    BY <1>2, <1>3, <1>4, <1>5 DEF HeadersDone, q
  <1>6. CASE ~HasBody(p)
    BY <1>2, <1>6 DEF HeadersDone, q
  <1> QED
    BY <1>5, <1>6

\* The states of a url that Case names.
LEMMA UrlStatesAre ==
    /\ {"schema", "schema_slash", "schema_slash_slash", "server_start"} \subseteq UrlStates
    /\ {"server", "server_with_at", "path", "query_string_start", "query_string",
        "fragment_start", "fragment"} \subseteq UrlStates
  BY DEF UrlStates

\* A byte of the body less: the length stays in range.
LEMMA OneLess ==
    ASSUME NEW p \in Parsers, p.length \notin {0, MaxUint}
    PROVE  /\ p.length - 1 \in 0..MaxUint /\ p.length - 1 # MaxUint
  <1>1. p.length \in 0..MaxUint
    BY DEF Parsers
  <1> QED
    BY <1>1, MaxUintAssumption

\* s_body_identity.
LEMMA BodyIdentityIsSound ==
    ASSUME NEW p, NEW s, Sound(p), ~p.failed, p.state = "body_identity"
    PROVE  SoundOutcome(BodyIdentity(p, s))
  <1> DEFINE n == p.length - 1
             q == [p EXCEPT !.length = n]
  <1>1. n \in 0..MaxUint /\ n # MaxUint
    BY OneLess DEF Sound
  <1> HIDE DEF n
  <1>2. q \in Parsers /\ q.state = "body_identity" /\ q.length = n /\ ~q.failed
    BY <1>1, LengthFits DEF Sound
  <1> HIDE DEF q
  <1>3. q.length = 0 => SoundOutcome(Again(To(q, "message_done")))
    BY <1>2, TakeFree, FreeStatesAre
  <1>4. q.length # 0 => SoundOutcome(Take(q))
    BY <1>1, <1>2, BodyIsSound
  <1> QED
    BY <1>3, <1>4 DEF BodyIdentity, q, n

\* s_message_done.
LEMMA MessageDoneIsSound ==
    ASSUME NEW p, NEW s, Sound(p), ~p.failed, p.state = "message_done"
    PROVE  SoundOutcome(MessageDone(p, s))
  BY CompleteIsSound DEF MessageDone, Sound

\* The states of a chunked body.
LEMMA ChunkStatesAre ==
    /\ \A x \in ChunkStates : x \in States
    /\ LengthStates \subseteq ChunkStates
    /\ \A x \in {"chunk_size_start", "chunk_data", "chunk_data_almost_done", "chunk_data_done"} :
          x \in ChunkStates /\ x \notin LengthStates
    /\ \A x \in {"chunk_size", "chunk_parameters", "chunk_size_almost_done"} :
          x \in ChunkStates /\ x \in LengthStates
  BY DEF ChunkStates, States, LengthStates

\* s_chunk_size_start.
LEMMA ChunkSizeStartIsSound ==
    ASSUME NEW p, NEW s, Sound(p), ~p.failed, p.state = "chunk_size_start"
    PROVE  SoundOutcome(ChunkSizeStart(p, s))
  <1>1. ASSUME s \in Digits
       
       PROVE  SoundOutcome(Take([p EXCEPT !.length = Value[s], !.state = "chunk_size"]))
    <2> DEFINE q == [p EXCEPT !.length = Value[s], !.state = "chunk_size"]
    <2>1. Value[s] \in 0..MaxUint /\ Value[s] # MaxUint
      BY <1>1, ValueIsLength
    <2>2. q \in Parsers /\ q.state = "chunk_size" /\ q.length = Value[s] /\ q.flags = p.flags
      BY <2>1, ChunkStatesAre DEF Sound, Parsers
    <2> HIDE DEF q
    <2>3. "CHUNKED" \in q.flags
      BY <2>2, ChunkStatesAre DEF Sound
    <2>4. SoundOutcome(Take(q))
      BY <2>1, <2>2, <2>3, ChunkStatesAre, ChunkIsSound
    <2> QED
      BY <2>4 DEF q
  <1> QED
    BY <1>1, FailIsSound DEF ChunkSizeStart, Sound

\* Within the line that gives a chunk's size.
LEMMA ChunkGoesOn ==
    ASSUME NEW p, Sound(p), ~p.failed, p.state \in LengthStates, NEW x \in LengthStates
   
   PROVE  SoundOutcome(Take(To(p, x))) /\ SoundOutcome(Take(p)) /\ SoundOutcome(Fail(p))
  <1>1. /\ p \in Parsers /\ "CHUNKED" \in p.flags /\ p.length # MaxUint
        /\ p.state \in ChunkStates /\ x \in ChunkStates /\ x \in States
    BY ChunkStatesAre DEF Sound
  <1>2. /\ To(p, x) \in Parsers /\ To(p, x).state = x
        /\ To(p, x).flags = p.flags /\ To(p, x).length = p.length
    BY <1>1, ToFits
  <1>3. \A y \in LengthStates : y \notin {"chunk_data", "chunk_data_almost_done", "chunk_size_start"}
    BY DEF LengthStates
  <1>4. SoundOutcome(Take(To(p, x)))
    BY <1>1, <1>2, <1>3, ChunkIsSound
  <1>5. SoundOutcome(Take(p))
    BY <1>1, <1>3, ChunkIsSound
  <1> QED
    BY <1>1, <1>4, <1>5, FailIsSound

\* s_chunk_size: the size does not overflow, though the code tests the
\* value before it adds the digit.
LEMMA ChunkSizeIsSound ==
    ASSUME NEW p, NEW s, Sound(p), ~p.failed, p.state = "chunk_size"
    PROVE  SoundOutcome(ChunkSize(p, s))
  <1>1. /\ p \in Parsers /\ "CHUNKED" \in p.flags /\ p.length # MaxUint
    BY ChunkStatesAre DEF Sound
  <1>2. ASSUME s \in Digits, (MaxUint - 16) \div 16 >= p.length
        PROVE  SoundOutcome(Take([p EXCEPT !.length = LongerHex(p.length, s)]))
    <2> DEFINE n == LongerHex(p.length, s)
    <2>1. p.length \in Nat
      BY <1>1, MaxUintAssumption DEF Parsers
    <2>2. n \in Nat /\ n <= 16 * p.length + 2
      BY <2>1, <1>2, DigitValue
    <2>3. 16 * p.length <= MaxUint - 16
      BY <1>2, <2>1, MaxUintAssumption
    <2>4. n \in 0..MaxUint /\ n # MaxUint
      BY <2>1, <2>2, <2>3, MaxUintAssumption
    <2> HIDE DEF n
    <2> DEFINE q == [p EXCEPT !.length = n]
    <2>5. /\ q \in Parsers /\ q.state = "chunk_size" /\ q.length = n /\ q.flags = p.flags
      BY <1>1, <2>4, LengthFits
    <2> HIDE DEF q
    <2>6. SoundOutcome(Take(q))
      BY <1>1, <2>4, <2>5, ChunkStatesAre, ChunkIsSound
    <2> QED
      BY <2>6 DEF n, q
  <1> QED
    BY <1>2, ChunkGoesOn, ChunkStatesAre DEF ChunkSize

\* s_chunk_parameters.
LEMMA ChunkParametersIsSound ==
    ASSUME NEW p, NEW s, Sound(p), ~p.failed, p.state = "chunk_parameters"
    PROVE  SoundOutcome(ChunkParameters(p, s))
  BY ChunkGoesOn, ChunkStatesAre DEF ChunkParameters

\* s_chunk_size_almost_done: a chunk of no bytes is the last one.
LEMMA ChunkSizeAlmostDoneIsSound ==
    ASSUME NEW p, NEW s, Sound(p), ~p.failed, p.state = "chunk_size_almost_done"
    PROVE  SoundOutcome(ChunkSizeAlmostDone(p, s))
  <1> DEFINE q == [p EXCEPT !.nread = 0]
  <1>1. /\ p \in Parsers /\ "CHUNKED" \in p.flags /\ p.length # MaxUint
    BY ChunkStatesAre DEF Sound
  <1>2. q \in Parsers /\ q.flags = p.flags /\ q.length = p.length
    BY <1>1, CountedFits, Constant
  <1> HIDE DEF q
  <1>3. SoundOutcome(Take(To(Flag(q, "TRAILING"), "header_field_start")))
    BY <1>2, FlagFits, FlagsAre, TakeFree, FreeStatesAre
  <1>4. p.length # 0 => SoundOutcome(Take(To(q, "chunk_data")))
    BY <1>1, <1>2, ChunkStatesAre, ToChunk
  <1> QED
    BY <1>1, <1>3, <1>4, FailIsSound DEF ChunkSizeAlmostDone, q

\* s_chunk_data.
LEMMA ChunkDataIsSound ==
    ASSUME NEW p, NEW s, Sound(p), ~p.failed, p.state = "chunk_data"
    PROVE  SoundOutcome(ChunkData(p, s))
  <1> DEFINE n == p.length - 1
             q == [p EXCEPT !.length = n]
  <1>1. /\ p \in Parsers /\ "CHUNKED" \in p.flags
    BY ChunkStatesAre DEF Sound
  <1>2. n \in 0..MaxUint /\ n # MaxUint
    BY OneLess DEF Sound
  <1> HIDE DEF n
  <1>3. q \in Parsers /\ q.state = "chunk_data" /\ q.length = n /\ q.flags = p.flags
    BY <1>1, <1>2, LengthFits
  <1> HIDE DEF q
  <1>4. q.length # 0 => SoundOutcome(Take(q))
    BY <1>1, <1>2, <1>3, ChunkStatesAre, ChunkIsSound
  <1>5. q.length = 0 => SoundOutcome(Take(To(q, "chunk_data_almost_done")))
    BY <1>1, <1>3, ChunkStatesAre, ToChunk
  <1> QED
    BY <1>4, <1>5 DEF ChunkData, q, n

\* s_chunk_data_almost_done.
LEMMA ChunkDataAlmostDoneIsSound ==
    ASSUME NEW p, NEW s, Sound(p), ~p.failed, p.state = "chunk_data_almost_done"
    PROVE  SoundOutcome(ChunkDataAlmostDone(p, s))
  <1>1. /\ p \in Parsers /\ "CHUNKED" \in p.flags
    BY ChunkStatesAre DEF Sound
  <1>2. SoundOutcome(Take(To(p, "chunk_data_done")))
    BY <1>1, ChunkStatesAre, ToChunk
  <1> QED
    BY <1>1, <1>2, FailIsSound DEF ChunkDataAlmostDone, Expect

\* s_chunk_data_done sets nread to 0 for the next chunk.
LEMMA ChunkDataDoneIsSound ==
    ASSUME NEW p, NEW s, Sound(p), ~p.failed, p.state = "chunk_data_done"
    PROVE  SoundOutcome(ChunkDataDone(p, s))
  <1> DEFINE q == [p EXCEPT !.state = "chunk_size_start", !.nread = 0]
  <1>1. /\ p \in Parsers /\ "CHUNKED" \in p.flags
    BY ChunkStatesAre DEF Sound
  <1>2. /\ q \in Parsers /\ q.state = "chunk_size_start" /\ q.flags = p.flags
        /\ q.nread = 0
    BY <1>1, ChunkStatesAre, Constant DEF Parsers
  <1> HIDE DEF q
  <1>3. SoundOutcome(Take(q))
    BY <1>1, <1>2, ChunkStatesAre, ChunkIsSound
  <1> QED
    BY <1>1, <1>3, FailIsSound DEF ChunkDataDone, q

\* Every case of the switch leaves a sound parser if it found one.
LEMMA CaseIsSound ==
    ASSUME NEW p, NEW s, Sound(p), ~p.failed PROVE SoundOutcome(Case(p, s))
  <1>1. CASE p.state = "dead"
    BY <1>1, OneWayIsSound, FreeStatesAre DEF Case
  <1>2. CASE p.state = "start_req"
    BY <1>2, StartReqIsSound DEF Case
  <1>3. CASE p.state = "req_method"
    BY <1>3, OneWayIsSound, FreeStatesAre DEF Case
  <1>4. CASE p.state = "spaces_before_url"
    BY <1>4, SpacesBeforeUrlIsSound DEF Case
  <1>5. CASE p.state \in {"schema", "schema_slash", "schema_slash_slash", "server_start"}
    BY <1>5, UrlPrefixIsSound, UrlStatesAre DEF Case
  <1>6. CASE p.state \in {"server", "server_with_at", "path", "query_string_start", "query_string", "fragment_start", "fragment"}
    BY <1>6, UrlIsSound, UrlStatesAre DEF Case
  <1>7. CASE p.state = "http_start"
    BY <1>7, OneWayIsSound, FreeStatesAre DEF Case
  <1>8. CASE p.state = "http_HT"
    BY <1>8, OneWayIsSound, FreeStatesAre DEF Case
  <1>9. CASE p.state = "http_HTTP"
    BY <1>9, OneWayIsSound, FreeStatesAre DEF Case
  <1>10. CASE p.state = "first_http_major"
    BY <1>10, FirstHttpMajorIsSound DEF Case
  <1>11. CASE p.state = "http_major"
    BY <1>11, HttpMajorIsSound DEF Case
  <1>12. CASE p.state = "first_http_minor"
    BY <1>12, FirstHttpMinorIsSound DEF Case
  <1>13. CASE p.state = "http_minor"
    BY <1>13, HttpMinorIsSound DEF Case
  <1>14. CASE p.state = "line_almost_done"
    BY <1>14, OneWayIsSound, FreeStatesAre DEF Case
  <1>15. CASE p.state = "header_field_start"
    BY <1>15, HeaderFieldStartIsSound DEF Case
  <1>16. CASE p.state = "header_field"
    BY <1>16, HeaderFieldIsSound DEF Case
  <1>17. CASE p.state = "header_value_discard_ws"
    BY <1>17, HeaderValueDiscardWsIsSound DEF Case
  <1>18. CASE p.state = "header_value_start"
    BY <1>18, HeaderValueStartIsSound DEF Case
  <1>19. CASE p.state = "header_value"
    BY <1>19, HeaderValueIsSound DEF Case
  <1>20. CASE p.state = "header_almost_done"
    BY <1>20, OneWayIsSound, FreeStatesAre DEF Case
  <1>21. CASE p.state = "header_value_lws"
    BY <1>21, HeaderValueLwsIsSound DEF Case
  <1>22. CASE p.state = "header_value_discard_ws_almost_done"
    BY <1>22, OneWayIsSound, FreeStatesAre DEF Case
  <1>23. CASE p.state = "header_value_discard_lws"
    BY <1>23, DiscardLwsIsSound DEF Case
  <1>24. CASE p.state = "headers_almost_done"
    BY <1>24, HeadersAlmostDoneIsSound DEF Case
  <1>25. CASE p.state = "headers_done"
    BY <1>25, HeadersDoneIsSound DEF Case
  <1>26. CASE p.state = "body_identity"
    BY <1>26, BodyIdentityIsSound DEF Case
  <1>27. CASE p.state = "message_done"
    BY <1>27, MessageDoneIsSound DEF Case
  <1>28. CASE p.state = "chunk_size_start"
    BY <1>28, ChunkSizeStartIsSound DEF Case
  <1>29. CASE p.state = "chunk_size"
    BY <1>29, ChunkSizeIsSound DEF Case
  <1>30. CASE p.state = "chunk_parameters"
    BY <1>30, ChunkParametersIsSound DEF Case
  <1>31. CASE p.state = "chunk_size_almost_done"
    BY <1>31, ChunkSizeAlmostDoneIsSound DEF Case
  <1>32. CASE p.state = "chunk_data"
    BY <1>32, ChunkDataIsSound DEF Case
  <1>33. CASE p.state = "chunk_data_almost_done"
    BY <1>33, ChunkDataAlmostDoneIsSound DEF Case
  <1>34. CASE p.state = "chunk_data_done"
    BY <1>34, ChunkDataDoneIsSound DEF Case
  <1> QED
    BY <1>1, <1>2, <1>3, <1>4, <1>5, <1>6, <1>7, <1>8, <1>9, <1>10, <1>11, <1>12, <1>13, <1>14, <1>15, <1>16, <1>17, <1>18, <1>19, <1>20, <1>21, <1>22, <1>23, <1>24, <1>25, <1>26, <1>27, <1>28, <1>29, <1>30, <1>31, <1>32, <1>33, <1>34
       DEF Sound, Parsers, States, UrlStates, ChunkStates, BodyStates

\* Looking at the byte once more does, too.
LEMMA LookIsSound ==
    ASSUME NEW o, NEW s, SoundOutcome(o) PROVE SoundOutcome(Look(o, s))
  BY CaseIsSound DEF Look, SoundOutcome

\* Counting a byte below the limit changes nothing else.
LEMMA CountIsSound ==
    ASSUME NEW p, Sound(p), ~Overflows(p)
    PROVE  /\ Sound(Count(p)) /\ Count(p).failed = p.failed /\ Count(p).state = p.state
           /\ Count(p).hs = p.hs /\ Count(p).flags = p.flags /\ Count(p).length = p.length
           /\ Count(p).major = p.major /\ Count(p).minor = p.minor
           /\ Count(p).method = p.method /\ Count(p).upgrade = p.upgrade
  <1>1. CASE Counts(p)
    <2> DEFINE n == p.nread + 1
    <2>1. n \in 0..MaxHeaderSize
      BY <1>1, MaxHeaderSizeAssumption DEF Overflows, Sound, Parsers
    <2>2. Count(p) = [p EXCEPT !.nread = n]
      BY <1>1 DEF Count
    <2> HIDE DEF n
    <2> QED
      BY <2>1, <2>2, CountedFits DEF Sound, Parsers
  <1>2. CASE ~Counts(p)
    BY <1>2 DEF Count
  <1> QED
    BY <1>1, <1>2

\* So does a byte, however often it is looked at.
LEMMA ByteIsSound ==
    ASSUME NEW p, NEW s, Sound(p) PROVE SoundOutcome(Byte(p, s))
  <1>1. CASE p.failed \/ Overflows(p)
    BY <1>1, FailIsSound DEF Byte, Sound
  <1>2. CASE ~(p.failed \/ Overflows(p))
    <2> DEFINE o == Case(Count(p), s)
    <2>1. Sound(Count(p)) /\ ~Count(p).failed
      BY <1>2, CountIsSound
    <2>2. SoundOutcome(o)
      BY <2>1, CaseIsSound
    <2> HIDE DEF o
    <2>3. SoundOutcome(Look(Look(Look(o, s), s), s))
      BY <2>2, LookIsSound
    <2> QED
      BY <1>2, <2>3 DEF Byte, o
  <1> QED
    BY <1>1, <1>2

\* A parser for the next byte: its chunk was not counted yet.
Good(p) == /\ Sound(p)
           /\ ~p.failed /\ p.state = "chunk_size_start" => p.nread = 0

\* A sound parser breaks no assert of http_parser_execute.
LEMMA GoodHolds == ASSUME NEW p, Good(p) PROVE AssertsHold(p)
  BY DEF Good, Sound, AssertsHold

\* http_parser_init leaves a sound parser.
LEMMA FreshIsGood == Good(Fresh)
  <1>1. 0 \in 0..MaxUint /\ 0 \in 0..MaxVersion
    BY MaxUintAssumption, MaxVersionAssumption
  <1>2. Fresh \in Parsers
    BY <1>1, Constant, FreeStatesAre DEF Fresh, Parsers, FreeStates, FieldStates, Methods
  <1>3. Fresh.state = "start_req"
    BY DEF Fresh
  <1> QED
    BY <1>2, <1>3, Free, FreeStatesAre DEF Good

\* A reader of the bytes: what counts one too many is a name or a value.
GoodReader(e) == /\ Good(e.p) /\ e.loops \in BOOLEAN
                 /\ e.loops => e.p.state \in {"header_field", "header_value"}

\* The inductive invariant.
BothGood == /\ lib = [in |-> lib.in, url |-> lib.url, done |-> lib.done]
            /\ GoodReader(lib.in) /\ GoodReader(serv)

\* A byte leaves a sound parser in the reader.
LEMMA FeedIsGood ==
    ASSUME NEW e, NEW s, Good(e.p) PROVE GoodReader(Feed(e, s).e)
  <1>1. SoundOutcome(Byte(e.p, s))
    BY ByteIsSound DEF Good
  <1>2. /\ Feed(e, s).e.p = Byte(e.p, s).p
        /\ Feed(e, s).e.loops = Loops(e.p, Byte(e.p, s).p)
    BY DEF Feed
  <1> QED
    BY <1>1, <1>2 DEF SoundOutcome, Good, GoodReader, Loops

\* A new read finds the parser as it was left.
LEMMA EnterIsGood == ASSUME NEW p, Good(p) PROVE GoodReader(Enter(p))
  BY DEF Enter, GoodReader

\* The end of a read changes nothing but the count, or fails.
LEMMA AtEndIsGood ==
    ASSUME NEW e, GoodReader(e)
    PROVE  /\ Good(AtEnd(e))
           /\ ~AtEnd(e).failed =>
                  \/ AtEnd(e) = e.p
                  \/ \E n : AtEnd(e) = [e.p EXCEPT !.nread = n]
  <1>1. e.p \in Parsers /\ Good(e.p)
    BY DEF GoodReader, Good, Sound
  <1>2. CASE ~e.loops
    BY <1>1, <1>2 DEF AtEnd
  <1>3. CASE e.loops /\ (e.p.failed \/ e.p.nread = MaxHeaderSize)
    <2>1. AtEnd(e) = [e.p EXCEPT !.failed = TRUE]
      BY <1>3 DEF AtEnd, BreakOff
    <2>2. [e.p EXCEPT !.failed = TRUE] \in Parsers /\ [e.p EXCEPT !.failed = TRUE].failed
      BY <1>1 DEF Parsers
    <2> QED
      BY <2>1, <2>2 DEF Good, Sound
  <1>4. CASE e.loops /\ ~(e.p.failed \/ e.p.nread = MaxHeaderSize)
    <2> DEFINE n == e.p.nread + 1
    <2>1. n \in 0..MaxHeaderSize
      BY <1>1, <1>4, MaxHeaderSizeAssumption DEF Parsers
    <2>2. AtEnd(e) = [e.p EXCEPT !.nread = n]
      BY <1>4 DEF AtEnd, BreakOff
    <2>3. e.p.state # "chunk_size_start"
      BY <1>4 DEF GoodReader
    <2> HIDE DEF n
    <2> QED
      BY <1>1, <2>1, <2>2, <2>3, CountedFits DEF Good, Sound
  <1> QED
    BY <1>2, <1>3, <1>4

\* A new connection has sound parsers.
LEMMA InitGood == Init => BothGood
  BY FreshIsGood, EnterIsGood DEF Init, BothGood

\* A byte keeps both parsers sound.
LEMMA NextByteGood == BothGood /\ NextByte => BothGood'
  <1> SUFFICES ASSUME BothGood, NextByte PROVE BothGood'
    OBVIOUS
  <1> DEFINE s == message.wire[sent + 1]
  <1>1. lib' = LibHears(Feed(lib.in, s))
    BY DEF NextByte
  <1>2. serv' = serv \/ serv' = Feed(serv, s).e
    BY DEF NextByte
  <1>3. GoodReader(Feed(lib.in, s).e) /\ GoodReader(Feed(serv, s).e)
    BY FeedIsGood DEF BothGood, GoodReader
  <1> HIDE DEF s
  <1>4. lib'.in = Feed(lib.in, s).e /\ (lib = [in |-> lib.in, url |-> lib.url, done |-> lib.done])'
    BY <1>1 DEF LibHears
  <1> QED
    BY <1>2, <1>3, <1>4 DEF BothGood

\* The end of a read keeps them sound, whether efserv keeps its parser or not.
LEMMA EndOfReadGood == BothGood /\ EndOfRead => BothGood'
  <1> SUFFICES ASSUME BothGood, EndOfRead PROVE BothGood'
    OBVIOUS
  <1>1. /\ lib'.in = Enter(AtEnd(lib.in))
        /\ (lib = [in |-> lib.in, url |-> lib.url, done |-> lib.done])'
    BY DEF BothGood, EndOfRead
  <1>2. \/ serv' = serv \/ serv' = Enter(serv.p) \/ serv' = Enter(AtEnd(serv))
        \/ serv' = Enter(Fresh)
    BY DEF EndOfRead, Flushed, NotMarked
  <1>3. Good(AtEnd(lib.in)) /\ Good(AtEnd(serv)) /\ Good(serv.p) /\ Good(Fresh)
    BY AtEndIsGood, FreshIsGood DEF BothGood, GoodReader
  <1> QED
    BY <1>1, <1>2, <1>3, EnterIsGood DEF BothGood

\* Nothing happens to them between messages.
LEMMA NextMessageGood == BothGood /\ NextMessage => BothGood'
  <1> SUFFICES ASSUME BothGood, NextMessage PROVE BothGood'
    OBVIOUS
  <1>1. /\ lib'.in = lib.in
        /\ (lib = [in |-> lib.in, url |-> lib.url, done |-> lib.done])'
    BY DEF BothGood, NextMessage
  <1> QED
    BY <1>1 DEF BothGood, NextMessage

\* No assert of http_parser_execute fails in efserv's parser or in the
\* well-behaved user's, whatever the peer sends, however it is cut into reads
\* and however large lengths and versions may become.
THEOREM AssertsKept == Spec => []AssertsOK
  <1>1. BothGood /\ UNCHANGED vars => BothGood'
    BY DEF BothGood, vars
  <1>2. BothGood => AssertsOK
    BY GoodHolds DEF BothGood, GoodReader, AssertsOK
  <1> QED
    BY <1>1, <1>2, InitGood, NextByteGood, EndOfReadGood, NextMessageGood, PTL DEF Spec, Next

\* Where the reader is in the message.
PlaceOK == /\ message \in Messages /\ sent \in 0..Len(message.wire)
           /\ before \in Nat /\ long \subseteq {"lib", "serv"}
           /\ status \in {"open", "closed", "dead"}

\* A connection begins at the first symbol of a message.
LEMMA InitPlace == Init => PlaceOK
  BY MessagesAssumption DEF Init, PlaceOK

\* on_url leaves the worker running or dead.
LEMMA OnUrlPlace ==
    ASSUME NEW url, OnUrl(url), status \in {"open", "closed", "dead"}
    PROVE  status' \in {"open", "closed", "dead"}
  BY DEF OnUrl

\* Every step stays within the message.
LEMMA NextPlace == PlaceOK /\ [Next]_vars => PlaceOK'
  <1> SUFFICES ASSUME PlaceOK, [Next]_vars PROVE PlaceOK'
    OBVIOUS
  <1>1. Len(message.wire) \in Nat /\ \A m \in Messages : Len(m.wire) \in Nat
    BY MessagesAssumption DEF PlaceOK
  <1>2. CASE NextByte
    <2>1. /\ message' = message /\ sent' = sent + 1 /\ sent < Len(message.wire)
          /\ before' = before /\ long' \subseteq {"lib", "serv"}
      BY <1>2 DEF NextByte, Left, Long, PlaceOK
    <2>2. status' \in {"open", "closed", "dead"}
      BY <1>2, OnUrlPlace DEF NextByte, OnMessageComplete, PlaceOK
    <2>3. sent + 1 \in 0..Len(message.wire)
      BY <1>1, <2>1 DEF PlaceOK
    <2> QED
      BY <2>1, <2>2, <2>3 DEF PlaceOK
  <1>3. CASE EndOfRead
    <2>1. /\ message' = message /\ sent' = sent
          /\ before' = before /\ long' \subseteq {"lib", "serv"}
      BY <1>3 DEF EndOfRead, Long, PlaceOK
    <2>2. status' \in {"open", "closed", "dead"}
      BY <1>3, OnUrlPlace DEF EndOfRead, Flushed, NotMarked, PlaceOK
    <2> QED
      BY <2>1, <2>2 DEF PlaceOK
  <1>4. CASE NextMessage
    <2>1. /\ message' \in Messages /\ sent' = 0 /\ status' = status
          /\ before' \in Nat /\ long' = long
      BY <1>1, <1>4 DEF NextMessage, PlaceOK
    <2>2. sent' \in 0..Len(message'.wire)
      BY <1>1, <2>1
    <2> QED
      BY <2>1, <2>2 DEF PlaceOK
  <1>5. CASE UNCHANGED vars
    BY <1>5 DEF vars, PlaceOK
  <1> QED
    BY <1>2, <1>3, <1>4, <1>5 DEF Next

\* The reader's state has its type for every set of messages.
THEOREM TypeCorrect == Spec => []TypeOK
  <1>1. BothGood /\ UNCHANGED vars => BothGood'
    BY DEF BothGood, vars
  <1>2. BothGood /\ PlaceOK => TypeOK
    BY DEF BothGood, GoodReader, Good, Sound, PlaceOK, TypeOK
  <1> QED
    BY <1>1, <1>2, InitGood, NextByteGood, EndOfReadGood, NextMessageGood, InitPlace,
       NextPlace, PTL DEF Spec, Next
==============================================================================
