----------------------------- MODULE MCHttpReader -----------------------------
(* Messages for HttpReader: requests rendered by the grammar of HTTP/1.1,  *)
(* and some that the grammar does not give.                                *)
EXTENDS HttpReader, FiniteSets

Plain(wire) == [wire |-> wire,
                means |-> [path |-> wire, query |-> <<>>, slash |-> wire[Len(wire)] = "/"]]
WithQuery(wire, query) ==
    [wire |-> wire \o <<"?">> \o query, means |-> [Plain(wire).means EXCEPT !.query = query]]
Escaped == [wire |-> <<"/", "%", "2", "0", "+">>,
            means |-> [path |-> <<"/", "sp", "sp">>, query |-> <<>>, slash |-> FALSE]]

Root      == Plain(<<"/">>)
\* Urls that decode takes for escapes which they are not.
Percent   == {Plain(<<"/", "%">>), Plain(<<"/", "%", "/", "0">>)}
Authority == Plain(<<"name", ":", "1">>)
Absolute  == Plain(<<"name", ":", "/", "/", "name", "@", "name", "/">>)
Targets == {Root, Plain(<<"/", "name">>), Plain(<<"*">>), Absolute, Escaped,
            Plain(<<"/", "#", "name">>), WithQuery(Absolute.wire, <<"?", "#", "#">>),
            WithQuery(<<"/">>, <<"name", "?">>)} \cup Percent

Fields == [close      |-> <<"con", "nection", ":", "sp", "clo", "se">>,
           proxyClose |-> <<"pr", "oxy-connection", ":", "clo", "se", "sp">>,
           keepAlive  |-> <<"con", "nection", ":", "sp", "ke", "ep-alive">>,
           nameClose  |-> <<"con", "nection", ":", "name", ",", "sp", "clo", "se">>,
           tabClose   |-> <<"con", "nection", ":", "name", ",", "ht", "clo", "se">>,
           closeName  |-> <<"con", "nection", ":", "clo", "se", ",", "name">>,
           notClose   |-> <<"con", "nection", ":", "clo", "se", "name">>,
           wants      |-> <<"con", "nection", ":", "up", "grade">>,
           upgrade    |-> <<"up", "grade", ":", "sp", "name">>,
           length     |-> <<"con", "tent-length", ":", "sp", "2">>,
           zero       |-> <<"con", "tent-length", ":", "0", "sp">>,
           chunked    |-> <<"tr", "ansfer-encoding", ":", "chu", "nked">>,
           other      |-> <<"con", "name", ":", "clo", "se">>,
           folded     |-> <<"name", ":", "name", "cr", "lf", "ht", "name">>,
           late       |-> <<"con", "nection", ":", "cr", "lf", "sp", "clo", "se">>,
           none       |-> <<"con", "nection", ":">>]

Concat(seqs) == LET upto[n \in 0..Len(seqs)] ==
                        IF n = 0 THEN <<>> ELSE upto[n - 1] \o seqs[n]
                IN  upto[Len(seqs)]
Range(f) == {f[x] : x \in DOMAIN f}

Closing == {"close", "proxyClose", "nameClose", "tabClose", "closeName", "late"}

Version(v) == CASE v = "0.9" -> <<>>
                [] v = "1.0" -> <<"sp", "HT", "TP", "/", "1", ".", "0">>
                [] v = "1.1" -> <<"sp", "HT", "TP", "/", "1", ".", "1">>

CRLF == <<"cr", "lf">>
Chunks == <<"1">> \o CRLF \o <<"/">> \o CRLF \o <<"0", ";", "name">> \o CRLF
          \o Fields.other \o CRLF \o CRLF
Body(fields) == CASE "length" \in Range(fields)  -> <<"/", "lf">>
                  [] "chunked" \in Range(fields) -> Chunks
                  [] OTHER                       -> <<>>

Request(method, target, v, fields, eol) ==
    [wire    |-> <<method, "sp">> \o target.wire \o Version(v) \o eol
                 \o Concat([i \in DOMAIN fields |-> Fields[fields[i]] \o eol])
                 \o eol \o Body(fields),
     well    |-> TRUE,
     target  |-> target.wire,
     means   |-> target.means,
     last    |-> IF v = "1.1" THEN Range(fields) \cap Closing # {}
                 ELSE "keepAlive" \notin Range(fields),
     upgrade |-> method = "CONNECT" \/ {"wants", "upgrade"} \subseteq Range(fields)]

Gets == {Request("GET", t, "1.1", <<>>, CRLF) : t \in Targets}
        \cup {Request("GET", Root, v, <<f>>, eol) :
                 v \in {"0.9", "1.0", "1.1"}, eol \in {CRLF, <<"lf">>},
                 f \in {"close", "keepAlive"}}
        \cup {Request("GET", Root, "1.1", <<f, "other">>, CRLF) :
                 f \in {"proxyClose", "nameClose", "closeName", "notClose", "wants",
                        "upgrade", "zero", "folded", "late", "none"}}
        \cup {Request("GET", Root, "1.1", <<"wants", "upgrade">>, <<"lf">>)}
Posts == {Request("POST", Root, "1.1", <<"length", f>>, CRLF) : f \in {"other", "close"}}
         \cup {Request("POST", Root, "1.0", <<"keepAlive", "chunked">>, CRLF),
               Request("POST", Root, "1.1", <<"chunked">>, CRLF),
               Request("POST", Root, "1.1", <<"wants", "upgrade", "length">>, CRLF)}
Connects == {Request("CONNECT", Authority, "1.1", <<>>, CRLF)}

\* Sent after these symbols of the request line, what follows is not a request.
Broken(wire) == [wire |-> wire, well |-> FALSE, target |-> <<"/">>,
                 means |-> Root.means, last |-> FALSE, upgrade |-> FALSE]
Begin(fields) == <<"GET", "sp", "/">> \o Version("1.1") \o CRLF \o fields \o CRLF
Malformed ==
    {Broken(w) : w \in
        {<<"HT", "TP">>,
         <<"GET", "sp", "/", "sp", "HT", "TP", "/", "1", "1">>,
         <<"GET", "sp", "/", "sp", "HT", "TP", "/", "1", ".", "1", "1">>,
         Begin(<<"name", "sp", ":">>),
         Begin(<<"con", "tent-length", ":", "2", "2">>),
         Begin(Fields.length \o CRLF \o Fields.length),
         Begin(Fields.length \o CRLF \o Fields.chunked) \o CRLF,
         Begin(Fields.chunked) \o CRLF \o <<"2", "2", "cr">>,
         Begin(Fields.chunked) \o CRLF \o <<"2">> \o CRLF \o <<"/", "/", "/">>}}

MCMessages == Gets \cup Posts \cup Connects \cup Malformed

\* A request that asks for the connection to be closed, after a comma and a tab.
MCTabbed == {Request("GET", Root, "1.1", <<"tabClose">>, CRLF)}
==============================================================================
