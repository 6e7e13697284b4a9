------------------------------ MODULE HttpReader ------------------------------
(***************************************************************************)
(* One connection between a peer's bytes and on_message_complete.  The     *)
(* peer sends messages one after the other; recv() hands them over in      *)
(* reads that may end anywhere, and each read is one http_parser_execute.  *)
(* client_io_handler keeps its parser for the next read only if on_url has *)
(* stored it, and on_url takes each piece of a url for a whole one.        *)
(*                                                                         *)
(* Beside it runs a user of the library who does what http_parser.h asks:  *)
(* the same reads, one parser, and the pieces of a url put together.       *)
(***************************************************************************)
EXTENDS HttpParser, Sequences

CONSTANTS Messages  \* what the peer may send

\* Of a message: wire, the symbols sent; well, whether they are a request; if
\* so target, its symbols from the third on, and means, what efserv should
\* take it for; last, whether it asks to end the connection; and upgrade,
\* whether it asks for another protocol.
ASSUME MessagesAssumption == \A m \in Messages : m.wire \in Seq(Symbols)

VARIABLES message, \* the message being sent
          sent,    \* how many of its symbols were read
          before,  \* how many symbols the message before it had, 0 for none
          ended,   \* a message that does not keep the connection alive was
          empty,   \* nothing was taken from the current read yet
          torn,    \* a read ended where it does harm: see Tears
          long,    \* whose parser, "lib" or "serv", counted past its limit
          lib,     \* the well-behaved user: its parser, url and calls
          serv,    \* http_parser_execute of efserv: the parser and url_mark
          kept,    \* client->parser # NULL
          client,  \* path, query and slash in ClientInfo
          served,  \* the requests handled since this message began
          status   \* "open", "closed" by efserv, or "dead", the worker is

vars == <<message, sent, before, ended, empty, torn, long, lib, serv, kept,
          client, served, status>>

NoRequest == [path |-> <<>>, query |-> <<>>, slash |-> FALSE]

\* The prologue of http_parser_execute: a url that goes on is marked at once.
Enter(p) == [p |-> p, marked |-> p.state \in UrlStates, run |-> <<>>, loops |-> FALSE]

\* A symbol for one run of http_parser_execute: the run marked so far grows
\* until the callback takes it.
Feed(e, s) ==
    LET o      == Byte(e.p, s)
        marked == (e.marked \/ o.call = "mark") /\ o.call # "url"
    IN  [e    |-> [p |-> o.p, marked |-> marked,
                   run |-> IF marked THEN Append(e.run, s) ELSE <<>>,
                   loops |-> Loops(e.p, o.p)],
         call |-> IF o.p.failed THEN "error" ELSE o.call]

\* A parser at the end of a read, and whether its count passes the limit there
\* or at one more symbol.
AtEnd(e)     == IF e.loops THEN BreakOff(e.p) ELSE e.p
TooMany(e)   == ~e.p.failed /\ Overflows(e.p)
EndsLong(e)  == ~e.p.failed /\ AtEnd(e).failed

Init == /\ message \in Messages
        /\ sent = 0 /\ before = 0 /\ ended = FALSE /\ empty = TRUE /\ torn = FALSE
        /\ long = {}
        /\ lib = [in |-> Enter(Fresh), url |-> <<>>, done |-> 0]
        /\ serv = Enter(Fresh) /\ kept = FALSE
        /\ client = NoRequest /\ served = <<>> /\ status = "open"

-----------------------------------------------------------------------------
(* efserv's callbacks *)

\* UrlEncode::decode: the loop takes an escape as three symbols.  It asserts
\* that they are there, and FromHex that the digits are letters or digits.
BadEscape(url) == \E i \in 1..Len(url) :
                     /\ url[i] = "%"
                     /\ ~(i + 2 <= Len(url) /\ {url[i + 1], url[i + 2]} \subseteq Alnum)
Unescape(url, i) == IF url[i + 1] = "2" /\ url[i + 2] = "0" THEN "sp" ELSE "byte"
Decode(url) ==
    LET from[i \in 1..Len(url) + 1] ==
            IF i > Len(url)     THEN <<>>
            ELSE IF url[i] = "%" THEN <<Unescape(url, i)>> \o from[i + 3]
            ELSE IF url[i] = "+" THEN <<"sp">> \o from[i + 1]
            ELSE <<url[i]>> \o from[i + 1]
    IN  from[1]

\* What it makes of a bad escape where assertions are compiled out: an
\* uninitialised byte, or what follows the end of the string.
Garbled == {<<"byte">>, <<"/">>, <<"?">>}
Decoded(url) == IF BadEscape(url) THEN Garbled ELSE {Decode(url)}

\* find_first_of('?'): the position before it, or the end.
PathLength(url) == CHOOSE n \in 0..Len(url) :
                       /\ \A i \in 1..n : url[i] # "?"
                       /\ n < Len(url) => url[n + 1] = "?"
Path(url)  == SubSeq(url, 1, PathLength(url))
Query(url) == SubSeq(url, PathLength(url) + 2, Len(url))

\* path[path.length() - 1] of an empty path reads the byte before the string.
Slashes(path) == IF path = <<>> THEN BOOLEAN ELSE {path[Len(path)] = "/"}

Target(url, slash) ==
    [path |-> Path(url), query |-> Query(url), slash |-> slash]

OnUrlLosingParser(piece) ==  \* mutant: client->parser is not stored
    /\ \E url \in Decoded(piece) : \E slash \in Slashes(Path(url)) :
           client' = Target(url, slash)
    /\ UNCHANGED <<kept, status>>

\* A failed assertion of decode ends the worker.
OnUrl(piece) ==
    \/ /\ BadEscape(piece)
       /\ status' = "dead" /\ UNCHANGED <<kept, client>>
    \/ /\ \E url \in Decoded(piece) : \E slash \in Slashes(Path(url)) :
              client' = Target(url, slash)
       /\ kept' = TRUE /\ UNCHANGED status

\* After http_parser_execute: an upgrade or an error closes the connection.
OnMessageComplete(upgrade) ==
    /\ served' = Append(served, client)
    /\ status' = IF upgrade THEN "closed" ELSE status

-----------------------------------------------------------------------------
(* One connection *)

Left == sent < Len(message.wire)

\* Where the end of a read does harm: in a url, and in the first request also
\* before it, as no on_url has stored the parser yet.
Tears(n) == n >= (IF before = 0 THEN 1 ELSE 3) /\ n <= 2 + Len(message.target)

\* on_url and on_message_complete of the well-behaved user.
LibHears(f) ==
    [in |-> f.e,
     url |-> IF f.call = "url" THEN lib.url \o lib.in.run ELSE lib.url,
     done |-> IF f.call = "complete" THEN lib.done + 1 ELSE lib.done]

\* Whose count passes the limit: efserv's parser takes nothing after a close.
Long(inLib, inServ) == long \cup (IF inLib THEN {"lib"} ELSE {})
                            \cup (IF status = "open" /\ inServ THEN {"serv"} ELSE {})

\* http_parser_execute takes one more symbol of the read.
NextByte ==
    /\ Left
    /\ sent' = sent + 1 /\ empty' = FALSE 
    /\ long' = Long(TooMany(lib.in), TooMany(serv))
    /\ LET s == message.wire[sent + 1]
           f == Feed(serv, s)
       IN  /\ lib' = LibHears(Feed(lib.in, s))
           /\ \/ /\ status # "open"
                 /\ UNCHANGED <<serv, kept, client, served, status>>
              \/ /\ status = "open" /\ serv' = f.e
                 /\ \/ /\ f.call \in {"none", "mark"}
                       /\ UNCHANGED <<kept, client, served, status>>
                    \/ /\ f.call = "url"
                       /\ OnUrl(serv.run) /\ UNCHANGED served
                    \/ /\ f.call = "complete"
                       /\ OnMessageComplete(f.e.p.upgrade) /\ UNCHANGED <<kept, client>>
                    \/ /\ f.call = "error"
                       /\ status' = "closed" /\ UNCHANGED <<kept, client, served>>
    /\ UNCHANGED <<message, before, ended, torn>>

\* The read is used up: what is marked goes to on_url, and the next read finds
\* the parser that was kept, or a new one.
Flushed == /\ serv.marked /\ OnUrl(serv.run)
           /\ serv' = Enter(serv.p)
NotMarked ==
    LET p == AtEnd(serv)
    IN  /\ ~serv.marked
        /\ status' = IF p.failed \/ p.upgrade THEN "closed" ELSE status
        /\ serv' = Enter(IF kept THEN p ELSE Fresh)
        /\ UNCHANGED <<kept, client>>

EndOfRead ==
    /\ ~empty /\ empty' = TRUE
    /\ torn' = (torn \/ Tears(sent))
    /\ long' = Long(EndsLong(lib.in), EndsLong(serv))
    /\ lib' = [lib EXCEPT !.in = Enter(AtEnd(lib.in)), !.url = @ \o lib.in.run]
    /\ \/ status # "open" /\ UNCHANGED <<serv, kept, client, status>>
       \/ status = "open" /\ (Flushed \/ NotMarked)
    /\ UNCHANGED <<message, sent, before, ended, served>>

NextMessage ==
    /\ ~Left /\ status = "open"
    /\ message' \in Messages /\ sent' = 0 /\ before' = sent
    /\ ended' = (ended \/ message.last)
    /\ served' = <<>>
    /\ lib' = [lib EXCEPT !.url = <<>>, !.done = 0]
    /\ UNCHANGED <<empty, torn, long, serv, kept, client, status>>

Next == NextByte \/ EndOfRead \/ NextMessage
Spec == Init /\ [][Next]_vars

-----------------------------------------------------------------------------

TypeOK == /\ message \in Messages /\ sent \in 0..Len(message.wire)
          /\ lib.in.p \in Parsers /\ serv.p \in Parsers
          /\ before \in Nat /\ long \subseteq {"lib", "serv"}
          /\ status \in {"open", "closed", "dead"}

\* The asserts of http_parser.c hold of every parser between two bytes.
AssertsOK == AssertsHold(lib.in.p) /\ AssertsHold(serv.p)

\* http_parser itself: whoever keeps one parser and puts the pieces together
\* hears of each request once, at its last byte, with the url that was sent,
\* and knows whether another may follow, wherever the reads end; unless the
\* request was refused because the count of header bytes passed its limit.
ParsedAsMeant ==
    message.well /\ ~ended /\ "lib" \notin long =>
        /\ ~lib.in.p.failed
        /\ lib.done = (IF Left THEN 0 ELSE 1)
        /\ ~Left => /\ lib.url = message.target
                    /\ lib.in.p.upgrade = message.upgrade
                    /\ (lib.in.p.state = "dead") = message.last

\* That count is of this message and of the trailers of the one before it, each
\* byte at most twice: no request, however late on a connection, is refused for
\* its size if the limit is far enough above what these two may be.
CountedFromHere ==
    \A p \in {lib.in.p, serv.p} : ~p.failed => p.nread <= 2 * (before + sent)

\* What efserv should have handled of the current message.
Due == IF ~Left /\ message.well /\ ~ended THEN <<message.means>> ELSE <<>>

\* A request with a body that asks for an upgrade is given up at the end of
\* the read that brought its headers, before its body is complete.
GivenUp == message.upgrade /\ status = "closed"
RequestsHandled == \/ served = Due
                   \/ GivenUp /\ served = <<>>

\* As long as no read ends in a url, or before the first url has ended, each
\* request with a url decode can take is handled once, when it is complete, as
\* it was meant; nothing is handled of a message that is not a request; and the
\* connection stays open for the next.
HandledAsSent ==
    ~torn /\ "serv" \notin long /\ ~BadEscape(message.target) =>
        /\ RequestsHandled
        /\ status # "open" => ended \/ message.upgrade \/ ~message.well

\* However the reads end, nothing is handled after a request that was not to
\* keep the connection alive.
LastIsLast == ended => served = <<>>

\* http_parser.h of on_url: "It will be called arbitrarily many times for each
\* string": wherever the reads end, a request is handled as it was sent.
RequestsAsSent == RequestsHandled

\* The assertions of decode, UrlEncode.cpp:54 and 17, as long as on_url is given
\* whole urls: no request makes one fail.
EscapesAreWhole == ~torn => status # "dead"
==============================================================================
