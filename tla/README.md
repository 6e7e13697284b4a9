# A TLA+ model of efserv

efserv is a static file server: a parent process forks four workers, and each
worker runs one libev loop (`src/src/EventLoop.cpp`) that accepts connections,
parses requests with the vendored http_parser, answers from memory or hands
`open()` and `sendfile()` to libeio's threads. This directory models it in
TLA+: the modules, the TLC configurations that check them, and theorems that
TLAPS checks.

    cd tla
    tlc -config EventLoopPolite.cfg MCEventLoop     # any .cfg with the MC module of its prefix
    tlapm EventLoopProofs.tla

Source lines below are of the files under `src/src/`.

## 1. Inventory

| part | state it keeps | operations | talks to |
|---|---|---|---|
| worker loop, `EventLoop` | `client_list[102400]`, a `ClientInfo` per connection, watchers | `accept_handler`, `client_io_handler`, `on_url`, `on_message_complete`, `respond_to_client`, `file_open_done`, `file_send_done`, `close_client` | kernel (descriptors, sockets), http_parser (callbacks), libeio (jobs, callbacks) |
| hand-over from libeio | `ready_watcher`, `repeat_watcher` | `want_poll`, `ready`, `repeat` | libeio threads (`want_poll` runs on them), libev |
| answers, `Response` | two templates | `respondErr`, `respondIndexs`, `respondRedirection`, `respondHeader` | blocking-style `send()` on non-blocking sockets, results ignored |
| decision, `respond_to_client` | none | six exits | `AccessRule`, `FileHandler`, `outOfWebRoot` |
| files, `FileHandler` | the `stat` of its construction | `exist`, `isDir`, `size`, `getAbsolutePath`, `listDir` | file system |
| access rules, `AccessRule` | ordered rules | `loadAccessRule`, `permissible` | the decision, the JSON listing |
| request parser, `http_parser` (vendored) | state, header state, flags, lengths, version | `http_parser_init`, `http_parser_execute`, `http_should_keep_alive` | `client_io_handler` (one call per read), `on_url`, `on_message_complete` |
| configuration, `ServEnv`, `Ini` | a map | `parse`, `get` | everything, at start; `dir_indexs` again at each directory |
| strings, `UrlEncode`, `StringUtils`, `trim` | none | `decode`, `split`, `replaceAll`, trims | `on_url` |
| processes, `main` | four children | fork loop, SIGINT handler, `wait(NULL)` | workers |
| `MimeType`, `log`, tinyformat, templates | tables and text | lookups, output | - |

What is hard in it:

* Jobs hold raw things. `eio_open` and `eio_sendfile` get a `ClientInfo*` and
  descriptor *numbers*, and a job cannot be cancelled. Whatever happens on the
  connection while a job is out (its peer leaves, a parse error, a second
  request) happens to a `ClientInfo` that a callback will use later, and to
  numbers that the kernel hands out again at once.
* The reading thread and libeio's threads race to the peer: the peer may have
  the last byte of a file before the loop has run `file_send_done`.
* Sockets are non-blocking, nobody waits for writability, and the counts of
  `send` and `sendfile` are not looked at.
* Descriptors are the index of `client_list`, and run out: for `open`, for
  `opendir`, whose stream is never closed, and for `accept`.
* A url is decoded before it is split, the rules see it with its query and the
  file system without, and the location of a redirection is the decoded path as it is.
* libeio wakes the loop only when its result queue was empty.
* A read may end anywhere in a request. The parser is a machine of some forty
  states made for that; its user here keeps it only once `on_url` ran, and does
  not put the pieces of a url together.
* Four workers watch one listening socket, their parent waits for the first to
  end, and ^C reaches each of them on its own.

What makes each part correct is stated by the properties of section 4;
`PROJECT.json` lists the hazards, each at its line, with the properties that
cover it.

## 2. Modules

`Respond` - the decision as a function `Answer(f, dirIndexs)` of facts about a
url: the verdict of the access rules on it, what `stat` finds under the web
root and under the built-in directory, whether the real path is inside either,
and whether the path ends in a slash. It fixes the order of the tests: rules
first, then existence, then containment, then kind and slash.

`EventLoop` - one worker with its peers and libeio. One action per exit of a
handler; the correspondence is

| TLA+ | code |
|---|---|
| `clientList`, `heap` | `client_list` and the `ClientInfo`s by address: `delete` leaves the old content in the cell, `new` may take the cell again |
| `fdt` | the descriptor table; `LowestFree` is POSIX's rule |
| `jobs` | eio requests: queued, finished (`ok`/`err`), until their callback ran |
| `backlog`, `inbox`, `peer` | kernel's completed connections, unread requests, the peer's end |
| `ear`, `asked` | what the peer's decoder made of the bytes; targets handled (history) |
| `AcceptTooBig`, `AcceptOccupied`, `AcceptInstall` | exits of `accept_handler`, 93, 98, 103 |
| `ReadRequest` | `client_io_handler` -> `http_parser_execute` -> `on_url`, `on_message_complete` -> `respond_to_client`, then the upgrade test |
| `ReadBadEscape` | the assertions of `UrlEncode::decode` (54, 17) inside `on_url`: the worker ends |
| `ReadJunk`, `ReadEof`, `ReadError` | parse error 154, `recv` 0 at 137, `EV_ERROR`/`FIONREAD` 114-128 |
| `CloseClient(fd, h, t)` | `close_client` and `~ClientInfo`, on the heap and table the handler has made so far |
| `SendPage`, `SendRedirection`, `SendHeader` | `Response`: one `send` that may be cut, `SendOnce` |
| `EioOpen`, `EioSend` | what a libeio thread does with a job (external) |
| `FileOpenFailed`, `FileOpenDone`, `FileSendFailed`, `FileSendDone` | the two exits of each callback |

Undefined behaviour is a choice. A callback whose `ClientInfo` is gone
(`Stale`) may crash, or work on the old content, or on that of the
`ClientInfo` that took the cell. The entry past the end of `client_list` may
read as anything, and storing there may kill the worker. A write to a socket
whose peer left may raise SIGPIPE, which nobody ignores, and the worker dies. A
target in `BadEscapes` ends a worker built with assertions, and is answered like
any other by one built without.

The constant `Unruly` says which departures from order may happen, so that one
module serves runs that ask different questions: what peers may do
(`pipelining`, `early_close`, `quick`, `upgrade`) and what may fail around the
worker (`short_send`, of `sendfile` and of `send`, `vanish`, `oom`). Running out of descriptors needs no
permission: `FdLimit` decides.

`HttpService` - what a worker promises a peer that asks one thing at a time:
each request gets its own answer, in order, and a connection is not renewed
with a request open. `BestEffortSpec` is what is left when requests may fail: a
connection may end with a request open, but no answer is out of order or torn.
`EventLoopService` maps `EventLoop` to it: requests are
those handled followed by those unread, replies are what the peer decoded.

`EioPoll` - `want_poll`, `ready` and `repeat` between libeio's threads and the
loop, with libeio's queue, its lock discipline (append and `want_poll` are one
step) and libev's coalescing `ev_async`.

`AccessRule` - the rules: the two default denials, one rule or none per line,
and the verdict as the loop of `permissible`. A url is what `permissible` is
given: a name, whether a slash follows, and whether a query does. A pattern is
the set of urls `regex_match` accepts for it, all of the url: a name as a
pattern (`Accepted`) takes neither the slash nor the query, and nothing at all
if it is written without its leading slash (`Lift`). A line that is empty, a
comment or malformed is `Ignored`.

`Listing` - one worker's `?json` listing of the web root. `LoadLine` is a round
of the loop in `loadAccessRule`, `ListFile` a round of the loop in
`respondIndexs`; then an agent asks for a name, with or without a query, is answered by
`Respond` and follows redirections (`Ask`, `Follow`; `asked` is the question,
`at` where it was redirected to). The rules see the whole url, `stat` the name.
An entry carries the name `getName` shows, which for a link is its target's. A
location is the decoded path as it is, and what it reads as when it comes back
is data: `Reread` gives, for each name, the url that its location is once agents
have cut it at a `#` and `on_url` has decoded and split it. For most names that
is the same name with a slash and a query; for `c++` it is another name, for
`a#b` it is `a` without a slash. The assumption is what the conversion does: a
location without slash and query names something shorter.

`HttpParser` - http_parser as a function: `Byte(p, s)` is what one symbol does
to a parser `p` and which callback it makes. There is one operator per group of
cases of the switch in `http_parser_execute`, named after the state; `goto
reexecute` is `Again`. A symbol is a byte, or a run of bytes the parser takes
along one path wherever it stands: a method, or a piece of a header word, cut
where two words part (`con` `nection`, `con` `tent-length`).

`HttpReader` - one connection from the peer's bytes to `on_message_complete`.

| TLA+ | code |
|---|---|
| `message`, `sent` | what the peer is sending; `NextMessage` begins the next |
| `NextByte` | one round of the loop of `http_parser_execute`, with the callback it makes |
| `EndOfRead` | `http_parser_execute` returns: leftover marks (2061-2084), then `client_io_handler` 144-157 with the next read |
| `serv`, `kept` | the parser and `url_mark`; `client->parser` is set |
| `AtEnd`, `EndsLong`, `TooMany` | `COUNT_HEADER_SIZE` where a name or value goes on past the read (1410, 1690), and for one more symbol (706) |
| `OnUrl`, `Decode`, `BadEscape` | `on_url`, `UrlEncode::decode`: an escape that is cut off, or whose digits are neither letters nor digits, ends the worker, or, without assertions, an uninitialised byte or one behind the string is read (`Garbled`). `FromHex` takes every letter: `%zz` is an escape |
| `lib` | a second user of the library on the same reads, who keeps one parser and puts the pieces together: the yardstick |

`Workers` - `main`: `ReadLine` is a round of `Ini::parse`, `Bind` is
`EventLoop::bind` with the configuration the workers will inherit, `Fork` a
round of the fork loop, `WaitEnds` is `wait(NULL)` and `exit`. A worker is
idle, woken by the shared socket, or gone; `AcceptHandler` is
`accept_handler` as far as other workers, or a full descriptor table, make it
fail. `open` and `dirs` count the descriptors of its clients and of the
directories it listed; `CloseClient` gives back the former, nothing the latter.
With `MaxFds` of them in use `accept` fails, the connection stays in the backlog
and wakes the worker again, each time at the cost of an `ev_io`; `starved`
remembers the workers this happened to, whose loss has no bound. `Start` is somebody
who starts the server again once its parent is gone, whatever is left of it.

`EventLoopProofs`, `EventLoopOrderProofs`, `EventLoopServiceProofs`,
`EioPollProofs`, `HttpReaderProofs`, `HttpReaderReadsProofs`, `ListingProofs`,
`WorkersProofs` - theorems. `MCEventLoop`, `MCListing`, `MCHttpReader`,
`MCWorkers` - instances.

Definitions marked `mutant` are changed forms of the definition that follows
them. Nothing uses them in the model; substituted for the original, each makes
a property fail, which shows that the property depends on that code.

## 3. Abstractions

* A buffer read from a socket holds whole requests. Several in one buffer are
  that many `ReadRequest` steps; the model also allows other handlers between
  them. A request cut by a read is the subject of `HttpReader`.
* A request is its target; a target is a name with facts. Sizes, types, header
  text and logging are left out; a body is right if it is the body of the file
  the head was made for.
* `stat` and `open` agree on the file unless `vanish` is allowed. A file that
  is shorter when `sendfile` reads it than `stat` said is to the loop the short
  count that `short_send` allows.
* `recv` failures that make the handler return at once change nothing the
  model sees. What a failing `accept` costs and whom it keeps waiting is the
  subject of `Workers`; in `EventLoop` the connection stays in the backlog.
* An answer made in memory is one `send` although the code calls it once per
  header line. It may be cut, to a part or to nothing, where `short_send` and
  `pipelining` let earlier answers lie unread (`PiledUp`), and a page or listing
  also on an empty buffer, which it may exceed. The peer takes what comes after a
  part for the rest of it. Lines of a header that still fit after one that did
  not are such a rest too; they have no state of their own.
* A peer's connection is renewed only when nothing of the last one is left in
  the worker, so that a name stands for one connection at a time.
* http_parser's `nread` counts symbols, with the limit `MaxHeaderSize` where the
  code has 80 KB of bytes. A message that is refused because the count passed the
  limit is told apart by the history variable `long`. The test for control
  characters in header values is left out. Lengths are numbers up to `MaxUint`,
  versions up to `MaxVersion`, with the code's tests for overflow. Bodies are
  made of one-byte symbols and are read byte by byte where the code skips ahead.
* In `HttpReader` an escape stands for a blank or for another byte, so what a
  decoded `%3f` does to the split at `?` is seen in `Listing` only. Names are
  symbols: case, `..` and real paths belong to the facts of `Respond`.
* `Listing` does not tell one query from another, leaves out names whose location
  `decode` asserts against, and asks one question per behaviour: the server keeps
  nothing of it. The rule file and the web root may be any: the file may change
  after it was loaded.
* In `Workers` a connection is accepted or not; what is said on it, files that
  are open, and the other ways out of `accept_handler`, are `EventLoop`'s. A configuration line
  is a setting or none, of two keys, with a value `stoi` takes or not, and
  short, exactly as long as the buffer allows, or longer. A file that cannot be
  opened is an empty one.

## 4. Properties and runs

| property | says |
|---|---|
| `TypeOK` | types; each number in a job that will be used is a descriptor number |
| `TableExact` | entry `fd` of `client_list` is exactly the live `ClientInfo` whose `fd` it is |
| `NumbersOwned` | every number still to be used is open on what it was opened for, and every open file and socket has one who will close it |
| `ServedInOrder` | a peer decodes the answers to its requests, whole and in order |
| `NotLeftWaiting` | a peer in the middle of a file has a send in flight or is hung up on |
| `EndsForCause` | the worker ends only in a handler of a connection that gave it a reason: a url decode asserts against, a directory to list with no descriptor left, or an answer under way to a peer that left |
| `HangUpForCause` | a connection is closed only for a reason of its own |
| `ImplementsService` | refinement of `HttpService` |
| `ImplementsBestEffort` | refinement of the weaker promise that is left when requests may fail |
| `Answered`, `Released` | every request is answered; a connection whose peer left disappears |
| `NoLostWakeup`, `CalledBack` | the hand-over from libeio |
| `RedirectionsEnd` | each redirection but the last is to a shorter name |
| `RedirectedIsDirectory` | who asked for a directory whose name its location leads back to is redirected once and answered as one who asked for a directory |
| `LastRuleDecides` | rules loaded and asked decide as the last matching line of the file does |
| `DeniedByDefault` | without a rule, no request opens the two configuration files |
| `ListingMatchesAnswers` | without links, a name is shown exactly if asking for it, without a query or with one the rules do not look at, is not answered 403 or 404 |
| `JsonIfLastShown` | the list is JSON when its last file is shown |
| `AssertsOK` | the assertions of http_parser.c hold between any two bytes |
| `ParsedAsMeant` | whoever uses http_parser as its header asks hears of each request once, at its last byte, with its url, and knows whether another may follow, wherever reads end; unless the header count passed its limit |
| `CountedFromHere` | that count is of this message and the trailers of the one before, each byte at most twice: no request is refused for what a connection carried earlier |
| `HandledAsSent` | efserv handles each request whose url decode can take once, complete, for its target, and keeps the connection, unless a read ended where it does harm (`Tears`): in a url, or before the end of the connection's first one, or the header count passed its limit |
| `LastIsLast` | nothing is handled after a request that ends the connection, wherever reads end |
| `LeakBounded` | a worker that `accept` never failed for want of descriptors loses at most one watcher per connection another worker accepted |
| `ParentStays` | a parent in the foreground goes only after a worker ended, or with ^C on its way to all |
| `ConfigTakesEffect` | workers run with what the last line of each key in the file of this start says, and never with a port that is no number |
| `NoneForgotten`, `InterruptStops`, `StartsUp` | a queued connection is accepted or reset, or every worker that runs is out of descriptors for ever; ^C frees the port; a configuration whose lines fit is read to its end |

| run | bounds | shows |
|---|---|---|
| `polite` | 2 peers, 2 requests each per connection, 2 files and junk, 4 descriptors, no departures | everything above about the worker holds, liveness included |
| `faults` | 3 descriptors, a file and a redirection with a bad escape, `vanish`, `oom`, `short_send` | a failing request hurts only its own connection, and the worker ends only for a cause |
| `pages` | a page with a bad escape and a listing, 2 requests, 2 descriptors, `pipelining`, `early_close`, `upgrade` | as long as sends are whole, answers made in memory need no politeness, and `client_list` stays exact |
| `eio_poll` | 3 requests that return for ever, limits 0, 1, 2 | no lost wake-up, with and without libeio's limits |
| `listing` | rule files of up to 2 lines over 4 patterns, directories of up to 2 entries of 3 names with links, each name asked for with a query and without, 3 redirections | the rules, and their use in the listing and in the decision, agree; redirections end |
| `reader` | 48 messages, one after the other without end; reads of any length; `MaxUint` 29, `MaxVersion` 9, `MaxHeaderSize` 36 | the parser is right, and efserv's use of it, but for torn urls |
| `workers` | 2 workers with 2 descriptors, 2 connections, 4 files, 2 starts, 1 crash or failed fork | the processes start, share, and stop as they should |
| `short_send` | `short_send` alone | **fails** `NotLeftWaiting` |
| `entry_taken` | `quick` alone | **fails** `EntryFreeOnAccept` |
| `listing_denied` | the patterns of the documents | **fails** `DeniedByDefault` |
| `reader_split` | as `reader` | **fails** `RequestsAsSent` |
| `reader_tab` | one message, with a tab after a comma | **fails** `ParsedAsMeant` |

Six configurations more are kept for what the text below says of them, and one
that passes: `EventLoopRude.cfg` is `TableExact` with a peer that leaves while
its file is being opened, so that callbacks meet deleted and replaced
`ClientInfo`s; `TableCorrect` proves it for every peer.

Why the bounds are enough. Two peers are what it takes for one connection's
number, cell or answer to go to another; two requests are what it takes for an
answer to be out of order or an old job to meet a new one; 2 files tell a body
that belongs to the other head. Two lines and two entries are what it takes for
one rule to overrule another and for a skipped last file to follow a shown one. The
three names of `listing` are the configuration file, a plain name, and a name
with a `#`, which is the `access_rule` setting there: its location leads to the
plain name, so that two redirections follow each other, and 3 hops would let a
third. With 4 descriptors two connections can both send files, with 3 they
compete. Two cells force reuse. Runs with departures
have `CHECK_DEADLOCK FALSE` because a dead worker stops; the others check that
the system never does.
`reader` needs no bound on messages: what a message leaves behind is the
parser, so the state space is finite, and two in a row are all that matters.
`MaxUint` 29 is the least for which a Content-Length of two digits and a chunk
size of two digits are both tested, pass or not; with `MaxHeaderSize` 36 some
messages always pass the limit, some never, and some only after trailers or
where the reads end badly. The messages take every case of the switch, both line
ends, every header the parser knows in every form it tells apart but for the tab
of `reader_tab`, urls with good and bad escapes, and each way to be refused. Two
workers and two connections are what it takes to wake in vain; two descriptors,
for a client and a listing to fill a table; two starts, for a second server to
meet what is left of the first. The connection of `HttpReader` is over when the server
closed it and nothing is left to send, `Listing`'s agent may stop, and a server
that was stopped stays so: these runs have `CHECK_DEADLOCK FALSE`.

What the failing runs show:

* `short_send`: `file_send_done` (184) takes every non-negative count for the
  whole file. The comment at 105 holds that `EV_WRITE` is not needed; for any
  file larger than the free socket buffer it is.
* `entry_taken`: a peer that reacts to its last byte before the loop runs
  `file_send_done` makes the loop free numbers `client_list` still holds, until
  `accept_handler` meets the case it complains about (99) and loses a socket.
  `NumbersOwned` and `ServedInOrder` fail under `quick` or `early_close` for the
  same reason; the politeness `polite` assumes is not
  something the server can enforce.
* `listing_denied`: `permissible` is given the url with its query (34, 198) and
  `regex_match` wants all of it, so the default rules, and any rule that names a
  file and no more, do not see `/.efserv_config?x`; the file is found by the path
  alone and served. `ListingMatchesAnswers` is therefore limited to queries the
  rules do not look at.
* `reader_split`: `on_url` takes a piece for the whole (34-49): `/na` `me` is
  answered for `me`, and a first read that ends within the method leaves the
  rest to a fresh parser, which refuses it. `Tears` names exactly the places
  where this happens; everywhere else reads may end (`HandledAsSent`).
* `reader_tab`: the options of a `Connection` header are looked at as
  `c = LOWER(ch)` (http_parser.c 1532), and `LOWER` of a tab is `)`. The test for
  a tab at 1614, "Skip lws", never holds: after a comma and a tab the value goes
  on as `h_general`, and `Connection: name,<tab>close` loses its close.

What the configurations that are no runs show (each fails its one property):

* `EventLoopTornPage.cfg` (`ServedInOrder`): the same comment at 105, for answers
  made in memory. A `send` that meets a full buffer (`Response.h` 37,
  `Response.cpp` 35) drops the rest, and the next answer follows.
* `EventLoopBounds.cfg` (`InBounds`): `>` should be `>=` at 93.
* `HttpReaderEscape.cfg` (`EscapesAreWhole`): the whole url `/%` fails the
  assertion of `UrlEncode.cpp` 54 and one with `%/0` that of 17: one request ends
  the worker, wherever the reads end.
* `ListingLocation.cfg` (`RedirectionAddsSlash`): `respondRedirection` is given
  the decoded path (236), and nothing encodes it. The directory `c++` is
  redirected to a name with two blanks, which is a 404 or another directory; a
  name with `#` is cut there, and the redirection does not "add a '/'" (235).
  `RedirectedIsDirectory` speaks only of names the location leads back to.
* `ListingAllowed.cfg` (`AllowedByLine`): `config.ini` (35) says that the line
  `+ .efserv_access` permits the file; urls begin with a slash, so it matches
  none. `+ /\.efserv_access` would do.
* `ListingJson.cfg` (`ListingIsJson`): the comma depends on the index of the file
  (`Response.cpp` 119), the skipping on the rules. `.efserv_access` is denied by
  default, so a web root whose `readdir` ends with it has no JSON listing and the
  index page, which fetches `?json`, stays empty.

`config.ini` (12) promises 403 for every directory with `dir_indexs = 0`, but a
directory without its slash is first redirected (235); `RedirectedIsDirectory`
shows that the promise is kept at the location. A request with a body that asks
for an upgrade is given up as soon as a read brought its headers (151);
`HandledAsSent` allows that (`GivenUp`).

Fairness (`Fairness`): weak, per connection, for accepting, reading, the
thread pool and the callbacks. libev invokes every pending watcher each turn,
libeio's queue is first in first out, and so is the backlog; an action that
stays enabled is not passed over for ever. Nothing is assumed of peers. In
`EioPoll` the loop's own steps are weakly fair; that threads finish is not
assumed, since `CalledBack` speaks only of finished requests. In `Workers` each
process that can run does so in the end: weak fairness of the parent's steps,
of each worker's, and of pending signals. That anybody starts the server,
connects, leaves, presses ^C or crashes is not assumed; a client that stays for
ever keeps its descriptor for ever.

`polite` excludes a redirection and `NotLeftWaiting` exempts it: a 301 goes out
with `keep-alive` and no `Content-Length`, so a peer that follows HTTP/1.1 to
the letter waits for the end of a body for ever. With pipelining a redirection
breaks `ServedInOrder` for that reason.

## 5. Theorems

For every value of the constants, that is for any number of peers, cells,
descriptors and requests, and for any `Unruly` where no hypothesis is named:

* `EventLoopProofs!TypeCorrect`: `Spec => []TypeOK`. One lemma per actor; the
  conjunct that needs an argument is `Numbered`: a job's descriptors come from
  a finished `open` and from a `ClientInfo`.
* `EventLoopProofs!TableCorrect`: `Spec => []TableExact`. Inductive together
  with `TypeOK`; the two writers are `AcceptInstall` (which needs the NULL test
  of line 98) and `CloseClient` (which needs that the entry it deletes carries
  its own number). This is why `close_client` never deletes twice, even from a
  stale callback.
* `EventLoopOrderProofs`: `NumbersOwned`, `ServedInOrder`, `HangUpForCause` and
  `EndsForCause`, all under `Orderly`: peers take turns and `client_list` is as
  long as the descriptor table, but `vanish`, `oom` and `short_send` may happen
  at any time, any target may be a listing and any may fail decode's assertions.
  What follows when peers do not take turns is what `entry_taken` shows, so
  nothing is claimed of callbacks in flight then but `TableExact`. None of
  these is inductive. `NumbersOwned` does not say which `ClientInfo` holds a
  number, so `Holdings` gives each number one holder and `JobsMatch` ties each
  job to the live client whose numbers it has. That no second request of the
  client meets the first one's job comes from the peer, so `Turns` places each
  connection's one request: unread, answered in part, or in a job. The delicate
  part is `LeftOpen`: after `eio_sendfile` failed, or fell short, the client
  still holds the file, and the next open would lose its number; it cannot
  come, because the peer is still waiting for the body.
* `EventLoopServiceProofs!BestEffortCorrect`: under `Orderly` every step is one
  of `HttpService!BestEffortNext`, or a stutter; the requests of a connection
  are those answered for and the one still in the socket. `WaitingCorrect`:
  `NotLeftWaiting` when `short_send` and `oom` do not happen.
* `EventLoopServiceProofs!ServiceKept`: `Spec => ImplementsService`, the full
  service, under `Orderly` and `Provided`: no fault happens, no target is a
  listing (its descriptor is lost for good), a redirection (its peer waits for
  a body) or one with a bad escape, there are finitely many peers, and two descriptors for each. The
  instance of `polite` satisfies both hypotheses with not one descriptor to
  spare. `NobodyGivenUp` says who may be waiting and for what: no job fails,
  every request read and not answered is in a job, every request not read is
  behind a connection, whoever left had all answers; TLC checked it on the
  instance of `polite`, and with pages among the targets. It holds because open()
  always finds a number (`NumberLeft`): sockets inject into the peers, open
  files into the peers without the one that asks.
* `EioPollProofs!WakeupKept`: `NoLostWakeup` is inductive with the types.
* `HttpReaderProofs!AssertsKept` and `TypeCorrect`: for any messages, any reads
  and any limits, the assertions of http_parser.c hold and no length or version
  leaves its range. The invariant is per parser: `AssertsHold` with the types
  and the fact that no size of a chunk under way is the value that stands for
  no length; one lemma per group of cases, composed along `Look` for a symbol
  that is looked at up to four times.
* `HttpReaderReadsProofs!ReadsMakeNoDifference` (`ParsedAsMeant`),
  `WholeUrlsAreHandled` (`HandledAsSent`) and `NothingAfterTheLast`
  (`LastIsLast`): where the reads end and what was sent before make no
  difference to what is heard of a message, except through the header count:
  a request that some reads, or trailers before it, bring past the limit is in
  `long`, and the properties say nothing of it. Their one hypothesis, `Clear`, is
  about each message alone, sent first and in one read: it begins with a method
  and is heard as it was meant (`AsMeant`), or it is no request and is refused
  before it is complete, and not for its size (`Refused`). A message whose close
  is behind a tab is not `AsMeant`, so the theorems say nothing of connections
  that carry one; `AsMeant` does not ask of a url with a bad escape what it means,
  and `HandledAsSent` exempts it. That is a finite computation for each message, without connections
  or reads, and says what a test sees that hands `http_parser_execute` one
  buffer. With a limit that lets the longest pass (200, say) it holds of the
  messages of `MCHttpReader`: TLC evaluates `ASSUME Clear` in a module that
  extends both. The theorems
  carry it to connections of any length, cut anywhere. The argument: parsers
  that differ only in what an earlier message left behind (`Alike`) read alike
  (`FeedMatches`, one lemma per group of cases); so after any number of symbols
  the parser that is kept is like `Alone` at the same place (`LibAsAlone`), and
  efserv's is too, has lost its place within a request for good, or is dead
  between two (`ServAsAlone`: `KeepsUp`, `Lost`, `AtDead`). `HandledInOrder`
  follows what is handled. The conjunction, `ReadsInv`, was checked with TLC on
  the instance of `HttpReader.cfg` before it was proved.
* `ListingProofs!RedirectionEnds` and `DirectoryReached`: for any rules, names,
  directories, and whatever the names read as once decoded again. The invariant,
  `LInv`, bounds the hops so far by what the name has lost in length, and says
  that only a url without its slash is answered 301; a location without slash
  names something shorter (`RereadAssumption`), one with it ends the chain. The
  verdict of the rules is left open, so these two proofs do not depend on it.
* `ListingProofs!RulesDecide`: the verdict of `Permissible`, a fold over the
  loaded rules, is that of the last line that matches, the built-in denials
  first. `RulesInv` says the same of the lines read so far; that one more rule
  overrides the others is an induction over the indices the fold runs through.
  `ListingIsJsonWhenLastShown` and `ListingShowsWhatIsServed`: the list under
  way is open, its commas where they belong, and shows the names of the rows
  before (`ListInv`); the first answer is the decision on the name alone
  (`AnswerInv`).
* `WorkersProofs!HerdCost`, `ParentWaits`, `LastLineCounts`, `TypeCorrect`: for
  any numbers of workers, connections, starts and crashes. `LeakBounded` needs
  that a worker woken in vain has not yet spent the loss it is about to make
  (`Watchers`), and speaks only of those not in `starved`; `ParentStays`, that ^C in a parent that has forked has reached
  all it forked, and what a former start left behind (`LeftBehind`);
  `ConfigTakesEffect`, that the map holds what the lines read so far say
  (`SaysUpTo`), and nothing changes it after `bind`.

Assumptions: those stated with the constants (`Site` gives facts for each
target, the limits are natural numbers, `NULL` is no connection, cell or
target; `Messages` are sequences of symbols, `MaxUint` is beyond two hexadecimal
digits' carry, `MaxHeaderSize` is positive, `Reread` is as said above, `Files` are sequences of lines). Liveness (`Answered`,
`Released`, `CalledBack`, `NoneForgotten`, `InterruptStops`, `StartsUp`) is out
of the prover's reach. `CountedFromHere` is model-checked only; every other
safety property of a passing run is the subject of a theorem. Where the proofs need an induction over numbers or over the steps of a fold,
they take the smallest counterexample, which exists because the strict subsets
of a finite set are well-founded (`FS_StrictSubsetOrderingWellFounded`); the
library's induction rules take an operator and cannot be used.

## 6. Not modelled, and what is left

* Of http_parser: responses, `http_parser_parse_url` with its host parser, and
  pausing, none of which efserv uses; the test for control characters.
* `Response`'s texts, `tinyformat`, the templates and static assets, `MimeType`
  (a constant table), logging.
* Of the command line all but `--deamon`; `setWebRoot`; `Ini::parseString` and
  `UrlEncode::encode`, which nothing calls.
* Words longer than `MAX_KV_SIZE` on a configuration line, and what `exit` and
  the log do inside a signal handler: undefined behaviour that no state of these
  models depends on.
* The inside of libev, libeio and the kernel, modelled as the code uses them.

What would add most next: a web root that changes between the listing and the
next request, and a weaker `Clear`, proved of http_parser's own cases instead of
assumed of the messages.
