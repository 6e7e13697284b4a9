------------------------------- MODULE Listing -------------------------------
(***************************************************************************)
(* A server that has read its rule file lists the web root for "?json",    *)
(* and a user agent then asks for nodes by name and follows redirections.  *)
(* Loading the rules and listing the directory are loops, one action a     *)
(* round: what a round does depends on the rounds before and on how many   *)
(* are left.                                                               *)
(***************************************************************************)
EXTENDS AccessRule, Respond

CONSTANTS MaxLines,    \* bound: lines in the rule file
          MaxEntries,  \* bound: entries in the directory
          MaxHops,     \* bound: redirections followed
          Reread,      \* the url a location is, for the name it was made of,
          Length       \* and the length of that name

\* A location holds the name as it is, and is decoded when it comes back as a
\* request: the server may find another name in it.  It ends in a slash and a
\* query, unless the name has a '#', where agents cut it, or a '?'.  (Names
\* with a percent sign whose location does not decode are left out.)
ASSUME MaxHopsAssumption == MaxHops \in Nat
ASSUME RereadAssumption ==
    /\ Reread \in [Names -> Urls] /\ Length \in [Names -> Nat]
    /\ \A n \in Names : ~Reread[n].slash => Length[Reread[n].of] < Length[n]

\* An entry as readdir() finds it.  stat() and realpath() both follow a link:
\* kind and getName() are those of its target, of which only the last name is
\* kept.  The name realpath() leaves for a dangling link is unspecified.  Links
\* stay inside the web root.
IsLink(e) == e.real # e.name
Entries == {e \in [name : Names, real : Names, kind : {"file", "dir", "absent"}] :
                e.kind = "absent" => IsLink(e)}

VARIABLES text,   \* the lines of the rule file
          dir,    \* the web root in the order of readdir()
          dirIndexs,  \* the dir_indexs setting
          line,   \* next line to read
          rules,  \* AccessRule::rules
          row,    \* next file to list, or 0 before the listing
          json,   \* the list so far: brackets, commas and the names shown
          asked,  \* the url the agent asked for,
          at,     \* the url it was redirected to since, if it was,
          answer, \* the last answer, or "none",
          hops    \* and the redirections followed

given == <<text, dir, dirIndexs>>
agent == <<asked, at, answer, hops>>
vars  == <<given, line, rules, row, json, agent>>

SeqsUpTo(S, n) == UNION {[1..k -> S] : k \in 0..n}
Directories == {d \in SeqsUpTo(Entries, MaxEntries) :
                    \A i, j \in DOMAIN d : i # j => d[i].name # d[j].name}

Init == /\ text \in SeqsUpTo(Lines, MaxLines)
        /\ dir \in Directories /\ dirIndexs \in BOOLEAN
        /\ line = 1 /\ rules = BuiltInRules
        /\ row = 0 /\ json = <<>>
        /\ asked = Bare(ConfigName) /\ at = asked /\ answer = "none" /\ hops = 0

Open      == <<"[">>
Close     == <<"]">>
Comma     == <<",">>
Object(n) == <<"object", n>>

Loaded == line > Len(text)
Listed == json # <<>> /\ json[Len(json)] = Close
Shown  == {n \in Names : Object(n) \in ToSet(json)}

\* loadAccessRule: a line that makes no rule is passed over.
LoadLine ==
    /\ ~Loaded
    /\ rules' = ReadLine(rules, text[line])
    /\ line' = line + 1
    /\ UNCHANGED <<given, row, json, agent>>

\* respondIndexs asks the rules about the name it is going to show.
ShowsAll(e) == TRUE  \* mutant: denied names are not passed over
Shows(e) == Permissible(rules, Bare(e.real))

\* Only the last file of the directory goes without a comma.
SeparatorNever(i) == <<>>  \* mutant: no commas
Separator(i) == IF i = Len(dir) THEN <<>> ELSE <<Comma>>

BeginList == /\ Loaded /\ row = 0
             /\ row' = 1 /\ json' = <<Open>>
             /\ UNCHANGED <<given, line, rules, agent>>
ListFile  == /\ row \in DOMAIN dir
             /\ json' = IF Shows(dir[row])
                        THEN json \o <<Object(dir[row].real)>> \o Separator(row)
                        ELSE json
             /\ row' = row + 1
             /\ UNCHANGED <<given, line, rules, agent>>
EndList   == /\ row > Len(dir) /\ ~Listed
             /\ json' = Append(json, Close)
             /\ UNCHANGED <<given, line, rules, row, agent>>

\* What the server finds under a url: the rules see all of it, stat() the path.
KindOf(n) == IF \E i \in DOMAIN dir : dir[i].name = n
             THEN (CHOOSE e \in ToSet(dir) : e.name = n).kind
             ELSE "absent"
FactsOf(url) == [permitted |-> Permissible(rules, url), webRoot |-> KindOf(url.of),
                 builtIn |-> "absent", contained |-> TRUE, slash |-> url.slash]
Location(url) == Reread[url.of]

\* One question is enough, as the server keeps nothing of it.
Ask(n, q) == /\ Listed /\ answer = "none"
             /\ asked' = [Bare(n) EXCEPT !.query = q] /\ at' = asked' /\ hops' = 0
             /\ answer' = Answer(FactsOf(asked'), dirIndexs)
             /\ UNCHANGED <<given, line, rules, row, json>>
Follow == /\ answer = "301" /\ hops < MaxHops
          /\ at' = Location(at) /\ hops' = hops + 1
          /\ answer' = Answer(FactsOf(at'), dirIndexs)
          /\ UNCHANGED <<given, line, rules, row, json, asked>>

Next == LoadLine \/ BeginList \/ ListFile \/ EndList \/ (\E n \in Names, q \in BOOLEAN : Ask(n, q))
            \/ Follow
Spec == Init /\ [][Next]_vars

\* Read from the rule file itself: the last line that speaks of a url decides,
\* and where none does, all but the two configuration files is permitted.
FileSays(url) ==
    LET hits == {i \in DOMAIN text : url \in text[i].matches}
    IN  IF hits = {} THEN url \notin {Bare(ConfigName), Bare(RuleFileName)}
        ELSE \E i \in hits : text[i].permitted /\ \A j \in hits : j <= i

\* The rules loaded and the loop of permissible decide as config.ini says of
\* the file: "the last rule will be effective".
LastRuleDecides == Loaded => \A url \in Urls : Permissible(rules, url) = FileSays(url)

\* config.ini: "by default, .efserv_access itself and .efserv_config in web
\* root is denied": without a line in the rule file, no request opens them.
DeniedByDefault ==
    text = <<>> /\ at.of \in {ConfigName, RuleFileName} => answer # "open"

\* config.ini: "you can allow it by add line + .efserv_access": that line, as
\* the last one, permits the file.
AllowedByLine ==
    \A n \in {ConfigName, RuleFileName} :
        Loaded /\ text # <<>> /\ Last(text) = Lift(n) => Permissible(rules, Bare(n))

\* Without links, the listing shows a name if and only if the server has an
\* answer other than 403 or 404 to who asks for it: nothing denied or missing
\* is shown, nothing permitted is hidden.  With a query too, as long as the
\* rules say the same of the name with it as without.
HasLinks == \E i \in DOMAIN dir : IsLink(dir[i])
SameToRules(url) == Permissible(rules, url) = Permissible(rules, Bare(url.of))
ListingMatchesAnswers ==
    answer # "none" /\ hops = 0 /\ ~HasLinks /\ SameToRules(asked) =>
        (asked.of \in Shown <=> answer \in {"open", "301"})

\* No user agent is sent round in circles, whatever a location reads as when
\* it comes back: each redirection but the last is to a shorter name.
RedirectionsEnd == answer = "301" => hops + Length[at.of] <= Length[asked.of]

\* Who asked for a directory whose name its location leads back to is
\* redirected once and in the end answered as one who asked for a directory:
\* never with a file, never as if nothing were there, and with a listing only
\* if dir_indexs allows it.
LeadsBack(n) == Reread[n].of = n /\ Reread[n].slash
RedirectedIsDirectory ==
    hops > 0 /\ LeadsBack(asked.of) =>
        /\ hops = 1 /\ KindOf(asked.of) = "dir"
        /\ answer \in (IF dirIndexs THEN {"index", "403"} ELSE {"403"})

\* EventLoop.cpp: "redirect to add a '/'": the location is the directory asked
\* for, with a slash.
RedirectionAddsSlash == hops > 0 => at.of = asked.of /\ at.slash

\* A list is JSON: objects between brackets, one comma between two.
WellFormed(list) ==
    \A i \in 1..Len(list) - 1 :
        /\ list[i] \in {Open, Comma} =>
               list[i + 1] \notin {Open, Comma} /\ (list[i] = Comma => list[i + 1] # Close)
        /\ list[i] \notin {Open, Comma} => list[i + 1] \in {Comma, Close}

\* The list is JSON when its last file is shown or no file is.
JsonIfLastShown ==
    Listed /\ (Shown = {} \/ Shows(dir[Len(dir)])) => WellFormed(json)

\* respondIndexs sends the list as "application/json".
ListingIsJson == Listed => WellFormed(json)
==============================================================================
