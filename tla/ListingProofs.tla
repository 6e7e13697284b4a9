----------------------------- MODULE ListingProofs -----------------------------
(***************************************************************************)
(* The listing and the rules for every rule file, every directory and      *)
(* every set of names and patterns: that the fold of permissible is the    *)
(* last match, that rules loaded line by line say what the file says, that *)
(* the listing shows what may be asked for and is JSON when it can be, and *)
(* where redirections lead.  The verdict of the rules is left open where   *)
(* redirections are concerned.                                             *)
(***************************************************************************)
EXTENDS Listing, TLAPS, FiniteSetTheorems

\* What a request for a listed directory may be answered.
DirAnswers(d) == IF d THEN {"index", "403"} ELSE {"403"}

\* The entries are what readdir() finds; a redirection is the answer to a
\* request for a directory without its slash, and each used up some of the name
\* that was asked for.
LInv ==
    /\ dirIndexs \in BOOLEAN
    /\ \A i \in DOMAIN dir : dir[i] \in Entries
    /\ asked \in Urls /\ ~asked.slash /\ at \in Urls /\ hops \in Nat
    /\ hops = 0 => at = asked
    /\ answer = "301" => /\ ~at.slash /\ KindOf(at.of) = "dir"
                         /\ hops + Length[at.of] <= Length[asked.of]
    /\ hops > 0 /\ LeadsBack(asked.of) =>
          hops = 1 /\ KindOf(asked.of) = "dir" /\ answer \in DirAnswers(dirIndexs)

\* respond_to_client redirects only directories, and never a path that ends in
\* a slash, which it lists or refuses.
LEMMA RedirectionIs ==
    ASSUME NEW f, NEW d \in BOOLEAN, f.webRoot \in Kinds, f.builtIn = "absent"
    PROVE  /\ Answer(f, d) = "301" => f.webRoot = "dir" /\ ~f.slash
           /\ f.slash /\ f.webRoot = "dir" => Answer(f, d) \in DirAnswers(d)
<1>1. Found(f) = f.webRoot
    BY DEF Found, Kinds
<1>2. CASE Forbidden(f)
    BY <1>2 DEF Answer, DirAnswers
<1>3. CASE ~Forbidden(f)
    BY <1>1, <1>3 DEF Answer, Redirects, Kinds, DirAnswers
<1> QED
    BY <1>2, <1>3

\* The node stat() finds under a name is of a kind the decision knows.
LEMMA KindOfIsKind ==
    ASSUME \A i \in DOMAIN dir : dir[i] \in Entries, NEW n
    PROVE  KindOf(n) \in Kinds
<1>1. CASE \E i \in DOMAIN dir : dir[i].name = n
  <2>1. \E e \in ToSet(dir) : e.name = n
      BY <1>1 DEF ToSet
  <2>2. \A e \in ToSet(dir) : e \in Entries
      BY DEF ToSet
  <2>3. (CHOOSE e \in ToSet(dir) : e.name = n) \in Entries
      BY <2>1, <2>2
  <2> QED
      BY <1>1, <2>3 DEF KindOf, Entries, Kinds
<1>2. CASE ~\E i \in DOMAIN dir : dir[i].name = n
    BY <1>2 DEF KindOf, Kinds
<1> QED
    BY <1>1, <1>2

\* The decision on a url the agent asks for.
LEMMA AnswerFor ==
    ASSUME LInv, NEW url
    PROVE  /\ Answer(FactsOf(url), dirIndexs) = "301" => KindOf(url.of) = "dir" /\ ~url.slash
           /\ url.slash /\ KindOf(url.of) = "dir" =>
                 Answer(FactsOf(url), dirIndexs) \in DirAnswers(dirIndexs)
<1> DEFINE f == FactsOf(url)
<1>1. f.webRoot = KindOf(url.of) /\ f.builtIn = "absent" /\ f.slash = url.slash
    BY DEF FactsOf
<1>2. f.webRoot \in Kinds
    BY <1>1, KindOfIsKind DEF LInv
<1>3. dirIndexs \in BOOLEAN
    BY DEF LInv
<1> HIDE DEF f
<1>4. Answer(f, dirIndexs) = "301" => f.webRoot = "dir" /\ ~f.slash
    BY <1>1, <1>2, <1>3, RedirectionIs
<1>5. f.slash /\ f.webRoot = "dir" => Answer(f, dirIndexs) \in DirAnswers(dirIndexs)
    BY <1>1, <1>2, <1>3, RedirectionIs
<1> QED
    BY <1>1, <1>4, <1>5 DEF f

\* Nothing was asked yet.
LEMMA LInvInit == Init => LInv
<1> SUFFICES ASSUME Init PROVE LInv
    OBVIOUS
<1>1. \A i \in DOMAIN dir : dir[i] \in Entries
    BY DEF Init, Directories, SeqsUpTo
<1>2. Bare(ConfigName) \in Urls /\ ~Bare(ConfigName).slash
    BY NamesAssumption DEF Bare, Urls
<1> QED
    BY <1>1, <1>2 DEF Init, LInv

\* Only Ask and Follow answer; the rest leaves the directory and the agent be.
LEMMA LInvStep == LInv /\ [Next]_vars => LInv'
<1> SUFFICES ASSUME LInv, [Next]_vars PROVE LInv'
    OBVIOUS
<1>1. ASSUME UNCHANGED <<given, agent>>
      PROVE  LInv'
    BY <1>1 DEF LInv, KindOf, DirAnswers, given, agent
<1>2. CASE LoadLine
    BY <1>1, <1>2 DEF LoadLine
<1>3. CASE BeginList
    BY <1>1, <1>3 DEF BeginList
<1>4. CASE ListFile
    BY <1>1, <1>4 DEF ListFile
<1>5. CASE EndList
    BY <1>1, <1>5 DEF EndList
<1>6. CASE UNCHANGED vars
    BY <1>1, <1>6 DEF vars
<1>7. ASSUME NEW n \in Names, NEW q \in BOOLEAN, Ask(n, q)
      PROVE  LInv'
  <2> DEFINE url == [Bare(n) EXCEPT !.query = q]
  <2>1. UNCHANGED given /\ asked' = url /\ at' = url /\ hops' = 0
      BY <1>7 DEF Ask
  <2>2. url \in Urls /\ ~url.slash /\ url.of \in Names
      BY DEF Bare, Urls
  <2> HIDE DEF url
  <2>3. answer' = "301" => KindOf(url.of) = "dir"
      BY <1>7, <2>1, AnswerFor DEF Ask
  <2>4. Length[url.of] \in Nat
      BY <2>2, RereadAssumption
  <2>5. KindOf(url.of)' = KindOf(url.of)
      BY <2>1 DEF KindOf, given
  <2>6. KindOf(at.of)' = KindOf(url.of)
      BY <2>1, <2>5 DEF KindOf
  <2> QED
      BY <2>1, <2>2, <2>3, <2>4, <2>6 DEF LInv, given
<1>8. CASE Follow
  <2>1. /\ UNCHANGED given /\ asked' = asked /\ hops' = hops + 1 /\ answer = "301"
        /\ at' = Reread[at.of] /\ answer' = Answer(FactsOf(at'), dirIndexs)
      BY <1>8 DEF Follow, Location
  <2>2. /\ at.of \in Names /\ asked.of \in Names /\ hops \in Nat
        /\ ~at.slash /\ KindOf(at.of) = "dir"
        /\ hops + Length[at.of] <= Length[asked.of]
      BY <2>1 DEF LInv, Urls
  <2>3. at' \in Urls /\ at'.of \in Names /\ Length[at'.of] \in Nat
      BY <2>1, <2>2, RereadAssumption DEF Urls
  <2>4. KindOf(at'.of) = KindOf(at.of)' /\ KindOf(asked.of)' = KindOf(asked.of)
      BY <2>1 DEF KindOf, given
  <2>5. ASSUME answer' = "301"
        PROVE  /\ ~at'.slash /\ KindOf(at'.of) = "dir"
               /\ hops' + Length[at'.of] <= Length[asked.of]
    <3>1. ~at'.slash /\ KindOf(at'.of) = "dir"
        BY <2>1, <2>5, AnswerFor
    <3>2. Length[at'.of] < Length[at.of] /\ Length[at.of] \in Nat /\ Length[asked.of] \in Nat
        BY <2>1, <2>2, <3>1, RereadAssumption
    <3> QED
        BY <2>1, <2>2, <2>3, <3>1, <3>2
  <2>6. ASSUME LeadsBack(asked.of)
        PROVE  hops' = 1 /\ KindOf(asked.of) = "dir" /\ answer' \in DirAnswers(dirIndexs)
    <3>1. hops = 0
        BY <2>1, <2>2, <2>6 DEF LInv, DirAnswers
    <3>2. at = asked
        BY <3>1 DEF LInv
    <3>3. at'.of = asked.of /\ at'.slash
        BY <2>1, <2>6, <3>2 DEF LeadsBack
    <3> QED
        BY <2>1, <2>2, <3>1, <3>2, <3>3, AnswerFor
  <2> QED
      BY <2>1, <2>2, <2>3, <2>4, <2>5, <2>6 DEF LInv, LeadsBack, DirAnswers, given
<1> QED
    BY <1>2, <1>3, <1>4, <1>5, <1>6, <1>7, <1>8 DEF Next

\* Nobody is sent round in circles, whatever names the locations read as: every
\* redirection but the last is to a shorter name.
THEOREM RedirectionEnds == Spec => []RedirectionsEnd
<1>1. LInv => RedirectionsEnd
    BY DEF LInv, RedirectionsEnd
<1> QED
    BY <1>1, LInvInit, LInvStep, PTL DEF Spec

\* A directory whose name its location leads back to is reached by one
\* redirection, and answered as a directory.
THEOREM DirectoryReached == Spec => []RedirectedIsDirectory
<1>1. LInv => RedirectedIsDirectory
    BY DEF LInv, RedirectedIsDirectory, DirAnswers
<1> QED
    BY <1>1, LInvInit, LInvStep, PTL DEF Spec

-----------------------------------------------------------------------------
(* The last match.  Induction over the rules is taken from the fact that   *)
(* every family of subsets of 1..n has a smallest member.                  *)

Positions(n) == SUBSET (1..n)
Families(n) == SUBSET SUBSET (1..n)

\* A family of sets of positions has a smallest member.
LEMMA SmallestSubset ==
    ASSUME NEW n \in Nat, NEW T \in Families(n), T # {}
    PROVE  \E s \in T : \A t \in T : ~(t \subseteq s /\ t # s)
<1>1. IsFiniteSet(1..n)
    BY FS_Interval
<1>2. IsWellFoundedOn(StrictSubsetOrdering(1..n), SUBSET (1..n))
    BY <1>1, FS_StrictSubsetOrderingWellFounded, FS_FiniteSubsetsOfFinite
<1>3. PICK s \in T : \A t \in T : ~(<<t, s>> \in StrictSubsetOrdering(1..n))
    BY <1>2, WFMin DEF Families
<1> QED
    BY <1>3 DEF StrictSubsetOrdering, Families

\* A set of positions has a last one.
LEMMA MaxIsLast ==
    ASSUME NEW n \in Nat, NEW s \in SUBSET (1..n), s # {}
    PROVE  Max(s) \in s /\ \A i \in s : i <= Max(s)
<1> DEFINE from(k) == {i \in s : i >= k}
           T == {from(k) : k \in s}
<1>1. T \in Families(n) /\ T # {}
    BY DEF Families
<1>2. PICK t \in T : \A u \in T : ~(u \subseteq t /\ u # t)
    <2> HIDE DEF T
    <2> QED
        BY <1>1, SmallestSubset
<1>3. PICK k \in s : t = from(k)
    OBVIOUS
<1>4. \A i \in s : k >= i
    <2> SUFFICES ASSUME NEW i \in s, ~(k >= i) PROVE FALSE
        OBVIOUS
    <2>1. i \in Nat /\ k \in Nat /\ i > k
        OBVIOUS
    <2>2. ASSUME NEW x \in from(i) PROVE x \in from(k)
        <3>1. x \in s /\ x \in Nat /\ x >= i
            OBVIOUS
        <3> QED
            BY <2>1, <3>1
    <2>3. k \notin from(i) /\ k \in from(k)
        BY <2>1
    <2>4. from(i) \in T
        OBVIOUS
    <2> HIDE DEF from, T
    <2> QED
        BY <1>2, <1>3, <2>2, <2>3, <2>4
<1>5. Max(s) \in s /\ \A i \in s : Max(s) >= i
    <2>1. \E m \in s : \A i \in s : m >= i
        BY <1>4
    <2> QED
        BY <2>1 DEF Max
<1> QED
    BY <1>5

\* The rules among those at positions s that match, and what the last says.
Hits(rs, url, s) == {i \in s : url \in rs[i].matches}
Verdict(rs, url, s) == IF Hits(rs, url, s) = {} THEN TRUE
                       ELSE rs[Max(Hits(rs, url, s))].permitted

\* Taking the last position away from s.
LEMMA VerdictStep ==
    ASSUME NEW rs, NEW url, NEW n \in Nat, NEW s \in Positions(n), s # {}
    PROVE  /\ url \in rs[Max(s)].matches => Verdict(rs, url, s) = rs[Max(s)].permitted
           /\ url \notin rs[Max(s)].matches =>
                  Verdict(rs, url, s) = Verdict(rs, url, s \ {Max(s)})
<1>1. Max(s) \in s /\ \A i \in s : i <= Max(s)
    BY MaxIsLast DEF Positions
<1>2. CASE url \in rs[Max(s)].matches
    <2>1. Max(s) \in Hits(rs, url, s) /\ Hits(rs, url, s) \in SUBSET (1..n)
        BY <1>1, <1>2 DEF Hits, Positions
    <2>2. /\ Max(Hits(rs, url, s)) \in Hits(rs, url, s)
          /\ \A i \in Hits(rs, url, s) : i <= Max(Hits(rs, url, s))
        BY <2>1, MaxIsLast
    <2>3. Max(Hits(rs, url, s)) = Max(s)
        BY <1>1, <2>1, <2>2 DEF Hits
    <2> QED
        BY <1>2, <2>1, <2>3 DEF Verdict
<1>3. CASE url \notin rs[Max(s)].matches
    <2>1. Hits(rs, url, s) = Hits(rs, url, s \ {Max(s)})
        BY <1>3 DEF Hits
    <2> QED
        BY <1>3, <2>1 DEF Verdict
<1> QED
    BY <1>2, <1>3

\* The function FoldLeft recurs with, from the last rule down.
Iter(rs, url) == CHOOSE iter : iter = [s \in SUBSET DOMAIN rs |->
                     IF s = {} THEN TRUE
                     ELSE LET x == Max(s)
                          IN  IF url \in rs[x].matches THEN rs[x].permitted
                              ELSE iter[s \ {x}]]

\* permissible's loop over all rules.
LEMMA PermissibleIs ==
    ASSUME NEW rs, NEW url PROVE Permissible(rs, url) = Iter(rs, url)[DOMAIN rs]
BY DEF Permissible, FoldLeft, MapThenFoldSet, Iter

\* permissible gives the verdict of the last rule that matches: Verdict solves
\* the equation of Iter, and two solutions differ nowhere, as they would first
\* differ at a set whose last position, taken away, leaves a smaller one.
LEMMA LastMatchDecides ==
    ASSUME NEW rs, NEW n \in Nat, DOMAIN rs = 1..n, NEW url
    PROVE  Permissible(rs, url) = Verdict(rs, url, 1..n)
<1> DEFINE F(g) == [s \in SUBSET (1..n) |->
                        IF s = {} THEN TRUE
                        ELSE LET x == Max(s)
                             IN  IF url \in rs[x].matches THEN rs[x].permitted
                                 ELSE g[s \ {x}]]
           G == [s \in SUBSET (1..n) |-> Verdict(rs, url, s)]
           J == Iter(rs, url)
<1>1. G = F(G)
    <2>1. \A s \in SUBSET (1..n) : s # {} => s \ {Max(s)} \in SUBSET (1..n)
        OBVIOUS
    <2>2. Verdict(rs, url, {}) = TRUE
        BY DEF Verdict, Hits
    <2>3. ASSUME NEW s \in Positions(n), s # {}
          PROVE  Verdict(rs, url, s) = IF url \in rs[Max(s)].matches THEN rs[Max(s)].permitted
                                       ELSE Verdict(rs, url, s \ {Max(s)})
        BY <2>3, VerdictStep
    <2> QED
        BY <2>1, <2>2, <2>3 DEF Positions
<1>2. J = F(J)
    <2>1. J = CHOOSE g : g = F(g)
        BY DEF Iter
    <2> HIDE DEF F, G, J
    <2> QED
        BY <1>1, <2>1
<1>3. J[1..n] = G[1..n]
    <2> DEFINE T == {s \in SUBSET (1..n) : J[s] # G[s]}
    <2> SUFFICES ASSUME T # {} PROVE FALSE
        OBVIOUS
    <2> HIDE DEF F, G, J
    <2>1. T \in Families(n)
        BY DEF Families
    <2>2. PICK s \in T : \A t \in T : ~(t \subseteq s /\ t # s)
        <3> HIDE DEF T
        <3> QED
            BY <2>1, SmallestSubset
    <2>3. s # {}
        <3>1. J[{}] = TRUE /\ G[{}] = TRUE
            BY <1>1, <1>2 DEF F
        <3> QED
            BY <2>2, <3>1
    <2>4. Max(s) \in s
        BY <2>3, MaxIsLast
    <2>5. J[s \ {Max(s)}] = G[s \ {Max(s)}]
        BY <2>2, <2>4
    <2>6. J[s] = IF url \in rs[Max(s)].matches THEN rs[Max(s)].permitted ELSE J[s \ {Max(s)}]
        BY <1>2, <2>2, <2>3 DEF F
    <2>7. G[s] = IF url \in rs[Max(s)].matches THEN rs[Max(s)].permitted ELSE G[s \ {Max(s)}]
        BY <1>1, <2>2, <2>3 DEF F
    <2>8. J[s] # G[s]
        BY <2>2
    <2> QED
        BY <2>5, <2>6, <2>7, <2>8
<1> QED
    BY <1>3, PermissibleIs

\* Rules from the file and the two that are built in.
AnyRules == [permitted : BOOLEAN, matches : SUBSET Urls]

\* A rule read later decides where it matches, and changes nothing elsewhere.
LEMMA PermissibleAppend ==
    ASSUME NEW rs \in Seq(AnyRules), NEW r \in AnyRules, NEW url
    PROVE  /\ url \in r.matches => Permissible(Append(rs, r), url) = r.permitted
           /\ url \notin r.matches => Permissible(Append(rs, r), url) = Permissible(rs, url)
<1> DEFINE n == Len(rs)
           more == Append(rs, r)
<1>1. /\ n \in Nat /\ DOMAIN rs = 1..n /\ DOMAIN more = 1..(n + 1)
      /\ more[n + 1] = r /\ \A i \in 1..n : more[i] = rs[i]
    OBVIOUS
<1>2. Max(1..(n + 1)) = n + 1
    <2>1. /\ Max(1..(n + 1)) \in 1..(n + 1)
          /\ \A i \in 1..(n + 1) : i <= Max(1..(n + 1))
        <3> DEFINE s == 1..(n + 1)
        <3>1. s \in SUBSET (1..(n + 1)) /\ s # {} /\ n + 1 \in Nat
            BY <1>1
        <3>2. Max(s) \in s /\ \A i \in s : i <= Max(s)
            <4> HIDE DEF s
            <4> QED
                BY <3>1, MaxIsLast
        <3> QED
            BY <3>2
    <2> QED
        BY <1>1, <2>1
<1>3. (1..(n + 1)) \ {n + 1} = 1..n
    BY <1>1
<1> HIDE DEF n, more
<1>4. Verdict(more, url, 1..n) = Verdict(rs, url, 1..n)
    <2>1. Hits(more, url, 1..n) = Hits(rs, url, 1..n)
        BY <1>1 DEF Hits
    <2>2. Hits(rs, url, 1..n) # {} => Max(Hits(rs, url, 1..n)) \in 1..n
        <3>1. Hits(rs, url, 1..n) \in SUBSET (1..n)
            BY DEF Hits
        <3> QED
            BY <1>1, <3>1, MaxIsLast
    <2> QED
        BY <1>1, <2>1, <2>2 DEF Verdict
<1>5. Permissible(more, url) = Verdict(more, url, 1..(n + 1))
    BY <1>1, LastMatchDecides
<1>6. Permissible(rs, url) = Verdict(rs, url, 1..n)
    BY <1>1, LastMatchDecides
<1>7. /\ url \in r.matches => Verdict(more, url, 1..(n + 1)) = r.permitted
      /\ url \notin r.matches => Verdict(more, url, 1..(n + 1)) = Verdict(more, url, 1..n)
    <2> DEFINE m == n + 1
               s == 1..m
    <2>1. s \in Positions(m) /\ s # {} /\ m \in Nat
        <3>1. m \in Nat /\ m \in 1..m
            BY <1>1
        <3> QED
            BY <3>1 DEF Positions
    <2>2. /\ url \in more[Max(s)].matches => Verdict(more, url, s) = more[Max(s)].permitted
          /\ url \notin more[Max(s)].matches =>
                 Verdict(more, url, s) = Verdict(more, url, s \ {Max(s)})
        <3> HIDE DEF m, s
        <3> QED
            BY <2>1, VerdictStep
    <2> QED
        BY <1>1, <1>2, <1>3, <2>2
<1> QED
    BY <1>4, <1>5, <1>6, <1>7 DEF more

-----------------------------------------------------------------------------
(* The rules                                                               *)

\* What the lines before k say of a url: FileSays of that part of the file.
SaidBefore(k, url) ==
    LET hits == {i \in DOMAIN text : i < k /\ url \in text[i].matches}
    IN  IF hits = {} THEN url \notin {Bare(ConfigName), Bare(RuleFileName)}
        ELSE \E i \in hits : text[i].permitted /\ \A j \in hits : j <= i

\* The rules loaded so far decide as the lines read so far say.
RulesInv ==
    /\ text \in Seq(Lines) /\ line \in 1..Len(text) + 1
    /\ rules \in Seq(AnyRules)
    /\ \A url \in Urls : Permissible(rules, url) = SaidBefore(line, url)

\* Before the file is read, the two built-in rules decide.
LEMMA BuiltInSays ==
    ASSUME NEW url \in Urls
    PROVE  /\ BuiltInRules \in Seq(AnyRules)
           /\ Permissible(BuiltInRules, url) = (url \notin {Bare(ConfigName), Bare(RuleFileName)})
<1> DEFINE d1 == Deny(ConfigName)
           d2 == Deny(RuleFileName)
<1>1. /\ d1 \in AnyRules /\ d1.permitted = FALSE /\ d1.matches = {Bare(ConfigName)}
      /\ d2 \in AnyRules /\ d2.permitted = FALSE /\ d2.matches = {Bare(RuleFileName)}
    <2>1. ASSUME NEW n \in Names PROVE Accepted(TRUE, n) = {Bare(n)} /\ Bare(n) \in Urls
        <3>1. Bare(n) \in Urls
            BY DEF Bare, Urls
        <3>2. \A u : u \in Accepted(TRUE, n) <=> u \in {Bare(n)}
            BY <3>1, Zenon DEF Accepted
        <3>3. Accepted(TRUE, n) \in SUBSET Urls
            BY Zenon DEF Accepted
        <3> QED
            BY <3>1, <3>2, Zenon
    <2>2. ConfigName \in Names /\ RuleFileName \in Names
        BY NamesAssumption
    <2> QED
        BY <2>1, <2>2 DEF Deny, AnyRules
<1> HIDE DEF d1, d2
<1> DEFINE none == <<>>
           one == Append(none, d1)
<1>2. none \in Seq(AnyRules) /\ one \in Seq(AnyRules) /\ Append(one, d2) \in Seq(AnyRules)
    BY <1>1
<1>3. Permissible(none, url) = TRUE
    <2>1. DOMAIN none = 1..0 /\ Hits(none, url, 1..0) = {}
        BY DEF Hits
    <2>2. Permissible(none, url) = Verdict(none, url, 1..0)
        BY <2>1, LastMatchDecides
    <2> QED
        BY <2>1, <2>2 DEF Verdict
<1> HIDE DEF none
<1>4. /\ url \in d1.matches => Permissible(one, url) = FALSE
      /\ url \notin d1.matches => Permissible(one, url) = TRUE
    BY <1>1, <1>2, <1>3, PermissibleAppend
<1> HIDE DEF one
<1>5. /\ url \in d2.matches => Permissible(Append(one, d2), url) = FALSE
      /\ url \notin d2.matches => Permissible(Append(one, d2), url) = Permissible(one, url)
    BY <1>1, <1>2, PermissibleAppend
<1>6. BuiltInRules = Append(one, d2)
    BY DEF BuiltInRules, none, one, d1, d2
<1>7. Permissible(Append(one, d2), url) = (url \notin {Bare(ConfigName), Bare(RuleFileName)})
    <2>1. CASE url \in d2.matches
        BY <1>1, <1>5, <2>1
    <2>2. CASE url \notin d2.matches /\ url \in d1.matches
        BY <1>1, <1>4, <1>5, <2>2
    <2>3. CASE url \notin d2.matches /\ url \notin d1.matches
        BY <1>1, <1>4, <1>5, <2>3
    <2> QED
        BY <2>1, <2>2, <2>3
<1> QED
    BY <1>2, <1>6, <1>7

\* Nothing was read yet.
LEMMA RulesInvInit == Init => RulesInv
<1> SUFFICES ASSUME Init PROVE RulesInv
    OBVIOUS
<1>1. text \in Seq(Lines)
    <2>1. PICK k \in 0..MaxLines : text \in [1..k -> Lines]
        BY DEF Init, SeqsUpTo
    <2> QED
        BY <2>1
<1>2. line = 1 /\ rules = BuiltInRules
    BY DEF Init
<1>3. ASSUME NEW url \in Urls
      PROVE  SaidBefore(line, url) = (url \notin {Bare(ConfigName), Bare(RuleFileName)})
    <2>1. {i \in DOMAIN text : i < 1 /\ url \in text[i].matches} = {}
        BY <1>1
    <2> QED
        BY <1>2, <2>1 DEF SaidBefore
<1>4. BuiltInRules \in Seq(AnyRules)
    <2>1. Bare(ConfigName) \in Urls
        BY NamesAssumption DEF Bare, Urls
    <2> QED
        BY <2>1, BuiltInSays
<1> QED
    BY <1>1, <1>2, <1>3, <1>4, BuiltInSays DEF RulesInv

\* A line adds what it says.
LEMMA RulesInvStep == RulesInv /\ [Next]_vars => RulesInv'
<1> SUFFICES ASSUME RulesInv, [Next]_vars PROVE RulesInv'
    OBVIOUS
<1>1. ASSUME UNCHANGED <<text, line, rules>> PROVE RulesInv'
    BY <1>1 DEF RulesInv, SaidBefore
<1>2. CASE LoadLine
    <2>1. /\ line <= Len(text) /\ line' = line + 1 /\ text' = text
          /\ rules' = ReadLine(rules, text[line])
        BY <1>2 DEF LoadLine, Loaded, given, RulesInv
    <2>2. line \in DOMAIN text /\ text[line] \in Lines
        BY <2>1 DEF RulesInv
    <2>3. CASE text[line] = Ignored
        <3>1. text[line].matches = {} /\ rules' = rules
            BY <2>1, <2>3 DEF Ignored, ReadLine
        <3>2. \A url \in Urls : SaidBefore(line + 1, url) = SaidBefore(line, url)
            <4> TAKE url \in Urls
            <4>1. {i \in DOMAIN text : i < line + 1 /\ url \in text[i].matches}
                  = {i \in DOMAIN text : i < line /\ url \in text[i].matches}
                BY <3>1 DEF RulesInv
            <4> QED
                BY <4>1 DEF SaidBefore
        <3>3. (\A url \in Urls : Permissible(rules, url) = SaidBefore(line, url))'
            <4>1. \A url \in Urls : Permissible(rules', url) = SaidBefore(line + 1, url)
                BY <3>1, <3>2 DEF RulesInv
            <4> QED
                BY <2>1, <4>1 DEF SaidBefore
        <3> QED
            BY <2>1, <3>1, <3>3 DEF RulesInv
    <2>4. CASE text[line] # Ignored
        <3>1. text[line] \in AnyRules /\ rules' = Append(rules, text[line])
            BY <2>1, <2>2, <2>4, PatternsAssumption DEF Lines, Rules, AnyRules, ReadLine
        <3>2. ASSUME NEW url \in Urls
              PROVE  Permissible(rules', url) = SaidBefore(line + 1, url)
            <4> DEFINE old == {i \in DOMAIN text : i < line /\ url \in text[i].matches}
                       new == {i \in DOMAIN text : i < line + 1 /\ url \in text[i].matches}
            <4>1. /\ url \in text[line].matches =>
                         Permissible(rules', url) = text[line].permitted
                  /\ url \notin text[line].matches =>
                         Permissible(rules', url) = Permissible(rules, url)
                BY <3>1, PermissibleAppend DEF RulesInv
            <4>2. Permissible(rules, url) = SaidBefore(line, url)
                BY DEF RulesInv
            <4>3. CASE url \in text[line].matches
                <5>1. line \in new /\ \A j \in new : j <= line
                    BY <2>2, <4>3 DEF RulesInv
                <5>2. \A i \in new : (\A j \in new : j <= i) => i = line
                    BY <5>1 DEF RulesInv
                <5>3. SaidBefore(line + 1, url) = text[line].permitted
                    <6>1. text[line].permitted \in BOOLEAN
                        BY <3>1 DEF AnyRules
                    <6>2. SaidBefore(line + 1, url)
                              <=> \E i \in new : text[i].permitted /\ \A j \in new : j <= i
                        BY <5>1 DEF SaidBefore
                    <6> QED
                        BY <5>1, <5>2, <6>1, <6>2 DEF SaidBefore
                <5> QED
                    BY <4>1, <4>3, <5>3
            <4>4. CASE url \notin text[line].matches
                <5>1. new = old
                    BY <4>4 DEF RulesInv
                <5> QED
                    BY <4>1, <4>2, <4>4, <5>1 DEF SaidBefore
            <4> QED
                BY <4>3, <4>4
        <3>3. (\A url \in Urls : Permissible(rules, url) = SaidBefore(line, url))'
            <4>1. \A url \in Urls : Permissible(rules', url) = SaidBefore(line + 1, url)
                BY <3>2
            <4> QED
                BY <2>1, <4>1 DEF SaidBefore
        <3> QED
            BY <2>1, <3>1, <3>3 DEF RulesInv
    <2> QED
        BY <2>3, <2>4
<1> QED
    BY <1>1, <1>2 DEF Next, BeginList, ListFile, EndList, Ask, Follow, vars, given

\* "The last rule will be effective": once the file is read, the rules decide
\* about every url as the last line of the file that speaks of it says.
THEOREM RulesDecide == Spec => []LastRuleDecides
<1>1. RulesInv => LastRuleDecides
    <2> SUFFICES ASSUME RulesInv, Loaded, NEW url \in Urls
                 PROVE  Permissible(rules, url) = FileSays(url)
        BY DEF LastRuleDecides
    <2>1. {i \in DOMAIN text : i < line /\ url \in text[i].matches}
          = {i \in DOMAIN text : url \in text[i].matches}
        BY DEF Loaded, RulesInv
    <2>2. SaidBefore(line, url) = FileSays(url)
        BY <2>1 DEF SaidBefore, FileSays
    <2> QED
        BY <2>2 DEF RulesInv
<1> QED
    BY <1>1, RulesInvInit, RulesInvStep, PTL DEF Spec

-----------------------------------------------------------------------------
(* The list                                                                *)

Tokens == {Open, Close, Comma} \cup {Object(n) : n \in Names}
LastOf(list) == list[Len(list)]
\* The names of the entries before the k-th that are not passed over.
ShownBefore(k) == {n \in Names : \E i \in DOMAIN dir : i < k /\ dir[i].real = n /\ Shows(dir[i])}

\* Two neighbours in a list that is JSON.
Fits(t, u) == /\ t \in {Open, Comma} => u \notin {Open, Comma} /\ (t = Comma => u # Close)
              /\ t \notin {Open, Comma} => u \in {Comma, Close}

\* A list that is not closed ends in its bracket or a comma as long as files
\* follow, and in a comma after the last file only if that one was not shown.
OpenList ==
    /\ WellFormed(json)
    /\ row <= Len(dir) => LastOf(json) \in {Open, Comma}
    /\ LastOf(json) = Comma => Shown # {}
    /\ row = Len(dir) + 1 /\ row > 1 /\ Shows(dir[Len(dir)]) => LastOf(json) # Comma

\* The list holds the names shown so far, and is JSON unless a comma was left
\* over at its end.
ListInv ==
    /\ dir \in Seq(Entries)
    /\ row \in 0..Len(dir) + 1
    /\ row = 0 => json = <<>>
    /\ row # 0 => /\ Loaded /\ json \in Seq(Tokens) /\ json # <<>>
                  /\ Shown = ShownBefore(row)
                  /\ LastOf(json) # Close => OpenList
                  /\ LastOf(json) = Close =>
                        row > Len(dir) /\ (Shown = {} \/ Shows(dir[Len(dir)]) => WellFormed(json))

\* The agent asks when the list is complete, and the first answer is the
\* decision on the name alone.
AnswerInv ==
    /\ answer # "none" => Listed
    /\ answer # "none" /\ hops = 0 => answer = Answer(FactsOf(asked), dirIndexs)

\* Brackets, commas and objects are told apart.
LEMMA TokensDiffer ==
    /\ Open # Close /\ Open # Comma /\ Close # Comma
    /\ \A n : Object(n) \notin {Open, Close, Comma}
    /\ \A n, m : Object(n) = Object(m) => n = m
<1>1. \A n : Len(Object(n)) = 2 /\ Object(n)[2] = n
    BY DEF Object
<1>2. Len(Open) = 1 /\ Len(Close) = 1 /\ Len(Comma) = 1
    BY DEF Open, Close, Comma
<1>3. Open # Close /\ Open # Comma /\ Close # Comma
    <2>1. Open[1] = "[" /\ Close[1] = "]" /\ Comma[1] = ","
        BY DEF Open, Close, Comma
    <2> QED
        BY <2>1
<1>4. ASSUME NEW n PROVE Object(n) \notin {Open, Close, Comma}
    BY <1>1, <1>2
<1>5. ASSUME NEW n, NEW m, Object(n) = Object(m) PROVE n = m
    BY <1>1, <1>5
<1> QED
    BY <1>3, <1>4, <1>5

\* A token that fits the last one keeps a list JSON.
LEMMA Grows ==
    ASSUME NEW list \in Seq(Tokens), list # <<>>, NEW t \in Tokens
    PROVE  /\ Append(list, t) \in Seq(Tokens) /\ Append(list, t) # <<>>
           /\ LastOf(Append(list, t)) = t
           /\ ToSet(Append(list, t)) = ToSet(list) \cup {t}
           /\ WellFormed(list) /\ Fits(LastOf(list), t) => WellFormed(Append(list, t))
<1> DEFINE n == Len(list)
           more == Append(list, t)
<1>0. n \in Nat \ {0}
    OBVIOUS
<1>1. /\ DOMAIN list = 1..n /\ DOMAIN more = 1..(n + 1) /\ Len(more) = n + 1
      /\ more[n + 1] = t /\ \A i \in 1..n : more[i] = list[i]
      /\ more \in Seq(Tokens) /\ more # <<>>
    OBVIOUS
<1> HIDE DEF n, more
<1>2. LastOf(more) = t
    BY <1>1 DEF LastOf
<1>3. ToSet(more) = ToSet(list) \cup {t}
    <2>1. \A i \in 1..(n + 1) : i \in 1..n \/ i = n + 1
        BY <1>0
    <2>2. n + 1 \in 1..(n + 1) /\ \A i \in 1..n : i \in 1..(n + 1)
        BY <1>0
    <2> QED
        BY <1>1, <2>1, <2>2 DEF ToSet
<1>4. ASSUME WellFormed(list), Fits(LastOf(list), t) PROVE WellFormed(more)
    <2>1. \A i \in 1..n - 1 : Fits(list[i], list[i + 1])
        BY <1>4 DEF WellFormed, Fits, n
    <2>2. ASSUME NEW i \in 1..n PROVE Fits(more[i], more[i + 1])
        <3>1. CASE i = n
            BY <1>1, <1>4, <3>1 DEF LastOf, n
        <3>2. CASE i # n
            <4>1. i \in 1..n - 1 /\ i + 1 \in 1..n
                BY <1>0, <3>2
            <4>2. more[i] = list[i] /\ more[i + 1] = list[i + 1]
                BY <1>1, <4>1
            <4> QED
                BY <2>1, <4>1, <4>2
        <3> QED
            BY <3>1, <3>2
    <2>3. Len(more) - 1 = n
        BY <1>0, <1>1
    <2> QED
        BY <2>2, <2>3 DEF WellFormed, Fits
<1> QED
    BY <1>1, <1>2, <1>3, <1>4 DEF more

\* One more file gone through.
LEMMA ShownNext ==
    ASSUME dir \in Seq(Entries), NEW k \in DOMAIN dir
    PROVE  /\ Shows(dir[k]) => ShownBefore(k + 1) = ShownBefore(k) \cup {dir[k].real}
           /\ ~Shows(dir[k]) => ShownBefore(k + 1) = ShownBefore(k)
<1>1. DOMAIN dir = 1..Len(dir) /\ Len(dir) \in Nat
    OBVIOUS
<1>2. dir[k].real \in Names
    BY DEF Entries
<1>3. \A i \in DOMAIN dir : i < k + 1 <=> (i < k \/ i = k)
    BY <1>1
<1> QED
    BY <1>2, <1>3 DEF ShownBefore

\* Neither is there a list, nor was anything asked.
LEMMA ListInvInit == Init => ListInv /\ AnswerInv
<1> SUFFICES ASSUME Init PROVE ListInv /\ AnswerInv
    OBVIOUS
<1>1. dir \in Seq(Entries)
    <2>1. PICK k \in 0..MaxEntries : dir \in [1..k -> Entries]
        BY DEF Init, Directories, SeqsUpTo
    <2> QED
        BY <2>1
<1> QED
    BY <1>1 DEF Init, ListInv, AnswerInv

\* Nothing the list depends on changes.
LEMMA ListUnchanged ==
    ListInv /\ UNCHANGED <<text, dir, line, rules, row, json>> => ListInv'
BY DEF ListInv, OpenList, Loaded, Shown, ShownBefore, Shows, WellFormed, LastOf

\* The list is begun: its bracket, and nothing shown.
LEMMA BeginListStep == ListInv /\ BeginList => ListInv'
<1> SUFFICES ASSUME ListInv, BeginList PROVE ListInv'
    OBVIOUS
<1>1. /\ row' = 1 /\ json' = <<Open>> /\ Loaded /\ UNCHANGED <<text, dir, line, rules>>
    BY DEF BeginList, given
<1>2. json' \in Seq(Tokens) /\ json' # <<>> /\ LastOf(json') = Open /\ WellFormed(json')
    BY <1>1 DEF Tokens, LastOf, WellFormed
<1>3. Shown' = {}
    <2>1. ToSet(json') = {Open}
        BY <1>1 DEF ToSet
    <2> QED
        BY <2>1, TokensDiffer DEF Shown
<1>4. ShownBefore(row)' = {}
    <2>1. \A i \in DOMAIN dir : ~(i < 1)
        BY DEF ListInv
    <2> QED
        BY <1>1, <2>1 DEF ShownBefore
<1>5. OpenList'
    BY <1>1, <1>2, TokensDiffer DEF OpenList
<1> QED
    BY <1>1, <1>2, <1>3, <1>4, <1>5, TokensDiffer DEF ListInv, Loaded

\* A file that is passed over leaves the list as it is; one that is shown adds
\* its object, and a comma unless it is the last of the directory.
LEMMA ListFileStep == ListInv /\ ListFile => ListInv'
<1> SUFFICES ASSUME ListInv, ListFile PROVE ListInv'
    OBVIOUS
<1> DEFINE name == dir[row].real
<1>1. /\ row \in DOMAIN dir /\ row' = row + 1 /\ UNCHANGED <<text, dir, line, rules>>
      /\ dir \in Seq(Entries) /\ row # 0 /\ row <= Len(dir) /\ row \in 1..Len(dir)
      /\ name \in Names
    BY DEF ListFile, given, ListInv, Entries
<1>2. /\ Loaded /\ json \in Seq(Tokens) /\ json # <<>> /\ Shown = ShownBefore(row)
      /\ WellFormed(json) /\ LastOf(json) \in {Open, Comma}
    BY <1>1 DEF ListInv, OpenList
<1>3. ShownBefore(row)' = ShownBefore(row + 1)
    <2>1. \A i \in DOMAIN dir : Shows(dir[i])' = Shows(dir[i])
        BY <1>1 DEF Shows
    <2> QED
        BY <1>1, <2>1 DEF ShownBefore
<1>4. CASE ~Shows(dir[row])
    <2>1. json' = json
        BY <1>4 DEF ListFile
    <2>2. Shown' = ShownBefore(row)'
        BY <1>1, <1>2, <1>3, <1>4, <2>1, ShownNext DEF Shown
    <2>3. OpenList'
        <3>1. LastOf(json') \in {Open, Comma} /\ WellFormed(json')
            BY <1>2, <2>1
        <3>2. LastOf(json') = Comma => Shown' # {}
            BY <1>1, <1>2, <2>1, TokensDiffer DEF ListInv, OpenList, Shown
        <3>3. row' = Len(dir') + 1 => ~Shows(dir[Len(dir)])'
            <4>1. row' = Len(dir') + 1 => row = Len(dir)
                BY <1>1
            <4> QED
                BY <1>1, <1>4, <4>1 DEF Shows
        <3> QED
            BY <3>1, <3>2, <3>3 DEF OpenList
    <2> QED
        BY <1>1, <1>2, <2>1, <2>2, <2>3, TokensDiffer DEF ListInv, Loaded
<1>5. CASE Shows(dir[row])
    <2> DEFINE shown == Append(json, Object(name))
    <2>1. /\ Object(name) \in Tokens /\ Comma \in Tokens
          /\ Fits(LastOf(json), Object(name)) /\ Fits(Object(name), Comma)
        BY <1>1, <1>2, TokensDiffer DEF Tokens, Fits
    <2>2. /\ shown \in Seq(Tokens) /\ shown # <<>> /\ LastOf(shown) = Object(name)
          /\ ToSet(shown) = ToSet(json) \cup {Object(name)} /\ WellFormed(shown)
        BY <1>2, <2>1, Grows
    <2>3. json' = shown \o Separator(row)
        BY <1>2, <1>5, <2>1 DEF ListFile
    <2> HIDE DEF shown
    <2>4. /\ json' \in Seq(Tokens) /\ json' # <<>> /\ WellFormed(json')
          /\ \A n : Object(n) \in ToSet(json') <=> (Object(n) \in ToSet(json) \/ n = name)
          /\ row = Len(dir) => LastOf(json') = Object(name)
          /\ row # Len(dir) => LastOf(json') = Comma
        <3>1. CASE row = Len(dir)
            <4>1. json' = shown
                BY <2>2, <2>3, <3>1 DEF Separator
            <4> QED
                BY <2>2, <3>1, <4>1, TokensDiffer
        <3>2. CASE row # Len(dir)
            <4>1. json' = Append(shown, Comma)
                BY <2>2, <2>3, <3>2 DEF Separator
            <4> QED
                BY <2>1, <2>2, <3>2, <4>1, Grows, TokensDiffer
        <3> QED
            BY <3>1, <3>2
    <2>5. Shown' = Shown \cup {name}
        BY <1>1, <2>4 DEF Shown
    <2>6. Shown' = ShownBefore(row)'
        BY <1>1, <1>2, <1>3, <1>5, <2>5, ShownNext
    <2>7. OpenList'
        <3>1. row' <= Len(dir') => row # Len(dir)
            BY <1>1
        <3>2. row' = Len(dir') + 1 => row = Len(dir)
            BY <1>1
        <3> QED
            BY <2>4, <2>5, <3>1, <3>2, TokensDiffer DEF OpenList
    <2> QED
        BY <1>1, <1>2, <2>4, <2>6, <2>7, TokensDiffer DEF ListInv, Loaded
<1> QED
    BY <1>4, <1>5

\* The closing bracket, which a comma does not stand before if the last file
\* was shown, or none.
LEMMA EndListStep == ListInv /\ EndList => ListInv'
<1> SUFFICES ASSUME ListInv, EndList PROVE ListInv'
    OBVIOUS
<1>1. /\ row > Len(dir) /\ ~Listed /\ json' = Append(json, Close)
      /\ UNCHANGED <<text, dir, line, rules, row>>
    BY DEF EndList, given
<1>2. row # 0 /\ row = Len(dir) + 1 /\ Len(dir) \in Nat
    BY <1>1 DEF ListInv
<1>3. /\ Loaded /\ json \in Seq(Tokens) /\ json # <<>> /\ Shown = ShownBefore(row)
      /\ LastOf(json) # Close /\ OpenList
    BY <1>1, <1>2 DEF ListInv, Listed, LastOf
<1>4. Close \in Tokens
    BY DEF Tokens
<1>5. /\ json' \in Seq(Tokens) /\ json' # <<>> /\ LastOf(json') = Close
      /\ ToSet(json') = ToSet(json) \cup {Close}
      /\ Fits(LastOf(json), Close) => WellFormed(json')
    BY <1>1, <1>3, <1>4, Grows DEF OpenList
<1>6. Shown' = Shown
    BY <1>5, TokensDiffer DEF Shown
<1>7. ShownBefore(row)' = ShownBefore(row) /\ Shows(dir[Len(dir)])' = Shows(dir[Len(dir)])
    BY <1>1 DEF ShownBefore, Shows
<1>8. ASSUME Shown = {} \/ Shows(dir[Len(dir)]) PROVE WellFormed(json')
    <2>1. LastOf(json) # Comma
        <3>1. CASE Shown = {}
            BY <1>3, <3>1 DEF OpenList
        <3>2. CASE Shown # {} /\ Shows(dir[Len(dir)])
            <4>1. Len(dir) # 0
                BY <1>3, <3>2 DEF ShownBefore, ListInv
            <4> QED
                BY <1>2, <1>3, <3>2, <4>1 DEF OpenList
        <3> QED
            BY <1>8, <3>1, <3>2
    <2>2. Fits(LastOf(json), Close)
        BY <1>3, <2>1, TokensDiffer DEF Fits
    <2> QED
        BY <1>5, <2>2
<1> QED
    BY <1>1, <1>2, <1>3, <1>5, <1>6, <1>7, <1>8 DEF ListInv, Loaded

\* No line is loaded once there is a list, and no question changes it.
LEMMA ListInvStep == ListInv /\ [Next]_vars => ListInv'
<1> SUFFICES ASSUME ListInv, [Next]_vars PROVE ListInv'
    OBVIOUS
<1>1. CASE LoadLine
    <2>1. row = 0 /\ row' = row /\ json' = json /\ dir' = dir
        BY <1>1 DEF LoadLine, ListInv, given
    <2> QED
        BY <2>1 DEF ListInv
<1>2. CASE UNCHANGED vars \/ Follow \/ \E n \in Names, q \in BOOLEAN : Ask(n, q)
    BY <1>2, ListUnchanged DEF vars, given, Follow, Ask
<1> QED
    BY <1>1, <1>2, BeginListStep, ListFileStep, EndListStep DEF Next

\* Rules, directory and list stay as they are once the list is complete.
LEMMA AnswerInvStep == LInv /\ ListInv /\ AnswerInv /\ [Next]_vars => AnswerInv'
<1> SUFFICES ASSUME LInv, ListInv, AnswerInv, [Next]_vars PROVE AnswerInv'
    OBVIOUS
<1>1. Listed => row > Len(dir) /\ row # 0 /\ Loaded
    BY DEF Listed, ListInv, LastOf
<1>2. CASE LoadLine \/ BeginList \/ ListFile \/ EndList
    <2>1. answer = "none"
        <3>1. ~Listed
            BY <1>1, <1>2 DEF LoadLine, BeginList, ListFile, EndList, ListInv
        <3> QED
            BY <3>1 DEF AnswerInv
    <2>2. answer' = "none"
        BY <1>2, <2>1 DEF LoadLine, BeginList, ListFile, EndList, agent
    <2> QED
        BY <2>2 DEF AnswerInv
<1>3. CASE UNCHANGED vars
    BY <1>3 DEF AnswerInv, Listed, FactsOf, KindOf, vars, given, agent
<1>4. ASSUME NEW n \in Names, NEW q \in BOOLEAN, Ask(n, q) PROVE AnswerInv'
    BY <1>4 DEF Ask, AnswerInv, Listed, FactsOf, KindOf, given
<1>5. CASE Follow
    <2>1. hops' # 0 /\ Listed /\ json' = json
        BY <1>5 DEF Follow, LInv, AnswerInv
    <2> QED
        BY <2>1 DEF AnswerInv, Listed
<1> QED
    BY <1>2, <1>3, <1>4, <1>5 DEF Next

\* The list is JSON when the last file of the directory is shown or no file is.
THEOREM ListingIsJsonWhenLastShown == Spec => []JsonIfLastShown
<1>1. ListInv => JsonIfLastShown
    BY DEF ListInv, JsonIfLastShown, Listed, LastOf
<1> QED
    BY <1>1, ListInvInit, ListInvStep, PTL DEF Spec

\* In a directory without links, the names in the list are the names a request
\* is answered for, with or without a query that the rules do not look at.
THEOREM ListingShowsWhatIsServed == Spec => []ListingMatchesAnswers
<1>1. LInv /\ ListInv /\ AnswerInv => ListingMatchesAnswers
    <2> SUFFICES ASSUME LInv, ListInv, AnswerInv, answer # "none", hops = 0, ~HasLinks,
                        SameToRules(asked)
                 PROVE  asked.of \in Shown <=> answer \in {"open", "301"}
        BY DEF ListingMatchesAnswers
    <2> DEFINE found == \E i \in DOMAIN dir : dir[i].name = asked.of
               allowed == Permissible(rules, Bare(asked.of))
    <2>1. asked.of \in Names /\ answer = Answer(FactsOf(asked), dirIndexs)
        BY DEF AnswerInv, LInv, Urls
    <2>2. Shown = ShownBefore(row) /\ \A i \in DOMAIN dir : i < row
        BY DEF AnswerInv, Listed, ListInv, LastOf
    <2>3. \A i \in DOMAIN dir : dir[i].real = dir[i].name /\ dir[i].kind \in {"file", "dir"}
        BY DEF HasLinks, IsLink, LInv, Entries
    <2>4. asked.of \in Shown <=> found /\ allowed
        BY <2>1, <2>2, <2>3 DEF ShownBefore, Shows
    <2>5. /\ found => KindOf(asked.of) \in {"file", "dir"}
          /\ ~found => KindOf(asked.of) = "absent"
        <3>1. CASE found
            <4>1. \E e \in ToSet(dir) : e.name = asked.of
                BY <3>1 DEF ToSet
            <4>2. \A e \in ToSet(dir) : e.kind \in {"file", "dir"}
                BY <2>3 DEF ToSet
            <4> QED
                BY <3>1, <4>1, <4>2 DEF KindOf
        <3>2. CASE ~found
            BY <3>2 DEF KindOf
        <3> QED
            BY <3>1, <3>2
    <2>6. /\ FactsOf(asked).permitted = allowed /\ FactsOf(asked).contained
          /\ FactsOf(asked).webRoot = KindOf(asked.of)
          /\ FactsOf(asked).builtIn = "absent" /\ ~FactsOf(asked).slash
        BY DEF FactsOf, SameToRules, LInv
    <2>7. answer \in {"open", "301"} <=> allowed /\ KindOf(asked.of) \in {"file", "dir"}
        <3> DEFINE f == FactsOf(asked)
        <3> HIDE DEF f
        <3>1. /\ f.permitted = allowed /\ f.contained /\ f.webRoot = KindOf(asked.of)
              /\ f.builtIn = "absent" /\ ~f.slash
            BY <2>6 DEF f
        <3>2. KindOf(asked.of) \in {"file", "dir", "absent"}
            BY <2>5
        <3>3. Found(f) = KindOf(asked.of)
            BY <3>1, <3>2 DEF Found
        <3>4. Answer(f, dirIndexs) \in {"open", "301"}
                  <=> allowed /\ KindOf(asked.of) \in {"file", "dir"}
            BY <3>1, <3>2, <3>3 DEF Answer, Forbidden, Redirects
        <3> QED
            BY <2>1, <3>4 DEF f
    <2> QED
        BY <2>4, <2>5, <2>7
<1> QED
    BY <1>1, LInvInit, LInvStep, ListInvInit, ListInvStep, AnswerInvStep, PTL DEF Spec
==============================================================================
