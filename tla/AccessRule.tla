------------------------------ MODULE AccessRule ------------------------------
(***************************************************************************)
(* The access rules: how loadAccessRule makes them from the lines of the   *)
(* rule file and how permissible decides about a url.                      *)
(*                                                                         *)
(* A url is what permissible() is given: the decoded path, which is the    *)
(* name of a node with or without a trailing slash, and the query if there *)
(* is a question mark.  A pattern is the set of urls that regex_match      *)
(* accepts for it.                                                         *)
(***************************************************************************)
EXTENDS Naturals, SequencesExt

CONSTANTS Names,         \* the names of nodes right under the web root
          ConfigName,    \* ".efserv_config"
          RuleFileName,  \* the access_rule setting
          Patterns       \* what the patterns of this instance match

Urls    == [of : Names, slash : BOOLEAN, query : BOOLEAN]
Bare(n) == [of |-> n, slash |-> FALSE, query |-> FALSE]

ASSUME NamesAssumption == {ConfigName, RuleFileName} \subseteq Names
ASSUME PatternsAssumption == Patterns \subseteq SUBSET Urls

Rules == [permitted : BOOLEAN, matches : Patterns]

\* A name written as a pattern, behind a slash or not.  Every url begins with a
\* slash and regex_match wants all of it: a query is one character too many.
Accepted(rooted, n) == {u \in Urls : rooted /\ u = Bare(n)}
Deny(n) == [permitted |-> FALSE, matches |-> Accepted(TRUE, n)]

\* The rule of the line "+ " and the name, as the documents write it.
Lift(n) == [permitted |-> TRUE, matches |-> Accepted(FALSE, n)]

\* A line after trimming and without its in-line comment: a rule, or something
\* that makes none, being empty, a comment or not recognized.
Ignored == [matches |-> {}]
Lines == Rules \cup {Ignored}

\* The rules before the file is read: both files are denied by default.
BuiltInRules == <<Deny(ConfigName), Deny(RuleFileName)>>

\* One round of the loop over the lines.
ReadLine(rules, line) == IF line = Ignored THEN rules ELSE Append(rules, line)

\* The loop goes through all rules; each match replaces the verdict so far.
PermissibleFirst(rules, url) ==  \* mutant: stop at the first match
    FoldRight(LAMBDA r, verdict : IF url \in r.matches THEN r.permitted ELSE verdict,
              rules, TRUE)
Permissible(rules, url) ==
    FoldLeft(LAMBDA verdict, r : IF url \in r.matches THEN r.permitted ELSE verdict,
             TRUE, rules)
==============================================================================
