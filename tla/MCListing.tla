------------------------------ MODULE MCListing ------------------------------
(* Instances of Listing for TLC. *)
EXTENDS Listing

\* hash is the name x with a '#' and more behind it, x has two blanks at its end
\* and plus has two plus signs there, which decode to blanks.  Any of them may be
\* the access_rule setting, which is any name.
CONSTANTS config, access, x, hash, plus

Special == {hash, plus}
SlashOf(n) == [of |-> n, slash |-> TRUE, query |-> TRUE]
MCReread == [n \in Names |-> IF n \notin Special THEN SlashOf(n)
                             ELSE IF n = plus THEN SlashOf(x) ELSE Bare(x)]
MCLength == [n \in Names |-> IF n = hash THEN 2 ELSE 1]

\* Patterns that match one name, the name x with all that may follow it, or
\* everything; and none, being written without a slash.
Under(n) == [of : {n}, slash : BOOLEAN, query : BOOLEAN]
MCPatterns == {{Bare(n)} : n \in {config, x}} \cup {Under(x), Urls}
MCPatternsOfX == {{Bare(x)}, Under(x)}
MCPatternsAsWritten == {{Bare(n)} : n \in {config, access}} \cup {Lift(config).matches}
==============================================================================
