------------------------------- MODULE MCWorkers -------------------------------
(* Instances of Workers for TLC. *)
EXTENDS Workers

CONSTANTS w1, w2, c1, c2

Sets(k, v) == [setting |-> [key |-> k, value |-> v], size |-> "short"]

\* Files that set one key twice, either key to something that is no number, and
\* lines at and past the limit.
MCFiles == {<<Sets("port", "junk"), [Sets("port", "number") EXCEPT !.size = "full"]>>,
            <<Sets("port", "number"), Sets("port", "junk")>>,
            <<Sets("dir_indexs", "junk")>>,
            <<[size |-> "over", setting |-> NoSetting], Sets("port", "number")>>}
==============================================================================
