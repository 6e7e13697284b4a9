----------------------------- MODULE MCEventLoop -----------------------------
(* Instances of EventLoop for TLC. *)
EXTENDS EventLoopService, TLC

CONSTANTS a, b, page, gone, list, moved

Plain(kind) == [permitted |-> TRUE, webRoot |-> kind, builtIn |-> "absent",
                contained |-> TRUE, slash |-> FALSE]

\* Two files, pages made in memory (403, 404), a directory listing, a redirection.
MCSite ==
    [u \in Urls |->
        CASE u \in {a, b}  -> Plain("file")
          [] u = page      -> [Plain("file") EXCEPT !.permitted = FALSE]
          [] u = gone      -> Plain("absent")
          [] u = list      -> [Plain("dir") EXCEPT !.slash = TRUE]
          [] u = moved     -> Plain("dir")]

MCSymmetry == Permutations(Conns) \cup Permutations(Slots)
==============================================================================
