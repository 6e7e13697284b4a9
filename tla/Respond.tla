------------------------------- MODULE Respond -------------------------------
(***************************************************************************)
(* The decision EventLoop::respond_to_client takes for one request: which  *)
(* of its six exits the request leaves by.                                 *)
(*                                                                         *)
(* Of a request the decision sees only the facts below.  They are data of  *)
(* the web root, the access rules and the built-in directory, so they are  *)
(* arguments here; who gathers them, and when, is another module's matter. *)
(***************************************************************************)

\* What FileHandler's stat() finds under a path: isFile(), isDir(), a node
\* that is neither, or nothing.  stat() follows links, so a link is never seen.
Kinds == {"file", "dir", "other", "absent"}

Facts == [permitted : BOOLEAN,  \* ACCESS_RULE.permissible(client->url)
          webRoot   : Kinds,    \* the node under the web root
          builtIn   : Kinds,    \* the node under the built-in directory
          contained : BOOLEAN,  \* ~ outOfWebRoot(client)
          slash     : BOOLEAN]  \* client->urlEndWithSlash

\* The exits: eio_open, respondIndexs, respondRedirection, respondErr.
Answers == {"open", "index", "301", "403", "404", "500"}

\* The node client->file stands for once the built-in directory was tried:
\* only a regular file of the built-in directory replaces a missing node.
Found(f) ==
    CASE f.webRoot # "absent"                         -> f.webRoot
      [] f.webRoot = "absent" /\ f.builtIn = "file"   -> "file"
      [] OTHER                                        -> "absent"

Forbidden(f) == ~f.permitted \/ (Found(f) # "absent" /\ ~f.contained)

\* A directory asked for without its slash is sent to path + "/?" + query.
RedirectsFiles(f) == Found(f) # "absent" /\ ~f.slash  \* mutant: before isFile()
RedirectsAlways(f) == Found(f) = "dir"                \* mutant: slash not looked at
Redirects(f) == Found(f) = "dir" /\ ~f.slash

Answer(f, dirIndexs) ==
    CASE Forbidden(f)                                      -> "403"
      [] ~Forbidden(f) /\ Found(f) = "absent"              -> "404"
      [] ~Forbidden(f) /\ Redirects(f)                     -> "301"
      [] ~Forbidden(f) /\ Found(f) = "file" /\ f.slash     -> "404"
      [] ~Forbidden(f) /\ Found(f) = "file" /\ ~f.slash    -> "open"
      [] ~Forbidden(f) /\ Found(f) = "dir" /\ f.slash      ->
            (IF dirIndexs THEN "index" ELSE "403")
      [] ~Forbidden(f) /\ Found(f) = "other"               -> "500"
==============================================================================
