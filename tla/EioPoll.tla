------------------------------- MODULE EioPoll -------------------------------
(***************************************************************************)
(* How a result of libeio's threads gets back to the loop: want_poll,      *)
(* ready, repeat and eio_poll of EventLoop.cpp, between the threads that   *)
(* finish jobs and the one thread that runs callbacks.                     *)
(*                                                                         *)
(* A thread appends its result to libeio's result queue and, only when the *)
(* queue was empty, calls want_poll, which sends an ev_async to the loop.  *)
(* The loop then calls ready, which drains the queue with eio_poll.        *)
(* eio_poll may stop early, with -1, at the limit eio_set_max_poll_reqs    *)
(* sets; then an idle watcher calls repeat until a poll ran the queue dry. *)
(***************************************************************************)
EXTENDS Naturals, Sequences

CONSTANTS Reqs,     \* eio requests
          Limits    \* limits libeio may be configured with

ASSUME LimitsAssumption == Limits \subseteq Nat

VARIABLES maxPoll,   \* results one eio_poll may handle; 0, the default, is no limit
          stage,     \* of each request: "unused", "running" or "result"
          results,   \* libeio's result queue
          sent,      \* ready_watcher was sent and the loop has not seen it
          readyDue,  \* ready is pending in this turn of the loop
          idle,      \* repeat_watcher is active
          pc,        \* what the loop's thread is in: "loop", "ready" or "repeat"
          polled     \* results this eio_poll has handled

vars == <<maxPoll, stage, results, sent, readyDue, idle, pc, polled>>

Init == /\ maxPoll \in Limits
        /\ stage = [r \in Reqs |-> "unused"]
        /\ results = <<>>
        /\ sent = FALSE /\ readyDue = FALSE /\ idle = FALSE
        /\ pc = "loop" /\ polled = 0

\* eio_open or eio_sendfile, from a read handler or from inside a callback.
Submit(r) == /\ stage[r] = "unused"
             /\ stage' = [stage EXCEPT ![r] = "running"]
             /\ UNCHANGED <<maxPoll, results, sent, readyDue, idle, pc, polled>>

\* want_poll
NoWantPoll == sent' = sent  \* mutant: the loop is not woken
WantPoll == sent' = TRUE

\* libeio appends and calls want_poll under one lock.
Finish(r) == /\ stage[r] = "running"
             /\ stage' = [stage EXCEPT ![r] = "result"]
             /\ results' = Append(results, r)
             /\ \/ results = <<>> /\ WantPoll
                \/ results # <<>> /\ UNCHANGED sent
             /\ UNCHANGED <<maxPoll, readyDue, idle, pc, polled>>

\* libev looks at its wake-up pipe, forgets that it was written and feeds ready.
Wake == /\ pc = "loop" /\ sent
        /\ sent' = FALSE /\ readyDue' = TRUE
        /\ UNCHANGED <<maxPoll, stage, results, idle, pc, polled>>

Ready == /\ pc = "loop" /\ readyDue
         /\ readyDue' = FALSE
         /\ pc' = "ready" /\ polled' = 0
         /\ UNCHANGED <<maxPoll, stage, results, sent, idle>>

\* An idle watcher runs when nothing else is pending.
Repeat == /\ pc = "loop" /\ idle /\ ~readyDue
          /\ pc' = "repeat" /\ polled' = 0
          /\ UNCHANGED <<maxPoll, stage, results, sent, readyDue, idle>>

\* eio_poll returned -1: ready starts the idle watcher, repeat leaves it.
OnMoreLazy == idle' = idle  \* mutant: ready does not look at what eio_poll returned
OnMore == idle' = TRUE
\* eio_poll returned 0: repeat stops the idle watcher, ready does not.
OnDrained == idle' = (idle /\ pc = "ready")

\* One turn of eio_poll's loop, with the callback of the result it takes.
PollOne ==
    /\ pc # "loop" /\ results # <<>>
    /\ stage' = [stage EXCEPT ![Head(results)] = "unused"]
    /\ results' = Tail(results)
    /\ \/ /\ polled + 1 = maxPoll
          /\ pc' = "loop" /\ polled' = 0 /\ OnMore
       \/ /\ polled + 1 # maxPoll
          /\ polled' = (IF maxPoll = 0 THEN 0 ELSE polled + 1)
          /\ UNCHANGED <<pc, idle>>
    /\ UNCHANGED <<maxPoll, sent, readyDue>>

PollEmpty ==
    /\ pc # "loop" /\ results = <<>>
    /\ OnDrained
    /\ pc' = "loop" /\ polled' = 0
    /\ UNCHANGED <<maxPoll, stage, results, sent, readyDue>>

Poll == PollOne \/ PollEmpty
Next == \/ \E r \in Reqs : Submit(r) \/ Finish(r)
        \/ Wake \/ Ready \/ Repeat \/ Poll
Spec == Init /\ [][Next]_vars

\* The loop's thread goes on for ever, and looks at its pipe, its pending
\* watchers and its idle watchers in every turn.
FairSpec == Spec /\ WF_vars(Wake) /\ WF_vars(Ready) /\ WF_vars(Repeat) /\ WF_vars(Poll)

-----------------------------------------------------------------------------
TypeOK == /\ maxPoll \in Nat
          /\ stage \in [Reqs -> {"unused", "running", "result"}]
          /\ results \in Seq(Reqs)
          /\ sent \in BOOLEAN /\ readyDue \in BOOLEAN /\ idle \in BOOLEAN
          /\ pc \in {"loop", "ready", "repeat"}
          /\ polled \in Nat

\* No wake-up is lost between want_poll, ready and repeat: while results wait,
\* the loop is polling or something is due that makes it poll, although
\* want_poll is called only by the thread that finds the queue empty.
NoLostWakeup == results # <<>> => sent \/ readyDue \/ idle \/ pc # "loop"

\* Every finished request is called back.
CalledBack == \A r \in Reqs : stage[r] = "result" ~> stage[r] # "result"
==============================================================================
