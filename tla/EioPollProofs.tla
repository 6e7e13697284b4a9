---------------------------- MODULE EioPollProofs ----------------------------
(***************************************************************************)
(* The hand-over of results from libeio's threads to the loop, for any     *)
(* number of requests and any limit on what one eio_poll handles.          *)
(***************************************************************************)
EXTENDS EioPoll, TLAPS

IInv == TypeOK /\ NoLostWakeup

\* The types of the data and those of the flags, which need different provers.
DataOK  == /\ maxPoll \in Nat
           /\ stage \in [Reqs -> {"unused", "running", "result"}]
           /\ results \in Seq(Reqs)
           /\ pc \in {"loop", "ready", "repeat"}
           /\ polled \in Nat
FlagsOK == sent \in BOOLEAN /\ readyDue \in BOOLEAN /\ idle \in BOOLEAN

LEMMA DataStep == DataOK /\ [Next]_vars => DataOK'
<1> SUFFICES ASSUME DataOK, [Next]_vars PROVE DataOK'
    OBVIOUS
<1>1. ASSUME NEW r \in Reqs, Submit(r) PROVE DataOK'
    BY <1>1 DEF Submit, DataOK
<1>2. ASSUME NEW r \in Reqs, Finish(r) PROVE DataOK'
    <2>1. Append(results, r) \in Seq(Reqs)
        BY DEF DataOK
    <2>2. /\ stage' = [stage EXCEPT ![r] = "result"] /\ results' = Append(results, r)
          /\ UNCHANGED <<maxPoll, pc, polled>>
        BY <1>2 DEF Finish
    <2> QED
        BY <2>1, <2>2 DEF DataOK
<1>3. CASE Wake \/ Ready \/ Repeat \/ PollEmpty
    <2>1. /\ UNCHANGED <<maxPoll, stage, results>>
          /\ pc' \in {"loop", "ready", "repeat"} \/ pc' = pc
          /\ polled' = 0 \/ polled' = polled
        BY <1>3 DEF Wake, Ready, Repeat, PollEmpty
    <2> QED
        BY <2>1 DEF DataOK
<1>4. CASE PollOne
    <2>1. Head(results) \in Reqs /\ Tail(results) \in Seq(Reqs)
        BY <1>4 DEF PollOne, DataOK
    <2>2. /\ maxPoll' = maxPoll
          /\ stage' = [stage EXCEPT ![Head(results)] = "unused"]
          /\ results' = Tail(results)
          /\ pc' = "loop" \/ pc' = pc
          /\ polled' \in {0, polled + 1}
        BY <1>4 DEF PollOne
    <2> QED
        BY <2>1, <2>2 DEF DataOK
<1>5. CASE UNCHANGED vars
    BY <1>5 DEF vars, DataOK
<1> QED
    BY <1>1, <1>2, <1>3, <1>4, <1>5 DEF Next, Poll

LEMMA FlagsStep == FlagsOK /\ [Next]_vars => FlagsOK'
<1> SUFFICES ASSUME FlagsOK, [Next]_vars PROVE FlagsOK'
    OBVIOUS
<1>1. CASE \E r \in Reqs : Submit(r) \/ Finish(r)
    BY <1>1, Zenon DEF Submit, Finish, WantPoll, FlagsOK
<1>2. CASE Wake \/ Ready \/ Repeat
    BY <1>2, Zenon DEF Wake, Ready, Repeat, FlagsOK
<1>3. CASE PollOne
    <2>1. UNCHANGED <<sent, readyDue>> /\ (idle' = TRUE \/ idle' = idle)
        BY <1>3, Zenon DEF PollOne, OnMore
    <2> QED
        BY <2>1, Zenon DEF FlagsOK
<1>4. CASE PollEmpty
    BY <1>4, Zenon DEF PollEmpty, OnDrained, FlagsOK
<1>5. CASE UNCHANGED vars
    BY <1>5, Zenon DEF vars, FlagsOK
<1> QED
    BY <1>1, <1>2, <1>3, <1>4, <1>5 DEF Next, Poll

LEMMA TypeStep == TypeOK /\ [Next]_vars => TypeOK'
BY DataStep, FlagsStep, Zenon DEF TypeOK, DataOK, FlagsOK

\* Only the thread that finds the queue empty sends; only a drained queue
\* clears the idle watcher without leaving another cause to poll.
LEMMA WakeupStep == TypeOK /\ NoLostWakeup /\ [Next]_vars => NoLostWakeup'
<1> SUFFICES ASSUME TypeOK, NoLostWakeup, [Next]_vars PROVE NoLostWakeup'
    OBVIOUS
<1>1. ASSUME NEW r \in Reqs, Submit(r) \/ Finish(r) PROVE NoLostWakeup'
    BY <1>1 DEF Submit, Finish, WantPoll, NoLostWakeup, TypeOK
<1>2. CASE Wake \/ Ready \/ Repeat
    BY <1>2 DEF Wake, Ready, Repeat, NoLostWakeup
<1>3. CASE PollOne
    BY <1>3 DEF PollOne, OnMore, NoLostWakeup
<1>4. CASE PollEmpty
    BY <1>4 DEF PollEmpty, NoLostWakeup
<1>5. CASE UNCHANGED vars
    BY <1>5 DEF vars, NoLostWakeup
<1> QED
    BY <1>1, <1>2, <1>3, <1>4, <1>5 DEF Next, Poll

LEMMA Inductive == Spec => []IInv
<1>1. Init => IInv
    <2> SUFFICES ASSUME Init PROVE IInv
        OBVIOUS
    <2>1. DataOK /\ results = <<>>
        BY LimitsAssumption DEF Init, DataOK
    <2>2. FlagsOK
        BY Zenon DEF Init, FlagsOK
    <2> QED
        BY <2>1, <2>2, Zenon DEF IInv, TypeOK, DataOK, FlagsOK, NoLostWakeup
<1>2. IInv /\ [Next]_vars => IInv'
    BY TypeStep, WakeupStep DEF IInv
<1> QED
    BY <1>1, <1>2, PTL DEF Spec

\* No interleaving of want_poll with ready and repeat loses a wake-up.
THEOREM WakeupKept == Spec => []NoLostWakeup
<1>1. IInv => NoLostWakeup
    BY DEF IInv
<1> QED
    BY <1>1, Inductive, PTL
==============================================================================
