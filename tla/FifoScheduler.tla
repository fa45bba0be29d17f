--------------------------- MODULE FifoScheduler ---------------------------
(***************************************************************************)
(* What the scheduler promises: coroutines that can run wait in a queue,   *)
(* each at most once; the head of the queue is the only one that gets      *)
(* control, and it keeps control until it gives it up.  Coroutine::        *)
(* schedule: "will be queued to run after all other currently ready        *)
(* coroutines".                                                            *)
(***************************************************************************)
EXTENDS Sequences

CONSTANTS Coroutines, None

VARIABLES
    status, \* "inactive", "ready", "active", "waiting", "done" or "lost"
    queue,  \* the ready coroutines in the order in which they run
    active  \* the one that is in control, or None

vars == <<status, queue, active>>

Init ==
    /\ status = [c \in Coroutines |-> "inactive"]
    /\ queue = <<>>
    /\ active = None

\* A coroutine that was not in control becomes ready and goes to the end.
Enqueue(c) ==
    /\ status[c] \in {"inactive", "waiting"}
    /\ status' = [status EXCEPT ![c] = "ready"]
    /\ queue' = Append(queue, c)
    /\ UNCHANGED active

\* The head of the queue gets control, or completes at once when there is
\* nothing to execute, or is lost at once.
Select ==
    /\ queue # <<>> /\ active = None
    /\ \/ /\ status' = [status EXCEPT ![Head(queue)] = "active"]
          /\ active' = Head(queue)
       \/ /\ \E s \in {"done", "lost"} : status' = [status EXCEPT ![Head(queue)] = s]
          /\ UNCHANGED active
    /\ queue' = Tail(queue)

\* The coroutine in control lets all other ready coroutines run first.
Requeue(c) ==
    /\ active = c
    /\ status' = [status EXCEPT ![c] = "ready"]
    /\ queue' = Append(queue, c)
    /\ active' = None

\* The coroutine in control waits, completes, or is lost to an exception.
Release(c) ==
    /\ active = c
    /\ \E s \in {"waiting", "done", "lost"} : status' = [status EXCEPT ![c] = s]
    /\ active' = None
    /\ UNCHANGED queue

Next == Select \/ \E c \in Coroutines : Enqueue(c) \/ Requeue(c) \/ Release(c)

Spec == Init /\ [][Next]_vars

\* The queue does not stand still while nobody is in control.
FairSpec == Spec /\ WF_vars(Select)
=============================================================================
