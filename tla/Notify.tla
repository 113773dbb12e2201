------------------------------- MODULE Notify -------------------------------
(***************************************************************************)
(* tokio::sync::Notify as bridge.rs uses it: notify_one() stores at most   *)
(* one permit, or wakes the waiter that has waited longest; a Notified     *)
(* future that is dropped after it was woken and before it was consumed    *)
(* passes its wake-up on.  External: the tokio crate is not in src/, and   *)
(* the Bridge holds one such object (bridge.rs:26) that two tasks await.   *)
(*                                                                         *)
(* A value is a record: permit is the stored permit, queue the registered  *)
(* waiters in order, woken the waiters notified and not yet resumed.       *)
(***************************************************************************)
EXTENDS Sequences

NotifyNew == [permit |-> FALSE, queue |-> <<>>, woken |-> {}]

\* The values a Notify can have, for waiters W that queue in the orders Q.
NotifyType(W, Q) == [permit : BOOLEAN, queue : Q, woken : SUBSET W]

\* A queue of at most two waiters, without w.
Without(q, w) ==
    IF q = <<>> THEN q
    ELSE IF Head(q) = w THEN Tail(q)
    ELSE IF Len(q) = 2 /\ q[2] = w THEN <<Head(q)>> ELSE q

\* Notify::notify_one().
NotifyOne(n) ==
    IF n.queue = <<>>
    THEN [n EXCEPT !.permit = TRUE]
    ELSE [n EXCEPT !.queue = Tail(n.queue), !.woken = @ \cup {Head(n.queue)}]

\* First poll of notified() by task w when no permit is stored.
Register(n, w) == [n EXCEPT !.queue = Append(@, w)]

\* First poll of notified() when a permit is stored: it is consumed at once.
TakePermit(n) == [n EXCEPT !.permit = FALSE]

\* Task w resumes from notified() after it was woken.
Resume(n, w) == [n EXCEPT !.woken = @ \ {w}]

\* The Notified future of task w is dropped (another select! branch won, or
\* the task was cancelled).
DropWaiter(n, w) ==
    IF w \in n.woken
    THEN NotifyOne(Resume(n, w))
    ELSE [n EXCEPT !.queue = Without(@, w)]

\* A wake-up that no task has consumed yet.
Pending(n) == n.permit \/ n.woken # {}
=============================================================================
