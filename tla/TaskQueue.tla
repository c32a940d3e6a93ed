------------------------------- MODULE TaskQueue -------------------------------
(***************************************************************************)
(* What a queue of tasks promises: tasks are worked on one at a time, in   *)
(* the order in which they were submitted, and each leaves the queue when  *)
(* its work is done.                                                       *)
(***************************************************************************)
EXTENDS Sequences

CONSTANTS Tasks, NoTask

VARIABLES queue, current

queueVars == <<queue, current>>

Init == queue = <<>> /\ current = NoTask

Submit(t) == queue' = Append(queue, t) /\ UNCHANGED current

Begin ==
  /\ current = NoTask /\ queue # <<>>
  /\ current' = Head(queue)
  /\ UNCHANGED queue

Finish ==
  /\ current # NoTask
  /\ queue' = Tail(queue) /\ current' = NoTask

Next == Begin \/ Finish \/ \E t \in Tasks : Submit(t)

Spec == Init /\ [][Next]_queueVars
=============================================================================
