----------------------------- MODULE TaskQueue -----------------------------
(***************************************************************************)
(* What handing side effects to Celery promises, as a work queue without   *)
(* workers, copies or failures: a job that was sent stays sent, and a job  *)
(* is only ever finished after it was sent.                                *)
(***************************************************************************)
CONSTANT Jobs

VARIABLES
    sent,       \* jobs handed over
    finished    \* those nobody will work on again for their own sake

vars == <<sent, finished>>

Init == sent = {} /\ finished = {}

Send(j) == j \notin sent /\ sent' = sent \cup {j} /\ UNCHANGED finished

Finish(j) == j \in sent \ finished /\ finished' = finished \cup {j} /\ UNCHANGED sent

Next == \E j \in Jobs : Send(j) \/ Finish(j)

Spec == Init /\ [][Next]_vars
=============================================================================
