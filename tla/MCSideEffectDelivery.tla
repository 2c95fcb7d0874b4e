----------------------- MODULE MCSideEffectDelivery -----------------------
(***************************************************************************)
(* Small instances of SideEffectDelivery for TLC.                          *)
(***************************************************************************)
EXTENDS SideEffectDelivery, TLC

CONSTANTS r1, r2, w1, w2

E(mode, policy, strategy, attempts) ==
    [mode |-> mode, policy |-> policy, strategy |-> strategy,
     enabled |-> TRUE, callable |-> TRUE, attempts |-> attempts]
Uncallable(e) == [e EXCEPT !.callable = FALSE]
Disabled(e) == [e EXCEPT !.enabled = FALSE]

SyncFail == E("sync", "fail_mock", "parallel", 1)
SyncIgnore == E("sync", "ignore", "parallel", 1)
SyncRetry == E("sync", "retry", "parallel", 2)
Alone == E("async", "ignore", "parallel", 1)
AloneRetry == E("async", "retry", "parallel", 2)
InBatch == E("async", "ignore", "sequential", 1)
InBatchRetry == E("async", "retry", "sequential", 2)

(* Every list of up to two of the effects that differ in what they do, and
   batches of two and three among the effects that run outside of them. *)
Kinds == {SyncFail, SyncIgnore, SyncRetry, Alone, AloneRetry, InBatch, InBatchRetry,
          Disabled(InBatchRetry), Uncallable(SyncIgnore), Uncallable(InBatch)}
Batches == {s \in [1..3 -> {SyncIgnore, Alone, InBatchRetry}] :
              \E m, n \in 1..3 : m # n /\ s[m] = InBatchRetry /\ s[n] = InBatchRetry}
ManyResponses == UNION {[1..n -> Kinds] : n \in 0..2} \cup Batches

(* Async lists that keep workers busy. *)
BusyResponses == {<<AloneRetry, InBatchRetry, InBatch>>, <<SyncRetry, InBatch, InBatchRetry>>,
                  <<SyncIgnore, Alone, Alone>>}
=============================================================================
