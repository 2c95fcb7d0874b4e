-------------------------- MODULE SideEffectModel --------------------------
(***************************************************************************)
(* Side effect declarations and the dispatcher that runs a list of them    *)
(* (SideEffectDispatcherService), as far as callers can tell: which        *)
(* provider calls are made, in which order, and how the list ends.         *)
(*                                                                         *)
(* A list is known by the positions its effects have in the response; the  *)
(* dispatcher takes the lowest one left.  Disabled effects are skipped     *)
(* without a trace, so a dispatch starts with the enabled ones.            *)
(***************************************************************************)
EXTENDS Naturals, FiniteSets

CONSTANTS
    Positions,  \* indexes into a response's list of side effects
    Responses   \* the lists mocks may declare, by position

(* `callable`: the provider is registered and the templates render. *)
Effect == [mode: {"sync", "async"}, policy: {"ignore", "fail_mock", "retry"},
           strategy: {"parallel", "sequential"}, enabled: BOOLEAN,
           callable: BOOLEAN, attempts: Nat \ {0}]

(* fail_mock is refused for async effects; a retry needs max_attempts >= 1. *)
Valid(e) == e.mode = "async" => e.policy # "fail_mock"

ASSUME ResponseAssumption ==
    /\ Positions \subseteq Nat
    /\ IsFiniteSet(Positions)
    /\ \A p \in Responses :
        /\ DOMAIN p \subseteq Positions
        /\ \A i \in DOMAIN p : p[i] \in Effect /\ Valid(p[i])

Sync(p) == {i \in DOMAIN p : p[i].mode = "sync"}
Async(p) == DOMAIN p \ Sync(p)
Parallel(p) == {i \in Async(p) : p[i].strategy = "parallel"}
Enabled(p, S) == {i \in S : p[i].enabled}

First(S) == CHOOSE i \in S : \A j \in S : i <= j

-----------------------------------------------------------------------------
(* A dispatch: what is left, the attempts made at the first of it, and     *)
(* whether it waits for a provider call, has ended, or has raised.         *)

Dispatch == [left: SUBSET Positions, tries: Nat, status: {"calling", "done", "failed"}]

(* Look-up and rendering come before the failure policy: an effect that is
   not callable ends the dispatch with an exception whatever its policy. *)
Proceed(p, S) ==
    [left |-> S, tries |-> 0,
     status |-> IF S = {} THEN "done"
                ELSE IF p[First(S)].callable THEN "calling" ELSE "failed"]

Begin(p, S) == Proceed(p, Enabled(p, S))

(* A failed call raises or returns success=False: the policies treat both
   alike. *)
OneMoreTry(e, tries) ==  \* mutant: attempts are counted as repetitions
    e.policy = "fail_mock" \/ (e.policy = "retry" /\ tries >= e.attempts)
GivesUp(e, tries) == e.policy = "fail_mock" \/ (e.policy = "retry" /\ tries + 1 >= e.attempts)

IgnoresNothing(p, d, ok) ==  \* mutant: an ignorable failure ends the list
    IF ok THEN Proceed(p, d.left \ {First(d.left)}) ELSE [d EXCEPT !.status = "failed"]
RunsOn(p, d, ok) ==  \* mutant: a failure does not stop the list
    Proceed(p, d.left \ {First(d.left)})
RetriesForever(p, d, ok) ==  \* mutant: attempts start over instead of giving up
    IF ok \/ p[First(d.left)].policy = "ignore" THEN Proceed(p, d.left \ {First(d.left)})
    ELSE [d EXCEPT !.tries = IF GivesUp(p[First(d.left)], @) THEN 0 ELSE @ + 1]
GoesOnTrying(p, d, ok) ==  \* mutant: a success does not leave the retry loop
    IF GivesUp(p[First(d.left)], d.tries) \/ p[First(d.left)].policy = "ignore"
    THEN Proceed(p, d.left \ {First(d.left)}) ELSE [d EXCEPT !.tries = @ + 1]
AfterCall(p, d, ok) ==
    LET e == p[First(d.left)] IN
    CASE ok \/ e.policy = "ignore" -> Proceed(p, d.left \ {First(d.left)})
      [] ~ok /\ GivesUp(e, d.tries) -> [d EXCEPT !.status = "failed"]
      [] OTHER -> [d EXCEPT !.tries = @ + 1]
=============================================================================
