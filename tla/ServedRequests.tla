--------------------------- MODULE ServedRequests ---------------------------
(***************************************************************************)
(* Served requests from the client's side and from that of the program's   *)
(* log: RequestServing inside the layers of the application.  From outside *)
(* in, these are Starlette's handler of unexpected exceptions, the logging *)
(* middleware, the handlers of all other exceptions, and the endpoint,     *)
(* which runs the side effects of the mock before it answers.              *)
(*                                                                         *)
(* The middleware keeps the request's id in a context variable: every task *)
(* has a value of its own, and a log line gets the value of the task that  *)
(* writes it, whatever id the line was given by its caller.                *)
(***************************************************************************)
EXTENDS RequestServing

ASSUME IdsAssumption == None \notin Requests

VARIABLES
    context,    \* the id in the context of the task that serves a request
    lines,      \* the log lines it has written
    reply       \* the status and the id its client was sent

accessVars == <<context, lines, reply>>
allVars == <<vars, accessVars>>

NoReply == [status |-> 0, id |-> None]
Statuses == {200, 400, 404, 500}
Line == [event : {"http_request_completed", "handled_exception", "unexpected_exception"},
         status : Statuses, id : Requests \cup {None}]
Reply == [status : Statuses, id : Requests \cup {None}]

ServedTypeOK ==
    /\ TypeOK
    /\ context \in [Requests -> Requests \cup {None}]
    /\ lines \in [Requests -> Seq(Line)]
    /\ reply \in [Requests -> Reply \cup {NoReply}]
    /\ \A q \in Requests : InService(q) => context[q] # None /\ reply[q] = NoReply

ServedInit ==
    /\ Init
    /\ context = [q \in Requests |-> None]
    /\ lines = [q \in Requests |-> <<>>]
    /\ reply = [q \in Requests |-> NoReply]

(* set_logging_context and its reset; the filter reads the context. *)
SharedContext(q, id) == context' = [t \in Requests |-> id]  \* mutant: one variable for all
SetContext(q, id) == context' = [context EXCEPT ![q] = id]

Event(event, status, id) == [event |-> event, status |-> status, id |-> id]

(* A response passes the middleware: it gets the id as a header, and when it
   is sent its completion is logged. *)
Respond(q, status, before) ==
    /\ reply' = [reply EXCEPT ![q] = [status |-> status, id |-> q]]
    /\ lines' = [lines EXCEPT ![q] =
         @ \o before \o <<Event("http_request_completed", status, context[q])>>]
    /\ SetContext(q, None)

(* A domain, application or infrastructure error has a handler below the
   middleware. *)
Handled(q, status) ==
    Respond(q, status, <<Event("handled_exception", status, context[q])>>)

(* Any other exception passes the middleware, which logs it and resets the
   context; it is answered, and logged again, outside. *)
LogsTwice(q) ==  \* mutant: `finally` logs the completion once more
    /\ lines' = [lines EXCEPT ![q] = @ \o
         <<Event("http_request_completed", 500, context[q]),
           Event("http_request_completed", 500, context[q]),
           Event("unexpected_exception", 500, None)>>]
    /\ reply' = [reply EXCEPT ![q] = [status |-> 500, id |-> None]]
    /\ SetContext(q, None)
Unexpected(q) ==
    /\ lines' = [lines EXCEPT ![q] = @ \o
         <<Event("http_request_completed", 500, context[q]),
           Event("unexpected_exception", 500, None)>>]
    /\ reply' = [reply EXCEPT ![q] = [status |-> 500, id |-> None]]
    /\ SetContext(q, None)

-----------------------------------------------------------------------------
Enter(q) == Arrive(q) /\ SetContext(q, q) /\ UNCHANGED <<lines, reply>>

Resolving(q) == (FindSession(q) \/ ListCandidates(q)) /\ UNCHANGED accessVars

(* Without a mock MockNotFoundError is raised as soon as the record is
   written; with one its side effects come first. *)
Resolved(q) ==
    /\ WriteRecord(q)
    /\ \/ pc'[q] = "not_found" /\ Handled(q, 404)
       \/ pc'[q] = "resolved" /\ UNCHANGED accessVars

(* The repository of mocks wraps what its driver raises, that of the request
   log does not. *)
Failed(q) ==
    /\ DbError(q)
    /\ \/ pc[q] # "write" /\ Handled(q, 500)
       \/ pc[q] = "write" /\ Unexpected(q)

(* Sync effects have ended, async ones are handed over (SideEffectDelivery);
   a sync effect that was given up, a template or a plugin is a domain,
   application or infrastructure error, a broker's error is none of them. *)
Pending(q) == pc[q] = "resolved" /\ context[q] # None
Served(q) ==
    /\ Pending(q)
    /\ \/ Respond(q, 200, <<>>)
       \/ \E status \in {400, 500} : Handled(q, status)
       \/ Unexpected(q)
    /\ UNCHANGED vars

(* The process dies, during the side effects or before. *)
Dies(q) ==
    /\ Failures /\ (Crash(q) \/ (Pending(q) /\ UNCHANGED vars))
    /\ SetContext(q, None)
    /\ UNCHANGED <<lines, reply>>

ServedNext ==
    \/ \E q \in Requests :
        Enter(q) \/ Resolving(q) \/ Resolved(q) \/ Failed(q) \/ Served(q) \/ Dies(q)
    \/ (Clear \/ \E i \in Ids : AdminWrite(i)) /\ UNCHANGED accessVars

ServedSpec == ServedInit /\ [][ServedNext]_allVars

-----------------------------------------------------------------------------
(* Properties.                                                             *)

(* Whatever other requests do between its awaits, the lines of a request and
   its reply carry its own id, or none where it has left the middleware: the
   answer to an unexpected exception (logging_middleware.py:50-52, :94-123,
   filters.py:20-21). *)
OwnId ==
    \A q \in Requests :
        /\ \A n \in DOMAIN lines[q] :
             lines[q][n].id = IF lines[q][n].event = "unexpected_exception" THEN None ELSE q
        /\ reply[q] # NoReply /\ reply[q].id # q =>
             \E n \in DOMAIN lines[q] : lines[q][n].event = "unexpected_exception"

(* The completion of a request is logged once, with the status its client
   was sent, and never of one that was not answered
   (logging_middleware.py:90-123). *)
CompletedOnce ==
    \A q \in Requests :
        LET completed == {n \in DOMAIN lines[q] : lines[q][n].event = "http_request_completed"} IN
        IF reply[q] = NoReply THEN completed = {}
        ELSE \E n \in completed : completed = {n} /\ lines[q][n].status = reply[q].status
=============================================================================
