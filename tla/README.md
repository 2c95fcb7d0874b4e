# DevMirror in TLA+

DevMirror is a mock server. Clients manage mocks through an admin API; requests
to any other route are answered with the stored mock that matches them best, are
written to a request log that tests can query, and may set off side effects
(HTTP callbacks, Kafka and RabbitMQ messages, Mongo, Postgres and Redis writes)
before the answer or behind it. This directory holds TLA+ models of its
concurrent core, from the admin API to the shutdown of a process, the TLC runs
that check them on small instances, and TLAPS proofs of their safety properties
for instances of every size.

`tlc -config <run>.cfg <module>.tla` repeats a run of the table below, and
`tlapm <component>_proofs.tla` the proofs about a component. `PROJECT.json` maps definitions to source lines and lists the hazards,
the runs, the theorems and, for each property, a faulty variant of a definition
that the property catches.

## 1. Inventory

Paths are below `src/app/`.

| Component | State | Operations | Modelled in |
|---|---|---|---|
| Mock management: `application/mocks/management`, `use_cases`, `domain/mocks`, `infra/repositories/mongo_mock_repository.py` | the `mocks` collection; aggregates a request holds in memory | create, update, delete, activate (with or without force), deactivate | `MockModel`, `MockCatalog`, `MockManagement` |
| Mock resolution: `application/mocks/resolution`, `domain/mocks/services`, `policies` | none of its own; reads the collection | session lookup, candidate lookup, rule matching, ranking | `MockResolution`, `RequestServing` |
| Request log: `application/request_logs`, `mongo_request_log_repository.py` | the `request_logs` collection | write, list, clear, verify | `RequestServing` |
| Answering a request: `api/routes/catch_all_routes.py`, `error_handlers.py`, `middleware`, `infra/logging` | the context variables of each request's task | set and reset the log context, handle exceptions, log, reply | `ServedRequests` |
| Side effect dispatch: `application/side_effects` | a dispatch: what is left, attempts made | dispatch with the policies ignore, fail_mock and retry | `SideEffectModel` |
| Side effect scheduling: `infra/side_effects/schedulers`, `infra/celery` | in-process tasks; broker queue; a message per worker | hand over, take, acknowledge, redeliver | `SideEffectDelivery`, `TaskQueue` |
| Providers, validation, connection registry: `infra/side_effects/providers`, `helpers`, `connection_registry.py` | none | refuse or accept an effect, key the client, execute | `SideEffectProviders`, `ProviderCalls` |
| Executors' client caches: `infra/side_effects/providers/executors` | a dictionary of clients and an asyncio.Lock in each of five executors | get or create, use, `aclose` | `ExecutorCache` |
| Container and lifespan: `di`, `main.py`; worker life cycle: `infra/celery/state.py`, `signals.py` | fields of lazy singletons | start, build on first use, close | `AppContainer` |
| Provider registry, plugin loader | a dictionary by provider name | register, load plugins | `AppContainer` (that and when it is filled) |
| Templates, contracts, layout of logs, body decoding, configuration, queue routing, health | none that outlives a request | - | no: see section 8 |

How they interact. The API process runs one event loop; `uvicorn` may run several
processes on one database. A request to a mocked route runs through resolution
(two strategies, each with a database read of its own), writes its log record,
dispatches the sync effects of the mock it resolved to, hands the async ones to
a scheduler and is answered. Admin requests share the `mocks` collection with
it and with each other. The services a request uses are built on first use by
synchronous dependencies, in threads of a pool. The in-process scheduler starts
a task on the same event loop; the Celery scheduler sends messages over Redis to
workers in other processes, which have executors - and so client caches - of
their own.

What is hard about it:

* No transactions, revisions or locks around the collections: every `await` of
  a repository call lets other requests in, and the copy a request loaded is
  written back as a whole (`update_mock.py:83`, `mock_management_service.py:222,
  226`).
* A forced activation is several writes, each of which may fail or be the last.
* Resolution reads twice; the mock that is answered with may be gone by then.
* Retries, redelivery, worker loss and failing publications come on top of each
  other in the delivery of side effects.
* The client caches are filled and closed by tasks that suspend in between.
* The container is filled by threads that check and set without a lock, and
  closed while background tasks may still use what is in it.
* Exceptions leave the layers of the application at different points; what is
  logged, and under which id, depends on where.

What makes each component correct:

* *Mock management*: as far as clients can tell its operations are those of an
  atomic catalog; two active mocks never answer the same requests; deleted mocks
  stay deleted; a mock is on only if somebody asked for it; requests end.
* *Resolution and log*: every answer is the best mock of some moment of the
  request; a session is never answered by another one's mock; a request is
  logged once, with what it was answered.
* *Side effects*: declared order, at least once through Celery, no repetition
  without a redelivery, a request failed by its effects exactly when there is a
  reason, nothing left lying.
* *Answers*: every line and reply of a request carries its id and no other's, its
  completion is logged once, as it was.
* *Providers*: no client is made with settings nobody checked, and no call gets
  the client of other settings than its own.
* *Client caches*: one open client per key, none closed in the cache but while the
  `aclose` that closes it lasts, none open outside it, nobody waiting for the lock
  for ever.
* *Container*: no request is served by a half-built service, a failed plugin
  starts nothing over, and a shutdown closes what was opened.

`PROJECT.json` lists the hazards at their lines, with the properties that guard
them or the reason why none does.

## 2. Modules

An action is one completed operation on a shared resource - a database
operation, a provider call, a publication, a step of a lock - together with the
code that runs until the next `await`. Nothing else can come in between there.

### Mock management

* `MockModel` - the aggregate (`domain/mocks/models/mock.py`) and update
  commands. A mock is the four things `conflicts_with` looks at (route, scope,
  rules), its flag, and a `body` for all other fields, which updates replace and
  nothing interprets; `Blank` stands for the values `_ensure_invariants`
  refuses. Stateless.
* `MockCatalog` - the abstract specification: create, update, delete, activate
  and deactivate as atomic operations on `store` and `minted`. Activation
  requires that no conflicting mock is active.
* `MockManagement` - the service. Each handler has a program counter naming the
  repository call it waits for, its request, the aggregates it holds (`local`)
  and the conflicts it still has to save (`pending`).

  | Action | Code |
  |---|---|
  | `ReceiveCreate`, `ReceiveUpdate`, `RefuseEmptyUpdate`, `ReceiveActivate`, `ReceivePlain` | routes of `mock_admin_routes.py`, up to the first repository call |
  | `Insert` | `MongoMockRepository.add` |
  | `Get` with `LoadedFor...` | `get_by_id` and what each operation decides on what it loaded: 404, `OperationNotAllowed`, a refused update, or the next call |
  | `List` | `list_candidates`, `find_conflicts`, 409 or the switches in memory (`mock_management_service.py:189-224`) |
  | `SaveConflict`, `Save` | `save` of one conflict, of the target: `document.replace()`, which fails on a deleted document |
  | `RemoveGet`, `Remove` | `remove`, which looks the document up again |
  | `DbError`, `Crash` | an operation raises without effect (500); the process dies |

  A write that took effect may also be reported as failed (`WriteAnswers`, the
  `DbFailures` disjunct of `SaveConflict`). `minted` and `asked` are history:
  ids ever assigned, and ids some client asked to activate.
* `MCMockManagement` - commands, duties and symmetry for TLC.
* `MockManagement_proofs`, `MockRefinement_proofs` - the proofs; see section 6 for
  these and for the other `..._proofs` modules, one per component.

`Duty[h]` is the set of routes the client behind handler `h` manages. With
`Duty` everything, requests are unrestricted. Under `OneWriterPerRoute` no two
requests in flight manage the same route: the way a test suite uses the server
when each test has routes of its own. The properties say which they need.

### Resolution and request log

* `MockResolution` - pure operators: value extraction, the five rule operators,
  scores, `MatchRules` (a fold that stops counting at the first mismatch, as the
  loop returns), scope and session of a request, the candidate query, the rank
  tuple with Python's tuple order, `max` by rank, and the session query. A
  request's values are absent, a scalar or a list; `Within` says which text is
  part of which. Null and absent values are one (`dict.get`); rules never expect
  null (`MatchRule.__post_init__`). JSON objects as values are left out. Header
  names are looked up as the rule spells them.
* `RequestServing` - `Arrive`, `FindSession`, `ListCandidates`, `WriteRecord` for
  `MockResolverService.resolve` and its two strategies, with the log write each
  makes before it returns; `AdminWrite` changes any one mock to anything at all,
  which includes all that `MockManagement` does; `Clear` empties the log;
  `DbError` and `Crash` end a request anywhere (`Breaks`), and a log write may have
  taken effect although nobody was told. Timestamps of mocks are coarse: two writes may share
  one, so that ties reach the last components of the rank. `VerifyCount` is
  `RequestLogService.verify`.

  `Schema` is what a stored mock may look like, `Documents` the ones the run begins
  with and admin requests write; `Lookups` are the collections and requests for which
  `LookupsAgree` compares the two lookups with their reference.

  The reference is a second definition, written with quantifiers and not with
  loops and tuples: `Applies`, `Preferred`, `RuleAnswer`, `SessionAnswer`. The
  history variables `sessions` and `matches` collect what it would have answered
  at each moment since the request arrived.
* `ServedRequests` - `RequestServing` inside the layers of the application. `Enter`
  and `Respond` are the two ends of `RequestLoggingMiddleware`; `Handled` is a
  handler of `error_handlers.py` that answers below it, `Unexpected` the one of
  `Exception`, which Starlette's `ServerErrorMiddleware` calls above it, when the
  context has been reset. `Resolved`, `Failed` and `Served` say which exceptions
  take which way: errors of the mock repository are wrapped, those of the log
  repository are not. `Served` has the outcomes of a dispatch and a hand-over,
  which `SideEffectDelivery` models in detail. `context` is the context variable,
  one value per task; `lines` are the log lines of a request, with the id the
  filter gives them.
* `MCRequestServing` - documents and requests for TLC.

### Side effects

* `SideEffectModel` - a side effect, its validation, and the dispatcher: `Begin`
  skips disabled effects and looks the first provider up, `AfterCall` applies the
  failure policy. An effect is `callable` when its provider is registered and its
  templates render; both come before the policy and fail the dispatch whatever it
  says.
* `SideEffectDelivery` - `Execute`, `SyncCall`, `Respond` for
  `catch_each_request` and `SideEffectExecutionService.execute`. `Respond` builds
  the response when the effects are through, and may fail at it: stage `unbuilt` is
  the 500 of such a request, `error` that of one its effects failed. Then there are
  `StartBackground`, `BackgroundCall` for the in-process scheduler; `Publish`,
  `PublishFails` for the Celery scheduler, one message for each parallel effect
  and one for all sequential ones; `Take`, `WorkerCall` for the tasks, which
  acknowledge when the dispatch has ended, by whatever outcome; `WorkerLost`,
  `VisibilityTimeout` (external) for the two ways a message is delivered again;
  `TimeLimit`, `Crash`. The scheduler is chosen at the start and kept. A process
  or worker may die before, or in the middle of, the call it waits for (`CutOff`).
  Histories tell acknowledged jobs (`acked`) from those a time limit ended
  (`killed`), and count the calls of each effect.
* `TaskQueue` - the abstract specification of the hand-over to Celery: jobs are
  sent, and finished after that, and a job that was sent stays sent. The
  refinement maps `sent` to what waits, is being worked on or is finished.
* `MCSideEffectDelivery` - lists of effects for TLC.

### Providers and client caches

* `SideEffectProviders` - what each of the six providers and its executor accept,
  field by field, as data (`Rules`), with `Accepted` for the checks a call passes
  before anything is opened, `CacheKey` for the key its client is cached under and
  `ClientParams` for what the client is constructed with. Values are absent, bad or
  valid. Stateless.
* `ExecutorCache` - one module for five classes that differ in whether `aclose`
  takes the lock (`LockedClose`; all but Kafka). `CallFor` is the first look without
  the lock, `Granted` the first-come-first-served hand-over of an asyncio.Lock
  with the `SecondLook`, `Created`, `CreationFails`, `SetupFails` the creation
  under the lock, `Finish` the end of the command; `Close`, `CloserGranted`,
  `ClientCloses` and `Closed` are `aclose`: the clients close one by one inside the awaited
  `gather`, in any order, and stay in the dictionary, where the first look finds
  them, until all have; then it is cleared. What a connection holds whose set-up
  failed late, or whose close failed, is up to its library; a client whose close
  failed counts as closed. Mongo and Redis create their client
  without suspending, which is a subset of the behaviours.
* `ProviderCalls` - composes the two: `Refuse` and `SerializationFails` end a call
  before it has a client, `Begin` goes to the cache with the key of the call's
  connection, `Obtain`, `ObtainFails`, `Succeeds` and `Fails` take it to its result.
  `source` records for which connection each client was created. HTTP callbacks
  have no cache.
* `MCProviderCalls` - of every provider two sound connections that share an
  address, and for each field of settings, target, options and payload one that is
  sound but for that field. `MCExecutorCache` - symmetry for the cache alone.

### Container

* `AppContainer` - `Look` and `Store` are a lazy property: look at the field, build
  what the constructor asks for (`Needs`, `RegistryNeeds`, in its order), assign, and
  read the field again. A request's `stack` holds what it is building, and what that
  reaches. `PluginFails` aborts the registry after its providers and executors are
  in their fields. `Start`, `BeginShutdown`, `CloseNext`, `CloseFails` and
  `CloseMongo` are the lifespan of `main.py` and `WorkerState`; `BackgroundUse` is
  an in-process task that outlives the requests. Services that reach no executor
  are taken in one step: building one twice changes nothing. Requests of the
  admin API reach no executor and are left out.
* `MCAppContainer` - two kinds of executors: one that cannot be used once closed
  (the HTTP client) and one that opens clients anew.

## 3. Runs

| Run | Checks | Shows |
|---|---|---|
| `mgmt_concurrent` | `TypeOK`, `NeverActivatedUnasked`, `NoResurrection`, `ErrorOnlyWhenVanished`, `DeletedIsGone` | Two unrestricted clients, crashes anywhere: no stale save revives a deleted mock or switches one on that nobody wanted; who is told of a deletion is told the truth; a 500 always means that a mock vanished under the request. |
| `mgmt_owned` | `CopiesUpToDate`, `ImplementsCatalog`, `ConflictsOnlyByUpdate`, `ForcedActivationWorks`, `Answered` | One client per route, updates that move mocks between routes, failures and crashes: the service implements the catalog, because no copy is stale; nothing but an update of an active mock brings two active mocks into conflict; a forced activation succeeds unless cut off; every request ends. |
| `mgmt_lost_update` | `UpdateKeepsOtherFields` | **Violated**: without that discipline an update undoes another write. |
| `mgmt_unforced_race` | `UnforcedActivationExcludes` | **Violated**: two unforced activations of conflicting mocks both succeed. |
| `serving` | `ServedTypeOK`, `LookupsAgree`, `AnswerWasRight`, `SessionPinned`, `AnsweredIsLogged`, `AnsweredIsVerified`, `OwnId`, `CompletedOnce` | Overlapping requests, a concurrent admin write and clears: lookups agree with their reference, answers agree with it at one moment of the request, sessions hold, the request log tells what happened, and the program's log tells it once and under the right id. |
| `serving_verify_page` | `VerifyCountsAll` | **Violated**: verification counts only the newest page of the log. |
| `effects_delivery` | `TypeOK`, `InOrder`, `NoDuplicates`, `ErrorHasCause`, `NoneLost`, `AtLeastOnce`, `NoRepeats`, `ImplementsQueue`, `Answered`, `EffectsSettle` | Every list of up to two of ten kinds of effects and the batches among three, both schedulers, all failures: order, delivery and repetition as documented, a request fails by its effects exactly when one was given up or not handed over, whether or not its response can be built then, and no call after a success but by a redelivery; the queue is implemented; requests are answered and every effect is settled or given up. |
| `effects_before_answer` | `AsyncAfterAnswer` | **Violated**: an async effect may run before the answer. |
| `cache_close` | `CallsTypeOK`, `OwnClient`, `ClientsAreConfigured`, `LockedOneOpenClient`, `LockedNoneLeaked`, `CachedIsOpenOrClosing`, `CallsEnd` | All six providers, sound and malformed effects and connections, `aclose` at any moment and closing clients one by one: calls get clients of their own, checked settings; closing under the lock leaks nothing; a call may be handed a closed client only while the `aclose` that closed it lasts; every call and every `aclose` ends. |
| `cache_kafka_close` | `NoneLeaked` | **Violated**: closing without it drops a producer that was never stopped. |
| `container` | `TypeOK`, `ServiceIsComplete`, `NoExecutorRemade`, `ClosedOrExplained`, `Answered` | First requests that overlap, failing plugins and closes: services are complete when used, and what a shutdown leaves open, the database client included, has one of three reasons. |
| `container_race` | `ClosesAll` | **Violated**: two first requests build the registry at once, and one's executor is never closed. |

The six violated statements are quoted from the repository, with their lines,
under `findings` in `PROJECT.json`:

1. *Lost update.* A loads a mock, B activates it and is answered, A saves its
   copy: the mock is off again. The command promises "fields to change".
2. *Unforced race.* A and B check for conflicts, both find none, both save.
3. *Short count.* `verify` calls `list_records()` with its default limit of 100.
4. *Effects before the answer.* `execute` hands async effects over before the
   response is built; a worker may be faster, and if building fails they run for
   a request that is answered 500.
5. *Dropped producer.* While Kafka's `aclose` waits in `gather`, a provider call
   caches a new producer, and `clear()` drops it.
6. *Unclosed executor.* Two first requests run the dependency that builds the
   registry in two threads; one executor is overwritten in its field, and used,
   but not closed, by the service that holds it.

Two more observations have no run. Starlette calls the handler of `Exception`
outside of the logging middleware: the 500 it answers has no `x-request-id`, its
log line no id, and the flag `exception_logged` is set after the middleware has
looked at it. And the log filter replaces the `request_id` that Celery tasks give
their lines with the one of a context that no worker sets.

`CHECK_DEADLOCK FALSE` is set where requests are finitely many and the system
stops when they are all served or the process has ended (`effects_*`,
`serving*`, `container*`).

## 4. Bounds

* *Two handlers* (`mgmt_*`): every hazard is a race of one request's reads with
  another's writes. *Three ids* give an activation two conflicts, so that one can
  be saved, deleted or left over while the other waits; `mgmt_owned` has two
  because it checks liveness, without symmetry, and three routes, two of them of
  one client, so that mocks move between routes. Ids are not reused, so
  `RoomForCreate` admits a create only while one is left. The proofs lift all these
  bounds for the safety properties.
* *`MaxWrites` 1* (`serving`): one admin write is enough to fall between the two
  reads, or between the reads and the answer; the initial collections are all
  there are of two ids and three documents. `LookupsAgree` compares each lookup
  with its reference apart from the interleavings, so `Lookups` can be more: two ids
  with eleven documents, every age and six contexts (none in `serving_verify_page`,
  which asks something else). *Two requests* share the log. *`PageSize` 2* stands for
  100. In `serving_verify_page`, three requests exceed it.
* *`MaxRestores` 1*: one message delivered again, to the second worker while the
  first holds it or after it died. *`MaxCount` 5*: the call counters saturate
  above what retries and one redelivery can need (`DeliveryAssumption`). *Three
  positions*: enough for a batch of two with a sync effect or one alone before,
  between or after it, or a batch of three. *One request*: requests share nothing but the workers, and its
  own messages keep both of them busy.
* *`MaxClients` 3*: a client, one after a close or for another key, and one more.
  *Two callers*: a creator and a waiter, with `aclose` as the third to use the lock.
* *Two requests* (`container*`): a race needs two; *two kinds* of executors: one
  whose close fails and one behind it.

## 5. Fairness

* `MockManagement`: every database operation ends, with a result or with an
  exception after the driver's timeouts (weak fairness of `Step`; failures may
  happen but are not bound to). Clients are not fair.
* `SideEffectDelivery`: provider calls end - with an answer, the timeout that the
  connection's settings or the client library set, or a broken connection;
  not every executor sets one by default, and a call that never ends keeps what waits
  for it -, requests go on, and workers that are alive take messages. The in-process
  scheduler keeps no reference to its tasks, which Python allows to be collected
  before they end; fairness of `BackgroundCall` assumes that they live on.
* `ProviderCalls`: connecting, commands and closing end, in the same sense. The lock is first come,
  first served, as asyncio.Lock is.
* `AppContainer`: the threads that build services run on, and the effects of a
  request end.
* Nothing is assumed of strong fairness, nor of how soon.

## 6. What is proved

Every safety property of the passing runs, invariants and action properties alike,
is a theorem. The theorems hold for sets of any size,
under the named assumptions on the constants, which say what kinds of values there
are and which of them are finite; the TLC runs evaluate each. Of the bounds of
section 4, `MaxClients`, `MaxWrites`, `PageSize`, `MaxRestores` and `MaxCount` are
constants of the modules, and the theorems hold for all their values (`MaxCount` above what
`MaxRestores` can need); the others concern the runs only. Theorems whose left-hand
side has more than `Spec` say so.

| Module | Theorem | Says |
|---|---|---|
| `MockManagement_proofs` | `TypeCorrectness` | `Spec => []TypeOK` |
| | `DeletedStaysDeleted`, `DeletedMeansGone` | `NoResurrection`, `DeletedIsGone` |
| | `ErrorsHaveVanished` | `~DbFailures => (Spec => ErrorOnlyWhenVanished)` |
| | `OnlyAskedAreActive` | `NeverActivatedUnasked` |
| `MockRefinement_proofs` | `OneWriterKeepsCopies` | `OneWriterPerRoute => (Spec => []CopiesUpToDate)` |
| | `ServiceImplementsCatalog` | `OneWriterPerRoute => (Spec => ImplementsCatalog)` |
| | `ActiveMocksConflictFree` | with `KeyStable` in addition, `Spec => []ConflictFree` |
| | `OnlyUpdatesMakeConflicts` | `OneWriterPerRoute => (Spec => ConflictsOnlyByUpdate)` |
| | `OneWriterKeepsFields` | `OneWriterPerRoute => (Spec => UpdateKeepsOtherFields)` |
| | `OneWriterActivatesAlone` | `OneWriterPerRoute => (Spec => UnforcedActivationExcludes)` |
| `SideEffectDelivery_proofs` | `DeliveryTypeCorrectness` | `TypeOK` |
| | `CallsAreInOrder`, `CallsAreBounded` | `InOrder`, `NoDuplicates` |
| | `ErrorsHaveCauses` | `ErrorHasCause` |
| | `AllAreSent`, `AcknowledgedIsSettled` | `NoneLost`, `AtLeastOnce` |
| | `SuccessEndsCalls` | `Spec => NoRepeats` |
| | `DeliveryImplementsQueue` | `Spec => ImplementsQueue` |
| `ExecutorCache_proofs` | `CacheTypeCorrectness`, `CachedClientsAreOpenOrClosing` | `TypeOK`, `CachedIsOpenOrClosing` |
| | `LockedCachesHoldAll` | where `aclose` locks, `OneOpenClient` and `NoneLeaked` |
| `ProviderCalls_proofs` | `CallsTypeCorrectness` | `CallsTypeOK` |
| | `CallsUseTheirOwnClients`, `ClientsAreCheckedFirst` | `OwnClient`, `ClientsAreConfigured` |
| | `CallsShareOneClient`, `CallsLeakNone`, `CallsFindOpenOrClosingClients` | `LockedOneOpenClient`, `LockedNoneLeaked`, `CachedIsOpenOrClosing` |
| | `CallsImplementCache` | `CallsSpec => AsCache!Spec`: calls do to the cache what `ExecutorCache` does |
| `MockResolution_proofs` | `MatchesWhenAllHold` | what the loop over match rules computes |
| `RequestServing_proofs` | `RankedChoiceIsRight`, `LatestIsRight` | the two lookups choose what the reference chooses |
| | `LookupsAlwaysAgree` | `LookupsAgree`, from these two |
| | `AnswersAreRight`, `SessionsArePinned` | `AnswerWasRight`, `SessionPinned` |
| | `AnswersAreLogged`, `AnswersAreVerified` | `AnsweredIsLogged`, `AnsweredIsVerified` |
| | `WholePageCountsAll` | `VerifyCountsAll` while the log is no longer than a page |
| | `ServedImplementsServing` | `ServedSpec => Spec`, so the above hold of served requests |
| | `ServedTypeCorrect`, `LinesCarryOwnId`, `CompletionLoggedOnce` | `ServedTypeOK`, `OwnId`, `CompletedOnce` |
| `AppContainer_proofs` | `ContainerTypeCorrect`, `ServicesAreComplete` | `TypeOK`, `ServiceIsComplete` |
| | `ExecutorsAreBounded`, `ShutdownIsExplained` | `NoExecutorRemade`, `ClosedOrExplained` |
| | `SerialProcessClosesAll` | `ClosesAll` of workers, and of any process without overlap and late use |

### What becomes of the violated statements

Five of the six hold under a condition, and a theorem of its own, which no run
repeats, names it:

| Violated | Holds | By |
|---|---|---|
| `UpdateKeepsOtherFields`, `UnforcedActivationExcludes` | with one client per route | `OneWriterKeepsFields`, `OneWriterActivatesAlone` |
| `VerifyCountsAll` | while the log fits a page | `WholePageCountsAll` |
| `NoneLeaked` | where `aclose` takes the lock | `LockedCachesHoldAll` |
| `ClosesAll` | in a Celery worker, and where no two requests build at once and nothing is used after its close | `SerialProcessClosesAll` |

`AsyncAfterAnswer` has no such condition short of having no async effects; what
holds of the order of effects is `InOrder`.

### Mock management

`TypeOK` is inductive because it says, for each program counter, what kind of
request waits there and that what it will write is a document.
`NeverActivatedUnasked` is not inductive: a request may hold an active copy of a
mock, and save it later. The strengthening says that active copies too are of
mocks somebody asked for, and that an activation in progress has been asked for.
`NoResurrection` follows from `TypeOK` step by step: an insert draws an id that
was never minted, and a replace of a missing document fails.
`ErrorOnlyWhenVanished` goes through the steps for the answers they give.

The refinement rests on `IInv == TypeOK /\ StoredIsMinted /\ CopiesUpToDate`.
`StoredIsMinted` says that documents are stored under minted ids only, so that an
insert overwrites none. `CopiesUpToDate` is the argument itself: what a request is
about to write is what the atomic operation would write now. Its step from one handler's action to
another handler's copies is where `OneWriterPerRoute` enters: an action touches
only mocks of its own duty (`Managed`) and leaves them there, so copies of other
handlers - documents of other routes - and the conflicts they found stay valid.
Each step is then one catalog operation (`Insert` a create, `SaveConflict` a
deactivation, `Save` an update, activation or deactivation, `Remove` a delete) or
a stutter. `ConflictFree` follows for the catalog when no command changes a
conflict key, and is carried over by the refinement's invariant.

The same invariant gives the two statements that concurrent clients violate: the copy
an update saves is the stored document but for the fields of the command
(`OneWriterKeepsFields`), and what an activation that is about to save has found,
no conflict or none left, is what the collection still says
(`OneWriterActivatesAlone`).

### Delivery of side effects

Neither order nor delivery is inductive: what a dispatch did before it was cut off
and started again matters. `IInv` therefore says of every dispatch, wherever it runs
- in the request, in a background task, in a worker - over which set of effects it
runs and how far it is (`RunsOver`: what is left lies behind what was settled, and
what was settled was called), and of every job that was ever sent that it is one
parallel effect or all the sequential ones of its request, so that two jobs never
hold the same effect. `InOrder` and `NoneLost` are consequences. For `ImplementsQueue` each step sends one job, finishes one or
stutters; what needs the invariant is that an acknowledgement finishes a job that
was sent and had not been finished.

`NoDuplicates` needs a count. An effect may still be called by every copy of its
message, so `DInv` adds slots: a slot of an effect is a copy of its message -
unsent, waiting or in work - and a try that copy still has. For each effect, its
calls so far and its open slots together stay within attempts times one more than
the restorations (`CountOk`). A call closes a slot; a restoration opens as many as
there are tries, and raises the bound by as many. That no two holders have the same
copy (`CopiesOk`) makes the sum right. Where nothing is delivered again - sync
effects, and the in-process scheduler - the calls of the effect a dispatch is at are
its tries (`FreshOk`), and attempts alone is the bound. `DeliveryAssumption` keeps
the saturating counter (`MaxCount`) above all of these bounds.

`ErrorHasCause`, `AtLeastOnce` and `NoRepeats` speak of effects that were given up:
tried as often as the policy says and without success, or called again by a message
that came twice. That a success is the last call is again not inductive, since the
code has no memory of successes: a worker calls what its dispatch has left. `GInv`
therefore says who may still call an effect (`MayCall`): the request before and
during its dispatch, the scheduler that has not sent it, a background task, a
message that waits, a worker with the effect left. Every step narrows that but a
restoration (`NextNarrows`), a call is made by one that may, and after a success
nobody may (`NextAllowed`): holders of one effect are never two, by `DInv`. So an
effect that succeeded and may still be called has been delivered again (`NotTwice`).
`ErrorHasCause` has the converse too: a request past its effects, whether its response
is built or fails to be, has no cause. `RunsOver` says for this that what was called is
`callable`, and with the dispatch done nothing is left that could be given up
(`PastHasNoCause`).
For acknowledged jobs, `AckedApart` adds that nobody holds one unless it was
delivered again, so that what was settled or given up at the acknowledgement stays so.

### Caches and provider calls

`CachedIsOpenOrClosing` says of the window inside `gather` what is left: clients that
the `aclose()` under way has told to close are in the dictionary, open or not, and no
others are closed. That nothing is being closed when no `aclose()` runs
(`NoneClosing`) makes it speak of that one only. It holds for Kafka too: what is
cached while `aclose()` waits is open until it is dropped. `NoneLeaked` needs what the
lock protects: a client is created only while its key has none
(`CreatesWhatIsMissing`), and what a closing task has collected is still all that is
cached (`ClosesAll`) - true only where `aclose` holds the lock, which is why it has
`LockedClose` as its premise and Kafka's `aclose` refutes it in `cache_kafka_close`. `TypeOK` says that the lock's queue holds exactly the tasks
that wait, each once, and is inductive by itself.

The steps of `ProviderCalls` are steps of `ExecutorCache` with an effect attached,
so its proofs start from the cache's invariant, and `CallsImplementCache` says it as
a refinement: refusals, serialisation and HTTP callbacks, which go past the cache,
are stutters (`CachePc`, `CacheWant`). `CallsInv` adds where every client
comes from (`SourceOf`): a connection whose key it is cached under, checked before
it was created. `OwnClient` follows since keys tell connections apart: the key of
each of the five providers holds all a client is constructed with, or the name by
which a connection is looked up (`ConnectionAssumption`: names are unique, as in a
dictionary).

### Resolution and answers

What the loops compute is proved for lists of every length. Schemes of induction
that take a predicate are not available, so `Induction` is stated for sets: a set of
numbers that holds 0 and with each number the next holds all, from the least
number outside of it. `MatchRules` and `SumOf` are folds; `MatchRulesSteps` and
`SumOfSteps` unfold them to the sequence of their intermediate results.
`LessIsOrder` says that ranks are ordered as tuples are, and that ranks of different
mocks differ (the id is their last component), so that `max` has one result in
whatever order the database lists the candidates (`BestIsGreatest`), and that result
is the one the reference prefers (`RankedChoiceIsRight`). The theorem holds for all
documents, contexts and timestamps, of which the run checks a selection; `LookupsAlwaysAgree` is `LookupsAgree` for every
choice of `Lookups`.

`AnswerWasRight` relates an answer to states that are gone. `IInv` keeps what the
lookups would find now in the history of every request in service (`HistoryInv`),
so that a lookup, by the two theorems above, chooses something that is in it, and
says at each program counter what that choice was (`AnswerInv`). `LogInv` and
`RecordInv` tie the log to the requests: records have times of their own, so a
request's record is in the log exactly if it was answered and the log not cleared
since. `PageIsWhole` says that a log no longer than a page is that page: hence
`WholePageCountsAll`. `AnsweredIsVerified` bounds the count from both sides, and
for the upper one `RecordsTell` is needed: a record tells the route and the mock of
the request that wrote it, so that two requests are never one in the count.

`ServedImplementsServing` shows step by step that the layers around a request only
add `context`, `lines` and `reply`. `AccessInv` says what those are at each point of
a request: until it is answered it has no lines, and its context is its own.

### Container

Four threads of argument, one for each part of `IInv`:

* *What is promised* (`StackInv`, `FieldInv`): a field gives what its constructor
  asks for - a provider its executor, the registry all kinds and the plugins, the
  services what the registry gives - and a half-built object what it took so far.
  A complete one then keeps the promise of its field (`CompleteGives`), and a
  request in service has everything (`RequestIsFull`).
* *How many are made* (`CountInv`): executors of a kind that were made, and requests
  that are about to make one (`Waiting`), together are at most as many as the most
  requests that were building at once. It is inductive because a request begins to
  make an executor only while none was made and each that waits is then building;
  from there on `made` grows only as `Waiting` shrinks. `made` alone is not
  inductive.
* *Who holds which* (`HeldInv`): executors in fields, on stacks, in background tasks
  and with open connections were made, so that without an overlap there is one of
  each kind, and it is in its field.
* *What is closed* (`CloseInv`): what `aclose()` has passed is closed, unless a
  background task used it since. An executor that is open in the end was either not
  in its field - then two were made, and two requests overlapped -, or used late, or
  not reached. The database client is closed by the step that ends the shutdown, and
  only a close that raised leaves it out (`MongoClosed`). `WorkerInv` adds what a worker is spared: one task at a time, and no
  task behind it.

## 7. What is only model-checked

* Liveness (`Answered` of three modules, `ForcedActivationWorks`, `EffectsSettle`,
  `CallsEnd`): the prover has no support for ENABLED and fairness.
* The six violations: a counterexample is what TLC is for.

## 8. What is not modelled, and why

* *Contents*: payload formats, templates, JSON layout, the layout of log lines,
  response bodies and headers other than the request's id. No property depends on
  them.
* *Reads of the admin API*: they change nothing. `list_candidates` and the
  session lookup are one atomic read each; a MongoDB cursor that sees a document
  twice or not at all while it moves in the index is not modelled.
* *Late writes*: a database operation takes effect, if at all, before its request
  goes on. A write the driver gave up on that is applied afterwards is not.
* *The order of conflicts* in a forced activation is left open; the code sorts
  them by priority and age.
* *Request bodies that cannot be decoded, contract validation (422)* happen
  before the first action of a request.
* *The inside of the container's `aclose()`*: it closes one executor in one step
  (`CloseNext`) or fails at it, for all clients of the executor together; how clients of an executor
  close one by one is in `ExecutorCache`. There a close that fails counts as a close
  (its client is dropped from the cache, whatever its library keeps open).
* *Event loops*: every Celery task runs in a loop of its own, in which clients
  that an earlier task cached may fail; a call with one is a failing call here.
* *Celery's queues*: which queue a task goes to. All queues have the same
  workers, as in the README's command.
* *Pages of the request log* but the first, which is all that `verify` reads.
* *Which providers an entry point brings*: the plugin loader is in `AppContainer`
  as the step that succeeds or fails.
* *Lines of Celery workers and background tasks*: `ServedRequests` has those of the
  middleware and the exception handlers.

## 9. Plan

Order of the work: first the shared collection everybody writes (admin API and
its abstract catalog, with proofs), then the delivery of effects, the caches, the
serving path, then providers, container and answers. All modules of section 2 are
done. To extend the models, what is left is small: paging through the request log
while it grows, and queues that only some workers consume.

To prove more, the liveness properties of section 7 are what is left, should a prover
for ENABLED and fairness become available.
