--------------------------- MODULE ExecutorCache ---------------------------
(***************************************************************************)
(* The client cache of the side effect executors: a dictionary filled      *)
(* under double-checked locking (an asyncio.Lock) by provider calls that   *)
(* run concurrently, and emptied by aclose() while background dispatches   *)
(* may still be running.  Postgres, Mongo, RabbitMQ and Redis close under  *)
(* the lock; Kafka closes without it.                                      *)
(***************************************************************************)
EXTENDS Naturals, Sequences, FiniteSets

CONSTANTS
    Callers,    \* provider calls in progress
    Closer,     \* the task that runs aclose()
    Keys,       \* connection settings, as cache keys
    None,       \* no client, or nobody
    Providers,  \* the providers whose executor this may be
    MaxClients  \* bound: clients ever created

ASSUME CacheAssumption ==
    /\ Closer \notin Callers /\ None \notin Callers \cup {Closer}
    /\ Providers \subseteq {"http", "kafka", "mongo", "postgres", "rabbitmq", "redis"}
    /\ MaxClients \in Nat /\ None \notin Nat

VARIABLES
    provider,   \* whose executor it is
    cache,      \* [Keys -> client or None]
    lock,       \* who holds the lock
    waiters,    \* who waits for it: asyncio.Lock is first come, first served
    pc, want,   \* what a caller does, and for which key
    got,        \* the client a caller uses
    closing,    \* clients the aclose under way has told to close
    made,       \* clients created so far, with their keys
    open        \* those of them that were set up and not closed

vars == <<provider, cache, lock, waiters, pc, want, got, closing, made, open>>

(* Whether aclose takes the lock. *)
LockedClose == provider # "kafka"

Tasks == Callers \cup {Closer}
Clients == 1..MaxClients
Cached == {cache[k] : k \in Keys} \ {None}

(* Clients are created under the lock, and who waits is in the queue, once. *)
LockDiscipline ==
    /\ \A c \in Callers : pc[c] = "creating" <=> lock = c
    /\ LockedClose => (pc[Closer] = "closing" <=> lock = Closer)
    /\ \A t \in Tasks : pc[t] = "waiting" <=> \E n \in DOMAIN waiters : waiters[n] = t
    /\ \A m, n \in DOMAIN waiters : waiters[m] = waiters[n] => m = n

TypeOK ==
    /\ provider \in Providers
    /\ cache \in [Keys -> Clients \cup {None}]
    /\ lock \in Tasks \cup {None}
    /\ waiters \in Seq(Tasks)
    /\ pc \in [Tasks -> {"idle", "waiting", "creating", "using", "closing"}]
    /\ want \in [Callers -> Keys \cup {None}]
    /\ got \in [Callers -> Clients \cup {None}]
    /\ closing \subseteq Clients
    /\ made \in Seq(Keys) /\ Len(made) <= MaxClients
    /\ open \subseteq 1..Len(made)
    /\ LockDiscipline

Init ==
    /\ provider \in Providers
    /\ cache = [k \in Keys |-> None]
    /\ lock = None /\ waiters = <<>>
    /\ pc = [t \in Tasks |-> "idle"]
    /\ want = [c \in Callers |-> None]
    /\ got = [c \in Callers |-> None]
    /\ closing = {} /\ made = <<>> /\ open = {}

-----------------------------------------------------------------------------
Barging == lock = None  \* mutant: a newcomer takes a lock others wait for
LockFree == lock = None /\ waiters = <<>>

Goto(t, l) == pc' = [pc EXCEPT ![t] = l]
Queue(t) == waiters' = Append(waiters, t) /\ Goto(t, "waiting") /\ UNCHANGED lock
Release == lock' = None

UseCached(c, k) ==
    /\ got' = [got EXCEPT ![c] = cache[k]]
    /\ Goto(c, "using")

(* The first look goes without the lock; a free lock is taken at once. *)
CallFor(c, k) ==
    /\ pc[c] = "idle"
    /\ want' = [want EXCEPT ![c] = k]
    /\ \/ cache[k] # None /\ UseCached(c, k) /\ UNCHANGED <<lock, waiters>>
       \/ /\ cache[k] = None /\ LockFree
          /\ lock' = c /\ Goto(c, "creating") /\ UNCHANGED <<waiters, got>>
       \/ cache[k] = None /\ ~LockFree /\ Queue(c) /\ UNCHANGED got
    /\ UNCHANGED <<cache, closing, made, open>>

Call(c) == \E k \in Keys : CallFor(c, k)

(* The lock comes to the first waiter, which looks again. *)
NoSecondLook(c) ==  \* mutant: the waiter creates a client in any case
    /\ Goto(c, "creating") /\ lock' = c /\ UNCHANGED got
SecondLook(c) ==
    \/ cache[want[c]] # None /\ UseCached(c, want[c]) /\ UNCHANGED lock
    \/ cache[want[c]] = None /\ Goto(c, "creating") /\ lock' = c /\ UNCHANGED got

Granted(c) ==
    /\ lock = None /\ waiters # <<>> /\ Head(waiters) = c
    /\ waiters' = Tail(waiters)
    /\ SecondLook(c)
    /\ UNCHANGED <<cache, want, closing, made, open>>

Created(c) ==
    /\ pc[c] = "creating" /\ Len(made) < MaxClients
    /\ made' = Append(made, want[c])
    /\ open' = open \cup {Len(made) + 1}
    /\ cache' = [cache EXCEPT ![want[c]] = Len(made) + 1]
    /\ got' = [got EXCEPT ![c] = Len(made) + 1]
    /\ Goto(c, "using") /\ Release
    /\ UNCHANGED <<waiters, want, closing>>

(* Creation raises; `async with` gives the lock back. *)
KeepLock == UNCHANGED lock  \* mutant: an exception leaves the lock taken
GiveBack == Release
CreationFails(c) ==
    /\ pc[c] = "creating"
    /\ Goto(c, "idle") /\ GiveBack
    /\ want' = [want EXCEPT ![c] = None]
    /\ UNCHANGED <<cache, waiters, got, closing, made, open>>

(* The connection stands and the rest of its set-up fails (RabbitMQ's channel
   and exchange, Kafka's start): nobody keeps it and nobody closes it. *)
SetupFails(c) ==
    /\ provider \in {"kafka", "rabbitmq"}
    /\ pc[c] = "creating" /\ Len(made) < MaxClients
    /\ made' = Append(made, want[c])
    /\ Goto(c, "idle") /\ GiveBack
    /\ want' = [want EXCEPT ![c] = None]
    /\ UNCHANGED <<cache, waiters, got, closing, open>>

(* The command ends, with a result or an error. *)
Finish(c) ==
    /\ pc[c] = "using"
    /\ Goto(c, "idle")
    /\ want' = [want EXCEPT ![c] = None]
    /\ got' = [got EXCEPT ![c] = None]
    /\ UNCHANGED <<cache, lock, waiters, closing, made, open>>

-----------------------------------------------------------------------------
(* aclose(): tells the clients cached now to close, waits for them all,    *)
(* then clears the cache.  Until then they stay in it, closed or not.      *)

OnlyFirst == IF Cached = {} THEN {} ELSE {CHOOSE n \in Cached : TRUE}  \* mutant
ToClose == Cached

(* gather() of nothing does not suspend: aclose ends where it began. *)
BeginClosing ==
    /\ closing' = ToClose
    /\ Goto(Closer, IF Cached = {} THEN "idle" ELSE "closing")
    /\ lock' = IF LockedClose /\ Cached # {} THEN Closer ELSE lock

Close ==
    /\ pc[Closer] = "idle"
    /\ \/ (LockedClose => LockFree) /\ BeginClosing /\ UNCHANGED waiters
       \/ LockedClose /\ ~LockFree /\ Queue(Closer) /\ UNCHANGED closing
    /\ UNCHANGED <<cache, want, got, made, open>>

CloserGranted ==
    /\ lock = None /\ waiters # <<>> /\ Head(waiters) = Closer
    /\ waiters' = Tail(waiters)
    /\ BeginClosing
    /\ UNCHANGED <<cache, want, got, made, open>>

(* The clients close one by one, in any order.  One whose close fails counts
   as closed: aclose raises in the end and nobody reaches it any more. *)
ClientCloses ==
    /\ pc[Closer] = "closing"
    /\ \E n \in closing \cap open : open' = open \ {n}
    /\ UNCHANGED <<cache, lock, waiters, pc, want, got, closing, made>>

ForgetNone == UNCHANGED cache  \* mutant: closed clients stay cached
Forget == cache' = [k \in Keys |-> None]

(* gather(return_exceptions=True): every close is attempted. *)
Closed ==
    /\ pc[Closer] = "closing" /\ closing \cap open = {}
    /\ closing' = {}
    /\ Forget
    /\ Goto(Closer, "idle")
    /\ IF LockedClose THEN Release ELSE UNCHANGED lock
    /\ UNCHANGED <<waiters, want, got, made, open>>

Advance(c) ==
    /\ UNCHANGED provider
    /\ (Granted(c) \/ Created(c) \/ CreationFails(c) \/ SetupFails(c) \/ Finish(c))
Closing == UNCHANGED provider /\ (CloserGranted \/ ClientCloses \/ Closed)

Next ==
    \/ \E c \in Callers : Advance(c)
    \/ UNCHANGED provider /\ (Close \/ \E c \in Callers : Call(c))
    \/ Closing

Spec == Init /\ [][Next]_vars

-----------------------------------------------------------------------------
(* Double-checked locking gives each key one client at a time, as the test
   of concurrent pool creation expects (test_postgres_side_effect_executor),
   with closes in between (postgres_side_effect_executor.py:95-116). *)
OneOpenClient ==
    \A i, j \in open : made[i] = made[j] => i = j

(* Every client that was set up and is open is still in reach of the next
   aclose(): "Stops all cached Kafka producers",
   kafka_side_effect_executor.py:72. *)
NoneLeaked == open \subseteq Cached

(* A cached client is open, or the aclose() under way has told it to close:
   the first look, which takes no lock, hands out closed clients while
   aclose() waits for the others, and never once it has ended
   (postgres_side_effect_executor.py:79-86 and 98-100). *)
CachedIsOpenOrClosing == Cached \subseteq open \cup closing
=============================================================================
