------------------------ MODULE ExecutorCache_proofs ------------------------
(***************************************************************************)
(* Theorems about ExecutorCache, for any callers, keys and number of       *)
(* clients.                                                                *)
(***************************************************************************)
EXTENDS ExecutorCache, SequenceTheorems, TLAPS

(* Who asked for a client of a key still knows which. *)
WantsAKey == \A c \in Callers : pc[c] \in {"waiting", "creating"} => want[c] \in Keys

(* What is cached under a key was made for it; a client is only created when
   there is none; and what aclose() that holds the lock has told to close is
   still all there is. *)
CachedIsMade ==
    \A k \in Keys : cache[k] # None => cache[k] \in 1..Len(made) /\ made[cache[k]] = k
CreatesWhatIsMissing ==
    \A c \in Callers : pc[c] = "creating" => cache[want[c]] = None
ClosesAll == LockedClose /\ pc[Closer] = "closing" => closing = Cached

(* Between two aclose()s no client has been told to close. *)
NoneClosing == pc[Closer] # "closing" => closing = {}

IInv ==
    /\ TypeOK /\ WantsAKey
    /\ CachedIsMade /\ CreatesWhatIsMissing /\ ClosesAll /\ NoneClosing
    /\ CachedIsOpenOrClosing /\ (LockedClose => NoneLeaked)

(* Type correctness is inductive with WantsAKey alone. *)
CacheType == TypeOK /\ WantsAKey

-----------------------------------------------------------------------------
(* Type correctness and the lock discipline.                               *)

LEMMA InitCacheType == Init => CacheType
  BY CacheAssumption DEF Init, CacheType, TypeOK, WantsAKey, LockDiscipline, Tasks

(* One task goes on to state l; the queue and the lock follow. *)
LEMMA QueueType ==
    ASSUME TypeOK, NEW t \in Tasks, pc[t] = "idle", Queue(t)
    PROVE  /\ waiters' \in Seq(Tasks)
           /\ pc' \in [Tasks -> {"idle", "waiting", "creating", "using", "closing"}]
           /\ (provider' = provider => LockDiscipline')
  <1>1. /\ waiters' \in Seq(Tasks) /\ DOMAIN waiters' = 1..Len(waiters) + 1
        /\ waiters'[Len(waiters) + 1] = t
        /\ \A n \in 1..Len(waiters) : waiters'[n] = waiters[n]
        /\ DOMAIN waiters = 1..Len(waiters) /\ Len(waiters) \in Nat
    BY AppendProperties, LenProperties DEF TypeOK, Queue
  <1>2. \A n \in DOMAIN waiters : waiters[n] # t
    BY DEF TypeOK, LockDiscipline
  <1>3. pc' \in [Tasks -> {"idle", "waiting", "creating", "using", "closing"}]
    BY DEF TypeOK, Queue, Goto
  <1>4. \A u \in Tasks : pc'[u] = "waiting" <=> \E n \in DOMAIN waiters' : waiters'[n] = u
    BY <1>1 DEF TypeOK, Queue, Goto, LockDiscipline
  <1>5. \A m, n \in DOMAIN waiters' : waiters'[m] = waiters'[n] => m = n
    BY <1>1, <1>2 DEF TypeOK, LockDiscipline
  <1>6. ASSUME provider' = provider
        PROVE  /\ \A c \in Callers : pc'[c] = "creating" <=> lock' = c
               /\ LockedClose' => (pc'[Closer] = "closing" <=> lock' = Closer)
    BY <1>6 DEF TypeOK, Queue, Goto, LockDiscipline, LockedClose, Tasks
  <1> QED BY <1>1, <1>3, <1>4, <1>5, <1>6 DEF LockDiscipline

(* The first of the queue leaves it for a state other than waiting. *)
LEMMA DequeueType ==
    ASSUME TypeOK, NEW t \in Tasks, waiters # <<>>, Head(waiters) = t, waiters' = Tail(waiters),
           NEW l \in {"idle", "creating", "using", "closing"}, Goto(t, l)
    PROVE  /\ waiters' \in Seq(Tasks)
           /\ pc' \in [Tasks -> {"idle", "waiting", "creating", "using", "closing"}]
           /\ pc[t] = "waiting"
           /\ \A u \in Tasks : pc'[u] = "waiting" <=> \E n \in DOMAIN waiters' : waiters'[n] = u
           /\ \A m, n \in DOMAIN waiters' : waiters'[m] = waiters'[n] => m = n
  <1>1. /\ Len(waiters) \in Nat \ {0} /\ DOMAIN waiters = 1..Len(waiters)
        /\ waiters' \in Seq(Tasks) /\ DOMAIN waiters' = 1..Len(waiters) - 1
        /\ waiters[1] = t /\ \A n \in 1..Len(waiters) - 1 : waiters'[n] = waiters[n + 1]
    <2>1. waiters \in Seq(Tasks)
      BY DEF TypeOK
    <2>2. Len(waiters) \in Nat \ {0} /\ DOMAIN waiters = 1..Len(waiters)
      BY <2>1, EmptySeq, LenProperties
    <2>3. /\ Tail(waiters) \in Seq(Tasks) /\ Len(Tail(waiters)) = Len(waiters) - 1
          /\ Head(waiters) = waiters[1]
          /\ \A n \in 1..Len(waiters) - 1 : Tail(waiters)[n] = waiters[n + 1]
      BY <2>1, HeadTailProperties
    <2>4. DOMAIN Tail(waiters) = 1..Len(waiters) - 1
      BY <2>3, LenProperties
    <2> QED BY <2>2, <2>3, <2>4
  <1>2. pc[t] = "waiting"
    <2>1. 1 \in DOMAIN waiters /\ waiters[1] = t
      BY <1>1
    <2> QED BY <2>1 DEF TypeOK, LockDiscipline
  <1>3. pc' \in [Tasks -> {"idle", "waiting", "creating", "using", "closing"}]
    BY DEF TypeOK, Goto
  <1>4. \A m, n \in DOMAIN waiters' : waiters'[m] = waiters'[n] => m = n
    BY <1>1 DEF TypeOK, LockDiscipline
  <1>5. ASSUME NEW u \in Tasks
        PROVE  pc'[u] = "waiting" <=> \E n \in DOMAIN waiters' : waiters'[n] = u
    <2>1. CASE u = t
      <3>1. pc'[u] # "waiting"
        BY <2>1 DEF TypeOK, Goto
      <3>2. ASSUME NEW n \in DOMAIN waiters', waiters[n + 1] = waiters[1] PROVE FALSE
        <4>1. n + 1 \in DOMAIN waiters /\ 1 \in DOMAIN waiters /\ n + 1 # 1
          BY <1>1
        <4> QED BY <3>2, <4>1 DEF TypeOK, LockDiscipline
      <3> QED BY <1>1, <2>1, <3>1, <3>2
    <2>2. CASE u # t
      <3>1. pc'[u] = pc[u]
        BY <2>2 DEF TypeOK, Goto
      <3>2. ASSUME NEW n \in DOMAIN waiters, waiters[n] = u
            PROVE  n - 1 \in DOMAIN waiters' /\ waiters'[n - 1] = u
        BY <1>1, <2>2, <3>2
      <3>3. ASSUME NEW n \in DOMAIN waiters', waiters'[n] = u
            PROVE  n + 1 \in DOMAIN waiters /\ waiters[n + 1] = u
        BY <1>1, <3>3
      <3>4. pc[u] = "waiting" <=> \E n \in DOMAIN waiters : waiters[n] = u
        BY DEF TypeOK, LockDiscipline
      <3> QED BY <3>1, <3>2, <3>3, <3>4
    <2> QED BY <2>1, <2>2
  <1> QED BY <1>1, <1>2, <1>3, <1>4, <1>5

(* A task that neither waited nor will wait goes on. *)
LEMMA GotoType ==
    ASSUME TypeOK, NEW t \in Tasks, pc[t] # "waiting", UNCHANGED waiters,
           NEW l \in {"idle", "creating", "using", "closing"}, Goto(t, l)
    PROVE  /\ waiters' \in Seq(Tasks)
           /\ pc' \in [Tasks -> {"idle", "waiting", "creating", "using", "closing"}]
           /\ \A u \in Tasks : pc'[u] = "waiting" <=> \E n \in DOMAIN waiters' : waiters'[n] = u
           /\ \A m, n \in DOMAIN waiters' : waiters'[m] = waiters'[n] => m = n
  BY DEF TypeOK, LockDiscipline, Goto

LEMMA CallForType ==
    ASSUME CacheType, NEW c \in Callers, NEW k \in Keys, CallFor(c, k), UNCHANGED provider
    PROVE  CacheType'
  <1> USE DEF CacheType
  <1>1. c \in Tasks /\ c # Closer /\ want' \in [Callers -> Keys \cup {None}] /\ want'[c] = k
        /\ \A d \in Callers \ {c} : want'[d] = want[d]
    BY CacheAssumption DEF TypeOK, CallFor, Tasks
  <1>2. UNCHANGED <<cache, closing, made, open, provider>> /\ pc[c] = "idle"
    BY DEF CallFor
  <1>3. CASE cache[k] # None /\ UseCached(c, k) /\ UNCHANGED <<lock, waiters>>
    <2>1. got' \in [Callers -> Clients \cup {None}] /\ Goto(c, "using")
      BY <1>3 DEF UseCached, TypeOK
    <2>2. LockDiscipline'
      BY <1>1, <1>2, <1>3, <2>1, GotoType DEF LockDiscipline, Goto, TypeOK, LockedClose
    <2>3. WantsAKey'
      BY <1>1, <2>1 DEF WantsAKey, Goto, TypeOK, Tasks
    <2> QED BY <1>1, <1>2, <1>3, <2>1, <2>2, <2>3, GotoType DEF TypeOK, Clients
  <1>4. CASE LockFree /\ lock' = c /\ Goto(c, "creating") /\ UNCHANGED <<waiters, got>>
    <2>1. LockDiscipline'
      BY <1>1, <1>2, <1>4, GotoType, CacheAssumption DEF LockDiscipline, Goto, TypeOK, LockedClose, LockFree, Tasks
    <2>2. WantsAKey'
      BY <1>1, <1>4 DEF WantsAKey, Goto, TypeOK, Tasks
    <2> QED BY <1>1, <1>2, <1>4, <2>1, <2>2, GotoType DEF TypeOK, Clients
  <1>5. CASE Queue(c) /\ UNCHANGED got
    <2>1. WantsAKey'
      BY <1>1, <1>5 DEF WantsAKey, Queue, Goto, TypeOK, Tasks
    <2> QED BY <1>1, <1>2, <1>5, <2>1, QueueType DEF TypeOK, Clients, Queue
  <1> QED BY <1>3, <1>4, <1>5 DEF CallFor

LEMMA GrantedType ==
    ASSUME CacheType, NEW c \in Callers, Granted(c), UNCHANGED provider
    PROVE  CacheType'
  <1> USE DEF CacheType
  <1>1. /\ c \in Tasks /\ c # Closer /\ UNCHANGED <<provider, cache, want, closing, made, open>>
        /\ lock = None /\ waiters # <<>> /\ Head(waiters) = c /\ waiters' = Tail(waiters)
    BY CacheAssumption DEF Granted, Tasks
  <1>2. CASE cache[want[c]] # None /\ UseCached(c, want[c]) /\ UNCHANGED lock
    <2>1. Goto(c, "using") /\ pc[c] = "waiting"
      BY <1>1, <1>2, DequeueType DEF UseCached
    <2>2. got' \in [Callers -> Clients \cup {None}] /\ WantsAKey'
      BY <1>1, <1>2, <2>1 DEF UseCached, TypeOK, WantsAKey, Goto, Tasks
    <2>3. LockDiscipline'
      <3>1. /\ \A d \in Callers : pc'[d] = "creating" <=> lock' = d
            /\ LockedClose' => (pc'[Closer] = "closing" <=> lock' = Closer)
        BY <1>1, <1>2, <2>1 DEF LockDiscipline, Goto, TypeOK, LockedClose, Tasks
      <3> QED BY <1>1, <2>1, <3>1, DequeueType DEF LockDiscipline
    <2> QED BY <1>1, <1>2, <2>1, <2>2, <2>3, DequeueType DEF TypeOK, Clients
  <1>3. CASE Goto(c, "creating") /\ lock' = c /\ UNCHANGED got
    <2>1. pc[c] = "waiting"
      BY <1>1, <1>3, DequeueType
    <2>2. WantsAKey'
      BY <1>1, <1>3, <2>1 DEF TypeOK, WantsAKey, Goto, Tasks
    <2>3. LockDiscipline'
      <3>1. /\ \A d \in Callers : pc'[d] = "creating" <=> lock' = d
            /\ LockedClose' => (pc'[Closer] = "closing" <=> lock' = Closer)
        BY <1>1, <1>3, <2>1, CacheAssumption DEF LockDiscipline, Goto, TypeOK, LockedClose, Tasks
      <3> QED BY <1>1, <1>3, <3>1, DequeueType DEF LockDiscipline
    <2> QED BY <1>1, <1>3, <2>2, <2>3, DequeueType DEF TypeOK, Clients
  <1> QED BY <1>2, <1>3 DEF Granted, SecondLook

(* A caller that creates, or uses, a client is through with it. *)
LEMMA CreatedType ==
    ASSUME CacheType, NEW c \in Callers, Created(c), UNCHANGED provider
    PROVE  CacheType'
  <1> USE DEF CacheType
  <1>1. c \in Tasks /\ c # Closer /\ want[c] \in Keys /\ pc[c] = "creating" /\ lock = c
    BY CacheAssumption DEF Created, Tasks, WantsAKey, TypeOK, LockDiscipline
  <1>2. /\ made' \in Seq(Keys) /\ Len(made') = Len(made) + 1 /\ Len(made) \in Nat
        /\ Len(made) + 1 \in Clients
    BY <1>1, AppendProperties, LenProperties, CacheAssumption DEF Created, TypeOK, Clients
  <1>3. /\ cache' \in [Keys -> Clients \cup {None}] /\ got' \in [Callers -> Clients \cup {None}]
        /\ open' \subseteq 1..Len(made') /\ Len(made') <= MaxClients
    <2>1. cache' \in [Keys -> Clients \cup {None}] /\ got' \in [Callers -> Clients \cup {None}]
      BY <1>2 DEF Created, TypeOK
    <2>2. open' \subseteq 1..Len(made')
      <3>1. 1..Len(made) \subseteq 1..Len(made') /\ Len(made) + 1 \in 1..Len(made')
        BY <1>2
      <3> QED BY <3>1 DEF Created, TypeOK
    <2>3. Len(made') <= MaxClients
      BY <1>2, CacheAssumption DEF Clients
    <2> QED BY <2>1, <2>2, <2>3
  <1>4. /\ \A d \in Callers : pc'[d] = "creating" <=> lock' = d
        /\ LockedClose' => (pc'[Closer] = "closing" <=> lock' = Closer)
    BY <1>1, CacheAssumption DEF Created, Goto, Release, TypeOK, LockDiscipline, LockedClose, Tasks
  <1>5. WantsAKey'
    BY <1>1 DEF Created, Goto, WantsAKey, TypeOK, Tasks
  <1>6. Goto(c, "using") /\ UNCHANGED <<waiters, want, closing>> /\ lock' = None
    BY DEF Created, Release
  <1> QED BY <1>1, <1>2, <1>3, <1>4, <1>5, <1>6, GotoType DEF TypeOK, LockDiscipline, Clients

LEMMA CreationFailsType ==
    ASSUME CacheType, NEW c \in Callers, CreationFails(c) \/ SetupFails(c), UNCHANGED provider
    PROVE  CacheType'
  <1> USE DEF CacheType
  <1>1. /\ c \in Tasks /\ c # Closer /\ pc[c] = "creating" /\ lock = c /\ want[c] \in Keys
        /\ Goto(c, "idle") /\ lock' = None /\ want' = [want EXCEPT ![c] = None]
        /\ UNCHANGED <<cache, waiters, got, closing, open>>
    BY CacheAssumption
    DEF CreationFails, SetupFails, GiveBack, Release, Tasks, WantsAKey, TypeOK, LockDiscipline
  <1>2. made' \in Seq(Keys) /\ Len(made') <= MaxClients /\ 1..Len(made) \subseteq 1..Len(made')
    <2>1. CASE CreationFails(c)
      BY <2>1 DEF CreationFails, TypeOK
    <2>2. CASE SetupFails(c)
      <3>1. /\ made' = Append(made, want[c]) /\ made \in Seq(Keys) /\ Len(made) < MaxClients
            /\ Len(made) \in Nat
        BY <2>2, LenProperties DEF SetupFails, TypeOK
      <3>2. made' \in Seq(Keys) /\ Len(made') = Len(made) + 1
        BY <1>1, <3>1, AppendProperties
      <3> QED BY <3>1, <3>2, CacheAssumption
    <2> QED BY <2>1, <2>2
  <1>3. /\ \A d \in Callers : pc'[d] = "creating" <=> lock' = d
        /\ LockedClose' => (pc'[Closer] = "closing" <=> lock' = Closer)
    BY <1>1, CacheAssumption DEF Goto, TypeOK, LockDiscipline, LockedClose, Tasks
  <1>4. WantsAKey' /\ want' \in [Callers -> Keys \cup {None}]
    BY <1>1 DEF Goto, WantsAKey, TypeOK, Tasks
  <1> QED BY <1>1, <1>2, <1>3, <1>4, GotoType DEF TypeOK, LockDiscipline, Clients

LEMMA FinishType ==
    ASSUME CacheType, NEW c \in Callers, Finish(c), UNCHANGED provider
    PROVE  CacheType'
  <1> USE DEF CacheType
  <1>1. /\ c \in Tasks /\ c # Closer /\ pc[c] = "using" /\ Goto(c, "idle")
        /\ UNCHANGED <<cache, lock, waiters, closing, made, open>>
    BY CacheAssumption DEF Finish, Tasks
  <1>2. /\ \A d \in Callers : pc'[d] = "creating" <=> lock' = d
        /\ LockedClose' => (pc'[Closer] = "closing" <=> lock' = Closer)
    BY <1>1 DEF Goto, TypeOK, LockDiscipline, LockedClose, Tasks
  <1>3. /\ WantsAKey' /\ want' \in [Callers -> Keys \cup {None}]
        /\ got' \in [Callers -> Clients \cup {None}]
    BY <1>1 DEF Finish, Goto, WantsAKey, TypeOK, Tasks
  <1> QED BY <1>1, <1>2, <1>3, GotoType DEF TypeOK, LockDiscipline, Clients

(* aclose() begins with the lock free, if it takes it, and with no caller
   holding it. *)
LEMMA BeginClosingType ==
    ASSUME CacheType, BeginClosing, UNCHANGED <<provider, cache, want, got, made, open>>,
           LockedClose => lock = None,
           pc[Closer] # "creating", pc[Closer] # "closing",
           waiters' \in Seq(Tasks),
           pc' \in [Tasks -> {"idle", "waiting", "creating", "using", "closing"}],
           \A u \in Tasks : pc'[u] = "waiting" <=> \E n \in DOMAIN waiters' : waiters'[n] = u,
           \A m, n \in DOMAIN waiters' : waiters'[m] = waiters'[n] => m = n
    PROVE  CacheType'
  <1> USE DEF CacheType
  <1>1. \A c \in Callers : c # Closer /\ c # None /\ pc'[c] = pc[c]
    BY CacheAssumption DEF BeginClosing, Goto, TypeOK, Tasks
  <1>2. closing' \subseteq Clients
    BY DEF BeginClosing, ToClose, Cached, TypeOK, Clients
  <1>3. /\ \A c \in Callers : pc'[c] = "creating" <=> lock' = c
        /\ LockedClose' => (pc'[Closer] = "closing" <=> lock' = Closer)
        /\ lock' \in Tasks \cup {None}
    BY <1>1, CacheAssumption DEF BeginClosing, Goto, TypeOK, LockDiscipline, LockedClose, Tasks
  <1>4. WantsAKey'
    BY <1>1 DEF WantsAKey
  <1> QED BY <1>2, <1>3, <1>4 DEF TypeOK, LockDiscipline, Clients

LEMMA CloseType ==
    ASSUME CacheType, Close, UNCHANGED provider
    PROVE  CacheType'
  <1> USE DEF CacheType
  <1>1. pc[Closer] = "idle" /\ Closer \in Tasks /\ UNCHANGED <<cache, want, got, made, open>>
    BY DEF Close, Tasks
  <1>2. CASE (LockedClose => LockFree) /\ BeginClosing /\ UNCHANGED waiters
    BY <1>1, <1>2, GotoType, BeginClosingType DEF BeginClosing, LockFree
  <1>3. CASE Queue(Closer) /\ UNCHANGED closing
    <2>1. WantsAKey'
      BY <1>1, <1>3, CacheAssumption DEF WantsAKey, Queue, Goto, TypeOK, Tasks
    <2> QED BY <1>1, <1>3, <2>1, QueueType DEF TypeOK, Clients, Queue
  <1> QED BY <1>2, <1>3 DEF Close

LEMMA ClosingType ==
    ASSUME CacheType, Closing
    PROVE  CacheType'
  <1> USE DEF CacheType
  <1>1. CASE CloserGranted
    BY <1>1, DequeueType, BeginClosingType DEF Closing, CloserGranted, BeginClosing, Tasks
  <1>2. CASE Closed
    <2>1. Closer \in Tasks /\ pc[Closer] = "closing" /\ Goto(Closer, "idle") /\ UNCHANGED waiters
      BY <1>2 DEF Closed, Tasks
    <2>2. \A c \in Callers : c # Closer /\ c # None /\ pc'[c] = pc[c]
      BY <2>1, CacheAssumption DEF Goto, TypeOK, Tasks
    <2>3. /\ \A c \in Callers : pc'[c] = "creating" <=> lock' = c
          /\ LockedClose' => (pc'[Closer] = "closing" <=> lock' = Closer)
          /\ lock' \in Tasks \cup {None}
      BY <1>2, <2>1, <2>2, CacheAssumption
      DEF Closing, Closed, Release, Goto, TypeOK, LockDiscipline, LockedClose, Tasks
    <2>4. /\ WantsAKey' /\ cache' \in [Keys -> Clients \cup {None}]
          /\ open' \subseteq 1..Len(made) /\ closing' \subseteq Clients
      BY <1>2, <2>2 DEF Closed, Forget, WantsAKey, TypeOK
    <2> QED BY <1>2, <2>1, <2>3, <2>4, GotoType DEF Closing, Closed, TypeOK, LockDiscipline, Clients
  <1>3. CASE ClientCloses
    BY <1>3 DEF Closing, ClientCloses, TypeOK, WantsAKey, LockDiscipline, LockedClose, Clients
  <1> QED BY <1>1, <1>2, <1>3 DEF Closing

LEMMA NextCacheType == CacheType /\ [Next]_vars => CacheType'
  <1> SUFFICES ASSUME CacheType, [Next]_vars PROVE CacheType'
    OBVIOUS
  <1>1. ASSUME NEW c \in Callers, Advance(c) PROVE CacheType'
    BY <1>1, GrantedType, CreatedType, CreationFailsType, FinishType DEF Advance
  <1>2. ASSUME NEW c \in Callers, Call(c), UNCHANGED provider PROVE CacheType'
    BY <1>2, CallForType DEF Call
  <1>3. CASE Close /\ UNCHANGED provider
    BY <1>3, CloseType
  <1>4. CASE Closing
    BY <1>4, ClosingType
  <1>5. CASE UNCHANGED vars
    BY <1>5 DEF vars, CacheType, TypeOK, LockDiscipline, WantsAKey, Clients, LockedClose
  <1> QED BY <1>1, <1>2, <1>3, <1>4, <1>5 DEF Next

(* Types and the lock discipline: one task creates or closes at a time, and
   who waits is in the queue exactly once. *)
THEOREM CacheTypeCorrectness == Spec => []TypeOK
  BY InitCacheType, NextCacheType, PTL DEF Spec, CacheType

-----------------------------------------------------------------------------
(* What the cache holds.                                                   *)

(* Steps that neither create, close nor forget a client. *)
LEMMA SameClients ==
    ASSUME IInv, UNCHANGED <<provider, cache, made, open>>,
           \A c \in Callers : pc'[c] = "creating" =>
               (pc[c] = "creating" /\ want'[c] = want[c]) \/ cache[want'[c]] = None,
           \/ (pc'[Closer] = "closing" <=> pc[Closer] = "closing") /\ closing' = closing
           \/ pc[Closer] # "closing" /\ closing' = Cached
              /\ (pc'[Closer] # "closing" => Cached = {}),
           CacheType'
    PROVE  IInv'
  <1>1. CachedIsMade' /\ (LockedClose' => NoneLeaked')
    BY DEF IInv, CachedIsMade, NoneLeaked, LockedClose, Cached
  <1>4. CachedIsOpenOrClosing' /\ NoneClosing'
    BY DEF IInv, CachedIsOpenOrClosing, NoneClosing, Cached
  <1>2. CreatesWhatIsMissing'
    BY DEF IInv, CreatesWhatIsMissing
  <1>3. ClosesAll'
    BY DEF IInv, ClosesAll, LockedClose, Cached
  <1> QED BY <1>1, <1>2, <1>3, <1>4 DEF IInv, CacheType

LEMMA CallForInv ==
    ASSUME IInv, NEW c \in Callers, NEW k \in Keys, CallFor(c, k), UNCHANGED provider
    PROVE  IInv'
  <1>1. c \in Tasks /\ c # Closer
    BY CacheAssumption DEF Tasks
  <1>2. \A d \in Callers : pc'[d] = "creating" =>
            (pc[d] = "creating" /\ want'[d] = want[d]) \/ cache[want'[d]] = None
    BY <1>1 DEF IInv, TypeOK, CallFor, UseCached, Queue, Goto, Tasks
  <1>3. pc'[Closer] = pc[Closer]
    BY <1>1 DEF IInv, TypeOK, CallFor, UseCached, Queue, Goto, Tasks
  <1> QED BY <1>2, <1>3, CallForType, SameClients DEF IInv, CacheType, CallFor

LEMMA GrantedInv ==
    ASSUME IInv, NEW c \in Callers, Granted(c), UNCHANGED provider
    PROVE  IInv'
  <1>1. c \in Tasks /\ c # Closer
    BY CacheAssumption DEF Tasks
  <1>2. \A d \in Callers : pc'[d] = "creating" =>
            (pc[d] = "creating" /\ want'[d] = want[d]) \/ cache[want'[d]] = None
    BY <1>1 DEF IInv, TypeOK, Granted, SecondLook, UseCached, Goto, Tasks
  <1>3. pc'[Closer] = pc[Closer]
    BY <1>1 DEF IInv, TypeOK, Granted, SecondLook, UseCached, Goto, Tasks
  <1> QED BY <1>2, <1>3, GrantedType, SameClients DEF IInv, CacheType, Granted

(* A client is created for a key that has none, so none is pushed out. *)
LEMMA CreatedInv ==
    ASSUME IInv, NEW c \in Callers, Created(c), UNCHANGED provider
    PROVE  IInv'
  <1> DEFINE k == want[c]
             n == Len(made) + 1
  <1>1. c \in Tasks /\ c # Closer /\ k \in Keys /\ pc[c] = "creating" /\ lock = c /\ cache[k] = None
    BY CacheAssumption DEF IInv, Created, Tasks, WantsAKey, TypeOK, LockDiscipline, CreatesWhatIsMissing
  <1>2. /\ n \in Nat \ {0} /\ n # None /\ Len(made') = n /\ made'[n] = k
        /\ \A m \in 1..Len(made) : made'[m] = made[m] /\ m \in 1..n /\ m # n
    BY <1>1, AppendProperties, LenProperties, CacheAssumption DEF IInv, Created, TypeOK
  <1>3. cache'[k] = n /\ \A l \in Keys \ {k} : cache'[l] = cache[l]
    BY <1>1 DEF IInv, TypeOK, Created
  <1>4. CachedIsMade'
    <2> SUFFICES ASSUME NEW l \in Keys, cache'[l] # None
                 PROVE  cache'[l] \in 1..Len(made') /\ made'[cache'[l]] = l
      BY DEF CachedIsMade
    <2>1. CASE l = k
      BY <1>2, <1>3, <2>1
    <2>2. CASE l # k
      BY <1>2, <1>3, <2>2 DEF IInv, CachedIsMade
    <2> QED BY <2>1, <2>2
  <1>5. Cached' = Cached \cup {n} /\ open' = open \cup {n}
    BY <1>1, <1>2, <1>3 DEF Cached, Created
  <1>6. CachedIsOpenOrClosing' /\ (LockedClose' => NoneLeaked')
    BY <1>5 DEF IInv, CachedIsOpenOrClosing, NoneLeaked, LockedClose, Created
  <1>7. CreatesWhatIsMissing'
    BY <1>1 DEF IInv, CreatesWhatIsMissing, TypeOK, LockDiscipline, Created, Goto, Tasks
  <1>8. ClosesAll' /\ NoneClosing'
    BY <1>1 DEF IInv, ClosesAll, NoneClosing, TypeOK, LockDiscipline, LockedClose, Created, Goto, Tasks
  <1> QED BY <1>4, <1>6, <1>7, <1>8, CreatedType DEF IInv, CacheType

LEMMA CreationFailsInv ==
    ASSUME IInv, NEW c \in Callers, CreationFails(c) \/ SetupFails(c), UNCHANGED provider
    PROVE  IInv'
  <1>1. /\ c \in Tasks /\ c # Closer /\ want[c] \in Keys /\ Goto(c, "idle")
        /\ want' = [want EXCEPT ![c] = None] /\ UNCHANGED <<cache, closing, open>>
    BY CacheAssumption DEF IInv, CreationFails, SetupFails, Tasks, WantsAKey, TypeOK
  <1>2. /\ Len(made') \in Nat /\ \A m \in 1..Len(made) : made'[m] = made[m] /\ m \in 1..Len(made')
    <2>1. CASE CreationFails(c)
      BY <2>1, LenProperties DEF CreationFails, IInv, TypeOK
    <2>2. CASE SetupFails(c)
      BY <1>1, <2>2, AppendProperties, LenProperties DEF SetupFails, IInv, TypeOK
    <2> QED BY <2>1, <2>2
  <1>3. CachedIsMade'
    BY <1>1, <1>2 DEF IInv, CachedIsMade
  <1>4. CachedIsOpenOrClosing' /\ (LockedClose' => NoneLeaked')
    BY <1>1 DEF IInv, CachedIsOpenOrClosing, NoneLeaked, LockedClose, Cached
  <1>5. CreatesWhatIsMissing'
    BY <1>1 DEF IInv, CreatesWhatIsMissing, TypeOK, Goto, Tasks
  <1>6. ClosesAll' /\ NoneClosing'
    BY <1>1 DEF IInv, ClosesAll, NoneClosing, LockedClose, Cached, TypeOK, Goto, Tasks
  <1> QED BY <1>3, <1>4, <1>5, <1>6, CreationFailsType DEF IInv, CacheType

LEMMA FinishInv ==
    ASSUME IInv, NEW c \in Callers, Finish(c), UNCHANGED provider
    PROVE  IInv'
  <1>1. c \in Tasks /\ c # Closer
    BY CacheAssumption DEF Tasks
  <1>2. \A d \in Callers : pc'[d] = "creating" => pc[d] = "creating" /\ want'[d] = want[d]
    BY <1>1 DEF IInv, TypeOK, Finish, Goto, Tasks
  <1>3. pc'[Closer] = pc[Closer]
    BY <1>1 DEF IInv, TypeOK, Finish, Goto, Tasks
  <1> QED BY <1>2, <1>3, FinishType, SameClients DEF IInv, CacheType, Finish

LEMMA CloseInv ==
    ASSUME IInv, Close, UNCHANGED provider
    PROVE  IInv'
  <1>1. \A d \in Callers : d # Closer /\ pc'[d] = pc[d] /\ want'[d] = want[d]
    BY CacheAssumption DEF IInv, TypeOK, Close, BeginClosing, Queue, Goto, Tasks
  <1>2. /\ pc[Closer] = "idle"
        /\ \/ pc'[Closer] = "waiting" /\ closing' = closing
           \/ closing' = Cached /\ (pc'[Closer] # "closing" => Cached = {})
    BY DEF IInv, TypeOK, Close, BeginClosing, ToClose, Queue, Goto, Tasks
  <1> QED BY <1>1, <1>2, CloseType, SameClients DEF IInv, CacheType, Close

(* aclose() ends with an empty cache and nothing open, if it had the lock. *)
LEMMA ClosingInv ==
    ASSUME IInv, Closing
    PROVE  IInv'
  <1>1. \A d \in Callers : d # Closer /\ pc'[d] = pc[d] /\ want'[d] = want[d]
    BY CacheAssumption
    DEF IInv, TypeOK, Closing, CloserGranted, ClientCloses, Closed, BeginClosing, Goto, Tasks
  <1>2. CASE CloserGranted
    <2>0. pc[Closer] = "waiting"
      <3>1. Closer \in Tasks /\ Goto(Closer, IF Cached = {} THEN "idle" ELSE "closing")
        BY <1>2 DEF CloserGranted, BeginClosing, Tasks
      <3> QED BY <1>2, <3>1, DequeueType DEF IInv, CloserGranted
    <2>1. closing' = Cached /\ (pc'[Closer] # "closing" => Cached = {})
      BY <1>2 DEF IInv, TypeOK, CloserGranted, BeginClosing, ToClose, Goto, Tasks
    <2> QED BY <2>0, <1>1, <1>2, <2>1, ClosingType, SameClients DEF IInv, CacheType, Closing, CloserGranted
  <1>3. CASE Closed
    <2>1. (\A k \in Keys : cache'[k] = None) /\ Cached' = {}
      BY <1>3 DEF Closed, Forget, Cached
    <2>2. CachedIsMade' /\ CachedIsOpenOrClosing'
      BY <2>1 DEF CachedIsMade, CachedIsOpenOrClosing
    <2>3. LockedClose => open' = {}
      BY <1>3 DEF IInv, Closed, ClosesAll, NoneLeaked
    <2>4. CreatesWhatIsMissing'
      BY <1>1, <2>1 DEF IInv, CreatesWhatIsMissing, WantsAKey
    <2>5. pc'[Closer] # "closing" /\ closing' = {}
      BY <1>3 DEF IInv, TypeOK, Closed, Goto, Tasks
    <2> QED BY <2>1, <2>2, <2>3, <2>4, <2>5, ClosingType
            DEF IInv, CacheType, ClosesAll, NoneClosing, NoneLeaked, LockedClose, Closing
  <1>4. CASE ClientCloses
    <2>1. PICK n \in closing \cap open : open' = open \ {n}
      BY <1>4 DEF ClientCloses
    <2>2. UNCHANGED <<provider, cache, pc, want, closing, made>> /\ Cached' = Cached
      BY <1>4 DEF Closing, ClientCloses, Cached
    <2>3. CachedIsOpenOrClosing' /\ (LockedClose' => NoneLeaked')
      BY <2>1, <2>2 DEF IInv, CachedIsOpenOrClosing, NoneLeaked, LockedClose
    <2>4. CachedIsMade' /\ CreatesWhatIsMissing' /\ ClosesAll' /\ NoneClosing'
      BY <2>2 DEF IInv, CachedIsMade, CreatesWhatIsMissing, ClosesAll, NoneClosing, LockedClose
    <2> QED BY <2>3, <2>4, ClosingType DEF IInv, CacheType
  <1> QED BY <1>2, <1>3, <1>4 DEF Closing

LEMMA InitInv == Init => IInv
  <1> SUFFICES ASSUME Init PROVE IInv
    OBVIOUS
  <1>1. Cached = {}
    BY DEF Init, Cached
  <1>2. CachedIsMade /\ CreatesWhatIsMissing /\ ClosesAll /\ NoneClosing
    BY DEF Init, CachedIsMade, CreatesWhatIsMissing, ClosesAll, NoneClosing, Tasks
  <1> QED BY <1>1, <1>2, InitCacheType DEF Init, IInv, CacheType, CachedIsOpenOrClosing, NoneLeaked

LEMMA NextInv == IInv /\ [Next]_vars => IInv'
  <1> SUFFICES ASSUME IInv, [Next]_vars PROVE IInv'
    OBVIOUS
  <1>1. ASSUME NEW c \in Callers, Advance(c) PROVE IInv'
    BY <1>1, GrantedInv, CreatedInv, CreationFailsInv, FinishInv DEF Advance
  <1>2. ASSUME NEW c \in Callers, Call(c), UNCHANGED provider PROVE IInv'
    BY <1>2, CallForInv DEF Call
  <1>3. CASE Close /\ UNCHANGED provider
    BY <1>3, CloseInv
  <1>4. CASE Closing
    BY <1>4, ClosingInv
  <1>5. CASE UNCHANGED vars
    BY <1>5, NextCacheType, SameClients DEF vars, IInv, CacheType
  <1> QED BY <1>1, <1>2, <1>3, <1>4, <1>5 DEF Next

(* Two open clients of one key would both be the one that is cached. *)
LEMMA OneEach == IInv /\ LockedClose => OneOpenClient
  <1> SUFFICES ASSUME IInv, LockedClose, NEW i \in open, NEW j \in open, made[i] = made[j]
               PROVE  i = j
    BY DEF OneOpenClient
  <1>1. PICK k \in Keys, l \in Keys : cache[k] = i /\ cache[l] = j /\ i # None /\ j # None
    BY DEF IInv, NoneLeaked, Cached
  <1> QED BY <1>1 DEF IInv, CachedIsMade

(* A cached client is open unless the aclose() under way has told it to close,
   whichever way aclose() works: none outlives an aclose() in the cache. *)
THEOREM CachedClientsAreOpenOrClosing == Spec => []CachedIsOpenOrClosing
  BY InitInv, NextInv, PTL DEF Spec, IInv

(* Where aclose() takes the lock, every key has one open client at most, and
   no open client is out of its reach. *)
THEOREM LockedCachesHoldAll == Spec => [](LockedClose => OneOpenClient /\ NoneLeaked)
  <1>1. IInv => (LockedClose => OneOpenClient /\ NoneLeaked)
    BY OneEach DEF IInv
  <1> QED BY <1>1, InitInv, NextInv, PTL DEF Spec
=============================================================================
