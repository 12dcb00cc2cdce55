--------------------- MODULE OptimizedReconcilerProofs ---------------------
(***************************************************************************)
(* Proofs about OptimizedReconciler, for any batch, bucket and pool.       *)
(***************************************************************************)
EXTENDS OptimizedReconciler, FiniteSetTheorems, TLAPS

-----------------------------------------------------------------------------
LEMMA Sizes == capacity \in Nat /\ maxSize \in Nat /\ ResultsCap \in Nat
BY BatchAssumption

LEMMA InitInvariant == Init => BatchInvariant
<1> SUFFICES ASSUME Init PROVE BatchInvariant
  OBVIOUS
<1>1. TypeOK
  <2>1. stopped \in BOOLEAN /\ cancelled \in BOOLEAN /\ closed \in BOOLEAN
    BY Zenon DEF Init
  <2> QED
    BY <2>1, BatchAssumption, Sizes DEF Init, TypeOK, Steps, Clients
<1>2. Bookkeeping
  BY BatchAssumption DEF Init, Bookkeeping
<1>3. ClientsConserved
  BY BatchAssumption DEF Init, ClientsConserved, InUse, Clients
<1>4. SlotsOK
  BY BatchAssumption, FS_EmptySet DEF Init, SlotsOK
<1> QED
  BY <1>1, <1>2, <1>3, <1>4 DEF BatchInvariant

-----------------------------------------------------------------------------
(* The pool. *)

\* A client that comes back always finds room in the channel: it is one of the
\* pool's, and not idle yet.
LEMMA RoomForClient ==
    ASSUME BatchInvariant, NEW r \in Requests, pc[r] = "use"
    PROVE  Cardinality(idle) < maxSize
<1>1. client[r] \in Clients /\ client[r] \notin idle
  BY BatchAssumption DEF BatchInvariant, TypeOK, Bookkeeping, ClientsConserved, InUse
<1>2. created \in Nat /\ created <= maxSize /\ maxSize \in Nat
  BY BatchAssumption DEF BatchInvariant, TypeOK
<1>3. IsFiniteSet(Clients) /\ Cardinality(Clients) = created
  BY <1>2, FS_Interval, 1 \in Int, created \in Int DEF Clients
<1>4. idle \subseteq Clients \ {client[r]}
  BY <1>1 DEF BatchInvariant, TypeOK
<1>5. IsFiniteSet(Clients \ {client[r]}) /\ Cardinality(Clients \ {client[r]}) = created - 1
  BY <1>1, <1>3, FS_RemoveElement
<1>6. Cardinality(idle) <= created - 1
  BY <1>4, <1>5, FS_Subset
<1>7. IsFiniteSet(idle) /\ Cardinality(idle) \in Nat
  BY <1>4, <1>5, FS_Subset, FS_CardinalityType
<1> QED
  BY <1>2, <1>6, <1>7

\* The steps that leave the pool alone.
LEMMA PoolKept ==
    ASSUME ClientsConserved, UNCHANGED clients
    PROVE  ClientsConserved'
BY DEF ClientsConserved, InUse, Clients, clients

LEMMA TakeClientConserves ==
    ASSUME BatchInvariant, NEW r \in Requests, client[r] = NoClient, TakeClient(r),
           UNCHANGED created
    PROVE  ClientsConserved'
<1> USE BatchAssumption DEF BatchInvariant, TypeOK, ClientsConserved, Clients
<1>1. PICK c \in idle : idle' = idle \ {c} /\ client' = [client EXCEPT ![r] = c]
  BY DEF TakeClient
<1>2. c \in 1..created /\ c # NoClient /\ c \notin InUse
  OBVIOUS
<1>3. InUse' = InUse \cup {c}
  BY <1>1, <1>2 DEF InUse
<1>4. \A q \in Requests : q # r => client'[q] # c
  BY <1>1, <1>2 DEF InUse
<1> QED
  BY <1>1, <1>2, <1>3, <1>4

LEMMA CreateConserves ==
    ASSUME BatchInvariant, NEW r \in Requests, Create(r)
    PROVE  ClientsConserved'
<1> USE BatchAssumption DEF BatchInvariant, TypeOK, ClientsConserved, Clients
<1>1. client[r] = NoClient /\ created < maxSize
  BY DEF Bookkeeping, Create
<1>2. CASE UNCHANGED <<created, client>>
  BY <1>2 DEF Create, InUse
<1>3. CASE created' = created + 1 /\ client' = [client EXCEPT ![r] = created']
  <2>1. idle' = idle /\ created' # NoClient
    BY <1>3 DEF Create
  <2>2. \A q \in Requests : client[q] # created'
    BY <1>3
  <2>3. InUse' = InUse \cup {created'}
    BY <1>1, <1>3, <2>1 DEF InUse
  <2>4. created' \notin idle \cup InUse
    BY <1>3
  <2>5. Clients' = Clients \cup {created'}
    BY <1>3
  <2> QED
    BY <1>1, <1>3, <2>1, <2>2, <2>3, <2>4, <2>5
<1> QED
  BY <1>2, <1>3 DEF Create

LEMMA PutConserves ==
    ASSUME BatchInvariant, NEW r \in Requests, Put(r)
    PROVE  ClientsConserved'
<1> USE BatchAssumption DEF BatchInvariant, TypeOK, ClientsConserved, Clients
<1>1. client[r] # NoClient /\ client[r] \in InUse
  BY DEF Bookkeeping, Put, InUse
<1>2. /\ idle' = idle \cup {client[r]}
      /\ client' = [client EXCEPT ![r] = NoClient]
      /\ created' = created
  BY RoomForClient DEF Put
<1>3. InUse' = InUse \ {client[r]}
  BY <1>1, <1>2 DEF InUse
<1> QED
  BY <1>1, <1>2, <1>3

-----------------------------------------------------------------------------
(* Types, and the bookkeeping. *)

USE DEF bucket, clients, results

LEMMA TypesKept ==
    ASSUME BatchInvariant, [Next]_vars
    PROVE  TypeOK'
<1> USE BatchAssumption DEF BatchInvariant, TypeOK, Steps, Clients, Goto
<1>1. CASE \E r \in Requests : RequestStep(r)
  <2>1. PICK r \in Requests : RequestStep(r)
    BY <1>1
  <2>2. CASE Acquire(r)
    BY <2>2 DEF Acquire
  <2>3. CASE Report(r)
    BY <2>3 DEF Report, SendResult, AfterReport, Bookkeeping
  <2>4. CASE EnterSemaphore(r)
    BY <2>4 DEF EnterSemaphore
  <2>5. CASE Send(r)
    BY <2>5 DEF Send, SendResult, Bookkeeping
  <2>6. CASE Release(r) \/ Finish(r) \/ Lock(r)
    BY <2>6 DEF Release, Finish, Lock
  <2>7. CASE Get(r)
    BY <2>7 DEF Get, TakeClient
  <2>8. CASE Create(r)
    <3>1. created < maxSize
      BY <2>8 DEF Create, Bookkeeping
    <3> QED
      BY <2>8, <3>1 DEF Create
  <2>9. CASE Wait(r)
    BY <2>9 DEF Wait, TakeClient
  <2>10. CASE Put(r)
    BY <2>10 DEF Put, Bookkeeping
  <2> QED
    BY <2>1, <2>2, <2>3, <2>4, <2>5, <2>6, <2>7, <2>8, <2>9, <2>10 DEF RequestStep
<1>2. CASE CloseResults
  BY <1>2 DEF CloseResults
<1>3. CASE Receive
  BY <1>3 DEF Receive
<1>4. CASE Refill
  BY <1>4, Sizes DEF Refill
<1>5. CASE Stop \/ Cancel
  <2>1. stopped' \in BOOLEAN /\ cancelled' \in BOOLEAN
    BY <1>5, Zenon DEF Stop, Cancel
  <2> QED
    BY <1>5, <2>1 DEF Stop, Cancel
<1>6. CASE UNCHANGED vars
  BY <1>6 DEF vars
<1> QED
  BY <1>1, <1>2, <1>3, <1>4, <1>5, <1>6 DEF Next

\* What a step of one request does to its own record leaves the others' alone.
LEMMA BookkeepingKept ==
    ASSUME BatchInvariant, [Next]_vars
    PROVE  Bookkeeping'
<1> USE BatchAssumption DEF BatchInvariant, TypeOK, Bookkeeping, Steps, Goto
<1>1. CASE \E r \in Requests : RequestStep(r)
  <2>1. PICK r \in Requests : RequestStep(r)
    BY <1>1
  <2>2. CASE Acquire(r)
    BY <2>2 DEF Acquire
  <2>3. CASE Report(r)
    BY <2>3 DEF Report, SendResult, AfterReport
  <2>4. CASE EnterSemaphore(r)
    BY <2>4 DEF EnterSemaphore
  <2>5. CASE Send(r)
    BY <2>5 DEF Send, SendResult
  <2>6. CASE Release(r)
    BY <2>6 DEF Release
  <2>7. CASE Finish(r)
    BY <2>7 DEF Finish
  <2>8. CASE Get(r)
    BY <2>8 DEF Get, TakeClient, Clients
  <2>9. CASE Lock(r)
    <3>1. \A q \in Requests : pc[q] \notin {"create", "wait"}
      BY <2>9 DEF Lock
    <3> QED
      BY <2>9, <3>1 DEF Lock
  <2>10. CASE Create(r)
    <3>1. \A q \in Requests : pc[q] \in {"create", "wait"} => q = r
      BY <2>10 DEF Create
    <3> QED
      BY <2>10, <3>1 DEF Create
  <2>11. CASE Wait(r)
    BY <2>11 DEF Wait, TakeClient, Clients
  <2>12. CASE Put(r)
    BY <2>12 DEF Put
  <2> QED
    BY <2>1, <2>2, <2>3, <2>4, <2>5, <2>6, <2>7, <2>8, <2>9, <2>10, <2>11, <2>12
    DEF RequestStep
<1>2. CASE CloseResults
  BY <1>2 DEF CloseResults
<1>3. CASE Receive \/ Refill \/ Stop \/ Cancel
  BY <1>3 DEF Receive, Refill, Stop, Cancel
<1>4. CASE UNCHANGED vars
  BY <1>4 DEF vars
<1> QED
  BY <1>1, <1>2, <1>3, <1>4 DEF Next

LEMMA PoolConserved ==
    ASSUME BatchInvariant, [Next]_vars
    PROVE  ClientsConserved'
<1> USE DEF BatchInvariant
<1>1. CASE \E r \in Requests : Get(r) \/ Wait(r)
  <2>1. PICK r \in Requests : Get(r) \/ Wait(r)
    BY <1>1
  <2>2. client[r] = NoClient
    BY <2>1 DEF Bookkeeping, Get, Wait
  <2>3. CASE TakeClient(r)
    BY <2>1, <2>2, <2>3, TakeClientConserves DEF Get, Wait
  <2>4. CASE UNCHANGED <<idle, client>>
    BY <2>1, <2>4 DEF Get, Wait, ClientsConserved, InUse, Clients
  <2> QED
    BY <2>1, <2>3, <2>4 DEF Get, Wait
<1>2. CASE \E r \in Requests : Create(r)
  BY <1>2, CreateConserves
<1>3. CASE \E r \in Requests : Put(r)
  BY <1>3, PutConserves
<1>4. CASE \E r \in Requests : Lock(r)
  BY <1>4 DEF Lock, ClientsConserved, InUse, Clients
<1>5. CASE UNCHANGED clients
  BY <1>5, PoolKept
<1> QED
  BY <1>1, <1>2, <1>3, <1>4, <1>5
  DEF Next, vars, RequestStep, Acquire, Report, EnterSemaphore, Send, Release, Finish,
      CloseResults, Receive, Refill, Stop, Cancel

-----------------------------------------------------------------------------
(* The slots. *)

\* A request enters the semaphore only where there is room, and leaves it once.
LEMMA SlotsKept ==
    ASSUME BatchInvariant, [Next]_vars
    PROVE  SlotsOK'
<1> USE DEF BatchInvariant, TypeOK, Goto
<1> DEFINE Slotted == {"get", "lock", "create", "wait", "use", "send", "release"}
<1>1. ASSUME NEW r \in Requests, EnterSemaphore(r)
      PROVE  SlotsOK'
  <2>1. semaphore' = semaphore \cup {r} /\ r \notin semaphore /\ Cardinality(semaphore) < slots
    BY <1>1 DEF EnterSemaphore, SlotsOK
  <2>2. IsFiniteSet(semaphore') /\ Cardinality(semaphore') = Cardinality(semaphore) + 1
    BY <2>1, FS_AddElement DEF SlotsOK
  <2>3. Cardinality(semaphore) \in Nat /\ slots \in Nat
    BY BatchAssumption, FS_CardinalityType DEF SlotsOK
  <2>4. Cardinality(semaphore') <= slots
    BY <2>1, <2>2, <2>3
  <2>5. pc' = [pc EXCEPT ![r] = "get"] \/ pc' = [pc EXCEPT ![r] = "send"]
    BY <1>1 DEF EnterSemaphore
  <2> QED
    BY <2>1, <2>2, <2>4, <2>5 DEF SlotsOK
<1>2. ASSUME NEW r \in Requests, Release(r)
      PROVE  SlotsOK'
  <2>1. semaphore' = semaphore \ {r} /\ r \in semaphore
    BY <1>2 DEF Release, SlotsOK
  <2>2. IsFiniteSet(semaphore') /\ Cardinality(semaphore') = Cardinality(semaphore) - 1
    BY <2>1, FS_RemoveElement DEF SlotsOK
  <2>3. Cardinality(semaphore) \in Nat /\ slots \in Nat
    BY BatchAssumption, FS_CardinalityType DEF SlotsOK
  <2>4. Cardinality(semaphore') <= slots
    BY <2>2, <2>3 DEF SlotsOK
  <2> QED
    BY <1>2, <2>1, <2>2, <2>4 DEF Release, SlotsOK
<1>3. ASSUME UNCHANGED semaphore, \A r \in Requests : pc'[r] \in Slotted <=> pc[r] \in Slotted
      PROVE  SlotsOK'
  BY <1>3 DEF SlotsOK
<1>4. ASSUME NEW r \in Requests,
             \/ Acquire(r) \/ Report(r) \/ Send(r) \/ Finish(r)
             \/ Get(r) \/ Lock(r) \/ Create(r) \/ Wait(r) \/ Put(r)
      PROVE  SlotsOK'
  BY <1>3, <1>4
     DEF Acquire, Report, AfterReport, Send, Finish, Get, Lock, Create, Wait, Put
<1>5. CASE CloseResults \/ Receive \/ Refill \/ Stop \/ Cancel \/ UNCHANGED vars
  BY <1>3, <1>5 DEF CloseResults, Receive, Refill, Stop, Cancel, vars
<1> QED
  BY <1>1, <1>2, <1>4, <1>5 DEF Next, RequestStep

\* Whoever waits for a client, with the mutex in its hands, waits for a request
\* that uses one and needs no mutex to put it back; whoever waits for the mutex
\* waits for such a request or for one that creates a client; and whoever waits
\* for a slot waits for one of these.
LEMMA SomeoneGoesOn ==
    ASSUME BatchInvariant
    PROVE  NoneStuck
<1> USE DEF BatchInvariant, TypeOK
<1>1. ASSUME NEW r \in Requests, pc[r] = "wait"
      PROVE  \E q \in Requests : ~Blocked(q)
  <2>1. CASE idle # {}
    BY <1>1, <2>1 DEF Blocked
  <2>2. CASE idle = {}
    <3>1. created = maxSize /\ 1 \in 1..created
      BY <1>1, BatchAssumption DEF Bookkeeping
    <3>2. 1 \in InUse
      BY <2>2, <3>1 DEF ClientsConserved, Clients
    <3>3. PICK q \in Requests : client[q] = 1
      BY <3>2 DEF InUse
    <3>4. pc[q] = "use"
      BY <3>3, BatchAssumption DEF Bookkeeping
    <3> QED
      BY <3>4 DEF Blocked
  <2> QED
    BY <2>1, <2>2
<1>2. ASSUME NEW r \in Requests, pc[r] = "lock"
      PROVE  \E q \in Requests : ~Blocked(q)
  <2>1. CASE mutex = NoRequest
    BY <1>2, <2>1 DEF Blocked
  <2>2. CASE mutex # NoRequest
    <3>1. mutex \in Requests /\ pc[mutex] \in {"create", "wait"}
      BY <2>2 DEF Bookkeeping
    <3>2. CASE pc[mutex] = "create"
      BY <3>1, <3>2 DEF Blocked
    <3>3. CASE pc[mutex] = "wait"
      BY <1>1, <3>1, <3>3
    <3> QED
      BY <3>1, <3>2, <3>3
  <2> QED
    BY <2>1, <2>2
<1>3. ASSUME NEW r \in Requests, pc[r] \in {"get", "create", "use", "send", "release",
                                          "report", "finish"}
      PROVE  ~Blocked(r)
  BY <1>3 DEF Blocked
<1>4. ASSUME NEW r \in Requests, pc[r] = "semaphore"
      PROVE  \E q \in Requests : ~Blocked(q)
  <2>1. CASE Cardinality(semaphore) < slots
    <3>1. Cardinality(semaphore) \in Nat /\ slots \in Nat
      BY BatchAssumption, FS_CardinalityType DEF SlotsOK
    <3> QED
      BY <1>4, <2>1, <3>1 DEF Blocked
  <2>2. CASE ~(Cardinality(semaphore) < slots)
    <3>1. semaphore # {}
      BY <2>2, BatchAssumption, FS_EmptySet
    <3>2. PICK q \in semaphore : TRUE
      BY <3>1
    <3> QED
      BY <1>1, <1>2, <1>3, <3>2 DEF SlotsOK
  <2> QED
    BY <2>1, <2>2
<1> QED
  BY <1>1, <1>2, <1>3, <1>4 DEF NoneStuck, Steps

-----------------------------------------------------------------------------
(* Theorems. *)

\* Each request's step determines what it holds, and every client of the pool is
\* idle or used by one request.
THEOREM BatchInvariance == Spec => []BatchInvariant
<1>1. BatchInvariant /\ [Next]_vars => BatchInvariant'
  BY TypesKept, BookkeepingKept, SlotsKept, PoolConserved DEF BatchInvariant
<1> QED
  BY InitInvariant, <1>1, PTL DEF Spec

\* Every variable keeps its type: no request sends a second result, and the
\* bucket and the pool's channel never hold more than they have room for.
THEOREM BatchTypeCorrect == Spec => []TypeOK
<1>1. BatchInvariant => TypeOK
  BY DEF BatchInvariant
<1> QED
  BY BatchInvariance, <1>1, PTL

\* When the channel of the results is closed, each request has sent one.
THEOREM ResultsComplete == Spec => []OneResultEach
<1>1. BatchInvariant => OneResultEach
  BY DEF BatchInvariant, Bookkeeping, OneResultEach, TypeOK
<1> QED
  BY BatchInvariance, <1>1, PTL

\* No request is about to send when the channel is closed.
THEOREM ClosedLast == Spec => []NoSendAfterClose
<1>1. BatchInvariant => NoSendAfterClose
  BY DEF BatchInvariant, Bookkeeping, NoSendAfterClose, TypeOK
<1> QED
  BY BatchInvariance, <1>1, PTL

\* The pool neither loses nor duplicates a client, nor creates too many.
THEOREM PoolNeverLoses == Spec => []ClientsConserved
<1>1. BatchInvariant => ClientsConserved
  BY DEF BatchInvariant
<1> QED
  BY BatchInvariance, <1>1, PTL

\* Put never discards a client: each one finds room in the pool's channel.
THEOREM NoClientDiscarded ==
    Spec => [](\A r \in Requests : pc[r] = "use" => Cardinality(idle) < maxSize)
<1>1. BatchInvariant => \A r \in Requests : pc[r] = "use" => Cardinality(idle) < maxSize
  BY RoomForClient
<1> QED
  BY BatchInvariance, <1>1, PTL

\* No more requests run at a time than there are slots.
THEOREM SlotsBound == Spec => [](Cardinality(semaphore) <= slots)
<1>1. BatchInvariant => Cardinality(semaphore) <= slots
  BY DEF BatchInvariant, SlotsOK
<1> QED
  BY BatchInvariance, <1>1, PTL

\* Slots, mutex and clients never leave all requests waiting for each other,
\* with any number of each.
THEOREM NoCircularWait == Spec => []NoneStuck
<1>1. BatchInvariant => NoneStuck
  BY SomeoneGoesOn
<1> QED
  BY BatchInvariance, <1>1, PTL
=============================================================================
