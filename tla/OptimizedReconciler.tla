------------------------ MODULE OptimizedReconciler ------------------------
(***************************************************************************)
(* ProcessBatchRequests, the token bucket and the client pool              *)
(* (internal/controller/openstackconfig_performance_optimized.go): one     *)
(* batch of requests, a goroutine for each, that take a token from the     *)
(* bucket and a slot of the semaphore, run, and send one result each to a  *)
(* channel that is closed when all of them are through.                    *)
(*                                                                         *)
(* What a request does is its caller's business.  Here it takes a client   *)
(* from one ClientPool and puts it back, or does without.  The caller      *)
(* reads the results until the channel is closed.                          *)
(*                                                                         *)
(* A channel that serves as a counter is the set of its users: the         *)
(* semaphore is the requests that hold a slot, the WaitGroup the ones that *)
(* have not called Done.  Clients are numbered in the order of creation.   *)
(***************************************************************************)
EXTENDS Naturals, FiniteSets

CONSTANTS
    Requests,       \* the requests of the batch
    capacity,       \* of the token bucket
    slots,          \* of the semaphore (10)
    maxSize,        \* of the client pool
    ResultsCap,     \* of the channel Results
    NoRequest,      \* the pool's mutex is free
    NoClient        \* a request holds no client

ASSUME BatchAssumption ==
    /\ NoRequest \notin Requests
    /\ {capacity, slots, maxSize} \subseteq Nat \ {0}
    /\ ResultsCap \in Nat
    /\ NoClient = 0

VARIABLES
    tokens,         \* in the bucket
    stopped,        \* the bucket is not refilled any more
    cancelled,      \* the context of the batch is done
    pc,             \* the next step of each request
    semaphore,      \* the requests that hold a slot
    waitGroup,      \* the requests that have not called Done
    mutex,          \* who holds the pool's mutex
    created,        \* the pool's count of its clients
    idle,           \* the clients in the pool's channel
    client,         \* the client that a request uses
    sent,           \* how many results a request sent
    buffered,       \* results in the channel
    closed          \* is the channel closed?

bucket == <<tokens, stopped, cancelled>>
clients == <<mutex, created, idle, client>>
results == <<sent, buffered, closed>>
vars == <<bucket, pc, semaphore, waitGroup, clients, results>>

Steps == {"acquire", "report", "semaphore", "get", "lock", "create", "wait", "use",
          "send", "release", "finish", "done"}

\* The clients that the pool created.
Clients == 1..created

TypeOK ==
    /\ tokens \in 0..capacity
    /\ stopped \in BOOLEAN
    /\ cancelled \in BOOLEAN
    /\ pc \in [Requests -> Steps]
    /\ semaphore \subseteq Requests
    /\ waitGroup \subseteq Requests
    /\ mutex \in Requests \cup {NoRequest}
    /\ created \in 0..maxSize
    /\ idle \subseteq Clients
    /\ client \in [Requests -> Clients \cup {NoClient}]
    /\ sent \in [Requests -> {0, 1}]
    /\ buffered \in 0..ResultsCap
    /\ closed \in BOOLEAN

\* The bucket is full, and every goroutine was counted before it started.
Init ==
    /\ tokens = capacity
    /\ stopped = FALSE
    /\ cancelled = FALSE
    /\ pc = [r \in Requests |-> "acquire"]
    /\ semaphore = {}
    /\ waitGroup = Requests
    /\ mutex = NoRequest
    /\ created = 0
    /\ idle = {}
    /\ client = [r \in Requests |-> NoClient]
    /\ sent = [r \in Requests |-> 0]
    /\ buffered = 0
    /\ closed = FALSE

Goto(r, step) == pc' = [pc EXCEPT ![r] = step]

-----------------------------------------------------------------------------
(* The token bucket. *)

\* A tick; with a full bucket it adds nothing.
Refill ==
    /\ ~stopped
    /\ tokens < capacity
    /\ tokens' = tokens + 1
    /\ UNCHANGED <<stopped, cancelled, pc, semaphore, waitGroup, clients, results>>

Stop ==
    /\ ~stopped
    /\ stopped' = TRUE
    /\ UNCHANGED <<tokens, cancelled, pc, semaphore, waitGroup, clients, results>>

Cancel ==
    /\ ~cancelled
    /\ cancelled' = TRUE
    /\ UNCHANGED <<tokens, stopped, pc, semaphore, waitGroup, clients, results>>

\* With a token and a cancelled context, select takes either case.
Acquire(r) ==
    /\ pc[r] = "acquire"
    /\ \/ tokens > 0 /\ tokens' = tokens - 1 /\ Goto(r, "semaphore")
       \/ cancelled /\ Goto(r, "report") /\ UNCHANGED tokens
    /\ UNCHANGED <<stopped, cancelled, semaphore, waitGroup, clients, results>>

-----------------------------------------------------------------------------
(* The goroutine of a request. *)

\* The channel takes a result: into its buffer, or right into the caller's
\* hands, who may be waiting for one.
SendResult(r) ==
    /\ sent' = [sent EXCEPT ![r] = @ + 1]
    /\ buffered' \in {buffered, buffered + 1}
    /\ buffered' <= ResultsCap
    /\ UNCHANGED closed

(* Mutant: no return after the result that says the context is done. *)
AfterReportGoesOn == "semaphore"

AfterReport == "finish"

Report(r) ==
    /\ pc[r] = "report"
    /\ SendResult(r)
    /\ Goto(r, AfterReport)
    /\ UNCHANGED <<bucket, semaphore, waitGroup, clients>>

\* The slot is waited for whether or not the context is done.
EnterSemaphore(r) ==
    /\ pc[r] = "semaphore"
    /\ Cardinality(semaphore) < slots
    /\ semaphore' = semaphore \cup {r}
    /\ Goto(r, "get") \/ Goto(r, "send")
    /\ UNCHANGED <<bucket, waitGroup, clients, results>>

(* Mutant: Done is called when the request is through, not when its result is *)
(* sent.                                                                      *)
SendDoneEarly(r) ==
    /\ pc[r] = "send"
    /\ \/ /\ r \in waitGroup
          /\ waitGroup' = waitGroup \ {r}
          /\ UNCHANGED <<pc, results>>
       \/ /\ r \notin waitGroup
          /\ SendResult(r)
          /\ Goto(r, "release")
          /\ UNCHANGED waitGroup
    /\ UNCHANGED <<bucket, semaphore, clients>>

\* The result is sent while the request still holds its slot.
Send(r) ==
    /\ pc[r] = "send"
    /\ SendResult(r)
    /\ Goto(r, "release")
    /\ UNCHANGED <<bucket, semaphore, waitGroup, clients>>

\* The deferred calls, last in, first out: the slot, then Done.
Release(r) ==
    /\ pc[r] = "release"
    /\ semaphore' = semaphore \ {r}
    /\ Goto(r, "finish")
    /\ UNCHANGED <<bucket, waitGroup, clients, results>>

Finish(r) ==
    /\ pc[r] = "finish"
    /\ waitGroup' = waitGroup \ {r}
    /\ Goto(r, "done")
    /\ UNCHANGED <<bucket, semaphore, clients, results>>

\* wg.Wait(), then close(batch.Results).
CloseResults ==
    /\ waitGroup = {}
    /\ ~closed
    /\ closed' = TRUE
    /\ UNCHANGED <<bucket, pc, semaphore, waitGroup, clients, sent, buffered>>

\* The caller.
Receive ==
    /\ buffered > 0
    /\ buffered' = buffered - 1
    /\ UNCHANGED <<bucket, pc, semaphore, waitGroup, clients, sent, closed>>

-----------------------------------------------------------------------------
(* The client pool. *)

TakeClient(r) ==
    \E c \in idle :
        /\ idle' = idle \ {c}
        /\ client' = [client EXCEPT ![r] = c]

\* Get: an idle client, or else the mutex.
Get(r) ==
    /\ pc[r] = "get"
    /\ IF idle # {}
       THEN TakeClient(r) /\ Goto(r, "use")
       ELSE Goto(r, "lock") /\ UNCHANGED <<idle, client>>
    /\ UNCHANGED <<bucket, semaphore, waitGroup, mutex, created, results>>

(* Mutant: the pool is taken to be full one client early. *)
LockFullEarly(r) ==
    /\ pc[r] = "lock"
    /\ mutex = NoRequest
    /\ mutex' = r
    /\ Goto(r, IF created + 1 < maxSize THEN "create" ELSE "wait")
    /\ UNCHANGED <<bucket, semaphore, waitGroup, created, idle, client, results>>

(* Mutant: the count is looked at before the mutex is taken. *)
LockAfterLook(r) ==
    /\ pc[r] = "lock"
    /\ Goto(r, IF created < maxSize THEN "create" ELSE "wait")
    /\ UNCHANGED <<bucket, semaphore, waitGroup, clients, results>>

\* The mutex, and a look at the count.
Lock(r) ==
    /\ pc[r] = "lock"
    /\ mutex = NoRequest
    /\ mutex' = r
    /\ Goto(r, IF created < maxSize THEN "create" ELSE "wait")
    /\ UNCHANGED <<bucket, semaphore, waitGroup, created, idle, client, results>>

(* Mutant: a client is counted although the factory failed. *)
CreateCountsFailure(r) ==
    /\ pc[r] = "create"
    /\ mutex' = NoRequest
    /\ created' = created + 1
    /\ \/ client' = [client EXCEPT ![r] = created'] /\ Goto(r, "use")
       \/ Goto(r, "send") /\ UNCHANGED client
    /\ UNCHANGED <<bucket, semaphore, waitGroup, idle, results>>

\* The factory, which may fail.
Create(r) ==
    /\ pc[r] = "create"
    /\ mutex' = NoRequest
    /\ \/ /\ created' = created + 1
          /\ client' = [client EXCEPT ![r] = created']
          /\ Goto(r, "use")
       \/ Goto(r, "send") /\ UNCHANGED <<created, client>>
    /\ UNCHANGED <<bucket, semaphore, waitGroup, idle, results>>

\* The request waits for a client with the mutex in its hands.
Wait(r) ==
    /\ pc[r] = "wait"
    /\ TakeClient(r)
    /\ mutex' = NoRequest
    /\ Goto(r, "use")
    /\ UNCHANGED <<bucket, semaphore, waitGroup, created, results>>

(* Mutant: Put takes the mutex, as Get does. *)
PutLocks(r) ==
    /\ pc[r] = "use"
    /\ mutex = NoRequest
    /\ idle' = idle \cup {client[r]}
    /\ client' = [client EXCEPT ![r] = NoClient]
    /\ Goto(r, "send")
    /\ UNCHANGED <<bucket, semaphore, waitGroup, mutex, created, results>>

\* Put, without the mutex; a client that finds the channel full is discarded.
Put(r) ==
    /\ pc[r] = "use"
    /\ idle' = IF Cardinality(idle) < maxSize THEN idle \cup {client[r]} ELSE idle
    /\ client' = [client EXCEPT ![r] = NoClient]
    /\ Goto(r, "send")
    /\ UNCHANGED <<bucket, semaphore, waitGroup, mutex, created, results>>

-----------------------------------------------------------------------------
RequestStep(r) ==
    \/ Acquire(r) \/ Report(r) \/ EnterSemaphore(r) \/ Send(r) \/ Release(r) \/ Finish(r)
    \/ Get(r) \/ Lock(r) \/ Create(r) \/ Wait(r) \/ Put(r)

Next ==
    \/ \E r \in Requests : RequestStep(r)
    \/ CloseResults
    \/ Receive
    \/ Refill
    \/ Stop
    \/ Cancel

Spec == Init /\ [][Next]_vars

\* Goroutines run, the ticker ticks, and the caller goes on reading.  Nobody
\* has to cancel anything.
Fairness ==
    /\ \A r \in Requests : WF_vars(RequestStep(r))
    /\ WF_vars(CloseResults)
    /\ WF_vars(Receive)
    /\ WF_vars(Refill)

FairSpec == Spec /\ Fairness

-----------------------------------------------------------------------------
(* Properties. *)

\* The caller who reads until the channel is closed got one result for each
\* request, failed, refused for a cancelled context, or answered.
OneResultEach == closed => \A r \in Requests : sent[r] = 1

\* Nobody sends to the closed channel, which would panic.
NoSendAfterClose == closed => \A r \in Requests : pc[r] \notin {"report", "send"}

InUse == {client[r] : r \in Requests} \ {NoClient}

\* No client is lost, given to two requests, or created beyond maxSize, however
\* Get and Put interleave and whichever calls of the factory fail: each one is
\* idle or in use by one request.
ClientsConserved ==
    /\ idle \cup InUse = Clients
    /\ idle \cap InUse = {}
    /\ \A r, q \in Requests : r # q /\ client[r] # NoClient => client[r] # client[q]
    /\ created <= maxSize

\* The batch comes to its end, also with a pool of fewer clients than there are
\* slots and a request that waits for one with the mutex in its hands, and also
\* when it is cancelled.  Only a bucket that was stopped leaves its requests
\* waiting until the context is done.
BatchCompletes == <>closed \/ <>[](stopped /\ ~cancelled)

\* What a request waits for: a token or the end of the context, a slot, the
\* pool's mutex, or, with the mutex in its hands, an idle client.
Blocked(r) ==
    CASE pc[r] = "acquire"   -> tokens = 0 /\ ~cancelled
      [] pc[r] = "semaphore" -> Cardinality(semaphore) >= slots
      [] pc[r] = "lock"      -> mutex # NoRequest
      [] pc[r] = "wait"      -> idle = {}
      [] OTHER               -> pc[r] = "done"

\* The requests never wait for each other in a circle, although one that waits
\* for a client keeps the mutex and its slot: unless all that are left wait for
\* a token, one of them can go on.
NoneStuck ==
    \/ \E r \in Requests : ~Blocked(r)
    \/ \A r \in Requests : pc[r] \in {"acquire", "done"}

-----------------------------------------------------------------------------
(* Why the safety properties hold: an inductive invariant, in named parts. *)

\* Where each request is in its life decides what it holds and what it sent.
Bookkeeping ==
    /\ waitGroup = {r \in Requests : pc[r] # "done"}
    /\ \A r \in Requests :
        /\ sent[r] = 1 <=> pc[r] \in {"release", "finish", "done"}
        /\ mutex = r <=> pc[r] \in {"create", "wait"}
        /\ client[r] # NoClient <=> pc[r] = "use"
        /\ pc[r] = "create" => created < maxSize
        /\ pc[r] = "wait" => created = maxSize
    /\ closed => waitGroup = {}

\* A slot is held from the semaphore to the deferred call; a request that was
\* refused a token has none to give back.
SlotsOK ==
    /\ semaphore = {r \in Requests : pc[r] \in {"get", "lock", "create", "wait", "use",
                                              "send", "release"}}
    /\ IsFiniteSet(semaphore)
    /\ Cardinality(semaphore) <= slots

BatchInvariant ==
    /\ TypeOK
    /\ Bookkeeping
    /\ SlotsOK
    /\ ClientsConserved
=============================================================================
