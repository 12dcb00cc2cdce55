------------------------- MODULE DatabaseConnection -------------------------
(***************************************************************************)
(* The field r.DB of the OpenstackConfig reconciler: one database/sql pool *)
(* that is opened, replaced, dropped and used without a lock by the worker *)
(* (openstackconfig_controller.go) and by the database health checks       *)
(* (health.go), which main.go leaves out and a deployment may add.         *)
(*                                                                         *)
(* The worker and every request for a check are processes; a step is one   *)
(* call, or one access to r.DB between two of them.  A pool is open from   *)
(* sql.Open until Close; the connections inside it, which database/sql     *)
(* reopens by itself, are not distinguished: a ping of an open pool        *)
(* answers unless it fails.  The pointer is one word, so that a racing     *)
(* read finds an old or a new pool, never anything else.                   *)
(***************************************************************************)
EXTENDS Naturals, Sequences

CONSTANTS
    Reconciler,     \* the worker
    Checks,         \* requests for a health check that may run at a time
    Pools,          \* names for pools; that of a leaked one is used again
    dbMaxRetries,   \* attempts of ensureDBConnectionWithRetry
    MaxFaults,      \* bound: failed calls, restarts and losses of the tables
    NoPool          \* nil

ASSUME ConnectionAssumption ==
    /\ Reconciler \notin Checks
    /\ NoPool \notin Pools
    /\ dbMaxRetries \in Nat \ {0}
    /\ MaxFaults \in Nat

\* initializeDatabase creates the tables in this order.
Schema == <<"multi_subnet", "node_table", "multi_interface", "cr_state">>
Tables == {"multi_subnet", "node_table", "multi_interface", "cr_state"}
InterfaceTables == Tables \ {"cr_state"}

VARIABLES
    handle,     \* r.DB
    open,       \* the pools that were opened and not closed
    tables,     \* the tables that the database has
    checks,     \* the checks that this deployment registered
    pc,         \* the next step of each process
    pool,       \* the pool that connectToDatabase opened and has not stored yet
    stmt,       \* the next CREATE TABLE
    back,       \* where ensureDBConnection goes on after connectToDatabase
    attempt,    \* the worker's attempt
    dropped,    \* pools that were still open when r.DB was set to nil
    faults      \* how many faults may still happen

control == <<pc, stmt, back, attempt>>
vars == <<handle, open, tables, checks, pool, control, dropped, faults>>

Processes == {Reconciler} \cup Checks

ConnectSteps == {"check", "open", "replace", "close", "store", "create", "ping", "stats"}
PassSteps == {"read", "purge", "hash", "transact", "pingAfter", "drop"}
ProbeSteps == {"probePing", "probe"}
Steps == {"idle", "failed"} \cup ConnectSteps \cup PassSteps \cup ProbeSteps

TypeOK ==
    /\ handle \in Pools \cup {NoPool}
    /\ open \subseteq Pools
    /\ tables \subseteq Tables
    /\ checks \subseteq Checks
    /\ pc \in [Processes -> Steps]
    /\ pool \in [Processes -> Pools \cup {NoPool}]
    /\ stmt \in [Processes -> 1..Len(Schema)]
    /\ back \in [Processes -> {"ping", "stats"}]
    /\ attempt \in 1..dbMaxRetries
    /\ dropped \subseteq Pools
    /\ faults \in Nat

Init ==
    /\ handle = NoPool
    /\ open = {}
    /\ tables = {}
    /\ checks \in SUBSET Checks
    /\ pc = [p \in Processes |-> "idle"]
    /\ pool = [p \in Processes |-> NoPool]
    /\ stmt = [p \in Processes |-> 1]
    /\ back = [p \in Processes |-> "stats"]
    /\ attempt = 1
    /\ dropped = {}
    /\ faults = MaxFaults

Fault ==
    /\ faults > 0
    /\ faults' = faults - 1

Goto(p, step) ==
    /\ pc' = [pc EXCEPT ![p] = step]
    /\ UNCHANGED <<stmt, back, attempt>>

\* The process returns to its caller, and its locals are gone.
Return(p, step) ==
    /\ pc' = [pc EXCEPT ![p] = step]
    /\ stmt' = [stmt EXCEPT ![p] = 1]
    /\ back' = [back EXCEPT ![p] = "stats"]
    /\ attempt' = IF p = Reconciler THEN 1 ELSE attempt

Done(p) == Return(p, "idle")
Failed(p) == Return(p, "failed")

\* A call on r.DB that succeeds or returns an error.
CallDB(p, step, works, Then, Else) ==
    /\ pc[p] = step
    /\ handle # NoPool
    /\ \/ works /\ Then /\ UNCHANGED faults
       \/ ~works /\ Else /\ UNCHANGED faults
       \/ Else /\ Fault

CallSteps ==
    {"ping", "close", "create", "stats", "purge", "hash", "transact", "pingAfter",
     "probePing", "probe"}

\* r.DB is nil by now and the call panics; the server of the checks recovers
\* from that, and a pool that was opened and not stored is lost.
CallNil(p) ==
    /\ pc[p] \in CallSteps
    /\ handle = NoPool
    /\ pool' = [pool EXCEPT ![p] = NoPool]
    /\ Failed(p)
    /\ UNCHANGED <<handle, open, tables, checks, dropped, faults>>

\* Whether a statement on r.DB works that needs these tables.
Answers(needed) == handle \in open /\ needed \subseteq tables

-----------------------------------------------------------------------------
(* ensureDBConnection, and connectToDatabase, which it calls for a nil r.DB *)
(* and after a failed ping.                                                 *)

(* Mutant: one attempt too many. *)
EnsureFailsOnceMore(p) ==
    IF p = Reconciler /\ attempt <= dbMaxRetries
    THEN /\ pc' = [pc EXCEPT ![p] = "check"]
         /\ stmt' = [stmt EXCEPT ![p] = 1]
         /\ back' = [back EXCEPT ![p] = "stats"]
         /\ attempt' = attempt + 1
    ELSE Failed(p)

\* An error: the worker tries again, up to dbMaxRetries times.
EnsureFails(p) ==
    IF p = Reconciler /\ attempt < dbMaxRetries
    THEN /\ pc' = [pc EXCEPT ![p] = "check"]
         /\ stmt' = [stmt EXCEPT ![p] = 1]
         /\ back' = [back EXCEPT ![p] = "stats"]
         /\ attempt' = attempt + 1
    ELSE Failed(p)

CheckHandle(p) ==
    /\ pc[p] = "check"
    /\ IF handle = NoPool
       THEN /\ pc' = [pc EXCEPT ![p] = "open"]
            /\ back' = [back EXCEPT ![p] = "ping"]
            /\ UNCHANGED <<stmt, attempt>>
       ELSE Goto(p, "ping")
    /\ UNCHANGED <<handle, open, tables, checks, pool, dropped, faults>>

(* Mutant: a pool that does not answer is closed before another one is open. *)
PingClosesFirst(p) ==
    /\ CallDB(p, "ping", Answers({}),
              Goto(p, "stats") /\ UNCHANGED open,
              Goto(p, "open") /\ open' = open \ {handle})
    /\ UNCHANGED <<handle, tables, checks, pool, dropped>>

Ping(p) ==
    /\ CallDB(p, "ping", Answers({}), Goto(p, "stats"), Goto(p, "open"))
    /\ UNCHANGED <<handle, open, tables, checks, pool, dropped>>

(* Mutant: the pool whose ping failed is not closed. *)
CloseForgotten(pools, q) == pools \cup {q}

Close(pools, q) == pools \ {q}

\* What somebody still refers to, and a name for another pool.
Held == {handle} \cup {pool[p] : p \in Processes}
NewPool == CHOOSE q \in Pools \ Held : TRUE

\* sql.Open and the ping of the new pool, which is closed if that fails.
OpenPool(p) ==
    /\ pc[p] = "open"
    /\ Pools \ Held # {}
    /\ dropped' = dropped \ {NewPool}
    /\ \/ /\ open' = open \cup {NewPool}
          /\ pool' = [pool EXCEPT ![p] = NewPool]
          /\ Goto(p, "replace")
          /\ UNCHANGED faults
       \/ /\ open' = Close(open, NewPool)
          /\ EnsureFails(p)
          /\ Fault
          /\ UNCHANGED pool
    /\ UNCHANGED <<handle, tables, checks>>

\* `if r.DB != nil'.
CheckOld(p) ==
    /\ pc[p] = "replace"
    /\ Goto(p, IF handle = NoPool THEN "store" ELSE "close")
    /\ UNCHANGED <<handle, open, tables, checks, pool, dropped, faults>>

(* Mutant: r.DB is set to nil with the Close. *)
CloseOldClears(p) ==
    /\ pc[p] = "close"
    /\ handle # NoPool
    /\ open' = Close(open, handle)
    /\ handle' = NoPool
    /\ Goto(p, "store")
    /\ UNCHANGED <<tables, checks, pool, dropped, faults>>

\* `r.DB.Close()'.
CloseOld(p) ==
    /\ pc[p] = "close"
    /\ handle # NoPool
    /\ open' = Close(open, handle)
    /\ Goto(p, "store")
    /\ UNCHANGED <<handle, tables, checks, pool, dropped, faults>>

(* Mutant: the assignment comes before the Close, which then meets the new pool. *)
StorePoolClosesNew(p) ==
    /\ pc[p] = "store"
    /\ open' = IF handle = NoPool THEN open ELSE Close(open, pool[p])
    /\ handle' = pool[p]
    /\ pool' = [pool EXCEPT ![p] = NoPool]
    /\ Goto(p, "create")
    /\ UNCHANGED <<tables, checks, dropped, faults>>

\* `r.DB = db', before the schema is there.
StorePool(p) ==
    /\ pc[p] = "store"
    /\ handle' = pool[p]
    /\ pool' = [pool EXCEPT ![p] = NoPool]
    /\ Goto(p, "create")
    /\ UNCHANGED <<open, tables, checks, dropped, faults>>

\* The foreign keys of multi_interface refer to the other two tables.
Creatable(table) ==
    table = "multi_interface" => {"multi_subnet", "node_table"} \subseteq tables

(* Mutant: the last table is left out. *)
SchemaDoneEarly(p) == stmt[p] = Len(Schema) - 1

SchemaDone(p) == stmt[p] = Len(Schema)

\* CREATE TABLE IF NOT EXISTS.  After an error r.DB keeps the pool, and no
\* later attempt comes back here as long as its pings succeed.
CreateTable(p) ==
    LET table == Schema[stmt[p]]
        created ==
            /\ tables' = tables \cup {table}
            /\ IF SchemaDone(p)
               THEN /\ pc' = [pc EXCEPT ![p] = back[p]]
                    /\ stmt' = [stmt EXCEPT ![p] = 1]
                    /\ back' = [back EXCEPT ![p] = "stats"]
                    /\ UNCHANGED attempt
               ELSE /\ stmt' = [stmt EXCEPT ![p] = @ + 1]
                    /\ UNCHANGED <<pc, back, attempt>>
    IN
    /\ CallDB(p, "create", handle \in open /\ Creatable(table), created,
              EnsureFails(p) /\ UNCHANGED tables)
    /\ UNCHANGED <<handle, open, checks, pool, dropped>>

AfterEnsure(p) == IF p = Reconciler THEN "read" ELSE "probePing"

\* r.DB.Stats() for the metric, which sends nothing to the database.
Stats(p) ==
    /\ pc[p] = "stats"
    /\ handle # NoPool
    /\ Goto(p, AfterEnsure(p))
    /\ UNCHANGED <<handle, open, tables, checks, pool, dropped, faults>>

Connect(p) ==
    \/ CheckHandle(p) \/ Ping(p) \/ OpenPool(p) \/ CheckOld(p) \/ CloseOld(p)
    \/ StorePool(p) \/ CreateTable(p) \/ Stats(p)

-----------------------------------------------------------------------------
(* The rest of a pass of the worker. *)

R == Reconciler

Begin ==
    /\ pc[R] \in {"idle", "failed"}
    /\ Goto(R, "check")
    /\ UNCHANGED <<handle, open, tables, checks, pool, dropped, faults>>

\* The CR is gone, lacks its finalizer, is being deleted, or is reconciled.
Read ==
    /\ pc[R] = "read"
    /\ Done(R) \/ Goto(R, "purge") \/ Goto(R, "hash")
    /\ UNCHANGED <<handle, open, tables, checks, pool, dropped, faults>>

Purge ==
    /\ CallDB(R, "purge", Answers({"multi_interface", "cr_state"}), Done(R), Failed(R))
    /\ UNCHANGED <<handle, open, tables, checks, pool, dropped>>

\* hasCRChanged; then the pass is skipped, ends without OpenStack's answer, or
\* goes on.
Hash ==
    /\ CallDB(R, "hash", Answers({"cr_state"}),
              Done(R) \/ Goto(R, "transact"), Failed(R))
    /\ UNCHANGED <<handle, open, tables, checks, pool, dropped>>

Transact ==
    /\ CallDB(R, "transact", Answers(InterfaceTables), Goto(R, "pingAfter"), Failed(R))
    /\ UNCHANGED <<handle, open, tables, checks, pool, dropped>>

\* A failed ping after the commit is no error.
PingAfter ==
    /\ CallDB(R, "pingAfter", Answers({}), Done(R), Goto(R, "drop"))
    /\ UNCHANGED <<handle, open, tables, checks, pool, dropped>>

\* `r.DB = nil', whatever r.DB is by now, without Close.
Drop ==
    /\ pc[R] = "drop"
    /\ handle' = NoPool
    /\ dropped' = dropped \cup (open \cap {handle})
    /\ Done(R)
    /\ UNCHANGED <<open, tables, checks, pool, faults>>

Pass == Begin \/ Read \/ Purge \/ Hash \/ Transact \/ PingAfter \/ Drop

-----------------------------------------------------------------------------
(* The health checks. *)

BeginCheck(p) ==
    /\ pc[p] \in {"idle", "failed"}
    /\ Goto(p, "check")
    /\ UNCHANGED <<handle, open, tables, checks, pool, dropped, faults>>

ProbePing(p) ==
    /\ CallDB(p, "probePing", Answers({}), Goto(p, "probe"), Failed(p))
    /\ UNCHANGED <<handle, open, tables, checks, pool, dropped>>

\* SELECT 1, or the three tables that are looked for: cr_state is not.
Probe(p) ==
    /\ \E needed \in {{}, InterfaceTables} :
           CallDB(p, "probe", Answers(needed), Done(p), Failed(p))
    /\ UNCHANGED <<handle, open, tables, checks, pool, dropped>>

CheckStep(p) == Connect(p) \/ ProbePing(p) \/ Probe(p)

-----------------------------------------------------------------------------
(* The environment. *)

\* A new process; the server closes the connections of the old one.
Restart ==
    /\ Fault
    /\ handle' = NoPool
    /\ open' = {}
    /\ pool' = [p \in Processes |-> NoPool]
    /\ pc' = [p \in Processes |-> "idle"]
    /\ stmt' = [p \in Processes |-> 1]
    /\ back' = [p \in Processes |-> "stats"]
    /\ attempt' = 1
    /\ dropped' = {}
    /\ UNCHANGED <<tables, checks>>

\* The database comes back with an empty volume.
LoseTables ==
    /\ Fault
    /\ tables # {}
    /\ tables' = {}
    /\ UNCHANGED <<handle, open, checks, pool, control, dropped>>

Next ==
    \/ Connect(Reconciler)
    \/ Pass
    \/ \E p \in checks : BeginCheck(p) \/ CheckStep(p)
    \/ \E p \in Processes : CallNil(p)
    \/ Restart
    \/ LoseTables

Spec == Init /\ [][Next]_vars

\* The worker always has a next pass (every pass ends with a requeue or an
\* error), and what was begun goes on.  Nobody has to ask for a check.
Fairness ==
    /\ WF_vars(Connect(Reconciler) \/ Pass \/ CallNil(Reconciler))
    /\ \A p \in Checks : WF_vars(p \in checks /\ (CheckStep(p) \/ CallNil(p)))

FairSpec == Spec /\ Fairness

-----------------------------------------------------------------------------
(* Properties. *)

\* The worker never calls a method of a nil r.DB, whatever the checks do
\* meanwhile: only the worker itself sets it to nil.  (A check may well.)
WorkerHandleSet == pc[Reconciler] \in CallSteps => handle # NoPool

\* r.DB never holds a closed pool but in the moment before the process that
\* closed it stores another one, with any number of processes that connect at
\* the same time.
HandleOpenOrReplaced ==
    handle \in Pools \ open => \E p \in Processes : pc[p] = "store"

\* The open pools that nobody can close any more.
Leaked == open \ Held

\* Without health checks no path of connecting, retrying and reconnecting
\* leaks a pool: the only ones that do are dropped after a commit.
OnlyDroppedLeak == checks = {} => Leaked \subseteq dropped

Quiet == \A p \in Checks : pc[p] \in {"idle", "failed"}

\* Whatever failed, passes end up not failing any more, unless a table is
\* missing for good: a CREATE TABLE that failed, or tables that were lost, are
\* not noticed by ensureDBConnection.  (Checks that never pause could chase
\* the worker's connection for ever, each closing the other's pool.)
PassesRecover ==
    <>[]Quiet => <>[](pc[Reconciler] # "failed") \/ <>[](tables # Tables)

\* ... and the tables come back with the next connection that is made after
\* the last fault.
SchemaFollowsConnect ==
    <>[]Quiet => ((handle = NoPool /\ faults = 0) ~> (tables = Tables))

-----------------------------------------------------------------------------
(* Why the safety properties hold: an inductive invariant, in named parts. *)

\* A process holds a pool of its own from OpenPool to StorePool; it is open,
\* and neither r.DB nor another process refers to it.
Connecting == {"replace", "close", "store"}
OwnPools ==
    \A p \in Processes :
        /\ pc[p] \in Connecting <=> pool[p] # NoPool
        /\ pool[p] # NoPool =>
              /\ pool[p] \in open \ {handle}
              /\ \A q \in Processes \ {p} : pool[q] # pool[p]

\* Between its calls, too, the worker's r.DB is not nil.
WorkerConnected ==
    pc[Reconciler] \in CallSteps \cup {"read", "drop"} => handle # NoPool

\* Checks that are not registered do not run.
ChecksIdle == \A p \in Checks \ checks : pc[p] = "idle"

\* On its own the worker stores a pool only where there is no open one.
AloneReplacesClosed ==
    checks = {} /\ pc[Reconciler] = "store" => handle \notin open

PoolInvariant ==
    /\ TypeOK
    /\ OwnPools
    /\ WorkerConnected
    /\ ChecksIdle
    /\ HandleOpenOrReplaced
    /\ AloneReplacesClosed
    /\ OnlyDroppedLeak

\* On its own and without a fault the worker connects once, creates each table
\* after those that it refers to, and sends no statement that cannot work.
\* (A check that has stored its pool has the worker use it before the tables
\* are there.)
FaultFree ==
    checks = {} /\ faults = MaxFaults =>
        /\ pc[Reconciler] \notin {"failed", "close", "drop"}
        /\ handle \in open \cup {NoPool}
        /\ pc[Reconciler] \in {"open", "replace", "store"} => handle = NoPool
        /\ IF pc[Reconciler] = "create"
           THEN \A i \in 1..(stmt[Reconciler] - 1) : Schema[i] \in tables
           ELSE stmt[Reconciler] = 1 /\ (handle # NoPool => tables = Tables)

ConnectionInvariant == PoolInvariant /\ faults <= MaxFaults /\ FaultFree
=============================================================================
