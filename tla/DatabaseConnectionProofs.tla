---------------------- MODULE DatabaseConnectionProofs ----------------------
(***************************************************************************)
(* Proofs about DatabaseConnection, for any number of pools, of checks     *)
(* that run at a time, of attempts and of faults.                          *)
(***************************************************************************)
EXTENDS DatabaseConnection, TLAPS

\* A new pool is nobody's yet.
LEMMA NewPoolFree ==
    Pools \ Held # {} => NewPool \in Pools /\ NewPool \notin Held
BY DEF NewPool

LEMMA SchemaLength == Len(Schema) = 4
BY DEF Schema

LEMMA SchemaTables == \A i \in 1..Len(Schema) : Schema[i] \in Tables
BY DEF Schema, Tables

\* r.DB starts as nil, and nobody runs.
LEMMA PoolInit == Init => PoolInvariant
<1> SUFFICES ASSUME Init PROVE PoolInvariant
  OBVIOUS
<1>1. TypeOK
  BY ConnectionAssumption, SchemaLength DEF Init, TypeOK, Steps, Processes
<1> QED
  BY <1>1, ConnectionAssumption
  DEF Init, PoolInvariant, OwnPools, WorkerConnected, ChecksIdle,
      HandleOpenOrReplaced, AloneReplacesClosed, OnlyDroppedLeak, Leaked, CallSteps,
      Connecting, Processes

-----------------------------------------------------------------------------
(* Types. *)

USE DEF control

LEMMA ConnectTypes ==
    ASSUME TypeOK, NEW p \in Processes, Connect(p)
    PROVE  TypeOK'
<1> USE ConnectionAssumption DEF TypeOK, Goto, Return, Failed, Done, Fault, EnsureFails
<1>1. CASE CheckHandle(p)
  BY <1>1, SchemaLength DEF CheckHandle, Steps, ConnectSteps
<1>2. CASE Ping(p)
  BY <1>2, SchemaLength DEF Ping, CallDB, Steps, ConnectSteps
<1>3. CASE OpenPool(p)
  BY <1>3, SchemaLength, NewPoolFree DEF OpenPool, Close, Steps, ConnectSteps
<1>4. CASE CheckOld(p)
  BY <1>4, SchemaLength DEF CheckOld, Steps, ConnectSteps
<1>5. CASE CloseOld(p)
  BY <1>5, SchemaLength DEF CloseOld, Close, Steps, ConnectSteps
<1>6. CASE StorePool(p)
  BY <1>6, SchemaLength DEF StorePool, Steps, ConnectSteps
<1>7. CASE CreateTable(p)
  BY <1>7, SchemaLength, SchemaTables DEF CreateTable, CallDB, SchemaDone, Steps, ConnectSteps
<1>8. CASE Stats(p)
  BY <1>8, SchemaLength DEF Stats, AfterEnsure, Steps, PassSteps, ProbeSteps
<1> QED
  BY <1>1, <1>2, <1>3, <1>4, <1>5, <1>6, <1>7, <1>8 DEF Connect

LEMMA PassTypes ==
    ASSUME TypeOK, Pass
    PROVE  TypeOK'
<1> USE ConnectionAssumption, SchemaLength
    DEF TypeOK, Goto, Return, Failed, Done, Fault, CallDB, Processes, R, Steps,
        ConnectSteps, PassSteps
<1>1. CASE Begin
  BY <1>1 DEF Begin
<1>2. CASE Read
  BY <1>2 DEF Read
<1>3. CASE Purge
  BY <1>3 DEF Purge
<1>4. CASE Hash
  BY <1>4 DEF Hash
<1>5. CASE Transact
  BY <1>5 DEF Transact
<1>6. CASE PingAfter
  BY <1>6 DEF PingAfter
<1>7. CASE Drop
  BY <1>7 DEF Drop
<1> QED
  BY <1>1, <1>2, <1>3, <1>4, <1>5, <1>6, <1>7 DEF Pass

\* A check, and the environment, change nothing that ConnectTypes has not
\* dealt with.
LEMMA NextTypes ==
    ASSUME TypeOK, [Next]_vars
    PROVE  TypeOK'
<1> USE ConnectionAssumption, SchemaLength
    DEF TypeOK, Goto, Return, Failed, Done, Fault, CallDB, Processes, Steps,
        ConnectSteps, ProbeSteps
<1>1. CASE \E p \in checks : CheckStep(p) \/ BeginCheck(p)
  <2>1. PICK p \in checks : CheckStep(p) \/ BeginCheck(p)
    BY <1>1
  <2>2. CASE BeginCheck(p)
    BY <2>2 DEF BeginCheck
  <2>3. CASE Connect(p)
    BY <2>3, ConnectTypes
  <2>4. CASE ProbePing(p)
    BY <2>4 DEF ProbePing
  <2>5. CASE Probe(p)
    BY <2>5 DEF Probe
  <2> QED
    BY <2>1, <2>2, <2>3, <2>4, <2>5 DEF CheckStep
<1>2. CASE Connect(Reconciler)
  BY <1>2, ConnectTypes
<1>3. CASE Pass
  BY <1>3, PassTypes
<1>4. CASE Restart
  BY <1>4 DEF Restart
<1>5. CASE LoseTables
  BY <1>5 DEF LoseTables
<1>6. CASE UNCHANGED vars
  BY <1>6 DEF vars
<1>7. CASE \E p \in Processes : CallNil(p)
  BY <1>7 DEF CallNil
<1> QED
  BY <1>1, <1>2, <1>3, <1>4, <1>5, <1>6, <1>7 DEF Next

-----------------------------------------------------------------------------
(* The other parts. *)

Others ==
    /\ OwnPools
    /\ WorkerConnected
    /\ ChecksIdle
    /\ HandleOpenOrReplaced
    /\ AloneReplacesClosed
    /\ OnlyDroppedLeak

\* The processes that take steps.
Running(p) == p = Reconciler \/ p \in checks

\* A step that changes nothing but where one process, which holds no pool of
\* its own, goes on.
LEMMA ControlOnly ==
    ASSUME PoolInvariant, TypeOK', NEW p \in Processes, Running(p),
           UNCHANGED <<handle, open, checks, pool, dropped>>,
           pc[p] \notin Connecting,
           NEW step \in Steps \ Connecting,
           pc' = [pc EXCEPT ![p] = step],
           p = Reconciler /\ step \in CallSteps \cup {"read", "drop"} => handle # NoPool
    PROVE  Others'
<1> USE DEF PoolInvariant, TypeOK, Processes, Running, Connecting
<1>1. OwnPools'
  BY DEF OwnPools
<1>2. WorkerConnected'
  BY DEF WorkerConnected, CallSteps
<1>3. ChecksIdle'
  BY ConnectionAssumption DEF ChecksIdle
<1>4. HandleOpenOrReplaced'
  BY DEF HandleOpenOrReplaced
<1>5. AloneReplacesClosed'
  BY DEF AloneReplacesClosed
<1>6. OnlyDroppedLeak'
  BY DEF OnlyDroppedLeak, Leaked, Held
<1> QED
  BY <1>1, <1>2, <1>3, <1>4, <1>5, <1>6 DEF Others

\* Opening a pool that nobody refers to, or closing it again.
LEMMA OpenPoolKeeps ==
    ASSUME PoolInvariant, TypeOK', NEW p \in Processes, Running(p), OpenPool(p)
    PROVE  Others'
<1> USE ConnectionAssumption, NewPoolFree
    DEF PoolInvariant, TypeOK, Processes, Running, Connecting, OpenPool, Goto,
        EnsureFails, Failed, Return, Close, Held
<1>1. OwnPools'
  <2>1. NewPool \in Pools /\ NewPool \notin Held
    OBVIOUS
  <2>2. pc[p] \notin Connecting /\ pool[p] = NoPool
    BY DEF OwnPools
  <2>3. CASE open' = open \cup {NewPool} /\ pool' = [pool EXCEPT ![p] = NewPool]
             /\ pc' = [pc EXCEPT ![p] = "replace"]
    BY <2>1, <2>2, <2>3 DEF OwnPools
  <2>4. CASE UNCHANGED pool /\ open' = open \ {NewPool}
             /\ \E step \in {"check", "failed"} : pc' = [pc EXCEPT ![p] = step]
    BY <2>1, <2>2, <2>4 DEF OwnPools
  <2> QED
    BY <2>3, <2>4
<1>2. WorkerConnected'
  BY DEF WorkerConnected, CallSteps
<1>3. ChecksIdle'
  BY DEF ChecksIdle
<1>4. HandleOpenOrReplaced'
  BY DEF HandleOpenOrReplaced
<1>5. AloneReplacesClosed'
  BY DEF AloneReplacesClosed
<1>6. OnlyDroppedLeak'
  BY DEF OnlyDroppedLeak, Leaked, OwnPools
<1> QED
  BY <1>1, <1>2, <1>3, <1>4, <1>5, <1>6 DEF Others

\* Closing the old pool: from here until StorePool r.DB may hold a closed one.
LEMMA CloseOldKeeps ==
    ASSUME PoolInvariant, TypeOK', NEW p \in Processes, Running(p),
           CheckOld(p) \/ CloseOld(p)
    PROVE  Others'
<1> USE ConnectionAssumption
    DEF PoolInvariant, TypeOK, Processes, Running, Connecting, CheckOld, CloseOld,
        Goto, Close
<1>1. OwnPools'
  BY DEF OwnPools
<1>2. WorkerConnected'
  BY DEF WorkerConnected, CallSteps
<1>3. ChecksIdle'
  BY DEF ChecksIdle
<1>4. HandleOpenOrReplaced'
  BY DEF HandleOpenOrReplaced
<1>5. AloneReplacesClosed'
  BY DEF AloneReplacesClosed
<1>6. OnlyDroppedLeak'
  BY DEF OnlyDroppedLeak, Leaked, Held
<1> QED
  BY <1>1, <1>2, <1>3, <1>4, <1>5, <1>6 DEF Others

\* Storing the new pool: open, and nobody else's.
LEMMA StorePoolKeeps ==
    ASSUME PoolInvariant, TypeOK', NEW p \in Processes, Running(p), StorePool(p)
    PROVE  Others'
<1> USE ConnectionAssumption
    DEF PoolInvariant, TypeOK, Processes, Running, Connecting, StorePool, Goto
<1>1. OwnPools'
  BY DEF OwnPools
<1>2. WorkerConnected'
  BY DEF WorkerConnected, CallSteps, OwnPools
<1>3. ChecksIdle'
  BY DEF ChecksIdle
<1>4. HandleOpenOrReplaced'
  BY DEF HandleOpenOrReplaced, OwnPools
<1>5. AloneReplacesClosed'
  BY DEF AloneReplacesClosed
<1>6. OnlyDroppedLeak'
  <2> SUFFICES ASSUME checks = {} PROVE Leaked' \subseteq dropped
    BY DEF OnlyDroppedLeak
  <2>1. p = Reconciler /\ handle \notin open
    BY DEF AloneReplacesClosed
  <2>2. \A q \in Processes \ {p} : pool[q] = NoPool
    BY <2>1 DEF ChecksIdle, OwnPools
  <2>3. Leaked \subseteq dropped
    BY DEF OnlyDroppedLeak
  <2> QED
    BY <2>1, <2>2, <2>3 DEF Leaked, Held
<1> QED
  BY <1>1, <1>2, <1>3, <1>4, <1>5, <1>6 DEF Others

\* Only a check can find r.DB nil.
LEMMA CallNilKeeps ==
    ASSUME PoolInvariant, TypeOK', NEW p \in Processes, Running(p), CallNil(p)
    PROVE  Others'
<1> USE ConnectionAssumption
    DEF PoolInvariant, TypeOK, Processes, Running, Connecting, CallNil, Failed, Return
<1>1. p # Reconciler
  BY DEF WorkerConnected
<1>2. OwnPools'
  BY DEF OwnPools
<1>3. WorkerConnected'
  BY <1>1 DEF WorkerConnected, CallSteps
<1>4. ChecksIdle'
  BY DEF ChecksIdle
<1>5. HandleOpenOrReplaced'
  BY DEF HandleOpenOrReplaced
<1>6. AloneReplacesClosed'
  BY DEF AloneReplacesClosed
<1>7. OnlyDroppedLeak'
  BY <1>1 DEF OnlyDroppedLeak
<1> QED
  BY <1>2, <1>3, <1>4, <1>5, <1>6, <1>7 DEF Others

\* The worker drops its pool, closed or open.
LEMMA DropKeeps ==
    ASSUME PoolInvariant, TypeOK', Drop
    PROVE  Others'
<1> USE ConnectionAssumption
    DEF PoolInvariant, TypeOK, Processes, Connecting, Drop, R, Done, Return
<1>1. OwnPools'
  BY DEF OwnPools
<1>2. WorkerConnected'
  BY DEF WorkerConnected, CallSteps
<1>3. ChecksIdle'
  BY DEF ChecksIdle
<1>4. HandleOpenOrReplaced'
  BY DEF HandleOpenOrReplaced
<1>5. AloneReplacesClosed'
  BY DEF AloneReplacesClosed
<1>6. OnlyDroppedLeak'
  BY DEF OnlyDroppedLeak, Leaked, Held
<1> QED
  BY <1>1, <1>2, <1>3, <1>4, <1>5, <1>6 DEF Others

\* Every step of connecting.
LEMMA ConnectKeeps ==
    ASSUME PoolInvariant, TypeOK', NEW p \in Processes, Running(p), Connect(p)
    PROVE  Others'
<1> USE DEF Goto, Return, Failed, EnsureFails, CallDB, Fault
<1>0. /\ TypeOK /\ pc[p] \in Steps /\ back[p] \in {"ping", "stats"}
      /\ pc = [pc EXCEPT ![p] = pc[p]]
  BY DEF PoolInvariant, TypeOK
<1>1. CASE CheckHandle(p)
  BY <1>0, <1>1, ControlOnly DEF CheckHandle, Connecting, Steps, ConnectSteps, CallSteps
<1>2. CASE Ping(p)
  BY <1>0, <1>2, ControlOnly DEF Ping, Connecting, Steps, ConnectSteps, CallSteps
<1>3. CASE OpenPool(p)
  BY <1>3, OpenPoolKeeps
<1>4. CASE CheckOld(p) \/ CloseOld(p)
  BY <1>4, CloseOldKeeps
<1>5. CASE StorePool(p)
  BY <1>5, StorePoolKeeps
<1>6. CASE CreateTable(p)
  <2>1. pc[p] = "create" /\ handle # NoPool
        /\ UNCHANGED <<handle, open, checks, pool, dropped>>
    BY <1>6 DEF CreateTable
  <2>2. \E step \in {"ping", "stats", "create", "check", "failed"} :
            pc' = [pc EXCEPT ![p] = step]
    BY <1>0, <1>6 DEF CreateTable
  <2> QED
    BY <2>1, <2>2, ControlOnly DEF Connecting, Steps, ConnectSteps, CallSteps
<1>7. CASE Stats(p)
  BY <1>0, <1>7, ControlOnly
  DEF Stats, AfterEnsure, Connecting, Steps, ConnectSteps, PassSteps, ProbeSteps, CallSteps
<1> QED
  BY <1>1, <1>2, <1>3, <1>4, <1>5, <1>6, <1>7 DEF Connect

\* Every step of the rest of a pass.
LEMMA PassKeeps ==
    ASSUME PoolInvariant, TypeOK', Pass
    PROVE  Others'
<1> USE DEF Goto, Return, Failed, Done, CallDB, Fault, R, Processes, Running, Connecting,
            Steps, ConnectSteps, PassSteps, CallSteps
<1>1. CASE Begin
  BY <1>1, ControlOnly DEF Begin
<1>2. CASE Read
  <2>1. handle # NoPool
    BY <1>2 DEF Read, PoolInvariant, WorkerConnected
  <2> QED
    BY <1>2, <2>1, ControlOnly DEF Read
<1>3. CASE Purge
  BY <1>3, ControlOnly DEF Purge
<1>4. CASE Hash
  BY <1>4, ControlOnly DEF Hash
<1>5. CASE Transact
  BY <1>5, ControlOnly DEF Transact
<1>6. CASE PingAfter
  BY <1>6, ControlOnly DEF PingAfter
<1>7. CASE Drop
  BY <1>7, DropKeeps
<1> QED
  BY <1>1, <1>2, <1>3, <1>4, <1>5, <1>6, <1>7 DEF Pass

LEMMA PoolNext ==
    ASSUME PoolInvariant, [Next]_vars
    PROVE  PoolInvariant'
<1>0. TypeOK'
  BY NextTypes DEF PoolInvariant
<1> SUFFICES Others'
  BY <1>0 DEF PoolInvariant, Others
<1> USE DEF Processes, Running
<1>1. CASE Connect(Reconciler)
  BY <1>0, <1>1, ConnectKeeps
<1>2. CASE Pass
  BY <1>0, <1>2, PassKeeps
<1>3. CASE \E p \in checks : BeginCheck(p) \/ CheckStep(p)
  <2>1. PICK p \in checks : BeginCheck(p) \/ CheckStep(p)
    BY <1>3
  <2>2. p \in Processes /\ p # Reconciler
    BY ConnectionAssumption DEF PoolInvariant, TypeOK
  <2>3. CASE BeginCheck(p)
    BY <1>0, <2>2, <2>3, ControlOnly
    DEF BeginCheck, Goto, Connecting, Steps, ConnectSteps
  <2>4. CASE Connect(p)
    BY <1>0, <2>2, <2>4, ConnectKeeps
  <2>5. CASE ProbePing(p)
    BY <1>0, <2>2, <2>5, ControlOnly
    DEF ProbePing, CallDB, Goto, Failed, Return, Connecting, Steps, ProbeSteps
  <2>6. CASE Probe(p)
    BY <1>0, <2>2, <2>6, ControlOnly
    DEF Probe, CallDB, Done, Failed, Return, Connecting, Steps
  <2> QED
    BY <2>1, <2>3, <2>4, <2>5, <2>6 DEF CheckStep
<1>4. CASE Restart
  BY <1>4, ConnectionAssumption
  DEF Restart, Others, OwnPools, WorkerConnected, ChecksIdle, HandleOpenOrReplaced,
      AloneReplacesClosed, OnlyDroppedLeak, Leaked, CallSteps, Connecting,
      PoolInvariant, TypeOK
<1>5. CASE LoseTables \/ UNCHANGED vars
  <2>1. UNCHANGED <<handle, open, checks, pool, pc, dropped>>
    BY <1>5 DEF LoseTables, vars
  <2> QED
    BY <2>1
    DEF PoolInvariant, Others, OwnPools, WorkerConnected, ChecksIdle,
        HandleOpenOrReplaced, AloneReplacesClosed, OnlyDroppedLeak, Leaked, Held
<1>6. CASE \E p \in Processes : CallNil(p)
  <2>1. PICK p \in Processes : CallNil(p)
    BY <1>6
  <2>2. p \in Checks => p \in checks
    BY <2>1 DEF CallNil, CallSteps, PoolInvariant, ChecksIdle
  <2> QED
    BY <1>0, <2>1, <2>2, CallNilKeeps
<1> QED
  BY <1>0, <1>1, <1>2, <1>3, <1>4, <1>5, <1>6 DEF Next, PoolInvariant, Others

-----------------------------------------------------------------------------
(* Without checks and faults. *)

LEMMA FaultsFall ==
    ASSUME TypeOK, [Next]_vars
    PROVE  faults' = faults \/ Fault
BY DEF Next, vars, Connect, CheckHandle, Ping, OpenPool, CheckOld, CloseOld, StorePool,
       CreateTable, Stats, Pass, Begin, Read, Purge, Hash, Transact, PingAfter, Drop,
       BeginCheck, CheckStep, ProbePing, Probe, CallNil, Restart, LoseTables, CallDB

LEMMA ChecksFixed ==
    ASSUME [Next]_vars
    PROVE  checks' = checks
BY DEF Next, vars, Connect, CheckHandle, Ping, OpenPool, CheckOld, CloseOld, StorePool,
       CreateTable, Stats, Pass, Begin, Read, Purge, Hash, Transact, PingAfter, Drop,
       BeginCheck, CheckStep, ProbePing, Probe, CallNil, Restart, LoseTables

\* What FaultFree says once its condition holds.
Smooth ==
    /\ pc[Reconciler] \notin {"failed", "close", "drop"}
    /\ handle \in open \cup {NoPool}
    /\ pc[Reconciler] \in {"open", "replace", "store"} => handle = NoPool
    /\ IF pc[Reconciler] = "create"
       THEN \A i \in 1..(stmt[Reconciler] - 1) : Schema[i] \in tables
       ELSE stmt[Reconciler] = 1 /\ (handle # NoPool => tables = Tables)

\* The tables that a statement refers to have been created by the ones before.
LEMMA SchemaOrder ==
    ASSUME NEW n \in 1..Len(Schema), \A i \in 1..(n - 1) : Schema[i] \in tables
    PROVE  /\ Creatable(Schema[n])
           /\ n = Len(Schema) => Tables \subseteq tables \cup {Schema[n]}
<1>1. n \in {1, 2, 3, 4}
  BY SchemaLength
<1>2. /\ Schema[1] = "multi_subnet" /\ Schema[2] = "node_table"
      /\ Schema[3] = "multi_interface" /\ Schema[4] = "cr_state"
  BY DEF Schema
<1>3. (n >= 3 => {"multi_subnet", "node_table"} \subseteq tables)
      /\ (n = 4 => "multi_interface" \in tables)
  BY <1>1, <1>2
<1> QED
  BY <1>1, <1>2, <1>3, SchemaLength DEF Creatable, Tables

LEMMA ConnectSmooth ==
    ASSUME PoolInvariant, TypeOK', Smooth, Connect(Reconciler), UNCHANGED faults
    PROVE  Smooth'
<1> USE DEF Smooth, Goto
<1>0. /\ TypeOK /\ ~Fault
      /\ pc[Reconciler] \in Steps /\ stmt[Reconciler] \in 1..Len(Schema)
      /\ pc \in [Processes -> Steps] /\ stmt \in [Processes -> 1..Len(Schema)]
      /\ Reconciler \in Processes
  BY DEF PoolInvariant, TypeOK, Fault, Processes
<1>1. CASE CheckHandle(Reconciler)
  BY <1>0, <1>1 DEF CheckHandle
<1>2. CASE Ping(Reconciler)
  BY <1>0, <1>2 DEF Ping, CallDB, Answers
<1>3. CASE OpenPool(Reconciler)
  BY <1>0, <1>3 DEF OpenPool
<1>4. CASE CheckOld(Reconciler) \/ CloseOld(Reconciler)
  BY <1>0, <1>4 DEF CheckOld, CloseOld
<1>5. CASE StorePool(Reconciler)
  <2>1. pool[Reconciler] \in open
    BY <1>0, <1>5 DEF StorePool, PoolInvariant, OwnPools, Connecting
  <2> QED
    BY <1>0, <1>5, <2>1 DEF StorePool
<1>6. CASE CreateTable(Reconciler)
  <2>. DEFINE n == stmt[Reconciler]
  <2>1. /\ pc[Reconciler] = "create" /\ handle # NoPool /\ handle \in open
        /\ n \in 1..Len(Schema) /\ \A i \in 1..(n - 1) : Schema[i] \in tables
    BY <1>0, <1>6 DEF CreateTable, CallDB
  <2>2. Creatable(Schema[n]) /\ (n = Len(Schema) => Tables \subseteq tables \cup {Schema[n]})
    BY <2>1, SchemaOrder
  <2>3. /\ UNCHANGED <<handle, open>> /\ tables' = tables \cup {Schema[n]}
        /\ IF n = Len(Schema)
           THEN /\ pc' = [pc EXCEPT ![Reconciler] = back[Reconciler]]
                /\ stmt' = [stmt EXCEPT ![Reconciler] = 1]
           ELSE /\ stmt' = [stmt EXCEPT ![Reconciler] = n + 1]
                /\ UNCHANGED pc
    BY <1>0, <1>6, <2>1, <2>2 DEF CreateTable, CallDB, SchemaDone
  <2>4. CASE n = Len(Schema)
    <3>1. tables' = Tables
      BY <2>2, <2>3, <2>4 DEF TypeOK
    <3>2. back[Reconciler] \in {"ping", "stats"}
      BY <1>0 DEF TypeOK
    <3> QED
      BY <1>0, <2>1, <2>3, <2>4, <3>1, <3>2
  <2>5. CASE n # Len(Schema)
    <3>1. n + 1 \in 1..Len(Schema) /\ stmt'[Reconciler] = n + 1 /\ pc' = pc
      BY <1>0, <2>1, <2>3, <2>5, SchemaLength
    <3>2. \A i \in 1..n : i \in 1..(n - 1) \/ i = n
      BY <2>1, SchemaLength
    <3>3. \A i \in 1..n : Schema[i] \in tables'
      BY <2>1, <2>3, <3>2
    <3>4. (n + 1) - 1 = n
      BY <2>1, SchemaLength
    <3> QED
      BY <2>1, <2>3, <3>1, <3>3, <3>4
  <2> QED
    BY <2>4, <2>5
<1>7. CASE Stats(Reconciler)
  BY <1>0, <1>7 DEF Stats, AfterEnsure
<1> QED
  BY <1>1, <1>2, <1>3, <1>4, <1>5, <1>6, <1>7 DEF Connect

LEMMA PassSmooth ==
    ASSUME PoolInvariant, TypeOK', Smooth, Pass, UNCHANGED faults
    PROVE  Smooth'
<1> USE DEF Smooth, Goto, Done, Return, R, CallDB, Answers
<1>0. /\ TypeOK /\ ~Fault
      /\ pc \in [Processes -> Steps] /\ stmt \in [Processes -> 1..Len(Schema)]
      /\ Reconciler \in Processes
  BY DEF PoolInvariant, TypeOK, Fault, Processes
<1>1. CASE Begin \/ Read
  BY <1>0, <1>1 DEF Begin, Read
<1>2. CASE Purge
  BY <1>0, <1>2 DEF Purge, Tables
<1>3. CASE Hash
  BY <1>0, <1>3 DEF Hash, Tables
<1>4. CASE Transact
  BY <1>0, <1>4 DEF Transact, InterfaceTables
<1>5. CASE PingAfter
  BY <1>0, <1>5 DEF PingAfter
<1>6. CASE Drop
  BY <1>6 DEF Drop
<1> QED
  BY <1>1, <1>2, <1>3, <1>4, <1>5, <1>6 DEF Pass

LEMMA NextInvariant ==
    ASSUME ConnectionInvariant, [Next]_vars
    PROVE  ConnectionInvariant'
<1>1. PoolInvariant' /\ TypeOK /\ TypeOK'
  BY PoolNext DEF ConnectionInvariant, PoolInvariant
<1>2. faults \in Nat /\ MaxFaults \in Nat /\ faults <= MaxFaults
  BY <1>1, ConnectionAssumption DEF TypeOK, ConnectionInvariant
<1>3. faults' <= MaxFaults /\ (faults' = MaxFaults => faults = MaxFaults /\ ~Fault)
  BY <1>1, <1>2, FaultsFall DEF Fault
<1>4. ASSUME checks' = {}, faults' = MaxFaults
      PROVE  Smooth'
  <2>1. checks = {} /\ UNCHANGED faults /\ ~Fault /\ Smooth /\ PoolInvariant
    BY <1>3, <1>4, ChecksFixed DEF ConnectionInvariant, FaultFree, Smooth
  <2>2. ~ \E p \in Processes : CallNil(p)
    BY <2>1
    DEF CallNil, CallSteps, Processes, PoolInvariant, WorkerConnected, ChecksIdle
  <2>3. CASE UNCHANGED vars
    BY <2>1, <2>3 DEF vars, Smooth
  <2> QED
    BY <1>1, <2>1, <2>2, <2>3, ConnectSmooth, PassSmooth DEF Next, Restart, LoseTables
<1> QED
  BY <1>1, <1>3, <1>4 DEF ConnectionInvariant, FaultFree, Smooth

LEMMA InitInvariant == Init => ConnectionInvariant
<1>1. Init => faults <= MaxFaults /\ FaultFree
  BY ConnectionAssumption DEF Init, FaultFree, Processes
<1> QED
  BY <1>1, PoolInit DEF ConnectionInvariant

-----------------------------------------------------------------------------
(* The theorems. *)

\* The inductive invariant of the connection.
THEOREM ConnectionInvariance == Spec => []ConnectionInvariant
BY InitInvariant, NextInvariant, PTL DEF Spec

\* Every variable of the connection keeps its type: the number of an attempt
\* stays within dbMaxRetries, a statement within the schema.
THEOREM ConnectionTypeCorrect == Spec => []TypeOK
<1>1. ConnectionInvariant => TypeOK
  BY DEF ConnectionInvariant, PoolInvariant
<1> QED
  BY <1>1, ConnectionInvariance, PTL

\* The worker never calls a method of a nil r.DB (OCC 202, 210, 249, 317, 609,
\* 781, 1039, 1381), whatever any number of checks do.
THEOREM WorkerNeverNil == Spec => []WorkerHandleSet
<1>1. ConnectionInvariant => WorkerHandleSet
  BY DEF ConnectionInvariant, PoolInvariant, WorkerConnected, WorkerHandleSet
<1> QED
  BY <1>1, ConnectionInvariance, PTL

\* r.DB holds a closed pool only between the Close and the assignment of one
\* of the processes that connect (OCC 248-252), however many there are.
THEOREM ClosedOnlyWhileReplaced == Spec => []HandleOpenOrReplaced
<1>1. ConnectionInvariant => HandleOpenOrReplaced
  BY DEF ConnectionInvariant, PoolInvariant
<1> QED
  BY <1>1, ConnectionInvariance, PTL

\* Without registered checks only the pools that are dropped after a commit
\* (OCC 783) leak.
THEOREM LeaksAreDrops == Spec => []OnlyDroppedLeak
<1>1. ConnectionInvariant => OnlyDroppedLeak
  BY DEF ConnectionInvariant, PoolInvariant
<1> QED
  BY <1>1, ConnectionInvariance, PTL

\* Without registered checks and until something fails, no pass fails: the
\* schema is complete, in an order that its foreign keys allow, before the
\* first statement that needs it.
THEOREM NoFailureWithoutFault ==
    Spec => [](checks = {} /\ faults = MaxFaults => pc[Reconciler] # "failed")
<1>1. ConnectionInvariant => (checks = {} /\ faults = MaxFaults => pc[Reconciler] # "failed")
  BY DEF ConnectionInvariant, FaultFree
<1> QED
  BY <1>1, ConnectionInvariance, PTL
=============================================================================
