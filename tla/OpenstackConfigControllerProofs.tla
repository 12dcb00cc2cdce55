------------------ MODULE OpenstackConfigControllerProofs ------------------
(***************************************************************************)
(* The safety properties of OpenstackConfigController, for every set of    *)
(* CRs, specs and operator configurations and every number of user actions *)
(* and faults, whatever OpenStack has: TypeOK, NoOrphanRows,               *)
(* NeverForgotten, RecordsRemovedForCause, PublishedInfosMatch, the        *)
(* implementation of CRLifecycle, and EditsLostForCause.  All of them      *)
(* follow from InductiveInvariant, the last one together with HashOK.      *)
(***************************************************************************)
EXTENDS OpenstackConfigController, ReconcileTriggerProofs

\* The objects that the actions write are objects.
LEMMA ObjectsWritten ==
    /\ \A s \in Specs : NewCR(s) \in Objects
    /\ \A o \in Objects :
        /\ \A s \in Specs : [o EXCEPT !.spec = s] \in Objects
        /\ [o EXCEPT !.fin = TRUE] \in Objects
        /\ [o EXCEPT !.del = TRUE] \in Objects
        /\ [o EXCEPT !.status = "Error"] \in Objects
        /\ \A mac \in BOOLEAN : Completed(o, mac) \in Objects
        /\ WithoutFinalizer(o) \in Objects \cup {NoObj}
BY DEF NewCR, Objects, Infos, Statuses, Completed, WithoutFinalizer

\* Whatever the operators say, the worker ends up with a configuration.
LEMMA ConfigsWellFormed ==
    ASSUME operators \in OperatorSets
    PROVE  /\ getReconcileTriggerConfig(operators) \subseteq TriggerConfigs
           /\ FallbackTrigger \in TriggerConfigs
           /\ DefaultTrigger \in TriggerConfigs
<1>1. operators \in SUBSET TriggerConfigs
  BY ConstantsAssumption
<1>2. NoInterval \in Intervals /\ "manual" \in Modes /\ "immediate" \in Modes
  BY DEF NoInterval, Intervals, Modes
<1>3. FallbackTrigger \in TriggerConfigs /\ DefaultTrigger \in TriggerConfigs
  BY <1>2 DEF FallbackTrigger, DefaultTrigger, Trigger, TriggerConfigs
<1>. QED
  BY <1>1, <1>3, ConfigDefaults

LEMMA TypeInit == Init => TypeOK
<1>1. DefaultTrigger \in TriggerConfigs
  <2>1. NoInterval \in Intervals /\ "immediate" \in Modes
    BY DEF NoInterval, Intervals, Modes
  <2>. QED
    BY <2>1 DEF DefaultTrigger, Trigger, TriggerConfigs
<1>. QED
  BY <1>1, ConstantsAssumption
     DEF Init, TypeOK, KubeTypeOK, WorkerTypeOK, DatabaseTypeOK, BudgetTypeOK, Steps

-----------------------------------------------------------------------------
(* What the building blocks of the actions do. *)

LEMMA WriteEffect ==
    ASSUME KubeTypeOK, NEW c \in CRs, NEW obj \in Objects \cup {NoObj},
           NEW kind \in {"meta", "spec"}, WriteCR(c, obj, kind)
    PROVE  /\ api' \in [CRs -> Objects \cup {NoObj}]
           /\ lag' \in [CRs -> {"none", "meta", "spec"}]
           /\ api'[c] = obj
           /\ lag'[c] \in {"meta", "spec"}
           /\ lag[c] = "spec" \/ kind = "spec" => lag'[c] = "spec"
           /\ \A d \in CRs \ {c} : api'[d] = api[d] /\ lag'[d] = lag[d]
BY DEF WriteCR, KubeTypeOK

\* An update that takes effect writes the current version; any other leaves
\* the API server alone.
LEMMA UpdateEffect ==
    ASSUME BudgetTypeOK, NEW obj, NEW kind, NEW ok \in BOOLEAN, UpdateCR(obj, kind, ok)
    PROVE  /\ faults' \in Nat
           /\ \/ ~ok /\ api' = api /\ lag' = lag
              \/ fresh /\ WriteCR(cur, obj, kind)
BY DEF UpdateCR, KeepCRs, Fault, BudgetTypeOK

LEMMA FaultEffect == ASSUME BudgetTypeOK, Fault PROVE faults' \in Nat
BY DEF BudgetTypeOK, Fault

LEMMA TransactionEffect ==
    ASSUME BudgetTypeOK, NEW r, NEW s, NEW ok \in BOOLEAN, Transaction(r, s, ok)
    PROVE  /\ faults' \in Nat
           /\ \/ ~ok /\ rows' = rows /\ crState' = crState
              \/ rows' = r /\ crState' = s
BY DEF Transaction, Fault, BudgetTypeOK, db

\* Every return of Reconcile ends the pass the same way.
LEMMA FinishEffect ==
    ASSUME TypeOK, cur \in CRs, NEW again \in BOOLEAN, Finish(again)
    PROVE  /\ WorkerTypeOK' /\ PassOK'
           /\ pc' = "idle" /\ cur' = NoCR /\ ~fresh'
           /\ queue' = queue
           /\ delayed \subseteq delayed'
           /\ again => cur \in delayed'
<1>1. DefaultTrigger \in TriggerConfigs
  BY ConfigsWellFormed DEF TypeOK, KubeTypeOK
<1>. QED
  BY <1>1 DEF Finish, EndPass, TypeOK, WorkerTypeOK, PassOK, Steps, NormalSteps, DeletionSteps

\* A delay that the trigger decisions compute always brings the item back.
LEMMA ReturnEffect ==
    ASSUME NEW d \in Int, d >= Minute, Return(d)
    PROVE  Fail
BY DEF Return, Fail, Finish, EndPass, Minute

\* A pass that goes on keeps its item.
LEMMA GotoEffect ==
    ASSUME TypeOK, cur \in CRs, NEW step \in Steps \ {"idle"}, Goto(step),
           snap' \in Objects \cup {NoObj}, fresh' \in BOOLEAN, changed' \in BOOLEAN,
           trig' \in TriggerConfigs, found' \in BOOLEAN
    PROVE  /\ WorkerTypeOK' /\ cur' = cur /\ queue' = queue /\ delayed' = delayed
           /\ pc' = step
           /\ pc' = "idle" <=> cur' = NoCR
BY ConstantsAssumption DEF Goto, TypeOK, WorkerTypeOK

-----------------------------------------------------------------------------
(* Types, and the worker's locals: one lemma per action that is not trivial. *)

LEMMA UserTypes ==
    ASSUME TypeOK, PassOK, UserStep
    PROVE  TypeOK' /\ PassOK'
<1>1. ASSUME NEW c \in CRs, NEW obj \in Objects \cup {NoObj}, NEW kind \in {"meta", "spec"},
             UserWrite(c, obj, kind)
      PROVE  TypeOK' /\ PassOK'
  <2>1. WriteCR(c, obj, kind)
    BY <1>1 DEF UserWrite
  <2>2. KubeTypeOK'
    BY <1>1, <2>1, WriteEffect DEF UserWrite, TypeOK, KubeTypeOK
  <2>3. BudgetTypeOK'
    BY <1>1 DEF UserWrite, TypeOK, BudgetTypeOK
  <2>4. WorkerTypeOK' /\ DatabaseTypeOK'
    BY <1>1 DEF UserWrite, TypeOK, WorkerTypeOK, DatabaseTypeOK, db
  <2>5. PassOK'
    BY <1>1 DEF UserWrite, PassOK, TypeOK, WorkerTypeOK
  <2>. QED
    BY <2>2, <2>3, <2>4, <2>5 DEF TypeOK
<1>2. ASSUME NEW c \in CRs, CreateCR(c) PROVE TypeOK' /\ PassOK'
  BY <1>1, <1>2, ObjectsWritten DEF CreateCR
<1>3. ASSUME NEW c \in CRs, Exists(c) PROVE api[c] \in Objects
  BY <1>3 DEF Exists, TypeOK, KubeTypeOK
<1>4. ASSUME NEW c \in CRs, EditSpec(c) PROVE TypeOK' /\ PassOK'
  BY <1>1, <1>3, <1>4, ObjectsWritten DEF EditSpec
<1>5. ASSUME NEW c \in CRs, Touch(c) PROVE TypeOK' /\ PassOK'
  BY <1>1, <1>3, <1>5 DEF Touch
<1>6. ASSUME NEW c \in CRs, DeleteCR(c) PROVE TypeOK' /\ PassOK'
  <2>1. CASE api[c].fin
    BY <1>1, <1>3, <1>6, <2>1, ObjectsWritten DEF DeleteCR
  <2>2. CASE ~api[c].fin
    BY <1>1, <1>6, <2>2 DEF DeleteCR
  <2>. QED
    BY <2>1, <2>2
<1>7. ASSUME SetOperators PROVE TypeOK' /\ PassOK'
  BY <1>7
     DEF SetOperators, TypeOK, KubeTypeOK, WorkerTypeOK, DatabaseTypeOK, BudgetTypeOK,
         PassOK, pass, locals, db
<1>8. ASSUME ChangeOpenStack PROVE TypeOK' /\ PassOK'
  BY <1>8
     DEF ChangeOpenStack, TypeOK, KubeTypeOK, WorkerTypeOK, DatabaseTypeOK, BudgetTypeOK,
         PassOK, kube, pass, locals, db
<1>. QED
  BY <1>2, <1>4, <1>5, <1>6, <1>7, <1>8 DEF UserStep

LEMMA QueueTypes ==
    ASSUME TypeOK, PassOK, NEW c \in CRs, Watch(c) \/ Timer(c) \/ Begin(c)
    PROVE  TypeOK' /\ PassOK'
<1>1. CASE Watch(c)
  <2>1. KubeTypeOK'
    BY <1>1 DEF Watch, TypeOK, KubeTypeOK
  <2>2. BudgetTypeOK'
    <3>1. ((UNCHANGED faults) \/ Fault) /\ UNCHANGED userOps
      BY <1>1 DEF Watch
    <3>. QED
      BY <3>1, FaultEffect DEF TypeOK, BudgetTypeOK
  <2>3. WorkerTypeOK' /\ DatabaseTypeOK' /\ PassOK'
    BY <1>1 DEF Watch, TypeOK, WorkerTypeOK, DatabaseTypeOK, PassOK, pass, locals, db
  <2>. QED
    BY <2>1, <2>2, <2>3 DEF TypeOK
<1>2. CASE Timer(c)
  BY <1>2
     DEF Timer, TypeOK, KubeTypeOK, WorkerTypeOK, DatabaseTypeOK, BudgetTypeOK, PassOK,
         kube, pass, locals, db, budget
<1>3. CASE Begin(c)
  <2>1. KubeTypeOK' /\ DatabaseTypeOK' /\ BudgetTypeOK'
    BY <1>3 DEF Begin, TypeOK, KubeTypeOK, DatabaseTypeOK, BudgetTypeOK, kube, db, budget
  <2>2. WorkerTypeOK' /\ PassOK'
    BY <1>3, ConstantsAssumption
       DEF Begin, TypeOK, WorkerTypeOK, PassOK, Steps, NormalSteps, DeletionSteps, locals
  <2>. QED
    BY <2>1, <2>2 DEF TypeOK
<1>. QED
  BY <1>1, <1>2, <1>3

LEMMA WorkerTypes ==
    ASSUME TypeOK, PassOK, WorkerStep
    PROVE  TypeOK' /\ PassOK'
<1>c. /\ getReconcileTriggerConfig(operators) \subseteq TriggerConfigs
      /\ FallbackTrigger \in TriggerConfigs
  BY ConfigsWellFormed DEF TypeOK, KubeTypeOK
<1>u. ASSUME pc # "idle" PROVE cur \in CRs
  BY <1>u DEF PassOK, TypeOK, WorkerTypeOK
<1>s. ASSUME pc \notin {"idle", "ensureDB", "get"} PROVE snap \in Objects
  BY <1>s DEF PassOK
<1>. SUFFICES ASSUME cur \in CRs PROVE TypeOK' /\ PassOK'
  BY <1>u
     DEF WorkerStep, EnsureDB, GetCR, AddFinalizer, Purge, DropFinalizer, HasCRChanged,
         Decide, QueryOpenStack, OpenStackFails, SubnetNotFound, NoTargetVMs, FindPorts,
         CommitRows, PublishStatus
<1>k. ASSUME UNCHANGED <<kube, openstack>> PROVE KubeTypeOK'
  BY <1>k DEF kube, TypeOK, KubeTypeOK
<1>d. ASSUME UNCHANGED db PROVE DatabaseTypeOK'
  BY <1>d DEF db, TypeOK, DatabaseTypeOK
<1>b. ASSUME UNCHANGED userOps, (UNCHANGED faults) \/ Fault PROVE BudgetTypeOK'
  BY <1>b, FaultEffect DEF TypeOK, BudgetTypeOK
<1>f. ASSUME NEW again \in BOOLEAN, Finish(again) PROVE WorkerTypeOK' /\ PassOK'
  BY <1>f, FinishEffect
\* Updates of the API server and transactions, with the rest they leave alone.
<1>a. ASSUME NEW obj \in Objects \cup {NoObj}, NEW kind \in {"meta", "spec"},
             NEW ok \in BOOLEAN, UpdateCR(obj, kind, ok),
             UNCHANGED <<cache, operators, openstack, userOps>>
      PROVE  KubeTypeOK' /\ BudgetTypeOK'
  <2>1. faults' \in Nat /\ ((api' = api /\ lag' = lag) \/ WriteCR(cur, obj, kind))
    BY <1>a, UpdateEffect DEF TypeOK
  <2>2. KubeTypeOK'
    BY <1>a, <2>1, WriteEffect DEF TypeOK, KubeTypeOK
  <2>. QED
    BY <1>a, <2>1, <2>2 DEF TypeOK, BudgetTypeOK
<1>t. ASSUME NEW r \in [CRs -> Specs \cup {NoSpec}], NEW s \in [CRs -> Hashes \cup {NoHash}],
             NEW ok \in BOOLEAN, Transaction(r, s, ok), UNCHANGED userOps
      PROVE  DatabaseTypeOK' /\ BudgetTypeOK'
  BY <1>t, TransactionEffect DEF TypeOK, DatabaseTypeOK, BudgetTypeOK
<1>1. CASE EnsureDB
  <2>1. CASE Goto("get") /\ UNCHANGED <<locals, faults>>
    <3>1. WorkerTypeOK' /\ cur' = cur /\ pc' = "get"
      BY <2>1, GotoEffect DEF TypeOK, WorkerTypeOK, Steps, locals
    <3>2. PassOK'
      BY <1>1, <2>1, <3>1
         DEF EnsureDB, PassOK, NormalSteps, DeletionSteps, TypeOK, WorkerTypeOK, locals
    <3>. QED
      BY <1>1, <2>1, <3>1, <3>2, <1>k, <1>d, <1>b DEF EnsureDB, TypeOK
  <2>2. CASE Fault /\ Fail
    BY <1>1, <2>2, <1>f, <1>k, <1>d, <1>b DEF EnsureDB, Fail, TypeOK
  <2>. QED
    BY <1>1, <2>1, <2>2 DEF EnsureDB
<1>2. CASE GetCR
  <2>1. CASE Finish(FALSE)
    BY <1>2, <2>1, <1>f, <1>k, <1>d, <1>b DEF GetCR, TypeOK, budget
  <2>2. CASE ~Finish(FALSE)
    <3>1. /\ cache[cur] \in Objects
          /\ NextStep(cache[cur]) # "idle"
          /\ Goto(NextStep(cache[cur]))
          /\ snap' = cache[cur]
          /\ fresh' \in BOOLEAN
          /\ UNCHANGED <<changed, trig, found>>
      BY <1>2, <2>2 DEF GetCR, TypeOK, KubeTypeOK
    <3>2. NextStep(cache[cur]) \in Steps \ {"idle"}
      BY <3>1 DEF NextStep, Steps, NormalSteps, DeletionSteps
    <3>3. WorkerTypeOK' /\ cur' = cur /\ pc' = NextStep(cache[cur])
      BY <3>1, <3>2, GotoEffect DEF TypeOK, WorkerTypeOK
    <3>4. PassOK'
      BY <1>2, <3>1, <3>2, <3>3
         DEF GetCR, PassOK, NextStep, NormalSteps, DeletionSteps, TypeOK, WorkerTypeOK
    <3>. QED
      BY <1>2, <3>3, <3>4, <1>k, <1>d, <1>b DEF GetCR, TypeOK, budget
  <2>. QED
    BY <2>1, <2>2
<1>3. CASE AddFinalizer
  BY <1>3, <1>s, <1>a, <1>f, <1>d, ObjectsWritten DEF AddFinalizer, Fail, TypeOK
<1>4. CASE DropFinalizer
  BY <1>4, <1>s, <1>a, <1>f, <1>d, ObjectsWritten DEF DropFinalizer, TypeOK
<1>n. ASSUME NEW step \in Steps,
             \/ pc \in NormalSteps /\ step \in NormalSteps
             \/ pc \in DeletionSteps /\ step \in DeletionSteps,
             Goto(step), UNCHANGED <<snap, fresh>>, changed' \in BOOLEAN, trig' \in TriggerConfigs,
             found' \in BOOLEAN
      PROVE  WorkerTypeOK' /\ PassOK'
  <2>1. step \in Steps \ {"idle"}
    BY <1>n DEF Steps, NormalSteps, DeletionSteps
  <2>2. WorkerTypeOK' /\ pc' = step /\ (pc' = "idle" <=> cur' = NoCR)
    BY <1>n, <2>1, GotoEffect DEF TypeOK, WorkerTypeOK
  <2>. QED
    BY <1>n, <2>2 DEF PassOK, NormalSteps, DeletionSteps
<1>5. CASE Purge
  <2>. PICK ok \in BOOLEAN :
        /\ Transaction([rows EXCEPT ![cur] = NoSpec], [crState EXCEPT ![cur] = NoHash], ok)
        /\ IF ok THEN Goto("dropFinalizer") /\ UNCHANGED locals
                 ELSE Fail
    BY <1>5 DEF Purge
  <2>1. DatabaseTypeOK' /\ BudgetTypeOK'
    BY <1>5, <1>t DEF Purge, TypeOK, DatabaseTypeOK
  <2>2. WorkerTypeOK' /\ PassOK'
    BY <1>5, <1>n, <1>f DEF Purge, Fail, TypeOK, WorkerTypeOK, Steps, DeletionSteps, locals
  <2>. QED
    BY <1>5, <1>k, <2>1, <2>2 DEF Purge, TypeOK
<1>6. CASE HasCRChanged
  <2>. DEFINE hash == CRHash(snap.spec)
  <2>1. PICK ok \in BOOLEAN :
        /\ Transaction(rows, [crState EXCEPT ![cur] = hash], ok)
        /\ IF ok
           THEN /\ changed' = (crState[cur] # hash)
                /\ Goto("decide")
                /\ UNCHANGED <<snap, fresh, trig, found>>
           ELSE Fail
    BY <1>6 DEF HasCRChanged
  <2>2. hash \in Hashes
    BY <1>6, <1>s DEF HasCRChanged, Hashes, Objects
  <2>. HIDE DEF hash
  <2>3. DatabaseTypeOK' /\ BudgetTypeOK'
    BY <1>6, <1>t, <2>1, <2>2 DEF HasCRChanged, TypeOK, DatabaseTypeOK
  <2>4. WorkerTypeOK' /\ PassOK'
    BY <1>6, <1>n, <1>f, <2>1 DEF HasCRChanged, Fail, TypeOK, WorkerTypeOK, Steps, NormalSteps
  <2>. QED
    BY <1>6, <1>k, <2>3, <2>4 DEF HasCRChanged, TypeOK
<1>7. CASE Decide
  <2>1. PICK t \in getReconcileTriggerConfig(operators) \cup {FallbackTrigger} :
        /\ (UNCHANGED faults) \/ Fault
        /\ IF shouldReconcile(t, changed).proceed
           THEN trig' = t /\ Goto("openstack") /\ UNCHANGED <<snap, fresh, changed, found>>
           ELSE Return(shouldReconcile(t, changed).after)
    BY <1>7 DEF Decide
  <2>2. t \in TriggerConfigs
    BY <1>c
  <2>3. WorkerTypeOK' /\ PassOK'
    <3>1. CASE shouldReconcile(t, changed).proceed
      BY <1>7, <1>n, <2>1, <2>2, <3>1 DEF Decide, TypeOK, WorkerTypeOK, Steps, NormalSteps
    <3>2. CASE ~shouldReconcile(t, changed).proceed
      <4>1. Fail
        BY <2>1, <2>2, <3>2, SkipAsksForAnother, ReturnEffect DEF TypeOK, WorkerTypeOK
      <4>. QED
        BY <1>f, <4>1 DEF Fail
    <3>. QED
      BY <3>1, <3>2
  <2>. QED
    BY <1>7, <1>k, <1>d, <1>b, <2>1, <2>3 DEF Decide, TypeOK
<1>8. CASE QueryOpenStack
  <2>1. WorkerTypeOK' /\ PassOK'
    BY <1>8, <1>n DEF QueryOpenStack, AfterQuery, TypeOK, WorkerTypeOK, Steps, NormalSteps,
                    locals
  <2>. QED
    BY <1>8, <1>k, <1>d, <1>b, <2>1 DEF QueryOpenStack, TypeOK, budget
<1>next. getNextReconcileInterval(trig) \in Int /\ getNextReconcileInterval(trig) >= Minute
  BY NextIntervalPositive DEF TypeOK, WorkerTypeOK
<1>9. CASE OpenStackFails \/ NoTargetVMs
  <2>1. /\ TryErrorStatus /\ ((UNCHANGED faults) \/ Fault)
        /\ UNCHANGED <<cache, operators, openstack, userOps>> /\ UNCHANGED db
        /\ snap \in Objects
    BY <1>9, <1>s DEF OpenStackFails, NoTargetVMs
  <2>2. Fail
    BY <1>9, <1>next, ReturnEffect DEF OpenStackFails, NoTargetVMs
  <2>3. KubeTypeOK'
    <3>1. CASE KeepCRs
      BY <2>1, <3>1 DEF KeepCRs, TypeOK, KubeTypeOK
    <3>2. CASE WriteCR(cur, [snap EXCEPT !.status = "Error"], "meta")
      BY <2>1, <3>2, WriteEffect, ObjectsWritten DEF TypeOK, KubeTypeOK
    <3>. QED
      BY <2>1, <3>1, <3>2 DEF TryErrorStatus
  <2>. QED
    BY <1>f, <1>d, <1>b, <2>1, <2>2, <2>3 DEF Fail, TypeOK
<1>10. CASE SubnetNotFound
  BY <1>10, <1>f, <1>k, <1>d, <1>b DEF SubnetNotFound, Fail, TypeOK, budget
<1>12. CASE FindPorts
  <2>1. WorkerTypeOK' /\ PassOK'
    BY <1>12, <1>n DEF FindPorts, TypeOK, WorkerTypeOK, Steps, NormalSteps
  <2>2. (UNCHANGED faults) \/ Fault
    BY <1>12 DEF FindPorts
  <2>. QED
    BY <1>12, <1>k, <1>d, <1>b, <2>1, <2>2 DEF FindPorts, TypeOK
<1>13. CASE CommitRows
  <2>1. PICK ok \in BOOLEAN :
        /\ Transaction([rows EXCEPT ![cur] = RowsOf(snap.spec, found)], crState, ok)
        /\ IF ok THEN Goto("status") /\ UNCHANGED locals
                 ELSE Fail
    BY <1>13 DEF CommitRows
  <2>2. RowsOf(snap.spec, found) \in Specs \cup {NoSpec}
    BY <1>13, <1>s DEF CommitRows, Objects, RowsOf
  <2>3. DatabaseTypeOK' /\ BudgetTypeOK'
    BY <1>13, <1>t, <2>1, <2>2 DEF CommitRows, TypeOK, DatabaseTypeOK
  <2>4. WorkerTypeOK' /\ PassOK'
    BY <1>13, <1>n, <1>f, <2>1 DEF CommitRows, Fail, TypeOK, WorkerTypeOK, Steps, NormalSteps,
                                  locals
  <2>. QED
    BY <1>13, <1>k, <2>3, <2>4 DEF CommitRows, TypeOK
<1>11. CASE PublishStatus
  <2>1. PICK ok \in BOOLEAN :
        /\ UpdateCR(Completed(snap, found), "meta", ok)
        /\ IF ok THEN Return(getNextReconcileInterval(trig)) ELSE Fail
    BY <1>11 DEF PublishStatus
  <2>2. Fail
    BY <1>next, <2>1, ReturnEffect
  <2>3. KubeTypeOK' /\ BudgetTypeOK'
    BY <1>11, <1>s, <1>a, <2>1, ObjectsWritten DEF PublishStatus, TypeOK, WorkerTypeOK
  <2>. QED
    BY <1>11, <1>f, <1>d, <2>2, <2>3 DEF PublishStatus, Fail, TypeOK
<1>. QED
  BY <1>1, <1>2, <1>3, <1>4, <1>5, <1>6, <1>7, <1>8, <1>9, <1>10, <1>11, <1>12, <1>13
     DEF WorkerStep

LEMMA CrashTypes ==
    ASSUME TypeOK, Crash
    PROVE  TypeOK' /\ PassOK'
<1>1. WorkerTypeOK' /\ PassOK'
  BY ConfigsWellFormed
     DEF Crash, EndPass, TypeOK, KubeTypeOK, WorkerTypeOK, PassOK, Steps, NormalSteps, DeletionSteps
<1>. QED
  BY <1>1, FaultEffect DEF Crash, TypeOK, KubeTypeOK, DatabaseTypeOK, BudgetTypeOK, db

LEMMA TypeStep ==
    ASSUME TypeOK, PassOK, [Next]_vars
    PROVE  TypeOK' /\ PassOK'
<1>1. CASE UNCHANGED vars
  BY <1>1
     DEF vars, kube, pass, locals, db, budget, TypeOK, KubeTypeOK, WorkerTypeOK, DatabaseTypeOK,
         BudgetTypeOK, PassOK
<1>. QED
  BY <1>1, UserTypes, QueueTypes, WorkerTypes, CrashTypes DEF Next

\* Every variable keeps its type: the worker never holds an object it did not
\* read, and no step queues, stores or publishes anything else.
THEOREM TypeCorrect == Spec => []TypeOK
<1>1. Init => TypeOK /\ PassOK
  BY TypeInit DEF Init, PassOK, NormalSteps, DeletionSteps
<1>2. TypeOK /\ PassOK /\ [Next]_vars => (TypeOK /\ PassOK)'
  BY TypeStep
<1>. QED
  BY <1>1, <1>2, PTL DEF Spec

-----------------------------------------------------------------------------
(* The API server and the cache. *)

KubeInv == CacheOK /\ CacheLiveHeld /\ CacheDeletionHeld /\ TerminatingHeld

\* A write that keeps the object: the finalizer stays, a deletion is not
\* undone, and a finalizer is added only to an object that the cache has.
Keeps(c, obj) ==
    /\ Exists(c)
    /\ obj \in Objects
    /\ api[c].fin => obj.fin
    /\ api[c].del => obj.del
    /\ obj.del => obj.fin
    /\ obj.fin /\ ~api[c].fin => cache[c] = api[c] /\ ~api[c].del /\ ~obj.del

\* A write that ends or begins an object: nothing held the old one, or the
\* cache has its deletion.
Replaces(c, obj) ==
    /\ ~Held(c) \/ (cache[c] = api[c] /\ api[c].del)
    /\ \/ obj = NoObj
       \/ obj \in Objects /\ ~obj.fin /\ ~obj.del /\ obj.infos = NoSpec

LEMMA WriteKeepsKubeInv ==
    ASSUME TypeOK, KubeInv, NEW c \in CRs, NEW obj \in Objects \cup {NoObj},
           NEW kind \in {"meta", "spec"}, WriteCR(c, obj, kind), cache' = cache,
           Keeps(c, obj) \/ (Replaces(c, obj) /\ kind = "spec")
    PROVE  KubeInv'
<1>. USE ConstantsAssumption
<1>w. /\ api'[c] = obj
      /\ lag'[c] \in {"meta", "spec"}
      /\ lag[c] = "spec" \/ kind = "spec" => lag'[c] = "spec"
      /\ \A d \in CRs \ {c} : api'[d] = api[d] /\ lag'[d] = lag[d]
  BY WriteEffect DEF TypeOK
<1>. SUFFICES ASSUME NEW d \in CRs
              PROVE  /\ lag'[d] = "none" => cache[d] = api'[d]
                     /\ lag'[d] # "spec" => (Exists(d)' <=> cache[d] # NoObj)
                     /\ Live(cache[d]) => Held(d)'
                     /\ cache[d] # NoObj /\ cache[d].del /\ Held(d)' => api'[d].del
                     /\ Terminating(d)' => api'[d].fin
                     /\ cache[d] # NoObj /\ cache[d].del => cache[d].fin
  BY DEF KubeInv, CacheOK, CacheLiveHeld, CacheDeletionHeld, TerminatingHeld
<1>1. CASE d # c
  BY <1>1, <1>w
     DEF KubeInv, CacheOK, CacheLiveHeld, CacheDeletionHeld, TerminatingHeld,
         Held, Exists, Terminating
<1>2. CASE d = c /\ Keeps(c, obj)
  BY <1>2, <1>w
     DEF KubeInv, CacheOK, CacheLiveHeld, CacheDeletionHeld, TerminatingHeld,
         Held, Exists, Terminating, Live, Keeps
<1>3. CASE d = c /\ Replaces(c, obj) /\ kind = "spec"
  BY <1>3, <1>w
     DEF KubeInv, CacheOK, CacheLiveHeld, CacheDeletionHeld, TerminatingHeld,
         Held, Exists, Terminating, Live, Replaces
<1>. QED
  BY <1>1, <1>2, <1>3

LEMMA SameKubeInv ==
    ASSUME KubeInv, UNCHANGED <<api, cache, lag>>
    PROVE  KubeInv'
BY DEF KubeInv, CacheOK, CacheLiveHeld, CacheDeletionHeld, TerminatingHeld,
       Held, Exists, Terminating

\* The cache catches up, with one CR or with all.
LEMMA CatchUpKubeInv ==
    ASSUME TypeOK, KubeInv, NEW S \in SUBSET CRs, api' = api,
           cache' = [c \in CRs |-> IF c \in S THEN api[c] ELSE cache[c]],
           lag' = [c \in CRs |-> IF c \in S THEN "none" ELSE lag[c]]
    PROVE  KubeInv'
BY DEF KubeInv, CacheOK, CacheLiveHeld, CacheDeletionHeld, TerminatingHeld,
       Held, Exists, Terminating, Live

-----------------------------------------------------------------------------
(* Users. *)

\* What users can do to a CR: they leave the finalizer and the published VMs
\* alone, unless nothing holds the CR.
UserKeeps(c, obj) ==
    /\ Keeps(c, obj)
    /\ obj.fin = api[c].fin
    /\ obj.infos = api[c].infos

UserReplaces(c, obj, kind) ==
    /\ Replaces(c, obj)
    /\ ~Held(c)
    /\ kind = "spec"

LEMMA UserCases ==
    ASSUME TypeOK, KubeInv, UserStep
    PROVE  \/ SetOperators \/ ChangeOpenStack
           \/ \E c \in CRs, obj \in Objects \cup {NoObj}, kind \in {"meta", "spec"} :
                /\ UserWrite(c, obj, kind)
                /\ UserKeeps(c, obj) \/ UserReplaces(c, obj, kind)
<1>1. ASSUME NEW c \in CRs, Exists(c)
      PROVE  /\ api[c] \in Objects
             /\ api[c].del => api[c].fin
  BY <1>1
     DEF Exists, TypeOK, KubeTypeOK, KubeInv, TerminatingHeld, Terminating
<1>2. ASSUME NEW c \in CRs, CreateCR(c)
      PROVE  \E s \in Specs : UserWrite(c, NewCR(s), "spec") /\ UserReplaces(c, NewCR(s), "spec")
  BY <1>2, ObjectsWritten DEF CreateCR, UserReplaces, Replaces, Held, Exists, NewCR
<1>3. ASSUME NEW c \in CRs, EditSpec(c)
      PROVE  \E s \in Specs :
               LET obj == [api[c] EXCEPT !.spec = s]
               IN  obj \in Objects /\ UserWrite(c, obj, "spec") /\ UserKeeps(c, obj)
  BY <1>1, <1>3, ObjectsWritten DEF EditSpec, UserKeeps, Keeps, Objects
<1>4. ASSUME NEW c \in CRs, Touch(c)
      PROVE  UserWrite(c, api[c], "meta") /\ UserKeeps(c, api[c]) /\ api[c] \in Objects
  BY <1>1, <1>4 DEF Touch, UserKeeps, Keeps
<1>5. ASSUME NEW c \in CRs, DeleteCR(c)
      PROVE  \E obj \in Objects \cup {NoObj} :
               UserWrite(c, obj, "spec") /\ (UserKeeps(c, obj) \/ UserReplaces(c, obj, "spec"))
  <2>1. CASE api[c].fin
    <3>. DEFINE obj == [api[c] EXCEPT !.del = TRUE]
    <3>1. UserWrite(c, obj, "spec")
      BY <1>5, <2>1 DEF DeleteCR
    <3>2. obj \in Objects /\ UserKeeps(c, obj)
      BY <1>1, <1>5, <2>1, ObjectsWritten DEF DeleteCR, UserKeeps, Keeps, Objects
    <3>. QED
      BY <3>1, <3>2
  <2>2. CASE ~api[c].fin
    BY <1>5, <2>2 DEF DeleteCR, UserReplaces, Replaces, Held
  <2>. QED
    BY <2>1, <2>2
<1>6. CASE \E c \in CRs : CreateCR(c)
  BY <1>2, <1>6, ObjectsWritten
<1>7. CASE \E c \in CRs : EditSpec(c)
  BY <1>3, <1>7
<1>8. CASE \E c \in CRs : Touch(c)
  BY <1>4, <1>8
<1>9. CASE \E c \in CRs : DeleteCR(c)
  BY <1>5, <1>9
<1>. QED
  BY <1>6, <1>7, <1>8, <1>9 DEF UserStep

LEMMA UserInv ==
    ASSUME InductiveInvariant, UserStep
    PROVE  InductiveInvariant'
<1>. TypeOK /\ PassOK /\ KubeInv /\ cur \in CRs \cup {NoCR}
  BY DEF InductiveInvariant, KubeInv, TypeOK, WorkerTypeOK
<1>t. TypeOK' /\ PassOK'
  BY UserTypes
<1>1. CASE SetOperators \/ ChangeOpenStack
  <2>1. UNCHANGED <<api, cache, lag, queue, delayed, pass, db>>
    BY <1>1 DEF SetOperators, ChangeOpenStack, kube
  <2>2. KubeInv'
    BY <2>1, SameKubeInv
  <2>. QED
    BY <1>t, <2>1, <2>2
       DEF InductiveInvariant, KubeInv, FreshOK, PassHeld, PassRows, NoOrphanRows,
           NeverForgotten, Held, Exists, pass, locals, db
<1>2. ASSUME NEW c \in CRs, NEW obj \in Objects \cup {NoObj}, NEW kind \in {"meta", "spec"},
             UserWrite(c, obj, kind), UserKeeps(c, obj) \/ UserReplaces(c, obj, kind)
      PROVE  InductiveInvariant'
  <2>1. /\ WriteCR(c, obj, kind)
        /\ fresh' = (fresh /\ c # cur)
        /\ UNCHANGED <<cache, queue, delayed, pc, cur, snap, found, db>>
    BY <1>2 DEF UserWrite
  <2>w. /\ api'[c] = obj
        /\ lag'[c] \in {"meta", "spec"}
        /\ lag[c] = "spec" \/ kind = "spec" => lag'[c] = "spec"
        /\ \A d \in CRs \ {c} : api'[d] = api[d] /\ lag'[d] = lag[d]
    BY <2>1, WriteEffect DEF TypeOK
  <2>2. KubeInv'
    BY <1>2, <2>1, WriteKeepsKubeInv DEF UserKeeps, UserReplaces
  <2>3. FreshOK' /\ PassRows'
    BY <2>1, <2>w, ConstantsAssumption DEF InductiveInvariant, FreshOK, PassOK, PassRows, db
  <2>4. PassHeld'
    BY <1>2, <2>1, <2>w, ConstantsAssumption
       DEF InductiveInvariant, PassHeld, PassOK, UserKeeps, UserReplaces, Keeps, Replaces, Held,
           Exists, NormalSteps, DeletionSteps
  <2>5. NoOrphanRows'
    BY <1>2, <2>1, <2>w, ConstantsAssumption
       DEF InductiveInvariant, NoOrphanRows, UserKeeps, UserReplaces, Keeps,
           Replaces, Held, Exists, db
  <2>6. NeverForgotten'
    BY <1>2, <2>1, <2>w
       DEF InductiveInvariant, NeverForgotten, UserKeeps, UserReplaces, Keeps, Exists
  <2>. QED
    BY <1>t, <2>2, <2>3, <2>4, <2>5, <2>6 DEF InductiveInvariant, KubeInv
<1>. QED
  BY <1>1, <1>2, UserCases

-----------------------------------------------------------------------------
(* The work queue and restarts. *)

LEMMA QueueInv ==
    ASSUME InductiveInvariant, NEW c \in CRs, Watch(c) \/ Timer(c) \/ Begin(c)
    PROVE  InductiveInvariant'
<1>. TypeOK /\ PassOK /\ KubeInv /\ cur \in CRs \cup {NoCR}
  BY DEF InductiveInvariant, KubeInv, TypeOK, WorkerTypeOK
<1>t. TypeOK' /\ PassOK'
  BY QueueTypes
<1>1. CASE Watch(c)
  <2>1. /\ cache' = [cache EXCEPT ![c] = api[c]]
        /\ lag' = [lag EXCEPT ![c] = "none"]
        /\ UNCHANGED <<api, delayed, pass, db>>
        /\ queue' = queue \/ queue' = queue \cup {c}
        /\ lag[c] = "spec" => queue' = queue \cup {c}
    BY <1>1 DEF Watch, FilterAnswers
  <2>2. KubeInv'
    <3>1. /\ cache' = [d \in CRs |-> IF d \in {c} THEN api[d] ELSE cache[d]]
          /\ lag' = [d \in CRs |-> IF d \in {c} THEN "none" ELSE lag[d]]
      BY <2>1 DEF TypeOK, KubeTypeOK
    <3>. QED
      BY <2>1, <3>1, CatchUpKubeInv
  <2>3. FreshOK' /\ PassHeld' /\ PassRows'
    BY <2>1
       DEF InductiveInvariant, FreshOK, PassHeld, PassRows, TypeOK, KubeTypeOK, Held, Exists,
           pass, locals, db
  <2>4. NoOrphanRows'
    BY <2>1 DEF InductiveInvariant, NoOrphanRows, Exists, db
  <2>5. NeverForgotten'
    BY <2>1 DEF InductiveInvariant, NeverForgotten, Exists, TypeOK, KubeTypeOK, pass, locals
  <2>. QED
    BY <1>t, <2>2, <2>3, <2>4, <2>5 DEF InductiveInvariant, KubeInv
<1>2. CASE Timer(c) \/ Begin(c)
  <2>1. /\ UNCHANGED <<api, cache, lag, snap, fresh, found, crState, rows>>
        /\ \/ UNCHANGED <<pc, cur>> /\ queue \cup delayed \subseteq queue' \cup delayed'
           \/ /\ pc = "idle" /\ pc' = "ensureDB" /\ cur' = c
              /\ queue \cup delayed \subseteq queue' \cup delayed' \cup {c}
    BY <1>2 DEF Timer, Begin, kube, pass, locals, db
  <2>2. KubeInv'
    BY <2>1, SameKubeInv
  <2>3. FreshOK' /\ PassHeld' /\ PassRows'
    BY <2>1
       DEF InductiveInvariant, FreshOK, PassOK, PassHeld, PassRows, Held, Exists, NormalSteps,
           DeletionSteps
  <2>4. NoOrphanRows'
    BY <2>1 DEF InductiveInvariant, NoOrphanRows, Exists
  <2>5. NeverForgotten'
    BY <2>1, ConstantsAssumption DEF InductiveInvariant, NeverForgotten, PassOK, Exists
  <2>. QED
    BY <1>t, <2>2, <2>3, <2>4, <2>5 DEF InductiveInvariant, KubeInv
<1>. QED
  BY <1>1, <1>2

LEMMA CrashInv ==
    ASSUME InductiveInvariant, Crash
    PROVE  InductiveInvariant'
<1>. TypeOK /\ KubeInv
  BY DEF InductiveInvariant, KubeInv
<1>t. TypeOK' /\ PassOK'
  BY CrashTypes
<1>1. /\ cache' = api
      /\ lag' = [c \in CRs |-> "none"]
      /\ queue' = {c \in CRs : Exists(c)}
      /\ pc' = "idle"
      /\ fresh' = FALSE
      /\ UNCHANGED <<api, rows, crState>>
  BY DEF Crash, EndPass, db
<1>2. KubeInv'
  <2>1. /\ cache' = [d \in CRs |-> IF d \in CRs THEN api[d] ELSE cache[d]]
        /\ lag' = [d \in CRs |-> IF d \in CRs THEN "none" ELSE lag[d]]
    BY <1>1 DEF TypeOK, KubeTypeOK
  <2>. QED
    BY <1>1, <2>1, CatchUpKubeInv
<1>3. FreshOK' /\ PassHeld' /\ PassRows'
  BY <1>1 DEF FreshOK, PassHeld, PassRows, NormalSteps, DeletionSteps
<1>4. NoOrphanRows' /\ NeverForgotten'
  BY <1>1 DEF InductiveInvariant, NoOrphanRows, NeverForgotten, Exists
<1>. QED
  BY <1>t, <1>2, <1>3, <1>4 DEF InductiveInvariant, KubeInv

-----------------------------------------------------------------------------
(* The worker. *)

\* A step that leaves the API server alone and ends the pass with an error,
\* or a delay: only the rows are left to argue about.
LEMMA EndedPass ==
    ASSUME InductiveInvariant, cur \in CRs, UNCHANGED <<cache, operators, userOps>>,
           KubeInv', TypeOK', NoOrphanRows', Fail,
           \A c \in CRs \ {cur} : api'[c] = api[c] /\ lag'[c] = lag[c]
    PROVE  InductiveInvariant'
<1>1. /\ PassOK' /\ pc' = "idle" /\ cur' = NoCR /\ ~fresh'
      /\ queue' = queue /\ delayed \subseteq delayed' /\ cur \in delayed'
  BY FinishEffect DEF Fail, InductiveInvariant
<1>2. FreshOK' /\ PassHeld' /\ PassRows'
  BY <1>1 DEF FreshOK, PassHeld, PassRows, NormalSteps, DeletionSteps
<1>3. NeverForgotten'
  BY <1>1 DEF InductiveInvariant, NeverForgotten, Exists
<1>. QED
  BY <1>1, <1>2, <1>3 DEF InductiveInvariant, KubeInv

\* A step that goes on with the pass and leaves the API server and the
\* database alone.
LEMMA ContinuedPass ==
    ASSUME InductiveInvariant, cur \in CRs, UNCHANGED <<kube, rows, snap, fresh>>, TypeOK', PassOK',
           UNCHANGED <<queue, delayed, cur>>, NoOrphanRows', PassRows',
           \/ pc \in NormalSteps /\ pc' \in NormalSteps
           \/ pc \in DeletionSteps /\ pc' \in DeletionSteps
    PROVE  InductiveInvariant'
<1>1. UNCHANGED <<api, cache, lag>>
  BY DEF kube
<1>2. KubeInv'
  BY <1>1, SameKubeInv DEF InductiveInvariant, KubeInv
<1>3. FreshOK' /\ PassHeld'
  BY <1>1
     DEF InductiveInvariant, FreshOK, PassHeld, Held, Exists, NormalSteps, DeletionSteps
<1>4. NeverForgotten'
  BY <1>1 DEF InductiveInvariant, NeverForgotten, Exists
<1>. QED
  BY <1>2, <1>3, <1>4 DEF InductiveInvariant, KubeInv

LEMMA EnsureDBInv ==
    ASSUME InductiveInvariant, EnsureDB, TypeOK', PassOK', cur \in CRs
    PROVE  InductiveInvariant'
<1>1. UNCHANGED <<api, cache, lag, operators, rows, crState, userOps>> /\ KubeInv'
  BY SameKubeInv DEF EnsureDB, kube, db, InductiveInvariant, KubeInv
<1>2. NoOrphanRows'
  BY <1>1 DEF InductiveInvariant, NoOrphanRows, Exists
<1>3. CASE Fail
  BY <1>1, <1>2, <1>3, EndedPass
<1>4. CASE Goto("get") /\ UNCHANGED <<locals, faults>>
  <2>1. FreshOK' /\ PassHeld' /\ PassRows' /\ NeverForgotten'
    BY <1>1, <1>4
       DEF Goto, InductiveInvariant, FreshOK, PassHeld, PassRows, NeverForgotten, Exists,
           NormalSteps, DeletionSteps, locals
  <2>. QED
    BY <1>1, <1>2, <2>1 DEF InductiveInvariant, KubeInv
<1>. QED
  BY <1>3, <1>4 DEF EnsureDB

LEMMA GetCRInv ==
    ASSUME InductiveInvariant, GetCR, TypeOK', PassOK', cur \in CRs
    PROVE  InductiveInvariant'
<1>1. UNCHANGED <<api, cache, lag, operators, rows, crState>> /\ KubeInv'
  BY SameKubeInv DEF GetCR, kube, db, InductiveInvariant, KubeInv
<1>2. NoOrphanRows'
  BY <1>1 DEF InductiveInvariant, NoOrphanRows, Exists
<1>3. CASE cache[cur] = NoObj \/ NextStep(cache[cur]) = "idle"
  <2>1. Finish(FALSE)
    BY <1>3 DEF GetCR
  <2>2. /\ pc' = "idle" /\ ~fresh' /\ queue' = queue /\ delayed \subseteq delayed'
    BY <2>1, FinishEffect DEF InductiveInvariant
  <2>3. FreshOK' /\ PassHeld' /\ PassRows'
    BY <2>2 DEF FreshOK, PassHeld, PassRows, NormalSteps, DeletionSteps
  <2>4. Exists(cur) => lag[cur] = "spec"
    <3>1. cache[cur] = NoObj
      BY <1>3 DEF NextStep, InductiveInvariant, TerminatingHeld
    <3>. QED
      BY <3>1 DEF InductiveInvariant, CacheOK
  <2>5. NeverForgotten'
    BY <1>1, <2>2, <2>4 DEF InductiveInvariant, NeverForgotten, Exists
  <2>. QED
    BY <1>1, <1>2, <2>3, <2>5 DEF InductiveInvariant, KubeInv
<1>4. CASE ~(cache[cur] = NoObj \/ NextStep(cache[cur]) = "idle")
  <2>1. /\ cache[cur] # NoObj
        /\ pc' = NextStep(cache[cur])
        /\ UNCHANGED <<queue, delayed, cur>>
        /\ snap' = cache[cur]
        /\ fresh' = (lag[cur] = "none")
    BY <1>4 DEF GetCR, Goto
  <2>2. FreshOK'
    BY <1>1, <2>1 DEF FreshOK, InductiveInvariant, CacheOK
  <2>3. PassRows'
    BY <2>1 DEF NextStep, PassRows
  <2>4. PassHeld'
    BY <1>1, <2>1
       DEF NextStep, PassHeld, Held, Exists, InductiveInvariant, CacheLiveHeld,
           CacheDeletionHeld, Live, NormalSteps, DeletionSteps
  <2>5. NeverForgotten'
    BY <1>1, <2>1 DEF InductiveInvariant, NeverForgotten, Exists
  <2>. QED
    BY <1>1, <1>2, <2>2, <2>3, <2>4, <2>5 DEF InductiveInvariant, KubeInv
<1>. QED
  BY <1>3, <1>4

\* The worker's updates of the API server, successful or not, end the pass.
LEMMA UpdateInv ==
    ASSUME InductiveInvariant, TypeOK', PassOK', cur \in CRs, NEW obj \in Objects \cup {NoObj},
           UNCHANGED <<cache, operators, db, userOps>>, Fail,
           \/ UNCHANGED <<api, lag>>
           \/ /\ WriteCR(cur, obj, "meta")
              /\ Keeps(cur, obj)
              /\ obj.del = api[cur].del
    PROVE  InductiveInvariant'
<1>1. CASE UNCHANGED <<api, lag>>
  <2>1. KubeInv'
    BY <1>1, SameKubeInv DEF InductiveInvariant, KubeInv
  <2>2. NoOrphanRows'
    BY <1>1 DEF InductiveInvariant, NoOrphanRows, Exists, db
  <2>. QED
    BY <1>1, <2>1, <2>2, EndedPass
<1>2. CASE /\ WriteCR(cur, obj, "meta")
           /\ Keeps(cur, obj)
           /\ obj.del = api[cur].del
  <2>w. /\ api'[cur] = obj
        /\ \A d \in CRs \ {cur} : api'[d] = api[d] /\ lag'[d] = lag[d]
    BY <1>2, WriteEffect DEF InductiveInvariant, TypeOK
  <2>1. KubeInv'
    BY <1>2, WriteKeepsKubeInv DEF InductiveInvariant, KubeInv
  <2>2. NoOrphanRows'
    BY <1>2, <2>w, ConstantsAssumption
       DEF InductiveInvariant, NoOrphanRows, Exists, Keeps, db
  <2>. QED
    BY <2>w, <2>1, <2>2, EndedPass
<1>. QED
  BY <1>1, <1>2

LEMMA AddFinalizerInv ==
    ASSUME InductiveInvariant, AddFinalizer, TypeOK', PassOK', cur \in CRs
    PROVE  InductiveInvariant'
<1>. DEFINE obj == [snap EXCEPT !.fin = TRUE]
<1>1. PICK ok \in BOOLEAN : UpdateCR(obj, "meta", ok)
  BY DEF AddFinalizer
<1>2. snap \in Objects /\ ~snap.fin /\ ~snap.del /\ obj \in Objects
  BY ObjectsWritten DEF AddFinalizer, InductiveInvariant, PassOK
<1>3. ASSUME fresh
      PROVE  /\ Keeps(cur, obj) /\ obj.del = api[cur].del
  BY <1>2, <1>3, ConstantsAssumption
     DEF InductiveInvariant, FreshOK, Keeps, Exists, Objects
<1>. HIDE DEF obj
<1>4. (api' = api /\ lag' = lag) \/ (fresh /\ WriteCR(cur, obj, "meta"))
  BY <1>1, UpdateEffect DEF InductiveInvariant, TypeOK
<1>. QED
  BY <1>2, <1>3, <1>4, UpdateInv DEF AddFinalizer

LEMMA OpenStackProblemInv ==
    ASSUME InductiveInvariant, OpenStackFails \/ NoTargetVMs, TypeOK', PassOK', cur \in CRs
    PROVE  InductiveInvariant'
<1>. DEFINE obj == [snap EXCEPT !.status = "Error"]
<1>1. TryErrorStatus /\ UNCHANGED <<cache, operators, db, userOps>>
  BY DEF OpenStackFails, NoTargetVMs
<1>2. snap \in Objects /\ snap.fin /\ ~snap.del /\ obj \in Objects
  BY ObjectsWritten DEF OpenStackFails, NoTargetVMs, InductiveInvariant, PassOK, NormalSteps
<1>3. ASSUME fresh
      PROVE  /\ Keeps(cur, obj) /\ obj.del = api[cur].del
  BY <1>2, <1>3, ConstantsAssumption
     DEF InductiveInvariant, FreshOK, Keeps, Exists, Objects
<1>4. (api' = api /\ lag' = lag) \/ (fresh /\ WriteCR(cur, obj, "meta"))
  BY <1>1 DEF TryErrorStatus, KeepCRs
<1>5. Fail
  BY NextIntervalPositive, ReturnEffect
     DEF OpenStackFails, NoTargetVMs, InductiveInvariant, TypeOK, WorkerTypeOK
<1>. HIDE DEF obj
<1>. QED
  BY <1>1, <1>2, <1>3, <1>4, <1>5, UpdateInv

LEMMA PublishStatusInv ==
    ASSUME InductiveInvariant, PublishStatus, TypeOK', PassOK', cur \in CRs
    PROVE  InductiveInvariant'
<1>. DEFINE obj == Completed(snap, found)
<1>1. PICK ok \in BOOLEAN :
        /\ UpdateCR(obj, "meta", ok)
        /\ IF ok THEN Return(getNextReconcileInterval(trig)) ELSE Fail
  BY DEF PublishStatus
<1>2. snap \in Objects /\ snap.fin /\ ~snap.del /\ obj \in Objects
  <2>1. snap \in Objects /\ snap.fin /\ ~snap.del /\ found \in BOOLEAN
    BY DEF PublishStatus, InductiveInvariant, PassOK, NormalSteps, TypeOK, WorkerTypeOK
  <2>. QED
    BY <2>1, ObjectsWritten
<1>3. ASSUME fresh
      PROVE  /\ Keeps(cur, obj) /\ obj.del = api[cur].del
  BY <1>2, <1>3, ConstantsAssumption
     DEF InductiveInvariant, FreshOK, Keeps, Exists, Objects, Completed
<1>4. Fail
  BY <1>1, NextIntervalPositive, ReturnEffect DEF InductiveInvariant, TypeOK, WorkerTypeOK
<1>. HIDE DEF obj
<1>5. (api' = api /\ lag' = lag) \/ (fresh /\ WriteCR(cur, obj, "meta"))
  BY <1>1, UpdateEffect DEF InductiveInvariant, TypeOK
<1>. QED
  BY <1>2, <1>3, <1>4, <1>5, UpdateInv DEF PublishStatus

LEMMA DropFinalizerInv ==
    ASSUME InductiveInvariant, DropFinalizer, TypeOK', PassOK', cur \in CRs
    PROVE  InductiveInvariant'
<1>1. PICK ok \in BOOLEAN : UpdateCR(WithoutFinalizer(snap), "spec", ok) /\ Finish(~ok)
  BY DEF DropFinalizer
<1>2. snap \in Objects /\ snap.del /\ WithoutFinalizer(snap) = NoObj
  BY DEF DropFinalizer, InductiveInvariant, PassOK, DeletionSteps, WithoutFinalizer
<1>3. UNCHANGED <<cache, operators, rows, crState, userOps>>
  BY DEF DropFinalizer, db
<1>4. rows[cur] = NoSpec /\ crState[cur] = NoHash
  BY DEF DropFinalizer, InductiveInvariant, PassRows
<1>5. CASE ~ok /\ api' = api /\ lag' = lag
  <2>1. KubeInv'
    BY <1>3, <1>5, SameKubeInv DEF InductiveInvariant, KubeInv
  <2>2. NoOrphanRows'
    BY <1>3, <1>5 DEF InductiveInvariant, NoOrphanRows, Exists
  <2>3. Fail
    BY <1>1, <1>5 DEF Fail, Finish, EndPass
  <2>. QED
    BY <1>3, <1>5, <2>1, <2>2, <2>3, EndedPass
<1>6. CASE fresh /\ WriteCR(cur, NoObj, "spec")
  <2>w. /\ api'[cur] = NoObj
        /\ \A d \in CRs \ {cur} : api'[d] = api[d] /\ lag'[d] = lag[d]
    BY <1>6, WriteEffect DEF InductiveInvariant, TypeOK
  <2>1. KubeInv'
    <3>1. Replaces(cur, NoObj)
      BY <1>2, <1>6 DEF Replaces, InductiveInvariant, FreshOK
    <3>. QED
      BY <1>3, <1>6, <3>1, WriteKeepsKubeInv DEF InductiveInvariant, KubeInv
  <2>2. NoOrphanRows'
    BY <1>3, <1>4, <2>w DEF InductiveInvariant, NoOrphanRows, Exists
  <2>3. /\ pc' = "idle" /\ ~fresh' /\ queue' = queue /\ delayed \subseteq delayed'
    BY <1>1, FinishEffect DEF InductiveInvariant
  <2>4. FreshOK' /\ PassHeld' /\ PassRows'
    BY <2>3 DEF FreshOK, PassHeld, PassRows, NormalSteps, DeletionSteps
  <2>5. NeverForgotten'
    BY <2>w, <2>3 DEF InductiveInvariant, NeverForgotten, Exists
  <2>. QED
    BY <2>1, <2>2, <2>4, <2>5 DEF InductiveInvariant, KubeInv
<1>. QED
  BY <1>1, <1>2, <1>5, <1>6, UpdateEffect DEF InductiveInvariant, TypeOK

\* Transactions: they leave the API server alone.
LEMMA PurgeInv ==
    ASSUME InductiveInvariant, Purge, TypeOK', PassOK', cur \in CRs
    PROVE  InductiveInvariant'
<1>1. PICK ok \in BOOLEAN :
        /\ Transaction([rows EXCEPT ![cur] = NoSpec], [crState EXCEPT ![cur] = NoHash], ok)
        /\ IF ok THEN Goto("dropFinalizer") /\ UNCHANGED locals
                 ELSE Fail
  BY DEF Purge
<1>2. \/ ~ok /\ rows' = rows /\ crState' = crState
      \/ rows' = [rows EXCEPT ![cur] = NoSpec] /\ crState' = [crState EXCEPT ![cur] = NoHash]
  BY <1>1, TransactionEffect DEF InductiveInvariant, TypeOK
<1>3. UNCHANGED <<api, cache, lag, operators, userOps>> /\ KubeInv'
  BY SameKubeInv DEF Purge, kube, InductiveInvariant, KubeInv
<1>4. NoOrphanRows'
  BY <1>2, <1>3 DEF InductiveInvariant, NoOrphanRows, Exists, TypeOK, DatabaseTypeOK
<1>5. CASE ok
  <2>1. /\ UNCHANGED <<queue, delayed, cur, snap, fresh>>
        /\ pc' = "dropFinalizer" /\ pc = "purge"
        /\ rows'[cur] = NoSpec /\ crState'[cur] = NoHash
    BY <1>1, <1>2, <1>5 DEF Goto, Purge, InductiveInvariant, TypeOK, DatabaseTypeOK, locals
  <2>2. FreshOK' /\ PassHeld' /\ PassRows' /\ NeverForgotten'
    BY <1>3, <2>1
       DEF InductiveInvariant, FreshOK, PassHeld, PassRows, NeverForgotten, Held, Exists,
           NormalSteps, DeletionSteps
  <2>. QED
    BY <1>3, <1>4, <2>2 DEF InductiveInvariant, KubeInv
<1>6. CASE ~ok
  BY <1>1, <1>3, <1>4, <1>6, EndedPass
<1>. QED
  BY <1>5, <1>6

LEMMA HasCRChangedInv ==
    ASSUME InductiveInvariant, HasCRChanged, TypeOK', PassOK', cur \in CRs
    PROVE  InductiveInvariant'
<1>. DEFINE hash == CRHash(snap.spec)
<1>1. PICK ok \in BOOLEAN :
        /\ Transaction(rows, [crState EXCEPT ![cur] = hash], ok)
        /\ IF ok
           THEN /\ changed' = (crState[cur] # hash)
                /\ Goto("decide")
                /\ UNCHANGED <<snap, fresh, trig, found>>
           ELSE Fail
  BY DEF HasCRChanged
<1>. HIDE DEF hash
<1>2. /\ rows' = rows
      /\ \/ ~ok /\ crState' = crState
         \/ crState' = [crState EXCEPT ![cur] = hash]
  BY <1>1, TransactionEffect DEF InductiveInvariant, TypeOK
<1>3. UNCHANGED <<api, cache, lag, operators, userOps>> /\ KubeInv' /\ UNCHANGED kube
  BY SameKubeInv DEF HasCRChanged, kube, InductiveInvariant, KubeInv
<1>4. NoOrphanRows'
  <2>1. Held(cur)
    BY DEF HasCRChanged, InductiveInvariant, PassHeld, NormalSteps
  <2>. QED
    BY <1>2, <1>3, <2>1
       DEF InductiveInvariant, NoOrphanRows, Exists, Held, TypeOK,
           DatabaseTypeOK
<1>5. CASE ok
  <2>1. pc' = "decide" /\ cur' = cur /\ snap' = snap
    BY <1>1, <1>5 DEF Goto
  <2>2. crState'[cur] = hash
    BY <1>2, <1>5 DEF InductiveInvariant, TypeOK, DatabaseTypeOK
  <2>3. PassRows'
    BY <2>1, <2>2 DEF PassRows, hash
  <2>. QED
    BY <1>1, <1>2, <1>3, <1>4, <1>5, <2>3, ContinuedPass DEF Goto, HasCRChanged, NormalSteps
<1>6. CASE ~ok
  BY <1>1, <1>3, <1>4, <1>6, EndedPass
<1>. QED
  BY <1>5, <1>6

LEMMA DecideInv ==
    ASSUME InductiveInvariant, Decide, TypeOK', PassOK', cur \in CRs
    PROVE  InductiveInvariant'
<1>1. PICK t \in getReconcileTriggerConfig(operators) \cup {FallbackTrigger} :
        IF shouldReconcile(t, changed).proceed
        THEN trig' = t /\ Goto("openstack") /\ UNCHANGED <<snap, fresh, changed, found>>
        ELSE Return(shouldReconcile(t, changed).after)
  BY DEF Decide
<1>2. t \in TriggerConfigs
  BY ConfigsWellFormed DEF InductiveInvariant, TypeOK, KubeTypeOK
<1>3. UNCHANGED <<api, cache, lag, operators, userOps, rows, crState, kube>> /\ KubeInv'
  BY SameKubeInv DEF Decide, kube, db, InductiveInvariant, KubeInv
<1>4. NoOrphanRows'
  BY <1>3 DEF InductiveInvariant, NoOrphanRows, Exists
<1>5. CASE shouldReconcile(t, changed).proceed
  <2>1. PassRows'
    BY <1>1, <1>3, <1>5 DEF Decide, Goto, PassRows, InductiveInvariant
  <2>. QED
    BY <1>1, <1>3, <1>4, <1>5, <2>1, ContinuedPass DEF Goto, Decide, NormalSteps
<1>6. CASE ~shouldReconcile(t, changed).proceed
  <2>1. Fail
    BY <1>1, <1>2, <1>6, SkipAsksForAnother, ReturnEffect
       DEF InductiveInvariant, TypeOK, WorkerTypeOK
  <2>. QED
    BY <1>3, <1>4, <2>1, EndedPass
<1>. QED
  BY <1>5, <1>6

LEMMA QueryOpenStackInv ==
    ASSUME InductiveInvariant, QueryOpenStack, TypeOK', PassOK', cur \in CRs
    PROVE  InductiveInvariant'
<1>1. UNCHANGED <<api, rows, crState, kube, snap, fresh>>
  BY DEF QueryOpenStack, kube, db, locals
<1>2. NoOrphanRows' /\ PassRows'
  BY <1>1
     DEF InductiveInvariant, NoOrphanRows, PassRows, Exists, QueryOpenStack,
         AfterQuery, Goto, locals
<1>. QED
  BY <1>1, <1>2, ContinuedPass DEF QueryOpenStack, AfterQuery, Goto, NormalSteps

LEMMA FindPortsInv ==
    ASSUME InductiveInvariant, FindPorts, TypeOK', PassOK', cur \in CRs
    PROVE  InductiveInvariant'
<1>1. /\ UNCHANGED <<api, rows, crState, kube, snap, fresh, queue, delayed, cur>>
      /\ pc = "ports" /\ pc' = "commit"
  BY DEF FindPorts, kube, db, Goto
<1>2. NoOrphanRows' /\ PassRows'
  BY <1>1 DEF InductiveInvariant, NoOrphanRows, PassRows, Exists
<1>. QED
  BY <1>1, <1>2, ContinuedPass DEF NormalSteps

LEMMA SubnetNotFoundInv ==
    ASSUME InductiveInvariant, SubnetNotFound, TypeOK', PassOK', cur \in CRs
    PROVE  InductiveInvariant'
<1>1. UNCHANGED <<api, cache, lag, operators, rows, crState, userOps>> /\ KubeInv'
  BY SameKubeInv DEF SubnetNotFound, kube, db, budget, InductiveInvariant, KubeInv
<1>2. NoOrphanRows'
  BY <1>1 DEF InductiveInvariant, NoOrphanRows, Exists
<1>. QED
  BY <1>1, <1>2, EndedPass DEF SubnetNotFound

LEMMA CommitRowsInv ==
    ASSUME InductiveInvariant, CommitRows, TypeOK', PassOK', cur \in CRs
    PROVE  InductiveInvariant'
<1>1. PICK ok \in BOOLEAN :
        /\ Transaction([rows EXCEPT ![cur] = RowsOf(snap.spec, found)], crState, ok)
        /\ IF ok THEN Goto("status") /\ UNCHANGED locals
                 ELSE Fail
  BY DEF CommitRows
<1>2. /\ crState' = crState
      /\ \/ ~ok /\ rows' = rows
         \/ rows' = [rows EXCEPT ![cur] = RowsOf(snap.spec, found)]
  BY <1>1, TransactionEffect DEF InductiveInvariant, TypeOK
<1>3. UNCHANGED <<api, cache, lag, operators, userOps>> /\ KubeInv'
  BY SameKubeInv DEF CommitRows, kube, InductiveInvariant, KubeInv
<1>4. NoOrphanRows'
  <2>1. Held(cur) /\ snap.spec # NoSpec
    BY ConstantsAssumption
       DEF CommitRows, InductiveInvariant, PassHeld, PassOK, NormalSteps, Objects
  <2>. QED
    BY <1>2, <1>3, <2>1
       DEF InductiveInvariant, NoOrphanRows, Exists, Held, TypeOK,
           DatabaseTypeOK
<1>5. CASE ok
  <2>1. /\ UNCHANGED <<queue, delayed, cur, snap, fresh>>
        /\ pc' = "status" /\ pc = "commit"
        /\ rows'[cur] = RowsOf(snap.spec, found) /\ found' = found /\ crState' = crState
    BY <1>1, <1>2, <1>5 DEF Goto, CommitRows, locals, InductiveInvariant, TypeOK, DatabaseTypeOK
  <2>2. FreshOK' /\ PassHeld' /\ PassRows' /\ NeverForgotten'
    BY <1>3, <2>1
       DEF InductiveInvariant, FreshOK, PassHeld, PassRows, NeverForgotten, Held, Exists,
           NormalSteps, DeletionSteps
  <2>. QED
    BY <1>3, <1>4, <2>2 DEF InductiveInvariant, KubeInv
<1>6. CASE ~ok
  BY <1>1, <1>3, <1>4, <1>6, EndedPass
<1>. QED
  BY <1>5, <1>6

-----------------------------------------------------------------------------
(* The theorems. *)

LEMMA WorkerInv ==
    ASSUME InductiveInvariant, WorkerStep
    PROVE  InductiveInvariant'
<1>1. TypeOK' /\ PassOK'
  BY WorkerTypes DEF InductiveInvariant
<1>2. cur \in CRs
  BY DEF InductiveInvariant, PassOK, TypeOK, WorkerTypeOK, WorkerStep, EnsureDB, GetCR,
         AddFinalizer, Purge, DropFinalizer, HasCRChanged, Decide, QueryOpenStack,
         OpenStackFails, SubnetNotFound, NoTargetVMs, FindPorts, CommitRows, PublishStatus
<1>. QED
  BY <1>1, <1>2, EnsureDBInv, GetCRInv, AddFinalizerInv, PurgeInv, DropFinalizerInv,
     HasCRChangedInv, DecideInv, QueryOpenStackInv, OpenStackProblemInv, CommitRowsInv,
     SubnetNotFoundInv, FindPortsInv, PublishStatusInv
     DEF WorkerStep

LEMMA StutterInv ==
    ASSUME InductiveInvariant, UNCHANGED vars
    PROVE  InductiveInvariant'
<1>1. TypeOK' /\ PassOK'
  BY TypeStep DEF InductiveInvariant
<1>2. UNCHANGED <<api, cache, lag, queue, delayed, pc, cur, snap, fresh, found, rows, crState>>
  BY DEF vars, kube, pass, locals, db
<1>3. KubeInv'
  BY <1>2, SameKubeInv DEF InductiveInvariant, KubeInv
<1>. QED
  BY <1>1, <1>2, <1>3
     DEF InductiveInvariant, KubeInv, FreshOK, PassHeld, PassRows, NoOrphanRows,
         NeverForgotten, Held, Exists

LEMMA InvInit == Init => InductiveInvariant
BY TypeInit
   DEF Init, InductiveInvariant, PassOK, FreshOK, CacheOK, CacheLiveHeld, CacheDeletionHeld,
       TerminatingHeld, PassHeld, PassRows, NoOrphanRows, NeverForgotten,
       Exists, Terminating, Held, Live, NormalSteps, DeletionSteps

LEMMA InvStep == InductiveInvariant /\ [Next]_vars => InductiveInvariant'
BY UserInv, QueueInv, WorkerInv, CrashInv, StutterInv DEF Next

\* The inductive invariant holds in every reachable state.
THEOREM Invariance == Spec => []InductiveInvariant
BY InvInit, InvStep, PTL DEF Spec

\* The database never holds records of a CR that could disappear unnoticed.
THEOREM OrphanFree == Spec => []NoOrphanRows
<1>1. InductiveInvariant => NoOrphanRows
  BY DEF InductiveInvariant
<1>. QED
  BY <1>1, Invariance, PTL

\* No early return and no failure of Reconcile makes the controller forget an
\* existing CR.
THEOREM CRsNeverForgotten == Spec => []NeverForgotten
<1>1. InductiveInvariant => NeverForgotten
  BY DEF InductiveInvariant
<1>. QED
  BY <1>1, Invariance, PTL

-----------------------------------------------------------------------------
(* Action properties. *)

\* A record goes only by the purge of its CR, which is being deleted; rows also
\* by the commit of a pass that found no port.
LEMMA RemovalStep ==
    ASSUME InductiveInvariant, [Next]_vars, NEW c \in CRs
    PROVE  /\ crState[c] # NoHash /\ crState'[c] = NoHash => Terminating(c)
           /\ rows[c] # NoSpec /\ rows'[c] = NoSpec =>
                \/ Terminating(c)
                \/ pc = "commit" /\ cur = c /\ ~found /\ Exists(c) /\ api[c].fin
<1>. TypeOK /\ DatabaseTypeOK
  BY DEF InductiveInvariant, TypeOK
<1>1. CASE HasCRChanged
  <2>1. CRHash(snap.spec) # NoHash
    BY <1>1, ConstantsAssumption
       DEF HasCRChanged, InductiveInvariant, PassOK, NormalSteps, Objects, Hashes
  <2>2. /\ rows' = rows
        /\ \/ crState' = crState
           \/ crState' = [crState EXCEPT ![cur] = CRHash(snap.spec)]
    BY <1>1, TransactionEffect DEF HasCRChanged, TypeOK
  <2>. QED
    BY <2>1, <2>2 DEF DatabaseTypeOK
<1>2. CASE CommitRows
  <2>1. snap.spec # NoSpec /\ Held(cur)
    BY <1>2, ConstantsAssumption
       DEF CommitRows, InductiveInvariant, PassOK, PassHeld, NormalSteps, Objects
  <2>2. /\ crState' = crState
        /\ rows' = rows \/ rows' = [rows EXCEPT ![cur] = RowsOf(snap.spec, found)]
    BY <1>2, TransactionEffect DEF CommitRows, TypeOK
  <2>. QED
    BY <1>2, <2>1, <2>2 DEF CommitRows, DatabaseTypeOK, RowsOf, Held
<1>3. CASE Purge
  <2>1. \/ rows' = rows /\ crState' = crState
        \/ rows' = [rows EXCEPT ![cur] = NoSpec] /\ crState' = [crState EXCEPT ![cur] = NoHash]
    BY <1>3, TransactionEffect DEF Purge, TypeOK
  <2>2. rows[cur] # NoSpec \/ crState[cur] # NoHash => ~(cur \in CRs) \/ Terminating(cur)
    BY <1>3 DEF Purge, InductiveInvariant, NoOrphanRows, PassHeld, Held, Terminating,
                DeletionSteps
  <2>. QED
    BY <2>1, <2>2 DEF DatabaseTypeOK
<1>4. CASE ~(HasCRChanged \/ CommitRows \/ Purge)
  <2>1. UNCHANGED <<rows, crState>>
    BY <1>4
       DEF Next, UserStep, CreateCR, EditSpec, Touch, DeleteCR, SetOperators, ChangeOpenStack,
           UserWrite, Watch, Timer, Begin, WorkerStep, EnsureDB, GetCR, AddFinalizer,
           DropFinalizer, Decide, QueryOpenStack, OpenStackFails, SubnetNotFound, NoTargetVMs,
           FindPorts, PublishStatus, Crash, vars, db
  <2>. QED
    BY <2>1
<1>. QED
  BY <1>1, <1>2, <1>3, <1>4

\* A CR's cr_state record goes only when it is being deleted, and its rows only
\* then or by a pass that found no port, whatever the cache showed.
THEOREM RecordsGoForCause == Spec => RecordsRemovedForCause
<1>1. InductiveInvariant /\ [Next]_vars
        => [\A c \in CRs :
              /\ crState[c] # NoHash /\ crState'[c] = NoHash => Terminating(c)
              /\ rows[c] # NoSpec /\ rows'[c] = NoSpec =>
                   \/ Terminating(c)
                   \/ pc = "commit" /\ cur = c /\ ~found /\ Exists(c) /\ api[c].fin]_vars
  BY RemovalStep
<1>. QED
  BY <1>1, Invariance, PTL DEF Spec, RecordsRemovedForCause

\* Only PublishStatus sets the published VMs of an existing CR.
LEMMA PublishStep ==
    ASSUME InductiveInvariant, [Next]_vars, NEW c \in CRs,
           Exists(c), api'[c] # NoObj, api'[c].infos # NoSpec, api'[c].infos # api[c].infos
    PROVE  /\ rows[c] = RowsOf(api'[c].infos.spec, api'[c].infos.mac)
           /\ api'[c].spec = api'[c].infos.spec
           /\ api[c].spec = api'[c].spec
<1>. TypeOK /\ KubeInv
  BY DEF InductiveInvariant, KubeInv
<1>1. ASSUME UserStep PROVE FALSE
  <2>1. ASSUME SetOperators \/ ChangeOpenStack PROVE FALSE
    BY <2>1 DEF SetOperators, ChangeOpenStack, kube
  <2>2. ASSUME NEW d \in CRs, NEW obj \in Objects \cup {NoObj}, NEW kind \in {"meta", "spec"},
               UserWrite(d, obj, kind), UserKeeps(d, obj) \/ UserReplaces(d, obj, kind)
        PROVE  FALSE
    <3>1. /\ api'[d] = obj
          /\ \A e \in CRs \ {d} : api'[e] = api[e]
      BY <2>2, WriteEffect DEF UserWrite, TypeOK
    <3>. QED
      BY <2>2, <3>1 DEF UserKeeps, UserReplaces, Replaces
  <2>. QED
    BY <1>1, <2>1, <2>2, UserCases
<1>2. ASSUME NEW obj \in Objects \cup {NoObj}, NEW kind \in {"meta", "spec"},
             (UNCHANGED <<api, lag>>) \/ (fresh /\ WriteCR(cur, obj, kind)), cur \in CRs
      PROVE  c = cur /\ fresh /\ snap = api[cur] /\ api'[cur] = obj
  <2>1. CASE fresh /\ WriteCR(cur, obj, kind)
    BY <1>2, <2>1, WriteEffect DEF TypeOK, InductiveInvariant, FreshOK
  <2>. QED
    BY <1>2, <2>1
<1>u. ASSUME pc # "idle" PROVE cur \in CRs
  BY <1>u DEF InductiveInvariant, PassOK, TypeOK, WorkerTypeOK
<1>s. ASSUME pc \notin {"idle", "ensureDB", "get"} PROVE snap \in Objects
  BY <1>s DEF InductiveInvariant, PassOK
<1>3. ASSUME AddFinalizer PROVE FALSE
  <2>1. (UNCHANGED <<api, lag>>) \/ (fresh /\ WriteCR(cur, [snap EXCEPT !.fin = TRUE], "meta"))
    BY <1>3, UpdateEffect DEF AddFinalizer, TypeOK
  <2>2. snap \in Objects /\ cur \in CRs
    BY <1>3, <1>u, <1>s DEF AddFinalizer
  <2>3. c = cur /\ snap = api[cur] /\ api'[cur] = [snap EXCEPT !.fin = TRUE]
    BY <1>2, <2>1, <2>2, ObjectsWritten
  <2>. QED
    BY <2>2, <2>3 DEF Objects
<1>4. ASSUME OpenStackFails \/ NoTargetVMs PROVE FALSE
  <2>1. (UNCHANGED <<api, lag>>) \/ (fresh /\ WriteCR(cur, [snap EXCEPT !.status = "Error"], "meta"))
    BY <1>4 DEF OpenStackFails, NoTargetVMs, TryErrorStatus, KeepCRs
  <2>2. snap \in Objects /\ cur \in CRs
    BY <1>4, <1>u, <1>s DEF OpenStackFails, NoTargetVMs
  <2>3. c = cur /\ snap = api[cur] /\ api'[cur] = [snap EXCEPT !.status = "Error"]
    BY <1>2, <2>1, <2>2, ObjectsWritten
  <2>. QED
    BY <2>2, <2>3 DEF Objects
<1>5. ASSUME DropFinalizer PROVE FALSE
  <2>1. (UNCHANGED <<api, lag>>) \/ (fresh /\ WriteCR(cur, WithoutFinalizer(snap), "spec"))
    BY <1>5, UpdateEffect DEF DropFinalizer, TypeOK
  <2>2. snap \in Objects /\ cur \in CRs
    BY <1>5, <1>u, <1>s DEF DropFinalizer
  <2>3. WithoutFinalizer(snap) = NoObj
    BY <1>5 DEF DropFinalizer, WithoutFinalizer, InductiveInvariant, PassOK, DeletionSteps
  <2>. QED
    BY <1>2, <2>1, <2>2, <2>3
<1>6. PublishStatus
  BY <1>1, <1>3, <1>4, <1>5
     DEF Next, Watch, Timer, Begin, WorkerStep, EnsureDB, GetCR, Purge, HasCRChanged,
         Decide, QueryOpenStack, SubnetNotFound, FindPorts, CommitRows, Crash, vars, kube
<1>7. (UNCHANGED <<api, lag>>) \/ (fresh /\ WriteCR(cur, Completed(snap, found), "meta"))
  BY <1>6, UpdateEffect DEF PublishStatus, TypeOK
<1>8. /\ snap \in Objects /\ cur \in CRs /\ found \in BOOLEAN
      /\ rows[cur] = RowsOf(snap.spec, found)
  BY <1>6, <1>u, <1>s DEF PublishStatus, InductiveInvariant, PassRows, TypeOK, WorkerTypeOK
<1>9. c = cur /\ fresh /\ snap = api[cur] /\ api'[cur] = Completed(snap, found)
  BY <1>2, <1>7, <1>8, ObjectsWritten
<1>. QED
  BY <1>8, <1>9 DEF Completed, Objects

\* What a CR's status says of its VMs was committed first, for its spec.
THEOREM PublishedMatch == Spec => PublishedInfosMatch
<1>1. InductiveInvariant /\ [Next]_vars
        => [\A c \in CRs :
              LET new == api'[c] IN
              Exists(c) /\ new # NoObj /\ new.infos \notin {NoSpec, api[c].infos}
                => /\ rows[c] = RowsOf(new.infos.spec, new.infos.mac)
                   /\ new.spec = new.infos.spec
                   /\ api[c].spec = new.spec]_vars
  BY PublishStep
<1>. QED
  BY <1>1, Invariance, PTL DEF Spec, PublishedInfosMatch

-----------------------------------------------------------------------------
(* The controller implements the life cycle that its finalizer promises. *)

Stored(c) == rows[c] # NoSpec \/ crState[c] # NoHash

LEMMA LifecycleInit == Init => Lifecycle!Init
BY DEF Init, Lifecycle!Init, Stage

\* A step that writes one CR and leaves the database alone is a move of that
\* CR in the life cycle, or none.
LEMMA LifecycleWrite ==
    ASSUME InductiveInvariant, NEW c \in CRs, NEW obj \in Objects \cup {NoObj},
           NEW kind \in {"meta", "spec"}, WriteCR(c, obj, kind), UNCHANGED <<rows, crState>>,
           \/ Keeps(c, obj)
           \/ /\ Replaces(c, obj)
              /\ Held(c) => obj = NoObj /\ ~Stored(c)
    PROVE  [Lifecycle!Next]_(Lifecycle!vars)
<1>w. api'[c] = obj /\ \A d \in CRs \ {c} : api'[d] = api[d]
  BY WriteEffect DEF InductiveInvariant, TypeOK
<1>1. ASSUME Stage(c)' = Stage(c) PROVE UNCHANGED Lifecycle!vars
  BY <1>w, <1>1 DEF Lifecycle!vars, Stage
<1>2. ASSUME NEW from, NEW to, Stage(c) = from, Stage(c)' = to
      PROVE  Lifecycle!Move(c, from, to)
  <2>1. [d \in CRs |-> Stage(d)]' = [[d \in CRs |-> Stage(d)] EXCEPT ![c] = to]
    BY <1>w, <1>2 DEF Stage
  <2>. QED
    BY <1>2, <2>1 DEF Lifecycle!Move
<1>3. \/ Stage(c)' = Stage(c)
      \/ Stage(c) = "absent" /\ Stage(c)' = "new"
      \/ Stage(c) = "new" /\ Stage(c)' = "absent"
      \/ Stage(c) = "new" /\ Stage(c)' = "held"
      \/ Stage(c) = "held" /\ Stage(c)' = "ending"
      \/ Stage(c) = "ending" /\ Stage(c)' = "absent" /\ ~Stored(c)
  <2>0. Exists(c) /\ api[c].del => api[c].fin
    BY DEF InductiveInvariant, TerminatingHeld, Terminating
  <2>1. CASE Keeps(c, obj)
    BY <1>w, <2>0, <2>1, ConstantsAssumption DEF Keeps, Stage, Exists
  <2>2. CASE Replaces(c, obj) /\ (Held(c) => obj = NoObj /\ ~Stored(c))
    BY <1>w, <2>0, <2>2, ConstantsAssumption DEF Replaces, Stage, Exists, Held
  <2>. QED
    BY <2>1, <2>2
<1>4. ASSUME Stage(c) = "ending", Stage(c)' = "absent", ~Stored(c)
      PROVE  Lifecycle!Release(c)
  BY <1>2, <1>4 DEF Lifecycle!Release, Stored
<1>. QED
  BY <1>1, <1>2, <1>3, <1>4
     DEF Lifecycle!Next, Lifecycle!Create, Lifecycle!Abandon, Lifecycle!Adopt,
         Lifecycle!RequestDeletion

\* A transaction of the worker records or forgets its CR, or changes nothing.
LEMMA LifecycleTransaction ==
    ASSUME InductiveInvariant, Purge \/ HasCRChanged \/ CommitRows, NEW c \in CRs, c = cur
    PROVE  [Lifecycle!Next]_(Lifecycle!vars)
<1>. DEFINE St == {d \in CRs : rows[d] # NoSpec \/ crState[d] # NoHash}
<1>0. UNCHANGED api /\ TypeOK
  BY DEF Purge, HasCRChanged, CommitRows, kube, InductiveInvariant
<1>s. [d \in CRs |-> Stage(d)]' = [d \in CRs |-> Stage(d)]
  BY <1>0 DEF Stage
<1>1. ASSUME St' = St PROVE UNCHANGED Lifecycle!vars
  BY <1>s, <1>1 DEF Lifecycle!vars
<1>2. ASSUME Held(c), St' = St \cup {c} PROVE Lifecycle!Next
  <2>1. Stage(c) \in {"held", "ending"}
    BY <1>2 DEF Held, Exists, Stage
  <2>2. Lifecycle!Record(c)
    BY <1>s, <1>2, <2>1 DEF Lifecycle!Record
  <2>. QED
    BY <2>2 DEF Lifecycle!Next
<1>3. ASSUME Stage(c) = "ending", St' = St \ {c} PROVE Lifecycle!Next
  <2>1. Lifecycle!Purge(c)
    BY <1>s, <1>3 DEF Lifecycle!Purge
  <2>. QED
    BY <2>1 DEF Lifecycle!Next
<1>4. CASE HasCRChanged
  <2>1. Held(c) /\ CRHash(snap.spec) # NoHash
    BY <1>4, ConstantsAssumption
       DEF HasCRChanged, InductiveInvariant, PassHeld, PassOK, NormalSteps, Objects, Hashes
  <2>2. \/ rows' = rows /\ crState' = crState
        \/ rows' = rows /\ crState' = [crState EXCEPT ![cur] = CRHash(snap.spec)]
    BY <1>0, <1>4, TransactionEffect DEF HasCRChanged, TypeOK
  <2>3. St' = St \/ St' = St \cup {c}
    BY <1>0, <2>1, <2>2 DEF TypeOK, DatabaseTypeOK
  <2>. QED
    BY <1>1, <1>2, <2>1, <2>3
<1>5. CASE CommitRows
  <2>1. crState[c] # NoHash
    <3>1. crState[cur] = CRHash(snap.spec) /\ snap \in Objects
      BY <1>5 DEF CommitRows, InductiveInvariant, PassRows, PassOK
    <3>. QED
      BY <3>1, ConstantsAssumption DEF Objects, Hashes
  <2>2. \/ rows' = rows /\ crState' = crState
        \/ rows' = [rows EXCEPT ![cur] = RowsOf(snap.spec, found)] /\ crState' = crState
    BY <1>0, <1>5, TransactionEffect DEF CommitRows, TypeOK
  <2>3. St' = St
    BY <1>0, <2>1, <2>2 DEF TypeOK, DatabaseTypeOK
  <2>. QED
    BY <1>1, <2>3
<1>6. CASE Purge
  <2>1. \/ rows' = rows /\ crState' = crState
        \/ rows' = [rows EXCEPT ![cur] = NoSpec] /\ crState' = [crState EXCEPT ![cur] = NoHash]
    BY <1>0, <1>6, TransactionEffect DEF Purge, TypeOK
  <2>2. St' = St \/ (c \in St /\ St' = St \ {c})
    BY <1>0, <2>1 DEF TypeOK, DatabaseTypeOK
  <2>3. c \in St => Stage(c) = "ending"
    BY <1>6 DEF InductiveInvariant, NoOrphanRows, PassHeld, Held, Purge, DeletionSteps,
                Exists, Stage
  <2>. QED
    BY <1>1, <1>3, <2>2, <2>3
<1>. QED
  BY <1>4, <1>5, <1>6

\* Every step of the controller is a step of the life cycle, or none.
LEMMA LifecycleStep ==
    ASSUME InductiveInvariant, [Next]_vars
    PROVE  [Lifecycle!Next]_(Lifecycle!vars)
<1>1. ASSUME UNCHANGED api, UNCHANGED <<rows, crState>> PROVE UNCHANGED Lifecycle!vars
  BY <1>1 DEF Lifecycle!vars, Stage
<1>u. ASSUME pc # "idle" PROVE cur \in CRs
  BY <1>u DEF InductiveInvariant, PassOK, TypeOK, WorkerTypeOK
<1>s. ASSUME pc \notin {"idle", "ensureDB", "get"} PROVE snap \in Objects
  BY <1>s DEF InductiveInvariant, PassOK
<1>2. CASE UserStep
  <2>1. UNCHANGED <<rows, crState>>
    BY <1>2 DEF UserStep, CreateCR, EditSpec, Touch, DeleteCR, UserWrite, SetOperators,
                ChangeOpenStack, db
  <2>2. ASSUME NEW c \in CRs, NEW obj \in Objects \cup {NoObj}, NEW kind \in {"meta", "spec"},
               UserWrite(c, obj, kind), UserKeeps(c, obj) \/ UserReplaces(c, obj, kind)
        PROVE  [Lifecycle!Next]_(Lifecycle!vars)
    <3>1. WriteCR(c, obj, kind)
      BY <2>2 DEF UserWrite
    <3>2. CASE UserKeeps(c, obj)
      BY <2>1, <3>1, <3>2, LifecycleWrite DEF UserKeeps
    <3>3. CASE UserReplaces(c, obj, kind)
      BY <2>1, <3>1, <3>3, LifecycleWrite DEF UserReplaces
    <3>. QED
      BY <2>2, <3>2, <3>3
  <2>3. CASE SetOperators \/ ChangeOpenStack
    BY <1>1, <2>1, <2>3 DEF SetOperators, ChangeOpenStack, kube
  <2>4. TypeOK /\ KubeInv
    BY DEF InductiveInvariant, KubeInv
  <2>. QED
    BY <1>2, <2>2, <2>3, <2>4, UserCases
<1>3. ASSUME NEW obj \in Objects, UNCHANGED <<rows, crState>>, cur \in CRs,
             fresh => Keeps(cur, obj),
             api' = api \/ (fresh /\ WriteCR(cur, obj, "meta"))
      PROVE  [Lifecycle!Next]_(Lifecycle!vars)
  <2>1. CASE api' = api
    BY <1>1, <1>3, <2>1
  <2>2. CASE fresh /\ WriteCR(cur, obj, "meta")
    <3>1. PICK c \in CRs : c = cur
      BY <1>3
    <3>2. Keeps(c, obj) /\ WriteCR(c, obj, "meta")
      BY <1>3, <2>2, <3>1
    <3>. QED
      BY <1>3, <3>2, LifecycleWrite
  <2>. QED
    BY <1>3, <2>1, <2>2
<1>4. CASE AddFinalizer
  <2>. DEFINE obj == [snap EXCEPT !.fin = TRUE]
  <2>1. PICK ok \in BOOLEAN : UpdateCR(obj, "meta", ok)
    BY <1>4 DEF AddFinalizer
  <2>2. snap \in Objects /\ ~snap.fin /\ ~snap.del /\ obj \in Objects /\ cur \in CRs
    BY <1>4, <1>u, ObjectsWritten DEF AddFinalizer, InductiveInvariant, PassOK
  <2>3. ASSUME fresh PROVE Keeps(cur, obj)
    BY <2>2, <2>3, ConstantsAssumption
       DEF InductiveInvariant, FreshOK, Keeps, Exists, Objects
  <2>. HIDE DEF obj
  <2>4. api' = api \/ (fresh /\ WriteCR(cur, obj, "meta"))
    BY <2>1, UpdateEffect DEF InductiveInvariant, TypeOK
  <2>. QED
    <3>1. UNCHANGED <<rows, crState>>
      BY <1>4 DEF AddFinalizer, db
    <3>. QED
      BY <1>3, <2>2, <2>3, <2>4, <3>1
<1>5. CASE OpenStackFails \/ NoTargetVMs
  <2>. DEFINE obj == [snap EXCEPT !.status = "Error"]
  <2>1. TryErrorStatus /\ UNCHANGED <<rows, crState>>
    BY <1>5 DEF OpenStackFails, NoTargetVMs, db
  <2>2. snap \in Objects /\ snap.fin /\ ~snap.del /\ obj \in Objects /\ cur \in CRs
    BY <1>5, <1>u, ObjectsWritten
       DEF OpenStackFails, NoTargetVMs, InductiveInvariant, PassOK, NormalSteps
  <2>3. ASSUME fresh PROVE Keeps(cur, obj)
    BY <2>2, <2>3, ConstantsAssumption
       DEF InductiveInvariant, FreshOK, Keeps, Exists, Objects
  <2>4. api' = api \/ (fresh /\ WriteCR(cur, obj, "meta"))
    BY <2>1 DEF TryErrorStatus, KeepCRs
  <2>. HIDE DEF obj
  <2>. QED
    BY <1>3, <2>1, <2>2, <2>3, <2>4
<1>6. CASE PublishStatus
  <2>. DEFINE obj == Completed(snap, found)
  <2>1. PICK ok \in BOOLEAN : UpdateCR(obj, "meta", ok)
    BY <1>6 DEF PublishStatus
  <2>2. snap \in Objects /\ snap.fin /\ ~snap.del /\ obj \in Objects /\ cur \in CRs
    <3>1. snap \in Objects /\ snap.fin /\ ~snap.del /\ found \in BOOLEAN /\ cur \in CRs
      BY <1>6, <1>u
         DEF PublishStatus, InductiveInvariant, PassOK, NormalSteps, TypeOK, WorkerTypeOK
    <3>. QED
      BY <3>1, ObjectsWritten
  <2>3. ASSUME fresh PROVE Keeps(cur, obj)
    BY <2>2, <2>3, ConstantsAssumption
       DEF InductiveInvariant, FreshOK, Keeps, Exists, Objects, Completed
  <2>. HIDE DEF obj
  <2>4. api' = api \/ (fresh /\ WriteCR(cur, obj, "meta"))
    BY <2>1, UpdateEffect DEF InductiveInvariant, TypeOK
  <2>. QED
    <3>1. UNCHANGED <<rows, crState>>
      BY <1>6 DEF PublishStatus, db
    <3>. QED
      BY <1>3, <2>2, <2>3, <2>4, <3>1
<1>7. CASE DropFinalizer
  <2>1. PICK ok \in BOOLEAN : UpdateCR(WithoutFinalizer(snap), "spec", ok)
    BY <1>7 DEF DropFinalizer
  <2>2. snap.del /\ WithoutFinalizer(snap) = NoObj /\ cur \in CRs
    BY <1>7, <1>u DEF DropFinalizer, InductiveInvariant, PassOK, DeletionSteps, WithoutFinalizer
  <2>3. UNCHANGED <<rows, crState>> /\ ~Stored(cur)
    BY <1>7 DEF DropFinalizer, InductiveInvariant, PassRows, Stored, db
  <2>4. api' = api \/ (fresh /\ WriteCR(cur, NoObj, "spec"))
    BY <2>1, <2>2, UpdateEffect DEF InductiveInvariant, TypeOK
  <2>5. ASSUME fresh PROVE Replaces(cur, NoObj)
    BY <2>2, <2>5 DEF Replaces, InductiveInvariant, FreshOK
  <2>6. PICK c \in CRs : c = cur
    BY <2>2
  <2>. QED
    BY <1>1, <2>3, <2>4, <2>5, <2>6, LifecycleWrite
<1>8. CASE Purge \/ HasCRChanged \/ CommitRows
  <2>1. PICK c \in CRs : c = cur
    BY <1>8, <1>u DEF Purge, HasCRChanged, CommitRows
  <2>. QED
    BY <1>8, <2>1, LifecycleTransaction
<1>9. CASE \/ EnsureDB \/ GetCR \/ Decide \/ QueryOpenStack \/ SubnetNotFound \/ FindPorts \/ Crash
           \/ \E c \in CRs : Watch(c) \/ Timer(c) \/ Begin(c)
  BY <1>1, <1>9
     DEF EnsureDB, GetCR, Decide, QueryOpenStack, SubnetNotFound, FindPorts, Crash, Watch,
         Timer, Begin, kube, db
<1>10. CASE UNCHANGED vars
  BY <1>1, <1>10 DEF vars, kube, db
<1>. QED
  BY <1>2, <1>4, <1>5, <1>6, <1>7, <1>8, <1>9, <1>10 DEF Next, WorkerStep

\* The controller implements the life cycle: whatever fails or interleaves,
\* the database holds records of a CR only while it is held.
THEOREM LifecycleImplemented == Spec => ImplementsLifecycle
<1>1. InductiveInvariant /\ [Next]_vars => [Lifecycle!Next]_(Lifecycle!vars)
  BY LifecycleStep
<1>. QED
  BY <1>1, LifecycleInit, Invariance, PTL DEF Spec, ImplementsLifecycle, Lifecycle!Spec

-----------------------------------------------------------------------------
(* Why edits are lost. *)

\* SHA-256 tells any two specs apart.
LEMMA HashesDiffer ==
    ASSUME NEW s \in Specs, NEW t \in Specs, CRHash(s) = CRHash(t)
    PROVE  s = t
<1>1. s = [credentials |-> s.credentials, vmNames |-> s.vmNames, subnetName |-> s.subnetName]
  BY SpecFields
<1>2. t = [credentials |-> t.credentials, vmNames |-> t.vmNames, subnetName |-> t.subnetName]
  BY SpecFields
<1>3. s.credentials = t.credentials /\ s.vmNames = t.vmNames /\ s.subnetName = t.subnetName
  BY DEF CRHash
<1>. QED
  BY <1>1, <1>2, <1>3

LEMMA HashInit ==
    ASSUME NEW s \in Specs, Init
    PROVE  HashOK(s)
<1>1. CRHash(s) # NoHash
  BY ConstantsAssumption DEF Hashes
<1>. QED
  BY <1>1 DEF Init, HashOK, HashFollowed

\* The steps of a pass from the hash to the rows.
Underway == {"decide", "openstack", "ports", "commit"}

\* A pass that ends, or has not looked at the hash yet, keeps HashOK as long as
\* it leaves the database alone and was not on its way to the rows.
LEMMA HashKept ==
    ASSUME NEW s \in Specs, HashOK(s), UNCHANGED <<rows, crState>>,
           \/ UNCHANGED <<pc, cur, snap, changed, found>>
           \/ pc \notin Underway /\ pc' \notin Underway
    PROVE  HashOK(s)'
BY DEF HashOK, HashFollowed, Underway

\* ... and so does a pass for another spec: the hash that it stored is not s's.
LEMMA HashOther ==
    ASSUME NEW s \in Specs, InductiveInvariant, HashOK(s), pc \in Underway, snap.spec # s,
           crState' = crState, pc' \notin Underway, \A c \in CRs \ {cur} : rows'[c] = rows[c]
    PROVE  HashOK(s)'
<1>1. crState[cur] # CRHash(s)
  <2>1. snap.spec \in Specs /\ crState[cur] = CRHash(snap.spec)
    BY DEF InductiveInvariant, PassOK, PassRows, Objects, Underway
  <2>. QED
    BY <2>1, HashesDiffer
<1>. QED
  BY <1>1 DEF HashOK, HashFollowed, Underway

\* Without a failure a transaction of the worker ends as it should.
LEMMA TransactionDone ==
    ASSUME BudgetTypeOK, faults' = faults, NEW r, NEW s, NEW ok \in BOOLEAN,
           Transaction(r, s, ok)
    PROVE  ok /\ rows' = r /\ crState' = s
BY DEF Transaction, Fault, BudgetTypeOK

LEMMA HashPurge ==
    ASSUME NEW s \in Specs, InductiveInvariant, HashOK(s), faults' = faults, Purge
    PROVE  HashOK(s)'
<1>. TypeOK /\ cur \in CRs
  BY DEF InductiveInvariant, PassOK, TypeOK, WorkerTypeOK, Purge
<1>1. /\ rows' = [rows EXCEPT ![cur] = NoSpec] /\ crState' = [crState EXCEPT ![cur] = NoHash]
      /\ Goto("dropFinalizer") /\ pc = "purge"
  BY TransactionDone DEF Purge, TypeOK
<1>2. CRHash(s) # NoHash
  BY ConstantsAssumption DEF Hashes
<1>. QED
  BY <1>1, <1>2 DEF HashOK, HashFollowed, Goto, TypeOK, DatabaseTypeOK

\* The stored hash is the spec's; if it was before, its rows are there.
LEMMA HashStored ==
    ASSUME NEW s \in Specs, InductiveInvariant, HashOK(s), faults' = faults, HasCRChanged
    PROVE  HashOK(s)'
<1>. TypeOK /\ cur \in CRs
  BY DEF InductiveInvariant, PassOK, TypeOK, WorkerTypeOK, HasCRChanged
<1>1. /\ rows' = rows /\ crState' = [crState EXCEPT ![cur] = CRHash(snap.spec)]
      /\ changed' = (crState[cur] # CRHash(snap.spec))
      /\ Goto("decide") /\ snap' = snap /\ pc = "hash"
  <2>1. PICK ok \in BOOLEAN :
          /\ Transaction(rows, [crState EXCEPT ![cur] = CRHash(snap.spec)], ok)
          /\ IF ok
             THEN /\ changed' = (crState[cur] # CRHash(snap.spec))
                  /\ Goto("decide")
                  /\ UNCHANGED <<snap, fresh, trig, found>>
             ELSE Fail
    BY DEF HasCRChanged
  <2>. QED
    BY <2>1, TransactionDone DEF HasCRChanged, TypeOK
<1>2. cur' = cur /\ pc' = "decide" /\ \A c \in CRs \ {cur} : crState'[c] = crState[c]
  BY <1>1 DEF Goto, TypeOK, DatabaseTypeOK
<1>3. ~changed' /\ snap.spec = s => rows[cur] = s
  BY <1>1 DEF HashOK, HashFollowed
<1>4. HashFollowed(s)'
  BY <1>1, <1>2 DEF HashOK, HashFollowed
<1>. QED
  BY <1>1, <1>2, <1>3, <1>4 DEF HashOK

\* The defaults do not make a schedule.
LEMMA ModeOnDemand ==
    ASSUME OnDemand, NEW t \in getReconcileTriggerConfig(operators)
    PROVE  t.mode # "scheduled"
<1>1. DefaultTrigger.mode = "immediate"
  BY DEF DefaultTrigger, Trigger
<1>2. ASSUME NEW u \in operators PROVE WithDefaults(u).mode # "scheduled"
  BY DEF OnDemand, WithDefaults, Trigger
<1>. QED
  BY <1>1, <1>2 DEF getReconcileTriggerConfig

\* Out of a schedule, a change proceeds, and what is skipped has its rows.
LEMMA HashDecide ==
    ASSUME NEW s \in Specs, InductiveInvariant, HashOK(s), OnDemand, faults' = faults, Decide
    PROVE  HashOK(s)'
<1>. TypeOK
  BY DEF InductiveInvariant
<1>1. PICK t \in getReconcileTriggerConfig(operators) :
        IF shouldReconcile(t, changed).proceed
        THEN trig' = t /\ Goto("openstack") /\ UNCHANGED <<snap, fresh, changed, found>>
        ELSE Return(shouldReconcile(t, changed).after)
  BY DEF Decide, Fault, TypeOK, BudgetTypeOK
<1>2. changed => shouldReconcile(t, changed).proceed
  BY ModeOnDemand DEF shouldReconcile, Proceed
<1>3. rows' = rows /\ crState' = crState /\ pc = "decide"
  BY DEF Decide, db
<1>4. CASE shouldReconcile(t, changed).proceed
  BY <1>1, <1>3, <1>4 DEF HashOK, HashFollowed, Goto
<1>5. CASE ~shouldReconcile(t, changed).proceed
  <2>1. pc' = "idle"
    BY <1>1, <1>5 DEF Return, Finish, EndPass
  <2>2. CASE snap.spec = s
    BY <1>2, <1>3, <1>5, <2>1, <2>2 DEF HashOK, HashFollowed
  <2>3. CASE snap.spec # s
    BY <1>3, <2>1, <2>3, HashOther DEF Underway
  <2>. QED
    BY <2>2, <2>3
<1>. QED
  BY <1>4, <1>5

\* What OpenStack has for s is enough for the whole pass.
LEMMA HashSearch ==
    ASSUME NEW s \in Specs, InductiveInvariant, HashOK(s), Available(s), faults' = faults,
           QueryOpenStack \/ SubnetNotFound \/ NoTargetVMs \/ FindPorts
    PROVE  HashOK(s)'
<1>. ~Fault
  BY DEF Fault, InductiveInvariant, TypeOK, BudgetTypeOK
<1>1. CASE QueryOpenStack
  BY <1>1 DEF QueryOpenStack, AfterQuery, Goto, db, locals, HashOK, HashFollowed
<1>2. CASE FindPorts
  BY <1>2 DEF FindPorts, Goto, db, HashOK, HashFollowed, Available
<1>3. CASE SubnetNotFound \/ NoTargetVMs
  <2>1. /\ pc = "openstack" /\ snap.spec # s
        /\ UNCHANGED <<rows, crState>> /\ pc' = "idle"
    BY <1>3 DEF SubnetNotFound, NoTargetVMs, Available, Fail, Return, Finish, EndPass, db
  <2>. QED
    BY <2>1, HashOther DEF Underway
<1>. QED
  BY <1>1, <1>2, <1>3

LEMMA HashCommit ==
    ASSUME NEW s \in Specs, InductiveInvariant, HashOK(s), faults' = faults, CommitRows
    PROVE  HashOK(s)'
<1>. TypeOK /\ cur \in CRs
  BY DEF InductiveInvariant, PassOK, TypeOK, WorkerTypeOK, CommitRows
<1>1. /\ rows' = [rows EXCEPT ![cur] = RowsOf(snap.spec, found)] /\ crState' = crState
      /\ Goto("status") /\ pc = "commit"
  BY TransactionDone DEF CommitRows, TypeOK
<1>2. pc' = "status" /\ \A c \in CRs \ {cur} : rows'[c] = rows[c]
  BY <1>1 DEF Goto, TypeOK, DatabaseTypeOK
<1>3. CASE snap.spec = s
  <2>1. rows'[cur] = s
    BY <1>1, <1>3 DEF HashOK, RowsOf, TypeOK, DatabaseTypeOK
  <2>. QED
    BY <1>1, <1>2, <2>1 DEF HashOK, HashFollowed
<1>4. CASE snap.spec # s
  BY <1>1, <1>2, <1>4, HashOther DEF Underway
<1>. QED
  BY <1>3, <1>4

LEMMA HashStep ==
    ASSUME NEW s \in Specs, InductiveInvariant, HashOK(s), OnDemand, Available(s),
           faults' = faults, [Next]_vars
    PROVE  HashOK(s)'
<1>1. ~Fault
  BY DEF Fault, InductiveInvariant, TypeOK, BudgetTypeOK
<1>2. CASE UserStep \/ \E c \in CRs : Watch(c) \/ Timer(c)
  BY <1>2, HashKept
     DEF UserStep, CreateCR, EditSpec, Touch, DeleteCR, SetOperators, ChangeOpenStack,
         UserWrite, Watch, Timer, pass, locals, db
<1>3. CASE \E c \in CRs : Begin(c)
  BY <1>3, HashKept DEF Begin, db, Underway
<1>4. CASE EnsureDB \/ GetCR \/ AddFinalizer \/ DropFinalizer \/ PublishStatus
  <2>1. UNCHANGED <<rows, crState>> /\ pc \notin Underway
    BY <1>4 DEF EnsureDB, GetCR, AddFinalizer, DropFinalizer, PublishStatus, db, Underway
  <2>2. pc' \notin Underway
    BY <1>4 DEF EnsureDB, GetCR, NextStep, AddFinalizer, DropFinalizer, PublishStatus, Goto,
                Fail, Return, Finish, EndPass, Underway
  <2>. QED
    BY <2>1, <2>2, HashKept
<1>5. CASE QueryOpenStack \/ SubnetNotFound \/ NoTargetVMs \/ FindPorts
  BY <1>5, HashSearch
<1>6. CASE UNCHANGED vars
  BY <1>6, HashKept DEF vars, pass, locals, db
<1>7. ~OpenStackFails /\ ~Crash
  BY <1>1 DEF OpenStackFails, Crash
<1>. QED
  BY <1>2, <1>3, <1>4, <1>5, <1>6, <1>7, HashPurge, HashStored, HashDecide, HashCommit
     DEF Next, WorkerStep

\* In every mode that acts on demand, the hash of an edit is never left without
\* its rows (OCC 1419-1423, then 1527-1533) unless a call fails or OpenStack
\* does not have, all along, what the spec asks for.
THEOREM EditsAreLostForCause == Spec => EditsLostForCause
<1>1. ASSUME NEW s \in Specs
      PROVE  Spec => ([]Unhindered(s) => []HashFollowed(s))
  <2>1. InductiveInvariant /\ HashOK(s) /\ Unhindered(s) /\ Unhindered(s)' /\ [Next]_vars
          => HashOK(s)'
    BY HashStep DEF Unhindered
  <2>2. HashOK(s) => HashFollowed(s)
    BY DEF HashOK
  <2>3. Init => HashOK(s)
    BY HashInit
  <2>. QED
    BY <2>1, <2>2, <2>3, Invariance, PTL DEF Spec
<1>. QED
  BY <1>1 DEF EditsLostForCause

-----------------------------------------------------------------------------
(* ... and then for good. *)

\* The hash of c's spec s is stored and its rows are not there, and no pass is
\* on its way that found it changed: the end of a pass that failed.
Lost(c, s) ==
    /\ crState[c] = CRHash(s) /\ rows[c] # s
    /\ lag[c] # "spec"
    /\ cache[c] # NoObj /\ cache[c].spec = s /\ ~cache[c].del
    /\ cur = c => \/ pc \in {"ensureDB", "get", "addFinalizer"}
                  \/ pc \in {"hash", "decide"} /\ snap.spec = s
    /\ cur = c /\ pc = "decide" => ~changed

\* Nobody but its user writes a new generation of a CR that stays.
LEMMA LostSeen ==
    ASSUME InductiveInvariant, NEW c \in CRs, NEW s \in Specs, Lost(c, s),
           Settled(c, s), Settled(c, s)', [Next]_vars
    PROVE  /\ lag'[c] # "spec"
           /\ cache'[c] # NoObj /\ cache'[c].spec = s /\ ~cache'[c].del
<1>. TypeOK /\ KubeTypeOK
  BY DEF InductiveInvariant, TypeOK
<1>. Exists(c) /\ ~api[c].del /\ api[c].spec = s /\ api'[c] # NoObj /\ ~api'[c].del
     /\ api'[c].spec = s
  BY DEF Settled, Exists
<1>. lag[c] # "spec" /\ cache[c] # NoObj /\ cache[c].spec = s /\ ~cache[c].del
  BY DEF Lost
<1>1. CASE UserStep
  <2>1. UNCHANGED cache
    BY <1>1 DEF UserStep, CreateCR, EditSpec, Touch, DeleteCR, SetOperators, ChangeOpenStack,
                UserWrite, kube
  <2>2. lag'[c] = lag[c] \/ lag'[c] = "meta"
    <3>1. ASSUME NEW d \in CRs, CreateCR(d) PROVE d # c /\ lag'[c] = lag[c]
      BY <3>1 DEF CreateCR, UserWrite, WriteCR, Exists, KubeTypeOK
    <3>2. ASSUME NEW d \in CRs, EditSpec(d) PROVE d # c /\ lag'[c] = lag[c]
      <4>1. PICK t \in Specs \ {api[d].spec} : UserWrite(d, [api[d] EXCEPT !.spec = t], "spec")
        BY <3>2 DEF EditSpec
      <4>2. d = c => api'[c].spec = t
        <5>1. d = c => api'[c] = [api[c] EXCEPT !.spec = t] /\ api[c] \in Objects
          BY <4>1 DEF UserWrite, WriteCR, KubeTypeOK, Exists
        <5>. QED
          BY <5>1 DEF Objects
      <4>. QED
        BY <4>1, <4>2 DEF UserWrite, WriteCR, KubeTypeOK
    <3>3. ASSUME NEW d \in CRs, DeleteCR(d) PROVE d # c /\ lag'[c] = lag[c]
      <4>1. d = c => api'[c] = NoObj \/ (api'[c] = [api[c] EXCEPT !.del = TRUE] /\ api[c] \in Objects)
        BY <3>3 DEF DeleteCR, UserWrite, WriteCR, KubeTypeOK, Exists
      <4>2. d # c
        BY <4>1 DEF Objects
      <4>. QED
        BY <3>3, <4>2 DEF DeleteCR, UserWrite, WriteCR, KubeTypeOK
    <3>4. ASSUME NEW d \in CRs, Touch(d) PROVE lag'[c] = lag[c] \/ lag'[c] = "meta"
      BY <3>4 DEF Touch, UserWrite, WriteCR, KubeTypeOK
    <3>. QED
      BY <1>1, <3>1, <3>2, <3>3, <3>4 DEF UserStep, SetOperators, ChangeOpenStack, kube
  <2>. QED
    BY <2>1, <2>2
<1>2. CASE WorkerStep
  <2>1. cache' = cache
    BY <1>2 DEF WorkerStep, EnsureDB, GetCR, AddFinalizer, Purge, DropFinalizer, HasCRChanged,
                Decide, QueryOpenStack, OpenStackFails, SubnetNotFound, NoTargetVMs, FindPorts,
                CommitRows, PublishStatus, kube
  <2>2. ASSUME DropFinalizer PROVE lag'[c] = lag[c]
    <3>1. cur # c /\ cur \in CRs
      BY <2>2 DEF DropFinalizer, Lost, InductiveInvariant, PassOK, TypeOK, WorkerTypeOK
    <3>. QED
      BY <2>2, <3>1, UpdateEffect DEF DropFinalizer, WriteCR, TypeOK, KubeTypeOK
  <2>3. ASSUME AddFinalizer \/ PublishStatus PROVE lag'[c] = lag[c] \/ lag'[c] = "meta"
    BY <2>3, UpdateEffect DEF AddFinalizer, PublishStatus, WriteCR, TypeOK, KubeTypeOK
  <2>4. ASSUME OpenStackFails \/ NoTargetVMs PROVE lag'[c] = lag[c] \/ lag'[c] = "meta"
    BY <2>4 DEF OpenStackFails, NoTargetVMs, TryErrorStatus, KeepCRs, WriteCR, KubeTypeOK
  <2>5. ASSUME \/ EnsureDB \/ GetCR \/ Purge \/ HasCRChanged \/ Decide \/ QueryOpenStack
               \/ SubnetNotFound \/ FindPorts \/ CommitRows
        PROVE  lag' = lag
    BY <2>5 DEF EnsureDB, GetCR, Purge, HasCRChanged, Decide, QueryOpenStack, SubnetNotFound,
                FindPorts, CommitRows, kube
  <2>. QED
    BY <1>2, <2>1, <2>2, <2>3, <2>4, <2>5 DEF WorkerStep
<1>3. CASE \E d \in CRs : Watch(d)
  BY <1>3 DEF Watch, KubeTypeOK, Exists
<1>4. CASE (\E d \in CRs : Timer(d) \/ Begin(d)) \/ UNCHANGED vars
  BY <1>4 DEF Timer, Begin, vars, kube
<1>5. CASE Crash
  BY <1>5 DEF Crash, Exists
<1>. QED
  BY <1>1, <1>2, <1>3, <1>4, <1>5 DEF Next

\* Passes of other CRs do not touch c, and those of c find nothing changed.
LEMMA LostUnseen ==
    ASSUME InductiveInvariant, NEW c \in CRs, NEW s \in Specs, Lost(c, s), OnDemand,
           [Next]_vars
    PROVE  /\ crState'[c] = CRHash(s) /\ rows'[c] # s
           /\ cur' = c => \/ pc' \in {"ensureDB", "get", "addFinalizer"}
                          \/ pc' \in {"hash", "decide"} /\ snap'.spec = s
           /\ cur' = c /\ pc' = "decide" => ~changed'
<1>. TypeOK /\ DatabaseTypeOK
  BY DEF InductiveInvariant, TypeOK
<1>1. CASE UserStep \/ \E d \in CRs : Watch(d) \/ Timer(d)
  <2>1. UNCHANGED <<crState, rows, pc, cur, snap, changed>>
    BY <1>1 DEF UserStep, CreateCR, EditSpec, Touch, DeleteCR, SetOperators, ChangeOpenStack,
                UserWrite, Watch, Timer, pass, locals, db
  <2>. QED
    BY <2>1 DEF Lost
<1>2. CASE \E d \in CRs : Begin(d)
  BY <1>2 DEF Begin, db, Lost
<1>3. CASE Crash
  BY <1>3, ConstantsAssumption DEF Crash, EndPass, db, Lost
<1>4. CASE UNCHANGED vars
  BY <1>4 DEF vars, pass, locals, db, Lost
<1>5. CASE WorkerStep
  <2>. cur \in CRs
    BY <1>5 DEF InductiveInvariant, PassOK, TypeOK, WorkerTypeOK, WorkerStep, EnsureDB, GetCR,
         AddFinalizer, Purge, DropFinalizer, HasCRChanged, Decide, QueryOpenStack,
         OpenStackFails, SubnetNotFound, NoTargetVMs, FindPorts, CommitRows, PublishStatus
  <2>0. cur' = cur \/ cur' = NoCR
    BY <1>5 DEF WorkerStep, EnsureDB, GetCR,
         AddFinalizer, Purge, DropFinalizer, HasCRChanged, Decide, QueryOpenStack,
         OpenStackFails, SubnetNotFound, NoTargetVMs, FindPorts, CommitRows, PublishStatus,
         Goto, Return, Fail, Finish, EndPass
  <2>1. CASE cur # c
    <3>1. rows'[c] = rows[c] /\ crState'[c] = crState[c]
      <4>1. CASE Purge
        <5>1. \/ rows' = rows /\ crState' = crState
              \/ /\ rows' = [rows EXCEPT ![cur] = NoSpec]
                 /\ crState' = [crState EXCEPT ![cur] = NoHash]
          BY <4>1, TransactionEffect DEF Purge, TypeOK
        <5>. QED
          BY <2>1, <5>1 DEF DatabaseTypeOK
      <4>2. CASE HasCRChanged
        <5>1. /\ rows' = rows
              /\ \/ crState' = crState
                 \/ crState' = [crState EXCEPT ![cur] = CRHash(snap.spec)]
          BY <4>2, TransactionEffect DEF HasCRChanged, TypeOK
        <5>. QED
          BY <2>1, <5>1 DEF DatabaseTypeOK
      <4>3. CASE CommitRows
        <5>1. /\ crState' = crState
              /\ rows' = rows \/ rows' = [rows EXCEPT ![cur] = RowsOf(snap.spec, found)]
          BY <4>3, TransactionEffect DEF CommitRows, TypeOK
        <5>. QED
          BY <2>1, <5>1 DEF DatabaseTypeOK
      <4>. QED
        BY <1>5, <4>1, <4>2, <4>3
           DEF WorkerStep, EnsureDB, GetCR, AddFinalizer, DropFinalizer, Decide,
               QueryOpenStack, OpenStackFails, SubnetNotFound, NoTargetVMs, FindPorts,
               PublishStatus, db
    <3>. QED
      BY <2>0, <2>1, <3>1, ConstantsAssumption DEF Lost
  <2>2. CASE cur = c
    <3>1. CASE EnsureDB
      BY <2>2, <3>1, ConstantsAssumption DEF EnsureDB, Goto, Fail, Finish, EndPass, db, Lost
    <3>2. CASE GetCR
      BY <2>2, <3>2, ConstantsAssumption DEF GetCR, NextStep, Goto, Finish, EndPass, db, Lost
    <3>3. CASE AddFinalizer
      BY <2>2, <3>3, ConstantsAssumption DEF AddFinalizer, Fail, Finish, EndPass, db, Lost
    <3>4. CASE HasCRChanged
      <4>1. snap.spec = s
        BY <2>2, <3>4 DEF HasCRChanged, Lost
      <4>2. rows' = rows /\ crState'[c] = CRHash(s)
        BY <2>2, <3>4, <4>1, TransactionEffect
           DEF HasCRChanged, Lost, DatabaseTypeOK, TypeOK
      <4>. QED
        BY <2>2, <3>4, <4>1, <4>2, ConstantsAssumption
           DEF HasCRChanged, Goto, Fail, Finish, EndPass, Lost
    <3>5. CASE Decide
      <4>1. PICK t \in getReconcileTriggerConfig(operators) \cup {FallbackTrigger} :
              IF shouldReconcile(t, changed).proceed
              THEN trig' = t /\ Goto("openstack") /\ UNCHANGED <<snap, fresh, changed, found>>
              ELSE Return(shouldReconcile(t, changed).after)
        BY <3>5 DEF Decide
      <4>2. t.mode # "scheduled"
        BY <4>1, ModeOnDemand DEF FallbackTrigger, Trigger
      <4>3. ~changed
        BY <2>2, <3>5 DEF Decide, Lost
      <4>4. ~shouldReconcile(t, changed).proceed
        BY <4>2, <4>3 DEF shouldReconcile, SkipFor
      <4>. QED
        BY <2>2, <3>5, <4>1, <4>4, ConstantsAssumption DEF Decide, Return, Finish, EndPass, db, Lost
    <3>. QED
      BY <1>5, <2>2, <3>1, <3>2, <3>3, <3>4, <3>5
         DEF WorkerStep, Lost, Purge, DropFinalizer, QueryOpenStack, OpenStackFails,
             SubnetNotFound, NoTargetVMs, FindPorts, CommitRows, PublishStatus
  <2>. QED
    BY <2>1, <2>2
<1>. QED
  BY <1>1, <1>2, <1>3, <1>4, <1>5 DEF Next

\* An edit that was lost stays without effect in every mode that acts on demand,
\* for as long as users leave the CR alone: no retry, no skipped pass, no event
\* of the controller's own and no restart repairs it.
THEOREM LostForGood ==
    ASSUME NEW c \in CRs, NEW s \in Specs
    PROVE  Spec => [](Lost(c, s) /\ [](Settled(c, s) /\ OnDemand) => []Lost(c, s))
<1>1. InductiveInvariant /\ Lost(c, s) /\ (Settled(c, s) /\ OnDemand)
        /\ (Settled(c, s) /\ OnDemand)' /\ [Next]_vars => Lost(c, s)'
  BY LostSeen, LostUnseen DEF Lost
<1>. QED
  BY <1>1, Invariance, PTL DEF Spec
=============================================================================
