---------------------- MODULE OpenstackConfigController ----------------------
(***************************************************************************)
(* The OpenstackConfig controller (internal/controller/                    *)
(* openstackconfig_controller.go) between the Kubernetes API server and    *)
(* the MariaDB database.                                                   *)
(*                                                                         *)
(*   API server --watch--> cache --event filter--> work queue --> worker   *)
(*       ^                                            ^              |     *)
(*       |                                            +-- requeue ---+     *)
(*       +------ finalizer and status updates ---------------------- |     *)
(*                                        database transactions <----+     *)
(*                                                                         *)
(* One worker (MaxConcurrentReconciles: 1) runs Reconcile as a sequence of *)
(* steps, one per call that reads or writes outside the process.  Users    *)
(* create, edit, touch and delete CRs, and replace the MultiNicOperators,  *)
(* between any two of them, and OpenStack's VMs, subnets and ports come    *)
(* and go; any call may fail, with or without effect; the process may      *)
(* crash and restart with an empty queue and a new cache.                  *)
(*                                                                         *)
(* resourceVersion and generation are abstracted by two facts: `lag' says  *)
(* what the cache has not seen yet of a CR, and `fresh' whether the object *)
(* the worker holds is still the API server's current version, which is    *)
(* what an update is checked against.                                      *)
(*                                                                         *)
(* The rows of a CR in multi_interface are represented by the spec they    *)
(* were computed from, and what OpenStack has for a spec by how far a pass *)
(* gets with it; module InterfaceStore models the content of both.         *)
(***************************************************************************)
EXTENDS ReconcileTrigger

CONSTANTS
    CRs,            \* names of OpenstackConfig resources (namespace/name)
    Specs,          \* the specs users may give them
    OperatorSets,   \* what the MultiNicOperators of the namespace may say
    OpenStackStates,\* what Nova and Neutron may have for the specs
    MaxUserOps,     \* bound: how many times users act, on OpenStack too
    MaxFaults,      \* bound: how many calls fail, plus how many crashes
    NoCR,           \* the worker has no item
    NoObj,          \* no such object
    NoSpec,         \* no interface rows, no published VMs
    NoHash          \* no cr_state record

Statuses == {"", "Error", "Completed"}

\* An OpenstackConfig object: its spec, whether it holds the controller's
\* finalizer, whether deletionTimestamp is set, Status.Status, and
\* Status.VMNetworkInfos: the spec whose VMs it lists, and whether with a MAC.
Infos == [spec: Specs, mac: BOOLEAN]
Objects == [spec: Specs, fin: BOOLEAN, del: BOOLEAN,
            status: Statuses, infos: Infos \cup {NoSpec}]

\* How far a pass for a spec gets with what OpenStack has: none of its VMs
\* exists, there is no subnet of its name, none of the VMs has a port in the
\* subnet, or some have.
Findings == {"noVMs", "noSubnet", "noPorts", "ports"}

(* Mutant: the subnet is left out of the hashed fields. *)
CRHashNoSubnet(s) == <<s.credentials, s.vmNames>>

\* SHA-256 is taken to be injective: the hash is the tuple of the fields.
CRHash(s) == <<s.credentials, s.vmNames, s.subnetName>>
Hashes == {CRHash(s) : s \in Specs}

\* The hashed fields are all that a spec has.
ASSUME SpecFields ==
    \A s \in Specs :
        s = [credentials |-> s.credentials, vmNames |-> s.vmNames, subnetName |-> s.subnetName]

ASSUME ConstantsAssumption ==
    /\ NoCR \notin CRs
    /\ NoObj \notin Objects
    /\ NoSpec \notin Specs \cup Infos
    /\ NoHash \notin Hashes
    /\ OperatorSets \subseteq SUBSET TriggerConfigs
    /\ OperatorSets # {}
    /\ OpenStackStates \subseteq [Specs -> Findings]
    /\ OpenStackStates # {}
    /\ MaxUserOps \in Nat
    /\ MaxFaults \in Nat

VARIABLES
    api,        \* the objects in the API server
    cache,      \* the informer's copy
    lag,        \* what the copy misses: nothing, status or metadata, or more
    operators,  \* the trigger configurations of the MultiNicOperators
    openstack,  \* what OpenStack has for each spec
    queue,      \* CRs ready to be reconciled (the work queue is a set)
    delayed,    \* CRs that will be added to the queue after a delay
    pc,         \* the worker's next step
    cur,        \* the CR it reconciles
    snap,       \* the object it read from the cache
    fresh,      \* is snap the API server's current version?
    changed,    \* hasCRChanged's answer in this pass
    trig,       \* the trigger configuration of this pass
    found,      \* did this pass find a port?
    crState,    \* table cr_state: the hash stored for each CR
    rows,       \* table multi_interface: the spec each CR's rows come from
    userOps,    \* how often users may still act
    faults      \* how many faults may still happen

kube == <<api, cache, lag, operators>>
db == <<crState, rows>>
locals == <<snap, fresh, changed, trig, found>>
pass == <<pc, cur, locals>>
budget == <<userOps, faults>>
vars == <<kube, openstack, queue, delayed, pass, db, budget>>

NormalSteps == {"hash", "decide", "openstack", "ports", "commit", "status"}
DeletionSteps == {"purge", "dropFinalizer"}
Steps == {"idle", "ensureDB", "get", "addFinalizer"} \cup NormalSteps \cup DeletionSteps

KubeTypeOK ==
    /\ api \in [CRs -> Objects \cup {NoObj}]
    /\ cache \in [CRs -> Objects \cup {NoObj}]
    /\ lag \in [CRs -> {"none", "meta", "spec"}]
    /\ operators \in OperatorSets
    /\ openstack \in OpenStackStates

WorkerTypeOK ==
    /\ queue \subseteq CRs
    /\ delayed \subseteq CRs
    /\ pc \in Steps
    /\ cur \in CRs \cup {NoCR}
    /\ snap \in Objects \cup {NoObj}
    /\ fresh \in BOOLEAN
    /\ changed \in BOOLEAN
    /\ trig \in TriggerConfigs
    /\ found \in BOOLEAN

DatabaseTypeOK ==
    /\ crState \in [CRs -> Hashes \cup {NoHash}]
    /\ rows \in [CRs -> Specs \cup {NoSpec}]

BudgetTypeOK == userOps \in Nat /\ faults \in Nat

TypeOK == KubeTypeOK /\ WorkerTypeOK /\ DatabaseTypeOK /\ BudgetTypeOK

Exists(c) == api[c] # NoObj
Terminating(c) == Exists(c) /\ api[c].del
Live(o) == o # NoObj /\ o.fin /\ ~o.del

\* At process start the informer lists the CRs, and each one is queued.
Init ==
    /\ api = [c \in CRs |-> NoObj]
    /\ cache = [c \in CRs |-> NoObj]
    /\ lag = [c \in CRs |-> "none"]
    /\ operators \in OperatorSets
    /\ openstack \in OpenStackStates
    /\ queue = {}
    /\ delayed = {}
    /\ pc = "idle"
    /\ cur = NoCR
    /\ snap = NoObj
    /\ fresh = FALSE
    /\ changed = FALSE
    /\ trig = DefaultTrigger
    /\ found = FALSE
    /\ crState = [c \in CRs |-> NoHash]
    /\ rows = [c \in CRs |-> NoSpec]
    /\ userOps = MaxUserOps
    /\ faults = MaxFaults

-----------------------------------------------------------------------------
(* The API server. *)

\* A write the cache has yet to see; `kind' is "spec" for a creation, a
\* disappearance or a new generation, which the event filter always lets
\* through, and "meta" for the rest.
WriteCR(c, obj, kind) ==
    /\ api' = [api EXCEPT ![c] = obj]
    /\ lag' = [lag EXCEPT ![c] = IF @ = "spec" THEN "spec" ELSE kind]

KeepCRs == UNCHANGED <<api, lag>>

\* The write of a user invalidates the version the worker holds.
UserWrite(c, obj, kind) ==
    /\ userOps > 0
    /\ userOps' = userOps - 1
    /\ WriteCR(c, obj, kind)
    /\ fresh' = (fresh /\ c # cur)
    /\ UNCHANGED <<cache, operators, openstack, queue, delayed, pc, cur, snap, changed,
                   trig, found, db, faults>>

NewCR(s) == [spec |-> s, fin |-> FALSE, del |-> FALSE, status |-> "", infos |-> NoSpec]

CreateCR(c) ==
    /\ ~Exists(c)
    /\ \E s \in Specs : UserWrite(c, NewCR(s), "spec")

EditSpec(c) ==
    /\ Exists(c)
    /\ \E s \in Specs \ {api[c].spec} : UserWrite(c, [api[c] EXCEPT !.spec = s], "spec")

\* A label or an annotation changes: a new resourceVersion, the same generation.
Touch(c) == Exists(c) /\ UserWrite(c, api[c], "meta")

\* With a finalizer the object stays, with a deletionTimestamp (and a new
\* generation); without one it is gone.
DeleteCR(c) ==
    /\ Exists(c)
    /\ ~api[c].del
    /\ UserWrite(c, IF api[c].fin THEN [api[c] EXCEPT !.del = TRUE] ELSE NoObj, "spec")

SetOperators ==
    /\ userOps > 0
    /\ userOps' = userOps - 1
    /\ operators' \in OperatorSets \ {operators}
    /\ UNCHANGED <<api, cache, lag, openstack, queue, delayed, pass, db, faults>>

\* VMs boot or go, a subnet is created or renamed, ports are plugged: none of
\* it is an event for the controller.
ChangeOpenStack ==
    /\ userOps > 0
    /\ userOps' = userOps - 1
    /\ openstack' \in OpenStackStates \ {openstack}
    /\ UNCHANGED <<kube, queue, delayed, pass, db, faults>>

Fault ==
    /\ faults > 0
    /\ faults' = faults - 1

\* One Update, or Status().Update, of the object the worker holds.  A stale
\* version is refused with a conflict (or not found).  A failed call may have
\* been applied.
UpdateCR(obj, kind, ok) ==
    \/ ok /\ fresh /\ WriteCR(cur, obj, kind) /\ UNCHANGED faults
    \/ ~ok /\ ~fresh /\ KeepCRs /\ UNCHANGED faults
    \/ ~ok /\ KeepCRs /\ Fault
    \/ ~ok /\ fresh /\ WriteCR(cur, obj, kind) /\ Fault

-----------------------------------------------------------------------------
(* The work queue. *)

\* What TimerBasedPredicate.Update may answer to an update of a CR.  It reads
\* the trigger configuration the way the worker does; when it cannot, it lets
\* the event through.
FilterAnswers(kind) ==
    IF kind = "spec"
    THEN {TRUE}
    ELSE UNION {TimerAnswers(t) : t \in getReconcileTriggerConfig(operators)}

\* The informer catches up with a CR, and its event goes through the filter.
Watch(c) ==
    /\ lag[c] # "none"
    /\ cache' = [cache EXCEPT ![c] = api[c]]
    /\ lag' = [lag EXCEPT ![c] = "none"]
    /\ \/ FALSE \in FilterAnswers(lag[c]) /\ UNCHANGED <<queue, faults>>
       \/ TRUE \in FilterAnswers(lag[c]) /\ queue' = queue \cup {c} /\ UNCHANGED faults
       \/ lag[c] = "meta" /\ Fault /\ queue' = queue \cup {c}
    /\ UNCHANGED <<api, operators, openstack, delayed, pass, db, userOps>>

\* A delayed or rate limited item becomes ready.
Timer(c) ==
    /\ c \in delayed
    /\ delayed' = delayed \ {c}
    /\ queue' = queue \cup {c}
    /\ UNCHANGED <<kube, openstack, pass, db, budget>>

-----------------------------------------------------------------------------
(* The worker: Reconcile, one action per step. *)

Goto(step) == pc' = step /\ UNCHANGED <<queue, delayed, cur>>

\* The locals of the pass are gone.
EndPass ==
    /\ pc' = "idle"
    /\ cur' = NoCR
    /\ snap' = NoObj
    /\ fresh' = FALSE
    /\ changed' = FALSE
    /\ trig' = DefaultTrigger
    /\ found' = FALSE

(* Mutant: the delayed item is added after cur is cleared. *)
FinishLateAdd(again) ==
    /\ EndPass
    /\ delayed' = IF again THEN delayed \cup {cur'} ELSE delayed
    /\ UNCHANGED queue

(* Mutant: a pass that asks for another one is not given it. *)
FinishOnce(again) ==
    /\ EndPass
    /\ UNCHANGED <<queue, delayed>>

\* Reconcile returns; the item is added again later, or it is done.
Finish(again) ==
    /\ delayed' = IF again THEN delayed \cup {cur} ELSE delayed
    /\ EndPass
    /\ UNCHANGED queue

(* Mutant: an error is logged and swallowed. *)
FailSwallowed == Finish(FALSE)

\* An error (rate limited) or Requeue: true.
Fail == Finish(TRUE)

\* Result{RequeueAfter: d} without an error.
Return(d) == Finish(d > 0)

Begin(c) ==
    /\ pc = "idle"
    /\ c \in queue
    /\ queue' = queue \ {c}
    /\ cur' = c
    /\ pc' = "ensureDB"
    /\ UNCHANGED <<kube, openstack, delayed, locals, db, budget>>

EnsureDB ==
    /\ pc = "ensureDB"
    /\ \/ Goto("get") /\ UNCHANGED <<locals, faults>>
       \/ Fault /\ Fail
    /\ UNCHANGED <<kube, openstack, db, userOps>>

(* Mutant: reconcileNormal runs before the finalizer is in place. *)
NextStepNoFinalizer(o) ==
    IF o.del THEN (IF o.fin THEN "purge" ELSE "idle") ELSE "hash"

(* Mutant: a CR whose last pass failed is cleaned up like a deleted one. *)
NextStepPurgesFailed(o) ==
    CASE o.fin /\ (o.del \/ o.status = "Error")  -> "purge"
      [] o.fin /\ ~o.del /\ o.status # "Error"    -> "hash"
      [] ~o.fin                                  -> IF o.del THEN "idle" ELSE "addFinalizer"

\* Where Reconcile goes with the object it read.
NextStep(o) ==
    CASE o.del /\ o.fin   -> "purge"
      [] o.del /\ ~o.fin  -> "idle"
      [] ~o.del /\ ~o.fin -> "addFinalizer"
      [] OTHER            -> "hash"

GetCR ==
    /\ pc = "get"
    /\ IF cache[cur] = NoObj \/ NextStep(cache[cur]) = "idle"
       THEN Finish(FALSE)
       ELSE /\ Goto(NextStep(cache[cur]))
            /\ snap' = cache[cur]
            /\ fresh' = (lag[cur] = "none")
            /\ UNCHANGED <<changed, trig, found>>
    /\ UNCHANGED <<kube, openstack, db, budget>>

\* The update is followed by Requeue: true, or by the error.
AddFinalizer ==
    /\ pc = "addFinalizer"
    /\ \E ok \in BOOLEAN : UpdateCR([snap EXCEPT !.fin = TRUE], "meta", ok)
    /\ Fail
    /\ UNCHANGED <<cache, operators, openstack, db, userOps>>

\* A transaction that succeeds (`done' is the caller's business), is rolled
\* back, or is committed although Commit returned an error.
Transaction(newRows, newState, ok) ==
    \/ ok /\ rows' = newRows /\ crState' = newState /\ UNCHANGED faults
    \/ ~ok /\ UNCHANGED db /\ Fault
    \/ ~ok /\ rows' = newRows /\ crState' = newState /\ Fault

\* handleDeletion: the CR's multi_interface and cr_state records, together.
Purge ==
    /\ pc = "purge"
    /\ \E ok \in BOOLEAN :
        /\ Transaction([rows EXCEPT ![cur] = NoSpec], [crState EXCEPT ![cur] = NoHash], ok)
        /\ IF ok THEN Goto("dropFinalizer") /\ UNCHANGED locals
                 ELSE Fail
    /\ UNCHANGED <<kube, openstack, userOps>>

\* Without its finalizer the API server lets a terminating object go.
WithoutFinalizer(o) == IF o.del THEN NoObj ELSE [o EXCEPT !.fin = FALSE]

DropFinalizer ==
    /\ pc = "dropFinalizer"
    /\ \E ok \in BOOLEAN :
        /\ UpdateCR(WithoutFinalizer(snap), "spec", ok)
        /\ Finish(~ok)
    /\ UNCHANGED <<cache, operators, openstack, db, userOps>>

\* hasCRChanged: the new hash is stored at once, before anything was done
\* about the change.
HasCRChanged ==
    /\ pc = "hash"
    /\ LET hash == CRHash(snap.spec) IN
       \E ok \in BOOLEAN :
        /\ Transaction(rows, [crState EXCEPT ![cur] = hash], ok)
        /\ IF ok
           THEN /\ changed' = (crState[cur] # hash)
                /\ Goto("decide")
                /\ UNCHANGED <<snap, fresh, trig, found>>
           ELSE Fail
    /\ UNCHANGED <<kube, openstack, userOps>>

\* The trigger configuration, and shouldReconcile's answer under it.
Decide ==
    /\ pc = "decide"
    /\ \E t \in getReconcileTriggerConfig(operators) \cup {FallbackTrigger} :
        /\ \/ t \in getReconcileTriggerConfig(operators) /\ UNCHANGED faults
           \/ t = FallbackTrigger /\ Fault
        /\ LET decision == shouldReconcile(t, changed) IN
           IF decision.proceed
           THEN trig' = t /\ Goto("openstack") /\ UNCHANGED <<snap, fresh, changed, found>>
           ELSE Return(decision.after)
    /\ UNCHANGED <<kube, openstack, db, userOps>>

(* Mutant: the status is published before the rows are written, and the pass ends. *)
AfterQueryPublishFirst == "status"

AfterQuery == "ports"

\* Some of the servers, and the subnet, are found.
QueryOpenStack ==
    /\ pc = "openstack"
    /\ openstack[snap.spec] \in {"noPorts", "ports"}
    /\ Goto(AfterQuery)
    /\ UNCHANGED <<kube, openstack, db, budget, locals>>

\* Status "Error"; the outcome of this update is ignored.
TryErrorStatus ==
    \/ KeepCRs
    \/ fresh /\ WriteCR(cur, [snap EXCEPT !.status = "Error"], "meta")

\* A client cannot be created, a request fails, or its answer cannot be read.
\* Only the network client's failure is reported in the status.
OpenStackFails ==
    /\ pc = "openstack"
    /\ Fault
    /\ TryErrorStatus
    /\ Fail
    /\ UNCHANGED <<cache, operators, openstack, db, userOps>>

\* No network has a subnet of the name: an error, which the status does not show.
SubnetNotFound ==
    /\ pc = "openstack"
    /\ openstack[snap.spec] = "noSubnet"
    /\ Fail
    /\ UNCHANGED <<kube, openstack, db, budget>>

\* None of the CR's VMs exists, or so it looks: the status code of Nova's answer
\* is not read, and a refusal is an empty list.  Reported in the status, and no
\* error.
NoTargetVMs ==
    /\ pc = "openstack"
    /\ \/ openstack[snap.spec] = "noVMs" /\ UNCHANGED faults
       \/ Fault
    /\ TryErrorStatus
    /\ Return(getNextReconcileInterval(trig))
    /\ UNCHANGED <<cache, operators, openstack, db, userOps>>

\* The ports are looked up with the transaction open.  A lookup that fails is
\* logged and its port skipped, as is one that finds none.
FindPorts ==
    /\ pc = "ports"
    /\ \/ found' = (openstack[snap.spec] = "ports") /\ UNCHANGED faults
       \/ found' = FALSE /\ Fault
    /\ Goto("commit")
    /\ UNCHANGED <<kube, openstack, db, userOps, snap, fresh, changed, trig>>

\* The rows of a pass over a spec: if it found no port, it only deletes.
RowsOf(spec, mac) == IF mac THEN spec ELSE NoSpec

\* One transaction replaces the CR's rows.
CommitRows ==
    /\ pc = "commit"
    /\ \E ok \in BOOLEAN :
        /\ Transaction([rows EXCEPT ![cur] = RowsOf(snap.spec, found)], crState, ok)
        /\ IF ok THEN Goto("status") /\ UNCHANGED locals ELSE Fail
    /\ UNCHANGED <<kube, openstack, userOps>>

(* Mutant: a MAC is shown before its port was looked up. *)
CompletedEarlyMAC(o, mac) ==
    [o EXCEPT !.status = "Completed", !.infos = [spec |-> o.spec, mac |-> TRUE]]

\* The status lists the VMs, with or without a MAC.
Completed(o, mac) ==
    [o EXCEPT !.status = "Completed", !.infos = [spec |-> o.spec, mac |-> mac]]

PublishStatus ==
    /\ pc = "status"
    /\ \E ok \in BOOLEAN :
        /\ UpdateCR(Completed(snap, found), "meta", ok)
        /\ IF ok THEN Return(getNextReconcileInterval(trig)) ELSE Fail
    /\ UNCHANGED <<cache, operators, openstack, db, userOps>>

\* The process dies and a new one starts: what it held in memory is lost, an
\* open transaction is rolled back, the informer lists the CRs anew and each
\* of them is queued.
Crash ==
    /\ Fault
    /\ cache' = api
    /\ lag' = [c \in CRs |-> "none"]
    /\ queue' = {c \in CRs : Exists(c)}
    /\ delayed' = {}
    /\ EndPass
    /\ UNCHANGED <<api, operators, openstack, db, userOps>>

-----------------------------------------------------------------------------
UserStep ==
    \/ \E c \in CRs : CreateCR(c) \/ EditSpec(c) \/ Touch(c) \/ DeleteCR(c)
    \/ SetOperators
    \/ ChangeOpenStack

WorkerStep ==
    \/ EnsureDB \/ GetCR \/ AddFinalizer \/ Purge \/ DropFinalizer \/ HasCRChanged
    \/ Decide \/ QueryOpenStack \/ OpenStackFails \/ SubnetNotFound \/ NoTargetVMs
    \/ FindPorts \/ CommitRows \/ PublishStatus

Next ==
    \/ UserStep
    \/ WorkerStep
    \/ \E c \in CRs : Watch(c) \/ Timer(c) \/ Begin(c)
    \/ Crash

Spec == Init /\ [][Next]_vars

\* The worker, the informer and the timers never stop; the work queue is
\* first in first out, so that an item is not passed over for ever.
Fairness ==
    /\ WF_vars(WorkerStep)
    /\ \A c \in CRs : WF_vars(Watch(c)) /\ WF_vars(Timer(c)) /\ SF_vars(Begin(c))

FairSpec == Spec /\ Fairness

-----------------------------------------------------------------------------
(* Properties. *)

\* The database holds nothing of a CR that could disappear without the
\* controller's consent: as long as it has interface rows or a cr_state
\* record, the CR exists and holds the finalizer.
NoOrphanRows ==
    \A c \in CRs :
        rows[c] # NoSpec \/ crState[c] # NoHash => Exists(c) /\ api[c].fin

\* Every path of Reconcile, every early return included, leaves an existing
\* CR in the queue, delayed, being reconciled, or with an event on the way
\* that the filter cannot drop.
NeverForgotten ==
    \A c \in CRs :
        Exists(c) => c \in queue \cup delayed \/ cur = c \/ lag[c] = "spec"

\* The cr_state record of a CR goes only because it is being deleted, never
\* because an old incarnation of the same name, still in the cache, was.  Its
\* rows go for that reason, or by the commit of a pass that found no port, which
\* holds the CR by its finalizer.
RecordsRemovedForCause ==
    [][\A c \in CRs :
         /\ crState[c] # NoHash /\ crState'[c] = NoHash => Terminating(c)
         /\ rows[c] # NoSpec /\ rows'[c] = NoSpec =>
              \/ Terminating(c)
              \/ pc = "commit" /\ cur = c /\ ~found /\ Exists(c) /\ api[c].fin]_vars

\* What Status.VMNetworkInfos is set to was committed in the database first (no
\* rows if it shows no MAC), and answers the spec that the CR has at that moment.
PublishedInfosMatch ==
    [][\A c \in CRs :
         LET new == api'[c] IN
         Exists(c) /\ new # NoObj /\ new.infos \notin {NoSpec, api[c].infos}
            => /\ rows[c] = RowsOf(new.infos.spec, new.infos.mac)
               /\ new.spec = new.infos.spec
               /\ api[c].spec = new.spec]_vars

\* A CR being deleted disappears, whatever failed before.
DeletionCompletes ==
    \A c \in CRs : Terminating(c) ~> ~Terminating(c)

Settled(c, s) == Exists(c) /\ ~api[c].del /\ api[c].spec = s

\* The VMs of a spec run, its subnet exists and has ports of theirs.
Available(s) == openstack[s] = "ports"

\* Once users leave a CR alone, and what it asks for is there, its rows are
\* eventually those of its spec.  The default mode does not keep this promise
\* when a call fails.
RowsConverge ==
    \A c \in CRs, s \in Specs :
        <>[](Settled(c, s) /\ Available(s)) => <>[](rows[c] = s)

Repeats == operators # {} /\ \A t \in operators : t.mode = "scheduled"
OnDemand == \A t \in operators : t.mode # "scheduled"

\* A pass that acts on demand meets nothing that keeps it from its rows: no call
\* fails, and what the spec asks for is there.
Unhindered(s) == OnDemand /\ faults = MaxFaults /\ Available(s)

\* What holds in every mode: the rows follow the last edit if the namespace
\* ends up with a schedule, whatever failed or was missing before, and without
\* one if nothing ever fails or is missing.
EditsTakeEffect ==
    \A c \in CRs, s \in Specs :
        /\ <>[]Settled(c, s)
        /\ <>[](Repeats /\ Available(s)) \/ []Unhindered(s)
        => <>[](rows[c] = s)

\* ... and so does what its status says, on a schedule.
StatusConverges ==
    \A c \in CRs, s \in Specs :
        <>[](Settled(c, s) /\ Repeats /\ Available(s))
            => <>[](Exists(c) /\ api[c].infos = [spec |-> s, mac |-> TRUE])

\* The hash that cr_state holds of a spec is stored before the work for it (the
\* default mode never repeats a pass whose hash is there): it stands for rows,
\* or for a pass on its way to them.
HashFollowed(s) ==
    \A c \in CRs :
        crState[c] = CRHash(s) =>
            rows[c] = s \/ (cur = c /\ pc \in {"decide", "openstack", "ports", "commit"})

\* It does as long as no call fails, no schedule makes a change wait, and the
\* spec's VMs, subnet and ports are there from the start: these are the only
\* ways to lose an edit.  (A VM that boots after its CR was handled is one: no
\* call fails, and its pass is not repeated.)
EditsLostForCause == \A s \in Specs : []Unhindered(s) => []HashFollowed(s)

\* The stage of a CR's life that the finalizer is about, and the CRs the
\* database knows.
Stage(c) ==
    CASE api[c] = NoObj -> "absent"
      [] api[c] # NoObj /\ ~api[c].fin -> "new"
      [] api[c] # NoObj /\ api[c].fin /\ ~api[c].del -> "held"
      [] OTHER -> "ending"

Lifecycle == INSTANCE CRLifecycle WITH
    stage <- [c \in CRs |-> Stage(c)],
    stored <- {c \in CRs : rows[c] # NoSpec \/ crState[c] # NoHash}

\* The controller implements the abstract life cycle.
ImplementsLifecycle == Lifecycle!Spec

-----------------------------------------------------------------------------
(* Why the safety properties hold: an inductive invariant, in named parts. *)

Held(c) == Exists(c) /\ api[c].fin

\* What the worker's locals are at each step.
PassOK ==
    /\ pc = "idle" <=> cur = NoCR
    /\ pc \in {"idle", "ensureDB", "get"} => ~fresh
    /\ pc \notin {"idle", "ensureDB", "get"} => snap \in Objects
    /\ pc = "addFinalizer" => ~snap.fin /\ ~snap.del
    /\ pc \in NormalSteps => snap.fin /\ ~snap.del
    /\ pc \in DeletionSteps => snap.fin /\ snap.del

\* A version that is still current is everybody's version.
FreshOK == fresh => snap = api[cur] /\ cache[cur] = api[cur]

\* What the cache cannot have missed.
CacheOK ==
    \A c \in CRs :
        /\ lag[c] = "none" => cache[c] = api[c]
        /\ lag[c] # "spec" => (Exists(c) <=> cache[c] # NoObj)

\* Only the controller removes the finalizer, and only from a CR whose
\* deletion it saw: whatever the cache shows as live still holds it.
CacheLiveHeld == \A c \in CRs : Live(cache[c]) => Held(c)

\* If the cache shows a deletion and the CR holds the finalizer, it is not a
\* new incarnation: that one gets its finalizer only after the cache saw it.
CacheDeletionHeld ==
    \A c \in CRs : cache[c] # NoObj /\ cache[c].del /\ Held(c) => api[c].del

\* A terminating object without finalizers does not exist.
TerminatingHeld ==
    \A c \in CRs :
        /\ Terminating(c) => api[c].fin
        /\ cache[c] # NoObj /\ cache[c].del => cache[c].fin

\* The same two facts for the CR of the running pass.
PassHeld ==
    /\ pc \in NormalSteps => Held(cur)
    /\ pc \in DeletionSteps /\ Held(cur) => api[cur].del

\* What the database holds between two steps of a pass.
PassRows ==
    /\ pc = "dropFinalizer" => rows[cur] = NoSpec /\ crState[cur] = NoHash
    /\ pc = "status" => rows[cur] = RowsOf(snap.spec, found)
    /\ pc \in {"decide", "openstack", "ports", "commit", "status"}
         => crState[cur] = CRHash(snap.spec)

InductiveInvariant ==
    /\ TypeOK
    /\ PassOK
    /\ FreshOK
    /\ CacheOK
    /\ CacheLiveHeld
    /\ CacheDeletionHeld
    /\ TerminatingHeld
    /\ PassHeld
    /\ PassRows
    /\ NoOrphanRows
    /\ NeverForgotten

\* What a pass that nothing hinders knows of its rows.
HashOK(s) ==
    /\ HashFollowed(s)
    /\ pc = "decide" /\ snap.spec = s /\ ~changed => rows[cur] = s
    /\ pc = "commit" /\ snap.spec = s => found
=============================================================================
