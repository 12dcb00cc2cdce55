--------------------------- MODULE MultiNicOperator ---------------------------
(***************************************************************************)
(* The MultiNicOperator controller (internal/controller/                   *)
(* multinicoperator_controller.go) and what it manages: the StatefulSet    *)
(* and the Service of MariaDB and the Deployment of the OpenstackConfig    *)
(* controller, which the protection webhook guards by a label and the      *)
(* garbage collector of Kubernetes removes when their owner is gone.       *)
(*                                                                         *)
(* The settings of a MultiNicOperator are of three sorts: those that the   *)
(* comparisons of an existing child with the wanted one look at (images,   *)
(* replicas, the type and the ports of the Service), the size of the       *)
(* database's volume, and the rest (credentials, endpoints, resources).    *)
(* Volumes and selectors are fixed: the API server refuses to change them  *)
(* in a resource that exists.                                              *)
(*                                                                         *)
(* One worker; every pass asks for another one, so that a pass may begin   *)
(* whenever the informer's cache shows the MultiNicOperator.  The cache    *)
(* lags: a pass may act on an old version, or on an earlier incarnation,   *)
(* whose UID its successor does not share.  A Get followed by an Update of *)
(* a child is one step; the conflict it may meet is one of the faults.     *)
(***************************************************************************)
EXTENDS Naturals, ProtectionWebhook

CONSTANTS
    Specs,          \* what a MultiNicOperator may say
    Installed,      \* what a Deployment installed by hand may agree with
    Namespace,      \* where it lives
    Webhook,        \* does the cluster use the webhook?
    MaxUserOps,     \* bound: how many times users act
    MaxFaults,      \* bound: how many calls fail
    NoOp, NoChild

Kinds == {"StatefulSet", "Service", "Deployment"}
DatabaseKinds == {"StatefulSet", "Service"}
Watched == {"StatefulSet", "Deployment"}    \* the kinds whose readiness is checked

\* The names under which the children are created.
NameOf == [StatefulSet |-> "mariadb", Service |-> "mariadb",
           Deployment |-> "multinic-controller-manager"]

Components(s) == IF s.database THEN Kinds ELSE {"Deployment"}

Phases == {"", "Error", "Pending", "Running"}
Operators == [uid: Nat, spec: Specs, fin: BOOLEAN, del: BOOLEAN, phase: Phases]

\* The UID of no owner.
Nobody == 0

\* What no update may change: the StatefulSet's volumeClaimTemplates, and the
\* Deployment's selector, which dist/install.yaml has chosen differently.
Selector == "app: multinic-controller"
ForeignSelector == "control-plane: controller-manager"

FixedOf(k, s) ==
    CASE k = "StatefulSet" -> s.storage
      [] k = "Deployment" -> Selector
      [] k = "Service" -> ""

\* owner: the UID in the owner reference.
Children == [key: {s.key : s \in Specs}, rest: {s.rest : s \in Specs},
             fixed: {s.storage : s \in Specs} \cup {Selector, ForeignSelector, ""},
             labelled: BOOLEAN, owner: Nat]

ASSUME ConstantsAssumption ==
    /\ \A s \in Specs : s.database \in BOOLEAN /\ s.protect \in BOOLEAN
    /\ Installed \subseteq Specs
    /\ NoOp \notin Operators
    /\ NoChild \notin Children
    /\ Webhook \in BOOLEAN
    /\ MaxUserOps \in Nat /\ MaxFaults \in Nat

VARIABLES
    op,         \* the MultiNicOperator: UID, spec, finalizer, deletion, phase
    uids,       \* how many UIDs were given so far
    cache,      \* the informer's copy of op
    lag,        \* has the informer yet to see a change of op?
    child,      \* the managed resources
    ready,      \* are their pods ready?
    pc,         \* the worker's next step
    snap,       \* the MultiNicOperator it read
    fresh,      \* is snap still the current version?
    seenReady,  \* the kinds that this pass found ready
    userOps,    \* how often users may still act
    faults      \* how many calls may still fail

pass == <<pc, snap, fresh, seenReady>>
informer == <<cache, lag>>
vars == <<op, uids, informer, child, ready, pass, userOps, faults>>

TypeOK ==
    /\ op \in Operators \cup {NoOp}
    /\ uids \in Nat
    /\ cache \in Operators \cup {NoOp}
    /\ lag \in BOOLEAN
    /\ child \in [Kinds -> Children \cup {NoChild}]
    /\ ready \in [Watched -> BOOLEAN]
    /\ pc \in {"idle", "finalizer", "unprotect", "release", "protect", "status", "error"} \cup Kinds
    /\ snap \in Operators \cup {NoOp}
    /\ pc = "idle" <=> snap = NoOp
    /\ fresh \in BOOLEAN
    /\ seenReady \subseteq Watched
    /\ userOps \in Nat /\ faults \in Nat

\* A Deployment of that name may have been installed by hand.
ByHand ==
    {[key |-> s.key, rest |-> s.rest, fixed |-> ForeignSelector, labelled |-> FALSE,
      owner |-> Nobody] : s \in Installed}

Init ==
    /\ op = NoOp /\ uids = 0
    /\ cache = NoOp /\ lag = FALSE
    /\ \E d \in ByHand \cup {NoChild} :
        child = [k \in Kinds |-> IF k = "Deployment" THEN d ELSE NoChild]
    /\ ready = [k \in Watched |-> FALSE]
    /\ pc = "idle" /\ snap = NoOp /\ fresh = FALSE /\ seenReady = {}
    /\ userOps = MaxUserOps /\ faults = MaxFaults

Exists == op # NoOp
Present(k) == child[k] # NoChild

Admitted(user, k) == Webhook => Handle(Namespace, k, child[k].labelled, user)

Fault == faults > 0 /\ faults' = faults - 1

-----------------------------------------------------------------------------
(* Users, pods, and the garbage collector. *)

UserOp ==
    /\ userOps > 0
    /\ userOps' = userOps - 1
    /\ UNCHANGED <<cache, pc, snap, seenReady, faults>>

\* A new version, which neither the informer nor the worker has seen.
Write(new) ==
    /\ op' = new
    /\ lag' = TRUE
    /\ fresh' = FALSE

CreateOperator ==
    /\ ~Exists
    /\ \E s \in Specs :
        Write([uid |-> uids + 1, spec |-> s, fin |-> FALSE, del |-> FALSE, phase |-> ""])
    /\ uids' = uids + 1
    /\ UNCHANGED <<child, ready>>
    /\ UserOp

EditOperator ==
    /\ Exists
    /\ \E s \in Specs \ {op.spec} : Write([op EXCEPT !.spec = s])
    /\ UNCHANGED <<uids, child, ready>>
    /\ UserOp

\* The children outlive their owner, until they are collected.
DeleteOperator ==
    /\ Exists
    /\ ~op.del
    /\ Write(IF op.fin THEN [op EXCEPT !.del = TRUE] ELSE NoOp)
    /\ UNCHANGED <<uids, child, ready>>
    /\ UserOp

UserEditsChild(k) ==
    /\ Present(k)
    /\ Admitted("user", k)
    /\ \E s \in Specs :
        /\ s.key # child[k].key
        /\ child' = [child EXCEPT ![k].key = s.key]
    /\ UNCHANGED <<op, uids, ready, lag, fresh>>
    /\ UserOp

\* The pods go with it.
Remove(k) ==
    /\ child' = [child EXCEPT ![k] = NoChild]
    /\ ready' = [w \in Watched |-> w # k /\ ready[w]]

UserDeletesChild(k) ==
    /\ Present(k)
    /\ Admitted("user", k)
    /\ Remove(k)
    /\ UNCHANGED <<op, uids, lag, fresh>>
    /\ UserOp

\* Pods start and fail.
Pods(k) ==
    /\ Present(k)
    /\ ready' = [ready EXCEPT ![k] = ~@]
    /\ UNCHANGED <<op, uids, informer, child, pass, userOps, faults>>

\* Does the UID belong to the MultiNicOperator that exists?
Owner(uid) == Exists /\ op.uid = uid

Collect(k) ==
    /\ Present(k)
    /\ child[k].owner # Nobody
    /\ ~Owner(child[k].owner)
    /\ Admitted(GarbageCollector, k)
    /\ Remove(k)
    /\ UNCHANGED <<op, uids, informer, pass, userOps, faults>>

\* The informer catches up.
Watch ==
    /\ lag
    /\ cache' = op
    /\ lag' = FALSE
    /\ UNCHANGED <<op, uids, child, ready, pass, userOps, faults>>

-----------------------------------------------------------------------------
(* The worker: Reconcile. *)

Goto(step) == pc' = step /\ UNCHANGED <<snap, fresh>>

(* Mutant: the object read by the last pass is used again. *)
ReturnWithObject == pc' = "idle" /\ fresh' = FALSE /\ seenReady' = {} /\ UNCHANGED snap

Return == pc' = "idle" /\ snap' = NoOp /\ fresh' = FALSE /\ seenReady' = {}

FirstComponent(s) == IF s.database THEN "StatefulSet" ELSE "Deployment"

(* Mutant: the components are created before the finalizer is in place. *)
FirstStepNoFinalizer(o) == IF o.del THEN "unprotect" ELSE FirstComponent(o.spec)

\* Where Reconcile goes with the object it read.
FirstStep(o) ==
    CASE o.del            -> "unprotect"
      [] ~o.del /\ ~o.fin -> "finalizer"
      [] ~o.del /\ o.fin  -> FirstComponent(o.spec)

Begin ==
    /\ pc = "idle"
    /\ cache # NoOp
    /\ cache.del => cache.fin
    /\ snap' = cache
    /\ fresh' = ~lag
    /\ pc' = FirstStep(cache)
    /\ UNCHANGED <<op, uids, informer, child, ready, seenReady, userOps, faults>>

\* One Update of the object the worker holds: an old version is refused with
\* a conflict.
Update(new) ==
    \/ fresh /\ op' = new /\ lag' = TRUE /\ UNCHANGED faults
    \/ ~fresh /\ UNCHANGED <<op, lag, faults>>
    \/ Fault /\ UNCHANGED <<op, lag>>

\* A conflict, or another error, makes the next pass try again.
AddFinalizer ==
    /\ pc = "finalizer"
    /\ Update([snap EXCEPT !.fin = TRUE])
    /\ Return
    /\ UNCHANGED <<uids, cache, child, ready, userOps>>

(* Mutant: no update is ever found necessary. *)
NeedsUpdateNever(existing, s) == FALSE

\* needsStatefulSetUpdate, needsDeploymentUpdate, needsServiceUpdate.
NeedsUpdate(existing, s) == existing.key # s.key

\* The labels are set at creation, and not by an update of the spec.
Wanted(k, o) ==
    IF Present(k)
    THEN IF NeedsUpdate(child[k], o.spec)
         THEN [child[k] EXCEPT !.key = o.spec.key, !.rest = o.spec.rest]
         ELSE child[k]
    ELSE [key |-> o.spec.key, rest |-> o.spec.rest, fixed |-> FixedOf(k, o.spec),
          labelled |-> TRUE, owner |-> o.uid]

\* The API server refuses an update that changes what is fixed, which alone is
\* no reason for an update.
Refused(k, s) ==
    Present(k) /\ NeedsUpdate(child[k], s) /\ child[k].fixed # FixedOf(k, s)

NextComponent(k) ==
    CASE k = "StatefulSet" -> "Service"
      [] k = "Service" -> "Deployment"
      [] k = "Deployment" -> "protect"

\* The readiness of the database is checked once its Service is in place.
Checked(k) == CASE k = "StatefulSet" -> {}
                [] k = "Service" -> {"StatefulSet"}
                [] k = "Deployment" -> {"Deployment"}

ReconcileComponent(k) ==
    /\ pc = k
    /\ \/ /\ ~Refused(k, snap.spec)
          /\ Present(k) /\ NeedsUpdate(child[k], snap.spec) => Admitted(OperatorAccount, k)
          /\ child' = [child EXCEPT ![k] = Wanted(k, snap)]
          /\ seenReady' = seenReady \cup {w \in Checked(k) : ready[w]}
          /\ Goto(NextComponent(k))
          /\ UNCHANGED faults
       \/ /\ Fault \/ (Refused(k, snap.spec) /\ UNCHANGED faults)
          /\ Goto("error")
          /\ UNCHANGED <<child, seenReady>>
    /\ UNCHANGED <<op, uids, informer, ready, userOps>>

\* applyProtection goes through the kinds in this order, and gives up at the
\* first it does not find or cannot update.
ProtectionOrder == <<"StatefulSet", "Deployment", "Service">>

(* Mutant: the protection returns after the first kind it has labelled. *)
LabelledUpToFirst(n) ==
    [k \in Kinds |-> IF n > 0 /\ ProtectionOrder[1] = k
                     THEN [child[k] EXCEPT !.labelled = TRUE] ELSE child[k]]

LabelledUpTo(n) ==
    [k \in Kinds |-> IF \E i \in 1..n : ProtectionOrder[i] = k
                     THEN [child[k] EXCEPT !.labelled = TRUE] ELSE child[k]]

CanLabel(k) == Present(k) /\ Admitted(OperatorAccount, k)

\* A failure of the protection is logged, and the pass goes on.
ApplyProtection ==
    /\ pc = "protect"
    /\ IF snap.spec.protect
       THEN \E n \in 0..3 :
             /\ \A i \in 1..n : CanLabel(ProtectionOrder[i])
             /\ \/ n = 3 /\ UNCHANGED faults
                \/ n < 3 /\ ~CanLabel(ProtectionOrder[n + 1]) /\ UNCHANGED faults
                \/ n < 3 /\ Fault
             /\ child' = LabelledUpTo(n)
       ELSE UNCHANGED <<child, faults>>
    /\ Goto("status")
    /\ UNCHANGED <<op, uids, informer, ready, seenReady, userOps>>

(* Mutant: the phase is "Running" when no component is ready. *)
PhaseOfNone(s, seen) == IF seen = {} THEN "Running" ELSE "Pending"

\* allComponentsReady
PhaseOf(s, seen) == IF Components(s) \cap Watched \subseteq seen THEN "Running" ELSE "Pending"

\* The outcome of the status update is ignored.
PublishStatus ==
    /\ pc \in {"status", "error"}
    /\ Update([snap EXCEPT !.phase = IF pc = "error" THEN "Error"
                                     ELSE PhaseOf(snap.spec, seenReady)])
    /\ Return
    /\ UNCHANGED <<uids, cache, child, ready, userOps>>

(* Mutant: the labels of the Service are forgotten. *)
UnprotectedNoService(s) ==
    IF s.database THEN {<<"StatefulSet", "mariadb">>} ELSE {}

\* What removeProtection asks for, by kind and name.
Unprotected(s) ==
    {<<"Deployment", "multinic-controller">>} \cup
    (IF s.database THEN {<<"StatefulSet", "mariadb">>, <<"Service", "mariadb">>} ELSE {})

\* Errors of the single calls are dropped, a resource that is not found among
\* them.
RemoveProtection ==
    /\ pc = "unprotect"
    /\ \E failed \in SUBSET Kinds :
        /\ IF failed = {} THEN UNCHANGED faults ELSE Fault
        /\ child' = [k \in Kinds |->
                       IF <<k, NameOf[k]>> \in Unprotected(snap.spec) /\ Present(k)
                             /\ Admitted(OperatorAccount, k) /\ k \notin failed
                       THEN [child[k] EXCEPT !.labelled = FALSE] ELSE child[k]]
    /\ Goto("release")
    /\ UNCHANGED <<op, uids, informer, ready, seenReady, userOps>>

(* Mutant: the finalizer is removed from the copy alone. *)
ReleasedCopy == snap

\* Without its finalizer the object is gone.
Released == NoOp

RemoveFinalizer ==
    /\ pc = "release"
    /\ Update(Released)
    /\ Return
    /\ UNCHANGED <<uids, cache, child, ready, userOps>>

-----------------------------------------------------------------------------
WorkerStep ==
    \/ Begin \/ AddFinalizer
    \/ \E k \in Kinds : ReconcileComponent(k)
    \/ ApplyProtection \/ PublishStatus \/ RemoveProtection \/ RemoveFinalizer

Next ==
    \/ CreateOperator \/ EditOperator \/ DeleteOperator
    \/ \E k \in Kinds : UserEditsChild(k) \/ UserDeletesChild(k) \/ Collect(k)
    \/ \E k \in Watched : Pods(k)
    \/ Watch
    \/ WorkerStep

Spec == Init /\ [][Next]_vars

\* Every pass asks for another one after 5, 30 or 60 seconds or fails, which
\* makes the work queue try again; the informer and the garbage collector never stop.
Fairness == WF_vars(WorkerStep) /\ WF_vars(Watch) /\ WF_vars(\E k \in Kinds : Collect(k))

FairSpec == Spec /\ Fairness

-----------------------------------------------------------------------------
(* Properties. *)

Live == Exists /\ ~op.del
Says(s) == Live /\ op.spec = s

\* No component, as it is, needs an update that is refused.
Updatable(s) == \A k \in Components(s) : ~Refused(k, s)

Held == Exists /\ op.fin

\* A MultiNicOperator that anything refers to as its owner holds the finalizer:
\* no deletion bypasses the removal of the protection.
OwnerHeld == \A k \in Kinds : Present(k) /\ Owner(child[k].owner) => op.fin

\* No pass, however old the object it holds, creates a child for an owner that
\* is gone: the garbage collector would fight it.
CreatedForOwner ==
    [][\A k \in Kinds :
         ~Present(k) /\ child'[k] # NoChild => Held /\ child'[k].owner = op.uid]_vars

\* As long as no call fails (such a failure is dropped), the finalizer goes only
\* when the database's labels are gone, in whatever pass and at whatever
\* version: nobody could remove them afterwards.
ReleasedUnprotected ==
    [][Held /\ ~Held' /\ op.spec.database /\ faults = MaxFaults =>
         \A k \in DatabaseKinds : Present(k) => ~child[k].labelled]_vars

\* A MultiNicOperator being deleted goes away, whatever fails.
DeletionCompletes == (Exists /\ op.del) ~> ~(Exists /\ op.del)

\* Automatic recovery: once the MultiNicOperator settles, its components exist
\* with the settings that are compared, whoever deleted or changed them,
\* whichever predecessor owned them, unless an update that the API server
\* refuses ends every pass before the components that follow are looked at.
ComponentsRestored ==
    \A s \in Specs :
        <>[](Says(s) /\ Updatable(s)) => <>[](\A k \in Components(s) : Present(k) /\ child[k].key = s.key)

\* The phase follows the pods, and tells of an update that is refused.
PhaseFollows ==
    /\ <>[](Live /\ Updatable(op.spec) /\ \A w \in Watched : ready[w])
           => <>[](Exists /\ op.phase = "Running")
    /\ <>[](Live /\ Updatable(op.spec) /\ ~ready["Deployment"])
           => <>[](Exists /\ op.phase = "Pending")
    /\ <>[](Live /\ ~Updatable(op.spec)) => <>[](Exists /\ op.phase = "Error")

\* With a database, mutation prevention reaches every component, also one that
\* was installed by hand.
ProtectionReaches ==
    \A s \in {r \in Specs : r.database /\ r.protect} :
        <>[](Says(s) /\ Updatable(s)) => <>[](\A k \in Kinds : Present(k) /\ child[k].labelled)

\* The database goes with the MultiNicOperator, unless it was disabled before,
\* or a label could not be removed, which is not tried again.
DatabaseCollected ==
    <>[]~Exists /\ [](Exists => op.spec.database) /\ [](faults = MaxFaults)
        => <>[](\A k \in DatabaseKinds : ~Present(k))

\* ... and so does everything else that it owned.
ChildrenCollected ==
    <>[]~Exists => <>[](\A k \in Kinds : Present(k) => child[k].owner = Nobody)

\* The other settings arrive too.
SettingsArrive ==
    \A s \in Specs :
        <>[]Says(s) => <>[](\A k \in Components(s) : Present(k) /\ child[k].rest = s.rest)

-----------------------------------------------------------------------------
(* Why the safety properties hold: an inductive invariant. *)

\* UIDs are never given twice.
UIDsOK ==
    /\ Exists => op.uid = uids
    /\ \A k \in Kinds : Present(k) => child[k].owner <= uids

\* Only the worker removes the finalizer, and only from an object whose deletion
\* the informer saw before: what the cache shows as live still holds it.
CacheOK ==
    /\ ~lag => cache = op
    /\ cache # NoOp /\ cache.fin /\ ~cache.del => Held /\ cache.uid = op.uid

\* What the worker knows at each step.
PassOK ==
    /\ pc = "finalizer" => ~snap.del
    /\ pc \in {"protect", "status", "error"} \cup Kinds => Held /\ snap.uid = op.uid
    /\ pc \in {"unprotect", "release"} => snap.del
    /\ fresh => pc # "idle" /\ ~lag /\ snap = op

HolderInvariant == TypeOK /\ UIDsOK /\ CacheOK /\ PassOK /\ OwnerHeld

\* Before the finalizer goes nobody sets a label that the pass has removed.
ReleaseOK ==
    /\ faults <= MaxFaults
    /\ pc = "release" /\ snap.spec.database /\ faults = MaxFaults =>
         \A k \in DatabaseKinds : Present(k) => ~child[k].labelled

OperatorInvariant == HolderInvariant /\ ReleaseOK
=============================================================================
