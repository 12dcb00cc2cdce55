------------------------ MODULE MultiNicOperatorProofs ------------------------
(***************************************************************************)
(* OwnerHeld and CreatedForOwner for every set of settings, with and       *)
(* without the webhook, and for any number of incarnations of the          *)
(* MultiNicOperator.                                                       *)
(***************************************************************************)
EXTENDS MultiNicOperator, TLAPS

(* The state the operator starts in satisfies the invariant. *)
LEMMA InitOK == Init => HolderInvariant
<1> SUFFICES ASSUME Init PROVE HolderInvariant
  OBVIOUS
<1>1. ASSUME NEW d \in ByHand PROVE d \in Children /\ d.owner = 0
  <2>1. PICK s \in Specs : d = [key |-> s.key, rest |-> s.rest, fixed |-> ForeignSelector,
                               labelled |-> FALSE, owner |-> Nobody]
    BY ConstantsAssumption DEF ByHand
  <2>2. /\ s.key \in {r.key : r \in Specs}
        /\ s.rest \in {r.rest : r \in Specs}
    OBVIOUS
  <2> QED
    BY <2>1, <2>2 DEF Children, Nobody
<1>2. \A k \in Kinds : child[k] \in ByHand \cup {NoChild}
  BY DEF Init
<1>3. TypeOK
  BY <1>1, <1>2, ConstantsAssumption DEF Init, TypeOK, Kinds, Watched
<1>4. UIDsOK /\ OwnerHeld
  BY <1>1, <1>2 DEF Init, UIDsOK, OwnerHeld, Owner, Exists, Present
<1>5. CacheOK /\ PassOK
  BY DEF Init, CacheOK, PassOK, Kinds
<1> QED
  BY <1>3, <1>4, <1>5 DEF HolderInvariant

(* The labels of the first n kinds: nothing else changes. *)
LEMMA LabelledOK ==
    ASSUME TypeOK, NEW n \in 0..3, \A i \in 1..n : CanLabel(ProtectionOrder[i])
    PROVE  /\ LabelledUpTo(n) \in [Kinds -> Children \cup {NoChild}]
           /\ \A k \in Kinds :
                /\ LabelledUpTo(n)[k] # NoChild => Present(k)
                /\ Present(k) => LabelledUpTo(n)[k].owner = child[k].owner
<1>1. ASSUME NEW k \in Kinds, \E i \in 1..n : ProtectionOrder[i] = k
      PROVE  Present(k)
  BY <1>1 DEF CanLabel
<1> QED
  BY <1>1, ConstantsAssumption DEF LabelledUpTo, TypeOK, Children, Present

(* What a component becomes: a child, of its former owner, or, if it is new, *)
(* of the object the worker holds.                                           *)
LEMMA WantedOK ==
    ASSUME TypeOK, NEW k \in Kinds, NEW o \in Operators
    PROVE  /\ Wanted(k, o) \in Children
           /\ Wanted(k, o) # NoChild
           /\ Wanted(k, o).owner = IF Present(k) THEN child[k].owner ELSE o.uid
<1>1. Present(k) => child[k] \in Children
  BY DEF TypeOK, Present
<1>2. /\ o.spec \in Specs /\ o.uid \in Nat
      /\ o.spec.key \in {r.key : r \in Specs}
      /\ o.spec.rest \in {r.rest : r \in Specs}
      /\ FixedOf(k, o.spec) \in {r.storage : r \in Specs} \cup {Selector, ForeignSelector, ""}
  BY DEF Operators, FixedOf, Kinds
<1>3. /\ Wanted(k, o) \in Children
      /\ Wanted(k, o).owner = IF Present(k) THEN child[k].owner ELSE o.uid
  BY <1>1, <1>2 DEF Wanted, Children
<1> QED
  BY <1>3, ConstantsAssumption

(* Users leave the worker alone. *)
LEMMA UserOpKeepsTypes ==
    ASSUME TypeOK, UserOp,
           op' \in Operators \cup {NoOp},
           uids' \in Nat,
           lag' \in BOOLEAN,
           child' \in [Kinds -> Children \cup {NoChild}],
           ready' = ready,
           fresh' \in BOOLEAN
    PROVE  TypeOK'
<1>1. userOps' \in Nat /\ faults' \in Nat
  BY DEF UserOp, TypeOK
<1>2. ready' \in [Watched -> BOOLEAN] /\ cache' \in Operators \cup {NoOp}
  BY DEF UserOp, TypeOK
<1>3. /\ (pc = "idle" <=> snap = NoOp)'
      /\ snap' \in Operators \cup {NoOp}
      /\ pc' = pc
      /\ seenReady' \subseteq Watched
  BY DEF UserOp, TypeOK
<1> QED
  BY <1>1, <1>2, <1>3 DEF TypeOK

(* Children that disappear, or change without changing their owner, disturb  *)
(* nothing that is said of owners.                                           *)
LEMMA OwnersKept ==
    ASSUME UIDsOK, OwnerHeld, UNCHANGED <<op, uids>>,
           \A k \in Kinds : Present(k)' => Present(k) /\ child'[k].owner = child[k].owner
    PROVE  UIDsOK' /\ OwnerHeld'
BY DEF UIDsOK, OwnerHeld, Owner, Exists, Present

(* Users change the MultiNicOperator. *)
LEMMA UsersOfOperatorKeep ==
    ASSUME HolderInvariant, CreateOperator \/ EditOperator \/ DeleteOperator
    PROVE  HolderInvariant'
<1> USE ConstantsAssumption DEF HolderInvariant
<1>0. /\ UserOp /\ child' = child /\ ready' = ready
      /\ lag' = TRUE /\ fresh' = FALSE
      /\ UNCHANGED <<cache, pc, snap>>
  BY DEF CreateOperator, EditOperator, DeleteOperator, Write, UserOp
<1>1. CASE CreateOperator
  <2>1. PICK s \in Specs :
          op' = [uid |-> uids + 1, spec |-> s, fin |-> FALSE, del |-> FALSE, phase |-> ""]
    BY <1>1 DEF CreateOperator, Write
  <2>2. uids \in Nat /\ uids' = uids + 1 /\ uids + 1 \in Nat /\ uids' \in Nat
    <3>1. uids \in Nat /\ uids' = uids + 1
      BY <1>1 DEF CreateOperator, TypeOK
    <3> QED
      BY <3>1
  <2>3. op' \in Operators /\ op'.uid = uids'
    BY <2>1, <2>2 DEF Operators, Phases
  <2>4. TypeOK'
    <3>1. child' \in [Kinds -> Children \cup {NoChild}]
      BY <1>0 DEF TypeOK
    <3> QED
      BY <1>0, <2>2, <2>3, <3>1, UserOpKeepsTypes
  <2>5. \A k \in Kinds : Present(k)' => child'[k].owner \in Nat /\ child'[k].owner <= uids
    BY <1>0 DEF Present, UIDsOK, TypeOK, Children
  <2>6. UIDsOK' /\ OwnerHeld'
    BY <2>2, <2>3, <2>5 DEF UIDsOK, OwnerHeld, Owner, Exists
  <2>7. CacheOK' /\ PassOK'
    BY <1>0, <1>1 DEF CreateOperator, CacheOK, PassOK, Held, Exists
  <2> QED
    BY <2>4, <2>6, <2>7
<1>2. CASE EditOperator \/ (DeleteOperator /\ op.fin)
  <2>1. /\ op \in Operators
        /\ op' \in Operators
        /\ op'.fin = op.fin /\ op'.uid = op.uid
    <3>1. op \in Operators
      BY <1>2 DEF EditOperator, DeleteOperator, Exists, TypeOK
    <3>2. \/ \E s \in Specs : op' = [op EXCEPT !.spec = s]
          \/ op' = [op EXCEPT !.del = TRUE]
      BY <1>2 DEF EditOperator, DeleteOperator, Write
    <3> QED
      BY <3>1, <3>2 DEF Operators
  <2>2. uids' = uids
    BY <1>2 DEF EditOperator, DeleteOperator
  <2>3. TypeOK'
    BY <1>0, <2>1, <2>2, UserOpKeepsTypes DEF TypeOK
  <2>4. UIDsOK' /\ OwnerHeld'
    BY <1>0, <2>1, <2>2 DEF UIDsOK, OwnerHeld, Owner, Exists, Present
  <2>5. CacheOK' /\ PassOK'
    BY <1>0, <2>1 DEF CacheOK, PassOK, Held, Exists
  <2> QED
    BY <2>3, <2>4, <2>5
<1>3. CASE DeleteOperator /\ ~op.fin
  <2>1. op' = NoOp /\ uids' = uids
    BY <1>3 DEF DeleteOperator, Write
  <2>2. TypeOK'
    BY <1>0, <2>1, UserOpKeepsTypes DEF TypeOK
  <2>3. UIDsOK' /\ OwnerHeld'
    BY <1>0, <2>1 DEF UIDsOK, OwnerHeld, Owner, Exists, Present
  <2>4. CacheOK' /\ PassOK'
    BY <1>0, <1>3 DEF CacheOK, PassOK, Held
  <2> QED
    BY <2>2, <2>3, <2>4
<1> QED
  BY <1>1, <1>2, <1>3

(* Users, pods, the garbage collector and the informer keep the invariant. *)
LEMMA EnvironmentKeeps ==
    ASSUME HolderInvariant,
           \/ \E k \in Kinds : UserEditsChild(k) \/ UserDeletesChild(k) \/ Collect(k)
           \/ \E k \in Watched : Pods(k)
           \/ Watch
    PROVE  HolderInvariant'
<1> USE ConstantsAssumption DEF HolderInvariant
<1>1. ASSUME NEW k \in Kinds, UserEditsChild(k) PROVE HolderInvariant'
  <2>1. PICK s \in Specs : child' = [child EXCEPT ![k].key = s.key]
    BY <1>1 DEF UserEditsChild
  <2>2. child[k] \in Children
    BY <1>1 DEF UserEditsChild, TypeOK, Present
  <2>3. child' \in [Kinds -> Children \cup {NoChild}]
    BY <2>1, <2>2 DEF TypeOK, Children
  <2>4. \A l \in Kinds : Present(l)' => Present(l) /\ child'[l].owner = child[l].owner
    BY <2>1, <2>2 DEF TypeOK, Present, Children
  <2>5. UserOp /\ UNCHANGED <<op, uids, cache, lag, ready, pc, snap, fresh>>
    BY <1>1 DEF UserEditsChild, UserOp
  <2>6. TypeOK'
    BY <2>3, <2>5, UserOpKeepsTypes DEF TypeOK
  <2>7. UIDsOK' /\ OwnerHeld'
    BY <2>4, <2>5, OwnersKept
  <2>8. CacheOK' /\ PassOK'
    BY <2>5 DEF CacheOK, PassOK, Held, Exists
  <2> QED
    BY <2>6, <2>7, <2>8
<1>2. ASSUME NEW k \in Kinds, UserDeletesChild(k) \/ Collect(k) PROVE HolderInvariant'
  <2>1. child' = [child EXCEPT ![k] = NoChild] /\ ready' \in [Watched -> BOOLEAN]
    <3>1. PICK w \in [Watched -> BOOLEAN] : ready = w
      BY DEF TypeOK
    <3>2. Remove(k)
      BY <1>2 DEF UserDeletesChild, Collect
    <3> QED
      BY <3>1, <3>2 DEF Remove
  <2>2. /\ UNCHANGED <<op, uids, cache, lag, pc, snap, fresh, seenReady>>
        /\ userOps' \in Nat /\ faults' \in Nat
    BY <1>2 DEF UserDeletesChild, Collect, UserOp, pass, informer, TypeOK
  <2>3. TypeOK'
    BY <2>1, <2>2 DEF TypeOK
  <2>4. \A l \in Kinds : Present(l)' => Present(l) /\ child'[l].owner = child[l].owner
    BY <2>1 DEF TypeOK, Present
  <2>5. UIDsOK' /\ OwnerHeld'
    BY <2>2, <2>4, OwnersKept
  <2>6. CacheOK' /\ PassOK'
    BY <2>2 DEF CacheOK, PassOK, Held, Exists
  <2> QED
    BY <2>3, <2>5, <2>6
<1>3. ASSUME NEW k \in Watched, Pods(k) PROVE HolderInvariant'
  <2>1. TypeOK'
    BY <1>3 DEF Pods, pass, informer, TypeOK
  <2>2. UIDsOK' /\ OwnerHeld'
    BY <1>3, OwnersKept DEF Pods, Present
  <2>3. CacheOK' /\ PassOK'
    BY <1>3 DEF Pods, pass, informer, CacheOK, PassOK, Held, Exists
  <2> QED
    BY <2>1, <2>2, <2>3
<1>4. CASE Watch
  <2>1. TypeOK'
    BY <1>4 DEF Watch, pass, TypeOK
  <2>2. UIDsOK' /\ OwnerHeld'
    BY <1>4, OwnersKept DEF Watch, Present
  <2>3. CacheOK' /\ PassOK'
    BY <1>4 DEF Watch, pass, CacheOK, PassOK, Held, Exists
  <2> QED
    BY <2>1, <2>2, <2>3
<1> QED
  BY <1>1, <1>2, <1>3, <1>4

(* A pass that returns leaves nothing behind. *)
LEMMA ReturnOK ==
    ASSUME TypeOK, Return, UNCHANGED <<uids, cache, child, ready, userOps>>,
           faults' \in Nat, lag' \in BOOLEAN, op' \in Operators \cup {NoOp}
    PROVE  TypeOK' /\ PassOK'
<1>1. pc' = "idle" /\ snap' = NoOp /\ fresh' = FALSE /\ seenReady' = {}
  BY DEF Return
<1>2. TypeOK'
  BY <1>1 DEF TypeOK
<1>3. PassOK'
  BY <1>1 DEF PassOK, Kinds
<1> QED
  BY <1>2, <1>3

(* Every step of the worker keeps the invariant. *)
LEMMA WorkerKeeps ==
    ASSUME HolderInvariant, WorkerStep
    PROVE  HolderInvariant'
<1> USE ConstantsAssumption DEF HolderInvariant
<1>1. CASE Begin
  <2>1. /\ cache \in Operators /\ cache # NoOp
        /\ cache.fin \in BOOLEAN /\ cache.del \in BOOLEAN /\ cache.spec \in Specs
        /\ UNCHANGED <<op, uids, cache, lag, child, ready, seenReady, userOps, faults>>
        /\ snap' = cache /\ fresh' = ~lag /\ pc' = FirstStep(cache)
    BY <1>1 DEF Begin, TypeOK, Operators, informer
  <2>2. /\ cache.del => FirstStep(cache) = "unprotect"
        /\ ~cache.del /\ ~cache.fin => FirstStep(cache) = "finalizer"
        /\ ~cache.del /\ cache.fin => FirstStep(cache) \in Kinds
    BY <2>1 DEF FirstStep, FirstComponent, Kinds
  <2>3. TypeOK'
    BY <2>1, <2>2 DEF TypeOK, Kinds
  <2>4. PassOK'
    BY <2>1, <2>2 DEF PassOK, CacheOK, Held, Exists, Kinds
  <2>5. UIDsOK' /\ OwnerHeld'
    BY <2>1, OwnersKept DEF Present
  <2>6. CacheOK'
    BY <2>1 DEF CacheOK, Held, Exists
  <2> QED
    BY <2>3, <2>4, <2>5, <2>6
<1>2. CASE AddFinalizer
  <2>1. /\ Return /\ UNCHANGED <<uids, cache, child, ready, userOps>>
        /\ faults' \in Nat
        /\ \/ UNCHANGED <<op, lag>>
           \/ /\ fresh /\ snap = op /\ lag' = TRUE
              /\ op' = [snap EXCEPT !.fin = TRUE]
    <3>1. faults' \in Nat
      BY <1>2 DEF AddFinalizer, Update, Fault, TypeOK
    <3> QED
      BY <1>2, <3>1 DEF AddFinalizer, Update, PassOK
  <2>2. pc = "finalizer" /\ snap \in Operators
    BY <1>2 DEF AddFinalizer, TypeOK
  <2>3. CASE UNCHANGED <<op, lag>>
    <3>1. TypeOK' /\ PassOK'
      BY <2>1, <2>3, ReturnOK DEF TypeOK
    <3>2. UIDsOK' /\ OwnerHeld'
      BY <2>1, <2>3, OwnersKept DEF Present
    <3>3. CacheOK'
      BY <2>1, <2>3 DEF CacheOK, Held, Exists
    <3> QED
      BY <3>1, <3>2, <3>3
  <2>4. CASE fresh /\ snap = op /\ lag' = TRUE /\ op' = [snap EXCEPT !.fin = TRUE]
    <3>1. op' \in Operators /\ op'.uid = op.uid /\ op'.fin /\ op # NoOp /\ op' # NoOp
      BY <2>2, <2>4 DEF Operators
    <3>2. TypeOK' /\ PassOK'
      BY <2>1, <2>4, <3>1, ReturnOK
    <3>3. UIDsOK' /\ OwnerHeld'
      BY <2>1, <3>1 DEF UIDsOK, OwnerHeld, Owner, Exists, Present
    <3>4. CacheOK'
      BY <2>1, <2>4, <3>1 DEF CacheOK, Held, Exists
    <3> QED
      BY <3>2, <3>3, <3>4
  <2> QED
    BY <2>1, <2>3, <2>4
<1>3. ASSUME NEW k \in Kinds, ReconcileComponent(k) PROVE HolderInvariant'
  <2>1. /\ pc = k /\ pc' \in {"protect", "error"} \cup Kinds
        /\ UNCHANGED <<op, uids, cache, lag, ready, snap, fresh, userOps>>
        /\ faults' \in Nat
    BY <1>3 DEF ReconcileComponent, Goto, Fault, NextComponent, Kinds, TypeOK, informer
  <2>2. Held /\ snap \in Operators /\ snap.uid = op.uid
    BY <2>1 DEF PassOK, TypeOK, Kinds
  <2>3. child' = child \/ child' = [child EXCEPT ![k] = Wanted(k, snap)]
    BY <1>3 DEF ReconcileComponent
  <2>4. child' \in [Kinds -> Children \cup {NoChild}]
    BY <2>2, <2>3, WantedOK DEF TypeOK
  <2>5. seenReady' \subseteq Watched
    BY <1>3 DEF ReconcileComponent, Checked, Watched, Kinds, TypeOK
  <2>6. TypeOK'
    BY <2>1, <2>2, <2>4, <2>5 DEF TypeOK, Kinds
  <2>7. PassOK' /\ CacheOK'
    BY <2>1, <2>2 DEF PassOK, CacheOK, Held, Exists, Kinds
  <2>8. \A l \in Kinds : Present(l)' =>
           \/ Present(l) /\ child'[l].owner = child[l].owner
           \/ child'[l].owner = op.uid
    BY <2>2, <2>3, WantedOK DEF Present, TypeOK
  <2>9. UIDsOK'
    <3>1. op.uid = uids /\ uids \in Nat
      BY <2>2 DEF UIDsOK, Held, TypeOK
    <3> QED
      BY <2>1, <2>8, <3>1 DEF UIDsOK, Exists
  <2>10. OwnerHeld'
    BY <2>1, <2>2 DEF OwnerHeld, Held
  <2> QED
    BY <2>6, <2>7, <2>9, <2>10
<1>4. CASE ApplyProtection
  <2>1. /\ pc = "protect" /\ pc' = "status"
        /\ UNCHANGED <<op, uids, cache, lag, ready, snap, fresh, seenReady, userOps>>
        /\ faults' \in Nat
    BY <1>4 DEF ApplyProtection, Goto, Fault, TypeOK, informer
  <2>2. \/ child' = child
        \/ \E n \in 0..3 : /\ \A i \in 1..n : CanLabel(ProtectionOrder[i])
                           /\ child' = LabelledUpTo(n)
    BY <1>4 DEF ApplyProtection
  <2>3. child' \in [Kinds -> Children \cup {NoChild}]
    BY <2>2, LabelledOK DEF TypeOK
  <2>4. \A l \in Kinds : Present(l)' => Present(l) /\ child'[l].owner = child[l].owner
    BY <2>2, LabelledOK DEF Present
  <2>5. TypeOK'
    BY <2>1, <2>3 DEF TypeOK
  <2>6. PassOK' /\ CacheOK'
    BY <2>1 DEF PassOK, CacheOK, Held, Exists, Kinds
  <2>7. UIDsOK' /\ OwnerHeld'
    BY <2>1, <2>4, OwnersKept
  <2> QED
    BY <2>5, <2>6, <2>7
<1>5. CASE PublishStatus
  <2>1. /\ Return /\ UNCHANGED <<uids, cache, child, ready, userOps>>
        /\ faults' \in Nat
        /\ \/ UNCHANGED <<op, lag>>
           \/ /\ fresh /\ snap = op /\ lag' = TRUE
              /\ \E p \in Phases : op' = [snap EXCEPT !.phase = p]
    <3>1. faults' \in Nat
      BY <1>5 DEF PublishStatus, Update, Fault, TypeOK
    <3> QED
      BY <1>5, <3>1 DEF PublishStatus, Update, PassOK, PhaseOf, Phases
  <2>2. pc \in {"status", "error"} /\ snap \in Operators
    BY <1>5 DEF PublishStatus, TypeOK
  <2>3. CASE UNCHANGED <<op, lag>>
    <3>1. TypeOK' /\ PassOK'
      BY <2>1, <2>3, ReturnOK DEF TypeOK
    <3>2. UIDsOK' /\ OwnerHeld'
      BY <2>1, <2>3, OwnersKept DEF Present
    <3>3. CacheOK'
      BY <2>1, <2>3 DEF CacheOK, Held, Exists
    <3> QED
      BY <3>1, <3>2, <3>3
  <2>4. CASE fresh /\ snap = op /\ lag' = TRUE /\ \E p \in Phases : op' = [snap EXCEPT !.phase = p]
    <3>1. op' \in Operators /\ op'.uid = op.uid /\ op'.fin = op.fin /\ op # NoOp /\ op' # NoOp
      BY <2>2, <2>4 DEF Operators
    <3>2. TypeOK' /\ PassOK'
      BY <2>1, <2>4, <3>1, ReturnOK
    <3>3. UIDsOK' /\ OwnerHeld'
      BY <2>1, <3>1 DEF UIDsOK, OwnerHeld, Owner, Exists, Present
    <3>4. CacheOK'
      BY <2>1, <2>4, <3>1 DEF CacheOK, Held, Exists
    <3> QED
      BY <3>2, <3>3, <3>4
  <2> QED
    BY <2>1, <2>3, <2>4
<1>6. CASE RemoveProtection
  <2>1. /\ pc = "unprotect" /\ pc' = "release"
        /\ UNCHANGED <<op, uids, cache, lag, ready, snap, fresh, seenReady, userOps>>
        /\ faults' \in Nat
    BY <1>6 DEF RemoveProtection, Goto, Fault, TypeOK, informer
  <2>2. /\ child' \in [Kinds -> Children \cup {NoChild}]
        /\ \A l \in Kinds : Present(l)' => Present(l) /\ child'[l].owner = child[l].owner
    <3>1. \A k \in Kinds : Present(k) =>
             /\ child[k] \in Children
             /\ [child[k] EXCEPT !.labelled = FALSE] \in Children
             /\ [child[k] EXCEPT !.labelled = FALSE].owner = child[k].owner
      BY DEF Present, TypeOK, Children
    <3>2. child \in [Kinds -> Children \cup {NoChild}]
      BY DEF TypeOK
    <3>3. PICK failed \in SUBSET Kinds :
            child' = [k \in Kinds |->
                       IF <<k, NameOf[k]>> \in Unprotected(snap.spec) /\ Present(k)
                             /\ Admitted(OperatorAccount, k) /\ k \notin failed
                       THEN [child[k] EXCEPT !.labelled = FALSE] ELSE child[k]]
      BY <1>6 DEF RemoveProtection
    <3>4. \A k \in Kinds : child'[k] = child[k] \/
                           (Present(k) /\ child'[k] = [child[k] EXCEPT !.labelled = FALSE])
      BY <3>3
    <3>5. child' \in [Kinds -> Children \cup {NoChild}]
      BY <3>1, <3>2, <3>3
    <3> QED
      BY <3>1, <3>4, <3>5 DEF Present
  <2>3. TypeOK'
    BY <2>1, <2>2 DEF TypeOK
  <2>4. PassOK' /\ CacheOK'
    BY <2>1 DEF PassOK, CacheOK, Held, Exists, Kinds
  <2>5. UIDsOK' /\ OwnerHeld'
    BY <2>1, <2>2, OwnersKept
  <2> QED
    BY <2>3, <2>4, <2>5
<1>7. CASE RemoveFinalizer
  <2>1. /\ Return /\ UNCHANGED <<uids, cache, child, ready, userOps>>
        /\ faults' \in Nat
        /\ \/ UNCHANGED <<op, lag>>
           \/ /\ fresh /\ snap = op /\ snap.del /\ ~lag /\ lag' = TRUE
              /\ op' = NoOp
    <3>1. faults' \in Nat
      BY <1>7 DEF RemoveFinalizer, Update, Fault, TypeOK
    <3> QED
      BY <1>7, <3>1 DEF RemoveFinalizer, Update, PassOK, Released
  <2>2. CASE UNCHANGED <<op, lag>>
    <3>1. TypeOK' /\ PassOK'
      BY <2>1, <2>2, ReturnOK DEF TypeOK
    <3>2. UIDsOK' /\ OwnerHeld'
      BY <2>1, <2>2, OwnersKept DEF Present
    <3>3. CacheOK'
      BY <2>1, <2>2 DEF CacheOK, Held, Exists
    <3> QED
      BY <3>1, <3>2, <3>3
  <2>3. CASE fresh /\ snap = op /\ snap.del /\ ~lag /\ lag' = TRUE /\ op' = NoOp
    <3>1. TypeOK' /\ PassOK'
      BY <2>1, <2>3, ReturnOK
    <3>2. UIDsOK' /\ OwnerHeld'
      BY <2>1, <2>3 DEF UIDsOK, OwnerHeld, Owner, Exists, Present
    <3>3. CacheOK'
      BY <2>1, <2>3 DEF CacheOK
    <3> QED
      BY <3>1, <3>2, <3>3
  <2> QED
    BY <2>1, <2>2, <2>3
<1> QED
  BY <1>1, <1>2, <1>3, <1>4, <1>5, <1>6, <1>7 DEF WorkerStep

-----------------------------------------------------------------------------
(* The protection. *)

(* Calls that fail use up the bound, and nothing refills it. *)
LEMMA FaultsFall ==
    ASSUME TypeOK, [Next]_vars
    PROVE  faults' = faults \/ faults' = faults - 1
BY DEF Next, vars, UserOp, CreateOperator, EditOperator, DeleteOperator, UserEditsChild,
       UserDeletesChild, Collect, Pods, Watch, WorkerStep, Begin, AddFinalizer, Update, Fault,
       ReconcileComponent, ApplyProtection, PublishStatus, RemoveProtection, RemoveFinalizer

(* Labels are set by the worker alone, and not between the removal of the    *)
(* protection and that of the finalizer.                                     *)
LEMMA ReleaseKept ==
    ASSUME HolderInvariant, ReleaseOK, [Next]_vars
    PROVE  ReleaseOK'
<1> USE DEF HolderInvariant
<1>1. /\ faults \in Nat /\ MaxFaults \in Nat
      /\ faults' = faults \/ faults' = faults - 1
      /\ child \in [Kinds -> Children \cup {NoChild}]
  BY FaultsFall, ConstantsAssumption DEF TypeOK
<1>2. faults' <= MaxFaults /\ (faults' = MaxFaults => faults = MaxFaults)
  BY <1>1 DEF ReleaseOK
<1>3. ASSUME pc' = "release", snap'.spec.database, faults' = MaxFaults
      PROVE  \A k \in DatabaseKinds : Present(k)' => ~child'[k].labelled
  <2>1. CASE RemoveProtection
    <3>1. snap' = snap /\ snap.spec.database
      BY <1>3, <2>1 DEF RemoveProtection, Goto
    <3>2. PICK failed \in SUBSET Kinds :
            /\ IF failed = {} THEN UNCHANGED faults ELSE Fault
            /\ child' = [k \in Kinds |->
                       IF <<k, NameOf[k]>> \in Unprotected(snap.spec) /\ Present(k)
                             /\ Admitted(OperatorAccount, k) /\ k \notin failed
                       THEN [child[k] EXCEPT !.labelled = FALSE] ELSE child[k]]
      BY <2>1 DEF RemoveProtection
    <3>3. failed = {}
      BY <1>1, <1>2, <1>3, <3>2 DEF Fault
    <3>4. \A k \in DatabaseKinds : <<k, NameOf[k]>> \in Unprotected(snap.spec)
      BY <3>1 DEF DatabaseKinds, NameOf, Unprotected
    <3>5. \A k \in Kinds : Admitted(OperatorAccount, k)
      BY DEF Admitted, Handle, isOperatorRequest
    <3>6. ASSUME NEW k \in DatabaseKinds, Present(k)'
          PROVE  ~child'[k].labelled
      <4>1. k \in Kinds /\ Present(k)
        BY <3>2, <3>6 DEF DatabaseKinds, Kinds, Present
      <4>2. child'[k] = [child[k] EXCEPT !.labelled = FALSE]
        BY <3>2, <3>3, <3>4, <3>5, <3>6, <4>1
      <4>3. child[k] \in Children
        BY <1>1, <4>1 DEF Present
      <4> QED
        BY <4>2, <4>3 DEF Children
    <3> QED
      BY <3>6
  <2>2. CASE pc = "release" /\ UNCHANGED snap
    <3>1. \A k \in DatabaseKinds : Present(k) => ~child[k].labelled
      BY <1>2, <1>3, <2>2 DEF ReleaseOK
    <3>2. \A k \in Kinds : Present(k)' => Present(k) /\ child'[k].labelled = child[k].labelled
      <4>1. ASSUME NEW l \in Kinds, UserEditsChild(l)
            PROVE  \A k \in Kinds :
                     Present(k)' => Present(k) /\ child'[k].labelled = child[k].labelled
        <5>1. PICK s \in Specs : child' = [child EXCEPT ![l].key = s.key]
          BY <4>1 DEF UserEditsChild
        <5>2. child[l] \in Children /\ Present(l)
          BY <1>1, <4>1 DEF UserEditsChild, Present
        <5> QED
          BY <1>1, <5>1, <5>2 DEF Present, Children
      <4>2. ASSUME NEW l \in Kinds, UserDeletesChild(l) \/ Collect(l)
            PROVE  \A k \in Kinds :
                     Present(k)' => Present(k) /\ child'[k].labelled = child[k].labelled
        BY <1>1, <4>2 DEF UserDeletesChild, Collect, Remove, Present
      <4>3. \/ UNCHANGED child
            \/ \E l \in Kinds : UserEditsChild(l) \/ UserDeletesChild(l) \/ Collect(l)
        BY <2>2
           DEF Next, vars, CreateOperator, EditOperator, DeleteOperator, Watch, Pods,
               WorkerStep, Begin, AddFinalizer, ReconcileComponent, ApplyProtection,
               PublishStatus, RemoveProtection, RemoveFinalizer, Kinds
      <4> QED
        BY <4>1, <4>2, <4>3 DEF Present
    <3> QED
      BY <3>1, <3>2 DEF DatabaseKinds, Kinds
  <2>3. RemoveProtection \/ (pc = "release" /\ UNCHANGED snap)
    BY <1>3
       DEF Next, vars, pass, UserOp, CreateOperator, EditOperator, DeleteOperator,
           UserEditsChild, UserDeletesChild, Collect, Watch, Pods, WorkerStep, Begin,
           FirstStep, FirstComponent, AddFinalizer, Return, Goto, ReconcileComponent,
           NextComponent, ApplyProtection, PublishStatus, RemoveFinalizer, Kinds, TypeOK
  <2> QED
    BY <2>1, <2>2, <2>3
<1> QED
  BY <1>2, <1>3 DEF ReleaseOK

-----------------------------------------------------------------------------
(* The theorems. *)

(* Everything that is known of a pass holds in every reachable state of the  *)
(* MultiNicOperator's reconciler.                                            *)
THEOREM OperatorInvariance == Spec => []OperatorInvariant
<1>1. Init => OperatorInvariant
  <2>1. Init => ReleaseOK
    BY ConstantsAssumption DEF Init, ReleaseOK
  <2> QED
    BY <2>1, InitOK DEF OperatorInvariant
<1>2. OperatorInvariant /\ [Next]_vars => OperatorInvariant'
  <2> SUFFICES ASSUME HolderInvariant, ReleaseOK, [Next]_vars PROVE HolderInvariant'
    BY ReleaseKept DEF OperatorInvariant
  <2>1. CASE UNCHANGED vars
    BY <2>1 DEF vars, pass, informer, HolderInvariant, TypeOK, UIDsOK, CacheOK, PassOK,
                OwnerHeld, Held, Owner, Exists, Present
  <2>2. CASE Next
    BY <2>2, UsersOfOperatorKeep, EnvironmentKeeps, WorkerKeeps DEF Next
  <2> QED
    BY <2>1, <2>2
<1> QED
  BY <1>1, <1>2, PTL DEF Spec

(* Every variable of the reconciler keeps its type. *)
THEOREM OperatorTypeCorrect == Spec => []TypeOK
BY OperatorInvariance, PTL DEF OperatorInvariant, HolderInvariant

(* The MultiNicOperator that exists holds its finalizer while it owns a child.*)
THEOREM OwnersHeld == Spec => []OwnerHeld
BY OperatorInvariance, PTL DEF OperatorInvariant, HolderInvariant

(* A child is created for the MultiNicOperator that exists, with the         *)
(* finalizer in place, also by a pass that read an old version of it.        *)
THEOREM CreatedForOwners == Spec => CreatedForOwner
<1> DEFINE Created == \A k \in Kinds :
               ~Present(k) /\ child'[k] # NoChild => Held /\ child'[k].owner = op.uid
<1>1. OperatorInvariant /\ [Next]_vars => [Created]_vars
  <2> SUFFICES ASSUME OperatorInvariant, Next, NEW k \in Kinds,
                      ~Present(k), child'[k] # NoChild
               PROVE  Held /\ child'[k].owner = op.uid
    OBVIOUS
  <2> USE DEF OperatorInvariant, HolderInvariant
  <2>1. child[k] = NoChild /\ child \in [Kinds -> Children \cup {NoChild}]
    BY DEF Present, TypeOK
  <2>2. ASSUME NEW l \in Kinds, ReconcileComponent(l)
        PROVE  Held /\ child'[k].owner = op.uid
    <3>1. l = k /\ child'[k] = Wanted(k, snap)
      BY <2>1, <2>2 DEF ReconcileComponent
    <3>2. Held /\ snap.uid = op.uid /\ snap \in Operators
      BY <2>2 DEF ReconcileComponent, PassOK, TypeOK, Kinds
    <3> QED
      BY <3>1, <3>2, WantedOK
  <2>3. CASE ApplyProtection
    BY <2>1, <2>3, LabelledOK DEF ApplyProtection, Present
  <2>4. CASE RemoveProtection
    BY <2>1, <2>4 DEF RemoveProtection, Present
  <2>5. ASSUME NEW l \in Kinds, UserEditsChild(l) PROVE FALSE
    BY <2>1, <2>5 DEF UserEditsChild, Present
  <2>6. ASSUME NEW l \in Kinds, UserDeletesChild(l) \/ Collect(l) PROVE FALSE
    BY <2>1, <2>6 DEF UserDeletesChild, Collect, Remove, Present
  <2>7. CASE UNCHANGED child
    BY <2>1, <2>7
  <2>8. ASSUME \/ CreateOperator \/ EditOperator \/ DeleteOperator \/ Watch
               \/ \E l \in Watched : Pods(l)
               \/ Begin \/ AddFinalizer \/ PublishStatus \/ RemoveFinalizer
        PROVE  UNCHANGED child
    BY <2>8 DEF CreateOperator, EditOperator, DeleteOperator, Watch, Pods, Begin,
                AddFinalizer, PublishStatus, RemoveFinalizer
  <2> QED
    BY <2>2, <2>3, <2>4, <2>5, <2>6, <2>7, <2>8 DEF Next, WorkerStep
<1> QED
  BY <1>1, OperatorInvariance, PTL DEF Spec, CreatedForOwner

(* A MultiNicOperator whose calls did not fail leaves no label on its        *)
(* database, whichever of its versions the passes acted on.                  *)
THEOREM UnprotectedAtRelease == Spec => ReleasedUnprotected
<1> DEFINE Unprotects ==
      Held /\ ~Held' /\ op.spec.database /\ faults = MaxFaults =>
        \A k \in DatabaseKinds : Present(k) => ~child[k].labelled
<1>1. OperatorInvariant /\ [Next]_vars => [Unprotects]_vars
  <2> SUFFICES ASSUME OperatorInvariant, Next, Held, ~Held',
                      op.spec.database, faults = MaxFaults,
                      NEW k \in DatabaseKinds, Present(k)
               PROVE  ~child[k].labelled
    OBVIOUS
  <2> USE DEF OperatorInvariant, HolderInvariant
  <2>1. op \in Operators /\ op # NoOp
    BY DEF Held, Exists, TypeOK
  <2>2. CASE RemoveFinalizer
    <3>1. fresh /\ pc = "release"
      BY <2>2 DEF RemoveFinalizer, Update, Held, Exists
    <3> QED
      BY <3>1 DEF PassOK, ReleaseOK
  <2>3. CASE EditOperator \/ DeleteOperator
    <3>1. \/ \E s \in Specs : op' = [op EXCEPT !.spec = s]
          \/ op' = [op EXCEPT !.del = TRUE]
      BY <2>3 DEF EditOperator, DeleteOperator, Write, Held
    <3>2. op' \in Operators /\ op'.fin = op.fin
      BY <2>1, <3>1 DEF Operators
    <3> QED
      BY <3>2, ConstantsAssumption DEF Held, Exists
  <2>4. CASE AddFinalizer \/ PublishStatus
    <3>1. \/ op' = op
          \/ fresh /\ op' = [snap EXCEPT !.fin = TRUE]
          \/ fresh /\ \E p \in Phases : op' = [snap EXCEPT !.phase = p]
      BY <2>4 DEF AddFinalizer, PublishStatus, Update, PhaseOf, Phases
    <3>2. op' = op \/ (op' \in Operators /\ op'.fin)
      BY <2>1, <3>1 DEF PassOK, Operators, Held
    <3> QED
      BY <3>2, ConstantsAssumption DEF Held, Exists
  <2>5. op' = op \/ RemoveFinalizer \/ EditOperator \/ DeleteOperator
                 \/ AddFinalizer \/ PublishStatus
    BY DEF Held, Next, CreateOperator, UserEditsChild, UserDeletesChild, Collect, Pods,
           Watch, WorkerStep, Begin, ReconcileComponent, ApplyProtection, RemoveProtection
  <2> QED
    BY <2>2, <2>3, <2>4, <2>5 DEF Held, Exists
<1> QED
  BY <1>1, OperatorInvariance, PTL DEF Spec, ReleasedUnprotected

-----------------------------------------------------------------------------
(* What the webhook does for the labelled, and to them. *)

(* The cluster uses the webhook, and the namespace is none of those that it  *)
(* leaves alone.                                                             *)
Guarded == Webhook /\ ~isSystemNamespace(Namespace)

(* Only the worker gets past the webhook, and it deletes nothing.            *)
LEMMA LabelledStep ==
    ASSUME Guarded, TypeOK, [Next]_vars,
           NEW k \in Kinds, Present(k), child[k].labelled
    PROVE  /\ Present(k)'
           /\ child'[k].key # child[k].key => pc = k
           /\ ~child'[k].labelled => pc = "unprotect" /\ <<k, NameOf[k]>> \in Unprotected(snap.spec)
<1>1. ~Admitted("user", k) /\ ~Admitted(GarbageCollector, k)
  BY DEF Guarded, Admitted, Handle, isResourceProtected, CheckedKinds, Kinds,
         isOperatorRequest, OperatorAccount, GarbageCollector
<1>2. child \in [Kinds -> Children \cup {NoChild}] /\ child[k] \in Children /\ NoChild \notin Children
  BY ConstantsAssumption DEF TypeOK, Present
<1>3. ASSUME NEW l \in Kinds, UserEditsChild(l) \/ UserDeletesChild(l) \/ Collect(l)
      PROVE  child'[k] = child[k]
  BY <1>1, <1>2, <1>3 DEF UserEditsChild, UserDeletesChild, Collect, Remove
<1>4. ASSUME NEW l \in Kinds, ReconcileComponent(l)
      PROVE  /\ Present(k)'
             /\ child'[k].key # child[k].key => pc = k
             /\ child'[k].labelled
  <2>1. pc = l /\ (child' = child \/ child' = [child EXCEPT ![l] = Wanted(l, snap)])
        /\ snap \in Operators \cup {NoOp} /\ (pc = "idle" <=> snap = NoOp)
    BY <1>4 DEF ReconcileComponent, TypeOK
  <2>2. snap \in Operators
    BY <2>1 DEF Kinds
  <2>3. Wanted(k, snap) \in Children /\ Wanted(k, snap).labelled
    BY <1>2, <2>2, WantedOK DEF Wanted, Present, Children
  <2> QED
    BY <1>2, <2>1, <2>3 DEF Present
<1>5. CASE ApplyProtection
  <2>1. child'[k] = child[k] \/ child'[k] = [child[k] EXCEPT !.labelled = TRUE]
    BY <1>5 DEF ApplyProtection, LabelledUpTo
  <2> QED
    BY <1>2, <2>1 DEF Present, Children
<1>6. CASE RemoveProtection
  <2>1. PICK failed \in SUBSET Kinds :
            child' = [l \in Kinds |->
                       IF <<l, NameOf[l]>> \in Unprotected(snap.spec) /\ Present(l)
                             /\ Admitted(OperatorAccount, l) /\ l \notin failed
                       THEN [child[l] EXCEPT !.labelled = FALSE] ELSE child[l]]
    BY <1>6 DEF RemoveProtection
  <2>2. \/ child'[k] = child[k]
        \/ /\ child'[k] = [child[k] EXCEPT !.labelled = FALSE]
           /\ <<k, NameOf[k]>> \in Unprotected(snap.spec)
    BY <2>1
  <2>3. pc = "unprotect"
    BY <1>6 DEF RemoveProtection
  <2> QED
    BY <1>2, <2>2, <2>3 DEF Present, Children
<1>7. CASE UNCHANGED child
  BY <1>7 DEF Present
<1>8. \/ \E l \in Kinds : UserEditsChild(l) \/ UserDeletesChild(l) \/ Collect(l)
      \/ \E l \in Kinds : ReconcileComponent(l)
      \/ ApplyProtection \/ RemoveProtection \/ UNCHANGED child
  BY DEF Next, vars, CreateOperator, EditOperator, DeleteOperator, Pods, Watch, WorkerStep,
         Begin, AddFinalizer, PublishStatus, RemoveFinalizer
<1> QED
  BY <1>3, <1>4, <1>5, <1>6, <1>7, <1>8 DEF Present

(* Mutation prevention: where the webhook guards, a labelled component stays, *)
(* and its settings and its label are changed by the worker alone.            *)
THEOREM LabelledProtected ==
    ASSUME Guarded
    PROVE  Spec => [][\A k \in Kinds :
                        Present(k) /\ child[k].labelled =>
                          /\ Present(k)'
                          /\ child'[k].key # child[k].key => pc = k
                          /\ ~child'[k].labelled => pc = "unprotect"]_vars
<1> DEFINE Protected ==
      \A k \in Kinds :
        Present(k) /\ child[k].labelled =>
          /\ Present(k)'
          /\ child'[k].key # child[k].key => pc = k
          /\ ~child'[k].labelled => pc = "unprotect"
<1>1. OperatorInvariant /\ [Next]_vars => [Protected]_vars
  BY LabelledStep DEF OperatorInvariant, HolderInvariant
<1> QED
  BY <1>1, OperatorInvariance, PTL DEF Spec

(* ... the Deployment for good, since removeProtection asks for another name *)
(* than the one it was created under: once labelled, it outlives every       *)
(* MultiNicOperator.                                                         *)
THEOREM DeploymentLockedForGood ==
    ASSUME Guarded
    PROVE  Spec => []((Present("Deployment") /\ child["Deployment"].labelled)
                        => [](Present("Deployment") /\ child["Deployment"].labelled))
<1> DEFINE Locked == Present("Deployment") /\ child["Deployment"].labelled
<1>1. OperatorInvariant /\ [Next]_vars /\ Locked => Locked'
  <2>1. "Deployment" \in Kinds /\ NameOf["Deployment"] = "multinic-controller-manager"
    BY DEF Kinds, NameOf
  <2>2. \A s \in Specs : <<"Deployment", NameOf["Deployment"]>> \notin Unprotected(s)
    BY <2>1 DEF Unprotected
  <2>3. OperatorInvariant /\ pc = "unprotect" => snap.spec \in Specs
    BY DEF OperatorInvariant, HolderInvariant, TypeOK, Operators
  <2> QED
    BY <2>1, <2>2, <2>3, LabelledStep DEF OperatorInvariant, HolderInvariant
<1> QED
  BY <1>1, OperatorInvariance, PTL DEF Spec
=============================================================================
