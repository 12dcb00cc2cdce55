--------------------------- MODULE ProtectionWebhook ---------------------------
(***************************************************************************)
(* The admission decision on updates and deletions of Deployments,         *)
(* StatefulSets and Services (internal/webhook/                            *)
(* multinic_protection_webhook.go).  The manager does not register the     *)
(* handler, and config/default leaves it out; MultiNicOperator has a       *)
(* constant that says whether a cluster uses it.                           *)
(***************************************************************************)

SystemNamespaces == {"kube-system", "kube-public", "kube-node-lease", "default"}

OperatorAccount == "system:serviceaccount:multinic-system:multinic-operator"
GarbageCollector == "system:serviceaccount:kube-system:generic-garbage-collector"

CheckedKinds == {"Deployment", "StatefulSet", "Service"}

isSystemNamespace(namespace) == namespace \in SystemNamespaces

\* `labelled' says whether the object, as it is now, carries protected=true.
isResourceProtected(kind, labelled) == kind \in CheckedKinds /\ labelled

isOperatorRequest(user) == user = OperatorAccount

\* May `user' update or delete the object?
Handle(namespace, kind, labelled, user) ==
    \/ isSystemNamespace(namespace)
    \/ ~isResourceProtected(kind, labelled)
    \/ isOperatorRequest(user)
=============================================================================
