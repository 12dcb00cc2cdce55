----------------------------- MODULE CRLifecycle -----------------------------
(***************************************************************************)
(* What the finalizer promises, without caches, queues, versions, steps or *)
(* faults: the database holds records of an OpenstackConfig only while the *)
(* controller holds on to the resource, and only a deletion empties them.  *)
(* OpenstackConfigController implements this specification.                *)
(***************************************************************************)
CONSTANT CRs

VARIABLES
    stage,      \* "absent", "new" (no finalizer yet), "held" or "ending"
    stored      \* the CRs the database has records of

vars == <<stage, stored>>

TypeOK ==
    /\ stage \in [CRs -> {"absent", "new", "held", "ending"}]
    /\ stored \subseteq CRs

Init ==
    /\ stage = [c \in CRs |-> "absent"]
    /\ stored = {}

Move(c, from, to) ==
    /\ stage[c] = from
    /\ stage' = [stage EXCEPT ![c] = to]
    /\ UNCHANGED stored

Create(c) == Move(c, "absent", "new")

\* Deleted before the controller saw it.
Abandon(c) == Move(c, "new", "absent")

Adopt(c) == Move(c, "new", "held")

RequestDeletion(c) == Move(c, "held", "ending")

\* A pass that began before the deletion was requested may still record.
Record(c) ==
    /\ stage[c] \in {"held", "ending"}
    /\ stored' = stored \cup {c}
    /\ UNCHANGED stage

Purge(c) ==
    /\ stage[c] = "ending"
    /\ stored' = stored \ {c}
    /\ UNCHANGED stage

Release(c) ==
    /\ c \notin stored
    /\ Move(c, "ending", "absent")

Next ==
    \E c \in CRs :
        \/ Create(c) \/ Abandon(c) \/ Adopt(c) \/ RequestDeletion(c)
        \/ Record(c) \/ Purge(c) \/ Release(c)

Spec == Init /\ [][Next]_vars
=============================================================================
