-------------------------- MODULE MCMultiNicOperator --------------------------
(* Instances of MultiNicOperator for TLC. *)
EXTENDS MultiNicOperator

Setting(database, key, rest, storage) ==
    [database |-> database, protect |-> TRUE, key |-> key, rest |-> rest,
     storage |-> storage]

\* A database, another image without one, and that image with a larger database.
MCSpecs == {Setting(TRUE, "v1", "r1", "10Gi"), Setting(FALSE, "v2", "r1", "10Gi"),
            Setting(TRUE, "v2", "r1", "20Gi")}

\* The image of the Deployment that was installed by hand.
MCInstalled == {Setting(TRUE, "v1", "r1", "10Gi")}

WithDatabase == {Setting(TRUE, "v1", "r1", "10Gi"), Setting(TRUE, "v2", "r1", "10Gi")}

\* Two settings that differ in the credentials.
Credentials == {Setting(TRUE, "v1", "r1", "10Gi"), Setting(TRUE, "v1", "r2", "10Gi")}
=============================================================================
