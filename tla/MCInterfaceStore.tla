-------------------------- MODULE MCInterfaceStore --------------------------
(* Instances of InterfaceStore for TLC. *)
EXTENDS InterfaceStore, TLC

CONSTANTS c1, c2, s1, s2, n1, n2, p1, p2, net1, net2, m1, m2, m3

\* Every server may have any name: names are reused, exchanged, duplicated.
AnyName == [s \in Servers |-> Names]

\* Every server has a name of its own.
OwnName == [s \in Servers |-> IF s = s1 THEN {n1} ELSE {n2}]

\* c1's subnet name may be edited.
FirstEdited == [c \in CRs |-> IF c = c1 THEN SubnetNames ELSE {m2}]

\* A name for each subnet, and one that no subnet has.
Separate == [m \in SubnetNames |-> CASE m = m1 -> {net1} [] m = m2 -> {net2} [] OTHER -> {}]

\* A name that is ambiguous, and one that is not.
Ambiguous == [m \in SubnetNames |-> IF m = m1 THEN {net1, net2} ELSE {net2}]

\* p1 has an address in both subnets.
TwoAddresses == [p \in Ports |-> IF p = p1 THEN {net1, net2} ELSE {net2}]

\* Servers and names are interchangeable where any server may have any name.
Symmetric == Permutations(Servers) \cup Permutations(Names)
=============================================================================
