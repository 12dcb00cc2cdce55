--------------------------- MODULE InterfaceRecords ---------------------------
(***************************************************************************)
(* What the transactions promise, without the transactions: the interfaces *)
(* recorded for an OpenstackConfig are replaced as a whole or purged as a  *)
(* whole, a port is recorded for one CR, and a status shows what is        *)
(* recorded.  Servers, nodes, subnets, passes and faults do not appear.    *)
(* InterfaceStore implements this specification.                           *)
(***************************************************************************)
EXTENDS TLAPS

CONSTANTS CRs, Servers, Names, Ports, Subnets, PortSubnets, NoPort, NoRow

VARIABLES
    live,       \* the CRs that exist
    rows,       \* the record of each port
    infos       \* what each CR's status shows

vars == <<live, rows, infos>>

Rows == [cr: CRs, subnet: Subnets, id: Servers, name: Names]
Infos == [name: Names, mac: Ports \cup {NoPort}]

TypeOK ==
    /\ live \subseteq CRs
    /\ rows \in [Ports -> Rows \cup {NoRow}]
    /\ infos \in [CRs -> SUBSET Infos]

\* In the records, a server has one name and a name belongs to one server.
Agree(rs) ==
    \A p, q \in Ports :
        rs[p] # NoRow /\ rs[q] # NoRow => (rs[p].id = rs[q].id <=> rs[p].name = rs[q].name)

Init ==
    /\ live = {}
    /\ rows = [p \in Ports |-> NoRow]
    /\ infos = [c \in CRs |-> {}]

Create(c) ==
    /\ live' = live \cup {c}
    /\ UNCHANGED <<rows, infos>>

\* Every record of c is new, and all are in one subnet.  The port of another CR
\* may get another server, never another CR or subnet.
Replace(c) ==
    /\ c \in live
    /\ rows' \in [Ports -> Rows \cup {NoRow}]
    /\ Agree(rows')
    /\ \E s \in Subnets : \A p \in Ports :
         IF rows[p] # NoRow /\ rows[p].cr # c
         THEN rows'[p] # NoRow /\ rows'[p].cr = rows[p].cr /\ rows'[p].subnet = rows[p].subnet
         ELSE rows'[p] # NoRow =>
                rows'[p].cr = c /\ rows'[p].subnet = s /\ s \in PortSubnets[p]
    /\ UNCHANGED <<live, infos>>

Publish(c) ==
    /\ c \in live
    /\ \E shown \in SUBSET Infos :
        /\ \A i \in shown :
             i.mac # NoPort => rows[i.mac] # NoRow /\ rows[i.mac].name = i.name
        /\ infos' = [infos EXCEPT ![c] = shown]
    /\ UNCHANGED <<live, rows>>

Purge(c) ==
    /\ c \in live
    /\ live' = live \ {c}
    /\ rows' = [p \in Ports |-> IF rows[p] # NoRow /\ rows[p].cr = c THEN NoRow ELSE rows[p]]
    /\ infos' = [infos EXCEPT ![c] = {}]

Next == \E c \in CRs : Create(c) \/ Replace(c) \/ Publish(c) \/ Purge(c)

Spec == Init /\ [][Next]_vars

-----------------------------------------------------------------------------
\* No record is left of a CR that is gone.
NoOrphans ==
    /\ \A p \in Ports : rows[p] # NoRow => rows[p].cr \in live
    /\ \A c \in CRs \ live : infos[c] = {}

\* The records of a CR are in one subnet, which each of their ports has.
InOneSubnet ==
    \A p \in Ports :
        rows[p] # NoRow =>
            /\ rows[p].subnet \in PortSubnets[p]
            /\ \A q \in Ports : rows[q] # NoRow /\ rows[q].cr = rows[p].cr
                                  => rows[q].subnet = rows[p].subnet

RecordsOK == TypeOK /\ NoOrphans /\ InOneSubnet /\ Agree(rows)

-----------------------------------------------------------------------------
LEMMA ReplaceOK ==
    ASSUME RecordsOK, NEW c \in CRs, Replace(c)
    PROVE  RecordsOK'
<1>1. PICK s \in Subnets : \A p \in Ports :
         IF rows[p] # NoRow /\ rows[p].cr # c
         THEN rows'[p] # NoRow /\ rows'[p].cr = rows[p].cr /\ rows'[p].subnet = rows[p].subnet
         ELSE rows'[p] # NoRow =>
                rows'[p].cr = c /\ rows'[p].subnet = s /\ s \in PortSubnets[p]
  BY DEF Replace
<1>2. TypeOK' /\ Agree(rows')
  BY DEF Replace, RecordsOK, TypeOK
<1>3. NoOrphans'
  BY <1>1 DEF Replace, RecordsOK, NoOrphans
<1>4. InOneSubnet'
  BY <1>1 DEF RecordsOK, InOneSubnet
<1>. QED
  BY <1>2, <1>3, <1>4 DEF RecordsOK

LEMMA PurgeOK ==
    ASSUME RecordsOK, NEW c \in CRs, Purge(c)
    PROVE  RecordsOK'
<1>1. \A p \in Ports : rows'[p] # NoRow => rows'[p] = rows[p] /\ rows[p].cr # c
  BY DEF Purge
<1>2. TypeOK'
  BY DEF Purge, RecordsOK, TypeOK
<1>3. NoOrphans'
  BY <1>1 DEF Purge, RecordsOK, TypeOK, NoOrphans
<1>4. InOneSubnet' /\ Agree(rows')
  BY <1>1 DEF RecordsOK, InOneSubnet, Agree
<1>. QED
  BY <1>2, <1>3, <1>4 DEF RecordsOK

\* The records are always of CRs that exist, each CR's in one subnet, and they
\* never give a server two names or a name two servers.
THEOREM RecordsInvariance == Spec => []RecordsOK
<1>1. Init => RecordsOK
  BY DEF Init, RecordsOK, TypeOK, NoOrphans, InOneSubnet, Agree
<1>2. RecordsOK /\ [Next]_vars => RecordsOK'
  <2>. SUFFICES ASSUME RecordsOK, [Next]_vars PROVE RecordsOK'
    OBVIOUS
  <2>1. ASSUME NEW c \in CRs, Create(c) PROVE RecordsOK'
    BY <2>1 DEF Create, RecordsOK, TypeOK, NoOrphans, InOneSubnet, Agree
  <2>2. ASSUME NEW c \in CRs, Publish(c) PROVE RecordsOK'
    <3>1. PICK shown \in SUBSET Infos : infos' = [infos EXCEPT ![c] = shown]
      BY <2>2 DEF Publish
    <3>2. TypeOK' /\ NoOrphans'
      BY <2>2, <3>1 DEF Publish, RecordsOK, TypeOK, NoOrphans
    <3>3. InOneSubnet' /\ Agree(rows')
      BY <2>2 DEF Publish, RecordsOK, InOneSubnet
    <3>. QED
      BY <3>2, <3>3 DEF RecordsOK
  <2>3. CASE UNCHANGED vars
    BY <2>3 DEF vars, RecordsOK, TypeOK, NoOrphans, InOneSubnet, Agree
  <2>. QED
    BY <2>1, <2>2, <2>3, ReplaceOK, PurgeOK DEF Next
<1>. QED
  BY <1>1, <1>2, PTL DEF Spec
=============================================================================
