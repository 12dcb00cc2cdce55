------------------------- MODULE InterfaceStoreProofs -------------------------
(***************************************************************************)
(* The safety properties of InterfaceStore, for all sets of CRs, servers,  *)
(* names, ports and subnets.  They follow from StoreInvariant: whatever    *)
(* the statements of a transaction have written so far could be committed. *)
(***************************************************************************)
EXTENDS InterfaceStore, TLAPS

-----------------------------------------------------------------------------
(* The statements. *)

\* Writing the node of a server keeps the node table and the rows together.
LEMMA UpsertedNode ==
    ASSUME NEW store \in Stores, Consistent(store), NEW t \in Targets,
           NodeKeysAllow(store, t)
    PROVE  LET nodes == UpsertedNodes(store, t) IN
           /\ nodes \in [Servers -> Names \cup {NoName}]
           /\ nodes[t.id] \in {NoName, t.name}
           /\ \A s \in Servers \ {t.id} : nodes[s] = store.nodes[s]
           /\ \A s, u \in Servers : nodes[s] = nodes[u] /\ s # u => nodes[s] = NoName
           /\ \A p \in Ports :
                store.rows[p] # NoRow => nodes[store.rows[p].id] = store.rows[p].name
<1>. DEFINE nodes == UpsertedNodes(store, t)
<1>1. /\ store.nodes \in [Servers -> Names \cup {NoName}]
      /\ store.rows \in [Ports -> Rows \cup {NoRow}]
      /\ t.id \in Servers /\ t.name \in Names /\ NoName \notin Names
  BY ConstantsAssumption DEF Stores, Targets
<1>2. CASE nodes = store.nodes /\ store.nodes[t.id] = NoName
  BY <1>1, <1>2 DEF Consistent
<1>3. CASE nodes = [store.nodes EXCEPT ![t.id] = t.name]
  <2>1. /\ nodes \in [Servers -> Names \cup {NoName}]
        /\ nodes[t.id] = t.name
        /\ \A s \in Servers \ {t.id} : nodes[s] = store.nodes[s]
    BY <1>1, <1>3
  <2>2. ASSUME NEW s \in Servers \ {t.id}
        PROVE  store.nodes[s] # t.name
    <3>1. CASE store.nodes[t.id] = t.name
      BY <1>1, <2>2, <3>1 DEF Consistent
    <3>2. CASE store.nodes[t.id] = NoName
      <4>1. ~NodeNamed(store, t.name) \/ nodes = store.nodes
        BY <3>2 DEF UpsertedNodes
      <4>2. t.name # NoName
        BY <1>1
      <4>. QED
        BY <2>1, <2>2, <3>2, <4>1, <4>2 DEF NodeNamed
    <3>3. CASE store.nodes[t.id] \notin {NoName, t.name}
      BY <2>2, <3>3 DEF NodeKeysAllow, NodeNamed
    <3>. QED
      BY <3>1, <3>2, <3>3
  <2>3. \A s, u \in Servers : nodes[s] = nodes[u] /\ s # u => nodes[s] = NoName
    BY <2>1, <2>2 DEF Consistent
  <2>4. ASSUME NEW p \in Ports, store.rows[p] # NoRow
        PROVE  nodes[store.rows[p].id] = store.rows[p].name
    <3>1. /\ store.rows[p].id \in Servers /\ store.rows[p].name \in Names
          /\ store.nodes[store.rows[p].id] = store.rows[p].name
      BY <1>1, <2>4 DEF Consistent, Rows
    <3>2. CASE store.rows[p].id # t.id
      BY <2>1, <3>1, <3>2
    <3>3. CASE store.rows[p].id = t.id
      BY <1>1, <2>1, <2>4, <3>1, <3>3 DEF NodeKeysAllow, Referenced
    <3>. QED
      BY <3>2, <3>3
  <2>. QED
    BY <2>1, <2>3, <2>4
<1>. QED
  BY <1>2, <1>3 DEF UpsertedNodes

LEMMA UpsertedRowType ==
    ASSUME NEW store \in Stores, NEW f \in Interfaces, cur \in CRs, subnet \in Subnets
    PROVE  LET row == UpsertedRow(store, f) IN
           /\ row \in Rows /\ row # NoRow
           /\ row.id = f.id /\ row.name = f.name
           /\ store.rows[f.port] = NoRow => row.cr = cur /\ row.subnet = subnet
           /\ store.rows[f.port] # NoRow
                => row.cr = store.rows[f.port].cr /\ row.subnet = store.rows[f.port].subnet
<1>1. f.port \in Ports /\ f.id \in Servers /\ f.name \in Names
  BY DEF Interfaces
<1>2. CASE store.rows[f.port] = NoRow
  <2>1. UpsertedRow(store, f) = [cr |-> cur, subnet |-> subnet, id |-> f.id, name |-> f.name]
    BY <1>2 DEF UpsertedRow
  <2>2. UpsertedRow(store, f) \in Rows
    BY <1>1, <2>1 DEF Rows
  <2>. QED
    BY <1>2, <2>1, <2>2, ConstantsAssumption DEF Rows
<1>3. CASE store.rows[f.port] # NoRow
  <2>1. UpsertedRow(store, f) = [store.rows[f.port] EXCEPT !.id = f.id, !.name = f.name]
    BY <1>3 DEF UpsertedRow
  <2>2. store.rows[f.port] \in Rows
    BY <1>1, <1>3 DEF Stores
  <2>3. UpsertedRow(store, f) \in Rows
    BY <1>1, <2>1, <2>2 DEF Rows
  <2>. QED
    BY <1>3, <2>1, <2>2, <2>3, ConstantsAssumption DEF Rows
<1>. QED
  BY <1>2, <1>3

\* Deleting rows breaks nothing.
LEMMA RowsDeleted ==
    ASSUME NEW store \in Stores, NEW c \in CRs
    PROVE  LET rows == WithoutRowsOf(store.rows, c) IN
           /\ rows \in [Ports -> Rows \cup {NoRow}]
           /\ \A p \in Ports : rows[p] # NoRow => rows[p] = store.rows[p] /\ rows[p].cr # c
           /\ \A p \in Ports : store.rows[p] # NoRow /\ store.rows[p].cr # c
                                 => rows[p] = store.rows[p]
BY DEF Stores, WithoutRowsOf

-----------------------------------------------------------------------------
(* The actions. *)

LEMMA StoreInvInit == Init => StoreInvariant
<1>. SUFFICES ASSUME Init PROVE StoreInvariant
  OBVIOUS
<1>1. EmptyStore \in Stores /\ Consistent(EmptyStore) /\ OneSubnet(EmptyStore)
  BY ConstantsAssumption DEF EmptyStore, Stores, Consistent, OneSubnet
<1>2. WorldTypeOK /\ StoreTypeOK /\ PassTypeOK /\ PublishedTypeOK /\ faults \in Nat
  BY <1>1, ConstantsAssumption
     DEF Init, WorldTypeOK, StoreTypeOK, PassTypeOK, PublishedTypeOK
<1>. QED
  BY <1>1, <1>2 DEF Init, TypeOK, StoreInvariant, PassOK, Reported

\* When a pass ends, only the committed store is left to speak of.
LEMMA EndOfPass ==
    ASSUME StoreInvariant, Idle, UNCHANGED world, faults' \in Nat,
           db' \in Stores, Consistent(db'), OneSubnet(db'), PublishedTypeOK'
    PROVE  StoreInvariant'
<1>1. EmptyStore \in Stores
  BY ConstantsAssumption DEF EmptyStore, Stores
<1>2. StoreTypeOK' /\ PassTypeOK'
  BY <1>1, ConstantsAssumption DEF Idle, StoreTypeOK, PassTypeOK
<1>3. WorldTypeOK'
  BY DEF StoreInvariant, TypeOK, WorldTypeOK, world
<1>4. PassOK' /\ Reported'
  BY DEF PassOK, Reported, Idle, StoreInvariant, world
<1>. QED
  BY <1>2, <1>3, <1>4 DEF StoreInvariant, TypeOK, Idle

LEMMA WorldInv ==
    ASSUME StoreInvariant, WorldStep
    PROVE  StoreInvariant'
<1>1. ASSUME WorldTypeOK', UNCHANGED <<db, tx, pass, published, faults>>,
             \A c \in CRs : wanted[c] # {} => wanted'[c] # {},
             \A c \in CRs : wanted'[c] # {} => asked'[c] \in SubnetNames
      PROVE  StoreInvariant'
  <2>1. StoreTypeOK' /\ PassTypeOK' /\ PublishedTypeOK' /\ faults' \in Nat
    BY <1>1
       DEF StoreInvariant, TypeOK, StoreTypeOK, PassTypeOK, PublishedTypeOK, pass, published
  <2>2. (KeepsOthers /\ Written => KeepsOthers' /\ Written') /\ PassOK' /\ Reported'
    BY <1>1 DEF StoreInvariant, PassOK, Reported, Recorded, KeepsOthers, Written, pass
  <2>. QED
    BY <1>1, <2>1, <2>2 DEF StoreInvariant, TypeOK, pass
<1>w. WorldTypeOK /\ db \in Stores
  BY DEF StoreInvariant, TypeOK, StoreTypeOK
<1>n. \A c \in CRs : wanted[c] # {} => asked[c] \in SubnetNames
  BY DEF StoreInvariant, PassOK
<1>2. ASSUME NEW s \in Servers, BootServer(s) PROVE StoreInvariant'
  BY <1>1, <1>2, <1>w, <1>n, ConstantsAssumption DEF BootServer, WorldOp, WorldTypeOK
<1>3. ASSUME NEW s \in Servers, RenameServer(s) PROVE StoreInvariant'
  BY <1>1, <1>3, <1>w, <1>n, ConstantsAssumption DEF RenameServer, WorldOp, WorldTypeOK
<1>4. ASSUME NEW s \in Servers, DeleteServer(s) PROVE StoreInvariant'
  BY <1>1, <1>4, <1>w, <1>n DEF DeleteServer, WorldOp, WorldTypeOK
<1>5. ASSUME NEW c \in CRs, SetSpec(c) PROVE StoreInvariant'
  <2>1. PICK ns \in (SUBSET Names) \ {{}}, n \in SubnetNames :
          wanted' = [wanted EXCEPT ![c] = ns] /\ asked' = [asked EXCEPT ![c] = n]
    BY <1>5, ConstantsAssumption DEF SetSpec
  <2>2. /\ \A d \in CRs : wanted[d] # {} => wanted'[d] # {}
        /\ \A d \in CRs : wanted'[d] # {} => asked'[d] \in SubnetNames
    BY <1>w, <1>n, <2>1 DEF WorldTypeOK
  <2>3. WorldTypeOK'
    BY <1>5, <1>w, <2>1 DEF SetSpec, WorldOp, WorldTypeOK
  <2>. QED
    BY <1>1, <1>5, <2>2, <2>3 DEF SetSpec, WorldOp
<1>6. ASSUME NEW c \in CRs, DeleteCR(c) PROVE StoreInvariant'
  <2>. DEFINE rows == WithoutRowsOf(db.rows, c)
  <2>1. /\ rows \in [Ports -> Rows \cup {NoRow}]
        /\ \A p \in Ports : rows[p] # NoRow => rows[p] = db.rows[p]
    BY <1>w, RowsDeleted
  <2>2. db' = [db EXCEPT !.rows = rows]
    BY <1>6 DEF DeleteCR
  <2>. HIDE DEF rows
  <2>3. db' \in Stores /\ db'.rows = rows /\ db'.nodes = db.nodes /\ db'.subnets = db.subnets
    BY <1>w, <2>1, <2>2 DEF Stores
  <2>4. Consistent(db') /\ OneSubnet(db')
    BY <2>1, <2>3 DEF StoreInvariant, Consistent, OneSubnet
  <2>5. WorldTypeOK'
    <3>1. /\ wanted' = [wanted EXCEPT ![c] = {}] /\ asked' = [asked EXCEPT ![c] = NoName]
          /\ worldOps > 0 /\ worldOps' = worldOps - 1
          /\ UNCHANGED <<servers, attached>>
      BY <1>6 DEF DeleteCR
    <3>. QED
      BY <1>w, <3>1 DEF WorldTypeOK
  <2>6. StoreTypeOK' /\ PassTypeOK' /\ PublishedTypeOK' /\ faults' \in Nat
    BY <1>6, <2>3
       DEF DeleteCR, StoreInvariant, TypeOK, StoreTypeOK, PassTypeOK, PublishedTypeOK, pass
  <2>7. pc = "idle" /\ UNCHANGED pass
    BY <1>6 DEF DeleteCR
  <2>8. \A d \in CRs : wanted'[d] # {} => asked'[d] \in SubnetNames
    BY <1>6, <1>w, <1>n DEF DeleteCR, WorldTypeOK
  <2>. QED
    BY <2>4, <2>5, <2>6, <2>7, <2>8 DEF StoreInvariant, TypeOK, PassOK, Reported, pass
<1>. QED
  BY <1>2, <1>3, <1>4, <1>5, <1>6 DEF WorldStep

LEMMA ListServersInv ==
    ASSUME StoreInvariant, NEW c \in CRs, ListServers(c)
    PROVE  StoreInvariant'
<1>w. WorldTypeOK /\ StoreTypeOK /\ PassTypeOK /\ PublishedTypeOK /\ faults \in Nat
  BY DEF StoreInvariant, TypeOK
<1>1. TargetVMs(c) \subseteq Targets
  <2>1. ASSUME NEW s \in Servers, servers[s] \in wanted[c]
        PROVE  [id |-> s, name |-> servers[s], macs |-> {p \in Ports : attached[p] = s}] \in Targets
    BY <1>w, <2>1 DEF WorldTypeOK, Targets
  <2>. QED
    BY <2>1 DEF TargetVMs
<1>2. \A t, u \in TargetVMs(c) : t.id = u.id \/ t.macs \cap u.macs # {} => t = u
  BY DEF TargetVMs
<1>3. PassTypeOK'
  BY <1>w, <1>1 DEF ListServers, StoreInvariant, PassTypeOK, PassOK
<1>4. PassOK'
  BY <1>2 DEF ListServers, StoreInvariant, PassOK, world
<1>5. WorldTypeOK' /\ StoreTypeOK' /\ PublishedTypeOK' /\ faults' \in Nat
  BY <1>w DEF ListServers, WorldTypeOK, StoreTypeOK, PublishedTypeOK, world, published
<1>. QED
  BY <1>3, <1>4, <1>5 DEF ListServers, StoreInvariant, TypeOK, Reported

\* The transaction opens with the store as committed, less the CR's rows.
LEMMA FindSubnetInv ==
    ASSUME StoreInvariant, FindSubnet
    PROVE  StoreInvariant'
<1>w. WorldTypeOK /\ StoreTypeOK /\ PassTypeOK /\ PublishedTypeOK /\ faults \in Nat
  BY DEF StoreInvariant, TypeOK
<1>c. cur \in CRs /\ found = {} /\ db \in Stores /\ Consistent(db) /\ OneSubnet(db)
  BY <1>w DEF FindSubnet, StoreInvariant, PassOK, StoreTypeOK
<1>s. subnet' \in Subnets
  BY ConstantsAssumption DEF FindSubnet, SubnetInfo, StoreInvariant, PassOK
<1>. DEFINE rows == WithoutRowsOf(db.rows, cur)
<1>1. /\ rows \in [Ports -> Rows \cup {NoRow}]
      /\ \A p \in Ports : rows[p] # NoRow => rows[p] = db.rows[p] /\ rows[p].cr # cur
      /\ \A p \in Ports : db.rows[p] # NoRow /\ db.rows[p].cr # cur => rows[p] = db.rows[p]
  BY <1>c, RowsDeleted
<1>2. tx' = [db EXCEPT !.rows = rows, !.subnets = db.subnets \cup {subnet'}]
  BY DEF FindSubnet
<1>. HIDE DEF rows
<1>3. /\ tx' \in Stores
      /\ tx'.rows = rows /\ tx'.nodes = db.nodes /\ tx'.subnets = db.subnets \cup {subnet'}
  BY <1>c, <1>s, <1>1, <1>2 DEF Stores
<1>4. Consistent(tx') /\ OneSubnet(tx')
  BY <1>c, <1>1, <1>3 DEF Consistent, OneSubnet
<1>5. KeepsOthers' /\ Written'
  BY <1>c, <1>s, <1>1, <1>3 DEF FindSubnet, KeepsOthers, Written
<1>6. WorldTypeOK' /\ StoreTypeOK' /\ PublishedTypeOK' /\ faults' \in Nat
  BY <1>w, <1>3 DEF FindSubnet, WorldTypeOK, StoreTypeOK, PublishedTypeOK, world, published
<1>7. PassTypeOK' /\ PassOK'
  BY <1>w, <1>c, <1>s DEF FindSubnet, PassTypeOK, PassOK, StoreInvariant, world
<1>. QED
  BY <1>c, <1>4, <1>5, <1>6, <1>7 DEF FindSubnet, StoreInvariant, TypeOK, Reported

LEMMA UpsertNodeInv ==
    ASSUME StoreInvariant, NEW t \in todo, UpsertNode(t)
    PROVE  StoreInvariant'
<1>w. WorldTypeOK /\ StoreTypeOK /\ PassTypeOK /\ PublishedTypeOK /\ faults \in Nat
  BY DEF StoreInvariant, TypeOK
<1>t. /\ t \in Targets /\ t \in targets /\ tx \in Stores /\ db \in Stores /\ found = {}
      /\ Consistent(tx) /\ OneSubnet(tx) /\ KeepsOthers /\ Written
  BY <1>w DEF UpsertNode, StoreInvariant, PassTypeOK, StoreTypeOK, PassOK
<1>1. CASE NodeKeysAllow(tx, t)
  <2>. DEFINE nodes == UpsertedNodes(tx, t)
  <2>1. /\ nodes \in [Servers -> Names \cup {NoName}]
        /\ nodes[t.id] \in {NoName, t.name}
        /\ \A s \in Servers \ {t.id} : nodes[s] = tx.nodes[s]
        /\ \A s, u \in Servers : nodes[s] = nodes[u] /\ s # u => nodes[s] = NoName
        /\ \A p \in Ports : tx.rows[p] # NoRow => nodes[tx.rows[p].id] = tx.rows[p].name
    BY <1>t, <1>1, UpsertedNode
  <2>2. tx' = [tx EXCEPT !.nodes = nodes] /\ todo' = todo \ {t}
    BY <1>1 DEF UpsertNode
  <2>. HIDE DEF nodes
  <2>3. tx' \in Stores /\ tx'.nodes = nodes /\ tx'.rows = tx.rows /\ tx'.subnets = tx.subnets
    BY <1>t, <2>1, <2>2 DEF Stores
  <2>4. Consistent(tx') /\ OneSubnet(tx')
    BY <1>t, <2>1, <2>3 DEF Consistent, OneSubnet
  <2>5. /\ UNCHANGED <<world, db, published, faults>>
        /\ UNCHANGED <<pc, cur, sought, targets, subnet, found, report>>
    BY <1>1 DEF UpsertNode
  <2>6. ASSUME NEW u \in targets' \ todo'
        PROVE  tx'.nodes[u.id] \in {NoName, u.name}
    <3>1. u \in targets /\ u.id \in Servers
      BY <1>w, <2>5 DEF PassTypeOK, Targets
    <3>2. CASE u = t
      BY <2>1, <2>3, <3>2
    <3>3. CASE u # t
      <4>1. u.id # t.id /\ u \notin todo
        BY <1>t, <2>2, <3>1, <3>3 DEF StoreInvariant, PassOK
      <4>. QED
        BY <1>t, <2>1, <2>3, <3>1, <4>1 DEF Written
    <3>. QED
      BY <3>2, <3>3
  <2>7. KeepsOthers' /\ Written'
    BY <1>t, <2>3, <2>5, <2>6 DEF KeepsOthers, Written
  <2>8. WorldTypeOK' /\ StoreTypeOK' /\ PublishedTypeOK' /\ faults' \in Nat
    BY <1>w, <2>3, <2>5 DEF WorldTypeOK, StoreTypeOK, PublishedTypeOK, world, published
  <2>9. PassTypeOK' /\ PassOK' /\ Reported'
    BY <1>w, <2>2, <2>5 DEF PassTypeOK, PassOK, Reported, StoreInvariant, UpsertNode, world
  <2>. QED
    BY <2>4, <2>5, <2>7, <2>8, <2>9 DEF StoreInvariant, TypeOK
<1>2. CASE ~NodeKeysAllow(tx, t)
  <2>1. Idle /\ UNCHANGED <<world, db, published, faults>>
    BY <1>2 DEF UpsertNode
  <2>2. PublishedTypeOK'
    BY <1>w, <2>1 DEF PublishedTypeOK, published
  <2>. QED
    BY <1>w, <1>t, <2>1, <2>2, EndOfPass DEF StoreInvariant
<1>. QED
  BY <1>1, <1>2

\* The interfaces found are those of the targets, all of them in the subnet.
LEMMA FindPortsInv ==
    ASSUME StoreInvariant, FindPorts
    PROVE  StoreInvariant'
<1>w. WorldTypeOK /\ StoreTypeOK /\ PassTypeOK /\ PublishedTypeOK /\ faults \in Nat
  BY DEF StoreInvariant, TypeOK
<1>1. PICK skipped \in SUBSET UNION {InSubnet(t) : t \in targets} :
        LET ports == (UNION {InSubnet(t) : t \in targets}) \ skipped IN
        /\ IF skipped = {} THEN UNCHANGED faults
                           ELSE faults > 0 /\ faults' = faults - 1
        /\ found' = UNION {{[port |-> p, id |-> t.id, name |-> t.name] :
                              p \in t.macs \cap ports} : t \in targets}
        /\ \E mac \in [targets -> Ports \cup {NoPort}] :
            /\ \A t \in targets :
                IF ReportedMACs(t, ports) = {} THEN mac[t] = NoPort
                                               ELSE mac[t] \in ReportedMACs(t, ports)
            /\ report' = {[name |-> t.name, mac |-> mac[t]] : t \in targets}
  BY DEF FindPorts
<1>2. /\ pc = "nodes" /\ pc' = "interfaces" /\ todo = {}
      /\ UNCHANGED <<world, db, tx, cur, sought, targets, todo, subnet, published>>
  BY DEF FindPorts
<1>3. ASSUME NEW f \in found'
      PROVE  \E t \in targets : /\ f.id = t.id /\ f.name = t.name /\ f.port \in t.macs
                                /\ f = [port |-> f.port, id |-> f.id, name |-> f.name]
                                /\ subnet \in PortSubnets[f.port]
  BY <1>1, <1>3 DEF InSubnet
<1>4. \A t \in targets : t.id \in Servers /\ t.name \in Names /\ t.macs \subseteq Ports
  BY <1>w DEF PassTypeOK, Targets
<1>5. found' \subseteq Interfaces
  <2>1. ASSUME NEW f \in found' PROVE f \in Interfaces
    BY <1>3, <1>4, <2>1 DEF Interfaces
  <2>. QED
    BY <2>1
<1>6. report' \subseteq Infos
  BY <1>1, <1>4 DEF Infos
<1>7. faults' \in Nat
  BY <1>w, <1>1
<1>8. PassTypeOK' /\ PassOK'
  BY <1>w, <1>2, <1>5, <1>6 DEF PassTypeOK, PassOK, StoreInvariant, world
<1>9. KeepsOthers' /\ Written'
  <2>1. KeepsOthers /\ Written
    BY <1>2 DEF StoreInvariant
  <2>2. \A f \in found' : tx.nodes[f.id] \in {NoName, f.name} /\ subnet \in PortSubnets[f.port]
    BY <1>2, <1>3, <2>1 DEF Written
  <2>. QED
    BY <1>2, <2>1, <2>2 DEF KeepsOthers, Written
<1>10. WorldTypeOK' /\ StoreTypeOK' /\ PublishedTypeOK'
  BY <1>w, <1>2 DEF WorldTypeOK, StoreTypeOK, PublishedTypeOK, world, published
<1>11. Reported'
  <2>. SUFFICES ASSUME NEW i \in report', i.mac # NoPort
                PROVE  /\ \E f \in found' : f.port = i.mac
                       /\ \A f \in found' : f.port = i.mac => f.name = i.name
    BY <1>2 DEF Reported
  <2>1. PICK t \in targets : /\ i.name = t.name /\ i.mac \in t.macs
                             /\ \E f \in found' : f.port = i.mac
    <3>. DEFINE ports == (UNION {InSubnet(t) : t \in targets}) \ skipped
                row(p, t) == [port |-> p, id |-> t.id, name |-> t.name]
    <3>1. found' = UNION {{row(p, t) : p \in t.macs \cap ports} : t \in targets}
      BY <1>1
    <3>2. PICK mac \in [targets -> Ports \cup {NoPort}] :
            /\ \A t \in targets : IF t.macs \cap ports = {} THEN mac[t] = NoPort
                                                           ELSE mac[t] \in t.macs \cap ports
            /\ report' = {[name |-> t.name, mac |-> mac[t]] : t \in targets}
      BY <1>1 DEF ReportedMACs
    <3>. HIDE DEF ports
    <3>3. PICK t \in targets : i = [name |-> t.name, mac |-> mac[t]]
      BY <3>2
    <3>4. i.name = t.name /\ i.mac \in t.macs \cap ports
      BY <3>2, <3>3
    <3>5. row(i.mac, t) \in found' /\ row(i.mac, t).port = i.mac
      BY <3>1, <3>4
    <3>. QED
      BY <3>4, <3>5
  <2>2. ASSUME NEW f \in found', f.port = i.mac
        PROVE  f.name = i.name
    <3>1. PICK u \in targets : f.name = u.name /\ f.port \in u.macs
      BY <1>3
    <3>2. u = t
      BY <2>1, <2>2, <3>1 DEF StoreInvariant, PassOK
    <3>. QED
      BY <2>1, <3>1, <3>2
  <2>. QED
    BY <2>1, <2>2
<1>. QED
  BY <1>2, <1>7, <1>8, <1>9, <1>10, <1>11 DEF StoreInvariant, TypeOK

LEMMA UpsertInterfaceInv ==
    ASSUME StoreInvariant, NEW f \in found, UpsertInterface(f)
    PROVE  StoreInvariant'
<1>w. WorldTypeOK /\ StoreTypeOK /\ PassTypeOK /\ PublishedTypeOK /\ faults \in Nat
  BY DEF StoreInvariant, TypeOK
<1>t. /\ f \in Interfaces /\ tx \in Stores /\ db \in Stores /\ cur \in CRs
      /\ Consistent(tx) /\ OneSubnet(tx) /\ KeepsOthers /\ Written
  BY <1>w DEF UpsertInterface, StoreInvariant, PassTypeOK, StoreTypeOK, PassOK
<1>f. /\ f.port \in Ports /\ f.id \in Servers /\ f.name \in Names
      /\ subnet \in Subnets /\ subnet \in tx.subnets
      /\ subnet \in PortSubnets[f.port]
  BY <1>t, ConstantsAssumption DEF Written, Interfaces
<1>1. CASE RowKeysAllow(tx, f)
  <2>. DEFINE row == UpsertedRow(tx, f)
  <2>1. /\ row \in Rows /\ row # NoRow
        /\ row.id = f.id /\ row.name = f.name
        /\ tx.rows[f.port] = NoRow => row.cr = cur /\ row.subnet = subnet
        /\ tx.rows[f.port] # NoRow
             => row.cr = tx.rows[f.port].cr /\ row.subnet = tx.rows[f.port].subnet
    BY <1>t, <1>f, UpsertedRowType
  <2>2. tx' = [tx EXCEPT !.rows[f.port] = row] /\ found' = found \ {f}
    BY <1>1 DEF UpsertInterface
  <2>. HIDE DEF row
  <2>3. /\ tx' \in Stores /\ tx'.nodes = tx.nodes /\ tx'.subnets = tx.subnets
        /\ tx'.rows[f.port] = row
        /\ \A p \in Ports \ {f.port} : tx'.rows[p] = tx.rows[p]
    BY <1>t, <1>f, <2>1, <2>2 DEF Stores
  <2>4. /\ UNCHANGED <<world, db, published, faults>>
        /\ UNCHANGED <<pc, cur, sought, targets, todo, subnet, report>>
    BY <1>1 DEF UpsertInterface
  <2>5. Consistent(tx')
    <3>1. tx.nodes[f.id] = f.name
      BY <1>1, <1>t DEF RowKeysAllow, Written
    <3>2. row.subnet \in tx.subnets
      BY <1>t, <1>f, <2>1 DEF Consistent
    <3>. QED
      BY <1>t, <2>1, <2>3, <3>1, <3>2 DEF Consistent
  <2>6. OneSubnet(tx')
    <3>1. /\ row.subnet \in PortSubnets[f.port]
          /\ \A q \in Ports : tx.rows[q] # NoRow /\ tx.rows[q].cr = row.cr
                                => tx.rows[q].subnet = row.subnet
      BY <1>t, <1>f, <2>1 DEF OneSubnet, Written
    <3>. QED
      BY <1>t, <1>f, <2>1, <2>3, <3>1 DEF OneSubnet
  <2>7. KeepsOthers'
    BY <1>t, <1>f, <2>1, <2>3, <2>4 DEF KeepsOthers
  <2>8. Written'
    <3>1. tx.rows[f.port] # NoRow /\ tx.rows[f.port].cr = cur => tx.rows[f.port].subnet = subnet
      BY <1>t, <1>f DEF Written
    <3>2. \A p \in Ports : tx'.rows[p] # NoRow /\ tx'.rows[p].cr = cur => tx'.rows[p].subnet = subnet
      BY <1>t, <2>1, <2>3, <3>1 DEF Written
    <3>. QED
      BY <1>t, <2>2, <2>3, <2>4, <3>2 DEF Written
  <2>9. WorldTypeOK' /\ StoreTypeOK' /\ PublishedTypeOK' /\ faults' \in Nat
    BY <1>w, <2>3, <2>4 DEF WorldTypeOK, StoreTypeOK, PublishedTypeOK, world, published
  <2>10. PassTypeOK' /\ PassOK'
    BY <1>w, <2>2, <2>4 DEF PassTypeOK, PassOK, StoreInvariant, UpsertInterface, world
  <2>11. Reported'
    <3>. SUFFICES ASSUME NEW i \in report, i.mac # NoPort
                  PROVE  /\ Recorded(tx', i) \/ \E g \in found' : g.port = i.mac
                         /\ \A g \in found' : g.port = i.mac => g.name = i.name
      BY <2>4 DEF Reported, UpsertInterface
    <3>1. /\ Recorded(tx, i) \/ \E g \in found : g.port = i.mac
          /\ \A g \in found : g.port = i.mac => g.name = i.name
          /\ i.mac \in Ports
      BY <1>w DEF UpsertInterface, StoreInvariant, Reported, PassTypeOK, Infos
    <3>2. CASE i.mac = f.port
      BY <2>1, <2>2, <2>3, <3>1, <3>2 DEF Recorded
    <3>3. CASE i.mac # f.port
      BY <2>2, <2>3, <3>1, <3>3 DEF Recorded
    <3>. QED
      BY <3>2, <3>3
  <2>. QED
    BY <2>4, <2>5, <2>6, <2>7, <2>8, <2>9, <2>10, <2>11 DEF StoreInvariant, TypeOK
<1>2. CASE ~RowKeysAllow(tx, f)
  <2>1. Idle /\ UNCHANGED <<world, db, published, faults>>
    BY <1>2 DEF UpsertInterface
  <2>2. PublishedTypeOK'
    BY <1>w, <2>1 DEF PublishedTypeOK, published
  <2>. QED
    BY <1>w, <1>t, <2>1, <2>2, EndOfPass DEF StoreInvariant
<1>. QED
  BY <1>1, <1>2

LEMMA CommitInv ==
    ASSUME StoreInvariant, Commit
    PROVE  StoreInvariant'
<1>w. WorldTypeOK /\ StoreTypeOK /\ PassTypeOK /\ PublishedTypeOK /\ faults \in Nat
  BY DEF StoreInvariant, TypeOK
<1>1. WorldTypeOK' /\ StoreTypeOK' /\ PassTypeOK' /\ PublishedTypeOK' /\ faults' \in Nat
  BY <1>w
     DEF Commit, WorldTypeOK, StoreTypeOK, PassTypeOK, PublishedTypeOK, world, published
<1>2. PassOK' /\ Reported'
  BY DEF Commit, StoreInvariant, PassOK, Reported, Recorded, world
<1>. QED
  BY <1>1, <1>2 DEF Commit, StoreInvariant, TypeOK

LEMMA EndsInv ==
    ASSUME StoreInvariant, PublishStatus \/ Abort
    PROVE  StoreInvariant'
<1>w. WorldTypeOK /\ StoreTypeOK /\ PassTypeOK /\ PublishedTypeOK /\ faults \in Nat
  BY DEF StoreInvariant, TypeOK
<1>1. CASE PublishStatus
  <2>1. cur \in CRs
    BY <1>1 DEF PublishStatus, StoreInvariant, PassOK
  <2>2. PublishedTypeOK'
    BY <1>w, <1>1, <2>1 DEF PublishStatus, PublishedTypeOK, PassTypeOK
  <2>. QED
    BY <1>w, <1>1, <2>2, EndOfPass DEF PublishStatus, StoreInvariant, StoreTypeOK
<1>2. CASE Abort
  <2>1. PublishedTypeOK' /\ faults' \in Nat /\ Idle /\ UNCHANGED world
    <3>1. /\ faults > 0 /\ faults' = faults - 1
          /\ Idle
          /\ UNCHANGED world /\ UNCHANGED published
      BY <1>2 DEF Abort
    <3>2. faults' \in Nat
      BY <1>w, <3>1
    <3>3. PublishedTypeOK'
      BY <1>w, <3>1 DEF PublishedTypeOK, published
    <3>. QED
      BY <3>1, <3>2, <3>3
  <2>2. db' \in Stores /\ Consistent(db') /\ OneSubnet(db')
    <3>1. db' = db \/ (pc = "interfaces" /\ db' = tx)
      BY <1>2 DEF Abort
    <3>. QED
      BY <1>w, <3>1 DEF StoreInvariant, StoreTypeOK
  <2>. QED
    BY <2>1, <2>2, EndOfPass
<1>. QED
  BY <1>1, <1>2

LEMMA StoreInvStep ==
    ASSUME StoreInvariant, [Next]_vars
    PROVE  StoreInvariant'
<1>w. WorldTypeOK /\ StoreTypeOK /\ PassTypeOK /\ PublishedTypeOK /\ faults \in Nat
  BY DEF StoreInvariant, TypeOK
<1>1. ASSUME UNCHANGED <<world, db, tx, pass>>, faults' \in Nat, PublishedTypeOK'
      PROVE  StoreInvariant'
  <2>1. WorldTypeOK' /\ StoreTypeOK' /\ PassTypeOK' /\ faults' \in Nat
    BY <1>w, <1>1 DEF WorldTypeOK, StoreTypeOK, PassTypeOK, world, pass
  <2>2. (KeepsOthers /\ Written => KeepsOthers' /\ Written') /\ PassOK' /\ Reported'
    BY <1>1 DEF StoreInvariant, PassOK, Reported, Recorded, KeepsOthers, Written, pass, world
  <2>. QED
    BY <1>1, <2>1, <2>2 DEF StoreInvariant, TypeOK, pass
<1>2. ASSUME NEW c \in CRs, NoTargetVMs(c) PROVE StoreInvariant'
  <2>1. faults' \in Nat
    BY <1>2, <1>w DEF NoTargetVMs
  <2>2. PublishedTypeOK'
    BY <1>2, <1>w DEF NoTargetVMs, PublishedTypeOK
  <2>. QED
    BY <1>1, <1>2, <2>1, <2>2 DEF NoTargetVMs
<1>3. CASE UNCHANGED vars
  BY <1>1, <1>3, <1>w DEF vars, published, PublishedTypeOK
<1>4. CASE SubnetNotFound
  <2>1. PublishedTypeOK'
    BY <1>4, <1>w DEF SubnetNotFound, PublishedTypeOK, published
  <2>. QED
    BY <1>4, <1>w, <2>1, EndOfPass DEF SubnetNotFound, StoreInvariant, StoreTypeOK
<1>. QED
  BY <1>2, <1>3, <1>4, WorldInv, ListServersInv, FindSubnetInv, UpsertNodeInv, FindPortsInv,
     UpsertInterfaceInv, CommitInv, EndsInv
     DEF Next, PassStep

-----------------------------------------------------------------------------
(* The theorems. *)

\* StoreInvariant is inductive.
THEOREM StoreInvariance == Spec => []StoreInvariant
  BY StoreInvInit, StoreInvStep, PTL DEF Spec

\* Every state is well typed.
THEOREM StoreTypeCorrect == Spec => []TypeOK
<1>1. StoreInvariant => TypeOK
  BY DEF StoreInvariant
<1>. QED
  BY <1>1, StoreInvariance, PTL

\* A row of multi_interface refers to one node, by its ID and by its name.
THEOREM RowsNodesAgree == Spec => []RowNodeConsistent
<1>1. StoreInvariant => RowNodeConsistent
  BY DEF StoreInvariant, RowNodeConsistent
<1>. QED
  BY <1>1, StoreInvariance, PTL

\* The rows of a CR are in one subnet, which each of their ports has, however
\* often its subnet name was edited and whichever CR's pass wrote them last.
THEOREM RowsSubnet == Spec => []RowsInOneSubnet
<1>1. StoreInvariant => RowsInOneSubnet
  BY DEF StoreInvariant, RowsInOneSubnet
<1>. QED
  BY <1>1, StoreInvariance, PTL

\* One CR's passes and deletion leave the others' rows to them.
LEMMA OthersStep ==
    ASSUME StoreInvariant, [Next]_vars, NEW p \in Ports,
           db.rows[p] # NoRow, db.rows[p].cr # cur, wanted'[db.rows[p].cr] # {}
    PROVE  /\ db'.rows[p] # NoRow
           /\ db'.rows[p].cr = db.rows[p].cr
           /\ db'.rows[p].subnet = db.rows[p].subnet
<1>1. CASE db' = db
  BY <1>1
<1>2. CASE pc = "interfaces" /\ db' = tx
  BY <1>2 DEF StoreInvariant, KeepsOthers
<1>3. ASSUME NEW c \in CRs, DeleteCR(c)
      PROVE  db'.rows[p] = db.rows[p]
  <2>1. db \in Stores /\ wanted \in [CRs -> SUBSET Names]
    BY DEF StoreInvariant, TypeOK, StoreTypeOK, WorldTypeOK
  <2>2. wanted' = [wanted EXCEPT ![c] = {}] /\ db' = [db EXCEPT !.rows = WithoutRowsOf(db.rows, c)]
    BY <1>3 DEF DeleteCR
  <2>3. db.rows[p].cr # c
    BY <2>1, <2>2
  <2>4. db'.rows = WithoutRowsOf(db.rows, c)
    BY <2>1, <2>2 DEF Stores
  <2>. QED
    BY <2>1, <2>3, <2>4, RowsDeleted
<1>4. \/ db' = db
      \/ pc = "interfaces" /\ db' = tx
      \/ \E c \in CRs : DeleteCR(c)
  BY DEF Next, WorldStep, WorldOp, BootServer, RenameServer, DeleteServer, SetSpec,
         ListServers, NoTargetVMs, PassStep, FindSubnet, SubnetNotFound, UpsertNode, FindPorts,
         UpsertInterface, Commit, PublishStatus, Abort, vars
<1>. QED
  BY <1>1, <1>2, <1>3, <1>4

THEOREM OthersKept == Spec => OthersRowsKept
<1>1. StoreInvariant /\ [Next]_vars
        => [\A p \in Ports :
              LET old == db.rows[p] IN
              old # NoRow /\ old.cr # cur /\ wanted'[old.cr] # {}
                => /\ db'.rows[p] # NoRow
                   /\ db'.rows[p].cr = old.cr
                   /\ db'.rows[p].subnet = old.subnet]_vars
  BY OthersStep
<1>. QED
  BY <1>1, StoreInvariance, PTL DEF Spec, OthersRowsKept

\* Only a pass that has committed what it reports publishes it.
LEMMA PublishedStep ==
    ASSUME StoreInvariant, [Next]_vars, NEW c \in CRs, infos'[c] # infos[c],
           NEW i \in infos'[c], i.mac # NoPort
    PROVE  Recorded(db, i)
<1>i. infos \in [CRs -> SUBSET Infos]
  BY DEF StoreInvariant, TypeOK, PublishedTypeOK
<1>1. CASE PublishStatus
  <2>1. cur \in CRs /\ infos' = [infos EXCEPT ![cur] = report] /\ pc = "status"
    BY <1>1 DEF PublishStatus, StoreInvariant, PassOK
  <2>2. i \in report
    BY <1>i, <2>1
  <2>. QED
    BY <2>1, <2>2 DEF StoreInvariant, Reported
<1>2. ASSUME NEW d \in CRs, DeleteCR(d) PROVE FALSE
  <2>1. infos' = [infos EXCEPT ![d] = {}]
    BY <1>2 DEF DeleteCR
  <2>. QED
    BY <1>i, <2>1
<1>3. infos' = infos \/ PublishStatus \/ \E d \in CRs : DeleteCR(d)
  BY DEF Next, WorldStep, WorldOp, BootServer, RenameServer, DeleteServer, SetSpec,
         ListServers, NoTargetVMs, PassStep, FindSubnet, SubnetNotFound, UpsertNode, FindPorts,
         UpsertInterface, Commit, Abort, vars, published
<1>. QED
  BY <1>1, <1>2, <1>3

\* Every MAC that a status shows was committed, with the name it is shown with.
THEOREM PublishedIsRecorded == Spec => PublishedRecorded
<1>1. StoreInvariant /\ [Next]_vars
        => [\A c \in CRs :
              infos'[c] # infos[c] =>
                \A i \in infos'[c] : i.mac # NoPort => Recorded(db, i)]_vars
  BY PublishedStep
<1>. QED
  BY <1>1, StoreInvariance, PTL DEF Spec, PublishedRecorded

-----------------------------------------------------------------------------
(* The store implements InterfaceRecords. *)

LEMMA RecordsInit == Init => Records!Init
<1>1. Init => {c \in CRs : wanted[c] # {}} = {}
  BY DEF Init
<1>2. EmptyStore.rows = [p \in Ports |-> NoRow]
  BY DEF EmptyStore
<1>3. Init => db.rows = [p \in Ports |-> NoRow] /\ infos = [c \in CRs |-> {}]
  BY <1>2 DEF Init
<1>. QED
  BY <1>1, <1>3 DEF Records!Init

\* A commit replaces the rows of the pass's CR, and nothing else.
LEMMA CommitReplaces ==
    ASSUME StoreInvariant, pc = "interfaces", db' = tx, UNCHANGED <<world, published>>
    PROVE  Records!Replace(cur)
<1>. DEFINE live == {c \in CRs : wanted[c] # {}}
<1>1. /\ cur \in live /\ tx \in Stores /\ db \in Stores
      /\ Consistent(tx) /\ OneSubnet(tx) /\ KeepsOthers /\ Written
  BY DEF StoreInvariant, TypeOK, StoreTypeOK, PassOK
<1>2. db'.rows \in [Ports -> Rows \cup {NoRow}]
  BY <1>1 DEF Stores
<1>3. Records!Agree(tx.rows)
  <2>. SUFFICES ASSUME NEW p \in Ports, NEW q \in Ports, tx.rows[p] # NoRow, tx.rows[q] # NoRow
                PROVE  tx.rows[p].id = tx.rows[q].id <=> tx.rows[p].name = tx.rows[q].name
    BY DEF Records!Agree
  <2>1. /\ tx.rows[p] \in Rows /\ tx.rows[q] \in Rows
        /\ tx.nodes[tx.rows[p].id] = tx.rows[p].name
        /\ tx.nodes[tx.rows[q].id] = tx.rows[q].name
    BY <1>1 DEF Stores, Consistent
  <2>2. /\ tx.rows[p].id \in Servers /\ tx.rows[q].id \in Servers
        /\ tx.rows[p].name # NoName
    BY <2>1, ConstantsAssumption DEF Rows
  <2>. QED
    BY <1>1, <2>1, <2>2 DEF Consistent
<1>4. ASSUME NEW p \in Ports
      PROVE  IF db.rows[p] # NoRow /\ db.rows[p].cr # cur
             THEN /\ tx.rows[p] # NoRow /\ tx.rows[p].cr = db.rows[p].cr
                  /\ tx.rows[p].subnet = db.rows[p].subnet
             ELSE tx.rows[p] # NoRow =>
                    /\ tx.rows[p].cr = cur /\ tx.rows[p].subnet = subnet
                    /\ subnet \in PortSubnets[p]
  <2>1. CASE db.rows[p] # NoRow /\ db.rows[p].cr # cur
    BY <1>1, <2>1 DEF KeepsOthers
  <2>2. CASE ~(db.rows[p] # NoRow /\ db.rows[p].cr # cur)
    <3>1. tx.rows[p] # NoRow => tx.rows[p].cr = cur
      BY <1>1, <2>2 DEF KeepsOthers
    <3>. QED
      BY <1>1, <2>2, <3>1 DEF Written, OneSubnet
  <2>. QED
    BY <2>1, <2>2
<1>5. subnet \in Subnets
  BY <1>1 DEF Written
<1>6. UNCHANGED <<wanted, infos>>
  BY DEF world, published
<1>. QED
  BY <1>1, <1>2, <1>3, <1>4, <1>5, <1>6 DEF Records!Replace, Records!Rows, Rows, Records!Agree

LEMMA PublishShows ==
    ASSUME StoreInvariant, PublishStatus
    PROVE  Records!Publish(cur)
<1>1. /\ cur \in CRs /\ wanted[cur] # {}
      /\ report \subseteq Infos /\ Reported /\ pc = "status"
  BY DEF PublishStatus, StoreInvariant, TypeOK, PassTypeOK, PassOK
<1>2. \A i \in report :
        i.mac # NoPort => db.rows[i.mac] # NoRow /\ db.rows[i.mac].name = i.name
  BY <1>1 DEF Reported, Recorded
<1>3. infos' = [infos EXCEPT ![cur] = report] /\ UNCHANGED <<wanted, db>>
  BY DEF PublishStatus, world
<1>. QED
  BY <1>1, <1>2, <1>3 DEF Records!Publish, Records!Infos, Infos

LEMMA DeletionPurges ==
    ASSUME StoreInvariant, NEW c \in CRs, DeleteCR(c)
    PROVE  Records!Purge(c)
<1>1. wanted \in [CRs -> SUBSET Names] /\ db \in Stores
  BY DEF StoreInvariant, TypeOK, StoreTypeOK, WorldTypeOK
<1>2. /\ wanted[c] # {} /\ wanted' = [wanted EXCEPT ![c] = {}]
      /\ db' = [db EXCEPT !.rows = WithoutRowsOf(db.rows, c)]
      /\ infos' = [infos EXCEPT ![c] = {}]
  BY DEF DeleteCR
<1>3. {d \in CRs : wanted'[d] # {}} = {d \in CRs : wanted[d] # {}} \ {c}
  BY <1>1, <1>2
<1>4. db'.rows = [p \in Ports |-> IF db.rows[p] # NoRow /\ db.rows[p].cr = c
                                  THEN NoRow ELSE db.rows[p]]
  BY <1>1, <1>2 DEF Stores, WithoutRowsOf
<1>. QED
  BY <1>2, <1>3, <1>4 DEF Records!Purge

LEMMA SpecSet ==
    ASSUME StoreInvariant, NEW c \in CRs, SetSpec(c)
    PROVE  Records!Create(c)
<1>1. wanted \in [CRs -> SUBSET Names]
  BY DEF StoreInvariant, TypeOK, WorldTypeOK
<1>2. PICK ns \in (SUBSET Names) \ {{}} : wanted' = [wanted EXCEPT ![c] = ns]
  BY DEF SetSpec
<1>3. {d \in CRs : wanted'[d] # {}} = {d \in CRs : wanted[d] # {}} \cup {c}
  BY <1>1, <1>2
<1>. QED
  BY <1>3 DEF SetSpec, WorldOp, published, Records!Create

LEMMA RecordsStep ==
    ASSUME StoreInvariant, [Next]_vars
    PROVE  [Records!Next]_(Records!vars)
<1>1. ASSUME NEW c \in CRs, DeleteCR(c) \/ SetSpec(c) PROVE Records!Next
  BY <1>1, DeletionPurges, SpecSet DEF Records!Next
<1>2. CASE PublishStatus
  BY <1>2, PublishShows DEF Records!Next, PublishStatus, StoreInvariant, PassOK
<1>3. CASE pc = "interfaces" /\ db' = tx /\ UNCHANGED <<world, published>>
  BY <1>3, CommitReplaces DEF Records!Next, StoreInvariant, PassOK
<1>4. CASE UNCHANGED <<wanted, db, infos>>
  BY <1>4 DEF Records!vars
<1>5. \/ \E c \in CRs : DeleteCR(c) \/ SetSpec(c)
      \/ PublishStatus
      \/ pc = "interfaces" /\ db' = tx /\ UNCHANGED <<world, published>>
      \/ UNCHANGED <<wanted, db, infos>>
  BY DEF Next, WorldStep, WorldOp, BootServer, RenameServer, DeleteServer,
         ListServers, NoTargetVMs, PassStep, FindSubnet, SubnetNotFound, UpsertNode, FindPorts,
         UpsertInterface, Commit, Abort, vars, world, published
<1>. QED
  BY <1>1, <1>2, <1>3, <1>4, <1>5

\* Whatever users, Nova and faults do between its statements, a transaction
\* replaces the records of one CR or changes nothing, a deletion removes one
\* CR's, and a status shows what is recorded.
THEOREM RecordsImplemented == Spec => ImplementsRecords
<1>1. StoreInvariant /\ [Next]_vars => [Records!Next]_(Records!vars)
  BY RecordsStep
<1>. QED
  BY <1>1, RecordsInit, StoreInvariance, PTL DEF Spec, ImplementsRecords, Records!Spec

\* multi_interface has no row, and no status is left, of a CR that is gone.
NoRowOutlivesItsCR ==
    /\ \A p \in Ports : db.rows[p] # NoRow => wanted[db.rows[p].cr] # {}
    /\ \A c \in CRs : wanted[c] = {} => infos[c] = {}

THEOREM NoOrphanRows == Spec => []NoRowOutlivesItsCR
<1>1. Records!RecordsOK => NoRowOutlivesItsCR
  BY DEF Records!RecordsOK, Records!NoOrphans, NoRowOutlivesItsCR
<1>. QED
  BY <1>1, RecordsImplemented, Records!RecordsInvariance, PTL DEF ImplementsRecords

-----------------------------------------------------------------------------
(* The name of a server that is gone is taken for good. *)

\* node_table has the name n for server t, which is gone, and neither the
\* open transaction nor what the pass listed says otherwise.
Ghost(t, n) ==
    /\ servers[t] = Gone
    /\ db.nodes[t] = n
    /\ \A u \in targets : u.id = t => u.name = n
    /\ pc \in {"nodes", "interfaces"} => tx.nodes[t] = n

LEMMA GhostStep ==
    ASSUME StoreInvariant, [Next]_vars, NEW t \in Servers, NEW n \in Names, Ghost(t, n)
    PROVE  Ghost(t, n)'
<1>. /\ WorldTypeOK /\ db \in Stores /\ tx \in Stores /\ targets \subseteq Targets
     /\ todo \subseteq targets
  BY DEF StoreInvariant, TypeOK, StoreTypeOK, PassTypeOK
<1>1. servers'[t] = Gone
  <2>1. UNCHANGED servers \/ \E s \in Servers :
            \/ BootServer(s) \/ RenameServer(s) \/ DeleteServer(s)
    BY DEF Next, WorldStep, WorldOp, SetSpec, DeleteCR,
           ListServers, NoTargetVMs, PassStep, FindSubnet, SubnetNotFound, UpsertNode, FindPorts,
           UpsertInterface, Commit, PublishStatus, Abort, vars, world
  <2>. QED
    BY <2>1, ConstantsAssumption
       DEF Ghost, BootServer, RenameServer, DeleteServer, Exists, WorldTypeOK
<1>2. \A u \in targets' : u.id = t => u.name = n
  <2>1. ASSUME NEW c \in CRs, ListServers(c), NEW u \in targets' PROVE u.id # t
    <3>1. servers[u.id] \in Names
      BY <2>1 DEF ListServers, TargetVMs, WorldTypeOK
    <3>. QED
      BY <3>1, ConstantsAssumption DEF Ghost
  <2>2. targets' \subseteq targets \/ \E c \in CRs : ListServers(c)
    BY DEF Next, WorldStep, WorldOp, BootServer, RenameServer, DeleteServer, SetSpec,
           DeleteCR, NoTargetVMs, PassStep, FindSubnet, SubnetNotFound, UpsertNode,
           FindPorts, UpsertInterface, Commit, PublishStatus, Abort, Idle, vars, pass
  <2>. QED
    BY <2>1, <2>2 DEF Ghost
<1>3. pc' \in {"nodes", "interfaces"} => tx'.nodes[t] = n
  <2>1. CASE FindSubnet
    BY <2>1 DEF FindSubnet, Ghost, Stores
  <2>2. ASSUME NEW u \in todo, UpsertNode(u) PROVE pc' = "idle" \/ tx'.nodes[t] = n
    <3>1. u \in Targets /\ (u.id = t => u.name = n) /\ tx.nodes[t] = n
      BY <2>2 DEF UpsertNode, Ghost
    <3>2. \/ pc' = "idle" \/ tx' = [tx EXCEPT !.nodes = tx.nodes]
          \/ tx' = [tx EXCEPT !.nodes = [tx.nodes EXCEPT ![u.id] = u.name]]
      BY <2>2 DEF UpsertNode, Idle, UpsertedNodes
    <3>. QED
      BY <3>1, <3>2 DEF Stores, Targets
  <2>3. ASSUME NEW f \in found, UpsertInterface(f) PROVE pc' = "idle" \/ tx'.nodes[t] = n
    BY <2>3 DEF UpsertInterface, Idle, Ghost, Stores
  <2>4. CASE UNCHANGED <<pc, tx>> \/ pc' \in {"idle", "subnet", "status"}
    BY <2>4 DEF Ghost
  <2>5. CASE FindPorts
    BY <2>5 DEF FindPorts, Ghost
  <2>. QED
    BY <2>1, <2>2, <2>3, <2>4, <2>5
       DEF Next, WorldStep, WorldOp, BootServer, RenameServer, DeleteServer, SetSpec,
           DeleteCR, ListServers, NoTargetVMs, PassStep, SubnetNotFound, Commit, PublishStatus,
           Abort, Idle, vars, pass
<1>4. db'.nodes[t] = n
  <2>1. \/ UNCHANGED db \/ (pc = "interfaces" /\ db' = tx)
        \/ \E c \in CRs : db' = [db EXCEPT !.rows = WithoutRowsOf(db.rows, c)]
    BY DEF Next, WorldStep, WorldOp, BootServer, RenameServer, DeleteServer, SetSpec,
           DeleteCR, ListServers, NoTargetVMs, PassStep, FindSubnet, SubnetNotFound,
           UpsertNode, FindPorts, UpsertInterface, Commit, PublishStatus, Abort, vars
  <2>. QED
    BY <2>1 DEF Ghost, Stores
<1>. QED
  BY <1>1, <1>2, <1>3, <1>4 DEF Ghost

\* Nothing deletes from node_table: once a server is gone its name refers to
\* it for good, and no interface of a server created anew under that name is
\* ever recorded with it.
THEOREM NamesOfGoneServersStay ==
    ASSUME NEW t \in Servers, NEW n \in Names
    PROVE  Spec => [](Ghost(t, n) =>
                        [](\A p \in Ports :
                             db.rows[p] # NoRow /\ db.rows[p].name = n => db.rows[p].id = t))
<1>1. StoreInvariant /\ Ghost(t, n) /\ [Next]_vars => Ghost(t, n)'
  BY GhostStep
<1>2. StoreInvariant /\ Ghost(t, n)
        => \A p \in Ports : db.rows[p] # NoRow /\ db.rows[p].name = n => db.rows[p].id = t
  <2>. SUFFICES ASSUME StoreInvariant, Ghost(t, n), NEW p \in Ports,
                       db.rows[p] # NoRow, db.rows[p].name = n
                PROVE  db.rows[p].id = t
    OBVIOUS
  <2>1. db.rows[p].id \in Servers /\ db.nodes[db.rows[p].id] = n
    BY DEF StoreInvariant, TypeOK, StoreTypeOK, Stores, Rows, Consistent
  <2>2. n # NoName
    BY ConstantsAssumption
  <2>. QED
    BY <2>1, <2>2 DEF StoreInvariant, Consistent, Ghost
<1>. QED
  BY <1>1, <1>2, StoreInvariance, PTL DEF Spec

-----------------------------------------------------------------------------
(* The rows of a CR whose VMs are all gone stay. *)

\* Port p is recorded for c, and no pass of c has anything listed.
RowKept(c, p) == db.rows[p] # NoRow /\ db.rows[p].cr = c /\ cur # c

NoneListed(c) == wanted[c] # {} /\ TargetVMs(c) = {}

LEMMA RowKeptStep ==
    ASSUME StoreInvariant, [Next]_vars, NEW c \in CRs, NEW p \in Ports, RowKept(c, p),
           NoneListed(c), NoneListed(c)'
    PROVE  RowKept(c, p)'
<1>1. cur' # c
  <2>1. UNCHANGED cur \/ cur' = NoCR \/ \E d \in CRs : ListServers(d)
    BY DEF Next, WorldStep, WorldOp, BootServer, RenameServer, DeleteServer, SetSpec,
           DeleteCR, NoTargetVMs, PassStep, FindSubnet, SubnetNotFound, UpsertNode,
           FindPorts, UpsertInterface, Commit, PublishStatus, Abort, Idle, vars, pass
  <2>2. ASSUME NEW d \in CRs, ListServers(d) PROVE cur' = d /\ d # c
    BY <2>2 DEF ListServers, NoneListed
  <2>. QED
    BY <2>1, <2>2, ConstantsAssumption DEF RowKept
<1>. QED
  BY <1>1, OthersStep DEF RowKept, NoneListed

\* The last VM's interfaces are recorded for as long as no other VM of the CR
\* appears (OCC 574-584 returns before 622): whatever else happens, other CRs'
\* passes over the same ports included.
THEOREM LastRowsStay ==
    ASSUME NEW c \in CRs, NEW p \in Ports
    PROVE  Spec => [](RowKept(c, p) /\ []NoneListed(c) => []RowKept(c, p))
<1>1. StoreInvariant /\ RowKept(c, p) /\ NoneListed(c) /\ NoneListed(c)' /\ [Next]_vars
        => RowKept(c, p)'
  BY RowKeptStep
<1>. QED
  BY <1>1, StoreInvariance, PTL DEF Spec
=============================================================================
