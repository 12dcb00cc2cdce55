---------------------------- MODULE InterfaceStore ----------------------------
(***************************************************************************)
(* What the controller's transactions leave in multi_subnet, node_table    *)
(* and multi_interface, while the VMs they describe come, go, and change.  *)
(*                                                                         *)
(*   Nova: servers and the ports attached to them                          *)
(*     |  server list          (one moment)                                *)
(*     v                                                                   *)
(*   targets --nodes--> tx --port lookups, interfaces--> tx --commit--> db *)
(*                                                             |           *)
(*                                    Status.VMNetworkInfos <--+           *)
(*                                                                         *)
(* One worker runs one pass at a time, for any CR at any time: when passes *)
(* begin is the subject of OpenstackConfigController.  The statements of a *)
(* transaction are steps of their own, since users and Nova act between    *)
(* them, and a key that one of them violates rolls back all of them.       *)
(*                                                                         *)
(* A port stands for its MAC address too.  Server IDs are never reused.    *)
(***************************************************************************)
EXTENDS Naturals

CONSTANTS
    CRs,            \* OpenstackConfig resources
    Servers,        \* server IDs
    Names,          \* server names
    Ports,          \* Neutron ports
    Subnets,        \* Neutron subnets
    NamesOf,        \* the names that a server may be given
    SubnetNames,    \* subnet names
    SubnetNamesOf,  \* what users may give as a CR's spec.subnetName
    SubnetsNamed,   \* the subnets of each of these names
    PortSubnets,    \* the subnets of a port's fixed IPs
    MaxWorldOps,    \* bound: how often users and Nova act
    MaxFaults,      \* bound: how many calls fail, plus how many crashes
    Unborn, Gone,   \* a server that does not exist yet, or no longer
    NoServer, NoName, NoPort, NoRow, NoCR, NoSubnet

ASSUME ConstantsAssumption ==
    /\ NamesOf \in [Servers -> SUBSET Names]
    /\ SubnetNamesOf \in [CRs -> SUBSET SubnetNames]
    /\ SubnetsNamed \in [SubnetNames -> SUBSET Subnets]
    /\ PortSubnets \in [Ports -> SUBSET Subnets]
    /\ MaxWorldOps \in Nat /\ MaxFaults \in Nat
    /\ {Unborn, Gone, NoName} \cap Names = {}
    /\ Unborn # Gone
    /\ NoServer \notin Servers
    /\ NoPort \notin Ports
    /\ NoCR \notin CRs
    /\ NoSubnet \notin Subnets
    /\ NoRow \notin [cr: CRs, subnet: Subnets, id: Servers, name: Names]

VARIABLES
    servers,    \* Nova: the name of each server
    attached,   \* Nova: the server a port is attached to
    wanted,     \* spec.vmNames of each CR; a CR without one does not exist
    asked,      \* spec.subnetName of each CR that exists
    db,         \* the database, as of the last commit
    tx,         \* the database as the open transaction sees it
    pc,         \* the worker's next step
    cur,        \* the CR of its pass
    sought,     \* the subnet name that the pass read
    targets,    \* the CR's servers, as they were listed
    todo,       \* the targets whose node is yet to be written
    subnet,     \* the subnet found for the CR
    found,      \* the interfaces yet to be written
    report,     \* the VM network infos to publish
    status,     \* Status.Status of each CR
    infos,      \* Status.VMNetworkInfos of each CR: VM names with a MAC
    worldOps,   \* how often users and Nova may still act
    faults      \* how many faults may still happen

world == <<servers, attached, wanted, asked, worldOps>>
pass == <<pc, cur, sought, targets, todo, subnet, found, report>>
published == <<status, infos>>
vars == <<world, db, tx, pass, published, faults>>

Rows == [cr: CRs, subnet: Subnets, id: Servers, name: Names]

\* multi_subnet by subnet_id; node_table by attached_node_id; multi_interface
\* by port_id.  Each of these keys is declared UNIQUE.
Stores == [subnets: SUBSET Subnets,
           nodes: [Servers -> Names \cup {NoName}],
           rows: [Ports -> Rows \cup {NoRow}]]

EmptyStore == [subnets |-> {}, nodes |-> [s \in Servers |-> NoName],
               rows |-> [p \in Ports |-> NoRow]]

Targets == [id: Servers, name: Names, macs: SUBSET Ports]
Interfaces == [port: Ports, id: Servers, name: Names]
Infos == [name: Names, mac: Ports \cup {NoPort}]

WorldTypeOK ==
    /\ servers \in [Servers -> Names \cup {Unborn, Gone}]
    /\ attached \in [Ports -> Servers \cup {NoServer}]
    /\ wanted \in [CRs -> SUBSET Names]
    /\ asked \in [CRs -> SubnetNames \cup {NoName}]
    /\ worldOps \in Nat

StoreTypeOK == db \in Stores /\ tx \in Stores

PassTypeOK ==
    /\ pc \in {"idle", "subnet", "nodes", "interfaces", "status"}
    /\ cur \in CRs \cup {NoCR}
    /\ sought \in SubnetNames \cup {NoName}
    /\ subnet \in Subnets \cup {NoSubnet}
    /\ targets \subseteq Targets
    /\ todo \subseteq targets
    /\ found \subseteq Interfaces
    /\ report \subseteq Infos

PublishedTypeOK ==
    /\ status \in [CRs -> {"", "Error", "Completed"}]
    /\ infos \in [CRs -> SUBSET Infos]

TypeOK == WorldTypeOK /\ StoreTypeOK /\ PassTypeOK /\ PublishedTypeOK /\ faults \in Nat

Init ==
    /\ servers = [s \in Servers |-> Unborn]
    /\ attached = [p \in Ports |-> NoServer]
    /\ wanted = [c \in CRs |-> {}] /\ asked = [c \in CRs |-> NoName]
    /\ db = EmptyStore /\ tx = EmptyStore
    /\ pc = "idle" /\ cur = NoCR /\ sought = NoName /\ subnet = NoSubnet
    /\ targets = {} /\ todo = {} /\ found = {} /\ report = {}
    /\ status = [c \in CRs |-> ""] /\ infos = [c \in CRs |-> {}]
    /\ worldOps = MaxWorldOps /\ faults = MaxFaults

-----------------------------------------------------------------------------
(* Nova, Neutron, and the users of the CRs. *)

Exists(s) == servers[s] \notin {Unborn, Gone}

WorldOp ==
    /\ worldOps > 0
    /\ worldOps' = worldOps - 1
    /\ UNCHANGED <<db, tx, pass, published, faults>>

BootServer(s) ==
    /\ servers[s] = Unborn
    /\ \E n \in NamesOf[s], ps \in SUBSET {p \in Ports : attached[p] = NoServer} :
        /\ servers' = [servers EXCEPT ![s] = n]
        /\ attached' = [p \in Ports |-> IF p \in ps THEN s ELSE attached[p]]
    /\ UNCHANGED <<wanted, asked>>
    /\ WorldOp

RenameServer(s) ==
    /\ Exists(s)
    /\ \E n \in NamesOf[s] \ {servers[s]} : servers' = [servers EXCEPT ![s] = n]
    /\ UNCHANGED <<attached, wanted, asked>>
    /\ WorldOp

DeleteServer(s) ==
    /\ Exists(s)
    /\ servers' = [servers EXCEPT ![s] = Gone]
    /\ attached' = [p \in Ports |-> IF attached[p] = s THEN NoServer ELSE attached[p]]
    /\ UNCHANGED <<wanted, asked>>
    /\ WorldOp

\* A CR is created, or its VM names, its subnet name or both are edited.
SetSpec(c) ==
    /\ \E ns \in (SUBSET Names) \ {{}}, n \in SubnetNamesOf[c] :
        /\ ns # wanted[c] \/ n # asked[c]
        /\ wanted' = [wanted EXCEPT ![c] = ns]
        /\ asked' = [asked EXCEPT ![c] = n]
    /\ UNCHANGED <<servers, attached>>
    /\ WorldOp

-----------------------------------------------------------------------------
(* The worker. *)

\* The listed servers whose names the CR asks for.
TargetVMs(c) ==
    {[id |-> s, name |-> servers[s], macs |-> {p \in Ports : attached[p] = s}] :
        s \in {t \in Servers : servers[t] \in wanted[c]}}

(* Mutant: the nodes left over from an aborted pass are written by the next. *)
IdleKeepsNodes ==
    /\ pc' = "idle" /\ cur' = NoCR /\ sought' = NoName /\ subnet' = NoSubnet
    /\ targets' = {} /\ found' = {} /\ report' = {}
    /\ tx' = EmptyStore
    /\ UNCHANGED todo

Idle ==
    /\ pc' = "idle" /\ cur' = NoCR /\ sought' = NoName /\ subnet' = NoSubnet
    /\ targets' = {} /\ todo' = {} /\ found' = {} /\ report' = {}
    /\ tx' = EmptyStore

ListServers(c) ==
    /\ pc = "idle"
    /\ wanted[c] # {}
    /\ TargetVMs(c) # {}
    /\ cur' = c
    /\ sought' = asked[c]
    /\ targets' = TargetVMs(c)
    /\ pc' = "subnet"
    /\ UNCHANGED <<world, db, tx, todo, subnet, found, report, published, faults>>

\* None of the VMs exists, or so it looks: a refusal, whose status code nobody
\* reads, is taken for an empty list.  The pass ends here.
NoTargetVMs(c) ==
    /\ pc = "idle"
    /\ wanted[c] # {}
    /\ \/ TargetVMs(c) = {} /\ UNCHANGED faults
       \/ faults > 0 /\ faults' = faults - 1
    /\ status' = [status EXCEPT ![c] = "Error"]
    /\ UNCHANGED <<world, db, tx, pass, infos>>

(* Mutant: the old rows of the CR are not deleted. *)
WithoutRowsOfKept(rows, c) == rows

WithoutRowsOf(rows, c) ==
    [p \in Ports |-> IF rows[p] # NoRow /\ rows[p].cr = c THEN NoRow ELSE rows[p]]

\* getSubnetInfoWithClients: the networks are searched in the order that
\* Neutron lists them, one whose request fails is passed over, and the first
\* subnet with the name that the pass read is taken.  Which one that is, if
\* there are several, is open.
SubnetInfo == SubnetsNamed[sought]

\* Three attempts without one: an error, which the status does not show.
SubnetNotFound ==
    /\ pc = "subnet"
    /\ SubnetInfo = {}
    /\ Idle
    /\ UNCHANGED <<world, db, published, faults>>

\* The transaction begins by deleting the CR's rows.
FindSubnet ==
    /\ pc = "subnet"
    /\ subnet' \in SubnetInfo
    /\ tx' = [db EXCEPT !.rows = WithoutRowsOf(@, cur), !.subnets = @ \cup {subnet'}]
    /\ todo' = targets
    /\ pc' = "nodes"
    /\ UNCHANGED <<world, db, cur, sought, targets, found, report, published, faults>>

NodeNamed(store, n) == \E s \in Servers : store.nodes[s] = n
Referenced(store, n) == \E p \in Ports : store.rows[p] # NoRow /\ store.rows[p].name = n

(* Mutant: node_table without the foreign key on attached_node_name. *)
NodeKeysAllowNoForeignKey(store, t) ==
    store.nodes[t.id] \notin {NoName, t.name} => ~NodeNamed(store, t.name)

\* A known ID gets the server's present name, unless another node has that
\* name, or interfaces refer to the old one.
NodeKeysAllow(store, t) ==
    store.nodes[t.id] \notin {NoName, t.name} =>
        ~NodeNamed(store, t.name) /\ ~Referenced(store, store.nodes[t.id])

\* A new ID with a known name is a duplicate too: the node keeps the old ID.
UpsertedNodes(store, t) ==
    IF store.nodes[t.id] = NoName /\ NodeNamed(store, t.name)
    THEN store.nodes
    ELSE [store.nodes EXCEPT ![t.id] = t.name]

UpsertNode(t) ==
    /\ pc = "nodes"
    /\ t \in todo
    /\ IF NodeKeysAllow(tx, t)
       THEN /\ tx' = [tx EXCEPT !.nodes = UpsertedNodes(tx, t)]
            /\ todo' = todo \ {t}
            /\ UNCHANGED <<pc, cur, sought, targets, subnet, found, report>>
       ELSE Idle
    /\ UNCHANGED <<world, db, published, faults>>

(* Mutant: only ports that are in no other subnet are found. *)
InSubnetAlone(t) == {p \in t.macs : PortSubnets[p] = {subnet}}

\* Nova gives the MACs of a server, and no port IDs: each port is looked up by
\* its MAC and the subnet.
InSubnet(t) == {p \in t.macs : subnet \in PortSubnets[p]}

(* Mutant: the MAC is reported before its port is looked up. *)
ReportedMACsEarly(t, ports) == t.macs

\* The first port of a VM, in the order of a Go map, is reported.
ReportedMACs(t, ports) == t.macs \cap ports

\* The ports of the targets in the subnet.  A lookup that fails is logged, and
\* its port skipped.
FindPorts ==
    /\ pc = "nodes"
    /\ todo = {}
    /\ \E skipped \in SUBSET UNION {InSubnet(t) : t \in targets} :
        LET ports == (UNION {InSubnet(t) : t \in targets}) \ skipped IN
        /\ IF skipped = {} THEN UNCHANGED faults
                           ELSE faults > 0 /\ faults' = faults - 1
        /\ found' = UNION {{[port |-> p, id |-> t.id, name |-> t.name] :
                              p \in t.macs \cap ports} : t \in targets}
        /\ \E mac \in [targets -> Ports \cup {NoPort}] :
            /\ \A t \in targets :
                IF ReportedMACs(t, ports) = {} THEN mac[t] = NoPort
                                               ELSE mac[t] \in ReportedMACs(t, ports)
            /\ report' = {[name |-> t.name, mac |-> mac[t]] : t \in targets}
    /\ pc' = "interfaces"
    /\ UNCHANGED <<world, db, tx, cur, sought, targets, todo, subnet, published>>

\* The foreign keys of multi_interface: its node's ID and its node's name,
\* each on its own.
RowKeysAllow(store, f) == store.nodes[f.id] # NoName /\ NodeNamed(store, f.name)

(* Mutant: the last one to write the row owns it. *)
UpsertedRowTakesOver(store, f) ==
    [cr |-> cur, subnet |-> subnet, id |-> f.id, name |-> f.name]

\* A port that has a row, another CR's then, keeps its CR and its subnet.
UpsertedRow(store, f) ==
    IF store.rows[f.port] = NoRow
    THEN [cr |-> cur, subnet |-> subnet, id |-> f.id, name |-> f.name]
    ELSE [store.rows[f.port] EXCEPT !.id = f.id, !.name = f.name]

UpsertInterface(f) ==
    /\ pc = "interfaces"
    /\ f \in found
    /\ IF RowKeysAllow(tx, f)
       THEN /\ tx' = [tx EXCEPT !.rows[f.port] = UpsertedRow(tx, f)]
            /\ found' = found \ {f}
            /\ UNCHANGED <<pc, cur, sought, targets, todo, subnet, report>>
       ELSE Idle
    /\ UNCHANGED <<world, db, published, faults>>

Commit ==
    /\ pc = "interfaces"
    /\ found = {}
    /\ db' = tx
    /\ pc' = "status"
    /\ UNCHANGED <<world, tx, cur, sought, targets, todo, subnet, found, report, published, faults>>

PublishStatus ==
    /\ pc = "status"
    /\ status' = [status EXCEPT ![cur] = "Completed"]
    /\ infos' = [infos EXCEPT ![cur] = report]
    /\ Idle
    /\ UNCHANGED <<world, db, faults>>

\* A call of the pass fails, or the process crashes: the transaction is
\* rolled back, unless it was Commit, whose error leaves both possible.
Abort ==
    /\ pc # "idle"
    /\ faults > 0
    /\ faults' = faults - 1
    /\ \/ UNCHANGED db
       \/ pc = "interfaces" /\ found = {} /\ db' = tx
    /\ Idle
    /\ UNCHANGED <<world, published>>

(* Mutant: the deletion does not wait for a pass over the CR to end. *)
DeleteCRMeanwhile(c) ==
    /\ wanted[c] # {}
    /\ worldOps > 0
    /\ worldOps' = worldOps - 1
    /\ wanted' = [wanted EXCEPT ![c] = {}] /\ asked' = [asked EXCEPT ![c] = NoName]
    /\ db' = [db EXCEPT !.rows = WithoutRowsOf(@, c)]
    /\ status' = [status EXCEPT ![c] = ""]
    /\ infos' = [infos EXCEPT ![c] = {}]
    /\ UNCHANGED <<servers, attached, tx, pass, faults>>

\* handleDeletion: the CR's interfaces go; the nodes and the subnets stay.
DeleteCR(c) ==
    /\ pc = "idle"
    /\ wanted[c] # {}
    /\ worldOps > 0
    /\ worldOps' = worldOps - 1
    /\ wanted' = [wanted EXCEPT ![c] = {}] /\ asked' = [asked EXCEPT ![c] = NoName]
    /\ db' = [db EXCEPT !.rows = WithoutRowsOf(@, c)]
    /\ status' = [status EXCEPT ![c] = ""]
    /\ infos' = [infos EXCEPT ![c] = {}]
    /\ UNCHANGED <<servers, attached, tx, pass, faults>>

-----------------------------------------------------------------------------
WorldStep ==
    \/ \E s \in Servers : BootServer(s) \/ RenameServer(s) \/ DeleteServer(s)
    \/ \E c \in CRs : SetSpec(c) \/ DeleteCR(c)

PassStep ==
    \/ FindSubnet \/ SubnetNotFound
    \/ \E t \in todo : UpsertNode(t)
    \/ FindPorts
    \/ \E f \in found : UpsertInterface(f)
    \/ Commit
    \/ PublishStatus

Next ==
    \/ WorldStep
    \/ \E c \in CRs : ListServers(c) \/ NoTargetVMs(c)
    \/ PassStep
    \/ Abort

Spec == Init /\ [][Next]_vars

\* A pass that began goes on, and every CR gets passes again and again, as the
\* scheduled mode and the retries after errors provide.
Fairness ==
    /\ WF_vars(PassStep)
    /\ \A c \in CRs : SF_vars(ListServers(c))

FairSpec == Spec /\ Fairness

-----------------------------------------------------------------------------
(* Properties. *)

\* Names are unique in node_table, and a row of multi_interface refers, by ID
\* and by name, to one and the same node: the two foreign keys are separate,
\* and it takes the order of the statements and the restriction on renaming a
\* referenced node to keep them together.
Consistent(store) ==
    /\ \A s, t \in Servers : store.nodes[s] = store.nodes[t] /\ s # t => store.nodes[s] = NoName
    /\ \A p \in Ports :
         store.rows[p] # NoRow =>
             /\ store.nodes[store.rows[p].id] = store.rows[p].name
             /\ store.rows[p].subnet \in store.subnets

RowNodeConsistent == Consistent(db)

\* The rows of a CR are all in one subnet, which each of their ports has: also
\* when its subnet name was edited, or is ambiguous, and passes before found
\* another one, and when another CR's pass wrote the row again.  (It need not be
\* one that the CR still asks for: the rows stay until a pass replaces them.)
OneSubnet(store) ==
    \A p \in Ports :
        store.rows[p] # NoRow =>
            /\ store.rows[p].subnet \in PortSubnets[p]
            /\ \A q \in Ports : store.rows[q] # NoRow /\ store.rows[q].cr = store.rows[p].cr
                                  => store.rows[q].subnet = store.rows[p].subnet

RowsInOneSubnet == OneSubnet(db)

\* A pass, or a deletion, of one CR neither removes nor takes over the rows of
\* another.
OthersRowsKept ==
    [][\A p \in Ports :
         LET old == db.rows[p] IN
         old # NoRow /\ old.cr # cur /\ wanted'[old.cr] # {}
           => /\ db'.rows[p] # NoRow
              /\ db'.rows[p].cr = old.cr
              /\ db'.rows[p].subnet = old.subnet]_vars

Recorded(store, i) == store.rows[i.mac] # NoRow /\ store.rows[i.mac].name = i.name

\* A MAC that is published with a VM's name has a row, under that name.
PublishedRecorded ==
    [][\A c \in CRs :
         infos'[c] # infos[c] =>
             \A i \in infos'[c] : i.mac # NoPort => Recorded(db, i)]_vars

\* Port p belongs to a VM that c asks for, and has the subnet it asks for.
Expected(c, p) ==
    /\ attached[p] # NoServer
    /\ servers[attached[p]] \in wanted[c]
    /\ PortSubnets[p] \cap SubnetsNamed[asked[c]] # {}

OnlyOne(s) == \A t \in Servers \ {s} : servers[t] # servers[s]

\* Every interface of a VM that a CR names is eventually recorded, as an
\* interface of that VM.
PortsRecorded ==
    \A p \in Ports, s \in Servers :
        <>[](attached[p] = s /\ OnlyOne(s) /\ \E c \in CRs : Expected(c, p))
            => <>[](db.rows[p] # NoRow /\ db.rows[p].id = s)

\* A pass over c gets as far as its rows.
Served(c) == TargetVMs(c) # {} /\ SubnetsNamed[asked[c]] # {}

\* An interface that a CR does not ask for any more (the VM, its name, the CR's
\* VM names or its subnet name changed) is eventually removed, if the CR still
\* has other VMs and its subnet exists, or if it is deleted.
ObsoleteRemoved ==
    \A p \in Ports, c \in CRs :
        <>[](~Expected(c, p) /\ (wanted[c] = {} \/ Served(c)))
            => <>[](db.rows[p] = NoRow \/ db.rows[p].cr # c)

\* ... or not.
DeletedVMsRemoved ==
    \A p \in Ports :
        <>[](attached[p] = NoServer) => <>[](db.rows[p] = NoRow)

\* However its statements interleave with what users and Nova do, and wherever
\* a pass ends, what the store commits is the replacement of one CR's records
\* or their removal, and what it publishes is committed.
Records == INSTANCE InterfaceRecords WITH
    live <- {c \in CRs : wanted[c] # {}},
    rows <- db.rows

ImplementsRecords == Records!Spec

-----------------------------------------------------------------------------
(* Why the safety properties hold: what is true of the open transaction. *)

\* The transaction has the other CRs' rows as they are committed, and no more.
KeepsOthers ==
    \A p \in Ports :
        LET old == db.rows[p]
            new == tx.rows[p] IN
        /\ old # NoRow /\ old.cr # cur
             => new # NoRow /\ new.cr = old.cr /\ new.subnet = old.subnet
        /\ new # NoRow /\ new.cr # cur => old # NoRow /\ old.cr = new.cr

\* What the statements so far have made sure of.
Written ==
    /\ subnet \in Subnets \cap tx.subnets
    /\ \A p \in Ports : tx.rows[p] # NoRow /\ tx.rows[p].cr = cur => tx.rows[p].subnet = subnet
    /\ \A t \in targets \ todo : tx.nodes[t.id] \in {NoName, t.name}
    /\ \A f \in found : tx.nodes[f.id] \in {NoName, f.name} /\ subnet \in PortSubnets[f.port]

\* What is reported has been written, or is yet to be, and under no other name.
Reported ==
    \A i \in report :
        i.mac # NoPort =>
            /\ pc = "interfaces" =>
                 /\ Recorded(tx, i) \/ \E f \in found : f.port = i.mac
                 /\ \A f \in found : f.port = i.mac => f.name = i.name
            /\ pc = "status" => Recorded(db, i)

\* A CR that exists has a subnet name; no two targets are one server, or share a
\* port.
PassOK ==
    /\ \A c \in CRs : wanted[c] # {} => asked[c] \in SubnetNames
    /\ pc # "idle" => cur \in CRs /\ wanted[cur] # {} /\ sought \in SubnetNames
    /\ \A t, u \in targets : t.id = u.id \/ t.macs \cap u.macs # {} => t = u
    /\ pc \in {"idle", "subnet"} => todo = {}
    /\ pc \in {"idle", "subnet", "nodes"} => found = {}

StoreInvariant ==
    /\ TypeOK
    /\ PassOK
    /\ Reported
    /\ Consistent(db) /\ OneSubnet(db)
    /\ pc \in {"nodes", "interfaces"} =>
         Consistent(tx) /\ OneSubnet(tx) /\ KeepsOthers /\ Written
=============================================================================
