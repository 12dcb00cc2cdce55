SPECIFICATION FairSpec
CONSTANTS
    c1 = c1
    c2 = c2
    s1 = s1
    s2 = s2
    n1 = n1
    n2 = n2
    p1 = p1
    p2 = p2
    net1 = net1
    net2 = net2
    m1 = m1
    m2 = m2
    m3 = m3
    CRs = {c1, c2}
    Servers = {s1, s2}
    Names = {n1, n2}
    Ports = {p1}
    Subnets = {net1, net2}
    SubnetNames = {m1, m2, m3}
    SubnetNamesOf <- FirstEdited
    NamesOf <- OwnName
    SubnetsNamed <- Separate
    PortSubnets <- TwoAddresses
    MaxWorldOps = 4
    MaxFaults = 1
    Unborn = Unborn
    Gone = Gone
    NoServer = NoServer
    NoName = NoName
    NoPort = NoPort
    NoRow = NoRow
    NoCR = NoCR
    NoSubnet = NoSubnet
CHECK_DEADLOCK FALSE
PROPERTIES
    PortsRecorded
    ObsoleteRemoved
