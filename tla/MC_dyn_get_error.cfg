CONSTANTS
    c1 = c1  c2 = c2  c3 = c3  z1 = z1  z2 = z2  z3 = z3  r1 = r1  r2 = r2
    ip1 = ip1  ip2 = ip2  h1 = h1  w1 = w1  w2 = w2
    NoAddr = NoAddr  Malformed = Malformed  Absent = Absent
    Provider = "dyndns"
    Faults = TRUE
    MaxEvents = 3
    MaxRestarts = 0
    Clusters <- MCAllClusters
    Registered <- MCClusters
    ClusterZones <- MCClusterZones
    ClusterRegion <- MCClusterRegion
    SortedIPs <- MCSortedIPs
    Hosts <- MCHosts
    Resolve <- MCResolve
    Ingresses <- MCIngresses
    Workers <- MCWorkers1
SPECIFICATION Spec
CHECK_DEADLOCK FALSE
INVARIANT CnameExclusive
