--------------------------- MODULE MC_IngressDNS ---------------------------
(* Model values and small definitions instantiating IngressDNS for TLC.    *)
EXTENDS IngressDNS, TLC

CONSTANTS c1, c2, c3, z1, z2, z3, r1, r2, ip1, ip2, h1, w1, w2

\* Two clusters in different zones and regions, as in TestServiceController.
\* c3 is named in one annotation but unknown to the federation API.
MCClusters      == {c1, c2}
MCAllClusters   == {c1, c2, c3}
MCClusterZones  == c1 :> <<z1>> @@ c2 :> <<z2>> @@ c3 :> <<z3>>
MCClusterRegion == c1 :> r1 @@ c2 :> r2 @@ c3 :> r2
MCSortedIPs     == <<ip1, ip2>>
MCHosts         == {h1}
MCResolve       == h1 :> {ip2}

\* Annotations: two endpoints in c1; one endpoint (scale-down); the
\* endpoint moved to a hostname in c2; an entry with no address; an
\* unregistered cluster beside c1.
Ann1 == c1 :> {ip1, ip2} @@ c2 :> {}
Ann2 == c1 :> {ip2} @@ c2 :> {}
Ann3 == c1 :> {} @@ c2 :> {h1}
Ann4 == c1 :> {ip1, NoAddr} @@ c2 :> {}
Ann5 == c1 :> {ip1} @@ c3 :> {ip2}
MCIngresses ==
    {[lb |-> TRUE, ann |-> a] : a \in {Ann1, Ann2, Ann3, Ann4, Ann5, Malformed}}
    \cup {[lb |-> FALSE, ann |-> Ann2]}

\* A multi-zone cluster: c1 spans z1 and z3, c2 is in z1, c3 in z3, all in
\* region r1.  c1 and c2 both publish the zone name of (z1, r1).
MZClusters      == {c1, c2, c3}
MZClusterZones  == c1 :> <<z1, z3>> @@ c2 :> <<z1>> @@ c3 :> <<z3>>
MZClusterRegion == c1 :> r1 @@ c2 :> r1 @@ c3 :> r1
MZIngresses     == {[lb |-> TRUE, ann |-> c1 :> {ip2} @@ c2 :> {} @@ c3 :> {ip1}]}

\* Cluster c2 drops out of the annotation: c2 publishes h1, then only c1
\* has an endpoint and c2's entry is gone before the object is deleted.
Ann6 == c1 :> {ip2}
DropIngresses == {[lb |-> TRUE, ann |-> a] : a \in {Ann3, Ann6}}

MCWorkers1 == {w1}
=============================================================================
