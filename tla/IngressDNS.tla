----------------------------- MODULE IngressDNS -----------------------------
(***************************************************************************)
(* The ingress DNS controller of src/pkg/controller/ingress/dns/dns.go     *)
(* with the reconciler of src/pkg/controller/util/dns.go, for one          *)
(* federated ingress.  The informer enqueues a snapshot of the ingress on  *)
(* every change; each worker dequeues a snapshot, checks the gate, parses  *)
(* the global status annotation and, for every cluster named in it (Go map *)
(* order, so any order), computes zone/region/global endpoints and runs    *)
(* EnsureDNSRrsets on the zone, region and global names in that order.     *)
(* EnsureDNSRrsets reads the records (Get) in one step and writes its      *)
(* changeset (Apply) in a later one.                                       *)
(*                                                                         *)
(* Names keep the one ingress's prefix implicit: a level name is a tuple   *)
(* of the zone and region labels it is built from, and <<>> is the "" that *)
(* ends the alias chain.                                                   *)
(***************************************************************************)
EXTENDS Naturals, FiniteSets, Sequences, SequencesExt, DnsProvider

CONSTANTS
    Clusters,       \* clusters that may appear in the annotation
    Registered,     \* clusters the federation API knows (Clusters().Get succeeds)
    ClusterZones,   \* cluster -> sequence of zone names (Status.Zones)
    ClusterRegion,  \* cluster -> region name (Status.Region)
    Hosts,          \* load-balancer hostnames
    Resolve,        \* hostname -> the IPs net.LookupHost returns
    NoAddr,         \* a load-balancer entry with neither IP nor hostname
    Malformed,      \* an annotation value that is not valid JSON
    Absent,         \* no global-lb-status annotation on the object
    Ingresses,      \* the [lb, ann] states the ingress may take
    Workers,        \* worker goroutines started by dnsControllerRun
    MaxEvents,      \* bound on informer events (resourceVersions)
    MaxRestarts     \* bound on process restarts

ASSUME /\ Registered \subseteq Clusters
       /\ \A h \in Hosts : Resolve[h] \subseteq IPs /\ Resolve[h] # {}
       /\ MaxEvents \in Nat \ {0} /\ MaxRestarts \in Nat

VARIABLES
    ingress,   \* the object in the API server: [lb, ann, deleting, rv]
    queue,     \* the work queue: snapshots of ingress, oldest first
    records,   \* the provider's record store (see DnsProvider)
    worker,    \* worker -> its position in workerFunction/ensureDNSRecords
    applied,   \* history: the newest snapshot whose pass has completed
    passOK,    \* history: whether that pass completed without an error
    lastApply, \* history: [cs, ok] of the last Apply step: changeset lastApply, success
    restarts   \* number of process restarts so far

vars == <<ingress, queue, records, worker, applied, passOK, lastApply, restarts>>

Addrs == IPs \cup Hosts
LevelName == {<<"zone", z, r>> : z \in UNION {ToSet(ClusterZones[c]) : c \in Clusters},
                                 r \in {ClusterRegion[c] : c \in Clusters}}
             \cup {<<"region", r>> : r \in {ClusterRegion[c] : c \in Clusters}}
             \cup {<<"global">>}
NoName == <<>>

Idle == [pc |-> "idle", item |-> <<>>, todo |-> {}, cluster |-> <<>>, names |-> <<>>,
         eps |-> <<>>, level |-> 1, list |-> {}, ok |-> TRUE]

-----------------------------------------------------------------------------
(* Helpers translated from dns.go and util/dns.go                          *)

\* wantsDNSRecords: the object's own Status.LoadBalancer.Ingress is non-empty.
wantsDNSRecords(ing) == ing.lb

\* parseGlobalLbStatusAnnotation: nil when there is no annotation, an error
\* when it is not JSON, else the map cluster -> load-balancer addresses.
parseGlobalLbStatusAnnotation(ing) ==
    CASE ing.ann = Absent    -> [ok |-> TRUE,  map |-> Absent]
      [] ing.ann = Malformed -> [ok |-> FALSE, map |-> Absent]
      [] OTHER               -> [ok |-> TRUE,  map |-> ing.ann]

\* getClusterZoneNames succeeds for registered clusters only.
getClusterZoneNames(c) == c \in Registered

\* Mutant: the early return for a deleted ingress is missing.
getHealthyEndpoints_noDeletion(c, ing) ==
    LET m     == ing.ann
        lbs   == IF m \in {Absent, Malformed} THEN {} ELSE DOMAIN m
        addrs(lc) == m[lc] \ {NoAddr}
    IN  CASE ~getClusterZoneNames(c)                    -> [ok |-> FALSE, eps |-> <<>>]
          [] \E lc \in lbs : ~getClusterZoneNames(lc)   -> [ok |-> FALSE, eps |-> <<>>]
          [] \E lc \in lbs : NoAddr \in m[lc]           -> [ok |-> FALSE, eps |-> <<>>]
          [] OTHER -> [ok |-> TRUE, eps |-> <<
               UNION {addrs(lc) : lc \in {x \in lbs : ToSet(ClusterZones[x]) \cap ToSet(ClusterZones[c]) # {}}},
               UNION {addrs(lc) : lc \in {x \in lbs : ClusterRegion[x] = ClusterRegion[c]}},
               UNION {addrs(lc) : lc \in lbs}>>]

\* getHealthyEndpoints(c, ing): zone, region and global endpoint lists.  An
\* address counts at zone level when the clusters share a zone name, at
\* region level when they share the region, and always at global level.
getHealthyEndpoints(c, ing) ==
    LET m     == ing.ann
        lbs   == IF m \in {Absent, Malformed} THEN {} ELSE DOMAIN m
        addrs(lc) == m[lc] \ {NoAddr}
        zoneEps   == UNION {addrs(lc) : lc \in {x \in lbs : ToSet(ClusterZones[x]) \cap ToSet(ClusterZones[c]) # {}}}
        regionEps == UNION {addrs(lc) : lc \in {x \in lbs : ClusterRegion[x] = ClusterRegion[c]}}
        globalEps == UNION {addrs(lc) : lc \in lbs}
    IN  CASE ~getClusterZoneNames(c)                    -> [ok |-> FALSE, eps |-> <<>>]
          [] ing.deleting                               -> [ok |-> TRUE, eps |-> <<{}, {}, {}>>]
          [] \E lc \in lbs : ~getClusterZoneNames(lc)   -> [ok |-> FALSE, eps |-> <<>>]
          [] \E lc \in lbs : NoAddr \in m[lc]           -> [ok |-> FALSE, eps |-> <<>>]
          [] OTHER -> [ok |-> TRUE, eps |-> <<zoneEps, regionEps, globalEps>>]

\* Mutant: region and zone labels joined in the wrong order.
dnsNames_swapped(c) == << <<"zone", ClusterRegion[c], Head(ClusterZones[c])>>,
                          <<"region", ClusterRegion[c]>>, <<"global">>, NoName >>

\* The four names of ensureDNSRecords: zone (first zone of the cluster),
\* region, global, and "" above global.
dnsNames(c) == << <<"zone", Head(ClusterZones[c]), ClusterRegion[c]>>,
                  <<"region", ClusterRegion[c]>>,
                  <<"global">>,
                  NoName >>

\* GetResolvedEndpoints: IPs stay, hostnames are looked up; a lookup may fail.
GetResolvedEndpoints(E) ==
    LET ips == (E \cap IPs) \cup UNION {Resolve[h] : h \in E \cap Hosts}
    IN  {[ok |-> TRUE, ips |-> ips]}
        \cup (IF Faults /\ E \cap Hosts # {} THEN {[ok |-> FALSE, ips |-> {}]} ELSE {})

\* Mutant: the length check's condition inverted.
findRrset_lenInverted(list, rs) ==
    \E elem \in list : Cardinality(elem.data) # Cardinality(rs.data)
                       /\ elem.type = rs.type /\ elem.data = rs.data

\* findRrset: some listed rrset with as many data as rrset is equivalent to it.
findRrset(list, rs) ==
    \E elem \in list : Cardinality(elem.data) = Cardinality(rs.data)
                       /\ elem.type = rs.type /\ elem.data = rs.data

\* Mutant: the uplevelCname != "" checks dropped, so the global name gets
\* a CNAME to "".
EnsureDNSRrsets_noUplevelCheck(recs, n, E, U, list) ==
    LET done == {[recs |-> recs, ok |-> TRUE, cs |-> FALSE]}
        fail == {[recs |-> recs, ok |-> FALSE, cs |-> FALSE]}
        Changeset(dels, add) ==
            {[recs |-> o.recs, ok |-> o.ok, cs |-> TRUE] : o \in ApplyResults(recs, dels, add)}
        cname == RRSet(n, "CNAME", {U})
        WithA(F(_)) == UNION {IF res.ok THEN F(RRSet(n, "A", res.ips)) ELSE fail
                              : res \in GetResolvedEndpoints(E)}
    IN  IF list = {}
        THEN IF E = {} THEN Changeset({}, cname)
             ELSE WithA(LAMBDA a : Changeset({}, a))
        ELSE IF E = {}
             THEN IF findRrset(list, cname) THEN done ELSE Changeset(list, cname)
             ELSE WithA(LAMBDA a : IF findRrset(list, a) THEN done
                                   ELSE Changeset(list, a))

\* EnsureDNSRrsets after its Get returned list: the possible [recs, ok].
EnsureDNSRrsets(recs, n, E, U, list) ==
    LET done == {[recs |-> recs, ok |-> TRUE, cs |-> FALSE]}
        fail == {[recs |-> recs, ok |-> FALSE, cs |-> FALSE]}
        Changeset(dels, add) ==
            {[recs |-> o.recs, ok |-> o.ok, cs |-> TRUE] : o \in ApplyResults(recs, dels, add)}
        cname == RRSet(n, "CNAME", {U})
        WithA(F(_)) == UNION {IF res.ok THEN F(RRSet(n, "A", res.ips)) ELSE fail
                              : res \in GetResolvedEndpoints(E)}
    IN  IF list = {}
        THEN IF E = {}
             THEN IF U # NoName THEN Changeset({}, cname) ELSE done
             ELSE WithA(LAMBDA a : Changeset({}, a))
        ELSE IF E = {}
             THEN IF findRrset(list, cname) THEN done
                  ELSE Changeset(list, IF U # NoName THEN cname ELSE NoRRSet)
             ELSE WithA(LAMBDA a : IF findRrset(list, a) THEN done
                                   ELSE Changeset(list, a))

-----------------------------------------------------------------------------
(* Actions                                                                 *)

Init ==
    /\ \E i \in Ingresses :
         ingress = [lb |-> i.lb, ann |-> i.ann, deleting |-> FALSE, rv |-> 1]
    /\ queue = <<ingress>>                 \* the informer's initial list
    /\ records = {}
    /\ worker = [w \in Workers |-> Idle]
    /\ applied = [rv |-> 0]
    /\ passOK = FALSE
    /\ lastApply = [cs |-> FALSE, ok |-> TRUE]
    /\ restarts = 0

\* The ingress changes in the API server (status, annotation); the informer
\* sees the update and enqueues the new object.
Update ==
    /\ ingress.rv < MaxEvents
    /\ ~ingress.deleting
    /\ \E i \in Ingresses :
         ingress' = [lb |-> i.lb, ann |-> i.ann, deleting |-> FALSE, rv |-> ingress.rv + 1]
    /\ queue' = Append(queue, ingress')
    /\ UNCHANGED <<records, worker, applied, passOK, lastApply, restarts>>

\* Deletion sets DeletionTimestamp; the informer enqueues the updated object.
MarkDeleted ==
    /\ ingress.rv < MaxEvents
    /\ ~ingress.deleting
    /\ ingress' = [ingress EXCEPT !.deleting = TRUE, !.rv = ingress.rv + 1]
    /\ queue' = Append(queue, ingress')
    /\ UNCHANGED <<records, worker, applied, passOK, lastApply, restarts>>

\* A pass over item ends: remember it if it is the newest completed one
\* (after a restart the relisted object may be passed over again).
EndPass(item, ok) ==
    IF item.rv >= applied.rv THEN applied' = item /\ passOK' = ok
                            ELSE UNCHANGED <<applied, passOK>>

\* Mutant: the gate reads the object as it now stands in the API server
\* (a lister Get) instead of the dequeued snapshot.
workerFunction_gateOnCurrent(w) ==
    /\ worker[w].pc = "idle"
    /\ queue # <<>>
    /\ queue' = Tail(queue)
    /\ LET item == Head(queue)
           p    == parseGlobalLbStatusAnnotation(item)
       IN  IF ~wantsDNSRecords(ingress) \/ ~p.ok \/ p.map = Absent
           THEN UNCHANGED <<worker, applied, passOK>>
           ELSE IF DOMAIN p.map = {}
           THEN UNCHANGED worker /\ EndPass(item, TRUE)
           ELSE /\ worker' = [worker EXCEPT ![w] = [Idle EXCEPT !.pc = "cluster",
                                   !.item = item, !.todo = DOMAIN p.map]]
                /\ UNCHANGED <<applied, passOK>>
    /\ UNCHANGED <<ingress, records, lastApply, restarts>>

\* Mutant: a skipped item makes workerFunction report quit, which ends the
\* worker goroutine.
workerFunction_quitOnSkip(w) ==
    /\ worker[w].pc = "idle"
    /\ queue # <<>>
    /\ queue' = Tail(queue)
    /\ LET item == Head(queue)
           p    == parseGlobalLbStatusAnnotation(item)
       IN  IF ~wantsDNSRecords(item) \/ ~p.ok \/ p.map = Absent
           THEN worker' = [worker EXCEPT ![w].pc = "stopped"] /\ UNCHANGED <<applied, passOK>>
           ELSE IF DOMAIN p.map = {}
           THEN UNCHANGED worker /\ EndPass(item, TRUE)
           ELSE /\ worker' = [worker EXCEPT ![w] = [Idle EXCEPT !.pc = "cluster",
                                   !.item = item, !.todo = DOMAIN p.map]]
                /\ UNCHANGED <<applied, passOK>>
    /\ UNCHANGED <<ingress, records, lastApply, restarts>>

\* workerFunction up to the cluster loop: Get from the queue, the gate,
\* the annotation parse.
workerFunction(w) ==
    /\ worker[w].pc = "idle"
    /\ queue # <<>>
    /\ queue' = Tail(queue)
    /\ LET item == Head(queue)
           p    == parseGlobalLbStatusAnnotation(item)
       IN  IF ~wantsDNSRecords(item) \/ ~p.ok \/ p.map = Absent
           THEN UNCHANGED <<worker, applied, passOK>>
           ELSE IF DOMAIN p.map = {}
           THEN UNCHANGED worker /\ EndPass(item, TRUE)
           ELSE /\ worker' = [worker EXCEPT ![w] = [Idle EXCEPT !.pc = "cluster",
                                   !.item = item, !.todo = DOMAIN p.map]]
                /\ UNCHANGED <<applied, passOK>>
    /\ UNCHANGED <<ingress, records, lastApply, restarts>>

\* ensureDNSRecords for one cluster has finished (ok or with an error); s is
\* the worker's state with that cluster taken out of todo.
EndCluster(w, s, ok) ==
    IF s.todo = {}
    THEN worker' = [worker EXCEPT ![w] = Idle] /\ EndPass(s.item, s.ok /\ ok)
    ELSE /\ worker' = [worker EXCEPT ![w] = [Idle EXCEPT !.pc = "cluster",
                           !.item = s.item, !.todo = s.todo, !.ok = s.ok /\ ok]]
         /\ UNCHANGED <<applied, passOK>>

\* ensureDNSRecords(c, item) up to the level loop: topology, endpoints, names.
ensureDNSRecords(w) ==
    /\ worker[w].pc = "cluster"
    /\ \E c \in worker[w].todo :
         LET s  == [worker[w] EXCEPT !.todo = @ \ {c}]
             hz == getHealthyEndpoints(c, s.item)
         IN  IF ~getClusterZoneNames(c) \/ ClusterZones[c] = <<>> \/ ~hz.ok
             THEN EndCluster(w, s, FALSE)
             ELSE /\ worker' = [worker EXCEPT ![w] = [s EXCEPT !.pc = "get",
                                    !.cluster = c, !.names = dnsNames(c),
                                    !.eps = hz.eps, !.level = 1]]
                  /\ UNCHANGED <<applied, passOK>>
    /\ UNCHANGED <<ingress, queue, records, lastApply, restarts>>

\* EnsureDNSRrsets, first half: GetRrset(dnsName).
GetRrset(w) ==
    /\ worker[w].pc = "get"
    /\ \E res \in GetResults(records, worker[w].names[worker[w].level]) :
         IF res.ok
         THEN worker' = [worker EXCEPT ![w].pc = "apply", ![w].list = res.rrsets]
              /\ UNCHANGED <<applied, passOK>>
         ELSE EndCluster(w, worker[w], FALSE)
    /\ UNCHANGED <<ingress, queue, records, lastApply, restarts>>

\* EnsureDNSRrsets, second half, then the next level of ensureDNSRecords.
ApplyRrsets(w) ==
    /\ worker[w].pc = "apply"
    /\ LET s == worker[w]
           i == s.level
       IN  \E out \in EnsureDNSRrsets(records, s.names[i], s.eps[i], s.names[i + 1], s.list) :
             /\ records' = out.recs
             /\ lastApply' = [cs |-> out.cs, ok |-> out.ok]
             /\ IF ~out.ok THEN EndCluster(w, s, FALSE)
                ELSE IF i < 3
                THEN worker' = [worker EXCEPT ![w].pc = "get", ![w].level = i + 1, ![w].list = {}]
                     /\ UNCHANGED <<applied, passOK>>
                ELSE EndCluster(w, s, TRUE)
    /\ UNCHANGED <<ingress, queue, restarts>>

Quiescent == \A w \in Workers : worker[w].pc = "idle"

\* The process dies at any point (Fatalf, a crash, a rescheduled pod) and
\* StartFederatedIngressController runs again: the queue and every
\* worker's progress are lost, the provider keeps the records written so
\* far, and the new informer's initial list enqueues the object.
Restart ==
    /\ restarts < MaxRestarts
    /\ restarts' = restarts + 1
    /\ worker' = [w \in Workers |-> Idle]
    /\ queue' = <<ingress>>
    /\ passOK' = (passOK /\ Quiescent)   \* a pass cut short counts as failed
    /\ UNCHANGED <<ingress, records, applied, lastApply>>

\* worker: the goroutine calls workerFunction again and again; it would
\* return only on quit, which Get reports once the queue is shut down, and
\* nothing shuts it down (wait.NeverStop).  A step of the loop is a step of
\* the pass that the worker is in.
workerLoop(w) ==
    workerFunction(w) \/ ensureDNSRecords(w) \/ GetRrset(w) \/ ApplyRrsets(w)

Next ==
    \/ Update
    \/ MarkDeleted
    \/ Restart
    \/ \E w \in Workers : workerLoop(w)

Spec == Init /\ [][Next]_vars

\* wait.Until re-runs worker, which loops on workerFunction without blocking
\* while the queue is non-empty, and every provider or API call returns.
\* Informer events come from outside and get no fairness.
Fairness == \A w \in Workers : WF_vars(workerLoop(w))

LiveSpec == Spec /\ Fairness

-----------------------------------------------------------------------------
(* Properties                                                              *)

TypeOK ==
    /\ ingress.lb \in BOOLEAN /\ ingress.deleting \in BOOLEAN
    /\ ingress.rv \in 1..MaxEvents
    /\ queue \in Seq([lb : BOOLEAN, ann : {i.ann : i \in Ingresses},
                      deleting : BOOLEAN, rv : 1..MaxEvents])
    /\ records \subseteq [name : LevelName, type : {"A", "CNAME"}, val : IPs \cup LevelName]
    /\ \A w \in Workers : worker[w].pc \in {"idle", "cluster", "get", "apply"}
                         /\ worker[w].todo \subseteq Clusters /\ worker[w].level \in 1..3
    /\ passOK \in BOOLEAN /\ lastApply \in [cs : BOOLEAN, ok : BOOLEAN]
    /\ restarts \in 0..MaxRestarts

RecordsAt(recs, n) == {r \in recs : r.name = n}

\* Reference definitions from the spec (sections 3, 4.1, 4.2), written
\* independently of the code's loops: the name of each hierarchy level,
\* the endpoints a level of cluster c owns, and the records it should hold.
LevelOf(c, i) == CASE i = 1 -> <<"zone", ClusterZones[c][1], ClusterRegion[c]>>
                   [] i = 2 -> <<"region", ClusterRegion[c]>>
                   [] i = 3 -> <<"global">>
                   [] OTHER -> NoName
SameLevel(c, lc, i) == CASE i = 1 -> \E j \in DOMAIN ClusterZones[c], k \in DOMAIN ClusterZones[lc] :
                                        ClusterZones[c][j] = ClusterZones[lc][k]
                         [] i = 2 -> ClusterRegion[c] = ClusterRegion[lc]
                         [] OTHER -> TRUE
LevelEndpoints(ing, c, i) ==
    IF ing.deleting THEN {}
    ELSE UNION {ing.ann[lc] : lc \in {x \in DOMAIN ing.ann : SameLevel(c, x, i)}}
Resolved(E) == (E \cap IPs) \cup UNION {Resolve[h] : h \in E \cap Hosts}
Wanted(n, E, U) ==
    IF E # {} THEN {Record(n, "A", ip) : ip \in Resolved(E)}
    ELSE IF U # NoName THEN {Record(n, "CNAME", U)} ELSE {}

\* When no worker is busy and the newest completed pass met no error, every
\* level name of every cluster in that snapshot's annotation holds exactly
\* the records the spec prescribes for it: A records of the level's
\* resolved endpoints, else a CNAME one level up, else nothing.  This is
\* what workerFunction, ensureDNSRecords and EnsureDNSRrsets achieve
\* together, across earlier passes that failed half way or were skipped.
QuiescentConsistency ==
    (Quiescent /\ passOK) =>
        \A c \in DOMAIN applied.ann, i \in 1..3 :
            RecordsAt(records, LevelOf(c, i))
              = Wanted(LevelOf(c, i), LevelEndpoints(applied, c, i), LevelOf(c, i + 1))

\* A name holding a CNAME holds nothing else (RFC 1034 3.6.2): the
\* replacement of A records by a CNAME in EnsureDNSRrsets never leaves both.
CnameExclusive ==
    \A r \in records : r.type = "CNAME" => RecordsAt(records, r.name) = {r}

\* The object as it stands can be reconciled without an error: it passes
\* the worker gate, its annotation parses, and every cluster it names is
\* registered and has addresses.
Reconcilable(ing) ==
    /\ wantsDNSRecords(ing)
    /\ ing.ann \notin {Absent, Malformed}
    /\ DOMAIN ing.ann \subseteq Registered
    /\ \A c \in DOMAIN ing.ann : NoAddr \notin ing.ann[c]

\* Convergence (spec sections 4.4 and 7, "self-healing depends on the next
\* watch-triggered re-enqueue"): once the object stops changing, if it can
\* be reconciled, the workers eventually leave every level name of every
\* cluster it names holding the records the spec wants for the object as
\* it stands, whatever earlier versions and passes left behind.
Converges ==
    <>[](Reconcilable(ingress) =>
           \A c \in DOMAIN ingress.ann, i \in 1..3 :
               RecordsAt(records, LevelOf(c, i))
                 = Wanted(LevelOf(c, i), LevelEndpoints(ingress, c, i), LevelOf(c, i + 1)))

\* Deletion tears down (spec section 8): once the object carries its
\* deletion marker and can be reconciled, the workers eventually remove
\* every A record previously published for it, at every level name,
\* whichever cluster's pass published it.  workerFunction only visits the
\* clusters named in the deleted object's annotation (dns.go 201-204).
TornDown ==
    <>[]((ingress.deleting /\ Reconcilable(ingress)) => \A r \in records : r.type # "A")

\* Worker gating (spec section 8): no Get or Apply is ever made on behalf of
\* a version of the object whose own load-balancer status is empty, even
\* when its annotation lists other clusters' endpoints and even when the
\* object in the API server has meanwhile gained or lost its status.  The
\* gate in workerFunction (dns.go 192) is evaluated once per dequeued
\* snapshot; the provider calls come several steps later.
GatedNeverReachesProvider ==
    [][\A w \in Workers :
         (GetRrset(w) \/ ApplyRrsets(w)) => wantsDNSRecords(worker[w].item)]_vars

\* Idempotence (spec section 8): an EnsureDNSRrsets(n, E, U) whose Get
\* already returned exactly the records wanted for (n, E, U) submits no
\* changeset to the provider.
IdempotentApply ==
    [][\A w \in Workers :
         LET s == worker[w]
             i == s.level
             got == UNION {{Record(rs.name, rs.type, v) : v \in rs.data} : rs \in s.list}
         IN  (ApplyRrsets(w) /\ got = Wanted(s.names[i], s.eps[i], s.names[i + 1]))
             => ~lastApply'.cs]_vars

\* The parent of each level name in the zone -> region -> global chain,
\* from the spec's hierarchy (section 3), not from dnsNames.
LevelParent(n) == CASE n[1] = "zone"   -> <<"region", n[3]>>
                    [] n[1] = "region" -> <<"global">>
                    [] OTHER           -> NoName

View == INSTANCE DnsView WITH
    Names  <- LevelName,
    Parent <- LevelParent,
    view   <- [n \in LevelName |-> RecordsAt(records, n)]

\* Refinement: seen name by name, the provider's records evolve as DnsView
\* allows.  Every Apply of EnsureDNSRrsets replaces one name's records, as
\* a unit, by A records or by a CNAME one level up (spec 4.2 "atomically"),
\* and only the global name is ever left empty.
ImplementsDnsView == View!Spec

\* Spec section 7: a reconciliation step that fails creates or updates no
\* record; the records of the name stay as they were.
FailedApplyKeepsRecords ==
    [][\A w \in Workers :
         (ApplyRrsets(w) /\ ~lastApply'.ok)
            => records' = records]_vars

=============================================================================
