# TLA+ models of the federated ingress DNS controller

This directory holds TLA+ models of the ingress DNS controller in
`src/pkg/controller/ingress/dns`, the record reconciler in
`src/pkg/controller/util/dns.go`, and the DynDNS provider in
`src/pkg/dnsprovider/providers/dyndns`. TLC checks them through the
configurations listed below. `PROJECT.json` holds the machine-readable
version of this document: the components, the runs, the mutants, the map
from each definition to the source lines it translates, the findings, and
the hazards.

## The system and how its parts interact

1. **Informer → work queue.** `newIngressDNSController` (dns.go 143-158)
   watches federated ingresses. On every add, update or delete it
   `workQueue.Add`s the *object* (a pointer to that version of the
   ingress), not its key. Each version is therefore a separate queue item.
2. **Workers.** `dnsControllerRun` (163-177) starts `workers` goroutines.
   Its only caller, `StartFederatedIngressController`, passes 1 (dns.go
   94), so every run uses one worker. The worker loops `workerFunction` (183-209):
   - dequeue a snapshot;
   - skip it unless `wantsDNSRecords` (the object's own load-balancer
     status is non-empty);
   - parse the global-lb-status annotation, skipping the snapshot on a
     parse error or when the annotation is absent;
   - call `ensureDNSRecords(cluster, snapshot)` for every cluster of the
     annotation, in Go map order. The returned error is ignored.
3. **Endpoint aggregation.** `getHealthyEndpoints` (263-318) turns the
   annotation and the clusters' zones and regions into three endpoint
   lists:
   - zone: the cluster shares any zone name;
   - region: same region;
   - global: every cluster.

   A deleted ingress gives three empty lists. An unregistered cluster, or
   an entry with neither IP nor hostname, is an error.
4. **Hierarchy builder.** `ensureDNSRecords` (335-389) builds the four
   names: zone (from `zoneNames[0]`), region, global, and `""`. It then
   calls `EnsureDNSRrsets(name[i], endpoints[i], name[i+1])` for
   zone → region → global and stops at the first error.
5. **Reconciler.** `EnsureDNSRrsets` (util/dns.go 120-228) `Get`s the
   rrsets of the name.
   - If there are none, it adds a CNAME to the next level, or the
     resolved A record, or nothing.
   - Otherwise, if `findRrset` finds an equivalent rrset, it does nothing.
     If not, one changeset removes every existing rrset and adds the
     wanted one.
6. **Provider.** The DynDNS provider stores each value of an rrset as its
   own Dyn record:
   - `GetRecordsFromDNSRRS` splits the rrset into one record per value;
   - `Get` returns one rrset per record, and swallows API errors
     (rrsets.go 64-69);
   - `Apply` runs its create and delete calls one by one, stops at the
     first failure, and undoes nothing (rrchangeset.go 76-112).

   The provider contract in spec §6 (one rrset per name and type, errors
   reported, atomic apply) is modelled as a second backend, "grouped". The
   provider the unit tests use for that contract is not in this
   repository, so "grouped" is modelled from the spec.
7. **Start-up.** `main` (main.go 39-92) builds the REST client config and
   calls `StartFederatedIngressController` (dns.go 80-95).
   `NewIngressDNSController` then does three things:
   - builds the DynDNS provider: `parseConfig`, `Login`, and one zone per
     comma-separated piece of the `zones` setting (dyndns.go 62-132);
   - validates the configuration;
   - selects or creates the hosted zone.

   Any error there is fatal. If the process dies later, the next start
   relists the ingress. The provider still holds whatever records were
   written.

## Modules

| Module | Models | State | Actions / operators |
|---|---|---|---|
| `DnsProvider` | the record store and its two backends | (operators only, over a set of records `[name, type, val]`) | `GetRecordByName`, `DynGet`, `GroupedGet`, `GetResults` (Get with its error outcomes); `GetRecordsFromDNSRRS`, `DynOps`, `GetRecordID`, `DynRun`, `DynApply` (sequential apply, may stop after any operation when `Faults`); `GroupedValid`, `GroupedApply`; `ApplyResults` |
| `DnsView` | what the records promise, per name (spec §3, §4.2, §8) | `view`: name → its records | `Publish(n)`: one name replaced, as a unit, by A records of a non-empty set of IPs, or a CNAME to its parent, or (at the top only) nothing |
| `IngressDNS` | controller loop, aggregation, hierarchy, reconciler | `ingress` (the API object: lb status, annotation, deletion mark, version), `queue` (snapshots), `records`, `worker` (per-goroutine program counter, current snapshot, remaining clusters, names, endpoints, level, Get result), history variables `applied`, `passOK`, `lastApply`; `restarts` | `Update`, `MarkDeleted` (informer events); `Restart` (process restart: queue and worker progress lost, records kept, object relisted); `workerFunction`; `ensureDNSRecords` (one cluster, up to the level loop); `GetRrset` and `ApplyRrsets` (the two halves of `EnsureDNSRrsets`, so that a restart can fall between a Get and its Apply); `workerLoop` (the `worker` goroutine: one step of any of the four) |
| `ZoneResolver` | process start-up | `cfg` (`--version`, federation name set, domain, provider set, the DynDNS `zones` string, credentials set), `phase`, `hosted` (zones the provider hosts), `dnsZone`, history `newCalls` | `main`; `InitDnsProvider` (with `parseConfig`, `newInterface`, `Split`, `newDynDNSProviderInterface`); `validateConfig`; `retrieveOrCreateDNSZone` (List, `GetDNSZone`, else `New(domain)`) |
| `MC_IngressDNS`, `MC_ZoneResolver` | instantiation for TLC | – | model values and small constant definitions |

### Abstractions

- **Names.**
  - A zone-level name is the tuple `<<"zone", z, r>>`.
  - A region-level name is `<<"region", r>>`.
  - The global name is `<<"global">>`.
  - `""` is `<<>>`.

  The common prefix and the domain are the same for every name of one
  ingress, so they are left out.
- **Endpoints.** An address is an IP (a model value) or a hostname.
  - `Resolve` gives the IPs a hostname resolves to.
  - `SortedIPs` is the order `sets.String.List()` returns them in.
  - `NoAddr` is an entry with neither an IP nor a hostname.
- **Annotations.** An annotation is a function from a cluster to a set of
  addresses, or the model value `Absent` or `Malformed`.
- **Not modelled.** TTL (always `minDNSTTL`) and logging are left out.
- **Zone names.** In `ZoneResolver`, names are sequences of characters
  over `{a, b, ., ","}`. This is because the zone selection is a string match
  (`strings.TrimSuffix`, `strings.Contains`). `Contains` is
  `SubSeqs` membership.
- **Equivalence.** The external `ResourceRecordSetsEquivalent` compares
  name, type, and the data as a set.
- **Atomic steps.** The four worker steps change local variables between
  provider calls and are atomic. The only state shared with the informer
  is the queue, and the provider's `records` change only in
  `ApplyRrsets`, so a restart or a new version can fall between any two
  provider calls.
- **History variables.** These only record what happened:
  - `applied`: the newest snapshot whose pass has completed;
  - `passOK`: whether that pass met no error;
  - `lastApply`: whether the last `EnsureDNSRrsets` submitted a changeset
    (`cs`) and whether it succeeded (`ok`).

## Properties

- `TypeOK`: the type invariant.
- `QuiescentConsistency`: when every worker is idle and the newest
  completed pass met no error, every level name of every annotated cluster
  holds exactly what the spec (§3, §4.2) wants:
  - the A records of the resolved endpoints;
  - else a CNAME to the next level;
  - else nothing.

  The wanted records come from reference definitions (`LevelOf`,
  `SameLevel`, `LevelEndpoints`, `Wanted`), written from the spec and not
  from the code's loops. Breaking it takes several passes: earlier passes
  that failed half way or were skipped, then a final pass that has to
  repair what they left.
- `CnameExclusive`: a name with a CNAME has no other record.
- `ImplementsDnsView` (refinement): `IngressDNS` implements `DnsView`
  under the mapping `view = [n |-> records at n]`, with `LevelParent`
  giving the zone → region → global chain. Each step of the detailed
  spec either leaves every name's records alone or replaces one name's
  records, as a unit, by a well-formed set:
  - A records of a non-empty set of IPs;
  - a CNAME to the name's parent;
  - nothing, for the global name only.

  So a published zone or region name never stops resolving. It holds up
  under faults and restarts, for the grouped provider. DynDNS fails it
  (see `dyn_partial_apply`).
- `TornDown` (liveness, spec §8 "deletion tears down"): once the object
  is marked deleted and can be reconciled, every A record is eventually
  removed, including those published by clusters that have left the
  annotation.
- `IdempotentApply` (action property, spec §8): an `EnsureDNSRrsets` whose
  Get already returned exactly the wanted records submits no changeset.
- `Converges` (liveness, spec §4.4 and §7): once the object stops
  changing, if it can be reconciled (it passes the gate, its annotation
  parses, and every cluster it names is registered and has addresses),
  every level name of every cluster it names eventually holds the records
  the spec wants for the object as it stands. This covers earlier
  versions, skipped items and failed passes.
- `SelectsLongestMatch` (ZoneResolver, spec §8 "zone selection", the
  comment at util/dns.go 82): no hosted zone that `GetDNSZone` accepts is
  longer, once its final dot is trimmed, than the selected one. The code
  sorts by the length as written and matches on the trimmed name, so
  this fails (`zone_tie`).
- `NoCreateWhenHosted` (ZoneResolver): `New` is never called for a zone
  the provider already hosts under the domain's name, with or without the
  final dot. Such a call fails, and the controller cannot start.
- `RecordWrittenAtName` (ZoneResolver, spec §4.3): the Dyn record written
  for the global name of the domain has that name as its FQDN.
  `populateRecordWithName` (rrsets.go 139-148) computes the FQDN in the
  selected zone.
- `GatedNeverReachesProvider` (action property, spec §8 "worker gating"):
  no Get or Apply is made for a snapshot whose own load-balancer status
  is empty. The gate is decided when the snapshot is dequeued, and the
  calls come several steps later, while newer versions arrive.
- `FailedApplyKeepsRecords` (action property, spec §7): a failed
  reconciliation step leaves the records unchanged. It is only checked
  against DynDNS, where it fails. The grouped backend satisfies it by
  construction.

## Runs

The IngressDNS runs use two registered clusters (`c1` in `z1`/`r1`, `c2` in
`z2`/`r2`), one unregistered cluster (`c3`), two IPs,
one hostname resolving to `ip2`, and at most 3 versions of the ingress
(`MaxEvents`; 4 in the liveness run). The annotations cover:

- two endpoints, then one (a scale-down);
- the endpoint moving to a hostname in the other cluster;
- an entry without an address;
- a cluster the federation API does not know;
- a malformed annotation;
- an object whose own load-balancer status is empty.

Deletion and the provider's failures (`Faults`) are in the runs where
noted.

| Run | cfg | Expect | Shows |
|---|---|---|---|
| core | `MC_IngressDNS.cfg` | pass (1.17M states, about 1 min) | One worker, grouped provider, every provider call and hostname lookup may fail, one process restart at any step. All six properties hold, the refinement and the gate included. |
| liveness | `MC_liveness.cfg` | pass (833k states, about 40 s) | One worker with weak fairness, grouped provider, no faults, four versions of the object, one restart: `Converges` holds. |
| zone_resolver | `MC_ZoneResolver.cfg` | pass (880 states) | Every configuration: `--version`; each of federation name, domain, provider and credentials missing or present; the domain with and without its final dot; six `zones` settings (empty, `a,b.a`, `ab.a.`, `ab.a,b`, `b,ab.a.,a`, `a,`), and the pair `b.a.,ab.a` of equal written length. The client config, Login, List and New may fail. `TypeOK` and `NoCreateWhenHosted` hold. |
| dropped_cluster | `MC_dropped_cluster.cfg` | violation of `TornDown` | First `c2` publishes `h1`'s IP. Then the annotation names only `c1`, and the object is deleted. The deletion pass tears down `c1`'s names, but `c2`'s zone and region A records stay. |
| zone_substring | `MC_zone_substring.cfg` | violation of `RecordWrittenAtName` | The record for `i.ab.a` is written under another FQDN. The trace TLC prints shows the zone `ab.a.`: `GetDNSZone` trims its final dot and selects it, but `populateRecordWithName` does not, and appends it again. With the configs restricted one at a time, the other two causes break the property too: the zone `b.a`, a substring but not an ancestor of `ab.a` (like `ample.com` for `example.com`), and the empty zone of the setting `b.b,`. |
| zone_tie | `MC_zone_tie.cfg` | violation of `SelectsLongestMatch` | Hosted zones `b.a.` and `ab.a` for the domain `ab.a`: both are four characters as written, `sort.Slice` may put `b.a.` first, and it is selected although `ab.a` is the longer match once trimmed (like `ample.com.` beside `xample.com` for `example.com`). |
| dyn_stale_endpoint | `MC_dyn_stale_endpoint.cfg` | violation of `QuiescentConsistency` | DynDNS, no faults: after `{ip1,ip2}` → `{ip2}`, `findRrset` matches the stored single-value `ip2` record and the `ip1` record stays published. |
| dyn_idempotence | `MC_dyn_idempotence.cfg` | violation of `IdempotentApply` | DynDNS: a name already holding the two wanted A records is removed and re-added on every pass, because no single-value rrset has the wanted length. |
| dyn_get_error | `MC_dyn_get_error.cfg` | violation of `CnameExclusive` | DynDNS with faults: a failed Get looks like an empty name, so a CNAME is added beside A records. |
| dyn_partial_apply | `MC_dyn_partial_apply.cfg` | violation of `FailedApplyKeepsRecords` | DynDNS with faults: a failing Apply keeps the operations done before the failure. |
| multizone | `MC_multizone.cfg` | violation of `QuiescentConsistency` | `c1` in zones `z1,z3`, `c2` in `z1`, `c3` in `z3`, one region: `c1` and `c2` both own the zone name `(z1, r1)` but want different records, and the last one processed wins. |

Each property of the core run has a mutant in `PROJECT.json`, and TLC
finds the property violated when the mutant replaces the mapped
definition:

- the deletion early return dropped from `getHealthyEndpoints`;
- the removals lost from a changeset;
- `findRrset`'s length test inverted;
- the zone and region labels swapped in `dnsNames`;
- `workerFunction` returning quit for a skipped item (liveness);
- the gate evaluated on the object in the API server instead of the
  dequeued snapshot (`GatedNeverReachesProvider`);
- `GetDNSZone` not stripping the zone's final dot;
- `retrieveOrCreateDNSZone` keeping the domain, not the zone found;
- `EnsureDNSRrsets` without its `uplevelCname != ""` checks, which gives
  the global name a CNAME to `""` (refinement).

### Bounds

- **Versions.** Three versions of the object are enough for:
  - a change followed by a second change;
  - a change followed by deletion;
  - a skipped (gated or malformed) version between two good ones.

  The liveness run allows a fourth version, so that convergence is
  checked after two changes and a deletion.
- **Clusters.** Two clusters give distinct zone, region and global names
  and the CNAME chain between them.
- **IPs.** Two IPs let a multi-value A record shrink.
- **Hostname.** One hostname exercises resolution and its failure.
- **Multi-zone case.** It needs a third cluster.
- **Restarts.** `MaxRestarts = 1` in the core and liveness runs. One
  restart can land between any two steps: inside a pass, between two
  levels, or after the deletion. A second restart would only repeat the
  relist. The violation runs use 0, to keep their traces short.

`CHECK_DEADLOCK FALSE`: once the bounded supply of informer events is used
up and the queue is empty, the real controller blocks in `workQueue.Get`
waiting for the next event.

### Fairness

`LiveSpec` adds weak fairness for each worker's loop (`workerLoop`, the
disjunction of its four actions):

- `wait.Until` re-runs `worker`, which loops on `workerFunction` without
  blocking while the queue is non-empty;
- `workerFunction` never returns quit except at shutdown.

The assumption also needs every provider and API call to return. No code
in this repository sets a deadline on the dynect client or on
`net.LookupHost`, so this is an assumption about the network. The informer's events (`Update`, `MarkDeleted`) and
`Restart` get no fairness, since they come from outside.

## What is not modelled, and why

- **Provider zone operations.** The provider's zone `List` and `New` are
  not in this repository. `ZoneResolver` models them from spec §4.3:
  `List` may fail, and `New` fails on an error or on an existing name.
- **Informer machinery.** Informer resync, queue shutdown and
  `workQueue.Done` are not modelled. Resync matters for the missing retry
  after an error (see the hazards in `PROJECT.json`).
- **Start-up I/O.** Partly left out:
  - the gcfg reader is reduced to the fields it fills;
  - the dynect HTTP client's JSON handling, and the flag declarations in
    `options.go`, are not modelled;
  - `main.go` and `dyndns.go` are modelled in `ZoneResolver`, up to the
    point where the workers start.
- **TTL coercion.** `Ttl` in `rrset.go` maps an unparsable or negative
  TTL to 60. The controller writes every record with `minDNSTTL` (180),
  and `newRecord` formats it with `FormatInt`, so the branch cannot be
  reached from this program. The records of the model carry no TTL.
- **Hostname re-resolution.** A load-balancer hostname is resolved only
  during a pass. The model takes the resolver's answers as the constant
  `Resolve`. If the answers change while the object does not, no event
  arrives and the A records keep the old addresses. This is listed as a
  hazard in `PROJECT.json`. No property covers it, because no step of the
  code reacts to the change.
- **Empty zone list.** `zoneNames[0]` (dns.go 371) would panic on an
  empty, non-nil `Status.Zones`. The federation API serialises `zones`
  with `omitempty`, so an empty list reaches the client as nil, and the
  nil check at line 360 rejects it. The model treats an empty list as
  that nil case.
- **Gated last version (spec §9).** When the object's own load-balancer
  status becomes empty, the pass is skipped and the old records stay. The
  spec leaves the wanted behaviour open. `GatedNeverReachesProvider`
  checks the half it does state: the gate itself.
- **Options.** `options.go` only declares flags and their defaults. The
  model's configurations range over every value that matters to
  start-up, so they cover the defaults as well.
- **Shutdown.** `main` passes `wait.NeverStop`, so the spec's Draining
  and Stopped states never happen in this program. The queue's `quit`
  path is not modelled.
- **Several workers.** The program starts exactly one worker (dns.go
  94). The `Workers` constant keeps `dnsControllerRun`'s parameter, but
  every run gives it one worker, and no property or finding is about a
  race between workers.
- **Record listing.** `ResourceRecordSets.List`, the dynect client's
  `GetAllRecordList` and `RecordFromURL` serve no caller in this
  repository except through `GetRecordByName` and `GetRecordID`. Those
  two are modelled by what they return.

## Plan for further work

1. Deletion of an object without a deletion mark. The informer's delete
   handler (outside this repository) enqueues the last version as it
   was, with no mark, so nothing would be torn down. This needs a run
   slot, which means merging two violation runs first.
2. Resolver answers that change over time (the hostname re-resolution
   hazard), if a later version of the code re-enqueued objects on
   resync.
