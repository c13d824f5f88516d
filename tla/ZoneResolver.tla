---------------------------- MODULE ZoneResolver ----------------------------
(***************************************************************************)
(* Process start-up, from main.go to the workers: run builds the API      *)
(* client config, StartFederatedIngressController builds the DynDNS       *)
(* provider (parseConfig, Login, the zone list split from the config) and *)
(* newIngressDNSController runs validateConfig and                        *)
(* then retrieveOrCreateDNSZone, which picks the hosted zone the records   *)
(* will be written to (GetDNSZone in util/dns.go) or creates one for the   *)
(* configured domain.  Any error is fatal: the process exits before the    *)
(* workers start.                                                          *)
(*                                                                         *)
(* The property of interest is about string matching, so names are        *)
(* sequences of characters here, from a small alphabet.                    *)
(***************************************************************************)
EXTENDS Naturals, Sequences, SequencesExt, FiniteSets

CONSTANTS
    Configs,      \* [version, fed, domain, dns, zones, creds]: the --version flag,
                  \* federationName set?, domain, provider set?, the provider
                  \* config's zones string, customer/user/password all set?
    NoZone,       \* the nil Zone
    ZoneFaults    \* TRUE when client set-up, Login, zone List or New may fail

VARIABLES
    cfg,       \* the controller's configuration
    phase,     \* "main", "provider", "validate", "zone", "running", "exited"
               \* (version printed) or "failed" (process exited with an error)
    hosted,    \* the zones the provider hosts
    dnsZone,   \* idc.dnsZone
    newCalls   \* history: the names dnsZones.New was called with

vars == <<cfg, phase, hosted, dnsZone, newCalls>>

Dot == "."
Comma == ","

\* strings.Split(s, sep): the pieces between separators, "" included.
Split(s, sep) ==
    FoldLeft(LAMBDA parts, ch : IF ch = sep THEN Append(parts, <<>>)
                                ELSE [parts EXCEPT ![Len(parts)] = Append(@, ch)],
             << <<>> >>, s)

\* parseConfig: every field of the [Global] section must be non-empty.
parseConfig(c) == c.zones # <<>> /\ c.creds

\* newInterface: Login (which may fail), then one Zone per comma-separated
\* piece of DNSZones, untrimmed.
newInterface(c) ==
    {[ok |-> TRUE, zones |-> ToSet(Split(c.zones, Comma))]}
    \cup (IF ZoneFaults THEN {[ok |-> FALSE, zones |-> {}]} ELSE {})

\* newDynDNSProviderInterface: parseConfig, then newInterface.
newDynDNSProviderInterface(c) ==
    IF parseConfig(c) THEN newInterface(c) ELSE {[ok |-> FALSE, zones |-> {}]}

\* strings.TrimSuffix(s, ".")
TrimSuffixDot(s) == IF s # <<>> /\ Last(s) = Dot THEN Front(s) ELSE s

\* The global-level name ensureDNSRecords builds (dns.go 373): the common
\* prefix, here the single label "i", joined to the domain with a dot.
globalDnsName(domain) == <<"i", Dot>> \o domain

\* populateRecordWithName: the FQDN of the Dyn record written for name in
\* zone.  A name already ending in "." + zone is kept (its final dot
\* trimmed); any other name gets "." + zone appended.
populateRecordWithName(name, zone) ==
    LET n == TrimSuffixDot(name)
    IN  IF IsSuffix(<<Dot>> \o zone, n) THEN n ELSE n \o <<Dot>> \o zone

\* strings.Contains(s, sub)
ContainsStr(s, sub) == sub \in SubSeqs(s)

\* Mutant: the zone's trailing dot is not stripped before matching.
GetDNSZone_untrimmedZone(domain, zones) ==
    LET findName == TrimSuffixDot(domain)
        sorted   == {s \in SetToSeqs(zones) : \A i \in 1..Len(s) - 1 : Len(s[i]) >= Len(s[i + 1])}
        match(s) == SelectSeq(s, LAMBDA z : ContainsStr(findName, z))
    IN  {IF match(s) = <<>> THEN NoZone ELSE Head(match(s)) : s \in sorted}

\* GetDNSZone after a successful List: sort.Slice by descending name length
\* (not stable, so zones of equal length come in any order), then the first
\* zone whose trimmed name is contained in the trimmed domain, else nil.
GetDNSZone(domain, zones) ==
    LET findName == TrimSuffixDot(domain)
        sorted   == {s \in SetToSeqs(zones) : \A i \in 1..Len(s) - 1 : Len(s[i]) >= Len(s[i + 1])}
        match(s) == SelectSeq(s, LAMBDA z : ContainsStr(findName, TrimSuffixDot(z)))
    IN  {IF match(s) = <<>> THEN NoZone ELSE Head(match(s)) : s \in sorted}

Init ==
    /\ cfg \in Configs
    /\ phase = "main"
    /\ hosted = {}
    /\ dnsZone = NoZone
    /\ newCalls = {}

\* main and run: --version exits at once; otherwise the rest client config
\* is built (it may fail) and startController starts the controllers.
main ==
    /\ phase = "main"
    /\ \/ cfg.version /\ phase' = "exited"
       \/ ~cfg.version /\ ZoneFaults /\ phase' = "failed"
       \/ ~cfg.version /\ phase' = "provider"
    /\ UNCHANGED <<cfg, hosted, dnsZone, newCalls>>

\* NewIngressDNSController: InitDnsProvider.  An empty provider name yields
\* a nil provider and no error, left for validateConfig; "dyndns" builds
\* the provider, and its error ends the process.
InitDnsProvider ==
    /\ phase = "provider"
    /\ IF ~cfg.dns
       THEN phase' = "validate" /\ UNCHANGED hosted
       ELSE \E r \in newDynDNSProviderInterface(cfg) :
              IF r.ok THEN hosted' = r.zones /\ phase' = "validate"
                      ELSE phase' = "failed" /\ UNCHANGED hosted
    /\ UNCHANGED <<cfg, dnsZone, newCalls>>

\* validateConfig: federation name, domain and provider are required.  The
\* DynDNS provider always supports zone enumeration (interface.go).
validateConfig ==
    /\ phase = "validate"
    /\ phase' = IF ~cfg.fed \/ cfg.domain = <<>> \/ ~cfg.dns THEN "failed" ELSE "zone"
    /\ UNCHANGED <<cfg, hosted, dnsZone, newCalls>>

\* Mutant: the zone found is recorded as the configured domain.
retrieveOrCreateDNSZone_domainAsZone ==
    /\ phase = "zone"
    /\ \/ ZoneFaults /\ phase' = "failed" /\ UNCHANGED <<hosted, dnsZone, newCalls>>
       \/ \E zone \in GetDNSZone(cfg.domain, hosted) :
            IF zone # NoZone
            THEN dnsZone' = cfg.domain /\ phase' = "running" /\ UNCHANGED <<hosted, newCalls>>
            ELSE /\ newCalls' = newCalls \cup {cfg.domain}
                 /\ \/ cfg.domain \notin hosted /\ hosted' = hosted \cup {cfg.domain}
                       /\ dnsZone' = cfg.domain /\ phase' = "running"
                    \/ (ZoneFaults \/ cfg.domain \in hosted) /\ phase' = "failed"
                       /\ UNCHANGED <<hosted, dnsZone>>
    /\ UNCHANGED cfg

\* retrieveOrCreateDNSZone: List the zones (may fail), pick one with
\* GetDNSZone, else create the domain's zone with New.  New fails when the
\* provider already hosts a zone of that name, or on a provider error.
retrieveOrCreateDNSZone ==
    /\ phase = "zone"
    /\ \/ ZoneFaults /\ phase' = "failed" /\ UNCHANGED <<hosted, dnsZone, newCalls>>
       \/ \E zone \in GetDNSZone(cfg.domain, hosted) :
            IF zone # NoZone
            THEN dnsZone' = zone /\ phase' = "running" /\ UNCHANGED <<hosted, newCalls>>
            ELSE /\ newCalls' = newCalls \cup {cfg.domain}
                 /\ \/ cfg.domain \notin hosted /\ hosted' = hosted \cup {cfg.domain}
                       /\ dnsZone' = cfg.domain /\ phase' = "running"
                    \/ (ZoneFaults \/ cfg.domain \in hosted) /\ phase' = "failed"
                       /\ UNCHANGED <<hosted, dnsZone>>
    /\ UNCHANGED cfg

Next == main \/ InitDnsProvider \/ validateConfig \/ retrieveOrCreateDNSZone

Spec == Init /\ [][Next]_vars

-----------------------------------------------------------------------------

\* The zone handle the workers write to is one the provider hosts: the one
\* GetDNSZone returned or the one New created.
TypeOK ==
    /\ phase \in {"main", "provider", "validate", "zone", "running", "exited", "failed"}
    /\ hosted \subseteq ToSet(Split(cfg.zones, Comma)) \cup {cfg.domain}
    /\ dnsZone \in hosted \cup {NoZone}
    /\ (phase = "running") = (dnsZone # NoZone)

\* Longest match (spec 4.3 and 8, the comment at util/dns.go 82, "sort
\* zones by length to match on the most subdomains"): no hosted zone that
\* GetDNSZone accepts is longer, once trimmed, than the one selected.  The
\* code sorts by the length as written and matches on the trimmed name.
SelectsLongestMatch ==
    phase = "running" =>
        \A z \in hosted :
            ContainsStr(TrimSuffixDot(cfg.domain), TrimSuffixDot(z))
                => Len(TrimSuffixDot(z)) <= Len(TrimSuffixDot(dnsZone))

\* retrieveOrCreateDNSZone never asks the provider to create a zone it
\* already hosts under the domain's name (with or without the final dot):
\* such a New fails and the controller cannot start.
NoCreateWhenHosted ==
    [][newCalls' # newCalls =>
         \A z \in hosted : TrimSuffixDot(z) # TrimSuffixDot(cfg.domain)]_vars

\* Records land where the controller asks (spec 4.3, "longest suffix
\* wins": the zone is chosen so that the names under the domain belong to
\* it): the Dyn record that the provider writes for the global name of the
\* domain, through populateRecordWithName in the selected zone, has that
\* very name as its FQDN.
RecordWrittenAtName ==
    phase = "running" =>
        populateRecordWithName(globalDnsName(cfg.domain), dnsZone)
          = TrimSuffixDot(globalDnsName(cfg.domain))

=============================================================================
