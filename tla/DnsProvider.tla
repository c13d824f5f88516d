---------------------------- MODULE DnsProvider ----------------------------
(***************************************************************************)
(* The DNS provider's record store, as the reconciler reaches it through   *)
(* dnsprovider.ResourceRecordSets: Get(name), New(...) and a changeset's   *)
(* Remove/Add/Apply.  Two backends are modelled:                           *)
(*   "dyndns"  - src/pkg/dnsprovider/providers/dyndns: every value of an   *)
(*               rrset is its own Dyn record, Get returns one rrset per    *)
(*               record, Apply runs its operations one by one, and a Get   *)
(*               that fails is reported as "no records";                   *)
(*   "grouped" - the contract of spec section 6 (the backend the unit      *)
(*               tests use is not under src/): one rrset per (name, type), *)
(*               Get reports errors, Apply is all-or-nothing.              *)
(* The store is a set of single-value records in both cases; the backends *)
(* differ in how Get groups them and how Apply changes them.  TTL is left  *)
(* out: every record the controller writes carries minDNSTTL.              *)
(***************************************************************************)
EXTENDS FiniteSets, Sequences, SequencesExt

CONSTANTS
    Provider,   \* "dyndns" or "grouped"
    SortedIPs,  \* the IP addresses, in the order sets.String.List() sorts them
    Faults      \* TRUE when a provider or resolver call may fail (network, API)

IPs == ToSet(SortedIPs)

\* One stored record: a single value of one (name, type).
Record(n, t, v) == [name |-> n, type |-> t, val |-> v]

\* An rrset as Get returns it or ResourceRecordSets.New builds it.
RRSet(n, t, d) == [name |-> n, type |-> t, data |-> d]

\* The empty rrset stands for "no addition" in a changeset.
NoRRSet == RRSet(<<>>, "none", {})

ValuesOf(recs, n, t) == {r.val : r \in {x \in recs : x.name = n /\ x.type = t}}

\* The data of an rrset as the ordered list a changeset submits: resolved
\* addresses come sorted (GetResolvedEndpoints), a CNAME has one target.
DataSeq(rs) == IF rs.type = "A"
               THEN SelectSeq(SortedIPs, LAMBDA ip : ip \in rs.data)
               ELSE SetToSeq(rs.data)

(***************************************************************************)
(* Get(name).  DynDNS asks the API for every record of the zone, keeps     *)
(* those whose name matches and wraps each one as an rrset whose data is   *)
(* its single value; when the API call fails it logs and returns an empty  *)
(* list with no error.  The grouped backend returns one rrset per type and *)
(* passes errors up.                                                       *)
(***************************************************************************)
\* DynectClient.GetRecordByName: the zone's records whose name matches.
GetRecordByName(recs, n) == {x \in recs : x.name = n}

DynGet(recs, n) == {RRSet(n, r.type, {r.val}) : r \in GetRecordByName(recs, n)}

GroupedGet(recs, n) ==
    {RRSet(n, t, ValuesOf(recs, n, t)) : t \in {x.type : x \in {y \in recs : y.name = n}}}

GetResults(recs, n) ==
    IF Provider = "dyndns"
    THEN {[ok |-> TRUE, rrsets |-> DynGet(recs, n)]}
         \cup (IF Faults THEN {[ok |-> TRUE, rrsets |-> {}]} ELSE {})
    ELSE {[ok |-> TRUE, rrsets |-> GroupedGet(recs, n)]}
         \cup (IF Faults THEN {[ok |-> FALSE, rrsets |-> {}]} ELSE {})

(***************************************************************************)
(* DynDNS Apply.  Remove and Add append to the changeset in call order;    *)
(* Apply splits every rrset into one record per value                      *)
(* (GetRecordsFromDNSRRS) and, for each, deletes it (GetRecordID then      *)
(* DeleteRecord, both failing when the record is absent) or creates it     *)
(* (CreateRecord, failing on a duplicate), stopping at the first error,    *)
(* then publishes the zone.  Nothing is undone after an error.             *)
(***************************************************************************)
DelOp(rec) == [op |-> "del", rec |-> rec]
AddOp(rec) == [op |-> "add", rec |-> rec]

GetRecordsFromDNSRRS(rs) == [i \in 1..Len(DataSeq(rs)) |-> Record(rs.name, rs.type, DataSeq(rs)[i])]

\* DynectClient.GetRecordID: a record of that name, type and value exists.
GetRecordID(recs, rec) == rec \in recs

RECURSIVE DynRun(_, _)
DynRun(recs, ops) ==
    IF ops = <<>> THEN [recs |-> recs, ok |-> TRUE]
    ELSE LET o == Head(ops) IN
         IF o.op = "del"
         THEN IF GetRecordID(recs, o.rec) THEN DynRun(recs \ {o.rec}, Tail(ops))
                                ELSE [recs |-> recs, ok |-> FALSE]
         ELSE IF o.rec \notin recs THEN DynRun(recs \cup {o.rec}, Tail(ops))
                                   ELSE [recs |-> recs, ok |-> FALSE]

\* The operations of a changeset removing the rrsets dels (listed in the
\* order Get produced them, which is Go map order, so any order) and
\* adding the rrset add.
DynOps(delOrder, add) ==
    LET dels == FlattenSeq([i \in 1..Len(delOrder) |-> GetRecordsFromDNSRRS(delOrder[i])])
        adds == IF add = NoRRSet THEN <<>> ELSE GetRecordsFromDNSRRS(add)
    IN  [i \in 1..Len(dels) |-> DelOp(dels[i])] \o [i \in 1..Len(adds) |-> AddOp(adds[i])]

DynApply(recs, dels, add) ==
    UNION {
      LET ops == DynOps(order, add) IN
        {DynRun(recs, ops)}
        \cup (IF Faults   \* a call fails after k operations, or PublishZone fails
              THEN {[recs |-> DynRun(recs, SubSeq(ops, 1, k)).recs, ok |-> FALSE] : k \in 0..Len(ops)}
              ELSE {})
      : order \in SetToSeqs(dels)}

(***************************************************************************)
(* Grouped Apply: removals before additions, as one unit.  A removal must  *)
(* name the rrset exactly as stored and an addition must not meet an       *)
(* rrset of the same (name, type); otherwise nothing changes.              *)
(***************************************************************************)
GroupedValid(recs, dels, add) ==
    /\ \A rs \in dels : rs.data # {} /\ ValuesOf(recs, rs.name, rs.type) = rs.data
    /\ add # NoRRSet =>
         \/ \E rs \in dels : rs.name = add.name /\ rs.type = add.type
         \/ ValuesOf(recs, add.name, add.type) = {}

GroupedApply(recs, dels, add) ==
    LET removed == {r \in recs : \E rs \in dels : r.name = rs.name /\ r.type = rs.type}
        added   == {Record(add.name, add.type, v) : v \in add.data}
    IN  IF GroupedValid(recs, dels, add)
        THEN {[recs |-> (recs \ removed) \cup added, ok |-> TRUE]}
             \cup (IF Faults THEN {[recs |-> recs, ok |-> FALSE]} ELSE {})
        ELSE {[recs |-> recs, ok |-> FALSE]}

\* Mutant: the Remove calls never reach the changeset that is applied.
ApplyResults_lostRemoves(recs, dels, add) ==
    IF Provider = "dyndns" THEN DynApply(recs, {}, add) ELSE GroupedApply(recs, {}, add)

\* StartChangeset().Remove(each of dels).Add(add).Apply(): its possible outcomes.
ApplyResults(recs, dels, add) ==
    IF Provider = "dyndns" THEN DynApply(recs, dels, add) ELSE GroupedApply(recs, dels, add)

=============================================================================
