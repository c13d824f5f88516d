------------------------------ MODULE DnsView ------------------------------
(***************************************************************************)
(* What the DNS records of one ingress promise to a resolver (spec 3, 4.2, *)
(* 5): the records are kept per name, and a name changes in one step from  *)
(* one well-formed record set to another.  A well-formed set is A records  *)
(* of a non-empty set of addresses, or a single CNAME to the name's parent *)
(* in the zone -> region -> global chain, or, for a name with no parent,   *)
(* nothing.  A zone or region name that has been published therefore never *)
(* stops resolving, and never resolves to an A record and a CNAME at once. *)
(***************************************************************************)
CONSTANTS
    Names,       \* the names of the hierarchy
    Parent(_),   \* the next name up, or NoName above the top
    NoName,
    IPs          \* addresses an A record may hold

VARIABLE view    \* name -> its set of records [name, type, val]

RR(n, t, v) == [name |-> n, type |-> t, val |-> v]

\* The record sets a name may hold.
WellFormed(n) ==
    {{RR(n, "A", ip) : ip \in S} : S \in SUBSET IPs \ {{}}}
    \cup (IF Parent(n) # NoName THEN {{RR(n, "CNAME", Parent(n))}} ELSE {{}})

Init == view = [n \in Names |-> {}]

\* One name is replaced, as a unit, by a well-formed set.
Publish(n) == \E R \in WellFormed(n) : view' = [view EXCEPT ![n] = R]

Spec == Init /\ [][\E n \in Names : Publish(n)]_view

=============================================================================
