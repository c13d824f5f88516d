-------------------------- MODULE MC_ZoneResolver --------------------------
(* Names over the alphabet {a, b, ., ","} instantiating ZoneResolver.      *)
EXTENDS ZoneResolver, TLC

CONSTANTS NilZone

\* The domain "ab.a" (like d1.example.com), with and without the final dot.
DomainABA    == <<"a", "b", ".", "a">>
DomainABADot == DomainABA \o <<".">>
A  == <<"a">>
B  == <<"b">>
BA == <<"b", ".", "a">>
BB == <<"b", ".", "b">>

\* Joins zone names with commas, as they are written in the provider config.
RECURSIVE Joined(_)
Joined(zs) == IF Len(zs) <= 1 THEN FlattenSeq(zs)
              ELSE Head(zs) \o <<",">> \o Joined(Tail(zs))

\* The zones line of the DynDNS config: empty; the domain's parent "a"
\* (like example.com) beside "b.a", which occurs inside the domain without
\* being an ancestor of it; the domain with its final dot; the domain
\* beside "b"; three zones; and a trailing comma after "a".
MCZoneStrings ==
    {<<>>, Joined(<<A, BA>>), DomainABADot, Joined(<<DomainABA, B>>),
     Joined(<<B, DomainABADot, A>>), Joined(<<A, <<>> >>)}

\* Every combination of the flag, a missing or present federation name,
\* domain, provider, zone list and credentials.
MCConfigs == [version : BOOLEAN, fed : BOOLEAN, domain : {<<>>, DomainABA, DomainABADot},
              dns : BOOLEAN, zones : MCZoneStrings, creds : BOOLEAN]

\* A complete config whose zone list ends in a comma after a zone that is
\* not part of the domain.
CommaConfigs == [version : {FALSE}, fed : {TRUE}, domain : {DomainABA}, dns : {TRUE},
                 zones : {Joined(<<BB, <<>> >>)}, creds : {TRUE}]

SubstringConfigs == MCConfigs \cup CommaConfigs

\* A complete config hosting "b.a." and "ab.a": both four characters long
\* as written, so sort.Slice may put either first, but three and four
\* characters long once GetDNSZone trims the final dot.  Both are contained
\* in the domain "ab.a".
BADot       == BA \o <<".">>
TieConfigs  == [version : {FALSE}, fed : {TRUE}, domain : {DomainABA}, dns : {TRUE},
                zones : {Joined(<<BADot, DomainABA>>)}, creds : {TRUE}]

AllConfigs == MCConfigs \cup TieConfigs
=============================================================================
