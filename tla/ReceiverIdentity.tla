-------------------------- MODULE ReceiverIdentity --------------------------
(***************************************************************************)
(* Which receivers AirPlayDiscovery lists.  A receiver announces several   *)
(* services, and a scan may lose any of their records: the same receiver   *)
(* appears under the hardware address of one service, the public key of    *)
(* another or, for want of a TXT record, its bare service name.  Entries   *)
(* with the same name at the same host are one receiver: the stronger      *)
(* identity stays and keeps the other as an alias.  No entry ever leaves.  *)
(*                                                                         *)
(* A whole scan - the browse of DNS-SD, then that of multicast DNS - is    *)
(* one action; its result is merged entry by entry.  Of an endpoint it     *)
(* matters whether it is missing, a host name or an address of either      *)
(* kind: host and port come with the same SRV record, so that there is a   *)
(* host if and only if there is a port (no receiver announces port 0).     *)
(* Names tell receivers apart, and a receiver keeps its addresses.         *)
(***************************************************************************)
EXTENDS OutputRecords, SequencesExt

CONSTANTS
    Service,        \* the services announced on the network, in the order in
                    \*   which a browse comes to them
    Name,           \* the names of the receivers
    Id,             \* the ids of outputs, in the order of std::map
    ServiceName,    \* [Service -> Name]: the receiver that announces it
    TextId,         \* [Service -> Id]: its id when the TXT record arrived
    BareId,         \* [Service -> Id]: its id without
    AirPlay2,       \* [Service -> BOOLEAN]: its TXT record speaks of AirPlay 2
    NameOf,         \* [Id -> Name]: the receiver of an id
    Rank,           \* [Id -> Nat]: a public key, then the length
    Endpoint        \* bound: the endpoints that a scan comes up with

Numeric == {"ipv4", "ipv6"}
Host == {"none", "name"} \cup Numeric

ASSUME IdAssumption == Service \cup Id \subseteq Nat /\ Endpoint \subseteq Host
ASSUME NameAssumption ==
    /\ ServiceName \in [Service -> Name]
    /\ TextId \in [Service -> Id]
    /\ BareId \in [Service -> Id]
    /\ AirPlay2 \in [Service -> BOOLEAN]
    /\ NameOf \in [Id -> Name]
    /\ Rank \in [Id -> Nat]
    /\ \A s \in Service : NameOf[TextId[s]] = ServiceName[s]
                          /\ NameOf[BareId[s]] = ServiceName[s]

VARIABLES
    devices,        \* devices_: the endpoint of each entry, whether it supports
                    \*   AirPlay 2, and the other ids of the same receiver
    found           \* what a scan found and is not merged yet, by id

Nothing == [i \in {} |-> [host |-> "none", modern |-> FALSE]]
NoDevices == [i \in {} |-> [host |-> "none", modern |-> FALSE, aliases |-> {}]]

-----------------------------------------------------------------------------
\* The two browses.  Each comes up with what it heard of a service, or nothing.

Silent == [text |-> FALSE, host |-> "silent"]
Heard(hosts) == {Silent} \cup [text : BOOLEAN, host : hosts \cap Endpoint]

\* browse_windows_dns_sd(): a service that is resolved in time has a host name
\* and perhaps an address; it may come without properties.
Resolutions == [Service -> Heard({"name", "ipv4"})]

\* What parse_response() makes of the answers that arrive.  With SRV there is an
\* address, at least that of the answer's sender.
Answers == [Service -> Heard({"none"} \cup Numeric)]

\* The services of a receiver have one target host, and its A record, if one
\* arrived, counts before the AAAA record.
AddressesApplied(answers) ==
    \A s, t \in Service :
        /\ ServiceName[s] = ServiceName[t]
        /\ {answers[s].host, answers[t].host} \subseteq Numeric
        => answers[s].host = answers[t].host

\* device_id_from().
Identity(s, heard) == IF heard.text THEN TextId[s] ELSE BareId[s]

SupportsAirPlay2(s, heard) == heard.text /\ AirPlay2[s]

\* to_output_device().
Device(s, heard) == [host |-> heard.host, modern |-> SupportsAirPlay2(s, heard)]

-----------------------------------------------------------------------------
\* The devices of a scan.

HasEndpoint(d) == d.host # "none"

PrefersEndpoint(d, candidate) ==
    /\ HasEndpoint(candidate)
    /\ \/ ~HasEndpoint(d)
       \/ candidate.modern /\ ~d.modern
       \/ candidate.modern = d.modern
          /\ (d.host \in Numeric => candidate.host \in Numeric)

\* merge_device().
MergedDevice(d, candidate) ==
    [host |-> IF PrefersEndpoint(d, candidate) THEN candidate.host ELSE d.host,
     modern |-> d.modern \/ candidate.modern]

\* append_or_merge_device(), for what a browse heard of the services: the devices
\* with one id are merged in the order in which it comes to them.
Browsed(list, heard) ==
    LET audible == {s \in Service : heard[s] # Silent}
        own(i) == SetToSortSeq({s \in audible : Identity(s, heard[s]) = i}, <)
        devicesOf(i) == [k \in DOMAIN own(i) |-> Device(own(i)[k], heard[own(i)[k]])]
    IN  [i \in DOMAIN list \cup {Identity(s, heard[s]) : s \in audible} |->
            IF i \in DOMAIN list THEN FoldLeft(MergedDevice, list[i], devicesOf(i))
            ELSE FoldLeft(MergedDevice, Head(devicesOf(i)), Tail(devicesOf(i)))]

\* What browse_mdns() may return; when the second browse fails it is silent.
Scans ==
    {Browsed(Browsed(Nothing, resolved), answers) :
        resolved \in Resolutions,
        answers \in {a \in Answers : AddressesApplied(a)}}

\* refresh().
Browse == found' \in Scans

-----------------------------------------------------------------------------
\* upsert_discovered_identity(), for a device d with the id i.

SameReceiver(entries, e, i, d) ==
    HasEndpoint(d) /\ NameOf[e] = NameOf[i] /\ entries[e].host = d.host

Twins(entries, i, d) == {e \in DOMAIN entries \ {i} : SameReceiver(entries, e, i, d)}

Preferred(entries, i, d, e) ==
    IF d.modern # entries[e].modern THEN d.modern ELSE Rank[i] > Rank[e]

\* An id that was an address before keeps it when only a name is found now.
HostOf(entries, i, h) ==
    IF i \in DOMAIN entries /\ entries[i].host \in Numeric /\ h \notin Numeric
    THEN entries[i].host ELSE h

AliasesOf(entries, i) == IF i \in DOMAIN entries THEN entries[i].aliases ELSE {}

\* Mutant: the entry takes over the id of the weaker one and not its aliases.
InheritedIdOnly(entries, i, replaced) == replaced \ {i}

\* The entry takes over the ids of the weaker one it replaces, if there is
\* one, and keeps those it had.
Inherited(entries, i, replaced) ==
    (UNION {{e} \cup entries[e].aliases : e \in replaced}) \ {i}

\* Mutant: the weaker entry stays in the map.
EnteredBeside(entries, i, d, replaced) ==
    [j \in DOMAIN entries \cup {i} |->
        IF j # i THEN entries[j]
        ELSE [host |-> HostOf(entries, i, d.host), modern |-> d.modern,
              aliases |-> AliasesOf(entries, i) \cup Inherited(entries, i, replaced)]]

Entered(entries, i, d, replaced) ==
    [j \in (DOMAIN entries \ replaced) \cup {i} |->
        IF j # i THEN entries[j]
        ELSE [host |-> HostOf(entries, i, d.host), modern |-> d.modern,
              aliases |-> AliasesOf(entries, i) \cup Inherited(entries, i, replaced)]]

\* The weaker identity becomes an alias of the entry that has the receiver.
Upserted(entries, i, d) ==
    LET twin == Firsts(Twins(entries, i, d))
    IN  IF \A e \in twin : Preferred(entries, i, d, e) THEN Entered(entries, i, d, twin)
        ELSE [j \in DOMAIN entries |->
                 IF j \notin twin THEN entries[j]
                 ELSE [entries[j] EXCEPT !.aliases = @ \cup {i}]]

Remaining(i) == [j \in DOMAIN found \ {i} |-> found[j]]

Merge ==
    \E i \in DOMAIN found :
        /\ devices' = Upserted(devices, i, found[i])
        /\ found' = Remaining(i)

-----------------------------------------------------------------------------
\* resolve_output_id(): the first output with that id or alias.

Matches(i) == OutputsWith(i, devices)
Resolved(ids) == {First(Matches(i)) : i \in ids}

-----------------------------------------------------------------------------
\* Properties.

\* An id still means the receiver it was first listed for.
Linked(i) == \E e \in Matches(i) : NameOf[e] = NameOf[i]

\* Two entries with one name never share a host: a receiver is listed twice
\* only while its two services were seen at different hosts.
NoTwins ==
    \A d, e \in DOMAIN devices :
        d # e /\ NameOf[d] = NameOf[e] /\ devices[d].host = devices[e].host
            => devices[d].host = "none"

AliasesTyped ==
    \A i \in DOMAIN devices :
        /\ devices[i].aliases \subseteq Id \ {i}
        /\ \A j \in devices[i].aliases : NameOf[j] = NameOf[i]

IdentityTyped ==
    /\ DOMAIN devices \subseteq Id
    /\ \A i \in DOMAIN devices : devices[i] \in [host : Host, modern : BOOLEAN, aliases : SUBSET Id]
    /\ AliasesTyped
    /\ DOMAIN found \subseteq Id
    /\ \A i \in DOMAIN found : found[i] \in [host : Host, modern : BOOLEAN]
=============================================================================
