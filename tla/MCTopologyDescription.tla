------------------------ MODULE MCTopologyDescription ------------------------
(***************************************************************************)
(* Instances of TopologyDescription for TLC.                               *)
(***************************************************************************)
EXTENDS TopologyDescription

CONSTANTS a1, a2, a3

MCAddresses == {a1, a2, a3}

Seeded(hosts, name) ==
    [hosts |-> hosts, setName |-> name, direct |-> FALSE, loadBalanced |-> FALSE]

\* A server of a replica set that lists every address, and of current versions.
Member(type) ==
    [type |-> type, setName |-> "rs", hosts |-> Addresses, me |-> None,
     setVersion |-> None, electionId |-> None, topologyVersion |-> None,
     sessionTimeout |-> 30, minWire |-> 0, maxWire |-> 21, clusterTime |-> None]

Other(type) == [Member(type) EXCEPT !.setName = None, !.hosts = {}]

OnlyErrors == {None}

(* Replica sets: elections and configurations, and host lists, set names and
   names that disagree. *)
ReplicaSetOptions ==
    {Seeded({a1}, None), Seeded({a1, a2}, None), Seeded({a1, a2}, "rs"),
     [Seeded({a1}, "rs") EXCEPT !.direct = TRUE]}

Elected(version, election) ==
    [Member("RsPrimary") EXCEPT !.setVersion = version, !.electionId = election]

ReplicaSetReplies ==
    {Elected(v, e) : v \in 1..2, e \in 1..2}
    \cup {[Elected(1, 1) EXCEPT !.hosts = h, !.me = m] :
            h \in {{a1, a2}, {a2, a3}, Garbled}, m \in {None, a1, Garbled}}
    \cup {[Member("RsSecondary") EXCEPT !.hosts = h, !.me = m] :
            h \in {{a1, a2}, {a2, a3}, Garbled}, m \in {None, a1, Garbled}}
    \cup {[Elected(1, 1) EXCEPT !.setName = "other"],
          [Member("RsArbiter") EXCEPT !.setName = "other"],
          [Member("RsOther") EXCEPT !.hosts = {}]}
    \cup {Other(t) : t \in {"Standalone", "Mongos", "RsGhost"}}

(* Summaries: session timeouts, wire versions, topology versions. *)
Version(process, counter) == [process |-> process, counter |-> counter]

SummaryVersions == {None, Version(1, 1), Version(1, 2), Version(2, 1)}

SummaryOptions ==
    {Seeded({a1, a2}, "rs"), Seeded({a1, a2}, None),
     [Seeded({a1}, None) EXCEPT !.loadBalanced = TRUE]}

SummaryReplies ==
    {[Member("RsSecondary") EXCEPT !.sessionTimeout = t, !.topologyVersion = v] :
        t \in {None, 10, 30}, v \in {Version(1, 1), Version(1, 2)}}
    \cup {[Member("RsArbiter") EXCEPT !.sessionTimeout = None],
          [Member("RsPrimary") EXCEPT !.maxWire = 6, !.clusterTime = 1],
          [Member("RsPrimary") EXCEPT !.maxWire = None],
          [Member("RsSecondary") EXCEPT !.minWire = 30, !.maxWire = 40, !.clusterTime = 2],
          [Other("Mongos") EXCEPT !.maxWire = 7, !.sessionTimeout = 10]}

SummaryTimes == {1, 2}

(* SRV: a topology seeded by an SRV record and polled. *)
SrvOptions == {Seeded({a1, a2}, None), Seeded({a3}, None)}

SrvReplies == {Other("Mongos"), Other("Standalone"), Member("RsPrimary"), Member("RsSecondary")}

SrvLookups == {{}, {a1}, {a2, a3}, {a1, a2, a3}}

NoLookups == {}
NoTimes == {}

(* Each behaviour is about one of the three, and its inputs are those of   *)
(* its family.                                                             *)
VARIABLE which

AllOptions == ReplicaSetOptions \cup SummaryOptions \cup SrvOptions
AllReplies == ReplicaSetReplies \cup SummaryReplies \cup SrvReplies

Members == INSTANCE TopologyDescription WITH Options <- ReplicaSetOptions
Summaries == INSTANCE TopologyDescription WITH Options <- SummaryOptions
Polled == INSTANCE TopologyDescription WITH Options <- SrvOptions

FamilyInit ==
    \/ which = "members" /\ Members!Init
    \/ which = "summaries" /\ Summaries!Init
    \/ which = "polled" /\ Polled!Init

Inputs(replies, versions, times, lookups) ==
    [replies |-> replies, versions |-> versions, times |-> times, lookups |-> lookups]
Family ==
    [members |-> Inputs(ReplicaSetReplies, OnlyErrors, NoTimes, NoLookups),
     summaries |-> Inputs(SummaryReplies, SummaryVersions, SummaryTimes, NoLookups),
     polled |-> Inputs(SrvReplies, OnlyErrors, NoTimes, SrvLookups)]

FamilyNext ==
    /\ UNCHANGED which
    /\ \/ \E a \in Addresses :
            \/ \E r \in Family[which].replies : ServerUpdate(a, r)
            \/ \E v \in Family[which].versions : MarkServerAsUnknown(a, v)
       \/ \E t \in Family[which].times : GossipClusterTime(t)
       \/ Family[which].lookups # {} /\ StartLookup
       \/ \E hosts \in Family[which].lookups : FinishLookup(hosts)
       \/ ReceiveSyncHosts

FamilySpec == FamilyInit /\ [][FamilyNext]_<<vars, which>>
=============================================================================
