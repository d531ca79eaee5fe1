--------------------- MODULE TopologyDescription_proofs ---------------------
(***************************************************************************)
(* Theorems about TopologyDescription, for any addresses, options, replies *)
(* and SRV answers.                                                        *)
(*                                                                         *)
(* Fits is the inductive invariant: the servers stored in a description    *)
(* agree with its type.  It is a predicate on descriptions, so that it can *)
(* be carried through the operators that `update` is composed of.          *)
(***************************************************************************)
EXTENDS TopologyDescription, TLAPS

\* The default backend; a leaf that needs arithmetic or records names SMT.
USE Zenon

\* A description is a record with these fields, and its servers a function.
Shape(td) ==
    /\ td = [singleSeed |-> td.singleSeed, type |-> td.type, setName |-> td.setName,
             maxSetVersion |-> td.maxSetVersion, maxElectionId |-> td.maxElectionId,
             compatible |-> td.compatible, sessionTimeout |-> td.sessionTimeout,
             transactions |-> td.transactions, clusterTime |-> td.clusterTime,
             servers |-> td.servers]
    /\ td.servers = [a \in DOMAIN td.servers |-> td.servers[a]]
    /\ td.type \in TopologyTypes

\* The fields that decide which servers a topology has are the same.
SameCore(u, td) ==
    /\ u.singleSeed = td.singleSeed
    /\ u.type = td.type
    /\ u.setName = td.setName
    /\ u.maxSetVersion = td.maxSetVersion
    /\ u.maxElectionId = td.maxElectionId
    /\ u.servers = td.servers

\* What may be stored for a server, by the type of the topology.
ServerFits(td, sd) ==
    CASE td.type = "Unknown" -> sd.type \in {"Unknown", "RsGhost"}
      [] td.type = "Sharded" -> sd.type \in {"Unknown", "Mongos", "RsGhost"}
      [] td.type \in ReplicaSetTypes ->
           \/ sd.type \in {"Unknown", "RsGhost"}
           \/ sd.type \in MemberTypes \cup {"RsPrimary"} /\ sd.setName = td.setName
      [] OTHER -> TRUE

\* Every server fits, except perhaps the one that was just stored.
OthersFit(td, address) ==
    \A a \in Known(td) \ {address} : ServerFits(td, td.servers[a])

AtMostOnePrimary(td) == \A a, b \in Primaries(td) : a = b

\* The inductive invariant.
Fits(td) ==
    /\ Shape(td)
    /\ \A a \in Known(td) : ServerFits(td, td.servers[a])
    /\ td.type = "ReplicaSetNoPrimary" => Primaries(td) = {}
    /\ td.type = "ReplicaSetWithPrimary" => AtMostOnePrimary(td)

\* The summaries change no field that Fits looks at.
LEMMA SummariesKeepCore ==
    ASSUME NEW td, NEW sd, Shape(td)
    PROVE  Shape(UpdateSummaries(td, sd)) /\ SameCore(UpdateSummaries(td, sd), td)
<1>1. ASSUME NEW u, Shape(u)
      PROVE  /\ Shape(UpdateLogicalSessionTimeout(u, sd))
             /\ SameCore(UpdateLogicalSessionTimeout(u, sd), u)
  BY <1>1 DEF Shape, SameCore, UpdateLogicalSessionTimeout
<1>2. ASSUME NEW u, Shape(u)
      PROVE  /\ Shape(UpdateTransactionSupportStatus(u, sd))
             /\ SameCore(UpdateTransactionSupportStatus(u, sd), u)
  BY SMT, <1>2 DEF Shape, SameCore, UpdateTransactionSupportStatus
<1>3. ASSUME NEW u, Shape(u), NEW t
      PROVE  Shape(AdvanceClusterTime(u, t)) /\ SameCore(AdvanceClusterTime(u, t), u)
  BY SMT, <1>3 DEF Shape, SameCore, AdvanceClusterTime
<1> QED
  BY SMT, <1>1, <1>2, <1>3 DEF UpdateSummaries, SameCore

\* Nor does the check for compatibility errors.
LEMMA CompatibilityKeepsCore ==
    ASSUME NEW td, Shape(td)
    PROVE  Shape(CheckCompatibility(td)) /\ SameCore(CheckCompatibility(td), td)
<1>1. ASSUME NEW v
      PROVE  Shape([td EXCEPT !.compatible = v]) /\ SameCore([td EXCEPT !.compatible = v], td)
  BY SMT DEF Shape, SameCore
<1> QED
  BY <1>1, Zenon DEF CheckCompatibility

\* Removing servers.
LEMMA RemoveCore ==
    ASSUME NEW td, NEW gone, Shape(td)
    PROVE  LET u == Remove(td, gone)
           IN /\ Shape(u)
              /\ u.type = td.type /\ u.setName = td.setName
              /\ u.maxSetVersion = td.maxSetVersion /\ u.maxElectionId = td.maxElectionId
              /\ Known(u) = Known(td) \ gone
              /\ \A a \in Known(u) : u.servers[a] = td.servers[a]
BY SMT DEF Shape, Remove, Known

\* Adding servers that were not known.
LEMMA AddCore ==
    ASSUME NEW td, NEW hosts, Shape(td)
    PROVE  LET u == AddNewServers(td, hosts)
           IN /\ Shape(u)
              /\ u.type = td.type /\ u.setName = td.setName
              /\ u.maxSetVersion = td.maxSetVersion /\ u.maxElectionId = td.maxElectionId
              /\ Known(u) = Known(td) \cup hosts
              /\ \A a \in Known(u) :
                    u.servers[a] = IF a \in Known(td) THEN td.servers[a] ELSE NewServer
BY SMT DEF Shape, AddNewServers, Known

\* Storing a description for a server that is known.
LEMMA ReplaceCore ==
    ASSUME NEW td, NEW address \in Known(td), NEW sd, Shape(td)
    PROVE  LET u == Replace(td, address, sd)
           IN /\ Shape(u)
              /\ u.singleSeed = td.singleSeed
              /\ u.type = td.type /\ u.setName = td.setName
              /\ u.maxSetVersion = td.maxSetVersion /\ u.maxElectionId = td.maxElectionId
              /\ Known(u) = Known(td)
              /\ \A a \in Known(u) :
                    u.servers[a] = IF a = address THEN sd ELSE td.servers[a]
BY SMT DEF Shape, Replace, Known

\* Recording whether there is a primary.
LEMMA RecordCore ==
    ASSUME NEW td, Shape(td)
    PROVE  LET u == RecordPrimaryState(td)
           IN /\ Shape(u)
              /\ u.type = IF Primaries(td) # {} THEN "ReplicaSetWithPrimary"
                                                ELSE "ReplicaSetNoPrimary"
              /\ u.setName = td.setName /\ u.servers = td.servers
              /\ u.maxSetVersion = td.maxSetVersion /\ u.maxElectionId = td.maxElectionId
BY SMT DEF Shape, RecordPrimaryState, TopologyTypes, ReplicaSetTypes

\* Recording an election.
LEMMA ElectionCore ==
    ASSUME NEW td, NEW sd, Shape(td)
    PROVE  LET u == RecordElection(td, sd)
           IN /\ Shape(u) /\ u.type = td.type /\ u.setName = td.setName /\ u.servers = td.servers
              /\ u.maxElectionId = IF None \notin {sd.setVersion, sd.electionId}
                                   THEN sd.electionId ELSE td.maxElectionId
              /\ u.maxSetVersion = IF /\ sd.setVersion # None
                                      /\ td.maxSetVersion = None \/ sd.setVersion > td.maxSetVersion
                                   THEN sd.setVersion ELSE td.maxSetVersion
<1>1. ASSUME NEW v, Shape(v), NEW x
      PROVE  LET w == [v EXCEPT !.maxElectionId = x]
             IN /\ Shape(w) /\ w.type = v.type /\ w.setName = v.setName /\ w.servers = v.servers
                /\ w.maxElectionId = x /\ w.maxSetVersion = v.maxSetVersion
  BY SMT, <1>1 DEF Shape
<1>2. ASSUME NEW v, Shape(v), NEW x
      PROVE  LET w == [v EXCEPT !.maxSetVersion = x]
             IN /\ Shape(w) /\ w.type = v.type /\ w.setName = v.setName /\ w.servers = v.servers
                /\ w.maxSetVersion = x /\ w.maxElectionId = v.maxElectionId
  BY SMT, <1>2 DEF Shape
<1> DEFINE id == IF None \notin {sd.setVersion, sd.electionId}
                 THEN sd.electionId ELSE td.maxElectionId
           v == [td EXCEPT !.maxElectionId = id]
           version == IF sd.setVersion # None /\ (v.maxSetVersion = None \/ sd.setVersion > v.maxSetVersion)
                      THEN sd.setVersion ELSE v.maxSetVersion
           u == RecordElection(td, sd)
<1>3. u = [v EXCEPT !.maxSetVersion = version]
  BY DEF RecordElection
<1> HIDE DEF version
<1>4. /\ Shape(v) /\ v.type = td.type /\ v.setName = td.setName /\ v.servers = td.servers
      /\ v.maxElectionId = id /\ v.maxSetVersion = td.maxSetVersion
  <2> HIDE DEF id
  <2> QED
    BY <1>1
<1> HIDE DEF v, u
<1>5. /\ Shape(u) /\ u.type = v.type /\ u.setName = v.setName /\ u.servers = v.servers
      /\ u.maxSetVersion = version /\ u.maxElectionId = v.maxElectionId
  BY SMT, <1>2, <1>3, <1>4
<1> QED
  BY <1>4, <1>5 DEF u, version

-----------------------------------------------------------------------------
(* Each of the functions that `update` dispatches to.  They are called on a *)
(* description in which `sd` was just stored for `address`.                 *)

\* What the callers guarantee of the functions below.
Stored(td, address, sd) ==
    /\ Shape(td)
    /\ address \in Known(td)
    /\ td.servers[address] = sd
    /\ OthersFit(td, address)

\* A new server fits everywhere.
LEMMA NewFits ==
    ASSUME NEW td, td.type \in TopologyTypes
    PROVE  ServerFits(td, NewServer) /\ NewServer.type = "Unknown"
BY DEF ServerFits, NewServer, UnknownServer, TopologyTypes, ReplicaSetTypes

\* Whether a server fits depends on the type and the set name only, and not
\* on which of the replica set types it is.
LEMMA FitsByType ==
    ASSUME NEW td, NEW u, NEW sd, ServerFits(td, sd), u.setName = td.setName,
           \/ u.type = td.type
           \/ u.type \in ReplicaSetTypes /\ td.type \in ReplicaSetTypes
    PROVE  ServerFits(u, sd)
BY DEF ServerFits, ReplicaSetTypes

\* In an unknown topology the servers fit a replica set of any name.
LEMMA UnknownFits ==
    ASSUME NEW td, NEW u, NEW sd, ServerFits(td, sd), td.type = "Unknown",
           u.type \in TopologyTypes
    PROVE  ServerFits(u, sd)
BY DEF ServerFits, ReplicaSetTypes, TopologyTypes


\* Recording the primary state of a replica set that fits but for its type.
LEMMA RecordFits ==
    ASSUME NEW td, Shape(td), IsReplicaSet(td), AtMostOnePrimary(td),
           \A a \in Known(td) : ServerFits(td, td.servers[a])
    PROVE  Fits(RecordPrimaryState(td))
<1> DEFINE u == RecordPrimaryState(td)
<1>1. /\ Shape(u) /\ u.setName = td.setName /\ u.servers = td.servers
      /\ u.type = IF Primaries(td) # {} THEN "ReplicaSetWithPrimary" ELSE "ReplicaSetNoPrimary"
  BY RecordCore
<1> HIDE DEF u
<1>2. \A a \in Known(u) : ServerFits(u, u.servers[a])
  <2> TAKE a \in Known(u)
  <2>1. ServerFits(td, td.servers[a])
    BY <1>1 DEF Known
  <2> QED
    BY <2>1, <1>1, FitsByType DEF IsReplicaSet, ReplicaSetTypes
<1>3. Primaries(u) = Primaries(td)
  BY <1>1 DEF Primaries, Known
<1> QED
  BY <1>1, <1>2, <1>3 DEF Fits, AtMostOnePrimary, u

\* Removing servers keeps a description fitting.
LEMMA RemoveFits ==
    ASSUME NEW td, NEW gone, Fits(td)
    PROVE  Fits(Remove(td, gone))
<1> DEFINE u == Remove(td, gone)
<1>1. /\ Shape(u) /\ u.type = td.type /\ u.setName = td.setName /\ Known(u) = Known(td) \ gone
      /\ \A a \in Known(u) : u.servers[a] = td.servers[a]
  BY SMT, RemoveCore DEF Fits
<1> HIDE DEF u
<1>2. \A a \in Known(u) : ServerFits(u, u.servers[a])
  BY <1>1, FitsByType DEF Fits
<1>3. Primaries(u) \subseteq Primaries(td)
  BY <1>1 DEF Primaries
<1> QED
  BY <1>1, <1>2, <1>3 DEF Fits, AtMostOnePrimary, u

\* So does adding servers.
LEMMA AddFits ==
    ASSUME NEW td, NEW hosts, Fits(td)
    PROVE  Fits(AddNewServers(td, hosts))
<1> DEFINE u == AddNewServers(td, hosts)
<1>1. /\ Shape(u) /\ u.type = td.type /\ u.setName = td.setName
      /\ Known(u) = Known(td) \cup hosts
      /\ \A a \in Known(u) : u.servers[a] = IF a \in Known(td) THEN td.servers[a] ELSE NewServer
  BY SMT, AddCore DEF Fits
<1> HIDE DEF u
<1>2. \A a \in Known(u) : ServerFits(u, u.servers[a])
  <2> TAKE a \in Known(u)
  <2>1. CASE a \in Known(td)
    BY <2>1, <1>1, FitsByType DEF Fits
  <2>2. CASE a \notin Known(td)
    BY <2>2, <1>1, NewFits DEF Shape
  <2> QED
    BY <2>1, <2>2
<1>3. Primaries(u) \subseteq Primaries(td)
  BY <1>1, NewFits DEF Primaries, Shape
<1> QED
  BY <1>1, <1>2, <1>3 DEF Fits, AtMostOnePrimary, u

\* The stored server does not fit and is removed from the replica set.
LEMMA DropStored ==
    ASSUME NEW td, NEW address, Shape(td), OthersFit(td, address),
           \A a, b \in Primaries(td) \ {address} : a = b,
           td.type = "ReplicaSetNoPrimary" => Primaries(td) \ {address} = {}
    PROVE  /\ Fits(Remove(td, {address}))
           /\ IsReplicaSet(td) => Fits(RecordPrimaryState(Remove(td, {address})))
<1> DEFINE u == Remove(td, {address})
<1>1. /\ Shape(u) /\ u.type = td.type /\ u.setName = td.setName
      /\ Known(u) = Known(td) \ {address}
      /\ \A a \in Known(u) : u.servers[a] = td.servers[a]
  BY RemoveCore
<1> HIDE DEF u
<1>2. \A a \in Known(u) : ServerFits(u, u.servers[a])
  BY <1>1, FitsByType DEF OthersFit
<1>3. Primaries(u) \subseteq Primaries(td) \ {address}
  BY <1>1 DEF Primaries
<1>4. AtMostOnePrimary(u)
  BY <1>3 DEF AtMostOnePrimary
<1>5. Fits(u)
  BY <1>1, <1>2, <1>3, <1>4 DEF Fits
<1>6. IsReplicaSet(td) => Fits(RecordPrimaryState(u))
  BY <1>1, <1>2, <1>4, RecordFits DEF IsReplicaSet
<1> QED
  BY <1>5, <1>6 DEF u

\* The set is named after its first member; the servers then fit the name.
LEMMA NamedFits ==
    ASSUME NEW td, NEW address, NEW sd, Stored(td, address, sd), IsReplicaSet(td),
           sd.type \in MemberTypes \cup {"RsPrimary"},
           td.setName = None =>
               \A a \in Known(td) \ {address} : td.servers[a].type \in {"Unknown", "RsGhost"},
           NEW name, name = IF td.setName = None THEN sd.setName ELSE td.setName,
           name = sd.setName
    PROVE  LET u == [td EXCEPT !.setName = name]
           IN /\ Shape(u) /\ u.type = td.type /\ u.servers = td.servers
              /\ u.setName = name
              /\ u.maxSetVersion = td.maxSetVersion /\ u.maxElectionId = td.maxElectionId
              /\ \A a \in Known(u) : ServerFits(u, u.servers[a])
<1> DEFINE u == [td EXCEPT !.setName = name]
<1>1. /\ Shape(u) /\ u.type = td.type /\ u.servers = td.servers /\ u.setName = name
      /\ u.maxSetVersion = td.maxSetVersion /\ u.maxElectionId = td.maxElectionId
  BY SMT DEF Stored, Shape
<1> HIDE DEF u
<1>2. ASSUME NEW a \in Known(u)
      PROVE  ServerFits(u, u.servers[a])
  <2>1. CASE a = address
    BY <2>1, <1>1 DEF Stored, ServerFits, IsReplicaSet, ReplicaSetTypes
  <2>2. CASE a # address /\ td.setName = None
    <3>1. td.servers[a].type \in {"Unknown", "RsGhost"}
      BY <2>2, <1>1 DEF Known
    <3> QED
      BY <3>1, <1>1 DEF ServerFits, IsReplicaSet, ReplicaSetTypes
  <2>3. CASE a # address /\ td.setName # None
    <3>1. ServerFits(td, td.servers[a])
      BY <2>3, <1>1 DEF Stored, OthersFit, Known
    <3> QED
      BY <3>1, <2>3, <1>1, FitsByType
  <2> QED
    BY <2>1, <2>2, <2>3
<1> QED
  BY <1>1, <1>2 DEF u

\* A member speaks while no primary is known.
LEMMA WithoutPrimaryFits ==
    ASSUME NEW td, NEW address, NEW sd, Stored(td, address, sd),
           td.type = "ReplicaSetNoPrimary", sd.type \in MemberTypes,
           Primaries(td) = {},
           td.setName = None =>
               \A a \in Known(td) \ {address} : td.servers[a].type \in {"Unknown", "RsGhost"}
    PROVE  Fits(UpdateRsWithoutPrimaryServer(td, address, sd))
<1> DEFINE name == IF td.setName = None THEN sd.setName ELSE td.setName
           named == [td EXCEPT !.setName = name]
<1>1. IsReplicaSet(td) /\ Shape(td) /\ OthersFit(td, address) /\ named.setName = name
  BY DEF IsReplicaSet, ReplicaSetTypes, Stored, Shape
<1>2. CASE name # sd.setName
  <2>1. Fits(Remove(td, {address}))
    BY <1>1, DropStored
  <2> QED
    BY <2>1, <1>1, <1>2 DEF UpdateRsWithoutPrimaryServer
<1>3. CASE name = sd.setName
  <2>1. /\ Shape(named) /\ named.type = td.type /\ named.servers = td.servers
        /\ \A a \in Known(named) : ServerFits(named, named.servers[a])
    BY SMT, <1>1, <1>3, NamedFits
  <2>2. Primaries(named) = {}
    BY <2>1 DEF Primaries, Known
  <2>3. Fits(named)
    BY <2>1, <2>2 DEF Fits
  <2>4. Fits(AddNewServers(named, sd.hosts))
    BY <2>3, AddFits
  <2>5. Fits(Remove(AddNewServers(named, sd.hosts), {address}))
    BY <2>4, RemoveFits
  <2> QED
    BY <2>3, <2>4, <2>5, <1>1, <1>3 DEF UpdateRsWithoutPrimaryServer
<1> QED
  BY <1>2, <1>3

\* The election is recorded and every other primary demoted.
LEMMA OnlyPrimary ==
    ASSUME NEW td, NEW address, NEW sd, Shape(td), td.type \in TopologyTypes,
           \A a \in Known(td) : ServerFits(td, td.servers[a])
    PROVE  LET u == InvalidateOtherPrimaries(RecordElection(td, sd), address)
           IN /\ Shape(u) /\ u.type = td.type /\ u.setName = td.setName
              /\ Known(u) = Known(td)
              /\ \A a \in Known(u) : ServerFits(u, u.servers[a])
              /\ Primaries(u) = Primaries(td) \cap {address}
<1> DEFINE e == RecordElection(td, sd)
           u == InvalidateOtherPrimaries(e, address)
<1>1. Shape(e) /\ e.type = td.type /\ e.setName = td.setName /\ e.servers = td.servers
  BY ElectionCore
<1> HIDE DEF e
<1>2. /\ Shape(u) /\ u.type = e.type /\ u.setName = e.setName /\ Known(u) = Known(e)
      /\ \A a \in Known(u) : u.servers[a] = IF a \in Primaries(e) \ {address} THEN NewServer
                                            ELSE e.servers[a]
  BY SMT, <1>1 DEF Shape, InvalidateOtherPrimaries, Known
<1> HIDE DEF u
<1>3. Known(u) = Known(td) /\ Primaries(e) = Primaries(td)
  BY <1>1, <1>2 DEF Known, Primaries
<1>4. ServerFits(u, NewServer) /\ NewServer.type = "Unknown"
  BY <1>1, <1>2, NewFits
<1>5. \A a \in Known(u) : ServerFits(u, u.servers[a])
  <2> TAKE a \in Known(u)
  <2>1. CASE a \in Primaries(e) \ {address}
    BY <2>1, <1>2, <1>4
  <2>2. CASE a \notin Primaries(e) \ {address}
    <3>1. ServerFits(td, td.servers[a]) /\ u.servers[a] = td.servers[a]
      BY <2>2, <1>1, <1>2, <1>3
    <3> QED
      BY <3>1, <1>1, <1>2, FitsByType
  <2> QED
    BY <2>1, <2>2
<1>6. Primaries(u) = Primaries(td) \cap {address}
  BY <1>1, <1>2, <1>3, <1>4 DEF Primaries
<1> QED
  BY <1>1, <1>2, <1>3, <1>5, <1>6 DEF u, e

\* A primary speaks.
LEMMA FromPrimaryFits ==
    ASSUME NEW td, NEW address, NEW sd, Stored(td, address, sd),
           td.type = "ReplicaSetWithPrimary", sd.type = "RsPrimary",
           \A a, b \in Primaries(td) \ {address} : a = b,
           td.setName = None =>
               \A a \in Known(td) \ {address} : td.servers[a].type \in {"Unknown", "RsGhost"}
    PROVE  Fits(UpdateRsFromPrimaryServer(td, address, sd))
<1> DEFINE name == IF td.setName = None THEN sd.setName ELSE td.setName
           named == [td EXCEPT !.setName = name]
           only == InvalidateOtherPrimaries(RecordElection(named, sd), address)
           stale == Replace(named, address, NewServer)
           joined == AddNewServers(only, sd.hosts)
           trimmed == Remove(joined, Known(td) \ sd.hosts)
<1>1. IsReplicaSet(td) /\ Shape(td) /\ OthersFit(td, address) /\ named.setName = name
  BY DEF IsReplicaSet, ReplicaSetTypes, Stored, Shape
<1>2. CASE name # sd.setName
  <2>1. Fits(RecordPrimaryState(Remove(td, {address})))
    BY <1>1, DropStored
  <2> QED
    BY <2>1, <1>1, <1>2 DEF UpdateRsFromPrimaryServer
<1>3. CASE name = sd.setName
  <2>1. /\ Shape(named) /\ named.type = td.type /\ named.servers = td.servers
        /\ \A a \in Known(named) : ServerFits(named, named.servers[a])
    BY SMT, <1>1, <1>3, NamedFits
  <2>2. address \in Known(named) /\ Primaries(named) = Primaries(td)
    BY <2>1 DEF Stored, Known, Primaries
  <2> HIDE DEF named
  <2>3. Fits(RecordPrimaryState(stale))
    <3>1. /\ Shape(stale) /\ stale.type = td.type /\ stale.setName = named.setName
          /\ Known(stale) = Known(named)
          /\ \A a \in Known(stale) :
                stale.servers[a] = IF a = address THEN NewServer ELSE named.servers[a]
      BY SMT, <2>1, <2>2, ReplaceCore
    <3> HIDE DEF stale
    <3>2. NewServer.type = "Unknown" /\ ServerFits(stale, NewServer)
      BY <3>1, NewFits DEF TopologyTypes, ReplicaSetTypes
    <3>3. \A a \in Known(stale) : ServerFits(stale, stale.servers[a])
      <4> TAKE a \in Known(stale)
      <4>1. CASE a = address
        BY <4>1, <3>1, <3>2
      <4>2. CASE a # address
        <5>1. ServerFits(named, named.servers[a]) /\ stale.servers[a] = named.servers[a]
          BY <4>2, <3>1, <2>1
        <5> QED
          BY <5>1, <3>1, <2>1, FitsByType
      <4> QED
        BY <4>1, <4>2
    <3>4. Primaries(stale) \subseteq Primaries(named) \ {address}
      BY <3>1, <3>2 DEF Primaries
    <3>5. AtMostOnePrimary(stale)
      BY <3>4, <2>2 DEF AtMostOnePrimary
    <3> QED
      BY <3>1, <3>3, <3>5, RecordFits DEF IsReplicaSet, ReplicaSetTypes
  <2>4. /\ Shape(only) /\ only.type = td.type
        /\ \A a \in Known(only) : ServerFits(only, only.servers[a])
        /\ Primaries(only) \subseteq {address}
    BY SMT, <2>1, OnlyPrimary DEF TopologyTypes, ReplicaSetTypes
  <2>5. Fits(only)
    BY <2>4 DEF Fits, AtMostOnePrimary
  <2>6. Fits(joined) /\ joined.type = only.type
    BY SMT, <2>4, <2>5, AddFits, AddCore
  <2>7. Fits(trimmed) /\ trimmed.type = joined.type
    BY SMT, <2>6, RemoveFits, RemoveCore DEF Fits
  <2>8. Fits(RecordPrimaryState(trimmed))
    <3>1. IsReplicaSet(trimmed) /\ AtMostOnePrimary(trimmed)
      BY <2>4, <2>6, <2>7 DEF Fits, IsReplicaSet, ReplicaSetTypes
    <3> QED
      BY <2>7, <3>1, RecordFits DEF Fits
  <2> QED
    BY <2>3, <2>5, <2>8, <1>1, <1>3 DEF UpdateRsFromPrimaryServer, named
<1> QED
  BY <1>2, <1>3

\* A member speaks while a primary is known.
LEMMA FromMemberFits ==
    ASSUME NEW td, NEW address, NEW sd, Stored(td, address, sd),
           td.type = "ReplicaSetWithPrimary", sd.type \in MemberTypes,
           AtMostOnePrimary(td)
    PROVE  Fits(UpdateRsWithPrimaryFromMember(td, address, sd))
<1>1. IsReplicaSet(td) /\ Shape(td) /\ OthersFit(td, address)
  BY DEF IsReplicaSet, ReplicaSetTypes, Stored
<1>2. Fits(RecordPrimaryState(Remove(td, {address})))
  BY <1>1, DropStored DEF AtMostOnePrimary
<1>3. td.setName = sd.setName => Fits(td)
  BY <1>1 DEF Fits, Stored, OthersFit, ServerFits, ReplicaSetTypes
<1> QED
  BY <1>2, <1>3 DEF UpdateRsWithPrimaryFromMember

-----------------------------------------------------------------------------
(* update, sync_hosts and the state machine.                               *)

\* A replica set is named once it has a member.
NamedSet(td) ==
    /\ td.type = "Unknown" => td.setName = None
    /\ IsReplicaSet(td) => td.setName # None

\* Storing a description: the other servers fit as they did, and the other
\* primaries are among those of before.
LEMMA StoreFits ==
    ASSUME NEW td, NEW address \in Known(td), NEW sd, Fits(td)
    PROVE  LET u == UpdateSummaries(Replace(td, address, sd), sd)
           IN /\ Stored(u, address, sd)
              /\ u.type = td.type /\ u.setName = td.setName
              /\ u.maxSetVersion = td.maxSetVersion /\ u.maxElectionId = td.maxElectionId
              /\ Known(u) = Known(td)
              /\ \A a \in Known(u) : u.servers[a] = IF a = address THEN sd ELSE td.servers[a]
              /\ Primaries(u) \ {address} = Primaries(td) \ {address}
<1> DEFINE r == Replace(td, address, sd)
           u == UpdateSummaries(r, sd)
<1>1. /\ Shape(r) /\ r.type = td.type /\ r.setName = td.setName /\ Known(r) = Known(td)
      /\ r.maxSetVersion = td.maxSetVersion /\ r.maxElectionId = td.maxElectionId
      /\ \A a \in Known(r) : r.servers[a] = IF a = address THEN sd ELSE td.servers[a]
  BY SMT, ReplaceCore DEF Fits
<1> HIDE DEF r
<1>2. Shape(u) /\ SameCore(u, r)
  BY <1>1, SummariesKeepCore
<1> HIDE DEF u
<1>3. /\ u.type = td.type /\ u.setName = td.setName /\ Known(u) = Known(td)
      /\ u.maxSetVersion = td.maxSetVersion /\ u.maxElectionId = td.maxElectionId
      /\ \A a \in Known(u) : u.servers[a] = IF a = address THEN sd ELSE td.servers[a]
  BY <1>1, <1>2 DEF SameCore, Known
<1>4. OthersFit(u, address)
  <2>1. ASSUME NEW a \in Known(u) \ {address}
        PROVE  ServerFits(u, u.servers[a])
    <3>1. ServerFits(td, td.servers[a]) /\ u.servers[a] = td.servers[a]
      BY <2>1, <1>3 DEF Fits
    <3> QED
      BY <3>1, <1>3, FitsByType
  <2> QED
    BY <2>1 DEF OthersFit
<1>5. Primaries(u) \ {address} = Primaries(td) \ {address}
  BY <1>3 DEF Primaries
<1> QED
  BY <1>2, <1>3, <1>4, <1>5 DEF Stored, u, r

\* Changing the type alone.
LEMMA RetypeCore ==
    ASSUME NEW td, Shape(td), NEW t \in TopologyTypes
    PROVE  LET u == [td EXCEPT !.type = t]
           IN /\ Shape(u) /\ u.type = t /\ u.setName = td.setName /\ u.servers = td.servers
              /\ u.maxSetVersion = td.maxSetVersion /\ u.maxElectionId = td.maxElectionId
BY SMT DEF Shape

\* The transitions of each topology type keep the description fitting.
LEMMA ByTypeFits ==
    ASSUME NEW td, NEW address, NEW sd, Stored(td, address, sd), WellFormedReply(sd), NamedSet(td),
           td.type = "ReplicaSetNoPrimary" => Primaries(td) \ {address} = {},
           td.type = "ReplicaSetWithPrimary" =>
               \A a, b \in Primaries(td) \ {address} : a = b
    PROVE  Fits(UpdateByType(td, address, sd))
<1>0. Shape(td) /\ OthersFit(td, address) /\ address \in Known(td) /\ td.servers[address] = sd
  BY DEF Stored
<1>1. CASE td.type = "Unknown"
  <2>1. \A a \in Known(td) \ {address} : td.servers[a].type \in {"Unknown", "RsGhost"}
    BY <1>0, <1>1 DEF OthersFit, ServerFits, ReplicaSetTypes
  <2>2. Primaries(td) \ {address} = {}
    BY <2>1 DEF Primaries
  <2>4. ASSUME NEW t \in TopologyTypes
        PROVE  LET u == [td EXCEPT !.type = t]
               IN /\ Stored(u, address, sd)
                  /\ u.type = t
                  /\ Primaries(u) = Primaries(td)
                  /\ \A a \in Known(u) \ {address} : u.servers[a].type \in {"Unknown", "RsGhost"}
    <3> DEFINE u == [td EXCEPT !.type = t]
    <3>1. Shape(u) /\ u.type = t /\ u.setName = td.setName /\ u.servers = td.servers
      BY <1>0, RetypeCore
    <3> HIDE DEF u
    <3>2. Known(u) = Known(td)
      BY <3>1 DEF Known
    <3>3. Primaries(u) = Primaries(td)
      BY <3>1, <3>2 DEF Primaries
    <3>4. ASSUME NEW a \in Known(u) \ {address}
          PROVE  ServerFits(u, u.servers[a])
      <4>1. ServerFits(td, td.servers[a])
        BY <3>2, <3>4, <1>0 DEF OthersFit
      <4> QED
        BY <4>1, <1>1, <3>1, UnknownFits
    <3> QED
      BY <3>1, <3>2, <3>3, <3>4, <2>1, <1>0 DEF Stored, OthersFit, u
  <2>a. CASE sd.type = "Standalone"
    <3>1. Fits(Remove(td, {address}))
      BY <1>0, <1>1, <2>2, DropStored
    <3>2. Fits([td EXCEPT !.type = "Single"])
      BY <2>4, <1>0 DEF Fits, Stored, ServerFits, TopologyTypes, ReplicaSetTypes
    <3> QED
      BY <3>1, <3>2, <2>a, <1>1
         DEF UpdateByType, UpdateUnknownTopology, UpdateUnknownWithStandaloneServer, MemberTypes
  <2>b. CASE sd.type = "Mongos"
    <3>1. Fits([td EXCEPT !.type = "Sharded"])
      BY SMT, <2>b, <2>4, <1>0 DEF Fits, Stored, OthersFit, ServerFits, TopologyTypes, ReplicaSetTypes
    <3> QED
      BY <3>1, <2>b, <1>1 DEF UpdateByType, UpdateUnknownTopology, MemberTypes
  <2>c. CASE sd.type = "RsPrimary"
    <3> DEFINE u == [td EXCEPT !.type = "ReplicaSetWithPrimary"]
    <3>1. /\ Stored(u, address, sd) /\ u.type = "ReplicaSetWithPrimary"
          /\ Primaries(u) = Primaries(td)
          /\ \A a \in Known(u) \ {address} : u.servers[a].type \in {"Unknown", "RsGhost"}
      BY <2>4 DEF TopologyTypes, ReplicaSetTypes
    <3> HIDE DEF u
    <3>2. Fits(UpdateRsFromPrimaryServer(u, address, sd))
      BY <3>1, <2>2, <2>c, FromPrimaryFits
    <3> QED
      BY <3>2, <2>c, <1>1 DEF UpdateByType, UpdateUnknownTopology, MemberTypes, u
  <2>d. CASE sd.type \in MemberTypes
    <3> DEFINE u == [td EXCEPT !.type = "ReplicaSetNoPrimary"]
    <3>1. /\ Stored(u, address, sd) /\ u.type = "ReplicaSetNoPrimary"
          /\ Primaries(u) = Primaries(td)
          /\ \A a \in Known(u) \ {address} : u.servers[a].type \in {"Unknown", "RsGhost"}
      BY <2>4 DEF TopologyTypes, ReplicaSetTypes
    <3> HIDE DEF u
    <3>2. Primaries(u) = {}
      BY <3>1, <2>2, <2>d, <1>0 DEF Primaries, MemberTypes
    <3>3. Fits(UpdateRsWithoutPrimaryServer(u, address, sd))
      BY <3>1, <3>2, <2>d, WithoutPrimaryFits
    <3> QED
      BY <3>3, <2>d, <1>1 DEF UpdateByType, UpdateUnknownTopology, MemberTypes, u
  <2>e. CASE sd.type \in {"Unknown", "RsGhost"}
    <3>1. UpdateByType(td, address, sd) = td
      BY <2>e, <1>1 DEF UpdateByType, UpdateUnknownTopology, MemberTypes
    <3> QED
      BY <3>1, <2>e, <1>0, <1>1 DEF Fits, OthersFit, ServerFits
  <2> QED
    BY <2>a, <2>b, <2>c, <2>d, <2>e DEF WellFormedReply, ServerTypes, MemberTypes
<1>2. CASE td.type = "Sharded"
  <2>1. Fits(Remove(td, {address}))
    <3>1. \A a \in Known(td) \ {address} : td.servers[a].type # "RsPrimary"
      BY <1>0, <1>2 DEF OthersFit, ServerFits, ReplicaSetTypes
    <3>2. Primaries(td) \ {address} = {}
      BY <3>1 DEF Primaries
    <3> QED
      BY <3>2, <1>0, <1>2, DropStored
  <2>2. sd.type \in {"Unknown", "Mongos"} => Fits(td)
    BY <1>0, <1>2 DEF Fits, OthersFit, ServerFits, ReplicaSetTypes
  <2> QED
    BY <2>1, <2>2, <1>2 DEF UpdateByType, UpdateShardedTopology
<1>3. CASE td.type = "ReplicaSetNoPrimary"
  <2>0. IsReplicaSet(td) /\ td.setName # None /\ Primaries(td) \ {address} = {}
    BY <1>3 DEF IsReplicaSet, ReplicaSetTypes, NamedSet
  <2>a. CASE sd.type \in {"Standalone", "Mongos"}
    <3>1. Fits(Remove(td, {address}))
      BY <2>0, <1>0, DropStored
    <3> QED
      BY <3>1, <2>a, <1>3 DEF UpdateByType, UpdateReplicaSetNoPrimaryTopology, MemberTypes
  <2>b. CASE sd.type = "RsPrimary"
    <3> DEFINE u == [td EXCEPT !.type = "ReplicaSetWithPrimary"]
    <3>0. Shape(td) /\ "ReplicaSetWithPrimary" \in TopologyTypes
      BY <1>0 DEF TopologyTypes, ReplicaSetTypes
    <3>1. /\ Shape(u) /\ u.type = "ReplicaSetWithPrimary"
          /\ u.setName = td.setName /\ u.servers = td.servers
      BY <3>0, RetypeCore, Zenon
    <3> HIDE DEF u
    <3>2. Known(u) = Known(td)
      BY <3>1 DEF Known
    <3>3. Primaries(u) = Primaries(td)
      BY <3>1, <3>2 DEF Primaries
    <3>4. ASSUME NEW a \in Known(u) \ {address}
          PROVE  ServerFits(u, u.servers[a])
      <4>1. ServerFits(td, td.servers[a])
        BY <3>2, <3>4, <1>0 DEF OthersFit
      <4> QED
        BY <4>1, <1>3, <3>1, FitsByType DEF ReplicaSetTypes
    <3>5. Stored(u, address, sd)
      BY <3>1, <3>2, <3>4, <1>0 DEF Stored, OthersFit
    <3>6. Fits(UpdateRsFromPrimaryServer(u, address, sd))
      BY <3>1, <3>3, <3>5, <2>0, <2>b, FromPrimaryFits
    <3> QED
      BY <3>6, <2>b, <1>3 DEF UpdateByType, UpdateReplicaSetNoPrimaryTopology, MemberTypes, u
  <2>c. CASE sd.type \in MemberTypes
    <3>1. Primaries(td) = {}
      BY <2>0, <2>c, <1>0 DEF Primaries, MemberTypes
    <3>2. Fits(UpdateRsWithoutPrimaryServer(td, address, sd))
      BY <3>1, <2>0, <2>c, <1>3, WithoutPrimaryFits
    <3> QED
      BY <3>2, <2>c, <1>3 DEF UpdateByType, UpdateReplicaSetNoPrimaryTopology, MemberTypes
  <2>d. CASE sd.type \in {"Unknown", "RsGhost"}
    <3>1. UpdateByType(td, address, sd) = td
      BY <2>d, <1>3 DEF UpdateByType, UpdateReplicaSetNoPrimaryTopology, MemberTypes
    <3>2. ServerFits(td, sd)
      BY <2>d, <1>3 DEF ServerFits, ReplicaSetTypes
    <3>3. Primaries(td) = {}
      BY <2>0, <2>d, <1>0 DEF Primaries
    <3> QED
      BY <3>1, <3>2, <3>3, <1>0, <1>3 DEF Fits, OthersFit
  <2> QED
    BY <2>a, <2>b, <2>c, <2>d DEF WellFormedReply, ServerTypes, MemberTypes
<1>4. CASE td.type = "ReplicaSetWithPrimary"
  <2>0. /\ IsReplicaSet(td) /\ td.setName # None
        /\ \A a, b \in Primaries(td) \ {address} : a = b
    BY <1>4 DEF IsReplicaSet, ReplicaSetTypes, NamedSet
  <2>1. sd.type # "RsPrimary" => AtMostOnePrimary(td)
    BY <2>0, <1>0 DEF AtMostOnePrimary, Primaries
  <2>a. CASE sd.type \in {"Unknown", "RsGhost"}
    <3>1. ServerFits(td, sd)
      BY <2>a, <1>4 DEF ServerFits, ReplicaSetTypes
    <3>2. \A a \in Known(td) : ServerFits(td, td.servers[a])
      BY <3>1, <1>0 DEF OthersFit
    <3>3. Fits(RecordPrimaryState(td))
      BY <3>2, <2>0, <2>1, <2>a, <1>0, RecordFits
    <3> QED
      BY <3>3, <2>a, <1>4 DEF UpdateByType, UpdateReplicaSetWithPrimaryTopology, MemberTypes
  <2>b. CASE sd.type \in {"Standalone", "Mongos"}
    <3>1. Fits(RecordPrimaryState(Remove(td, {address})))
      BY <2>0, <1>0, <1>4, DropStored
    <3> QED
      BY <3>1, <2>b, <1>4 DEF UpdateByType, UpdateReplicaSetWithPrimaryTopology, MemberTypes
  <2>c. CASE sd.type = "RsPrimary"
    <3>1. Fits(UpdateRsFromPrimaryServer(td, address, sd))
      BY <2>0, <2>c, <1>4, FromPrimaryFits
    <3> QED
      BY <3>1, <2>c, <1>4 DEF UpdateByType, UpdateReplicaSetWithPrimaryTopology, MemberTypes
  <2>d. CASE sd.type \in MemberTypes
    <3>1. Fits(UpdateRsWithPrimaryFromMember(td, address, sd))
      BY <2>1, <2>d, <1>4, FromMemberFits DEF MemberTypes
    <3> QED
      BY <3>1, <2>d, <1>4 DEF UpdateByType, UpdateReplicaSetWithPrimaryTopology, MemberTypes
  <2> QED
    BY <2>a, <2>b, <2>c, <2>d DEF WellFormedReply, ServerTypes, MemberTypes
<1>5. CASE td.type \in {"Single", "LoadBalanced"}
  <2>1. UpdateByType(td, address, sd) = td
    BY <1>5 DEF UpdateByType
  <2> QED
    BY <2>1, <1>0, <1>5 DEF Fits, ServerFits, ReplicaSetTypes
<1> QED
  BY <1>0, <1>1, <1>2, <1>3, <1>4, <1>5 DEF Shape, TopologyTypes, ReplicaSetTypes

\* What the functions do to the name and to what is remembered of elections:
\* u is the description after, td before, sd what was stored.
Renamed(u, td, sd) == u.setName = IF td.setName = None THEN sd.setName ELSE td.setName

SameElections(u, td) ==
    u.maxSetVersion = td.maxSetVersion /\ u.maxElectionId = td.maxElectionId

Forward(u, td) ==
    NotOlder(td.maxSetVersion, td.maxElectionId, u.maxSetVersion, u.maxElectionId)

ElectionTypes(td) ==
    td.maxSetVersion \in Int \cup {None} /\ td.maxElectionId \in Nat \cup {None}

\* The effect of a member's answer without a primary.
LEMMA WithoutPrimaryEffect ==
    ASSUME NEW td, NEW address, NEW sd, Shape(td)
    PROVE  LET u == UpdateRsWithoutPrimaryServer(td, address, sd)
           IN u.type = td.type /\ Renamed(u, td, sd) /\ SameElections(u, td)
<1> DEFINE name == IF td.setName = None THEN sd.setName ELSE td.setName
           named == [td EXCEPT !.setName = name]
           joined == AddNewServers(named, sd.hosts)
           u == UpdateRsWithoutPrimaryServer(td, address, sd)
<1>1. Shape(named) /\ named.type = td.type /\ named.setName = name /\ SameElections(named, td)
  BY SMT DEF Shape, SameElections
<1>2. u = IF named.setName # sd.setName THEN Remove(td, {address})
          ELSE IF sd.hosts = Garbled THEN named
          ELSE IF sd.me # Garbled /\ InvalidMe(address, sd) THEN Remove(joined, {address})
          ELSE joined
  BY DEF UpdateRsWithoutPrimaryServer
<1> HIDE DEF named, u
<1>3. Shape(joined) /\ joined.type = td.type /\ joined.setName = name /\ SameElections(joined, td)
  BY SMT, <1>1, AddCore DEF SameElections
<1> HIDE DEF joined
<1>4. /\ Remove(joined, {address}).type = td.type /\ Remove(joined, {address}).setName = name
      /\ SameElections(Remove(joined, {address}), td)
  BY SMT, <1>3, RemoveCore DEF SameElections
<1>5. /\ Remove(td, {address}).type = td.type /\ Remove(td, {address}).setName = td.setName
      /\ SameElections(Remove(td, {address}), td)
  BY RemoveCore DEF SameElections
<1>6. u.type = td.type /\ Renamed(u, td, sd) /\ SameElections(u, td)
  BY <1>1, <1>2, <1>3, <1>4, <1>5 DEF Renamed
<1> QED
  BY <1>6 DEF u

\* The effect of recording the primary state, with or without a removal.
LEMMA RecordEffect ==
    ASSUME NEW td, NEW gone, Shape(td)
    PROVE  /\ LET u == RecordPrimaryState(Remove(td, gone))
              IN IsReplicaSet(u) /\ u.setName = td.setName /\ SameElections(u, td)
           /\ LET u == RecordPrimaryState(td)
              IN IsReplicaSet(u) /\ u.setName = td.setName /\ SameElections(u, td)
<1>1. ASSUME NEW v, Shape(v)
      PROVE  LET u == RecordPrimaryState(v)
             IN IsReplicaSet(u) /\ u.setName = v.setName /\ SameElections(u, v)
  BY <1>1, RecordCore DEF IsReplicaSet, ReplicaSetTypes, SameElections
<1>2. LET r == Remove(td, gone) IN Shape(r) /\ r.setName = td.setName /\ SameElections(r, td)
  BY RemoveCore DEF SameElections
<1> QED
  BY <1>1, <1>2 DEF SameElections

\* The effect of a primary's answer.
LEMMA FromPrimaryEffect ==
    ASSUME NEW td, NEW address \in Known(td), NEW sd, Shape(td), IsReplicaSet(td)
    PROVE  LET u == UpdateRsFromPrimaryServer(td, address, sd)
           IN /\ IsReplicaSet(u) /\ Renamed(u, td, sd)
              /\ \/ SameElections(u, td)
                 \/ ~StalePrimary(td, sd) /\ SameElections(u, RecordElection(td, sd))
<1> DEFINE name == IF td.setName = None THEN sd.setName ELSE td.setName
           named == [td EXCEPT !.setName = name]
           elected == RecordElection(named, sd)
           only == InvalidateOtherPrimaries(elected, address)
           stale == Replace(named, address, NewServer)
           trimmed == Remove(AddNewServers(only, sd.hosts), Known(td) \ sd.hosts)
           u == UpdateRsFromPrimaryServer(td, address, sd)
<1>1. /\ Shape(named) /\ named.type = td.type /\ named.setName = name
      /\ SameElections(named, td) /\ address \in Known(named)
  BY SMT DEF Shape, SameElections, Known
<1>2. u = IF named.setName # sd.setName THEN RecordPrimaryState(Remove(td, {address}))
          ELSE IF StalePrimary(td, sd) THEN RecordPrimaryState(stale)
          ELSE IF sd.hosts = Garbled THEN only
          ELSE RecordPrimaryState(trimmed)
  BY DEF UpdateRsFromPrimaryServer
<1> HIDE DEF named, u
<1>3. /\ Shape(elected) /\ elected.type = td.type /\ elected.setName = name
      /\ SameElections(elected, RecordElection(td, sd))
  BY SMT, <1>1, ElectionCore DEF SameElections
<1> HIDE DEF elected
<1>4. /\ Shape(only) /\ only.type = td.type /\ only.setName = name
      /\ SameElections(only, RecordElection(td, sd))
  <2>1. /\ Shape(only) /\ only.type = elected.type /\ only.setName = elected.setName
        /\ SameElections(only, elected)
    BY SMT, <1>3 DEF Shape, InvalidateOtherPrimaries, SameElections
  <2> HIDE DEF only
  <2> QED
    BY <2>1, <1>3 DEF SameElections
<1>5. Shape(stale) /\ stale.setName = name /\ SameElections(stale, td)
  BY SMT, <1>1, ReplaceCore DEF SameElections
<1> HIDE DEF only, stale
<1>6. Shape(trimmed) /\ trimmed.setName = name /\ SameElections(trimmed, RecordElection(td, sd))
  <2>1. LET j == AddNewServers(only, sd.hosts)
        IN Shape(j) /\ j.setName = name /\ SameElections(j, RecordElection(td, sd))
    BY SMT, <1>4, AddCore DEF SameElections
  <2> QED
    BY SMT, <2>1, RemoveCore DEF SameElections
<1> HIDE DEF trimmed
<1>7. CASE named.setName # sd.setName
  BY SMT, <1>1, <1>2, <1>7, RecordEffect DEF Renamed, u
<1>8. CASE named.setName = sd.setName /\ StalePrimary(td, sd)
  BY <1>2, <1>5, <1>8, RecordEffect DEF Renamed, SameElections, u
<1>9. CASE named.setName = sd.setName /\ ~StalePrimary(td, sd)
  <2>1. \/ u = only
        \/ u = RecordPrimaryState(trimmed)
    BY <1>2, <1>9
  <2>2. CASE u = only
    BY <2>2, <1>4, <1>9 DEF Renamed, IsReplicaSet, u
  <2>3. CASE u = RecordPrimaryState(trimmed)
    BY SMT, <2>3, <1>6, <1>9, RecordEffect DEF Renamed, SameElections, u
  <2> QED
    BY <2>1, <2>2, <2>3
<1> QED
  BY <1>7, <1>8, <1>9

\* RecordElection moves forward unless the primary is stale.
LEMMA ElectionStep ==
    ASSUME NEW td, NEW sd, NEW u, Shape(td), ElectionTypes(td),
           sd.setVersion \in Int \cup {None}, sd.electionId \in Nat \cup {None},
           ~StalePrimary(td, sd),
           u.maxElectionId = IF None \notin {sd.setVersion, sd.electionId}
                             THEN sd.electionId ELSE td.maxElectionId,
           u.maxSetVersion = IF /\ sd.setVersion # None
                                /\ td.maxSetVersion = None \/ sd.setVersion > td.maxSetVersion
                             THEN sd.setVersion ELSE td.maxSetVersion
    PROVE  Forward(u, td) /\ ElectionTypes(u)
<1>1. CASE sd.setVersion = None
  BY SMT, <1>1 DEF Forward, NotOlder, ElectionTypes
<1>2. CASE sd.setVersion # None /\ td.maxSetVersion = None
  BY <1>2 DEF Forward, NotOlder, ElectionTypes
<1>3. CASE sd.setVersion # None /\ td.maxSetVersion # None
  <2>0. sd.setVersion \in Int /\ td.maxSetVersion \in Int
    BY <1>3 DEF ElectionTypes
  <2>1. CASE sd.electionId = None
    BY SMT, <2>0, <2>1, <1>3 DEF Forward, NotOlder, ElectionTypes
  <2>2. CASE sd.electionId # None /\ td.maxElectionId = None
    BY <2>0, <2>2, <1>3 DEF Forward, NotOlder, ElectionTypes
  <2>3. CASE sd.electionId # None /\ td.maxElectionId # None
    BY SMT, <2>0, <2>3, <1>3 DEF Forward, NotOlder, ElectionTypes, StalePrimary
  <2> QED
    BY <2>1, <2>2, <2>3
<1> QED
  BY <1>1, <1>2, <1>3

\* The effect of the transitions of each topology type.
LEMMA ByTypeEffect ==
    ASSUME NEW td, NEW address \in Known(td), NEW sd, Shape(td), ElectionTypes(td),
           sd.setVersion \in Int \cup {None}, sd.electionId \in Nat \cup {None},
           WellFormedReply(sd), NamedSet(td)
    PROVE  LET u == UpdateByType(td, address, sd)
           IN /\ td.type \in {"Single", "Sharded", "LoadBalanced"} => u.type = td.type
              /\ IsReplicaSet(td) => IsReplicaSet(u) /\ u.setName = td.setName
              /\ NamedSet(u) /\ Forward(u, td) /\ ElectionTypes(u)
<1> DEFINE u == UpdateByType(td, address, sd)
<1>0. ASSUME NEW v, SameElections(v, td)
      PROVE  Forward(v, td) /\ ElectionTypes(v)
  BY SMT, <1>0 DEF SameElections, Forward, ElectionTypes, NotOlder
<1>1. ASSUME NEW t \in ReplicaSetTypes
      PROVE  LET v == [td EXCEPT !.type = t]
             IN /\ Shape(v) /\ IsReplicaSet(v) /\ v.type = t /\ v.setName = td.setName
                /\ SameElections(v, td) /\ Known(v) = Known(td)
  BY SMT, <1>1, RetypeCore DEF TopologyTypes, SameElections, Known, IsReplicaSet
<1>2. ASSUME NEW v, Shape(v), IsReplicaSet(v), v.setName = td.setName, SameElections(v, td),
             Known(v) = Known(td), sd.type = "RsPrimary"
      PROVE  LET w == UpdateRsFromPrimaryServer(v, address, sd)
             IN IsReplicaSet(w) /\ Renamed(w, td, sd) /\ Forward(w, td) /\ ElectionTypes(w)
  <2> DEFINE w == UpdateRsFromPrimaryServer(v, address, sd)
  <2>1. /\ IsReplicaSet(w) /\ Renamed(w, v, sd)
        /\ SameElections(w, v) \/ (~StalePrimary(v, sd) /\ SameElections(w, RecordElection(v, sd)))
    BY <1>2, FromPrimaryEffect
  <2> HIDE DEF w
  <2>2. CASE SameElections(w, v)
    BY <2>1, <2>2, <1>0, <1>2 DEF SameElections, Renamed, w
  <2>3. CASE ~StalePrimary(v, sd) /\ SameElections(w, RecordElection(v, sd))
    <3>1. ElectionTypes(v)
      BY <1>2 DEF ElectionTypes, SameElections
    <3>2. Forward(w, v) /\ ElectionTypes(w)
      BY SMT, <3>1, <2>3, <1>2, ElectionCore, ElectionStep DEF SameElections
    <3> QED
      BY <3>2, <2>1, <1>2 DEF SameElections, Renamed, Forward, w
  <2> QED
    BY <2>1, <2>2, <2>3
<1>3. ASSUME NEW v, Shape(v), v.type = "ReplicaSetNoPrimary", v.setName = td.setName,
             SameElections(v, td)
      PROVE  LET w == UpdateRsWithoutPrimaryServer(v, address, sd)
             IN IsReplicaSet(w) /\ Renamed(w, td, sd) /\ SameElections(w, td)
  BY SMT, <1>3, WithoutPrimaryEffect DEF IsReplicaSet, ReplicaSetTypes, Renamed, SameElections
<1>4. LET w == Remove(td, {address})
      IN w.type = td.type /\ w.setName = td.setName /\ SameElections(w, td)
  BY RemoveCore DEF SameElections
<1>5. /\ LET w == RecordPrimaryState(Remove(td, {address}))
         IN IsReplicaSet(w) /\ w.setName = td.setName /\ SameElections(w, td)
      /\ LET w == RecordPrimaryState(td)
         IN IsReplicaSet(w) /\ w.setName = td.setName /\ SameElections(w, td)
  BY RecordEffect
<1>6. SameElections(td, td)
  BY DEF SameElections
<1>a. CASE td.type = "Unknown"
  <2>0. td.setName = None
    BY <1>a DEF NamedSet
  <2>1. CASE sd.type = "Standalone"
    <3>1. LET v == [td EXCEPT !.type = "Single"]
          IN v.type = "Single" /\ SameElections(v, td)
      BY SMT, RetypeCore DEF TopologyTypes, SameElections
    <3>2. \/ u = [td EXCEPT !.type = "Single"]
          \/ u = Remove(td, {address})
      BY <1>a, <2>1 DEF UpdateByType, UpdateUnknownTopology,
                        UpdateUnknownWithStandaloneServer, MemberTypes
    <3> HIDE DEF u
    <3>3. \/ u.type = "Single" /\ SameElections(u, td)
          \/ u.type = "Unknown" /\ u.setName = None /\ SameElections(u, td)
      BY Zenon, <3>1, <3>2, <1>4, <1>a, <2>0
    <3>4. Forward(u, td) /\ ElectionTypes(u)
      BY <3>3, <1>0
    <3>5. NamedSet(u)
      BY <3>3 DEF NamedSet, IsReplicaSet, ReplicaSetTypes
    <3> QED
      BY <3>4, <3>5, <1>a DEF u, IsReplicaSet, ReplicaSetTypes
  <2>2. CASE sd.type = "Mongos"
    <3>1. LET v == [td EXCEPT !.type = "Sharded"]
          IN v.type = "Sharded" /\ SameElections(v, td)
      BY SMT, RetypeCore DEF TopologyTypes, SameElections
    <3>2. u = [td EXCEPT !.type = "Sharded"]
      BY <1>a, <2>2 DEF UpdateByType, UpdateUnknownTopology, MemberTypes
    <3>3. u.type = "Sharded" /\ SameElections(u, td)
      BY <3>1, <3>2
    <3> HIDE DEF u
    <3>4. Forward(u, td) /\ ElectionTypes(u) /\ NamedSet(u)
      BY <3>3, <1>0 DEF NamedSet, IsReplicaSet, ReplicaSetTypes
    <3> QED
      BY <3>4, <1>a DEF u, IsReplicaSet, ReplicaSetTypes
  <2>3. CASE sd.type = "RsPrimary"
    <3> DEFINE v == [td EXCEPT !.type = "ReplicaSetWithPrimary"]
    <3>1. u = UpdateRsFromPrimaryServer(v, address, sd)
      BY <1>a, <2>3 DEF UpdateByType, UpdateUnknownTopology, MemberTypes
    <3>2. /\ Shape(v) /\ IsReplicaSet(v) /\ v.setName = td.setName
          /\ SameElections(v, td) /\ Known(v) = Known(td)
      BY <1>1 DEF ReplicaSetTypes
    <3> HIDE DEF v, u
    <3>3. IsReplicaSet(u) /\ Renamed(u, td, sd) /\ Forward(u, td) /\ ElectionTypes(u)
      BY <3>1, <3>2, <2>3, <1>2
    <3>4. NamedSet(u)
      BY <3>3, <2>0, <2>3 DEF NamedSet, Renamed, WellFormedReply, IsReplicaSet, ReplicaSetTypes
    <3> QED
      BY <3>3, <3>4, <1>a DEF u, IsReplicaSet, ReplicaSetTypes
  <2>4. CASE sd.type \in MemberTypes
    <3> DEFINE v == [td EXCEPT !.type = "ReplicaSetNoPrimary"]
    <3>1. u = UpdateRsWithoutPrimaryServer(v, address, sd)
      BY <1>a, <2>4 DEF UpdateByType, UpdateUnknownTopology, MemberTypes
    <3>2. /\ Shape(v) /\ v.type = "ReplicaSetNoPrimary" /\ v.setName = td.setName
          /\ SameElections(v, td)
      BY <1>1 DEF ReplicaSetTypes
    <3> HIDE DEF v, u
    <3>3. IsReplicaSet(u) /\ Renamed(u, td, sd) /\ SameElections(u, td)
      BY <3>1, <3>2, <1>3
    <3>4. Forward(u, td) /\ ElectionTypes(u)
      BY <3>3, <1>0
    <3>5. NamedSet(u)
      BY <3>3, <2>0, <2>4 DEF NamedSet, Renamed, WellFormedReply, IsReplicaSet, ReplicaSetTypes
    <3> QED
      BY <3>4, <3>5, <1>a DEF u, IsReplicaSet, ReplicaSetTypes
  <2>5. CASE sd.type \in {"Unknown", "RsGhost"}
    <3>1. u = td
      BY <1>a, <2>5 DEF UpdateByType, UpdateUnknownTopology, MemberTypes
    <3> QED
      BY <3>1, <1>0, <1>6, <1>a
  <2> QED
    BY <2>1, <2>2, <2>3, <2>4, <2>5 DEF WellFormedReply, ServerTypes, MemberTypes
<1>b. CASE td.type = "Sharded"
  <2>1. u.type = "Sharded" /\ SameElections(u, td)
    BY <1>b, <1>4, <1>6 DEF UpdateByType, UpdateShardedTopology
  <2> HIDE DEF u
  <2>2. Forward(u, td) /\ ElectionTypes(u) /\ NamedSet(u)
    BY <2>1, <1>0 DEF NamedSet, IsReplicaSet, ReplicaSetTypes
  <2> QED
    BY <2>1, <2>2, <1>b DEF u, IsReplicaSet, ReplicaSetTypes
<1>c. CASE td.type = "ReplicaSetNoPrimary"
  <2>0. IsReplicaSet(td) /\ td.setName # None
    BY <1>c DEF NamedSet, IsReplicaSet, ReplicaSetTypes
  <2>1. CASE sd.type = "RsPrimary"
    <3> DEFINE v == [td EXCEPT !.type = "ReplicaSetWithPrimary"]
    <3>1. u = UpdateRsFromPrimaryServer(v, address, sd)
      BY <1>c, <2>1 DEF UpdateByType, UpdateReplicaSetNoPrimaryTopology, MemberTypes
    <3>2. /\ Shape(v) /\ IsReplicaSet(v) /\ v.setName = td.setName
          /\ SameElections(v, td) /\ Known(v) = Known(td)
      BY <1>1 DEF ReplicaSetTypes
    <3> HIDE DEF v, u
    <3>3. IsReplicaSet(u) /\ Renamed(u, td, sd) /\ Forward(u, td) /\ ElectionTypes(u)
      BY <3>1, <3>2, <2>1, <1>2
    <3>4. NamedSet(u) /\ u.setName = td.setName
      BY <3>3, <2>0 DEF NamedSet, Renamed, IsReplicaSet, ReplicaSetTypes
    <3> QED
      BY <3>3, <3>4, <1>c DEF u
  <2>2. CASE sd.type # "RsPrimary"
    <3>1. IsReplicaSet(u) /\ u.setName = td.setName /\ SameElections(u, td)
      <4>1. CASE sd.type \in {"Standalone", "Mongos"}
        BY <4>1, <1>c, <1>4, <2>0
           DEF UpdateByType, UpdateReplicaSetNoPrimaryTopology, MemberTypes, IsReplicaSet
      <4>2. CASE sd.type \in MemberTypes
        <5>1. u = UpdateRsWithoutPrimaryServer(td, address, sd)
          BY <4>2, <1>c DEF UpdateByType, UpdateReplicaSetNoPrimaryTopology, MemberTypes
        <5> HIDE DEF u
        <5> QED
          BY <5>1, <1>c, <1>3, <1>6, <2>0 DEF Renamed, u
      <4>3. CASE sd.type \in {"Unknown", "RsGhost"}
        BY <4>3, <1>c, <1>6, <2>0
           DEF UpdateByType, UpdateReplicaSetNoPrimaryTopology, MemberTypes
      <4> QED
        BY <4>1, <4>2, <4>3, <2>2 DEF WellFormedReply, ServerTypes, MemberTypes
    <3> HIDE DEF u
    <3>2. Forward(u, td) /\ ElectionTypes(u)
      BY <3>1, <1>0
    <3>3. NamedSet(u)
      BY <3>1, <2>0 DEF NamedSet, IsReplicaSet, ReplicaSetTypes
    <3> QED
      BY <3>1, <3>2, <3>3, <1>c DEF u
  <2> QED
    BY <2>1, <2>2
<1>d. CASE td.type = "ReplicaSetWithPrimary"
  <2>0. IsReplicaSet(td) /\ td.setName # None
    BY <1>d DEF NamedSet, IsReplicaSet, ReplicaSetTypes
  <2>1. CASE sd.type = "RsPrimary"
    <3>1. u = UpdateRsFromPrimaryServer(td, address, sd)
      BY <1>d, <2>1 DEF UpdateByType, UpdateReplicaSetWithPrimaryTopology, MemberTypes
    <3> HIDE DEF u
    <3>2. IsReplicaSet(u) /\ Renamed(u, td, sd) /\ Forward(u, td) /\ ElectionTypes(u)
      BY <3>1, <2>0, <2>1, <1>2, <1>6
    <3>3. NamedSet(u) /\ u.setName = td.setName
      BY <3>2, <2>0 DEF NamedSet, Renamed, IsReplicaSet, ReplicaSetTypes
    <3> QED
      BY <3>2, <3>3, <1>d DEF u
  <2>2. CASE sd.type # "RsPrimary"
    <3>1. IsReplicaSet(u) /\ u.setName = td.setName /\ SameElections(u, td)
      <4>1. \/ u = td
            \/ u = RecordPrimaryState(td)
            \/ u = RecordPrimaryState(Remove(td, {address}))
        BY <1>d, <2>2 DEF UpdateByType, UpdateReplicaSetWithPrimaryTopology,
                          UpdateRsWithPrimaryFromMember, MemberTypes
      <4> HIDE DEF u
      <4> QED
        BY <4>1, <1>5, <1>6, <2>0 DEF u
    <3> HIDE DEF u
    <3>2. Forward(u, td) /\ ElectionTypes(u)
      BY <3>1, <1>0
    <3>3. NamedSet(u)
      BY <3>1, <2>0 DEF NamedSet, IsReplicaSet, ReplicaSetTypes
    <3> QED
      BY <3>1, <3>2, <3>3, <1>d DEF u
  <2> QED
    BY <2>1, <2>2
<1>e. CASE td.type \in {"Single", "LoadBalanced"}
  <2>1. u = td
    BY <1>e DEF UpdateByType
  <2> QED
    BY <2>1, <1>0, <1>6, <1>e
<1> QED
  BY <1>a, <1>b, <1>c, <1>d, <1>e DEF Shape, TopologyTypes, ReplicaSetTypes

-----------------------------------------------------------------------------
(* The invariant of the state machine.                                     *)

TdInv(td) == Fits(td) /\ NamedSet(td) /\ ElectionTypes(td)

\* What a step may do to a description.
TdStep(td, u) ==
    /\ td.type \in {"Single", "Sharded", "LoadBalanced"} => u.type = td.type
    /\ IsReplicaSet(td) => IsReplicaSet(u) /\ u.setName = td.setName
    /\ Forward(u, td)

\* A description with the same core.
LEMMA SameCoreStep ==
    ASSUME NEW td, NEW u, TdInv(td), Shape(u), SameCore(u, td)
    PROVE  TdInv(u) /\ TdStep(td, u)
<1>1. Known(u) = Known(td) /\ u.servers = td.servers
  BY DEF SameCore, Known
<1>2. Primaries(u) = Primaries(td)
  BY <1>1 DEF Primaries
<1>3. \A a \in Known(u) : ServerFits(u, u.servers[a])
  BY <1>1, FitsByType DEF TdInv, Fits, SameCore
<1>4. Fits(u)
  BY <1>2, <1>3 DEF Fits, TdInv, SameCore, AtMostOnePrimary
<1>5. NamedSet(u) /\ ElectionTypes(u)
  BY DEF TdInv, NamedSet, ElectionTypes, SameCore, IsReplicaSet
<1>6. TdStep(td, u)
  BY SMT DEF TdInv, TdStep, SameCore, IsReplicaSet, Forward, NotOlder, ElectionTypes
<1> QED
  BY <1>4, <1>5, <1>6 DEF TdInv

\* update, on any reply or error.
LEMMA UpdateStep ==
    ASSUME NEW td, NEW address, NEW sd, TdInv(td), WellFormedReply(sd),
           sd.setVersion \in Int \cup {None}, sd.electionId \in Nat \cup {None},
           td.type # "LoadBalanced"
    PROVE  TdInv(Update(td, address, sd)) /\ TdStep(td, Update(td, address, sd))
<1> DEFINE accepted == IF WrongSetName(td, sd) THEN NewServer ELSE sd
           summed == UpdateSummaries(Replace(td, address, accepted), accepted)
           typed == UpdateByType(summed, address, accepted)
           u == Update(td, address, sd)
<1>1. TdStep(td, td)
  BY SMT DEF TdStep, TdInv, Forward, NotOlder, ElectionTypes
<1>2. CASE address \notin Known(td)
  <2>1. u = td
    BY <1>2 DEF Update
  <2> QED
    BY <2>1, <1>1
<1>3. CASE address \in Known(td)
  <2>1. /\ WellFormedReply(accepted)
        /\ accepted.setVersion \in Int \cup {None} /\ accepted.electionId \in Nat \cup {None}
    BY DEF WellFormedReply, NewServer, UnknownServer, ServerTypes, MemberTypes
  <2>2. u = td \/ u = typed \/ u = CheckCompatibility(typed)
    BY <1>3 DEF Update
  <2> HIDE DEF accepted, u
  <2>3. /\ Stored(summed, address, accepted)
        /\ summed.type = td.type /\ summed.setName = td.setName /\ SameElections(summed, td)
        /\ Primaries(summed) \ {address} = Primaries(td) \ {address}
    BY SMT, <1>3, StoreFits DEF TdInv, SameElections
  <2> HIDE DEF summed
  <2>4. NamedSet(summed) /\ ElectionTypes(summed) /\ Shape(summed) /\ address \in Known(summed)
    BY <2>3 DEF TdInv, NamedSet, ElectionTypes, SameElections, IsReplicaSet, Stored
  <2>5. /\ summed.type = "ReplicaSetNoPrimary" => Primaries(summed) \ {address} = {}
        /\ summed.type = "ReplicaSetWithPrimary" =>
               \A a, b \in Primaries(summed) \ {address} : a = b
    BY <2>3 DEF TdInv, Fits, AtMostOnePrimary
  <2>6. Fits(typed)
    BY <2>1, <2>3, <2>4, <2>5, ByTypeFits
  <2>7. /\ summed.type \in {"Single", "Sharded", "LoadBalanced"} => typed.type = summed.type
        /\ IsReplicaSet(summed) => IsReplicaSet(typed) /\ typed.setName = summed.setName
        /\ NamedSet(typed) /\ Forward(typed, summed) /\ ElectionTypes(typed)
    BY <2>1, <2>4, ByTypeEffect
  <2> HIDE DEF typed
  <2>8. TdInv(typed) /\ TdStep(td, typed)
    BY <2>3, <2>6, <2>7 DEF TdInv, TdStep, SameElections, Forward, IsReplicaSet
  <2>9. LET c == CheckCompatibility(typed) IN Shape(c) /\ SameCore(c, typed)
    BY <2>6, CompatibilityKeepsCore DEF Fits
  <2>10. LET c == CheckCompatibility(typed) IN TdInv(c) /\ TdStep(td, c)
    <3> DEFINE c == CheckCompatibility(typed)
    <3>1. Shape(c) /\ SameCore(c, typed)
      BY <2>9
    <3> HIDE DEF c
    <3>2. TdInv(c)
      BY <3>1, <2>8, SameCoreStep
    <3>3. TdStep(td, c)
      BY <3>1, <2>8 DEF TdStep, SameCore, IsReplicaSet, Forward
    <3> QED
      BY <3>2, <3>3 DEF c
  <2> QED
    BY <2>2, <2>8, <2>10, <1>1 DEF u
<1> QED
  BY <1>2, <1>3

\* sync_hosts.
LEMMA SyncStep ==
    ASSUME NEW td, NEW hosts, NEW u \in SyncHosts(td, hosts), TdInv(td)
    PROVE  TdInv(u) /\ TdStep(td, u)
<1> DEFINE kept == Remove(td, Known(td) \ hosts)
<1>1. PICK c : u = AddNewServers(kept, c)
  BY DEF SyncHosts
<1>2. Fits(kept) /\ Shape(kept) /\ kept.type = td.type /\ kept.setName = td.setName
      /\ SameElections(kept, td)
  BY RemoveFits, RemoveCore DEF TdInv, Fits, SameElections
<1> HIDE DEF kept
<1>3. Fits(u) /\ u.type = td.type /\ u.setName = td.setName /\ SameElections(u, td)
  BY SMT, <1>1, <1>2, AddFits, AddCore DEF SameElections
<1>4. NamedSet(u) /\ ElectionTypes(u)
  BY <1>3 DEF TdInv, NamedSet, ElectionTypes, SameElections, IsReplicaSet
<1>5. TdStep(td, u)
  BY SMT, <1>3 DEF TdInv, TdStep, SameElections, IsReplicaSet, Forward, NotOlder, ElectionTypes
<1> QED
  BY <1>3, <1>4, <1>5 DEF TdInv

\* The first description.
LEMMA InitInv ==
    Init => TdInv(description)
<1> SUFFICES ASSUME Init PROVE TdInv(description)
  OBVIOUS
<1>1. PICK o \in Options :
        description = IF o.loadBalanced
                      THEN Update(Initialize(o), CHOOSE a \in o.hosts : TRUE, LoadBalancerServer)
                      ELSE Initialize(o)
  BY Zenon DEF Init
<1> DEFINE start == Initialize(o)
<1>2. /\ o \in [hosts : SUBSET Addresses, setName : {None} \cup STRING,
                direct : BOOLEAN, loadBalanced : BOOLEAN]
      /\ o.loadBalanced => ~o.direct /\ o.setName = None /\ \E a \in Addresses : o.hosts = {a}
  BY OptionsAssumption
<1>3. /\ Shape(start)
      /\ start.setName = o.setName
      /\ start.maxSetVersion = None /\ start.maxElectionId = None
      /\ Known(start) = o.hosts
      /\ \A a \in Known(start) : start.servers[a] = NewServer
  BY <1>2 DEF Initialize, Shape, Known, TopologyTypes, ReplicaSetTypes
<1>4. /\ start.type \in {"Single", "LoadBalanced", "ReplicaSetNoPrimary", "Unknown"}
      /\ start.type = "ReplicaSetNoPrimary" => o.setName # None
      /\ start.type = "Unknown" => o.setName = None
      /\ o.loadBalanced => start.type = "LoadBalanced"
  BY <1>2 DEF Initialize
<1> HIDE DEF start
<1>5. Primaries(start) = {} /\ \A a \in Known(start) : ServerFits(start, start.servers[a])
  BY <1>3, NewFits DEF Primaries, Shape
<1>6. TdInv(start)
  BY <1>3, <1>4, <1>5 DEF TdInv, Fits, NamedSet, ElectionTypes, IsReplicaSet, ReplicaSetTypes
<1>7. CASE ~o.loadBalanced
  BY <1>1, <1>6, <1>7 DEF start
<1>8. CASE o.loadBalanced
  <2> DEFINE host == CHOOSE a \in o.hosts : TRUE
  <2>1. host \in Known(start)
    BY <1>2, <1>3, <1>8
  <2>2. description = Replace(start, host, LoadBalancerServer)
    <3>1. ~WrongSetName(start, LoadBalancerServer)
      BY <1>4, <1>8 DEF WrongSetName
    <3>2. ~Outdated(LoadBalancerServer, start.servers[host])
      BY SMT, <2>1, <1>3 DEF Outdated, NewServer, UnknownServer
    <3> QED
      BY <3>1, <3>2, <2>1, <1>1, <1>4, <1>8 DEF Update, start
  <2> HIDE DEF host
  <2>3. /\ Shape(description) /\ description.type = "LoadBalanced"
        /\ SameElections(description, start)
    BY SMT, <2>1, <2>2, <1>3, <1>4, <1>8, ReplaceCore DEF SameElections
  <2> QED
    BY <2>3, <1>3 DEF TdInv, Fits, NamedSet, ElectionTypes, SameElections,
                     ServerFits, IsReplicaSet, ReplicaSetTypes
<1> QED
  BY <1>7, <1>8

\* Every step keeps the invariant and does only what TdStep allows.
LEMMA NextStep ==
    ASSUME TdInv(description), [Next]_vars
    PROVE  TdInv(description') /\ TdStep(description, description')
<1>0. TdStep(description, description)
  BY SMT DEF TdInv, TdStep, Forward, NotOlder, ElectionTypes
<1>1. ASSUME NEW a \in Addresses, NEW r \in Replies, ServerUpdate(a, r)
      PROVE  TdInv(description') /\ TdStep(description, description')
  <2>1. /\ WellFormedReply(r)
        /\ r.setVersion \in Int \cup {None} /\ r.electionId \in Nat \cup {None}
    BY RepliesAssumption DEF ServerDescriptions
  <2> QED
    BY <2>1, <1>1, UpdateStep DEF ServerUpdate
<1>2. ASSUME NEW a \in Addresses, NEW v \in Versions, MarkServerAsUnknown(a, v)
      PROVE  TdInv(description') /\ TdStep(description, description')
  <2>1. LET sd == UnknownServer(v)
        IN /\ WellFormedReply(sd)
           /\ sd.setVersion \in Int \cup {None} /\ sd.electionId \in Nat \cup {None}
    BY DEF UnknownServer, WellFormedReply, ServerTypes, MemberTypes
  <2> QED
    BY <2>1, <1>2, UpdateStep DEF MarkServerAsUnknown
<1>3. ASSUME NEW t \in ClusterTimes, GossipClusterTime(t)
      PROVE  TdInv(description') /\ TdStep(description, description')
  <2>1. Shape(description') /\ SameCore(description', description)
    BY <1>3 DEF GossipClusterTime, AdvanceClusterTime, Shape, SameCore, TdInv, Fits
  <2> QED
    BY <2>1, SameCoreStep
<1>4. CASE StartLookup
  BY <1>0, <1>4 DEF StartLookup
<1>5. ASSUME NEW hosts \in Lookups, FinishLookup(hosts)
      PROVE  TdInv(description') /\ TdStep(description, description')
  BY <1>0, <1>5 DEF FinishLookup
<1>6. CASE ReceiveSyncHosts
  BY <1>6, SyncStep DEF ReceiveSyncHosts
<1>7. CASE UNCHANGED vars
  BY <1>0, <1>7 DEF vars
<1> QED
  BY <1>1, <1>2, <1>3, <1>4, <1>5, <1>6, <1>7 DEF Next

\* The servers stored in the description always agree with its type.
THEOREM DescriptionInvariant == Spec => []TdInv(description)
<1>1. TdInv(description) /\ [Next]_vars => TdInv(description)'
  BY NextStep
<1> QED
  BY InitInv, <1>1, PTL DEF Spec

\* A replica set never has two primaries.
THEOREM TopologyOnePrimary == Spec => []OnePrimary
<1>1. TdInv(description) => OnePrimary
  BY DEF TdInv, Fits, AtMostOnePrimary, OnePrimary, IsReplicaSet, ReplicaSetTypes
<1> QED
  BY DescriptionInvariant, <1>1, PTL

\* A replica set that has a primary is of the type that says so.
THEOREM TopologyPrimaryKnown == Spec => []PrimaryKnown
<1>1. TdInv(description) => PrimaryKnown
  BY DEF TdInv, Fits, PrimaryKnown
<1> QED
  BY DescriptionInvariant, <1>1, PTL

\* Every member of a replica set is of the set's name, and a sharded cluster
\* has no members of a replica set.
THEOREM TopologyMembersOfSet == Spec => []MembersOfSet
<1>1. TdInv(description) => MembersOfSet
  BY DEF TdInv, Fits, ServerFits, MembersOfSet, IsReplicaSet, ReplicaSetTypes
<1> QED
  BY DescriptionInvariant, <1>1, PTL

\* The type and the name of a topology, once known, stay.
THEOREM TopologyTypeIsFinal == Spec => TypeIsFinal
<1> DEFINE A == /\ description.type \in {"Single", "Sharded", "LoadBalanced"} =>
                     description'.type = description.type
                /\ IsReplicaSet(description) =>
                     /\ description'.type \in ReplicaSetTypes
                     /\ description.setName # None => description'.setName = description.setName
<1>1. TdInv(description) /\ [Next]_vars => [A]_vars
  BY NextStep DEF TdStep, IsReplicaSet
<1> QED
  BY DescriptionInvariant, <1>1, PTL DEF Spec, TypeIsFinal

\* The recorded set version and election id never go back.
THEOREM TopologyElectionsForward == Spec => ElectionsForward
<1> DEFINE A == NotOlder(description.maxSetVersion, description.maxElectionId,
                         description'.maxSetVersion, description'.maxElectionId)
<1>1. TdInv(description) /\ [Next]_vars => [A]_vars
  BY NextStep DEF TdStep, Forward
<1> QED
  BY DescriptionInvariant, <1>1, PTL DEF Spec, ElectionsForward
=============================================================================
