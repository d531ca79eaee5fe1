--------------------- MODULE TopologyDescription_servers ---------------------
(***************************************************************************)
(* More theorems about TopologyDescription: which servers an update keeps, *)
(* adds and removes, who is the primary, and what the description sums up  *)
(* of its servers.                                                         *)
(***************************************************************************)
EXTENDS TopologyDescription_proofs, FiniteSetTheorems

\* The default backend; a leaf that needs arithmetic or records names SMT.
USE Zenon

-----------------------------------------------------------------------------
(* Which servers an update leaves, adds and removes.                       *)

\* Every server of u is as in td, or new; new names are among the hosts.
Descends(u, td, hosts) ==
    /\ Shape(u)
    /\ u.sessionTimeout = td.sessionTimeout
    /\ Known(u) \subseteq Known(td) \cup hosts
    /\ \A a \in Known(u) :
          u.servers[a] = NewServer \/ (a \in Known(td) /\ u.servers[a] = td.servers[a])

\* Descends is reflexive and transitive.
LEMMA DescendsOrder ==
    ASSUME NEW td, NEW hosts, Shape(td)
    PROVE  /\ Descends(td, td, hosts)
           /\ \A u, w : Descends(u, td, hosts) /\ Descends(w, u, hosts) => Descends(w, td, hosts)
BY DEF Descends

\* Descends composes.
LEMMA DescendsTrans ==
    ASSUME NEW td, NEW u, NEW w, NEW hosts, Descends(u, td, hosts), Descends(w, u, hosts)
    PROVE  Descends(w, td, hosts)
BY DEF Descends

\* The operators that update is made of.
LEMMA DescendsBasics ==
    ASSUME NEW td, NEW hosts, Shape(td)
    PROVE  /\ \A gone : Descends(Remove(td, gone), td, hosts)
           /\ Descends(AddNewServers(td, hosts), td, hosts)
           /\ Descends(RecordPrimaryState(td), td, hosts)
           /\ \A a : Descends(InvalidateOtherPrimaries(td, a), td, hosts)
           /\ \A a : Descends(Replace(td, a, NewServer), td, hosts)
           /\ \A sd : Descends(RecordElection(td, sd), td, hosts)
           /\ \A name : Descends([td EXCEPT !.setName = name], td, hosts)
           /\ \A t \in TopologyTypes : Descends([td EXCEPT !.type = t], td, hosts)
<1>1. \A gone : Descends(Remove(td, gone), td, hosts)
  BY SMT DEF Shape, Descends, Remove, Known
<1>2. Descends(AddNewServers(td, hosts), td, hosts)
  BY SMT DEF Shape, Descends, AddNewServers, Known
<1>3. \A t \in TopologyTypes : Descends([td EXCEPT !.type = t], td, hosts)
  BY SMT DEF Shape, Descends, Known
<1>4. Descends(RecordPrimaryState(td), td, hosts)
  BY <1>3 DEF RecordPrimaryState, TopologyTypes, ReplicaSetTypes
<1>5. \A a : Descends(InvalidateOtherPrimaries(td, a), td, hosts)
  BY SMT DEF Shape, Descends, InvalidateOtherPrimaries, Known
<1>6. ASSUME NEW a
      PROVE  Descends(Replace(td, a, NewServer), td, hosts)
  <2> DEFINE servers == [td.servers EXCEPT ![a] = NewServer]
             u == [td EXCEPT !.servers = servers]
  <2>1. /\ servers = [b \in DOMAIN td.servers |-> servers[b]]
        /\ DOMAIN servers = DOMAIN td.servers
        /\ \A b \in DOMAIN td.servers : servers[b] = NewServer \/ servers[b] = td.servers[b]
    BY DEF Shape
  <2> HIDE DEF servers
  <2>2. Descends(u, td, hosts)
    BY SMT, <2>1 DEF Shape, Descends, Known
  <2> QED
    BY <2>2 DEF Replace, servers
<1>7. ASSUME NEW sd
      PROVE  Descends(RecordElection(td, sd), td, hosts)
  <2> DEFINE e == IF None \notin {sd.setVersion, sd.electionId} THEN sd.electionId
                  ELSE td.maxElectionId
             elected == [td EXCEPT !.maxElectionId = e]
             v == IF /\ sd.setVersion # None
                     /\ elected.maxSetVersion = None \/ sd.setVersion > elected.maxSetVersion
                  THEN sd.setVersion ELSE elected.maxSetVersion
             versioned == [elected EXCEPT !.maxSetVersion = v]
  <2>1. ASSUME NEW w, Shape(w), NEW x
        PROVE  /\ Descends([w EXCEPT !.maxElectionId = x], w, hosts)
               /\ Descends([w EXCEPT !.maxSetVersion = x], w, hosts)
    BY SMT, <2>1 DEF Shape, Descends, Known
  <2>2. RecordElection(td, sd) = versioned
    BY DEF RecordElection
  <2> HIDE DEF e, v
  <2>3. Descends(elected, td, hosts)
    BY <2>1
  <2> HIDE DEF elected
  <2>4. Descends(versioned, elected, hosts)
    <3>1. Shape(elected)
      BY <2>3 DEF Descends
    <3> QED
      BY <3>1, <2>1
  <2> HIDE DEF versioned
  <2> QED
    BY <2>2, <2>3, <2>4, DescendsTrans
<1>8. \A name : Descends([td EXCEPT !.setName = name], td, hosts)
  BY SMT DEF Shape, Descends, Known
<1> QED
  BY <1>1, <1>2, <1>3, <1>4, <1>5, <1>6, <1>7, <1>8

\* A primary's answer.
LEMMA FromPrimaryDescends ==
    ASSUME NEW td, NEW address, NEW sd, NEW hosts, Shape(td), sd.hosts \in {Garbled, hosts}
    PROVE  Descends(UpdateRsFromPrimaryServer(td, address, sd), td, hosts)
<1> DEFINE named == [td EXCEPT !.setName = IF @ = None THEN sd.setName ELSE @]
           elected == RecordElection(named, sd)
           only == InvalidateOtherPrimaries(elected, address)
           joined == AddNewServers(only, sd.hosts)
           trimmed == Remove(joined, Known(td) \ sd.hosts)
           u == UpdateRsFromPrimaryServer(td, address, sd)
<1>1. \/ u = RecordPrimaryState(Remove(td, {address}))
      \/ u = RecordPrimaryState(Replace(named, address, NewServer))
      \/ u = only
      \/ sd.hosts = hosts /\ u = RecordPrimaryState(trimmed)
  BY DEF UpdateRsFromPrimaryServer
<1>2. \A v, w : Shape(v) /\ Descends(w, v, hosts) => Shape(w)
  BY DEF Descends
<1>3. Shape(named) /\ Descends(named, td, hosts)
  BY <1>2, DescendsBasics
<1> HIDE DEF named
<1>4. Shape(elected) /\ Descends(elected, td, hosts)
  BY <1>2, <1>3, DescendsBasics, DescendsOrder
<1> HIDE DEF elected
<1>5. Shape(only) /\ Descends(only, td, hosts)
  BY <1>2, <1>4, DescendsBasics, DescendsOrder
<1> HIDE DEF only
<1>6. sd.hosts = hosts => Shape(joined) /\ Descends(joined, td, hosts)
  BY <1>2, <1>5, DescendsBasics, DescendsOrder
<1> HIDE DEF joined
<1>7. sd.hosts = hosts => Descends(RecordPrimaryState(trimmed), td, hosts)
  <2> SUFFICES ASSUME sd.hosts = hosts PROVE Descends(RecordPrimaryState(trimmed), td, hosts)
    OBVIOUS
  <2>1. Shape(trimmed) /\ Descends(trimmed, td, hosts)
    <3>1. Descends(trimmed, joined, hosts)
      BY <1>6, DescendsBasics
    <3> HIDE DEF trimmed
    <3> QED
      BY <3>1, <1>2, <1>6, DescendsTrans
  <2> HIDE DEF trimmed
  <2> QED
    BY <2>1, DescendsBasics, DescendsTrans
<1>8. Descends(RecordPrimaryState(Remove(td, {address})), td, hosts)
  BY <1>2, DescendsBasics, DescendsOrder
<1>9. Descends(RecordPrimaryState(Replace(named, address, NewServer)), td, hosts)
  BY <1>2, <1>3, DescendsBasics, DescendsOrder
<1> HIDE DEF u, trimmed
<1> QED
  BY <1>1, <1>5, <1>7, <1>8, <1>9 DEF u

\* A member's answer while there is no primary.
LEMMA WithoutPrimaryDescends ==
    ASSUME NEW td, NEW address, NEW sd, NEW hosts, Shape(td), sd.hosts \in {Garbled, hosts}
    PROVE  Descends(UpdateRsWithoutPrimaryServer(td, address, sd), td, hosts)
<1> DEFINE named == [td EXCEPT !.setName = IF @ = None THEN sd.setName ELSE @]
           joined == AddNewServers(named, sd.hosts)
           u == UpdateRsWithoutPrimaryServer(td, address, sd)
<1>1. \/ u = Remove(td, {address})
      \/ u = named
      \/ sd.hosts = hosts /\ u \in {joined, Remove(joined, {address})}
  BY DEF UpdateRsWithoutPrimaryServer
<1>2. \A v, w : Shape(v) /\ Descends(w, v, hosts) => Shape(w)
  BY DEF Descends
<1>3. Shape(named) /\ Descends(named, td, hosts)
  BY <1>2, DescendsBasics
<1> HIDE DEF named
<1>4. sd.hosts = hosts => Shape(joined) /\ Descends(joined, td, hosts)
  BY <1>2, <1>3, DescendsBasics, DescendsOrder
<1> HIDE DEF joined
<1>5. sd.hosts = hosts => Descends(Remove(joined, {address}), td, hosts)
  <2> DEFINE r == Remove(joined, {address})
  <2>1. sd.hosts = hosts => Descends(r, joined, hosts)
    BY <1>4, DescendsBasics
  <2> HIDE DEF r
  <2> QED
    BY <1>4, <2>1, DescendsTrans DEF r
<1> HIDE DEF u
<1> QED
  <2>1. Descends(Remove(td, {address}), td, hosts)
    BY DescendsBasics
  <2> QED
    BY <1>1, <1>3, <1>4, <1>5, <2>1, Zenon DEF u

\* The transitions of every topology type.
LEMMA ByTypeDescends ==
    ASSUME NEW td, NEW address, NEW sd, NEW hosts, Shape(td), sd.hosts \in {Garbled, hosts}
    PROVE  /\ Descends(UpdateByType(td, address, sd), td, hosts)
           /\ sd.type = "Unknown" => UpdateByType(td, address, sd).servers = td.servers
<1> DEFINE u == UpdateByType(td, address, sd)
           with == [td EXCEPT !.type = "ReplicaSetWithPrimary"]
           without == [td EXCEPT !.type = "ReplicaSetNoPrimary"]
<1>1. \/ u = td
      \/ u = RecordPrimaryState(td)
      \/ sd.type # "Unknown" /\ u \in {[td EXCEPT !.type = "Single"], [td EXCEPT !.type = "Sharded"]}
      \/ sd.type # "Unknown" /\ u \in {Remove(td, {address}), RecordPrimaryState(Remove(td, {address}))}
      \/ sd.type # "Unknown" /\ u = UpdateRsFromPrimaryServer(with, address, sd)
      \/ /\ sd.type # "Unknown" /\ IsReplicaSet(td)
         /\ u \in {UpdateRsFromPrimaryServer(td, address, sd),
                   UpdateRsWithoutPrimaryServer(td, address, sd)}
      \/ sd.type # "Unknown" /\ u = UpdateRsWithoutPrimaryServer(without, address, sd)
  BY DEF UpdateByType, UpdateUnknownTopology, UpdateShardedTopology, UpdateReplicaSetNoPrimaryTopology,
         UpdateReplicaSetWithPrimaryTopology, UpdateUnknownWithStandaloneServer,
         UpdateRsWithPrimaryFromMember, MemberTypes, IsReplicaSet, ReplicaSetTypes
<1> HIDE DEF u
<1>2. /\ Shape(with) /\ Descends(with, td, hosts) /\ IsReplicaSet(with)
      /\ Shape(without) /\ Descends(without, td, hosts) /\ without.type = "ReplicaSetNoPrimary"
  <2>1. /\ Descends(with, td, hosts) /\ Descends(without, td, hosts)
    BY DescendsBasics DEF TopologyTypes, ReplicaSetTypes
  <2>2. with.type = "ReplicaSetWithPrimary" /\ without.type = "ReplicaSetNoPrimary"
    BY DEF Shape
  <2> HIDE DEF with, without
  <2> QED
    BY <2>1, <2>2 DEF Descends, IsReplicaSet, ReplicaSetTypes
<1> HIDE DEF with, without
<1>3. ASSUME NEW v, Shape(v)
      PROVE  RecordPrimaryState(v).type # "LoadBalanced" /\ RecordPrimaryState(v).servers = v.servers
  BY <1>3 DEF RecordPrimaryState, Shape
<1>4. ASSUME NEW v, Shape(v), Descends(v, td, hosts)
      PROVE  /\ Descends(UpdateRsFromPrimaryServer(v, address, sd), td, hosts)
             /\ Descends(UpdateRsWithoutPrimaryServer(v, address, sd), td, hosts)
             /\ Descends(RecordPrimaryState(v), td, hosts)
  BY <1>4, FromPrimaryDescends, WithoutPrimaryDescends, DescendsOrder, DescendsBasics
<1>5. Descends(u, td, hosts)
  <2>1. /\ Descends(td, td, hosts) /\ Descends(RecordPrimaryState(td), td, hosts)
        /\ Descends([td EXCEPT !.type = "Single"], td, hosts)
        /\ Descends([td EXCEPT !.type = "Sharded"], td, hosts)
        /\ Descends(Remove(td, {address}), td, hosts)
    BY DescendsOrder, DescendsBasics DEF TopologyTypes
  <2>2. Descends(RecordPrimaryState(Remove(td, {address})), td, hosts)
    BY <2>1, <1>4 DEF Descends
  <2>3. /\ Descends(UpdateRsFromPrimaryServer(with, address, sd), td, hosts)
        /\ Descends(UpdateRsWithoutPrimaryServer(without, address, sd), td, hosts)
        /\ Descends(UpdateRsFromPrimaryServer(td, address, sd), td, hosts)
        /\ Descends(UpdateRsWithoutPrimaryServer(td, address, sd), td, hosts)
    BY <2>1, <1>2, <1>4
  <2> QED
    BY <1>1, <2>1, <2>2, <2>3, Zenon
<1>6. sd.type = "Unknown" => u.servers = td.servers
  BY <1>1, <1>3
<1> QED
  BY <1>5, <1>6 DEF u

\* update stores the new description, or rejects it; every other server is as
\* before, or new.
LEMMA UpdateServers ==
    ASSUME NEW td, NEW address, NEW sd, NEW hosts, Fits(td), td.type # "LoadBalanced",
           sd.hosts \in {Garbled, hosts}
    PROVE  LET u == Update(td, address, sd)
               rejected == \/ address \notin Known(td)
                           \/ Outdated(sd, td.servers[address])
           IN /\ rejected => u = td
              /\ Shape(u) /\ Known(u) \subseteq Known(td) \cup hosts
              /\ \A a \in Known(u) :
                    \/ u.servers[a] = NewServer
                    \/ a \in Known(td) /\ a = address /\ u.servers[a] \in {sd, td.servers[a]}
                    \/ a \in Known(td) /\ a # address /\ u.servers[a] = td.servers[a]
              /\ sd.type = "Unknown" =>
                    Known(u) = Known(td) /\ (~rejected => u.servers[address] = sd)
<1> DEFINE accepted == IF WrongSetName(td, sd) THEN NewServer ELSE sd
           summed == UpdateSummaries(Replace(td, address, accepted), accepted)
           typed == UpdateByType(summed, address, accepted)
           checked == CheckCompatibility(typed)
           u == Update(td, address, sd)
           rejected == address \notin Known(td) \/ Outdated(sd, td.servers[address])
<1>1. rejected => u = td
  BY DEF Update
<1>2. ~rejected => u = typed \/ u = checked
  BY DEF Update
<1>3. /\ accepted \in {sd, NewServer}
      /\ sd.type = "Unknown" => accepted = sd
      /\ NewServer.hosts = {}
  BY DEF WrongSetName, NewServer, UnknownServer
<1> HIDE DEF u
<1>4. CASE rejected
  <2>1. u = td
    BY <1>1, <1>4
  <2> QED
    BY <1>4, <2>1 DEF u, Fits
<1>5. CASE ~rejected
  <2> HIDE DEF accepted
  <2>1. /\ Shape(summed) /\ Known(summed) = Known(td)
        /\ \A a \in Known(summed) : summed.servers[a] = IF a = address THEN accepted ELSE td.servers[a]
    BY SMT, <1>5, StoreFits DEF Stored
  <2> HIDE DEF summed
  <2>2. PICK added \in {hosts, {}} :
          /\ Descends(typed, summed, added)
          /\ accepted.type = "Unknown" => typed.servers = summed.servers
    BY <2>1, <1>3, ByTypeDescends
  <2> HIDE DEF typed
  <2>3. Shape(typed) /\ Shape(checked) /\ checked.servers = typed.servers
    BY <2>2, CompatibilityKeepsCore DEF Descends, SameCore
  <2> HIDE DEF checked
  <2>4. Shape(u) /\ u.servers = typed.servers
    BY <1>2, <1>5, <2>3
  <2>5. Known(u) \subseteq Known(td) \cup hosts
    BY <2>1, <2>2, <2>4 DEF Descends, Known
  <2>6. \A a \in Known(u) :
            \/ u.servers[a] = NewServer
            \/ a \in Known(td) /\ a = address /\ u.servers[a] \in {sd, td.servers[a]}
            \/ a \in Known(td) /\ a # address /\ u.servers[a] = td.servers[a]
    BY <1>3, <2>1, <2>2, <2>4 DEF Descends, Known
  <2>7. sd.type = "Unknown" => Known(u) = Known(td) /\ u.servers[address] = sd
    BY <1>3, <1>5, <2>1, <2>2, <2>4 DEF Known
  <2> QED
    BY <1>5, <2>4, <2>5, <2>6, <2>7 DEF u
<1> QED
  BY <1>4, <1>5

-----------------------------------------------------------------------------
(* What becomes of the primaries.                                          *)

\* A reply never makes a topology a load-balanced one.
LEMMA ByTypeNotBalanced ==
    ASSUME NEW td, NEW address \in Known(td), NEW sd, Shape(td), WellFormedReply(sd),
           td.type = "Unknown"
    PROVE  UpdateByType(td, address, sd).type # "LoadBalanced"
<1> DEFINE u == UpdateByType(td, address, sd)
<1>1. \A t \in TopologyTypes :
         LET v == [td EXCEPT !.type = t] IN Shape(v) /\ v.type = t /\ Known(v) = Known(td)
  BY RetypeCore DEF Known
<1>2. u = UpdateUnknownTopology(td, address, sd)
  BY DEF UpdateByType
<1>3. CASE sd.type = "Standalone"
  <2>1. u = [td EXCEPT !.type = "Single"] \/ u = Remove(td, {address})
    BY <1>2, <1>3 DEF UpdateUnknownTopology, UpdateUnknownWithStandaloneServer, MemberTypes
  <2>2. Remove(td, {address}).type = "Unknown"
    BY RemoveCore
  <2> QED
    BY Zenon, <1>1, <2>1, <2>2 DEF TopologyTypes
<1>4. CASE sd.type = "Mongos"
  <2>1. u = [td EXCEPT !.type = "Sharded"]
    BY <1>2, <1>4 DEF UpdateUnknownTopology, MemberTypes
  <2> QED
    BY Zenon, <1>1, <2>1 DEF TopologyTypes
<1>5. CASE sd.type = "RsPrimary"
  <2> DEFINE v == [td EXCEPT !.type = "ReplicaSetWithPrimary"]
  <2>1. u = UpdateRsFromPrimaryServer(v, address, sd)
    BY <1>2, <1>5 DEF UpdateUnknownTopology, MemberTypes
  <2>2. Shape(v) /\ IsReplicaSet(v) /\ address \in Known(v)
    BY <1>1 DEF TopologyTypes, IsReplicaSet, ReplicaSetTypes
  <2> HIDE DEF v, u
  <2>3. IsReplicaSet(u)
    BY <2>1, <2>2, FromPrimaryEffect
  <2> QED
    BY <2>3 DEF IsReplicaSet, ReplicaSetTypes, u
<1>6. CASE sd.type \in MemberTypes
  <2> DEFINE v == [td EXCEPT !.type = "ReplicaSetNoPrimary"]
  <2>1. u = UpdateRsWithoutPrimaryServer(v, address, sd)
    BY <1>2, <1>6 DEF UpdateUnknownTopology, MemberTypes
  <2>2. Shape(v) /\ v.type = "ReplicaSetNoPrimary"
    BY <1>1 DEF TopologyTypes, ReplicaSetTypes
  <2> HIDE DEF v, u
  <2>3. u.type = "ReplicaSetNoPrimary"
    BY <2>1, <2>2, WithoutPrimaryEffect
  <2> QED
    BY <2>3 DEF u
<1>7. CASE sd.type \in {"Unknown", "RsGhost"}
  BY <1>2, <1>7 DEF UpdateUnknownTopology, MemberTypes
<1> QED
  BY <1>3, <1>4, <1>5, <1>6, <1>7 DEF WellFormedReply, ServerTypes, MemberTypes

\* Neither does `update`.
LEMMA UpdateNotBalanced ==
    ASSUME NEW td, NEW address, NEW sd, TdInv(td), WellFormedReply(sd),
           sd.setVersion \in Int \cup {None}, sd.electionId \in Nat \cup {None},
           td.type # "LoadBalanced"
    PROVE  Update(td, address, sd).type # "LoadBalanced"
<1> DEFINE accepted == IF WrongSetName(td, sd) THEN NewServer ELSE sd
           summed == UpdateSummaries(Replace(td, address, accepted), accepted)
           typed == UpdateByType(summed, address, accepted)
           u == Update(td, address, sd)
<1>1. CASE td.type # "Unknown"
  <2>1. TdStep(td, u)
    BY UpdateStep
  <2>2. td.type \in TopologyTypes
    BY DEF TdInv, Fits, Shape
  <2> QED
    BY <1>1, <2>1, <2>2 DEF TdStep, TopologyTypes, IsReplicaSet, ReplicaSetTypes
<1>2. CASE td.type = "Unknown" /\ address \in Known(td)
  <2>1. WellFormedReply(accepted)
    BY DEF WellFormedReply, NewServer, UnknownServer, ServerTypes, MemberTypes
  <2>2. u = td \/ u = typed \/ u = CheckCompatibility(typed)
    BY <1>2 DEF Update
  <2> HIDE DEF accepted, u
  <2>3. Shape(summed) /\ summed.type = "Unknown" /\ address \in Known(summed)
        /\ Stored(summed, address, accepted) /\ NamedSet(summed)
    BY SMT, <1>2, StoreFits DEF TdInv, Stored, NamedSet, IsReplicaSet, ReplicaSetTypes
  <2> HIDE DEF summed
  <2>4. typed.type # "LoadBalanced"
    BY <2>1, <2>3, ByTypeNotBalanced
  <2>5. Shape(typed)
    BY <2>1, <2>3, ByTypeFits DEF Fits
  <2> HIDE DEF typed
  <2>6. CheckCompatibility(typed).type = typed.type
    BY <2>5, CompatibilityKeepsCore DEF SameCore
  <2> QED
    BY <2>2, <2>4, <2>6, <1>2 DEF u
<1>3. CASE address \notin Known(td)
  BY <1>3 DEF Update
<1> QED
  BY <1>1, <1>2, <1>3

\* u is a replica set and has no primary but those that td had, the one at the address excepted; if
\* it has one, no server was added.
KeepsPrimaries(u, td, address) ==
    /\ IsReplicaSet(u)
    /\ Primaries(u) \subseteq Primaries(td) \ {address}
    /\ SameElections(u, td)
    /\ Primaries(u) # {} => IsReplicaSet(td) /\ Known(u) \subseteq Known(td)
    /\ \A p \in Primaries(u) : u.servers[p] = td.servers[p]

\* The server that answered is the only primary, and those it lists are the
\* servers.
TakesPrimary(u, td, address, sd) ==
    /\ IsReplicaSet(u)
    /\ sd.type = "RsPrimary"
    /\ ~StalePrimary(td, sd)
    /\ Primaries(u) \subseteq {address}
    /\ \A p \in Primaries(u) : u.servers[p] = sd
    /\ sd.hosts # Garbled => Known(u) \subseteq sd.hosts
    /\ SameElections(u, RecordElection(td, sd))

\* A primary's answer.
LEMMA FromPrimaryResult ==
    ASSUME NEW td, NEW address, NEW sd, Shape(td), IsReplicaSet(td),
           address \in Known(td), td.servers[address] = sd, sd.type = "RsPrimary"
    PROVE  LET u == UpdateRsFromPrimaryServer(td, address, sd)
           IN KeepsPrimaries(u, td, address) \/ TakesPrimary(u, td, address, sd)
<1> DEFINE name == IF td.setName = None THEN sd.setName ELSE td.setName
           named == [td EXCEPT !.setName = name]
           elected == RecordElection(named, sd)
           only == InvalidateOtherPrimaries(elected, address)
           stale == Replace(named, address, NewServer)
           dropped == Remove(td, {address})
           joined == AddNewServers(only, sd.hosts)
           trimmed == Remove(joined, Known(td) \ sd.hosts)
           u == UpdateRsFromPrimaryServer(td, address, sd)
<1>1. /\ Shape(named) /\ named.servers = td.servers /\ Known(named) = Known(td)
      /\ named.type = td.type
      /\ SameElections(named, td)
  BY SMT DEF Shape, SameElections, Known
<1>2. \/ u = RecordPrimaryState(dropped)
      \/ u = RecordPrimaryState(stale)
      \/ ~StalePrimary(td, sd) /\ sd.hosts = Garbled /\ u = only
      \/ ~StalePrimary(td, sd) /\ sd.hosts # Garbled /\ u = RecordPrimaryState(trimmed)
  BY DEF UpdateRsFromPrimaryServer
<1> HIDE DEF named, u
<1>3. NewServer.type = "Unknown"
  BY DEF NewServer, UnknownServer
<1>4. ASSUME NEW v, Shape(v)
      PROVE  LET r == RecordPrimaryState(v)
             IN /\ r.servers = v.servers /\ Known(r) = Known(v) /\ SameElections(r, v)
                /\ Primaries(r) = Primaries(v) /\ IsReplicaSet(r)
  BY <1>4, RecordCore DEF SameElections, Known, Primaries, IsReplicaSet, ReplicaSetTypes
<1>5. KeepsPrimaries(RecordPrimaryState(dropped), td, address)
  <2>1. /\ Shape(dropped) /\ Known(dropped) = Known(td) \ {address} /\ SameElections(dropped, td)
        /\ \A a \in Known(dropped) : dropped.servers[a] = td.servers[a]
    BY SMT, RemoveCore DEF SameElections
  <2> HIDE DEF dropped
  <2> QED
    BY <2>1, <1>4 DEF KeepsPrimaries, Primaries, SameElections
<1>6. KeepsPrimaries(RecordPrimaryState(stale), td, address)
  <2>1. /\ Shape(stale) /\ Known(stale) = Known(td) /\ SameElections(stale, td)
        /\ \A a \in Known(stale) : stale.servers[a] = IF a = address THEN NewServer ELSE td.servers[a]
    BY SMT, <1>1, ReplaceCore DEF SameElections
  <2> HIDE DEF stale
  <2> QED
    BY SMT, <2>1, <1>3, <1>4 DEF KeepsPrimaries, Primaries, SameElections
<1>7. /\ Shape(elected) /\ elected.servers = td.servers /\ Known(elected) = Known(td)
      /\ elected.type = td.type
      /\ SameElections(elected, RecordElection(td, sd))
  BY SMT, <1>1, ElectionCore DEF SameElections, Known
<1> HIDE DEF elected
<1>8. /\ Shape(only) /\ Known(only) = Known(td) /\ only.type = td.type
      /\ SameElections(only, RecordElection(td, sd))
      /\ \A a \in Known(only) : only.servers[a] = IF a \in Primaries(elected) \ {address} THEN NewServer
                                                  ELSE elected.servers[a]
  <2>1. /\ Shape(only) /\ Known(only) = Known(elected) /\ SameElections(only, elected)
        /\ only.type = elected.type
        /\ \A a \in Known(only) : only.servers[a] = IF a \in Primaries(elected) \ {address} THEN NewServer
                                                    ELSE elected.servers[a]
    BY SMT, <1>7 DEF Shape, InvalidateOtherPrimaries, Known, SameElections
  <2> HIDE DEF only
  <2> QED
    BY <2>1, <1>7 DEF SameElections
<1> HIDE DEF only
<1>9. Primaries(only) \subseteq {address} /\ only.servers[address] = sd
  BY <1>3, <1>7, <1>8 DEF Primaries
<1>10. sd.hosts # Garbled /\ ~StalePrimary(td, sd) =>
          TakesPrimary(RecordPrimaryState(trimmed), td, address, sd)
  <2>1. /\ Shape(joined) /\ Known(joined) = Known(td) \cup sd.hosts
        /\ SameElections(joined, RecordElection(td, sd))
        /\ \A a \in Known(joined) : joined.servers[a] = IF a \in Known(td) THEN only.servers[a] ELSE NewServer
    BY SMT, <1>8, AddCore DEF SameElections
  <2> HIDE DEF joined
  <2>2. /\ Shape(trimmed) /\ Known(trimmed) \subseteq sd.hosts
        /\ SameElections(trimmed, RecordElection(td, sd))
        /\ \A a \in Known(trimmed) : trimmed.servers[a] = joined.servers[a] /\ a \in Known(joined)
    <3>1. /\ Shape(trimmed) /\ Known(trimmed) = Known(joined) \ (Known(td) \ sd.hosts)
          /\ SameElections(trimmed, joined)
          /\ \A a \in Known(trimmed) : trimmed.servers[a] = joined.servers[a]
      BY SMT, <2>1, RemoveCore DEF SameElections
    <3> HIDE DEF trimmed
    <3> QED
      BY <3>1, <2>1 DEF SameElections
  <2> HIDE DEF trimmed
  <2>3. Primaries(trimmed) \subseteq {address}
    BY <2>1, <2>2, <1>3, <1>8, <1>9 DEF Primaries
  <2>4. \A p \in Primaries(trimmed) : trimmed.servers[p] = sd
    BY <2>1, <2>2, <2>3, <1>9 DEF Primaries
  <2> QED
    BY <2>2, <2>3, <2>4, <1>4 DEF TakesPrimary, SameElections
<1>11. sd.hosts = Garbled /\ ~StalePrimary(td, sd) => TakesPrimary(only, td, address, sd)
  BY <1>8, <1>9 DEF TakesPrimary, IsReplicaSet
<1> HIDE DEF dropped, stale, trimmed
<1> QED
  BY <1>2, <1>5, <1>6, <1>10, <1>11 DEF u

\* The result is not a replica set, nor was the topology before.
OtherTopology(u, td) ==
    /\ SameElections(u, td) /\ ~IsReplicaSet(u) /\ ~IsReplicaSet(td)
    /\ Known(u) \subseteq Known(td)

\* The transitions of every topology type.
LEMMA ByTypePrimaries ==
    ASSUME NEW td, NEW address, NEW sd, Shape(td), WellFormedReply(sd),
           address \in Known(td), td.servers[address] = sd,
           ~IsReplicaSet(td) => td.type \in {"Unknown", "Sharded", "Single"},
           td.type \in {"Unknown", "ReplicaSetNoPrimary"} => Primaries(td) \ {address} = {}
    PROVE  LET u == UpdateByType(td, address, sd)
           IN \/ KeepsPrimaries(u, td, address)
              \/ TakesPrimary(u, td, address, sd)
              \/ OtherTopology(u, td)
<1> DEFINE u == UpdateByType(td, address, sd)
           with == [td EXCEPT !.type = "ReplicaSetWithPrimary"]
           without == [td EXCEPT !.type = "ReplicaSetNoPrimary"]
           hosts == IF sd.hosts = Garbled THEN {} ELSE sd.hosts
<1>0. /\ Shape(with) /\ with.servers = td.servers /\ with.type = "ReplicaSetWithPrimary"
      /\ SameElections(with, td)
      /\ Shape(without) /\ without.servers = td.servers /\ without.type = "ReplicaSetNoPrimary"
      /\ SameElections(without, td)
      /\ LET s == [td EXCEPT !.type = "Single"]
         IN s.type = "Single" /\ SameElections(s, td) /\ Known(s) = Known(td)
      /\ LET s == [td EXCEPT !.type = "Sharded"]
         IN s.type = "Sharded" /\ SameElections(s, td) /\ Known(s) = Known(td)
  <2>1. ASSUME NEW t \in TopologyTypes
        PROVE  LET v == [td EXCEPT !.type = t]
               IN /\ Shape(v) /\ v.servers = td.servers /\ v.type = t /\ SameElections(v, td)
                  /\ Known(v) = Known(td)
    BY <2>1, RetypeCore DEF SameElections, Known
  <2> QED
    BY <2>1 DEF TopologyTypes, ReplicaSetTypes
<1>1. \/ IsReplicaSet(td) /\ sd.type # "RsPrimary" /\ u \in {td, RecordPrimaryState(td)}
      \/ IsReplicaSet(td) /\ u \in {Remove(td, {address}), RecordPrimaryState(Remove(td, {address}))}
      \/ sd.type = "RsPrimary" /\ IsReplicaSet(td) /\ u = UpdateRsFromPrimaryServer(td, address, sd)
      \/ /\ sd.type = "RsPrimary" /\ td.type \in {"Unknown", "ReplicaSetNoPrimary"}
         /\ u = UpdateRsFromPrimaryServer(with, address, sd)
      \/ /\ sd.type # "RsPrimary" /\ td.type = "ReplicaSetNoPrimary"
         /\ u = UpdateRsWithoutPrimaryServer(td, address, sd)
      \/ /\ sd.type # "RsPrimary" /\ td.type = "Unknown"
         /\ u = UpdateRsWithoutPrimaryServer(without, address, sd)
      \/ OtherTopology(u, td)
  <2>0. LET w == Remove(td, {address})
        IN w.type = td.type /\ SameElections(w, td) /\ Known(w) \subseteq Known(td)
    BY RemoveCore DEF SameElections
  <2>6. SameElections(td, td)
    BY DEF SameElections
  <2>1. CASE td.type = "Unknown"
    BY <2>0, <2>1, <2>6, <1>0 DEF WellFormedReply, ServerTypes, UpdateByType, UpdateUnknownTopology,
         UpdateUnknownWithStandaloneServer, MemberTypes, IsReplicaSet, ReplicaSetTypes, OtherTopology
  <2>2. CASE td.type = "Sharded"
    BY <2>0, <2>2, <2>6 DEF UpdateByType, UpdateShardedTopology, IsReplicaSet, ReplicaSetTypes,
                            OtherTopology
  <2>3. CASE td.type = "Single"
    BY <2>3, <2>6 DEF UpdateByType, IsReplicaSet, ReplicaSetTypes, OtherTopology
  <2>4. CASE td.type = "ReplicaSetNoPrimary"
    BY <2>4 DEF WellFormedReply, ServerTypes, UpdateByType, UpdateReplicaSetNoPrimaryTopology,
         MemberTypes, IsReplicaSet, ReplicaSetTypes
  <2>5. CASE td.type = "ReplicaSetWithPrimary"
    BY <2>5 DEF WellFormedReply, ServerTypes, UpdateByType, UpdateReplicaSetWithPrimaryTopology,
         UpdateRsWithPrimaryFromMember, MemberTypes, IsReplicaSet, ReplicaSetTypes
  <2> QED
    BY <2>1, <2>2, <2>3, <2>4, <2>5 DEF IsReplicaSet, ReplicaSetTypes
<1> HIDE DEF u, with, without
<1>2. Known(with) = Known(td) /\ Known(without) = Known(td)
  BY <1>0 DEF Known
<1>3. Primaries(with) = Primaries(td) /\ Primaries(without) = Primaries(td)
  BY <1>0, <1>2 DEF Primaries
<1>4. NewServer.type = "Unknown"
  BY DEF NewServer, UnknownServer
<1>5. ASSUME NEW v, Descends(v, td, hosts)
      PROVE  Primaries(v) \subseteq Primaries(td)
  BY <1>4, <1>5 DEF Descends, Primaries
<1>a. CASE IsReplicaSet(td) /\ sd.type # "RsPrimary" /\ u \in {td, RecordPrimaryState(td)}
  <2>1. u.servers = td.servers /\ SameElections(u, td) /\ IsReplicaSet(u)
    BY <1>a, RecordCore DEF SameElections, IsReplicaSet, ReplicaSetTypes
  <2> QED
    BY <2>1, <1>a DEF KeepsPrimaries, Primaries, Known, u
<1>b. CASE /\ IsReplicaSet(td)
           /\ u \in {Remove(td, {address}), RecordPrimaryState(Remove(td, {address}))}
  <2> DEFINE r == Remove(td, {address})
  <2>1. /\ Shape(r) /\ Known(r) = Known(td) \ {address} /\ SameElections(r, td) /\ r.type = td.type
        /\ \A a \in Known(r) : r.servers[a] = td.servers[a]
    BY SMT, RemoveCore DEF SameElections
  <2>2. u \in {r, RecordPrimaryState(r)}
    BY <1>b
  <2> HIDE DEF r
  <2>3. u.servers = r.servers /\ SameElections(u, td) /\ IsReplicaSet(u)
    BY SMT, <2>1, <2>2, <1>b, RecordCore DEF SameElections, IsReplicaSet, ReplicaSetTypes
  <2> QED
    BY <2>1, <2>3, <1>b DEF KeepsPrimaries, Primaries, Known, u
<1>c. CASE sd.type = "RsPrimary" /\ IsReplicaSet(td) /\ u = UpdateRsFromPrimaryServer(td, address, sd)
  BY <1>c, FromPrimaryResult DEF u
<1>d. CASE /\ sd.type = "RsPrimary" /\ td.type \in {"Unknown", "ReplicaSetNoPrimary"}
           /\ u = UpdateRsFromPrimaryServer(with, address, sd)
  <2>1. KeepsPrimaries(u, with, address) \/ TakesPrimary(u, with, address, sd)
    BY <1>0, <1>2, <1>d, FromPrimaryResult DEF IsReplicaSet, ReplicaSetTypes
  <2>2. KeepsPrimaries(u, with, address) => KeepsPrimaries(u, td, address)
    BY <1>0, <1>3, <1>d DEF KeepsPrimaries, SameElections
  <2>3. TakesPrimary(u, with, address, sd) => TakesPrimary(u, td, address, sd)
    <3>1. StalePrimary(with, sd) <=> StalePrimary(td, sd)
      BY <1>0 DEF StalePrimary, SameElections
    <3>2. SameElections(RecordElection(with, sd), RecordElection(td, sd))
      BY SMT, <1>0, ElectionCore DEF SameElections
    <3> QED
      BY <3>1, <3>2 DEF TakesPrimary, SameElections
  <2> QED
    BY <2>1, <2>2, <2>3 DEF u
<1>e. CASE /\ sd.type # "RsPrimary" /\ td.type = "ReplicaSetNoPrimary"
           /\ u = UpdateRsWithoutPrimaryServer(td, address, sd)
  <2>1. Descends(u, td, hosts) /\ SameElections(u, td) /\ IsReplicaSet(u)
    BY SMT, <1>e, WithoutPrimaryDescends, WithoutPrimaryEffect DEF IsReplicaSet, ReplicaSetTypes
  <2>2. Primaries(u) = {}
    BY <2>1, <1>5, <1>e DEF Primaries
  <2> QED
    BY <2>1, <2>2 DEF KeepsPrimaries, u
<1>f. CASE /\ sd.type # "RsPrimary" /\ td.type = "Unknown"
           /\ u = UpdateRsWithoutPrimaryServer(without, address, sd)
  <2>1. Descends(u, without, hosts) /\ SameElections(u, without) /\ IsReplicaSet(u)
    BY SMT, <1>0, <1>f, WithoutPrimaryDescends, WithoutPrimaryEffect DEF IsReplicaSet, ReplicaSetTypes
  <2>2. Primaries(u) \subseteq Primaries(without)
    BY <2>1, <1>4 DEF Descends, Primaries
  <2>3. Primaries(u) = {}
    BY SMT, <2>2, <1>3, <1>f DEF Primaries
  <2> QED
    BY <2>1, <2>3, <1>0 DEF KeepsPrimaries, SameElections, u
<1> QED
  BY <1>1, <1>a, <1>b, <1>c, <1>d, <1>e, <1>f DEF u

\* update.
LEMMA UpdatePrimaries ==
    ASSUME NEW td, NEW address, NEW sd, TdInv(td), td.type # "LoadBalanced", WellFormedReply(sd)
    PROVE  LET u == Update(td, address, sd)
           IN \/ u = td
              \/ KeepsPrimaries(u, td, address)
              \/ TakesPrimary(u, td, address, sd)
              \/ OtherTopology(u, td)
<1> DEFINE accepted == IF WrongSetName(td, sd) THEN NewServer ELSE sd
           summed == UpdateSummaries(Replace(td, address, accepted), accepted)
           typed == UpdateByType(summed, address, accepted)
           checked == CheckCompatibility(typed)
           u == Update(td, address, sd)
<1>1. u = td \/ (address \in Known(td) /\ u \in {typed, checked})
  BY DEF Update
<1>2. WellFormedReply(accepted) /\ (td.type # "Single" => accepted = sd)
  BY DEF WellFormedReply, NewServer, UnknownServer, ServerTypes, MemberTypes, WrongSetName
<1> HIDE DEF u, accepted
<1> SUFFICES ASSUME address \in Known(td), u \in {typed, checked}
             PROVE  \/ KeepsPrimaries(u, td, address)
                    \/ TakesPrimary(u, td, address, sd)
                    \/ OtherTopology(u, td)
  BY <1>1 DEF u
<1>3. /\ Stored(summed, address, accepted) /\ summed.type = td.type
      /\ Known(summed) = Known(td) /\ SameElections(summed, td)
      /\ \A a \in Known(summed) : summed.servers[a] = IF a = address THEN accepted ELSE td.servers[a]
      /\ Primaries(summed) \ {address} = Primaries(td) \ {address}
  BY SMT, StoreFits DEF TdInv, SameElections
<1> HIDE DEF summed
<1>4. Shape(typed)
  <2>1. PICK hosts : accepted.hosts \in {Garbled, hosts}
    OBVIOUS
  <2> QED
    BY <2>1, <1>3, ByTypeDescends DEF Stored, Descends
<1>5. td.type = "Single" => typed.type = "Single"
  BY <1>3 DEF UpdateByType
<1>6. /\ typed.type = u.type /\ typed.servers = u.servers /\ SameElections(typed, u)
      /\ Known(typed) = Known(u) /\ Primaries(typed) = Primaries(u)
  <2> HIDE DEF typed
  <2>1. Shape(checked) /\ SameCore(checked, typed)
    BY <1>4, CompatibilityKeepsCore
  <2> HIDE DEF checked
  <2>2. typed.type = u.type /\ typed.servers = u.servers /\ SameElections(typed, u)
    BY <2>1 DEF SameCore, SameElections
  <2> QED
    BY <2>2 DEF Known, Primaries
<1>7. td.type \in {"Unknown", "ReplicaSetNoPrimary"} => Primaries(td) = {}
  <2>1. CASE td.type = "Unknown"
    <3>1. \A a \in Known(td) : td.servers[a].type \in {"Unknown", "RsGhost"}
      BY <2>1 DEF TdInv, Fits, ServerFits, ReplicaSetTypes
    <3> QED
      BY <3>1 DEF Primaries
  <2> QED
    BY <2>1 DEF TdInv, Fits
<1>8. \/ KeepsPrimaries(typed, summed, address)
      \/ TakesPrimary(typed, summed, address, accepted)
      \/ OtherTopology(typed, summed)
  <2>1. ~IsReplicaSet(summed) => summed.type \in {"Unknown", "Sharded", "Single"}
    BY <1>3 DEF TdInv, Fits, Shape, TopologyTypes, IsReplicaSet
  <2>2. summed.type \in {"Unknown", "ReplicaSetNoPrimary"} => Primaries(summed) \ {address} = {}
    BY <1>3, <1>7
  <2> QED
    BY <2>1, <2>2, <1>2, <1>3, ByTypePrimaries DEF Stored
<1> HIDE DEF typed
<1>9. CASE td.type = "Single"
  <2>1. ~IsReplicaSet(u) /\ ~IsReplicaSet(td)
    BY <1>5, <1>6, <1>9 DEF IsReplicaSet, ReplicaSetTypes
  <2>2. typed = summed
    BY <1>3, <1>9 DEF UpdateByType, typed
  <2> QED
    BY <2>1, <2>2, <1>3, <1>6 DEF OtherTopology, SameElections
<1>10. CASE KeepsPrimaries(typed, summed, address)
  BY <1>10, <1>3, <1>6 DEF KeepsPrimaries, SameElections, Primaries, IsReplicaSet
<1>11. CASE td.type # "Single" /\ TakesPrimary(typed, summed, address, accepted)
  <2>1. StalePrimary(summed, sd) <=> StalePrimary(td, sd)
    BY <1>3 DEF StalePrimary, SameElections
  <2>2. SameElections(RecordElection(summed, sd), RecordElection(td, sd))
    BY SMT, <1>3, ElectionCore DEF SameElections, Stored, TdInv, Fits
  <2> QED
    BY <2>1, <2>2, <1>2, <1>6, <1>11 DEF TakesPrimary, SameElections, IsReplicaSet
<1>12. CASE OtherTopology(typed, summed)
  BY <1>12, <1>3, <1>6 DEF OtherTopology, SameElections, IsReplicaSet
<1> QED
  BY <1>8, <1>9, <1>10, <1>11, <1>12

\* The newest configuration and election, and the primary that reported them.
NewestInv(td) ==
    /\ td.maxSetVersion = None <=> td.maxElectionId = None
    /\ IsReplicaSet(td) =>
         \A p \in Primaries(td) :
            /\ td.servers[p].setVersion = td.maxSetVersion
            /\ td.servers[p].electionId = td.maxElectionId

\* update keeps the primary the newest seen.
LEMMA UpdateNewest ==
    ASSUME NEW td, NEW address, NEW sd, TdInv(td), td.type # "LoadBalanced", WellFormedReply(sd),
           sd.setVersion \in Int \cup {None}, sd.electionId \in Nat \cup {None},
           sd.type = "RsPrimary" => None \notin {sd.setVersion, sd.electionId},
           NewestInv(td)
    PROVE  NewestInv(Update(td, address, sd))
<1> DEFINE u == Update(td, address, sd)
<1>1. \/ u = td
      \/ KeepsPrimaries(u, td, address)
      \/ TakesPrimary(u, td, address, sd)
      \/ OtherTopology(u, td)
  BY UpdatePrimaries
<1> HIDE DEF u
<1>2. CASE u = td
  BY <1>2 DEF u
<1>3. CASE KeepsPrimaries(u, td, address)
  BY <1>3 DEF KeepsPrimaries, NewestInv, SameElections, u
<1>4. CASE TakesPrimary(u, td, address, sd)
  <2>1. /\ u.maxElectionId = sd.electionId
        /\ u.maxSetVersion = IF td.maxSetVersion = None \/ sd.setVersion > td.maxSetVersion
                             THEN sd.setVersion ELSE td.maxSetVersion
    BY <1>4, ElectionCore DEF TakesPrimary, SameElections, TdInv, Fits
  <2>2. u.maxSetVersion = sd.setVersion
    BY SMT, <2>1, <1>4 DEF TakesPrimary, StalePrimary, TdInv, ElectionTypes, NewestInv
  <2>3. \A p \in Primaries(u) : u.servers[p] = sd
    BY <1>4 DEF TakesPrimary
  <2> QED
    BY <2>1, <2>2, <2>3, <1>4 DEF TakesPrimary, NewestInv, u
<1>5. CASE OtherTopology(u, td)
  BY <1>5 DEF OtherTopology, NewestInv, SameElections, u
<1> QED
  BY <1>1, <1>2, <1>3, <1>4, <1>5

\* The primary lists every server.
ListedInv(td) ==
    IsReplicaSet(td) =>
        \A p \in Primaries(td) :
            td.servers[p].hosts # Garbled => Known(td) \subseteq td.servers[p].hosts

\* update keeps only the servers the primary lists.
LEMMA UpdateListed ==
    ASSUME NEW td, NEW address, NEW sd, TdInv(td), td.type # "LoadBalanced", WellFormedReply(sd),
           ListedInv(td)
    PROVE  ListedInv(Update(td, address, sd))
<1> DEFINE u == Update(td, address, sd)
<1>1. \/ u = td
      \/ KeepsPrimaries(u, td, address)
      \/ TakesPrimary(u, td, address, sd)
      \/ OtherTopology(u, td)
  BY UpdatePrimaries
<1> HIDE DEF u
<1> QED
  BY <1>1 DEF KeepsPrimaries, TakesPrimary, OtherTopology, ListedInv, u

-----------------------------------------------------------------------------
(* The summaries.                                                          *)

\* A nonempty set of naturals has a least element.
LEMMA LeastNatural ==
    ASSUME NEW T, T \subseteq Nat, T # {}
    PROVE  \E t \in T : \A u \in T : t <= u
<1> DEFINE R == OpToRel(<, Nat)
<1>1. IsWellFoundedOn(R, Nat)
  BY NatLessThanWellFounded, Zenon
<1>2. \A x, y \in Nat : y < x => <<y, x>> \in R
  BY DEF OpToRel
<1> HIDE DEF R
<1>3. PICK t \in T : \A u \in T : ~(<<u, t>> \in R)
  BY <1>1, WFMin
<1>4. \A u \in T : ~(u < t)
  BY <1>2, <1>3, Zenon
<1>5. \A u \in T : t <= u
  BY SMT, <1>4
<1> QED
  BY <1>5

\* The topology's timeout is at most that of every data-bearing server.
TimeoutInv(td) ==
    /\ td.sessionTimeout \in Nat \cup {None}
    /\ \A a \in Known(td) : td.servers[a].sessionTimeout \in Nat \cup {None}
    /\ td.sessionTimeout # None =>
         \A a \in Known(td) :
            td.servers[a].type \in DataBearing =>
                /\ td.servers[a].sessionTimeout # None
                /\ td.sessionTimeout <= td.servers[a].sessionTimeout

\* The least timeout is one.
LEMMA LeastTimeout ==
    ASSUME NEW td, \A a \in Known(td) : td.servers[a].sessionTimeout \in Nat \cup {None}
    PROVE  LET t == LeastSessionTimeout(td)
           IN /\ t \in Nat \cup {None}
              /\ t # None => \A a \in Known(td) : td.servers[a].type \in DataBearing =>
                     td.servers[a].sessionTimeout # None /\ t <= td.servers[a].sessionTimeout
<1> DEFINE timeouts == {td.servers[a].sessionTimeout :
                          a \in {b \in Known(td) : td.servers[b].type \in DataBearing}}
           t == LeastSessionTimeout(td)
<1>1. t = IF timeouts = {} \/ None \in timeouts THEN None
          ELSE CHOOSE s \in timeouts : \A u \in timeouts : s <= u
  BY DEF LeastSessionTimeout
<1> HIDE DEF t
<1>2. CASE timeouts = {} \/ None \in timeouts
  BY <1>1, <1>2 DEF t
<1>3. CASE timeouts # {} /\ None \notin timeouts
  <2>1. timeouts \subseteq Nat
    BY <1>3
  <2>2. \E s \in timeouts : \A u \in timeouts : s <= u
    BY <2>1, <1>3, LeastNatural
  <2>3. t \in timeouts /\ \A u \in timeouts : t <= u
    BY <1>1, <1>3, <2>2
  <2>4. \A a \in Known(td) : td.servers[a].type \in DataBearing => td.servers[a].sessionTimeout \in timeouts
    OBVIOUS
  <2> HIDE DEF timeouts
  <2> QED
    BY <2>1, <2>3, <2>4, <1>3 DEF t
<1> QED
  BY <1>2, <1>3

\* Storing a server and summing up.
LEMMA SummariesTimeout ==
    ASSUME NEW td, NEW address \in Known(td), NEW sd, Shape(td), TimeoutInv(td),
           sd.sessionTimeout \in Nat \cup {None}
    PROVE  TimeoutInv(UpdateSummaries(Replace(td, address, sd), sd))
<1> DEFINE r == Replace(td, address, sd)
           l == UpdateLogicalSessionTimeout(r, sd)
           u == UpdateSummaries(r, sd)
<1>1. /\ Shape(r) /\ Known(r) = Known(td) /\ r.sessionTimeout = td.sessionTimeout
      /\ \A a \in Known(r) : r.servers[a] = IF a = address THEN sd ELSE td.servers[a]
  <2>1. r.sessionTimeout = td.sessionTimeout
    BY DEF Shape, Replace
  <2> QED
    BY SMT, <2>1, ReplaceCore
<1> HIDE DEF r
<1>2. \A a \in Known(r) : r.servers[a].sessionTimeout \in Nat \cup {None}
  BY <1>1 DEF TimeoutInv
<1>3. TimeoutInv(l) /\ Shape(l)
  <2>1. CASE sd.type \notin DataBearing
    <3>1. l = r
      BY <2>1 DEF UpdateLogicalSessionTimeout
    <3> QED
      BY <2>1, <3>1, <1>1, <1>2 DEF TimeoutInv
  <2>2. CASE sd.type \in DataBearing
    <3> DEFINE t == IF sd.sessionTimeout = None THEN None
                    ELSE IF r.sessionTimeout = None THEN LeastSessionTimeout(r)
                    ELSE IF sd.sessionTimeout < r.sessionTimeout THEN sd.sessionTimeout
                    ELSE r.sessionTimeout
    <3>1. l = [r EXCEPT !.sessionTimeout = t]
      BY <2>2 DEF UpdateLogicalSessionTimeout
    <3>2. /\ t \in Nat \cup {None}
          /\ t # None => \A a \in Known(r) : r.servers[a].type \in DataBearing =>
                 r.servers[a].sessionTimeout # None /\ t <= r.servers[a].sessionTimeout
      <4>1. CASE sd.sessionTimeout = None
        BY <4>1
      <4>2. CASE sd.sessionTimeout # None /\ r.sessionTimeout = None
        BY <4>2, <1>2, LeastTimeout
      <4>3. CASE sd.sessionTimeout # None /\ r.sessionTimeout # None
        <5>1. sd.sessionTimeout \in Nat /\ r.sessionTimeout \in Nat /\ t \in Nat
              /\ t <= sd.sessionTimeout /\ t <= r.sessionTimeout
          BY SMT, <4>3, <1>1 DEF TimeoutInv
        <5> HIDE DEF t
        <5> QED
          BY SMT, <5>1, <4>3, <1>1 DEF TimeoutInv
      <4> QED
        BY <4>1, <4>2, <4>3
    <3> HIDE DEF t
    <3>3. Shape(l) /\ l.sessionTimeout = t /\ l.servers = r.servers
      BY <3>1, <1>1 DEF Shape
    <3> HIDE DEF l
    <3> QED
      BY <3>2, <3>3, <1>2 DEF TimeoutInv, Known
  <2> QED
    BY <2>1, <2>2
<1> HIDE DEF l
<1>4. u.sessionTimeout = l.sessionTimeout /\ u.servers = l.servers
  BY <1>3 DEF Shape, UpdateSummaries, UpdateTransactionSupportStatus, AdvanceClusterTime, l, u
<1> QED
  BY <1>3, <1>4 DEF TimeoutInv, Known, u, r

\* The description of a server that update stores, in a topology with monitors.
LEMMA UpdateTimeout ==
    ASSUME NEW td, NEW address, NEW sd, Fits(td), td.type # "LoadBalanced", TimeoutInv(td),
           sd.sessionTimeout \in Nat \cup {None}
    PROVE  TimeoutInv(Update(td, address, sd))
<1> DEFINE accepted == IF WrongSetName(td, sd) THEN NewServer ELSE sd
           summed == UpdateSummaries(Replace(td, address, accepted), accepted)
           typed == UpdateByType(summed, address, accepted)
           checked == CheckCompatibility(typed)
           u == Update(td, address, sd)
<1>1. u = td \/ (address \in Known(td) /\ u \in {typed, checked})
  BY DEF Update
<1>2. NewServer.sessionTimeout = None /\ NewServer.type = "Unknown"
  BY DEF NewServer, UnknownServer
<1>3. accepted.sessionTimeout \in Nat \cup {None}
  BY <1>2
<1> HIDE DEF u, accepted
<1> SUFFICES ASSUME address \in Known(td), u \in {typed, checked} PROVE TimeoutInv(u)
  BY <1>1 DEF u
<1>4. TimeoutInv(summed) /\ Shape(summed)
  BY <1>3, SummariesTimeout, StoreFits DEF Fits, Stored
<1> HIDE DEF summed
<1>5. PICK hosts : Descends(typed, summed, hosts)
  <2>1. PICK hosts : accepted.hosts \in {Garbled, hosts}
    OBVIOUS
  <2> QED
    BY <2>1, <1>4, ByTypeDescends
<1> HIDE DEF typed
<1>6. TimeoutInv(typed) /\ Shape(typed)
  BY <1>2, <1>4, <1>5 DEF Descends, TimeoutInv, DataBearing
<1>7. checked.sessionTimeout = typed.sessionTimeout /\ checked.servers = typed.servers
  <2>1. ASSUME NEW v
        PROVE  LET c == [typed EXCEPT !.compatible = v]
               IN c.sessionTimeout = typed.sessionTimeout /\ c.servers = typed.servers
    BY <1>6 DEF Shape
  <2> QED
    BY <2>1, Zenon DEF CheckCompatibility
<1> HIDE DEF checked
<1> QED
  BY <1>6, <1>7 DEF TimeoutInv, Known

\* Compatibility is recorded exactly.
CompatibilityInv(td) ==
    td.compatible <=> \A a \in Known(td) : ~Incompatible(td.servers[a])

\* update recomputes the compatibility.
LEMMA UpdateCompatibility ==
    ASSUME NEW td, NEW address, NEW sd, Fits(td), td.type # "LoadBalanced", CompatibilityInv(td),
           sd.type \in MemberTypes \cup {"RsPrimary"} => Garbled \notin {sd.hosts, sd.me}
    PROVE  CompatibilityInv(Update(td, address, sd))
<1> DEFINE accepted == IF WrongSetName(td, sd) THEN NewServer ELSE sd
           summed == UpdateSummaries(Replace(td, address, accepted), accepted)
           typed == UpdateByType(summed, address, accepted)
           checked == CheckCompatibility(typed)
           u == Update(td, address, sd)
<1>1. ~ParseFails(td, accepted)
  BY DEF ParseFails, WrongSetName, ReplicaSetTypes, NewServer, UnknownServer, MemberTypes
<1>2. u = td \/ (address \in Known(td) /\ u = checked)
  BY <1>1 DEF Update
<1> HIDE DEF u, accepted
<1> SUFFICES ASSUME address \in Known(td), u = checked PROVE CompatibilityInv(u)
  BY <1>2 DEF u
<1>3. Shape(summed)
  BY StoreFits DEF Stored
<1> HIDE DEF summed
<1>4. Shape(typed)
  <2>1. PICK hosts : accepted.hosts \in {Garbled, hosts}
    OBVIOUS
  <2> QED
    BY <2>1, <1>3, ByTypeDescends DEF Descends
<1> HIDE DEF typed
<1>5. /\ checked.servers = typed.servers
      /\ checked.compatible = \A a \in Known(typed) : ~Incompatible(typed.servers[a])
  <2>1. ASSUME NEW v
        PROVE  LET c == [typed EXCEPT !.compatible = v]
               IN c.compatible = v /\ c.servers = typed.servers
    BY <1>4 DEF Shape
  <2> QED
    BY <2>1, Zenon DEF CheckCompatibility
<1> HIDE DEF checked
<1> QED
  BY <1>5 DEF CompatibilityInv, Known

\* sync_hosts keeps the servers that are listed and adds new ones of the list.
LEMMA SyncDescends ==
    ASSUME NEW td, NEW hosts, NEW u \in SyncHosts(td, hosts), Shape(td)
    PROVE  /\ Descends(u, td, hosts) /\ SameElections(u, td) /\ u.type = td.type
           /\ Known(u) \subseteq hosts
           /\ \E c \in SUBSET hosts :
                 /\ Known(u) = (Known(td) \cap hosts) \cup c
                 /\ SrvMaxHosts > 0 /\ SrvMaxHosts < Cardinality(hosts) =>
                       LET room == SrvMaxHosts - Cardinality(Known(td) \cap hosts)
                       IN Cardinality(c) = IF room < 0 THEN 0 ELSE room
<1> DEFINE kept == Remove(td, Known(td) \ hosts)
           new == hosts \ Known(kept)
           room == SrvMaxHosts - Cardinality(Known(kept))
           limited == SrvMaxHosts > 0 /\ SrvMaxHosts < Cardinality(hosts)
           chosen == IF ~limited THEN {new} ELSE kSubset(IF room < 0 THEN 0 ELSE room, new)
<1>1. PICK c \in chosen : u = AddNewServers(kept, c)
  BY DEF SyncHosts
<1>2. /\ Shape(kept) /\ kept.type = td.type /\ SameElections(kept, td)
      /\ Known(kept) = Known(td) \cap hosts
      /\ Descends(kept, td, hosts)
  <2>1. Descends(kept, td, hosts)
    BY DescendsBasics
  <2>2. /\ Shape(kept) /\ kept.type = td.type /\ SameElections(kept, td)
        /\ Known(kept) = Known(td) \ (Known(td) \ hosts)
    BY RemoveCore DEF SameElections
  <2> HIDE DEF kept
  <2> QED
    BY <2>1, <2>2
<1>3. /\ c \in SUBSET new
      /\ limited => Cardinality(c) = IF room < 0 THEN 0 ELSE room
  BY <1>1 DEF kSubset
<1> HIDE DEF kept
<1>4. c \in SUBSET hosts
  BY <1>3
<1>5. /\ Descends(u, kept, c) /\ SameElections(u, kept) /\ u.type = kept.type
      /\ Known(u) = Known(kept) \cup c
  BY <1>1, <1>2, DescendsBasics, AddCore DEF SameElections
<1>6. Descends(u, td, hosts) /\ SameElections(u, td) /\ u.type = td.type
  BY <1>2, <1>4, <1>5 DEF Descends, SameElections
<1>7. limited => Cardinality(c) = IF SrvMaxHosts - Cardinality(Known(td) \cap hosts) < 0 THEN 0
                                  ELSE SrvMaxHosts - Cardinality(Known(td) \cap hosts)
  BY <1>2, <1>3
<1> QED
  BY <1>2, <1>4, <1>5, <1>6, <1>7

-----------------------------------------------------------------------------
(* The conditional theorems.                                               *)

\* Gossiped times change none of the fields the invariants are about.
LEMMA GossipCore ==
    ASSUME NEW td, NEW t, Shape(td)
    PROVE  LET u == AdvanceClusterTime(td, t)
           IN /\ Shape(u) /\ SameCore(u, td) /\ Known(u) = Known(td) /\ Primaries(u) = Primaries(td)
              /\ u.sessionTimeout = td.sessionTimeout /\ u.compatible = td.compatible
BY SMT DEF Shape, SameCore, AdvanceClusterTime, Known, Primaries

\* What errors are stored as.
LEMMA UnknownReply ==
    ASSUME NEW v
    PROVE  LET sd == UnknownServer(v)
           IN /\ WellFormedReply(sd) /\ sd.type = "Unknown" /\ sd.hosts = {}
              /\ sd.setVersion \in Int \cup {None} /\ sd.electionId \in Nat \cup {None}
              /\ sd.sessionTimeout \in Nat \cup {None}
BY DEF UnknownServer, WellFormedReply, ServerTypes, MemberTypes

\* The first description.
LEMMA InitSummaries ==
    ASSUME Init
    PROVE  /\ description.maxSetVersion = None /\ description.maxElectionId = None
           /\ Primaries(description) = {}
           /\ TimeoutInv(description) /\ CompatibilityInv(description)
           /\ \E o \in Options : Known(description) = o.hosts
<1>1. PICK o \in Options :
        description = IF o.loadBalanced
                      THEN Update(Initialize(o), CHOOSE a \in o.hosts : TRUE, LoadBalancerServer)
                      ELSE Initialize(o)
  BY Zenon DEF Init
<1> DEFINE start == Initialize(o)
           host == CHOOSE a \in o.hosts : TRUE
<1>2. /\ o \in [hosts : SUBSET Addresses, setName : {None} \cup STRING,
                direct : BOOLEAN, loadBalanced : BOOLEAN]
      /\ o.loadBalanced => ~o.direct /\ o.setName = None /\ \E a \in Addresses : o.hosts = {a}
  BY OptionsAssumption
<1>3. /\ Shape(start)
      /\ start.maxSetVersion = None /\ start.maxElectionId = None
      /\ start.sessionTimeout = None /\ start.compatible = TRUE
      /\ Known(start) = o.hosts
      /\ \A a \in Known(start) : start.servers[a] = NewServer
      /\ o.loadBalanced => start.type = "LoadBalanced"
  BY SMT, <1>2 DEF Initialize, Shape, Known, TopologyTypes, ReplicaSetTypes
<1> HIDE DEF start
<1>4. /\ NewServer.type = "Unknown" /\ NewServer.sessionTimeout = None
      /\ LoadBalancerServer.type = "LoadBalancer" /\ LoadBalancerServer.sessionTimeout = None
  BY DEF LoadBalancerServer, NewServer, UnknownServer
<1>5. /\ Known(description) = o.hosts
      /\ description.maxSetVersion = None /\ description.maxElectionId = None
      /\ description.sessionTimeout = None /\ description.compatible = TRUE
      /\ \A a \in Known(description) : description.servers[a] \in {NewServer, LoadBalancerServer}
  <2>1. CASE ~o.loadBalanced
    BY <1>1, <1>3, <2>1 DEF start
  <2>2. CASE o.loadBalanced
    <3>1. host \in Known(start)
      BY <1>2, <1>3, <2>2
    <3>2. description = Replace(start, host, LoadBalancerServer)
      <4>1. ~WrongSetName(start, LoadBalancerServer)
        BY <1>3, <2>2 DEF WrongSetName
      <4>2. ~Outdated(LoadBalancerServer, start.servers[host])
        BY SMT, <3>1, <1>3 DEF Outdated, NewServer, UnknownServer
      <4> QED
        BY <4>1, <4>2, <3>1, <1>1, <1>3, <2>2 DEF Update, start
    <3> HIDE DEF host
    <3>3. /\ Known(description) = Known(start)
          /\ \A a \in Known(description) :
                description.servers[a] = IF a = host THEN LoadBalancerServer ELSE start.servers[a]
          /\ description.maxSetVersion = None /\ description.maxElectionId = None
      BY SMT, <3>1, <3>2, <1>3, ReplaceCore
    <3>4. description.sessionTimeout = None /\ description.compatible = TRUE
      BY <3>2, <1>3 DEF Replace, Shape
    <3> QED
      BY <3>3, <3>4, <1>3
  <2> QED
    BY <2>1, <2>2
<1>6. Primaries(description) = {}
  BY <1>4, <1>5 DEF Primaries
<1>7. TimeoutInv(description)
  BY <1>4, <1>5 DEF TimeoutInv
<1>8. CompatibilityInv(description)
  BY <1>4, <1>5 DEF CompatibilityInv, Incompatible
<1> QED
  BY <1>5, <1>6, <1>7, <1>8

\* Every description of a step comes from update, from gossip or from sync_hosts.
LEMMA StepKinds ==
    ASSUME [Next]_vars
    PROVE  \/ description' = description
           \/ /\ description.type # "LoadBalanced"
              /\ \/ \E a \in Addresses, r \in Replies : description' = Update(description, a, r)
                 \/ \E a \in Addresses, v \in Versions :
                       description' = Update(description, a, UnknownServer(v))
           \/ \E t : description' = AdvanceClusterTime(description, t)
           \/ poll.at = "sent" /\ description' \in SyncHosts(description, poll.hosts)
BY DEF Next, ServerUpdate, MarkServerAsUnknown, GossipClusterTime, StartLookup, FinishLookup,
       ReceiveSyncHosts, vars

\* The primary in the topology is from the newest election of the newest
\* configuration, if primaries report both ids.
THEOREM TopologyNewestPrimary ==
    ASSUME \A r \in Replies : r.type = "RsPrimary" => None \notin {r.setVersion, r.electionId}
    PROVE  Spec => []NewestPrimary
<1>1. Init => NewestInv(description)
  BY InitSummaries DEF NewestInv
<1>2. TdInv(description) /\ NewestInv(description) /\ [Next]_vars => NewestInv(description)'
  <2> SUFFICES ASSUME TdInv(description), NewestInv(description), [Next]_vars
               PROVE  NewestInv(description')
    OBVIOUS
  <2>1. ASSUME NEW a \in Addresses, NEW r \in Replies, description' = Update(description, a, r),
               description.type # "LoadBalanced"
        PROVE  NewestInv(description')
    <3>1. /\ WellFormedReply(r) /\ r.setVersion \in Int \cup {None} /\ r.electionId \in Nat \cup {None}
      BY RepliesAssumption DEF ServerDescriptions
    <3> QED
      BY <2>1, <3>1, UpdateNewest
  <2>2. ASSUME NEW a \in Addresses, NEW v \in Versions, description.type # "LoadBalanced",
               description' = Update(description, a, UnknownServer(v))
        PROVE  NewestInv(description')
    BY <2>2, UnknownReply, UpdateNewest
  <2>3. ASSUME NEW t, description' = AdvanceClusterTime(description, t)
        PROVE  NewestInv(description')
    <3>1. Shape(description)
      BY DEF TdInv, Fits
    <3> QED
      BY SMT, <2>3, <3>1, GossipCore DEF NewestInv, SameCore, IsReplicaSet
  <2>4. ASSUME description' \in SyncHosts(description, poll.hosts)
        PROVE  NewestInv(description')
    <3>1. /\ Descends(description', description, poll.hosts) /\ SameElections(description', description)
          /\ description'.type = description.type
      BY <2>4, SyncDescends DEF TdInv, Fits
    <3>2. NewServer.type = "Unknown"
      BY DEF NewServer, UnknownServer
    <3>3. \A p \in Primaries(description') :
             p \in Primaries(description) /\ description'.servers[p] = description.servers[p]
      BY <3>1, <3>2 DEF Descends, Primaries
    <3> QED
      BY <3>1, <3>3 DEF NewestInv, SameElections, IsReplicaSet
  <2> QED
    BY <2>1, <2>2, <2>3, <2>4, StepKinds
<1>3. NewestInv(description) => NewestPrimary
  BY DEF NewestInv, NewestPrimary
<1> QED
  BY <1>1, <1>2, <1>3, DescriptionInvariant, PTL DEF Spec

\* Without SRV lookups the polling task sleeps.
LEMMA PollSleeps ==
    ASSUME Lookups = {}
    PROVE  Spec => [](poll = Asleep)
<1>1. Init => poll = Asleep
  BY DEF Init
<1>2. poll = Asleep /\ [Next]_vars => (poll = Asleep)'
  BY DEF Next, ServerUpdate, MarkServerAsUnknown, GossipClusterTime, StartLookup, FinishLookup,
         ReceiveSyncHosts, vars, Asleep
<1> QED
  BY <1>1, <1>2, PTL DEF Spec

\* A session is never thought to live longer than any data-bearing server keeps it.
THEOREM TopologySessionTimeout == Spec => []SessionTimeoutLowest
<1>1. Init => TimeoutInv(description)
  BY InitSummaries
<1>2. TdInv(description) /\ TimeoutInv(description) /\ [Next]_vars => TimeoutInv(description)'
  <2> SUFFICES ASSUME TdInv(description), TimeoutInv(description), [Next]_vars
               PROVE  TimeoutInv(description')
    OBVIOUS
  <2>0. Fits(description) /\ Shape(description)
    BY DEF TdInv, Fits
  <2>1. ASSUME NEW a \in Addresses, NEW r \in Replies, description' = Update(description, a, r),
               description.type # "LoadBalanced"
        PROVE  TimeoutInv(description')
    <3>1. r.sessionTimeout \in Nat \cup {None}
      BY RepliesAssumption DEF ServerDescriptions
    <3> QED
      BY <2>0, <2>1, <3>1, UpdateTimeout
  <2>2. ASSUME NEW a \in Addresses, NEW v \in Versions, description.type # "LoadBalanced",
               description' = Update(description, a, UnknownServer(v))
        PROVE  TimeoutInv(description')
    BY <2>0, <2>2, UnknownReply, UpdateTimeout
  <2>3. ASSUME NEW t, description' = AdvanceClusterTime(description, t)
        PROVE  TimeoutInv(description')
    BY SMT, <2>0, <2>3, GossipCore DEF TimeoutInv, SameCore
  <2>4. ASSUME description' \in SyncHosts(description, poll.hosts)
        PROVE  TimeoutInv(description')
    <3>1. Descends(description', description, poll.hosts)
      BY <2>0, <2>4, SyncDescends
    <3>2. NewServer.type = "Unknown" /\ NewServer.sessionTimeout = None
      BY DEF NewServer, UnknownServer
    <3> QED
      BY <3>1, <3>2 DEF Descends, TimeoutInv, DataBearing
  <2> QED
    BY <2>1, <2>2, <2>3, <2>4, StepKinds
<1>3. TimeoutInv(description) => SessionTimeoutLowest
  BY DEF TimeoutInv, SessionTimeoutLowest
<1> QED
  BY <1>1, <1>2, <1>3, DescriptionInvariant, PTL DEF Spec

\* What the description sums up of its servers is right at every moment, if the
\* members' host lists and names parse and no SRV answer removes servers.
THEOREM TopologySummaries ==
    ASSUME Lookups = {},
           \A r \in Replies : r.type \in MemberTypes \cup {"RsPrimary"} => Garbled \notin {r.hosts, r.me}
    PROVE  Spec => []SummariesExact
<1>1. Init => CompatibilityInv(description)
  BY InitSummaries
<1>2. TdInv(description) /\ poll = Asleep /\ CompatibilityInv(description) /\ [Next]_vars
         => CompatibilityInv(description)'
  <2> SUFFICES ASSUME TdInv(description), poll = Asleep, CompatibilityInv(description), [Next]_vars
               PROVE  CompatibilityInv(description')
    OBVIOUS
  <2>0. Fits(description) /\ Shape(description) /\ poll.at # "sent"
    BY DEF TdInv, Fits, Asleep
  <2>1. ASSUME NEW a \in Addresses, NEW r \in Replies, description' = Update(description, a, r),
               description.type # "LoadBalanced"
        PROVE  CompatibilityInv(description')
    BY <2>0, <2>1, UpdateCompatibility
  <2>2. ASSUME NEW a \in Addresses, NEW v \in Versions, description.type # "LoadBalanced",
               description' = Update(description, a, UnknownServer(v))
        PROVE  CompatibilityInv(description')
    BY <2>0, <2>2, UnknownReply, UpdateCompatibility DEF MemberTypes
  <2>3. ASSUME NEW t, description' = AdvanceClusterTime(description, t)
        PROVE  CompatibilityInv(description')
    BY SMT, <2>0, <2>3, GossipCore DEF CompatibilityInv, SameCore
  <2> QED
    BY <2>0, <2>1, <2>2, <2>3, StepKinds
<1>3. CompatibilityInv(description) => CompatibilityExact
  BY DEF CompatibilityInv, CompatibilityExact
<1>4. Spec => []CompatibilityExact
  BY <1>1, <1>2, <1>3, DescriptionInvariant, PollSleeps, PTL DEF Spec
<1>5. SessionTimeoutLowest /\ CompatibilityExact => SummariesExact
  BY DEF SummariesExact
<1> QED
  BY <1>4, <1>5, TopologySessionTimeout, PTL

-----------------------------------------------------------------------------
(* The number of servers.                                                  *)

\* The client options come with finitely many hosts, no more than srv_max_hosts.
HostsBounded ==
    /\ SrvMaxHosts \in Nat
    /\ IsFiniteSet(Addresses)
    /\ \A hosts \in Lookups : hosts \subseteq Addresses
    /\ \A o \in Options : SrvMaxHosts > 0 => Cardinality(o.hosts) <= SrvMaxHosts

\* The servers are addresses, and few enough.
SrvInv(td) ==
    /\ Known(td) \subseteq Addresses
    /\ SrvMaxHosts > 0 /\ ~IsReplicaSet(td) => Cardinality(Known(td)) <= SrvMaxHosts

\* update adds servers only to replica sets.
LEMMA UpdateSrv ==
    ASSUME NEW td, NEW address, NEW sd, TdInv(td), td.type # "LoadBalanced", WellFormedReply(sd),
           HostsBounded, SrvInv(td), sd.hosts = Garbled \/ sd.hosts \subseteq Addresses
    PROVE  SrvInv(Update(td, address, sd))
<1> DEFINE u == Update(td, address, sd)
<1>1. u = td \/ IsReplicaSet(u) \/ OtherTopology(u, td)
  BY UpdatePrimaries DEF KeepsPrimaries, TakesPrimary
<1>2. Known(u) \subseteq Addresses
  <2>1. PICK hosts : sd.hosts \in {Garbled, hosts} /\ hosts \subseteq Addresses
    BY SMT
  <2>2. Known(u) \subseteq Known(td) \cup hosts
    BY <2>1, UpdateServers DEF TdInv
  <2> QED
    BY <2>1, <2>2 DEF SrvInv
<1> HIDE DEF u
<1>3. OtherTopology(u, td) => Cardinality(Known(u)) <= Cardinality(Known(td))
                              /\ Cardinality(Known(u)) \in Nat /\ Cardinality(Known(td)) \in Nat
  <2>1. IsFiniteSet(Known(td)) /\ IsFiniteSet(Known(u))
    BY <1>2, FS_Subset DEF SrvInv, HostsBounded
  <2> QED
    BY <2>1, FS_Subset, FS_CardinalityType DEF OtherTopology
<1> QED
  BY SMT, <1>1, <1>2, <1>3 DEF SrvInv, OtherTopology, HostsBounded, u

\* sync_hosts leaves no more than srv_max_hosts.
LEMMA SyncSrv ==
    ASSUME NEW td, NEW hosts \in SUBSET Addresses, NEW u \in SyncHosts(td, hosts), Shape(td),
           HostsBounded, SrvInv(td)
    PROVE  SrvInv(u)
<1>1. PICK c \in SUBSET hosts :
        /\ Known(u) = (Known(td) \cap hosts) \cup c
        /\ SrvMaxHosts > 0 /\ SrvMaxHosts < Cardinality(hosts) =>
              LET room == SrvMaxHosts - Cardinality(Known(td) \cap hosts)
              IN Cardinality(c) = IF room < 0 THEN 0 ELSE room
  BY SMT, SyncDescends
<1>2. u.type = td.type /\ Known(u) \subseteq hosts
  BY SyncDescends
<1> DEFINE kept == Known(td) \cap hosts
<1>3. /\ IsFiniteSet(hosts) /\ IsFiniteSet(Known(td)) /\ IsFiniteSet(Known(u))
      /\ IsFiniteSet(kept) /\ IsFiniteSet(c) /\ IsFiniteSet(kept \cap c)
  BY <1>2, FS_Subset DEF SrvInv, HostsBounded
<1>4. /\ Cardinality(hosts) \in Nat /\ Cardinality(Known(td)) \in Nat /\ Cardinality(Known(u)) \in Nat
      /\ Cardinality(kept) \in Nat /\ Cardinality(c) \in Nat /\ Cardinality(kept \cap c) \in Nat
  BY <1>3, FS_CardinalityType
<1>5. /\ Cardinality(kept) <= Cardinality(Known(td))
      /\ Cardinality(Known(u)) <= Cardinality(hosts)
      /\ Cardinality(Known(u)) = Cardinality(kept) + Cardinality(c) - Cardinality(kept \cap c)
  <2>1. Cardinality(kept) <= Cardinality(Known(td)) /\ Cardinality(Known(u)) <= Cardinality(hosts)
    BY <1>2, <1>3, FS_Subset
  <2> QED
    BY <2>1, <1>1, <1>3, FS_Union
<1> HIDE DEF kept
<1>6. SrvMaxHosts > 0 /\ Cardinality(Known(td)) <= SrvMaxHosts => Cardinality(Known(u)) <= SrvMaxHosts
  BY SMT, <1>1, <1>4, <1>5 DEF HostsBounded, kept
<1> QED
  BY <1>2, <1>6 DEF SrvInv, IsReplicaSet

\* The hosts that are on their way to the worker are addresses.
LEMMA PollHosts ==
    ASSUME HostsBounded
    PROVE  Spec => [](poll.at = "sent" => poll.hosts \subseteq Addresses)
<1> DEFINE P == poll.at = "sent" => poll.hosts \subseteq Addresses
<1>1. Init => P
  BY SMT DEF Init, Asleep
<1>2. P /\ [Next]_vars => P'
  BY SMT DEF Next, ServerUpdate, MarkServerAsUnknown, GossipClusterTime, StartLookup, FinishLookup,
         ReceiveSyncHosts, vars, Asleep, HostsBounded
<1> QED
  BY <1>1, <1>2, PTL DEF Spec

\* A topology that is not a replica set stays within srv_max_hosts, whatever
\* the SRV lookups return.
THEOREM TopologySrvMaxHosts ==
    ASSUME HostsBounded
    PROVE  Spec => []WithinSrvMaxHosts
<1>1. Init => SrvInv(description)
  BY InitSummaries, OptionsAssumption DEF SrvInv, HostsBounded
<1>2. /\ TdInv(description) /\ SrvInv(description)
      /\ poll.at = "sent" => poll.hosts \subseteq Addresses
      /\ [Next]_vars
      => SrvInv(description)'
  <2> SUFFICES ASSUME TdInv(description), SrvInv(description), [Next]_vars,
                      poll.at = "sent" => poll.hosts \subseteq Addresses
               PROVE  SrvInv(description')
    OBVIOUS
  <2>0. Fits(description) /\ Shape(description)
    BY DEF TdInv, Fits
  <2>1. ASSUME NEW a \in Addresses, NEW r \in Replies, description' = Update(description, a, r),
               description.type # "LoadBalanced"
        PROVE  SrvInv(description')
    <3>1. WellFormedReply(r) /\ (r.hosts = Garbled \/ r.hosts \subseteq Addresses)
      BY RepliesAssumption DEF ServerDescriptions
    <3> QED
      BY <2>1, <3>1, UpdateSrv
  <2>2. ASSUME NEW a \in Addresses, NEW v \in Versions, description.type # "LoadBalanced",
               description' = Update(description, a, UnknownServer(v))
        PROVE  SrvInv(description')
    <3>1. LET sd == UnknownServer(v) IN WellFormedReply(sd) /\ sd.hosts = {}
      BY UnknownReply
    <3> QED
      BY <2>2, <3>1, UpdateSrv
  <2>3. ASSUME NEW t, description' = AdvanceClusterTime(description, t)
        PROVE  SrvInv(description')
    BY <2>0, <2>3, GossipCore DEF SrvInv, SameCore, IsReplicaSet
  <2>4. ASSUME poll.at = "sent", description' \in SyncHosts(description, poll.hosts)
        PROVE  SrvInv(description')
    BY <2>0, <2>4, SyncSrv
  <2> QED
    BY <2>1, <2>2, <2>3, <2>4, StepKinds
<1>3. SrvInv(description) => WithinSrvMaxHosts
  BY DEF SrvInv, WithinSrvMaxHosts
<1> QED
  BY <1>1, <1>2, <1>3, DescriptionInvariant, PollHosts, PTL DEF Spec

\* The servers are those the primary lists, and few enough, if no SRV answer
\* adds hosts of its own.
THEOREM TopologyHostsListed ==
    ASSUME HostsBounded, Lookups = {}
    PROVE  Spec => []HostsListed
<1>1. Init => ListedInv(description)
  BY InitSummaries DEF ListedInv
<1>2. TdInv(description) /\ poll = Asleep /\ ListedInv(description) /\ [Next]_vars
         => ListedInv(description)'
  <2> SUFFICES ASSUME TdInv(description), poll = Asleep, ListedInv(description), [Next]_vars
               PROVE  ListedInv(description')
    OBVIOUS
  <2>0. Shape(description) /\ poll.at # "sent"
    BY DEF TdInv, Fits, Asleep
  <2>1. ASSUME NEW a \in Addresses, NEW r \in Replies, description' = Update(description, a, r),
               description.type # "LoadBalanced"
        PROVE  ListedInv(description')
    BY <2>1, RepliesAssumption, UpdateListed
  <2>2. ASSUME NEW a \in Addresses, NEW v \in Versions, description.type # "LoadBalanced",
               description' = Update(description, a, UnknownServer(v))
        PROVE  ListedInv(description')
    BY <2>2, UnknownReply, UpdateListed
  <2>3. ASSUME NEW t, description' = AdvanceClusterTime(description, t)
        PROVE  ListedInv(description')
    BY SMT, <2>0, <2>3, GossipCore DEF ListedInv, SameCore, IsReplicaSet
  <2> QED
    BY <2>0, <2>1, <2>2, <2>3, StepKinds
<1>3. ListedInv(description) => PrimaryHosts
  BY DEF ListedInv, PrimaryHosts
<1>4. PrimaryHosts /\ WithinSrvMaxHosts => HostsListed
  BY DEF HostsListed
<1> QED
  BY <1>1, <1>2, <1>3, <1>4, DescriptionInvariant, PollSleeps, TopologySrvMaxHosts, PTL DEF Spec
==================================================================================
