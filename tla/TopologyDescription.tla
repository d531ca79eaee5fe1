------------------------- MODULE TopologyDescription -------------------------
(***************************************************************************)
(* The driver's picture of a deployment: `TopologyDescription` in          *)
(* sdam/description/topology.rs, with the parts of `ServerDescription` it  *)
(* reads (sdam/description/server.rs), and the task that polls SRV records *)
(* (sdam/srv_polling.rs).                                                  *)
(*                                                                         *)
(* Every method of the description is an operator from a description to a  *)
(* description; the state machine applies them in the order in which the   *)
(* topology worker receives server checks, errors, cluster times and SRV   *)
(* answers, which is any order: the servers are monitored by independent   *)
(* tasks.                                                                  *)
(*                                                                         *)
(* A server description is a record whose fields are the fields of a hello *)
(* reply that the description looks at.  Host names are addresses already; *)
(* Garbled stands for a `hosts` list or a `me` that does not parse as an   *)
(* address, which makes `update` return early with an error that its only  *)
(* caller drops (sdam/topology.rs, update_server).                         *)
(***************************************************************************)
EXTENDS Integers, FiniteSets, FiniteSetsExt

CONSTANTS
    Addresses,     \* addresses a client can be told of
    Options,       \* the client options a topology may start with
    Replies,       \* the hello replies servers may send, as descriptions
    Versions,      \* topology versions an error may carry
    Lookups,       \* the host sets an SRV lookup may return
    ClusterTimes,  \* cluster times gossiped by operations
    SrvMaxHosts,   \* srv_max_hosts, 0 for no limit
    None,          \* Option::None
    Garbled        \* a host name that does not parse

VARIABLES
    description,   \* the TopologyDescription
    poll           \* the SRV polling task: what it is about to do

vars == <<description, poll>>

-----------------------------------------------------------------------------
(* Server descriptions.                                                    *)

ServerTypes ==
    {"Standalone", "Mongos", "RsPrimary", "RsSecondary", "RsArbiter",
     "RsOther", "RsGhost", "LoadBalancer", "Unknown"}

\* The replica set members that are not primaries.
MemberTypes == {"RsSecondary", "RsArbiter", "RsOther"}

DataBearing == {"Standalone", "RsPrimary", "RsSecondary", "Mongos", "LoadBalancer"}

\* The wire versions this driver speaks.
DRIVER_MIN_WIRE_VERSION == 9
DRIVER_MAX_WIRE_VERSION == 29

\* A topology version: the server process that counts, and its counter.
TopologyVersions == [process : Nat, counter : Int]

ServerDescriptions ==
    [type : ServerTypes, setName : {None} \cup STRING,
     hosts : {Garbled} \cup SUBSET Addresses, me : Addresses \cup {None, Garbled},
     setVersion : {None} \cup Int, electionId : {None} \cup Nat,
     topologyVersion : {None} \cup TopologyVersions,
     sessionTimeout : {None} \cup Nat,
     minWire : Nat, maxWire : {None} \cup Nat, clusterTime : {None} \cup Nat]

\* The servers that HelloCommandResponse::server_type tells apart: a member of a
\* replica set is one that reports the name of its set.
WellFormedReply(sd) ==
    /\ sd.type \in ServerTypes \ {"LoadBalancer"}
    /\ sd.type \in MemberTypes \cup {"RsPrimary"} => sd.setName # None

\* ServerDescription::new_from_error: nothing is known but, when a command
\* error carries one, a topology version.
UnknownServer(version) ==
    [type |-> "Unknown", setName |-> None, hosts |-> {}, me |-> None,
     setVersion |-> None, electionId |-> None, topologyVersion |-> version,
     sessionTimeout |-> None, minWire |-> 0, maxWire |-> None, clusterTime |-> None]

\* ServerDescription::new.
NewServer == UnknownServer(None)

\* Does this server have a compatibility error message?  A description without
\* a reply has none.
Incompatible(sd) ==
    /\ sd.type \notin {"Unknown", "LoadBalancer"}
    /\ \/ sd.minWire > DRIVER_MAX_WIRE_VERSION
       \/ sd.maxWire = None
       \/ sd.maxWire # None /\ sd.maxWire < DRIVER_MIN_WIRE_VERSION

\* The server calls itself something else than the address it was reached by.
InvalidMe(address, sd) == sd.me # None /\ sd.me # address

\* A server's older answer: same process, smaller counter.
Outdated(sd, existing) ==
    /\ existing.topologyVersion # None
    /\ sd.topologyVersion # None
    /\ existing.topologyVersion.process = sd.topologyVersion.process
    /\ sd.topologyVersion.counter < existing.topologyVersion.counter

-----------------------------------------------------------------------------
(* Topology descriptions.                                                  *)

ReplicaSetTypes == {"ReplicaSetNoPrimary", "ReplicaSetWithPrimary"}

TopologyTypes == ReplicaSetTypes \cup {"Single", "Sharded", "LoadBalanced", "Unknown"}

\* Hello replies, and the options that pass validation: a load-balanced client
\* has one host, no set name and no direct connection.
ASSUME RepliesAssumption ==
    \A r \in Replies : r \in ServerDescriptions /\ WellFormedReply(r)

ASSUME OptionsAssumption ==
    \A o \in Options :
        /\ o \in [hosts : SUBSET Addresses, setName : {None} \cup STRING,
                  direct : BOOLEAN, loadBalanced : BOOLEAN]
        /\ o.loadBalanced => ~o.direct /\ o.setName = None /\ \E a \in Addresses : o.hosts = {a}

Known(td) == DOMAIN td.servers

IsReplicaSet(td) == td.type \in ReplicaSetTypes

Primaries(td) == {a \in Known(td) : td.servers[a].type = "RsPrimary"}

\* TopologyDescription::initialize.
Initialize(options) ==
    LET type == CASE options.direct -> "Single"
                  [] ~options.direct /\ options.setName # None -> "ReplicaSetNoPrimary"
                  [] ~options.direct /\ options.setName = None /\ options.loadBalanced -> "LoadBalanced"
                  [] OTHER -> "Unknown"
    IN [singleSeed |-> Cardinality(options.hosts) = 1,
        type |-> type,
        setName |-> options.setName,
        maxSetVersion |-> None,
        maxElectionId |-> None,
        compatible |-> TRUE,
        sessionTimeout |-> None,
        transactions |-> IF type = "LoadBalanced" THEN "Supported" ELSE "Undetermined",
        clusterTime |-> None,
        servers |-> [a \in options.hosts |-> NewServer]]

\* HashMap::insert of a server that is there, and HashMap::remove.
Replace(td, address, sd) == [td EXCEPT !.servers = [@ EXCEPT ![address] = sd]]
Remove(td, addresses) ==
    [td EXCEPT !.servers = [a \in Known(td) \ addresses |-> td.servers[a]]]

AddNewServers(td, hosts) ==
    [td EXCEPT !.servers = [a \in Known(td) \cup hosts |->
                              IF a \in Known(td) THEN td.servers[a] ELSE NewServer]]

RecordPrimaryState(td) ==
    [td EXCEPT !.type = IF Primaries(td) # {} THEN "ReplicaSetWithPrimary"
                                              ELSE "ReplicaSetNoPrimary"]

CheckCompatibility(td) ==
    [td EXCEPT !.compatible = \A a \in Known(td) : ~Incompatible(td.servers[a])]

\* The least timeout of the data-bearing servers, None being less than any.
LeastSessionTimeout(td) ==
    LET timeouts == {td.servers[a].sessionTimeout :
                       a \in {b \in Known(td) : td.servers[b].type \in DataBearing}}
    IN IF timeouts = {} \/ None \in timeouts THEN None
       ELSE CHOOSE t \in timeouts : \A u \in timeouts : t <= u

\* Mutant: the last server to answer decides.
UpdateLogicalSessionTimeout_Last(td, sd) ==
    IF sd.type \notin DataBearing THEN td ELSE [td EXCEPT !.sessionTimeout = sd.sessionTimeout]

UpdateLogicalSessionTimeout(td, sd) ==
    IF sd.type \notin DataBearing THEN td
    ELSE [td EXCEPT !.sessionTimeout =
            IF sd.sessionTimeout = None THEN None
            ELSE IF @ = None THEN LeastSessionTimeout(td)
            ELSE IF sd.sessionTimeout < @ THEN sd.sessionTimeout ELSE @]

UpdateTransactionSupportStatus(td, sd) ==
    [td EXCEPT !.transactions =
       IF sd.maxWire # None
       THEN IF sd.maxWire < 7 \/ (sd.maxWire < 8 /\ td.type = "Sharded")
            THEN "Unsupported" ELSE "Supported"
       ELSE IF td.sessionTimeout = None THEN "Unsupported" ELSE @]

AdvanceClusterTime(td, time) ==
    [td EXCEPT !.clusterTime =
       IF time # None /\ (@ = None \/ @ < time) THEN time ELSE @]

\* sync_hosts keeps the servers that are still listed and adds, of the new
\* ones, all or as many as srv_max_hosts leaves room for, chosen at random.
SyncHosts(td, hosts) ==
    LET kept == Remove(td, Known(td) \ hosts)
        new == hosts \ Known(kept)
        room == SrvMaxHosts - Cardinality(Known(kept))
        limited == SrvMaxHosts > 0 /\ SrvMaxHosts < Cardinality(hosts)
        chosen == IF ~limited THEN {new}
                  ELSE kSubset(IF room < 0 THEN 0 ELSE room, new)
    IN {AddNewServers(kept, c) : c \in chosen}

-----------------------------------------------------------------------------
(* update: what a new server description does to a topology description.   *)

UpdateUnknownWithStandaloneServer(td, address) ==
    IF td.singleSeed THEN [td EXCEPT !.type = "Single"] ELSE Remove(td, {address})

\* A secondary, arbiter or other member speaks while no primary is known.
UpdateRsWithoutPrimaryServer(td, address, sd) ==
    LET named == [td EXCEPT !.setName = IF @ = None THEN sd.setName ELSE @]
        joined == AddNewServers(named, sd.hosts)
    IN IF named.setName # sd.setName THEN Remove(td, {address})
       ELSE IF sd.hosts = Garbled THEN named
       ELSE IF sd.me # Garbled /\ InvalidMe(address, sd) THEN Remove(joined, {address})
       ELSE joined

\* Mutant: the member's hosts are added although there is a primary.
UpdateRsWithPrimaryFromMember_AddsHosts(td, address, sd) ==
    IF \/ td.setName # sd.setName
       \/ sd.me # Garbled /\ InvalidMe(address, sd)
    THEN RecordPrimaryState(Remove(td, {address}))
    ELSE IF sd.hosts = Garbled THEN td ELSE AddNewServers(td, sd.hosts)

\* The same while a primary is known.
UpdateRsWithPrimaryFromMember(td, address, sd) ==
    IF \/ td.setName # sd.setName
       \/ sd.me # Garbled /\ InvalidMe(address, sd)
    THEN RecordPrimaryState(Remove(td, {address}))
    ELSE td

\* The server reports both a set version and an election id, the topology has
\* seen both, and what it has seen is newer.
StalePrimary(td, sd) ==
    /\ None \notin {sd.setVersion, sd.electionId, td.maxSetVersion, td.maxElectionId}
    /\ \/ td.maxSetVersion > sd.setVersion
       \/ td.maxSetVersion = sd.setVersion /\ td.maxElectionId > sd.electionId

\* Mutant: the highest election id of any configuration is kept.
RecordElection_Highest(td, sd) ==
    [td EXCEPT
       !.maxElectionId = IF None \notin {sd.setVersion, sd.electionId} /\ (@ = None \/ @ < sd.electionId)
                         THEN sd.electionId ELSE @,
       !.maxSetVersion = IF sd.setVersion # None /\ (@ = None \/ sd.setVersion > @)
                         THEN sd.setVersion ELSE @]

\* What the topology remembers of the elections and configurations it has seen.
RecordElection(td, sd) ==
    LET elected == [td EXCEPT !.maxElectionId =
                      IF None \notin {sd.setVersion, sd.electionId} THEN sd.electionId ELSE @]
    IN [elected EXCEPT !.maxSetVersion =
          IF sd.setVersion # None /\ (@ = None \/ sd.setVersion > @) THEN sd.setVersion ELSE @]

\* Mutant: the primaries of earlier checks stay.
InvalidateOtherPrimaries_Kept(td, address) == td

\* Every other primary becomes an unknown server.
InvalidateOtherPrimaries(td, address) ==
    [td EXCEPT !.servers = [a \in Known(td) |->
                              IF a \in Primaries(td) \ {address} THEN NewServer
                              ELSE td.servers[a]]]

UpdateRsFromPrimaryServer(td, address, sd) ==
    LET named == [td EXCEPT !.setName = IF @ = None THEN sd.setName ELSE @]
        only == InvalidateOtherPrimaries(RecordElection(named, sd), address)
    IN IF named.setName # sd.setName THEN RecordPrimaryState(Remove(td, {address}))
       ELSE IF StalePrimary(td, sd) THEN RecordPrimaryState(Replace(named, address, NewServer))
       ELSE IF sd.hosts = Garbled THEN only
       ELSE RecordPrimaryState(Remove(AddNewServers(only, sd.hosts), Known(td) \ sd.hosts))

UpdateUnknownTopology(td, address, sd) ==
    CASE sd.type = "Standalone" -> UpdateUnknownWithStandaloneServer(td, address)
      [] sd.type = "Mongos" -> [td EXCEPT !.type = "Sharded"]
      [] sd.type = "RsPrimary" ->
           UpdateRsFromPrimaryServer([td EXCEPT !.type = "ReplicaSetWithPrimary"], address, sd)
      [] sd.type \in MemberTypes ->
           UpdateRsWithoutPrimaryServer([td EXCEPT !.type = "ReplicaSetNoPrimary"], address, sd)
      [] OTHER -> td

UpdateShardedTopology(td, address, sd) ==
    IF sd.type \in {"Unknown", "Mongos"} THEN td ELSE Remove(td, {address})

UpdateReplicaSetNoPrimaryTopology(td, address, sd) ==
    CASE sd.type \in {"Standalone", "Mongos"} -> Remove(td, {address})
      [] sd.type = "RsPrimary" ->
           UpdateRsFromPrimaryServer([td EXCEPT !.type = "ReplicaSetWithPrimary"], address, sd)
      [] sd.type \in MemberTypes -> UpdateRsWithoutPrimaryServer(td, address, sd)
      [] OTHER -> td

UpdateReplicaSetWithPrimaryTopology(td, address, sd) ==
    CASE sd.type \in {"Unknown", "RsGhost"} -> RecordPrimaryState(td)
      [] sd.type \in {"Standalone", "Mongos"} -> RecordPrimaryState(Remove(td, {address}))
      [] sd.type = "RsPrimary" -> UpdateRsFromPrimaryServer(td, address, sd)
      [] sd.type \in MemberTypes -> UpdateRsWithPrimaryFromMember(td, address, sd)
      [] OTHER -> td

\* A host list or a `me` that does not parse ends `update` with an error, before
\* it looks for compatibility errors.  These are the cases that parse them.
ParseFails(td, sd) ==
    \/ /\ td.type \in ReplicaSetTypes \cup {"Unknown"}
       /\ sd.type = "RsPrimary"
       /\ td.setName \in {None, sd.setName}
       /\ ~StalePrimary(td, sd)
       /\ sd.hosts = Garbled
    \/ /\ td.type \in {"Unknown", "ReplicaSetNoPrimary"}
       /\ sd.type \in MemberTypes
       /\ td.setName \in {None, sd.setName}
       /\ Garbled \in {sd.hosts, sd.me}
    \/ /\ td.type = "ReplicaSetWithPrimary"
       /\ sd.type \in MemberTypes
       /\ td.setName = sd.setName
       /\ sd.me = Garbled

\* A direct connection to a member of another replica set, or of none.
WrongSetName(td, sd) ==
    /\ td.type = "Single"
    /\ td.setName # None
    /\ sd.type # "Unknown"
    /\ sd.setName # td.setName

UpdateByType(td, address, sd) ==
    CASE td.type = "Unknown" -> UpdateUnknownTopology(td, address, sd)
      [] td.type = "Sharded" -> UpdateShardedTopology(td, address, sd)
      [] td.type = "ReplicaSetNoPrimary" -> UpdateReplicaSetNoPrimaryTopology(td, address, sd)
      [] td.type = "ReplicaSetWithPrimary" -> UpdateReplicaSetWithPrimaryTopology(td, address, sd)
      [] OTHER -> td

\* The fields of the topology that gather what all servers report.
UpdateSummaries(td, sd) ==
    AdvanceClusterTime(
        UpdateTransactionSupportStatus(UpdateLogicalSessionTimeout(td, sd), sd),
        sd.clusterTime)

Update(td, address, sd) ==
    LET accepted == IF WrongSetName(td, sd) THEN NewServer ELSE sd
        stored == Replace(td, address, accepted)
        summed == UpdateSummaries(stored, accepted)
        typed == UpdateByType(summed, address, accepted)
    IN IF address \notin Known(td) THEN td
       ELSE IF Outdated(sd, td.servers[address]) THEN td
       ELSE IF td.type = "LoadBalanced" THEN stored
       ELSE IF ParseFails(td, accepted) THEN typed
       ELSE CheckCompatibility(typed)

-----------------------------------------------------------------------------
(* The state machine.                                                      *)

\* The description synthesized for the one host of a load-balanced client.
LoadBalancerServer == [NewServer EXCEPT !.type = "LoadBalancer"]

Asleep == [at |-> "asleep", hosts |-> {}]

Init ==
    /\ \E options \in Options :
         LET start == Initialize(options)
         IN description = IF options.loadBalanced
                          THEN Update(start, CHOOSE a \in options.hosts : TRUE, LoadBalancerServer)
                          ELSE start
    /\ poll = Asleep

\* A monitor's check succeeded.  Load-balanced topologies have no monitors.
ServerUpdate(address, reply) ==
    /\ description.type # "LoadBalanced"
    /\ description' = Update(description, address, reply)
    /\ UNCHANGED poll

\* A check or an operation failed and the server is marked as unknown.
MarkServerAsUnknown(address, version) ==
    /\ description.type # "LoadBalanced"
    /\ description' = Update(description, address, UnknownServer(version))
    /\ UNCHANGED poll

\* An operation gossips the cluster time of its reply.
GossipClusterTime(time) ==
    /\ description' = AdvanceClusterTime(description, time)
    /\ UNCHANGED poll

ShouldPoll == description.type \in {"Sharded", "Unknown"}

\* The SRV task exists when the client was configured by an SRV record.
StartLookup ==
    /\ Lookups # {}
    /\ poll = Asleep
    /\ ShouldPoll
    /\ poll' = [poll EXCEPT !.at = "lookup"]
    /\ UNCHANGED description

\* The lookup answers.  An empty answer, or an error, changes nothing; the type
\* of the topology is looked at again before the hosts are sent to the worker.
FinishLookup(hosts) ==
    /\ poll.at = "lookup"
    /\ poll' = IF ShouldPoll /\ hosts # {} THEN [at |-> "sent", hosts |-> hosts] ELSE Asleep
    /\ UNCHANGED description

\* The topology worker reaches the message in its queue.
ReceiveSyncHosts ==
    /\ poll.at = "sent"
    /\ description' \in SyncHosts(description, poll.hosts)
    /\ poll' = Asleep

Next ==
    \/ \E a \in Addresses :
         \/ \E r \in Replies : ServerUpdate(a, r)
         \/ \E v \in Versions : MarkServerAsUnknown(a, v)
    \/ \E t \in ClusterTimes : GossipClusterTime(t)
    \/ StartLookup
    \/ \E hosts \in Lookups : FinishLookup(hosts)
    \/ ReceiveSyncHosts

Spec == Init /\ [][Next]_vars

-----------------------------------------------------------------------------
(* Properties.                                                             *)

\* A replica set never has two primaries, whatever order the members' checks
\* arrive in (update_rs_from_primary_server demotes every other one).
OnePrimary ==
    IsReplicaSet(description) =>
        \A a, b \in Primaries(description) : a = b

\* If a replica set has a primary then its type says so: operations that need
\* a primary are not kept waiting for one that is there (record_primary_state).
PrimaryKnown ==
    description.type = "ReplicaSetNoPrimary" => Primaries(description) = {}

\* Every member that answered belongs to the set the topology was told of or
\* learned from its first member, and no standalone server or router is left
\* in a replica set, nor anything but routers in a sharded cluster.  (A ghost
\* may be left in either, until its next check.)
MembersOfSet ==
    /\ IsReplicaSet(description) =>
         \A a \in Known(description) :
            LET sd == description.servers[a]
            IN \/ sd.type \in {"Unknown", "RsGhost"}
               \/ /\ sd.type \in MemberTypes \cup {"RsPrimary"}
                  /\ sd.setName = description.setName
    /\ description.type = "Sharded" =>
         \A a \in Known(description) :
            description.servers[a].type \in {"Unknown", "Mongos", "RsGhost"}

\* While a primary is known, every server of the topology is one it lists:
\* neither a removed member nor what a secondary believes is kept or added
\* (where no SRV answer adds hosts of its own).
PrimaryHosts ==
    IsReplicaSet(description) =>
        \A p \in Primaries(description) :
            description.servers[p].hosts # Garbled =>
                Known(description) \subseteq description.servers[p].hosts

\* The primary in the topology is from the newest election of the newest
\* configuration reported so far (where primaries report both ids).
NewestPrimary ==
    IsReplicaSet(description) =>
        \A p \in Primaries(description) :
            /\ description.servers[p].setVersion = description.maxSetVersion
            /\ description.servers[p].electionId = description.maxElectionId

\* The order of (set version, election id), None before everything.
NotOlder(version, election, version2, election2) ==
    \/ version = None
    \/ /\ None \notin {version, version2}
       /\ \/ version < version2
          \/ /\ version = version2
             /\ \/ election = None
                \/ None \notin {election, election2} /\ election <= election2

\* What the topology remembers of configurations and elections never goes back
\* in the order by which it rejects stale primaries.
ElectionsForward ==
    [][NotOlder(description.maxSetVersion, description.maxElectionId,
                description'.maxSetVersion, description'.maxElectionId)]_vars

\* A topology type, once known, is never forgotten: a replica set stays one,
\* under the same name, and the other types are final.
TypeIsFinal ==
    [][/\ description.type \in {"Single", "Sharded", "LoadBalanced"} =>
            description'.type = description.type
       /\ IsReplicaSet(description) =>
            /\ description'.type \in ReplicaSetTypes
            /\ description.setName # None => description'.setName = description.setName]_vars

\* A session is never thought to live longer than any data-bearing server of
\* the topology keeps it, and sessions are not used if one has none.
SessionTimeoutLowest ==
    description.type # "LoadBalanced" /\ description.sessionTimeout # None =>
        \A a \in Known(description) :
            description.servers[a].type \in DataBearing =>
                /\ description.servers[a].sessionTimeout # None
                /\ description.sessionTimeout <= description.servers[a].sessionTimeout

\* The compatibility error that fails every selection is recorded exactly while
\* some server of the topology speaks no common wire version (where replies
\* parse and no SRV answer removes servers: sync_hosts does not check again).
CompatibilityExact ==
    description.compatible <=>
        \A a \in Known(description) : ~Incompatible(description.servers[a])

\* What the description sums up of its servers as they come and go, the session
\* timeout and the compatibility, is right at every moment (update).
SummariesExact == SessionTimeoutLowest /\ CompatibilityExact

\* SRV polling keeps a topology that is not a replica set within srv_max_hosts.
WithinSrvMaxHosts ==
    SrvMaxHosts > 0 /\ ~IsReplicaSet(description) =>
        Cardinality(Known(description)) <= SrvMaxHosts

\* The servers of the topology are those it should watch: the ones the primary
\* lists, and no more than srv_max_hosts (sync_hosts, update_rs_from_primary_server).
HostsListed == PrimaryHosts /\ WithinSrvMaxHosts

\* "A replica set with a primary." is the doc of ReplicaSetWithPrimary.
WithPrimaryHasPrimary ==
    description.type = "ReplicaSetWithPrimary" => Primaries(description) # {}

\* max_election_id is documented as the highest election id seen: it does not
\* decrease.
HighestElectionId ==
    [][description.maxElectionId # None =>
         /\ description'.maxElectionId # None
         /\ description'.maxElectionId >= description.maxElectionId]_vars

\* Transactions are documented as supported only if sessions are.
TransactionsNeedSessions ==
    description.type # "LoadBalanced" /\ description.transactions = "Supported" =>
        description.sessionTimeout # None

\* The SRV task verifies "in case the topology changed": hosts are synced only
\* into a topology that is polled.
SyncedWhilePolled == [][poll.at = "sent" /\ poll' = Asleep => ShouldPoll]_vars
=============================================================================
