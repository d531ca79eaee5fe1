------------------------ MODULE TopologyWorker_steps ------------------------
(***************************************************************************)
(* What each step of TopologyWorker preserves, for any addresses, replies  *)
(* and errors.  What a step needs to know of the description's operators   *)
(* and of the number of joins is an assumption here, Relies, that module   *)
(* TopologyWorker_proofs establishes.                                      *)
(***************************************************************************)
EXTENDS TopologyWorker, TLAPS

\* The default backend; a leaf that needs arithmetic or records names SMT.
USE Zenon

-----------------------------------------------------------------------------
(* The inductive invariant.                                                *)

\* A server object: the n-th time an address joined.
Objects == Addresses \X Nat

Senders == Objects \cup Tasks \cup {Filler, None}

\* What may be in the update channel.
Messages ==
    [from : Senders, kind : {"ServerUpdate"}, address : Addresses, what : Replies]
    \cup [from : Senders, kind : {"MonitorError"}, address : Addresses, what : MonitorErrors]
    \cup [from : Senders, kind : {"AdvanceClusterTime"}, address : {None}, what : ClusterTimes]
    \cup [from : Senders, kind : {"SyncHosts"}, address : {None}, what : SUBSET Addresses]
    \cup [from : Senders, kind : {"Broadcast"}, address : {None}, what : {None}]
    \cup [from : Senders, kind : {"ApplicationError"}, address : Addresses, what : AppErrors,
          object : Objects, generation : Nat]

\* The description, the errors in it, and the polling task.  A server with an
\* error is unknown; one that is not in the topology has none.
DescInv ==
    /\ description.type # "LoadBalanced"
    /\ Known(description) \subseteq Addresses
    /\ \A a \in Known(description) : "type" \in DOMAIN description.servers[a]
    /\ poll \in [at : {"asleep", "lookup", "sent"}, hosts : SUBSET Addresses]
    /\ cause \in [Addresses -> ErrorNames \cup {None}]
    /\ \A a \in Addresses :
          cause[a] # None => a \in Known(description) /\ description.servers[a].type = "Unknown"

PoolInv ==
    /\ DOMAIN server = Known(description)
    /\ DOMAIN pool \subseteq Objects
    /\ pool \in [DOMAIN pool -> [generation : Nat, ready : BOOLEAN]]
    /\ DOMAIN monitor = DOMAIN pool
    /\ \A a \in Known(description) : <<a, server[a]>> \in DOMAIN pool

\* The worker deals with the message at the head of the queue.
Handling == worker.at \in {"publish", "react", "filling"}

\* The hosts of an SRV lookup wait in the queue at most once, and only while
\* the polling task has sent them.
HostsWait(i) == queue[i].kind = "SyncHosts" /\ (i > 1 \/ ~Handling)

QueueInv ==
    /\ queue \in Seq(Messages)
    /\ Handling => queue # <<>>
    /\ \A i \in 1..Len(queue) : HostsWait(i) => poll.at = "sent"
    /\ \A i, j \in 1..Len(queue) : HostsWait(i) /\ HostsWait(j) => i = j

\* The server that the rest of an error's handler is about: the current object
\* of its address, unknown if its pool is to be cleared.
WorkerInv ==
    /\ worker \in [at : {"initialize", "loop", "publish", "react", "filling",
                         "closing", "joining", "closed"},
                   target : Objects \cup {None}, clear : BOOLEAN, cancel : BOOLEAN, ask : BOOLEAN]
    /\ worker.at = "react" => worker.target # None
    /\ worker.at \notin {"publish", "react"} => worker.target = None
    /\ worker.target # None =>
          \E a \in Known(description) :
             /\ worker.target = <<a, server[a]>>
             /\ worker.clear => description.servers[a].type = "Unknown"

\* A connection's generation is not newer than its pool's, and while it is the
\* pool's the pool has not been cleared.
InGeneration(o, generation) ==
    /\ o \in DOMAIN pool
    /\ generation <= pool[o].generation
    /\ generation = pool[o].generation => pool[o].ready

Running == {"executing", "gossiping", "replied", "reporting"}

OpStates ==
    [at : {"idle", "selecting", "waiting", "selected"} \cup Running, object : Objects \cup {None},
     generation : Nat, requested : BOOLEAN, seen : BOOLEAN]

OpFits(x) ==
    /\ x \in OpStates
    /\ x.at = "selected" => x.object \in DOMAIN pool
    /\ x.at \in Running => InGeneration(x.object, x.generation)

\* Whoever uses a connection, or has reported an error of one, got it from a
\* pool that was ready.
TasksInv ==
    /\ op = [t \in Tasks |-> op[t]]
    /\ \A t \in Tasks : OpFits(op[t])

OpInv ==
    /\ TasksInv
    /\ \A i \in 1..Len(queue) :
          queue[i].kind = "ApplicationError" => InGeneration(queue[i].object, queue[i].generation)

\* An error is acted on only if its connection is of the pool's generation, or
\* of a later one.
ErrorIsNew ==
    worker.target # None /\ Head(queue).kind = "ApplicationError" =>
        /\ worker.target[1] = Head(queue).address
        /\ pool[worker.target].generation <= Head(queue).generation

\* Pools of usable servers are ready, and watchers see what the worker knows
\* once it has published it.
Shown == [a \in Known(description) |->
            [object |-> <<a, server[a]>>, type |-> description.servers[a].type]]

ReadyInv ==
    /\ \A a \in Known(description) :
          description.servers[a].type \in DataBearing => pool[<<a, server[a]>>].ready
    /\ \A a \in DOMAIN published : published[a].object \in DOMAIN pool
    /\ worker.at = "initialize" => published = <<>>
    /\ worker.at \notin {"initialize", "publish"} => published = Shown
    /\ PublishedIsReady

\* A server that failed has a paused pool, or one that is about to be cleared.
FailedInv ==
    \A a \in Known(description) :
        cause[a] \notin {None, "NotPrimary"} =>
            \/ ~pool[<<a, server[a]>>].ready
            \/ worker.clear /\ worker.target = <<a, server[a]>>

WInv == DescInv /\ PoolInv /\ QueueInv /\ WorkerInv /\ OpInv /\ ErrorIsNew /\ ReadyInv /\ FailedInv

-----------------------------------------------------------------------------
(* Messages and the queue.                                                 *)

\* What the fields of a message hold.
LEMMA MessageFields ==
    ASSUME NEW m \in Messages
    PROVE  /\ m.kind = "ServerUpdate" => m.address \in Addresses /\ m.what \in Replies
           /\ m.kind = "MonitorError" => m.address \in Addresses /\ m.what \in MonitorErrors
           /\ m.kind = "AdvanceClusterTime" => m.what \in ClusterTimes
           /\ m.kind = "ApplicationError" =>
                 /\ m.address \in Addresses /\ m.what \in AppErrors
                 /\ m.object \in Objects /\ m.generation \in Nat
BY DEF Messages

\* The messages that are sent are messages.
LEMMA MessageSent ==
    /\ \A o \in Objects, r \in Replies : Message(o, "ServerUpdate", o[1], r) \in Messages
    /\ \A o \in Objects, e \in MonitorErrors : Message(o, "MonitorError", o[1], e) \in Messages
    /\ \A p \in Tasks, t \in ClusterTimes : Message(p, "AdvanceClusterTime", None, t) \in Messages
    /\ \A hosts \in SUBSET Addresses : Message(None, "SyncHosts", None, hosts) \in Messages
    /\ Message(Filler, "Broadcast", None, None) \in Messages
    /\ \A t \in Tasks, o \in Objects, g \in Nat, e \in AppErrors : ErrorMessage(t, o, g, e) \in Messages
<1>1. \A o \in Objects : o[1] \in Addresses
  BY DEF Objects
<1> QED
  BY <1>1 DEF Messages, Message, ErrorMessage, Senders

\* The message that the worker receives.
LEMMA Received ==
    ASSUME QueueInv, queue # <<>>
    PROVE  Head(queue) \in Messages /\ Head(queue) = queue[1] /\ 1 \in 1..Len(queue)
BY SMT DEF QueueInv

\* What errors are stored as is a reply like others, of a version that errors carry.
LEMMA ErrorVersions ==
    /\ \A e \in MonitorErrors : e.version \in Versions /\ e.error \in ErrorNames
    /\ \A e \in AppErrors : e.version \in Versions /\ e.error \in ErrorNames /\ e.phase \in Phases
BY ErrorsAssumption

-----------------------------------------------------------------------------
(* The description: the worker does to it what TopologyDescription says.   *)

\* Every step of the worker is a step of the description or leaves it alone.
LEMMA WorkerNextMaps ==
    ASSUME WInv, [WorkerNext]_allVars
    PROVE  [Next]_vars
<1> USE DEF vars
<1>1. CASE ReceiveUpdate
  <2> DEFINE m == Head(queue)
  <2>1. m \in Messages /\ m.kind = "ServerUpdate"
    BY <1>1, Received DEF ReceiveUpdate, Receives, WInv
  <2>2. m.address \in Addresses /\ m.what \in Replies
    BY <2>1, MessageFields
  <2>3. ServerUpdate(m.address, m.what)
    BY <1>1 DEF ReceiveUpdate, UpdateTopology, ServerUpdate, WInv, DescInv
  <2> QED
    BY <2>2, <2>3 DEF Next
<1>2. ASSUME NEW address \in Addresses, NEW e, NEW then, e.version \in Versions,
             MarkUnknown(address, e, then), UNCHANGED poll
      PROVE  Next
  <2>1. MarkServerAsUnknown(address, e.version)
    BY <1>2 DEF MarkUnknown, UpdateTopology, MarkServerAsUnknown, WInv, DescInv
  <2> QED
    BY <2>1, <1>2 DEF Next
<1>3. CASE ReceiveMonitorError
  <2> DEFINE m == Head(queue)
  <2>1. m \in Messages /\ m.kind = "MonitorError"
    BY <1>3, Received DEF ReceiveMonitorError, Receives, WInv
  <2>2. m.address \in Addresses /\ m.what.version \in Versions
    BY <2>1, MessageFields, ErrorVersions
  <2>3. \/ UNCHANGED vars
        \/ UNCHANGED poll /\ \E then : MarkUnknown(m.address, m.what, then)
    BY <1>3 DEF ReceiveMonitorError
  <2> QED
    BY <2>2, <2>3, <1>2
<1>4. CASE ReceiveApplicationError
  <2> DEFINE m == Head(queue)
  <2>1. m \in Messages /\ m.kind = "ApplicationError"
    BY <1>4, Received DEF ReceiveApplicationError, Receives, WInv
  <2>2. m.address \in Addresses /\ m.what.version \in Versions
    BY <2>1, MessageFields, ErrorVersions
  <2>3. \/ UNCHANGED vars
        \/ UNCHANGED poll /\ \E then : MarkUnknown(m.address, m.what, then)
    BY <1>4 DEF ReceiveApplicationError
  <2> QED
    BY <2>2, <2>3, <1>2
<1>5. CASE ReceiveClusterTime
  <2> DEFINE m == Head(queue)
  <2>1. m \in Messages /\ m.kind = "AdvanceClusterTime"
    BY <1>5, Received DEF ReceiveClusterTime, Receives, WInv
  <2>2. m.what \in ClusterTimes
    BY <2>1, MessageFields
  <2>3. GossipClusterTime(m.what)
    BY <1>5 DEF ReceiveClusterTime, GossipClusterTime
  <2> QED
    BY <2>2, <2>3 DEF Next
<1>6. CASE ReceiveHosts
  <2>1. HostsWait(1) /\ 1 \in 1..Len(queue)
    BY <1>6, Received DEF ReceiveHosts, Receives, WInv, HostsWait, Handling
  <2>2. poll.at = "sent"
    BY <2>1 DEF WInv, QueueInv
  <2>3. ReceiveSyncHosts
    BY <1>6, <2>2 DEF ReceiveHosts, UpdateTopology, ReceiveSyncHosts
  <2> QED
    BY <2>3 DEF Next
<1>7. CASE PollSrv
  BY <1>7 DEF PollSrv, Next
<1>8. CASE \/ Publish \/ React \/ ReceiveFillPool \/ FillPoolDone \/ CloseMonitors \/ Join
           \/ LeaveLoop \/ Shutdown \/ DropClient \/ WarmConnectionPool
  BY Zenon, <1>8 DEF Publish, React, ReceiveFillPool, FillPoolDone, CloseMonitors, Join, LeaveLoop,
       Shutdown, DropClient, WarmConnectionPool, othersThanOp
<1>9. ASSUME NEW o \in DOMAIN monitor, MonitorStep(o)
      PROVE  UNCHANGED vars
  BY Zenon, <1>9 DEF MonitorStep, CheckSucceeds, CheckFails, CheckCancelled, ReportAcknowledged, Wake,
       othersThanMonitor
<1>10. ASSUME NEW p \in Ops, SelectionStep(p)
       PROVE  UNCHANGED vars
  BY Zenon, <1>10 DEF SelectionStep, StartOperation, SelectServer, SeeUpdate, SelectionFails, CheckOut, Gossip,
       othersThanOp
<1>11. ASSUME NEW t \in Tasks, TaskStep(t)
       PROVE  UNCHANGED vars
  BY <1>11 DEF TaskStep, TaskSucceeds, TaskAcknowledged, TaskFails, othersThanOp
<1>12. CASE UNCHANGED allVars
  BY <1>12 DEF allVars
<1> QED
  BY <1>1, <1>3, <1>4, <1>5, <1>6, <1>7, <1>8, <1>9, <1>10, <1>11, <1>12 DEF WorkerNext, WorkerStep

\* What update_topology is called with: a description that comes from the
\* current one, in which a server with an error is unknown.
Follows(td, newTd, newCause) ==
    /\ newTd.type # "LoadBalanced"
    /\ Known(newTd) \subseteq Addresses
    /\ \A a \in Known(newTd) : "type" \in DOMAIN newTd.servers[a]
    /\ \A a \in Known(newTd) \ Known(td) : newTd.servers[a].type = "Unknown"
    /\ newCause \in [Addresses -> ErrorNames \cup {None}]
    /\ \A a \in Known(newTd) : newCause[a] # None => newTd.servers[a].type = "Unknown"

\* `update` rejects what is said of a server that is not there, and what is outdated.
Rejected(address, sd) ==
    \/ address \notin Known(description)
    \/ Outdated(sd, description.servers[address])

\* The errors after `update`: that of the server is replaced.
NewCause(address, sd, error) ==
    IF Rejected(address, sd) THEN cause ELSE [cause EXCEPT ![address] = error]

\* What the handlers rely on: `update` and sync_hosts lead to descriptions that
\* follow the current one, an error changes nothing but the description of its
\* server, a cluster time changes no server.
UpdatesFollow ==
    /\ \A address \in Addresses, r \in Replies :
          Follows(description, Update(description, address, r), NewCause(address, r, None))
    /\ \A address \in Addresses, v \in Versions, error \in ErrorNames :
          LET sd == UnknownServer(v)
              u == Update(description, address, sd)
          IN /\ Follows(description, u, NewCause(address, sd, error))
             /\ Rejected(address, sd) => u = description
             /\ Known(u) = Known(description)
             /\ ~Rejected(address, sd) => u.servers[address] = sd
    /\ \A u \in SyncHosts(description, poll.hosts) : Follows(description, u, cause)
    /\ \A t \in ClusterTimes :
          LET u == AdvanceClusterTime(description, t)
          IN u.servers = description.servers /\ u.type = description.type

\* The next server object of an address is new.
JoinsAreNew ==
    \A a \in Addresses : Joins(a) \in Nat /\ <<a, Joins(a) + 1>> \notin DOMAIN pool

Relies == UpdatesFollow /\ JoinsAreNew

\* A server description that is equal to the old one has its type.
LEMMA SameType ==
    ASSUME DescInv, NEW newTd, NEW newCause, Follows(description, newTd, newCause),
           NEW a \in Known(description) \cap Known(newTd),
           SameServer(description, newTd, newCause, a)
    PROVE  newTd.servers[a].type = description.servers[a].type
<1>1. a \in Addresses
  BY DEF DescInv
<1>2. CASE cause[a] # None
  BY <1>1, <1>2 DEF DescInv, Follows, SameServer
<1>3. CASE cause[a] = None
  <2> DEFINE x == description.servers[a]
             y == newTd.servers[a]
  <2>1. "type" \in DOMAIN x /\ "type" \in DOMAIN y
    BY DEF DescInv, Follows
  <2>2. [x EXCEPT !.clusterTime = None] = [y EXCEPT !.clusterTime = None]
    BY <1>3 DEF SameServer
  <2> HIDE DEF x, y
  <2>3. \A z : "type" \in DOMAIN z => [z EXCEPT !.clusterTime = None].type = z.type
    OBVIOUS
  <2>4. x.type = y.type
    BY <2>1, <2>2, <2>3, Zenon
  <2> QED
    BY <2>4 DEF x, y
<1> QED
  BY <1>2, <1>3

\* What update_topology does to the pools.
Grown(newTd, newCause) ==
    /\ Known(description') = Known(newTd)
    /\ DOMAIN pool \subseteq DOMAIN pool'
    /\ \A o \in DOMAIN pool :
          /\ pool'[o].generation = pool[o].generation
          /\ pool[o].ready => pool'[o].ready
    /\ \A a \in Known(newTd) \cap Known(description) : server'[a] = server[a]
    /\ \A a \in Known(newTd) \ Known(description) :
          <<a, server'[a]>> \notin DOMAIN pool /\ pool'[<<a, server'[a]>>] = NewPool
    /\ \A a \in Known(newTd) \cap Known(description) :
          newTd.servers[a].type = "Unknown" => pool'[<<a, server[a]>>] = pool[<<a, server[a]>>]
    /\ \A a \in Known(newTd) :
          newTd.servers[a].type \in DataBearing => pool'[<<a, server'[a]>>].ready
    /\ cause' = [a \in Addresses |-> IF a \in Known(newTd) THEN newCause[a] ELSE None]

\* What update_topology makes of the description and of the pools.
LEMMA UpdateTopologyPools ==
    ASSUME DescInv, PoolInv, ReadyInv, JoinsAreNew, NEW newTd, NEW newCause,
           Follows(description, newTd, newCause), UpdateTopology(newTd, newCause),
           poll' \in [at : {"asleep", "lookup", "sent"}, hosts : SUBSET Addresses]
    PROVE  DescInv' /\ PoolInv' /\ Grown(newTd, newCause)
<1> DEFINE new == Known(newTd) \ Known(description)
           joined == {<<a, Joins(a) + 1>> : a \in new}
           ready == {<<a, server[a]>> : a \in MarkedReady(newTd, newCause)}
<1>1. /\ description' = newTd
      /\ cause' = [a \in Addresses |-> IF a \in Known(newTd) THEN newCause[a] ELSE None]
      /\ server' = [a \in Known(newTd) |->
                      IF a \in Known(description) THEN server[a] ELSE Joins(a) + 1]
      /\ pool' = [o \in DOMAIN pool \cup joined |->
                    IF o \in joined THEN NewPool
                    ELSE IF o \in ready THEN [pool[o] EXCEPT !.ready = TRUE]
                    ELSE pool[o]]
      /\ DOMAIN monitor' = DOMAIN monitor \cup joined
  BY DEF UpdateTopology
<1>2. Known(newTd) \subseteq Addresses /\ Known(description) \subseteq Addresses
  BY DEF Follows, DescInv
<1>3. \A a \in new : /\ Joins(a) \in Nat /\ <<a, Joins(a) + 1>> \notin DOMAIN pool
                     /\ <<a, Joins(a) + 1>> \in Objects
  BY SMT, <1>2 DEF JoinsAreNew, Objects
<1>4. joined \cap DOMAIN pool = {} /\ joined \subseteq Objects
  BY <1>3
<1>5. MarkedReady(newTd, newCause) \subseteq Known(newTd) \cap Known(description)
  BY DEF MarkedReady, ChangedServers
<1>6. \A a \in Known(description) : <<a, server[a]>> \in DOMAIN pool
  BY DEF PoolInv
<1> HIDE DEF joined, ready
<1>7. /\ DOMAIN pool' = DOMAIN pool \cup joined
      /\ \A o \in joined : pool'[o] = NewPool
      /\ \A o \in DOMAIN pool : pool'[o] = IF o \in ready THEN [pool[o] EXCEPT !.ready = TRUE] ELSE pool[o]
  BY <1>1, <1>4
<1>8. \A o \in DOMAIN pool :
         /\ pool[o] \in [generation : Nat, ready : BOOLEAN]
         /\ pool'[o] \in [generation : Nat, ready : BOOLEAN]
         /\ pool'[o].generation = pool[o].generation
         /\ pool[o].ready => pool'[o].ready
         /\ o \in ready => pool'[o].ready
         /\ o \notin ready => pool'[o] = pool[o]
  <2>1. \A p \in [generation : Nat, ready : BOOLEAN] :
           LET q == [p EXCEPT !.ready = TRUE]
           IN q \in [generation : Nat, ready : BOOLEAN] /\ q.generation = p.generation /\ q.ready
    BY Zenon
  <2>2. \A o \in DOMAIN pool : pool[o] \in [generation : Nat, ready : BOOLEAN]
    BY DEF PoolInv
  <2> QED
    BY SMT, <2>1, <2>2, <1>7
<1>9. /\ Known(description') = Known(newTd)
      /\ \A a \in Known(newTd) \cap Known(description) : server'[a] = server[a]
      /\ \A a \in new : <<a, server'[a]>> \in joined
      /\ DOMAIN server' = Known(newTd)
  BY <1>1 DEF joined
<1>10. \A a \in Known(newTd) \cap Known(description) :
          newTd.servers[a].type = "Unknown" => pool'[<<a, server[a]>>] = pool[<<a, server[a]>>]
  <2> SUFFICES ASSUME NEW a \in Known(newTd) \cap Known(description), newTd.servers[a].type = "Unknown"
               PROVE  <<a, server[a]>> \notin ready
    BY <1>6, <1>8
  <2>1. a \notin MarkedReady(newTd, newCause)
    BY DEF MarkedReady, DataBearing
  <2> QED
    BY <2>1 DEF ready
<1>11. \A a \in Known(newTd) :
          newTd.servers[a].type \in DataBearing => pool'[<<a, server'[a]>>].ready
  <2> SUFFICES ASSUME NEW a \in Known(newTd), newTd.servers[a].type \in DataBearing
               PROVE  pool'[<<a, server'[a]>>].ready
    OBVIOUS
  <2>1. a \in Known(description)
    BY DEF Follows, DataBearing
  <2>2. CASE a \in ChangedServers(newTd, newCause)
    <3>1. <<a, server[a]>> \in ready
      BY <2>2 DEF MarkedReady, ready
    <3> QED
      BY <3>1, <2>1, <1>6, <1>8, <1>9
  <2>3. CASE a \notin ChangedServers(newTd, newCause)
    <3>1. SameServer(description, newTd, newCause, a)
      BY <2>1, <2>3 DEF ChangedServers
    <3>2. description.servers[a].type \in DataBearing
      BY <2>1, <3>1, SameType
    <3>3. pool[<<a, server[a]>>].ready
      BY <2>1, <3>2 DEF ReadyInv
    <3> QED
      BY <3>3, <2>1, <1>6, <1>8, <1>9
  <2> QED
    BY <2>2, <2>3
<1>12. Grown(newTd, newCause)
  BY Zenon, <1>1, <1>4, <1>7, <1>8, <1>9, <1>10, <1>11 DEF Grown
<1>13. DescInv'
  <2>1. cause' \in [Addresses -> ErrorNames \cup {None}]
    BY <1>1 DEF Follows
  <2>2. \A a \in Addresses :
           cause'[a] # None => a \in Known(newTd) /\ newTd.servers[a].type = "Unknown"
    BY <1>1 DEF Follows
  <2>3. /\ newTd.type # "LoadBalanced" /\ Known(newTd) \subseteq Addresses
        /\ \A a \in Known(newTd) : "type" \in DOMAIN newTd.servers[a]
    BY DEF Follows
  <2> QED
    BY <2>1, <2>2, <2>3, <1>1 DEF DescInv
<1>14. PoolInv'
  <2>1. DOMAIN pool' \subseteq Objects /\ DOMAIN monitor' = DOMAIN pool'
    BY <1>1, <1>4, <1>7 DEF PoolInv
  <2>2. pool' \in [DOMAIN pool' -> [generation : Nat, ready : BOOLEAN]]
    <3>1. NewPool \in [generation : Nat, ready : BOOLEAN]
      BY DEF NewPool
    <3>2. pool' = [o \in DOMAIN pool' |-> pool'[o]]
      BY <1>1, <1>7
    <3> QED
      BY <1>7, <1>8, <3>1, <3>2
  <2>3. \A a \in Known(newTd) : <<a, server'[a]>> \in DOMAIN pool'
    BY Zenon, <1>6, <1>7, <1>9
  <2> QED
    BY <2>1, <2>2, <2>3, <1>9 DEF PoolInv
<1> QED
  BY <1>12, <1>13, <1>14

\* A connection stays in its pool's generation while the pool only grows.
LEMMA GenerationKept ==
    ASSUME NEW o, NEW g, InGeneration(o, g),
           DOMAIN pool \subseteq DOMAIN pool',
           \A p \in DOMAIN pool :
              pool'[p].generation = pool[p].generation /\ (pool[p].ready => pool'[p].ready)
    PROVE  InGeneration(o, g)'
BY DEF InGeneration

\* The part of the invariant that does not depend on why a handler updated the
\* topology.
LEMMA HandlerUpdates ==
    ASSUME WInv, JoinsAreNew, worker.at = "loop", queue # <<>>, NEW newTd, NEW newCause,
           Follows(description, newTd, newCause), UpdateTopology(newTd, newCause),
           poll' \in [at : {"asleep", "lookup", "sent"}, hosts : SUBSET Addresses],
           poll' = poll \/ HostsWait(1),
           UNCHANGED <<published, queue, op>>,
           worker' \in [at : {"publish"}, target : Objects \cup {None},
                        clear : BOOLEAN, cancel : BOOLEAN, ask : BOOLEAN],
           worker'.target # None =>
              \E a \in Known(description) \cap Known(newTd) :
                 /\ worker'.target = <<a, server[a]>>
                 /\ worker'.clear => newTd.servers[a].type = "Unknown"
    PROVE  DescInv' /\ PoolInv' /\ QueueInv' /\ WorkerInv' /\ OpInv' /\ ReadyInv'
           /\ Grown(newTd, newCause) /\ description' = newTd
<1>1. DescInv' /\ PoolInv' /\ Grown(newTd, newCause) /\ description' = newTd
  BY UpdateTopologyPools DEF WInv, UpdateTopology
<1>2. QueueInv'
  <2>1. Handling' /\ ~Handling /\ 1 \in 1..Len(queue)
    BY Received DEF Handling, WInv
  <2>2. queue \in Seq(Messages) /\ queue' = queue
    BY DEF WInv, QueueInv
  <2>3. \A i \in 1..Len(queue) : HostsWait(i)' => HostsWait(i) /\ i # 1
    BY SMT, <2>1, <2>2 DEF HostsWait
  <2> QED
    BY <2>1, <2>2, <2>3 DEF WInv, QueueInv
<1>3. WorkerInv'
  <2>1. worker' \in [at : {"initialize", "loop", "publish", "react", "filling",
                           "closing", "joining", "closed"},
                     target : Objects \cup {None}, clear : BOOLEAN, cancel : BOOLEAN, ask : BOOLEAN]
        /\ worker'.at = "publish"
    OBVIOUS
  <2>2. worker'.target # None =>
           \E a \in Known(description') :
              /\ worker'.target = <<a, server'[a]>>
              /\ worker'.clear => description'.servers[a].type = "Unknown"
    BY <1>1 DEF Grown
  <2> QED
    BY <2>1, <2>2 DEF WorkerInv
<1>4. OpInv'
  <2>1. \A o, g : InGeneration(o, g) => InGeneration(o, g)'
    BY <1>1, GenerationKept DEF Grown
  <2>2. DOMAIN pool \subseteq DOMAIN pool'
    BY <1>1 DEF Grown
  <2> QED
    BY <2>1, <2>2 DEF WInv, OpInv, TasksInv, OpFits
<1>5. ReadyInv'
  <2>1. \A a \in Known(description') :
           description'.servers[a].type \in DataBearing => pool'[<<a, server'[a]>>].ready
    BY <1>1 DEF Grown
  <2>2. \A a \in DOMAIN published' : published'[a].object \in DOMAIN pool'
    BY <1>1 DEF Grown, WInv, ReadyInv
  <2>3. worker'.at = "publish"
    OBVIOUS
  <2>4. PublishedIsReady'
    <3> SUFFICES ASSUME NEW a \in DOMAIN published, published[a].type \in DataBearing,
                        published[a].object \in Current'
                 PROVE  pool'[published[a].object].ready
      BY DEF PublishedIsReady
    <3> DEFINE o == published[a].object
    <3>1. o \in DOMAIN pool
      BY DEF WInv, ReadyInv
    <3>2. PICK b \in DOMAIN server' : o = <<b, server'[b]>>
      BY DEF Current
    <3>3. b \in Known(newTd)
      BY <1>1, <3>2 DEF Grown, PoolInv
    <3>4. b \in Known(description)
      BY SMT, <3>1, <3>2, <3>3, <1>1 DEF Grown
    <3>5. o \in Current
      BY SMT, <3>2, <3>3, <3>4, <1>1 DEF Grown, Current, WInv, PoolInv
    <3>6. pool[o].ready
      BY <3>5 DEF WInv, ReadyInv, PublishedIsReady
    <3> QED
      BY <3>1, <3>6, <1>1 DEF Grown
  <2> QED
    BY <2>1, <2>2, <2>3, <2>4 DEF ReadyInv
<1> QED
  BY <1>1, <1>2, <1>3, <1>4, <1>5

\* A failed server whose error stays as it was keeps its paused pool.
LEMMA FailedKept ==
    ASSUME WInv, worker.at = "loop", NEW newTd, NEW newCause,
           Follows(description, newTd, newCause), Grown(newTd, newCause),
           NEW a \in Known(newTd), newCause[a] = cause[a], cause'[a] \notin {None, "NotPrimary"}
    PROVE  ~pool'[<<a, server'[a]>>].ready
<1>1. a \in Addresses /\ cause'[a] = cause[a]
  BY DEF Follows, Grown
<1>2. a \in Known(description)
  BY <1>1 DEF WInv, DescInv
<1>3. newTd.servers[a].type = "Unknown"
  BY <1>1 DEF Follows
<1>4. worker.target = None
  BY DEF WInv, WorkerInv
<1>5. <<a, server[a]>> # None
  BY <1>2, WorkerAssumption DEF WInv, PoolInv, Objects
<1>6. ~pool[<<a, server[a]>>].ready
  BY <1>1, <1>2, <1>4, <1>5 DEF WInv, FailedInv
<1> QED
  BY <1>2, <1>3, <1>6 DEF Grown

\* The worker after a handler that has nothing left to do but to publish.
LEMMA PublishOnly ==
    LET w == [Idle EXCEPT !.at = "publish"]
    IN /\ w \in [at : {"publish"}, target : Objects \cup {None},
                 clear : BOOLEAN, cancel : BOOLEAN, ask : BOOLEAN]
       /\ w.target = None
BY Zenon DEF Idle

\* The worker receives the reply of a monitor.
LEMMA ReceiveUpdateInv ==
    ASSUME WInv, Relies, ReceiveUpdate
    PROVE  WInv'
<1> DEFINE m == Head(queue)
           td == description
           u == Update(td, m.address, m.what)
           c == NewCause(m.address, m.what, None)
<1>1. worker.at = "loop" /\ queue # <<>> /\ m.kind = "ServerUpdate"
  BY DEF ReceiveUpdate, Receives
<1>2. m.address \in Addresses /\ m.what \in Replies
  BY <1>1, Received, MessageFields DEF WInv
<1>3. Follows(td, u, c)
  BY <1>2 DEF Relies, UpdatesFollow
<1>4. /\ UpdateTopology(u, c)
      /\ worker' = [Idle EXCEPT !.at = "publish"]
      /\ UNCHANGED <<poll, published, queue, op>>
  BY DEF ReceiveUpdate, NewCause, Rejected
<1>5. \A a \in Addresses : c[a] # None => c[a] = cause[a]
  BY <1>2 DEF WInv, DescInv, NewCause
<1> HIDE DEF u, c
<1>6. poll' \in [at : {"asleep", "lookup", "sent"}, hosts : SUBSET Addresses]
  BY <1>4 DEF WInv, DescInv
<1>7. DescInv' /\ PoolInv' /\ QueueInv' /\ WorkerInv' /\ OpInv' /\ ReadyInv'
      /\ Grown(u, c) /\ description' = u
  BY <1>1, <1>3, <1>4, <1>6, PublishOnly, HandlerUpdates DEF Relies
<1>8. ErrorIsNew'
  BY <1>4, PublishOnly DEF ErrorIsNew
<1>9. FailedInv'
  <2> SUFFICES ASSUME NEW a \in Known(u), cause'[a] \notin {None, "NotPrimary"}
               PROVE  ~pool'[<<a, server'[a]>>].ready
    BY <1>7 DEF FailedInv, Grown
  <2>1. a \in Addresses /\ cause'[a] = c[a]
    BY <1>3, <1>7 DEF Follows, Grown
  <2> QED
    BY <2>1, <1>1, <1>3, <1>5, <1>7, FailedKept
<1> QED
  BY <1>7, <1>8, <1>9 DEF WInv

\* The worker receives the hosts of an SRV poll.
LEMMA ReceiveHostsInv ==
    ASSUME WInv, Relies, ReceiveHosts
    PROVE  WInv'
<1>1. worker.at = "loop" /\ queue # <<>> /\ Head(queue).kind = "SyncHosts"
  BY DEF ReceiveHosts, Receives
<1>2. PICK u \in SyncHosts(description, poll.hosts) : UpdateTopology(u, cause)
  BY DEF ReceiveHosts
<1>3. Follows(description, u, cause)
  BY <1>2 DEF Relies, UpdatesFollow
<1>4. /\ poll' = Asleep
      /\ worker' = [Idle EXCEPT !.at = "publish"]
      /\ UNCHANGED <<published, queue, op>>
  BY DEF ReceiveHosts
<1>5. HostsWait(1)
  BY <1>1, Received DEF WInv, HostsWait, Handling
<1>6. poll' \in [at : {"asleep", "lookup", "sent"}, hosts : SUBSET Addresses]
  BY <1>4 DEF Asleep
<1>7. DescInv' /\ PoolInv' /\ QueueInv' /\ WorkerInv' /\ OpInv' /\ ReadyInv'
      /\ Grown(u, cause) /\ description' = u
  BY <1>1, <1>2, <1>3, <1>4, <1>5, <1>6, PublishOnly, HandlerUpdates DEF Relies
<1>8. ErrorIsNew'
  BY <1>4, PublishOnly DEF ErrorIsNew
<1>9. FailedInv'
  <2> SUFFICES ASSUME NEW a \in Known(u), cause'[a] \notin {None, "NotPrimary"}
               PROVE  ~pool'[<<a, server'[a]>>].ready
    BY <1>7 DEF FailedInv, Grown
  <2> QED
    BY <1>1, <1>3, <1>7, FailedKept
<1> QED
  BY <1>7, <1>8, <1>9 DEF WInv

\* An error that `update` rejects changes nothing.
LEMMA RejectedUnchanged ==
    ~Changed(description, cause)
<1>1. \A a : SameServer(description, description, cause, a)
  BY DEF SameServer
<1> QED
  BY <1>1 DEF Changed, ChangedServers

\* A server is marked as unknown: its pool is cleared next if that is news and
\* the error is of the kind that clears pools.
LEMMA MarkUnknownInv ==
    ASSUME WInv, Relies, worker.at = "loop", queue # <<>>, NEW address \in Known(description),
           NEW e, e.error \in ErrorNames, e.version \in Versions,
           NEW then \in [clear : BOOLEAN, cancel : BOOLEAN, ask : BOOLEAN],
           e.error # "NotPrimary" => then.clear,
           MarkUnknown(address, e, then), UNCHANGED <<poll, published, queue, op>>
    PROVE  /\ DescInv' /\ PoolInv' /\ QueueInv' /\ WorkerInv' /\ OpInv' /\ ReadyInv' /\ FailedInv'
           /\ worker'.target = <<address, server[address]>>
           /\ pool'[worker'.target].generation = pool[worker'.target].generation
<1> DEFINE td == description
           sd == UnknownServer(e.version)
           rejected == Rejected(address, sd)
           u == Update(td, address, sd)
           c == NewCause(address, sd, e.error)
<1>1. address \in Addresses /\ <<address, server[address]>> \in DOMAIN pool
      /\ <<address, server[address]>> \in Objects
  BY DEF WInv, DescInv, PoolInv
<1>2. sd.type = "Unknown"
  BY DEF UnknownServer
<1>3. /\ Follows(td, u, c)
      /\ rejected => u = td
      /\ Known(u) = Known(td)
      /\ ~rejected => u.servers[address] = sd
  BY <1>1 DEF Relies, UpdatesFollow
<1>4. /\ UpdateTopology(u, c)
      /\ worker' = [at |-> "publish", target |-> <<address, server[address]>>,
                    clear |-> Changed(u, c) /\ then.clear, cancel |-> Changed(u, c) /\ then.cancel,
                    ask |-> then.ask]
  <2>1. ErrorCause(address, e) = c
    BY DEF ErrorCause, NewCause, Rejected
  <2> QED
    BY <2>1 DEF MarkUnknown
<1>5. rejected => c = cause
  BY DEF NewCause
<1>6. Changed(u, c) \in BOOLEAN
  BY DEF Changed
<1>7. Changed(u, c) => ~rejected
  BY <1>3, <1>5, RejectedUnchanged
<1>8. /\ \A a \in Addresses : a # address => c[a] = cause[a]
      /\ rejected => c = cause
      /\ ~rejected => c[address] = e.error
  BY <1>1 DEF WInv, DescInv, NewCause
<1>9. c[address] # cause[address] => Changed(u, c)
  BY <1>3 DEF Changed, ChangedServers, SameServer
<1> HIDE DEF u, c, sd, rejected
<1>10. /\ worker' \in [at : {"publish"}, target : Objects \cup {None},
                       clear : BOOLEAN, cancel : BOOLEAN, ask : BOOLEAN]
       /\ worker'.target = <<address, server[address]>>
       /\ worker'.clear <=> Changed(u, c) /\ then.clear
  <2>1. (Changed(u, c) /\ then.clear) \in BOOLEAN /\ (Changed(u, c) /\ then.cancel) \in BOOLEAN
        /\ then.ask \in BOOLEAN
    BY <1>6
  <2> QED
    BY Zenon, <2>1, <1>1, <1>4
<1>11. worker'.clear => u.servers[address].type = "Unknown"
  BY <1>2, <1>3, <1>7, <1>10
<1>12. \E a \in Known(td) \cap Known(u) :
          /\ worker'.target = <<a, server[a]>>
          /\ worker'.clear => u.servers[a].type = "Unknown"
  BY <1>3, <1>10, <1>11
<1>13. poll' \in [at : {"asleep", "lookup", "sent"}, hosts : SUBSET Addresses]
  BY DEF WInv, DescInv
<1>14. DescInv' /\ PoolInv' /\ QueueInv' /\ WorkerInv' /\ OpInv' /\ ReadyInv'
       /\ Grown(u, c) /\ description' = u
  BY Zenon, <1>3, <1>4, <1>10, <1>12, <1>13, HandlerUpdates DEF Relies
<1>15. FailedInv'
  <2> SUFFICES ASSUME NEW a \in Known(u), cause'[a] \notin {None, "NotPrimary"}
               PROVE  \/ ~pool'[<<a, server'[a]>>].ready
                      \/ worker'.clear /\ worker'.target = <<a, server'[a]>>
    BY Zenon, <1>14 DEF FailedInv, Grown
  <2>1. a \in Addresses /\ cause'[a] = c[a]
    BY <1>3, <1>14 DEF Follows, Grown
  <2>2. CASE c[a] = cause[a]
    BY Zenon, <2>1, <2>2, <1>3, <1>14, FailedKept
  <2>3. CASE c[a] # cause[a]
    <3>1. a = address /\ Changed(u, c)
      BY <2>1, <2>3, <1>8, <1>9
    <3>2. c[a] = e.error
      BY <3>1, <1>7, <1>8
    <3>3. worker'.clear
      BY <3>1, <3>2, <2>1, <1>10
    <3>4. server'[a] = server[a]
      BY <3>1, <1>3, <1>14 DEF Grown
    <3> QED
      BY Zenon, <3>1, <3>3, <3>4, <1>10
  <2> QED
    BY <2>2, <2>3
<1>16. pool'[worker'.target].generation = pool[worker'.target].generation
  BY Zenon, <1>1, <1>10, <1>14 DEF Grown
<1> QED
  BY <1>10, <1>14, <1>15, <1>16

\* The handler's end: the message at the head is gone, and the worker takes the next.
LEMMA Acknowledged ==
    ASSUME WInv, queue # <<>>, Acknowledge,
           Handling \/ Head(queue).kind # "SyncHosts",
           UNCHANGED poll
    PROVE  /\ QueueInv' /\ WorkerInv' /\ ErrorIsNew' /\ worker'.at = "loop" /\ worker'.target = None
           /\ Len(queue') = Len(queue) - 1
           /\ \A i \in 1..Len(queue') : i + 1 \in 1..Len(queue) /\ queue'[i] = queue[i + 1]
<1>1. worker' = Idle /\ worker'.at = "loop" /\ worker'.target = None
  BY DEF Acknowledge, Idle
<1>2. queue \in Seq(Messages) /\ queue' = Tail(queue)
  BY DEF Acknowledge, WInv, QueueInv
<1>3. /\ queue' \in Seq(Messages)
      /\ Len(queue') = Len(queue) - 1 /\ Len(queue') \in Nat /\ Len(queue) \in Nat
      /\ \A i \in 1..Len(queue') : i + 1 \in 1..Len(queue) /\ queue'[i] = queue[i + 1]
  BY SMT, <1>2
<1>4. QueueInv'
  <2>1. ~Handling'
    BY <1>1 DEF Handling
  <2>2. \A i \in 1..Len(queue') : HostsWait(i)' => HostsWait(i + 1)
    BY SMT, <1>3 DEF HostsWait
  <2>3. \A i \in 1..Len(queue') : HostsWait(i)' => poll'.at = "sent"
    BY <2>2, <1>3 DEF WInv, QueueInv
  <2>4. \A i, j \in 1..Len(queue') : HostsWait(i)' /\ HostsWait(j)' => i = j
    <3> SUFFICES ASSUME NEW i \in 1..Len(queue'), NEW j \in 1..Len(queue'),
                        HostsWait(i)', HostsWait(j)'
                 PROVE  i = j
      OBVIOUS
    <3>1. i + 1 = j + 1
      BY <2>2, <1>3 DEF WInv, QueueInv
    <3> QED
      BY SMT, <3>1, <1>3
  <2> QED
    BY <1>3, <2>1, <2>3, <2>4 DEF QueueInv
<1>5. WorkerInv'
  BY <1>1 DEF WorkerInv, Idle
<1>6. ErrorIsNew'
  BY <1>1 DEF ErrorIsNew
<1> QED
  BY <1>1, <1>3, <1>4, <1>5, <1>6

\* A handler ends without changing anything.
LEMMA IgnoredInv ==
    ASSUME WInv, worker.at \in {"loop", "filling"}, queue # <<>>, Acknowledge,
           worker.at = "loop" => Head(queue).kind # "SyncHosts",
           UNCHANGED <<description, poll, cause, server, published, pool, monitor, op>>
    PROVE  WInv'
<1>1. /\ QueueInv' /\ WorkerInv' /\ ErrorIsNew' /\ worker'.at = "loop" /\ worker'.target = None
      /\ \A i \in 1..Len(queue') : i + 1 \in 1..Len(queue) /\ queue'[i] = queue[i + 1]
  BY Acknowledged DEF Handling
<1>2. DescInv'
  BY DEF WInv, DescInv
<1>3. PoolInv'
  BY DEF WInv, PoolInv
<1>4. OpInv'
  BY <1>1 DEF WInv, OpInv, TasksInv, OpFits, InGeneration
<1>5. ReadyInv'
  BY SMT, <1>1 DEF WInv, ReadyInv, PublishedIsReady, Current, Shown
<1>6. FailedInv'
  <2>1. \A a \in Known(description) : <<a, server[a]>> # worker.target
    BY Zenon, WorkerAssumption DEF WInv, WorkerInv, PoolInv, Objects
  <2> QED
    BY <2>1 DEF WInv, FailedInv
<1> QED
  BY <1>1, <1>2, <1>3, <1>4, <1>5, <1>6 DEF WInv

\* The worker receives the error of a monitor.
LEMMA ReceiveMonitorErrorInv ==
    ASSUME WInv, Relies, ReceiveMonitorError
    PROVE  WInv'
<1> DEFINE m == Head(queue)
           then == [clear |-> TRUE, cancel |-> FALSE, ask |-> FALSE]
<1>1. worker.at = "loop" /\ queue # <<>> /\ m.kind = "MonitorError"
  BY DEF ReceiveMonitorError, Receives
<1>2. m.what.error \in ErrorNames /\ m.what.version \in Versions
  BY <1>1, Received, MessageFields, ErrorVersions DEF WInv
<1>3. UNCHANGED <<poll, published, op>>
  BY DEF ReceiveMonitorError
<1>4. CASE m.address \in DOMAIN server
  <2>1. m.address \in Known(description)
    BY <1>4 DEF WInv, PoolInv
  <2>2. MarkUnknown(m.address, m.what, then) /\ queue' = queue
    BY <1>4 DEF ReceiveMonitorError
  <2>3. then \in [clear : BOOLEAN, cancel : BOOLEAN, ask : BOOLEAN] /\ then.clear
    OBVIOUS
  <2> HIDE DEF then
  <2>4. DescInv' /\ PoolInv' /\ QueueInv' /\ WorkerInv' /\ OpInv' /\ ReadyInv' /\ FailedInv'
    BY <1>1, <1>2, <1>3, <2>1, <2>2, <2>3, MarkUnknownInv
  <2>5. ErrorIsNew'
    BY <1>1, <2>2 DEF ErrorIsNew
  <2> QED
    BY <2>4, <2>5 DEF WInv
<1>5. CASE m.address \notin DOMAIN server
  <2>1. Acknowledge /\ UNCHANGED <<description, cause, server, pool, monitor>>
    BY <1>5 DEF ReceiveMonitorError
  <2> QED
    BY <1>1, <1>3, <2>1, IgnoredInv
<1> QED
  BY <1>4, <1>5

\* The worker receives the error of an operation or of a pool.
LEMMA ReceiveApplicationErrorInv ==
    ASSUME WInv, Relies, ReceiveApplicationError
    PROVE  WInv'
<1> DEFINE m == Head(queue)
           then == Reaction(m.what)
<1>1. worker.at = "loop" /\ queue # <<>> /\ m.kind = "ApplicationError"
  BY DEF ReceiveApplicationError, Receives
<1>2. m.what.error \in ErrorNames /\ m.what.version \in Versions /\ m.generation \in Nat
  BY <1>1, Received, MessageFields, ErrorVersions DEF WInv
<1>3. UNCHANGED <<poll, published, op>>
  BY DEF ReceiveApplicationError
<1>4. CASE ~Ignored(m)
  <2>1. m.address \in Known(description) /\ ~Stale(m)
    BY <1>4 DEF Ignored
  <2>2. MarkUnknown(m.address, m.what, then) /\ queue' = queue
    BY <1>4 DEF ReceiveApplicationError
  <2>3. /\ then \in [clear : BOOLEAN, cancel : BOOLEAN, ask : BOOLEAN]
        /\ m.what.error # "NotPrimary" => then.clear
    <3>0. m \in Messages
      BY <1>1, Received DEF WInv
    <3>1. m.what.oldWire \in BOOLEAN
      BY <3>0, <1>1, MessageFields, ErrorsAssumption
    <3> QED
      BY Zenon, <3>1 DEF Reaction, StateChangeErrors
  <2>4. pool[<<m.address, server[m.address]>>].generation <= m.generation
    <3>1. pool[<<m.address, server[m.address]>>].generation \in Nat
      BY <2>1 DEF WInv, PoolInv
    <3> QED
      BY SMTT(20), <3>1, <2>1, <1>2 DEF Stale
  <2> HIDE DEF then
  <2>5. /\ DescInv' /\ PoolInv' /\ QueueInv' /\ WorkerInv' /\ OpInv' /\ ReadyInv' /\ FailedInv'
        /\ worker'.target = <<m.address, server[m.address]>>
        /\ pool'[worker'.target].generation = pool[worker'.target].generation
    BY <1>1, <1>2, <1>3, <2>1, <2>2, <2>3, MarkUnknownInv
  <2>6. ErrorIsNew'
    BY SMT, <2>2, <2>4, <2>5 DEF ErrorIsNew
  <2> QED
    BY <2>5, <2>6 DEF WInv
<1>5. CASE Ignored(m)
  <2>1. Acknowledge /\ UNCHANGED <<description, cause, server, pool, monitor>>
    BY <1>5 DEF ReceiveApplicationError
  <2> QED
    BY <1>1, <1>3, <2>1, IgnoredInv
<1> QED
  BY <1>4, <1>5

\* The worker receives a cluster time.
LEMMA ReceiveClusterTimeInv ==
    ASSUME WInv, Relies, ReceiveClusterTime
    PROVE  WInv'
<1> DEFINE u == AdvanceClusterTime(description, Head(queue).what)
<1>1. /\ worker.at = "loop" /\ queue # <<>>
      /\ description' = u /\ worker' = [Idle EXCEPT !.at = "publish"]
      /\ UNCHANGED <<poll, cause, server, published, pool, monitor, queue, op>>
  BY DEF ReceiveClusterTime, Receives
<1>2. Head(queue).what \in ClusterTimes
  BY Received, MessageFields DEF ReceiveClusterTime, Receives, WInv
<1>3. u.type = description.type /\ u.servers = description.servers
  BY Zenon, <1>2 DEF Relies, UpdatesFollow
<1> HIDE DEF u
<1>4. Known(description') = Known(description) /\ description'.servers = description.servers
  BY <1>1, <1>3 DEF Known
<1>5. worker'.target = None /\ worker'.at = "publish" /\ worker.target = None
  BY <1>1, PublishOnly DEF WInv, WorkerInv
<1>6. DescInv'
  BY <1>1, <1>3, <1>4 DEF WInv, DescInv
<1>7. PoolInv'
  BY <1>1, <1>4 DEF WInv, PoolInv
<1>8. QueueInv'
  BY <1>1, <1>5 DEF WInv, QueueInv, HostsWait, Handling
<1>9. WorkerInv'
  BY <1>1, <1>5, PublishOnly DEF WorkerInv
<1>10. OpInv'
  BY <1>1 DEF WInv, OpInv, TasksInv, OpFits, InGeneration
<1>11. ErrorIsNew'
  BY <1>5 DEF ErrorIsNew
<1>12. ReadyInv'
  BY <1>1, <1>4, <1>5 DEF WInv, ReadyInv, PublishedIsReady, Current
<1>13. FailedInv'
  <2>1. \A a \in Known(description) : <<a, server[a]>> # worker.target
    BY <1>5, WorkerAssumption DEF WInv, PoolInv, Objects
  <2> QED
    BY <2>1, <1>1, <1>4 DEF WInv, FailedInv
<1> QED
  BY <1>6, <1>7, <1>8, <1>9, <1>10, <1>11, <1>12, <1>13 DEF WInv

\* What publish_state shows is usable.
LEMMA ShownReady ==
    ASSUME WInv
    PROVE  /\ \A a \in DOMAIN Shown : Shown[a].object \in DOMAIN pool
           /\ \A a \in DOMAIN Shown : Shown[a].type \in DataBearing => pool[Shown[a].object].ready
BY DEF WInv, PoolInv, ReadyInv, Shown

\* The worker publishes the state it has built.
LEMMA PublishInv ==
    ASSUME WInv, Publish
    PROVE  WInv'
<1>1. /\ worker.at \in {"publish", "initialize"}
      /\ published' = Shown
      /\ op' = [t \in Tasks |-> [op[t] EXCEPT !.seen = FALSE]]
      /\ UNCHANGED <<description, poll, cause, server, pool, monitor>>
  BY DEF Publish, Shown
<1>2. \/ worker.at = "initialize" /\ worker' = Idle /\ queue' = queue
      \/ /\ worker.at = "publish" /\ worker.target # None
         /\ worker' = [worker EXCEPT !.at = "react"] /\ queue' = queue
      \/ worker.at = "publish" /\ worker.target = None /\ Acknowledge
  BY <1>1 DEF Publish, WInv, WorkerInv
<1>3. DescInv'
  BY <1>1 DEF WInv, DescInv
<1>4. PoolInv'
  BY <1>1 DEF WInv, PoolInv
<1>5. TasksInv'
  <2> SUFFICES ASSUME NEW t \in Tasks PROVE OpFits(op[t])'
    BY <1>1 DEF TasksInv
  <2>1. OpFits(op[t])
    BY DEF WInv, OpInv, TasksInv
  <2>2. op'[t] = [op[t] EXCEPT !.seen = FALSE]
    BY <1>1
  <2>3. \A x \in OpStates : LET y == [x EXCEPT !.seen = FALSE]
                            IN /\ y \in OpStates /\ y.at = x.at /\ y.object = x.object
                               /\ y.generation = x.generation
    BY Zenon DEF OpStates
  <2> QED
    BY <2>1, <2>2, <2>3, <1>1 DEF OpFits, InGeneration
<1>6. /\ \A a \in Known(description') :
            description'.servers[a].type \in DataBearing => pool'[<<a, server'[a]>>].ready
      /\ \A a \in DOMAIN published' : published'[a].object \in DOMAIN pool'
      /\ published' = Shown'
      /\ PublishedIsReady'
  BY <1>1, ShownReady DEF WInv, ReadyInv, Shown, PublishedIsReady
<1>7. CASE worker.at = "initialize" /\ worker' = Idle /\ queue' = queue
  <2>1. worker.target = None /\ worker'.target = None /\ worker'.at = "loop"
    BY <1>7 DEF WInv, WorkerInv, Idle
  <2>2. QueueInv'
    BY <1>1, <1>7, <2>1 DEF WInv, QueueInv, HostsWait, Handling
  <2>3. WorkerInv' /\ ErrorIsNew'
    BY <1>7, <2>1 DEF WorkerInv, ErrorIsNew, Idle
  <2>4. OpInv'
    BY <1>1, <1>5, <1>7 DEF WInv, OpInv, InGeneration
  <2>5. ReadyInv'
    BY <1>6, <2>1 DEF ReadyInv
  <2>6. FailedInv'
    <3>1. \A a \in Known(description) : <<a, server[a]>> # worker.target
      BY <2>1, WorkerAssumption DEF WInv, PoolInv, Objects
    <3> QED
      BY <3>1, <1>1 DEF WInv, FailedInv
  <2> QED
    BY <1>3, <1>4, <2>2, <2>3, <2>4, <2>5, <2>6 DEF WInv
<1>8. CASE /\ worker.at = "publish" /\ worker.target # None
           /\ worker' = [worker EXCEPT !.at = "react"] /\ queue' = queue
  <2>1. /\ worker'.at = "react" /\ worker'.target = worker.target /\ worker'.clear = worker.clear
        /\ worker'.cancel = worker.cancel /\ worker'.ask = worker.ask
        /\ worker' \in [at : {"react"}, target : Objects \cup {None},
                        clear : BOOLEAN, cancel : BOOLEAN, ask : BOOLEAN]
    BY <1>8 DEF WInv, WorkerInv
  <2>2. QueueInv'
    BY <1>1, <1>8, <2>1 DEF WInv, QueueInv, HostsWait, Handling
  <2>3. WorkerInv' /\ ErrorIsNew'
    BY <1>1, <1>8, <2>1 DEF WInv, WorkerInv, ErrorIsNew
  <2>4. OpInv'
    BY <1>1, <1>5, <1>8 DEF WInv, OpInv, InGeneration
  <2>5. ReadyInv'
    BY <1>6, <2>1 DEF ReadyInv
  <2>6. FailedInv'
    BY <1>1, <2>1 DEF WInv, FailedInv
  <2> QED
    BY <1>3, <1>4, <2>2, <2>3, <2>4, <2>5, <2>6 DEF WInv
<1>9. CASE worker.at = "publish" /\ worker.target = None /\ Acknowledge
  <2>1. Handling /\ queue # <<>>
    BY <1>9 DEF Handling, WInv, QueueInv
  <2>2. /\ QueueInv' /\ WorkerInv' /\ ErrorIsNew' /\ worker'.at = "loop"
        /\ \A i \in 1..Len(queue') : i + 1 \in 1..Len(queue) /\ queue'[i] = queue[i + 1]
    BY <1>1, <1>9, <2>1, Acknowledged
  <2>3. OpInv'
    BY <1>1, <1>5, <2>2 DEF WInv, OpInv, InGeneration
  <2>4. ReadyInv'
    BY <1>6, <2>2 DEF ReadyInv
  <2>5. FailedInv'
    <3>1. \A a \in Known(description) : <<a, server[a]>> # worker.target
      BY <1>9, WorkerAssumption DEF WInv, PoolInv, Objects
    <3> QED
      BY <3>1, <1>1 DEF WInv, FailedInv
  <2> QED
    BY <1>3, <1>4, <2>2, <2>3, <2>4, <2>5 DEF WInv
<1> QED
  BY <1>2, <1>7, <1>8, <1>9

\* The rest of the handler of an error: the pool, the check in progress.
LEMMA ReactInv ==
    ASSUME WInv, React
    PROVE  WInv'
<1> DEFINE o == worker.target
<1>1. /\ worker.at = "react" /\ Acknowledge
      /\ pool' = IF worker.clear
                 THEN [pool EXCEPT ![o] = [generation |-> @.generation + 1, ready |-> FALSE]]
                 ELSE pool
      /\ DOMAIN monitor' = DOMAIN monitor
      /\ UNCHANGED <<description, poll, cause, server, published, op>>
  BY DEF React
<1>2. PICK a \in Known(description) :
         o = <<a, server[a]>> /\ (worker.clear => description.servers[a].type = "Unknown")
  BY <1>1 DEF WInv, WorkerInv
<1>3. o \in DOMAIN pool /\ pool \in [DOMAIN pool -> [generation : Nat, ready : BOOLEAN]]
  BY <1>2 DEF WInv, PoolInv
<1> HIDE DEF o
<1>4. /\ DOMAIN pool' = DOMAIN pool
      /\ pool' \in [DOMAIN pool -> [generation : Nat, ready : BOOLEAN]]
      /\ \A p \in DOMAIN pool : p # o \/ ~worker.clear => pool'[p] = pool[p]
      /\ worker.clear => pool'[o].generation = pool[o].generation + 1 /\ ~pool'[o].ready
  BY SMT, <1>1, <1>3
<1>5. Handling /\ queue # <<>>
  BY <1>1 DEF Handling, WInv, QueueInv
<1>6. /\ QueueInv' /\ WorkerInv' /\ ErrorIsNew' /\ worker'.at = "loop" /\ worker'.target = None
      /\ \A i \in 1..Len(queue') : i + 1 \in 1..Len(queue) /\ queue'[i] = queue[i + 1]
  BY <1>1, <1>5, Acknowledged
<1>7. DescInv'
  BY <1>1 DEF WInv, DescInv
<1>8. PoolInv'
  BY <1>1, <1>4 DEF WInv, PoolInv
<1>9. OpInv'
  <2>1. ASSUME NEW p, NEW g \in Nat, InGeneration(p, g)
        PROVE  InGeneration(p, g)'
    BY SMT, <2>1, <1>3, <1>4 DEF InGeneration
  <2>2. TasksInv'
    BY <2>1, <1>1, <1>4 DEF WInv, OpInv, TasksInv, OpFits, OpStates
  <2>4. ASSUME NEW i \in 1..Len(queue'), queue'[i].kind = "ApplicationError"
        PROVE  InGeneration(queue[i].object, queue[i].generation)'
    <3>1. i + 1 \in 1..Len(queue) /\ queue'[i] = queue[i + 1] /\ queue[i + 1] \in Messages
      BY SMT, <1>6 DEF WInv, QueueInv
    <3>2. queue'[i].generation \in Nat
      BY <2>4, <3>1, MessageFields
    <3>3. InGeneration(queue[i + 1].object, queue[i + 1].generation)
      BY <2>4, <3>1 DEF WInv, OpInv
    <3> QED
      BY SMT, <3>1, <3>2, <3>3, <1>3, <1>4 DEF InGeneration
  <2> QED
    BY <2>2, <2>4 DEF OpInv
<1>10. \A b \in Known(description) :
          description.servers[b].type \in DataBearing => pool'[<<b, server[b]>>].ready
  <2> SUFFICES ASSUME NEW b \in Known(description), description.servers[b].type \in DataBearing
               PROVE  pool'[<<b, server[b]>>].ready
    OBVIOUS
  <2>1. <<b, server[b]>> \in DOMAIN pool /\ pool[<<b, server[b]>>].ready
    BY DEF WInv, ReadyInv, PoolInv
  <2>2. worker.clear => b # a
    BY <1>2 DEF DataBearing
  <2> QED
    BY <2>1, <2>2, <1>2, <1>4
<1>11. ReadyInv'
  <2>1. published = Shown /\ published' = published /\ Shown' = Shown
    BY Zenon, <1>1 DEF WInv, ReadyInv, Shown
  <2>2. PublishedIsReady'
    BY <2>1, <1>10 DEF PublishedIsReady, Shown
  <2> QED
    BY <2>1, <2>2, <1>1, <1>4, <1>6, <1>10 DEF WInv, ReadyInv
<1>12. FailedInv'
  <2> SUFFICES ASSUME NEW b \in Known(description), cause[b] \notin {None, "NotPrimary"}
               PROVE  ~pool'[<<b, server[b]>>].ready
    BY <1>1 DEF FailedInv
  <2>1. <<b, server[b]>> \in DOMAIN pool
    BY DEF WInv, PoolInv
  <2>2. ~pool[<<b, server[b]>>].ready \/ (worker.clear /\ o = <<b, server[b]>>)
    BY DEF WInv, FailedInv, o
  <2> QED
    BY <2>1, <2>2, <1>4
<1> QED
  BY <1>6, <1>7, <1>8, <1>9, <1>11, <1>12 DEF WInv

\* The worker receives FillPool.
LEMMA ReceiveFillPoolInv ==
    ASSUME WInv, ReceiveFillPool
    PROVE  WInv'
<1>1. /\ worker.at = "loop" /\ queue # <<>>
      /\ worker' = [Idle EXCEPT !.at = "filling"]
      /\ UNCHANGED <<description, poll, cause, server, published, pool, monitor, queue>>
  BY Zenon DEF ReceiveFillPool, Receives
<1>2. worker'.target = None /\ worker'.at = "filling" /\ worker.target = None
  BY <1>1 DEF WInv, WorkerInv, Idle
<1>3. TasksInv'
  <2>0. op' = [t \in Tasks |->
                IF t \in Known(description) /\ pool[<<t, server[t]>>].ready
                THEN [NoOp EXCEPT !.at = "executing", !.object = <<t, server[t]>>,
                                  !.generation = pool[<<t, server[t]>>].generation]
                ELSE op[t]]
    BY Zenon DEF ReceiveFillPool
  <2> SUFFICES ASSUME NEW t \in Tasks PROVE OpFits(op[t])'
    BY Zenon, <2>0 DEF TasksInv
  <2>1. CASE t \in Known(description) /\ pool[<<t, server[t]>>].ready
    <3> DEFINE o == <<t, server[t]>>
    <3>1. o \in DOMAIN pool /\ o \in Objects /\ pool[o].generation \in Nat
      BY <2>1 DEF WInv, PoolInv
    <3>2. op'[t] = [NoOp EXCEPT !.at = "executing", !.object = o, !.generation = pool[o].generation]
      BY Zenon, <2>0, <2>1
    <3> HIDE DEF o
    <3>3. op'[t] = [at |-> "executing", object |-> o, generation |-> pool[o].generation,
                    requested |-> FALSE, seen |-> FALSE]
      BY Zenon, <3>2 DEF NoOp
    <3> QED
      BY SMT, <3>1, <3>3, <2>1, <1>1 DEF OpFits, OpStates, Running, InGeneration, o
  <2>2. CASE ~(t \in Known(description) /\ pool[<<t, server[t]>>].ready)
    <3>1. op'[t] = op[t]
      BY Zenon, <2>0, <2>2
    <3> QED
      BY <3>1, <1>1 DEF WInv, OpInv, TasksInv, OpFits, InGeneration
  <2> QED
    BY <2>1, <2>2
<1>4. DescInv'
  BY <1>1 DEF WInv, DescInv
<1>5. PoolInv'
  BY <1>1 DEF WInv, PoolInv
<1>6. QueueInv'
  BY <1>1, <1>2 DEF WInv, QueueInv, HostsWait, Handling
<1>7. WorkerInv' /\ ErrorIsNew'
  BY Zenon, <1>1, <1>2 DEF WorkerInv, ErrorIsNew, Idle
<1>8. OpInv'
  BY <1>1, <1>3 DEF WInv, OpInv, InGeneration
<1>9. ReadyInv'
  BY SMT, <1>1, <1>2 DEF WInv, ReadyInv, PublishedIsReady, Current, Shown
<1>10. FailedInv'
  <2>1. \A a \in Known(description) : <<a, server[a]>> # worker.target
    BY <1>2, WorkerAssumption DEF WInv, PoolInv, Objects
  <2> QED
    BY <2>1, <1>1 DEF WInv, FailedInv
<1> QED
  BY <1>4, <1>5, <1>6, <1>7, <1>8, <1>9, <1>10 DEF WInv

\* The worker has filled the pools.
LEMMA FillPoolDoneInv ==
    ASSUME WInv, FillPoolDone
    PROVE  WInv'
<1>1. worker.at = "filling" /\ Acknowledge
      /\ UNCHANGED <<description, poll, cause, server, published, pool, monitor, op>>
  BY DEF FillPoolDone
<1>2. queue # <<>>
  BY <1>1 DEF WInv, QueueInv, Handling
<1> QED
  BY <1>1, <1>2, IgnoredInv

\* The worker leaves its loop, closes its monitors and joins them.
LEMMA ClosingInv ==
    ASSUME WInv, LeaveLoop \/ CloseMonitors \/ Join
    PROVE  WInv'
<1>1. /\ worker.at \in {"loop", "closing", "joining"}
      /\ worker'.at \in {"closing", "joining", "closed"}
      /\ worker' \in [at : {"closing", "joining", "closed"}, target : {None},
                      clear : BOOLEAN, cancel : BOOLEAN, ask : BOOLEAN]
      /\ worker.target = None /\ worker'.target = None
  <2>1. CASE LeaveLoop
    BY Zenon, <2>1 DEF LeaveLoop, Idle, WInv, WorkerInv
  <2>2. CASE CloseMonitors \/ Join
    <3>1. worker.target = None /\ worker.at \in {"closing", "joining"}
      BY Zenon, <2>2 DEF CloseMonitors, Join, WInv, WorkerInv
    <3>2. worker' = [worker EXCEPT !.at = "joining"] \/ worker' = [worker EXCEPT !.at = "closed"]
      BY Zenon, <2>2 DEF CloseMonitors, Join
    <3> QED
      BY <3>1, <3>2 DEF WInv, WorkerInv
  <2> QED
    BY <2>1, <2>2
<1>2. /\ queue' \in {queue, <<>>} /\ DOMAIN monitor' = DOMAIN monitor
      /\ UNCHANGED <<description, poll, cause, server, published, pool, op>>
  BY Zenon DEF LeaveLoop, CloseMonitors, Join
<1>3. DescInv'
  BY <1>2 DEF WInv, DescInv
<1>4. PoolInv'
  BY <1>2 DEF WInv, PoolInv
<1>5. QueueInv'
  <2>1. ~Handling /\ ~Handling'
    BY <1>1 DEF Handling
  <2>2. CASE queue' = queue
    BY <2>1, <2>2, <1>2 DEF WInv, QueueInv, HostsWait
  <2>3. CASE queue' = <<>>
    BY SMT, <2>1, <2>3 DEF QueueInv
  <2> QED
    BY <2>2, <2>3, <1>2
<1>6. WorkerInv' /\ ErrorIsNew'
  BY <1>1 DEF WorkerInv, ErrorIsNew
<1>7. OpInv'
  BY SMTT(20), <1>2 DEF WInv, OpInv, TasksInv, OpFits, InGeneration
<1>8. ReadyInv'
  BY SMT, <1>1, <1>2 DEF WInv, ReadyInv, PublishedIsReady, Current, Shown
<1>9. FailedInv'
  <2>1. \A a \in Known(description) : <<a, server[a]>> # worker.target
    BY <1>1, WorkerAssumption DEF WInv, PoolInv, Objects
  <2> QED
    BY Zenon, <2>1, <1>2 DEF WInv, FailedInv
<1> QED
  BY <1>3, <1>4, <1>5, <1>6, <1>7, <1>8, <1>9 DEF WInv

\* What the tasks beside the worker may do: go on, and send a message.
LEMMA TaskFrame ==
    ASSUME WInv, TasksInv', DOMAIN monitor' = DOMAIN monitor,
           UNCHANGED <<description, poll, cause, server, published, pool, worker>>,
           \/ queue' = queue
           \/ \E m \in Messages :
                 /\ queue' = Append(queue, m) /\ m.kind # "SyncHosts"
                 /\ m.kind = "ApplicationError" => InGeneration(m.object, m.generation)
    PROVE  WInv'
<1>1. DescInv'
  BY DEF WInv, DescInv
<1>2. PoolInv'
  BY DEF WInv, PoolInv
<1>3. WorkerInv'
  BY DEF WInv, WorkerInv
<1>4. ReadyInv'
  BY SMT DEF WInv, ReadyInv, PublishedIsReady, Current, Shown
<1>5. FailedInv'
  BY Zenon DEF WInv, FailedInv
<1>6. CASE queue' = queue
  <2>1. QueueInv' /\ ErrorIsNew'
    BY <1>6 DEF WInv, QueueInv, HostsWait, Handling, ErrorIsNew
  <2>2. OpInv'
    BY <1>6 DEF WInv, OpInv, InGeneration
  <2> QED
    BY <1>1, <1>2, <1>3, <1>4, <1>5, <2>1, <2>2 DEF WInv
<1>7. CASE queue' # queue
  <2>1. PICK m \in Messages :
           /\ queue' = Append(queue, m) /\ m.kind # "SyncHosts"
           /\ m.kind = "ApplicationError" => InGeneration(m.object, m.generation)
    BY <1>7
  <2>2. /\ queue \in Seq(Messages) /\ queue' \in Seq(Messages)
        /\ Len(queue') = Len(queue) + 1 /\ Len(queue) \in Nat
        /\ \A i \in 1..Len(queue) : queue'[i] = queue[i]
        /\ queue'[Len(queue) + 1] = m
        /\ queue' # <<>>
        /\ queue # <<>> => Head(queue') = Head(queue)
    BY SMT, <2>1 DEF WInv, QueueInv
  <2>3. \A i \in 1..Len(queue') : i \in 1..Len(queue) \/ i = Len(queue) + 1
    BY SMT, <2>2
  <2>4. Handling' = Handling
    BY DEF Handling
  <2>5. \A i \in 1..Len(queue') : HostsWait(i)' => i \in 1..Len(queue) /\ HostsWait(i)
    BY <2>1, <2>2, <2>3, <2>4 DEF HostsWait
  <2>6. QueueInv'
    BY <2>2, <2>5 DEF WInv, QueueInv
  <2>7. OpInv'
    <3> SUFFICES ASSUME NEW i \in 1..Len(queue'), queue'[i].kind = "ApplicationError"
                 PROVE  InGeneration(queue[i].object, queue[i].generation)'
      BY DEF OpInv
    <3>1. CASE i \in 1..Len(queue)
      BY <3>1, <2>2 DEF WInv, OpInv, InGeneration
    <3>2. CASE i = Len(queue) + 1
      BY <3>2, <2>1, <2>2 DEF InGeneration
    <3> QED
      BY <3>1, <3>2, <2>3
  <2>8. ErrorIsNew'
    <3>1. worker.target # None => queue # <<>>
      BY DEF WInv, WorkerInv, QueueInv, Handling
    <3> QED
      BY <3>1, <2>2 DEF WInv, ErrorIsNew
  <2> QED
    BY <1>1, <1>2, <1>3, <1>4, <1>5, <2>6, <2>7, <2>8 DEF WInv
<1> QED
  BY <1>6, <1>7

\* The steps of the SRV poller.
LEMMA PollSrvInv ==
    ASSUME WInv, PollSrv
    PROVE  WInv'
<1>1. /\ UNCHANGED <<description, cause, server, published, pool, monitor, worker, op>>
      /\ StartLookup \/ \E hosts \in Lookups : FinishLookup(hosts)
      /\ queue' = IF poll'.at = "sent" THEN Append(queue, Message(None, "SyncHosts", None, poll'.hosts))
                                       ELSE queue
  BY DEF PollSrv, StartLookup, FinishLookup
<1>2. /\ poll' \in [at : {"asleep", "lookup", "sent"}, hosts : SUBSET Addresses]
      /\ poll.at # "sent"
  <2>1. CASE StartLookup
    BY <2>1 DEF StartLookup, Asleep
  <2>2. CASE \E hosts \in Lookups : FinishLookup(hosts)
    BY SMT, <2>2, WorkerAssumption DEF FinishLookup, Asleep
  <2> QED
    BY <2>1, <2>2, <1>1
<1>3. \A i \in 1..Len(queue) : ~HostsWait(i)
  BY <1>2 DEF WInv, QueueInv
<1>4. DescInv'
  BY Zenon, <1>1, <1>2 DEF WInv, DescInv
<1>5. PoolInv'
  BY <1>1 DEF WInv, PoolInv
<1>6. WorkerInv'
  BY <1>1 DEF WInv, WorkerInv
<1>7. ReadyInv'
  BY SMT, <1>1 DEF WInv, ReadyInv, PublishedIsReady, Current, Shown
<1>8. FailedInv'
  BY <1>1 DEF WInv, FailedInv
<1>9. Handling' = Handling
  BY <1>1 DEF Handling
<1>10. CASE queue' = queue /\ poll'.at # "sent"
  <2>1. QueueInv' /\ ErrorIsNew'
    BY Zenon, <1>1, <1>3, <1>9, <1>10 DEF WInv, QueueInv, HostsWait, ErrorIsNew
  <2>2. OpInv'
    BY <1>1, <1>10 DEF WInv, OpInv, TasksInv, OpFits, InGeneration
  <2> QED
    BY <1>4, <1>5, <1>6, <1>7, <1>8, <2>1, <2>2 DEF WInv
<1>11. CASE poll'.at = "sent"
  <2> DEFINE m == Message(None, "SyncHosts", None, poll'.hosts)
  <2>1. m \in Messages /\ m.kind = "SyncHosts" /\ queue' = Append(queue, m)
    BY Zenon, <1>1, <1>2, <1>11, MessageSent DEF Message
  <2> HIDE DEF m
  <2>2. /\ queue \in Seq(Messages) /\ queue' \in Seq(Messages)
        /\ Len(queue') = Len(queue) + 1 /\ Len(queue) \in Nat
        /\ \A i \in 1..Len(queue) : queue'[i] = queue[i]
        /\ queue'[Len(queue) + 1] = m
        /\ queue' # <<>>
        /\ queue # <<>> => Head(queue') = Head(queue)
    BY SMT, <2>1 DEF WInv, QueueInv
  <2>3. \A i \in 1..Len(queue') : i \in 1..Len(queue) \/ i = Len(queue) + 1
    BY SMT, <2>2
  <2>4. \A i \in 1..Len(queue') : HostsWait(i)' => i = Len(queue) + 1
    BY <2>2, <2>3, <1>3, <1>9 DEF HostsWait
  <2>5. QueueInv'
    BY <2>2, <2>4, <1>11 DEF QueueInv
  <2>6. OpInv'
    <3>1. TasksInv'
      BY <1>1 DEF WInv, OpInv, TasksInv, OpFits, InGeneration
    <3>2. \A i \in 1..Len(queue') : queue'[i].kind = "ApplicationError" => i \in 1..Len(queue)
      BY <2>1, <2>2, <2>3
    <3> QED
      BY ZenonT(60), <3>1, <3>2, <2>2, <1>1 DEF WInv, OpInv, InGeneration
  <2>7. ErrorIsNew'
    <3>1. worker.target # None => queue # <<>>
      BY DEF WInv, WorkerInv, QueueInv, Handling
    <3> QED
      BY Zenon, <3>1, <2>2, <1>1 DEF WInv, ErrorIsNew
  <2> QED
    BY <1>4, <1>5, <1>6, <1>7, <1>8, <2>5, <2>6, <2>7 DEF WInv
<1> QED
  BY <1>1, <1>10, <1>11

\* One task goes on.
LEMMA TaskGoesOn ==
    ASSUME WInv, NEW t \in Tasks, NEW x, OpFits(x), op' = [op EXCEPT ![t] = x], pool' = pool
    PROVE  TasksInv'
<1>1. op = [s \in Tasks |-> op[s]] /\ \A s \in Tasks : OpFits(op[s])
  BY DEF WInv, OpInv, TasksInv
<1>2. op' = [s \in Tasks |-> IF s = t THEN x ELSE op[s]]
  BY <1>1
<1>3. op' = [s \in Tasks |-> op'[s]] /\ \A s \in Tasks : op'[s] = IF s = t THEN x ELSE op[s]
  BY Zenon, <1>2
<1>4. \A s \in Tasks : OpFits(op[s])'
  <2> SUFFICES ASSUME NEW s \in Tasks PROVE OpFits(op[s])'
    OBVIOUS
  <2>1. CASE s = t
    <3>1. op'[s] = x
      BY <1>3, <2>1
    <3> QED
      BY <3>1 DEF OpFits, InGeneration
  <2>2. CASE s # t
    <3>1. op'[s] = op[s] /\ OpFits(op[s])
      BY <1>1, <1>3, <2>2
    <3> QED
      BY <3>1 DEF OpFits, InGeneration
  <2> QED
    BY <2>1, <2>2
<1> QED
  BY <1>3, <1>4 DEF TasksInv

\* A task moves on with the server, the connection and the flags that it has.
LEMMA TaskMoves ==
    ASSUME NEW x, OpFits(x), NEW at, NEW requested \in BOOLEAN, NEW seen \in BOOLEAN,
           \/ at \in {"idle", "selecting", "waiting"}
           \/ x.at \in Running /\ at \in Running
    PROVE  OpFits([x EXCEPT !.at = at, !.requested = requested, !.seen = seen])
<1> DEFINE y == [x EXCEPT !.at = at, !.requested = requested, !.seen = seen]
<1>1. /\ y \in OpStates /\ y.at = at /\ y.object = x.object /\ y.generation = x.generation
  BY Zenon DEF OpFits, OpStates, Running
<1> HIDE DEF y
<1>2. OpFits(y)
  BY <1>1 DEF OpFits, Running
<1> QED
  BY <1>2 DEF y

\* A task that is done.
LEMMA NoOpFits ==
    OpFits(NoOp)
BY DEF OpFits, OpStates, NoOp, Running

\* The steps of an operation that selects a server.
LEMMA SelectionInv ==
    ASSUME WInv, NEW p \in Ops, SelectionStep(p)
    PROVE  WInv'
<1>0. /\ p \in Tasks /\ OpFits(op[p]) /\ op = [s \in Tasks |-> op[s]]
      /\ op[p] \in OpStates
  BY Zenon DEF Tasks, WInv, OpInv, TasksInv, OpFits
<1>1. UNCHANGED <<description, poll, cause, server, published, pool, monitor, worker>>
  BY Zenon DEF SelectionStep, StartOperation, SelectServer, SeeUpdate, SelectionFails, CheckOut, Gossip,
         othersThanOp
<1>a. \A at : /\ [op EXCEPT ![p].at = at] = [op EXCEPT ![p] = [op[p] EXCEPT !.at = at]]
              /\ [op[p] EXCEPT !.at = at] =
                   [op[p] EXCEPT !.at = at, !.requested = op[p].requested, !.seen = op[p].seen]
  BY Zenon, <1>0 DEF OpStates
<1>2. CASE StartOperation(p)
  <2>1. op' = [op EXCEPT ![p] = [op[p] EXCEPT !.at = "selecting"]] /\ queue' = queue
    BY Zenon, <1>2, <1>a DEF StartOperation
  <2>2. OpFits([op[p] EXCEPT !.at = "selecting"])
    <3>1. op[p].requested \in BOOLEAN /\ op[p].seen \in BOOLEAN
      BY <1>0 DEF OpStates
    <3>2. OpFits([op[p] EXCEPT !.at = "selecting", !.requested = op[p].requested, !.seen = op[p].seen])
      BY Zenon, <1>0, <3>1, TaskMoves
    <3> QED
      BY Zenon, <3>2, <1>a
  <2>3. TasksInv'
    BY <1>0, <1>1, <2>1, <2>2, TaskGoesOn
  <2> QED
    BY <2>1, <2>3, <1>1, TaskFrame
<1>3. CASE SelectServer(p)
  <2>0. queue' = queue
    BY Zenon, <1>3 DEF SelectServer
  <2>1. \/ \E o \in Selectable :
              op' = [op EXCEPT ![p].at = "selected", ![p].object = o, ![p].seen = TRUE]
        \/ op' = [op EXCEPT ![p].at = "waiting", ![p].requested = TRUE, ![p].seen = TRUE]
    BY Zenon, <1>3 DEF SelectServer
  <2>2. CASE op' = [op EXCEPT ![p].at = "waiting", ![p].requested = TRUE, ![p].seen = TRUE]
    <3>1. op' = [op EXCEPT ![p] = [op[p] EXCEPT !.at = "waiting", !.requested = TRUE, !.seen = TRUE]]
      BY Zenon, <2>2, <1>0
    <3>2. OpFits([op[p] EXCEPT !.at = "waiting", !.requested = TRUE, !.seen = TRUE])
      BY Zenon, <1>0, TaskMoves
    <3> QED
      BY Zenon, <3>1, <3>2, <2>0, <1>0, <1>1, TaskGoesOn, TaskFrame
  <2>3. ASSUME NEW o \in Selectable,
               op' = [op EXCEPT ![p].at = "selected", ![p].object = o, ![p].seen = TRUE]
        PROVE  WInv'
    <3> DEFINE x == [op[p] EXCEPT !.at = "selected", !.object = o, !.seen = TRUE]
    <3>1. op' = [op EXCEPT ![p] = x]
      BY Zenon, <2>3, <1>0
    <3>2. o \in DOMAIN pool /\ o \in Objects
      BY DEF Selectable, WInv, ReadyInv, PoolInv
    <3>3. x \in OpStates /\ x.at = "selected" /\ x.object = o
      BY Zenon, <1>0, <3>2 DEF OpStates
    <3> HIDE DEF x
    <3>4. OpFits(x)
      BY <3>2, <3>3 DEF OpFits, Running
    <3> QED
      BY <3>1, <3>4, <2>0, <1>0, <1>1, TaskGoesOn, TaskFrame
  <2> QED
    BY Zenon, <2>1, <2>2, <2>3
<1>4. CASE SeeUpdate(p)
  <2>1. op' = [op EXCEPT ![p] = [op[p] EXCEPT !.at = "selecting", !.requested = FALSE, !.seen = op[p].seen]]
        /\ queue' = queue
    BY Zenon, <1>4, <1>0 DEF SeeUpdate, OpStates
  <2>2. op[p].seen \in BOOLEAN
    BY <1>0 DEF OpStates
  <2>3. OpFits([op[p] EXCEPT !.at = "selecting", !.requested = FALSE, !.seen = op[p].seen])
    BY Zenon, <1>0, <2>2, TaskMoves
  <2> QED
    BY Zenon, <2>1, <2>3, <1>0, <1>1, TaskGoesOn, TaskFrame
<1>5. CASE SelectionFails(p)
  <2>1. op' = [op EXCEPT ![p] = NoOp] /\ queue' = queue
    BY <1>5 DEF SelectionFails
  <2> QED
    BY <2>1, <1>0, <1>1, NoOpFits, TaskGoesOn, TaskFrame
<1>6. CASE CheckOut(p)
  <2> DEFINE o == op[p].object
  <2>1. /\ op[p].at = "selected" /\ queue' = queue
        /\ op' = [op EXCEPT ![p] = IF pool[o].ready
                                   THEN [op[p] EXCEPT !.at = "executing", !.generation = pool[o].generation]
                                   ELSE NoOp]
    BY <1>6 DEF CheckOut
  <2>2. o \in DOMAIN pool /\ pool[o].generation \in Nat
    BY <2>1, <1>0 DEF OpFits, WInv, PoolInv
  <2>3. CASE pool[o].ready
    <3> DEFINE x == [op[p] EXCEPT !.at = "executing", !.generation = pool[o].generation]
    <3>1. op' = [op EXCEPT ![p] = x]
      BY <2>1, <2>3
    <3>2. x \in OpStates /\ x.at = "executing" /\ x.object = o /\ x.generation = pool[o].generation
      BY Zenon, <1>0, <2>2 DEF OpStates, Running
    <3> HIDE DEF x, o
    <3>3. OpFits(x)
      BY SMT, <2>2, <2>3, <3>2 DEF OpFits, InGeneration
    <3> QED
      BY <3>1, <3>3, <2>1, <1>0, <1>1, TaskGoesOn, TaskFrame
  <2>4. CASE ~pool[o].ready
    <3>1. op' = [op EXCEPT ![p] = NoOp]
      BY <2>1, <2>4
    <3> QED
      BY <3>1, <2>1, <1>0, <1>1, NoOpFits, TaskGoesOn, TaskFrame
  <2> QED
    BY <2>3, <2>4
<1>7. CASE Gossip(p)
  <2>1. op' = [op EXCEPT ![p] = [op[p] EXCEPT !.at = "gossiping"]] /\ op[p].at = "executing"
    BY Zenon, <1>7, <1>a DEF Gossip
  <2>2. OpFits([op[p] EXCEPT !.at = "gossiping"])
    <3>1. op[p].requested \in BOOLEAN /\ op[p].seen \in BOOLEAN
      BY <1>0 DEF OpStates
    <3>2. OpFits([op[p] EXCEPT !.at = "gossiping", !.requested = op[p].requested, !.seen = op[p].seen])
      BY Zenon, <1>0, <2>1, <3>1, TaskMoves DEF Running
    <3> QED
      BY Zenon, <3>2, <1>a
  <2>3. TasksInv'
    BY <1>0, <1>1, <2>1, <2>2, TaskGoesOn
  <2>4. PICK time \in ClusterTimes : Send(Message(p, "AdvanceClusterTime", None, time))
    BY <1>7 DEF Gossip
  <2> DEFINE m == Message(p, "AdvanceClusterTime", None, time)
  <2>5. m \in Messages /\ m.kind = "AdvanceClusterTime"
    BY <1>0, MessageSent DEF Message
  <2>6. queue' = queue \/ queue' = Append(queue, m)
    BY <2>4 DEF Send
  <2> HIDE DEF m
  <2> QED
    BY <2>3, <2>5, <2>6, <1>1, TaskFrame
<1> QED
  BY <1>2, <1>3, <1>4, <1>5, <1>6, <1>7 DEF SelectionStep

\* The steps of a task of a pool.
LEMMA TaskInv ==
    ASSUME WInv, NEW t \in Tasks, TaskStep(t)
    PROVE  WInv'
<1>0. OpFits(op[t]) /\ op[t] \in OpStates /\ op = [s \in Tasks |-> op[s]]
  BY DEF WInv, OpInv, TasksInv, OpFits
<1>1. UNCHANGED <<description, poll, cause, server, published, pool, monitor, worker>>
  BY DEF TaskStep, TaskSucceeds, TaskAcknowledged, TaskFails, othersThanOp
<1>a. \A at : /\ [op EXCEPT ![t].at = at] = [op EXCEPT ![t] = [op[t] EXCEPT !.at = at]]
              /\ [op[t] EXCEPT !.at = at] =
                   [op[t] EXCEPT !.at = at, !.requested = op[t].requested, !.seen = op[t].seen]
  BY Zenon, <1>0 DEF OpStates
<1>b. ASSUME op[t].at \in Running, NEW at \in Running
      PROVE  OpFits([op[t] EXCEPT !.at = at])
  <2>1. op[t].requested \in BOOLEAN /\ op[t].seen \in BOOLEAN
    BY <1>0 DEF OpStates
  <2>2. OpFits([op[t] EXCEPT !.at = at, !.requested = op[t].requested, !.seen = op[t].seen])
    BY Zenon, <1>0, <1>b, <2>1, TaskMoves
  <2> QED
    BY Zenon, <2>2, <1>a
<1>2. CASE TaskSucceeds(t)
  <2>1. op' = [op EXCEPT ![t] = NoOp] /\ queue' = queue
    BY <1>2 DEF TaskSucceeds
  <2> QED
    BY Zenon, <2>1, <1>1, NoOpFits, TaskGoesOn, TaskFrame
<1>3. CASE TaskAcknowledged(t)
  <2>1. /\ queue' = queue /\ op[t].at \in Running
        /\ op' = [op EXCEPT ![t] = NoOp] \/ op' = [op EXCEPT ![t] = [op[t] EXCEPT !.at = "replied"]]
    BY Zenon, <1>3 DEF TaskAcknowledged, Running
  <2>2. OpFits([op[t] EXCEPT !.at = "replied"])
    BY <2>1, <1>b DEF Running
  <2> QED
    BY <2>1, <2>2, <1>1, NoOpFits, TaskGoesOn, TaskFrame
<1>4. ASSUME NEW e \in AppErrors, TaskFails(t, e)
      PROVE  WInv'
  <2> DEFINE m == ErrorMessage(t, op[t].object, op[t].generation, e)
  <2>1. /\ op[t].at \in Running /\ op' = [op EXCEPT ![t] = [op[t] EXCEPT !.at = "reporting"]]
        /\ queue' = queue \/ queue' = Append(queue, m)
    BY Zenon, <1>4, <1>a DEF TaskFails, Send, Running
  <2>2. TasksInv'
    BY Zenon, <2>1, <1>1, <1>b, TaskGoesOn DEF Running
  <2>3. InGeneration(op[t].object, op[t].generation)
    BY <2>1, <1>0 DEF OpFits
  <2>4. op[t].object \in Objects /\ op[t].generation \in Nat
    BY <2>3, <1>0 DEF InGeneration, WInv, PoolInv, OpStates
  <2>5. m \in Messages /\ m.kind = "ApplicationError" /\ InGeneration(m.object, m.generation)
    BY Zenon, <2>3, <2>4, MessageSent DEF ErrorMessage
  <2> HIDE DEF m
  <2> QED
    BY <2>1, <2>2, <2>5, <1>1, TaskFrame
<1> QED
  BY <1>2, <1>3, <1>4 DEF TaskStep

\* The steps of a monitor.
LEMMA MonitorInv ==
    ASSUME WInv, NEW o \in DOMAIN monitor, MonitorStep(o)
    PROVE  WInv'
<1>1. UNCHANGED othersThanMonitor /\ DOMAIN monitor' = DOMAIN monitor
  BY Zenon DEF MonitorStep, CheckSucceeds, CheckFails, CheckCancelled, ReportAcknowledged, Wake
<1>2. UNCHANGED <<description, poll, cause, server, published, pool, worker, op>>
  BY <1>1 DEF othersThanMonitor
<1>3. TasksInv'
  BY <1>2 DEF WInv, OpInv, TasksInv, OpFits, InGeneration
<1>4. o \in Objects
  BY DEF WInv, PoolInv
<1>5. \/ queue' = queue
      \/ \E m \in Messages :
            queue' = Append(queue, m) /\ m.kind \in {"ServerUpdate", "MonitorError"}
  <2>1. ASSUME NEW r \in Replies, CheckSucceeds(o, r)
        PROVE  \/ queue' = queue
               \/ \E m \in Messages : queue' = Append(queue, m) /\ m.kind = "ServerUpdate"
    <3>1. queue' = queue \/ queue' = Append(queue, Message(o, "ServerUpdate", o[1], r))
      BY <2>1 DEF CheckSucceeds, Send
    <3>2. Message(o, "ServerUpdate", o[1], r) \in Messages
          /\ Message(o, "ServerUpdate", o[1], r).kind = "ServerUpdate"
      BY Zenon, <1>4, MessageSent DEF Message
    <3> QED
      BY <3>1, <3>2
  <2>2. ASSUME NEW e \in MonitorErrors, CheckFails(o, e)
        PROVE  \/ queue' = queue
               \/ \E m \in Messages : queue' = Append(queue, m) /\ m.kind = "MonitorError"
    <3>1. queue' = queue \/ queue' = Append(queue, Message(o, "MonitorError", o[1], e))
      BY <2>2 DEF CheckFails, Send
    <3>2. Message(o, "MonitorError", o[1], e) \in Messages
          /\ Message(o, "MonitorError", o[1], e).kind = "MonitorError"
      BY Zenon, <1>4, MessageSent DEF Message
    <3> QED
      BY <3>1, <3>2
  <2>3. CASE CheckCancelled(o) \/ ReportAcknowledged(o) \/ Wake(o)
    BY <2>3 DEF CheckCancelled, ReportAcknowledged, Wake
  <2> QED
    BY <2>1, <2>2, <2>3 DEF MonitorStep
<1> QED
  BY <1>1, <1>2, <1>3, <1>5, TaskFrame

\* The steps of the client and of its shutdown.
LEMMA ClientInv ==
    ASSUME WInv, WarmConnectionPool \/ Shutdown \/ DropClient
    PROVE  WInv'
<1>1. UNCHANGED <<description, poll, cause, server, published, pool, monitor, worker, op>>
  BY DEF WarmConnectionPool, Shutdown, DropClient, othersThanOp
<1>2. TasksInv'
  BY <1>1 DEF WInv, OpInv, TasksInv, OpFits, InGeneration
<1>3. queue' = queue \/ queue' = Append(queue, Message(Filler, "Broadcast", None, None))
  BY Zenon DEF WarmConnectionPool, Shutdown, DropClient, Send
<1>4. Message(Filler, "Broadcast", None, None) \in Messages
      /\ Message(Filler, "Broadcast", None, None).kind = "Broadcast"
  BY Zenon, MessageSent DEF Message
<1> QED
  BY <1>1, <1>2, <1>3, <1>4, TaskFrame

\* The invariant holds when the worker starts.
LEMMA InitWInv ==
    ASSUME WorkerInit
    PROVE  WInv
<1>1. /\ Init
      /\ cause = [a \in Addresses |-> None]
      /\ server = [a \in Known(description) |-> 1]
      /\ published = <<>>
      /\ pool = [o \in Known(description) \X {1} |-> NewPool]
      /\ monitor = [o \in Known(description) \X {1} |-> NewMonitor]
      /\ queue = <<>>
      /\ worker = [Idle EXCEPT !.at = "initialize"]
      /\ op = [t \in Tasks |-> NoOp]
  BY DEF WorkerInit
<1>2. PICK options \in Options : description = Initialize(options)
  BY <1>1, WorkerAssumption DEF Init
<1>3. /\ Known(description) = options.hosts
      /\ \A a \in Known(description) : description.servers[a] = NewServer
      /\ description.type # "LoadBalanced"
  <2>1. ~options.loadBalanced /\ options.direct \in BOOLEAN
    BY WorkerAssumption, OptionsAssumption
  <2> QED
    BY <1>2, <2>1 DEF Initialize, Known
<1>4. Known(description) \subseteq Addresses
  BY <1>3, OptionsAssumption
<1>5. "type" \in DOMAIN NewServer /\ NewServer.type = "Unknown"
  BY DEF NewServer, UnknownServer
<1>6. DescInv
  <2>1. poll \in [at : {"asleep", "lookup", "sent"}, hosts : SUBSET Addresses]
    BY <1>1 DEF Init, Asleep
  <2> QED
    BY <2>1, <1>1, <1>3, <1>4, <1>5 DEF DescInv
<1>7. PoolInv
  <2>2. DOMAIN pool = Known(description) \X {1} /\ NewPool \in [generation : Nat, ready : BOOLEAN]
    BY <1>1 DEF NewPool
  <2> QED
    BY SMT, <2>2, <1>1, <1>4 DEF PoolInv, Objects
<1>8. worker.at = "initialize" /\ worker.target = None
  BY <1>1 DEF Idle
<1>9. QueueInv
  BY SMT, <1>1, <1>8 DEF QueueInv, Handling
<1>10. WorkerInv
  BY <1>1, <1>8 DEF WorkerInv, Idle
<1>11. OpInv
  BY SMT, <1>1, NoOpFits DEF OpInv, TasksInv
<1>12. ErrorIsNew
  BY <1>8 DEF ErrorIsNew
<1>13. ReadyInv
  BY SMT, <1>1, <1>3, <1>5, <1>8 DEF ReadyInv, PublishedIsReady, DataBearing
<1>14. FailedInv
  BY <1>1, <1>4 DEF FailedInv
<1> QED
  BY <1>6, <1>7, <1>9, <1>10, <1>11, <1>12, <1>13, <1>14 DEF WInv

\* Every step.
LEMMA NextWInv ==
    ASSUME WInv, Relies, [WorkerNext]_allVars
    PROVE  WInv'
<1>1. CASE WorkerStep
  BY <1>1, ReceiveUpdateInv, ReceiveMonitorErrorInv, ReceiveApplicationErrorInv,
     ReceiveClusterTimeInv, ReceiveHostsInv, PublishInv, ReactInv, ReceiveFillPoolInv,
     FillPoolDoneInv, ClosingInv DEF WorkerStep
<1>2. CASE UNCHANGED allVars
  <2>1. UNCHANGED <<description, poll, cause, server, published, pool, monitor, queue, worker, op>>
    BY <1>2 DEF allVars, workerVars
  <2>2. TasksInv'
    BY <2>1 DEF WInv, OpInv, TasksInv, OpFits, InGeneration
  <2> QED
    BY <2>1, <2>2, TaskFrame
<1> QED
  BY <1>1, <1>2, ClosingInv, PollSrvInv, MonitorInv, SelectionInv, TaskInv, ClientInv DEF WorkerNext

\* What a step does to the pools: an update of the topology, the rest of an
\* error's handler, or nothing.
LEMMA PoolSteps ==
    ASSUME WInv, Relies, [WorkerNext]_allVars
    PROVE  \/ pool' = pool
           \/ React
           \/ \E newTd, newCause :
                 Follows(description, newTd, newCause) /\ UpdateTopology(newTd, newCause)
<1> SUFFICES ASSUME pool' # pool, ~React
             PROVE  \E newTd, newCause :
                       Follows(description, newTd, newCause) /\ UpdateTopology(newTd, newCause)
  OBVIOUS
<1>1. CASE ReceiveUpdate
  <2> DEFINE m == Head(queue)
             u == Update(description, m.address, m.what)
             c == NewCause(m.address, m.what, None)
  <2>1. m.address \in Addresses /\ m.what \in Replies
    BY <1>1, Received, MessageFields DEF WInv, ReceiveUpdate, Receives
  <2>2. Follows(description, u, c)
    BY Zenon, <2>1 DEF Relies, UpdatesFollow
  <2>3. UpdateTopology(u, c)
    BY <1>1 DEF ReceiveUpdate, NewCause, Rejected
  <2> QED
    BY <2>2, <2>3
<1>2. ASSUME NEW address \in Addresses, NEW e, NEW then, MarkUnknown(address, e, then),
             e.error \in ErrorNames, e.version \in Versions
      PROVE  \E newTd, newCause :
                Follows(description, newTd, newCause) /\ UpdateTopology(newTd, newCause)
  <2> DEFINE sd == UnknownServer(e.version)
             u == Update(description, address, sd)
             c == NewCause(address, sd, e.error)
  <2>1. Follows(description, u, c)
    BY Zenon, <1>2 DEF Relies, UpdatesFollow
  <2>2. ErrorCause(address, e) = c
    BY DEF ErrorCause, NewCause, Rejected
  <2>3. UpdateTopology(u, c)
    BY <1>2, <2>2 DEF MarkUnknown
  <2> QED
    BY <2>1, <2>3
<1>3. CASE ReceiveMonitorError
  <2> DEFINE m == Head(queue)
  <2>1. m.address \in Addresses /\ m.what.error \in ErrorNames /\ m.what.version \in Versions
    BY <1>3, Received, MessageFields, ErrorVersions DEF WInv, ReceiveMonitorError, Receives
  <2>2. \E then : MarkUnknown(m.address, m.what, then)
    BY <1>3 DEF ReceiveMonitorError
  <2> QED
    BY Zenon, <2>1, <2>2, <1>2
<1>4. CASE ReceiveApplicationError
  <2> DEFINE m == Head(queue)
  <2>1. m.address \in Addresses /\ m.what.error \in ErrorNames /\ m.what.version \in Versions
    BY <1>4, Received, MessageFields, ErrorVersions DEF WInv, ReceiveApplicationError, Receives
  <2>2. \E then : MarkUnknown(m.address, m.what, then)
    BY <1>4 DEF ReceiveApplicationError
  <2> QED
    BY <2>1, <2>2, <1>2
<1>5. CASE ReceiveHosts
  BY <1>5 DEF ReceiveHosts, Relies, UpdatesFollow
<1>6. ~(\/ ReceiveClusterTime \/ Publish \/ ReceiveFillPool \/ FillPoolDone \/ CloseMonitors \/ Join
         \/ LeaveLoop \/ PollSrv \/ WarmConnectionPool \/ Shutdown \/ DropClient)
  BY Zenon DEF ReceiveClusterTime, Publish, ReceiveFillPool, FillPoolDone, CloseMonitors, Join,
         LeaveLoop, PollSrv, WarmConnectionPool, Shutdown, DropClient, othersThanOp
<1>7. \A p \in DOMAIN monitor : ~MonitorStep(p)
  BY ZenonT(60) DEF MonitorStep, CheckSucceeds, CheckFails, CheckCancelled, ReportAcknowledged, Wake,
         othersThanMonitor
<1>8. \A p \in Ops : ~SelectionStep(p)
  BY Zenon DEF SelectionStep, StartOperation, SelectServer, SeeUpdate, SelectionFails, CheckOut, Gossip,
         othersThanOp
<1>9. \A t \in Tasks : ~TaskStep(t)
  BY DEF TaskStep, TaskSucceeds, TaskAcknowledged, TaskFails, othersThanOp
<1>10. ~UNCHANGED allVars
  BY DEF allVars, workerVars
<1> QED
  BY <1>1, <1>3, <1>4, <1>5, <1>6, <1>7, <1>8, <1>9, <1>10 DEF WorkerNext, WorkerStep

\* Pools are made for addresses that join, and none is forgotten.
LEMMA PoolsJoin ==
    ASSUME WInv, Relies, [WorkerNext]_allVars
    PROVE  \E new \in SUBSET Addresses :
              DOMAIN pool' = DOMAIN pool \cup {<<a, Joins(a) + 1>> : a \in new}
<1>1. CASE pool' = pool \/ React
  <2>1. DOMAIN pool' = DOMAIN pool
    BY <1>1 DEF React
  <2>2. DOMAIN pool' = DOMAIN pool \cup {<<a, Joins(a) + 1>> : a \in {}}
    BY <2>1
  <2> QED
    BY Zenon, <2>2
<1>2. ASSUME NEW newTd, NEW newCause, Follows(description, newTd, newCause),
             UpdateTopology(newTd, newCause)
      PROVE  \E new \in SUBSET Addresses :
                DOMAIN pool' = DOMAIN pool \cup {<<a, Joins(a) + 1>> : a \in new}
  <2> DEFINE new == Known(newTd) \ Known(description)
  <2>1. new \in SUBSET Addresses
    BY <1>2 DEF Follows
  <2>2. DOMAIN pool' = DOMAIN pool \cup {<<a, Joins(a) + 1>> : a \in new}
    BY <1>2 DEF UpdateTopology
  <2> HIDE DEF new
  <2> QED
    BY <2>1, <2>2
<1> QED
  BY Zenon, <1>1, <1>2, PoolSteps

\* The pools change generation only where an error's handler clears one.
LEMMA GenerationChanges ==
    ASSUME WInv, Relies, [WorkerNext]_allVars, NEW o \in DOMAIN pool,
           pool'[o].generation # pool[o].generation
    PROVE  React /\ worker.clear /\ worker.target = o
<1>1. ASSUME NEW newTd, NEW newCause, UpdateTopology(newTd, newCause), Follows(description, newTd, newCause)
      PROVE  pool'[o].generation = pool[o].generation
  <2>0. Known(newTd) \subseteq Addresses
    BY <1>1 DEF Follows
  <2> DEFINE joined == {<<a, Joins(a) + 1>> : a \in Known(newTd) \ Known(description)}
  <2>1. o \notin joined
    BY <2>0 DEF Relies, JoinsAreNew
  <2>2. pool'[o] = [pool[o] EXCEPT !.ready = TRUE] \/ pool'[o] = pool[o]
    BY <2>1, <1>1 DEF UpdateTopology
  <2>3. pool[o] \in [generation : Nat, ready : BOOLEAN]
    BY DEF WInv, PoolInv
  <2> QED
    BY <2>2, <2>3
<1>2. React
  BY <1>1, PoolSteps
<1> QED
  BY <1>2 DEF React

\* An error of a connection clears its pool only while the pool is ready.
LEMMA ClearsReady ==
    ASSUME WInv, Relies, [WorkerNext]_allVars, NEW o \in DOMAIN pool,
           pool'[o].generation # pool[o].generation,
           Head(queue).kind = "ApplicationError", Head(queue).object = o
    PROVE  pool[o].ready
<1>1. React /\ worker.clear /\ worker.target = o
  BY GenerationChanges
<1>2. worker.at = "react" /\ queue # <<>> /\ worker.target # None
  BY <1>1 DEF React, WInv, QueueInv, Handling, WorkerInv
<1>3. pool[o].generation <= Head(queue).generation
  BY <1>1, <1>2 DEF WInv, ErrorIsNew
<1>4. InGeneration(o, Head(queue).generation) /\ Head(queue).generation \in Nat
  BY <1>2, Received, MessageFields DEF WInv, OpInv
<1>5. pool[o].generation \in Nat
  BY DEF WInv, PoolInv
<1> QED
  BY SMT, <1>3, <1>4, <1>5 DEF InGeneration
=============================================================================
