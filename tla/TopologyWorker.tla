--------------------------- MODULE TopologyWorker ---------------------------
(***************************************************************************)
(* The topology worker of a client (sdam/topology.rs) together with the    *)
(* tasks it serves: the monitors of the servers (sdam/monitor.rs), the     *)
(* operations that select a server and report errors (client.rs,           *)
(* client/executor.rs), and the generation and readiness of the servers'   *)
(* pools.  The worker's description is that of module TopologyDescription, *)
(* whose operators it applies; the topology is not load balanced.          *)
(*                                                                         *)
(* A server that leaves the topology and comes back is a new `Server` with *)
(* a new pool and a new monitor, while the old ones may still be at work:  *)
(* a server object is <<address, n>> for the n-th time the address joined. *)
(*                                                                         *)
(* Messages to the worker are acknowledged when their handler ends, or     *)
(* when they are dropped: a message stays at the head of `queue` while it  *)
(* is handled, and its sender goes on once it is gone.                     *)
(***************************************************************************)
EXTENDS TopologyDescription, Sequences

CONSTANTS
    Ops,            \* operations that use the client
    Filler,         \* the caller of warm_connection_pool
    Warm,           \* whether warm_connection_pool is called
    MonitorErrors,  \* [error, version]: failures of checks
    AppErrors,      \* [error, version, phase, oldWire]: failures of operations
    Heartbeats,     \* whether heartbeat_freq passes
    Closes,         \* whether the client is shut down or dropped
    MaxGeneration,  \* bound: no check or operation fails past this generation
    MaxJoins        \* bound: an address that joined more often is not listed again

VARIABLES
    cause,          \* the error in each server description, None for Ok
    server,         \* the worker's map from addresses to server objects
    published,      \* what watchers see: object and type of each server
    pool,           \* generation and readiness of each server's pool
    monitor,        \* the monitor task of each server
    queue,          \* the update channel
    worker,         \* the worker: where it is, and what the handler still does
    op,             \* the operations, and the warm-up task of each address
    closing         \* how the topology was told to close

workerVars == <<cause, server, published, pool, monitor, queue, worker, op, closing>>
allVars == <<description, poll, workerVars>>

-----------------------------------------------------------------------------
(* Errors.                                                                 *)

StateChangeErrors == {"NotPrimary", "ShuttingDown"}
NetworkErrors == {"Reset", "Timeout"}
CommandErrors == StateChangeErrors \cup {"Command"}
ErrorNames == CommandErrors \cup NetworkErrors \cup {"Auth", "Overloaded", "Incompatible"}
Phases == {"PreHello", "PostHello", "AfterCompletion"}

\* Errors of checks and of operations; only a command error has a version, and
\* only a completed handshake reports a wire version.
ASSUME ErrorsAssumption ==
    /\ MonitorErrors \subseteq [error : ErrorNames, version : Versions]
    /\ AppErrors \subseteq [error : ErrorNames, version : Versions,
                            phase : Phases, oldWire : BOOLEAN]
    /\ \A e \in MonitorErrors \cup AppErrors : e.error \notin CommandErrors => e.version = None
    /\ \A e \in AppErrors : e.phase # "AfterCompletion" => e.oldWire

ASSUME WorkerAssumption ==
    /\ \A o \in Options : ~o.loadBalanced
    /\ \A r \in Replies : r.clusterTime = None     \* perform_hello takes it out
    /\ \A hosts \in Lookups : hosts \subseteq Addresses
    /\ None \in Versions
    /\ None \notin ErrorNames
    /\ None \notin Addresses \X Nat

\* The tasks that use connections: operations, and the warm-up of each address.
Tasks == Ops \cup Addresses

NoOp == [at |-> "idle", object |-> None, generation |-> 0, requested |-> FALSE, seen |-> FALSE]

-----------------------------------------------------------------------------
(* The update channel.                                                     *)

Open == worker.at \notin {"closing", "joining", "closed"}

\* send_message: after the receiver is gone the send fails at once.
Send(message) == queue' = IF Open THEN Append(queue, message) ELSE queue

Awaiting(sender) == \E i \in 1..Len(queue) : queue[i].from = sender

Message(sender, kind, address, what) ==
    [from |-> sender, kind |-> kind, address |-> address, what |-> what]

\* An error met on a connection of `object`, of the given generation.  The code
\* sends the address only: the object is kept to state what the error is about.
ErrorMessage(sender, object, generation, e) ==
    [from |-> sender, kind |-> "ApplicationError", address |-> object[1], what |-> e,
     object |-> object, generation |-> generation]

-----------------------------------------------------------------------------
(* The worker.                                                             *)

Current == {<<a, server[a]>> : a \in DOMAIN server}

Joins(address) == Cardinality({o \in DOMAIN pool : o[1] = address})

NewPool == [generation |-> 0, ready |-> FALSE]

NewMonitor ==
    [at |-> "checking", retry |-> FALSE, after |-> "sleep",
     cancel |-> FALSE, asked |-> FALSE, alive |-> TRUE]

Idle == [at |-> "loop", target |-> None, clear |-> FALSE, cancel |-> FALSE, ask |-> FALSE]

\* Mutant: errors are equal when the server's type is.
SameServer_TypeOnly(td, newTd, newCause, a) == td.servers[a].type = newTd.servers[a].type

\* ServerDescription's equality: errors are equal when their codes or their
\* texts are, replies when they are but for their cluster time.
SameServer(td, newTd, newCause, a) ==
    /\ cause[a] = newCause[a]
    /\ cause[a] = None =>
         [td.servers[a] EXCEPT !.clusterTime = None] = [newTd.servers[a] EXCEPT !.clusterTime = None]

ChangedServers(newTd, newCause) ==
    {a \in Known(description) \cap Known(newTd) : ~SameServer(description, newTd, newCause, a)}

\* TopologyDescription::diff is not None.
Changed(newTd, newCause) ==
    \/ Known(description) # Known(newTd)
    \/ ChangedServers(newTd, newCause) # {}
    \/ description.type # newTd.type
    \/ description.compatible # newTd.compatible

\* Mutant: a server that failed is not marked as ready again.
MarkedReady_Known(newTd, newCause) ==
    {a \in ChangedServers(newTd, newCause) :
        /\ newTd.servers[a].type \in DataBearing
        /\ cause[a] = None}

MarkedReady(newTd, newCause) ==
    {a \in ChangedServers(newTd, newCause) :
        \/ newTd.servers[a].type \in DataBearing
        \/ newTd.servers[a].type # "Unknown" /\ newTd.type = "Single"}

\* update_topology, up to the publication: pools of changed servers become
\* ready, servers that left are dropped, servers that joined get a pool and a
\* monitor.
UpdateTopology(newTd, newCause) ==
    LET joined == {<<a, Joins(a) + 1>> : a \in Known(newTd) \ Known(description)}
        ready == {<<a, server[a]>> : a \in MarkedReady(newTd, newCause)}
        left == {<<a, server[a]>> : a \in Known(description) \ Known(newTd)}
    IN /\ description' = newTd
       /\ cause' = [a \in Addresses |-> IF a \in Known(newTd) THEN newCause[a] ELSE None]
       /\ server' = [a \in Known(newTd) |->
                       IF a \in Known(description) THEN server[a] ELSE Joins(a) + 1]
       /\ pool' = [o \in DOMAIN pool \cup joined |->
                     IF o \in joined THEN NewPool
                     ELSE IF o \in ready THEN [pool[o] EXCEPT !.ready = TRUE]
                     ELSE pool[o]]
       /\ monitor' = [o \in DOMAIN monitor \cup joined |->
                        IF o \in joined THEN NewMonitor
                        ELSE IF o \in left THEN [monitor[o] EXCEPT !.alive = FALSE]
                        ELSE monitor[o]]

Receives(kind) ==
    /\ worker.at = "loop"
    /\ queue # <<>>
    /\ Head(queue).kind = kind

\* The handler returns and the message is acknowledged.
Acknowledge ==
    /\ queue' = Tail(queue)
    /\ worker' = Idle

\* The error that new_from_error stores, unless `update` rejects it.
ErrorCause(address, error) ==
    IF \/ address \notin Known(description)
       \/ Outdated(UnknownServer(error.version), description.servers[address])
    THEN cause ELSE [cause EXCEPT ![address] = error.error]

ReceiveUpdate ==
    /\ Receives("ServerUpdate")
    /\ LET m == Head(queue)
           rejected == \/ m.address \notin Known(description)
                       \/ Outdated(m.what, description.servers[m.address])
       IN /\ \E newTd \in {Update(description, m.address, m.what)} : UpdateTopology(newTd,
                            IF rejected THEN cause ELSE [cause EXCEPT ![m.address] = None])
          /\ worker' = [Idle EXCEPT !.at = "publish"]
    /\ UNCHANGED <<poll, published, queue, op, closing>>

\* Mark the server as unknown; if that changed the topology do what `then` says.
MarkUnknown(address, error, then) ==
    \E newTd \in {Update(description, address, UnknownServer(error.version))} :
    \E newCause \in {ErrorCause(address, error)} :
    \E updated \in {Changed(newTd, newCause)} :
       /\ UpdateTopology(newTd, newCause)
       /\ worker' = [at |-> "publish", target |-> <<address, server[address]>>,
                     clear |-> updated /\ then.clear, cancel |-> updated /\ then.cancel,
                     ask |-> then.ask]

ReceiveMonitorError ==
    /\ Receives("MonitorError")
    /\ LET m == Head(queue)
       IN IF m.address \in DOMAIN server
          THEN /\ MarkUnknown(m.address, m.what, [clear |-> TRUE, cancel |-> FALSE, ask |-> FALSE])
               /\ UNCHANGED queue
          ELSE /\ Acknowledge
               /\ UNCHANGED <<description, cause, server, pool, monitor>>
    /\ UNCHANGED <<poll, published, op, closing>>

\* Mutant: the generation of the connection is not looked at.
Stale_VersionOnly(m) ==
    LET existing == description.servers[m.address].topologyVersion
        version == m.what.version
    IN /\ None \notin {existing, version}
       /\ existing.process = version.process
       /\ version.counter <= existing.counter

\* The error says nothing new: an older topology version, or a connection of
\* a generation that the pool has already been cleared of.
Stale(m) ==
    LET existing == description.servers[m.address].topologyVersion
        version == m.what.version
        generation == pool[<<m.address, server[m.address]>>].generation
    IN \/ /\ None \notin {existing, version}
          /\ existing.process = version.process
          /\ version.counter <= existing.counter
       \/ m.what.phase = "PreHello" /\ m.generation < generation
       \/ m.what.phase # "PreHello" /\ m.generation # generation

\* What handle_application_error does to a server that it marks as unknown.
Reaction(e) ==
    IF e.error \in StateChangeErrors
    THEN [clear |-> e.error = "ShuttingDown" \/ e.oldWire, cancel |-> FALSE, ask |-> TRUE]
    ELSE [clear |-> TRUE, cancel |-> e.error # "Auth", ask |-> FALSE]

Ignored(m) ==
    \/ m.what.error = "Incompatible"
    \/ m.address \notin Known(description)
    \/ Stale(m)
    \/ m.what.error = "Overloaded"
    \/ m.what.error \in {"Timeout", "Command", "Auth"} /\ m.what.phase = "AfterCompletion"

ReceiveApplicationError ==
    /\ Receives("ApplicationError")
    /\ LET m == Head(queue)
       IN IF Ignored(m)
          THEN /\ Acknowledge
               /\ UNCHANGED <<description, cause, server, pool, monitor>>
          ELSE /\ MarkUnknown(m.address, m.what, Reaction(m.what))
               /\ UNCHANGED queue
    /\ UNCHANGED <<poll, published, op, closing>>

\* Mutant: the cluster time is taken as it comes.
ReceiveClusterTime_Sets ==
    /\ Receives("AdvanceClusterTime")
    /\ description' = [description EXCEPT !.clusterTime = Head(queue).what]
    /\ worker' = [Idle EXCEPT !.at = "publish"]
    /\ UNCHANGED <<poll, cause, server, published, pool, monitor, queue, op, closing>>

ReceiveClusterTime ==
    /\ Receives("AdvanceClusterTime")
    /\ description' = AdvanceClusterTime(description, Head(queue).what)
    /\ worker' = [Idle EXCEPT !.at = "publish"]
    /\ UNCHANGED <<poll, cause, server, published, pool, monitor, queue, op, closing>>

\* The hosts an SRV lookup returned.
ReceiveHosts ==
    /\ Receives("SyncHosts")
    /\ \E newTd \in SyncHosts(description, poll.hosts) : UpdateTopology(newTd, cause)
    /\ poll' = Asleep
    /\ worker' = [Idle EXCEPT !.at = "publish"]
    /\ UNCHANGED <<published, queue, op, closing>>

\* publish_state wakes every watcher, even when nothing changed.
Publish ==
    /\ worker.at \in {"publish", "initialize"}
    /\ published' = [a \in Known(description) |->
                       [object |-> <<a, server[a]>>, type |-> description.servers[a].type]]
    /\ op' = [t \in Tasks |-> [op[t] EXCEPT !.seen = FALSE]]
    /\ CASE worker.at = "initialize" -> worker' = Idle /\ UNCHANGED queue
         [] worker.target # None -> worker' = [worker EXCEPT !.at = "react"] /\ UNCHANGED queue
         [] OTHER -> Acknowledge
    /\ UNCHANGED <<description, poll, cause, server, pool, monitor, closing>>

\* The rest of an error's handler: clear the pool, cancel the check in
\* progress or ask for a new one.
React ==
    /\ worker.at = "react"
    /\ LET o == worker.target
       IN /\ pool' = IF worker.clear
                     THEN [pool EXCEPT ![o] = [generation |-> @.generation + 1, ready |-> FALSE]]
                     ELSE pool
          /\ monitor' = [monitor EXCEPT ![o].cancel = @ \/ worker.cancel,
                                        ![o].asked = @ \/ worker.ask]
    /\ Acknowledge
    /\ UNCHANGED <<description, poll, cause, server, published, op, closing>>

\* A broadcast to the pools: each that is ready establishes the connections it
\* lacks (the task of its address), and the handler waits for all of them.
ReceiveFillPool ==
    /\ Receives("Broadcast")
    /\ op' = [t \in Tasks |->
                IF t \in Known(description) /\ pool[<<t, server[t]>>].ready
                THEN [NoOp EXCEPT !.at = "executing", !.object = <<t, server[t]>>,
                                  !.generation = pool[<<t, server[t]>>].generation]
                ELSE op[t]]
    /\ worker' = [Idle EXCEPT !.at = "filling"]
    /\ UNCHANGED <<description, poll, cause, server, published, pool, monitor, queue, closing>>

FillPoolDone ==
    /\ worker.at = "filling"
    /\ \A a \in Addresses : op[a].at = "idle"
    /\ Acknowledge
    /\ UNCHANGED <<description, poll, cause, server, published, pool, monitor, op, closing>>

\* Mutant: the receiver outlives the loop.
LeaveLoop_KeepsReceiver ==
    /\ worker.at = "loop"
    /\ closing # "no"
    /\ worker' = [Idle EXCEPT !.at = "closing"]
    /\ UNCHANGED <<description, poll, cause, server, published, pool, monitor, queue, op, closing>>

\* The loop ends: the publisher and the receiver are dropped, and with it the
\* messages that wait.
LeaveLoop ==
    /\ worker.at = "loop"
    /\ closing # "no"
    /\ queue' = <<>>
    /\ worker' = [Idle EXCEPT !.at = "closing"]
    /\ UNCHANGED <<description, poll, cause, server, published, pool, monitor, op, closing>>

\* close_monitor for every server: its handle is dropped and its check cancelled.
CloseMonitors ==
    /\ worker.at = "closing"
    /\ monitor' = [o \in DOMAIN monitor |->
                     IF o \in Current THEN [monitor[o] EXCEPT !.alive = FALSE, !.cancel = TRUE]
                     ELSE monitor[o]]
    /\ worker' = [worker EXCEPT !.at = "joining"]
    /\ UNCHANGED <<description, poll, cause, server, published, pool, queue, op, closing>>

Join ==
    /\ worker.at = "joining"
    /\ \A o \in Current : monitor[o].at = "done"
    /\ worker' = [worker EXCEPT !.at = "closed"]
    /\ UNCHANGED <<description, poll, cause, server, published, pool, monitor, queue, op, closing>>

-----------------------------------------------------------------------------
(* Monitors.                                                               *)

othersThanMonitor == <<description, poll, cause, server, published, pool, worker, op, closing>>

\* A check succeeds and its reply is sent to the worker.
CheckSucceeds(o, reply) ==
    /\ monitor[o].at = "checking"
    /\ reply.hosts # Garbled => \A a \in reply.hosts : Joins(a) <= MaxJoins
    /\ Send(Message(o, "ServerUpdate", o[1], reply))
    /\ monitor' = [monitor EXCEPT ![o].at = "reporting", ![o].retry = FALSE,
                     ![o].after = IF reply.topologyVersion = None THEN "sleep" ELSE "loop"]
    /\ UNCHANGED othersThanMonitor

\* A check fails.  The first network error of a server that was available is
\* reported and the check repeated at once.
CheckFails(o, e) ==
    /\ monitor[o].at = "checking"
    /\ pool[o].generation < MaxGeneration
    /\ Send(Message(o, "MonitorError", o[1], e))
    /\ LET again == /\ ~monitor[o].retry
                    /\ e.error \in NetworkErrors
                    /\ o[1] \in DOMAIN published
                    /\ published[o[1]].type # "Unknown"
       IN monitor' = [monitor EXCEPT ![o].at = "reporting", ![o].retry = again,
                        ![o].after = IF again THEN "again" ELSE "sleep"]
    /\ UNCHANGED othersThanMonitor

\* wait_for_cancellation wins: the worker cancelled the check, or is gone.
CheckCancelled(o) ==
    /\ monitor[o].at = "checking"
    /\ monitor[o].cancel \/ ~monitor[o].alive
    /\ monitor' = [monitor EXCEPT ![o].at = "sleeping", ![o].retry = FALSE,
                                  ![o].cancel = FALSE, ![o].asked = FALSE]
    /\ UNCHANGED <<othersThanMonitor, queue>>

\* The worker has acknowledged, or dropped, the report.
ReportAcknowledged(o) ==
    /\ monitor[o].at = "reporting"
    /\ ~Awaiting(o)
    /\ monitor' = [monitor EXCEPT ![o].at =
                     CASE monitor[o].after = "again" -> "checking"
                       [] monitor[o].after = "sleep" -> "sleeping"
                       [] OTHER -> IF monitor[o].alive THEN "checking" ELSE "done"]
    /\ UNCHANGED <<othersThanMonitor, queue>>

CheckRequested == \E p \in Ops : op[p].requested

\* Mutant: a monitor that waits does not notice that its server is removed.
Wake_Unaware(o) ==
    /\ monitor[o].at = "sleeping"
    /\ Heartbeats \/ CheckRequested \/ closing = "token" \/ monitor[o].asked
    /\ monitor' = [monitor EXCEPT ![o].cancel = FALSE, ![o].asked = FALSE,
                                  ![o].at = IF monitor[o].alive THEN "checking" ELSE "done"]
    /\ UNCHANGED <<othersThanMonitor, queue>>

\* wait_for_check_request ends: by a timeout, by a request to this monitor, by
\* operations that wait, by the shutdown token or because the server was removed.
Wake(o) ==
    /\ monitor[o].at = "sleeping"
    /\ LET otherwise == Heartbeats \/ CheckRequested \/ closing = "token" \/ ~monitor[o].alive
       IN \/ monitor[o].asked /\ monitor' = [monitor EXCEPT ![o].asked = FALSE, ![o].cancel = FALSE,
                ![o].at = IF monitor[o].alive THEN "checking" ELSE "done"]
          \/ otherwise /\ monitor' = [monitor EXCEPT ![o].cancel = FALSE,
                ![o].at = IF monitor[o].alive THEN "checking" ELSE "done"]
    /\ UNCHANGED <<othersThanMonitor, queue>>

-----------------------------------------------------------------------------
(* Operations.                                                             *)

othersThanOp == <<description, poll, cause, server, published, pool, monitor, worker, closing>>

\* The servers in the published state that can still be reached through it: a
\* weak reference is dead once neither the worker nor an operation holds it.
Selectable ==
    {o \in {published[a].object : a \in {b \in DOMAIN published : published[b].type \in DataBearing}} :
        \/ worker.at \notin {"joining", "closed"} /\ o \in Current
        \/ \E t \in Tasks : op[t].object = o}

StartOperation(p) ==
    /\ op[p].at = "idle"
    /\ closing = "no"
    /\ op' = [op EXCEPT ![p].at = "selecting"]
    /\ UNCHANGED <<othersThanOp, queue>>

\* Mutant: the operation waits without a request.
SelectServer_Forgets(p) ==
    /\ op[p].at = "selecting"
    /\ \/ \E o \in Selectable : op' = [op EXCEPT ![p].at = "selected", ![p].object = o, ![p].seen = TRUE]
       \/ Selectable = {} /\ op' = [op EXCEPT ![p].at = "waiting", ![p].seen = TRUE]
    /\ UNCHANGED <<othersThanOp, queue>>

\* One round of select_server: take a suitable server of the latest state, or
\* request a check of the topology and wait for the next state.
SelectServer(p) ==
    /\ op[p].at = "selecting"
    /\ \/ \E o \in Selectable : op' = [op EXCEPT ![p].at = "selected", ![p].object = o, ![p].seen = TRUE]
       \/ /\ Selectable = {}
          /\ op' = [op EXCEPT ![p].at = "waiting", ![p].requested = TRUE, ![p].seen = TRUE]
    /\ UNCHANGED <<othersThanOp, queue>>

\* wait_for_update sees a state that has not been observed.
SeeUpdate(p) ==
    /\ op[p].at = "waiting"
    /\ ~op[p].seen
    /\ op' = [op EXCEPT ![p].at = "selecting", ![p].requested = FALSE]
    /\ UNCHANGED <<othersThanOp, queue>>

\* The selection times out, or the publisher is gone.
SelectionFails(p) ==
    /\ op[p].at = "waiting"
    /\ op' = [op EXCEPT ![p] = NoOp]
    /\ UNCHANGED <<othersThanOp, queue>>

\* Check a connection out of the server's pool, or start one: a paused pool
\* has none to give.
CheckOut(p) ==
    /\ op[p].at = "selected"
    /\ op' = [op EXCEPT ![p] =
                IF pool[op[p].object].ready
                THEN [@ EXCEPT !.at = "executing", !.generation = pool[op[p].object].generation]
                ELSE NoOp]
    /\ UNCHANGED <<othersThanOp, queue>>

\* The reply to a command carries a cluster time, which is told to the worker
\* before the reply is looked at.
Gossip(p) ==
    /\ op[p].at = "executing"
    /\ \E time \in ClusterTimes : Send(Message(p, "AdvanceClusterTime", None, time))
    /\ op' = [op EXCEPT ![p].at = "gossiping"]
    /\ UNCHANGED othersThanOp

\* The operation ends, or the connection of a warm-up is established.
TaskSucceeds(t) ==
    /\ op[t].at \in {"executing", "replied"}
    /\ op' = [op EXCEPT ![t] = NoOp]
    /\ UNCHANGED <<othersThanOp, queue>>

\* The command fails, or the handshake of the connection does.
TaskFails(t, e) ==
    /\ op[t].at \in {"executing", "replied"}
    /\ t \in Addresses => e.phase # "AfterCompletion"
    /\ op[t].at = "replied" => e.phase = "AfterCompletion"
    /\ op[t].generation < MaxGeneration
    /\ Send(ErrorMessage(t, op[t].object, op[t].generation, e))
    /\ op' = [op EXCEPT ![t].at = "reporting"]
    /\ UNCHANGED othersThanOp

\* The worker has acknowledged, or dropped, what the task told it.
TaskAcknowledged(t) ==
    /\ op[t].at \in {"gossiping", "reporting"}
    /\ ~Awaiting(t)
    /\ op' = [op EXCEPT ![t] = IF @.at = "gossiping" THEN [@ EXCEPT !.at = "replied"] ELSE NoOp]
    /\ UNCHANGED <<othersThanOp, queue>>

-----------------------------------------------------------------------------
(* Warming the pools, and closing.                                         *)

\* warm_connection_pool: returns when its message is acknowledged.
WarmConnectionPool ==
    /\ ~Awaiting(Filler)
    /\ closing = "no"
    /\ Send(Message(Filler, "Broadcast", None, None))
    /\ UNCHANGED <<othersThanOp, op>>

\* Topology::shutdown cancels the token, also while operations run.
Shutdown ==
    /\ closing = "no"
    /\ closing' = "token"
    /\ UNCHANGED <<description, poll, cause, server, published, pool, monitor, queue, worker, op>>

\* The last client is dropped, and with it the worker's last handle.
DropClient ==
    /\ closing = "no"
    /\ \A p \in Ops : op[p].at = "idle"
    /\ ~Awaiting(Filler)
    /\ closing' = "dropped"
    /\ UNCHANGED <<description, poll, cause, server, published, pool, monitor, queue, worker, op>>

-----------------------------------------------------------------------------
(* The specification.                                                      *)

\* TopologyWorker::initialize, up to its first publication.
WorkerInit ==
    /\ Init
    /\ cause = [a \in Addresses |-> None]
    /\ server = [a \in Known(description) |-> 1]
    /\ published = <<>>
    /\ pool = [o \in Known(description) \X {1} |-> NewPool]
    /\ monitor = [o \in Known(description) \X {1} |-> NewMonitor]
    /\ queue = <<>>
    /\ worker = [Idle EXCEPT !.at = "initialize"]
    /\ op = [t \in Tasks |-> NoOp]
    /\ closing = "no"

\* The polling task of module TopologyDescription: the hosts it sends are a
\* message to the worker.  It ends with the worker.
PollSrv ==
    /\ Open
    /\ worker.at # "initialize"
    /\ \A a \in Addresses : Joins(a) <= MaxJoins
    /\ StartLookup \/ \E hosts \in Lookups : FinishLookup(hosts)
    /\ queue' = IF poll'.at = "sent" THEN Append(queue, Message(None, "SyncHosts", None, poll'.hosts))
                                     ELSE queue
    /\ UNCHANGED <<cause, server, published, pool, monitor, worker, op, closing>>

WorkerStep ==
    \/ ReceiveUpdate \/ ReceiveMonitorError \/ ReceiveApplicationError
    \/ ReceiveClusterTime \/ ReceiveHosts \/ Publish \/ React
    \/ ReceiveFillPool \/ FillPoolDone
    \/ CloseMonitors \/ Join

MonitorStep(o) ==
    \/ \E r \in Replies : CheckSucceeds(o, r)
    \/ \E e \in MonitorErrors : CheckFails(o, e)
    \/ CheckCancelled(o) \/ ReportAcknowledged(o) \/ Wake(o)

SelectionStep(p) ==
    \/ StartOperation(p) \/ SelectServer(p) \/ SeeUpdate(p) \/ SelectionFails(p) \/ CheckOut(p)
    \/ Gossip(p)

TaskStep(t) ==
    TaskSucceeds(t) \/ TaskAcknowledged(t) \/ \E e \in AppErrors : TaskFails(t, e)

WorkerNext ==
    \/ WorkerStep \/ LeaveLoop \/ PollSrv
    \/ \E o \in DOMAIN monitor : MonitorStep(o)
    \/ \E p \in Ops : SelectionStep(p)
    \/ \E t \in Tasks : TaskStep(t)
    \/ Warm /\ WarmConnectionPool
    \/ Closes /\ (Shutdown \/ DropClient)

WorkerSpec == WorkerInit /\ [][WorkerNext]_allVars

\* The objects that exist within the bounds.
Named == Addresses \X (1..(MaxJoins + 1))

\* The spawned tasks of the worker and of the monitors are polled.
MonitorsGoOn ==
    /\ WF_allVars(WorkerStep)
    /\ \A o \in Named :
         WF_allVars(o \in DOMAIN monitor /\ (CheckCancelled(o) \/ ReportAcknowledged(o) \/ Wake(o)))

\* Every task is; `select!` picks a branch at random, so that the end of the
\* loop is taken when it is possible again and again.
TasksGoOn ==
    /\ MonitorsGoOn
    /\ SF_allVars(LeaveLoop)
    /\ \A p \in Ops :
         WF_allVars(SelectServer(p) \/ SeeUpdate(p) \/ CheckOut(p) \/ (~Open /\ SelectionFails(p)))
    /\ \A t \in Tasks : WF_allVars(TaskSucceeds(t) \/ TaskAcknowledged(t))

\* A server that is checked again and again is found usable at some time.
ServersAnswer ==
    \A o \in Named :
        SF_allVars(/\ o \in DOMAIN monitor
                   /\ \E r \in Replies : r.type \in DataBearing /\ CheckSucceeds(o, r))

MonitoredSpec == WorkerSpec /\ MonitorsGoOn
FairWorkerSpec == WorkerSpec /\ TasksGoOn /\ ServersAnswer

-----------------------------------------------------------------------------
(* Properties.                                                             *)

\* Operations select from the published state: a server that it shows as usable
\* has a pool that is ready, at every moment of every handler (pools are made
\* ready before the publication and cleared after it).
PublishedIsReady ==
    \A a \in DOMAIN published :
        published[a].type \in DataBearing /\ published[a].object \in Current =>
            pool[published[a].object].ready

\* A server that failed otherwise than by giving up its role has a paused pool,
\* although a pool is cleared only if the error changed the topology: an equal
\* error clears nothing.
FailedIsPaused ==
    worker.at = "loop" =>
        \A a \in Known(description) :
            cause[a] \notin {None, "NotPrimary"} => ~pool[<<a, server[a]>>].ready

\* However many operations meet one outage, their errors clear a pool once: an
\* error of one of its connections never clears a pool that is already paused.
OutageClearsOnce ==
    [][\A o \in DOMAIN pool :
         /\ pool'[o].generation # pool[o].generation
         /\ Head(queue).kind = "ApplicationError"
         /\ Head(queue).object = o
         => pool[o].ready]_allVars

\* The worker only ever does to its description what module TopologyDescription
\* says, whatever the interleaving of its messages: the properties of that
\* module hold of the worker's description.
ImplementsDescription == Spec

\* An operation that waits for a server gets one, without the help of a
\* heartbeat: its request wakes the monitors, however it races with their
\* checks, and it misses no state that is published after the one it has seen.
WaiterServed ==
    \A p \in Ops : op[p].at \in {"selecting", "waiting"} ~> op[p].at \in {"selected", "idle"}

\* A topology that is told to close does, and so does every monitor, although
\* the worker waits for monitors that wait for the worker.
ShutdownCompletes ==
    closing # "no" ~> (worker.at = "closed" /\ \A o \in DOMAIN monitor : monitor[o].at = "done")

\* The monitor of a server that left the topology ends, even while operations
\* hold on to the server ("they will cease to be monitored").
RemovedNotMonitored ==
    \A o \in Named :
        (o \in DOMAIN monitor /\ o \notin Current) ~> (o \in DOMAIN monitor /\ monitor[o].at = "done")

\* warm_connection_pool returns ("`await` will return `()`").
WarmReturns == Awaiting(Filler) ~> ~Awaiting(Filler)

=============================================================================
