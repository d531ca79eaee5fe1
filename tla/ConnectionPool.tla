--------------------------- MODULE ConnectionPool ---------------------------
(***************************************************************************)
(* The connection pool of one server (driver/src/cmap), not load balanced. *)
(*                                                                         *)
(* The pool is a worker task that owns the pool state and talks to the     *)
(* rest of the driver through two unbounded channels: the management       *)
(* channel (CheckIn, Clear, MarkAsReady, HandleConnectionSucceeded,        *)
(* HandleConnectionFailed, Broadcast) and the check-out request channel.   *)
(* Around it run the operations that check connections out, one task per   *)
(* connection being established, the tasks that warm the pool, and the     *)
(* topology worker, which clears the pool and marks it ready.              *)
(*                                                                         *)
(* The worker's handlers contain no await, so each of them is one step;    *)
(* the loop that serves waiters after a handler is one step per iteration, *)
(* because requesters may give up between two of its tests.                *)
(***************************************************************************)
EXTENDS Integers, Sequences, FiniteSets

CONSTANTS
    Conns,          \* names of connections; a name is free again once its connection is closed
    OpRequests,     \* check-out requests of operations
    WarmRequests,   \* warm-pool tasks, each with the one request it has outstanding
    NoRequest,      \* the absence of a request
    MaxPoolSize,    \* max_pool_size
    MinPoolSize,    \* min_pool_size, 0 when unset
    MaxConnecting,  \* max_connecting
    IdleTimeout,    \* whether max_idle_time is set
    MaxGeneration,  \* bound: how many times the pool may be cleared
    MaxRequests     \* bound: how many requests may be outstanding at a time

Requests == OpRequests \cup WarmRequests

ASSUME ConstantsAssumption ==
    /\ IsFiniteSet(Conns)
    /\ OpRequests \cap WarmRequests = {}
    /\ NoRequest \notin Requests
    /\ MaxPoolSize \in Nat \ {0}
    /\ MinPoolSize \in Nat
    /\ MaxConnecting \in Nat \ {0}
    /\ IdleTimeout \in BOOLEAN
    /\ MaxGeneration \in Nat
    /\ MaxRequests \in Nat
    /\ MaxPoolSize <= Cardinality(Conns)
    /\ MinPoolSize <= Cardinality(Conns)

VARIABLES
    poolState,      \* PoolState
    generation,     \* PoolGeneration::Normal
    total,          \* total_connection_count
    pending,        \* pending_connection_count
    available,      \* available_connections
    waitQueue,      \* wait_queue
    requestQueue,   \* the check-out request channel
    mgmt,           \* the management channel
    pc,             \* where the worker's loop is
    cur,            \* the request check_out is working on
    handles,        \* whether some WorkerHandle is alive
    conn,           \* the connections
    req             \* the requests

queueVars == <<waitQueue, requestQueue>>
workerVars == <<poolState, generation, total, pending, available>>
loopVars == <<pc, cur>>
vars == <<poolState, generation, total, pending, available, waitQueue,
          requestQueue, mgmt, pc, cur, handles, conn, req>>

-----------------------------------------------------------------------------
(* Types. *)

\* Where a connection is:
\*   "none"      closed (or never created), its closed event emitted
\*   "pending"   being established by a spawned task
\*   "failing"   establishment failed; the task reports the error to the topology
\*   "failed"    a HandleConnectionFailed message for it is in the channel
\*   "forPool"   a HandleConnectionSucceeded(ForPool) message carries it
\*   "out"       checked out
\*   "checkIn"   a CheckIn message carries it
\*   "available" in available_connections
\*   "dropped"   dropped without any closed event
Places == {"none", "pending", "failing", "failed", "forPool", "out",
           "checkIn", "available", "dropped"}

\* command_executing and error of the connection.
Healths == {"clean", "executing", "errored"}

\* holder is the request that gets the connection, or NoRequest when nobody
\* waits for it; forPool tells ensure_min_connections from check_out.
ConnType == [at : Places, gen : Nat, holder : Requests \cup {NoRequest},
             forPool : BOOLEAN, health : Healths, cancelled : BOOLEAN,
             idle : BOOLEAN]

NoConn == [at |-> "none", gen |-> 0, holder |-> NoRequest, forPool |-> FALSE,
           health |-> "clean", cancelled |-> FALSE, idle |-> FALSE]

\* A request is "sent" while its oneshot receiver waits and "abandoned" when
\* the receiver is dropped while the pool still holds the request.
OpStates == {"free", "sent", "abandoned", "establishing", "using"}

\* A warm-pool task: announced by a Broadcast message, about to request,
\* waiting for the answer, waiting for its connections.
WarmStates == {"free", "announced", "filling", "sent", "joining"}

CheckInMsg(c) == [type |-> "CheckIn", conn |-> c]
UsedMsg(c) == [type |-> "Used", conn |-> c]
ForPoolMsg(c) == [type |-> "ForPool", conn |-> c]
FailedMsg(c) == [type |-> "Failed", conn |-> c]
ClearMsg(interrupt) == [type |-> "Clear", interrupt |-> interrupt]
ReadyMsg == [type |-> "MarkAsReady"]
FillPoolMsg(w) == [type |-> "FillPool", task |-> w]

ConnMsgType == [type : {"CheckIn", "Used", "ForPool", "Failed"}, conn : Conns]

MsgType == ConnMsgType
           \cup [type : {"Clear"}, interrupt : BOOLEAN]
           \cup {ReadyMsg}
           \cup [type : {"FillPool"}, task : WarmRequests]

PoolStates == {"New", "Paused", "Ready"}

\* "perished" and "ensureMin" are the two loops of perform_maintenance, "serve"
\* is the loop after a handler, "checkOut" the loop of check_out; "closing" is
\* the worker after it left its main loop, with its channels still open.
Pcs == {"select", "perished", "ensureMin", "serve", "checkOut", "closing", "exited"}

TypeOK ==
    /\ poolState \in PoolStates
    /\ generation \in Nat
    /\ total \in Nat
    /\ pending \in Nat
    /\ available \in Seq(Conns)
    /\ waitQueue \in Seq(Requests)
    /\ requestQueue \in Seq(Requests)
    /\ mgmt \in Seq(MsgType)
    /\ pc \in Pcs
    /\ cur \in Requests \cup {NoRequest}
    /\ handles \in BOOLEAN
    /\ conn \in [Conns -> ConnType]
    /\ req \in [Requests -> OpStates \cup WarmStates]

-----------------------------------------------------------------------------
Init ==
    /\ poolState = "New"
    /\ generation = 0
    /\ total = 0
    /\ pending = 0
    /\ available = <<>>
    /\ waitQueue = <<>>
    /\ requestQueue = <<>>
    /\ mgmt = <<>>
    /\ pc = "select"
    /\ cur = NoRequest
    /\ handles = TRUE
    /\ conn = [c \in Conns |-> NoConn]
    /\ req = [r \in Requests |-> "free"]

\* The worker still owns the receiving ends of its channels.
Open == pc # "exited"

\* A send on the management channel: it is lost once the worker is gone.
Send(msg) == mgmt' = IF Open THEN Append(mgmt, msg) ELSE mgmt

Pending(msgType) == \E i \in 1..Len(mgmt) : mgmt[i].type = msgType

\* What becomes of a request the pool answers with PoolCleared or lets go of.
Released(r) == IF r \in WarmRequests THEN "joining" ELSE "free"

Elements(q) == {q[i] : i \in 1..Len(q)}

Distinct(q) == \A i, j \in 1..Len(q) : q[i] = q[j] => i = j

-----------------------------------------------------------------------------
(* Operations. *)

BelowMaxRequests == Cardinality({r \in Requests : req[r] # "free"}) < MaxRequests

\* ConnectionPool::check_out sends its request; it borrows the pool, which
\* holds a WorkerHandle.
RequestConnection(r) ==
    /\ handles
    /\ req[r] = "free"
    /\ BelowMaxRequests
    /\ req' = [req EXCEPT ![r] = "sent"]
    /\ requestQueue' = Append(requestQueue, r)
    /\ UNCHANGED <<workerVars, waitQueue, mgmt, loopVars, handles, conn>>

\* The future of check_out is dropped while it waits for the answer.
Abandon(r) ==
    /\ req[r] = "sent"
    /\ req' = [req EXCEPT ![r] = "abandoned"]
    /\ UNCHANGED <<workerVars, queueVars, mgmt, loopVars, handles, conn>>

\* The future of check_out is dropped while it awaits the establishing task,
\* which goes on in the background.
AbandonEstablishing(r) ==
    /\ req[r] = "establishing"
    /\ req' = [req EXCEPT ![r] = "free"]
    /\ conn' = [c \in Conns |-> IF conn[c].holder = r
                                THEN [conn[c] EXCEPT !.holder = NoRequest]
                                ELSE conn[c]]
    /\ UNCHANGED <<workerVars, queueVars, mgmt, loopVars, handles>>

\* The operation starts a command on its connection: a cancellation that has
\* already arrived wins over the command.
BeginCommand(c) ==
    /\ conn[c].at = "out"
    /\ conn[c].holder \in OpRequests
    /\ conn[c].health = "clean"
    /\ conn' = [conn EXCEPT ![c].health = IF conn[c].cancelled THEN "errored" ELSE "executing"]
    /\ UNCHANGED <<workerVars, queueVars, mgmt, loopVars, handles, req>>

\* The reply arrives; the cancellation is polled first.
EndCommand(c) ==
    /\ conn[c].at = "out"
    /\ conn[c].health = "executing"
    /\ ~conn[c].cancelled
    /\ conn' = [conn EXCEPT ![c].health = "clean"]
    /\ UNCHANGED <<workerVars, queueVars, mgmt, loopVars, handles, req>>

\* The command fails on the connection, or is cancelled.
FailCommand(c) ==
    /\ conn[c].at = "out"
    /\ conn[c].health = "executing"
    /\ conn' = [conn EXCEPT ![c].health = "errored"]
    /\ UNCHANGED <<workerVars, queueVars, mgmt, loopVars, handles, req>>

\* Drop of a checked-out PooledConnection: it goes back to the pool, or is
\* closed when the pool is gone.
Drop(c) ==
    /\ conn[c].at = "out"
    /\ Send(CheckInMsg(c))
    /\ conn' = [conn EXCEPT ![c] =
                  IF Open THEN [@ EXCEPT !.at = "checkIn", !.holder = NoRequest,
                                         !.cancelled = FALSE]
                          ELSE NoConn]
    /\ req' = [r \in Requests |-> IF r \in OpRequests /\ conn[c].holder = r
                                  THEN "free" ELSE req[r]]
    /\ UNCHANGED <<workerVars, queueVars, loopVars, handles>>

-----------------------------------------------------------------------------
(* Establishing a connection. *)

\* The task of a connection made by ensure_min_connections hands it to the
\* pool; the task of one made by check_out reports it as used and hands it to
\* whoever awaits the task.
EstablishSucceeds(c) ==
    /\ conn[c].at = "pending"
    /\ IF conn[c].forPool
       THEN /\ Send(ForPoolMsg(c))
            /\ conn' = [conn EXCEPT ![c].at = IF Open THEN "forPool" ELSE "dropped",
                                    ![c].cancelled = FALSE]
            /\ req' = req
       ELSE /\ Send(UsedMsg(c))
            /\ conn' = [conn EXCEPT ![c].at = "out"]
            /\ req' = [r \in Requests |-> IF r \in OpRequests /\ conn[c].holder = r
                                          THEN "using" ELSE req[r]]
    /\ UNCHANGED <<workerVars, queueVars, loopVars, handles>>

\* Establishment fails: the task tells the topology and waits for it, which
\* may clear the pool.
EstablishFails(c) ==
    /\ conn[c].at = "pending"
    /\ conn' = [conn EXCEPT ![c].at = "failing"]
    /\ UNCHANGED <<workerVars, queueVars, mgmt, loopVars, handles, req>>

\* Then it emits the closed event, tells the pool, and returns the error to
\* whoever awaits the task.
ReportFailure(c) ==
    /\ conn[c].at = "failing"
    /\ Send(FailedMsg(c))
    /\ conn' = [conn EXCEPT ![c] = IF Open THEN [NoConn EXCEPT !.at = "failed"] ELSE NoConn]
    /\ req' = [r \in Requests |-> IF r \in OpRequests /\ conn[c].holder = r
                                  THEN "free" ELSE req[r]]
    /\ UNCHANGED <<workerVars, queueVars, loopVars, handles>>

-----------------------------------------------------------------------------
(* The topology worker, which waits for each message to be acknowledged. *)

TopologyIdle == ~Pending("Clear") /\ ~Pending("MarkAsReady")

\* PoolManager::clear; interrupt when the cause is a network timeout.
SendClear(interrupt) ==
    /\ handles
    /\ TopologyIdle
    /\ generation < MaxGeneration
    /\ Send(ClearMsg(interrupt))
    /\ UNCHANGED <<workerVars, queueVars, loopVars, handles, conn, req>>

\* PoolManager::mark_as_ready
SendMarkAsReady ==
    /\ handles
    /\ TopologyIdle
    /\ Send(ReadyMsg)
    /\ UNCHANGED <<workerVars, queueVars, loopVars, handles, conn, req>>

\* The last WorkerHandle is dropped. A check_out in progress and the topology
\* worker waiting for an acknowledgment both hold one.
DropHandles ==
    /\ handles
    /\ TopologyIdle
    /\ \A r \in OpRequests : req[r] \notin {"sent", "establishing"}
    /\ handles' = FALSE
    /\ UNCHANGED <<workerVars, queueVars, mgmt, loopVars, conn, req>>

-----------------------------------------------------------------------------
(* Warming the pool. *)

\* PoolManager::broadcast(FillPool) for Client::warm_connection_pool.
BroadcastFillPool(w) ==
    /\ req[w] = "free"
    /\ BelowMaxRequests
    /\ Open
    /\ Send(FillPoolMsg(w))
    /\ req' = [req EXCEPT ![w] = "announced"]
    /\ UNCHANGED <<workerVars, queueVars, loopVars, handles, conn>>

\* fill_pool requests another connection; its weak requester does not keep
\* the pool open.
RequestWarmPool(w) ==
    /\ req[w] = "filling"
    /\ IF Open
       THEN /\ requestQueue' = Append(requestQueue, w)
            /\ req' = [req EXCEPT ![w] = "sent"]
       ELSE /\ requestQueue' = requestQueue
            /\ req' = [req EXCEPT ![w] = "joining"]
    /\ UNCHANGED <<workerVars, waitQueue, mgmt, loopVars, handles, conn>>

\* fill_pool has no more to request, has seen all its connections established
\* or failed, and acknowledges the broadcast.
AcknowledgeFill(w) ==
    /\ req[w] = "joining"
    /\ \A c \in Conns : conn[c].holder # w
    /\ req' = [req EXCEPT ![w] = "free"]
    /\ UNCHANGED <<workerVars, queueVars, mgmt, loopVars, handles, conn>>

-----------------------------------------------------------------------------
(* The worker: management requests, which have priority. *)

IsStale(c) == conn[c].gen # generation

Receive(msgType) ==
    /\ pc = "select"
    /\ mgmt # <<>>
    /\ Head(mgmt).type = msgType
    /\ mgmt' = Tail(mgmt)

\* check_in
CheckIn ==
    /\ Receive("CheckIn")
    /\ LET c == Head(mgmt).conn IN
         IF conn[c].health = "clean" /\ ~IsStale(c)
         THEN /\ conn' = [conn EXCEPT ![c].at = "available"]
              /\ available' = Append(available, c)
              /\ total' = total
         ELSE /\ conn' = [conn EXCEPT ![c] = NoConn]
              /\ available' = available
              /\ total' = total - 1
    /\ pc' = "serve"
    /\ UNCHANGED <<poolState, generation, pending, queueVars, cur, handles, req>>

\* Mutant: the waiters are not answered.
Clear_KeepsWaiters ==
    /\ Receive("Clear")
    /\ conn' = [c \in Conns |->
                  IF Head(mgmt).interrupt /\ conn[c].at \in {"pending", "out"}
                  THEN [conn[c] EXCEPT !.cancelled = TRUE] ELSE conn[c]]
    /\ generation' = generation + 1
    /\ poolState' = "Paused"
    /\ pc' = "serve"
    /\ UNCHANGED <<total, pending, available, queueVars, cur, handles, req>>

\* clear
Clear ==
    /\ Receive("Clear")
    /\ conn' = [c \in Conns |->
                  IF Head(mgmt).interrupt /\ conn[c].at \in {"pending", "out"}
                  THEN [conn[c] EXCEPT !.cancelled = TRUE] ELSE conn[c]]
    /\ generation' = generation + 1
    /\ poolState' = "Paused"
    /\ IF poolState = "Ready"
       THEN /\ waitQueue' = <<>>
            /\ req' = [r \in Requests |-> IF r \in Elements(waitQueue)
                                          THEN Released(r) ELSE req[r]]
       ELSE UNCHANGED <<waitQueue, req>>
    /\ pc' = "serve"
    /\ UNCHANGED <<total, pending, available, requestQueue, cur, handles>>

\* mark_as_ready
MarkAsReady ==
    /\ Receive("MarkAsReady")
    /\ poolState' = "Ready"
    /\ pc' = "serve"
    /\ UNCHANGED <<generation, total, pending, available, queueVars, cur, handles, conn, req>>

\* handle_connection_succeeded: a connection made for the pool becomes
\* available, whatever its generation.
HandleConnectionSucceeded ==
    /\ \/ /\ Receive("Used")
          /\ UNCHANGED <<available, conn>>
       \/ /\ Receive("ForPool")
          /\ available' = Append(available, Head(mgmt).conn)
          /\ conn' = [conn EXCEPT ![Head(mgmt).conn].at = "available"]
    /\ pending' = pending - 1
    /\ pc' = "serve"
    /\ UNCHANGED <<poolState, generation, total, queueVars, cur, handles, req>>

\* Mutant: the pending count is not decremented.
HandleConnectionFailed_KeepsPending ==
    /\ Receive("Failed")
    /\ conn' = [conn EXCEPT ![Head(mgmt).conn] = NoConn]
    /\ total' = total - 1
    /\ pc' = "serve"
    /\ UNCHANGED <<poolState, generation, pending, available, queueVars, cur, handles, req>>

\* handle_connection_failed
HandleConnectionFailed ==
    /\ Receive("Failed")
    /\ conn' = [conn EXCEPT ![Head(mgmt).conn] = NoConn]
    /\ total' = total - 1
    /\ pending' = pending - 1
    /\ pc' = "serve"
    /\ UNCHANGED <<poolState, generation, available, queueVars, cur, handles, req>>

\* Broadcast(FillPool) spawns fill_pool.
SpawnFillPool ==
    /\ Receive("FillPool")
    /\ req' = [req EXCEPT ![Head(mgmt).task] = "filling"]
    /\ pc' = "serve"
    /\ UNCHANGED <<workerVars, queueVars, cur, handles, conn>>

-----------------------------------------------------------------------------
(* The worker: closing, check-out requests, maintenance, in this priority. *)

\* Mutant: the available connections are not closed.
LeaveLoop_KeepsConnections ==
    /\ pc = "select"
    /\ mgmt = <<>>
    /\ ~handles
    /\ pc' = "closing"
    /\ UNCHANGED <<workerVars, queueVars, mgmt, cur, handles, conn, req>>

\* All handles are gone: leave the loop and close the available connections.
LeaveLoop ==
    /\ pc = "select"
    /\ mgmt = <<>>
    /\ ~handles
    /\ conn' = [c \in Conns |-> IF conn[c].at = "available" THEN NoConn ELSE conn[c]]
    /\ available' = <<>>
    /\ pc' = "closing"
    /\ UNCHANGED <<poolState, generation, total, pending, queueVars, mgmt, cur, handles, req>>

\* The worker is dropped, and with it what its channels still hold: a
\* checked-in connection inside a message disappears without a closed event.
CloseChannels ==
    /\ pc = "closing"
    /\ conn' = [c \in Conns |->
                  IF conn[c].at \in {"checkIn", "forPool"} THEN [NoConn EXCEPT !.at = "dropped"]
                  ELSE IF conn[c].at = "failed" THEN NoConn
                  ELSE conn[c]]
    /\ req' = [r \in Requests |->
                 IF r \in Elements(waitQueue) \cup Elements(requestQueue) THEN Released(r)
                 ELSE IF req[r] = "announced" THEN "free"
                 ELSE req[r]]
    /\ mgmt' = <<>>
    /\ waitQueue' = <<>>
    /\ requestQueue' = <<>>
    /\ pc' = "exited"
    /\ UNCHANGED <<workerVars, cur, handles>>

\* PoolTask::CheckOut
ReceiveRequest ==
    /\ pc = "select"
    /\ mgmt = <<>>
    /\ handles
    /\ requestQueue # <<>>
    /\ requestQueue' = Tail(requestQueue)
    /\ LET r == Head(requestQueue) IN
         IF poolState = "Ready"
         THEN waitQueue' = Append(waitQueue, r) /\ req' = req
         ELSE waitQueue' = waitQueue /\ req' = [req EXCEPT ![r] = Released(r)]
    /\ pc' = "serve"
    /\ UNCHANGED <<workerVars, mgmt, cur, handles, conn>>

\* PoolTask::Maintenance: the interval ticks while nothing else is to do.
StartMaintenance ==
    /\ pc = "select"
    /\ mgmt = <<>>
    /\ handles
    /\ requestQueue = <<>>
    /\ pc' = "perished"
    /\ UNCHANGED <<workerVars, queueVars, mgmt, cur, handles, conn, req>>

\* close_connection
CloseConnection(c) ==
    /\ conn' = [conn EXCEPT ![c] = NoConn]
    /\ total' = total - 1

\* Mutant: only idle connections count as perished.
IsPerished_IdleOnly(c) == conn[c].idle

IsPerished(c) == IsStale(c) \/ conn[c].idle

\* remove_perished_connections, one connection at a time from the front
RemovePerished ==
    /\ pc = "perished"
    /\ IF available # <<>> /\ IsPerished(Head(available))
       THEN /\ CloseConnection(Head(available))
            /\ available' = Tail(available)
            /\ pc' = pc
       ELSE /\ pc' = IF poolState = "Ready" THEN "ensureMin" ELSE "serve"
            /\ UNCHANGED <<conn, total, available>>
    /\ UNCHANGED <<poolState, generation, pending, queueVars, mgmt, cur, handles, req>>

\* create_pending_connection for the given request, or for the pool
CreatePendingConnection(c, holder, forPool) ==
    /\ conn[c].at = "none"
    /\ conn' = [conn EXCEPT ![c] = [NoConn EXCEPT !.at = "pending", !.gen = generation,
                                                  !.holder = holder, !.forPool = forPool]]
    /\ total' = total + 1
    /\ pending' = pending + 1

\* Mutant: one connection too many.
EnsureMinConnections_OneMore ==
    /\ pc = "ensureMin"
    /\ IF total <= MinPoolSize /\ pending < MaxConnecting
       THEN /\ \E c \in Conns : CreatePendingConnection(c, NoRequest, TRUE)
            /\ pc' = pc
       ELSE /\ pc' = "serve"
            /\ UNCHANGED <<conn, total, pending>>
    /\ UNCHANGED <<poolState, generation, available, queueVars, mgmt, cur, handles, req>>

\* ensure_min_connections, one connection at a time
EnsureMinConnections ==
    /\ pc = "ensureMin"
    /\ IF total < MinPoolSize /\ pending < MaxConnecting
       THEN /\ \E c \in Conns : CreatePendingConnection(c, NoRequest, TRUE)
            /\ pc' = pc
       ELSE /\ pc' = "serve"
            /\ UNCHANGED <<conn, total, pending>>
    /\ UNCHANGED <<poolState, generation, available, queueVars, mgmt, cur, handles, req>>

-----------------------------------------------------------------------------
(* The worker: serving the wait queue after each task. *)

BelowMaxConnections == total < MaxPoolSize

CanServiceConnectionRequest ==
    /\ poolState = "Ready"
    /\ \/ available # <<>>
       \/ BelowMaxConnections /\ pending < MaxConnecting

IsAbandoned(r) == req[r] = "abandoned"

\* One turn of the loop that looks for a request to serve.
ServeWaiters ==
    /\ pc = "serve"
    /\ IF CanServiceConnectionRequest /\ waitQueue # <<>>
       THEN /\ waitQueue' = Tail(waitQueue)
            /\ IF IsAbandoned(Head(waitQueue))
               THEN /\ req' = [req EXCEPT ![Head(waitQueue)] = "free"]
                    /\ UNCHANGED <<pc, cur>>
               ELSE /\ cur' = Head(waitQueue)
                    /\ pc' = "checkOut"
                    /\ req' = req
       ELSE /\ pc' = "select"
            /\ UNCHANGED <<waitQueue, req, cur>>
    /\ UNCHANGED <<workerVars, requestQueue, mgmt, handles, conn>>

\* The worker is done with cur: it goes on with the next waiter only when the
\* answer could not be delivered.
Answer(status) ==
    /\ req' = [req EXCEPT ![cur] = IF IsAbandoned(cur) THEN "free" ELSE status]
    /\ pc' = IF IsAbandoned(cur) THEN "serve" ELSE "select"
    /\ cur' = NoRequest

\* check_out of a warm-pool request when there are enough connections
AnswerPoolWarmed ==
    /\ pc = "checkOut"
    /\ cur \in WarmRequests
    /\ total >= MinPoolSize
    /\ Answer("joining")
    /\ UNCHANGED <<workerVars, queueVars, mgmt, handles, conn>>

MostRecent == available[Len(available)]

\* check_out closes a stale or idle connection it finds ...
DiscardPerished ==
    /\ pc = "checkOut"
    /\ cur \in OpRequests
    /\ available # <<>>
    /\ IsPerished(MostRecent)
    /\ CloseConnection(MostRecent)
    /\ available' = SubSeq(available, 1, Len(available) - 1)
    /\ UNCHANGED <<poolState, generation, pending, queueVars, mgmt, loopVars, handles, req>>

\* Mutant: the connection of a requester that is gone does not return.
HandOut_ToNobody ==
    /\ pc = "checkOut"
    /\ cur \in OpRequests
    /\ available # <<>>
    /\ ~IsPerished(MostRecent)
    /\ Answer("using")
    /\ available' = SubSeq(available, 1, Len(available) - 1)
    /\ conn' = [conn EXCEPT ![MostRecent].at = "out", ![MostRecent].holder = cur]
    /\ UNCHANGED <<poolState, generation, total, pending, queueVars, mgmt, handles>>

\* ... and hands out the first that is neither; when the requester is gone
\* the connection returns to the pool.
HandOut ==
    /\ pc = "checkOut"
    /\ cur \in OpRequests
    /\ available # <<>>
    /\ ~IsPerished(MostRecent)
    /\ Answer("using")
    /\ IF IsAbandoned(cur)
       THEN UNCHANGED <<available, conn>>
       ELSE /\ available' = SubSeq(available, 1, Len(available) - 1)
            /\ conn' = [conn EXCEPT ![MostRecent].at = "out", ![MostRecent].holder = cur]
    /\ UNCHANGED <<poolState, generation, total, pending, queueVars, mgmt, handles>>

NothingToHandOut ==
    /\ pc = "checkOut"
    /\ \/ cur \in WarmRequests /\ total < MinPoolSize
       \/ cur \in OpRequests /\ available = <<>>

\* Otherwise check_out creates a connection; when the requester is gone the
\* connection is established in the background.
CreateForRequest ==
    /\ NothingToHandOut
    /\ BelowMaxConnections
    /\ \E c \in Conns :
         CreatePendingConnection(c, IF IsAbandoned(cur) THEN NoRequest ELSE cur, FALSE)
    /\ req' = [req EXCEPT ![cur] = IF IsAbandoned(cur) THEN "free"
                                   ELSE IF cur \in WarmRequests THEN "filling"
                                   ELSE "establishing"]
    /\ pc' = "select"
    /\ cur' = NoRequest
    /\ UNCHANGED <<poolState, generation, available, queueVars, mgmt, handles>>

\* No room for another connection: the request goes back to the front.
RequeueAtFront ==
    /\ NothingToHandOut
    /\ ~BelowMaxConnections
    /\ waitQueue' = <<cur>> \o waitQueue
    /\ pc' = "select"
    /\ cur' = NoRequest
    /\ UNCHANGED <<workerVars, requestQueue, mgmt, handles, conn, req>>

\* max_idle_time passes for an available connection.
BecomeIdle(c) ==
    /\ IdleTimeout
    /\ conn[c].at = "available"
    /\ ~conn[c].idle
    /\ conn' = [conn EXCEPT ![c].idle = TRUE]
    /\ UNCHANGED <<workerVars, queueVars, mgmt, loopVars, handles, req>>

-----------------------------------------------------------------------------
OperationStep ==
    \/ \E r \in OpRequests : RequestConnection(r) \/ Abandon(r) \/ AbandonEstablishing(r)
    \/ \E c \in Conns : BeginCommand(c) \/ EndCommand(c) \/ FailCommand(c) \/ Drop(c)

EstablishStep ==
    \E c \in Conns : EstablishSucceeds(c) \/ EstablishFails(c) \/ ReportFailure(c)

TopologyStep ==
    \/ \E interrupt \in BOOLEAN : SendClear(interrupt)
    \/ SendMarkAsReady
    \/ DropHandles

WarmStep ==
    \E w \in WarmRequests : BroadcastFillPool(w) \/ RequestWarmPool(w) \/ AcknowledgeFill(w)

ManagementStep ==
    \/ CheckIn
    \/ Clear
    \/ MarkAsReady
    \/ HandleConnectionSucceeded
    \/ HandleConnectionFailed
    \/ SpawnFillPool

LoopStep ==
    \/ RemovePerished
    \/ EnsureMinConnections
    \/ ServeWaiters
    \/ AnswerPoolWarmed
    \/ DiscardPerished
    \/ HandOut
    \/ CreateForRequest
    \/ RequeueAtFront

\* The worker always goes on with the first of these that is possible.
WorkerStep ==
    \/ ManagementStep
    \/ LeaveLoop
    \/ CloseChannels
    \/ ReceiveRequest
    \/ StartMaintenance
    \/ LoopStep

Next ==
    \/ OperationStep
    \/ EstablishStep
    \/ TopologyStep
    \/ WarmStep
    \/ WorkerStep
    \/ \E c \in Conns : BecomeIdle(c)

Spec == Init /\ [][Next]_vars

\* The runtime polls every task: the worker goes on, establishing ends (it has
\* a connect timeout), and operations drop their connections in the end. The
\* topology worker sends one message per change of the topology, so that again
\* and again the worker finds its management channel empty, and then it gets to
\* the requests.
Fairness ==
    /\ WF_vars(WorkerStep)
    /\ SF_vars(ReceiveRequest)
    /\ []<>(mgmt = <<>> /\ pc \in {"select", "exited"})
    /\ \A c \in Conns : /\ WF_vars(EstablishSucceeds(c) \/ EstablishFails(c))
                        /\ WF_vars(ReportFailure(c))
                        /\ WF_vars(Drop(c))
    /\ \A w \in WarmRequests : WF_vars(RequestWarmPool(w)) /\ WF_vars(AcknowledgeFill(w))

FairSpec == Spec /\ Fairness

-----------------------------------------------------------------------------
(* Safety. *)

Running == pc \notin {"closing", "exited"}

\* The connections the pool has to account for.
Managed == {c \in Conns : conn[c].at \notin {"none", "dropped"}}

\* The connections whose establishment the worker has not yet been told of.
Unreported ==
    {c \in Conns : \/ conn[c].at \in {"pending", "failing"}
                   \/ {UsedMsg(c), ForPoolMsg(c), FailedMsg(c)} \cap Elements(mgmt) # {}}

\* total_connection_count and pending_connection_count, which are only ever
\* incremented and decremented at a distance by messages, always equal the
\* number of connections that exist and that are being established: no
\* connection is counted twice, forgotten, or released twice, whichever way an
\* operation, a cancelled request or a failed handshake ends.
CountsExact ==
    Running => /\ total = Cardinality(Managed)
               /\ pending = Cardinality(Unreported)

\* Two places count up to a limit, check_out to max_pool_size and
\* ensure_min_connections to min_pool_size, each unaware of the other's: their
\* interleavings never take the pool beyond the larger of the two, counting
\* the connections checked out and those still being established.
WithinPoolLimits ==
    Running => \/ Cardinality(Managed) <= MaxPoolSize
               \/ Cardinality(Managed) <= MinPoolSize

\* The pool never manages more connections than max_pool_size, counting those
\* checked out and those still being established (for options with
\* min_pool_size <= max_pool_size).
WithinMaxPoolSize == Running => Cardinality(Managed) <= MaxPoolSize

\* No more than max_connecting connections are being established at a time.
WithinMaxConnecting == Running => Cardinality(Unreported) <= MaxConnecting

\* available_connections, the CheckIn, ForPool and Failed messages and the
\* holders partition the connections: each is in exactly one place, once, so
\* that no connection is lost between the pool, the channels and the tasks, and
\* none can be checked in or handed out twice.
OneOwner ==
    /\ Distinct(available)
    /\ Distinct(mgmt)
    /\ \A c \in Conns :
         /\ conn[c].at = "available" <=> c \in Elements(available)
         /\ conn[c].at = "checkIn" <=> CheckInMsg(c) \in Elements(mgmt)
         /\ conn[c].at = "forPool" <=> ForPoolMsg(c) \in Elements(mgmt)
         /\ conn[c].at = "failed" <=> FailedMsg(c) \in Elements(mgmt)

\* A checked-out connection belongs to one operation, and an operation that
\* was given a connection has exactly one: a request is never answered twice,
\* and never answered after its requester gave up on it.
ExclusiveUse ==
    /\ \A c, d \in Conns : /\ conn[c].at = "out" /\ conn[d].at = "out"
                           /\ conn[c].holder = conn[d].holder
                           /\ conn[c].holder \in OpRequests
                           => c = d
    /\ \A r \in OpRequests :
         req[r] = "using" <=> \E c \in Conns : conn[c].at = "out" /\ conn[c].holder = r

\* A connection is checked in only after the pool was told that it was
\* established: the worker never closes a connection it still counts as
\* pending.
UsedBeforeCheckIn ==
    \A i, j \in 1..Len(mgmt) : \A c \in Conns :
        mgmt[i] = UsedMsg(c) /\ mgmt[j] = CheckInMsg(c) => i < j

\* A connection whose command was left unfinished, or that failed, is never
\* available again.
AvailableIsClean ==
    \A c \in Conns : conn[c].at = "available" => conn[c].health = "clean" /\ ~conn[c].cancelled

\* An interrupting clear reaches only connections of the generations it
\* cleared: none of those that were created after it.
CancelledIsStale == \A c \in Conns : conn[c].cancelled => conn[c].gen < generation

\* A pool that is not ready keeps nobody waiting: clearing it answers every
\* waiter, and nobody is queued until it is ready again.
NoWaiterWhilePaused == poolState # "Ready" => waitQueue = <<>> /\ cur = NoRequest

\* The worker does not leave its loop while an operation waits for its answer:
\* ConnectionRequester::request unwraps both the send and the answer, and
\* neither can fail.
AnswerGuaranteed == ~Running => \A r \in OpRequests : req[r] # "sent"

\* Every connection that is closed has its closed event: none is dropped
\* silently.
ClosedEventForEveryConnection == \A c \in Conns : conn[c].at # "dropped"

\* Once a connection behind the front of available_connections is stale or
\* idle, so is the front: remove_perished_connections, which stops at the first
\* connection that is neither, leaves no stale one behind.
NoStaleLeftBehind ==
    pc = "ensureMin" => \A c \in Elements(available) : ~IsStale(c)

FreshHandedOut ==
    \A c \in Conns : conn[c].at = "available" /\ conn'[c].at = "out"
        => conn[c].gen = generation /\ poolState = "Ready" /\ ~conn[c].idle

\* A connection leaves available_connections for an operation only if it was
\* established in the current generation and is not idle, and never while the
\* pool is paused.
OnlyFreshHandedOut == [][FreshHandedOut]_vars

(* The inductive invariant behind these. *)

\* A connection reported as used is with its holder or on its way back.
UsedIsOut == \A c \in Conns : UsedMsg(c) \in Elements(mgmt) => conn[c].at \in {"out", "checkIn"}

\* Only a checked-out connection runs commands, and only one that is checked
\* out or being established listens to cancellations.
CleanUntilUsed ==
    \A c \in Conns : /\ conn[c].at \notin {"out", "checkIn"} => conn[c].health = "clean"
                     /\ conn[c].at \notin {"pending", "failing", "out"} => ~conn[c].cancelled

GenerationsPast == \A c \in Conns : conn[c].gen <= generation

LoopInv ==
    /\ pc = "checkOut" <=> cur # NoRequest
    /\ pc = "exited" => mgmt = <<>>

\* A request the pool holds waits for its answer, or was given up; the pool
\* holds it once.
RequestsQueued ==
    /\ \A r \in Requests : r \in Elements(waitQueue) \cup Elements(requestQueue) \cup {cur}
                           => req[r] \in {"sent", "abandoned"}
    /\ Distinct(waitQueue)
    /\ Distinct(requestQueue)
    /\ Elements(waitQueue) \cap Elements(requestQueue) = {}
    /\ cur \notin Elements(waitQueue) \cup Elements(requestQueue)
    /\ \A w \in WarmRequests : req[w] = "announced" <=> FillPoolMsg(w) \in Elements(mgmt)

\* The holder of a connection knows it: it awaits the connection or uses it.
HoldersKnow ==
    /\ \A c \in Conns :
         /\ conn[c].at \notin {"pending", "failing", "out"} => conn[c].holder = NoRequest
         /\ conn[c].forPool /\ conn[c].at # "out" => conn[c].holder = NoRequest
         /\ conn[c].holder \in OpRequests =>
              req[conn[c].holder] = IF conn[c].at = "out" THEN "using" ELSE "establishing"
    /\ \A c, d \in Conns :
         conn[c].holder \in OpRequests /\ conn[c].holder = conn[d].holder => c = d
    /\ \A r \in OpRequests : req[r] = "using" => \E c \in Conns : conn[c].holder = r

IInv ==
    /\ TypeOK
    /\ CountsExact
    /\ OneOwner
    /\ UsedBeforeCheckIn
    /\ UsedIsOut
    /\ CleanUntilUsed
    /\ GenerationsPast
    /\ CancelledIsStale
    /\ LoopInv
    /\ NoWaiterWhilePaused
    /\ RequestsQueued
    /\ HoldersKnow

(* Liveness. *)

\* Every check-out request that is not given up is answered: with a
\* connection, with a connection being established, or with an error.
EveryRequestAnswered == \A r \in Requests : req[r] = "sent" ~> req[r] # "sent"

\* Once the last handle is dropped the worker stops and no connection is left.
PoolCloses == ~handles ~> (pc = "exited" /\ Managed = {})
=============================================================================
