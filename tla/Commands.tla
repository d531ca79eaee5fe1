------------------------------ MODULE Commands ------------------------------
(***************************************************************************)
(* From a call of the application to the commands the server receives: the *)
(* actions of a collection, database and client (action/*.rs), the checks  *)
(* before an operation is executed and the command built for every attempt *)
(* (client/executor.rs, cmap/conn/command.rs), and the times a session     *)
(* carries from one reply to the next (client/session.rs).                 *)
(*                                                                         *)
(* One session of the application and the implicit sessions of the driver  *)
(* talk to a replica set.  Its members are external: a primary whose clock *)
(* ticks with every write, a secondary that follows it, both obeying       *)
(* afterClusterTime and atClusterTime.                                     *)
(***************************************************************************)
EXTENDS Operations

(* Clients, handles, session options, calls and transactions, with bounds: *)
(* limit on the calls made, time on the ticks other clients cause.         *)
CONSTANT Configurations

VARIABLES
    config,     \* the configuration, fixed by Init
    session,    \* the ClientSession of the application, or None
    known,      \* the cluster time the topology has seen
    cur,        \* the operation being executed, or None
    outcome,    \* what the last call returned
    calls,      \* calls made so far
    now,        \* external: the time of the primary
    lag,        \* external: how far the secondary is behind
    begun,      \* the options given to the last start_transaction
    heard,      \* the latest operation time the application's session was told
    snapshots,  \* the times at which the session's snapshot reads were answered
    served      \* external: the command executed last, or None

commandVars == <<config, session, known, cur, outcome, calls, now, lag, begun, heard, snapshots, served>>

Larger(a, b) == IF a > b THEN a ELSE b

----------------------------------------------------------------------------
(* The actions.                                                            *)

aggregate(o, cl) == Aggregate("coll", FALSE, AggregateOptions, o, cl)
aggregate_db(o, cl) == Aggregate("db", FALSE, AggregateOptions, o, cl)
aggregate_out(o, cl) == Aggregate("coll", TRUE, AggregateOptions, o, cl)
estimated_document_count(o, cl) == Count(o, cl)
count_documents(o, cl) == CountDocuments(o, cl)
distinct(o, cl) == Distinct(o, cl)
find(o, cl) == Find(FindOptions, o, cl)
find_one(o, cl) == Find(FindOneOptions, o, cl)
list_collections(o, cl) == ListCollections(cl)
list_databases(o, cl) == ListDatabases(cl)
list_indexes(o, cl) == ListIndexes(cl)
list_search_indexes(o, cl) == Aggregate("unconcerned", FALSE, AggregateOptions, o, cl)
insert_one(o, cl) == Insert(InsertOneOptions, o, cl)
insert_many(o, cl) == Insert(InsertManyOptions, o, cl)
update_one(o, cl) == Update(FALSE, UpdateOptions, o, cl)
update_many(o, cl) == Update(TRUE, UpdateOptions, o, cl)
replace_one(o, cl) == Update(FALSE, ReplaceOptions, o, cl)
delete_one(o, cl) == Delete(1, o, cl)
delete_many(o, cl) == Delete(0, o, cl)
find_one_and_delete(o, cl) == FindAndModify("remove", FindOneAndDeleteOptions, o, cl)
find_one_and_update(o, cl) == FindAndModify("update", FindOneAndUpdateOptions, o, cl)
find_one_and_replace(o, cl) == FindAndModify("update", FindOneAndReplaceOptions, o, cl)
create_collection(o, cl) == Create(o)
create_index(o, cl) == CreateIndexes(o, cl)
drop_collection(o, cl) == DropCollection(o)
drop_database(o, cl) == DropDatabase(o)
drop_index(o, cl) == DropIndexes(o, cl)
create_search_index(o, cl) == CreateSearchIndexes
update_search_index(o, cl) == UpdateSearchIndex
drop_search_index(o, cl) == DropSearchIndex

(* run_command takes the read preference of a transaction it runs in.      *)
run_command(sessions, o, s, cl) ==
    RunCommand(sessions, IF s # None /\ s.tx.state \in {"Starting", "InProgress"}
                         THEN or_else(o.sel, s.tx.options.sel) ELSE o.sel, cl)
run_cursor_command(o, cl) == RunCommand(TRUE, o.sel, cl)

(* The operation of each call.                                             *)
OperationOf(call, o, s, cl) ==
    CASE call = "aggregate" -> aggregate(o, cl)
      [] call = "aggregate_db" -> aggregate_db(o, cl)
      [] call = "aggregate_out" -> aggregate_out(o, cl)
      [] call = "estimated_document_count" -> estimated_document_count(o, cl)
      [] call = "count_documents" -> count_documents(o, cl)
      [] call = "distinct" -> distinct(o, cl)
      [] call = "find" -> find(o, cl)
      [] call = "find_one" -> find_one(o, cl)
      [] call = "list_collections" -> list_collections(o, cl)
      [] call = "list_databases" -> list_databases(o, cl)
      [] call = "list_indexes" -> list_indexes(o, cl)
      [] call = "list_search_indexes" -> list_search_indexes(o, cl)
      [] call = "insert_one" -> insert_one(o, cl)
      [] call = "insert_many" -> insert_many(o, cl)
      [] call = "update_one" -> update_one(o, cl)
      [] call = "update_many" -> update_many(o, cl)
      [] call = "replace_one" -> replace_one(o, cl)
      [] call = "delete_one" -> delete_one(o, cl)
      [] call = "delete_many" -> delete_many(o, cl)
      [] call = "find_one_and_delete" -> find_one_and_delete(o, cl)
      [] call = "find_one_and_update" -> find_one_and_update(o, cl)
      [] call = "find_one_and_replace" -> find_one_and_replace(o, cl)
      [] call = "create_collection" -> create_collection(o, cl)
      [] call = "create_index" -> create_index(o, cl)
      [] call = "drop_collection" -> drop_collection(o, cl)
      [] call = "drop_database" -> drop_database(o, cl)
      [] call = "drop_index" -> drop_index(o, cl)
      [] call = "create_search_index" -> create_search_index(o, cl)
      [] call = "update_search_index" -> update_search_index(o, cl)
      [] call = "drop_search_index" -> drop_search_index(o, cl)
      [] call = "run_command" -> run_command(TRUE, o, s, cl)
      [] call = "run_authenticate" -> run_command(FALSE, o, s, cl)
      [] call = "run_cursor_command" -> run_cursor_command(o, cl)

ReadCalls ==
    {"aggregate", "aggregate_db", "estimated_document_count", "count_documents", "distinct",
     "find", "find_one", "list_collections", "list_databases", "list_indexes",
     "list_search_indexes", "run_command", "run_authenticate", "run_cursor_command"}
MultiCalls == {"update_many", "delete_many", "aggregate_out"}
(* These calls take no session from the application.                       *)
Sessionless ==
    {"estimated_document_count", "list_search_indexes", "create_search_index",
     "update_search_index", "drop_search_index"}
Calls ==
    ReadCalls \cup MultiCalls \cup Sessionless \cup
    {"insert_one", "insert_many", "update_one", "replace_one", "delete_one",
     "find_one_and_delete", "find_one_and_update", "find_one_and_replace", "create_collection",
     "create_index", "drop_collection", "drop_database", "drop_index"}

----------------------------------------------------------------------------
(* Sessions.                                                               *)

NoTransaction == [state |-> "None", options |-> NoHandle, data |-> FALSE]

validate_session_options(so) ==
    /\ ~(so.causal = TRUE /\ so.snapshot = TRUE)
    /\ so.snapshotTime # None => so.snapshot = TRUE

NewSession(so, implicit) ==
    [options |-> so, implicit |-> implicit, clusterTime |-> 0, operationTime |-> 0,
     snapshotTime |-> so.snapshotTime, tx |-> NoTransaction]
ImplicitOptions == [causal |-> None, snapshot |-> None, snapshotTime |-> None, defaults |-> NoHandle]

in_transaction(s) == s # None /\ s.tx.state \in {"Starting", "InProgress"}
causal_consistency(s) == or_else(s.options.causal, ~s.implicit)
is_snapshot(s) == s.options.snapshot = TRUE

advance_cluster_time(s, t) == [s EXCEPT !.clusterTime = Larger(@, t)]
advance_operation_time_Always(s, t) == [s EXCEPT !.operationTime = t]
advance_operation_time(s, t) == [s EXCEPT !.operationTime = Larger(@, t)]

(* start_transaction: the options given, then those of the session, then   *)
(* the concerns and the read preference of the client.                     *)
merge_transaction_options_NoDefaults(given, s) == InheritFrom(given, config.client)
merge_transaction_options(given, s) ==
    InheritFrom(InheritFrom(given, s.options.defaults), config.client)

----------------------------------------------------------------------------
(* The handle an operation inherits from (OperationTarget).                *)

DatabaseHandle == NewDatabase(config.client, config.db)
CollectionHandle == NewCollection(DatabaseHandle, config.coll)

OperationTarget(target) ==
    CASE target = "coll" -> CollectionHandle
      [] target = "unconcerned" -> clone_unconcerned(CollectionHandle)
      [] target = "db" -> DatabaseHandle
      [] target = "admin" -> NewDatabase(config.client, NoHandle)
      [] target = "ns" -> NoHandle

Resolve(feature, inherited) ==
    CASE feature = Inherit -> inherited
      [] feature = NotSupported -> None
      [] OTHER -> feature

(* execute_operation_with_details_inner: why an operation is not executed. *)
WriteConcernOf(op, s) ==
    IF in_transaction(s) /\ ~is_set(op.wc) THEN None
    ELSE Resolve(op.wc, OperationTarget(op.target).wc)

SelectionCriteria(op, s) ==
    CASE op.sel = Inherit -> or_else(IF in_transaction(s) THEN s.tx.options.sel ELSE None,
                                     OperationTarget(op.target).sel)
      [] OTHER -> Resolve(op.sel, None)

Refused(op, s) ==
    \/ in_transaction(s) /\ (is_set(op.rc) \/ is_set(op.wc))
    \/ LET wc == WriteConcernOf(op, s)
       IN wc # None /\ (~is_acknowledged(wc) \/ ~validate_write_concern(wc))
    \/ in_transaction(s) /\ SelectionCriteria(op, s) \notin {None, "primary"}

(* An earlier transaction is forgotten, unless it is ended once more.      *)
ResetTransaction(op, s) ==
    IF \/ s.tx.state = "Committed" /\ op.name # "commitTransaction"
       \/ s.tx.state = "Aborted" /\ op.name # "abortTransaction"
    THEN [s EXCEPT !.tx = NoTransaction] ELSE s

----------------------------------------------------------------------------
(* Commands.                                                               *)

(* Command::from_operation.                                                *)
FromOperation(op) ==
    LET target == OperationTarget(op.target)
        level == Resolve(op.rc, target.rc)
    IN [name |-> op.name, body |-> op.body,
        rc |-> IF level = None THEN None ELSE [level |-> level, at |-> None, after |-> 0],
        wc |-> Resolve(op.wc, target.wc), lsid |-> FALSE, number |-> FALSE, start |-> FALSE,
        autocommit |-> FALSE, clusterTime |-> 0]

clear_concerns(cmd) == [cmd EXCEPT !.rc = None, !.wc = None]

ReadConcernOr(cmd, level) ==
    IF cmd.rc = None THEN [level |-> level, at |-> None, after |-> 0] ELSE cmd.rc

set_read_concern_level(cmd, level) ==
    [cmd EXCEPT !.rc = [ReadConcernOr(cmd, None) EXCEPT !.level = level]]

(* The level is only set when the command has no read concern yet.         *)
set_snapshot_read_concern(cmd, s) ==
    [cmd EXCEPT !.rc = [ReadConcernOr(cmd, "snapshot") EXCEPT !.at = s.snapshotTime]]

set_after_cluster_time(cmd, s) ==
    IF s.operationTime = 0 THEN cmd
    ELSE [cmd EXCEPT !.rc = [ReadConcernOr(cmd, None) EXCEPT !.after = s.operationTime]]

(* The transaction's read concern goes with its first command.             *)
SetTransaction(cmd, s) ==
    CASE s.tx.state = "None" -> cmd
      [] s.tx.state = "Starting" ->
            LET started == [cmd EXCEPT !.start = TRUE, !.autocommit = TRUE]
                timed == IF causal_consistency(s) THEN set_after_cluster_time(started, s)
                         ELSE started
            IN IF s.tx.options.rc # None THEN set_read_concern_level(timed, s.tx.options.rc)
               ELSE timed
      [] s.tx.state \in {"InProgress", "Committed", "Aborted"} -> [cmd EXCEPT !.autocommit = TRUE]

SetSession(cmd, op, s, number) ==
    LET base == [cmd EXCEPT !.lsid = TRUE, !.number = number]
    IN SetTransaction(
          IF is_snapshot(s) THEN set_snapshot_read_concern(base, s)
          ELSE IF /\ causal_consistency(s)
                  /\ s.tx.state \in {"None", "Starting"}
                  /\ supported(op.rc) \/ op.afterTimeWrite
          THEN set_after_cluster_time(base, s)
          ELSE base, s)

build_command(op, s, number) ==
    LET built == FromOperation(op)
        cleared == IF in_transaction(s) THEN clear_concerns(built) ELSE built
        cmd == IF op.sessions THEN SetSession(cleared, op, s, number) ELSE cleared
    IN [cmd EXCEPT !.clusterTime = Larger(s.clusterTime, known)]

(* The keys Command adds to the body.                                      *)
CommandKeys(cmd) ==
    {"$db", "$clusterTime", "apiVersion", "apiStrict", "apiDeprecationErrors",
     "$readPreference", "recoveryToken"}
    \cup (IF cmd.lsid THEN {"lsid"} ELSE {})
    \cup (IF cmd.number THEN {"txnNumber"} ELSE {})
    \cup (IF cmd.start THEN {"startTransaction"} ELSE {})
    \cup (IF cmd.autocommit THEN {"autocommit"} ELSE {})
    \cup (IF cmd.rc # None THEN {"readConcern"} ELSE {})
    \cup (IF cmd.wc # None /\ ~is_empty(cmd.wc) THEN {"writeConcern"} ELSE {})

----------------------------------------------------------------------------
(* The steps of a call.                                                    *)

Session == IF cur.explicit THEN session ELSE cur.own

(* The session is borrowed mutably by the call, so it is written in place. *)
SessionBecomes(s) ==
    cur' = None /\ session' = IF cur.explicit THEN s ELSE session

StartSession(so) ==
    /\ session = None /\ cur = None /\ calls < config.limit
    /\ calls' = calls + 1
    /\ IF validate_session_options(so)
       THEN session' = NewSession(so, FALSE) /\ outcome' = "ok"
       ELSE session' = session /\ outcome' = "invalid"
    /\ UNCHANGED <<config, known, cur, now, lag, begun, heard, snapshots, served>>

Execute(call, op, given, s, explicit) ==
    IF Refused(op, s)
    THEN cur' = None /\ outcome' = "invalid" /\ session' = IF explicit THEN s ELSE session
    ELSE LET reset == ResetTransaction(op, s)
         IN /\ session' = IF explicit THEN reset ELSE session
            /\ cur' = [call |-> call, op |-> op, given |-> given, explicit |-> explicit,
                       own |-> IF explicit THEN None ELSE reset,
                       sel |-> SelectionCriteria(op, s), attempt |-> 1, number |-> FALSE,
                       runs |-> 0, cmd |-> None, node |-> None]
            /\ outcome' = "pending"

Call(call, o, explicit) ==
    /\ cur = None /\ calls < config.limit
    /\ explicit => session # None /\ call \notin Sessionless
    /\ calls' = calls + 1
    /\ LET s == IF explicit THEN session ELSE NewSession(ImplicitOptions, TRUE)
       IN Execute(call, OperationOf(call, o, s, config), o, s, explicit)
    /\ UNCHANGED <<config, known, now, lag, begun, heard, snapshots, served>>

start_transaction(given) ==
    /\ cur = None /\ session # None /\ calls < config.limit
    /\ calls' = calls + 1
    /\ \E options \in {merge_transaction_options(given, session)} :
          IF \/ is_snapshot(session) \/ in_transaction(session)
             \/ options.wc # None /\ ~is_acknowledged(options.wc)
          THEN UNCHANGED <<session, begun>> /\ outcome' = "invalid"
          ELSE /\ session' = [session EXCEPT
                                !.tx = [state |-> "Starting", options |-> options, data |-> FALSE]]
               /\ outcome' = "ok" /\ begun' = given
    /\ UNCHANGED <<config, known, cur, now, lag, heard, snapshots, served>>

EndLocally(tx, result) ==
    /\ session' = [session EXCEPT !.tx = tx] /\ outcome' = result /\ cur' = cur

commit_transaction ==
    /\ cur = None /\ session # None /\ calls < config.limit
    /\ calls' = calls + 1
    /\ LET tx == session.tx
           committed(data) == [tx EXCEPT !.state = "Committed", !.data = data]
       IN CASE tx.state \in {"None", "Aborted"} -> EndLocally(tx, "invalid")
            [] tx.state = "Starting" -> EndLocally(committed(FALSE), "ok")
            [] tx.state = "InProgress" ->
                  Execute("commit", CommitTransaction(tx.options), begun,
                          [session EXCEPT !.tx = committed(TRUE)], TRUE)
            [] tx.state = "Committed" /\ tx.data ->
                  Execute("recommit", commit_update_for_retry(CommitTransaction(tx.options)),
                          begun, session, TRUE)
            [] tx.state = "Committed" /\ ~tx.data -> EndLocally(tx, "ok")
    /\ UNCHANGED <<config, known, now, lag, begun, heard, snapshots, served>>

abort_transaction ==
    /\ cur = None /\ session # None /\ calls < config.limit
    /\ calls' = calls + 1
    /\ LET tx == session.tx
           aborted == [tx EXCEPT !.state = "Aborted"]
       IN CASE tx.state \in {"None", "Committed", "Aborted"} -> EndLocally(tx, "invalid")
            [] tx.state = "Starting" -> EndLocally(aborted, "ok")
            [] tx.state = "InProgress" ->
                  Execute("abort", AbortTransaction(tx.options), begun,
                          [session EXCEPT !.tx = aborted], TRUE)
    /\ UNCHANGED <<config, known, now, lag, begun, heard, snapshots, served>>

(* select_server: $out and $merge go to the primary while some server is   *)
(* too old to run them elsewhere (override_criteria).                      *)
override_criteria(op, sel) == IF op.override /\ sel # "primary" /\ config.old THEN "primary" ELSE sel

get_retryability(op, s) == IF in_transaction(s) THEN "None" ELSE op.retry

(* Outside a transaction only a retryable write is numbered.               *)
get_txn_number_for_operation(s, retryability) ==
    s.tx.state # "None" \/ retryability = "Write"

(* execute_operation_with_details_inner after the last attempt.            *)
Finished(s) == IF s.tx.state = "Starting" THEN [s EXCEPT !.tx.state = "InProgress"] ELSE s

Return(s, result) == SessionBecomes(Finished(s)) /\ outcome' = result

Send ==
    /\ cur # None /\ cur.cmd = None
    /\ IF \/ cur.explicit /\ ~cur.op.sessions
          \/ is_snapshot(Session) /\ cur.op.sessions /\ config.old
       THEN Return(Session, "error")
       ELSE LET number == cur.number \/ get_txn_number_for_operation(Session, get_retryability(cur.op, Session))
            IN /\ cur' = [cur EXCEPT
                     !.node = override_criteria(cur.op, or_else(cur.sel, "primary")),
                     !.number = number /\ cur.op.sessions,
                     !.cmd = build_command(cur.op, Session, number)]
               /\ UNCHANGED <<session, outcome>>
    /\ UNCHANGED <<config, known, calls, now, lag, begun, heard, snapshots, served>>

----------------------------------------------------------------------------
(* The replica set.                                                        *)

IsWrite(call) == call \notin ReadCalls \cup {"abort"}

TimeOf(node) == IF node = "primary" THEN now ELSE now - lag

(* A node waits until it reached the time a command asks for.              *)
Reached(cmd, node) ==
    cmd.rc # None => /\ cmd.rc.after <= TimeOf(node)
                     /\ cmd.rc.at # None => cmd.rc.at <= TimeOf(node)

(* A numbered command on one document is not executed a second time.       *)
Executes == ~(cur.number /\ cur.runs > 0 /\ cur.call \notin MultiCalls)
Ticks == IsWrite(cur.call) /\ Executes /\ ~in_transaction(Session)

Served ==
    [call |-> cur.call, op |-> cur.op, explicit |-> cur.explicit, cmd |-> cur.cmd,
     node |-> cur.node, need |-> heard, runs |-> cur.runs + (IF Executes THEN 1 ELSE 0),
     tx |-> Session.tx, causal |-> causal_consistency(Session) /\ ~is_snapshot(Session),
     at |-> IF cur.cmd.rc # None /\ cur.cmd.rc.level = "snapshot" /\ cur.cmd.rc.at # None
            THEN cur.cmd.rc.at ELSE TimeOf(cur.node)]

ServerRuns ==
    /\ cur # None /\ cur.cmd # None /\ Reached(cur.cmd, cur.node)
    /\ now' = IF Ticks THEN now + 1 ELSE now
    /\ lag' = IF Ticks THEN lag + 1 ELSE lag
    /\ served' = Served

(* extract_at_cluster_time: only a snapshot read is answered with one, and *)
(* not every operation looks for it.                                       *)
AtClusterTime ==
    IF cur.op.atClusterTime /\ cur.cmd.rc # None /\ cur.cmd.rc.level = "snapshot"
    THEN Served.at ELSE None

(* parse_response and update_cluster_time.                                 *)
Updated(s, t, at) ==
    LET told == advance_operation_time(advance_cluster_time(s, now'), t)
    IN IF at = None THEN told ELSE [told EXCEPT !.snapshotTime = at]

Reply ==
    /\ ServerRuns
    /\ LET t == IF Ticks THEN now' ELSE TimeOf(cur.node)
       IN /\ known' = Larger(known, now')
          /\ Return(Updated(Session, t, AtClusterTime), "ok")
          /\ heard' = IF cur.explicit THEN Larger(heard, t) ELSE heard
    /\ snapshots' = IF cur.explicit /\ is_snapshot(session) /\ cur.op.atClusterTime /\ supported(cur.op.rc)
                    THEN snapshots \cup {Served.at} ELSE snapshots
    /\ UNCHANGED <<config, calls, begun>>

(* A network error: another attempt if the operation allows one.           *)
NetworkError(runs) ==
    IF cur.attempt = 1 /\ get_retryability(cur.op, Session) # "None"
    THEN /\ cur' = [cur EXCEPT !.attempt = 2, !.cmd = None, !.node = None,
                     !.runs = runs,
                     !.op = IF cur.op.name = "commitTransaction" THEN commit_update_for_retry(cur.op) ELSE cur.op]
         /\ UNCHANGED <<session, outcome>>
    ELSE Return(Session, IF cur.call = "abort" THEN "ok" ELSE "error")

LoseReply ==
    /\ ServerRuns
    /\ NetworkError(served'.runs)
    /\ UNCHANGED <<config, known, calls, begun, heard, snapshots>>

LoseCommand ==
    /\ cur # None /\ cur.cmd # None
    /\ NetworkError(cur.runs)
    /\ UNCHANGED <<config, known, calls, now, lag, begun, heard, snapshots, served>>

OtherWrite ==
    /\ now < config.time
    /\ now' = now + 1 /\ lag' = lag + 1
    /\ UNCHANGED <<config, session, known, cur, outcome, calls, begun, heard, snapshots, served>>

Replicate ==
    /\ lag > 0
    /\ lag' = lag - 1
    /\ UNCHANGED <<config, session, known, cur, outcome, calls, now, begun, heard, snapshots, served>>

----------------------------------------------------------------------------
Init ==
    /\ config \in Configurations
    /\ session = None /\ known = 0 /\ cur = None /\ outcome = "none" /\ calls = 0
    /\ now = 1 /\ lag = 0 /\ begun = NoHandle /\ heard = 0 /\ snapshots = {} /\ served = None

Next ==
    \/ \E so \in config.sessions : StartSession(so)
    \/ \E call \in config.calls, o \in config.options, explicit \in BOOLEAN :
          Call(call, o, explicit)
    \/ \E given \in config.transactions : start_transaction(given)
    \/ config.transactions # {} /\ (commit_transaction \/ abort_transaction)
    \/ Send \/ Reply \/ LoseReply \/ LoseCommand
    \/ OtherWrite \/ Replicate

Spec == Init /\ [][Next]_commandVars

----------------------------------------------------------------------------
(* Properties.                                                             *)

Pending == cur # None /\ cur.cmd # None

(* No field occurs twice in a command: neither among the fields of the     *)
(* operation and its options (append_options of operation.rs) nor between  *)
(* those and the fields Command adds to them when it is serialized.        *)
FieldsAreUnique ==
    /\ Cardinality(Keys(cur.cmd.body)) = Len(cur.cmd.body)
    /\ Cardinality(Keys(cur.op.statement)) = Len(cur.op.statement)
    /\ "error" \notin Keys(cur.cmd.body)
    /\ Keys(cur.cmd.body) \cap CommandKeys(cur.cmd) = {}

Closest(options) ==
    LET given == SelectSeq(options, LAMBDA v : v # None)
    IN IF given = <<>> THEN None ELSE Head(given)

Chain(target) ==
    CASE target = "coll" -> <<config.coll, config.db, config.client>>
      [] target = "db" -> <<config.db, config.client>>
      [] target = "admin" -> <<config.client>>
      [] OTHER -> <<>>

Levels(chain) == [i \in DOMAIN chain |-> chain[i].rc]
WriteConcerns(chain) == [i \in DOMAIN chain |-> chain[i].wc]
LevelOf(cmd) == IF cmd.rc = None THEN None ELSE cmd.rc.level

(* Outside a transaction a command carries the concern set closest to the  *)
(* call: its own, the collection's, the database's, the client's.  In one, *)
(* the first command carries the transaction's read concern, the other     *)
(* operations none at all, and the commit its write concern, of the call,  *)
(* the session's defaults or the client, which is majority once retried    *)
(* (execute_operation_with_details_inner, Command::from_operation,         *)
(* build_command, start_transaction_impl and CommitTransaction).           *)
ClosestConcern ==
    LET chain == <<cur.given>> \o Chain(cur.op.target)
        txChain == <<begun, session.options.defaults, config.client>>
        level == LevelOf(cur.cmd)
    IN CASE cur.op.name \in {"commitTransaction", "abortTransaction"} ->
                IF cur.call = "abort" \/ (cur.call = "commit" /\ cur.attempt = 1)
                THEN cur.cmd.wc = Closest(WriteConcerns(txChain))
                ELSE cur.cmd.wc.w = "majority" /\ cur.cmd.wc.wtimeout # None
         [] cur.explicit /\ in_transaction(session) ->
                /\ cur.cmd.wc = None
                /\ level = IF cur.cmd.start THEN Closest(Levels(txChain)) ELSE None
         [] OTHER ->
                /\ supported(cur.op.rc) =>
                      level = or_else(Closest(Levels(chain)),
                                      IF is_snapshot(Session) THEN "snapshot" ELSE None)
                /\ ~supported(cur.op.rc) => level \in {None, "snapshot"}
                /\ supported(cur.op.wc) =>
                      cur.cmd.wc = Closest(WriteConcerns(IF cur.call = "count_documents"
                                                         THEN Tail(chain) ELSE chain))

(* A member other than the primary only ever receives operations it can    *)
(* run: reads outside transactions, and $out or $merge when no server is   *)
(* older than 5.0 (selection_criteria of every operation, the check in     *)
(* transactions, Aggregate::override_criteria).                            *)
SecondaryReadsOnly ==
    cur.node = "secondary" =>
        /\ cur.call \in ReadCalls \/ (cur.op.override /\ ~config.old)
        /\ ~(cur.explicit /\ in_transaction(session))

(* A command on its way to a server is what the call asked for and the     *)
(* member can run: no field twice, the concern set closest to the call,    *)
(* acknowledged wherever it comes from, on a secondary only if it may run   *)
(* there (build, build_command and the checks before them).                *)
SentAsAsked ==
    Pending =>
        /\ FieldsAreUnique /\ ClosestConcern /\ SecondaryReadsOnly
        /\ cur.cmd.wc # None => is_acknowledged(cur.cmd.wc)

(* A causally consistent session reads its own writes and never reads      *)
(* backwards: a read outside a transaction, or the first command of one,   *)
(* is answered at a time no earlier than every operation time the session  *)
(* was told, from whichever member answered (advance_operation_time,       *)
(* set_after_cluster_time).                                                *)
CausalReads ==
    served # None /\ served.explicit /\ served.causal /\ supported(served.op.rc)
        /\ served.tx.state \in {"None", "Starting"} => served.at >= served.need

(* Every read of a snapshot session is answered from one snapshot: the     *)
(* time of the first reply is the atClusterTime of all later reads         *)
(* (SessionOptions::snapshot, set_snapshot_read_concern).                  *)
SnapshotReadsAgree == Cardinality(snapshots) <= 1

(* What a session promises of its reads, by its kind.                      *)
SessionReads == CausalReads /\ SnapshotReadsAgree

(* A write the server cannot recognise as a repetition, on many documents  *)
(* or with $out or $merge, is executed at most once by one call, however   *)
(* replies are lost (Update, Delete and Aggregate::retryability); and no   *)
(* write is executed twice.                                                *)
ExecutedOnce ==
    served # None /\ IsWrite(served.call) => served.runs <= 1
=============================================================================
