----------------------------- MODULE Operations -----------------------------
(***************************************************************************)
(* The operations of the driver (operation.rs, operation/*.rs) and the     *)
(* options they take (coll/options.rs, db/options.rs, concern.rs).         *)
(*                                                                         *)
(* An operation is a record of what the Operation trait answers for it:    *)
(* the concerns and the read preference it supports, sets or inherits,     *)
(* how it may be retried, whether it takes a session, where a reply holds  *)
(* atClusterTime, what a missing namespace means, and the fields of the    *)
(* command it builds when every option is given.  Documents, filters and   *)
(* pipelines are left out.  The parameter o holds the concerns and read    *)
(* preference given to the call, cl the options of the client.             *)
(***************************************************************************)
EXTENDS Integers, Sequences, FiniteSets, Common

CONSTANTS Inherit, NotSupported

----------------------------------------------------------------------------
(* Retryability and Feature (operation.rs).                                *)

RetryabilityWrite(cl) == IF cl.retryWrites THEN "Write" ELSE "None"
RetryabilityRead(cl) == IF cl.retryReads THEN "Read" ELSE "None"

Feature(v) == IF v = None THEN Inherit ELSE v
is_set(f) == f \notin {Inherit, NotSupported}
supported(f) == f # NotSupported

(* Write concerns: what is sent, and what the executor refuses.            *)
WriteConcern(w, journal, wtimeout) == [w |-> w, j |-> journal, wtimeout |-> wtimeout]
is_acknowledged(wc) == wc.w # "0" \/ wc.j = TRUE
is_empty(wc) == wc.w = None /\ wc.j = None /\ wc.wtimeout = None
validate_write_concern(wc) == ~(wc.w = "0" /\ wc.j = TRUE)

(* Handles.  A database takes what its options leave open from the client, *)
(* a collection from the database.                                         *)
or_else(v, default) == IF v = None THEN default ELSE v

InheritFrom(options, parent) ==
    [sel |-> or_else(options.sel, parent.sel), rc |-> or_else(options.rc, parent.rc),
     wc |-> or_else(options.wc, parent.wc)]

NewDatabase(client, options) == InheritFrom(options, client)
NewCollection(db, options) == InheritFrom(options, db)
clone_unconcerned(coll) == [coll EXCEPT !.rc = None, !.wc = None]
NoHandle == [sel |-> None, rc |-> None, wc |-> None]

----------------------------------------------------------------------------
(* The fields each options structure adds to a command.  Concerns and read *)
(* preferences are skipped: Command adds them once they are resolved.      *)

InsertOneOptions == <<"bypassDocumentValidation", "comment">>
InsertManyOptions == <<"bypassDocumentValidation", "ordered", "comment">>
ReplaceOptions ==
    <<"upsert", "hint", "collation", "bypassDocumentValidation", "let", "comment", "sort">>
UpdateOptions ==
    <<"upsert", "arrayFilters", "hint", "collation", "bypassDocumentValidation", "let", "comment",
      "sort">>
DeleteOptions == <<"collation", "hint", "let", "comment">>
FindAndModifyOptions ==
    <<"sort", "new", "upsert", "bypassDocumentValidation", "arrayFilters", "maxTimeMS", "fields",
      "collation", "hint", "let", "comment">>
FindOneAndDeleteOptions ==
    <<"sort", "maxTimeMS", "fields", "collation", "hint", "let", "comment">>
FindOneAndReplaceOptions ==
    <<"sort", "new", "upsert", "bypassDocumentValidation", "maxTimeMS", "fields", "collation",
      "hint", "let", "comment">>
FindOneAndUpdateOptions ==
    <<"sort", "new", "upsert", "bypassDocumentValidation", "arrayFilters", "maxTimeMS", "fields",
      "collation", "hint", "let", "comment">>
CountOptions == <<"hint", "maxTimeMS", "collation", "comment">>
AggregateOptions ==
    <<"allowDiskUse", "cursor", "bypassDocumentValidation", "collation", "comment", "hint",
      "maxTimeMS", "let">>
EstimatedDocumentCountOptions == <<"maxTimeMS", "comment">>
DistinctOptions == <<"maxTimeMS", "collation", "comment", "hint">>
FindOptions ==
    <<"allowDiskUse", "allowPartialResults", "batchSize", "comment", "hint", "limit", "max",
      "maxScan", "maxTimeMS", "min", "noCursorTimeout", "projection", "returnKey",
      "showRecordId", "skip", "sort", "collation", "let">>
FindOneOptions ==
    <<"allowPartialResults", "comment", "hint", "limit", "max", "maxScan", "maxTimeMS", "min",
      "projection", "returnKey", "showRecordId", "skip", "sort", "collation", "let">>
CreateIndexOptions == <<"commitQuorum", "maxTimeMS", "comment">>
DropCollectionOptions == <<>>
DropIndexOptions == <<"maxTimeMS", "comment">>
ListIndexesOptions == <<"maxTimeMS", "comment">>
CreateCollectionOptions ==
    <<"capped", "size", "max", "storageEngine", "validator", "validationLevel",
      "validationAction", "viewOn", "pipeline", "collation", "indexOptionDefaults", "timeseries",
      "expireAfterSeconds", "changeStreamPreAndPostImages", "clusteredIndex", "comment",
      "encryptedFields">>
DropDatabaseOptions == <<>>
ListCollectionsOptions == <<"cursor", "comment", "filter", "authorizedCollections">>
ListDatabasesOptions == <<"authorizedDatabases", "comment", "filter">>
TransactionOptions == <<"maxTimeMS">>

Keys(fields) == {fields[i] : i \in DOMAIN fields}

(* append_options extends a Document, where a key replaces the earlier one *)
(* of the same name; append_options_to_raw_document refuses such a key.    *)
append_options(fields, options) ==
    fields \o SelectSeq(options, LAMBDA k : k \notin Keys(fields))

append_options_to_raw_document(fields, options) ==
    IF Keys(fields) \cap Keys(options) # {} THEN <<"error">> ELSE fields \o options

----------------------------------------------------------------------------
(* BaseOperation: what an operation does not override.                     *)

BaseOperation(name, target, body) ==
    [name |-> name, target |-> target, body |-> body, statement |-> <<>>, sel |-> NotSupported, rc |-> NotSupported,
     wc |-> NotSupported, sessions |-> TRUE, retry |-> "None", overload |-> FALSE,
     atClusterTime |-> FALSE, afterTimeWrite |-> FALSE, override |-> FALSE,
     missingOk |-> FALSE, checked |-> FALSE]

(* The defaults of is_backpressure_retryable and                           *)
(* is_after_cluster_time_write follow retryability and write_concern.      *)
Retried(op, level) == [op EXCEPT !.retry = level, !.overload = level # "None"]
Concerned(op, o) ==
    [op EXCEPT !.wc = Feature(o.wc), !.afterTimeWrite = TRUE, !.checked = TRUE]
Reading(op, o) == [op EXCEPT !.sel = Feature(o.sel), !.rc = Feature(o.rc)]
OnPrimary(op) == [op EXCEPT !.sel = "primary"]

----------------------------------------------------------------------------
(* Reads.                                                                  *)

Aggregate(target, isOutOrMerge, options, o, cl) ==
    LET op == Reading(BaseOperation("aggregate", target,
                  append_options(<<"aggregate", "pipeline", "cursor">>, options)), o)
    IN [op EXCEPT !.wc = Feature(o.wc), !.atClusterTime = TRUE, !.checked = isOutOrMerge,
                  !.override = isOutOrMerge,
                  !.retry = IF isOutOrMerge THEN "None" ELSE RetryabilityRead(cl),
                  !.overload = IF isOutOrMerge THEN cl.retryWrites ELSE cl.retryReads]

(* count_documents is an aggregation without a write concern.              *)
CountDocuments(o, cl) == Aggregate("coll", FALSE, CountOptions, [o EXCEPT !.wc = None], cl)

Count(o, cl) ==
    [Retried(Reading(BaseOperation("count", "coll",
             append_options_to_raw_document(<<"count">>, EstimatedDocumentCountOptions)), o),
             RetryabilityRead(cl)) EXCEPT !.missingOk = TRUE]

Distinct(o, cl) ==
    [Retried(Reading(BaseOperation("distinct", "coll",
             append_options_to_raw_document(<<"distinct", "key", "query">>, DistinctOptions)), o),
             RetryabilityRead(cl)) EXCEPT !.atClusterTime = TRUE]

Find(options, o, cl) ==
    [Retried(Reading(BaseOperation("find", "coll",
             append_options_to_raw_document(<<"find", "singleBatch", "tailable", "awaitData">>,
                                            options) \o <<"filter">>), o),
             RetryabilityRead(cl)) EXCEPT !.atClusterTime = TRUE]

ListCollections(cl) ==
    OnPrimary(Retried(BaseOperation("listCollections", "db",
        append_options_to_raw_document(<<"listCollections", "nameOnly">>, ListCollectionsOptions)),
        RetryabilityRead(cl)))

ListDatabases(cl) ==
    OnPrimary(Retried(BaseOperation("listDatabases", "admin",
        append_options_to_raw_document(<<"listDatabases", "nameOnly">>, ListDatabasesOptions)),
        RetryabilityRead(cl)))

ListIndexes(cl) ==
    OnPrimary(Retried(BaseOperation("listIndexes", "coll",
        append_options_to_raw_document(<<"listIndexes", "cursor">>, ListIndexesOptions)),
        RetryabilityRead(cl)))

----------------------------------------------------------------------------
(* Writes.                                                                 *)

(* ordered is always sent.                                                 *)
Insert(options, o, cl) ==
    Retried(Concerned(BaseOperation("insert", "coll",
        append_options_to_raw_document(<<"insert">>, append_options(options, <<"ordered">>))
            \o <<"documents">>), o),
        RetryabilityWrite(cl))

(* Some options of an update or delete belong to its only statement.       *)
StatementOptions == {"upsert", "arrayFilters", "hint", "collation", "sort"}
OfStatement(options) == SelectSeq(options, LAMBDA k : k \in StatementOptions)
OfCommand(options) == SelectSeq(options, LAMBDA k : k \notin StatementOptions)

Update_RetryMany(multi, options, o, cl) ==
    [Retried(Concerned(BaseOperation("update", "coll", <<"update">> \o OfCommand(options) \o <<"updates", "ordered">>), o),
        RetryabilityWrite(cl)) EXCEPT !.statement = <<"q", "u">> \o OfStatement(options) \o <<"multi">>]

Update(multi, options, o, cl) ==
    [Concerned(BaseOperation("update", "coll",
        <<"update">> \o OfCommand(options) \o <<"updates", "ordered">>), o)
        EXCEPT !.statement = <<"q", "u">> \o OfStatement(options)
                                 \o (IF multi THEN <<"multi">> ELSE <<>>),
               !.retry = IF multi THEN "None" ELSE RetryabilityWrite(cl),
               !.overload = cl.retryWrites]

(* A limit of 0 deletes every match.                                       *)
Delete(limit, o, cl) ==
    [Concerned(BaseOperation("delete", "coll",
        append_options(<<"delete", "deletes", "ordered">>, OfCommand(DeleteOptions))), o)
        EXCEPT !.statement = <<"q", "limit">> \o OfStatement(DeleteOptions),
               !.retry = IF limit = 1 THEN RetryabilityWrite(cl) ELSE "None",
               !.overload = cl.retryWrites]

FindAndModify(modification, options, o, cl) ==
    Retried(Concerned(BaseOperation("findAndModify", "coll",
        append_options_to_raw_document(<<"findAndModify", "query", modification>>,
            SelectSeq(FindAndModifyOptions, LAMBDA k : k \in Keys(options)))), o),
        RetryabilityWrite(cl))

Create(o) ==
    Concerned(BaseOperation("create", "coll",
        append_options_to_raw_document(<<"create">>, CreateCollectionOptions)), o)

CreateIndexes(o, cl) ==
    [Concerned(BaseOperation("createIndexes", "coll",
        append_options_to_raw_document(<<"createIndexes", "indexes">>, CreateIndexOptions)), o)
        EXCEPT !.overload = cl.retryWrites]

DropCollection(o) ==
    [Concerned(BaseOperation("drop", "coll",
        append_options_to_raw_document(<<"drop">>, DropCollectionOptions)), o)
        EXCEPT !.missingOk = TRUE]

DropDatabase(o) ==
    Concerned(BaseOperation("dropDatabase", "db",
        append_options_to_raw_document(<<"dropDatabase">>, DropDatabaseOptions)), o)

DropIndexes(o, cl) ==
    [Concerned(BaseOperation("dropIndexes", "coll",
        append_options_to_raw_document(<<"dropIndexes", "index">>, DropIndexOptions)), o)
        EXCEPT !.overload = cl.retryWrites]

----------------------------------------------------------------------------
(* Search indexes take no session; dropping a missing one succeeds.        *)

SearchIndex(name, body) == [BaseOperation(name, "coll", body) EXCEPT !.sessions = FALSE]
CreateSearchIndexes == SearchIndex("createSearchIndexes", <<"createSearchIndexes", "indexes">>)
UpdateSearchIndex == SearchIndex("updateSearchIndex", <<"updateSearchIndex", "name", "definition">>)
DropSearchIndex ==
    [SearchIndex("dropSearchIndex", <<"dropSearchIndex", "name">>) EXCEPT !.missingOk = TRUE]

----------------------------------------------------------------------------
(* Commands of the application, and the ends of a transaction.  A command  *)
(* that authenticates takes no session.                                    *)

RunCommand(sessions, sel, cl) ==
    [BaseOperation("run", "db", <<"run">>) EXCEPT
        !.sel = IF sel = None THEN NotSupported ELSE sel, !.sessions = sessions,
        !.atClusterTime = TRUE, !.overload = cl.retryReads /\ cl.retryWrites]

CommitTransaction(txOptions) ==
    [Concerned(BaseOperation("commitTransaction", "admin",
        append_options_to_raw_document(<<"commitTransaction">>, TransactionOptions)), txOptions)
        EXCEPT !.retry = "Write", !.overload = TRUE, !.afterTimeWrite = FALSE]

(* CommitTransaction::update_for_retry, unless the server was overloaded.  *)
commit_update_for_retry(op) ==
    IF is_set(op.wc)
    THEN [op EXCEPT !.wc = [@ EXCEPT !.w = "majority", !.wtimeout = or_else(@, "10000")]]
    ELSE [op EXCEPT !.wc = WriteConcern("majority", None, "10000")]

AbortTransaction(txOptions) ==
    [Concerned(BaseOperation("abortTransaction", "admin", <<"abortTransaction">>), txOptions)
        EXCEPT !.retry = "Write", !.overload = TRUE, !.afterTimeWrite = FALSE]
=============================================================================
