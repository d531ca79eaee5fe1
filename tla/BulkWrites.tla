----------------------------- MODULE BulkWrites -----------------------------
(***************************************************************************)
(* Collection::insert_many (action/insert_many.rs, operation/insert.rs)    *)
(* and Client::bulk_write (action/bulk_write.rs, operation/bulk_write.rs,  *)
(* error/bulk_write.rs, results/bulk_write.rs): a list of writes is cut    *)
(* into batches, each batch is one operation, which the executor may build *)
(* and send twice, and the outcomes of the batches are merged.             *)
(*                                                                         *)
(* Writes are numbered from 0, as in the code.  A write is [size, own, ns, *)
(* multi]: the bytes it takes, whether its document brings its own _id,    *)
(* its namespace and whether it is an update or delete of many documents.  *)
(***************************************************************************)
EXTENDS Integers, Sequences, FiniteSets, FiniteSetsExt, Common

CONSTANTS
    Jobs,            \* the calls considered, see WInit
    MaxOperations,   \* max_write_batch_size
    MaxMessage,      \* the bytes that fit into one message
    MaxEncrypted,    \* the bytes that fit into one encrypted command
    MaxDocument,     \* max_bson_object_size, and the limit of a first encrypted write
    MaxLost          \* bound: replies lost, before or after the command was executed

VARIABLES
    wjob,      \* the call, fixed by Init
    wstore,    \* external: the writes applied and refused, and the last transaction number seen
    wop,       \* the Insert or BulkWrite operation under way
    wpc,       \* where the loop is
    wreply,    \* the reply of the server
    wtotal,    \* n_attempted of insert_many, total_attempted of bulk_write
    wstatus,   \* the outcome so far
    wlost      \* replies lost so far: before a retry, for good, of a results cursor

wvars == <<wjob, wstore, wop, wpc, wreply, wtotal, wstatus, wlost>>

Count == Len(wjob.writes)
Write(i) == wjob.writes[i + 1]
IsInsert == wjob.kind = "insert_many"
MaxSize == IF wjob.encrypted THEN MaxEncrypted ELSE MaxMessage

\* The _id of write i in the command built for the k-th attempt to send it.
IdOf(i, k) == IF Write(i).own THEN <<i, 0>> ELSE <<i, k>>

----------------------------------------------------------------------------
(* Insert::build and BulkWrite::build: how many writes, from offset on, go *)
(* into one command.                                                       *)

Namespaces(from, to) == {Write(i).ns : i \in from..to}

\* Each new namespace adds an entry to nsInfo.
SizeOf(from, to) ==
    MapThenSumSet(LAMBDA i : Write(i).size, from..to)
        + (IF IsInsert THEN 0 ELSE Cardinality(Namespaces(from, to)))

\* Whether the write at position k of a command that begins at from fits.
\* The first write of an encrypted command may be as large as any document.
Fits(from, k) ==
    IF IsInsert
    THEN IF wjob.encrypted THEN k = 0 \/ SizeOf(from, from + k) < MaxSize
         ELSE SizeOf(from, from + k) <= MaxSize
    ELSE \/ SizeOf(from, from + k) <= MaxSize
         \/ wjob.encrypted /\ k = 0 /\ SizeOf(from, from) <= MaxDocument

BatchLength(from) ==
    CHOOSE n \in 0..Min({MaxOperations, Count - from}) :
        /\ \A k \in 0..(n - 1) : Fits(from, k)
        /\ n < Min({MaxOperations, Count - from}) => ~Fits(from, n)

\* An insert fails to build when one of the documents it looks at is too
\* large; a bulk write when not even its first write fits.
BuildFails(from) ==
    IF IsInsert
    THEN \E k \in 0..(Min({MaxOperations, Count - from}) - 1) :
            k <= BatchLength(from) /\ Write(from + k).size > MaxDocument
    ELSE BatchLength(from) = 0

----------------------------------------------------------------------------
(* The operation: n_attempted and inserted_ids are filled in by build.     *)

NewOp(offset) ==
    [offset |-> offset, n_attempted |-> 0, ids |-> {}, txn |-> offset, attempt |-> 1]

\* Insert::build clears inserted_ids and begins anew.
InsertBuild(op) ==
    LET n == BatchLength(op.offset)
    IN  [op EXCEPT !.n_attempted = n,
                   !.ids = {[at |-> i, id |-> IdOf(i, op.attempt)] : i \in op.offset..(op.offset + n - 1)}]

\* BulkWrite::build adds to n_attempted, and overwrites the inserted_ids.
BulkBuild(op) ==
    LET n == BatchLength(op.offset)
    IN  [op EXCEPT !.n_attempted = @ + n,
                   !.ids = {[at |-> i, id |-> IdOf(i, op.attempt)] : i \in op.offset..(op.offset + n - 1)}]

\* The executor builds the command; an error of build ends the operation.
WBuild ==
    /\ wpc = "build"
    /\ IF BuildFails(wop.offset)
       THEN wpc' = "failed" /\ UNCHANGED wop
       ELSE wpc' = "sent" /\ wop' = IF IsInsert THEN InsertBuild(wop) ELSE BulkBuild(wop)
    /\ UNCHANGED <<wjob, wstore, wreply, wtotal, wstatus, wlost>>

\* Retryability: a bulk write with an update or a delete of many is not retried.
Retryable ==
    /\ wjob.retry
    /\ IsInsert \/ \A i \in wop.offset..(Count - 1) : ~Write(i).multi

----------------------------------------------------------------------------
(* External: the server.  It applies the writes of a command in order and  *)
(* stops an ordered one at the first it refuses.  A command with the       *)
(* transaction number it saw last gets the answer it got then.             *)

Sent == wop.offset..(wop.offset + BatchLength(wop.offset) - 1)

Refused(i) == i \in wjob.refused

Tried == IF wjob.ordered THEN {i \in Sent : \A j \in Sent : j < i => ~Refused(j)} ELSE Sent

WServe ==
    /\ wpc = "sent"
    /\ IF wstore.txn = wop.txn
       THEN UNCHANGED wstore
       ELSE wstore' = [txn |-> wop.txn,
                       docs |-> wstore.docs \cup {e \in wop.ids : e.at \in Tried /\ ~Refused(e.at)},
                       applied |-> [i \in 0..(Count - 1) |->
                                      wstore.applied[i] + (IF i \in Tried /\ ~Refused(i) THEN 1 ELSE 0)],
                       refused |-> wstore.refused \cup {i \in Tried : Refused(i)}]
    /\ \E wce \in {FALSE, wjob.wce} :
        wreply' = [ok |-> {i - wop.offset : i \in {i \in Tried : ~Refused(i)}},
                   errors |-> {i - wop.offset : i \in {i \in Tried : Refused(i)}}, wce |-> wce]
    /\ wpc' = "reply"
    /\ UNCHANGED <<wjob, wop, wtotal, wstatus, wlost>>

\* The connection fails before or after the server executed the command: the
\* operation is retried once, when it may be.
WLose ==
    /\ wpc \in {"sent", "reply"} /\ Len(wlost) < MaxLost
    /\ wreply' = None
    /\ \/ /\ Retryable /\ wop.attempt = 1
          /\ wpc' = "build" /\ wop' = [wop EXCEPT !.attempt = 2]
          /\ wlost' = Append(wlost, "retried")
       \/ /\ ~(Retryable /\ wop.attempt = 1)
          /\ wpc' = "failed" /\ UNCHANGED wop
          /\ wlost' = Append(wlost, "failed")
    /\ UNCHANGED <<wjob, wstore, wtotal, wstatus>>

----------------------------------------------------------------------------
(* The outcome.  An error is a BulkWriteError or InsertManyError (bulk)    *)
(* with or without another error as its source, or another error.          *)

NoResult == [count |-> 0, results |-> {}]
NoError == [bulk |-> TRUE, werrs |-> {}, wce |-> FALSE, partial |-> None, source |-> FALSE]
OtherError == [NoError EXCEPT !.bulk = FALSE]

Success(r) == [tag |-> "Success", result |-> r, error |-> NoError]
Failure(e) == [tag |-> "Error", result |-> NoResult, error |-> e]
NotStarted == [tag |-> "None", result |-> NoResult, error |-> NoError]

MergeResults(a, b) == [count |-> a.count + b.count, results |-> a.results \cup b.results]
MergePartial(p, r) == IF p = None THEN r ELSE MergeResults(p, r)

MergeErrors(a, b) ==
    [a EXCEPT !.wce = @ \/ b.wce, !.werrs = @ \cup b.werrs,
              !.partial = IF b.partial = None THEN @ ELSE MergePartial(@, b.partial)]

with_success(s, r) ==
    CASE s.tag = "None" -> Success(r)
      [] s.tag = "Success" -> Success(MergeResults(s.result, r))
      [] s.tag = "Error" -> Failure([s.error EXCEPT !.partial = MergePartial(@, r)])

with_failure(s, e) ==
    CASE s.tag = "None" -> Failure(e)
      [] s.tag = "Success" ->
            Failure(IF e.bulk THEN [e EXCEPT !.partial = MergePartial(@, s.result)]
                    ELSE [NoError EXCEPT !.partial = s.result, !.source = TRUE])
      [] s.tag = "Error" ->
            Failure(IF e.bulk THEN MergeErrors(s.error, e) ELSE [s.error EXCEPT !.source = TRUE])

should_continue(s) ==
    s.tag = "Error" =>
        s.error.bulk /\ ~s.error.source /\ ~(wjob.ordered /\ s.error.werrs # {})

----------------------------------------------------------------------------
(* The replies.                                                            *)

First(n, S) == {i \in S : Cardinality({j \in S : j < i}) < n}

\* Insert::handle_response: the positions in the batch taken for inserted.
InsertedIds ==
    LET all == 0..(wop.n_attempted - 1)
    IN  IF wreply.errors # {} /\ ~wjob.ordered THEN all \ wreply.errors
        ELSE First(Cardinality(wreply.ok), all)

\* The loop of insert_many.
WInsertReply ==
    /\ IsInsert /\ wpc = "reply"
    /\ LET ids == {i + wtotal : i \in InsertedIds}
           good == wreply.errors = {} /\ ~wreply.wce
           error == [NoError EXCEPT !.werrs = {i + wtotal : i \in wreply.errors}, !.wce = wreply.wce]
           total == wtotal + Cardinality(ids) + Cardinality(wreply.errors)
       IN  /\ wstatus' = IF good THEN IF wstatus.tag = "Error" THEN wstatus
                                      ELSE with_success(wstatus, [count |-> Cardinality(ids), results |-> ids])
                         ELSE IF wstatus.tag = "Error" THEN with_failure(wstatus, error) ELSE Failure(error)
           /\ wtotal' = total
           /\ IF (~good /\ wjob.ordered) \/ total >= Count
              THEN wpc' = "done" /\ UNCHANGED wop
              ELSE wpc' = "build" /\ wop' = NewOp(total)
    /\ wreply' = None
    /\ UNCHANGED <<wjob, wstore, wlost>>

\* The documents of the results cursor, in order: only the errors, unless
\* the results are verbose.  The first comes with the reply; a getMore for
\* the rest may fail.
Listed == IF wjob.verbose THEN wreply.ok \cup wreply.errors ELSE wreply.errors
Readable == {Listed} \cup
    (IF Len(wlost) < MaxLost THEN {First(n, Listed) : n \in 1..(Cardinality(Listed) - 1)} ELSE {})

\* Mutant: the index in the batch is taken for the index in the list.
handle_individual_response_NoOffset(i) == i

handle_individual_response(i) == i + wop.offset

\* Whether one of the writes of the batch succeeded.
write_succeeded(werrs) ==
    IF wjob.ordered THEN werrs = {} \/ wop.offset \notin werrs
    ELSE Cardinality(wreply.errors) < wop.n_attempted

\* BulkWrite::handle_response_async, of the documents read.
BulkOutcome(read) ==
    LET werrs == {handle_individual_response(i) : i \in read \cap wreply.errors}
        result == [count |-> Cardinality(wreply.ok),
                   results |-> IF wjob.verbose THEN {handle_individual_response(i) : i \in read \cap wreply.ok}
                               ELSE {}]
        error == [bulk |-> TRUE, werrs |-> werrs, wce |-> wreply.wce, source |-> read # Listed,
                  partial |-> IF write_succeeded(werrs) THEN result ELSE None]
    IN  IF werrs = {} /\ ~wreply.wce /\ read = Listed THEN with_success(wstatus, result)
        ELSE with_failure(wstatus, error)

\* Mutant: only one write of a batch is counted as attempted.
NextBatch_ByOne(status) ==
    /\ wstatus' = status
    /\ wtotal' = wtotal + 1
    /\ IF wtotal' < Count /\ should_continue(status)
       THEN wpc' = "build" /\ wop' = NewOp(wtotal')
       ELSE wpc' = "done" /\ UNCHANGED wop

\* The loop of bulk_write.
NextBatch(status) ==
    /\ wstatus' = status
    /\ wtotal' = wtotal + wop.n_attempted
    /\ IF wtotal' < Count /\ should_continue(status)
       THEN wpc' = "build" /\ wop' = NewOp(wtotal')
       ELSE wpc' = "done" /\ UNCHANGED wop

WBulkReply ==
    /\ ~IsInsert /\ wpc = "reply"
    /\ \E read \in Readable :
        /\ NextBatch(BulkOutcome(read))
        /\ wlost' = IF read = Listed THEN wlost ELSE Append(wlost, "cut")
    /\ wreply' = None
    /\ UNCHANGED <<wjob, wstore>>

\* The operation has failed as a whole: insert_many returns that error.
WFailed ==
    /\ wpc = "failed"
    /\ IF IsInsert
       THEN wstatus' = Failure(OtherError) /\ wpc' = "done" /\ UNCHANGED <<wtotal, wop>>
       ELSE /\ wstatus' = with_failure(wstatus, OtherError)   \* which should_continue ends
            /\ wpc' = "done" /\ wtotal' = wtotal + wop.n_attempted /\ UNCHANGED wop
    /\ UNCHANGED <<wjob, wstore, wreply, wlost>>

----------------------------------------------------------------------------
WInit ==
    /\ wjob \in Jobs
    /\ wstore = [txn |-> -1, docs |-> {}, applied |-> [i \in 0..(Count - 1) |-> 0], refused |-> {}]
    /\ wop = NewOp(0)
    /\ wpc = "build"
    /\ wreply = None
    /\ wtotal = 0
    /\ wstatus = NotStarted
    /\ wlost = <<>>

WNext == WBuild \/ WServe \/ WLose \/ WInsertReply \/ WBulkReply \/ WFailed

WSpec == WInit /\ [][WNext]_wvars

\* Fairness: the server answers and the loop goes on.
WFairSpec == WSpec /\ WF_wvars(WNext)

----------------------------------------------------------------------------
Done == wpc = "done"
Applied == {i \in 0..(Count - 1) : wstore.applied[i] > 0}
Reached == Applied \cup wstore.refused
Lost(how) == \E i \in 1..Len(wlost) : wlost[i] = how
TopLevel == wstatus.error.source \/ ~wstatus.error.bulk

\* Batches partition the writes.  No write is applied twice, whatever replies
\* are lost: a batch begins where the one before it ended, and what is sent
\* again carries the same transaction number.  None is left out by a call that
\* returns without a top-level error, except those after the one that ended an
\* ordered call (of bulk writes no batch of which was sent twice).  An ordered
\* call applies nothing after a write the server refused, also in an earlier
\* batch (the loops of insert_many and bulk_write, should_continue).
EachWriteOnceInOrder ==
    /\ \A i \in 0..(Count - 1) : wstore.applied[i] <= 1
    /\ wjob.ordered => \A i \in wstore.refused, j \in Applied : j < i
    /\ Done /\ ~TopLevel /\ (IsInsert \/ ~Lost("retried")) =>
         IF wjob.ordered /\ wstatus.tag = "Error" /\ (wstatus.error.werrs # {} \/ IsInsert)
         THEN Reached = 0..(wtotal - 1) \/ \E i \in wstore.refused : Reached = 0..i
         ELSE Reached = 0..(Count - 1)

\* The errors returned name exactly the writes the server refused, by their
\* index in the whole list, and the counts and results those it applied;
\* a bulk write's error has a partial result exactly if a write succeeded
\* (handle_individual_response, merge, with_failure).
OutcomeIsExact ==
    LET result == IF wstatus.tag = "Success" THEN wstatus.result
                  ELSE IF wstatus.error.partial = None THEN NoResult ELSE wstatus.error.partial
    IN  Done /\ ~TopLevel /\ ~Lost("cut") =>
            /\ wstatus.error.werrs = wstore.refused
            /\ ~IsInsert \/ wstatus.tag = "Success" => result.count = Cardinality(Applied)
            /\ wjob.verbose /\ (~IsInsert \/ wstatus.tag = "Success") => result.results = Applied
            /\ ~IsInsert /\ wstatus.tag = "Error" /\ wstatus.error.bulk /\ ~Lost("retried") /\ ~Lost("failed") =>
                 (wstatus.error.partial # None <=> Applied # {})

\* What the comment on n_attempted says: it is the number of writes that were
\* sent to the server.  After a retry it is not, and as many writes as were
\* sent twice are never sent.
BulkWriteAttemptsAll ==
    Done /\ wstatus.tag = "Success" => Reached = 0..(Count - 1)

\* What BulkWriteError says: an error other than those of the writes can be
\* retrieved as its source.  It cannot when a batch before had a write error.
TopLevelErrorReported == Done /\ Lost("cut") => wstatus.error.source

\* What InsertManyResult and InsertOneResult say: the ids reported are those of
\* the documents inserted.  They need not be when the reply was lost and the
\* command built again, with new ids.
ReportedIdsAreStored ==
    wpc = "reply" => \A e \in wop.ids : e.at - wop.offset \in wreply.ok => e \in wstore.docs
=============================================================================
