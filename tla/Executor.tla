------------------------------ MODULE Executor ------------------------------
(***************************************************************************)
(* Executing operations: client sessions and the pool of server sessions   *)
(* (client/session.rs, client/session/pool.rs), transactions and their     *)
(* convenient API (client/session/action.rs), the retry loop               *)
(* (client/executor.rs, client/executor/retry.rs) and the bucket of retry  *)
(* tokens (client.rs).                                                     *)
(*                                                                         *)
(* A task of the application runs one operation at a time.  Between two    *)
(* awaits of an operation the other tasks, the clock, the network and the  *)
(* servers take their steps.  The servers are external: they are modelled  *)
(* by what the driver relies on, namely that a statement is executed once  *)
(* per (lsid, txnNumber), that an answer may be lost after the command was *)
(* executed, and that a command may arrive long after the driver gave up   *)
(* on it.                                                                  *)
(***************************************************************************)
EXTENDS Errors, Sequences

CONSTANTS
    Tasks,       \* tasks of the application
    Cleanup,     \* the task Drop for ClientSession spawns
    MaxOps,      \* bound: the most operations a task calls
    Clients,     \* the clients and workloads considered, see Init
    None

MAX_RW_RETRIES == 1

Ok == None   \* the error of an operation that succeeded

VARIABLES
    client,   \* options of the client and the workload, fixed by Init
    cs,       \* the ClientSession of each task, or None
    run,      \* the operation each task executes
    res,      \* the result of each task's last operation, or None
    conv,     \* the convenient transaction of each task, or None
    pool,     \* ServerSessionPool.pool, front first
    born,     \* how many server sessions have been created
    returns,  \* server sessions whose check-in has been spawned
    now,      \* the clock
    tokens,   \* Client.token_bucket
    faults,   \* how often the network or the application has failed so far
    net,      \* commands the driver no longer waits for
    sv,       \* external: what the servers know of each lsid
    applied   \* external: how often the write of an operation took effect

vars == <<client, cs, run, res, conv, pool, born, returns, now, tokens, faults, net, sv, applied>>

AllTasks == Tasks \cup {Cleanup}
OpIds == AllTasks \X (1..MaxOps)

----------------------------------------------------------------------------
(* Server sessions.  A session is about to expire when it was last used    *)
(* before the current period of the clock.                                 *)

Lsids == 1..client.maxLsids

is_about_to_expire(s) == s.last < now

NewServerSession(lsid) == [lsid |-> lsid, txn |-> 0, dirty |-> FALSE, last |-> now]

(* ServerSessionPool::check_out drops sessions from the front until one is *)
(* not about to expire, and creates one when none is left.                 *)
Usable == {i \in 1..Len(pool) : ~is_about_to_expire(pool[i])}
FirstUsable == CHOOSE i \in Usable : \A j \in Usable : i <= j

check_out_session ==
    IF Usable # {}
    THEN [session |-> pool[FirstUsable], rest |-> SubSeq(pool, FirstUsable + 1, Len(pool)),
          born |-> born]
    ELSE [session |-> NewServerSession(born + 1), rest |-> <<>>, born |-> born + 1]

CanCheckOut == Usable # {} \/ born + 1 \in Lsids

(* ServerSessionPool::check_in: the loop over the back of the pool tests   *)
(* the session being checked in, so it drops everything or nothing.        *)
check_in_session(s) ==
    IF is_about_to_expire(s) THEN <<>>
    ELSE IF s.dirty THEN pool
    ELSE <<s>> \o pool

----------------------------------------------------------------------------
(* Client sessions and their transactions.                                 *)

NoTransaction == [state |-> "None", pinned |-> None, token |-> FALSE, data |-> FALSE]

NewClientSession(ss, implicit) == [ss |-> ss, implicit |-> implicit, tx |-> NoTransaction]

TxState(t) == IF cs[t] = None THEN "None" ELSE cs[t].tx.state
in_transaction(t) == TxState(t) \in {"Starting", "InProgress"}

txStart(tx) == [tx EXCEPT !.state = "Starting", !.token = FALSE]
txCommit(tx, data) == [tx EXCEPT !.state = "Committed", !.data = data]
txAbort(tx) == [tx EXCEPT !.state = "Aborted", !.pinned = None]
txReset(tx) == NoTransaction
unpin(tx) == [tx EXCEPT !.pinned = None]

(* get_txn_number_for_operation: the number, and the server session after. *)
increment_txn_number(ss) == [ss EXCEPT !.txn = @ + 1]

get_txn_number_for_operation(s, retryability) ==
    CASE s.tx.state # "None"     -> [number |-> s.ss.txn, ss |-> s.ss]
      [] s.tx.state = "None" /\ retryability = "Write" ->
            [number |-> s.ss.txn + 1, ss |-> increment_txn_number(s.ss)]
      [] OTHER                   -> [number |-> None, ss |-> s.ss]

----------------------------------------------------------------------------
(* Retryability.                                                           *)

retryability(kind) ==
    CASE kind \in {"commit", "abort"} -> "Write"
      [] kind = "write" -> IF client.retryWrites THEN "Write" ELSE "None"
      [] kind = "read"  -> IF client.retryReads THEN "Read" ELSE "None"
      [] kind = "multi" -> "None"

is_backpressure_retryable(kind) ==
    CASE kind = "multi" -> client.retryWrites
      [] OTHER          -> retryability(kind) # "None"

can_retry_error(level, e) ==
    CASE level = "Write" -> is_write_retryable(e)
      [] level = "Read"  -> is_read_retryable(e)
      [] level = "None"  -> FALSE

is_commit_or_abort(kind) == kind \in {"commit", "abort"}

(* Client::get_retryability; writes are not retried on a standalone.       *)
get_retryability(t) ==
    CASE in_transaction(t) -> "None"
      [] ~in_transaction(t) /\ retryability(run[t].kind) = "Write" ->
            IF client.topology = "standalone" THEN "None" ELSE "Write"
      [] OTHER -> retryability(run[t].kind)

(* Error::add_labels_and_update_pin: the error with its labels ...         *)
add_labels(e, level, state) ==
    LET Label(cond, l, x) == IF cond THEN add_label(x, l) ELSE x
        write == Label(should_add_retryable_write_label(e), RETRYABLE_WRITE_ERROR, e)
    IN CASE state \in {"Starting", "InProgress"} ->
              Label(is_network_error(e) \/ is_server_selection_error(e),
                    TRANSIENT_TRANSACTION_ERROR, e)
         [] state = "Committed" ->
              Label(should_add_unknown_transaction_commit_result_label(write),
                    UNKNOWN_TRANSACTION_COMMIT_RESULT, write)
         [] state = "Aborted" -> write
         [] state = "None"    -> IF level = "Write" THEN write ELSE e

(* ... and the session, unpinned by the two labels of transactions.        *)
update_pin(s, e) ==
    IF s # None /\ ( \/ contains_label(e, TRANSIENT_TRANSACTION_ERROR)
                     \/ contains_label(e, UNKNOWN_TRANSACTION_COMMIT_RESULT) )
    THEN [s EXCEPT !.tx = unpin(@)] ELSE s

indicates_writes_by_kind(f) ==
    /\ f.phase # "ConnectionEstablishment"
    /\ is_server_error(f.error) \/ is_read_retryable(f.error) \/ is_write_retryable(f.error)

indicates_writes_performed(f) ==
    /\ f.phase # "ConnectionEstablishment"
    /\ ~contains_label(f.error, NO_WRITES_PERFORMED)
    /\ is_server_error(f.error) \/ is_read_retryable(f.error) \/ is_write_retryable(f.error)

CanRetry(kind, e, isTransactionOp) ==
    \/ /\ contains_label(e, SYSTEM_OVERLOADED_ERROR)
       /\ contains_label(e, RETRYABLE_ERROR)
       /\ is_backpressure_retryable(kind)
    \/ retryability(kind) = "Read" /\ is_pool_cleared(e)
    \/ can_retry_error(retryability(kind), e) /\ ~isTransactionOp

(* The failure a retry remembers: the earlier one only when it alone says  *)
(* that writes may have been performed.                                    *)
better_failure(retry, f) ==
    IF retry # None /\ indicates_writes_performed(retry.last) /\ ~indicates_writes_performed(f)
    THEN retry.last ELSE f

uncounted_attempt(retry) == 1
next_attempt(retry) == IF retry = None THEN 1 ELSE retry.attempt + 1

(* Retry::handle_failure: the Retry to go on with, or the error to return. *)
handle_failure(retry, f, kind, server, isTransactionOp, number) ==
    LET overloaded == contains_label(f.error, SYSTEM_OVERLOADED_ERROR)
        deprioritize == client.topology = "sharded" \/ (overloaded /\ client.retarget)
        before == IF retry = None
                  THEN [dep |-> {}, txn |-> None, max |-> MAX_RW_RETRIES]
                  ELSE [dep |-> retry.dep, txn |-> retry.txn, max |-> retry.max]
    IN IF ~CanRetry(kind, f.error, isTransactionOp)
       THEN [retry |-> None, error |-> better_failure(retry, f).error]
       ELSE [retry |-> [attempt |-> next_attempt(retry),
                        dep |-> IF deprioritize THEN before.dep \cup {server} ELSE before.dep,
                        last |-> better_failure(retry, f),
                        txn |-> IF before.txn = None THEN number ELSE before.txn,
                        overloaded |-> overloaded,
                        max |-> IF overloaded THEN client.maxAdaptive ELSE before.max],
             error |-> None]

max_retries_reached(retry) == retry.attempt > retry.max

----------------------------------------------------------------------------
(* The bucket of retry tokens, when the client has one.                    *)

consume_from_token_bucket(n) == n - client.consumeRate
deposit_success(n, isRetry) ==
    LET d == client.returnRate + IF isRetry THEN client.consumeRate ELSE 0
    IN IF n + d > client.capacity THEN client.capacity ELSE n + d
deposit_retry_error(n) ==
    IF n + client.returnRate > client.capacity THEN client.capacity ELSE n + client.returnRate

Bucket(op(_)) == IF client.adaptive THEN tokens' = op(tokens) ELSE UNCHANGED tokens

----------------------------------------------------------------------------
(* External: the servers.                                                  *)

NoServerState == [n |-> 0, stmts |-> {}, tx |-> "none", at |-> None, pend |-> {}, won |-> {}]

Error(code, labels) == NewError("Command", code, labels)
TransactionTooOld == Error(225, {})
NoSuchTransaction == Error(251, {TRANSIENT_TRANSACTION_ERROR})
AlreadyStarted == Error(117, {})

Writes(m) == IF m.kind \in {"write", "multi"} THEN {m.id} ELSE {}

Did(s, ids, reply) == [s |-> s, ids |-> ids, reply |-> reply]

(* What a server does with a command of a transaction: its new state, the  *)
(* operations whose writes take effect, and its reply.                     *)
ServeTransaction(s, m) ==
    LET same == m.txn = s.n
        here == s.at = m.to \/ m.token
    IN CASE m.txn < s.n -> Did(s, {}, TransactionTooOld)
         [] m.start ->
              IF same THEN Did(s, {}, AlreadyStarted)
              ELSE Did([s EXCEPT !.n = m.txn, !.stmts = {}, !.tx = "active", !.at = m.to,
                                 !.pend = Writes(m)], {}, Ok)
         [] m.kind = "commit" /\ same /\ s.tx = "committed" /\ here -> Did(s, {}, Ok)
         [] m.kind = "commit" /\ same /\ s.tx = "active" /\ s.at = m.to ->
              Did([s EXCEPT !.tx = "committed", !.won = @ \cup {s.n}], s.pend, Ok)
         [] m.kind \in {"commit", "abort"} /\ same /\ s.tx = "active" /\ here ->
              Did([s EXCEPT !.tx = "aborted"], {},
                  IF m.kind = "abort" THEN Ok ELSE NoSuchTransaction)
         [] m.kind \in {"read", "write", "multi"} /\ same /\ s.tx = "active" /\ s.at = m.to ->
              Did([s EXCEPT !.pend = @ \cup Writes(m)], {}, Ok)
         [] OTHER -> Did(s, {}, NoSuchTransaction)

ServeRetryable(s, m) ==
    CASE m.txn < s.n -> Did(s, {}, TransactionTooOld)
      [] m.txn = s.n /\ m.id \in s.stmts -> Did(s, {}, Ok)
      [] OTHER -> Did([s EXCEPT !.n = m.txn, !.stmts = {m.id},
                                !.tx = IF m.txn > s.n THEN "none" ELSE @,
                                !.at = None, !.pend = {}], {m.id}, Ok)

Serve(m) ==
    CASE m.lsid = None -> Did(None, Writes(m), Ok)
      [] m.lsid # None /\ m.transaction -> ServeTransaction(sv[m.lsid], m)
      [] m.lsid # None /\ ~m.transaction /\ m.txn # None -> ServeRetryable(sv[m.lsid], m)
      [] OTHER -> Did(sv[m.lsid], Writes(m), Ok)

Executed(m, d) ==
    /\ sv' = IF m.lsid = None THEN sv ELSE [sv EXCEPT ![m.lsid] = d.s]
    /\ applied' = [id \in OpIds |-> applied[id] + IF id \in d.ids THEN 1 ELSE 0]

----------------------------------------------------------------------------
(* One operation.                                                          *)

Idle(n) == [pc |-> "idle", n |-> n, kind |-> None, srv |-> None, retry |-> None,
            maj |-> FALSE, criteria |-> None, msg |-> None]

OpId(t) == <<t, run[t].n>>

Result(t, r, reply) == [kind |-> r.kind, id |-> <<t, r.n>>,
                        reply |-> IF r.kind = "abort" THEN Ok ELSE reply,
                        transaction |-> in_transaction(t)]

(* The end of execute_operation: a transaction being started is now in     *)
(* progress, whatever the result, and an implicit session is dropped.      *)
Finish(t, s, reply) ==
    /\ run' = [run EXCEPT ![t] = Idle(run[t].n)]
    /\ res' = [res EXCEPT ![t] = Result(t, run[t], reply)]
    /\ IF s # None /\ (s.implicit \/ t = Cleanup)
       THEN cs' = [cs EXCEPT ![t] = None] /\ returns' = returns \cup {s.ss}
       ELSE /\ cs' = [cs EXCEPT ![t] = IF s # None /\ s.tx.state = "Starting"
                                       THEN [s EXCEPT !.tx.state = "InProgress"] ELSE s]
            /\ UNCHANGED returns

(* execute_operation_with_details_inner: the checks before the retry loop. *)
Begin(t, s, kind, maj, criteria) ==
    LET over == \/ s # None /\ s.tx.state = "Committed" /\ kind # "commit"
                \/ s # None /\ s.tx.state = "Aborted" /\ kind # "abort"
    IN /\ run[t].n < client.maxOps
       /\ run' = [run EXCEPT ![t] = [Idle(run[t].n + 1) EXCEPT
                     !.pc = "loop", !.kind = kind, !.maj = maj, !.criteria = criteria]]
       /\ cs' = [cs EXCEPT ![t] = IF over THEN [s EXCEPT !.tx = txReset(@)] ELSE s]
       /\ res' = [res EXCEPT ![t] = None]

NoConv == [at |-> "none", first |-> 0, latest |-> 0, error |-> None]
Conversing(t) == conv[t].at # "none"

Calling(t) == run[t].pc = "idle" /\ (t \in client.explicit => cs[t] # None)
InCallback(t) == conv[t].at \in {"none", "callback"}

RunOperation(t) ==
    /\ Calling(t) /\ InCallback(t)
    /\ \E kind \in client.work[t] \cap {"write", "read", "multi"} :
          Begin(t, cs[t], kind, FALSE, None)
    /\ UNCHANGED <<client, conv, pool, born, returns, now, tokens, faults, net, sv, applied>>

(* Operation::update_for_retry: a commit sent again asks for a majority    *)
(* unless the server refused it for overload.  An abort forgets the pin it *)
(* took from the session, but the criteria were made from it before.       *)
update_for_retry(op, r) ==
    IF op.kind = "commit" THEN [op EXCEPT !.maj = @ \/ ~r.overloaded] ELSE op

(* The head of the retry loop.                                             *)
RetryLoop(t) ==
    /\ run[t].pc = "loop"
    /\ LET r == run[t].retry
           broke == r # None /\ r.overloaded /\ client.adaptive /\ tokens < client.consumeRate
       IN IF r # None /\ (max_retries_reached(r) \/ broke)
          THEN Finish(t, cs[t], r.last.error) /\ UNCHANGED tokens
          ELSE /\ run' = [run EXCEPT ![t] = [(IF r = None THEN @ ELSE update_for_retry(@, r))
                                                EXCEPT !.pc = "select"]]
               /\ IF r # None /\ r.overloaded THEN Bucket(consume_from_token_bucket)
                  ELSE UNCHANGED tokens
               /\ UNCHANGED <<cs, res, returns>>
    /\ UNCHANGED <<client, conv, pool, born, now, faults, net, sv, applied>>

(* Client::select_server: the pinned mongos of the session, else the one   *)
(* in the operation's criteria, else any server, one that did not fail before if there   *)
(* is one.                                                                 *)
Candidates(t) ==
    LET pin == IF cs[t] # None /\ cs[t].tx.pinned # None THEN cs[t].tx.pinned ELSE run[t].criteria
        fresh == client.servers \ (IF run[t].retry = None THEN {} ELSE run[t].retry.dep)
    IN CASE pin # None -> {pin}
         [] pin = None /\ fresh # {} -> fresh
         [] OTHER -> client.servers

(* External: something fails, and not more often than the bound.           *)
Fault == faults < client.maxFaults /\ faults' = faults + 1

SelectServer(t) ==
    /\ run[t].pc = "select"
    /\ \E s \in Candidates(t) : run' = [run EXCEPT ![t].pc = "connect", ![t].srv = s]
    /\ UNCHANGED <<client, cs, res, conv, pool, born, returns, now, tokens, faults, net, sv, applied>>

SelectionFails(t) ==
    /\ run[t].pc = "select" /\ Fault
    /\ LET e == add_labels(NewError("ServerSelection", NoCode, {}), "None", TxState(t))
       IN IF run[t].retry # None THEN Finish(t, cs[t], run[t].retry.last.error)
          ELSE Finish(t, update_pin(cs[t], e), e)
    /\ UNCHANGED <<client, conv, pool, born, now, tokens, net, sv, applied>>

IsTransactionOp(t) == in_transaction(t) /\ ~is_commit_or_abort(run[t].kind)

(* What a failed attempt leads to: another round of the loop or an error.  *)
Failed(t, s, e, phase, number) ==
    LET h == handle_failure(run[t].retry, [error |-> e, phase |-> phase], run[t].kind,
                            run[t].srv, IsTransactionOp(t), number)
    IN IF h.retry = None THEN Finish(t, s, h.error)
       ELSE /\ run' = [run EXCEPT ![t].pc = "loop", ![t].retry = h.retry, ![t].srv = None,
                                  ![t].msg = None]
            /\ cs' = [cs EXCEPT ![t] = s]
            /\ UNCHANGED <<res, returns>>

GetConnection(t) ==
    /\ run[t].pc = "connect"
    /\ run' = [run EXCEPT ![t].pc = "send"]
    /\ UNCHANGED <<client, cs, res, conv, pool, born, returns, now, tokens, faults, net, sv, applied>>

(* A pool that was cleared, or a connection that could not be established: *)
(* the latter carries the labels of an overloaded server.                  *)
ConnectionErrors ==
    {NewError("ConnectionPoolCleared", NoCode, {}),
     with_backpressure_labels(NewError("Io", NoCode, {}))}

ConnectionFails(t) ==
    /\ run[t].pc = "connect" /\ Fault
    /\ \E e0 \in ConnectionErrors :
          LET e == add_labels(e0, retryability(run[t].kind), TxState(t))
          IN Failed(t, update_pin(cs[t], e), e, "ConnectionEstablishment", None)
    /\ UNCHANGED <<client, conv, pool, born, now, tokens, net, sv, applied>>

(* Whether the command of a session carries a recovery token.              *)
no_recovery_token(s) == FALSE
recovery_token(s) ==
    client.topology = "sharded" /\ s.tx.state \in {"Committed", "Aborted"} /\ s.tx.token

(* The command build_command makes.                                        *)
Message(t, s, number) ==
    LET state == IF s = None THEN "None" ELSE s.tx.state
    IN [id |-> OpId(t), kind |-> run[t].kind, to |-> run[t].srv,
        lsid |-> IF s = None THEN None ELSE s.ss.lsid,
        txn |-> number, transaction |-> state # "None", start |-> state = "Starting",
        token |-> s # None /\ recovery_token(s),
        maj |-> run[t].maj, cancelled |-> FALSE]

(* From the connection to the command on the wire: the implicit session,   *)
(* the check that a retry is still allowed, the transaction number, the    *)
(* pin of a starting transaction.                                          *)
SendCommand(t) ==
    /\ run[t].pc = "send"
    /\ LET r == run[t].retry
           implicit == cs[t] = None /\ client.sessions
           level == get_retryability(t)
           stop == /\ r # None
                   /\ IF r.overloaded THEN ~is_backpressure_retryable(run[t].kind)
                      ELSE level = "None"
       IN /\ implicit => CanCheckOut
          /\ \E s \in {IF implicit THEN NewClientSession(check_out_session.session, TRUE) ELSE cs[t]} :
               LET g == get_txn_number_for_operation(s, level)
                   kept == r # None /\ r.txn # None
                   number == CASE kept -> r.txn
                               [] ~kept /\ s # None -> g.number
                               [] OTHER -> None
                   pinned == IF s # None /\ s.tx.state = "Starting" /\ client.topology = "sharded"
                             THEN run[t].srv ELSE s.tx.pinned
                   used == [(IF kept THEN s.ss ELSE g.ss) EXCEPT !.last = now]
               IN CASE cs[t] # None /\ ~client.sessions ->
                         Finish(t, cs[t], NewError("SessionsNotSupported", NoCode, {}))
                    [] ~(cs[t] # None /\ ~client.sessions) /\ stop ->
                         Finish(t, s, r.last.error)
                    [] OTHER ->
                         /\ run' = [run EXCEPT ![t].pc = "wait", ![t].msg = Message(t, s, number)]
                         /\ cs' = [cs EXCEPT ![t] = IF s = None THEN None
                                      ELSE [s EXCEPT !.ss = used, !.tx.pinned = pinned]]
                         /\ UNCHANGED <<res, returns>>
          /\ pool' = IF implicit THEN check_out_session.rest ELSE pool
          /\ born' = IF implicit THEN check_out_session.born ELSE born
    /\ UNCHANGED <<client, conv, now, tokens, faults, net, sv, applied>>

(* The answer arrives: execute_operation_on_connection marks the session,  *)
(* labels the error and keeps the recovery token, and the loop feeds the   *)
(* bucket.                                                                 *)
Answered(t, reply) ==
    IF reply = Ok
    THEN /\ Finish(t, IF in_transaction(t) /\ client.topology = "sharded"
                      THEN [cs[t] EXCEPT !.tx.token = TRUE] ELSE cs[t], Ok)
         /\ Bucket(LAMBDA n : deposit_success(n, run[t].retry # None))
    ELSE LET dirty == IF cs[t] # None /\ is_network_error(reply)
                      THEN [cs[t] EXCEPT !.ss.dirty = TRUE] ELSE cs[t]
             e == add_labels(reply, get_retryability(t), TxState(t))
         IN /\ Failed(t, update_pin(dirty, e), e, "Execution", run[t].msg.txn)
            /\ IF run[t].retry # None /\ ~contains_label(e, SYSTEM_OVERLOADED_ERROR)
               THEN Bucket(deposit_retry_error) ELSE UNCHANGED tokens

Reply(t) ==
    /\ run[t].pc = "wait"
    /\ \E d \in {Serve(run[t].msg)} :
          Executed(run[t].msg, d) /\ Answered(t, d.reply)
    /\ UNCHANGED <<client, conv, pool, born, now, faults, net>>

(* External: the server executed the write and reports that it could not   *)
(* satisfy the write concern because it is shutting down.                  *)
ReplyWriteConcernError(t) ==
    /\ run[t].pc = "wait" /\ Fault
    /\ run[t].msg.kind \in {"write", "multi", "commit"}
    /\ run[t].msg.transaction => run[t].msg.kind = "commit"
    /\ \E d \in {Serve(run[t].msg)} :
          /\ d.reply = Ok /\ Executed(run[t].msg, d)
          /\ Answered(t, NewError("WriteConcernError", 91, IF run[t].msg.txn = None THEN {}
                                                           ELSE {RETRYABLE_WRITE_ERROR}))
    /\ UNCHANGED <<client, conv, pool, born, now, net>>

(* External: the server answers with an error before executing anything.   *)
(* It calls an error retryable only if the command has a number.           *)
Reject(t) ==
    /\ run[t].pc = "wait"
    /\ \E e \in client.rejections :
          /\ run[t].msg.txn # None \/ ~is_write_retryable(e)
          /\ Answered(t, e)
    /\ UNCHANGED <<client, conv, pool, born, now, faults, net, sv, applied>>

(* External: the connection breaks.  The command may still be on its way.  *)
Disconnect(t) ==
    /\ run[t].pc = "wait" /\ Fault
    /\ net' = net \cup {run[t].msg}
    /\ Answered(t, NewError("Io", NoCode, {}))
    /\ UNCHANGED <<client, conv, pool, born, now, sv, applied>>

Deliver ==
    \E m \in net :
       /\ net' = net \ {m}
       /\ \E d \in {Serve(m)} : Executed(m, d)
       /\ UNCHANGED <<client, cs, run, res, conv, pool, born, returns, now, tokens, faults>>

(* The application drops the future of an operation it awaits (a timeout,  *)
(* a select): nothing of the operation runs any more but the destructors.  *)
Cancel(t) ==
    /\ run[t].pc # "idle" /\ client.cancel /\ Fault /\ t # Cleanup /\ ~Conversing(t)
    /\ run' = [run EXCEPT ![t] = Idle(run[t].n)]
    /\ net' = net \cup (IF run[t].pc = "wait" THEN {[run[t].msg EXCEPT !.cancelled = TRUE]} ELSE {})
    /\ IF cs[t] # None /\ cs[t].implicit
       THEN cs' = [cs EXCEPT ![t] = None] /\ returns' = returns \cup {cs[t].ss}
       ELSE UNCHANGED <<cs, returns>>
    /\ UNCHANGED <<client, res, conv, pool, born, now, tokens, sv, applied>>

----------------------------------------------------------------------------
(* Sessions and transactions.                                              *)

StartSession(t) ==
    /\ t \in client.explicit /\ cs[t] = None /\ run[t].pc = "idle" /\ run[t].n < client.maxOps
    /\ CanCheckOut
    /\ cs' = [cs EXCEPT ![t] = NewClientSession(check_out_session.session, FALSE)]
    /\ pool' = check_out_session.rest
    /\ born' = check_out_session.born
    /\ UNCHANGED <<client, run, res, conv, returns, now, tokens, faults, net, sv, applied>>

(* start_transaction_impl, for a deployment that supports transactions.    *)
start_transaction(s) == [s EXCEPT !.ss = increment_txn_number(@),
                                  !.tx = txStart(IF @.state = "Committed" THEN unpin(@) ELSE @)]

StartTransaction(t) ==
    /\ "transaction" \in client.work[t] /\ Calling(t) /\ ~Conversing(t)
    /\ cs[t].ss.txn < client.maxOps /\ ~in_transaction(t)
    /\ cs' = [cs EXCEPT ![t] = start_transaction(@)]
    /\ UNCHANGED <<client, run, res, conv, pool, born, returns, now, tokens, faults, net, sv, applied>>

(* CommitTransaction and AbortTransaction of the session's API.            *)
Answer(t, kind, reply) ==
    /\ res' = [res EXCEPT ![t] = [kind |-> kind, id |-> <<t, 0>>, reply |-> reply,
                                  transaction |-> FALSE]]
    /\ UNCHANGED run

commit_transaction(t) ==
    LET s == cs[t]
        again == s.tx.state = "Committed"
    IN CASE s.tx.state \in {"None", "Aborted"} ->
              Answer(t, "commit", NewError("Transaction", NoCode, {})) /\ UNCHANGED cs
         [] s.tx.state = "Starting" \/ (again /\ ~s.tx.data) ->
              /\ Answer(t, "commit", Ok)
              /\ cs' = [cs EXCEPT ![t].tx = txCommit(@, FALSE)]
         [] s.tx.state = "InProgress" \/ (again /\ s.tx.data) ->
              Begin(t, [s EXCEPT !.tx = txCommit(@, TRUE)], "commit", again, None)

abort_transaction(t) ==
    LET s == cs[t]
    IN CASE s.tx.state \in {"None", "Aborted", "Committed"} ->
              Answer(t, "abort", NewError("Transaction", NoCode, {})) /\ UNCHANGED cs
         [] s.tx.state = "Starting" ->
              /\ Answer(t, "abort", Ok)
              /\ cs' = [cs EXCEPT ![t].tx = txAbort(@)]
         [] s.tx.state = "InProgress" ->
              Begin(t, [s EXCEPT !.tx = txAbort(@)], "abort", FALSE, s.tx.pinned)

CommitTransaction(t) ==
    /\ "transaction" \in client.work[t] /\ Calling(t) /\ ~Conversing(t)
    /\ commit_transaction(t)
    /\ UNCHANGED <<client, conv, pool, born, returns, now, tokens, faults, net, sv, applied>>

AbortTransaction(t) ==
    /\ "transaction" \in client.work[t] /\ Calling(t) /\ ~Conversing(t)
    /\ abort_transaction(t)
    /\ UNCHANGED <<client, conv, pool, born, returns, now, tokens, faults, net, sv, applied>>

DropSession_ReturnsAlways(t) ==
    /\ t \in client.explicit /\ cs[t] # None /\ run[t].pc = "idle" /\ ~Conversing(t)
    /\ cs' = IF TxState(t) = "InProgress" THEN [cs EXCEPT ![t] = None, ![Cleanup] = cs[t]]
             ELSE [cs EXCEPT ![t] = None]
    /\ returns' = returns \cup {cs[t].ss}
    /\ UNCHANGED <<client, run, res, conv, pool, born, now, tokens, faults, net, sv, applied>>

(* Drop for ClientSession: a transaction in progress is taken over by a    *)
(* task that aborts it and then drops the session.                         *)
DropSession(t) ==
    /\ t \in client.explicit /\ cs[t] # None /\ run[t].pc = "idle" /\ ~Conversing(t)
    /\ IF TxState(t) = "InProgress"
       THEN /\ cs[Cleanup] = None /\ run[Cleanup].n < client.maxOps
            /\ cs' = [cs EXCEPT ![t] = None, ![Cleanup] = cs[t]]
            /\ UNCHANGED returns
       ELSE cs' = [cs EXCEPT ![t] = None] /\ returns' = returns \cup {cs[t].ss}
    /\ UNCHANGED <<client, run, res, conv, pool, born, now, tokens, faults, net, sv, applied>>

AbortDropped ==
    /\ cs[Cleanup] # None /\ run[Cleanup].pc = "idle"
    /\ abort_transaction(Cleanup)
    /\ UNCHANGED <<client, conv, pool, born, returns, now, tokens, faults, net, sv, applied>>

CheckIn ==
    \E s \in returns :
       /\ returns' = returns \ {s}
       /\ pool' = check_in_session(s)
       /\ UNCHANGED <<client, cs, run, res, conv, born, now, tokens, faults, net, sv, applied>>

Tick ==
    /\ now < client.maxNow /\ now' = now + 1
    /\ UNCHANGED <<client, cs, run, res, conv, pool, born, returns, tokens, faults, net, sv, applied>>

----------------------------------------------------------------------------
(* The convenient API (and_run): start, callback, abort or commit, again.  *)
(* conv[t] says where the loop is, the numbers of its first and its latest *)
(* transaction, and the error to act on after an abort.                    *)

Converse(t, at) == conv' = [conv EXCEPT ![t].at = at]

ConvStart(t) ==
    /\ "and_run" \in client.work[t] /\ Calling(t) /\ ~Conversing(t) /\ ~in_transaction(t)
    /\ run[t].n < client.maxOps
    /\ cs' = [cs EXCEPT ![t] = start_transaction(@)]
    /\ conv' = [conv EXCEPT ![t] = [at |-> "callback", first |-> cs[t].ss.txn + 1,
                                    latest |-> cs[t].ss.txn + 1, error |-> None]]
    /\ res' = [res EXCEPT ![t] = None]
    /\ UNCHANGED <<client, run, pool, born, returns, now, tokens, faults, net, sv, applied>>

InConv(t, at) == conv[t].at = at /\ run[t].pc = "idle"
OpFailed(t) == res[t] # None /\ res[t].reply # Ok

(* The callback returns what its operations returned: an error as soon as  *)
(* one of them failed.                                                     *)
ConvCallbackOk(t) ==
    /\ InConv(t, "callback") /\ ~OpFailed(t)
    /\ IF in_transaction(t)
       THEN commit_transaction(t) /\ Converse(t, "commit")
       ELSE Converse(t, "done") /\ UNCHANGED <<cs, run, res>>
    /\ UNCHANGED <<client, pool, born, returns, now, tokens, faults, net, sv, applied>>

ConvCallbackErr(t) ==
    /\ InConv(t, "callback") /\ OpFailed(t)
    /\ conv' = [conv EXCEPT ![t].at = "abort", ![t].error = res[t].reply]
    /\ IF in_transaction(t) THEN abort_transaction(t) ELSE UNCHANGED <<cs, run, res>>
    /\ UNCHANGED <<client, pool, born, returns, now, tokens, faults, net, sv, applied>>

(* Starting over, or make_timeout_error once the time is up.               *)
ConvAgain(t, e) ==
    \/ /\ cs' = [cs EXCEPT ![t] = start_transaction(@)]
       /\ conv' = [conv EXCEPT ![t].at = "callback", ![t].latest = cs[t].ss.txn + 1]
       /\ res' = [res EXCEPT ![t] = None]
    \/ /\ Converse(t, "done")
       /\ res' = [res EXCEPT ![t] = [kind |-> "and_run", id |-> <<t, 0>>, transaction |-> FALSE,
                                     reply |-> with_source(NewError("Other", NoCode, {}), e)]]
       /\ UNCHANGED cs

ConvAborted(t) ==
    /\ InConv(t, "abort")
    /\ IF contains_label(conv[t].error, TRANSIENT_TRANSACTION_ERROR)
       THEN ConvAgain(t, conv[t].error)
       ELSE /\ Converse(t, "done")
            /\ res' = [res EXCEPT ![t].reply = conv[t].error]
            /\ UNCHANGED cs
    /\ UNCHANGED <<client, run, pool, born, returns, now, tokens, faults, net, sv, applied>>

ConvCommitted(t) ==
    /\ InConv(t, "commit")
    /\ LET e == res[t].reply
       IN CASE e = Ok -> Converse(t, "done") /\ UNCHANGED <<cs, run, res>>
            [] e # Ok /\ contains_label(e, UNKNOWN_TRANSACTION_COMMIT_RESULT)
                        /\ ~is_max_time_ms_expired_error(e) ->
                 \/ commit_transaction(t) /\ UNCHANGED conv
                 \/ /\ Converse(t, "done")
                    /\ res' = [res EXCEPT ![t].reply = with_source(NewError("Other", NoCode, {}), e)]
                    /\ UNCHANGED <<cs, run>>
            [] OTHER ->
                 IF contains_label(e, TRANSIENT_TRANSACTION_ERROR)
                 THEN ConvAgain(t, e) /\ UNCHANGED run
                 ELSE Converse(t, "done") /\ UNCHANGED <<cs, run, res>>
    /\ UNCHANGED <<client, pool, born, returns, now, tokens, faults, net, sv, applied>>

----------------------------------------------------------------------------

Init ==
    /\ client \in Clients
    /\ cs = [t \in AllTasks |-> None]
    /\ run = [t \in AllTasks |-> Idle(0)]
    /\ res = [t \in AllTasks |-> None]
    /\ conv = [t \in AllTasks |-> NoConv]
    /\ pool = <<>> /\ born = 0 /\ returns = {}
    /\ now = 0
    /\ tokens = client.capacity
    /\ faults = 0
    /\ net = {}
    /\ sv = [l \in Lsids |-> NoServerState]
    /\ applied = [id \in OpIds |-> 0]

(* The steps the driver takes by itself once an operation is called.       *)
Driver(t) ==
    \/ RetryLoop(t) \/ SelectServer(t) \/ GetConnection(t) \/ SendCommand(t)
    \/ ConvAborted(t) \/ ConvCommitted(t)

Faults(t) ==
    \/ SelectionFails(t) \/ ConnectionFails(t) \/ ReplyWriteConcernError(t)
    \/ Reject(t) \/ Disconnect(t) \/ Cancel(t)

Application(t) ==
    \/ RunOperation(t) \/ StartSession(t) \/ StartTransaction(t)
    \/ CommitTransaction(t) \/ AbortTransaction(t) \/ DropSession(t)
    \/ ConvStart(t) \/ ConvCallbackOk(t) \/ ConvCallbackErr(t)

Next ==
    \/ \E t \in AllTasks : Driver(t) \/ Faults(t) \/ Reply(t)
    \/ \E t \in Tasks : Application(t)
    \/ AbortDropped \/ CheckIn \/ Deliver \/ Tick

Spec == Init /\ [][Next]_vars

(* Spawned tasks run, and an awaited answer or failure comes.              *)
FairSpec ==
    /\ Spec
    /\ \A t \in AllTasks : WF_vars(Driver(t)) /\ WF_vars(Reply(t) \/ Faults(t))
    /\ WF_vars(AbortDropped)

----------------------------------------------------------------------------

Held == {<<"task", t, cs[t].ss.lsid>> : t \in {u \in AllTasks : cs[u] # None}}
        \cup {<<"return", s, s.lsid>> : s \in returns}
        \cup {<<"pool", i, pool[i].lsid>> : i \in DOMAIN pool}

(* A server session is used by one client session at a time: no lsid is    *)
(* in two of the live sessions, the check-ins under way and the pool.      *)
ServerSessionExclusive == \A x, y \in Held : x[3] = y[3] => x = y

Claim(t) ==
    LET r == res[t]
    IN CASE r = None -> "none"
         [] r # None /\ (r.id # OpId(t) \/ run[t].pc # "idle") -> "none"
         [] OTHER ->
              CASE r.reply = Ok /\ ~r.transaction /\ r.kind \in {"write", "multi"} -> "done"
                [] r.reply # Ok /\ contains_label(r.reply, NO_WRITES_PERFORMED) -> "nothing"
                [] OTHER -> "unknown"

Promise == INSTANCE WriteOnce WITH
    Tasks <- AllTasks,
    called <- [t \in AllTasks |-> run[t].n],
    effect <- applied,
    claim <- [t \in AllTasks |-> Claim(t)]

(* Sessions, transaction numbers and retries implement WriteOnce: however  *)
(* often a command was sent and whenever the network delivers it, a write  *)
(* takes effect at most once, and an answer given to the application stays *)
(* true.                                                                   *)
ImplementsWriteOnce == Promise!Spec

(* What commit_transaction answers is true.  A commit reported done has     *)
(* committed the session's transaction.  One that failed without the label *)
(* for an unknown result, of a sharded transaction with an acknowledged    *)
(* statement (so that there is a recovery token), has not happened, and    *)
(* will not happen by a command the driver gave up on.                     *)
CommitAnswerIsTrue ==
    \A t \in Tasks :
       res[t] # None /\ res[t].kind = "commit" /\ cs[t] # None =>
         LET s == sv[cs[t].ss.lsid] IN
         /\ /\ res[t].reply = Ok /\ cs[t].tx.state = "Committed" /\ run[t].pc = "idle"
            /\ s.n = cs[t].ss.txn /\ s.pend # {}
            => s.tx = "committed"
         /\ /\ res[t].reply # Ok /\ cs[t].tx.token
            /\ ~contains_label(res[t].reply, UNKNOWN_TRANSACTION_COMMIT_RESULT)
            => cs[t].ss.txn \notin s.won

(* The convenient API commits at most one of its attempts, whatever it     *)
(* reports, and the one it reports is the last.                            *)
CommitsOneAttempt ==
    \A t \in Tasks :
       conv[t].at # "none" /\ cs[t] # None =>
         Cardinality(sv[cs[t].ss.lsid].won \cap (conv[t].first..conv[t].latest)) <= 1

(* Every operation ends, the retries run out, and the transaction of a     *)
(* session that was dropped is aborted: again and again nothing is under   *)
(* way.                                                                    *)
ComesToRest == []<>(\A t \in AllTasks : run[t].pc = "idle" /\ cs[Cleanup] = None)

(* ServerSessionPool::check_in, as its comment has it: "This method will   *)
(* also clear out any expired session from the pool before checking in".   *)
CheckInClearsExpired ==
    [][ returns' # returns /\ pool' # pool /\ returns' \subseteq returns
        => \A i \in DOMAIN pool' : ~is_about_to_expire(pool'[i]) ]_vars

(* A retried abort, as the comment in its update_for_retry has it: "The    *)
(* session must be "unpinned" before server selection for a retry".        *)
AbortRetryUnpinned ==
    \A t \in AllTasks :
       run[t].pc = "select" /\ run[t].kind = "abort" /\ run[t].retry # None
       => client.servers \ run[t].retry.dep \subseteq Candidates(t)
=============================================================================
