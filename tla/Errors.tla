------------------------------- MODULE Errors -------------------------------
(***************************************************************************)
(* The errors of the driver (error.rs) as the rest of the driver tells     *)
(* them apart: what kind of error, the server's code if there is one, the  *)
(* labels, and the error it wraps, if any (a set with at most one error).  *)
(***************************************************************************)
EXTENDS Naturals, FiniteSets

RETRYABLE_READ_CODES == {11600, 11602, 10107, 13435, 13436, 189, 91, 7, 6, 89, 9001, 134, 262}
UNKNOWN_TRANSACTION_COMMIT_RESULT_LABEL_CODES == {50, 64, 91}
CURSOR_NOT_FOUND_CODE == 43

RETRYABLE_WRITE_ERROR == "RetryableWriteError"
TRANSIENT_TRANSACTION_ERROR == "TransientTransactionError"
UNKNOWN_TRANSACTION_COMMIT_RESULT == "UnknownTransactionCommitResult"
SYSTEM_OVERLOADED_ERROR == "SystemOverloadedError"
RETRYABLE_ERROR == "RetryableError"
NO_WRITES_PERFORMED == "NoWritesPerformed"
RESUMABLE_CHANGE_STREAM_ERROR == "ResumableChangeStreamError"

NoCode == 0

(* The kind "Io" is any failure of the socket but a timeout,               *)
(* "WriteConcernError" the half of ErrorKind::Write that carries a write   *)
(* concern error, "WriteError" the other half.                             *)
(* Error::new: the labels the server sent, and those of a write concern    *)
(* error, are one set.                                                     *)
NewError(kind, code, labels) ==
    [kind |-> kind, code |-> code, labels |-> labels, source |-> {}]

is_network_error(e) == e.kind \in {"Io", "IoTimedOut", "ConnectionPoolCleared"}
is_server_selection_error(e) == e.kind = "ServerSelection"
is_pool_cleared(e) == e.kind = "ConnectionPoolCleared"
is_server_error(e) ==
    e.kind \in {"Authentication", "InsertMany", "Command", "WriteConcernError", "WriteError"}

contains_label(e, label) ==
    label \in e.labels \/ \E s \in e.source : label \in s.labels

add_label(e, label) == [e EXCEPT !.labels = @ \cup {label}]

with_source(e, s) == [e EXCEPT !.source = {s}]

with_backpressure_labels(e) ==
    IF is_network_error(e)
    THEN [e EXCEPT !.labels = @ \cup {SYSTEM_OVERLOADED_ERROR, RETRYABLE_ERROR}]
    ELSE e

(* The codes of write errors are not looked at; those of a write concern   *)
(* error are, and then those of the wrapped error.                         *)
OwnCode(e) ==
    IF e.kind \in {"Command", "InsertMany", "WriteConcernError"} THEN {e.code} \ {NoCode} ELSE {}

sdam_code(e) == IF OwnCode(e) # {} THEN OwnCode(e) ELSE UNION {OwnCode(s) : s \in e.source}

HasCode(e, codes) == sdam_code(e) \cap codes # {}

is_max_time_ms_expired_error(e) == HasCode(e, {50})

is_read_retryable(e) == is_network_error(e) \/ HasCode(e, RETRYABLE_READ_CODES)
is_write_retryable(e) == contains_label(e, RETRYABLE_WRITE_ERROR)

should_add_retryable_write_label(e) == is_network_error(e)

unknown_result_by_code(e) ==
    /\ ~contains_label(e, TRANSIENT_TRANSACTION_ERROR)
    /\ HasCode(e, UNKNOWN_TRANSACTION_COMMIT_RESULT_LABEL_CODES)

should_add_unknown_transaction_commit_result_label(e) ==
    /\ ~contains_label(e, TRANSIENT_TRANSACTION_ERROR)
    /\ \/ is_network_error(e)
       \/ is_server_selection_error(e)
       \/ is_write_retryable(e)
       \/ HasCode(e, UNKNOWN_TRANSACTION_COMMIT_RESULT_LABEL_CODES)

is_resumable(e) ==
    \/ ~is_server_error(e)
    \/ HasCode(e, {CURSOR_NOT_FOUND_CODE})
    \/ contains_label(e, RESUMABLE_CHANGE_STREAM_ERROR)
=============================================================================
