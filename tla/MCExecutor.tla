----------------------------- MODULE MCExecutor -----------------------------
(***************************************************************************)
(* The clients and workloads Executor is checked with.                     *)
(***************************************************************************)
EXTENDS Executor

CONSTANTS t1, t2, s1, s2

Overloaded == NewError("Command", 462, {SYSTEM_OVERLOADED_ERROR, RETRYABLE_ERROR})
OverloadedNoWrites == add_label(Overloaded, NO_WRITES_PERFORMED)
NotPrimary == NewError("Command", 10107, {RETRYABLE_WRITE_ERROR, NO_WRITES_PERFORMED})

Only(t, kinds) == [u \in Tasks |-> IF u = t THEN kinds ELSE {}]

(* Two tasks that write, at a replica set that loses its primary.          *)
Retrying ==
    [topology |-> "rs", servers |-> {s1}, sessions |-> TRUE, retryWrites |-> TRUE, retryReads |-> TRUE,
     retarget |-> FALSE, maxAdaptive |-> 2, adaptive |-> FALSE, capacity |-> 2, consumeRate |-> 1,
     returnRate |-> 1, explicit |-> {}, work |-> [t \in Tasks |-> {"write"}], maxFaults |-> 2,
     rejections |-> {NotPrimary, Overloaded}, cancel |-> FALSE, maxOps |-> 1, maxLsids |-> 2,
     maxNow |-> 0]

(* One task that runs transactions by hand at two mongoses.                *)
Transactions ==
    [Retrying EXCEPT !.topology = "sharded", !.servers = {s1, s2}, !.rejections = {}, !.explicit = {t1},
                     !.work = Only(t1, {"write", "transaction"}), !.maxOps = 3, !.maxLsids = 1]

(* The same at one mongos that is overloaded now and then.                 *)
Overload == [Transactions EXCEPT !.servers = {s1}, !.rejections = {OverloadedNoWrites},
                                 !.maxOps = 2]

(* One task that uses the convenient API.                                  *)
Convenient == [Transactions EXCEPT !.work = Only(t1, {"write", "and_run"}), !.maxOps = 4]

(* Operations given up by the application, a clock that lets sessions      *)
(* expire, an empty bucket, and kinds of operations that retry less.       *)
Cancelling ==
    [Retrying EXCEPT !.servers = {s1, s2}, !.retarget = TRUE, !.adaptive = TRUE, !.capacity = 1,
                     !.work = Only(t1, {"read", "multi", "write"}), !.rejections = {Overloaded},
                     !.cancel = TRUE, !.maxOps = 2, !.maxNow = 1]

(* Deployments without retryable writes or without sessions.               *)
Standalone == [Retrying EXCEPT !.topology = "standalone", !.work = Only(t1, {"write", "read"}),
                               !.maxOps = 2]
NoSessions == [Standalone EXCEPT !.sessions = FALSE]
NoSessionsExplicit == [NoSessions EXCEPT !.explicit = {t1}]

ManyClients == {Retrying, Transactions, Overload, Convenient, Cancelling, Standalone, NoSessions, NoSessionsExplicit}

(* A long-lived session that returns to a pool that holds an expired one,  *)
(* and commits refused for overload without a word on what was written.    *)
Expiring == [Retrying EXCEPT !.explicit = {t1}, !.maxNow = 1, !.maxOps = 2, !.maxFaults = 0,
                             !.rejections = {}]
OverloadedCommits == [Overload EXCEPT !.rejections = {Overloaded}]

RefutingClients == {Expiring, Transactions, OverloadedCommits}
=============================================================================
