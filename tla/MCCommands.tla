----------------------------- MODULE MCCommands -----------------------------
(* Small configurations of the application for TLC.                        *)
EXTENDS Commands

Options(sel, rc, wc) == [sel |-> sel, rc |-> rc, wc |-> wc]
Unacknowledged == WriteConcern("0", None, None)
Majority == WriteConcern("majority", None, None)
One == WriteConcern("1", TRUE, "5")
Journaled0 == WriteConcern("0", TRUE, None)

Causal == ImplicitOptions
Snapshot == [ImplicitOptions EXCEPT !.snapshot = TRUE]

(* A client and its handles; the session, calls and transactions differ.   *)
Base ==
    [client |-> Options(None, "local", Majority), db |-> Options(None, "majority", None),
     coll |-> Options(None, None, One), retryReads |-> TRUE, retryWrites |-> TRUE, old |-> FALSE,
     sessions |-> {}, transactions |-> {}, calls |-> Calls, options |-> {NoHandle}, limit |-> 1, time |-> 1]

EveryCall ==
    [Base EXCEPT !.options = {NoHandle, Options("secondary", "available", Majority),
                              Options(None, None, Unacknowledged), Options(None, None, Journaled0)}]
UnacknowledgedClient == [Base EXCEPT !.coll = NoHandle, !.client.wc = Unacknowledged]

SecondaryOption == {NoHandle, Options("secondary", None, None)}
CausalSession ==
    [Base EXCEPT !.sessions = {Causal}, !.calls = {"find", "insert_one", "run_command"},
                 !.options = SecondaryOption, !.limit = 4, !.time = 2]

SnapshotSession ==
    [CausalSession EXCEPT !.client.rc = None, !.db.rc = None,
                      !.sessions = {Snapshot, [Snapshot EXCEPT !.snapshotTime = 1],
                                    [Snapshot EXCEPT !.causal = TRUE],
                                    [Causal EXCEPT !.snapshotTime = 1]},
                      !.calls = {"find", "distinct", "aggregate"},
                      !.transactions = {NoHandle}]
(* The collection has a read concern of its own.                           *)
SnapshotOfCollection ==
    [SnapshotSession EXCEPT !.coll.rc = "majority", !.transactions = {}, !.sessions = {Snapshot}]

Transactions ==
    [Base EXCEPT !.sessions = {[Causal EXCEPT !.defaults = Options(None, "snapshot", One)]},
                 !.transactions = {NoHandle, Options("secondary", None, None),
                                   Options("primary", "majority", WriteConcern("2", None, None)),
                                   Options(None, None, Unacknowledged),
                                   Options(None, None, Journaled0)},
                 !.calls = {"find", "insert_one", "run_command"}, !.limit = 5,
                 !.options = {NoHandle}]
ConcernInTransaction ==
    [Transactions EXCEPT !.options = {NoHandle, Options(None, "local", None), Options(None, None, One)},
                         !.calls = {"find", "insert_one"}, !.transactions = {NoHandle}, !.limit = 3]
OldServers ==
    [Base EXCEPT !.old = TRUE, !.calls = {"aggregate_out", "find", "delete_many", "run_authenticate"},
                 !.options = SecondaryOption, !.sessions = {Snapshot, Causal}, !.limit = 2]

AllConfigurations ==
    {EveryCall, [EveryCall EXCEPT !.retryReads = FALSE, !.retryWrites = FALSE],
     UnacknowledgedClient, CausalSession, SnapshotSession, Transactions, ConcernInTransaction,
     OldServers,
     [OldServers EXCEPT !.old = FALSE]}
SnapshotConfigurations == {SnapshotOfCollection}
=============================================================================
