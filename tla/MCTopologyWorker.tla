-------------------------- MODULE MCTopologyWorker --------------------------
(***************************************************************************)
(* Instances of TopologyWorker for TLC.                                    *)
(***************************************************************************)
EXTENDS TopologyWorker

CONSTANTS a1, a2

Tv(counter) == [process |-> 1, counter |-> counter]

Answer(type, hosts, version) ==
    [type |-> type, setName |-> "rs", hosts |-> hosts, me |-> None,
     setVersion |-> None, electionId |-> None, topologyVersion |-> version,
     sessionTimeout |-> 30, minWire |-> 0, maxWire |-> 21, clusterTime |-> None]

Seed == [hosts |-> {a1}, setName |-> "rs", direct |-> FALSE, loadBalanced |-> FALSE]

AppError(error, version, phase, oldWire) ==
    [error |-> error, version |-> version, phase |-> phase, oldWire |-> oldWire]

NoSets == {}

(* One server, two operations: every kind of error. *)
OneAddress == {a1}
OneSeed == {Seed}
OneReplies == {Answer("RsPrimary", {a1}, Tv(1)), Answer("RsPrimary", {a1}, Tv(2)),
               Answer("RsOther", {a1}, None)}
OneVersions == {None, Tv(1), Tv(2)}
OneMonitorErrors == {[error |-> "Reset", version |-> None], [error |-> "Timeout", version |-> None],
                     [error |-> "Command", version |-> Tv(1)]}
OneAppErrors ==
    {AppError("NotPrimary", Tv(1), "AfterCompletion", FALSE),
     AppError("NotPrimary", Tv(2), "AfterCompletion", TRUE),
     AppError("ShuttingDown", Tv(2), "AfterCompletion", FALSE),
     AppError("Reset", None, "AfterCompletion", FALSE),
     AppError("Timeout", None, "AfterCompletion", FALSE),
     AppError("Timeout", None, "PreHello", TRUE),
     AppError("Auth", None, "PostHello", TRUE),
     AppError("Overloaded", None, "PreHello", TRUE)}

(* Two servers that join and leave, found by SRV or by replica set members. *)
TwoAddresses == {a1, a2}
TwoSeeds == {[Seed EXCEPT !.setName = None]}
TwoVersions == {None}
TwoMonitorErrors == {[error |-> "Reset", version |-> None]}
TwoLookups == {{a1, a2}, {a2}}
SrvReplies == {[Answer("Mongos", {}, None) EXCEPT !.setName = None]}
TwoTimes == {1, 2}

(* Liveness: every answer is usable. *)
LiveReplies == {Answer("RsPrimary", {a1}, None), Answer("RsPrimary", {a1}, Tv(1))}
LiveVersions == {None, Tv(1)}
LiveAppErrors == {AppError("Reset", None, "AfterCompletion", FALSE),
                  AppError("NotPrimary", Tv(1), "AfterCompletion", FALSE)}

(* Warming: connections fail in their handshakes. *)
WarmErrors == {AppError("Reset", None, "PreHello", TRUE)}
=============================================================================
