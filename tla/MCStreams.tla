----------------------------- MODULE MCStreams ------------------------------
(* A cursor or change stream, a GridFS bucket or a bulk write: which of    *)
(* the three machines a behaviour is about is chosen by Init, and the      *)
(* other two stay in an initial state.                                     *)
EXTENDS MCChangeStreams, MCGridFS, MCBulkWrites

VARIABLE which

streamsVars == <<which, csvars, gvars, wvars>>

StreamIdle == stream = Find /\ log = <<>> /\ CSInit
BucketIdle == gbucket = Whole(0) /\ GInit
BulkIdle == wjob = AJob /\ WInit

StreamsInit ==
    \/ which = "stream" /\ CSInit /\ BucketIdle /\ BulkIdle
    \/ which = "gridfs" /\ GInit /\ StreamIdle /\ BulkIdle
    \/ which = "bulk" /\ WInit /\ StreamIdle /\ BucketIdle

StreamsNext ==
    \/ which = "stream" /\ CSNext /\ UNCHANGED <<which, gvars, wvars>>
    \/ which = "gridfs" /\ GNext /\ UNCHANGED <<which, csvars, wvars>>
    \/ which = "bulk" /\ WNext /\ UNCHANGED <<which, csvars, gvars>>

\* The fairness of CSFairSpec, GFairSpec and WFairSpec, each for its machine.
CSChosen(A) == which = "stream" /\ A
GChosen(A) == which = "gridfs" /\ A
WChosen(A) == which = "bulk" /\ A

StreamsSpec ==
    /\ StreamsInit /\ [][StreamsNext]_streamsVars
    /\ WF_csvars(CSChosen(Open)) /\ WF_csvars(CSChosen(Call)) /\ WF_csvars(CSChosen(TryAdvance))
    /\ SF_csvars(CSChosen(GetMoreReply \/ GetMoreRefused))
    /\ SF_csvars(CSChosen(GetMoreReply /\ delivered' # delivered))
    /\ WF_csvars(CSChosen(Resume \/ ResumeFails)) /\ WF_csvars(CSChosen(KillCursor))
    /\ WF_gvars(GChosen(GServe)) /\ WF_gvars(GChosen(GPoll)) /\ WF_gvars(GChosen(GDeleteStep))
    /\ WF_wvars(WChosen(WNext))

\* What was begun is finished: every document and event arrives in the end,
\* through failed getMores and resumes; an upload that failed, was aborted or
\* dropped leaves no chunks; the loops of a bulk write or an insertMany end,
\* whatever is lost on the way.
WorkIsFinished == []<>(AllDelivered /\ AbandonedIsCleanedUp /\ (which = "bulk" => Done))
=============================================================================
