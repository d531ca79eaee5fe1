-------------------------- MODULE MCChangeStreams ---------------------------
(* Instances of ChangeStreams for TLC.                                     *)
EXTENDS ChangeStreams

Find == [kind |-> "find", for |-> "next", session |-> "implicit", lb |-> FALSE, persists |-> FALSE,
         servers |-> {Primary}, options |-> NoOptions]
FindBalanced == [Find EXCEPT !.lb = TRUE]
FindInSession == [Find EXCEPT !.session = "explicit"]
Watch == [Find EXCEPT !.kind = "watch", !.for = "any", !.servers = {Primary, Secondary}]
WatchInSession == [Watch EXCEPT !.for = "next", !.session = "explicit"]
WatchBalanced == [Watch EXCEPT !.for = "next", !.lb = TRUE, !.servers = {Primary}]

From(f, n) == [Watch EXCEPT !.options[f] = n, !.servers = {Primary}]

ManyStreams ==
    {Find, FindBalanced, FindInSession, Watch, WatchInSession, WatchBalanced,
     From("resume_after", EventToken(1)), From("start_after", EventToken(2)), From("start_at", 0)}

\* A cursor of a secondary, and an application that goes on after a stream has
\* failed.
RefutingStreams ==
    {[Find EXCEPT !.servers = {Secondary}], Watch,
     [Watch EXCEPT !.persists = TRUE, !.servers = {Primary}]}
=============================================================================
