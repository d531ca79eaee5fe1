---------------------------- MODULE ChangeStreams ---------------------------
(***************************************************************************)
(* One find cursor or change stream, from the call that opens it until it  *)
(* is dropped: its getMores, the resumes of a change stream                *)
(* (change_stream/common.rs, operation/aggregate/change_stream.rs), the    *)
(* implicit session it holds and the killCursors that are spawned for it.  *)
(*                                                                         *)
(* The servers are external.  They hold one replicated log, of which the   *)
(* stream sees the entries that match its pipeline; every cursor they open *)
(* belongs to one server and remembers how far it has searched.  A getMore *)
(* moves it forward even when its reply is lost.                           *)
(***************************************************************************)
EXTENDS Cursors, FiniteSets

CONSTANTS
    Primary, Secondary,   \* the two servers
    Streams,              \* the streams considered, see Init
    MaxLog,               \* bound: entries of the log
    MaxTrouble            \* bound: errors of the network and the servers

VARIABLES
    stream,     \* what is opened and how it is used, fixed by Init
    log,        \* external: the replicated log
    scur,       \* external: the cursors the servers have opened
    cur,        \* the cursor, or None
    data,       \* ChangeStreamData
    call,       \* what the application is waiting for
    start,      \* where in the log the stream began
    delivered,  \* the documents returned to the application
    kills,      \* killCursors commands spawned and not yet executed
    asked,      \* cursors for which a killCursors was spawned
    trouble     \* errors so far

csvars == <<stream, log, scur, cur, data, call, start, delivered, kills, asked, trouble>>

Implicit == stream.session = "implicit"

\* The entries of the log the pipeline of the stream lets through.
Visible(from, to) == {i \in (from + 1)..to : log[i] # "hidden"}

Ascending(S) ==
    CHOOSE s \in [1..Cardinality(S) -> S] : \A i, j \in 1..Cardinality(S) : i < j => s[i] < s[j]

----------------------------------------------------------------------------
(* External: the servers.                                                  *)

\* How far a command may search: two documents fit into a batch, and the
\* entry that invalidates a change stream is the last one it returns.
Reach(from) ==
    {to \in from..Len(log) :
        /\ Cardinality(Visible(from, to)) <= 2
        /\ \A i \in (from + 1)..(to - 1) : log[i] # "invalidate"}

Ends(from, to) ==
    IF stream.kind = "find" THEN to = Len(log)
    ELSE to > from /\ log[to] = "invalidate"

\* Where the cursor is after the search.
Searched(was, to) ==
    IF to = was.pos THEN was
    ELSE IF to \in Visible(was.pos, to) THEN EventToken(to) ELSE MarkToken(to)

\* The reply of a command that finds the cursor at token `was`.
Answer(id, was, to) ==
    [id    |-> IF Ends(was.pos, to) THEN 0 ELSE id,
     docs  |-> Ascending(Visible(was.pos, to)),
     token |-> IF stream.kind = "find" THEN None ELSE Searched(was, to)]

\* Entries are appended while a change stream is open.
Append1 ==
    /\ stream.kind = "watch" /\ Len(log) < MaxLog /\ cur # None /\ ~cur.exhausted
    /\ \E e \in {"visible", "hidden", "invalidate"} : log' = Append(log, e)
    /\ UNCHANGED <<stream, scur, cur, data, call, start, delivered, kills, asked, trouble>>

\* A server forgets the cursor.
CursorTimeout ==
    /\ trouble < MaxTrouble
    /\ cur # None /\ cur.id # 0 /\ scur[cur.id].open
    /\ scur' = [scur EXCEPT ![cur.id].open = FALSE]
    /\ trouble' = trouble + 1
    /\ UNCHANGED <<stream, log, cur, data, call, start, delivered, kills, asked>>

----------------------------------------------------------------------------
(* Options of $changeStream: tokens, a position as the time, or None.      *)

NoOptions == [resume_after |-> None, start_after |-> None, start_at |-> None]

\* The position from which the server begins for the options.
Begin(o) ==
    IF o.resume_after # None THEN o.resume_after
    ELSE IF o.start_after # None THEN o.start_after
    ELSE MarkToken(IF o.start_at # None THEN o.start_at
                   ELSE IF stream.kind = "find" THEN 0 ELSE Len(log))

\* A server takes one starting point, and resumes after an invalidate entry
\* only for startAfter.
Accepted(o) ==
    /\ Cardinality({f \in DOMAIN o : o[f] # None}) <= 1
    /\ o.resume_after # None =>
        (o.resume_after.event => log[o.resume_after.pos] # "invalidate")

\* Mutant: a resume repeats the options of the first call.
ResumeFromScratch(o, d) == o

\* ChangeStreamAggregate::build, for a resume
ResumeOptions(o, d) ==
    IF d.resume_token # None
    THEN IF o.start_after # None /\ ~d.document_returned
         THEN [o EXCEPT !.start_after = d.resume_token, !.start_at = None]
         ELSE [resume_after |-> d.resume_token, start_after |-> None, start_at |-> None]
    ELSE LET saved == IF o.start_at # None THEN o.start_at ELSE d.initial_operation_time
         IN  [o EXCEPT !.start_at = saved]

\* ResumeToken::initial
InitialToken(o, reply) ==
    IF reply.token # None /\ reply.docs = <<>> THEN reply.token
    ELSE IF o.start_after # None THEN o.start_after ELSE o.resume_after

\* ChangeStreamAggregate::handle_response
NewData(o, reply) ==
    [resume_token |-> InitialToken(o, reply),
     document_returned |-> FALSE,
     initial_operation_time |->
        IF o = NoOptions /\ reply.docs = <<>> /\ reply.token = None THEN Len(log) ELSE None]

\* The servers execute the aggregate or the find and open a cursor.
Opens(o, server, to) ==
    LET reply == Answer(Len(scur) + 1, Begin(o), to)
    IN  /\ scur' = Append(scur, [at |-> server, token |-> Searched(Begin(o), to), open |-> reply.id # 0])
        /\ cur' = RawBatchCursor(reply, server, stream.lb /\ reply.id # 0,
                                 IF Implicit THEN "session" ELSE None)

----------------------------------------------------------------------------
(* The application's calls.  call.for is "next" if a call loops through    *)
(* empty batches and "any" if it takes at most one request.                *)

Idle == [at |-> "idle", for |-> None]

\* execute_cursor_operation and execute_watch
Open ==
    /\ call.at = "unopened"
    /\ \E server \in stream.servers : \E to \in Reach(Begin(stream.options).pos) :
        /\ Opens(stream.options, server, to)
        /\ data' = NewData(stream.options, Answer(1, Begin(stream.options), to))
        /\ start' = Begin(stream.options).pos
    /\ call' = Idle
    /\ UNCHANGED <<stream, log, delivered, kills, asked, trouble>>

Call ==
    /\ call.at = "idle"
    /\ call' = [at |-> "advance", for |-> stream.for]
    /\ UNCHANGED <<stream, log, scur, cur, data, start, delivered, kills, asked, trouble>>

\* What next_if_any records about a successful try_advance with cursor c.
Advanced(c) ==
    /\ cur' = c
    /\ data' = [data EXCEPT !.resume_token = get_resume_token(c),
                            !.document_returned = @ \/ c.batch # <<>>]
    /\ delivered' = IF c.batch # <<>> THEN Append(delivered, Head(c.batch)) ELSE delivered

\* Mutant: the task is not woken by a getMore an earlier call has started.
RejoinAsleep(c) ==
    /\ c.batch = <<>> /\ c.provider = "executing"
    /\ cur' = c
    /\ UNCHANGED <<call, data, delivered>>

\* executing_future: a getMore started by an earlier call is still in flight.
Rejoin(c) ==
    /\ c.batch = <<>> /\ c.provider = "executing"
    /\ cur' = c
    /\ call' = [call EXCEPT !.at = "getMore"]
    /\ UNCHANGED <<data, delivered>>

\* BatchBuffer::try_advance up to its await
TryAdvance ==
    /\ call.at = "advance"
    /\ \E c \in {pop_front(cur)} :
        \/ /\ c.batch # <<>>
           /\ Advanced(c)
           /\ call' = Idle
        \/ /\ c.batch = <<>> /\ c.provider # "executing"
           /\ CASE PollNextBatch(c) = "batch" ->
                     /\ Advanced(Refill(c))
                     /\ call' = IF Refill(c).batch = <<>> /\ call.for = "next" THEN call ELSE Idle
                [] PollNextBatch(c) = "getMore" ->
                     /\ cur' = start_execution(c)
                     /\ call' = [call EXCEPT !.at = "getMore"]
                     /\ UNCHANGED <<data, delivered>>
                [] OTHER ->
                     /\ Advanced(c)
                     /\ call' = [at |-> "ended", for |-> None]
        \/ Rejoin(c)
    /\ UNCHANGED <<stream, log, scur, start, kills, asked, trouble>>

\* A getMore is answered; the next turn of poll_next_batch yields the reply.
GetMoreReply ==
    /\ call.at = "getMore" /\ scur[cur.id].open
    /\ \E to \in Reach(scur[cur.id].token.pos) :
        LET reply == Answer(cur.id, scur[cur.id].token, to)
            c == GetMoreOk(cur, reply, Implicit)
        IN  /\ scur' = [scur EXCEPT ![cur.id].token = Searched(@, to), ![cur.id].open = reply.id # 0]
            /\ Advanced(Refill(c))
            /\ call' = IF reply.docs = <<>> /\ call.for = "next"
                       THEN [call EXCEPT !.at = "advance"] ELSE Idle
    /\ UNCHANGED <<stream, log, start, kills, asked, trouble>>

\* What an error e does to the cursor and to the call.
Fails(e) ==
    /\ cur' = GetMoreErr(cur, e, Implicit)
    /\ call' = IF stream.kind = "watch" /\ is_resumable(e) THEN [call EXCEPT !.at = "resume"]
               ELSE IF stream.persists THEN Idle ELSE [at |-> "failed", for |-> None]

\* The server has forgotten the cursor, or refuses the command.
GetMoreRefused ==
    /\ call.at = "getMore"
    /\ \/ ~scur[cur.id].open /\ Fails(CursorNotFound) /\ UNCHANGED <<scur, trouble>>
       \/ /\ trouble < MaxTrouble /\ trouble' = trouble + 1
          /\ \/ /\ scur' = [scur EXCEPT ![cur.id].open = FALSE]
                /\ Fails(CursorKilled)
             \/ UNCHANGED scur /\ \E e \in {Resumable, Unresumable} : Fails(e)
    /\ UNCHANGED <<stream, log, data, start, delivered, kills, asked>>

\* The connection breaks, before or after the server has executed the getMore.
GetMoreLost ==
    /\ call.at = "getMore" /\ trouble < MaxTrouble
    /\ \/ UNCHANGED scur
       \/ /\ scur[cur.id].open
          /\ \E to \in Reach(scur[cur.id].token.pos) :
                scur' = [scur EXCEPT ![cur.id].token = Searched(@, to),
                                     ![cur.id].open = ~Ends(scur[cur.id].token.pos, to)]
    /\ Fails(Disconnected)
    /\ trouble' = trouble + 1
    /\ UNCHANGED <<stream, log, data, start, delivered, kills, asked>>

\* The future of next is dropped while its getMore is in flight.  The cursor
\* keeps the getMore, and the next call goes on with it.
Cancel ==
    /\ call.at = "getMore" /\ Implicit
    /\ call' = Idle
    /\ UNCHANGED <<stream, log, scur, cur, data, start, delivered, kills, asked, trouble>>

\* The killCursors that dropping cursor c spawns.
Spawn(c) ==
    IF KillsOnDrop(c)
    THEN /\ kills' = kills \cup {[id |-> c.id, at |-> KillAddress(c, Primary)]}
         /\ asked' = asked \cup {c.id}
    ELSE UNCHANGED <<kills, asked>>

\* execute_watch for a resume: the new cursor takes the implicit session over,
\* and the old one is killed on the server selected for the new one.
Resume ==
    /\ call.at = "resume"
    /\ \E o \in {ResumeOptions(stream.options, data)} :
        /\ Accepted(o)
        /\ \E server \in stream.servers : \E to \in Reach(Begin(o).pos) :
            /\ Opens(o, server, to)
            /\ Spawn([take_implicit_session(cur) EXCEPT !.drop = server])
    /\ call' = [call EXCEPT !.at = "advance"]
    /\ UNCHANGED <<stream, log, data, start, delivered, trouble>>

\* The aggregate of a resume fails; the session it took over is dropped.
ResumeFails ==
    /\ call.at = "resume"
    /\ trouble < MaxTrouble /\ trouble' = trouble + 1
    /\ cur' = take_implicit_session(cur)
    /\ call' = IF stream.persists THEN Idle ELSE [at |-> "failed", for |-> None]
    /\ UNCHANGED <<stream, log, scur, data, start, delivered, kills, asked>>

Drop ==
    /\ call.at \in {"idle", "getMore", "ended", "failed"}
    /\ Spawn(cur)
    /\ cur' = None
    /\ call' = [at |-> "dropped", for |-> None]
    /\ UNCHANGED <<stream, log, scur, data, start, delivered, trouble>>

\* The spawned task executes its killCursors and ignores the outcome.
KillCursor ==
    /\ \E k \in kills :
        /\ kills' = kills \ {k}
        /\ \/ scur' = [scur EXCEPT ![k.id].open = @ /\ scur[k.id].at # k.at] /\ UNCHANGED trouble
           \/ trouble < MaxTrouble /\ trouble' = trouble + 1 /\ UNCHANGED scur
    /\ UNCHANGED <<stream, log, cur, data, call, start, delivered, asked>>

----------------------------------------------------------------------------
\* A find reads a collection that is there; a change stream may begin in the
\* middle of the log, at an entry the application knows from an earlier one.
CSInit ==
    /\ stream \in Streams
    /\ log \in IF stream.kind = "find"
               THEN {[i \in 1..n |-> "visible"] : n \in 0..MaxLog}
               ELSE {<<"visible", "hidden">>, <<"visible", "invalidate">>}
    /\ scur = <<>> /\ cur = None
    /\ data = [resume_token |-> None, document_returned |-> FALSE, initial_operation_time |-> None]
    /\ call = [at |-> "unopened", for |-> None]
    /\ start = 0 /\ delivered = <<>> /\ kills = {} /\ asked = {} /\ trouble = 0

CSNext ==
    \/ Append1 \/ CursorTimeout
    \/ Open \/ Call \/ TryAdvance \/ Cancel \/ Drop
    \/ GetMoreReply \/ GetMoreRefused \/ GetMoreLost
    \/ Resume \/ ResumeFails \/ KillCursor

CSSpec == CSInit /\ [][CSNext]_csvars

\* The runtime polls what is ready, the application goes on calling next and
\* does not cancel every call, and a server that is asked again and again
\* searches further in its log.
CSFairSpec ==
    /\ CSSpec
    /\ WF_csvars(Open) /\ WF_csvars(Call) /\ WF_csvars(TryAdvance)
    /\ SF_csvars(GetMoreReply \/ GetMoreRefused)
    /\ SF_csvars(GetMoreReply /\ delivered' # delivered)
    /\ WF_csvars(Resume \/ ResumeFails) /\ WF_csvars(KillCursor)

----------------------------------------------------------------------------
(* Properties.                                                             *)

Seen == {delivered[i] : i \in DOMAIN delivered}

\* What was returned is an initial segment of the visible entries, in their
\* order: no getMore that is lost, refused or cancelled, and no resume, makes
\* the application miss a document or see one twice.  The end is reported,
\* by a call or by has_next, only after all that could ever be returned.
NoneLostOrRepeated ==
    /\ Len(delivered) > 0 => delivered = Ascending(Visible(start, delivered[Len(delivered)]))
    /\ call.at = "ended" \/ (call.at = "idle" /\ ~has_next(cur)) =>
         IF stream.kind = "find" THEN Seen = Visible(0, Len(log))
         ELSE Seen # {} /\ log[delivered[Len(delivered)]] = "invalidate"

\* resume_token(): resuming from the token of a stream at rest yields exactly
\* the entries that were not returned yet.
TokenIsUpToDate ==
    call.at = "idle" /\ stream.kind = "watch" /\ data.resume_token # None =>
        Visible(start, data.resume_token.pos) = Seen

\* A cursor that is open on a server is the one in use, or its killCursors has
\* been spawned, or the connection it was pinned to has broken.
NoCursorForgotten ==
    \A i \in DOMAIN scur : scur[i].open =>
        \/ i \in asked
        \/ cur # None /\ cur.id = i
        \/ stream.lb /\ trouble > 0

\* Every visible entry has been returned, or the stream has ended.
AllDelivered ==
    \/ call.at \in {"unopened", "ended", "failed", "dropped"}
    \/ Visible(start, Len(log)) \subseteq Seen

\* cursor.rs: a cursor that is dropped while open is closed by a killCursors.
DroppedIsClosed ==
    call.at = "dropped" /\ kills = {} /\ trouble = 0 => \A i \in DOMAIN scur : ~scur[i].open

\* test/change_stream.rs: once the last document of a batch is returned, the
\* token is the post-batch token of the reply it came in.
TokenAtBatchEnd ==
    call.at = "idle" /\ stream.kind = "watch" /\ Len(cur.batch) = 1 /\ cur.token # None =>
        data.resume_token = cur.token
=============================================================================
