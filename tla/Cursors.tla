------------------------------ MODULE Cursors -------------------------------
(***************************************************************************)
(* The client side of a server cursor: CursorState, which RawBatchCursor   *)
(* and SessionRawBatchCursor share (cursor/raw_batch.rs), and the buffer   *)
(* of documents above it (cursor/stream.rs), as operators on one record.   *)
(*                                                                         *)
(* A document is the position in the server's log where the server found   *)
(* it; a reply carries the documents of a batch, the cursor's id (0 once   *)
(* there is nothing more) and a post-batch resume token, which names the   *)
(* position the server has searched up to.                                 *)
(***************************************************************************)
EXTENDS Naturals, Sequences, Common

\* An error of a getMore, by what the driver tells apart.
CursorNotFound == [code |-> 43, network |-> FALSE, server |-> TRUE, label |-> FALSE]
CursorKilled   == [code |-> 237, network |-> FALSE, server |-> TRUE, label |-> FALSE]
Disconnected   == [code |-> None, network |-> TRUE, server |-> FALSE, label |-> FALSE]
Resumable      == [code |-> 91, network |-> FALSE, server |-> TRUE, label |-> TRUE]
Unresumable    == [code |-> 2, network |-> FALSE, server |-> TRUE, label |-> FALSE]

\* A resume token: the _id of a document, or a mere position in the log.
EventToken(p) == [pos |-> p, event |-> TRUE]
MarkToken(p)  == [pos |-> p, event |-> FALSE]

is_resumable(e) == ~e.server \/ e.code = 43 \/ e.label

----------------------------------------------------------------------------
(* PinnedConnection: "valid" and "invalid" hold a handle.                  *)

NewPin(handle) == IF handle THEN "valid" ELSE "unpinned"

invalidate(pin) == IF pin = "valid" THEN "invalid" ELSE pin

(* A reply without documents still has to be yielded.                      *)
CursorState(reply, addr, handle) ==
    [id       |-> reply.id,
     addr     |-> addr,
     exhausted |-> reply.id = 0,
     pin      |-> NewPin(handle),
     token    |-> reply.token,
     buffered |-> reply.docs,
     batch    |-> <<>>,
     provider |-> IF reply.id = 0 THEN "done" ELSE "idle",
     sess     |-> None,
     drop     |-> None]

\* An exhausted cursor drops the session it was given at once.
RawBatchCursor(reply, addr, handle, session) ==
    [CursorState(reply, addr, handle) EXCEPT !.sess = IF reply.id = 0 THEN None ELSE session]

mark_exhausted(c) == [c EXCEPT !.exhausted = TRUE, !.pin = "unpinned"]

\* An implicit session goes back to the pool with the cursor's last batch.
clear_execution(c, implicit) ==
    IF c.exhausted /\ implicit
    THEN [c EXCEPT !.provider = "done", !.sess = None]
    ELSE [c EXCEPT !.provider = "idle"]

start_execution(c) == IF c.provider = "idle" THEN [c EXCEPT !.provider = "executing"] ELSE c

\* The reply of the getMore in flight.
GetMoreOk(c, reply, implicit) ==
    LET c1 == [c EXCEPT !.buffered = reply.docs, !.token = reply.token]
        c2 == IF reply.id = 0 THEN mark_exhausted(c1) ELSE [c1 EXCEPT !.id = reply.id]
    IN  clear_execution(c2, implicit)

(* Only the codes of a cursor the server no longer has exhaust the cursor. *)
(* A network error leaves a pinned connection pinned but unusable.         *)
GetMoreErr(c, e, implicit) ==
    LET c1 == IF e.code \in {43, 237} THEN mark_exhausted(c) ELSE c
        c2 == IF e.network THEN [c1 EXCEPT !.pin = invalidate(c1.pin)] ELSE c1
    IN  clear_execution(c2, implicit)

\* poll_next_batch, when no getMore is in flight: what it does next.
PollNextBatch(c) ==
    IF c.buffered # None THEN "batch"
    ELSE IF ~c.exhausted /\ c.pin # "invalid" THEN "getMore"
    ELSE "none"

\* BatchBuffer::try_advance: the document returned last leaves the buffer.
pop_front(c) == [c EXCEPT !.batch = IF c.batch = <<>> THEN <<>> ELSE Tail(c.batch)]

\* ... and the documents of the next raw batch enter it.
Refill(c) == [c EXCEPT !.batch = c.buffered, !.buffered = None]

\* Cursor::has_next
has_next(c) == c.batch # <<>> \/ ~c.exhausted \/ c.buffered \notin {None, <<>>}

\* take_implicit_session: nothing stops the provider from starting again.
take_implicit_session(c) ==
    IF c.provider = "idle" THEN [c EXCEPT !.sess = None] ELSE c

\* Mutant: only pinned cursors are killed.
KillsIfPinned(c) == ~c.exhausted /\ c.pin = "valid"

\* Drop for RawBatchCursor and SessionRawBatchCursor
KillsOnDrop(c) == ~c.exhausted /\ c.pin # "invalid"

(* Where that killCursors goes: over the pinned connection, else to the    *)
(* address set by a resume, else to the primary: kill_cursor passes no     *)
(* other criteria and runCommand takes no default read preference.         *)
KillAddress(c, primary) ==
    IF c.pin # "unpinned" THEN c.addr
    ELSE IF c.drop # None THEN c.drop ELSE primary

\* Mutant: the token of the whole batch is used in the middle of it.
get_batch_token(c) == c.token

\* get_resume_token of change streams
get_resume_token(c) == IF c.batch # <<>> THEN EventToken(Head(c.batch)) ELSE c.token
=============================================================================
