------------------------------- MODULE GridFS -------------------------------
(***************************************************************************)
(* A GridFS bucket (gridfs.rs, gridfs/upload.rs, gridfs/download.rs and    *)
(* action/gridfs/): one upload stream that writes the file New, one        *)
(* download stream, and one more task that deletes, renames or drops.  All *)
(* three issue their commands one at a time; between two of them anything  *)
(* may happen to the two collections, which are external.                  *)
(*                                                                         *)
(* The k-th byte the application hands to the upload is the number k.      *)
(* A write or close whose future is dropped (GCancel) leaves the command   *)
(* it had sent with the server.                                            *)
(***************************************************************************)
EXTENDS Integers, Sequences, SequencesExt, FiniteSets, FiniteSetsExt

CONSTANTS
    New, Old,       \* the file uploaded, and a file of the bucket
    ChunkSize,      \* chunk_size_bytes
    Buckets,        \* the buckets considered: collections, and who uses them
    Careless,       \* whether a write may follow a cancelled one with other bytes
    MaxFailures     \* bound: commands that fail

VARIABLES
    gbucket,     \* external: files, chunks, indexes; fixed by Init: the bytes of Old, whether
                 \* it is intact, a bound on the bytes uploaded, and who else uses the bucket
    gcreated,    \* GridFsBucketInner::created_indexes
    gup,         \* the GridFsUploadStream and the call under way
    glate,       \* commands whose future was dropped before the reply
    gdown,       \* the GridFsDownloadStream and the call under way
    gtask,       \* the other task
    gfailures    \* failures so far

gvars == <<gbucket, gcreated, gup, glate, gdown, gtask, gfailures>>

----------------------------------------------------------------------------
(* FilesCollectionDocument.                                                *)

n_from_vals(length) ==
    length \div ChunkSize + (IF length % ChunkSize = 0 THEN 0 ELSE 1)

expected_chunk_length_from_vals(length, n) ==
    IF n = n_from_vals(length) - 1 /\ length % ChunkSize # 0 THEN length % ChunkSize ELSE ChunkSize

File(id, name, length, date) == [id |-> id, name |-> name, length |-> length, date |-> date]

\* The full chunks of buffer, numbered from n.
FullChunks(id, buffer, n) ==
    {[id |-> id, n |-> n + i, data |-> SubSeq(buffer, i * ChunkSize + 1, (i + 1) * ChunkSize)] :
        i \in 0..(Len(buffer) \div ChunkSize - 1)}

Leftover(buffer) == SubSeq(buffer, (Len(buffer) \div ChunkSize) * ChunkSize + 1, Len(buffer))

FinalChunk(id, buffer, length) ==
    IF buffer = <<>> THEN {} ELSE {[id |-> id, n |-> n_from_vals(length) - 1, data |-> buffer]}

ChunksOf(id) == {c \in gbucket.chunks : c.id = id}
HasFile(id) == \E f \in gbucket.files : f.id = id

\* How a file with these bytes is stored.
Stored(id, bytes) ==
    FullChunks(id, bytes, 0) \cup FinalChunk(id, Leftover(bytes), Len(bytes))

----------------------------------------------------------------------------
(* External: a command of one of the streams or tasks at the servers.  It  *)
(* may fail, before or after it took effect.                               *)

Effects(cmd) ==
    CASE cmd.op = "insert_chunks" ->
            {[gbucket EXCEPT !.chunks = @ \cup cmd.chunks]}
      [] cmd.op = "insert_file" -> {[gbucket EXCEPT !.files = @ \cup {cmd.file}]}
      [] cmd.op = "delete_chunks" -> {[gbucket EXCEPT !.chunks = {c \in @ : c.id \notin cmd.ids}]}
      [] cmd.op = "delete_files" -> {[gbucket EXCEPT !.files = {f \in @ : f.id \notin cmd.ids}]}
      [] cmd.op = "create_index" -> {[gbucket EXCEPT !.indexes = @ \cup {cmd.on}]}
      [] OTHER -> {gbucket}

\* An ordered insert_many that fails may have inserted some of the chunks.
PartialEffects(cmd) ==
    {gbucket} \cup Effects(cmd) \cup
    (IF cmd.op = "insert_chunks"
     THEN {[gbucket EXCEPT !.chunks = @ \cup {c \in cmd.chunks : c.n < k}] : k \in {c.n : c \in cmd.chunks}}
     ELSE {})

InsertChunks(chunks) == [op |-> "insert_chunks", chunks |-> chunks]
InsertFile(file) == [op |-> "insert_file", file |-> file]
DeleteChunks(ids) == [op |-> "delete_chunks", ids |-> ids]
DeleteFiles(ids) == [op |-> "delete_files", ids |-> ids]
CreateIndex(on) == [op |-> "create_index", on |-> on]
FindOne == [op |-> "find_one"]
NoCommand == [op |-> "none"]

----------------------------------------------------------------------------
(* The upload stream.  cmd is the command its future (or abort's) waits    *)
(* for, reply what the server said; call is the call that polls it.        *)

NewUpload ==
    [state |-> "Idle", buffer |-> <<>>, n |-> 0, cmd |-> NoCommand, reply |-> "none",
     call |-> "none", bytes |-> <<>>, fed |-> 0, written |-> <<>>, file |-> File(New, "a", 0, 2),
     error |-> FALSE, result |-> "open", dirty |-> FALSE, left |-> FALSE]

Fresh(k) == [i \in 1..k |-> gup.fed + i]

\* The first command of write_bytes: create_indexes, unless it is known to be done.
write_bytes(u) ==
    [u EXCEPT !.state = "Writing",
              !.cmd = IF gcreated THEN InsertChunks(FullChunks(New, u.buffer, u.n)) ELSE FindOne]

\* poll_write with the bytes bs.
poll_write(u, bs) ==
    CASE u.state = "Idle" /\ Len(u.buffer \o bs) < ChunkSize ->
            [u EXCEPT !.buffer = @ \o bs, !.written = @ \o bs]
      [] u.state = "Idle" /\ Len(u.buffer \o bs) >= ChunkSize ->
            write_bytes([u EXCEPT !.buffer = @ \o bs, !.call = "write", !.bytes = bs])
      [] u.state = "Writing" -> [u EXCEPT !.call = "write", !.bytes = bs]
      [] OTHER -> u

GWrite ==
    /\ gup.call = "none" /\ gup.result = "open" /\ gup.state # "Closing"
    /\ \E k \in {1, 3} :
        \E bs \in {IF gup.state = "Writing" /\ ~Careless THEN gup.bytes ELSE Fresh(k)} :
          \E fed \in {IF bs = gup.bytes THEN gup.fed ELSE gup.fed + k} :
            /\ fed <= gbucket.bytes
            /\ gup' = poll_write([gup EXCEPT !.fed = fed], bs)
    /\ UNCHANGED <<gbucket, gcreated, glate, gdown, gtask, gfailures>>

\* Mutant: the file is inserted before the last chunk.
close_FileFirst(u) ==
    [u EXCEPT !.state = "Closing", !.call = "close",
              !.file = File(New, "a", u.n * ChunkSize + Len(u.buffer), 2),
              !.cmd = InsertFile(File(New, "a", u.n * ChunkSize + Len(u.buffer), 2))]

\* close(): the last, shorter chunk, and then the file.
close(u) ==
    LET file == File(New, "a", u.n * ChunkSize + Len(u.buffer), 2)
    IN  [u EXCEPT !.state = "Closing", !.call = "close", !.file = file,
                  !.cmd = IF u.buffer = <<>> THEN InsertFile(file)
                          ELSE InsertChunks(FinalChunk(New, u.buffer, file.length))]

\* The command a dropped future leaves behind.
Abandoned(u) == IF u.cmd # NoCommand /\ u.reply = "none" THEN {u.cmd} ELSE {}

\* The future of the stream, if there is one, is replaced by the clean-up.
clean_up_chunks(u) ==
    [u EXCEPT !.cmd = DeleteChunks({New}), !.reply = "none", !.left = @ \/ Abandoned(u) # {}]

GClose ==
    /\ gup.call = "none" /\ gup.result = "open"
    /\ CASE gup.state = "Idle" -> gup' = close(gup) /\ UNCHANGED glate
         [] gup.state = "Writing" ->   \* WriteInProgress
                /\ gup' = clean_up_chunks([gup EXCEPT !.state = "Closing", !.call = "close",
                                                      !.error = TRUE])
                /\ glate' = glate \cup Abandoned(gup)
         [] gup.state = "Closing" -> gup' = [gup EXCEPT !.call = "close"] /\ UNCHANGED glate
    /\ UNCHANGED <<gbucket, gcreated, gdown, gtask, gfailures>>

GAbort ==
    /\ gup.call = "none" /\ gup.result = "open"
    /\ gup' = clean_up_chunks([gup EXCEPT !.state = "Closed", !.call = "abort",
                                              !.result = "aborted"])
    /\ glate' = glate \cup Abandoned(gup)
    /\ UNCHANGED <<gbucket, gcreated, gdown, gtask, gfailures>>

\* Drop of a stream that is not Closed spawns the clean-up.
GDrop ==
    /\ gup.call = "none" /\ gup.result = "open"
    /\ gup' = clean_up_chunks([gup EXCEPT !.state = "Closed", !.call = "drop", !.result = "dropped"])
    /\ glate' = glate \cup Abandoned(gup)
    /\ UNCHANGED <<gbucket, gcreated, gdown, gtask, gfailures>>

\* The application drops the future of a write, a close or an abort.  What
\* abort had left to do is not done by anyone else: the stream is Closed.
GCancel ==
    /\ gup.call \in {"write", "close", "abort"}
    /\ gup' = IF gup.call = "abort"
              THEN [gup EXCEPT !.call = "none", !.result = "abandoned", !.dirty = TRUE,
                               !.cmd = NoCommand, !.reply = "none"]
              ELSE [gup EXCEPT !.call = "none"]
    /\ glate' = glate \cup (IF gup.call = "abort" THEN Abandoned(gup) ELSE {})
    /\ UNCHANGED <<gbucket, gcreated, gdown, gtask, gfailures>>

\* The servers execute the command of the upload.
GServe ==
    /\ gup.cmd # NoCommand /\ gup.reply = "none"
    /\ \/ /\ gbucket' \in Effects(gup.cmd)
          /\ gup' = [gup EXCEPT !.reply = IF gup.cmd = FindOne /\ gbucket.files = {} THEN "empty" ELSE "ok"]
          /\ UNCHANGED gfailures
       \/ /\ gfailures < MaxFailures
          /\ gbucket' \in PartialEffects(gup.cmd)
          /\ gup' = [gup EXCEPT !.reply = "err"]
          /\ gfailures' = gfailures + 1
    /\ UNCHANGED <<gcreated, glate, gdown, gtask>>

Send(u, cmd) == [u EXCEPT !.cmd = cmd, !.reply = "none"]
Finish(u, state) == [Send(u, NoCommand) EXCEPT !.state = state, !.call = "none"]

\* create_indexes has found, or created, the indexes.
IndexesDone == gup.reply = "ok" /\ gup.cmd \in {FindOne, CreateIndex("chunks")}

create_indexes ==
    /\ gup.reply # "err" /\ gup.cmd.op \in {"find_one", "create_index"}
    /\ gcreated' = IndexesDone
    /\ gup' = Send(gup, IF IndexesDone THEN InsertChunks(FullChunks(New, gup.buffer, gup.n))
                        ELSE IF gup.cmd = FindOne THEN CreateIndex("files") ELSE CreateIndex("chunks"))

\* insert_many has succeeded: poll_write returns the length of the bytes it
\* was polled with, whatever bytes the future was created for.
WriteDone ==
    /\ gup.reply = "ok" /\ gup.cmd.op = "insert_chunks" /\ gup.state = "Writing"
    /\ gup' = [Finish(gup, "Idle") EXCEPT !.n = @ + Len(gup.buffer) \div ChunkSize,
                                          !.buffer = Leftover(@),
                                          !.written = @ \o gup.bytes, !.bytes = <<>>]

CloseStep ==
    /\ gup.reply = "ok" /\ gup.state = "Closing"
    /\ \/ gup.cmd.op = "insert_chunks" /\ gup' = Send(gup, InsertFile(gup.file))
       \/ gup.cmd.op = "insert_file" /\ gup' = [Finish(gup, "Closed") EXCEPT !.result = "ok"]

\* An insert has failed: clean up and return the error.  An error of
\* create_indexes is returned as it is: nothing was written yet.
Failed ==
    /\ gup.reply = "err" /\ gup.cmd.op # "delete_chunks"
    /\ gup' = IF gup.cmd.op \in {"find_one", "create_index"}
              THEN [Finish(gup, "Closed") EXCEPT !.error = TRUE, !.result = "err"]
              ELSE clean_up_chunks([gup EXCEPT !.error = TRUE])

CleanedUp ==
    /\ gup.reply # "none" /\ gup.cmd.op = "delete_chunks"
    /\ gup' = [Finish(gup, "Closed") EXCEPT
                 !.dirty = @ \/ gup.reply = "err",
                 !.result = IF gup.call # "drop" /\ (gup.error \/ gup.reply = "err") THEN "err" ELSE @]

\* The call under way polls the future, whose command has been answered.
GPoll ==
    /\ gup.call # "none" /\ gup.reply # "none"
    /\ \/ create_indexes
       \/ (WriteDone \/ CloseStep \/ Failed \/ CleanedUp) /\ UNCHANGED gcreated
    /\ UNCHANGED <<gbucket, glate, gdown, gtask, gfailures>>

\* A command whose future was dropped is executed, or was never sent.
GLate ==
    \E cmd \in glate :
        /\ glate' = glate \ {cmd}
        /\ gbucket' \in Effects(cmd) \cup {gbucket}
        /\ UNCHANGED <<gcreated, gup, gdown, gtask, gfailures>>

----------------------------------------------------------------------------
(* The download stream.  The cursor over the chunks is [last, batch, done]:*)
(* the number of the last chunk it returned, the reply it has buffered and *)
(* whether it is exhausted.                                                *)

NoDownload ==
    [state |-> "none", id |-> New, length |-> 0, buffer |-> <<>>, n |-> 0, size |-> 0, want |-> 0,
     last |-> -1, batch |-> <<>>, buffered |-> FALSE, exhausted |-> FALSE, got |-> <<>>, ended |-> "no"]

\* External: the next chunks a cursor that has returned chunk last finds, at
\* most two of them.
After(id, last) ==
    SetToSortSeq({c \in ChunksOf(id) : c.n > last}, LAMBDA a, b : a.n < b.n)

Batches(id, last) ==
    LET rest == After(id, last)
    IN  {[docs |-> SubSeq(rest, 1, p[1]), exhausted |-> p[2]] :
            p \in {p \in (0..Min({2, Len(rest)})) \X BOOLEAN :
                     (p[2] => p[1] = Len(rest)) /\ (p[1] = 0 => p[2])}}

LastOf(docs, last) == IF docs = <<>> THEN last ELSE Last(docs).n

\* find_file_by_name: the revision-th oldest, or from -1 the newest on.
find_file_by_name(name, revision) ==
    LET named == {f \in gbucket.files : f.name = name}
        sorted == SetToSortSeq(named, LAMBDA a, b : IF revision >= 0 THEN a.date < b.date
                                                    ELSE a.date > b.date)
        skip == IF revision >= 0 THEN revision ELSE -revision - 1
    IN  IF skip < Len(sorted) THEN {sorted[skip + 1]} ELSE {}

find_file_by_id(id) == {f \in gbucket.files : f.id = id}

\* Open a stream on a file that was found; new() sends the find for its
\* chunks in the same step only when the file is not empty.
GOpenDownload ==
    /\ gdown.state = "none" /\ "download" \in gbucket.users
    /\ \E file \in find_file_by_id(New) \cup find_file_by_id(Old)
                       \cup UNION {find_file_by_name("a", r) : r \in {-2, -1, 0, 1}} :
        \/ /\ file.length = 0
           /\ gdown' = [gdown EXCEPT !.state = "Done", !.id = file.id]
        \/ /\ file.length > 0
           /\ gdown' = [gdown EXCEPT !.state = "Opening", !.id = file.id, !.length = file.length]
    /\ UNCHANGED <<gbucket, gcreated, gup, glate, gtask, gfailures>>

\* The servers answer the find for the chunks.
GOpened ==
    /\ gdown.state = "Opening"
    /\ \E reply \in Batches(gdown.id, -1) :
        gdown' = [gdown EXCEPT !.state = "Idle", !.batch = reply.docs, !.buffered = TRUE,
                               !.exhausted = reply.exhausted, !.last = LastOf(reply.docs, -1)]
    /\ UNCHANGED <<gbucket, gcreated, gup, glate, gtask, gfailures>>

\* The end of poll_read: copy what fits; when nothing can follow, the number
\* of chunks must be the file's.  A read of no bytes is the end of the file.
Deliver(d, k) ==
    LET bytes == SubSeq(d.buffer, 1, k)
        rest == SubSeq(d.buffer, k + 1, Len(d.buffer))
        more == rest # <<>> \/ ~d.exhausted \/ (d.buffered /\ d.batch # <<>>)
        missing == ~more /\ d.n # n_from_vals(d.length)
    IN  [d EXCEPT !.buffer = rest, !.want = 0, !.state = IF more THEN "Idle" ELSE "Done",
                  !.got = IF missing THEN @ ELSE @ \o bytes,
                  !.ended = IF missing THEN "error" ELSE IF bytes = <<>> THEN "eof" ELSE @]

\* poll_read with a buffer of k bytes.
poll_read(d, k) ==
    CASE d.state = "Done" -> [d EXCEPT !.ended = "eof"]
      [] d.state = "Idle" /\ d.buffer # <<>> -> Deliver(d, Min({k, Len(d.buffer)}))
      [] d.state = "Idle" /\ d.buffer = <<>> -> [d EXCEPT !.state = "Busy", !.size = k, !.want = k]
      [] d.state = "Busy" -> [d EXCEPT !.want = k]

GRead ==
    /\ gdown.state \in {"Idle", "Busy", "Done"} /\ gdown.want = 0 /\ gdown.ended = "no"
    /\ \E k \in {1, 3} : gdown' = poll_read(gdown, k)
    /\ UNCHANGED <<gbucket, gcreated, gup, glate, gtask, gfailures>>

\* Mutant: the numbers of the chunks are not compared.
InSequence_SizesOnly(d, docs) ==
    \A i \in 1..Len(docs) : Len(docs[i].data) = expected_chunk_length_from_vals(d.length, d.n + i - 1)

\* The chunks of a batch are the next ones and have the right sizes.
InSequence(d, docs) ==
    \A i \in 1..Len(docs) :
        /\ docs[i].n = d.n + i - 1
        /\ Len(docs[i].data) = expected_chunk_length_from_vals(d.length, d.n + i - 1)

\* One round of the loop of get_bytes.
Taken(d, docs) ==
    IF InSequence(d, docs)
    THEN [d EXCEPT !.buffer = FoldLeft(LAMBDA b, c : b \o c.data, @, docs), !.n = @ + Len(docs)]
    ELSE [d EXCEPT !.state = "Done", !.want = 0, !.ended = "error"]

Polled == gdown.state = "Busy" /\ gdown.want > 0
CursorEnded == gdown.exhausted /\ ~gdown.buffered

\* get_bytes takes the buffered batch, or the servers answer a getMore.
GFetch ==
    /\ Polled /\ Len(gdown.buffer) < gdown.size /\ ~CursorEnded
    /\ \/ /\ gdown.buffered
          /\ gdown' = Taken([gdown EXCEPT !.buffered = FALSE], gdown.batch)
          /\ UNCHANGED gfailures
       \/ /\ ~gdown.buffered
          /\ \E reply \in Batches(gdown.id, gdown.last) :
                gdown' = Taken([gdown EXCEPT !.exhausted = reply.exhausted,
                                             !.last = LastOf(reply.docs, @)],
                               reply.docs)
          /\ UNCHANGED gfailures
       \/ /\ ~gdown.buffered /\ gfailures < MaxFailures
          /\ gdown' = [gdown EXCEPT !.state = "Done", !.want = 0, !.ended = "error"]
          /\ gfailures' = gfailures + 1
    /\ UNCHANGED <<gbucket, gcreated, gup, glate, gtask>>

GReadDone ==
    /\ Polled /\ (Len(gdown.buffer) >= gdown.size \/ CursorEnded)
    /\ gdown' = Deliver(gdown, Min({gdown.want, Len(gdown.buffer)}))
    /\ UNCHANGED <<gbucket, gcreated, gup, glate, gtask, gfailures>>

GCancelRead ==
    /\ Polled
    /\ gdown' = [gdown EXCEPT !.want = 0]
    /\ UNCHANGED <<gbucket, gcreated, gup, glate, gtask, gfailures>>

----------------------------------------------------------------------------
(* The other task: it acts on files it has seen in the bucket.             *)

NoTask == [op |-> "none", ids |-> {}]

GRename ==
    /\ gtask = NoTask /\ "task" \in gbucket.users
    /\ \E id \in {New, Old} :   \* rename, and rename_by_name, which renames both
        /\ HasFile(id)
        /\ \E ids \in {{id}, {f.id : f \in {f \in gbucket.files : f.name = "a"}}} :
            gbucket' = [gbucket EXCEPT !.files = {IF f.id \in ids THEN [f EXCEPT !.name = "b"] ELSE f : f \in @}]
    /\ gtask' = [gtask EXCEPT !.op = "done"]
    /\ UNCHANGED <<gcreated, gup, glate, gdown, gfailures>>

\* delete(id), the find of delete_by_name, and drop() once the upload is over.
GDelete ==
    /\ gtask = NoTask /\ "task" \in gbucket.users
    /\ \/ \E f \in gbucket.files : gtask' = [op |-> "files", ids |-> {f.id}]
       \/ gtask' = [op |-> "files", ids |-> {f.id : f \in {f \in gbucket.files : f.name = "a"}}]
       \/ gup.state = "Closed" /\ gup.cmd = NoCommand /\ gtask' = [op |-> "files", ids |-> {New, Old}]
    /\ UNCHANGED <<gbucket, gcreated, gup, glate, gdown, gfailures>>

\* The files first, and then the chunks; an error of either ends the task.
GDeleteStep ==
    /\ gtask.op \in {"files", "chunks"}
    /\ \/ /\ gbucket' \in Effects(IF gtask.op = "files" THEN DeleteFiles(gtask.ids) ELSE DeleteChunks(gtask.ids))
          /\ gtask' = [gtask EXCEPT !.op = IF @ = "files" THEN "chunks" ELSE "done"]
          /\ UNCHANGED gfailures
       \/ /\ gfailures < MaxFailures
          /\ gtask' = [gtask EXCEPT !.op = "failed"]
          /\ gfailures' = gfailures + 1
          /\ UNCHANGED gbucket
    /\ UNCHANGED <<gcreated, gup, glate, gdown>>

----------------------------------------------------------------------------
GInit ==
    /\ gbucket \in Buckets
    /\ gcreated = FALSE
    /\ gup = [NewUpload EXCEPT !.result = IF gbucket.bytes > 0 THEN "open" ELSE "unused"]
    /\ glate = {}
    /\ gdown = NoDownload
    /\ gtask = NoTask
    /\ gfailures = 0

GNext ==
    \/ GWrite \/ GClose \/ GAbort \/ GDrop \/ GCancel \/ GServe \/ GPoll \/ GLate
    \/ GOpenDownload \/ GOpened \/ GRead \/ GFetch \/ GReadDone \/ GCancelRead
    \/ GRename \/ GDelete \/ GDeleteStep

GSpec == GInit /\ [][GNext]_gvars

\* Fairness: the servers answer, and a spawned clean-up is polled.
GFairSpec == GSpec /\ WF_gvars(GServe) /\ WF_gvars(GPoll) /\ WF_gvars(GDeleteStep)

----------------------------------------------------------------------------
(* Properties.                                                             *)

\* A file that close has not failed to write is in the files collection only
\* together with all of its chunks, of the right numbers and sizes, holding
\* exactly the bytes for which the writes returned Ok - also while a delete
\* or a download is under way (upload.rs: close, write_bytes; delete.rs).
VisibleFileIsComplete ==
    \A f \in gbucket.files :
        IF f.id = New
        THEN ~gup.error /\ gup.result \in {"open", "ok"} =>
                f.length = Len(gup.written) /\ ChunksOf(New) = Stored(New, gup.written)
        ELSE gbucket.intact => ChunksOf(Old) = Stored(Old, gbucket.old)

\* What a download has returned is always the beginning of the file, and it
\* reports the end only after the whole file: a missing or short chunk, also
\* one that a delete removes while the download runs, is an error instead
\* (download.rs: poll_read, get_bytes).
DownloadIsExact ==
    LET bytes == IF gdown.id = New THEN gup.written ELSE gbucket.old
    IN  /\ IsPrefix(gdown.got, bytes)
        /\ gdown.ended = "eof" => gdown.got = bytes

\* An upload that failed, was aborted or dropped has left no chunks behind,
\* unless the delete itself failed (AbortError) or a dropped future had left an
\* insert with the server.  The delete of a dropped stream is run by a task
\* nobody waits for, so this is true in the end, not at once (close, abort and
\* Drop for GridFsUploadStream).
AbandonedIsCleanedUp ==
    gup.result \in {"err", "aborted", "dropped"} => ChunksOf(New) = {} \/ gup.dirty \/ gup.left

\* What the documentation of GridFsUploadStream says of abort: it removes any
\* chunks associated with the stream.  It need not: the insert of a write that
\* was cancelled may reach the server after the delete.
AbortRemovesChunks ==
    gup.result = "aborted" /\ gup.cmd = NoCommand => ChunksOf(New) = {}

\* A close that returned an error has left no file in the files collection.
\* It need not: the insert of the file may have taken effect although its
\* reply was lost, and then the file is left without chunks.
FailedCloseLeavesNoFile ==
    gup.result = "err" => ~HasFile(New)
=============================================================================
