------------------------------ MODULE MCGridFS ------------------------------
(* Instances of GridFS for TLC.                                            *)
EXTENDS GridFS

Bytes(k) == [i \in 1..k |-> i]

Bucket(k, chunks, intact) ==
    [files |-> {File(Old, "a", k, 1)}, chunks |-> chunks, indexes |-> {}, old |-> Bytes(k), empty |-> FALSE,
     intact |-> intact, bytes |-> 0, users |-> {"download", "task"}]

\* A new bucket, to which so many bytes are uploaded, and its other users.
EmptyBucket(bytes, users) ==
    [files |-> {}, chunks |-> {}, indexes |-> {}, old |-> <<>>, empty |-> TRUE,
     intact |-> TRUE, bytes |-> bytes, users |-> users]

Whole(k) == Bucket(k, Stored(Old, Bytes(k)), TRUE)
MissingChunk(k, n) == Bucket(k, {c \in Stored(Old, Bytes(k)) : c.n # n}, FALSE)
ShortChunk(k, n) ==
    Bucket(k, {IF c.n = n THEN [c EXCEPT !.data = Front(@)] ELSE c : c \in Stored(Old, Bytes(k))}, FALSE)

ManyBuckets ==
    {EmptyBucket(5, {"task"}), EmptyBucket(3, {"download"}),
     [Whole(3) EXCEPT !.bytes = 2, !.users = {"task"}], [Whole(3) EXCEPT !.bytes = 1, !.users = {"download"}], Whole(0), Whole(4), Whole(5), MissingChunk(5, 0), MissingChunk(5, 1), MissingChunk(5, 2),
     MissingChunk(4, 1), ShortChunk(5, 1), ShortChunk(4, 1)}
=============================================================================
