---------------------------- MODULE MCBulkWrites ----------------------------
(* Instances of BulkWrites for TLC.                                        *)
EXTENDS BulkWrites

Small == [size |-> 1, own |-> FALSE, ns |-> "a", multi |-> FALSE]
Other == [Small EXCEPT !.ns = "b"]
Large == [Small EXCEPT !.size = 3, !.own = TRUE]
Oversize == [Small EXCEPT !.size = 9]
Many == [Small EXCEPT !.multi = TRUE]

Lists == {<<Small, Small, Small, Small>>, <<Small, Large, Other, Small>>, <<Large, Small, Oversize>>,
          <<Oversize, Small>>, <<Many, Small, Other>>, <<Small>>}

ManyJobs ==
    {[kind |-> k, writes |-> l, ordered |-> o, verbose |-> v, encrypted |-> e, retry |-> r, wce |-> w, refused |-> f] :
        k \in {"insert_many", "bulk_write"}, l \in Lists, o \in BOOLEAN, v \in BOOLEAN, e \in BOOLEAN,
        r \in BOOLEAN, w \in BOOLEAN, f \in {{}, {0}, {1}, {2}, {0, 1}, {1, 3}}}
AJob == CHOOSE j \in ManyJobs : j.writes = <<Small>>
=============================================================================
