------------------------ MODULE TopologyWorker_proofs ------------------------
(***************************************************************************)
(* Theorems about TopologyWorker, for any addresses, replies and errors.   *)
(* The invariant and what each step preserves are in TopologyWorker_steps; *)
(* here is what the steps rely on, and what follows.                       *)
(***************************************************************************)
EXTENDS TopologyWorker_steps, TopologyDescription_servers

\* The default backend; a leaf that needs arithmetic or records names SMT.
USE Zenon

-----------------------------------------------------------------------------
(* The description.                                                        *)

\* A reply, or the description made from an error, is a description.
LEMMA ReplyFields ==
    ASSUME NEW sd, sd \in Replies \/ \E v : sd = UnknownServer(v)
    PROVE  /\ WellFormedReply(sd) /\ "type" \in DOMAIN sd
           /\ sd.setVersion \in Int \cup {None} /\ sd.electionId \in Nat \cup {None}
           /\ sd.hosts = Garbled \/ sd.hosts \subseteq Addresses
<1>1. CASE sd \in Replies
  BY <1>1, RepliesAssumption DEF ServerDescriptions
<1>2. CASE \E v : sd = UnknownServer(v)
  <2>1. PICK v : sd = UnknownServer(v)
    BY <1>2
  <2>2. "type" \in DOMAIN sd
    BY <2>1 DEF UnknownServer
  <2> QED
    BY <2>1, <2>2, UnknownReply
<1> QED
  BY <1>1, <1>2

\* Update's servers are those of the topology, new ones and the one that answered.
LEMMA UpdateFollows ==
    ASSUME DescInv, TdInv(description), NEW address \in Addresses, NEW sd,
           NEW error \in ErrorNames \cup {None},
           sd \in Replies \/ \E v : sd = UnknownServer(v),
           error # None => sd.type = "Unknown"
    PROVE  Follows(description, Update(description, address, sd), NewCause(address, sd, error))
<1> DEFINE td == description
           u == Update(td, address, sd)
           rejected == Rejected(address, sd)
           c == NewCause(address, sd, error)
<1>1. /\ WellFormedReply(sd) /\ "type" \in DOMAIN sd
      /\ sd.setVersion \in Int \cup {None} /\ sd.electionId \in Nat \cup {None}
      /\ sd.hosts = Garbled \/ sd.hosts \subseteq Addresses
  BY ReplyFields
<1>2. PICK hosts \in SUBSET Addresses : sd.hosts \in {Garbled, hosts}
  BY <1>1
<1>3. TdInv(td) /\ td.type # "LoadBalanced" /\ Fits(td) /\ Known(td) \subseteq Addresses
  BY DEF DescInv, TdInv
<1>4. u.type # "LoadBalanced"
  BY <1>1, <1>3, UpdateNotBalanced
<1>0. LET v == Update(description, address, sd)
          refused == \/ address \notin Known(description)
                     \/ Outdated(sd, description.servers[address])
      IN /\ refused => v = description
         /\ Shape(v) /\ Known(v) \subseteq Known(description) \cup hosts
         /\ \A a \in Known(v) :
               \/ v.servers[a] = NewServer
               \/ a \in Known(description) /\ a = address /\ v.servers[a] \in {sd, description.servers[a]}
               \/ a \in Known(description) /\ a # address /\ v.servers[a] = description.servers[a]
         /\ sd.type = "Unknown" =>
               Known(v) = Known(description) /\ (~refused => v.servers[address] = sd)
  BY ZenonT(60), <1>2, <1>3, UpdateServers
<1>5. /\ rejected => u = td
      /\ Known(u) \subseteq Known(td) \cup hosts
      /\ \A a \in Known(u) :
            \/ u.servers[a] = NewServer
            \/ a \in Known(td) /\ a = address /\ u.servers[a] \in {sd, td.servers[a]}
            \/ a \in Known(td) /\ a # address /\ u.servers[a] = td.servers[a]
      /\ sd.type = "Unknown" => Known(u) = Known(td) /\ (~rejected => u.servers[address] = sd)
  BY Zenon, <1>0 DEF Rejected
<1>6. /\ c \in [Addresses -> ErrorNames \cup {None}]
      /\ \A a \in Addresses : c[a] = IF rejected \/ a # address THEN cause[a] ELSE error
  BY DEF DescInv, NewCause
<1>7. "type" \in DOMAIN NewServer /\ NewServer.type = "Unknown"
  BY DEF NewServer, UnknownServer
<1>8. /\ \A a \in Known(td) : "type" \in DOMAIN td.servers[a]
      /\ \A a \in Addresses : cause[a] # None => td.servers[a].type = "Unknown"
      /\ cause \in [Addresses -> ErrorNames \cup {None}]
  BY DEF DescInv
<1> HIDE DEF u, c, rejected
<1>9. \A a \in Known(u) : "type" \in DOMAIN u.servers[a]
  BY <1>1, <1>5, <1>7, <1>8
<1>10. \A a \in Known(u) \ Known(td) : u.servers[a].type = "Unknown"
  BY <1>5, <1>7
<1>11. ASSUME NEW a \in Known(u), c[a] # None
       PROVE  u.servers[a].type = "Unknown"
  <2>0. a \in Addresses
    BY <1>2, <1>3, <1>5
  <2>1. CASE a # address \/ rejected
    <3>1. cause[a] # None
      BY <1>11, <2>1, <2>0, <1>6
    <3> QED
      BY <3>1, <2>0, <2>1, <1>5, <1>7, <1>8
  <2>2. CASE a = address /\ ~rejected
    <3>1. error # None
      BY <1>11, <2>0, <2>2, <1>6
    <3> QED
      BY <3>1, <2>2, <1>5
  <2> QED
    BY <2>1, <2>2
<1>12. Known(u) \subseteq Addresses
  BY <1>2, <1>3, <1>5
<1>13. Follows(td, u, c)
  BY <1>4, <1>6, <1>9, <1>10, <1>11, <1>12 DEF Follows
<1> QED
  BY <1>13 DEF u, c

\* sync_hosts keeps servers and adds new ones.
LEMMA SyncFollows ==
    ASSUME DescInv, TdInv(description), NEW u \in SyncHosts(description, poll.hosts)
    PROVE  Follows(description, u, cause)
<1>2. Shape(description) /\ poll.hosts \subseteq Addresses
  BY DEF DescInv, TdInv, Fits
<1>3. Descends(u, description, poll.hosts) /\ u.type = description.type /\ Known(u) \subseteq poll.hosts
  BY <1>2, SyncDescends
<1>4. \A a \in Known(u) :
         \/ u.servers[a] = NewServer
         \/ a \in Known(description) /\ u.servers[a] = description.servers[a]
  BY <1>3 DEF Descends
<1>5. "type" \in DOMAIN NewServer /\ NewServer.type = "Unknown"
  BY DEF NewServer, UnknownServer
<1>6. Known(u) \subseteq Addresses
  BY <1>2, <1>3
<1> QED
  BY <1>3, <1>4, <1>5, <1>6 DEF Follows, DescInv

-----------------------------------------------------------------------------
(* The server objects.                                                     *)

\* The server objects: those of an address are numbered from 1 on.
Numbered ==
    \A a \in Addresses :
        /\ IsFiniteSet({o \in DOMAIN pool : o[1] = a})
        /\ {o \in DOMAIN pool : o[1] = a} = {a} \X (1..Joins(a))

\* The objects of an address have numbers, and the next one is new.
LEMMA JoinsNumber ==
    ASSUME Numbered, NEW a \in Addresses
    PROVE  /\ Joins(a) \in Nat
           /\ <<a, Joins(a) + 1>> \notin DOMAIN pool
<1> DEFINE S == {o \in DOMAIN pool : o[1] = a}
<1>1. IsFiniteSet(S) /\ S = {a} \X (1..Joins(a))
  BY DEF Numbered
<1>2. Joins(a) \in Nat
  BY <1>1, FS_CardinalityType DEF Joins
<1>3. <<a, Joins(a) + 1>> \notin {a} \X (1..Joins(a))
  BY SMT, <1>2
<1>4. <<a, Joins(a) + 1>> \notin S
  BY Zenon, <1>1, <1>3
<1> QED
  BY <1>2, <1>4

\* Objects stay numbered when addresses join.
LEMMA JoinedNumbered ==
    ASSUME Numbered, NEW new \in SUBSET Addresses,
           DOMAIN pool' = DOMAIN pool \cup {<<a, Joins(a) + 1>> : a \in new}
    PROVE  Numbered'
<1> SUFFICES ASSUME NEW a \in Addresses
             PROVE  LET T == {o \in DOMAIN pool' : o[1] = a}
                    IN IsFiniteSet(T) /\ T = {a} \X (1..Cardinality(T))
  BY DEF Numbered, Joins
<1> DEFINE S == {o \in DOMAIN pool : o[1] = a}
           T == {o \in DOMAIN pool' : o[1] = a}
           o1 == <<a, Joins(a) + 1>>
<1>1. IsFiniteSet(S) /\ S = {a} \X (1..Joins(a)) /\ Joins(a) = Cardinality(S)
  BY DEF Numbered, Joins
<1>2. Joins(a) \in Nat /\ o1 \notin DOMAIN pool
  BY JoinsNumber
<1>3. CASE a \notin new
  <2>1. T = S
    BY SMT, <1>3
  <2> QED
    BY <2>1, <1>1
<1>4. CASE a \in new
  <2>1. T = S \cup {o1}
    BY SMT, <1>4
  <2>2. o1 \notin S
    BY <1>2
  <2> HIDE DEF S, T
  <2>3. IsFiniteSet(T) /\ Cardinality(T) = Joins(a) + 1
    <3>1. \A x : IsFiniteSet(S \cup {x}) /\ (x \notin S => Cardinality(S \cup {x}) = Cardinality(S) + 1)
      BY <1>1, FS_AddElement, Zenon
    <3> QED
      BY <2>1, <2>2, <3>1, <1>1, Zenon
  <2>4. ({a} \X (1..Joins(a))) \cup {o1} = {a} \X (1..(Joins(a) + 1))
    BY SMT, <1>2
  <2>5. T = {a} \X (1..(Joins(a) + 1))
    BY <2>1, <2>4, <1>1
  <2> QED
    BY <2>3, <2>5 DEF T
<1> QED
  BY <1>3, <1>4

\* At first every address has joined once.
LEMMA InitNumbered ==
    ASSUME pool = [o \in Known(description) \X {1} |-> NewPool]
    PROVE  Numbered
<1> SUFFICES ASSUME NEW a \in Addresses
             PROVE  LET S == {o \in DOMAIN pool : o[1] = a}
                    IN IsFiniteSet(S) /\ S = {a} \X (1..Cardinality(S))
  BY DEF Numbered, Joins
<1> DEFINE S == {o \in DOMAIN pool : o[1] = a}
<1>1. CASE a \in Known(description)
  <2>1. S = {<<a, 1>>}
    BY SMT, <1>1
  <2>2. IsFiniteSet(S) /\ Cardinality(S) = 1
    BY <2>1, FS_Singleton
  <2>3. {<<a, 1>>} = {a} \X (1..1)
    BY SMT
  <2> QED
    BY <2>1, <2>2, <2>3
<1>2. CASE a \notin Known(description)
  <2>1. S = {}
    BY <1>2
  <2>2. IsFiniteSet(S) /\ Cardinality(S) = 0
    BY <2>1, FS_EmptySet
  <2>3. {} = {a} \X (1..0)
    BY SMT
  <2> QED
    BY <2>1, <2>2, <2>3
<1> QED
  BY <1>1, <1>2

-----------------------------------------------------------------------------
(* The invariant and what follows from it.                                 *)

\* What the steps rely on holds where the worker's invariant does.
LEMMA InvRelies ==
    ASSUME WInv, TdInv(description), Numbered
    PROVE  Relies
<1>1. DescInv
  BY DEF WInv
<1>2. ASSUME NEW address \in Addresses, NEW r \in Replies
      PROVE  Follows(description, Update(description, address, r), NewCause(address, r, None))
  BY <1>1, UpdateFollows
<1>3. ASSUME NEW address \in Addresses, NEW v \in Versions, NEW error \in ErrorNames
      PROVE  LET sd == UnknownServer(v)
                 u == Update(description, address, sd)
             IN /\ Follows(description, u, NewCause(address, sd, error))
                /\ Rejected(address, sd) => u = description
                /\ Known(u) = Known(description)
                /\ ~Rejected(address, sd) => u.servers[address] = sd
  <2> DEFINE sd == UnknownServer(v)
  <2>1. sd.type = "Unknown" /\ sd.hosts \in {Garbled, {}}
    BY UnknownReply
  <2>2. Follows(description, Update(description, address, sd), NewCause(address, sd, error))
    BY <1>1, <2>1, UpdateFollows
  <2>3. Fits(description) /\ description.type # "LoadBalanced"
    BY <1>1 DEF TdInv, DescInv
  <2> HIDE DEF sd
  <2>4. LET u == Update(description, address, sd)
            rejected == \/ address \notin Known(description)
                        \/ Outdated(sd, description.servers[address])
        IN /\ rejected => u = description
           /\ Known(u) = Known(description) /\ (~rejected => u.servers[address] = sd)
    BY SMT, <2>1, <2>3, UpdateServers
  <2> QED
    BY <2>2, <2>4 DEF sd, Rejected
<1>4. \A u \in SyncHosts(description, poll.hosts) : Follows(description, u, cause)
  BY <1>1, SyncFollows
<1>5. ASSUME NEW t \in ClusterTimes
      PROVE  LET u == AdvanceClusterTime(description, t)
             IN u.servers = description.servers /\ u.type = description.type
  <2>1. Shape(description)
    BY DEF TdInv, Fits
  <2> QED
    BY <2>1, GossipCore DEF SameCore
<1>6. JoinsAreNew
  BY JoinsNumber DEF JoinsAreNew
<1>7. UpdatesFollow
  BY <1>2, <1>3, <1>4, <1>5 DEF UpdatesFollow
<1> QED
  BY <1>6, <1>7 DEF Relies

\* The invariant from which the others follow: the worker's, the description's
\* and the numbers of the server objects.
WorkerInductive == WInv /\ TdInv(description) /\ Numbered

\* The initial states.
LEMMA InitWorkerInductive == WorkerInit => WorkerInductive
<1> SUFFICES ASSUME WorkerInit PROVE WorkerInductive
  OBVIOUS
<1>1. TdInv(description)
  BY InitInv DEF WorkerInit
<1>2. Numbered
  BY InitNumbered DEF WorkerInit
<1> QED
  BY <1>1, <1>2, InitWInv DEF WorkerInductive

\* Every step.
LEMMA NextWorkerInductive == WorkerInductive /\ [WorkerNext]_allVars => WorkerInductive'
<1> SUFFICES ASSUME WorkerInductive, [WorkerNext]_allVars PROVE WorkerInductive'
  OBVIOUS
<1>1. WInv /\ TdInv(description) /\ Numbered
  BY DEF WorkerInductive
<1>2. Relies
  BY <1>1, InvRelies
<1>3. WInv'
  BY <1>1, <1>2, NextWInv
<1>4. TdInv(description)'
  <2>1. [Next]_vars
    BY <1>1, WorkerNextMaps
  <2>2. TdInv(description')
    BY <1>1, <2>1, NextStep
  <2> QED
    BY <2>2
<1>5. Numbered'
  <2>1. PICK new \in SUBSET Addresses :
           DOMAIN pool' = DOMAIN pool \cup {<<a, Joins(a) + 1>> : a \in new}
    BY <1>1, <1>2, PoolsJoin
  <2> QED
    BY <1>1, <2>1, JoinedNumbered
<1> QED
  BY <1>3, <1>4, <1>5 DEF WorkerInductive

\* The worker's invariant is an invariant.
THEOREM WorkerInvariant == WorkerSpec => []WorkerInductive
<1>1. WorkerInit => WorkerInductive
  BY InitWorkerInductive
<1>2. WorkerInductive /\ [WorkerNext]_allVars => WorkerInductive'
  BY NextWorkerInductive
<1> QED
  BY <1>1, <1>2, PTL DEF WorkerSpec

\* Whatever operations see as usable has a pool that is ready (update_topology
\* marks pools as ready before it publishes, clear comes after).
THEOREM WorkerPublishedIsReady == WorkerSpec => []PublishedIsReady
<1>1. WorkerInductive => PublishedIsReady
  BY DEF WorkerInductive, WInv, ReadyInv
<1> QED
  BY <1>1, WorkerInvariant, PTL

\* A server that failed has a paused pool once its error is handled, although
\* an error that is equal to the last one clears nothing.
THEOREM WorkerFailedIsPaused == WorkerSpec => []FailedIsPaused
<1>1. WorkerInductive => FailedIsPaused
  <2> SUFFICES ASSUME WorkerInductive, worker.at = "loop", NEW a \in Known(description),
                      cause[a] \notin {None, "NotPrimary"}
               PROVE  ~pool[<<a, server[a]>>].ready
    BY DEF FailedIsPaused
  <2>0. WInv
    BY DEF WorkerInductive
  <2>1. worker.target = None
    BY <2>0 DEF WInv, WorkerInv
  <2>2. <<a, server[a]>> # None
    BY <2>0, WorkerAssumption DEF WInv, PoolInv, Objects
  <2> QED
    BY <2>0, <2>1, <2>2 DEF WInv, FailedInv
<1> QED
  BY <1>1, WorkerInvariant, PTL

\* An error of a connection clears its pool only while the pool is ready: one
\* outage, met by any number of operations, clears it once (the generation that
\* handle_application_error compares).
THEOREM WorkerOutageClearsOnce == WorkerSpec => OutageClearsOnce
<1>1. ASSUME WorkerInductive, [WorkerNext]_allVars
      PROVE  [\A o \in DOMAIN pool :
                /\ pool'[o].generation # pool[o].generation
                /\ Head(queue).kind = "ApplicationError"
                /\ Head(queue).object = o
                => pool[o].ready]_allVars
  <2> SUFFICES ASSUME NEW o \in DOMAIN pool, pool'[o].generation # pool[o].generation,
                      Head(queue).kind = "ApplicationError", Head(queue).object = o
               PROVE  pool[o].ready
    OBVIOUS
  <2>1. WInv /\ Relies
    BY <1>1, InvRelies DEF WorkerInductive
  <2> QED
    BY <1>1, <2>1, ClearsReady
<1> QED
  BY <1>1, WorkerInvariant, PTL DEF WorkerSpec, OutageClearsOnce

\* Whatever the interleaving of its messages, the worker does to its description
\* what module TopologyDescription says: the theorems about that module's
\* behaviours hold of the worker's.
THEOREM WorkerImplementsDescription == WorkerSpec => ImplementsDescription
<1>1. WorkerInit => Init
  BY DEF WorkerInit
<1>2. WorkerInductive /\ [WorkerNext]_allVars => [Next]_vars
  BY WorkerNextMaps DEF WorkerInductive
<1> QED
  BY <1>1, <1>2, WorkerInvariant, PTL DEF WorkerSpec, ImplementsDescription, Spec

=============================================================================
