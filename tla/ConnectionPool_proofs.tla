----------------------- MODULE ConnectionPool_proofs ------------------------
(***************************************************************************)
(* The counters of the connection pool equal what they count, and the      *)
(* theorems about the pool, for any number of connections and requests and *)
(* any limits.                                                             *)
(***************************************************************************)
EXTENDS ConnectionPool_steps, FiniteSetTheorems

\* The default backend; a leaf that needs arithmetic or records names SMT.
USE Zenon

-----------------------------------------------------------------------------
(* The counters. *)

IsManaged(c) == conn[c].at \notin {"none", "dropped"}

IsUnreported(c) ==
    \/ conn[c].at \in {"pending", "failing"}
    \/ UsedMsg(c) \in Elements(mgmt)
    \/ ForPoolMsg(c) \in Elements(mgmt)
    \/ FailedMsg(c) \in Elements(mgmt)

\* The connections the two counters count are finitely many.
LEMMA CountedSets ==
    /\ Managed = {c \in Conns : IsManaged(c)}
    /\ Unreported = {c \in Conns : IsUnreported(c)}
<1>1. Managed = {c \in Conns : IsManaged(c)}
  BY DEF Managed, IsManaged
<1>2. ASSUME NEW c \in Conns
      PROVE  {UsedMsg(c), ForPoolMsg(c), FailedMsg(c)} \cap Elements(mgmt) # {} <=>
               \/ UsedMsg(c) \in Elements(mgmt)
               \/ ForPoolMsg(c) \in Elements(mgmt)
               \/ FailedMsg(c) \in Elements(mgmt)
  OBVIOUS
<1>3. Unreported = {c \in Conns : IsUnreported(c)}
  BY <1>2 DEF Unreported, IsUnreported
<1> QED
  BY <1>1, <1>3

\* The same of the next state.
LEMMA CountedSetsNext ==
    /\ Managed' = {c \in Conns : IsManaged(c)'}
    /\ Unreported' = {c \in Conns : IsUnreported(c)'}
<1>1. (/\ Managed = {c \in Conns : IsManaged(c)}
       /\ Unreported = {c \in Conns : IsUnreported(c)})'
  BY CountedSets, PTL
<1> QED
  BY <1>1

One(b) == IF b THEN 1 ELSE 0

\* A change of one member changes the size of a set of connections by one.
LEMMA CountMember ==
    ASSUME NEW S \in SUBSET Conns, NEW T \in SUBSET Conns, NEW c \in Conns,
           \A d \in Conns \ {c} : d \in S <=> d \in T
    PROVE  /\ Cardinality(S) \in Nat
           /\ Cardinality(T) = Cardinality(S) + One(c \in T) - One(c \in S)
<1>1. IsFiniteSet(S) /\ IsFiniteSet(T)
  BY FS_Subset, ConstantsAssumption
<1>2. Cardinality(S) \in Nat /\ Cardinality(T) \in Nat
  BY <1>1, FS_CardinalityType
<1>3. CASE c \in S /\ c \notin T
  <2>1. T = S \ {c}
    BY <1>3
  <2>2. Cardinality(T) = Cardinality(S) - 1
    BY SMTT(30), <1>1, <1>3, <2>1, FS_RemoveElement
  <2> QED BY SMT, <1>2, <1>3, <2>2 DEF One
<1>4. CASE c \notin S /\ c \in T
  <2>1. T = S \cup {c}
    BY <1>4
  <2>2. Cardinality(T) = Cardinality(S) + 1
    BY SMTT(30), <1>1, <1>4, <2>1, FS_AddElement
  <2> QED BY SMT, <1>2, <1>4, <2>2 DEF One
<1>5. CASE c \in S <=> c \in T
  <2>1. S = T
    BY SMT, <1>5
  <2> QED BY SMT, <1>2, <1>5, <2>1 DEF One
<1> QED
  BY <1>3, <1>4, <1>5

\* A step that moves one connection, and counts it, keeps the counters exact.
LEMMA CountsFollow ==
    ASSUME CountsExact, NEW c \in Conns, Running' => Running,
           \A d \in Conns \ {c} : /\ IsManaged(d)' <=> IsManaged(d)
                                  /\ IsUnreported(d)' <=> IsUnreported(d),
           total' = total + One(IsManaged(c)') - One(IsManaged(c)),
           pending' = pending + One(IsUnreported(c)') - One(IsUnreported(c))
    PROVE  CountsExact'
<1> SUFFICES ASSUME Running' PROVE total' = Cardinality(Managed') /\ pending' = Cardinality(Unreported')
  BY DEF CountsExact
<1>1. total = Cardinality(Managed) /\ pending = Cardinality(Unreported)
  BY DEF CountsExact
<1>2. /\ Managed \in SUBSET Conns /\ Managed' \in SUBSET Conns
      /\ Unreported \in SUBSET Conns /\ Unreported' \in SUBSET Conns
      /\ \A d \in Conns \ {c} : /\ d \in Managed <=> d \in Managed'
                                /\ d \in Unreported <=> d \in Unreported'
  BY CountedSets, CountedSetsNext
<1>4. /\ One(c \in Managed) = One(IsManaged(c))
      /\ One(c \in Managed') = One(IsManaged(c)')
      /\ One(c \in Unreported) = One(IsUnreported(c))
      /\ One(c \in Unreported') = One(IsUnreported(c)')
  BY CountedSets, CountedSetsNext DEF One
<1>3. /\ Cardinality(Managed') = Cardinality(Managed) + One(c \in Managed') - One(c \in Managed)
      /\ Cardinality(Unreported')
           = Cardinality(Unreported) + One(c \in Unreported') - One(c \in Unreported)
  <2>1. Cardinality(Managed') = Cardinality(Managed) + One(c \in Managed') - One(c \in Managed)
    BY SMTT(30), <1>2, CountMember
  <2>2. Cardinality(Unreported')
           = Cardinality(Unreported) + One(c \in Unreported') - One(c \in Unreported)
    BY <1>2, CountMember
  <2> QED BY SMTT(30), <2>1, <2>2
<1> QED
  BY <1>1, <1>3, <1>4

\* A step that moves none keeps them too.
LEMMA CountsStay ==
    ASSUME CountsExact, Running' => Running,
           \A d \in Conns : /\ IsManaged(d)' <=> IsManaged(d)
                            /\ IsUnreported(d)' <=> IsUnreported(d),
           total' = total, pending' = pending
    PROVE  CountsExact'
<1>1. Managed' = Managed /\ Unreported' = Unreported
  BY SMTT(30), CountedSets, CountedSetsNext
<1> QED
  BY <1>1 DEF CountsExact

\* Every step keeps the counters exact.
LEMMA CountsStep ==
    ASSUME TypeOK, OwnerInv, CountsExact, [Next]_vars
    PROVE  CountsExact'
<1> DEFINE Goal == CountsExact'
<1>0. /\ \A c \in Conns : Placed(c)
      /\ conn \in [Conns -> ConnType]
      /\ total \in Nat
      /\ pending \in Nat
  BY DEF TypeOK, OwnerInv
<1>c. ASSUME ~Running' PROVE Goal
  BY SMTT(30), <1>c DEF CountsExact
<1>x. ASSUME UNCHANGED <<total, pending, mgmt>>, Running' => Running,
             \A d \in Conns : conn'[d].at = conn[d].at
      PROVE  Goal
  BY SMTT(30), <1>x, CountsStay DEF IsManaged, IsUnreported
<1>m. ASSUME NEW m \in MsgType, Send(m), UNCHANGED <<total, pending, pc>>, Running,
             \A d \in Conns : /\ conn'[d].at = conn[d].at
                              /\ m \notin {UsedMsg(d), ForPoolMsg(d), FailedMsg(d)}
      PROVE  Goal
  <2>1. Elements(mgmt') = Elements(mgmt) \cup {m}
    BY SMTT(30), <1>m, SentMessages DEF Running, Open
  <2> QED BY SMTT(30), <1>m, <2>1, CountsStay DEF IsManaged, IsUnreported
<1>d. ASSUME NEW c \in Conns, conn[c].at = "available", conn' = [conn EXCEPT ![c] = NoConn],
             total' = total - 1, UNCHANGED <<pending, mgmt>>, Running
      PROVE  Goal
  <2>1. conn'[c].at = "none" /\ \A d \in Conns \ {c} : conn'[d].at = conn[d].at
    BY SMTT(30), <1>0, <1>d DEF NoConn
  <2>2. ~IsUnreported(c) /\ ~IsUnreported(c)' /\ IsManaged(c) /\ ~IsManaged(c)'
    BY SMTT(30), <1>0, <1>d, <2>1 DEF IsManaged, IsUnreported, Placed
  <2>3. \A d \in Conns \ {c} : /\ IsManaged(d)' <=> IsManaged(d)
                               /\ IsUnreported(d)' <=> IsUnreported(d)
    BY <1>d, <2>1 DEF IsManaged, IsUnreported
  <2>4. /\ total' = total + One(IsManaged(c)') - One(IsManaged(c))
        /\ pending' = pending + One(IsUnreported(c)') - One(IsUnreported(c))
    BY SMTT(30), <1>0, <1>d, <2>2 DEF One
  <2> QED BY SMTT(30), <1>d, <2>3, <2>4, CountsFollow
<1>n. ASSUME NEW c \in Conns, NEW h, NEW b, CreatePendingConnection(c, h, b), mgmt' = mgmt, Running
      PROVE  Goal
  <2>1. /\ conn[c].at = "none" /\ conn'[c].at = "pending"
        /\ \A d \in Conns \ {c} : conn'[d].at = conn[d].at
    BY SMTT(30), <1>0, <1>n DEF NoConn, CreatePendingConnection
  <2>2. ~IsUnreported(c) /\ IsUnreported(c)' /\ ~IsManaged(c) /\ IsManaged(c)'
    BY SMTT(30), <1>0, <1>n, <2>1 DEF IsManaged, IsUnreported, Placed
  <2>3. \A d \in Conns \ {c} : /\ IsManaged(d)' <=> IsManaged(d)
                               /\ IsUnreported(d)' <=> IsUnreported(d)
    BY <1>n, <2>1 DEF IsManaged, IsUnreported
  <2>4. /\ total' = total + One(IsManaged(c)') - One(IsManaged(c))
        /\ pending' = pending + One(IsUnreported(c)') - One(IsUnreported(c))
    BY SMTT(30), <1>0, <1>n, <2>2 DEF One, CreatePendingConnection
  <2> QED BY <1>n, <2>3, <2>4, CountsFollow
<1>t. available # <<>> => /\ Head(available) \in Conns
                          /\ MostRecent \in Conns
                          /\ conn[Head(available)].at = "available"
                          /\ conn[MostRecent].at = "available"
  BY SMTT(30), QueueTail, QueueFront DEF OwnerInv, Placed, MostRecent, TypeOK
<1>r. ASSUME NEW type \in {"Clear", "MarkAsReady", "FillPool"}, Receive(type), pc' = "serve",
             UNCHANGED <<total, pending>>, \A d \in Conns : conn'[d].at = conn[d].at
      PROVE  Goal
  <2>1. \A d \in Conns : /\ UsedMsg(d) \in Elements(mgmt') <=> UsedMsg(d) \in Elements(mgmt)
                         /\ ForPoolMsg(d) \in Elements(mgmt') <=> ForPoolMsg(d) \in Elements(mgmt)
                         /\ FailedMsg(d) \in Elements(mgmt') <=> FailedMsg(d) \in Elements(mgmt)
    BY <1>r, ReceivedMessages
  <2>2. Running
    BY <1>r DEF Receive, Running
  <2> QED BY SMTT(30), <1>r, <2>1, <2>2, CountsStay DEF IsManaged, IsUnreported
<1>1. ASSUME NEW r \in OpRequests, RequestConnection(r) PROVE Goal
  BY <1>1, <1>x DEF RequestConnection, workerVars, loopVars, Running
<1>2. ASSUME NEW r \in OpRequests, Abandon(r) PROVE Goal
  BY <1>2, <1>x DEF Abandon, workerVars, loopVars, Running
<1>3. ASSUME NEW r \in OpRequests, AbandonEstablishing(r) PROVE Goal
  BY SMTT(30), <1>0, <1>3, <1>x DEF AbandonEstablishing, workerVars, loopVars, Running, ConnType
<1>4. ASSUME NEW c \in Conns, BeginCommand(c) PROVE Goal
  BY <1>0, <1>4, <1>x DEF BeginCommand, workerVars, loopVars, Running, ConnType
<1>5. ASSUME NEW c \in Conns, EndCommand(c) PROVE Goal
  BY <1>0, <1>5, <1>x DEF EndCommand, workerVars, loopVars, Running, ConnType
<1>6. ASSUME NEW c \in Conns, FailCommand(c) PROVE Goal
  BY <1>0, <1>6, <1>x DEF FailCommand, workerVars, loopVars, Running, ConnType
<1>7. ASSUME NEW c \in Conns, Drop(c) PROVE Goal
  <2>c. CASE ~Running
    BY <1>7, <2>c, <1>c DEF Drop, loopVars, Running
  <2>r. CASE Running
    <3>1. Elements(mgmt') = Elements(mgmt) \cup {CheckInMsg(c)}
      BY SMTT(30), <1>7, <2>r, SentMessages, MessageFacts DEF Drop, Running, Open
    <3>2. /\ conn[c].at = "out" /\ conn'[c].at = "checkIn"
          /\ \A d \in Conns \ {c} : conn'[d].at = conn[d].at
      BY SMTT(30), <1>7, <2>r, <1>0 DEF Drop, Running, Open, ConnType
    <3>3. \A d \in Conns : /\ IsManaged(d)' <=> IsManaged(d)
                           /\ IsUnreported(d)' <=> IsUnreported(d)
      BY SMTT(30), <3>1, <3>2, MessageFacts DEF IsManaged, IsUnreported
    <3> QED BY SMTT(30), <1>7, <2>r, <3>3, CountsStay DEF Drop, workerVars
  <2> QED BY <2>c, <2>r
<1>8. ASSUME NEW c \in Conns, EstablishSucceeds(c) PROVE Goal
  <2>c. CASE ~Running
    BY <1>8, <2>c, <1>c DEF EstablishSucceeds, loopVars, Running
  <2>r. CASE Running
    <3>1. CASE conn[c].forPool
      <4>1. Elements(mgmt') = Elements(mgmt) \cup {ForPoolMsg(c)}
        BY SMTT(30), <1>8, <2>r, <3>1, SentMessages, MessageFacts DEF EstablishSucceeds, Running, Open
      <4>2. /\ conn[c].at = "pending" /\ conn'[c].at = "forPool"
            /\ \A d \in Conns \ {c} : conn'[d].at = conn[d].at
        BY SMTT(30), <1>8, <2>r, <3>1, <1>0 DEF EstablishSucceeds, Running, Open, ConnType
      <4>3. \A d \in Conns : /\ IsManaged(d)' <=> IsManaged(d)
                             /\ IsUnreported(d)' <=> IsUnreported(d)
        BY SMTT(30), <4>1, <4>2, MessageFacts DEF IsManaged, IsUnreported
      <4> QED BY SMTT(30), <1>8, <2>r, <4>3, CountsStay DEF EstablishSucceeds, workerVars
    <3>2. CASE ~conn[c].forPool
      <4>1. Elements(mgmt') = Elements(mgmt) \cup {UsedMsg(c)}
        BY SMTT(30), <1>8, <2>r, <3>2, SentMessages, MessageFacts DEF EstablishSucceeds, Running, Open
      <4>2. /\ conn[c].at = "pending" /\ conn'[c].at = "out"
            /\ \A d \in Conns \ {c} : conn'[d].at = conn[d].at
        BY SMTT(30), <1>8, <2>r, <3>2, <1>0 DEF EstablishSucceeds, Running, Open, ConnType
      <4>3. \A d \in Conns : /\ IsManaged(d)' <=> IsManaged(d)
                             /\ IsUnreported(d)' <=> IsUnreported(d)
        BY <4>1, <4>2, MessageFacts DEF IsManaged, IsUnreported
      <4> QED BY SMTT(30), <1>8, <2>r, <4>3, CountsStay DEF EstablishSucceeds, workerVars
    <3> QED BY <3>1, <3>2
  <2> QED BY SMTT(30), <2>c, <2>r
<1>9. ASSUME NEW c \in Conns, EstablishFails(c) PROVE Goal
  <2>1. /\ conn[c].at = "pending" /\ conn'[c].at = "failing"
        /\ \A d \in Conns \ {c} : conn'[d].at = conn[d].at
    BY <1>9, <1>0 DEF EstablishFails, ConnType
  <2>2. \A d \in Conns : /\ IsManaged(d)' <=> IsManaged(d)
                         /\ IsUnreported(d)' <=> IsUnreported(d)
    BY <1>9, <2>1 DEF IsManaged, IsUnreported, EstablishFails
  <2> QED BY <1>9, <2>2, CountsStay DEF EstablishFails, workerVars, loopVars, Running
<1>10. ASSUME NEW c \in Conns, ReportFailure(c) PROVE Goal
  <2>c. CASE ~Running
    BY <1>10, <2>c, <1>c DEF ReportFailure, loopVars, Running
  <2>r. CASE Running
    <3>1. Elements(mgmt') = Elements(mgmt) \cup {FailedMsg(c)}
      BY SMTT(30), <1>10, <2>r, SentMessages, MessageFacts DEF ReportFailure, Running, Open
    <3>2. /\ conn[c].at = "failing" /\ conn'[c].at = "failed"
          /\ \A d \in Conns \ {c} : conn'[d].at = conn[d].at
      BY SMTT(30), <1>10, <2>r, <1>0 DEF ReportFailure, Running, Open, NoConn
    <3>3. \A d \in Conns : /\ IsManaged(d)' <=> IsManaged(d)
                           /\ IsUnreported(d)' <=> IsUnreported(d)
      BY SMT, <3>1, <3>2, MessageFacts DEF IsManaged, IsUnreported
    <3> QED BY SMTT(30), <1>10, <2>r, <3>3, CountsStay DEF ReportFailure, workerVars
  <2> QED BY SMTT(30), <2>c, <2>r
<1>11. ASSUME NEW b \in BOOLEAN, SendClear(b) PROVE Goal
  <2>c. CASE ~Running
    BY SMTT(30), <1>11, <2>c, <1>c DEF SendClear, loopVars, Running
  <2>r. CASE Running
    <3>1. /\ ClearMsg(b) \in MsgType
          /\ \A d \in Conns : ClearMsg(b) \notin {UsedMsg(d), ForPoolMsg(d), FailedMsg(d)}
      BY SMT, MessageFacts
    <3> QED BY SMTT(30), <1>11, <2>r, <3>1, <1>m DEF SendClear, workerVars, loopVars
  <2> QED BY <2>c, <2>r
<1>12. CASE SendMarkAsReady
  <2>c. CASE ~Running
    BY <1>12, <2>c, <1>c DEF SendMarkAsReady, loopVars, Running
  <2>r. CASE Running
    <3>1. /\ ReadyMsg \in MsgType
          /\ \A d \in Conns : ReadyMsg \notin {UsedMsg(d), ForPoolMsg(d), FailedMsg(d)}
      BY SMT, MessageFacts
    <3> QED BY SMTT(30), <1>12, <2>r, <3>1, <1>m DEF SendMarkAsReady, workerVars, loopVars
  <2> QED BY <2>c, <2>r
<1>13. CASE DropHandles
  BY SMTT(30), <1>13, <1>x DEF DropHandles, workerVars, loopVars, Running
<1>14. ASSUME NEW w \in WarmRequests, BroadcastFillPool(w) PROVE Goal
  <2>c. CASE ~Running
    BY SMTT(30), <1>14, <2>c, <1>c DEF BroadcastFillPool, loopVars, Running
  <2>r. CASE Running
    <3>1. /\ FillPoolMsg(w) \in MsgType
          /\ \A d \in Conns : FillPoolMsg(w) \notin {UsedMsg(d), ForPoolMsg(d), FailedMsg(d)}
      BY SMT, MessageFacts
    <3> QED BY SMTT(30), <1>14, <2>r, <3>1, <1>m DEF BroadcastFillPool, workerVars, loopVars
  <2> QED BY SMTT(30), <2>c, <2>r
<1>15. ASSUME NEW w \in WarmRequests, RequestWarmPool(w) PROVE Goal
  BY <1>15, <1>x DEF RequestWarmPool, workerVars, loopVars, Running
<1>16. ASSUME NEW w \in WarmRequests, AcknowledgeFill(w) PROVE Goal
  BY <1>16, <1>x DEF AcknowledgeFill, workerVars, loopVars, Running
<1>17. CASE CheckIn
  <2>0. PICK c \in Conns : c = Head(mgmt).conn
    BY SMTT(30), <1>17, ReceivedConn DEF CheckIn
  <2>1. /\ c \in Conns /\ Running
        /\ conn[c].at = "checkIn" /\ UsedMsg(c) \notin Elements(mgmt)
    BY SMTT(30), <1>17, <2>0, ReceivedConn, ReceiveFacts DEF CheckIn, Receive, Running
  <2>2. \A d \in Conns : /\ UsedMsg(d) \in Elements(mgmt') <=> UsedMsg(d) \in Elements(mgmt)
                         /\ ForPoolMsg(d) \in Elements(mgmt') <=> ForPoolMsg(d) \in Elements(mgmt)
                         /\ FailedMsg(d) \in Elements(mgmt') <=> FailedMsg(d) \in Elements(mgmt)
    BY SMT, <1>17, <2>0, ReceivedMessages DEF CheckIn
  <2>3. /\ pending' = pending
        /\ \/ conn' = [conn EXCEPT ![c].at = "available"] /\ total' = total
           \/ conn' = [conn EXCEPT ![c] = NoConn] /\ total' = total - 1
    BY <1>17, <2>0 DEF CheckIn
  <2>4. CASE conn' = [conn EXCEPT ![c].at = "available"] /\ total' = total
    <3>1. \A d \in Conns : conn'[d].at = IF d = c THEN "available" ELSE conn[d].at
      BY SMTT(30), <1>0, <2>4 DEF ConnType
    <3>2. \A d \in Conns : /\ IsManaged(d)' <=> IsManaged(d)
                           /\ IsUnreported(d)' <=> IsUnreported(d)
      BY SMTT(30), <2>1, <2>2, <3>1 DEF IsManaged, IsUnreported
    <3> QED BY SMTT(30), <2>1, <2>3, <2>4, <3>2, CountsStay
  <2>5. CASE conn' = [conn EXCEPT ![c] = NoConn] /\ total' = total - 1
    <3>1. \A d \in Conns : conn'[d].at = IF d = c THEN "none" ELSE conn[d].at
      BY SMTT(30), <1>0, <2>5 DEF NoConn
    <3>2. \A d \in Conns \ {c} : /\ IsManaged(d)' <=> IsManaged(d)
                                 /\ IsUnreported(d)' <=> IsUnreported(d)
      BY SMTT(30), <2>2, <3>1 DEF IsManaged, IsUnreported
    <3>3. ~IsUnreported(c) /\ ~IsUnreported(c)' /\ IsManaged(c) /\ ~IsManaged(c)'
      BY <1>0, <2>1, <2>2, <3>1 DEF IsManaged, IsUnreported, Placed
    <3>4. /\ total' = total + One(IsManaged(c)') - One(IsManaged(c))
          /\ pending' = pending + One(IsUnreported(c)') - One(IsUnreported(c))
      BY SMTT(30), <1>0, <2>3, <2>5, <3>3 DEF One
    <3> QED BY SMTT(30), <2>1, <3>2, <3>4, CountsFollow
  <2> QED BY <2>3, <2>4, <2>5
<1>18. CASE Clear
  BY <1>18, <1>0, <1>r DEF Clear, workerVars, ConnType
<1>19. CASE MarkAsReady
  BY <1>19, <1>0, <1>r DEF MarkAsReady, workerVars
<1>20. CASE HandleConnectionSucceeded
  <2>1. CASE Receive("Used") /\ conn' = conn
    <3>0. PICK c \in Conns : c = Head(mgmt).conn
      BY SMTT(30), <2>1, ReceivedConn
    <3>1. /\ c \in Conns /\ Running /\ conn[c].at \in {"out", "checkIn"}
          /\ UsedMsg(c) \in Elements(mgmt)
      BY SMTT(30), <2>1, <3>0, ReceivedConn, ReceiveFacts DEF Receive, Running
    <3>2. \A d \in Conns :
            /\ UsedMsg(d) \in Elements(mgmt') <=> UsedMsg(d) \in Elements(mgmt) /\ d # c
            /\ ForPoolMsg(d) \in Elements(mgmt') <=> ForPoolMsg(d) \in Elements(mgmt)
            /\ FailedMsg(d) \in Elements(mgmt') <=> FailedMsg(d) \in Elements(mgmt)
      BY SMTT(30), <2>1, <3>0, ReceivedMessages
    <3>3. \A d \in Conns \ {c} : /\ IsManaged(d)' <=> IsManaged(d)
                                 /\ IsUnreported(d)' <=> IsUnreported(d)
      BY SMTT(30), <2>1, <3>2 DEF IsManaged, IsUnreported
    <3>4. IsUnreported(c) /\ ~IsUnreported(c)' /\ IsManaged(c) /\ IsManaged(c)'
      BY SMTT(30), <1>0, <2>1, <3>1, <3>2 DEF IsManaged, IsUnreported, Placed
    <3>5. /\ total' = total + One(IsManaged(c)') - One(IsManaged(c))
          /\ pending' = pending + One(IsUnreported(c)') - One(IsUnreported(c))
      BY SMTT(30), <1>0, <1>20, <3>4 DEF One, HandleConnectionSucceeded
    <3> QED BY SMTT(30), <3>1, <3>3, <3>5, CountsFollow
  <2>2. CASE Receive("ForPool") /\ conn' = [conn EXCEPT ![Head(mgmt).conn].at = "available"]
    <3>0. PICK c \in Conns : c = Head(mgmt).conn
      BY SMTT(30), <2>2, ReceivedConn
    <3>1. /\ c \in Conns /\ Running /\ conn[c].at = "forPool"
          /\ ForPoolMsg(c) \in Elements(mgmt)
      BY SMTT(30), <2>2, <3>0, ReceivedConn, ReceiveFacts DEF Receive, Running
    <3>2. \A d \in Conns :
            /\ UsedMsg(d) \in Elements(mgmt') <=> UsedMsg(d) \in Elements(mgmt)
            /\ ForPoolMsg(d) \in Elements(mgmt') <=> ForPoolMsg(d) \in Elements(mgmt) /\ d # c
            /\ FailedMsg(d) \in Elements(mgmt') <=> FailedMsg(d) \in Elements(mgmt)
      BY SMT, <2>2, <3>0, ReceivedMessages
    <3>a. conn' = [conn EXCEPT ![c].at = "available"]
      BY <2>2, <3>0
    <3>b. \A d \in Conns : conn'[d].at = IF d = c THEN "available" ELSE conn[d].at
      BY SMTT(30), <1>0, <3>a DEF ConnType
    <3>3. \A d \in Conns \ {c} : /\ IsManaged(d)' <=> IsManaged(d)
                                 /\ IsUnreported(d)' <=> IsUnreported(d)
      BY SMTT(30), <3>2, <3>b DEF IsManaged, IsUnreported
    <3>4. IsUnreported(c) /\ ~IsUnreported(c)' /\ IsManaged(c) /\ IsManaged(c)'
      BY SMTT(30), <1>0, <3>1, <3>2, <3>b DEF IsManaged, IsUnreported, Placed
    <3>5. /\ total' = total + One(IsManaged(c)') - One(IsManaged(c))
          /\ pending' = pending + One(IsUnreported(c)') - One(IsUnreported(c))
      BY SMTT(30), <1>0, <1>20, <3>4 DEF One, HandleConnectionSucceeded
    <3> QED BY SMTT(30), <3>1, <3>3, <3>5, CountsFollow
  <2> QED BY SMTT(30), <1>20, <2>1, <2>2 DEF HandleConnectionSucceeded
<1>21. CASE HandleConnectionFailed
  <2>0. PICK c \in Conns : c = Head(mgmt).conn
    BY SMTT(30), <1>21, ReceivedConn DEF HandleConnectionFailed
  <2>1. /\ c \in Conns /\ Running
        /\ conn[c].at = "failed" /\ FailedMsg(c) \in Elements(mgmt)
    BY SMTT(30), <1>21, <2>0, ReceivedConn, ReceiveFacts DEF HandleConnectionFailed, Receive, Running
  <2>2. \A d \in Conns :
          /\ UsedMsg(d) \in Elements(mgmt') <=> UsedMsg(d) \in Elements(mgmt)
          /\ ForPoolMsg(d) \in Elements(mgmt') <=> ForPoolMsg(d) \in Elements(mgmt)
          /\ FailedMsg(d) \in Elements(mgmt') <=> FailedMsg(d) \in Elements(mgmt) /\ d # c
    BY SMTT(30), <1>21, <2>0, ReceivedMessages DEF HandleConnectionFailed
  <2>3. conn' = [conn EXCEPT ![c] = NoConn]
    BY <1>21, <2>0 DEF HandleConnectionFailed
  <2>4. \A d \in Conns : conn'[d].at = IF d = c THEN "none" ELSE conn[d].at
    BY SMTT(30), <1>0, <2>3 DEF NoConn
  <2>5. \A d \in Conns \ {c} : /\ IsManaged(d)' <=> IsManaged(d)
                               /\ IsUnreported(d)' <=> IsUnreported(d)
    BY SMTT(30), <2>2, <2>4 DEF IsManaged, IsUnreported
  <2>6. IsUnreported(c) /\ ~IsUnreported(c)' /\ IsManaged(c) /\ ~IsManaged(c)'
    BY SMTT(30), <1>0, <2>1, <2>2, <2>4 DEF IsManaged, IsUnreported, Placed
  <2>7. /\ total' = total + One(IsManaged(c)') - One(IsManaged(c))
        /\ pending' = pending + One(IsUnreported(c)') - One(IsUnreported(c))
    BY SMTT(30), <1>0, <1>21, <2>6 DEF One, HandleConnectionFailed
  <2> QED BY SMTT(30), <2>1, <2>5, <2>7, CountsFollow
<1>22. CASE SpawnFillPool
  BY SMTT(30), <1>22, <1>0, <1>r DEF SpawnFillPool, workerVars
<1>23. CASE LeaveLoop
  BY <1>23, <1>c DEF LeaveLoop, Running
<1>24. CASE CloseChannels
  BY SMTT(30), <1>24, <1>c DEF CloseChannels, Running
<1>25. CASE ReceiveRequest
  BY SMTT(30), <1>25, <1>x DEF ReceiveRequest, workerVars, loopVars, Running
<1>26. CASE StartMaintenance
  BY SMTT(30), <1>26, <1>x DEF StartMaintenance, workerVars, loopVars, Running
<1>27. CASE RemovePerished
  BY SMTT(30), <1>27, <1>d, <1>t, <1>x DEF RemovePerished, CloseConnection, Running
<1>28. CASE EnsureMinConnections
  BY Zenon, <1>28, <1>n, <1>x DEF EnsureMinConnections, Running
<1>29. CASE ServeWaiters
  BY SMTT(30), <1>29, <1>x DEF ServeWaiters, workerVars, loopVars, Running
<1>30. CASE AnswerPoolWarmed
  BY <1>30, <1>x DEF AnswerPoolWarmed, Answer, workerVars, loopVars, Running
<1>31. CASE DiscardPerished
  BY Zenon, <1>31, <1>d, <1>t DEF DiscardPerished, CloseConnection, Running
<1>32. CASE HandOut
  <2>1. Running /\ UNCHANGED <<total, pending, mgmt>> /\ available # <<>>
    BY <1>32 DEF HandOut, Running
  <2>2. CASE conn' = conn
    BY SMTT(30), <2>1, <2>2, <1>x
  <2>3. CASE conn' = [conn EXCEPT ![MostRecent].at = "out", ![MostRecent].holder = cur]
    <3>1. \A d \in Conns : conn'[d].at = IF d = MostRecent THEN "out" ELSE conn[d].at
      BY SMTT(30), <1>0, <2>3 DEF ConnType
    <3>2. \A d \in Conns : /\ IsManaged(d)' <=> IsManaged(d)
                           /\ IsUnreported(d)' <=> IsUnreported(d)
      BY SMTT(30), <1>t, <2>1, <3>1 DEF IsManaged, IsUnreported
    <3> QED BY <2>1, <3>2, CountsStay
  <2> QED BY SMTT(30), <1>32, <2>2, <2>3 DEF HandOut
<1>33. CASE CreateForRequest
  BY ZenonT(30), <1>33, <1>n DEF CreateForRequest, NothingToHandOut, Running
<1>34. CASE RequeueAtFront
  BY <1>34, <1>x DEF RequeueAtFront, NothingToHandOut, workerVars, loopVars, Running
<1>35. ASSUME NEW c \in Conns, BecomeIdle(c) PROVE Goal
  BY SMTT(30), <1>0, <1>35, <1>x DEF BecomeIdle, workerVars, loopVars, Running, ConnType
<1>36. CASE UNCHANGED vars
  BY <1>36, <1>x DEF vars, Running
<1>37. CASE OperationStep
  BY Zenon, <1>37, <1>1, <1>2, <1>3, <1>4, <1>5, <1>6, <1>7 DEF OperationStep
<1>38. CASE EstablishStep \/ TopologyStep \/ WarmStep
  BY Zenon, <1>38, <1>8, <1>9, <1>10, <1>11, <1>12, <1>13, <1>14, <1>15, <1>16
     DEF EstablishStep, TopologyStep, WarmStep
<1>39. CASE ManagementStep
  BY Zenon, <1>39, <1>17, <1>18, <1>19, <1>20, <1>21, <1>22 DEF ManagementStep
<1>40. CASE LoopStep
  BY Zenon, <1>40, <1>27, <1>28, <1>29, <1>30, <1>31, <1>32, <1>33, <1>34 DEF LoopStep
<1> QED
  BY Zenon, <1>23, <1>24, <1>25, <1>26, <1>35, <1>36, <1>37, <1>38, <1>39, <1>40 DEF Next, WorkerStep

\* The counters stay natural numbers: they never wrap below zero.
LEMMA CountersTyped ==
    ASSUME TypeOK, CountsExact', [Next]_vars
    PROVE  total' \in Nat /\ pending' \in Nat
<1>a. ASSUME Running' PROVE total' \in Nat /\ pending' \in Nat
  <2>1. Managed' \in SUBSET Conns /\ Unreported' \in SUBSET Conns
    BY CountedSetsNext
  <2>2. Cardinality(Managed') \in Nat /\ Cardinality(Unreported') \in Nat
    BY SMTT(30), <2>1, FS_Subset, FS_CardinalityType, ConstantsAssumption
  <2> QED BY <1>a, <2>2 DEF CountsExact
<1>b. ASSUME UNCHANGED <<total, pending>> PROVE total' \in Nat /\ pending' \in Nat
  BY <1>b DEF TypeOK
<1> SUFFICES Running' \/ UNCHANGED <<total, pending>>
  BY <1>a, <1>b
<1> DEFINE Goal == Running' \/ UNCHANGED <<total, pending>>
<1>1. ASSUME NEW r \in OpRequests, RequestConnection(r) PROVE Goal
  BY <1>1 DEF RequestConnection, workerVars, loopVars, Running
<1>2. ASSUME NEW r \in OpRequests, Abandon(r) PROVE Goal
  BY <1>2 DEF Abandon, workerVars, loopVars, Running
<1>3. ASSUME NEW r \in OpRequests, AbandonEstablishing(r) PROVE Goal
  BY <1>3 DEF AbandonEstablishing, workerVars, loopVars, Running
<1>4. ASSUME NEW c \in Conns, BeginCommand(c) PROVE Goal
  BY <1>4 DEF BeginCommand, workerVars, loopVars, Running
<1>5. ASSUME NEW c \in Conns, EndCommand(c) PROVE Goal
  BY <1>5 DEF EndCommand, workerVars, loopVars, Running
<1>6. ASSUME NEW c \in Conns, FailCommand(c) PROVE Goal
  BY <1>6 DEF FailCommand, workerVars, loopVars, Running
<1>7. ASSUME NEW c \in Conns, Drop(c) PROVE Goal
  BY <1>7 DEF Drop, Send, workerVars, loopVars, Running
<1>8. ASSUME NEW c \in Conns, EstablishSucceeds(c) PROVE Goal
  BY <1>8 DEF EstablishSucceeds, Send, workerVars, loopVars, Running
<1>9. ASSUME NEW c \in Conns, EstablishFails(c) PROVE Goal
  BY <1>9 DEF EstablishFails, workerVars, loopVars, Running
<1>10. ASSUME NEW c \in Conns, ReportFailure(c) PROVE Goal
  BY <1>10 DEF ReportFailure, Send, workerVars, loopVars, Running
<1>11. ASSUME NEW b \in BOOLEAN, SendClear(b) PROVE Goal
  BY <1>11 DEF SendClear, Send, workerVars, loopVars, Running
<1>12. CASE SendMarkAsReady
  BY <1>12 DEF SendMarkAsReady, Send, workerVars, loopVars, Running
<1>13. CASE DropHandles
  BY <1>13 DEF DropHandles, workerVars, loopVars, Running
<1>14. ASSUME NEW w \in WarmRequests, BroadcastFillPool(w) PROVE Goal
  BY <1>14 DEF BroadcastFillPool, Send, workerVars, loopVars, Running
<1>15. ASSUME NEW w \in WarmRequests, RequestWarmPool(w) PROVE Goal
  BY <1>15 DEF RequestWarmPool, workerVars, loopVars, Running
<1>16. ASSUME NEW w \in WarmRequests, AcknowledgeFill(w) PROVE Goal
  BY <1>16 DEF AcknowledgeFill, workerVars, loopVars, Running
<1>17. CASE CheckIn
  BY <1>17 DEF CheckIn, Receive, workerVars, loopVars, Running
<1>18. CASE Clear
  BY <1>18 DEF Clear, Receive, workerVars, loopVars, Running
<1>19. CASE MarkAsReady
  BY <1>19 DEF MarkAsReady, Receive, workerVars, loopVars, Running
<1>20. CASE HandleConnectionSucceeded
  BY <1>20 DEF HandleConnectionSucceeded, Receive, workerVars, loopVars, Running
<1>21. CASE HandleConnectionFailed
  BY <1>21 DEF HandleConnectionFailed, Receive, workerVars, loopVars, Running
<1>22. CASE SpawnFillPool
  BY SMTT(30), <1>22 DEF SpawnFillPool, Receive, workerVars, loopVars, Running
<1>23. CASE LeaveLoop
  BY <1>23 DEF LeaveLoop, workerVars, loopVars, Running
<1>24. CASE CloseChannels
  BY SMTT(30), <1>24 DEF CloseChannels, workerVars, loopVars, Running
<1>25. CASE ReceiveRequest
  BY <1>25 DEF ReceiveRequest, workerVars, loopVars, Running
<1>26. CASE StartMaintenance
  BY <1>26 DEF StartMaintenance, workerVars, loopVars, Running
<1>27. CASE RemovePerished
  BY <1>27 DEF RemovePerished, CloseConnection, workerVars, loopVars, Running
<1>28. CASE EnsureMinConnections
  BY <1>28 DEF EnsureMinConnections, CreatePendingConnection, workerVars, loopVars, Running
<1>29. CASE ServeWaiters
  BY <1>29 DEF ServeWaiters, workerVars, loopVars, Running
<1>30. CASE AnswerPoolWarmed
  BY <1>30 DEF AnswerPoolWarmed, Answer, workerVars, loopVars, Running
<1>31. CASE DiscardPerished
  BY <1>31 DEF DiscardPerished, CloseConnection, workerVars, loopVars, Running
<1>32. CASE HandOut
  BY <1>32 DEF HandOut, Answer, workerVars, loopVars, Running
<1>33. CASE CreateForRequest
  BY <1>33 DEF CreateForRequest, CreatePendingConnection, NothingToHandOut, workerVars, loopVars, Running
<1>34. CASE RequeueAtFront
  BY <1>34 DEF RequeueAtFront, NothingToHandOut, workerVars, loopVars, Running
<1>35. ASSUME NEW c \in Conns, BecomeIdle(c) PROVE Goal
  BY <1>35 DEF BecomeIdle, workerVars, loopVars, Running
<1>36. CASE UNCHANGED vars
  BY <1>36 DEF vars
<1> QED
  BY ZenonT(30), <1>1, <1>2, <1>3, <1>4, <1>5, <1>6, <1>7, <1>8, <1>9, <1>10, <1>11, <1>12, <1>13,
     <1>14, <1>15, <1>16, <1>17, <1>18, <1>19, <1>20, <1>21, <1>22, <1>23, <1>24, <1>25,
     <1>26, <1>27, <1>28, <1>29, <1>30, <1>31, <1>32, <1>33, <1>34, <1>35, <1>36 DEF
     Next, OperationStep, EstablishStep, TopologyStep, WarmStep, ManagementStep,
     LoopStep, WorkerStep
-----------------------------------------------------------------------------
(* The theorems. *)

\* The inductive invariant is the conjunction of the parts the step lemmas preserve.
LEMMA IInvSplit ==
    IInv <=> /\ TypeOK
             /\ CountsExact
             /\ OwnerInv
             /\ \A c \in Conns : Sound(c)
             /\ LoopInv
             /\ NoWaiterWhilePaused
             /\ RequestsQueued
             /\ HoldersKnow
  BY OwnerInvSplit, SoundSplit DEF IInv

\* A new pool satisfies the invariant.
LEMMA InitIInv == Init => IInv
<1> SUFFICES ASSUME Init PROVE IInv
  OBVIOUS
<1>0. Elements(<<>>) = {} /\ Distinct(<<>>)
  BY SMT DEF Elements, Distinct
<1>1. TypeOK
  BY SMT, ConstantFacts DEF TypeOK, Init, PoolStates, Pcs, OpStates, WarmStates
<1>2. CountsExact
  <2>1. Managed = {} /\ Unreported = {}
    BY <1>0, CountedSets DEF Init, NoConn, IsManaged, IsUnreported
  <2> QED BY <2>1, FS_EmptySet DEF CountsExact, Init
<1>3. OwnerInv
  BY SMT, <1>0 DEF OwnerInv, Init, ChannelInv, Placed, NoConn
<1>4. \A c \in Conns : Sound(c)
  BY SMT DEF Sound, Init, NoConn
<1>5. LoopInv /\ NoWaiterWhilePaused
  BY DEF LoopInv, NoWaiterWhilePaused, Init
<1>6. RequestsQueued
  BY <1>0, ConstantFacts DEF RequestsQueued, Init
<1>7. HoldersKnow
  BY ConstantFacts DEF HoldersKnow, Init, NoConn
<1> QED
  BY <1>1, <1>2, <1>3, <1>4, <1>5, <1>6, <1>7, IInvSplit

\* Every step of the pool and of its surroundings preserves the invariant.
LEMMA NextIInv == IInv /\ [Next]_vars => IInv'
<1> SUFFICES ASSUME IInv, [Next]_vars PROVE IInv'
  OBVIOUS
<1>0. /\ TypeOK /\ CountsExact /\ OwnerInv /\ (\A c \in Conns : Sound(c)) /\ LoopInv
      /\ NoWaiterWhilePaused /\ RequestsQueued /\ HoldersKnow
  BY IInvSplit
<1>1. CountsExact'
  BY <1>0, CountsStep
<1>2. TypeOK'
  <2>1. Distinct(available)
    BY <1>0 DEF OwnerInv
  <2> QED BY <1>0, <1>1, <2>1, ScalarsStep, RequestsTyped, QueuesTyped, ConnsTyped, CountersTyped
          DEF TypeOK
<1>3. OwnerInv'
  BY <1>0, ChannelStep, AvailableStep, PlacedStep DEF OwnerInv
<1>4. \A c \in Conns : Sound(c)'
  BY <1>0, SoundStep
<1>5. LoopInv' /\ NoWaiterWhilePaused'
  BY <1>0, LoopInvStep, PausedStep
<1>6. RequestsQueued'
  BY <1>0, RequestsStep
<1>7. HoldersKnow'
  BY <1>0, HoldersStep
<1>8. (IInv <=> /\ TypeOK
                /\ CountsExact
                /\ OwnerInv
                /\ \A c \in Conns : Sound(c)
                /\ LoopInv
                /\ NoWaiterWhilePaused
                /\ RequestsQueued
                /\ HoldersKnow)'
  BY IInvSplit, PTL
<1> QED
  BY <1>1, <1>2, <1>3, <1>4, <1>5, <1>6, <1>7, <1>8

\* The inductive invariant holds in every reachable state of the pool,
\* whatever the interleaving of the worker, the operations, the establishing
\* tasks and the topology.
THEOREM PoolInvariant == Spec => []IInv
  BY InitIInv, NextIInv, PTL DEF Spec

\* Type correctness; in particular the u32 counters total_connection_count and
\* pending_connection_count are never decremented below zero.
THEOREM PoolTypes == Spec => []TypeOK
<1>1. IInv => TypeOK
  BY DEF IInv
<1> QED
  BY <1>1, PoolInvariant, PTL

\* The counters of the worker equal the connections there are and the
\* connections being established.
THEOREM PoolCounts == Spec => []CountsExact
<1>1. IInv => CountsExact
  BY DEF IInv
<1> QED
  BY <1>1, PoolInvariant, PTL

\* Every connection is in exactly one place: the deque, a message, a task or
\* an operation.
THEOREM PoolOwners == Spec => []OneOwner
<1>1. IInv => OneOwner
  BY DEF IInv
<1> QED
  BY <1>1, PoolInvariant, PTL

\* The worker hears that a connection was established before it gets it back.
THEOREM PoolMessageOrder == Spec => []UsedBeforeCheckIn
<1>1. IInv => UsedBeforeCheckIn
  BY DEF IInv
<1> QED
  BY <1>1, PoolInvariant, PTL

\* No two operations use one connection, and each operation that was answered
\* has its connection.
THEOREM PoolExclusiveUse == Spec => []ExclusiveUse
<1>1. IInv => ExclusiveUse
  <2> SUFFICES ASSUME HoldersKnow PROVE ExclusiveUse
    BY DEF IInv
  <2>1. \A c, d \in Conns :
          conn[c].holder \in OpRequests /\ conn[c].holder = conn[d].holder => c = d
    BY DEF HoldersKnow
  <2>2. ASSUME NEW r \in OpRequests
        PROVE  req[r] = "using" <=> \E c \in Conns : conn[c].at = "out" /\ conn[c].holder = r
    BY DEF HoldersKnow
  <2> QED BY <2>1, <2>2 DEF ExclusiveUse
<1> QED
  BY <1>1, PoolInvariant, PTL

\* A connection with an unfinished or failed command never becomes available.
THEOREM PoolAvailableClean == Spec => []AvailableIsClean
<1>1. IInv => AvailableIsClean
  BY DEF IInv, CleanUntilUsed, AvailableIsClean
<1> QED
  BY <1>1, PoolInvariant, PTL

\* An interrupting clear cancels no connection made after it.
THEOREM PoolCancellation == Spec => []CancelledIsStale
<1>1. IInv => CancelledIsStale
  BY DEF IInv
<1> QED
  BY <1>1, PoolInvariant, PTL

\* A pool that is not ready keeps nobody waiting.
THEOREM PoolPausedAnswers == Spec => []NoWaiterWhilePaused
<1>1. IInv => NoWaiterWhilePaused
  BY DEF IInv
<1> QED
  BY <1>1, PoolInvariant, PTL

\* The pool never manages more connections than the larger of max_pool_size
\* and min_pool_size, those checked out and those being established included.
THEOREM PoolLimits == Spec => []WithinPoolLimits
<1>1. Init => TotalBounded
  BY SMT, ConstantsAssumption DEF Init, TotalBounded
<1>2. IInv /\ TotalBounded /\ [Next]_vars => TotalBounded'
  BY BoundStep DEF IInv
<1>3. IInv /\ TotalBounded => WithinPoolLimits
  BY DEF IInv, CountsExact, TotalBounded, WithinPoolLimits
<1> QED
  BY <1>1, <1>2, <1>3, PoolInvariant, PTL DEF Spec

\* With min_pool_size no larger than max_pool_size, max_pool_size is the limit
\* its documentation says it is.
THEOREM PoolSizeBound ==
    ASSUME MinPoolSize <= MaxPoolSize
    PROVE  Spec => []WithinMaxPoolSize
<1>1. IInv /\ WithinPoolLimits => WithinMaxPoolSize
  <2> SUFFICES ASSUME IInv, WithinPoolLimits, Running
               PROVE  Cardinality(Managed) <= MaxPoolSize
    BY DEF WithinMaxPoolSize
  <2>1. Cardinality(Managed) = total /\ total \in Nat
    BY DEF IInv, CountsExact, TypeOK
  <2> QED
    BY SMT, <2>1, ConstantsAssumption DEF WithinPoolLimits
<1> QED
  BY <1>1, PoolInvariant, PoolLimits, PTL

\* The pool hands out only fresh connections, and only while it is ready.
THEOREM PoolHandsOutFresh == Spec => OnlyFreshHandedOut
<1>1. IInv /\ [Next]_vars => [FreshHandedOut]_vars
  BY FreshStep
<1> QED
  BY <1>1, PoolInvariant, PTL DEF Spec, OnlyFreshHandedOut

\* An operation that waits for its answer gets one: the worker does not leave
\* its loop before, so neither unwrap in ConnectionRequester::request panics.
THEOREM PoolAnswers == Spec => []AnswerGuaranteed
<1>1. Init => HandlesHeld
  BY DEF Init, HandlesHeld, Running
<1>2. TypeOK /\ HandlesHeld /\ [Next]_vars => HandlesHeld'
  BY HandlesStep
<1>3. HandlesHeld => AnswerGuaranteed
  BY DEF HandlesHeld, AnswerGuaranteed
<1> QED
  BY <1>1, <1>2, <1>3, PoolTypes, PTL DEF Spec
=============================================================================
