----------------------- MODULE ConnectionPool_steps -------------------------
(***************************************************************************)
(* The steps of the connection pool, for any number of connections and     *)
(* requests and any limits, one case per action.  They keep the shape of   *)
(* the state; they leave every connection in one place and preserve what   *)
(* the invariant says of the health of connections, of the worker's loop,  *)
(* of the requests and of the holders of connections; they keep the limit, *)
(* hand out only fresh connections and keep a handle for whoever waits.    *)
(***************************************************************************)
EXTENDS ConnectionPool, TLAPS

\* The default backend; a leaf that needs arithmetic or records names SMT.
USE Zenon

-----------------------------------------------------------------------------
(* Sequences used as queues. *)

\* What a send on a channel, or a push at the back of a deque, does.
LEMMA QueueAppend ==
    ASSUME NEW S, NEW q \in Seq(S), NEW x \in S
    PROVE  /\ Append(q, x) \in Seq(S)
           /\ Len(Append(q, x)) = Len(q) + 1
           /\ \A i \in 1..Len(q) : Append(q, x)[i] = q[i]
           /\ Append(q, x)[Len(q) + 1] = x
           /\ Elements(Append(q, x)) = Elements(q) \cup {x}
           /\ Distinct(q) /\ x \notin Elements(q) => Distinct(Append(q, x))
<1>1. /\ Append(q, x) \in Seq(S)
      /\ Len(Append(q, x)) = Len(q) + 1
      /\ \A i \in 1..Len(q) : Append(q, x)[i] = q[i]
      /\ Append(q, x)[Len(q) + 1] = x
      /\ Len(q) \in Nat
  BY SMT
<1>2. Elements(Append(q, x)) = Elements(q) \cup {x}
  BY SMT, <1>1 DEF Elements
<1>3. Distinct(q) /\ x \notin Elements(q) => Distinct(Append(q, x))
  BY SMT, <1>1 DEF Elements, Distinct
<1> QED
  BY <1>1, <1>2, <1>3

\* What a receive from a channel, or a pop at the front of a deque, does.
LEMMA QueueTail ==
    ASSUME NEW S, NEW q \in Seq(S), q # <<>>
    PROVE  /\ Tail(q) \in Seq(S)
           /\ Len(q) \in Nat \ {0}
           /\ Len(Tail(q)) = Len(q) - 1
           /\ \A i \in 1..Len(q)-1 : Tail(q)[i] = q[i + 1]
           /\ Head(q) = q[1]
           /\ Head(q) \in S
           /\ Head(q) \in Elements(q)
           /\ Elements(q) = Elements(Tail(q)) \cup {Head(q)}
           /\ Distinct(q) => Distinct(Tail(q)) /\ Elements(Tail(q)) = Elements(q) \ {Head(q)}
<1>1. /\ Tail(q) \in Seq(S)
      /\ Len(q) \in Nat \ {0}
      /\ Len(Tail(q)) = Len(q) - 1
      /\ \A i \in 1..Len(q)-1 : Tail(q)[i] = q[i + 1]
      /\ Head(q) = q[1]
      /\ Head(q) \in S
  BY SMT
<1>2. Head(q) \in Elements(q)
  BY SMT, <1>1 DEF Elements
<1>3. Elements(q) = Elements(Tail(q)) \cup {Head(q)}
  <2>1. ASSUME NEW x \in Elements(q) PROVE x \in Elements(Tail(q)) \cup {Head(q)}
    <3>1. PICK i \in 1..Len(q) : x = q[i]
      BY DEF Elements
    <3>2. CASE i = 1
      BY <3>1, <3>2, <1>1
    <3>3. CASE i # 1
      <4>1. i - 1 \in 1..Len(Tail(q)) /\ x = Tail(q)[i - 1]
        BY SMT, <3>1, <3>3, <1>1
      <4> QED BY <4>1 DEF Elements
    <3> QED BY <3>2, <3>3
  <2>2. ASSUME NEW x \in Elements(Tail(q)) PROVE x \in Elements(q)
    <3>1. PICK i \in 1..Len(Tail(q)) : x = Tail(q)[i]
      BY DEF Elements
    <3>2. i + 1 \in 1..Len(q) /\ x = q[i + 1]
      BY SMT, <3>1, <1>1
    <3> QED BY <3>2 DEF Elements
  <2> QED BY <2>1, <2>2, <1>2
<1>4. ASSUME Distinct(q) PROVE Distinct(Tail(q)) /\ Head(q) \notin Elements(Tail(q))
  <2>1. ASSUME NEW i \in 1..Len(Tail(q)), NEW j \in 1..Len(Tail(q)), Tail(q)[i] = Tail(q)[j]
        PROVE  i = j
    <3>1. i + 1 \in 1..Len(q) /\ j + 1 \in 1..Len(q) /\ q[i + 1] = q[j + 1]
      BY SMT, <2>1, <1>1
    <3>2. i + 1 = j + 1
      BY <3>1, <1>4 DEF Distinct
    <3> QED BY SMT, <3>2, <1>1
  <2>2. ASSUME NEW i \in 1..Len(Tail(q)) PROVE Tail(q)[i] # Head(q)
    <3>1. i + 1 \in 1..Len(q) /\ 1 \in 1..Len(q) /\ Tail(q)[i] = q[i + 1] /\ i + 1 # 1
      BY SMT, <2>2, <1>1
    <3> QED BY <3>1, <1>1, <1>4 DEF Distinct
  <2> QED BY <2>1, <2>2 DEF Distinct, Elements
<1> QED
  BY <1>1, <1>2, <1>3, <1>4

\* What a pop at the back of a deque does.
LEMMA QueueFront ==
    ASSUME NEW S, NEW q \in Seq(S), q # <<>>, Distinct(q)
    PROVE  /\ SubSeq(q, 1, Len(q) - 1) \in Seq(S)
           /\ q[Len(q)] \in S
           /\ q[Len(q)] \in Elements(q)
           /\ Distinct(SubSeq(q, 1, Len(q) - 1))
           /\ Elements(SubSeq(q, 1, Len(q) - 1)) = Elements(q) \ {q[Len(q)]}
<1> DEFINE f == SubSeq(q, 1, Len(q) - 1)
<1>1. /\ f \in Seq(S)
      /\ Len(q) \in Nat \ {0}
      /\ Len(f) = Len(q) - 1
      /\ \A i \in 1..Len(f) : f[i] = q[i]
      /\ q[Len(q)] \in S
  <2>1. Len(q) \in Nat \ {0} /\ q[Len(q)] \in S
    BY SMT
  <2>2. \A i \in 1..Len(q)-1 : q[i] \in S
    BY SMT, <2>1
  <2>3. /\ f \in Seq(S)
        /\ Len(f) = IF 1 <= Len(q) - 1 THEN Len(q) - 1 - 1 + 1 ELSE 0
        /\ \A i \in 1..Len(q)-1-1+1 : f[i] = q[1 + i - 1]
    <3>1. 1 \in Int /\ Len(q) - 1 \in Int
      BY SMT, <2>1
    <3> QED BY SMT, <3>1, <2>2
  <2> HIDE DEF f
  <2>4. Len(f) = Len(q) - 1
    <3>1. ASSUME NEW n \in Nat \ {0}
          PROVE  (IF 1 <= n - 1 THEN n - 1 - 1 + 1 ELSE 0) = n - 1
      BY SMT
    <3>2. Len(f) = IF 1 <= Len(q) - 1 THEN Len(q) - 1 - 1 + 1 ELSE 0
      BY <2>3
    <3> QED BY <3>1, <3>2, <2>1, Zenon
  <2>5. ASSUME NEW i \in 1..Len(f) PROVE f[i] = q[i]
    <3>1. i \in 1..Len(q)-1-1+1 /\ 1 + i - 1 = i
      BY SMT, <2>1, <2>4
    <3> QED BY <3>1, <2>3
  <2> QED
    BY <2>1, <2>3, <2>4, <2>5
<1> HIDE DEF f
<1>2. Distinct(f)
  BY SMT, <1>1 DEF Distinct
<1>3. Elements(f) = Elements(q) \ {q[Len(q)]}
  <2>1. ASSUME NEW x \in Elements(f) PROVE x \in Elements(q) /\ x # q[Len(q)]
    <3>1. PICK i \in 1..Len(f) : x = f[i]
      BY DEF Elements
    <3>2. i \in 1..Len(q) /\ x = q[i] /\ i # Len(q) /\ Len(q) \in 1..Len(q)
      BY SMT, <3>1, <1>1
    <3> QED BY <3>2 DEF Elements, Distinct
  <2>2. ASSUME NEW x \in Elements(q), x # q[Len(q)] PROVE x \in Elements(f)
    <3>1. PICK i \in 1..Len(q) : x = q[i]
      BY DEF Elements
    <3>2. i \in 1..Len(f) /\ x = f[i]
      BY SMT, <3>1, <2>2, <1>1
    <3> QED BY <3>2 DEF Elements
  <2> QED BY <2>1, <2>2
<1>4. q[Len(q)] \in Elements(q)
  BY SMT, <1>1 DEF Elements
<1> QED
  BY <1>1, <1>2, <1>3, <1>4 DEF f

\* What putting a request back at the front of the wait queue does.
LEMMA QueueCons ==
    ASSUME NEW S, NEW q \in Seq(S), NEW x \in S
    PROVE  /\ <<x>> \o q \in Seq(S)
           /\ Elements(<<x>> \o q) = Elements(q) \cup {x}
           /\ Distinct(q) /\ x \notin Elements(q) => Distinct(<<x>> \o q)
<1> DEFINE p == <<x>> \o q
<1>1. /\ p \in Seq(S)
      /\ Len(q) \in Nat
      /\ Len(p) = Len(q) + 1
      /\ p[1] = x
      /\ \A i \in 1..Len(q) : p[i + 1] = q[i]
  BY SMT
<1> HIDE DEF p
<1>2. \A i \in 1..Len(p) : i = 1 \/ (i - 1 \in 1..Len(q) /\ p[i] = q[i - 1])
  <2> TAKE i \in 1..Len(p)
  <2> SUFFICES ASSUME i # 1 PROVE i - 1 \in 1..Len(q) /\ p[i] = q[i - 1]
    OBVIOUS
  <2>1. i - 1 \in 1..Len(q) /\ (i - 1) + 1 = i
    BY SMT, <1>1
  <2> QED BY <2>1, <1>1
<1>3. Elements(p) = Elements(q) \cup {x}
  <2>1. ASSUME NEW y \in Elements(p) PROVE y \in Elements(q) \cup {x}
    BY SMT, <1>1, <1>2 DEF Elements
  <2>2. ASSUME NEW y \in Elements(q) PROVE y \in Elements(p)
    <3>1. PICK i \in 1..Len(q) : y = q[i]
      BY DEF Elements
    <3>2. i + 1 \in 1..Len(p) /\ y = p[i + 1]
      BY SMT, <3>1, <1>1
    <3> QED BY <3>2 DEF Elements
  <2>3. x \in Elements(p)
    BY SMT, <1>1 DEF Elements
  <2> QED BY <2>1, <2>2, <2>3
<1>4. ASSUME Distinct(q), x \notin Elements(q) PROVE Distinct(p)
  <2>1. \A k \in 1..Len(q) : q[k] # x
    BY <1>4 DEF Elements
  <2> SUFFICES ASSUME NEW i \in 1..Len(p), NEW j \in 1..Len(p), p[i] = p[j] PROVE i = j
    BY DEF Distinct
  <2>2. CASE i = 1 \/ j = 1
    BY Zenon, <2>1, <2>2, <1>1, <1>2
  <2>3. CASE i # 1 /\ j # 1
    <3>1. i - 1 = j - 1
      BY Zenon, <2>3, <1>2, <1>4 DEF Distinct
    <3> QED BY SMT, <3>1, <1>1
  <2> QED BY <2>2, <2>3
<1> QED
  BY <1>1, <1>3, <1>4 DEF p

-----------------------------------------------------------------------------
(* The management channel. *)

\* What the invariant says of the channel alone: each message is in it once,
\* and Used comes before CheckIn.
ChannelInv(q) ==
    /\ Distinct(q)
    /\ \A i, j \in 1..Len(q) : \A c \in Conns :
         q[i] = UsedMsg(c) /\ q[j] = CheckInMsg(c) => i < j

\* The messages about connections differ from each other and from the rest.
LEMMA MessageFacts ==
    /\ \A c \in Conns : /\ CheckInMsg(c) \in ConnMsgType
                        /\ UsedMsg(c) \in ConnMsgType
                        /\ ForPoolMsg(c) \in ConnMsgType
                        /\ FailedMsg(c) \in ConnMsgType
    /\ \A b \in BOOLEAN : ClearMsg(b) \in MsgType /\ ClearMsg(b) \notin ConnMsgType
    /\ ReadyMsg \in MsgType /\ ReadyMsg \notin ConnMsgType
    /\ \A w \in WarmRequests : FillPoolMsg(w) \in MsgType /\ FillPoolMsg(w) \notin ConnMsgType
    /\ ConnMsgType \subseteq MsgType
    /\ \A m \in MsgType :
         /\ m.type = "CheckIn" => m.conn \in Conns /\ m = CheckInMsg(m.conn)
         /\ m.type = "Used" => m.conn \in Conns /\ m = UsedMsg(m.conn)
         /\ m.type = "ForPool" => m.conn \in Conns /\ m = ForPoolMsg(m.conn)
         /\ m.type = "Failed" => m.conn \in Conns /\ m = FailedMsg(m.conn)
         /\ m.type = "Clear" => m \notin ConnMsgType /\ m.interrupt \in BOOLEAN
         /\ m.type = "MarkAsReady" => m \notin ConnMsgType
         /\ m.type = "FillPool" => m \notin ConnMsgType /\ m.task \in WarmRequests
    /\ \A c, d \in Conns : /\ CheckInMsg(c) = CheckInMsg(d) => c = d
                           /\ UsedMsg(c) = UsedMsg(d) => c = d
                           /\ ForPoolMsg(c) = ForPoolMsg(d) => c = d
                           /\ FailedMsg(c) = FailedMsg(d) => c = d
                           /\ CheckInMsg(c) # UsedMsg(d)
                           /\ CheckInMsg(c) # ForPoolMsg(d)
                           /\ CheckInMsg(c) # FailedMsg(d)
                           /\ UsedMsg(c) # ForPoolMsg(d)
                           /\ UsedMsg(c) # FailedMsg(d)
                           /\ ForPoolMsg(c) # FailedMsg(d)
  BY SMT DEF CheckInMsg, UsedMsg, ForPoolMsg, FailedMsg, ClearMsg, ReadyMsg, FillPoolMsg,
         ConnMsgType, MsgType

\* A send keeps the channel in order when the message is new to it and, for a
\* Used message, no CheckIn of the same connection is ahead of it.
LEMMA ChannelAppend ==
    ASSUME NEW q \in Seq(MsgType), NEW m \in MsgType, ChannelInv(q),
           m \notin Elements(q),
           \A c \in Conns : m = UsedMsg(c) => CheckInMsg(c) \notin Elements(q)
    PROVE  ChannelInv(Append(q, m))
<1> DEFINE p == Append(q, m)
<1>1. /\ Len(q) \in Nat
      /\ Len(p) = Len(q) + 1
      /\ \A i \in 1..Len(q) : p[i] = q[i]
      /\ p[Len(q) + 1] = m
  BY SMT
<1> HIDE DEF p
<1>2. \A i \in 1..Len(p) : i \in 1..Len(q) \/ i = Len(q) + 1
  BY SMT, <1>1
<1>3. Distinct(p)
  BY QueueAppend DEF ChannelInv, p
<1>4. ASSUME NEW i \in 1..Len(p), NEW j \in 1..Len(p), NEW c \in Conns,
             p[i] = UsedMsg(c), p[j] = CheckInMsg(c)
      PROVE  i < j
  <2>1. CASE i \in 1..Len(q) /\ j \in 1..Len(q)
    BY <2>1, <1>1, <1>4 DEF ChannelInv
  <2>2. CASE i \in 1..Len(q) /\ j = Len(q) + 1
    BY SMT, <2>2, <1>1
  <2>3. CASE i = Len(q) + 1 /\ j \in 1..Len(q)
    BY <2>3, <1>1, <1>4 DEF Elements
  <2>4. CASE i = Len(q) + 1 /\ j = Len(q) + 1
    BY <2>4, <1>4, MessageFacts
  <2> QED BY <2>1, <2>2, <2>3, <2>4, <1>2
<1> QED
  BY <1>3, <1>4 DEF ChannelInv, p

\* A receive keeps the channel in order, takes the only copy of the message,
\* and meets the CheckIn of a connection after its Used.
LEMMA ChannelTail ==
    ASSUME NEW q \in Seq(MsgType), q # <<>>, ChannelInv(q)
    PROVE  /\ Tail(q) \in Seq(MsgType)
           /\ Head(q) \in MsgType
           /\ Head(q) \in Elements(q)
           /\ ChannelInv(Tail(q))
           /\ Elements(Tail(q)) = Elements(q) \ {Head(q)}
           /\ \A c \in Conns : Head(q) = CheckInMsg(c) => UsedMsg(c) \notin Elements(q)
<1> DEFINE t == Tail(q)
<1>1. /\ t \in Seq(MsgType)
      /\ Len(q) \in Nat \ {0}
      /\ Len(t) = Len(q) - 1
      /\ \A i \in 1..Len(q)-1 : t[i] = q[i + 1]
      /\ Head(q) = q[1]
      /\ Head(q) \in MsgType
      /\ Head(q) \in Elements(q)
      /\ Elements(q) = Elements(t) \cup {Head(q)}
  BY SMT, QueueTail
<1> HIDE DEF t
<1>2. \A i \in 1..Len(t) : i + 1 \in 1..Len(q) /\ t[i] = q[i + 1]
  BY SMT, <1>1
<1>3. ChannelInv(t)
  <2>1. Distinct(t)
    BY QueueTail DEF ChannelInv, t
  <2>2. ASSUME NEW i \in 1..Len(t), NEW j \in 1..Len(t), NEW c \in Conns,
               t[i] = UsedMsg(c), t[j] = CheckInMsg(c)
        PROVE  i < j
    <3>1. i + 1 < j + 1
      BY ZenonT(30), <2>2, <1>2 DEF ChannelInv
    <3> QED BY SMT, <3>1, <1>1
  <2> QED BY <2>1, <2>2 DEF ChannelInv
<1>4. Elements(t) = Elements(q) \ {Head(q)}
  BY QueueTail DEF ChannelInv, t
<1>5. ASSUME NEW c \in Conns, Head(q) = CheckInMsg(c), UsedMsg(c) \in Elements(q) PROVE FALSE
  <2>1. PICK i \in 1..Len(q) : UsedMsg(c) = q[i]
    BY <1>5 DEF Elements
  <2>2. 1 \in 1..Len(q)
    BY SMT, <1>1
  <2>3. i < 1
    BY <2>1, <2>2, <1>5, <1>1 DEF ChannelInv
  <2> QED BY SMT, <2>3
<1> QED
  BY <1>1, <1>3, <1>4, <1>5 DEF t

-----------------------------------------------------------------------------
(* Type correctness. *)

\* What the assumptions on the constants give.
LEMMA ConstantFacts ==
    /\ NoConn \in ConnType
    /\ OpRequests \subseteq Requests
    /\ WarmRequests \subseteq Requests
    /\ NoRequest \notin Requests
    /\ Requests = OpRequests \cup WarmRequests
  BY SMTT(30), ConstantsAssumption DEF NoConn, ConnType, Places, Healths, Requests

\* The pool state, the worker's position and the handles stay in their ranges.
LEMMA ScalarsStep ==
    ASSUME TypeOK, [Next]_vars
    PROVE  /\ poolState' \in PoolStates
           /\ generation' \in Nat
           /\ pc' \in Pcs
           /\ handles' \in BOOLEAN
<1> DEFINE Goal == /\ poolState' \in PoolStates
                   /\ generation' \in Nat
                   /\ pc' \in Pcs
                   /\ handles' \in BOOLEAN
<1>0. /\ poolState \in PoolStates
      /\ generation \in Nat
      /\ pc \in Pcs
      /\ handles \in BOOLEAN
  BY DEF TypeOK
<1> USE <1>0 DEF PoolStates, Pcs
<1>1. ASSUME NEW r \in OpRequests, RequestConnection(r) PROVE Goal
  BY <1>1 DEF RequestConnection, workerVars, queueVars, loopVars
<1>2. ASSUME NEW r \in OpRequests, Abandon(r) PROVE Goal
  BY <1>2 DEF Abandon, workerVars, queueVars, loopVars
<1>3. ASSUME NEW r \in OpRequests, AbandonEstablishing(r) PROVE Goal
  BY <1>3 DEF AbandonEstablishing, workerVars, queueVars, loopVars
<1>4. ASSUME NEW c \in Conns, BeginCommand(c) PROVE Goal
  BY <1>4 DEF BeginCommand, workerVars, queueVars, loopVars
<1>5. ASSUME NEW c \in Conns, EndCommand(c) PROVE Goal
  BY <1>5 DEF EndCommand, workerVars, queueVars, loopVars
<1>6. ASSUME NEW c \in Conns, FailCommand(c) PROVE Goal
  BY <1>6 DEF FailCommand, workerVars, queueVars, loopVars
<1>7. ASSUME NEW c \in Conns, Drop(c) PROVE Goal
  BY <1>7 DEF Drop, Send, workerVars, queueVars, loopVars
<1>8. ASSUME NEW c \in Conns, EstablishSucceeds(c) PROVE Goal
  BY <1>8 DEF EstablishSucceeds, Send, workerVars, queueVars, loopVars
<1>9. ASSUME NEW c \in Conns, EstablishFails(c) PROVE Goal
  BY <1>9 DEF EstablishFails, workerVars, queueVars, loopVars
<1>10. ASSUME NEW c \in Conns, ReportFailure(c) PROVE Goal
  BY <1>10 DEF ReportFailure, Send, workerVars, queueVars, loopVars
<1>11. ASSUME NEW b \in BOOLEAN, SendClear(b) PROVE Goal
  BY <1>11 DEF SendClear, Send, workerVars, queueVars, loopVars
<1>12. CASE SendMarkAsReady
  BY <1>12 DEF SendMarkAsReady, Send, workerVars, queueVars, loopVars
<1>13. CASE DropHandles
  BY Zenon, <1>13 DEF DropHandles, workerVars, queueVars, loopVars
<1>14. ASSUME NEW w \in WarmRequests, BroadcastFillPool(w) PROVE Goal
  BY <1>14 DEF BroadcastFillPool, Send, workerVars, queueVars, loopVars
<1>15. ASSUME NEW w \in WarmRequests, RequestWarmPool(w) PROVE Goal
  BY <1>15 DEF RequestWarmPool, workerVars, queueVars, loopVars
<1>16. ASSUME NEW w \in WarmRequests, AcknowledgeFill(w) PROVE Goal
  BY <1>16 DEF AcknowledgeFill, workerVars, queueVars, loopVars
<1>17. CASE CheckIn
  BY <1>17 DEF CheckIn, Receive, workerVars, queueVars, loopVars
<1>18. CASE Clear
  BY SMT, <1>18 DEF Clear, Receive, workerVars, queueVars, loopVars
<1>19. CASE MarkAsReady
  BY <1>19 DEF MarkAsReady, Receive, workerVars, queueVars, loopVars
<1>20. CASE HandleConnectionSucceeded
  BY <1>20 DEF HandleConnectionSucceeded, Receive, workerVars, queueVars, loopVars
<1>21. CASE HandleConnectionFailed
  BY <1>21 DEF HandleConnectionFailed, Receive, workerVars, queueVars, loopVars
<1>22. CASE SpawnFillPool
  BY <1>22 DEF SpawnFillPool, Receive, workerVars, queueVars, loopVars
<1>23. CASE LeaveLoop
  BY <1>23 DEF LeaveLoop, workerVars, queueVars, loopVars
<1>24. CASE CloseChannels
  BY <1>24 DEF CloseChannels, workerVars, queueVars, loopVars
<1>25. CASE ReceiveRequest
  BY <1>25 DEF ReceiveRequest, workerVars, queueVars, loopVars
<1>26. CASE StartMaintenance
  BY <1>26 DEF StartMaintenance, workerVars, queueVars, loopVars
<1>27. CASE RemovePerished
  BY <1>27 DEF RemovePerished, CloseConnection, workerVars, queueVars, loopVars
<1>28. CASE EnsureMinConnections
  BY <1>28 DEF EnsureMinConnections, CreatePendingConnection, workerVars, queueVars, loopVars
<1>29. CASE ServeWaiters
  BY <1>29 DEF ServeWaiters, workerVars, queueVars, loopVars
<1>30. CASE AnswerPoolWarmed
  BY <1>30 DEF AnswerPoolWarmed, Answer, workerVars, queueVars, loopVars
<1>31. CASE DiscardPerished
  BY <1>31 DEF DiscardPerished, CloseConnection, workerVars, queueVars, loopVars
<1>32. CASE HandOut
  BY <1>32 DEF HandOut, Answer, workerVars, queueVars, loopVars
<1>33. CASE CreateForRequest
  BY <1>33 DEF CreateForRequest, CreatePendingConnection, NothingToHandOut, workerVars, queueVars, loopVars
<1>34. CASE RequeueAtFront
  BY <1>34 DEF RequeueAtFront, NothingToHandOut, workerVars, queueVars, loopVars
<1>35. ASSUME NEW c \in Conns, BecomeIdle(c) PROVE Goal
  BY <1>35 DEF BecomeIdle, workerVars, queueVars, loopVars
<1>36. CASE UNCHANGED vars
  BY SMTT(30), <1>36 DEF vars
<1>37. CASE OperationStep
  BY Zenon, <1>37, <1>1, <1>2, <1>3, <1>4, <1>5, <1>6, <1>7 DEF OperationStep
<1>38. CASE EstablishStep \/ TopologyStep \/ WarmStep
  BY Zenon, <1>38, <1>8, <1>9, <1>10, <1>11, <1>12, <1>13, <1>14, <1>15, <1>16
     DEF EstablishStep, TopologyStep, WarmStep
<1>39. CASE ManagementStep
  BY Zenon, <1>39, <1>17, <1>18, <1>19, <1>20, <1>21, <1>22 DEF ManagementStep
<1>40. CASE LoopStep
  BY Zenon, <1>40, <1>27, <1>28, <1>29, <1>30, <1>31, <1>32, <1>33, <1>34 DEF LoopStep
<1> QED
  BY Zenon, <1>23, <1>24, <1>25, <1>26, <1>35, <1>36, <1>37, <1>38, <1>39, <1>40 DEF Next, WorkerStep

\* The requests, and the request check_out works on, stay in their ranges.
LEMMA RequestsTyped ==
    ASSUME TypeOK, [Next]_vars
    PROVE  /\ req' \in [Requests -> OpStates \cup WarmStates]
           /\ cur' \in Requests \cup {NoRequest}
<1> DEFINE Goal == /\ req' \in [Requests -> OpStates \cup WarmStates]
                   /\ cur' \in Requests \cup {NoRequest}
<1>0. /\ req \in [Requests -> OpStates \cup WarmStates]
      /\ cur \in Requests \cup {NoRequest}
      /\ waitQueue \in Seq(Requests)
      /\ waitQueue # <<>> => Head(waitQueue) \in Requests
  BY SMT DEF TypeOK
<1> USE <1>0, ConstantFacts DEF OpStates, WarmStates
<1>1. ASSUME NEW r \in OpRequests, RequestConnection(r) PROVE Goal
  BY <1>1 DEF RequestConnection, workerVars, queueVars, loopVars
<1>2. ASSUME NEW r \in OpRequests, Abandon(r) PROVE Goal
  BY <1>2 DEF Abandon, workerVars, queueVars, loopVars
<1>3. ASSUME NEW r \in OpRequests, AbandonEstablishing(r) PROVE Goal
  BY <1>3 DEF AbandonEstablishing, workerVars, queueVars, loopVars
<1>4. ASSUME NEW c \in Conns, BeginCommand(c) PROVE Goal
  BY <1>4 DEF BeginCommand, workerVars, queueVars, loopVars
<1>5. ASSUME NEW c \in Conns, EndCommand(c) PROVE Goal
  BY <1>5 DEF EndCommand, workerVars, queueVars, loopVars
<1>6. ASSUME NEW c \in Conns, FailCommand(c) PROVE Goal
  BY <1>6 DEF FailCommand, workerVars, queueVars, loopVars
<1>7. ASSUME NEW c \in Conns, Drop(c) PROVE Goal
  BY <1>7 DEF Drop, Send, workerVars, queueVars, loopVars
<1>8. ASSUME NEW c \in Conns, EstablishSucceeds(c) PROVE Goal
  BY <1>8 DEF EstablishSucceeds, Send, workerVars, queueVars, loopVars
<1>9. ASSUME NEW c \in Conns, EstablishFails(c) PROVE Goal
  BY <1>9 DEF EstablishFails, workerVars, queueVars, loopVars
<1>10. ASSUME NEW c \in Conns, ReportFailure(c) PROVE Goal
  BY <1>10 DEF ReportFailure, Send, workerVars, queueVars, loopVars
<1>11. ASSUME NEW b \in BOOLEAN, SendClear(b) PROVE Goal
  BY <1>11 DEF SendClear, Send, workerVars, queueVars, loopVars
<1>12. CASE SendMarkAsReady
  BY <1>12 DEF SendMarkAsReady, Send, workerVars, queueVars, loopVars
<1>13. CASE DropHandles
  BY <1>13 DEF DropHandles, workerVars, queueVars, loopVars
<1>14. ASSUME NEW w \in WarmRequests, BroadcastFillPool(w) PROVE Goal
  BY <1>14 DEF BroadcastFillPool, Send, workerVars, queueVars, loopVars
<1>15. ASSUME NEW w \in WarmRequests, RequestWarmPool(w) PROVE Goal
  BY <1>15 DEF RequestWarmPool, workerVars, queueVars, loopVars
<1>16. ASSUME NEW w \in WarmRequests, AcknowledgeFill(w) PROVE Goal
  BY <1>16 DEF AcknowledgeFill, workerVars, queueVars, loopVars
<1>17. CASE CheckIn
  BY <1>17 DEF CheckIn, Receive, workerVars, queueVars, loopVars
<1>18. CASE Clear
  BY <1>18 DEF Clear, Receive, workerVars, queueVars, loopVars, Released
<1>19. CASE MarkAsReady
  BY <1>19 DEF MarkAsReady, Receive, workerVars, queueVars, loopVars
<1>20. CASE HandleConnectionSucceeded
  BY <1>20 DEF HandleConnectionSucceeded, Receive, workerVars, queueVars, loopVars
<1>21. CASE HandleConnectionFailed
  BY <1>21 DEF HandleConnectionFailed, Receive, workerVars, queueVars, loopVars
<1>22. CASE SpawnFillPool
  BY Zenon, <1>22 DEF SpawnFillPool, Receive, workerVars, queueVars, loopVars
<1>23. CASE LeaveLoop
  BY <1>23 DEF LeaveLoop, workerVars, queueVars, loopVars
<1>24. CASE CloseChannels
  BY <1>24 DEF CloseChannels, workerVars, queueVars, loopVars, Released
<1>25. CASE ReceiveRequest
  BY <1>25 DEF ReceiveRequest, workerVars, queueVars, loopVars, Released
<1>26. CASE StartMaintenance
  BY <1>26 DEF StartMaintenance, workerVars, queueVars, loopVars
<1>27. CASE RemovePerished
  BY <1>27 DEF RemovePerished, CloseConnection, workerVars, queueVars, loopVars
<1>28. CASE EnsureMinConnections
  BY <1>28 DEF EnsureMinConnections, CreatePendingConnection, workerVars, queueVars, loopVars
<1>29. CASE ServeWaiters
  BY <1>29 DEF ServeWaiters, workerVars, queueVars, loopVars
<1>30. CASE AnswerPoolWarmed
  BY <1>30 DEF AnswerPoolWarmed, Answer, workerVars, queueVars, loopVars
<1>31. CASE DiscardPerished
  BY <1>31 DEF DiscardPerished, CloseConnection, workerVars, queueVars, loopVars
<1>32. CASE HandOut
  BY <1>32 DEF HandOut, Answer, workerVars, queueVars, loopVars
<1>33. CASE CreateForRequest
  BY <1>33 DEF CreateForRequest, CreatePendingConnection, NothingToHandOut, workerVars, queueVars, loopVars
<1>34. CASE RequeueAtFront
  BY <1>34 DEF RequeueAtFront, NothingToHandOut, workerVars, queueVars, loopVars
<1>35. ASSUME NEW c \in Conns, BecomeIdle(c) PROVE Goal
  BY <1>35 DEF BecomeIdle, workerVars, queueVars, loopVars
<1>36. CASE UNCHANGED vars
  BY SMTT(30), <1>36 DEF vars
<1>37. CASE OperationStep
  BY Zenon, <1>37, <1>1, <1>2, <1>3, <1>4, <1>5, <1>6, <1>7 DEF OperationStep
<1>38. CASE EstablishStep \/ TopologyStep \/ WarmStep
  BY Zenon, <1>38, <1>8, <1>9, <1>10, <1>11, <1>12, <1>13, <1>14, <1>15, <1>16
     DEF EstablishStep, TopologyStep, WarmStep
<1>39. CASE ManagementStep
  BY Zenon, <1>39, <1>17, <1>18, <1>19, <1>20, <1>21, <1>22 DEF ManagementStep
<1>40. CASE LoopStep
  BY Zenon, <1>40, <1>27, <1>28, <1>29, <1>30, <1>31, <1>32, <1>33, <1>34 DEF LoopStep
<1> QED
  BY Zenon, <1>23, <1>24, <1>25, <1>26, <1>35, <1>36, <1>37, <1>38, <1>39, <1>40 DEF Next, WorkerStep

\* The queues of connections, requests and messages hold nothing else.
LEMMA QueuesTyped ==
    ASSUME TypeOK, [Next]_vars, Distinct(available), LoopInv
    PROVE  /\ available' \in Seq(Conns)
           /\ waitQueue' \in Seq(Requests)
           /\ requestQueue' \in Seq(Requests)
           /\ mgmt' \in Seq(MsgType)
<1> DEFINE Goal == /\ available' \in Seq(Conns)
                   /\ waitQueue' \in Seq(Requests)
                   /\ requestQueue' \in Seq(Requests)
                   /\ mgmt' \in Seq(MsgType)
<1>0. /\ available \in Seq(Conns)
      /\ waitQueue \in Seq(Requests)
      /\ requestQueue \in Seq(Requests)
      /\ mgmt \in Seq(MsgType)
      /\ cur \in Requests \cup {NoRequest}
      /\ pc = "checkOut" => cur \in Requests
      /\ \A c \in Conns : /\ CheckInMsg(c) \in MsgType
                          /\ UsedMsg(c) \in MsgType
                          /\ ForPoolMsg(c) \in MsgType
                          /\ FailedMsg(c) \in MsgType
      /\ mgmt # <<>> => /\ Head(mgmt) \in MsgType
                        /\ Head(mgmt).type = "CheckIn" => Head(mgmt).conn \in Conns
                        /\ Head(mgmt).type = "ForPool" => Head(mgmt).conn \in Conns
  <2>1. mgmt \in Seq(MsgType)
    BY DEF TypeOK
  <2>2. mgmt # <<>> => Head(mgmt) \in MsgType
    BY SMT, <2>1
  <2> QED BY <2>1, <2>2, MessageFacts DEF TypeOK, LoopInv
<1>a. /\ available # <<>> => SubSeq(available, 1, Len(available) - 1) \in Seq(Conns)
      /\ available # <<>> => Tail(available) \in Seq(Conns)
      /\ \A c \in Conns : Append(available, c) \in Seq(Conns)
  <2>1. available # <<>> => SubSeq(available, 1, Len(available) - 1) \in Seq(Conns)
    BY <1>0, QueueFront
  <2> QED BY SMT, <1>0, <2>1
<1>b. /\ <<>> \in Seq(Requests)
      /\ waitQueue # <<>> => Tail(waitQueue) \in Seq(Requests)
      /\ requestQueue # <<>> => Tail(requestQueue) \in Seq(Requests)
      /\ requestQueue # <<>> => Head(requestQueue) \in Requests
      /\ \A r \in Requests : /\ Append(waitQueue, r) \in Seq(Requests)
                             /\ Append(requestQueue, r) \in Seq(Requests)
                             /\ <<r>> \o waitQueue \in Seq(Requests)
  BY SMT, <1>0
<1>m. /\ <<>> \in Seq(MsgType) /\ <<>> \in Seq(Conns)
      /\ mgmt # <<>> => Tail(mgmt) \in Seq(MsgType)
      /\ \A m \in MsgType : Append(mgmt, m) \in Seq(MsgType)
  BY SMTT(30), <1>0
<1> USE <1>0, <1>a, <1>b, <1>m, ConstantFacts
<1>1. ASSUME NEW r \in OpRequests, RequestConnection(r) PROVE Goal
  BY <1>1 DEF RequestConnection, workerVars, queueVars, loopVars
<1>2. ASSUME NEW r \in OpRequests, Abandon(r) PROVE Goal
  BY <1>2 DEF Abandon, workerVars, queueVars, loopVars
<1>3. ASSUME NEW r \in OpRequests, AbandonEstablishing(r) PROVE Goal
  BY <1>3 DEF AbandonEstablishing, workerVars, queueVars, loopVars
<1>4. ASSUME NEW c \in Conns, BeginCommand(c) PROVE Goal
  BY <1>4 DEF BeginCommand, workerVars, queueVars, loopVars
<1>5. ASSUME NEW c \in Conns, EndCommand(c) PROVE Goal
  BY <1>5 DEF EndCommand, workerVars, queueVars, loopVars
<1>6. ASSUME NEW c \in Conns, FailCommand(c) PROVE Goal
  BY <1>6 DEF FailCommand, workerVars, queueVars, loopVars
<1>7. ASSUME NEW c \in Conns, Drop(c) PROVE Goal
  BY <1>7 DEF Drop, Send, workerVars, queueVars, loopVars
<1>8. ASSUME NEW c \in Conns, EstablishSucceeds(c) PROVE Goal
  BY ZenonT(30), <1>8 DEF EstablishSucceeds, Send, workerVars, queueVars, loopVars
<1>9. ASSUME NEW c \in Conns, EstablishFails(c) PROVE Goal
  BY <1>9 DEF EstablishFails, workerVars, queueVars, loopVars
<1>10. ASSUME NEW c \in Conns, ReportFailure(c) PROVE Goal
  BY <1>10 DEF ReportFailure, Send, workerVars, queueVars, loopVars
<1>11. ASSUME NEW b \in BOOLEAN, SendClear(b) PROVE Goal
  BY <1>11, MessageFacts DEF SendClear, Send, workerVars, queueVars, loopVars
<1>12. CASE SendMarkAsReady
  BY <1>12, MessageFacts DEF SendMarkAsReady, Send, workerVars, queueVars, loopVars
<1>13. CASE DropHandles
  BY SMTT(30), <1>13 DEF DropHandles, workerVars, queueVars, loopVars
<1>14. ASSUME NEW w \in WarmRequests, BroadcastFillPool(w) PROVE Goal
  BY <1>14, MessageFacts DEF BroadcastFillPool, Send, workerVars, queueVars, loopVars
<1>15. ASSUME NEW w \in WarmRequests, RequestWarmPool(w) PROVE Goal
  BY Zenon, <1>15 DEF RequestWarmPool, workerVars, queueVars, loopVars
<1>16. ASSUME NEW w \in WarmRequests, AcknowledgeFill(w) PROVE Goal
  BY <1>16 DEF AcknowledgeFill, workerVars, queueVars, loopVars
<1>17. CASE CheckIn
  BY Zenon, <1>17 DEF CheckIn, Receive, workerVars, queueVars, loopVars
<1>18. CASE Clear
  BY Zenon, <1>18 DEF Clear, Receive, workerVars, queueVars, loopVars
<1>19. CASE MarkAsReady
  BY <1>19 DEF MarkAsReady, Receive, workerVars, queueVars, loopVars
<1>20. CASE HandleConnectionSucceeded
  BY Zenon, <1>20 DEF HandleConnectionSucceeded, Receive, workerVars, queueVars, loopVars
<1>21. CASE HandleConnectionFailed
  BY <1>21 DEF HandleConnectionFailed, Receive, workerVars, queueVars, loopVars
<1>22. CASE SpawnFillPool
  BY <1>22 DEF SpawnFillPool, Receive, workerVars, queueVars, loopVars
<1>23. CASE LeaveLoop
  BY <1>23 DEF LeaveLoop, workerVars, queueVars, loopVars
<1>24. CASE CloseChannels
  BY <1>24 DEF CloseChannels, workerVars, queueVars, loopVars
<1>25. CASE ReceiveRequest
  BY Zenon, <1>25 DEF ReceiveRequest, workerVars, queueVars, loopVars
<1>26. CASE StartMaintenance
  BY <1>26 DEF StartMaintenance, workerVars, queueVars, loopVars
<1>27. CASE RemovePerished
  BY Zenon, <1>27 DEF RemovePerished, CloseConnection, workerVars, queueVars, loopVars
<1>28. CASE EnsureMinConnections
  BY <1>28 DEF EnsureMinConnections, CreatePendingConnection, workerVars, queueVars, loopVars
<1>29. CASE ServeWaiters
  BY Zenon, <1>29 DEF ServeWaiters, workerVars, queueVars, loopVars
<1>30. CASE AnswerPoolWarmed
  BY <1>30 DEF AnswerPoolWarmed, Answer, workerVars, queueVars, loopVars
<1>31. CASE DiscardPerished
  BY <1>31 DEF DiscardPerished, CloseConnection, workerVars, queueVars, loopVars
<1>32. CASE HandOut
  BY Zenon, <1>32 DEF HandOut, Answer, workerVars, queueVars, loopVars
<1>33. CASE CreateForRequest
  BY <1>33 DEF CreateForRequest, CreatePendingConnection, NothingToHandOut, workerVars, queueVars, loopVars
<1>34. CASE RequeueAtFront
  BY <1>34 DEF RequeueAtFront, NothingToHandOut, workerVars, queueVars, loopVars
<1>35. ASSUME NEW c \in Conns, BecomeIdle(c) PROVE Goal
  BY <1>35 DEF BecomeIdle, workerVars, queueVars, loopVars
<1>36. CASE UNCHANGED vars
  BY <1>36 DEF vars
<1> QED
  BY ZenonT(30), <1>1, <1>2, <1>3, <1>4, <1>5, <1>6, <1>7, <1>8, <1>9, <1>10, <1>11, <1>12, <1>13,
     <1>14, <1>15, <1>16, <1>17, <1>18, <1>19, <1>20, <1>21, <1>22, <1>23, <1>24, <1>25,
     <1>26, <1>27, <1>28, <1>29, <1>30, <1>31, <1>32, <1>33, <1>34, <1>35, <1>36 DEF
     Next, OperationStep, EstablishStep, TopologyStep, WarmStep, ManagementStep,
     LoopStep, WorkerStep

\* The updates of a connection's record that the steps make.
LEMMA ConnUpdates ==
    ASSUME NEW k \in ConnType
    PROVE  /\ \A p \in Places : [k EXCEPT !.at = p] \in ConnType
           /\ \A h \in Healths : [k EXCEPT !.health = h] \in ConnType
           /\ \A r \in Requests \cup {NoRequest} : [k EXCEPT !.holder = r] \in ConnType
           /\ \A b \in BOOLEAN : [k EXCEPT !.cancelled = b] \in ConnType
           /\ [k EXCEPT !.idle = TRUE] \in ConnType
<1>1. ASSUME NEW p \in Places PROVE [k EXCEPT !.at = p] \in ConnType
  BY DEF ConnType
<1>2. ASSUME NEW h \in Healths PROVE [k EXCEPT !.health = h] \in ConnType
  BY DEF ConnType
<1>3. ASSUME NEW r \in Requests \cup {NoRequest} PROVE [k EXCEPT !.holder = r] \in ConnType
  BY DEF ConnType
<1>4. ASSUME NEW b \in BOOLEAN PROVE [k EXCEPT !.cancelled = b] \in ConnType
  BY Zenon DEF ConnType
<1>5. [k EXCEPT !.idle = TRUE] \in ConnType
  BY Zenon DEF ConnType
<1> QED BY <1>1, <1>2, <1>3, <1>4, <1>5

\* Updates of several fields, one field after the other.
LEMMA ConnSeveral ==
    ASSUME NEW k \in ConnType
    PROVE  /\ \A p \in Places : [[k EXCEPT !.at = p] EXCEPT !.cancelled = FALSE] \in ConnType
           /\ \A r \in Requests : [[k EXCEPT !.at = "out"] EXCEPT !.holder = r] \in ConnType
           /\ [k EXCEPT !.at = "checkIn", !.holder = NoRequest, !.cancelled = FALSE] \in ConnType
<1>1. ASSUME NEW p \in Places PROVE [[k EXCEPT !.at = p] EXCEPT !.cancelled = FALSE] \in ConnType
  <2>1. [k EXCEPT !.at = p] \in ConnType
    BY Zenon, ConnUpdates
  <2> QED BY Zenon, <2>1, ConnUpdates
<1>2. ASSUME NEW r \in Requests PROVE [[k EXCEPT !.at = "out"] EXCEPT !.holder = r] \in ConnType
  <2>1. [k EXCEPT !.at = "out"] \in ConnType
    BY Zenon, ConnUpdates DEF Places
  <2> QED BY Zenon, <2>1, ConnUpdates
<1>3. [k EXCEPT !.at = "checkIn", !.holder = NoRequest, !.cancelled = FALSE] \in ConnType
  <2>1. [k EXCEPT !.at = "checkIn"] \in ConnType
    BY Zenon, ConnUpdates DEF Places
  <2>2. [[k EXCEPT !.at = "checkIn"] EXCEPT !.holder = NoRequest] \in ConnType
    BY Zenon, <2>1, ConnUpdates
  <2>3. [[[k EXCEPT !.at = "checkIn"] EXCEPT !.holder = NoRequest] EXCEPT !.cancelled = FALSE]
          \in ConnType
    BY Zenon, <2>2, ConnUpdates
  <2> QED BY <2>3
<1> QED BY Zenon, <1>1, <1>2, <1>3

\* The records of connections that are not there, fail or are about to be established.
LEMMA ConnNew ==
    /\ NoConn \in ConnType
    /\ \A p \in Places : [NoConn EXCEPT !.at = p] \in ConnType
    /\ \A g \in Nat, r \in Requests \cup {NoRequest}, b \in BOOLEAN :
         [NoConn EXCEPT !.at = "pending", !.gen = g, !.holder = r, !.forPool = b] \in ConnType
<1>1. NoConn \in ConnType
  BY DEF ConnType, NoConn, Places, Healths
<1>2. ASSUME NEW g \in Nat, NEW r \in Requests \cup {NoRequest}, NEW b \in BOOLEAN
      PROVE  [NoConn EXCEPT !.at = "pending", !.gen = g, !.holder = r, !.forPool = b] \in ConnType
  BY ZenonT(30) DEF ConnType, NoConn, Places, Healths
<1> QED BY Zenon, <1>1, <1>2, ConnUpdates

\* Each connection keeps the shape of a connection.
LEMMA ConnsTyped ==
    ASSUME TypeOK, [Next]_vars, LoopInv
    PROVE  conn' \in [Conns -> ConnType]
<1> DEFINE Goal == conn' \in [Conns -> ConnType]
<1>c. conn \in [Conns -> ConnType]
  BY DEF TypeOK
<1>g. generation \in Nat /\ cur \in Requests \cup {NoRequest}
  BY DEF TypeOK
<1>m. \A t \in {"CheckIn", "ForPool", "Failed"} : Receive(t) => Head(mgmt).conn \in Conns
  <2>1. mgmt # <<>> => Head(mgmt) \in MsgType
    BY SMT DEF TypeOK
  <2> QED BY <2>1, MessageFacts DEF Receive
<1>r. available # <<>> => MostRecent \in Conns
  BY SMT DEF TypeOK, MostRecent
<1>u. UNCHANGED conn => Goal
  BY <1>c
\* A step that replaces the record of one connection.
<1>o. ASSUME NEW c \in Conns, NEW k \in ConnType, conn' = [conn EXCEPT ![c] = k] PROVE Goal
  BY <1>o, <1>c
<1>1. ASSUME NEW r \in OpRequests, RequestConnection(r) PROVE Goal
  BY <1>1, <1>u DEF RequestConnection
<1>2. ASSUME NEW r \in OpRequests, Abandon(r) PROVE Goal
  BY <1>2, <1>u DEF Abandon
<1>3. ASSUME NEW r \in OpRequests, AbandonEstablishing(r) PROVE Goal
  <2>1. \A c \in Conns : [conn[c] EXCEPT !.holder = NoRequest] \in ConnType
    BY Zenon, <1>c, ConnUpdates
  <2> QED BY <1>3, <1>c, <2>1 DEF AbandonEstablishing
<1>4. ASSUME NEW c \in Conns, BeginCommand(c) PROVE Goal
  <2>1. conn' = [conn EXCEPT ![c].health = IF conn[c].cancelled THEN "errored" ELSE "executing"]
    BY <1>4 DEF BeginCommand
  <2>2. [conn[c] EXCEPT !.health = IF conn[c].cancelled THEN "errored" ELSE "executing"] \in ConnType
    BY Zenon, <1>c, ConnUpdates DEF Healths
  <2> QED BY Zenon, <2>1, <2>2, <1>o
<1>5. ASSUME NEW c \in Conns, EndCommand(c) PROVE Goal
  <2>1. conn' = [conn EXCEPT ![c].health = "clean"]
    BY <1>5 DEF EndCommand
  <2>2. [conn[c] EXCEPT !.health = "clean"] \in ConnType
    BY Zenon, <1>c, ConnUpdates DEF Healths
  <2> QED BY Zenon, <2>1, <2>2, <1>o
<1>6. ASSUME NEW c \in Conns, FailCommand(c) PROVE Goal
  <2>1. conn' = [conn EXCEPT ![c].health = "errored"]
    BY <1>6 DEF FailCommand
  <2>2. [conn[c] EXCEPT !.health = "errored"] \in ConnType
    BY Zenon, <1>c, ConnUpdates DEF Healths
  <2> QED BY Zenon, <2>1, <2>2, <1>o
<1>7. ASSUME NEW c \in Conns, Drop(c) PROVE Goal
  <2>1. \/ conn' = [conn EXCEPT ![c] = [conn[c] EXCEPT !.at = "checkIn", !.holder = NoRequest,
                                                       !.cancelled = FALSE]]
        \/ conn' = [conn EXCEPT ![c] = NoConn]
    BY Zenon, <1>7, <1>c DEF Drop
  <2>2. [conn[c] EXCEPT !.at = "checkIn", !.holder = NoRequest, !.cancelled = FALSE] \in ConnType
    BY Zenon, <1>c, ConnSeveral
  <2> QED BY Zenon, <2>1, <2>2, <1>o, ConnNew
<1>8. ASSUME NEW c \in Conns, EstablishSucceeds(c) PROVE Goal
  <2> DEFINE p == IF Open THEN "forPool" ELSE "dropped"
  <2>1. \/ conn' = [conn EXCEPT ![c].at = p, ![c].cancelled = FALSE]
        \/ conn' = [conn EXCEPT ![c].at = "out"]
    BY <1>8 DEF EstablishSucceeds
  <2>2. p \in Places
    BY SMTT(30) DEF Places
  <2> HIDE DEF p
  <2>3. [[conn[c] EXCEPT !.at = p] EXCEPT !.cancelled = FALSE] \in ConnType
    BY ZenonT(30), <1>c, <2>2, ConnSeveral
  <2>4. [conn[c] EXCEPT !.at = "out"] \in ConnType
    BY Zenon, <1>c, ConnUpdates DEF Places
  <2>5. CASE conn' = [conn EXCEPT ![c].at = "out"]
    BY Zenon, <2>4, <2>5, <1>o
  <2>6. CASE conn' = [conn EXCEPT ![c].at = p, ![c].cancelled = FALSE]
    <3>1. conn' = [conn EXCEPT ![c] = [[conn[c] EXCEPT !.at = p] EXCEPT !.cancelled = FALSE]]
      BY Zenon, <2>6, <1>c
    <3> QED BY Zenon, <3>1, <2>3, <1>o
  <2> QED BY <2>1, <2>5, <2>6
<1>9. ASSUME NEW c \in Conns, EstablishFails(c) PROVE Goal
  <2>1. conn' = [conn EXCEPT ![c].at = "failing"]
    BY <1>9 DEF EstablishFails
  <2>2. [conn[c] EXCEPT !.at = "failing"] \in ConnType
    BY Zenon, <1>c, ConnUpdates DEF Places
  <2> QED BY Zenon, <2>1, <2>2, <1>o
<1>10. ASSUME NEW c \in Conns, ReportFailure(c) PROVE Goal
  <2>1. \/ conn' = [conn EXCEPT ![c] = [NoConn EXCEPT !.at = "failed"]]
        \/ conn' = [conn EXCEPT ![c] = NoConn]
    BY Zenon, <1>10 DEF ReportFailure
  <2>2. [NoConn EXCEPT !.at = "failed"] \in ConnType
    BY Zenon, ConnNew DEF Places
  <2> QED BY Zenon, <2>1, <2>2, <1>o, ConnNew
<1>11. ASSUME NEW b \in BOOLEAN, SendClear(b) PROVE Goal
  BY <1>11, <1>u DEF SendClear
<1>12. CASE SendMarkAsReady
  BY <1>12, <1>u DEF SendMarkAsReady
<1>13. CASE DropHandles
  BY <1>13, <1>u DEF DropHandles
<1>14. ASSUME NEW w \in WarmRequests, BroadcastFillPool(w) PROVE Goal
  BY <1>14, <1>u DEF BroadcastFillPool
<1>15. ASSUME NEW w \in WarmRequests, RequestWarmPool(w) PROVE Goal
  BY <1>15, <1>u DEF RequestWarmPool
<1>16. ASSUME NEW w \in WarmRequests, AcknowledgeFill(w) PROVE Goal
  BY SMTT(30), <1>16, <1>u DEF AcknowledgeFill
<1>17. CASE CheckIn
  <2> DEFINE c == Head(mgmt).conn
  <2>1. /\ c \in Conns
        /\ \/ conn' = [conn EXCEPT ![c].at = "available"]
           \/ conn' = [conn EXCEPT ![c] = NoConn]
    BY SMTT(30), <1>17, <1>m DEF CheckIn
  <2> HIDE DEF c
  <2>2. [conn[c] EXCEPT !.at = "available"] \in ConnType
    BY Zenon, <2>1, <1>c, ConnUpdates DEF Places
  <2> QED BY Zenon, <2>1, <2>2, <1>o, ConnNew
<1>18. CASE Clear
  <2>1. \A c \in Conns : [conn[c] EXCEPT !.cancelled = TRUE] \in ConnType
    BY Zenon, <1>c, ConnUpdates
  <2> QED BY <1>18, <1>c, <2>1 DEF Clear
<1>19. CASE MarkAsReady
  BY <1>19, <1>u DEF MarkAsReady
<1>20. CASE HandleConnectionSucceeded
  <2> DEFINE c == Head(mgmt).conn
  <2>1. \/ conn' = conn
        \/ c \in Conns /\ conn' = [conn EXCEPT ![c].at = "available"]
    BY SMTT(30), <1>20, <1>m DEF HandleConnectionSucceeded
  <2> HIDE DEF c
  <2>2. c \in Conns => [conn[c] EXCEPT !.at = "available"] \in ConnType
    BY Zenon, <1>c, ConnUpdates DEF Places
  <2> QED BY SMTT(30), <2>1, <2>2, <1>o, <1>u
<1>21. CASE HandleConnectionFailed
  <2> DEFINE c == Head(mgmt).conn
  <2>1. c \in Conns /\ conn' = [conn EXCEPT ![c] = NoConn]
    BY <1>21, <1>m DEF HandleConnectionFailed
  <2> HIDE DEF c
  <2> QED BY Zenon, <2>1, <1>o, ConnNew
<1>22. CASE SpawnFillPool
  BY SMTT(30), <1>22, <1>u DEF SpawnFillPool
<1>23. CASE LeaveLoop
  BY ZenonT(30), <1>23, <1>c, ConnNew DEF LeaveLoop
<1>24. CASE CloseChannels
  <2>1. [NoConn EXCEPT !.at = "dropped"] \in ConnType
    BY Zenon, ConnNew DEF Places
  <2> QED BY ZenonT(30), <1>24, <1>c, <2>1, ConnNew DEF CloseChannels
<1>25. CASE ReceiveRequest
  BY <1>25, <1>u DEF ReceiveRequest
<1>26. CASE StartMaintenance
  BY SMTT(30), <1>26, <1>u DEF StartMaintenance
<1>27. CASE RemovePerished
  <2>1. \/ conn' = conn
        \/ \E c \in Conns : conn' = [conn EXCEPT ![c] = NoConn]
    BY <1>27 DEF RemovePerished, CloseConnection, TypeOK
  <2> QED BY Zenon, <2>1, <1>u, <1>o, ConnNew
<1>28. CASE EnsureMinConnections
  <2>1. ASSUME NEW c \in Conns, CreatePendingConnection(c, NoRequest, TRUE) PROVE Goal
    BY Zenon, <2>1, <1>g, <1>o, ConnNew DEF CreatePendingConnection
  <2> QED BY Zenon, <1>28, <2>1, <1>u DEF EnsureMinConnections
<1>29. CASE ServeWaiters
  BY <1>29, <1>u DEF ServeWaiters
<1>30. CASE AnswerPoolWarmed
  BY SMTT(30), <1>30, <1>u DEF AnswerPoolWarmed
<1>31. CASE DiscardPerished
  <2>1. \E c \in Conns : conn' = [conn EXCEPT ![c] = NoConn]
    BY Zenon, <1>31, <1>r DEF DiscardPerished, CloseConnection
  <2> QED BY Zenon, <2>1, <1>o, ConnNew
<1>32. CASE HandOut
  <2> DEFINE c == MostRecent
  <2>1. \/ conn' = conn
        \/ /\ cur \in Requests /\ c \in Conns
           /\ conn' = [conn EXCEPT ![c].at = "out", ![c].holder = cur]
    BY <1>32, <1>g, <1>r DEF HandOut, LoopInv
  <2> HIDE DEF c
  <2>2. CASE conn' = conn
    BY <2>2, <1>u
  <2>3. CASE /\ cur \in Requests /\ c \in Conns
             /\ conn' = [conn EXCEPT ![c].at = "out", ![c].holder = cur]
    <3>1. [[conn[c] EXCEPT !.at = "out"] EXCEPT !.holder = cur] \in ConnType
      BY Zenon, <2>3, <1>c, ConnSeveral
    <3>2. conn' = [conn EXCEPT ![c] = [[conn[c] EXCEPT !.at = "out"] EXCEPT !.holder = cur]]
      BY Zenon, <2>3, <1>c
    <3> QED BY Zenon, <2>3, <3>1, <3>2, <1>o
  <2> QED BY <2>1, <2>2, <2>3
<1>33. CASE CreateForRequest
  <2> DEFINE h == IF IsAbandoned(cur) THEN NoRequest ELSE cur
  <2>1. PICK c \in Conns : CreatePendingConnection(c, h, FALSE)
    BY Zenon, <1>33 DEF CreateForRequest
  <2>2. h \in Requests \cup {NoRequest}
    BY <1>g
  <2> HIDE DEF h
  <2> QED BY Zenon, <2>1, <2>2, <1>g, <1>o, ConnNew DEF CreatePendingConnection
<1>34. CASE RequeueAtFront
  BY <1>34, <1>u DEF RequeueAtFront
<1>35. ASSUME NEW c \in Conns, BecomeIdle(c) PROVE Goal
  <2>1. conn' = [conn EXCEPT ![c].idle = TRUE]
    BY <1>35 DEF BecomeIdle
  <2>2. [conn[c] EXCEPT !.idle = TRUE] \in ConnType
    BY <1>c, ConnUpdates
  <2> QED BY Zenon, <2>1, <2>2, <1>o
<1>36. CASE UNCHANGED vars
  BY <1>36, <1>u DEF vars
<1>37. CASE OperationStep
  BY Zenon, <1>37, <1>1, <1>2, <1>3, <1>4, <1>5, <1>6, <1>7 DEF OperationStep
<1>38. CASE EstablishStep \/ TopologyStep \/ WarmStep
  BY Zenon, <1>38, <1>8, <1>9, <1>10, <1>11, <1>12, <1>13, <1>14, <1>15, <1>16
     DEF EstablishStep, TopologyStep, WarmStep
<1>39. CASE ManagementStep
  BY Zenon, <1>39, <1>17, <1>18, <1>19, <1>20, <1>21, <1>22 DEF ManagementStep
<1>40. CASE LoopStep
  BY Zenon, <1>40, <1>27, <1>28, <1>29, <1>30, <1>31, <1>32, <1>33, <1>34 DEF LoopStep
<1> QED
  BY Zenon, <1>23, <1>24, <1>25, <1>26, <1>35, <1>36, <1>37, <1>38, <1>39, <1>40 DEF Next, WorkerStep

-----------------------------------------------------------------------------
(* Where the connections are. *)

\* What OneOwner, UsedBeforeCheckIn and UsedIsOut say of one connection.
Placed(c) ==
    /\ conn[c].at = "available" <=> c \in Elements(available)
    /\ conn[c].at = "checkIn" <=> CheckInMsg(c) \in Elements(mgmt)
    /\ conn[c].at = "forPool" <=> ForPoolMsg(c) \in Elements(mgmt)
    /\ conn[c].at = "failed" <=> FailedMsg(c) \in Elements(mgmt)
    /\ UsedMsg(c) \in Elements(mgmt) => conn[c].at \in {"out", "checkIn"}

OwnerInv ==
    /\ Distinct(available)
    /\ ChannelInv(mgmt)
    /\ \A c \in Conns : Placed(c)

\* The ownership conjuncts of the invariant, regrouped by what a step disturbs.
LEMMA OwnerInvSplit == OneOwner /\ UsedBeforeCheckIn /\ UsedIsOut <=> OwnerInv
  BY DEF OneOwner, UsedBeforeCheckIn, UsedIsOut, OwnerInv, ChannelInv, Placed

\* A message in the management channel is about a connection, and it is the
\* only one of its kind about it.
LEMMA ReceiveFacts ==
    ASSUME TypeOK, OwnerInv, NEW type, Receive(type)
    PROVE  /\ mgmt' \in Seq(MsgType)
           /\ ChannelInv(mgmt')
           /\ Head(mgmt) \in MsgType
           /\ Head(mgmt).type = type
           /\ Elements(mgmt') = Elements(mgmt) \ {Head(mgmt)}
           /\ Head(mgmt) \in Elements(mgmt)
           /\ \A c \in Conns : Head(mgmt) = CheckInMsg(c) => UsedMsg(c) \notin Elements(mgmt)
  BY ChannelTail DEF TypeOK, OwnerInv, Receive

\* A message about a connection names one of the pool's connections.
LEMMA ReceivedConn ==
    ASSUME TypeOK, OwnerInv, NEW type \in {"CheckIn", "Used", "ForPool", "Failed"}, Receive(type)
    PROVE  /\ Head(mgmt).conn \in Conns
           /\ type = "CheckIn" => /\ Head(mgmt) = CheckInMsg(Head(mgmt).conn)
                                  /\ conn[Head(mgmt).conn].at = "checkIn"
           /\ type = "Used" => /\ Head(mgmt) = UsedMsg(Head(mgmt).conn)
                               /\ conn[Head(mgmt).conn].at \in {"out", "checkIn"}
           /\ type = "ForPool" => /\ Head(mgmt) = ForPoolMsg(Head(mgmt).conn)
                                  /\ conn[Head(mgmt).conn].at = "forPool"
           /\ type = "Failed" => /\ Head(mgmt) = FailedMsg(Head(mgmt).conn)
                                 /\ conn[Head(mgmt).conn].at = "failed"
  BY SMT, ReceiveFacts, MessageFacts DEF OwnerInv, Placed

\* Other messages than the one received stay: those about connections are
\* told apart by kind and connection.
LEMMA ReceivedMessages ==
    ASSUME TypeOK, OwnerInv, NEW type, Receive(type), NEW c \in Conns
    PROVE  /\ CheckInMsg(c) \in Elements(mgmt') <=>
                CheckInMsg(c) \in Elements(mgmt) /\ ~(type = "CheckIn" /\ c = Head(mgmt).conn)
           /\ UsedMsg(c) \in Elements(mgmt') <=>
                UsedMsg(c) \in Elements(mgmt) /\ ~(type = "Used" /\ c = Head(mgmt).conn)
           /\ ForPoolMsg(c) \in Elements(mgmt') <=>
                ForPoolMsg(c) \in Elements(mgmt) /\ ~(type = "ForPool" /\ c = Head(mgmt).conn)
           /\ FailedMsg(c) \in Elements(mgmt') <=>
                FailedMsg(c) \in Elements(mgmt) /\ ~(type = "Failed" /\ c = Head(mgmt).conn)
<1>1. /\ Head(mgmt) \in MsgType
      /\ Head(mgmt).type = type
      /\ Elements(mgmt') = Elements(mgmt) \ {Head(mgmt)}
  BY ReceiveFacts
<1>2. /\ CheckInMsg(c) \in ConnMsgType
      /\ UsedMsg(c) \in ConnMsgType
      /\ ForPoolMsg(c) \in ConnMsgType
      /\ FailedMsg(c) \in ConnMsgType
  BY MessageFacts
<1>3. /\ CheckInMsg(c) = Head(mgmt) <=> type = "CheckIn" /\ c = Head(mgmt).conn
      /\ UsedMsg(c) = Head(mgmt) <=> type = "Used" /\ c = Head(mgmt).conn
      /\ ForPoolMsg(c) = Head(mgmt) <=> type = "ForPool" /\ c = Head(mgmt).conn
      /\ FailedMsg(c) = Head(mgmt) <=> type = "Failed" /\ c = Head(mgmt).conn
  BY SMT, <1>1 DEF MsgType, ConnMsgType, CheckInMsg, UsedMsg, ForPoolMsg, FailedMsg, ReadyMsg
<1> QED
  BY <1>1, <1>2, <1>3

\* What a send leaves in the channel.
LEMMA SentMessages ==
    ASSUME TypeOK, NEW m \in MsgType, Send(m)
    PROVE  Elements(mgmt') = IF Open THEN Elements(mgmt) \cup {m} ELSE Elements(mgmt)
<1>1. mgmt \in Seq(MsgType)
  BY DEF TypeOK
<1>2. Elements(Append(mgmt, m)) = Elements(mgmt) \cup {m}
  BY SMT, <1>1, QueueAppend
<1> QED
  BY ZenonT(30), <1>2 DEF Send

\* Every step keeps the management channel in order.
LEMMA ChannelStep ==
    ASSUME TypeOK, OwnerInv, RequestsQueued, [Next]_vars
    PROVE  ChannelInv(mgmt')
<1> DEFINE Goal == ChannelInv(mgmt')
<1>0. ChannelInv(mgmt) /\ mgmt \in Seq(MsgType)
  BY DEF TypeOK, OwnerInv
<1>s. ASSUME NEW m \in MsgType, Send(m),
             m \notin Elements(mgmt),
             \A c \in Conns : m = UsedMsg(c) => CheckInMsg(c) \notin Elements(mgmt)
      PROVE  Goal
  <2>1. ChannelInv(Append(mgmt, m))
    BY <1>0, <1>s, ChannelAppend
  <2> QED BY <1>0, <1>s, <2>1 DEF Send
<1>r. ASSUME NEW type, Receive(type) PROVE Goal
  BY <1>r, ReceiveFacts
<1>1. ASSUME NEW r \in OpRequests, RequestConnection(r) PROVE Goal
  BY <1>0, <1>1 DEF RequestConnection
<1>2. ASSUME NEW r \in OpRequests, Abandon(r) PROVE Goal
  BY <1>0, <1>2 DEF Abandon
<1>3. ASSUME NEW r \in OpRequests, AbandonEstablishing(r) PROVE Goal
  BY <1>0, <1>3 DEF AbandonEstablishing
<1>4. ASSUME NEW c \in Conns, BeginCommand(c) PROVE Goal
  BY <1>0, <1>4 DEF BeginCommand
<1>5. ASSUME NEW c \in Conns, EndCommand(c) PROVE Goal
  BY <1>0, <1>5 DEF EndCommand
<1>6. ASSUME NEW c \in Conns, FailCommand(c) PROVE Goal
  BY <1>0, <1>6 DEF FailCommand
<1>7. ASSUME NEW c \in Conns, Drop(c) PROVE Goal
  <2>1. Send(CheckInMsg(c)) /\ CheckInMsg(c) \notin Elements(mgmt)
    BY <1>7 DEF Drop, OwnerInv, Placed
  <2> QED BY SMT, <2>1, <1>s, MessageFacts
<1>8. ASSUME NEW c \in Conns, EstablishSucceeds(c) PROVE Goal
  <2>1. /\ ForPoolMsg(c) \notin Elements(mgmt)
        /\ UsedMsg(c) \notin Elements(mgmt)
        /\ CheckInMsg(c) \notin Elements(mgmt)
        /\ Send(ForPoolMsg(c)) \/ Send(UsedMsg(c))
    BY <1>8 DEF EstablishSucceeds, OwnerInv, Placed
  <2> QED BY SMTT(30), <2>1, <1>s, MessageFacts
<1>9. ASSUME NEW c \in Conns, EstablishFails(c) PROVE Goal
  BY <1>0, <1>9 DEF EstablishFails
<1>10. ASSUME NEW c \in Conns, ReportFailure(c) PROVE Goal
  <2>1. Send(FailedMsg(c)) /\ FailedMsg(c) \notin Elements(mgmt)
    BY <1>10 DEF ReportFailure, OwnerInv, Placed
  <2> QED BY <2>1, <1>s, MessageFacts
<1>11. ASSUME NEW b \in BOOLEAN, SendClear(b) PROVE Goal
  <2>1. Send(ClearMsg(b)) /\ ClearMsg(b) \notin Elements(mgmt)
    BY SMT, <1>11 DEF SendClear, TopologyIdle, Pending, Elements, ClearMsg
  <2> QED BY SMTT(30), <2>1, <1>s, MessageFacts
<1>12. CASE SendMarkAsReady
  <2>1. Send(ReadyMsg) /\ ReadyMsg \notin Elements(mgmt)
    BY SMT, <1>12 DEF SendMarkAsReady, TopologyIdle, Pending, Elements, ReadyMsg
  <2> QED BY SMT, <2>1, <1>s, MessageFacts
<1>13. CASE DropHandles
  BY <1>0, <1>13 DEF DropHandles
<1>14. ASSUME NEW w \in WarmRequests, BroadcastFillPool(w) PROVE Goal
  <2>1. Send(FillPoolMsg(w)) /\ FillPoolMsg(w) \notin Elements(mgmt)
    BY <1>14 DEF BroadcastFillPool, RequestsQueued
  <2> QED BY SMT, <2>1, <1>s, MessageFacts
<1>15. ASSUME NEW w \in WarmRequests, RequestWarmPool(w) PROVE Goal
  BY <1>0, <1>15 DEF RequestWarmPool
<1>16. ASSUME NEW w \in WarmRequests, AcknowledgeFill(w) PROVE Goal
  BY <1>0, <1>16 DEF AcknowledgeFill
<1>17. CASE CheckIn
  BY <1>17, <1>r DEF CheckIn
<1>18. CASE Clear
  BY <1>18, <1>r DEF Clear
<1>19. CASE MarkAsReady
  BY <1>19, <1>r DEF MarkAsReady
<1>20. CASE HandleConnectionSucceeded
  BY <1>20, <1>r DEF HandleConnectionSucceeded
<1>21. CASE HandleConnectionFailed
  BY <1>21, <1>r DEF HandleConnectionFailed
<1>22. CASE SpawnFillPool
  BY <1>22, <1>r DEF SpawnFillPool
<1>23. CASE LeaveLoop
  BY <1>0, <1>23 DEF LeaveLoop
<1>24. CASE CloseChannels
  <2>1. mgmt' = <<>>
    BY <1>24 DEF CloseChannels
  <2> QED BY SMT, <2>1 DEF ChannelInv, Distinct
<1>25. CASE ReceiveRequest
  BY <1>0, <1>25 DEF ReceiveRequest
<1>26. CASE StartMaintenance
  BY <1>0, <1>26 DEF StartMaintenance
<1>27. CASE RemovePerished
  BY <1>0, <1>27 DEF RemovePerished
<1>28. CASE EnsureMinConnections
  BY <1>0, <1>28 DEF EnsureMinConnections
<1>29. CASE ServeWaiters
  BY <1>0, <1>29 DEF ServeWaiters
<1>30. CASE AnswerPoolWarmed
  BY <1>0, <1>30 DEF AnswerPoolWarmed
<1>31. CASE DiscardPerished
  BY SMTT(30), <1>0, <1>31 DEF DiscardPerished
<1>32. CASE HandOut
  BY <1>0, <1>32 DEF HandOut
<1>33. CASE CreateForRequest
  BY <1>0, <1>33 DEF CreateForRequest
<1>34. CASE RequeueAtFront
  BY <1>0, <1>34 DEF RequeueAtFront
<1>35. ASSUME NEW c \in Conns, BecomeIdle(c) PROVE Goal
  BY <1>0, <1>35 DEF BecomeIdle
<1>36. CASE UNCHANGED vars
  BY SMTT(30), <1>0, <1>36 DEF vars
<1>37. CASE OperationStep
  BY Zenon, <1>37, <1>1, <1>2, <1>3, <1>4, <1>5, <1>6, <1>7 DEF OperationStep
<1>38. CASE EstablishStep \/ TopologyStep \/ WarmStep
  BY Zenon, <1>38, <1>8, <1>9, <1>10, <1>11, <1>12, <1>13, <1>14, <1>15, <1>16
     DEF EstablishStep, TopologyStep, WarmStep
<1>39. CASE ManagementStep
  BY Zenon, <1>39, <1>17, <1>18, <1>19, <1>20, <1>21, <1>22 DEF ManagementStep
<1>40. CASE LoopStep
  BY Zenon, <1>40, <1>27, <1>28, <1>29, <1>30, <1>31, <1>32, <1>33, <1>34 DEF LoopStep
<1> QED
  BY Zenon, <1>23, <1>24, <1>25, <1>26, <1>35, <1>36, <1>37, <1>38, <1>39, <1>40 DEF Next, WorkerStep

\* No step puts a connection into available_connections twice.
LEMMA AvailableStep ==
    ASSUME TypeOK, OwnerInv, [Next]_vars
    PROVE  Distinct(available')
<1> DEFINE Goal == Distinct(available')
<1>0. /\ available \in Seq(Conns)
      /\ Distinct(available)
      /\ Distinct(<<>>)
      /\ \A c \in Conns : c \in Elements(available) <=> conn[c].at = "available"
  BY SMT DEF TypeOK, OwnerInv, Placed, Distinct
<1>a. ASSUME NEW c \in Conns, conn[c].at # "available", available' = Append(available, c)
      PROVE  Goal
  BY <1>0, <1>a, QueueAppend
<1>t. available # <<>> => /\ Distinct(Tail(available))
                          /\ Distinct(SubSeq(available, 1, Len(available) - 1))
  BY <1>0, QueueTail, QueueFront
<1>1. ASSUME NEW r \in OpRequests, RequestConnection(r) PROVE Goal
  BY <1>0, <1>1 DEF RequestConnection, workerVars
<1>2. ASSUME NEW r \in OpRequests, Abandon(r) PROVE Goal
  BY <1>0, <1>2 DEF Abandon, workerVars
<1>3. ASSUME NEW r \in OpRequests, AbandonEstablishing(r) PROVE Goal
  BY SMTT(30), <1>0, <1>3 DEF AbandonEstablishing, workerVars
<1>4. ASSUME NEW c \in Conns, BeginCommand(c) PROVE Goal
  BY SMTT(30), <1>0, <1>4 DEF BeginCommand, workerVars
<1>5. ASSUME NEW c \in Conns, EndCommand(c) PROVE Goal
  BY <1>0, <1>5 DEF EndCommand, workerVars
<1>6. ASSUME NEW c \in Conns, FailCommand(c) PROVE Goal
  BY <1>0, <1>6 DEF FailCommand, workerVars
<1>7. ASSUME NEW c \in Conns, Drop(c) PROVE Goal
  BY <1>0, <1>7 DEF Drop, workerVars
<1>8. ASSUME NEW c \in Conns, EstablishSucceeds(c) PROVE Goal
  BY <1>0, <1>8 DEF EstablishSucceeds, workerVars
<1>9. ASSUME NEW c \in Conns, EstablishFails(c) PROVE Goal
  BY <1>0, <1>9 DEF EstablishFails, workerVars
<1>10. ASSUME NEW c \in Conns, ReportFailure(c) PROVE Goal
  BY <1>0, <1>10 DEF ReportFailure, workerVars
<1>11. ASSUME NEW b \in BOOLEAN, SendClear(b) PROVE Goal
  BY <1>0, <1>11 DEF SendClear, workerVars
<1>12. CASE SendMarkAsReady
  BY <1>0, <1>12 DEF SendMarkAsReady, workerVars
<1>13. CASE DropHandles
  BY <1>0, <1>13 DEF DropHandles, workerVars
<1>14. ASSUME NEW w \in WarmRequests, BroadcastFillPool(w) PROVE Goal
  BY <1>0, <1>14 DEF BroadcastFillPool, workerVars
<1>15. ASSUME NEW w \in WarmRequests, RequestWarmPool(w) PROVE Goal
  BY <1>0, <1>15 DEF RequestWarmPool, workerVars
<1>16. ASSUME NEW w \in WarmRequests, AcknowledgeFill(w) PROVE Goal
  BY <1>0, <1>16 DEF AcknowledgeFill, workerVars
<1>17. CASE CheckIn
  <2>1. Head(mgmt).conn \in Conns /\ conn[Head(mgmt).conn].at = "checkIn"
    BY <1>17, ReceivedConn DEF CheckIn
  <2>2. available' = available \/ available' = Append(available, Head(mgmt).conn)
    BY <1>17 DEF CheckIn
  <2> QED BY SMTT(30), <1>0, <1>a, <2>1, <2>2
<1>18. CASE Clear
  BY <1>0, <1>18 DEF Clear, workerVars
<1>19. CASE MarkAsReady
  BY <1>0, <1>19 DEF MarkAsReady, workerVars
<1>20. CASE HandleConnectionSucceeded
  <2>1. CASE available' = available
    BY <1>0, <2>1
  <2>2. CASE Receive("ForPool") /\ available' = Append(available, Head(mgmt).conn)
    BY <1>a, <2>2, ReceivedConn
  <2> QED BY <1>20, <2>1, <2>2 DEF HandleConnectionSucceeded
<1>21. CASE HandleConnectionFailed
  BY <1>0, <1>21 DEF HandleConnectionFailed, workerVars
<1>22. CASE SpawnFillPool
  BY <1>0, <1>22 DEF SpawnFillPool, workerVars
<1>23. CASE LeaveLoop
  BY SMTT(30), <1>0, <1>t, <1>23 DEF LeaveLoop
<1>24. CASE CloseChannels
  BY <1>0, <1>24 DEF CloseChannels, workerVars
<1>25. CASE ReceiveRequest
  BY <1>0, <1>25 DEF ReceiveRequest, workerVars
<1>26. CASE StartMaintenance
  BY <1>0, <1>26 DEF StartMaintenance, workerVars
<1>27. CASE RemovePerished
  BY Zenon, <1>0, <1>t, <1>27 DEF RemovePerished
<1>28. CASE EnsureMinConnections
  BY <1>0, <1>28 DEF EnsureMinConnections, workerVars
<1>29. CASE ServeWaiters
  BY <1>0, <1>29 DEF ServeWaiters, workerVars
<1>30. CASE AnswerPoolWarmed
  BY SMTT(30), <1>0, <1>30 DEF AnswerPoolWarmed, workerVars
<1>31. CASE DiscardPerished
  BY <1>0, <1>t, <1>31 DEF DiscardPerished
<1>32. CASE HandOut
  BY Zenon, <1>0, <1>t, <1>32 DEF HandOut
<1>33. CASE CreateForRequest
  BY <1>0, <1>33 DEF CreateForRequest, workerVars
<1>34. CASE RequeueAtFront
  BY SMTT(30), <1>0, <1>34 DEF RequeueAtFront, workerVars
<1>35. ASSUME NEW c \in Conns, BecomeIdle(c) PROVE Goal
  BY <1>0, <1>35 DEF BecomeIdle, workerVars
<1>36. CASE UNCHANGED vars
  BY SMTT(30), <1>0, <1>36 DEF vars
<1>37. CASE OperationStep
  BY Zenon, <1>37, <1>1, <1>2, <1>3, <1>4, <1>5, <1>6, <1>7 DEF OperationStep
<1>38. CASE EstablishStep \/ TopologyStep \/ WarmStep
  BY Zenon, <1>38, <1>8, <1>9, <1>10, <1>11, <1>12, <1>13, <1>14, <1>15, <1>16
     DEF EstablishStep, TopologyStep, WarmStep
<1>39. CASE ManagementStep
  BY Zenon, <1>39, <1>17, <1>18, <1>19, <1>20, <1>21, <1>22 DEF ManagementStep
<1>40. CASE LoopStep
  BY Zenon, <1>40, <1>27, <1>28, <1>29, <1>30, <1>31, <1>32, <1>33, <1>34 DEF LoopStep
<1> QED
  BY Zenon, <1>23, <1>24, <1>25, <1>26, <1>35, <1>36, <1>37, <1>38, <1>39, <1>40 DEF Next, WorkerStep

\* Every step keeps each connection in one place.
LEMMA PlacedStep ==
    ASSUME TypeOK, OwnerInv, LoopInv, [Next]_vars, NEW d \in Conns
    PROVE  Placed(d)'
<1> DEFINE Goal == Placed(d)'
<1>0. /\ \A c \in Conns : Placed(c)
      /\ conn \in [Conns -> ConnType]
      /\ available \in Seq(Conns)
      /\ \A c \in Conns : c \in Elements(available) <=> conn[c].at = "available"
  BY DEF TypeOK, OwnerInv, Placed
<1>a. \A c \in Conns : Elements(Append(available, c)) = Elements(available) \cup {c}
  BY SMTT(30), <1>0, QueueAppend
<1>t. available # <<>> =>
        /\ Elements(Tail(available)) = Elements(available) \ {Head(available)}
        /\ Elements(SubSeq(available, 1, Len(available) - 1)) = Elements(available) \ {MostRecent}
        /\ Head(available) \in Conns
        /\ MostRecent \in Conns
        /\ conn[Head(available)].at = "available"
        /\ conn[MostRecent].at = "available"
  BY SMTT(30), <1>0, QueueTail, QueueFront DEF OwnerInv, Placed, MostRecent
<1>e. Elements(<<>>) = {}
  BY SMT DEF Elements
<1>m. ASSUME NEW type \in {"Clear", "MarkAsReady", "FillPool"}, Receive(type)
      PROVE  /\ CheckInMsg(d) \in Elements(mgmt') <=> CheckInMsg(d) \in Elements(mgmt)
             /\ UsedMsg(d) \in Elements(mgmt') <=> UsedMsg(d) \in Elements(mgmt)
             /\ ForPoolMsg(d) \in Elements(mgmt') <=> ForPoolMsg(d) \in Elements(mgmt)
             /\ FailedMsg(d) \in Elements(mgmt') <=> FailedMsg(d) \in Elements(mgmt)
  BY <1>m, ReceivedMessages
<1>1. ASSUME NEW r \in OpRequests, RequestConnection(r) PROVE Goal
  BY SMTT(30), <1>0, <1>1 DEF RequestConnection, Placed, workerVars
<1>2. ASSUME NEW r \in OpRequests, Abandon(r) PROVE Goal
  BY <1>0, <1>2 DEF Abandon, Placed, workerVars
<1>3. ASSUME NEW r \in OpRequests, AbandonEstablishing(r) PROVE Goal
  BY SMT, <1>0, <1>3 DEF AbandonEstablishing, ConnType, NoConn, Placed, workerVars
<1>4. ASSUME NEW c \in Conns, BeginCommand(c) PROVE Goal
  BY SMT, <1>0, <1>4 DEF BeginCommand, ConnType, NoConn, Placed, workerVars
<1>5. ASSUME NEW c \in Conns, EndCommand(c) PROVE Goal
  BY SMT, <1>0, <1>5 DEF EndCommand, ConnType, NoConn, Placed, workerVars
<1>6. ASSUME NEW c \in Conns, FailCommand(c) PROVE Goal
  BY SMT, <1>0, <1>6 DEF FailCommand, ConnType, NoConn, Placed, workerVars
<1>7. ASSUME NEW c \in Conns, Drop(c) PROVE Goal
  <2>1. Elements(mgmt') = IF Open THEN Elements(mgmt) \cup {CheckInMsg(c)} ELSE Elements(mgmt)
    BY <1>7, SentMessages, MessageFacts DEF Drop
  <2>2. available' = available
    BY <1>7 DEF Drop, workerVars
  <2>3. /\ conn[c].at = "out"
        /\ conn'[d].at = IF d = c THEN IF Open THEN "checkIn" ELSE "none" ELSE conn[d].at
    BY SMTT(30), <1>0, <1>7 DEF Drop, ConnType, NoConn
  <2>4. CASE d = c
    BY SMTT(30), <1>0, <1>e, <2>1, <2>2, <2>3, <2>4, MessageFacts DEF Placed, Open, LoopInv
  <2>5. CASE d # c
    BY SMTT(30), <1>0, <2>1, <2>2, <2>3, <2>5, MessageFacts DEF Placed
  <2> QED BY <2>4, <2>5
<1>8. ASSUME NEW c \in Conns, EstablishSucceeds(c) PROVE Goal
  <2>1. available' = available
    BY SMTT(30), <1>8 DEF EstablishSucceeds, workerVars
  <2>2. CASE conn[c].forPool
    <3>1. Elements(mgmt') = IF Open THEN Elements(mgmt) \cup {ForPoolMsg(c)} ELSE Elements(mgmt)
      BY SMTT(30), <1>8, <2>2, SentMessages, MessageFacts DEF EstablishSucceeds
    <3>2. /\ conn[c].at = "pending"
          /\ conn'[d].at = IF d = c THEN IF Open THEN "forPool" ELSE "dropped" ELSE conn[d].at
      BY SMTT(30), <1>0, <1>8, <2>2 DEF EstablishSucceeds, ConnType
    <3> QED BY SMTT(30), <1>0, <2>1, <3>1, <3>2, MessageFacts DEF Placed
  <2>3. CASE ~conn[c].forPool
    <3>1. Elements(mgmt') = IF Open THEN Elements(mgmt) \cup {UsedMsg(c)} ELSE Elements(mgmt)
      BY <1>8, <2>3, SentMessages, MessageFacts DEF EstablishSucceeds
    <3>2. /\ conn[c].at = "pending"
          /\ conn'[d].at = IF d = c THEN "out" ELSE conn[d].at
      BY <1>0, <1>8, <2>3 DEF EstablishSucceeds, ConnType
    <3> QED BY SMTT(30), <1>0, <2>1, <3>1, <3>2, MessageFacts DEF Placed
  <2> QED BY <2>2, <2>3
<1>9. ASSUME NEW c \in Conns, EstablishFails(c) PROVE Goal
  BY <1>0, <1>9 DEF EstablishFails, ConnType, NoConn, Placed, workerVars
<1>10. ASSUME NEW c \in Conns, ReportFailure(c) PROVE Goal
  <2>1. Elements(mgmt') = IF Open THEN Elements(mgmt) \cup {FailedMsg(c)} ELSE Elements(mgmt)
    BY <1>10, SentMessages, MessageFacts DEF ReportFailure
  <2>2. available' = available
    BY SMTT(30), <1>10 DEF ReportFailure, workerVars
  <2> QED BY SMTT(30), <1>0, <1>10, <2>1, <2>2, MessageFacts DEF ReportFailure, Placed, ConnType, NoConn
<1>11. ASSUME NEW b \in BOOLEAN, SendClear(b) PROVE Goal
  <2>1. Elements(mgmt') = IF Open THEN Elements(mgmt) \cup {ClearMsg(b)} ELSE Elements(mgmt)
    BY <1>11, SentMessages, MessageFacts DEF SendClear
  <2>2. available' = available
    BY <1>11 DEF SendClear, workerVars
  <2> QED BY SMTT(30), <1>0, <1>11, <2>1, <2>2, MessageFacts DEF SendClear, Placed, ConnType, NoConn
<1>12. CASE SendMarkAsReady
  <2>1. Elements(mgmt') = IF Open THEN Elements(mgmt) \cup {ReadyMsg} ELSE Elements(mgmt)
    BY <1>12, SentMessages, MessageFacts DEF SendMarkAsReady
  <2>2. available' = available
    BY <1>12 DEF SendMarkAsReady, workerVars
  <2> QED BY SMTT(30), <1>0, <1>12, <2>1, <2>2, MessageFacts DEF SendMarkAsReady, Placed, ConnType, NoConn
<1>13. CASE DropHandles
  BY SMTT(30), <1>0, <1>13 DEF DropHandles, Placed, workerVars
<1>14. ASSUME NEW w \in WarmRequests, BroadcastFillPool(w) PROVE Goal
  <2>1. Elements(mgmt') = IF Open THEN Elements(mgmt) \cup {FillPoolMsg(w)} ELSE Elements(mgmt)
    BY <1>14, SentMessages, MessageFacts DEF BroadcastFillPool
  <2>2. available' = available
    BY <1>14 DEF BroadcastFillPool, workerVars
  <2> QED BY SMTT(30), <1>0, <1>14, <2>1, <2>2, MessageFacts DEF BroadcastFillPool, Placed, ConnType, NoConn
<1>15. ASSUME NEW w \in WarmRequests, RequestWarmPool(w) PROVE Goal
  BY <1>0, <1>15 DEF RequestWarmPool, Placed, workerVars
<1>16. ASSUME NEW w \in WarmRequests, AcknowledgeFill(w) PROVE Goal
  BY <1>0, <1>16 DEF AcknowledgeFill, Placed, workerVars
<1>17. CASE CheckIn
  <2> DEFINE c == Head(mgmt).conn
  <2>1. c \in Conns /\ conn[c].at = "checkIn" /\ Head(mgmt) = CheckInMsg(c)
    BY <1>17, ReceivedConn DEF CheckIn
  <2>2. /\ CheckInMsg(d) \in Elements(mgmt') <=> CheckInMsg(d) \in Elements(mgmt) /\ d # c
        /\ UsedMsg(d) \in Elements(mgmt') <=> UsedMsg(d) \in Elements(mgmt)
        /\ ForPoolMsg(d) \in Elements(mgmt') <=> ForPoolMsg(d) \in Elements(mgmt)
        /\ FailedMsg(d) \in Elements(mgmt') <=> FailedMsg(d) \in Elements(mgmt)
        /\ UsedMsg(c) \notin Elements(mgmt)
    BY <1>17, <2>1, ReceivedMessages, ReceiveFacts DEF CheckIn
  <2>3. \/ /\ conn' = [conn EXCEPT ![c].at = "available"]
           /\ available' = Append(available, c)
        \/ /\ conn' = [conn EXCEPT ![c] = NoConn]
           /\ available' = available
    BY <1>17 DEF CheckIn
  <2> HIDE DEF c
  <2>4. CASE conn' = [conn EXCEPT ![c].at = "available"] /\ available' = Append(available, c)
    <3>1. /\ conn'[d].at = IF d = c THEN "available" ELSE conn[d].at
          /\ Elements(available') = Elements(available) \cup {c}
      BY SMTT(30), <1>0, <1>a, <2>1, <2>4 DEF ConnType
    <3> QED BY <1>0, <2>1, <2>2, <3>1 DEF Placed
  <2>5. CASE conn' = [conn EXCEPT ![c] = NoConn] /\ available' = available
    <3>1. conn'[d].at = IF d = c THEN "none" ELSE conn[d].at
      BY <1>0, <2>1, <2>5 DEF NoConn
    <3> QED BY SMTT(30), <1>0, <2>1, <2>2, <2>5, <3>1 DEF Placed
  <2> QED BY <2>3, <2>4, <2>5
<1>18. CASE Clear
  <2>1. Receive("Clear")
    BY SMTT(30), <1>18 DEF Clear
  <2> QED BY SMT, <1>0, <1>m, <1>18, <2>1 DEF Clear, Placed, workerVars
<1>19. CASE MarkAsReady
  <2>1. Receive("MarkAsReady")
    BY <1>19 DEF MarkAsReady
  <2> QED BY <1>0, <1>m, <1>19, <2>1 DEF MarkAsReady, Placed, workerVars
<1>20. CASE HandleConnectionSucceeded
  <2>1. CASE Receive("Used") /\ UNCHANGED <<available, conn>>
    <3>1. Head(mgmt).conn \in Conns /\ conn[Head(mgmt).conn].at \in {"out", "checkIn"}
      BY <2>1, ReceivedConn
    <3>2. /\ CheckInMsg(d) \in Elements(mgmt') <=> CheckInMsg(d) \in Elements(mgmt)
          /\ UsedMsg(d) \in Elements(mgmt') => UsedMsg(d) \in Elements(mgmt)
          /\ ForPoolMsg(d) \in Elements(mgmt') <=> ForPoolMsg(d) \in Elements(mgmt)
          /\ FailedMsg(d) \in Elements(mgmt') <=> FailedMsg(d) \in Elements(mgmt)
      BY SMT, <2>1, ReceivedMessages
    <3> QED BY <1>0, <2>1, <3>1, <3>2 DEF Placed
  <2>2. CASE /\ Receive("ForPool")
             /\ available' = Append(available, Head(mgmt).conn)
             /\ conn' = [conn EXCEPT ![Head(mgmt).conn].at = "available"]
    <3> DEFINE c == Head(mgmt).conn
    <3>1. c \in Conns /\ conn[c].at = "forPool"
      BY <2>2, ReceivedConn
    <3>2. /\ CheckInMsg(d) \in Elements(mgmt') <=> CheckInMsg(d) \in Elements(mgmt)
          /\ UsedMsg(d) \in Elements(mgmt') <=> UsedMsg(d) \in Elements(mgmt)
          /\ ForPoolMsg(d) \in Elements(mgmt') <=> ForPoolMsg(d) \in Elements(mgmt) /\ d # c
          /\ FailedMsg(d) \in Elements(mgmt') <=> FailedMsg(d) \in Elements(mgmt)
      BY SMT, <2>2, ReceivedMessages
    <3>3. /\ conn'[d].at = IF d = c THEN "available" ELSE conn[d].at
          /\ Elements(available') = Elements(available) \cup {c}
      BY SMT, <1>0, <1>a, <2>2, <3>1 DEF ConnType
    <3> HIDE DEF c
    <3> QED BY <1>0, <3>1, <3>2, <3>3 DEF Placed
  <2> QED BY SMTT(30), <1>20, <2>1, <2>2 DEF HandleConnectionSucceeded
<1>21. CASE HandleConnectionFailed
  <2>1. Receive("Failed")
    BY <1>21 DEF HandleConnectionFailed
  <2> DEFINE c == Head(mgmt).conn
  <2>2. c \in Conns /\ conn[c].at = "failed"
    BY <2>1, ReceivedConn
  <2>3. /\ conn'[d].at = IF d = c THEN "none" ELSE conn[d].at
        /\ available' = available
    BY <1>0, <1>21, <2>2 DEF HandleConnectionFailed, NoConn
  <2>4. /\ CheckInMsg(d) \in Elements(mgmt') <=> CheckInMsg(d) \in Elements(mgmt)
        /\ UsedMsg(d) \in Elements(mgmt') <=> UsedMsg(d) \in Elements(mgmt)
        /\ ForPoolMsg(d) \in Elements(mgmt') <=> ForPoolMsg(d) \in Elements(mgmt)
        /\ FailedMsg(d) \in Elements(mgmt') <=> FailedMsg(d) \in Elements(mgmt) /\ d # c
    BY SMT, <2>1, ReceivedMessages
  <2> HIDE DEF c
  <2> QED BY <1>0, <2>2, <2>3, <2>4 DEF Placed
<1>22. CASE SpawnFillPool
  <2>1. Receive("FillPool")
    BY SMTT(30), <1>22 DEF SpawnFillPool
  <2> QED BY <1>0, <1>m, <1>22, <2>1 DEF SpawnFillPool, Placed, workerVars
<1>23. CASE LeaveLoop
  <2>1. conn'[d].at = IF conn[d].at = "available" THEN "none" ELSE conn[d].at
    BY <1>23 DEF LeaveLoop, NoConn
  <2>2. mgmt' = mgmt /\ Elements(available') = {}
    BY <1>23, <1>e DEF LeaveLoop
  <2> QED BY <1>0, <2>1, <2>2 DEF Placed
<1>24. CASE CloseChannels
  <2>1. conn'[d].at = IF conn[d].at \in {"checkIn", "forPool"} THEN "dropped"
                      ELSE IF conn[d].at = "failed" THEN "none" ELSE conn[d].at
    BY <1>24 DEF CloseChannels, NoConn
  <2>2. available' = available /\ Elements(mgmt') = {}
    BY <1>24, <1>e DEF CloseChannels, workerVars
  <2> QED BY <1>0, <2>1, <2>2 DEF Placed
<1>25. CASE ReceiveRequest
  BY <1>0, <1>25 DEF ReceiveRequest, Placed, workerVars
<1>26. CASE StartMaintenance
  BY <1>0, <1>26 DEF StartMaintenance, Placed, workerVars
<1>27. CASE RemovePerished
  <2>1. mgmt' = mgmt
    BY <1>27 DEF RemovePerished
  <2>2. CASE conn' = conn /\ available' = available
    BY SMTT(30), <1>0, <2>1, <2>2 DEF Placed
  <2>3. CASE /\ available # <<>>
             /\ conn' = [conn EXCEPT ![Head(available)] = NoConn]
             /\ available' = Tail(available)
    BY <1>0, <1>t, <2>1, <2>3 DEF Placed, ConnType, NoConn
  <2> QED BY <1>27, <2>2, <2>3 DEF RemovePerished, CloseConnection
<1>28. CASE EnsureMinConnections
  <2>1. mgmt' = mgmt /\ available' = available
    BY <1>28 DEF EnsureMinConnections
  <2>2. ASSUME NEW c \in Conns, CreatePendingConnection(c, NoRequest, TRUE) PROVE Goal
    <3>1. conn[c].at = "none" /\ conn'[d].at = IF d = c THEN "pending" ELSE conn[d].at
      BY <1>0, <2>2 DEF CreatePendingConnection, ConnType, NoConn
    <3> QED BY <1>0, <2>1, <3>1 DEF Placed
  <2>3. CASE conn' = conn
    BY SMTT(30), <1>0, <2>1, <2>3 DEF Placed
  <2> QED BY Zenon, <1>28, <2>2, <2>3 DEF EnsureMinConnections
<1>29. CASE ServeWaiters
  BY SMTT(30), <1>0, <1>29 DEF ServeWaiters, Placed, workerVars
<1>30. CASE AnswerPoolWarmed
  BY SMTT(30), <1>0, <1>30 DEF AnswerPoolWarmed, Answer, Placed, workerVars
<1>31. CASE DiscardPerished
  BY <1>0, <1>31, <1>t DEF DiscardPerished, CloseConnection, ConnType, NoConn, Placed, workerVars
<1>32. CASE HandOut
  <2>1. mgmt' = mgmt
    BY SMTT(30), <1>32 DEF HandOut
  <2>2. CASE conn' = conn /\ available' = available
    BY SMTT(30), <1>0, <2>1, <2>2 DEF Placed
  <2>3. CASE /\ available # <<>>
             /\ conn' = [conn EXCEPT ![MostRecent].at = "out", ![MostRecent].holder = cur]
             /\ available' = SubSeq(available, 1, Len(available) - 1)
    <3>1. conn'[d].at = IF d = MostRecent THEN "out" ELSE conn[d].at
      BY <1>0, <1>t, <2>3 DEF ConnType
    <3> QED BY SMTT(30), <1>0, <1>t, <2>1, <2>3, <3>1 DEF Placed
  <2> QED BY <1>32, <2>2, <2>3 DEF HandOut
<1>33. CASE CreateForRequest
  BY SMTT(30), <1>0, <1>33
  DEF CreateForRequest, CreatePendingConnection, NothingToHandOut, ConnType, NoConn, Placed, workerVars
<1>34. CASE RequeueAtFront
  BY <1>0, <1>34 DEF RequeueAtFront, NothingToHandOut, Placed, workerVars
<1>35. ASSUME NEW c \in Conns, BecomeIdle(c) PROVE Goal
  BY SMTT(30), <1>0, <1>35 DEF BecomeIdle, ConnType, NoConn, Placed, workerVars
<1>36. CASE UNCHANGED vars
  BY <1>0, <1>36 DEF vars, Placed
<1>37. CASE OperationStep
  BY Zenon, <1>37, <1>1, <1>2, <1>3, <1>4, <1>5, <1>6, <1>7 DEF OperationStep
<1>38. CASE EstablishStep \/ TopologyStep \/ WarmStep
  BY Zenon, <1>38, <1>8, <1>9, <1>10, <1>11, <1>12, <1>13, <1>14, <1>15, <1>16
     DEF EstablishStep, TopologyStep, WarmStep
<1>39. CASE ManagementStep
  BY Zenon, <1>39, <1>17, <1>18, <1>19, <1>20, <1>21, <1>22 DEF ManagementStep
<1>40. CASE LoopStep
  BY Zenon, <1>40, <1>27, <1>28, <1>29, <1>30, <1>31, <1>32, <1>33, <1>34 DEF LoopStep
<1> QED
  BY Zenon, <1>23, <1>24, <1>25, <1>26, <1>35, <1>36, <1>37, <1>38, <1>39, <1>40 DEF Next, WorkerStep

-----------------------------------------------------------------------------
(* What a connection may be like where it is. *)

\* What CleanUntilUsed, GenerationsPast and CancelledIsStale say of one
\* connection.
Sound(c) ==
    /\ conn[c].at \notin {"out", "checkIn"} => conn[c].health = "clean"
    /\ conn[c].at \notin {"pending", "failing", "out"} => ~conn[c].cancelled
    /\ conn[c].gen <= generation
    /\ conn[c].cancelled => conn[c].gen < generation

\* The conjuncts about a connection's health and generation, one connection at a time.
LEMMA SoundSplit ==
    CleanUntilUsed /\ GenerationsPast /\ CancelledIsStale <=> \A c \in Conns : Sound(c)
  BY DEF CleanUntilUsed, GenerationsPast, CancelledIsStale, Sound

\* Every step keeps each connection sound.
LEMMA SoundStep ==
    ASSUME TypeOK, OwnerInv, \A c \in Conns : Sound(c), [Next]_vars, NEW d \in Conns
    PROVE  Sound(d)'
<1> DEFINE Goal == Sound(d)'
<1>0. /\ Sound(d)
      /\ conn \in [Conns -> ConnType]
      /\ conn[d] \in ConnType
      /\ generation \in Nat
  BY DEF TypeOK
<1>n. ASSUME conn'[d] = NoConn, generation' = generation PROVE Goal
  BY SMT, <1>0, <1>n DEF Sound, NoConn
<1>u. ASSUME conn'[d] = conn[d], generation' = generation PROVE Goal
  BY <1>0, <1>u DEF Sound
<1>t. available # <<>> => MostRecent \in Conns /\ conn[MostRecent].at = "available"
  BY QueueFront DEF OwnerInv, Placed, MostRecent, TypeOK
<1>1. ASSUME NEW r \in OpRequests, RequestConnection(r) PROVE Goal
  BY <1>1, <1>u DEF RequestConnection, workerVars
<1>2. ASSUME NEW r \in OpRequests, Abandon(r) PROVE Goal
  BY <1>2, <1>u DEF Abandon, workerVars
<1>3. ASSUME NEW r \in OpRequests, AbandonEstablishing(r) PROVE Goal
  BY <1>3, <1>0 DEF AbandonEstablishing, workerVars, Sound, ConnType
<1>4. ASSUME NEW c \in Conns, BeginCommand(c) PROVE Goal
  BY <1>4, <1>0 DEF BeginCommand, workerVars, Sound, ConnType
<1>5. ASSUME NEW c \in Conns, EndCommand(c) PROVE Goal
  BY <1>5, <1>0 DEF EndCommand, workerVars, Sound, ConnType
<1>6. ASSUME NEW c \in Conns, FailCommand(c) PROVE Goal
  BY <1>6, <1>0 DEF FailCommand, workerVars, Sound, ConnType
<1>7. ASSUME NEW c \in Conns, Drop(c) PROVE Goal
  <2>1. generation' = generation
    BY <1>7 DEF Drop, workerVars
  <2>2. \/ conn'[d] = conn[d] \/ conn'[d] = NoConn
        \/ conn'[d] = [conn[d] EXCEPT !.at = "checkIn", !.holder = NoRequest, !.cancelled = FALSE]
    BY Zenon, <1>0, <1>7 DEF Drop
  <2>3. CASE conn'[d] = [conn[d] EXCEPT !.at = "checkIn", !.holder = NoRequest, !.cancelled = FALSE]
    BY <1>0, <2>1, <2>3 DEF Sound, ConnType
  <2> QED BY <1>n, <1>u, <2>1, <2>2, <2>3
<1>8. ASSUME NEW c \in Conns, EstablishSucceeds(c) PROVE Goal
  <2>1. generation' = generation
    BY <1>8 DEF EstablishSucceeds, workerVars
  <2>2. CASE d # c
    <3>1. conn'[d] = conn[d]
      BY <1>0, <1>8, <2>2 DEF EstablishSucceeds
    <3> QED BY <1>u, <2>1, <3>1
  <2>3. CASE d = c /\ conn[c].forPool
    BY SMT, <1>0, <1>8, <2>1, <2>3 DEF EstablishSucceeds, Sound, ConnType
  <2>4. CASE d = c /\ ~conn[c].forPool
    BY SMT, <1>0, <1>8, <2>1, <2>4 DEF EstablishSucceeds, Sound, ConnType
  <2> QED BY <2>2, <2>3, <2>4
<1>9. ASSUME NEW c \in Conns, EstablishFails(c) PROVE Goal
  BY <1>9, <1>0 DEF EstablishFails, workerVars, Sound, ConnType
<1>10. ASSUME NEW c \in Conns, ReportFailure(c) PROVE Goal
  <2>1. generation' = generation
    BY <1>10 DEF ReportFailure, workerVars
  <2>2. \/ conn'[d] = conn[d] \/ conn'[d] = NoConn
        \/ conn'[d] = [NoConn EXCEPT !.at = "failed"]
    BY <1>0, <1>10 DEF ReportFailure
  <2>3. CASE conn'[d] = [NoConn EXCEPT !.at = "failed"]
    BY SMT, <1>0, <2>1, <2>3 DEF Sound, NoConn
  <2> QED BY <1>n, <1>u, <2>1, <2>2, <2>3
<1>11. ASSUME NEW b \in BOOLEAN, SendClear(b) PROVE Goal
  BY <1>11, <1>u DEF SendClear, workerVars
<1>12. CASE SendMarkAsReady
  BY <1>12, <1>u DEF SendMarkAsReady, workerVars
<1>13. CASE DropHandles
  BY <1>13, <1>u DEF DropHandles, workerVars
<1>14. ASSUME NEW w \in WarmRequests, BroadcastFillPool(w) PROVE Goal
  BY <1>14, <1>u DEF BroadcastFillPool, workerVars
<1>15. ASSUME NEW w \in WarmRequests, RequestWarmPool(w) PROVE Goal
  BY <1>15, <1>u DEF RequestWarmPool, workerVars
<1>16. ASSUME NEW w \in WarmRequests, AcknowledgeFill(w) PROVE Goal
  BY <1>16, <1>u DEF AcknowledgeFill, workerVars
<1>17. CASE CheckIn
  <2> DEFINE c == Head(mgmt).conn
  <2>1. c \in Conns /\ conn[c].at = "checkIn" /\ generation' = generation
    BY <1>17, ReceivedConn DEF CheckIn
  <2>2. \/ conn' = [conn EXCEPT ![c] = NoConn]
        \/ conn' = [conn EXCEPT ![c].at = "available"] /\ conn[c].health = "clean"
    BY <1>17 DEF CheckIn
  <2> HIDE DEF c
  <2>3. CASE d = c /\ conn' = [conn EXCEPT ![c].at = "available"] /\ conn[c].health = "clean"
    <3>1. conn'[d] = [conn[d] EXCEPT !.at = "available"]
      BY <2>3, <1>0
    <3> QED BY <1>0, <2>1, <2>3, <3>1 DEF Sound, ConnType
  <2>4. CASE d = c /\ conn' = [conn EXCEPT ![c] = NoConn]
    BY <1>0, <1>n, <2>1, <2>4
  <2>5. CASE d # c
    BY <1>0, <1>u, <2>1, <2>2, <2>5
  <2> QED BY <2>2, <2>3, <2>4, <2>5
<1>18. CASE Clear
  <2>1. generation' = generation + 1
    BY <1>18 DEF Clear
  <2>2. \/ conn'[d] = conn[d]
        \/ conn[d].at \in {"pending", "out"} /\ conn'[d] = [conn[d] EXCEPT !.cancelled = TRUE]
    BY <1>18 DEF Clear
  <2>3. CASE conn'[d] = conn[d]
    BY SMT, <1>0, <2>1, <2>3 DEF Sound, ConnType
  <2>4. CASE conn[d].at \in {"pending", "out"} /\ conn'[d] = [conn[d] EXCEPT !.cancelled = TRUE]
    BY SMT, <1>0, <2>1, <2>4 DEF Sound, ConnType
  <2> QED BY <2>2, <2>3, <2>4
<1>19. CASE MarkAsReady
  BY <1>19, <1>u DEF MarkAsReady, workerVars
<1>20. CASE HandleConnectionSucceeded
  <2>1. generation' = generation
    BY <1>20 DEF HandleConnectionSucceeded
  <2>2. CASE conn'[d] = conn[d]
    BY <1>u, <2>1, <2>2
  <2>3. CASE /\ Receive("ForPool") /\ d = Head(mgmt).conn
             /\ conn' = [conn EXCEPT ![Head(mgmt).conn].at = "available"]
    <3>1. conn[d].at = "forPool"
      BY <2>3, ReceivedConn
    <3>2. conn'[d] = [conn[d] EXCEPT !.at = "available"]
      BY <2>3, <1>0
    <3> QED BY <1>0, <2>1, <3>1, <3>2 DEF Sound, ConnType
  <2> QED BY <1>0, <1>20, <2>2, <2>3 DEF HandleConnectionSucceeded
<1>21. CASE HandleConnectionFailed
  BY <1>21, <1>0, <1>n, <1>u DEF HandleConnectionFailed
<1>22. CASE SpawnFillPool
  BY <1>22, <1>u DEF SpawnFillPool, workerVars
<1>23. CASE LeaveLoop
  BY <1>23, <1>0, <1>n, <1>u DEF LeaveLoop
<1>24. CASE CloseChannels
  <2>1. generation' = generation
    BY <1>24 DEF CloseChannels, workerVars
  <2>2. \/ conn'[d] = conn[d] \/ conn'[d] = NoConn
        \/ conn'[d] = [NoConn EXCEPT !.at = "dropped"]
    BY <1>24 DEF CloseChannels
  <2>3. CASE conn'[d] = [NoConn EXCEPT !.at = "dropped"]
    BY SMT, <1>0, <2>1, <2>3 DEF Sound, NoConn
  <2> QED BY <1>n, <1>u, <2>1, <2>2, <2>3
<1>25. CASE ReceiveRequest
  BY <1>25, <1>u DEF ReceiveRequest, workerVars
<1>26. CASE StartMaintenance
  BY <1>26, <1>u DEF StartMaintenance, workerVars
<1>27. CASE RemovePerished
  BY <1>27, <1>0, <1>n, <1>u DEF RemovePerished, CloseConnection
<1>28. CASE EnsureMinConnections
  <2>1. generation' = generation
    BY <1>28 DEF EnsureMinConnections
  <2>2. ASSUME NEW c \in Conns, NEW h, NEW b, CreatePendingConnection(c, h, b) PROVE Goal
    <3>1. CASE d = c
      BY SMT, <1>0, <2>1, <2>2, <3>1 DEF Sound, CreatePendingConnection, NoConn
    <3>2. CASE d # c
      <4>1. conn'[d] = conn[d]
        BY <1>0, <2>2, <3>2 DEF CreatePendingConnection
      <4> QED BY <1>u, <2>1, <4>1
    <3> QED BY <3>1, <3>2
  <2> QED BY Zenon, <1>28, <1>u, <2>1, <2>2 DEF EnsureMinConnections
<1>29. CASE ServeWaiters
  BY <1>29, <1>u DEF ServeWaiters, workerVars
<1>30. CASE AnswerPoolWarmed
  BY <1>30, <1>u DEF AnswerPoolWarmed, workerVars
<1>31. CASE DiscardPerished
  BY <1>31, <1>0, <1>n, <1>u DEF DiscardPerished, CloseConnection
<1>32. CASE HandOut
  <2>1. generation' = generation /\ available # <<>>
    BY <1>32 DEF HandOut
  <2>2. CASE conn'[d] = conn[d]
    BY <1>u, <2>1, <2>2
  <2>3. CASE /\ d = MostRecent
             /\ conn' = [conn EXCEPT ![MostRecent].at = "out", ![MostRecent].holder = cur]
    BY <1>0, <1>t, <2>1, <2>3 DEF Sound, ConnType
  <2> QED BY Zenon, <1>0, <1>32, <2>2, <2>3 DEF HandOut
<1>33. CASE CreateForRequest
  <2>1. generation' = generation
    BY <1>33 DEF CreateForRequest
  <2>2. ASSUME NEW c \in Conns, NEW h, NEW b, CreatePendingConnection(c, h, b) PROVE Goal
    <3>1. CASE d = c
      BY SMT, <1>0, <2>1, <2>2, <3>1 DEF Sound, CreatePendingConnection, NoConn
    <3>2. CASE d # c
      <4>1. conn'[d] = conn[d]
        BY <1>0, <2>2, <3>2 DEF CreatePendingConnection
      <4> QED BY <1>u, <2>1, <4>1
    <3> QED BY <3>1, <3>2
  <2> QED BY Zenon, <1>33, <2>2 DEF CreateForRequest
<1>34. CASE RequeueAtFront
  BY <1>34, <1>u DEF RequeueAtFront, workerVars
<1>35. ASSUME NEW c \in Conns, BecomeIdle(c) PROVE Goal
  BY <1>35, <1>0 DEF BecomeIdle, workerVars, Sound, ConnType
<1>36. CASE UNCHANGED vars
  BY SMTT(30), <1>36, <1>u DEF vars
<1>37. CASE OperationStep
  BY Zenon, <1>37, <1>1, <1>2, <1>3, <1>4, <1>5, <1>6, <1>7 DEF OperationStep
<1>38. CASE EstablishStep \/ TopologyStep \/ WarmStep
  BY Zenon, <1>38, <1>8, <1>9, <1>10, <1>11, <1>12, <1>13, <1>14, <1>15, <1>16
     DEF EstablishStep, TopologyStep, WarmStep
<1>39. CASE ManagementStep
  BY Zenon, <1>39, <1>17, <1>18, <1>19, <1>20, <1>21, <1>22 DEF ManagementStep
<1>40. CASE LoopStep
  BY Zenon, <1>40, <1>27, <1>28, <1>29, <1>30, <1>31, <1>32, <1>33, <1>34 DEF LoopStep
<1> QED
  BY Zenon, <1>23, <1>24, <1>25, <1>26, <1>35, <1>36, <1>37, <1>38, <1>39, <1>40 DEF Next, WorkerStep

-----------------------------------------------------------------------------
(* The worker's loop and the wait queue. *)

\* check_out works on a request exactly while the worker is in its loop.
LEMMA LoopInvStep ==
    ASSUME TypeOK, LoopInv, [Next]_vars
    PROVE  LoopInv'
<1> DEFINE Goal == LoopInv'
<1>0. waitQueue # <<>> => Head(waitQueue) \in Requests
  BY SMT DEF TypeOK
<1> USE <1>0, ConstantFacts DEF LoopInv
<1>1. ASSUME NEW r \in OpRequests, RequestConnection(r) PROVE Goal
  BY <1>1 DEF RequestConnection, loopVars
<1>2. ASSUME NEW r \in OpRequests, Abandon(r) PROVE Goal
  BY <1>2 DEF Abandon, loopVars
<1>3. ASSUME NEW r \in OpRequests, AbandonEstablishing(r) PROVE Goal
  BY <1>3 DEF AbandonEstablishing, loopVars
<1>4. ASSUME NEW c \in Conns, BeginCommand(c) PROVE Goal
  BY <1>4 DEF BeginCommand, loopVars
<1>5. ASSUME NEW c \in Conns, EndCommand(c) PROVE Goal
  BY <1>5 DEF EndCommand, loopVars
<1>6. ASSUME NEW c \in Conns, FailCommand(c) PROVE Goal
  BY <1>6 DEF FailCommand, loopVars
<1>7. ASSUME NEW c \in Conns, Drop(c) PROVE Goal
  BY <1>7 DEF Drop, Send, loopVars, Open
<1>8. ASSUME NEW c \in Conns, EstablishSucceeds(c) PROVE Goal
  BY <1>8 DEF EstablishSucceeds, Send, loopVars, Open
<1>9. ASSUME NEW c \in Conns, EstablishFails(c) PROVE Goal
  BY <1>9 DEF EstablishFails, loopVars
<1>10. ASSUME NEW c \in Conns, ReportFailure(c) PROVE Goal
  BY <1>10 DEF ReportFailure, Send, loopVars, Open
<1>11. ASSUME NEW b \in BOOLEAN, SendClear(b) PROVE Goal
  BY <1>11 DEF SendClear, Send, loopVars, Open
<1>12. CASE SendMarkAsReady
  BY <1>12 DEF SendMarkAsReady, Send, loopVars, Open
<1>13. CASE DropHandles
  BY <1>13 DEF DropHandles, loopVars
<1>14. ASSUME NEW w \in WarmRequests, BroadcastFillPool(w) PROVE Goal
  BY <1>14 DEF BroadcastFillPool, Send, loopVars, Open
<1>15. ASSUME NEW w \in WarmRequests, RequestWarmPool(w) PROVE Goal
  BY <1>15 DEF RequestWarmPool, loopVars
<1>16. ASSUME NEW w \in WarmRequests, AcknowledgeFill(w) PROVE Goal
  BY <1>16 DEF AcknowledgeFill, loopVars
<1>17. CASE CheckIn
  BY <1>17 DEF CheckIn, Receive, loopVars
<1>18. CASE Clear
  BY <1>18 DEF Clear, Receive, loopVars
<1>19. CASE MarkAsReady
  BY <1>19 DEF MarkAsReady, Receive, loopVars
<1>20. CASE HandleConnectionSucceeded
  BY <1>20 DEF HandleConnectionSucceeded, Receive, loopVars
<1>21. CASE HandleConnectionFailed
  BY <1>21 DEF HandleConnectionFailed, Receive, loopVars
<1>22. CASE SpawnFillPool
  BY <1>22 DEF SpawnFillPool, Receive, loopVars
<1>23. CASE LeaveLoop
  BY <1>23 DEF LeaveLoop, loopVars
<1>24. CASE CloseChannels
  BY <1>24 DEF CloseChannels, loopVars
<1>25. CASE ReceiveRequest
  BY <1>25 DEF ReceiveRequest, loopVars
<1>26. CASE StartMaintenance
  BY <1>26 DEF StartMaintenance, loopVars
<1>27. CASE RemovePerished
  BY <1>27 DEF RemovePerished, CloseConnection, loopVars
<1>28. CASE EnsureMinConnections
  BY <1>28 DEF EnsureMinConnections, CreatePendingConnection, loopVars
<1>29. CASE ServeWaiters
  BY <1>29 DEF ServeWaiters, loopVars
<1>30. CASE AnswerPoolWarmed
  BY <1>30 DEF AnswerPoolWarmed, Answer, loopVars
<1>31. CASE DiscardPerished
  BY <1>31 DEF DiscardPerished, CloseConnection, loopVars
<1>32. CASE HandOut
  BY <1>32 DEF HandOut, Answer, loopVars
<1>33. CASE CreateForRequest
  BY <1>33 DEF CreateForRequest, CreatePendingConnection, NothingToHandOut, loopVars
<1>34. CASE RequeueAtFront
  BY <1>34 DEF RequeueAtFront, NothingToHandOut, loopVars
<1>35. ASSUME NEW c \in Conns, BecomeIdle(c) PROVE Goal
  BY <1>35 DEF BecomeIdle, loopVars
<1>36. CASE UNCHANGED vars
  BY SMTT(30), <1>36 DEF vars
<1>37. CASE OperationStep
  BY Zenon, <1>37, <1>1, <1>2, <1>3, <1>4, <1>5, <1>6, <1>7 DEF OperationStep
<1>38. CASE EstablishStep \/ TopologyStep \/ WarmStep
  BY Zenon, <1>38, <1>8, <1>9, <1>10, <1>11, <1>12, <1>13, <1>14, <1>15, <1>16
     DEF EstablishStep, TopologyStep, WarmStep
<1>39. CASE ManagementStep
  BY Zenon, <1>39, <1>17, <1>18, <1>19, <1>20, <1>21, <1>22 DEF ManagementStep
<1>40. CASE LoopStep
  BY Zenon, <1>40, <1>27, <1>28, <1>29, <1>30, <1>31, <1>32, <1>33, <1>34 DEF LoopStep
<1> QED
  BY Zenon, <1>23, <1>24, <1>25, <1>26, <1>35, <1>36, <1>37, <1>38, <1>39, <1>40 DEF Next, WorkerStep

\* No step leaves a waiter behind in a pool that is not ready.
LEMMA PausedStep ==
    ASSUME TypeOK, LoopInv, NoWaiterWhilePaused, [Next]_vars
    PROVE  NoWaiterWhilePaused'
<1> DEFINE Goal == NoWaiterWhilePaused'
<1> USE DEF NoWaiterWhilePaused
<1>1. ASSUME NEW r \in OpRequests, RequestConnection(r) PROVE Goal
  BY <1>1 DEF RequestConnection, loopVars, workerVars, queueVars
<1>2. ASSUME NEW r \in OpRequests, Abandon(r) PROVE Goal
  BY <1>2 DEF Abandon, loopVars, workerVars, queueVars
<1>3. ASSUME NEW r \in OpRequests, AbandonEstablishing(r) PROVE Goal
  BY <1>3 DEF AbandonEstablishing, loopVars, workerVars, queueVars
<1>4. ASSUME NEW c \in Conns, BeginCommand(c) PROVE Goal
  BY <1>4 DEF BeginCommand, loopVars, workerVars, queueVars
<1>5. ASSUME NEW c \in Conns, EndCommand(c) PROVE Goal
  BY <1>5 DEF EndCommand, loopVars, workerVars, queueVars
<1>6. ASSUME NEW c \in Conns, FailCommand(c) PROVE Goal
  BY <1>6 DEF FailCommand, loopVars, workerVars, queueVars
<1>7. ASSUME NEW c \in Conns, Drop(c) PROVE Goal
  BY <1>7 DEF Drop, Send, loopVars, workerVars, queueVars
<1>8. ASSUME NEW c \in Conns, EstablishSucceeds(c) PROVE Goal
  BY <1>8 DEF EstablishSucceeds, Send, loopVars, workerVars, queueVars
<1>9. ASSUME NEW c \in Conns, EstablishFails(c) PROVE Goal
  BY <1>9 DEF EstablishFails, loopVars, workerVars, queueVars
<1>10. ASSUME NEW c \in Conns, ReportFailure(c) PROVE Goal
  BY <1>10 DEF ReportFailure, Send, loopVars, workerVars, queueVars
<1>11. ASSUME NEW b \in BOOLEAN, SendClear(b) PROVE Goal
  BY <1>11 DEF SendClear, Send, loopVars, workerVars, queueVars
<1>12. CASE SendMarkAsReady
  BY <1>12 DEF SendMarkAsReady, Send, loopVars, workerVars, queueVars
<1>13. CASE DropHandles
  BY <1>13 DEF DropHandles, loopVars, workerVars, queueVars
<1>14. ASSUME NEW w \in WarmRequests, BroadcastFillPool(w) PROVE Goal
  BY <1>14 DEF BroadcastFillPool, Send, loopVars, workerVars, queueVars
<1>15. ASSUME NEW w \in WarmRequests, RequestWarmPool(w) PROVE Goal
  BY <1>15 DEF RequestWarmPool, loopVars, workerVars, queueVars
<1>16. ASSUME NEW w \in WarmRequests, AcknowledgeFill(w) PROVE Goal
  BY <1>16 DEF AcknowledgeFill, loopVars, workerVars, queueVars
<1>17. CASE CheckIn
  BY <1>17 DEF CheckIn, Receive, loopVars, workerVars, queueVars, LoopInv
<1>18. CASE Clear
  BY <1>18 DEF Clear, Receive, loopVars, workerVars, queueVars, LoopInv
<1>19. CASE MarkAsReady
  BY <1>19 DEF MarkAsReady, Receive, loopVars, workerVars, queueVars, LoopInv
<1>20. CASE HandleConnectionSucceeded
  BY <1>20 DEF HandleConnectionSucceeded, Receive, loopVars, workerVars, queueVars, LoopInv
<1>21. CASE HandleConnectionFailed
  BY <1>21 DEF HandleConnectionFailed, Receive, loopVars, workerVars, queueVars, LoopInv
<1>22. CASE SpawnFillPool
  BY <1>22 DEF SpawnFillPool, Receive, loopVars, workerVars, queueVars, LoopInv
<1>23. CASE LeaveLoop
  BY <1>23 DEF LeaveLoop, loopVars, workerVars, queueVars
<1>24. CASE CloseChannels
  BY <1>24 DEF CloseChannels, loopVars, workerVars, queueVars
<1>25. CASE ReceiveRequest
  BY <1>25 DEF ReceiveRequest, loopVars, workerVars, queueVars
<1>26. CASE StartMaintenance
  BY <1>26 DEF StartMaintenance, loopVars, workerVars, queueVars
<1>27. CASE RemovePerished
  BY <1>27 DEF RemovePerished, CloseConnection, loopVars, workerVars, queueVars
<1>28. CASE EnsureMinConnections
  BY <1>28 DEF EnsureMinConnections, CreatePendingConnection, loopVars, workerVars, queueVars
<1>29. CASE ServeWaiters
  BY <1>29 DEF ServeWaiters, loopVars, workerVars, queueVars, CanServiceConnectionRequest
<1>30. CASE AnswerPoolWarmed
  BY <1>30 DEF AnswerPoolWarmed, Answer, loopVars, workerVars, queueVars
<1>31. CASE DiscardPerished
  BY <1>31 DEF DiscardPerished, CloseConnection, loopVars, workerVars, queueVars
<1>32. CASE HandOut
  BY <1>32 DEF HandOut, Answer, loopVars, workerVars, queueVars
<1>33. CASE CreateForRequest
  BY <1>33 DEF CreateForRequest, CreatePendingConnection, NothingToHandOut, loopVars, workerVars, queueVars
<1>34. CASE RequeueAtFront
  BY <1>34, ConstantFacts DEF RequeueAtFront, NothingToHandOut, loopVars, workerVars, queueVars, LoopInv
<1>35. ASSUME NEW c \in Conns, BecomeIdle(c) PROVE Goal
  BY <1>35 DEF BecomeIdle, loopVars, workerVars, queueVars
<1>36. CASE UNCHANGED vars
  BY <1>36 DEF vars
<1>37. CASE OperationStep
  BY Zenon, <1>37, <1>1, <1>2, <1>3, <1>4, <1>5, <1>6, <1>7 DEF OperationStep
<1>38. CASE EstablishStep \/ TopologyStep \/ WarmStep
  BY Zenon, <1>38, <1>8, <1>9, <1>10, <1>11, <1>12, <1>13, <1>14, <1>15, <1>16
     DEF EstablishStep, TopologyStep, WarmStep
<1>39. CASE ManagementStep
  BY Zenon, <1>39, <1>17, <1>18, <1>19, <1>20, <1>21, <1>22 DEF ManagementStep
<1>40. CASE LoopStep
  BY Zenon, <1>40, <1>27, <1>28, <1>29, <1>30, <1>31, <1>32, <1>33, <1>34 DEF LoopStep
<1> QED
  BY Zenon, <1>23, <1>24, <1>25, <1>26, <1>35, <1>36, <1>37, <1>38, <1>39, <1>40 DEF Next, WorkerStep

-----------------------------------------------------------------------------
(* The requests the pool holds. *)

\* A message other than FillPool neither announces nor withdraws a task.
LEMMA FillPoolUntouched ==
    ASSUME TypeOK, OwnerInv, NEW w \in WarmRequests
    PROVE  /\ \A m \in MsgType : Send(m) /\ m.type # "FillPool" =>
                (FillPoolMsg(w) \in Elements(mgmt') <=> FillPoolMsg(w) \in Elements(mgmt))
           /\ \A type : Receive(type) =>
                (FillPoolMsg(w) \in Elements(mgmt') <=>
                   FillPoolMsg(w) \in Elements(mgmt) /\ FillPoolMsg(w) # Head(mgmt))
           /\ \A type : Receive(type) /\ type # "FillPool" => FillPoolMsg(w) # Head(mgmt)
<1>1. ASSUME NEW m \in MsgType, Send(m), m.type # "FillPool"
      PROVE  FillPoolMsg(w) \in Elements(mgmt') <=> FillPoolMsg(w) \in Elements(mgmt)
  <2>1. FillPoolMsg(w) # m
    BY SMT, <1>1 DEF FillPoolMsg
  <2> QED BY <1>1, <2>1, SentMessages
<1>2. ASSUME NEW type, Receive(type)
      PROVE  /\ FillPoolMsg(w) \in Elements(mgmt') <=>
                   FillPoolMsg(w) \in Elements(mgmt) /\ FillPoolMsg(w) # Head(mgmt)
             /\ type # "FillPool" => FillPoolMsg(w) # Head(mgmt)
  <2>1. Elements(mgmt') = Elements(mgmt) \ {Head(mgmt)} /\ Head(mgmt).type = type
    BY SMTT(30), <1>2, ReceiveFacts
  <2> QED BY SMT, <2>1 DEF FillPoolMsg
<1> QED
  BY <1>1, <1>2

\* Every step keeps the requests the pool holds apart from those it does not.
LEMMA RequestsStep ==
    ASSUME TypeOK, OwnerInv, LoopInv, RequestsQueued, HoldersKnow, [Next]_vars
    PROVE  RequestsQueued'
<1> DEFINE Goal == RequestsQueued'
<1>0. /\ req \in [Requests -> OpStates \cup WarmStates]
      /\ cur \in Requests \cup {NoRequest}
      /\ waitQueue \in Seq(Requests)
      /\ requestQueue \in Seq(Requests)
      /\ Elements(<<>>) = {} /\ Distinct(<<>>)
  BY SMT DEF TypeOK, Elements, Distinct
<1>q. /\ waitQueue # <<>> => /\ Head(waitQueue) \in Requests
                             /\ Head(waitQueue) \in Elements(waitQueue)
                             /\ Distinct(Tail(waitQueue))
                             /\ Elements(Tail(waitQueue)) = Elements(waitQueue) \ {Head(waitQueue)}
      /\ requestQueue # <<>> =>
           /\ Head(requestQueue) \in Requests
           /\ Head(requestQueue) \in Elements(requestQueue)
           /\ Distinct(Tail(requestQueue))
           /\ Elements(Tail(requestQueue)) = Elements(requestQueue) \ {Head(requestQueue)}
  BY <1>0, QueueTail DEF RequestsQueued
<1>a. \A r \in Requests :
        /\ Elements(Append(requestQueue, r)) = Elements(requestQueue) \cup {r}
        /\ r \notin Elements(requestQueue) => Distinct(Append(requestQueue, r))
        /\ Elements(Append(waitQueue, r)) = Elements(waitQueue) \cup {r}
        /\ r \notin Elements(waitQueue) => Distinct(Append(waitQueue, r))
        /\ Elements(<<r>> \o waitQueue) = Elements(waitQueue) \cup {r}
        /\ r \notin Elements(waitQueue) => Distinct(<<r>> \o waitQueue)
  <2> TAKE r \in Requests
  <2>1. Distinct(waitQueue) /\ Distinct(requestQueue)
    BY DEF RequestsQueued
  <2>2. /\ Elements(Append(requestQueue, r)) = Elements(requestQueue) \cup {r}
        /\ r \notin Elements(requestQueue) => Distinct(Append(requestQueue, r))
    BY SMT, <1>0, <2>1, QueueAppend
  <2>3. /\ Elements(Append(waitQueue, r)) = Elements(waitQueue) \cup {r}
        /\ r \notin Elements(waitQueue) => Distinct(Append(waitQueue, r))
    BY SMT, <1>0, <2>1, QueueAppend
  <2>4. /\ Elements(<<r>> \o waitQueue) = Elements(waitQueue) \cup {r}
        /\ r \notin Elements(waitQueue) => Distinct(<<r>> \o waitQueue)
    BY SMT, <1>0, <2>1, QueueCons
  <2> QED BY <2>2, <2>3, <2>4
<1>x. ASSUME UNCHANGED <<waitQueue, requestQueue, cur>>,
             \A r \in Requests : req[r] \in {"sent", "abandoned"} => req'[r] \in {"sent", "abandoned"},
             \A w \in WarmRequests :
               /\ req'[w] = "announced" <=> req[w] = "announced"
               /\ FillPoolMsg(w) \in Elements(mgmt') <=> FillPoolMsg(w) \in Elements(mgmt)
      PROVE  Goal
  BY <1>x DEF RequestsQueued
<1>h. \A c \in Conns : conn[c].holder \in OpRequests =>
        req[conn[c].holder] \notin {"sent", "abandoned"}
  BY DEF HoldersKnow
<1>o. OpRequests \cap WarmRequests = {}
  BY ConstantsAssumption
<1>t. (ReadyMsg).type # "FillPool"
      /\ \A c \in Conns : /\ (CheckInMsg(c)).type # "FillPool"
                          /\ (UsedMsg(c)).type # "FillPool"
                          /\ (ForPoolMsg(c)).type # "FillPool"
                          /\ (FailedMsg(c)).type # "FillPool"
  BY DEF ReadyMsg, CheckInMsg, UsedMsg, ForPoolMsg, FailedMsg
<1>1. ASSUME NEW r \in OpRequests, RequestConnection(r) PROVE Goal
  <2>1. r \in Requests /\ req[r] = "free"
    BY <1>1, ConstantFacts DEF RequestConnection
  <2>2. r \notin Elements(waitQueue) \cup Elements(requestQueue) \cup {cur}
    BY <2>1 DEF RequestsQueued
  <2>3. /\ Elements(requestQueue') = Elements(requestQueue) \cup {r}
        /\ Distinct(requestQueue')
        /\ UNCHANGED <<waitQueue, cur, mgmt>>
        /\ req' = [req EXCEPT ![r] = "sent"]
    BY Zenon, <1>1, <1>a, <2>1, <2>2 DEF RequestConnection, loopVars
  <2>4. r \notin WarmRequests
    BY <1>o
  <2> QED BY SMT, <1>0, <2>1, <2>2, <2>3, <2>4 DEF RequestsQueued
<1>2. ASSUME NEW r \in OpRequests, Abandon(r) PROVE Goal
  BY <1>0, <1>o, <1>2, <1>x, ConstantFacts DEF Abandon, queueVars, loopVars
<1>3. ASSUME NEW r \in OpRequests, AbandonEstablishing(r) PROVE Goal
  BY <1>0, <1>o, <1>3, <1>x, ConstantFacts DEF AbandonEstablishing, queueVars, loopVars
<1>4. ASSUME NEW c \in Conns, BeginCommand(c) PROVE Goal
  BY <1>4, <1>x DEF BeginCommand, queueVars, loopVars
<1>5. ASSUME NEW c \in Conns, EndCommand(c) PROVE Goal
  BY <1>5, <1>x DEF EndCommand, queueVars, loopVars
<1>6. ASSUME NEW c \in Conns, FailCommand(c) PROVE Goal
  BY <1>6, <1>x DEF FailCommand, queueVars, loopVars
<1>7. ASSUME NEW c \in Conns, Drop(c) PROVE Goal
  <2>1. \A w \in WarmRequests : FillPoolMsg(w) \in Elements(mgmt') <=> FillPoolMsg(w) \in Elements(mgmt)
    BY <1>7, <1>t, MessageFacts, FillPoolUntouched DEF Drop
  <2>2. \A r \in Requests : req'[r] # req[r] => r \in OpRequests /\ conn[c].holder = r
    BY <1>7 DEF Drop
  <2>3. \A r \in Requests : req[r] \in {"sent", "abandoned"} => req'[r] = req[r]
    BY <1>h, <2>2
  <2>4. \A w \in WarmRequests : req'[w] = req[w]
    BY <1>o, <2>2, ConstantFacts
  <2> QED BY <1>7, <1>x, <2>1, <2>3, <2>4 DEF Drop, queueVars, loopVars
<1>8. ASSUME NEW c \in Conns, EstablishSucceeds(c) PROVE Goal
  <2>1. \A w \in WarmRequests : FillPoolMsg(w) \in Elements(mgmt') <=> FillPoolMsg(w) \in Elements(mgmt)
    BY <1>8, <1>t, MessageFacts, FillPoolUntouched DEF EstablishSucceeds
  <2>2. \A r \in Requests : req'[r] # req[r] => r \in OpRequests /\ conn[c].holder = r
    BY <1>8 DEF EstablishSucceeds
  <2>3. \A r \in Requests : req[r] \in {"sent", "abandoned"} => req'[r] = req[r]
    BY <1>h, <2>2
  <2>4. \A w \in WarmRequests : req'[w] = req[w]
    BY <1>o, <2>2, ConstantFacts
  <2> QED BY <1>8, <1>x, <2>1, <2>3, <2>4 DEF EstablishSucceeds, queueVars, loopVars
<1>9. ASSUME NEW c \in Conns, EstablishFails(c) PROVE Goal
  BY <1>9, <1>x DEF EstablishFails, queueVars, loopVars
<1>10. ASSUME NEW c \in Conns, ReportFailure(c) PROVE Goal
  <2>1. \A w \in WarmRequests : FillPoolMsg(w) \in Elements(mgmt') <=> FillPoolMsg(w) \in Elements(mgmt)
    BY <1>10, <1>t, MessageFacts, FillPoolUntouched DEF ReportFailure
  <2>2. \A r \in Requests : req'[r] # req[r] => r \in OpRequests /\ conn[c].holder = r
    BY <1>10 DEF ReportFailure
  <2>3. \A r \in Requests : req[r] \in {"sent", "abandoned"} => req'[r] = req[r]
    BY <1>h, <2>2
  <2>4. \A w \in WarmRequests : req'[w] = req[w]
    BY <1>o, <2>2, ConstantFacts
  <2> QED BY <1>10, <1>x, <2>1, <2>3, <2>4 DEF ReportFailure, queueVars, loopVars
<1>11. ASSUME NEW b \in BOOLEAN, SendClear(b) PROVE Goal
  <2>1. \A w \in WarmRequests : FillPoolMsg(w) \in Elements(mgmt') <=> FillPoolMsg(w) \in Elements(mgmt)
    <3>1. Send(ClearMsg(b))
      BY <1>11 DEF SendClear
    <3>2. ClearMsg(b) \in MsgType /\ ClearMsg(b).type # "FillPool"
      BY DEF ClearMsg, MsgType
    <3> QED BY <3>1, <3>2, FillPoolUntouched
  <2> QED BY <1>11, <1>x, <2>1 DEF SendClear, queueVars, loopVars
<1>12. CASE SendMarkAsReady
  <2>1. \A w \in WarmRequests : FillPoolMsg(w) \in Elements(mgmt') <=> FillPoolMsg(w) \in Elements(mgmt)
    <3>1. Send(ReadyMsg) /\ ReadyMsg \in MsgType /\ (ReadyMsg).type # "FillPool"
      BY <1>12, <1>t, MessageFacts DEF SendMarkAsReady
    <3> QED BY <3>1, FillPoolUntouched
  <2> QED BY <1>12, <1>x, <2>1 DEF SendMarkAsReady, queueVars, loopVars
<1>13. CASE DropHandles
  BY <1>13, <1>x DEF DropHandles, queueVars, loopVars
<1>14. ASSUME NEW w \in WarmRequests, BroadcastFillPool(w) PROVE Goal
  <2>1. w \in Requests /\ req[w] = "free" /\ UNCHANGED <<waitQueue, requestQueue, cur>>
    BY <1>14, ConstantFacts DEF BroadcastFillPool, loopVars, queueVars
  <2>2. req' = [req EXCEPT ![w] = "announced"]
    BY <1>14 DEF BroadcastFillPool
  <2>3. Elements(mgmt') = Elements(mgmt) \cup {FillPoolMsg(w)}
    BY <1>14, SentMessages, MessageFacts DEF BroadcastFillPool
  <2>4. \A v \in WarmRequests : FillPoolMsg(v) = FillPoolMsg(w) => v = w
    BY DEF FillPoolMsg
  <2> QED BY <1>0, <2>1, <2>2, <2>3, <2>4, ConstantFacts DEF RequestsQueued
<1>15. ASSUME NEW w \in WarmRequests, RequestWarmPool(w) PROVE Goal
  <2>1. w \in Requests /\ req[w] = "filling" /\ UNCHANGED <<waitQueue, cur, mgmt>>
    BY <1>15, ConstantFacts DEF RequestWarmPool, loopVars
  <2>2. w \notin Elements(waitQueue) \cup Elements(requestQueue) \cup {cur}
    BY <2>1 DEF RequestsQueued
  <2>3. CASE requestQueue' = requestQueue /\ req' = [req EXCEPT ![w] = "joining"]
    BY SMT, <1>0, <1>x, <2>1, <2>3
  <2>4. CASE requestQueue' = Append(requestQueue, w) /\ req' = [req EXCEPT ![w] = "sent"]
    <3>1. Elements(requestQueue') = Elements(requestQueue) \cup {w} /\ Distinct(requestQueue')
      BY Zenon, <1>a, <2>1, <2>2, <2>4
    <3> QED BY SMT, <1>0, <2>1, <2>2, <2>4, <3>1 DEF RequestsQueued
  <2> QED BY <1>15, <2>3, <2>4 DEF RequestWarmPool
<1>16. ASSUME NEW w \in WarmRequests, AcknowledgeFill(w) PROVE Goal
  BY <1>0, <1>o, <1>16, <1>x, ConstantFacts DEF AcknowledgeFill, queueVars, loopVars
<1>17. CASE CheckIn
  <2>1. \A w \in WarmRequests : FillPoolMsg(w) \in Elements(mgmt') <=> FillPoolMsg(w) \in Elements(mgmt)
    BY <1>17, FillPoolUntouched DEF CheckIn
  <2> QED BY <1>17, <1>x, <2>1 DEF CheckIn, queueVars
<1>18. CASE Clear
  <2>1. \A w \in WarmRequests : FillPoolMsg(w) \in Elements(mgmt') <=> FillPoolMsg(w) \in Elements(mgmt)
    BY <1>18, FillPoolUntouched DEF Clear
  <2>2. CASE UNCHANGED <<waitQueue, req>>
    BY <1>18, <1>x, <2>1, <2>2 DEF Clear
  <2>3. CASE /\ waitQueue' = <<>>
             /\ req' = [r \in Requests |-> IF r \in Elements(waitQueue) THEN Released(r) ELSE req[r]]
    <3>1. UNCHANGED <<requestQueue, cur>>
      BY <1>18 DEF Clear
    <3>2. \A r \in Elements(waitQueue) : Released(r) # "announced" /\ req[r] # "announced"
      BY SMT, <1>0 DEF Released, RequestsQueued, Elements
    <3> QED BY <1>0, <2>1, <2>3, <3>1, <3>2, ConstantFacts DEF RequestsQueued
  <2> QED BY <1>18, <2>2, <2>3 DEF Clear
<1>19. CASE MarkAsReady
  <2>1. \A w \in WarmRequests : FillPoolMsg(w) \in Elements(mgmt') <=> FillPoolMsg(w) \in Elements(mgmt)
    BY <1>19, FillPoolUntouched DEF MarkAsReady
  <2> QED BY <1>19, <1>x, <2>1 DEF MarkAsReady, queueVars
<1>20. CASE HandleConnectionSucceeded
  <2>1. \A w \in WarmRequests : FillPoolMsg(w) \in Elements(mgmt') <=> FillPoolMsg(w) \in Elements(mgmt)
    BY <1>20, FillPoolUntouched DEF HandleConnectionSucceeded
  <2> QED BY <1>20, <1>x, <2>1 DEF HandleConnectionSucceeded, queueVars
<1>21. CASE HandleConnectionFailed
  <2>1. \A w \in WarmRequests : FillPoolMsg(w) \in Elements(mgmt') <=> FillPoolMsg(w) \in Elements(mgmt)
    BY <1>21, FillPoolUntouched DEF HandleConnectionFailed
  <2> QED BY <1>21, <1>x, <2>1 DEF HandleConnectionFailed, queueVars
<1>22. CASE SpawnFillPool
  <2>1. Receive("FillPool") /\ UNCHANGED <<waitQueue, requestQueue, cur>>
    BY <1>22 DEF SpawnFillPool, queueVars
  <2>2. PICK w \in WarmRequests : w = Head(mgmt).task /\ FillPoolMsg(w) = Head(mgmt)
    <3>1. Head(mgmt) \in MsgType /\ Head(mgmt).type = "FillPool"
      BY <2>1, ReceiveFacts
    <3> QED BY SMT, <3>1 DEF MsgType, ConnMsgType, ReadyMsg, FillPoolMsg
  <2>3. req' = [req EXCEPT ![w] = "filling"] /\ w \in Requests
    BY <1>22, <2>2, ConstantFacts DEF SpawnFillPool
  <2>4. req[w] = "announced"
    BY <2>1, <2>2, ReceiveFacts DEF RequestsQueued
  <2>5. \A v \in WarmRequests : FillPoolMsg(v) = FillPoolMsg(w) => v = w
    BY DEF FillPoolMsg
  <2>6. \A v \in WarmRequests :
          FillPoolMsg(v) \in Elements(mgmt') <=> FillPoolMsg(v) \in Elements(mgmt) /\ v # w
    BY <2>1, <2>2, <2>5, FillPoolUntouched
  <2> QED BY SMTT(30), <1>0, <2>1, <2>3, <2>4, <2>6, ConstantFacts DEF RequestsQueued
<1>23. CASE LeaveLoop
  BY <1>23, <1>x DEF LeaveLoop, queueVars, loopVars
<1>24. CASE CloseChannels
  <2>1. /\ waitQueue' = <<>> /\ requestQueue' = <<>> /\ mgmt' = <<>> /\ cur' = cur
        /\ cur = NoRequest
    BY <1>24 DEF CloseChannels, LoopInv
  <2>2. \A w \in WarmRequests : req'[w] # "announced"
    BY <1>24, ConstantFacts DEF CloseChannels, Released
  <2> QED BY <1>0, <2>1, <2>2, ConstantFacts DEF RequestsQueued
<1>25. CASE ReceiveRequest
  <2> DEFINE r == Head(requestQueue)
  <2>1. /\ r \in Requests
        /\ r \in Elements(requestQueue)
        /\ Elements(requestQueue') = Elements(requestQueue) \ {r}
        /\ Distinct(requestQueue')
        /\ UNCHANGED <<mgmt, cur>>
    BY <1>25, <1>q DEF ReceiveRequest
  <2>2. r \notin Elements(waitQueue) /\ r # cur /\ req[r] \in {"sent", "abandoned"}
    BY <2>1 DEF RequestsQueued
  <2>3. CASE waitQueue' = Append(waitQueue, r) /\ req' = req
    <3>1. Elements(waitQueue') = Elements(waitQueue) \cup {r} /\ Distinct(waitQueue')
      BY Zenon, <1>a, <2>1, <2>2, <2>3
    <3> HIDE DEF r
    <3> QED BY SMTT(30), <2>1, <2>2, <2>3, <3>1 DEF RequestsQueued
  <2>4. CASE waitQueue' = waitQueue /\ req' = [req EXCEPT ![r] = Released(r)]
    <3>1. Released(r) # "announced"
      BY DEF Released
    <3> HIDE DEF r
    <3> QED BY <1>0, <2>1, <2>2, <2>4, <3>1, ConstantFacts DEF RequestsQueued
  <2> QED BY <1>25, <2>3, <2>4 DEF ReceiveRequest
<1>26. CASE StartMaintenance
  BY <1>26, <1>x DEF StartMaintenance, queueVars, loopVars
<1>27. CASE RemovePerished
  BY <1>27, <1>x DEF RemovePerished, CloseConnection, queueVars, loopVars
<1>28. CASE EnsureMinConnections
  BY <1>28, <1>x DEF EnsureMinConnections, CreatePendingConnection, queueVars, loopVars
<1>29. CASE ServeWaiters
  <2> DEFINE r == Head(waitQueue)
  <2>1. UNCHANGED <<requestQueue, mgmt>> /\ cur = NoRequest
    BY <1>29 DEF ServeWaiters, LoopInv
  <2>2. CASE UNCHANGED <<waitQueue, req, cur>>
    BY <1>x, <2>1, <2>2
  <2>3. CASE waitQueue # <<>> /\ waitQueue' = Tail(waitQueue)
    <3>1. /\ r \in Requests
          /\ r \in Elements(waitQueue)
          /\ Elements(waitQueue') = Elements(waitQueue) \ {r}
          /\ Distinct(waitQueue')
      BY <2>3, <1>q
    <3>2. r \notin Elements(requestQueue) /\ req[r] \in {"sent", "abandoned"}
      BY <3>1 DEF RequestsQueued
    <3>3. \/ req' = [req EXCEPT ![r] = "free"] /\ cur' = cur
          \/ cur' = r /\ req' = req
      BY SMT, <1>29, <2>3 DEF ServeWaiters
    <3> HIDE DEF r
    <3> QED BY SMTT(30), <1>0, <2>1, <3>1, <3>2, <3>3, ConstantFacts DEF RequestsQueued
  <2> QED BY <1>29, <2>2, <2>3 DEF ServeWaiters
<1>30. CASE AnswerPoolWarmed
  <2>1. /\ UNCHANGED <<waitQueue, requestQueue, mgmt>>
        /\ cur \in Requests
        /\ cur' = NoRequest
        /\ \E s \in (OpStates \cup WarmStates) \ {"announced"} : req' = [req EXCEPT ![cur] = s]
    BY ZenonT(30), <1>0, <1>30, ConstantFacts DEF AnswerPoolWarmed, Answer, queueVars, OpStates, WarmStates
  <2>2. /\ req[cur] \in {"sent", "abandoned"}
        /\ cur \notin Elements(waitQueue) \cup Elements(requestQueue)
    BY <2>1 DEF RequestsQueued
  <2>3. \A r \in Elements(waitQueue) \cup Elements(requestQueue) : r \in Requests
    BY SMT, <1>0 DEF Elements
  <2> QED BY SMTT(30), <1>0, <2>1, <2>2, <2>3, ConstantFacts DEF RequestsQueued
<1>31. CASE DiscardPerished
  BY <1>31, <1>x DEF DiscardPerished, CloseConnection, queueVars, loopVars
<1>32. CASE HandOut
  <2>1. /\ UNCHANGED <<waitQueue, requestQueue, mgmt>>
        /\ cur \in Requests
        /\ cur' = NoRequest
        /\ \E s \in (OpStates \cup WarmStates) \ {"announced"} : req' = [req EXCEPT ![cur] = s]
    BY Zenon, <1>0, <1>32, ConstantFacts DEF HandOut, Answer, queueVars, OpStates, WarmStates
  <2>2. /\ req[cur] \in {"sent", "abandoned"}
        /\ cur \notin Elements(waitQueue) \cup Elements(requestQueue)
    BY <2>1 DEF RequestsQueued
  <2>3. \A r \in Elements(waitQueue) \cup Elements(requestQueue) : r \in Requests
    BY SMT, <1>0 DEF Elements
  <2> QED BY <1>0, <2>1, <2>2, <2>3, ConstantFacts DEF RequestsQueued
<1>33. CASE CreateForRequest
  <2>1. /\ UNCHANGED <<waitQueue, requestQueue, mgmt>>
        /\ cur \in Requests
        /\ cur' = NoRequest
        /\ \E s \in (OpStates \cup WarmStates) \ {"announced"} : req' = [req EXCEPT ![cur] = s]
    BY Zenon, <1>0, <1>33, ConstantFacts
    DEF CreateForRequest, CreatePendingConnection, NothingToHandOut, queueVars, OpStates, WarmStates
  <2>2. /\ req[cur] \in {"sent", "abandoned"}
        /\ cur \notin Elements(waitQueue) \cup Elements(requestQueue)
    BY <2>1 DEF RequestsQueued
  <2>3. \A r \in Elements(waitQueue) \cup Elements(requestQueue) : r \in Requests
    BY SMT, <1>0 DEF Elements
  <2> QED BY <1>0, <2>1, <2>2, <2>3, ConstantFacts DEF RequestsQueued
<1>34. CASE RequeueAtFront
  <2>1. /\ UNCHANGED <<requestQueue, mgmt, req>>
        /\ cur \in Requests
        /\ cur' = NoRequest
        /\ waitQueue' = <<cur>> \o waitQueue
    BY <1>0, <1>34, ConstantFacts DEF RequeueAtFront, NothingToHandOut
  <2>2. /\ req[cur] \in {"sent", "abandoned"}
        /\ cur \notin Elements(waitQueue) \cup Elements(requestQueue)
    BY <2>1 DEF RequestsQueued
  <2>3. Elements(waitQueue') = Elements(waitQueue) \cup {cur} /\ Distinct(waitQueue')
    BY <1>a, <2>1, <2>2
  <2>4. \A r \in Elements(waitQueue') \cup Elements(requestQueue) : r \in Requests
    BY SMT, <1>0, <2>1, <2>3 DEF Elements
  <2> QED BY <2>1, <2>2, <2>3, <2>4, ConstantFacts DEF RequestsQueued
<1>35. ASSUME NEW c \in Conns, BecomeIdle(c) PROVE Goal
  BY <1>35, <1>x DEF BecomeIdle, queueVars, loopVars
<1>36. CASE UNCHANGED vars
  BY SMTT(30), <1>36, <1>x DEF vars
<1>37. CASE OperationStep
  BY Zenon, <1>37, <1>1, <1>2, <1>3, <1>4, <1>5, <1>6, <1>7 DEF OperationStep
<1>38. CASE EstablishStep \/ TopologyStep \/ WarmStep
  BY Zenon, <1>38, <1>8, <1>9, <1>10, <1>11, <1>12, <1>13, <1>14, <1>15, <1>16
     DEF EstablishStep, TopologyStep, WarmStep
<1>39. CASE ManagementStep
  BY Zenon, <1>39, <1>17, <1>18, <1>19, <1>20, <1>21, <1>22 DEF ManagementStep
<1>40. CASE LoopStep
  BY Zenon, <1>40, <1>27, <1>28, <1>29, <1>30, <1>31, <1>32, <1>33, <1>34 DEF LoopStep
<1> QED
  BY Zenon, <1>23, <1>24, <1>25, <1>26, <1>35, <1>36, <1>37, <1>38, <1>39, <1>40 DEF Next, WorkerStep

-----------------------------------------------------------------------------
(* The holders of connections. *)

\* Every step keeps the operations and the connections they hold in agreement.
LEMMA HoldersStep ==
    ASSUME TypeOK, OwnerInv, LoopInv, RequestsQueued, HoldersKnow, [Next]_vars
    PROVE  HoldersKnow'
<1> DEFINE Goal == HoldersKnow'
<1>0. /\ req \in [Requests -> OpStates \cup WarmStates]
      /\ cur \in Requests \cup {NoRequest}
      /\ conn \in [Conns -> ConnType]
      /\ OpRequests \cap WarmRequests = {}
      /\ NoRequest \notin OpRequests
      /\ OpRequests \subseteq Requests
  BY ConstantsAssumption DEF TypeOK, Requests
<1>k. \A c \in Conns :
         /\ conn[c].at \notin {"pending", "failing", "out"} => conn[c].holder = NoRequest
         /\ conn[c].forPool /\ conn[c].at # "out" => conn[c].holder = NoRequest
         /\ conn[c].holder \in OpRequests =>
              req[conn[c].holder] = IF conn[c].at = "out" THEN "using" ELSE "establishing"
  BY SMTT(30) DEF HoldersKnow
<1>y. ASSUME \A c \in Conns :
               /\ conn'[c].holder = conn[c].holder
               /\ \/ conn[c].holder = NoRequest
                  \/ conn'[c].forPool = conn[c].forPool /\ conn'[c].at = conn[c].at
                  \/ /\ conn'[c].forPool = conn[c].forPool
                     /\ conn[c].at = "pending" /\ conn'[c].at = "failing",
             \A r \in OpRequests :
               /\ req[r] \in {"using", "establishing"} => req'[r] = req[r]
               /\ req'[r] = "using" => req[r] = "using"
      PROVE  Goal
  BY SMTT(30), <1>0, <1>y DEF HoldersKnow
<1>w. ASSUME conn' = conn,
             \A r \in Requests : req[r] \notin {"using", "establishing"} \/ req'[r] = req[r],
             \A r \in OpRequests : req'[r] = "using" => req[r] = "using"
      PROVE  Goal
  BY SMT, <1>0, <1>w DEF HoldersKnow
<1>q. /\ waitQueue # <<>> => /\ Head(waitQueue) \in Requests
                             /\ req[Head(waitQueue)] \in {"sent", "abandoned"}
      /\ requestQueue # <<>> => /\ Head(requestQueue) \in Requests
                                /\ req[Head(requestQueue)] \in {"sent", "abandoned"}
      /\ cur \in Requests => req[cur] \in {"sent", "abandoned"}
      /\ \A r \in Requests : r \in Elements(waitQueue) \cup Elements(requestQueue)
                             => req[r] \in {"sent", "abandoned"}
  BY QueueTail DEF TypeOK, RequestsQueued
<1>t. available # <<>> => /\ Head(available) \in Conns
                          /\ MostRecent \in Conns
                          /\ conn[Head(available)].at = "available"
                          /\ conn[MostRecent].at = "available"
  BY QueueTail, QueueFront DEF OwnerInv, Placed, MostRecent, TypeOK
<1>r. \A r \in Requests : Released(r) # "using"
  BY DEF Released
<1>1. ASSUME NEW r \in OpRequests, RequestConnection(r) PROVE Goal
  BY <1>0, <1>1, <1>w DEF RequestConnection
<1>2. ASSUME NEW r \in OpRequests, Abandon(r) PROVE Goal
  BY SMTT(30), <1>0, <1>2, <1>w DEF Abandon
<1>3. ASSUME NEW r \in OpRequests, AbandonEstablishing(r) PROVE Goal
  <2>1. \A c \in Conns : /\ conn'[c].at = conn[c].at
                         /\ conn'[c].forPool = conn[c].forPool
                         /\ conn'[c].holder = IF conn[c].holder = r THEN NoRequest
                                              ELSE conn[c].holder
    BY <1>0, <1>3 DEF AbandonEstablishing, ConnType
  <2>2. req[r] = "establishing" /\ req' = [req EXCEPT ![r] = "free"]
    BY <1>3 DEF AbandonEstablishing
  <2> QED BY SMT, <1>0, <2>1, <2>2 DEF HoldersKnow
<1>4. ASSUME NEW c \in Conns, BeginCommand(c) PROVE Goal
  <2>1. \A d \in Conns : /\ conn'[d].holder = conn[d].holder
                         /\ conn'[d].forPool = conn[d].forPool
                         /\ conn'[d].at = conn[d].at
    BY <1>0, <1>4 DEF BeginCommand, ConnType
  <2> QED BY <1>4, <1>y, <2>1 DEF BeginCommand
<1>5. ASSUME NEW c \in Conns, EndCommand(c) PROVE Goal
  <2>1. \A d \in Conns : /\ conn'[d].holder = conn[d].holder
                         /\ conn'[d].forPool = conn[d].forPool
                         /\ conn'[d].at = conn[d].at
    BY <1>0, <1>5 DEF EndCommand, ConnType
  <2> QED BY <1>5, <1>y, <2>1 DEF EndCommand
<1>6. ASSUME NEW c \in Conns, FailCommand(c) PROVE Goal
  <2>1. \A d \in Conns : /\ conn'[d].holder = conn[d].holder
                         /\ conn'[d].forPool = conn[d].forPool
                         /\ conn'[d].at = conn[d].at
    BY SMTT(30), <1>0, <1>6 DEF FailCommand, ConnType
  <2> QED BY <1>6, <1>y, <2>1 DEF FailCommand
<1>7. ASSUME NEW c \in Conns, Drop(c) PROVE Goal
  <2>1. /\ conn[c].at = "out" /\ conn'[c].holder = NoRequest
        /\ conn'[c].at \in {"checkIn", "none"}
        /\ \A d \in Conns \ {c} : conn'[d] = conn[d]
    BY <1>0, <1>7 DEF Drop, ConnType, NoConn
  <2>2. \A r \in Requests : req'[r] = IF r \in OpRequests /\ conn[c].holder = r THEN "free" ELSE req[r]
    BY <1>7 DEF Drop
  <2> QED BY SMT, <1>0, <2>1, <2>2 DEF HoldersKnow
<1>8. ASSUME NEW c \in Conns, EstablishSucceeds(c) PROVE Goal
  <2>1. CASE conn[c].forPool
    <3>1. conn[c].holder = NoRequest /\ conn'[c].holder = NoRequest
      BY SMT, <1>0, <1>k, <1>8, <2>1 DEF EstablishSucceeds, ConnType
    <3>2. req' = req /\ \A d \in Conns \ {c} : conn'[d] = conn[d]
      BY SMTT(30), <1>0, <1>8, <2>1 DEF EstablishSucceeds
    <3> QED BY <1>y, <3>1, <3>2
  <2>2. CASE ~conn[c].forPool
    <3>1. /\ conn[c].at = "pending" /\ conn'[c].at = "out" /\ ~conn'[c].forPool
          /\ conn'[c].holder = conn[c].holder
          /\ \A d \in Conns \ {c} : conn'[d] = conn[d]
      BY SMT, <1>0, <1>8, <2>2 DEF EstablishSucceeds, ConnType
    <3>2. \A r \in Requests : req'[r] = IF r \in OpRequests /\ conn[c].holder = r
                                         THEN "using" ELSE req[r]
      BY <1>8, <2>2 DEF EstablishSucceeds
    <3> QED BY SMT, <1>0, <2>2, <3>1, <3>2 DEF HoldersKnow
  <2> QED BY <2>1, <2>2
<1>9. ASSUME NEW c \in Conns, EstablishFails(c) PROVE Goal
  <2>1. \A d \in Conns : /\ conn'[d].holder = conn[d].holder
                         /\ conn'[d].forPool = conn[d].forPool
                         /\ \/ conn'[d].at = conn[d].at
                            \/ conn[d].at = "pending" /\ conn'[d].at = "failing"
    BY SMTT(30), <1>0, <1>9 DEF EstablishFails, ConnType
  <2> QED BY <1>9, <1>y, <2>1 DEF EstablishFails
<1>10. ASSUME NEW c \in Conns, ReportFailure(c) PROVE Goal
  <2>1. /\ conn[c].at = "failing" /\ conn'[c].holder = NoRequest
        /\ conn'[c].at \in {"failed", "none"}
        /\ \A d \in Conns \ {c} : conn'[d] = conn[d]
    BY <1>0, <1>10 DEF ReportFailure, NoConn
  <2>2. \A r \in Requests : req'[r] = IF r \in OpRequests /\ conn[c].holder = r THEN "free" ELSE req[r]
    BY <1>10 DEF ReportFailure
  <2> QED BY SMT, <1>0, <2>1, <2>2 DEF HoldersKnow
<1>11. ASSUME NEW b \in BOOLEAN, SendClear(b) PROVE Goal
  BY <1>11, <1>w DEF SendClear
<1>12. CASE SendMarkAsReady
  BY <1>12, <1>w DEF SendMarkAsReady
<1>13. CASE DropHandles
  BY <1>13, <1>w DEF DropHandles
<1>14. ASSUME NEW w \in WarmRequests, BroadcastFillPool(w) PROVE Goal
  BY <1>0, <1>14, <1>y DEF BroadcastFillPool
<1>15. ASSUME NEW w \in WarmRequests, RequestWarmPool(w) PROVE Goal
  BY SMTT(30), <1>0, <1>15, <1>y DEF RequestWarmPool
<1>16. ASSUME NEW w \in WarmRequests, AcknowledgeFill(w) PROVE Goal
  BY <1>0, <1>16, <1>y DEF AcknowledgeFill
<1>17. CASE CheckIn
  <2>1. /\ Head(mgmt).conn \in Conns /\ conn[Head(mgmt).conn].at = "checkIn"
        /\ conn[Head(mgmt).conn].holder = NoRequest
    BY <1>k, <1>17, ReceivedConn DEF CheckIn
  <2>2. \A d \in Conns : \/ conn'[d] = conn[d]
                         \/ conn[d].holder = NoRequest /\ conn'[d].holder = NoRequest
    BY SMTT(30), <1>0, <1>17, <2>1 DEF CheckIn, ConnType, NoConn
  <2> QED BY <1>17, <1>y, <2>2 DEF CheckIn
<1>18. CASE Clear
  <2>1. \A d \in Conns : /\ conn'[d].holder = conn[d].holder
                         /\ conn'[d].forPool = conn[d].forPool
                         /\ conn'[d].at = conn[d].at
    BY <1>0, <1>18 DEF Clear, ConnType
  <2>2. \A r \in Requests : \/ req'[r] = req[r]
                            \/ req[r] \in {"sent", "abandoned"} /\ req'[r] = Released(r)
    BY <1>18, <1>q DEF Clear
  <2> QED BY <1>0, <1>y, <1>r, <2>1, <2>2
<1>19. CASE MarkAsReady
  BY <1>19, <1>w DEF MarkAsReady
<1>20. CASE HandleConnectionSucceeded
  <2>1. req' = req
    BY <1>20 DEF HandleConnectionSucceeded
  <2>2. CASE conn' = conn
    BY <1>w, <2>1, <2>2
  <2>3. CASE Receive("ForPool") /\ conn' = [conn EXCEPT ![Head(mgmt).conn].at = "available"]
    <3>1. /\ Head(mgmt).conn \in Conns
          /\ conn[Head(mgmt).conn].holder = NoRequest
      BY <1>k, <2>3, ReceivedConn
    <3>2. \A d \in Conns : \/ conn'[d] = conn[d]
                           \/ conn[d].holder = NoRequest /\ conn'[d].holder = NoRequest
      BY <1>0, <2>3, <3>1 DEF ConnType
    <3> QED BY <1>y, <2>1, <3>2
  <2> QED BY <1>20, <2>2, <2>3 DEF HandleConnectionSucceeded
<1>21. CASE HandleConnectionFailed
  <2>1. /\ Head(mgmt).conn \in Conns /\ conn[Head(mgmt).conn].at = "failed"
        /\ conn[Head(mgmt).conn].holder = NoRequest
    <3>1. Receive("Failed")
      BY Zenon, <1>21 DEF HandleConnectionFailed
    <3>2. Head(mgmt).conn \in Conns /\ conn[Head(mgmt).conn].at = "failed"
      BY <3>1, ReceivedConn
    <3> QED BY <1>k, <3>2
  <2>2. \A d \in Conns : \/ conn'[d] = conn[d]
                         \/ conn[d].holder = NoRequest /\ conn'[d].holder = NoRequest
    BY SMTT(30), <1>0, <1>21, <2>1 DEF HandleConnectionFailed, NoConn
  <2> QED BY SMTT(30), <1>21, <1>y, <2>2 DEF HandleConnectionFailed
<1>22. CASE SpawnFillPool
  <2>1. Head(mgmt).task \in WarmRequests
    <3>1. Head(mgmt) \in MsgType /\ Head(mgmt).type = "FillPool"
      BY <1>22, ReceiveFacts DEF SpawnFillPool
    <3> QED BY <3>1, MessageFacts
  <2>2. conn' = conn /\ \A r \in OpRequests : req'[r] = req[r]
    BY <1>0, <1>22, <2>1 DEF SpawnFillPool
  <2> QED BY SMTT(30), <1>y, <2>2
<1>23. CASE LeaveLoop
  <2>1. \A d \in Conns : \/ conn'[d] = conn[d]
                         \/ conn[d].holder = NoRequest /\ conn'[d].holder = NoRequest
    BY SMTT(30), <1>0, <1>k, <1>23 DEF LeaveLoop, NoConn
  <2> QED BY SMTT(30), <1>23, <1>y, <2>1 DEF LeaveLoop
<1>24. CASE CloseChannels
  <2>1. \A d \in Conns : \/ conn'[d] = conn[d]
                         \/ conn[d].holder = NoRequest /\ conn'[d].holder = NoRequest
    BY <1>0, <1>k, <1>24 DEF CloseChannels, NoConn
  <2>2. \A r \in Requests : \/ req'[r] = req[r]
                            \/ req[r] \in {"sent", "abandoned"} /\ req'[r] = Released(r)
                            \/ req[r] = "announced" /\ req'[r] = "free"
    BY <1>24, <1>q DEF CloseChannels
  <2> QED BY SMTT(30), <1>0, <1>y, <1>r, <2>1, <2>2
<1>25. CASE ReceiveRequest
  BY <1>0, <1>q, <1>r, <1>25, <1>w DEF ReceiveRequest
<1>26. CASE StartMaintenance
  BY <1>26, <1>w DEF StartMaintenance
<1>27. CASE RemovePerished
  <2>1. \A d \in Conns : \/ conn'[d] = conn[d]
                         \/ conn[d].holder = NoRequest /\ conn'[d].holder = NoRequest
    BY SMTT(30), <1>0, <1>k, <1>t, <1>27 DEF RemovePerished, CloseConnection, NoConn
  <2> QED BY SMTT(30), <1>27, <1>y, <2>1 DEF RemovePerished
<1>28. CASE EnsureMinConnections
  <2>1. req' = req
    BY <1>28 DEF EnsureMinConnections
  <2>2. ASSUME NEW c \in Conns, CreatePendingConnection(c, NoRequest, TRUE) PROVE Goal
    <3>1. \A d \in Conns : \/ conn'[d] = conn[d]
                           \/ conn[d].holder = NoRequest /\ conn'[d].holder = NoRequest
      BY SMTT(30), <1>0, <1>k, <2>2 DEF CreatePendingConnection, NoConn
    <3> QED BY <1>y, <2>1, <3>1
  <2> QED BY Zenon, <1>28, <1>w, <2>1, <2>2 DEF EnsureMinConnections
<1>29. CASE ServeWaiters
  BY SMTT(30), <1>0, <1>q, <1>r, <1>29, <1>w DEF ServeWaiters
<1>30. CASE AnswerPoolWarmed
  BY SMTT(30), <1>0, <1>30, <1>y DEF AnswerPoolWarmed, Answer
<1>31. CASE DiscardPerished
  <2>1. \A d \in Conns : \/ conn'[d] = conn[d]
                         \/ conn[d].holder = NoRequest /\ conn'[d].holder = NoRequest
    BY <1>0, <1>k, <1>t, <1>31 DEF DiscardPerished, CloseConnection, NoConn
  <2>2. req' = req
    BY Zenon, <1>31 DEF DiscardPerished
  <2> QED BY <1>y, <2>1, <2>2
<1>32. CASE HandOut
  <2>1. /\ cur \in OpRequests /\ cur \in Requests /\ available # <<>>
        /\ req' = [req EXCEPT ![cur] = IF IsAbandoned(cur) THEN "free" ELSE "using"]
    BY SMTT(30), <1>0, <1>32 DEF HandOut, Answer
  <2>2. \A c \in Conns : conn[c].holder # cur
    BY <1>k, <1>q, <2>1
  <2>3. CASE IsAbandoned(cur)
    BY SMTT(30), <1>0, <1>w, <1>q, <1>32, <2>1, <2>3 DEF HandOut
  <2>4. CASE ~IsAbandoned(cur)
    <3>1. PICK m \in Conns : m = MostRecent
      BY <1>t, <2>1
    <3>2. conn' = [conn EXCEPT ![m].at = "out", ![m].holder = cur]
      BY <1>32, <2>4, <3>1 DEF HandOut
    <3>3. /\ conn[m].at = "available" /\ conn[m].holder = NoRequest
          /\ conn'[m].at = "out" /\ conn'[m].holder = cur
          /\ \A d \in Conns \ {m} : conn'[d] = conn[d]
      BY SMTT(30), <1>0, <1>k, <1>t, <2>1, <3>1, <3>2 DEF ConnType
    <3>4. req' = [req EXCEPT ![cur] = "using"]
      BY SMTT(30), <2>1, <2>4
    <3>7. \A d \in Conns :
            /\ conn'[d].at \notin {"pending", "failing", "out"} => conn'[d].holder = NoRequest
            /\ conn'[d].forPool /\ conn'[d].at # "out" => conn'[d].holder = NoRequest
            /\ conn'[d].holder \in OpRequests =>
                 req'[conn'[d].holder] = IF conn'[d].at = "out" THEN "using" ELSE "establishing"
      BY SMT, <1>0, <1>k, <2>1, <2>2, <3>3, <3>4
    <3>8. \A d, e \in Conns :
            conn'[d].holder \in OpRequests /\ conn'[d].holder = conn'[e].holder => d = e
      BY SMT, <1>0, <1>k, <2>1, <2>2, <3>3, <3>4 DEF HoldersKnow
    <3>9. \A r \in OpRequests : req'[r] = "using" => \E d \in Conns : conn'[d].holder = r
      BY SMT, <1>0, <1>k, <2>1, <2>2, <3>3, <3>4 DEF HoldersKnow
    <3> QED BY <3>7, <3>8, <3>9 DEF HoldersKnow
  <2> QED BY <2>3, <2>4
<1>33. CASE CreateForRequest
  <2>1. /\ cur \in Requests
        /\ req' = [req EXCEPT ![cur] = IF IsAbandoned(cur) THEN "free"
                                       ELSE IF cur \in WarmRequests THEN "filling"
                                       ELSE "establishing"]
    BY SMTT(30), <1>0, <1>33, ConstantFacts DEF CreateForRequest, NothingToHandOut
  <2>2. \A c \in Conns : cur \in OpRequests => conn[c].holder # cur
    BY <1>k, <1>q, <2>1
  <2>3. PICK c \in Conns :
          CreatePendingConnection(c, IF IsAbandoned(cur) THEN NoRequest ELSE cur, FALSE)
    BY Zenon, <1>33 DEF CreateForRequest
  <2>4. /\ conn[c].at = "none" /\ conn[c].holder = NoRequest
        /\ conn'[c].at = "pending" /\ ~conn'[c].forPool
        /\ conn'[c].holder = IF IsAbandoned(cur) THEN NoRequest ELSE cur
        /\ \A d \in Conns \ {c} : conn'[d] = conn[d]
    BY <1>0, <1>k, <2>3 DEF CreatePendingConnection, NoConn
  <2>5. \A r \in OpRequests : /\ r # cur => req'[r] = req[r]
                              /\ r = cur => req'[r] = IF IsAbandoned(cur) THEN "free"
                                                      ELSE "establishing"
    BY <1>0, <2>1
  <2>6. cur \in OpRequests => req[cur] \in {"sent", "abandoned"}
    BY <1>q, <2>1
  <2>7. \A d \in Conns :
          /\ conn'[d].at \notin {"pending", "failing", "out"} => conn'[d].holder = NoRequest
          /\ conn'[d].forPool /\ conn'[d].at # "out" => conn'[d].holder = NoRequest
          /\ conn'[d].holder \in OpRequests =>
               req'[conn'[d].holder] = IF conn'[d].at = "out" THEN "using" ELSE "establishing"
    BY SMT, <1>0, <1>k, <2>1, <2>2, <2>4, <2>5, <2>6
  <2>8. \A d, e \in Conns :
          conn'[d].holder \in OpRequests /\ conn'[d].holder = conn'[e].holder => d = e
    BY SMT, <1>0, <1>k, <2>1, <2>2, <2>4, <2>5, <2>6 DEF HoldersKnow
  <2>9. \A r \in OpRequests : req'[r] = "using" => \E d \in Conns : conn'[d].holder = r
    BY SMT, <1>0, <1>k, <2>1, <2>2, <2>4, <2>5, <2>6 DEF HoldersKnow
  <2> QED BY <2>7, <2>8, <2>9 DEF HoldersKnow
<1>34. CASE RequeueAtFront
  BY <1>34, <1>w DEF RequeueAtFront, NothingToHandOut
<1>35. ASSUME NEW c \in Conns, BecomeIdle(c) PROVE Goal
  <2>1. \A d \in Conns : /\ conn'[d].holder = conn[d].holder
                         /\ conn'[d].forPool = conn[d].forPool
                         /\ conn'[d].at = conn[d].at
    BY <1>0, <1>35 DEF BecomeIdle, ConnType
  <2> QED BY <1>35, <1>y, <2>1 DEF BecomeIdle
<1>36. CASE UNCHANGED vars
  BY <1>36, <1>w DEF vars
<1>37. CASE OperationStep
  BY Zenon, <1>37, <1>1, <1>2, <1>3, <1>4, <1>5, <1>6, <1>7 DEF OperationStep
<1>38. CASE EstablishStep \/ TopologyStep \/ WarmStep
  BY Zenon, <1>38, <1>8, <1>9, <1>10, <1>11, <1>12, <1>13, <1>14, <1>15, <1>16
     DEF EstablishStep, TopologyStep, WarmStep
<1>39. CASE ManagementStep
  BY Zenon, <1>39, <1>17, <1>18, <1>19, <1>20, <1>21, <1>22 DEF ManagementStep
<1>40. CASE LoopStep
  BY Zenon, <1>40, <1>27, <1>28, <1>29, <1>30, <1>31, <1>32, <1>33, <1>34 DEF LoopStep
<1> QED
  BY Zenon, <1>23, <1>24, <1>25, <1>26, <1>35, <1>36, <1>37, <1>38, <1>39, <1>40 DEF Next, WorkerStep

-----------------------------------------------------------------------------
(* The limit, what is handed out, and the answers to operations. *)

TotalBounded == Running => total <= MaxPoolSize \/ total <= MinPoolSize

\* No step takes total_connection_count beyond both limits.
LEMMA BoundStep ==
    ASSUME TypeOK, TotalBounded, [Next]_vars
    PROVE  TotalBounded'
<1> DEFINE Goal == TotalBounded'
<1>0. total \in Nat /\ MinPoolSize \in Nat /\ MaxPoolSize \in Nat
  BY ConstantsAssumption DEF TypeOK
<1>x. ASSUME Running' => Running, total' = total \/ total' = total - 1 PROVE Goal
  BY SMT, <1>0, <1>x DEF TotalBounded
<1>c. ASSUME total' = total + 1, total < MaxPoolSize \/ total < MinPoolSize PROVE Goal
  BY SMT, <1>0, <1>c DEF TotalBounded
<1>1. ASSUME NEW r \in OpRequests, RequestConnection(r) PROVE Goal
  BY <1>1, <1>x DEF RequestConnection, workerVars, loopVars, Running
<1>2. ASSUME NEW r \in OpRequests, Abandon(r) PROVE Goal
  BY <1>2, <1>x DEF Abandon, workerVars, loopVars, Running
<1>3. ASSUME NEW r \in OpRequests, AbandonEstablishing(r) PROVE Goal
  BY <1>3, <1>x DEF AbandonEstablishing, workerVars, loopVars, Running
<1>4. ASSUME NEW c \in Conns, BeginCommand(c) PROVE Goal
  BY <1>4, <1>x DEF BeginCommand, workerVars, loopVars, Running
<1>5. ASSUME NEW c \in Conns, EndCommand(c) PROVE Goal
  BY <1>5, <1>x DEF EndCommand, workerVars, loopVars, Running
<1>6. ASSUME NEW c \in Conns, FailCommand(c) PROVE Goal
  BY <1>6, <1>x DEF FailCommand, workerVars, loopVars, Running
<1>7. ASSUME NEW c \in Conns, Drop(c) PROVE Goal
  BY <1>7, <1>x DEF Drop, workerVars, loopVars, Running
<1>8. ASSUME NEW c \in Conns, EstablishSucceeds(c) PROVE Goal
  BY <1>8, <1>x DEF EstablishSucceeds, workerVars, loopVars, Running
<1>9. ASSUME NEW c \in Conns, EstablishFails(c) PROVE Goal
  BY <1>9, <1>x DEF EstablishFails, workerVars, loopVars, Running
<1>10. ASSUME NEW c \in Conns, ReportFailure(c) PROVE Goal
  BY <1>10, <1>x DEF ReportFailure, workerVars, loopVars, Running
<1>11. ASSUME NEW b \in BOOLEAN, SendClear(b) PROVE Goal
  BY <1>11, <1>x DEF SendClear, workerVars, loopVars, Running
<1>12. CASE SendMarkAsReady
  BY <1>12, <1>x DEF SendMarkAsReady, workerVars, loopVars, Running
<1>13. CASE DropHandles
  BY <1>13, <1>x DEF DropHandles, workerVars, loopVars, Running
<1>14. ASSUME NEW w \in WarmRequests, BroadcastFillPool(w) PROVE Goal
  BY <1>14, <1>x DEF BroadcastFillPool, workerVars, loopVars, Running
<1>15. ASSUME NEW w \in WarmRequests, RequestWarmPool(w) PROVE Goal
  BY <1>15, <1>x DEF RequestWarmPool, workerVars, loopVars, Running
<1>16. ASSUME NEW w \in WarmRequests, AcknowledgeFill(w) PROVE Goal
  BY <1>16, <1>x DEF AcknowledgeFill, workerVars, loopVars, Running
<1>17. CASE CheckIn
  BY <1>17, <1>x DEF CheckIn, Receive, workerVars, loopVars, Running
<1>18. CASE Clear
  BY <1>18, <1>x DEF Clear, Receive, workerVars, loopVars, Running
<1>19. CASE MarkAsReady
  BY <1>19, <1>x DEF MarkAsReady, Receive, workerVars, loopVars, Running
<1>20. CASE HandleConnectionSucceeded
  BY <1>20, <1>x DEF HandleConnectionSucceeded, Receive, workerVars, loopVars, Running
<1>21. CASE HandleConnectionFailed
  BY <1>21, <1>x DEF HandleConnectionFailed, Receive, workerVars, loopVars, Running
<1>22. CASE SpawnFillPool
  BY <1>22, <1>x DEF SpawnFillPool, Receive, workerVars, loopVars, Running
<1>23. CASE LeaveLoop
  BY <1>23, <1>x DEF LeaveLoop, workerVars, loopVars, Running
<1>24. CASE CloseChannels
  BY <1>24, <1>x DEF CloseChannels, workerVars, loopVars, Running
<1>25. CASE ReceiveRequest
  BY <1>25, <1>x DEF ReceiveRequest, workerVars, loopVars, Running
<1>26. CASE StartMaintenance
  BY <1>26, <1>x DEF StartMaintenance, workerVars, loopVars, Running
<1>27. CASE RemovePerished
  BY <1>27, <1>x DEF RemovePerished, CloseConnection, workerVars, loopVars, Running
<1>28. CASE EnsureMinConnections
  BY <1>0, <1>28, <1>c, <1>x DEF EnsureMinConnections, CreatePendingConnection, Running
<1>29. CASE ServeWaiters
  BY <1>29, <1>x DEF ServeWaiters, workerVars, loopVars, Running
<1>30. CASE AnswerPoolWarmed
  BY <1>30, <1>x DEF AnswerPoolWarmed, Answer, workerVars, loopVars, Running
<1>31. CASE DiscardPerished
  BY <1>31, <1>x DEF DiscardPerished, CloseConnection, workerVars, loopVars, Running
<1>32. CASE HandOut
  BY <1>32, <1>x DEF HandOut, Answer, workerVars, loopVars, Running
<1>33. CASE CreateForRequest
  BY <1>33, <1>c DEF CreateForRequest, CreatePendingConnection, BelowMaxConnections
<1>34. CASE RequeueAtFront
  BY <1>34, <1>x DEF RequeueAtFront, NothingToHandOut, workerVars, loopVars, Running
<1>35. ASSUME NEW c \in Conns, BecomeIdle(c) PROVE Goal
  BY <1>35, <1>x DEF BecomeIdle, workerVars, loopVars, Running
<1>36. CASE UNCHANGED vars
  BY Zenon, <1>36, <1>x DEF vars, Running
<1> QED
  BY <1>1, <1>2, <1>3, <1>4, <1>5, <1>6, <1>7, <1>8, <1>9, <1>10, <1>11, <1>12, <1>13,
     <1>14, <1>15, <1>16, <1>17, <1>18, <1>19, <1>20, <1>21, <1>22, <1>23, <1>24, <1>25,
     <1>26, <1>27, <1>28, <1>29, <1>30, <1>31, <1>32, <1>33, <1>34, <1>35, <1>36 DEF
     Next, OperationStep, EstablishStep, TopologyStep, WarmStep, ManagementStep,
     LoopStep, WorkerStep

\* Only check_out hands out a connection, and it has tested it.
LEMMA FreshStep ==
    ASSUME IInv, [Next]_vars
    PROVE  FreshHandedOut
<1> DEFINE Goal == FreshHandedOut
<1>0. conn \in [Conns -> ConnType]
  BY DEF IInv, TypeOK
<1>u. ASSUME conn' = conn PROVE Goal
  BY <1>u DEF FreshHandedOut
<1> USE DEF FreshHandedOut
<1>1. ASSUME NEW r \in OpRequests, RequestConnection(r) PROVE Goal
  BY <1>1, <1>u DEF RequestConnection
<1>2. ASSUME NEW r \in OpRequests, Abandon(r) PROVE Goal
  BY <1>2, <1>u DEF Abandon
<1>3. ASSUME NEW r \in OpRequests, AbandonEstablishing(r) PROVE Goal
  BY <1>0, <1>3 DEF AbandonEstablishing, ConnType, NoConn
<1>4. ASSUME NEW c \in Conns, BeginCommand(c) PROVE Goal
  BY <1>0, <1>4 DEF BeginCommand, ConnType, NoConn
<1>5. ASSUME NEW c \in Conns, EndCommand(c) PROVE Goal
  BY <1>0, <1>5 DEF EndCommand, ConnType, NoConn
<1>6. ASSUME NEW c \in Conns, FailCommand(c) PROVE Goal
  BY <1>0, <1>6 DEF FailCommand, ConnType, NoConn
<1>7. ASSUME NEW c \in Conns, Drop(c) PROVE Goal
  BY <1>0, <1>7 DEF Drop, ConnType, NoConn
<1>8. ASSUME NEW c \in Conns, EstablishSucceeds(c) PROVE Goal
  BY <1>0, <1>8 DEF EstablishSucceeds, ConnType, NoConn
<1>9. ASSUME NEW c \in Conns, EstablishFails(c) PROVE Goal
  BY <1>0, <1>9 DEF EstablishFails, ConnType, NoConn
<1>10. ASSUME NEW c \in Conns, ReportFailure(c) PROVE Goal
  BY <1>0, <1>10 DEF ReportFailure, ConnType, NoConn
<1>11. ASSUME NEW b \in BOOLEAN, SendClear(b) PROVE Goal
  BY <1>11, <1>u DEF SendClear
<1>12. CASE SendMarkAsReady
  BY <1>12, <1>u DEF SendMarkAsReady
<1>13. CASE DropHandles
  BY <1>13, <1>u DEF DropHandles
<1>14. ASSUME NEW w \in WarmRequests, BroadcastFillPool(w) PROVE Goal
  BY <1>14, <1>u DEF BroadcastFillPool
<1>15. ASSUME NEW w \in WarmRequests, RequestWarmPool(w) PROVE Goal
  BY <1>15, <1>u DEF RequestWarmPool
<1>16. ASSUME NEW w \in WarmRequests, AcknowledgeFill(w) PROVE Goal
  BY <1>16, <1>u DEF AcknowledgeFill
<1>17. CASE CheckIn
  BY SMT, <1>0, <1>17 DEF CheckIn, ConnType, NoConn
<1>18. CASE Clear
  BY <1>0, <1>18 DEF Clear, ConnType, NoConn
<1>19. CASE MarkAsReady
  BY <1>19, <1>u DEF MarkAsReady
<1>20. CASE HandleConnectionSucceeded
  BY SMTT(30), <1>0, <1>20 DEF HandleConnectionSucceeded, ConnType, NoConn
<1>21. CASE HandleConnectionFailed
  BY <1>0, <1>21 DEF HandleConnectionFailed, ConnType, NoConn
<1>22. CASE SpawnFillPool
  BY <1>22, <1>u DEF SpawnFillPool
<1>23. CASE LeaveLoop
  BY <1>0, <1>23 DEF LeaveLoop, ConnType, NoConn
<1>24. CASE CloseChannels
  BY <1>0, <1>24 DEF CloseChannels, ConnType, NoConn
<1>25. CASE ReceiveRequest
  BY <1>25, <1>u DEF ReceiveRequest
<1>26. CASE StartMaintenance
  BY <1>26, <1>u DEF StartMaintenance
<1>27. CASE RemovePerished
  BY SMT, <1>0, <1>27 DEF RemovePerished, CloseConnection, ConnType, NoConn
<1>28. CASE EnsureMinConnections
  BY <1>0, <1>28 DEF EnsureMinConnections, CreatePendingConnection, ConnType, NoConn
<1>29. CASE ServeWaiters
  BY <1>29, <1>u DEF ServeWaiters
<1>30. CASE AnswerPoolWarmed
  BY <1>30, <1>u DEF AnswerPoolWarmed
<1>31. CASE DiscardPerished
  BY <1>0, <1>31 DEF DiscardPerished, CloseConnection, ConnType, NoConn
<1>32. CASE HandOut
  <2>1. /\ available # <<>> /\ ~IsPerished(MostRecent) /\ cur \in OpRequests
        /\ conn' = conn \/ conn' = [conn EXCEPT ![MostRecent].at = "out", ![MostRecent].holder = cur]
    BY <1>32 DEF HandOut
  <2>2. poolState = "Ready"
    BY <2>1, ConstantFacts DEF IInv, NoWaiterWhilePaused
  <2>3. \A c \in Conns : c # MostRecent => conn'[c] = conn[c]
    BY <1>0, <2>1
  <2> QED BY <2>1, <2>2, <2>3 DEF IsPerished, IsStale
<1>33. CASE CreateForRequest
  BY <1>0, <1>33 DEF CreateForRequest, CreatePendingConnection, NothingToHandOut, ConnType, NoConn
<1>34. CASE RequeueAtFront
  BY <1>34, <1>u DEF RequeueAtFront
<1>35. ASSUME NEW c \in Conns, BecomeIdle(c) PROVE Goal
  BY <1>0, <1>35 DEF BecomeIdle, ConnType, NoConn
<1>36. CASE UNCHANGED vars
  BY Zenon, <1>36, <1>u DEF vars
<1> QED
  BY ZenonT(30), <1>1, <1>2, <1>3, <1>4, <1>5, <1>6, <1>7, <1>8, <1>9, <1>10, <1>11, <1>12, <1>13,
     <1>14, <1>15, <1>16, <1>17, <1>18, <1>19, <1>20, <1>21, <1>22, <1>23, <1>24, <1>25,
     <1>26, <1>27, <1>28, <1>29, <1>30, <1>31, <1>32, <1>33, <1>34, <1>35, <1>36 DEF
     Next, OperationStep, EstablishStep, TopologyStep, WarmStep, ManagementStep,
     LoopStep, WorkerStep

\* The worker runs while a handle is alive, and nobody waits once none is.
HandlesHeld ==
    /\ ~Running => ~handles
    /\ ~handles => \A r \in OpRequests : req[r] # "sent"

\* An operation that waits keeps a handle, and the worker, alive.
LEMMA HandlesStep ==
    ASSUME TypeOK, HandlesHeld, [Next]_vars
    PROVE  HandlesHeld'
<1> DEFINE Goal == HandlesHeld'
<1>0. req \in [Requests -> OpStates \cup WarmStates]
  BY DEF TypeOK
<1>c. OpRequests \cap WarmRequests = {} /\ OpRequests \subseteq Requests /\ WarmRequests \subseteq Requests
  BY ConstantsAssumption DEF Requests
<1> USE DEF HandlesHeld, Running, loopVars
<1>1. ASSUME NEW r \in OpRequests, RequestConnection(r) PROVE Goal
  BY <1>0, <1>c, <1>1 DEF RequestConnection
<1>2. ASSUME NEW r \in OpRequests, Abandon(r) PROVE Goal
  BY <1>0, <1>c, <1>2 DEF Abandon
<1>3. ASSUME NEW r \in OpRequests, AbandonEstablishing(r) PROVE Goal
  BY <1>0, <1>c, <1>3 DEF AbandonEstablishing
<1>4. ASSUME NEW c \in Conns, BeginCommand(c) PROVE Goal
  BY <1>0, <1>c, <1>4 DEF BeginCommand
<1>5. ASSUME NEW c \in Conns, EndCommand(c) PROVE Goal
  BY <1>0, <1>c, <1>5 DEF EndCommand
<1>6. ASSUME NEW c \in Conns, FailCommand(c) PROVE Goal
  BY <1>0, <1>c, <1>6 DEF FailCommand
<1>7. ASSUME NEW c \in Conns, Drop(c) PROVE Goal
  BY <1>0, <1>c, <1>7 DEF Drop
<1>8. ASSUME NEW c \in Conns, EstablishSucceeds(c) PROVE Goal
  BY <1>0, <1>c, <1>8 DEF EstablishSucceeds
<1>9. ASSUME NEW c \in Conns, EstablishFails(c) PROVE Goal
  BY <1>0, <1>c, <1>9 DEF EstablishFails
<1>10. ASSUME NEW c \in Conns, ReportFailure(c) PROVE Goal
  BY <1>0, <1>c, <1>10 DEF ReportFailure
<1>11. ASSUME NEW b \in BOOLEAN, SendClear(b) PROVE Goal
  BY <1>0, <1>c, <1>11 DEF SendClear
<1>12. CASE SendMarkAsReady
  BY <1>0, <1>c, <1>12 DEF SendMarkAsReady
<1>13. CASE DropHandles
  BY <1>0, <1>c, <1>13 DEF DropHandles
<1>14. ASSUME NEW w \in WarmRequests, BroadcastFillPool(w) PROVE Goal
  BY <1>0, <1>c, <1>14 DEF BroadcastFillPool
<1>15. ASSUME NEW w \in WarmRequests, RequestWarmPool(w) PROVE Goal
  BY <1>0, <1>c, <1>15 DEF RequestWarmPool
<1>16. ASSUME NEW w \in WarmRequests, AcknowledgeFill(w) PROVE Goal
  BY <1>0, <1>c, <1>16 DEF AcknowledgeFill
<1>17. CASE CheckIn
  BY <1>0, <1>c, <1>17 DEF CheckIn, Receive
<1>18. CASE Clear
  BY <1>0, <1>c, <1>18 DEF Clear, Receive, Released
<1>19. CASE MarkAsReady
  BY <1>0, <1>c, <1>19 DEF MarkAsReady, Receive
<1>20. CASE HandleConnectionSucceeded
  BY <1>0, <1>c, <1>20 DEF HandleConnectionSucceeded, Receive
<1>21. CASE HandleConnectionFailed
  BY <1>0, <1>c, <1>21 DEF HandleConnectionFailed, Receive
<1>22. CASE SpawnFillPool
  BY <1>0, <1>c, <1>22 DEF SpawnFillPool, Receive
<1>23. CASE LeaveLoop
  BY <1>0, <1>c, <1>23 DEF LeaveLoop
<1>24. CASE CloseChannels
  BY <1>0, <1>c, <1>24 DEF CloseChannels, Released
<1>25. CASE ReceiveRequest
  BY <1>0, <1>c, <1>25 DEF ReceiveRequest, Released
<1>26. CASE StartMaintenance
  BY <1>0, <1>c, <1>26 DEF StartMaintenance
<1>27. CASE RemovePerished
  BY <1>0, <1>c, <1>27 DEF RemovePerished, CloseConnection
<1>28. CASE EnsureMinConnections
  BY <1>0, <1>c, <1>28 DEF EnsureMinConnections, CreatePendingConnection
<1>29. CASE ServeWaiters
  BY <1>0, <1>c, <1>29 DEF ServeWaiters
<1>30. CASE AnswerPoolWarmed
  BY <1>0, <1>c, <1>30 DEF AnswerPoolWarmed, Answer
<1>31. CASE DiscardPerished
  BY <1>0, <1>c, <1>31 DEF DiscardPerished, CloseConnection
<1>32. CASE HandOut
  BY <1>0, <1>c, <1>32 DEF HandOut, Answer
<1>33. CASE CreateForRequest
  BY <1>0, <1>c, <1>33 DEF CreateForRequest, NothingToHandOut
<1>34. CASE RequeueAtFront
  BY <1>0, <1>c, <1>34 DEF RequeueAtFront, NothingToHandOut
<1>35. ASSUME NEW c \in Conns, BecomeIdle(c) PROVE Goal
  BY <1>0, <1>c, <1>35 DEF BecomeIdle
<1>36. CASE UNCHANGED vars
  BY <1>36 DEF vars
<1> QED
  BY ZenonT(30), <1>1, <1>2, <1>3, <1>4, <1>5, <1>6, <1>7, <1>8, <1>9, <1>10, <1>11, <1>12, <1>13,
     <1>14, <1>15, <1>16, <1>17, <1>18, <1>19, <1>20, <1>21, <1>22, <1>23, <1>24, <1>25,
     <1>26, <1>27, <1>28, <1>29, <1>30, <1>31, <1>32, <1>33, <1>34, <1>35, <1>36 DEF
     Next, OperationStep, EstablishStep, TopologyStep, WarmStep, ManagementStep,
     LoopStep, WorkerStep

=============================================================================
