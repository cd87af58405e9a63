-------------------------- MODULE MediaSocketsProofs --------------------------
(***************************************************************************)
(* The loop of a media process, proved for any number of port blocks, any  *)
(* buffers and allowances: no socket falls silent under edge-triggered     *)
(* readiness and no datagram that waits to be sent is forgotten, although  *)
(* the queues of the loop go on naming sockets that were closed.           *)
(***************************************************************************)
EXTENDS PortPoolProofs

(* What a queue of tokens holds, and that it holds nothing twice.          *)
In(q, t) == \E i \in 1..Len(q) : q[i] = t
Once(q) == \A i, j \in 1..Len(q) : q[i] = q[j] => i = j

(* Generations grow, and a session has one.                                *)
GenOK ==
    /\ \A b \in Blocks : gen[b] <= lastGen
    /\ \A b \in Open : gen[b] >= 1

(* A token in ready or delayed stands for the mark of its socket as long   *)
(* as it is current, and a mark for such a token.                          *)
ReadyOK ==
    /\ Once(ready)
    /\ \A t \in Token : In(ready, t) =>
          /\ t.gen <= gen[t.block] /\ t \notin delayed
          /\ Current(t) => queued[t.block][t.side] = t.gen
DelayedOK ==
    /\ \A t \in events : Current(t)
    /\ \A t \in delayed : /\ Current(t)
                          /\ delayedBySlot[t.block][t.side] = t.gen
                          /\ queued[t.block][t.side] = t.gen
    /\ \A b \in Blocks, s \in Sides : delayedBySlot[b][s] # 0 => TokenOf(b, s) \in delayed
MarksOK ==
    /\ \A b \in Blocks, s \in Sides : b \notin Open => queued[b][s] = 0 /\ data[b][s] = 0
    /\ \A b \in Open, s \in Sides :
          /\ queued[b][s] \in {0, gen[b]}
          /\ queued[b][s] = gen[b] => In(ready, TokenOf(b, s)) \/ TokenOf(b, s) \in delayed
          /\ data[b][s] > 0 => queued[b][s] = gen[b] \/ TokenOf(b, s) \in events

ReadInv == ReadyOK /\ DelayedOK /\ MarksOK

(* The same for datagrams that wait to be sent.                            *)
ListedOK ==
    /\ Once(pendingTokens)
    /\ \A t \in Token : In(pendingTokens, t) =>
          /\ t.gen <= gen[t.block]
          /\ Current(t) => pendingQueued[t.block][t.side] = t.gen
PendingOK ==
    /\ \A b \in Blocks, s \in Sides :
          /\ b \notin Open => pending[b][s] = <<>> /\ pendingQueued[b][s] = 0
          /\ \A i \in 1..Len(pending[b][s]) : pending[b][s][i] = peer[b]
          /\ peer[b] = 0 => pending[b][s] = <<>>
    /\ \A b \in Open, s \in Sides :
          /\ pendingQueued[b][s] \in {0, gen[b]}
          /\ pendingQueued[b][s] = gen[b] => In(pendingTokens, TokenOf(b, s))
          /\ pending[b][s] # <<>> => pendingQueued[b][s] = gen[b]

SendInv == ListedOK /\ PendingOK

SessionsTyped ==
    /\ session \in [Blocks -> Sessions \cup {NoSession}]
    /\ gen \in [Blocks -> Generations] /\ lastGen \in Generations
    /\ peer \in [Blocks -> 0..MaxTargets]
ReadTyped ==
    /\ data \in [Blocks -> [Sides -> 0..MaxData]]
    /\ work \in [Blocks -> [Sides -> 0..WorkCap]]
    /\ events \subseteq Token /\ ready \in Seq(Token) /\ delayed \subseteq Token
    /\ queued \in [Blocks -> [Sides -> Generations]]
    /\ delayedBySlot \in [Blocks -> [Sides -> Generations]]
SendTyped ==
    /\ pending \in [Blocks -> [Sides -> Seq(0..MaxTargets)]]
    /\ pendingTokens \in Seq(Token)
    /\ pendingQueued \in [Blocks -> [Sides -> Generations]]
LoopTyped == SessionsTyped /\ ReadTyped /\ SendTyped

IInv == PoolInv /\ LoopTyped /\ GenOK /\ ReadInv /\ SendInv

-----------------------------------------------------------------------------
(* Queues as sets.                                                         *)

LEMMA AppendIn ==
    ASSUME NEW q \in Seq(Token), NEW t \in Token
    PROVE  /\ Append(q, t) \in Seq(Token)
           /\ \A x : In(Append(q, t), x) <=> In(q, x) \/ x = t
           /\ Once(q) /\ ~In(q, t) => Once(Append(q, t))
<1>. DEFINE n == Len(q)
            p == Append(q, t)
<1>1. n \in Nat /\ p \in Seq(Token) /\ Len(p) = n + 1
  BY LenProperties
<1>2. (\A i \in 1..n : p[i] = q[i]) /\ p[n + 1] = t
  BY <1>1
<1>3. n + 1 \in 1..(n + 1) /\ \A i \in 1..(n + 1) : i \in 1..n \/ i = n + 1
  BY <1>1
<1>4. \A i \in 1..n : i \in 1..(n + 1)
  BY <1>1
<1>. HIDE DEF n, p
<1>5. \A x : In(p, x) <=> In(q, x) \/ x = t
  BY <1>1, <1>2, <1>3, <1>4 DEF In, n
<1>6. Once(q) /\ ~In(q, t) => Once(p)
  BY <1>1, <1>2, <1>3, <1>4 DEF Once, In, n
<1>. QED
  BY <1>1, <1>5, <1>6 DEF p

LEMMA TailIn ==
    ASSUME NEW q \in Seq(Token), q # <<>>, Once(q)
    PROVE  /\ Tail(q) \in Seq(Token) /\ Head(q) \in Token
           /\ \A x : In(Tail(q), x) <=> In(q, x) /\ x # Head(q)
           /\ In(q, Head(q)) /\ Once(Tail(q))
<1>. DEFINE n == Len(q)
            p == Tail(q)
<1>1. n \in Nat /\ n >= 1 /\ p \in Seq(Token) /\ Len(p) = n - 1 /\ Head(q) \in Token
  BY LenProperties, EmptySeq, HeadTailProperties
<1>2. (\A i \in 1..(n - 1) : p[i] = q[i + 1]) /\ Head(q) = q[1]
  BY <1>1, HeadTailProperties
<1>3. /\ 1 \in 1..n
      /\ \A i \in 1..(n - 1) : i + 1 \in 1..n /\ i + 1 # 1
      /\ \A i \in 1..n : i = 1 \/ (i - 1 \in 1..(n - 1) /\ (i - 1) + 1 = i)
      /\ \A i, j \in 1..(n - 1) : i + 1 = j + 1 => i = j
  BY <1>1
<1>4. \A i, j \in 1..n : q[i] = q[j] => i = j
  BY DEF Once, n
<1>. HIDE DEF n, p
<1>5. ASSUME NEW x PROVE In(p, x) <=> In(q, x) /\ x # Head(q)
  <2>1. In(p, x) <=> \E i \in 1..(n - 1) : q[i + 1] = x
    BY <1>1, <1>2 DEF In
  <2>2. In(q, x) <=> \E i \in 1..n : q[i] = x
    BY DEF In, n
  <2>3. ASSUME NEW i \in 1..(n - 1), q[i + 1] = x PROVE In(q, x) /\ x # Head(q)
    BY <1>2, <1>3, <1>4, <2>2, <2>3
  <2>4. ASSUME NEW i \in 1..n, q[i] = x, x # Head(q) PROVE In(p, x)
    BY <1>2, <1>3, <2>1, <2>4
  <2>. QED
    BY <2>1, <2>2, <2>3, <2>4
<1>6. Once(p)
  <2>1. ASSUME NEW i \in 1..(n - 1), NEW j \in 1..(n - 1), p[i] = p[j] PROVE i = j
    <3>1. q[i + 1] = q[j + 1]
      BY <1>2, <2>1
    <3>. QED
      BY <1>3, <1>4, <3>1
  <2>. QED
    BY <1>1, <2>1 DEF Once
<1>7. In(q, Head(q))
  BY <1>2, <1>3 DEF In, n
<1>. QED
  BY <1>1, <1>5, <1>6, <1>7 DEF p

(* The head of a queue moved to its end: the same tokens.                  *)
LEMMA RotateIn ==
    ASSUME NEW q \in Seq(Token), q # <<>>, Once(q)
    PROVE  /\ Append(Tail(q), Head(q)) \in Seq(Token)
           /\ \A x : In(Append(Tail(q), Head(q)), x) <=> In(q, x)
           /\ Once(Append(Tail(q), Head(q)))
<1>1. /\ Tail(q) \in Seq(Token) /\ Head(q) \in Token
      /\ \A x : In(Tail(q), x) <=> In(q, x) /\ x # Head(q)
      /\ In(q, Head(q)) /\ Once(Tail(q))
  BY TailIn
<1>. DEFINE p == Tail(q)
            h == Head(q)
<1>. HIDE DEF p, h
<1>2. /\ Append(p, h) \in Seq(Token)
      /\ \A x : In(Append(p, h), x) <=> In(p, x) \/ x = h
      /\ Once(p) /\ ~In(p, h) => Once(Append(p, h))
  BY <1>1, AppendIn DEF p, h
<1>. QED
  BY <1>1, <1>2 DEF p, h
-----------------------------------------------------------------------------
(* Every variable keeps its type.                                          *)

LEMMA BoundsTyped ==
    /\ 0 \in Generations /\ 0 \in 0..MaxTargets /\ 0 \in 0..MaxData /\ 0 \in 0..WorkCap
    /\ WorkCap \in 0..WorkCap
    /\ \A S : <<>> \in Seq(S)
    /\ Both(0) \in [Sides -> Generations] /\ Both(0) \in [Sides -> 0..MaxData]
    /\ Both(WorkCap) \in [Sides -> 0..WorkCap]
    /\ Both(<<>>) \in [Sides -> Seq(0..MaxTargets)]
BY SocketsAssumption DEF Generations, Both

(* One entry of a table of the slots is set, the others stay.              *)
LEMMA SetEntry ==
    ASSUME NEW S, NEW f \in [Blocks -> [Sides -> S]], NEW b \in Blocks, NEW s \in Sides, NEW v \in S
    PROVE  /\ [f EXCEPT ![b][s] = v] \in [Blocks -> [Sides -> S]]
           /\ \A a \in Blocks, x \in Sides :
                 [f EXCEPT ![b][s] = v][a][x] = IF a = b /\ x = s THEN v ELSE f[a][x]
OBVIOUS

LEMMA TokenTyped ==
    ASSUME SessionsTyped, NEW b \in Blocks, NEW s \in Sides
    PROVE  TokenOf(b, s) \in Token
BY DEF SessionsTyped, TokenOf, Token

LEMMA CommandTyped ==
    ASSUME IInv, Command
    PROVE  LoopTyped'
<1>. USE DEF LoopTyped, SessionsTyped, ReadTyped, SendTyped
<1>1. LoopTyped
  BY DEF IInv
<1>2. ASSUME NEW c \in Sessions, NEW k \in 0..NumBlocks, Allocate(c, k) PROVE LoopTyped'
  <2>1. PoolOK(Reclaimed, Quarantined, echo, Open) /\ Reclaimed \in Seq(Blocks)
    BY ReclaimOK DEF IInv, PoolOK, Typed
  <2>2. k + 1 \in 1..Len(Reclaimed)
    BY <1>2, <2>1, LenProperties, SocketsAssumption DEF Allocate
  <2>3. Reclaimed[k + 1] \in Blocks
    BY <2>1, <2>2, ElementOfSeq
  <2>4. lastGen + 1 \in Generations
    BY <1>1, <1>2, SocketsAssumption DEF Allocate, Generations
  <2>5. SessionsTyped'
    BY <1>1, <1>2, <2>3, <2>4, BoundsTyped DEF Allocate
  <2>6. ReadTyped' /\ SendTyped'
    BY <1>1, <1>2, <2>3, BoundsTyped DEF Allocate, sendVars
  <2>. QED
    BY <2>5, <2>6
<1>3. ASSUME NEW c, NEW k, AllocateFails(c, k) \/ ReadStats PROVE LoopTyped'
  BY <1>1, <1>3 DEF AllocateFails, ReadStats, sessionVars, readVars, sendVars
<1>4. ASSUME NEW b \in Blocks, NEW n \in 1..MaxTargets, Connect(b, n) PROVE LoopTyped'
  <2>1. n \in 0..MaxTargets
    BY SocketsAssumption
  <2>2. SessionsTyped' /\ ReadTyped'
    BY <1>1, <1>4, <2>1 DEF Connect, readVars
  <2>3. CASE UNCHANGED pending
    BY <1>1, <1>4, <2>2, <2>3 DEF Connect
  <2>4. CASE EmptyQueues(b)
    BY <1>1, <1>4, <2>2, <2>4, BoundsTyped DEF Connect, EmptyQueues
  <2>. QED
    BY <1>4, <2>3, <2>4 DEF Connect
<1>5. ASSUME NEW b \in Blocks, ConnectFails(b) PROVE LoopTyped'
  BY <1>1, <1>5, BoundsTyped DEF ConnectFails, EmptyQueues, sessionVars, readVars
<1>6. ASSUME NEW b \in Blocks, Release(b) PROVE LoopTyped'
  <2>1. SessionsTyped' /\ SendTyped'
    BY <1>1, <1>6, BoundsTyped DEF Release, ForgetSchedule
  <2>2. ReadTyped'
    BY <1>1, <1>6, BoundsTyped DEF Release, ForgetSchedule
  <2>. QED
    BY <2>1, <2>2
<1>. QED
  BY <1>2, <1>3, <1>4, <1>5, <1>6 DEF Command

LEMMA KernelTyped ==
    ASSUME IInv, Kernel
    PROVE  LoopTyped'
<1>. USE DEF LoopTyped, SessionsTyped, ReadTyped, SendTyped
<1>1. LoopTyped
  BY DEF IInv
<1>2. CASE Tick
  BY <1>1, <1>2 DEF Tick, sessionVars, readVars, sendVars
<1>3. ASSUME NEW b \in Blocks, NEW s \in Sides, Arrive(b, s) PROVE LoopTyped'
  <2>1. TokenOf(b, s) \in Token
    BY <1>1, TokenTyped
  <2>2. data[b][s] + 1 \in 0..MaxData
    BY <1>1, <1>3, SocketsAssumption DEF Arrive
  <2>3. data' \in [Blocks -> [Sides -> 0..MaxData]] /\ events' \subseteq Token
    BY <1>1, <1>3, <2>1, <2>2 DEF Arrive
  <2>. QED
    BY <1>1, <1>3, <2>3 DEF Arrive, sessionVars, sendVars
<1>4. ASSUME NEW b \in Blocks, NEW s \in Sides, Refill(b, s) PROVE LoopTyped'
  <2>1. work[b][s] + 1 \in 0..WorkCap
    BY <1>1, <1>4, SocketsAssumption DEF Refill
  <2>2. work' \in [Blocks -> [Sides -> 0..WorkCap]]
    BY <1>1, <1>4, <2>1 DEF Refill
  <2>. QED
    BY <1>1, <1>4, <2>2 DEF Refill, sessionVars, sendVars
<1>. QED
  BY <1>2, <1>3, <1>4 DEF Kernel

LEMMA ReadTypes ==
    ASSUME IInv, NEW n \in 0..MaxData, NEW u \in 0..WorkCap, NEW m \in 0..n, Read(n, m, u)
    PROVE  /\ Reading \in Token /\ SessionsTyped' /\ SendTyped'
           /\ data' \in [Blocks -> [Sides -> 0..MaxData]]
           /\ work' \in [Blocks -> [Sides -> 0..WorkCap]]
<1>. DEFINE b == Reading.block
            s == Reading.side
            o == Other(s)
<1>1. SessionsTyped /\ ReadTyped /\ SendTyped /\ Once(ready)
  BY DEF IInv, LoopTyped, ReadInv, ReadyOK
<1>2. Reading \in Token
  BY <1>1, TailIn DEF Read, Reading, ReadTyped
<1>3. b \in Blocks /\ s \in Sides /\ o \in Sides
  BY <1>2 DEF Token, Other, Sides
<1>. HIDE DEF b, s, o
<1>4. SessionsTyped'
  BY <1>1 DEF Read, SessionsTyped, sessionVars
<1>5. data[b][s] \in 0..MaxData /\ work[b][s] \in 0..WorkCap /\ n <= data[b][s] /\ u <= work[b][s]
  BY <1>1, <1>3 DEF ReadTyped, Read, b, s
<1>6. data[b][s] - n \in 0..MaxData /\ work[b][s] - u \in 0..WorkCap
  BY <1>5, SocketsAssumption
<1>7. /\ data' = [data EXCEPT ![b][s] = @ - n] /\ work' = [work EXCEPT ![b][s] = @ - u]
      /\ Forward(b, s, m)
  BY DEF Read, b, s
<1>8. /\ data' \in [Blocks -> [Sides -> 0..MaxData]]
      /\ work' \in [Blocks -> [Sides -> 0..WorkCap]]
  BY <1>1, <1>3, <1>6, <1>7 DEF ReadTyped
<1>9. SendTyped'
  <2>. DEFINE more == [i \in 1..m |-> peer[b]]
  <2>1. peer[b] \in 0..MaxTargets /\ m \in Nat /\ gen[b] \in Generations
    BY <1>1, <1>3, SocketsAssumption DEF SessionsTyped
  <2>2. more \in Seq(0..MaxTargets)
    BY <2>1
  <2>3. pending[b][o] \in Seq(0..MaxTargets)
    BY <1>1, <1>3 DEF SendTyped
  <2>4. pending' = [pending EXCEPT ![b][o] = @ \o more]
    BY <1>7 DEF Forward, o
  <2>. HIDE DEF more
  <2>5. pending[b][o] \o more \in Seq(0..MaxTargets)
    BY <2>2, <2>3, ConcatProperties
  <2>6. pending' \in [Blocks -> [Sides -> Seq(0..MaxTargets)]]
    BY <1>1, <1>3, <2>4, <2>5 DEF SendTyped
  <2>7. pendingQueued' \in [Blocks -> [Sides -> Generations]]
    <3>1. [pendingQueued EXCEPT ![b][o] = gen[b]] \in [Blocks -> [Sides -> Generations]]
      BY <1>1, <1>3, <2>1, SetEntry DEF SendTyped
    <3>. QED
      BY <1>1, <1>7, <3>1 DEF SendTyped, Forward, o
  <2>8. TokenOf(b, o) \in Token
    BY <1>1, <1>3, TokenTyped
  <2>9. Append(pendingTokens, TokenOf(b, o)) \in Seq(Token)
    BY <1>1, <2>8, AppendIn DEF SendTyped
  <2>10. pendingTokens' \in Seq(Token)
    BY <1>1, <1>7, <2>9 DEF SendTyped, Forward, o
  <2>. QED
    BY <2>6, <2>7, <2>10 DEF SendTyped
<1>. QED
  BY <1>2, <1>4, <1>8, <1>9

LEMMA ReceiveTyped ==
    ASSUME IInv, Receive
    PROVE  LoopTyped'
<1>1. SessionsTyped /\ ReadTyped /\ SendTyped /\ Once(ready)
  BY DEF IInv, LoopTyped, ReadInv, ReadyOK
<1>2. CASE ReadStale
  <2>1. Tail(ready) \in Seq(Token) /\ Reading \in Token
    BY <1>1, <1>2, TailIn DEF ReadStale, Reading, ReadTyped
  <2>2. queued' \in [Blocks -> [Sides -> Generations]]
    <3>. DEFINE b == Reading.block
                s == Reading.side
                g == IF queued[b][s] = Reading.gen THEN 0 ELSE queued[b][s]
    <3>1. b \in Blocks /\ s \in Sides /\ queued \in [Blocks -> [Sides -> Generations]]
      BY <1>1, <2>1 DEF Token, ReadTyped
    <3>2. g \in Generations
      BY <3>1, BoundsTyped
    <3>3. queued' = [queued EXCEPT ![b][s] = g]
      BY <1>2 DEF ReadStale
    <3>. HIDE DEF b, s, g
    <3>. QED
      BY <3>1, <3>2, <3>3, SetEntry
  <2>. QED
    BY <1>1, <1>2, <2>1, <2>2
    DEF ReadStale, LoopTyped, SessionsTyped, ReadTyped, SendTyped, sessionVars, sendVars
<1>3. ASSUME NEW n \in 0..MaxData, NEW u \in 0..WorkCap, NEW m \in 0..n, Read(n, m, u),
             ReadDrained(n, m, u) \/ ReadMore(n, m, u) \/ ReadDeferred(n, m, u)
      PROVE  LoopTyped'
  <2>1. /\ Reading \in Token /\ SessionsTyped' /\ SendTyped'
        /\ data' \in [Blocks -> [Sides -> 0..MaxData]]
        /\ work' \in [Blocks -> [Sides -> 0..WorkCap]]
    BY <1>3, ReadTypes
  <2>2. /\ Tail(ready) \in Seq(Token) /\ Append(Tail(ready), Reading) \in Seq(Token)
    BY <1>1, <1>3, TailIn, RotateIn DEF Read, Reading, ReadTyped
  <2>3. /\ queued' \in [Blocks -> [Sides -> Generations]]
        /\ delayedBySlot' \in [Blocks -> [Sides -> Generations]]
    <3>. DEFINE b == Reading.block
                s == Reading.side
                g == Reading.gen
    <3>1. b \in Blocks /\ s \in Sides /\ g \in Generations /\ 0 \in Generations
      BY <2>1, BoundsTyped DEF Token
    <3>2. /\ ClearMark => queued' = [queued EXCEPT ![b][s] = 0]
          /\ queued' = queued \/ ClearMark
          /\ delayedBySlot' = delayedBySlot \/ delayedBySlot' = [delayedBySlot EXCEPT ![b][s] = g]
      BY <1>3 DEF ReadDrained, ReadMore, ReadDeferred, ClearMark
    <3>. HIDE DEF b, s, g
    <3>3. /\ [queued EXCEPT ![b][s] = 0] \in [Blocks -> [Sides -> Generations]]
          /\ [delayedBySlot EXCEPT ![b][s] = g] \in [Blocks -> [Sides -> Generations]]
      BY <1>1, <3>1, SetEntry DEF ReadTyped
    <3>. QED
      BY <1>1, <3>2, <3>3 DEF ReadTyped
  <2>4. events' \subseteq Token /\ delayed' \subseteq Token /\ ready' \in Seq(Token)
    BY <1>1, <1>3, <2>1, <2>2 DEF ReadDrained, ReadMore, ReadDeferred, ReadTyped
  <2>. QED
    BY <2>1, <2>3, <2>4 DEF LoopTyped, ReadTyped
<1>. QED
  BY <1>2, <1>3 DEF Receive, ReadDrained, ReadMore, ReadDeferred

LEMMA WorkTyped ==
    ASSUME IInv, Work
    PROVE  LoopTyped'
<1>1. SessionsTyped /\ ReadTyped /\ SendTyped /\ Once(ready) /\ Once(pendingTokens)
  BY DEF IInv, LoopTyped, ReadInv, ReadyOK, SendInv, ListedOK
<1>2. ASSUME NEW t \in events, Poll(t) PROVE LoopTyped'
  <2>1. t \in Token
    BY <1>1 DEF ReadTyped
  <2>2. Append(ready, t) \in Seq(Token)
    BY <1>1, <2>1, AppendIn DEF ReadTyped
  <2>3. queued' \in [Blocks -> [Sides -> Generations]] /\ ready' \in Seq(Token)
    <3>1. [queued EXCEPT ![t.block][t.side] = t.gen] \in [Blocks -> [Sides -> Generations]]
      BY <1>1, <2>1, SetEntry DEF ReadTyped, Token
    <3>. QED
      BY <1>1, <1>2, <2>2, <3>1 DEF Poll, ReadTyped
  <2>. QED
    BY <1>1, <1>2, <2>3 DEF Poll, LoopTyped, SessionsTyped, ReadTyped, SendTyped, sessionVars, sendVars
<1>3. ASSUME NEW t \in delayed, Resume(t) PROVE LoopTyped'
  <2>1. t \in Token
    BY <1>1 DEF ReadTyped
  <2>2. Append(ready, t) \in Seq(Token)
    BY <1>1, <2>1, AppendIn DEF ReadTyped
  <2>3. /\ delayedBySlot' \in [Blocks -> [Sides -> Generations]] /\ ready' \in Seq(Token)
        /\ events' \subseteq Token
    <3>1. [delayedBySlot EXCEPT ![t.block][t.side] = 0] \in [Blocks -> [Sides -> Generations]]
      BY <1>1, <2>1, BoundsTyped, SetEntry DEF ReadTyped, Token
    <3>. QED
      BY <1>1, <1>3, <2>1, <2>2, <3>1 DEF Resume, ReadTyped
  <2>. QED
    BY <1>1, <1>3, <2>3 DEF Resume, LoopTyped, SessionsTyped, ReadTyped, SendTyped, sessionVars, sendVars
<1>4. ASSUME NEW n \in 0..SendQueueCap, Flush(n) PROVE LoopTyped'
  <2>. DEFINE b == Sending.block
              s == Sending.side
              left == SubSeq(pending[b][s], n + 1, Len(pending[b][s]))
  <2>1. /\ Sending \in Token /\ Tail(pendingTokens) \in Seq(Token)
        /\ Append(Tail(pendingTokens), Sending) \in Seq(Token)
    BY <1>1, <1>4, TailIn, RotateIn DEF Flush, Sending, SendTyped
  <2>2. b \in Blocks /\ s \in Sides
    BY <2>1 DEF Token
  <2>3. pending[b][s] \in Seq(0..MaxTargets)
    BY <1>1, <2>2 DEF SendTyped
  <2>4. left \in Seq(0..MaxTargets)
    BY <2>3, SocketsAssumption
  <2>5. pending' = [pending EXCEPT ![b][s] = left]
    BY <1>4 DEF Flush
  <2>. HIDE DEF left
  <2>6. pending' \in [Blocks -> [Sides -> Seq(0..MaxTargets)]]
    BY <1>1, <2>2, <2>4, <2>5 DEF SendTyped
  <2>7. /\ pendingQueued' \in [Blocks -> [Sides -> Generations]] /\ pendingTokens' \in Seq(Token)
    <3>1. [pendingQueued EXCEPT ![b][s] = 0] \in [Blocks -> [Sides -> Generations]]
      BY <1>1, <2>2, BoundsTyped, SetEntry DEF SendTyped
    <3>2. /\ pendingQueued' = pendingQueued \/ pendingQueued' = [pendingQueued EXCEPT ![b][s] = 0]
          /\ pendingTokens' \in {Tail(pendingTokens), Append(Tail(pendingTokens), Sending)}
      BY <1>4 DEF Flush
    <3>. QED
      BY <1>1, <2>1, <3>1, <3>2 DEF SendTyped
  <2>. QED
    BY <1>1, <1>4, <2>6, <2>7 DEF Flush, LoopTyped, SessionsTyped, ReadTyped, SendTyped, sessionVars, readVars
<1>5. CASE FlushStale
  <2>1. Tail(pendingTokens) \in Seq(Token)
    BY <1>1, <1>5, TailIn DEF FlushStale, SendTyped
  <2>. QED
    BY <1>1, <1>5, <2>1 DEF FlushStale, LoopTyped, SessionsTyped, ReadTyped, SendTyped, sessionVars, readVars
<1>. QED
  BY <1>2, <1>3, <1>4, <1>5, ReceiveTyped DEF Work
-----------------------------------------------------------------------------
(* Allocation and release: tokens of one session never name another.       *)

LEMMA TokenIs ==
    ASSUME SessionsTyped, NEW t \in Token, NEW b \in Blocks, NEW s \in Sides
    PROVE  t = TokenOf(b, s) <=> t.gen = gen[b] /\ t.block = b /\ t.side = s
BY DEF SessionsTyped, TokenOf, Token

LEMMA TokenFields ==
    ASSUME NEW b \in Blocks, NEW s \in Sides
    PROVE  TokenOf(b, s).gen = gen[b] /\ TokenOf(b, s).block = b /\ TokenOf(b, s).side = s
BY DEF TokenOf

(* What Allocate does to the sessions.                                     *)
LEMMA AllocateIs ==
    ASSUME IInv, NEW c \in Sessions, NEW k \in 0..NumBlocks, Allocate(c, k)
    PROVE  \E b \in Blocks \ Open :
              /\ Open' = Open \cup {b} /\ session' = [session EXCEPT ![b] = c] /\ c # NoSession
              /\ gen' = [gen EXCEPT ![b] = lastGen + 1] /\ lastGen' = lastGen + 1
              /\ peer' = [peer EXCEPT ![b] = 0]
              /\ \A a \in Blocks : gen'[a] = IF a = b THEN lastGen + 1 ELSE gen[a]
<1>. DEFINE b == Reclaimed[k + 1]
<1>1. PoolOK(Reclaimed, Quarantined, echo, Open) /\ Reclaimed \in Seq(Blocks)
  BY ReclaimOK DEF IInv, PoolOK, Typed
<1>2. k + 1 \in 1..Len(Reclaimed)
  BY <1>1, LenProperties, SocketsAssumption DEF Allocate
<1>3. b \in Blocks /\ b \notin Open /\ c # NoSession
  BY <1>1, <1>2, ElementOfSeq, SocketsAssumption DEF PoolOK, Apart
<1>4. /\ session' = [session EXCEPT ![b] = c]
      /\ gen' = [gen EXCEPT ![b] = lastGen + 1] /\ lastGen' = lastGen + 1
      /\ peer' = [peer EXCEPT ![b] = 0]
  BY DEF Allocate
<1>. HIDE DEF b
<1>5. Open' = Open \cup {b}
  BY <1>3, <1>4 DEF Open, IInv, LoopTyped, SessionsTyped
<1>6. \A a \in Blocks : gen'[a] = IF a = b THEN lastGen + 1 ELSE gen[a]
  BY <1>3, <1>4 DEF IInv, LoopTyped, SessionsTyped
<1>. QED
  BY <1>3, <1>4, <1>5, <1>6

LEMMA AllocateSafe ==
    ASSUME IInv, NEW c \in Sessions, NEW k \in 0..NumBlocks, Allocate(c, k)
    PROVE  GenOK' /\ ReadInv' /\ SendInv'
<1>1. PICK b \in Blocks \ Open :
              /\ Open' = Open \cup {b} /\ session' = [session EXCEPT ![b] = c] /\ c # NoSession
              /\ gen' = [gen EXCEPT ![b] = lastGen + 1] /\ lastGen' = lastGen + 1
              /\ peer' = [peer EXCEPT ![b] = 0]
              /\ \A a \in Blocks : gen'[a] = IF a = b THEN lastGen + 1 ELSE gen[a]
  BY AllocateIs
<1>2. /\ SessionsTyped /\ ReadTyped /\ SendTyped /\ GenOK /\ ReadInv /\ SendInv
      /\ UNCHANGED <<data, events, ready, queued, delayed, delayedBySlot, sendVars>>
  BY DEF IInv, LoopTyped, Allocate
<1>3. lastGen \in Nat /\ \A a \in Blocks : gen[a] \in Nat /\ gen[a] <= lastGen
  BY <1>2, SocketsAssumption DEF SessionsTyped, Generations, GenOK
<1>4. GenOK'
  BY <1>1, <1>2, <1>3 DEF GenOK
<1>5. \A t \in Token : /\ t.block \in Blocks /\ t.side \in Sides /\ t.gen \in Nat
                       /\ t.block # b => (Current(t)' <=> Current(t))
                       /\ t.block = b => ~Current(t)
                       /\ t.block = b /\ t.gen <= lastGen => ~Current(t)'
  BY <1>1, <1>2, <1>3, SocketsAssumption DEF Current, Open, Token, Generations, SessionsTyped
<1>6. \A a \in Blocks, s \in Sides : a # b => TokenOf(a, s)' = TokenOf(a, s)
  BY <1>1 DEF TokenOf
<1>7. ReadyOK'
  <2>1. ASSUME NEW t \in Token, In(ready, t)
        PROVE  t.gen <= gen'[t.block] /\ (Current(t)' => queued[t.block][t.side] = t.gen)
    BY <1>1, <1>2, <1>3, <1>5, <2>1 DEF ReadInv, ReadyOK
  <2>. QED
    BY <1>2, <2>1 DEF ReadInv, ReadyOK, In, Once
<1>8. DelayedOK'
  <2>1. \A t \in events \cup delayed : t \in Token /\ Current(t)
    BY <1>2 DEF ReadInv, DelayedOK, ReadTyped
  <2>2. \A t \in events \cup delayed : Current(t)'
    BY <1>5, <2>1
  <2>3. ASSUME NEW a \in Blocks, NEW s \in Sides, delayedBySlot[a][s] # 0
        PROVE  a # b /\ TokenOf(a, s) \in delayed
    BY <1>1, <1>2, <1>5, <2>1, <2>3, TokenFields DEF ReadInv, DelayedOK
  <2>. QED
    BY <1>2, <1>6, <2>2, <2>3 DEF ReadInv, DelayedOK
<1>9. MarksOK'
  <2>1. \A s \in Sides : queued[b][s] = 0 /\ data[b][s] = 0
    BY <1>1, <1>2 DEF ReadInv, MarksOK
  <2>2. \A a \in Blocks : a \notin Open' => a \notin Open
    BY <1>1
  <2>3. ASSUME NEW s \in Sides
        PROVE  queued[b][s] \in {0, gen'[b]} /\ queued[b][s] # gen'[b] /\ ~(data[b][s] > 0)
    BY <1>1, <1>3, <2>1
  <2>4. ASSUME NEW a \in Open, NEW s \in Sides
        PROVE  a # b /\ a \in Blocks /\ gen'[a] = gen[a] /\ TokenOf(a, s)' = TokenOf(a, s)
    BY <1>1, <1>6 DEF Open
  <2>. QED
    BY <1>1, <1>2, <2>2, <2>3, <2>4 DEF ReadInv, MarksOK, In
<1>10. ListedOK'
  <2>1. ASSUME NEW t \in Token, In(pendingTokens, t)
        PROVE  t.gen <= gen'[t.block] /\ (Current(t)' => pendingQueued[t.block][t.side] = t.gen)
    BY <1>1, <1>2, <1>3, <1>5, <2>1 DEF SendInv, ListedOK
  <2>. QED
    BY <1>2, <2>1 DEF SendInv, ListedOK, In, Once, sendVars
<1>11. PendingOK'
  <2>1. \A s \in Sides : pending[b][s] = <<>> /\ pendingQueued[b][s] = 0 /\ Len(pending[b][s]) = 0
    BY <1>1, <1>2 DEF SendInv, PendingOK
  <2>2. \A a \in Blocks : (a \notin Open' => a \notin Open) /\ (a # b => peer'[a] = peer[a])
    BY <1>1, <1>2 DEF SessionsTyped
  <2>3. ASSUME NEW s \in Sides
        PROVE  pendingQueued[b][s] \in {0, gen'[b]} /\ pendingQueued[b][s] # gen'[b]
    BY <1>1, <1>3, <2>1
  <2>4. ASSUME NEW a \in Open, NEW s \in Sides
        PROVE  a # b /\ a \in Blocks /\ gen'[a] = gen[a] /\ TokenOf(a, s)' = TokenOf(a, s)
    BY <1>1, <1>6 DEF Open
  <2>5. ASSUME NEW a \in Blocks, NEW s \in Sides
        PROVE  /\ a \notin Open' => pending'[a][s] = <<>> /\ pendingQueued'[a][s] = 0
               /\ \A i \in 1..Len(pending'[a][s]) : pending'[a][s][i] = peer'[a]
               /\ peer'[a] = 0 => pending'[a][s] = <<>>
    BY <1>2, <2>1, <2>2 DEF SendInv, PendingOK, sendVars
  <2>6. ASSUME NEW a \in Open', NEW s \in Sides
        PROVE  /\ pendingQueued'[a][s] \in {0, gen'[a]}
               /\ pendingQueued'[a][s] = gen'[a] => In(pendingTokens', TokenOf(a, s)')
               /\ pending'[a][s] # <<>> => pendingQueued'[a][s] = gen'[a]
    BY <1>1, <1>2, <2>1, <2>3, <2>4 DEF SendInv, PendingOK, sendVars
  <2>. QED
    BY <2>5, <2>6 DEF PendingOK, In
<1>. QED
  BY <1>4, <1>7, <1>8, <1>9, <1>10, <1>11 DEF ReadInv, SendInv

LEMMA ReleaseSafe ==
    ASSUME IInv, NEW b \in Blocks, Release(b)
    PROVE  GenOK' /\ ReadInv' /\ SendInv'
<1>1. /\ SessionsTyped /\ ReadTyped /\ SendTyped /\ GenOK /\ ReadInv /\ SendInv
      /\ UNCHANGED <<gen, lastGen, peer, ready, pendingTokens>>
  BY DEF IInv, LoopTyped, Release
<1>2. /\ b \in Open /\ Open' = Open \ {b}
      /\ \A a \in Blocks : session'[a] = IF a = b THEN NoSession ELSE session[a]
  BY <1>1 DEF Release, Open, SessionsTyped
<1>3. \A a \in Blocks, s \in Sides :
         /\ queued'[a][s] = IF a = b THEN 0 ELSE queued[a][s]
         /\ data'[a][s] = IF a = b THEN 0 ELSE data[a][s]
         /\ delayedBySlot'[a][s] = IF a = b THEN 0 ELSE delayedBySlot[a][s]
         /\ pendingQueued'[a][s] = IF a = b THEN 0 ELSE pendingQueued[a][s]
         /\ pending'[a][s] = IF a = b THEN <<>> ELSE pending[a][s]
  BY <1>1 DEF Release, ForgetSchedule, Both, ReadTyped, SendTyped
<1>4. /\ delayed' = {t \in delayed : t.block # b} /\ events' = {t \in events : t.block # b}
  BY DEF Release, ForgetSchedule
<1>5. \A t \in Token : /\ t.block \in Blocks /\ t.side \in Sides
                       /\ t.block # b => (Current(t)' <=> Current(t))
                       /\ t.block = b => ~Current(t)'
  BY <1>1, <1>2 DEF Current, Token
<1>6. \A a \in Blocks, s \in Sides : TokenOf(a, s)' = TokenOf(a, s)
  BY <1>1 DEF TokenOf
<1>7. GenOK'
  BY <1>1, <1>2 DEF GenOK
<1>8. ReadyOK'
  <2>1. ASSUME NEW t \in Token, In(ready, t)
        PROVE  /\ t.gen <= gen[t.block] /\ t \notin delayed'
               /\ Current(t)' => queued'[t.block][t.side] = t.gen
    BY <1>1, <1>3, <1>4, <1>5, <2>1 DEF ReadInv, ReadyOK
  <2>. QED
    BY <1>1, <2>1 DEF ReadInv, ReadyOK, In, Once
<1>9. DelayedOK'
  <2>1. ASSUME NEW t \in events' PROVE Current(t)'
    BY <1>1, <1>4, <1>5 DEF ReadInv, DelayedOK, ReadTyped
  <2>2. ASSUME NEW t \in delayed'
        PROVE  /\ Current(t)' /\ delayedBySlot'[t.block][t.side] = t.gen
               /\ queued'[t.block][t.side] = t.gen
    BY <1>1, <1>3, <1>4, <1>5 DEF ReadInv, DelayedOK, ReadTyped
  <2>3. ASSUME NEW a \in Blocks, NEW s \in Sides, delayedBySlot'[a][s] # 0
        PROVE  TokenOf(a, s) \in delayed'
    BY <1>1, <1>3, <1>4, <2>3, TokenFields DEF ReadInv, DelayedOK
  <2>. QED
    BY <1>6, <2>1, <2>2, <2>3 DEF DelayedOK
<1>10. MarksOK'
  <2>1. ASSUME NEW a \in Blocks, NEW s \in Sides, a \notin Open'
        PROVE  queued'[a][s] = 0 /\ data'[a][s] = 0
    BY <1>1, <1>2, <1>3, <2>1 DEF ReadInv, MarksOK
  <2>2. ASSUME NEW a \in Open', NEW s \in Sides
        PROVE  /\ queued'[a][s] \in {0, gen[a]}
               /\ queued'[a][s] = gen[a] => In(ready, TokenOf(a, s)) \/ TokenOf(a, s) \in delayed'
               /\ data'[a][s] > 0 => queued'[a][s] = gen[a] \/ TokenOf(a, s) \in events'
    <3>1. a \in Open /\ a # b /\ a \in Blocks
      BY <1>2 DEF Open
    <3>. QED
      BY <1>1, <1>3, <1>4, <3>1, TokenFields DEF ReadInv, MarksOK
  <2>3. ASSUME NEW a \in Open', NEW s \in Sides PROVE TokenOf(a, s)' = TokenOf(a, s)
    BY <1>2, <1>6 DEF Open
  <2>. QED
    BY <1>1, <2>1, <2>2, <2>3 DEF MarksOK, In
<1>11. ListedOK'
  <2>1. ASSUME NEW t \in Token, In(pendingTokens, t)
        PROVE  t.gen <= gen[t.block] /\ (Current(t)' => pendingQueued'[t.block][t.side] = t.gen)
    BY <1>1, <1>3, <1>5, <2>1 DEF SendInv, ListedOK
  <2>. QED
    BY <1>1, <2>1 DEF SendInv, ListedOK, In, Once
<1>12. PendingOK'
  <2>0. Len(<<>>) = 0
    OBVIOUS
  <2>1. ASSUME NEW a \in Blocks, NEW s \in Sides
        PROVE  /\ a \notin Open' => pending'[a][s] = <<>> /\ pendingQueued'[a][s] = 0
               /\ \A i \in 1..Len(pending'[a][s]) : pending'[a][s][i] = peer[a]
               /\ peer[a] = 0 => pending'[a][s] = <<>>
    BY <1>1, <1>2, <1>3, <2>0 DEF SendInv, PendingOK
  <2>2. ASSUME NEW a \in Open', NEW s \in Sides
        PROVE  /\ pendingQueued'[a][s] \in {0, gen[a]}
               /\ pendingQueued'[a][s] = gen[a] => In(pendingTokens, TokenOf(a, s))
               /\ pending'[a][s] # <<>> => pendingQueued'[a][s] = gen[a]
    <3>1. a \in Open /\ a # b /\ a \in Blocks
      BY <1>2 DEF Open
    <3>. QED
      BY <1>1, <1>3, <3>1 DEF SendInv, PendingOK
  <2>3. ASSUME NEW a \in Open', NEW s \in Sides PROVE TokenOf(a, s)' = TokenOf(a, s)
    BY <1>2, <1>6 DEF Open
  <2>. QED
    BY <1>1, <2>1, <2>2, <2>3 DEF PendingOK, In
<1>. QED
  BY <1>7, <1>8, <1>9, <1>10, <1>11, <1>12 DEF ReadInv, SendInv
-----------------------------------------------------------------------------
(* Reading.  The sessions stay, so tokens mean what they meant.            *)

LEMMA SameSessions ==
    ASSUME UNCHANGED sessionVars
    PROVE  /\ Open' = Open /\ gen' = gen
           /\ \A t : Current(t)' <=> Current(t)
           /\ \A b, s : TokenOf(b, s)' = TokenOf(b, s)
           /\ GenOK => GenOK'
BY DEF sessionVars, Open, Current, TokenOf, GenOK

LEMMA ReadSame ==
    ASSUME ReadInv, GenOK, UNCHANGED <<session, gen, lastGen>>,
           UNCHANGED <<data, events, ready, queued, delayed, delayedBySlot>>
    PROVE  ReadInv' /\ GenOK'
<1>1. /\ Open' = Open /\ gen' = gen
      /\ \A t : Current(t)' <=> Current(t)
      /\ \A b, s : TokenOf(b, s)' = TokenOf(b, s)
  BY DEF Open, Current, TokenOf
<1>2. ReadyOK'
  BY <1>1 DEF ReadInv, ReadyOK, In, Once
<1>3. DelayedOK'
  BY <1>1 DEF ReadInv, DelayedOK
<1>4. MarksOK'
  BY <1>1 DEF ReadInv, MarksOK, In
<1>. QED
  BY <1>1, <1>2, <1>3, <1>4 DEF ReadInv, GenOK

LEMMA ArriveSafe ==
    ASSUME IInv, NEW b \in Blocks, NEW s \in Sides, Arrive(b, s)
    PROVE  ReadInv'
<1>1. /\ SessionsTyped /\ ReadTyped /\ ReadInv /\ UNCHANGED sessionVars
      /\ UNCHANGED <<ready, queued, delayed, delayedBySlot>>
  BY DEF IInv, LoopTyped, Arrive
<1>2. /\ Open' = Open /\ gen' = gen
      /\ \A t : Current(t)' <=> Current(t)
      /\ \A a, x : TokenOf(a, x)' = TokenOf(a, x)
  BY <1>1, SameSessions
<1>3. b \in Open /\ TokenOf(b, s) \in Token /\ Current(TokenOf(b, s))
  BY <1>1, TokenTyped DEF Arrive, Open, Current, TokenOf
<1>4. \A a \in Blocks, x \in Sides : a # b \/ x # s => data'[a][x] = data[a][x]
  BY <1>1 DEF Arrive, ReadTyped
<1>5. events' = events \/ events' = events \cup {TokenOf(b, s)}
  BY DEF Arrive
<1>6. ReadyOK'
  BY <1>1, <1>2 DEF ReadInv, ReadyOK, In, Once
<1>7. DelayedOK'
  BY <1>1, <1>2, <1>3, <1>5 DEF ReadInv, DelayedOK
<1>8. MarksOK'
  <2>1. queued[b][s] = gen[b] \/ TokenOf(b, s) \in events'
    <3>1. CASE delayedBySlot[b][s] = 0
      BY <1>3, <3>1 DEF Arrive, Registered
    <3>2. CASE delayedBySlot[b][s] # 0
      BY <1>1, <3>2, TokenFields DEF ReadInv, DelayedOK
    <3>. QED
      BY <3>1, <3>2
  <2>2. ASSUME NEW a \in Open, NEW x \in Sides, data'[a][x] > 0
        PROVE  queued[a][x] = gen[a] \/ TokenOf(a, x) \in events'
    <3>1. CASE a = b /\ x = s
      BY <2>1, <3>1
    <3>2. CASE ~(a = b /\ x = s)
      BY <1>1, <1>4, <1>5, <2>2, <3>2 DEF ReadInv, MarksOK, Open
    <3>. QED
      BY <3>1, <3>2
  <2>3. ASSUME NEW a \in Blocks, NEW x \in Sides, a \notin Open
        PROVE  queued[a][x] = 0 /\ data'[a][x] = 0
    BY <1>1, <1>3, <1>4, <2>3 DEF ReadInv, MarksOK
  <2>. QED
    BY <1>1, <1>2, <2>2, <2>3 DEF ReadInv, MarksOK, In
<1>. QED
  BY <1>6, <1>7, <1>8 DEF ReadInv

LEMMA PollSafe ==
    ASSUME IInv, NEW e \in events, Poll(e)
    PROVE  ReadInv'
<1>1. /\ SessionsTyped /\ ReadTyped /\ ReadInv /\ UNCHANGED sessionVars
      /\ UNCHANGED <<data, delayed, delayedBySlot>> /\ events' = events \ {e}
  BY DEF IInv, LoopTyped, Poll
<1>2. /\ Open' = Open /\ gen' = gen
      /\ \A t : Current(t)' <=> Current(t)
      /\ \A a, x : TokenOf(a, x)' = TokenOf(a, x)
  BY <1>1, SameSessions
<1>. DEFINE b == e.block
            s == e.side
<1>3. /\ e \in Token /\ b \in Blocks /\ s \in Sides /\ e.gen = gen[b] /\ b \in Open
      /\ e = TokenOf(b, s) /\ Current(e)
  <2>1. e \in Token /\ Current(e)
    BY <1>1 DEF ReadInv, DelayedOK, ReadTyped
  <2>2. b \in Blocks /\ s \in Sides /\ e.gen = gen[b] /\ b \in Open
    BY <2>1 DEF Token, Current, Open
  <2>. QED
    BY <1>1, <2>1, <2>2, TokenIs
<1>4. CASE queued[b][s] = gen[b]
  <2>1. ready' = ready /\ queued' = queued
    BY <1>3, <1>4 DEF Poll
  <2>2. ReadyOK'
    BY <1>1, <1>2, <2>1 DEF ReadInv, ReadyOK, In, Once
  <2>3. DelayedOK'
    BY <1>1, <1>2, <2>1 DEF ReadInv, DelayedOK
  <2>4. ASSUME NEW a \in Open, NEW x \in Sides, data[a][x] > 0
        PROVE  queued[a][x] = gen[a] \/ TokenOf(a, x) \in events'
    BY <1>1, <1>3, <1>4, <2>4, TokenFields DEF ReadInv, MarksOK, Open
  <2>5. MarksOK'
    BY <1>1, <1>2, <2>1, <2>4 DEF ReadInv, MarksOK, In
  <2>. QED
    BY <2>2, <2>3, <2>5 DEF ReadInv
<1>5. CASE queued[b][s] # gen[b]
  <2>1. ready' = Append(ready, e) /\ queued' = [queued EXCEPT ![b][s] = e.gen]
    BY <1>3, <1>5 DEF Poll
  <2>2. ~In(ready, e) /\ e \notin delayed
    BY <1>1, <1>3, <1>5 DEF ReadInv, ReadyOK, DelayedOK
  <2>3. Once(ready') /\ \A x : In(ready', x) <=> In(ready, x) \/ x = e
    BY <1>1, <1>3, <2>1, <2>2, AppendIn DEF ReadInv, ReadyOK, ReadTyped
  <2>4. \A a \in Blocks, x \in Sides : queued'[a][x] = IF a = b /\ x = s THEN gen[b] ELSE queued[a][x]
    BY <1>1, <1>3, <2>1 DEF ReadTyped
  <2>5. \A t \in Token : /\ t.block \in Blocks /\ t.side \in Sides
                         /\ Current(t) => t.gen = gen[t.block]
    BY DEF Token, Current
  <2>6. ReadyOK'
    <3>1. ASSUME NEW t \in Token, In(ready', t)
          PROVE  /\ t.gen <= gen[t.block] /\ t \notin delayed
                 /\ Current(t) => queued'[t.block][t.side] = t.gen
      <4>1. CASE t = e
        <5>1. gen[b] \in Nat
          BY <1>1, <1>3, SocketsAssumption DEF SessionsTyped, Generations
        <5>. QED
          BY <1>3, <2>2, <2>4, <4>1, <5>1
      <4>2. CASE In(ready, t)
        BY <1>1, <2>4, <2>5, <4>2 DEF ReadInv, ReadyOK
      <4>. QED
        BY <2>3, <3>1, <4>1, <4>2
    <3>. QED
      BY <1>1, <1>2, <2>3, <3>1 DEF ReadyOK, In
  <2>7. DelayedOK'
    <3>1. ASSUME NEW t \in delayed PROVE queued'[t.block][t.side] = t.gen
      <4>1. t \in Token /\ Current(t) /\ queued[t.block][t.side] = t.gen
        BY <1>1 DEF ReadInv, DelayedOK, ReadTyped
      <4>2. t.block \in Blocks /\ t.side \in Sides /\ t.gen = gen[t.block]
        BY <2>5, <4>1
      <4>. QED
        BY <2>4, <4>1, <4>2
    <3>. QED
      BY <1>1, <1>2, <3>1 DEF ReadInv, DelayedOK
  <2>8. MarksOK'
    <3>1. ASSUME NEW a \in Open, NEW x \in Sides
          PROVE  /\ queued'[a][x] \in {0, gen[a]}
                 /\ queued'[a][x] = gen[a] => In(ready', TokenOf(a, x)) \/ TokenOf(a, x) \in delayed
                 /\ data[a][x] > 0 => queued'[a][x] = gen[a] \/ TokenOf(a, x) \in events'
      <4>1. CASE a = b /\ x = s
        BY <1>3, <2>3, <2>4, <4>1
      <4>2. CASE ~(a = b /\ x = s)
        BY <1>1, <1>3, <2>3, <2>4, <4>2, TokenFields DEF ReadInv, MarksOK, Open
      <4>. QED
        BY <4>1, <4>2
    <3>2. ASSUME NEW a \in Blocks, NEW x \in Sides, a \notin Open PROVE queued'[a][x] = 0 /\ data[a][x] = 0
      BY <1>1, <1>3, <2>4, <3>2 DEF ReadInv, MarksOK
    <3>. QED
      BY <1>1, <1>2, <3>1, <3>2 DEF MarksOK, In
  <2>. QED
    BY <2>6, <2>7, <2>8 DEF ReadInv
<1>. QED
  BY <1>4, <1>5

LEMMA ResumeSafe ==
    ASSUME IInv, NEW e \in delayed, Resume(e)
    PROVE  ReadInv'
<1>1. /\ SessionsTyped /\ ReadTyped /\ ReadInv /\ UNCHANGED sessionVars
      /\ UNCHANGED <<data, queued>> /\ delayed' = delayed \ {e}
  BY DEF IInv, LoopTyped, Resume
<1>2. /\ Open' = Open /\ gen' = gen
      /\ \A t : Current(t)' <=> Current(t)
      /\ \A a, x : TokenOf(a, x)' = TokenOf(a, x)
  BY <1>1, SameSessions
<1>. DEFINE b == e.block
            s == e.side
<1>3. /\ e \in Token /\ b \in Blocks /\ s \in Sides /\ e.gen = gen[b] /\ b \in Open
      /\ e = TokenOf(b, s) /\ Current(e) /\ delayedBySlot[b][s] = e.gen /\ queued[b][s] = e.gen
  <2>1. e \in Token /\ Current(e) /\ delayedBySlot[b][s] = e.gen /\ queued[b][s] = e.gen
    BY <1>1 DEF ReadInv, DelayedOK, ReadTyped
  <2>2. b \in Blocks /\ s \in Sides /\ e.gen = gen[b] /\ b \in Open
    BY <2>1 DEF Token, Current, Open
  <2>. QED
    BY <1>1, <2>1, <2>2, TokenIs
<1>4. /\ ready' = Append(ready, e) /\ delayedBySlot' = [delayedBySlot EXCEPT ![b][s] = 0]
      /\ events' = events \/ events' = events \cup {e}
  BY <1>3 DEF Resume
<1>5. Once(ready') /\ \A x : In(ready', x) <=> In(ready, x) \/ x = e
  <2>1. ~In(ready, e)
    BY <1>1, <1>3 DEF ReadInv, ReadyOK
  <2>. QED
    BY <1>1, <1>3, <1>4, <2>1, AppendIn DEF ReadInv, ReadyOK, ReadTyped
<1>6. \A a \in Blocks, x \in Sides :
         delayedBySlot'[a][x] = IF a = b /\ x = s THEN 0 ELSE delayedBySlot[a][x]
  BY <1>1, <1>3, <1>4 DEF ReadTyped
<1>7. ReadyOK'
  <2>1. ASSUME NEW t \in Token, In(ready', t)
        PROVE  /\ t.gen <= gen[t.block] /\ t \notin delayed'
               /\ Current(t) => queued[t.block][t.side] = t.gen
    <3>1. gen[b] \in Nat
      BY <1>1, <1>3, SocketsAssumption DEF SessionsTyped, Generations
    <3>2. CASE t = e
      BY <1>1, <1>3, <3>1, <3>2
    <3>3. CASE In(ready, t)
      BY <1>1, <3>3 DEF ReadInv, ReadyOK
    <3>. QED
      BY <1>5, <2>1, <3>2, <3>3
  <2>. QED
    BY <1>1, <1>2, <1>5, <2>1 DEF ReadyOK, In
<1>8. DelayedOK'
  <2>1. ASSUME NEW t \in delayed' PROVE delayedBySlot'[t.block][t.side] = t.gen
    <3>1. t \in Token /\ t \in delayed /\ t # e /\ Current(t) /\ delayedBySlot[t.block][t.side] = t.gen
      BY <1>1 DEF ReadInv, DelayedOK, ReadTyped
    <3>2. t.block \in Blocks /\ t.side \in Sides /\ t.gen = gen[t.block]
      BY <3>1 DEF Token, Current
    <3>3. ~(t.block = b /\ t.side = s)
      BY <1>1, <1>3, <3>1, <3>2, TokenIs
    <3>. QED
      BY <1>6, <3>1, <3>2, <3>3
  <2>2. ASSUME NEW a \in Blocks, NEW x \in Sides, delayedBySlot'[a][x] # 0 PROVE TokenOf(a, x) \in delayed'
    <3>1. ~(a = b /\ x = s) /\ TokenOf(a, x) \in delayed
      BY <1>1, <1>6, <2>2 DEF ReadInv, DelayedOK
    <3>. QED
      BY <1>1, <3>1, TokenFields
  <2>. QED
    BY <1>1, <1>2, <1>3, <1>4, <2>1, <2>2 DEF ReadInv, DelayedOK
<1>9. MarksOK'
  <2>1. ASSUME NEW a \in Open, NEW x \in Sides
        PROVE  /\ queued[a][x] = gen[a] => In(ready', TokenOf(a, x)) \/ TokenOf(a, x) \in delayed'
               /\ data[a][x] > 0 => queued[a][x] = gen[a] \/ TokenOf(a, x) \in events'
    BY <1>1, <1>4, <1>5 DEF ReadInv, MarksOK
  <2>. QED
    BY <1>1, <1>2, <2>1 DEF ReadInv, MarksOK, In
<1>. QED
  BY <1>7, <1>8, <1>9 DEF ReadInv

(* A turn of reading serves the head of ready, which is current: its       *)
(* socket is marked and not suspended.                                     *)
LEMMA ReadingIs ==
    ASSUME IInv, NEW n \in 0..MaxData, NEW u \in 0..WorkCap, NEW m \in 0..n, Read(n, m, u)
    PROVE  /\ Reading \in Token /\ Current(Reading) /\ Reading.block \in Open
           /\ Reading.block \in Blocks /\ Reading.side \in Sides
           /\ Reading.gen = gen[Reading.block] /\ Reading.gen >= 1
           /\ Reading = TokenOf(Reading.block, Reading.side)
           /\ In(ready, Reading) /\ Reading \notin delayed
           /\ queued[Reading.block][Reading.side] = Reading.gen
           /\ delayedBySlot[Reading.block][Reading.side] = 0
           /\ \A a \in Blocks, x \in Sides :
                 a # Reading.block \/ x # Reading.side => data'[a][x] = data[a][x]
           /\ UNCHANGED sessionVars
<1>1. SessionsTyped /\ ReadTyped /\ ReadInv /\ GenOK /\ Once(ready)
  BY DEF IInv, LoopTyped, ReadInv, ReadyOK
<1>2. Reading \in Token /\ In(ready, Reading) /\ Current(Reading)
  BY <1>1, TailIn DEF Read, Reading, ReadTyped
<1>3. /\ Reading.block \in Blocks /\ Reading.side \in Sides
      /\ Reading.gen = gen[Reading.block] /\ Reading.block \in Open
  BY <1>2 DEF Token, Current, Open
<1>4. Reading = TokenOf(Reading.block, Reading.side) /\ Reading.gen >= 1
  BY <1>1, <1>2, <1>3, TokenIs DEF GenOK
<1>5. Reading \notin delayed /\ queued[Reading.block][Reading.side] = Reading.gen
  BY <1>1, <1>2 DEF ReadInv, ReadyOK
<1>6. delayedBySlot[Reading.block][Reading.side] = 0
  BY <1>1, <1>3, <1>4, <1>5 DEF ReadInv, DelayedOK
<1>7. UNCHANGED sessionVars
  BY DEF Read
<1>8. data' = [data EXCEPT ![Reading.block][Reading.side] = @ - n]
  BY DEF Read
<1>. DEFINE b == Reading.block
            s == Reading.side
<1>. HIDE DEF b, s
<1>9. \A a \in Blocks, x \in Sides : a # b \/ x # s => data'[a][x] = data[a][x]
  BY <1>1, <1>3, <1>8 DEF ReadTyped, b, s
<1>. QED
  BY <1>2, <1>3, <1>4, <1>5, <1>6, <1>7, <1>9 DEF b, s

LEMMA DrainedSafe ==
    ASSUME IInv, NEW n \in 0..MaxData, NEW u \in 0..WorkCap, NEW m \in 0..n, ReadDrained(n, m, u)
    PROVE  ReadInv'
<1>. DEFINE e == Reading
            b == Reading.block
            s == Reading.side
<1>1. SessionsTyped /\ ReadTyped /\ ReadInv
  BY DEF IInv, LoopTyped
<1>2. /\ e \in Token /\ Current(e) /\ b \in Open /\ b \in Blocks /\ s \in Sides
      /\ e.gen = gen[b] /\ e.gen >= 1 /\ e = TokenOf(b, s)
      /\ In(ready, e) /\ e \notin delayed
      /\ \A a \in Blocks, x \in Sides : a # b \/ x # s => data'[a][x] = data[a][x]
      /\ UNCHANGED sessionVars
  BY ReadingIs DEF ReadDrained
<1>3. /\ Open' = Open /\ gen' = gen
      /\ \A t : Current(t)' <=> Current(t)
      /\ \A a, x : TokenOf(a, x)' = TokenOf(a, x)
  BY <1>2, SameSessions
<1>4. /\ UNCHANGED <<events, delayed, delayedBySlot>> /\ ready' = Tail(ready)
      /\ queued' = [queued EXCEPT ![b][s] = 0] /\ data'[b][s] = 0 /\ ready # <<>> /\ e = Head(ready)
  BY DEF ReadDrained, ClearMark, Read, Reading
<1>. HIDE DEF e, b, s
<1>5. \A a \in Blocks, x \in Sides : queued'[a][x] = IF a = b /\ x = s THEN 0 ELSE queued[a][x]
  BY <1>1, <1>2, <1>4 DEF ReadTyped
<1>6. Once(ready') /\ \A x : In(ready', x) <=> In(ready, x) /\ x # e
  BY <1>1, <1>4, TailIn DEF ReadInv, ReadyOK, ReadTyped
<1>7. \A t \in Token : /\ t.block \in Blocks /\ t.side \in Sides /\ (Current(t) => t.gen = gen[t.block])
                       /\ Current(t) /\ t # e => ~(t.block = b /\ t.side = s)
  BY <1>1, <1>2, TokenIs DEF Token, Current
<1>8. ReadyOK'
  <2>1. ASSUME NEW t \in Token, In(ready', t)
        PROVE  /\ t.gen <= gen[t.block] /\ t \notin delayed
               /\ Current(t) => queued'[t.block][t.side] = t.gen
    BY <1>1, <1>5, <1>6, <1>7, <2>1 DEF ReadInv, ReadyOK
  <2>. QED
    BY <1>3, <1>4, <1>6, <2>1 DEF ReadyOK, In
<1>9. DelayedOK'
  <2>1. ASSUME NEW t \in delayed PROVE queued'[t.block][t.side] = t.gen
    <3>1. t \in Token /\ Current(t) /\ queued[t.block][t.side] = t.gen /\ t # e
      BY <1>1, <1>2 DEF ReadInv, DelayedOK, ReadTyped
    <3>. QED
      BY <1>5, <1>7, <3>1
  <2>. QED
    BY <1>1, <1>3, <1>4, <2>1 DEF ReadInv, DelayedOK
<1>10. MarksOK'
  <2>1. ASSUME NEW a \in Open, NEW x \in Sides
        PROVE  /\ queued'[a][x] \in {0, gen[a]}
               /\ queued'[a][x] = gen[a] => In(ready', TokenOf(a, x)) \/ TokenOf(a, x) \in delayed
               /\ data'[a][x] > 0 => queued'[a][x] = gen[a] \/ TokenOf(a, x) \in events
    <3>1. CASE a = b /\ x = s
      BY <1>2, <1>4, <1>5, <3>1
    <3>2. CASE ~(a = b /\ x = s)
      <4>1. a \in Blocks /\ TokenOf(a, x) # e
        BY <1>2, <3>2, TokenFields DEF Open
      <4>. QED
        BY <1>1, <1>2, <1>5, <1>6, <3>2, <4>1 DEF ReadInv, MarksOK
    <3>. QED
      BY <3>1, <3>2
  <2>2. ASSUME NEW a \in Blocks, NEW x \in Sides, a \notin Open PROVE queued'[a][x] = 0 /\ data'[a][x] = 0
    BY <1>1, <1>2, <1>5, <2>2 DEF ReadInv, MarksOK
  <2>3. UNCHANGED <<events, delayed>>
    BY <1>4
  <2>. QED
    BY <1>3, <2>1, <2>2, <2>3 DEF MarksOK, In
<1>. QED
  BY <1>8, <1>9, <1>10 DEF ReadInv

LEMMA MoreSafe ==
    ASSUME IInv, NEW n \in 0..MaxData, NEW u \in 0..WorkCap, NEW m \in 0..n, ReadMore(n, m, u)
    PROVE  ReadInv'
<1>. DEFINE b == Reading.block
            s == Reading.side
<1>1. SessionsTyped /\ ReadTyped /\ ReadInv
  BY DEF IInv, LoopTyped
<1>2. /\ b \in Open /\ b \in Blocks /\ s \in Sides
      /\ Reading.gen = gen[b] /\ queued[b][s] = Reading.gen
      /\ \A a \in Blocks, x \in Sides : a # b \/ x # s => data'[a][x] = data[a][x]
      /\ UNCHANGED sessionVars
  BY ReadingIs DEF ReadMore
<1>3. /\ Open' = Open /\ gen' = gen
      /\ \A t : Current(t)' <=> Current(t)
      /\ \A a, x : TokenOf(a, x)' = TokenOf(a, x)
  BY <1>2, SameSessions
<1>4. /\ UNCHANGED <<events, queued, delayed, delayedBySlot>> /\ ready # <<>>
      /\ ready' = Append(Tail(ready), Head(ready))
  BY DEF ReadMore, Read, Reading
<1>. HIDE DEF b, s
<1>5. Once(ready') /\ \A x : In(ready', x) <=> In(ready, x)
  BY <1>1, <1>4, RotateIn DEF ReadInv, ReadyOK, ReadTyped
<1>6. ReadyOK'
  BY <1>1, <1>3, <1>4, <1>5 DEF ReadInv, ReadyOK, In
<1>7. DelayedOK'
  BY <1>1, <1>3, <1>4 DEF ReadInv, DelayedOK
<1>8. MarksOK'
  <2>1. ASSUME NEW a \in Open, NEW x \in Sides, data'[a][x] > 0
        PROVE  queued[a][x] = gen[a] \/ TokenOf(a, x) \in events
    BY <1>1, <1>2, <2>1 DEF ReadInv, MarksOK, Open
  <2>2. ASSUME NEW a \in Blocks, NEW x \in Sides, a \notin Open PROVE data'[a][x] = 0
    BY <1>1, <1>2, <2>2 DEF ReadInv, MarksOK
  <2>3. ASSUME NEW a \in Open, NEW x \in Sides
        PROVE  /\ queued[a][x] \in {0, gen[a]}
               /\ queued[a][x] = gen[a] => In(ready', TokenOf(a, x)) \/ TokenOf(a, x) \in delayed
    BY <1>1, <1>5 DEF ReadInv, MarksOK
  <2>4. ASSUME NEW a \in Blocks, NEW x \in Sides, a \notin Open PROVE queued[a][x] = 0
    BY <1>1, <2>4 DEF ReadInv, MarksOK
  <2>5. UNCHANGED <<events, queued, delayed>>
    BY <1>4
  <2>. QED
    BY <1>3, <2>1, <2>2, <2>3, <2>4, <2>5 DEF MarksOK, In
<1>. QED
  BY <1>6, <1>7, <1>8 DEF ReadInv

LEMMA DeferredSafe ==
    ASSUME IInv, NEW n \in 0..MaxData, NEW u \in 0..WorkCap, NEW m \in 0..n, ReadDeferred(n, m, u)
    PROVE  ReadInv'
<1>. DEFINE e == Reading
            b == Reading.block
            s == Reading.side
<1>1. SessionsTyped /\ ReadTyped /\ ReadInv
  BY DEF IInv, LoopTyped
<1>2. /\ e \in Token /\ Current(e) /\ b \in Open /\ b \in Blocks /\ s \in Sides
      /\ e.gen = gen[b] /\ e.gen >= 1 /\ e = TokenOf(b, s)
      /\ In(ready, e) /\ e \notin delayed /\ queued[b][s] = e.gen
      /\ \A a \in Blocks, x \in Sides : a # b \/ x # s => data'[a][x] = data[a][x]
      /\ UNCHANGED sessionVars
  BY ReadingIs DEF ReadDeferred
<1>3. /\ Open' = Open /\ gen' = gen
      /\ \A t : Current(t)' <=> Current(t)
      /\ \A a, x : TokenOf(a, x)' = TokenOf(a, x)
  BY <1>2, SameSessions
<1>4. /\ UNCHANGED queued /\ ready' = Tail(ready) /\ events' = events \ {e} /\ delayed' = delayed \cup {e}
      /\ delayedBySlot' = [delayedBySlot EXCEPT ![b][s] = e.gen]
      /\ ready # <<>> /\ e = Head(ready)
  BY DEF ReadDeferred, Read, Reading
<1>. HIDE DEF e, b, s
<1>5. \A a \in Blocks, x \in Sides :
         delayedBySlot'[a][x] = IF a = b /\ x = s THEN e.gen ELSE delayedBySlot[a][x]
  <2>1. e.gen \in Generations
    BY <1>2 DEF Token
  <2>. QED
    BY <1>1, <1>2, <1>4, <2>1 DEF ReadTyped
<1>6. Once(ready') /\ \A x : In(ready', x) <=> In(ready, x) /\ x # e
  BY <1>1, <1>4, TailIn DEF ReadInv, ReadyOK, ReadTyped
<1>7. \A t \in Token : /\ t.block \in Blocks /\ t.side \in Sides
                       /\ Current(t) /\ t # e => ~(t.block = b /\ t.side = s)
  BY <1>1, <1>2, TokenIs DEF Token, Current
<1>8. ReadyOK'
  <2>1. ASSUME NEW t \in Token, In(ready', t)
        PROVE  /\ t.gen <= gen[t.block] /\ t \notin delayed'
               /\ Current(t) => queued[t.block][t.side] = t.gen
    BY <1>1, <1>4, <1>6, <2>1 DEF ReadInv, ReadyOK
  <2>. QED
    BY <1>3, <1>4, <1>6, <2>1 DEF ReadyOK, In
<1>9. DelayedOK'
  <2>1. ASSUME NEW t \in delayed'
        PROVE  Current(t) /\ delayedBySlot'[t.block][t.side] = t.gen /\ queued[t.block][t.side] = t.gen
    <3>1. CASE t = e
      BY <1>2, <1>5, <3>1 DEF b, s, e
    <3>2. CASE t # e
      <4>1. /\ t \in delayed /\ t \in Token /\ Current(t)
            /\ delayedBySlot[t.block][t.side] = t.gen /\ queued[t.block][t.side] = t.gen
        BY <1>1, <1>4, <3>2 DEF ReadInv, DelayedOK, ReadTyped
      <4>. QED
        BY <1>5, <1>7, <3>2, <4>1
    <3>. QED
      BY <3>1, <3>2
  <2>2. ASSUME NEW a \in Blocks, NEW x \in Sides, delayedBySlot'[a][x] # 0 PROVE TokenOf(a, x) \in delayed'
    <3>1. CASE a = b /\ x = s
      BY <1>2, <1>4, <3>1
    <3>2. CASE ~(a = b /\ x = s)
      <4>1. delayedBySlot[a][x] # 0
        BY <1>5, <2>2, <3>2
      <4>. QED
        BY <1>1, <1>4, <4>1 DEF ReadInv, DelayedOK
    <3>. QED
      BY <3>1, <3>2
  <2>. QED
    BY <1>1, <1>3, <1>4, <2>1, <2>2 DEF ReadInv, DelayedOK
<1>10. MarksOK'
  <2>1. ASSUME NEW a \in Open, NEW x \in Sides
        PROVE  /\ queued[a][x] = gen[a] => In(ready', TokenOf(a, x)) \/ TokenOf(a, x) \in delayed'
               /\ data'[a][x] > 0 => queued[a][x] = gen[a] \/ TokenOf(a, x) \in events'
    <3>1. CASE a = b /\ x = s
      BY <1>2, <1>4, <3>1
    <3>2. CASE ~(a = b /\ x = s)
      <4>1. a \in Blocks /\ TokenOf(a, x) # e
        BY <1>2, <3>2, TokenFields DEF Open
      <4>. QED
        BY <1>1, <1>2, <1>4, <1>6, <3>2, <4>1 DEF ReadInv, MarksOK
    <3>. QED
      BY <3>1, <3>2
  <2>2. ASSUME NEW a \in Blocks, NEW x \in Sides, a \notin Open PROVE data'[a][x] = 0
    BY <1>1, <1>2, <2>2 DEF ReadInv, MarksOK
  <2>. QED
    BY <1>1, <1>3, <1>4, <2>1, <2>2 DEF ReadInv, MarksOK, In
<1>. QED
  BY <1>8, <1>9, <1>10 DEF ReadInv

LEMMA StaleSafe ==
    ASSUME IInv, ReadStale
    PROVE  ReadInv'
<1>. DEFINE e == Reading
            b == Reading.block
            s == Reading.side
<1>1. SessionsTyped /\ ReadTyped /\ ReadInv /\ UNCHANGED sessionVars
  BY DEF IInv, LoopTyped, ReadStale
<1>2. /\ Open' = Open /\ gen' = gen
      /\ \A t : Current(t)' <=> Current(t)
      /\ \A a, x : TokenOf(a, x)' = TokenOf(a, x)
  BY <1>1, SameSessions
<1>3. /\ UNCHANGED <<data, events, delayed, delayedBySlot>> /\ ready' = Tail(ready)
      /\ queued' = [queued EXCEPT ![b][s] = IF @ = e.gen THEN 0 ELSE @]
      /\ ready # <<>> /\ e = Head(ready) /\ ~Current(e)
  BY DEF ReadStale, Reading
<1>4. e \in Token
  BY <1>1, <1>3, TailIn DEF ReadInv, ReadyOK, ReadTyped
<1>5. b \in Blocks /\ s \in Sides /\ (b \in Open => e.gen # gen[b])
  BY <1>3, <1>4 DEF Token, Current, Open
<1>. HIDE DEF e, b, s
<1>6. Once(ready') /\ \A x : In(ready', x) <=> In(ready, x) /\ x # e
  BY <1>1, <1>3, TailIn DEF ReadInv, ReadyOK, ReadTyped
<1>7. \A a \in Blocks, x \in Sides :
         /\ queued'[a][x] = queued[a][x] \/ queued'[a][x] = 0
         /\ a \in Open /\ queued[a][x] = gen[a] => queued'[a][x] = gen[a]
  BY <1>1, <1>3, <1>5 DEF ReadTyped
<1>8. \A t \in Token : t.block \in Blocks /\ t.side \in Sides
                       /\ (Current(t) => t.gen = gen[t.block] /\ t.block \in Open)
  BY DEF Token, Current, Open
<1>9. ReadyOK'
  <2>1. ASSUME NEW t \in Token, In(ready', t)
        PROVE  /\ t.gen <= gen[t.block] /\ t \notin delayed
               /\ Current(t) => queued'[t.block][t.side] = t.gen
    BY <1>1, <1>6, <1>7, <1>8, <2>1 DEF ReadInv, ReadyOK
  <2>. QED
    BY <1>2, <1>3, <1>6, <2>1 DEF ReadyOK, In
<1>10. DelayedOK'
  <2>1. ASSUME NEW t \in delayed PROVE queued'[t.block][t.side] = t.gen
    <3>1. t \in Token /\ Current(t) /\ queued[t.block][t.side] = t.gen
      BY <1>1 DEF ReadInv, DelayedOK, ReadTyped
    <3>. QED
      BY <1>7, <1>8, <3>1
  <2>. QED
    BY <1>1, <1>2, <1>3, <2>1 DEF ReadInv, DelayedOK
<1>11. MarksOK'
  <2>1. ASSUME NEW a \in Open, NEW x \in Sides
        PROVE  /\ queued'[a][x] \in {0, gen[a]}
               /\ queued'[a][x] = gen[a] => In(ready', TokenOf(a, x)) \/ TokenOf(a, x) \in delayed
               /\ data[a][x] > 0 => queued'[a][x] = gen[a] \/ TokenOf(a, x) \in events
    <3>1. a \in Blocks /\ TokenOf(a, x) # e
      BY <1>3 DEF Open, Current, TokenOf
    <3>2. gen[a] # 0
      BY DEF IInv, GenOK
    <3>. QED
      BY <1>1, <1>6, <1>7, <3>1, <3>2 DEF ReadInv, MarksOK
  <2>2. ASSUME NEW a \in Blocks, NEW x \in Sides, a \notin Open PROVE queued'[a][x] = 0 /\ data[a][x] = 0
    BY <1>1, <1>7, <2>2 DEF ReadInv, MarksOK
  <2>. QED
    BY <1>2, <1>3, <2>1, <2>2 DEF MarksOK, In
<1>. QED
  BY <1>9, <1>10, <1>11 DEF ReadInv
-----------------------------------------------------------------------------
(* Sending.                                                                *)

LEMMA SendSame ==
    ASSUME SendInv, UNCHANGED sessionVars, UNCHANGED sendVars
    PROVE  SendInv'
<1>1. /\ Open' = Open /\ gen' = gen /\ peer' = peer
      /\ \A t : Current(t)' <=> Current(t)
      /\ \A b, s : TokenOf(b, s)' = TokenOf(b, s)
  BY SameSessions DEF sessionVars
<1>2. ListedOK'
  BY <1>1 DEF SendInv, ListedOK, In, Once, sendVars
<1>3. PendingOK'
  BY <1>1 DEF SendInv, PendingOK, In, sendVars
<1>. QED
  BY <1>2, <1>3 DEF SendInv

(* Connect and its failure empty the queues of both sockets of a block, or *)
(* leave them to the target they have.                                     *)
LEMMA MoveSafe ==
    ASSUME IInv, NEW b \in Blocks, UNCHANGED <<session, gen, lastGen, pendingTokens, pendingQueued>>,
           b \in Open, \A a \in Blocks : a # b => peer'[a] = peer[a],
           \/ EmptyQueues(b)
           \/ UNCHANGED pending /\ peer[b] \in {0, peer'[b]} /\ peer'[b] # 0
    PROVE  SendInv'
<1>1. SessionsTyped /\ SendTyped /\ SendInv
  BY DEF IInv, LoopTyped
<1>2. /\ Open' = Open
      /\ \A t : Current(t)' <=> Current(t)
      /\ \A a, x : TokenOf(a, x)' = TokenOf(a, x)
  BY DEF Open, Current, TokenOf
<1>3. \A a \in Blocks, x \in Sides :
         \/ pending'[a][x] = <<>>
         \/ pending'[a][x] = pending[a][x] /\ (a = b => UNCHANGED pending)
  BY <1>1 DEF EmptyQueues, Both, SendTyped
<1>4. Len(<<>>) = 0
  OBVIOUS
<1>5. ASSUME NEW a \in Blocks, NEW x \in Sides
      PROVE  /\ a \notin Open => pending'[a][x] = <<>> /\ pendingQueued[a][x] = 0
             /\ \A i \in 1..Len(pending'[a][x]) : pending'[a][x][i] = peer'[a]
             /\ peer'[a] = 0 => pending'[a][x] = <<>>
             /\ pending'[a][x] # <<>> => pending[a][x] # <<>>
  <2>1. CASE pending'[a][x] = <<>>
    BY <1>1, <1>4, <2>1 DEF SendInv, PendingOK
  <2>2. CASE pending'[a][x] = pending[a][x] /\ a # b
    BY <1>1, <2>2 DEF SendInv, PendingOK
  <2>3. CASE pending'[a][x] = pending[a][x] /\ a = b /\ pending'[a][x] # <<>>
    <3>1. peer[b] # 0 /\ (UNCHANGED pending)
      BY <1>1, <1>3, <2>3 DEF SendInv, PendingOK
    <3>2. Both(<<>>)[x] = <<>>
      BY DEF Both
    <3>3. ~EmptyQueues(b)
      BY <1>1, <2>3, <3>2 DEF EmptyQueues, SendTyped
    <3>4. peer'[b] = peer[b]
      BY <3>1, <3>3
    <3>. QED
      BY <1>1, <2>3, <3>4 DEF SendInv, PendingOK
  <2>. QED
    BY <1>3, <2>1, <2>2, <2>3
<1>6. ListedOK'
  BY <1>1, <1>2 DEF SendInv, ListedOK, In, Once
<1>7. PendingOK'
  <2>1. \A a \in Open : a \in Blocks
    BY DEF Open
  <2>. QED
    BY <1>1, <1>2, <1>5, <2>1 DEF SendInv, PendingOK, In
<1>. QED
  BY <1>6, <1>7 DEF SendInv

LEMMA ForwardSafe ==
    ASSUME IInv, NEW n \in 0..MaxData, NEW u \in 0..WorkCap, NEW m \in 0..n, Read(n, m, u)
    PROVE  SendInv'
<1>. DEFINE b == Reading.block
            o == Other(Reading.side)
            T == TokenOf(b, o)
            more == [i \in 1..m |-> peer[b]]
<1>1. SessionsTyped /\ SendTyped /\ SendInv /\ GenOK
  BY DEF IInv, LoopTyped
<1>2. b \in Open /\ b \in Blocks /\ o \in Sides /\ UNCHANGED sessionVars
  BY ReadingIs DEF Other, Sides
<1>3. /\ Open' = Open /\ gen' = gen /\ peer' = peer
      /\ \A t : Current(t)' <=> Current(t)
      /\ \A a, x : TokenOf(a, x)' = TokenOf(a, x)
  BY <1>2, SameSessions DEF sessionVars
<1>4. /\ m > 0 => peer[b] # 0
      /\ pending' = [pending EXCEPT ![b][o] = @ \o more]
      /\ IF m > 0 /\ pendingQueued[b][o] # gen[b]
           THEN /\ pendingQueued' = [pendingQueued EXCEPT ![b][o] = gen[b]]
                /\ pendingTokens' = Append(pendingTokens, T)
           ELSE UNCHANGED <<pendingQueued, pendingTokens>>
  BY DEF Read, Forward
<1>5. /\ m \in Nat /\ more \in Seq(0..MaxTargets) /\ Len(more) = m
      /\ \A i \in 1..m : more[i] = peer[b]
  BY <1>1, <1>2, SocketsAssumption DEF SessionsTyped
<1>6. T \in Token /\ T.gen = gen[b] /\ T.block = b /\ T.side = o /\ Current(T)
  BY <1>1, <1>2, TokenTyped DEF TokenOf, Current, Open
<1>. HIDE DEF b, o, T, more
<1>7. /\ pending[b][o] \in Seq(0..MaxTargets) /\ pending[b][o] \o more \in Seq(0..MaxTargets)
      /\ Len(pending[b][o] \o more) = Len(pending[b][o]) + m
      /\ \A i \in 1..(Len(pending[b][o]) + m) :
            (pending[b][o] \o more)[i] =
               IF i <= Len(pending[b][o]) THEN pending[b][o][i] ELSE more[i - Len(pending[b][o])]
  <2>1. pending[b][o] \in Seq(0..MaxTargets)
    BY <1>1, <1>2 DEF SendTyped
  <2>. DEFINE q == pending[b][o]
  <2>. HIDE DEF q
  <2>2. q \in Seq(0..MaxTargets)
    BY <2>1 DEF q
  <2>3. /\ q \o more \in Seq(0..MaxTargets) /\ Len(q \o more) = Len(q) + Len(more)
        /\ \A i \in 1..(Len(q) + Len(more)) :
              (q \o more)[i] = IF i <= Len(q) THEN q[i] ELSE more[i - Len(q)]
    BY <1>5, <2>2, ConcatProperties
  <2>4. /\ q \o more \in Seq(0..MaxTargets) /\ Len(q \o more) = Len(q) + m
        /\ \A i \in 1..(Len(q) + m) :
              (q \o more)[i] = IF i <= Len(q) THEN q[i] ELSE more[i - Len(q)]
    BY <1>5, <2>3
  <2>. QED
    BY <2>1, <2>4 DEF q
<1>8. \A a \in Blocks, x \in Sides :
         pending'[a][x] = IF a = b /\ x = o THEN pending[b][o] \o more ELSE pending[a][x]
  BY <1>1, <1>2, <1>4, <1>7 DEF SendTyped
<1>9. \A i \in 1..Len(pending[b][o] \o more) : (pending[b][o] \o more)[i] = peer[b]
  <2>1. ASSUME NEW i \in 1..(Len(pending[b][o]) + m) PROVE (pending[b][o] \o more)[i] = peer[b]
    <3>1. Len(pending[b][o]) \in Nat
      BY <1>7, LenProperties
    <3>2. CASE i <= Len(pending[b][o])
      <4>1. i \in 1..Len(pending[b][o])
        BY <3>1, <3>2
      <4>. QED
        <5>1. pending[b][o][i] = peer[b]
          BY <1>1, <1>2, <4>1 DEF SendInv, PendingOK
        <5>. QED
          BY <1>7, <3>2, <5>1
    <3>3. CASE ~(i <= Len(pending[b][o]))
      <4>1. i - Len(pending[b][o]) \in 1..m
        BY <1>5, <3>1, <3>3
      <4>. QED
        BY <1>5, <1>7, <3>3, <4>1
    <3>. QED
      BY <3>2, <3>3
  <2>. QED
    BY <1>7, <2>1
<1>10. m = 0 => pending[b][o] \o more = pending[b][o]
  <2>1. SUFFICES ASSUME m = 0 PROVE pending[b][o] \o more = pending[b][o]
    OBVIOUS
  <2>2. more = <<>>
    BY <1>5, <2>1, EmptySeq
  <2>. QED
    BY <1>7, <2>2, ConcatEmptySeq
<1>11. /\ Once(pendingTokens') /\ pendingTokens' \in Seq(Token)
       /\ \A t : In(pendingTokens', t) <=> In(pendingTokens, t) \/ (t = T /\ pendingTokens' # pendingTokens)
       /\ pendingTokens' # pendingTokens => pendingQueued' = [pendingQueued EXCEPT ![b][o] = gen[b]]
       /\ pendingTokens' = pendingTokens => pendingQueued' = pendingQueued
       /\ m > 0 => pendingQueued'[b][o] = gen[b]
  <2>1. CASE m > 0 /\ pendingQueued[b][o] # gen[b]
    <3>1. ~In(pendingTokens, T)
      BY <1>1, <1>6, <2>1 DEF SendInv, ListedOK
    <3>2. /\ pendingQueued' = [pendingQueued EXCEPT ![b][o] = gen[b]]
          /\ pendingTokens' = Append(pendingTokens, T)
      BY <1>4, <2>1
    <3>3. /\ pendingTokens' \in Seq(Token) /\ Once(pendingTokens')
          /\ \A t : In(pendingTokens', t) <=> In(pendingTokens, t) \/ t = T
      BY <1>1, <1>6, <3>1, <3>2, AppendIn DEF SendTyped, SendInv, ListedOK
    <3>4. pendingTokens' # pendingTokens
      BY <3>1, <3>3
    <3>5. pendingQueued'[b][o] = gen[b]
      BY <1>1, <1>2, <3>2 DEF SendTyped
    <3>. QED
      BY <3>2, <3>3, <3>4, <3>5
  <2>2. CASE ~(m > 0 /\ pendingQueued[b][o] # gen[b])
    <3>1. UNCHANGED <<pendingQueued, pendingTokens>>
      BY <1>4, <2>2
    <3>. QED
      BY <1>1, <2>2, <3>1 DEF SendTyped, SendInv, ListedOK
  <2>. QED
    BY <2>1, <2>2
<1>12. \A a \in Blocks, x \in Sides :
          /\ pendingTokens' # pendingTokens =>
                pendingQueued'[a][x] = IF a = b /\ x = o THEN gen[b] ELSE pendingQueued[a][x]
          /\ pendingTokens' = pendingTokens => pendingQueued'[a][x] = pendingQueued[a][x]
  BY <1>1, <1>2, <1>11 DEF SendTyped
<1>13. ListedOK'
  <2>1. gen[b] \in Nat
    BY <1>1, <1>2, SocketsAssumption DEF SessionsTyped, Generations
  <2>2. ASSUME NEW t \in Token, In(pendingTokens', t)
        PROVE  t.gen <= gen[t.block] /\ (Current(t) => pendingQueued'[t.block][t.side] = t.gen)
    <3>1. t.block \in Blocks /\ t.side \in Sides /\ (Current(t) => t.gen = gen[t.block])
      BY DEF Token, Current
    <3>2. CASE t = T
      BY <1>1, <1>6, <1>11, <1>12, <2>1, <2>2, <3>1, <3>2 DEF SendInv, ListedOK
    <3>3. CASE In(pendingTokens, t)
      BY <1>1, <1>12, <3>1, <3>3 DEF SendInv, ListedOK
    <3>. QED
      BY <1>11, <2>2, <3>2, <3>3
  <2>. QED
    BY <1>3, <1>11, <2>2 DEF ListedOK, In
<1>14. PendingOK'
  <2>1. ASSUME NEW a \in Blocks, NEW x \in Sides
        PROVE  /\ a \notin Open => pending'[a][x] = <<>> /\ pendingQueued'[a][x] = 0
               /\ \A i \in 1..Len(pending'[a][x]) : pending'[a][x][i] = peer[a]
               /\ peer[a] = 0 => pending'[a][x] = <<>>
    <3>1. CASE a = b /\ x = o
      <4>1. peer[b] = 0 => m = 0
        BY <1>4, <1>5
      <4>. QED
        BY <1>1, <1>2, <1>8, <1>9, <1>10, <3>1, <4>1 DEF SendInv, PendingOK
    <3>2. CASE ~(a = b /\ x = o)
      <4>1. pending'[a][x] = pending[a][x] /\ pendingQueued'[a][x] = pendingQueued[a][x]
        BY <1>8, <1>12, <3>2
      <4>. QED
        BY <1>1, <4>1 DEF SendInv, PendingOK
    <3>. QED
      BY <3>1, <3>2
  <2>2. ASSUME NEW a \in Open, NEW x \in Sides
        PROVE  /\ pendingQueued'[a][x] \in {0, gen[a]}
               /\ pendingQueued'[a][x] = gen[a] => In(pendingTokens', TokenOf(a, x))
               /\ pending'[a][x] # <<>> => pendingQueued'[a][x] = gen[a]
    <3>0. a \in Blocks
      BY DEF Open
    <3>1. CASE a = b /\ x = o
      <4>1. TokenOf(a, x) = T
        BY <3>1 DEF T
      <4>2. m > 0 \/ m = 0
        BY <1>5
      <4>. QED
        <5>1. /\ pendingQueued[b][o] \in {0, gen[b]}
              /\ pendingQueued[b][o] = gen[b] => In(pendingTokens, T)
              /\ pending[b][o] # <<>> => pendingQueued[b][o] = gen[b]
          BY <1>1, <3>1, <4>1 DEF SendInv, PendingOK
        <5>2. pendingQueued'[b][o] \in {gen[b], pendingQueued[b][o]}
          BY <1>2, <1>12
        <5>3. pendingQueued'[b][o] = gen[b] => In(pendingTokens', T)
          <6>1. CASE pendingTokens' = pendingTokens
            BY <1>11, <5>1, <6>1
          <6>2. CASE pendingTokens' # pendingTokens
            BY <1>11, <6>2
          <6>. QED
            BY <6>1, <6>2
        <5>4. pending'[b][o] # <<>> => pendingQueued'[b][o] = gen[b]
          <6>1. CASE m > 0
            BY <1>11, <6>1
          <6>2. CASE m = 0
            BY <1>2, <1>8, <1>10, <5>1, <5>2, <6>2
          <6>. QED
            BY <4>2, <6>1, <6>2
        <5>. QED
          BY <3>1, <4>1, <5>1, <5>2, <5>3, <5>4
    <3>2. CASE ~(a = b /\ x = o)
      <4>1. pending'[a][x] = pending[a][x] /\ pendingQueued'[a][x] = pendingQueued[a][x]
        BY <1>8, <1>12, <3>0, <3>2
      <4>. QED
        BY <1>1, <1>11, <4>1 DEF SendInv, PendingOK
    <3>. QED
      BY <3>1, <3>2
  <2>. QED
    BY <1>3, <2>1, <2>2 DEF PendingOK, In
<1>. QED
  BY <1>13, <1>14 DEF SendInv

LEMMA FlushSafe ==
    ASSUME IInv, NEW n \in 0..SendQueueCap, Flush(n)
    PROVE  SendInv'
<1>. DEFINE e == Sending
            b == Sending.block
            s == Sending.side
            q == pending[b][s]
            left == SubSeq(q, n + 1, Len(q))
<1>1. SessionsTyped /\ SendTyped /\ SendInv /\ GenOK /\ UNCHANGED sessionVars
  BY DEF IInv, LoopTyped, Flush
<1>2. /\ Open' = Open /\ gen' = gen /\ peer' = peer
      /\ \A t : Current(t)' <=> Current(t)
      /\ \A a, x : TokenOf(a, x)' = TokenOf(a, x)
  BY <1>1, SameSessions DEF sessionVars
<1>3. /\ pendingTokens # <<>> /\ e = Head(pendingTokens) /\ Current(e) /\ n <= Len(q)
      /\ pending' = [pending EXCEPT ![b][s] = left]
      /\ IF left = <<>>
           THEN /\ pendingQueued' = [pendingQueued EXCEPT ![b][s] = 0]
                /\ pendingTokens' = Tail(pendingTokens)
           ELSE /\ pendingTokens' = Append(Tail(pendingTokens), e)
                /\ UNCHANGED pendingQueued
  BY DEF Flush, Sending
<1>4. e \in Token /\ In(pendingTokens, e)
  BY <1>1, <1>3, TailIn DEF SendInv, ListedOK, SendTyped
<1>5. /\ b \in Open /\ b \in Blocks /\ s \in Sides /\ e.gen = gen[b]
      /\ e.block = b /\ e.side = s /\ e = TokenOf(b, s)
  <2>1. b \in Blocks /\ s \in Sides /\ e.gen = gen[b] /\ b \in Open
    BY <1>3, <1>4 DEF Token, Current, Open
  <2>. QED
    BY <1>1, <1>4, <2>1, TokenIs
<1>6. pendingQueued[b][s] = gen[b] /\ gen[b] # 0
  BY <1>1, <1>3, <1>4, <1>5 DEF SendInv, ListedOK, GenOK
<1>7. /\ q \in Seq(0..MaxTargets) /\ left \in Seq(0..MaxTargets)
      /\ \A i \in 1..Len(left) : left[i] = peer[b]
      /\ q = <<>> => left = <<>>
  <2>1. q \in Seq(0..MaxTargets) /\ \A i \in 1..Len(q) : q[i] = peer[b]
    BY <1>1, <1>5 DEF SendTyped, SendInv, PendingOK
  <2>. HIDE DEF q
  <2>2. Len(q) \in Nat /\ n \in Nat /\ n <= Len(q)
    BY <1>3, <2>1, LenProperties, SocketsAssumption
  <2>3. /\ left \in Seq(0..MaxTargets) /\ Len(left) = Len(q) - n
        /\ \A i \in 1..(Len(q) - n) : left[i] = q[n + i]
    <3>. DEFINE first == n + 1
                last == Len(q)
    <3>1. first \in Int /\ last \in Int /\ \A i \in first..last : i \in 1..Len(q)
      BY <2>2
    <3>2. \A i \in first..last : q[i] \in 0..MaxTargets
      BY <2>1, <3>1, ElementOfSeq
    <3>3. /\ last - first + 1 = Len(q) - n /\ (first > last => Len(q) - n = 0)
          /\ \A i \in 1..(Len(q) - n) : first + i - 1 = n + i
      BY <2>2
    <3>. HIDE DEF first, last
    <3>4. /\ SubSeq(q, first, last) \in Seq(0..MaxTargets)
          /\ Len(SubSeq(q, first, last)) = IF first <= last THEN last - first + 1 ELSE 0
          /\ \A i \in 1..(last - first + 1) : SubSeq(q, first, last)[i] = q[first + i - 1]
      BY <3>1, <3>2, SubSeqProperties
    <3>5. left = SubSeq(q, first, last)
      BY DEF first, last
    <3>. HIDE DEF left
    <3>6. \A i \in 1..(Len(q) - n) : left[i] = q[n + i]
      BY <3>3, <3>4, <3>5
    <3>7. Len(left) = Len(q) - n
      BY <3>1, <3>3, <3>4, <3>5
    <3>. QED
      BY <3>4, <3>5, <3>6, <3>7
  <2>4. ASSUME NEW i \in 1..(Len(q) - n) PROVE left[i] = peer[b]
    <3>1. n + i \in 1..Len(q)
      BY <2>2
    <3>. QED
      BY <2>1, <2>3, <3>1
  <2>5. q = <<>> => left = <<>>
    <3>1. SUFFICES ASSUME q = <<>> PROVE Len(left) = 0
      BY <2>3, EmptySeq
    <3>. QED
      BY <2>2, <2>3, <3>1
  <2>. QED
    BY <2>1, <2>3, <2>4, <2>5
<1>. HIDE DEF e, b, s, left, q
<1>8. \A a \in Blocks, x \in Sides : pending'[a][x] = IF a = b /\ x = s THEN left ELSE pending[a][x]
  BY <1>1, <1>3, <1>5, <1>7 DEF SendTyped
<1>9. \A a \in Blocks, x \in Sides :
         pendingQueued'[a][x] = IF a = b /\ x = s /\ left = <<>> THEN 0 ELSE pendingQueued[a][x]
  BY <1>1, <1>3, <1>5 DEF SendTyped
<1>10. /\ Once(pendingTokens')
       /\ \A t : In(pendingTokens', t) <=> In(pendingTokens, t) /\ (t = e => left # <<>>)
  <2>1. CASE left = <<>>
    BY <1>1, <1>3, <2>1, TailIn DEF SendInv, ListedOK, SendTyped
  <2>2. CASE left # <<>>
    <3>1. pendingTokens' = Append(Tail(pendingTokens), Head(pendingTokens))
      BY <1>3, <2>2
    <3>2. pendingTokens \in Seq(Token) /\ Once(pendingTokens) /\ pendingTokens # <<>>
      BY <1>1, <1>3 DEF SendInv, ListedOK, SendTyped
    <3>3. Once(pendingTokens') /\ \A t : In(pendingTokens', t) <=> In(pendingTokens, t)
      BY <3>1, <3>2, RotateIn
    <3>. QED
      BY <2>2, <3>3
  <2>. QED
    BY <2>1, <2>2
<1>11. ListedOK'
  <2>1. ASSUME NEW t \in Token, In(pendingTokens', t)
        PROVE  t.gen <= gen[t.block] /\ (Current(t) => pendingQueued'[t.block][t.side] = t.gen)
    <3>1. /\ In(pendingTokens, t) /\ (t = e => left # <<>>) /\ t.block \in Blocks /\ t.side \in Sides
          /\ (Current(t) => t.gen = gen[t.block])
      BY <1>10, <2>1 DEF Token, Current
    <3>2. Current(t) /\ t # e => ~(t.block = b /\ t.side = s)
      BY <1>1, <1>5, <3>1, TokenIs
    <3>. QED
      BY <1>1, <1>9, <3>1, <3>2 DEF SendInv, ListedOK
  <2>. QED
    BY <1>2, <1>10, <2>1 DEF ListedOK, In
<1>12. PendingOK'
  <2>1. ASSUME NEW a \in Blocks, NEW x \in Sides
        PROVE  /\ a \notin Open => pending'[a][x] = <<>> /\ pendingQueued'[a][x] = 0
               /\ \A i \in 1..Len(pending'[a][x]) : pending'[a][x][i] = peer[a]
               /\ peer[a] = 0 => pending'[a][x] = <<>>
    <3>1. CASE a = b /\ x = s
      BY <1>1, <1>5, <1>7, <1>8, <3>1 DEF SendInv, PendingOK, q
    <3>2. CASE ~(a = b /\ x = s)
      <4>1. pending'[a][x] = pending[a][x] /\ pendingQueued'[a][x] = pendingQueued[a][x]
        BY <1>8, <1>9, <3>2
      <4>. QED
        BY <1>1, <4>1 DEF SendInv, PendingOK
    <3>. QED
      BY <3>1, <3>2
  <2>2. ASSUME NEW a \in Open, NEW x \in Sides
        PROVE  /\ pendingQueued'[a][x] \in {0, gen[a]}
               /\ pendingQueued'[a][x] = gen[a] => In(pendingTokens', TokenOf(a, x))
               /\ pending'[a][x] # <<>> => pendingQueued'[a][x] = gen[a]
    <3>0. a \in Blocks
      BY DEF Open
    <3>1. CASE a = b /\ x = s
      BY <1>4, <1>5, <1>6, <1>8, <1>9, <1>10, <3>1
    <3>2. CASE ~(a = b /\ x = s)
      <4>1. pending'[a][x] = pending[a][x] /\ pendingQueued'[a][x] = pendingQueued[a][x]
        BY <1>8, <1>9, <3>0, <3>2
      <4>2. TokenOf(a, x) # e
        BY <1>5, <3>0, <3>2, TokenFields
      <4>. QED
        BY <1>1, <1>10, <4>1, <4>2 DEF SendInv, PendingOK
    <3>. QED
      BY <3>1, <3>2
  <2>. QED
    BY <1>2, <2>1, <2>2 DEF PendingOK, In
<1>. QED
  BY <1>11, <1>12 DEF SendInv

LEMMA FlushStaleSafe ==
    ASSUME IInv, FlushStale
    PROVE  SendInv'
<1>. DEFINE e == Sending
<1>1. SessionsTyped /\ SendTyped /\ SendInv /\ UNCHANGED sessionVars
  BY DEF IInv, LoopTyped, FlushStale
<1>2. /\ Open' = Open /\ gen' = gen /\ peer' = peer
      /\ \A t : Current(t)' <=> Current(t)
      /\ \A a, x : TokenOf(a, x)' = TokenOf(a, x)
  BY <1>1, SameSessions DEF sessionVars
<1>3. /\ pendingTokens # <<>> /\ e = Head(pendingTokens) /\ ~Current(e)
      /\ pendingTokens' = Tail(pendingTokens) /\ UNCHANGED <<pending, pendingQueued>>
  BY DEF FlushStale, Sending
<1>. HIDE DEF e
<1>4. Once(pendingTokens') /\ \A t : In(pendingTokens', t) <=> In(pendingTokens, t) /\ t # e
  BY <1>1, <1>3, TailIn DEF SendInv, ListedOK, SendTyped
<1>5. ListedOK'
  <2>1. ASSUME NEW t \in Token, In(pendingTokens', t)
        PROVE  t.gen <= gen[t.block] /\ (Current(t) => pendingQueued[t.block][t.side] = t.gen)
    BY <1>1, <1>4, <2>1 DEF SendInv, ListedOK
  <2>. QED
    BY <1>2, <1>3, <1>4, <2>1 DEF ListedOK, In
<1>6. PendingOK'
  <2>1. ASSUME NEW a \in Open, NEW x \in Sides, pendingQueued[a][x] = gen[a]
        PROVE  In(pendingTokens', TokenOf(a, x))
    <3>1. TokenOf(a, x) # e
      BY <1>3 DEF Open, Current, TokenOf
    <3>. QED
      BY <1>1, <1>4, <2>1, <3>1 DEF SendInv, PendingOK
  <2>. QED
    BY <1>1, <1>2, <1>3, <2>1 DEF SendInv, PendingOK, In
<1>. QED
  BY <1>5, <1>6 DEF SendInv
-----------------------------------------------------------------------------
(* The invariant is inductive.                                             *)

LEMMA CommandKeeps ==
    ASSUME IInv, Command
    PROVE  GenOK' /\ ReadInv' /\ SendInv'
<1>1. SessionsTyped /\ GenOK /\ ReadInv /\ SendInv
  BY DEF IInv, LoopTyped
<1>2. ASSUME NEW c \in Sessions, NEW k \in 0..NumBlocks, Allocate(c, k)
      PROVE  GenOK' /\ ReadInv' /\ SendInv'
  BY <1>2, AllocateSafe
<1>3. ASSUME NEW c \in Sessions, NEW k \in 0..NumBlocks, AllocateFails(c, k)
      PROVE  GenOK' /\ ReadInv' /\ SendInv'
  BY <1>1, <1>3, ReadSame, SendSame DEF AllocateFails, sessionVars, readVars
<1>4. ASSUME NEW b \in Blocks, Release(b) PROVE GenOK' /\ ReadInv' /\ SendInv'
  BY <1>4, ReleaseSafe
<1>5. ASSUME NEW b \in Blocks, ConnectFails(b) PROVE GenOK' /\ ReadInv' /\ SendInv'
  <2>1. /\ UNCHANGED <<session, gen, lastGen, peer, pendingTokens, pendingQueued>>
        /\ UNCHANGED <<data, events, ready, queued, delayed, delayedBySlot>>
        /\ b \in Open /\ EmptyQueues(b)
    BY <1>5 DEF ConnectFails, Open, sessionVars, readVars
  <2>2. SendInv'
    BY <2>1, MoveSafe
  <2>. QED
    BY <1>1, <2>1, <2>2, ReadSame
<1>6. ASSUME NEW b \in Blocks, NEW n \in 1..MaxTargets, Connect(b, n)
      PROVE  GenOK' /\ ReadInv' /\ SendInv'
  <2>1. /\ UNCHANGED <<session, gen, lastGen, pendingTokens, pendingQueued>>
        /\ UNCHANGED <<data, events, ready, queued, delayed, delayedBySlot>>
        /\ b \in Open /\ peer' = [peer EXCEPT ![b] = n]
        /\ IF peer[b] \in {0, n} THEN UNCHANGED pending ELSE EmptyQueues(b)
    BY <1>6 DEF Connect, Open, readVars
  <2>2. /\ \A a \in Blocks : a # b => peer'[a] = peer[a]
        /\ peer'[b] = n /\ n # 0
    BY <1>1, <2>1, SocketsAssumption DEF SessionsTyped
  <2>3. SendInv'
    BY <2>1, <2>2, MoveSafe
  <2>. QED
    BY <1>1, <2>1, <2>3, ReadSame
<1>7. ASSUME ReadStats PROVE GenOK' /\ ReadInv' /\ SendInv'
  BY <1>1, <1>7, ReadSame, SendSame DEF ReadStats, sessionVars, readVars
<1>. QED
  BY <1>2, <1>3, <1>4, <1>5, <1>6, <1>7 DEF Command

LEMMA KernelKeeps ==
    ASSUME IInv, Kernel
    PROVE  GenOK' /\ ReadInv' /\ SendInv'
<1>1. SessionsTyped /\ GenOK /\ ReadInv /\ SendInv
  BY DEF IInv, LoopTyped
<1>2. ASSUME Tick PROVE GenOK' /\ ReadInv' /\ SendInv'
  BY <1>1, <1>2, ReadSame, SendSame DEF Tick, sessionVars, readVars
<1>3. ASSUME NEW b \in Blocks, NEW s \in Sides, Arrive(b, s) PROVE GenOK' /\ ReadInv' /\ SendInv'
  BY <1>1, <1>3, ArriveSafe, SameSessions, SendSame DEF Arrive
<1>4. ASSUME NEW b \in Blocks, NEW s \in Sides, Refill(b, s) PROVE GenOK' /\ ReadInv' /\ SendInv'
  BY <1>1, <1>4, ReadSame, SendSame DEF Refill, sessionVars
<1>. QED
  BY <1>2, <1>3, <1>4 DEF Kernel

LEMMA WorkKeeps ==
    ASSUME IInv, Work
    PROVE  GenOK' /\ ReadInv' /\ SendInv'
<1>1. SessionsTyped /\ GenOK /\ ReadInv /\ SendInv
  BY DEF IInv, LoopTyped
<1>2. ASSUME NEW e \in events, Poll(e) PROVE GenOK' /\ ReadInv' /\ SendInv'
  BY <1>1, <1>2, PollSafe, SameSessions, SendSame DEF Poll
<1>3. ASSUME NEW e \in delayed, Resume(e) PROVE GenOK' /\ ReadInv' /\ SendInv'
  BY <1>1, <1>3, ResumeSafe, SameSessions, SendSame DEF Resume
<1>4. ASSUME ReadStale PROVE GenOK' /\ ReadInv' /\ SendInv'
  BY <1>1, <1>4, StaleSafe, SameSessions, SendSame DEF ReadStale
<1>5. ASSUME NEW n \in 0..MaxData, NEW u \in 0..WorkCap, NEW m \in 0..n, Read(n, m, u)
      PROVE  GenOK' /\ SendInv'
  BY <1>1, <1>5, ForwardSafe, SameSessions DEF Read
<1>6. ASSUME NEW n \in 0..MaxData, NEW u \in 0..WorkCap, NEW m \in 0..n,
             ReadDrained(n, m, u) \/ ReadMore(n, m, u) \/ ReadDeferred(n, m, u)
      PROVE  GenOK' /\ ReadInv' /\ SendInv'
  <2>1. Read(n, m, u)
    BY <1>6 DEF ReadDrained, ReadMore, ReadDeferred
  <2>. QED
    BY <1>5, <1>6, <2>1, DrainedSafe, MoreSafe, DeferredSafe
<1>7. ASSUME FlushStale PROVE GenOK' /\ ReadInv' /\ SendInv'
  BY <1>1, <1>7, FlushStaleSafe, ReadSame DEF FlushStale, sessionVars, readVars
<1>8. ASSUME NEW n \in 0..SendQueueCap, Flush(n) PROVE GenOK' /\ ReadInv' /\ SendInv'
  BY <1>1, <1>8, FlushSafe, ReadSame DEF Flush, sessionVars, readVars
<1>. QED
  BY <1>2, <1>3, <1>4, <1>6, <1>7, <1>8 DEF Work, Receive

LEMMA LoopKeeps == IInv /\ [Next]_vars => IInv'
<1>1. SUFFICES ASSUME IInv, [Next]_vars PROVE IInv'
  OBVIOUS
<1>2. PoolInv'
  BY <1>1, NextKeeps DEF IInv
<1>3. CASE Command
  BY <1>1, <1>2, <1>3, CommandTyped, CommandKeeps DEF IInv
<1>4. CASE Kernel
  BY <1>1, <1>2, <1>4, KernelTyped, KernelKeeps DEF IInv
<1>5. CASE Work
  BY <1>1, <1>2, <1>5, WorkTyped, WorkKeeps DEF IInv
<1>6. CASE UNCHANGED vars
  <2>1. UNCHANGED sessionVars /\ UNCHANGED readVars /\ UNCHANGED sendVars
    BY <1>6 DEF vars
  <2>2. LoopTyped'
    BY <1>1, <2>1 DEF IInv, LoopTyped, SessionsTyped, ReadTyped, SendTyped, sessionVars, readVars,
                      sendVars
  <2>3. ReadInv' /\ GenOK' /\ SendInv'
    BY <1>1, <2>1, ReadSame, SendSame DEF IInv, sessionVars, readVars
  <2>. QED
    BY <1>2, <2>2, <2>3 DEF IInv
<1>. QED
  BY <1>1, <1>3, <1>4, <1>5, <1>6 DEF Next

LEMMA LoopStarts == Init => IInv
<1>1. SUFFICES ASSUME Init PROVE IInv
  OBVIOUS
<1>2. PoolInv
  BY <1>1, InitHolds
<1>3. /\ lastGen = 0 /\ ready = <<>> /\ pendingTokens = <<>> /\ events = {} /\ delayed = {}
      /\ session = [b \in Blocks |-> NoSession]
      /\ gen = [b \in Blocks |-> 0] /\ peer = [b \in Blocks |-> 0]
      /\ data = PerSocket(0) /\ work = PerSocket(0) /\ queued = PerSocket(0)
      /\ delayedBySlot = PerSocket(0) /\ pending = PerSocket(<<>>) /\ pendingQueued = PerSocket(0)
  BY <1>1 DEF Init
<1>4. Open = {}
  BY <1>3 DEF Open
<1>5. \A v : \A b \in Blocks, s \in Sides : PerSocket(v)[b][s] = v
  BY DEF PerSocket
<1>6. LoopTyped
  BY <1>3, BoundsTyped DEF LoopTyped, SessionsTyped, ReadTyped, SendTyped, PerSocket
<1>7. \A t : ~In(<<>>, t)
  BY DEF In
<1>8. Once(<<>>) /\ Len(<<>>) = 0
  BY DEF Once
<1>9. GenOK
  BY <1>3, <1>4 DEF GenOK
<1>10. ReadInv
  BY <1>3, <1>4, <1>5, <1>7, <1>8 DEF ReadInv, ReadyOK, DelayedOK, MarksOK
<1>11. SendInv
  BY <1>3, <1>4, <1>5, <1>7, <1>8 DEF SendInv, ListedOK, PendingOK
<1>. QED
  BY <1>2, <1>6, <1>9, <1>10, <1>11 DEF IInv

LEMMA LoopSound == Spec => []IInv
BY LoopStarts, LoopKeeps, PTL DEF Spec
-----------------------------------------------------------------------------
(* What follows from it.                                                   *)

(* Places of a token in a queue that holds nothing twice.                  *)
LEMMA OneOccurrence ==
    ASSUME NEW q \in Seq(Token), Once(q), NEW t
    PROVE  Cardinality({i \in DOMAIN q : q[i] = t}) = IF In(q, t) THEN 1 ELSE 0
<1>. DEFINE I == {i \in DOMAIN q : q[i] = t}
<1>1. DOMAIN q = 1..Len(q)
  BY LenProperties
<1>2. CASE In(q, t)
  <2>1. PICK i \in 1..Len(q) : q[i] = t
    BY <1>2 DEF In
  <2>2. I = {i}
    BY <1>1, <2>1 DEF Once
  <2>. QED
    BY <1>2, <2>2, FS_Singleton
<1>3. CASE ~In(q, t)
  <2>1. I = {}
    BY <1>1, <1>3 DEF In
  <2>. QED
    BY <1>3, <2>1, FS_EmptySet
<1>. QED
  BY <1>2, <1>3

(* Every variable has its type, for any instance.                          *)
THEOREM SocketsTyped == Spec => []TypeOK
<1>1. IInv => TypeOK
  BY DEF IInv, PoolInv, PoolOK, Typed, Entry, LoopTyped, SessionsTyped, ReadTyped, SendTyped, TypeOK
<1>. QED
  BY <1>1, LoopSound, PTL

(* A socket with unread datagrams is scheduled, suspended, or has an edge  *)
(* on its way that will schedule it (worker.rs: poll, receive and          *)
(* resume_reads), however often its slot was used before.                  *)
THEOREM NoSocketSilent == Spec => []ReadinessKept
<1>1. IInv => ReadinessKept
  <2>1. SUFFICES ASSUME IInv, NEW b \in Open, NEW s \in Sides, data[b][s] > 0
                 PROVE  \/ Scheduled(TokenOf(b, s))
                        \/ TokenOf(b, s) \in events /\ queued[b][s] # gen[b]
    BY DEF ReadinessKept
  <2>2. ReadInv /\ DOMAIN ready = 1..Len(ready)
    BY <2>1, LenProperties DEF IInv, LoopTyped, ReadTyped
  <2>3. CASE queued[b][s] = gen[b]
    BY <2>2, <2>3 DEF ReadInv, MarksOK, Scheduled, In
  <2>4. CASE queued[b][s] # gen[b]
    BY <2>1, <2>2, <2>4 DEF ReadInv, MarksOK
  <2>. QED
    BY <2>3, <2>4
<1>. QED
  BY <1>1, LoopSound, PTL

(* A socket is in ready once, and not also suspended: no socket takes more *)
(* than its share of a turn.                                               *)
THEOREM ServedInTurn == Spec => []ScheduledOnce
<1>1. IInv => ScheduledOnce
  <2>1. SUFFICES ASSUME IInv, NEW i \in DOMAIN ready PROVE Occurrences(ready[i]) = 1
    BY DEF ScheduledOnce
  <2>2. ready \in Seq(Token) /\ Once(ready) /\ DOMAIN ready = 1..Len(ready)
    BY <2>1, LenProperties DEF IInv, LoopTyped, ReadTyped, ReadInv, ReadyOK
  <2>3. In(ready, ready[i]) /\ ready[i] \in Token
    BY <2>1, <2>2, ElementOfSeq DEF In
  <2>4. ready[i] \notin delayed
    BY <2>1, <2>3 DEF IInv, ReadInv, ReadyOK
  <2>5. Cardinality({j \in DOMAIN ready : ready[j] = ready[i]}) = 1
    BY <2>2, <2>3, OneOccurrence
  <2>. QED
    BY <2>4, <2>5 DEF Occurrences
<1>. QED
  BY <1>1, LoopSound, PTL

(* The suspended sockets are exactly those marked in delayed_by_slot, and  *)
(* all belong to open sessions: each will be read again.                   *)
THEOREM SuspendedComeBack == Spec => []SuspensionsResume
<1>1. IInv => SuspensionsResume
  <2>1. SUFFICES ASSUME IInv PROVE SuspensionsResume
    OBVIOUS
  <2>2. SessionsTyped /\ ReadTyped /\ GenOK /\ DelayedOK /\ ReadInv
    BY <2>1 DEF IInv, LoopTyped, ReadInv
  <2>3. ASSUME NEW t \in delayed
        PROVE  /\ t \in Token /\ t.block \in Open /\ t.gen # 0
               /\ delayedBySlot[t.block][t.side] = t.gen
    <3>1. t \in Token /\ Current(t) /\ delayedBySlot[t.block][t.side] = t.gen
      BY <2>2 DEF DelayedOK, ReadTyped
    <3>2. t.block \in Open /\ t.gen = gen[t.block]
      BY <3>1 DEF Current, Open, Token
    <3>. QED
      BY <2>2, <3>1, <3>2 DEF GenOK
  <2>4. ASSUME NEW t \in Token, t.block \in Open, t.gen # 0, delayedBySlot[t.block][t.side] = t.gen
        PROVE  t \in delayed
    <3>1. /\ t.block \in Blocks /\ t.side \in Sides /\ TokenOf(t.block, t.side) \in delayed
      BY <2>2, <2>4 DEF DelayedOK, Token
    <3>2. delayedBySlot[t.block][t.side] = gen[t.block]
      BY <2>2, <3>1, TokenFields DEF DelayedOK
    <3>3. t = TokenOf(t.block, t.side)
      BY <2>2, <2>4, <3>1, <3>2, TokenIs
    <3>. QED
      BY <3>1, <3>3
  <2>. QED
    BY <2>3, <2>4 DEF SuspensionsResume
<1>. QED
  BY <1>1, LoopSound, PTL

(* A socket with datagrams that wait to be sent is listed for a retry, and *)
(* listed once.                                                            *)
THEOREM NothingForgotten == Spec => []WaitingIsListed
<1>1. IInv => WaitingIsListed
  <2>1. SUFFICES ASSUME IInv, NEW b \in Open, NEW s \in Sides
                 PROVE  LET n == Cardinality({i \in DOMAIN pendingTokens :
                                                pendingTokens[i] = TokenOf(b, s)})
                        IN  n <= 1 /\ (pending[b][s] # <<>> => n = 1)
    BY DEF WaitingIsListed
  <2>2. pendingTokens \in Seq(Token) /\ Once(pendingTokens) /\ PendingOK
    BY <2>1 DEF IInv, LoopTyped, SendTyped, SendInv, ListedOK
  <2>3. Cardinality({i \in DOMAIN pendingTokens : pendingTokens[i] = TokenOf(b, s)})
          = IF In(pendingTokens, TokenOf(b, s)) THEN 1 ELSE 0
    BY <2>2, OneOccurrence
  <2>4. pending[b][s] # <<>> => In(pendingTokens, TokenOf(b, s))
    BY <2>2 DEF PendingOK
  <2>. QED
    BY <2>3, <2>4
<1>. QED
  BY <1>1, LoopSound, PTL

(* Nothing queued before leg B moved to another target is sent after it    *)
(* moved.                                                                  *)
THEOREM NothingMisdirected == Spec => []WaitingForCurrentTarget
<1>1. IInv => WaitingForCurrentTarget
  <2>1. SUFFICES ASSUME IInv, NEW b \in Open, NEW s \in Sides, NEW i \in DOMAIN pending[b][s]
                 PROVE  pending[b][s][i] = peer[b]
    BY DEF WaitingForCurrentTarget
  <2>2. b \in Blocks /\ pending[b][s] \in Seq(0..MaxTargets) /\ PendingOK
    BY <2>1 DEF IInv, LoopTyped, SendTyped, SendInv, Open
  <2>3. i \in 1..Len(pending[b][s])
    BY <2>1, <2>2, LenProperties
  <2>. QED
    BY <2>2, <2>3 DEF PendingOK
<1>. QED
  BY <1>1, LoopSound, PTL
=============================================================================
