----------------------------- MODULE MediaSockets -----------------------------
(***************************************************************************)
(* One media process (media/src/media/worker.rs and ports.rs): the port    *)
(* blocks it hands to sessions, and the single-threaded loop that reads    *)
(* their sockets under edge-triggered readiness, forwards to the other     *)
(* leg and retries what could not be sent.                                 *)
(*                                                                         *)
(* A released block is reused by a later session while the queues of the   *)
(* loop still name the sockets of the earlier one: every token carries the *)
(* generation of its session.  Each command and each unit of work of the   *)
(* loop is one step, taken here in any order; between two of them the      *)
(* kernel receives datagrams.  A block's RTP sockets stand for its RTCP    *)
(* sockets too, which are handled by the same code.                        *)
(***************************************************************************)
EXTENDS Integers, Sequences, FiniteSets

CONSTANTS
    Sessions, NoSession,
    NumBlocks,      \* port blocks of the worker, excluded ones not counted
    MaxCalls,       \* config.max_calls
    ReuseDelay,     \* port_reuse_delay_ms, in ticks
    WorkCap,        \* burst of a socket's receive_work bucket
    PacketsPerTurn, \* datagrams read from one socket per turn (32)
    SendQueueCap,   \* MAX_SEND_QUEUE (8)
    MaxData,        \* bound: datagrams in a kernel buffer
    MaxGeneration,  \* bound: sessions created
    MaxTargets      \* bound: targets of leg B per session

ASSUME SocketsAssumption ==
    /\ NoSession \notin Sessions
    /\ NumBlocks \in Nat \ {0} /\ MaxCalls \in 1..NumBlocks
    /\ ReuseDelay \in Nat \ {0}   \* the code also permits 0: no quarantine
    /\ WorkCap \in Nat \ {0} /\ PacketsPerTurn \in Nat \ {0} /\ SendQueueCap \in Nat \ {0}
    /\ MaxData \in Nat /\ MaxGeneration \in Nat /\ MaxTargets \in Nat

VARIABLES
    free,          \* PortPool.free
    retired,       \* PortPool.retired, with the ticks left of each quarantine
    echo,          \* ticks for which datagrams for the last session of a block still arrive
    session,       \* session[b]: the session that holds block b (its slot)
    gen, lastGen,  \* generation of the session in a slot; the last one given
    peer,          \* peer[b]: target of leg B, 0 before Connect
    data,          \* data[b][s]: datagrams unread in the kernel
    events,        \* readiness edges the kernel has not yet delivered
    work,          \* work[b][s]: allowance of receive_work
    ready,         \* readable sockets to be served
    queued,        \* queued[b][s]: generation of the socket that is scheduled, or 0
    delayed,       \* sockets whose reading is suspended
    delayedBySlot, \* delayed_by_slot: the generation suspended there, or 0
    pending,       \* pending[b][s]: targets of the datagrams waiting to be sent on s
    pendingTokens, \* sockets with datagrams waiting
    pendingQueued  \* pending_queued: the generation entered there, or 0

portVars == <<free, retired, echo>>
sessionVars == <<session, gen, lastGen, peer>>
readVars == <<data, events, work, ready, queued, delayed, delayedBySlot>>
sendVars == <<pending, pendingTokens, pendingQueued>>
vars == <<portVars, sessionVars, readVars, sendVars>>

Blocks == 1..NumBlocks
Sides == {"A", "B"}
Other(s) == IF s = "A" THEN "B" ELSE "A"
Generations == 0..MaxGeneration
Token == [gen : Generations, block : Blocks, side : Sides]
TokenOf(b, s) == [gen |-> gen[b], block |-> b, side |-> s]

(* resolve: the slot holds a session and the token is of its generation.   *)
Current(t) == session[t.block] # NoSession /\ gen[t.block] = t.gen

PerSocket(v) == [b \in Blocks |-> [s \in Sides |-> v]]
Both(v) == [s \in Sides |-> v]

Init ==
    /\ free = [i \in Blocks |-> i] /\ retired = <<>> /\ echo = [b \in Blocks |-> 0]
    /\ session = [b \in Blocks |-> NoSession]
    /\ gen = [b \in Blocks |-> 0] /\ lastGen = 0 /\ peer = [b \in Blocks |-> 0]
    /\ data = PerSocket(0) /\ events = {} /\ work = PerSocket(0)
    /\ ready = <<>> /\ queued = PerSocket(0)
    /\ delayed = {} /\ delayedBySlot = PerSocket(0)
    /\ pending = PerSocket(<<>>) /\ pendingTokens = <<>> /\ pendingQueued = PerSocket(0)

-----------------------------------------------------------------------------
(* The port pool.                                                          *)

(* reclaim: the leading blocks of the quarantine whose time is up.         *)
DueCount == Cardinality({i \in DOMAIN retired : \A j \in 1..i : retired[j].left = 0})
Reclaimed == free \o [i \in 1..DueCount |-> retired[i].block]
Quarantined == SubSeq(retired, DueCount + 1, Len(retired))

Retire(bs) == [i \in DOMAIN bs |-> [block |-> bs[i], left |-> ReuseDelay]]

(* Mutant: a block whose binding failed is dropped.                        *)
TryBlocksDropped(k) ==
    /\ k <= Len(Reclaimed)
    /\ retired' = Quarantined
    /\ free' = SubSeq(Reclaimed, k + 1, Len(Reclaimed))

(* The first k free blocks turn out to be in use by someone else and go    *)
(* into quarantine.                                                        *)
Attempts == 16
TryBlocks(k) ==
    /\ k <= Len(Reclaimed) /\ k <= Attempts
    /\ retired' = Quarantined \o Retire(SubSeq(Reclaimed, 1, k))
    /\ free' = SubSeq(Reclaimed, k + 1, Len(Reclaimed))

Open == {b \in Blocks : session[b] # NoSession}

(* A repeated allocation of an open session changes nothing.               *)
CanAllocate(c) == Cardinality(Open) < MaxCalls /\ \A b \in Blocks : session[b] # c

-----------------------------------------------------------------------------
(* The commands Allocate, Connect and Release.                             *)

Allocate(c, k) ==
    /\ CanAllocate(c)
    /\ lastGen < MaxGeneration
    /\ k < Len(Reclaimed) /\ k < Attempts
    /\ LET b == Reclaimed[k + 1]
       IN  /\ retired' = Quarantined \o Retire(SubSeq(Reclaimed, 1, k))
           /\ free' = SubSeq(Reclaimed, k + 2, Len(Reclaimed))
           /\ session' = [session EXCEPT ![b] = c]
           /\ gen' = [gen EXCEPT ![b] = lastGen + 1]
           /\ lastGen' = lastGen + 1
           /\ peer' = [peer EXCEPT ![b] = 0]
           /\ work' = [work EXCEPT ![b] = Both(WorkCap)]
    /\ UNCHANGED <<echo, data, events, ready, queued, delayed, delayedBySlot, sendVars>>

(* No block could be bound.                                                *)
AllocateFails(c, k) ==
    /\ CanAllocate(c)
    /\ k > 0 \/ Reclaimed = <<>>
    /\ TryBlocks(k)
    /\ UNCHANGED <<echo, sessionVars, readVars, sendVars>>

(* Mutant: datagrams for the old target stay queued.                       *)
ConnectKeepingPending(b, n) ==
    /\ session[b] # NoSession
    /\ peer' = [peer EXCEPT ![b] = n]
    /\ UNCHANGED <<portVars, session, gen, lastGen, readVars, sendVars>>

(* A new target empties the send queues of both sockets; their entries in  *)
(* pendingTokens stay.                                                     *)
EmptyQueues(b) == pending' = [pending EXCEPT ![b] = Both(<<>>)]
Connect(b, n) ==
    /\ session[b] # NoSession
    /\ peer' = [peer EXCEPT ![b] = n]
    /\ IF peer[b] \in {0, n} THEN UNCHANGED pending ELSE EmptyQueues(b)
    /\ UNCHANGED <<portVars, session, gen, lastGen, readVars, pendingTokens, pendingQueued>>

(* Connecting a socket to the new target fails: the queues are already     *)
(* emptied, the target stays.                                              *)
ConnectFails(b) ==
    /\ session[b] # NoSession /\ peer[b] # 0
    /\ EmptyQueues(b)
    /\ UNCHANGED <<portVars, sessionVars, readVars, pendingTokens, pendingQueued>>

(* Mutant: the suspension of a socket outlives its session.                *)
ForgetKeepingSuspension(b) ==
    /\ queued' = [queued EXCEPT ![b] = Both(0)]
    /\ pendingQueued' = [pendingQueued EXCEPT ![b] = Both(0)]
    /\ UNCHANGED <<delayed, delayedBySlot>>

(* The queue marks of the slot are cleared and its suspensions removed;    *)
(* tokens in ready and pendingTokens stay and are found stale later.       *)
ForgetSchedule(b) ==
    /\ queued' = [queued EXCEPT ![b] = Both(0)]
    /\ pendingQueued' = [pendingQueued EXCEPT ![b] = Both(0)]
    /\ delayed' = {t \in delayed : t.block # b}
    /\ delayedBySlot' = [delayedBySlot EXCEPT ![b] = Both(0)]

(* Mutant: a released block is free at once.                               *)
ReleaseBlockAtOnce(b) == free' = Append(free, b) /\ UNCHANGED retired

ReleaseBlock(b) == retired' = retired \o Retire(<<b>>) /\ UNCHANGED free

(* Release closes the sockets of the session: unread datagrams and their   *)
(* readiness go with them.                                                 *)
Release(b) ==
    /\ session[b] # NoSession
    /\ session' = [session EXCEPT ![b] = NoSession]
    /\ ForgetSchedule(b)
    /\ ReleaseBlock(b)
    /\ echo' = [echo EXCEPT ![b] = ReuseDelay]
    /\ data' = [data EXCEPT ![b] = Both(0)]
    /\ events' = {t \in events : t.block # b}
    /\ pending' = [pending EXCEPT ![b] = Both(<<>>)]
    /\ UNCHANGED <<gen, lastGen, peer, work, ready, pendingTokens>>

(* Reading the statistics also reclaims.                                   *)
ReadStats ==
    /\ free' = Reclaimed /\ retired' = Quarantined
    /\ UNCHANGED <<echo, sessionVars, readVars, sendVars>>

-----------------------------------------------------------------------------
(* The kernel and the clock.                                               *)

Registered(b, s) == session[b] # NoSession /\ delayedBySlot[b][s] = 0

(* A datagram arrives; a registered socket gets a readiness edge.          *)
Arrive(b, s) ==
    /\ session[b] # NoSession
    /\ data[b][s] < MaxData
    /\ data' = [data EXCEPT ![b][s] = @ + 1]
    /\ events' = IF Registered(b, s) THEN events \cup {TokenOf(b, s)} ELSE events
    /\ UNCHANGED <<portVars, sessionVars, work, ready, queued, delayed, delayedBySlot, sendVars>>

Tick ==
    /\ retired' = [i \in DOMAIN retired |->
                     [retired[i] EXCEPT !.left = IF @ = 0 THEN 0 ELSE @ - 1]]
    /\ echo' = [b \in Blocks |-> IF echo[b] = 0 THEN 0 ELSE echo[b] - 1]
    /\ UNCHANGED <<free, sessionVars, readVars, sendVars>>

(* Mutant: the bucket grows beyond its burst.                              *)
RefillBeyond(b, s) ==
    /\ session[b] # NoSession /\ work[b][s] <= WorkCap
    /\ work' = [work EXCEPT ![b][s] = @ + 1]
    /\ UNCHANGED <<portVars, sessionVars, data, events, ready, queued, delayed, delayedBySlot,
                   sendVars>>

Refill(b, s) ==
    /\ session[b] # NoSession /\ work[b][s] < WorkCap
    /\ work' = [work EXCEPT ![b][s] = @ + 1]
    /\ UNCHANGED <<portVars, sessionVars, data, events, ready, queued, delayed, delayedBySlot,
                   sendVars>>

-----------------------------------------------------------------------------
(* The event loop.                                                         *)

(* poll: an edge of a socket that is already scheduled is dropped.         *)
Poll(t) ==
    /\ t \in events
    /\ events' = events \ {t}
    /\ IF Current(t) /\ queued[t.block][t.side] # t.gen
         THEN /\ queued' = [queued EXCEPT ![t.block][t.side] = t.gen]
              /\ ready' = Append(ready, t)
         ELSE UNCHANGED <<queued, ready>>
    /\ UNCHANGED <<portVars, sessionVars, data, work, delayed, delayedBySlot, sendVars>>

(* Forwarding on the other socket of the block: m of the datagrams read    *)
(* find it blocked, or others waiting, and are queued behind them.         *)
Forward(b, s, m) ==
    LET o == Other(s)
    IN  /\ m > 0 => peer[b] # 0
        /\ Len(pending[b][o]) + m <= SendQueueCap
        /\ pending' = [pending EXCEPT ![b][o] = @ \o [i \in 1..m |-> peer[b]]]
        /\ IF m > 0 /\ pendingQueued[b][o] # gen[b]
             THEN /\ pendingQueued' = [pendingQueued EXCEPT ![b][o] = gen[b]]
                  /\ pendingTokens' = Append(pendingTokens, TokenOf(b, o))
             ELSE UNCHANGED <<pendingQueued, pendingTokens>>

(* receive serves the head of ready: n datagrams are read and u units of   *)
(* allowance used, one per datagram and one per failing call.              *)
Reading == Head(ready)
Read(n, m, u) ==
    LET b == Reading.block
        s == Reading.side
    IN  /\ ready # <<>> /\ Current(Reading)
        /\ m <= n /\ n <= data[b][s] /\ n <= PacketsPerTurn
        /\ n <= u /\ u <= work[b][s]
        /\ Forward(b, s, m)
        /\ data' = [data EXCEPT ![b][s] = @ - n]
        /\ work' = [work EXCEPT ![b][s] = @ - u]
        /\ UNCHANGED <<portVars, sessionVars>>
UsesUp(u) == work[Reading.block][Reading.side] = u

ClearMark == queued' = [queued EXCEPT ![Reading.block][Reading.side] = 0]

(* Mutant: a turn that read fewer datagrams than it could counts as        *)
(* drained.                                                                *)
ReadShort(n, m, u) ==
    /\ Read(n, m, u) /\ ~UsesUp(u)
    /\ n < PacketsPerTurn
    /\ ready' = Tail(ready) /\ ClearMark
    /\ UNCHANGED <<events, delayed, delayedBySlot>>

(* Drained: the kernel said that nothing is left; the mark is cleared.     *)
ReadDrained(n, m, u) ==
    /\ Read(n, m, u) /\ ~UsesUp(u)
    /\ n < PacketsPerTurn
    /\ data'[Reading.block][Reading.side] = 0
    /\ ready' = Tail(ready) /\ ClearMark
    /\ UNCHANGED <<events, delayed, delayedBySlot>>

(* Ready: the turn ended, by its datagrams or by calls that failed or were *)
(* interrupted, before the socket was drained.                             *)
ReadMore(n, m, u) ==
    /\ Read(n, m, u) /\ ~UsesUp(0)
    /\ ready' = Append(Tail(ready), Reading)
    /\ UNCHANGED <<events, queued, delayed, delayedBySlot>>

(* Deferred: the allowance is used up; the socket is taken out of poll and *)
(* its mark stays, so that no edge puts it back early.                     *)
ReadDeferred(n, m, u) ==
    /\ Read(n, m, u) /\ UsesUp(u)
    /\ n < PacketsPerTurn
    /\ ready' = Tail(ready)
    /\ events' = events \ {Reading}
    /\ delayed' = delayed \cup {Reading}
    /\ delayedBySlot' = [delayedBySlot EXCEPT ![Reading.block][Reading.side] = Reading.gen]
    /\ UNCHANGED queued

(* Mutant: a stale token clears the mark of the session that follows.      *)
ReadStaleClearing ==
    /\ ready # <<>> /\ ~Current(Reading)
    /\ ready' = Tail(ready) /\ ClearMark
    /\ UNCHANGED <<portVars, sessionVars, data, events, work, delayed, delayedBySlot, sendVars>>

(* A token of a released session is drained at once; the mark is cleared   *)
(* only if it is its own.                                                  *)
ReadStale ==
    /\ ready # <<>> /\ ~Current(Reading)
    /\ ready' = Tail(ready)
    /\ queued' = [queued EXCEPT ![Reading.block][Reading.side] =
                     IF @ = Reading.gen THEN 0 ELSE @]
    /\ UNCHANGED <<portVars, sessionVars, data, events, work, delayed, delayedBySlot, sendVars>>

(* resume_reads: registered again (an edge if datagrams are waiting) and   *)
(* read actively.                                                          *)
Resume(t) ==
    /\ t \in delayed
    /\ Current(t) => work[t.block][t.side] > 0
    /\ delayed' = delayed \ {t}
    /\ IF delayedBySlot[t.block][t.side] = t.gen
         THEN /\ delayedBySlot' = [delayedBySlot EXCEPT ![t.block][t.side] = 0]
              /\ events' = IF Current(t) /\ data[t.block][t.side] > 0
                             THEN events \cup {t} ELSE events
              /\ ready' = IF Current(t) /\ queued[t.block][t.side] = t.gen
                            THEN Append(ready, t) ELSE ready
         ELSE UNCHANGED <<delayedBySlot, events, ready>>
    /\ UNCHANGED <<portVars, sessionVars, data, work, queued, sendVars>>

(* flush_pending serves the head of pendingTokens: n of its datagrams are  *)
(* sent, expire or fail; the socket stays listed while some are left.      *)
Sending == Head(pendingTokens)
Flush(n) ==
    LET b == Sending.block
        s == Sending.side
        left == SubSeq(pending[b][s], n + 1, Len(pending[b][s]))
    IN  /\ pendingTokens # <<>> /\ Current(Sending)
        /\ n <= Len(pending[b][s])
        /\ pending' = [pending EXCEPT ![b][s] = left]
        /\ IF left = <<>>
             THEN /\ pendingQueued' = [pendingQueued EXCEPT ![b][s] = 0]
                  /\ pendingTokens' = Tail(pendingTokens)
             ELSE /\ pendingTokens' = Append(Tail(pendingTokens), Sending)
                  /\ UNCHANGED pendingQueued
        /\ UNCHANGED <<portVars, sessionVars, readVars>>

(* Mutant: a stale token clears the mark of the session that follows.      *)
FlushStaleClearing ==
    /\ pendingTokens # <<>> /\ ~Current(Sending)
    /\ pendingTokens' = Tail(pendingTokens)
    /\ pendingQueued' = [pendingQueued EXCEPT ![Sending.block][Sending.side] = 0]
    /\ UNCHANGED <<portVars, sessionVars, readVars, pending>>

FlushStale ==
    /\ pendingTokens # <<>> /\ ~Current(Sending)
    /\ pendingTokens' = Tail(pendingTokens)
    /\ UNCHANGED <<portVars, sessionVars, readVars, pending, pendingQueued>>

-----------------------------------------------------------------------------
Command ==
    \/ \E c \in Sessions, k \in 0..NumBlocks : Allocate(c, k) \/ AllocateFails(c, k)
    \/ \E b \in Blocks :
          \/ Release(b) \/ ConnectFails(b)
          \/ \E n \in 1..MaxTargets : Connect(b, n)
    \/ ReadStats

Kernel == Tick \/ \E b \in Blocks, s \in Sides : Arrive(b, s) \/ Refill(b, s)

Receive ==
    \/ ReadStale
    \/ \E n \in 0..MaxData, u \in 0..WorkCap : \E m \in 0..n :
          ReadDrained(n, m, u) \/ ReadMore(n, m, u) \/ ReadDeferred(n, m, u)

Work ==
    \/ \E t \in events : Poll(t)
    \/ Receive
    \/ \E t \in delayed : Resume(t)
    \/ FlushStale
    \/ \E n \in 0..SendQueueCap : Flush(n)

Next == Command \/ Kernel \/ Work

Spec == Init /\ [][Next]_vars

-----------------------------------------------------------------------------
(* Properties.                                                             *)

(* Every variable has its type.                                            *)
TypeOK ==
    /\ free \in Seq(Blocks)
    /\ retired \in Seq([block : Blocks, left : 0..ReuseDelay])
    /\ echo \in [Blocks -> 0..ReuseDelay]
    /\ session \in [Blocks -> Sessions \cup {NoSession}]
    /\ gen \in [Blocks -> Generations] /\ lastGen \in Generations
    /\ peer \in [Blocks -> 0..MaxTargets]
    /\ data \in [Blocks -> [Sides -> 0..MaxData]]
    /\ work \in [Blocks -> [Sides -> 0..WorkCap]]
    /\ events \subseteq Token /\ ready \in Seq(Token) /\ delayed \subseteq Token
    /\ queued \in [Blocks -> [Sides -> Generations]]
    /\ delayedBySlot \in [Blocks -> [Sides -> Generations]]
    /\ pending \in [Blocks -> [Sides -> Seq(0..MaxTargets)]]
    /\ pendingTokens \in Seq(Token)
    /\ pendingQueued \in [Blocks -> [Sides -> Generations]]

(* No error path loses a port block or has it twice: each is free, in      *)
(* quarantine or held by one session, exactly once.                        *)
Places(b) ==
    Cardinality({i \in DOMAIN free : free[i] = b})
    + Cardinality({i \in DOMAIN retired : retired[i].block = b})
    + (IF session[b] # NoSession THEN 1 ELSE 0)
BlocksAccounted == \A b \in Blocks : Places(b) = 1

(* A session never gets a block on which datagrams for an earlier session  *)
(* can still arrive.                                                       *)
QuarantineHolds == \A b \in Open : echo[b] = 0

(* Readiness is edge-triggered and no edge comes twice, so a socket with   *)
(* unread datagrams is scheduled, suspended, or has an edge on its way     *)
(* that will schedule it: reuse of a slot never silences a session.        *)
Scheduled(t) == t \in delayed \/ \E i \in DOMAIN ready : ready[i] = t
ReadinessKept ==
    \A b \in Open, s \in Sides : data[b][s] > 0 =>
        \/ Scheduled(TokenOf(b, s))
        \/ TokenOf(b, s) \in events /\ queued[b][s] # gen[b]

(* A socket is scheduled at most once, in ready or suspended, so no socket *)
(* takes more than its share of a turn and the queues stay bounded.        *)
Occurrences(t) ==
    Cardinality({i \in DOMAIN ready : ready[i] = t}) + (IF t \in delayed THEN 1 ELSE 0)
ScheduledOnce == \A i \in DOMAIN ready : Occurrences(ready[i]) = 1

(* Suspended sockets are exactly those marked in delayed_by_slot, and all  *)
(* belong to open sessions: a socket taken out of poll always comes back.  *)
SuspensionsResume ==
    delayed = {t \in Token : /\ t.block \in Open /\ t.gen # 0
                             /\ delayedBySlot[t.block][t.side] = t.gen}

(* Datagrams waiting to be sent are never forgotten: their socket is       *)
(* listed for retry, once.                                                 *)
WaitingIsListed ==
    \A b \in Open, s \in Sides :
        LET n == Cardinality({i \in DOMAIN pendingTokens : pendingTokens[i] = TokenOf(b, s)})
        IN  n <= 1 /\ (pending[b][s] # <<>> => n = 1)

(* Nothing queued before leg B moved is sent after it moved.               *)
WaitingForCurrentTarget ==
    \A b \in Open, s \in Sides : \A i \in DOMAIN pending[b][s] : pending[b][s][i] = peer[b]
=============================================================================
