--------------------------- MODULE OwnershipProofs ---------------------------
(***************************************************************************)
(* Who owns the ports of a media process, proved for every number of calls *)
(* and workers and every capacity: open ports are paid for, a worker is    *)
(* never over-committed, the teardown of an ended call is always driven by *)
(* something, the newest far-end target is installed when no connect is    *)
(* outstanding, and the whole protocol implements MediaQuota.              *)
(*                                                                         *)
(* All of it rests on one fact that no handler states: of each call the    *)
(* pool and the result channel hold at most one allocation and at most one *)
(* release, and of a live call at most one connect, and the flags of the   *)
(* call say which.  A result may come after workerFailed took the flags    *)
(* back; its call is then Gone, so that no command of it is ever queued    *)
(* again.                                                                  *)
(***************************************************************************)
EXTENDS CallMediaProofs

USE PoolAssumption, CallAssumption

-----------------------------------------------------------------------------
(* The commands and the results of one call.                               *)

Is(x, op, c) == x.op = op /\ x.call = c
Items(q, op, c) == {q[i] : i \in {k \in 1..Len(q) : Is(q[k], op, c)}}
Single(q, op, c) ==
    \A i, k \in 1..Len(q) : Is(q[i], op, c) /\ Is(q[k], op, c) => i = k

Queue(c, op) == IF op = "allocate" THEN jobs[worker[c]] ELSE urgent[worker[c]]
Queued(c, op) == Items(Queue(c, op), op, c)
Replied(c, op) == Items(results, op, c)

(* At most one command of this kind is anywhere between the call and the   *)
(* handler of its result.                                                  *)
One(c, op) ==
    /\ Single(Queue(c, op), op, c)
    /\ Single(results, op, c)
    /\ Queued(c, op) = {} \/ Replied(c, op) = {}

(* The process that c was placed on has ended and its queues are empty for *)
(* good.                                                                   *)
Quiet(w) == status[w] \in {"draining", "waiting"} /\ jobs[w] = <<>> /\ urgent[w] = <<>>
Gone(c) == gen[worker[c]] > generation[c] \/ Quiet(worker[c])

-----------------------------------------------------------------------------
(* The inductive invariant, what holds of the pool.                        *)

OwnJob(w) == {j \in Job : j.call \in used /\ worker[j.call] = w /\ generation[j.call] = j.gen}
UsedResult == {r \in Result : r.call \in used}
ItemsOwned ==
    /\ \A w \in Workers : jobs[w] \in Seq({j \in OwnJob(w) : j.op = "allocate"})
    /\ \A w \in Workers : urgent[w] \in Seq({j \in OwnJob(w) : j.op # "allocate"})
    /\ results \in Seq(UsedResult)

SessionsOwned ==
    /\ \A w \in Workers : \A c \in sessions[w] :
          c \in used /\ worker[c] = w /\ generation[c] = gen[w]
    /\ \A w \in Workers : status[w] \in {"draining", "waiting"} => sessions[w] = {}

(* A failure is reported once the queues are empty, and is acted upon      *)
(* possibly after the next generation has started.                         *)
Past(f) == f.gen < gen[f.worker] \/ (f.gen = gen[f.worker] /\ Quiet(f.worker))
FailuresPast == \A i \in 1..Len(failures) : Past(failures[i])

NeverAhead == \A c \in Calls : generation[c] <= gen[worker[c]]
LoadsLimited == \A w \in Workers : workerLoads[w] <= MaxCalls

PoolInv == ItemsOwned /\ SessionsOwned /\ FailuresPast /\ NeverAhead /\ LoadsLimited

-----------------------------------------------------------------------------
(* The inductive invariant, what holds of each call.                       *)

FlagsAgree(c) ==
    /\ c \in reserved <=> c \in pending \/ c \in allocated
    /\ ~(c \in pending /\ c \in allocated)
    /\ c \in releasing => c \in allocated /\ c \in ended
    /\ c \in reserved => c \in known
    /\ c \in ended /\ c \in allocated => c \in releasing \/ c \in retry

AllocationTracked(c) ==
    /\ One(c, "allocate")
    /\ Queued(c, "allocate") # {} => c \in pending
    /\ Replied(c, "allocate") # {} =>
          c \in pending \/ (Gone(c) /\ c \notin reserved /\ c \in ended)
    /\ c \in pending => Queued(c, "allocate") # {} \/ Replied(c, "allocate") # {}

ReleaseTracked(c) ==
    /\ One(c, "release")
    /\ Queued(c, "release") # {} => c \in releasing
    /\ Replied(c, "release") # {} => c \in releasing \/ (Gone(c) /\ c \notin reserved)
    /\ c \in releasing => Queued(c, "release") # {} \/ Replied(c, "release") # {}

PortsOpen(c) == status[worker[c]] = "serving" /\ c \in sessions[worker[c]]
PortsTracked(c) ==
    PortsOpen(c) =>
        /\ c \in reserved
        /\ Queued(c, "allocate") = {} /\ Replied(c, "release") = {}
        /\ \A r \in Replied(c, "allocate") : r.ok

ConnectTracked(c) ==
    c \in known \ ended =>
        /\ One(c, "connect")
        /\ connectInFlight[c] = 0 =>
              /\ connectQueued[c] = 0 /\ target[c] = connectVersion[c]
              /\ Queued(c, "connect") = {} /\ Replied(c, "connect") = {}
        /\ \A j \in Queued(c, "connect") : j.ver = connectInFlight[c]
        /\ \A r \in Replied(c, "connect") :
              r.ver = connectInFlight[c] /\ (r.ok => target[c] = connectInFlight[c])
        /\ connectQueued[c] # 0 => connectQueued[c] = connectVersion[c]
        /\ connectQueued[c] = 0 /\ connectInFlight[c] # 0 =>
              connectInFlight[c] = connectVersion[c]

Untouched(c) ==
    c \notin used => /\ target[c] = 0 /\ connectVersion[c] = 0
                     /\ connectInFlight[c] = 0 /\ connectQueued[c] = 0

Tracked(c) ==
    /\ FlagsAgree(c) /\ AllocationTracked(c) /\ ReleaseTracked(c)
    /\ PortsTracked(c) /\ ConnectTracked(c) /\ Untouched(c)

Ground == IInv /\ QueuesFollowProcess
OInv == Ground /\ PoolInv /\ \A c \in Calls : Tracked(c)

-----------------------------------------------------------------------------
(* Sequences: what adding and taking an item does to the items of a call.  *)

LEMMA AppendItems ==
    ASSUME NEW S, NEW q \in Seq(S), NEW x \in S, NEW op, NEW c
    PROVE  /\ ~Is(x, op, c) => Items(Append(q, x), op, c) = Items(q, op, c)
           /\ ~Is(x, op, c) => (Single(Append(q, x), op, c) <=> Single(q, op, c))
           /\ Is(x, op, c) /\ Items(q, op, c) = {} =>
                 Items(Append(q, x), op, c) = {x} /\ Single(Append(q, x), op, c)
<1> DEFINE p == Append(q, x)
           n == Len(q)
<1>1. /\ n \in Nat /\ Len(p) = n + 1
      /\ \A i \in 1..n : p[i] = q[i]
      /\ p[n + 1] = x
  BY AppendProperties, LenProperties
<1> HIDE DEF p, n
<1>2. 1..(n + 1) = (1..n) \cup {n + 1} /\ n + 1 \notin 1..n
  BY <1>1
<1>3. ASSUME ~Is(x, op, c) PROVE Items(p, op, c) = Items(q, op, c)
  BY <1>1, <1>2, <1>3 DEF Items, n
<1>4. ASSUME ~Is(x, op, c) PROVE Single(p, op, c) <=> Single(q, op, c)
  BY <1>1, <1>2, <1>4 DEF Single, n
<1>5. ASSUME Is(x, op, c), Items(q, op, c) = {}
      PROVE  Items(p, op, c) = {x} /\ Single(p, op, c)
  <2>1. \A i \in 1..n : ~Is(q[i], op, c)
    BY <1>5 DEF Items, n
  <2>2. QED
    BY <1>1, <1>2, <1>5, <2>1 DEF Items, Single
<1>6. QED
  BY <1>3, <1>4, <1>5 DEF p

LEMMA TailItems ==
    ASSUME NEW S, NEW q \in Seq(S), q # <<>>, NEW op, NEW c
    PROVE  /\ ~Is(Head(q), op, c) => Items(Tail(q), op, c) = Items(q, op, c)
           /\ Single(q, op, c) => Single(Tail(q), op, c)
           /\ Is(Head(q), op, c) => Head(q) \in Items(q, op, c)
           /\ Is(Head(q), op, c) /\ Single(q, op, c) => Items(Tail(q), op, c) = {}
<1> DEFINE p == Tail(q)
           n == Len(q)
<1>1. /\ n \in Nat /\ n >= 1 /\ Len(p) = n - 1
      /\ \A i \in 1..(n - 1) : p[i] = q[i + 1]
      /\ Head(q) = q[1]
  BY HeadTailProperties, LenProperties, EmptySeq
<1> HIDE DEF p, n
<1>2. /\ \A i \in 1..(n - 1) : i + 1 \in 1..n
      /\ \A i \in 1..n : i # 1 => i - 1 \in 1..(n - 1) /\ (i - 1) + 1 = i
      /\ 1 \in 1..n
  BY <1>1
<1>3. ASSUME ~Is(Head(q), op, c) PROVE Items(p, op, c) = Items(q, op, c)
  <2>1. Items(p, op, c) \subseteq Items(q, op, c)
    BY <1>1, <1>2 DEF Items, n
  <2>2. ASSUME NEW i \in 1..n, Is(q[i], op, c) PROVE q[i] \in Items(p, op, c)
    <3>1. i # 1
      BY <1>1, <1>3, <2>2
    <3>2. i - 1 \in 1..Len(p) /\ p[i - 1] = q[i]
      BY <1>1, <1>2, <3>1
    <3>3. QED
      BY <2>2, <3>2 DEF Items
  <2>3. QED
    BY <2>1, <2>2 DEF Items, n
<1>4. ASSUME Single(q, op, c) PROVE Single(p, op, c)
  BY <1>1, <1>2, <1>4 DEF Single, n
<1>5. ASSUME Is(Head(q), op, c) PROVE Head(q) \in Items(q, op, c)
  BY <1>1, <1>2, <1>5 DEF Items, n
<1>6. ASSUME Is(Head(q), op, c), Single(q, op, c) PROVE Items(p, op, c) = {}
  <2>1. ASSUME NEW i \in 1..(n - 1) PROVE ~Is(p[i], op, c)
    BY <1>1, <1>2, <1>6 DEF Single, n
  <2>2. QED
    BY <1>1, <2>1 DEF Items
<1>7. QED
  BY <1>3, <1>4, <1>5, <1>6 DEF p

(* The same for a queue that the step may as well leave alone.             *)
LEMMA AppendOrSame ==
    ASSUME NEW S, NEW q \in Seq(S), NEW x \in S, NEW op, NEW c, NEW p,
           p = Append(q, x) \/ (~Is(x, op, c) /\ p = q)
    PROVE  /\ ~Is(x, op, c) => Items(p, op, c) = Items(q, op, c)
           /\ ~Is(x, op, c) => (Single(p, op, c) <=> Single(q, op, c))
           /\ Is(x, op, c) /\ Items(q, op, c) = {} =>
                 Items(p, op, c) = {x} /\ Single(p, op, c)
<1>1. CASE p = Append(q, x)
  BY <1>1, AppendItems
<1>2. CASE ~Is(x, op, c) /\ p = q
  BY <1>2
<1>3. QED
  BY <1>1, <1>2

LEMMA TailOrSame ==
    ASSUME NEW S, NEW q \in Seq(S), NEW x, NEW op, NEW c, NEW p,
           (q # <<>> /\ x = Head(q) /\ p = Tail(q)) \/ (~Is(x, op, c) /\ p = q)
    PROVE  /\ ~Is(x, op, c) => Items(p, op, c) = Items(q, op, c)
           /\ Single(q, op, c) => Single(p, op, c)
           /\ Is(x, op, c) => x \in Items(q, op, c)
           /\ Is(x, op, c) /\ Single(q, op, c) => Items(p, op, c) = {}
<1>1. CASE q # <<>> /\ x = Head(q) /\ p = Tail(q)
  BY <1>1, TailItems
<1>2. CASE ~Is(x, op, c) /\ p = q
  BY <1>2
<1>3. QED
  BY <1>1, <1>2

LEMMA ItemsOfSeq ==
    ASSUME NEW S, NEW q \in Seq(S), NEW op, NEW c
    PROVE  Items(q, op, c) \subseteq {x \in S : Is(x, op, c)}
  BY ElementOfSeq, LenProperties DEF Items

LEMMA EmptyItems ==
    ASSUME NEW op, NEW c
    PROVE  Items(<<>>, op, c) = {} /\ Single(<<>>, op, c)
  BY EmptySeq DEF Items, Single

-----------------------------------------------------------------------------
(* The three ways a command travels, seen from the items of one call: a    *)
(* handler queues it, the pool answers it, and the call loop receives the  *)
(* answer.                                                                 *)

SameItems(c, op) ==
    /\ Queued(c, op)' = Queued(c, op)
    /\ Replied(c, op)' = Replied(c, op)
    /\ One(c, op) => One(c, op)'

LEMMA ItemsKept ==
    ASSUME UNCHANGED <<worker, jobs, urgent, results>>, NEW c, NEW op
    PROVE  SameItems(c, op)
  BY DEF SameItems, One, Queued, Replied, Queue

LEMMA QueueTyped ==
    ASSUME Ground, NEW c \in Calls, NEW op
    PROVE  Queue(c, op) \in Seq(Job)
  BY DEF Ground, IInv, FlagsTyped, QueuesFollowProcess, Queue

LEMMA ResultsTyped ==
    ASSUME Ground
    PROVE  results \in Seq(Result) /\ results \in Seq(EndedResult)
<1>1. results \in Seq(EndedResult) /\ EndedResult \subseteq Result
  BY DEF Ground, IInv, ReleasesAreOfEnded, EndedResult
<1>2. QED
  BY <1>1, SeqMonotonic

(* The pool takes the command j of worker w.                               *)
Takes(w, j) ==
    \/ /\ jobs[w] # <<>> /\ j = Head(jobs[w])
       /\ jobs' = [jobs EXCEPT ![w] = Tail(@)] /\ UNCHANGED urgent
    \/ /\ urgent[w] # <<>> /\ j = Head(urgent[w])
       /\ urgent' = [urgent EXCEPT ![w] = Tail(@)] /\ UNCHANGED jobs

LEMMA TakenJob ==
    ASSUME Ground, PoolInv, NEW w \in Workers, NEW j, Takes(w, j)
    PROVE  /\ j \in Job /\ j.call \in used /\ j.call \in Calls /\ worker[j.call] = w
           /\ generation[j.call] = j.gen /\ j.gen = gen[w] /\ status[w] # "waiting"
           /\ (jobs[w] # <<>> \/ urgent[w] # <<>>)
           /\ jobs' # jobs => j.op = "allocate"
           /\ urgent' # urgent => j.op # "allocate"
<1>1. used \subseteq Calls
  BY DEF Ground, IInv, FlagsTyped
<1>2. CASE /\ jobs[w] # <<>> /\ j = Head(jobs[w])
           /\ jobs' = [jobs EXCEPT ![w] = Tail(@)] /\ UNCHANGED urgent
  <2>1. j \in CurrentJob(w) /\ status[w] # "waiting"
    BY <1>2, HeadTailProperties DEF Ground, QueuesFollowProcess
  <2>2. jobs[w] \in Seq({k \in OwnJob(w) : k.op = "allocate"})
    BY DEF PoolInv, ItemsOwned
  <2>3. j \in {k \in OwnJob(w) : k.op = "allocate"}
    BY <1>2, <2>2, HeadTailProperties
  <2>4. QED
    BY <1>1, <1>2, <2>1, <2>3 DEF CurrentJob, OwnJob
<1>3. CASE /\ urgent[w] # <<>> /\ j = Head(urgent[w])
           /\ urgent' = [urgent EXCEPT ![w] = Tail(@)] /\ UNCHANGED jobs
  <2>1. j \in CurrentJob(w) /\ status[w] # "waiting"
    BY <1>3, HeadTailProperties DEF Ground, QueuesFollowProcess
  <2>2. urgent[w] \in Seq({k \in OwnJob(w) : k.op # "allocate"})
    BY DEF PoolInv, ItemsOwned
  <2>3. j \in {k \in OwnJob(w) : k.op # "allocate"}
    BY <1>3, <2>2, HeadTailProperties
  <2>4. QED
    BY <1>1, <1>3, <2>1, <2>3 DEF CurrentJob, OwnJob
<1>4. QED
  BY <1>2, <1>3 DEF Takes

LEMMA TakenItems ==
    ASSUME Ground, PoolInv, NEW w \in Workers, NEW j, NEW ok \in BOOLEAN,
           Takes(w, j), Post(Reply(j, ok)), worker' = worker,
           NEW c \in Calls, NEW op \in Ops
    PROVE  /\ ~Is(j, op, c) => SameItems(c, op)
           /\ Is(j, op, c) /\ One(c, op) =>
                 /\ j \in Queued(c, op) /\ Replied(c, op) = {} /\ Queued(c, op)' = {}
                 /\ Replied(c, op)' = {Reply(j, ok)} /\ One(c, op)'
<1> DEFINE q == Queue(c, op)
           r == Reply(j, ok)
<1>1. q \in Seq(Job) /\ results \in Seq(Result)
  BY QueueTyped, ResultsTyped
<1>2. j \in Job /\ worker[j.call] = w /\ worker \in [Calls -> Workers]
  BY TakenJob DEF Ground, IInv, FlagsTyped
<1>3. r \in Result /\ (Is(r, op, c) <=> Is(j, op, c))
  BY <1>2 DEF Job, Result, Reply, Is
<1>4. \/ q # <<>> /\ j = Head(q) /\ q' = Tail(q)
      \/ ~Is(j, op, c) /\ q' = q
  <2>1. CASE /\ jobs[w] # <<>> /\ j = Head(jobs[w]) /\ j.op = "allocate"
             /\ jobs' = [jobs EXCEPT ![w] = Tail(@)] /\ UNCHANGED urgent
    BY <1>2, <2>1 DEF Queue, Is, Ground, QueuesFollowProcess
  <2>2. CASE /\ urgent[w] # <<>> /\ j = Head(urgent[w]) /\ j.op # "allocate"
             /\ urgent' = [urgent EXCEPT ![w] = Tail(@)] /\ UNCHANGED jobs
    BY <1>2, <2>2 DEF Queue, Is, Ground, QueuesFollowProcess
  <2>3. jobs' # jobs \/ urgent' # urgent
    <3>1. \A v \in Workers : jobs[v] # <<>> => Tail(jobs[v]) # jobs[v]
      BY HeadTailProperties, LenProperties DEF Ground, QueuesFollowProcess
    <3>2. \A v \in Workers : urgent[v] # <<>> => Tail(urgent[v]) # urgent[v]
      BY HeadTailProperties, LenProperties DEF Ground, QueuesFollowProcess
    <3>3. QED
      BY <3>1, <3>2 DEF Takes, Ground, QueuesFollowProcess
  <2>4. QED
    BY <2>1, <2>2, <2>3, TakenJob DEF Takes
<1>5. results' = Append(results, r)
  BY DEF Post
<1> HIDE DEF q, r
<1>6. ASSUME ~Is(j, op, c) PROVE SameItems(c, op)
  <2>1. Items(q', op, c) = Items(q, op, c) /\ (Single(q, op, c) => Single(q', op, c))
    BY <1>1, <1>4, <1>6, TailOrSame
  <2>2. /\ Items(results', op, c) = Items(results, op, c)
        /\ Single(results, op, c) => Single(results', op, c)
    BY <1>1, <1>3, <1>5, <1>6, AppendItems
  <2>3. QED
    BY <2>1, <2>2 DEF SameItems, One, Queued, Replied, q
<1>7. ASSUME Is(j, op, c), One(c, op)
      PROVE  /\ j \in Queued(c, op) /\ Replied(c, op) = {} /\ Queued(c, op)' = {}
             /\ Replied(c, op)' = {r} /\ One(c, op)'
  <2>1. Single(q, op, c) /\ (Items(q, op, c) = {} \/ Items(results, op, c) = {})
    BY <1>7 DEF One, Queued, Replied, q
  <2>2. j \in Items(q, op, c) /\ Items(q', op, c) = {} /\ Single(q', op, c)
    BY <1>1, <1>4, <1>7, <2>1, TailOrSame, ZenonT(40)
  <2>3. Items(results, op, c) = {}
    BY <2>1, <2>2
  <2>4. Items(results', op, c) = {r} /\ Single(results', op, c)
    BY <1>1, <1>3, <1>5, <1>7, <2>3, AppendItems
  <2>5. QED
    BY <2>2, <2>3, <2>4 DEF One, Queued, Replied, q
<1>8. QED
  BY <1>6, <1>7 DEF r

(* A command j of the call d joins the urgent queue of its worker.         *)
LEMMA QueuedUrgent ==
    ASSUME Ground, NEW d \in Calls, NEW j \in Job, j.call = d, j.op # "allocate",
           urgent' = [urgent EXCEPT ![worker[d]] = Append(@, j)],
           UNCHANGED <<worker, jobs>>, NEW c \in Calls, NEW op \in Ops
    PROVE  /\ ~Is(j, op, c) =>
                 Queued(c, op)' = Queued(c, op) /\ (Single(Queue(c, op), op, c) <=> Single(Queue(c, op)', op, c))
           /\ Is(j, op, c) /\ Queued(c, op) = {} =>
                 Queued(c, op)' = {j} /\ Single(Queue(c, op)', op, c)
<1> DEFINE q == Queue(c, op)
<1>1. q \in Seq(Job) /\ worker \in [Calls -> Workers] /\ urgent \in [Workers -> Seq(Job)]
  BY QueueTyped DEF Ground, IInv, FlagsTyped, QueuesFollowProcess
<1>2. \/ q' = Append(q, j)
      \/ ~Is(j, op, c) /\ q' = q
  BY <1>1 DEF Queue, Is
<1> HIDE DEF q
<1>3. /\ ~Is(j, op, c) => /\ Items(q', op, c) = Items(q, op, c)
                          /\ Single(q', op, c) <=> Single(q, op, c)
      /\ Is(j, op, c) /\ Items(q, op, c) = {} => Items(q', op, c) = {j} /\ Single(q', op, c)
  BY <1>1, <1>2, AppendOrSame
<1>4. QED
  BY <1>3 DEF Queued, q

LEMMA QueuedUrgentKeeps ==
    ASSUME Ground, NEW d \in Calls, NEW j \in Job, j.call = d, j.op # "allocate",
           urgent' = [urgent EXCEPT ![worker[d]] = Append(@, j)],
           UNCHANGED <<worker, jobs>>, NEW op \in Ops, ~Is(j, op, d)
    PROVE  /\ Queued(d, op)' = Queued(d, op)
           /\ Single(Queue(d, op), op, d) => Single(Queue(d, op)', op, d)
<1>1. d \in Calls /\ \A c \in Calls : c = d => ~Is(j, op, c)
  OBVIOUS
<1>2. \A c \in Calls : c = d =>
         /\ Queued(c, op)' = Queued(c, op)
         /\ Single(Queue(c, op), op, c) <=> Single(Queue(c, op)', op, c)
  BY <1>1, QueuedUrgent
<1>3. QED
  BY <1>1, <1>2

(* The call loop receives the answer at the head of the results.           *)
LEMMA ReceivedItems ==
    ASSUME Ground, results # <<>>, results' = Tail(results), NEW c, NEW op
    PROVE  /\ ~Is(Head(results), op, c) => Replied(c, op)' = Replied(c, op)
           /\ Single(results, op, c) => Single(results', op, c)
           /\ Is(Head(results), op, c) => Head(results) \in Replied(c, op)
           /\ Is(Head(results), op, c) /\ Single(results, op, c) => Replied(c, op)' = {}
  BY ResultsTyped, TailItems DEF Replied

-----------------------------------------------------------------------------
(* A call that a step does not work on.                                    *)

SameFlags(c) ==
    /\ c \in reserved' <=> c \in reserved
    /\ c \in pending' <=> c \in pending
    /\ c \in allocated' <=> c \in allocated
    /\ c \in releasing' <=> c \in releasing
    /\ c \in ended' <=> c \in ended
    /\ c \in retry => c \in retry'
    /\ c \in known' => c \in known
    /\ c \in known => c \in known' \/ c \notin reserved

SameTarget(c) ==
    /\ c \in used => c \in used'
    /\ target'[c] = target[c] /\ connectVersion'[c] = connectVersion[c]
    /\ connectInFlight'[c] = connectInFlight[c] /\ connectQueued'[c] = connectQueued[c]

(* What only moves forward: the generations, and a quiet worker until its  *)
(* next generation.                                                        *)
QuietStays ==
    \A w \in Workers : /\ gen'[w] >= gen[w]
                       /\ Quiet(w) => Quiet(w)' \/ gen'[w] > gen[w]

LEMMA GoneStays ==
    ASSUME Ground, Ground', NeverAhead, QuietStays, NEW c \in Calls,
           worker'[c] = worker[c], generation'[c] = generation[c]
    PROVE  Gone(c) => Gone(c)'
<1>1. /\ worker[c] \in Workers /\ generation[c] \in Int
      /\ gen[worker[c]] \in Int /\ gen'[worker[c]] \in Int
  BY DEF Ground, IInv, FlagsTyped, ProcessTyped, Generations
<1>2. generation[c] <= gen[worker[c]]
  BY DEF NeverAhead
<1>3. QED
  BY <1>1, <1>2 DEF QuietStays, Gone

LEMMA PastStays ==
    ASSUME Ground, Ground', QuietStays, NEW f \in Failure, Past(f)
    PROVE  Past(f)'
<1>1. /\ f.worker \in Workers /\ f.gen \in Int
      /\ gen[f.worker] \in Int /\ gen'[f.worker] \in Int
  BY DEF Ground, IInv, ProcessTyped, Failure, Generations
<1>2. QED
  BY <1>1 DEF QuietStays, Past

(* Ports in service are of a process that still runs the generation of     *)
(* their call.                                                             *)
LEMMA OpenIsNotGone ==
    ASSUME Ground, PoolInv, NEW c \in Calls, PortsOpen(c)
    PROVE  ~Gone(c) /\ ~GenerationGone(c)
<1>1. worker[c] \in Workers /\ gen[worker[c]] \in Int /\ generation[c] = gen[worker[c]]
  BY DEF Ground, IInv, FlagsTyped, ProcessTyped, Generations, PoolInv, SessionsOwned, PortsOpen
<1>2. QED
  BY <1>1 DEF PortsOpen, Gone, Quiet, GenerationGone, Healthy

LEMMA TearKept ==
    ASSUME NEW c \in Calls, Tracked(c), SameFlags(c), Gone(c) => Gone(c)',
           SameItems(c, "allocate"), SameItems(c, "release"), PortsOpen(c)' => PortsOpen(c)
    PROVE  FlagsAgree(c)' /\ AllocationTracked(c)' /\ ReleaseTracked(c)' /\ PortsTracked(c)'
<1>1. FlagsAgree(c)'
  BY DEF Tracked, FlagsAgree, SameFlags
<1>2. AllocationTracked(c)'
  BY DEF Tracked, AllocationTracked, SameFlags, SameItems
<1>3. ReleaseTracked(c)'
  BY DEF Tracked, ReleaseTracked, SameFlags, SameItems
<1>4. PortsTracked(c)'
  BY DEF Tracked, PortsTracked, SameFlags, SameItems
<1>5. QED
  BY <1>1, <1>2, <1>3, <1>4

LEMMA CallKept ==
    ASSUME NEW c \in Calls, Tracked(c), SameFlags(c), SameTarget(c), Gone(c) => Gone(c)',
           \A op \in Ops : SameItems(c, op), PortsOpen(c)' => PortsOpen(c)
    PROVE  Tracked(c)'
<1>1. SameItems(c, "allocate") /\ SameItems(c, "release") /\ SameItems(c, "connect")
  BY DEF Ops
<1>2. FlagsAgree(c)' /\ AllocationTracked(c)' /\ ReleaseTracked(c)' /\ PortsTracked(c)'
  BY <1>1, TearKept
<1>3. ConnectTracked(c)'
  BY <1>1 DEF Tracked, ConnectTracked, SameFlags, SameTarget, SameItems
<1>4. Untouched(c)'
  BY DEF Tracked, Untouched, SameTarget
<1>5. QED
  BY <1>2, <1>3, <1>4 DEF Tracked

(* No command of a call is queued any more once its process has ended.     *)
LEMMA GoneHasNoCommands ==
    ASSUME Ground, PoolInv, NEW c \in Calls, NEW op, Gone(c)
    PROVE  Queued(c, op) = {}
<1> DEFINE w == worker[c]
<1>1. SUFFICES ASSUME Queued(c, op) # {} PROVE FALSE
  OBVIOUS
<1>2. w \in Workers /\ gen[w] \in Int /\ generation[c] \in Int
  BY DEF Ground, IInv, FlagsTyped, ProcessTyped, Generations
<1>3. PICK i \in 1..Len(Queue(c, op)) : Is(Queue(c, op)[i], op, c)
  BY <1>1 DEF Queued, Items
<1>4. Queue(c, op) \in Seq(CurrentJob(w)) /\ Queue(c, op) \in Seq(OwnJob(w))
  <2>1. jobs[w] \in Seq(OwnJob(w)) /\ urgent[w] \in Seq(OwnJob(w))
    <3>1. {j \in OwnJob(w) : j.op = "allocate"} \subseteq OwnJob(w)
      OBVIOUS
    <3>2. {j \in OwnJob(w) : j.op # "allocate"} \subseteq OwnJob(w)
      OBVIOUS
    <3>3. QED
      BY <1>2, <3>1, <3>2, SeqMonotonic DEF PoolInv, ItemsOwned
  <2>2. QED
    BY <1>2, <2>1 DEF Queue, Ground, QueuesFollowProcess
<1>5. Queue(c, op)[i] \in CurrentJob(w) /\ Queue(c, op)[i] \in OwnJob(w)
  BY <1>3, <1>4, ElementOfSeq
<1>6. generation[c] = gen[w]
  BY <1>3, <1>5 DEF CurrentJob, OwnJob, Is
<1>7. jobs[w] # <<>> \/ urgent[w] # <<>>
  <2>1. Queue(c, op) # <<>>
    BY <1>3, EmptySeq
  <2>2. QED
    BY <2>1 DEF Queue
<1>8. QED
  BY <1>2, <1>6, <1>7 DEF Gone, Quiet

-----------------------------------------------------------------------------
(* Steps of the pool.  A worker answers one command, in one of four ways,  *)
(* or its process and its supervisor go on without a command.              *)

PoolMove(w, j, ok) ==
    /\ Takes(w, j) /\ Post(Reply(j, ok)) /\ UNCHANGED <<gen, failures>>
    /\ \/ ok /\ status[w] = "serving" /\ status' = status /\ Execute(w, j)
       \/ /\ ~ok /\ status[w] = "serving" /\ j.op # "release"
          /\ UNCHANGED <<status, sessions, target>>
       \/ /\ ~ok /\ status[w] = "serving" /\ status' = [status EXCEPT ![w] = "broken"]
          /\ Execute(w, j) \/ UNCHANGED <<sessions, target>>
       \/ /\ ~ok /\ status[w] = "draining"
          /\ UNCHANGED <<status, sessions, target>>

QuietMove(w) ==
    \/ Break(w) \/ ClearHealthy(w) \/ KillProcess(w) \/ ReportFailure(w)
    \/ Restart(w) \/ RestartFails(w)

LEMMA TakesOne ==
    ASSUME NEW w \in Workers
    PROVE  /\ TakeJob(w) => Takes(w, Head(jobs[w])) /\ status[w] = "serving"
           /\ TakeUrgent(w) => Takes(w, Head(urgent[w])) /\ status[w] = "serving"
  BY DEF TakeJob, TakeUrgent, Takes

LEMMA ServedMoves ==
    ASSUME Ground, PoolInv, NEW w \in Workers, NEW j, Takes(w, j), status[w] = "serving",
           Serve(w, j)
    PROVE  PoolMove(w, j, TRUE)
<1>1. j.gen = gen[w]
  BY TakenJob
<1>2. QED
  BY <1>1 DEF Serve, PoolMove

LEMMA FailedMoves ==
    ASSUME NEW w \in Workers, NEW j, Takes(w, j), status[w] = "serving", Fail(w, j)
    PROVE  PoolMove(w, j, FALSE)
  BY DEF Fail, PoolMove

LEMMA PoolStepMoves ==
    ASSUME Ground, PoolInv, PoolNext
    PROVE  \E w \in Workers : QuietMove(w) \/ (\E j, ok : ok \in BOOLEAN /\ PoolMove(w, j, ok))
<1>1. PICK w \in Workers :
         \/ ServeAllocate(w) \/ ServeUrgent(w)
         \/ RefuseAllocate(w) \/ RefuseConnect(w) \/ ServeFails(w) \/ Break(w)
         \/ ClearHealthy(w) \/ KillProcess(w) \/ DrainQueue(w) \/ ReportFailure(w)
         \/ Restart(w) \/ RestartFails(w)
  BY DEF PoolNext
<1>2. SUFFICES QuietMove(w) \/ (\E j, ok : ok \in BOOLEAN /\ PoolMove(w, j, ok))
  OBVIOUS
<1>3. CASE ServeAllocate(w)
  BY <1>3, TakesOne, ServedMoves DEF ServeAllocate
<1>4. CASE ServeUrgent(w)
  BY <1>4, TakesOne, ServedMoves DEF ServeUrgent
<1>5. CASE ServeFails(w)
  BY <1>5, TakesOne, FailedMoves DEF ServeFails
<1>6. CASE RefuseAllocate(w)
  <2>1. Takes(w, Head(jobs[w])) /\ status[w] = "serving"
    BY <1>6, TakesOne DEF RefuseAllocate
  <2>2. Head(jobs[w]).op # "release"
    <3>1. jobs[w] # <<>> /\ jobs[w] \in Seq({k \in OwnJob(w) : k.op = "allocate"})
      BY <1>6 DEF RefuseAllocate, TakeJob, PoolInv, ItemsOwned
    <3>2. QED
      BY <3>1, HeadTailProperties
  <2>3. PoolMove(w, Head(jobs[w]), FALSE)
    BY <1>6, <2>1, <2>2 DEF RefuseAllocate, PoolMove
  <2>4. QED
    BY <2>3
<1>7. CASE RefuseConnect(w)
  <2>1. Takes(w, Head(urgent[w])) /\ status[w] = "serving"
    BY <1>7, TakesOne DEF RefuseConnect
  <2>2. PoolMove(w, Head(urgent[w]), FALSE)
    BY <1>7, <2>1 DEF RefuseConnect, PoolMove
  <2>3. QED
    BY <2>2
<1>8. CASE DrainQueue(w)
  <2>1. \E j : Takes(w, j) /\ Post(Reply(j, FALSE))
    BY <1>8 DEF DrainQueue, Takes
  <2>2. QED
    BY <1>8, <2>1 DEF DrainQueue, PoolMove
<1>9. QED
  BY <1>1, <1>3, <1>4, <1>5, <1>6, <1>7, <1>8 DEF QuietMove

-----------------------------------------------------------------------------
(* A worker answers a command.                                             *)

LEMMA TailOfSeq ==
    ASSUME NEW S, NEW q \in Seq(S)
    PROVE  q # <<>> => Tail(q) \in Seq(S)
  BY HeadTailProperties

LEMMA MoveKeepsPool ==
    ASSUME Ground, Ground', PoolInv, UNCHANGED callVars,
           NEW w \in Workers, NEW j, NEW ok \in BOOLEAN, PoolMove(w, j, ok)
    PROVE  PoolInv' /\ QuietStays
<1>1. /\ j \in Job /\ j.call \in used /\ worker[j.call] = w
      /\ generation[j.call] = gen[w] /\ ~Quiet(w)
  BY TakenJob DEF PoolMove, Quiet
<1>2. \A v \in Workers : v # w => (Quiet(v)' <=> Quiet(v))
  BY DEF PoolMove, Takes, Quiet, Ground, IInv, ProcessTyped, QueuesFollowProcess
<1>3. QuietStays
  BY <1>1, <1>2 DEF QuietStays, PoolMove, Ground, IInv, ProcessTyped, Generations
<1>4. ItemsOwned'
  <2>1. /\ \A v \in Workers : OwnJob(v)' = OwnJob(v)
        /\ UsedResult' = UsedResult
    BY DEF OwnJob, UsedResult, callVars
  <2>2. \A v \in Workers : jobs'[v] \in Seq({k \in OwnJob(v) : k.op = "allocate"})
    <3>1. \A v \in Workers : jobs[v] \in Seq({k \in OwnJob(v) : k.op = "allocate"})
      BY DEF PoolInv, ItemsOwned
    <3>2. jobs[w] # <<>> => Tail(jobs[w]) \in Seq({k \in OwnJob(w) : k.op = "allocate"})
      BY <3>1, TailOfSeq
    <3>3. QED
      BY <3>1, <3>2 DEF PoolMove, Takes, Ground, QueuesFollowProcess
  <2>3. \A v \in Workers : urgent'[v] \in Seq({k \in OwnJob(v) : k.op # "allocate"})
    <3>1. \A v \in Workers : urgent[v] \in Seq({k \in OwnJob(v) : k.op # "allocate"})
      BY DEF PoolInv, ItemsOwned
    <3>2. urgent[w] # <<>> => Tail(urgent[w]) \in Seq({k \in OwnJob(w) : k.op # "allocate"})
      BY <3>1, TailOfSeq
    <3>3. QED
      BY <3>1, <3>2 DEF PoolMove, Takes, Ground, QueuesFollowProcess
  <2>4. results' \in Seq(UsedResult)
    <3>1. Reply(j, ok) \in UsedResult
      BY <1>1 DEF Reply, UsedResult, Job, Result
    <3>2. results \in Seq(UsedResult)
      BY DEF PoolInv, ItemsOwned
    <3>3. QED
      BY <3>1, <3>2, AppendProperties DEF PoolMove, Post
  <2>5. QED
    BY <2>1, <2>2, <2>3, <2>4 DEF ItemsOwned
<1>5. SessionsOwned'
  <2>1. \A v \in Workers : status'[v] \in {"draining", "waiting"} =>
             status[v] \in {"draining", "waiting"} /\ sessions'[v] = sessions[v]
    BY DEF PoolMove, Execute, Ground, IInv, ProcessTyped
  <2>2. \A v \in Workers : sessions'[v] \subseteq
             sessions[v] \cup (IF v = w THEN {j.call} ELSE {})
    BY DEF PoolMove, Execute, Ground, IInv, ProcessTyped
  <2>3. gen' = gen /\ used' = used /\ worker' = worker /\ generation' = generation
    BY DEF PoolMove, callVars
  <2>4. QED
    BY <1>1, <2>1, <2>2, <2>3 DEF SessionsOwned, PoolInv
<1>6. FailuresPast'
  <2>1. \A i \in 1..Len(failures) : failures[i] \in Failure
    BY ElementOfSeq DEF Ground, IInv, ProcessTyped
  <2>2. \A f \in Failure : Past(f) => Past(f)'
    BY <1>3, PastStays
  <2>3. failures' = failures
    BY DEF PoolMove
  <2>4. QED
    BY <2>1, <2>2, <2>3 DEF FailuresPast, Past, PoolInv
<1>7. NeverAhead' /\ LoadsLimited'
  BY DEF NeverAhead, LoadsLimited, PoolInv, PoolMove, callVars
<1>8. QED
  BY <1>3, <1>4, <1>5, <1>6, <1>7 DEF PoolInv

(* Calls whose command it is not.                                          *)
LEMMA MoveKeepsOthers ==
    ASSUME Ground, Ground', PoolInv, UNCHANGED callVars,
           NEW w \in Workers, NEW j, NEW ok \in BOOLEAN, PoolMove(w, j, ok),
           NEW c \in Calls, j.call # c, Tracked(c)
    PROVE  Tracked(c)'
<1>1. \A op \in Ops : SameItems(c, op)
  <2>1. \A op \in Ops : ~Is(j, op, c)
    BY DEF Is
  <2>2. QED
    BY <2>1, TakenItems DEF PoolMove, callVars
<1>2. SameFlags(c)
  BY DEF SameFlags, callVars
<1>3. SameTarget(c)
  BY DEF SameTarget, callVars, PoolMove, Execute, Ground, IInv, ProcessTyped
<1>4. PortsOpen(c)' => PortsOpen(c)
  BY DEF PortsOpen, callVars, PoolMove, Execute, Ground, IInv, FlagsTyped, ProcessTyped
<1>5. Gone(c) => Gone(c)'
  BY MoveKeepsPool, GoneStays DEF PoolInv, callVars
<1>6. QED
  BY <1>1, <1>2, <1>3, <1>4, <1>5, CallKept

(* The call whose command it is: what the step changes for it.             *)
LEMMA MoveOnCall ==
    ASSUME Ground, Ground', PoolInv, UNCHANGED callVars,
           NEW w \in Workers, NEW j, NEW ok \in BOOLEAN, PoolMove(w, j, ok),
           NEW c \in Calls, j.call = c
    PROVE  /\ \A op \in Ops : op # j.op => SameItems(c, op)
           /\ One(c, j.op) =>
                 /\ j \in Queued(c, j.op) /\ Replied(c, j.op) = {} /\ Queued(c, j.op)' = {}
                 /\ Replied(c, j.op)' = {Reply(j, ok)} /\ One(c, j.op)'
           /\ SameFlags(c) /\ ~Gone(c) /\ worker[c] = w /\ c \in used /\ j.op \in Ops
           /\ j.op # "connect" => SameTarget(c)
<1>1. /\ j \in Job /\ j.call \in used /\ worker[j.call] = w /\ j.op \in Ops
      /\ generation[j.call] = gen[w] /\ ~Quiet(w)
  BY TakenJob DEF PoolMove, Quiet, Job
<1>2. /\ \A op \in Ops : op # j.op => ~Is(j, op, c)
      /\ Is(j, j.op, c)
  BY DEF Is
<1>3. Takes(w, j) /\ Post(Reply(j, ok)) /\ worker' = worker
  BY DEF PoolMove, callVars
<1>4. \A op \in Ops : op # j.op => SameItems(c, op)
  BY <1>2, <1>3, TakenItems
<1>5. One(c, j.op) =>
         /\ j \in Queued(c, j.op) /\ Replied(c, j.op) = {} /\ Queued(c, j.op)' = {}
         /\ Replied(c, j.op)' = {Reply(j, ok)} /\ One(c, j.op)'
  BY <1>1, <1>2, <1>3, TakenItems
<1>6. SameFlags(c)
  BY DEF SameFlags, callVars
<1>7. ~Gone(c)
  BY <1>1 DEF Gone, Ground, IInv, ProcessTyped, Generations
<1>8. j.op # "connect" => SameTarget(c)
  BY DEF SameTarget, callVars, PoolMove, Execute
<1>9. QED
  BY <1>1, <1>4, <1>5, <1>6, <1>7, <1>8

LEMMA MoveOfAllocate ==
    ASSUME Ground, Ground', PoolInv, UNCHANGED callVars,
           NEW w \in Workers, NEW j, NEW ok \in BOOLEAN, PoolMove(w, j, ok),
           NEW c \in Calls, j.call = c, j.op = "allocate", Tracked(c)
    PROVE  Tracked(c)'
<1>1. /\ SameItems(c, "release") /\ SameItems(c, "connect")
      /\ j \in Queued(c, "allocate") /\ Replied(c, "allocate") = {}
      /\ Queued(c, "allocate")' = {} /\ Replied(c, "allocate")' = {Reply(j, ok)}
      /\ One(c, "allocate")'
      /\ SameFlags(c) /\ ~Gone(c) /\ worker[c] = w /\ SameTarget(c)
  <2>1. One(c, "allocate")
    BY DEF Tracked, AllocationTracked
  <2>2. QED
    BY <2>1, MoveOnCall DEF Ops
<1>2. c \in pending /\ c \in reserved /\ c \notin releasing
  BY <1>1 DEF Tracked, AllocationTracked, FlagsAgree
<1>3. FlagsAgree(c)'
  BY <1>1 DEF Tracked, FlagsAgree, SameFlags
<1>4. AllocationTracked(c)'
  BY <1>1, <1>2 DEF AllocationTracked, SameFlags
<1>5. ReleaseTracked(c)'
  BY <1>1 DEF Tracked, ReleaseTracked, SameItems, SameFlags
<1>6. PortsTracked(c)'
  <2>1. SUFFICES ASSUME PortsOpen(c)'
                 PROVE  /\ c \in reserved'
                        /\ Queued(c, "allocate")' = {} /\ Replied(c, "release")' = {}
                        /\ \A r \in Replied(c, "allocate")' : r.ok
    BY DEF PortsTracked
  <2>2. Replied(c, "release")' = {}
    BY <1>1, <1>2 DEF Tracked, ReleaseTracked, SameItems
  <2>3. ok
    <3>1. status'[w] = "serving" /\ c \in sessions'[w]
      BY <1>1, <2>1 DEF PortsOpen, callVars
    <3>2. status \in [Workers -> Status]
      BY DEF Ground, IInv, ProcessTyped
    <3>3. ok \/ (status' = status /\ sessions' = sessions)
      BY <3>1, <3>2 DEF PoolMove
    <3>4. CASE status' = status /\ sessions' = sessions
      <4>1. PortsOpen(c)
        BY <1>1, <3>1, <3>4 DEF PortsOpen
      <4>2. QED
        BY <1>1, <4>1 DEF Tracked, PortsTracked
    <3>5. QED
      BY <3>3, <3>4
  <2>4. QED
    BY <1>1, <1>2, <2>2, <2>3 DEF SameFlags, Reply
<1>7. ConnectTracked(c)'
  BY <1>1 DEF Tracked, ConnectTracked, SameFlags, SameTarget, SameItems
<1>8. Untouched(c)'
  BY <1>1 DEF Tracked, Untouched, SameTarget
<1>9. QED
  BY <1>3, <1>4, <1>5, <1>6, <1>7, <1>8 DEF Tracked

LEMMA MoveOfRelease ==
    ASSUME Ground, Ground', PoolInv, UNCHANGED callVars,
           NEW w \in Workers, NEW j, NEW ok \in BOOLEAN, PoolMove(w, j, ok),
           NEW c \in Calls, j.call = c, j.op = "release", Tracked(c)
    PROVE  Tracked(c)'
<1>1. /\ SameItems(c, "allocate") /\ SameItems(c, "connect")
      /\ j \in Queued(c, "release") /\ Replied(c, "release") = {}
      /\ Queued(c, "release")' = {} /\ Replied(c, "release")' = {Reply(j, ok)}
      /\ One(c, "release")'
      /\ SameFlags(c) /\ ~Gone(c) /\ worker[c] = w /\ SameTarget(c)
  <2>1. One(c, "release")
    BY DEF Tracked, ReleaseTracked
  <2>2. QED
    BY <2>1, MoveOnCall DEF Ops
<1>2. FlagsAgree(c)'
  BY <1>1 DEF Tracked, FlagsAgree, SameFlags
<1>3. AllocationTracked(c)'
  BY <1>1 DEF Tracked, AllocationTracked, SameItems, SameFlags
<1>4. ReleaseTracked(c)'
  BY <1>1 DEF Tracked, ReleaseTracked, SameFlags
<1>5. ~PortsOpen(c)'
  BY <1>1 DEF PortsOpen, PoolMove, Execute, callVars, Ground, IInv, ProcessTyped
<1>6. ConnectTracked(c)'
  BY <1>1 DEF Tracked, ConnectTracked, SameFlags, SameTarget, SameItems
<1>7. Untouched(c)'
  BY <1>1 DEF Tracked, Untouched, SameTarget
<1>8. QED
  BY <1>2, <1>3, <1>4, <1>5, <1>6, <1>7 DEF Tracked, PortsTracked

LEMMA MoveOfConnect ==
    ASSUME Ground, Ground', PoolInv, UNCHANGED callVars,
           NEW w \in Workers, NEW j, NEW ok \in BOOLEAN, PoolMove(w, j, ok),
           NEW c \in Calls, j.call = c, j.op = "connect", Tracked(c)
    PROVE  Tracked(c)'
<1>1. /\ SameItems(c, "allocate") /\ SameItems(c, "release")
      /\ One(c, "connect") =>
            /\ j \in Queued(c, "connect") /\ Replied(c, "connect") = {}
            /\ Queued(c, "connect")' = {} /\ Replied(c, "connect")' = {Reply(j, ok)}
            /\ One(c, "connect")'
      /\ SameFlags(c) /\ ~Gone(c) /\ worker[c] = w /\ c \in used
  BY MoveOnCall DEF Ops
<1>2. PortsOpen(c)' => PortsOpen(c)
  BY <1>1 DEF PortsOpen, PoolMove, Execute, callVars, Ground, IInv, ProcessTyped
<1>3. FlagsAgree(c)' /\ AllocationTracked(c)' /\ ReleaseTracked(c)' /\ PortsTracked(c)'
  BY <1>1, <1>2, TearKept
<1>4. ConnectTracked(c)'
  <2>1. SUFFICES ASSUME c \in known \ ended PROVE ConnectTracked(c)'
    BY DEF ConnectTracked, callVars
  <2>2. One(c, "connect")
    BY <2>1 DEF Tracked, ConnectTracked
  <2>3. j.ver = connectInFlight[c] /\ connectInFlight[c] # 0
    BY <1>1, <2>1, <2>2 DEF Tracked, ConnectTracked
  <2>4. ok => target'[c] = connectInFlight[c]
    BY <2>3 DEF PoolMove, Execute, Ground, IInv, ProcessTyped
  <2>5. UNCHANGED <<connectInFlight, connectQueued, connectVersion, known, ended>>
    BY DEF callVars
  <2>6. \A r \in Replied(c, "connect")' :
           r.ver = connectInFlight[c] /\ (r.ok => target'[c] = connectInFlight[c])
    BY <1>1, <2>2, <2>3, <2>4 DEF Reply
  <2>7. /\ connectQueued[c] # 0 => connectQueued[c] = connectVersion[c]
        /\ connectQueued[c] = 0 => connectInFlight[c] = connectVersion[c]
    BY <2>1, <2>3 DEF Tracked, ConnectTracked
  <2>8. QED
    BY <1>1, <2>2, <2>3, <2>5, <2>6, <2>7 DEF ConnectTracked
<1>5. Untouched(c)'
  BY <1>1 DEF Untouched, callVars
<1>6. QED
  BY <1>3, <1>4, <1>5 DEF Tracked

LEMMA MoveKeeps ==
    ASSUME Ground, Ground', PoolInv, \A c \in Calls : Tracked(c), UNCHANGED callVars,
           NEW w \in Workers, NEW j, NEW ok \in BOOLEAN, PoolMove(w, j, ok)
    PROVE  PoolInv' /\ \A c \in Calls : Tracked(c)'
<1>1. j \in Job
  BY TakenJob DEF PoolMove
<1>2. ASSUME NEW c \in Calls PROVE Tracked(c)'
  <2>1. CASE j.call # c
    BY <2>1, MoveKeepsOthers
  <2>2. CASE j.call = c /\ j.op = "allocate"
    BY <2>2, MoveOfAllocate
  <2>3. CASE j.call = c /\ j.op = "release"
    BY <2>3, MoveOfRelease
  <2>4. CASE j.call = c /\ j.op = "connect"
    BY <2>4, MoveOfConnect
  <2>5. QED
    BY <1>1, <2>1, <2>2, <2>3, <2>4 DEF Job, Ops
<1>3. QED
  BY <1>2, MoveKeepsPool

-----------------------------------------------------------------------------
(* A process or its supervisor goes on without a command.                  *)

LEMMA QuietMoveKeeps ==
    ASSUME Ground, Ground', PoolInv, \A c \in Calls : Tracked(c), UNCHANGED callVars,
           NEW w \in Workers, QuietMove(w)
    PROVE  PoolInv' /\ \A c \in Calls : Tracked(c)'
<1> DEFINE end == {"draining", "waiting"}
<1>1. /\ UNCHANGED <<jobs, urgent, target, results>>
      /\ gen' = gen \/ (status[w] = "waiting" /\ gen' = [gen EXCEPT ![w] = @ + 1])
  BY DEF QuietMove, Break, ClearHealthy, KillProcess, ReportFailure, Restart, RestartFails
<1>2. /\ gen \in [Workers -> Int] /\ status \in [Workers -> Status]
      /\ worker \in [Calls -> Workers]
      /\ sessions \in [Workers -> SUBSET Calls]
  BY DEF Ground, IInv, ProcessTyped, FlagsTyped, Generations
<1>3. /\ \A v \in Workers \ {w} : status'[v] = status[v] /\ sessions'[v] = sessions[v]
      /\ \A v \in Workers : sessions'[v] \subseteq sessions[v]
      /\ status[w] \in end => status'[w] \in end \/ gen'[w] = gen[w] + 1
      /\ status'[w] \in end => status[w] \in end \/ sessions'[w] = {}
  BY <1>2 DEF QuietMove, Break, ClearHealthy, KillProcess, ReportFailure, Restart, RestartFails
<1>4. /\ gen' # gen => status[w] = "waiting"
      /\ status'[w] = "serving" => status[w] = "waiting"
  BY <1>2 DEF QuietMove, Break, ClearHealthy, KillProcess, ReportFailure, Restart, RestartFails
<1>5. QuietStays
  BY <1>1, <1>2, <1>3 DEF QuietStays, Quiet
<1>6. SessionsOwned'
  <2>1. \A v \in Workers : sessions[v] = {} \/ gen'[v] = gen[v]
    BY <1>1, <1>2 DEF PoolInv, SessionsOwned
  <2>2. \A v \in Workers : status'[v] \in end => sessions'[v] = {}
    BY <1>3 DEF PoolInv, SessionsOwned
  <2>3. \A v \in Workers : \A c \in sessions'[v] :
           c \in used /\ worker[c] = v /\ generation[c] = gen'[v]
    BY <1>3, <2>1 DEF PoolInv, SessionsOwned
  <2>4. QED
    BY <2>2, <2>3 DEF SessionsOwned, callVars
<1>7. ItemsOwned'
  <2>1. UsedResult' = UsedResult /\ \A v \in Workers : OwnJob(v)' = OwnJob(v)
    BY DEF OwnJob, UsedResult, callVars
  <2>2. QED
    BY <1>1, <2>1 DEF PoolInv, ItemsOwned
<1>8. FailuresPast'
  <2>1. \A f \in Failure : Past(f) => Past(f)'
    BY <1>5, PastStays
  <2>2. \A i \in 1..Len(failures) : failures[i] \in Failure /\ Past(failures[i])
    BY ElementOfSeq DEF PoolInv, FailuresPast, Ground, IInv, ProcessTyped
  <2>3. CASE failures' = failures
    BY <2>1, <2>2, <2>3 DEF FailuresPast, Past
  <2>4. CASE ReportFailure(w)
    <3>1. PICK f \in Failure : /\ f.worker = w /\ f.gen = gen'[w]
                               /\ failures' = Append(failures, f)
      BY <2>4 DEF ReportFailure, Failure, Ground, IInv, ProcessTyped
    <3>2. Quiet(w)'
      BY <1>2, <2>4 DEF ReportFailure, Quiet
    <3>3. /\ Len(failures') = Len(failures) + 1 /\ Len(failures) \in Nat
          /\ \A i \in 1..Len(failures) : failures'[i] = failures[i]
          /\ failures'[Len(failures) + 1] = f
      BY <3>1, AppendProperties, LenProperties DEF Ground, IInv, ProcessTyped
    <3>4. Past(f)'
      BY <3>1, <3>2 DEF Past
    <3>5. SUFFICES ASSUME NEW i \in 1..Len(failures') PROVE Past(failures[i])'
      BY DEF FailuresPast
    <3>6. CASE i \in 1..Len(failures)
      BY <2>1, <2>2, <3>3, <3>6 DEF Past
    <3>7. CASE i = Len(failures) + 1
      BY <3>3, <3>4, <3>7 DEF Past
    <3>8. QED
      BY <3>3, <3>6, <3>7
  <2>5. QED
    BY <2>3, <2>4
       DEF QuietMove, Break, ClearHealthy, KillProcess, Restart, RestartFails
<1>9. NeverAhead' /\ LoadsLimited'
  <2>1. \A c \in Calls : generation[c] \in Int /\ generation[c] <= gen[worker[c]]
    BY DEF Ground, IInv, FlagsTyped, Generations, PoolInv, NeverAhead
  <2>2. \A v \in Workers : gen'[v] \in Int /\ gen[v] \in Int
    BY DEF Ground, IInv, ProcessTyped, Generations
  <2>3. NeverAhead'
    BY <1>2, <1>5, <2>1, <2>2 DEF NeverAhead, QuietStays, callVars
  <2>4. QED
    BY <2>3 DEF LoadsLimited, PoolInv, callVars
<1>10. ASSUME NEW c \in Calls PROVE Tracked(c)'
  <2>1. \A op \in Ops : SameItems(c, op)
    BY <1>1, ItemsKept DEF callVars
  <2>2. SameFlags(c) /\ SameTarget(c)
    BY <1>1 DEF SameFlags, SameTarget, callVars
  <2>3. PortsOpen(c)' => PortsOpen(c)
    <3>1. status[w] = "waiting" => sessions[w] = {}
      BY DEF PoolInv, SessionsOwned
    <3>2. QED
      BY <1>2, <1>3, <1>4, <3>1 DEF PortsOpen, callVars
  <2>4. Gone(c) => Gone(c)'
    BY <1>5, GoneStays DEF PoolInv, callVars
  <2>5. QED
    BY <2>1, <2>2, <2>3, <2>4, CallKept
<1>11. QED
  BY <1>6, <1>7, <1>8, <1>9, <1>10 DEF PoolInv

LEMMA PoolKeeps ==
    ASSUME Ground, Ground', PoolInv, \A c \in Calls : Tracked(c), PoolStep
    PROVE  PoolInv' /\ \A c \in Calls : Tracked(c)'
<1>1. PICK w \in Workers : QuietMove(w) \/ (\E j, ok : ok \in BOOLEAN /\ PoolMove(w, j, ok))
  BY PoolStepMoves DEF PoolStep
<1>2. UNCHANGED callVars
  BY DEF PoolStep
<1>3. QED
  BY <1>1, <1>2, QuietMoveKeeps, MoveKeeps

-----------------------------------------------------------------------------
(* Handlers of the call loop that work on one call d.                      *)

HandlerUrgent(d) ==
    \/ urgent' = urgent
    \/ \E op \in {"connect", "release"}, v \in Versions :
          CanEnqueue(worker[d], generation[d], op) /\ EnqueueUrgent(d, op, v)

HandlerOn(d) ==
    /\ UNCHANGED <<gen, status, jobs, sessions, target, failures, used, worker, generation>>
    /\ HandlerUrgent(d)
    /\ \/ results' = results
       \/ results # <<>> /\ Head(results).call = d /\ results' = Tail(results)
    /\ \A c \in Calls \ {d} : /\ SameFlags(c)
                              /\ connectVersion'[c] = connectVersion[c]
                              /\ connectInFlight'[c] = connectInFlight[c]
                              /\ connectQueued'[c] = connectQueued[c]
    /\ \A w \in Workers : workerLoads'[w] <= workerLoads[w]

LEMMA NewJobTyped ==
    ASSUME Ground, NEW d \in Calls, NEW op \in Ops, NEW v \in Versions
    PROVE  /\ NewJob(d, generation[d], op, v) \in Job
           /\ NewJob(d, generation[d], op, v).call = d
           /\ NewJob(d, generation[d], op, v).op = op
           /\ NewJob(d, generation[d], op, v).ver = v
           /\ NewJob(d, generation[d], op, v).gen = generation[d]
  BY DEF NewJob, Job, Ground, IInv, FlagsTyped

LEMMA HandlerQuietStays ==
    ASSUME Ground, NEW d \in Calls, HandlerOn(d)
    PROVE  QuietStays
<1>1. worker[d] \in Workers /\ \A w \in Workers : gen[w] \in Int
  BY DEF Ground, IInv, FlagsTyped, ProcessTyped, Generations
<1>2. \A w \in Workers : Quiet(w) => urgent'[w] = urgent[w]
  BY <1>1 DEF HandlerOn, HandlerUrgent, EnqueueUrgent, CanEnqueue, Healthy, Quiet, Ground,
              QueuesFollowProcess
<1>3. QED
  BY <1>1, <1>2 DEF QuietStays, Quiet, HandlerOn

LEMMA HandlerKeepsPool ==
    ASSUME Ground, Ground', PoolInv, NEW d \in Calls, d \in used, HandlerOn(d)
    PROVE  PoolInv'
<1>1. UNCHANGED <<gen, status, jobs, sessions, target, failures, used, worker, generation>>
  BY DEF HandlerOn
<1>2. ItemsOwned'
  <2>1. UsedResult' = UsedResult /\ \A v \in Workers : OwnJob(v)' = OwnJob(v)
    BY <1>1 DEF OwnJob, UsedResult
  <2>2. \A w \in Workers : urgent'[w] \in Seq({k \in OwnJob(w) : k.op # "allocate"})
    <3>1. \A w \in Workers : urgent[w] \in Seq({k \in OwnJob(w) : k.op # "allocate"})
      BY DEF PoolInv, ItemsOwned
    <3>2. CASE urgent' = urgent
      BY <3>1, <3>2
    <3>3. CASE \E op \in {"connect", "release"}, v \in Versions : EnqueueUrgent(d, op, v)
      <4>1. PICK op \in {"connect", "release"}, v \in Versions : EnqueueUrgent(d, op, v)
        BY <3>3
      <4> DEFINE j == NewJob(d, generation[d], op, v)
      <4>2. j \in Job /\ j.call = d /\ j.op # "allocate" /\ j.gen = generation[d]
        BY NewJobTyped DEF Ops
      <4>3. urgent' = [urgent EXCEPT ![worker[d]] = Append(@, j)]
        BY <4>1 DEF EnqueueUrgent
      <4> HIDE DEF j
      <4>4. j \in {k \in OwnJob(worker[d]) : k.op # "allocate"}
        BY <4>2 DEF OwnJob
      <4>5. Append(urgent[worker[d]], j) \in Seq({k \in OwnJob(worker[d]) : k.op # "allocate"})
        BY <3>1, <4>4, AppendProperties DEF Ground, IInv, FlagsTyped
      <4>6. QED
        BY <3>1, <4>3, <4>5 DEF Ground, QueuesFollowProcess
    <3>4. QED
      BY <3>2, <3>3 DEF HandlerOn, HandlerUrgent
  <2>3. results' \in Seq(UsedResult)
    BY HeadTailProperties DEF PoolInv, ItemsOwned, HandlerOn
  <2>4. QED
    BY <1>1, <2>1, <2>2, <2>3 DEF PoolInv, ItemsOwned
<1>3. SessionsOwned' /\ NeverAhead'
  BY <1>1 DEF PoolInv, SessionsOwned, NeverAhead
<1>4. FailuresPast'
  <2>1. \A f \in Failure : Past(f) => Past(f)'
    BY HandlerQuietStays, PastStays
  <2>2. \A i \in 1..Len(failures) : failures[i] \in Failure /\ Past(failures[i])
    BY ElementOfSeq DEF PoolInv, FailuresPast, Ground, IInv, ProcessTyped
  <2>3. QED
    BY <1>1, <2>1, <2>2 DEF FailuresPast, Past
<1>5. LoadsLimited'
  <2>1. \A w \in Workers : workerLoads[w] \in Int /\ workerLoads'[w] \in Int
    BY DEF Ground, IInv, QuotaCounted
  <2>2. QED
    BY <2>1 DEF PoolInv, LoadsLimited, HandlerOn
<1>6. QED
  BY <1>2, <1>3, <1>4, <1>5 DEF PoolInv

LEMMA HandlerKeepsOthers ==
    ASSUME Ground, Ground', PoolInv, NEW d \in Calls, HandlerOn(d),
           NEW c \in Calls, c # d, Tracked(c)
    PROVE  Tracked(c)'
<1>1. UNCHANGED <<gen, status, jobs, sessions, target, failures, used, worker, generation>>
  BY DEF HandlerOn
<1>2. ASSUME NEW op \in Ops PROVE SameItems(c, op)
  <2>1. Replied(c, op)' = Replied(c, op) /\ (Single(results, op, c) => Single(results', op, c))
    <3>1. CASE results' = results
      BY <3>1 DEF Replied
    <3>2. CASE results # <<>> /\ Head(results).call = d /\ results' = Tail(results)
      BY <3>2, ReceivedItems DEF Is
    <3>3. QED
      BY <3>1, <3>2 DEF HandlerOn
  <2>2. /\ Queued(c, op)' = Queued(c, op)
        /\ Single(Queue(c, op), op, c) => Single(Queue(c, op)', op, c)
    <3>1. CASE urgent' = urgent
      BY <1>1, <3>1 DEF Queued, Queue
    <3>2. CASE \E o \in {"connect", "release"}, v \in Versions : EnqueueUrgent(d, o, v)
      <4>1. PICK o \in {"connect", "release"}, v \in Versions : EnqueueUrgent(d, o, v)
        BY <3>2
      <4> DEFINE j == NewJob(d, generation[d], o, v)
      <4>2. j \in Job /\ j.call = d /\ j.op # "allocate"
        BY NewJobTyped DEF Ops
      <4>3. urgent' = [urgent EXCEPT ![worker[d]] = Append(@, j)]
        BY <4>1 DEF EnqueueUrgent
      <4> HIDE DEF j
      <4>4. ~Is(j, op, c)
        BY <4>2 DEF Is
      <4>5. QED
        BY <1>1, <4>2, <4>3, <4>4, QueuedUrgent
    <3>3. QED
      BY <3>1, <3>2 DEF HandlerOn, HandlerUrgent
  <2>3. QED
    BY <2>1, <2>2 DEF SameItems, One
<1>3. SameFlags(c) /\ SameTarget(c)
  BY <1>1 DEF HandlerOn, SameTarget
<1>4. PortsOpen(c)' => PortsOpen(c)
  BY <1>1 DEF PortsOpen
<1>5. Gone(c) => Gone(c)'
  BY <1>1, HandlerQuietStays, GoneStays DEF PoolInv
<1>6. QED
  BY <1>2, <1>3, <1>4, <1>5, CallKept

LEMMA HandlerKeeps ==
    ASSUME Ground, Ground', PoolInv, \A c \in Calls : Tracked(c),
           NEW d \in Calls, d \in used, HandlerOn(d), Tracked(d)'
    PROVE  PoolInv' /\ \A c \in Calls : Tracked(c)'
  BY HandlerKeepsPool, HandlerKeepsOthers

-----------------------------------------------------------------------------
(* What the helpers of the handlers leave alone.                           *)

TearOn(d) ==
    /\ HandlerUrgent(d)
    /\ \A c \in Calls \ {d} : /\ c \in reserved' <=> c \in reserved
                              /\ c \in allocated' <=> c \in allocated
                              /\ c \in releasing' <=> c \in releasing
                              /\ c \in retry => c \in retry'
    /\ \A w \in Workers : workerLoads'[w] <= workerLoads[w]

LEMMA ReservationGoesDown ==
    ASSUME Ground, NEW d \in Calls, ReleaseReservation(d)
    PROVE  \A w \in Workers : workerLoads'[w] <= workerLoads[w]
<1>1. worker[d] \in Workers /\ workerLoads \in [Workers -> Nat]
  BY DEF Ground, IInv, FlagsTyped, QuotaCounted
<1>2. CASE d \in reserved
  BY <1>1, <1>2 DEF ReleaseReservation
<1>3. CASE d \notin reserved
  BY <1>1, <1>3 DEF ReleaseReservation
<1>4. QED
  BY <1>2, <1>3

LEMMA ReleaseMediaOn ==
    ASSUME Ground, NEW d \in Calls, NEW al, NEW rt,
           al \in {allocated, allocated \cup {d}}, rt \in {retry, retry \ {d}},
           ReleaseMedia(d, al, rt)
    PROVE  TearOn(d)
<1>1. workerLoads \in [Workers -> Nat] /\ "release" \in {"connect", "release"} /\ 0 \in Versions
  BY DEF Ground, IInv, QuotaCounted, Versions
<1>2. HandlerUrgent(d)
  BY <1>1 DEF ReleaseMedia, HandlerUrgent
<1>3. \A w \in Workers : workerLoads'[w] <= workerLoads[w]
  BY <1>1, ReservationGoesDown DEF ReleaseMedia, ReleaseFailed
<1>4. \A c \in Calls \ {d} : /\ c \in reserved' <=> c \in reserved
                             /\ c \in allocated' <=> c \in allocated
                             /\ c \in releasing' <=> c \in releasing
                             /\ c \in retry => c \in retry'
  <2>1. CASE UNCHANGED <<reserved, releasing>> /\ allocated' = al /\ retry' = rt
    BY <2>1
  <2>2. CASE UNCHANGED reserved /\ releasing' = releasing \cup {d} /\ allocated' = al /\ retry' = rt
    BY <2>2
  <2>3. CASE ReleaseFailed(d, al, rt) /\ UNCHANGED releasing
    BY <2>3 DEF ReleaseFailed, ReleaseReservation
  <2>4. QED
    BY <2>1, <2>2, <2>3 DEF ReleaseMedia
<1>5. QED
  BY <1>2, <1>3, <1>4 DEF TearOn

LEMMA FinishOn ==
    ASSUME Ground, NEW d \in Calls, NEW pe, Finish(d, allocated, pe)
    PROVE  /\ TearOn(d) /\ ended' = ended \cup {d}
           /\ connectQueued' = [connectQueued EXCEPT ![d] = 0]
<1>1. workerLoads \in [Workers -> Nat]
  BY DEF Ground, IInv, QuotaCounted
<1>2. CASE d \in allocated
  BY <1>2, ReleaseMediaOn DEF Finish
<1>3. CASE d \notin allocated
  <2>1. \A w \in Workers : workerLoads'[w] <= workerLoads[w]
    BY <1>1, <1>3, ReservationGoesDown DEF Finish, quotaVars
  <2>2. QED
    BY <1>3, <2>1 DEF Finish, quotaVars, ReleaseReservation, TearOn, HandlerUrgent
<1>4. QED
  BY <1>2, <1>3 DEF Finish

LEMMA SubmitConnectOn ==
    ASSUME Ground, NEW d \in Calls, NEW v \in Versions, SubmitConnect(d, v)
    PROVE  /\ TearOn(d) /\ ended' \in {ended, ended \cup {d}}
           /\ connectQueued' = [connectQueued EXCEPT ![d] = 0]
           /\ \E x \in {0, v} : connectInFlight' = [connectInFlight EXCEPT ![d] = x]
<1>1. CASE CanEnqueue(worker[d], generation[d], "connect")
  <2>1. workerLoads \in [Workers -> Nat] /\ "connect" \in {"connect", "release"}
    BY DEF Ground, IInv, QuotaCounted
  <2>2. QED
    BY <1>1, <2>1 DEF SubmitConnect, quotaVars, TearOn, HandlerUrgent
<1>2. CASE ~CanEnqueue(worker[d], generation[d], "connect")
  BY <1>2, FinishOn DEF SubmitConnect
<1>3. QED
  BY <1>1, <1>2

-----------------------------------------------------------------------------
(* What the helpers of the handlers do to the call itself.                 *)

LEMMA RepliedKept ==
    ASSUME Ground, NEW c, NEW op,
           \/ results' = results
           \/ results # <<>> /\ Head(results).op # op /\ results' = Tail(results)
    PROVE  /\ Replied(c, op)' = Replied(c, op)
           /\ Single(results, op, c) => Single(results', op, c)
<1>1. CASE results' = results
  BY <1>1 DEF Replied
<1>2. CASE results # <<>> /\ Head(results).op # op /\ results' = Tail(results)
  BY <1>2, ReceivedItems DEF Is
<1>3. QED
  BY <1>1, <1>2

LEMMA RepliedTaken ==
    ASSUME Ground, NEW c, NEW op, Received(op), Head(results).call = c, One(c, op)
    PROVE  /\ Head(results) \in Replied(c, op) /\ Replied(c, op)' = {}
           /\ Queued(c, op) = {} /\ Single(results', op, c)
<1>1. results # <<>> /\ results' = Tail(results) /\ Is(Head(results), op, c)
  BY DEF Received, Is
<1>2. Head(results) \in Replied(c, op) /\ Replied(c, op)' = {} /\ Single(results', op, c)
  BY <1>1, ReceivedItems DEF One
<1>3. QED
  BY <1>2 DEF One

LEMMA GoneGeneration ==
    ASSUME Ground, NEW c \in Calls, Gone(c)
    PROVE  GenerationGone(c)
<1>1. worker[c] \in Workers /\ gen[worker[c]] \in Int /\ generation[c] \in Int
  BY DEF Ground, IInv, FlagsTyped, ProcessTyped, Generations
<1>2. QED
  BY <1>1 DEF Gone, GenerationGone, Quiet, Healthy

(* Teardown: whatever path releaseMedia takes, the flags agree again and a *)
(* release is outstanding exactly if the call says so.                     *)
LEMMA ReleaseMediaTracks ==
    ASSUME Ground, Ground', PoolInv, NEW d \in Calls, HandlerOn(d), Tracked(d),
           NEW al, NEW rt, ReleaseMedia(d, al, rt), d \in ended', d \in known',
           d \in allocated => d \in al,
           \/ d \in reserved /\ (d \in al <=> d \notin pending')
           \/ d \notin reserved /\ d \notin pending' /\ (d \in al => Gone(d)),
           \/ results' = results
           \/ results # <<>> /\ Head(results).op # "release" /\ results' = Tail(results)
    PROVE  /\ FlagsAgree(d)' /\ ReleaseTracked(d)' /\ (d \in reserved' => d \in reserved)
           /\ ~GenerationGone(d) => (d \in reserved <=> d \in reserved')
<1>1. Gone(d) => GenerationGone(d) /\ Gone(d)'
  BY GoneGeneration, HandlerQuietStays, GoneStays DEF HandlerOn, PoolInv
<1>2. /\ Replied(d, "release")' = Replied(d, "release")
      /\ Single(results, "release", d) => Single(results', "release", d)
  BY RepliedKept
<1>3. urgent' = urgent => /\ Queued(d, "release")' = Queued(d, "release")
                          /\ One(d, "release") => One(d, "release")'
  BY <1>2 DEF HandlerOn, One, Queued, Queue
<1>4. FlagsAgree(d) /\ ReleaseTracked(d)
  BY DEF Tracked
<1>5. CASE /\ d \notin al \/ d \in releasing
           /\ allocated' = al /\ retry' = rt
           /\ UNCHANGED <<releasing, urgent, reserved, workerLoads, active>>
  <2>1. FlagsAgree(d)'
    BY <1>1, <1>4, <1>5 DEF FlagsAgree
  <2>2. ReleaseTracked(d)'
    BY <1>1, <1>2, <1>3, <1>4, <1>5 DEF ReleaseTracked
  <2>3. QED
    BY <1>5, <2>1, <2>2
<1>6. CASE /\ d \in al \ releasing
           /\ CanEnqueue(worker[d], generation[d], "release")
           /\ EnqueueUrgent(d, "release", 0)
           /\ releasing' = releasing \cup {d}
           /\ allocated' = al /\ retry' = rt
           /\ UNCHANGED <<reserved, workerLoads, active>>
  <2>1. ~Gone(d)
    BY <1>1, <1>6 DEF CanEnqueue, GenerationGone
  <2>2. FlagsAgree(d)'
    BY <1>4, <1>6, <2>1 DEF FlagsAgree
  <2>3. Queued(d, "release") = {} /\ Replied(d, "release") = {}
    BY <1>4, <1>6, <2>1 DEF ReleaseTracked
  <2>4. Queued(d, "release")' # {} /\ Single(Queue(d, "release")', "release", d)
    <3> DEFINE j == NewJob(d, generation[d], "release", 0)
    <3>1. j \in Job /\ j.call = d /\ j.op = "release"
      BY NewJobTyped DEF Ops, Versions
    <3>2. urgent' = [urgent EXCEPT ![worker[d]] = Append(@, j)]
      BY <1>6 DEF EnqueueUrgent
    <3> HIDE DEF j
    <3>3. Is(j, "release", d) /\ j.op # "allocate" /\ "release" \in Ops
      BY <3>1 DEF Is, Ops
    <3>4. UNCHANGED <<worker, jobs>>
      BY DEF HandlerOn
    <3>5. Queued(d, "release")' = {j} /\ Single(Queue(d, "release")', "release", d)
      BY <2>3, <3>1, <3>2, <3>3, <3>4, QueuedUrgent
    <3>6. QED
      BY <3>5
  <2>5. ReleaseTracked(d)'
    BY <1>2, <1>4, <1>6, <2>3, <2>4 DEF ReleaseTracked, One
  <2>6. QED
    BY <1>6, <2>2, <2>5
<1>7. CASE /\ d \in al \ releasing
           /\ ReleaseFailed(d, al, rt)
           /\ UNCHANGED <<releasing, urgent>>
  <2>1. CASE GenerationGone(d)
    <3>1. /\ allocated' = al \ {d} /\ d \notin reserved' /\ d \notin pending'
      BY <1>7, <2>1 DEF ReleaseFailed, ReleaseReservation
    <3>2. FlagsAgree(d)'
      BY <1>4, <1>7, <3>1 DEF FlagsAgree
    <3>3. ReleaseTracked(d)'
      BY <1>1, <1>2, <1>3, <1>4, <1>7, <3>1 DEF ReleaseTracked
    <3>4. QED
      BY <2>1, <3>1, <3>2, <3>3
  <2>2. CASE ~GenerationGone(d)
    <3>1. /\ allocated' = al /\ retry' = rt \cup {d} /\ reserved' = reserved
          /\ d \in reserved
      BY <1>1, <1>7, <2>2 DEF ReleaseFailed
    <3>2. FlagsAgree(d)'
      BY <1>4, <1>7, <3>1 DEF FlagsAgree
    <3>3. ReleaseTracked(d)'
      BY <1>1, <1>2, <1>3, <1>4, <1>7, <3>1 DEF ReleaseTracked
    <3>4. QED
      BY <3>1, <3>2, <3>3
  <2>3. QED
    BY <2>1, <2>2
<1>8. QED
  BY <1>5, <1>6, <1>7 DEF ReleaseMedia

(* A call that has ended, while its allocation stays where it is.          *)
LEMMA EndedTracks ==
    ASSUME Ground, Ground', PoolInv, NEW d \in Calls, d \in used, HandlerOn(d), Tracked(d),
           d \in ended', FlagsAgree(d)', ReleaseTracked(d)', d \in reserved' => d \in reserved,
           ~GenerationGone(d) => (d \in reserved <=> d \in reserved'),
           d \in pending' <=> d \in pending,
           \/ results' = results
           \/ results # <<>> /\ Head(results).op = "connect" /\ results' = Tail(results)
    PROVE  Tracked(d)'
<1>1. Gone(d) => Gone(d)'
  BY HandlerQuietStays, GoneStays DEF HandlerOn, PoolInv
<1>2. PortsOpen(d)' => PortsOpen(d) /\ ~GenerationGone(d)
  BY OpenIsNotGone DEF PortsOpen, HandlerOn
<1>3. /\ Replied(d, "release")' = Replied(d, "release")
      /\ Replied(d, "allocate")' = Replied(d, "allocate")
      /\ Single(results, "allocate", d) => Single(results', "allocate", d)
  BY RepliedKept
<1>4. Queued(d, "allocate")' = Queued(d, "allocate") /\ Queue(d, "allocate")' = Queue(d, "allocate")
  BY DEF Queued, Queue, HandlerOn
<1>5. AllocationTracked(d)'
  BY <1>1, <1>3, <1>4 DEF Tracked, AllocationTracked, One
<1>6. PortsTracked(d)'
  BY <1>2, <1>3, <1>4 DEF Tracked, PortsTracked
<1>7. ConnectTracked(d)' /\ Untouched(d)'
  BY DEF ConnectTracked, Untouched, HandlerOn
<1>8. QED
  BY <1>5, <1>6, <1>7 DEF Tracked

LEMMA FinishTracks ==
    ASSUME Ground, Ground', PoolInv, NEW d \in Calls, d \in used, d \in known', HandlerOn(d),
           Tracked(d), Finish(d, allocated, pending), pending' = pending,
           \/ results' = results
           \/ results # <<>> /\ Head(results).op = "connect" /\ results' = Tail(results)
    PROVE  Tracked(d)'
<1>1. d \in ended'
  BY DEF Finish
<1>2. FlagsAgree(d) /\ ReleaseTracked(d)
  BY DEF Tracked
<1>3. CASE d \in allocated
  <2>1. ReleaseMedia(d, allocated, retry)
    BY <1>3 DEF Finish
  <2>2. d \in reserved /\ (d \in allocated <=> d \notin pending')
    BY <1>2, <1>3 DEF FlagsAgree
  <2>3. /\ FlagsAgree(d)' /\ ReleaseTracked(d)' /\ (d \in reserved' => d \in reserved)
        /\ ~GenerationGone(d) => (d \in reserved <=> d \in reserved')
    BY <1>1, <2>1, <2>2, ReleaseMediaTracks
  <2>4. QED
    BY <1>1, <2>3, EndedTracks
<1>4. CASE d \notin allocated
  <2>1. /\ d \notin releasing /\ (d \in reserved <=> d \in pending)
        /\ allocated' = allocated /\ UNCHANGED <<releasing, urgent>>
        /\ d \in reserved' <=> d \in reserved
    BY <1>2, <1>4 DEF FlagsAgree, Finish, quotaVars, ReleaseReservation
  <2>2. FlagsAgree(d)'
    BY <1>4, <2>1 DEF FlagsAgree
  <2>3. ReleaseTracked(d)'
    <3>1. Gone(d) => Gone(d)'
      BY HandlerQuietStays, GoneStays DEF HandlerOn, PoolInv
    <3>2. SameItems(d, "release")
      <4>1. /\ Replied(d, "release")' = Replied(d, "release")
            /\ Single(results, "release", d) => Single(results', "release", d)
        BY RepliedKept
      <4>2. Queue(d, "release")' = Queue(d, "release") /\ Queued(d, "release")' = Queued(d, "release")
        BY <2>1 DEF Queue, Queued, HandlerOn
      <4>3. QED
        BY <4>1, <4>2 DEF SameItems, One
    <3>3. QED
      BY <1>2, <2>1, <3>1, <3>2 DEF ReleaseTracked, SameItems
  <2>4. QED
    BY <1>1, <2>1, <2>2, <2>3, EndedTracks
<1>5. QED
  BY <1>3, <1>4

(* A connect of the version v is submitted when none is outstanding: it    *)
(* becomes the one in flight, or the call ends.                            *)
LEMMA SubmitTracks ==
    ASSUME Ground, Ground', PoolInv, NEW d \in Calls, d \in used,
           d \in known \ ended, d \in known', HandlerOn(d), Tracked(d), NEW v \in Versions, v # 0,
           SubmitConnect(d, v), pending' = pending, connectVersion'[d] = v,
           Queued(d, "connect") = {}, Replied(d, "connect")' = {},
           Single(results', "connect", d),
           \/ results' = results
           \/ results # <<>> /\ Head(results).op = "connect" /\ results' = Tail(results)
    PROVE  Tracked(d)'
<1>1. CASE CanEnqueue(worker[d], generation[d], "connect")
  <2>1. /\ EnqueueUrgent(d, "connect", v)
        /\ connectInFlight'[d] = v /\ connectQueued'[d] = 0
        /\ UNCHANGED <<quotaVars, allocated, releasing, ended>>
    BY <1>1 DEF SubmitConnect, Ground, IInv, FlagsTyped
  <2> DEFINE j == NewJob(d, generation[d], "connect", v)
  <2>2. j \in Job /\ j.call = d /\ j.op = "connect" /\ j.ver = v
    BY NewJobTyped DEF Ops
  <2>3. urgent' = [urgent EXCEPT ![worker[d]] = Append(@, j)]
    BY <2>1 DEF EnqueueUrgent
  <2> HIDE DEF j
  <2>4. /\ Is(j, "connect", d) /\ ~Is(j, "release", d) /\ j.op # "allocate"
        /\ "connect" \in Ops /\ "release" \in Ops
    BY <2>2 DEF Is, Ops
  <2>5. UNCHANGED <<worker, jobs, generation, gen, status, sessions, used>>
    BY DEF HandlerOn
  <2>6. /\ Queued(d, "connect")' = {j} /\ Single(Queue(d, "connect")', "connect", d)
        /\ Queued(d, "release")' = Queued(d, "release")
        /\ Single(Queue(d, "release"), "release", d) => Single(Queue(d, "release")', "release", d)
    <3>1. UNCHANGED <<worker, jobs>>
      BY <2>5
    <3>2. j \in Job /\ j.call = d /\ j.op # "allocate"
      BY <2>2
    <3>5. Queued(d, "connect")' = {j} /\ Single(Queue(d, "connect")', "connect", d)
      BY <2>3, <2>4, <3>1, <3>2, QueuedUrgent
    <3>3. ASSUME NEW op \in Ops, ~Is(j, op, d)
          PROVE  /\ Queued(d, op)' = Queued(d, op)
                 /\ Single(Queue(d, op), op, d) => Single(Queue(d, op)', op, d)
      BY <2>3, <3>1, <3>2, <3>3, QueuedUrgentKeeps
    <3>4. QED
      BY <2>4, <3>5, <3>3
  <2>7. /\ Replied(d, "release")' = Replied(d, "release")
        /\ Replied(d, "allocate")' = Replied(d, "allocate")
        /\ Single(results, "allocate", d) => Single(results', "allocate", d)
        /\ Single(results, "release", d) => Single(results', "release", d)
    BY RepliedKept
  <2>8. SameItems(d, "release")
    BY <2>6, <2>7 DEF SameItems, One
  <2>9. SameItems(d, "allocate")
    BY <2>5, <2>7 DEF SameItems, One, Queued, Queue
  <2>10. SameFlags(d)
    BY <2>1 DEF SameFlags, quotaVars, Tracked, FlagsAgree
  <2>11. Gone(d) => Gone(d)'
    BY <2>5, HandlerQuietStays, GoneStays DEF PoolInv
  <2>12. PortsOpen(d)' => PortsOpen(d)
    BY <2>5 DEF PortsOpen
  <2>13. FlagsAgree(d)' /\ AllocationTracked(d)' /\ ReleaseTracked(d)' /\ PortsTracked(d)'
    BY <2>8, <2>9, <2>10, <2>11, <2>12, TearKept
  <2>14. ConnectTracked(d)'
    BY <2>1, <2>2, <2>6 DEF ConnectTracked, One
  <2>15. QED
    BY <2>5, <2>13, <2>14 DEF Tracked, Untouched
<1>2. CASE ~CanEnqueue(worker[d], generation[d], "connect")
  <2>1. Finish(d, allocated, pending)
    BY <1>2 DEF SubmitConnect
  <2>2. QED
    BY <2>1, FinishTracks
<1>3. QED
  BY <1>1, <1>2

-----------------------------------------------------------------------------
(* The handlers, one at a time.                                            *)

LEMMA EndCallKeeps ==
    ASSUME Ground, Ground', PoolInv, \A c \in Calls : Tracked(c), NEW d \in Calls, EndCall(d)
    PROVE  PoolInv' /\ \A c \in Calls : Tracked(c)'
<1>1. d \in used /\ d \in known' /\ Finish(d, allocated, pending)
  BY DEF EndCall, Ground, IInv, FlagsTyped
<1>2. HandlerOn(d)
  <2>1. /\ TearOn(d) /\ ended' = ended \cup {d}
        /\ connectQueued' = [connectQueued EXCEPT ![d] = 0]
    BY <1>1, FinishOn
  <2>2. QED
    BY <2>1 DEF EndCall, HandlerOn, TearOn, SameFlags, Ground, IInv, FlagsTyped
<1>3. Tracked(d)'
  BY <1>1, <1>2, FinishTracks DEF EndCall
<1>4. QED
  BY <1>1, <1>2, <1>3, HandlerKeeps

LEMMA ConnectKeeps ==
    ASSUME Ground, Ground', PoolInv, \A c \in Calls : Tracked(c), NEW d \in Calls, Connect(d)
    PROVE  PoolInv' /\ \A c \in Calls : Tracked(c)'
<1> DEFINE v == connectVersion[d] + 1
<1>1. /\ d \in used /\ d \in known /\ d \notin ended /\ d \in known'
      /\ known' = known /\ pending' = pending /\ results' = results
  BY DEF Connect, Ground, IInv, FlagsTyped
<1>2. /\ v \in Versions /\ v # 0 /\ connectVersion' = [connectVersion EXCEPT ![d] = v]
      /\ connectVersion'[d] = v
  BY DEF Connect, Versions, Ground, IInv, FlagsTyped
<1>3. CASE connectInFlight[d] # 0
  <2>1. /\ connectQueued' = [connectQueued EXCEPT ![d] = v]
        /\ UNCHANGED <<urgent, connectInFlight, quotaVars, allocated, releasing, ended>>
        /\ UNCHANGED <<gen, status, jobs, sessions, target, results, failures, used, known,
                       worker, generation, pending>>
    BY <1>3 DEF Connect
  <2>2. HandlerOn(d)
    BY <1>2, <2>1 DEF HandlerOn, HandlerUrgent, SameFlags, quotaVars, Ground, IInv, FlagsTyped,
                      QuotaCounted
  <2>3. \A op \in Ops : SameItems(d, op)
    BY <2>1, ItemsKept
  <2>4. FlagsAgree(d)' /\ AllocationTracked(d)' /\ ReleaseTracked(d)' /\ PortsTracked(d)'
    <3>1. SameItems(d, "allocate") /\ SameItems(d, "release")
      BY <2>3 DEF Ops
    <3>2. SameFlags(d)
      BY <2>1 DEF SameFlags, quotaVars
    <3>3. (PortsOpen(d)' => PortsOpen(d)) /\ (Gone(d) => Gone(d)')
      BY <2>1 DEF PortsOpen, Gone, Quiet
    <3>4. QED
      BY <3>1, <3>2, <3>3, TearKept
  <2>5. ConnectTracked(d)'
    <3>1. SameItems(d, "connect")
      BY <2>3 DEF Ops
    <3>2. connectQueued'[d] = v
      BY <2>1 DEF Ground, IInv, FlagsTyped
    <3>3. ConnectTracked(d)
      BY DEF Tracked
    <3>4. QED
      BY <1>1, <1>2, <1>3, <2>1, <3>1, <3>2, <3>3 DEF ConnectTracked, SameItems
  <2>6. Tracked(d)'
    BY <1>1, <2>1, <2>4, <2>5 DEF Tracked, Untouched
  <2>7. QED
    BY <1>1, <2>2, <2>6, HandlerKeeps
<1>4. CASE connectInFlight[d] = 0
  <2>1. SubmitConnect(d, v)
    BY <1>4 DEF Connect
  <2>2. HandlerOn(d)
    <3>1. /\ TearOn(d) /\ ended' \in {ended, ended \cup {d}}
          /\ connectQueued' = [connectQueued EXCEPT ![d] = 0]
          /\ \E x \in {0, v} : connectInFlight' = [connectInFlight EXCEPT ![d] = x]
      BY <1>2, <2>1, SubmitConnectOn
    <3>2. QED
      BY <1>2, <3>1 DEF Connect, HandlerOn, TearOn, SameFlags, Ground, IInv, FlagsTyped
  <2>3. One(d, "connect") /\ Queued(d, "connect") = {} /\ Replied(d, "connect") = {}
    BY <1>1, <1>4 DEF Tracked, ConnectTracked
  <2>4. Replied(d, "connect")' = {} /\ Single(results', "connect", d)
    BY <1>1, <2>3 DEF Replied, One
  <2>5. Tracked(d)'
    BY <1>1, <1>2, <2>1, <2>2, <2>3, <2>4, SubmitTracks
  <2>6. QED
    BY <1>1, <2>2, <2>5, HandlerKeeps
<1>5. QED
  BY <1>3, <1>4

(* The result of an allocation, for the call itself: the three outcomes.   *)
LEMMA AllocationFailedTracks ==
    ASSUME Ground, Ground', PoolInv, NEW d \in Calls, d \in used, HandlerOn(d), Tracked(d),
           Received("allocate"), Head(results).call = d, ~Head(results).ok,
           pending' = pending \ {d}, AllocateFailed(d), known' = known
    PROVE  Tracked(d)'
<1>1. FlagsAgree(d) /\ AllocationTracked(d) /\ ReleaseTracked(d) /\ PortsTracked(d)
  BY DEF Tracked
<1>2. /\ Head(results) \in Replied(d, "allocate") /\ Replied(d, "allocate")' = {}
      /\ Queued(d, "allocate") = {} /\ Single(results', "allocate", d)
  BY <1>1, RepliedTaken DEF AllocationTracked
<1>3. d \notin allocated /\ d \notin releasing
  BY <1>1, <1>2 DEF AllocationTracked, FlagsAgree
<1>4. /\ allocated' = allocated /\ UNCHANGED <<releasing, urgent>>
      /\ d \notin reserved' /\ d \notin pending' /\ d \in ended'
  BY <1>3 DEF AllocateFailed, Finish, ReleaseReservation
<1>5. FlagsAgree(d)'
  BY <1>3, <1>4 DEF FlagsAgree
<1>6. Gone(d) => Gone(d)'
  BY HandlerQuietStays, GoneStays DEF HandlerOn, PoolInv
<1>7. Queued(d, "allocate")' = {} /\ Queue(d, "allocate")' = Queue(d, "allocate")
  BY <1>2 DEF Queued, Queue, HandlerOn
<1>8. AllocationTracked(d)'
  BY <1>1, <1>2, <1>4, <1>7 DEF AllocationTracked, One
<1>9. SameItems(d, "release")
  <2>1. results # <<>> /\ Head(results).op # "release" /\ results' = Tail(results)
    BY DEF Received
  <2>2. /\ Replied(d, "release")' = Replied(d, "release")
        /\ Single(results, "release", d) => Single(results', "release", d)
    BY <2>1, RepliedKept
  <2>3. /\ Queue(d, "release")' = Queue(d, "release")
        /\ Queued(d, "release")' = Queued(d, "release")
    BY <1>4 DEF Queue, Queued, HandlerOn
  <2>4. QED
    BY <2>2, <2>3 DEF SameItems, One
<1>10. ReleaseTracked(d)'
  BY <1>1, <1>3, <1>4, <1>6, <1>9 DEF ReleaseTracked, SameItems
<1>11. ~PortsOpen(d)'
  BY <1>1, <1>2 DEF PortsTracked, PortsOpen, HandlerOn
<1>12. QED
  BY <1>4, <1>5, <1>8, <1>10, <1>11
     DEF Tracked, PortsTracked, ConnectTracked, Untouched, HandlerOn

LEMMA AllocatedTooLateTracks ==
    ASSUME Ground, Ground', PoolInv, NEW d \in Calls, d \in used, HandlerOn(d), Tracked(d),
           Received("allocate"), Head(results).call = d, d \in ended, ended' = ended,
           pending' = pending \ {d}, d \in known, known' = known,
           ReleaseMedia(d, allocated \cup {d}, retry)
    PROVE  Tracked(d)'
<1>1. FlagsAgree(d) /\ AllocationTracked(d) /\ ReleaseTracked(d) /\ PortsTracked(d)
  BY DEF Tracked
<1>2. /\ Head(results) \in Replied(d, "allocate") /\ Replied(d, "allocate")' = {}
      /\ Queued(d, "allocate") = {} /\ Single(results', "allocate", d)
  BY <1>1, RepliedTaken DEF AllocationTracked
<1>3. results # <<>> /\ Head(results).op # "release" /\ results' = Tail(results)
  BY DEF Received
<1>4. /\ d \in reserved => d \notin pending'
      /\ d \notin reserved => d \notin pending' /\ Gone(d)
  BY <1>1, <1>2 DEF AllocationTracked, FlagsAgree
<1> DEFINE al == allocated \cup {d}
<1>5. /\ d \in al
      /\ \/ d \in reserved /\ (d \in al <=> d \notin pending')
         \/ d \notin reserved /\ d \notin pending' /\ (d \in al => Gone(d))
  BY <1>4
<1> HIDE DEF al
<1>6. /\ FlagsAgree(d)' /\ ReleaseTracked(d)' /\ (d \in reserved' => d \in reserved)
      /\ ~GenerationGone(d) => (d \in reserved <=> d \in reserved')
  <2>1. ReleaseMedia(d, al, retry) /\ d \in ended' /\ d \in known'
    BY DEF al
  <2>2. QED
    BY <1>3, <1>5, <2>1, ReleaseMediaTracks
<1>7. Queued(d, "allocate")' = {} /\ Queue(d, "allocate")' = Queue(d, "allocate")
  BY <1>2 DEF Queued, Queue, HandlerOn
<1>8. AllocationTracked(d)'
  BY <1>1, <1>2, <1>4, <1>7 DEF AllocationTracked, One
<1>9. PortsTracked(d)'
  <2>1. Replied(d, "release")' = Replied(d, "release")
    BY <1>3, RepliedKept
  <2>2. PortsOpen(d)' => PortsOpen(d) /\ ~GenerationGone(d)
    BY OpenIsNotGone DEF PortsOpen, HandlerOn
  <2>3. QED
    BY <1>1, <1>2, <1>6, <1>7, <2>1, <2>2 DEF PortsTracked
<1>10. QED
  BY <1>6, <1>8, <1>9 DEF Tracked, ConnectTracked, Untouched, HandlerOn

LEMMA AllocatedTracks ==
    ASSUME Ground, Ground', PoolInv, NEW d \in Calls, d \in used, HandlerOn(d), Tracked(d),
           Received("allocate"), Head(results).call = d, d \notin ended,
           pending' = pending \ {d}, allocated' = allocated \cup {d}, known' = known,
           UNCHANGED <<quotaVars, releasing, ended, urgent, connectVars>>
    PROVE  Tracked(d)'
<1>1. FlagsAgree(d) /\ AllocationTracked(d) /\ ReleaseTracked(d) /\ PortsTracked(d)
  BY DEF Tracked
<1>2. /\ Head(results) \in Replied(d, "allocate") /\ Replied(d, "allocate")' = {}
      /\ Queued(d, "allocate") = {} /\ Single(results', "allocate", d)
  BY <1>1, RepliedTaken DEF AllocationTracked
<1>3. d \in pending /\ d \in reserved /\ d \notin releasing
  BY <1>1, <1>2 DEF AllocationTracked, FlagsAgree
<1>4. FlagsAgree(d)'
  BY <1>1, <1>3 DEF FlagsAgree, quotaVars
<1>5. Gone(d) => Gone(d)'
  BY HandlerQuietStays, GoneStays DEF HandlerOn, PoolInv
<1>6. Queued(d, "allocate")' = {} /\ Queue(d, "allocate")' = Queue(d, "allocate")
  BY <1>2 DEF Queued, Queue, HandlerOn
<1>7. AllocationTracked(d)'
  BY <1>1, <1>2, <1>6 DEF AllocationTracked, One
<1>8. SameItems(d, "release") /\ SameItems(d, "connect")
  <2>1. ASSUME NEW op \in {"release", "connect"} PROVE SameItems(d, op)
    <3>1. results # <<>> /\ Head(results).op # op /\ results' = Tail(results)
      BY DEF Received
    <3>2. /\ Replied(d, op)' = Replied(d, op)
          /\ Single(results, op, d) => Single(results', op, d)
      BY <3>1, RepliedKept
    <3>3. Queue(d, op)' = Queue(d, op) /\ Queued(d, op)' = Queued(d, op)
      BY DEF Queue, Queued, HandlerOn
    <3>4. QED
      BY <3>2, <3>3 DEF SameItems, One
  <2>2. QED
    BY <2>1
<1>9. ReleaseTracked(d)'
  BY <1>1, <1>5, <1>8 DEF ReleaseTracked, SameItems, quotaVars
<1>10. PortsTracked(d)'
  BY <1>1, <1>2, <1>6, <1>8 DEF PortsTracked, PortsOpen, SameItems, quotaVars, HandlerOn
<1>11. ConnectTracked(d)'
  BY <1>8 DEF Tracked, ConnectTracked, SameItems, connectVars, HandlerOn
<1>12. QED
  BY <1>4, <1>7, <1>9, <1>10, <1>11 DEF Tracked, Untouched, HandlerOn

LEMMA AllocateResultKeeps ==
    ASSUME Ground, Ground', PoolInv, \A c \in Calls : Tracked(c), AllocateResult
    PROVE  PoolInv' /\ \A c \in Calls : Tracked(c)'
<1> DEFINE r == Head(results)
<1>1. PICK d \in Calls : d = r.call /\ d \in known /\ d \in used
  BY ReceivedTyped DEF AllocateResult, Ground, IInv, FlagsTyped
<1>2. /\ Received("allocate") /\ pending' = pending \ {d} /\ known' = known
      /\ UNCHANGED <<gen, status, jobs, sessions, target, failures, used, worker, generation,
                     connectVersion, connectInFlight>>
      /\ results # <<>> /\ results' = Tail(results)
  BY <1>1 DEF AllocateResult, Received
<1>3. CASE ~r.ok /\ AllocateFailed(d)
  <2>1. /\ TearOn(d) /\ ended' = ended \cup {d}
        /\ connectQueued' = [connectQueued EXCEPT ![d] = 0]
    BY <1>3, FinishOn DEF AllocateFailed
  <2>2. HandlerOn(d)
    BY <1>1, <1>2, <2>1 DEF HandlerOn, TearOn, SameFlags, Ground, IInv, FlagsTyped
  <2>3. Tracked(d)'
    BY <1>1, <1>2, <1>3, <2>2, AllocationFailedTracks
  <2>4. QED
    BY <1>1, <2>2, <2>3, HandlerKeeps
<1>4. CASE /\ r.ok /\ d \in ended
           /\ ReleaseMedia(d, allocated \cup {d}, retry)
           /\ UNCHANGED <<ended, connectQueued>>
  <2>1. TearOn(d)
    BY <1>4, ReleaseMediaOn
  <2>2. HandlerOn(d)
    BY <1>1, <1>2, <1>4, <2>1 DEF HandlerOn, TearOn, SameFlags
  <2>3. Tracked(d)'
    BY <1>1, <1>2, <1>4, <2>2, AllocatedTooLateTracks
  <2>4. QED
    BY <1>1, <2>2, <2>3, HandlerKeeps
<1>5. CASE /\ r.ok /\ d \notin ended
           /\ allocated' = allocated \cup {d}
           /\ UNCHANGED <<quotaVars, releasing, ended, urgent, connectQueued>>
  <2>1. HandlerOn(d)
    BY <1>1, <1>2, <1>5 DEF HandlerOn, HandlerUrgent, SameFlags, quotaVars, Ground, IInv,
                            QuotaCounted
  <2>2. Tracked(d)'
    BY <1>1, <1>2, <1>5, <2>1, AllocatedTracks DEF connectVars
  <2>3. QED
    BY <1>1, <2>1, <2>2, HandlerKeeps
<1>6. QED
  BY <1>1, <1>3, <1>4, <1>5 DEF AllocateResult

(* The result of a connect.                                                *)
LEMMA ConnectResultKeeps ==
    ASSUME Ground, Ground', PoolInv, \A c \in Calls : Tracked(c), ConnectResult
    PROVE  PoolInv' /\ \A c \in Calls : Tracked(c)'
<1> DEFINE r == Head(results)
<1>1. PICK d \in Calls : d = r.call /\ d \in known /\ d \in used
  BY ReceivedTyped DEF ConnectResult, Ground, IInv, FlagsTyped
<1>2. /\ Received("connect") /\ known' = known
      /\ UNCHANGED <<gen, status, jobs, sessions, target, failures, used, known, worker,
                     generation, pending, connectVersion>>
      /\ results # <<>> /\ r.op = "connect" /\ results' = Tail(results) /\ r.call = d
  BY <1>1 DEF ConnectResult, Received
<1>3. d \notin ended =>
         /\ r \in Replied(d, "connect") /\ Replied(d, "connect")' = {}
         /\ Queued(d, "connect") = {} /\ Single(results', "connect", d)
  <2>1. d \notin ended => One(d, "connect")
    BY <1>1 DEF Tracked, ConnectTracked
  <2>2. QED
    BY <1>2, <2>1, RepliedTaken
<1>4. d \notin ended =>
         /\ connectInFlight[d] # 0 /\ r.ver = connectInFlight[d]
         /\ r.ok => target[d] = connectInFlight[d]
         /\ connectQueued[d] # 0 => connectQueued[d] = connectVersion[d]
         /\ connectQueued[d] = 0 => connectInFlight[d] = connectVersion[d]
  BY <1>1, <1>3 DEF Tracked, ConnectTracked
<1>5. connectQueued[d] \in Versions
  BY DEF Ground, IInv, FlagsTyped
<1>6. CASE d \notin ended /\ Superseded(d) /\ SubmitConnect(d, connectQueued[d])
  <2>1. /\ TearOn(d) /\ ended' \in {ended, ended \cup {d}}
        /\ connectQueued' = [connectQueued EXCEPT ![d] = 0]
        /\ \E x \in {0, connectQueued[d]} : connectInFlight' = [connectInFlight EXCEPT ![d] = x]
    BY <1>5, <1>6, SubmitConnectOn
  <2>2. HandlerOn(d)
    BY <1>2, <2>1 DEF HandlerOn, TearOn, SameFlags, Ground, IInv, FlagsTyped
  <2>3. connectQueued[d] # 0 /\ connectVersion'[d] = connectQueued[d]
    BY <1>2, <1>4, <1>6 DEF Superseded
  <2>4. Tracked(d)'
    BY <1>1, <1>2, <1>3, <1>5, <1>6, <2>2, <2>3, SubmitTracks
  <2>5. QED
    BY <1>1, <2>2, <2>4, HandlerKeeps
<1>7. CASE /\ connectInFlight' = [connectInFlight EXCEPT ![d] = 0]
           /\ Finish(d, allocated, pending)
  <2>1. /\ TearOn(d) /\ ended' = ended \cup {d}
        /\ connectQueued' = [connectQueued EXCEPT ![d] = 0]
    BY <1>7, FinishOn
  <2>2. HandlerOn(d)
    BY <1>2, <1>7, <2>1 DEF HandlerOn, TearOn, SameFlags, Ground, IInv, FlagsTyped
  <2>3. Tracked(d)'
    BY <1>1, <1>2, <1>7, <2>2, FinishTracks
  <2>4. QED
    BY <1>1, <2>2, <2>3, HandlerKeeps
<1>8. CASE /\ \/ r.ver # connectInFlight[d] /\ UNCHANGED <<connectInFlight, connectQueued>>
              \/ /\ d \in ended \/ ~Superseded(d)
                 /\ ~Rejected(r)
                 /\ connectInFlight' = [connectInFlight EXCEPT ![d] = 0]
                 /\ connectQueued' = [connectQueued EXCEPT ![d] = 0]
           /\ UNCHANGED <<quotaVars, allocated, releasing, ended, urgent>>
  <2>1. HandlerOn(d)
    BY <1>2, <1>8 DEF HandlerOn, HandlerUrgent, SameFlags, quotaVars, Ground, IInv, FlagsTyped,
                      QuotaCounted
  <2>2. SameItems(d, "release") /\ SameItems(d, "allocate")
    <3>1. ASSUME NEW op \in {"release", "allocate"} PROVE SameItems(d, op)
      <4>1. /\ Replied(d, op)' = Replied(d, op)
            /\ Single(results, op, d) => Single(results', op, d)
        BY <1>2, RepliedKept
      <4>2. Queue(d, op)' = Queue(d, op) /\ Queued(d, op)' = Queued(d, op)
        BY <1>2, <1>8 DEF Queue, Queued
      <4>3. QED
        BY <4>1, <4>2 DEF SameItems, One
    <3>2. QED
      BY <3>1
  <2>3. SameFlags(d)
    BY <1>2, <1>8 DEF SameFlags, quotaVars
  <2>4. (PortsOpen(d)' => PortsOpen(d)) /\ (Gone(d) => Gone(d)')
    BY <1>2, <1>8 DEF PortsOpen, Gone, Quiet
  <2>5. FlagsAgree(d)' /\ AllocationTracked(d)' /\ ReleaseTracked(d)' /\ PortsTracked(d)'
    BY <2>2, <2>3, <2>4, TearKept
  <2>6. ConnectTracked(d)'
    <3>1. SUFFICES ASSUME d \notin ended PROVE ConnectTracked(d)'
      BY <1>8 DEF ConnectTracked
    <3>2. connectQueued[d] = 0 /\ target[d] = connectVersion[d]
      BY <1>1, <1>4, <1>8, <3>1 DEF Superseded, Rejected
    <3>3. connectInFlight'[d] = 0 /\ connectQueued'[d] = 0
      BY <1>4, <1>8, <3>1 DEF Ground, IInv, FlagsTyped
    <3>4. Queued(d, "connect")' = {} /\ Queue(d, "connect")' = Queue(d, "connect")
      BY <1>2, <1>3, <1>8, <3>1 DEF Queued, Queue
    <3>5. One(d, "connect")'
      BY <1>1, <1>3, <3>1, <3>4 DEF Tracked, ConnectTracked, One
    <3>6. QED
      BY <1>2, <1>3, <3>1, <3>2, <3>3, <3>4, <3>5 DEF ConnectTracked
  <2>7. Tracked(d)'
    BY <1>1, <1>2, <2>5, <2>6 DEF Tracked, Untouched
  <2>8. QED
    BY <1>1, <2>1, <2>7, HandlerKeeps
<1>9. QED
  BY <1>1, <1>6, <1>7, <1>8 DEF ConnectResult

(* The result of a release.                                                *)
LEMMA ReleaseResultTracks ==
    ASSUME Ground, Ground', PoolInv, NEW d \in Calls, d \in used, HandlerOn(d), Tracked(d),
           Received("release"), Head(results).call = d, d \in ended, ended' = ended,
           UNCHANGED <<known, pending, urgent>>, releasing' = releasing \ {d},
           \/ allocated' = allocated \ {d} /\ ReleaseReservation(d)
           \/ ReleaseFailed(d, allocated, retry)
    PROVE  Tracked(d)'
<1>1. FlagsAgree(d) /\ AllocationTracked(d) /\ ReleaseTracked(d) /\ PortsTracked(d)
  BY DEF Tracked
<1>2. /\ Head(results) \in Replied(d, "release") /\ Replied(d, "release")' = {}
      /\ Queued(d, "release") = {} /\ Single(results', "release", d)
  BY <1>1, RepliedTaken DEF ReleaseTracked
<1>3. d \notin pending /\ (d \in reserved => d \in releasing)
  BY <1>1, <1>2 DEF ReleaseTracked, FlagsAgree
<1>4. d \notin reserved => GenerationGone(d)
  BY <1>1, <1>2, GoneGeneration DEF ReleaseTracked, FlagsAgree
<1>5. \/ d \notin allocated' /\ d \notin reserved'
      \/ allocated' = allocated /\ reserved' = reserved /\ d \in retry' /\ d \in reserved
  BY <1>4 DEF ReleaseFailed, ReleaseReservation
<1>6. FlagsAgree(d)'
  BY <1>1, <1>3, <1>5 DEF FlagsAgree
<1>7. Gone(d) => Gone(d)'
  BY HandlerQuietStays, GoneStays DEF HandlerOn, PoolInv
<1>8. SameItems(d, "allocate")
  <2>1. results # <<>> /\ Head(results).op # "allocate" /\ results' = Tail(results)
    BY DEF Received
  <2>2. /\ Replied(d, "allocate")' = Replied(d, "allocate")
        /\ Single(results, "allocate", d) => Single(results', "allocate", d)
    BY <2>1, RepliedKept
  <2>3. /\ Queue(d, "allocate")' = Queue(d, "allocate")
        /\ Queued(d, "allocate")' = Queued(d, "allocate")
    BY DEF Queue, Queued, HandlerOn
  <2>4. QED
    BY <2>2, <2>3 DEF SameItems, One
<1>9. AllocationTracked(d)'
  BY <1>1, <1>3, <1>5, <1>7, <1>8 DEF AllocationTracked, SameItems
<1>10. ReleaseTracked(d)'
  <2>1. Queued(d, "release")' = {} /\ Queue(d, "release")' = Queue(d, "release")
    BY <1>2 DEF Queued, Queue, HandlerOn
  <2>2. QED
    BY <1>1, <1>2, <2>1 DEF ReleaseTracked, One
<1>11. ~PortsOpen(d)'
  BY <1>1, <1>2 DEF PortsTracked, PortsOpen, HandlerOn
<1>12. QED
  BY <1>6, <1>9, <1>10, <1>11 DEF Tracked, PortsTracked, ConnectTracked, Untouched, HandlerOn

LEMMA ReleaseResultKeeps ==
    ASSUME Ground, Ground', PoolInv, \A c \in Calls : Tracked(c), ReleaseResult
    PROVE  PoolInv' /\ \A c \in Calls : Tracked(c)'
<1> DEFINE r == Head(results)
<1>1. PICK d \in Calls : d = r.call /\ d \in known /\ d \in used /\ d \in ended
  BY ReceivedTyped DEF ReleaseResult, Ground, IInv, FlagsTyped, EndedResult
<1>2. /\ Received("release") /\ releasing' = releasing \ {d}
      /\ \/ allocated' = allocated \ {d} /\ ReleaseReservation(d)
         \/ ReleaseFailed(d, allocated, retry)
      /\ UNCHANGED <<gen, status, jobs, urgent, sessions, target, failures, used, known,
                     worker, generation, pending, ended, connectVars>>
      /\ results # <<>> /\ results' = Tail(results)
  BY <1>1 DEF ReleaseResult, Received
<1>3. HandlerOn(d)
  <2>1. \A w \in Workers : workerLoads'[w] <= workerLoads[w]
    <3>1. workerLoads \in [Workers -> Nat]
      BY DEF Ground, IInv, QuotaCounted
    <3>2. QED
      BY <1>2, <3>1, ReservationGoesDown DEF ReleaseFailed
  <2>2. QED
    BY <1>1, <1>2, <2>1 DEF HandlerOn, HandlerUrgent, SameFlags, connectVars, ReleaseFailed,
                            ReleaseReservation
<1>4. Tracked(d)'
  BY <1>1, <1>2, <1>3, ReleaseResultTracks
<1>5. QED
  BY <1>1, <1>3, <1>4, HandlerKeeps

(* The retry timer of a release.                                           *)
LEMMA ReleaseRetryKeeps ==
    ASSUME Ground, Ground', PoolInv, \A c \in Calls : Tracked(c), NEW d \in Calls,
           ReleaseRetry(d)
    PROVE  PoolInv' /\ \A c \in Calls : Tracked(c)'
<1>1. /\ d \in known /\ d \in used
      /\ UNCHANGED <<gen, status, jobs, sessions, target, results, failures, used, known,
                     worker, generation, pending, ended, connectVars>>
  BY DEF ReleaseRetry, Ground, IInv, FlagsTyped
<1>2. FlagsAgree(d)
  BY DEF Tracked
<1>3. CASE d \in ended /\ ReleaseMedia(d, allocated, retry \ {d})
  <2>1. TearOn(d)
    BY <1>3, ReleaseMediaOn
  <2>2. HandlerOn(d)
    BY <1>1, <2>1 DEF HandlerOn, TearOn, SameFlags, connectVars
  <2>3. \/ d \in reserved /\ (d \in allocated <=> d \notin pending')
        \/ d \notin reserved /\ d \notin pending' /\ (d \in allocated => Gone(d))
    BY <1>1, <1>2 DEF FlagsAgree
  <2>4. /\ FlagsAgree(d)' /\ ReleaseTracked(d)' /\ (d \in reserved' => d \in reserved)
        /\ ~GenerationGone(d) => (d \in reserved <=> d \in reserved')
    BY <1>1, <1>3, <2>2, <2>3, ReleaseMediaTracks
  <2>5. Tracked(d)'
    BY <1>1, <1>3, <2>2, <2>4, EndedTracks
  <2>6. QED
    BY <1>1, <2>2, <2>5, HandlerKeeps
<1>4. CASE /\ d \notin ended /\ retry' = retry \ {d}
           /\ UNCHANGED <<reserved, workerLoads, active, allocated, releasing, urgent>>
  <2>1. HandlerOn(d)
    BY <1>1, <1>4 DEF HandlerOn, HandlerUrgent, SameFlags, connectVars, Ground, IInv,
                      QuotaCounted
  <2>2. \A op \in Ops : SameItems(d, op)
    BY <1>1, <1>4, ItemsKept
  <2>3. SameItems(d, "allocate") /\ SameItems(d, "release") /\ SameItems(d, "connect")
    BY <2>2 DEF Ops
  <2>4. Gone(d) => Gone(d)'
    BY <1>1, <1>4 DEF Gone, Quiet
  <2>5. FlagsAgree(d)'
    BY <1>1, <1>2, <1>4 DEF FlagsAgree
  <2>6. AllocationTracked(d)' /\ ReleaseTracked(d)'
    BY <1>1, <1>4, <2>3, <2>4 DEF Tracked, AllocationTracked, ReleaseTracked, SameItems
  <2>7. PortsTracked(d)'
    BY <1>1, <1>4, <2>3 DEF Tracked, PortsTracked, PortsOpen, SameItems
  <2>8. ConnectTracked(d)' /\ Untouched(d)'
    BY <1>1, <1>4, <2>3 DEF Tracked, ConnectTracked, Untouched, SameItems, connectVars
  <2>9. Tracked(d)'
    BY <2>5, <2>6, <2>7, <2>8 DEF Tracked
  <2>10. QED
    BY <1>1, <2>1, <2>9, HandlerKeeps
<1>5. QED
  BY <1>3, <1>4 DEF ReleaseRetry

(* An ended call is forgotten, or a result of a forgotten call is dropped. *)
LEMMA CallGCKeeps ==
    ASSUME Ground, Ground', PoolInv, \A c \in Calls : Tracked(c), NEW d \in Calls, CallGC(d)
    PROVE  PoolInv' /\ \A c \in Calls : Tracked(c)'
<1>1. UNCHANGED <<poolVars, used, worker, generation, quotaVars, pending, allocated,
                  releasing, ended, connectVars>>
  BY DEF CallGC
<1>2. d \in used /\ d \in known /\ d \notin reserved /\ known' = known \ {d}
  BY DEF CallGC, Collectable, Ground, IInv, FlagsTyped
<1>3. HandlerOn(d)
  BY <1>1, <1>2 DEF HandlerOn, HandlerUrgent, SameFlags, poolVars, quotaVars, connectVars,
                    Ground, IInv, QuotaCounted
<1>4. Tracked(d)'
  <2>1. SameFlags(d) /\ SameTarget(d)
    BY <1>1, <1>2 DEF SameFlags, SameTarget, poolVars, quotaVars, connectVars
  <2>2. \A op \in Ops : SameItems(d, op)
    BY <1>1, ItemsKept DEF poolVars
  <2>3. (PortsOpen(d)' => PortsOpen(d)) /\ (Gone(d) => Gone(d)')
    BY <1>1 DEF PortsOpen, Gone, Quiet, poolVars
  <2>4. QED
    BY <2>1, <2>2, <2>3, CallKept
<1>5. QED
  BY <1>2, <1>3, <1>4, HandlerKeeps

LEMMA DropResultKeeps ==
    ASSUME Ground, Ground', PoolInv, \A c \in Calls : Tracked(c), DropResult
    PROVE  PoolInv' /\ \A c \in Calls : Tracked(c)'
<1>1. /\ UNCHANGED <<gen, status, jobs, urgent, sessions, target, failures, callVars>>
      /\ results # <<>> /\ results' = Tail(results) /\ Head(results).call \notin known
  BY DEF DropResult
<1>2. PICK d \in Calls : d = Head(results).call /\ d \in used
  <2>1. Head(results) \in UsedResult
    BY <1>1, HeadTailProperties DEF PoolInv, ItemsOwned
  <2>2. QED
    BY <2>1 DEF UsedResult, Ground, IInv, FlagsTyped
<1>3. HandlerOn(d)
  BY <1>1, <1>2 DEF HandlerOn, HandlerUrgent, SameFlags, callVars, Ground, IInv, QuotaCounted
<1>4. FlagsAgree(d) /\ AllocationTracked(d) /\ ReleaseTracked(d) /\ PortsTracked(d)
  BY DEF Tracked
<1>5. d \notin known /\ d \notin reserved /\ d \notin pending /\ d \notin allocated /\ d \notin releasing
  BY <1>1, <1>2, <1>4 DEF FlagsAgree
<1>6. ASSUME NEW op \in {"allocate", "release"}
      PROVE  /\ Queued(d, op)' = Queued(d, op) /\ (One(d, op) => One(d, op)')
             /\ Replied(d, op)' # {} => Replied(d, op) # {}
  <2>1. Queue(d, op)' = Queue(d, op) /\ Queued(d, op)' = Queued(d, op)
    BY <1>1 DEF Queue, Queued, callVars
  <2>2. /\ Single(results, op, d) => Single(results', op, d)
        /\ Replied(d, op)' # {} => Replied(d, op) # {}
    BY <1>1, ReceivedItems
  <2>3. QED
    BY <2>1, <2>2 DEF One
<1>7. Gone(d) => Gone(d)'
  BY <1>1 DEF Gone, Quiet, callVars
<1>8. FlagsAgree(d)'
  BY <1>1, <1>4 DEF FlagsAgree, callVars
<1>9. AllocationTracked(d)' /\ ReleaseTracked(d)'
  BY <1>1, <1>4, <1>5, <1>6, <1>7 DEF AllocationTracked, ReleaseTracked, callVars
<1>10. ~PortsOpen(d)'
  BY <1>1, <1>4, <1>5 DEF PortsTracked, PortsOpen, callVars
<1>11. Tracked(d)'
  BY <1>1, <1>2, <1>5, <1>8, <1>9, <1>10
     DEF Tracked, PortsTracked, ConnectTracked, Untouched, callVars
<1>12. QED
  BY <1>2, <1>3, <1>11, HandlerKeeps

-----------------------------------------------------------------------------
(* workerFailed takes the flags of many calls back at once; all of them    *)
(* are Gone.                                                               *)

LEMMA WorkerFailedKeeps ==
    ASSUME Ground, Ground', PoolInv, \A c \in Calls : Tracked(c), WorkerFailed
    PROVE  PoolInv' /\ \A c \in Calls : Tracked(c)'
<1> DEFINE f == Head(failures)
           lost == Owned(f)
<1>1. /\ failures # <<>> /\ failures' = Tail(failures)
      /\ pending' = pending \ lost /\ allocated' = allocated \ lost
      /\ releasing' = releasing \ lost /\ ended' = ended \cup lost
      /\ retry' = retry \ lost /\ reserved' = reserved \ lost
      /\ workerLoads' = [workerLoads EXCEPT ![f.worker] = @ - Cardinality(lost \cap reserved)]
      /\ connectInFlight' = [c \in Calls |-> IF c \in lost THEN 0 ELSE connectInFlight[c]]
      /\ connectQueued' = [c \in Calls |-> IF c \in lost THEN 0 ELSE connectQueued[c]]
      /\ UNCHANGED <<gen, status, jobs, urgent, sessions, target, results, used, known,
                     worker, generation, connectVersion>>
  BY DEF WorkerFailed
<1>2. f \in Failure /\ Past(f) /\ FailuresPast'
  <2>1. failures \in Seq(Failure)
    BY DEF Ground, IInv, ProcessTyped
  <2>2. /\ f \in Failure /\ f = failures[1] /\ Len(failures) \in Nat /\ Len(failures) >= 1
        /\ Len(failures') = Len(failures) - 1
        /\ \A i \in 1..(Len(failures) - 1) : failures'[i] = failures[i + 1]
    BY <1>1, <2>1, HeadTailProperties, LenProperties, EmptySeq
  <2> HIDE DEF f
  <2>3. \A i \in 1..Len(failures') : i + 1 \in 1..Len(failures) /\ failures'[i] = failures[i + 1]
    BY <2>2
  <2>4. 1 \in 1..Len(failures)
    BY <2>2
  <2>5. Past(f)
    BY <2>2, <2>4 DEF PoolInv, FailuresPast
  <2>6. \A i \in 1..Len(failures') : Past(failures'[i])
    BY <2>3 DEF PoolInv, FailuresPast
  <2>7. FailuresPast'
    BY <1>1, <2>6 DEF FailuresPast, Past, Quiet
  <2>8. QED
    BY <2>2, <2>5, <2>7
<1> HIDE DEF f
<1>3. \A c \in lost : c \in Calls /\ c \in known /\ c \in used /\ Gone(c)
  <2>1. f.worker \in Workers /\ \A w \in Workers : gen[w] \in Int
    BY <1>2 DEF Failure, Ground, IInv, ProcessTyped, Generations
  <2>2. QED
    BY <1>2, <2>1 DEF Owned, Past, Gone, Ground, IInv, FlagsTyped
<1>4. PoolInv'
  <2>1. ItemsOwned' /\ SessionsOwned' /\ NeverAhead'
    <3>1. UsedResult' = UsedResult /\ \A v \in Workers : OwnJob(v)' = OwnJob(v)
      BY <1>1 DEF OwnJob, UsedResult
    <3>2. QED
      BY <1>1, <3>1 DEF PoolInv, ItemsOwned, SessionsOwned, NeverAhead
  <2>2. LoadsLimited'
    <3>1. Cardinality(lost \cap reserved) \in Nat
      <4>1. lost \cap reserved \subseteq Calls
        BY <1>3
      <4>2. IsFiniteSet(lost \cap reserved)
        BY <4>1, FS_Subset
      <4>3. QED
        BY <4>2, FS_CardinalityType
    <3>2. workerLoads \in [Workers -> Nat]
      BY DEF Ground, IInv, QuotaCounted
    <3> HIDE DEF lost
    <3>3. QED
      BY <1>1, <3>1, <3>2 DEF LoadsLimited, PoolInv
  <2>3. QED
    BY <1>2, <2>1, <2>2 DEF PoolInv
<1>5. ASSUME NEW c \in Calls PROVE Tracked(c)'
  <2> HIDE DEF lost
  <2>1. \A op \in Ops : SameItems(c, op)
    BY <1>1, ItemsKept
  <2>2. SameItems(c, "allocate") /\ SameItems(c, "release")
    BY <2>1 DEF Ops
  <2>3. (PortsOpen(c)' => PortsOpen(c)) /\ (Gone(c) => Gone(c)')
    BY <1>1 DEF PortsOpen, Gone, Quiet
  <2>4. CASE c \notin lost
    <3>1. SameFlags(c) /\ SameTarget(c)
      BY <1>1, <2>4 DEF SameFlags, SameTarget
    <3>2. QED
      BY <2>1, <2>3, <3>1, CallKept
  <2>5. CASE c \in lost
    <3>1. /\ c \notin pending' /\ c \notin allocated' /\ c \notin releasing'
          /\ c \notin reserved' /\ c \in ended'
      BY <1>1, <2>5
    <3>2. Gone(c) /\ Gone(c)' /\ ~PortsOpen(c)
      BY <1>3, <2>3, <2>5, OpenIsNotGone
    <3>3. Queued(c, "allocate") = {} /\ Queued(c, "release") = {}
      BY <3>2, GoneHasNoCommands
    <3>4. FlagsAgree(c)'
      BY <3>1 DEF FlagsAgree
    <3>5. AllocationTracked(c)' /\ ReleaseTracked(c)'
      BY <2>2, <3>1, <3>2, <3>3 DEF Tracked, AllocationTracked, ReleaseTracked, SameItems
    <3>6. PortsTracked(c)' /\ ConnectTracked(c)'
      BY <2>3, <3>1, <3>2 DEF PortsTracked, ConnectTracked
    <3>7. Untouched(c)'
      BY <1>1, <1>3, <2>5 DEF Untouched
    <3>8. QED
      BY <3>4, <3>5, <3>6, <3>7 DEF Tracked
  <2>6. QED
    BY <2>4, <2>5
<1>6. QED
  BY <1>4, <1>5

-----------------------------------------------------------------------------
(* Admission: an identity nothing in the pool has heard of.                *)

LEMMA FreshHasNoItems ==
    ASSUME Ground, PoolInv, NEW c \in Calls, c \notin used, NEW op, NEW w \in Workers
    PROVE  /\ Items(jobs[w], op, c) = {} /\ Single(jobs[w], op, c)
           /\ Items(urgent[w], op, c) = {} /\ Single(urgent[w], op, c)
           /\ Items(results, op, c) = {} /\ Single(results, op, c)
<1>1. /\ jobs[w] \in Seq({j \in OwnJob(w) : j.op = "allocate"})
      /\ urgent[w] \in Seq({j \in OwnJob(w) : j.op # "allocate"})
      /\ results \in Seq(UsedResult)
  BY DEF PoolInv, ItemsOwned
<1>2. /\ \A i \in 1..Len(jobs[w]) : jobs[w][i].call # c
      /\ \A i \in 1..Len(urgent[w]) : urgent[w][i].call # c
      /\ \A i \in 1..Len(results) : results[i].call # c
  <2>1. \A i \in 1..Len(jobs[w]) : jobs[w][i] \in OwnJob(w)
    BY <1>1, ElementOfSeq
  <2>2. \A i \in 1..Len(urgent[w]) : urgent[w][i] \in OwnJob(w)
    BY <1>1, ElementOfSeq
  <2>3. \A i \in 1..Len(results) : results[i] \in UsedResult
    BY <1>1, ElementOfSeq
  <2>4. QED
    BY <2>1, <2>2, <2>3 DEF OwnJob, UsedResult
<1>3. QED
  BY <1>2 DEF Items, Single, Is

(* The two outcomes: the allocation is queued, or the call ends at once.   *)
Queues(c, w) ==
    /\ CanEnqueue(w, gen[w], "allocate")
    /\ jobs' = [jobs EXCEPT ![w] = Append(@, NewJob(c, gen[w], "allocate", 0))]
    /\ pending' = pending \cup {c}
    /\ reserved' = reserved \cup {c}
    /\ workerLoads' = [workerLoads EXCEPT ![w] = @ + 1]
    /\ UNCHANGED ended

Refuses(c) ==
    /\ ended' = ended \cup {c}
    /\ UNCHANGED <<jobs, pending, reserved, workerLoads>>

LEMMA AdmitEffect ==
    ASSUME Ground, NEW c \in Calls, NEW w \in Workers, Admit(c, w)
    PROVE  /\ c \notin used /\ workerLoads[w] < MaxCalls
           /\ used' = used \cup {c} /\ known' = known \cup {c}
           /\ worker' = [worker EXCEPT ![c] = w]
           /\ generation' = [generation EXCEPT ![c] = gen[w]]
           /\ Queues(c, w) \/ Refuses(c)
           /\ UNCHANGED <<gen, status, urgent, sessions, target, results, failures,
                          allocated, releasing, retry, connectVersion, connectInFlight,
                          connectQueued>>
           /\ worker'[c] = w /\ generation'[c] = gen[w]
           /\ \A d \in Calls \ {c} : worker'[d] = worker[d] /\ generation'[d] = generation[d]
<1>1. worker \in [Calls -> Workers] /\ generation \in [Calls -> Generations]
  BY DEF Ground, IInv, FlagsTyped
<1>2. workerLoads[w] < MaxCalls
  BY DEF Admit, Open
<1>3. Queues(c, w) \/ Refuses(c)
  BY DEF Admit, Queues, Refuses
<1>4. QED
  BY <1>1, <1>2, <1>3 DEF Admit, connectVars

LEMMA AdmitKeepsPool ==
    ASSUME Ground, Ground', PoolInv, NEW c \in Calls, NEW w \in Workers, Admit(c, w)
    PROVE  PoolInv' /\ QuietStays
<1>1. /\ c \notin used /\ workerLoads[w] < MaxCalls /\ used' = used \cup {c}
      /\ Queues(c, w) \/ Refuses(c)
      /\ UNCHANGED <<gen, status, urgent, sessions, results, failures>>
      /\ worker'[c] = w /\ generation'[c] = gen[w]
      /\ \A d \in Calls \ {c} : worker'[d] = worker[d] /\ generation'[d] = generation[d]
  BY AdmitEffect
<1> DEFINE j == NewJob(c, gen[w], "allocate", 0)
<1>2. j \in Job /\ j.call = c /\ j.op = "allocate" /\ j.gen = gen[w]
  BY DEF NewJob, Job, Ops, Versions, ProcessTyped, Ground, IInv
<1>3. jobs' = jobs \/ (Healthy(w) /\ jobs' = [jobs EXCEPT ![w] = Append(@, j)])
  BY <1>1 DEF Queues, Refuses, CanEnqueue
<1> HIDE DEF j
<1>4. /\ used \subseteq Calls /\ jobs \in [Workers -> Seq(Job)]
      /\ \A v \in Workers : gen[v] \in Int
  <2>1. used \subseteq Calls /\ jobs \in [Workers -> Seq(Job)]
    BY DEF Ground, IInv, FlagsTyped, QueuesFollowProcess
  <2>2. \A v \in Workers : gen[v] \in Int
    BY DEF Ground, IInv, ProcessTyped, Generations
  <2>3. QED
    BY <2>1, <2>2
<1>5. QuietStays
  <2>1. gen' = gen /\ \A v \in Workers : gen'[v] >= gen[v]
    BY <1>1, <1>4
  <2>2. \A v \in Workers : Quiet(v) => jobs'[v] = jobs[v]
    BY <1>3, <1>4 DEF Quiet, Healthy
  <2>3. status' = status /\ urgent' = urgent
    BY <1>1
  <2>4. QED
    BY <2>1, <2>2, <2>3 DEF QuietStays, Quiet
<1>6. ItemsOwned'
  <2>1. /\ \A v \in Workers : OwnJob(v) \subseteq OwnJob(v)'
        /\ UsedResult \subseteq UsedResult'
    BY <1>1, <1>4 DEF OwnJob, UsedResult
  <2>2. \A v \in Workers : /\ jobs[v] \in Seq({k \in OwnJob(v)' : k.op = "allocate"})
                           /\ urgent[v] \in Seq({k \in OwnJob(v)' : k.op # "allocate"})
    <3>1. ASSUME NEW v \in Workers
          PROVE  /\ jobs[v] \in Seq({k \in OwnJob(v)' : k.op = "allocate"})
                 /\ urgent[v] \in Seq({k \in OwnJob(v)' : k.op # "allocate"})
      <4>1. {k \in OwnJob(v) : k.op = "allocate"} \subseteq {k \in OwnJob(v)' : k.op = "allocate"}
        BY <2>1
      <4>2. {k \in OwnJob(v) : k.op # "allocate"} \subseteq {k \in OwnJob(v)' : k.op # "allocate"}
        BY <2>1
      <4>3. QED
        BY <4>1, <4>2, SeqMonotonic DEF PoolInv, ItemsOwned
    <3>2. QED
      BY <3>1
  <2>3. j \in {k \in OwnJob(w)' : k.op = "allocate"}
    BY <1>1, <1>2 DEF OwnJob
  <2>4. Append(jobs[w], j) \in Seq({k \in OwnJob(w)' : k.op = "allocate"})
    BY <2>2, <2>3, AppendProperties
  <2>5. \A v \in Workers : jobs'[v] \in Seq({k \in OwnJob(v)' : k.op = "allocate"})
    BY <1>3, <1>4, <2>2, <2>4
  <2>6. results \in Seq(UsedResult')
    BY <2>1, SeqMonotonic DEF PoolInv, ItemsOwned
  <2>7. QED
    BY <1>1, <2>2, <2>5, <2>6 DEF ItemsOwned
<1>7. SessionsOwned'
  <2>1. \A v \in Workers : \A d \in sessions[v] :
           d \in used /\ d \in Calls \ {c} /\ worker[d] = v /\ generation[d] = gen[v]
    BY <1>1, <1>4 DEF PoolInv, SessionsOwned
  <2>2. QED
    BY <1>1, <2>1 DEF PoolInv, SessionsOwned
<1>8. FailuresPast'
  <2>1. \A f \in Failure : Past(f) => Past(f)'
    BY <1>5, PastStays
  <2>2. \A i \in 1..Len(failures) : failures[i] \in Failure /\ Past(failures[i])
    BY ElementOfSeq DEF PoolInv, FailuresPast, Ground, IInv, ProcessTyped
  <2>3. QED
    BY <1>1, <2>1, <2>2 DEF FailuresPast, Past
<1>9. NeverAhead'
  BY <1>1, <1>4 DEF PoolInv, NeverAhead
<1>10. LoadsLimited'
  <2>1. workerLoads \in [Workers -> Nat]
    BY DEF Ground, IInv, QuotaCounted
  <2>2. QED
    BY <1>1, <2>1 DEF PoolInv, LoadsLimited, Queues, Refuses
<1>11. QED
  BY <1>5, <1>6, <1>7, <1>8, <1>9, <1>10 DEF PoolInv

LEMMA AdmitKeepsOthers ==
    ASSUME Ground, Ground', PoolInv, NEW c \in Calls, NEW w \in Workers, Admit(c, w),
           NEW d \in Calls, d # c, Tracked(d)
    PROVE  Tracked(d)'
<1>1. /\ used' = used \cup {c} /\ known' = known \cup {c}
      /\ Queues(c, w) \/ Refuses(c)
      /\ UNCHANGED <<gen, status, urgent, sessions, target, results, failures,
                     allocated, releasing, retry, connectVersion, connectInFlight,
                     connectQueued>>
      /\ worker'[d] = worker[d] /\ generation'[d] = generation[d]
  BY AdmitEffect
<1> DEFINE j == NewJob(c, gen[w], "allocate", 0)
<1>2. j \in Job /\ j.call = c
  BY DEF NewJob, Job, Ops, Versions, ProcessTyped, Ground, IInv
<1>3. jobs' = jobs \/ jobs' = [jobs EXCEPT ![w] = Append(@, j)]
  BY <1>1 DEF Queues, Refuses
<1> HIDE DEF j
<1>4. jobs \in [Workers -> Seq(Job)] /\ worker[d] \in Workers
  BY DEF Ground, IInv, FlagsTyped, QueuesFollowProcess
<1>5. ASSUME NEW op \in Ops PROVE SameItems(d, op)
  <2> DEFINE q == Queue(d, op)
  <2>1. ~Is(j, op, d)
    BY <1>2 DEF Is
  <2>2. q' = q \/ q' = Append(q, j)
    BY <1>1, <1>3, <1>4 DEF Queue
  <2>3. q \in Seq(Job)
    BY QueueTyped
  <2> HIDE DEF q
  <2>4. Items(q', op, d) = Items(q, op, d) /\ (Single(q, op, d) <=> Single(q', op, d))
    BY <1>2, <2>1, <2>2, <2>3, AppendOrSame
  <2>5. QED
    BY <1>1, <2>4 DEF SameItems, One, Queued, Replied, q
<1>6. SameFlags(d) /\ SameTarget(d)
  BY <1>1 DEF SameFlags, SameTarget, Queues, Refuses
<1>7. PortsOpen(d)' => PortsOpen(d)
  BY <1>1 DEF PortsOpen
<1>8. Gone(d) => Gone(d)'
  BY <1>1, AdmitKeepsPool, GoneStays DEF PoolInv
<1>9. QED
  BY <1>5, <1>6, <1>7, <1>8, CallKept

LEMMA AdmitTracks ==
    ASSUME Ground, Ground', PoolInv, NEW c \in Calls, NEW w \in Workers, Admit(c, w), Tracked(c)
    PROVE  Tracked(c)'
<1>1. /\ c \notin used /\ used' = used \cup {c} /\ known' = known \cup {c}
      /\ Queues(c, w) \/ Refuses(c)
      /\ UNCHANGED <<gen, status, urgent, sessions, target, results, failures,
                     allocated, releasing, retry, connectVersion, connectInFlight,
                     connectQueued>>
      /\ worker'[c] = w /\ generation'[c] = gen[w]
  BY AdmitEffect
<1>2. /\ c \notin known /\ c \notin reserved /\ c \notin pending /\ c \notin allocated
      /\ c \notin releasing
  BY <1>1 DEF Tracked, FlagsAgree, Ground, IInv, FlagsTyped
<1>3. target[c] = 0 /\ connectVersion[c] = 0 /\ connectInFlight[c] = 0 /\ connectQueued[c] = 0
  BY <1>1 DEF Tracked, Untouched
<1>4. \A op \in Ops : /\ Items(jobs[w], op, c) = {} /\ Single(jobs[w], op, c)
                      /\ Items(urgent[w], op, c) = {} /\ Single(urgent[w], op, c)
                      /\ Items(results, op, c) = {} /\ Single(results, op, c)
  BY <1>1, FreshHasNoItems
<1>5. ASSUME NEW op \in {"release", "connect"}
      PROVE  Queued(c, op)' = {} /\ Replied(c, op)' = {} /\ One(c, op)'
  BY <1>1, <1>4 DEF Queued, Queue, Replied, One, Ops
<1>6. FlagsAgree(c)'
  BY <1>1, <1>2 DEF FlagsAgree, Queues, Refuses
<1>7. ReleaseTracked(c)'
  BY <1>1, <1>2, <1>5 DEF ReleaseTracked
<1>8. ~PortsOpen(c)'
  BY <1>1 DEF PortsOpen, PoolInv, SessionsOwned
<1>9. ConnectTracked(c)'
  BY <1>1, <1>3, <1>5 DEF ConnectTracked
<1>10. AllocationTracked(c)'
  <2>1. Replied(c, "allocate")' = {} /\ Single(results', "allocate", c)
    BY <1>1, <1>4 DEF Replied, Ops
  <2>2. CASE Queues(c, w)
    <3> DEFINE j == NewJob(c, gen[w], "allocate", 0)
    <3>1. j \in Job /\ Is(j, "allocate", c)
      BY DEF NewJob, Job, Ops, Versions, ProcessTyped, Ground, IInv, Is
    <3>2. jobs'[w] = Append(jobs[w], j) /\ jobs[w] \in Seq(Job)
      BY <2>2 DEF Queues, Ground, QueuesFollowProcess
    <3> HIDE DEF j
    <3>3. Items(jobs[w], "allocate", c) = {}
      BY <1>4 DEF Ops
    <3>4. Items(jobs'[w], "allocate", c) = {j} /\ Single(jobs'[w], "allocate", c)
      BY <3>1, <3>2, <3>3, AppendItems
    <3>5. Queued(c, "allocate")' = {j} /\ Single(Queue(c, "allocate"), "allocate", c)'
      BY <1>1, <3>4 DEF Queued, Queue
    <3>6. QED
      BY <2>1, <2>2, <3>5 DEF AllocationTracked, One, Queues
  <2>3. CASE Refuses(c)
    <3>1. Queued(c, "allocate")' = {} /\ Single(Queue(c, "allocate"), "allocate", c)'
      BY <1>1, <1>4, <2>3 DEF Queued, Queue, Ops, Refuses
    <3>2. QED
      BY <1>2, <2>1, <2>3, <3>1 DEF AllocationTracked, One, Refuses
  <2>4. QED
    BY <1>1, <2>2, <2>3
<1>11. QED
  BY <1>1, <1>6, <1>7, <1>8, <1>9, <1>10 DEF Tracked, PortsTracked, Untouched

LEMMA AdmitKeeps ==
    ASSUME Ground, Ground', PoolInv, \A c \in Calls : Tracked(c),
           NEW c \in Calls, NEW w \in Workers, Admit(c, w)
    PROVE  PoolInv' /\ \A d \in Calls : Tracked(d)'
<1>1. ASSUME NEW d \in Calls PROVE Tracked(d)'
  <2>1. CASE d # c
    BY <2>1, AdmitKeepsOthers
  <2>2. CASE d = c
    BY <2>2, AdmitTracks
  <2>3. QED
    BY <2>1, <2>2
<1>2. QED
  BY <1>1, AdmitKeepsPool

-----------------------------------------------------------------------------
(* The invariant.                                                          *)

LEMMA InitTracked == Init => OInv
<1>1. SUFFICES ASSUME Init PROVE OInv
  OBVIOUS
<1>2. Ground
  BY <1>1, InitIInv, EmptySeq DEF Ground, Init, PoolInit, QueuesFollowProcess
<1>3. /\ \A w \in Workers : gen[w] = 1 /\ status[w] = "serving" /\ jobs[w] = <<>>
                            /\ urgent[w] = <<>> /\ sessions[w] = {} /\ workerLoads[w] = 0
      /\ results = <<>> /\ failures = <<>>
      /\ \A c \in Calls : worker[c] \in Workers /\ generation[c] = 1
  BY <1>1, <1>2 DEF Init, PoolInit, Ground, IInv, FlagsTyped
<1>4. PoolInv
  <2>1. ItemsOwned
    BY <1>3, EmptySeq DEF ItemsOwned
  <2>2. Len(failures) = 0
    BY <1>3, EmptySeq
  <2>3. QED
    BY <1>3, <2>1, <2>2 DEF PoolInv, SessionsOwned, FailuresPast, NeverAhead, LoadsLimited
<1>5. ASSUME NEW c \in Calls PROVE Tracked(c)
  <2>1. \A op \in Ops : Queued(c, op) = {} /\ Replied(c, op) = {} /\ One(c, op)
    BY <1>3, EmptyItems DEF Queued, Queue, Replied, One
  <2>2. /\ target[c] = 0 /\ connectVersion[c] = 0
        /\ connectInFlight[c] = 0 /\ connectQueued[c] = 0
    BY <1>1 DEF Init, PoolInit
  <2>3. /\ reserved = {} /\ pending = {} /\ allocated = {} /\ releasing = {} /\ ended = {}
        /\ known = {}
    BY <1>1 DEF Init
  <2>4. ~PortsOpen(c)
    BY <1>3 DEF PortsOpen
  <2>5. QED
    BY <2>1, <2>2, <2>3, <2>4 DEF Tracked, FlagsAgree, AllocationTracked, ReleaseTracked,
       PortsTracked, ConnectTracked, Untouched, Ops
<1>6. QED
  BY <1>2, <1>4, <1>5 DEF OInv

LEMMA StutterKeeps ==
    ASSUME Ground, Ground', PoolInv, \A c \in Calls : Tracked(c), UNCHANGED vars
    PROVE  PoolInv' /\ \A c \in Calls : Tracked(c)'
<1>1. UNCHANGED poolVars /\ UNCHANGED callVars
  BY DEF vars
<1>2. PoolInv'
  BY <1>1 DEF PoolInv, ItemsOwned, OwnJob, UsedResult, SessionsOwned, FailuresPast, Past, Quiet,
     NeverAhead, LoadsLimited, poolVars, callVars
<1>3. ASSUME NEW c \in Calls PROVE Tracked(c)'
  <2>1. SameFlags(c) /\ SameTarget(c)
    BY <1>1 DEF SameFlags, SameTarget, poolVars, callVars
  <2>2. \A op \in Ops : SameItems(c, op)
    BY <1>1, ItemsKept DEF poolVars, callVars
  <2>3. (PortsOpen(c)' => PortsOpen(c)) /\ (Gone(c) => Gone(c)')
    BY <1>1 DEF PortsOpen, Gone, Quiet, poolVars, callVars
  <2>4. QED
    BY <2>1, <2>2, <2>3, CallKept
<1>4. QED
  BY <1>2, <1>3

LEMMA NextKeeps == OInv /\ [Next]_vars => OInv'
<1>1. SUFFICES ASSUME OInv, [Next]_vars PROVE OInv'
  OBVIOUS
<1>2. Ground /\ Ground' /\ PoolInv /\ \A c \in Calls : Tracked(c)
  BY <1>1, NextIInv, NextFollows DEF OInv, Ground
<1>3. PoolInv' /\ \A c \in Calls : Tracked(c)'
  <2>1. CASE PoolStep
    BY <1>2, <2>1, PoolKeeps
  <2>2. CASE \E c \in Calls, w \in Workers : Admit(c, w)
    BY <1>2, <2>2, AdmitKeeps
  <2>3. CASE \E c \in Calls : EndCall(c)
    BY <1>2, <2>3, EndCallKeeps
  <2>4. CASE \E c \in Calls : Connect(c)
    BY <1>2, <2>4, ConnectKeeps
  <2>5. CASE AllocateResult
    BY <1>2, <2>5, AllocateResultKeeps
  <2>6. CASE ConnectResult
    BY <1>2, <2>6, ConnectResultKeeps
  <2>7. CASE ReleaseResult
    BY <1>2, <2>7, ReleaseResultKeeps
  <2>8. CASE DropResult
    BY <1>2, <2>8, DropResultKeeps
  <2>9. CASE \E c \in Calls : ReleaseRetry(c)
    BY <1>2, <2>9, ReleaseRetryKeeps
  <2>10. CASE \E c \in Calls : CallGC(c)
    BY <1>2, <2>10, CallGCKeeps
  <2>11. CASE WorkerFailed
    BY <1>2, <2>11, WorkerFailedKeeps
  <2>12. CASE UNCHANGED vars
    BY <1>2, <2>12, StutterKeeps
  <2>13. QED
    BY <1>1, <2>1, <2>2, <2>3, <2>4, <2>5, <2>6, <2>7, <2>8, <2>9, <2>10, <2>11, <2>12
       DEF Next
<1>4. QED
  BY <1>2, <1>3 DEF OInv

LEMMA InvariantOInv == Spec => []OInv
  BY InitTracked, NextKeeps, PTL DEF Spec

-----------------------------------------------------------------------------
(* What the runs check, for every value of the constants.                  *)

LEMMA OpenIsReserved ==
    ASSUME OInv, NEW w \in Workers, status[w] = "serving", NEW c \in sessions[w]
    PROVE  c \in Calls /\ c \in ReservedOn(w) /\ generation[c] = gen[w]
<1>1. c \in Calls /\ worker[c] = w /\ generation[c] = gen[w]
  BY DEF OInv, PoolInv, SessionsOwned, Ground, IInv, ProcessTyped
<1>2. PortsTracked(c) /\ PortsOpen(c)
  BY <1>1 DEF OInv, Tracked, PortsOpen
<1>3. QED
  BY <1>1, <1>2 DEF PortsTracked, ReservedOn

(* Whatever ports a process in service holds, the call they were opened    *)
(* for still pays quota for that worker, and was placed on that very       *)
(* generation: no late result, retry or failure of another generation      *)
(* frees a quota whose ports are open.                                     *)
THEOREM OpenPortsArePaidFor == Spec => []PortsCovered
<1>1. OInv => PortsCovered
  BY OpenIsReserved DEF PortsCovered
<1>2. QED
  BY <1>1, InvariantOInv, PTL

LEMMA QueuedIsReserved ==
    ASSUME OInv, NEW w \in Workers
    PROVE  AllocationsFor(w) \subseteq ReservedOn(w)
<1>1. SUFFICES ASSUME NEW i \in DOMAIN jobs[w] PROVE jobs[w][i].call \in ReservedOn(w)
  BY DEF AllocationsFor
<1>2. jobs[w] \in Seq({j \in OwnJob(w) : j.op = "allocate"})
  BY DEF OInv, PoolInv, ItemsOwned
<1>3. i \in 1..Len(jobs[w]) /\ jobs[w][i] \in {j \in OwnJob(w) : j.op = "allocate"}
  BY <1>1, <1>2, ElementOfSeq, LenProperties
<1>4. PICK c \in Calls : c = jobs[w][i].call /\ worker[c] = w /\ Is(jobs[w][i], "allocate", c)
  BY <1>3 DEF OwnJob, Job, Is
<1>5. jobs[w][i] \in Queued(c, "allocate")
  BY <1>3, <1>4 DEF Queued, Queue, Items
<1>6. c \in reserved
  BY <1>5 DEF OInv, Tracked, AllocationTracked, FlagsAgree
<1>7. QED
  BY <1>4, <1>6 DEF ReservedOn

(* Admission never over-commits a worker: its open sessions together with  *)
(* the allocations still queued for it fit into its capacity, although     *)
(* admission looks at a counter and never at the process.                  *)
THEOREM WorkersAreNeverOvercommitted == Spec => []WorkerWithinCapacity
<1>1. OInv => WorkerWithinCapacity
  <2>1. SUFFICES ASSUME OInv, NEW w \in Workers, status[w] = "serving"
                 PROVE  Cardinality(sessions[w] \cup AllocationsFor(w)) <= MaxCalls
    BY DEF WorkerWithinCapacity
  <2>2. sessions[w] \cup AllocationsFor(w) \subseteq ReservedOn(w)
    BY <2>1, OpenIsReserved, QueuedIsReserved
  <2>3. IsFiniteSet(ReservedOn(w))
    <3>1. ReservedOn(w) \subseteq Calls
      BY <2>1 DEF ReservedOn, OInv, Ground, IInv, FlagsTyped
    <3>2. QED
      BY <3>1, FS_Subset
  <2>4. /\ Cardinality(sessions[w] \cup AllocationsFor(w)) <= Cardinality(ReservedOn(w))
        /\ Cardinality(sessions[w] \cup AllocationsFor(w)) \in Nat
        /\ Cardinality(ReservedOn(w)) \in Nat
    BY <2>2, <2>3, FS_Subset, FS_CardinalityType
  <2>5. Cardinality(ReservedOn(w)) <= MaxCalls
    BY <2>1 DEF OInv, Ground, IInv, QuotaCounted, PoolInv, LoadsLimited
  <2>6. QED
    BY <2>4, <2>5
<1>2. QED
  BY <1>1, InvariantOInv, PTL

LEMMA TrackedIsInFlight ==
    ASSUME Ground, NEW c \in Calls, NEW op, Queued(c, op) # {} \/ Replied(c, op) # {}
    PROVE  InFlight(c, op)
<1>1. /\ worker[c] \in Workers
      /\ jobs[worker[c]] \in Seq(Job) /\ urgent[worker[c]] \in Seq(Job)
  BY DEF Ground, IInv, FlagsTyped, QueuesFollowProcess
<1>2. /\ DOMAIN jobs[worker[c]] = 1..Len(jobs[worker[c]])
      /\ DOMAIN urgent[worker[c]] = 1..Len(urgent[worker[c]])
      /\ DOMAIN results = 1..Len(results)
  BY <1>1, ResultsTyped, LenProperties
<1>3. CASE Queued(c, op) # {}
  BY <1>2, <1>3 DEF Queued, Queue, Items, Is, InFlight
<1>4. CASE Replied(c, op) # {}
  BY <1>2, <1>4 DEF Replied, Items, Is, InFlight
<1>5. QED
  BY <1>3, <1>4

(* An ended call that still holds quota is never forgotten: its allocation *)
(* or its release is on its way through the pool, or its retry timer is    *)
(* armed.                                                                  *)
THEOREM TeardownIsAlwaysDriven == Spec => []TeardownDriven
<1>1. OInv => TeardownDriven
  <2>1. SUFFICES ASSUME OInv, NEW c \in ended \cap reserved
                 PROVE  \/ c \in pending /\ InFlight(c, "allocate")
                        \/ c \in releasing /\ InFlight(c, "release")
                        \/ c \in retry
    BY DEF TeardownDriven
  <2>2. c \in Calls /\ Ground
    BY <2>1 DEF OInv, Ground, IInv, FlagsTyped
  <2>3. FlagsAgree(c) /\ AllocationTracked(c) /\ ReleaseTracked(c)
    BY <2>1, <2>2 DEF OInv, Tracked
  <2>4. c \in pending => InFlight(c, "allocate")
    BY <2>2, <2>3, TrackedIsInFlight DEF AllocationTracked
  <2>5. c \in releasing => InFlight(c, "release")
    BY <2>2, <2>3, TrackedIsInFlight DEF ReleaseTracked
  <2>6. QED
    BY <2>1, <2>3, <2>4, <2>5 DEF FlagsAgree
<1>2. QED
  BY <1>1, InvariantOInv, PTL

(* Coalescing loses nothing: once a live call has no connect outstanding,  *)
(* the media process forwards to the newest negotiated target.             *)
THEOREM NewestTargetIsInstalled == Spec => []LatestTargetInstalled
<1>1. OInv => LatestTargetInstalled
  BY DEF OInv, Tracked, ConnectTracked, LatestTargetInstalled, Ground, IInv, FlagsTyped
<1>2. QED
  BY <1>1, InvariantOInv, PTL

-----------------------------------------------------------------------------
(* The refinement of MediaQuota.                                           *)

Granted == {<<c, worker[c]>> : c \in reserved}
OpenPairs == {p \in Calls \X Workers : status[p[2]] = "serving" /\ p[1] \in sessions[p[2]]}

LEMMA Closes ==
    ASSUME Granted' = Granted, OpenPairs' \subseteq OpenPairs
    PROVE  Quota!QuotaNext
<1>1. PICK S : S = OpenPairs \ OpenPairs'
  OBVIOUS
<1>2. S \in SUBSET OpenPairs /\ OpenPairs' = OpenPairs \ S
  BY <1>1
<1>3. Quota!ClosePorts(S)
  BY <1>2 DEF Quota!ClosePorts, Granted, OpenPairs
<1>4. QED
  BY <1>2, <1>3 DEF Quota!QuotaNext, OpenPairs

LEMMA GivesBack ==
    ASSUME OpenPairs' = OpenPairs, Granted' \subseteq Granted, OpenPairs' \subseteq Granted'
    PROVE  Quota!QuotaNext
<1>1. PICK S : S = Granted \ Granted'
  OBVIOUS
<1>2. S \in SUBSET (Granted \ OpenPairs) /\ Granted' = Granted \ S
  BY <1>1
<1>3. Quota!GiveBack(S)
  BY <1>2 DEF Quota!GiveBack, Granted, OpenPairs
<1>4. QED
  BY <1>2, <1>3 DEF Quota!QuotaNext, Granted, OpenPairs

LEMMA OpenIsGranted == OInv => OpenPairs \subseteq Granted
<1>1. SUFFICES ASSUME OInv, NEW c \in Calls, NEW w \in Workers,
                      status[w] = "serving", c \in sessions[w]
               PROVE  <<c, w>> \in Granted
  BY DEF OpenPairs
<1>2. QED
  BY <1>1, OpenIsReserved DEF ReservedOn, Granted

LEMMA OpenIsGrantedNext == OInv' => OpenPairs' \subseteq Granted'
<1>1. OInv' => (OpenPairs \subseteq Granted)'
  BY OpenIsGranted, PTL
<1>2. QED
  BY <1>1

(* Counting pairs is counting calls.                                       *)
LEMMA PairsAreCounted ==
    ASSUME NEW S \in SUBSET Calls
    PROVE  /\ Cardinality({<<c, worker[c]>> : c \in S}) <= Cardinality(S)
           /\ Cardinality({<<c, worker[c]>> : c \in S}) \in Nat /\ Cardinality(S) \in Nat
<1> DEFINE T == {<<c, worker[c]>> : c \in S}
           pair == [c \in S |-> <<c, worker[c]>>]
<1>1. IsFiniteSet(S)
  BY FS_Subset
<1>2. pair \in Surjection(S, T)
  BY DEF Surjection
<1>3. QED
  BY <1>1, <1>2, FS_Surjection, FS_CardinalityType

(* The instance has its own copy of the operator.                          *)
LEMMA SameCardinality == \A S : Quota!Cardinality(S) = Cardinality(S)
  BY DEF Quota!Cardinality, Cardinality

LEMMA AdmitGrants ==
    ASSUME OInv, NEW c \in Calls, NEW w \in Workers, Admit(c, w)
    PROVE  Quota!QuotaNext
<1>1. /\ c \notin used /\ workerLoads[w] < MaxCalls
      /\ Queues(c, w) \/ Refuses(c)
      /\ UNCHANGED <<status, sessions>>
      /\ worker'[c] = w /\ \A d \in Calls \ {c} : worker'[d] = worker[d]
  BY AdmitEffect DEF OInv
<1>2. active < MaxActive
  BY DEF Admit
<1>3. reserved \subseteq Calls \ {c} /\ OpenPairs' = OpenPairs
  BY <1>1 DEF OpenPairs, OInv, Ground, IInv, FlagsTyped
<1>4. CASE Refuses(c)
  <2>1. Granted' = Granted
    BY <1>1, <1>3, <1>4 DEF Granted, Refuses
  <2>2. QED
    BY <1>3, <2>1, Closes
<1>5. CASE Queues(c, w)
  <2>1. Granted' = Granted \cup {<<c, w>>}
    BY <1>1, <1>3, <1>5 DEF Granted, Queues
  <2>2. \A g \in Granted : g[1] # c
    BY <1>3 DEF Granted
  <2>3. Cardinality(Granted) < MaxActive
    <3>1. /\ Cardinality(Granted) <= Cardinality(reserved)
          /\ Cardinality(Granted) \in Nat /\ Cardinality(reserved) \in Nat
      BY <1>3, PairsAreCounted DEF Granted
    <3>2. QED
      BY <1>2, <3>1 DEF OInv, Ground, IInv, QuotaCounted
  <2>4. Cardinality({g \in Granted : g[2] = w}) < MaxCalls
    <3>1. {g \in Granted : g[2] = w} = {<<d, worker[d]>> : d \in ReservedOn(w)}
      BY DEF Granted, ReservedOn
    <3>2. ReservedOn(w) \subseteq Calls
      BY <1>3 DEF ReservedOn
    <3>3. /\ Cardinality({g \in Granted : g[2] = w}) <= Cardinality(ReservedOn(w))
          /\ Cardinality({g \in Granted : g[2] = w}) \in Nat
          /\ Cardinality(ReservedOn(w)) \in Nat
      BY <3>1, <3>2, PairsAreCounted
    <3>4. QED
      BY <1>1, <3>3 DEF OInv, Ground, IInv, QuotaCounted
  <2>5. Quota!Grant(c, w)
    BY <1>3, <2>1, <2>2, <2>3, <2>4, SameCardinality DEF Quota!Grant, Quota!GrantedTo, Granted, OpenPairs
  <2>6. QED
    BY <2>5 DEF Quota!QuotaNext
<1>6. QED
  BY <1>1, <1>4, <1>5

LEMMA PoolStepRefines ==
    ASSUME OInv, OInv', PoolStep
    PROVE  Quota!QuotaNext
<1>1. /\ Ground /\ PoolInv
      /\ worker' = worker /\ reserved' = reserved /\ Granted' = Granted
  BY DEF OInv, PoolStep, callVars, Granted
<1>2. /\ status \in [Workers -> Status] /\ sessions \in [Workers -> SUBSET Calls]
      /\ \A v \in Workers : status[v] = "waiting" => sessions[v] = {}
  BY <1>1 DEF Ground, IInv, ProcessTyped, PoolInv, SessionsOwned
<1>3. PICK w \in Workers : QuietMove(w) \/ (\E j, ok : ok \in BOOLEAN /\ PoolMove(w, j, ok))
  BY <1>1, PoolStepMoves DEF PoolStep
<1>4. CASE QuietMove(w)
  <2>1. /\ status'[w] = "serving" => status[w] = "waiting"
        /\ \A v \in Workers \ {w} : status'[v] = status[v]
        /\ \A v \in Workers : sessions'[v] \subseteq sessions[v]
    BY <1>2, <1>4 DEF QuietMove, Break, ClearHealthy, KillProcess, ReportFailure, Restart,
                      RestartFails
  <2>2. OpenPairs' \subseteq OpenPairs
    BY <1>2, <2>1 DEF OpenPairs
  <2>3. QED
    BY <1>1, <2>2, Closes
<1>5. ASSUME NEW j, NEW ok \in BOOLEAN, PoolMove(w, j, ok) PROVE Quota!QuotaNext
  <2>1. j.call \in Calls /\ j \in Job
    BY <1>1, <1>5, TakenJob DEF PoolMove
  <2>2. CASE ok /\ j.op = "allocate"
    <3>1. /\ status[w] = "serving" /\ status' = status
          /\ sessions' = [sessions EXCEPT ![w] = @ \cup {j.call}]
      BY <1>5, <2>2 DEF PoolMove, Execute
    <3>2. OpenPairs' = OpenPairs \cup {<<j.call, w>>}
      BY <1>2, <2>1, <3>1 DEF OpenPairs
    <3>3. <<j.call, w>> \in Granted
      BY <1>1, <3>2, OpenIsGrantedNext
    <3>4. Quota!OpenPorts(j.call, w)
      BY <1>1, <3>2, <3>3 DEF Quota!OpenPorts, Granted, OpenPairs
    <3>5. QED
      BY <2>1, <3>4 DEF Quota!QuotaNext
  <2>3. CASE ~(ok /\ j.op = "allocate")
    <3>1. \A v \in Workers : status'[v] = "serving" =>
             status[v] = "serving" /\ sessions'[v] \subseteq sessions[v]
      BY <1>2, <1>5, <2>3 DEF PoolMove, Execute
    <3>2. OpenPairs' \subseteq OpenPairs
      BY <1>2, <3>1 DEF OpenPairs
    <3>3. QED
      BY <1>1, <3>2, Closes
  <2>4. QED
    BY <2>2, <2>3
<1>6. QED
  BY <1>3, <1>4, <1>5

(* No handler takes quota; only admission does.                            *)
LEMMA NothingIsReserved ==
    ASSUME NEW c, NEW al
    PROVE  /\ \A rt : ReleaseMedia(c, al, rt) => reserved' \subseteq reserved
           /\ \A pe : Finish(c, al, pe) => reserved' \subseteq reserved
<1>1. ReleaseReservation(c) => reserved' \subseteq reserved
  BY DEF ReleaseReservation
<1>2. ASSUME NEW rt, ReleaseMedia(c, al, rt) PROVE reserved' \subseteq reserved
  BY <1>1, <1>2 DEF ReleaseMedia, ReleaseFailed
<1>3. ASSUME NEW pe, Finish(c, al, pe) PROVE reserved' \subseteq reserved
  BY <1>1, <1>2, <1>3 DEF Finish, quotaVars
<1>4. QED
  BY <1>2, <1>3

LEMMA HandlerRefines ==
    ASSUME OInv', UNCHANGED <<status, sessions, worker>>, reserved' \subseteq reserved
    PROVE  Quota!QuotaNext
<1>1. OpenPairs' = OpenPairs /\ Granted' \subseteq Granted
  BY DEF OpenPairs, Granted
<1>2. OpenPairs' \subseteq Granted'
  BY OpenIsGrantedNext
<1>3. QED
  BY <1>1, <1>2, GivesBack

LEMMA StepRefines ==
    ASSUME OInv, OInv', Next
    PROVE  Quota!QuotaNext
<1>1. CASE PoolStep
  BY <1>1, PoolStepRefines
<1>2. CASE \E c \in Calls, w \in Workers : Admit(c, w)
  BY <1>2, AdmitGrants
<1>3. CASE \E c \in Calls : EndCall(c)
  BY <1>3, NothingIsReserved, HandlerRefines DEF EndCall
<1>4. CASE \E c \in Calls : Connect(c)
  <2>1. PICK c \in Calls : Connect(c)
    BY <1>4
  <2>2. reserved' \subseteq reserved
    BY <2>1, NothingIsReserved DEF Connect, SubmitConnect, quotaVars
  <2>3. QED
    BY <2>1, <2>2, HandlerRefines DEF Connect
<1>5. CASE AllocateResult
  <2>1. reserved' \subseteq reserved
    BY <1>5, NothingIsReserved DEF AllocateResult, AllocateFailed, quotaVars
  <2>2. QED
    BY <1>5, <2>1, HandlerRefines DEF AllocateResult
<1>6. CASE ConnectResult
  <2>1. reserved' \subseteq reserved
    BY <1>6, NothingIsReserved DEF ConnectResult, SubmitConnect, quotaVars
  <2>2. QED
    BY <1>6, <2>1, HandlerRefines DEF ConnectResult
<1>7. CASE ReleaseResult
  <2>1. reserved' \subseteq reserved
    BY <1>7 DEF ReleaseResult, ReleaseFailed, ReleaseReservation
  <2>2. QED
    BY <1>7, <2>1, HandlerRefines DEF ReleaseResult
<1>8. CASE DropResult
  BY <1>8, HandlerRefines DEF DropResult, callVars
<1>9. CASE \E c \in Calls : ReleaseRetry(c)
  <2>1. PICK c \in Calls : ReleaseRetry(c)
    BY <1>9
  <2>2. reserved' \subseteq reserved
    BY <2>1, NothingIsReserved DEF ReleaseRetry
  <2>3. QED
    BY <2>1, <2>2, HandlerRefines DEF ReleaseRetry
<1>10. CASE \E c \in Calls : CallGC(c)
  BY <1>10, HandlerRefines DEF CallGC, poolVars, quotaVars
<1>11. CASE WorkerFailed
  BY <1>11, HandlerRefines DEF WorkerFailed
<1>12. QED
  BY <1>1, <1>2, <1>3, <1>4, <1>5, <1>6, <1>7, <1>8, <1>9, <1>10, <1>11 DEF Next

(* The flags, the two counters, the queues and the failures of the         *)
(* controller together implement the abstract promise of MediaQuota: a     *)
(* call opens ports at a worker only under a grant of that worker, grants  *)
(* stay within both limits, and a grant is given back only once the ports  *)
(* of its call are no longer in service.                                   *)
THEOREM MediaQuotaIsImplemented == Spec => ImplementsQuota
<1>1. Init => Quota!QuotaInit
  <2>1. SUFFICES ASSUME Init PROVE Granted = {} /\ OpenPairs = {}
    BY DEF Quota!QuotaInit, Granted, OpenPairs
  <2>2. QED
    BY <2>1 DEF Init, PoolInit, Granted, OpenPairs
<1>2. OInv /\ OInv' /\ [Next]_vars => [Quota!QuotaNext]_Quota!quotaSpecVars
  <2>1. CASE Next /\ OInv /\ OInv'
    BY <2>1, StepRefines
  <2>2. CASE UNCHANGED vars
    <3>1. UNCHANGED <<worker, reserved, status, sessions>>
      BY <2>2 DEF vars, poolVars, callVars
    <3>2. UNCHANGED Quota!quotaSpecVars
      BY <3>1 DEF Quota!quotaSpecVars
    <3>3. QED
      BY <3>2
  <2>3. QED
    BY <2>1, <2>2
<1>3. QED
  BY <1>1, <1>2, InvariantOInv, PTL DEF Spec, ImplementsQuota, Quota!QuotaSpec
=============================================================================
