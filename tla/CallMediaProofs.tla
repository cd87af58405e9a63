--------------------------- MODULE CallMediaProofs ---------------------------
(***************************************************************************)
(* Proofs about CallMedia for every number of calls and workers and every  *)
(* capacity: the types, the accounting of quota and that a live call       *)
(* always holds its quota.                                                 *)
(*                                                                         *)
(* The three are proved together.  The counters stay natural numbers only  *)
(* because they count the calls that hold quota; and a live call keeps its *)
(* quota only because every release on its way through the pool is of a    *)
(* call that has ended, which is the strengthening ReleasesAreOfEnded.     *)
(* The last section adds that no command outlives its process.             *)
(***************************************************************************)
EXTENDS CallMedia, FiniteSetTheorems, SequenceTheorems, TLAPS

USE PoolAssumption, CallAssumption

-----------------------------------------------------------------------------
(* The inductive invariant.                                                *)

(* Commands and results that release media only for calls that ended.      *)
EndedJob == {j \in Job : j.op = "release" => j.call \in ended}
EndedResult == {r \in Result : r.op = "release" => r.call \in ended}
ReleasesAreOfEnded ==
    /\ jobs \in [Workers -> Seq(EndedJob)]
    /\ urgent \in [Workers -> Seq(EndedJob)]
    /\ results \in Seq(EndedResult)

(* The part of the type that no counter takes part in.                     *)
FlagsTyped ==
    /\ used \in SUBSET Calls /\ known \in SUBSET used
    /\ worker \in [Calls -> Workers]
    /\ generation \in [Calls -> Generations]
    /\ reserved \in SUBSET used /\ pending \in SUBSET Calls
    /\ allocated \in SUBSET Calls /\ releasing \in SUBSET Calls
    /\ ended \in SUBSET Calls /\ retry \in SUBSET Calls
    /\ connectVersion \in [Calls -> Versions]
    /\ connectInFlight \in [Calls -> Versions]
    /\ connectQueued \in [Calls -> Versions]

ProcessTyped ==
    /\ gen \in [Workers -> Generations]
    /\ status \in [Workers -> Status]
    /\ sessions \in [Workers -> SUBSET Calls]
    /\ target \in [Calls -> Versions]
    /\ failures \in Seq(Failure)

QuotaCounted ==
    /\ workerLoads \in [Workers -> Nat]
    /\ active = Cardinality(reserved)
    /\ \A w \in Workers : workerLoads[w] = Cardinality(ReservedOn(w))

IInv ==
    /\ FlagsTyped
    /\ ProcessTyped
    /\ ReleasesAreOfEnded
    /\ QuotaCounted
    /\ LiveCallsReserved

-----------------------------------------------------------------------------
(* What a handler may do to the quota of the call it works on: nothing, or *)
(* give it back once.                                                      *)
QuotaStep(c) ==
    \/ UNCHANGED <<reserved, workerLoads, active>>
    \/ /\ c \in reserved
       /\ reserved' = reserved \ {c}
       /\ workerLoads' = [workerLoads EXCEPT ![worker[c]] = @ - 1]
       /\ active' = active - 1

(* A command may be added to an urgent queue, a release only for a call    *)
(* that has ended.                                                         *)
UrgentStep ==
    urgent' \in [Workers -> Seq({j \in Job : j.op = "release" => j.call \in ended'})]

(* Giving quota back once keeps the counters exact.                        *)
LEMMA QuotaStepCounts ==
    ASSUME FlagsTyped, QuotaCounted, NEW c \in Calls, QuotaStep(c), worker' = worker
    PROVE  QuotaCounted'
<1>1. IsFiniteSet(reserved) /\ \A w \in Workers : IsFiniteSet(ReservedOn(w))
  BY FS_Subset DEF FlagsTyped, ReservedOn
<1>2. CASE UNCHANGED <<reserved, workerLoads, active>>
  <2>1. \A w \in Workers : ReservedOn(w)' = ReservedOn(w)
    BY <1>2 DEF ReservedOn
  <2>2. QED
    BY <1>2, <2>1 DEF QuotaCounted
<1>3. CASE ~UNCHANGED <<reserved, workerLoads, active>>
  <2>1. /\ c \in reserved
        /\ reserved' = reserved \ {c}
        /\ workerLoads' = [workerLoads EXCEPT ![worker[c]] = @ - 1]
        /\ active' = active - 1
    BY <1>3 DEF QuotaStep
  <2>2. Cardinality(reserved') = Cardinality(reserved) - 1
    BY <1>1, <2>1, FS_RemoveElement
  <2>3. ASSUME NEW w \in Workers
        PROVE  workerLoads'[w] = Cardinality(ReservedOn(w)') /\ workerLoads'[w] \in Nat
    <3>1. CASE w = worker[c]
      <4>1. ReservedOn(w)' = ReservedOn(w) \ {c} /\ c \in ReservedOn(w)
        BY <2>1, <3>1 DEF ReservedOn
      <4>2. /\ Cardinality(ReservedOn(w)') = Cardinality(ReservedOn(w)) - 1
            /\ IsFiniteSet(ReservedOn(w)')
        BY <1>1, <4>1, FS_RemoveElement
      <4>3. Cardinality(ReservedOn(w)') \in Nat
        BY <4>2, FS_CardinalityType
      <4>4. QED
        BY <2>1, <3>1, <4>2, <4>3 DEF QuotaCounted, FlagsTyped
    <3>2. CASE w # worker[c]
      <4>1. ReservedOn(w)' = ReservedOn(w)
        BY <2>1, <3>2 DEF ReservedOn
      <4>2. QED
        BY <2>1, <3>2, <4>1 DEF QuotaCounted, FlagsTyped
    <3>3. QED
      BY <3>1, <3>2
  <2>4. QED
    BY <2>1, <2>2, <2>3 DEF QuotaCounted, FlagsTyped
<1>4. QED
  BY <1>2, <1>3

LEMMA ReleaseReservationQuota ==
    ASSUME FlagsTyped, NEW c \in Calls, ReleaseReservation(c)
    PROVE  QuotaStep(c) /\ retry' \in SUBSET Calls /\ reserved' \in SUBSET reserved
<1>1. c \notin reserved => reserved' = reserved
  BY DEF ReleaseReservation
<1>2. QED
  BY <1>1 DEF ReleaseReservation, QuotaStep, FlagsTyped

LEMMA ReleaseFailedQuota ==
    ASSUME FlagsTyped, NEW c \in Calls, NEW al \in SUBSET Calls, NEW rt \in SUBSET Calls,
           ReleaseFailed(c, al, rt)
    PROVE  /\ QuotaStep(c) /\ reserved' \in SUBSET reserved
           /\ retry' \in SUBSET Calls /\ allocated' \in SUBSET Calls
<1>1. CASE GenerationGone(c)
  BY <1>1, ReleaseReservationQuota DEF ReleaseFailed
<1>2. CASE ~GenerationGone(c)
  BY <1>2 DEF ReleaseFailed, QuotaStep, FlagsTyped
<1>3. QED
  BY <1>1, <1>2

(* ReleaseMedia, when it is called for a call that has ended.              *)
LEMMA ReleaseMediaQuota ==
    ASSUME FlagsTyped, NEW c \in Calls, NEW al \in SUBSET Calls, NEW rt \in SUBSET Calls,
           urgent \in [Workers -> Seq(EndedJob)], ended \subseteq ended', c \in ended',
           ReleaseMedia(c, al, rt)
    PROVE  /\ QuotaStep(c) /\ UrgentStep /\ reserved' \in SUBSET reserved
           /\ retry' \in SUBSET Calls /\ allocated' \in SUBSET Calls
           /\ releasing' \in SUBSET Calls
<1>1. urgent \in [Workers -> Seq(EndedJob')]
  <2>1. EndedJob \subseteq EndedJob'
    BY DEF EndedJob
  <2>2. Seq(EndedJob) \subseteq Seq(EndedJob')
    BY <2>1, SeqMonotonic
  <2>3. QED
    BY <2>2
<1>2. CASE c \notin al \/ c \in releasing
  BY <1>1, <1>2 DEF ReleaseMedia, QuotaStep, UrgentStep, FlagsTyped, EndedJob
<1>3. CASE c \in al \ releasing /\ CanEnqueue(worker[c], generation[c], "release")
  <2>1. /\ EnqueueUrgent(c, "release", 0)
        /\ releasing' = releasing \cup {c}
        /\ allocated' = al /\ retry' = rt
        /\ UNCHANGED <<reserved, workerLoads, active>>
    BY <1>3 DEF ReleaseMedia
  <2>2. NewJob(c, generation[c], "release", 0) \in EndedJob'
    BY DEF NewJob, EndedJob, Job, Ops, Versions, FlagsTyped
  <2>3. UrgentStep
    BY <1>1, <2>1, <2>2, AppendProperties DEF UrgentStep, EnqueueUrgent, EndedJob, FlagsTyped
  <2>4. QED
    BY <2>1, <2>3 DEF QuotaStep, FlagsTyped
<1>4. CASE ~(c \notin al \/ c \in releasing)
           /\ ~(c \in al \ releasing /\ CanEnqueue(worker[c], generation[c], "release"))
  <2>1. ReleaseFailed(c, al, rt) /\ UNCHANGED <<releasing, urgent>>
    BY <1>4 DEF ReleaseMedia
  <2>2. QED
    BY <1>1, <2>1, ReleaseFailedQuota DEF UrgentStep, EndedJob, FlagsTyped
<1>5. QED
  BY <1>2, <1>3, <1>4

LEMMA FinishQuota ==
    ASSUME FlagsTyped, NEW c \in Calls, NEW al \in SUBSET Calls, NEW pe \in SUBSET Calls,
           urgent \in [Workers -> Seq(EndedJob)], Finish(c, al, pe)
    PROVE  /\ QuotaStep(c) /\ UrgentStep /\ reserved' \in SUBSET reserved
           /\ retry' \in SUBSET Calls /\ allocated' \in SUBSET Calls
           /\ releasing' \in SUBSET Calls /\ ended' = ended \cup {c}
           /\ connectQueued' \in [Calls -> Versions]
<1>1. ended' = ended \cup {c} /\ connectQueued' \in [Calls -> Versions]
  BY DEF Finish, FlagsTyped, Versions
<1>2. CASE c \in al
  BY <1>1, <1>2, ReleaseMediaQuota DEF Finish, FlagsTyped
<1>3. CASE c \notin al
  <2>1. /\ allocated' = al
        /\ \/ UNCHANGED quotaVars
           \/ ReleaseReservation(c)
        /\ UNCHANGED <<releasing, urgent>>
    BY <1>3 DEF Finish
  <2>2. EndedJob \subseteq EndedJob'
    BY <1>1 DEF EndedJob
  <2>3. Seq(EndedJob) \subseteq Seq(EndedJob')
    BY <2>2, SeqMonotonic
  <2>4. UrgentStep
    BY <2>1, <2>3 DEF UrgentStep, EndedJob
  <2>5. QED
    BY <1>1, <2>1, <2>4, ReleaseReservationQuota DEF QuotaStep, quotaVars, FlagsTyped
<1>4. QED
  BY <1>2, <1>3

LEMMA SubmitConnectQuota ==
    ASSUME FlagsTyped, NEW c \in Calls, NEW v \in Versions,
           urgent \in [Workers -> Seq(EndedJob)], SubmitConnect(c, v)
    PROVE  /\ QuotaStep(c) /\ UrgentStep /\ reserved' \in SUBSET reserved
           /\ retry' \in SUBSET Calls /\ allocated' \in SUBSET Calls
           /\ releasing' \in SUBSET Calls
           /\ ended' = ended \/ (ended' = ended \cup {c})
           /\ c \in ended' \/ reserved' = reserved
           /\ connectQueued' \in [Calls -> Versions]
           /\ connectInFlight' \in [Calls -> Versions]
<1>1. CASE CanEnqueue(worker[c], generation[c], "connect")
  <2>1. /\ EnqueueUrgent(c, "connect", v)
        /\ connectInFlight' = [connectInFlight EXCEPT ![c] = v]
        /\ connectQueued' = [connectQueued EXCEPT ![c] = 0]
        /\ UNCHANGED <<quotaVars, allocated, releasing, ended>>
    BY <1>1 DEF SubmitConnect
  <2>2. NewJob(c, generation[c], "connect", v) \in EndedJob
    BY DEF NewJob, EndedJob, Job, Ops, FlagsTyped
  <2>3. EndedJob' = EndedJob
    BY <2>1 DEF EndedJob
  <2>4. UrgentStep
    BY <2>1, <2>2, <2>3, AppendProperties DEF UrgentStep, EnqueueUrgent, EndedJob, FlagsTyped
  <2>5. 0 \in Versions
    BY DEF Versions
  <2>6. QED
    BY <2>1, <2>4, <2>5 DEF QuotaStep, quotaVars, FlagsTyped
<1>2. CASE ~CanEnqueue(worker[c], generation[c], "connect")
  <2>1. /\ connectInFlight' = [connectInFlight EXCEPT ![c] = 0]
        /\ Finish(c, allocated, pending)
    BY <1>2 DEF SubmitConnect
  <2>2. 0 \in Versions
    BY DEF Versions
  <2>3. allocated \in SUBSET Calls /\ pending \in SUBSET Calls
    BY DEF FlagsTyped
  <2>4. QED
    BY <2>1, <2>2, <2>3, FinishQuota DEF FlagsTyped
<1>3. QED
  BY <1>1, <1>2

-----------------------------------------------------------------------------
(* The three facts about the inductive invariant, one action at a time.    *)

LEMMA InitIInv == Init => IInv
<1>1. SUFFICES ASSUME Init PROVE IInv
  OBVIOUS
<1>2. FlagsTyped
  BY <1>1 DEF Init, FlagsTyped, Versions, Generations
<1>3. ProcessTyped
  BY <1>1, EmptySeq DEF Init, PoolInit, ProcessTyped, Generations, Status, Versions, Failure
<1>4. ReleasesAreOfEnded
  BY <1>1, EmptySeq DEF Init, PoolInit, ReleasesAreOfEnded
<1>5. QuotaCounted
  <2>1. \A w \in Workers : ReservedOn(w) = {}
    BY <1>1 DEF Init, ReservedOn
  <2>2. QED
    BY <1>1, <2>1, FS_EmptySet DEF Init, QuotaCounted
<1>6. LiveCallsReserved
  BY <1>1 DEF Init, LiveCallsReserved
<1>7. QED
  BY <1>2, <1>3, <1>4, <1>5, <1>6 DEF IInv

(* A command taken from a queue, or added to one, keeps its promise; so    *)
(* does the result it leads to.                                            *)
LEMMA TailOfQueue ==
    ASSUME NEW S, NEW q \in [Workers -> Seq(S)], NEW w \in Workers, q[w] # <<>>
    PROVE  /\ Head(q[w]) \in S
           /\ [q EXCEPT ![w] = Tail(@)] \in [Workers -> Seq(S)]
<1>1. Head(q[w]) \in S /\ Tail(q[w]) \in Seq(S)
  BY HeadTailProperties
<1>2. QED
  BY <1>1

LEMMA RepliesAreOfEnded ==
    ASSUME ReleasesAreOfEnded, NEW j \in EndedJob, NEW ok \in BOOLEAN, Post(Reply(j, ok))
    PROVE  results' \in Seq(EndedResult)
<1>1. Reply(j, ok) \in EndedResult
  BY DEF Reply, EndedJob, EndedResult, Job, Result
<1>2. QED
  BY <1>1, AppendProperties DEF Post, ReleasesAreOfEnded

(* The ends of the queues that a pool step may leave behind.               *)
LEMMA TakeKeepsQueues ==
    ASSUME ReleasesAreOfEnded, NEW w \in Workers
    PROVE  /\ TakeJob(w) => Head(jobs[w]) \in EndedJob
           /\ TakeUrgent(w) => Head(urgent[w]) \in EndedJob
           /\ TakeJob(w) \/ TakeUrgent(w) => /\ jobs' \in [Workers -> Seq(EndedJob)]
                                            /\ urgent' \in [Workers -> Seq(EndedJob)]
<1>1. CASE TakeJob(w)
  <2>1. jobs \in [Workers -> Seq(EndedJob)] /\ jobs[w] # <<>>
    BY <1>1 DEF TakeJob, ReleasesAreOfEnded
  <2>2. /\ Head(jobs[w]) \in EndedJob
        /\ [jobs EXCEPT ![w] = Tail(@)] \in [Workers -> Seq(EndedJob)]
    BY <2>1, TailOfQueue
  <2>3. QED
    BY <1>1, <2>2 DEF TakeJob, TakeUrgent, ReleasesAreOfEnded
<1>2. CASE TakeUrgent(w)
  <2>1. urgent \in [Workers -> Seq(EndedJob)] /\ urgent[w] # <<>>
    BY <1>2 DEF TakeUrgent, ReleasesAreOfEnded
  <2>2. /\ Head(urgent[w]) \in EndedJob
        /\ [urgent EXCEPT ![w] = Tail(@)] \in [Workers -> Seq(EndedJob)]
    BY <2>1, TailOfQueue
  <2>3. QED
    BY <1>2, <2>2 DEF TakeJob, TakeUrgent, ReleasesAreOfEnded
<1>3. QED
  BY <1>1, <1>2

LEMMA ExecuteTyped ==
    ASSUME ProcessTyped, NEW w \in Workers, NEW j \in EndedJob,
           Execute(w, j) \/ UNCHANGED <<sessions, target>>
    PROVE  sessions' \in [Workers -> SUBSET Calls] /\ target' \in [Calls -> Versions]
<1>1. j.call \in Calls /\ j.ver \in Versions
  BY DEF EndedJob, Job
<1>2. CASE Execute(w, j)
  <2>1. \E T \in SUBSET Calls : sessions' = [sessions EXCEPT ![w] = T]
    BY <1>1, <1>2 DEF Execute, ProcessTyped
  <2>2. QED
    BY <1>1, <1>2, <2>1 DEF Execute, ProcessTyped
<1>3. CASE UNCHANGED <<sessions, target>>
  BY <1>3 DEF ProcessTyped
<1>4. QED
  BY <1>2, <1>3

LEMMA ServeStep ==
    ASSUME ProcessTyped, ReleasesAreOfEnded, NEW w \in Workers, NEW j \in EndedJob,
           Serve(w, j) \/ Fail(w, j)
    PROVE  ProcessTyped' /\ results' \in Seq(EndedResult)
<1>1. Execute(w, j) \/ UNCHANGED <<sessions, target>>
  BY DEF Serve, Fail
<1>2. \E ok \in BOOLEAN : Post(Reply(j, ok))
  BY DEF Serve, Fail
<1>3. results' \in Seq(EndedResult)
  BY <1>2, RepliesAreOfEnded
<1>4. sessions' \in [Workers -> SUBSET Calls] /\ target' \in [Calls -> Versions]
  BY <1>1, ExecuteTyped
<1>5. gen' = gen /\ failures' = failures /\ status' \in [Workers -> Status]
  BY DEF Serve, Fail, ProcessTyped, Status
<1>6. QED
  BY <1>3, <1>4, <1>5 DEF ProcessTyped

LEMMA PoolStepIInv ==
    ASSUME ProcessTyped, ReleasesAreOfEnded, PoolStep
    PROVE  ProcessTyped' /\ ReleasesAreOfEnded'
<1>1. PICK w \in Workers :
         \/ ServeAllocate(w) \/ ServeUrgent(w)
         \/ RefuseAllocate(w) \/ RefuseConnect(w) \/ ServeFails(w) \/ Break(w)
         \/ ClearHealthy(w) \/ KillProcess(w) \/ DrainQueue(w) \/ ReportFailure(w)
         \/ Restart(w) \/ RestartFails(w)
  BY DEF PoolStep, PoolNext
<1>2. EndedJob' = EndedJob /\ EndedResult' = EndedResult
  BY DEF PoolStep, callVars, EndedJob, EndedResult
<1>3. SUFFICES /\ ProcessTyped'
               /\ jobs' \in [Workers -> Seq(EndedJob)]
               /\ urgent' \in [Workers -> Seq(EndedJob)]
               /\ results' \in Seq(EndedResult)
  BY <1>2 DEF ReleasesAreOfEnded
<1>4. CASE ServeAllocate(w)
  BY <1>4, TakeKeepsQueues, ServeStep DEF ServeAllocate, ReleasesAreOfEnded
<1>5. CASE ServeUrgent(w)
  BY <1>5, TakeKeepsQueues, ServeStep DEF ServeUrgent, ReleasesAreOfEnded
<1>6. CASE ServeFails(w)
  BY <1>6, TakeKeepsQueues, ServeStep DEF ServeFails, ReleasesAreOfEnded
<1>7. CASE RefuseAllocate(w)
  BY <1>7, TakeKeepsQueues, RepliesAreOfEnded
     DEF RefuseAllocate, ReleasesAreOfEnded, ProcessTyped
<1>8. CASE RefuseConnect(w)
  BY <1>8, TakeKeepsQueues, RepliesAreOfEnded
     DEF RefuseConnect, ReleasesAreOfEnded, ProcessTyped
<1>9. CASE Break(w)
  <2>1. PICK left \in {{}, sessions[w]} : sessions' = [sessions EXCEPT ![w] = left]
    BY <1>9 DEF Break
  <2>2. QED
    BY <1>9, <2>1 DEF Break, ReleasesAreOfEnded, ProcessTyped, Status
<1>10. CASE ClearHealthy(w)
  BY <1>10 DEF ClearHealthy, ReleasesAreOfEnded, ProcessTyped, Status
<1>11. CASE KillProcess(w)
  BY <1>11 DEF KillProcess, ReleasesAreOfEnded, ProcessTyped, Status
<1>12. CASE DrainQueue(w)
  <2>1. CASE jobs[w] # <<>> /\ jobs' = [jobs EXCEPT ![w] = Tail(@)]
             /\ Post(Reply(Head(jobs[w]), FALSE)) /\ UNCHANGED urgent
    BY <1>12, <2>1, TailOfQueue, RepliesAreOfEnded
       DEF DrainQueue, ReleasesAreOfEnded, ProcessTyped
  <2>2. CASE urgent[w] # <<>> /\ urgent' = [urgent EXCEPT ![w] = Tail(@)]
             /\ Post(Reply(Head(urgent[w]), FALSE)) /\ UNCHANGED jobs
    BY <1>12, <2>2, TailOfQueue, RepliesAreOfEnded
       DEF DrainQueue, ReleasesAreOfEnded, ProcessTyped
  <2>3. QED
    BY <1>12, <2>1, <2>2 DEF DrainQueue
<1>13. CASE ReportFailure(w)
  <2>1. [worker |-> w, gen |-> gen[w]] \in Failure
    BY DEF Failure, ProcessTyped
  <2>2. failures' \in Seq(Failure)
    BY <1>13, <2>1, AppendProperties DEF ReportFailure, ProcessTyped
  <2>3. QED
    BY <1>13, <2>2 DEF ReportFailure, ReleasesAreOfEnded, ProcessTyped, Status
<1>14. CASE Restart(w)
  <2>1. gen[w] + 1 \in Generations
    BY <1>14 DEF Restart, Generations, ProcessTyped
  <2>2. QED
    BY <1>14, <2>1 DEF Restart, ReleasesAreOfEnded, ProcessTyped, Status
<1>15. CASE RestartFails(w)
  BY <1>15 DEF RestartFails, ReleasesAreOfEnded, ProcessTyped, Status
<1>16. QED
  BY <1>1, <1>4, <1>5, <1>6, <1>7, <1>8, <1>9, <1>10, <1>11, <1>12, <1>13, <1>14, <1>15

(* Every handler but admission and workerFailed works on one call c: it    *)
(* gives back at most the quota of c, and then only if c has ended.        *)
HandlerTyped ==
    /\ pending' \in SUBSET Calls /\ allocated' \in SUBSET Calls
    /\ releasing' \in SUBSET Calls /\ retry' \in SUBSET Calls
    /\ ended' \in SUBSET Calls /\ ended \subseteq ended'
    /\ connectVersion' \in [Calls -> Versions]
    /\ connectInFlight' \in [Calls -> Versions]
    /\ connectQueued' \in [Calls -> Versions]

LEMMA HandlerIInv ==
    ASSUME IInv, NEW c \in Calls, HandlerTyped, QuotaStep(c), UrgentStep,
           reserved' \in SUBSET reserved, c \in ended' \/ reserved' = reserved,
           UNCHANGED <<gen, status, jobs, sessions, target, failures, used, worker, generation>>,
           known' \in SUBSET known, results' \in Seq(EndedResult)
    PROVE  IInv'
<1>1. FlagsTyped'
  BY DEF HandlerTyped, FlagsTyped, IInv
<1>2. ProcessTyped'
  BY DEF ProcessTyped, IInv
<1>3. ReleasesAreOfEnded'
  <2>1. EndedJob \subseteq EndedJob' /\ EndedResult \subseteq EndedResult'
    BY DEF HandlerTyped, EndedJob, EndedResult
  <2>2. Seq(EndedJob) \subseteq Seq(EndedJob') /\ Seq(EndedResult) \subseteq Seq(EndedResult')
    BY <2>1, SeqMonotonic
  <2>3. jobs' \in [Workers -> Seq(EndedJob')] /\ results' \in Seq(EndedResult')
    BY <2>2 DEF ReleasesAreOfEnded, IInv
  <2>4. urgent' \in [Workers -> Seq(EndedJob')]
    BY DEF UrgentStep, EndedJob
  <2>5. QED
    BY <2>3, <2>4 DEF ReleasesAreOfEnded
<1>4. QuotaCounted'
  BY QuotaStepCounts DEF IInv
<1>5. LiveCallsReserved'
  BY DEF LiveCallsReserved, IInv, HandlerTyped, QuotaStep
<1>6. QED
  BY <1>1, <1>2, <1>3, <1>4, <1>5 DEF IInv

(* A step that adds nothing to the urgent queues.                          *)
LEMMA UrgentKept ==
    ASSUME ReleasesAreOfEnded, ended \subseteq ended', urgent' = urgent
    PROVE  UrgentStep
<1>1. EndedJob \subseteq EndedJob'
  BY DEF EndedJob
<1>2. Seq(EndedJob) \subseteq Seq(EndedJob')
  BY <1>1, SeqMonotonic
<1>3. QED
  BY <1>2 DEF UrgentStep, EndedJob, ReleasesAreOfEnded

LEMMA ReceivedTyped ==
    ASSUME IInv, NEW op, Received(op)
    PROVE  /\ Head(results) \in EndedResult /\ Head(results).call \in known
           /\ Head(results).op = op /\ results' \in Seq(EndedResult)
  BY HeadTailProperties DEF Received, IInv, ReleasesAreOfEnded

LEMMA AdmitIInv ==
    ASSUME IInv, NEW c \in Calls, NEW w \in Workers, Admit(c, w)
    PROVE  IInv'
<1>1. CASE /\ jobs' = [jobs EXCEPT ![w] = Append(@, NewJob(c, gen[w], "allocate", 0))]
           /\ pending' = pending \cup {c}
           /\ reserved' = reserved \cup {c}
           /\ workerLoads' = [workerLoads EXCEPT ![w] = @ + 1]
           /\ active' = active + 1
           /\ UNCHANGED ended
  <2>1. FlagsTyped'
    BY <1>1 DEF Admit, connectVars, FlagsTyped, ProcessTyped, IInv
  <2>2. ProcessTyped'
    BY <1>1 DEF Admit, ProcessTyped, IInv
  <2>3. ReleasesAreOfEnded'
    <3>1. EndedJob' = EndedJob /\ EndedResult' = EndedResult
      BY <1>1 DEF EndedJob, EndedResult
    <3>2. NewJob(c, gen[w], "allocate", 0) \in EndedJob
      BY DEF NewJob, EndedJob, Job, Ops, Versions, ProcessTyped, IInv
    <3>3. jobs' \in [Workers -> Seq(EndedJob)]
      BY <1>1, <3>2, AppendProperties DEF ReleasesAreOfEnded, IInv
    <3>4. QED
      BY <1>1, <3>1, <3>3 DEF ReleasesAreOfEnded, Admit, IInv
  <2>4. QuotaCounted'
    <3>1. c \notin reserved
      BY DEF Admit, FlagsTyped, IInv
    <3>2. IsFiniteSet(reserved) /\ \A v \in Workers : IsFiniteSet(ReservedOn(v))
      BY FS_Subset DEF FlagsTyped, ReservedOn, IInv
    <3>3. active' = Cardinality(reserved')
      BY <1>1, <3>1, <3>2, FS_AddElement DEF QuotaCounted, IInv
    <3>4. ASSUME NEW v \in Workers
          PROVE  workerLoads'[v] = Cardinality(ReservedOn(v)')
      <4>1. CASE v = w
        <5>1. ReservedOn(v)' = ReservedOn(v) \cup {c} /\ c \notin ReservedOn(v)
          BY <1>1, <3>1, <4>1 DEF ReservedOn, Admit, FlagsTyped, IInv
        <5>2. Cardinality(ReservedOn(v)') = Cardinality(ReservedOn(v)) + 1
          BY <3>2, <5>1, FS_AddElement
        <5>3. QED
          BY <1>1, <4>1, <5>2 DEF QuotaCounted, IInv
      <4>2. CASE v # w
        <5>1. ReservedOn(v)' = ReservedOn(v)
          BY <1>1, <3>1, <4>2 DEF ReservedOn, Admit, FlagsTyped, IInv
        <5>2. QED
          BY <1>1, <4>2, <5>1 DEF QuotaCounted, IInv
      <4>3. QED
        BY <4>1, <4>2
    <3>5. QED
      BY <1>1, <3>3, <3>4 DEF QuotaCounted, IInv
  <2>5. LiveCallsReserved'
    BY <1>1 DEF LiveCallsReserved, Admit, IInv
  <2>6. QED
    BY <2>1, <2>2, <2>3, <2>4, <2>5 DEF IInv
<1>2. CASE /\ ended' = ended \cup {c}
           /\ UNCHANGED <<jobs, pending, reserved, workerLoads, active>>
  <2>1. FlagsTyped'
    BY <1>2 DEF Admit, connectVars, FlagsTyped, ProcessTyped, IInv
  <2>2. ProcessTyped'
    BY DEF Admit, ProcessTyped, IInv
  <2>3. ReleasesAreOfEnded'
    <3>1. EndedJob \subseteq EndedJob' /\ EndedResult \subseteq EndedResult'
      BY <1>2 DEF EndedJob, EndedResult
    <3>2. Seq(EndedJob) \subseteq Seq(EndedJob') /\ Seq(EndedResult) \subseteq Seq(EndedResult')
      BY <3>1, SeqMonotonic
    <3>3. QED
      BY <1>2, <3>2 DEF ReleasesAreOfEnded, Admit, IInv
  <2>4. QuotaCounted'
    <3>1. \A v \in Workers : ReservedOn(v)' = ReservedOn(v)
      BY <1>2 DEF ReservedOn, Admit, FlagsTyped, IInv
    <3>2. QED
      BY <1>2, <3>1 DEF QuotaCounted, IInv
  <2>5. LiveCallsReserved'
    BY <1>2 DEF LiveCallsReserved, Admit, IInv
  <2>6. QED
    BY <2>1, <2>2, <2>3, <2>4, <2>5 DEF IInv
<1>3. QED
  BY <1>1, <1>2 DEF Admit

LEMMA EndCallIInv ==
    ASSUME IInv, NEW c \in Calls, EndCall(c)
    PROVE  IInv'
<1>1. Finish(c, allocated, pending)
  BY DEF EndCall
<1>2. allocated \in SUBSET Calls /\ pending \in SUBSET Calls
  BY DEF FlagsTyped, IInv
<1>3. /\ QuotaStep(c) /\ UrgentStep /\ reserved' \in SUBSET reserved
      /\ retry' \in SUBSET Calls /\ allocated' \in SUBSET Calls
      /\ releasing' \in SUBSET Calls /\ ended' = ended \cup {c}
      /\ connectQueued' \in [Calls -> Versions]
  BY <1>1, <1>2, FinishQuota DEF IInv, ReleasesAreOfEnded
<1>4. HandlerTyped
  BY <1>3 DEF HandlerTyped, EndCall, FlagsTyped, IInv
<1>5. QED
  BY <1>3, <1>4, HandlerIInv DEF EndCall, ReleasesAreOfEnded, FlagsTyped, IInv

LEMMA ConnectIInv ==
    ASSUME IInv, NEW c \in Calls, Connect(c)
    PROVE  IInv'
<1>1. connectVersion[c] + 1 \in Versions
  BY DEF Connect, Versions, FlagsTyped, IInv
<1>2. connectVersion' \in [Calls -> Versions]
  BY <1>1 DEF Connect, FlagsTyped, IInv
<1>3. CASE connectInFlight[c] # 0
  <2>1. /\ connectQueued' = [connectQueued EXCEPT ![c] = connectVersion[c] + 1]
        /\ UNCHANGED <<urgent, connectInFlight, quotaVars, allocated, releasing, ended>>
    BY <1>3 DEF Connect
  <2>2. HandlerTyped
    BY <1>1, <1>2, <2>1 DEF HandlerTyped, Connect, quotaVars, FlagsTyped, IInv
  <2>3. UrgentStep
    BY <2>1, UrgentKept DEF IInv
  <2>4. QuotaStep(c) /\ reserved' = reserved
    BY <2>1 DEF QuotaStep, quotaVars
  <2>5. QED
    BY <2>2, <2>3, <2>4, HandlerIInv DEF Connect, ReleasesAreOfEnded, FlagsTyped, IInv
<1>4. CASE connectInFlight[c] = 0
  <2>1. SubmitConnect(c, connectVersion[c] + 1)
    BY <1>4 DEF Connect
  <2>2. /\ QuotaStep(c) /\ UrgentStep /\ reserved' \in SUBSET reserved
        /\ retry' \in SUBSET Calls /\ allocated' \in SUBSET Calls
        /\ releasing' \in SUBSET Calls
        /\ ended' = ended \/ (ended' = ended \cup {c})
        /\ c \in ended' \/ reserved' = reserved
        /\ connectQueued' \in [Calls -> Versions]
        /\ connectInFlight' \in [Calls -> Versions]
    BY <1>1, <2>1, SubmitConnectQuota DEF IInv, ReleasesAreOfEnded
  <2>3. HandlerTyped
    BY <1>2, <2>2 DEF HandlerTyped, Connect, FlagsTyped, IInv
  <2>4. QED
    BY <2>2, <2>3, HandlerIInv DEF Connect, ReleasesAreOfEnded, FlagsTyped, IInv
<1>5. QED
  BY <1>3, <1>4

LEMMA AllocateResultIInv ==
    ASSUME IInv, AllocateResult
    PROVE  IInv'
<1> DEFINE r == Head(results)
           c == r.call
<1>1. r \in EndedResult /\ c \in known /\ results' \in Seq(EndedResult)
  BY ReceivedTyped DEF AllocateResult
<1>2. c \in Calls /\ c \in used
  BY <1>1 DEF FlagsTyped, IInv
<1>3. pending' = pending \ {c}
  BY DEF AllocateResult
<1>4. /\ allocated \in SUBSET Calls /\ allocated \cup {c} \in SUBSET Calls
      /\ pending \ {c} \in SUBSET Calls /\ retry \in SUBSET Calls
  BY <1>2 DEF FlagsTyped, IInv
<1>5. UNCHANGED <<gen, status, jobs, sessions, target, failures, used, known, worker,
                  generation, connectVersion, connectInFlight>>
  BY DEF AllocateResult
<1>6. CASE ~r.ok /\ AllocateFailed(c)
  <2>1. /\ QuotaStep(c) /\ UrgentStep /\ reserved' \in SUBSET reserved
        /\ retry' \in SUBSET Calls /\ allocated' \in SUBSET Calls
        /\ releasing' \in SUBSET Calls /\ ended' = ended \cup {c}
        /\ connectQueued' \in [Calls -> Versions]
    BY <1>2, <1>4, <1>6, FinishQuota DEF AllocateFailed, IInv, ReleasesAreOfEnded
  <2>2. HandlerTyped
    BY <1>2, <1>3, <1>4, <1>5, <2>1 DEF HandlerTyped, FlagsTyped, IInv
  <2>3. QED
    BY <1>1, <1>2, <1>5, <2>1, <2>2, HandlerIInv DEF FlagsTyped, IInv
<1>7. CASE /\ r.ok /\ c \in ended
           /\ ReleaseMedia(c, allocated \cup {c}, retry)
           /\ UNCHANGED <<ended, connectQueued>>
  <2>1. /\ QuotaStep(c) /\ UrgentStep /\ reserved' \in SUBSET reserved
        /\ retry' \in SUBSET Calls /\ allocated' \in SUBSET Calls
        /\ releasing' \in SUBSET Calls
    BY <1>2, <1>4, <1>7, ReleaseMediaQuota DEF IInv, ReleasesAreOfEnded
  <2>2. HandlerTyped
    BY <1>3, <1>4, <1>5, <1>7, <2>1 DEF HandlerTyped, FlagsTyped, IInv
  <2>3. QED
    BY <1>1, <1>2, <1>5, <1>7, <2>1, <2>2, HandlerIInv DEF FlagsTyped, IInv
<1>8. CASE /\ r.ok /\ c \notin ended
           /\ allocated' = allocated \cup {c}
           /\ UNCHANGED <<quotaVars, releasing, ended, urgent, connectQueued>>
  <2>1. HandlerTyped
    BY <1>3, <1>4, <1>5, <1>8 DEF HandlerTyped, quotaVars, FlagsTyped, IInv
  <2>2. UrgentStep
    BY <1>8, UrgentKept DEF IInv
  <2>3. QuotaStep(c) /\ reserved' = reserved
    BY <1>8 DEF QuotaStep, quotaVars
  <2>4. QED
    BY <1>1, <1>2, <1>5, <2>1, <2>2, <2>3, HandlerIInv DEF FlagsTyped, IInv
<1>9. QED
  BY <1>6, <1>7, <1>8 DEF AllocateResult

LEMMA ConnectResultIInv ==
    ASSUME IInv, ConnectResult
    PROVE  IInv'
<1> DEFINE r == Head(results)
           c == r.call
<1>1. r \in EndedResult /\ c \in known /\ results' \in Seq(EndedResult)
  BY ReceivedTyped DEF ConnectResult
<1>2. c \in Calls /\ c \in used /\ 0 \in Versions
  BY <1>1 DEF FlagsTyped, Versions, IInv
<1>3. /\ allocated \in SUBSET Calls /\ pending \in SUBSET Calls
      /\ connectQueued[c] \in Versions
  BY <1>2 DEF FlagsTyped, IInv
<1>4. UNCHANGED <<gen, status, jobs, sessions, target, failures, used, known,
                  worker, generation, pending, connectVersion>>
  BY DEF ConnectResult
<1>5. CASE SubmitConnect(c, connectQueued[c])
  <2>1. /\ QuotaStep(c) /\ UrgentStep /\ reserved' \in SUBSET reserved
        /\ retry' \in SUBSET Calls /\ allocated' \in SUBSET Calls
        /\ releasing' \in SUBSET Calls
        /\ ended' = ended \/ (ended' = ended \cup {c})
        /\ c \in ended' \/ reserved' = reserved
        /\ connectQueued' \in [Calls -> Versions]
        /\ connectInFlight' \in [Calls -> Versions]
    BY <1>2, <1>3, <1>5, SubmitConnectQuota DEF IInv, ReleasesAreOfEnded
  <2>2. HandlerTyped
    BY <1>2, <1>4, <2>1 DEF HandlerTyped, FlagsTyped, IInv
  <2>3. QED
    BY <1>1, <1>2, <1>4, <2>1, <2>2, HandlerIInv DEF FlagsTyped, IInv
<1>6. CASE /\ connectInFlight' = [connectInFlight EXCEPT ![c] = 0]
           /\ Finish(c, allocated, pending)
  <2>1. /\ QuotaStep(c) /\ UrgentStep /\ reserved' \in SUBSET reserved
        /\ retry' \in SUBSET Calls /\ allocated' \in SUBSET Calls
        /\ releasing' \in SUBSET Calls /\ ended' = ended \cup {c}
        /\ connectQueued' \in [Calls -> Versions]
    BY <1>2, <1>3, <1>6, FinishQuota DEF IInv, ReleasesAreOfEnded
  <2>2. HandlerTyped
    BY <1>2, <1>4, <1>6, <2>1 DEF HandlerTyped, FlagsTyped, IInv
  <2>3. QED
    BY <1>1, <1>2, <1>4, <2>1, <2>2, HandlerIInv DEF FlagsTyped, IInv
<1>7. CASE /\ connectInFlight' \in {connectInFlight, [connectInFlight EXCEPT ![c] = 0]}
           /\ connectQueued' \in {connectQueued, [connectQueued EXCEPT ![c] = 0]}
           /\ UNCHANGED <<quotaVars, allocated, releasing, ended, urgent>>
  <2>1. HandlerTyped
    BY <1>2, <1>3, <1>4, <1>7 DEF HandlerTyped, quotaVars, FlagsTyped, IInv
  <2>2. UrgentStep
    BY <1>7, UrgentKept DEF IInv
  <2>3. QuotaStep(c) /\ reserved' = reserved
    BY <1>7 DEF QuotaStep, quotaVars
  <2>4. QED
    BY <1>1, <1>2, <1>4, <2>1, <2>2, <2>3, HandlerIInv DEF FlagsTyped, IInv
<1>8. QED
  BY <1>5, <1>6, <1>7 DEF ConnectResult

LEMMA ReleaseResultIInv ==
    ASSUME IInv, ReleaseResult
    PROVE  IInv'
<1> DEFINE r == Head(results)
           c == r.call
<1>1. /\ r \in EndedResult /\ c \in known /\ r.op = "release"
      /\ results' \in Seq(EndedResult)
  BY ReceivedTyped DEF ReleaseResult
<1>2. c \in Calls /\ c \in ended
  BY <1>1 DEF FlagsTyped, EndedResult, IInv
<1>3. allocated \in SUBSET Calls /\ retry \in SUBSET Calls
  BY DEF FlagsTyped, IInv
<1>4. /\ releasing' = releasing \ {c}
      /\ UNCHANGED <<gen, status, jobs, urgent, sessions, target, failures, used, known,
                     worker, generation, pending, ended, connectVars>>
  BY DEF ReleaseResult
<1>5. /\ QuotaStep(c) /\ reserved' \in SUBSET reserved
      /\ retry' \in SUBSET Calls /\ allocated' \in SUBSET Calls
  <2>1. CASE allocated' = allocated \ {c} /\ ReleaseReservation(c)
    BY <1>2, <1>3, <2>1, ReleaseReservationQuota DEF IInv
  <2>2. CASE ReleaseFailed(c, allocated, retry)
    BY <1>2, <1>3, <2>2, ReleaseFailedQuota DEF IInv
  <2>3. QED
    BY <2>1, <2>2 DEF ReleaseResult
<1>6. UrgentStep
  BY <1>4, UrgentKept DEF IInv
<1>7. HandlerTyped
  BY <1>4, <1>5 DEF HandlerTyped, connectVars, FlagsTyped, IInv
<1>8. QED
  BY <1>1, <1>2, <1>4, <1>5, <1>6, <1>7, HandlerIInv DEF FlagsTyped, IInv

LEMMA ReleaseRetryIInv ==
    ASSUME IInv, NEW c \in Calls, ReleaseRetry(c)
    PROVE  IInv'
<1>1. UNCHANGED <<gen, status, jobs, sessions, target, results, failures, used, known,
                  worker, generation, pending, ended, connectVars>>
  BY DEF ReleaseRetry
<1>2. allocated \in SUBSET Calls /\ retry \ {c} \in SUBSET Calls
  BY DEF FlagsTyped, IInv
<1>3. /\ QuotaStep(c) /\ UrgentStep /\ reserved' \in SUBSET reserved
      /\ c \in ended' \/ reserved' = reserved
      /\ retry' \in SUBSET Calls /\ allocated' \in SUBSET Calls
      /\ releasing' \in SUBSET Calls
  <2>1. CASE c \in ended
    BY <1>1, <1>2, <2>1, ReleaseMediaQuota DEF ReleaseRetry, IInv, ReleasesAreOfEnded
  <2>2. CASE c \notin ended
    <3>1. UrgentStep
      BY <1>1, <2>2, UrgentKept DEF ReleaseRetry, IInv
    <3>2. QED
      BY <1>1, <1>2, <2>2, <3>1 DEF ReleaseRetry, QuotaStep, FlagsTyped, IInv
  <2>3. QED
    BY <2>1, <2>2
<1>4. HandlerTyped
  BY <1>1, <1>3 DEF HandlerTyped, connectVars, FlagsTyped, IInv
<1>5. QED
  BY <1>1, <1>3, <1>4, HandlerIInv DEF ReleasesAreOfEnded, FlagsTyped, IInv

(* The calls of a failed generation lose their quota together; the ones    *)
(* that hold quota are all counted against the worker that failed.         *)
LEMMA WorkerFailedIInv ==
    ASSUME IInv, WorkerFailed
    PROVE  IInv'
<1> DEFINE f == Head(failures)
           lost == Owned(f)
<1>1. f \in Failure /\ failures' \in Seq(Failure)
  BY HeadTailProperties DEF WorkerFailed, ProcessTyped, IInv
<1>2. f.worker \in Workers /\ lost \subseteq Calls
  BY <1>1 DEF Failure, Owned, FlagsTyped, IInv
<1>3. /\ pending' = pending \ lost /\ allocated' = allocated \ lost
      /\ releasing' = releasing \ lost /\ ended' = ended \cup lost
      /\ retry' = retry \ lost /\ reserved' = reserved \ lost
      /\ workerLoads' = [workerLoads EXCEPT ![f.worker] = @ - Cardinality(lost \cap reserved)]
      /\ active' = active - Cardinality(lost \cap reserved)
      /\ connectInFlight' = [c \in Calls |-> IF c \in lost THEN 0 ELSE connectInFlight[c]]
      /\ connectQueued' = [c \in Calls |-> IF c \in lost THEN 0 ELSE connectQueued[c]]
      /\ UNCHANGED <<gen, status, jobs, urgent, sessions, target, results, used, known,
                     worker, generation, connectVersion>>
  BY DEF WorkerFailed
<1>4. FlagsTyped'
  BY <1>2, <1>3 DEF FlagsTyped, Versions, IInv
<1>5. ProcessTyped'
  BY <1>1, <1>3 DEF ProcessTyped, IInv
<1>6. ReleasesAreOfEnded'
  <2>1. EndedJob \subseteq EndedJob' /\ EndedResult \subseteq EndedResult'
    BY <1>3 DEF EndedJob, EndedResult
  <2>2. Seq(EndedJob) \subseteq Seq(EndedJob') /\ Seq(EndedResult) \subseteq Seq(EndedResult')
    BY <2>1, SeqMonotonic
  <2>3. QED
    BY <1>3, <2>2 DEF ReleasesAreOfEnded, IInv
<1>7. QuotaCounted'
  <2>1. IsFiniteSet(reserved) /\ \A w \in Workers : IsFiniteSet(ReservedOn(w))
    BY FS_Subset DEF FlagsTyped, ReservedOn, IInv
  <2>2. active' = Cardinality(reserved')
    <3>1. Cardinality(reserved \ lost) = Cardinality(reserved) - Cardinality(reserved \cap lost)
      BY <2>1, FS_Difference
    <3>2. reserved \cap lost = lost \cap reserved
      OBVIOUS
    <3>3. QED
      BY <1>3, <3>1, <3>2 DEF QuotaCounted, IInv
  <2>3. ASSUME NEW w \in Workers
        PROVE  workerLoads'[w] = Cardinality(ReservedOn(w)') /\ workerLoads'[w] \in Nat
    <3>1. CASE w = f.worker
      <4>1. /\ ReservedOn(w)' = ReservedOn(w) \ lost
            /\ ReservedOn(w) \cap lost = lost \cap reserved
        BY <1>3, <3>1 DEF ReservedOn, Owned
      <4>2. /\ IsFiniteSet(ReservedOn(w)')
            /\ Cardinality(ReservedOn(w)')
                 = Cardinality(ReservedOn(w)) - Cardinality(lost \cap reserved)
        <5>1. IsFiniteSet(ReservedOn(w))
          BY <2>1
        <5>2. /\ IsFiniteSet(ReservedOn(w) \ lost)
              /\ Cardinality(ReservedOn(w) \ lost)
                   = Cardinality(ReservedOn(w)) - Cardinality(ReservedOn(w) \cap lost)
          BY <5>1, FS_Difference
        <5>3. QED
          BY <4>1, <5>2
      <4>3. Cardinality(ReservedOn(w)') \in Nat
        BY <4>2, FS_CardinalityType
      <4>4. QED
        BY <1>3, <3>1, <4>2, <4>3 DEF QuotaCounted, IInv
    <3>2. CASE w # f.worker
      <4>1. ReservedOn(w)' = ReservedOn(w)
        BY <1>3, <3>2 DEF ReservedOn, Owned
      <4>2. QED
        BY <1>3, <3>2, <4>1 DEF QuotaCounted, IInv
    <3>3. QED
      BY <3>1, <3>2
  <2>4. QED
    BY <1>2, <1>3, <2>2, <2>3 DEF QuotaCounted, IInv
<1>8. LiveCallsReserved'
  BY <1>3 DEF LiveCallsReserved, IInv
<1>9. QED
  BY <1>4, <1>5, <1>6, <1>7, <1>8 DEF IInv

(* Steps that touch no quota at all.                                       *)
LEMMA QuotaKeptIInv ==
    ASSUME IInv, ProcessTyped', ReleasesAreOfEnded', known' \in SUBSET known,
           UNCHANGED <<used, worker, generation, quotaVars, pending, allocated, releasing,
                       ended, connectVars>>
    PROVE  IInv'
<1>1. FlagsTyped'
  BY DEF FlagsTyped, IInv, quotaVars, connectVars
<1>2. \A w \in Workers : ReservedOn(w)' = ReservedOn(w)
  BY DEF ReservedOn, quotaVars
<1>3. QuotaCounted'
  BY <1>2 DEF QuotaCounted, IInv, quotaVars
<1>4. LiveCallsReserved'
  BY DEF LiveCallsReserved, IInv, quotaVars
<1>5. QED
  BY <1>1, <1>3, <1>4 DEF IInv

LEMMA NextIInv == IInv /\ [Next]_vars => IInv'
<1>1. SUFFICES ASSUME IInv, [Next]_vars PROVE IInv'
  OBVIOUS
<1>2. CASE PoolStep
  <2>1. ProcessTyped' /\ ReleasesAreOfEnded'
    BY <1>1, <1>2, PoolStepIInv DEF IInv
  <2>2. QED
    BY <1>1, <1>2, <2>1, QuotaKeptIInv DEF PoolStep, callVars, quotaVars, connectVars
<1>3. CASE \E c \in Calls, w \in Workers : Admit(c, w)
  BY <1>1, <1>3, AdmitIInv
<1>4. CASE \E c \in Calls : EndCall(c)
  BY <1>1, <1>4, EndCallIInv
<1>5. CASE \E c \in Calls : Connect(c)
  BY <1>1, <1>5, ConnectIInv
<1>6. CASE AllocateResult
  BY <1>1, <1>6, AllocateResultIInv
<1>7. CASE ConnectResult
  BY <1>1, <1>7, ConnectResultIInv
<1>8. CASE ReleaseResult
  BY <1>1, <1>8, ReleaseResultIInv
<1>9. CASE DropResult
  <2>1. ProcessTyped' /\ ReleasesAreOfEnded'
    BY <1>1, <1>9, HeadTailProperties
       DEF DropResult, callVars, ProcessTyped, ReleasesAreOfEnded, EndedJob, EndedResult, IInv
  <2>2. QED
    BY <1>1, <1>9, <2>1, QuotaKeptIInv DEF DropResult, callVars, quotaVars, connectVars
<1>10. CASE \E c \in Calls : ReleaseRetry(c)
  BY <1>1, <1>10, ReleaseRetryIInv
<1>11. CASE \E c \in Calls : CallGC(c)
  <2>1. ProcessTyped' /\ ReleasesAreOfEnded'
    BY <1>1, <1>11 DEF CallGC, poolVars, ProcessTyped, ReleasesAreOfEnded, EndedJob,
                      EndedResult, IInv
  <2>2. QED
    BY <1>1, <1>11, <2>1, QuotaKeptIInv DEF CallGC
<1>12. CASE WorkerFailed
  BY <1>1, <1>12, WorkerFailedIInv
<1>13. CASE UNCHANGED vars
  <2>1. ProcessTyped' /\ ReleasesAreOfEnded'
    BY <1>1, <1>13 DEF vars, callVars, poolVars, ProcessTyped, ReleasesAreOfEnded, EndedJob,
                      EndedResult, IInv
  <2>2. QED
    BY <1>1, <1>13, <2>1, QuotaKeptIInv DEF vars, callVars, quotaVars, connectVars
<1>14. QED
  BY <1>1, <1>2, <1>3, <1>4, <1>5, <1>6, <1>7, <1>8, <1>9, <1>10, <1>11, <1>12, <1>13 DEF Next

LEMMA InvariantIInv == Spec => []IInv
BY InitIInv, NextIInv, PTL DEF Spec

-----------------------------------------------------------------------------
(* The results.                                                            *)

LEMMA IInvImpliesTypeOK == IInv => TypeOK
<1>1. SUFFICES ASSUME IInv PROVE TypeOK
  OBVIOUS
<1>2. EndedJob \subseteq Job /\ EndedResult \subseteq Result
  BY DEF EndedJob, EndedResult
<1>3. Seq(EndedJob) \subseteq Seq(Job) /\ Seq(EndedResult) \subseteq Seq(Result)
  BY <1>2, SeqMonotonic
<1>4. PoolTypeOK
  BY <1>1, <1>3 DEF PoolTypeOK, ProcessTyped, ReleasesAreOfEnded, IInv
<1>5. IsFiniteSet(reserved)
  BY <1>1, FS_Subset DEF FlagsTyped, IInv
<1>6. active \in Nat
  BY <1>1, <1>5, FS_CardinalityType DEF QuotaCounted, IInv
<1>7. QED
  BY <1>1, <1>4, <1>6 DEF TypeOK, FlagsTyped, QuotaCounted, IInv

(* Types hold in every reachable state; above all the two unsigned         *)
(* counters of the call loop (Stats.Active, workerLoads) never go below    *)
(* zero, in whatever order results, failures and timers arrive.            *)
THEOREM TypesHold == Spec => []TypeOK
BY InvariantIInv, IInvImpliesTypeOK, PTL

(* The counters admission decides on are exactly the numbers of calls that *)
(* hold quota, in total and on each worker: no sequence of releases,       *)
(* repeated ends, retries and worker failures gives quota back twice or    *)
(* loses it.                                                               *)
THEOREM QuotaIsCounted == Spec => []QuotaAccounting
<1>1. IInv => QuotaAccounting
  BY DEF IInv, QuotaCounted, QuotaAccounting
<1>2. QED
  BY <1>1, InvariantIInv, PTL

(* A call that goes on holds its quota: a release or a failed allocation   *)
(* that arrives late never takes it from a live call.                      *)
THEOREM LiveCallsKeepQuota == Spec => []LiveCallsReserved
<1>1. IInv => LiveCallsReserved
  BY DEF IInv
<1>2. QED
  BY <1>1, InvariantIInv, PTL

-----------------------------------------------------------------------------
(* No command outlives the media process it was queued for.                *)
(*                                                                         *)
(* QueuesAreCurrent speaks of serving workers only and is not inductive: a *)
(* stopped worker serves again after Restart.  What carries it over the    *)
(* restart is that the queues are current in every state of the supervisor *)
(* and empty while the restart delay runs, which holds because enqueue     *)
(* reads Healthy and the generation together and supervise drains both     *)
(* queues before it reports the failure.                                   *)

CurrentJob(w) == {j \in Job : j.gen = gen[w]}
QueuesFollowProcess ==
    /\ jobs \in [Workers -> Seq(Job)] /\ urgent \in [Workers -> Seq(Job)]
    /\ \A w \in Workers :
          /\ jobs[w] \in Seq(CurrentJob(w)) /\ urgent[w] \in Seq(CurrentJob(w))
          /\ status[w] = "waiting" => jobs[w] = <<>> /\ urgent[w] = <<>>

(* What a handler may do to the urgent queues: nothing, or add a command   *)
(* of the generation that its healthy worker runs.                         *)
AppendStep(c) ==
    \/ urgent' = urgent
    \/ /\ Healthy(worker[c]) /\ generation[c] = gen[worker[c]]
       /\ \E j \in Job : /\ j.gen = generation[c]
                         /\ urgent' = [urgent EXCEPT ![worker[c]] = Append(@, j)]

LEMMA EnqueueUrgentAppends ==
    ASSUME FlagsTyped, NEW c \in Calls, NEW op \in Ops, NEW v \in Versions,
           Healthy(worker[c]), generation[c] = gen[worker[c]], EnqueueUrgent(c, op, v)
    PROVE  AppendStep(c)
<1> DEFINE j == NewJob(c, generation[c], op, v)
<1>1. j \in Job /\ j.gen = generation[c]
  BY DEF NewJob, Job, FlagsTyped
<1>2. urgent' = [urgent EXCEPT ![worker[c]] = Append(@, j)]
  BY DEF EnqueueUrgent
<1> HIDE DEF j
<1>3. QED
  BY <1>1, <1>2 DEF AppendStep

LEMMA ReleaseMediaAppends ==
    ASSUME FlagsTyped, NEW c \in Calls, NEW al, NEW rt, ReleaseMedia(c, al, rt)
    PROVE  AppendStep(c)
<1>1. "release" \in Ops /\ 0 \in Versions
  BY DEF Ops, Versions
<1>2. CASE CanEnqueue(worker[c], generation[c], "release") /\ EnqueueUrgent(c, "release", 0)
  BY <1>1, <1>2, EnqueueUrgentAppends DEF CanEnqueue
<1>3. CASE urgent' = urgent
  BY <1>3 DEF AppendStep
<1>4. QED
  BY <1>2, <1>3 DEF ReleaseMedia

LEMMA FinishAppends ==
    ASSUME FlagsTyped, NEW c \in Calls, NEW al, NEW pe, Finish(c, al, pe)
    PROVE  AppendStep(c)
  BY ReleaseMediaAppends DEF Finish, AppendStep

LEMMA SubmitConnectAppends ==
    ASSUME FlagsTyped, NEW c \in Calls, NEW v \in Versions, SubmitConnect(c, v)
    PROVE  AppendStep(c)
<1>1. "connect" \in Ops
  BY DEF Ops
<1>2. CASE CanEnqueue(worker[c], generation[c], "connect") /\ EnqueueUrgent(c, "connect", v)
  BY <1>1, <1>2, EnqueueUrgentAppends DEF CanEnqueue
<1>3. CASE Finish(c, allocated, pending)
  BY <1>3, FinishAppends
<1>4. QED
  BY <1>2, <1>3 DEF SubmitConnect

LEMMA AppendKeepsCurrent ==
    ASSUME NEW w \in Workers, NEW q \in Seq(CurrentJob(w)), NEW j \in Job, j.gen = gen[w]
    PROVE  Append(q, j) \in Seq(CurrentJob(w))
<1>1. j \in CurrentJob(w)
  BY DEF CurrentJob
<1>2. QED
  BY <1>1, AppendProperties

LEMMA HandlerFollows ==
    ASSUME FlagsTyped, QueuesFollowProcess, NEW c \in Calls, AppendStep(c),
           UNCHANGED <<gen, status, jobs>>
    PROVE  QueuesFollowProcess'
<1>1. \A w \in Workers : CurrentJob(w)' = CurrentJob(w)
  BY DEF CurrentJob
<1>2. CASE urgent' = urgent
  BY <1>1, <1>2 DEF QueuesFollowProcess
<1>3. CASE urgent' # urgent
  <2>1. PICK j \in Job :
          /\ Healthy(worker[c]) /\ j.gen = gen[worker[c]]
          /\ urgent' = [urgent EXCEPT ![worker[c]] = Append(@, j)]
    BY <1>3 DEF AppendStep
  <2>2. worker[c] \in Workers
    BY DEF FlagsTyped
  <2>3. Append(urgent[worker[c]], j) \in Seq(CurrentJob(worker[c]))
    BY <2>1, <2>2, AppendKeepsCurrent DEF QueuesFollowProcess
  <2>4. Append(urgent[worker[c]], j) \in Seq(Job)
    BY <2>2, AppendProperties DEF QueuesFollowProcess
  <2>5. urgent' \in [Workers -> Seq(Job)]
    BY <2>1, <2>2, <2>4 DEF QueuesFollowProcess
  <2>6. ASSUME NEW w \in Workers
        PROVE  /\ urgent'[w] \in Seq(CurrentJob(w))
               /\ status[w] = "waiting" => urgent'[w] = <<>>
    <3>1. CASE w = worker[c]
      BY <2>1, <2>3, <3>1 DEF QueuesFollowProcess, Healthy
    <3>2. CASE w # worker[c]
      BY <2>1, <3>2 DEF QueuesFollowProcess
    <3>3. QED
      BY <3>1, <3>2
  <2>7. QED
    BY <1>1, <2>5, <2>6 DEF QueuesFollowProcess
<1>4. QED
  BY <1>2, <1>3

LEMMA AdmitFollows ==
    ASSUME IInv, QueuesFollowProcess, NEW c \in Calls, NEW w \in Workers, Admit(c, w)
    PROVE  QueuesFollowProcess'
<1>1. gen' = gen /\ status' = status /\ urgent' = urgent
  BY DEF Admit
<1>2. \A v \in Workers : CurrentJob(v)' = CurrentJob(v)
  BY <1>1 DEF CurrentJob
<1>3. CASE jobs' = jobs
  BY <1>1, <1>2, <1>3 DEF QueuesFollowProcess
<1>4. CASE /\ CanEnqueue(w, gen[w], "allocate")
           /\ jobs' = [jobs EXCEPT ![w] = Append(@, NewJob(c, gen[w], "allocate", 0))]
  <2> DEFINE j == NewJob(c, gen[w], "allocate", 0)
  <2>1. j \in Job /\ j.gen = gen[w]
    BY DEF NewJob, Job, Ops, Versions, ProcessTyped, IInv
  <2> HIDE DEF j
  <2>2. Append(jobs[w], j) \in Seq(CurrentJob(w))
    BY <2>1, AppendKeepsCurrent DEF QueuesFollowProcess
  <2>3. Append(jobs[w], j) \in Seq(Job)
    BY <2>1, AppendProperties DEF QueuesFollowProcess
  <2>4. jobs' \in [Workers -> Seq(Job)]
    BY <1>4, <2>3 DEF QueuesFollowProcess, j
  <2>5. \A v \in Workers : /\ jobs'[v] \in Seq(CurrentJob(v))
                           /\ status[v] = "waiting" => jobs'[v] = <<>>
    BY <1>4, <2>2 DEF QueuesFollowProcess, CanEnqueue, Healthy, j
  <2>6. QED
    BY <1>1, <1>2, <2>4, <2>5 DEF QueuesFollowProcess
<1>5. QED
  BY <1>3, <1>4 DEF Admit

(* The queues of one worker after a command has left the front.            *)
LEMMA TailFollows ==
    ASSUME QueuesFollowProcess, NEW w \in Workers, UNCHANGED gen,
           \/ /\ jobs[w] # <<>> /\ jobs' = [jobs EXCEPT ![w] = Tail(@)] /\ UNCHANGED urgent
           \/ /\ urgent[w] # <<>> /\ urgent' = [urgent EXCEPT ![w] = Tail(@)] /\ UNCHANGED jobs,
           \A v \in Workers : status'[v] = "waiting" => status[v] = "waiting"
    PROVE  QueuesFollowProcess'
<1>1. \A v \in Workers : CurrentJob(v)' = CurrentJob(v)
  BY DEF CurrentJob
<1>2. CASE jobs[w] # <<>> /\ jobs' = [jobs EXCEPT ![w] = Tail(@)] /\ UNCHANGED urgent
  <2>1. Tail(jobs[w]) \in Seq(CurrentJob(w)) /\ Tail(jobs[w]) \in Seq(Job)
    BY <1>2, HeadTailProperties DEF QueuesFollowProcess
  <2>2. jobs' \in [Workers -> Seq(Job)]
    BY <1>2, <2>1 DEF QueuesFollowProcess
  <2>3. \A v \in Workers : jobs'[v] \in Seq(CurrentJob(v))
    BY <1>2, <2>1 DEF QueuesFollowProcess
  <2>4. \A v \in Workers : status[v] = "waiting" => jobs'[v] = <<>>
    BY <1>2 DEF QueuesFollowProcess
  <2>5. QED
    BY <1>1, <1>2, <2>2, <2>3, <2>4 DEF QueuesFollowProcess
<1>3. CASE urgent[w] # <<>> /\ urgent' = [urgent EXCEPT ![w] = Tail(@)] /\ UNCHANGED jobs
  <2>1. Tail(urgent[w]) \in Seq(CurrentJob(w)) /\ Tail(urgent[w]) \in Seq(Job)
    BY <1>3, HeadTailProperties DEF QueuesFollowProcess
  <2>2. urgent' \in [Workers -> Seq(Job)]
    BY <1>3, <2>1 DEF QueuesFollowProcess
  <2>3. \A v \in Workers : urgent'[v] \in Seq(CurrentJob(v))
    BY <1>3, <2>1 DEF QueuesFollowProcess
  <2>4. \A v \in Workers : status[v] = "waiting" => urgent'[v] = <<>>
    BY <1>3 DEF QueuesFollowProcess
  <2>5. QED
    BY <1>1, <1>3, <2>2, <2>3, <2>4 DEF QueuesFollowProcess
<1>4. QED
  BY <1>2, <1>3

LEMMA PoolStepFollows ==
    ASSUME IInv, QueuesFollowProcess, PoolNext
    PROVE  QueuesFollowProcess'
<1>1. PICK w \in Workers :
         \/ ServeAllocate(w) \/ ServeUrgent(w)
         \/ RefuseAllocate(w) \/ RefuseConnect(w) \/ ServeFails(w) \/ Break(w)
         \/ ClearHealthy(w) \/ KillProcess(w) \/ DrainQueue(w) \/ ReportFailure(w)
         \/ Restart(w) \/ RestartFails(w)
  BY DEF PoolNext
<1>2. status \in [Workers -> Status]
  BY DEF ProcessTyped, IInv
<1>3. CASE ServeAllocate(w) \/ ServeUrgent(w) \/ RefuseAllocate(w) \/ RefuseConnect(w)
  <2>1. gen' = gen /\ status' = status /\ (TakeJob(w) \/ TakeUrgent(w))
    BY <1>3 DEF ServeAllocate, ServeUrgent, RefuseAllocate, RefuseConnect, Serve
  <2>2. QED
    BY <2>1, TailFollows DEF TakeJob, TakeUrgent
<1>4. CASE ServeFails(w)
  <2>1. /\ gen' = gen /\ status' = [status EXCEPT ![w] = "broken"]
        /\ TakeJob(w) \/ TakeUrgent(w)
    BY <1>4 DEF ServeFails, Fail
  <2>2. \A v \in Workers : status'[v] = "waiting" => status[v] = "waiting"
    BY <1>2, <2>1
  <2>3. QED
    BY <2>1, <2>2, TailFollows DEF TakeJob, TakeUrgent
<1>5. CASE DrainQueue(w)
  BY <1>5, TailFollows DEF DrainQueue
<1>6. CASE Break(w) \/ ClearHealthy(w) \/ KillProcess(w) \/ RestartFails(w)
  <2>1. /\ UNCHANGED <<gen, jobs, urgent>>
        /\ \E s \in {"broken", "closing", "draining"} : status' = [status EXCEPT ![w] = s]
    BY <1>6 DEF Break, ClearHealthy, KillProcess, RestartFails
  <2>2. \A v \in Workers : CurrentJob(v)' = CurrentJob(v)
    BY <2>1 DEF CurrentJob
  <2>3. \A v \in Workers : status'[v] = "waiting" => status[v] = "waiting"
    BY <1>2, <2>1
  <2>4. QED
    BY <2>1, <2>2, <2>3 DEF QueuesFollowProcess
<1>7. CASE ReportFailure(w)
  <2>1. \A v \in Workers : CurrentJob(v)' = CurrentJob(v)
    BY <1>7 DEF ReportFailure, CurrentJob
  <2>2. QED
    BY <1>2, <1>7, <2>1 DEF ReportFailure, QueuesFollowProcess
<1>8. CASE Restart(w)
  <2>1. jobs[w] = <<>> /\ urgent[w] = <<>>
    BY <1>8 DEF Restart, QueuesFollowProcess
  <2>2. \A v \in Workers \ {w} : CurrentJob(v)' = CurrentJob(v)
    BY <1>8 DEF Restart, CurrentJob, ProcessTyped, IInv
  <2>3. \A v \in Workers : status'[v] = "waiting" => status[v] = "waiting"
    BY <1>2, <1>8 DEF Restart
  <2>4. <<>> \in Seq(CurrentJob(w)')
    BY EmptySeq
  <2>5. \A v \in Workers : /\ jobs[v] \in Seq(CurrentJob(v)')
                           /\ urgent[v] \in Seq(CurrentJob(v)')
    BY <2>1, <2>2, <2>4 DEF QueuesFollowProcess
  <2>6. QED
    BY <1>8, <2>3, <2>5 DEF Restart, QueuesFollowProcess
<1>9. QED
  BY <1>1, <1>3, <1>4, <1>5, <1>6, <1>7, <1>8

LEMMA NextFollows == IInv /\ QueuesFollowProcess /\ [Next]_vars => QueuesFollowProcess'
<1>1. SUFFICES ASSUME IInv, QueuesFollowProcess, [Next]_vars PROVE QueuesFollowProcess'
  OBVIOUS
<1>2. FlagsTyped
  BY <1>1 DEF IInv
<1>3. CASE PoolStep
  BY <1>1, <1>3, PoolStepFollows DEF PoolStep
<1>4. CASE \E c \in Calls, w \in Workers : Admit(c, w)
  BY <1>1, <1>4, AdmitFollows
<1>5. CASE \E c \in Calls : EndCall(c)
  <2>1. PICK c \in Calls : AppendStep(c) /\ UNCHANGED <<gen, status, jobs>>
    BY <1>2, <1>5, FinishAppends DEF EndCall
  <2>2. QED
    BY <1>1, <1>2, <2>1, HandlerFollows
<1>6. CASE \E c \in Calls : Connect(c)
  <2>1. PICK c \in Calls : Connect(c)
    BY <1>6
  <2>2. connectVersion[c] + 1 \in Versions
    BY <1>2, <2>1 DEF Connect, Versions, FlagsTyped
  <2>3. AppendStep(c) /\ UNCHANGED <<gen, status, jobs>>
    <3>1. urgent' = urgent \/ SubmitConnect(c, connectVersion[c] + 1)
      BY <2>1 DEF Connect
    <3>2. AppendStep(c)
      BY <1>2, <2>2, <3>1, SubmitConnectAppends DEF AppendStep
    <3>3. QED
      BY <2>1, <3>2 DEF Connect
  <2>4. QED
    BY <1>1, <1>2, <2>3, HandlerFollows
<1>7. CASE AllocateResult
  <2>1. Head(results).call \in Calls
    BY <1>1, <1>7, ReceivedTyped DEF AllocateResult, FlagsTyped, IInv
  <2>2. AppendStep(Head(results).call) /\ UNCHANGED <<gen, status, jobs>>
    BY <1>2, <1>7, <2>1, FinishAppends, ReleaseMediaAppends
       DEF AllocateResult, AllocateFailed, AppendStep
  <2>3. QED
    BY <1>1, <1>2, <2>1, <2>2, HandlerFollows
<1>8. CASE ConnectResult
  <2>1. Head(results).call \in Calls
    BY <1>1, <1>8, ReceivedTyped DEF ConnectResult, FlagsTyped, IInv
  <2>2. connectQueued[Head(results).call] \in Versions
    BY <1>2, <2>1 DEF FlagsTyped
  <2>3. AppendStep(Head(results).call) /\ UNCHANGED <<gen, status, jobs>>
    BY <1>2, <1>8, <2>1, <2>2, FinishAppends, SubmitConnectAppends
       DEF ConnectResult, AppendStep
  <2>4. QED
    BY <1>1, <1>2, <2>1, <2>3, HandlerFollows
<1>9. CASE \E c \in Calls : ReleaseRetry(c)
  <2>1. PICK c \in Calls : AppendStep(c) /\ UNCHANGED <<gen, status, jobs>>
    BY <1>2, <1>9, ReleaseMediaAppends DEF ReleaseRetry, AppendStep
  <2>2. QED
    BY <1>1, <1>2, <2>1, HandlerFollows
<1>10. CASE ReleaseResult \/ DropResult \/ (\E c \in Calls : CallGC(c)) \/ UNCHANGED vars
  <2>1. UNCHANGED <<gen, status, jobs, urgent>>
    BY <1>10 DEF ReleaseResult, DropResult, CallGC, vars, poolVars
  <2>2. \A w \in Workers : CurrentJob(w)' = CurrentJob(w)
    BY <2>1 DEF CurrentJob
  <2>3. QED
    BY <1>1, <2>1, <2>2 DEF QueuesFollowProcess
<1>11. CASE WorkerFailed
  <2>1. UNCHANGED <<gen, status, jobs, urgent>>
    BY <1>11 DEF WorkerFailed
  <2>2. \A w \in Workers : CurrentJob(w)' = CurrentJob(w)
    BY <2>1 DEF CurrentJob
  <2>3. QED
    BY <1>1, <2>1, <2>2 DEF QueuesFollowProcess
<1>12. QED
  BY <1>1, <1>3, <1>4, <1>5, <1>6, <1>7, <1>8, <1>9, <1>10, <1>11 DEF Next

LEMMA InvariantQueues == Spec => []QueuesFollowProcess
<1>1. Init => QueuesFollowProcess
  BY EmptySeq DEF Init, PoolInit, QueuesFollowProcess
<1>2. QED
  BY <1>1, NextFollows, InvariantIInv, PTL DEF Spec

(* Whatever is queued for a worker that serves was queued for the process  *)
(* it serves: enqueue and the supervisor race, but no allocate, connect or *)
(* release of an old generation is ever sent to its successor.             *)
THEOREM QueuesStayCurrent == Spec => []QueuesAreCurrent
<1>1. QueuesFollowProcess => QueuesAreCurrent
  <2>1. SUFFICES ASSUME QueuesFollowProcess, NEW w \in Workers,
                        NEW q \in {jobs[w], urgent[w]}, NEW i \in DOMAIN q
                 PROVE  q[i].gen = gen[w]
    BY DEF QueuesAreCurrent
  <2>2. q \in Seq(CurrentJob(w))
    BY <2>1 DEF QueuesFollowProcess
  <2>3. q[i] \in CurrentJob(w)
    BY <2>1, <2>2, ElementOfSeq, LenProperties
  <2>4. QED
    BY <2>3 DEF CurrentJob
<1>2. QED
  BY <1>1, InvariantQueues, PTL
=============================================================================
