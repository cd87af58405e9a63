------------------------------ MODULE CallMedia ------------------------------
(***************************************************************************)
(* Ownership of media resources by the calls of the controller: the quota  *)
(* taken at admission, the allocation, the connects and the release that   *)
(* are handed to the media pool, and what the single call loop does with   *)
(* their results, with the failures of worker generations and with its own *)
(* timers (control/internal/server/calls.go and server.go).                *)
(*                                                                         *)
(* SIP is abstracted to two inputs here: signalling may ask to install a   *)
(* new far-end target (Connect) and may end a call (EndCall), at any time. *)
(* CallControl adds the dialogs and says when it does.                     *)
(*                                                                         *)
(* Every action except those of MediaPool is one iteration of the call     *)
(* loop; between two of them the goroutines of the pool run freely.  A     *)
(* handler touches a worker at most once (its Healthy flag, generation and *)
(* queue are read together), so it is a single step.                       *)
(***************************************************************************)
EXTENDS MediaPool

CONSTANTS
    MaxActive,   \* Limits.MaxCalls: calls holding quota, over all workers
    Adaptive     \* adaptive_admission: pressure may close a healthy worker

ASSUME CallAssumption == MaxActive \in Nat \ {0} /\ Adaptive \in BOOLEAN

VARIABLES
    used,            \* identities given out so far (nextID)
    known,           \* calls in Server.calls
    worker,          \* Call.Worker
    generation,      \* Call.Generation
    reserved,        \* calls with Reserved
    pending,         \* calls with AllocatePending
    allocated,       \* calls with Allocated
    releasing,       \* calls with Releasing
    ended,           \* calls with Ended
    retry,           \* calls whose release_retry timer is armed
    connectVersion,  \* Call.ConnectVersion
    connectInFlight, \* Call.ConnectInFlight, 0 for none
    connectQueued,   \* version of Call.ConnectQueued, 0 for none
    workerLoads,     \* Server.workerLoads
    active           \* Stats.Active

quotaVars == <<reserved, retry, workerLoads, active>>
connectVars == <<connectVersion, connectInFlight, connectQueued>>
callVars == <<used, known, worker, generation, reserved, pending, allocated,
              releasing, ended, retry, connectVersion, connectInFlight,
              connectQueued, workerLoads, active>>
vars == <<poolVars, callVars>>

Init ==
    /\ PoolInit
    /\ used = {} /\ known = {}
    /\ worker = [c \in Calls |-> CHOOSE w \in Workers : TRUE]
    /\ generation = [c \in Calls |-> 1]
    /\ reserved = {} /\ pending = {} /\ allocated = {} /\ releasing = {}
    /\ ended = {} /\ retry = {}
    /\ connectVersion = [c \in Calls |-> 0]
    /\ connectInFlight = [c \in Calls |-> 0]
    /\ connectQueued = [c \in Calls |-> 0]
    /\ workerLoads = [w \in Workers |-> 0]
    /\ active = 0

-----------------------------------------------------------------------------
(* The helpers of the handlers.  A helper that runs after its handler has  *)
(* already written allocated, pending or retry takes the value written as  *)
(* an argument (al, pe, rt).                                               *)

EnqueueUrgent(c, op, v) ==
    urgent' = [urgent EXCEPT ![worker[c]] = Append(@, NewJob(c, generation[c], op, v))]

(* The worker that c was placed on no longer runs the generation of c.     *)
GenerationGone(c) == ~Healthy(worker[c]) \/ gen[worker[c]] # generation[c]

(* Mutant: gives the quota back again on every repeated end.               *)
ReleaseAgain(c) ==
    /\ retry' = retry \ {c}
    /\ reserved' = reserved \ {c}
    /\ workerLoads' = [workerLoads EXCEPT ![worker[c]] = @ - 1]
    /\ active' = active - 1

ReleaseReservation(c) ==
    /\ retry' = retry \ {c}
    /\ reserved' = reserved \ {c}
    /\ IF c \in reserved
         THEN /\ workerLoads' = [workerLoads EXCEPT ![worker[c]] = @ - 1]
              /\ active' = active - 1
         ELSE UNCHANGED <<workerLoads, active>>

(* Mutant: a release that fails is not tried again.                        *)
ReleaseGivenUp(c, al, rt) ==
    /\ allocated' = al
    /\ retry' = rt
    /\ UNCHANGED <<reserved, workerLoads, active>>

(* What onMedia does with a release that did not succeed, also when the    *)
(* pool refused to queue it: either the process is gone and the quota goes *)
(* back, or the call still owns its ports and tries again later.           *)
ReleaseFailed(c, al, rt) ==
    IF GenerationGone(c)
      THEN allocated' = al \ {c} /\ ReleaseReservation(c)
      ELSE /\ allocated' = al
           /\ retry' = rt \cup {c}
           /\ UNCHANGED <<reserved, workerLoads, active>>

ReleaseMedia(c, al, rt) ==
    \/ /\ c \notin al \/ c \in releasing
       /\ allocated' = al /\ retry' = rt
       /\ UNCHANGED <<releasing, urgent, reserved, workerLoads, active>>
    \/ /\ c \in al \ releasing
       /\ CanEnqueue(worker[c], generation[c], "release")
       /\ EnqueueUrgent(c, "release", 0)
       /\ releasing' = releasing \cup {c}
       /\ allocated' = al /\ retry' = rt
       /\ UNCHANGED <<reserved, workerLoads, active>>
    \/ /\ c \in al \ releasing
       /\ ~CanEnqueue(worker[c], generation[c], "release")
       /\ ReleaseFailed(c, al, rt)
       /\ UNCHANGED <<releasing, urgent>>

(* Mutant: the end of a call does not wait for its allocation in flight.   *)
FinishAtOnce(c, al, pe) ==
    /\ ended' = ended \cup {c}
    /\ connectQueued' = [connectQueued EXCEPT ![c] = 0]
    /\ IF c \in al
         THEN ReleaseMedia(c, al, retry)
         ELSE /\ allocated' = al
              /\ ReleaseReservation(c)
              /\ UNCHANGED <<releasing, urgent>>

(* finish: record the end once, then free what the call owns; an           *)
(* allocation still in flight keeps the quota until its result is known.   *)
Finish(c, al, pe) ==
    /\ ended' = ended \cup {c}
    /\ connectQueued' = [connectQueued EXCEPT ![c] = 0]
    /\ IF c \in al
         THEN ReleaseMedia(c, al, retry)
         ELSE /\ allocated' = al
              /\ IF c \in pe THEN UNCHANGED quotaVars ELSE ReleaseReservation(c)
              /\ UNCHANGED <<releasing, urgent>>

(* submitConnect of the newest target; a refusal by the pool is handled in *)
(* place and ends the call.                                                *)
SubmitConnect(c, v) ==
    IF CanEnqueue(worker[c], generation[c], "connect")
      THEN /\ EnqueueUrgent(c, "connect", v)
           /\ connectInFlight' = [connectInFlight EXCEPT ![c] = v]
           /\ connectQueued' = [connectQueued EXCEPT ![c] = 0]
           /\ UNCHANGED <<quotaVars, allocated, releasing, ended>>
      ELSE /\ connectInFlight' = [connectInFlight EXCEPT ![c] = 0]
           /\ Finish(c, allocated, pending)

-----------------------------------------------------------------------------
(* Admission of a new INVITE.  Workers with a queue backlog, a high load   *)
(* or stale statistics may be closed by adaptive admission; among the open *)
(* ones with spare quota the least loaded is taken.                        *)

Sampled == IF Adaptive THEN SUBSET Workers ELSE {Workers}

(* Mutant: the load limit of a worker is off by one.                       *)
OpenAtLimit(S) == {w \in S : Healthy(w) /\ workerLoads[w] <= MaxCalls}

Open(S) == {w \in S : Healthy(w) /\ workerLoads[w] < MaxCalls}

Admit(c, w) ==
    /\ c \notin used
    /\ active < MaxActive
    /\ \E S \in Sampled : w \in Open(S) /\ \A v \in Open(S) : workerLoads[w] <= workerLoads[v]
    /\ used' = used \cup {c}
    /\ known' = known \cup {c}
    /\ worker' = [worker EXCEPT ![c] = w]
    /\ generation' = [generation EXCEPT ![c] = gen[w]]
    /\ \/ /\ CanEnqueue(w, gen[w], "allocate")
          /\ jobs' = [jobs EXCEPT ![w] = Append(@, NewJob(c, gen[w], "allocate", 0))]
          /\ pending' = pending \cup {c}
          /\ reserved' = reserved \cup {c}
          /\ workerLoads' = [workerLoads EXCEPT ![w] = @ + 1]
          /\ active' = active + 1
          /\ UNCHANGED ended
       \/ /\ ~HasRoom(w, "allocate") \/ status[w] = "broken"
          /\ ended' = ended \cup {c}
          /\ UNCHANGED <<jobs, pending, reserved, workerLoads, active>>
    /\ UNCHANGED <<gen, status, urgent, sessions, target, results, failures,
                   allocated, releasing, retry, connectVars>>

(* Signalling ends c (finish), possibly once more after it has ended.      *)
EndCall(c) ==
    /\ c \in known
    /\ Finish(c, allocated, pending)
    /\ UNCHANGED <<gen, status, jobs, sessions, target, results, failures, used, known,
                   worker, generation, pending, connectVersion, connectInFlight>>

(* Signalling negotiated a new far-end target: at most one connect is in   *)
(* flight, and a newer target replaces the queued one.                     *)
Connect(c) ==
    /\ c \in (known \cap allocated) \ ended
    /\ connectVersion[c] < MaxConnects
    /\ connectVersion' = [connectVersion EXCEPT ![c] = @ + 1]
    /\ IF connectInFlight[c] # 0
         THEN /\ connectQueued' = [connectQueued EXCEPT ![c] = connectVersion[c] + 1]
              /\ UNCHANGED <<urgent, connectInFlight, quotaVars, allocated, releasing, ended>>
         ELSE SubmitConnect(c, connectVersion[c] + 1)
    /\ UNCHANGED <<gen, status, jobs, sessions, target, results, failures, used, known,
                   worker, generation, pending>>

-----------------------------------------------------------------------------
(* onMedia: the next completed command.  One whose call is already         *)
(* collected is dropped.                                                   *)

Received(op) ==
    /\ results # <<>>
    /\ Head(results).op = op
    /\ Head(results).call \in known
    /\ results' = Tail(results)

DropResult ==
    /\ results # <<>>
    /\ Head(results).call \notin known
    /\ results' = Tail(results)
    /\ UNCHANGED <<gen, status, jobs, urgent, sessions, target, failures, callVars>>

(* Mutant: a refused allocation returns the quota but the call goes on.    *)
AllocateForgotten(c) ==
    /\ ReleaseReservation(c)
    /\ UNCHANGED <<ended, connectQueued, allocated, releasing, urgent>>

AllocateFailed(c) == Finish(c, allocated, pending \ {c})

AllocateResult ==
    LET r == Head(results)
        c == r.call
    IN  /\ Received("allocate")
        /\ pending' = pending \ {c}
        /\ \/ ~r.ok /\ AllocateFailed(c)
           \/ /\ r.ok /\ c \in ended
              /\ ReleaseMedia(c, allocated \cup {c}, retry)
              /\ UNCHANGED <<ended, connectQueued>>
           \/ /\ r.ok /\ c \notin ended
              /\ allocated' = allocated \cup {c}
              /\ UNCHANGED <<quotaVars, releasing, ended, urgent, connectQueued>>
        /\ UNCHANGED <<gen, status, jobs, sessions, target, failures, used, known, worker,
                       generation, connectVersion, connectInFlight>>

(* Mutant: the queued target is lost when the connect in flight completes. *)
NeverSuperseded(c) == FALSE

Superseded(c) == connectQueued[c] # 0

(* The newest target of a live call could not be installed.                *)
Rejected(r) ==
    /\ r.call \notin ended /\ ~Superseded(r.call)
    /\ r.ver = connectVersion[r.call] /\ ~r.ok

ConnectResult ==
    LET r == Head(results)
        c == r.call
    IN  /\ Received("connect")
        /\ \/ /\ r.ver # connectInFlight[c]
              /\ UNCHANGED <<quotaVars, connectInFlight, connectQueued, allocated,
                             releasing, ended, urgent>>
           \/ /\ r.ver = connectInFlight[c] /\ c \notin ended /\ Superseded(c)
              /\ SubmitConnect(c, connectQueued[c])
           \/ /\ r.ver = connectInFlight[c] /\ Rejected(r)
              /\ connectInFlight' = [connectInFlight EXCEPT ![c] = 0]
              /\ Finish(c, allocated, pending)
           \/ /\ r.ver = connectInFlight[c]
              /\ c \in ended \/ ~Superseded(c)
              /\ ~Rejected(r)
              /\ connectInFlight' = [connectInFlight EXCEPT ![c] = 0]
              /\ connectQueued' = [connectQueued EXCEPT ![c] = 0]
              /\ UNCHANGED <<quotaVars, allocated, releasing, ended, urgent>>
        /\ UNCHANGED <<gen, status, jobs, sessions, target, failures, used, known, worker,
                       generation, pending, connectVersion>>

ReleaseResult ==
    LET r == Head(results)
        c == r.call
    IN  /\ Received("release")
        /\ releasing' = releasing \ {c}
        /\ IF r.ok THEN allocated' = allocated \ {c} /\ ReleaseReservation(c)
                   ELSE ReleaseFailed(c, allocated, retry)
        /\ UNCHANGED <<gen, status, jobs, urgent, sessions, target, failures, used, known,
                       worker, generation, pending, ended, connectVars>>

-----------------------------------------------------------------------------
(* Timers.                                                                 *)

(* Mutant: the timer only fires, the release is not submitted again.       *)
RetryForgotten(c) ==
    /\ c \in retry \cap known
    /\ retry' = retry \ {c}
    /\ UNCHANGED <<poolVars, used, known, worker, generation, reserved, workerLoads, active,
                   pending, allocated, releasing, ended, connectVars>>

ReleaseRetry(c) ==
    /\ c \in retry \cap known
    /\ IF c \in ended
         THEN ReleaseMedia(c, allocated, retry \ {c})
         ELSE /\ retry' = retry \ {c}
              /\ UNCHANGED <<reserved, workerLoads, active, allocated, releasing, urgent>>
    /\ UNCHANGED <<gen, status, jobs, sessions, target, results, failures, used, known,
                   worker, generation, pending, ended, connectVars>>

(* call_gc forgets an ended call once nothing of it is outstanding.        *)
Collectable(c) == c \in ended /\ c \notin reserved \cup pending \cup releasing

CallGC(c) ==
    /\ c \in known /\ Collectable(c)
    /\ known' = known \ {c}
    /\ UNCHANGED <<poolVars, used, worker, generation, quotaVars, pending, allocated,
                   releasing, ended, connectVars>>

-----------------------------------------------------------------------------
(* workerFailed: every known call of exactly that worker and generation    *)
(* loses its media and ends.                                               *)

(* Mutant: every generation of the worker.                                 *)
OwnedByWorker(f) == {c \in known : worker[c] = f.worker}

Owned(f) == {c \in known : worker[c] = f.worker /\ generation[c] = f.gen}

WorkerFailed ==
    LET f == Head(failures)
        lost == Owned(f)
    IN  /\ failures # <<>>
        /\ failures' = Tail(failures)
        /\ pending' = pending \ lost
        /\ allocated' = allocated \ lost
        /\ releasing' = releasing \ lost
        /\ ended' = ended \cup lost
        /\ retry' = retry \ lost
        /\ reserved' = reserved \ lost
        /\ workerLoads' = [workerLoads EXCEPT ![f.worker] = @ - Cardinality(lost \cap reserved)]
        /\ active' = active - Cardinality(lost \cap reserved)
        /\ connectInFlight' = [c \in Calls |-> IF c \in lost THEN 0 ELSE connectInFlight[c]]
        /\ connectQueued' = [c \in Calls |-> IF c \in lost THEN 0 ELSE connectQueued[c]]
        /\ UNCHANGED <<gen, status, jobs, urgent, sessions, target, results, used, known,
                       worker, generation, connectVersion>>

-----------------------------------------------------------------------------
ResultNext == AllocateResult \/ ConnectResult \/ ReleaseResult \/ DropResult

PoolStep == PoolNext /\ UNCHANGED callVars

Next ==
    \/ PoolStep
    \/ \E c \in Calls, w \in Workers : Admit(c, w)
    \/ \E c \in Calls : EndCall(c) \/ Connect(c)
    \/ AllocateResult \/ ConnectResult \/ ReleaseResult \/ DropResult
    \/ \E c \in Calls : ReleaseRetry(c) \/ CallGC(c)
    \/ WorkerFailed

Spec == Init /\ [][Next]_vars

(* The call loop selects fairly among its channels and its 10 ms tick, and *)
(* every pool goroutine keeps running; no peer, no process failure and no  *)
(* restart is forced to happen.                                            *)
Fairness ==
    /\ \A w \in Workers : /\ WF_vars(ServeNext(w) /\ UNCHANGED callVars)
                          /\ WF_vars(SuperviseNext(w) /\ UNCHANGED callVars)
    /\ WF_vars(ResultNext)
    /\ WF_vars(WorkerFailed)
    /\ \A c \in Calls : WF_vars(ReleaseRetry(c))

FairSpec == Spec /\ Fairness

-----------------------------------------------------------------------------
(* Properties.                                                             *)

(* Every variable has its type; the two counters are unsigned in the code  *)
(* and would wrap if they were decremented below zero.                     *)
TypeOK ==
    /\ PoolTypeOK
    /\ used \in SUBSET Calls /\ known \in SUBSET used
    /\ worker \in [Calls -> Workers]
    /\ generation \in [Calls -> Generations]
    /\ reserved \in SUBSET Calls /\ pending \in SUBSET Calls
    /\ allocated \in SUBSET Calls /\ releasing \in SUBSET Calls
    /\ ended \in SUBSET Calls /\ retry \in SUBSET Calls
    /\ connectVersion \in [Calls -> Versions]
    /\ connectInFlight \in [Calls -> Versions]
    /\ connectQueued \in [Calls -> Versions]
    /\ workerLoads \in [Workers -> Nat]
    /\ active \in Nat

(* The two counters that admission reads (Stats.Active and workerLoads)    *)
(* equal the calls that really hold quota, whatever mix of results,        *)
(* failures, retries and repeated ends gave the quota back.                *)
ReservedOn(w) == {c \in reserved : worker[c] = w}
QuotaAccounting ==
    /\ active = Cardinality(reserved)
    /\ \A w \in Workers : workerLoads[w] = Cardinality(ReservedOn(w))

(* A call that has not ended always pays quota, so no error path loses the *)
(* quota of a call that goes on: admission subtracts the established calls *)
(* from the active ones and must not underflow.                            *)
LiveCallsReserved == known \ ended \subseteq reserved

(* While a worker takes commands, every session whose ports its process    *)
(* holds belongs to a call that still pays quota for that worker and that  *)
(* very generation: no late failure, release or result of another          *)
(* generation frees a quota whose ports are open.                          *)
PortsCovered ==
    \A w \in Workers : status[w] = "serving" =>
        \A c \in sessions[w] : c \in ReservedOn(w) /\ generation[c] = gen[w]

(* Quota is enough: a serving worker can hold all its open sessions and    *)
(* all allocations queued for it, so admission never over-commits it.      *)
AllocationsFor(w) == {jobs[w][i].call : i \in DOMAIN jobs[w]}
WorkerWithinCapacity ==
    \A w \in Workers : status[w] = "serving" =>
        Cardinality(sessions[w] \cup AllocationsFor(w)) <= MaxCalls

(* No command outlives its process: whatever is queued for a worker that   *)
(* serves is of the generation it serves (enqueue checks under submitMu,   *)
(* supervise drains before the next handshake).                            *)
QueuesAreCurrent ==
    \A w \in Workers : status[w] = "serving" =>
        \A q \in {jobs[w], urgent[w]} : \A i \in DOMAIN q : q[i].gen = gen[w]

(* An ended call that still pays quota is never forgotten: its allocation  *)
(* or its release is on its way through the pool, or its retry timer is    *)
(* armed.                                                                  *)
InFlight(c, op) ==
    \/ \E i \in DOMAIN results : results[i].call = c /\ results[i].op = op
    \/ \E i \in DOMAIN jobs[worker[c]] :
          jobs[worker[c]][i].call = c /\ jobs[worker[c]][i].op = op
    \/ \E i \in DOMAIN urgent[worker[c]] :
          urgent[worker[c]][i].call = c /\ urgent[worker[c]][i].op = op
TeardownDriven ==
    \A c \in ended \cap reserved :
        \/ c \in pending /\ InFlight(c, "allocate")
        \/ c \in releasing /\ InFlight(c, "release")
        \/ c \in retry

(* Coalescing loses nothing: once a live call has no connect outstanding,  *)
(* the media process forwards to the newest negotiated target.             *)
LatestTargetInstalled ==
    \A c \in known \ ended :
        connectInFlight[c] = 0 =>
            connectQueued[c] = 0 /\ target[c] = connectVersion[c]

(* A call that has ended gives its quota back: through a release, through  *)
(* its retries, or through the failure of its worker.                      *)
QuotaReturned == \A c \in Calls : c \in ended ~> c \notin reserved

(* The quota protocol implements the abstract promise of MediaQuota: the   *)
(* guards of admission, the two counters and the flags of a call together  *)
(* keep grants within their limits and held while ports are open.          *)
Quota == INSTANCE MediaQuota WITH
    granted <- {<<c, worker[c]>> : c \in reserved},
    open <- {p \in Calls \X Workers : status[p[2]] = "serving" /\ p[1] \in sessions[p[2]]}
ImplementsQuota == Quota!QuotaSpec

(* docs/architecture.md: a call's quota is given back only after a         *)
(* successful release or once its process is confirmed to have ended.      *)
QuotaHeldUntilProcessEnds ==
    \A w \in Workers : sessions[w] \subseteq reserved
=============================================================================
