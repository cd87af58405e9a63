------------------------------ MODULE MediaPool ------------------------------
(***************************************************************************)
(* The media pool of the controller (control/internal/media/pool.go): one  *)
(* goroutine per worker supervises a media process, serves its two bounded *)
(* queues one command at a time, and replaces the process by a new         *)
(* generation when it fails.  What a worker shares with the call loop is   *)
(* its Healthy flag and generation (under submitMu), its two queues, the   *)
(* channel of completed commands and the channel of failures.              *)
(*                                                                         *)
(* The media process itself is external to this module: it is the set of   *)
(* sessions whose ports it holds, and the far-end target last installed    *)
(* for a session.                                                          *)
(***************************************************************************)
EXTENDS Integers, Sequences, FiniteSets

CONSTANTS
    Calls,         \* call identities, each admitted at most once (nextID)
    Workers,       \* media workers (shards)
    MaxCalls,      \* sessions one worker may hold (WorkerConfig.MaxCalls)
    JobsCap,       \* capacity of a worker's allocation queue (64 in the code)
    UrgentCap,     \* capacity of its connect/release queue (64 in the code)
    FailuresCap,   \* capacity of the failure channel (4 per worker)
    MaxGeneration, \* bound: process generations per worker
    MaxConnects    \* bound: media targets negotiated per call

ASSUME PoolAssumption ==
    /\ IsFiniteSet(Calls) /\ IsFiniteSet(Workers) /\ Workers # {}
    /\ MaxCalls \in Nat \ {0}
    /\ JobsCap \in Nat \ {0} /\ UrgentCap \in Nat \ {0} /\ FailuresCap \in Nat \ {0}
    /\ MaxGeneration \in Nat \ {0}
    /\ MaxConnects \in Nat

VARIABLES
    gen,       \* gen[w]: Worker.Generation
    status,    \* status[w]: where the supervisor of w is, see Status
    jobs,      \* jobs[w]: queued allocations
    urgent,    \* urgent[w]: queued connects and releases
    sessions,  \* sessions[w]: calls whose ports the process of w holds
    target,    \* target[c]: version of the far-end target installed for c
    results,   \* completed commands on their way to the call loop
    failures   \* reported generation failures on their way to the call loop

poolVars == <<gen, status, jobs, urgent, sessions, target, results, failures>>

(* serving: the process runs and its queues are served;                    *)
(* broken: a command failed or the process exited, serve is returning but  *)
(*   Healthy is still set;                                                 *)
(* closing: Healthy is cleared, the process is not yet killed;             *)
(* draining: the process is gone, its queues are being refused;            *)
(* waiting: the failure is reported, the restart delay runs.               *)
Status == {"serving", "broken", "closing", "draining", "waiting"}

Generations == 1..MaxGeneration
Versions == 0..MaxConnects
Ops == {"allocate", "connect", "release"}
Job == [op : Ops, call : Calls, gen : Generations, ver : Versions]
Result == [op : Ops, call : Calls, ver : Versions, ok : BOOLEAN]
Failure == [worker : Workers, gen : Generations]

Healthy(w) == status[w] \in {"serving", "broken"}

(* The guard of enqueue: health, generation and a free slot, read together *)
(* under submitMu.                                                         *)
HasRoom(w, op) ==
    IF op = "allocate" THEN Len(jobs[w]) < JobsCap ELSE Len(urgent[w]) < UrgentCap

(* Mutant: the generation alone decides, a stopped worker still queues.    *)
CanEnqueueStopped(w, g, op) == g = gen[w] /\ HasRoom(w, op)

CanEnqueue(w, g, op) == Healthy(w) /\ g = gen[w] /\ HasRoom(w, op)

NewJob(c, g, op, v) == [op |-> op, call |-> c, gen |-> g, ver |-> v]
Reply(j, ok) == [op |-> j.op, call |-> j.call, ver |-> j.ver, ok |-> ok]
Post(r) == results' = Append(results, r)

(* Start returns once every worker has completed its first handshake.      *)
PoolInit ==
    /\ gen = [w \in Workers |-> 1]
    /\ status = [w \in Workers |-> "serving"]
    /\ jobs = [w \in Workers |-> <<>>]
    /\ urgent = [w \in Workers |-> <<>>]
    /\ sessions = [w \in Workers |-> {}]
    /\ target = [c \in Calls |-> 0]
    /\ results = <<>>
    /\ failures = <<>>

-----------------------------------------------------------------------------
(* Serving one command.  Each round of serve prefers urgent commands but   *)
(* its final select may take either queue, so either may be served.        *)

TakeJob(w) ==
    /\ status[w] = "serving"
    /\ jobs[w] # <<>>
    /\ jobs' = [jobs EXCEPT ![w] = Tail(@)]
    /\ UNCHANGED urgent

TakeUrgent(w) ==
    /\ status[w] = "serving"
    /\ urgent[w] # <<>>
    /\ urgent' = [urgent EXCEPT ![w] = Tail(@)]
    /\ UNCHANGED jobs

(* What executing j does to the process: allocate opens ports while a slot *)
(* is free, connect installs the target of an open session, and release    *)
(* closes the ports whether or not they were open.                         *)
Executable(w, j) ==
    /\ j.op = "allocate" => Cardinality(sessions[w]) < MaxCalls
    /\ j.op = "connect" => j.call \in sessions[w]
Execute(w, j) ==
    /\ Executable(w, j)
    /\ sessions' = [sessions EXCEPT ![w] =
            IF j.op = "allocate" THEN @ \cup {j.call}
            ELSE IF j.op = "release" THEN @ \ {j.call} ELSE @]
    /\ target' = IF j.op = "connect" THEN [target EXCEPT ![j.call] = j.ver] ELSE target

(* handleJob refuses a command of another generation without sending it.   *)
Serve(w, j) ==
    /\ IF j.gen # gen[w]
         THEN Post(Reply(j, FALSE)) /\ UNCHANGED <<sessions, target>>
         ELSE Execute(w, j) /\ Post(Reply(j, TRUE))
    /\ UNCHANGED <<gen, status, failures>>

ServeAllocate(w) == TakeJob(w) /\ Serve(w, Head(jobs[w]))
ServeUrgent(w) == TakeUrgent(w) /\ Serve(w, Head(urgent[w]))

(* The process answers ok:false; the generation lives on.  A refused       *)
(* release is a breach of contract and is part of ServeFails.              *)
RefuseAllocate(w) ==
    /\ TakeJob(w)
    /\ Post(Reply(Head(jobs[w]), FALSE))
    /\ UNCHANGED <<gen, status, sessions, target, failures>>
RefuseConnect(w) ==
    /\ TakeUrgent(w)
    /\ Head(urgent[w]).op = "connect"
    /\ Post(Reply(Head(urgent[w]), FALSE))
    /\ UNCHANGED <<gen, status, sessions, target, failures>>

(* A timeout, a bad reply or a refused release: the caller gets an error,  *)
(* whether the process executed the command is unknown, and serve returns. *)
Fail(w, j) ==
    /\ Execute(w, j) \/ UNCHANGED <<sessions, target>>
    /\ Post(Reply(j, FALSE))
    /\ status' = [status EXCEPT ![w] = "broken"]
    /\ UNCHANGED <<gen, failures>>

ServeFails(w) ==
    \/ TakeJob(w) /\ Fail(w, Head(jobs[w]))
    \/ TakeUrgent(w) /\ Fail(w, Head(urgent[w]))

(* Between commands: the process exits (its ports close with it), or stops *)
(* answering the statistics request while it still holds its ports.        *)
Break(w) ==
    /\ status[w] = "serving"
    /\ status' = [status EXCEPT ![w] = "broken"]
    /\ \E left \in {{}, sessions[w]} : sessions' = [sessions EXCEPT ![w] = left]
    /\ UNCHANGED <<gen, jobs, urgent, target, results, failures>>

-----------------------------------------------------------------------------
(* The end of a generation, in the order of serve's deferred cleanup and   *)
(* of supervise.                                                           *)

ClearHealthy(w) ==
    /\ status[w] = "broken"
    /\ status' = [status EXCEPT ![w] = "closing"]
    /\ UNCHANGED <<gen, jobs, urgent, sessions, target, results, failures>>

KillProcess(w) ==
    /\ status[w] = "closing"
    /\ status' = [status EXCEPT ![w] = "draining"]
    /\ sessions' = [sessions EXCEPT ![w] = {}]
    /\ UNCHANGED <<gen, jobs, urgent, target, results, failures>>

DrainQueue(w) ==
    /\ status[w] = "draining"
    /\ \/ /\ jobs[w] # <<>>
          /\ jobs' = [jobs EXCEPT ![w] = Tail(@)]
          /\ Post(Reply(Head(jobs[w]), FALSE))
          /\ UNCHANGED urgent
       \/ /\ urgent[w] # <<>>
          /\ urgent' = [urgent EXCEPT ![w] = Tail(@)]
          /\ Post(Reply(Head(urgent[w]), FALSE))
          /\ UNCHANGED jobs
    /\ UNCHANGED <<gen, status, sessions, target, failures>>

ReportFailure(w) ==
    /\ status[w] = "draining"
    /\ jobs[w] = <<>> /\ urgent[w] = <<>>
    /\ Len(failures) < FailuresCap
    /\ failures' = Append(failures, [worker |-> w, gen |-> gen[w]])
    /\ status' = [status EXCEPT ![w] = "waiting"]
    /\ UNCHANGED <<gen, jobs, urgent, sessions, target, results>>

(* The handshake of the new process succeeds, or fails and is reported     *)
(* again under the old generation number.                                  *)
Restart(w) ==
    /\ status[w] = "waiting"
    /\ gen[w] < MaxGeneration
    /\ gen' = [gen EXCEPT ![w] = @ + 1]
    /\ status' = [status EXCEPT ![w] = "serving"]
    /\ UNCHANGED <<jobs, urgent, sessions, target, results, failures>>

RestartFails(w) ==
    /\ status[w] = "waiting"
    /\ status' = [status EXCEPT ![w] = "draining"]
    /\ UNCHANGED <<gen, jobs, urgent, sessions, target, results, failures>>

PoolNext ==
    \E w \in Workers :
        \/ ServeAllocate(w) \/ ServeUrgent(w)
        \/ RefuseAllocate(w) \/ RefuseConnect(w) \/ ServeFails(w) \/ Break(w)
        \/ ClearHealthy(w) \/ KillProcess(w) \/ DrainQueue(w) \/ ReportFailure(w)
        \/ Restart(w) \/ RestartFails(w)

(* A serving goroutine takes the next command, and a supervisor carries a  *)
(* failed generation to its report; nothing obliges a process to fail or a *)
(* restart to succeed.                                                     *)
ServeNext(w) ==
    ServeAllocate(w) \/ ServeUrgent(w) \/ RefuseAllocate(w) \/ RefuseConnect(w) \/ ServeFails(w)
SuperviseNext(w) ==
    ClearHealthy(w) \/ KillProcess(w) \/ DrainQueue(w) \/ ReportFailure(w)

PoolTypeOK ==
    /\ gen \in [Workers -> Generations]
    /\ status \in [Workers -> Status]
    /\ jobs \in [Workers -> Seq(Job)]
    /\ urgent \in [Workers -> Seq(Job)]
    /\ sessions \in [Workers -> SUBSET Calls]
    /\ target \in [Calls -> Versions]
    /\ results \in Seq(Result)
    /\ failures \in Seq(Failure)
=============================================================================
