------------------------------- MODULE RxOwner -------------------------------
(***************************************************************************)
(* Who may listen to leg A of an answered local call: the subscriptions of *)
(* the SDK (server/rx_stream.go, media/rx_stream.go, worker_rx.rs).        *)
(*                                                                         *)
(* Five threads share a subscription: the caller of SubscribeRX, who may   *)
(* give up at any moment; the call loop, which decides and keeps the       *)
(* handle; a control goroutine, which registers the subscription with the  *)
(* lane of the worker and waits for the answer of the media process; the   *)
(* goroutine of the worker, which executes the jobs of its urgent queue;   *)
(* and the owner of a handle, who asks for its status or unsubscribes.     *)
(***************************************************************************)
EXTENDS Integers, Sequences

CONSTANTS
    None,
    MaxReqs,   \* bound: calls of SubscribeRX
    MaxId,     \* bound: the subscription ids they use
    UrgentCap  \* capacity of the urgent queue

ASSUME RxAssumption ==
    MaxReqs \in Nat /\ MaxId \in Nat /\ UrgentCap \in Nat \ {0} /\ None \notin Nat

\* A call of SubscribeRX, in the order in which the loop receives them, also
\* names the RXHandle and the RXSubscription that it may create.
Reqs == 1..MaxReqs

VARIABLES
    call,      \* Ended, Allocated, Releasing of the call
    worker,    \* its process: "up", "ended", or "reported" to the call loop
    urgent,    \* jobs in the worker's urgent queue
    executing, \* the subscribe job that the worker has taken, if any
    rust,      \* the last subscription of the session in the process
    lane,      \* the subscription that the lane of the worker knows
    req,       \* the calls of SubscribeRX
    go,        \* the control goroutines
    rx,        \* RXHandle and RXSubscription
    pending,   \* Call.rxPending
    current,   \* Call.rxHandle
    checking,  \* handleRXSubscribe between publishing a handle and going on
    replies    \* answers to Status and Unsubscribe on their way back

callerVars == <<call, worker, urgent, executing, rust, lane, go, pending, current, checking, replies>>
vars == <<callerVars, req, rx>>

NewRequest == [id |-> 0, stage |-> "idle", asked |-> FALSE, delivery |-> "waiting",
               published |-> None, result |-> None]

\* at: where the goroutine is; call: callState of its job (0 queued, 1 taken,
\* 2 cancelled); got: what finish has left for it; late: its 3 s are over.
NewControl == [at |-> "none", call |-> 0, got |-> None, late |-> FALSE, previous |-> None, answer |-> None]

\* closed, retired, terminal, authorized, bound: the RXHandle;
\* gone, deaf, busy, remote: retired, localError, pending, remote of the
\* RXSubscription, which does not exist at first.
NewHandle == [closed |-> FALSE, retired |-> FALSE, terminal |-> FALSE, authorized |-> FALSE, bound |-> FALSE,
              gone |-> TRUE, deaf |-> TRUE, busy |-> FALSE, remote |-> "none"]

Init ==
    /\ call = [ended |-> FALSE, allocated |-> TRUE, releasing |-> FALSE]
    /\ worker = "up" /\ urgent = <<>> /\ executing = None
    /\ rust = [sub |-> None, state |-> "none"]
    /\ lane = None
    /\ req = [r \in Reqs |-> NewRequest] /\ go = [r \in Reqs |-> NewControl]
    /\ rx = [r \in Reqs |-> NewHandle]
    /\ pending = None /\ current = None /\ checking = None /\ replies = {}

Loop == checking = None
Over(state) == state \in {"stopped", "failed"}

\* The steps of RXHandle and RXSubscription, on a state x of rx.
Revoke(x, h) == [x EXCEPT ![h].closed = TRUE, ![h].deaf = @ \/ x[h].bound]
Retire(x, h) == [Revoke(x, h) EXCEPT ![h].retired = TRUE]
RetireSub(x, h) == [x EXCEPT ![h].gone = TRUE, ![h].deaf = TRUE]
Retired(h) == rx[h].retired \/ (rx[h].bound /\ rx[h].gone)

\* The handle h takes the place of the handle of the call.
Replace(x, h) == IF current \in {None, h} THEN x ELSE Retire(x, current)

JobCancelled(r) == req[r].stage \in {"cancelled", "leaving", "left", "empty-handed"} \/ go[r].late

-----------------------------------------------------------------------------
(* SubscribeRX: the goroutine of the caller.                               *)

(* A caller who comes after the end of the call is refused: left out.      *)
Subscribe(r, id) ==
    /\ ~call.ended
    /\ req[r].stage = "idle" /\ \A q \in 1..(r - 1) : req[q].stage # "idle"
    /\ req' = [req EXCEPT ![r].stage = "waiting", ![r].id = id]
    /\ UNCHANGED <<rx, callerVars>>

CancelContext(r) ==
    /\ req[r].stage = "waiting"
    /\ req' = [req EXCEPT ![r].stage = "cancelled"]
    /\ UNCHANGED <<rx, callerVars>>

(* The caller takes the result the loop has left for it; a handle that     *)
(* comes too late is returned, but never read.                             *)
Receive(r) ==
    /\ req[r].stage \in {"waiting", "cancelled"} /\ req[r].result # None
    /\ rx' = IF req[r].stage = "cancelled" /\ req[r].result = "handle"
             THEN Revoke(rx, req[r].published) ELSE rx
    /\ req' = [req EXCEPT ![r].stage = IF req[r].result = "refused" THEN "refused"
                                       ELSE IF req[r].stage = "cancelled" THEN "left" ELSE "answered",
                          ![r].result = None]
    /\ UNCHANGED callerVars

(* The caller wins the right to give up ...                                *)
GiveUp(r) ==
    /\ req[r].stage = "cancelled" /\ req[r].delivery = "waiting"
    /\ req' = [req EXCEPT ![r].stage = "leaving", ![r].delivery = "abandoned"]
    /\ UNCHANGED <<rx, callerVars>>

(* ... and returns the handle the loop has published by then, or none.     *)
Leave(r) ==
    /\ req[r].stage = "leaving"
    /\ IF req[r].published = None
       THEN req' = [req EXCEPT ![r].stage = "empty-handed"] /\ UNCHANGED rx
       ELSE req' = [req EXCEPT ![r].stage = "left"] /\ rx' = Revoke(rx, req[r].published)
    /\ UNCHANGED callerVars

-----------------------------------------------------------------------------
(* SubscribeRX: the call loop.                                             *)

(* deliverRXSubscribe: only a caller that has not given up gets a result.  *)
Delivers(r) == req[r].delivery = "waiting"
Deliver(r, result) ==
    IF Delivers(r) THEN [req EXCEPT ![r].delivery = "claimed", ![r].result = result] ELSE req

Eligible == ~call.ended /\ call.allocated /\ ~call.releasing /\ worker = "up"
GivenUp(r) == req[r].stage = "cancelled" \/ ~Delivers(r)

Waiting(r) ==
    /\ Loop /\ req[r].stage # "idle" /\ ~req[r].asked
    /\ \A q \in 1..(r - 1) : req[q].asked

SameId(r) == current # None /\ (current # None => req[current].id = req[r].id)
Stale(r) == current # None /\ (current # None =>
                req[r].id < req[current].id \/ (req[r].id > req[current].id /\ ~rx[current].terminal))

Refusable(r) == GivenUp(r) \/ ~Eligible \/ pending # None \/ Stale(r)

loopVars == <<call, worker, urgent, executing, rust, lane, pending, current, replies>>

(* handleRXSubscribe refuses, ...                                          *)
RefuseSubscribe(r) ==
    /\ Waiting(r) /\ Refusable(r)
    /\ req' = [Deliver(r, "refused") EXCEPT ![r].asked = TRUE]
    /\ UNCHANGED <<rx, go, checking, loopVars>>

(* ... returns the handle that the call has already, ...                   *)
SameSubscription(r) ==
    /\ Waiting(r) /\ ~Refusable(r) /\ SameId(r)
    /\ req' = [Deliver(r, "handle") EXCEPT ![r].asked = TRUE, ![r].published = current]
    /\ UNCHANGED <<rx, go, checking, loopVars>>

(* ... or publishes a new handle for a caller who gives up, ...            *)
PublishSubscribe(r) ==
    /\ Waiting(r) /\ ~Refusable(r) /\ ~SameId(r)
    /\ req' = [req EXCEPT ![r].asked = TRUE, ![r].published = r]
    /\ checking' = r
    /\ UNCHANGED <<rx, go, loopVars>>

(* ... looks again at the caller, and passes the handle on.                *)
StartControl(r) ==
    /\ checking = r /\ checking' = None
    /\ IF GivenUp(r)
       THEN /\ rx' = Retire(rx, r) /\ req' = Deliver(r, "refused")
            /\ UNCHANGED <<go, pending>>
       ELSE /\ pending' = r /\ go' = [go EXCEPT ![r].at = "job"]
            /\ UNCHANGED <<rx, req>>
    /\ UNCHANGED <<call, worker, urgent, executing, rust, lane, current, replies>>

(* handleRXSubscribeResult: no RXSubscription came back, ...               *)
NothingSubscribed(r) ==
    /\ ~rx[r].bound
    /\ rx' = Retire(rx, r) /\ req' = Deliver(r, "refused")
    /\ UNCHANGED current

(* Mutant: a subscription whose outcome is unknown is forgotten.           *)
OutcomeForgotten(r) ==
    /\ rx[r].bound /\ go[r].answer # "active"
    /\ rx' = Retire(rx, r) /\ req' = Deliver(r, "refused")
    /\ UNCHANGED current

(* ... the outcome is not known, ...                                       *)
OutcomeUnknown(r) ==
    /\ rx[r].bound /\ go[r].answer # "active"
    /\ rx' = Replace(Revoke(rx, r), r) /\ current' = r
    /\ req' = Deliver(r, "handle")

(* ... the call may not listen any more, ...                               *)
SubscribedInVain(r) ==
    /\ rx[r].bound /\ go[r].answer = "active" /\ (~Eligible \/ Retired(r))
    /\ rx' = Replace(Revoke(rx, r), r) /\ current' = r
    /\ req' = Deliver(r, "handle")

(* ... or the handle may be read, unless the caller has given up.          *)
Subscribed(r) ==
    /\ rx[r].bound /\ go[r].answer = "active" /\ Eligible /\ ~Retired(r)
    /\ LET x == [Replace(rx, r) EXCEPT ![r].authorized = ~rx[r].closed]
       IN rx' = IF GivenUp(r) THEN Revoke(x, r) ELSE x
    /\ current' = r
    /\ req' = IF req[r].stage = "cancelled" THEN req ELSE Deliver(r, "handle")

SubscribeResult(r) ==
    /\ Loop /\ go[r].at = "posted"
    /\ go' = [go EXCEPT ![r].at = "done"]
    /\ pending' = None
    /\ NothingSubscribed(r) \/ OutcomeUnknown(r) \/ SubscribedInVain(r) \/ Subscribed(r)
    /\ UNCHANGED <<call, worker, urgent, executing, rust, lane, checking, replies>>

-----------------------------------------------------------------------------
(* The control goroutine: Pool.SubscribeRX and bind.                       *)

goVars == <<call, worker, executing, rust, req, pending, current, checking, replies>>

\* rollback on <<rx, lane>>.
Rollback(x, r) == RetireSub(x, r)
LaneAfterRollback(r) == IF lane = r THEN go[r].previous ELSE lane

Confirmed(q) == ~rx[q].busy /\ Over(rx[q].remote)

(* The lane registers the candidate before it is sent.  (It is never asked *)
(* for an id that it has: such a caller gets the handle of the call.)      *)
Register(r) ==
    /\ go[r].at = "job"
    /\ IF \/ JobCancelled(r) \/ worker # "up"
          \/ lane # None /\ (lane # None => req[r].id < req[lane].id \/ ~Confirmed(lane))
       THEN go' = [go EXCEPT ![r].at = "returned", ![r].answer = "error"] /\ UNCHANGED <<rx, lane>>
       ELSE /\ go' = [go EXCEPT ![r].at = "registered", ![r].previous = lane]
            /\ rx' = [rx EXCEPT ![r].busy = TRUE, ![r].gone = FALSE, ![r].deaf = FALSE]
            /\ lane' = r
    /\ UNCHANGED <<urgent, goVars>>

Enqueue(r) ==
    /\ go[r].at = "registered"
    /\ IF JobCancelled(r) \/ worker # "up" \/ Len(urgent) = UrgentCap
       THEN /\ go' = [go EXCEPT ![r].at = "returned", ![r].answer = "error"]
            /\ rx' = [Rollback(rx, r) EXCEPT ![r].busy = FALSE]
            /\ lane' = LaneAfterRollback(r)
            /\ UNCHANGED urgent
       ELSE /\ go' = [go EXCEPT ![r].at = "waiting"]
            /\ urgent' = Append(urgent, [op |-> "subscribe", id |-> r])
            /\ UNCHANGED <<rx, lane>>
    /\ UNCHANGED goVars

Answered(r) ==
    /\ go[r].at = "waiting" /\ go[r].got # None
    /\ go' = [go EXCEPT ![r].at = "returned", ![r].answer = go[r].got]
    /\ UNCHANGED <<rx, lane, urgent, goVars>>

TimesOut(r) ==
    /\ go[r].at \in {"job", "registered", "waiting"} /\ ~go[r].late
    /\ go' = [go EXCEPT ![r].late = TRUE]
    /\ UNCHANGED <<rx, lane, urgent, goVars>>

(* Mutant: the job is taken for cancelled although it may be executing.    *)
AlwaysWins(r) == TRUE

(* The cancellation is certain only when it wins against the worker.       *)
WinsCancellation(r) == go[r].call = 0

CancelJob(r) ==
    /\ go[r].at = "waiting" /\ JobCancelled(r) /\ go[r].got = None
    /\ IF WinsCancellation(r)
       THEN /\ go' = [go EXCEPT ![r].at = "returned", ![r].call = 2, ![r].answer = "error"]
            /\ rx' = Rollback(rx, r) /\ lane' = LaneAfterRollback(r)
       ELSE /\ go' = [go EXCEPT ![r].at = "returned", ![r].answer = "lost"]
            /\ UNCHANGED <<rx, lane>>
    /\ UNCHANGED <<urgent, goVars>>

(* Mutant: bind does not look at the handle again.                         *)
Unlooked(x, r) == x

(* A handle that was revoked meanwhile is not left open.                   *)
Looked(x, r) == IF rx[r].closed \/ Retired(r) THEN [x EXCEPT ![r].deaf = TRUE] ELSE x

(* SubscribeRX returns a subscription only when it has not been retired.   *)
Bind(r) ==
    /\ go[r].at = "returned"
    /\ IF rx[r].gone
       THEN go' = [go EXCEPT ![r].at = "posted"] /\ UNCHANGED rx
       ELSE go' = [go EXCEPT ![r].at = "bound"] /\ rx' = [rx EXCEPT ![r].bound = TRUE]
    /\ UNCHANGED <<lane, urgent, goVars>>

BindChecks(r) ==
    /\ go[r].at = "bound"
    /\ go' = [go EXCEPT ![r].at = "posted"]
    /\ rx' = Looked(rx, r)
    /\ UNCHANGED <<lane, urgent, goVars>>

-----------------------------------------------------------------------------
(* The worker takes the next job of its urgent queue.                      *)

workerVars == <<call, worker, req, pending, current, checking>>

(* finish of a subscribe job: a candidate that certainly does not exist is *)
(* rolled back, any other takes the place of its predecessor.              *)
Finished(r, answer) ==
    LET definite == answer = "error" \/ go[r].call = 2
        before == go[r].previous
        x == [rx EXCEPT ![r].busy = FALSE, ![r].remote = IF answer = "active" THEN answer ELSE @]
    IN /\ go' = [go EXCEPT ![r].got = answer]
       /\ IF definite
          THEN rx' = Rollback(x, r) /\ lane' = LaneAfterRollback(r)
          ELSE rx' = (IF before = None THEN x ELSE RetireSub(x, before)) /\ UNCHANGED lane

(* A job that was cancelled in the queue is dropped.                       *)
DropJob ==
    /\ worker = "up" /\ executing = None /\ urgent # <<>>
    /\ LET c == Head(urgent)
       IN c.op = "subscribe" /\ go[c.id].call = 2 /\ Finished(c.id, "error")
    /\ urgent' = Tail(urgent)
    /\ UNCHANGED <<executing, rust, replies, workerVars>>

TakeJob ==
    /\ worker = "up" /\ executing = None /\ urgent # <<>>
    /\ LET c == Head(urgent)
       IN /\ c.op = "subscribe" /\ go[c.id].call = 0
          /\ executing' = [id |-> c.id, sent |-> FALSE]
          /\ go' = [go EXCEPT ![c.id].call = 1]
    /\ urgent' = Tail(urgent)
    /\ UNCHANGED <<rx, lane, rust, replies, workerVars>>

(* Its context is looked at once more before the command is written.       *)
SendJob ==
    /\ worker = "up" /\ executing # None /\ (executing # None => ~executing.sent)
    /\ IF JobCancelled(executing.id)
       THEN executing' = None /\ Finished(executing.id, "lost")
       ELSE executing' = [executing EXCEPT !.sent = TRUE] /\ UNCHANGED <<go, rx, lane>>
    /\ UNCHANGED <<urgent, rust, replies, workerVars>>

\* The session of the process knows the id of the handle h.
Known(h) == rust.sub # None /\ (rust.sub # None => req[rust.sub].id = req[h].id)
MayReplace(r) == rust.sub = None \/ (rust.sub # None => req[rust.sub].id < req[r].id /\ rust.state # "active")

(* rx_subscribe in the process; its clock or its lane may refuse it.       *)
Subscribes ==
    /\ worker = "up" /\ executing # None /\ (executing # None => executing.sent)
    /\ executing' = None
    /\ \/ /\ rust.state # "released" /\ MayReplace(executing.id)
          /\ rust' = [sub |-> executing.id, state |-> "active"]
          /\ Finished(executing.id, "active")
       \/ UNCHANGED rust /\ Finished(executing.id, "error")
    /\ UNCHANGED <<urgent, replies, workerVars>>

(* rx_status and rx_unsubscribe: only a final state tells the handle more. *)
Controlled ==
    /\ worker = "up" /\ executing = None /\ urgent # <<>>
    /\ LET c == Head(urgent)
           state == IF c.op = "unsubscribe" /\ rust.state = "active" THEN "stopped" ELSE rust.state
       IN /\ c.op \in {"status", "unsubscribe"}
          /\ IF Known(c.id) /\ rust.state # "released"
             THEN /\ rust' = [rust EXCEPT !.state = state]
                  /\ rx' = [rx EXCEPT ![c.id].busy = FALSE, ![c.id].remote = state]
                  /\ replies' = IF Over(state) THEN replies \cup {c.id} ELSE replies
             ELSE /\ rx' = [rx EXCEPT ![c.id].busy = FALSE]
                  /\ UNCHANGED <<rust, replies>>
    /\ urgent' = Tail(urgent)
    /\ UNCHANGED <<executing, go, lane, workerVars>>

(* release: the session and, with its answer, the entry of the lane go.    *)
Released ==
    /\ worker = "up" /\ executing = None /\ urgent # <<>> /\ Head(urgent).op = "release"
    /\ urgent' = Tail(urgent)
    /\ rust' = [sub |-> None, state |-> "released"]
    /\ rx' = IF lane = None THEN rx ELSE RetireSub(rx, lane)
    /\ lane' = None
    /\ replies' = replies \cup {0}
    /\ UNCHANGED <<executing, go, workerVars>>

(* The export fails in the process.                                        *)
ExportFails ==
    /\ worker = "up" /\ rust.state = "active"
    /\ rust' = [rust EXCEPT !.state = "failed"]
    /\ UNCHANGED <<executing, urgent, go, rx, lane, replies, workerVars>>

\* The subscribe job of r is queued or executing.
Outstanding(r) ==
    \/ executing # None /\ (executing # None => executing.id = r)
    \/ \E i \in 1..Len(urgent) : urgent[i] = [op |-> "subscribe", id |-> r]

(* The process ends: its lane is closed and its jobs are refused; for a    *)
(* release that is as good as an answer, the session is gone.              *)
WorkerEnds ==
    /\ worker = "up" /\ worker' = "ended"
    /\ urgent' = <<>> /\ executing' = None
    /\ rust' = [sub |-> None, state |-> "released"]
    /\ go' = [r \in Reqs |-> IF Outstanding(r) THEN [go[r] EXCEPT !.got = "lost"] ELSE go[r]]
    /\ rx' = [r \in Reqs |->
                LET out == r = lane \/ \E q \in Reqs :
                              Outstanding(q) /\ go[q].call # 2 /\ go[q].previous = r
                IN [rx[r] EXCEPT !.busy = FALSE, !.gone = @ \/ out, !.deaf = @ \/ out]]
    /\ replies' = replies \cup (IF \E i \in 1..Len(urgent) : urgent[i].op = "release" THEN {0} ELSE {})
    /\ UNCHANGED <<lane, call, req, pending, current, checking>>

-----------------------------------------------------------------------------
(* The owner of a handle.                                                  *)

ownerVars == <<call, worker, executing, rust, lane, req, go, pending, current, checking>>

Owned(h) == \E r \in Reqs : req[r].stage \in {"answered", "left"} /\ req[r].published = h

(* Status; Unsubscribe also gives up reading.  (A handle that knows the end *)
(* of its subscription is not asked again.)                                *)
Ask(h, op) ==
    /\ Owned(h) /\ rx[h].bound /\ ~Retired(h) /\ ~rx[h].busy /\ ~rx[h].terminal
    /\ worker = "up" /\ Len(urgent) < UrgentCap
    /\ urgent' = Append(urgent, [op |-> op, id |-> h])
    /\ rx' = [IF op = "unsubscribe" THEN Revoke(rx, h) ELSE rx EXCEPT ![h].busy = TRUE]
    /\ UNCHANGED <<replies, ownerVars>>

(* observe                                                                 *)
Observe(h) ==
    /\ h \in replies \ {0}
    /\ replies' = replies \ {h}
    /\ rx' = [Revoke(rx, h) EXCEPT ![h].terminal = TRUE]
    /\ UNCHANGED <<urgent, ownerVars>>

-----------------------------------------------------------------------------
(* The end of the call.                                                    *)

endVars == <<executing, rust, lane, req, go, pending, current, checking>>

(* retireCallRX                                                            *)
RetireCall(x, released) ==
    [h \in Reqs |-> IF h \notin {current, pending} THEN x[h]
                    ELSE IF released THEN Retire(x, h)[h] ELSE Revoke(x, h)[h]]

CanRelease == worker = "up" /\ Len(urgent) < UrgentCap
SubmitRelease == urgent' = IF CanRelease THEN Append(urgent, [op |-> "release", id |-> 0]) ELSE urgent

Finish ==
    /\ Loop /\ ~call.ended
    /\ rx' = RetireCall(rx, FALSE)
    /\ SubmitRelease
    /\ call' = [call EXCEPT !.ended = TRUE, !.releasing = CanRelease]
    /\ UNCHANGED <<worker, replies, endVars>>

ReleaseRetry ==
    /\ Loop /\ call.ended /\ call.allocated /\ ~call.releasing /\ CanRelease
    /\ SubmitRelease
    /\ call' = [call EXCEPT !.releasing = TRUE]
    /\ UNCHANGED <<worker, rx, replies, endVars>>

ReleaseResult ==
    /\ Loop /\ 0 \in replies
    /\ replies' = replies \ {0}
    /\ call' = [call EXCEPT !.releasing = FALSE, !.allocated = FALSE]
    /\ rx' = IF call.allocated THEN RetireCall(rx, TRUE) ELSE rx
    /\ UNCHANGED <<worker, urgent, endVars>>

WorkerFailed ==
    /\ Loop /\ worker = "ended"
    /\ worker' = "reported"
    /\ call' = [ended |-> TRUE, allocated |-> FALSE, releasing |-> FALSE]
    /\ rx' = RetireCall(rx, TRUE)
    /\ UNCHANGED <<urgent, replies, endVars>>

-----------------------------------------------------------------------------
CallerNext ==
    \E r \in Reqs :
        \/ \E id \in 1..MaxId : Subscribe(r, id)
        \/ CancelContext(r) \/ Receive(r) \/ GiveUp(r) \/ Leave(r)

LoopNext ==
    \/ \E r \in Reqs : RefuseSubscribe(r) \/ SameSubscription(r) \/ PublishSubscribe(r)
                       \/ StartControl(r) \/ SubscribeResult(r)
    \/ Finish \/ ReleaseRetry \/ ReleaseResult \/ WorkerFailed

GoNext ==
    \E r \in Reqs : Register(r) \/ Enqueue(r) \/ Answered(r) \/ TimesOut(r) \/ CancelJob(r)
                    \/ Bind(r) \/ BindChecks(r)

WorkerNext ==
    \/ DropJob \/ TakeJob \/ SendJob \/ Subscribes \/ Controlled \/ Released
    \/ ExportFails \/ WorkerEnds

OwnerNext == \E h \in Reqs : Observe(h) \/ \E op \in {"status", "unsubscribe"} : Ask(h, op)

Next == CallerNext \/ LoopNext \/ GoNext \/ WorkerNext \/ OwnerNext

Spec == Init /\ [][Next]_vars

-----------------------------------------------------------------------------
TypeOK ==
    /\ worker \in {"up", "ended", "reported"} /\ Len(urgent) <= UrgentCap
    /\ {pending, current, checking, lane} \subseteq Reqs \cup {None}

(* While a call lives, what its session exports has an owner: the handle   *)
(* that the call keeps or waits for, which the lane still serves, so that  *)
(* the export can be read or stopped, whatever was cancelled or lost.      *)
ExportHasOwner ==
    rust.state = "active" /\ Eligible =>
        \E h \in {pending, current} \ {None} :
            lane = h /\ ~rx[h].gone /\ ~rx[h].retired /\ req[h].id = req[rust.sub].id

(* A handle whose right to read was revoked never keeps an open queue, not *)
(* even when the subscription is bound to it at the same time: a reader is *)
(* woken and no audio is left behind (rx_stream.go:106).                   *)
RevokedIsDeaf ==
    \A h \in Reqs : rx[h].bound /\ rx[h].closed /\ go[h].at # "bound" => rx[h].deaf

(* A caller who got no handle has no subscription: while the session       *)
(* exists its job never reaches the process, not even later, and nothing   *)
(* is exported for it.                                                     *)
NoHandleMeansNothing ==
    \A r \in Reqs :
        req[r].stage \in {"refused", "empty-handed"} /\ rust.state # "released" =>
            /\ ~(rust.sub = r /\ rust.state = "active")
            /\ ~(executing # None /\ (executing # None => executing.id = r))

(* rx_stream.go:29: a subscription with an unknown outcome can be queried  *)
(* or unsubscribed through the handle that is kept.                        *)
UnknownCanBeCleaned ==
    Eligible /\ current # None =>
        (rx[current].terminal \/ (~Retired(current) /\ (Outstanding(current) \/ Known(current))))
=============================================================================
