---------------------------- MODULE RxOwnerProofs ----------------------------
(***************************************************************************)
(* Who hears what, proved for any number of subscribers, any ids and any   *)
(* queue.  First, a reader whose right was revoked never hears more:       *)
(* revoking a handle and binding a subscription to it are steps of two     *)
(* threads without a common lock, and whichever comes first, one of them   *)
(* sees the other.  Then, where the job of a subscription is (the ledger), *)
(* and from it that an export always has an owner, and that a caller who   *)
(* got no handle has no export.                                            *)
(***************************************************************************)
EXTENDS RxOwner, TLAPS

HandleFields == {"closed", "retired", "terminal", "authorized", "bound", "gone", "deaf", "busy", "remote"}
ControlFields == {"at", "call", "got", "late", "previous", "answer"}

HandlesOK(x) ==
    /\ DOMAIN x = Reqs
    /\ \A h \in Reqs : /\ DOMAIN x[h] = HandleFields
                       /\ x[h].bound \in BOOLEAN /\ x[h].deaf \in BOOLEAN
                       /\ x[h].closed \in BOOLEAN

ControlsOK(g) == DOMAIN g = Reqs /\ \A h \in Reqs : DOMAIN g[h] = ControlFields

(* From x to y no handle was opened: a closed handle was closed before, or *)
(* is deaf, or has nothing bound to it, and a deaf one stays deaf.         *)
Kept(x, y) ==
    /\ HandlesOK(y)
    /\ \A h \in Reqs : /\ y[h].bound = x[h].bound
                       /\ y[h].closed => x[h].closed \/ y[h].deaf \/ ~y[h].bound
                       /\ x[h].deaf => y[h].deaf

(* The control goroutine of h binds a subscription late, and only once.    *)
Later == {"bound", "posted", "done"}
Placed(x, g, h) ==
    /\ x[h].bound => g[h].at \in Later
    /\ x[h].bound /\ x[h].closed /\ g[h].at # "bound" => x[h].deaf

Unstarted(h) ==
    /\ ~req[h].asked \/ checking = h => go[h].at = "none"
    /\ checking = h => req[h].asked

IInv ==
    /\ HandlesOK(rx) /\ ControlsOK(go)
    /\ \A h \in Reqs : Placed(rx, go, h)
    /\ \A h \in Reqs : Unstarted(h)
    /\ DOMAIN req = Reqs /\ \A r \in Reqs : DOMAIN req[r] = DOMAIN NewRequest

-----------------------------------------------------------------------------
(* What the methods of a handle and of a subscription do to the handles.   *)

(* Doing nothing opens nothing.                                            *)
LEMMA KeptSame == ASSUME NEW x, HandlesOK(x) PROVE Kept(x, x)
BY DEF Kept

(* Nor does a step after a step that opens nothing.                        *)
LEMMA KeptTwice ==
    ASSUME NEW x, NEW y, NEW z, Kept(x, y), Kept(y, z)
    PROVE  Kept(x, z)
BY DEF Kept, HandlesOK

(* RXHandle.revoke closes, and deafens what is bound.                      *)
LEMMA RevokeKept ==
    ASSUME NEW x, HandlesOK(x), NEW h
    PROVE  Kept(x, Revoke(x, h))
<1>. DEFINE y == Revoke(x, h)
<1>1. DOMAIN y = Reqs /\ \A k \in Reqs : k # h => y[k] = x[k]
  BY DEF Revoke, HandlesOK
<1>2. ASSUME h \in Reqs
      PROVE  /\ DOMAIN y[h] = HandleFields /\ y[h].bound = x[h].bound
             /\ y[h].closed = TRUE /\ y[h].deaf = (x[h].deaf \/ x[h].bound)
  BY <1>2 DEF Revoke, HandlesOK, HandleFields
<1>. QED
  BY <1>1, <1>2 DEF Kept, HandlesOK

(* RXSubscription.retire deafens.                                          *)
LEMMA RetireSubKept ==
    ASSUME NEW x, HandlesOK(x), NEW h
    PROVE  Kept(x, RetireSub(x, h))
<1>. DEFINE y == RetireSub(x, h)
<1>1. DOMAIN y = Reqs /\ \A k \in Reqs : k # h => y[k] = x[k]
  BY DEF RetireSub, HandlesOK
<1>2. ASSUME h \in Reqs
      PROVE  /\ DOMAIN y[h] = HandleFields /\ y[h].bound = x[h].bound
             /\ y[h].closed = x[h].closed /\ y[h].deaf = TRUE
  BY <1>2 DEF RetireSub, HandlesOK, HandleFields
<1>. QED
  BY <1>1, <1>2 DEF Kept, HandlesOK

(* RXHandle.retire revokes.                                                *)
LEMMA RetireKept ==
    ASSUME NEW x, HandlesOK(x), NEW h
    PROVE  Kept(x, Retire(x, h))
<1>. DEFINE z == Revoke(x, h)
            y == [z EXCEPT ![h].retired = TRUE]
<1>1. Kept(x, z) /\ HandlesOK(z)
  BY RevokeKept DEF Kept
<1>. HIDE DEF z
<1>2. DOMAIN y = Reqs /\ \A k \in Reqs : k # h => y[k] = z[k]
  BY <1>1 DEF HandlesOK
<1>3. ASSUME h \in Reqs
      PROVE  DOMAIN y[h] = HandleFields /\ y[h].bound = z[h].bound
             /\ y[h].closed = z[h].closed /\ y[h].deaf = z[h].deaf
  BY <1>1, <1>3 DEF HandlesOK, HandleFields
<1>4. Kept(z, y)
  BY <1>1, <1>2, <1>3 DEF Kept, HandlesOK
<1>5. Retire(x, h) = y
  BY DEF Retire, z
<1>. QED
  BY <1>1, <1>4, <1>5, KeptTwice

(* Replacing the handle of the call retires it.                            *)
LEMMA ReplaceKept ==
    ASSUME NEW x, HandlesOK(x), NEW h
    PROVE  Kept(x, Replace(x, h))
BY RetireKept, KeptSame DEF Replace

(* retireCallRX revokes or retires at most two handles.                    *)
LEMMA RetireCallKept ==
    ASSUME NEW x, HandlesOK(x), NEW released \in BOOLEAN
    PROVE  Kept(x, RetireCall(x, released))
<1>. DEFINE y == RetireCall(x, released)
<1>1. DOMAIN y = Reqs /\ \A h \in Reqs : y[h] \in {x[h], Retire(x, h)[h], Revoke(x, h)[h]}
  BY DEF RetireCall
<1>. HIDE DEF y
<1>2. ASSUME NEW h \in Reqs PROVE \E z : Kept(x, z) /\ y[h] = z[h]
  BY <1>1, RetireKept, RevokeKept, KeptSame
<1>3. ASSUME NEW h \in Reqs
      PROVE  /\ DOMAIN y[h] = HandleFields
             /\ y[h].bound \in BOOLEAN /\ y[h].deaf \in BOOLEAN /\ y[h].closed \in BOOLEAN
             /\ y[h].bound = x[h].bound
             /\ y[h].closed => x[h].closed \/ y[h].deaf \/ ~y[h].bound
             /\ x[h].deaf => y[h].deaf
  BY <1>2 DEF Kept, HandlesOK
<1>4. Kept(x, y)
  BY <1>1, <1>3 DEF Kept, HandlesOK
<1>. QED
  BY <1>4 DEF y

(* finish of a job, a rollback included, opens no handle and moves no      *)
(* goroutine.                                                              *)
LEMMA FinishedKept ==
    ASSUME IInv, NEW r, NEW answer, Finished(r, answer)
    PROVE  /\ Kept(rx, rx') /\ ControlsOK(go')
           /\ \A h \in Reqs : go'[h].at = go[h].at
<1>. DEFINE m == IF answer = "active" THEN answer ELSE rx[r].remote
            x == [rx EXCEPT ![r].busy = FALSE, ![r].remote = m]
<1>1. HandlesOK(rx) /\ ControlsOK(go)
  BY DEF IInv
<1>2. go' = [go EXCEPT ![r].got = answer]
  BY DEF Finished
<1>3. ControlsOK(go') /\ \A h \in Reqs : go'[h].at = go[h].at
  BY <1>1, <1>2 DEF ControlsOK, ControlFields
<1>4. Kept(rx, x) /\ HandlesOK(x)
  <2>1. DOMAIN x = Reqs /\ \A k \in Reqs : k # r => x[k] = rx[k]
    BY <1>1 DEF HandlesOK
  <2>2. ASSUME r \in Reqs
        PROVE  DOMAIN x[r] = HandleFields /\ x[r].bound = rx[r].bound
               /\ x[r].closed = rx[r].closed /\ x[r].deaf = rx[r].deaf
    BY <1>1, <2>2 DEF HandlesOK, HandleFields
  <2>. HIDE DEF x
  <2>. QED
    BY <1>1, <2>1, <2>2 DEF Kept, HandlesOK
<1>5. \/ rx' = x \/ \E b : rx' = RetireSub(x, b)
  BY DEF Finished, Rollback
<1>. HIDE DEF x
<1>. QED
  BY <1>3, <1>4, <1>5, RetireSubKept, KeptTwice
-----------------------------------------------------------------------------
(* The steps.                                                              *)

(* A step that opens no handle and binds none keeps the invariant, if the  *)
(* control goroutines only go on where nothing is bound or all is done.    *)
LEMMA KeepsInv ==
    ASSUME IInv, Kept(rx, rx'), ControlsOK(go'),
           \A h \in Reqs : rx[h].bound => (go'[h].at = "bound" <=> go[h].at = "bound")
                                          /\ go'[h].at \in Later,
           \A h \in Reqs : Unstarted(h)',
           DOMAIN req' = Reqs, \A r \in Reqs : DOMAIN req'[r] = DOMAIN NewRequest
    PROVE  IInv'
<1>1. \A h \in Reqs : Placed(rx', go', h)
  BY DEF IInv, Placed, Kept, HandlesOK
<1>. QED
  BY <1>1 DEF IInv, Kept, HandlesOK, ControlsOK, Placed

(* A step that leaves the goroutines and the requests alone.               *)
LEMMA HandlesOnly ==
    ASSUME IInv, Kept(rx, rx'), UNCHANGED <<go, req, checking>>
    PROVE  IInv'
<1>1. ControlsOK(go') /\ \A h \in Reqs : Unstarted(h)'
  BY DEF IInv, Unstarted, ControlsOK
<1>2. \A h \in Reqs : rx[h].bound => (go'[h].at = "bound" <=> go[h].at = "bound")
                                     /\ go'[h].at \in Later
  BY DEF IInv, Placed
<1>. QED
  BY <1>1, <1>2, KeepsInv DEF IInv

(* A step of the caller: only its own request changes, and it stays asked. *)
LEMMA RequestsOnly ==
    ASSUME IInv, Kept(rx, rx'), UNCHANGED <<go, checking>>, DOMAIN req' = Reqs,
           \A r \in Reqs : DOMAIN req'[r] = DOMAIN NewRequest /\ (req[r].asked => req'[r].asked)
    PROVE  IInv'
<1>1. ControlsOK(go') /\ \A h \in Reqs : Unstarted(h)'
  BY DEF IInv, Unstarted, ControlsOK
<1>2. \A h \in Reqs : rx[h].bound => (go'[h].at = "bound" <=> go[h].at = "bound")
                                     /\ go'[h].at \in Later
  BY DEF IInv, Placed
<1>. QED
  BY <1>1, <1>2, KeepsInv

(* The caller: it revokes the handle it does not want any more.            *)
LEMMA CallerKeeps ==
    ASSUME IInv, NEW r \in Reqs,
           \/ \E id \in 1..MaxId : Subscribe(r, id)
           \/ CancelContext(r) \/ Receive(r) \/ GiveUp(r) \/ Leave(r)
    PROVE  IInv'
<1>1. HandlesOK(rx) /\ DOMAIN req = Reqs /\ \A q \in Reqs : DOMAIN req[q] = DOMAIN NewRequest
  BY DEF IInv
<1>2. Kept(rx, rx') /\ UNCHANGED <<go, checking>>
  BY <1>1, KeptSame, RevokeKept DEF Subscribe, CancelContext, Receive, GiveUp, Leave, callerVars
<1>3. DOMAIN req' = Reqs /\ \A q \in Reqs : DOMAIN req'[q] = DOMAIN NewRequest
                                          /\ (req[q].asked => req'[q].asked)
  BY <1>1 DEF Subscribe, CancelContext, Receive, GiveUp, Leave, NewRequest
<1>. QED
  BY <1>2, <1>3, RequestsOnly
(* A delivery tells one request its result, and starts nothing.            *)
LEMMA DeliverFields ==
    ASSUME IInv, NEW r \in Reqs, NEW result, NEW d, d = Deliver(r, result)
    PROVE  DOMAIN d = Reqs /\ \A q \in Reqs : DOMAIN d[q] = DOMAIN NewRequest
                                            /\ d[q].asked = req[q].asked
BY DEF IInv, Deliver, NewRequest

(* The call loop: it starts one control goroutine for each request at most.*)
LEMMA LoopKeeps ==
    ASSUME IInv, NEW r \in Reqs,
           \/ RefuseSubscribe(r) \/ SameSubscription(r) \/ PublishSubscribe(r)
           \/ StartControl(r) \/ SubscribeResult(r)
    PROVE  IInv'
<1>1. HandlesOK(rx) /\ ControlsOK(go) /\ DOMAIN req = Reqs
      /\ \A q \in Reqs : DOMAIN req[q] = DOMAIN NewRequest
  BY DEF IInv
<1>2. \A h \in Reqs : h # None
  BY RxAssumption DEF Reqs
<1>3. ASSUME RefuseSubscribe(r) \/ SameSubscription(r) PROVE IInv'
  <2>1. PICK result : \/ req' = [Deliver(r, result) EXCEPT ![r].asked = TRUE]
                      \/ req' = [Deliver(r, result) EXCEPT ![r].asked = TRUE, ![r].published = current]
    BY <1>3 DEF RefuseSubscribe, SameSubscription
  <2>. DEFINE d == Deliver(r, result)
  <2>2. DOMAIN d = Reqs /\ \A q \in Reqs : DOMAIN d[q] = DOMAIN NewRequest /\ d[q].asked = req[q].asked
    BY DeliverFields
  <2>. HIDE DEF d
  <2>3. req' = [d EXCEPT ![r].asked = TRUE]
        \/ req' = [d EXCEPT ![r].asked = TRUE, ![r].published = current]
    BY <2>1 DEF d
  <2>4. DOMAIN req' = Reqs /\ \A q \in Reqs : DOMAIN req'[q] = DOMAIN NewRequest
                                           /\ (req[q].asked => req'[q].asked)
    BY <2>2, <2>3 DEF NewRequest
  <2>5. UNCHANGED <<rx, go, checking>>
    BY <1>3 DEF RefuseSubscribe, SameSubscription
  <2>. QED
    BY <1>1, <2>4, <2>5, KeptSame, RequestsOnly
<1>4. CASE PublishSubscribe(r)
  <2>1. /\ checking' = r /\ UNCHANGED <<rx, go>> /\ ~req[r].asked
        /\ req' = [req EXCEPT ![r].asked = TRUE, ![r].published = r]
    BY <1>4 DEF PublishSubscribe, Waiting
  <2>2. DOMAIN req' = Reqs /\ \A q \in Reqs : DOMAIN req'[q] = DOMAIN NewRequest
                                           /\ req'[q].asked = IF q = r THEN TRUE ELSE req[q].asked
    BY <1>1, <2>1 DEF NewRequest
  <2>3. go[r].at = "none"
    BY <2>1 DEF IInv, Unstarted
  <2>4. \A h \in Reqs : Unstarted(h)'
    BY <2>1, <2>2, <2>3 DEF IInv, Unstarted
  <2>. QED
    BY <1>1, <2>1, <2>2, <2>4, KeptSame, KeepsInv DEF IInv, Placed
<1>5. CASE StartControl(r)
  <2>1. checking = r /\ checking' = None /\ req[r].asked /\ go[r].at = "none" /\ ~rx[r].bound
    BY <1>5 DEF StartControl, IInv, Unstarted, Placed, Later, HandlesOK
  <2>2. Kept(rx, rx')
    BY <1>1, <1>5, KeptSame, RetireKept DEF StartControl
  <2>3. DOMAIN req' = Reqs /\ \A q \in Reqs : DOMAIN req'[q] = DOMAIN NewRequest
                                           /\ req'[q].asked = req[q].asked
    BY <1>1, <1>5, DeliverFields DEF StartControl
  <2>4. ControlsOK(go') /\ \A h \in Reqs : h # r => go'[h].at = go[h].at
    BY <1>1, <1>5 DEF StartControl, ControlsOK, ControlFields
  <2>5. \A h \in Reqs : Unstarted(h)'
    BY <1>2, <2>1, <2>3, <2>4 DEF IInv, Unstarted
  <2>6. \A h \in Reqs : rx[h].bound => go'[h].at = go[h].at /\ go[h].at \in Later
    BY <2>1, <2>4 DEF IInv, Placed
  <2>. QED
    BY <2>2, <2>3, <2>4, <2>5, <2>6, KeepsInv
<1>6. CASE SubscribeResult(r)
  <2>1. go[r].at = "posted" /\ go' = [go EXCEPT ![r].at = "done"] /\ UNCHANGED checking
    BY <1>6 DEF SubscribeResult
  <2>2. ControlsOK(go') /\ \A h \in Reqs : go'[h].at = IF h = r THEN "done" ELSE go[h].at
    BY <1>1, <2>1 DEF ControlsOK, ControlFields
  <2>3. DOMAIN req' = Reqs /\ \A q \in Reqs : DOMAIN req'[q] = DOMAIN NewRequest
                                           /\ req'[q].asked = req[q].asked
    BY <1>1, <1>6, DeliverFields
    DEF SubscribeResult, NothingSubscribed, OutcomeUnknown, SubscribedInVain, Subscribed
  <2>4. Kept(rx, rx')
    <3>1. CASE NothingSubscribed(r)
      BY <1>1, <3>1, RetireKept DEF NothingSubscribed
    <3>2. CASE OutcomeUnknown(r) \/ SubscribedInVain(r)
      <4>1. Kept(rx, Revoke(rx, r)) /\ HandlesOK(Revoke(rx, r))
        BY <1>1, RevokeKept DEF Kept
      <4>. QED
        BY <3>2, <4>1, ReplaceKept, KeptTwice DEF OutcomeUnknown, SubscribedInVain
    <3>3. CASE Subscribed(r)
      <4>. DEFINE z == Replace(rx, r)
                  y == [z EXCEPT ![r].authorized = ~rx[r].closed]
      <4>1. Kept(rx, z) /\ HandlesOK(z)
        BY <1>1, ReplaceKept DEF Kept
      <4>. HIDE DEF z
      <4>2. DOMAIN y = Reqs /\ \A k \in Reqs : k # r => y[k] = z[k]
        BY <4>1 DEF HandlesOK
      <4>3. DOMAIN y[r] = HandleFields /\ y[r].bound = z[r].bound
            /\ y[r].closed = z[r].closed /\ y[r].deaf = z[r].deaf
        BY <4>1 DEF HandlesOK, HandleFields
      <4>4. rx' = y \/ rx' = Revoke(y, r)
        BY <3>3 DEF Subscribed, z
      <4>. HIDE DEF y
      <4>5. Kept(z, y) /\ HandlesOK(y)
        BY <4>1, <4>2, <4>3 DEF Kept, HandlesOK
      <4>6. Kept(rx, y) /\ Kept(y, Revoke(y, r))
        BY <4>1, <4>5, RevokeKept, KeptTwice
      <4>. QED
        BY <4>4, <4>6, KeptTwice
    <3>. QED
      BY <1>6, <3>1, <3>2, <3>3 DEF SubscribeResult
  <2>5. \A h \in Reqs : Unstarted(h)'
    BY <2>1, <2>2, <2>3 DEF IInv, Unstarted
  <2>6. \A h \in Reqs : rx[h].bound => (go'[h].at = "bound" <=> go[h].at = "bound")
                                       /\ go'[h].at \in Later
    BY <2>1, <2>2 DEF IInv, Placed, Later
  <2>. QED
    BY <2>2, <2>3, <2>4, <2>5, <2>6, KeepsInv
<1>. QED
  BY <1>3, <1>4, <1>5, <1>6
(* A step of the control goroutine of r changes no other goroutine, opens  *)
(* no other handle, and leaves its own as it must be.                      *)
LEMMA ControlStep ==
    ASSUME IInv, NEW r \in Reqs, go[r].at # "none", HandlesOK(rx'), ControlsOK(go'),
           Placed(rx', go', r), UNCHANGED <<req, checking>>,
           \A h \in Reqs \ {r} : rx'[h] = rx[h] /\ go'[h].at = go[h].at
    PROVE  IInv'
<1>1. \A h \in Reqs : Placed(rx', go', h)
  BY DEF IInv, Placed
<1>2. \A h \in Reqs : Unstarted(h)'
  BY DEF IInv, Unstarted
<1>. QED
  BY <1>1, <1>2 DEF IInv, HandlesOK, ControlsOK, Placed

(* The control goroutine: it binds, and then looks at the handle again.    *)
LEMMA ControlKeeps ==
    ASSUME IInv, NEW r \in Reqs,
           \/ Register(r) \/ Enqueue(r) \/ Answered(r) \/ TimesOut(r) \/ CancelJob(r)
           \/ Bind(r) \/ BindChecks(r)
    PROVE  IInv'
<1>1. HandlesOK(rx) /\ ControlsOK(go) /\ Placed(rx, go, r) /\ UNCHANGED <<req, checking>>
  BY DEF IInv, Register, Enqueue, Answered, TimesOut, CancelJob, Bind, BindChecks, goVars
<1>2. ControlsOK(go') /\ \A h \in Reqs \ {r} : go'[h].at = go[h].at
  BY <1>1
  DEF Register, Enqueue, Answered, TimesOut, CancelJob, Bind, BindChecks, ControlsOK, ControlFields
<1>3. HandlesOK(rx') /\ \A h \in Reqs \ {r} : rx'[h] = rx[h]
  <2>1. CASE Register(r)
    BY <1>1, <2>1 DEF Register, HandlesOK, HandleFields
  <2>2. CASE Enqueue(r)
    BY <1>1, <2>2 DEF Enqueue, Rollback, RetireSub, HandlesOK, HandleFields
  <2>3. CASE Answered(r) \/ TimesOut(r)
    BY <1>1, <2>3 DEF Answered, TimesOut
  <2>4. CASE CancelJob(r)
    BY <1>1, <2>4 DEF CancelJob, Rollback, RetireSub, HandlesOK, HandleFields
  <2>5. CASE Bind(r)
    BY <1>1, <2>5 DEF Bind, HandlesOK, HandleFields
  <2>6. CASE BindChecks(r)
    BY <1>1, <2>6 DEF BindChecks, Looked, HandlesOK, HandleFields
  <2>. QED
    BY <2>1, <2>2, <2>3, <2>4, <2>5, <2>6
<1>4. go[r].at # "none" /\ Placed(rx', go', r)
  <2>1. CASE Register(r) \/ Enqueue(r) \/ Answered(r) \/ TimesOut(r) \/ CancelJob(r)
    <3>1. go[r].at \in {"job", "registered", "waiting"} /\ ~rx[r].bound
      BY <1>1, <2>1
      DEF Register, Enqueue, Answered, TimesOut, CancelJob, Placed, Later, HandlesOK
    <3>2. rx'[r].bound = rx[r].bound
      BY <1>1, <2>1, SMTT(20)
      DEF Register, Enqueue, Answered, TimesOut, CancelJob, Rollback, RetireSub, HandlesOK,
          HandleFields
    <3>. QED
      BY <3>1, <3>2 DEF Placed
  <2>2. CASE Bind(r)
    <3>1. go[r].at = "returned" /\ ~rx[r].bound
      BY <1>1, <2>2 DEF Bind, Placed, Later, HandlesOK
    <3>2. \/ rx' = rx
          \/ go' = [go EXCEPT ![r].at = "bound"]
      BY <2>2 DEF Bind
    <3>3. ~rx'[r].bound \/ go'[r].at = "bound"
      BY <1>1, <3>1, <3>2 DEF ControlsOK, ControlFields
    <3>. QED
      BY <3>1, <3>3 DEF Placed, Later
  <2>3. CASE BindChecks(r)
    <3>1. go[r].at = "bound" /\ go'[r].at = "posted"
      BY <1>1, <2>3 DEF BindChecks, ControlsOK, ControlFields
    <3>2. rx[r].closed => rx'[r].deaf
      BY <1>1, <2>3 DEF BindChecks, Looked, HandlesOK, HandleFields
    <3>3. rx'[r].closed = rx[r].closed
      BY <1>1, <2>3 DEF BindChecks, Looked, HandlesOK, HandleFields
    <3>. QED
      BY <3>1, <3>2, <3>3 DEF Placed, Later
  <2>. QED
    BY <2>1, <2>2, <2>3
<1>. QED
  BY <1>1, <1>2, <1>3, <1>4, ControlStep

(* The worker and the process only retire subscriptions.                   *)
LEMMA WorkerKeeps == ASSUME IInv, WorkerNext PROVE IInv'
<1>1. HandlesOK(rx) /\ ControlsOK(go)
  BY DEF IInv
<1>2. UNCHANGED <<req, checking>>
  BY DEF WorkerNext, DropJob, TakeJob, SendJob, Subscribes, Controlled, Released, ExportFails,
         WorkerEnds, workerVars
<1>3. SUFFICES Kept(rx, rx') /\ ControlsOK(go') /\ \A h \in Reqs : go'[h].at = go[h].at
  <2>1. \A h \in Reqs : Unstarted(h)'
    BY <1>2, <1>3 DEF IInv, Unstarted
  <2>2. \A h \in Reqs : rx[h].bound => go'[h].at = go[h].at /\ go[h].at \in Later
    BY <1>3 DEF IInv, Placed
  <2>3. DOMAIN req' = Reqs /\ \A r \in Reqs : DOMAIN req'[r] = DOMAIN NewRequest
    BY <1>2 DEF IInv
  <2>. QED
    BY <1>3, <2>1, <2>2, <2>3, KeepsInv
<1>4. CASE DropJob \/ SendJob \/ Subscribes
  <2>1. \/ \E r, answer : Finished(r, answer)
        \/ UNCHANGED <<go, rx>>
    BY <1>4 DEF DropJob, SendJob, Subscribes
  <2>. QED
    BY <1>1, <2>1, FinishedKept, KeptSame
<1>5. CASE TakeJob
  <2>1. PICK r : go' = [go EXCEPT ![r].call = 1]
    BY <1>5 DEF TakeJob
  <2>2. ControlsOK(go') /\ \A h \in Reqs : go'[h].at = go[h].at
    BY <1>1, <2>1 DEF ControlsOK, ControlFields
  <2>. QED
    BY <1>1, <1>5, <2>2, KeptSame DEF TakeJob
<1>6. CASE Controlled
  <2>1. PICK r, state : \/ rx' = [rx EXCEPT ![r].busy = FALSE, ![r].remote = state]
                        \/ rx' = [rx EXCEPT ![r].busy = FALSE]
    BY <1>6 DEF Controlled
  <2>2. DOMAIN rx' = Reqs /\ \A h \in Reqs : h # r => rx'[h] = rx[h]
    BY <1>1, <2>1 DEF HandlesOK
  <2>3. ASSUME r \in Reqs
        PROVE  DOMAIN rx'[r] = HandleFields /\ rx'[r].bound = rx[r].bound
               /\ rx'[r].closed = rx[r].closed /\ rx'[r].deaf = rx[r].deaf
    BY <1>1, <2>1, <2>3 DEF HandlesOK, HandleFields
  <2>4. Kept(rx, rx')
    BY <1>1, <2>2, <2>3 DEF Kept, HandlesOK
  <2>. QED
    BY <1>1, <1>6, <2>4 DEF Controlled
<1>7. CASE Released \/ ExportFails
  BY <1>1, <1>7, KeptSame, RetireSubKept DEF Released, ExportFails
<1>8. CASE WorkerEnds
  <2>1. ControlsOK(go') /\ \A h \in Reqs : go'[h].at = go[h].at
    BY <1>1, <1>8 DEF WorkerEnds, ControlsOK, ControlFields
  <2>2. ASSUME NEW h \in Reqs
        PROVE  /\ DOMAIN rx'[h] = HandleFields /\ rx'[h].bound = rx[h].bound
               /\ rx'[h].closed = rx[h].closed /\ rx'[h].deaf \in BOOLEAN
               /\ rx[h].deaf => rx'[h].deaf
    <3>1. PICK out \in BOOLEAN :
            rx'[h] = [rx[h] EXCEPT !.busy = FALSE, !.gone = rx[h].gone \/ out, !.deaf = rx[h].deaf \/ out]
      BY <1>8 DEF WorkerEnds
    <3>. QED
      BY <1>1, <3>1 DEF HandlesOK, HandleFields
  <2>3. DOMAIN rx' = Reqs
    BY <1>8 DEF WorkerEnds
  <2>4. Kept(rx, rx')
    BY <1>1, <2>2, <2>3 DEF Kept, HandlesOK
  <2>. QED
    BY <2>1, <2>4
<1>. QED
  BY <1>4, <1>5, <1>6, <1>7, <1>8 DEF WorkerNext

(* The owner of a handle, and the end of the call, only revoke and retire. *)
LEMMA OwnerKeeps ==
    ASSUME IInv, OwnerNext \/ Finish \/ ReleaseRetry \/ ReleaseResult \/ WorkerFailed
    PROVE  IInv'
<1>1. HandlesOK(rx)
  BY DEF IInv
<1>2. UNCHANGED <<go, req, checking>>
  BY DEF OwnerNext, Observe, Ask, ownerVars, Finish, ReleaseRetry, ReleaseResult, WorkerFailed, endVars
<1>3. SUFFICES Kept(rx, rx')
  BY <1>2, <1>3, HandlesOnly
<1>4. CASE Finish \/ ReleaseRetry \/ ReleaseResult \/ WorkerFailed
  BY <1>1, <1>4, KeptSame, RetireCallKept DEF Finish, ReleaseRetry, ReleaseResult, WorkerFailed
<1>5. ASSUME NEW h \in Reqs, Observe(h) \/ \E op \in {"status", "unsubscribe"} : Ask(h, op)
      PROVE  Kept(rx, rx')
  <2>1. PICK z : /\ Kept(rx, z) /\ HandlesOK(z)
                 /\ \/ rx' = [z EXCEPT ![h].terminal = TRUE]
                    \/ rx' = [z EXCEPT ![h].busy = TRUE]
    <3>1. Kept(rx, rx) /\ Kept(rx, Revoke(rx, h)) /\ HandlesOK(Revoke(rx, h))
      BY <1>1, KeptSame, RevokeKept DEF Kept
    <3>2. \/ rx' = [Revoke(rx, h) EXCEPT ![h].terminal = TRUE]
          \/ rx' = [Revoke(rx, h) EXCEPT ![h].busy = TRUE]
          \/ rx' = [rx EXCEPT ![h].busy = TRUE]
      BY <1>5 DEF Observe, Ask
    <3>. QED
      BY <1>1, <3>1, <3>2
  <2>2. DOMAIN rx' = Reqs /\ \A k \in Reqs : k # h => rx'[k] = z[k]
    BY <2>1 DEF HandlesOK
  <2>3. DOMAIN rx'[h] = HandleFields /\ rx'[h].bound = z[h].bound
        /\ rx'[h].closed = z[h].closed /\ rx'[h].deaf = z[h].deaf
    BY <2>1 DEF HandlesOK, HandleFields
  <2>4. Kept(z, rx')
    BY <2>1, <2>2, <2>3 DEF Kept, HandlesOK
  <2>. QED
    BY <2>1, <2>4, KeptTwice
<1>. QED
  BY <1>4, <1>5 DEF OwnerNext

-----------------------------------------------------------------------------
(* The invariant holds at first, ...                                       *)
LEMMA InvInit == ASSUME Init PROVE IInv
<1>1. checking \notin Reqs
  BY RxAssumption DEF Init, Reqs
<1>. QED
  BY <1>1
  DEF Init, IInv, HandlesOK, ControlsOK, Placed, Unstarted, NewRequest, NewControl, NewHandle,
      HandleFields, ControlFields

(* ... and every step keeps it.                                            *)
LEMMA InvKept == ASSUME IInv, [Next]_vars PROVE IInv'
<1>1. CASE UNCHANGED vars
  BY <1>1, KeptSame, HandlesOnly DEF vars, callerVars, IInv
<1>. QED
  BY <1>1, CallerKeeps, LoopKeeps, ControlKeeps, WorkerKeeps, OwnerKeeps
  DEF Next, CallerNext, LoopNext, GoNext

(* A handle whose right to read was revoked never keeps an open queue,     *)
(* whichever of revoking and binding comes first, for any number of        *)
(* subscribers.                                                            *)
THEOREM RevokedStaysDeaf == Spec => []RevokedIsDeaf
<1>1. Init => IInv
  BY InvInit
<1>2. IInv /\ [Next]_vars => IInv'
  BY InvKept
<1>3. IInv => RevokedIsDeaf
  BY DEF IInv, Placed, RevokedIsDeaf
<1>. QED
  BY <1>1, <1>2, <1>3, PTL DEF Spec

-----------------------------------------------------------------------------
(* What the session exports, and for whom.  The job of a subscription      *)
(* moves from the urgent queue to the worker and into the session; the     *)
(* ledger below says where it can be, given what the control goroutine,    *)
(* the lane and the RXSubscription say of it.                              *)

Job(h) == [op |-> "subscribe", id |-> h]
Release == [op |-> "release", id |-> 0]
Questions == [op : {"status", "unsubscribe"}, id : Reqs]
Jobs == [op : {"subscribe"}, id : Reqs] \cup Questions \cup {Release}

Occurs(q, x) == \E i \in 1..Len(q) : q[i] = x
Once(q, x) == \A i, j \in 1..Len(q) : q[i] = x /\ q[j] = x => i = j

Queued(h) == Occurs(urgent, Job(h))
Executing(h) == executing # None /\ executing.id = h
Exports(h) == rust.sub = h /\ rust.state = "active"

(* A dead subscription is not exported and never will be, once its control *)
(* goroutine has handed in its job.                                        *)
Dead(h) == ~Executing(h) /\ ~Exports(h) /\ (Queued(h) => go[h].call = 2)
Early == {"none", "job", "registered"}
Settled(h) == go[h].at \notin Early /\ Dead(h)
Fresh(h) ==
    ~Queued(h) /\ ~Executing(h) /\ rust.sub # h /\ go[h].call = 0 /\ go[h].got = None

(* The job of h is in one place at most, and callState says in which; only *)
(* a dead subscription is retired (gone) or known to be over, and one that *)
(* is not dead is the one that the lane knows.                             *)
Placement(h) ==
    /\ go[h].at \in Early => Fresh(h)
    /\ Once(urgent, Job(h))
    /\ Queued(h) => ~Executing(h) /\ rust.sub # h /\ go[h].got = None /\ go[h].call \in {0, 2}
    /\ Executing(h) => rust.sub # h /\ go[h].call = 1
    /\ rust.sub = h => go[h].call = 1
    /\ Queued(h) /\ go[h].call = 0 => go[h].at = "waiting"
Ledger(h) ==
    /\ Placement(h)
    /\ rx[h].gone => Dead(h) /\ go[h].at # "registered"
    /\ Over(rx[h].remote) => Settled(h)
    /\ ~Dead(h) \/ go[h].at = "registered" => lane = h
    /\ \A b \in Reqs : go[h].previous = b => Settled(b)

(* Only the owner of a bound subscription asks for it.                     *)
Asked == \A j \in Questions : Occurs(urgent, j) => rx[j.id].bound

JobsTyped ==
    /\ urgent \in Seq(Jobs) /\ executing \in {None} \cup [id : Reqs, sent : BOOLEAN]
    /\ DOMAIN rust = {"sub", "state"}
Ledgers == rust.state # "released" => Asked /\ \A h \in Reqs : Ledger(h)
LInv == JobsTyped /\ Ledgers

(* The first job leaves the queue.                                         *)
LEMMA TailOccurs ==
    ASSUME NEW S, NEW q \in Seq(S), q # <<>>, NEW p, p = Tail(q), NEW x
    PROVE  /\ p \in Seq(S) /\ Head(q) \in S
           /\ Head(q) = x => Occurs(q, x)
           /\ Occurs(p, x) => Occurs(q, x)
           /\ Occurs(q, x) /\ Head(q) # x => Occurs(p, x)
           /\ Once(q, x) => Once(p, x) /\ (Head(q) = x => ~Occurs(p, x))
<1>1. p \in Seq(S) /\ Head(q) \in S /\ Head(q) = q[1] /\ Len(q) \in Nat \ {0}
      /\ Len(p) = Len(q) - 1 /\ \A i \in 1..Len(p) : p[i] = q[i + 1]
  OBVIOUS
<1>2. Head(q) = x => Occurs(q, x)
  BY <1>1 DEF Occurs
<1>3. \A i \in 1..Len(p) : i + 1 \in 1..Len(q) /\ i + 1 # 1
  BY <1>1
<1>4. Occurs(p, x) => Occurs(q, x)
  BY <1>1, <1>3 DEF Occurs
<1>5. ASSUME Occurs(q, x), Head(q) # x PROVE Occurs(p, x)
  <2>1. PICK i \in 1..Len(q) : q[i] = x
    BY <1>5 DEF Occurs
  <2>2. i - 1 \in 1..Len(p) /\ p[i - 1] = x
    BY <1>1, <1>5, <2>1
  <2>. QED
    BY <2>2 DEF Occurs
<1>6. ASSUME Once(q, x) PROVE Once(p, x)
  <2>1. SUFFICES ASSUME NEW i \in 1..Len(p), NEW j \in 1..Len(p), p[i] = x, p[j] = x PROVE i = j
    BY DEF Once
  <2>2. q[i + 1] = x /\ q[j + 1] = x
    BY <1>1, <2>1
  <2>3. i + 1 = j + 1
    BY <1>3, <1>6, <2>2 DEF Once
  <2>. QED
    BY <1>1, <2>3
<1>7. ASSUME Once(q, x), Head(q) = x PROVE ~Occurs(p, x)
  <2>1. SUFFICES ASSUME NEW i \in 1..Len(p), p[i] = x PROVE FALSE
    BY DEF Occurs
  <2>2. q[i + 1] = x /\ q[1] = x /\ 1 \in 1..Len(q)
    BY <1>1, <1>7, <2>1
  <2>. QED
    BY <1>3, <1>7, <2>2 DEF Once
<1>. QED
  BY <1>1, <1>2, <1>4, <1>5, <1>6, <1>7

(* What a step may do to a subscription that it is not about: its job only *)
(* disappears, and its goroutine goes on only when nothing waits for it.   *)
Onward(t) ==
    \/ go'[t].at = go[t].at
    \/ {go[t].at, go'[t].at} \subseteq {"none", "job"}
    \/ go[t].at \notin Early /\ go'[t].at \notin Early /\ ~(Queued(t) /\ go[t].call = 0)
Calm(t) ==
    /\ go'[t].call = go[t].call /\ go'[t].got = go[t].got /\ go'[t].previous = go[t].previous
    /\ Onward(t)
    /\ Queued(t)' => Queued(t)
    /\ Once(urgent, Job(t)) => Once(urgent, Job(t))'
    /\ Executing(t)' => Executing(t)
    /\ rust'.sub = t => rust.sub = t
    /\ Exports(t)' => Exports(t)
    /\ rx'[t].gone => rx[t].gone \/ Settled(t)
    /\ Over(rx'[t].remote) => Over(rx[t].remote) \/ Settled(t)'
    /\ lane = t /\ (~Dead(t) \/ go[t].at = "registered") => lane' = t

(* What is settled stays settled ...                                       *)
LEMMA CalmSettled ==
    ASSUME NEW t \in Reqs, Ledger(t), Calm(t), Settled(t)
    PROVE  Settled(t)'
BY DEF Settled, Calm, Onward, Dead, Early

(* ... and the ledger of t stays right.                                    *)
LEMMA CalmKeeps ==
    ASSUME NEW t \in Reqs, Ledger(t), Calm(t), \A b \in Reqs : Settled(b) => Settled(b)'
    PROVE  Ledger(t)'
<1>1. Dead(t) => Dead(t)'
  BY DEF Calm, Dead
<1>2. go'[t].at \in Early => go[t].at \in Early
  BY DEF Calm, Onward, Early
<1>3. Fresh(t) => Fresh(t)'
  BY DEF Calm, Fresh
<1>4. Placement(t)'
  <2>1. Queued(t)' /\ go'[t].call = 0 => go'[t].at = "waiting"
    BY DEF Ledger, Placement, Calm, Onward, Early
  <2>. QED
    BY <1>2, <1>3, <2>1 DEF Ledger, Placement, Calm
<1>5. go'[t].at = "registered" => go[t].at = "registered"
  BY DEF Calm, Onward, Early
<1>6. rx'[t].gone => Dead(t)' /\ go'[t].at # "registered"
  BY <1>1, <1>5 DEF Ledger, Calm, Settled, Early
<1>7. Over(rx'[t].remote) => Settled(t)'
  BY DEF Ledger, Calm
<1>8. ~Dead(t)' \/ go'[t].at = "registered" => lane' = t
  BY <1>1, <1>5 DEF Ledger, Calm
<1>9. \A b \in Reqs : go'[t].previous = b => Settled(b)'
  BY DEF Ledger, Calm
<1>. QED
  BY <1>4, <1>6, <1>7, <1>8, <1>9 DEF Ledger, Over

(* A step that is calm for all.                                            *)
LEMMA CalmAll ==
    ASSUME \A h \in Reqs : Ledger(h), \A t \in Reqs : Calm(t)
    PROVE  \A h \in Reqs : Ledger(h)'
BY CalmSettled, CalmKeeps

(* A step about r.                                                         *)
LEMMA CalmButOne ==
    ASSUME \A h \in Reqs : Ledger(h), NEW r \in Reqs, \A t \in Reqs \ {r} : Calm(t),
           Settled(r) => Settled(r)', (\A b \in Reqs : Settled(b) => Settled(b)') => Ledger(r)'
    PROVE  \A h \in Reqs : Ledger(h)'
<1>1. \A b \in Reqs : Settled(b) => Settled(b)'
  BY CalmSettled
<1>. QED
  BY <1>1, CalmKeeps

(* A session that was released is never opened again.                      *)
LEMMA ReleasedStays ==
    ASSUME [Next]_vars, rust.state = "released"
    PROVE  rust'.state = "released"
<1>1. CASE WorkerNext
  <2>1. CASE DropJob \/ TakeJob \/ SendJob
    BY <2>1 DEF DropJob, TakeJob, SendJob
  <2>4. CASE Released \/ WorkerEnds
    <3>1. rust' = [sub |-> None, state |-> "released"]
      BY <2>4, Zenon DEF Released, WorkerEnds
    <3>. QED
      BY <3>1
  <2>5. CASE ExportFails
    BY <2>5 DEF ExportFails
  <2>2. CASE Subscribes
    BY <2>2 DEF Subscribes
  <2>3. CASE Controlled
    BY <2>3 DEF Controlled
  <2>. QED
    BY <1>1, <2>1, <2>2, <2>3, <2>4, <2>5 DEF WorkerNext
<1>2. CASE CallerNext \/ GoNext \/ OwnerNext \/ LoopNext \/ UNCHANGED vars
  BY <1>2
  DEF CallerNext, GoNext, OwnerNext, LoopNext, Subscribe, CancelContext, Receive, GiveUp, Leave,
      Register, Enqueue, Answered, TimesOut, CancelJob, Bind, BindChecks, Observe, Ask,
      RefuseSubscribe, SameSubscription, PublishSubscribe, StartControl, SubscribeResult, Finish,
      ReleaseRetry, ReleaseResult, WorkerFailed, callerVars, loopVars, goVars, ownerVars, endVars,
      vars
<1>. QED
  BY <1>1, <1>2 DEF Next
-----------------------------------------------------------------------------
(* What the methods of RXHandle leave of the RXSubscription.               *)
SameSubs(x, y) ==
    HandlesOK(y) /\ \A h \in Reqs : /\ y[h].gone = x[h].gone /\ y[h].remote = x[h].remote
                                    /\ y[h].bound = x[h].bound
SameRight(x, y) == \A h \in Reqs : y[h].retired = x[h].retired

(* Nothing is retired by a revocation.                                     *)
LEMMA RevokeSubs ==
    ASSUME NEW x, HandlesOK(x), NEW h, NEW y, y = Revoke(x, h)
    PROVE  SameSubs(x, y) /\ SameRight(x, y)
<1>1. DOMAIN y = Reqs /\ \A k \in Reqs : k # h => y[k] = x[k]
  BY DEF Revoke, HandlesOK
<1>2. ASSUME h \in Reqs
      PROVE  /\ y[h].gone = x[h].gone /\ y[h].remote = x[h].remote /\ y[h].bound = x[h].bound
             /\ y[h].retired = x[h].retired
  BY <1>2 DEF Revoke, HandlesOK, HandleFields
<1>3. HandlesOK(y)
  BY RevokeKept DEF Kept
<1>. QED
  BY <1>1, <1>2, <1>3 DEF SameSubs, SameRight

(* RXHandle.retire retires one handle, and no subscription.                *)
LEMMA RetireSubs ==
    ASSUME NEW x, HandlesOK(x), NEW h, NEW y, y = Retire(x, h)
    PROVE  SameSubs(x, y) /\ \A k \in Reqs \ {h} : y[k].retired = x[k].retired
<1>. DEFINE z == Revoke(x, h)
<1>1. SameSubs(x, z) /\ SameRight(x, z)
  BY RevokeSubs
<1>2. y = [z EXCEPT ![h].retired = TRUE]
  BY DEF Retire
<1>. HIDE DEF z
<1>3. DOMAIN y = Reqs /\ \A k \in Reqs : k # h => y[k] = z[k]
  BY <1>1, <1>2 DEF SameSubs, HandlesOK
<1>4. ASSUME h \in Reqs
      PROVE  y[h].gone = z[h].gone /\ y[h].remote = z[h].remote /\ y[h].bound = z[h].bound
  BY <1>1, <1>2, <1>4 DEF SameSubs, HandlesOK, HandleFields
<1>5. HandlesOK(y)
  BY RetireKept DEF Kept
<1>. QED
  BY <1>1, <1>3, <1>4, <1>5 DEF SameSubs, SameRight

(* Replacing the handle of the call retires the one it had.                *)
LEMMA ReplaceSubs ==
    ASSUME NEW x, HandlesOK(x), NEW h, NEW y, y = Replace(x, h)
    PROVE  /\ SameSubs(x, y)
           /\ \A k \in Reqs : k = h \/ k # current => y[k].retired = x[k].retired
<1>1. CASE current \in {None, h}
  BY <1>1 DEF Replace, SameSubs
<1>2. CASE current \notin {None, h}
  BY <1>2, RetireSubs DEF Replace
<1>. QED
  BY <1>1, <1>2

(* retireCallRX touches no subscription.                                   *)
LEMMA RetireCallSubs ==
    ASSUME NEW x, HandlesOK(x), NEW released \in BOOLEAN, NEW y, y = RetireCall(x, released)
    PROVE  SameSubs(x, y) /\ (~released => SameRight(x, y))
<1>1. \A h \in Reqs : \/ y[h] = x[h] 
                      \/ y[h] = Revoke(x, h)[h]
                      \/ released /\ y[h] = Retire(x, h)[h]
  BY DEF RetireCall
<1>2. \A h \in Reqs : /\ SameSubs(x, Revoke(x, h)) /\ SameRight(x, Revoke(x, h))
                      /\ SameSubs(x, Retire(x, h))
  BY RevokeSubs, RetireSubs
<1>3. HandlesOK(y)
  BY RetireCallKept DEF Kept
<1>. QED
  BY <1>1, <1>2, <1>3 DEF SameSubs, SameRight
-----------------------------------------------------------------------------
(* The ledger, step by step.                                               *)

(* A control goroutine goes on.                                            *)
LEMMA GoesOn ==
    ASSUME ControlsOK(go), NEW r \in Reqs, NEW v, go' = [go EXCEPT ![r].at = v]
    PROVE  /\ go'[r].at = v /\ go'[r].call = go[r].call /\ go'[r].got = go[r].got
           /\ go'[r].previous = go[r].previous
           /\ \A t \in Reqs \ {r} : go'[t] = go[t]
BY DEF ControlsOK, ControlFields

\* The RXSubscriptions stay, or are bound.
SubsStay ==
    \A h \in Reqs : /\ rx'[h].gone = rx[h].gone /\ rx'[h].remote = rx[h].remote
                    /\ rx[h].bound => rx'[h].bound

SameJobs(t) ==
    go'[t].call = go[t].call /\ go'[t].got = go[t].got /\ go'[t].previous = go[t].previous

(* A step that moves no job, and at most lets goroutines go on.            *)
LEMMA QuietKeeps ==
    ASSUME LInv, UNCHANGED <<urgent, executing, rust, lane>>, SubsStay,
           rust.state # "released" => \A t \in Reqs : SameJobs(t) /\ Onward(t)
    PROVE  LInv'
<1>1. JobsTyped'
  BY DEF LInv, JobsTyped
<1>2. ASSUME rust'.state # "released" PROVE Asked' /\ \A h \in Reqs : Ledger(h)'
  <2>1. Asked /\ (\A h \in Reqs : Ledger(h)) /\ \A t \in Reqs : SameJobs(t) /\ Onward(t)
    BY <1>2 DEF LInv, Ledgers
  <2>2. Asked'
    BY <2>1 DEF Asked, Questions, SubsStay
  <2>3. ASSUME NEW t \in Reqs PROVE Calm(t)
    <3>1. (Queued(t)' <=> Queued(t)) /\ (Executing(t)' <=> Executing(t))
          /\ (Exports(t)' <=> Exports(t)) /\ (Once(urgent, Job(t)) => Once(urgent, Job(t))')
      BY DEF Queued, Executing, Exports
    <3>2. rx'[t].gone = rx[t].gone /\ rx'[t].remote = rx[t].remote
      BY DEF SubsStay
    <3>. QED
      BY <2>1, <3>1, <3>2 DEF Calm, SameJobs
  <2>. QED
    BY <2>1, <2>2, <2>3, CalmAll
<1>. QED
  BY <1>1, <1>2 DEF LInv, Ledgers

(* A job joins the urgent queue.                                           *)
LEMMA JoinsQueue ==
    ASSUME LInv, NEW c \in Jobs, urgent' = Append(urgent, c), NEW x
    PROVE  /\ urgent' \in Seq(Jobs)
           /\ Occurs(urgent', x) <=> Occurs(urgent, x) \/ c = x
           /\ Once(urgent, x) /\ (c = x => ~Occurs(urgent, x)) => Once(urgent', x)
<1>. PICK p, q : q = urgent /\ p = urgent'
  OBVIOUS
<1>1. p \in Seq(Jobs) /\ Len(p) = Len(q) + 1 /\ Len(q) \in Nat
      /\ p[Len(q) + 1] = c /\ \A i \in 1..Len(q) : p[i] = q[i]
  BY DEF LInv, JobsTyped
<1>2. \A i : i \in 1..Len(p) <=> i \in 1..Len(q) \/ i = Len(q) + 1
  BY <1>1
<1>3. Occurs(p, x) <=> Occurs(q, x) \/ c = x
  BY <1>1, <1>2 DEF Occurs
<1>4. ASSUME Once(q, x), c = x => ~Occurs(q, x) PROVE Once(p, x)
  <2>1. SUFFICES ASSUME NEW i \in 1..Len(p), NEW j \in 1..Len(p), p[i] = x, p[j] = x PROVE i = j
    BY DEF Once
  <2>2. CASE i \in 1..Len(q) /\ j \in 1..Len(q)
    BY <1>1, <1>4, <2>1, <2>2 DEF Once
  <2>3. CASE i = Len(q) + 1
    BY <1>1, <1>2, <1>4, <2>1, <2>3 DEF Occurs
  <2>4. CASE j = Len(q) + 1
    BY <1>1, <1>2, <1>4, <2>1, <2>4 DEF Occurs
  <2>. QED
    BY <1>2, <2>2, <2>3, <2>4
<1>. QED
  BY <1>1, <1>3, <1>4

(* A question, or the release, joins the queue.                            *)
LEMMA AppendKeeps ==
    ASSUME LInv, NEW j \in Questions \cup {Release}, urgent' = Append(urgent, j),
           j \in Questions => rx[j.id].bound,
           UNCHANGED <<executing, rust, lane, go>>, SameSubs(rx, rx')
    PROVE  LInv'
<1>1. j \in Jobs /\ urgent \in Seq(Jobs)
  BY DEF LInv, JobsTyped, Jobs
<1>2. ASSUME NEW x
      PROVE  /\ urgent' \in Seq(Jobs)
             /\ Occurs(urgent', x) <=> Occurs(urgent, x) \/ j = x
             /\ Once(urgent, x) /\ (j = x => ~Occurs(urgent, x)) => Once(urgent', x)
  BY <1>1, JoinsQueue
<1>3. JobsTyped'
  BY <1>2 DEF LInv, JobsTyped
<1>4. ASSUME rust'.state # "released" PROVE Asked' /\ \A h \in Reqs : Ledger(h)'
  <2>1. Asked /\ \A h \in Reqs : Ledger(h)
    BY <1>4 DEF LInv, Ledgers
  <2>2. Asked'
    BY <1>2, <2>1 DEF Asked, Questions, SameSubs
  <2>3. ASSUME NEW t \in Reqs PROVE Calm(t)
    <3>1. j # Job(t)
      BY DEF Job, Questions, Release
    <3>2. (Queued(t)' <=> Queued(t)) /\ (Once(urgent, Job(t)) => Once(urgent, Job(t))')
      BY <1>2, <3>1 DEF Queued
    <3>3. (Executing(t)' <=> Executing(t)) /\ (Exports(t)' <=> Exports(t))
      BY DEF Executing, Exports
    <3>4. rx'[t].gone = rx[t].gone /\ rx'[t].remote = rx[t].remote
      BY DEF SameSubs
    <3>. QED
      BY <3>2, <3>3, <3>4 DEF Calm, Onward
  <2>. QED
    BY <2>1, <2>2, <2>3, CalmAll
<1>. QED
  BY <1>3, <1>4 DEF LInv, Ledgers

(* The caller revokes at most.                                             *)
LEMMA CallerLedger ==
    ASSUME LInv, IInv, NEW r \in Reqs,
           \/ \E id \in 1..MaxId : Subscribe(r, id)
           \/ CancelContext(r) \/ Receive(r) \/ GiveUp(r) \/ Leave(r)
    PROVE  LInv'
<1>1. HandlesOK(rx)
  BY DEF IInv
<1>2. rx' = rx \/ \E h : rx' = Revoke(rx, h)
  BY DEF Subscribe, CancelContext, Receive, GiveUp, Leave
<1>3. SameSubs(rx, rx')
  BY <1>1, <1>2, RevokeSubs DEF SameSubs
<1>4. UNCHANGED <<urgent, executing, rust, lane, go>>
  BY DEF Subscribe, CancelContext, Receive, GiveUp, Leave, callerVars
<1>. QED
  BY <1>3, <1>4, QuietKeeps DEF SubsStay, SameSubs, SameJobs, Onward

(* What handleRXSubscribeResult does to the handles.                       *)
LEMMA ResultSubs ==
    ASSUME IInv, NEW r \in Reqs, SubscribeResult(r)
    PROVE  /\ SameSubs(rx, rx')
           /\ rx[r].bound => /\ current' = r
                             /\ \A k \in Reqs : k = r \/ k # current => rx'[k].retired = rx[k].retired
           /\ ~rx[r].bound => /\ current' = current
                              /\ \A k \in Reqs \ {r} : rx'[k].retired = rx[k].retired
<1>1. HandlesOK(rx)
  BY DEF IInv
<1>2. CASE NothingSubscribed(r)
  BY <1>1, <1>2, RetireSubs DEF NothingSubscribed
<1>3. CASE OutcomeUnknown(r) \/ SubscribedInVain(r)
  <2>1. PICK z : z = Revoke(rx, r)
    OBVIOUS
  <2>2. SameSubs(rx, z) /\ SameRight(rx, z) /\ HandlesOK(z)
    BY <1>1, <2>1, RevokeSubs DEF SameSubs
  <2>3. rx' = Replace(z, r) /\ current' = r /\ rx[r].bound
    BY <1>3, <2>1 DEF OutcomeUnknown, SubscribedInVain
  <2>4. SameSubs(z, rx') /\ \A k \in Reqs : k = r \/ k # current => rx'[k].retired = z[k].retired
    BY <2>2, <2>3, ReplaceSubs
  <2>. QED
    BY <2>2, <2>3, <2>4 DEF SameSubs, SameRight
<1>4. CASE Subscribed(r)
  <2>1. PICK z : z = Replace(rx, r)
    OBVIOUS
  <2>2. SameSubs(rx, z) /\ HandlesOK(z)
        /\ \A k \in Reqs : k = r \/ k # current => z[k].retired = rx[k].retired
    BY <1>1, <2>1, ReplaceSubs DEF SameSubs
  <2>3. PICK y : y = [z EXCEPT ![r].authorized = ~rx[r].closed]
    OBVIOUS
  <2>4. current' = r /\ rx[r].bound /\ (rx' = y \/ rx' = Revoke(y, r))
    BY <1>4, <2>1, <2>3 DEF Subscribed
  <2>5. DOMAIN y = Reqs /\ \A k \in Reqs : k # r => y[k] = z[k]
    BY <2>2, <2>3 DEF HandlesOK
  <2>6. /\ DOMAIN y[r] = HandleFields /\ y[r].bound = z[r].bound /\ y[r].closed = z[r].closed
        /\ y[r].deaf = z[r].deaf /\ y[r].gone = z[r].gone /\ y[r].remote = z[r].remote
        /\ y[r].retired = z[r].retired
    BY <2>2, <2>3 DEF HandlesOK, HandleFields
  <2>7. SameSubs(z, y) /\ SameRight(z, y) /\ HandlesOK(y)
    BY <2>2, <2>5, <2>6 DEF SameSubs, SameRight, HandlesOK
  <2>8. SameSubs(y, rx') /\ SameRight(y, rx')
    BY <2>4, <2>7, RevokeSubs DEF SameSubs, SameRight
  <2>. QED
    BY <2>2, <2>4, <2>7, <2>8 DEF SameSubs, SameRight
<1>. QED
  BY <1>2, <1>3, <1>4 DEF SubscribeResult

(* The call loop.                                                          *)
LEMMA LoopLedger ==
    ASSUME LInv, IInv, NEW r \in Reqs,
           \/ RefuseSubscribe(r) \/ SameSubscription(r) \/ PublishSubscribe(r)
           \/ StartControl(r) \/ SubscribeResult(r)
    PROVE  LInv'
<1>1. HandlesOK(rx) /\ ControlsOK(go)
  BY DEF IInv
<1>2. UNCHANGED <<urgent, executing, rust, lane>>
  BY DEF RefuseSubscribe, SameSubscription, PublishSubscribe, StartControl, SubscribeResult,
         loopVars
<1>3. CASE RefuseSubscribe(r) \/ SameSubscription(r) \/ PublishSubscribe(r)
  BY <1>1, <1>2, <1>3, QuietKeeps
  DEF RefuseSubscribe, SameSubscription, PublishSubscribe, SubsStay, SameJobs, Onward
<1>4. CASE StartControl(r)
  <2>1. SameSubs(rx, rx')
    BY <1>1, <1>4, RetireSubs DEF StartControl, SameSubs
  <2>2. go[r].at = "none" /\ (go' = go \/ go' = [go EXCEPT ![r].at = "job"])
    BY <1>4 DEF StartControl, IInv, Unstarted
  <2>3. \A t \in Reqs : SameJobs(t) /\ Onward(t)
    BY <1>1, <2>2, GoesOn DEF SubsStay, SameSubs, SameJobs, Onward
  <2>. QED
    BY <1>2, <2>1, <2>3, QuietKeeps DEF SubsStay, SameSubs
<1>5. CASE SubscribeResult(r)
  <2>1. SameSubs(rx, rx')
    BY <1>5, ResultSubs
  <2>2. go[r].at = "posted" /\ go' = [go EXCEPT ![r].at = "done"]
    BY <1>5 DEF SubscribeResult
  <2>3. ASSUME rust.state # "released" PROVE \A t \in Reqs : SameJobs(t) /\ Onward(t)
    <3>1. ~(Queued(r) /\ go[r].call = 0)
      BY <2>2, <2>3 DEF LInv, Ledgers, Ledger, Placement
    <3>. QED
      BY <1>1, <2>2, <3>1, GoesOn DEF SubsStay, SameSubs, SameJobs, Onward, Early
  <2>. QED
    BY <1>2, <2>1, <2>3, QuietKeeps DEF SubsStay, SameSubs
<1>. QED
  BY <1>3, <1>4, <1>5

(* The end of the call.                                                    *)
LEMMA EndLedger ==
    ASSUME LInv, IInv, Finish \/ ReleaseRetry \/ ReleaseResult \/ WorkerFailed
    PROVE  LInv'
<1>1. HandlesOK(rx)
  BY DEF IInv
<1>2. rx' = rx \/ \E released \in BOOLEAN : rx' = RetireCall(rx, released)
  BY DEF Finish, ReleaseRetry, ReleaseResult, WorkerFailed
<1>3. SameSubs(rx, rx')
  BY <1>1, <1>2, RetireCallSubs DEF SameSubs
<1>4. UNCHANGED <<executing, rust, lane, go>>
  BY DEF Finish, ReleaseRetry, ReleaseResult, WorkerFailed, endVars
<1>5. urgent' = urgent \/ urgent' = Append(urgent, Release)
  BY DEF Finish, ReleaseRetry, ReleaseResult, WorkerFailed, SubmitRelease, Release
<1>6. CASE urgent' = urgent
  BY <1>3, <1>4, <1>6, QuietKeeps DEF SubsStay, SameSubs, SameJobs, Onward
<1>7. CASE urgent' = Append(urgent, Release)
  <2>1. Release \notin Questions
    BY DEF Release, Questions
  <2>. QED
    BY <1>3, <1>4, <1>7, <2>1, AppendKeeps
<1>. QED
  BY <1>5, <1>6, <1>7

(* The owner of a handle.                                                  *)
LEMMA OwnerLedger == ASSUME LInv, IInv, OwnerNext PROVE LInv'
<1>1. HandlesOK(rx)
  BY DEF IInv
<1>2. UNCHANGED <<executing, rust, lane, go>>
  BY DEF OwnerNext, Observe, Ask, ownerVars
<1>3. PICK h \in Reqs : Observe(h) \/ \E op \in {"status", "unsubscribe"} : Ask(h, op)
  BY DEF OwnerNext
<1>4. SameSubs(rx, rx')
  <2>1. PICK z : /\ SameSubs(rx, z) /\ HandlesOK(z)
                 /\ rx' = [z EXCEPT ![h].terminal = TRUE] \/ rx' = [z EXCEPT ![h].busy = TRUE]
    <3>1. SameSubs(rx, rx) /\ SameSubs(rx, Revoke(rx, h)) /\ HandlesOK(Revoke(rx, h))
      BY <1>1, RevokeSubs DEF SameSubs
    <3>2. \/ rx' = [Revoke(rx, h) EXCEPT ![h].terminal = TRUE]
          \/ rx' = [Revoke(rx, h) EXCEPT ![h].busy = TRUE]
          \/ rx' = [rx EXCEPT ![h].busy = TRUE]
      BY <1>3 DEF Observe, Ask
    <3>. QED
      BY <1>1, <3>1, <3>2
  <2>2. DOMAIN rx' = Reqs /\ \A k \in Reqs : k # h => rx'[k] = z[k]
    BY <2>1 DEF HandlesOK
  <2>3. DOMAIN rx'[h] = HandleFields /\ rx'[h].bound = z[h].bound /\ rx'[h].gone = z[h].gone
        /\ rx'[h].remote = z[h].remote /\ rx'[h].closed = z[h].closed /\ rx'[h].deaf = z[h].deaf
    BY <2>1 DEF HandlesOK, HandleFields
  <2>. QED
    BY <2>1, <2>2, <2>3 DEF SameSubs, HandlesOK
<1>5. CASE Observe(h)
  BY <1>2, <1>4, <1>5, QuietKeeps DEF Observe, SubsStay, SameSubs, SameJobs, Onward
<1>6. ASSUME NEW op \in {"status", "unsubscribe"}, Ask(h, op) PROVE LInv'
  <2>1. urgent' = Append(urgent, [op |-> op, id |-> h]) /\ rx[h].bound
    BY <1>6 DEF Ask
  <2>2. [op |-> op, id |-> h] \in Questions
    BY DEF Questions
  <2>. QED
    BY <1>2, <1>4, <2>1, <2>2, AppendKeeps
<1>. QED
  BY <1>3, <1>5, <1>6
-----------------------------------------------------------------------------
(* The control goroutines, step by step.                                   *)

(* A goroutine changes its own record only.                                *)
LEMMA GoEdit ==
    ASSUME ControlsOK(go), NEW r \in Reqs, NEW g, DOMAIN g = ControlFields,
           go' = [go EXCEPT ![r] = g]
    PROVE  go'[r] = g /\ \A t \in Reqs \ {r} : go'[t] = go[t]
BY DEF ControlsOK

(* A step about r that only lets other jobs disappear.                     *)
Aside(t) ==
    /\ go'[t] = go[t]
    /\ Queued(t)' => Queued(t)
    /\ Once(urgent, Job(t)) => Once(urgent, Job(t))'
    /\ Executing(t)' => Executing(t)
    /\ rust'.sub = t => rust.sub = t
    /\ Exports(t)' => Exports(t)
    /\ rx'[t].gone => rx[t].gone \/ Settled(t)
    /\ rx'[t].remote = rx[t].remote
    /\ lane = t /\ (~Dead(t) \/ go[t].at = "registered") => lane' = t
(* Such a step is calm.                                                    *)
LEMMA AsideCalm == ASSUME NEW t, Aside(t) PROVE Calm(t)
BY DEF Aside, Calm, Onward

(* The lane accepts a candidate only when the one it knows is over.        *)
LEMMA RegisterLedger ==
    ASSUME LInv, IInv, NEW r \in Reqs, Register(r)
    PROVE  LInv'
<1>1. HandlesOK(rx) /\ ControlsOK(go)
  BY DEF IInv
<1>2. UNCHANGED <<urgent, executing, rust>> /\ go[r].at = "job"
  BY DEF Register, goVars
<1>3. JobsTyped'
  BY <1>2 DEF LInv, JobsTyped
<1>4. /\ \A t \in Reqs \ {r} : go'[t] = go[t] /\ rx'[t] = rx[t]
      /\ go'[r].call = go[r].call /\ go'[r].got = go[r].got
      /\ rx'[r].remote = rx[r].remote /\ rx'[r].bound = rx[r].bound
  BY <1>1 DEF Register, ControlsOK, ControlFields, HandlesOK, HandleFields
<1>5. \/ /\ go'[r].at = "returned" /\ go'[r].previous = go[r].previous
         /\ UNCHANGED <<rx, lane>>
      \/ /\ go'[r].at = "registered" /\ go'[r].previous = lane /\ lane' = r
         /\ ~rx'[r].gone /\ (lane # None => Confirmed(lane))
  BY <1>1 DEF Register, ControlsOK, ControlFields, HandlesOK, HandleFields
<1>6. ASSUME rust'.state # "released" PROVE Asked' /\ \A h \in Reqs : Ledger(h)'
  <2>1. Asked /\ \A h \in Reqs : Ledger(h)
    BY <1>2, <1>6 DEF LInv, Ledgers
  <2>2. Asked'
    BY <1>2, <1>4, <2>1 DEF Asked, Questions
  <2>3. Fresh(r) /\ Dead(r) /\ Once(urgent, Job(r)) /\ ~Settled(r) /\ ~Over(rx[r].remote)
    BY <1>2, <2>1 DEF Ledger, Placement, Early, Fresh, Dead, Exports, Settled
  <2>4. \A h \in Reqs : /\ Queued(h)' <=> Queued(h)
                        /\ Executing(h)' <=> Executing(h)
                        /\ Exports(h)' <=> Exports(h)
                        /\ Once(urgent, Job(h))' <=> Once(urgent, Job(h))
    BY <1>2 DEF Queued, Executing, Exports
  <2>5. ASSUME NEW t \in Reqs, lane # None => Confirmed(lane), lane = t PROVE Settled(t)
    BY <2>1, <2>5, RxAssumption DEF Confirmed, Ledger, Reqs
  <2>6. ASSUME NEW t \in Reqs \ {r} PROVE Calm(t)
    <3>1. Aside(t)
      BY <1>2, <1>4, <1>5, <2>4, <2>5 DEF Aside, Settled, Early
    <3>. QED
      BY <3>1, AsideCalm
  <2>7. Fresh(r)' /\ Dead(r)' /\ ~Over(rx'[r].remote)
    BY <1>2, <1>4, <2>3, <2>4 DEF Fresh, Dead, Over
  <2>8. Placement(r)'
    BY <1>2, <2>3, <2>4, <2>7 DEF Placement, Fresh
  <2>9. ASSUME \A b \in Reqs : Settled(b) => Settled(b)' PROVE Ledger(r)'
    <3>1. \A b \in Reqs : go'[r].previous = b => Settled(b)'
      BY <1>5, <2>1, <2>5, <2>9 DEF Ledger
    <3>2. rx'[r].gone => go'[r].at # "registered"
      BY <1>5
    <3>3. go'[r].at = "registered" => lane' = r
      BY <1>5
    <3>. QED
      BY <2>7, <2>8, <3>1, <3>2, <3>3 DEF Ledger
  <2>. QED
    BY <2>1, <2>2, <2>3, <2>6, <2>9, CalmButOne
<1>. QED
  BY <1>3, <1>6 DEF LInv, Ledgers

(* The candidate is rolled back, or its job joins the queue.               *)
LEMMA EnqueueLedger ==
    ASSUME LInv, IInv, NEW r \in Reqs, Enqueue(r)
    PROVE  LInv'
<1>1. HandlesOK(rx) /\ ControlsOK(go)
  BY DEF IInv
<1>2. UNCHANGED <<executing, rust>> /\ go[r].at = "registered"
  BY DEF Enqueue, goVars
<1>3. /\ \A t \in Reqs \ {r} : go'[t] = go[t] /\ rx'[t] = rx[t]
      /\ go'[r].call = go[r].call /\ go'[r].got = go[r].got /\ go'[r].previous = go[r].previous
      /\ rx'[r].remote = rx[r].remote /\ rx'[r].bound = rx[r].bound
  BY <1>1
  DEF Enqueue, Rollback, RetireSub, ControlsOK, ControlFields, HandlesOK, HandleFields
<1>4. \/ go'[r].at = "returned" /\ urgent' = urgent /\ lane' = LaneAfterRollback(r)
      \/ go'[r].at = "waiting" /\ urgent' = Append(urgent, Job(r)) /\ UNCHANGED <<rx, lane>>
  BY <1>1 DEF Enqueue, ControlsOK, ControlFields, Job
<1>5. urgent \in Seq(Jobs) /\ Job(r) \in Jobs
  BY DEF LInv, JobsTyped, Jobs, Job
<1>6. ASSUME NEW x
      PROVE  /\ Occurs(urgent', x) => Occurs(urgent, x) \/ x = Job(r)
             /\ Once(urgent, x) /\ (x = Job(r) => ~Occurs(urgent, x)) => Once(urgent', x)
  BY <1>4, <1>5, JoinsQueue
<1>7. JobsTyped'
  BY <1>2, <1>4, <1>5 DEF LInv, JobsTyped
<1>8. ASSUME rust'.state # "released" PROVE Asked' /\ \A h \in Reqs : Ledger(h)'
  <2>1. Asked /\ \A h \in Reqs : Ledger(h)
    BY <1>2, <1>8 DEF LInv, Ledgers
  <2>2. Asked'
    <3>1. Job(r) \notin Questions
      BY DEF Job, Questions
    <3>. QED
      BY <1>3, <1>6, <2>1, <3>1 DEF Asked, Questions
  <2>3. /\ Fresh(r) /\ Once(urgent, Job(r)) /\ ~Settled(r) /\ ~Over(rx[r].remote)
        /\ lane = r /\ ~rx[r].gone /\ \A b \in Reqs : go[r].previous = b => Settled(b)
    BY <1>2, <2>1 DEF Ledger, Placement, Early, Settled
  <2>4. \A h \in Reqs : (Executing(h)' <=> Executing(h)) /\ (Exports(h)' <=> Exports(h))
    BY <1>2 DEF Executing, Exports
  <2>5. ASSUME NEW t \in Reqs \ {r} PROVE Calm(t)
    <3>1. Job(t) # Job(r)
      BY DEF Job
    <3>2. (Queued(t)' => Queued(t)) /\ (Once(urgent, Job(t)) => Once(urgent, Job(t))')
      BY <1>6, <3>1 DEF Queued
    <3>3. lane # t
      BY <2>3
    <3>4. Aside(t)
      BY <1>2, <1>3, <2>4, <3>2, <3>3 DEF Aside
    <3>. QED
      BY <3>4, AsideCalm
  <2>6. Once(urgent, Job(r))'
    BY <1>6, <2>3 DEF Fresh, Queued
  <2>7. Queued(r)' => go'[r].at = "waiting"
    BY <1>4, <2>3 DEF Fresh, Queued
  <2>8. ~Executing(r)' /\ rust'.sub # r /\ ~Exports(r)' /\ go'[r].call = 0 /\ go'[r].got = None
    BY <1>2, <1>3, <2>3, <2>4 DEF Fresh, Exports
  <2>9. go'[r].at \notin Early /\ go'[r].at # "registered"
    BY <1>4 DEF Early
  <2>10. Placement(r)'
    BY <2>6, <2>7, <2>8, <2>9 DEF Placement
  <2>11. rx'[r].gone => Dead(r)'
    BY <1>4, <2>3, <2>8 DEF Dead, Fresh, Queued
  <2>12. ~Dead(r)' => lane' = r
    BY <1>4, <2>3, <2>8 DEF Dead, Fresh, Queued
  <2>13. ASSUME \A b \in Reqs : Settled(b) => Settled(b)' PROVE Ledger(r)'
    BY <1>3, <2>3, <2>9, <2>10, <2>11, <2>12, <2>13 DEF Ledger, Over
  <2>. QED
    BY <2>1, <2>2, <2>3, <2>5, <2>13, CalmButOne
<1>. QED
  BY <1>7, <1>8 DEF LInv, Ledgers
(* A cancellation that wins keeps the job from ever being executed.        *)
LEMMA CancelLedger ==
    ASSUME LInv, IInv, NEW r \in Reqs, CancelJob(r)
    PROVE  LInv'
<1>1. HandlesOK(rx) /\ ControlsOK(go)
  BY DEF IInv
<1>2. UNCHANGED <<urgent, executing, rust>> /\ go[r].at = "waiting"
  BY DEF CancelJob, goVars
<1>3. /\ \A t \in Reqs \ {r} : go'[t] = go[t] /\ rx'[t] = rx[t]
      /\ go'[r].at = "returned" /\ go'[r].got = go[r].got /\ go'[r].previous = go[r].previous
      /\ rx'[r].remote = rx[r].remote /\ rx'[r].bound = rx[r].bound
  BY <1>1
  DEF CancelJob, Rollback, RetireSub, ControlsOK, ControlFields, HandlesOK, HandleFields
<1>4. \/ go[r].call # 0 /\ go'[r].call = go[r].call /\ UNCHANGED <<rx, lane>>
      \/ go[r].call = 0 /\ go'[r].call = 2 /\ lane' = LaneAfterRollback(r)
  BY <1>1 DEF CancelJob, WinsCancellation, ControlsOK, ControlFields
<1>5. JobsTyped'
  BY <1>2 DEF LInv, JobsTyped
<1>6. ASSUME rust'.state # "released" PROVE Asked' /\ \A h \in Reqs : Ledger(h)'
  <2>1. Asked /\ \A h \in Reqs : Ledger(h)
    BY <1>2, <1>6 DEF LInv, Ledgers
  <2>2. Asked'
    BY <1>2, <1>3, <2>1 DEF Asked, Questions
  <2>3. \A h \in Reqs : /\ Queued(h)' <=> Queued(h)
                        /\ Executing(h)' <=> Executing(h)
                        /\ Exports(h)' <=> Exports(h)
                        /\ Once(urgent, Job(h))' <=> Once(urgent, Job(h))
    BY <1>2 DEF Queued, Executing, Exports
  <2>4. ASSUME NEW t \in Reqs \ {r} PROVE Calm(t)
    <3>1. lane = t => lane' = t
      BY <1>4 DEF LaneAfterRollback
    <3>2. Aside(t)
      BY <1>2, <1>3, <2>3, <3>1 DEF Aside
    <3>. QED
      BY <3>2, AsideCalm
  <2>5. Placement(r) /\ (Dead(r) => Dead(r)') /\ (go[r].call = 0 => Dead(r)')
    BY <1>2, <1>4, <2>1, <2>3 DEF Ledger, Placement, Dead, Exports
  <2>6. Placement(r)'
    BY <1>2, <1>3, <1>4, <2>3, <2>5 DEF Placement, Early
  <2>7. Settled(r) => Settled(r)'
    BY <1>3, <2>5 DEF Settled, Early
  <2>8. rx'[r].gone => Dead(r)'
    BY <1>4, <2>1, <2>5 DEF Ledger
  <2>9. ~Dead(r)' => lane' = r
    BY <1>4, <2>1, <2>5 DEF Ledger
  <2>10. Over(rx'[r].remote) => Settled(r)'
    BY <1>3, <2>1, <2>7 DEF Ledger
  <2>11. ASSUME \A b \in Reqs : Settled(b) => Settled(b)' PROVE Ledger(r)'
    BY <1>3, <2>1, <2>6, <2>8, <2>9, <2>10, <2>11 DEF Ledger, Over
  <2>. QED
    BY <2>1, <2>2, <2>4, <2>7, <2>11, CalmButOne
<1>. QED
  BY <1>5, <1>6 DEF LInv, Ledgers

(* The control goroutine.                                                  *)
LEMMA ControlLedger ==
    ASSUME LInv, IInv, NEW r \in Reqs,
           \/ Register(r) \/ Enqueue(r) \/ Answered(r) \/ TimesOut(r) \/ CancelJob(r)
           \/ Bind(r) \/ BindChecks(r)
    PROVE  LInv'
<1>1. HandlesOK(rx) /\ ControlsOK(go)
  BY DEF IInv
<1>2. CASE Answered(r) \/ TimesOut(r) \/ Bind(r) \/ BindChecks(r)
  <2>1. UNCHANGED <<urgent, executing, rust, lane>>
    BY <1>2 DEF Answered, TimesOut, Bind, BindChecks, goVars
  <2>2. SubsStay
    BY <1>1, <1>2
    DEF Answered, TimesOut, Bind, BindChecks, Looked, SubsStay, HandlesOK, HandleFields
  <2>3. /\ \A t \in Reqs \ {r} : go'[t] = go[t]
        /\ go'[r].call = go[r].call /\ go'[r].got = go[r].got /\ go'[r].previous = go[r].previous
    BY <1>1, <1>2 DEF Answered, TimesOut, Bind, BindChecks, ControlsOK, ControlFields
  <2>4. \/ go'[r].at = go[r].at
        \/ /\ go[r].at \notin Early /\ go'[r].at \notin Early
           /\ go[r].got # None \/ go[r].at # "waiting"
    BY <1>1, <1>2 DEF Answered, TimesOut, Bind, BindChecks, ControlsOK, ControlFields, Early
  <2>5. ASSUME rust.state # "released" PROVE \A t \in Reqs : SameJobs(t) /\ Onward(t)
    <3>1. Queued(r) /\ go[r].call = 0 => go[r].at = "waiting" /\ go[r].got = None
      BY <2>5 DEF LInv, Ledgers, Ledger, Placement
    <3>. QED
      BY <2>3, <2>4, <3>1 DEF SameJobs, Onward
  <2>. QED
    BY <2>1, <2>2, <2>5, QuietKeeps
<1>. QED
  BY <1>2, RegisterLedger, EnqueueLedger, CancelLedger

-----------------------------------------------------------------------------
(* The worker, step by step.                                               *)

\* The candidate certainly does not exist.
Certain(r, answer) == answer = "error" \/ go[r].call = 2

(* finish of a job: a candidate that certainly does not exist is rolled    *)
(* back, any other retires the one before it.                              *)
LEMMA FinishedOn ==
    ASSUME IInv, NEW r \in Reqs, NEW answer, Finished(r, answer)
    PROVE  /\ \A t \in Reqs \ {r} : go'[t] = go[t] /\ rx'[t].remote = rx[t].remote
           /\ go'[r].at = go[r].at /\ go'[r].call = go[r].call /\ go'[r].previous = go[r].previous
           /\ go'[r].got = answer
           /\ rx'[r].remote = IF answer = "active" THEN answer ELSE rx[r].remote
           /\ \A h \in Reqs : rx'[h].bound = rx[h].bound
           /\ Certain(r, answer) => /\ lane' = LaneAfterRollback(r)
                                    /\ \A h \in Reqs \ {r} : rx'[h].gone = rx[h].gone
           /\ ~Certain(r, answer) =>
                /\ lane' = lane
                /\ \A h \in Reqs : rx'[h].gone => rx[h].gone \/ h = go[r].previous
<1>. DEFINE m == IF answer = "active" THEN answer ELSE rx[r].remote
            x == [rx EXCEPT ![r].busy = FALSE, ![r].remote = m]
<1>1. HandlesOK(rx) /\ ControlsOK(go)
  BY DEF IInv
<1>2. go' = [go EXCEPT ![r].got = answer]
  BY DEF Finished
<1>3. /\ \A t \in Reqs \ {r} : go'[t] = go[t]
      /\ go'[r].at = go[r].at /\ go'[r].call = go[r].call /\ go'[r].previous = go[r].previous
      /\ go'[r].got = answer
  BY <1>1, <1>2 DEF ControlsOK, ControlFields
<1>4. DOMAIN x = Reqs /\ \A t \in Reqs \ {r} : x[t] = rx[t]
  BY <1>1 DEF HandlesOK
<1>5. DOMAIN x[r] = HandleFields /\ x[r].remote = m /\ x[r].bound = rx[r].bound
      /\ x[r].gone = rx[r].gone
  BY <1>1 DEF HandlesOK, HandleFields
<1>6. /\ Certain(r, answer) => rx' = RetireSub(x, r) /\ lane' = LaneAfterRollback(r)
      /\ ~Certain(r, answer) =>
           /\ rx' = IF go[r].previous = None THEN x ELSE RetireSub(x, go[r].previous)
           /\ lane' = lane
  BY DEF Finished, Certain, Rollback
<1>. HIDE DEF x
<1>7. ASSUME NEW b, NEW y, y = RetireSub(x, b)
      PROVE  \A h \in Reqs : /\ y[h].remote = x[h].remote /\ y[h].bound = x[h].bound
                             /\ h # b => y[h].gone = x[h].gone
  BY <1>1, <1>4, <1>5, <1>7 DEF RetireSub, HandlesOK, HandleFields
<1>8. \A h \in Reqs : rx'[h].remote = x[h].remote /\ rx'[h].bound = x[h].bound
  BY <1>6, <1>7
<1>9. Certain(r, answer) => \A h \in Reqs \ {r} : rx'[h].gone = x[h].gone
  BY <1>6, <1>7
<1>10. ~Certain(r, answer) => \A h \in Reqs : rx'[h].gone => x[h].gone \/ h = go[r].previous
  BY <1>6, <1>7
<1>. QED
  BY <1>3, <1>4, <1>5, <1>6, <1>8, <1>9, <1>10
(* A job is finished: it is in the queue or with the worker no more.       *)
LEMMA FinishLedger ==
    ASSUME IInv, \A h \in Reqs : Ledger(h), NEW r \in Reqs, NEW answer, Finished(r, answer),
           go[r].at \notin Early, ~Queued(r)', ~Executing(r)', Once(urgent, Job(r))',
           \A t \in Reqs \ {r} : /\ Queued(t)' => Queued(t)
                                 /\ Once(urgent, Job(t)) => Once(urgent, Job(t))'
                                 /\ Executing(t)' => Executing(t),
           rust.sub # r, ~Certain(r, answer) => ~Dead(r),
           \/ answer # "active" /\ rust' = rust
           \/ answer = "active" /\ go[r].call = 1 /\ rust' = [sub |-> r, state |-> "active"]
    PROVE  \A h \in Reqs : Ledger(h)'
<1>1. /\ \A t \in Reqs \ {r} : go'[t] = go[t] /\ rx'[t].remote = rx[t].remote
      /\ go'[r].at = go[r].at /\ go'[r].call = go[r].call /\ go'[r].previous = go[r].previous
      /\ rx'[r].remote = IF answer = "active" THEN answer ELSE rx[r].remote
      /\ Certain(r, answer) => /\ lane' = LaneAfterRollback(r)
                               /\ \A h \in Reqs \ {r} : rx'[h].gone = rx[h].gone
      /\ ~Certain(r, answer) => /\ lane' = lane
                                /\ \A h \in Reqs : rx'[h].gone => rx[h].gone \/ h = go[r].previous
  BY FinishedOn
<1>2. \A b \in Reqs : go[r].previous = b => Settled(b)
  BY DEF Ledger
<1>3. \A t \in Reqs \ {r} : (rust'.sub = t => rust.sub = t) /\ (Exports(t)' => Exports(t))
  BY DEF Exports
<1>4. ASSUME NEW t \in Reqs \ {r} PROVE Calm(t)
  <2>1. rx'[t].gone => rx[t].gone \/ Settled(t)
    BY <1>1, <1>2
  <2>2. lane = t => lane' = t
    BY <1>1 DEF LaneAfterRollback
  <2>3. Aside(t)
    BY <1>1, <1>3, <2>1, <2>2 DEF Aside
  <2>. QED
    BY <2>3, AsideCalm
<1>5. rust'.sub = r => go'[r].call = 1
  BY <1>1
<1>6. Placement(r)'
  BY <1>1, <1>5 DEF Placement
<1>7. CASE Certain(r, answer)
  <2>1. rust' = rust /\ answer # "active"
    BY <1>7 DEF Certain
  <2>2. Dead(r)'
    BY <2>1 DEF Dead, Exports
  <2>3. Settled(r)' /\ go'[r].at # "registered"
    BY <1>1, <2>2 DEF Settled, Early
  <2>4. ASSUME \A b \in Reqs : Settled(b) => Settled(b)' PROVE Ledger(r)'
    BY <1>1, <1>2, <1>6, <2>2, <2>3, <2>4 DEF Ledger
  <2>. QED
    BY <1>4, <2>3, <2>4, CalmButOne
<1>8. CASE ~Certain(r, answer)
  <2>1. ~Dead(r) /\ ~Settled(r) /\ lane = r /\ ~rx[r].gone /\ ~Over(rx[r].remote) /\ go[r].previous # r
    BY <1>2, <1>8 DEF Ledger, Settled
  <2>2. ~rx'[r].gone /\ lane' = r
    BY <1>1, <1>8, <2>1
  <2>3. ~Over(rx'[r].remote)
    BY <1>1, <2>1 DEF Over
  <2>4. ASSUME \A b \in Reqs : Settled(b) => Settled(b)' PROVE Ledger(r)'
    BY <1>1, <1>2, <1>6, <2>2, <2>3, <2>4 DEF Ledger, Over
  <2>. QED
    BY <1>4, <2>1, <2>4, CalmButOne
<1>. QED
  BY <1>7, <1>8

(* A job leaves the queue.                                                 *)
LEMMA TakenFacts ==
    ASSUME LInv, urgent # <<>>, urgent' = Tail(urgent), NEW x
    PROVE  /\ urgent' \in Seq(Jobs) /\ Head(urgent) \in Jobs
           /\ Head(urgent) = x => Occurs(urgent, x)
           /\ Occurs(urgent', x) => Occurs(urgent, x)
           /\ Once(urgent, x) => Once(urgent', x) /\ (Head(urgent) = x => ~Occurs(urgent', x))
<1>1. urgent \in Seq(Jobs)
  BY DEF LInv, JobsTyped
<1>. QED
  BY <1>1, TailOccurs

(* It names the subscription it is for.                                    *)
LEMMA TakenJob ==
    ASSUME LInv, urgent # <<>>, Head(urgent).op = "subscribe"
    PROVE  Head(urgent).id \in Reqs /\ Head(urgent) = Job(Head(urgent).id)
<1>1. Head(urgent) \in Jobs
  BY DEF LInv, JobsTyped
<1>. QED
  BY <1>1 DEF Jobs, Questions, Release, Job

(* The questions in the queue are asked by owners as before.               *)
LEMMA AskedStays ==
    ASSUME Asked, \A x : Occurs(urgent', x) => Occurs(urgent, x),
           \A h \in Reqs : rx'[h].bound = rx[h].bound
    PROVE  Asked'
BY DEF Asked, Questions

(* A cancelled job is dropped.                                             *)
LEMMA DropLedger == ASSUME LInv, IInv, DropJob PROVE LInv'
<1>1. PICK r : r = Head(urgent).id
  OBVIOUS
<1>2. /\ urgent # <<>> /\ urgent' = Tail(urgent) /\ executing = None /\ executing' = executing
      /\ rust' = rust /\ r \in Reqs /\ Head(urgent) = Job(r)
      /\ go[r].call = 2 /\ Finished(r, "error")
  BY <1>1, TakenJob DEF DropJob
<1>3. JobsTyped'
  BY <1>2, TakenFacts DEF LInv, JobsTyped
<1>4. ASSUME rust'.state # "released" PROVE Asked' /\ \A h \in Reqs : Ledger(h)'
  <2>1. Asked /\ \A h \in Reqs : Ledger(h)
    BY <1>2, <1>4 DEF LInv, Ledgers
  <2>2. Asked'
    BY <1>2, <2>1, TakenFacts, FinishedOn, AskedStays
  <2>3. Queued(r) /\ Once(urgent, Job(r)) /\ rust.sub # r /\ go[r].at \notin Early
    BY <1>2, <2>1, TakenFacts DEF Queued, Ledger, Placement, Fresh
  <2>4. ~Queued(r)' /\ Once(urgent, Job(r))' /\ ~Executing(r)'
    BY <1>2, <2>3, TakenFacts DEF Queued, Executing
  <2>5. ASSUME NEW t \in Reqs \ {r}
        PROVE  /\ Queued(t)' => Queued(t)
               /\ Once(urgent, Job(t)) => Once(urgent, Job(t))'
               /\ Executing(t)' => Executing(t)
    BY <1>2, TakenFacts DEF Queued, Executing
  <2>6. Certain(r, "error")
    BY DEF Certain
  <2>. QED
    BY <1>2, <2>1, <2>2, <2>3, <2>4, <2>5, <2>6, FinishLedger
<1>. QED
  BY <1>3, <1>4 DEF LInv, Ledgers

(* The worker takes a job: only one that is live, and that the lane knows. *)
LEMMA TakeLedger == ASSUME LInv, IInv, TakeJob PROVE LInv'
<1>1. PICK r : r = Head(urgent).id
  OBVIOUS
<1>2. /\ urgent # <<>> /\ urgent' = Tail(urgent) /\ executing = None /\ UNCHANGED <<rx, lane, rust>>
      /\ r \in Reqs /\ Head(urgent) = Job(r) /\ executing' = [id |-> r, sent |-> FALSE]
      /\ go[r].call = 0 /\ go' = [go EXCEPT ![r].call = 1]
  BY <1>1, TakenJob DEF TakeJob
<1>3. JobsTyped'
  BY <1>2, TakenFacts DEF LInv, JobsTyped
<1>4. ControlsOK(go)
  BY DEF IInv
<1>5. /\ \A t \in Reqs \ {r} : go'[t] = go[t]
      /\ go'[r].call = 1 /\ go'[r].at = go[r].at /\ go'[r].got = go[r].got
      /\ go'[r].previous = go[r].previous
  BY <1>2, <1>4 DEF ControlsOK, ControlFields
<1>6. ASSUME rust'.state # "released" PROVE Asked' /\ \A h \in Reqs : Ledger(h)'
  <2>1. Asked /\ \A h \in Reqs : Ledger(h)
    BY <1>2, <1>6 DEF LInv, Ledgers
  <2>2. Asked'
    BY <1>2, <2>1, TakenFacts, AskedStays
  <2>3. Queued(r) /\ Once(urgent, Job(r))
    BY <1>2, <2>1, TakenFacts DEF Queued, Ledger, Placement
  <2>4. /\ rust.sub # r /\ go[r].at = "waiting" /\ lane = r /\ ~Dead(r) /\ ~Settled(r)
        /\ ~rx[r].gone /\ ~Over(rx[r].remote) /\ \A b \in Reqs : go[r].previous = b => Settled(b)
    BY <1>2, <2>1, <2>3 DEF Ledger, Placement, Dead, Settled
  <2>5. ~Queued(r)' /\ Once(urgent, Job(r))'
    BY <1>2, <2>3, TakenFacts DEF Queued
  <2>6. executing' # None => executing'.id = r
    BY <1>2
  <2>7. ASSUME NEW t \in Reqs \ {r} PROVE Calm(t)
    <3>1. (Queued(t)' => Queued(t)) /\ (Once(urgent, Job(t)) => Once(urgent, Job(t))')
      BY <1>2, TakenFacts DEF Queued
    <3>2. Aside(t)
      BY <1>2, <1>5, <2>6, <3>1 DEF Aside, Executing, Exports
    <3>. QED
      BY <3>2, AsideCalm
  <2>8. Placement(r)'
    BY <1>2, <1>5, <2>4, <2>5 DEF Placement, Early
  <2>9. ASSUME \A b \in Reqs : Settled(b) => Settled(b)' PROVE Ledger(r)'
    BY <1>2, <1>5, <2>4, <2>8, <2>9 DEF Ledger, Over
  <2>10. Settled(r) => Settled(r)'
    BY <2>4
  <2>11. \A h \in Reqs : Ledger(h)'
    BY <1>2, <2>1, <2>7, <2>9, <2>10, CalmButOne
  <2>. QED
    BY <2>2, <2>11
<1>. QED
  BY <1>3, <1>6 DEF LInv, Ledgers
(* The job that the worker executes ends: sent in vain, or answered.       *)
LEMMA SentLedger == ASSUME LInv, IInv, SendJob \/ Subscribes PROVE LInv'
<1>1. PICK r : r = executing.id
  OBVIOUS
<1>2. executing # None /\ r \in Reqs /\ Executing(r) /\ urgent' = urgent
      /\ \A t \in Reqs : Executing(t) => t = r
  BY <1>1 DEF SendJob, Subscribes, LInv, JobsTyped, Executing
<1>3. \/ /\ executing' = [executing EXCEPT !.sent = TRUE] /\ rust' = rust
         /\ UNCHANGED <<go, rx, lane>>
      \/ executing' = None /\ Finished(r, "lost") /\ rust' = rust
      \/ executing' = None /\ Finished(r, "error") /\ rust' = rust
      \/ /\ executing' = None /\ Finished(r, "active") /\ rust.state # "released"
         /\ rust' = [sub |-> r, state |-> "active"]
  BY <1>1 DEF SendJob, Subscribes
<1>4. CASE /\ executing' = [executing EXCEPT !.sent = TRUE] /\ rust' = rust
           /\ UNCHANGED <<go, rx, lane>>
  <2>0. executing \in [id : Reqs, sent : BOOLEAN]
    BY <1>2 DEF LInv, JobsTyped
  <2>1. executing' \in [id : Reqs, sent : BOOLEAN] /\ executing'.id = r
    BY <1>1, <1>4, <2>0
  <2>2. JobsTyped'
    BY <1>2, <1>4, <2>1 DEF LInv, JobsTyped
  <2>3. ASSUME rust'.state # "released" PROVE Asked' /\ \A h \in Reqs : Ledger(h)'
    <3>1. Asked /\ \A h \in Reqs : Ledger(h)
      BY <1>4, <2>3 DEF LInv, Ledgers
    <3>2. Asked'
      BY <1>2, <1>4, <3>1 DEF Asked
    <3>3. ASSUME NEW t \in Reqs PROVE Calm(t)
      <4>1. Executing(t)' => Executing(t)
        BY <1>2, <2>1, Zenon DEF Executing
      <4>2. /\ Queued(t)' <=> Queued(t)
            /\ Once(urgent, Job(t))' <=> Once(urgent, Job(t))
            /\ Exports(t)' <=> Exports(t)
        BY <1>2, <1>4 DEF Queued, Exports
      <4>3. Aside(t)
        BY <1>4, <4>1, <4>2 DEF Aside
      <4>. QED
        BY <4>3, AsideCalm
    <3>. QED
      BY <3>1, <3>2, <3>3, CalmAll
  <2>. QED
    BY <2>2, <2>3 DEF LInv, Ledgers
<1>5. ASSUME NEW answer, executing' = None, Finished(r, answer),
             \/ answer # "active" /\ rust' = rust
             \/ /\ answer = "active" /\ rust.state # "released"
                /\ rust' = [sub |-> r, state |-> "active"]
      PROVE  LInv'
  <2>1. JobsTyped'
    BY <1>2, <1>5 DEF LInv, JobsTyped
  <2>2. ASSUME rust'.state # "released" PROVE Asked' /\ \A h \in Reqs : Ledger(h)'
    <3>1. Asked /\ \A h \in Reqs : Ledger(h)
      BY <1>5, <2>2 DEF LInv, Ledgers
    <3>2. Asked'
      BY <1>2, <1>5, <3>1, FinishedOn, AskedStays
    <3>3. /\ go[r].call = 1 /\ rust.sub # r /\ ~Queued(r) /\ go[r].at \notin Early
          /\ Once(urgent, Job(r)) /\ ~Dead(r)
      BY <1>2, <3>1 DEF Ledger, Placement, Fresh, Dead
    <3>4. ASSUME NEW t \in Reqs
          PROVE  /\ Queued(t)' <=> Queued(t)
                 /\ Once(urgent, Job(t))' <=> Once(urgent, Job(t))
                 /\ ~Executing(t)'
      BY <1>2, <1>5 DEF Queued, Executing
    <3>5. \/ answer # "active" /\ rust' = rust
          \/ answer = "active" /\ go[r].call = 1 /\ rust' = [sub |-> r, state |-> "active"]
      BY <1>5, <3>3
    <3>6. \A h \in Reqs : Ledger(h)'
      BY <1>2, <1>5, <3>1, <3>3, <3>4, <3>5, FinishLedger
    <3>. QED
      BY <3>2, <3>6
  <2>. QED
    BY <2>1, <2>2 DEF LInv, Ledgers
<1>. QED
  BY <1>3, <1>4, <1>5

(* Only a subscription that its owner has bound is said to be over.        *)
LEMMA AnswerLedger == ASSUME LInv, IInv, Controlled PROVE LInv'
<1>1. PICK c : c = Head(urgent)
  OBVIOUS
<1>2. PICK state : state = IF c.op = "unsubscribe" /\ rust.state = "active"
                           THEN "stopped" ELSE rust.state
  OBVIOUS
<1>3. /\ urgent # <<>> /\ urgent' = Tail(urgent) /\ executing = None /\ executing' = executing
      /\ UNCHANGED <<go, lane>> /\ c.op \in {"status", "unsubscribe"}
      /\ \/ /\ rust' = [rust EXCEPT !.state = state]
            /\ rx' = [rx EXCEPT ![c.id].busy = FALSE, ![c.id].remote = state]
         \/ rust' = rust /\ rx' = [rx EXCEPT ![c.id].busy = FALSE]
  BY <1>1, <1>2 DEF Controlled
<1>4. c \in Questions /\ c.id \in Reqs
  <2>1. c \in Jobs
    BY <1>1, <1>3, TakenFacts
  <2>. QED
    BY <1>3, <2>1 DEF Jobs, Questions, Release
<1>5. HandlesOK(rx) /\ \A h \in Reqs : Placed(rx, go, h)
  BY DEF IInv
<1>6. JobsTyped'
  BY <1>3, TakenFacts DEF LInv, JobsTyped
<1>7. /\ \A h \in Reqs : rx'[h].bound = rx[h].bound /\ rx'[h].gone = rx[h].gone
      /\ \A h \in Reqs \ {c.id} : rx'[h].remote = rx[h].remote
      /\ \/ rx'[c.id].remote = rx[c.id].remote
         \/ rust' = [rust EXCEPT !.state = state] /\ rx'[c.id].remote = state
  <2>1. ASSUME NEW m, rx' = [rx EXCEPT ![c.id].busy = FALSE, ![c.id].remote = m]
        PROVE  /\ \A h \in Reqs : rx'[h].bound = rx[h].bound /\ rx'[h].gone = rx[h].gone
               /\ \A h \in Reqs \ {c.id} : rx'[h].remote = rx[h].remote
               /\ rx'[c.id].remote = m
    BY <1>4, <1>5, <2>1 DEF HandlesOK, HandleFields
  <2>2. ASSUME rx' = [rx EXCEPT ![c.id].busy = FALSE]
        PROVE  \A h \in Reqs : /\ rx'[h].bound = rx[h].bound /\ rx'[h].gone = rx[h].gone
                               /\ rx'[h].remote = rx[h].remote
    BY <1>4, <1>5, <2>2 DEF HandlesOK, HandleFields
  <2>. QED
    BY <1>3, <1>4, <2>1, <2>2
<1>8. ASSUME rust'.state # "released" PROVE Asked' /\ \A h \in Reqs : Ledger(h)'
  <2>0. DOMAIN rust = {"sub", "state"}
    BY DEF LInv, JobsTyped
  <2>1. rust'.sub = rust.sub /\ (rust'.state = "active" => rust.state = "active")
        /\ rust.state # "released"
    <3>1. CASE rust' = [rust EXCEPT !.state = state]
      BY <1>2, <1>8, <2>0, <3>1
    <3>. QED
      BY <1>3, <1>8, <3>1
  <2>2. Asked /\ \A h \in Reqs : Ledger(h)
    BY <2>1 DEF LInv, Ledgers
  <2>3. Asked'
    BY <1>3, <1>7, <2>2, TakenFacts, AskedStays
  <2>4. rx[c.id].bound
    BY <1>1, <1>3, <1>4, <2>2, TakenFacts DEF Asked
  <2>5. go[c.id].at \in Later
    BY <1>4, <1>5, <2>4 DEF Placed
  <2>6. ASSUME NEW t \in Reqs PROVE Calm(t)
    <3>1. (Queued(t)' => Queued(t)) /\ (Once(urgent, Job(t)) => Once(urgent, Job(t))')
      BY <1>3, TakenFacts DEF Queued
    <3>2. (Executing(t)' => Executing(t)) /\ (Exports(t)' => Exports(t)) /\ ~Executing(t)'
      BY <1>3, <2>1 DEF Executing, Exports
    <3>3. Over(rx'[t].remote) => Over(rx[t].remote) \/ Settled(t)'
      <4>1. SUFFICES ASSUME t = c.id, rust' = [rust EXCEPT !.state = state], Over(state)
                     PROVE  Settled(t)'
        BY <1>7
      <4>2. go'[t].at \notin Early /\ ~(Queued(t) /\ go[t].call = 0)
        BY <1>3, <2>2, <2>5, <4>1 DEF Later, Early, Ledger, Placement
      <4>3. Queued(t)' => go'[t].call = 2
        BY <1>3, <2>2, <3>1, <4>2 DEF Ledger, Placement
      <4>4. rust'.state # "active"
        BY <1>2, <4>1 DEF Over
      <4>. QED
        BY <3>2, <4>2, <4>3, <4>4 DEF Settled, Dead, Exports
    <3>. QED
      BY <1>3, <1>7, <2>1, <3>1, <3>2, <3>3 DEF Calm, Onward
  <2>. QED
    BY <2>2, <2>3, <2>6, CalmAll
<1>. QED
  BY <1>6, <1>8 DEF LInv, Ledgers

(* A release, or the end of the process, ends the session.                 *)
LEMMA SessionLedger ==
    ASSUME LInv, IInv, Released \/ ExportFails \/ WorkerEnds PROVE LInv'
<1>1. CASE Released \/ WorkerEnds
  <2>1. rust' = [sub |-> None, state |-> "released"]
    BY <1>1, Zenon DEF Released, WorkerEnds
  <2>2. \/ urgent # <<>> /\ urgent' = Tail(urgent) /\ executing' = executing
        \/ urgent' = <<>> /\ executing' = None
    BY <1>1 DEF Released, WorkerEnds
  <2>3. JobsTyped'
    <3>1. CASE urgent' = <<>> /\ executing' = None
      BY <2>1, <3>1 DEF JobsTyped
    <3>2. CASE urgent # <<>> /\ urgent' = Tail(urgent) /\ executing' = executing
      BY <2>1, <3>2, TakenFacts DEF LInv, JobsTyped
    <3>. QED
      BY <2>2, <3>1, <3>2
  <2>. QED
    BY <2>1, <2>3 DEF LInv, Ledgers
<1>2. CASE ExportFails
  <2>1. /\ UNCHANGED <<executing, urgent, go, rx, lane>> /\ rust' = [rust EXCEPT !.state = "failed"]
        /\ rust.state = "active"
    BY <1>2 DEF ExportFails
  <2>2. rust'.sub = rust.sub
    BY <2>1
  <2>3. JobsTyped'
    BY <2>1 DEF LInv, JobsTyped
  <2>4. Asked /\ \A h \in Reqs : Ledger(h)
    BY <2>1 DEF LInv, Ledgers
  <2>5. Asked'
    BY <2>1, <2>4 DEF Asked
  <2>6. ASSUME NEW t \in Reqs PROVE Calm(t)
    <3>1. /\ Queued(t)' <=> Queued(t)
          /\ Once(urgent, Job(t))' <=> Once(urgent, Job(t))
          /\ Executing(t)' <=> Executing(t)
          /\ Exports(t)' => Exports(t)
      BY <2>1, <2>2 DEF Queued, Executing, Exports
    <3>2. Aside(t)
      BY <2>1, <2>2, <3>1 DEF Aside
    <3>. QED
      BY <3>2, AsideCalm
  <2>. QED
    BY <2>3, <2>4, <2>5, <2>6, CalmAll DEF LInv, Ledgers
<1>. QED
  BY <1>1, <1>2

(* The ledger is right at first, ...                                       *)
LEMMA LedgerInit == ASSUME Init PROVE LInv
<1>1. urgent = <<>> /\ executing = None /\ lane = None /\ rust.sub = None
      /\ go = [r \in Reqs |-> NewControl] /\ rx = [r \in Reqs |-> NewHandle]
  BY DEF Init
<1>2. JobsTyped
  <2>1. rust = [sub |-> None, state |-> "none"]
    BY DEF Init
  <2>. QED
    BY <1>1, <2>1 DEF JobsTyped
<1>3. \A x : ~Occurs(urgent, x) /\ Once(urgent, x)
  BY <1>1 DEF Occurs, Once
<1>4. ASSUME NEW h \in Reqs PROVE Ledger(h)
  <2>1. h # None
    BY RxAssumption DEF Reqs
  <2>2. ~Queued(h) /\ ~Executing(h) /\ rust.sub # h
    BY <1>1, <1>3, <2>1 DEF Queued, Executing
  <2>3. /\ go[h].at = "none" /\ go[h].call = 0 /\ go[h].got = None /\ go[h].previous = None
        /\ rx[h].remote = "none"
    BY <1>1 DEF NewControl, NewHandle
  <2>4. Dead(h)
    BY <2>2 DEF Dead, Exports
  <2>5. \A b \in Reqs : go[h].previous # b
    BY <2>3, RxAssumption DEF Reqs
  <2>. QED
    BY <1>3, <2>2, <2>3, <2>4, <2>5 DEF Ledger, Placement, Fresh, Over
<1>. QED
  BY <1>2, <1>3, <1>4 DEF LInv, Ledgers, Asked

(* ... and stays right.                                                    *)
LEMMA LedgerKept == ASSUME LInv, IInv, [Next]_vars PROVE LInv'
<1>1. CASE UNCHANGED vars
  BY <1>1, QuietKeeps DEF vars, callerVars, SubsStay, SameJobs, Onward
<1>2. CASE WorkerNext
  BY <1>2, DropLedger, TakeLedger, SentLedger, AnswerLedger, SessionLedger DEF WorkerNext
<1>. QED
  BY <1>1, <1>2, CallerLedger, LoopLedger, ControlLedger, EndLedger, OwnerLedger
  DEF Next, CallerNext, LoopNext, GoNext
-----------------------------------------------------------------------------
(* Who answers for the export.                                             *)

\* A step after which t is no more alive than before.
Withers(t) ==
    /\ Executing(t)' => Executing(t) \/ (Queued(t) /\ go[t].call = 0)
    /\ Exports(t)' => Exports(t) \/ Executing(t)
    /\ Queued(t)' => Queued(t)
    /\ go[t].call = 2 => go'[t].call = 2

(* A dead subscription stays dead: only a control goroutine that is still  *)
(* registered puts a job into the queue.                                   *)
LEMMA DeadStays ==
    ASSUME LInv, IInv, [Next]_vars, NEW t \in Reqs, ~Enqueue(t), Dead(t)
    PROVE  Dead(t)'
<1>1. ControlsOK(go)
  BY DEF IInv
<1>2. SUFFICES Withers(t)
  BY DEF Withers, Dead
<1>3. /\ executing' = executing => (Executing(t)' => Executing(t))
      /\ rust' = rust => (Exports(t)' => Exports(t))
      /\ urgent' = urgent => (Queued(t)' => Queued(t))
      /\ urgent # <<>> /\ urgent' = Tail(urgent) => (Queued(t)' => Queued(t))
  BY TakenFacts DEF Executing, Exports, Queued
<1>4. ASSUME NEW j \in Jobs, urgent' = Append(urgent, j), j # Job(t) PROVE Queued(t)' => Queued(t)
  BY <1>4, JoinsQueue DEF Queued
<1>5. \A r \in Reqs : \A answer : Finished(r, answer) => go'[t].call = go[t].call
  BY FinishedOn
<1>6. CASE UNCHANGED vars
  BY <1>3, <1>6 DEF vars, callerVars, Withers
<1>7. CASE \/ CallerNext
           \/ \E r \in Reqs : \/ RefuseSubscribe(r) \/ SameSubscription(r)
                              \/ PublishSubscribe(r) \/ StartControl(r) \/ SubscribeResult(r)
  <2>1. UNCHANGED <<executing, rust, urgent>>
    BY <1>7
    DEF CallerNext, Subscribe, CancelContext, Receive, GiveUp, Leave, callerVars, RefuseSubscribe,
        SameSubscription, PublishSubscribe, StartControl, SubscribeResult, loopVars
  <2>2. \/ go' = go \/ \E r \in Reqs : \E v : go' = [go EXCEPT ![r].at = v]
    BY <1>7
    DEF CallerNext, Subscribe, CancelContext, Receive, GiveUp, Leave, callerVars, RefuseSubscribe,
        SameSubscription, PublishSubscribe, StartControl, SubscribeResult
  <2>3. go'[t].call = go[t].call
    BY <1>1, <2>2, GoesOn
  <2>. QED
    BY <1>3, <2>1, <2>3 DEF Withers
<1>8. CASE Finish \/ ReleaseRetry \/ ReleaseResult \/ WorkerFailed \/ OwnerNext
  <2>1. UNCHANGED <<executing, rust, go>>
    BY <1>8
    DEF Finish, ReleaseRetry, ReleaseResult, WorkerFailed, endVars, OwnerNext, Observe, Ask, ownerVars
  <2>2. \/ urgent' = urgent
        \/ \E j \in Questions \cup {Release} : urgent' = Append(urgent, j)
    BY <1>8
    DEF Finish, ReleaseRetry, ReleaseResult, WorkerFailed, SubmitRelease, OwnerNext, Observe, Ask,
        Questions, Release
  <2>3. \A j \in Questions \cup {Release} : j \in Jobs /\ j # Job(t)
    BY DEF Jobs, Questions, Release, Job
  <2>. QED
    BY <1>3, <1>4, <2>1, <2>2, <2>3 DEF Withers
<1>9. ASSUME NEW r \in Reqs,
             \/ Register(r) \/ Enqueue(r) \/ Answered(r) \/ TimesOut(r) \/ CancelJob(r)
             \/ Bind(r) \/ BindChecks(r)
      PROVE  Withers(t)
  <2>1. UNCHANGED <<executing, rust>>
    BY <1>9 DEF Register, Enqueue, Answered, TimesOut, CancelJob, Bind, BindChecks, goVars
  <2>2. go[t].call = 2 => go'[t].call = 2
    BY <1>1, <1>9
    DEF Register, Enqueue, Answered, TimesOut, CancelJob, Bind, BindChecks, ControlsOK, ControlFields,
        WinsCancellation
  <2>3. urgent' = urgent \/ (Enqueue(r) /\ r # t /\ urgent' = Append(urgent, Job(r)))
    BY <1>9 DEF Register, Enqueue, Answered, TimesOut, CancelJob, Bind, BindChecks, Job
  <2>4. Job(r) \in Jobs /\ (r # t => Job(r) # Job(t))
    BY DEF Jobs, Job
  <2>. QED
    BY <1>3, <1>4, <2>1, <2>2, <2>3, <2>4 DEF Withers
<1>10. CASE WorkerNext
  <2>1. CASE DropJob
    <3>1. UNCHANGED <<executing, rust>> /\ urgent # <<>> /\ urgent' = Tail(urgent)
          /\ Head(urgent).id \in Reqs /\ Finished(Head(urgent).id, "error")
      BY <2>1, TakenJob DEF DropJob
    <3>. QED
      BY <1>3, <1>5, <3>1 DEF Withers
  <2>2. CASE TakeJob
    <3>1. PICK r : r = Head(urgent).id
      OBVIOUS
    <3>2. /\ rust' = rust /\ urgent # <<>> /\ urgent' = Tail(urgent) /\ r \in Reqs
          /\ Head(urgent) = Job(r) /\ executing' = [id |-> r, sent |-> FALSE]
          /\ go[r].call = 0 /\ go' = [go EXCEPT ![r].call = 1]
      BY <2>2, <3>1, TakenJob DEF TakeJob
    <3>3. Queued(r) /\ (go[t].call = 2 => go'[t].call = 2)
      BY <1>1, <3>2, TakenFacts DEF Queued, ControlsOK, ControlFields
    <3>. QED
      BY <1>3, <3>2, <3>3 DEF Executing, Withers
  <2>3. CASE SendJob \/ Subscribes
    <3>1. PICK r : r = executing.id
      OBVIOUS
    <3>2. executing # None /\ executing \in [id : Reqs, sent : BOOLEAN] /\ r \in Reqs
          /\ urgent' = urgent
      BY <2>3, <3>1 DEF SendJob, Subscribes, LInv, JobsTyped
    <3>3. \/ executing' = [executing EXCEPT !.sent = TRUE] /\ rust' = rust /\ go' = go
          \/ /\ executing' = None /\ \E answer : Finished(r, answer)
             /\ rust' = rust \/ rust' = [sub |-> r, state |-> "active"]
      BY <2>3, <3>1 DEF SendJob, Subscribes
    <3>4. Executing(t)' => Executing(t)
      BY <3>2, <3>3 DEF Executing
    <3>5. Exports(t)' => Exports(t) \/ Executing(t)
      BY <3>1, <3>2, <3>3 DEF Exports, Executing
    <3>6. go'[t].call = go[t].call
      BY <1>5, <3>2, <3>3
    <3>. QED
      BY <1>3, <3>2, <3>4, <3>5, <3>6 DEF Withers
  <2>4. CASE Controlled
    <3>1. UNCHANGED <<executing, go>> /\ urgent # <<>> /\ urgent' = Tail(urgent)
      BY <2>4 DEF Controlled
    <3>2. \/ rust' = rust
          \/ rust' = [rust EXCEPT !.state = rust.state]
          \/ rust' = [rust EXCEPT !.state = "stopped"]
      BY <2>4 DEF Controlled
    <3>3. Exports(t)' => Exports(t)
      BY <3>2 DEF Exports, LInv, JobsTyped
    <3>. QED
      BY <1>3, <3>1, <3>3 DEF Withers
  <2>5. CASE ExportFails
    <3>1. UNCHANGED <<executing, go, urgent>> /\ rust' = [rust EXCEPT !.state = "failed"]
      BY <2>5 DEF ExportFails
    <3>2. ~Exports(t)'
      BY <3>1 DEF Exports, LInv, JobsTyped
    <3>. QED
      BY <1>3, <3>1, <3>2 DEF Withers
  <2>6. CASE Released
    <3>1. UNCHANGED <<executing, go>> /\ urgent # <<>> /\ urgent' = Tail(urgent)
          /\ rust' = [sub |-> None, state |-> "released"]
      BY <2>6 DEF Released
    <3>2. ~Exports(t)'
      BY <3>1 DEF Exports
    <3>. QED
      BY <1>3, <3>1, <3>2 DEF Withers
  <2>7. CASE WorkerEnds
    <3>1. executing' = None /\ urgent' = <<>> /\ rust' = [sub |-> None, state |-> "released"]
      BY <2>7, Zenon DEF WorkerEnds
    <3>2. ~Exports(t)' /\ ~Executing(t)' /\ ~Queued(t)'
      BY <3>1 DEF Exports, Executing, Queued, Occurs
    <3>3. go'[t].call = go[t].call
      BY <1>1, <2>7 DEF WorkerEnds, ControlsOK, ControlFields
    <3>. QED
      BY <3>2, <3>3, Zenon DEF Withers
  <2>. QED
    BY <1>10, <2>1, <2>2, <2>3, <2>4, <2>5, <2>6, <2>7 DEF WorkerNext
<1>. QED
  BY <1>6, <1>7, <1>8, <1>9, <1>10 DEF Next, LoopNext, GoNext
-----------------------------------------------------------------------------
(* A refused caller has no control goroutine, or one that came back without*)
(* a subscription; who leaves empty-handed left before a handle existed.   *)
Refused(r) == req[r].stage = "refused" \/ (req[r].result # None /\ req[r].result = "refused")
Answering(r) ==
    /\ Refused(r) => /\ req[r].asked /\ checking # r
                     /\ go[r].at = "none" \/ (go[r].at = "done" /\ ~rx[r].bound)
    /\ req[r].stage \in {"leaving", "empty-handed"} => req[r].delivery = "abandoned"
    /\ req[r].stage = "empty-handed" => req[r].published = None
    /\ req[r].published = None => go[r].at = "none" /\ checking # r

(* The call waits for the goroutine that runs, and keeps a handle only     *)
(* after its goroutine; what comes back unbound had been retired.          *)
Running == {"job", "registered", "waiting", "returned", "bound", "posted"}
Course(r) ==
    /\ go[r].at \in {"none", "job"} => rx[r].gone
    /\ go[r].at = "bound" => rx[r].bound
    /\ go[r].at \in {"posted", "done"} /\ ~rx[r].bound => rx[r].gone
    /\ go[r].at \in Running <=> pending = r
    /\ current = r => go[r].at = "done"

(* The session ends only after the call, or with its worker.               *)
Session ==
    /\ call \in [ended : BOOLEAN, allocated : BOOLEAN, releasing : BOOLEAN]
    /\ checking # None => pending = None
    /\ current \in Reqs \cup {None}
    /\ rust.state = "active" => rust.sub \in Reqs
    /\ ~call.ended /\ worker = "up" => rust.state # "released" /\ ~Occurs(urgent, Release)

(* Once the lane has accepted a candidate, no other subscription is alive, *)
(* and until the call ends whoever is alive is waited for, or kept, and    *)
(* has the right to be read.                                               *)
Alone(r) == pending = r /\ (rx[r].bound \/ ~rx[r].gone) => \A t \in Reqs \ {r} : Dead(t)
Held(s) ==
    /\ ~Dead(s) => s \in {pending, current} /\ ~rx[s].retired
    /\ pending = s \/ checking = s \/ ~req[s].asked => ~rx[s].retired

HInv ==
    /\ \A r \in Reqs : Answering(r) /\ Course(r)
    /\ Session
    /\ rust.state # "released" => \A r \in Reqs : Alone(r)
    /\ Eligible => \A s \in Reqs : Held(s)

\* A step that moves no goroutine and no handle of the call.
Steady ==
    /\ UNCHANGED <<pending, current, checking>>
    /\ \A h \in Reqs : /\ go'[h].at = go[h].at
                       /\ rx'[h].bound = rx[h].bound /\ (rx[h].gone => rx'[h].gone)
                       /\ req[h].asked => req'[h].asked
    /\ Eligible' => Eligible /\ \A h \in Reqs : rx'[h].retired => rx[h].retired

(* Such a step disturbs at most what is promised to the callers.           *)
LEMMA SteadyHolds ==
    ASSUME HInv, LInv, IInv, [Next]_vars, Steady, Session', \A r \in Reqs : Answering(r)'
    PROVE  HInv'
<1>1. ASSUME NEW t \in Reqs, Dead(t) PROVE Dead(t)'
  <2>1. ~Enqueue(t)
    BY DEF Steady, Enqueue, IInv, ControlsOK, ControlFields
  <2>. QED
    BY <1>1, <2>1, DeadStays
<1>2. ASSUME NEW r \in Reqs PROVE Course(r)'
  BY DEF HInv, Course, Steady
<1>3. ASSUME rust'.state # "released", NEW r \in Reqs PROVE Alone(r)'
  <2>1. Alone(r)
    BY <1>3, ReleasedStays DEF HInv
  <2>. QED
    BY <1>1, <2>1 DEF Alone, Steady
<1>4. ASSUME Eligible', NEW s \in Reqs PROVE Held(s)'
  <2>1. Held(s)
    BY <1>4 DEF HInv, Steady
  <2>. QED
    BY <1>1, <1>4, <2>1 DEF Held, Steady
<1>. QED
  BY <1>2, <1>3, <1>4 DEF HInv

(* The caller: it leaves empty-handed only before a handle was published.  *)
LEMMA CallerHolds ==
    ASSUME HInv, LInv, IInv, [Next]_vars, NEW r \in Reqs,
           \/ \E id \in 1..MaxId : Subscribe(r, id)
           \/ CancelContext(r) \/ Receive(r) \/ GiveUp(r) \/ Leave(r)
    PROVE  HInv'
<1>1. HandlesOK(rx) /\ DOMAIN req = Reqs /\ \A q \in Reqs : DOMAIN req[q] = DOMAIN NewRequest
  BY DEF IInv
<1>2. UNCHANGED callerVars
  BY DEF Subscribe, CancelContext, Receive, GiveUp, Leave
<1>3. SameSubs(rx, rx') /\ SameRight(rx, rx')
  <2>1. rx' = rx \/ \E h : rx' = Revoke(rx, h)
    BY DEF Subscribe, CancelContext, Receive, GiveUp, Leave
  <2>. QED
    BY <1>1, <2>1, RevokeSubs DEF SameSubs, SameRight
<1>4. /\ \A q \in Reqs \ {r} : req'[q] = req[q]
      /\ req'[r].asked = req[r].asked /\ req'[r].published = req[r].published
      /\ req'[r].result \in {req[r].result, None}
  BY <1>1 DEF Subscribe, CancelContext, Receive, GiveUp, Leave, NewRequest
<1>5. Steady
  BY <1>2, <1>3, <1>4 DEF Steady, callerVars, SameSubs, SameRight, Eligible
<1>6. Session'
  BY <1>2 DEF HInv, Session, callerVars
<1>7. /\ req'[r].stage = "refused" => Refused(r)
      /\ \/ req'[r].stage \notin {"leaving", "empty-handed"}
         \/ req'[r].stage = "leaving" /\ req'[r].delivery = "abandoned"
         \/ /\ req'[r].stage = "empty-handed" /\ req'[r].delivery = req[r].delivery
            /\ req[r].stage = "leaving" /\ req[r].published = None
  BY <1>1 DEF Subscribe, CancelContext, Receive, GiveUp, Leave, NewRequest, Refused
<1>8. ASSUME NEW q \in Reqs PROVE Answering(q)'
  <2>1. Answering(q)
    BY DEF HInv
  <2>2. Refused(q)' => Refused(q)
    BY <1>4, <1>7 DEF Refused
  <2>3. go'[q].at = go[q].at /\ rx'[q].bound = rx[q].bound /\ checking' = checking
    BY <1>2, <1>3 DEF callerVars, SameSubs
  <2>. QED
    BY <1>4, <1>7, <2>1, <2>2, <2>3 DEF Answering
<1>. QED
  BY <1>5, <1>6, <1>8, SteadyHolds

(* What the worker does to the subscriptions.                              *)
LEMMA WorkerSubs ==
    ASSUME IInv, LInv, WorkerNext
    PROVE  \A h \in Reqs : /\ go'[h].at = go[h].at
                           /\ rx'[h].bound = rx[h].bound /\ rx'[h].retired = rx[h].retired
                           /\ rx[h].gone => rx'[h].gone
<1>1. HandlesOK(rx) /\ ControlsOK(go)
  BY DEF IInv
<1>2. ASSUME NEW r, NEW answer, Finished(r, answer)
      PROVE  \A h \in Reqs : /\ go'[h].at = go[h].at
                             /\ rx'[h].bound = rx[h].bound /\ rx'[h].retired = rx[h].retired
                             /\ rx[h].gone => rx'[h].gone
  <2>. DEFINE m == IF answer = "active" THEN answer ELSE rx[r].remote
              x == [rx EXCEPT ![r].busy = FALSE, ![r].remote = m]
  <2>1. go' = [go EXCEPT ![r].got = answer]
    BY <1>2 DEF Finished
  <2>2. \A h \in Reqs : go'[h].at = go[h].at
    BY <1>1, <2>1 DEF ControlsOK, ControlFields
  <2>3. DOMAIN x = Reqs /\ \A h \in Reqs : /\ DOMAIN x[h] = HandleFields /\ x[h].bound = rx[h].bound
                                          /\ x[h].retired = rx[h].retired /\ x[h].gone = rx[h].gone
    BY <1>1 DEF HandlesOK, HandleFields
  <2>4. rx' = x \/ \E b : rx' = RetireSub(x, b)
    BY <1>2 DEF Finished, Rollback
  <2>. HIDE DEF x
  <2>5. ASSUME NEW b, NEW y, y = RetireSub(x, b)
        PROVE  \A h \in Reqs : /\ y[h].bound = x[h].bound /\ y[h].retired = x[h].retired
                               /\ x[h].gone => y[h].gone
    BY <2>3, <2>5 DEF RetireSub, HandleFields
  <2>. QED
    BY <2>2, <2>3, <2>4, <2>5
<1>3. CASE DropJob \/ SendJob \/ Subscribes
  <2>1. (\E r, answer : Finished(r, answer)) \/ UNCHANGED <<go, rx>>
    BY <1>3 DEF DropJob, SendJob, Subscribes
  <2>. QED
    BY <1>2, <2>1
<1>4. CASE TakeJob
  <2>1. rx' = rx /\ \E r : go' = [go EXCEPT ![r].call = 1]
    BY <1>4 DEF TakeJob
  <2>. QED
    BY <1>1, <2>1 DEF ControlsOK, ControlFields
<1>5. CASE Controlled
  <2>1. go' = go /\ \E h, m : \/ rx' = [rx EXCEPT ![h].busy = FALSE, ![h].remote = m]
                              \/ rx' = [rx EXCEPT ![h].busy = FALSE]
    BY <1>5 DEF Controlled
  <2>. QED
    BY <1>1, <2>1 DEF HandlesOK, HandleFields
<1>6. CASE Released \/ ExportFails
  <2>1. go' = go /\ (rx' = rx \/ rx' = RetireSub(rx, lane))
    BY <1>6 DEF Released, ExportFails
  <2>. QED
    BY <1>1, <2>1 DEF RetireSub, HandlesOK, HandleFields
<1>7. CASE WorkerEnds
  <2>1. \A h \in Reqs : go'[h].at = go[h].at
    BY <1>1, <1>7 DEF WorkerEnds, ControlsOK, ControlFields
  <2>2. ASSUME NEW h \in Reqs
        PROVE  /\ rx'[h].bound = rx[h].bound /\ rx'[h].retired = rx[h].retired
               /\ rx[h].gone => rx'[h].gone
    <3>1. PICK out \in BOOLEAN :
            rx'[h] = [rx[h] EXCEPT !.busy = FALSE, !.gone = rx[h].gone \/ out,
                                !.deaf = rx[h].deaf \/ out]
      BY <1>7 DEF WorkerEnds
    <3>. QED
      BY <1>1, <3>1 DEF HandlesOK, HandleFields
  <2>. QED
    BY <2>1, <2>2
<1>. QED
  BY <1>3, <1>4, <1>5, <1>6, <1>7 DEF WorkerNext
(* The worker: it ends the session only when the call asked for that.      *)
LEMMA WorkerHolds ==
    ASSUME HInv, LInv, IInv, [Next]_vars, WorkerNext
    PROVE  HInv'
<1>1. UNCHANGED <<req, pending, current, checking, call>> /\ worker = "up"
      /\ worker' \in {worker, "ended"}
  BY DEF WorkerNext, DropJob, TakeJob, SendJob, Subscribes, Controlled, Released, ExportFails,
         WorkerEnds, workerVars
<1>2. Steady
  BY <1>1, WorkerSubs DEF Steady, Eligible
<1>3. \A r \in Reqs : Answering(r)'
  BY <1>1, WorkerSubs DEF HInv, Answering, Refused
<1>4. Session'
  <2>1. Session
    BY DEF HInv
  <2>2. \/ urgent' = urgent
        \/ urgent # <<>> /\ urgent' = Tail(urgent)
        \/ urgent' = <<>>
    BY DEF WorkerNext, DropJob, TakeJob, SendJob, Subscribes, Controlled, Released, ExportFails,
           WorkerEnds
  <2>3. Occurs(urgent', Release) => Occurs(urgent, Release)
    <3>1. CASE urgent' = <<>>
      BY <3>1 DEF Occurs
    <3>. QED
      BY <2>2, <3>1, TakenFacts
  <2>4. DOMAIN rust = {"sub", "state"}
    BY DEF LInv, JobsTyped
  <2>5. CASE DropJob \/ TakeJob \/ SendJob
    <3>1. rust' = rust
      BY <2>5 DEF DropJob, TakeJob, SendJob
    <3>. QED
      BY <1>1, <2>1, <2>3, <3>1 DEF Session
  <2>6. CASE Subscribes \/ Controlled \/ ExportFails
    <3>1. executing.id \in Reqs \/ ~Subscribes
      BY DEF Subscribes, LInv, JobsTyped
    <3>2. \/ rust' = rust
          \/ Subscribes /\ rust' = [sub |-> executing.id, state |-> "active"]
          \/ \E state \in {rust.state, "stopped", "failed"} : rust' = [rust EXCEPT !.state = state]
      BY <2>6 DEF Subscribes, Controlled, ExportFails
    <3>3. /\ rust'.state = "active" => rust'.sub \in Reqs
          /\ rust'.state = "released" => rust.state = "released"
      BY <2>1, <2>4, <3>1, <3>2 DEF Session
    <3>. QED
      BY <1>1, <2>1, <2>3, <3>3 DEF Session
  <2>7. CASE Released
    <3>1. Head(urgent) = Release /\ urgent # <<>> /\ urgent' = Tail(urgent)
          /\ rust' = [sub |-> None, state |-> "released"]
      <4>1. urgent # <<>> /\ urgent' = Tail(urgent) /\ Head(urgent).op = "release"
            /\ rust' = [sub |-> None, state |-> "released"]
        BY <2>7 DEF Released
      <4>2. Head(urgent) \in Jobs
        BY <4>1, TakenFacts
      <4>. QED
        BY <4>1, <4>2 DEF Jobs, Questions, Release
    <3>2. Occurs(urgent, Release)
      BY <3>1, TakenFacts
    <3>. QED
      BY <1>1, <2>1, <3>1, <3>2 DEF Session
  <2>8. CASE WorkerEnds
    <3>1. worker' = "ended" /\ rust' = [sub |-> None, state |-> "released"]
      BY <2>8, Zenon DEF WorkerEnds
    <3>. QED
      BY <1>1, <2>1, <3>1 DEF Session
  <2>. QED
    BY <2>5, <2>6, <2>7, <2>8 DEF WorkerNext
<1>. QED
  BY <1>2, <1>3, <1>4, SteadyHolds

(* The end of the call: a handle is retired only when the call is over.    *)
LEMMA EndHolds ==
    ASSUME HInv, LInv, IInv, [Next]_vars, Finish \/ ReleaseRetry \/ ReleaseResult \/ WorkerFailed
    PROVE  HInv'
<1>1. HandlesOK(rx) /\ Session
  BY DEF IInv, HInv
<1>2. UNCHANGED endVars
  BY DEF Finish, ReleaseRetry, ReleaseResult, WorkerFailed
<1>3. rx' = rx \/ \E released \in BOOLEAN : rx' = RetireCall(rx, released)
  BY DEF Finish, ReleaseRetry, ReleaseResult, WorkerFailed
<1>4. SameSubs(rx, rx')
  BY <1>1, <1>3, RetireCallSubs DEF SameSubs
<1>5. call \in [ended : BOOLEAN, allocated : BOOLEAN, releasing : BOOLEAN] /\ CanRelease \in BOOLEAN
  BY <1>1 DEF Session, CanRelease
<1>6. /\ call' \in [ended : BOOLEAN, allocated : BOOLEAN, releasing : BOOLEAN]
      /\ \/ call'.ended
         \/ ~call'.allocated /\ call'.ended = call.ended /\ UNCHANGED <<worker, urgent>>
  <2>1. CASE Finish
    <3>1. call' = [call EXCEPT !.ended = TRUE, !.releasing = CanRelease]
      BY <2>1 DEF Finish
    <3>. HIDE DEF CanRelease
    <3>. QED
      BY <1>5, <3>1
  <2>2. CASE ReleaseRetry
    <3>1. call' = [call EXCEPT !.releasing = TRUE] /\ call.ended
      BY <2>2 DEF ReleaseRetry
    <3>. QED
      BY <1>5, <3>1
  <2>3. CASE ReleaseResult
    <3>1. call' = [call EXCEPT !.releasing = FALSE, !.allocated = FALSE] /\ UNCHANGED <<worker, urgent>>
      BY <2>3 DEF ReleaseResult
    <3>. QED
      BY <1>5, <3>1
  <2>4. CASE WorkerFailed
    <3>1. call' = [ended |-> TRUE, allocated |-> FALSE, releasing |-> FALSE]
      BY <2>4 DEF WorkerFailed
    <3>. QED
      BY <3>1
  <2>. QED
    BY <2>1, <2>2, <2>3, <2>4
<1>7. Steady
  BY <1>2, <1>4, <1>6 DEF Steady, endVars, SameSubs, Eligible
<1>8. \A r \in Reqs : Answering(r)'
  BY <1>2, <1>4 DEF HInv, Answering, Refused, endVars, SameSubs
<1>9. Session'
  BY <1>1, <1>2, <1>6 DEF Session, endVars
<1>. QED
  BY <1>7, <1>8, <1>9, SteadyHolds

(* The owner of a handle only asks, and observes.                          *)
LEMMA OwnerHolds == ASSUME HInv, LInv, IInv, [Next]_vars, OwnerNext PROVE HInv'
<1>1. HandlesOK(rx) /\ Session
  BY DEF IInv, HInv
<1>2. UNCHANGED ownerVars
  BY DEF OwnerNext, Observe, Ask
<1>3. PICK h \in Reqs : Observe(h) \/ \E op \in {"status", "unsubscribe"} : Ask(h, op)
  BY DEF OwnerNext
<1>4. SameSubs(rx, rx') /\ SameRight(rx, rx')
  <2>1. PICK z : /\ SameSubs(rx, z) /\ SameRight(rx, z) /\ HandlesOK(z)
                 /\ rx' = [z EXCEPT ![h].terminal = TRUE] \/ rx' = [z EXCEPT ![h].busy = TRUE]
    <3>1. SameSubs(rx, rx) /\ SameSubs(rx, Revoke(rx, h)) /\ HandlesOK(Revoke(rx, h))
          /\ SameRight(rx, rx) /\ SameRight(rx, Revoke(rx, h))
      BY <1>1, RevokeSubs DEF SameSubs, SameRight
    <3>2. \/ rx' = [Revoke(rx, h) EXCEPT ![h].terminal = TRUE]
          \/ rx' = [Revoke(rx, h) EXCEPT ![h].busy = TRUE]
          \/ rx' = [rx EXCEPT ![h].busy = TRUE]
      BY <1>3 DEF Observe, Ask
    <3>. QED
      BY <1>1, <3>1, <3>2
  <2>2. DOMAIN rx' = Reqs /\ \A k \in Reqs : k # h => rx'[k] = z[k]
    BY <2>1 DEF HandlesOK
  <2>3. /\ DOMAIN rx'[h] = HandleFields /\ rx'[h].bound = z[h].bound /\ rx'[h].gone = z[h].gone
        /\ rx'[h].remote = z[h].remote /\ rx'[h].closed = z[h].closed /\ rx'[h].deaf = z[h].deaf
        /\ rx'[h].retired = z[h].retired
    BY <2>1 DEF HandlesOK, HandleFields
  <2>. QED
    BY <2>1, <2>2, <2>3 DEF SameSubs, SameRight, HandlesOK
<1>5. Occurs(urgent', Release) => Occurs(urgent, Release)
  <2>1. CASE urgent' = urgent
    BY <2>1
  <2>2. ASSUME NEW c \in Questions, urgent' = Append(urgent, c)
        PROVE  Occurs(urgent', Release) => Occurs(urgent, Release)
    <3>1. c # Release /\ c \in Jobs
      BY DEF Questions, Release, Jobs
    <3>. QED
      BY <2>2, <3>1, JoinsQueue
  <2>3. urgent' = urgent \/ \E c \in Questions : urgent' = Append(urgent, c)
    BY <1>3 DEF Observe, Ask, Questions
  <2>. QED
    BY <2>1, <2>2, <2>3
<1>6. Steady
  BY <1>2, <1>4 DEF Steady, ownerVars, SameSubs, SameRight, Eligible
<1>7. \A r \in Reqs : Answering(r)'
  BY <1>2, <1>4 DEF HInv, Answering, Refused, ownerVars, SameSubs
<1>8. Session'
  BY <1>1, <1>2, <1>5 DEF Session, ownerVars
<1>. QED
  BY <1>6, <1>7, <1>8, SteadyHolds
(* What a delivery tells the caller.                                       *)
LEMMA DeliverTells ==
    ASSUME IInv, NEW r \in Reqs, NEW result, NEW d, d = Deliver(r, result)
    PROVE  /\ DOMAIN d = Reqs /\ DOMAIN d[r] = DOMAIN NewRequest
           /\ \A q \in Reqs \ {r} : d[q] = req[q]
           /\ d[r].stage = req[r].stage /\ d[r].asked = req[r].asked
           /\ d[r].published = req[r].published
           /\ d[r].delivery = req[r].delivery \/ req[r].delivery = "waiting"
           /\ d[r].result \in {req[r].result, result}
BY DEF IInv, Deliver, Delivers, NewRequest

(* The dead stay dead when no goroutine leaves the lane.                   *)
LEMMA AllDeadStay ==
    ASSUME LInv, IInv, [Next]_vars,
           \A h \in Reqs : go'[h].at = go[h].at \/ go[h].at # "registered"
    PROVE  \A t \in Reqs : Dead(t) => Dead(t)'
<1>1. ASSUME NEW t \in Reqs, Dead(t) PROVE Dead(t)'
  <2>1. ~Enqueue(t)
    BY DEF Enqueue, IInv, ControlsOK, ControlFields
  <2>. QED
    BY <1>1, <2>1, DeadStays
<1>. QED
  BY <1>1

(* What the loop leaves alone.                                             *)
LEMMA LoopSession ==
    ASSUME HInv, UNCHANGED <<call, worker, urgent, rust>>, current' \in Reqs \cup {None},
           checking' # None => pending' = None
    PROVE  Session' /\ (Eligible' <=> Eligible) /\ (Eligible => rust.state # "released")
BY DEF HInv, Session, Eligible

(* The loop refuses, or answers with the handle of the call.               *)
LEMMA RefuseHolds ==
    ASSUME HInv, LInv, IInv, [Next]_vars, NEW r \in Reqs, RefuseSubscribe(r) \/ SameSubscription(r)
    PROVE  HInv'
<1>1. /\ UNCHANGED <<rx, go, checking, loopVars>> /\ checking = None
      /\ ~req[r].asked /\ go[r].at = "none" /\ r # None
  BY RxAssumption
  DEF RefuseSubscribe, SameSubscription, Waiting, Loop, IInv, Unstarted, Reqs
<1>2. /\ \A q \in Reqs \ {r} : req'[q] = req[q]
      /\ req'[r].asked /\ req'[r].stage = req[r].stage
      /\ req'[r].delivery = req[r].delivery \/ req[r].delivery = "waiting"
      /\ \/ req'[r].published = req[r].published
         \/ /\ req'[r].published # None /\ req[r].delivery = "waiting"
            /\ req'[r].result \in {req[r].result, "handle"}
  <2>1. CASE RefuseSubscribe(r)
    <3>1. PICK d : d = Deliver(r, "refused")
      OBVIOUS
    <3>2. req' = [d EXCEPT ![r].asked = TRUE]
      BY <2>1, <3>1 DEF RefuseSubscribe
    <3>. QED
      BY <3>1, <3>2, DeliverTells DEF NewRequest
  <2>2. CASE SameSubscription(r)
    <3>1. PICK d : d = Deliver(r, "handle")
      OBVIOUS
    <3>2. /\ req' = [d EXCEPT ![r].asked = TRUE, ![r].published = current]
          /\ current # None /\ req[r].delivery = "waiting"
      BY <2>2, <3>1 DEF SameSubscription, SameId, Refusable, GivenUp, Delivers
    <3>. QED
      BY <3>1, <3>2, DeliverTells DEF NewRequest
  <2>. QED
    BY <2>1, <2>2
<1>3. Steady
  BY <1>1, <1>2 DEF Steady, loopVars, Eligible
<1>4. Session'
  BY <1>1, LoopSession DEF HInv, Session, loopVars
<1>5. ASSUME NEW q \in Reqs PROVE Answering(q)'
  <2>1. Answering(q) /\ Answering(r)
    BY DEF HInv
  <2>2. CASE q # r
    BY <1>1, <1>2, <2>1, <2>2 DEF Answering, Refused
  <2>3. CASE q = r
    BY <1>1, <1>2, <2>1, <2>3 DEF Answering, Refused
  <2>. QED
    BY <2>2, <2>3
<1>. QED
  BY <1>3, <1>4, <1>5, SteadyHolds

(* The loop publishes a handle for a caller that still waits.              *)
LEMMA PublishHolds ==
    ASSUME HInv, LInv, IInv, [Next]_vars, NEW r \in Reqs, PublishSubscribe(r)
    PROVE  HInv'
<1>1. /\ UNCHANGED <<rx, go, loopVars>> /\ checking = None /\ checking' = r
      /\ ~req[r].asked /\ go[r].at = "none" /\ r # None
      /\ pending = None /\ req[r].delivery = "waiting"
      /\ req' = [req EXCEPT ![r].asked = TRUE, ![r].published = r]
  BY RxAssumption
  DEF PublishSubscribe, Waiting, Loop, IInv, Unstarted, Reqs, Refusable, GivenUp, Delivers
<1>2. /\ \A q \in Reqs \ {r} : req'[q] = req[q]
      /\ req'[r].asked /\ req'[r].stage = req[r].stage /\ req'[r].published = r
      /\ req'[r].delivery = req[r].delivery /\ req'[r].result = req[r].result
  BY <1>1 DEF IInv, NewRequest
<1>3. Session' /\ (Eligible' <=> Eligible)
  BY <1>1, LoopSession DEF HInv, Session, loopVars
<1>4. \A t \in Reqs : Dead(t) => Dead(t)'
  BY <1>1, AllDeadStay
<1>5. ASSUME NEW q \in Reqs PROVE Answering(q)' /\ Course(q)'
  <2>1. Answering(q) /\ Course(q)
    BY DEF HInv
  <2>2. Course(q)'
    BY <1>1, <2>1 DEF Course, loopVars
  <2>3. CASE q # r
    BY <1>1, <1>2, <2>1, <2>2, <2>3 DEF Answering, Refused
  <2>4. CASE q = r
    BY <1>1, <1>2, <2>1, <2>2, <2>4 DEF Answering, Refused
  <2>. QED
    BY <2>3, <2>4
<1>6. \A q \in Reqs : Alone(q)'
  BY <1>1, RxAssumption DEF Alone, loopVars, Reqs
<1>7. ASSUME Eligible', NEW s \in Reqs PROVE Held(s)'
  <2>1. Held(s)
    BY <1>3, <1>7 DEF HInv
  <2>2. req'[s].asked \/ ~req[s].asked
    BY <1>2
  <2>. QED
    BY <1>1, <1>2, <1>4, <2>1, <2>2 DEF Held, loopVars
<1>. QED
  BY <1>3, <1>5, <1>6, <1>7 DEF HInv

(* It looks again at the caller: the handle is retired, or passed on.      *)
LEMMA StartHolds ==
    ASSUME HInv, LInv, IInv, [Next]_vars, NEW r \in Reqs, StartControl(r)
    PROVE  HInv'
<1>1. /\ UNCHANGED <<call, worker, urgent, executing, rust, lane, current>>
      /\ checking = r /\ checking' = None /\ req[r].asked /\ go[r].at = "none" /\ r # None
  BY RxAssumption DEF StartControl, IInv, Unstarted, Reqs
<1>2. HandlesOK(rx) /\ ControlsOK(go)
  BY DEF IInv
<1>3. pending = None /\ ~Refused(r) /\ req[r].published # None /\ rx[r].gone /\ ~rx[r].bound
      /\ current # r
  BY <1>1 DEF HInv, Session, Answering, Course, IInv, Placed, Later, HandlesOK
<1>4. \A q \in Reqs : q # None
  BY RxAssumption DEF Reqs
<1>5. \/ /\ rx' = Retire(rx, r) /\ req' = Deliver(r, "refused") /\ UNCHANGED <<go, pending>>
      \/ pending' = r /\ go' = [go EXCEPT ![r].at = "job"] /\ UNCHANGED <<rx, req>>
  BY DEF StartControl
<1>6. Session' /\ (Eligible' <=> Eligible) /\ (Eligible => rust.state # "released")
  BY <1>1, LoopSession DEF HInv, Session
<1>7. CASE rx' = Retire(rx, r) /\ req' = Deliver(r, "refused") /\ UNCHANGED <<go, pending>>
  <2>1. SameSubs(rx, rx') /\ \A k \in Reqs \ {r} : rx'[k].retired = rx[k].retired
    BY <1>2, <1>7, RetireSubs
  <2>2. /\ \A q \in Reqs \ {r} : req'[q] = req[q]
        /\ req'[r].stage = req[r].stage /\ req'[r].asked = req[r].asked
        /\ req'[r].published = req[r].published
        /\ req'[r].delivery = req[r].delivery \/ req[r].delivery = "waiting"
    BY <1>7, DeliverTells
  <2>3. \A t \in Reqs : Dead(t) => Dead(t)'
    BY <1>7, AllDeadStay
  <2>4. ASSUME NEW q \in Reqs PROVE Answering(q)' /\ Course(q)'
    <3>1. Answering(q) /\ Course(q)
      BY DEF HInv
    <3>2. Course(q)'
      BY <1>1, <1>7, <2>1, <3>1 DEF Course, SameSubs
    <3>3. CASE q # r
      BY <1>1, <1>4, <1>7, <2>1, <2>2, <3>1, <3>2, <3>3 DEF Answering, Refused, SameSubs
    <3>4. CASE q = r
      BY <1>1, <1>3, <1>7, <2>2, <3>1, <3>2, <3>4 DEF Answering, Refused
    <3>. QED
      BY <3>3, <3>4
  <2>5. \A q \in Reqs : Alone(q)'
    BY <1>3, <1>4, <1>7 DEF Alone
  <2>6. ASSUME Eligible', NEW s \in Reqs PROVE Held(s)'
    <3>1. Held(s) /\ Ledger(r)
      BY <1>6, <2>6 DEF HInv, LInv, Ledgers
    <3>2. Dead(r)
      BY <1>1, <3>1 DEF Ledger, Placement, Early, Fresh, Dead, Exports
    <3>3. CASE s = r
      BY <1>1, <1>3, <1>7, <2>2, <2>3, <3>2, <3>3 DEF Held
    <3>4. CASE s # r
      BY <1>1, <1>3, <1>4, <1>7, <2>1, <2>2, <2>3, <3>1, <3>4 DEF Held
    <3>. QED
      BY <3>3, <3>4
  <2>. QED
    BY <1>6, <2>4, <2>5, <2>6 DEF HInv
<1>8. CASE pending' = r /\ go' = [go EXCEPT ![r].at = "job"] /\ UNCHANGED <<rx, req>>
  <2>1. go'[r].at = "job" /\ \A t \in Reqs \ {r} : go'[t] = go[t]
    BY <1>2, <1>8, GoesOn
  <2>2. \A t \in Reqs : Dead(t) => Dead(t)'
    BY <1>1, <2>1, AllDeadStay
  <2>3. ASSUME NEW q \in Reqs PROVE Answering(q)' /\ Course(q)'
    <3>1. Answering(q) /\ Course(q)
      BY DEF HInv
    <3>2. CASE q # r
      BY <1>1, <1>3, <1>4, <1>8, <2>1, <3>1, <3>2 DEF Answering, Refused, Course
    <3>3. CASE q = r
      BY <1>1, <1>3, <1>8, <2>1, <3>1, <3>3 DEF Answering, Refused, Course, Running
    <3>. QED
      BY <3>2, <3>3
  <2>4. \A q \in Reqs : Alone(q)'
    BY <1>3, <1>8 DEF Alone
  <2>5. ASSUME Eligible', NEW s \in Reqs PROVE Held(s)'
    <3>1. Held(s)
      BY <1>6, <2>5 DEF HInv
    <3>. QED
      BY <1>1, <1>3, <1>4, <1>8, <2>2, <3>1 DEF Held
  <2>. QED
    BY <1>6, <2>3, <2>4, <2>5 DEF HInv
<1>. QED
  BY <1>5, <1>7, <1>8
(* The result: the handle of a subscription is kept in place of the one    *)
(* before, which is dead by now; one that came back without is dropped.    *)
LEMMA ResultHolds ==
    ASSUME HInv, LInv, IInv, [Next]_vars, NEW r \in Reqs, SubscribeResult(r)
    PROVE  HInv'
<1>1. /\ UNCHANGED <<call, worker, urgent, executing, rust, lane, checking>>
      /\ checking = None /\ go[r].at = "posted" /\ go' = [go EXCEPT ![r].at = "done"]
      /\ pending' = None
  BY DEF SubscribeResult, Loop
<1>2. HandlesOK(rx) /\ ControlsOK(go) /\ Course(r) /\ Answering(r) /\ Session
  BY DEF IInv, HInv
<1>3. go'[r].at = "done" /\ \A t \in Reqs \ {r} : go'[t] = go[t]
  BY <1>1, <1>2, GoesOn
<1>4. pending = r /\ req[r].asked /\ ~Refused(r) /\ req[r].published # None
  BY <1>1, <1>2 DEF Course, Running, Answering, IInv, Unstarted
<1>5. \A q \in Reqs : q # None
  BY RxAssumption DEF Reqs
<1>6. /\ SameSubs(rx, rx')
      /\ rx[r].bound => /\ current' = r
                        /\ \A k \in Reqs : k = r \/ k # current => rx'[k].retired = rx[k].retired
      /\ ~rx[r].bound => /\ current' = current
                         /\ \A k \in Reqs \ {r} : rx'[k].retired = rx[k].retired
  BY ResultSubs
<1>7. /\ \A q \in Reqs \ {r} : req'[q] = req[q]
      /\ req'[r].stage = req[r].stage /\ req'[r].asked = req[r].asked
      /\ req'[r].published = req[r].published
      /\ req'[r].delivery = req[r].delivery \/ req[r].delivery = "waiting"
      /\ req'[r].result \in {req[r].result, "handle"} \/ ~rx[r].bound
  <2>1. \/ req' = req
        \/ req' = Deliver(r, "handle")
        \/ req' = Deliver(r, "refused") /\ ~rx[r].bound
    BY DEF SubscribeResult, NothingSubscribed, OutcomeUnknown, SubscribedInVain, Subscribed
  <2>. QED
    BY <2>1, DeliverTells
<1>8. Session' /\ (Eligible' <=> Eligible) /\ (Eligible => rust.state # "released")
  BY <1>1, <1>2, <1>6, LoopSession DEF Session
<1>9. \A t \in Reqs : Dead(t) => Dead(t)'
  BY <1>1, <1>3, AllDeadStay
<1>10. ASSUME NEW q \in Reqs PROVE Answering(q)' /\ Course(q)'
  <2>1. Answering(q) /\ Course(q)
    BY DEF HInv
  <2>2. CASE q # r
    BY <1>1, <1>3, <1>4, <1>5, <1>6, <1>7, <2>1, <2>2 DEF Answering, Refused, Course, SameSubs
  <2>3. CASE q = r
    <3>1. Course(r)'
      BY <1>1, <1>2, <1>3, <1>5, <1>6 DEF Course, Running, SameSubs
    <3>2. Refused(r)' => ~rx'[r].bound
      BY <1>4, <1>6, <1>7 DEF Refused, SameSubs
    <3>3. Answering(r)'
      BY <1>1, <1>2, <1>3, <1>4, <1>5, <1>7, <3>2 DEF Answering
    <3>. QED
      BY <2>3, <3>1, <3>3
  <2>. QED
    BY <2>2, <2>3
<1>11. \A q \in Reqs : Alone(q)'
  BY <1>1, <1>5 DEF Alone
<1>12. ASSUME Eligible', NEW s \in Reqs PROVE Held(s)'
  <2>1. Held(s) /\ Held(r) /\ Alone(r) /\ Ledger(r) /\ Course(s)
    BY <1>8, <1>12 DEF HInv, LInv, Ledgers
  <2>2. ASSUME ~(Dead(s)') PROVE s \in {pending', current'} /\ ~rx'[s].retired
    <3>1. ~Dead(s) /\ s \in {r, current} /\ ~rx[s].retired
      BY <1>4, <1>9, <2>1, <2>2 DEF Held
    <3>2. CASE rx[r].bound
      BY <1>4, <1>6, <2>1, <3>1, <3>2 DEF Alone
    <3>3. CASE ~rx[r].bound
      BY <1>1, <1>2, <1>6, <2>1, <3>1, <3>3 DEF Course, Ledger
    <3>. QED
      BY <3>2, <3>3
  <2>3. ASSUME pending' = s \/ checking' = s \/ ~req'[s].asked PROVE ~rx'[s].retired
    <3>1. s # r /\ ~req[s].asked
      BY <1>1, <1>4, <1>5, <1>7, <2>3
    <3>2. s # current
      BY <2>1, <3>1 DEF Course, IInv, Unstarted
    <3>. QED
      BY <1>6, <2>1, <3>1, <3>2 DEF Held
  <2>. QED
    BY <2>2, <2>3 DEF Held
<1>. QED
  BY <1>8, <1>10, <1>11, <1>12 DEF HInv

(* What the control goroutine of r does to itself and to its handle.       *)
LEMMA ControlCourse ==
    ASSUME HInv, LInv, IInv, NEW r \in Reqs,
           \/ Register(r) \/ Enqueue(r) \/ Answered(r) \/ TimesOut(r) \/ CancelJob(r)
           \/ Bind(r) \/ BindChecks(r)
    PROVE  /\ UNCHANGED goVars
           /\ \A t \in Reqs \ {r} : go'[t].at = go[t].at /\ rx'[t] = rx[t]
           /\ go[r].at \in Running /\ go[r].at # "posted" /\ go'[r].at \in Running
           /\ rx'[r].retired = rx[r].retired
           /\ Course(r)'
           /\ rx'[r].bound \/ ~rx'[r].gone => rx[r].bound \/ ~rx[r].gone \/ Register(r)
           /\ Register(r) /\ ~rx'[r].gone => (lane # None => Confirmed(lane))
<1>1. HandlesOK(rx) /\ ControlsOK(go) /\ Course(r)
  BY DEF IInv, HInv
<1>2. UNCHANGED goVars /\ go[r].at \in Running /\ go[r].at # "posted"
  BY DEF Register, Enqueue, Answered, TimesOut, CancelJob, Bind, BindChecks, Running
<1>3. \A t \in Reqs \ {r} : go'[t].at = go[t].at /\ rx'[t] = rx[t]
  BY <1>1
  DEF Register, Enqueue, Answered, TimesOut, CancelJob, Bind, BindChecks, Rollback, RetireSub, Looked,
      ControlsOK, ControlFields, HandlesOK, HandleFields
<1>4. Register(r) /\ ~rx'[r].gone => (lane # None => Confirmed(lane))
  BY <1>1, <1>2 DEF Register, Course
<1>5. CASE Register(r)
  BY <1>1, <1>2, <1>3, <1>4, <1>5
  DEF Register, Course, Running, goVars, ControlsOK, ControlFields, HandlesOK, HandleFields
<1>6. CASE Enqueue(r) \/ Answered(r) \/ TimesOut(r) \/ CancelJob(r)
  <2>1. \/ go'[r].at \in {"waiting", "returned"}
        \/ go'[r].at = go[r].at /\ go[r].at \in {"job", "registered", "waiting"}
    BY <1>1, <1>6 DEF Enqueue, Answered, TimesOut, CancelJob, ControlsOK, ControlFields
  <2>2. /\ rx'[r].bound = rx[r].bound /\ rx'[r].retired = rx[r].retired
        /\ rx[r].gone => rx'[r].gone
    BY <1>1, <1>6
    DEF Enqueue, Answered, TimesOut, CancelJob, Rollback, RetireSub, HandlesOK, HandleFields
  <2>3. Course(r)'
    BY <1>1, <1>2, <2>1, <2>2 DEF Course, Running, goVars
  <2>4. go'[r].at \in Running
    BY <2>1 DEF Running
  <2>. QED
    BY <1>2, <1>3, <1>4, <2>2, <2>3, <2>4
<1>7. CASE Bind(r) \/ BindChecks(r)
  <2>1. \/ /\ go[r].at = "returned" /\ rx[r].gone /\ go'[r].at = "posted" /\ rx' = rx
        \/ /\ go[r].at = "returned" /\ ~rx[r].gone /\ go'[r].at = "bound"
           /\ rx' = [rx EXCEPT ![r].bound = TRUE]
        \/ /\ go[r].at = "bound" /\ go'[r].at = "posted"
           /\ rx' = rx \/ rx' = [rx EXCEPT ![r].deaf = TRUE]
    BY <1>1, <1>7 DEF Bind, BindChecks, Looked, ControlsOK, ControlFields
  <2>2. /\ rx[r].bound => rx'[r].bound
        /\ go'[r].at = "bound" => rx'[r].bound /\ ~rx[r].gone
        /\ go'[r].at # "bound" => rx'[r].bound = rx[r].bound
        /\ rx'[r].gone = rx[r].gone /\ rx'[r].retired = rx[r].retired
    BY <1>1, <2>1 DEF HandlesOK, HandleFields
  <2>3. Course(r)'
    BY <1>1, <1>2, <2>1, <2>2 DEF Course, Running, goVars
  <2>4. go'[r].at \in Running
    BY <2>1 DEF Running
  <2>5. rx'[r].bound \/ ~rx'[r].gone => rx[r].bound \/ ~rx[r].gone
    BY <2>1, <2>2
  <2>. QED
    BY <1>2, <1>3, <1>4, <2>2, <2>3, <2>4, <2>5
<1>. QED
  BY <1>5, <1>6, <1>7

(* The control goroutines: a candidate is accepted when no other           *)
(* subscription is alive, and only the one that the call waits for sends   *)
(* its job.                                                                *)
LEMMA GoHolds ==
    ASSUME HInv, LInv, IInv, [Next]_vars, NEW r \in Reqs,
           \/ Register(r) \/ Enqueue(r) \/ Answered(r) \/ TimesOut(r) \/ CancelJob(r)
           \/ Bind(r) \/ BindChecks(r)
    PROVE  HInv'
<1>1. /\ UNCHANGED goVars
      /\ \A t \in Reqs \ {r} : go'[t].at = go[t].at /\ rx'[t] = rx[t]
      /\ go[r].at \in Running /\ go[r].at # "posted" /\ go'[r].at \in Running
      /\ rx'[r].retired = rx[r].retired
      /\ Course(r)'
      /\ rx'[r].bound \/ ~rx'[r].gone => rx[r].bound \/ ~rx[r].gone \/ Register(r)
      /\ Register(r) /\ ~rx'[r].gone => (lane # None => Confirmed(lane))
  BY ControlCourse
<1>2. /\ Session /\ Answering(r) /\ Course(r) /\ pending = r
      /\ go[r].at \notin {"none", "done"} /\ go'[r].at # "none"
  BY <1>1 DEF HInv, Course, Running
<1>3. ASSUME NEW t \in Reqs \ {r}, Dead(t) PROVE Dead(t)'
  <2>1. ~Enqueue(t)
    BY <1>1 DEF Enqueue, IInv, ControlsOK, ControlFields
  <2>. QED
    BY <1>3, <2>1, DeadStays
<1>4. ASSUME NEW q \in Reqs PROVE Answering(q)' /\ Course(q)'
  <2>1. Answering(q) /\ Course(q)
    BY DEF HInv
  <2>2. CASE q # r
    BY <1>1, <2>1, <2>2 DEF Answering, Refused, Course, goVars
  <2>3. CASE q = r
    BY <1>1, <1>2, <2>3 DEF Answering, Refused, goVars
  <2>. QED
    BY <2>2, <2>3
<1>5. Session'
  <2>1. urgent' = urgent \/ urgent' = Append(urgent, Job(r))
    BY DEF Register, Enqueue, Answered, TimesOut, CancelJob, Bind, BindChecks, Job
  <2>2. Job(r) \in Jobs /\ Job(r) # Release
    BY DEF Jobs, Job, Release
  <2>3. Occurs(urgent', Release) => Occurs(urgent, Release)
    <3>1. CASE urgent' = urgent
      BY <3>1
    <3>2. CASE urgent' = Append(urgent, Job(r))
      BY <2>2, <3>2, JoinsQueue
    <3>. QED
      BY <2>1, <3>1, <3>2
  <2>. QED
    BY <1>1, <1>2, <2>3 DEF Session, goVars
<1>6. ASSUME rust'.state # "released", NEW q \in Reqs PROVE Alone(q)'
  <2>1. SUFFICES ASSUME q = r, rx'[r].bound \/ ~rx'[r].gone PROVE \A t \in Reqs \ {r} : Dead(t)'
    BY <1>1, <1>2 DEF Alone, goVars
  <2>2. \A h \in Reqs : Ledger(h) /\ Alone(h)
    BY <1>1, <1>6 DEF HInv, LInv, Ledgers, goVars
  <2>3. CASE rx[r].bound \/ ~rx[r].gone
    BY <1>2, <1>3, <2>2, <2>3 DEF Alone
  <2>4. CASE rx[r].gone /\ ~rx[r].bound
    <3>1. Register(r) /\ ~rx'[r].gone
      <4>1. Register(r)
        BY <1>1, <2>1, <2>4
      <4>2. ~rx[r].bound /\ rx'[r].bound = rx[r].bound
        BY <2>4, <4>1 DEF Register, IInv, HandlesOK, HandleFields
      <4>. QED
        BY <2>1, <4>1, <4>2
    <3>2. lane # None => Confirmed(lane)
      BY <1>1, <3>1
    <3>3. ASSUME NEW t \in Reqs \ {r} PROVE Dead(t)
      <4>1. SUFFICES ASSUME ~Dead(t) PROVE FALSE
        OBVIOUS
      <4>2. lane = t /\ t # None
        BY <2>2, <4>1, RxAssumption DEF Ledger, Reqs
      <4>. QED
        BY <2>2, <3>2, <4>1, <4>2 DEF Confirmed, Ledger, Settled
    <3>. QED
      BY <1>3, <3>3
  <2>. QED
    BY <2>3, <2>4
<1>7. ASSUME Eligible', NEW s \in Reqs PROVE Held(s)'
  <2>1. Held(s) /\ Held(r)
    BY <1>1, <1>7 DEF HInv, Eligible, goVars
  <2>. QED
    BY <1>1, <1>2, <1>3, <2>1 DEF Held, goVars
<1>. QED
  BY <1>4, <1>5, <1>6, <1>7 DEF HInv

(* Who answers for the export is right at first, ...                       *)
LEMMA HoldsInit == ASSUME Init PROVE HInv
<1>1. \A q \in Reqs : q # None
  BY RxAssumption DEF Reqs
<1>2. /\ call = [ended |-> FALSE, allocated |-> TRUE, releasing |-> FALSE]
      /\ urgent = <<>> /\ executing = None /\ rust = [sub |-> None, state |-> "none"]
      /\ pending = None /\ current = None /\ checking = None
      /\ \A r \in Reqs : /\ req[r].stage = "idle" /\ ~req[r].asked /\ req[r].result = None
                         /\ go[r].at = "none" /\ rx[r].gone /\ ~rx[r].bound /\ ~rx[r].retired
  BY DEF Init, NewRequest, NewControl, NewHandle
<1>3. \A x : ~Occurs(urgent, x)
  BY <1>2 DEF Occurs
<1>4. \A r \in Reqs : Answering(r) /\ Course(r)
  BY <1>1, <1>2 DEF Answering, Refused, Course, Running
<1>5. Session
  BY <1>2, <1>3 DEF Session
<1>6. \A r \in Reqs : Alone(r) /\ Held(r)
  BY <1>1, <1>2, <1>3 DEF Alone, Held, Dead, Executing, Exports, Queued
<1>. QED
  BY <1>4, <1>5, <1>6 DEF HInv

(* ... and stays right.                                                    *)
LEMMA HoldsKept == ASSUME HInv, LInv, IInv, [Next]_vars PROVE HInv'
<1>1. CASE UNCHANGED vars
  <2>1. Steady /\ Session' /\ \A r \in Reqs : Answering(r)'
    BY <1>1 DEF vars, callerVars, Steady, Session, Answering, Refused, HInv, Eligible
  <2>. QED
    BY <2>1, SteadyHolds
<1>. QED
  BY <1>1, CallerHolds, RefuseHolds, PublishHolds, StartHolds, ResultHolds, EndHolds, GoHolds,
     WorkerHolds, OwnerHolds
  DEF Next, CallerNext, LoopNext, GoNext

-----------------------------------------------------------------------------
(* All that is known of a subscription is inductive.                       *)
LEMMA AllInductive == Spec => [](IInv /\ LInv /\ HInv)
<1>1. Init => IInv /\ LInv /\ HInv
  BY InvInit, LedgerInit, HoldsInit
<1>2. (IInv /\ LInv /\ HInv) /\ [Next]_vars => (IInv /\ LInv /\ HInv)'
  BY InvKept, LedgerKept, HoldsKept
<1>. QED
  BY <1>1, <1>2, PTL DEF Spec

(* While a call lives, what its session exports has an owner: the handle   *)
(* that the call keeps or waits for, which the lane still serves and which *)
(* has not lost the right to be read, for any number of subscribers, of    *)
(* cancellations and of lost answers.                                      *)
THEOREM ExportIsOwned == Spec => []ExportHasOwner
<1>1. IInv /\ LInv /\ HInv => ExportHasOwner
  <2>. SUFFICES ASSUME LInv, HInv, rust.state = "active", Eligible PROVE ExportHasOwner
    BY DEF ExportHasOwner
  <2>. DEFINE s == rust.sub
  <2>1. s \in Reqs /\ s # None
    BY RxAssumption DEF HInv, Session, Reqs
  <2>2. Ledger(s) /\ Held(s) /\ ~Dead(s)
    BY <2>1 DEF LInv, Ledgers, HInv, Dead, Exports
  <2>3. lane = s /\ ~rx[s].gone /\ ~rx[s].retired /\ s \in {pending, current} \ {None}
    BY <2>1, <2>2 DEF Ledger, Held
  <2>. QED
    BY <2>3 DEF ExportHasOwner
<1>. QED
  BY <1>1, AllInductive, PTL

(* A caller who was refused, or left without a handle, has no subscription:*)
(* its job is not executed and nothing is exported for it, however his     *)
(* cancellation, the 3 s of the goroutine and the worker race.             *)
THEOREM NoHandleNoExport == Spec => []NoHandleMeansNothing
<1>1. IInv /\ LInv /\ HInv => NoHandleMeansNothing
  <2>. SUFFICES ASSUME LInv, HInv, rust.state # "released", NEW r \in Reqs,
                       req[r].stage \in {"refused", "empty-handed"}
                PROVE  ~Exports(r) /\ ~Executing(r)
    BY DEF NoHandleMeansNothing, Exports, Executing
  <2>1. Ledger(r) /\ Answering(r) /\ Course(r)
    BY DEF LInv, Ledgers, HInv
  <2>2. go[r].at = "none" \/ (go[r].at = "done" /\ rx[r].gone)
    BY <2>1 DEF Answering, Course, Refused
  <2>3. CASE go[r].at = "none"
    BY <2>1, <2>3 DEF Ledger, Placement, Early, Fresh, Exports
  <2>4. CASE rx[r].gone
    BY <2>1, <2>4 DEF Ledger, Dead
  <2>. QED
    BY <2>2, <2>3, <2>4
<1>. QED
  BY <1>1, AllInductive, PTL

-----------------------------------------------------------------------------
(* Types.  A cancelled candidate gives the lane back to its predecessor,   *)
(* so what a control goroutine remembers of the lane is typed as well.     *)

Subscription == Reqs \cup {None}
Remembered == \A r \in Reqs : go[r].previous \in Subscription
Typed == TypeOK /\ Remembered

\* What a step may do to the variables that TypeOK speaks of.
Moves ==
    /\ worker' \in {worker, "ended", "reported"}
    /\ Len(urgent') <= UrgentCap
    /\ {pending', current', checking', lane'} \subseteq Subscription
    /\ \A r \in Reqs : go'[r].previous \in Subscription

LEMMA MovesTyped == ASSUME Typed, Moves PROVE Typed'
BY DEF Typed, TypeOK, Remembered, Moves, Subscription

(* The queue gets shorter, or longer by one when it has room.              *)
LEMMA RoomKept ==
    ASSUME NEW q \in Seq(Jobs), Len(q) <= UrgentCap
    PROVE  /\ q # <<>> => Len(Tail(q)) <= UrgentCap
           /\ Len(<<>>) <= UrgentCap
           /\ \A j : Len(q) < UrgentCap \/ Len(q) # UrgentCap => Len(Append(q, j)) <= UrgentCap
<1>1. UrgentCap \in Nat /\ Len(q) \in Nat
  BY RxAssumption
<1>2. q # <<>> => Len(Tail(q)) <= Len(q)
  OBVIOUS
<1>3. \A j : Len(Append(q, j)) = Len(q) + 1
  OBVIOUS
<1>. QED
  BY <1>1, <1>2, <1>3

LEMMA CallerTyped ==
    ASSUME Typed, CallerNext PROVE Moves
<1>1. UNCHANGED callerVars
  BY DEF CallerNext, Subscribe, CancelContext, Receive, GiveUp, Leave
<1>. QED
  BY <1>1 DEF callerVars, Typed, TypeOK, Remembered, Moves, Subscription

LEMMA LoopTyped ==
    ASSUME Typed, LInv, IInv, LoopNext PROVE Moves
<1>. USE DEF Typed, TypeOK, Remembered, Moves, Subscription
<1>1. ASSUME NEW r \in Reqs,
             RefuseSubscribe(r) \/ SameSubscription(r) \/ PublishSubscribe(r)
      PROVE  Moves
  <2>1. /\ UNCHANGED <<worker, urgent, pending, current, lane, go>>
        /\ checking' \in {checking, r}
    BY <1>1 DEF RefuseSubscribe, SameSubscription, PublishSubscribe, loopVars
  <2>. QED
    BY <2>1
<1>2. ASSUME NEW r \in Reqs, StartControl(r) \/ SubscribeResult(r) PROVE Moves
  <2>1. /\ UNCHANGED <<worker, urgent, lane>>
        /\ pending' \in {pending, r, None} /\ current' \in {current, r}
        /\ checking' \in {checking, None}
    BY <1>2 DEF StartControl, SubscribeResult, NothingSubscribed, OutcomeUnknown,
                SubscribedInVain, Subscribed
  <2>2. \A h \in Reqs : go'[h].previous = go[h].previous
    BY <1>2 DEF StartControl, SubscribeResult, IInv, ControlsOK, ControlFields
  <2>. QED
    BY <2>1, <2>2
<1>3. CASE Finish \/ ReleaseRetry \/ ReleaseResult \/ WorkerFailed
  <2>1. /\ UNCHANGED <<pending, current, checking, lane, go>>
        /\ worker' \in {worker, "reported"}
        /\ urgent' = urgent \/ (CanRelease /\ urgent' = Append(urgent, Release))
    BY <1>3 DEF Finish, ReleaseRetry, ReleaseResult, WorkerFailed, SubmitRelease, endVars, Release
  <2>2. Len(urgent') <= UrgentCap
    BY <2>1, RoomKept DEF LInv, JobsTyped, CanRelease
  <2>. QED
    BY <2>1, <2>2
<1>. QED
  BY <1>1, <1>2, <1>3 DEF LoopNext

LEMMA ControlTyped ==
    ASSUME Typed, LInv, IInv, GoNext PROVE Moves
<1>. USE DEF Typed, TypeOK, Remembered, Moves, Subscription
<1>1. PICK r \in Reqs : Register(r) \/ Enqueue(r) \/ Answered(r) \/ TimesOut(r) \/ CancelJob(r)
                        \/ Bind(r) \/ BindChecks(r)
  BY DEF GoNext
<1>2. UNCHANGED <<worker, pending, current, checking>>
  BY <1>1 DEF Register, Enqueue, Answered, TimesOut, CancelJob, Bind, BindChecks, goVars
<1>3. lane' \in {lane, r, go[r].previous}
  BY <1>1 DEF Register, Enqueue, Answered, TimesOut, CancelJob, Bind, BindChecks, LaneAfterRollback
<1>4. urgent' = urgent \/ (Len(urgent) # UrgentCap /\ urgent' = Append(urgent, Job(r)))
  BY <1>1 DEF Register, Enqueue, Answered, TimesOut, CancelJob, Bind, BindChecks, Job
<1>5. Len(urgent') <= UrgentCap
  BY <1>4, RoomKept DEF LInv, JobsTyped
<1>6. \A h \in Reqs : go'[h].previous \in {go[h].previous, lane}
  BY <1>1 DEF Register, Enqueue, Answered, TimesOut, CancelJob, Bind, BindChecks,
              IInv, ControlsOK, ControlFields
<1>. QED
  BY <1>2, <1>3, <1>5, <1>6

LEMMA WorkerTyped ==
    ASSUME Typed, LInv, IInv, WorkerNext PROVE Moves
<1>. USE DEF Typed, TypeOK, Remembered, Moves, Subscription
<1>1. UNCHANGED <<pending, current, checking>> /\ worker' \in {worker, "ended"}
  BY DEF WorkerNext, DropJob, TakeJob, SendJob, Subscribes, Controlled, Released, ExportFails,
         WorkerEnds, workerVars
<1>2. urgent' = urgent \/ (urgent # <<>> /\ urgent' = Tail(urgent)) \/ urgent' = <<>>
  BY DEF WorkerNext, DropJob, TakeJob, SendJob, Subscribes, Controlled, Released, ExportFails,
         WorkerEnds
<1>3. Len(urgent') <= UrgentCap
  BY <1>2, RoomKept DEF LInv, JobsTyped
<1>4. \A h \in Reqs : go'[h].previous = go[h].previous
  <2>. USE DEF IInv, ControlsOK, ControlFields
  <2>1. ASSUME NEW r, NEW answer, Finished(r, answer)
        PROVE  \A h \in Reqs : go'[h].previous = go[h].previous
    <3>1. go' = [go EXCEPT ![r].got = answer]
      BY <2>1 DEF Finished
    <3>. QED
      BY <3>1
  <2>2. CASE DropJob \/ SendJob \/ Subscribes
    BY <2>1, <2>2 DEF DropJob, SendJob, Subscribes
  <2>3. CASE TakeJob
    BY <2>3 DEF TakeJob
  <2>4. CASE Controlled \/ Released \/ ExportFails
    BY <2>4 DEF Controlled, Released, ExportFails
  <2>5. CASE WorkerEnds
    BY <2>5 DEF WorkerEnds
  <2>. QED
    BY <2>2, <2>3, <2>4, <2>5 DEF WorkerNext
<1>5. lane' \in {lane, None} \/ \E r \in Reqs : lane' = go[r].previous
  <2>1. ASSUME NEW r \in Reqs, NEW answer, Finished(r, answer)
        PROVE  lane' \in {lane, go[r].previous}
    BY <2>1 DEF Finished, LaneAfterRollback
  <2>2. urgent # <<>> /\ Head(urgent).op = "subscribe" => Head(urgent).id \in Reqs
    BY DEF LInv, JobsTyped, Jobs, Questions, Release
  <2>3. executing # None => executing.id \in Reqs
    BY DEF LInv, JobsTyped
  <2>4. CASE DropJob
    BY <2>1, <2>2, <2>4 DEF DropJob
  <2>5. CASE SendJob \/ Subscribes
    BY <2>1, <2>3, <2>5 DEF SendJob, Subscribes
  <2>6. CASE TakeJob \/ Controlled \/ Released \/ ExportFails \/ WorkerEnds
    BY <2>6 DEF TakeJob, Controlled, Released, ExportFails, WorkerEnds
  <2>. QED
    BY <2>4, <2>5, <2>6 DEF WorkerNext
<1>. QED
  BY <1>1, <1>3, <1>4, <1>5

LEMMA OwnerTyped ==
    ASSUME Typed, LInv, OwnerNext PROVE Moves
<1>. USE DEF Typed, TypeOK, Remembered, Moves, Subscription
<1>1. UNCHANGED ownerVars
  BY DEF OwnerNext, Observe, Ask
<1>2. urgent' = urgent \/ \E j : Len(urgent) < UrgentCap /\ urgent' = Append(urgent, j)
  BY DEF OwnerNext, Observe, Ask
<1>3. Len(urgent') <= UrgentCap
  BY <1>2, RoomKept DEF LInv, JobsTyped
<1>. QED
  BY <1>1, <1>3 DEF ownerVars

(* Every variable that names a subscription names one, and whoever sends a *)
(* job to the worker does it within the capacity of its urgent queue       *)
(* (rx_stream.go, pool.go).                                                *)
THEOREM RxTyped == Spec => []TypeOK
<1>1. Init => Typed
  BY RxAssumption DEF Init, Typed, TypeOK, Remembered, Subscription, NewControl
<1>2. Typed /\ (IInv /\ LInv /\ HInv) /\ [Next]_vars => Typed'
  <2>1. CASE UNCHANGED vars
    BY <2>1 DEF vars, callerVars, Typed, TypeOK, Remembered, Subscription
  <2>. QED
    BY <2>1, CallerTyped, LoopTyped, ControlTyped, WorkerTyped, OwnerTyped, MovesTyped DEF Next
<1>3. Typed => TypeOK
  BY DEF Typed
<1>. QED
  BY <1>1, <1>2, <1>3, AllInductive, PTL DEF Spec
=============================================================================
