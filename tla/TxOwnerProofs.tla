---------------------------- MODULE TxOwnerProofs ----------------------------
(***************************************************************************)
(* Who may speak on leg A, for any applications, callers, turn ids and any *)
(* capacity of the queue.                                                  *)
(*                                                                         *)
(* Three invariants are carried together.  IInv is the protocol of the two *)
(* atomic words between a caller of BeginPCM and the call loop: a caller   *)
(* who leaves with empty hands has told the loop so before the loop looks  *)
(* for the last time, and what is sent was published before, where the     *)
(* leaving caller looks.  DeliveredOK: a handle is delivered after it was  *)
(* published.  SInv is the ownership itself:                               *)
(*   - an accepted application is queued, active or done, and only one;    *)
(*   - of all commands and answers for prompts at most one exists, and the *)
(*     active application waits for it; what may sound is its prompt;      *)
(*   - of all begins at most one exists, that of the pending handle, and   *)
(*     it is never in the queue together with a start;                     *)
(*   - the turns of the process only grow, so that a turn that was seen to *)
(*     be over is over for good, and a handle may remember it.             *)
(*                                                                         *)
(* The handlers of the applications are functions on the record apps: each *)
(* is shown to keep Good, what SInv says of that record and of the queue   *)
(* with the commands the handler adds; startNextApplication is a fold over *)
(* the queue, whose result is good because no smallest set of positions    *)
(* could be the first to spoil it.                                         *)
(***************************************************************************)
EXTENDS TxOwner, TLAPS, FiniteSetTheorems, WellFoundedInduction, SequenceTheorems

(* The words of a request and the stage of its caller.                     *)
Words == {"turn", "stage", "asked", "delivery", "published", "sent", "result"}

Agreed(q) ==
    /\ DOMAIN q = Words
    /\ q.sent \in BOOLEAN
    /\ q.sent => q.published # None
    /\ q.stage \in {"leaving", "empty-handed"} => q.delivery = "abandoned"
    /\ q.stage = "empty-handed" => ~q.sent

AllAgree(f) == DOMAIN f = Reqs /\ \A r \in Reqs : Agreed(f[r])

IInv == AllAgree(req)
(* At most one request changes in a step: it is enough that it agrees.     *)
LEMMA OneChanges ==
    ASSUME NEW f, AllAgree(f), NEW r, NEW q, r \in Reqs => Agreed(q)
    PROVE  AllAgree([f EXCEPT ![r] = q])
BY DEF AllAgree

(* A result is delivered only to a caller who has not given up.            *)
LEMMA DeliverAgrees ==
    ASSUME NEW f, AllAgree(f), NEW r, NEW result
    PROVE  AllAgree(Deliver(f, r, result))
<1>. DEFINE d == Deliver(f, r, result)
<1>1. CASE f[r].delivery # "waiting"
  BY <1>1 DEF Deliver
<1>2. CASE f[r].delivery = "waiting"
  <2>1. d = [f EXCEPT ![r].delivery = "claimed", ![r].result = result]
    BY <1>2 DEF Deliver
  <2>2. DOMAIN d = Reqs /\ \A x \in Reqs : x # r => d[x] = f[x]
    BY <2>1 DEF AllAgree
  <2>3. ASSUME r \in Reqs PROVE Agreed(d[r])
    <3>1. Agreed(f[r])
      BY <2>3 DEF AllAgree
    <3>2. DOMAIN d[r] = Words /\ d[r].delivery = "claimed" /\ d[r].stage = f[r].stage
          /\ d[r].sent = f[r].sent /\ d[r].published = f[r].published
      BY <2>1, <2>3, <3>1 DEF Agreed, Words, AllAgree
    <3>. QED
      BY <1>2, <3>1, <3>2 DEF Agreed
  <2>. QED
    BY <2>2, <2>3 DEF AllAgree
<1>. QED
  BY <1>1, <1>2
-----------------------------------------------------------------------------
(* The caller: giving up is written before the last look at what is        *)
(* published, and only what is published was ever sent.                    *)
LEMMA CallerAgrees ==
    ASSUME IInv, NEW r \in Reqs,
           \/ \E t \in 1..MaxTurn : Begin(r, t)
           \/ CancelContext(r) \/ Receive(r) \/ GiveUp(r) \/ Leave(r) \/ Ask(r)
    PROVE  IInv'
<1>1. AllAgree(req) /\ Agreed(req[r])
  BY DEF IInv, AllAgree
<1>2. ASSUME NEW t \in 1..MaxTurn, Begin(r, t) PROVE IInv'
  BY <1>1, <1>2 DEF Begin, IInv, AllAgree, Agreed, Words
<1>3. CASE CancelContext(r)
  BY <1>1, <1>3 DEF CancelContext, IInv, AllAgree, Agreed, Words
<1>4. CASE Receive(r)
  BY <1>1, <1>4 DEF Receive, IInv, AllAgree, Agreed, Words
<1>5. CASE GiveUp(r)
  BY <1>1, <1>5 DEF GiveUp, IInv, AllAgree, Agreed, Words
<1>6. CASE Leave(r)
  BY <1>1, <1>6 DEF Leave, IInv, AllAgree, Agreed, Words
<1>7. CASE Ask(r)
  BY <1>1, <1>7 DEF Ask, IInv
<1>. QED
  BY <1>2, <1>3, <1>4, <1>5, <1>6, <1>7

(* The call loop: it publishes before it sends, and looks again between.   *)
LEMMA LoopAgrees ==
    ASSUME IInv,
           \/ \E r \in Reqs : RefuseBegin(r) \/ AdmitBegin(r) \/ PublishBegin(r) \/ SubmitBegin(r)
           \/ \E m \in replies : BeginResult(m) \/ Observe(m)
    PROVE  IInv'
<1>1. AllAgree(req)
  BY DEF IInv
<1>2. ASSUME NEW r \in Reqs, RefuseBegin(r) PROVE IInv'
  <2>1. AllAgree(Deliver(req, r, "refused"))
    BY <1>1, DeliverAgrees
  <2>2. req' = [Deliver(req, r, "refused") EXCEPT ![r].asked = TRUE]
    BY <1>2 DEF RefuseBegin
  <2>. HIDE DEF IInv
  <2>3. AllAgree(req')
    BY <2>1, <2>2 DEF AllAgree, Agreed, Words
  <2>. QED
    BY <2>3 DEF IInv, AllAgree, Agreed
<1>3. ASSUME NEW r \in Reqs, AdmitBegin(r) PROVE IInv'
  BY <1>1, <1>3 DEF AdmitBegin, IInv, AllAgree, Agreed, Words
<1>4. ASSUME NEW r \in Reqs, PublishBegin(r) PROVE IInv'
  <2>. DEFINE h == IF SameTurn(req[r].turn) THEN current ELSE r
  <2>0. r # None
    BY TxAssumption DEF Reqs
  <2>1. h # None /\ req' = [req EXCEPT ![r].published = h]
    BY <1>4, <2>0 DEF PublishBegin, SameTurn
  <2>. HIDE DEF h
  <2>. QED
    BY <1>1, <1>4, <2>1 DEF IInv, AllAgree, Agreed, Words
<1>5. ASSUME NEW r \in Reqs, SubmitBegin(r) PROVE IInv'
  <2>1. CASE MaySubmit(r) /\ CanSubmit(apps)
    <3>1. req' = [req EXCEPT ![r].sent = TRUE] /\ req[r].published # None
          /\ req[r].delivery = "waiting"
      BY <1>5, <2>1 DEF SubmitBegin, MaySubmit, GivenUp
    <3>. QED
      BY <1>1, <1>5, <3>1 DEF IInv, AllAgree, Agreed, Words
  <2>2. CASE ~(MaySubmit(r) /\ CanSubmit(apps))
    <3>1. req' = Deliver(req, r, "refused")
      BY <1>5, <2>2 DEF SubmitBegin
    <3>2. AllAgree(req')
      BY <1>1, <3>1, DeliverAgrees
    <3>. QED
      BY <3>2 DEF IInv, AllAgree, Agreed
  <2>. QED
    BY <2>1, <2>2
<1>6. ASSUME NEW m \in replies, BeginResult(m) PROVE IInv'
  <2>1. req' = req \/ \E x : req' = Deliver(req, m.id, x)
    BY <1>6 DEF BeginResult
  <2>2. AllAgree(req')
    BY <1>1, <2>1, DeliverAgrees
  <2>. QED
    BY <2>2 DEF IInv, AllAgree, Agreed
<1>7. ASSUME NEW m \in replies, Observe(m) PROVE IInv'
  BY <1>1, <1>7 DEF Observe, IInv
<1>. QED
  BY <1>2, <1>3, <1>4, <1>5, <1>6, <1>7

(* Nobody else writes the words of a request.                              *)
LEMMA OthersKeepRequests ==
    ASSUME AppNext \/ CallNext \/ WorkerNext \/ UNCHANGED vars
    PROVE  UNCHANGED req
<1>1. CASE AppNext
  BY <1>1
  DEF AppNext, Execute, Applications, SleepOver, BreakPlay, BreakRead, LastDigit, Digit,
      DigitDeadline, PlaybackDue, HardDeadline, Finish, MediaResult, pcmVars
<1>2. CASE CallNext
  BY <1>2 DEF CallNext, Finish, ReleaseRetry, WorkerFailed, ReleaseResult, pcmVars
<1>3. CASE WorkerNext
  BY <1>3 DEF WorkerNext, ExecuteCommand, TurnOver, PromptOver, WorkerEnds, pcmVars
<1>4. CASE UNCHANGED vars
  BY <1>4 DEF vars, pcmVars
<1>. QED
  BY <1>1, <1>2, <1>3, <1>4

LEMMA OthersAgree ==
    ASSUME IInv, AppNext \/ CallNext \/ WorkerNext \/ UNCHANGED vars
    PROVE  IInv'
  BY OthersKeepRequests DEF IInv

(* A caller of BeginPCM who gave up and was told that nothing was sent is  *)
(* right for ever, whatever the loop, the queue and the worker do.         *)
THEOREM CancelledIsCancelled == Spec => []CancelledMeansNothing
<1>1. Init => IInv
  <2>. SUFFICES ASSUME Init PROVE IInv
    OBVIOUS
  <2>1. req = [r \in Reqs |-> NewRequest] /\ Agreed(NewRequest)
    BY DEF Init, NewRequest, Agreed, Words
  <2>. QED
    BY <2>1 DEF IInv, AllAgree
<1>2. IInv /\ [Next]_vars => IInv'
  BY CallerAgrees, LoopAgrees, OthersAgree DEF Next, CallerNext, PcmNext
<1>3. IInv => CancelledMeansNothing
  BY DEF IInv, AllAgree, Agreed, CancelledMeansNothing
<1>. QED
  BY <1>1, <1>2, <1>3, PTL DEF Spec
-----------------------------------------------------------------------------
(* The applications and their prompts.                                     *)

PromptOps == {"start", "stop", "status"}
Commands == [op : PromptOps \cup {"begin", "interrupt", "release"}, id : Nat]
Entries == [job : Jobs, kind : {"wait", "play", "read"}]
Applied == [queue : Seq(Entries), active : Actives \cup {None}, last : Nat,
            submitted : Seq(Commands), accepted : SUBSET Jobs, done : [Jobs -> Nat]]

(* An accepted application waits, runs or is over, and only one of them.   *)
Active(a, j) == a.active # None /\ (a.active # None => a.active.job = j)
Placed(a, j) ==
    IF j \in a.accepted
    THEN \/ Queued(a, j) /\ ~Active(a, j) /\ a.done[j] = 0
         \/ ~Queued(a, j) /\ Active(a, j) /\ a.done[j] = 0
         \/ ~Queued(a, j) /\ ~Active(a, j) /\ a.done[j] = 1
    ELSE ~Queued(a, j) /\ ~Active(a, j) /\ a.done[j] = 0
Once(a) ==
    /\ \A i, k \in 1..Len(a.queue) : a.queue[i].job = a.queue[k].job => i = k
    /\ \A j \in Jobs : Placed(a, j)

(* U is the urgent queue with what this step adds, R are the answers: of   *)
(* all commands for prompts at most one is anywhere, and it is the one the *)
(* active application waits for.                                           *)
Awaited(a, id) ==
    a.active # None /\ (a.active # None => a.active.inflight /\ a.active.id = id /\ id # 0)
AwaitedOK(a, U, R) ==
    /\ \A i \in 1..Len(U) : U[i].op \in PromptOps => Awaited(a, U[i].id)
    /\ \A m \in R : m.op \in PromptOps => Awaited(a, m.id)
    /\ \A i, k \in 1..Len(U) : U[i].op \in PromptOps /\ U[k].op \in PromptOps => i = k
    /\ \A m, n \in R : m.op \in PromptOps /\ n.op \in PromptOps => m = n
    /\ \A i \in 1..Len(U) : \A m \in R : ~(U[i].op \in PromptOps /\ m.op \in PromptOps)

ActiveOK(a) ==
    a.active # None =>
        /\ a.active.id # 0 <=> a.active.kind \in Prompting
        /\ a.active.due => a.active.id # 0
        /\ a.active.freed => ~rust.open

(* What is not yet known to be over belongs to the active application, and *)
(* starts and begins are never in the queue together.                      *)
Unfinished(a) == a.active # None /\ (a.active # None => a.active.state \notin Final)
SoundOK(a, U, R) ==
    /\ rust.state = "running" =>
          Unfinished(a) /\ rust.play # 0 /\ (a.active # None => a.active.id = rust.play)
    /\ \A i \in 1..Len(U) : U[i].op = "start" =>
          /\ rust.state # "running" /\ ~rust.speaking /\ Unfinished(a)
          /\ \A k \in 1..Len(U) : U[k].op # "begin"
    /\ \A i \in 1..Len(U) : U[i].op = "begin" => rust.state # "running" /\ pending # None
    /\ \A m \in R : m.op \in PromptOps =>
          /\ m.state \in Final \cup {"running", "error"}
          /\ m.state \in Final => rust.state # "running"

Good(a, R) ==
    /\ a \in Applied /\ Once(a) /\ ActiveOK(a)
    /\ \A i \in 1..Len(a.submitted) : a.submitted[i].op \in PromptOps
    /\ worker # "up" => a.submitted = <<>>
    /\ Len(urgent) + Len(a.submitted) <= UrgentCap
    /\ AwaitedOK(a, urgent \o a.submitted, R)
    /\ SoundOK(a, urgent \o a.submitted, R)

(* What the handlers know of the rest of the state.                        *)
Setting ==
    /\ urgent \in Seq(Commands)
    /\ ~rust.open => rust.state # "running"
    /\ ~call.ended /\ worker = "up" /\ ~OwnsTX => ~rust.speaking

(* The record of the active application changes, but not what it waits     *)
(* for; its prompt is known to be over only when it is.                    *)
LEMMA ChangeActive ==
    ASSUME NEW a, NEW R, Good(a, R), a.active # None, NEW x \in Actives,
           x.job = a.active.job, x.kind = a.active.kind, x.id = a.active.id,
           x.inflight = a.active.inflight, x.due => x.id # 0, x.freed => ~rust.open,
           \/ x.state = a.active.state
           \/ /\ x.state \in Final => rust.state # "running"
              /\ ~a.active.inflight
    PROVE  Good([a EXCEPT !.active = x], R)
<1>. DEFINE b == [a EXCEPT !.active = x]
<1>1. a \in Applied /\ a.active \in Actives /\ x # None
  BY NoneIsNoApplication DEF Good, Applied
<1>2. /\ b \in Applied /\ b.active = x /\ b.queue = a.queue /\ b.submitted = a.submitted
      /\ b.accepted = a.accepted /\ b.done = a.done
  BY <1>1 DEF Applied
<1>. HIDE DEF b
<1>3. Once(b)
  BY <1>1, <1>2 DEF Good, Once, Placed, Active, Queued
<1>4. ActiveOK(b)
  BY <1>1, <1>2 DEF Good, ActiveOK
<1>. DEFINE U == urgent \o a.submitted
<1>5. AwaitedOK(b, U, R)
  BY <1>1, <1>2 DEF Good, AwaitedOK, Awaited
<1>6. SoundOK(b, U, R)
  <2>1. SoundOK(a, U, R) /\ AwaitedOK(a, U, R)
    BY DEF Good
  <2>2. (rust.state = "running" => x.state \notin Final)
    BY <2>1 DEF SoundOK, Unfinished
  <2>3. ASSUME NEW i \in 1..Len(U), U[i].op = "start" PROVE x.state \notin Final
    <3>1. a.active.inflight
      BY <2>1, <2>3 DEF AwaitedOK, Awaited, PromptOps
    <3>. QED
      BY <2>1, <2>3, <3>1 DEF SoundOK, Unfinished
  <2>. HIDE DEF U
  <2>. QED
    BY <1>1, <1>2, <2>1, <2>2, <2>3 DEF SoundOK, Unfinished
<1>. QED
  BY <1>2, <1>3, <1>4, <1>5, <1>6 DEF Good, b

(* One more command for the prompt, when none is awaited.                  *)
LEMMA QueueAppend ==
    ASSUME urgent \in Seq(Commands), NEW s \in Seq(Commands), NEW c \in Commands
    PROVE  /\ urgent \o s \in Seq(Commands)
           /\ urgent \o Append(s, c) = Append(urgent \o s, c)
           /\ Len(Append(urgent \o s, c)) = Len(urgent \o s) + 1
           /\ Append(urgent \o s, c)[Len(urgent \o s) + 1] = c
           /\ \A i \in 1..Len(urgent \o s) : Append(urgent \o s, c)[i] = (urgent \o s)[i]
  OBVIOUS

(* A prompt that is not busy, or whose session is gone, makes no sound.    *)
LEMMA NotBusyIsSilent ==
    ASSUME Setting, NEW a, NEW R, Good(a, R), a.active # None,
           ~Busy(a) \/ (a.active.freed /\ ~a.active.inflight)
    PROVE  rust.state # "running" /\ (a.active.id = 0 \/ ~a.active.inflight)
  BY DEF Good, Setting, Busy, SoundOK, Unfinished, ActiveOK

(* An application is completed when its prompt is silent.                  *)
LEMMA CompleteGood ==
    ASSUME NEW a, NEW R, Good(a, R), a.active # None,
           rust.state # "running", a.active.id = 0 \/ ~a.active.inflight
    PROVE  Good(Complete(a), R) /\ Complete(a).active = None
           /\ Complete(a).queue = a.queue /\ Complete(a).submitted = a.submitted
<1>. DEFINE b == Complete(a)
            U == urgent \o a.submitted
<1>1. /\ a \in Applied /\ a.active \in Actives /\ Once(a)
      /\ ActiveOK(a) /\ AwaitedOK(a, U, R) /\ SoundOK(a, U, R)
  BY DEF Good, Applied
<1>2. a.active.job \in Jobs
  BY <1>1 DEF Actives
<1>3. Placed(a, a.active.job)
  BY <1>1, <1>2 DEF Once
<1>4. a.active.job \in a.accepted /\ a.done[a.active.job] = 0 /\ ~Queued(a, a.active.job)
  BY <1>3 DEF Placed, Active
<1>5. /\ b \in Applied /\ b.active = None /\ b.queue = a.queue /\ b.submitted = a.submitted
      /\ b.accepted = a.accepted /\ b.done[a.active.job] = 1
      /\ \A j \in Jobs : j # a.active.job => b.done[j] = a.done[j]
  <2>. DEFINE d == [a.done EXCEPT ![a.active.job] = @ + 1]
  <2>1. d \in [Jobs -> Nat] /\ d[a.active.job] = 1
        /\ \A j \in Jobs : j # a.active.job => d[j] = a.done[j]
    BY <1>1, <1>2, <1>4 DEF Applied
  <2>2. b = [a EXCEPT !.done = d, !.active = None]
    BY <1>1 DEF Complete, Applied
  <2>. HIDE DEF d, b
  <2>. QED
    BY <1>1, <2>1, <2>2 DEF Applied
<1>. HIDE DEF b, U
<1>8. Once(b)
  <2>1. ASSUME NEW j \in Jobs PROVE Placed(b, j)
    <3>1. Placed(a, j) /\ (Queued(b, j) <=> Queued(a, j)) /\ ~Active(b, j)
      BY <1>1, <1>5 DEF Once, Queued, Active
    <3>2. CASE j = a.active.job
      BY <1>4, <1>5, <3>1, <3>2 DEF Placed
    <3>3. CASE j # a.active.job
      BY <1>5, <3>1, <3>3 DEF Placed, Active
    <3>. QED
      BY <3>2, <3>3
  <2>. QED
    BY <1>1, <1>5, <2>1 DEF Once
<1>9. /\ \A i \in 1..Len(U) : U[i].op \notin PromptOps
      /\ \A m \in R : m.op \notin PromptOps
  BY <1>1 DEF AwaitedOK, Awaited
<1>10. AwaitedOK(b, U, R)
  BY <1>9 DEF AwaitedOK
<1>11. SoundOK(b, U, R)
  BY <1>1, <1>9 DEF SoundOK, PromptOps
<1>12. ActiveOK(b)
  BY <1>5 DEF ActiveOK
<1>. QED
  BY <1>5, <1>8, <1>10, <1>11, <1>12 DEF Good, b, U

LEMMA SubmitGood ==
    ASSUME Setting, NEW a, NEW R, Good(a, R), a.active # None, a.active.id # 0,
           ~a.active.inflight, CanSubmit(a), NEW op \in PromptOps,
           op = "start" => /\ rust.state # "running" /\ ~rust.speaking
                           /\ Unfinished(a) /\ pending = None
    PROVE  Good(Submit(a, op), R)
<1>. DEFINE b == Submit(a, op)
            U == urgent \o a.submitted
            V == urgent \o b.submitted
            c == [op |-> op, id |-> a.active.id]
<1>1. /\ a \in Applied /\ a.active \in Actives /\ Once(a)
      /\ ActiveOK(a) /\ AwaitedOK(a, U, R) /\ SoundOK(a, U, R)
      /\ a.submitted \in Seq(Commands)
  BY DEF Good, Applied
<1>2. c \in Commands /\ c.op \in PromptOps
  BY <1>1 DEF Commands, PromptOps, Actives
<1>. DEFINE x == [a.active EXCEPT !.inflight = TRUE, !.due = FALSE]
<1>3. /\ x \in Actives /\ x # None /\ x.job = a.active.job /\ x.kind = a.active.kind
      /\ x.id = a.active.id /\ x.state = a.active.state /\ x.inflight /\ ~x.due
      /\ x.freed = a.active.freed
  BY <1>1, NoneIsNoApplication DEF Actives
<1>4. /\ b \in Applied /\ b.active = x /\ b.queue = a.queue /\ b.accepted = a.accepted
      /\ b.done = a.done /\ b.submitted = Append(a.submitted, c)
  <2>1. b = [a EXCEPT !.submitted = Append(a.submitted, c), !.active = x]
    BY <1>1 DEF Submit, Applied, Actives
  <2>2. Append(a.submitted, c) \in Seq(Commands)
    BY <1>1, <1>2
  <2>. HIDE DEF x, c, b
  <2>. QED
    BY <1>1, <1>3, <2>1, <2>2 DEF Applied
<1>5. /\ U \in Seq(Commands) /\ Len(V) = Len(U) + 1 /\ V[Len(U) + 1] = c
      /\ \A i \in 1..Len(U) : V[i] = U[i]
  BY <1>1, <1>2, <1>4, QueueAppend DEF Setting
<1>6. /\ \A i \in 1..Len(U) : U[i].op \notin PromptOps
      /\ \A m \in R : m.op \notin PromptOps
  BY <1>1 DEF AwaitedOK, Awaited
<1>7. Len(U) \in Nat
  BY <1>5
<1>8. c.op = op /\ c.op # "begin" /\ c.id = x.id
  BY <1>3 DEF PromptOps
<1>. HIDE DEF b, U, V, c, x
<1>9. \A i \in 1..Len(V) : IF i = Len(U) + 1 THEN V[i] = c ELSE i \in 1..Len(U) /\ V[i] = U[i]
  BY <1>5, <1>7
<1>10. Once(b)
  BY <1>1, <1>3, <1>4 DEF Once, Placed, Active, Queued
<1>11. ActiveOK(b)
  BY <1>1, <1>3, <1>4 DEF ActiveOK
<1>12. AwaitedOK(b, V, R)
  BY <1>2, <1>3, <1>4, <1>6, <1>8, <1>9 DEF AwaitedOK, Awaited
<1>13. SoundOK(b, V, R)
  <2>1. \A i \in 1..Len(V) : V[i].op = "begin" => i \in 1..Len(U) /\ V[i] = U[i]
    BY <1>8, <1>9
  <2>2. Unfinished(b) <=> Unfinished(a)
    BY <1>3, <1>4 DEF Unfinished
  <2>3. ASSUME NEW i \in 1..Len(V), V[i].op = "start"
        PROVE  /\ rust.state # "running" /\ ~rust.speaking /\ Unfinished(a)
               /\ \A k \in 1..Len(V) : V[k].op # "begin"
    BY <1>1, <1>6, <1>8, <1>9, <2>1, <2>3 DEF SoundOK, PromptOps
  <2>. QED
    BY <1>1, <1>3, <1>4, <2>1, <2>2, <2>3 DEF SoundOK
<1>14. \A i \in 1..Len(b.submitted) : b.submitted[i].op \in PromptOps
  BY <1>1, <1>2, <1>4 DEF Good
<1>15. worker = "up" /\ Len(urgent) + Len(b.submitted) <= UrgentCap
  <2>1. Len(b.submitted) = Len(a.submitted) + 1 /\ Len(a.submitted) \in Nat /\ Len(urgent) \in Nat
    BY <1>1, <1>2, <1>4 DEF Setting
  <2>. QED
    BY <2>1, TxAssumption DEF CanSubmit
<1>. QED
  BY <1>4, <1>10, <1>11, <1>12, <1>13, <1>14, <1>15 DEF Good, b, V

LEMMA SubmitOrRetryGood ==
    ASSUME Setting, NEW a, NEW R, Good(a, R), a.active # None, a.active.id # 0,
           ~a.active.inflight, NEW op \in {"stop", "status"}
    PROVE  Good(SubmitOrRetry(a, op), R)
<1>. DEFINE x == [a.active EXCEPT !.due = TRUE]
<1>1. a \in Applied /\ a.active \in Actives /\ ActiveOK(a)
  BY DEF Good, Applied
<1>2. /\ x \in Actives /\ x.job = a.active.job /\ x.kind = a.active.kind /\ x.id = a.active.id
      /\ x.inflight = a.active.inflight /\ x.state = a.active.state /\ x.freed = a.active.freed
  BY <1>1 DEF Actives
<1>3. [a EXCEPT !.active.due = TRUE] = [a EXCEPT !.active = x]
  BY <1>1 DEF Applied
<1>. HIDE DEF x
<1>4. Good([a EXCEPT !.active = x], R)
  BY <1>1, <1>2, ChangeActive DEF ActiveOK
<1>. QED
  BY <1>3, <1>4, SubmitGood DEF SubmitOrRetry, CanSubmit, PromptOps

LEMMA StopPromptGood ==
    ASSUME Setting, NEW a, NEW R, Good(a, R), a.active # None, a.active.id # 0
    PROVE  Good(StopPrompt(a), R)
<1>. DEFINE x == [a.active EXCEPT !.stop = TRUE]
            b == [a EXCEPT !.active = x]
<1>1. a \in Applied /\ a.active \in Actives /\ ActiveOK(a)
  BY DEF Good, Applied
<1>2. /\ x \in Actives /\ x.job = a.active.job /\ x.kind = a.active.kind /\ x.id = a.active.id
      /\ x.inflight = a.active.inflight /\ x.state = a.active.state /\ x.freed = a.active.freed
      /\ x.due = a.active.due /\ x # None
  BY <1>1, NoneIsNoApplication DEF Actives
<1>3. [a EXCEPT !.active.stop = TRUE] = b /\ b.active = x
  BY <1>1 DEF Applied
<1>. HIDE DEF x
<1>4. Good(b, R)
  BY <1>1, <1>2, ChangeActive DEF ActiveOK
<1>. HIDE DEF b
<1>5. ~b.active.inflight => Good(SubmitOrRetry(b, "stop"), R)
  BY <1>2, <1>3, <1>4, SubmitOrRetryGood
<1>. QED
  BY <1>2, <1>3, <1>4, <1>5 DEF StopPrompt
-----------------------------------------------------------------------------
(* The fold of startNextApplication is a recursive function on the sets of *)
(* positions; that it exists, and what it keeps, follow by looking at a    *)
(* smallest set for which it would not.                                    *)

Positions(L) == IsFiniteSet(L) /\ L \subseteq Nat

LEMMA SmallestSubset ==
    ASSUME NEW L, Positions(L), NEW F, F \subseteq SUBSET L, F # {}
    PROVE  \E s \in F : \A t \in F : t \subseteq s => t = s
<1>0. IsFiniteSet(L)
  BY DEF Positions
<1>1. F \subseteq FiniteSubsetsOf(L)
  BY <1>0, FS_Subset DEF FiniteSubsetsOf
<1>2. PICK s \in F : \A t \in F : ~(<<t, s>> \in StrictSubsetOrdering(L))
  BY <1>0, <1>1, WFMin, FS_StrictSubsetOrderingWellFounded
<1>3. ASSUME NEW t \in F, t \subseteq s, t # s PROVE FALSE
  BY <1>2, <1>3 DEF StrictSubsetOrdering
<1>. QED
  BY <1>3

LEMMA MaxIsLast ==
    ASSUME NEW s, Positions(s), s # {}
    PROVE  Max(s) \in s /\ \A y \in s : y <= Max(s)
<1>. DEFINE Above(x) == {y \in s : y > x}
            F == {Above(x) : x \in s}
<1>1. F # {} /\ F \subseteq SUBSET s
  OBVIOUS
<1>. HIDE DEF F
<1>2. PICK t \in F : \A u \in F : u \subseteq t => u = t
  BY <1>1, SmallestSubset
<1>. USE DEF F
<1>3. PICK x \in s : t = Above(x)
  OBVIOUS
<1>4. ASSUME NEW y \in s, y > x PROVE FALSE
  <2>0. s \subseteq Nat
    BY DEF Positions
  <2>1. Above(y) \in F
    OBVIOUS
  <2>2. x \in Nat /\ y \in Nat /\ y > x
    BY <1>4, <2>0
  <2>3. Above(y) \subseteq Above(x)
    <3>1. \A z \in s : z > y => z > x
      BY <2>0, <2>2
    <3>. QED
      BY <3>1
  <2>4. y \in Above(x) /\ y \notin Above(y)
    BY <2>2
  <2>. HIDE DEF Above, F
  <2>. QED
    BY <1>2, <1>3, <2>1, <2>3, <2>4
<1>5. \E m \in s : \A y \in s : m >= y
  BY <1>4 DEF Positions
<1>. QED
  BY <1>5 DEF Max, Positions

Rest(s) == s \ {Max(s)}
Round(b, e) == IF b.active # None THEN b ELSE Start([b EXCEPT !.queue = Tail(@)], e)
RoundStep(f, a, s) == IF s = {} THEN a ELSE Round(f[Rest(s)], a.queue[Max(s)])
Rounds(f, a, L) == \A s \in SUBSET L : f[s] = RoundStep(f, a, s)

LEMMA RestIsSmaller ==
    ASSUME NEW L, Positions(L), NEW s \in SUBSET L, s # {}
    PROVE  Max(s) \in s /\ Rest(s) \subseteq s /\ Rest(s) # s
<1>1. Positions(s)
  BY FS_Subset DEF Positions
<1>. QED
  BY <1>1, MaxIsLast DEF Rest

LEMMA RoundsAgree ==
    ASSUME NEW a, NEW L, Positions(L), NEW U \in SUBSET L, NEW V \in SUBSET L,
           NEW f, NEW g, Rounds(f, a, U), Rounds(g, a, V)
    PROVE  \A s \in SUBSET (U \cap V) : f[s] = g[s]
<1>. DEFINE F == {s \in SUBSET (U \cap V) : f[s] # g[s]}
<1>1. SUFFICES ASSUME F # {} PROVE FALSE
  OBVIOUS
<1>2. PICK s \in F : \A t \in F : t \subseteq s => t = s
  <2>1. F \subseteq SUBSET L
    OBVIOUS
  <2>. HIDE DEF F
  <2>. QED
    BY <1>1, <2>1, SmallestSubset
<1>3. f[s] = RoundStep(f, a, s) /\ g[s] = RoundStep(g, a, s)
  BY DEF Rounds
<1>4. s # {} /\ s \in SUBSET L
  BY <1>3 DEF RoundStep
<1>5. Rest(s) \in SUBSET (U \cap V) /\ Rest(s) \notin F
  BY <1>2, <1>4, RestIsSmaller
<1>6. f[Rest(s)] = g[Rest(s)]
  BY <1>5
<1>. QED
  BY <1>3, <1>4, <1>6 DEF RoundStep

LEMMA RoundsExist ==
    ASSUME NEW a, NEW L, Positions(L)
    PROVE  \E f : Rounds(f, a, L)
<1>. DEFINE F == {U \in SUBSET L : ~\E f : Rounds(f, a, U)}
<1>1. SUFFICES ASSUME F # {} PROVE FALSE
  OBVIOUS
<1>2. PICK U \in F : \A t \in F : t \subseteq U => t = U
  <2>1. F \subseteq SUBSET L
    OBVIOUS
  <2>. HIDE DEF F
  <2>. QED
    BY <1>1, <2>1, SmallestSubset
<1>. DEFINE h(s) == CHOOSE f : Rounds(f, a, s)
            g == [s \in SUBSET U |->
                     IF s = {} THEN a ELSE Round(h(Rest(s))[Rest(s)], a.queue[Max(s)])]
<1>3. ASSUME NEW s \in SUBSET U, s # U PROVE Rounds(h(s), a, s)
  <2>1. \E f : Rounds(f, a, s)
    BY <1>2, <1>3
  <2>. QED
    BY <2>1
<1>. HIDE DEF h
<1>4. ASSUME NEW s \in SUBSET U, s # {}
      PROVE  Rest(s) \in SUBSET U /\ Rest(s) # U /\ Rest(s) \in SUBSET s
  BY <1>4, RestIsSmaller
<1>5. ASSUME NEW s \in SUBSET U PROVE g[s] = RoundStep(g, a, s)
  <2>1. CASE s = {}
    BY <2>1 DEF RoundStep
  <2>2. CASE s # {}
    <3>. DEFINE r == Rest(s)
    <3>1. r \in SUBSET U /\ r # U /\ r \in SUBSET L
      BY <2>2, <1>4
    <3>2. Rounds(h(r), a, r)
      BY <1>3, <3>1
    <3>3. h(r)[r] = RoundStep(h(r), a, r)
      BY <3>2 DEF Rounds
    <3>. HIDE DEF r
    <3>4. g[r] = h(r)[r]
      <4>1. CASE r = {}
        BY <3>1, <3>3, <4>1 DEF RoundStep
      <4>2. CASE r # {}
        <5>. DEFINE q == Rest(r)
        <5>1. q \in SUBSET r /\ q \in SUBSET U /\ q # U /\ q \in SUBSET L
          BY <3>1, <4>2, <1>4
        <5>2. Rounds(h(q), a, q)
          BY <1>3, <5>1
        <5>3. q \in SUBSET (r \cap q)
          BY <5>1
        <5>4. h(r)[q] = h(q)[q]
          BY <3>1, <3>2, <5>1, <5>2, <5>3, RoundsAgree
        <5>5. g[r] = Round(h(q)[q], a.queue[Max(r)])
          BY <3>1, <4>2
        <5>6. h(r)[r] = Round(h(r)[q], a.queue[Max(r)])
          BY <3>3, <4>2 DEF RoundStep
        <5>. QED
          BY <5>4, <5>5, <5>6
      <4>. QED
        BY <4>1, <4>2
    <3>5. g[s] = Round(h(r)[r], a.queue[Max(s)])
      BY <2>2 DEF r
    <3>. QED
      BY <2>2, <3>4, <3>5 DEF RoundStep, r
  <2>. QED
    BY <2>1, <2>2
<1>6. Rounds(g, a, U)
  BY <1>5 DEF Rounds
<1>. HIDE DEF g
<1>. QED
  BY <1>2, <1>6

LEMMA StartNextFolds ==
    ASSUME NEW a, a.queue \in Seq(Entries), ~call.ended
    PROVE  \E f : Rounds(f, a, 1..Len(a.queue)) /\ StartNext(a) = f[1..Len(a.queue)]
<1>. DEFINE L == 1..Len(a.queue)
<1>0. L = DOMAIN a.queue /\ Positions(L)
  BY FS_Interval DEF Positions
<1>. HIDE DEF L
<1>1. PICK f : Rounds(f, a, L)
  BY <1>0, RoundsExist
<1>. DEFINE g == [s \in SUBSET L |-> f[s]]
<1>2. g = [s \in SUBSET L |-> RoundStep(g, a, s)]
  <2>1. ASSUME NEW s \in SUBSET L PROVE g[s] = RoundStep(g, a, s)
    <3>1. f[s] = RoundStep(f, a, s)
      BY <1>1 DEF Rounds
    <3>2. s # {} => Rest(s) \in SUBSET L
      BY <1>0, RestIsSmaller
    <3>. QED
      BY <3>1, <3>2 DEF RoundStep
  <2>. QED
    BY <2>1
<1>. HIDE DEF g
<1>3. \E it : it = [s \in SUBSET L |-> RoundStep(it, a, s)] /\ StartNext(a) = it[L]
  BY <1>0, <1>2 DEF StartNext, FoldLeft, MapThenFoldSet, RoundStep, Round, Rest
<1>. QED
  BY <1>3 DEF Rounds, L

(* The first application of the queue becomes active.                      *)
LEMMA PopGood ==
    ASSUME NEW a, NEW R, Good(a, R), a.active = None, a.queue # <<>>,
           NEW x \in Actives, x.job = Head(a.queue).job, x.state = "starting",
           ~x.inflight, ~x.due, ~x.freed, (x.id # 0 <=> x.kind \in Prompting),
           NEW b \in Applied, b.queue = Tail(a.queue), b.active = x,
           b.submitted = a.submitted, b.accepted = a.accepted, b.done = a.done
    PROVE  Good(b, R)
<1>. DEFINE U == urgent \o a.submitted
            q == a.queue
<1>1. /\ q \in Seq(Entries) /\ q # <<>> /\ Once(a) /\ AwaitedOK(a, U, R) /\ SoundOK(a, U, R)
      /\ a.accepted \subseteq Jobs /\ a.done \in [Jobs -> Nat]
  BY DEF Good, Applied
<1>2. x # None
  BY NoneIsNoApplication
<1>3. /\ Len(q) \in Nat \ {0} /\ Len(b.queue) = Len(q) - 1 /\ x.job = q[1].job
      /\ \A i \in 1..(Len(q) - 1) : b.queue[i] = q[i + 1]
  BY <1>1
<1>. HIDE DEF U, q
<1>4. \A i, k \in 1..Len(q) : q[i].job = q[k].job => i = k
  BY <1>1 DEF Once, q
<1>5. ASSUME NEW j PROVE Queued(b, j) <=> Queued(a, j) /\ j # x.job
  <2>1. ASSUME Queued(b, j) PROVE Queued(a, j) /\ j # x.job
    <3>1. PICK i \in 1..(Len(q) - 1) : q[i + 1].job = j
      BY <1>3, <2>1 DEF Queued
    <3>2. i + 1 \in 1..Len(q) /\ 1 \in 1..Len(q) /\ i + 1 # 1
      BY <1>3
    <3>. QED
      BY <1>3, <1>4, <3>1, <3>2 DEF Queued, q
  <2>2. ASSUME Queued(a, j), j # x.job PROVE Queued(b, j)
    <3>1. PICK i \in 1..Len(q) : q[i].job = j
      BY <2>2 DEF Queued, q
    <3>2. i - 1 \in 1..(Len(q) - 1) /\ (i - 1) + 1 = i
      BY <1>3, <2>2, <3>1
    <3>. QED
      BY <1>3, <3>1, <3>2 DEF Queued
  <2>. QED
    BY <2>1, <2>2
<1>6. Once(b)
  <2>1. ASSUME NEW i \in 1..Len(b.queue), NEW k \in 1..Len(b.queue), b.queue[i].job = b.queue[k].job
        PROVE  i = k
    <3>1. i + 1 \in 1..Len(q) /\ k + 1 \in 1..Len(q) /\ q[i + 1].job = q[k + 1].job
      BY <1>3, <2>1
    <3>2. i + 1 = k + 1
      BY <1>4, <3>1
    <3>. QED
      BY <3>2
  <2>2. ASSUME NEW j \in Jobs PROVE Placed(b, j)
    <3>1. Placed(a, j) /\ ~Active(a, j) /\ (Active(b, j) <=> j = x.job)
      BY <1>1, <1>2 DEF Once, Active
    <3>2. x.job = j => Queued(a, j)
      BY <1>3 DEF Queued, q
    <3>. QED
      BY <1>5, <3>1, <3>2 DEF Placed
  <2>. QED
    BY <2>1, <2>2 DEF Once
<1>7. /\ \A i \in 1..Len(U) : U[i].op \notin PromptOps
      /\ \A m \in R : m.op \notin PromptOps
  BY <1>1 DEF AwaitedOK, Awaited
<1>8. rust.state # "running"
  BY <1>1 DEF SoundOK, Unfinished
<1>9. AwaitedOK(b, U, R)
  BY <1>7 DEF AwaitedOK
<1>10. SoundOK(b, U, R)
  BY <1>1, <1>7, <1>8 DEF SoundOK, PromptOps
<1>11. ActiveOK(b)
  BY <1>2 DEF ActiveOK
<1>. QED
  BY <1>6, <1>9, <1>10, <1>11 DEF Good, U

LEMMA StartGood ==
    ASSUME Setting, ~call.ended, NEW a, NEW R, Good(a, R), a.active = None, a.queue # <<>>
    PROVE  /\ Good(Round(a, Head(a.queue)), R)
           /\ Round(a, Head(a.queue)).queue = Tail(a.queue)
<1>. DEFINE e == Head(a.queue)
            p == [a EXCEPT !.queue = Tail(@)]
            n == a.last + 1
            w == [p EXCEPT !.active = Started(e, 0)]
            v == [p EXCEPT !.active = Started(e, n)]
            s == [p EXCEPT !.last = n, !.active = Started(e, n)]
<1>1. /\ a \in Applied /\ e \in Entries /\ Tail(a.queue) \in Seq(Entries) /\ n \in Nat /\ n # 0
      /\ a.last \in Nat
  BY DEF Good, Applied
<1>2. /\ p \in Applied /\ p.queue = Tail(a.queue) /\ p.active = None /\ p.last = a.last
      /\ p.submitted = a.submitted /\ p.accepted = a.accepted /\ p.done = a.done
  BY <1>1 DEF Applied
<1>3. Started(e, 0) \in Actives /\ Started(e, n) \in Actives
  BY <1>1 DEF Started, Actives, Entries
<1>4. Round(a, e) = IF e.kind = "wait" THEN w ELSE IF OwnsTX THEN Complete(v)
                    ELSE IF CanSubmit(p) THEN Submit(s, "start") ELSE Complete(s)
  <2>1. Complete(w) = Complete(v)
    BY <1>2 DEF Complete, Started, Applied
  <2>. QED
    BY <1>2, <2>1 DEF Round, Start, StartPrompt
<1>. HIDE DEF e, p, n
<1>5. ASSUME e.kind = "wait"
      PROVE  /\ Good(w, R) /\ w.active = Started(e, 0) /\ w.queue = Tail(a.queue)
  <2>1. /\ w \in Applied /\ w.queue = Tail(a.queue) /\ w.active = Started(e, 0)
        /\ w.submitted = a.submitted /\ w.accepted = a.accepted /\ w.done = a.done
    BY <1>1, <1>2, <1>3 DEF Applied
  <2>. QED
    BY <1>3, <1>5, <2>1, PopGood DEF Started, Prompting, e
<1>6. ASSUME e.kind # "wait"
      PROVE  /\ Good(s, R) /\ s.active = Started(e, n) /\ s.queue = Tail(a.queue)
             /\ s.submitted = a.submitted
             /\ Good(v, R) /\ v.active = Started(e, n) /\ v.queue = Tail(a.queue)
  <2>1. /\ s \in Applied /\ s.queue = Tail(a.queue) /\ s.active = Started(e, n)
        /\ s.submitted = a.submitted /\ s.accepted = a.accepted /\ s.done = a.done
    BY <1>1, <1>2, <1>3 DEF Applied
  <2>2. /\ v \in Applied /\ v.queue = Tail(a.queue) /\ v.active = Started(e, n)
        /\ v.submitted = a.submitted /\ v.accepted = a.accepted /\ v.done = a.done
    BY <1>1, <1>2, <1>3 DEF Applied
  <2>3. e.kind \in Prompting
    BY <1>1, <1>6 DEF Entries, Prompting
  <2>. HIDE DEF s, v
  <2>4. Good(s, R)
    BY <1>1, <1>3, <2>1, <2>3, PopGood DEF Started, e
  <2>5. Good(v, R)
    BY <1>1, <1>3, <2>2, <2>3, PopGood DEF Started, e
  <2>. QED
    BY <2>1, <2>2, <2>4, <2>5
<1>. HIDE DEF w, s, v
<1>7. rust.state # "running"
  BY DEF Good, SoundOK, Unfinished
<1>8. Started(e, 0) # None /\ Started(e, n) # None
  BY <1>3, NoneIsNoApplication
<1>9. CASE e.kind = "wait"
  BY <1>4, <1>5, <1>9 DEF e
<1>10. CASE e.kind # "wait" /\ OwnsTX
  <2>1. v.active # None /\ ~v.active.inflight
    BY <1>6, <1>8, <1>10 DEF Started
  <2>. QED
    BY <1>4, <1>6, <1>7, <1>10, <2>1, CompleteGood DEF e
<1>11. CASE e.kind # "wait" /\ ~OwnsTX /\ ~CanSubmit(p)
  <2>1. s.active # None /\ ~s.active.inflight
    BY <1>6, <1>8, <1>11 DEF Started
  <2>. QED
    BY <1>4, <1>6, <1>7, <1>11, <2>1, CompleteGood DEF e
<1>12. CASE e.kind # "wait" /\ ~OwnsTX /\ CanSubmit(p)
  <2>1. s.active # None /\ ~s.active.inflight /\ s.active.id = n /\ Unfinished(s)
    BY <1>6, <1>8, <1>12 DEF Started, Unfinished, Final
  <2>2. CanSubmit(s)
    BY <1>2, <1>6, <1>12 DEF CanSubmit
  <2>4. pending = None /\ (current = None \/ handle[current].terminal)
    BY <1>12 DEF OwnsTX
  <2>5. ~rust.speaking
    BY <1>12, <2>2 DEF Setting, CanSubmit
  <2>3. Submit(s, "start").queue = s.queue
    BY <1>6, <1>12 DEF Submit, Good, Applied
  <2>. QED
    BY <1>1, <1>4, <1>6, <1>7, <1>12, <2>1, <2>2, <2>3, <2>4, <2>5, SubmitGood DEF e, PromptOps
<1>. QED
  BY <1>9, <1>10, <1>11, <1>12

(* However many prompts are passed over, all is well after each round.     *)
LEMMA StartNextGood ==
    ASSUME Setting, NEW a, NEW R, Good(a, R)
    PROVE  Good(StartNext(a), R)
<1>. DEFINE q == a.queue
            n == Len(q)
<1>1. a \in Applied /\ q \in Seq(Entries) /\ n \in Nat
  BY DEF Good, Applied
<1>2. CASE call.ended
  BY <1>2 DEF StartNext
<1>3. CASE ~call.ended
  <2>1. PICK f : Rounds(f, a, 1..n) /\ StartNext(a) = f[1..n]
    BY <1>1, <1>3, StartNextFolds
  <2>. HIDE DEF n, q
  <2>. DEFINE Left(k) == /\ Good(f[1..k], R)
                         /\ f[1..k].active = None =>
                              /\ Len(f[1..k].queue) = n - k
                              /\ \A i \in 1..(n - k) : f[1..k].queue[i] = q[k + i]
              F == {1..k : k \in {m \in 0..n : ~Left(m)}}
  <2>2. SUFFICES ASSUME F # {} PROVE FALSE
    <3>1. n \in 0..n
      BY <1>1
    <3>2. Left(n)
      BY <2>2, <3>1
    <3>. QED
      BY <2>1, <3>2
  <2>. HIDE DEF Left
  <2>. DEFINE L == 1..n
  <2>3. F \subseteq SUBSET L /\ Positions(L)
    <3>1. \A k \in 0..n : 1..k \subseteq L
      BY <1>1
    <3>2. F \subseteq SUBSET L
      BY <3>1
    <3>. QED
      BY <1>1, <3>2, FS_Interval DEF Positions
  <2>. HIDE DEF F, L
  <2>4. PICK s \in F : \A t \in F : t \subseteq s => t = s
    BY <2>2, <2>3, SmallestSubset
  <2>5. PICK k \in 0..n : s = 1..k /\ ~Left(k)
    BY DEF F
  <2>6. f[s] = RoundStep(f, a, s)
    BY <2>1, <2>3 DEF Rounds, L
  <2>7. CASE k = 0
    <3>1. s = {} /\ f[1..k] = a
      BY <2>5, <2>6, <2>7 DEF RoundStep
    <3>2. Left(k)
      BY <1>1, <2>7, <3>1 DEF Left, n, q
    <3>. QED
      BY <2>5, <3>2
  <2>8. CASE k # 0
    <3>. DEFINE l == k - 1
    <3>0. l \in 0..n /\ k \in 1..n /\ l + 1 = k /\ k \in 1..k
      BY <1>1, <2>5, <2>8
    <3>1. l \in 0..n /\ k \in 1..n /\ k \in s /\ s # {} /\ l + 1 = k
      BY <2>5, <3>0
    <3>2. Max(s) = k
      <4>1. Positions(s)
        BY <2>3, FS_Subset DEF Positions
      <4>2. Max(s) \in s /\ \A y \in s : y <= Max(s)
        BY <3>1, <4>1, MaxIsLast
      <4>. QED
        BY <2>5, <3>1, <4>2
    <3>3. Rest(s) = 1..l
      BY <2>5, <3>1, <3>2 DEF Rest
    <3>4. 1..l \subseteq s /\ 1..l # s
      BY <2>5, <3>1
    <3>. HIDE DEF l
    <3>5. Left(l)
      BY <2>4, <3>1, <3>4 DEF F
    <3>. DEFINE b == f[1..l]
    <3>6. f[1..k] = Round(b, q[k])
      BY <2>5, <2>6, <3>1, <3>2, <3>3 DEF RoundStep, q
    <3>7. CASE b.active # None
      BY <2>5, <3>5, <3>6, <3>7 DEF Left, Round
    <3>8. CASE b.active = None
      <4>1. /\ Good(b, R) /\ Len(b.queue) = n - l /\ b.queue \in Seq(Entries)
            /\ \A i \in 1..(n - l) : b.queue[i] = q[l + i]
        BY <3>5, <3>8 DEF Left, Good, Applied
      <4>. HIDE DEF b
      <4>2. b.queue # <<>> /\ Head(b.queue) = q[k]
        <5>1. n - l \in Nat \ {0} /\ 1 \in 1..(n - l)
          BY <1>1, <3>1
        <5>. QED
          BY <3>1, <4>1, <5>1
      <4>3. /\ Good(f[1..k], R) /\ f[1..k].queue = Tail(b.queue)
        BY <1>3, <3>6, <3>8, <4>1, <4>2, StartGood
      <4>4. Len(Tail(b.queue)) = n - k
        <5>1. Len(Tail(b.queue)) = Len(b.queue) - 1 /\ (n - l) - 1 = n - k
          BY <1>1, <3>1, <4>1, <4>2
        <5>. QED
          BY <4>1, <5>1
      <4>5. ASSUME NEW i \in 1..(n - k) PROVE Tail(b.queue)[i] = q[k + i]
        <5>1. i + 1 \in 1..(n - l) /\ l + (i + 1) = k + i
          BY <1>1, <3>1
        <5>2. Tail(b.queue)[i] = b.queue[i + 1]
          BY <4>1, <4>2, <4>4
        <5>. QED
          BY <4>1, <5>1, <5>2
      <4>. QED
        BY <2>5, <4>3, <4>4, <4>5 DEF Left
    <3>. QED
      BY <3>7, <3>8
  <2>. QED
    BY <2>7, <2>8
<1>. QED
  BY <1>2, <1>3

LEMMA FinishApplicationGood ==
    ASSUME Setting, NEW a, NEW R, Good(a, R), a.active # None
    PROVE  Good(FinishApplication(a), R)
<1>. DEFINE x == [a.active EXCEPT !.finish = TRUE, !.digits = FALSE]
            b == [a EXCEPT !.active = x]
<1>1. a \in Applied /\ a.active \in Actives /\ ActiveOK(a)
  BY DEF Good, Applied
<1>2. /\ x \in Actives /\ x.job = a.active.job /\ x.kind = a.active.kind /\ x.id = a.active.id
      /\ x.inflight = a.active.inflight /\ x.state = a.active.state /\ x.freed = a.active.freed
      /\ x.due = a.active.due /\ x # None
  BY <1>1, NoneIsNoApplication DEF Actives
<1>3. [a EXCEPT !.active.finish = TRUE, !.active.digits = FALSE] = b /\ b.active = x
  BY <1>1 DEF Applied, Actives
<1>. HIDE DEF x
<1>4. Good(b, R)
  BY <1>1, <1>2, ChangeActive DEF ActiveOK
<1>. HIDE DEF b
<1>5. CASE Busy(a)
  <2>1. a.active.id # 0
    BY <1>5 DEF Busy
  <2>2. Good(StopPrompt(b), R)
    BY <1>2, <1>3, <1>4, <2>1, StopPromptGood
  <2>. QED
    BY <1>3, <1>5, <2>2 DEF FinishApplication
<1>6. CASE ~Busy(a)
  BY <1>6, NotBusyIsSilent, CompleteGood, StartNextGood DEF FinishApplication
<1>. QED
  BY <1>5, <1>6

(* The end of the call, and of the media.                                  *)
LEMMA FinishReleasedGood ==
    ASSUME Setting, NEW a, NEW R, Good(a, R), a.active # None
    PROVE  Good(FinishReleased(a), R) /\ FinishReleased(a).submitted = a.submitted
  BY NotBusyIsSilent, CompleteGood DEF FinishReleased

LEMMA MediaReleasedGood ==
    ASSUME Setting, NEW a, NEW R, Good(a, R), ~rust.open
    PROVE  Good(MediaReleased(a), R) /\ MediaReleased(a).submitted = a.submitted
<1>1. CASE a.active = None \/ ~a.active.ended
  BY <1>1 DEF MediaReleased
<1>2. CASE a.active # None /\ a.active.ended
  <2>. DEFINE x == [a.active EXCEPT !.freed = TRUE]
              b == [a EXCEPT !.active = x]
  <2>1. a \in Applied /\ a.active \in Actives /\ ActiveOK(a)
    BY <1>2 DEF Good, Applied
  <2>2. /\ x \in Actives /\ x.job = a.active.job /\ x.kind = a.active.kind /\ x.id = a.active.id
        /\ x.inflight = a.active.inflight /\ x.state = a.active.state /\ x.due = a.active.due
        /\ x # None
    BY <2>1, NoneIsNoApplication DEF Actives
  <2>3. [a EXCEPT !.active.freed = TRUE] = b /\ b.active = x /\ b.submitted = a.submitted
    BY <2>1 DEF Applied
  <2>. HIDE DEF x
  <2>4. Good(b, R)
    BY <1>2, <2>1, <2>2, ChangeActive DEF ActiveOK
  <2>. HIDE DEF b
  <2>5. Good(FinishReleased(b), R) /\ FinishReleased(b).submitted = b.submitted
    BY <2>2, <2>3, <2>4, FinishReleasedGood
  <2>. QED
    BY <1>2, <2>3, <2>5 DEF MediaReleased
<1>. QED
  BY <1>1, <1>2

(* The queue is emptied: what waited in it is over.                        *)
LEMMA EmptyQueueGood ==
    ASSUME NEW b, NEW R, Good(b, R), NEW d,
           d = [j \in Jobs |-> b.done[j] + IF Queued(b, j) THEN 1 ELSE 0]
    PROVE  Good([b EXCEPT !.queue = <<>>, !.done = d], R)
<1>. DEFINE c == [b EXCEPT !.queue = <<>>, !.done = d]
            U == urgent \o b.submitted
<1>1. /\ b \in Applied /\ Once(b) /\ AwaitedOK(b, U, R) /\ SoundOK(b, U, R) /\ ActiveOK(b)
      /\ b.done \in [Jobs -> Nat]
  BY DEF Good, Applied
<1>2. /\ d \in [Jobs -> Nat]
      /\ \A j \in Jobs : d[j] = IF Queued(b, j) THEN b.done[j] + 1 ELSE b.done[j]
  BY <1>1
<1>3. /\ c \in Applied /\ c.queue = <<>> /\ c.done = d /\ c.active = b.active
      /\ c.submitted = b.submitted /\ c.accepted = b.accepted
  <2>1. <<>> \in Seq(Entries)
    OBVIOUS
  <2>. QED
    BY <1>1, <1>2, <2>1, Zenon DEF Applied
<1>. HIDE DEF c, U
<1>4. Once(c)
  <2>1. ASSUME NEW j \in Jobs PROVE Placed(c, j)
    <3>1. Placed(b, j) /\ ~Queued(c, j) /\ (Active(c, j) <=> Active(b, j))
      BY <1>1, <1>3 DEF Once, Queued, Active
    <3>. QED
      BY <1>2, <1>3, <3>1 DEF Placed
  <2>. QED
    BY <1>3, <2>1 DEF Once
<1>5. AwaitedOK(c, U, R)
  BY <1>1, <1>3 DEF AwaitedOK, Awaited
<1>6. SoundOK(c, U, R)
  BY <1>1, <1>3 DEF SoundOK, Unfinished
<1>7. ActiveOK(c)
  BY <1>1, <1>3 DEF ActiveOK
<1>. QED
  BY <1>3, <1>4, <1>5, <1>6, <1>7 DEF Good, U, c

LEMMA CancelGood ==
    ASSUME Setting, NEW a, NEW R, Good(a, R), NEW freed \in BOOLEAN, freed => ~rust.open
    PROVE  Good(Cancel(a, freed), R) /\ Cancel(a, freed).submitted = a.submitted
<1>. DEFINE x == [a.active EXCEPT !.ended = TRUE, !.freed = freed, !.due = FALSE, !.digits = FALSE]
            y == [a EXCEPT !.active = x]
            b == CASE a.active = None -> a
                   [] a.active # None /\ Busy(a) -> FinishReleased(y)
                   [] OTHER -> Complete(a)
            d == [j \in Jobs |-> b.done[j] + IF Queued(a, j) THEN 1 ELSE 0]
<1>1. a \in Applied
  BY DEF Good
<1>2. ASSUME a.active # None
      PROVE  /\ Good(y, R) /\ y.active = x /\ x # None /\ y.submitted = a.submitted /\ y.queue = a.queue
             /\ y = [a EXCEPT !.active.ended = TRUE, !.active.freed = freed,
                              !.active.due = FALSE, !.active.digits = FALSE]
  <2>1. a.active \in Actives /\ ActiveOK(a)
    BY <1>1, <1>2 DEF Good, Applied
  <2>2. /\ x \in Actives /\ x.job = a.active.job /\ x.kind = a.active.kind /\ x.id = a.active.id
        /\ x.inflight = a.active.inflight /\ x.state = a.active.state /\ x.freed = freed
        /\ ~x.due /\ x # None
    BY ZenonT(60), <2>1, NoneIsNoApplication DEF Actives
  <2>3. /\ y = [a EXCEPT !.active.ended = TRUE, !.active.freed = freed,
                         !.active.due = FALSE, !.active.digits = FALSE]
        /\ y.active = x /\ y.submitted = a.submitted /\ y.queue = a.queue
    BY <1>1, <2>1 DEF Applied, Actives
  <2>. HIDE DEF x
  <2>4. Good(y, R)
    BY <1>2, <2>1, <2>2, ChangeActive DEF ActiveOK
  <2>. QED
    BY <2>2, <2>3, <2>4
<1>. HIDE DEF x, y
<1>3. Good(b, R) /\ b.submitted = a.submitted /\ b.queue = a.queue
  <2>1. CASE a.active = None
    BY <2>1
  <2>2. CASE a.active # None /\ Busy(a)
    <3>1. Good(FinishReleased(y), R) /\ FinishReleased(y).submitted = a.submitted
      BY <1>2, <2>2, FinishReleasedGood
    <3>2. FinishReleased(y).queue = a.queue
      BY <1>2, <2>2 DEF FinishReleased, Complete, Good, Applied
    <3>. QED
      BY <2>2, <3>1, <3>2
  <2>3. CASE a.active # None /\ ~Busy(a)
    BY <2>3, NotBusyIsSilent, CompleteGood
  <2>. QED
    BY <2>1, <2>2, <2>3
<1>. HIDE DEF b
<1>4. \A j \in Jobs : Queued(a, j) <=> Queued(b, j)
  BY <1>3 DEF Queued
<1>5. Cancel(a, freed) = [b EXCEPT !.queue = <<>>, !.done = d]
  BY <1>2, <1>3 DEF Cancel, b, Good, Applied
<1>6. d = [j \in Jobs |-> b.done[j] + IF Queued(b, j) THEN 1 ELSE 0]
  BY <1>4
<1>. HIDE DEF d
<1>7. Good([b EXCEPT !.queue = <<>>, !.done = d], R)
  BY <1>3, <1>6, EmptyQueueGood
<1>. QED
  BY <1>3, <1>5, <1>7 DEF Good, Applied
-----------------------------------------------------------------------------
(* The inductive invariant.                                                *)

Shapes ==
    /\ call \in [ended : BOOLEAN, allocated : BOOLEAN, releasing : BOOLEAN]
    /\ rust \in [open : BOOLEAN, turn : Nat, speaking : BOOLEAN, play : Nat,
                 state : {"running"} \cup Final]
    /\ handle \in [Reqs -> [turn : Nat, committed : BOOLEAN, retired : BOOLEAN, terminal : BOOLEAN]]
    /\ urgent \in Seq(Commands) /\ Len(urgent) <= UrgentCap
    /\ worker \in {"up", "ended", "reported"}
    /\ {pending, current, checking} \subseteq Reqs \cup {None}
    /\ \A r \in Reqs : req[r].turn \in Nat

Prompts ==
    /\ apps \in Applied /\ apps.submitted = <<>> /\ Once(apps) /\ ActiveOK(apps)
    /\ AwaitedOK(apps, urgent, replies) /\ SoundOK(apps, urgent, replies)

(* Only a call that has ended has no media, and a session that is closed   *)
(* or whose process has ended makes no sound.                              *)
CallOK ==
    /\ ~call.ended => call.allocated /\ ~call.releasing
    /\ \A i \in 1..Len(urgent) : urgent[i].op = "release" => call.ended
    /\ \A m \in replies : m.op = "release" => call.ended /\ ~rust.open
    /\ ~rust.open => ~rust.speaking /\ rust.state # "running"
    /\ worker # "up" => ~rust.open /\ urgent = <<>>

(* A real handle is the one its own request created; turns only grow.      *)
Real(h) == h \in Reqs /\ req[h].published = h
Over(h) == handle[h].turn < rust.turn \/ (handle[h].turn = rust.turn /\ ~rust.speaking)
Live == ~call.ended /\ call.allocated

HandlesOK ==
    /\ \A r \in Reqs : req[r].published # None =>
           Real(req[r].published) /\ handle[req[r].published].turn = req[r].turn
    /\ \A r \in Reqs : req[r].stage = "idle" => ~req[r].asked
    /\ \A r \in Reqs : ~req[r].asked => req[r].published = None
    /\ \A h \in Reqs : handle[h].terminal \/ handle[h].retired => Real(h)
    /\ \A h \in {pending, current} \ {None} : Real(h) /\ (Eligible => ~handle[h].retired)
    /\ Live => \A h \in Reqs : handle[h].terminal => Over(h)
    /\ \A m \in replies : m.op = "observe" => Real(m.id) /\ Over(m.id)

(* Of all begins at most one is anywhere, and it is that of the pending    *)
(* handle.                                                                 *)
Begun(r) == r \in Reqs /\ pending # None /\ req[r].published = pending
BeginsOK ==
    /\ \A i \in 1..Len(urgent) : urgent[i].op = "begin" => Begun(urgent[i].id)
    /\ \A m \in replies : m.op = "begin" =>
          /\ Begun(m.id) /\ m.state \in {"speaking", "over", "error", "lost"}
          /\ m.state = "lost" => worker # "up"
          /\ m.state \in {"speaking", "over"} => req[m.id].turn = rust.turn
          /\ m.state = "over" => ~rust.speaking
    /\ \A i, k \in 1..Len(urgent) : urgent[i].op = "begin" /\ urgent[k].op = "begin" => i = k
    /\ \A m, n \in replies : m.op = "begin" /\ n.op = "begin" => m = n
    /\ \A i \in 1..Len(urgent) : \A m \in replies : ~(urgent[i].op = "begin" /\ m.op = "begin")

(* A turn that speaks is that of the current handle, or its begin has just *)
(* been answered.                                                          *)
Spoken(m) == m.op = "begin" /\ m.state = "speaking" /\ req[m.id].turn = rust.turn
SpeakingOK ==
    rust.speaking /\ Eligible =>
        \/ current # None /\ (current # None =>
               handle[current].turn = rust.turn /\ ~handle[current].terminal)
        \/ \E m \in replies : Spoken(m)

(* What handlePCMBegin has found out still holds when it submits.          *)
CheckingOK ==
    checking # None =>
        /\ pending = None /\ ~LegacyTXBusy /\ ~call.ended /\ req[checking].asked
        /\ req[checking].published # None =>
               \/ req[checking].published = current
               \/ req[checking].published = checking /\ ~handle[checking].retired

(* A handle is only delivered when it was published before.                *)
DeliveredOK ==
    \A r \in Reqs : req[r].result # None /\ req[r].result = "handle" => req[r].published # None

SInv == Shapes /\ Prompts /\ CallOK /\ HandlesOK /\ BeginsOK /\ SpeakingOK /\ CheckingOK

-----------------------------------------------------------------------------
(* Queues that differ in commands of the kinds P only.                     *)
Padded(U, V, P) ==
    /\ V \in Seq(Commands)
    /\ \A i \in 1..Len(V) : (i \in 1..Len(U) /\ V[i] = U[i]) \/ V[i].op \in P
Silent == {"interrupt", "release"}

LEMMA AppendPadded ==
    ASSUME NEW U \in Seq(Commands), NEW c \in Commands, NEW P, c.op \in P
    PROVE  Padded(U, Append(U, c), P)
  BY DEF Padded

LEMMA PaddedAwaited ==
    ASSUME NEW a, NEW U, NEW V, NEW R, Padded(U, V, Silent), AwaitedOK(a, U, R)
    PROVE  AwaitedOK(a, V, R)
  BY DEF Padded, Silent, AwaitedOK, PromptOps

LEMMA PaddedSound ==
    ASSUME NEW a, NEW U, NEW V, NEW R, Padded(U, V, Silent), SoundOK(a, U, R)
    PROVE  SoundOK(a, V, R)
  BY DEF Padded, Silent, SoundOK

(* The state gives the setting, and the applications are good in it.       *)
LEMMA SettingHolds ==
    ASSUME SInv
    PROVE  Setting
  BY DEF SInv, Shapes, CallOK, SpeakingOK, BeginsOK, Setting, OwnsTX, Spoken, Begun, Eligible

LEMMA AppsAreGood ==
    ASSUME SInv
    PROVE  Good(apps, replies)
<1>1. urgent \o apps.submitted = urgent
  BY DEF SInv, Shapes, Prompts
<1>2. Len(urgent) + Len(apps.submitted) <= UrgentCap
  BY DEF SInv, Shapes, Prompts
<1>. QED
  BY <1>1, <1>2 DEF SInv, Prompts, Good

(* The urgent queue after the handler has submitted its commands.          *)
LEMMA BecomesPadded ==
    ASSUME urgent \in Seq(Commands), NEW a, NEW R, Good(a, R), Becomes(a)
    PROVE  Padded(urgent, urgent', PromptOps) /\ Len(urgent') <= UrgentCap
<1>1. a.submitted \in Seq(Commands) /\ urgent' = urgent \o a.submitted
      /\ \A i \in 1..Len(a.submitted) : a.submitted[i].op \in PromptOps
  BY DEF Good, Applied, Becomes
<1>2. /\ urgent' \in Seq(Commands) /\ Len(urgent') = Len(urgent) + Len(a.submitted)
      /\ \A i \in 1..Len(urgent') : urgent'[i] = IF i <= Len(urgent) THEN urgent[i]
                                                 ELSE a.submitted[i - Len(urgent)]
  BY <1>1
<1>3. ASSUME NEW i \in 1..Len(urgent'), ~(i <= Len(urgent)) PROVE urgent'[i].op \in PromptOps
  <2>1. i - Len(urgent) \in 1..Len(a.submitted)
    BY <1>1, <1>2, <1>3
  <2>. QED
    BY <1>1, <1>2, <1>3, <2>1
<1>. QED
  BY <1>2, <1>3 DEF Padded, Good

LEMMA BecomesPrompts ==
    ASSUME NEW a, Good(a, replies'), Becomes(a), UNCHANGED <<rust, pending>>
    PROVE  Prompts'
<1>. DEFINE U == urgent \o a.submitted
<1>1. /\ a \in Applied /\ Once(a) /\ ActiveOK(a) /\ AwaitedOK(a, U, replies') /\ SoundOK(a, U, replies')
      /\ urgent' = U /\ apps' = [a EXCEPT !.submitted = <<>>]
  BY DEF Good, Becomes
<1>2. /\ apps' \in Applied /\ apps'.submitted = <<>> /\ apps'.queue = a.queue
      /\ apps'.active = a.active /\ apps'.accepted = a.accepted /\ apps'.done = a.done
  <2>1. <<>> \in Seq(Commands)
    OBVIOUS
  <2>. QED
    BY <1>1, <2>1 DEF Applied
<1>. HIDE DEF U
<1>3. Once(apps')
  BY <1>1, <1>2 DEF Once, Placed, Queued, Active
<1>4. ActiveOK(apps)'
  BY <1>1, <1>2 DEF ActiveOK
<1>5. AwaitedOK(apps', urgent', replies')
  BY <1>1, <1>2 DEF AwaitedOK, Awaited
<1>6. SoundOK(apps, urgent, replies)'
  BY <1>1, <1>2 DEF SoundOK, Unfinished
<1>. QED
  BY <1>2, <1>3, <1>4, <1>5, <1>6 DEF Prompts, Once, AwaitedOK, Placed, Queued, Active, Awaited

(* Neither commands for prompts nor their answers touch the turns.         *)
LEMMA BeginsKept ==
    ASSUME SInv, Padded(urgent, urgent', PromptOps \cup Silent), replies' \subseteq replies,
           worker # "up" => worker' # "up", UNCHANGED <<rust, req, pending>>
    PROVE  BeginsOK'
<1>1. \A i \in 1..Len(urgent') :
          urgent'[i].op = "begin" => i \in 1..Len(urgent) /\ urgent'[i] = urgent[i]
  BY DEF Padded, PromptOps, Silent
<1>2. BeginsOK
  BY DEF SInv
<1>3. \A r : Begun(r)' <=> Begun(r)
  BY DEF Begun
<1>. QED
  BY <1>1, <1>2, <1>3 DEF BeginsOK

LEMMA SpeakingKept ==
    ASSUME SpeakingOK, \A m \in replies : Spoken(m) => m \in replies',
           rust'.speaking => rust.speaking, rust'.turn = rust.turn, Eligible' => Eligible,
           UNCHANGED <<handle, current>>,
           \A m \in replies : req'[m.id].turn = req[m.id].turn
    PROVE  SpeakingOK'
<1>1. \A m \in replies : Spoken(m)' <=> Spoken(m)
  BY DEF Spoken
<1>. QED
  BY <1>1 DEF SpeakingOK

LEMMA AppsStep ==
    ASSUME SInv, Loop, NEW a, Becomes(a), Good(a, replies'), replies' \subseteq replies,
           \A m \in replies : m \in replies' \/ m.op \in PromptOps,
           UNCHANGED <<call, worker, rust, pcmVars>>
    PROVE  SInv'
<1>1. /\ UNCHANGED <<req, handle, pending, current, checking>>
      /\ urgent \in Seq(Commands)
  BY DEF pcmVars, SInv, Shapes
<1>2. Padded(urgent, urgent', PromptOps) /\ Len(urgent') <= UrgentCap
  BY <1>1, BecomesPadded
<1>3. Prompts'
  BY <1>1, BecomesPrompts
<1>4. Shapes'
  BY <1>1, <1>2 DEF SInv, Shapes, Padded
<1>5. CallOK'
  <2>1. worker # "up" => urgent' = <<>>
    <3>1. ASSUME worker # "up" PROVE a.submitted = <<>> /\ urgent = <<>>
      BY <3>1 DEF SInv, CallOK, Good
    <3>. QED
      BY <3>1 DEF Becomes
  <2>. QED
    BY <1>2, <2>1 DEF SInv, CallOK, Padded, PromptOps
<1>6. HandlesOK'
  BY <1>1 DEF SInv, HandlesOK, Real, Over, Eligible, Live
<1>7. BeginsOK'
  BY <1>1, <1>2, BeginsKept DEF Padded
<1>8. SpeakingOK'
  BY <1>1, SpeakingKept DEF SInv, Spoken, Eligible, PromptOps
<1>9. CheckingOK'
  BY <1>1 DEF CheckingOK, Loop
<1>. QED
  BY <1>3, <1>4, <1>5, <1>6, <1>7, <1>8, <1>9 DEF SInv
-----------------------------------------------------------------------------
(* The steps of the applications.                                          *)

LEMMA ExecuteGood ==
    ASSUME NEW a, NEW R, Good(a, R), NEW j \in Jobs, NEW k \in Kinds(j), j \notin a.accepted
    PROVE  Good([a EXCEPT !.accepted = @ \cup {j}, !.queue = Append(@, [job |-> j, kind |-> k])], R)
<1>. DEFINE e == [job |-> j, kind |-> k]
            q == a.queue
            b == [a EXCEPT !.accepted = a.accepted \cup {j}, !.queue = Append(a.queue, e)]
            U == urgent \o a.submitted
<1>1. /\ a \in Applied /\ q \in Seq(Entries) /\ Once(a) /\ ActiveOK(a)
      /\ AwaitedOK(a, U, R) /\ SoundOK(a, U, R)
  BY DEF Good, Applied
<1>2. e \in Entries /\ e.job = j
  BY DEF Entries, Kinds
<1>3. /\ b \in Applied /\ b.queue = Append(q, e) /\ b.accepted = a.accepted \cup {j}
      /\ b.active = a.active /\ b.done = a.done /\ b.submitted = a.submitted
  <2>1. Append(q, e) \in Seq(Entries)
    BY <1>1, <1>2
  <2>. HIDE DEF e
  <2>. QED
    BY <1>1, <2>1 DEF Applied
<1>. HIDE DEF e, q, U
<1>4. /\ Len(b.queue) = Len(q) + 1 /\ Len(q) \in Nat /\ b.queue[Len(q) + 1] = e
      /\ \A i \in 1..Len(q) : b.queue[i] = q[i]
  BY <1>1, <1>2, <1>3
<1>. HIDE DEF b
<1>5. ASSUME NEW i \in 1..Len(b.queue), i # Len(q) + 1 PROVE i \in 1..Len(q)
  BY <1>4, <1>5
<1>6. Placed(a, j)
  BY <1>1 DEF Once
<1>7. \A i \in 1..Len(q) : q[i].job # j
  BY <1>6 DEF Placed, Queued, q
<1>8. ASSUME NEW x PROVE Queued(b, x) <=> Queued(a, x) \/ x = j
  <2>1. Len(q) + 1 \in 1..Len(b.queue) /\ 1..Len(q) \subseteq 1..Len(b.queue)
    BY <1>4
  <2>. QED
    BY <1>2, <1>4, <1>5, <2>1 DEF Queued, q
<1>9. Once(b)
  <2>1. ASSUME NEW i \in 1..Len(b.queue), NEW l \in 1..Len(b.queue), b.queue[i].job = b.queue[l].job
        PROVE  i = l
    BY <1>1, <1>2, <1>4, <1>5, <1>7, <2>1 DEF Once, q
  <2>2. ASSUME NEW x \in Jobs PROVE Placed(b, x)
    <3>1. Placed(a, x) /\ (Active(b, x) <=> Active(a, x)) /\ b.done[x] = a.done[x]
      BY <1>1, <1>3 DEF Once, Active
    <3>2. x \in b.accepted <=> x \in a.accepted \/ x = j
      BY <1>3
    <3>. QED
      BY <1>8, <3>1, <3>2 DEF Placed
  <2>. QED
    BY <2>1, <2>2 DEF Once
<1>10. AwaitedOK(b, U, R)
  BY <1>1, <1>3 DEF AwaitedOK, Awaited
<1>11. SoundOK(b, U, R)
  BY <1>1, <1>3 DEF SoundOK, Unfinished
<1>12. ActiveOK(b)
  BY <1>1, <1>3 DEF ActiveOK
<1>13. Good(b, R)
  BY <1>3, <1>9, <1>10, <1>11, <1>12 DEF Good, U
<1>. QED
  BY <1>13 DEF b, e

(* The answer that the active application waits for has come.              *)
LEMMA AnswerTaken ==
    ASSUME NEW R, Good(apps, R), NEW m \in R, m.op \in PromptOps,
           NEW a, a = [apps EXCEPT !.active.inflight = FALSE]
    PROVE  /\ Good(a, R \ {m}) /\ a.active # None /\ a.active.id = m.id /\ m.id # 0
           /\ ~a.active.inflight /\ apps.active # None /\ apps.active.id = m.id
<1>. DEFINE x == [apps.active EXCEPT !.inflight = FALSE]
            U == urgent \o apps.submitted
<1>1. /\ apps \in Applied /\ Once(apps) /\ ActiveOK(apps) /\ AwaitedOK(apps, U, R) /\ SoundOK(apps, U, R)
  BY DEF Good
<1>2. Awaited(apps, m.id)
  BY <1>1 DEF AwaitedOK
<1>3. apps.active # None /\ apps.active \in Actives /\ apps.active.id = m.id /\ m.id # 0
  BY <1>1, <1>2 DEF Awaited, Applied
<1>4. /\ x \in Actives /\ x.job = apps.active.job /\ x.kind = apps.active.kind /\ x.id = apps.active.id
      /\ ~x.inflight /\ x.state = apps.active.state /\ x.due = apps.active.due
      /\ x.freed = apps.active.freed /\ x # None
  BY <1>3, NoneIsNoApplication DEF Actives
<1>5. /\ a \in Applied /\ a.active = x /\ a.queue = apps.queue /\ a.submitted = apps.submitted
      /\ a.accepted = apps.accepted /\ a.done = apps.done
  <2>1. a = [apps EXCEPT !.active = x]
    BY <1>1 DEF Applied
  <2>. HIDE DEF x
  <2>. QED
    BY <1>1, <1>4, <2>1 DEF Applied
<1>. HIDE DEF x, U
<1>6. Once(a)
  <2>1. ASSUME NEW j \in Jobs PROVE Placed(a, j)
    <3>1. /\ Placed(apps, j) /\ (Queued(a, j) <=> Queued(apps, j))
          /\ (Active(a, j) <=> Active(apps, j))
      BY <1>1, <1>3, <1>4, <1>5 DEF Once, Active, Queued
    <3>. QED
      BY <1>5, <3>1 DEF Placed
  <2>. QED
    BY ZenonT(60), <1>1, <1>5, <2>1 DEF Once
<1>7. ActiveOK(a)
  BY <1>1, <1>3, <1>4, <1>5 DEF ActiveOK
<1>8. /\ \A i \in 1..Len(U) : U[i].op \notin PromptOps
      /\ \A n \in R \ {m} : n.op \notin PromptOps
  BY <1>1 DEF AwaitedOK
<1>9. AwaitedOK(a, U, R \ {m})
  BY <1>8 DEF AwaitedOK
<1>10. SoundOK(a, U, R \ {m})
  BY <1>1, <1>3, <1>4, <1>5 DEF SoundOK, Unfinished
<1>. QED
  BY <1>3, <1>4, <1>5, <1>6, <1>7, <1>9, <1>10 DEF Good, U

LEMMA NotAnsweredGood ==
    ASSUME NEW a, NEW R, Good(a, R), a.active # None, a.active.id # 0
    PROVE  Good(NotAnswered(a), R)
<1>. DEFINE x == [a.active EXCEPT !.finish = TRUE, !.stop = TRUE, !.digits = FALSE, !.due = TRUE]
<1>1. a \in Applied /\ a.active \in Actives /\ ActiveOK(a)
  BY DEF Good, Applied
<1>2. /\ x \in Actives /\ x.job = a.active.job /\ x.kind = a.active.kind /\ x.id = a.active.id
      /\ x.inflight = a.active.inflight /\ x.state = a.active.state /\ x.freed = a.active.freed
  BY <1>1 DEF Actives
<1>3. NotAnswered(a) = [a EXCEPT !.active = x]
  BY <1>1 DEF NotAnswered, Applied, Actives
<1>. HIDE DEF x
<1>. QED
  BY <1>1, <1>2, <1>3, ChangeActive DEF ActiveOK

LEMMA AnsweredGood ==
    ASSUME Setting, NEW a, NEW R, Good(a, R), a.active # None, a.active.id # 0,
           ~a.active.inflight, NEW state \in Final \cup {"running"},
           state \in Final => rust.state # "running"
    PROVE  Good(Answered(a, state), R)
<1>. DEFINE x == [a.active EXCEPT !.state = state]
            b == [a EXCEPT !.active = x]
            d == [x EXCEPT !.due = TRUE]
            g == [x EXCEPT !.due = FALSE, !.digits = TRUE]
<1>1. a \in Applied /\ a.active \in Actives /\ ActiveOK(a)
  BY DEF Good, Applied
<1>2. /\ x \in Actives /\ x.job = a.active.job /\ x.kind = a.active.kind /\ x.id = a.active.id
      /\ ~x.inflight /\ x.state = state /\ x.freed = a.active.freed /\ x.due = a.active.due /\ x # None
      /\ x.inflight = a.active.inflight
  BY <1>1, NoneIsNoApplication DEF Actives
<1>3. [a EXCEPT !.active.state = state] = b /\ b.active = x /\ b \in Applied
  BY <1>1, <1>2 DEF Applied
<1>4. /\ d \in Actives /\ d.job = x.job /\ d.kind = x.kind /\ d.id = x.id
      /\ d.inflight = x.inflight /\ d.state = x.state /\ d.freed = x.freed
      /\ g \in Actives /\ g.job = x.job /\ g.kind = x.kind /\ g.id = x.id
      /\ g.inflight = x.inflight /\ g.state = x.state /\ g.freed = x.freed /\ ~g.due
  BY <1>2 DEF Actives
<1>5. /\ [b EXCEPT !.active.due = TRUE] = [b EXCEPT !.active = d]
      /\ [b EXCEPT !.active.due = FALSE, !.active.digits = TRUE] = [b EXCEPT !.active = g]
  BY <1>1, <1>2, <1>3 DEF Applied, Actives
<1>. HIDE DEF x, d, g
<1>6. Good(b, R)
  BY <1>1, <1>2, ChangeActive DEF ActiveOK
<1>. HIDE DEF b
<1>7. Good([b EXCEPT !.active = d], R)
  BY <1>1, <1>2, <1>3, <1>4, <1>6, ChangeActive DEF ActiveOK
<1>8. Good([b EXCEPT !.active = g], R)
  BY <1>1, <1>2, <1>3, <1>4, <1>6, ChangeActive DEF ActiveOK
<1>9. Good(SubmitOrRetry(b, "stop"), R)
  BY <1>2, <1>3, <1>6, SubmitOrRetryGood
<1>10. Good(FinishApplication(b), R)
  BY <1>2, <1>3, <1>6, FinishApplicationGood
<1>11. CASE state = "running"
  BY <1>3, <1>5, <1>7, <1>9, <1>11 DEF Answered
<1>12. CASE /\ state # "running"
            /\ state \in {"completed", "stopped"} /\ a.active.kind = "read"
            /\ ~a.active.finish /\ (state = "stopped" => a.active.stop)
  BY <1>3, <1>5, <1>8, <1>12 DEF Answered
<1>13. CASE /\ state # "running"
            /\ ~(/\ state \in {"completed", "stopped"} /\ a.active.kind = "read"
                 /\ ~a.active.finish /\ (state = "stopped" => a.active.stop))
  BY <1>3, <1>10, <1>13 DEF Answered
<1>. QED
  BY <1>11, <1>12, <1>13
-----------------------------------------------------------------------------
(* The end of the call.                                                    *)

LEMMA RetireKeeps ==
    ASSUME SInv, NEW released \in BOOLEAN, Retire(released)
    PROVE  /\ handle' \in [Reqs -> [turn : Nat, committed : BOOLEAN, retired : BOOLEAN, terminal : BOOLEAN]]
           /\ \A h \in Reqs : /\ handle'[h].turn = handle[h].turn
                              /\ handle'[h].terminal \/ handle'[h].retired =>
                                     \/ handle[h].terminal \/ handle[h].retired
                                     \/ h \in {pending, current}
<1>. DEFINE H == [turn : Nat, committed : BOOLEAN, retired : BOOLEAN, terminal : BOOLEAN]
            new(h) == [handle[h] EXCEPT !.retired = TRUE, !.terminal = @ \/ released]
<1>1. handle \in [Reqs -> H]
  BY DEF SInv, Shapes
<1>2. ASSUME NEW h \in Reqs PROVE new(h) \in H /\ new(h).turn = handle[h].turn
  BY <1>1
<1>3. handle' = [h \in Reqs |-> IF h \in {current, pending} THEN new(h) ELSE handle[h]]
  BY DEF Retire
<1>. HIDE DEF new
<1>. QED
  BY <1>1, <1>2, <1>3

LEMMA EndStep ==
    ASSUME SInv, Loop, Prompts', Padded(urgent, urgent', PromptOps \cup {"release"}),
           Len(urgent') <= UrgentCap, worker' \in {"up", "ended", "reported"},
           call' \in [ended : BOOLEAN, allocated : BOOLEAN, releasing : BOOLEAN], call'.ended,
           worker # "up" => worker' # "up",
           worker' # "up" => ~rust.open /\ urgent' = <<>>,
           replies' \subseteq replies,
           UNCHANGED <<rust, req, pending, current, checking>>,
           handle' = handle \/ \E released \in BOOLEAN : Retire(released)
    PROVE  SInv'
<1>1. /\ handle' \in [Reqs -> [turn : Nat, committed : BOOLEAN, retired : BOOLEAN, terminal : BOOLEAN]]
      /\ \A h \in Reqs : /\ handle'[h].turn = handle[h].turn
                         /\ handle'[h].terminal \/ handle'[h].retired =>
                                \/ handle[h].terminal \/ handle[h].retired
                                \/ h \in {pending, current}
  BY RetireKeeps DEF SInv, Shapes
<1>2. Shapes'
  BY <1>1 DEF SInv, Shapes, Padded
<1>3. CallOK'
  BY DEF SInv, CallOK
<1>4. ~Live' /\ ~Eligible'
  BY DEF Live, Eligible
<1>5. HandlesOK'
  <2>1. \A h : Real(h)' <=> Real(h)
    BY DEF Real
  <2>2. \A h \in {pending, current} \ {None} : Real(h)
    BY DEF SInv, HandlesOK
  <2>3. \A h \in Reqs : Over(h)' <=> Over(h)
    BY <1>1 DEF Over
  <2>4. ASSUME NEW r \in Reqs, req[r].published # None
        PROVE  Real(req[r].published) /\ handle'[req[r].published].turn = req[r].turn
    BY <1>1, <2>4 DEF SInv, HandlesOK, Real
  <2>5. \A h \in Reqs : handle'[h].terminal \/ handle'[h].retired => Real(h)
    <3>1. \A h \in Reqs : h # None
      BY TxAssumption DEF Reqs
    <3>. QED
      BY <1>1, <2>2, <3>1 DEF SInv, HandlesOK
  <2>6. \A m \in replies' : m.op = "observe" => Real(m.id) /\ Over(m.id)'
    BY <2>3 DEF SInv, HandlesOK, Real
  <2>7. HandlesOK
    BY DEF SInv
  <2>. HIDE DEF Real, Over
  <2>. QED
    BY <1>4, <2>1, <2>2, <2>4, <2>5, <2>6, <2>7 DEF HandlesOK
<1>6. BeginsOK'
  BY BeginsKept DEF Padded, Silent
<1>7. SpeakingOK' /\ CheckingOK'
  BY <1>4 DEF SpeakingOK, CheckingOK, Loop
<1>. QED
  BY <1>2, <1>3, <1>5, <1>6, <1>7 DEF SInv

(* The release is the last command of a call.                              *)
LEMMA ReleaseMediaKeeps ==
    ASSUME SInv, NEW a, Good(a, replies'), a.submitted = <<>>, Becomes(ReleaseMedia(a)),
           UNCHANGED <<rust, pending>>
    PROVE  /\ Prompts' /\ Padded(urgent, urgent', PromptOps \cup {"release"})
           /\ Len(urgent') <= UrgentCap
           /\ worker # "up" => urgent' = <<>>
<1>. DEFINE c == [op |-> "release", id |-> 0]
<1>1. urgent \in Seq(Commands) /\ c \in Commands /\ c.op = "release"
  BY DEF SInv, Shapes, Commands
<1>2. a \in Applied
  BY DEF Good
<1>. HIDE DEF c
<1>3. CASE ~CanSubmit(a)
  <2>1. Becomes(a)
    BY <1>3 DEF ReleaseMedia
  <2>2. Prompts' /\ Padded(urgent, urgent', PromptOps) /\ Len(urgent') <= UrgentCap
    BY <1>1, <2>1, BecomesPrompts, BecomesPadded
  <2>3. urgent' = urgent
    BY <1>1, <2>1 DEF Becomes
  <2>. QED
    BY <2>2, <2>3 DEF Padded, SInv, CallOK
<1>4. CASE CanSubmit(a)
  <2>1. urgent' = Append(urgent, c) /\ apps' = a
    <3>1. ReleaseMedia(a) = [a EXCEPT !.submitted = <<c>>]
      BY <1>2, <1>4 DEF ReleaseMedia, c, Applied
    <3>2. [a EXCEPT !.submitted = <<c>>].submitted = <<c>>
          /\ [[a EXCEPT !.submitted = <<c>>] EXCEPT !.submitted = <<>>] = a
      BY <1>2 DEF Applied
    <3>3. urgent \o <<c>> = Append(urgent, c)
      BY <1>1
    <3>. QED
      BY <3>1, <3>2, <3>3 DEF Becomes
  <2>2. urgent \o a.submitted = urgent
    BY <1>1
  <2>3. Padded(urgent, urgent', {"release"}) /\ Padded(urgent, urgent', Silent)
    BY <1>1, <2>1, AppendPadded DEF Silent
  <2>4. AwaitedOK(a, urgent', replies') /\ SoundOK(a, urgent', replies')
    BY <2>2, <2>3, PaddedAwaited, PaddedSound DEF Good
  <2>5. SoundOK(apps, urgent, replies)'
    BY <2>1, <2>4 DEF SoundOK, Unfinished
  <2>6. Prompts'
    BY <2>1, <2>4, <2>5 DEF Good, Prompts, Once, Placed, Active, Queued, ActiveOK, AwaitedOK, Awaited
  <2>7. worker = "up"
    BY <1>4 DEF CanSubmit
  <2>8. Len(urgent') <= UrgentCap
    <3>1. Len(urgent') = Len(urgent) + 1 /\ Len(urgent) \in Nat /\ Len(a.submitted) = 0
      BY <1>1, <2>1
    <3>. QED
      BY <1>4, <3>1, TxAssumption DEF CanSubmit
  <2>. QED
    BY <2>3, <2>6, <2>7, <2>8 DEF Padded
<1>. QED
  BY <1>3, <1>4

LEMMA FinishKeeps ==
    ASSUME SInv, Finish
    PROVE  SInv'
<1>. DEFINE a == Cancel(apps, FALSE)
<1>1. Good(a, replies') /\ a.submitted = <<>>
  BY SettingHolds, AppsAreGood, CancelGood DEF Finish, SInv, Prompts
<1>2. Becomes(ReleaseMedia(a)) /\ UNCHANGED <<rust, pending>>
  BY DEF Finish
<1>. HIDE DEF a
<1>3. /\ Prompts' /\ Padded(urgent, urgent', PromptOps \cup {"release"})
      /\ Len(urgent') <= UrgentCap
      /\ worker # "up" => urgent' = <<>>
  BY <1>1, <1>2, ReleaseMediaKeeps
<1>4. call' \in [ended : BOOLEAN, allocated : BOOLEAN, releasing : BOOLEAN] /\ call'.ended
  BY DEF Finish, SInv, Shapes, CanSubmit
<1>5. (worker # "up" => ~rust.open) /\ worker \in {"up", "ended", "reported"}
  BY DEF SInv, CallOK, Shapes
<1>. QED
  BY <1>3, <1>4, <1>5, EndStep DEF Finish

LEMMA CallKeeps ==
    ASSUME SInv, CallNext
    PROVE  SInv'
<1>0. Setting /\ Good(apps, replies) /\ apps.submitted = <<>>
      /\ call \in [ended : BOOLEAN, allocated : BOOLEAN, releasing : BOOLEAN]
  BY SettingHolds, AppsAreGood DEF SInv, Prompts, Shapes
<1>1. /\ worker # "up" => ~rust.open /\ urgent = <<>>
      /\ worker \in {"up", "ended", "reported"}
  BY DEF SInv, CallOK, Shapes
<1>2. CASE Finish
  BY <1>2, FinishKeeps
<1>3. CASE ReleaseRetry
  <2>1. Becomes(ReleaseMedia(apps)) /\ Good(apps, replies') /\ UNCHANGED <<rust, pending>>
    BY <1>0, <1>3 DEF ReleaseRetry, pcmVars
  <2>2. /\ Prompts' /\ Padded(urgent, urgent', PromptOps \cup {"release"})
        /\ Len(urgent') <= UrgentCap
        /\ worker # "up" => urgent' = <<>>
    BY <1>0, <2>1, ReleaseMediaKeeps
  <2>3. call' \in [ended : BOOLEAN, allocated : BOOLEAN, releasing : BOOLEAN] /\ call'.ended
    BY <1>0, <1>3 DEF ReleaseRetry
  <2>. QED
    BY <1>1, <1>3, <2>2, <2>3, EndStep DEF ReleaseRetry, pcmVars
<1>4. CASE WorkerFailed
  <2>. DEFINE a == IF call.ended THEN MediaReleased(apps) ELSE Cancel(apps, TRUE)
  <2>1. worker = "ended" /\ ~rust.open /\ urgent = <<>>
    BY <1>1, <1>4 DEF WorkerFailed
  <2>2. Good(a, replies) /\ a.submitted = <<>>
    BY <1>0, <2>1, MediaReleasedGood, CancelGood
  <2>3. Becomes(a) /\ UNCHANGED <<replies, rust, pending>>
    BY <1>4 DEF WorkerFailed
  <2>. HIDE DEF a
  <2>4. Prompts' /\ Padded(urgent, urgent', PromptOps) /\ Len(urgent') <= UrgentCap
    BY <2>2, <2>3, BecomesPrompts, BecomesPadded DEF SInv, Shapes
  <2>5. urgent' = <<>>
    BY <2>1, <2>2, <2>3 DEF Becomes
  <2>6. call' \in [ended : BOOLEAN, allocated : BOOLEAN, releasing : BOOLEAN] /\ call'.ended
    BY <1>4 DEF WorkerFailed
  <2>7. Padded(urgent, urgent', PromptOps \cup {"release"})
    BY <2>4 DEF Padded
  <2>. QED
    BY <1>4, <2>1, <2>4, <2>5, <2>6, <2>7, EndStep DEF WorkerFailed
<1>5. ASSUME NEW m \in replies, ReleaseResult(m) PROVE SInv'
  <2>1. call.ended /\ ~rust.open
    BY <1>5 DEF SInv, CallOK, ReleaseResult
  <2>2. replies' = replies \ {m} /\ m.op = "release" /\ UNCHANGED <<rust, pending>>
    BY <1>5 DEF ReleaseResult
  <2>3. Good(apps, replies')
    BY <1>0, <2>2 DEF Good, AwaitedOK, SoundOK
  <2>4. call' \in [ended : BOOLEAN, allocated : BOOLEAN, releasing : BOOLEAN] /\ call'.ended
    BY <1>0, <1>5, <2>1 DEF ReleaseResult
  <2>5. \E a : Good(a, replies') /\ a.submitted = <<>> /\ Becomes(a)
    <3>1. CASE call.allocated
      <4>1. Good(MediaReleased(apps), replies') /\ MediaReleased(apps).submitted = <<>>
        BY <1>0, <2>1, <2>3, MediaReleasedGood
      <4>. QED
        BY <1>5, <3>1, <4>1 DEF ReleaseResult
    <3>2. CASE ~call.allocated
      <4>1. Becomes(apps)
        <5>1. urgent \o apps.submitted = urgent /\ [apps EXCEPT !.submitted = <<>>] = apps
          BY <1>0 DEF SInv, Shapes, Prompts, Applied
        <5>. QED
          BY <1>5, <3>2, <5>1 DEF ReleaseResult, Becomes
      <4>. QED
        BY <1>0, <2>3, <4>1
    <3>. QED
      BY <3>1, <3>2
  <2>6. PICK a : Good(a, replies') /\ a.submitted = <<>> /\ Becomes(a)
    BY <2>5
  <2>7. Prompts' /\ Padded(urgent, urgent', PromptOps) /\ Len(urgent') <= UrgentCap
    BY <2>2, <2>6, BecomesPrompts, BecomesPadded DEF SInv, Shapes
  <2>8. urgent' = urgent
    BY <2>6 DEF Becomes, SInv, Shapes
  <2>9. Padded(urgent, urgent', PromptOps \cup {"release"})
    BY <2>7 DEF Padded
  <2>. QED
    BY <1>1, <1>5, <2>2, <2>4, <2>7, <2>8, <2>9, EndStep DEF ReleaseResult
<1>. QED
  BY <1>2, <1>3, <1>4, <1>5 DEF CallNext
-----------------------------------------------------------------------------
(* The steps of the applications keep the invariant.                       *)

LEMMA ApplicationsKeep ==
    ASSUME SInv, Loop, NEW a, Good(a, replies), Applications(a)
    PROVE  SInv'
  BY AppsStep DEF Applications

LEMMA RunningIsActive ==
    ASSUME SInv, NEW k, Running(k)
    PROVE  /\ Loop /\ apps.active # None /\ apps.active \in Actives /\ apps.active.kind = k
           /\ Good(apps, replies) /\ Setting /\ ~call.ended
  BY AppsAreGood, SettingHolds DEF Running, SInv, Prompts, Applied

LEMMA PromptsKeep ==
    ASSUME SInv,
           \/ \E j \in Jobs : \E k \in Kinds(j) : Execute(j, k)
           \/ SleepOver \/ BreakPlay \/ BreakRead \/ LastDigit \/ Digit \/ DigitDeadline
           \/ PlaybackDue \/ HardDeadline
    PROVE  SInv'
<1>0. Setting /\ Good(apps, replies) /\ apps \in Applied
  BY SettingHolds, AppsAreGood DEF SInv, Prompts
<1>1. ASSUME NEW k, Running(k), Applications(FinishApplication(apps)) PROVE SInv'
  <2>1. Good(FinishApplication(apps), replies) /\ Loop
    BY <1>1, RunningIsActive, FinishApplicationGood
  <2>. QED
    BY <1>1, <2>1, ApplicationsKeep
<1>2. ASSUME NEW j \in Jobs, NEW k \in Kinds(j), Execute(j, k) PROVE SInv'
  <2>. DEFINE a == [apps EXCEPT !.accepted = @ \cup {j}, !.queue = Append(@, [job |-> j, kind |-> k])]
  <2>1. Loop /\ j \notin apps.accepted /\ Applications(StartNext(a))
    BY <1>2 DEF Execute
  <2>2. Good(a, replies)
    BY <1>0, <2>1, ExecuteGood
  <2>. HIDE DEF a
  <2>3. Good(StartNext(a), replies)
    BY <1>0, <2>2, StartNextGood
  <2>. QED
    BY <2>1, <2>3, ApplicationsKeep
<1>3. CASE SleepOver
  BY <1>1, <1>3 DEF SleepOver
<1>4. CASE BreakPlay
  BY <1>1, <1>4 DEF BreakPlay
<1>5. CASE LastDigit
  BY <1>1, <1>5 DEF LastDigit
<1>6. CASE DigitDeadline
  BY <1>1, <1>6 DEF DigitDeadline
<1>7. CASE BreakRead
  <2>1. Loop /\ apps.active # None /\ apps.active.id # 0 /\ Applications(StopPrompt(apps))
    BY <1>7, RunningIsActive DEF BreakRead, Busy
  <2>2. Good(StopPrompt(apps), replies)
    BY <1>0, <2>1, StopPromptGood
  <2>. QED
    BY <2>1, <2>2, ApplicationsKeep
<1>8. CASE Digit
  <2>. DEFINE x == [apps.active EXCEPT !.digits = TRUE]
              a == [apps EXCEPT !.active = x]
  <2>1. Running("read") /\ apps.active # None /\ apps.active \in Actives /\ Loop /\ ActiveOK(apps)
    BY <1>8, RunningIsActive DEF Digit, SInv, Prompts
  <2>2. /\ x \in Actives /\ x.job = apps.active.job /\ x.kind = apps.active.kind
        /\ x.id = apps.active.id /\ x.inflight = apps.active.inflight
        /\ x.state = apps.active.state /\ x.freed = apps.active.freed /\ x.due = apps.active.due
        /\ x # None
    BY <2>1, NoneIsNoApplication DEF Actives
  <2>3. [apps EXCEPT !.active.digits = TRUE] = a /\ a.active = x
    BY <1>0 DEF Applied
  <2>. HIDE DEF x
  <2>4. Good(a, replies)
    BY <1>0, <2>1, <2>2, ChangeActive DEF ActiveOK
  <2>. HIDE DEF a
  <2>5. Applications(IF a.active.state \in Final THEN a ELSE StopPrompt(a))
    BY <1>8, <2>3 DEF Digit
  <2>6. Good(StopPrompt(a), replies) \/ a.active.state \in Final
    <3>1. a.active.id # 0
      BY <2>1, <2>2, <2>3, RunningIsActive DEF ActiveOK, Prompting
    <3>. QED
      BY <1>0, <2>2, <2>3, <2>4, <3>1, StopPromptGood
  <2>7. Good(IF a.active.state \in Final THEN a ELSE StopPrompt(a), replies)
    BY <2>4, <2>6
  <2>. QED
    BY <2>1, <2>5, <2>7, ApplicationsKeep
<1>9. CASE PlaybackDue
  <2>. DEFINE op == IF apps.active.stop THEN "stop" ELSE "status"
  <2>1. /\ Loop /\ apps.active # None /\ apps.active.due /\ ~apps.active.inflight
        /\ Applications(SubmitOrRetry(apps, op))
    BY <1>9 DEF PlaybackDue
  <2>2. apps.active.id # 0 /\ op \in {"stop", "status"}
    BY <2>1 DEF SInv, Prompts, ActiveOK
  <2>. HIDE DEF op
  <2>3. Good(SubmitOrRetry(apps, op), replies)
    BY <1>0, <2>1, <2>2, SubmitOrRetryGood
  <2>. QED
    BY <2>1, <2>3, ApplicationsKeep
<1>10. CASE HardDeadline
  BY <1>1, <1>10, FinishKeeps DEF HardDeadline
<1>. QED
  BY <1>2, <1>3, <1>4, <1>5, <1>6, <1>7, <1>8, <1>9, <1>10

LEMMA MediaResultKeeps ==
    ASSUME SInv, NEW m \in replies, MediaResult(m)
    PROVE  SInv'
<1>. DEFINE a == [apps EXCEPT !.active.inflight = FALSE]
            R == replies \ {m}
<1>0. Setting /\ Good(apps, replies)
  BY SettingHolds, AppsAreGood
<1>1. m.op \in PromptOps /\ replies' = R /\ Loop
  BY DEF MediaResult, PromptOps
<1>. HIDE DEF a, R
<1>2. /\ Good(a, R) /\ a.active # None /\ a.active.id = m.id /\ m.id # 0
      /\ ~a.active.inflight /\ apps.active # None /\ apps.active.id = m.id
  BY <1>0, <1>1, AnswerTaken DEF a, R
<1>3. /\ m.state \in Final \cup {"running", "error"}
      /\ m.state \in Final => rust.state # "running"
  BY <1>1 DEF SInv, Prompts, SoundOK
<1>4. ASSUME NEW b, Becomes(b), Good(b, R) PROVE SInv'
  BY <1>1, <1>4, AppsStep DEF MediaResult, R
<1>5. Becomes(IF a.active.ended THEN FinishReleased(a)
              ELSE IF m.state = "error" THEN NotAnswered(a) ELSE Answered(a, m.state))
  BY <1>2 DEF MediaResult, a
<1>6. CASE a.active.ended
  <2>1. Good(FinishReleased(a), R)
    BY <1>0, <1>2, FinishReleasedGood
  <2>. QED
    BY <1>4, <1>5, <1>6, <2>1
<1>7. CASE ~a.active.ended /\ m.state = "error"
  <2>1. Good(NotAnswered(a), R)
    BY <1>2, NotAnsweredGood
  <2>. QED
    BY <1>4, <1>5, <1>7, <2>1
<1>8. CASE ~a.active.ended /\ m.state # "error"
  <2>1. m.state \in Final \cup {"running"}
    BY <1>3, <1>8
  <2>2. Good(Answered(a, m.state), R)
    BY <1>0, <1>2, <1>3, <2>1, AnsweredGood
  <2>. QED
    BY <1>4, <1>5, <1>8, <2>2
<1>. QED
  BY <1>6, <1>7, <1>8

-----------------------------------------------------------------------------
(* The callers of BeginPCM.                                                *)

(* The words of a request that only its caller writes, and its place in    *)
(* the queue of interrupts, matter to nobody else.                         *)
LEMMA PaddedPrompts ==
    ASSUME SInv, Padded(urgent, urgent', Silent), UNCHANGED <<apps, rust, pending, replies>>
    PROVE  Prompts'
<1>1. AwaitedOK(apps, urgent', replies) /\ SoundOK(apps, urgent', replies)
  BY PaddedAwaited, PaddedSound DEF SInv, Prompts
<1>. QED
  BY <1>1 DEF SInv, Prompts, SoundOK, ActiveOK, AwaitedOK, Awaited, Unfinished, Once, Placed, Queued, Active

LEMMA CallerStep ==
    ASSUME SInv, Padded(urgent, urgent', {"interrupt"}), worker # "up" => urgent' = urgent,
           Len(urgent') <= UrgentCap,
           UNCHANGED <<handle, callerVars>>,
           \A r \in Reqs : /\ req'[r].turn \in Nat
                           /\ req'[r].asked = req[r].asked /\ req'[r].published = req[r].published
                           /\ req'[r].turn = req[r].turn \/ req[r].published = None
                           /\ req'[r].stage # "idle" \/ req[r].stage = "idle"
    PROVE  SInv'
<1>1. UNCHANGED <<call, worker, replies, rust, apps, pending, current, checking, handle>>
  BY DEF callerVars
<1>2. Padded(urgent, urgent', Silent)
  BY DEF Padded, Silent
<1>3. Prompts'
  BY <1>1, <1>2, PaddedPrompts
<1>4. Shapes'
  BY <1>1 DEF SInv, Shapes, Padded
<1>5. CallOK'
  BY <1>1 DEF SInv, CallOK, Padded
<1>6. \A h : Real(h)' <=> Real(h)
  BY DEF Real
<1>7. \A h : Over(h)' <=> Over(h)
  BY <1>1 DEF Over
<1>8. (Eligible' <=> Eligible) /\ (Live' <=> Live)
  BY <1>1 DEF Eligible, Live
<1>9. HandlesOK'
  <2>1. HandlesOK
    BY DEF SInv
  <2>. HIDE DEF Real, Over, Eligible, Live
  <2>. QED
    BY <1>1, <1>6, <1>7, <1>8, <2>1 DEF HandlesOK
<1>10. BeginsOK'
  <2>1. \A i \in 1..Len(urgent') :
            urgent'[i].op = "begin" => i \in 1..Len(urgent) /\ urgent'[i] = urgent[i]
    BY DEF Padded
  <2>2. \A r : Begun(r)' <=> Begun(r)
    BY <1>1 DEF Begun
  <2>3. \A r : Begun(r) => req'[r].turn = req[r].turn
    BY DEF Begun
  <2>4. BeginsOK
    BY DEF SInv
  <2>. HIDE DEF Begun
  <2>. QED
    BY <1>1, <2>1, <2>2, <2>3, <2>4 DEF BeginsOK
<1>11. SpeakingOK'
  <2>1. \A m \in replies : Spoken(m) => req'[m.id].turn = req[m.id].turn
    BY DEF SInv, BeginsOK, Begun, Spoken
  <2>2. \A m \in replies : Spoken(m) => Spoken(m)'
    BY <1>1, <2>1 DEF Spoken
  <2>. QED
    BY <1>1, <1>8, <2>2 DEF SInv, SpeakingOK
<1>12. CheckingOK'
  <2>1. checking # None => checking \in Reqs
    BY DEF SInv, Shapes
  <2>. QED
    BY <1>1, <2>1 DEF SInv, CheckingOK, LegacyTXBusy, Busy
<1>. QED
  BY <1>3, <1>4, <1>5, <1>9, <1>10, <1>11, <1>12 DEF SInv

LEMMA OneMoreFits ==
    ASSUME SInv, CanSubmit(apps), NEW c
    PROVE  worker = "up" /\ Len(Append(urgent, c)) <= UrgentCap
<1>1. urgent \in Seq(Commands) /\ apps.submitted = <<>>
  BY DEF SInv, Shapes, Prompts
<1>2. Len(Append(urgent, c)) = Len(urgent) + 1 /\ Len(urgent) \in Nat /\ Len(apps.submitted) = 0
  BY <1>1
<1>. QED
  BY <1>2, TxAssumption DEF CanSubmit

(* Only an interrupt is ever added.                                        *)
LEMMA AbandonPads ==
    ASSUME SInv, NEW h, (Abandon(h) /\ h \in Reqs) \/ UNCHANGED urgent
    PROVE  /\ Padded(urgent, urgent', {"interrupt"}) /\ Len(urgent') <= UrgentCap
           /\ worker # "up" => urgent' = urgent
<1>. DEFINE c == [op |-> "interrupt", id |-> h]
<1>1. urgent \in Seq(Commands)
  BY DEF SInv, Shapes
<1>2. c.op \in {"interrupt"} /\ (h \in Reqs => c \in Commands)
  BY DEF Commands, Reqs
<1>. HIDE DEF c
<1>3. Padded(urgent, urgent, {"interrupt"})
  BY <1>1 DEF Padded
<1>4. h \in Reqs => Padded(urgent, Append(urgent, c), {"interrupt"})
  BY <1>1, <1>2, AppendPadded
<1>5. urgent' = urgent \/ (urgent' = Append(urgent, c) /\ CanSubmit(apps) /\ h \in Reqs)
  BY DEF Abandon, c
<1>6. Len(urgent') <= UrgentCap
  BY <1>5, OneMoreFits DEF SInv, Shapes
<1>. QED
  BY <1>3, <1>4, <1>5, <1>6 DEF CanSubmit

LEMMA CallerKeeps ==
    ASSUME IInv, SInv, DeliveredOK, CallerNext
    PROVE  SInv'
<1>1. /\ DOMAIN req = Reqs /\ \A r \in Reqs : DOMAIN req[r] = Words /\ req[r].turn \in Nat
      /\ \A r \in Reqs : req[r].published \in Reqs \cup {None}
  BY DEF IInv, AllAgree, Agreed, SInv, Shapes, HandlesOK, Real
<1>2. Padded(urgent, urgent, {"interrupt"}) /\ Len(urgent) <= UrgentCap
  BY DEF Padded, SInv, Shapes
<1>3. ASSUME NEW r \in Reqs, NEW t \in 1..MaxTurn, Begin(r, t) PROVE SInv'
  <2>1. req' = [req EXCEPT ![r].stage = "waiting", ![r].turn = t] /\ req[r].stage = "idle"
        /\ urgent' = urgent /\ UNCHANGED <<handle, callerVars>>
    BY <1>3 DEF Begin
  <2>2. req[r].published = None /\ t \in Nat
    BY <2>1, TxAssumption DEF SInv, HandlesOK
  <2>. QED
    BY <1>1, <1>2, <2>1, <2>2, CallerStep DEF Words
<1>4. ASSUME NEW r \in Reqs, CancelContext(r) PROVE SInv'
  BY <1>1, <1>2, <1>4, CallerStep DEF CancelContext, Words
<1>5. ASSUME NEW r \in Reqs, Receive(r) PROVE SInv'
  <2>1. Padded(urgent, urgent', {"interrupt"}) /\ Len(urgent') <= UrgentCap
        /\ (worker # "up" => urgent' = urgent)
    BY <1>1, <1>5, AbandonPads DEF Receive, DeliveredOK
  <2>. QED
    BY <1>1, <1>5, <2>1, CallerStep DEF Receive, Words
<1>6. ASSUME NEW r \in Reqs, GiveUp(r) PROVE SInv'
  BY <1>1, <1>2, <1>6, CallerStep DEF GiveUp, Words
<1>7. ASSUME NEW r \in Reqs, Leave(r) PROVE SInv'
  <2>1. Padded(urgent, urgent', {"interrupt"}) /\ Len(urgent') <= UrgentCap
        /\ (worker # "up" => urgent' = urgent)
    BY <1>1, <1>7, AbandonPads DEF Leave
  <2>. QED
    BY <1>1, <1>7, <2>1, CallerStep DEF Leave, Words
<1>8. ASSUME NEW r \in Reqs, Ask(r) PROVE SInv'
  <2>1. Abandon(r)
    BY <1>8 DEF Ask, Abandon
  <2>2. Padded(urgent, urgent', {"interrupt"}) /\ Len(urgent') <= UrgentCap
        /\ (worker # "up" => urgent' = urgent)
    BY <2>1, AbandonPads
  <2>. QED
    BY <1>1, <1>8, <2>2, CallerStep DEF Ask
<1>. QED
  BY <1>3, <1>4, <1>5, <1>6, <1>7, <1>8 DEF CallerNext
-----------------------------------------------------------------------------
(* BeginPCM in the call loop.                                              *)

HandleRecords == [turn : Nat, committed : BOOLEAN, retired : BOOLEAN, terminal : BOOLEAN]

(* What of a request the invariant depends on.                             *)
SameRequest(p, q) ==
    /\ p.turn = q.turn /\ p.published = q.published /\ p.stage = q.stage /\ p.asked = q.asked

LEMMA DeliverSame ==
    ASSUME NEW f, AllAgree(f), NEW r \in Reqs, NEW result
    PROVE  /\ DOMAIN Deliver(f, r, result) = Reqs
           /\ \A x \in Reqs : /\ DOMAIN Deliver(f, r, result)[x] = Words
                              /\ SameRequest(Deliver(f, r, result)[x], f[x])
<1>. DEFINE d == Deliver(f, r, result)
<1>1. CASE f[r].delivery # "waiting"
  BY <1>1 DEF Deliver, AllAgree, Agreed, SameRequest
<1>2. CASE f[r].delivery = "waiting"
  <2>1. d = [f EXCEPT ![r].delivery = "claimed", ![r].result = result]
    BY <1>2 DEF Deliver
  <2>2. DOMAIN f = Reqs /\ \A x \in Reqs : DOMAIN f[x] = Words
    BY DEF AllAgree, Agreed
  <2>. HIDE DEF d
  <2>3. DOMAIN d = Reqs /\ \A x \in Reqs : DOMAIN d[x] = Words /\ SameRequest(d[x], f[x])
    BY <2>1, <2>2 DEF Words, SameRequest
  <2>. QED
    BY <2>3 DEF d
<1>. QED
  BY <1>1, <1>2

(* Nothing changes but the words that the loop writes for the caller.      *)
LEMMA AnswerStep ==
    ASSUME SInv, UNCHANGED <<handle, loopVars>>,
           \A x \in Reqs : /\ req'[x].turn = req[x].turn /\ req'[x].published = req[x].published
                           /\ req'[x].stage = req[x].stage
                           /\ req'[x].asked = req[x].asked
                                \/ (req'[x].asked /\ req[x].stage # "idle"),
           checking' = None \/ (checking' \in Reqs /\ CheckingOK')
    PROVE  SInv'
<1>1. UNCHANGED <<call, worker, urgent, replies, rust, apps, pending, current, handle>>
  BY DEF loopVars
<1>2. Shapes'
  BY <1>1 DEF SInv, Shapes
<1>3. Prompts'
  BY <1>1 DEF SInv, Prompts, SoundOK, ActiveOK, AwaitedOK, Awaited, Unfinished, Once, Placed, Queued, Active
<1>4. CallOK'
  BY <1>1 DEF SInv, CallOK
<1>5. (\A h : Real(h)' <=> Real(h)) /\ (\A h : Over(h)' <=> Over(h))
      /\ (Eligible' <=> Eligible) /\ (Live' <=> Live) /\ (\A h : Begun(h)' <=> Begun(h))
  BY <1>1 DEF Real, Over, Eligible, Live, Begun
<1>6. HandlesOK'
  <2>1. HandlesOK
    BY DEF SInv
  <2>. HIDE DEF Real, Over, Eligible, Live
  <2>. QED
    BY <1>1, <1>5, <2>1 DEF HandlesOK
<1>7. BeginsOK'
  <2>1. BeginsOK
    BY DEF SInv
  <2>2. \A x : Begun(x) => req'[x].turn = req[x].turn
    BY DEF Begun
  <2>. HIDE DEF Begun
  <2>. QED
    BY <1>1, <1>5, <2>1, <2>2 DEF BeginsOK
<1>8. SpeakingOK'
  <2>1. \A m \in replies : Spoken(m) => req'[m.id].turn = req[m.id].turn
    BY DEF SInv, BeginsOK, Begun, Spoken
  <2>2. \A m \in replies : Spoken(m) => Spoken(m)'
    BY <1>1, <2>1 DEF Spoken
  <2>. QED
    BY <1>1, <1>5, <2>2 DEF SInv, SpeakingOK
<1>9. CheckingOK'
  BY DEF CheckingOK
<1>. QED
  BY <1>2, <1>3, <1>4, <1>6, <1>7, <1>8, <1>9 DEF SInv

LEMMA RefuseKeeps ==
    ASSUME IInv, SInv, NEW r \in Reqs, RefuseBegin(r) \/ AdmitBegin(r)
    PROVE  SInv'
<1>1. AllAgree(req) /\ DOMAIN req = Reqs /\ \A x \in Reqs : DOMAIN req[x] = Words
  BY DEF IInv, AllAgree, Agreed
<1>2. Loop /\ req[r].stage # "idle" /\ ~req[r].asked /\ UNCHANGED <<handle, loopVars>>
  BY DEF RefuseBegin, AdmitBegin, Waiting
<1>3. CASE RefuseBegin(r)
  <2>. DEFINE d == Deliver(req, r, "refused")
  <2>1. DOMAIN d = Reqs /\ \A x \in Reqs : DOMAIN d[x] = Words /\ SameRequest(d[x], req[x])
    BY <1>1, DeliverSame
  <2>2. req' = [d EXCEPT ![r].asked = TRUE] /\ checking' = None
    BY <1>2, <1>3 DEF RefuseBegin, Loop
  <2>. HIDE DEF d
  <2>3. \A x \in Reqs : /\ req'[x].turn = d[x].turn /\ req'[x].published = d[x].published
                        /\ req'[x].stage = d[x].stage
                        /\ req'[x].asked = IF x = r THEN TRUE ELSE d[x].asked
    BY <2>1, <2>2 DEF Words
  <2>. QED
    BY ZenonT(60), <1>2, <2>1, <2>2, <2>3, AnswerStep DEF SameRequest
<1>4. CASE AdmitBegin(r)
  <2>1. req' = [req EXCEPT ![r].asked = TRUE] /\ checking' = r /\ ~Refusable(r)
    BY <1>4 DEF AdmitBegin
  <2>2. \A x \in Reqs : /\ req'[x].turn = req[x].turn /\ req'[x].published = req[x].published
                        /\ req'[x].stage = req[x].stage
                        /\ req'[x].asked = IF x = r THEN TRUE ELSE req[x].asked
    BY <1>1, <2>1 DEF Words
  <2>3. req[r].published = None
    BY <1>2 DEF SInv, HandlesOK
  <2>4. CheckingOK'
    BY <1>2, <2>1, <2>2, <2>3
    DEF CheckingOK, Refusable, Eligible, LegacyTXBusy, Busy, loopVars
  <2>. QED
    BY <1>2, <2>1, <2>2, <2>4, AnswerStep
<1>. QED
  BY <1>3, <1>4

LEMMA PublishKeeps ==
    ASSUME IInv, SInv, NEW r \in Reqs, PublishBegin(r)
    PROVE  SInv'
<1>0. PICK h : h = IF SameTurn(req[r].turn) THEN current ELSE r
  OBVIOUS
<1>1. /\ UNCHANGED <<call, worker, urgent, replies, rust, apps, pending, current, checking>>
      /\ checking = r /\ req[r].published = None /\ req' = [req EXCEPT ![r].published = h]
      /\ handle' = IF h = r THEN [handle EXCEPT ![r].turn = req[r].turn] ELSE handle
  BY <1>0 DEF PublishBegin, loopVars
<1>2. DOMAIN req = Reqs /\ (\A x \in Reqs : DOMAIN req[x] = Words) /\ handle \in [Reqs -> HandleRecords]
      /\ req[r].turn \in Nat /\ None \notin Reqs
  <2>1. DOMAIN req = Reqs /\ \A x \in Reqs : DOMAIN req[x] = Words
    BY DEF IInv, AllAgree, Agreed
  <2>2. handle \in [Reqs -> HandleRecords] /\ req[r].turn \in Nat
    BY DEF SInv, Shapes, HandleRecords
  <2>3. None \notin Reqs
    BY TxAssumption DEF Reqs
  <2>. QED
    BY <2>1, <2>2, <2>3
<1>3. pending = None /\ req[r].asked
  BY <1>1, <1>2 DEF SInv, CheckingOK
<1>4. ~Real(r)
  BY <1>1, <1>2 DEF Real
<1>5. h = current \/ h = r
  BY <1>0
<1>6. /\ h # None /\ (h # r => Real(h) /\ handle[h].turn = req[r].turn /\ h = current)
  BY <1>0, <1>2 DEF SameTurn, SInv, HandlesOK
<1>7. /\ req'[r].published = h
      /\ \A x \in Reqs : /\ req'[x].turn = req[x].turn /\ req'[x].stage = req[x].stage
                         /\ req'[x].asked = req[x].asked
                         /\ x # r => req'[x].published = req[x].published
  BY <1>1, <1>2 DEF Words
<1>8. /\ handle' \in [Reqs -> HandleRecords]
      /\ handle'[h].turn = req[r].turn
      /\ \A x \in Reqs : /\ handle'[x].terminal = handle[x].terminal
                         /\ handle'[x].retired = handle[x].retired
                         /\ x # r => handle'[x] = handle[x]
  BY <1>1, <1>2, <1>6 DEF HandleRecords
<1>9. Shapes'
  BY <1>1, <1>7, <1>8 DEF SInv, Shapes, HandleRecords
<1>10. Prompts'
  BY <1>1 DEF SInv, Prompts, SoundOK, ActiveOK, AwaitedOK, Awaited, Unfinished, Once, Placed, Queued, Active
<1>11. CallOK'
  BY <1>1 DEF SInv, CallOK
<1>12. ASSUME NEW x, Real(x) PROVE Real(x)' /\ x # r /\ handle'[x] = handle[x] /\ (Over(x)' <=> Over(x))
  BY <1>1, <1>4, <1>7, <1>8, <1>12 DEF Real, Over
<1>13. (Eligible' <=> Eligible) /\ (Live' <=> Live)
  BY <1>1 DEF Eligible, Live
<1>14. Real(h)'
  BY <1>5, <1>6, <1>7, <1>12 DEF Real
<1>15. HandlesOK'
  <2>1. HandlesOK
    BY DEF SInv
  <2>2. ASSUME NEW x \in Reqs, req'[x].published # None
        PROVE  \E p : p = req'[x].published /\ Real(p)' /\ handle'[p].turn = req'[x].turn
    <3>1. CASE x = r
      BY <1>7, <1>8, <1>14, <3>1
    <3>2. CASE x # r
      <4>1. PICK p : p = req[x].published
        OBVIOUS
      <4>2. p # None /\ p = req'[x].published
        BY <1>7, <2>2, <3>2, <4>1
      <4>3. Real(p) /\ handle[p].turn = req[x].turn
        BY <2>1, <4>1, <4>2 DEF HandlesOK
      <4>. QED
        BY <1>7, <1>12, <4>2, <4>3
    <3>. QED
      BY <3>1, <3>2
  <2>3. \A x \in Reqs : (req'[x].stage = "idle" => ~req'[x].asked)
                        /\ (~req'[x].asked => req'[x].published = None)
    BY <1>3, <1>7, <2>1 DEF HandlesOK
  <2>4. \A x \in Reqs : handle'[x].terminal \/ handle'[x].retired => Real(x)'
    BY <1>8, <1>12, <2>1 DEF HandlesOK
  <2>5. \A x \in {pending, current} \ {None} : Real(x)' /\ (Eligible => ~handle'[x].retired)
    BY <1>12, <2>1 DEF HandlesOK
  <2>6. Live => \A x \in Reqs : handle'[x].terminal => Over(x)'
    BY <1>8, <1>12, <2>1 DEF HandlesOK
  <2>7. \A m \in replies : m.op = "observe" => Real(m.id)' /\ Over(m.id)'
    BY <1>12, <2>1 DEF HandlesOK
  <2>8. ASSUME NEW x \in Reqs, req'[x].published # None
        PROVE  Real(req[x].published)' /\ handle'[req'[x].published].turn = req'[x].turn
    BY <2>2, <2>8 DEF Real
  <2>. HIDE DEF Real, Over, Eligible, Live
  <2>. QED
    BY <1>1, <1>13, <2>3, <2>4, <2>5, <2>6, <2>7, <2>8 DEF HandlesOK
<1>16. /\ \A i \in 1..Len(urgent) : urgent[i].op # "begin"
       /\ \A m \in replies : m.op # "begin"
  BY <1>3 DEF SInv, BeginsOK, Begun
<1>17. BeginsOK'
  BY <1>1, <1>16 DEF BeginsOK
<1>18. SpeakingOK'
  <2>1. current # None => handle'[current] = handle[current]
    BY <1>12 DEF SInv, HandlesOK
  <2>. QED
    BY <1>1, <1>13, <1>16, <2>1 DEF SInv, SpeakingOK, Spoken
<1>19. CheckingOK'
  <2>1. h = r => ~handle[r].retired
    BY <1>4 DEF SInv, HandlesOK
  <2>. QED
    BY <1>1, <1>2, <1>3, <1>5, <1>7, <1>8, <2>1 DEF SInv, CheckingOK, LegacyTXBusy, Busy
<1>. QED
  BY <1>9, <1>10, <1>11, <1>15, <1>17, <1>18, <1>19 DEF SInv

(* While no prompt is busy none sounds, and none is about to start.        *)
LEMMA NotBusyNoStart ==
    ASSUME SInv, ~LegacyTXBusy
    PROVE  /\ rust.state # "running"
           /\ \A i \in 1..Len(urgent) : urgent[i].op # "start"
<1>1. AwaitedOK(apps, urgent, replies) /\ SoundOK(apps, urgent, replies) /\ ActiveOK(apps)
  BY DEF SInv, Prompts
<1>2. ASSUME apps.active # None, apps.active.id # 0 PROVE ~Busy(apps)
  BY <1>1, <1>2 DEF LegacyTXBusy, ActiveOK
<1>3. rust.state # "running"
  BY <1>1, <1>2 DEF SoundOK, Unfinished, Busy
<1>4. ASSUME NEW i \in 1..Len(urgent), urgent[i].op = "start" PROVE FALSE
  <2>1. Awaited(apps, urgent[i].id)
    BY <1>1, <1>4 DEF AwaitedOK, PromptOps
  <2>. QED
    BY <1>2, <2>1 DEF Awaited, Busy
<1>. QED
  BY <1>3, <1>4

LEMMA SubmitKeeps ==
    ASSUME IInv, SInv, NEW r \in Reqs, SubmitBegin(r)
    PROVE  SInv'
<1>0. PICK h : h = req[r].published
  OBVIOUS
<1>1. /\ UNCHANGED <<call, worker, replies, rust, apps, current>>
      /\ checking = r /\ checking' = None /\ h # None
  BY <1>0 DEF SubmitBegin
<1>2. DOMAIN req = Reqs /\ (\A x \in Reqs : DOMAIN req[x] = Words) /\ AllAgree(req)
      /\ handle \in [Reqs -> HandleRecords] /\ None \notin Reqs /\ urgent \in Seq(Commands)
  BY TxAssumption DEF IInv, AllAgree, Agreed, SInv, Shapes, HandleRecords, Reqs
<1>3. /\ pending = None /\ ~LegacyTXBusy /\ ~call.ended /\ req[r].asked
      /\ h = current \/ (h = r /\ ~handle[r].retired)
  BY <1>0, <1>1, <1>2 DEF SInv, CheckingOK
<1>4. Real(h) /\ h \in Reqs /\ handle[h].turn = req[r].turn
  BY <1>0, <1>1 DEF SInv, HandlesOK, Real
<1>5. /\ \A i \in 1..Len(urgent) : urgent[i].op # "begin"
      /\ \A m \in replies : m.op # "begin"
  BY <1>3 DEF SInv, BeginsOK, Begun
<1>6. CheckingOK'
  BY <1>1 DEF CheckingOK
<1>7. (Eligible' <=> Eligible) /\ (Live' <=> Live)
  BY <1>1 DEF Eligible, Live
<1>8. HandlesOK
  BY DEF SInv
<1>9. CASE MaySubmit(r) /\ CanSubmit(apps)
  <2>. DEFINE c == [op |-> "begin", id |-> r]
  <2>1. /\ pending' = h /\ urgent' = Append(urgent, c)
        /\ req' = [req EXCEPT ![r].sent = TRUE] /\ handle' = handle
    BY <1>0, <1>9 DEF SubmitBegin
  <2>2. \A x \in Reqs : SameRequest(req'[x], req[x])
    BY <1>2, <2>1 DEF Words, SameRequest
  <2>3. c \in Commands /\ c.op = "begin" /\ c.id = r
    BY DEF Commands, Reqs
  <2>. HIDE DEF c
  <2>4. /\ urgent' \in Seq(Commands) /\ Len(urgent') = Len(urgent) + 1 /\ Len(urgent) \in Nat
        /\ \A i \in 1..Len(urgent') : IF i = Len(urgent) + 1 THEN urgent'[i] = c
                                      ELSE i \in 1..Len(urgent) /\ urgent'[i] = urgent[i]
    BY <1>2, <2>1, <2>3
  <2>5. Shapes'
    <3>1. Len(urgent') <= UrgentCap
      BY <1>9, <2>1, OneMoreFits
    <3>. QED
      BY <1>1, <1>4, <2>1, <2>2, <2>4, <3>1 DEF SInv, Shapes, SameRequest
  <2>6. rust.state # "running" /\ \A i \in 1..Len(urgent) : urgent[i].op # "start"
    BY <1>3, NotBusyNoStart
  <2>7. Prompts'
    <3>1. AwaitedOK(apps, urgent', replies)
      <4>1. \A i \in 1..Len(urgent') : urgent'[i].op \in PromptOps =>
                i \in 1..Len(urgent) /\ urgent'[i] = urgent[i]
        BY <2>3, <2>4 DEF PromptOps
      <4>. QED
        BY <4>1 DEF SInv, Prompts, AwaitedOK
    <3>2. SoundOK(apps, urgent, replies)'
      <4>1. \A i \in 1..Len(urgent') : urgent'[i].op # "start"
        BY <2>3, <2>4, <2>6
      <4>2. SoundOK(apps, urgent, replies)
        BY DEF SInv, Prompts
      <4>. QED
        BY <1>1, <1>2, <1>4, <2>1, <2>6, <4>1, <4>2 DEF SoundOK, Unfinished
    <3>. QED
      BY <1>1, <3>1, <3>2 DEF SInv, Prompts, ActiveOK, AwaitedOK, Awaited, Once, Placed, Queued, Active
  <2>8. CallOK'
    BY <1>1, <1>9, <2>3, <2>4 DEF SInv, CallOK, CanSubmit
  <2>9. (\A x : Real(x)' <=> Real(x)) /\ (\A x : Over(x)' <=> Over(x))
    BY <1>1, <2>1, <2>2 DEF Real, Over, SameRequest
  <2>10. HandlesOK'
    <3>1. Eligible => ~handle[h].retired
      BY <1>2, <1>3, <1>4, <1>8 DEF HandlesOK
    <3>. HIDE DEF Real, Over, Eligible, Live
    <3>. QED
      BY <1>1, <1>4, <1>7, <1>8, <2>1, <2>2, <2>9, <3>1 DEF HandlesOK, SameRequest
  <2>11. BeginsOK'
    <3>1. Begun(r)'
      BY <1>0, <1>1, <2>1, <2>2 DEF Begun, SameRequest
    <3>2. \A i \in 1..Len(urgent') : urgent'[i].op = "begin" => i = Len(urgent) + 1 /\ urgent'[i].id = r
      BY <1>5, <2>3, <2>4
    <3>. HIDE DEF Begun
    <3>. QED
      BY <1>1, <1>5, <3>1, <3>2 DEF BeginsOK
  <2>12. SpeakingOK'
    BY <1>1, <1>5, <1>7, <2>1 DEF SInv, SpeakingOK, Spoken
  <2>. QED
    BY <1>6, <2>5, <2>7, <2>8, <2>10, <2>11, <2>12 DEF SInv
<1>10. CASE ~(MaySubmit(r) /\ CanSubmit(apps))
  <2>1. /\ UNCHANGED <<pending, urgent>> /\ req' = Deliver(req, r, "refused")
        /\ handle' = IF h = current THEN handle ELSE [handle EXCEPT ![h].retired = TRUE]
    BY <1>0, <1>10 DEF SubmitBegin
  <2>2. \A x \in Reqs : SameRequest(req'[x], req[x])
    BY <1>2, <2>1, DeliverSame
  <2>3. /\ handle' \in [Reqs -> HandleRecords]
        /\ \A x \in Reqs : /\ handle'[x].turn = handle[x].turn /\ handle'[x].terminal = handle[x].terminal
                           /\ x # h \/ h = current => handle'[x] = handle[x]
    BY <1>2, <1>4, <2>1 DEF HandleRecords
  <2>4. Shapes'
    <3>1. \A x \in Reqs : req'[x].turn \in Nat
      BY <2>2 DEF SInv, Shapes, SameRequest
    <3>. QED
      BY <1>1, <2>1, <2>3, <3>1 DEF SInv, Shapes, HandleRecords
  <2>5. Prompts'
    BY <1>1, <2>1 DEF SInv, Prompts, SoundOK, ActiveOK, AwaitedOK, Awaited, Unfinished, Once, Placed, Queued, Active
  <2>6. CallOK'
    BY <1>1, <2>1 DEF SInv, CallOK
  <2>7. (\A x : Real(x)' <=> Real(x)) /\ (\A x \in Reqs : Over(x)' <=> Over(x))
    BY <1>1, <2>2, <2>3 DEF Real, Over, SameRequest
  <2>8. HandlesOK'
    <3>1. ASSUME NEW x \in Reqs, req'[x].published # None
          PROVE  Real(req[x].published)' /\ handle'[req'[x].published].turn = req'[x].turn
      <4>1. req'[x].published = req[x].published /\ req'[x].turn = req[x].turn
        BY <2>2 DEF SameRequest
      <4>2. Real(req[x].published) /\ handle[req[x].published].turn = req[x].turn
        BY <1>8, <3>1, <4>1 DEF HandlesOK
      <4>3. req[x].published \in Reqs
        BY <4>2 DEF Real
      <4>4. Real(req[x].published)'
        BY <2>7, <4>1, <4>2
      <4>. QED
        BY <2>3, <4>1, <4>2, <4>3, <4>4
    <3>2. \A x \in Reqs : handle'[x].terminal \/ handle'[x].retired => Real(x)
      BY <1>4, <1>8, <2>3 DEF HandlesOK
    <3>3. \A x \in {pending, current} \ {None} : Real(x) /\ handle'[x] = handle[x]
      BY <1>3, <1>8, <2>3 DEF HandlesOK, Real
    <3>4. \A m \in replies : m.op = "observe" => Real(m.id) /\ Over(m.id)'
      BY <1>8, <2>7 DEF HandlesOK, Real
    <3>. HIDE DEF Real, Over, Eligible, Live
    <3>. QED
      BY ZenonT(60), <1>1, <1>7, <1>8, <2>1, <2>2, <2>3, <2>7, <3>1, <3>2, <3>3, <3>4 DEF HandlesOK, SameRequest
  <2>9. BeginsOK'
    BY <1>1, <1>5, <2>1 DEF BeginsOK
  <2>10. SpeakingOK'
    <3>1. current # None => handle'[current] = handle[current]
      BY <1>8, <2>3 DEF HandlesOK, Real
    <3>. QED
      BY <1>1, <1>5, <1>7, <3>1 DEF SInv, SpeakingOK, Spoken
  <2>. QED
    BY <1>6, <2>4, <2>5, <2>6, <2>8, <2>9, <2>10 DEF SInv
<1>. QED
  BY <1>9, <1>10

(* A turn is over for good, and its handle may know.                       *)
LEMMA ObserveKeeps ==
    ASSUME SInv, NEW m \in replies, Observe(m)
    PROVE  SInv'
<1>1. /\ UNCHANGED <<call, worker, urgent, rust, apps, req, pending, current, checking>>
      /\ m.op = "observe" /\ replies' = replies \ {m}
      /\ handle' = [handle EXCEPT ![m.id].terminal = TRUE]
  BY DEF Observe
<1>2. HandlesOK /\ handle \in [Reqs -> HandleRecords]
  BY DEF SInv, Shapes, HandleRecords
<1>3. m.id \in Reqs /\ Real(m.id) /\ Over(m.id)
  BY <1>1, <1>2 DEF HandlesOK, Real
<1>4. /\ handle' \in [Reqs -> HandleRecords]
      /\ \A x \in Reqs : /\ handle'[x].turn = handle[x].turn /\ handle'[x].retired = handle[x].retired
                         /\ x # m.id => handle'[x] = handle[x]
  BY <1>2, <1>3, <1>1 DEF HandleRecords
<1>5. Shapes'
  BY <1>1, <1>4 DEF SInv, Shapes, HandleRecords
<1>6. Prompts'
  BY <1>1 DEF SInv, Prompts, SoundOK, ActiveOK, AwaitedOK, Awaited, Unfinished, Once, Placed, Queued, Active
<1>7. CallOK'
  BY <1>1 DEF SInv, CallOK
<1>8. (\A x : Real(x)' <=> Real(x)) /\ (\A x \in Reqs : Over(x)' <=> Over(x))
      /\ (Eligible' <=> Eligible) /\ (Live' <=> Live) /\ (\A x : Begun(x)' <=> Begun(x))
  BY <1>1, <1>4 DEF Real, Over, Eligible, Live, Begun
<1>9. HandlesOK'
  <2>1. ASSUME NEW x \in Reqs, req[x].published # None
        PROVE  Real(req[x].published) /\ handle'[req[x].published].turn = req[x].turn
    BY <1>2, <1>4, <2>1 DEF HandlesOK, Real
  <2>2. \A x \in Reqs : handle'[x].terminal \/ handle'[x].retired => Real(x)
    BY <1>2, <1>3, <1>4 DEF HandlesOK
  <2>3. \A x \in {pending, current} \ {None} : Real(x) /\ (Eligible => ~handle'[x].retired)
    BY <1>2, <1>4 DEF HandlesOK, Real
  <2>4. Live => \A x \in Reqs : handle'[x].terminal => Over(x)
    BY <1>2, <1>3, <1>4 DEF HandlesOK
  <2>5. \A n \in replies' : n.op = "observe" => Real(n.id) /\ Over(n.id)'
    BY <1>1, <1>2, <1>8 DEF HandlesOK, Real
  <2>. HIDE DEF Real, Over, Eligible, Live
  <2>. QED
    BY <1>1, <1>2, <1>8, <2>1, <2>2, <2>3, <2>4, <2>5 DEF HandlesOK
<1>10. BeginsOK'
  <2>1. BeginsOK
    BY DEF SInv
  <2>. HIDE DEF Begun
  <2>. QED
    BY <1>1, <1>8, <2>1 DEF BeginsOK
<1>11. SpeakingOK'
  <2>1. ASSUME rust.speaking, current # None, handle[current].turn = rust.turn
        PROVE  handle'[current] = handle[current]
    <3>1. current # m.id
      BY <1>2, <1>3, <2>1 DEF Over, SInv, Shapes
    <3>2. current \in Reqs
      BY <1>2, <2>1 DEF HandlesOK, Real
    <3>. QED
      BY <1>4, <3>1, <3>2
  <2>2. \A n \in replies : Spoken(n) => n \in replies' /\ Spoken(n)'
    BY <1>1 DEF Spoken
  <2>. QED
    BY <1>1, <1>8, <2>1, <2>2 DEF SInv, SpeakingOK
<1>12. CheckingOK'
  <2>1. checking # None => checking \in Reqs
    BY DEF SInv, Shapes
  <2>. QED
    BY <1>1, <1>4, <2>1 DEF SInv, CheckingOK, LegacyTXBusy, Busy
<1>. QED
  BY <1>5, <1>6, <1>7, <1>9, <1>10, <1>11, <1>12 DEF SInv
-----------------------------------------------------------------------------
(* The answer of a begin is taken: no begin is anywhere any more.          *)
LEMMA BeginTaken ==
    ASSUME SInv, Loop, NEW m \in replies, m.op = "begin", replies' = replies \ {m}, pending' = None,
           UNCHANGED <<call, worker, rust, apps, checking>>,
           Padded(urgent, urgent', {"interrupt"}), worker # "up" => urgent' = urgent,
           Len(urgent') <= UrgentCap,
           \A x \in Reqs : SameRequest(req'[x], req[x]),
           handle' \in [Reqs -> HandleRecords],
           \A x \in Reqs : /\ handle'[x].turn = handle[x].turn
                           /\ handle'[x].terminal \/ handle'[x].retired => Real(x)
                           /\ Live /\ handle'[x].terminal => Over(x),
           current' = current \/ current' = req[m.id].published,
           Eligible /\ current' # None => ~handle'[current'].retired,
           rust.speaking /\ Eligible =>
               current' # None /\ handle'[current'].turn = rust.turn /\ ~handle'[current'].terminal
    PROVE  SInv'
<1>1. BeginsOK /\ HandlesOK /\ CallOK /\ None \notin Reqs
  BY TxAssumption DEF SInv, Reqs
<1>2. Begun(m.id) /\ m.id \in Reqs /\ Real(req[m.id].published)
  BY <1>1 DEF BeginsOK, HandlesOK, Begun
<1>3. current' # None => Real(current') /\ current' \in Reqs
  BY <1>1, <1>2 DEF HandlesOK, Real
<1>4. /\ \A n \in replies' : n.op # "begin"
      /\ \A i \in 1..Len(urgent') : urgent'[i].op # "begin"
      /\ \A i \in 1..Len(urgent') : urgent'[i].op # "interrupt" =>
             i \in 1..Len(urgent) /\ urgent'[i] = urgent[i]
  BY <1>1 DEF BeginsOK, Padded
<1>5. Shapes'
  BY <1>3 DEF SInv, Shapes, Padded, SameRequest, HandleRecords
<1>6. Prompts'
  <2>1. Padded(urgent, urgent', Silent)
    BY DEF Padded, Silent
  <2>2. AwaitedOK(apps, urgent', replies) /\ SoundOK(apps, urgent', replies)
    BY <2>1, PaddedAwaited, PaddedSound DEF SInv, Prompts
  <2>3. AwaitedOK(apps, urgent', replies')
    BY <2>2 DEF AwaitedOK
  <2>4. SoundOK(apps, urgent, replies)'
    BY <1>4, <2>2 DEF SoundOK, Unfinished
  <2>. QED
    BY <2>3, <2>4 DEF SInv, Prompts, ActiveOK, AwaitedOK, Awaited, Once, Placed, Queued, Active
<1>7. CallOK'
  BY <1>1, <1>4 DEF CallOK
<1>8. (\A x \in Reqs : (Real(x)' <=> Real(x)) /\ (Over(x)' <=> Over(x)))
      /\ (Eligible' <=> Eligible) /\ (Live' <=> Live)
  BY DEF Real, Over, Eligible, Live, SameRequest
<1>9. HandlesOK'
  <2>1. ASSUME NEW x \in Reqs, req'[x].published # None
        PROVE  Real(req[x].published)' /\ handle'[req'[x].published].turn = req'[x].turn
    <3>1. req'[x].published = req[x].published /\ req'[x].turn = req[x].turn
      BY DEF SameRequest
    <3>2. PICK p : p = req[x].published
      OBVIOUS
    <3>3. Real(p) /\ handle[p].turn = req[x].turn /\ p \in Reqs
      BY <1>1, <2>1, <3>1, <3>2 DEF HandlesOK, Real
    <3>4. Real(p)' /\ handle'[p].turn = req'[x].turn
      BY <1>8, <3>1, <3>3
    <3>. QED
      BY <3>1, <3>2, <3>4 DEF Real
  <2>2. \A x \in Reqs : handle'[x].terminal \/ handle'[x].retired => Real(x)'
    BY <1>8
  <2>3. \A x \in {pending', current'} \ {None} : Real(x)' /\ (Eligible => ~handle'[x].retired)
    BY <1>3, <1>8
  <2>4. Live => \A x \in Reqs : handle'[x].terminal => Over(x)'
    BY <1>8
  <2>5. \A n \in replies' : n.op = "observe" => Real(n.id)' /\ Over(n.id)'
    BY <1>1, <1>8 DEF HandlesOK, Real
  <2>6. \A x \in Reqs : (req'[x].stage = "idle" => ~req'[x].asked)
                        /\ (~req'[x].asked => req'[x].published = None)
    BY <1>1 DEF HandlesOK, SameRequest
  <2>. HIDE DEF Real, Over, Eligible, Live
  <2>. QED
    BY <1>8, <2>1, <2>2, <2>3, <2>4, <2>5, <2>6 DEF HandlesOK
<1>10. BeginsOK'
  BY <1>4 DEF BeginsOK
<1>11. SpeakingOK'
  BY <1>8 DEF SpeakingOK
<1>12. CheckingOK'
  BY DEF CheckingOK, Loop
<1>. QED
  BY <1>5, <1>6, <1>7, <1>9, <1>10, <1>11, <1>12 DEF SInv

LEMMA BeginResultKeeps ==
    ASSUME IInv, SInv, NEW m \in replies, BeginResult(m)
    PROVE  SInv'
<1>1. PICK r : r = m.id
  OBVIOUS
<1>2. PICK h : h = req[r].published
  OBVIOUS
<1>3. BeginsOK /\ HandlesOK /\ SpeakingOK /\ CallOK /\ None \notin Reqs
      /\ urgent \in Seq(Commands) /\ handle \in [Reqs -> HandleRecords]
  BY TxAssumption DEF SInv, Shapes, Reqs, HandleRecords
<1>4. /\ Loop /\ m.op = "begin" /\ replies' = replies \ {m} /\ pending' = None
      /\ UNCHANGED <<call, worker, rust, apps, checking>>
  BY DEF BeginResult
<1>5. /\ r \in Reqs /\ h = pending /\ h \in Reqs /\ Real(h) /\ handle[h].turn = req[r].turn
      /\ m.state \in {"speaking", "over", "error", "lost"}
      /\ m.state = "lost" => worker # "up"
      /\ m.state \in {"speaking", "over"} => handle[h].turn = rust.turn
      /\ m.state = "over" => ~rust.speaking
      /\ Eligible => ~handle[h].retired
  BY <1>1, <1>2, <1>3, <1>4 DEF BeginsOK, HandlesOK, Begun, Real
<1>6. /\ \A x \in Reqs : handle[x].terminal \/ handle[x].retired => Real(x)
      /\ \A x \in Reqs : Live /\ handle[x].terminal => Over(x)
      /\ current # None => Real(current) /\ current \in Reqs
      /\ Eligible /\ current # None => ~handle[current].retired
  BY <1>3 DEF HandlesOK, Real
<1>7. ASSUME rust.speaking, Eligible
      PROVE  \/ current # None /\ handle[current].turn = rust.turn /\ ~handle[current].terminal
             \/ m.state = "speaking"
  BY <1>3, <1>4, <1>7 DEF SpeakingOK, Spoken, BeginsOK
<1>8. /\ DOMAIN req = Reqs /\ \A x \in Reqs : DOMAIN req[x] = Words
      /\ AllAgree(req) /\ \A x \in Reqs : SameRequest(req[x], req[x])
  BY DEF IInv, AllAgree, Agreed, SameRequest
<1>9. \A result, x : x \in Reqs => SameRequest(Deliver(req, r, result)[x], req[x])
  BY <1>5, <1>8, DeliverSame
<1>10. Padded(urgent, urgent, {"interrupt"}) /\ Len(urgent) <= UrgentCap
  BY <1>3 DEF Padded, SInv, Shapes
<1>. DEFINE Taken ==
       /\ Padded(urgent, urgent', {"interrupt"}) /\ (worker # "up" => urgent' = urgent)
       /\ Len(urgent') <= UrgentCap
       /\ \A x \in Reqs : SameRequest(req'[x], req[x])
       /\ handle' \in [Reqs -> HandleRecords]
       /\ \A x \in Reqs : /\ handle'[x].turn = handle[x].turn
                          /\ handle'[x].terminal \/ handle'[x].retired => Real(x)
                          /\ Live /\ handle'[x].terminal => Over(x)
       /\ current' = current \/ current' = h
       /\ Eligible /\ current' # None => ~handle'[current'].retired
       /\ rust.speaking /\ Eligible =>
              current' # None /\ handle'[current'].turn = rust.turn /\ ~handle'[current'].terminal
<1>11. ASSUME NEW over \in BOOLEAN
       PROVE  /\ Commit(h, over) \in [Reqs -> HandleRecords]
              /\ \A x \in Reqs :
                     /\ Commit(h, over)[x].turn = handle[x].turn
                     /\ x = h => /\ Commit(h, over)[x].terminal = over
                                 /\ Commit(h, over)[x].retired = handle[h].retired
                     /\ x # h => Commit(h, over)[x].terminal = handle[x].terminal
                     /\ x # h /\ x # current => Commit(h, over)[x].retired = handle[x].retired
  BY <1>3, <1>5 DEF Commit, HandleRecords
<1>12. /\ RetireHandle(h) \in [Reqs -> HandleRecords]
       /\ \A x \in Reqs : /\ RetireHandle(h)[x].turn = handle[x].turn
                          /\ RetireHandle(h)[x].terminal = handle[x].terminal
                          /\ x # h => RetireHandle(h)[x] = handle[x]
  BY <1>3, <1>5 DEF RetireHandle, HandleRecords
<1>. DEFINE Alive == ~handle[h].retired /\ ~call.ended /\ call.allocated
            Refused == m.state = "error" \/ (m.state = "lost" /\ ~Alive)
            TooLate == m.state \in {"speaking", "over"} /\ (~Eligible \/ handle[h].retired)
<1>13. ASSUME m.state = "lost" /\ Alive PROVE Taken
  <2>1. /\ handle' = Commit(h, FALSE) /\ current' = h /\ req' = Deliver(req, r, "handle")
        /\ urgent' = urgent
    BY <1>1, <1>2, <1>13 DEF BeginResult
  <2>2. ~Eligible
    BY <1>5, <1>13 DEF Eligible
  <2>3. \A x \in Reqs : handle'[x].terminal \/ handle'[x].retired => Real(x)
    <3>1. ASSUME NEW x \in Reqs, handle'[x].terminal \/ handle'[x].retired, x # h, x # current
          PROVE  handle[x].terminal \/ handle[x].retired
      BY <1>11, <2>1, <3>1
    <3>2. current \in Reqs => Real(current)
      BY <1>3, <1>6
    <3>. QED
      BY <1>5, <1>6, <3>1, <3>2
  <2>4. \A x \in Reqs : Live /\ handle'[x].terminal => Over(x)
    BY <1>5, <1>6, <1>11, <2>1
  <2>. QED
    BY <1>9, <1>10, <1>11, <2>1, <2>2, <2>3, <2>4
<1>14. ASSUME Refused PROVE Taken
  <2>1. /\ handle' = IF current = h THEN handle ELSE RetireHandle(h)
        /\ current' = current /\ urgent' = urgent /\ req' = Deliver(req, r, "refused")
    BY <1>1, <1>2, <1>14 DEF BeginResult
  <2>2. /\ handle' \in [Reqs -> HandleRecords]
        /\ \A x \in Reqs : /\ handle'[x].turn = handle[x].turn
                           /\ handle'[x].terminal = handle[x].terminal
                           /\ x # h \/ x = current => handle'[x] = handle[x]
    BY <1>3, <1>12, <2>1
  <2>3. \A x \in Reqs : handle'[x].terminal \/ handle'[x].retired => Real(x)
    BY <1>5, <1>6, <2>2
  <2>4. Eligible /\ rust.speaking =>
            current # None /\ handle[current].turn = rust.turn /\ ~handle[current].terminal
    BY <1>5, <1>7, <1>14 DEF Eligible
  <2>. QED
    BY <1>6, <1>9, <1>10, <2>1, <2>2, <2>3, <2>4
<1>15. ASSUME TooLate PROVE Taken
  <2>1. /\ handle' = RetireHandle(h) /\ current' = current /\ urgent' = urgent
        /\ req' = Deliver(req, r, "refused")
    BY <1>1, <1>2, <1>15 DEF BeginResult
  <2>2. ~Eligible
    BY <1>5, <1>15
  <2>3. \A x \in Reqs : handle'[x].terminal \/ handle'[x].retired => Real(x)
    BY <1>5, <1>6, <1>12, <2>1
  <2>. QED
    BY <1>6, <1>9, <1>10, <1>12, <2>1, <2>2, <2>3
<1>16. ASSUME ~(m.state = "lost" /\ Alive) /\ ~Refused /\ ~TooLate PROVE Taken
  <2>0. PICK over : over = (handle[h].terminal \/ m.state = "over")
    OBVIOUS
  <2>. DEFINE c == [op |-> "interrupt", id |-> h]
  <2>1. /\ handle' = Commit(h, over) /\ current' = h
        /\ req' = req \/ req' = Deliver(req, r, "handle")
        /\ urgent' = urgent \/ (urgent' = Append(urgent, c) /\ CanSubmit(apps))
    BY <1>1, <1>2, <1>16, <2>0 DEF BeginResult
  <2>2. m.state \in {"speaking", "over"} /\ Eligible /\ ~handle[h].retired
        /\ handle[h].turn = rust.turn /\ Live
    BY <1>5, <1>16 DEF Eligible, Live
  <2>3. handle[h].terminal => Over(h)
    BY <1>5, <1>6, <2>2
  <2>4. over \in BOOLEAN /\ (over => Over(h) /\ ~rust.speaking)
    <3>1. rust.turn \in Nat
      BY DEF SInv, Shapes
    <3>2. handle[h].terminal \in BOOLEAN
      BY <1>3, <1>5 DEF HandleRecords
    <3>. QED
      BY <1>5, <2>0, <2>2, <2>3, <3>1, <3>2 DEF Over
  <2>5. c \in Commands /\ c.op \in {"interrupt"}
    BY <1>5 DEF Commands, Reqs
  <2>. HIDE DEF c
  <2>6. /\ Padded(urgent, urgent', {"interrupt"}) /\ (worker # "up" => urgent' = urgent)
        /\ Len(urgent') <= UrgentCap
    BY <1>3, <1>10, <2>1, <2>5, AppendPadded, OneMoreFits
  <2>7. \A x \in Reqs : handle'[x].terminal \/ handle'[x].retired => Real(x)
    <3>1. ASSUME NEW x \in Reqs, handle'[x].terminal \/ handle'[x].retired, x # h, x # current
          PROVE  handle[x].terminal \/ handle[x].retired
      BY <1>11, <2>1, <2>4, <3>1
    <3>2. current \in Reqs => Real(current)
      BY <1>3, <1>6
    <3>. QED
      BY <1>5, <1>6, <3>1, <3>2
  <2>8. \A x \in Reqs : Live /\ handle'[x].terminal => Over(x)
    BY <1>5, <1>6, <1>11, <2>1, <2>4
  <2>9. handle'[h].turn = rust.turn /\ (handle'[h].terminal => ~rust.speaking)
        /\ ~handle'[h].retired /\ handle'[h].terminal \in BOOLEAN
    BY <1>5, <1>11, <2>1, <2>2, <2>4
  <2>10. \A x \in Reqs : SameRequest(req'[x], req[x])
    BY <1>8, <1>9, <2>1
  <2>11. handle' \in [Reqs -> HandleRecords] /\ \A x \in Reqs : handle'[x].turn = handle[x].turn
    BY <1>11, <2>1, <2>4
  <2>12. /\ current' = h /\ ~handle'[current'].retired
         /\ handle'[current'].turn = rust.turn /\ (rust.speaking => ~handle'[current'].terminal)
    BY <2>1, <2>9
  <2>13. current' # None
    BY <1>3, <1>5, <2>1
  <2>. QED
    BY <2>6, <2>7, <2>8, <2>10, <2>11, <2>12, <2>13
<1>. HIDE DEF Taken, Alive, Refused, TooLate
<1>17. Taken
  BY <1>13, <1>14, <1>15, <1>16
<1>. QED
  BY <1>1, <1>2, <1>4, <1>17, BeginTaken DEF Taken
-----------------------------------------------------------------------------
(* The process.                                                            *)

(* A turn or a prompt ends by itself.                                      *)
LEMMA TurnOverKeeps ==
    ASSUME SInv, TurnOver \/ PromptOver
    PROVE  SInv'
<1>1. /\ UNCHANGED <<call, worker, urgent, replies, apps, req, handle, pending, current, checking>>
      /\ worker = "up"
  BY DEF TurnOver, PromptOver, pcmVars
<1>2. /\ rust' \in [open : BOOLEAN, turn : Nat, speaking : BOOLEAN, play : Nat,
                    state : {"running"} \cup Final]
      /\ rust'.open = rust.open /\ rust'.turn = rust.turn /\ rust'.play = rust.play
      /\ rust'.speaking => rust.speaking
      /\ rust'.state = "running" => rust.state = "running"
  <2>1. rust \in [open : BOOLEAN, turn : Nat, speaking : BOOLEAN, play : Nat,
                  state : {"running"} \cup Final]
    BY DEF SInv, Shapes
  <2>2. CASE TurnOver
    BY <2>1, <2>2 DEF TurnOver
  <2>3. CASE PromptOver
    BY <2>1, <2>3 DEF PromptOver, Final
  <2>. QED
    BY <2>2, <2>3
<1>3. Shapes'
  BY <1>1, <1>2 DEF SInv, Shapes
<1>4. Prompts'
  <2>1. SoundOK(apps, urgent, replies)'
    BY <1>1, <1>2 DEF SInv, Prompts, SoundOK, Unfinished
  <2>. QED
    BY <1>1, <1>2, <2>1 DEF SInv, Prompts, ActiveOK, AwaitedOK, Awaited, Once, Placed, Queued, Active
<1>5. CallOK'
  BY <1>1, <1>2 DEF SInv, CallOK
<1>6. (\A x : Real(x)' <=> Real(x)) /\ (\A x : Begun(x)' <=> Begun(x))
      /\ (\A x \in Reqs : Over(x) => Over(x)') /\ (Eligible' <=> Eligible) /\ (Live' <=> Live)
  BY <1>1, <1>2 DEF Real, Over, Eligible, Live, Begun
<1>7. HandlesOK'
  <2>1. HandlesOK /\ \A m \in replies : m.op = "observe" => m.id \in Reqs
    BY DEF SInv, HandlesOK, Real
  <2>. HIDE DEF Real, Over, Eligible, Live
  <2>. QED
    BY <1>1, <1>6, <2>1 DEF HandlesOK
<1>8. BeginsOK'
  <2>1. BeginsOK
    BY DEF SInv
  <2>. HIDE DEF Begun
  <2>. QED
    BY <1>1, <1>2, <1>6, <2>1 DEF BeginsOK
<1>9. SpeakingOK'
  <2>1. \A m \in replies : Spoken(m) => m \in replies'
    BY <1>1
  <2>. QED
    BY <1>1, <1>2, <1>6, <2>1, SpeakingKept DEF SInv
<1>10. CheckingOK'
  BY <1>1 DEF SInv, CheckingOK, LegacyTXBusy, Busy
<1>. QED
  BY <1>3, <1>4, <1>5, <1>7, <1>8, <1>9, <1>10 DEF SInv

LEMMA WorkerEndsKeeps ==
    ASSUME SInv, WorkerEnds
    PROVE  SInv'
<1>. DEFINE reply(i) == Reply(urgent[i].op, urgent[i].id,
                              IF urgent[i].op = "begin" THEN "lost" ELSE "error")
<1>1. /\ UNCHANGED <<call, apps, req, handle, pending, current, checking>>
      /\ worker' = "ended" /\ urgent' = <<>>
      /\ rust' = [rust EXCEPT !.open = FALSE, !.speaking = FALSE, !.state = "stopped"]
  BY DEF WorkerEnds, pcmVars
<1>2. \A m \in replies' :
          \/ m \in replies
          \/ \E i \in 1..Len(urgent) : m = reply(i) /\ urgent[i].op # "interrupt"
  BY DEF WorkerEnds
<1>3. \A i : /\ reply(i).op = urgent[i].op /\ reply(i).id = urgent[i].id
             /\ reply(i).state = IF urgent[i].op = "begin" THEN "lost" ELSE "error"
  BY DEF Reply
<1>. HIDE DEF reply
<1>4. /\ rust' \in [open : BOOLEAN, turn : Nat, speaking : BOOLEAN, play : Nat,
                    state : {"running"} \cup Final]
      /\ ~rust'.open /\ rust'.turn = rust.turn /\ ~rust'.speaking /\ rust'.state # "running"
  BY <1>1 DEF SInv, Shapes, Final
<1>5. Shapes'
  <2>1. <<>> \in Seq(Commands) /\ Len(<<>>) <= UrgentCap
    BY TxAssumption
  <2>. QED
    BY <1>1, <1>4, <2>1 DEF SInv, Shapes
<1>6. Prompts'
  <2>1. AwaitedOK(apps, urgent, replies) /\ SoundOK(apps, urgent, replies)
    BY DEF SInv, Prompts
  <2>2. AwaitedOK(apps, <<>>, replies')
    BY <1>2, <1>3, <2>1 DEF AwaitedOK
  <2>3. SoundOK(apps, urgent, replies)'
    BY <1>1, <1>2, <1>3, <1>4, <2>1 DEF SoundOK, PromptOps
  <2>. QED
    BY <1>1, <1>4, <2>2, <2>3 DEF SInv, Prompts, ActiveOK, AwaitedOK, Awaited, Once, Placed, Queued, Active
<1>7. CallOK'
  BY <1>1, <1>2, <1>3, <1>4 DEF SInv, CallOK
<1>8. (\A x : Real(x)' <=> Real(x)) /\ (\A x : Begun(x)' <=> Begun(x))
      /\ (\A x \in Reqs : Over(x) => Over(x)') /\ ~Eligible' /\ (Live' <=> Live)
  BY <1>1, <1>4 DEF Real, Over, Eligible, Live, Begun
<1>9. HandlesOK'
  <2>1. HandlesOK /\ \A m \in replies : m.op = "observe" => m.id \in Reqs
    BY DEF SInv, HandlesOK, Real
  <2>2. \A m \in replies' : m.op = "observe" => m \in replies
    <3>1. \A i \in 1..Len(urgent) : urgent[i].op # "observe"
      <4>1. \A i \in 1..Len(urgent) : urgent[i] \in Commands
        BY DEF SInv, Shapes
      <4>. QED
        BY <4>1 DEF Commands, PromptOps
    <3>. QED
      BY <1>2, <1>3, <3>1
  <2>. HIDE DEF Real, Over, Eligible, Live
  <2>. QED
    BY <1>1, <1>8, <2>1, <2>2 DEF HandlesOK
<1>10. BeginsOK'
  <2>1. BeginsOK
    BY DEF SInv
  <2>2. ASSUME NEW m \in replies', m.op = "begin"
        PROVE  /\ Begun(m.id) /\ m.state \in {"speaking", "over", "error", "lost"}
               /\ m.state \in {"speaking", "over"} => req[m.id].turn = rust.turn
    BY <1>2, <1>3, <2>1, <2>2 DEF BeginsOK
  <2>3. \A m, n \in replies' : m.op = "begin" /\ n.op = "begin" => m = n
    BY <1>2, <1>3, <2>1 DEF BeginsOK
  <2>. HIDE DEF Begun
  <2>. QED
    BY <1>1, <1>4, <1>8, <2>2, <2>3 DEF BeginsOK
<1>11. SpeakingOK'
  BY <1>4 DEF SpeakingOK
<1>12. CheckingOK'
  BY <1>1 DEF SInv, CheckingOK, LegacyTXBusy, Busy
<1>. QED
  BY <1>5, <1>6, <1>7, <1>9, <1>10, <1>11, <1>12 DEF SInv

Sessions == [open : BOOLEAN, turn : Nat, speaking : BOOLEAN, play : Nat, state : {"running"} \cup Final]

(* A command changes the turn only if it begins one, and the prompt that   *)
(* sounds only if it starts one.                                           *)
SameTurnOrBegun(c, N) ==
    \/ rust'.turn = rust.turn /\ (rust'.speaking => rust.speaking)
    \/ /\ c.op = "begin" /\ rust'.turn = req[c.id].turn /\ rust.turn < rust'.turn
       /\ \E n \in N : n.op = "begin" /\ n.id = c.id /\ n.state = "speaking"
SamePromptOrStarted(c) ==
    rust'.state = "running" =>
        \/ rust.state = "running" /\ rust'.play = rust.play
        \/ c.op = "start" /\ rust'.play = c.id
TrueAnswer(c, n) ==
    \/ /\ n.op = c.op /\ n.id = c.id
       /\ c.op \in PromptOps => n.state \in Final \cup {"running", "error"}
                                /\ (n.state \in Final => rust'.state # "running")
       /\ c.op = "begin" => /\ n.state \in {"speaking", "over", "error"}
                            /\ n.state \in {"speaking", "over"} => req[c.id].turn = rust'.turn
                            /\ n.state = "over" => ~rust'.speaking
       /\ c.op = "release" => ~rust'.open
       /\ c.op # "interrupt"
    \/ n.op = "observe" /\ Real(n.id) /\ Over(n.id)'

LEMMA CommandStep ==
    ASSUME SInv, worker = "up", urgent # <<>>, urgent' = Tail(urgent),
           UNCHANGED <<call, worker, apps, req, handle, pending, current, checking>>,
           NEW c, c = urgent[1], NEW N, replies' = replies \cup N,
           \A m, n \in N : m = n, \A n \in N : TrueAnswer(c, n),
           rust' \in Sessions, rust'.open => rust.open,
           ~rust'.open => ~rust'.speaking /\ rust'.state # "running",
           SameTurnOrBegun(c, N), SamePromptOrStarted(c)
    PROVE  SInv'
<1>1. /\ urgent \in Seq(Commands) /\ 1 \in 1..Len(urgent) /\ urgent' \in Seq(Commands)
      /\ \A i \in 1..Len(urgent') : i + 1 \in 1..Len(urgent) /\ urgent'[i] = urgent[i + 1] /\ i + 1 # 1
      /\ \A i, k \in 1..Len(urgent') : i + 1 = k + 1 => i = k
  BY DEF SInv, Shapes
<1>2. BeginsOK /\ HandlesOK /\ CallOK /\ SpeakingOK /\ CheckingOK
      /\ AwaitedOK(apps, urgent, replies) /\ SoundOK(apps, urgent, replies)
      /\ apps \in Applied
  BY DEF SInv, Prompts
<1>3. \A m \in replies' : m \in replies \/ (m \in N /\ TrueAnswer(c, m))
  OBVIOUS
<1>4. Shapes'
  <2>1. Len(urgent') <= UrgentCap
    <3>1. Len(urgent') = Len(urgent) - 1 /\ Len(urgent) \in Nat /\ Len(urgent) <= UrgentCap
      BY DEF SInv, Shapes
    <3>. QED
      BY <3>1, TxAssumption
  <2>. QED
    BY <1>1, <2>1 DEF SInv, Shapes, Sessions
<1>5. AwaitedOK(apps, urgent', replies')
  <2>1. \A m \in replies' : m.op \in PromptOps =>
            m \in replies \/ (m \in N /\ c.op \in PromptOps /\ m.id = c.id)
    BY <1>3 DEF TrueAnswer, PromptOps
  <2>2. \A i \in 1..Len(urgent') : urgent'[i].op \in PromptOps => Awaited(apps, urgent'[i].id)
    BY <1>1, <1>2 DEF AwaitedOK
  <2>3. \A m \in replies' : m.op \in PromptOps => Awaited(apps, m.id)
    BY <1>1, <1>2, <2>1 DEF AwaitedOK
  <2>4. \A i, k \in 1..Len(urgent') :
            urgent'[i].op \in PromptOps /\ urgent'[k].op \in PromptOps => i = k
    BY <1>1, <1>2 DEF AwaitedOK
  <2>5. \A m, n \in replies' : m.op \in PromptOps /\ n.op \in PromptOps => m = n
    BY <1>1, <1>2, <2>1 DEF AwaitedOK
  <2>6. \A i \in 1..Len(urgent') : \A m \in replies' :
            ~(urgent'[i].op \in PromptOps /\ m.op \in PromptOps)
    BY <1>1, <1>2, <2>1 DEF AwaitedOK
  <2>. QED
    BY <2>2, <2>3, <2>4, <2>5, <2>6 DEF AwaitedOK
<1>6. c.op = "start" =>
        /\ Unfinished(apps) /\ apps.active.id = c.id /\ c.id # 0 /\ apps.active # None
        /\ \A i \in 1..Len(urgent') : urgent'[i].op \notin PromptOps /\ urgent'[i].op # "begin"
        /\ \A m \in replies : m.op \notin PromptOps
  BY <1>1, <1>2 DEF SoundOK, AwaitedOK, Awaited, PromptOps
<1>7. SoundOK(apps, urgent, replies)'
  <2>1. rust'.state = "running" =>
            Unfinished(apps) /\ rust'.play # 0 /\ (apps.active # None => apps.active.id = rust'.play)
    BY <1>2, <1>6 DEF SoundOK, SamePromptOrStarted
  <2>2. \A i \in 1..Len(urgent') : urgent'[i].op = "start" =>
            /\ rust'.state # "running" /\ ~rust'.speaking /\ Unfinished(apps)
            /\ \A k \in 1..Len(urgent') : urgent'[k].op # "begin"
    BY <1>1, <1>2, <1>6 DEF SoundOK, SamePromptOrStarted, SameTurnOrBegun, PromptOps
  <2>3. \A i \in 1..Len(urgent') : urgent'[i].op = "begin" => rust'.state # "running" /\ pending # None
    BY <1>1, <1>2, <1>6 DEF SoundOK, SamePromptOrStarted
  <2>4. \A m \in replies' : m.op \in PromptOps =>
            /\ m.state \in Final \cup {"running", "error"}
            /\ m.state \in Final => rust'.state # "running"
    <3>1. ASSUME NEW m \in replies, m.op \in PromptOps
          PROVE  /\ m.state \in Final \cup {"running", "error"}
                 /\ m.state \in Final => rust'.state # "running"
      BY <1>2, <1>6, <3>1 DEF SoundOK, SamePromptOrStarted
    <3>2. ASSUME NEW m \in N, m.op \in PromptOps, TrueAnswer(c, m)
          PROVE  /\ m.state \in Final \cup {"running", "error"}
                 /\ m.state \in Final => rust'.state # "running"
      BY <3>2 DEF TrueAnswer, PromptOps
    <3>. QED
      BY <1>3, <3>1, <3>2
  <2>5. Unfinished(apps)' <=> Unfinished(apps)
    BY DEF Unfinished
  <2>. HIDE DEF Unfinished
  <2>. QED
    BY <2>1, <2>2, <2>3, <2>4, <2>5 DEF SoundOK
<1>8. Prompts'
  BY <1>5, <1>7 DEF SInv, Prompts, ActiveOK, AwaitedOK, Awaited, Once, Placed, Queued, Active
<1>9. CallOK'
  <2>1. \A m \in replies' : m.op = "release" => call.ended /\ ~rust'.open
    BY <1>1, <1>2, <1>3 DEF CallOK, TrueAnswer
  <2>. QED
    BY <1>1, <1>2, <2>1 DEF CallOK
<1>10. /\ \A x : (Real(x)' <=> Real(x)) /\ (Begun(x)' <=> Begun(x))
       /\ (Eligible' <=> Eligible) /\ (Live' <=> Live)
  BY DEF Real, Eligible, Live, Begun
<1>11. \A x \in Reqs : Over(x) => Over(x)'
  <2>1. rust.turn \in Nat /\ rust'.turn \in Nat /\ \A x \in Reqs : handle[x].turn \in Nat
    BY DEF SInv, Shapes, Sessions
  <2>. QED
    BY <2>1 DEF Over, SameTurnOrBegun
<1>12. HandlesOK'
  <2>1. \A m \in replies : m.op = "observe" => m.id \in Reqs
    BY <1>2 DEF HandlesOK, Real
  <2>2. \A i \in 1..Len(urgent) : urgent[i].op # "observe"
    <3>1. \A i \in 1..Len(urgent) : urgent[i] \in Commands
      BY <1>1
    <3>. QED
      BY <3>1 DEF Commands, PromptOps
  <2>3. \A m \in replies' : m.op = "observe" => Real(m.id) /\ Over(m.id)'
    BY <1>1, <1>2, <1>3, <1>11, <2>1, <2>2 DEF HandlesOK, TrueAnswer
  <2>. HIDE DEF Real, Over, Eligible, Live
  <2>. QED
    BY <1>2, <1>10, <1>11, <2>3 DEF HandlesOK
<1>13. BeginsOK'
  <2>1. \A m \in replies' : m.op = "begin" => m \in replies \/ (m \in N /\ c.op = "begin" /\ m.id = c.id)
    BY <1>3 DEF TrueAnswer
  <2>2. c.op = "begin" => \A m \in replies : m.op # "begin"
    BY <1>1, <1>2 DEF BeginsOK
  <2>3. \A i \in 1..Len(urgent') : urgent'[i].op = "begin" => Begun(urgent'[i].id)
    BY <1>1, <1>2 DEF BeginsOK
  <2>4. ASSUME NEW m \in replies', m.op = "begin"
        PROVE  /\ Begun(m.id) /\ m.state \in {"speaking", "over", "error", "lost"}
               /\ m.state = "lost" => worker' # "up"
               /\ m.state \in {"speaking", "over"} => req[m.id].turn = rust'.turn
               /\ m.state = "over" => ~rust'.speaking
    <3>1. CASE m \in replies
      BY <1>2, <2>2, <2>4, <3>1 DEF BeginsOK, SameTurnOrBegun
    <3>2. CASE m \in N /\ c.op = "begin" /\ m.id = c.id
      <4>1. TrueAnswer(c, m) /\ Begun(c.id)
        BY <1>1, <1>2, <3>2 DEF BeginsOK
      <4>. QED
        BY <2>4, <3>2, <4>1 DEF TrueAnswer
    <3>. QED
      BY <2>1, <2>4, <3>1, <3>2
  <2>5. \A i, k \in 1..Len(urgent') : urgent'[i].op = "begin" /\ urgent'[k].op = "begin" => i = k
    BY <1>1, <1>2 DEF BeginsOK
  <2>6. \A m, n \in replies' : m.op = "begin" /\ n.op = "begin" => m = n
    BY <1>2, <2>1, <2>2 DEF BeginsOK
  <2>7. \A i \in 1..Len(urgent') : \A m \in replies' : ~(urgent'[i].op = "begin" /\ m.op = "begin")
    BY <1>1, <1>2, <2>1 DEF BeginsOK
  <2>. HIDE DEF Begun
  <2>. QED
    BY <1>10, <2>3, <2>4, <2>5, <2>6, <2>7 DEF BeginsOK
<1>14. SpeakingOK'
  <2>1. CASE rust'.turn = rust.turn /\ (rust'.speaking => rust.speaking)
    BY <1>2, <1>10, <2>1, SpeakingKept
  <2>2. CASE /\ rust'.turn = req[c.id].turn
             /\ \E n \in N : n.op = "begin" /\ n.id = c.id /\ n.state = "speaking"
    <3>1. PICK n \in N : n.op = "begin" /\ n.id = c.id /\ n.state = "speaking"
      BY <2>2
    <3>2. Spoken(n)' /\ n \in replies'
      BY <2>2, <3>1 DEF Spoken
    <3>. QED
      BY <3>2 DEF SpeakingOK
  <2>. QED
    BY <2>1, <2>2 DEF SameTurnOrBegun
<1>15. CheckingOK'
  BY <1>2 DEF CheckingOK, LegacyTXBusy, Busy
<1>. QED
  BY <1>4, <1>8, <1>9, <1>12, <1>13, <1>14, <1>15 DEF SInv

LEMMA ExecuteKeeps ==
    ASSUME SInv, ExecuteCommand
    PROVE  SInv'
<1>1. PICK c : c = urgent[1]
  OBVIOUS
<1>2. /\ worker = "up" /\ urgent # <<>> /\ urgent' = Tail(urgent) /\ Head(urgent) = c
      /\ UNCHANGED <<call, worker, apps, req, handle, pending, current, checking>>
      /\ urgent \in Seq(Commands) /\ c \in Commands /\ 1 \in 1..Len(urgent)
  BY <1>1 DEF ExecuteCommand, pcmVars, SInv, Shapes
<1>3. PICK o \in Outcomes(c) : rust' = o[1] /\ replies' = replies \cup Answer(c, o[2])
  BY <1>2 DEF ExecuteCommand
<1>4. /\ rust \in Sessions
      /\ ~rust.open => ~rust.speaking /\ rust.state # "running"
      /\ HandlesOK /\ AwaitedOK(apps, urgent, replies) /\ SoundOK(apps, urgent, replies)
      /\ BeginsOK /\ None \notin Reqs
      /\ handle \in [Reqs -> HandleRecords] /\ \A r \in Reqs : req[r].turn \in Nat
  BY TxAssumption DEF SInv, Shapes, CallOK, Prompts, Sessions, Reqs, HandleRecords
<1>5. ASSUME NEW N, replies' = replies \cup N, \A m, n \in N : m = n, \A n \in N : TrueAnswer(c, n),
             rust' \in Sessions, rust'.open => rust.open,
             ~rust'.open => ~rust'.speaking /\ rust'.state # "running",
             SameTurnOrBegun(c, N), SamePromptOrStarted(c)
      PROVE  SInv'
  BY <1>1, <1>2, <1>5, CommandStep
<1>6. ASSUME NEW s, replies' = replies \cup {Reply(c.op, c.id, s)}, c.op # "interrupt",
             c.op \in PromptOps => s \in Final \cup {"running", "error"}
                                   /\ (s \in Final => rust'.state # "running"),
             c.op = "begin" => /\ s \in {"speaking", "over", "error"}
                               /\ s \in {"speaking", "over"} => req[c.id].turn = rust'.turn
                               /\ s = "over" => ~rust'.speaking,
             c.op = "release" => ~rust'.open,
             rust' \in Sessions, rust'.open => rust.open,
             ~rust'.open => ~rust'.speaking /\ rust'.state # "running",
             SamePromptOrStarted(c),
             \/ rust'.turn = rust.turn /\ (rust'.speaking => rust.speaking)
             \/ /\ c.op = "begin" /\ rust'.turn = req[c.id].turn /\ rust.turn < rust'.turn
                /\ s = "speaking"
      PROVE  SInv'
  <2>. DEFINE n == Reply(c.op, c.id, s)
  <2>1. n.op = c.op /\ n.id = c.id /\ n.state = s
    BY DEF Reply
  <2>. HIDE DEF n
  <2>2. TrueAnswer(c, n)
    BY <1>6, <2>1 DEF TrueAnswer
  <2>3. SameTurnOrBegun(c, {n})
    BY <1>6, <2>1 DEF SameTurnOrBegun
  <2>4. replies' = replies \cup {n}
    BY <1>6 DEF n
  <2>. QED
    BY <1>5, <1>6, <2>2, <2>3, <2>4
<1>7. c.op # "interrupt" => replies' = replies \cup {Reply(c.op, c.id, o[2])}
  BY <1>3 DEF Answer
<1>8. CASE ~rust.open
  <2>1. o = <<rust, "error">>
    BY <1>3, <1>8 DEF Outcomes
  <2>2. rust' = rust /\ o[2] = "error"
    BY <1>3, <2>1
  <2>3. SamePromptOrStarted(c)
    BY <2>2 DEF SamePromptOrStarted
  <2>4. CASE c.op # "interrupt"
    BY <1>4, <1>6, <1>7, <1>8, <2>2, <2>3, <2>4 DEF Final
  <2>5. CASE c.op = "interrupt"
    <3>1. PICK N : N = {}
      OBVIOUS
    <3>2. replies' = replies \cup N
      BY <1>3, <2>2, <2>5, <3>1 DEF Answer
    <3>. QED
      BY <1>4, <1>5, <1>8, <2>2, <2>3, <3>1, <3>2 DEF SameTurnOrBegun
  <2>. QED
    BY <2>4, <2>5
<1>9. CASE rust.open /\ c.op = "release"
  <2>1. o = <<[rust EXCEPT !.open = FALSE, !.speaking = FALSE, !.state = "stopped"], "ok">>
    BY <1>3, <1>9 DEF Outcomes
  <2>2. rust' = [rust EXCEPT !.open = FALSE, !.speaking = FALSE, !.state = "stopped"]
    BY <1>3, <2>1
  <2>3. /\ rust' \in Sessions /\ ~rust'.open /\ ~rust'.speaking /\ rust'.state # "running"
        /\ rust'.turn = rust.turn
    BY <1>4, <2>2 DEF Sessions, Final
  <2>. QED
    BY <1>6, <1>7, <1>9, <2>3 DEF SamePromptOrStarted, PromptOps
<1>10. CASE rust.open /\ c.op = "start"
  <2>1. ~rust.speaking /\ rust.state # "running" /\ c.id \in Nat
    BY <1>1, <1>2, <1>4, <1>10 DEF SoundOK, Commands
  <2>2. o = <<[rust EXCEPT !.play = c.id, !.state = "running"], "running">>
    BY <1>3, <1>10, <2>1 DEF Outcomes
  <2>3. rust' = [rust EXCEPT !.play = c.id, !.state = "running"] /\ o[2] = "running"
    BY <1>3, <2>2
  <2>4. /\ rust' \in Sessions /\ rust'.open /\ rust'.play = c.id /\ rust'.turn = rust.turn
        /\ rust'.speaking = rust.speaking
    BY <1>4, <1>10, <2>1, <2>3 DEF Sessions
  <2>5. SamePromptOrStarted(c)
    BY <1>10, <2>4 DEF SamePromptOrStarted
  <2>. QED
    BY <1>6, <1>7, <1>10, <2>3, <2>4, <2>5 DEF Final
<1>11. CASE rust.open /\ c.op = "status"
  <2>1. rust' = rust /\ o[2] \in {rust.state, "error"}
    BY <1>3, <1>11 DEF Outcomes
  <2>2. SamePromptOrStarted(c)
    BY <2>1 DEF SamePromptOrStarted
  <2>3. rust.state \in Final \cup {"running"} /\ "error" \notin Final
    BY <1>4 DEF Sessions, Final
  <2>. QED
    BY <1>4, <1>6, <1>7, <1>11, <2>1, <2>2, <2>3 DEF Final
<1>12. CASE rust.open /\ c.op = "stop"
  <2>. DEFINE x == IF rust.state = "running" THEN "stopped" ELSE rust.state
  <2>1. x \in Final
    BY <1>4 DEF Sessions, Final
  <2>2. o = <<rust, "error">> \/ o = <<[rust EXCEPT !.state = x], x>>
    BY <1>3, <1>12 DEF Outcomes
  <2>. HIDE DEF x
  <2>3. (rust' = rust /\ o[2] = "error") \/ (rust' = [rust EXCEPT !.state = x] /\ o[2] = x)
    BY <1>3, <2>2
  <2>4. /\ rust' \in Sessions /\ rust'.open /\ rust'.play = rust.play /\ rust'.turn = rust.turn
        /\ rust'.speaking = rust.speaking
        /\ rust' = rust \/ rust'.state = x
    BY <1>4, <1>12, <2>1, <2>3 DEF Sessions
  <2>5. "running" \notin Final /\ "error" \notin Final
    BY DEF Final
  <2>6. SamePromptOrStarted(c)
    BY <2>1, <2>4, <2>5 DEF SamePromptOrStarted
  <2>7. o[2] \in Final \cup {"error"} /\ (o[2] \in Final => rust'.state # "running")
    BY <1>4, <2>1, <2>3, <2>4, <2>5 DEF Sessions
  <2>. QED
    BY <1>6, <1>7, <1>12, <2>4, <2>6, <2>7
<1>13. CASE rust.open /\ c.op = "begin"
  <2>1. /\ c.id \in Reqs /\ rust.state # "running"
        /\ req[c.id].turn \in Nat /\ rust.turn \in Nat
    BY <1>1, <1>2, <1>4, <1>13 DEF BeginsOK, Begun, SoundOK, Sessions
  <2>2. \/ req[c.id].turn = rust.turn /\ rust' = rust /\ o[2] = TurnState(rust)
        \/ req[c.id].turn < rust.turn /\ rust' = rust /\ o[2] = "error"
        \/ /\ rust.turn < req[c.id].turn /\ o[2] = "speaking"
           /\ rust' = [rust EXCEPT !.turn = req[c.id].turn, !.speaking = TRUE]
    BY <1>3, <1>13, <2>1 DEF Outcomes
  <2>3. /\ rust' \in Sessions /\ rust'.open /\ rust'.state # "running"
        /\ \/ rust' = rust /\ o[2] = "error"
           \/ rust' = rust /\ o[2] = TurnState(rust) /\ req[c.id].turn = rust'.turn
           \/ rust'.turn = req[c.id].turn /\ o[2] = "speaking" /\ rust.turn < rust'.turn
    BY <1>4, <1>13, <2>1, <2>2 DEF Sessions
  <2>4. o[2] \in {"speaking", "over", "error"}
        /\ (o[2] \in {"speaking", "over"} => req[c.id].turn = rust'.turn)
        /\ (o[2] = "over" => ~rust'.speaking)
    BY <2>3 DEF TurnState
  <2>. QED
    BY <1>6, <1>7, <1>13, <2>3, <2>4 DEF SamePromptOrStarted, PromptOps
<1>14. CASE rust.open /\ c.op = "interrupt"
  <2>1. \/ rust' = rust /\ o[2] = "error"
        \/ /\ handle[c.id].turn = rust.turn /\ o[2] = TurnState(rust)'
           /\ rust' = rust \/ rust' = [rust EXCEPT !.speaking = FALSE]
    <3>1. CASE handle[c.id].turn # rust.turn
      BY <1>3, <1>14, <3>1 DEF Outcomes
    <3>2. CASE handle[c.id].turn = rust.turn
      <4>1. o \in {<<x, TurnState(x)>> : x \in {rust, [rust EXCEPT !.speaking = FALSE]}}
        BY <1>3, <1>14, <3>2 DEF Outcomes
      <4>2. PICK x \in {rust, [rust EXCEPT !.speaking = FALSE]} : o = <<x, TurnState(x)>>
        BY <4>1
      <4>3. rust' = x /\ o[2] = TurnState(x)
        BY <1>3, <4>2
      <4>4. TurnState(x) = TurnState(rust)'
        BY <4>3 DEF TurnState
      <4>. QED
        BY <3>2, <4>2, <4>3, <4>4
    <3>. QED
      BY <3>1, <3>2
  <2>2. /\ rust' \in Sessions /\ rust'.open /\ rust'.play = rust.play /\ rust'.turn = rust.turn
        /\ rust'.state = rust.state /\ (rust'.speaking => rust.speaking)
    BY <1>4, <1>14, <2>1 DEF Sessions
  <2>3. SamePromptOrStarted(c) /\ \A N : SameTurnOrBegun(c, N)
    BY <2>2 DEF SamePromptOrStarted, SameTurnOrBegun
  <2>4. CASE replies' = replies \cup {}
    <3>1. PICK N : N = {}
      OBVIOUS
    <3>2. replies' = replies \cup N
      BY <2>4, <3>1
    <3>. QED
      BY <1>5, <1>14, <2>2, <2>3, <3>1, <3>2
  <2>5. CASE ~(replies' = replies \cup {})
    <3>1. replies' = replies \cup {Reply("observe", c.id, o[2])} /\ o[2] = "over"
          /\ c.id \in {pending, current}
      BY <1>3, <1>14, <2>5 DEF Answer
    <3>2. ~rust'.speaking /\ handle[c.id].turn = rust'.turn
      BY <2>1, <2>2, <3>1 DEF TurnState
    <3>3. c.id # None
      BY <1>2, TxAssumption DEF Commands
    <3>4. Real(c.id) /\ Over(c.id)'
      BY <1>2, <1>4, <3>1, <3>2, <3>3 DEF HandlesOK, Over
    <3>5. PICK n : n = Reply("observe", c.id, o[2])
      OBVIOUS
    <3>6. TrueAnswer(c, n)
      BY <3>4, <3>5 DEF TrueAnswer, Reply
    <3>7. PICK N : N = {n}
      OBVIOUS
    <3>8. replies' = replies \cup N
      BY <3>1, <3>5, <3>7
    <3>9. (\A x, y \in N : x = y) /\ \A x \in N : TrueAnswer(c, x)
      BY <3>6, <3>7
    <3>. QED
      BY <1>5, <1>14, <2>2, <2>3, <3>8, <3>9
  <2>. QED
    BY <2>4, <2>5
<1>15. c.op \in {"start", "stop", "status", "begin", "interrupt", "release"}
  BY <1>2 DEF Commands, PromptOps
<1>. QED
  BY <1>8, <1>9, <1>10, <1>11, <1>12, <1>13, <1>14, <1>15
-----------------------------------------------------------------------------
(* The whole system.                                                       *)

(* The loop tells a caller of a handle only when the begin of that handle  *)
(* has come back.                                                          *)
LEMMA DeliveredKept ==
    ASSUME IInv, SInv, DeliveredOK, [Next]_vars
    PROVE  DeliveredOK'
<1>1. AllAgree(req) /\ DOMAIN req = Reqs /\ \A r \in Reqs : DOMAIN req[r] = Words
  BY DEF IInv, AllAgree, Agreed
<1>2. ASSUME UNCHANGED req PROVE DeliveredOK'
  BY <1>2 DEF DeliveredOK
<1>3. ASSUME NEW f, AllAgree(f), NEW r \in Reqs, NEW x,
             \A y \in Reqs : f[y].result # None /\ f[y].result = "handle" => f[y].published # None,
             x # "handle" \/ f[r].published # None
      PROVE  \A y \in Reqs :
                 /\ Deliver(f, r, x)[y].published = f[y].published
                 /\ Deliver(f, r, x)[y].result # None /\ Deliver(f, r, x)[y].result = "handle"
                       => f[y].published # None
  BY <1>3 DEF Deliver, AllAgree, Agreed, Words
<1>4. CASE CallerNext
  BY <1>1, <1>4 DEF CallerNext, Begin, CancelContext, Receive, GiveUp, Leave, Ask, DeliveredOK, Words
<1>5. ASSUME NEW r \in Reqs, RefuseBegin(r) PROVE DeliveredOK'
  <2>1. PICK d : d = Deliver(req, r, "refused")
    OBVIOUS
  <2>2. req' = [d EXCEPT ![r].asked = TRUE]
    BY <1>5, <2>1 DEF RefuseBegin
  <2>3. \A y \in Reqs : /\ d[y].published = req[y].published
                        /\ d[y].result # None /\ d[y].result = "handle" => req[y].published # None
    BY <1>1, <1>3, <2>1 DEF DeliveredOK
  <2>4. DOMAIN d = Reqs /\ \A y \in Reqs : DOMAIN d[y] = Words
    BY <1>1, <2>1, DeliverSame
  <2>. QED
    BY <2>2, <2>3, <2>4 DEF DeliveredOK, Words
<1>6. ASSUME NEW r \in Reqs, AdmitBegin(r) \/ PublishBegin(r) PROVE DeliveredOK'
  <2>1. CASE AdmitBegin(r)
    BY <1>1, <2>1 DEF AdmitBegin, DeliveredOK, Words
  <2>2. CASE PublishBegin(r)
    <3>. DEFINE h == IF SameTurn(req[r].turn) THEN current ELSE r
    <3>1. h # None /\ req' = [req EXCEPT ![r].published = h]
      BY <2>2, TxAssumption DEF PublishBegin, SameTurn, Reqs
    <3>. HIDE DEF h
    <3>. QED
      BY <1>1, <3>1 DEF DeliveredOK, Words
  <2>. QED
    BY <1>6, <2>1, <2>2
<1>7. ASSUME NEW r \in Reqs, SubmitBegin(r) PROVE DeliveredOK'
  <2>1. req' = [req EXCEPT ![r].sent = TRUE] \/ req' = Deliver(req, r, "refused")
    BY <1>7 DEF SubmitBegin
  <2>2. CASE req' = [req EXCEPT ![r].sent = TRUE]
    BY <1>1, <2>2 DEF DeliveredOK, Words
  <2>3. CASE req' = Deliver(req, r, "refused")
    BY <1>1, <1>3, <2>3 DEF DeliveredOK
  <2>. QED
    BY <2>1, <2>2, <2>3
<1>8. ASSUME NEW m \in replies, BeginResult(m) PROVE DeliveredOK'
  <2>1. m.id \in Reqs /\ req[m.id].published # None
    BY <1>8 DEF BeginResult, SInv, BeginsOK, Begun
  <2>2. req' = req \/ \E x : req' = Deliver(req, m.id, x)
    BY <1>8 DEF BeginResult
  <2>. QED
    BY <1>1, <1>3, <2>1, <2>2 DEF DeliveredOK
<1>9. ASSUME NEW m \in replies, Observe(m) PROVE DeliveredOK'
  BY <1>2, <1>9 DEF Observe
<1>10. CASE AppNext \/ CallNext \/ WorkerNext \/ UNCHANGED vars
  BY <1>2, <1>10, OthersKeepRequests
<1>. QED
  BY <1>4, <1>5, <1>6, <1>7, <1>8, <1>9, <1>10 DEF Next, PcmNext

LEMMA InitHolds ==
    ASSUME Init
    PROVE  IInv /\ SInv /\ DeliveredOK
<1>1. req = [r \in Reqs |-> NewRequest] /\ Agreed(NewRequest) /\ None \notin Reqs
  BY TxAssumption DEF Init, NewRequest, Agreed, Words, Reqs
<1>2. IInv /\ DeliveredOK
  BY <1>1 DEF IInv, AllAgree, DeliveredOK, NewRequest
<1>3. /\ call = [ended |-> FALSE, allocated |-> TRUE, releasing |-> FALSE]
      /\ worker = "up" /\ urgent = <<>> /\ replies = {}
      /\ rust = [open |-> TRUE, turn |-> 0, speaking |-> FALSE, play |-> 0, state |-> "completed"]
      /\ apps = [queue |-> <<>>, active |-> None, last |-> 0, submitted |-> <<>>,
                 accepted |-> {}, done |-> [j \in Jobs |-> 0]]
      /\ handle = [r \in Reqs |-> NoHandle]
      /\ pending = None /\ current = None /\ checking = None
  BY DEF Init
<1>4. Shapes
  <2>1. <<>> \in Seq(Commands) /\ Len(<<>>) <= UrgentCap
    BY TxAssumption
  <2>. QED
    BY <1>1, <1>3, <2>1 DEF Shapes, Final, NewRequest, NoHandle
<1>5. Prompts
  <2>1. <<>> \in Seq(Commands) /\ <<>> \in Seq(Entries) /\ Len(<<>>) = 0
    OBVIOUS
  <2>2. apps \in Applied /\ apps.submitted = <<>>
    BY <1>3, <2>1 DEF Applied
  <2>3. Once(apps)
    BY <1>3, <2>1 DEF Once, Placed, Queued, Active
  <2>. QED
    BY <1>3, <2>2, <2>3 DEF Prompts, ActiveOK, AwaitedOK, SoundOK
<1>6. CallOK /\ HandlesOK /\ BeginsOK /\ SpeakingOK /\ CheckingOK
  BY <1>1, <1>3 DEF CallOK, HandlesOK, BeginsOK, SpeakingOK, CheckingOK, NewRequest, NoHandle
<1>. QED
  BY <1>2, <1>4, <1>5, <1>6 DEF SInv

LEMMA SteadyKeeps ==
    ASSUME SInv, UNCHANGED vars
    PROVE  SInv'
<1>1. UNCHANGED <<call, worker, urgent, replies, rust, apps, req, handle, pending, current, checking>>
  BY DEF vars, pcmVars
<1>2. \A x \in Reqs : /\ req'[x].turn = req[x].turn /\ req'[x].published = req[x].published
                      /\ req'[x].stage = req[x].stage /\ req'[x].asked = req[x].asked
  BY <1>1
<1>3. checking' = None \/ (checking' \in Reqs /\ CheckingOK')
  BY <1>1 DEF SInv, Shapes, CheckingOK, LegacyTXBusy, Busy
<1>. QED
  BY <1>1, <1>2, <1>3, AnswerStep DEF loopVars

LEMMA StepKeeps ==
    ASSUME IInv, SInv, DeliveredOK, [Next]_vars
    PROVE  IInv' /\ SInv' /\ DeliveredOK'
<1>1. IInv'
  BY CallerAgrees, LoopAgrees, OthersAgree DEF Next, CallerNext, PcmNext
<1>2. SInv'
  <2>1. CASE AppNext
    BY <2>1, PromptsKeep, MediaResultKeeps DEF AppNext
  <2>2. CASE CallerNext
    BY <2>2, CallerKeeps
  <2>3. CASE PcmNext
    BY <2>3, RefuseKeeps, PublishKeeps, SubmitKeeps, BeginResultKeeps, ObserveKeeps DEF PcmNext
  <2>4. CASE CallNext
    BY <2>4, CallKeeps
  <2>5. CASE WorkerNext
    BY <2>5, ExecuteKeeps, TurnOverKeeps, WorkerEndsKeeps DEF WorkerNext
  <2>6. CASE UNCHANGED vars
    BY <2>6, SteadyKeeps
  <2>. QED
    BY <2>1, <2>2, <2>3, <2>4, <2>5, <2>6 DEF Next
<1>3. DeliveredOK'
  BY DeliveredKept
<1>. QED
  BY <1>1, <1>2, <1>3

LEMMA AlwaysOwned == Spec => [](IInv /\ SInv /\ DeliveredOK)
<1>1. Init => IInv /\ SInv /\ DeliveredOK
  BY InitHolds
<1>2. (IInv /\ SInv /\ DeliveredOK) /\ [Next]_vars => (IInv /\ SInv /\ DeliveredOK)'
  BY StepKeeps
<1>. QED
  BY <1>1, <1>2, PTL DEF Spec
-----------------------------------------------------------------------------
(* Every variable has its type, and the urgent queue never exceeds its     *)
(* capacity, although one step may submit several commands (pool.go).      *)
THEOREM TxTyped == Spec => []TypeOK
<1>1. SInv => TypeOK
  BY DEF SInv, Shapes, Prompts, Applied, TypeOK
<1>. QED
  BY <1>1, AlwaysOwned, PTL

(* Every application that was accepted is completed exactly once, for any  *)
(* applications, deadlines, breaks, keys and ends of the call or the       *)
(* worker (esl_applications.go).                                           *)
THEOREM JobsAreCompletedOnce == Spec => []JobsCompleteOnce
<1>1. SInv => JobsCompleteOnce
  <2>. SUFFICES ASSUME SInv, NEW j \in Jobs
                PROVE  Count(j) = IF j \in apps.accepted THEN 1 ELSE 0
    BY DEF JobsCompleteOnce
  <2>1. Placed(apps, j)
    BY DEF SInv, Prompts, Once
  <2>. QED
    BY <2>1 DEF Count, Placed, Active
<1>. QED
  BY <1>1, AlwaysOwned, PTL

(* A prompt that sounds or is about to start belongs to the application    *)
(* that is active: none is completed while it can still be heard           *)
(* (application_lifecycle.go, application_break.go).                       *)
THEOREM SoundIsOwned == Spec => []SoundHasOwner
<1>1. SInv => SoundHasOwner
  <2>. SUFFICES ASSUME SInv PROVE SoundHasOwner
    OBVIOUS
  <2>1. AwaitedOK(apps, urgent, replies) /\ SoundOK(apps, urgent, replies)
    BY DEF SInv, Prompts
  <2>2. rust.state = "running" => apps.active # None /\ apps.active.id = rust.play
    BY <2>1 DEF SoundOK, Unfinished
  <2>3. \A i \in 1..Len(urgent) : urgent[i].op = "start" =>
            apps.active # None /\ apps.active.id = urgent[i].id
    BY <2>1 DEF AwaitedOK, Awaited, PromptOps
  <2>. QED
    BY <2>2, <2>3 DEF SoundHasOwner
<1>. QED
  BY <1>1, AlwaysOwned, PTL

(* While the call lives, a turn that speaks is known to it by a handle     *)
(* that is not retired, and it keeps the prompts away (pcm_stream.go).     *)
THEOREM TurnIsOwned == Spec => []TurnHasOwner
<1>1. SInv => TurnHasOwner
  <2>. SUFFICES ASSUME SInv, rust.speaking, Eligible
                PROVE  /\ OwnsTX
                       /\ \E h \in {pending, current} \ {None} :
                              handle[h].turn = rust.turn /\ ~handle[h].retired
    BY DEF TurnHasOwner
  <2>1. HandlesOK /\ BeginsOK /\ SpeakingOK
    BY DEF SInv
  <2>2. CASE current # None /\ handle[current].turn = rust.turn /\ ~handle[current].terminal
    BY <2>1, <2>2 DEF HandlesOK, OwnsTX
  <2>3. CASE \E m \in replies : Spoken(m)
    <3>1. PICK m \in replies : Spoken(m)
      BY <2>3
    <3>2. pending # None /\ m.id \in Reqs /\ req[m.id].published = pending
      BY <2>1, <3>1 DEF BeginsOK, Begun, Spoken
    <3>3. handle[pending].turn = rust.turn
      BY <2>1, <3>1, <3>2 DEF HandlesOK, Spoken
    <3>. QED
      BY <2>1, <3>2, <3>3 DEF HandlesOK, OwnsTX
  <2>. QED
    BY <2>1, <2>2, <2>3 DEF SpeakingOK
<1>. QED
  BY <1>1, AlwaysOwned, PTL

(* The process never has to choose between a turn and a prompt: the loop   *)
(* does not let a start and a begin that would contend into the queue.     *)
THEOREM QueueIsNeverContested == Spec => []NeverContested
<1>1. SInv => NeverContested
  <2>. SUFFICES ASSUME SInv, urgent # <<>>
                PROVE  /\ Head(urgent).op = "start" => ~rust.speaking /\ rust.state # "running"
                       /\ Head(urgent).op = "begin" => rust.state # "running"
    BY DEF NeverContested
  <2>1. 1 \in 1..Len(urgent) /\ Head(urgent) = urgent[1]
    BY DEF SInv, Shapes
  <2>. QED
    BY <2>1 DEF SInv, Prompts, SoundOK
<1>. QED
  BY <1>1, AlwaysOwned, PTL
=============================================================================
