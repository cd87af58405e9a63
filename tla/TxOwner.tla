------------------------------- MODULE TxOwner -------------------------------
(***************************************************************************)
(* Who may speak on leg A of an answered local call: the PCM turns of the  *)
(* SDK (server/pcm_stream.go) or the prompts of the applications that ESL  *)
(* clients execute (server/esl_applications.go, application_break.go,      *)
(* application_lifecycle.go).                                              *)
(*                                                                         *)
(* The call loop decides, the worker executes the commands of its urgent   *)
(* queue in order, and the answers come back later through channels that   *)
(* the loop reads in any order.  The callers of BeginPCM are goroutines    *)
(* that may give up at any moment and share two atomic words with the      *)
(* loop.  An outcome is unknown only when the process ends (media/pool.go).*)
(***************************************************************************)
EXTENDS Integers, Sequences, FiniteSets, SequencesExt

CONSTANTS
    None,
    Jobs,      \* applications that clients execute ...
    Reads,     \* ... those of them that read digits after a prompt
    MaxReqs,   \* bound: calls of BeginPCM
    MaxTurn,   \* bound: turn ids they use
    MaxUses,   \* bound: calls of BeginPCM and applications together
    UrgentCap  \* capacity of the urgent queue

ASSUME TxAssumption ==
    /\ Reads \subseteq Jobs /\ UrgentCap \in Nat \ {0}
    /\ MaxReqs \in Nat /\ MaxTurn \in Nat /\ MaxUses \in Nat /\ None \notin Nat

\* The calls of BeginPCM, in the order in which they enter the channel of
\* requests; each also names the handle it may create.
Reqs == 1..MaxReqs

VARIABLES
    call,     \* Ended, Allocated, Releasing of the call
    worker,   \* its process: "up", "ended", or "reported" to the call loop
    urgent,   \* the commands of this call in the worker's urgent queue
    replies,  \* answers on their way back
    rust,     \* the session in the process: its turn and its playback
    apps,     \* the applications of the channel
    req,      \* the requests of BeginPCM
    handle,   \* the PCMHandles
    pending,  \* Call.pcmPending
    current,  \* Call.pcmHandle
    checking  \* handlePCMBegin between publishing a handle and submitting

pcmVars == <<req, handle, pending, current, checking>>
vars == <<call, worker, urgent, replies, rust, apps, pcmVars>>

\* "wait" stands for sleep and for a read without a prompt, "read" for a read
\* with one; applications that end at once are left out.  A file that is
\* loading counts as running.
Kinds(j) == IF j \in Reads THEN {"read"} ELSE {"wait", "play"}
Prompting == {"play", "read"}
Final == {"completed", "stopped", "failed"}

\* The application that runs; a wait has no playback, its id is 0.
Actives ==
    [job : Jobs, kind : {"wait", "play", "read"}, id : Nat, state : {"starting", "running"} \cup Final,
     inflight : BOOLEAN, stop : BOOLEAN, finish : BOOLEAN, due : BOOLEAN, digits : BOOLEAN,
     ended : BOOLEAN, freed : BOOLEAN]

ASSUME NoneIsNoApplication == None \notin Actives

NoHandle == [turn |-> 0, committed |-> FALSE, retired |-> FALSE, terminal |-> FALSE]
NewRequest == [turn |-> 0, stage |-> "idle", asked |-> FALSE, delivery |-> "waiting",
               published |-> None, sent |-> FALSE, result |-> None]

Init ==
    /\ call = [ended |-> FALSE, allocated |-> TRUE, releasing |-> FALSE]
    /\ worker = "up" /\ urgent = <<>> /\ replies = {}
    /\ rust = [open |-> TRUE, turn |-> 0, speaking |-> FALSE, play |-> 0, state |-> "completed"]
    /\ apps = [queue |-> <<>>, active |-> None, last |-> 0, submitted |-> <<>>,
               accepted |-> {}, done |-> [j \in Jobs |-> 0]]
    /\ req = [r \in Reqs |-> NewRequest] /\ handle = [r \in Reqs |-> NoHandle]
    /\ pending = None /\ current = None /\ checking = None

\* The loop does nothing else while it is inside handlePCMBegin.
Loop == checking = None

OwnsTX == pending # None \/ (current # None /\ ~handle[current].terminal)

-----------------------------------------------------------------------------
(* The applications of the channel, as handlers of the loop change them:   *)
(* a.submitted are the commands that one step adds to the urgent queue.    *)

Becomes(a) ==
    apps' = [a EXCEPT !.submitted = <<>>] /\ urgent' = urgent \o a.submitted

CanSubmit(a) == worker = "up" /\ Len(urgent) + Len(a.submitted) < UrgentCap

Complete(a) == [a EXCEPT !.done[a.active.job] = @ + 1, !.active = None]

(* submitApplicationMedia; a stop that cannot be submitted is retried.     *)
Submit(a, op) ==
    [a EXCEPT !.submitted = Append(@, [op |-> op, id |-> a.active.id]),
              !.active.inflight = TRUE, !.active.due = FALSE]
SubmitOrRetry(a, op) ==
    IF CanSubmit(a) THEN Submit(a, op) ELSE [a EXCEPT !.active.due = TRUE]

Started(e, id) ==
    [job |-> e.job, kind |-> e.kind, id |-> id, state |-> "starting", inflight |-> FALSE, stop |-> FALSE,
     finish |-> FALSE, due |-> FALSE, digits |-> FALSE, ended |-> FALSE, freed |-> FALSE]

StartPrompt(a, e) ==
    LET b == [a EXCEPT !.last = @ + 1, !.active = Started(e, a.last + 1)]
    IN IF CanSubmit(a) THEN Submit(b, "start") ELSE Complete(b)

(* One round of startNextApplication: the application e becomes active.    *)
Start(a, e) ==
    LET b == [a EXCEPT !.active = Started(e, 0)]
    IN IF e.kind = "wait" THEN b ELSE IF OwnsTX THEN Complete(b) ELSE StartPrompt(a, e)

(* startNextApplication passes over the prompts it cannot start.           *)
StartNext(a) ==
    LET round(b, e) == IF b.active # None THEN b
                       ELSE Start([b EXCEPT !.queue = Tail(@)], e)
    IN IF call.ended THEN a ELSE FoldLeft(round, a, a.queue)

(* A prompt that may still be heard, or whose answer is awaited.           *)
Busy(a) == a.active.id # 0 /\ (a.active.inflight \/ a.active.state \notin Final)

StopPrompt(a) ==
    LET b == [a EXCEPT !.active.stop = TRUE]
    IN IF a.active.inflight THEN b ELSE SubmitOrRetry(b, "stop")

(* Mutant: the application ends before its prompt is known to be silent.   *)
FinishAtOnce(a) == StartNext(Complete(a))

(* finishApplication: a prompt is stopped first, and waited for.           *)
FinishApplication(a) ==
    IF Busy(a)
    THEN StopPrompt([a EXCEPT !.active.finish = TRUE, !.active.digits = FALSE])
    ELSE StartNext(Complete(a))

(* finishReleasedApplication: the media is gone and no answer is awaited.  *)
FinishReleased(a) ==
    IF a.active.ended /\ a.active.freed /\ ~a.active.inflight THEN Complete(a) ELSE a

Queued(a, j) == \E i \in 1..Len(a.queue) : a.queue[i].job = j

(* Mutant: the applications that wait in the queue are forgotten.          *)
CancelActive(a, freed) ==
    LET b == CASE a.active = None -> a
               [] a.active # None /\ Busy(a) ->
                    FinishReleased([a EXCEPT !.active.ended = TRUE, !.active.freed = freed,
                                             !.active.due = FALSE, !.active.digits = FALSE])
               [] OTHER -> Complete(a)
    IN [b EXCEPT !.queue = <<>>]

(* cancelCallApplications; freed: the call has no media any more.          *)
Cancel(a, freed) ==
    LET b == CASE a.active = None -> a
               [] a.active # None /\ Busy(a) ->
                    FinishReleased([a EXCEPT !.active.ended = TRUE, !.active.freed = freed,
                                             !.active.due = FALSE, !.active.digits = FALSE])
               [] OTHER -> Complete(a)
    IN [b EXCEPT !.queue = <<>>,
                 !.done = [j \in Jobs |-> @[j] + IF Queued(a, j) THEN 1 ELSE 0]]

(* applicationMediaReleased                                                *)
MediaReleased(a) ==
    IF a.active # None /\ (a.active # None => a.active.ended)
    THEN FinishReleased([a EXCEPT !.active.freed = TRUE]) ELSE a

-----------------------------------------------------------------------------
(* The end of the call.                                                    *)

ReleaseMedia(a) ==
    IF CanSubmit(a) THEN [a EXCEPT !.submitted = Append(@, [op |-> "release", id |-> 0])] ELSE a

(* retireCallPCM                                                           *)
Retire(actualRelease) ==
    handle' = [r \in Reqs |-> IF r \in {current, pending}
                              THEN [handle[r] EXCEPT !.retired = TRUE, !.terminal = @ \/ actualRelease]
                              ELSE handle[r]]

(* finish: a BYE, uuid_kill, a timer.                                      *)
Finish ==
    /\ Loop /\ ~call.ended
    /\ Retire(FALSE)
    /\ Becomes(ReleaseMedia(Cancel(apps, FALSE)))
    /\ call' = [call EXCEPT !.ended = TRUE, !.releasing = CanSubmit(apps)]
    /\ UNCHANGED <<worker, replies, rust, req, pending, current, checking>>

(* A release that could not be submitted is repeated.                      *)
ReleaseRetry ==
    /\ Loop /\ call.ended /\ call.allocated /\ ~call.releasing /\ CanSubmit(apps)
    /\ Becomes(ReleaseMedia(apps))
    /\ call' = [call EXCEPT !.releasing = TRUE]
    /\ UNCHANGED <<worker, replies, rust, pcmVars>>

(* An error can only come from a process that has ended.                   *)
ReleaseResult(m) ==
    /\ Loop /\ m.op = "release"
    /\ replies' = replies \ {m}
    /\ call' = [call EXCEPT !.releasing = FALSE, !.allocated = FALSE]
    /\ IF call.allocated
       THEN Retire(TRUE) /\ Becomes(MediaReleased(apps))
       ELSE UNCHANGED <<handle, apps, urgent>>
    /\ UNCHANGED <<worker, rust, req, pending, current, checking>>

(* workerFailed                                                            *)
WorkerFailed ==
    /\ Loop /\ worker = "ended"
    /\ worker' = "reported"
    /\ Retire(TRUE)
    /\ Becomes(IF call.ended THEN MediaReleased(apps) ELSE Cancel(apps, TRUE))
    /\ call' = [ended |-> TRUE, allocated |-> FALSE, releasing |-> FALSE]
    /\ UNCHANGED <<replies, rust, req, pending, current, checking>>

\* How often somebody asked to speak on this channel (bounds).
Uses == Cardinality(apps.accepted) + Cardinality({r \in Reqs : req[r].stage # "idle"})

-----------------------------------------------------------------------------
(* The applications of a live call.                                        *)

Applications(a) == Becomes(a) /\ UNCHANGED <<call, worker, replies, rust, pcmVars>>
Running(k) == Loop /\ ~call.ended /\ apps.active # None /\ apps.active.kind = k

(* handleApplicationRequest; a refused request changes nothing.            *)
Execute(j, k) ==
    /\ Loop /\ ~call.ended /\ j \notin apps.accepted /\ Uses < MaxUses
    /\ k \in Prompting => ~OwnsTX
    /\ Applications(StartNext([apps EXCEPT !.accepted = @ \cup {j},
                                           !.queue = Append(@, [job |-> j, kind |-> k])]))

SleepOver == Running("wait") /\ Applications(FinishApplication(apps))

(* uuid_break, or a terminator key.                                        *)
BreakPlay == Running("play") /\ ~apps.active.finish /\ Applications(FinishApplication(apps))

(* uuid_break of a read only silences its prompt.                          *)
BreakRead == Running("read") /\ Busy(apps) /\ Applications(StopPrompt(apps))

(* A digit of a read: the last one wanted ends it, another one silences    *)
(* the prompt and restarts the patience with the caller.                   *)
LastDigit == Running("read") /\ ~apps.active.finish /\ Applications(FinishApplication(apps))

Digit ==
    /\ Running("read") /\ ~apps.active.finish
    /\ LET a == [apps EXCEPT !.active.digits = TRUE]
       IN Applications(IF a.active.state \in Final THEN a ELSE StopPrompt(a))

DigitDeadline ==
    /\ Running("read") /\ apps.active.digits
    /\ Applications(FinishApplication(apps))

PlaybackDue ==
    /\ Loop /\ apps.active # None /\ apps.active.due /\ ~apps.active.inflight
    /\ Applications(SubmitOrRetry(apps, IF apps.active.stop THEN "stop" ELSE "status"))

(* The hard deadline of a prompt that is not known to be silent ends the   *)
(* call: see Finish.                                                       *)
HardDeadline ==
    /\ \E k \in Prompting : Running(k)
    /\ IF Busy(apps) THEN Finish ELSE Applications(FinishApplication(apps))

(* handleApplicationMedia                                                  *)
Answered(a, state) ==
    LET b == [a EXCEPT !.active.state = state]
    IN CASE state = "running" ->
              IF a.active.stop THEN SubmitOrRetry(b, "stop") ELSE [b EXCEPT !.active.due = TRUE]
         [] state \in {"completed", "stopped"} /\ a.active.kind = "read"
                /\ ~a.active.finish /\ (state = "stopped" => a.active.stop) ->
              [b EXCEPT !.active.due = FALSE, !.active.digits = TRUE]
         [] OTHER -> FinishApplication(b)

(* No answer proves nothing about the prompt: it is stopped again, later.  *)
NotAnswered(a) ==
    [a EXCEPT !.active.finish = TRUE, !.active.stop = TRUE, !.active.digits = FALSE,
              !.active.due = TRUE]

MediaResult(m) ==
    /\ Loop /\ m.op \in {"start", "stop", "status"}
    /\ replies' = replies \ {m}
    /\ LET a == [apps EXCEPT !.active.inflight = FALSE]
       IN Becomes(IF apps.active = None \/ (apps.active # None => apps.active.id # m.id) THEN apps
                  ELSE IF a.active.ended THEN FinishReleased(a)
                  ELSE IF m.state = "error" THEN NotAnswered(a)
                  ELSE Answered(a, m.state))
    /\ UNCHANGED <<call, worker, rust, pcmVars>>

-----------------------------------------------------------------------------
(* BeginPCM: the goroutine of the caller.                                  *)

callerVars == <<call, worker, replies, rust, apps, pending, current, checking>>

(* abandon: a turn that is known to the call is told to stop, if that can  *)
(* be submitted.                                                           *)
Abandon(h) ==
    urgent' = IF ~handle[h].retired /\ handle[h].committed /\ CanSubmit(apps)
              THEN Append(urgent, [op |-> "interrupt", id |-> h])
              ELSE urgent

(* A caller who comes after the end of the call is refused: left out, like *)
(* two turns with the last id (bounds).                                    *)
Begin(r, t) ==
    /\ ~call.ended /\ Uses < MaxUses
    /\ \A q \in 1..(r - 1) : req[q].turn = MaxTurn => t < MaxTurn
    /\ req[r].stage = "idle" /\ \A q \in 1..(r - 1) : req[q].stage # "idle"
    /\ req' = [req EXCEPT ![r].stage = "waiting", ![r].turn = t]
    /\ UNCHANGED <<urgent, handle, callerVars>>

(* The context of the caller is cancelled.                                 *)
CancelContext(r) ==
    /\ req[r].stage = "waiting"
    /\ req' = [req EXCEPT ![r].stage = "cancelled"]
    /\ UNCHANGED <<urgent, handle, callerVars>>

(* The caller takes the result the loop has left for it.                   *)
Receive(r) ==
    /\ req[r].stage \in {"waiting", "cancelled"} /\ req[r].result # None
    /\ IF req[r].stage = "cancelled" /\ req[r].result = "handle"
       THEN Abandon(req[r].published) ELSE UNCHANGED urgent
    /\ req' = [req EXCEPT ![r].stage = "answered", ![r].result = None]
    /\ UNCHANGED <<handle, callerVars>>

(* The caller wins the right to give up ...                                *)
GiveUp(r) ==
    /\ req[r].stage = "cancelled" /\ req[r].delivery = "waiting"
    /\ req' = [req EXCEPT ![r].stage = "leaving", ![r].delivery = "abandoned"]
    /\ UNCHANGED <<urgent, handle, callerVars>>

(* ... and returns the handle the loop has published by then, or none.     *)
Leave(r) ==
    /\ req[r].stage = "leaving"
    /\ IF req[r].published = None
       THEN UNCHANGED urgent /\ req' = [req EXCEPT ![r].stage = "empty-handed"]
       ELSE Abandon(req[r].published) /\ req' = [req EXCEPT ![r].stage = "answered"]
    /\ UNCHANGED <<handle, callerVars>>

(* Status or Interrupt through a handle, one at a time and until it says   *)
(* that its turn is over (bounds); a fade goes on speaking for a while,    *)
(* like a turn that is only asked for its status.                          *)
Ask(h) ==
    /\ handle[h].committed /\ ~handle[h].retired /\ ~handle[h].terminal /\ CanSubmit(apps)
    /\ \A i \in 1..Len(urgent) : urgent[i].op # "interrupt"
    /\ \A m \in replies : m.op # "observe"
    /\ urgent' = Append(urgent, [op |-> "interrupt", id |-> h])
    /\ UNCHANGED <<req, handle, callerVars>>

(* observe: the goroutine of the caller, or of the pool after abandon.     *)
Observe(m) ==
    /\ m.op = "observe"
    /\ replies' = replies \ {m}
    /\ handle' = [handle EXCEPT ![m.id].terminal = TRUE]
    /\ UNCHANGED <<call, worker, urgent, rust, apps, req, pending, current, checking>>

-----------------------------------------------------------------------------
(* BeginPCM: the call loop.                                                *)

(* deliverPCMBegin: only a caller that has not given up gets the result.   *)
Deliver(q, r, result) ==
    IF q[r].delivery = "waiting"
    THEN [q EXCEPT ![r].delivery = "claimed", ![r].result = result] ELSE q

Eligible == ~call.ended /\ call.allocated /\ ~call.releasing /\ worker = "up"

(* Mutant: an active prompt that is being stopped counts as silent.        *)
StoppedTXBusy ==
    \/ apps.active # None /\ (apps.active # None =>
           apps.active.kind \in Prompting /\ Busy(apps) /\ ~apps.active.stop)
    \/ \E i \in 1..Len(apps.queue) : apps.queue[i].kind \in Prompting

(* pcmLegacyTXBusy                                                         *)
LegacyTXBusy ==
    \/ apps.active # None /\ (apps.active # None =>
           apps.active.kind \in Prompting /\ Busy(apps))
    \/ \E i \in 1..Len(apps.queue) : apps.queue[i].kind \in Prompting

Waiting(r) ==
    /\ Loop /\ req[r].stage # "idle" /\ ~req[r].asked
    /\ \A q \in 1..(r - 1) : req[q].asked
GivenUp(r) == req[r].stage = "cancelled" \/ req[r].delivery # "waiting"
Stale(t) == current # None /\ (current # None => t < handle[current].turn)
SameTurn(t) == current # None /\ (current # None => t = handle[current].turn)

loopVars == <<call, worker, urgent, replies, rust, apps, pending, current>>

Refusable(r) ==
    GivenUp(r) \/ ~Eligible \/ pending # None \/ LegacyTXBusy \/ Stale(req[r].turn)

(* handlePCMBegin refuses ...                                              *)
RefuseBegin(r) ==
    /\ Waiting(r) /\ Refusable(r)
    /\ req' = [Deliver(req, r, "refused") EXCEPT ![r].asked = TRUE]
    /\ UNCHANGED <<handle, checking, loopVars>>

(* ... or goes on: it publishes the handle for a caller who gives up ...   *)
AdmitBegin(r) ==
    /\ Waiting(r) /\ ~Refusable(r)
    /\ req' = [req EXCEPT ![r].asked = TRUE]
    /\ checking' = r
    /\ UNCHANGED <<handle, loopVars>>

PublishBegin(r) ==
    /\ checking = r /\ req[r].published = None
    /\ LET h == IF SameTurn(req[r].turn) THEN current ELSE r
       IN /\ req' = [req EXCEPT ![r].published = h]
          /\ handle' = IF h = r THEN [handle EXCEPT ![r].turn = req[r].turn] ELSE handle
    /\ UNCHANGED <<checking, loopVars>>

(* Mutant: the loop does not look again before it submits.                 *)
SubmitUnchecked(r) == TRUE

(* ... and looks again at the caller before it submits.                    *)
MaySubmit(r) == ~GivenUp(r)

SubmitBegin(r) ==
    /\ checking = r /\ req[r].published # None /\ checking' = None
    /\ LET h == req[r].published
           retired == IF h = current THEN handle ELSE [handle EXCEPT ![h].retired = TRUE]
       IN IF MaySubmit(r) /\ CanSubmit(apps)
          THEN /\ pending' = h
               /\ urgent' = Append(urgent, [op |-> "begin", id |-> r])
               /\ req' = [req EXCEPT ![r].sent = TRUE]
               /\ UNCHANGED handle
          ELSE /\ handle' = retired
               /\ req' = Deliver(req, r, "refused")
               /\ UNCHANGED <<pending, urgent>>
    /\ UNCHANGED <<call, worker, replies, rust, apps, current>>

(* Mutant: a turn that is begun again retires its own handle.              *)
CommitAgain(h, terminal) ==
    [x \in Reqs |->
        IF x = current THEN [handle[x] EXCEPT !.retired = TRUE]
        ELSE IF x = h THEN [handle[h] EXCEPT !.committed = TRUE, !.terminal = terminal]
        ELSE handle[x]]

(* The handle h takes the place of the handle of the call.                 *)
Commit(h, terminal) ==
    [x \in Reqs |->
        IF x = h THEN [handle[h] EXCEPT !.committed = TRUE, !.terminal = terminal]
        ELSE IF x = current THEN [handle[x] EXCEPT !.retired = TRUE] ELSE handle[x]]

RetireHandle(h) == [handle EXCEPT ![h].retired = TRUE]

(* handlePCMBeginResult                                                    *)
BeginResult(m) ==
    LET r == m.id
        h == req[r].published
        begun == Commit(h, handle[h].terminal \/ m.state = "over")
    IN
    /\ Loop /\ m.op = "begin"
    /\ replies' = replies \ {m}
    /\ pending' = None
    /\ CASE m.state = "lost" /\ ~handle[h].retired /\ ~call.ended /\ call.allocated ->
              /\ handle' = Commit(h, FALSE) /\ current' = h
              /\ req' = Deliver(req, r, "handle")
              /\ UNCHANGED urgent
         [] m.state = "error" \/ (m.state = "lost" /\ (handle[h].retired \/ call.ended \/ ~call.allocated)) ->
              /\ handle' = IF current = h THEN handle ELSE RetireHandle(h)
              /\ req' = Deliver(req, r, "refused")
              /\ UNCHANGED <<current, urgent>>
         [] m.state \in {"speaking", "over"} /\ (~Eligible \/ handle[h].retired) ->
              /\ handle' = RetireHandle(h)
              /\ req' = Deliver(req, r, "refused")
              /\ UNCHANGED <<current, urgent>>
         [] OTHER ->
              /\ handle' = begun /\ current' = h
              /\ req' = IF req[r].stage = "cancelled" THEN req ELSE Deliver(req, r, "handle")
              /\ urgent' = IF GivenUp(r) /\ CanSubmit(apps)
                           THEN Append(urgent, [op |-> "interrupt", id |-> h]) ELSE urgent
    /\ UNCHANGED <<call, worker, rust, apps, checking>>

-----------------------------------------------------------------------------
(* The process executes the next command.                                  *)

Reply(op, id, state) == [op |-> op, id |-> id, state |-> state]
TurnState(m) == IF m.speaking THEN "speaking" ELSE "over"

\* What a command may make of the session, with its answer.
Outcomes(c) ==
    IF ~rust.open THEN {<<rust, "error">>} ELSE
    CASE c.op = "release" -> {<<[rust EXCEPT !.open = FALSE, !.speaking = FALSE, !.state = "stopped"], "ok">>}
      [] c.op = "start" ->
           IF rust.speaking \/ rust.state = "running" THEN {<<rust, "error">>}
           ELSE {<<[rust EXCEPT !.play = c.id, !.state = "running"], "running">>}
      [] c.op = "status" -> {<<rust, IF rust.play = c.id THEN rust.state ELSE "error">>}
      [] c.op = "stop" ->
           IF rust.play # c.id THEN {<<rust, "error">>}
           ELSE LET x == IF rust.state = "running" THEN "stopped" ELSE rust.state
                IN {<<[rust EXCEPT !.state = x], x>>}
      [] c.op = "begin" ->
           LET t == req[c.id].turn
           IN IF t = rust.turn THEN {<<rust, TurnState(rust)>>}
              ELSE IF t < rust.turn \/ rust.state = "running" THEN {<<rust, "error">>}
              ELSE {<<[rust EXCEPT !.turn = t, !.speaking = TRUE], "speaking">>}
      [] OTHER ->
           IF handle[c.id].turn # rust.turn THEN {<<rust, "error">>}
           ELSE {<<x, TurnState(x)>> : x \in {rust, [rust EXCEPT !.speaking = FALSE]}}

\* A handle learns nothing from an answer that is not final, or when it
\* knows already; the loop never looks at a handle that was replaced.
Answer(c, state) ==
    IF c.op # "interrupt" THEN {Reply(c.op, c.id, state)}
    ELSE IF state = "over" /\ c.id \in {pending, current} /\ ~handle[c.id].terminal
         THEN {Reply("observe", c.id, state)} ELSE {}

ExecuteCommand ==
    /\ worker = "up" /\ urgent # <<>>
    /\ urgent' = Tail(urgent)
    /\ \E o \in Outcomes(Head(urgent)) :
          rust' = o[1] /\ replies' = replies \cup Answer(Head(urgent), o[2])
    /\ UNCHANGED <<call, worker, apps, pcmVars>>

(* A turn or a prompt ends by itself.                                      *)
TurnOver ==
    /\ worker = "up" /\ rust.speaking
    /\ rust' = [rust EXCEPT !.speaking = FALSE]
    /\ UNCHANGED <<call, worker, urgent, replies, apps, pcmVars>>

PromptOver ==
    /\ worker = "up" /\ rust.state = "running"
    /\ \E x \in {"completed", "failed"} : rust' = [rust EXCEPT !.state = x]
    /\ UNCHANGED <<call, worker, urgent, replies, apps, pcmVars>>

(* The process ends: nobody knows what became of the queued commands.      *)
WorkerEnds ==
    /\ worker = "up" /\ worker' = "ended"
    /\ urgent' = <<>>
    /\ replies' = replies \cup
         {Reply(urgent[i].op, urgent[i].id, IF urgent[i].op = "begin" THEN "lost" ELSE "error") :
             i \in {k \in 1..Len(urgent) : urgent[k].op # "interrupt"}}
    /\ rust' = [rust EXCEPT !.open = FALSE, !.speaking = FALSE, !.state = "stopped"]
    /\ UNCHANGED <<call, apps, pcmVars>>

-----------------------------------------------------------------------------
AppNext ==
    \/ \E j \in Jobs : \E k \in Kinds(j) : Execute(j, k)
    \/ SleepOver \/ BreakPlay \/ BreakRead \/ LastDigit \/ Digit \/ DigitDeadline
    \/ PlaybackDue \/ HardDeadline
    \/ \E m \in replies : MediaResult(m)

CallerNext ==
    \E r \in Reqs :
        \/ \E t \in 1..MaxTurn : Begin(r, t)
        \/ CancelContext(r) \/ Receive(r) \/ GiveUp(r) \/ Leave(r)
        \/ Ask(r)

PcmNext ==
    \/ \E r \in Reqs : RefuseBegin(r) \/ AdmitBegin(r) \/ PublishBegin(r) \/ SubmitBegin(r)
    \/ \E m \in replies : BeginResult(m) \/ Observe(m)

CallNext ==
    \/ Finish \/ ReleaseRetry \/ WorkerFailed
    \/ \E m \in replies : ReleaseResult(m)

WorkerNext == ExecuteCommand \/ TurnOver \/ PromptOver \/ WorkerEnds

Next == AppNext \/ CallerNext \/ PcmNext \/ CallNext \/ WorkerNext

Spec == Init /\ [][Next]_vars

-----------------------------------------------------------------------------
TypeOK ==
    /\ worker \in {"up", "ended", "reported"}
    /\ apps.active \in Actives \cup {None} /\ apps.submitted = <<>> /\ Len(urgent) <= UrgentCap
    /\ {pending, current, checking} \subseteq Reqs \cup {None}

(* Every accepted application is completed exactly once, whatever ends it: *)
(* a deadline, a key, a break, its prompt, the call or the worker          *)
(* (esl_applications.go:937).                                              *)
Count(j) ==
    apps.done[j] + (IF Queued(apps, j) THEN 1 ELSE 0)
                 + (IF apps.active # None /\ (apps.active # None => apps.active.job = j) THEN 1 ELSE 0)
JobsCompleteOnce == \A j \in Jobs : Count(j) = IF j \in apps.accepted THEN 1 ELSE 0

(* A prompt that sounds, or will, belongs to the active application: an    *)
(* application is never completed while its prompt can still be heard.     *)
SoundHasOwner ==
    LET mine(id) == apps.active # None /\ (apps.active # None => apps.active.id = id)
    IN /\ rust.state = "running" => mine(rust.play)
       /\ \A i \in 1..Len(urgent) : urgent[i].op = "start" => mine(urgent[i].id)

(* While the call lives, a turn that speaks is known to it by a handle     *)
(* that can still interrupt it, and it keeps the prompts away.             *)
TurnHasOwner ==
    rust.speaking /\ Eligible =>
        /\ OwnsTX
        /\ \E h \in {pending, current} \ {None} : handle[h].turn = rust.turn /\ ~handle[h].retired

(* The process never has to refuse a turn because of a prompt or a prompt  *)
(* because of a turn: the loop never lets both into the queue.             *)
NeverContested ==
    urgent # <<>> /\ rust.open =>
        LET c == Head(urgent)
        IN /\ c.op = "start" => ~rust.speaking /\ rust.state # "running"
           /\ c.op = "begin" /\ req[c.id].turn > rust.turn => rust.state # "running"

(* A caller who gave up and got no handle was told that nothing was sent:  *)
(* its begin never reaches the worker, not even later (pcm_stream.go:274). *)
CancelledMeansNothing ==
    \A r \in Reqs : req[r].stage = "empty-handed" => ~req[r].sent
=============================================================================
