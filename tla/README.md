# A TLA+ model of the voice runtime

The repository is a SIP back-to-back user agent: a Go controller (`source/main/control`)
terminates the signalling of both legs of a call, and Rust media processes
(`source/main/media`), one per worker, relay or generate the RTP. This directory holds a
formal model of the controller's core, of the ownership of a leg by the SDK and the
applications, and of the socket loop and the turn queue of the media process, the TLC runs
that check it and the TLAPS proofs about it. Paths below are relative to `src/source/main/`; `asr-candidate` is a variant
tree of the same program and is not modelled separately.

## 1. Inventory

### Controller (Go, `control/internal`)

| Component | State | Operations | Hard behaviour | What makes it correct |
|---|---|---|---|---|
| Call control, `server/calls.go` | `Server.calls`: per call two SIP dialogs, their final answers, timers, transactions | INVITE, ACK, CANCEL, BYE, responses of leg B, timers, stop | messages late, repeated or missing, forks, a CANCEL against an answer, drain | both legs are released, no call without a deadline, Run leaves nothing behind |
| Media ownership, `calls.go`, `server.go` | `Reserved`, `AllocatePending`, `Allocated`, `Releasing`, the connect versions, `Stats.Active`, `workerLoads` | admit, allocate, connect, release, retry, `workerFailed`, `call_gc` | results and failures in any order, of older generations, after the end of the call | quota counted exactly, held while ports are open, always given back |
| Media pool, `media/pool.go` | per worker: health, generation, two bounded queues; failures channel | enqueue, serve, drain, report, restart | crash between commands, unknown outcome of a timed-out command, health read against the queue | no command reaches another generation |
| Pressure tracker and admission guard, `media/pressure.go`, `server/guard.go` | hysteresis state; token bucket, policy | update, admission, refill | statistics read at different moments (the subtraction saturates) | limits never exceeded, open again after load falls |
| Timers, `server/timers.go` | indexed heap, one item per kind and key | schedule (replaces an armed item in place), cancel, expire | an item moved or removed inside the heap keeps its index | at most one live item per key |
| SIP streams, `server/transport.go` | connections, queues, references to calls and transactions | accept, dial, reconnect, send, `streamEnded` | loss at any moment | references removed with the connection |
| Trunk authentication and registration, `trunk_auth.go`, `trunk_registration.go` | challenges, CSeq, registration state | retry with credentials, refresh, unregister | old responses, challenge at shutdown | bounded retries, one REGISTER at a time |
| PCM turns, `server/pcm_stream.go`, `media/pcm_stream.go`, `server/pcm_endpoint.go` | owner of a call's transmit side, turn ids, lanes | begin, push, end, interrupt, retire | a begin abandoned in flight, at-most-once delivery | one owner, offsets contiguous |
| RX subscriptions, `server/rx_stream.go`, `media/rx_stream.go` | subscription per session, candidate and previous, sequence | subscribe, read, unsubscribe, isolate | rollback of a candidate, late results | a handle reads only its own call |
| ESL server, `esl/server.go` | clients, subscriptions, bounded queues | command, publish, close | slow clients | the call loop never blocks |
| ESL applications, `server/esl_applications.go`, `application_*.go` | lanes of jobs per call | execute, break, media results, digits | completions after break or end | one job runs per lane, each completes once |
| Admin store, `server/admin_store.go` | revision, configuration on disk | commit, conflict | crash between write and rename | memory and disk agree on the revision |
| Journal, `journal/journal.go` | bounded queue, latched failure | record, run, close | full queue, write error | no admission while unhealthy |
| Benchmark manager, `server/benchmark*.go` | one active task | start, stop, finish | stop against finish | one task, every task finishes |
| SIP, SDP, configuration, dialplan text | none | parse, format | - | conversions only |

### Media process (Rust, `media/src`) and native code

| Component | State | What makes it correct |
|---|---|---|
| Sessions and ports, `worker.rs`, `ports.rs`, `io.rs` | sessions in slots, free and quarantined port blocks, queues of readable, suspended and blocked sockets | a block is in one place, and not reused before its quarantine ends; no socket falls silent under edge-triggered readiness |
| PCM turn queue, `pcm_turn.rs`, `pcm_transport.rs` | ring of frames, position, state | accepted = sent + queued + discarded; time never catches up |
| RX export, `rx_export.rs`, `worker_rx.rs` | bounded queue, gap counters, pending send | each gap is reported once, a sent record is the prepared one |
| DTMF and playback, `dtmf_sender.rs`, `interaction.rs` | digits, packets, event journal with cursor | packet counts exact, events once |
| RTP, jitter, RTCP, codecs | sequence state, buffers | wrapping arithmetic; sample processing is out of scope |
| Rate limits, scheduler, `admission.rs`, `scheduler.rs` | token bucket, indexed heap | never above burst; first = minimum |
| `native/` | numeric C code | not modelled |

### How they interact

One goroutine, the call loop (`Server.Run`), owns `Server.calls`. It receives SIP messages
(a normal and a critical queue), requests of operators and applications, completed media
commands (`results`), failures of worker generations (`Failures`) and a 10 ms tick that
runs timers. `select` takes them in any order. Each handler runs to completion; it submits
commands to the queue of a worker, and the worker's goroutine executes them one at a time
against its process and posts the result. Between two handlers all pool goroutines run
freely, so every result may arrive after its call ended or its generation died.

## 2. Modules

| Module | Models |
|---|---|
| `MediaPool` | `pool.go`: queues, health, generation, serve, cleanup, drain, report, restart; of the media process only the sessions that hold ports and the installed target |
| `CallMedia` | extends `MediaPool` with the resource side of the call loop; SIP is two inputs, `Connect` and `EndCall`, at any time |
| `MediaQuota` | the abstract promise: ports are opened only under a grant, grants stay within their limits and are given back only for closed ports |
| `CallControl` | extends `CallMedia`: both SIP legs, forks, authentication retries, timers, transactions, connections, stop and exit |
| `MediaSockets` | `ports.rs` and the loop of `worker.rs` for transparent bridges: allocation, connection, release, quarantine, readiness, cooldown and retry queues |
| `TurnQueue` | `pcm_turn.rs` and its handlers and timer in `worker_pcm.rs`, with the prompt player that shares the RTP timeline of leg A: time in ticks, and a loop that may run late |
| `TxOwner` | who may speak on leg A: `BeginPCM` (`server/pcm_stream.go`) against the ESL applications (`esl_applications.go`, `application_*.go`), with one worker and its urgent queue |
| `RxOwner` | who may listen to leg A: `SubscribeRX` (`server/rx_stream.go`) and the lane of the worker (`media/rx_stream.go`, `worker_rx.rs`), five threads |
| `MCCallMedia`, `MCCallControl`, `MCMediaSockets`, `MCTurnQueue`, `MCTxOwner`, `MCRxOwner` | instances for TLC, with symmetry sets where they are used |
| `CallMediaProofs`, `OwnershipProofs`, `CallControlProofs`, `PortPoolProofs`, `MediaSocketsProofs`, `TurnQueueProofs`, `TxOwnerProofs`, `RxOwnerProofs` | theorems |

**Correspondence.** Variables have the names of the code's fields: `reserved` is the set of calls with
`Reserved`, `workerLoads` is `Server.workerLoads`, `gen` is `Worker.Generation`. `status`
is the position of `supervise`/`serve`, so `Healthy` is an operator of it. `sig[c]` is
the record of the signalling fields of `Call` with the timers armed and the transactions
outstanding for it; `aStatus`, `bFinal`, `bAnswered`, `cancelWanted` are `AStatus`,
`BFinal`, `BAnswered`, `CancelWanted`. Helpers of the code are operators of the same
name on that record (`AnswerA`, `SendByeB`, `SendCancelB`, `Reject`). An action of
`CallControl` is a whole handler: the update of `sig` conjoined with the one action of
`CallMedia` the handler takes.

`MediaSockets` looks inside one process and shares no state with the other modules, which see of
a process only the sessions that hold ports. Its variables are the fields of
`Engine`, `PortPool` and `Session`; a token is the record of generation, block and side that
the code packs into an integer. `data` and `events` are the kernel's.

`TurnQueue` keeps every `Instant` relative to the clock, so time is a `Tick` that moves all of
them: `next`, `timer`, `playNext` and `audioAt` count down, `last` and `began` count up.
`turn` is `Session.pcm_turn`, `timer` the session's entry in `pcm_timers`, `audioAt` is
`local_audio_at`. A handler is one step with its `expire_input`, `advance` and
`align_deadline` in the order of the code, which differs between handlers.

`TxOwner` and `RxOwner` look at one answered local call and one generation of its worker. A
call of `BeginPCM` or `SubscribeRX` also names the handle it may create. `delivery` and
`published` are the two atomic words that the caller and the call loop share; `checking` is
the place of the loop between publishing a handle and submitting, the one moment inside a
handler at which the caller can act on what it has done. In `TxOwner`, `apps` is the lane of
the channel; its helpers are functions of that record, named as in the code
(`FinishApplication`, `StartNext`, `Cancel`), and a step installs the record it ends with. In
`RxOwner`, `go[r]` is the control goroutine with its job (`call` is `callState`, `at` its
place in `Pool.SubscribeRX` and `bind`), `rx[r]` is `RXHandle` together with
`RXSubscription`, `lane` the entry of `rxLane.subscriptions`, and `rust` the session in the
process.

**Atomicity.** A handler is one step: it touches a worker at most once, and the guard of
`enqueue` (healthy, generation, room) is read under `submitMu`. The pool's cleanup is
several steps because the code does it outside that lock: `ClearHealthy`, `KillProcess`,
`DrainQueue` per command, `ReportFailure`. Admission reads `Healthy` before it enqueues,
so `Admit` may still be refused by a worker that stopped in between.

In the media process each command and each unit of work of the single-threaded loop is a
step. They are taken in any order, which includes the loop's fixed cycle of bounded batches
and the kernel's arrivals between any two of them.

**Environment.** A message may arrive whenever its sender can have sent it, any number of
times or never; loss, delay, duplication and reordering therefore need no network
variable. A command may be executed and still fail (`Fail`), a process may die at any
time, with or without its ports closing at once (`Break`), a restart may fail.

**Abstractions.** Left out because they change no state the properties read:
retransmissions, statistics, journal and event records, SDP (only the outcome accepted /
refused), INFO. Each call has its own connections, a generalisation of shared ones for
the safety properties. The channel of results is unbounded here (the code's is large and
its senders wait). `OnWorkerFailed` folds the lost calls in one fixed order; the code
ranges over a map, which matters only at the transaction limit. Registration, which also
holds the drain, is not modelled. The guard's and the journal's refusals create no call
and are not steps. In `MediaSockets` the RTP
sockets of a block stand for its RTCP sockets (same code, own slot of every table),
processed and local sessions, whose output bypasses the retry queue, are left out, a
configured quarantine of zero is excluded, and so is the exhaustion of 64-bit tokens. `WellBehaved` restricts leg B to answers a conforming peer sends
(after a 2xx only 2xx, after a failure nothing but late provisionals); it is FALSE in
`control_live`, whose properties owe nothing to the peers.

In `TurnQueue` samples are counted in frames and have no contents, so a fade is a number of
frames; the frames of a push are already those the lane accepted. In `TxOwner` an answer
to a release frees the session even if it is an error (of a session that is gone), turns
that end short of their frames are left out, the
applications that end at once are left out, "wait" stands for `sleep` and for a read
without a prompt, and an interrupt may also leave the turn speaking, as a status or a fade
does. Nothing says more than the code of when a result is unknown: only when the process
ends. In `RxOwner` the frames themselves are left out: a handle is deaf or it is not. A
caller that comes after the end of the call is refused by both modules' code and is not a
step. The answers to interrupts that teach a handle nothing are dropped at once.

## 3. Runs

`CHECK_DEADLOCK FALSE` in all but `turn_queue`, whose clock never stops: call identities
and requests are used once and generations are bounded, so a finished behaviour of the
bounded model stops, and `Run` does return.

| Run | Question | Bounds |
|---|---|---|
| `media_ownership` | quota, ports, queues and connect coalescing under all interleavings; refinement of `MediaQuota` | 2 calls, 1 worker with 1 slot, 2 generations, queues of 1, 2 targets |
| `media_live` | an ended call always returns its quota, also while adaptive admission closes and opens the worker | 2 calls, 1 worker, 2 generations |
| `control` | both legs, deadlines and exit for every kind of call | 1 call, 1 generation, 2 targets, 2 transactions, 1 challenge |
| `control_forks` | forks of leg B over connections that close | 2 remote tags, 1 cleanup record, both legs on connections |
| `control_live` | calls are forgotten and a drain ends, whatever a misbehaving peer sends | 1 call of each kind |
| `sockets` | reuse of a port block while the loop's queues name its last session; edge-triggered reading; a leg that moves | 1 block used twice, 2 generations, 2 targets, kernel buffers of 2, allowance 2, send queue of 1 |
| `turn_queue` | a turn always has its timer and ends, and frames never overlap | 2 turns, 4 frames accepted in each, prompts of 2 frames, a frame of 2 ticks, lateness up to a frame |
| `tx_owner` | one owner of the transmit side, applications complete once | 2 applications (one reads digits), 2 callers of `BeginPCM`, 3 of these 4 in a history, 2 turn ids, urgent queue of 2 |
| `rx_owner` | one owner of the export, revoked readers are deaf | 2 calls of `SubscribeRX`, 2 ids, urgent queue of 2 |
| `media_claim`, `control_cancel`, `rx_unknown` | claims of documents and comments that the code does not keep, section 6 | as above |

*Why the bounds suffice to meet the hazards.* Queues of one slot are full as soon as one
command waits, so every refusal path is taken; one slot for two calls makes them compete;
two generations are what a stale command, result or failure needs; two targets are what
coalescing needs (one in flight, one queued). In `control` one call suffices because
calls share only the transaction limit and the media, and the sharing of media is the
subject of the media runs; a limit of 2 transactions is reached by a single call
(INVITE, CANCEL, BYE), so the overflow path is exercised. What TLC shows for these sizes,
section 5 proves for all sizes where it can.

In `sockets` one block suffices because a token touches only the tables of its own slot;
two generations are what a stale token needs, two targets what a move needs, and with an
allowance equal to the turn's datagrams a turn may end by either. That blocks do not disturb
each other is what the theorems on `MediaSockets` show, for any number of them.

In `turn_queue` a second turn is what an overlap needs, a third of the buffer is below the
prebuffer, four frames allow a queue that runs dry and resumes, and a lateness of one frame
is what the code refuses; the theorems of section 5 hold for all of these. In `tx_owner` two
applications are a running and a waiting one, and two callers make a handle replaced,
begun again or refused while the other is in flight; `MaxUses` lets any three of the four
happen in one history, which is two turns around an application or two applications around a
turn. The bounds leave out a caller after the end of the call, a second turn with the last id,
and more than one question to a handle at a time. In `rx_owner` two requests are a handle and the candidate that replaces it, which is
what rollback, the check of ids and a late result need. A queue of two is full with a
command of each side in it. One generation suffices in both because a handle dies with its
generation: an eligible call is one whose worker still serves.

A second worker is in no run any more: the workers of `CallMedia` share only the total
`active`, and the accounting is proved for any number of them.

*Invariants.* `QuotaAccounting`: counters equal the calls that hold quota.
`LiveCallsReserved`: no error path loses the quota of a call that goes on, for admission
sees only the count of those that hold it. `PortsCovered`: ports open in a serving process
belong to a call that pays quota for that worker and generation.
`WorkerWithinCapacity`: admission never over-commits a worker. `QueuesAreCurrent`: no
command outlives its process. `TeardownDriven`: an ended call that still pays has a
command under way or a retry armed. `LatestTargetInstalled`: coalescing loses nothing.
`LiveCallHasDeadline`, `AnsweredLegAIsReleased`, `AnsweredLegBIsReleasedUnlessCancelled`,
`RingingLegBIsCancelled`, `ExitIsClean` and the action property `AnswerFollowsMedia`
(leg A hears 200 only when the newest target is installed) concern the dialogs.
`BlocksAccounted`: no error path loses a port block or has it twice. `QuarantineHolds`: a
session never gets a block its predecessor's peer may still send to. `ReadinessKept`: a socket
with unread datagrams is scheduled, suspended or about to be, though no edge comes twice.
`ScheduledOnce` and `SuspensionsResume`: a socket is in the schedule once, and out of `poll`
only while it is suspended. `WaitingIsListed`, `WaitingForCurrentTarget`: a queued datagram
is retried, and never sent after its target was replaced.

`TimerArmed`: a turn that is not over has its timer at the moment of its next duty: a frame, the
end of the last one, or the end of the patience with a silent producer. `NoOverlap`: the
next frame of a turn or a prompt is planned after the last one encoded has been heard.
`TurnEnds`: a turn ends whatever its producer does. `JobsCompleteOnce`: an accepted
application gets exactly one completion. `SoundHasOwner`: no prompt sounds, or will, after
its application was completed. `TurnHasOwner`: a turn that speaks is known to a live call by
a handle that can interrupt it, and keeps prompts away. `NeverContested`: the process
never has to refuse a prompt for a turn or a turn for a prompt. `CancelledMeansNothing` and
`NoHandleMeansNothing`: a caller told that it has nothing is right, also later.
`ExportHasOwner`: while the call lives, what its session exports belongs to the handle the
call keeps or waits for, and the lane still knows it. `RevokedIsDeaf`: revoking and
binding may come in either order.

A type invariant of the three newer modules is a definition that is not run: the proofs
carry the types they need, and an ill-typed state would show in the properties.

## 4. Fairness

Assumed in `FairSpec` and `FairControlSpec`, all weak: a worker's goroutine takes a
waiting command and a failed generation is carried through to its report (both goroutines
loop without other waits; each RPC has a timeout, so it ends); the call loop consumes
results and failures (Go's `select` chooses uniformly among ready channels); a due
timer fires (the loop's 10 ms tick); `Exit` is taken when its condition holds, which is
tested on every iteration. Nothing is assumed of peers, operators, processes or
restarts. `EveryCallForgotten` and `DrainEnds` hold on the strength of timers alone.

`FairSpec` of `TurnQueue` assumes that time goes on and that the event loop takes a due
timer of a turn or of a prompt: it looks at them on every turn of the loop, and `Tick` stops
at the allowed lateness. Nothing is assumed of the controller or the producer.

## 5. Proofs

For every set of calls and workers and all limits that satisfy `PoolAssumption` and
`CallAssumption` (finite non-empty sets where counted, limits positive):

* `CallMediaProofs`: `TypesHold`, `QuotaIsCounted`, `LiveCallsKeepQuota`. Quota
  accounting is not inductive by itself: giving back the quota of `c` decrements the load of
  `worker[c]`, so the proof needs types; `workerLoads - 1 \in Nat` in turn needs the
  accounting (a member is removed from a non-empty set); and "a live call holds
  quota" needs that a release in flight belongs to an ended call
  (`ReleasesAreOfEnded`), since its result gives the quota back unconditionally. `IInv`
  is the conjunction of these parts, and one lemma per helper (`Finish`, `ReleaseMedia`,
  `SubmitConnect`) carries them through the actions.
  `QueuesStayCurrent` is there too. Its strengthening `QueuesFollowProcess` says also what
  the queues hold while the worker is not serving: from `broken` to `draining` they hold only
  commands of the generation that ends, and from `waiting` on they are empty, because
  `Healthy` was cleared before the drain; hence the next generation starts empty.
* `OwnershipProofs`: `OpenPortsArePaidFor`, `WorkersAreNeverOvercommitted`,
  `TeardownIsAlwaysDriven`, `NewestTargetIsInstalled`, and `MediaQuotaIsImplemented`, the
  refinement of `MediaQuota`. One invariant, `OInv`, carries all five: of each call at most
  one allocation, one release and one connect is anywhere between the queues of its
  worker and the channel of results, the flags of the call say which (`FlagsAgree`), and
  what the process holds follows from where they are (`AllocationTracked`,
  `ReleaseTracked`, `ConnectTracked`). A call whose generation has failed is the case that
  needs care: until `workerFailed` runs, its commands may be answered in the drain, and
  afterwards (`Gone`) its late results meet flags that make the handlers drop them. A move of
  the pool (a command taken and answered) and a handler of the loop are proved apart,
  each with the calls it leaves alone first; queues are read as sets of items, so that
  only `AppendItems` and `TailItems` reason about positions.
* `CallControlProofs`: `ControlImplementsMedia`, every behaviour of `CallControl` is a
  behaviour of `CallMedia`, hence all the theorems above for the whole controller
  (`ControlPortsArePaidFor` and its neighbours).
  `RunReturnsClean`: `Run` looks only at the counter `active`; the proof needs `OInv`,
  that a call which was forgotten has ended, and that nothing steps after the exit.
  `LiveCallsHaveDeadlines`, `AnsweredLegBIsHungUp`, `RingingLegBIsToldToStop`,
  `AnsweredLegAIsHungUp`, `ControlTypesHold` and the action property `AnswersFollowMedia`
  rest on `DialogInv`, which says of every record of signalling fields that it obeys the
  rules of its kind (`Ruled`), that a live call has the deadline of its stage (`Guarded`) and
  is answered only after a current connect (`Underway`), and that the legs of an ended one
  have been told (`Over`). Each helper of the code has a lemma on the record it returns;
  each handler is then shown either to close the record (`Closed`) or to keep the dialog, and
  to answer leg A in time (`TimelyAnswers`, from which the action property follows).
  `OnWorkerFailed` folds over any finite set of calls: that the fold closes each of them
  once is proved without induction, from a smallest set for which it would not
  (`SmallestSubset`).

* `PortPoolProofs`, from `SocketsAssumption`: `NoBlockLost` and `NoEarlyReuse`. `PoolInv` says
  that no block is twice among the free, the quarantined and the held ones, that all are
  there, and that a quarantine lasts at least as long as the datagrams it waits for; it
  does not need the quarantine to be sorted by time, since `reclaim` stops at the first
  entry that is not due. Moving a
  prefix from one queue to another is proved once (`ReclaimOK`) and used by every command.
* `MediaSocketsProofs`: all six properties of the loop. Stale tokens are what makes the
  invariant: a token in `ready` or `delayed` stands for the mark of its socket only as long as
  it is current, generations in the queues never exceed that of the slot, and a slot gets a
  generation that no token has yet; so a stale token is never taken for its successor.
  One lemma per action (`AllocateSafe` to `FlushStaleSafe`), after lemmas on queues
  that hold nothing twice.
* `TurnQueueProofs`, from `TurnAssumption` (a frame is at least a tick, the gap limit is more
  than a frame, the loop may be a frame late or more): `TurnsAreTimed`, `TimelineHolds` and
  `FramesAccounted`. `NoOverlap` is not inductive: when the clock moves the counted past is
  cut off, and a plan stays after the last frame only because the timer, which the clock
  never passes by more than the lateness, is that plan. `TimerArmed` in turn needs
  `Planned`: past its prebuffer a queue with frames has a plan, and one without has sent a
  frame. One lemma per method of the queue shows that it keeps a queue sound, and
  `AlignInLine` that the commands plan a first frame after the last one.
* `TxOwnerProofs`: `CancelledIsCancelled`, from the agreement of the two atomic words: who
  leaves has written so before it looks at what is published, and what is sent was published
  before the loop looked for the last time. `JobsAreCompletedOnce`, `SoundIsOwned`,
  `TurnIsOwned` and `QueueIsNeverContested` rest on one more invariant, `SInv`:
  - each accepted application is queued, active or done, and only one of them (`Once`);
  - of all commands for prompts in the urgent queue and all their answers at most one
    exists, and the active application awaits it (`AwaitedOK`), so no answer is taken for
    that of another; what may sound is the prompt of an application not known to be over,
    and a start is never in the queue with a begin (`SoundOK`);
  - at most one begin exists, that of the pending handle (`BeginsOK`); a turn that speaks is
    that of the current handle or its begin has just been answered (`SpeakingOK`); turns of the
    process only grow, so that a turn once seen to be over is over for good and a
    handle that remembers it is right (`HandlesOK`); what `handlePCMBegin` has found out still
    holds when it submits (`CheckingOK`).
  The handlers of the applications are functions on the record `apps`; each has a lemma that
  it keeps `Good`, what `SInv` says of that record and of the queue with the commands
  it adds. `startNextApplication` folds over the queue, and the same smallest set as in
  `CallControlProofs` shows the fold good. `SInv` also bounds the urgent queue together with
  the commands a step has collected, hence `TxTyped`: no step overfills the queue, although
  one may submit several commands. Besides `TxAssumption` the proofs assume that
  `None` is not an application (`NoneIsNoApplication`), which holds for a model value.
* `RxOwnerProofs`: `RevokedStaysDeaf`: the strengthening says where the control
  goroutine of a bound handle can be; the relation `Kept` (no handle was opened) holds of
  every method of the handles and is composed along each step.
  `ExportIsOwned` and `NoHandleNoExport` need two more layers. `LInv` is a ledger: the job of a
  subscription is at one place (queue, worker or session) and the state of its call says
  which. `HInv` says who answers for the export: only a dead subscription is retired or
  known to be over, and one that is not dead is the one the lane knows (`Course`,
  `Session`); a candidate is registered only when the lane's one is over, so that at most one is
  alive (`Alone`); until the call ends, whoever is alive is pending or current in the call and
  not retired (`Held`). A caller that was refused has no goroutine, or one that came back
  unbound and was therefore retired.
  `RxTyped` types the names of subscriptions, for which it also has to type what a goroutine
  remembers of the lane (a rollback gives that back), and bounds the urgent queue.

`AnsweredLegAIsHungUp` has the hypothesis `WellBehaved`, a constant of the model: it is the run's
assumption that an upstream sends no failure after a 2xx, and section 6 says what happens
without it. The two liveness properties of `CallControl`, `TurnEnds` and
`QuotaReturned` under fairness are out of the prover's reach and stay with TLC.

Every other property that a run checks is stated by a theorem.

## 6. Where the code and its documents differ

* **Quota before the process has ended** (`media_claim`). `docs/architecture.md:30` promises quota back
  only after a release or the confirmed end of the process; `onMedia` gives it
  back at a failed allocate, whose ports may be open in a process about to be killed.
  `PortsCovered` shows the consequence ends with that process's service.
* **CANCEL against the answer** (`control_cancel`). `cancelA` only cancels leg B; if leg B has
  answered and its media is being connected, it is told nothing. Every other end of a
  call tests `BAnswered`. `AnsweredLegBIsReleasedUnlessCancelled` shows this is the only gap.
* **The handle of an unknown subscription** (`rx_unknown`). `ErrRXSubscribeUnknown` says to keep
  the handle and to query or unsubscribe. If the caller cancels after the worker has taken
  its job and before the worker looks at the context, the command is never sent, yet the
  outcome counts as unknown: the candidate stays in the lane and the handle with the
  call, every question is answered with an error, the handle never becomes terminal, the
  same id is not sent again and a higher one is refused. The call cannot subscribe any more.
  In a variant the definite rejection comes after the caller gave up and retires the
  handle that was kept.

Not a run: `reject` never says BYE to leg A, but a malformed late answer of a misbehaving leg
B reaches it on an answered call. With conforming peers (`WellBehaved`) it cannot happen,
which is what `AnsweredLegAIsReleased` shows.

## 7. Plan

In order of importance; the number of runs and properties is limited on purpose, so that the
whole check stays a matter of minutes.

1. done: `MediaPool`, `CallMedia`, `MediaQuota`, `CallControl` with proofs; `MediaSockets` with
   proofs of all its properties;
   `TurnQueue`, `RxOwner` and `TxOwner` with proofs of their safety properties.
2. `AdmissionGuard`, the pressure tracker, the two token buckets, `TimerHeap`:
   small arithmetic machines, each against a reference definition.
3. Media process: `RxExport` (gaps reported once while a record is being sent), `DtmfSender`,
   the event journal with its cursor, RTP sequence arithmetic at the wrap.
4. `Registration`, SIP streams, `AdminStore` (a step of the commit fails), the latched
   `Journal`, slow ESL clients.
5. Ingress queues in front of `CallControl` (a CANCEL overtaking its INVITE); the
   transaction limit as seen by leg B.

Proofs go with the modules: each of the machines above comes with its invariant proved.

Not planned: codecs and other sample processing (numeric), parsing and formatting,
documentation assets, the load generator. Most of the repository's lines are vendored Rust
crates (`dependencies/rust-vendor`), which are third-party code, and the tree
`asr-candidate` repeats `main`; what is modelled is a small share of all lines and the larger
part of the control flow of the files named above.
