------------------------------ MODULE TurnQueue ------------------------------
(***************************************************************************)
(* The speaking side of one media session: its PCM turn queue              *)
(* (media/src/media/pcm_turn.rs), the handlers and the timer that drive it *)
(* (worker_pcm.rs), and the prompt player that shares the RTP timeline of  *)
(* leg A with it (Playback in worker.rs and interaction.rs).               *)
(*                                                                         *)
(* Every handler and every due timer is one step of the single event loop  *)
(* of the media process.  Time passes between steps, in ticks, and the     *)
(* loop may run late.  An Instant of the code is kept relative to the      *)
(* clock: next, timer, playNext and audioAt are the ticks until it (below  *)
(* zero when it has passed), last and began the ticks since it.  Samples   *)
(* are counted in frames of 20 ms and their contents are left out.         *)
(***************************************************************************)
EXTENDS Integers

CONSTANTS
    None,        \* an Option that is empty
    Step,        \* 20 ms, the length of a frame, in ticks
    FirstAudio,  \* FIRST_AUDIO_TIMEOUT
    GapLimit,    \* FRAME + AUDIO_GAP_TIMEOUT
    Buffer,      \* buffer_frames of every turn
    Prebuffer,   \* prebuffer_frames of every turn
    PlayFrames,  \* frames of a prompt
    MaxTurn,     \* bound: turn ids the controller begins
    MaxAccepted, \* bound: frames pushed in one turn
    MaxLate      \* bound: ticks by which the loop is behind a due timer

ASSUME TurnAssumption ==
    /\ None \notin Int
    /\ Step \in Nat \ {0} /\ FirstAudio \in Nat \ {0}
    /\ GapLimit \in Nat /\ GapLimit > Step
    /\ Buffer \in Nat \ {0} /\ Prebuffer \in 1..Buffer
    /\ PlayFrames \in Nat \ {0}
    /\ MaxTurn \in Nat /\ MaxAccepted \in Nat
    /\ MaxLate \in Nat /\ MaxLate >= Step

VARIABLES
    turn,     \* Session.pcm_turn
    timer,    \* the entry of the session in pcm_timers
    audioAt,  \* local_audio_at: planned time of the last frame encoded
    play,     \* state of Session.playback: "off" stands for every final state
    playNext, \* Playback.next
    playLeft  \* frames of the prompt still to be sent

playVars == <<play, playNext, playLeft>>
vars == <<turn, timer, audioAt, playVars>>

Open == {"Buffering", "Playing"}
Closing == {"Draining", "Stopping"}
Ended == {"Completed", "Stopped", "Failed"}
States == {"Idle"} \cup Open \cup Closing \cup Ended
Active(q) == q.state \in Open \cup Closing

Fresh(t) == [id |-> t, state |-> "Buffering", len |-> 0, accepted |-> 0, sent |-> 0,
             discarded |-> 0, next |-> None, last |-> None, began |-> 0]

Init ==
    /\ turn = [Fresh(0) EXCEPT !.state = "Idle"]
    /\ timer = None /\ audioAt = None
    /\ play = "off" /\ playNext = None /\ playLeft = 0

Later(x, y) == IF x > y THEN x ELSE y

-----------------------------------------------------------------------------
(* The queue.                                                              *)

Keep(q, n) == [q EXCEPT !.len = n, !.discarded = @ + q.len - n]

Fail(q) ==
    IF Active(q) THEN [Keep(q, 0) EXCEPT !.next = None, !.state = "Failed"] ELSE q

(* expire_input: the producer has been silent for too long.                *)
Expired(q) ==
    \/ q.state = "Buffering" /\ q.began >= FirstAudio
    \/ q.state = "Playing" /\ q.len = 0 /\ q.last # None /\ q.last >= GapLimit
Expire(q) == IF Expired(q) THEN Fail(q) ELSE q

(* advance: the last frame of a closing turn has been heard to its end.    *)
Drained(q) == q.state \in Closing /\ q.len = 0 /\ (q.last = None \/ q.last >= Step)
Advance(q) ==
    IF Drained(q)
    THEN [q EXCEPT !.next = None,
                   !.state = IF q.state = "Stopping" THEN "Stopped" ELSE "Completed"]
    ELSE q

(* TurnQueue::deadline: a frame to send, or the end of the last one.       *)
QueueDeadline(q) ==
    IF q.len > 0 THEN q.next
    ELSE IF q.state \in Closing /\ q.last # None THEN Step - q.last
    ELSE None

(* Mutant: nobody loses patience with the producer.                        *)
DeadlineOfFrames(q) == QueueDeadline(q)

(* deadline of worker_pcm: also the patience with the producer.            *)
Deadline(q) ==
    IF QueueDeadline(q) # None THEN QueueDeadline(q)
    ELSE IF q.state = "Buffering" THEN FirstAudio - q.began
    ELSE IF q.state = "Playing" /\ q.last # None THEN GapLimit - q.last
    ELSE None

(* next_local_audio_at: no frame starts before the last one is over.       *)
NextAudio == IF audioAt = None THEN 0 ELSE Later(0, audioAt + Step)

(* Mutant: the first frame is due at once, whatever was sent before.       *)
NoAlign(before, q) == q

(* align_deadline, for a queue that had no deadline before the command.    *)
Align(before, q) ==
    IF QueueDeadline(before) = None /\ q.len > 0 /\ q.next # None
    THEN [q EXCEPT !.next = Later(@, NextAudio)]
    ELSE q

(* push: filling the prebuffer, or resuming after a gap, plans a frame.    *)
Pushed(q, n) ==
    LET more == [q EXCEPT !.len = @ + n, !.accepted = @ + n]
    IN IF q.state = "Buffering" /\ more.len >= Prebuffer
       THEN [more EXCEPT !.state = "Playing", !.next = 0]
       ELSE IF q.state = "Playing" /\ q.len = 0
       THEN [more EXCEPT !.next = IF @ = None THEN 0 ELSE Later(@, 0)]
       ELSE more

(* end: what is queued is played out, even short of the prebuffer.         *)
Closed(q) ==
    Advance([q EXCEPT !.state = "Draining",
                      !.next = IF q.len > 0 /\ q.state = "Buffering" THEN 0 ELSE @])

(* interrupt: keep at most f frames as a fade; a running fade can only be  *)
(* cut to nothing.                                                         *)
Interrupted(q, f) ==
    LET n == IF q.len < f THEN q.len ELSE f
    IN IF ~Active(q) \/ (q.state = "Stopping" /\ f # 0) THEN q
       ELSE IF n = 0 THEN [Keep(q, 0) EXCEPT !.state = "Stopped", !.next = None]
       ELSE [Keep(q, n) EXCEPT !.state = "Stopping", !.next = IF @ = None THEN 0 ELSE @]

(* accepted: the plan advances by one frame, however late this one was.    *)
Accepted(q) ==
    [q EXCEPT !.len = @ - 1, !.sent = @ + 1, !.last = 0, !.next = @ + Step]

Late(q) == q.len > 0 /\ q.next # None /\ -q.next >= Step

-----------------------------------------------------------------------------
(* The commands of the controller and the pushes of the producer.          *)

(* The turn becomes q and its timer is armed for it.                       *)
Becomes(q) == turn' = q /\ timer' = Deadline(q)

(* Mutant: a new turn waits for its first push without a timer.            *)
BeginUntimed(t) ==
    /\ t > turn.id /\ play = "off"
    /\ turn' = Fresh(t) /\ timer' = None
    /\ UNCHANGED <<audioAt, playVars>>

Begin(t) ==
    /\ t > turn.id /\ play = "off"
    /\ Becomes(Fresh(t))
    /\ UNCHANGED <<audioAt, playVars>>

(* pcm_begin of the turn that is already there, and pcm_status.            *)
BeginAgain ==
    /\ turn.id > 0
    /\ Becomes(Advance(Expire(turn)))
    /\ UNCHANGED <<audioAt, playVars>>

Status ==
    /\ turn.id > 0
    /\ Becomes(Expire(Advance(turn)))
    /\ UNCHANGED <<audioAt, playVars>>

Push(n) ==
    /\ turn.state \in Open /\ ~Expired(turn)
    /\ turn.len + n <= Buffer /\ turn.accepted + n <= MaxAccepted
    /\ Becomes(Align(turn, Pushed(turn, n)))
    /\ UNCHANGED <<audioAt, playVars>>

End ==
    /\ turn.state \in Open /\ ~Expired(turn)
    /\ Becomes(Align(turn, Closed(turn)))
    /\ UNCHANGED <<audioAt, playVars>>

(* A push or an end that comes too late is refused: it fails the turn and  *)
(* returns without arming the timer.                                       *)
TooLate ==
    /\ Expired(turn)
    /\ turn' = Fail(turn)
    /\ UNCHANGED <<timer, audioAt, playVars>>

Interrupt(f) ==
    LET q1 == Expire(turn)
        q2 == IF Late(q1) THEN Fail(q1) ELSE q1
        q3 == Interrupted(q2, f)
    IN /\ turn.id > 0
       /\ Becomes(IF q2.state = "Stopping" THEN q3 ELSE Align(q1, q3))
       /\ UNCHANGED <<audioAt, playVars>>

-----------------------------------------------------------------------------
(* advance_pcm: the timer of the session is due.                           *)

Due == timer # None /\ timer <= 0
Front(q) == q.len > 0 /\ q.next # None
Overlaps(at) == audioAt # None /\ at < audioAt + Step

(* The timer found no frame to send, or one that is not due or too late.   *)
DueNothing ==
    LET q == Advance(turn)
    IN /\ Due
       /\ q.state # "Buffering" /\ Front(q) => q.next > 0 \/ Late(q)
       /\ Becomes(IF Expired(q) \/ (q.state # "Buffering" /\ Late(q)) THEN Fail(q) ELSE q)
       /\ UNCHANGED <<audioAt, playVars>>

(* A frame is encoded, which fixes its place on the RTP timeline, and sent.*)
(* The socket may refuse it, and the send may return too late.             *)
DueFrame(outcome) ==
    LET q == Advance(turn)
    IN /\ Due
       /\ q.state # "Buffering" /\ Front(q) /\ q.next <= 0 /\ ~Late(q)
       /\ IF Overlaps(q.next)
          THEN outcome = "refused" /\ Becomes(Fail(q)) /\ UNCHANGED audioAt
          ELSE /\ audioAt' = q.next
               /\ Becomes(CASE outcome = "sent" -> Accepted(q)
                            [] outcome = "sentLate" -> Fail(Accepted(q))
                            [] outcome = "refused" -> Fail(q))
       /\ UNCHANGED playVars

Outcomes == {"sent", "sentLate", "refused"}

-----------------------------------------------------------------------------
(* The prompt player.                                                      *)

Starts == play' = "running" /\ playNext' = NextAudio /\ playLeft' = PlayFrames
Stops == play' = "off" /\ playNext' = None /\ playLeft' = 0

(* A tone starts at once; a file is loaded first.                          *)
PlayTone == play = "off" /\ ~Active(turn) /\ Starts /\ UNCHANGED <<turn, timer, audioAt>>

PlayFile ==
    /\ play = "off" /\ ~Active(turn)
    /\ play' = "loading"
    /\ UNCHANGED <<turn, timer, audioAt, playNext, playLeft>>

Loaded == play = "loading" /\ Starts /\ UNCHANGED <<turn, timer, audioAt>>

(* PlaybackStop, or a file that could not be loaded in time.               *)
PlayStop == play # "off" /\ Stops /\ UNCHANGED <<turn, timer, audioAt>>

PlayFrame(outcome) ==
    /\ play = "running" /\ playNext <= 0
    /\ IF playLeft = 0 \/ -playNext >= Step \/ Overlaps(playNext)
       THEN outcome = "refused" /\ Stops /\ UNCHANGED audioAt
       ELSE /\ audioAt' = playNext
            /\ \/ /\ outcome = "sent"
                  /\ playNext' = playNext + Step /\ playLeft' = playLeft - 1
                  /\ UNCHANGED play
               \/ outcome = "refused" /\ Stops
    /\ UNCHANGED <<turn, timer>>

-----------------------------------------------------------------------------
Less(t) == IF t = None \/ t <= -(Step + MaxLate) THEN t ELSE t - 1
More(age, limit) == IF age = None \/ age >= limit + MaxLate THEN age ELSE age + 1

(* Time passes.  An instant far enough back, or an age past its limit, is  *)
(* not counted further, and the ages of a turn that is over are not read.  *)
Tick ==
    /\ timer # None => timer > -MaxLate
    /\ play = "running" => playNext > -MaxLate
    /\ turn' = IF Active(turn)
               THEN [turn EXCEPT !.next = Less(@), !.began = More(@, FirstAudio),
                                 !.last = More(@, GapLimit)]
               ELSE turn
    /\ timer' = Less(timer) /\ audioAt' = Less(audioAt)
    /\ playNext' = IF play = "running" THEN playNext - 1 ELSE playNext
    /\ UNCHANGED <<play, playLeft>>

Next ==
    \/ \E t \in 1..MaxTurn : Begin(t)
    \/ BeginAgain \/ Status \/ End \/ TooLate
    \/ \E n \in 1..Buffer : Push(n)
    \/ \E f \in 0..2 : Interrupt(f)
    \/ DueNothing
    \/ \E o \in Outcomes : DueFrame(o)
    \/ PlayTone \/ PlayFile \/ Loaded \/ PlayStop
    \/ \E o \in {"sent", "refused"} : PlayFrame(o)
    \/ Tick

Spec == Init /\ [][Next]_vars

(* The event loop reaches every due timer, and time goes on.               *)
FairSpec ==
    /\ Spec
    /\ WF_vars(Tick)
    /\ WF_vars(DueNothing \/ \E o \in Outcomes : DueFrame(o))
    /\ WF_vars(\E o \in {"sent", "refused"} : PlayFrame(o))

-----------------------------------------------------------------------------
MaybeInt == Int \cup {None}
Turns == [id : Nat, state : States, len : Nat, accepted : Nat, sent : Nat,
          discarded : Nat, next : MaybeInt, last : Nat \cup {None}, began : Nat]

TypeOK ==
    /\ turn \in Turns /\ timer \in MaybeInt /\ audioAt \in MaybeInt
    /\ play \in {"off", "loading", "running"}
    /\ playNext \in MaybeInt /\ playLeft \in Nat
    /\ play = "running" => playNext \in Int

(* Every frame the producer was told is accepted is sent, queued or        *)
(* counted as discarded, in every state (pcm_turn.rs:69).                  *)
Accounted ==
    /\ turn.accepted = turn.sent + turn.len + turn.discarded
    /\ turn.len <= Buffer /\ (turn.len > 0 => Active(turn))

(* A turn that is not over has its timer armed, at the moment at which it  *)
(* next has something to do: a frame to send, the end of the last one, or  *)
(* the end of its patience with the producer.  Otherwise nothing in the    *)
(* event loop would ever end it and it would keep leg A for ever.          *)
TimerArmed ==
    Active(turn) => timer # None /\ timer = Deadline(turn)

(* The frames of successive turns and prompts never overlap on the RTP     *)
(* timeline: whatever was replaced, interrupted, resumed after a gap or    *)
(* sent late, the next frame is planned after the last one is over, so     *)
(* encode_local_pcm never refuses a frame for overlapping.                 *)
NoOverlap ==
    audioAt # None =>
        /\ Active(turn) /\ Front(turn) => turn.next >= audioAt + Step
        /\ play = "running" => playNext >= audioAt + Step

(* One source at a time has leg A.                                         *)
OneSource == play # "off" => ~Active(turn)

(* A turn always ends, even if its producer never says another word.       *)
TurnEnds == Active(turn) ~> ~Active(turn)
=============================================================================
