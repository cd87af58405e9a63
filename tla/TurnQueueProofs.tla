--------------------------- MODULE TurnQueueProofs ---------------------------
(***************************************************************************)
(* What TurnQueue promises of every state, proved for every frame length,  *)
(* timeout, buffer, prompt and lateness.  The timer and the timeline hold  *)
(* each other up: NoOverlap survives a late loop only because the timer of *)
(* the turn is the plan of its next frame, and the timer is armed only     *)
(* because a queue with frames always has a plan.  Sound is that last fact.*)
(***************************************************************************)
EXTENDS TurnQueue, TLAPS

(* A queue that waits for its prebuffer has no plan and nothing sent; past *)
(* it, a queue with frames has a plan, and one without has sent a frame.   *)
Planned(q) ==
    /\ q.state = "Buffering" => q.next = None /\ q.last = None
    /\ q.state \in {"Playing"} \cup Closing /\ q.len > 0 => q.next # None
    /\ q.state \in {"Playing"} \cup Closing /\ q.len = 0 => q.last # None

Counted(q) ==
    /\ q.accepted = q.sent + q.len + q.discarded
    /\ q.len <= Buffer /\ (q.len > 0 => Active(q))

Sound(q) == q \in Turns /\ Planned(q) /\ Counted(q)

PlayOK ==
    /\ play \in {"off", "loading", "running"}
    /\ playNext \in MaybeInt /\ playLeft \in Nat
    /\ play = "running" => playNext \in Int

IInv ==
    /\ Sound(turn) /\ timer \in MaybeInt /\ audioAt \in MaybeInt /\ PlayOK
    /\ TimerArmed /\ NoOverlap /\ OneSource

-----------------------------------------------------------------------------
(* The helpers keep a queue sound.                                         *)

(* Failing a turn leaves it sound and over.                                *)
LEMMA FailSound ==
    ASSUME NEW q, Sound(q)
    PROVE  Sound(Fail(q)) /\ ~Active(Fail(q))
<1>. DEFINE f == [q EXCEPT !.len = 0, !.discarded = q.discarded + q.len, !.next = None,
                          !.state = "Failed"]
<1>1. CASE ~Active(q)
  BY <1>1 DEF Fail
<1>2. CASE Active(q)
  <2>. q.discarded \in Nat /\ q.len \in Nat
    BY DEF Sound, Turns
  <2>0. q.discarded + q.len \in Nat /\ q.discarded + q.len - 0 = q.discarded + q.len
    OBVIOUS
  <2>1. Fail(q) = f
    BY <1>2, <2>0 DEF Fail, Keep
  <2>2. f \in Turns
    BY <2>0 DEF Sound, Turns, States, Ended, MaybeInt
  <2>3. /\ f.state = "Failed" /\ f.len = 0 /\ f.accepted = q.accepted /\ f.sent = q.sent
        /\ f.discarded = q.discarded + q.len
    BY DEF Sound, Turns
  <2>4. Counted(f)
    BY <2>3, TurnAssumption DEF Sound, Turns, Counted
  <2>. QED
    BY <2>1, <2>2, <2>3, <2>4 DEF Sound, Planned, Active, Open, Closing
<1>. QED
  BY <1>1, <1>2

(* Losing patience leaves the queue as it is or ends its turn.             *)
LEMMA ExpireSound ==
    ASSUME NEW q, Sound(q)
    PROVE  Sound(Expire(q)) /\ (Expire(q) = q \/ ~Active(Expire(q)))
BY FailSound DEF Expire

(* So does hearing out the last frame of a closing turn.                   *)
LEMMA AdvanceSound ==
    ASSUME NEW q, Sound(q)
    PROVE  Sound(Advance(q)) /\ (Advance(q) = q \/ ~Active(Advance(q)))
<1>. DEFINE over == IF q.state = "Stopping" THEN "Stopped" ELSE "Completed"
            a == [q EXCEPT !.next = None, !.state = over]
<1>1. CASE ~Drained(q)
  BY <1>1 DEF Advance
<1>2. CASE Drained(q)
  <2>1. Advance(q) = a
    BY <1>2 DEF Advance
  <2>2. a \in Turns
    BY DEF Sound, Turns, States, Ended, MaybeInt
  <2>3. /\ a.state \in {"Stopped", "Completed"} /\ a.len = q.len /\ a.accepted = q.accepted
        /\ a.sent = q.sent /\ a.discarded = q.discarded
    BY DEF Sound, Turns
  <2>4. Counted(a)
    BY <1>2, <2>3 DEF Sound, Turns, Counted, Drained
  <2>. QED
    BY <2>1, <2>2, <2>3, <2>4 DEF Sound, Planned, Active, Open, Closing
<1>. QED
  BY <1>1, <1>2

(* A sound turn that is not over has something to wait for.                *)
LEMMA DeadlineArmed ==
    ASSUME NEW q, Sound(q)
    PROVE  /\ Deadline(q) \in MaybeInt
           /\ Active(q) => Deadline(q) # None
           /\ Front(q) => Deadline(q) = q.next
BY TurnAssumption
DEF Sound, Deadline, QueueDeadline, Planned, Counted, Active, Front, Turns, States, Open,
    Closing, Ended, MaybeInt

-----------------------------------------------------------------------------
(* The commands keep a queue sound, and those that may plan a first frame  *)
(* plan it after the last one that was encoded.                            *)

(* The next frame of a queue, if it has one, is planned after the last.    *)
InLine(q) == audioAt # None /\ Active(q) /\ Front(q) => q.next >= audioAt + Step

(* Aligning a queue changes nothing but its plan.                          *)
LEMMA AlignSound ==
    ASSUME NEW b, NEW q, Sound(q), audioAt \in MaybeInt
    PROVE  Sound(Align(b, q)) /\ (~Active(q) => ~Active(Align(b, q)))
<1>. DEFINE at == Later(q.next, NextAudio)
            a == [q EXCEPT !.next = at]
<1>1. CASE Align(b, q) = q
  BY <1>1
<1>2. CASE Align(b, q) = a /\ q.next # None
  <2>1. at \in Int /\ at # None
    BY <1>2, TurnAssumption DEF Later, NextAudio, Sound, Turns, MaybeInt
  <2>2. a \in Turns /\ a.state = q.state /\ a.len = q.len /\ a.accepted = q.accepted
        /\ a.sent = q.sent /\ a.discarded = q.discarded /\ a.last = q.last /\ a.next = at
    BY <2>1 DEF Sound, Turns, MaybeInt
  <2>. QED
    BY <1>2, <2>1, <2>2 DEF Sound, Planned, Counted, Active, Closing
<1>. QED
  BY <1>1, <1>2 DEF Align

(* A queue that is aligned is in line if it was, or had nothing to send.   *)
LEMMA AlignInLine ==
    ASSUME NEW b, NEW q, Sound(b), Sound(q), audioAt \in MaybeInt, InLine(b),
           QueueDeadline(b) = None \/ (Active(b) /\ Front(b) /\ q.next = b.next) \/ q.len = 0
    PROVE  InLine(Align(b, q))
<1>1. CASE QueueDeadline(b) = None /\ Front(q)
  <2>1. Align(b, q).next = Later(q.next, NextAudio)
    BY <1>1 DEF Align, Front, Sound, Turns
  <2>. QED
    BY <1>1, <2>1, TurnAssumption DEF InLine, Later, NextAudio, Front, Sound, Turns, MaybeInt
<1>2. CASE ~Front(q)
  BY <1>2 DEF Align, InLine, Front
<1>3. CASE QueueDeadline(b) # None /\ Front(q)
  BY <1>3 DEF Align, InLine, Front
<1>. QED
  BY <1>1, <1>2, <1>3

(* A push that fits keeps the queue sound.                                 *)
LEMMA PushSound ==
    ASSUME NEW q, NEW n \in Nat \ {0}, Sound(q), q.state \in Open, q.len + n <= Buffer
    PROVE  Sound(Pushed(q, n))
<1>. DEFINE more == [q EXCEPT !.len = q.len + n, !.accepted = q.accepted + n]
            first == [more EXCEPT !.state = "Playing", !.next = 0]
            again == [more EXCEPT !.next = IF more.next = None THEN 0 ELSE Later(more.next, 0)]
<1>1. q.len \in Nat /\ q.accepted \in Nat /\ q.sent \in Nat /\ q.discarded \in Nat
      /\ q.next \in MaybeInt
  BY DEF Sound, Turns
<1>2. more \in Turns
  <2>1. q.len + n \in Nat /\ q.accepted + n \in Nat
    BY <1>1
  <2>. QED
    BY <2>1 DEF Sound, Turns
<1>3. more.len = q.len + n /\ more.accepted = q.accepted + n /\ more.sent = q.sent
      /\ more.discarded = q.discarded /\ more.state = q.state /\ more.last = q.last
      /\ more.next = q.next
  BY DEF Sound, Turns
<1>4. Counted(more)
  BY <1>1, <1>3 DEF Sound, Counted, Active
<1>5. Sound(first)
  <2>1. first \in Turns
    <3>1. 0 \in MaybeInt /\ "Playing" \in States
      BY DEF States, Open, MaybeInt
    <3>. HIDE DEF more
    <3>. QED
      BY <1>2, <3>1 DEF Turns
  <2>2. first.state = "Playing" /\ first.next = 0 /\ first.len = more.len
        /\ first.accepted = more.accepted /\ first.sent = more.sent
        /\ first.discarded = more.discarded
    BY <1>2 DEF Turns
  <2>. QED
    BY <1>1, <1>3, <1>4, <2>1, <2>2, TurnAssumption
    DEF Sound, Planned, Counted, Active, Open, Closing
<1>6. ASSUME q.state = "Playing" PROVE Sound(again)
  <2>1. /\ (IF more.next = None THEN 0 ELSE Later(more.next, 0)) \in Int
        /\ (IF more.next = None THEN 0 ELSE Later(more.next, 0)) # None
    BY <1>1, <1>3, TurnAssumption DEF Later, MaybeInt
  <2>2. again \in Turns
    BY <1>2, <2>1 DEF Turns, MaybeInt
  <2>3. again.state = "Playing" /\ again.next # None /\ again.len = more.len
        /\ again.accepted = more.accepted /\ again.sent = more.sent
        /\ again.discarded = more.discarded
    BY <1>2, <1>3, <1>6, <2>1 DEF Turns
  <2>. QED
    BY <1>1, <1>3, <1>4, <2>2, <2>3 DEF Sound, Planned, Counted, Active, Open, Closing
<1>7. ASSUME q.state = "Buffering" \/ q.len # 0 PROVE Sound(more)
  BY <1>1, <1>2, <1>3, <1>4, <1>7 DEF Sound, Planned, Open, Closing
<1>. QED
  BY <1>3, <1>5, <1>6, <1>7 DEF Pushed, Open

(* Closing a turn keeps the queue sound.                                   *)
LEMMA CloseSound ==
    ASSUME NEW q, Sound(q), q.state \in Open
    PROVE  Sound(Closed(q)) /\ (Closed(q).len = q.len)
<1>. DEFINE at == IF q.len > 0 /\ q.state = "Buffering" THEN 0 ELSE q.next
            d == [q EXCEPT !.state = "Draining", !.next = at]
<1>1. at \in MaybeInt
  BY DEF Sound, Turns, MaybeInt
<1>2. d \in Turns
  BY <1>1 DEF Sound, Turns, States, Closing
<1>3. d.state = "Draining" /\ d.next = at /\ d.len = q.len /\ d.last = q.last
      /\ d.accepted = q.accepted /\ d.sent = q.sent /\ d.discarded = q.discarded
  BY DEF Sound, Turns
<1>4. Counted(d)
  BY <1>3 DEF Sound, Counted, Active, Closing
<1>5. Closed(q) = Advance(d)
  BY DEF Closed
<1>6. CASE d.len = 0 /\ d.last = None
  <2>. DEFINE a == [d EXCEPT !.next = None, !.state = "Completed"]
  <2>1. Advance(d) = a
    BY <1>3, <1>6 DEF Advance, Drained, Closing
  <2>2. a \in Turns /\ a.state = "Completed" /\ a.len = d.len /\ a.accepted = d.accepted
        /\ a.sent = d.sent /\ a.discarded = d.discarded
    BY <1>2 DEF Turns, States, Ended, MaybeInt
  <2>3. Counted(a)
    BY <1>3, <1>4, <1>6, <2>2 DEF Counted
  <2>4. Planned(a)
    BY <2>2 DEF Planned, Closing
  <2>. HIDE DEF a, d
  <2>. QED
    BY <1>3, <1>5, <2>1, <2>2, <2>3, <2>4 DEF Sound
<1>7. CASE ~(d.len = 0 /\ d.last = None)
  <2>1. Planned(d)
    BY <1>3, <1>7, TurnAssumption DEF Sound, Planned, Turns, Open, Closing
  <2>2. Sound(d) /\ Sound(Advance(d))
    BY <1>2, <1>4, <2>1, AdvanceSound DEF Sound
  <2>3. Advance(d).len = d.len
    BY <1>2 DEF Advance, Turns
  <2>. QED
    BY <1>3, <1>5, <2>2, <2>3
<1>. QED
  BY <1>6, <1>7
(* An interrupt keeps the queue sound, and never moves the plan of a queue *)
(* that goes on.                                                           *)
LEMMA InterruptSound ==
    ASSUME NEW q, NEW f \in Nat, Sound(q)
    PROVE  /\ Sound(Interrupted(q, f))
           /\ ~Active(q) => Interrupted(q, f) = q
           /\ q.state = "Stopping" =>
                  Interrupted(q, f) = q \/ ~Active(Interrupted(q, f))
           /\ q.len > 0 \/ Interrupted(q, f).len = 0
           /\ q.next # None => Interrupted(q, f).next = q.next \/ Interrupted(q, f).len = 0
<1>. DEFINE n == IF q.len < f THEN q.len ELSE f
            k == [q EXCEPT !.len = n, !.discarded = q.discarded + q.len - n]
            at == IF k.next = None THEN 0 ELSE k.next
            stop == [k EXCEPT !.state = "Stopped", !.next = None]
            fade == [k EXCEPT !.state = "Stopping", !.next = at]
<1>1. q.len \in Nat /\ q.discarded \in Nat /\ q.accepted \in Nat /\ q.sent \in Nat
      /\ q.next \in MaybeInt
  BY DEF Sound, Turns
<1>2. n \in Nat /\ n <= q.len /\ n <= f /\ q.discarded + q.len - n \in Nat
  BY <1>1
<1>3. k \in Turns /\ k.len = n /\ k.discarded = q.discarded + q.len - n
      /\ k.accepted = q.accepted /\ k.sent = q.sent /\ k.next = q.next /\ k.state = q.state
      /\ k.last = q.last
  <2>. HIDE DEF n
  <2>. QED
    BY <1>2 DEF Sound, Turns
<1>4. Keep(q, n) = k
  BY DEF Keep
<1>5. at \in MaybeInt /\ at # None
  BY <1>1, <1>3, TurnAssumption DEF MaybeInt
<1>6. stop \in Turns /\ stop.state = "Stopped" /\ stop.len = n /\ stop.accepted = q.accepted
      /\ stop.sent = q.sent /\ stop.discarded = q.discarded + q.len - n
  <2>1. None \in MaybeInt /\ "Stopped" \in States
    BY DEF States, Ended, MaybeInt
  <2>. HIDE DEF n, k
  <2>. QED
    BY <1>3, <2>1 DEF Turns
<1>7. fade \in Turns /\ fade.state = "Stopping" /\ fade.len = n /\ fade.accepted = q.accepted
      /\ fade.sent = q.sent /\ fade.discarded = q.discarded + q.len - n /\ fade.next = at
  <2>1. "Stopping" \in States
    BY DEF States, Closing
  <2>. HIDE DEF n, k, at
  <2>. QED
    BY <1>3, <1>5, <2>1 DEF Turns
<1>8. \/ Interrupted(q, f) = q /\ (~Active(q) \/ q.state = "Stopping")
      \/ Interrupted(q, f) = stop /\ n = 0 /\ Active(q)
      \/ Interrupted(q, f) = fade /\ n # 0 /\ Active(q) /\ q.state # "Stopping"
  <2>1. CASE ~Active(q) \/ (q.state = "Stopping" /\ f # 0)
    BY <2>1 DEF Interrupted
  <2>2. CASE Active(q) /\ ~(q.state = "Stopping" /\ f # 0) /\ n = 0
    BY <1>4, <2>2 DEF Interrupted
  <2>3. CASE Active(q) /\ ~(q.state = "Stopping" /\ f # 0) /\ n # 0
    <3>1. Interrupted(q, f) = fade
      BY <1>4, <2>3 DEF Interrupted
    <3>. QED
      BY <1>1, <2>3, <3>1
  <2>. QED
    BY <2>1, <2>2, <2>3
<1>. HIDE DEF n, k, at, stop, fade
<1>9. CASE Interrupted(q, f) = q /\ (~Active(q) \/ q.state = "Stopping")
  BY <1>1, <1>9 DEF Sound, Counted
<1>10. CASE Interrupted(q, f) = stop /\ n = 0 /\ Active(q)
  <2>1. Sound(stop)
    BY <1>1, <1>6, <1>10, TurnAssumption DEF Sound, Planned, Counted, Closing
  <2>. QED
    BY <1>6, <1>10, <2>1 DEF Active, Open, Closing
<1>11. CASE Interrupted(q, f) = fade /\ n # 0 /\ Active(q) /\ q.state # "Stopping"
  <2>1. Counted(fade)
    BY <1>1, <1>2, <1>7, <1>11, TurnAssumption DEF Sound, Counted, Active, Closing
  <2>2. Sound(fade)
    BY <1>2, <1>5, <1>7, <1>11, <2>1 DEF Sound, Planned
  <2>3. q.next # None => fade.next = q.next
    BY <1>3, <1>7 DEF at
  <2>. QED
    BY <1>1, <1>2, <1>11, <2>2, <2>3
<1>. QED
  BY <1>8, <1>9, <1>10, <1>11

(* A frame that is sent leaves the queue sound, its plan one frame later.  *)
LEMMA AcceptSound ==
    ASSUME NEW q, Sound(q), q.state # "Buffering", Front(q)
    PROVE  /\ Sound(Accepted(q)) /\ q.next \in Int
           /\ Accepted(q).next = q.next + Step
<1>. DEFINE a == [q EXCEPT !.len = q.len - 1, !.sent = q.sent + 1, !.last = 0,
                          !.next = q.next + Step]
<1>1. q.len \in Nat /\ q.len > 0 /\ q.sent \in Nat /\ q.next \in Int /\ q.accepted \in Nat
      /\ q.discarded \in Nat /\ Step \in Nat
  BY TurnAssumption DEF Sound, Turns, Front, MaybeInt
<1>2. q.len - 1 \in Nat /\ q.sent + 1 \in Nat /\ q.next + Step \in MaybeInt
      /\ q.next + Step # None
  BY <1>1, TurnAssumption DEF MaybeInt
<1>3. a \in Turns /\ a.len = q.len - 1 /\ a.sent = q.sent + 1 /\ a.last = 0
      /\ a.next = q.next + Step /\ a.state = q.state /\ a.accepted = q.accepted
      /\ a.discarded = q.discarded
  BY <1>2 DEF Sound, Turns
<1>4. Counted(a)
  BY <1>1, <1>3, TurnAssumption DEF Sound, Counted, Active
<1>5. Planned(a)
  BY <1>2, <1>3, TurnAssumption DEF Planned
<1>. QED
  BY <1>1, <1>3, <1>4, <1>5 DEF Accepted, Sound
-----------------------------------------------------------------------------
(* The steps.                                                              *)

(* A command that leaves the timeline and the player alone, puts a sound   *)
(* queue in line in the place of the old one and arms its timer.           *)
LEMMA Replaced ==
    ASSUME IInv, NEW q, Sound(q), InLine(q), Active(q) => play = "off",
           Becomes(q), UNCHANGED <<audioAt, playVars>>
    PROVE  IInv'
<1>1. turn' = q /\ timer' = Deadline(q) /\ audioAt' = audioAt
      /\ UNCHANGED <<play, playNext, playLeft>>
  BY DEF Becomes, playVars
<1>2. Sound(turn)' /\ (timer \in MaybeInt)' /\ (audioAt \in MaybeInt)' /\ PlayOK'
  BY <1>1, DeadlineArmed DEF IInv, PlayOK, Sound, Turns, Planned, Counted, Active
<1>3. TimerArmed'
  BY <1>1, DeadlineArmed
  DEF TimerArmed, Active, Deadline, QueueDeadline
<1>4. NoOverlap'
  BY <1>1 DEF IInv, NoOverlap, InLine, Active, Front
<1>5. OneSource'
  BY <1>1 DEF OneSource, Active
<1>. QED
  BY <1>2, <1>3, <1>4, <1>5 DEF IInv

(* What IInv says of the turn that is there.                               *)
LEMMA InvTurn ==
    ASSUME IInv
    PROVE  Sound(turn) /\ InLine(turn) /\ (Active(turn) => play = "off")
           /\ audioAt \in MaybeInt /\ timer \in MaybeInt
BY DEF IInv, NoOverlap, InLine, OneSource, PlayOK

(* A queue that is over is always in line.                                 *)
LEMMA OverInLine ==
    ASSUME NEW q, ~Active(q)
    PROVE  InLine(q)
BY DEF InLine

(* The commands.                                                           *)
LEMMA CommandsKeep ==
    ASSUME IInv,
           \/ \E t \in 1..MaxTurn : Begin(t)
           \/ BeginAgain \/ Status \/ End \/ TooLate
           \/ \E n \in 1..Buffer : Push(n)
           \/ \E f \in 0..2 : Interrupt(f)
    PROVE  IInv'
<1>1. Sound(turn) /\ InLine(turn) /\ (Active(turn) => play = "off") /\ audioAt \in MaybeInt
  BY InvTurn
<1>2. ASSUME NEW t \in 1..MaxTurn, Begin(t) PROVE IInv'
  <2>1. Fresh(t) \in Turns
    BY <1>2 DEF Fresh, Turns, States, Open, MaybeInt
  <2>2. Sound(Fresh(t)) /\ InLine(Fresh(t))
    BY <2>1, TurnAssumption
    DEF Fresh, Sound, Planned, Counted, InLine, Front, Closing
  <2>. QED
    BY <1>2, <2>2, Replaced DEF Begin
<1>3. CASE BeginAgain
  <2>1. Sound(Advance(Expire(turn)))
        /\ (Advance(Expire(turn)) = turn \/ ~Active(Advance(Expire(turn))))
    BY <1>1, ExpireSound, AdvanceSound DEF Advance, Drained, Active, Open
  <2>2. InLine(Advance(Expire(turn)))
    BY <1>1, <2>1, OverInLine
  <2>. QED
    BY <1>1, <1>3, <2>1, <2>2, Replaced DEF BeginAgain
<1>4. CASE Status
  <2>1. Sound(Expire(Advance(turn)))
        /\ (Expire(Advance(turn)) = turn \/ ~Active(Expire(Advance(turn))))
    BY <1>1, ExpireSound, AdvanceSound DEF Expire, Expired, Fail, Active, Open
  <2>2. InLine(Expire(Advance(turn)))
    BY <1>1, <2>1, OverInLine
  <2>. QED
    BY <1>1, <1>4, <2>1, <2>2, Replaced DEF Status
<1>5. CASE End
  <2>1. Active(turn) /\ play = "off"
    BY <1>1, <1>5 DEF End, Active
  <2>2. Sound(Closed(turn)) /\ Closed(turn).len = turn.len
    BY <1>1, <1>5, CloseSound DEF End
  <2>3. QueueDeadline(turn) # None /\ turn.len > 0 =>
            Front(turn) /\ Closed(turn).next = turn.next
    <3>. SUFFICES ASSUME QueueDeadline(turn) # None, turn.len > 0
                  PROVE  Front(turn) /\ Closed(turn).next = turn.next
      OBVIOUS
    <3>. DEFINE d == [turn EXCEPT !.state = "Draining", !.next = turn.next]
    <3>1. turn.next # None /\ turn.state # "Buffering"
      BY <1>1 DEF QueueDeadline, Sound, Planned
    <3>2. Closed(turn) = Advance(d) /\ d.len = turn.len /\ d.next = turn.next
      BY <1>1, <3>1 DEF Closed, Sound, Turns
    <3>. QED
      BY <1>1, <3>1, <3>2 DEF Advance, Drained, Front, Sound, Turns
  <2>4. QueueDeadline(turn) # None => turn.len > 0
    BY <1>1, <1>5 DEF End, QueueDeadline, Sound, Turns, Open, Closing
  <2>5. InLine(Align(turn, Closed(turn)))
    BY <1>1, <2>1, <2>2, <2>3, <2>4, AlignInLine
  <2>. QED
    BY <1>1, <1>5, <2>1, <2>2, <2>5, AlignSound, Replaced DEF End
<1>6. CASE TooLate
  <2>1. Sound(Fail(turn)) /\ ~Active(Fail(turn)) /\ InLine(Fail(turn))
    BY <1>1, FailSound, OverInLine
  <2>2. turn' = Fail(turn) /\ UNCHANGED <<timer, audioAt, play, playNext, playLeft>>
    BY <1>6 DEF TooLate, playVars
  <2>3. ~Active(turn)'
    BY <2>1, <2>2 DEF Active
  <2>4. Sound(turn)'
    BY <2>1, <2>2 DEF Sound, Turns, Planned, Counted, Active
  <2>5. TimerArmed' /\ NoOverlap' /\ OneSource'
    BY <2>2, <2>3 DEF IInv, TimerArmed, NoOverlap, OneSource
  <2>. QED
    BY <2>2, <2>4, <2>5 DEF IInv, PlayOK
<1>7. ASSUME NEW n \in 1..Buffer, Push(n) PROVE IInv'
  <2>1. Active(turn) /\ play = "off"
    BY <1>1, <1>7 DEF Push, Active
  <2>2. Sound(Pushed(turn, n))
    BY <1>1, <1>7, PushSound DEF Push
  <2>3. QueueDeadline(turn) # None => Front(turn) /\ Pushed(turn, n).next = turn.next
    <3>. SUFFICES ASSUME QueueDeadline(turn) # None
                  PROVE  Front(turn) /\ Pushed(turn, n).next = turn.next
      OBVIOUS
    <3>. DEFINE more == [turn EXCEPT !.len = turn.len + n, !.accepted = turn.accepted + n]
    <3>1. turn.len > 0 /\ turn.next # None /\ turn.state # "Buffering"
      BY <1>1, <1>7 DEF Push, QueueDeadline, Sound, Planned, Turns, Open, Closing
    <3>2. Pushed(turn, n) = more
      BY <3>1 DEF Pushed
    <3>. QED
      BY <1>1, <3>1, <3>2 DEF Front, Sound, Turns
  <2>4. InLine(Align(turn, Pushed(turn, n)))
    BY <1>1, <2>1, <2>2, <2>3, AlignInLine
  <2>. QED
    BY <1>1, <1>7, <2>1, <2>2, <2>4, AlignSound, Replaced DEF Push
<1>8. ASSUME NEW f \in 0..2, Interrupt(f) PROVE IInv'
  <2>. DEFINE q1 == Expire(turn)
              q2 == IF Late(q1) THEN Fail(q1) ELSE q1
              q3 == Interrupted(q2, f)
  <2>1. Sound(q1) /\ (q1 = turn \/ ~Active(q1)) /\ InLine(q1)
    BY <1>1, ExpireSound, OverInLine
  <2>2. Sound(q2) /\ (q2 = q1 \/ ~Active(q2))
    BY <2>1, FailSound
  <2>. HIDE DEF q1, q2
  <2>3. /\ Sound(q3)
        /\ ~Active(q2) => q3 = q2
        /\ q2.state = "Stopping" => q3 = q2 \/ ~Active(q3)
        /\ q2.len > 0 \/ q3.len = 0
        /\ q2.next # None => q3.next = q2.next \/ q3.len = 0
    <3>1. f \in Nat
      OBVIOUS
    <3>. QED
      BY <2>2, <3>1, InterruptSound
  <2>. HIDE DEF q3
  <2>4. Becomes(IF q2.state = "Stopping" THEN q3 ELSE Align(q1, q3))
        /\ UNCHANGED <<audioAt, playVars>>
    BY <1>8 DEF Interrupt, q1, q2, q3
  <2>5. CASE q2.state = "Stopping"
    <3>1. q3 = turn \/ ~Active(q3)
      BY <2>1, <2>2, <2>3, <2>5
    <3>. QED
      BY <1>1, <2>3, <2>4, <2>5, <3>1, OverInLine, Replaced
  <2>6. CASE q2.state # "Stopping" /\ ~Active(q2)
    <3>1. ~Active(Align(q1, q3)) /\ Sound(Align(q1, q3))
      BY <1>1, <2>3, <2>6, AlignSound
    <3>. QED
      BY <2>4, <2>6, <3>1, OverInLine, Replaced
  <2>7. CASE q2.state # "Stopping" /\ Active(q2)
    <3>1. q2 = turn /\ q1 = turn /\ play = "off"
      BY <1>1, <2>1, <2>2, <2>7
    <3>2. QueueDeadline(q1) # None => (Active(q1) /\ Front(q1) /\ q3.next = q1.next) \/ q3.len = 0
      BY <2>1, <2>3, <2>7, <3>1 DEF QueueDeadline, Front, Sound, Turns
    <3>3. InLine(Align(q1, q3)) /\ Sound(Align(q1, q3))
      BY <1>1, <2>1, <2>3, <3>2, AlignInLine, AlignSound
    <3>. QED
      BY <2>4, <2>7, <3>1, <3>3, Replaced
  <2>. QED
    BY <2>5, <2>6, <2>7
<1>. QED
  BY <1>2, <1>3, <1>4, <1>5, <1>6, <1>7, <1>8
(* The timer of the turn.                                                  *)
LEMMA TimersKeep ==
    ASSUME IInv, DueNothing \/ \E o \in Outcomes : DueFrame(o)
    PROVE  IInv'
<1>. DEFINE q == Advance(turn)
<1>1. Sound(turn) /\ InLine(turn) /\ (Active(turn) => play = "off") /\ audioAt \in MaybeInt
  BY InvTurn
<1>2. Sound(q) /\ InLine(q) /\ (q = turn \/ ~Active(q)) /\ (Active(q) => play = "off")
  BY <1>1, AdvanceSound, OverInLine
<1>3. Sound(Fail(q)) /\ ~Active(Fail(q)) /\ InLine(Fail(q))
  BY <1>2, FailSound, OverInLine
<1>4. ASSUME DueNothing PROVE IInv'
  <2>. HIDE DEF q
  <2>1. (Becomes(q) \/ Becomes(Fail(q))) /\ UNCHANGED <<audioAt, playVars>>
    BY <1>4 DEF DueNothing, q
  <2>. QED
    BY <1>2, <1>3, <2>1, Replaced
<1>5. ASSUME NEW o \in Outcomes, DueFrame(o) PROVE IInv'
  <2>1. q.state # "Buffering" /\ Front(q) /\ UNCHANGED playVars
        /\ \/ Becomes(Fail(q)) /\ UNCHANGED audioAt
           \/ /\ audioAt' = q.next
              /\ \/ Becomes(Accepted(q)) \/ Becomes(Fail(Accepted(q))) \/ Becomes(Fail(q))
    BY <1>5 DEF DueFrame, Outcomes
  <2>2. q.next \in Int /\ Sound(Accepted(q)) /\ Accepted(q).next = q.next + Step
        /\ Sound(Fail(Accepted(q))) /\ ~Active(Fail(Accepted(q)))
    BY <1>2, <2>1, AcceptSound, FailSound
  <2>3. play = "off" /\ Active(q)
    BY <1>2, <2>1 DEF Front, Sound, Counted
  <2>4. CASE UNCHANGED audioAt
    <3>1. CASE Becomes(Fail(q))
      BY <1>3, <2>1, <2>4, <3>1, Replaced
    <3>2. CASE ~Becomes(Fail(q)) /\ audioAt' = q.next
      <4>1. FALSE
        BY <1>2, <2>1, <2>3, <2>4, <3>2, TurnAssumption DEF InLine, Sound, Turns, MaybeInt, Front
      <4>. QED
        BY <4>1
    <3>. QED
      BY <2>1, <3>1, <3>2
  <2>5. CASE audioAt' = q.next
    <3>. HIDE DEF q
    <3>1. PICK r : /\ Sound(r) /\ Becomes(r)
                   /\ ~Active(r) \/ r.next = q.next + Step
      <4>1. CASE Becomes(Accepted(q))
        BY <2>2, <4>1
      <4>2. CASE Becomes(Fail(Accepted(q)))
        BY <2>2, <4>2
      <4>3. CASE Becomes(Fail(q))
        BY <1>3, <4>3
      <4>. QED
        BY <2>1, <4>1, <4>2, <4>3
    <3>2. turn' = r /\ timer' = Deadline(r) /\ UNCHANGED <<play, playNext, playLeft>>
      BY <2>1, <3>1 DEF Becomes, playVars
    <3>3. Sound(turn)' /\ (timer \in MaybeInt)' /\ (audioAt \in MaybeInt)' /\ PlayOK'
      BY <2>2, <2>5, <3>1, <3>2, DeadlineArmed
      DEF IInv, PlayOK, Sound, Turns, Planned, Counted, Active, MaybeInt
    <3>4. TimerArmed'
      BY <3>1, <3>2, DeadlineArmed DEF TimerArmed, Active, Deadline, QueueDeadline
    <3>5. NoOverlap'
      BY <2>2, <2>3, <2>5, <3>1, <3>2, TurnAssumption DEF NoOverlap, Active, Front
    <3>6. OneSource'
      BY <2>3, <3>2 DEF OneSource
    <3>. QED
      BY <3>3, <3>4, <3>5, <3>6 DEF IInv
  <2>. QED
    BY <2>1, <2>4, <2>5
<1>. QED
  BY <1>4, <1>5

(* The prompt player.                                                      *)
LEMMA PlayerKeeps ==
    ASSUME IInv,
           \/ PlayTone \/ PlayFile \/ Loaded \/ PlayStop
           \/ \E o \in {"sent", "refused"} : PlayFrame(o)
    PROVE  IInv'
<1>1. Sound(turn) /\ audioAt \in MaybeInt /\ timer \in MaybeInt /\ (play # "off" => ~Active(turn))
      /\ PlayOK /\ TimerArmed
  BY DEF IInv, OneSource
<1>2. turn' = turn /\ timer' = timer /\ (~Active(turn) \/ play' = "off")
  BY <1>1 DEF PlayTone, PlayFile, Loaded, PlayStop, PlayFrame, Stops
<1>3. Sound(turn)' /\ (timer \in MaybeInt)' /\ TimerArmed' /\ OneSource'
  BY <1>1, <1>2
  DEF Sound, Turns, Planned, Counted, TimerArmed, OneSource, Active, Deadline, QueueDeadline
<1>4. PlayOK' /\ (audioAt \in MaybeInt)' /\ NoOverlap'
  <2>1. NextAudio \in Int /\ (audioAt # None => NextAudio >= audioAt + Step)
    BY <1>1, TurnAssumption DEF NextAudio, Later, MaybeInt
  <2>2. CASE Starts /\ UNCHANGED <<turn, audioAt>> /\ ~Active(turn)
    BY <1>1, <2>1, <2>2, TurnAssumption DEF Starts, PlayOK, NoOverlap, MaybeInt, Active
  <2>3. CASE Stops /\ UNCHANGED <<turn, audioAt>>
    BY <1>1, <2>3 DEF Stops, PlayOK, NoOverlap, MaybeInt, IInv, Active, Front
  <2>4. CASE PlayFile
    BY <1>1, <2>4 DEF PlayFile, PlayOK, NoOverlap, MaybeInt, IInv, Active, Front
  <2>5. CASE \E o \in {"sent", "refused"} : PlayFrame(o)
    <3>1. playNext \in Int /\ play = "running" /\ ~Active(turn) /\ turn' = turn
          /\ playLeft \in Nat
      BY <1>1, <2>5 DEF PlayFrame, PlayOK
    <3>2. CASE Stops /\ (audioAt' = audioAt \/ audioAt' = playNext)
      BY <1>1, <3>1, <3>2 DEF Stops, PlayOK, NoOverlap, MaybeInt, Active
    <3>3. CASE /\ audioAt' = playNext /\ playNext' = playNext + Step /\ playLeft # 0
               /\ playLeft' = playLeft - 1 /\ play' = play
      BY <1>1, <3>1, <3>3, TurnAssumption DEF PlayOK, NoOverlap, MaybeInt, Active
    <3>. QED
      BY <2>5, <3>1, <3>2, <3>3 DEF PlayFrame
  <2>. QED
    BY <1>1, <2>2, <2>3, <2>4, <2>5 DEF PlayTone, PlayFile, Loaded, PlayStop
<1>. QED
  BY <1>3, <1>4 DEF IInv

(* Time passes.  The guard on the timer is the lateness the loop allows;   *)
(* as the timer is the plan, no plan falls behind the counted past.        *)
LEMMA TickKeeps == ASSUME IInv, Tick PROVE IInv'
<1>1. Sound(turn) /\ audioAt \in MaybeInt /\ timer \in MaybeInt /\ PlayOK
  BY DEF IInv
<1>2. /\ timer # None => timer > -MaxLate
      /\ play = "running" => playNext > -MaxLate
      /\ timer' = Less(timer) /\ audioAt' = Less(audioAt)
      /\ playNext' = IF play = "running" THEN playNext - 1 ELSE playNext
      /\ play' = play /\ playLeft' = playLeft
  BY DEF Tick
<1>3. timer' \in MaybeInt /\ audioAt' \in MaybeInt /\ PlayOK' /\ (audioAt' = None <=> audioAt = None)
  BY <1>1, <1>2, TurnAssumption DEF Less, MaybeInt, PlayOK
<1>4. play = "running" => NoOverlap'
  <2>. SUFFICES ASSUME play = "running" PROVE NoOverlap'
    OBVIOUS
  <2>1. ~Active(turn) /\ turn' = turn
    BY DEF Tick, IInv, OneSource
  <2>. QED
    BY <1>1, <1>2, <2>1, TurnAssumption
    DEF Less, MaybeInt, PlayOK, IInv, NoOverlap, Active
<1>5. CASE ~Active(turn)
  <2>1. turn' = turn
    BY <1>5 DEF Tick
  <2>2. Sound(turn)' /\ ~Active(turn)'
    BY <1>1, <1>5, <2>1 DEF Sound, Turns, Planned, Counted, Active
  <2>3. NoOverlap' /\ TimerArmed' /\ OneSource'
    BY <1>2, <1>4, <2>2 DEF NoOverlap, TimerArmed, OneSource
  <2>. QED
    BY <1>1, <1>3, <2>2, <2>3 DEF IInv
<1>6. CASE Active(turn)
  <2>1. play = "off" /\ timer # None /\ timer = Deadline(turn) /\ timer \in Int
        /\ timer' = timer - 1
    BY <1>1, <1>2, <1>6, TurnAssumption DEF IInv, OneSource, TimerArmed, MaybeInt, Less, PlayOK
  <2>2. /\ Less(turn.next) \in MaybeInt /\ (Less(turn.next) = None <=> turn.next = None)
        /\ More(turn.last, GapLimit) \in Nat \cup {None}
        /\ (More(turn.last, GapLimit) = None <=> turn.last = None)
        /\ More(turn.began, FirstAudio) \in Nat
    BY <1>1, TurnAssumption DEF Less, More, Sound, Turns, MaybeInt
  <2>3. /\ turn' \in Turns /\ turn'.next = Less(turn.next) /\ turn'.state = turn.state
        /\ turn'.last = More(turn.last, GapLimit) /\ turn'.began = More(turn.began, FirstAudio)
        /\ turn'.len = turn.len /\ turn'.accepted = turn.accepted /\ turn'.sent = turn.sent
        /\ turn'.discarded = turn.discarded
    BY <1>1, <1>6, <2>2 DEF Tick, Sound, Turns
  <2>4. Sound(turn)' /\ Active(turn)'
    BY <1>1, <1>6, <2>2, <2>3 DEF Sound, Planned, Counted, Active
  <2>5. Front(turn) => turn.next = timer /\ turn.next \in Int /\ Less(turn.next) = turn.next - 1
    BY <1>1, <1>2, <2>1, DeadlineArmed, TurnAssumption DEF Less, Sound, Turns, MaybeInt
  <2>6. TimerArmed'
    <3>1. turn.began \in Nat /\ turn.last \in Nat \cup {None} /\ turn.len \in Nat
      BY <1>1 DEF Sound, Turns
    <3>2. QueueDeadline(turn) # None =>
              QueueDeadline(turn') = QueueDeadline(turn) - 1 /\ QueueDeadline(turn') # None
      <4>1. CASE turn.len > 0
        BY <2>3, <2>5, <4>1, TurnAssumption DEF QueueDeadline, Front
      <4>2. CASE turn.len = 0 /\ turn.state \in Closing /\ turn.last # None
        <5>1. QueueDeadline(turn) = Step - turn.last /\ Step - turn.last \in Int
          BY <3>1, <4>2, TurnAssumption DEF QueueDeadline
        <5>2. timer = Step - turn.last
          BY <2>1, <5>1, TurnAssumption DEF Deadline
        <5>3. turn'.last = turn.last + 1
          BY <1>2, <2>1, <2>3, <3>1, <4>2, <5>2, TurnAssumption DEF More
        <5>. QED
          BY <2>3, <3>1, <4>2, <5>1, <5>3, TurnAssumption DEF QueueDeadline
      <4>. QED
        BY <3>1, <4>1, <4>2 DEF QueueDeadline
    <3>3. QueueDeadline(turn) = None => QueueDeadline(turn') = None
      BY <1>1, <2>2, <2>3, <3>1, TurnAssumption DEF QueueDeadline, Sound, Turns, MaybeInt
    <3>4. CASE QueueDeadline(turn) # None
      BY <2>1, <3>2, <3>4 DEF TimerArmed, Deadline
    <3>5. CASE QueueDeadline(turn) = None /\ turn.state = "Buffering"
      <4>1. timer = FirstAudio - turn.began
        BY <2>1, <3>5 DEF Deadline
      <4>2. turn'.began = turn.began + 1
        BY <1>2, <2>1, <2>3, <3>1, <4>1, TurnAssumption DEF More
      <4>. QED
        BY <2>1, <2>3, <3>1, <3>3, <3>5, <4>1, <4>2, TurnAssumption DEF TimerArmed, Deadline
    <3>6. CASE QueueDeadline(turn) = None /\ turn.state # "Buffering"
      <4>1. turn.state = "Playing" /\ turn.last # None /\ timer = GapLimit - turn.last
        BY <2>1, <3>6 DEF Deadline
      <4>2. turn'.last = turn.last + 1
        BY <1>2, <2>1, <2>3, <3>1, <4>1, TurnAssumption DEF More
      <4>. QED
        BY <2>1, <2>3, <3>1, <3>3, <3>6, <4>1, <4>2, TurnAssumption DEF TimerArmed, Deadline
    <3>. QED
      BY <3>4, <3>5, <3>6
  <2>7. NoOverlap'
    <3>1. Front(turn') => Front(turn) /\ turn'.next = turn.next - 1
      BY <2>2, <2>3, <2>5 DEF Front
    <3>. QED
      BY <1>1, <1>2, <1>6, <2>1, <2>5, <3>1, TurnAssumption
      DEF IInv, NoOverlap, Less, MaybeInt, Front
  <2>8. OneSource'
    BY <1>2, <2>1 DEF OneSource
  <2>. QED
    BY <1>3, <2>4, <2>6, <2>7, <2>8 DEF IInv
<1>. QED
  BY <1>5, <1>6

-----------------------------------------------------------------------------
(* The session starts without a turn, and every step keeps the invariant.  *)
LEMMA InitSound == Init => IInv
<1>. SUFFICES ASSUME Init PROVE IInv
  OBVIOUS
<1>1. turn \in Turns /\ turn.state = "Idle" /\ turn.len = 0 /\ turn.accepted = 0 /\ turn.sent = 0
      /\ turn.discarded = 0
  BY DEF Init, Fresh, Turns, States, MaybeInt
<1>. QED
  BY <1>1, TurnAssumption
  DEF Init, IInv, Sound, Planned, Counted, PlayOK, TimerArmed, NoOverlap, OneSource, Active,
      Open, Closing, MaybeInt

LEMMA NextSound == IInv /\ [Next]_vars => IInv'
<1>. SUFFICES ASSUME IInv, [Next]_vars PROVE IInv'
  OBVIOUS
<1>1. CASE UNCHANGED vars
  BY <1>1
  DEF vars, playVars, IInv, Sound, Turns, Planned, Counted, PlayOK, TimerArmed, NoOverlap,
      OneSource, Active, Front, Deadline, QueueDeadline
<1>. QED
  BY <1>1, CommandsKeep, TimersKeep, PlayerKeeps, TickKeeps DEF Next

(* A turn that is not over has its timer armed for the moment at which it  *)
(* next has something to do: for any timeouts and any lateness of the loop *)
(* no turn is forgotten by it.                                             *)
THEOREM TurnsAreTimed == Spec => []TimerArmed
<1>1. IInv => TimerArmed
  BY DEF IInv
<1>. QED
  BY <1>1, InitSound, NextSound, PTL DEF Spec

(* Frames of turns and prompts never overlap on the timeline of leg A,     *)
(* for any frame length, prebuffer, prompt and lateness.                   *)
THEOREM TimelineHolds == Spec => []NoOverlap
<1>1. IInv => NoOverlap
  BY DEF IInv
<1>. QED
  BY <1>1, InitSound, NextSound, PTL DEF Spec

(* No frame is lost from the account of its producer, and a prompt and a   *)
(* turn never have leg A together.                                         *)
THEOREM FramesAccounted == Spec => [](TypeOK /\ Accounted /\ OneSource)
<1>1. IInv => TypeOK /\ Accounted /\ OneSource
  BY DEF IInv, Sound, Counted, PlayOK, TypeOK, Accounted
<1>. QED
  BY <1>1, InitSound, NextSound, PTL DEF Spec
=============================================================================
