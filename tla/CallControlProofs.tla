-------------------------- MODULE CallControlProofs --------------------------
(***************************************************************************)
(* CallControl drives the media of CallMedia and nothing else: each of its *)
(* steps is a step of CallMedia or leaves the media alone.  What is proved *)
(* of CallMedia with signalling that may end or reconnect a call at any    *)
(* time therefore holds of the controller with its SIP handlers, timers    *)
(* and drain, for every number of calls, workers and forks.                *)
(***************************************************************************)
EXTENDS CallControl, OwnershipProofs, TLAPS

(* The three ways a handler touches the media.                             *)
LEMMA SignalStutters ==
    ASSUME NEW S, Signal(S)
    PROVE  [Next]_vars
  BY DEF Signal

LEMMA FinishesIsMediaStep ==
    ASSUME NEW c \in Calls, NEW S, Finishes(c, S)
    PROVE  [Next]_vars
  BY DEF Finishes, Next

LEMMA ConnectsIsMediaStep ==
    ASSUME NEW c \in Calls, NEW S, Connects(c, S)
    PROVE  [Next]_vars
  BY DEF Connects, Next

LEMMA FromLegBIsMediaStep ==
    ASSUME NEW c \in Calls, FromLegB(c)
    PROVE  [Next]_vars
<1>1. CASE LateProvisional(c)
  BY <1>1, SignalStutters DEF LateProvisional
<1>2. CASE Failure300(c)
  BY <1>2, SignalStutters, FinishesIsMediaStep DEF Failure300
<1>3. CASE UnusableOk(c)
  BY <1>3, FinishesIsMediaStep DEF UnusableOk
<1>4. CASE \E t \in Tags \cup {NoTag} : Ringing(c, t)
  BY <1>4, SignalStutters DEF Ringing
<1>5. CASE \E t \in Tags \cup {NoTag} : EarlyMedia(c, t)
  BY <1>5, ConnectsIsMediaStep DEF EarlyMedia
<1>6. CASE \E t \in Tags \cup {NoTag} : BadProvisional(c, t)
  BY <1>6, FinishesIsMediaStep DEF BadProvisional
<1>7. CASE \E acceptable \in BOOLEAN : Challenge(c, acceptable)
  BY <1>7, SignalStutters, FinishesIsMediaStep DEF Challenge
<1>8. CASE \E t \in Tags : OtherForkOk(c, t) \/ RepeatedOk(c, t) \/ LateOk(c, t)
  BY <1>8, SignalStutters DEF OtherForkOk, RepeatedOk, LateOk
<1>9. CASE \E t \in Tags : UnacceptableOk(c, t) \/ Ok(c, t)
  BY <1>9, FinishesIsMediaStep, ConnectsIsMediaStep DEF UnacceptableOk, Ok
<1>10. QED
  BY <1>1, <1>2, <1>3, <1>4, <1>5, <1>6, <1>7, <1>8, <1>9 DEF FromLegB

LEMMA TimerIsMediaStep ==
    ASSUME NEW c \in Calls, TimerNext(c)
    PROVE  [Next]_vars
<1>1. CASE SetupTimeout(c)
  BY <1>1, FinishesIsMediaStep DEF SetupTimeout
<1>2. CASE UasExpire(c)
  BY <1>2, SignalStutters, FinishesIsMediaStep DEF UasExpire
<1>3. CASE MaxDuration(c)
  BY <1>3, FinishesIsMediaStep DEF MaxDuration
<1>4. CASE OnReleaseRetry(c)
  BY <1>4 DEF OnReleaseRetry, Next
<1>5. CASE Forgotten(c)
  BY <1>5 DEF Forgotten, Next
<1>6. CASE \E t \in Tags : ForkGC(c, t)
  BY <1>6, SignalStutters DEF ForkGC
<1>7. CASE \E m \in Transactions : OutExpire(c, m)
  BY <1>7, SignalStutters, FinishesIsMediaStep DEF OutExpire
<1>8. QED
  BY <1>1, <1>2, <1>3, <1>4, <1>5, <1>6, <1>7 DEF TimerNext

LEMMA RequestIsMediaStep ==
    ASSUME NEW c \in Calls,
           \/ AckA(c) \/ CancelA(c) \/ ByeA(c) \/ ByeB(c)
           \/ HangUp(c) \/ AnswerLocalApplication(c) \/ FlowEndedA(c) \/ FlowEndedB(c)
    PROVE  [Next]_vars
<1>1. CASE AckA(c)
  BY <1>1, SignalStutters DEF AckA
<1>2. CASE CancelA(c)
  BY <1>2, FinishesIsMediaStep DEF CancelA
<1>3. CASE ByeA(c)
  BY <1>3, SignalStutters, FinishesIsMediaStep DEF ByeA
<1>4. CASE ByeB(c)
  BY <1>4, SignalStutters, FinishesIsMediaStep DEF ByeB
<1>5. CASE HangUp(c)
  BY <1>5, FinishesIsMediaStep DEF HangUp
<1>6. CASE AnswerLocalApplication(c)
  BY <1>6, SignalStutters DEF AnswerLocalApplication
<1>7. CASE FlowEndedA(c)
  BY <1>7, SignalStutters, FinishesIsMediaStep DEF FlowEndedA
<1>8. CASE FlowEndedB(c)
  BY <1>8, SignalStutters, FinishesIsMediaStep DEF FlowEndedB
<1>9. QED
  BY <1>1, <1>2, <1>3, <1>4, <1>5, <1>6, <1>7, <1>8

LEMMA ControlNextIsMediaStep == [ControlNext]_controlVars => [Next]_vars
<1>1. SUFFICES ASSUME [ControlNext]_controlVars PROVE [Next]_vars
  OBVIOUS
<1>2. CASE OnPool
  BY <1>2 DEF OnPool, Next
<1>3. CASE OnAllocate \/ OnConnect \/ OnRelease \/ OnDropped
  BY <1>3 DEF OnAllocate, OnConnect, OnRelease, OnDropped, Next
<1>4. CASE OnWorkerFailed
  BY <1>4 DEF OnWorkerFailed, Next
<1>5. CASE \E c \in Calls : \E w \in Workers, k \in Kinds : Invite(c, w, k)
  BY <1>5 DEF Invite, Next
<1>6. CASE \E c \in Calls : FromLegB(c)
  BY <1>6, FromLegBIsMediaStep
<1>7. CASE \E c \in Calls :
             \/ AckA(c) \/ CancelA(c) \/ ByeA(c) \/ ByeB(c)
             \/ HangUp(c) \/ AnswerLocalApplication(c) \/ FlowEndedA(c) \/ FlowEndedB(c)
  BY <1>7, RequestIsMediaStep
<1>8. CASE \E c \in Calls : TimerNext(c)
  BY <1>8, TimerIsMediaStep
<1>9. CASE \E c \in Calls : \E m \in Transactions : Completed(c, m)
  BY <1>9, SignalStutters DEF Completed
<1>10. CASE Stop \/ Exit
  BY <1>10 DEF Stop, Exit
<1>11. CASE UNCHANGED controlVars
  BY <1>11 DEF controlVars
<1>12. QED
  BY <1>1, <1>2, <1>3, <1>4, <1>5, <1>6, <1>7, <1>8, <1>9, <1>10, <1>11 DEF ControlNext

(* The controller with its dialogs implements the media protocol alone:    *)
(* no handler of calls.go reaches the quota, the queues or the flags of a  *)
(* call but through the steps of CallMedia.                                *)
THEOREM ControlImplementsMedia == ControlSpec => Spec
<1>1. ControlInit => Init
  BY DEF ControlInit
<1>2. QED
  BY <1>1, ControlNextIsMediaStep, PTL DEF ControlSpec, Spec

(* With SIP, timers, applications and drain in place, the two admission    *)
(* counters still equal the calls that hold quota.                         *)
THEOREM ControlQuotaIsCounted == ControlSpec => []QuotaAccounting
BY ControlImplementsMedia, QuotaIsCounted, PTL

(* And a call that signalling still considers live holds its quota.        *)
THEOREM ControlLiveCallsKeepQuota == ControlSpec => []LiveCallsReserved
BY ControlImplementsMedia, LiveCallsKeepQuota, PTL

(* Open ports are paid for under the real order of dialogs, timers and     *)
(* media results.                                                          *)
THEOREM ControlPortsArePaidFor == ControlSpec => []PortsCovered
BY ControlImplementsMedia, OpenPortsArePaidFor, PTL

(* Placement never over-commits a worker, whichever handler lets go of the *)
(* media of a call.                                                        *)
THEOREM ControlWithinCapacity == ControlSpec => []WorkerWithinCapacity
BY ControlImplementsMedia, WorkersAreNeverOvercommitted, PTL

(* Whichever handler ended a call, its teardown is driven by a command, a  *)
(* result or the retry timer until its quota is returned.                  *)
THEOREM ControlTeardownIsDriven == ControlSpec => []TeardownDriven
BY ControlImplementsMedia, TeardownIsAlwaysDriven, PTL

(* The media process forwards to the newest negotiated target whenever no  *)
(* connect is outstanding, however early media and the answer overlapped.  *)
THEOREM ControlNewestTarget == ControlSpec => []LatestTargetInstalled
BY ControlImplementsMedia, NewestTargetIsInstalled, PTL

(* And the controller with its dialogs implements the abstract quota.      *)
THEOREM ControlImplementsQuota == ControlSpec => ImplementsQuota
BY ControlImplementsMedia, MediaQuotaIsImplemented, PTL

-----------------------------------------------------------------------------
(* What Run leaves behind.  No call is dropped from the table before it    *)
(* has ended, so when the counter of active calls is zero every call there *)
(* ever was has ended, and what the processes in service hold is nothing.  *)

UnknownHaveEnded == used \ known \subseteq ended

LEMMA FinishEnds ==
    ASSUME NEW c, NEW al, NEW pe, Finish(c, al, pe)
    PROVE  ended \subseteq ended'
  BY DEF Finish

LEMMA EndsStay ==
    ASSUME UnknownHaveEnded, [Next]_vars
    PROVE  UnknownHaveEnded'
<1>1. CASE PoolStep \/ UNCHANGED vars
  BY <1>1 DEF PoolStep, callVars, vars, UnknownHaveEnded
<1>2. CASE \E c \in Calls, w \in Workers : Admit(c, w)
  BY <1>2 DEF Admit, UnknownHaveEnded
<1>3. CASE \E c \in Calls : EndCall(c)
  BY <1>3, FinishEnds DEF EndCall, UnknownHaveEnded
<1>4. CASE \E c \in Calls : Connect(c)
  BY <1>4, FinishEnds DEF Connect, SubmitConnect, UnknownHaveEnded
<1>5. CASE AllocateResult
  BY <1>5, FinishEnds DEF AllocateResult, AllocateFailed, UnknownHaveEnded
<1>6. CASE ConnectResult
  BY <1>6, FinishEnds DEF ConnectResult, SubmitConnect, UnknownHaveEnded
<1>7. CASE ReleaseResult \/ DropResult
  BY <1>7 DEF ReleaseResult, DropResult, callVars, UnknownHaveEnded
<1>8. CASE \E c \in Calls : ReleaseRetry(c)
  BY <1>8 DEF ReleaseRetry, UnknownHaveEnded
<1>9. CASE \E c \in Calls : CallGC(c)
  BY <1>9 DEF CallGC, Collectable, UnknownHaveEnded
<1>10. CASE WorkerFailed
  BY <1>10 DEF WorkerFailed, UnknownHaveEnded
<1>11. QED
  BY <1>1, <1>2, <1>3, <1>4, <1>5, <1>6, <1>7, <1>8, <1>9, <1>10 DEF Next

LEMMA InvariantUnknownHaveEnded == Spec => []UnknownHaveEnded
<1>1. Init => UnknownHaveEnded
  BY DEF Init, UnknownHaveEnded
<1>2. UnknownHaveEnded /\ [Next]_vars => UnknownHaveEnded'
  BY EndsStay
<1>3. QED
  BY <1>1, <1>2, PTL DEF Spec

(* The whole of what Run looks at before it returns is the counter.        *)
LEMMA NothingActiveIsClean ==
    ASSUME OInv, UnknownHaveEnded, active = 0
    PROVE  /\ used \subseteq ended
           /\ \A w \in Workers : status[w] = "serving" => sessions[w] = {} /\ jobs[w] = <<>>
<1>1. reserved = {}
  <2>1. reserved \subseteq Calls /\ active = Cardinality(reserved)
    BY DEF OInv, Ground, IInv, FlagsTyped, QuotaCounted
  <2>2. IsFiniteSet(reserved)
    BY <2>1, FS_Subset, PoolAssumption
  <2>3. QED
    BY <2>1, <2>2, FS_EmptySet
<1>2. used \subseteq ended
  BY <1>1 DEF UnknownHaveEnded, OInv, Ground, IInv, LiveCallsReserved
<1>3. ASSUME NEW w \in Workers, status[w] = "serving"
      PROVE  sessions[w] = {} /\ jobs[w] = <<>>
  <2>1. ReservedOn(w) = {}
    BY <1>1 DEF ReservedOn
  <2>2. sessions[w] = {}
    BY <1>3, <2>1, OpenIsReserved
  <2>3. jobs[w] \in Seq({j \in OwnJob(w) : j.op = "allocate"})
    BY DEF OInv, PoolInv, ItemsOwned
  <2>4. 1 \notin DOMAIN jobs[w]
    BY <2>1, QueuedIsReserved DEF AllocationsFor
  <2>5. QED
    BY <2>2, <2>3, <2>4, LenProperties, EmptySeq
<1>4. QED
  BY <1>2, <1>3

(* Every handler is a step of the loop: there is none after Run returned,  *)
(* and none but Exit makes it return.                                      *)
LEMMA LoopKeepsPhase ==
    ASSUME ControlNext, ~Exit, ~Stop
    PROVE  phase # "exited" /\ phase' = phase
<1>1. \A c \in Calls : \A S : Finishes(c, S) \/ Connects(c, S) \/ Signal(S) => LoopStep
  BY DEF Finishes, Connects, Signal
<1>2. CASE \E c \in Calls, w \in Workers, k \in Kinds : Invite(c, w, k)
  BY <1>2 DEF Invite
<1>3. CASE OnPool \/ OnAllocate \/ OnConnect \/ OnRelease \/ OnDropped \/ OnWorkerFailed
  BY <1>3 DEF OnPool, OnAllocate, OnConnect, OnRelease, OnDropped, OnWorkerFailed, LoopStep
<1>4. ASSUME NEW c \in Calls, FromLegB(c) PROVE LoopStep
  BY <1>1, <1>4 DEF FromLegB, LateProvisional, Failure300, UnusableOk, Ringing, EarlyMedia,
     BadProvisional, Challenge, OtherForkOk, RepeatedOk, LateOk, UnacceptableOk, Ok
<1>5. ASSUME NEW c \in Calls,
             \/ AckA(c) \/ CancelA(c) \/ ByeA(c) \/ ByeB(c)
             \/ HangUp(c) \/ AnswerLocalApplication(c) \/ FlowEndedA(c) \/ FlowEndedB(c)
      PROVE  LoopStep
  BY <1>1, <1>5 DEF AckA, CancelA, ByeA, ByeB, HangUp, AnswerLocalApplication, FlowEndedA,
     FlowEndedB
<1>6. ASSUME NEW c \in Calls, TimerNext(c) PROVE LoopStep
  BY <1>1, <1>6 DEF TimerNext, SetupTimeout, UasExpire, MaxDuration, OnReleaseRetry, Forgotten,
     ForkGC, OutExpire
<1>7. ASSUME NEW c \in Calls, NEW m \in Transactions, Completed(c, m) PROVE LoopStep
  BY <1>1, <1>7 DEF Completed
<1>8. QED
  BY <1>2, <1>3, <1>4, <1>5, <1>6, <1>7 DEF ControlNext, LoopStep

LEMMA NoStepAfterExit ==
    ASSUME [ControlNext]_controlVars, phase = "exited"
    PROVE  UNCHANGED vars
  BY LoopKeepsPhase DEF Exit, Stop, controlVars

LEMMA OnlyExitExits ==
    ASSUME [ControlNext]_controlVars, phase # "exited", phase' = "exited"
    PROVE  Exit
  BY LoopKeepsPhase DEF Stop, controlVars

(* When Run returns every call has ended, and no serving media process is  *)
(* left with open ports or with an allocation queued, although the loop    *)
(* looks only at counters.                                                 *)
THEOREM RunReturnsClean == ControlSpec => []ExitIsClean
<1> DEFINE I == OInv /\ UnknownHaveEnded
<1>1. ControlInit => ExitIsClean
  BY DEF ControlInit, ExitIsClean
<1>2. I /\ ExitIsClean /\ [ControlNext]_controlVars => ExitIsClean'
  <2>1. SUFFICES ASSUME OInv, UnknownHaveEnded, ExitIsClean, [ControlNext]_controlVars,
                        phase' = "exited"
                 PROVE  ExitIsClean'
    BY DEF ExitIsClean
  <2>2. CASE phase = "exited"
    BY <2>1, <2>2, NoStepAfterExit DEF ExitIsClean, vars, poolVars, callVars
  <2>3. CASE phase # "exited"
    <3>1. Exit
      BY <2>1, <2>3, OnlyExitExits
    <3>2. active = 0 /\ UNCHANGED vars
      BY <3>1 DEF Exit, Drained
    <3>3. QED
      BY <2>1, <3>2, NothingActiveIsClean DEF ExitIsClean, vars, poolVars, callVars
  <2>4. QED
    BY <2>2, <2>3
<1>3. ControlSpec => []I
  BY ControlImplementsMedia, InvariantOInv, InvariantUnknownHaveEnded, PTL
<1>4. QED
  BY <1>1, <1>2, <1>3, PTL DEF ControlSpec

-----------------------------------------------------------------------------
(* The signalling state of the calls.  A helper of the handlers changes    *)
(* the record of its call only.                                            *)

Sig == [Calls -> Signalling]
Others(S, T, c) == \A d \in Calls \ {c} : T[d] = S[d]

(* The rules that every record obeys: leg B is invited by bridged calls    *)
(* only, an answer is final and completes the INVITE, a CANCEL was wanted; *)
(* the setup timer runs only before the final answer, which leg A may then *)
(* acknowledge.                                                            *)
RulesB(r) ==
    /\ r.bInvite => r.kind = "bridge"
    /\ r.bAnswered => r.bInvite /\ r.bFinal /\ "INVITE" \notin r.txs
    /\ r.answer # 0 => r.bAnswered
    /\ r.bCancel => r.cancelWanted
    /\ "INVITE" \in r.txs => r.kind = "bridge"
RulesA(r) ==
    /\ "setup" \in r.timers => r.aStatus = "trying"
    /\ r.aAck => r.aStatus # "trying"
Ruled(r) == RulesA(r) /\ RulesB(r)

(* A live call has the deadline of the stage it is in.                     *)
Guarded(r) ==
    /\ r.aStatus # "failure"
    /\ r.aStatus = "trying" => "setup" \in r.timers
    /\ r.aStatus = "ok" => IF r.aAck THEN "max_duration" \in r.timers
                                     ELSE "uas_expire" \in r.timers
    /\ "max_duration" \in r.timers => r.aStatus = "ok"

(* What the end of a call leaves of its legs.                              *)
OverA(r) == r.aStatus = "ok" => r.aBye \/ r.aHung \/ ~r.aFlow
OverB(r) == r.bAnswered /\ ~r.cancelled => r.bBye \/ r.bHung \/ ~r.bFlow
OverRinging(r) ==
    r.bInvite /\ r.bFlow /\ ~r.bFinal => r.cancelWanted /\ (r.bProvisional => r.bCancel)
Over(r) == (WellBehaved => OverA(r)) /\ OverB(r) /\ OverRinging(r)

(* No helper invites leg B, answers it, or changes what the other party    *)
(* did.                                                                    *)
KeptA(r, q) == q.aAck = r.aAck /\ q.aHung = r.aHung /\ q.aFlow = r.aFlow /\ q.kind = r.kind
KeptB(r, q) ==
    /\ q.bInvite = r.bInvite /\ q.bProvisional = r.bProvisional /\ q.bFinal = r.bFinal
    /\ q.bAnswered = r.bAnswered /\ q.bHung = r.bHung /\ q.bFlow = r.bFlow
    /\ q.answer = r.answer /\ q.cancelled = r.cancelled
    /\ "INVITE" \in q.txs => "INVITE" \in r.txs
SameA(r, q) == KeptA(r, q) /\ q.aStatus = r.aStatus /\ q.timers = r.timers /\ q.aBye = r.aBye
SameB(r, q) ==
    KeptB(r, q) /\ q.cancelWanted = r.cancelWanted /\ q.bCancel = r.bCancel /\ q.bBye = r.bBye

WithTxs(S, c, x) == [S EXCEPT ![c] = [S[c] EXCEPT !.txs = x]]

LEMMA StartTransactionOn ==
    ASSUME NEW S \in Sig, NEW c \in Calls, NEW m \in Transactions,
           NEW T, T = StartTransaction(S, c, m)
    PROVE  \E x \in SUBSET Transactions :
              T = WithTxs(S, c, x) /\ x \subseteq S[c].txs \cup {m}
<1> DEFINE y == IF Cardinality(Outstanding(S)) < MaxTransactions
                  THEN S[c].txs \cup {m} ELSE S[c].txs
<1>1. S[c] \in Signalling
  BY DEF Sig
<1>2. S[c].txs \in SUBSET Transactions /\ S[c] = [S[c] EXCEPT !.txs = S[c].txs]
  BY <1>1 DEF Signalling
<1>3. S = [S EXCEPT ![c] = [S[c] EXCEPT !.txs = S[c].txs]]
  BY <1>2 DEF Sig
<1>4. y \in SUBSET Transactions /\ y \subseteq S[c].txs \cup {m}
  BY <1>2
<1>5. T = WithTxs(S, c, y)
  BY <1>3 DEF StartTransaction, WithTxs
<1> HIDE DEF y
<1>6. QED
  BY <1>4, <1>5

(* So a request that is not an INVITE changes nothing the rules look at.   *)
LEMMA RequestOn ==
    ASSUME NEW S \in Sig, NEW c \in Calls, NEW m \in Transactions, m # "INVITE",
           NEW T, T = StartTransaction(S, c, m)
    PROVE  T \in Sig /\ Others(S, T, c) /\ SameA(S[c], T[c]) /\ SameB(S[c], T[c])
<1>1. PICK x \in SUBSET Transactions :
         T = WithTxs(S, c, x) /\ x \subseteq S[c].txs \cup {m}
  BY StartTransactionOn
<1>2. S[c] \in Signalling
  BY DEF Sig
<1>3. T[c] = [S[c] EXCEPT !.txs = x] /\ Others(S, T, c)
  BY <1>1 DEF WithTxs, Others, Sig
<1>4. T[c] \in Signalling /\ T \in Sig
  BY <1>1, <1>2, <1>3 DEF WithTxs, Signalling, Sig
<1>5. QED
  BY <1>1, <1>2, <1>3, <1>4 DEF SameA, SameB, KeptA, KeptB, Signalling

LEMMA AnswerAOn ==
    ASSUME NEW S \in Sig, NEW c \in Calls, NEW st \in {"ok", "failure"},
           NEW T, T = AnswerA(S, c, st)
    PROVE  /\ T \in Sig /\ Others(S, T, c)
           /\ KeptA(S[c], T[c]) /\ SameB(S[c], T[c]) /\ T[c].aBye = S[c].aBye
           /\ S[c].aStatus # "trying" => T = S
           /\ S[c].aStatus = "trying" =>
                 /\ T[c].aStatus = st
                 /\ T[c].timers = (S[c].timers \ {"setup"}) \cup {"uas_expire"}
<1> DEFINE r == S[c]
<1>1. r \in Signalling
  BY DEF Sig
<1>2. CASE S[c].aStatus # "trying"
  <2>1. T = S
    BY <1>2 DEF AnswerA
  <2>2. QED
    BY <1>1, <1>2, <2>1 DEF Others, KeptA, SameB, KeptB, Signalling
<1>3. CASE S[c].aStatus = "trying"
  <2> DEFINE q == [r EXCEPT !.aStatus = st, !.uasPending = TRUE,
                             !.timers = (@ \ {"setup"}) \cup {"uas_expire"}]
  <2>1. T = [S EXCEPT ![c] = q]
    BY <1>3 DEF AnswerA
  <2>2. T[c] = q /\ Others(S, T, c)
    BY <2>1 DEF Others, Sig
  <2>3. q \in Signalling
    BY <1>1 DEF Signalling, Deadlines
  <2>4. T \in Sig
    BY <2>1, <2>3 DEF Sig
  <2>5. QED
    BY <1>1, <1>3, <2>2, <2>4 DEF KeptA, SameB, KeptB, Signalling
<1>4. QED
  BY <1>2, <1>3

LEMMA SendByeAOn ==
    ASSUME NEW S \in Sig, NEW c \in Calls,
           NEW T, T = SendByeA(S, c)
    PROVE  /\ T \in Sig /\ Others(S, T, c)
           /\ KeptA(S[c], T[c]) /\ SameB(S[c], T[c])
           /\ T[c].aStatus = S[c].aStatus /\ T[c].timers = S[c].timers
           /\ S[c].aBye => T[c].aBye
           /\ S[c].aStatus = "ok" => T[c].aBye
<1> DEFINE r == S[c]
           q == [r EXCEPT !.aBye = TRUE]
           U == [S EXCEPT ![c] = q]
<1>1. r \in Signalling
  BY DEF Sig
<1>2. CASE r.aStatus # "ok" \/ r.aBye
  <2>1. T = S
    BY <1>2 DEF SendByeA
  <2>2. QED
    BY <1>1, <1>2, <2>1 DEF Others, KeptA, SameB, KeptB, Signalling
<1>3. CASE ~(r.aStatus # "ok" \/ r.aBye)
  <2>1. T = StartTransaction(U, c, "BYE A")
    BY <1>3 DEF SendByeA
  <2>2. q \in Signalling
    BY <1>1 DEF Signalling
  <2>3. U \in Sig /\ U[c] = q /\ Others(S, U, c)
    BY <2>2 DEF Sig, Others
  <2> HIDE DEF q, U
  <2>4. T \in Sig /\ Others(U, T, c) /\ SameA(q, T[c]) /\ SameB(q, T[c])
    BY <2>1, <2>3, RequestOn DEF Transactions
  <2>5. QED
    BY <1>1, <2>3, <2>4 DEF q, Others, SameA, KeptA, SameB, KeptB, Signalling
<1>4. QED
  BY <1>2, <1>3

LEMMA SendByeBOn ==
    ASSUME NEW S \in Sig, NEW c \in Calls,
           NEW T, T = SendByeB(S, c)
    PROVE  /\ T \in Sig /\ Others(S, T, c)
           /\ SameA(S[c], T[c]) /\ KeptB(S[c], T[c])
           /\ T[c].cancelWanted = S[c].cancelWanted /\ T[c].bCancel = S[c].bCancel
           /\ S[c].bBye => T[c].bBye
           /\ S[c].bAnswered => T[c].bBye
<1> DEFINE r == S[c]
           q == [r EXCEPT !.bBye = TRUE]
           U == [S EXCEPT ![c] = q]
<1>1. r \in Signalling
  BY DEF Sig
<1>2. CASE ~r.bAnswered \/ r.bBye
  <2>1. T = S
    BY <1>2 DEF SendByeB
  <2>2. QED
    BY <1>1, <1>2, <2>1 DEF Others, SameA, KeptA, KeptB, Signalling
<1>3. CASE ~(~r.bAnswered \/ r.bBye)
  <2>1. T = StartTransaction(U, c, "BYE B")
    BY <1>3 DEF SendByeB
  <2>2. q \in Signalling
    BY <1>1 DEF Signalling
  <2>3. U \in Sig /\ U[c] = q /\ Others(S, U, c)
    BY <2>2 DEF Sig, Others
  <2> HIDE DEF q, U
  <2>4. T \in Sig /\ Others(U, T, c) /\ SameA(q, T[c]) /\ SameB(q, T[c])
    BY <2>1, <2>3, RequestOn DEF Transactions
  <2>5. QED
    BY <1>1, <2>3, <2>4 DEF q, Others, SameA, KeptA, SameB, KeptB, Signalling
<1>4. QED
  BY <1>2, <1>3

(* A CANCEL is sent at once or recorded for the first provisional answer.  *)
LEMMA SendCancelBOn ==
    ASSUME NEW S \in Sig, NEW c \in Calls,
           NEW T, T = SendCancelB(S, c)
    PROVE  /\ T \in Sig /\ Others(S, T, c)
           /\ SameA(S[c], T[c]) /\ KeptB(S[c], T[c]) /\ T[c].bBye = S[c].bBye
           /\ S[c].cancelWanted => T[c].cancelWanted
           /\ (S[c].bCancel => S[c].cancelWanted) =>
                 (T[c].bCancel => T[c].cancelWanted) /\ OverRinging(T[c])
<1> DEFINE r == S[c]
           q == [r EXCEPT !.cancelWanted = TRUE]
           p == [r EXCEPT !.cancelWanted = TRUE, !.bCancel = TRUE]
           U == [S EXCEPT ![c] = q]
           V == [S EXCEPT ![c] = p]
<1>1. r \in Signalling
  BY DEF Sig
<1>2. CASE ~r.bInvite \/ r.bFinal \/ r.bCancel
  <2>1. T = S
    BY <1>2 DEF SendCancelB
  <2>2. QED
    BY <1>1, <1>2, <2>1 DEF Others, SameA, KeptA, KeptB, OverRinging, Signalling
<1>3. CASE r.bInvite /\ ~r.bFinal /\ ~r.bCancel /\ ~r.bProvisional
  <2>1. T = U
    BY <1>3 DEF SendCancelB
  <2>2. q \in Signalling
    BY <1>1 DEF Signalling
  <2>3. U \in Sig /\ U[c] = q /\ Others(S, U, c)
    BY <2>2 DEF Sig, Others
  <2>4. T[c] = q /\ T \in Sig /\ Others(S, T, c)
    BY <2>1, <2>3
  <2>5. QED
    BY <1>1, <1>3, <2>4, ZenonT(40) DEF SameA, KeptA, KeptB, OverRinging, Signalling
<1>4. CASE r.bInvite /\ ~r.bFinal /\ ~r.bCancel /\ r.bProvisional
  <2>1. T = StartTransaction([U EXCEPT ![c].bCancel = TRUE], c, "CANCEL")
    BY <1>4 DEF SendCancelB
  <2>2. [U EXCEPT ![c].bCancel = TRUE] = V
    BY <1>1 DEF Sig, Signalling
  <2>3. p \in Signalling
    BY <1>1 DEF Signalling
  <2>4. V \in Sig /\ V[c] = p /\ Others(S, V, c)
    BY <2>3 DEF Sig, Others
  <2> HIDE DEF p, V
  <2>5. T \in Sig /\ Others(V, T, c) /\ SameA(p, T[c]) /\ SameB(p, T[c])
    BY <2>1, <2>2, <2>4, RequestOn DEF Transactions
  <2>6. QED
    BY <1>1, <2>4, <2>5 DEF p, Others, SameA, KeptA, SameB, KeptB, OverRinging, Signalling
<1>5. QED
  BY <1>2, <1>3, <1>4

(* Either way leg B is told.                                               *)
LEMMA StopBOn ==
    ASSUME NEW S \in Sig, NEW c \in Calls, RulesB(S[c]),
           NEW T, T = StopB(S, c)
    PROVE  /\ T \in Sig /\ Others(S, T, c)
           /\ SameA(S[c], T[c]) /\ KeptB(S[c], T[c]) /\ RulesB(T[c])
           /\ OverB(T[c]) /\ OverRinging(T[c])
<1>1. CASE S[c].bAnswered
  <2>1. T = SendByeB(S, c)
    BY <1>1 DEF StopB
  <2>2. /\ T \in Sig /\ Others(S, T, c) /\ SameA(S[c], T[c]) /\ KeptB(S[c], T[c])
        /\ T[c].cancelWanted = S[c].cancelWanted /\ T[c].bCancel = S[c].bCancel
        /\ T[c].bBye
    BY <1>1, <2>1, SendByeBOn
  <2>3. QED
    BY <1>1, <2>2 DEF SameA, KeptA, KeptB, RulesB, OverB, OverRinging
<1>2. CASE ~S[c].bAnswered
  <2>1. T = SendCancelB(S, c)
    BY <1>2 DEF StopB
  <2>2. /\ T \in Sig /\ Others(S, T, c) /\ SameA(S[c], T[c]) /\ KeptB(S[c], T[c])
        /\ (T[c].bCancel => T[c].cancelWanted) /\ OverRinging(T[c])
    BY <2>1, SendCancelBOn DEF RulesB
  <2>3. QED
    BY <1>2, <2>2 DEF SameA, KeptA, KeptB, RulesB, OverB
<1>3. QED
  BY <1>1, <1>2

LEMMA EndOn ==
    ASSUME NEW S \in Sig, NEW c \in Calls,
           NEW T, T = End(S, c)
    PROVE  /\ T \in Sig /\ Others(S, T, c)
           /\ KeptA(S[c], T[c]) /\ SameB(S[c], T[c])
           /\ T[c].aStatus = S[c].aStatus /\ T[c].aBye = S[c].aBye
           /\ "setup" \in T[c].timers => "setup" \in S[c].timers
<1> DEFINE r == S[c]
           q == [r EXCEPT !.timers = (@ \ {"setup", "max_duration"}) \cup {"call_gc"},
                      !.established = FALSE]
<1>1. r \in Signalling
  BY DEF Sig
<1>2. CASE c \in ended
  <2>1. T = S
    BY <1>2 DEF End
  <2>2. QED
    BY <1>1, <2>1 DEF Others, KeptA, SameB, KeptB, Signalling
<1>3. CASE c \notin ended
  <2>1. T = [S EXCEPT ![c] = q]
    BY <1>3 DEF End
  <2>2. q \in Signalling
    BY <1>1 DEF Signalling, Deadlines
  <2>3. T \in Sig /\ T[c] = q /\ Others(S, T, c)
    BY <2>1, <2>2 DEF Sig, Others
  <2>4. QED
    BY <1>1, <2>3 DEF KeptA, SameB, KeptB, Signalling
<1>4. QED
  BY <1>2, <1>3

(* A handler that ends a call leaves its record ruled and over.            *)
ClosedRecord(r, q) ==
    /\ Ruled(q) /\ Over(q)
    /\ q.bInvite => r.bInvite
    /\ q.aStatus = "ok" => r.aStatus = "ok"
Closed(S, T, c) == T \in Sig /\ Others(S, T, c) /\ ClosedRecord(S[c], T[c])

LEMMA StopAOn ==
    ASSUME NEW S \in Sig, NEW c \in Calls, RulesA(S[c]),
           NEW T, T = StopA(S, c)
    PROVE  /\ T \in Sig /\ Others(S, T, c)
           /\ KeptA(S[c], T[c]) /\ SameB(S[c], T[c]) /\ RulesA(T[c]) /\ OverA(T[c])
           /\ T[c].aStatus = "ok" => S[c].aStatus = "ok"
<1>1. S[c] \in Signalling
  BY DEF Sig
<1>2. CASE S[c].aStatus = "trying"
  <2>1. T = AnswerA(S, c, "failure")
    BY <1>2 DEF StopA
  <2>2. /\ T \in Sig /\ Others(S, T, c) /\ KeptA(S[c], T[c]) /\ SameB(S[c], T[c])
        /\ T[c].aStatus = "failure"
        /\ T[c].timers = (S[c].timers \ {"setup"}) \cup {"uas_expire"}
    BY <1>2, <2>1, AnswerAOn
  <2>3. QED
    BY <1>2, <2>2 DEF KeptA, RulesA, OverA
<1>3. CASE S[c].aStatus # "trying"
  <2>1. T = SendByeA(S, c)
    BY <1>3 DEF StopA
  <2>2. /\ T \in Sig /\ Others(S, T, c) /\ KeptA(S[c], T[c]) /\ SameB(S[c], T[c])
        /\ T[c].aStatus = S[c].aStatus /\ T[c].timers = S[c].timers
        /\ S[c].aStatus = "ok" => T[c].aBye
    BY <2>1, SendByeAOn
  <2>3. QED
    BY <1>3, <2>2 DEF KeptA, RulesA, OverA
<1>4. QED
  BY <1>2, <1>3

(* What ends the call once both legs are told.                             *)
LEMMA EndCloses ==
    ASSUME NEW S \in Sig, NEW c \in Calls, Ruled(S[c]), Over(S[c]),
           NEW T, T = End(S, c)
    PROVE  Closed(S, T, c)
<1>1. /\ T \in Sig /\ Others(S, T, c) /\ KeptA(S[c], T[c]) /\ SameB(S[c], T[c])
      /\ T[c].aStatus = S[c].aStatus /\ T[c].aBye = S[c].aBye
      /\ "setup" \in T[c].timers => "setup" \in S[c].timers
  BY EndOn
<1>2. RulesA(T[c])
  BY <1>1 DEF Ruled, RulesA, KeptA
<1>3. RulesB(T[c])
  BY <1>1 DEF Ruled, RulesB, KeptA, SameB, KeptB
<1>4. (WellBehaved => OverA(T[c])) /\ OverB(T[c]) /\ OverRinging(T[c])
  BY <1>1 DEF Over, OverA, OverB, OverRinging, KeptA, SameB, KeptB
<1>5. QED
  BY <1>1, <1>2, <1>3, <1>4 DEF Closed, ClosedRecord, Ruled, Over, SameB, KeptB

LEMMA ClosedAfter ==
    ASSUME NEW S, NEW U, NEW T, NEW c \in Calls, Others(S, U, c), Closed(U, T, c),
           U[c].bInvite => S[c].bInvite, U[c].aStatus = "ok" => S[c].aStatus = "ok"
    PROVE  Closed(S, T, c)
  BY DEF Closed, ClosedRecord, Others

LEMMA RejectCloses ==
    ASSUME NEW S \in Sig, NEW c \in Calls, Ruled(S[c]), WellBehaved => OverA(S[c]),
           NEW T, T = Reject(S, c)
    PROVE  Closed(S, T, c)
<1>1. PICK U : U = AnswerA(S, c, "failure")
  OBVIOUS
<1>2. PICK V : V = StopB(U, c)
  OBVIOUS
<1>3. T = End(V, c)
  BY <1>1, <1>2 DEF Reject
<1>4. /\ U \in Sig /\ Others(S, U, c) /\ KeptA(S[c], U[c]) /\ SameB(S[c], U[c])
      /\ U[c].aBye = S[c].aBye
      /\ S[c].aStatus # "trying" => U = S
      /\ S[c].aStatus = "trying" =>
            /\ U[c].aStatus = "failure"
            /\ U[c].timers = (S[c].timers \ {"setup"}) \cup {"uas_expire"}
  BY <1>1, AnswerAOn
<1>5. RulesB(U[c])
  BY <1>4 DEF Ruled, RulesB, KeptA, SameB, KeptB
<1>6. /\ V \in Sig /\ Others(U, V, c) /\ SameA(U[c], V[c]) /\ KeptB(U[c], V[c])
      /\ RulesB(V[c]) /\ OverB(V[c]) /\ OverRinging(V[c])
  BY <1>2, <1>4, <1>5, StopBOn
<1>7. /\ V[c].aStatus = "ok" => S[c].aStatus = "ok"
      /\ V[c].bInvite => S[c].bInvite
      /\ Others(S, V, c)
  BY <1>4, <1>6 DEF Others, SameA, SameB, KeptB
<1>8. RulesA(V[c]) /\ (WellBehaved => OverA(V[c]))
  <2>1. CASE S[c].aStatus = "trying"
    BY <1>4, <1>6, <2>1 DEF Ruled, RulesA, OverA, SameA, KeptA
  <2>2. CASE S[c].aStatus # "trying"
    BY <1>4, <1>6, <2>2 DEF Ruled, RulesA, OverA, SameA, KeptA
  <2>3. QED
    BY <2>1, <2>2
<1>9. Closed(V, T, c)
  BY <1>3, <1>6, <1>8, EndCloses DEF Ruled, Over
<1>10. QED
  BY <1>7, <1>9, ClosedAfter

LEMMA HangUpBCloses ==
    ASSUME NEW S \in Sig, NEW c \in Calls, Ruled(S[c]), OverRinging(S[c]),
           WellBehaved => OverA(S[c]), NEW T, T = End(SendByeB(S, c), c)
    PROVE  Closed(S, T, c)
<1>1. PICK U : U = SendByeB(S, c)
  OBVIOUS
<1>2. /\ U \in Sig /\ Others(S, U, c) /\ SameA(S[c], U[c]) /\ KeptB(S[c], U[c])
      /\ U[c].cancelWanted = S[c].cancelWanted /\ U[c].bCancel = S[c].bCancel
      /\ S[c].bAnswered => U[c].bBye
  BY <1>1, SendByeBOn
<1>3. Ruled(U[c])
  BY <1>2 DEF Ruled, RulesA, RulesB, SameA, KeptA, KeptB
<1>4. Over(U[c])
  BY <1>2 DEF Over, OverA, OverB, OverRinging, SameA, KeptA, KeptB
<1>5. Closed(U, T, c)
  BY <1>1, <1>2, <1>3, <1>4, EndCloses
<1>6. QED
  BY <1>2, <1>5, ClosedAfter DEF SameA, KeptB

LEMMA HangUpBothCloses ==
    ASSUME NEW S \in Sig, NEW c \in Calls, Ruled(S[c]), OverRinging(S[c]),
           NEW T, T = HangUpBoth(S, c)
    PROVE  Closed(S, T, c)
<1>1. PICK U : U = SendByeA(S, c)
  OBVIOUS
<1>2. T = End(SendByeB(U, c), c)
  BY <1>1 DEF HangUpBoth
<1>3. /\ U \in Sig /\ Others(S, U, c) /\ KeptA(S[c], U[c]) /\ SameB(S[c], U[c])
      /\ U[c].aStatus = S[c].aStatus /\ U[c].timers = S[c].timers
      /\ S[c].aStatus = "ok" => U[c].aBye
  BY <1>1, SendByeAOn
<1>4. Ruled(U[c])
  BY <1>3 DEF Ruled, RulesA, RulesB, SameB, KeptA, KeptB
<1>5. OverA(U[c]) /\ OverRinging(U[c])
  BY <1>3 DEF OverA, OverRinging, SameB, KeptA, KeptB
<1>6. Closed(U, T, c)
  BY <1>2, <1>3, <1>4, <1>5, HangUpBCloses
<1>7. QED
  BY <1>3, <1>6, ClosedAfter DEF SameB, KeptB

LEMMA StopBothCloses ==
    ASSUME NEW S \in Sig, NEW c \in Calls, Ruled(S[c]),
           NEW T, T = End(StopB(StopA(S, c), c), c)
    PROVE  Closed(S, T, c)
<1>1. PICK U : U = StopA(S, c)
  OBVIOUS
<1>2. PICK V : V = StopB(U, c)
  OBVIOUS
<1>3. /\ U \in Sig /\ Others(S, U, c) /\ KeptA(S[c], U[c]) /\ SameB(S[c], U[c])
      /\ RulesA(U[c]) /\ OverA(U[c])
      /\ U[c].aStatus = "ok" => S[c].aStatus = "ok"
  BY <1>1, StopAOn DEF Ruled
<1>4. RulesB(U[c])
  BY <1>3 DEF Ruled, RulesB, KeptA, SameB, KeptB
<1>5. /\ V \in Sig /\ Others(U, V, c) /\ SameA(U[c], V[c]) /\ KeptB(U[c], V[c])
      /\ RulesB(V[c]) /\ OverB(V[c]) /\ OverRinging(V[c])
  BY <1>2, <1>3, <1>4, StopBOn
<1>6. RulesA(V[c]) /\ OverA(V[c])
  BY <1>3, <1>5 DEF RulesA, OverA, SameA, KeptA
<1>7. Closed(V, T, c)
  BY <1>1, <1>2, <1>5, <1>6, EndCloses DEF Ruled, Over
<1>8. Others(S, V, c) /\ (V[c].bInvite => S[c].bInvite)
      /\ (V[c].aStatus = "ok" => S[c].aStatus = "ok")
  BY <1>3, <1>5 DEF Others, SameA, SameB, KeptB
<1>9. QED
  BY <1>7, <1>8, ClosedAfter

-----------------------------------------------------------------------------
(* workerFailed ends its calls one after another.  The fold over them is a *)
(* recursive function on the subsets of the failed calls; a statement of   *)
(* every subset follows by looking at a smallest subset that violates it.  *)

LEMMA SmallestSubset ==
    ASSUME NEW L, IsFiniteSet(L), NEW F, F \subseteq SUBSET L, F # {}
    PROVE  \E s \in F : \A t \in F : t \subseteq s => t = s
<1>1. F \subseteq FiniteSubsetsOf(L)
  BY FS_Subset DEF FiniteSubsetsOf
<1>2. PICK s \in F : \A t \in F : ~(<<t, s>> \in StrictSubsetOrdering(L))
  BY <1>1, WFMin, FS_StrictSubsetOrderingWellFounded
<1>3. ASSUME NEW t \in F, t \subseteq s, t # s PROVE FALSE
  BY <1>2, <1>3 DEF StrictSubsetOrdering
<1>4. QED
  BY <1>3

Pick(s) == CHOOSE c \in s : TRUE
Rest(s) == s \ {Pick(s)}
FailStep(f, s) == IF s = {} THEN sig ELSE Fail503(Pick(s), f[Rest(s)])
Fails(f, L) == \A s \in SUBSET L : f[s] = FailStep(f, s)

LEMMA RestIsSmaller ==
    ASSUME NEW s, s # {}
    PROVE  Pick(s) \in s /\ Rest(s) \subseteq s /\ Rest(s) # s /\ s = Rest(s) \cup {Pick(s)}
  BY DEF Pick, Rest

LEMMA FailsAgree ==
    ASSUME NEW L, IsFiniteSet(L), NEW U \in SUBSET L, NEW V \in SUBSET L,
           NEW f, NEW g, Fails(f, U), Fails(g, V)
    PROVE  \A s \in SUBSET (U \cap V) : f[s] = g[s]
<1> DEFINE F == {s \in SUBSET (U \cap V) : f[s] # g[s]}
<1>1. SUFFICES ASSUME F # {} PROVE FALSE
  OBVIOUS
<1>2. PICK s \in F : \A t \in F : t \subseteq s => t = s
  <2>1. F \subseteq SUBSET L
    OBVIOUS
  <2> HIDE DEF F
  <2>2. QED
    BY <1>1, <2>1, SmallestSubset
<1>3. f[s] = FailStep(f, s) /\ g[s] = FailStep(g, s)
  BY DEF Fails
<1>4. s # {}
  BY <1>3 DEF FailStep
<1>5. Rest(s) \in SUBSET (U \cap V) /\ Rest(s) \notin F
  BY <1>2, <1>4, RestIsSmaller
<1>6. f[Rest(s)] = g[Rest(s)]
  BY <1>5
<1>7. QED
  BY <1>3, <1>4, <1>6 DEF FailStep

LEMMA FailsExists ==
    ASSUME NEW L, IsFiniteSet(L)
    PROVE  \E f : Fails(f, L)
<1> DEFINE F == {U \in SUBSET L : ~\E f : Fails(f, U)}
<1>1. SUFFICES ASSUME F # {} PROVE FALSE
  OBVIOUS
<1>2. PICK U \in F : \A t \in F : t \subseteq U => t = U
  <2>1. F \subseteq SUBSET L
    OBVIOUS
  <2> HIDE DEF F
  <2>2. QED
    BY <1>1, <2>1, SmallestSubset
<1> DEFINE h(s) == CHOOSE f : Fails(f, s)
           g == [s \in SUBSET U |->
                   IF s = {} THEN sig ELSE Fail503(Pick(s), h(Rest(s))[Rest(s)])]
<1>3. ASSUME NEW s \in SUBSET U, s # U PROVE Fails(h(s), s)
  <2>1. \E f : Fails(f, s)
    BY <1>2, <1>3
  <2>2. QED
    BY <2>1
<1> HIDE DEF h
<1>4. ASSUME NEW s \in SUBSET U PROVE g[s] = FailStep(g, s)
  <2>1. CASE s = {}
    BY <2>1 DEF FailStep
  <2>2. CASE s # {}
    <3> DEFINE r == Rest(s)
    <3>1. r \in SUBSET U /\ r # U /\ r \in SUBSET L
      BY <2>2, RestIsSmaller
    <3>2. Fails(h(r), r)
      BY <1>3, <3>1
    <3>3. h(r)[r] = FailStep(h(r), r)
      BY <3>2 DEF Fails
    <3> HIDE DEF r
    <3>4. g[r] = h(r)[r]
      <4>1. CASE r = {}
        BY <3>1, <3>3, <4>1 DEF FailStep
      <4>2. CASE r # {}
        <5> DEFINE q == Rest(r)
        <5>1. q \in SUBSET r /\ q # r /\ q \in SUBSET U /\ q # U
          BY <3>1, <4>2, RestIsSmaller
        <5>2. Fails(h(q), q)
          BY <1>3, <5>1
        <5>3. q \in SUBSET (r \cap q) /\ q \in SUBSET L
          BY <3>1, <5>1
        <5>4. h(r)[q] = h(q)[q]
          BY <3>1, <3>2, <5>2, <5>3, FailsAgree
        <5>5. g[r] = Fail503(Pick(r), h(q)[q])
          BY <3>1, <4>2
        <5>6. h(r)[r] = Fail503(Pick(r), h(r)[q])
          BY <3>3, <4>2 DEF FailStep
        <5>7. QED
          BY <5>4, <5>5, <5>6
      <4>3. QED
        BY <4>1, <4>2
    <3>5. g[s] = Fail503(Pick(s), h(r)[r])
      BY <2>2 DEF r
    <3>6. QED
      BY <2>2, <3>4, <3>5 DEF FailStep, r
  <2>3. QED
    BY <2>1, <2>2
<1>5. Fails(g, U)
  BY <1>4 DEF Fails
<1> HIDE DEF g
<1>6. QED
  BY <1>2, <1>5

LEMMA FailAllFolds ==
    ASSUME NEW L, IsFiniteSet(L)
    PROVE  \E f : Fails(f, L) /\ FailAll(L) = f[L]
<1>1. PICK f : Fails(f, L)
  BY FailsExists
<1> DEFINE g == [s \in SUBSET L |-> f[s]]
<1>2. g = [s \in SUBSET L |-> FailStep(g, s)]
  <2>1. ASSUME NEW s \in SUBSET L PROVE g[s] = FailStep(g, s)
    <3>1. f[s] = FailStep(f, s)
      BY <1>1 DEF Fails
    <3>2. s # {} => Rest(s) \in SUBSET L
      BY RestIsSmaller
    <3>3. QED
      BY <3>1, <3>2 DEF FailStep
  <2>2. QED
    BY <2>1
<1> HIDE DEF g
<1>3. \E it : it = [s \in SUBSET L |-> FailStep(it, s)] /\ FailAll(L) = it[L]
  BY <1>2 DEF FailAll, MapThenFoldSet, FailStep, Pick, Rest
<1>4. QED
  BY <1>3 DEF Fails

(* However many calls fail together, each is left as if it failed alone.   *)
LEMMA FailAllCloses ==
    ASSUME sig \in Sig, NEW L, IsFiniteSet(L), L \subseteq Calls,
           \A c \in L : Ruled(sig[c]), NEW T, T = FailAll(L)
    PROVE  /\ T \in Sig
           /\ \A c \in Calls \ L : T[c] = sig[c]
           /\ \A c \in L : ClosedRecord(sig[c], T[c])
<1>1. PICK f : Fails(f, L) /\ T = f[L]
  BY FailAllFolds
<1> DEFINE Good(s) == /\ f[s] \in Sig
                      /\ \A c \in Calls \ s : f[s][c] = sig[c]
                      /\ \A c \in s : ClosedRecord(sig[c], f[s][c])
           F == {s \in SUBSET L : ~Good(s)}
<1>2. SUFFICES ASSUME F # {} PROVE FALSE
  BY <1>1
<1>3. PICK s \in F : \A t \in F : t \subseteq s => t = s
  <2>1. F \subseteq SUBSET L
    OBVIOUS
  <2> HIDE DEF F
  <2>2. QED
    BY <1>2, <2>1, SmallestSubset
<1>4. f[s] = FailStep(f, s)
  BY <1>1 DEF Fails
<1>5. s # {}
  BY <1>4 DEF FailStep
<1>6. Rest(s) \in SUBSET L /\ Rest(s) \notin F /\ Pick(s) \in s /\ s = Rest(s) \cup {Pick(s)}
  BY <1>3, <1>5, RestIsSmaller
<1>7. Good(Rest(s))
  BY <1>6
<1> DEFINE c == Pick(s)
           S == f[Rest(s)]
<1>8. c \in Calls /\ c \notin Rest(s) /\ S \in Sig /\ S[c] = sig[c] /\ Ruled(S[c])
  BY <1>6, <1>7 DEF Rest
<1>9. f[s] = Fail503(c, S)
  BY <1>4, <1>5 DEF FailStep
<1>10. f[s] = End(StopB(StopA(S, c), c), c)
  BY <1>9 DEF Fail503
<1> HIDE DEF c, S
<1>11. Closed(S, f[s], c)
  BY <1>8, <1>10, StopBothCloses
<1>12. Good(s)
  BY <1>6, <1>7, <1>8, <1>11 DEF Closed, Others, c, S
<1>13. QED
  BY <1>3, <1>12

-----------------------------------------------------------------------------
(* The inductive invariant of the dialogs, which says of each call what    *)
(* its record r may be, given its stage in the media protocol.             *)

(* Only an invited leg B negotiates targets, and an answered leg A has     *)
(* nothing left to connect.                                                *)
Underway(c, r) ==
    /\ connectInFlight[c] # 0 => r.bInvite
    /\ r.kind = "bridge" /\ r.aStatus = "ok" => r.bAnswered /\ connectInFlight[c] = 0

Dialog(c, r) ==
    /\ Ruled(r)
    /\ c \in pending => r.aStatus # "ok" /\ ~r.bInvite
    /\ c \in known \cap ended => Over(r)
    /\ c \in known \ ended => Guarded(r) /\ Underway(c, r)

DialogInv == sig \in Sig /\ \A c \in Calls : Dialog(c, sig[c])

(* Every handler keeps it, and lets leg A of a bridged call hear 200 only  *)
(* with the media of the answer in place.                                  *)
TimelyAnswers ==
    \A c \in Calls :
       sig[c].kind = "bridge" /\ sig[c].aStatus = "trying" /\ sig'[c].aStatus = "ok"
          => target[c] = connectVersion[c] /\ connectVersion[c] = sig[c].answer
Handled == DialogInv' /\ TimelyAnswers

LEMMA RecordTyped ==
    ASSUME DialogInv, NEW c \in Calls
    PROVE  sig[c] \in Signalling /\ Dialog(c, sig[c]) /\ Ruled(sig[c])
  BY DEF DialogInv, Sig, Dialog

At(c, q) == [sig EXCEPT ![c] = q]

LEMMA AtOn ==
    ASSUME DialogInv, NEW c \in Calls, NEW q \in Signalling, NEW T, T = At(c, q)
    PROVE  T \in Sig /\ Others(sig, T, c) /\ T[c] = q
  BY DEF DialogInv, Sig, Others, At

LEMMA OthersFollow ==
    ASSUME NEW S, NEW U, NEW T, NEW c, Others(S, U, c), Others(U, T, c)
    PROVE  Others(S, T, c)
  BY DEF Others

(* A handler that leaves the media alone has to answer for its record; one *)
(* that ends the call has to close it.                                     *)
LEMMA SignalKeeps ==
    ASSUME DialogInv, NEW c \in Calls, NEW T, Signal(T),
           T \in Sig, Others(sig, T, c), Dialog(c, T[c]),
           T[c].aStatus = "ok" => sig[c].aStatus = "ok" \/ sig[c].kind # "bridge"
    PROVE  Handled
<1>1. sig' = T /\ UNCHANGED <<pending, known, ended, connectInFlight>>
  BY DEF Signal, vars, callVars, connectVars
<1>2. ASSUME NEW d \in Calls PROVE Dialog(d, sig[d])'
  <2>1. Dialog(d, sig'[d])
    BY <1>1 DEF Others, DialogInv
  <2>2. QED
    BY <1>1, <2>1 DEF Dialog, Underway, Ruled, RulesA, RulesB, Over, OverA, OverB, OverRinging,
       Guarded
<1>3. TimelyAnswers
  BY <1>1 DEF TimelyAnswers, Others
<1>4. QED
  BY <1>1, <1>2, <1>3 DEF Handled, DialogInv, Sig, Signalling, Deadlines, Transactions, Versions

LEMMA EndKeeps ==
    ASSUME DialogInv, NEW c \in Calls, NEW T, sig' = T, Closed(sig, T, c),
           known' = known, pending' \subseteq pending, ended' = ended \cup {c},
           \A d \in Calls \ {c} : connectInFlight'[d] = connectInFlight[d]
    PROVE  Handled
<1>1. T \in Sig /\ Others(sig, T, c) /\ ClosedRecord(sig[c], T[c])
  BY DEF Closed
<1>2. ASSUME NEW d \in Calls PROVE Dialog(d, sig[d])'
  <2>1. CASE d # c
    <3>1. sig'[d] = sig[d] /\ Dialog(d, sig[d]) /\ connectInFlight'[d] = connectInFlight[d]
      BY <1>1, <2>1 DEF Others, DialogInv
    <3>2. QED
      BY <2>1, <3>1 DEF Dialog, Underway, Ruled, RulesA, RulesB, Over, OverA, OverB, OverRinging,
         Guarded
  <2>2. CASE d = c
    <3>1. Ruled(sig[d])' /\ Over(sig[d])'
      BY <1>1, <2>2 DEF ClosedRecord, Ruled, RulesA, RulesB, Over, OverA, OverB, OverRinging
    <3>2. c \in pending' => sig'[c].aStatus # "ok" /\ ~sig'[c].bInvite
      BY <1>1, RecordTyped DEF ClosedRecord, Dialog
    <3>3. QED
      BY <2>2, <3>1, <3>2 DEF Dialog
  <2>3. QED
    BY <2>1, <2>2
<1>3. TimelyAnswers
  BY <1>1 DEF TimelyAnswers, Others, ClosedRecord
<1>4. QED
  BY <1>1, <1>2, <1>3 DEF Handled, DialogInv, Sig, Signalling, Deadlines, Transactions, Versions

LEMMA FinishesKeeps ==
    ASSUME DialogInv, NEW c \in Calls, NEW T, Finishes(c, T), Closed(sig, T, c)
    PROVE  Handled
<1>1. /\ sig' = T /\ known' = known /\ pending' = pending /\ ended' = ended \cup {c}
      /\ connectInFlight' = connectInFlight
  BY DEF Finishes, EndCall, Finish
<1>2. QED
  BY <1>1, EndKeeps

LEMMA ConnectsKeeps ==
    ASSUME DialogInv, OInv, NEW c \in Calls, NEW S, Connects(c, S), S \in Sig,
           Others(sig, S, c), Ruled(S[c]), Guarded(S[c]),
           sig[c].bInvite, S[c].bInvite, S[c].aStatus # "ok"
    PROVE  Handled
<1>1. /\ known' = known /\ pending' = pending
      /\ ended' = ended \/ ended' = ended \cup {c}
      /\ \A d \in Calls \ {c} : connectInFlight'[d] = connectInFlight[d]
      /\ c \in known /\ c \notin ended
  <2>1. connectInFlight \in [Calls -> Versions]
    BY DEF OInv, Ground, IInv, FlagsTyped
  <2>2. QED
    BY <2>1 DEF Connects, Connect, SubmitConnect, Finish
<1>2. CASE c \in ended'
  <2>1. PICK T : T = Reject(S, c)
    OBVIOUS
  <2>2. sig' = T
    BY <1>2, <2>1 DEF Connects
  <2>3. Closed(S, T, c)
    BY <2>1, RejectCloses DEF OverA
  <2>4. Closed(sig, T, c)
    BY <2>3, ClosedAfter
  <2>5. ended' = ended \cup {c}
    BY <1>1, <1>2
  <2>6. QED
    BY <1>1, <2>2, <2>4, <2>5, EndKeeps
<1>3. CASE c \notin ended'
  <2>1. sig' = S /\ ended' = ended
    BY <1>1, <1>3 DEF Connects
  <2>2. ASSUME NEW d \in Calls PROVE Dialog(d, sig[d])'
    <3>1. CASE d # c
      <4>1. sig'[d] = sig[d] /\ Dialog(d, sig[d]) /\ connectInFlight'[d] = connectInFlight[d]
        BY <1>1, <2>1, <3>1 DEF Others, DialogInv
      <4>2. QED
        BY <1>1, <2>1, <4>1 DEF Dialog, Underway, Ruled, RulesA, RulesB, Over, OverA, OverB,
           OverRinging, Guarded
    <3>2. CASE d = c
      <4>1. Ruled(sig[d])' /\ Guarded(sig[d])' /\ Underway(d, sig[d])'
        BY <2>1, <3>2 DEF Ruled, RulesA, RulesB, Guarded, Underway
      <4>2. c \notin pending'
        BY <1>1, RecordTyped DEF Dialog
      <4>3. c \notin ended'
        BY <1>3
      <4>4. QED
        BY <3>2, <4>1, <4>2, <4>3 DEF Dialog
    <3>3. QED
      BY <3>1, <3>2
  <2>3. TimelyAnswers
    BY <2>1 DEF TimelyAnswers, Others
  <2>4. QED
    BY <2>1, <2>2, <2>3 DEF Handled, DialogInv, Sig, Signalling, Deadlines, Transactions, Versions
<1>4. QED
  BY <1>2, <1>3

(* A message of leg B that leaves the media alone leaves leg A alone.      *)
LEMMA LegBKeeps ==
    ASSUME DialogInv, NEW c \in Calls, NEW T, Signal(T), T \in Sig, Others(sig, T, c),
           SameA(sig[c], T[c]), RulesB(T[c]), T[c].bInvite = sig[c].bInvite,
           sig[c].bAnswered => T[c].bAnswered,
           c \in known \cap ended => OverB(T[c]) /\ OverRinging(T[c])
    PROVE  Handled
<1>1. Dialog(c, sig[c])
  BY DEF DialogInv
<1>2. RulesA(T[c])
  BY <1>1 DEF Dialog, Ruled, RulesA, SameA, KeptA
<1>3. c \in pending => T[c].aStatus # "ok" /\ ~T[c].bInvite
  BY <1>1 DEF Dialog, SameA
<1>4. c \in known \cap ended => Over(T[c])
  BY <1>1 DEF Dialog, Over, OverA, SameA, KeptA
<1>5. c \in known \ ended => Guarded(T[c]) /\ Underway(c, T[c])
  BY <1>1 DEF Dialog, Guarded, Underway, SameA, KeptA
<1>6. Dialog(c, T[c])
  BY <1>2, <1>3, <1>4, <1>5 DEF Dialog, Ruled
<1>7. QED
  BY <1>6, SignalKeeps DEF SameA

-----------------------------------------------------------------------------
(* Responses of leg B.                                                     *)

FinalRecord(r) == [r EXCEPT !.txs = @ \ {"INVITE"}, !.bFinal = TRUE]
AnsweredRecord(r, t) == [FinalRecord(r) EXCEPT !.bAnswered = TRUE, !.bTag = t]

KeptButProvisional(r, q) ==
    /\ q.bInvite = r.bInvite /\ q.bFinal = r.bFinal /\ q.bAnswered = r.bAnswered
    /\ q.bHung = r.bHung /\ q.bFlow = r.bFlow /\ q.cancelled = r.cancelled
    /\ q.cancelWanted = r.cancelWanted /\ q.bBye = r.bBye

LEMMA FinalOn ==
    ASSUME DialogInv, NEW c \in Calls, NEW T, T = Final(c)
    PROVE  /\ T \in Sig /\ Others(sig, T, c) /\ T[c] = FinalRecord(sig[c])
           /\ SameA(sig[c], T[c]) /\ RulesB(T[c])
           /\ sig[c].bInvite => RulesB([T[c] EXCEPT !.bAnswered = TRUE])
<1>1. sig[c] \in Signalling /\ Ruled(sig[c]) /\ sig \in Sig
  BY RecordTyped DEF DialogInv
<1>2. FinalRecord(sig[c]) \in Signalling
  BY <1>1 DEF FinalRecord, Signalling
<1>3. T = At(c, FinalRecord(sig[c]))
  BY <1>1 DEF Final, Forget, At, FinalRecord, Sig, Signalling
<1>4. T \in Sig /\ Others(sig, T, c) /\ T[c] = FinalRecord(sig[c])
  BY <1>2, <1>3, AtOn
<1>5. QED
  BY <1>1, <1>4 DEF Ruled, RulesB, SameA, KeptA, FinalRecord, Signalling

LEMMA AnsweredOn ==
    ASSUME DialogInv, NEW c \in Calls, NEW t \in Tags, NEW T, T = Answered(c, t),
           sig[c].bInvite
    PROVE  /\ T \in Sig /\ Others(sig, T, c)
           /\ SameA(sig[c], T[c]) /\ RulesB(T[c]) /\ T[c].bInvite
           /\ T[c].bAnswered /\ T[c].bFinal
<1>1. sig[c] \in Signalling /\ Ruled(sig[c]) /\ sig \in Sig
  BY RecordTyped DEF DialogInv
<1>2. AnsweredRecord(sig[c], t) \in Signalling
  BY <1>1 DEF AnsweredRecord, FinalRecord, Signalling
<1>3. Final(c) \in Sig /\ Final(c)[c] = FinalRecord(sig[c]) /\ Others(sig, Final(c), c)
  BY FinalOn
<1>4. T[c] = AnsweredRecord(sig[c], t) /\ Others(sig, T, c) /\ T \in Sig
  BY <1>2, <1>3 DEF Answered, AnsweredRecord, Others, Sig, Signalling
<1>5. QED
  BY <1>1, <1>4 DEF Ruled, RulesB, SameA, KeptA, AnsweredRecord, FinalRecord, Signalling

LEMMA TaggedOn ==
    ASSUME DialogInv, NEW c \in Calls, NEW t \in Tags \cup {NoTag},
           NEW T, T \in {Tagged(c, t), Provisional(c)}
    PROVE  /\ T \in Sig /\ Others(sig, T, c)
           /\ SameA(sig[c], T[c]) /\ KeptButProvisional(sig[c], T[c]) /\ RulesB(T[c])
<1>1. sig[c] \in Signalling /\ Ruled(sig[c]) /\ sig \in Sig
  BY RecordTyped DEF DialogInv
<1> DEFINE p == [sig[c] EXCEPT !.bProvisional = TRUE]
           q == [sig[c] EXCEPT !.bProvisional = TRUE, !.bTag = t]
<1>2. p \in Signalling /\ q \in Signalling
  BY <1>1 DEF Signalling
<1>3. T = At(c, p) \/ T = At(c, q)
  BY <1>1 DEF Tagged, Provisional, At, Sig, Signalling
<1>4. T \in Sig /\ Others(sig, T, c) /\ T[c] \in {p, q}
  BY <1>2, <1>3, AtOn
<1>5. CASE T[c] = p
  BY <1>1, <1>4, <1>5 DEF Ruled, RulesB, SameA, KeptA, KeptButProvisional, Signalling
<1>6. CASE T[c] = q
  BY <1>1, <1>4, <1>6 DEF Ruled, RulesB, SameA, KeptA, KeptButProvisional, Signalling
<1>7. QED
  BY <1>4, <1>5, <1>6

(* Until leg B has answered, leg A of its call was not told that it did.   *)
LEMMA LegAWaits ==
    ASSUME DialogInv, NEW c \in known, c \in Calls, sig[c].bInvite,
           c \notin ended => ~sig[c].bAnswered
    PROVE  /\ WellBehaved => OverA(sig[c])
           /\ c \notin ended => sig[c].aStatus # "ok"
<1>1. Dialog(c, sig[c]) /\ sig[c].kind = "bridge"
  BY DEF DialogInv, Dialog, Ruled, RulesB
<1>2. CASE c \in ended
  BY <1>1, <1>2 DEF Dialog, Over
<1>3. CASE c \notin ended
  BY <1>1, <1>3 DEF Dialog, Underway, OverA
<1>4. QED
  BY <1>2, <1>3

(* Rejecting a call whose leg A waits closes it.                           *)
LEMMA RejectKeeps ==
    ASSUME DialogInv, NEW c \in Calls, NEW S, S \in Sig, Others(sig, S, c),
           SameA(sig[c], S[c]), RulesB(S[c]), S[c].bInvite = sig[c].bInvite,
           WellBehaved => OverA(sig[c]), Finishes(c, Reject(S, c))
    PROVE  Handled
<1>1. PICK T : T = Reject(S, c)
  OBVIOUS
<1>2. Ruled(S[c]) /\ (WellBehaved => OverA(S[c]))
  BY RecordTyped DEF Ruled, RulesA, OverA, SameA, KeptA
<1>3. Closed(S, T, c)
  BY <1>1, <1>2, RejectCloses
<1>4. Closed(sig, T, c)
  BY <1>3, ClosedAfter DEF SameA
<1>5. QED
  BY <1>1, <1>4, FinishesKeeps

LEMMA LateProvisionalKeeps ==
    ASSUME DialogInv, NEW c \in Calls, LateProvisional(c)
    PROVE  Handled
<1>1. PICK P : P = Provisional(c)
  OBVIOUS
<1>2. /\ P \in Sig /\ Others(sig, P, c) /\ SameA(sig[c], P[c])
      /\ KeptButProvisional(sig[c], P[c]) /\ RulesB(P[c])
  BY <1>1, TaggedOn
<1>3. PICK T : /\ Signal(T)
               /\ \/ T = P /\ c \notin ended
                  \/ T = SendCancelB(P, c)
  BY <1>1 DEF LateProvisional, Live
<1>4. CASE T = P /\ c \notin ended
  BY <1>2, <1>3, <1>4, LegBKeeps DEF KeptButProvisional
<1>5. CASE T = SendCancelB(P, c)
  <2>1. /\ T \in Sig /\ Others(P, T, c) /\ SameA(P[c], T[c]) /\ KeptB(P[c], T[c])
        /\ T[c].bBye = P[c].bBye
        /\ T[c].bCancel => T[c].cancelWanted
        /\ OverRinging(T[c])
    BY <1>2, <1>5, SendCancelBOn DEF RulesB
  <2>2. SameA(sig[c], T[c]) /\ Others(sig, T, c)
    BY <1>2, <2>1, OthersFollow DEF SameA, KeptA
  <2>3. RulesB(T[c])
    BY <1>2, <2>1 DEF RulesB, SameA, KeptA, KeptB
  <2>4. T[c].bInvite = sig[c].bInvite /\ T[c].bAnswered = sig[c].bAnswered
    BY <1>2, <2>1 DEF KeptB, KeptButProvisional
  <2>5. c \in known \cap ended => OverB(T[c])
    BY <1>2, <2>1, RecordTyped DEF Dialog, Over, OverB, KeptB, KeptButProvisional
  <2>6. QED
    BY <1>3, <2>1, <2>2, <2>3, <2>4, <2>5, LegBKeeps
<1>6. QED
  BY <1>3, <1>4, <1>5

LEMMA RingingKeeps ==
    ASSUME DialogInv, NEW c \in Calls, NEW t \in Tags \cup {NoTag}, Ringing(c, t)
    PROVE  Handled
<1>1. PICK T : T = Tagged(c, t)
  OBVIOUS
<1>2. Signal(T) /\ c \notin ended
  BY <1>1 DEF Ringing, Proceeding, Live
<1>3. /\ T \in Sig /\ Others(sig, T, c) /\ SameA(sig[c], T[c])
      /\ KeptButProvisional(sig[c], T[c]) /\ RulesB(T[c])
  BY <1>1, TaggedOn
<1>4. QED
  BY <1>2, <1>3, LegBKeeps DEF KeptButProvisional

LEMMA EarlyMediaKeeps ==
    ASSUME DialogInv, OInv, NEW c \in Calls, NEW t \in Tags \cup {NoTag}, EarlyMedia(c, t)
    PROVE  Handled
<1>1. PICK T : T = Tagged(c, t)
  OBVIOUS
<1>2. Connects(c, T) /\ c \notin ended /\ c \in known /\ sig[c].bInvite /\ ~sig[c].bFinal
  BY <1>1 DEF EarlyMedia, Proceeding, Live, FromB
<1>3. /\ T \in Sig /\ Others(sig, T, c) /\ SameA(sig[c], T[c])
      /\ KeptButProvisional(sig[c], T[c]) /\ RulesB(T[c])
  BY <1>1, TaggedOn
<1>4. Dialog(c, sig[c]) /\ ~sig[c].bAnswered
  BY <1>2, RecordTyped DEF Ruled, RulesB
<1>5. sig[c].aStatus # "ok"
  BY <1>2, <1>4, LegAWaits
<1>6. Ruled(T[c]) /\ Guarded(T[c])
  BY <1>2, <1>3, <1>4 DEF Dialog, Ruled, RulesA, Guarded, SameA, KeptA
<1>7. QED
  BY <1>2, <1>3, <1>5, <1>6, ConnectsKeeps DEF SameA, KeptButProvisional

LEMMA BadProvisionalKeeps ==
    ASSUME DialogInv, NEW c \in Calls, NEW t \in Tags \cup {NoTag}, BadProvisional(c, t)
    PROVE  Handled
<1>1. PICK S : S = IF Conflict(c, t) THEN Provisional(c) ELSE Tagged(c, t)
  OBVIOUS
<1>2. Finishes(c, Reject(S, c)) /\ c \in known /\ sig[c].bInvite /\ ~sig[c].bFinal
  BY <1>1 DEF BadProvisional, Proceeding, FromB
<1>3. /\ S \in Sig /\ Others(sig, S, c) /\ SameA(sig[c], S[c])
      /\ KeptButProvisional(sig[c], S[c]) /\ RulesB(S[c])
  BY <1>1, TaggedOn
<1>4. ~sig[c].bAnswered
  BY <1>2, RecordTyped DEF Ruled, RulesB
<1>5. WellBehaved => OverA(sig[c])
  BY <1>2, <1>4, LegAWaits
<1>6. QED
  BY <1>2, <1>3, <1>5, RejectKeeps DEF KeptButProvisional

LEMMA FinalKeeps ==
    ASSUME DialogInv, NEW c \in Calls
    PROVE  /\ Signal(Final(c)) => Handled
           /\ c \in known /\ sig[c].bInvite /\ Finishes(c, Reject(Final(c), c))
              /\ (WellBehaved /\ c \notin ended => ~sig[c].bAnswered) => Handled
<1>1. PICK S : S = Final(c)
  OBVIOUS
<1>2. /\ S \in Sig /\ Others(sig, S, c) /\ S[c] = FinalRecord(sig[c])
      /\ SameA(sig[c], S[c]) /\ RulesB(S[c])
  BY <1>1, FinalOn
<1>3. /\ S[c].bInvite = sig[c].bInvite /\ S[c].bAnswered = sig[c].bAnswered /\ S[c].bFinal
      /\ S[c].bBye = sig[c].bBye /\ S[c].bHung = sig[c].bHung /\ S[c].bFlow = sig[c].bFlow
      /\ S[c].cancelled = sig[c].cancelled
  BY <1>2, RecordTyped DEF FinalRecord, Signalling
<1>4. ASSUME Signal(S) PROVE Handled
  <2>1. c \in known \cap ended => OverB(S[c]) /\ OverRinging(S[c])
    BY <1>3, RecordTyped DEF Dialog, Over, OverB, OverRinging
  <2>2. QED
    BY <1>2, <1>3, <1>4, <2>1, LegBKeeps
<1>5. ASSUME c \in known, sig[c].bInvite, Finishes(c, Reject(S, c)),
             WellBehaved /\ c \notin ended => ~sig[c].bAnswered
      PROVE  Handled
  <2>1. WellBehaved => OverA(sig[c])
    BY <1>5, LegAWaits
  <2>2. QED
    BY <1>2, <1>3, <1>5, <2>1, RejectKeeps
<1>6. QED
  BY <1>1, <1>4, <1>5

LEMMA Failure300Keeps ==
    ASSUME DialogInv, NEW c \in Calls, Failure300(c)
    PROVE  Handled
<1>1. Signal(Final(c)) \/ Finishes(c, Reject(Final(c), c))
  BY DEF Failure300
<1>2. c \in known /\ sig[c].bInvite /\ (WellBehaved => ~sig[c].bAnswered)
  BY DEF Failure300, MayRefuse, Accepted, FromB
<1>3. QED
  BY <1>1, <1>2, FinalKeeps

LEMMA UnusableOkKeeps ==
    ASSUME DialogInv, NEW c \in Calls, UnusableOk(c)
    PROVE  Handled
<1>1. Finishes(c, Reject(Final(c), c)) /\ (WellBehaved => ~sig[c].bFinal)
  BY DEF UnusableOk
<1>2. c \in known /\ sig[c].bInvite
  BY DEF UnusableOk, MayAccept, FromB
<1>3. WellBehaved => ~sig[c].bAnswered
  BY <1>1, RecordTyped DEF Ruled, RulesB
<1>4. QED
  BY <1>1, <1>2, <1>3, FinalKeeps

RetriedRecord(r) ==
    [r EXCEPT !.txs = @ \ {"INVITE"}, !.challenges = @ + 1, !.bProvisional = FALSE,
              !.bFinal = FALSE, !.bCancel = FALSE, !.bTag = NoTag]

LEMMA RetriedOn ==
    ASSUME DialogInv, NEW c \in Calls, MayRetry(c), NEW T, T = Retried(c),
           ~sig[c].bAnswered
    PROVE  /\ T \in Sig /\ Others(sig, T, c) /\ SameA(sig[c], T[c]) /\ RulesB(T[c])
           /\ T[c].bInvite = sig[c].bInvite
<1> DEFINE r == sig[c]
           q == RetriedRecord(r)
<1>1. /\ r \in Signalling /\ RulesB(r) /\ sig \in Sig
      /\ r.challenges < MaxChallenges /\ r.kind = "bridge"
  BY RecordTyped DEF DialogInv, Ruled, RulesB, MayRetry
<1>2. q \in Signalling
  <2>1. r.challenges \in 0..MaxChallenges
    BY <1>1 DEF Signalling
  <2>2. PICK n : n = r.challenges
    OBVIOUS
  <2>3. MaxChallenges \in Nat
    BY ControlAssumption
  <2>4. n + 1 \in 0..MaxChallenges
    BY <1>1, <2>1, <2>2, <2>3
  <2>5. QED
    BY <1>1, <2>2, <2>4 DEF RetriedRecord, Signalling
<1>3. PICK S : S = At(c, q)
  OBVIOUS
<1>4. S \in Sig /\ Others(sig, S, c) /\ S[c] = q
  BY <1>2, <1>3, AtOn
<1>5. T = StartTransaction(S, c, "INVITE")
  BY <1>1, <1>3 DEF Retried, Forget, At, RetriedRecord, Sig, Signalling
<1> HIDE DEF q
<1>6. PICK x \in SUBSET Transactions : T = WithTxs(S, c, x)
  <2>1. "INVITE" \in Transactions
    BY DEF Transactions
  <2>2. QED
    BY <1>4, <1>5, <2>1, StartTransactionOn
<1>7. T[c] = [q EXCEPT !.txs = x] /\ Others(S, T, c)
  BY <1>4, <1>6 DEF WithTxs, Others, Sig
<1>8. T[c] \in Signalling /\ T \in Sig
  BY <1>2, <1>4, <1>6, <1>7 DEF WithTxs, Signalling, Sig
<1>9. Others(sig, T, c)
  BY <1>4, <1>7, OthersFollow
<1>10. SameA(r, T[c]) /\ T[c].bInvite = r.bInvite
  BY <1>1, <1>2, <1>7 DEF q, RetriedRecord, SameA, KeptA, Signalling
<1>11. RulesB(T[c])
  <2>1. T[c].kind = r.kind /\ ~T[c].bAnswered /\ T[c].answer = r.answer /\ ~T[c].bCancel
    BY <1>1, <1>2, <1>7 DEF q, RetriedRecord, Signalling
  <2>2. QED
    BY <1>1, <1>10, <2>1 DEF RulesB
<1>12. QED
  BY <1>8, <1>9, <1>10, <1>11

LEMMA ForgetKeeps ==
    ASSUME DialogInv, NEW c \in Calls, NEW ms, Signal(Forget(sig, c, ms))
    PROVE  Handled
<1> DEFINE q == [sig[c] EXCEPT !.txs = @ \ ms]
<1>1. sig[c] \in Signalling /\ Dialog(c, sig[c]) /\ RulesB(sig[c])
  BY RecordTyped DEF Ruled
<1>2. q \in Signalling
  BY <1>1 DEF Signalling
<1>3. PICK T : T = At(c, q)
  OBVIOUS
<1>4. Signal(T)
  BY <1>3 DEF Forget, At
<1>5. T \in Sig /\ Others(sig, T, c) /\ T[c] = q
  BY <1>2, <1>3, AtOn
<1>6. SameA(sig[c], q) /\ RulesB(q) /\ q.bInvite = sig[c].bInvite /\ q.bAnswered = sig[c].bAnswered
  BY <1>1 DEF SameA, KeptA, RulesB, Signalling
<1>7. c \in known \cap ended => OverB(q) /\ OverRinging(q)
  BY <1>1 DEF Dialog, Over, OverB, OverRinging, Signalling
<1> HIDE DEF q
<1>8. QED
  BY <1>4, <1>5, <1>6, <1>7, LegBKeeps

LEMMA ChallengeKeeps ==
    ASSUME DialogInv, NEW c \in Calls, NEW acceptable \in BOOLEAN, Challenge(c, acceptable)
    PROVE  Handled
<1>1. CASE Signal(Forget(sig, c, {"INVITE"}))
  BY <1>1, ForgetKeeps
<1>2. CASE /\ c \notin ended /\ ~sig[c].bAnswered /\ MayRetry(c) /\ Signal(Retried(c))
  <2>1. PICK T : T = Retried(c)
    OBVIOUS
  <2>2. /\ T \in Sig /\ Others(sig, T, c) /\ SameA(sig[c], T[c]) /\ RulesB(T[c])
        /\ T[c].bInvite = sig[c].bInvite
    BY <1>2, <2>1, RetriedOn
  <2>3. QED
    BY <1>2, <2>1, <2>2, LegBKeeps
<1>3. CASE ~sig[c].bAnswered /\ Finishes(c, Reject(Final(c), c))
  <2>1. c \in known /\ sig[c].bInvite
    BY DEF Challenge, MayRefuse, FromB
  <2>2. QED
    BY <1>3, <2>1, FinalKeeps
<1>4. QED
  BY <1>1, <1>2, <1>3 DEF Challenge, Live

LEMMA CleanupOn ==
    ASSUME NEW S \in Sig, NEW c \in Calls, NEW t \in Tags,
           NEW T, T = CleanupUnselectedFork(S, c, t)
    PROVE  T \in Sig /\ Others(S, T, c) /\ SameA(S[c], T[c]) /\ SameB(S[c], T[c])
<1> DEFINE q == [S[c] EXCEPT !.forks = @ \cup {t}]
<1>1. S[c] \in Signalling
  BY DEF Sig
<1>2. CASE T = S
  BY <1>1, <1>2 DEF Others, SameA, SameB, KeptA, KeptB
<1>3. CASE T = StartTransaction([S EXCEPT ![c].forks = @ \cup {t}], c, t)
  <2>1. q \in Signalling
    BY <1>1 DEF Signalling
  <2>2. PICK U : U = [S EXCEPT ![c].forks = @ \cup {t}]
    OBVIOUS
  <2>3. U \in Sig /\ U[c] = q /\ Others(S, U, c)
    BY <2>1, <2>2 DEF Sig, Others
  <2> HIDE DEF q
  <2>4. T \in Sig /\ Others(U, T, c) /\ SameA(q, T[c]) /\ SameB(q, T[c])
    BY <1>3, <2>2, <2>3, RequestOn, ControlAssumption DEF Transactions
  <2>5. SameA(S[c], q) /\ SameB(S[c], q)
    BY <1>1 DEF q, SameA, SameB, KeptA, KeptB, Signalling
  <2>6. QED
    BY <2>3, <2>4, <2>5, OthersFollow DEF SameA, SameB, KeptA, KeptB
<1>4. QED
  BY <1>2, <1>3 DEF CleanupUnselectedFork

LEMMA OtherForkOkKeeps ==
    ASSUME DialogInv, NEW c \in Calls, NEW t \in Tags, OtherForkOk(c, t)
    PROVE  Handled
<1>1. PICK S : S = Final(c)
  OBVIOUS
<1>2. PICK T : T = CleanupUnselectedFork(S, c, t)
  OBVIOUS
<1>3. Signal(T)
  BY <1>1, <1>2 DEF OtherForkOk
<1>4. /\ S \in Sig /\ Others(sig, S, c) /\ S[c] = FinalRecord(sig[c])
      /\ SameA(sig[c], S[c]) /\ RulesB(S[c])
  BY <1>1, FinalOn
<1>5. /\ S[c].bInvite = sig[c].bInvite /\ S[c].bAnswered = sig[c].bAnswered /\ S[c].bFinal
      /\ S[c].bBye = sig[c].bBye /\ S[c].bHung = sig[c].bHung /\ S[c].bFlow = sig[c].bFlow
      /\ S[c].cancelled = sig[c].cancelled
  BY <1>4, RecordTyped DEF FinalRecord, Signalling
<1>6. T \in Sig /\ Others(S, T, c) /\ SameA(S[c], T[c]) /\ SameB(S[c], T[c])
  BY <1>2, <1>4, CleanupOn
<1>7. SameA(sig[c], T[c]) /\ Others(sig, T, c)
  BY <1>4, <1>6, OthersFollow DEF SameA, KeptA
<1>8. RulesB(T[c])
  BY <1>4, <1>6 DEF RulesB, SameA, KeptA, SameB, KeptB
<1>9. c \in known \cap ended => OverB(T[c]) /\ OverRinging(T[c])
  BY <1>5, <1>6, RecordTyped DEF Dialog, Over, OverB, OverRinging, SameB, KeptB
<1>10. QED
  BY <1>3, <1>5, <1>6, <1>7, <1>8, <1>9, LegBKeeps DEF SameB, KeptB

(* A 200 that comes after the call ended is hung up at once.               *)
LEMMA SendByeBKeeps ==
    ASSUME DialogInv, NEW c \in Calls, NEW S, S \in Sig, Others(sig, S, c),
           SameA(sig[c], S[c]), RulesB(S[c]), S[c].bInvite = sig[c].bInvite,
           S[c].bAnswered, S[c].bFinal, Signal(SendByeB(S, c))
    PROVE  Handled
<1>1. PICK T : T = SendByeB(S, c)
  OBVIOUS
<1>2. /\ T \in Sig /\ Others(S, T, c) /\ SameA(S[c], T[c]) /\ KeptB(S[c], T[c])
      /\ T[c].cancelWanted = S[c].cancelWanted /\ T[c].bCancel = S[c].bCancel
      /\ T[c].bBye
  BY <1>1, SendByeBOn
<1>3. SameA(sig[c], T[c]) /\ Others(sig, T, c)
  BY <1>2, OthersFollow DEF SameA, KeptA
<1>4. RulesB(T[c]) /\ OverB(T[c]) /\ OverRinging(T[c])
  BY <1>2 DEF RulesB, SameA, KeptA, KeptB, OverB, OverRinging
<1>5. QED
  BY <1>1, <1>2, <1>3, <1>4, LegBKeeps DEF KeptB

LEMMA RepeatedOkKeeps ==
    ASSUME DialogInv, NEW c \in Calls, NEW t \in Tags, RepeatedOk(c, t)
    PROVE  Handled
<1>1. CASE Signal(Final(c))
  BY <1>1, FinalKeeps
<1>2. CASE Signal(SendByeB(Final(c), c))
  <2>1. PICK S : S = Final(c)
    OBVIOUS
  <2>2. /\ S \in Sig /\ Others(sig, S, c) /\ S[c] = FinalRecord(sig[c])
        /\ SameA(sig[c], S[c]) /\ RulesB(S[c])
    BY <2>1, FinalOn
  <2>3. sig[c].bAnswered
    BY DEF RepeatedOk
  <2>4. S[c].bInvite = sig[c].bInvite /\ S[c].bAnswered /\ S[c].bFinal
    BY <2>2, <2>3, RecordTyped DEF FinalRecord, Signalling
  <2>5. QED
    BY <1>2, <2>1, <2>2, <2>4, SendByeBKeeps
<1>3. QED
  BY <1>1, <1>2 DEF RepeatedOk

LEMMA LateOkKeeps ==
    ASSUME DialogInv, NEW c \in Calls, NEW t \in Tags, LateOk(c, t)
    PROVE  Handled
<1>1. PICK S : S = Answered(c, t)
  OBVIOUS
<1>2. sig[c].bInvite /\ Signal(SendByeB(S, c))
  BY <1>1 DEF LateOk, FirstOk, MayAccept, FromB
<1>3. /\ S \in Sig /\ Others(sig, S, c) /\ SameA(sig[c], S[c]) /\ RulesB(S[c]) /\ S[c].bInvite
      /\ S[c].bAnswered /\ S[c].bFinal
  BY <1>1, <1>2, AnsweredOn
<1>4. S[c].bInvite = sig[c].bInvite
  BY <1>2, <1>3, RecordTyped DEF Sig, Signalling
<1>5. QED
  BY <1>2, <1>3, <1>4, SendByeBKeeps

LEMMA UnacceptableOkKeeps ==
    ASSUME DialogInv, NEW c \in Calls, NEW t \in Tags, UnacceptableOk(c, t)
    PROVE  Handled
<1>1. PICK S : S = Answered(c, t)
  OBVIOUS
<1>2. c \in known /\ sig[c].bInvite /\ ~sig[c].bAnswered /\ Finishes(c, Reject(S, c))
  BY <1>1 DEF UnacceptableOk, FirstOk, MayAccept, FromB
<1>3. /\ S \in Sig /\ Others(sig, S, c) /\ SameA(sig[c], S[c]) /\ RulesB(S[c]) /\ S[c].bInvite
  BY <1>1, <1>2, AnsweredOn
<1>4. S[c].bInvite = sig[c].bInvite
  BY <1>2, <1>3, RecordTyped DEF Sig, Signalling
<1>5. WellBehaved => OverA(sig[c])
  BY <1>2, LegAWaits
<1>6. QED
  BY <1>2, <1>3, <1>4, <1>5, RejectKeeps

LEMMA OkKeeps ==
    ASSUME DialogInv, OInv, NEW c \in Calls, NEW t \in Tags, Ok(c, t)
    PROVE  Handled
<1>1. PICK S : S = Answered(c, t)
  OBVIOUS
<1>2. PICK v : v = connectVersion[c] + 1
  OBVIOUS
<1>3. PICK U : U = [S EXCEPT ![c].answer = v]
  OBVIOUS
<1>4. /\ c \in known /\ c \notin ended /\ sig[c].bInvite /\ ~sig[c].bAnswered
      /\ Connects(c, U)
  BY <1>1, <1>2, <1>3 DEF Ok, FirstOk, MayAccept, FromB, Live
<1>5. v \in Versions
  <2>1. connectVersion[c] \in Versions /\ connectVersion[c] < MaxConnects
    BY <1>4 DEF Connects, Connect, OInv, Ground, IInv, FlagsTyped
  <2>2. QED
    BY <1>2, <2>1, PoolAssumption DEF Versions
<1>6. /\ S \in Sig /\ Others(sig, S, c) /\ SameA(sig[c], S[c]) /\ RulesB(S[c]) /\ S[c].bInvite
      /\ S[c].bAnswered
  BY <1>1, <1>4, AnsweredOn
<1>7. U[c] = [S[c] EXCEPT !.answer = v] /\ U \in Sig /\ Others(S, U, c) /\ S[c] \in Signalling
  BY <1>3, <1>5, <1>6 DEF Sig, Others, Signalling
<1>8. SameA(sig[c], U[c]) /\ U[c].bInvite /\ RulesB(U[c])
  BY <1>6, <1>7 DEF SameA, KeptA, RulesB, Signalling
<1>9. sig[c].aStatus # "ok"
  BY <1>4, LegAWaits
<1>10. Ruled(U[c]) /\ Guarded(U[c]) /\ U[c].aStatus # "ok"
  BY <1>4, <1>8, <1>9, RecordTyped DEF Dialog, Ruled, RulesA, Guarded, SameA, KeptA
<1>11. Others(sig, U, c)
  BY <1>6, <1>7, OthersFollow
<1>12. QED
  BY <1>4, <1>7, <1>8, <1>10, <1>11, ConnectsKeeps

LEMMA FromLegBKeeps ==
    ASSUME DialogInv, OInv, NEW c \in Calls, FromLegB(c)
    PROVE  Handled
  BY LateProvisionalKeeps, Failure300Keeps, UnusableOkKeeps, RingingKeeps, EarlyMediaKeeps,
     BadProvisionalKeeps, ChallengeKeeps, OtherForkOkKeeps, RepeatedOkKeeps, LateOkKeeps,
     UnacceptableOkKeeps, OkKeeps DEF FromLegB

-----------------------------------------------------------------------------
(* Requests of the legs and of the applications, and lost connections.     *)

(* A leg B whose leg A has been answered rings no more.                    *)
LEMMA AnsweredRingsNoMore ==
    ASSUME DialogInv, NEW c \in Calls, c \in known, c \in ended \/ sig[c].aStatus = "ok"
    PROVE  OverRinging(sig[c])
<1>1. Dialog(c, sig[c]) /\ RulesB(sig[c])
  BY RecordTyped DEF Ruled
<1>2. CASE c \in ended
  BY <1>1, <1>2 DEF Dialog, Over
<1>3. CASE c \notin ended
  BY <1>1, <1>3 DEF Dialog, Underway, RulesB, OverRinging
<1>4. QED
  BY <1>2, <1>3

(* Ending a call from the record S of it closes it, if it closes S.        *)
LEMMA ClosesKeeps ==
    ASSUME DialogInv, NEW c \in Calls, NEW S, NEW T, Others(sig, S, c), Closed(S, T, c),
           S[c].bInvite => sig[c].bInvite, S[c].aStatus = "ok" => sig[c].aStatus = "ok",
           Finishes(c, T)
    PROVE  Handled
  BY ClosedAfter, FinishesKeeps

LEMMA AckAKeeps ==
    ASSUME DialogInv, NEW c \in Calls, AckA(c)
    PROVE  Handled
<1> DEFINE q == [sig[c] EXCEPT !.aAck = TRUE, !.uasPending = FALSE,
                               !.timers = @ \ {"uas_expire"}]
           p == [q EXCEPT !.established = TRUE, !.timers = @ \cup {"max_duration"}]
<1>1. sig[c] \in Signalling /\ Dialog(c, sig[c]) /\ sig \in Sig
  BY RecordTyped DEF DialogInv
<1>2. c \in known /\ sig[c].aStatus # "trying" /\ ~sig[c].aAck
  BY DEF AckA, FromA
<1>3. q \in Signalling /\ p \in Signalling
  <2>1. q \in Signalling
    BY <1>1 DEF Signalling, Deadlines
  <2> HIDE DEF q
  <2>2. p \in Signalling
    BY <2>1 DEF Signalling, Deadlines
  <2>3. QED
    BY <2>1, <2>2
<1>4. \/ Signal(At(c, p)) /\ sig[c].aStatus = "ok" /\ c \notin ended
      \/ Signal(At(c, q)) /\ ~(sig[c].aStatus = "ok" /\ c \notin ended)
  <2>1. At(c, q) = [sig EXCEPT ![c].aAck = TRUE, ![c].uasPending = FALSE,
                               ![c].timers = @ \ {"uas_expire"}]
    BY <1>1 DEF At, Sig
  <2>2. At(c, q) \in Sig /\ At(c, q)[c] = q
    BY <1>1, <1>3, AtOn
  <2>3. At(c, p) = Establish(At(c, q), c)
    <3> HIDE DEF q
    <3>1. ASSUME NEW U \in Sig, U[c] = q PROVE Establish(U, c) = [U EXCEPT ![c] = p]
      BY <1>3, <3>1, ZenonT(40) DEF Establish, Sig, Signalling
    <3>2. [At(c, q) EXCEPT ![c] = p] = At(c, p)
      BY <1>1 DEF At, Sig
    <3>3. QED
      BY <2>2, <3>1, <3>2
  <2> HIDE DEF q, p
  <2>4. QED
    BY <2>1, <2>3 DEF AckA, Live
<1>5. Ruled(q) /\ Ruled(p)
  BY <1>1, <1>2 DEF Dialog, Ruled, RulesA, RulesB, Signalling
<1>6. /\ c \in pending => q.aStatus # "ok" /\ ~q.bInvite /\ p.aStatus # "ok" /\ ~p.bInvite
      /\ c \in ended => Over(q)
      /\ q.aStatus = sig[c].aStatus /\ p.aStatus = sig[c].aStatus
  BY <1>1, <1>2 DEF Dialog, Over, OverA, OverB, OverRinging, Signalling
<1>7. CASE Signal(At(c, p)) /\ sig[c].aStatus = "ok" /\ c \notin ended
  <2>1. Guarded(p) /\ Underway(c, p)
    BY <1>1, <1>2, <1>7 DEF Dialog, Guarded, Underway, Signalling
  <2>2. Dialog(c, p)
    BY <1>5, <1>6, <1>7, <2>1 DEF Dialog
  <2> HIDE DEF p
  <2>3. PICK T : T = At(c, p)
    OBVIOUS
  <2>4. QED
    BY <1>3, <1>6, <1>7, <2>2, <2>3, AtOn, SignalKeeps
<1>8. CASE Signal(At(c, q)) /\ ~(sig[c].aStatus = "ok" /\ c \notin ended)
  <2>1. c \in ended
    BY <1>1, <1>2, <1>8 DEF Dialog, Guarded, Signalling
  <2>2. Dialog(c, q)
    BY <1>5, <1>6, <2>1 DEF Dialog
  <2> HIDE DEF q
  <2>3. PICK T : T = At(c, q)
    OBVIOUS
  <2>4. QED
    BY <1>3, <1>6, <1>8, <2>2, <2>3, AtOn, SignalKeeps
<1>9. QED
  BY <1>4, <1>7, <1>8

(* The CANCEL of leg A ends the call whatever leg B does.                  *)
LEMMA CancelAKeeps ==
    ASSUME DialogInv, NEW c \in Calls, CancelA(c)
    PROVE  Handled
<1>1. PICK U : U = AnswerA(sig, c, "failure")
  OBVIOUS
<1>2. PICK V : V = SendCancelB(U, c)
  OBVIOUS
<1>3. PICK W : W = End(V, c)
  OBVIOUS
<1>4. PICK T : T = [W EXCEPT ![c].cancelled = TRUE]
  OBVIOUS
<1>5. sig \in Sig /\ Ruled(sig[c]) /\ sig[c].aStatus = "trying" /\ Finishes(c, T)
  BY <1>1, <1>2, <1>3, <1>4, RecordTyped DEF CancelA, DialogInv
<1>6. /\ U \in Sig /\ Others(sig, U, c) /\ KeptA(sig[c], U[c]) /\ SameB(sig[c], U[c])
      /\ U[c].aStatus = "failure"
      /\ U[c].timers = (sig[c].timers \ {"setup"}) \cup {"uas_expire"}
  BY <1>1, <1>5, AnswerAOn
<1>7. Ruled(U[c])
  BY <1>5, <1>6 DEF Ruled, RulesA, RulesB, KeptA, SameB, KeptB
<1>8. /\ V \in Sig /\ Others(U, V, c) /\ SameA(U[c], V[c]) /\ KeptB(U[c], V[c])
      /\ (V[c].bCancel => V[c].cancelWanted) /\ OverRinging(V[c])
  BY <1>2, <1>6, <1>7, SendCancelBOn DEF Ruled, RulesB
<1>9. Ruled(V[c]) /\ V[c].aStatus = "failure"
  BY <1>6, <1>7, <1>8 DEF Ruled, RulesA, RulesB, SameA, KeptA, KeptB
<1>10. /\ W \in Sig /\ Others(V, W, c) /\ KeptA(V[c], W[c]) /\ SameB(V[c], W[c])
       /\ W[c].aStatus = "failure"
       /\ "setup" \in W[c].timers => "setup" \in V[c].timers
  BY <1>3, <1>8, <1>9, EndOn
<1>11. Ruled(W[c]) /\ OverRinging(W[c])
  BY <1>8, <1>9, <1>10 DEF Ruled, RulesA, RulesB, OverRinging, SameB, KeptA, KeptB
<1>12. W[c] \in Signalling
  BY <1>10 DEF Sig
<1>13. T[c] = [W[c] EXCEPT !.cancelled = TRUE] /\ Others(W, T, c)
  BY <1>4, <1>10 DEF Sig, Others
<1>14. T[c] \in Signalling /\ T \in Sig
  <2>1. [W[c] EXCEPT !.cancelled = TRUE] \in Signalling
    BY <1>12 DEF Signalling
  <2>2. QED
    BY <1>4, <1>10, <1>13, <2>1 DEF Sig
<1>15. Ruled(T[c]) /\ Over(T[c])
  BY <1>10, <1>11, <1>12, <1>13 DEF Ruled, RulesA, RulesB, Over, OverA, OverB, OverRinging,
     Signalling
<1>16. T[c].bInvite = sig[c].bInvite /\ T[c].aStatus = "failure"
  BY <1>6, <1>8, <1>10, <1>12, <1>13 DEF SameB, KeptB, Signalling
<1>17. Closed(sig, T, c)
  <2>1. Others(sig, T, c)
    BY <1>6, <1>8, <1>10, <1>13 DEF Others
  <2>2. QED
    BY <1>14, <1>15, <1>16, <2>1 DEF Closed, ClosedRecord
<1>18. QED
  BY <1>5, <1>17, FinishesKeeps

LEMMA ByeAKeeps ==
    ASSUME DialogInv, NEW c \in Calls, ByeA(c)
    PROVE  Handled
<1> DEFINE q == [sig[c] EXCEPT !.aHung = TRUE]
<1>1. /\ sig[c] \in Signalling /\ Dialog(c, sig[c]) /\ Ruled(sig[c])
      /\ c \in known /\ sig[c].aStatus = "ok"
  BY RecordTyped DEF ByeA, FromA
<1>2. q \in Signalling
  BY <1>1 DEF Signalling
<1>3. PICK S : S = At(c, q)
  OBVIOUS
<1>4. S \in Sig /\ Others(sig, S, c) /\ S[c] = q
  BY <1>2, <1>3, AtOn
<1>5. \/ c \notin ended /\ Finishes(c, End(SendByeB(S, c), c))
      \/ c \in ended /\ Signal(S)
  BY <1>3 DEF ByeA, At, Live
<1>6. OverRinging(sig[c])
  BY <1>1, AnsweredRingsNoMore
<1>7. /\ Ruled(q) /\ OverA(q) /\ OverRinging(q)
      /\ q.bInvite = sig[c].bInvite /\ q.aStatus = sig[c].aStatus
  BY <1>1, <1>6 DEF Ruled, RulesA, RulesB, OverA, OverRinging, Signalling
<1>8. CASE c \notin ended /\ Finishes(c, End(SendByeB(S, c), c))
  <2>1. PICK T : T = End(SendByeB(S, c), c)
    OBVIOUS
  <2> HIDE DEF q
  <2>2. Closed(S, T, c)
    BY <1>4, <1>7, <2>1, HangUpBCloses
  <2>3. QED
    BY <1>4, <1>7, <1>8, <2>1, <2>2, ClosesKeeps
<1>9. CASE c \in ended /\ Signal(S)
  <2>1. Dialog(c, q)
    BY <1>1, <1>7, <1>9 DEF Dialog, Over, OverB, Signalling
  <2> HIDE DEF q
  <2>2. QED
    BY <1>4, <1>7, <1>9, <2>1, SignalKeeps
<1>10. QED
  BY <1>5, <1>8, <1>9

(* Both for the BYE of leg B and for the loss of its connection.           *)
LEMMA LegBGoneKeeps ==
    ASSUME DialogInv, NEW c \in Calls, NEW q \in Signalling, NEW S, S = At(c, q),
           SameA(sig[c], q), RulesB(q), q.bInvite = sig[c].bInvite,
           sig[c].bAnswered => q.bAnswered, OverB(q), OverRinging(q),
           \/ Finishes(c, End(StopA(S, c), c))
           \/ c \in ended /\ Signal(S)
           \/ c \notin known /\ Signal(S)
    PROVE  Handled
<1>1. S \in Sig /\ Others(sig, S, c) /\ S[c] = q
  BY AtOn
<1>2. CASE Signal(S)
  BY <1>1, <1>2, LegBKeeps
<1>3. CASE Finishes(c, End(StopA(S, c), c))
  <2>1. PICK U : U = StopA(S, c)
    OBVIOUS
  <2>2. PICK T : T = End(U, c)
    OBVIOUS
  <2>3. RulesA(S[c])
    BY <1>1, RecordTyped DEF Ruled, RulesA, SameA, KeptA
  <2>4. /\ U \in Sig /\ Others(S, U, c) /\ KeptA(S[c], U[c]) /\ SameB(S[c], U[c])
        /\ RulesA(U[c]) /\ OverA(U[c])
        /\ U[c].aStatus = "ok" => S[c].aStatus = "ok"
    BY <1>1, <2>1, <2>3, StopAOn
  <2>5. Ruled(U[c]) /\ Over(U[c])
    BY <1>1, <2>4 DEF Ruled, RulesB, Over, OverB, OverRinging, SameB, KeptA, KeptB
  <2>6. Closed(U, T, c)
    BY <2>2, <2>4, <2>5, EndCloses
  <2>7. Others(sig, U, c) /\ U[c].bInvite = sig[c].bInvite
    BY <1>1, <2>4, OthersFollow DEF SameB, KeptB
  <2>8. U[c].aStatus = "ok" => sig[c].aStatus = "ok"
    BY <1>1, <2>4 DEF SameA
  <2>9. QED
    BY <1>3, <2>1, <2>2, <2>6, <2>7, <2>8, ClosesKeeps
<1>4. QED
  BY <1>2, <1>3

LEMMA ByeBKeeps ==
    ASSUME DialogInv, NEW c \in Calls, ByeB(c)
    PROVE  Handled
<1> DEFINE q == [sig[c] EXCEPT !.bHung = TRUE]
<1>1. sig[c] \in Signalling /\ RulesB(sig[c]) /\ sig[c].bAnswered
  BY RecordTyped DEF ByeB, Ruled
<1>2. /\ q \in Signalling /\ SameA(sig[c], q) /\ RulesB(q) /\ q.bInvite = sig[c].bInvite
      /\ q.bAnswered /\ OverB(q) /\ OverRinging(q)
  BY <1>1 DEF Signalling, SameA, KeptA, RulesB, OverB, OverRinging
<1>3. PICK S : S = At(c, q)
  OBVIOUS
<1>4. \/ Finishes(c, End(StopA(S, c), c))
      \/ c \in ended /\ Signal(S)
  BY <1>3 DEF ByeB, At, Live
<1> HIDE DEF q
<1>5. QED
  BY <1>2, <1>3, <1>4, LegBGoneKeeps

LEMMA FlowEndedBKeeps ==
    ASSUME DialogInv, NEW c \in Calls, FlowEndedB(c)
    PROVE  Handled
<1> DEFINE q == [sig[c] EXCEPT !.txs = @ \ (Transactions \ {"BYE A"}), !.bFlow = FALSE]
<1>1. sig[c] \in Signalling /\ RulesB(sig[c]) /\ sig \in Sig
  BY RecordTyped DEF Ruled, DialogInv
<1>2. /\ q \in Signalling /\ SameA(sig[c], q) /\ RulesB(q) /\ q.bInvite = sig[c].bInvite
      /\ q.bAnswered = sig[c].bAnswered /\ OverB(q) /\ OverRinging(q)
  <2>1. q \in Signalling
    BY <1>1 DEF Signalling
  <2>2. SameA(sig[c], q) /\ q.bInvite = sig[c].bInvite /\ q.bAnswered = sig[c].bAnswered
    BY <1>1 DEF Signalling, SameA, KeptA
  <2>3. RulesB(q)
    BY <1>1, SMTT(20) DEF Signalling, RulesB
  <2>4. OverB(q) /\ OverRinging(q)
    BY <1>1, SMTT(20) DEF Signalling, RulesB, OverB, OverRinging
  <2>5. QED
    BY <2>1, <2>2, <2>3, <2>4
<1>3. PICK S : S = At(c, q)
  OBVIOUS
<1>4. S = [Forget(sig, c, Transactions \ {"BYE A"}) EXCEPT ![c].bFlow = FALSE]
  BY <1>1, <1>3 DEF At, Forget, Sig, Signalling
<1>5. \/ Finishes(c, End(StopA(S, c), c))
      \/ c \in ended /\ Signal(S)
      \/ c \notin known /\ Signal(S)
  BY <1>4 DEF FlowEndedB, Live
<1> HIDE DEF q
<1>6. QED
  BY <1>2, <1>3, <1>5, LegBGoneKeeps

LEMMA FlowEndedAKeeps ==
    ASSUME DialogInv, NEW c \in Calls, FlowEndedA(c)
    PROVE  Handled
<1> DEFINE q == [sig[c] EXCEPT !.txs = @ \ {"BYE A"}, !.aFlow = FALSE]
           quiet(r) == [r EXCEPT !.uasPending = FALSE, !.timers = @ \ {"uas_expire"}]
           quietly(U) == [U EXCEPT ![c].uasPending = FALSE, ![c].timers = @ \ {"uas_expire"}]
<1>1. sig[c] \in Signalling /\ Dialog(c, sig[c]) /\ Ruled(sig[c]) /\ sig \in Sig
  BY RecordTyped DEF DialogInv
<1>2. /\ q \in Signalling /\ Ruled(q) /\ OverA(q) /\ ~q.aFlow
      /\ q.bInvite = sig[c].bInvite /\ q.aStatus = sig[c].aStatus
      /\ OverB(sig[c]) => OverB(q)
      /\ OverRinging(sig[c]) => OverRinging(q)
  <2>1. q \in Signalling
    BY <1>1 DEF Signalling
  <2>2. /\ ~q.aFlow /\ q.kind = sig[c].kind /\ q.timers = sig[c].timers
        /\ q.aAck = sig[c].aAck /\ q.aStatus = sig[c].aStatus /\ SameB(sig[c], q)
    BY <1>1 DEF Signalling, SameB, KeptB
  <2> HIDE DEF q
  <2>3. QED
    BY <1>1, <2>1, <2>2 DEF Ruled, RulesA, RulesB, OverA, OverB, OverRinging, SameB, KeptB
<1>3. PICK S : S = At(c, q)
  OBVIOUS
<1>4. S \in Sig /\ Others(sig, S, c) /\ S[c] = q
  BY <1>2, <1>3, AtOn
<1>5. S = [Forget(sig, c, {"BYE A"}) EXCEPT ![c].aFlow = FALSE]
  BY <1>1, <1>3 DEF At, Forget, Sig, Signalling
<1>6. \/ Finishes(c, quietly(End(StopB(S, c), c)))
      \/ c \in ended /\ Signal(quietly(S))
      \/ c \notin known /\ Signal(quietly(S))
  BY <1>5 DEF FlowEndedA, Live
<1> HIDE DEF q
<1>7. ASSUME NEW U \in Sig
      PROVE  /\ quietly(U) \in Sig /\ Others(U, quietly(U), c)
             /\ quietly(U)[c] = quiet(U[c]) /\ U[c] \in Signalling
  <2>1. U[c] \in Signalling
    BY DEF Sig
  <2>2. quiet(U[c]) \in Signalling
    BY <2>1 DEF Signalling
  <2>3. quietly(U) = [U EXCEPT ![c] = quiet(U[c])]
    BY <2>1 DEF Signalling, Sig
  <2> HIDE DEF quiet, quietly
  <2>4. QED
    BY <2>1, <2>2, <2>3 DEF Sig, Others
<1>8. ASSUME NEW r \in Signalling
      PROVE  /\ Ruled(r) => Ruled(quiet(r))
             /\ OverA(r) => OverA(quiet(r))
             /\ OverB(r) => OverB(quiet(r))
             /\ OverRinging(r) => OverRinging(quiet(r))
             /\ quiet(r).bInvite = r.bInvite /\ quiet(r).aStatus = r.aStatus
  BY DEF Signalling, Ruled, RulesA, RulesB, OverA, OverB, OverRinging
<1> HIDE DEF quiet, quietly
<1>9. CASE Finishes(c, quietly(End(StopB(S, c), c)))
  <2>1. PICK U : U = StopB(S, c)
    OBVIOUS
  <2>2. PICK V : V = End(U, c)
    OBVIOUS
  <2>3. PICK T : T = quietly(V)
    OBVIOUS
  <2>4. /\ U \in Sig /\ Others(S, U, c) /\ SameA(S[c], U[c]) /\ KeptB(S[c], U[c])
        /\ RulesB(U[c]) /\ OverB(U[c]) /\ OverRinging(U[c])
    BY <1>2, <1>4, <2>1, StopBOn DEF Ruled
  <2>5. RulesA(U[c]) /\ OverA(U[c])
    BY <1>2, <1>4, <2>4 DEF Ruled, RulesA, OverA, SameA, KeptA
  <2>6. Closed(U, V, c)
    BY <2>2, <2>4, <2>5, EndCloses DEF Ruled, Over
  <2>7. Closed(S, V, c)
    BY <2>4, <2>6, ClosedAfter DEF SameA, KeptB
  <2>8. /\ T \in Sig /\ Others(V, T, c) /\ T[c] = quiet(V[c]) /\ V[c] \in Signalling
    BY <1>7, <2>3, <2>7 DEF Closed
  <2>9. Closed(S, T, c)
    <3>1. Ruled(T[c]) /\ Over(T[c])
      BY <1>8, <2>7, <2>8 DEF Closed, ClosedRecord, Over
    <3>2. T[c].bInvite = V[c].bInvite /\ T[c].aStatus = V[c].aStatus
      BY <1>8, <2>8
    <3>3. Others(S, T, c)
      BY <2>7, <2>8, OthersFollow DEF Closed
    <3>4. QED
      BY <2>7, <2>8, <3>1, <3>2, <3>3 DEF Closed, ClosedRecord
  <2>10. QED
    BY <1>2, <1>4, <1>9, <2>1, <2>2, <2>3, <2>9, ClosesKeeps
<1>10. CASE Signal(quietly(S)) /\ (c \in ended \/ c \notin known)
  <2>1. PICK T : T = quietly(S)
    OBVIOUS
  <2>2. /\ T \in Sig /\ Others(S, T, c) /\ T[c] = quiet(q)
    BY <1>4, <1>7, <2>1
  <2>3. /\ Ruled(T[c]) /\ T[c].bInvite = sig[c].bInvite /\ T[c].aStatus = sig[c].aStatus
        /\ OverA(T[c])
        /\ OverB(sig[c]) => OverB(T[c])
        /\ OverRinging(sig[c]) => OverRinging(T[c])
    BY <1>2, <1>8, <2>2
  <2>4. Dialog(c, T[c])
    BY <1>1, <1>10, <2>3 DEF Dialog, Over
  <2>5. Others(sig, T, c)
    BY <1>4, <2>2, OthersFollow
  <2>6. QED
    BY <1>10, <2>1, <2>2, <2>3, <2>4, <2>5, SignalKeeps
<1>11. QED
  BY <1>6, <1>9, <1>10

LEMMA HangUpKeeps ==
    ASSUME DialogInv, NEW c \in Calls, HangUp(c)
    PROVE  Handled
<1>1. PICK S : S = StopA(sig, c)
  OBVIOUS
<1>2. sig \in Sig /\ Ruled(sig[c])
  BY RecordTyped DEF DialogInv
<1>3. /\ S \in Sig /\ Others(sig, S, c) /\ KeptA(sig[c], S[c]) /\ SameB(sig[c], S[c])
      /\ RulesA(S[c]) /\ OverA(S[c])
      /\ S[c].aStatus = "ok" => sig[c].aStatus = "ok"
  BY <1>1, <1>2, StopAOn DEF Ruled
<1>4. RulesB(S[c]) /\ S[c].bInvite = sig[c].bInvite
  BY <1>2, <1>3 DEF Ruled, RulesB, KeptA, SameB, KeptB
<1>5. CASE S[c].bAnswered
  <2>1. PICK T : T = End(SendByeB(S, c), c)
    OBVIOUS
  <2>2. Finishes(c, T)
    BY <1>1, <1>5, <2>1 DEF HangUp
  <2>3. OverRinging(S[c])
    BY <1>4, <1>5 DEF RulesB, OverRinging
  <2>4. Closed(S, T, c)
    BY <1>3, <1>4, <2>1, <2>3, HangUpBCloses DEF Ruled
  <2>5. QED
    BY <1>3, <1>4, <2>2, <2>4, ClosesKeeps
<1>6. CASE ~S[c].bAnswered
  <2> DEFINE q == [S[c] EXCEPT !.cancelWanted = TRUE]
  <2>1. PICK U : U = [S EXCEPT ![c].cancelWanted = TRUE]
    OBVIOUS
  <2>2. PICK V : V = SendCancelB(U, c)
    OBVIOUS
  <2>3. PICK T : T = End(V, c)
    OBVIOUS
  <2>4. Finishes(c, T)
    BY <1>1, <1>6, <2>1, <2>2, <2>3 DEF HangUp
  <2>5. S[c] \in Signalling
    BY <1>3 DEF Sig
  <2>6. q \in Signalling /\ SameA(S[c], q) /\ KeptB(S[c], q) /\ RulesB(q)
    BY <1>4, <2>5 DEF Signalling, SameA, KeptA, KeptB, RulesB
  <2>7. U \in Sig /\ U[c] = q /\ Others(S, U, c)
    BY <1>3, <2>1, <2>6 DEF Sig, Others
  <2> HIDE DEF q
  <2>8. /\ V \in Sig /\ Others(U, V, c) /\ SameA(q, V[c]) /\ KeptB(q, V[c])
        /\ (V[c].bCancel => V[c].cancelWanted) /\ OverRinging(V[c])
    BY <2>2, <2>6, <2>7, SendCancelBOn DEF RulesB
  <2>9. SameA(S[c], V[c]) /\ KeptB(S[c], V[c]) /\ Others(S, V, c)
    BY <2>6, <2>7, <2>8, OthersFollow DEF SameA, KeptA, KeptB
  <2>10. Ruled(V[c]) /\ Over(V[c])
    BY <1>3, <1>4, <1>6, <2>8, <2>9 DEF Ruled, RulesA, RulesB, Over, OverA, OverB, SameA, KeptA,
       KeptB
  <2>11. Closed(V, T, c)
    BY <2>3, <2>8, <2>10, EndCloses
  <2>12. Closed(S, T, c)
    BY <2>9, <2>11, ClosedAfter DEF SameA, KeptB
  <2>13. QED
    BY <1>3, <1>4, <2>4, <2>12, ClosesKeeps
<1>7. QED
  BY <1>5, <1>6

LEMMA AnswerLocalApplicationKeeps ==
    ASSUME DialogInv, OInv, NEW c \in Calls, AnswerLocalApplication(c)
    PROVE  Handled
<1>1. PICK T : T = AnswerA(sig, c, "ok")
  OBVIOUS
<1>2. /\ c \in known /\ c \notin ended /\ sig[c].kind = "dialplan" /\ sig[c].aStatus = "trying"
      /\ Signal(T) /\ c \in allocated
  BY <1>1 DEF AnswerLocalApplication, Live
<1>3. c \notin pending
  BY <1>2 DEF OInv, Tracked, FlagsAgree
<1>4. sig \in Sig /\ Dialog(c, sig[c]) /\ Ruled(sig[c])
  BY RecordTyped DEF DialogInv
<1>5. /\ T \in Sig /\ Others(sig, T, c)
      /\ KeptA(sig[c], T[c]) /\ SameB(sig[c], T[c]) /\ T[c].aStatus = "ok"
      /\ T[c].timers = (sig[c].timers \ {"setup"}) \cup {"uas_expire"}
  BY <1>1, <1>2, <1>4, AnswerAOn
<1>6. Ruled(T[c])
  BY <1>2, <1>4, <1>5 DEF Ruled, RulesA, RulesB, KeptA, SameB, KeptB
<1>7. Guarded(T[c]) /\ Underway(c, T[c])
  BY <1>2, <1>4, <1>5 DEF Dialog, Ruled, RulesA, Guarded, Underway, KeptA, SameB, KeptB
<1>8. Dialog(c, T[c])
  BY <1>2, <1>3, <1>6, <1>7 DEF Dialog
<1>9. QED
  BY <1>2, <1>5, <1>8, SignalKeeps

-----------------------------------------------------------------------------
(* Timers.                                                                 *)

(* What a fired timer leaves of the record before the handler goes on.     *)
Fired(r, d) == [r EXCEPT !.timers = @ \ {d}]
Quieted(r, d) == [r EXCEPT !.uasPending = FALSE, !.timers = @ \ {d}]
LEMMA FiredOn ==
    ASSUME DialogInv, NEW c \in Calls, NEW d,
           NEW q, q = Fired(sig[c], d) \/ q = Quieted(sig[c], d)
    PROVE  /\ q \in Signalling /\ Ruled(q)
           /\ KeptA(sig[c], q) /\ SameB(sig[c], q)
           /\ q.aStatus = sig[c].aStatus /\ q.aBye = sig[c].aBye
           /\ q.timers = sig[c].timers \ {d}
<1>1. sig[c] \in Signalling /\ Ruled(sig[c])
  BY RecordTyped
<1>2. q \in Signalling
  <2>1. CASE q = Fired(sig[c], d)
    BY <1>1, <2>1 DEF Fired, Signalling
  <2>2. CASE q = Quieted(sig[c], d)
    BY <1>1, <2>2, ZenonT(40) DEF Quieted, Signalling
  <2>3. QED
    BY <2>1, <2>2
<1>3. /\ KeptA(sig[c], q) /\ SameB(sig[c], q) /\ q.txs = sig[c].txs
      /\ q.aStatus = sig[c].aStatus /\ q.aBye = sig[c].aBye
      /\ q.timers = sig[c].timers \ {d}
  BY <1>1, ZenonT(40) DEF Fired, Quieted, Signalling, KeptA, SameB, KeptB
<1>4. QED
  <2>1. RulesA(q)
    <3>1. "setup" \in q.timers => "setup" \in sig[c].timers
      BY <1>3, Zenon
    <3>2. RulesA(sig[c]) /\ q.aAck = sig[c].aAck /\ q.aStatus = sig[c].aStatus
      BY <1>1, <1>3 DEF Ruled, KeptA
    <3>3. QED
      BY <3>1, <3>2, Zenon DEF RulesA
  <2>2. RulesB(q)
    BY <1>1, <1>3, ZenonT(40) DEF Ruled, RulesB, SameB, KeptA, KeptB
  <2>3. QED
    BY <1>2, <1>3, <2>1, <2>2 DEF Ruled

LEMMA SetupTimeoutKeeps ==
    ASSUME DialogInv, NEW c \in Calls, SetupTimeout(c)
    PROVE  Handled
<1>1. PICK q : q = Fired(sig[c], "setup")
  OBVIOUS
<1>2. PICK S : S = At(c, q)
  OBVIOUS
<1>3. PICK T : T = Reject(S, c)
  OBVIOUS
<1>4. sig[c] \in Signalling /\ sig \in Sig /\ Ruled(sig[c]) /\ "setup" \in sig[c].timers
  BY RecordTyped DEF DialogInv, SetupTimeout
<1>5. S = [sig EXCEPT ![c].timers = @ \ {"setup"}]
  BY <1>1, <1>2, <1>4 DEF At, Fired, Sig, Signalling
<1>6. Finishes(c, T)
  BY <1>3, <1>5 DEF SetupTimeout
<1>7. /\ q \in Signalling /\ Ruled(q) /\ KeptA(sig[c], q) /\ SameB(sig[c], q)
      /\ q.aStatus = sig[c].aStatus
  BY <1>1, FiredOn
<1>8. S \in Sig /\ Others(sig, S, c) /\ S[c] = q
  BY <1>2, <1>7, AtOn
<1>9. OverA(q)
  BY <1>4, <1>7 DEF Ruled, RulesA, OverA
<1>10. Closed(S, T, c)
  BY <1>3, <1>7, <1>8, <1>9, RejectCloses
<1>11. QED
  BY <1>6, <1>7, <1>8, <1>10, ClosesKeeps DEF SameB, KeptB

LEMMA UasExpireKeeps ==
    ASSUME DialogInv, NEW c \in Calls, UasExpire(c)
    PROVE  Handled
<1>1. PICK q : q = Quieted(sig[c], "uas_expire")
  OBVIOUS
<1>2. PICK S : S = At(c, q)
  OBVIOUS
<1>3. PICK T : T = HangUpBoth(S, c)
  OBVIOUS
<1>4. sig[c] \in Signalling /\ sig \in Sig /\ Dialog(c, sig[c]) /\ c \in known
  BY RecordTyped DEF DialogInv, UasExpire
<1>5. S = [sig EXCEPT ![c].uasPending = FALSE, ![c].timers = @ \ {"uas_expire"}]
  BY <1>1, <1>2, <1>4 DEF At, Quieted, Sig, Signalling
<1>6. \/ sig[c].aStatus = "ok" /\ c \notin ended /\ Finishes(c, T)
      \/ ~(sig[c].aStatus = "ok" /\ c \notin ended) /\ Signal(S)
  BY <1>3, <1>5 DEF UasExpire, Live
<1>7. /\ q \in Signalling /\ Ruled(q) /\ KeptA(sig[c], q) /\ SameB(sig[c], q)
      /\ q.aStatus = sig[c].aStatus /\ q.aBye = sig[c].aBye
      /\ q.timers = sig[c].timers \ {"uas_expire"}
  <2>1. PICK d : d = "uas_expire"
    OBVIOUS
  <2>2. q = Quieted(sig[c], d)
    BY <1>1, <2>1
  <2>3. QED
    BY <2>1, <2>2, FiredOn, SMTT(20)
<1>8. S \in Sig /\ Others(sig, S, c) /\ S[c] = q
  BY <1>2, <1>7, AtOn
<1>9. CASE sig[c].aStatus = "ok" /\ c \notin ended /\ Finishes(c, T)
  <2>1. OverRinging(sig[c])
    BY <1>4, <1>9, AnsweredRingsNoMore
  <2>2. OverRinging(q)
    BY <1>7, <2>1 DEF OverRinging, SameB, KeptB
  <2>3. Closed(S, T, c)
    BY <1>3, <1>7, <1>8, <2>2, HangUpBothCloses
  <2>4. QED
    BY <1>7, <1>8, <1>9, <2>3, ClosesKeeps DEF SameB, KeptB
<1>10. CASE ~(sig[c].aStatus = "ok" /\ c \notin ended) /\ Signal(S)
  <2>1. c \in known \ ended => Guarded(q) /\ Underway(c, q)
    BY <1>4, <1>7, <1>10 DEF Dialog, Guarded, Underway, KeptA, SameB, KeptB
  <2>2. c \in known \cap ended => Over(q)
    BY <1>4, <1>7 DEF Dialog, Over, OverA, OverB, OverRinging, KeptA, SameB, KeptB
  <2>3. Dialog(c, q)
    BY <1>4, <1>7, <2>1, <2>2 DEF Dialog, SameB, KeptB
  <2>4. QED
    BY <1>7, <1>8, <1>10, <2>3, SignalKeeps
<1>11. QED
  BY <1>6, <1>9, <1>10

LEMMA MaxDurationKeeps ==
    ASSUME DialogInv, NEW c \in Calls, MaxDuration(c)
    PROVE  Handled
<1>1. PICK q : q = Fired(sig[c], "max_duration")
  OBVIOUS
<1>2. PICK S : S = At(c, q)
  OBVIOUS
<1>3. PICK T : T = HangUpBoth(S, c)
  OBVIOUS
<1>4. /\ sig[c] \in Signalling /\ sig \in Sig /\ Dialog(c, sig[c])
      /\ c \in known /\ "max_duration" \in sig[c].timers
  BY RecordTyped DEF DialogInv, MaxDuration
<1>5. S = [sig EXCEPT ![c].timers = @ \ {"max_duration"}]
  BY <1>1, <1>2, <1>4 DEF At, Fired, Sig, Signalling
<1>6. Finishes(c, T)
  BY <1>3, <1>5 DEF MaxDuration
<1>7. /\ q \in Signalling /\ Ruled(q) /\ KeptA(sig[c], q) /\ SameB(sig[c], q)
      /\ q.aStatus = sig[c].aStatus
  BY <1>1, FiredOn
<1>8. S \in Sig /\ Others(sig, S, c) /\ S[c] = q
  BY <1>2, <1>7, AtOn
<1>9. c \in ended \/ sig[c].aStatus = "ok"
  BY <1>4 DEF Dialog, Guarded
<1>10. OverRinging(q)
  BY <1>4, <1>7, <1>9, AnsweredRingsNoMore DEF OverRinging, SameB, KeptB
<1>11. Closed(S, T, c)
  BY <1>3, <1>7, <1>8, <1>10, HangUpBothCloses
<1>12. QED
  BY <1>6, <1>7, <1>8, <1>11, ClosesKeeps DEF SameB, KeptB

LEMMA OutExpireKeeps ==
    ASSUME DialogInv, NEW c \in Calls, NEW m \in Transactions, OutExpire(c, m)
    PROVE  Handled
<1> DEFINE q == [sig[c] EXCEPT !.txs = @ \ {m}]
<1>1. sig[c] \in Signalling /\ Dialog(c, sig[c]) /\ RulesB(sig[c]) /\ sig \in Sig
  BY RecordTyped DEF Ruled, DialogInv
<1>2. PICK S : S = At(c, q)
  OBVIOUS
<1>3. S = Forget(sig, c, {m})
  BY <1>2 DEF At, Forget
<1>4. \/ m = "INVITE" /\ c \in known /\ c \notin ended /\ Finishes(c, Reject(S, c))
      \/ Signal(Forget(sig, c, {m}))
  BY <1>3 DEF OutExpire, Live
<1>5. CASE m = "INVITE" /\ c \in known /\ c \notin ended /\ Finishes(c, Reject(S, c))
  <2>1. "INVITE" \in sig[c].txs
    BY <1>5 DEF OutExpire
  <2>2. OverA(sig[c])
    BY <1>1, <1>5, <2>1 DEF Dialog, Underway, RulesB, OverA
  <2>3. q \in Signalling
    BY <1>1 DEF Signalling
  <2>4. SameA(sig[c], q) /\ RulesB(q) /\ q.bInvite = sig[c].bInvite
    BY <1>1 DEF SameA, KeptA, RulesB, Signalling
  <2> HIDE DEF q
  <2>5. S \in Sig /\ Others(sig, S, c) /\ S[c] = q
    BY <1>2, <2>3, AtOn
  <2>6. QED
    BY <1>5, <2>2, <2>4, <2>5, RejectKeeps
<1>6. CASE Signal(Forget(sig, c, {m}))
  BY <1>6, ForgetKeeps
<1>7. QED
  BY <1>4, <1>5, <1>6

LEMMA ForkGCKeeps ==
    ASSUME DialogInv, NEW c \in Calls, NEW t \in Tags, ForkGC(c, t)
    PROVE  Handled
<1> DEFINE q == [sig[c] EXCEPT !.forks = @ \ {t}]
<1>1. sig[c] \in Signalling /\ Dialog(c, sig[c]) /\ RulesB(sig[c])
  BY RecordTyped DEF Ruled
<1>2. q \in Signalling
  BY <1>1 DEF Signalling
<1>3. PICK T : T = At(c, q)
  OBVIOUS
<1>4. Signal(T)
  BY <1>3 DEF ForkGC, At
<1>5. T \in Sig /\ Others(sig, T, c) /\ T[c] = q
  BY <1>2, <1>3, AtOn
<1>6. SameA(sig[c], q) /\ SameB(sig[c], q)
  BY <1>1 DEF SameA, SameB, KeptA, KeptB, Signalling
<1> HIDE DEF q
<1>7. RulesB(q) /\ (c \in known \cap ended => OverB(q) /\ OverRinging(q))
  BY <1>1, <1>6 DEF RulesB, Dialog, Over, OverB, OverRinging, SameA, KeptA, SameB, KeptB
<1>8. QED
  BY <1>4, <1>5, <1>6, <1>7, LegBKeeps DEF SameB, KeptB

(* The record of a call that is forgotten starts over.                     *)
LEMMA NewCallOn ==
    ASSUME NEW k \in KindSet
    PROVE  /\ NewCall(k) \in Signalling /\ NewCall(k).kind = k
           /\ NewCall(k).aStatus = "trying" /\ ~NewCall(k).aAck
           /\ NewCall(k).timers = {"setup"} /\ NewCall(k).txs = {}
           /\ ~NewCall(k).bInvite /\ ~NewCall(k).bAnswered /\ ~NewCall(k).bCancel
           /\ NewCall(k).answer = 0
<1>1. 0 \in Versions /\ 0 \in 0..MaxChallenges
  <2>1. MaxConnects \in Nat /\ MaxChallenges \in Nat
    BY PoolAssumption, ControlAssumption
  <2>2. QED
    BY <2>1 DEF Versions
<1>2. NewCall(k) \in Signalling
  BY <1>1 DEF NewCall, Signalling, Deadlines
<1>3. QED
  BY <1>2 DEF NewCall

LEMMA ForgottenKeeps ==
    ASSUME DialogInv, NEW c \in Calls, Forgotten(c)
    PROVE  Handled
<1> DEFINE q == Deleted(sig[c])
<1>1. sig[c] \in Signalling /\ RulesB(sig[c])
  BY RecordTyped DEF Ruled
<1>2. /\ q \in Signalling /\ Ruled(q) /\ q.aStatus = "trying" /\ ~q.bInvite
  <2>1. PICK n : n = NewCall(sig[c].kind)
    OBVIOUS
  <2>2. /\ n \in Signalling /\ n.kind = sig[c].kind /\ n.aStatus = "trying" /\ ~n.aAck
        /\ ~n.bInvite /\ ~n.bAnswered /\ ~n.bCancel /\ n.answer = 0
    BY <1>1, <2>1, NewCallOn DEF Signalling
  <2>3. q = [n EXCEPT !.timers = {}, !.txs = sig[c].txs, !.aFlow = sig[c].aFlow,
                      !.bFlow = sig[c].bFlow]
    BY <2>1 DEF Deleted
  <2>4. /\ sig[c].txs \in SUBSET Transactions
        /\ sig[c].aFlow \in BOOLEAN /\ sig[c].bFlow \in BOOLEAN
    BY <1>1 DEF Signalling
  <2>5. q \in Signalling
    <3>1. PICK x : x \in SUBSET Transactions /\ x = sig[c].txs
      BY <2>4
    <3>2. PICK a : a \in BOOLEAN /\ a = sig[c].aFlow
      BY <2>4
    <3>3. PICK b : b \in BOOLEAN /\ b = sig[c].bFlow
      BY <2>4
    <3>4. [n EXCEPT !.timers = {}, !.txs = x] \in Signalling
      BY <2>2, <3>1, ZenonT(40) DEF Signalling
    <3>5. PICK m : m = [n EXCEPT !.timers = {}, !.txs = x]
      OBVIOUS
    <3>6. [m EXCEPT !.aFlow = a, !.bFlow = b] \in Signalling
      BY <3>2, <3>3, <3>4, <3>5, ZenonT(40) DEF Signalling
    <3>7. q = [m EXCEPT !.aFlow = a, !.bFlow = b]
      BY <2>2, <2>3, <3>1, <3>2, <3>3, <3>5 DEF Signalling
    <3>8. QED
      BY <3>6, <3>7
  <2>6. QED
    BY <1>1, <2>2, <2>3, <2>5 DEF Signalling, Ruled, RulesA, RulesB
<1>3. PICK T : T = At(c, q)
  OBVIOUS
<1>4. /\ sig' = T /\ known' = known \ {c}
      /\ UNCHANGED <<pending, ended, connectInFlight>>
  BY <1>3 DEF Forgotten, CallGC, At, connectVars
<1> HIDE DEF q
<1>5. T \in Sig /\ Others(sig, T, c) /\ T[c] = q
  BY <1>2, <1>3, AtOn
<1>6. ASSUME NEW d \in Calls PROVE Dialog(d, sig[d])'
  <2>1. CASE d = c
    <3>1. Ruled(sig[d])'
      BY <1>2, <1>4, <1>5, <2>1 DEF Ruled, RulesA, RulesB
    <3>2. QED
      BY <1>2, <1>4, <1>5, <2>1, <3>1 DEF Dialog
  <2>2. CASE d # c
    <3>1. sig'[d] = sig[d] /\ Dialog(d, sig[d])
      BY <1>4, <1>5, <2>2 DEF Others, DialogInv
    <3>2. QED
      BY <1>4, <2>2, <3>1 DEF Dialog, Underway, Ruled, RulesA, RulesB, Over, OverA, OverB,
         OverRinging, Guarded
  <2>3. QED
    BY <2>1, <2>2
<1>7. TimelyAnswers
  BY <1>2, <1>4, <1>5 DEF TimelyAnswers, Others
<1>8. QED
  BY <1>4, <1>5, <1>6, <1>7 DEF Handled, DialogInv, Sig, Signalling, Deadlines, Transactions,
     Versions

LEMMA TimerKeeps ==
    ASSUME DialogInv, NEW c \in Calls, TimerNext(c), ~OnReleaseRetry(c)
    PROVE  Handled
  BY SetupTimeoutKeeps, UasExpireKeeps, MaxDurationKeeps, OutExpireKeeps, ForkGCKeeps,
     ForgottenKeeps DEF TimerNext

-----------------------------------------------------------------------------
(* Admission and the results of the media pool.                            *)

(* Steps of the media protocol that tell the legs nothing.                 *)
LEMMA MediaKeeps ==
    ASSUME DialogInv, UNCHANGED <<sig, known, ended>>, pending' \subseteq pending,
           \A d \in known \ ended : connectInFlight'[d] = connectInFlight[d]
    PROVE  Handled
<1>1. ASSUME NEW d \in Calls PROVE Dialog(d, sig[d])'
  <2>1. Dialog(d, sig[d])
    BY DEF DialogInv
  <2>2. QED
    BY <2>1 DEF Dialog, Underway, Ruled, RulesA, RulesB, Over, OverA, OverB, OverRinging, Guarded
<1>2. QED
  BY <1>1 DEF Handled, TimelyAnswers, DialogInv, Sig, Signalling, Deadlines, Transactions, Versions

LEMMA PoolKeepsDialogs ==
    ASSUME DialogInv, \/ OnPool \/ OnRelease \/ OnDropped \/ Stop \/ Exit
                      \/ \E c \in Calls : OnReleaseRetry(c)
                      \/ UNCHANGED controlVars
    PROVE  Handled
<1>1. CASE OnPool \/ OnDropped
  BY <1>1, MediaKeeps DEF OnPool, OnDropped, PoolStep, DropResult, callVars, connectVars
<1>2. CASE OnRelease
  BY <1>2, MediaKeeps DEF OnRelease, ReleaseResult, connectVars
<1>3. CASE Stop \/ Exit \/ UNCHANGED controlVars
  BY <1>3, MediaKeeps DEF Stop, Exit, controlVars, vars, callVars, connectVars
<1>4. CASE \E c \in Calls : OnReleaseRetry(c)
  BY <1>4, MediaKeeps DEF OnReleaseRetry, ReleaseRetry, connectVars
<1>5. QED
  BY <1>1, <1>2, <1>3, <1>4

(* A step that concerns the live call c only, which goes on with record    *)
(* T[c] and may no longer have a connect outstanding.                      *)
LEMMA LiveKeeps ==
    ASSUME DialogInv, NEW c \in Calls, NEW T, sig' = T, T \in Sig, Others(sig, T, c),
           known' \subseteq known \cup {c}, known \subseteq known', c \in known', c \notin ended',
           ended' \ {c} = ended \ {c}, pending' \subseteq pending \cup {c},
           \A d \in Calls \ {c} : connectInFlight'[d] = connectInFlight[d],
           Ruled(T[c]), Guarded(T[c]), Underway(c, T[c])',
           c \in pending' => T[c].aStatus # "ok" /\ ~T[c].bInvite,
           sig[c].kind = "bridge" /\ sig[c].aStatus = "trying" /\ T[c].aStatus = "ok"
              => target[c] = connectVersion[c] /\ connectVersion[c] = sig[c].answer
    PROVE  Handled
<1>1. ASSUME NEW d \in Calls PROVE Dialog(d, sig[d])'
  <2>1. CASE d = c
    <3>1. Ruled(sig[d])' /\ Guarded(sig[d])' /\ Underway(d, sig[d])'
      BY <2>1 DEF Ruled, RulesA, RulesB, Guarded, Underway
    <3>2. QED
      BY <2>1, <3>1 DEF Dialog
  <2>2. CASE d # c
    <3>1. sig'[d] = sig[d] /\ Dialog(d, sig[d]) /\ connectInFlight'[d] = connectInFlight[d]
      BY <2>2 DEF Others, DialogInv
    <3>2. QED
      BY <2>2, <3>1 DEF Dialog, Underway, Ruled, RulesA, RulesB, Over, OverA, OverB, OverRinging,
         Guarded
  <2>3. QED
    BY <2>1, <2>2
<1>2. TimelyAnswers
  BY DEF TimelyAnswers, Others
<1>3. QED
  BY <1>1, <1>2 DEF Handled, DialogInv, Sig, Signalling, Deadlines, Transactions, Versions

LEMMA InviteKeeps ==
    ASSUME DialogInv, OInv, NEW c \in Calls, NEW w \in Workers, NEW k \in Kinds, Invite(c, w, k)
    PROVE  Handled
<1>1. PICK S : S = [sig EXCEPT ![c] = NewCall(k)]
  OBVIOUS
<1>2. /\ c \notin used /\ known' = known \cup {c} /\ connectInFlight' = connectInFlight
      /\ pending' \subseteq pending \cup {c}
      /\ ended' = ended \/ ended' = ended \cup {c}
      /\ sig' = IF c \in ended' THEN Reject(S, c) ELSE S
  BY <1>1 DEF Invite, Admit, connectVars
<1>3. PICK n : n = NewCall(k)
  OBVIOUS
<1>4. /\ n \in Signalling /\ n.aStatus = "trying" /\ ~n.aAck
      /\ n.timers = {"setup"} /\ n.txs = {}
      /\ ~n.bInvite /\ ~n.bAnswered /\ ~n.bCancel /\ n.answer = 0
  BY <1>3, NewCallOn, ControlAssumption
<1>5. S = At(c, n)
  BY <1>1, <1>3 DEF At
<1>6. S \in Sig /\ Others(sig, S, c) /\ S[c] = n
  BY <1>4, <1>5, AtOn
<1>7. Ruled(n) /\ OverA(n)
  BY <1>4 DEF Ruled, RulesA, RulesB, OverA
<1>8. CASE c \notin ended'
  <2>1. connectInFlight[c] = 0
    BY <1>2 DEF OInv, Tracked, Untouched
  <2>2. Guarded(n)
    BY <1>4 DEF Guarded
  <2>3. Underway(c, n)'
    BY <1>2, <1>4, <2>1 DEF Underway
  <2>4. sig' = S
    BY <1>2, <1>8
  <2>5. ended' \ {c} = ended \ {c}
    BY <1>2
  <2>6. QED
    BY <1>2, <1>4, <1>6, <1>7, <1>8, <2>2, <2>3, <2>4, <2>5, LiveKeeps
<1>9. CASE c \in ended'
  <2>1. PICK T : T = Reject(S, c)
    OBVIOUS
  <2>2. sig' = T
    BY <1>2, <1>9, <2>1
  <2>3. Closed(S, T, c)
    BY <1>6, <1>7, <2>1, RejectCloses
  <2>4. /\ T \in Sig /\ Others(sig, T, c) /\ Ruled(T[c]) /\ Over(T[c])
        /\ T[c].aStatus # "ok" /\ ~T[c].bInvite
    BY <1>4, <1>6, <2>3, OthersFollow DEF Closed, ClosedRecord
  <2>5. ASSUME NEW d \in Calls PROVE Dialog(d, sig[d])'
    <3>1. CASE d = c
      <4>1. Ruled(sig[d])' /\ Over(sig[d])'
        BY <2>2, <2>4, <3>1 DEF Ruled, RulesA, RulesB, Over, OverA, OverB, OverRinging
      <4>2. QED
        BY <1>9, <2>2, <2>4, <3>1, <4>1 DEF Dialog
    <3>2. CASE d # c
      <4>1. sig'[d] = sig[d] /\ Dialog(d, sig[d])
        BY <2>2, <2>4, <3>2 DEF Others, DialogInv
      <4>2. QED
        BY <1>2, <3>2, <4>1 DEF Dialog, Underway, Ruled, RulesA, RulesB, Over, OverA, OverB,
           OverRinging, Guarded
    <3>3. QED
      BY <3>1, <3>2
  <2>6. TimelyAnswers
    BY <2>2, <2>4 DEF TimelyAnswers, Others
  <2>7. QED
    BY <2>2, <2>4, <2>5, <2>6 DEF Handled, DialogInv, Sig, Signalling, Deadlines, Transactions,
       Versions
<1>10. QED
  BY <1>8, <1>9

(* The next result is one of its call.                                     *)
LEMMA HeadIsReplied ==
    ASSUME OInv, NEW op, Received(op), op \in Ops
    PROVE  Head(results) \in Replied(Head(results).call, op) /\ Head(results).call \in Calls
<1>1. results \in Seq(UsedResult)
  BY DEF OInv, PoolInv, ItemsOwned
<1>2. results # <<>> /\ Head(results).op = op
  BY DEF Received
<1>3. 1 \in 1..Len(results) /\ Head(results) = results[1] /\ results[1] \in UsedResult
  BY <1>1, <1>2, LenProperties, EmptySeq
<1>4. QED
  BY <1>2, <1>3 DEF Replied, Items, Is, UsedResult, Result

LEMMA OnAllocateKeeps ==
    ASSUME DialogInv, OInv, OnAllocate
    PROVE  Handled
<1>1. PICK c : c = Head(results).call
  OBVIOUS
<1>2. AllocateResult /\ Received("allocate")
  BY DEF OnAllocate, AllocateResult
<1>3. Head(results) \in Replied(c, "allocate") /\ c \in Calls
  BY <1>1, <1>2, HeadIsReplied DEF Ops
<1>4. /\ known' = known /\ c \in known /\ pending' = pending \ {c}
      /\ connectInFlight' = connectInFlight
      /\ ~Head(results).ok => ended' = ended \cup {c}
      /\ Head(results).ok => ended' = ended
  BY <1>1, <1>2 DEF AllocateResult, AllocateFailed, Finish, Received
<1>5. CASE c \in ended
  <2>1. sig' = sig /\ ended' = ended
    BY <1>1, <1>4, <1>5 DEF OnAllocate
  <2>2. QED
    BY <1>4, <2>1, MediaKeeps
<1>6. CASE c \notin ended
  <2>1. c \in pending
    BY <1>3, <1>6 DEF OInv, Tracked, AllocationTracked
  <2>2. /\ sig \in Sig /\ sig[c] \in Signalling /\ Ruled(sig[c]) /\ Guarded(sig[c])
        /\ Underway(c, sig[c]) /\ sig[c].aStatus = "trying" /\ ~sig[c].bInvite
    BY <1>3, <1>4, <1>6, <2>1, RecordTyped DEF Dialog, Guarded, DialogInv, Signalling
  <2>3. CASE ~Head(results).ok
    <3>1. PICK T : T = Reject(sig, c)
      OBVIOUS
    <3>2. sig' = T
      BY <1>1, <1>6, <2>3, <3>1 DEF OnAllocate
    <3>3. Closed(sig, T, c)
      BY <1>3, <2>2, <3>1, RejectCloses DEF OverA
    <3>4. QED
      BY <1>3, <1>4, <2>3, <3>2, <3>3, EndKeeps
  <2>4. CASE Head(results).ok
    <3>1. PICK T : T = Allocated(sig, c)
      OBVIOUS
    <3>2. sig' = T
      BY <1>1, <1>6, <2>4, <3>1 DEF OnAllocate
    <3>3. /\ T \in Sig /\ Others(sig, T, c) /\ Ruled(T[c]) /\ Guarded(T[c]) /\ Underway(c, T[c])
          /\ T[c].aStatus = "ok" => sig[c].kind # "bridge"
      <4>1. CASE sig[c].kind = "bridge"
        <5> DEFINE q == [sig[c] EXCEPT !.bInvite = TRUE]
        <5>1. q \in Signalling
          BY <2>2 DEF Signalling
        <5>2. PICK S : S = At(c, q)
          OBVIOUS
        <5>3. S \in Sig /\ Others(sig, S, c) /\ S[c] = q
          BY <1>3, <5>1, <5>2, AtOn
        <5>4. T = StartTransaction(S, c, "INVITE")
          BY <3>1, <4>1, <5>2 DEF Allocated, At
        <5> HIDE DEF q
        <5>5. PICK x \in SUBSET Transactions : T = WithTxs(S, c, x)
          <6>1. "INVITE" \in Transactions
            BY DEF Transactions
          <6>2. QED
            BY <1>3, <5>3, <5>4, <6>1, StartTransactionOn
        <5>6. T[c] = [q EXCEPT !.txs = x] /\ Others(S, T, c)
          BY <1>3, <5>3, <5>5 DEF WithTxs, Others, Sig
        <5>7. T[c] \in Signalling /\ T \in Sig
          BY <1>3, <5>1, <5>3, <5>5, <5>6 DEF WithTxs, Signalling, Sig
        <5>8. SameA(sig[c], T[c]) /\ T[c].bInvite
          BY <2>2, <5>1, <5>6 DEF q, SameA, KeptA, Signalling
        <5>9. /\ T[c].bAnswered = sig[c].bAnswered /\ T[c].answer = sig[c].answer
              /\ T[c].bCancel = sig[c].bCancel /\ T[c].cancelWanted = sig[c].cancelWanted
          BY <2>2, <5>1, <5>6 DEF q, Signalling
        <5>10. Ruled(T[c])
          BY <2>2, <4>1, <5>8, <5>9 DEF Ruled, RulesA, RulesB, SameA, KeptA
        <5>11. Guarded(T[c]) /\ Underway(c, T[c])
          BY <2>2, <5>8 DEF Guarded, Underway, SameA, KeptA
        <5>12. QED
          BY <2>2, <5>3, <5>6, <5>7, <5>8, <5>10, <5>11, OthersFollow DEF SameA
      <4>2. CASE sig[c].kind = "local"
        <5>1. T = AnswerA(sig, c, "ok")
          BY <3>1, <4>2 DEF Allocated
        <5>2. /\ T \in Sig /\ Others(sig, T, c)
              /\ KeptA(sig[c], T[c]) /\ SameB(sig[c], T[c]) /\ T[c].aStatus = "ok"
              /\ T[c].timers = (sig[c].timers \ {"setup"}) \cup {"uas_expire"}
          BY <1>3, <2>2, <5>1, AnswerAOn
        <5>3. QED
          BY <2>2, <4>2, <5>2 DEF Ruled, RulesA, RulesB, Guarded, Underway, KeptA, SameB, KeptB
      <4>3. CASE sig[c].kind = "dialplan"
        <5>1. T = sig
          BY <3>1, <4>3 DEF Allocated
        <5>2. QED
          BY <2>2, <5>1 DEF Others
      <4>4. QED
        BY <2>2, <4>1, <4>2, <4>3 DEF Signalling, KindSet
    <3>4. Underway(c, T[c])'
      BY <1>4, <3>2, <3>3 DEF Underway
    <3>5. QED
      BY <1>3, <1>4, <1>6, <2>4, <3>2, <3>3, <3>4, LiveKeeps
  <2>5. QED
    BY <2>3, <2>4
<1>7. QED
  BY <1>5, <1>6

LEMMA OnConnectKeeps ==
    ASSUME DialogInv, OInv, OnConnect
    PROVE  Handled
<1>1. PICK c : c = Head(results).call
  OBVIOUS
<1>2. PICK r : r = Head(results)
  OBVIOUS
<1>3. ConnectResult /\ Received("connect")
  BY DEF OnConnect, ConnectResult
<1>4. r \in Replied(c, "connect") /\ c \in Calls /\ r.call = c
  BY <1>1, <1>2, <1>3, HeadIsReplied DEF Ops
<1>5. connectInFlight \in [Calls -> Versions]
  BY DEF OInv, Ground, IInv, FlagsTyped
<1>6. /\ known' = known /\ c \in known /\ pending' = pending
      /\ \A d \in Calls \ {c} : connectInFlight'[d] = connectInFlight[d]
      /\ ended' = ended \/ (ended' = ended \cup {c} /\ c \notin ended)
  BY <1>1, <1>3, <1>4, <1>5 DEF ConnectResult, Received, SubmitConnect, Finish, Rejected
<1>7. sig' = CASE c \in ended' \ ended -> Reject(sig, c)
               [] CompletesAnswer(r) -> AnswerA(sig, c, "ok")
               [] OTHER -> sig
  BY <1>1, <1>2 DEF OnConnect
<1>8. CASE c \in ended
  <2>1. ended' = ended /\ ~CompletesAnswer(r)
    BY <1>4, <1>6, <1>8 DEF CompletesAnswer
  <2>2. sig' = sig
    BY <1>7, <1>8, <2>1
  <2>3. \A d \in known \ ended : connectInFlight'[d] = connectInFlight[d]
    BY <1>6, <1>8 DEF OInv, Ground, IInv, FlagsTyped
  <2>4. QED
    BY <1>6, <2>1, <2>2, <2>3, MediaKeeps
<1>9. CASE c \notin ended
  <2>1. ConnectTracked(c)
    BY <1>4 DEF OInv, Tracked
  <2>2. /\ connectInFlight[c] # 0 /\ r.ver = connectInFlight[c]
        /\ r.ok => target[c] = connectInFlight[c]
    BY <1>4, <1>6, <1>9, <2>1 DEF ConnectTracked
  <2>3. /\ sig \in Sig /\ sig[c] \in Signalling /\ Ruled(sig[c]) /\ Guarded(sig[c])
        /\ Underway(c, sig[c]) /\ sig[c].bInvite /\ sig[c].kind = "bridge"
        /\ sig[c].aStatus = "trying" /\ c \notin pending
    BY <1>4, <1>6, <1>9, <2>2, RecordTyped DEF Dialog, Underway, Guarded, Ruled, RulesB, DialogInv,
       Signalling
  <2>4. CASE c \in ended'
    <3>1. PICK T : T = Reject(sig, c)
      OBVIOUS
    <3>2. ~CompletesAnswer(r)
      BY <1>1, <1>2, <1>3, <1>4, <1>9, <2>4 DEF ConnectResult, Rejected, CompletesAnswer
    <3>3. sig' = T /\ ended' = ended \cup {c}
      BY <1>6, <1>7, <1>9, <2>4, <3>1, <3>2
    <3>4. Closed(sig, T, c)
      BY <1>4, <2>3, <3>1, RejectCloses DEF OverA
    <3>5. QED
      BY <1>4, <1>6, <3>3, <3>4, EndKeeps
  <2>5. CASE c \notin ended' /\ ~CompletesAnswer(r)
    <3>1. sig' = sig /\ ended' = ended
      BY <1>6, <1>7, <2>5
    <3>2. Underway(c, sig[c])'
      BY <2>3, <3>1 DEF Underway
    <3>3. Others(sig, sig, c)
      BY DEF Others
    <3>4. QED
      BY <1>4, <1>6, <2>3, <2>5, <3>1, <3>2, <3>3, LiveKeeps
  <2>6. CASE c \notin ended' /\ CompletesAnswer(r)
    <3>1. PICK T : T = AnswerA(sig, c, "ok")
      OBVIOUS
    <3>2. sig' = T /\ ended' = ended
      BY <1>6, <1>7, <2>6, <3>1
    <3>3. /\ r.ver = connectVersion[c] /\ ~Superseded(c) /\ r.ok /\ r.ver = sig[c].answer
      BY <1>4, <2>6 DEF CompletesAnswer
    <3>4. connectInFlight'[c] = 0
      BY <1>1, <1>2, <1>3, <1>4, <1>5, <2>2, <3>3 DEF ConnectResult, Rejected
    <3>5. /\ T \in Sig /\ Others(sig, T, c)
          /\ KeptA(sig[c], T[c]) /\ SameB(sig[c], T[c]) /\ T[c].aStatus = "ok"
          /\ T[c].timers = (sig[c].timers \ {"setup"}) \cup {"uas_expire"}
      BY <1>4, <2>3, <3>1, AnswerAOn
    <3>6. sig[c].bAnswered
      BY <2>2, <2>3, <3>3 DEF Ruled, RulesB
    <3>7. Ruled(T[c]) /\ Guarded(T[c])
      BY <2>3, <3>5 DEF Ruled, RulesA, RulesB, Guarded, KeptA, SameB, KeptB
    <3>8. Underway(c, T[c])'
      BY <3>2, <3>4, <3>5, <3>6 DEF Underway, SameB, KeptB
    <3>9. target[c] = connectVersion[c] /\ connectVersion[c] = sig[c].answer
      BY <2>2, <3>3
    <3>10. QED
      BY <1>4, <1>6, <2>3, <2>6, <3>2, <3>5, <3>7, <3>8, <3>9, LiveKeeps
  <2>7. QED
    BY <2>4, <2>5, <2>6
<1>10. QED
  BY <1>8, <1>9

LEMMA OnWorkerFailedKeeps ==
    ASSUME DialogInv, OInv, OnWorkerFailed
    PROVE  Handled
<1>1. PICK lost : lost = Owned(Head(failures))
  OBVIOUS
<1>2. PICK L : L = lost \ ended
  OBVIOUS
<1>3. PICK T : T = FailAll(L)
  OBVIOUS
<1>4. /\ sig' = T /\ known' = known /\ ended' = ended \cup lost /\ pending' = pending \ lost
      /\ \A d \in Calls \ lost : connectInFlight'[d] = connectInFlight[d]
  BY <1>1, <1>2, <1>3 DEF OnWorkerFailed, WorkerFailed
<1>5. lost \subseteq known /\ known \subseteq Calls
  BY <1>1 DEF Owned, OInv, Ground, IInv, FlagsTyped
<1>6. IsFiniteSet(L) /\ L \subseteq Calls
  BY <1>2, <1>5, FS_Subset, PoolAssumption
<1>7. /\ T \in Sig
      /\ \A c \in Calls \ L : T[c] = sig[c]
      /\ \A c \in L : ClosedRecord(sig[c], T[c])
  BY <1>3, <1>6, RecordTyped, FailAllCloses DEF DialogInv
<1>8. ASSUME NEW d \in Calls PROVE Dialog(d, sig[d])'
  <2>1. CASE d \in L
    <3>1. Ruled(sig[d])' /\ Over(sig[d])'
      BY <1>4, <1>7, <2>1 DEF ClosedRecord, Ruled, RulesA, RulesB, Over, OverA, OverB, OverRinging
    <3>2. d \notin pending' /\ d \in ended'
      BY <1>2, <1>4, <2>1
    <3>3. QED
      BY <3>1, <3>2 DEF Dialog
  <2>2. CASE d \notin L
    <3>1. sig'[d] = sig[d] /\ Dialog(d, sig[d])
      BY <1>4, <1>7, <2>2 DEF DialogInv
    <3>2. (d \in ended' <=> d \in ended) /\ (d \in pending' => d \in pending)
      BY <1>2, <1>4, <2>2
    <3>3. d \notin ended => connectInFlight'[d] = connectInFlight[d]
      BY <1>2, <1>4, <2>2
    <3>4. QED
      BY <1>4, <3>1, <3>2, <3>3 DEF Dialog, Underway, Ruled, RulesA, RulesB, Over, OverA, OverB,
         OverRinging, Guarded
  <2>3. QED
    BY <2>1, <2>2
<1>9. TimelyAnswers
  BY <1>4, <1>7 DEF TimelyAnswers, ClosedRecord
<1>10. QED
  BY <1>4, <1>7, <1>8, <1>9 DEF Handled, DialogInv, Sig, Signalling, Deadlines, Transactions,
     Versions

-----------------------------------------------------------------------------
(* The invariant, and what it means for the legs.                          *)

LEMMA InitDialogs == ControlInit => DialogInv
<1>1. SUFFICES ASSUME ControlInit PROVE DialogInv
  OBVIOUS
<1>2. PICK n : n = NewCall("bridge")
  OBVIOUS
<1>3. /\ n \in Signalling /\ n.aStatus = "trying" /\ ~n.aAck /\ n.txs = {}
      /\ ~n.bInvite /\ ~n.bAnswered /\ ~n.bCancel /\ n.answer = 0
  BY <1>2, NewCallOn DEF KindSet
<1>4. PICK q : q = [n EXCEPT !.timers = {}]
  OBVIOUS
<1>5. q \in Signalling
  BY <1>3, <1>4 DEF Signalling
<1>6. sig = [c \in Calls |-> q]
  BY <1>1, <1>2, <1>4 DEF ControlInit
<1>7. Ruled(q)
  BY <1>3, <1>4 DEF Ruled, RulesA, RulesB, Signalling
<1>8. pending = {} /\ known = {}
  BY <1>1 DEF ControlInit, Init
<1>9. QED
  BY <1>5, <1>6, <1>7, <1>8 DEF DialogInv, Dialog, Sig

LEMMA ControlNextKeeps == DialogInv /\ OInv /\ [ControlNext]_controlVars => Handled
<1>1. SUFFICES ASSUME DialogInv, OInv, [ControlNext]_controlVars PROVE Handled
  OBVIOUS
<1>2. CASE \/ OnPool \/ OnRelease \/ OnDropped \/ Stop \/ Exit \/ UNCHANGED controlVars
           \/ \E c \in Calls : OnReleaseRetry(c)
  BY <1>1, <1>2, PoolKeepsDialogs
<1>3. CASE OnAllocate \/ OnConnect \/ OnWorkerFailed
  BY <1>1, <1>3, OnAllocateKeeps, OnConnectKeeps, OnWorkerFailedKeeps
<1>4. ASSUME NEW c \in Calls, \E w \in Workers, k \in Kinds : Invite(c, w, k) PROVE Handled
  BY <1>1, <1>4, InviteKeeps
<1>5. ASSUME NEW c \in Calls, FromLegB(c) PROVE Handled
  BY <1>1, <1>5, FromLegBKeeps
<1>6. ASSUME NEW c \in Calls,
             \/ AckA(c) \/ CancelA(c) \/ ByeA(c) \/ ByeB(c)
             \/ HangUp(c) \/ AnswerLocalApplication(c) \/ FlowEndedA(c) \/ FlowEndedB(c)
      PROVE  Handled
  BY <1>1, <1>6, AckAKeeps, CancelAKeeps, ByeAKeeps, ByeBKeeps, HangUpKeeps,
     AnswerLocalApplicationKeeps, FlowEndedAKeeps, FlowEndedBKeeps
<1>7. ASSUME NEW c \in Calls, TimerNext(c), ~OnReleaseRetry(c) PROVE Handled
  BY <1>1, <1>7, TimerKeeps
<1>8. ASSUME NEW c \in Calls, NEW m \in Transactions, Completed(c, m) PROVE Handled
  BY <1>1, <1>8, ForgetKeeps DEF Completed
<1>9. QED
  BY <1>1, <1>2, <1>3, <1>4, <1>5, <1>6, <1>7, <1>8 DEF ControlNext

LEMMA InvariantDialog == ControlSpec => []DialogInv
<1>1. DialogInv /\ OInv /\ [ControlNext]_controlVars => DialogInv'
  BY ControlNextKeeps DEF Handled
<1>2. ControlSpec => []OInv
  BY ControlImplementsMedia, InvariantOInv, PTL
<1>3. QED
  BY <1>1, <1>2, InitDialogs, PTL DEF ControlSpec

(* Every variable of the controller keeps its type.                        *)
THEOREM ControlTypesHold == ControlSpec => []ControlTypeOK
<1> DEFINE PhaseOK == phase \in {"running", "draining", "exited"}
<1>1. ControlInit => PhaseOK
  BY DEF ControlInit
<1>2. PhaseOK /\ [ControlNext]_controlVars => PhaseOK'
  BY LoopKeepsPhase DEF Exit, Stop, controlVars
<1>3. ControlSpec => []PhaseOK
  BY <1>1, <1>2, PTL DEF ControlSpec
<1>4. TypeOK /\ DialogInv /\ PhaseOK => ControlTypeOK
  BY DEF ControlTypeOK, DialogInv, Sig
<1>5. ControlSpec => []TypeOK
  BY ControlImplementsMedia, TypesHold, PTL
<1>6. QED
  BY <1>3, <1>4, <1>5, InvariantDialog, PTL

(* A live call always runs a timer that ends it: setup until the final     *)
(* answer, uas_expire until the acknowledgement, max_duration after it.    *)
THEOREM LiveCallsHaveDeadlines == ControlSpec => []LiveCallHasDeadline
<1>1. DialogInv /\ OInv => LiveCallHasDeadline
  <2>1. SUFFICES ASSUME DialogInv, OInv, NEW c \in known \ ended
                 PROVE  sig[c].timers \cap Deadlines # {}
    BY DEF LiveCallHasDeadline
  <2>2. c \in Calls
    BY <2>1 DEF OInv, Ground, IInv, FlagsTyped
  <2>3. sig[c] \in Signalling /\ Guarded(sig[c])
    BY <2>1, <2>2, RecordTyped DEF Dialog
  <2>4. sig[c].aStatus \in {"trying", "ok", "failure"}
    BY <2>3 DEF Signalling
  <2>5. QED
    BY <2>3, <2>4 DEF Guarded, Deadlines
<1>2. ControlSpec => []OInv
  BY ControlImplementsMedia, InvariantOInv, PTL
<1>3. QED
  BY <1>1, <1>2, InvariantDialog, PTL

(* What the end of a call leaves of leg B: an answered one has its BYE, a  *)
(* ringing one its CANCEL, whoever ended the call.                         *)
LEMMA EndedCallsAreOver ==
    ASSUME DialogInv, OInv, NEW c \in known \cap ended
    PROVE  Over(sig[c])
<1>1. c \in Calls
  BY DEF OInv, Ground, IInv, FlagsTyped
<1>2. QED
  BY <1>1 DEF DialogInv, Dialog

(* A leg B that answered is sent ACK and BYE when its call ends, unless    *)
(* the caller cancelled in between: the exception is the one of cancelA.   *)
THEOREM AnsweredLegBIsHungUp == ControlSpec => []AnsweredLegBIsReleasedUnlessCancelled
<1>1. DialogInv /\ OInv => AnsweredLegBIsReleasedUnlessCancelled
  BY EndedCallsAreOver DEF AnsweredLegBIsReleasedUnlessCancelled, ReleasedB, Over, OverB
<1>2. ControlSpec => []OInv
  BY ControlImplementsMedia, InvariantOInv, PTL
<1>3. QED
  BY <1>1, <1>2, InvariantDialog, PTL

(* A leg B still ringing when the call ends is cancelled, at once or on    *)
(* its first provisional response.                                         *)
THEOREM RingingLegBIsToldToStop == ControlSpec => []RingingLegBIsCancelled
<1>1. DialogInv /\ OInv => RingingLegBIsCancelled
  BY EndedCallsAreOver DEF RingingLegBIsCancelled, FromB, Over, OverRinging
<1>2. ControlSpec => []OInv
  BY ControlImplementsMedia, InvariantOInv, PTL
<1>3. QED
  BY <1>1, <1>2, InvariantDialog, PTL

(* A leg A that heard 200 is told that the call is over, if the upstream   *)
(* sends no failure for an INVITE that it has accepted.                    *)
THEOREM AnsweredLegAIsHungUp == WellBehaved /\ ControlSpec => []AnsweredLegAIsReleased
<1>1. SUFFICES ASSUME WellBehaved PROVE ControlSpec => []AnsweredLegAIsReleased
  OBVIOUS
<1>2. DialogInv /\ OInv => AnsweredLegAIsReleased
  BY <1>1, EndedCallsAreOver DEF AnsweredLegAIsReleased, Over, OverA
<1>3. ControlSpec => []OInv
  BY ControlImplementsMedia, InvariantOInv, PTL
<1>4. QED
  BY <1>2, <1>3, InvariantDialog, PTL

(* Leg A of a bridged call hears 200 only in the step in which the media   *)
(* process already forwards to the target that was negotiated last.        *)
THEOREM AnswersFollowMedia == ControlSpec => AnswerFollowsMedia
<1>1. DialogInv /\ OInv /\ [ControlNext]_controlVars => [TimelyAnswers]_controlVars
  BY ControlNextKeeps DEF Handled
<1>2. ControlSpec => []OInv
  BY ControlImplementsMedia, InvariantOInv, PTL
<1>3. ControlSpec => [][TimelyAnswers]_controlVars
  BY <1>1, <1>2, InvariantDialog, PTL DEF ControlSpec
<1>4. QED
  BY <1>3 DEF AnswerFollowsMedia, TimelyAnswers
=============================================================================
