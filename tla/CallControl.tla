----------------------------- MODULE CallControl -----------------------------
(***************************************************************************)
(* The two SIP legs of a call as the single call loop drives them          *)
(* (control/internal/server/calls.go, with trunk_auth.go, transport.go,    *)
(* dialplan.go, esl_api.go and the loop of server.go).  Leg A sent the     *)
(* INVITE and is answered; leg B, for a bridged call, is invited once the  *)
(* media is allocated.  Every handler is the signalling update written     *)
(* here conjoined with the step of CallMedia that it takes, so a behaviour *)
(* of this module is a behaviour of CallMedia.                             *)
(*                                                                         *)
(* Messages are abstracted to what the handlers tell apart.  A message may *)
(* arrive at any moment at which its sender can have sent it, late,        *)
(* repeatedly or never, so loss, delay and reordering need no channel.     *)
(* Retransmissions by the controller (uas_retry, out_retry, LastA) change  *)
(* no state and are left out.  Each call has connections of its own.       *)
(***************************************************************************)
EXTENDS CallMedia, Folds

CONSTANTS
    Tags, NoTag,      \* remote dialog tags of the forks of leg B
    MaxForkCleanups,  \* fork records per call (8 in the code)
    MaxTransactions,  \* Limits.MaxTransactions
    MaxChallenges,    \* INVITE retries with credentials per call (4)
    Kinds,            \* kinds of call the routing produces, see KindSet
    Streamed,         \* legs carried by a connection that may close
    WellBehaved       \* the peer of leg B sends no malformed answer late

(* bridge: to the upstream; local: answered once allocated; dialplan:      *)
(* answered and ended by its applications.                                 *)
KindSet == {"bridge", "local", "dialplan"}

ASSUME ControlAssumption ==
    /\ NoTag \notin Tags /\ Tags \cap {"INVITE", "CANCEL", "BYE A", "BYE B"} = {}
    /\ MaxForkCleanups \in Nat /\ MaxTransactions \in Nat /\ MaxChallenges \in Nat
    /\ Kinds \subseteq KindSet /\ Streamed \subseteq {"A", "B"} /\ WellBehaved \in BOOLEAN

VARIABLES
    sig,    \* sig[c]: the signalling fields of Call, its timers and transactions
    phase   \* running, draining after the stop request, exited from Run

controlVars == <<vars, sig, phase>>

(* Outstanding transactions of a call; a tag stands for the BYE of a fork. *)
Transactions == {"INVITE", "CANCEL", "BYE A", "BYE B"} \cup Tags
Deadlines == {"setup", "uas_expire", "max_duration"}

Signalling == [
    kind : KindSet,
    aStatus : {"trying", "ok", "failure"},  \* AStatus below 200, 200, at least 300
    aAck : BOOLEAN, uasPending : BOOLEAN, established : BOOLEAN,
    aBye : BOOLEAN,           \* AByeSent
    aHung : BOOLEAN,          \* a BYE of leg A was accepted (ARemoteCSeq moved)
    aFlow : BOOLEAN,          \* the connection of leg A is up
    bInvite : BOOLEAN, bProvisional : BOOLEAN, bFinal : BOOLEAN, bAnswered : BOOLEAN,
    cancelWanted : BOOLEAN, bCancel : BOOLEAN, bBye : BOOLEAN,
    bHung : BOOLEAN, bFlow : BOOLEAN,
    bTag : Tags \cup {NoTag}, \* BRemoteTag
    forks : SUBSET Tags,      \* ForkCleanups
    challenges : 0..MaxChallenges,
    answer : Versions,        \* version of the connect_answer, 0 for none
    cancelled : BOOLEAN,      \* ended with reason caller_cancelled
    timers : SUBSET (Deadlines \cup {"call_gc"}),
    txs : SUBSET Transactions]

NewCall(k) == [
    kind |-> k, aStatus |-> "trying", aAck |-> FALSE, uasPending |-> FALSE,
    established |-> FALSE, aBye |-> FALSE, aHung |-> FALSE, aFlow |-> TRUE,
    bInvite |-> FALSE, bProvisional |-> FALSE, bFinal |-> FALSE, bAnswered |-> FALSE,
    cancelWanted |-> FALSE, bCancel |-> FALSE, bBye |-> FALSE, bHung |-> FALSE,
    bFlow |-> TRUE, bTag |-> NoTag, forks |-> {}, challenges |-> 0, answer |-> 0,
    cancelled |-> FALSE, timers |-> {"setup"}, txs |-> {}]

ControlInit ==
    /\ Init
    /\ sig = [c \in Calls |-> [NewCall("bridge") EXCEPT !.timers = {}]]
    /\ phase = "running"

-----------------------------------------------------------------------------
(* The helpers of the handlers, as functions of the signalling state S.    *)

(* startTransaction: at capacity the request is sent without a record.     *)
Outstanding(S) == {p \in Calls \X Transactions : p[2] \in S[p[1]].txs}
StartTransaction(S, c, m) ==
    IF Cardinality(Outstanding(S)) < MaxTransactions
      THEN [S EXCEPT ![c].txs = @ \cup {m}]
      ELSE S
Forget(S, c, ms) == [S EXCEPT ![c].txs = @ \ ms]

(* Mutant: no deadline for the acknowledgement of the final answer.        *)
AnswerForever(S, c, st) ==
    IF S[c].aStatus # "trying" THEN S
    ELSE [S EXCEPT ![c].aStatus = st, ![c].uasPending = TRUE, ![c].timers = @ \ {"setup"}]

(* answerA with a final status; a final answer is never rewritten.         *)
AnswerA(S, c, st) ==
    IF S[c].aStatus # "trying" THEN S
    ELSE [S EXCEPT ![c].aStatus = st, ![c].uasPending = TRUE,
                   ![c].timers = (@ \ {"setup"}) \cup {"uas_expire"}]

SendByeA(S, c) ==
    IF S[c].aStatus # "ok" \/ S[c].aBye THEN S
    ELSE StartTransaction([S EXCEPT ![c].aBye = TRUE], c, "BYE A")

SendByeB(S, c) ==
    IF ~S[c].bAnswered \/ S[c].bBye THEN S
    ELSE StartTransaction([S EXCEPT ![c].bBye = TRUE], c, "BYE B")

(* A CANCEL may follow the INVITE only after a provisional response: until *)
(* then the wish is recorded.                                              *)
SendCancelB(S, c) ==
    LET wanted == [S EXCEPT ![c].cancelWanted = TRUE]
    IN  CASE ~S[c].bInvite \/ S[c].bFinal \/ S[c].bCancel -> S
          [] S[c].bInvite /\ ~S[c].bFinal /\ ~S[c].bCancel /\ ~S[c].bProvisional -> wanted
          [] OTHER -> StartTransaction([wanted EXCEPT ![c].bCancel = TRUE], c, "CANCEL")


(* Mutant: leg B is cancelled even if it has answered.                     *)
StopRingingB(S, c) == SendCancelB(S, c)

StopB(S, c) == IF S[c].bAnswered THEN SendByeB(S, c) ELSE SendCancelB(S, c)
StopA(S, c) == IF S[c].aStatus = "trying" THEN AnswerA(S, c, "failure") ELSE SendByeA(S, c)

(* The signalling half of finish; EndCall and Finish are the other half.   *)
End(S, c) ==
    IF c \in ended THEN S
    ELSE [S EXCEPT ![c].timers = (@ \ {"setup", "max_duration"}) \cup {"call_gc"},
                   ![c].established = FALSE]

Reject(S, c) == End(StopB(AnswerA(S, c, "failure"), c), c)

(* Mutant: only leg B is hung up.                                          *)
HangUpB(S, c) == End(SendByeB(S, c), c)

HangUpBoth(S, c) == End(SendByeB(SendByeA(S, c), c), c)

(* A step of the call loop: there is none after Run has returned.          *)
LoopStep == phase # "exited" /\ UNCHANGED phase

(* Handlers that leave the media alone.                                    *)
Signal(S) == LoopStep /\ sig' = S /\ UNCHANGED vars
(* Handlers that end the call (finish), and handlers that end it only      *)
(* because the pool refuses the connect they submit.                       *)
Finishes(c, S) == LoopStep /\ EndCall(c) /\ sig' = S
Connects(c, S) ==
    /\ LoopStep
    /\ Connect(c)
    /\ sig' = IF c \in ended' THEN Reject(S, c) ELSE S

-----------------------------------------------------------------------------
(* Admission and the results of the media pool.                            *)

Invite(c, w, k) ==
    /\ phase = "running"
    /\ Admit(c, w)
    /\ LET S == [sig EXCEPT ![c] = NewCall(k)]
       IN  sig' = IF c \in ended' THEN Reject(S, c) ELSE S
    /\ UNCHANGED phase

(* What the call does with media it has just been given.                   *)
Allocated(S, c) ==
    CASE S[c].kind = "bridge" ->
            StartTransaction([S EXCEPT ![c].bInvite = TRUE], c, "INVITE")
      [] S[c].kind = "local" -> AnswerA(S, c, "ok")
      [] OTHER -> S

OnAllocate ==
    LET c == Head(results).call
    IN  /\ LoopStep
        /\ AllocateResult
        /\ sig' = CASE c \in ended -> sig
                    [] c \notin ended /\ Head(results).ok -> Allocated(sig, c)
                    [] OTHER -> Reject(sig, c)

(* Mutant: once leg B answered, any completed connect answers leg A.       *)
CompletesEarly(r) ==
    /\ r.ver = connectInFlight[r.call]
    /\ r.call \notin ended /\ r.ok /\ sig[r.call].bAnswered

(* The 200 goes to leg A only for the connect of the answer, and only when *)
(* no newer target was negotiated meanwhile.                               *)
CompletesAnswer(r) ==
    LET c == r.call
    IN  /\ r.ver = connectInFlight[c] /\ r.ver = connectVersion[c]
        /\ c \notin ended /\ ~Superseded(c)
        /\ r.ok /\ r.ver = sig[c].answer

OnConnect ==
    LET c == Head(results).call
    IN  /\ LoopStep
        /\ ConnectResult
        /\ sig' = CASE c \in ended' \ ended -> Reject(sig, c)
                    [] CompletesAnswer(Head(results)) -> AnswerA(sig, c, "ok")
                    [] OTHER -> sig

OnRelease == LoopStep /\ ReleaseResult /\ UNCHANGED sig
OnDropped == LoopStep /\ DropResult /\ UNCHANGED sig

(* Every live call of the failed generation: a 503 or a BYE to A, and a    *)
(* CANCEL or a BYE to B.                                                   *)
Fail503(c, S) == End(StopB(StopA(S, c), c), c)
FailAll(lost) ==
    MapThenFoldSet(Fail503, sig, LAMBDA c : c, LAMBDA L : CHOOSE c \in L : TRUE, lost)
OnWorkerFailed ==
    /\ LoopStep
    /\ WorkerFailed
    /\ sig' = FailAll(Owned(Head(failures)) \ ended)

-----------------------------------------------------------------------------
(* Responses of leg B to the current INVITE (responseB).  Responses to an  *)
(* earlier attempt are answered from the recorded ACKs and change nothing. *)

FromB(c) == c \in known /\ sig[c].bInvite /\ sig[c].bFlow
Live(c) == c \notin ended

(* What the peer may still send if it behaves: after a 2xx only repeated   *)
(* 2xx, after a failure nothing but late provisionals.                     *)
Accepted(c) == sig[c].bAnswered \/ sig[c].forks # {}
Refused(c) == sig[c].bFinal /\ ~Accepted(c)
MayRefuse(c) == FromB(c) /\ (WellBehaved => ~Accepted(c))
MayAccept(c) == FromB(c) /\ (WellBehaved => ~Refused(c))

Provisional(c) == [sig EXCEPT ![c].bProvisional = TRUE]
Proceeding(c) == Live(c) /\ ~sig[c].cancelWanted /\ ~sig[c].bFinal

(* Mutant: the late provisional response is only noted.                    *)
LateProvisionalNoted(c) == FromB(c) /\ ~Proceeding(c) /\ Signal(Provisional(c))

(* A provisional response after the end releases a pending CANCEL.         *)
LateProvisional(c) ==
    /\ FromB(c) /\ ~Proceeding(c)
    /\ Signal(IF Live(c) /\ ~sig[c].cancelWanted THEN Provisional(c)
                                                 ELSE SendCancelB(Provisional(c), c))

(* t is the remote tag, NoTag when the response has none; a second tag or  *)
(* an unusable response ends the call.                                     *)
Conflict(c, t) == t # NoTag /\ sig[c].bTag # NoTag /\ sig[c].bTag # t
Tagged(c, t) ==
    IF t = NoTag THEN Provisional(c) ELSE [Provisional(c) EXCEPT ![c].bTag = t]

Ringing(c, t) ==
    /\ FromB(c) /\ Proceeding(c) /\ ~Conflict(c, t)
    /\ Signal(Tagged(c, t))

EarlyMedia(c, t) ==
    /\ FromB(c) /\ Proceeding(c) /\ ~Conflict(c, t)
    /\ connectVersion[c] < MaxConnects - 1   \* bound: one version is left for the answer
    /\ Connects(c, Tagged(c, t))

BadProvisional(c, t) ==
    /\ FromB(c) /\ Proceeding(c)
    /\ Finishes(c, Reject(IF Conflict(c, t) THEN Provisional(c) ELSE Tagged(c, t), c))

(* Any final response completes the INVITE transaction.                    *)
Final(c) == [Forget(sig, c, {"INVITE"}) EXCEPT ![c].bFinal = TRUE]

Failure300(c) ==
    /\ MayRefuse(c)
    /\ IF Live(c) THEN Finishes(c, Reject(Final(c), c)) ELSE Signal(Final(c))

(* 401 or 407: acknowledged, and retried as a new INVITE transaction while *)
(* the call is wanted and the challenge can be answered.                   *)
Retried(c) ==
    LET S == Forget(sig, c, {"INVITE"})
    IN  StartTransaction([S EXCEPT ![c].challenges = @ + 1, ![c].bProvisional = FALSE,
                                   ![c].bFinal = FALSE, ![c].bCancel = FALSE,
                                   ![c].bTag = NoTag], c, "INVITE")


(* Mutant: one attempt more than the limit.                                *)
MayRetryOnceMore(c) == sig[c].challenges <= MaxChallenges /\ "INVITE" \in sig[c].txs

MayRetry(c) == sig[c].challenges < MaxChallenges /\ "INVITE" \in sig[c].txs

Challenge(c, acceptable) ==
    /\ MayRefuse(c) /\ (WellBehaved => ~sig[c].bFinal)
    /\ IF ~Live(c) \/ sig[c].cancelWanted \/ sig[c].bAnswered
         THEN Signal(Forget(sig, c, {"INVITE"}))
         ELSE IF acceptable /\ MayRetry(c)
                THEN Signal(Retried(c))
                ELSE Finishes(c, Reject(Final(c), c))

(* A 200 that names no dialog.                                             *)
UnusableOk(c) ==
    /\ MayAccept(c) /\ (WellBehaved => ~sig[c].bFinal)
    /\ Finishes(c, Reject(Final(c), c))

(* A 200 of another fork than the one that rang or answered first: BYE it, *)
(* once per remote tag while there is room for its record.                 *)
CleanupUnselectedFork(S, c, t) ==
    IF t \in S[c].forks \/ Cardinality(S[c].forks) >= MaxForkCleanups THEN S
    ELSE StartTransaction([S EXCEPT ![c].forks = @ \cup {t}], c, t)

OtherForkOk(c, t) ==
    /\ MayAccept(c) /\ Conflict(c, t)
    /\ Signal(CleanupUnselectedFork(Final(c), c, t))

RepeatedOk(c, t) ==
    /\ MayAccept(c) /\ ~Conflict(c, t)
    /\ sig[c].bAnswered
    /\ Signal(IF Live(c) THEN Final(c) ELSE SendByeB(Final(c), c))

(* The first 200 of the selected dialog.                                   *)
Answered(c, t) == [Final(c) EXCEPT ![c].bAnswered = TRUE, ![c].bTag = t]
FirstOk(c, t) == MayAccept(c) /\ ~Conflict(c, t) /\ ~sig[c].bAnswered

(* Mutant: a call that has ended takes the answer and does not say BYE.    *)
LateOkKept(c, t) == FirstOk(c, t) /\ ~Live(c) /\ Signal(Answered(c, t))

LateOk(c, t) ==
    /\ FirstOk(c, t) /\ ~Live(c)
    /\ Signal(SendByeB(Answered(c, t), c))

UnacceptableOk(c, t) ==
    /\ FirstOk(c, t) /\ Live(c)
    /\ Finishes(c, Reject(Answered(c, t), c))

Ok(c, t) ==
    /\ FirstOk(c, t) /\ Live(c)
    /\ Connects(c, [Answered(c, t) EXCEPT ![c].answer = connectVersion[c] + 1])

-----------------------------------------------------------------------------
(* Requests of the legs, of applications and of operators, and the loss of *)
(* a connection.                                                           *)

FromA(c) == c \in known /\ sig[c].aFlow

(* Mutant: an established call has no maximum duration.                    *)
EstablishForever(S, c) == [S EXCEPT ![c].established = TRUE]

Establish(S, c) ==
    [S EXCEPT ![c].established = TRUE, ![c].timers = @ \cup {"max_duration"}]

AckA(c) ==
    /\ FromA(c) /\ sig[c].aStatus # "trying" /\ ~sig[c].aAck
    /\ LET S == [sig EXCEPT ![c].aAck = TRUE, ![c].uasPending = FALSE,
                            ![c].timers = @ \ {"uas_expire"}]
       IN  Signal(IF sig[c].aStatus = "ok" /\ Live(c) THEN Establish(S, c) ELSE S)

CancelA(c) ==
    /\ FromA(c) /\ sig[c].aStatus = "trying"
    /\ Finishes(c, [End(SendCancelB(AnswerA(sig, c, "failure"), c), c)
                       EXCEPT ![c].cancelled = TRUE])

ByeA(c) ==
    /\ FromA(c) /\ sig[c].aStatus = "ok" /\ ~sig[c].aHung
    /\ LET S == [sig EXCEPT ![c].aHung = TRUE]
       IN  IF Live(c) THEN Finishes(c, End(SendByeB(S, c), c)) ELSE Signal(S)

ByeB(c) ==
    /\ FromB(c) /\ sig[c].bAnswered /\ ~sig[c].bHung
    /\ LET S == [sig EXCEPT ![c].bHung = TRUE]
       IN  IF Live(c) THEN Finishes(c, End(StopA(S, c), c)) ELSE Signal(S)

(* hangupApplication and uuid_kill.                                        *)
HangUp(c) ==
    /\ c \in known /\ Live(c)
    /\ LET S == StopA(sig, c)
       IN  Finishes(c, End(IF S[c].bAnswered THEN SendByeB(S, c)
                           ELSE SendCancelB([S EXCEPT ![c].cancelWanted = TRUE], c), c))

(* The application answer of a dialplan call.                              *)
AnswerLocalApplication(c) ==
    /\ c \in known /\ Live(c) /\ sig[c].kind = "dialplan"
    /\ c \in allocated \ releasing
    /\ sig[c].aStatus = "trying"
    /\ Signal(AnswerA(sig, c, "ok"))

(* Mutant: the loss of the connection of leg B ends the call without       *)
(* telling leg A.                                                          *)
FlowEndedSilentlyB(c) ==
    /\ c \in used /\ sig[c].kind = "bridge" /\ sig[c].bFlow
    /\ LET closed == [Forget(sig, c, Transactions \ {"BYE A"}) EXCEPT ![c].bFlow = FALSE]
       IN  IF c \in known /\ Live(c) THEN Finishes(c, End(closed, c)) ELSE Signal(closed)

(* streamEnded: the connection takes its transactions with it, and the     *)
(* other leg is told.                                                      *)
FlowEndedA(c) ==
    /\ c \in used /\ sig[c].aFlow
    /\ LET closed == [Forget(sig, c, {"BYE A"}) EXCEPT ![c].aFlow = FALSE]
           quiet(S) == [S EXCEPT ![c].uasPending = FALSE, ![c].timers = @ \ {"uas_expire"}]
       IN  IF c \in known /\ Live(c)
             THEN Finishes(c, quiet(End(StopB(closed, c), c)))
             ELSE Signal(quiet(closed))

FlowEndedB(c) ==
    /\ c \in used /\ sig[c].kind = "bridge" /\ sig[c].bFlow
    /\ LET closed == [Forget(sig, c, Transactions \ {"BYE A"}) EXCEPT ![c].bFlow = FALSE]
       IN  IF c \in known /\ Live(c)
             THEN Finishes(c, End(StopA(closed, c), c))
             ELSE Signal(closed)

-----------------------------------------------------------------------------
(* Timers.                                                                 *)

SetupTimeout(c) ==
    /\ c \in known /\ "setup" \in sig[c].timers
    /\ Finishes(c, Reject([sig EXCEPT ![c].timers = @ \ {"setup"}], c))

(* Mutant: an answer whose acknowledgement is overdue stays pending.       *)
UasExpirePending(c) ==
    /\ c \in known /\ "uas_expire" \in sig[c].timers
    /\ LET S == [sig EXCEPT ![c].timers = @ \ {"uas_expire"}]
       IN  IF sig[c].aStatus = "ok" /\ Live(c) THEN Finishes(c, HangUpBoth(S, c)) ELSE Signal(S)

(* The final answer was never acknowledged.                                *)
UasExpire(c) ==
    /\ c \in known /\ "uas_expire" \in sig[c].timers
    /\ LET S == [sig EXCEPT ![c].uasPending = FALSE, ![c].timers = @ \ {"uas_expire"}]
       IN  IF sig[c].aStatus = "ok" /\ Live(c) THEN Finishes(c, HangUpBoth(S, c)) ELSE Signal(S)

MaxDuration(c) ==
    /\ c \in known /\ "max_duration" \in sig[c].timers
    /\ Finishes(c, HangUpBoth([sig EXCEPT ![c].timers = @ \ {"max_duration"}], c))

(* The final response to a CANCEL or a BYE.                                *)
Completed(c, m) ==
    /\ m \in sig[c].txs \ {"INVITE"}
    /\ Signal(Forget(sig, c, {m}))

OutExpire(c, m) ==
    /\ m \in sig[c].txs
    /\ LET S == Forget(sig, c, {m})
       IN  IF m = "INVITE" /\ c \in known /\ Live(c) THEN Finishes(c, Reject(S, c)) ELSE Signal(S)

OnReleaseRetry(c) == LoopStep /\ ReleaseRetry(c) /\ UNCHANGED sig

(* The Call is deleted; only its transactions live on until they complete. *)
Deleted(r) == [NewCall(r.kind) EXCEPT !.timers = {}, !.txs = r.txs,
                                      !.aFlow = r.aFlow, !.bFlow = r.bFlow]
Forgotten(c) ==
    /\ LoopStep
    /\ "call_gc" \in sig[c].timers /\ ~sig[c].uasPending
    /\ CallGC(c)
    /\ sig' = [sig EXCEPT ![c] = Deleted(@)]

ForkGC(c, t) ==
    /\ c \in known /\ t \in sig[c].forks
    /\ Signal([sig EXCEPT ![c].forks = @ \ {t}])

-----------------------------------------------------------------------------
(* The stop request drains: no new call, and Run returns once no quota, no *)
(* transaction and no unacknowledged final answer is left.                 *)

Stop == phase = "running" /\ phase' = "draining" /\ UNCHANGED <<vars, sig>>

PendingFinals == {c \in known : sig[c].uasPending}

(* Mutant: Run returns while media is still owned.                         *)
SignallingDrained == Outstanding(sig) = {} /\ PendingFinals = {}

Drained == active = 0 /\ Outstanding(sig) = {} /\ PendingFinals = {}
Exit == phase = "draining" /\ Drained /\ phase' = "exited" /\ UNCHANGED <<vars, sig>>

OnPool == LoopStep /\ PoolStep /\ UNCHANGED sig

FromLegB(c) ==
    \/ LateProvisional(c) \/ Failure300(c) \/ UnusableOk(c)
    \/ \E t \in Tags \cup {NoTag} : Ringing(c, t) \/ EarlyMedia(c, t) \/ BadProvisional(c, t)
    \/ \E acceptable \in BOOLEAN : Challenge(c, acceptable)
    \/ \E t \in Tags : \/ OtherForkOk(c, t) \/ RepeatedOk(c, t) \/ LateOk(c, t)
                       \/ UnacceptableOk(c, t) \/ Ok(c, t)

TimerNext(c) ==
    \/ SetupTimeout(c) \/ UasExpire(c) \/ MaxDuration(c) \/ OnReleaseRetry(c) \/ Forgotten(c)
    \/ \E t \in Tags : ForkGC(c, t)
    \/ \E m \in Transactions : OutExpire(c, m)

ControlNext ==
    \/ OnPool \/ OnAllocate \/ OnConnect \/ OnRelease \/ OnDropped \/ OnWorkerFailed
    \/ \E c \in Calls :
          \/ \E w \in Workers, k \in Kinds : Invite(c, w, k)
          \/ FromLegB(c)
          \/ AckA(c) \/ CancelA(c) \/ ByeA(c) \/ ByeB(c)
          \/ HangUp(c) \/ AnswerLocalApplication(c)
          \/ "A" \in Streamed /\ FlowEndedA(c)
          \/ "B" \in Streamed /\ FlowEndedB(c)
          \/ TimerNext(c)
          \/ \E m \in Transactions : Completed(c, m)
    \/ Stop \/ Exit

ControlSpec == ControlInit /\ [][ControlNext]_controlVars

(* The fairness of CallMedia, and timers that fire when they are due.      *)
ControlFairness ==
    /\ \A w \in Workers :
          /\ WF_controlVars(LoopStep /\ ServeNext(w) /\ UNCHANGED <<callVars, sig>>)
          /\ WF_controlVars(LoopStep /\ SuperviseNext(w) /\ UNCHANGED <<callVars, sig>>)
    /\ WF_controlVars(OnAllocate \/ OnConnect \/ OnRelease \/ OnDropped)
    /\ WF_controlVars(OnWorkerFailed)
    /\ \A c \in Calls :
          /\ WF_controlVars(SetupTimeout(c))
          /\ WF_controlVars(UasExpire(c))
          /\ WF_controlVars(MaxDuration(c))
          /\ WF_controlVars(OnReleaseRetry(c))
          /\ WF_controlVars(Forgotten(c))
          /\ \A m \in Transactions : WF_controlVars(OutExpire(c, m))
    /\ WF_controlVars(Exit)

FairControlSpec == ControlSpec /\ ControlFairness

-----------------------------------------------------------------------------
(* Properties.                                                             *)

(* Every variable has its type.                                            *)
ControlTypeOK ==
    /\ TypeOK
    /\ sig \in [Calls -> Signalling]
    /\ phase \in {"running", "draining", "exited"}

(* A live call is never without a deadline: until it is answered the setup *)
(* timer runs, until the answer is acknowledged uas_expire, and then the   *)
(* maximum duration, so silent peers cannot keep media forever.            *)
LiveCallHasDeadline ==
    \A c \in known \ ended : sig[c].timers \cap Deadlines # {}

(* A leg A that was told the call is up is told that it is over: by a BYE, *)
(* unless it hung up itself or its connection is gone.                     *)
AnsweredLegAIsReleased ==
    \A c \in known \cap ended : sig[c].aStatus = "ok" =>
        sig[c].aBye \/ sig[c].aHung \/ ~sig[c].aFlow

(* A leg B that answered is released by a BYE, whichever of the two legs,  *)
(* timers, media failures or operators ended the call, whatever the order. *)
ReleasedB(c) == sig[c].bBye \/ sig[c].bHung \/ ~sig[c].bFlow
AnsweredLegBIsReleased ==
    \A c \in known \cap ended : sig[c].bAnswered => ReleasedB(c)

(* The same for every end but the CANCEL of leg A, which overtakes the     *)
(* installation of the answer's media.                                     *)
AnsweredLegBIsReleasedUnlessCancelled ==
    \A c \in known \cap ended : sig[c].bAnswered /\ ~sig[c].cancelled => ReleasedB(c)

(* A leg B still ringing when the call ends is cancelled, at once or on    *)
(* its first provisional response.                                         *)
RingingLegBIsCancelled ==
    \A c \in known \cap ended : FromB(c) /\ ~sig[c].bFinal =>
        sig[c].cancelWanted /\ (sig[c].bProvisional => sig[c].bCancel)

(* Leg A of a bridged call hears 200 only once the media process forwards  *)
(* to the target that was negotiated last.                                 *)
AnswerFollowsMedia ==
    [][\A c \in Calls :
          sig[c].kind = "bridge" /\ sig[c].aStatus = "trying" /\ sig'[c].aStatus = "ok"
             => target[c] = connectVersion[c] /\ connectVersion[c] = sig[c].answer]_controlVars

(* When Run returns nothing is left behind, although the loop looks only   *)
(* at counters: every call has ended, and no serving media process holds   *)
(* ports or has an allocation queued.                                      *)
ExitIsClean ==
    phase = "exited" =>
        /\ used \subseteq ended
        /\ \A w \in Workers : status[w] = "serving" => sessions[w] = {} /\ jobs[w] = <<>>

(* Every admitted call is finally forgotten with everything it owned, if   *)
(* the controller goes on running.                                         *)
EveryCallForgotten == \A c \in Calls : c \in known ~> c \notin known \/ phase = "exited"

(* A drain ends.                                                           *)
DrainEnds == phase = "draining" ~> phase = "exited"
=============================================================================
