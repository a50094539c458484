------------------------------- MODULE Session ------------------------------
(***************************************************************************)
(* The USB session of the driver: one receiver thread that files every     *)
(* answer of the sensor under its command code, and one caller that sends  *)
(* a command and sleeps on a condition variable until the answer is there. *)
(* The session mutex protects the receiver's error, the filed answers and  *)
(* the condition variable; every critical section is one action.           *)
(*                                                                         *)
(* There is one caller: the session belongs to the device object, which    *)
(* one worker thread at a time uses.  The IN pipe is a sequence: bulk      *)
(* transfers arrive in the order the sensor sends them.  The sensor        *)
(* answers each transmission it gets with at most one acknowledgement and  *)
(* one response; silence, damaged frames, framing errors and bytes that a  *)
(* timed-out transfer drops are all one thing here, a lost answer.         *)
(*                                                                         *)
(* Definitions named ...Mutant are wrong variants of the definition after  *)
(* them, kept to show that the properties notice the difference.           *)
(***************************************************************************)
EXTENDS Naturals, Sequences

CONSTANTS Slots,          \* command codes (cmd0/cmd1)
          NeedsAck,       \* codes sent with ack_timeout_ms # 0
          NeedsResponse,  \* codes sent with expect_response
          Attempts,       \* [Slots -> max_attempts]
          MaxCalls,       \* bound: commands issued in a behaviour
          MaxStarts       \* bound: sessions started in a behaviour

ASSUME SessionAssumption ==
    /\ Slots # {}
    /\ NeedsAck \subseteq Slots
    /\ NeedsResponse \subseteq Slots
    /\ Attempts \in [Slots -> Nat \ {0}]
    /\ MaxCalls \in Nat
    /\ MaxStarts \in Nat

VARIABLES
    receiver,       \* the receiver thread: "off", "poll", "reading", "exited"
    stopRequested,  \* session->stop_requested
    receiverError,  \* session->receiver_error: "none" or "io"
    answers,        \* answers of the sensor in the IN pipe, oldest first
    ackSeq,         \* acknowledgements[slot].sequence
    respSeq,        \* responses[slot].sequence
    respData,       \* responses[slot].data: the call that the answer is for
    pc,             \* where the caller is
    blocked,        \* its wait: "no", "cond" (asleep), "woken", "expired"
    slot,           \* the code of the current or latest command
    attempt,        \* the attempt counter of gx_session_command
    ackBase,        \* ack_baseline
    respBase,       \* response_baseline
    lastError,      \* last_error
    result,         \* ack_received, response_received and the response
    outcome         \* what the latest command returned

(***************************************************************************)
(* History variables: read by no action's guard but the two bounds.        *)
(***************************************************************************)
VARIABLES
    starts,      \* sessions started so far
    callNo,      \* commands issued so far
    arrived,     \* kinds of evidence filed for the current command
    suspects,    \* codes that may have left an answer in the pipe
    trusted,     \* was the current code free of suspicion at its call?
    deadAtCall   \* had the receiver already failed when the call began?

threadVars  == <<receiver, stopRequested, receiverError>>
filedVars   == <<ackSeq, respSeq, respData>>
callVars    == <<slot, ackBase, respBase>>
historyVars == <<starts, callNo, suspects, trusted, deadAtCall>>
vars == <<threadVars, answers, filedVars, pc, blocked, callVars, attempt,
          lastError, result, outcome, arrived, historyVars>>

InCall == {"send", "awaitAck", "grace", "awaitResponse"}
PC     == {"closed", "ready", "joining"} \cup InCall
Errors == {"other", "send", "timeout", "io"}
Kinds  == {"ack", "resp"}
Answer == [kind : Kinds, slot : Slots, call : Nat]
NoResult == [ack |-> FALSE, resp |-> FALSE, data |-> 0]

TypeOK ==
    /\ receiver \in {"off", "poll", "reading", "exited"}
    /\ stopRequested \in BOOLEAN
    /\ receiverError \in {"none", "io"}
    /\ answers \in Seq(Answer)
    /\ ackSeq \in [Slots -> Nat]
    /\ respSeq \in [Slots -> Nat]
    /\ respData \in [Slots -> Nat]
    /\ pc \in PC
    /\ blocked \in {"no", "cond", "woken", "expired"}
    /\ slot \in Slots
    /\ attempt \in Nat
    /\ ackBase \in Nat
    /\ respBase \in Nat
    /\ lastError \in Errors
    /\ result \in [ack : BOOLEAN, resp : BOOLEAN, data : Nat]
    /\ outcome \in {"none", "ok"} \cup Errors
    /\ starts \in Nat
    /\ callNo \in Nat
    /\ arrived \subseteq Kinds
    /\ suspects \subseteq Slots
    /\ trusted \in BOOLEAN
    /\ deadAtCall \in BOOLEAN

Init ==
    /\ receiver = "off"
    /\ stopRequested = FALSE
    /\ receiverError = "none"
    /\ answers = <<>>
    /\ ackSeq = [s \in Slots |-> 0]
    /\ respSeq = [s \in Slots |-> 0]
    /\ respData = [s \in Slots |-> 0]
    /\ pc = "closed"
    /\ blocked = "no"
    /\ slot \in Slots
    /\ attempt = 0
    /\ ackBase = 0
    /\ respBase = 0
    /\ lastError = "other"
    /\ result = NoResult
    /\ outcome = "none"
    /\ starts = 0
    /\ callNo = 0
    /\ arrived = {}
    /\ suspects = {}
    /\ trusted = TRUE
    /\ deadAtCall = FALSE

-----------------------------------------------------------------------------
(* Starting and stopping the session.                                      *)

(***************************************************************************)
(* gx_session_start clears the whole session; what the sensor still has in *)
(* its IN pipe is not the session's to clear.  When the mutex, the         *)
(* condition variable or the thread cannot be created the session stays    *)
(* closed.                                                                 *)
(***************************************************************************)
Start(created) ==
    /\ pc = "closed"
    /\ starts < MaxStarts
    /\ starts' = starts + 1
    /\ stopRequested' = FALSE
    /\ receiverError' = "none"
    /\ ackSeq' = [s \in Slots |-> 0]
    /\ respSeq' = [s \in Slots |-> 0]
    /\ respData' = [s \in Slots |-> 0]
    /\ outcome' = "none"
    /\ receiver' = IF created THEN "poll" ELSE "off"
    /\ pc' = IF created THEN "ready" ELSE "closed"
    /\ UNCHANGED <<answers, blocked, callVars, attempt, lastError, result,
                   arrived, callNo, suspects, trusted, deadAtCall>>

RequestStop ==
    /\ pc = "ready"
    /\ stopRequested' = TRUE
    /\ pc' = "joining"
    /\ UNCHANGED <<receiver, receiverError, answers, filedVars, blocked,
                   callVars, attempt, lastError, result, outcome, arrived,
                   historyVars>>

(***************************************************************************)
(* pthread_join: only a receiver that has returned lets the stop go on, to *)
(* the release of the USB interfaces.                                      *)
(***************************************************************************)
Joined == receiver = "exited"

Join ==
    /\ pc = "joining"
    /\ Joined
    /\ receiver' = IF receiver = "exited" THEN "off" ELSE receiver
    /\ pc' = "closed"
    /\ outcome' = "none"
    /\ UNCHANGED <<stopRequested, receiverError, answers, filedVars, blocked,
                   callVars, attempt, lastError, result, arrived, historyVars>>

-----------------------------------------------------------------------------
(* The receiver thread.                                                    *)

PollForeverMutant ==
    /\ receiver = "poll"
    /\ receiver' = "reading"
    /\ UNCHANGED <<stopRequested, receiverError, answers, filedVars, pc,
                   blocked, callVars, attempt, lastError, result, outcome,
                   arrived, historyVars>>

Poll ==
    /\ receiver = "poll"
    /\ receiver' = IF stopRequested THEN "exited" ELSE "reading"
    /\ UNCHANGED <<stopRequested, receiverError, answers, filedVars, pc,
                   blocked, callVars, attempt, lastError, result, outcome,
                   arrived, historyVars>>

ReadTimeout ==
    /\ receiver = "reading"
    /\ receiver' = "poll"
    /\ UNCHANGED <<stopRequested, receiverError, answers, filedVars, pc,
                   blocked, callVars, attempt, lastError, result, outcome,
                   arrived, historyVars>>

Broadcast == blocked' = IF blocked = "cond" THEN "woken" ELSE blocked

StoreAck(a) ==
    /\ ackSeq' = [ackSeq EXCEPT ![a.slot] = @ + 1]
    /\ UNCHANGED <<respSeq, respData>>

StoreResponse(a) ==
    /\ respSeq' = [respSeq EXCEPT ![a.slot] = @ + 1]
    /\ respData' = [respData EXCEPT ![a.slot] = a.call]
    /\ UNCHANGED ackSeq

(***************************************************************************)
(* One answer comes out of the pipe, is filed under its code and wakes the *)
(* sleepers.                                                               *)
(***************************************************************************)
Receive ==
    /\ receiver = "reading"
    /\ answers # <<>>
    /\ LET a == Head(answers) IN
         /\ IF a.kind = "ack" THEN StoreAck(a) ELSE StoreResponse(a)
         /\ arrived' = IF a.slot = slot THEN arrived \cup {a.kind} ELSE arrived
    /\ answers' = Tail(answers)
    /\ Broadcast
    /\ receiver' = "poll"
    /\ UNCHANGED <<stopRequested, receiverError, pc, callVars, attempt,
                   lastError, result, outcome, historyVars>>

(***************************************************************************)
(* An answer that the receiver never sees whole: nothing is filed, nobody  *)
(* is woken.                                                               *)
(***************************************************************************)
Lose ==
    /\ receiver = "reading"
    /\ answers # <<>>
    /\ answers' = Tail(answers)
    /\ receiver' = "poll"
    /\ UNCHANGED <<stopRequested, receiverError, filedVars, pc, blocked,
                   callVars, attempt, lastError, result, outcome, arrived,
                   historyVars>>

(***************************************************************************)
(* A bulk read that fails for good ends the receiver, after it has left    *)
(* its error and woken the sleepers.                                       *)
(***************************************************************************)
ReceiverFails ==
    /\ receiver = "reading"
    /\ receiver' = "exited"
    /\ receiverError' = IF receiverError = "none" THEN "io" ELSE receiverError
    /\ Broadcast
    /\ UNCHANGED <<stopRequested, answers, filedVars, pc, callVars, attempt,
                   lastError, result, outcome, arrived, historyVars>>

-----------------------------------------------------------------------------
(* The caller: gx_session_command.                                         *)

(***************************************************************************)
(* What the sensor sends back for a command it has received.               *)
(***************************************************************************)
AnswersTo(s) ==
    (IF s \in NeedsAck
     THEN <<[kind |-> "ack", slot |-> s, call |-> callNo]>> ELSE <<>>)
    \o
    (IF s \in NeedsResponse
     THEN <<[kind |-> "resp", slot |-> s, call |-> callNo]>> ELSE <<>>)

(***************************************************************************)
(* The baselines are read once, before the first attempt.                  *)
(***************************************************************************)
NoBaselinesMutant(s) ==
    /\ ackBase' = 0
    /\ respBase' = 0

Baselines(s) ==
    /\ ackBase' = ackSeq[s]
    /\ respBase' = respSeq[s]

Call(s) ==
    /\ pc = "ready"
    /\ callNo < MaxCalls
    /\ callNo' = callNo + 1
    /\ Baselines(s)
    /\ slot' = s
    /\ attempt' = 1
    /\ lastError' = "other"
    /\ result' = NoResult
    /\ outcome' = "none"
    /\ pc' = "send"
    /\ arrived' = {}
    /\ trusted' = (s \notin suspects)
    /\ deadAtCall' = (receiverError # "none")
    /\ UNCHANGED <<threadVars, answers, filedVars, blocked, starts, suspects>>

Return(v) ==
    /\ pc' = "ready"
    /\ outcome' = v
    /\ blocked' = "no"
    /\ suspects' = IF v = "ok" /\ attempt = 1 THEN suspects
                   ELSE suspects \cup {slot}

(***************************************************************************)
(* An attempt has failed with error e: the next one, or the end.           *)
(***************************************************************************)
NextAttempt(e) ==
    /\ lastError' = e
    /\ IF attempt < Attempts[slot]
       THEN /\ attempt' = attempt + 1
            /\ pc' = "send"
            /\ blocked' = "no"
            /\ UNCHANGED <<outcome, suspects>>
       ELSE /\ Return(e)
            /\ UNCHANGED attempt

SendOk ==
    /\ pc = "send"
    /\ answers' = answers \o AnswersTo(slot)
    /\ IF slot \in NeedsAck \cup NeedsResponse
       THEN /\ pc' = IF slot \in NeedsAck THEN "awaitAck" ELSE "awaitResponse"
            /\ UNCHANGED <<outcome, suspects, blocked>>
       ELSE Return("ok")
    /\ UNCHANGED <<threadVars, filedVars, callVars, attempt, lastError, result,
                   arrived, starts, callNo, trusted, deadAtCall>>

(***************************************************************************)
(* A transmission that fails may have reached the sensor all the same.     *)
(***************************************************************************)
SendFails(reached) ==
    /\ pc = "send"
    /\ answers' = IF reached THEN answers \o AnswersTo(slot) ELSE answers
    /\ NextAttempt("send")
    /\ UNCHANGED <<threadVars, filedVars, callVars, result, arrived, starts,
                   callNo, trusted, deadAtCall>>

Waiting == pc \in {"awaitAck", "grace", "awaitResponse"}

(***************************************************************************)
(* What the current wait is for is there: it is newer than the baseline.   *)
(***************************************************************************)
WokenMutant == blocked = "woken"

Answered ==
    IF pc = "awaitAck" THEN ackSeq[slot] # ackBase
                       ELSE respSeq[slot] # respBase

SleepThroughErrorMutant == ~Answered /\ blocked \in {"no", "woken"}

MustSleep ==
    ~Answered /\ receiverError = "none" /\ blocked \in {"no", "woken"}

(***************************************************************************)
(* pthread_cond_timedwait releases the mutex and sleeps in one step.       *)
(***************************************************************************)
Sleep ==
    /\ Waiting
    /\ MustSleep
    /\ blocked' = "cond"
    /\ UNCHANGED <<threadVars, answers, filedVars, pc, callVars, attempt,
                   lastError, result, outcome, arrived, historyVars>>

SpuriousWake ==
    /\ blocked = "cond"
    /\ blocked' = "woken"
    /\ UNCHANGED <<threadVars, answers, filedVars, pc, callVars, attempt,
                   lastError, result, outcome, arrived, historyVars>>

NeverExpireMutant == FALSE /\ UNCHANGED vars

(***************************************************************************)
(* The deadline passes.  The caller looks at the predicate once more       *)
(* before it believes the timeout.                                         *)
(***************************************************************************)
Expire ==
    /\ Waiting
    /\ blocked \in {"cond", "woken"}
    /\ blocked' = "expired"
    /\ UNCHANGED <<threadVars, answers, filedVars, pc, callVars, attempt,
                   lastError, result, outcome, arrived, historyVars>>

AckArrives ==
    /\ pc = "awaitAck"
    /\ blocked # "cond"
    /\ Answered
    /\ result' = [result EXCEPT !.ack = TRUE]
    /\ IF slot \in NeedsResponse
       THEN /\ pc' = "awaitResponse"
            /\ blocked' = "no"
            /\ UNCHANGED <<outcome, suspects>>
       ELSE Return("ok")
    /\ UNCHANGED <<threadVars, answers, filedVars, callVars, attempt, lastError,
                   arrived, starts, callNo, trusted, deadAtCall>>

ResponseArrives ==
    /\ pc \in {"grace", "awaitResponse"}
    /\ blocked # "cond"
    /\ Answered
    /\ result' = [result EXCEPT !.resp = TRUE, !.data = respData[slot]]
    /\ Return("ok")
    /\ UNCHANGED <<threadVars, answers, filedVars, callVars, attempt, lastError,
                   arrived, starts, callNo, trusted, deadAtCall>>

(***************************************************************************)
(* The wait ends empty-handed: the receiver's error comes before the       *)
(* timeout.                                                                *)
(***************************************************************************)
WaitFailed ==
    /\ blocked # "cond"
    /\ ~Answered
    /\ receiverError # "none" \/ blocked = "expired"

WaitError == IF receiverError # "none" THEN receiverError ELSE "timeout"

(***************************************************************************)
(* Without its acknowledgement a command that expects a response still     *)
(* gives the response one millisecond.                                     *)
(***************************************************************************)
AckFails ==
    /\ pc = "awaitAck"
    /\ WaitFailed
    /\ IF slot \in NeedsResponse
       THEN /\ lastError' = WaitError
            /\ pc' = "grace"
            /\ blocked' = "no"
            /\ UNCHANGED <<attempt, outcome, suspects>>
       ELSE NextAttempt(WaitError)
    /\ UNCHANGED <<threadVars, answers, filedVars, callVars, result, arrived,
                   starts, callNo, trusted, deadAtCall>>

GraceFails ==
    /\ pc = "grace"
    /\ WaitFailed
    /\ NextAttempt(lastError)
    /\ UNCHANGED <<threadVars, answers, filedVars, callVars, result, arrived,
                   starts, callNo, trusted, deadAtCall>>

ResponseFails ==
    /\ pc = "awaitResponse"
    /\ WaitFailed
    /\ NextAttempt(WaitError)
    /\ UNCHANGED <<threadVars, answers, filedVars, callVars, result, arrived,
                   starts, callNo, trusted, deadAtCall>>

-----------------------------------------------------------------------------
Transmission == SendOk \/ \E reached \in BOOLEAN : SendFails(reached)

WaitEnds == AckArrives \/ ResponseArrives \/ AckFails \/ GraceFails \/ ResponseFails

Receiver == Poll \/ ReadTimeout \/ Receive \/ Lose \/ ReceiverFails

(***************************************************************************)
(* The bounds are used up and the session is closed.                       *)
(***************************************************************************)
Finished ==
    /\ pc = "closed"
    /\ starts = MaxStarts
    /\ UNCHANGED vars

Next ==
    \/ \E created \in BOOLEAN : Start(created)
    \/ RequestStop
    \/ Join
    \/ Receiver
    \/ \E s \in Slots : Call(s)
    \/ Transmission
    \/ Sleep
    \/ SpuriousWake
    \/ Expire
    \/ WaitEnds
    \/ Finished

(***************************************************************************)
(* The threads run; a bulk read returns within its 100 ms and a write      *)
(* within its timeouts; deadlines pass.  Nothing makes the sensor answer   *)
(* or the caller issue or stop anything.                                   *)
(***************************************************************************)
Fairness ==
    /\ WF_vars(Receiver)
    /\ WF_vars(Transmission)
    /\ WF_vars(Sleep)
    /\ WF_vars(Expire)
    /\ WF_vars(WaitEnds)
    /\ WF_vars(Join)

Spec == Init /\ [][Next]_vars /\ Fairness
-----------------------------------------------------------------------------
(* What the callers rely on.                                               *)

(***************************************************************************)
(* A response that gx_session_command hands back was sent for that very    *)
(* command, provided that every earlier command with the same code was     *)
(* answered at its first attempt.  (Answers carry no transaction number: a *)
(* code that once needed a retry, or timed out, may have left an answer in *)
(* the pipe, and the next command with that code takes it for its own.)    *)
(***************************************************************************)
TrustedResponseIsOwn ==
    (pc = "ready" /\ result.resp /\ trusted) => result.data = callNo

(***************************************************************************)
(* A command issued after the receiver has died never sleeps and never     *)
(* reports a timeout: it fails with the receiver's error, or with a failed *)
(* transmission, unless it needs no answer.                                *)
(***************************************************************************)
DeadReceiverFailsFast ==
    deadAtCall =>
        /\ pc \in InCall => blocked = "no"
        /\ outcome # "timeout"
        /\ outcome = "ok" => slot \notin NeedsAck \cup NeedsResponse

(***************************************************************************)
(* The receiver uses the USB handle and the session's memory only while    *)
(* the session is open: once gx_session_stop has returned, and the device  *)
(* closes the handle and clears the session, no thread is left in it.      *)
(***************************************************************************)
NoReceiverAfterStop ==
    pc = "closed" => receiver = "off"

(***************************************************************************)
(* Every command returns, whatever the sensor does: no wake-up is lost and *)
(* every wait has a deadline.                                              *)
(***************************************************************************)
CallReturns == (pc \in InCall) ~> (pc = "ready")

(***************************************************************************)
(* Stopping the session terminates, also with a silent sensor or a         *)
(* receiver that has already died.                                         *)
(***************************************************************************)
StopReturns == (pc = "joining") ~> (pc = "closed")

(***************************************************************************)
(* The session keeps the promise of Rpc.tla: success only on evidence that *)
(* came in during the call, failure only after the last attempt.           *)
(***************************************************************************)
Verdict ==
    IF pc \in InCall THEN "busy"
    ELSE IF outcome \in {"none", "ok"} THEN outcome
    ELSE "failed"

Promise == INSTANCE Rpc WITH verdict <- Verdict, tries <- attempt

KeepsPromise == Promise!Spec
=============================================================================
