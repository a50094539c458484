---------------------------- MODULE SessionProofs ---------------------------
(***************************************************************************)
(* Theorems about Session.tla, for every set of command codes, every       *)
(* number of attempts and every bound on calls and starts.                 *)
(***************************************************************************)
EXTENDS Session, SequenceTheorems, TLAPS

(***************************************************************************)
(* What the sensor sends back is a sequence of answers.                    *)
(***************************************************************************)
LEMMA AnswersToType ==
    ASSUME NEW s \in Slots, callNo \in Nat
    PROVE  AnswersTo(s) \in Seq(Answer)
  <1> DEFINE ack  == [kind |-> "ack", slot |-> s, call |-> callNo]
             resp == [kind |-> "resp", slot |-> s, call |-> callNo]
  <1>1. ack \in Answer /\ resp \in Answer
    BY DEF Answer, Kinds
  <1>2. /\ <<>> \in Seq(Answer)
        /\ <<ack>> \in Seq(Answer)
        /\ <<resp>> \in Seq(Answer)
    BY <1>1
  <1> HIDE DEF ack, resp
  <1>3. \A u, v \in Seq(Answer) : u \o v \in Seq(Answer)
    OBVIOUS
  <1>4. (IF s \in NeedsAck THEN <<ack>> ELSE <<>>) \in Seq(Answer)
    BY <1>2
  <1>5. (IF s \in NeedsResponse THEN <<resp>> ELSE <<>>) \in Seq(Answer)
    BY <1>2
  <1> QED
    BY <1>3, <1>4, <1>5 DEF AnswersTo, ack, resp

(***************************************************************************)
(* Every variable keeps its type.                                          *)
(***************************************************************************)
LEMMA TypeInit == Init => TypeOK
  <1> SUFFICES ASSUME Init PROVE TypeOK
    OBVIOUS
  <1>1. answers \in Seq(Answer)
    BY DEF Init
  <1>2. [s \in Slots |-> 0] \in [Slots -> Nat]
    OBVIOUS
  <1> QED
    BY <1>1, <1>2 DEF Init, TypeOK, PC, InCall, Errors, NoResult

LEMMA NextAttemptTypes ==
    ASSUME TypeOK, NEW e \in Errors, NextAttempt(e)
    PROVE  /\ lastError' \in Errors /\ attempt' \in Nat /\ pc' \in PC
           /\ blocked' \in {"no", "cond", "woken", "expired"}
           /\ outcome' \in {"none", "ok"} \cup Errors /\ suspects' \subseteq Slots
  <1>1. CASE attempt < Attempts[slot]
    BY <1>1 DEF TypeOK, NextAttempt, PC, InCall
  <1>2. CASE ~(attempt < Attempts[slot])
    BY <1>2 DEF TypeOK, NextAttempt, Return, PC
  <1> QED
    BY <1>1, <1>2

LEMMA TypeStep == TypeOK /\ [Next]_vars => TypeOK'
  <1> SUFFICES ASSUME TypeOK, [Next]_vars PROVE TypeOK'
    OBVIOUS
  <1> USE SessionAssumption DEF TypeOK
  <1> USE DEF threadVars, filedVars, callVars, historyVars
  <1>1. ASSUME NEW created \in BOOLEAN, Start(created) PROVE TypeOK'
    <2>1. [s \in Slots |-> 0] \in [Slots -> Nat]
      OBVIOUS
    <2>2. /\ ackSeq' \in [Slots -> Nat]
          /\ respSeq' \in [Slots -> Nat]
          /\ respData' \in [Slots -> Nat]
      BY <1>1, <2>1 DEF Start
    <2>3. receiver' \in {"off", "poll", "reading", "exited"} /\ pc' \in PC
      BY <1>1 DEF Start, PC
    <2>4. starts' \in Nat
      BY <1>1 DEF Start
    <2>5. stopRequested' \in BOOLEAN
      BY <1>1, Zenon DEF Start
    <2> QED
      BY <1>1, <2>2, <2>3, <2>4, <2>5 DEF Start
  <1>2. CASE RequestStop
    BY <1>2 DEF RequestStop, PC
  <1>3. CASE Join
    BY <1>3 DEF Join, PC
  <1>4. CASE Receiver
    <2>1. CASE Poll
      BY <2>1 DEF Poll
    <2>2. CASE ReadTimeout
      BY <2>2 DEF ReadTimeout
    <2>3. CASE Receive
      <3> DEFINE a == Head(answers)
      <3>1. a \in Answer /\ Tail(answers) \in Seq(Answer)
        BY <2>3 DEF Receive
      <3>2. a.kind \in Kinds /\ a.slot \in Slots /\ a.call \in Nat
        BY <3>1 DEF Answer
      <3>3. answers' \in Seq(Answer) /\ arrived' \subseteq Kinds
        BY <2>3, <3>1, <3>2 DEF Receive
      <3>4. /\ ackSeq' \in [Slots -> Nat]
            /\ respSeq' \in [Slots -> Nat]
            /\ respData' \in [Slots -> Nat]
        <4>f. IF a.kind = "ack" THEN StoreAck(a) ELSE StoreResponse(a)
          BY <2>3, Zenon DEF Receive
        <4> HIDE DEF a
        <4>0. /\ ackSeq \in [Slots -> Nat]
              /\ respSeq \in [Slots -> Nat]
              /\ respData \in [Slots -> Nat]
          OBVIOUS
        <4> HIDE DEF TypeOK
        <4>1. CASE a.kind = "ack"
          BY <3>2, <4>f, <4>0, <4>1 DEF StoreAck
        <4>2. CASE a.kind # "ack"
          BY <3>2, <4>f, <4>0, <4>2 DEF StoreResponse
        <4> QED
          BY <4>1, <4>2
      <3>5. blocked' \in {"no", "cond", "woken", "expired"}
        BY <2>3 DEF Receive, Broadcast
      <3> QED
        BY <2>3, <3>3, <3>4, <3>5 DEF Receive
    <2>4. CASE Lose
      BY <2>4 DEF Lose
    <2>5. CASE ReceiverFails
      BY <2>5 DEF ReceiverFails, Broadcast
    <2> QED
      BY <1>4, <2>1, <2>2, <2>3, <2>4, <2>5 DEF Receiver
  <1>5. ASSUME NEW s \in Slots, Call(s) PROVE TypeOK'
    BY <1>5 DEF Call, Baselines, NoResult, PC, InCall, Errors
  <1>6. CASE Transmission
    <2>1. answers \o AnswersTo(slot) \in Seq(Answer)
      BY AnswersToType
    <2>2. CASE SendOk
      BY <2>1, <2>2 DEF SendOk, Return, PC, InCall
    <2>3. ASSUME NEW reached \in BOOLEAN, SendFails(reached) PROVE TypeOK'
      <3>1. "send" \in Errors /\ NextAttempt("send")
        BY <2>3 DEF SendFails, Errors
      <3>2. answers' \in Seq(Answer)
        BY <2>1, <2>3 DEF SendFails
      <3> QED
        BY <2>3, <3>1, <3>2, NextAttemptTypes DEF SendFails
    <2> QED
      BY <1>6, <2>2, <2>3 DEF Transmission
  <1>7. CASE Sleep
    BY <1>7 DEF Sleep
  <1>8. CASE SpuriousWake
    BY <1>8 DEF SpuriousWake
  <1>9. CASE Expire
    BY <1>9 DEF Expire
  <1>10. CASE WaitEnds
    <2>1. CASE AckArrives
      BY <2>1 DEF AckArrives, Return, PC, InCall
    <2>2. CASE ResponseArrives
      BY <2>2 DEF ResponseArrives, Return, PC
    <2>3. CASE AckFails
      <3>1. WaitError \in Errors
        BY DEF WaitError, Errors
      <3>2. CASE NextAttempt(WaitError)
        BY <2>3, <3>1, <3>2, NextAttemptTypes DEF AckFails
      <3>3. CASE ~NextAttempt(WaitError)
        BY <2>3, <3>1, <3>3 DEF AckFails, PC, InCall
      <3> QED
        BY <3>2, <3>3
    <2>4. CASE GraceFails
      <3>1. NextAttempt(lastError)
        BY <2>4 DEF GraceFails
      <3> QED
        BY <2>4, <3>1, NextAttemptTypes DEF GraceFails
    <2>5. CASE ResponseFails
      <3>1. WaitError \in Errors /\ NextAttempt(WaitError)
        BY <2>5 DEF ResponseFails, WaitError, Errors
      <3> QED
        BY <2>5, <3>1, NextAttemptTypes DEF ResponseFails
    <2> QED
      BY <1>10, <2>1, <2>2, <2>3, <2>4, <2>5 DEF WaitEnds
  <1>11. CASE Finished
    BY <1>11 DEF Finished, vars
  <1>12. CASE UNCHANGED vars
    BY <1>12 DEF vars
  <1> QED
    BY <1>1, <1>2, <1>3, <1>4, <1>5, <1>6, <1>7, <1>8, <1>9, <1>10, <1>11,
       <1>12 DEF Next

THEOREM TypeCorrect == Spec => []TypeOK
  BY TypeInit, TypeStep, PTL DEF Spec
-----------------------------------------------------------------------------
(* The inductive invariants.                                               *)

(***************************************************************************)
(* A receiver that has left an error files nothing any more, nobody sleeps *)
(* but in a wait, and a call that began after the error neither sleeps nor *)
(* sees an answer.                                                         *)
(***************************************************************************)
DeadInv ==
    /\ receiverError # "none" => receiver \in {"exited", "off"}
    /\ ~Waiting => blocked = "no"
    /\ pc \in InCall /\ deadAtCall =>
         /\ receiverError # "none"
         /\ ackSeq[slot] = ackBase
         /\ respSeq[slot] = respBase
         /\ blocked = "no"
         /\ lastError # "timeout"
    /\ deadAtCall =>
         /\ outcome # "timeout"
         /\ outcome = "ok" => slot \notin NeedsAck \cup NeedsResponse

(***************************************************************************)
(* A sequence number that has left its baseline stands for evidence that   *)
(* came in during the call, and the caller waits only for what it asked.   *)
(***************************************************************************)
EvidenceInv ==
    pc \in InCall =>
        /\ attempt \in 1..Attempts[slot]
        /\ ackSeq[slot] # ackBase => "ack" \in arrived
        /\ respSeq[slot] # respBase => "resp" \in arrived
        /\ pc = "awaitAck" => slot \in NeedsAck
        /\ pc \in {"grace", "awaitResponse"} => slot \in NeedsResponse

(***************************************************************************)
(* Whose responses are in the pipe: the suspects', and those of the call   *)
(* in progress.  The first attempt of a code that is no suspect has one    *)
(* response at most, in the pipe or already filed.                         *)
(***************************************************************************)
IsResponse(i, s) == answers[i].kind = "resp" /\ answers[i].slot = s

Clean == pc \in InCall /\ slot \notin suspects

PipeInv ==
    \A i \in 1..Len(answers) : answers[i].kind = "resp" =>
        /\ answers[i].slot \in NeedsResponse
        /\ \/ answers[i].slot \in suspects
           \/ /\ pc \in InCall
              /\ answers[i].slot = slot
              /\ answers[i].call = callNo

FirstAttemptInv ==
    Clean /\ attempt = 1 =>
        /\ \A i, j \in 1..Len(answers) :
              IsResponse(i, slot) /\ IsResponse(j, slot) => i = j
        /\ pc = "send" \/ respSeq[slot] # respBase =>
              \A i \in 1..Len(answers) : ~IsResponse(i, slot)
        /\ pc = "send" => respSeq[slot] = respBase

FiledInv == Clean /\ respSeq[slot] # respBase => respData[slot] = callNo

ResultInv ==
    /\ pc \in InCall => ~result.resp /\ (trusted => slot \notin suspects)
    /\ pc \notin InCall /\ result.resp /\ trusted => result.data = callNo

TrustInv == PipeInv /\ FirstAttemptInv /\ FiledInv /\ ResultInv

-----------------------------------------------------------------------------
(***************************************************************************)
(* No thread is left in a closed session: a session is closed before it is *)
(* started, when its start fails, and after the join.                      *)
(***************************************************************************)
THEOREM ClosedHasNoReceiver == Spec => []NoReceiverAfterStop
  <1>1. Init => NoReceiverAfterStop
    BY DEF Init, NoReceiverAfterStop
  <1>2. TypeOK /\ NoReceiverAfterStop /\ [Next]_vars => NoReceiverAfterStop'
    <2> SUFFICES ASSUME NoReceiverAfterStop, [Next]_vars
                 PROVE  NoReceiverAfterStop'
      OBVIOUS
    <2> USE DEF NoReceiverAfterStop
    <2>1. ASSUME NEW created \in BOOLEAN, Start(created)
          PROVE  NoReceiverAfterStop'
      BY <2>1 DEF Start
    <2>2. CASE RequestStop
      BY <2>2 DEF RequestStop
    <2>3. CASE Join
      BY <2>3 DEF Join, Joined
    <2>4. CASE Receiver
      BY <2>4 DEF Receiver, Poll, ReadTimeout, Receive, Lose, ReceiverFails
    <2>5. ASSUME NEW s \in Slots, Call(s) PROVE NoReceiverAfterStop'
      BY <2>5 DEF Call
    <2>6. CASE Transmission
      BY <2>6 DEF Transmission, SendOk, SendFails, NextAttempt, Return
    <2>7. CASE Sleep \/ SpuriousWake \/ Expire
      BY <2>7 DEF Sleep, SpuriousWake, Expire, threadVars
    <2>8. CASE WaitEnds
      BY <2>8 DEF WaitEnds, AckArrives, ResponseArrives, AckFails, GraceFails,
                  ResponseFails, NextAttempt, Return
    <2>9. CASE Finished \/ UNCHANGED vars
      BY <2>9 DEF Finished, vars, threadVars
    <2> QED
      BY <2>1, <2>2, <2>3, <2>4, <2>5, <2>6, <2>7, <2>8, <2>9 DEF Next
  <1> QED
    BY <1>1, <1>2, TypeCorrect, PTL DEF Spec

-----------------------------------------------------------------------------
(***************************************************************************)
(* A dead receiver makes calls fail fast.                                  *)
(***************************************************************************)
LEMMA DeadStep == TypeOK /\ DeadInv /\ [Next]_vars => DeadInv'
  <1> SUFFICES ASSUME TypeOK, DeadInv, [Next]_vars PROVE DeadInv'
    OBVIOUS
  <1> USE DEF DeadInv, InCall, Waiting
  <1> USE DEF threadVars, filedVars, callVars, historyVars
  <1>e. lastError \in Errors /\ receiverError \in {"none", "io"}
    BY DEF TypeOK
  <1>1. ASSUME NEW created \in BOOLEAN, Start(created) PROVE DeadInv'
    BY <1>1 DEF Start
  <1>2. CASE RequestStop
    BY <1>2 DEF RequestStop
  <1>3. CASE Join
    BY <1>3 DEF Join
  <1>4. CASE Receiver
    BY <1>4, <1>e DEF Receiver, Poll, ReadTimeout, Receive, Lose, ReceiverFails,
                      Broadcast
  <1>5. ASSUME NEW s \in Slots, Call(s) PROVE DeadInv'
    <2>1. receiverError' # "none" => receiver' \in {"exited", "off"}
      BY <1>5 DEF Call
    <2>2. /\ receiverError' = receiverError
          /\ deadAtCall' <=> receiverError' # "none"
          /\ ackSeq'[slot'] = ackBase'
          /\ respSeq'[slot'] = respBase'
          /\ lastError' = "other"
          /\ outcome' = "none"
      BY <1>5 DEF Call, Baselines
    <2>3. blocked' = "no"
      BY <1>5 DEF Call
    <2> QED
      BY <1>5, <2>1, <2>2, <2>3 DEF Call
  <1>6. CASE Transmission
    BY <1>6 DEF Transmission, SendOk, SendFails, NextAttempt, Return
  <1>7. CASE Sleep \/ SpuriousWake \/ Expire
    BY <1>7 DEF Sleep, MustSleep, SpuriousWake, Expire, Answered
  <1>8. CASE WaitEnds
    <2> USE DEF Return
    <2>1. CASE AckArrives
      BY <1>e, <2>1 DEF AckArrives, Answered
    <2>2. CASE ResponseArrives
      BY <1>e, <2>2 DEF ResponseArrives, Answered
    <2>3. CASE AckFails
      BY <1>e, <2>3 DEF AckFails, WaitError, NextAttempt, Errors
    <2>4. CASE GraceFails
      BY <1>e, <2>4 DEF GraceFails, NextAttempt, Errors
    <2>5. CASE ResponseFails
      BY <1>e, <2>5 DEF ResponseFails, WaitError, NextAttempt, Errors
    <2> QED
      BY <1>8, <2>1, <2>2, <2>3, <2>4, <2>5 DEF WaitEnds
  <1>9. CASE Finished \/ UNCHANGED vars
    BY <1>9 DEF Finished, vars
  <1> QED
    BY <1>1, <1>2, <1>3, <1>4, <1>5, <1>6, <1>7, <1>8, <1>9 DEF Next

THEOREM FailsFastWhenDead == Spec => []DeadReceiverFailsFast
  <1>1. Init => DeadInv
    BY DEF Init, DeadInv, InCall, Waiting
  <1>2. DeadInv => DeadReceiverFailsFast
    BY DEF DeadInv, DeadReceiverFailsFast
  <1> QED
    BY <1>1, <1>2, DeadStep, TypeCorrect, PTL DEF Spec

-----------------------------------------------------------------------------
(***************************************************************************)
(* The session keeps the promise of Rpc.tla.                               *)
(***************************************************************************)
LEMMA EvidenceStep == TypeOK /\ EvidenceInv /\ [Next]_vars => EvidenceInv'
  <1> SUFFICES ASSUME TypeOK, EvidenceInv, [Next]_vars PROVE EvidenceInv'
    OBVIOUS
  <1> USE DEF EvidenceInv, InCall
  <1> USE DEF threadVars, filedVars, callVars, historyVars
  <1>t. attempt \in Nat /\ slot \in Slots /\ Attempts \in [Slots -> Nat \ {0}]
    BY SessionAssumption DEF TypeOK
  <1>1. ASSUME NEW created \in BOOLEAN, Start(created) PROVE EvidenceInv'
    BY <1>1 DEF Start
  <1>2. CASE RequestStop \/ Join
    BY <1>2 DEF RequestStop, Join
  <1>3. CASE Receiver
    <2>1. CASE Receive
      <3> DEFINE a == Head(answers)
      <3>1. /\ IF a.kind = "ack" THEN StoreAck(a) ELSE StoreResponse(a)
            /\ arrived' = IF a.slot = slot THEN arrived \cup {a.kind} ELSE arrived
            /\ UNCHANGED <<pc, slot, attempt, ackBase, respBase>>
        BY <2>1 DEF Receive
      <3>2. a \in Answer
        BY <2>1 DEF Receive, TypeOK
      <3>3. a.kind \in {"ack", "resp"} /\ a.slot \in Slots
        BY <3>2 DEF Answer, Kinds
      <3>4. ackSeq \in [Slots -> Nat] /\ respSeq \in [Slots -> Nat]
        BY DEF TypeOK
      <3> HIDE DEF a
      <3>5. ackSeq'[slot] # ackSeq[slot] => "ack" \in arrived'
        BY <1>t, <3>1, <3>3, <3>4 DEF StoreAck, StoreResponse
      <3>6. respSeq'[slot] # respSeq[slot] => "resp" \in arrived'
        BY <1>t, <3>1, <3>3, <3>4 DEF StoreAck, StoreResponse
      <3>7. arrived \subseteq arrived'
        BY <3>1
      <3> QED
        BY <3>1, <3>5, <3>6, <3>7
    <2> QED
      BY <1>3, <2>1 DEF Receiver, Poll, ReadTimeout, Lose, ReceiverFails
  <1>4. ASSUME NEW s \in Slots, Call(s) PROVE EvidenceInv'
    BY <1>4, <1>t DEF Call, Baselines
  <1>5. CASE Transmission
    BY <1>5, <1>t DEF Transmission, SendOk, SendFails, NextAttempt, Return
  <1>6. CASE Sleep \/ SpuriousWake \/ Expire
    BY <1>6 DEF Sleep, SpuriousWake, Expire
  <1>7. CASE WaitEnds
    <2> USE DEF Return
    <2>1. CASE AckArrives
      BY <1>t, <2>1 DEF AckArrives
    <2>2. CASE ResponseArrives
      BY <1>t, <2>2 DEF ResponseArrives
    <2>3. CASE AckFails
      BY <1>t, <2>3 DEF AckFails, NextAttempt
    <2>4. CASE GraceFails
      BY <1>t, <2>4 DEF GraceFails, NextAttempt
    <2>5. CASE ResponseFails
      BY <1>t, <2>5 DEF ResponseFails, NextAttempt
    <2> QED
      BY <1>7, <2>1, <2>2, <2>3, <2>4, <2>5 DEF WaitEnds
  <1>8. CASE Finished \/ UNCHANGED vars
    BY <1>8 DEF Finished, vars
  <1> QED
    BY <1>1, <1>2, <1>3, <1>4, <1>5, <1>6, <1>7, <1>8 DEF Next

(***************************************************************************)
(* What an attempt that fails is to Rpc.tla: a retry or the end.           *)
(***************************************************************************)
LEMMA FailureRefines ==
    ASSUME TypeOK, EvidenceInv, pc \in InCall,
           NEW e \in Errors, NextAttempt(e),
           UNCHANGED <<slot, arrived>>
    PROVE  Promise!Retry \/ Promise!GiveUp
  <1> USE DEF Verdict, InCall, Return
  <1>1. attempt \in Nat /\ Attempts[slot] \in Nat /\ attempt \in 1..Attempts[slot]
    BY SessionAssumption DEF TypeOK, EvidenceInv
  <1>2. Verdict = "busy"
    OBVIOUS
  <1>3. CASE attempt < Attempts[slot]
    <2>1. Verdict' = "busy" /\ attempt' = attempt + 1
      BY <1>3 DEF NextAttempt
    <2> QED
      BY <1>2, <1>3, <2>1 DEF Promise!Retry
  <1>4. CASE ~(attempt < Attempts[slot])
    <2>1. Verdict' = "failed" /\ attempt' = attempt
      BY <1>4 DEF NextAttempt, Errors
    <2>2. attempt = Attempts[slot]
      BY <1>1, <1>4
    <2> QED
      BY <1>2, <2>1, <2>2 DEF Promise!GiveUp
  <1> QED
    BY <1>3, <1>4

LEMMA StepRefines ==
    TypeOK /\ EvidenceInv /\ [Next]_vars => [Promise!Next]_(Promise!rpcVars)
  <1> SUFFICES ASSUME TypeOK, EvidenceInv, [Next]_vars
               PROVE  Promise!Next \/ UNCHANGED <<Verdict, slot, attempt, arrived>>
    BY DEF Promise!rpcVars
  <1> USE DEF Verdict, InCall
  <1> USE DEF threadVars, filedVars, callVars, historyVars
  <1>e. lastError \in Errors /\ receiverError \in {"none", "io"}
    BY DEF TypeOK
  <1>1. ASSUME NEW created \in BOOLEAN, Start(created) PROVE Promise!Next
    BY <1>1 DEF Start, Promise!Next, Promise!Forget
  <1>2. CASE RequestStop
    BY <1>2 DEF RequestStop
  <1>3. CASE Join
    BY <1>3 DEF Join, Promise!Next, Promise!Forget
  <1>4. CASE Receiver
    <2>1. CASE Receive
      <3> DEFINE a == Head(answers)
      <3>1. /\ arrived' = IF a.slot = slot THEN arrived \cup {a.kind} ELSE arrived
            /\ UNCHANGED <<pc, outcome, slot, attempt>>
        BY <2>1 DEF Receive
      <3>2. a \in Answer
        BY <2>1 DEF Receive, TypeOK
      <3>3. a.kind \in {"ack", "resp"}
        BY <3>2 DEF Answer, Kinds
      <3> HIDE DEF a
      <3>4. CASE a.slot = slot
        <4>1. Promise!Arrive(a.kind)
          BY <3>1, <3>4 DEF Promise!Arrive
        <4> QED
          BY <3>3, <4>1 DEF Promise!Next, Promise!Evidence
      <3>5. CASE a.slot # slot
        BY <3>1, <3>5
      <3> QED
        BY <3>4, <3>5
    <2> QED
      BY <1>4, <2>1 DEF Receiver, Poll, ReadTimeout, Lose, ReceiverFails
  <1>5. ASSUME NEW s \in Slots, Call(s) PROVE Promise!Next
    <2>1. Promise!Begin(s)
      BY <1>5 DEF Call, Promise!Begin
    <2> QED
      BY <2>1 DEF Promise!Next
  <1>6. CASE Transmission
    <2>1. CASE SendOk
      BY <2>1 DEF SendOk, Return, Promise!Next, Promise!Succeed, Promise!Sufficient
    <2>2. ASSUME NEW reached \in BOOLEAN, SendFails(reached) PROVE Promise!Next
      BY <2>2, FailureRefines DEF SendFails, Errors, Promise!Next
    <2> QED
      BY <1>6, <2>1, <2>2 DEF Transmission
  <1>7. CASE Sleep \/ SpuriousWake \/ Expire
    BY <1>7 DEF Sleep, SpuriousWake, Expire
  <1>8. CASE WaitEnds
    <2>1. CASE AckArrives
      BY <2>1 DEF AckArrives, Answered, Return, EvidenceInv,
                  Promise!Next, Promise!Succeed, Promise!Sufficient
    <2>2. CASE ResponseArrives
      BY <2>2 DEF ResponseArrives, Answered, Return, EvidenceInv,
                  Promise!Next, Promise!Succeed, Promise!Sufficient
    <2>3. CASE AckFails
      BY <1>e, <2>3, FailureRefines
      DEF AckFails, WaitError, Errors, Promise!Next
    <2>4. CASE GraceFails
      BY <1>e, <2>4, FailureRefines DEF GraceFails, Promise!Next
    <2>5. CASE ResponseFails
      BY <1>e, <2>5, FailureRefines
      DEF ResponseFails, WaitError, Errors, Promise!Next
    <2> QED
      BY <1>8, <2>1, <2>2, <2>3, <2>4, <2>5 DEF WaitEnds
  <1>9. CASE Finished \/ UNCHANGED vars
    BY <1>9 DEF Finished, vars
  <1> QED
    BY <1>1, <1>2, <1>3, <1>4, <1>5, <1>6, <1>7, <1>8, <1>9 DEF Next

THEOREM ImplementsRpc == Spec => KeepsPromise
  <1>1. Init => Promise!Init
    BY DEF Init, Promise!Init, Verdict, InCall
  <1>2. Init => EvidenceInv
    BY DEF Init, EvidenceInv, InCall
  <1> QED
    BY <1>1, <1>2, EvidenceStep, StepRefines, TypeCorrect, PTL
    DEF Spec, KeepsPromise, Promise!Spec

-----------------------------------------------------------------------------
(***************************************************************************)
(* Trusted responses are the caller's own.  First, how the pipe changes.   *)
(***************************************************************************)
LEMMA PipeTail ==
    ASSUME answers \in Seq(Answer), answers # <<>>, answers' = Tail(answers)
    PROVE  /\ \A i \in 1..Len(answers') :
                 i + 1 \in 1..Len(answers) /\ answers'[i] = answers[i + 1]
           /\ 1 \in 1..Len(answers)
           /\ Head(answers) = answers[1]
  <1>1. /\ Len(answers) \in Nat \ {0}
        /\ Len(Tail(answers)) = Len(answers) - 1
        /\ \A i \in 1..Len(Tail(answers)) : Tail(answers)[i] = answers[i + 1]
    BY HeadTailProperties, EmptySeq, LenProperties
  <1> QED
    BY <1>1

LEMMA PipeAppend ==
    ASSUME answers \in Seq(Answer), NEW s \in Slots, callNo \in Nat,
           answers' = answers \o AnswersTo(s)
    PROVE  /\ Len(answers') \in Nat
           /\ \A i \in 1..Len(answers') :
                \/ i \in 1..Len(answers) /\ answers'[i] = answers[i]
                \/ /\ i \notin 1..Len(answers)
                   /\ answers'[i].slot = s
                   /\ answers'[i].call = callNo
                   /\ answers'[i].kind = "resp" =>
                        s \in NeedsResponse /\ i = Len(answers')
  <1> DEFINE ack  == [kind |-> "ack", slot |-> s, call |-> callNo]
             resp == [kind |-> "resp", slot |-> s, call |-> callNo]
             new  == AnswersTo(s)
  <1>1. new \in Seq(Answer)
    BY AnswersToType
  <1>2. \A k \in 1..Len(new) :
          /\ new[k].slot = s
          /\ new[k].call = callNo
          /\ new[k].kind = "resp" => s \in NeedsResponse /\ k = Len(new)
    <2>1. CASE s \in NeedsAck /\ s \in NeedsResponse
      <3>1. new = <<ack>> \o <<resp>>
        BY <2>1, Zenon DEF AnswersTo
      <3>2. <<ack>> \in Seq(Answer) /\ <<resp>> \in Seq(Answer)
        BY DEF Answer, Kinds
      <3>3. Len(new) = 2 /\ new[1] = ack /\ new[2] = resp
        BY <3>1, <3>2, ConcatProperties
      <3> QED
        BY <2>1, <3>3
    <2>2. CASE s \in NeedsAck /\ s \notin NeedsResponse
      <3>1. new = <<ack>>
        BY <2>2 DEF AnswersTo
      <3> QED
        BY <3>1
    <2>3. CASE s \notin NeedsAck /\ s \in NeedsResponse
      <3>1. new = <<resp>>
        BY <2>3 DEF AnswersTo
      <3> QED
        BY <2>3, <3>1
    <2>4. CASE s \notin NeedsAck /\ s \notin NeedsResponse
      <3>1. new = <<>>
        BY <2>4 DEF AnswersTo
      <3> QED
        BY <3>1
    <2> QED
      BY <2>1, <2>2, <2>3, <2>4
  <1> HIDE DEF new
  <1>3. /\ Len(answers) \in Nat
        /\ Len(new) \in Nat
        /\ Len(answers') = Len(answers) + Len(new)
        /\ \A i \in 1..Len(answers') :
             answers'[i] = IF i <= Len(answers) THEN answers[i]
                                                ELSE new[i - Len(answers)]
    BY <1>1, ConcatProperties, LenProperties DEF new
  <1>4. ASSUME NEW i \in 1..Len(answers'), i \notin 1..Len(answers)
        PROVE  /\ i - Len(answers) \in 1..Len(new)
               /\ answers'[i] = new[i - Len(answers)]
    BY <1>3, <1>4
  <1> QED
    BY <1>2, <1>3, <1>4

(***************************************************************************)
(* A receiver step that takes one answer out of the pipe, and files it or  *)
(* loses it.                                                               *)
(***************************************************************************)
LEMMA TakeStep ==
    ASSUME TypeOK, TrustInv, answers # <<>>, answers' = Tail(answers),
           UNCHANGED <<pc, slot, attempt, respBase, suspects, trusted, callNo,
                       result>>,
           \/ UNCHANGED <<respSeq, respData>>
           \/ StoreResponse(Head(answers)) /\ Head(answers).kind = "resp"
    PROVE  TrustInv'
  <1> DEFINE a == Head(answers)
  <1>1. /\ answers \in Seq(Answer)
        /\ respSeq \in [Slots -> Nat]
        /\ respData \in [Slots -> Nat]
        /\ slot \in Slots
    BY DEF TypeOK
  <1>2. /\ \A i \in 1..Len(answers') :
             i + 1 \in 1..Len(answers) /\ answers'[i] = answers[i + 1]
        /\ 1 \in 1..Len(answers)
        /\ a = answers[1]
    BY <1>1, PipeTail
  <1>3. a \in Answer
    BY <1>1
  <1>4. a.slot \in Slots /\ a.call \in Nat
    BY <1>3 DEF Answer
  <1>5. Len(answers') \in Nat
    BY <1>1
  <1> HIDE DEF a
  <1>6. PipeInv'
    BY <1>2 DEF TrustInv, PipeInv
  <1>7. \A i, j \in 1..Len(answers') :
           Clean /\ attempt = 1 /\ IsResponse(i, slot)' /\ IsResponse(j, slot)'
             => i = j
    <2> SUFFICES ASSUME NEW i \in 1..Len(answers'), NEW j \in 1..Len(answers'),
                        Clean, attempt = 1,
                        IsResponse(i, slot)', IsResponse(j, slot)'
                 PROVE  i = j
      OBVIOUS
    <2>1. i + 1 = j + 1
      BY <1>2 DEF TrustInv, FirstAttemptInv, IsResponse
    <2> QED
      BY <1>5, <2>1
  <1>8. CASE UNCHANGED <<respSeq, respData>>
    <2>1. FirstAttemptInv'
      BY <1>2, <1>7, <1>8 DEF TrustInv, FirstAttemptInv, Clean, IsResponse
    <2>2. FiledInv' /\ ResultInv'
      BY <1>8 DEF TrustInv, FiledInv, ResultInv, Clean
    <2> QED
      BY <1>6, <2>1, <2>2 DEF TrustInv
  <1>9. CASE StoreResponse(a) /\ a.kind = "resp"
    <2>1. /\ respSeq' = [respSeq EXCEPT ![a.slot] = @ + 1]
          /\ respData' = [respData EXCEPT ![a.slot] = a.call]
      BY <1>9 DEF StoreResponse
    <2>2. CASE a.slot = slot
      <3>1. Clean => a.call = callNo
        BY <1>2, <1>9, <2>2 DEF TrustInv, PipeInv, Clean
      <3>2. FiledInv'
        BY <1>1, <1>4, <2>1, <2>2, <3>1 DEF FiledInv, Clean
      <3>3. Clean /\ attempt = 1 => pc # "send"
        BY <1>2, <1>9, <2>2 DEF TrustInv, FirstAttemptInv, IsResponse
      <3>4. ASSUME Clean, attempt = 1, NEW i \in 1..Len(answers'),
                   IsResponse(i, slot)'
            PROVE  FALSE
        <4>1. IsResponse(1, slot) /\ IsResponse(i + 1, slot)
          BY <1>2, <1>9, <2>2, <3>4 DEF IsResponse
        <4>2. i + 1 = 1
          BY <1>2, <3>4, <4>1 DEF TrustInv, FirstAttemptInv
        <4> QED
          BY <1>5, <4>2
      <3>5. FirstAttemptInv'
        BY <1>7, <3>3, <3>4 DEF FirstAttemptInv, Clean, IsResponse
      <3>6. ResultInv'
        BY DEF TrustInv, ResultInv
      <3> QED
        BY <1>6, <3>2, <3>5, <3>6 DEF TrustInv
    <2>3. CASE a.slot # slot
      <3>1. respSeq'[slot] = respSeq[slot] /\ respData'[slot] = respData[slot]
        BY <1>1, <1>4, <2>1, <2>3
      <3>2. FirstAttemptInv'
        BY <1>2, <1>7, <3>1 DEF TrustInv, FirstAttemptInv, Clean, IsResponse
      <3>3. FiledInv' /\ ResultInv'
        BY <3>1 DEF TrustInv, FiledInv, ResultInv, Clean
      <3> QED
        BY <1>6, <3>2, <3>3 DEF TrustInv
    <2> QED
      BY <2>2, <2>3
  <1> QED
    BY <1>8, <1>9 DEF a

(***************************************************************************)
(* A transmission that reaches the sensor.                                 *)
(***************************************************************************)
LEMMA SendStep ==
    ASSUME TypeOK, EvidenceInv, TrustInv, SendOk
    PROVE  TrustInv'
  <1> USE DEF InCall
  <1>1. answers \in Seq(Answer) /\ callNo \in Nat /\ slot \in Slots
    BY DEF TypeOK
  <1>2. /\ Len(answers') \in Nat
        /\ \A i \in 1..Len(answers') :
             \/ i \in 1..Len(answers) /\ answers'[i] = answers[i]
             \/ /\ i \notin 1..Len(answers)
                /\ answers'[i].slot = slot
                /\ answers'[i].call = callNo
                /\ answers'[i].kind = "resp" =>
                     slot \in NeedsResponse /\ i = Len(answers')
    BY <1>1, PipeAppend DEF SendOk
  <1>3. /\ pc = "send"
        /\ UNCHANGED <<respSeq, respData, respBase, slot, attempt, callNo,
                       trusted, result>>
    BY DEF SendOk, filedVars, callVars
  <1>4. CASE slot \in NeedsAck \cup NeedsResponse
    <2>1. pc' \in InCall \ {"send"} /\ suspects' = suspects
      BY <1>4 DEF SendOk
    <2>2. PipeInv'
      BY <1>2, <1>3, <2>1 DEF TrustInv, PipeInv
    <2>3. FirstAttemptInv'
      BY <1>2, <1>3, <2>1 DEF TrustInv, FirstAttemptInv, Clean, IsResponse
    <2>4. FiledInv' /\ ResultInv'
      BY <1>3, <2>1 DEF TrustInv, FiledInv, ResultInv, Clean
    <2> QED
      BY <2>2, <2>3, <2>4 DEF TrustInv
  <1>5. CASE slot \notin NeedsAck \cup NeedsResponse
    <2>1. /\ pc' = "ready"
          /\ suspects' = IF attempt = 1 THEN suspects ELSE suspects \cup {slot}
      BY <1>5 DEF SendOk, Return
    <2>2. PipeInv'
      BY <1>2, <1>3, <1>5, <2>1 DEF TrustInv, PipeInv
    <2>3. FirstAttemptInv' /\ FiledInv' /\ ResultInv'
      BY <1>3, <2>1 DEF TrustInv, FirstAttemptInv, FiledInv, ResultInv, Clean
    <2> QED
      BY <2>2, <2>3 DEF TrustInv
  <1> QED
    BY <1>4, <1>5

(***************************************************************************)
(* An attempt that fails, whatever has become of its transmission: the     *)
(* pipe holds what it held, and perhaps answers to this very call.         *)
(***************************************************************************)
LEMMA FailStep ==
    ASSUME TypeOK, EvidenceInv, TrustInv, pc \in InCall,
           NEW e \in Errors, NextAttempt(e),
           UNCHANGED <<respSeq, respData, respBase, slot, callNo, trusted, result>>,
           \A i \in 1..Len(answers') :
              \/ i \in 1..Len(answers) /\ answers'[i] = answers[i]
              \/ /\ answers'[i].slot = slot
                 /\ answers'[i].call = callNo
                 /\ answers'[i].kind = "resp" => slot \in NeedsResponse
    PROVE  TrustInv'
  <1> USE DEF InCall, Return
  <1>1. attempt \in 1..Attempts[slot] /\ Attempts[slot] \in Nat
    BY SessionAssumption DEF TypeOK, EvidenceInv
  <1>2. CASE attempt < Attempts[slot]
    <2>1. attempt' = attempt + 1 /\ pc' = "send" /\ suspects' = suspects
      BY <1>2 DEF NextAttempt
    <2>2. attempt' # 1
      BY <1>1, <2>1
    <2>3. PipeInv'
      BY <2>1 DEF TrustInv, PipeInv
    <2>4. FirstAttemptInv'
      BY <2>2 DEF FirstAttemptInv
    <2>5. FiledInv' /\ ResultInv'
      BY <2>1 DEF TrustInv, FiledInv, ResultInv, Clean
    <2> QED
      BY <2>3, <2>4, <2>5 DEF TrustInv
  <1>3. CASE ~(attempt < Attempts[slot])
    <2>1. pc' = "ready" /\ suspects' = suspects \cup {slot}
      BY <1>3 DEF NextAttempt, Errors
    <2>2. PipeInv'
      BY <2>1 DEF TrustInv, PipeInv
    <2>3. FirstAttemptInv' /\ FiledInv' /\ ResultInv'
      BY <2>1 DEF TrustInv, FirstAttemptInv, FiledInv, ResultInv, Clean
    <2> QED
      BY <2>2, <2>3 DEF TrustInv
  <1> QED
    BY <1>2, <1>3

LEMMA TrustStep ==
    TypeOK /\ EvidenceInv /\ TrustInv /\ [Next]_vars => TrustInv'
  <1> SUFFICES ASSUME TypeOK, EvidenceInv, TrustInv, [Next]_vars
               PROVE  TrustInv'
    OBVIOUS
  <1> USE DEF InCall
  <1> USE DEF threadVars, filedVars, callVars, historyVars
  <1>e. lastError \in Errors /\ receiverError \in {"none", "io"}
    BY DEF TypeOK
  <1>q. answers \in Seq(Answer) /\ callNo \in Nat /\ slot \in Slots
    BY DEF TypeOK
  <1>f. \A i \in 1..Len(answers) : i \in 1..Len(answers)
    OBVIOUS
  <1>1. ASSUME NEW created \in BOOLEAN, Start(created) PROVE TrustInv'
    <2>1. /\ pc \notin InCall /\ pc' \notin InCall
          /\ UNCHANGED <<answers, result, trusted, callNo, suspects>>
      BY <1>1 DEF Start
    <2> QED
      BY <2>1 DEF TrustInv, PipeInv, FirstAttemptInv, FiledInv, ResultInv, Clean
  <1>2. CASE RequestStop \/ Join
    BY <1>2 DEF RequestStop, Join, TrustInv, PipeInv, FirstAttemptInv,
                FiledInv, ResultInv, Clean
  <1>3. CASE Receiver
    <2>1. CASE Receive
      <3> DEFINE a == Head(answers)
      <3>1. /\ IF a.kind = "ack" THEN StoreAck(a) ELSE StoreResponse(a)
            /\ answers # <<>>
            /\ answers' = Tail(answers)
            /\ UNCHANGED <<pc, slot, attempt, respBase, suspects, trusted,
                           callNo, result>>
        BY <2>1 DEF Receive
      <3>a. a \in Answer
        BY <1>q, <3>1
      <3>2. a.kind \in {"ack", "resp"}
        BY <3>a DEF Answer, Kinds
      <3>3. \/ UNCHANGED <<respSeq, respData>>
            \/ StoreResponse(a) /\ a.kind = "resp"
        BY <3>1, <3>2 DEF StoreAck
      <3> QED
        BY <3>1, <3>3, TakeStep
    <2>2. CASE Lose
      BY <2>2, TakeStep DEF Lose
    <2>3. CASE Poll \/ ReadTimeout \/ ReceiverFails
      BY <2>3 DEF Poll, ReadTimeout, ReceiverFails, TrustInv, PipeInv,
          FirstAttemptInv, FiledInv, ResultInv, Clean, IsResponse
    <2> QED
      BY <1>3, <2>1, <2>2, <2>3 DEF Receiver
  <1>4. ASSUME NEW s \in Slots, Call(s) PROVE TrustInv'
    <2>1. /\ pc = "ready" /\ pc' = "send"
          /\ slot' = s
          /\ respBase' = respSeq[s]
          /\ result' = NoResult
          /\ UNCHANGED <<answers, respSeq, respData, suspects>>
      BY <1>4 DEF Call, Baselines
    <2>2. trusted' <=> s \notin suspects
      BY <1>4 DEF Call
    <2>3. \A i \in 1..Len(answers) :
             answers[i].kind = "resp" => answers[i].slot \in suspects
      BY <2>1 DEF TrustInv, PipeInv
    <2>4. PipeInv'
      BY <2>1, <2>3 DEF TrustInv, PipeInv
    <2>5. FirstAttemptInv' /\ FiledInv'
      BY <2>1, <2>3 DEF FirstAttemptInv, FiledInv, Clean, IsResponse
    <2>6. ResultInv'
      BY <2>1, <2>2 DEF ResultInv, NoResult
    <2> QED
      BY <2>4, <2>5, <2>6 DEF TrustInv
  <1>5. CASE Transmission
    <2>1. CASE SendOk
      BY <2>1, SendStep
    <2>2. ASSUME NEW reached \in BOOLEAN, SendFails(reached) PROVE TrustInv'
      <3>1. \A i \in 1..Len(answers') :
              \/ i \in 1..Len(answers) /\ answers'[i] = answers[i]
              \/ /\ answers'[i].slot = slot
                 /\ answers'[i].call = callNo
                 /\ answers'[i].kind = "resp" => slot \in NeedsResponse
        <4>1. CASE reached
          <5>1. answers' = answers \o AnswersTo(slot)
            BY <2>2, <4>1 DEF SendFails
          <5> QED
            BY <1>q, <5>1, PipeAppend
        <4>2. CASE ~reached
          BY <2>2, <4>2 DEF SendFails
        <4> QED
          BY <4>1, <4>2
      <3>2. /\ pc \in InCall
            /\ NextAttempt("send")
            /\ UNCHANGED <<respSeq, respData, respBase, slot, callNo, trusted,
                           result>>
        BY <2>2 DEF SendFails
      <3>3. "send" \in Errors
        BY DEF Errors
      <3> QED
        BY <3>1, <3>2, <3>3, FailStep
    <2> QED
      BY <1>5, <2>1, <2>2 DEF Transmission
  <1>6. CASE Sleep \/ SpuriousWake \/ Expire
    BY <1>6 DEF Sleep, SpuriousWake, Expire, TrustInv, PipeInv,
        FirstAttemptInv, FiledInv, ResultInv, Clean, IsResponse
  <1>7. CASE WaitEnds
    <2>w. WaitError \in Errors
      BY <1>e DEF WaitError, Errors
    <2>1. CASE AckArrives
      <3>1. /\ pc = "awaitAck"
            /\ result' = [result EXCEPT !.ack = TRUE]
            /\ UNCHANGED <<answers, respSeq, respData, respBase, slot, attempt,
                           callNo, trusted>>
        BY <2>1 DEF AckArrives
      <3>2. result'.resp = result.resp /\ result'.data = result.data
        BY <3>1 DEF TypeOK
      <3>3. CASE slot \in NeedsResponse
        <4>1. pc' = "awaitResponse" /\ suspects' = suspects
          BY <2>1, <3>3 DEF AckArrives
        <4> QED
          BY <3>1, <3>2, <4>1 DEF TrustInv, PipeInv, FirstAttemptInv, FiledInv,
              ResultInv, Clean, IsResponse
      <3>4. CASE slot \notin NeedsResponse
        <4>1. pc' = "ready" /\ suspects \subseteq suspects'
          BY <2>1, <3>4 DEF AckArrives, Return
        <4> QED
          BY <3>1, <3>2, <3>4, <4>1 DEF TrustInv, PipeInv, FirstAttemptInv,
              FiledInv, ResultInv, Clean
      <3> QED
        BY <3>3, <3>4
    <2>2. CASE ResponseArrives
      <3>1. /\ pc \in {"grace", "awaitResponse"}
            /\ respSeq[slot] # respBase
            /\ result' = [result EXCEPT !.resp = TRUE, !.data = respData[slot]]
            /\ pc' = "ready"
            /\ suspects' = IF attempt = 1 THEN suspects ELSE suspects \cup {slot}
            /\ UNCHANGED <<answers, slot, callNo, trusted>>
        BY <2>2 DEF ResponseArrives, Answered, Return
      <3>2. result'.data = respData[slot]
        BY <3>1 DEF TypeOK
      <3>3. ResultInv'
        BY <3>1, <3>2 DEF TrustInv, FiledInv, ResultInv, Clean
      <3>4. PipeInv'
        BY <3>1 DEF TrustInv, PipeInv, FirstAttemptInv, Clean, IsResponse
      <3>5. FirstAttemptInv' /\ FiledInv'
        BY <3>1 DEF FirstAttemptInv, FiledInv, Clean
      <3> QED
        BY <3>3, <3>4, <3>5 DEF TrustInv
    <2>3. CASE AckFails
      <3>1. CASE slot \in NeedsResponse
        BY <2>3, <3>1 DEF AckFails, TrustInv, PipeInv, FirstAttemptInv,
            FiledInv, ResultInv, Clean, IsResponse
      <3>2. CASE slot \notin NeedsResponse
        BY <1>f, <2>3, <2>w, <3>2, FailStep DEF AckFails
      <3> QED
        BY <3>1, <3>2
    <2>4. CASE GraceFails
      BY <1>e, <1>f, <2>4, FailStep DEF GraceFails
    <2>5. CASE ResponseFails
      BY <1>f, <2>5, <2>w, FailStep DEF ResponseFails
    <2> QED
      BY <1>7, <2>1, <2>2, <2>3, <2>4, <2>5 DEF WaitEnds
  <1>8. CASE Finished \/ UNCHANGED vars
    BY <1>8 DEF Finished, vars, TrustInv, PipeInv, FirstAttemptInv, FiledInv,
        ResultInv, Clean, IsResponse
  <1> QED
    BY <1>1, <1>2, <1>3, <1>4, <1>5, <1>6, <1>7, <1>8 DEF Next

THEOREM TrustedResponses == Spec => []TrustedResponseIsOwn
  <1>1. Init => TrustInv /\ EvidenceInv
    BY DEF Init, TrustInv, PipeInv, FirstAttemptInv, FiledInv, ResultInv, Clean,
           EvidenceInv, InCall, NoResult
  <1>2. TrustInv => TrustedResponseIsOwn
    BY DEF TrustInv, ResultInv, TrustedResponseIsOwn, InCall
  <1> QED
    BY <1>1, <1>2, TrustStep, EvidenceStep, TypeCorrect, PTL DEF Spec

=============================================================================
