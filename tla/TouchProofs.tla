---------------------------- MODULE TouchProofs -----------------------------
(***************************************************************************)
(* Theorems about Touch.tla, for any target and any number of attempts,    *)
(* polls, late frames, operations and touches.                             *)
(*                                                                         *)
(* The actions that bring a frame, or none, are first reduced to what they *)
(* leave of the sensor's and the frames' variables; what the loops do then *)
(* needs no sequences.                                                     *)
(***************************************************************************)
EXTENDS Touch, SequenceTheorems, TLAPS

Loops == {"base", "touch", "lift"}

(***************************************************************************)
(* The types, in two parts; with them, an enrollment that goes on still    *)
(* has a sample to take.                                                   *)
(***************************************************************************)
FrameType ==
    /\ finger \in BOOLEAN
    /\ touch \in 0..MaxTouches
    /\ misread \in BOOLEAN
    /\ late \in Seq(Frames)
    /\ request \in 1..CaptureAttempts
    /\ pipe \in {"ready", "error"}
    /\ cancelled \in BOOLEAN
    /\ ops \in 0..MaxOps
    /\ oldTouch \in 0..MaxTouches

LoopType ==
    /\ op \in Operations
    /\ pc \in {"idle", "finish"} \cup Loops
    /\ attempt \in 1..AttemptsOf(op)
    /\ poll \in Nat
    /\ pc \in Loops => poll \in 1..LimitOf(pc)
    /\ absents \in 0..1
    /\ outcome \in {"none"} \cup Outcomes

ResultType ==
    /\ base \in {"none", "empty", "covered"}
    /\ accepted \in 0..Target
    /\ pc \in Loops /\ op = "enroll" => accepted < Target
    /\ shown \in Nat
    /\ baseTouch \in 0..MaxTouches
    /\ scanTouch \in 0..MaxTouches
    /\ samples \in Seq(0..MaxTouches)
    /\ usable \in Nat

TypeInv == FrameType /\ LoopType /\ ResultType

(***************************************************************************)
(* The samples, the count of them and the progress shown go together.      *)
(***************************************************************************)
TemplateInv ==
    /\ op = "enroll" => accepted = Len(samples) /\ shown = accepted
    /\ outcome = "ok" => op = "enroll" /\ accepted = Target

(***************************************************************************)
(* A verification has compared no scan while it goes on, and gives up only *)
(* after its last attempt.                                                 *)
(***************************************************************************)
VerdictInv ==
    op = "verify" =>
        /\ usable <= 1
        /\ pc # "idle" => usable = 0 /\ outcome = "none"
        /\ pc = "finish" => attempt = VerifyAttempts
        /\ outcome \in {"match", "mismatch"} => usable = 1
        /\ outcome = "retry" => usable = 0 /\ attempt = VerifyAttempts

TouchInv == TypeInv /\ TemplateInv /\ VerdictInv

TouchBounds ==
    /\ Target \in Nat \ {0}
    /\ EnrollAttempts \in Nat \ {0}
    /\ VerifyAttempts \in Nat \ {0}
    /\ BaseAttempts \in Nat \ {0}
    /\ FingerPolls \in Nat \ {0}
    /\ LiftPolls \in Nat \ {0}
    /\ CaptureAttempts \in Nat \ {0}
    /\ MaxLate \in Nat
    /\ MaxOps \in Nat
    /\ MaxTouches \in Nat
-----------------------------------------------------------------------------
LEMMA Bounds == TouchBounds
BY TouchAssumption DEF TouchBounds

LEMMA Limits ==
    /\ \A o : AttemptsOf(o) \in Nat \ {0}
    /\ \A p : LimitOf(p) \in Nat \ {0}
BY Bounds DEF TouchBounds, AttemptsOf, LimitOf

(***************************************************************************)
(* What an action that asks the sensor leaves as it should be.             *)
(***************************************************************************)
Asked ==
    /\ misread' \in BOOLEAN
    /\ late' \in Seq(Frames)
    /\ request' \in 1..CaptureAttempts
    /\ UNCHANGED <<finger, touch, pipe, op, cancelled, ops, oldTouch>>

LEMMA Typed ==
    ASSUME FrameType PROVE Queues \subseteq Seq(Frames)
<1> SUFFICES ASSUME NEW look \in Looks
             PROVE  Append(late, [look |-> look, finger |-> finger,
                                  touch |-> touch]) \in Seq(Frames)
  BY DEF FrameType, Queues
<1>1. [look |-> look, finger |-> finger, touch |-> touch] \in Frames
  BY DEF FrameType, Frames
<1> QED
  BY <1>1, AppendProperties DEF FrameType

LEMMA AskTyped ==
    ASSUME FrameType, NEW queue, Ask(queue) PROVE misread' \in BOOLEAN
BY DEF FrameType, Ask

LEMMA LeftTyped ==
    ASSUME FrameType, RequestFails
    PROVE  misread' \in BOOLEAN /\ late' \in Seq(Frames)
<1> PICK queue \in Queues : Ask(queue) /\ LeftBy(queue)
  BY DEF RequestFails
<1>1. queue \in Seq(Frames)
  BY Typed
<1>2. queue # <<>> => Tail(queue) \in Seq(Frames)
  BY <1>1, HeadTailProperties
<1> QED
  BY <1>1, <1>2, AskTyped DEF LeftBy

LEMMA CaptureTyped ==
    ASSUME FrameType, NEW frame, Capture(frame)
    PROVE  Asked /\ pc \in Loops /\ frame \in Frames
<1> PICK queue \in Queues :
         /\ Ask(queue)
         /\ queue # <<>>
         /\ frame = Head(queue)
         /\ late' = Tail(queue)
  BY DEF Capture
<1>1. queue \in Seq(Frames)
  BY Typed
<1>2. Head(queue) \in Frames /\ Tail(queue) \in Seq(Frames)
  BY <1>1, HeadTailProperties
<1>3. request' \in 1..CaptureAttempts
  BY Bounds DEF Capture, TouchBounds
<1> QED
  BY <1>2, <1>3, AskTyped DEF Capture, Asked, Requesting, Loops, sensorVars

LEMMA FailureTyped ==
    ASSUME FrameType, CaptureFails PROVE Asked
<1>1. CASE pipe = "error" /\ UNCHANGED frameVars
  BY <1>1 DEF CaptureFails, FrameType, Asked, frameVars, sensorVars
<1>2. CASE RequestFails /\ request' = 1
  BY <1>2, LeftTyped, Bounds DEF CaptureFails, Asked, sensorVars, TouchBounds
<1> QED
  BY <1>1, <1>2 DEF CaptureFails

LEMMA AskedKeeps ==
    ASSUME FrameType, Asked PROVE FrameType'
BY DEF FrameType, Asked

(***************************************************************************)
(* Every loop begins with its first poll and stays within its limit.       *)
(***************************************************************************)
LEMMA EnterTyped ==
    ASSUME LoopType, NEW p \in {"finish"} \cup Loops, EnterLoop(p), op' = op,
           attempt' \in 1..AttemptsOf(op)
    PROVE  LoopType'
BY Limits DEF LoopType, EnterLoop, Loops

LEMMA PollTyped ==
    ASSUME LoopType, pc \in Loops, PollAgain, op' = op, absents' \in 0..1
    PROVE  LoopType'
BY Limits DEF LoopType, PollAgain, Exhausted, Loops

LEMMA EndTyped ==
    ASSUME LoopType, NEW result \in Outcomes, End(result), op' = op
    PROVE  LoopType'
BY DEF LoopType, End, Loops

LEMMA FrameStep ==
    TypeInv /\ [Next]_vars => FrameType'
<1> SUFFICES ASSUME TypeInv, [Next]_vars
             PROVE  FrameType'
  OBVIOUS
<1> USE Bounds DEF TypeInv, FrameType, TouchBounds
<1>1. CASE PlaceFinger
  <2>1. touch' \in 0..MaxTouches
    BY <1>1 DEF PlaceFinger
  <2>2. finger' \in BOOLEAN /\ misread' \in BOOLEAN
    BY <1>1 DEF PlaceFinger
  <2>3. UNCHANGED <<late, request, pipe, cancelled, ops, oldTouch>>
    BY <1>1 DEF PlaceFinger, pipelineVars, resultVars, historyVars
  <2> QED
    BY <2>1, <2>2, <2>3
<1>2. CASE LiftFinger
  BY <1>2 DEF LiftFinger, frameVars, pipelineVars, resultVars, historyVars
<1>3. CASE Cancel
  BY <1>3 DEF Cancel, sensorVars, frameVars, pipelineVars, historyVars
<1>4. ASSUME NEW o \in Operations, Begin(o)
      PROVE  FrameType'
  <2>1. oldTouch' \in 0..MaxTouches
    <3>1. CASE late = <<>>
      BY <1>4, <3>1 DEF Begin
    <3>2. CASE late # <<>>
      <4>1. Head(late) \in Frames
        BY <3>2, HeadTailProperties
      <4> QED
        BY <1>4, <3>2, <4>1 DEF Begin, Frames
    <3> QED
      BY <3>1, <3>2
  <2>2. ops' \in 0..MaxOps
    BY <1>4 DEF Begin
  <2>3. pipe' \in {"ready", "error"} /\ cancelled' \in BOOLEAN
    BY <1>4 DEF Begin
  <2>4. UNCHANGED <<finger, touch, misread, late, request>>
    BY <1>4 DEF Begin, sensorVars, frameVars
  <2> QED
    BY <2>1, <2>2, <2>3, <2>4
<1>5. CASE StopsWhenCancelled
  <2>1. misread' \in BOOLEAN /\ late' \in Seq(Frames)
    BY <1>5, Typed, AskTyped DEF StopsWhenCancelled
  <2> QED
    BY <1>5, <2>1
       DEF StopsWhenCancelled, sensorVars, pipelineVars, historyVars
<1>6. CASE RequestAgain
  <2>1. misread' \in BOOLEAN /\ late' \in Seq(Frames)
    BY <1>6, LeftTyped DEF RequestAgain
  <2>2. request' \in 1..CaptureAttempts
    BY <1>6 DEF RequestAgain
  <2> QED
    BY <1>6, <2>1, <2>2
       DEF RequestAgain, sensorVars, pipelineVars, resultVars, historyVars
<1>7. CASE CaptureBase
  BY <1>7, CaptureTyped, AskedKeeps DEF CaptureBase
<1>8. CASE NoBase
  BY <1>8, CaptureTyped, FailureTyped, AskedKeeps DEF NoBase
<1>9. CASE NoFinger
  BY <1>9, CaptureTyped, FailureTyped, AskedKeeps DEF NoFinger
<1>10. CASE WeakScan
  BY <1>10, CaptureTyped, AskedKeeps DEF WeakScan
<1>11. CASE SubmitScan
  BY <1>11, CaptureTyped, AskedKeeps DEF SubmitScan, UsableScan
<1>12. CASE MatchScan
  BY <1>12, CaptureTyped, AskedKeeps DEF MatchScan, UsableScan
<1>13. CASE FingerAbsent
  BY <1>13, CaptureTyped, AskedKeeps DEF FingerAbsent
<1>14. CASE FingerPresent
  BY <1>14, CaptureTyped, FailureTyped, AskedKeeps DEF FingerPresent
<1>15. CASE Finish
  BY <1>15 DEF Finish, sensorVars, frameVars, pipelineVars, historyVars
<1>16. CASE Finished \/ UNCHANGED vars
  BY <1>16 DEF Finished, vars, sensorVars, frameVars, pipelineVars, resultVars,
         historyVars
<1> QED
  BY <1>1, <1>2, <1>3, <1>4, <1>5, <1>6, <1>7, <1>8, <1>9, <1>10, <1>11,
     <1>12, <1>13, <1>14, <1>15, <1>16
     DEF Next, Worker

LEMMA LoopStep ==
    TypeInv /\ [Next]_vars => LoopType'
<1> SUFFICES ASSUME TypeInv, [Next]_vars
             PROVE  LoopType'
  OBVIOUS
<1> USE DEF TypeInv, Asked
<1>1. CASE PlaceFinger
  BY <1>1 DEF PlaceFinger, LoopType, loopVars, resultVars
<1>2. CASE LiftFinger
  BY <1>2 DEF LiftFinger, LoopType, loopVars, resultVars
<1>3. CASE Cancel
  BY <1>3 DEF Cancel, LoopType, loopVars
<1>4. ASSUME NEW o \in Operations, Begin(o)
      PROVE  LoopType'
  BY <1>4, Limits DEF Begin, LoopType, Loops
<1>5. CASE StopsWhenCancelled
  BY <1>5, EndTyped DEF StopsWhenCancelled, Outcomes
<1>6. CASE RequestAgain
  BY <1>6 DEF RequestAgain, LoopType, loopVars, resultVars
<1>7. CASE CaptureBase
  <2>1. Asked
    BY <1>7, CaptureTyped DEF CaptureBase, TypeInv
  <2>2. CASE EnterLoop("touch") /\ UNCHANGED attempt
    BY <2>1, <2>2, EnterTyped DEF Loops, LoopType
  <2>3. CASE PollAgain /\ UNCHANGED absents
    BY <1>7, <2>1, <2>3, PollTyped DEF CaptureBase, Loops, LoopType
  <2>4. CASE End("error") \/ End("timeout")
    BY <2>1, <2>4, EndTyped DEF Outcomes
  <2> QED
    BY <1>7, <2>2, <2>3, <2>4 DEF CaptureBase
<1>8. CASE NoBase
  <2>1. Asked
    BY <1>8, FailureTyped DEF NoBase, TypeInv
  <2>2. CASE PollAgain /\ UNCHANGED absents
    BY <1>8, <2>1, <2>2, PollTyped DEF NoBase, Loops, LoopType
  <2>3. CASE End("timeout")
    BY <2>1, <2>3, EndTyped DEF Outcomes
  <2> QED
    BY <1>8, <2>2, <2>3 DEF NoBase
<1>9. CASE NoFinger
  <2>1. Asked
    BY <1>9, CaptureTyped, FailureTyped DEF NoFinger, TypeInv
  <2>2. CASE Unusable
    BY <2>1, <2>2, EnterTyped DEF Unusable, Loops, LoopType
  <2>3. CASE PollAgain /\ UNCHANGED absents
    BY <1>9, <2>1, <2>3, PollTyped DEF NoFinger, Loops, LoopType
  <2> QED
    BY <1>9, <2>2, <2>3 DEF NoFinger
<1>10. CASE WeakScan
  <2>1. Asked
    BY <1>10, CaptureTyped DEF WeakScan, TypeInv
  <2> QED
    BY <1>10, <2>1, EnterTyped DEF WeakScan, Unusable, Loops, LoopType
<1>11. CASE SubmitScan
  <2>1. Asked
    BY <1>11, CaptureTyped DEF SubmitScan, UsableScan, TypeInv
  <2>2. CASE \E p \in {"lift", "finish"} : EnterLoop(p) /\ UNCHANGED attempt
    BY <2>1, <2>2, EnterTyped DEF Loops, LoopType
  <2>3. CASE End("error")
    BY <2>1, <2>3, EndTyped DEF Outcomes
  <2> QED
    BY <1>11, <2>2, <2>3 DEF SubmitScan
<1>12. CASE MatchScan
  <2>1. Asked
    BY <1>12, CaptureTyped DEF MatchScan, UsableScan, TypeInv
  <2> QED
    BY <1>12, <2>1, EndTyped DEF MatchScan, Verdict, Outcomes
<1>13. CASE FingerAbsent
  <2>1. Asked
    BY <1>13, CaptureTyped DEF FingerAbsent, TypeInv
  <2>2. CASE NextAttempt
    <3>1. attempt' \in 1..AttemptsOf(op)
      BY <2>2, Limits DEF NextAttempt, LoopType
    <3> QED
      BY <2>1, <2>2, <3>1, EnterTyped DEF NextAttempt, Loops
  <2>3. CASE ~Lifted /\ PollAgain /\ absents' = absents + 1
    <3>1. absents' \in 0..1
      BY <2>3 DEF Lifted, LoopType
    <3> QED
      BY <1>13, <2>1, <2>3, <3>1, PollTyped DEF FingerAbsent, Loops
  <2>4. CASE End("timeout")
    BY <2>1, <2>4, EndTyped DEF Outcomes
  <2> QED
    BY <1>13, <2>2, <2>3, <2>4 DEF FingerAbsent
<1>14. CASE FingerPresent
  <2>1. Asked
    BY <1>14, CaptureTyped, FailureTyped DEF FingerPresent, TypeInv
  <2>2. CASE PollAgain /\ absents' = 0
    BY <1>14, <2>1, <2>2, PollTyped DEF FingerPresent, Loops
  <2>3. CASE End("timeout")
    BY <2>1, <2>3, EndTyped DEF Outcomes
  <2> QED
    BY <1>14, <2>2, <2>3 DEF FingerPresent
<1>15. CASE Finish
  <2>1. CASE \E result \in Outcomes : End(result)
    BY <1>15, <2>1, EndTyped DEF Finish
  <2> QED
    BY <1>15, <2>1 DEF Finish, Outcomes
<1>16. CASE Finished \/ UNCHANGED vars
  BY <1>16 DEF Finished, vars, LoopType, loopVars, resultVars
<1> QED
  BY <1>1, <1>2, <1>3, <1>4, <1>5, <1>6, <1>7, <1>8, <1>9, <1>10, <1>11,
     <1>12, <1>13, <1>14, <1>15, <1>16
     DEF Next, Worker

LEMMA ResultStep ==
    TypeInv /\ [Next]_vars => ResultType'
<1> SUFFICES ASSUME TypeInv, [Next]_vars
             PROVE  ResultType'
  OBVIOUS
<1> USE Bounds DEF TypeInv, ResultType, TouchBounds, Asked
<1>1. CASE PlaceFinger
  BY <1>1 DEF PlaceFinger, pipelineVars, loopVars, resultVars, historyVars,
              Loops
<1>2. CASE LiftFinger
  BY <1>2 DEF LiftFinger, pipelineVars, loopVars, resultVars, historyVars,
              Loops
<1>3. CASE Cancel
  BY <1>3 DEF Cancel, pipelineVars, loopVars, resultVars, historyVars, Loops
<1>4. ASSUME NEW o \in Operations, Begin(o)
      PROVE  ResultType'
  BY <1>4, EmptySeq DEF Begin
<1>5. CASE StopsWhenCancelled
  BY <1>5 DEF StopsWhenCancelled, End, pipelineVars, loopVars, resultVars,
              historyVars, Loops
<1>6. CASE RequestAgain
  BY <1>6 DEF RequestAgain, pipelineVars, loopVars, resultVars, historyVars,
              Loops
<1>7. CASE CaptureBase
  <2>1. PICK frame \in Answers({"empty", "weak", "usable"}) :
             /\ Capture(frame)
             /\ base' \in {"none", IF frame.finger THEN "covered" ELSE "empty"}
             /\ baseTouch' = frame.touch
    BY <1>7 DEF CaptureBase
  <2>2. Asked /\ frame \in Frames
    BY <2>1, CaptureTyped
  <2>3. base' \in {"none", "empty", "covered"} /\ baseTouch' \in 0..MaxTouches
    BY <2>1, <2>2 DEF Frames
  <2> QED
    BY <1>7, <2>2, <2>3 DEF CaptureBase, Loops
<1>8. CASE NoBase
  <2>1. Asked
    BY <1>8, FailureTyped DEF NoBase
  <2> QED
    BY <1>8, <2>1 DEF NoBase, Loops
<1>9. CASE NoFinger
  <2>1. Asked
    BY <1>9, CaptureTyped, FailureTyped DEF NoFinger
  <2> QED
    BY <1>9, <2>1 DEF NoFinger, Unusable, Report, Loops
<1>10. CASE WeakScan
  <2>1. Asked
    BY <1>10, CaptureTyped DEF WeakScan
  <2> QED
    BY <1>10, <2>1 DEF WeakScan, Unusable, Report, Loops
<1>11. CASE SubmitScan
  <2>1. PICK frame \in Answers({"usable"}) : UsableScan(frame)
                    /\ \/ samples' = Append(samples, frame.touch)
                       \/ UNCHANGED samples
    BY <1>11 DEF SubmitScan
  <2>2. Asked /\ frame \in Frames
    BY <2>1, CaptureTyped DEF UsableScan
  <2>3. frame.touch \in 0..MaxTouches
    BY <2>2 DEF Frames
  <2>4. samples' \in Seq(0..MaxTouches)
    BY <2>1, <2>3, AppendProperties
  <2>5. /\ scanTouch' \in 0..MaxTouches
        /\ usable' \in Nat
        /\ UNCHANGED <<base, baseTouch>>
    BY <1>11, CaptureTyped DEF SubmitScan, UsableScan, Frames
  <2>6. /\ accepted' \in 0..Target /\ shown' \in Nat
        /\ pc' \in Loops => accepted' < Target
    BY <1>11 DEF SubmitScan, UsableScan, Report, ReportRejected, EnterLoop,
                 End, Loops
  <2> QED
    BY <2>4, <2>5, <2>6
<1>12. CASE MatchScan
  <2>1. PICK frame \in Answers({"usable"}) : UsableScan(frame)
    BY <1>12 DEF MatchScan
  <2>2. Asked /\ frame \in Frames
    BY <2>1, CaptureTyped DEF UsableScan
  <2>3. scanTouch' \in 0..MaxTouches
    BY <2>1, <2>2 DEF UsableScan, Frames
  <2> QED
    BY <1>12, <2>1, <2>2, <2>3 DEF MatchScan, UsableScan
<1>13. CASE FingerAbsent
  <2>1. Asked
    BY <1>13, CaptureTyped DEF FingerAbsent
  <2> QED
    BY <1>13, <2>1 DEF FingerAbsent, Loops
<1>14. CASE FingerPresent
  <2>1. Asked
    BY <1>14, CaptureTyped, FailureTyped DEF FingerPresent
  <2> QED
    BY <1>14, <2>1 DEF FingerPresent, Loops
<1>15. CASE Finish
  BY <1>15 DEF Finish, End, pipelineVars, loopVars, resultVars, historyVars,
               Loops
<1>16. CASE Finished \/ UNCHANGED vars
  BY <1>16 DEF Finished, vars, pipelineVars, loopVars, resultVars,
               historyVars, Loops
<1> QED
  BY <1>1, <1>2, <1>3, <1>4, <1>5, <1>6, <1>7, <1>8, <1>9, <1>10, <1>11,
     <1>12, <1>13, <1>14, <1>15, <1>16
     DEF Next, Worker

LEMMA TemplateStep ==
    TypeInv /\ TemplateInv /\ [Next]_vars => TemplateInv'
<1> SUFFICES ASSUME TypeInv, TemplateInv, [Next]_vars
             PROVE  TemplateInv'
  OBVIOUS
<1> USE DEF TemplateInv
<1>1. CASE PlaceFinger
  BY <1>1 DEF PlaceFinger, loopVars, resultVars, historyVars
<1>2. CASE LiftFinger
  BY <1>2 DEF LiftFinger, loopVars, resultVars, historyVars
<1>3. CASE Cancel
  BY <1>3 DEF Cancel, loopVars, resultVars, historyVars
<1>4. ASSUME NEW o \in Operations, Begin(o)
      PROVE  TemplateInv'
  BY <1>4, EmptySeq DEF Begin
<1>5. CASE StopsWhenCancelled
  BY <1>5 DEF StopsWhenCancelled, End, loopVars, resultVars, historyVars
<1>6. CASE RequestAgain
  BY <1>6 DEF RequestAgain, loopVars, resultVars, historyVars
<1>7. CASE CaptureBase
  <2>1. op' = op
    BY <1>7, CaptureTyped DEF CaptureBase, TypeInv, Asked
  <2> QED
    BY <1>7, <2>1 DEF CaptureBase, EnterLoop, PollAgain, End
<1>8. CASE NoBase
  <2>1. op' = op
    BY <1>8, FailureTyped DEF NoBase, TypeInv, Asked
  <2> QED
    BY <1>8, <2>1 DEF NoBase, PollAgain, End
<1>9. CASE NoFinger
  <2>1. op' = op
    BY <1>9, CaptureTyped, FailureTyped DEF NoFinger, TypeInv, Asked
  <2> QED
    BY <1>9, <2>1 DEF NoFinger, Unusable, Report, EnterLoop,
       PollAgain
<1>10. CASE WeakScan
  <2>1. op' = op
    BY <1>10, CaptureTyped DEF WeakScan, TypeInv, Asked
  <2> QED
    BY <1>10, <2>1 DEF WeakScan, Unusable, Report, EnterLoop
<1>11. CASE SubmitScan
  <2>1. op' = op
    BY <1>11, CaptureTyped DEF SubmitScan, UsableScan, TypeInv, Asked
  <2>2. PICK frame \in Answers({"usable"}) : UsableScan(frame)
           /\ \/ /\ accepted' = accepted + 1
                 /\ samples' = Append(samples, frame.touch)
                 /\ Report(accepted + 1)
              \/ Report(accepted) /\ UNCHANGED <<accepted, samples>>
              \/ UNCHANGED <<accepted, shown, samples>>
    BY <1>11 DEF SubmitScan, ReportRejected
  <2>3. frame.touch \in 0..MaxTouches
    BY <2>2, CaptureTyped DEF UsableScan, TypeInv, Frames
  <2>4. Len(Append(samples, frame.touch)) = Len(samples) + 1
    BY <2>3, AppendProperties DEF TypeInv, ResultType
  <2>5. outcome' # "ok" \/ (outcome' = outcome /\ accepted < Target)
    BY <1>11, CaptureTyped DEF SubmitScan, UsableScan, EnterLoop, End,
           TypeInv, ResultType
  <2> QED
    BY <1>11, <2>1, <2>2, <2>4, <2>5 DEF Report, SubmitScan, TypeInv,
           ResultType
<1>12. CASE MatchScan
  <2>1. op' = op
    BY <1>12, CaptureTyped DEF MatchScan, UsableScan, TypeInv, Asked
  <2> QED
    BY <1>12, <2>1 DEF MatchScan, UsableScan, Verdict, End
<1>13. CASE FingerAbsent
  <2>1. op' = op
    BY <1>13, CaptureTyped DEF FingerAbsent, TypeInv, Asked
  <2> QED
    BY <1>13, <2>1 DEF FingerAbsent, NextAttempt, EnterLoop, PollAgain, End
<1>14. CASE FingerPresent
  <2>1. op' = op
    BY <1>14, CaptureTyped, FailureTyped DEF FingerPresent, TypeInv, Asked
  <2> QED
    BY <1>14, <2>1 DEF FingerPresent, PollAgain, End
<1>15. CASE Finish
  BY <1>15 DEF Finish, Complete, End, TypeInv, LoopType, Operations,
               historyVars
<1>16. CASE Finished \/ UNCHANGED vars
  BY <1>16 DEF Finished, vars, loopVars, resultVars, historyVars
<1> QED
  BY <1>1, <1>2, <1>3, <1>4, <1>5, <1>6, <1>7, <1>8, <1>9, <1>10, <1>11,
     <1>12, <1>13, <1>14, <1>15, <1>16
     DEF Next, Worker

LEMMA VerdictStep ==
    TypeInv /\ VerdictInv /\ [Next]_vars => VerdictInv'
<1> SUFFICES ASSUME TypeInv, VerdictInv, [Next]_vars
             PROVE  VerdictInv'
  OBVIOUS
<1> USE DEF VerdictInv
<1>1. CASE PlaceFinger
  BY <1>1 DEF PlaceFinger, loopVars, resultVars, historyVars
<1>2. CASE LiftFinger
  BY <1>2 DEF LiftFinger, loopVars, resultVars, historyVars
<1>3. CASE Cancel
  BY <1>3 DEF Cancel, loopVars, resultVars, historyVars
<1>4. ASSUME NEW o \in Operations, Begin(o)
      PROVE  VerdictInv'
  BY <1>4 DEF Begin
<1>5. CASE StopsWhenCancelled
  BY <1>5 DEF StopsWhenCancelled, End, loopVars, resultVars, historyVars
<1>6. CASE RequestAgain
  BY <1>6 DEF RequestAgain, loopVars, resultVars, historyVars
<1>7. CASE CaptureBase
  <2>1. op' = op
    BY <1>7, CaptureTyped DEF CaptureBase, TypeInv, Asked
  <2> QED
    BY <1>7, <2>1 DEF CaptureBase, EnterLoop, PollAgain, End
<1>8. CASE NoBase
  <2>1. op' = op
    BY <1>8, FailureTyped DEF NoBase, TypeInv, Asked
  <2> QED
    BY <1>8, <2>1 DEF NoBase, PollAgain, End
<1>9. CASE NoFinger
  <2>1. op' = op
    BY <1>9, CaptureTyped, FailureTyped DEF NoFinger, TypeInv, Asked
  <2> QED
    BY <1>9, <2>1 DEF NoFinger, Unusable, Report, EnterLoop,
       PollAgain
<1>10. CASE WeakScan
  <2>1. op' = op
    BY <1>10, CaptureTyped DEF WeakScan, TypeInv, Asked
  <2> QED
    BY <1>10, <2>1 DEF WeakScan, Unusable, Report, EnterLoop
<1>11. CASE SubmitScan
  <2>1. op' = op
    BY <1>11, CaptureTyped DEF SubmitScan, UsableScan, TypeInv, Asked
  <2> QED
    BY <1>11, <2>1 DEF SubmitScan, UsableScan, EnterLoop, PollAgain, End
<1>12. CASE MatchScan
  <2>1. op' = op
    BY <1>12, CaptureTyped DEF MatchScan, UsableScan, TypeInv, Asked
  <2>2. usable = 0
    BY <1>12, CaptureTyped DEF MatchScan, UsableScan, TypeInv, Loops
  <2> QED
    BY <1>12, <2>1, <2>2 DEF MatchScan, UsableScan, Verdict, End
<1>13. CASE FingerAbsent
  <2>1. op' = op
    BY <1>13, CaptureTyped DEF FingerAbsent, TypeInv, Asked
  <2>2. op = "verify" /\ attempt >= AttemptsOf(op) => attempt = VerifyAttempts
    BY Bounds DEF TypeInv, LoopType, AttemptsOf, TouchBounds
  <2>3. pc = "lift"
    BY <1>13 DEF FingerAbsent
  <2>4. op = "verify" /\ pc' = "finish" => attempt' = VerifyAttempts
    BY <1>13, <2>2, <2>3, Limits
       DEF FingerAbsent, NextAttempt, EnterLoop, PollAgain, End,
       TypeInv, LoopType
  <2> QED
    BY <1>13, <2>1, <2>3, <2>4
       DEF FingerAbsent, NextAttempt, EnterLoop, PollAgain, End
<1>14. CASE FingerPresent
  <2>1. op' = op
    BY <1>14, CaptureTyped, FailureTyped DEF FingerPresent, TypeInv, Asked
  <2> QED
    BY <1>14, <2>1 DEF FingerPresent, PollAgain, End
<1>15. CASE Finish
  BY <1>15 DEF Finish, End, loopVars, resultVars, historyVars
<1>16. CASE Finished \/ UNCHANGED vars
  BY <1>16 DEF Finished, vars, loopVars, resultVars, historyVars
<1> QED
  BY <1>1, <1>2, <1>3, <1>4, <1>5, <1>6, <1>7, <1>8, <1>9, <1>10, <1>11,
     <1>12, <1>13, <1>14, <1>15, <1>16
     DEF Next, Worker

-----------------------------------------------------------------------------
LEMMA InvInit == Init => TouchInv
<1> SUFFICES ASSUME Init PROVE TouchInv
  OBVIOUS
<1> USE Bounds DEF Init, TouchBounds
<1>1. FrameType
  <2>1. late \in Seq(Frames)
    BY EmptySeq
  <2>2. /\ touch \in 0..MaxTouches /\ oldTouch \in 0..MaxTouches
        /\ request \in 1..CaptureAttempts /\ ops \in 0..MaxOps
    OBVIOUS
  <2>3. {finger, misread, cancelled} \subseteq BOOLEAN /\ pipe = "ready"
    OBVIOUS
  <2> QED
    BY <2>1, <2>2, <2>3 DEF FrameType
<1>2. LoopType
  BY Limits DEF LoopType, Loops
<1>3. ResultType
  BY EmptySeq DEF ResultType, Loops
<1>4. TemplateInv /\ VerdictInv
  BY EmptySeq DEF TemplateInv, VerdictInv
<1> QED
  BY <1>1, <1>2, <1>3, <1>4 DEF TouchInv, TypeInv

(***************************************************************************)
(* The inductive invariant holds throughout every behaviour.               *)
(***************************************************************************)
THEOREM InvCorrect == Spec => []TouchInv
<1>1. TouchInv /\ [Next]_vars => TouchInv'
  BY FrameStep, LoopStep, ResultStep, TemplateStep, VerdictStep
     DEF TouchInv, TypeInv
<1> QED
  BY <1>1, InvInit, PTL DEF Spec

(***************************************************************************)
(* The variables keep their types: no loop runs past its limit.            *)
(***************************************************************************)
THEOREM TypeCorrect == Spec => []TypeOK
<1>1. TouchInv => TypeOK
  <2> SUFFICES ASSUME TouchInv PROVE TypeOK
    OBVIOUS
  <2>1. FrameType /\ LoopType /\ ResultType
    BY DEF TouchInv, TypeInv
  <2> QED
    BY <2>1 DEF TypeOK, FrameType, LoopType, ResultType, Loops
<1> QED
  BY <1>1, InvCorrect, PTL

(***************************************************************************)
(* Only a full template is handed out, with every stage of it shown; and a *)
(* verification compares one scan at most.                                 *)
(***************************************************************************)
THEOREM ResultsAreEarned == Spec => [](TemplateIsFull /\ OneScanDecides)
<1>1. TouchInv => TemplateIsFull
  BY DEF TouchInv, TemplateInv, TemplateIsFull
<1>2. TouchInv => OneScanDecides
  BY DEF TouchInv, VerdictInv, OneScanDecides
<1> QED
  BY <1>1, <1>2, InvCorrect, PTL

(***************************************************************************)
(* A step within an operation, and what it may do to the progress of a     *)
(* verification: nothing.                                                  *)
(***************************************************************************)
Same == op' = op /\ (op = "verify" => UNCHANGED <<shown, samples>>)

LEMMA SameOperation ==
    TypeInv /\ ops' = ops /\ [Next]_vars => Same
<1> USE DEF Same
<1> SUFFICES ASSUME TypeInv, ops' = ops, [Next]_vars
             PROVE  Same
  OBVIOUS
<1>1. CASE PlaceFinger
  BY <1>1 DEF PlaceFinger, loopVars, resultVars, historyVars
<1>2. CASE LiftFinger
  BY <1>2 DEF LiftFinger, loopVars, resultVars, historyVars
<1>3. CASE Cancel
  BY <1>3 DEF Cancel, loopVars, resultVars, historyVars
<1>4. ASSUME NEW o \in Operations, Begin(o)
      PROVE  Same
  BY <1>4, Bounds DEF Begin, TypeInv, FrameType, TouchBounds
<1>5. CASE StopsWhenCancelled
  BY <1>5 DEF StopsWhenCancelled, historyVars
<1>6. CASE RequestAgain
  BY <1>6 DEF RequestAgain, loopVars, resultVars, historyVars
<1>7. CASE CaptureBase
  <2>1. op' = op
    BY <1>7, CaptureTyped DEF CaptureBase, TypeInv, Asked
  <2> QED
    BY <1>7, <2>1 DEF CaptureBase
<1>8. CASE NoBase
  <2>1. op' = op
    BY <1>8, FailureTyped DEF NoBase, TypeInv, Asked
  <2> QED
    BY <1>8, <2>1 DEF NoBase
<1>9. CASE NoFinger
  <2>1. op' = op
    BY <1>9, CaptureTyped, FailureTyped DEF NoFinger, TypeInv, Asked
  <2> QED
    BY <1>9, <2>1 DEF NoFinger, Unusable, Report
<1>10. CASE WeakScan
  <2>1. op' = op
    BY <1>10, CaptureTyped DEF WeakScan, TypeInv, Asked
  <2> QED
    BY <1>10, <2>1 DEF WeakScan, Unusable, Report
<1>11. CASE SubmitScan
  <2>1. op' = op
    BY <1>11, CaptureTyped DEF SubmitScan, UsableScan, TypeInv, Asked
  <2> QED
    BY <1>11, <2>1 DEF SubmitScan, UsableScan
<1>12. CASE MatchScan
  <2>1. op' = op
    BY <1>12, CaptureTyped DEF MatchScan, UsableScan, TypeInv, Asked
  <2> QED
    BY <1>12, <2>1 DEF MatchScan, UsableScan
<1>13. CASE FingerAbsent
  <2>1. op' = op
    BY <1>13, CaptureTyped DEF FingerAbsent, TypeInv, Asked
  <2> QED
    BY <1>13, <2>1 DEF FingerAbsent
<1>14. CASE FingerPresent
  <2>1. op' = op
    BY <1>14, CaptureTyped, FailureTyped DEF FingerPresent, TypeInv, Asked
  <2> QED
    BY <1>14, <2>1 DEF FingerPresent
<1>15. CASE Finish
  BY <1>15 DEF Finish, historyVars
<1>16. CASE Finished \/ UNCHANGED vars
  BY <1>16 DEF Finished, vars, loopVars, resultVars, historyVars
<1> QED
  BY <1>1, <1>2, <1>3, <1>4, <1>5, <1>6, <1>7, <1>8, <1>9, <1>10, <1>11,
     <1>12, <1>13, <1>14, <1>15, <1>16
     DEF Next, Worker

(***************************************************************************)
(* Rejected and unusable scans leave the progress alone: within an         *)
(* operation it moves with the samples.                                    *)
(***************************************************************************)
THEOREM ProgressIsExact == Spec => ProgressFollowsSamples
<1>1. TouchInv /\ TouchInv' /\ [Next]_vars
        => (ops' = ops => shown' - shown = Len(samples') - Len(samples))
  <2> SUFFICES ASSUME TouchInv, TouchInv', [Next]_vars, ops' = ops
               PROVE  shown' - shown = Len(samples') - Len(samples)
    OBVIOUS
  <2>1. Len(samples) \in Nat /\ shown \in Nat
    BY LenProperties DEF TouchInv, TypeInv, ResultType
  <2>2. Same
    BY SameOperation DEF TouchInv
  <2>3. CASE op = "enroll"
    BY <2>2, <2>3 DEF Same, TouchInv, TemplateInv
  <2>4. CASE op = "verify"
    BY <2>1, <2>2, <2>4 DEF Same
  <2> QED
    BY <2>3, <2>4 DEF TouchInv, TypeInv, LoopType, Operations
<1> QED
  BY <1>1, InvCorrect, PTL DEF Spec, ProgressFollowsSamples
-----------------------------------------------------------------------------
(***************************************************************************)
(* Touches are told apart by frames alone.  Every touch has two moments:   *)
(* the finger is down, then it is gone until the next touch.  A frame is   *)
(* of one moment, and frames come in the order of their moments, in the    *)
(* queue as on the sensor.                                                 *)
(***************************************************************************)
Moment(f) == IF f.finger THEN 2 * f.touch ELSE 2 * f.touch + 1

Now == IF finger THEN 2 * touch ELSE 2 * touch + 1

(***************************************************************************)
(* After frame i of the queue (0: before the first) the next readable      *)
(* frame, in the queue or still to come, is empty only if moment p is over.*)
(***************************************************************************)
MissedAfter(i, queue, missed, now, p) ==
    /\ \A j \in DOMAIN queue :
         /\ j > i
         /\ \A k \in (i + 1)..(j - 1) : queue[k].look = "bad"
         /\ queue[j].look = "empty"
         => Moment(queue[j]) > p
    /\ (\A k \in (i + 1)..Len(queue) : queue[k].look = "bad") /\ ~missed
         => now > p

Stream(queue, missed, now) ==
    /\ \A i \in DOMAIN queue :
         Moment(queue[i]) <= now /\ (queue[i].look = "usable" => queue[i].finger)
    /\ \A i, j \in DOMAIN queue : i < j => Moment(queue[i]) <= Moment(queue[j])
    /\ \A i \in DOMAIN queue :
         queue[i].look = "empty"
           => MissedAfter(i, queue, missed, now, 2 * queue[i].touch)

(***************************************************************************)
(* Moment p has been reached by every frame that can still be read.        *)
(***************************************************************************)
Floor(p, queue, now) ==
    now >= p /\ \A i \in DOMAIN queue : Moment(queue[i]) >= p

(***************************************************************************)
(* What the loops know of the moments: a bright base and two absent frames *)
(* in a row leave only frames of later touches; one absent frame rules out *)
(* a second one of the same touch.                                         *)
(***************************************************************************)
BaseFloor ==
    /\ Floor(2 * oldTouch, late, Now)
    /\ base = "empty" => Floor(2 * baseTouch + 1, late, Now) /\ baseTouch >= oldTouch

BaseUse ==
    /\ pc \in {"touch", "lift", "finish"} => base = "empty"
    /\ pc = "base" => samples = <<>> /\ usable = 0
    /\ usable > 0 => base = "empty" /\ scanTouch > baseTouch

SampleOrder ==
    /\ \A i, j \in DOMAIN samples : i < j => samples[i] < samples[j]
    /\ \A k \in DOMAIN samples :
         /\ Floor(2 * samples[k], late, Now)
         /\ pc = "touch" => Floor(2 * samples[k] + 1, late, Now)
         /\ pc = "lift" /\ absents = 1
              => MissedAfter(0, late, misread, Now, 2 * samples[k])

OrderInv == Stream(late, misread, Now) /\ BaseFloor /\ BaseUse /\ SampleOrder

LEMMA MomentRange ==
    ASSUME NEW f \in Frames
    PROVE  /\ f.touch \in Nat /\ f.finger \in BOOLEAN
           /\ Moment(f) \in Nat
           /\ f.finger => Moment(f) = 2 * f.touch
           /\ ~f.finger => Moment(f) = 2 * f.touch + 1
<1>1. f.touch \in Nat /\ f.finger \in BOOLEAN
  BY Bounds DEF Frames, TouchBounds
<1> QED
  BY <1>1 DEF Moment

(***************************************************************************)
(* A new frame at the end of the queue keeps it a stream.  The sensor does *)
(* not miss the finger a second time, so an empty frame that follows one   *)
(* is of a later moment.                                                   *)
(***************************************************************************)
LEMMA AppendMissed ==
    ASSUME NEW q \in Seq(Frames), NEW f \in Frames, NEW m \in BOOLEAN,
           NEW n \in BOOLEAN, Moment(f) \in Nat,
           f.look = "bad" => n = m,
           f.look = "empty" => ~(f.finger /\ m),
           NEW i \in 0..Len(q), NEW p \in Nat, 2 * p <= Moment(f),
           MissedAfter(i, q, m, Moment(f), 2 * p)
    PROVE  MissedAfter(i, Append(q, f), n, Moment(f), 2 * p)
<1> DEFINE r == Append(q, f)
<1>1. /\ Len(q) \in Nat /\ Len(r) = Len(q) + 1 /\ DOMAIN r = 1..(Len(q) + 1)
      /\ DOMAIN q = 1..Len(q)
      /\ r[Len(q) + 1] = f /\ \A k \in 1..Len(q) : r[k] = q[k]
  BY AppendProperties, LenProperties
<1> HIDE DEF r
<1>2. ASSUME NEW j \in DOMAIN r, j > i,
             \A k \in (i + 1)..(j - 1) : r[k].look = "bad", r[j].look = "empty"
      PROVE  Moment(r[j]) > 2 * p
  <2>1. CASE j \in DOMAIN q
    <3>1. \A k \in (i + 1)..(j - 1) : q[k].look = "bad"
      BY <1>1, <1>2, <2>1
    <3> QED
      BY <1>1, <1>2, <2>1, <3>1 DEF MissedAfter
  <2>2. CASE j = Len(q) + 1
    <3>1. \A k \in (i + 1)..Len(q) : q[k].look = "bad"
      BY <1>1, <1>2, <2>2
    <3>2. r[j] = f /\ ~(f.finger /\ m)
      BY <1>1, <1>2, <2>2
    <3>3. CASE ~m
      BY <3>1, <3>2, <3>3 DEF MissedAfter
    <3>4. CASE ~f.finger
      BY <3>2, <3>4, MomentRange
    <3> QED
      BY <3>2, <3>3, <3>4
  <2> QED
    BY <1>1, <2>1, <2>2
<1>3. ASSUME \A k \in (i + 1)..Len(r) : r[k].look = "bad", ~n
      PROVE  Moment(f) > 2 * p
  <2>1. f.look = "bad"
    BY <1>1, <1>3
  <2>2. \A k \in (i + 1)..Len(q) : q[k].look = "bad"
    BY <1>1, <1>3
  <2> QED
    BY <1>3, <2>1, <2>2 DEF MissedAfter
<1> QED
  BY <1>2, <1>3 DEF MissedAfter, r

LEMMA AppendStream ==
    ASSUME NEW q \in Seq(Frames), NEW f \in Frames, NEW m \in BOOLEAN,
           NEW n \in BOOLEAN, Moment(f) \in Nat,
           f.look = "bad" => n = m,
           f.look = "empty" => ~(f.finger /\ m) /\ n = f.finger,
           f.look = "usable" => f.finger,
           Stream(q, m, Moment(f))
    PROVE  Stream(Append(q, f), n, Moment(f))
<1> DEFINE r == Append(q, f)
<1>1. /\ Len(q) \in Nat /\ Len(r) = Len(q) + 1 /\ DOMAIN r = 1..(Len(q) + 1)
      /\ DOMAIN q = 1..Len(q)
      /\ r[Len(q) + 1] = f /\ \A k \in 1..Len(q) : r[k] = q[k] /\ q[k] \in Frames
  BY AppendProperties, LenProperties, ElementOfSeq
<1> HIDE DEF r
<1>2. \A i \in DOMAIN r :
        Moment(r[i]) <= Moment(f) /\ (r[i].look = "usable" => r[i].finger)
  <2> SUFFICES ASSUME NEW i \in DOMAIN r
               PROVE  /\ Moment(r[i]) <= Moment(f)
                      /\ r[i].look = "usable" => r[i].finger
    OBVIOUS
  <2>1. CASE i \in DOMAIN q
    BY <1>1, <2>1 DEF Stream
  <2>2. CASE i = Len(q) + 1
    BY <1>1, <2>2
  <2> QED
    BY <1>1, <2>1, <2>2
<1>3. \A i, j \in DOMAIN r : i < j => Moment(r[i]) <= Moment(r[j])
  BY <1>1, <1>2 DEF Stream
<1>4. ASSUME NEW i \in DOMAIN r, r[i].look = "empty"
      PROVE  MissedAfter(i, r, n, Moment(f), 2 * r[i].touch)
  <2>1. CASE i \in DOMAIN q
    <3>1. r[i] = q[i] /\ q[i] \in Frames /\ i \in 0..Len(q)
      BY <1>1, <2>1
    <3>2. q[i].touch \in Nat /\ 2 * q[i].touch <= Moment(f)
      BY <2>1, <3>1, MomentRange DEF Stream
    <3>3. MissedAfter(i, q, m, Moment(f), 2 * q[i].touch)
      BY <1>4, <2>1, <3>1 DEF Stream
    <3> QED
      BY <3>1, <3>2, <3>3, AppendMissed DEF r
  <2>2. CASE i = Len(q) + 1
    <3>1. r[i] = f /\ f.look = "empty"
      BY <1>1, <1>4, <2>2
    <3>2. ~n => Moment(f) > 2 * f.touch
      BY <3>1, MomentRange
    <3> QED
      BY <1>1, <2>2, <3>1, <3>2 DEF MissedAfter
  <2> QED
    BY <1>1, <2>1, <2>2
<1> QED
  BY <1>2, <1>3, <1>4 DEF Stream, r

(***************************************************************************)
(* Reading the oldest frame of the queue, or dropping it, keeps a stream.  *)
(***************************************************************************)
LEMMA TailMissed ==
    ASSUME NEW q \in Seq(Frames), q # <<>>, NEW m, NEW now, NEW p,
           NEW i \in DOMAIN q, MissedAfter(i, q, m, now, p)
    PROVE  MissedAfter(i - 1, Tail(q), m, now, p)
<1> DEFINE r == Tail(q)
<1>1. /\ Len(q) \in Nat /\ DOMAIN q = 1..Len(q)
      /\ Len(r) = Len(q) - 1 /\ DOMAIN r = 1..(Len(q) - 1)
      /\ \A k \in 1..(Len(q) - 1) : r[k] = q[k + 1]
  BY HeadTailProperties, LenProperties
<1> HIDE DEF r
<1>2. ASSUME NEW j \in DOMAIN r, j > i - 1,
             \A k \in i..(j - 1) : r[k].look = "bad", r[j].look = "empty"
      PROVE  Moment(r[j]) > p
  <2>1. j + 1 \in DOMAIN q /\ j + 1 > i /\ r[j] = q[j + 1]
    BY <1>1, <1>2
  <2>2. ASSUME NEW k \in (i + 1)..((j + 1) - 1)
        PROVE  q[k].look = "bad"
    <3>1. k - 1 \in i..(j - 1) /\ k - 1 \in 1..(Len(q) - 1)
      BY <1>1, <1>2
    <3>2. r[k - 1] = q[(k - 1) + 1] /\ (k - 1) + 1 = k
      BY <1>1, <3>1
    <3> QED
      BY <1>2, <3>1, <3>2
  <2> QED
    BY <1>2, <2>1, <2>2 DEF MissedAfter
<1>3. ASSUME \A k \in i..Len(r) : r[k].look = "bad", ~m
      PROVE  now > p
  <2>1. ASSUME NEW k \in (i + 1)..Len(q)
        PROVE  q[k].look = "bad"
    <3>1. k - 1 \in i..Len(r) /\ k - 1 \in 1..(Len(q) - 1)
      BY <1>1
    <3>2. r[k - 1] = q[(k - 1) + 1] /\ (k - 1) + 1 = k
      BY <1>1, <3>1
    <3> QED
      BY <1>3, <3>1, <3>2
  <2> QED
    BY <1>3, <2>1 DEF MissedAfter
<1>4. (i - 1) + 1 = i
  BY <1>1
<1> QED
  BY <1>2, <1>3, <1>4 DEF MissedAfter, r

LEMMA TailStream ==
    ASSUME NEW q \in Seq(Frames), q # <<>>, NEW m, NEW now,
           Stream(q, m, now)
    PROVE  /\ Stream(Tail(q), m, now)
           /\ Floor(Moment(Head(q)), Tail(q), now)
           /\ Head(q).look = "usable" => Head(q).finger
           /\ Head(q).look = "empty"
                => MissedAfter(0, Tail(q), m, now, 2 * Head(q).touch)
           /\ \A p : Floor(p, q, now)
                => Floor(p, Tail(q), now) /\ Moment(Head(q)) >= p
<1> DEFINE r == Tail(q)
<1>1. /\ Len(q) \in Nat /\ DOMAIN q = 1..Len(q) /\ 1 \in DOMAIN q
      /\ Len(r) = Len(q) - 1 /\ DOMAIN r = 1..(Len(q) - 1)
      /\ \A k \in 1..(Len(q) - 1) : r[k] = q[k + 1]
      /\ Head(q) = q[1]
  BY HeadTailProperties, LenProperties
<1> HIDE DEF r
<1>2. \A k \in DOMAIN r : k + 1 \in DOMAIN q /\ r[k] = q[k + 1] /\ 1 < k + 1
  BY <1>1
<1>3. ASSUME NEW i \in DOMAIN r, r[i].look = "empty"
      PROVE  MissedAfter(i, r, m, now, 2 * r[i].touch)
  <2>1. MissedAfter(i + 1, q, m, now, 2 * q[i + 1].touch)
    BY <1>2, <1>3 DEF Stream
  <2>2. MissedAfter((i + 1) - 1, r, m, now, 2 * q[i + 1].touch)
    BY <1>2, <2>1, TailMissed DEF r
  <2>3. (i + 1) - 1 = i
    BY <1>1
  <2> QED
    BY <1>2, <2>2, <2>3
<1>4. ASSUME NEW i \in DOMAIN r, NEW j \in DOMAIN r, i < j
      PROVE  Moment(r[i]) <= Moment(r[j])
  <2>1. i + 1 < j + 1
    BY <1>1, <1>4
  <2> QED
    BY <1>2, <2>1 DEF Stream
<1>5. Stream(r, m, now)
  BY <1>2, <1>3, <1>4 DEF Stream
<1>6. Floor(Moment(Head(q)), r, now)
  BY <1>1, <1>2 DEF Stream, Floor
<1>7. ASSUME Head(q).look = "empty"
      PROVE  MissedAfter(0, r, m, now, 2 * Head(q).touch)
  <2>1. MissedAfter(1, q, m, now, 2 * q[1].touch)
    BY <1>1, <1>7 DEF Stream
  <2>2. MissedAfter(1 - 1, r, m, now, 2 * q[1].touch)
    BY <1>1, <2>1, TailMissed DEF r
  <2> QED
    BY <1>1, <2>2
<1>8. Head(q).look = "usable" => Head(q).finger
  BY <1>1 DEF Stream
<1>9. \A p : Floor(p, q, now) => Floor(p, r, now) /\ Moment(Head(q)) >= p
  BY <1>1, <1>2 DEF Floor
<1> QED
  BY <1>5, <1>6, <1>7, <1>8, <1>9 DEF r

(***************************************************************************)
(* A bad frame at the head of the queue tells nothing, an empty one that   *)
(* the finger's moment is over, if the frame before it was empty as well.  *)
(***************************************************************************)
LEMMA HeadMissed ==
    ASSUME NEW q \in Seq(Frames), q # <<>>, NEW m, NEW now, NEW p,
           MissedAfter(0, q, m, now, p)
    PROVE  /\ Head(q).look = "bad" => MissedAfter(0, Tail(q), m, now, p)
           /\ Head(q).look = "empty" => Moment(Head(q)) > p
<1>1. /\ Len(q) \in Nat /\ DOMAIN q = 1..Len(q) /\ 1 \in DOMAIN q
      /\ Head(q) = q[1]
  BY HeadTailProperties, LenProperties
<1>2. ASSUME q[1].look = "bad"
      PROVE  MissedAfter(1, q, m, now, p)
  <2>1. ASSUME NEW j \in 1..Len(q), \A k \in (1 + 1)..j : q[k].look = "bad"
        PROVE  \A k \in (0 + 1)..j : q[k].look = "bad"
    <3>1. \A k \in (0 + 1)..j : k = 1 \/ k \in (1 + 1)..j
      BY <1>1
    <3> QED
      BY <1>2, <2>1, <3>1
  <2>2. ASSUME NEW j \in DOMAIN q, j > 1,
               \A k \in (1 + 1)..(j - 1) : q[k].look = "bad", q[j].look = "empty"
        PROVE  Moment(q[j]) > p
    <3>1. j - 1 \in 1..Len(q) /\ j > 0
      BY <1>1, <2>2
    <3>2. \A k \in (0 + 1)..(j - 1) : q[k].look = "bad"
      BY <2>1, <2>2, <3>1
    <3> QED
      BY <2>2, <3>1, <3>2 DEF MissedAfter
  <2>3. ASSUME \A k \in (1 + 1)..Len(q) : q[k].look = "bad", ~m
        PROVE  now > p
    <3>1. Len(q) \in 1..Len(q)
      BY <1>1
    <3> QED
      BY <2>1, <2>3, <3>1 DEF MissedAfter
  <2> QED
    BY <2>2, <2>3 DEF MissedAfter
<1>3. q[1].look = "empty" => Moment(q[1]) > p
  BY <1>1 DEF MissedAfter
<1>4. q[1].look = "bad" => MissedAfter(1 - 1, Tail(q), m, now, p)
  BY <1>1, <1>2, TailMissed
<1> QED
  BY <1>1, <1>3, <1>4

(***************************************************************************)
(* What an action may do to the queue and the sensor without the worker    *)
(* learning anything: the stream stays one, no floor gives way, and a      *)
(* touch that the sensor has missed once is not missed again.              *)
(***************************************************************************)
Carries(queue, missed, now) ==
    /\ Stream(queue, missed, now)
    /\ \A p \in Nat : Floor(p, late, Now) => Floor(p, queue, now)
    /\ \A p \in Nat :
         Floor(2 * p, late, Now) /\ MissedAfter(0, late, misread, Now, 2 * p)
           => MissedAfter(0, queue, missed, now, 2 * p)

LEMMA NowRange == FrameType => Now \in Nat
BY Bounds DEF FrameType, Now, TouchBounds

LEMMA AskCarries ==
    ASSUME FrameType, Stream(late, misread, Now), NEW queue \in Queues, Ask(queue)
    PROVE  /\ queue \in Seq(Frames)
           /\ misread' \in BOOLEAN
           /\ Carries(queue, misread', Now)
<1>1. queue \in Seq(Frames) /\ misread' \in BOOLEAN
  BY Typed, AskTyped
<1>2. CASE queue = late /\ UNCHANGED misread
  BY <1>1, <1>2 DEF Carries
<1>3. ASSUME NEW look \in Visible,
             queue = Append(late, [look |-> look, finger |-> finger, touch |-> touch]),
             misread' = IF look = "bad" THEN misread ELSE finger /\ look = "empty"
      PROVE  Carries(queue, misread', Now)
  <2> DEFINE f == [look |-> look, finger |-> finger, touch |-> touch]
  <2>1. f \in Frames /\ late \in Seq(Frames) /\ misread \in BOOLEAN
    BY <1>3 DEF Frames, Looks, Visible, FrameType
  <2>2. Moment(f) = Now
    BY DEF Moment, Now
  <2>3. /\ f.look = "bad" => misread' = misread
        /\ f.look = "usable" => f.finger
    BY <1>3 DEF Visible
  <2>4. f.look = "empty" => ~(f.finger /\ misread)
    BY <1>3 DEF Visible
  <2>5. f.look = "empty" => misread' = f.finger
    BY <1>3 DEF FrameType
  <2>6. queue = Append(late, f) /\ Moment(f) \in Nat
    BY <1>3, <2>2, NowRange
  <2> HIDE DEF f
  <2>7. Stream(queue, misread', Now)
    BY <1>1, <2>1, <2>2, <2>3, <2>4, <2>5, <2>6, AppendStream
  <2>8. \A p \in Nat : Floor(p, late, Now) => Floor(p, queue, Now)
    <3>1. /\ DOMAIN queue = 1..(Len(late) + 1) /\ DOMAIN late = 1..Len(late)
          /\ Len(late) \in Nat
          /\ queue[Len(late) + 1] = f /\ \A k \in 1..Len(late) : queue[k] = late[k]
      BY <1>1, <2>1, <2>6, AppendProperties, LenProperties
    <3> SUFFICES ASSUME NEW p \in Nat, Floor(p, late, Now), NEW k \in DOMAIN queue
                 PROVE  Moment(queue[k]) >= p
      BY DEF Floor
    <3>2. CASE k \in DOMAIN late
      BY <3>1, <3>2 DEF Floor
    <3>3. CASE k = Len(late) + 1
      BY <2>2, <3>1, <3>3 DEF Floor
    <3> QED
      BY <3>1, <3>2, <3>3
  <2>9. ASSUME NEW p \in Nat, Floor(2 * p, late, Now),
               MissedAfter(0, late, misread, Now, 2 * p)
        PROVE  MissedAfter(0, queue, misread', Now, 2 * p)
    <3>1. 2 * p <= Moment(f) /\ 0 \in 0..Len(late)
      BY <2>1, <2>2, <2>9, NowRange, LenProperties DEF Floor
    <3> QED
      BY <1>1, <2>1, <2>2, <2>3, <2>4, <2>6, <2>9, <3>1, AppendMissed
  <2> QED
    BY <2>7, <2>8, <2>9 DEF Carries
<1> QED
  BY <1>1, <1>2, <1>3 DEF Ask

LEMMA DropCarries ==
    ASSUME NEW queue \in Seq(Frames), queue # <<>>, NEW m, NEW now,
           Head(queue).look = "bad", Carries(queue, m, now)
    PROVE  Carries(Tail(queue), m, now)
BY TailStream, HeadMissed DEF Carries

LEMMA FailureCarries ==
    ASSUME FrameType, Stream(late, misread, Now), RequestFails
    PROVE  Carries(late', misread', Now)
<1> PICK queue \in Queues : Ask(queue) /\ LeftBy(queue)
  BY DEF RequestFails
<1>1. queue \in Seq(Frames) /\ Carries(queue, misread', Now)
  BY AskCarries
<1>2. CASE late' = queue
  BY <1>1, <1>2
<1>3. CASE queue # <<>> /\ Head(queue).look = "bad" /\ late' = Tail(queue)
  BY <1>1, <1>3, DropCarries
<1> QED
  BY <1>2, <1>3 DEF LeftBy

LEMMA NoFrameCarries ==
    ASSUME FrameType, Stream(late, misread, Now), CaptureFails
    PROVE  Carries(late', misread', Now)
<1>1. CASE UNCHANGED frameVars
  BY <1>1 DEF Carries, frameVars
<1> QED
  BY <1>1, FailureCarries DEF CaptureFails

(***************************************************************************)
(* What the frame that a capture brings says of those after it.            *)
(***************************************************************************)
LEMMA CaptureCarries ==
    ASSUME FrameType, Stream(late, misread, Now), NEW frame, Capture(frame)
    PROVE  /\ frame \in Frames
           /\ Stream(late', misread', Now)
           /\ Floor(Moment(frame), late', Now)
           /\ \A p \in Nat : Floor(p, late, Now)
                => Floor(p, late', Now) /\ Moment(frame) >= p
           /\ frame.look = "usable" => frame.finger
           /\ frame.look = "empty" =>
                /\ MissedAfter(0, late', misread', Now, 2 * frame.touch)
                /\ \A p \in Nat :
                     Floor(2 * p, late, Now) /\ MissedAfter(0, late, misread, Now, 2 * p)
                       => Moment(frame) > 2 * p
<1> PICK queue \in Queues :
         /\ Ask(queue)
         /\ queue # <<>>
         /\ frame = Head(queue)
         /\ late' = Tail(queue)
  BY DEF Capture
<1>1. queue \in Seq(Frames) /\ Carries(queue, misread', Now)
  BY AskCarries
<1>2. frame \in Frames
  BY CaptureTyped
<1>3. /\ Stream(late', misread', Now)
      /\ Floor(Moment(frame), late', Now)
      /\ frame.look = "usable" => frame.finger
      /\ frame.look = "empty" => MissedAfter(0, late', misread', Now, 2 * frame.touch)
      /\ \A p : Floor(p, queue, Now) => Floor(p, late', Now) /\ Moment(frame) >= p
  BY <1>1, TailStream DEF Carries
<1>4. ASSUME frame.look = "empty", NEW p \in Nat, Floor(2 * p, late, Now),
             MissedAfter(0, late, misread, Now, 2 * p)
      PROVE  Moment(frame) > 2 * p
  <2>1. MissedAfter(0, queue, misread', Now, 2 * p)
    BY <1>1, <1>4 DEF Carries
  <2> QED
    BY <1>1, <1>4, <2>1, HeadMissed
<1>5. \A p \in Nat : Floor(p, late, Now) => Floor(p, late', Now) /\ Moment(frame) >= p
  BY <1>1, <1>3 DEF Carries
<1> QED
  BY <1>2, <1>3, <1>4, <1>5

(***************************************************************************)
(* A finger that comes or goes, and requests that bring nothing.           *)
(***************************************************************************)
LEMMA LaterStream ==
    ASSUME NEW q \in Seq(Frames), NEW m, NEW n, NEW now \in Nat, NEW later \in Nat,
           later > now, Stream(q, m, now)
    PROVE  /\ Stream(q, n, later)
           /\ \A p \in Nat : Floor(p, q, now) => Floor(p, q, later)
           /\ \A p \in Nat : Floor(2 * p, q, now) /\ MissedAfter(0, q, m, now, 2 * p)
                => MissedAfter(0, q, n, later, 2 * p)
<1>1. DOMAIN q = 1..Len(q) /\ \A i \in DOMAIN q : q[i] \in Frames
  BY LenProperties, ElementOfSeq
<1>2. \A i \in DOMAIN q : Moment(q[i]) \in Nat /\ 2 * q[i].touch <= Moment(q[i])
                           /\ q[i].touch \in Nat
  BY <1>1, MomentRange
<1>3. \A i \in DOMAIN q : Moment(q[i]) <= later /\ 2 * q[i].touch < later
  BY <1>2 DEF Stream
<1>4. Stream(q, n, later)
  BY <1>3 DEF Stream, MissedAfter
<1>5. \A p \in Nat : Floor(p, q, now) => Floor(p, q, later) /\ p < later
  BY DEF Floor
<1>6. \A p \in Nat : 2 * p \in Nat
  OBVIOUS
<1>7. \A p \in Nat : Floor(2 * p, q, now) /\ MissedAfter(0, q, m, now, 2 * p)
                => MissedAfter(0, q, n, later, 2 * p)
  BY <1>5, <1>6 DEF MissedAfter
<1> QED
  BY <1>4, <1>5, <1>7

LEMMA SensorCarries ==
    ASSUME FrameType, Stream(late, misread, Now), PlaceFinger \/ LiftFinger
    PROVE  /\ Carries(late, misread', Now')
           /\ late' = late
<1>1. Now \in Nat /\ Now' \in Nat /\ Now' > Now
  BY Bounds DEF FrameType, Now, TouchBounds, PlaceFinger, LiftFinger
<1>2. late' = late /\ late \in Seq(Frames)
  BY DEF PlaceFinger, LiftFinger, frameVars, FrameType
<1> QED
  BY <1>1, <1>2, LaterStream DEF Carries

LEMMA StillCarries ==
    ASSUME Stream(late, misread, Now), UNCHANGED <<sensorVars, frameVars>>
    PROVE  Carries(late', misread', Now')
BY DEF Carries, Now, sensorVars, frameVars

LEMMA StopCarries ==
    ASSUME FrameType, Stream(late, misread, Now), StopsWhenCancelled
    PROVE  Carries(late', misread', Now') /\ Now' = Now
<1>1. Now' = Now
  BY DEF StopsWhenCancelled, sensorVars, Now
<1>2. CASE UNCHANGED <<misread, late>>
  BY <1>1, <1>2 DEF Carries
<1>3. CASE \E queue \in Queues : Ask(queue) /\ late' = queue
  BY <1>1, <1>3, AskCarries
<1> QED
  BY <1>1, <1>2, <1>3 DEF StopsWhenCancelled

LEMMA RetryCarries ==
    ASSUME FrameType, Stream(late, misread, Now), RequestAgain
    PROVE  Carries(late', misread', Now') /\ Now' = Now
<1>1. Now' = Now
  BY DEF RequestAgain, sensorVars, Now
<1> QED
  BY <1>1, FailureCarries DEF RequestAgain

(***************************************************************************)
(* In every step the frames stay a stream and no floor gives way.          *)
(***************************************************************************)
Flows ==
    /\ Stream(late', misread', Now')
    /\ \A p \in Nat : Floor(p, late, Now) => Floor(p, late', Now')

LEMMA CaptureFlows ==
    ASSUME FrameType, Stream(late, misread, Now), NEW frame, Capture(frame)
    PROVE  Flows /\ Now' = Now
<1>1. Now' = Now
  BY CaptureTyped DEF Asked, Now
<1> QED
  BY <1>1, CaptureCarries DEF Flows

LEMMA NoFrameFlows ==
    ASSUME FrameType, Stream(late, misread, Now), CaptureFails
    PROVE  Flows /\ Now' = Now
<1>1. Now' = Now
  BY FailureTyped DEF Asked, Now
<1> QED
  BY <1>1, NoFrameCarries DEF Flows, Carries

LEMMA FlowStep ==
    ASSUME TypeInv, Stream(late, misread, Now), [Next]_vars
    PROVE  Flows
<1> USE DEF TypeInv
<1>1. CASE PlaceFinger \/ LiftFinger
  BY <1>1, SensorCarries DEF Flows, Carries
<1>2. CASE UNCHANGED <<sensorVars, frameVars>>
  BY <1>2, StillCarries DEF Flows, Carries
<1>3. CASE Cancel
  BY <1>2, <1>3 DEF Cancel
<1>4. ASSUME NEW o \in Operations, Begin(o)
      PROVE  Flows
  BY <1>2, <1>4 DEF Begin
<1>5. CASE StopsWhenCancelled
  BY <1>5, StopCarries DEF Flows, Carries
<1>6. CASE RequestAgain
  BY <1>6, RetryCarries DEF Flows, Carries
<1>7. CASE CaptureBase
  BY <1>7, CaptureFlows DEF CaptureBase
<1>8. CASE NoBase
  BY <1>8, NoFrameFlows DEF NoBase
<1>9. CASE NoFinger
  BY <1>9, CaptureFlows, NoFrameFlows DEF NoFinger
<1>10. CASE WeakScan
  BY <1>10, CaptureFlows DEF WeakScan
<1>11. CASE SubmitScan
  BY <1>11, CaptureFlows DEF SubmitScan, UsableScan
<1>12. CASE MatchScan
  BY <1>12, CaptureFlows DEF MatchScan, UsableScan
<1>13. CASE FingerAbsent
  BY <1>13, CaptureFlows DEF FingerAbsent
<1>14. CASE FingerPresent
  BY <1>14, CaptureFlows, NoFrameFlows DEF FingerPresent
<1>15. CASE Finish
  BY <1>2, <1>15 DEF Finish
<1>16. CASE Finished \/ UNCHANGED vars
  BY <1>2, <1>16 DEF Finished, vars
<1> QED
  BY <1>1, <1>3, <1>4, <1>5, <1>6, <1>7, <1>8, <1>9, <1>10, <1>11,
     <1>12, <1>13, <1>14, <1>15, <1>16
     DEF Next, Worker

(***************************************************************************)
(* The base: its touch is over for every frame after it.                   *)
(***************************************************************************)
LEMMA BaseFloorKept ==
    ASSUME TypeInv, BaseFloor, Flows, UNCHANGED <<oldTouch, base, baseTouch>>
    PROVE  BaseFloor'
<1>1. 2 * oldTouch \in Nat /\ 2 * baseTouch + 1 \in Nat
  BY Bounds DEF TypeInv, FrameType, ResultType, TouchBounds
<1> QED
  BY <1>1 DEF BaseFloor, Flows

LEMMA BaseFloorBegins ==
    ASSUME TypeInv, Stream(late, misread, Now), NEW o, Begin(o)
    PROVE  BaseFloor'
<1>1. Now' = Now /\ late' = late /\ base' = "none"
  BY DEF Begin, sensorVars, frameVars, Now
<1>2. Floor(2 * oldTouch', late, Now)
  <2>1. CASE late = <<>>
    BY <2>1, Bounds DEF Begin, Floor, Now, TypeInv, FrameType, TouchBounds
  <2>2. CASE late # <<>>
    <3>1. /\ late \in Seq(Frames) /\ Head(late) = late[1] /\ 1 \in DOMAIN late
          /\ DOMAIN late = 1..Len(late)
      BY <2>2, LenProperties DEF TypeInv, FrameType
    <3>2. late[1] \in Frames /\ \A i \in DOMAIN late : late[i] \in Frames
      BY <3>1, ElementOfSeq
    <3>3. 2 * late[1].touch <= Moment(late[1]) /\ 2 * late[1].touch \in Nat
      BY <3>2, MomentRange
    <3>4. Moment(late[1]) \in Nat /\ Moment(late[1]) <= Now /\ Now \in Nat
      BY <3>1, <3>2, MomentRange, NowRange DEF Stream, TypeInv
    <3>5. ASSUME NEW i \in DOMAIN late
          PROVE  Moment(late[i]) >= 2 * late[1].touch
      <4>1. Moment(late[i]) \in Nat
        BY <3>2, MomentRange
      <4>2. i = 1 \/ Moment(late[1]) <= Moment(late[i])
        BY <3>1 DEF Stream
      <4> QED
        BY <3>3, <3>4, <4>1, <4>2
    <3>6. oldTouch' = late[1].touch
      BY <2>2, <3>1 DEF Begin
    <3> QED
      BY <3>3, <3>4, <3>5, <3>6 DEF Floor
  <2> QED
    BY <2>1, <2>2
<1> QED
  BY <1>1, <1>2 DEF BaseFloor

LEMMA BaseFloorTaken ==
    ASSUME TypeInv, Stream(late, misread, Now), BaseFloor, CaptureBase
    PROVE  BaseFloor'
<1> PICK frame \in Answers({"empty", "weak", "usable"}) :
         /\ Capture(frame)
         /\ base' \in {"none", IF frame.finger THEN "covered" ELSE "empty"}
         /\ baseTouch' = frame.touch
  BY DEF CaptureBase
<1> USE DEF TypeInv
<1>1. Now' = Now /\ oldTouch' = oldTouch
  BY CaptureFlows, CaptureTyped DEF Asked
<1>2. oldTouch \in Nat /\ 2 * oldTouch \in Nat
  BY Bounds DEF FrameType, TouchBounds
<1>3. Floor(2 * oldTouch, late', Now) /\ Moment(frame) >= 2 * oldTouch
  BY <1>2, CaptureCarries DEF BaseFloor
<1>4. ASSUME base' = "empty"
      PROVE  Floor(2 * baseTouch' + 1, late', Now) /\ baseTouch' >= oldTouch
  <2>1. Moment(frame) = 2 * frame.touch + 1 /\ frame.touch \in Nat
    BY <1>4, CaptureCarries, MomentRange
  <2>2. Floor(Moment(frame), late', Now)
    BY CaptureCarries
  <2>3. frame.touch >= oldTouch
    BY <1>2, <1>3, <2>1
  <2> QED
    BY <2>1, <2>2, <2>3
<1> QED
  BY <1>1, <1>3, <1>4 DEF BaseFloor

LEMMA BaseFloorStep ==
    ASSUME TypeInv, Stream(late, misread, Now), BaseFloor, [Next]_vars
    PROVE  BaseFloor'
<1>1. CASE UNCHANGED <<oldTouch, base, baseTouch>>
  BY <1>1, FlowStep, BaseFloorKept
<1>2. CASE PlaceFinger
  BY <1>1, <1>2 DEF PlaceFinger, pipelineVars, historyVars
<1>3. CASE LiftFinger
  BY <1>1, <1>3 DEF LiftFinger, pipelineVars, historyVars
<1>4. CASE Cancel
  BY <1>1, <1>4 DEF Cancel, pipelineVars, historyVars
<1>5. ASSUME NEW o \in Operations, Begin(o)
      PROVE  BaseFloor'
  BY <1>5, BaseFloorBegins
<1>6. CASE StopsWhenCancelled \/ RequestAgain
  BY <1>1, <1>6 DEF StopsWhenCancelled, RequestAgain, pipelineVars, historyVars
<1>7. CASE CaptureBase
  BY <1>7, BaseFloorTaken
<1>8. CASE NoBase
  BY <1>1, <1>8, FailureTyped DEF NoBase, Asked, TypeInv
<1>9. CASE NoFinger
  BY <1>1, <1>9, CaptureTyped, FailureTyped DEF NoFinger, Asked, TypeInv
<1>10. CASE WeakScan
  BY <1>1, <1>10, CaptureTyped DEF WeakScan, Asked, TypeInv
<1>11. CASE SubmitScan
  BY <1>1, <1>11, CaptureTyped DEF SubmitScan, UsableScan, Asked, TypeInv
<1>12. CASE MatchScan
  BY <1>1, <1>12, CaptureTyped DEF MatchScan, UsableScan, Asked, TypeInv
<1>13. CASE FingerAbsent
  BY <1>1, <1>13, CaptureTyped DEF FingerAbsent, Asked, TypeInv
<1>14. CASE FingerPresent
  BY <1>1, <1>14, CaptureTyped, FailureTyped DEF FingerPresent, Asked, TypeInv
<1>15. CASE Finish
  BY <1>1, <1>15 DEF Finish, pipelineVars, historyVars
<1>16. CASE Finished \/ UNCHANGED vars
  BY <1>1, <1>16 DEF Finished, vars, pipelineVars, historyVars
<1> QED
  BY <1>2, <1>3, <1>4, <1>5, <1>6, <1>7, <1>8, <1>9, <1>10, <1>11,
     <1>12, <1>13, <1>14, <1>15, <1>16
     DEF Next, Worker

(***************************************************************************)
(* A usable frame shows a finger, and so a touch after the base.           *)
(***************************************************************************)
LEMMA ScanAfterBase ==
    ASSUME TypeInv, Stream(late, misread, Now), BaseFloor, base = "empty",
           NEW frame \in Answers({"usable"}), Capture(frame)
    PROVE  frame.touch > baseTouch
<1>1. 2 * baseTouch + 1 \in Nat /\ baseTouch \in Nat
  BY Bounds DEF TypeInv, ResultType, TouchBounds
<1>2. Moment(frame) >= 2 * baseTouch + 1
  BY <1>1, CaptureCarries DEF BaseFloor, TypeInv
<1>3. frame.look = "usable"
  BY DEF Answers
<1>4. frame.touch \in Nat /\ Moment(frame) = 2 * frame.touch
  BY <1>3, CaptureCarries, MomentRange DEF TypeInv
<1> QED
  BY <1>1, <1>2, <1>4

LEMMA BaseUseStep ==
    ASSUME TypeInv, Stream(late, misread, Now), BaseFloor, BaseUse, [Next]_vars
    PROVE  BaseUse'
<1> USE DEF BaseUse
<1>1. CASE PlaceFinger
  BY <1>1 DEF PlaceFinger, pipelineVars, loopVars, historyVars
<1>2. CASE LiftFinger
  BY <1>2 DEF LiftFinger, pipelineVars, loopVars, historyVars
<1>3. CASE Cancel
  BY <1>3 DEF Cancel, pipelineVars, loopVars, historyVars
<1>4. ASSUME NEW o \in Operations, Begin(o)
      PROVE  BaseUse'
  BY <1>4 DEF Begin
<1>5. CASE StopsWhenCancelled
  BY <1>5 DEF StopsWhenCancelled, End, pipelineVars, historyVars
<1>6. CASE RequestAgain
  BY <1>6 DEF RequestAgain, pipelineVars, loopVars, historyVars
<1>7. CASE CaptureBase
  BY <1>7 DEF CaptureBase, Bright, EnterLoop, PollAgain, End
<1>8. CASE NoBase
  BY <1>8 DEF NoBase, PollAgain, End
<1>9. CASE NoFinger
  BY <1>9 DEF NoFinger, Unusable, EnterLoop, PollAgain
<1>10. CASE WeakScan
  BY <1>10 DEF WeakScan, Unusable, EnterLoop
<1>11. CASE SubmitScan
  <2>1. PICK frame \in Answers({"usable"}) : UsableScan(frame)
    BY <1>11 DEF SubmitScan
  <2>2. scanTouch' > baseTouch /\ base = "empty"
    BY <2>1, ScanAfterBase DEF UsableScan
  <2> QED
    BY <1>11, <2>1, <2>2 DEF SubmitScan, UsableScan, EnterLoop, End
<1>12. CASE MatchScan
  <2>1. PICK frame \in Answers({"usable"}) : UsableScan(frame)
    BY <1>12 DEF MatchScan
  <2>2. scanTouch' > baseTouch /\ base = "empty"
    BY <2>1, ScanAfterBase DEF UsableScan
  <2> QED
    BY <1>12, <2>1, <2>2 DEF MatchScan, UsableScan, Verdict, End
<1>13. CASE FingerAbsent
  BY <1>13 DEF FingerAbsent, NextAttempt, EnterLoop, PollAgain, End
<1>14. CASE FingerPresent
  BY <1>14 DEF FingerPresent, PollAgain, End
<1>15. CASE Finish
  BY <1>15 DEF Finish, End, pipelineVars, historyVars
<1>16. CASE Finished \/ UNCHANGED vars
  BY <1>16 DEF Finished, vars, pipelineVars, loopVars, historyVars
<1> QED
  BY <1>1, <1>2, <1>3, <1>4, <1>5, <1>6, <1>7, <1>8, <1>9, <1>10, <1>11,
     <1>12, <1>13, <1>14, <1>15, <1>16
     DEF Next, Worker

(***************************************************************************)
(* The samples: what a loop has learnt of the lift stays true, and is not  *)
(* assumed before it is learnt.                                            *)
(***************************************************************************)
Learns ==
    \A k \in DOMAIN samples :
        /\ pc' = "touch" => Floor(2 * samples[k] + 1, late', Now')
        /\ pc' = "lift" /\ absents' = 1
             => MissedAfter(0, late', misread', Now', 2 * samples[k])

LEMMA SampleRange ==
    TypeInv => \A k \in DOMAIN samples :
                   /\ samples[k] \in Nat
                   /\ 2 * samples[k] \in Nat
                   /\ 2 * samples[k] + 1 \in Nat
<1> SUFFICES ASSUME TypeInv, NEW k \in DOMAIN samples
             PROVE  samples[k] \in Nat
  OBVIOUS
<1>1. samples \in Seq(0..MaxTouches) /\ k \in 1..Len(samples)
  BY LenProperties DEF TypeInv, ResultType
<1>2. samples[k] \in 0..MaxTouches
  BY <1>1, ElementOfSeq
<1> QED
  BY <1>2, Bounds DEF TouchBounds

LEMMA SamplesKept ==
    ASSUME TypeInv, SampleOrder, Flows, Learns, samples' = samples
    PROVE  SampleOrder'
BY SampleRange DEF SampleOrder, Flows, Learns

(***************************************************************************)
(* The loop goes on without a frame of its own.                            *)
(***************************************************************************)
LEMMA WaitLearns ==
    ASSUME TypeInv, SampleOrder, Carries(late', misread', Now'),
           pc' = pc, absents' = absents
    PROVE  Learns
BY SampleRange DEF SampleOrder, Carries, Learns

LEMMA MissedBefore ==
    ASSUME NEW q \in Seq(Frames), NEW m, NEW now \in Nat, NEW r \in Nat,
           NEW p \in Nat, r >= p, NEW i, MissedAfter(i, q, m, now, r)
    PROVE  MissedAfter(i, q, m, now, p)
<1>1. ASSUME NEW j \in DOMAIN q, Moment(q[j]) > r
      PROVE  Moment(q[j]) > p
  <2>1. Moment(q[j]) \in Nat
    BY MomentRange, LenProperties, ElementOfSeq
  <2> QED
    BY <1>1, <2>1
<1>2. now > r => now > p
  OBVIOUS
<1> QED
  BY <1>1, <1>2 DEF MissedAfter

(***************************************************************************)
(* One absent frame: another one rules the touch of the sample out.        *)
(***************************************************************************)
LEMMA FirstAbsent ==
    ASSUME TypeInv, Stream(late, misread, Now), SampleOrder,
           NEW frame, Capture(frame), frame.look = "empty"
    PROVE  \A k \in DOMAIN samples :
               MissedAfter(0, late', misread', Now', 2 * samples[k])
<1> SUFFICES ASSUME NEW k \in DOMAIN samples
             PROVE  MissedAfter(0, late', misread', Now', 2 * samples[k])
  OBVIOUS
<1> USE DEF TypeInv
<1>1. samples[k] \in Nat /\ 2 * samples[k] \in Nat
  BY SampleRange
<1>2. Now' = Now /\ Now \in Nat /\ late' \in Seq(Frames)
  BY CaptureFlows, CaptureTyped, NowRange DEF Asked
<1>3. Moment(frame) >= 2 * samples[k] /\ frame \in Frames
  BY <1>1, CaptureCarries DEF SampleOrder
<1>4. 2 * frame.touch \in Nat /\ 2 * frame.touch >= 2 * samples[k]
  BY <1>1, <1>3, MomentRange
<1>5. MissedAfter(0, late', misread', Now, 2 * frame.touch)
  BY CaptureCarries
<1> QED
  BY <1>1, <1>2, <1>4, <1>5, MissedBefore

(***************************************************************************)
(* Two in a row: the finger is gone.                                       *)
(***************************************************************************)
LEMMA SecondAbsent ==
    ASSUME TypeInv, Stream(late, misread, Now), SampleOrder,
           pc = "lift", absents = 1,
           NEW frame, Capture(frame), frame.look = "empty"
    PROVE  \A k \in DOMAIN samples : Floor(2 * samples[k] + 1, late', Now')
<1> SUFFICES ASSUME NEW k \in DOMAIN samples
             PROVE  Floor(2 * samples[k] + 1, late', Now')
  OBVIOUS
<1> USE DEF TypeInv
<1>1. samples[k] \in Nat /\ 2 * samples[k] \in Nat
  BY SampleRange
<1>2. Now' = Now /\ Now \in Nat /\ late' \in Seq(Frames)
  BY CaptureFlows, CaptureTyped, NowRange DEF Asked
<1>3. Moment(frame) > 2 * samples[k] /\ frame \in Frames
  BY <1>1, CaptureCarries DEF SampleOrder
<1>4. Floor(Moment(frame), late', Now) /\ Moment(frame) \in Nat
  BY <1>3, CaptureCarries, MomentRange
<1>5. \A j \in DOMAIN late' : Moment(late'[j]) \in Nat
  BY <1>2, MomentRange, LenProperties, ElementOfSeq
<1> QED
  BY <1>1, <1>2, <1>3, <1>4, <1>5 DEF Floor

(***************************************************************************)
(* A sample that is taken is of a later touch than those before it.        *)
(***************************************************************************)
LEMMA SampleTaken ==
    ASSUME TypeInv, Stream(late, misread, Now), SampleOrder, pc = "touch",
           NEW frame \in Answers({"usable"}), Capture(frame),
           samples' = Append(samples, frame.touch),
           pc' # "touch", pc' = "lift" => absents' = 0
    PROVE  SampleOrder'
<1> USE DEF TypeInv
<1>1. /\ frame.touch \in Nat /\ frame.touch \in 0..MaxTouches
      /\ Moment(frame) = 2 * frame.touch
  <2>1. frame.look = "usable"
    BY DEF Answers
  <2> QED
    BY <2>1, CaptureCarries, MomentRange DEF Frames
<1>2. Flows /\ Now' = Now /\ Floor(2 * frame.touch, late', Now')
  BY <1>1, CaptureFlows, CaptureCarries
<1>3. \A k \in DOMAIN samples : samples[k] < frame.touch
  <2> SUFFICES ASSUME NEW k \in DOMAIN samples
               PROVE  samples[k] < frame.touch
    OBVIOUS
  <2>1. Floor(2 * samples[k] + 1, late, Now)
    BY DEF SampleOrder
  <2>2. Moment(frame) >= 2 * samples[k] + 1 /\ samples[k] \in Nat
    BY <2>1, SampleRange, CaptureCarries
  <2> QED
    BY <1>1, <2>2
<1>4. /\ DOMAIN samples = 1..Len(samples) /\ Len(samples) \in Nat
      /\ DOMAIN samples' = 1..(Len(samples) + 1)
      /\ samples'[Len(samples) + 1] = frame.touch
      /\ \A k \in 1..Len(samples) : samples'[k] = samples[k]
  BY <1>1, AppendProperties, LenProperties DEF ResultType
<1>5. ASSUME NEW i \in DOMAIN samples', NEW j \in DOMAIN samples', i < j
      PROVE  samples'[i] < samples'[j]
  <2>1. i \in DOMAIN samples
    BY <1>4, <1>5
  <2>2. CASE j \in DOMAIN samples
    BY <1>4, <1>5, <2>1, <2>2 DEF SampleOrder
  <2>3. CASE j = Len(samples) + 1
    BY <1>3, <1>4, <2>1, <2>3
  <2> QED
    BY <1>4, <2>2, <2>3
<1>6. ASSUME NEW k \in DOMAIN samples'
      PROVE  Floor(2 * samples'[k], late', Now')
  <2>1. CASE k \in DOMAIN samples
    BY <1>2, <1>4, <2>1, SampleRange DEF SampleOrder, Flows
  <2>2. CASE k = Len(samples) + 1
    BY <1>2, <1>4, <2>2
  <2> QED
    BY <1>4, <2>1, <2>2
<1> QED
  BY <1>5, <1>6 DEF SampleOrder

LEMMA SampleOrderStep ==
    ASSUME TypeInv, Stream(late, misread, Now), BaseUse, SampleOrder, [Next]_vars
    PROVE  SampleOrder'
<1>1. Flows
  BY FlowStep
<1>2. ASSUME samples' = <<>>
      PROVE  SampleOrder'
  BY <1>2, EmptySeq DEF SampleOrder
<1>3. ASSUME samples' = samples, pc' # "touch", pc' = "lift" => absents' = 0
      PROVE  SampleOrder'
  <2>1. Learns
    BY <1>3 DEF Learns
  <2> QED
    BY <1>1, <1>3, <2>1, SamplesKept
<1>4. ASSUME Carries(late', misread', Now'), UNCHANGED <<pc, absents, samples>>
      PROVE  SampleOrder'
  BY <1>1, <1>4, WaitLearns, SamplesKept
<1>5. CASE PlaceFinger \/ LiftFinger
  BY <1>4, <1>5, SensorCarries
     DEF PlaceFinger, LiftFinger, loopVars, historyVars, TypeInv
<1>6. CASE Cancel
  BY <1>4, <1>6, StillCarries DEF Cancel, loopVars, historyVars
<1>7. ASSUME NEW o \in Operations, Begin(o)
      PROVE  SampleOrder'
  BY <1>2, <1>7 DEF Begin
<1>8. CASE StopsWhenCancelled
  BY <1>3, <1>8 DEF StopsWhenCancelled, End, historyVars
<1>9. CASE RequestAgain
  BY <1>4, <1>9, RetryCarries DEF RequestAgain, loopVars, historyVars, TypeInv
<1>10. CASE CaptureBase
  BY <1>2, <1>10 DEF CaptureBase, BaseUse
<1>11. CASE NoBase
  BY <1>2, <1>11 DEF NoBase, BaseUse
<1>12. CASE NoFinger
  <2>1. CASE Unusable
    BY <1>3, <2>1 DEF Unusable, EnterLoop
  <2>2. CASE pc' = "touch" /\ samples' = samples
    <3>1. pc = "touch"
      BY <1>12 DEF NoFinger
    <3>2. Learns
      BY <1>1, <2>2, <3>1, SampleRange DEF SampleOrder, Flows, Learns
    <3> QED
      BY <1>1, <2>2, <3>2, SamplesKept
  <2> QED
    BY <1>12, <2>1, <2>2 DEF NoFinger, PollAgain
<1>13. CASE WeakScan
  BY <1>3, <1>13 DEF WeakScan, Unusable, EnterLoop
<1>14. CASE SubmitScan
  <2>1. PICK frame \in Answers({"usable"}) :
             /\ UsableScan(frame)
             /\ samples' \in {samples, Append(samples, frame.touch)}
    BY <1>14 DEF SubmitScan
  <2>2. pc' # "touch" /\ (pc' = "lift" => absents' = 0)
    BY <1>14 DEF SubmitScan, EnterLoop, End
  <2>3. CASE samples' = Append(samples, frame.touch)
    BY <2>1, <2>2, <2>3, SampleTaken DEF UsableScan
  <2> QED
    BY <1>3, <2>1, <2>2, <2>3
<1>15. CASE MatchScan
  BY <1>3, <1>15 DEF MatchScan, UsableScan, Verdict, End
<1>16. CASE FingerAbsent
  <2>1. PICK frame \in Answers({"empty"}) : Capture(frame)
    BY <1>16 DEF FingerAbsent
  <2>2. frame.look = "empty" /\ pc = "lift" /\ samples' = samples
    BY <1>16 DEF FingerAbsent, Answers
  <2>3. CASE Lifted
    <3>1. absents = 1 /\ pc' # "lift"
      BY <1>16, <2>3 DEF FingerAbsent, Lifted, NextAttempt, EnterLoop, TypeInv, LoopType
    <3>2. Learns
      BY <2>1, <2>2, <3>1, SecondAbsent DEF Learns
    <3> QED
      BY <1>1, <2>2, <3>2, SamplesKept
  <2>4. CASE ~Lifted
    <3>1. pc' # "touch"
      BY <1>16, <2>2, <2>4 DEF FingerAbsent, PollAgain, End
    <3>2. Learns
      BY <2>1, <2>2, <3>1, FirstAbsent DEF Learns
    <3> QED
      BY <1>1, <2>2, <3>2, SamplesKept
  <2> QED
    BY <2>3, <2>4
<1>17. CASE FingerPresent
  BY <1>3, <1>17 DEF FingerPresent, PollAgain, End
<1>18. CASE Finish
  BY <1>3, <1>18 DEF Finish, End, historyVars
<1>19. CASE Finished \/ UNCHANGED vars
  BY <1>4, <1>19, StillCarries DEF Finished, vars, loopVars, historyVars
<1> QED
  BY <1>5, <1>6, <1>7, <1>8, <1>9, <1>10, <1>11, <1>12, <1>13, <1>14,
     <1>15, <1>16, <1>17, <1>18, <1>19
     DEF Next, Worker

LEMMA OrderInit == Init => OrderInv
<1> SUFFICES ASSUME Init PROVE OrderInv
  OBVIOUS
<1> USE EmptySeq DEF Init
<1>1. late = <<>> /\ samples = <<>> /\ Now >= 0
  BY DEF Now
<1>2. Stream(late, misread, Now)
  BY <1>1 DEF Stream
<1>3. BaseFloor /\ BaseUse /\ SampleOrder
  BY <1>1 DEF BaseFloor, BaseUse, SampleOrder, Floor
<1> QED
  BY <1>2, <1>3 DEF OrderInv

LEMMA OrderCorrect == Spec => []OrderInv
<1>1. TouchInv /\ OrderInv /\ [Next]_vars => OrderInv'
  BY FlowStep, BaseFloorStep, BaseUseStep, SampleOrderStep
     DEF TouchInv, OrderInv, Flows
<1> QED
  BY <1>1, OrderInit, InvCorrect, PTL DEF Spec

(***************************************************************************)
(* Every sample of a template comes from a touch of its own, however many  *)
(* frames of abandoned requests are read instead of fresh ones.            *)
(***************************************************************************)
THEOREM SamplesComeFromSeparateTouches == Spec => []SamplesAreSeparateTouches
<1>1. TouchInv /\ OrderInv => SamplesAreSeparateTouches
  <2> SUFFICES ASSUME TouchInv, OrderInv, NEW i \in DOMAIN samples,
                      NEW j \in DOMAIN samples, samples[i] = samples[j]
               PROVE  i = j
    BY DEF SamplesAreSeparateTouches
  <2>1. i \in Nat /\ j \in Nat
    BY LenProperties DEF TouchInv, TypeInv, ResultType
  <2>2. samples[i] \in Nat /\ samples[j] \in Nat
    BY SampleRange DEF TouchInv
  <2>3. ~(i < j) /\ ~(j < i)
    BY <2>2 DEF OrderInv, SampleOrder
  <2> QED
    BY <2>1, <2>3
<1> QED
  BY <1>1, InvCorrect, OrderCorrect, PTL

(***************************************************************************)
(* A scan is processed against an empty base, and shows a touch that began *)
(* after that base was taken.                                              *)
(***************************************************************************)
THEOREM ScansComeAfterTheirBase == Spec => []ScansFollowBase
<1>1. OrderInv => ScansFollowBase
  BY DEF OrderInv, BaseFloor, BaseUse, ScansFollowBase
<1> QED
  BY <1>1, OrderCorrect, PTL

=============================================================================
