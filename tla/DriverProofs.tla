---------------------------- MODULE DriverProofs ----------------------------
(***************************************************************************)
(* Theorems about Driver.tla and StoredPrint.tla, for any number of        *)
(* actions and of captures in an operation, any keys, states of the PSK    *)
(* file and damages of a print.                                            *)
(*                                                                         *)
(* The worker follows a pointer without the mutex, so what makes it safe   *)
(* is not a lock but an order: who may destroy a pipeline at each place of *)
(* the worker.  The invariants say where the only pipeline is at each of   *)
(* these places, what the action in progress is, and which cancel requests *)
(* can be under way.                                                       *)
(***************************************************************************)
EXTENDS StoredPrint, TLAPS

Capturing == {"clear", "check", "capture", "progress"}

(***************************************************************************)
(* The types, in three parts that different facts keep: what is finite,    *)
(* the pipelines, and the counters.  With the types: an open is numbered,  *)
(* and a capture is left to make.                                          *)
(***************************************************************************)
ControlType ==
    /\ action \in {"none", "open", "close"} \cup Operations
    /\ isOpen \in BOOLEAN
    /\ finalized \in BOOLEAN
    /\ actionCancelled \in BOOLEAN
    /\ cancelQueued \in BOOLEAN
    /\ taskResult \in {"none"} \cup Results
    /\ worker \in {"idle", "create", "take", "get"} \cup UsingPipeline
    /\ progress \in {"none", "queued", "done"}
    /\ orphaned \in BOOLEAN
    /\ outcome \in Outcomes

PipelineType ==
    /\ mine \in {0} \cup Pipelines
    /\ pipeline \in {0} \cup Pipelines
    /\ live \subseteq Pipelines
    /\ cancelFlag \subseteq Pipelines

CounterType ==
    /\ actions \in 0..MaxActions
    /\ captures \in 0..MaxCaptures
    /\ lateCaptures \in 0..MaxCaptures
    /\ worker = "create" => actions > 0
    /\ worker \in {"get"} \cup Capturing => captures < MaxCaptures
    /\ lateCaptures <= captures

TypeInv == ControlType /\ PipelineType /\ CounterType

(***************************************************************************)
(* Which action the worker is busy with, and that it returns once.         *)
(***************************************************************************)
PhaseInv ==
    /\ taskResult # "none" <=> action # "none" /\ worker = "idle"
    /\ action = "none" => worker = "idle"
    /\ finalized => action = "none"
    /\ worker \in {"create", "publish", "openBegin", "opening", "unpublish"}
         => action = "open"
    /\ worker = "take" => action = "close"
    /\ worker = "destroy" => action \in {"open", "close"}
    /\ worker \in {"get"} \cup Capturing => action \in Operations

(***************************************************************************)
(* Where the pipelines are.  Numbers grow with the actions, so a new one   *)
(* is never the published one.                                             *)
(***************************************************************************)
PipeInv ==
    /\ pipeline <= actions /\ mine <= actions
    /\ worker = "create" => pipeline < actions
    /\ worker \in {"idle", "create", "take", "get"} => live = {pipeline} \ {0}
    /\ worker = "publish" =>
         mine # 0 /\ mine # pipeline /\ live = ({pipeline} \ {0}) \cup {mine}
    /\ worker \in {"openBegin", "opening", "unpublish"} \cup Capturing =>
         mine # 0 /\ pipeline = mine /\ live = {mine}
    /\ worker = "destroy" => mine # 0 /\ pipeline = 0 /\ live = {mine}
    /\ finalized => pipeline = 0

(***************************************************************************)
(* Who was asked to cancel.  A flag that is still set once the worker has  *)
(* cleared it was set for this action.                                     *)
(***************************************************************************)
CancelInv ==
    /\ cancelQueued => actionCancelled
    /\ worker \in {"check", "capture", "progress"} /\ mine \in cancelFlag
         => actionCancelled
    /\ taskResult = "cancelled" => actionCancelled
    /\ outcome.result = "cancelled" => outcome.asked

(***************************************************************************)
(* How libfprint's idea of the device and the pointer go together.  They   *)
(* disagree only once a completed open was taken for cancelled.            *)
(***************************************************************************)
OpenInv ==
    /\ action = "open" => ~isOpen
    /\ action \in {"close"} \cup Operations => isOpen
    /\ isOpen /\ ~finalized /\ (action = "close" => worker = "take")
         => pipeline # 0
    /\ action = "close" /\ worker # "take" => pipeline = 0
    /\ action = "open" /\ taskResult = "ok" => pipeline # 0
    /\ taskResult # "notOpen" /\ outcome.result # "notOpen"

Unexpected ==
    /\ ~isOpen
    /\ pipeline # 0
    /\ \/ action = "none"
       \/ worker \in {"create", "publish"}
       \/ taskResult \in Results \ {"ok"}

OrphanInv ==
    /\ Unexpected => orphaned
    /\ taskResult = "busy" => orphaned
    /\ outcome.result = "busy" => orphaned

(***************************************************************************)
(* A capture that began late is followed by no other.                      *)
(***************************************************************************)
LateInv ==
    \/ lateCaptures = 0
    \/ /\ lateCaptures = 1
       /\ \/ worker = "idle"
          \/ actionCancelled /\ worker \in {"check", "progress"}

DriverAssumptions == MaxActions \in Nat /\ MaxCaptures \in Nat \ {0}

-----------------------------------------------------------------------------
LEMMA Bounds == DriverAssumptions
BY DriverAssumption DEF DriverAssumptions

LEMMA TypeInit == Init => TypeInv
<1> SUFFICES ASSUME Init PROVE TypeInv
  OBVIOUS
<1> USE Bounds DEF Init
<1>1. ControlType
  BY DEF ControlType, Outcomes
<1>2. PipelineType
  BY DEF PipelineType
<1>3. CounterType
  BY DEF CounterType, DriverAssumptions, Capturing
<1> QED
  BY <1>1, <1>2, <1>3 DEF TypeInv

LEMMA ControlStep == TypeInv /\ [Next]_vars => ControlType'
<1> SUFFICES ASSUME TypeInv, [Next]_vars PROVE ControlType'
  OBVIOUS
<1> USE DEF TypeInv, ControlType, Results, UsingPipeline
<1>1. ASSUME NEW a \in {"open", "close"} \cup Operations, Begin(a)
      PROVE  ControlType'
  BY <1>1 DEF Begin, pipeVars
<1>2. CASE RejectPrint
  BY <1>2 DEF RejectPrint, Outcomes, Results, mainVars, pipeVars, captureVars
<1>3. CASE Cancel
  BY <1>3 DEF Cancel, pipeVars, captureVars
<1>4. CASE RunCancel
  <2>1. cancelQueued' \in BOOLEAN
    BY <1>4 DEF RunCancel
  <2>2. UNCHANGED <<action, isOpen, finalized, actionCancelled, taskResult,
                    outcome, worker, progress, orphaned>>
    BY <1>4 DEF RunCancel
  <2> QED
    BY <2>1, <2>2
<1>5. CASE ShowProgress
  BY <1>5 DEF ShowProgress, mainVars, pipeVars, captureVars
<1>6. CASE Complete
  <2>1. \A r \in Propagated : r \in Results
    BY <1>6 DEF Complete, Propagated
  <2>2. outcome' \in Outcomes
    BY <1>6, <2>1 DEF Complete, Outcomes
  <2>3. isOpen' \in BOOLEAN /\ orphaned' \in BOOLEAN
    BY <1>6 DEF Complete
  <2> QED
    BY <1>6, <2>2, <2>3 DEF Complete
<1>7. CASE Finalize
  BY <1>7 DEF Finalize, captureVars
<1>8. CASE CreatePipeline
  BY <1>8 DEF CreatePipeline, WorkerReturns, mainVars, captureVars
<1>9. CASE Publish
  BY <1>9 DEF Publish, WorkerReturns, mainVars, captureVars
<1>10. CASE OpenBegin
  BY <1>10 DEF OpenBegin, mainVars, captureVars
<1>11. CASE OpenEnds
  BY <1>11 DEF OpenEnds, WorkerReturns, mainVars, pipeVars, captureVars
<1>12. CASE Unpublish
  BY <1>12 DEF Unpublish, mainVars, captureVars
<1>13. CASE Take
  BY <1>13 DEF Take, mainVars, captureVars
<1>14. CASE Destroy
  BY <1>14 DEF Destroy, WorkerReturns, mainVars, captureVars
<1>15. CASE GetPipeline
  BY <1>15 DEF GetPipeline, WorkerReturns, mainVars, pipeVars, captureVars
<1>16. CASE ClearCancel
  BY <1>16 DEF ClearCancel, mainVars, captureVars
<1>17. CASE CheckCancelled
  BY <1>17 DEF CheckCancelled, WorkerReturns, mainVars, pipeVars, captureVars
<1>18. CASE CaptureCancelled
  BY <1>18 DEF CaptureCancelled, WorkerReturns, mainVars, pipeVars,
         captureVars
<1>19. CASE CaptureEnds
  BY <1>19 DEF CaptureEnds, WorkerReturns, mainVars, pipeVars
<1>20. CASE ProgressShown
  BY <1>20 DEF ProgressShown, mainVars, pipeVars, captureVars
<1>21. CASE Finished \/ UNCHANGED vars
  BY <1>21 DEF Finished, vars, mainVars, pipeVars, captureVars
<1> QED
  BY <1>1, <1>2, <1>3, <1>4, <1>5, <1>6, <1>7, <1>8, <1>9, <1>10, <1>11,
     <1>12, <1>13, <1>14, <1>15, <1>16, <1>17, <1>18, <1>19, <1>20, <1>21
     DEF Next, Worker, Opening, Operating

LEMMA PipelineStep == TypeInv /\ [Next]_vars => PipelineType'
<1> SUFFICES ASSUME TypeInv, [Next]_vars PROVE PipelineType'
  OBVIOUS
<1> USE DEF TypeInv, PipelineType
<1>1. ASSUME NEW a \in {"open", "close"} \cup Operations, Begin(a)
      PROVE  PipelineType'
  BY <1>1 DEF Begin, pipeVars
<1>2. CASE RejectPrint
  BY <1>2 DEF RejectPrint, pipeVars
<1>3. CASE Cancel
  BY <1>3 DEF Cancel, pipeVars
<1>4. CASE RunCancel
  BY <1>4 DEF RunCancel, ToCancel
<1>5. CASE ShowProgress
  BY <1>5 DEF ShowProgress, pipeVars
<1>6. CASE Complete
  BY <1>6 DEF Complete, pipeVars
<1>7. CASE Finalize
  BY <1>7 DEF Finalize, ReleasePipelines, DestroyPipelines
<1>8. CASE CreatePipeline
  <2>1. actions \in Pipelines
    BY <1>8, Bounds
       DEF CreatePipeline, CounterType, Pipelines, DriverAssumptions
  <2> QED
    BY <1>8, <2>1 DEF CreatePipeline, WorkerReturns
<1>9. CASE Publish
  BY <1>9 DEF Publish, ReleasePipelines, DestroyPipelines, WorkerReturns
<1>10. CASE OpenBegin
  BY <1>10 DEF OpenBegin
<1>11. CASE OpenEnds
  BY <1>11 DEF OpenEnds, WorkerReturns, pipeVars
<1>12. CASE Unpublish
  BY <1>12 DEF Unpublish
<1>13. CASE Take
  BY <1>13 DEF Take, Withdraw
<1>14. CASE Destroy
  BY <1>14 DEF Destroy, ReleasePipelines, DestroyPipelines, WorkerReturns
<1>15. CASE GetPipeline
  BY <1>15 DEF GetPipeline, WorkerReturns, pipeVars
<1>16. CASE ClearCancel
  BY <1>16 DEF ClearCancel, ClearCancelFlag
<1>17. CASE CheckCancelled
  BY <1>17 DEF CheckCancelled, WorkerReturns, pipeVars
<1>18. CASE CaptureCancelled
  BY <1>18 DEF CaptureCancelled, WorkerReturns, pipeVars
<1>19. CASE CaptureEnds
  BY <1>19 DEF CaptureEnds, WorkerReturns, pipeVars
<1>20. CASE ProgressShown
  BY <1>20 DEF ProgressShown, pipeVars
<1>21. CASE Finished \/ UNCHANGED vars
  BY <1>21 DEF Finished, vars, mainVars, pipeVars, captureVars
<1> QED
  BY <1>1, <1>2, <1>3, <1>4, <1>5, <1>6, <1>7, <1>8, <1>9, <1>10, <1>11,
     <1>12, <1>13, <1>14, <1>15, <1>16, <1>17, <1>18, <1>19, <1>20, <1>21
     DEF Next, Worker, Opening, Operating

LEMMA CounterStep == TypeInv /\ [Next]_vars => CounterType'
<1> SUFFICES ASSUME TypeInv, [Next]_vars PROVE CounterType'
  OBVIOUS
<1> USE Bounds DEF TypeInv, CounterType, DriverAssumptions, Capturing
<1>1. ASSUME NEW a \in {"open", "close"} \cup Operations, Begin(a)
      PROVE  CounterType'
  BY <1>1 DEF Begin
<1>2. CASE RejectPrint
  BY <1>2 DEF RejectPrint, captureVars
<1>3. CASE Cancel
  BY <1>3 DEF Cancel, captureVars
<1>4. CASE RunCancel
  BY <1>4 DEF RunCancel, captureVars
<1>5. CASE ShowProgress
  BY <1>5 DEF ShowProgress, captureVars
<1>6. CASE Complete
  BY <1>6 DEF Complete, captureVars
<1>7. CASE Finalize
  BY <1>7 DEF Finalize, captureVars
<1>8. CASE CreatePipeline
  BY <1>8 DEF CreatePipeline, WorkerReturns, captureVars
<1>9. CASE Publish
  BY <1>9 DEF Publish, WorkerReturns, captureVars
<1>10. CASE OpenBegin
  BY <1>10 DEF OpenBegin, captureVars
<1>11. CASE OpenEnds
  BY <1>11 DEF OpenEnds, WorkerReturns, captureVars
<1>12. CASE Unpublish
  BY <1>12 DEF Unpublish, captureVars
<1>13. CASE Take
  BY <1>13 DEF Take, captureVars
<1>14. CASE Destroy
  BY <1>14 DEF Destroy, WorkerReturns, captureVars
<1>15. CASE GetPipeline
  BY <1>15 DEF GetPipeline, WorkerReturns, captureVars
<1>16. CASE ClearCancel
  BY <1>16 DEF ClearCancel, captureVars
<1>17. CASE CheckCancelled
  BY <1>17 DEF CheckCancelled, WorkerReturns, captureVars
<1>18. CASE CaptureCancelled
  BY <1>18 DEF CaptureCancelled, WorkerReturns, captureVars
<1>19. CASE CaptureEnds
  BY <1>19 DEF CaptureEnds, Count, WorkerReturns
<1>20. CASE ProgressShown
  BY <1>20 DEF ProgressShown, captureVars
<1>21. CASE Finished \/ UNCHANGED vars
  BY <1>21 DEF Finished, vars, mainVars, pipeVars, captureVars
<1> QED
  BY <1>1, <1>2, <1>3, <1>4, <1>5, <1>6, <1>7, <1>8, <1>9, <1>10, <1>11,
     <1>12, <1>13, <1>14, <1>15, <1>16, <1>17, <1>18, <1>19, <1>20, <1>21
     DEF Next, Worker, Opening, Operating

LEMMA TypeStep == TypeInv /\ [Next]_vars => TypeInv'
BY ControlStep, PipelineStep, CounterStep DEF TypeInv

LEMMA PhaseStep == TypeInv /\ PhaseInv /\ [Next]_vars => PhaseInv'
<1> SUFFICES ASSUME TypeInv, PhaseInv, [Next]_vars
             PROVE  PhaseInv'
  OBVIOUS
<1> USE DEF TypeInv, ControlType, PhaseInv, Operations, Results, Capturing
<1>1. ASSUME NEW a \in {"open", "close"} \cup Operations, Begin(a)
      PROVE  PhaseInv'
  BY <1>1 DEF Begin
<1>2. CASE RejectPrint
  BY <1>2 DEF RejectPrint, mainVars, captureVars
<1>3. CASE Cancel
  BY <1>3 DEF Cancel, captureVars
<1>4. CASE RunCancel
  BY <1>4 DEF RunCancel, captureVars
<1>5. CASE ShowProgress
  BY <1>5 DEF ShowProgress, mainVars, captureVars
<1>6. CASE Complete
  BY <1>6 DEF Complete, captureVars
<1>7. CASE Finalize
  BY <1>7 DEF Finalize, captureVars
<1>8. CASE CreatePipeline
  BY <1>8 DEF CreatePipeline, WorkerReturns, mainVars, captureVars
<1>9. CASE Publish
  BY <1>9 DEF Publish, WorkerReturns, mainVars, captureVars
<1>10. CASE OpenBegin
  BY <1>10 DEF OpenBegin, mainVars, captureVars
<1>11. CASE OpenEnds
  BY <1>11 DEF OpenEnds, WorkerReturns, mainVars, captureVars
<1>12. CASE Unpublish
  BY <1>12 DEF Unpublish, mainVars, captureVars
<1>13. CASE Take
  BY <1>13 DEF Take, mainVars, captureVars
<1>14. CASE Destroy
  BY <1>14 DEF Destroy, WorkerReturns, mainVars, captureVars
<1>15. CASE GetPipeline
  BY <1>15 DEF GetPipeline, WorkerReturns, mainVars, captureVars
<1>16. CASE ClearCancel
  BY <1>16 DEF ClearCancel, mainVars, captureVars
<1>17. CASE CheckCancelled
  BY <1>17 DEF CheckCancelled, MustStop, WorkerReturns, mainVars
<1>18. CASE CaptureCancelled
  BY <1>18 DEF CaptureCancelled, WorkerReturns, mainVars, captureVars
<1>19. CASE CaptureEnds
  BY <1>19 DEF CaptureEnds, WorkerReturns, mainVars
<1>20. CASE ProgressShown
  BY <1>20 DEF ProgressShown, mainVars, captureVars
<1>21. CASE Finished \/ UNCHANGED vars
  BY <1>21 DEF Finished, vars, mainVars, pipeVars, captureVars
<1> QED
  BY <1>1, <1>2, <1>3, <1>4, <1>5, <1>6, <1>7, <1>8, <1>9, <1>10, <1>11,
     <1>12, <1>13, <1>14, <1>15, <1>16, <1>17, <1>18, <1>19, <1>20, <1>21
     DEF Next, Worker, Opening, Operating

LEMMA PipeStep == TypeInv /\ PhaseInv /\ PipeInv /\ [Next]_vars => PipeInv'
<1> SUFFICES ASSUME TypeInv, PhaseInv, PipeInv, [Next]_vars
             PROVE  PipeInv'
  OBVIOUS
<1> USE DEF TypeInv, PipelineType, CounterType, PhaseInv, PipeInv, Operations,
        Pipelines, Capturing
<1>1. ASSUME NEW a \in {"open", "close"} \cup Operations, Begin(a)
      PROVE  PipeInv'
  BY <1>1 DEF Begin, pipeVars
<1>2. CASE RejectPrint
  BY <1>2 DEF RejectPrint, mainVars, pipeVars, captureVars
<1>3. CASE Cancel
  BY <1>3 DEF Cancel, pipeVars, captureVars
<1>4. CASE RunCancel
  BY <1>4 DEF RunCancel, captureVars
<1>5. CASE ShowProgress
  BY <1>5 DEF ShowProgress, mainVars, pipeVars, captureVars
<1>6. CASE Complete
  BY <1>6 DEF Complete, pipeVars, captureVars
<1>7. CASE Finalize
  BY <1>7 DEF Finalize, ReleasePipelines, DestroyPipelines, captureVars
<1>8. CASE CreatePipeline
  BY <1>8 DEF CreatePipeline, WorkerReturns, mainVars, captureVars
<1>9. CASE Publish
  <2>1. CASE pipeline # 0
    <3>1. live' = {pipeline}
      BY <1>9, <2>1 DEF Publish, ReleasePipelines, DestroyPipelines
    <3> QED
      BY <1>9, <2>1, <3>1 DEF Publish, WorkerReturns, mainVars
  <2>2. CASE pipeline = 0
    <3>1. mine # 0 /\ live = {mine}
      BY <1>9, <2>2 DEF Publish
    <3>2. /\ worker' = "openBegin" /\ pipeline' = mine
          /\ UNCHANGED <<live, mine, finalized, actions>>
      BY <1>9, <2>2 DEF Publish, mainVars
    <3>3. finalized => action = "none"
      OBVIOUS
    <3> QED
      BY <1>9, <3>1, <3>2, <3>3 DEF Publish
  <2> QED
    BY <2>1, <2>2
<1>10. CASE OpenBegin
  BY <1>10 DEF OpenBegin, mainVars, captureVars
<1>11. CASE OpenEnds
  BY <1>11 DEF OpenEnds, WorkerReturns, mainVars, pipeVars, captureVars
<1>12. CASE Unpublish
  BY <1>12 DEF Unpublish, mainVars, captureVars
<1>13. CASE Take
  BY <1>13 DEF Take, Withdraw, mainVars
<1>14. CASE Destroy
  BY <1>14 DEF Destroy, ReleasePipelines, DestroyPipelines, WorkerReturns,
         mainVars, captureVars
<1>15. CASE GetPipeline
  BY <1>15 DEF GetPipeline, WorkerReturns, mainVars, pipeVars, captureVars
<1>16. CASE ClearCancel
  BY <1>16 DEF ClearCancel, ClearCancelFlag, mainVars
<1>17. CASE CheckCancelled
  BY <1>17 DEF CheckCancelled, MustStop, WorkerReturns, mainVars, pipeVars
<1>18. CASE CaptureCancelled
  BY <1>18 DEF CaptureCancelled, WorkerReturns, mainVars, pipeVars,
         captureVars
<1>19. CASE CaptureEnds
  BY <1>19 DEF CaptureEnds, Count, WorkerReturns, mainVars, pipeVars
<1>20. CASE ProgressShown
  BY <1>20 DEF ProgressShown, mainVars, pipeVars, captureVars
<1>21. CASE Finished \/ UNCHANGED vars
  BY <1>21 DEF Finished, vars, mainVars, pipeVars, captureVars
<1> QED
  BY <1>1, <1>2, <1>3, <1>4, <1>5, <1>6, <1>7, <1>8, <1>9, <1>10, <1>11,
     <1>12, <1>13, <1>14, <1>15, <1>16, <1>17, <1>18, <1>19, <1>20, <1>21
     DEF Next, Worker, Opening, Operating

LEMMA CancelKept ==
    TypeInv /\ PhaseInv /\ PipeInv /\ CancelInv /\ [Next]_vars => CancelInv'
<1> SUFFICES ASSUME TypeInv, PhaseInv, PipeInv, CancelInv, [Next]_vars
             PROVE  CancelInv'
  OBVIOUS
<1> USE DEF PhaseInv, PipeInv, CancelInv, Capturing
<1>1. ASSUME NEW a \in {"open", "close"} \cup Operations, Begin(a)
      PROVE  CancelInv'
  BY <1>1 DEF Begin, pipeVars
<1>2. CASE RejectPrint
  BY <1>2 DEF RejectPrint, mainVars, pipeVars, captureVars
<1>3. CASE Cancel
  BY <1>3 DEF Cancel, pipeVars, captureVars
<1>4. CASE RunCancel
  BY <1>4 DEF RunCancel, captureVars, ToCancel
<1>5. CASE ShowProgress
  BY <1>5 DEF ShowProgress, mainVars, pipeVars, captureVars
<1>6. CASE Complete
  BY <1>6 DEF Complete, Propagated, pipeVars
<1>7. CASE Finalize
  BY <1>7 DEF Finalize, ReleasePipelines, DestroyPipelines, captureVars
<1>8. CASE CreatePipeline
  BY <1>8 DEF CreatePipeline, WorkerReturns, mainVars, captureVars
<1>9. CASE Publish
  BY <1>9 DEF Publish, ReleasePipelines, DestroyPipelines, WorkerReturns,
         mainVars, captureVars
<1>10. CASE OpenBegin
  BY <1>10 DEF OpenBegin, mainVars, captureVars
<1>11. CASE OpenEnds
  BY <1>11 DEF OpenEnds, WorkerReturns, mainVars, pipeVars, captureVars
<1>12. CASE Unpublish
  BY <1>12 DEF Unpublish, mainVars, captureVars
<1>13. CASE Take
  BY <1>13 DEF Take, mainVars, captureVars, Withdraw
<1>14. CASE Destroy
  BY <1>14 DEF Destroy, ReleasePipelines, DestroyPipelines, WorkerReturns,
         mainVars, captureVars
<1>15. CASE GetPipeline
  BY <1>15 DEF GetPipeline, WorkerReturns, mainVars, pipeVars, captureVars
<1>16. CASE ClearCancel
  BY <1>16 DEF ClearCancel, mainVars, captureVars, ClearCancelFlag
<1>17. CASE CheckCancelled
  BY <1>17 DEF CheckCancelled, WorkerReturns, mainVars, pipeVars, captureVars,
         MustStop
<1>18. CASE CaptureCancelled
  BY <1>18 DEF CaptureCancelled, WorkerReturns, mainVars, pipeVars,
         captureVars
<1>19. CASE CaptureEnds
  BY <1>19 DEF CaptureEnds, WorkerReturns, mainVars, pipeVars
<1>20. CASE ProgressShown
  BY <1>20 DEF ProgressShown, mainVars, pipeVars, captureVars
<1>21. CASE Finished \/ UNCHANGED vars
  BY <1>21 DEF Finished, vars, mainVars, pipeVars, captureVars
<1> QED
  BY <1>1, <1>2, <1>3, <1>4, <1>5, <1>6, <1>7, <1>8, <1>9, <1>10, <1>11,
     <1>12, <1>13, <1>14, <1>15, <1>16, <1>17, <1>18, <1>19, <1>20, <1>21
     DEF Next, Worker, Opening, Operating

LEMMA OpenStep ==
    TypeInv /\ PhaseInv /\ PipeInv /\ OpenInv /\ [Next]_vars => OpenInv'
<1> SUFFICES ASSUME TypeInv, PhaseInv, PipeInv, OpenInv, [Next]_vars
             PROVE  OpenInv'
  OBVIOUS
<1> USE DEF PhaseInv, PipeInv, OpenInv, Operations, Capturing
<1>1. ASSUME NEW a \in {"open", "close"} \cup Operations, Begin(a)
      PROVE  OpenInv'
  BY <1>1 DEF Begin, pipeVars
<1>2. CASE RejectPrint
  BY <1>2 DEF RejectPrint, mainVars, pipeVars, captureVars
<1>3. CASE Cancel
  BY <1>3 DEF Cancel, pipeVars, captureVars
<1>4. CASE RunCancel
  BY <1>4 DEF RunCancel, captureVars, ToCancel
<1>5. CASE ShowProgress
  BY <1>5 DEF ShowProgress, mainVars, pipeVars, captureVars
<1>6. CASE Complete
  <2>1. PICK r \in Propagated :
             /\ outcome' = [result |-> r, asked |-> actionCancelled]
             /\ isOpen' = CASE action = "open"  -> r = "ok"
                            [] action = "close" -> FALSE
                            [] OTHER            -> isOpen
             /\ orphaned' = (orphaned \/
                    (action = "open" /\ taskResult = "ok" /\ r = "cancelled"))
    BY <1>6 DEF Complete
  <2>2. /\ \/ r = "cancelled" \/ r = taskResult
           \/ action = "enroll" /\ taskResult = "ok"
        /\ r = "cancelled" <=> actionCancelled \/ taskResult = "cancelled"
        /\ r \in {"ok", "error", "cancelled", taskResult}
    BY <2>1, <1>6 DEF Complete, Propagated
  <2>3. action' = "none" /\ taskResult' = "none" /\ outcome'.result # "notOpen"
    BY <1>6, <2>1, <2>2 DEF Complete
  <2>4. pipeline' = pipeline /\ worker' = worker /\ finalized' = finalized
    BY <1>6 DEF Complete, pipeVars
  <2>5. isOpen' => pipeline # 0
    BY <1>6, <2>1, <2>2 DEF Complete
  <2> QED
    BY <2>3, <2>4, <2>5
<1>7. CASE Finalize
  BY <1>7 DEF Finalize, ReleasePipelines, DestroyPipelines, captureVars
<1>8. CASE CreatePipeline
  BY <1>8 DEF CreatePipeline, WorkerReturns, mainVars, captureVars
<1>9. CASE Publish
  BY <1>9 DEF Publish, ReleasePipelines, DestroyPipelines, WorkerReturns,
         mainVars, captureVars
<1>10. CASE OpenBegin
  BY <1>10 DEF OpenBegin, mainVars, captureVars
<1>11. CASE OpenEnds
  BY <1>11 DEF OpenEnds, WorkerReturns, mainVars, pipeVars, captureVars
<1>12. CASE Unpublish
  BY <1>12 DEF Unpublish, mainVars, captureVars
<1>13. CASE Take
  BY <1>13 DEF Take, mainVars, captureVars, Withdraw
<1>14. CASE Destroy
  BY <1>14 DEF Destroy, ReleasePipelines, DestroyPipelines, WorkerReturns,
         mainVars, captureVars
<1>15. CASE GetPipeline
  BY <1>15 DEF GetPipeline, WorkerReturns, mainVars, pipeVars, captureVars
<1>16. CASE ClearCancel
  BY <1>16 DEF ClearCancel, mainVars, captureVars, ClearCancelFlag
<1>17. CASE CheckCancelled
  BY <1>17 DEF CheckCancelled, WorkerReturns, mainVars, pipeVars, captureVars,
         MustStop
<1>18. CASE CaptureCancelled
  BY <1>18 DEF CaptureCancelled, WorkerReturns, mainVars, pipeVars,
         captureVars
<1>19. CASE CaptureEnds
  BY <1>19 DEF CaptureEnds, WorkerReturns, mainVars, pipeVars
<1>20. CASE ProgressShown
  BY <1>20 DEF ProgressShown, mainVars, pipeVars, captureVars
<1>21. CASE Finished \/ UNCHANGED vars
  BY <1>21 DEF Finished, vars, mainVars, pipeVars, captureVars
<1> QED
  BY <1>1, <1>2, <1>3, <1>4, <1>5, <1>6, <1>7, <1>8, <1>9, <1>10, <1>11,
     <1>12, <1>13, <1>14, <1>15, <1>16, <1>17, <1>18, <1>19, <1>20, <1>21
     DEF Next, Worker, Opening, Operating

LEMMA OrphanStep ==
    TypeInv /\ PhaseInv /\ PipeInv /\ OpenInv /\ OrphanInv /\ [Next]_vars
      => OrphanInv'
<1> SUFFICES ASSUME TypeInv, PhaseInv, PipeInv, OpenInv, OrphanInv, [Next]_vars
             PROVE  OrphanInv'
  OBVIOUS
<1> USE DEF TypeInv, ControlType, PhaseInv, PipeInv, OpenInv, OrphanInv,
        Unexpected, Operations, Results, Capturing
<1>1. ASSUME NEW a \in {"open", "close"} \cup Operations, Begin(a)
      PROVE  OrphanInv'
  BY <1>1 DEF Begin, pipeVars
<1>2. CASE RejectPrint
  BY <1>2 DEF RejectPrint, mainVars, pipeVars, captureVars
<1>3. CASE Cancel
  BY <1>3 DEF Cancel, pipeVars, captureVars
<1>4. CASE RunCancel
  BY <1>4 DEF RunCancel, captureVars, ToCancel
<1>5. CASE ShowProgress
  BY <1>5 DEF ShowProgress, mainVars, pipeVars, captureVars
<1>6. CASE Complete
  <2>1. PICK r \in Propagated :
             /\ outcome' = [result |-> r, asked |-> actionCancelled]
             /\ isOpen' = CASE action = "open"  -> r = "ok"
                            [] action = "close" -> FALSE
                            [] OTHER            -> isOpen
             /\ orphaned' = (orphaned \/
                    (action = "open" /\ taskResult = "ok" /\ r = "cancelled"))
    BY <1>6 DEF Complete
  <2>2. /\ \/ r = "cancelled" \/ r = taskResult
           \/ action = "enroll" /\ taskResult = "ok"
        /\ r = "cancelled" <=> actionCancelled \/ taskResult = "cancelled"
        /\ r \in {"ok", "error", "cancelled", taskResult}
    BY <2>1, <1>6 DEF Complete, Propagated
  <2>3. /\ action' = "none" /\ taskResult' = "none" /\ outcome'.result = r
        /\ pipeline' = pipeline
    BY <1>6, <2>1 DEF Complete, pipeVars
  <2>4. r = "busy" => orphaned'
    BY <2>1, <2>2
  <2>5. ~isOpen' /\ pipeline # 0 => orphaned'
    BY <1>6, <2>1, <2>2 DEF Complete
  <2> QED
    BY <2>3, <2>4, <2>5
<1>7. CASE Finalize
  BY <1>7 DEF Finalize, ReleasePipelines, DestroyPipelines, captureVars
<1>8. CASE CreatePipeline
  BY <1>8 DEF CreatePipeline, WorkerReturns, mainVars, captureVars
<1>9. CASE Publish
  BY <1>9 DEF Publish, ReleasePipelines, DestroyPipelines, WorkerReturns,
         mainVars, captureVars
<1>10. CASE OpenBegin
  BY <1>10 DEF OpenBegin, mainVars, captureVars
<1>11. CASE OpenEnds
  BY <1>11 DEF OpenEnds, WorkerReturns, mainVars, pipeVars, captureVars
<1>12. CASE Unpublish
  BY <1>12 DEF Unpublish, mainVars, captureVars
<1>13. CASE Take
  BY <1>13 DEF Take, mainVars, captureVars, Withdraw
<1>14. CASE Destroy
  BY <1>14 DEF Destroy, ReleasePipelines, DestroyPipelines, WorkerReturns,
         mainVars, captureVars
<1>15. CASE GetPipeline
  BY <1>15 DEF GetPipeline, WorkerReturns, mainVars, pipeVars, captureVars
<1>16. CASE ClearCancel
  BY <1>16 DEF ClearCancel, mainVars, captureVars, ClearCancelFlag
<1>17. CASE CheckCancelled
  BY <1>17 DEF CheckCancelled, WorkerReturns, mainVars, pipeVars, captureVars,
         MustStop
<1>18. CASE CaptureCancelled
  BY <1>18 DEF CaptureCancelled, WorkerReturns, mainVars, pipeVars,
         captureVars
<1>19. CASE CaptureEnds
  BY <1>19 DEF CaptureEnds, WorkerReturns, mainVars, pipeVars
<1>20. CASE ProgressShown
  BY <1>20 DEF ProgressShown, mainVars, pipeVars, captureVars
<1>21. CASE Finished \/ UNCHANGED vars
  BY <1>21 DEF Finished, vars, mainVars, pipeVars, captureVars
<1> QED
  BY <1>1, <1>2, <1>3, <1>4, <1>5, <1>6, <1>7, <1>8, <1>9, <1>10, <1>11,
     <1>12, <1>13, <1>14, <1>15, <1>16, <1>17, <1>18, <1>19, <1>20, <1>21
     DEF Next, Worker, Opening, Operating

LEMMA LateStep == TypeInv /\ PhaseInv /\ LateInv /\ [Next]_vars => LateInv'
<1> SUFFICES ASSUME TypeInv, PhaseInv, LateInv, [Next]_vars
             PROVE  LateInv'
  OBVIOUS
<1> USE DEF TypeInv, CounterType, PhaseInv, LateInv, Capturing
<1>1. ASSUME NEW a \in {"open", "close"} \cup Operations, Begin(a)
      PROVE  LateInv'
  BY <1>1 DEF Begin, pipeVars
<1>2. CASE RejectPrint
  BY <1>2 DEF RejectPrint, mainVars, pipeVars, captureVars
<1>3. CASE Cancel
  BY <1>3 DEF Cancel, pipeVars, captureVars
<1>4. CASE RunCancel
  BY <1>4 DEF RunCancel, captureVars, ToCancel
<1>5. CASE ShowProgress
  BY <1>5 DEF ShowProgress, mainVars, pipeVars, captureVars
<1>6. CASE Complete
  BY <1>6 DEF Complete, pipeVars, captureVars
<1>7. CASE Finalize
  BY <1>7 DEF Finalize, ReleasePipelines, DestroyPipelines, captureVars
<1>8. CASE CreatePipeline
  BY <1>8 DEF CreatePipeline, WorkerReturns, mainVars, captureVars
<1>9. CASE Publish
  BY <1>9 DEF Publish, ReleasePipelines, DestroyPipelines, WorkerReturns,
         mainVars, captureVars
<1>10. CASE OpenBegin
  BY <1>10 DEF OpenBegin, mainVars, captureVars
<1>11. CASE OpenEnds
  BY <1>11 DEF OpenEnds, WorkerReturns, mainVars, pipeVars, captureVars
<1>12. CASE Unpublish
  BY <1>12 DEF Unpublish, mainVars, captureVars
<1>13. CASE Take
  BY <1>13 DEF Take, mainVars, captureVars, Withdraw
<1>14. CASE Destroy
  BY <1>14 DEF Destroy, ReleasePipelines, DestroyPipelines, WorkerReturns,
         mainVars, captureVars
<1>15. CASE GetPipeline
  BY <1>15 DEF GetPipeline, WorkerReturns, mainVars, pipeVars, captureVars
<1>16. CASE ClearCancel
  BY <1>16 DEF ClearCancel, mainVars, captureVars, ClearCancelFlag
<1>17. CASE CheckCancelled
  BY <1>17 DEF CheckCancelled, WorkerReturns, mainVars, pipeVars, captureVars,
         MustStop
<1>18. CASE CaptureCancelled
  BY <1>18 DEF CaptureCancelled, WorkerReturns, mainVars, pipeVars,
         captureVars
<1>19. CASE CaptureEnds
  BY <1>19 DEF CaptureEnds, WorkerReturns, mainVars, pipeVars, Count
<1>20. CASE ProgressShown
  BY <1>20 DEF ProgressShown, mainVars, pipeVars, captureVars
<1>21. CASE Finished \/ UNCHANGED vars
  BY <1>21 DEF Finished, vars, mainVars, pipeVars, captureVars
<1> QED
  BY <1>1, <1>2, <1>3, <1>4, <1>5, <1>6, <1>7, <1>8, <1>9, <1>10, <1>11,
     <1>12, <1>13, <1>14, <1>15, <1>16, <1>17, <1>18, <1>19, <1>20, <1>21
     DEF Next, Worker, Opening, Operating

(***************************************************************************)
(* All of it together, and what follows.                                   *)
(***************************************************************************)
DriverInv ==
    TypeInv /\ PhaseInv /\ PipeInv /\ CancelInv /\ OpenInv /\ OrphanInv /\ LateInv

LEMMA InvInit == Init => DriverInv
<1> SUFFICES ASSUME Init PROVE DriverInv
  OBVIOUS
<1>1. TypeInv
  BY TypeInit
<1>2. PhaseInv /\ CancelInv
  BY DEF Init, PhaseInv, CancelInv, Capturing
<1>3. PipeInv
  BY DEF Init, PipeInv, Capturing
<1>4. OpenInv /\ OrphanInv /\ LateInv
  BY DEF Init, OpenInv, OrphanInv, Unexpected, LateInv, Operations
<1> QED
  BY <1>1, <1>2, <1>3, <1>4 DEF DriverInv

(***************************************************************************)
(* The inductive invariant holds throughout every behaviour.               *)
(***************************************************************************)
THEOREM InvCorrect == Init /\ [][Next]_vars => []DriverInv
<1>1. DriverInv /\ [Next]_vars => DriverInv'
  BY TypeStep, PhaseStep, PipeStep, CancelKept, OpenStep, OrphanStep, LateStep
     DEF DriverInv
<1> QED
  BY <1>1, InvInit, PTL

-----------------------------------------------------------------------------
(* The driver with stored prints is a driver.                              *)

LEMMA PrintStep == [PrintNext]_allVars => [Next]_vars
<1>1. CASE Seal
  BY <1>1 DEF Seal, BeginSeal, SealKey, SealCipher, SealOut, EnrollDone, Next
<1>2. CASE BeginVerify
  BY <1>2 DEF BeginVerify
<1>3. CASE Unseal
  BY <1>3 DEF Unseal, OpenHeader, OpenKey, OpenCipher, OpenOut, OpenDone,
              Next, Operations
<1>4. CASE ApplicationStep
  BY <1>4 DEF ApplicationStep, Next, Operations
<1>5. CASE CancelStep \/ ProgressStep \/ CompleteOther \/ WorkerStep
  BY <1>5 DEF CancelStep, ProgressStep, CompleteOther, WorkerStep, Next
<1>6. CASE \E parts \in Damages : Damage(parts)
  BY <1>6 DEF Damage
<1>7. CASE \E f \in KeyFiles : WriteKeyFile(f)
  BY <1>7 DEF WriteKeyFile
<1>8. CASE Finished \/ UNCHANGED allVars
  BY <1>8 DEF Finished, allVars
<1> QED
  BY <1>1, <1>2, <1>3, <1>4, <1>5, <1>6, <1>7, <1>8 DEF PrintNext

(***************************************************************************)
(* Sealing and opening a print take no step that the driver without them   *)
(* could not take: every safety property of Driver.tla is kept.            *)
(***************************************************************************)
THEOREM PrintImplementsDriver == PrintSpec => Init /\ [][Next]_vars
<1>1. PrintInit => Init
  BY DEF PrintInit
<1> QED
  BY <1>1, PrintStep, PTL DEF PrintSpec

(***************************************************************************)
(* The driver's variables keep their types.                                *)
(***************************************************************************)
THEOREM TypeCorrect == PrintSpec => []TypeOK
<1>1. DriverInv => TypeOK
  BY DEF DriverInv, TypeInv, ControlType, PipelineType, CounterType, TypeOK
<1> QED
  BY <1>1, InvCorrect, PrintImplementsDriver, PTL

(***************************************************************************)
(* No thread uses a pipeline that another one has destroyed, although the  *)
(* worker follows its pointer without the mutex; between two actions none  *)
(* is left behind that nobody can reach and that holds the sensor; and an  *)
(* open is refused as busy only after one that was completed as cancelled. *)
(***************************************************************************)
THEOREM PipelinesAreAlive == PrintSpec => []PipelinesAreSafe
<1>1. DriverInv => NoUseAfterDestroy
  <2> SUFFICES ASSUME DriverInv PROVE NoUseAfterDestroy
    OBVIOUS
  <2> USE DEF DriverInv, TypeInv, ControlType, PipeInv, UsingPipeline, Capturing
  <2>1. pipeline \in live \cup {0}
    OBVIOUS
  <2>2. worker \in UsingPipeline => mine \in live
    OBVIOUS
  <2> QED
    BY <2>1, <2>2 DEF NoUseAfterDestroy
<1>2. DriverInv => NothingLeaks
  BY DEF DriverInv, PhaseInv, PipeInv, NothingLeaks
<1>3. DriverInv => BusyOnlyAfterCancelledOpen
  BY DEF DriverInv, OrphanInv, BusyOnlyAfterCancelledOpen
<1>4. DriverInv => PipelinesAreSafe
  BY <1>1, <1>2, <1>3 DEF PipelinesAreSafe
<1> QED
  BY <1>4, InvCorrect, PrintImplementsDriver, PTL

(***************************************************************************)
(* A device that is open for libfprint has its pipeline, so no enrollment  *)
(* or verification fails for want of one; and an open finds the place      *)
(* taken only after an open that had succeeded was completed as cancelled. *)
(***************************************************************************)
THEOREM OpenMeansReady ==
    PrintSpec => [](OpenDeviceHasPipeline /\ BusyOnlyAfterCancelledOpen)
<1>1. DriverInv => OpenDeviceHasPipeline /\ BusyOnlyAfterCancelledOpen
  BY DEF DriverInv, OpenInv, OrphanInv, OpenDeviceHasPipeline,
         BusyOnlyAfterCancelledOpen
<1> QED
  BY <1>1, InvCorrect, PrintImplementsDriver, PTL

(***************************************************************************)
(* A cancellation ends the action it was meant for and no other, after at  *)
(* most the capture that was being made.                                   *)
(***************************************************************************)
THEOREM CancelIsExact == PrintSpec => []CancelHitsItsTarget
<1>1. DriverInv => NoSpuriousCancel
  BY DEF DriverInv, CancelInv, NoSpuriousCancel
<1>2. DriverInv => CancelStopsCaptures
  BY DEF DriverInv, LateInv, CancelStopsCaptures
<1>3. DriverInv => CancelHitsItsTarget
  BY <1>1, <1>2 DEF CancelHitsItsTarget
<1> QED
  BY <1>3, InvCorrect, PrintImplementsDriver, PTL
-----------------------------------------------------------------------------
(* The stored print.                                                       *)

USE PrintAssumption DEF PrintAssumption

(***************************************************************************)
(* What the main thread holds, and where it may be for it.  The payload    *)
(* functions have succeeded only from the cipher on.                       *)
(***************************************************************************)
HeldInv ==
    /\ main \in {"idle"} \cup Sealing \cup Unsealing
    /\ main \in {"idle", "sealKey", "openHeader", "openKey", "sealDone",
                 "openDone"} => held = {}
    /\ main \in {"idle", "sealKey", "sealCipher", "openHeader", "openKey",
                 "openCipher"} => success = FALSE
    /\ main \in {"idle", "openHeader", "openKey", "openCipher"} =>
         refused = "none"
    /\ (main \in {"openOut", "openDone"} /\ refused = "none") => success = TRUE

(***************************************************************************)
(* Which action the two handlers belong to; a template in the clear        *)
(* belongs to the enrollment that made it, or to the verification that it  *)
(* was opened for.                                                         *)
(***************************************************************************)
ClearInv ==
    /\ main \in Sealing => action = "enroll"
    /\ main \in Unsealing => action = "none" /\ stored # NoPrint
    /\ bytes => action = "enroll"
    /\ input # NoPrint => (action = "verify" \/ main = "openDone")
    /\ (main = "openDone" /\ ~success) => input = NoPrint

PrintTypes ==
    /\ success \in BOOLEAN
    /\ held \subseteq Secrets
    /\ keyRead \in Keys
    /\ keyFile \in KeyFiles
    /\ stored \in Prints \cup {NoPrint}
    /\ sealed \in Prints \cup {NoPrint}
    /\ (main \in {"sealOut", "sealDone"} /\ success) => sealed \in Prints
    /\ bytes \in BOOLEAN
    /\ input \in Inputs \cup {NoPrint}
    /\ refused \in {"none", "format", "size", "psk", "library", "tag"}
    /\ files \in 0..MaxFiles

(***************************************************************************)
(* What is known about the print on the way: its constants have been       *)
(* looked at before its key, and the tag after it.                         *)
(***************************************************************************)
GenuineInv ==
    /\ main \in {"openKey", "openCipher"} => stored.damage \cap Constants = {}
    /\ (main \in {"openOut", "openDone"} /\ success) =>
         stored.damage \cap Constants = {} /\ Authentic(stored)
    /\ (main \in {"openOut", "openDone"} /\ refused \in {"format", "size"}) =>
         stored.damage # {}
    /\ (main \in {"openOut", "openDone"} /\ refused = "tag") =>
         ~Authentic(stored)
    /\ OnlyGenuineTemplates

PrintInv == HeldInv /\ ClearInv /\ PrintTypes /\ GenuineInv

LEMMA KeyOfFile == \A f \in KeyFiles : f.key \in Keys
BY DEF PskFile

LEMMA SealedIsPrint == \A k \in Keys : [key |-> k, damage |-> {}] \in Prints
BY DEF Prints

LEMMA PrintInvInit == PrintInit => PrintInv
<1> SUFFICES ASSUME PrintInit PROVE PrintInv
  OBVIOUS
<1>1. HeldInv
  BY DEF PrintInit, HeldInv
<1>2. ClearInv
  BY DEF PrintInit, Init, ClearInv, Sealing, Unsealing
<1>3. PrintTypes
  <2>1. stored \in Prints \cup {NoPrint}
    BY DEF PrintInit, Prints
  <2>2. keyFile \in KeyFiles /\ keyRead \in Keys /\ files \in 0..MaxFiles
    BY KeyOfFile DEF PrintInit
  <2>3. success \in BOOLEAN /\ bytes \in BOOLEAN /\ main = "idle"
    BY DEF PrintInit
  <2>4. held \subseteq Secrets /\ sealed = NoPrint /\ input = NoPrint
        /\ refused = "none"
    BY DEF PrintInit
  <2> QED
    BY <2>1, <2>2, <2>3, <2>4 DEF PrintTypes
<1>4. GenuineInv
  BY DEF PrintInit, GenuineInv, OnlyGenuineTemplates
<1> QED
  BY <1>1, <1>2, <1>3, <1>4 DEF PrintInv

(***************************************************************************)
(* A print in which nothing but what is looked at could be damaged is      *)
(* whole when all that was looked at.                                      *)
(***************************************************************************)
LEMMA AuthenticIsWhole ==
    ASSUME NEW p \in Prints, Authentic(p), p.damage \cap Constants = {}
    PROVE  p.damage = {} /\ p.key = keyRead
BY DEF Prints, Parts, Authentic, Constants

LEMMA SealKeeps ==
    ASSUME PrintInv, Seal
    PROVE  PrintInv'
<1> USE DEF PrintInv
<1>1. CASE BeginSeal
  BY <1>1 DEF BeginSeal, HeldInv, ClearInv, PrintTypes, GenuineInv,
     OnlyGenuineTemplates, Sealing, Unsealing, worldVars, vars, mainVars
<1>2. CASE SealKey
  BY <1>2 DEF SealKey, ReadPsk, HeldInv, ClearInv, PrintTypes, GenuineInv,
     OnlyGenuineTemplates, Sealing, Unsealing, worldVars, vars, mainVars,
     Secrets, PskFile
<1>3. CASE SealCipher
  <2> USE <1>3 DEF SealCipher
  <2>1. HeldInv' /\ ClearInv'
    BY DEF HeldInv, ClearInv, PrintTypes, Sealing, Unsealing, worldVars, vars,
           mainVars
  <2>2. PrintTypes'
    <3>1. held' \subseteq Secrets
      BY DEF PrintTypes, Secrets
    <3>2. sealed' \in Prints \cup {NoPrint} /\ (success' => sealed' \in Prints)
      BY SealedIsPrint DEF PrintTypes, HeldInv
    <3>3. success' \in BOOLEAN
      BY DEF PrintTypes
    <3> QED
      BY <3>1, <3>2, <3>3 DEF PrintTypes, worldVars
  <2>3. GenuineInv'
    BY DEF GenuineInv, OnlyGenuineTemplates
  <2> QED
    BY <2>1, <2>2, <2>3
<1>4. CASE SealOut
  BY <1>4 DEF SealOut, Wipe, HeldInv, ClearInv, PrintTypes, GenuineInv,
     OnlyGenuineTemplates, Sealing, Unsealing, worldVars, vars, mainVars
<1>5. CASE EnrollDone
  BY <1>5 DEF EnrollDone, FreeOutcome, Complete, HeldInv, ClearInv,
     PrintTypes, GenuineInv, OnlyGenuineTemplates, Sealing, Unsealing
<1> QED
  BY <1>1, <1>2, <1>3, <1>4, <1>5 DEF Seal

LEMMA OpenStarts ==
    ASSUME PrintInv, BeginVerify \/ OpenHeader \/ OpenKey
    PROVE  PrintInv'
<1> USE DEF PrintInv
<1>1. CASE BeginVerify
  BY <1>1 DEF BeginVerify, HeldInv, ClearInv, PrintTypes, GenuineInv,
     OnlyGenuineTemplates, Sealing, Unsealing, worldVars, vars, mainVars
<1>2. CASE OpenHeader
  <2> USE <1>2 DEF OpenHeader
  <2>1. /\ main = "openHeader" /\ stored # NoPrint
        /\ UNCHANGED <<vars, held, keyRead, sealed, worldVars, bytes, input>>
        /\ success = FALSE /\ refused = "none"
    BY DEF ClearInv, Unsealing, HeldInv
  <2>2. \/ /\ main' = "openKey" /\ UNCHANGED <<success, refused>>
           /\ stored.damage \cap Constants = {}
        \/ /\ main' = "openOut" /\ success' = FALSE /\ stored.damage # {}
           /\ refused' \in {"format", "size"}
    <3>1. CASE stored.damage \cap Constants # {}
      BY <3>1 DEF Refuse
    <3>2. CASE stored.damage \cap Constants = {}
      <4>1. PICK agree \in SizesAgree(stored.damage) :
               IF agree
               THEN main' = "openKey" /\ UNCHANGED <<success, refused>>
               ELSE Refuse("size", "openOut")
        BY <3>2
      <4>2. CASE agree
        BY <3>2, <4>1, <4>2
      <4>3. CASE ~agree
        <5>1. stored.damage # {}
          BY <4>1, <4>3 DEF SizesAgree
        <5> QED
          BY <4>1, <4>3, <5>1 DEF Refuse
      <4> QED
        BY <4>2, <4>3
    <3> QED
      BY <3>1, <3>2
  <2>3. HeldInv' /\ ClearInv'
    BY <2>1, <2>2 DEF HeldInv, ClearInv, Sealing, Unsealing, worldVars, vars,
                      mainVars
  <2>4. PrintTypes'
    BY <2>1, <2>2 DEF PrintTypes, worldVars
  <2>5. GenuineInv'
    BY <2>1, <2>2 DEF GenuineInv, OnlyGenuineTemplates, worldVars
  <2> QED
    BY <2>3, <2>4, <2>5
<1>3. CASE OpenKey
  BY <1>3, KeyOfFile DEF OpenKey, ReadPsk, HeldInv, ClearInv, PrintTypes,
     GenuineInv, OnlyGenuineTemplates, Sealing, Unsealing, worldVars, vars,
     mainVars, Secrets
<1> QED
  BY <1>1, <1>2, <1>3

LEMMA OpenEndsWell ==
    ASSUME PrintInv, OpenCipher \/ OpenOut \/ OpenDone
    PROVE  PrintInv'
<1> USE DEF PrintInv
<1>1. CASE OpenCipher
  <2> USE <1>1 DEF OpenCipher, Refuse
  <2>1. HeldInv' /\ ClearInv'
    BY DEF HeldInv, ClearInv, Sealing, Unsealing, worldVars, vars, mainVars
  <2>2. PrintTypes'
    BY DEF PrintTypes, Secrets, worldVars
  <2>3. Authentic(stored)' <=> Authentic(stored)
    BY DEF Authentic, worldVars
  <2>4. GenuineInv'
    BY <2>3 DEF GenuineInv, HeldInv, OnlyGenuineTemplates, worldVars
  <2> QED
    BY <2>1, <2>2, <2>4
<1>2. CASE OpenOut
  <2> USE <1>2 DEF OpenOut, Wipe
  <2>1. /\ main = "openOut" /\ main' = "openDone"
        /\ UNCHANGED <<vars, success, keyRead, sealed, refused, worldVars,
                      bytes>>
        /\ stored \in Prints /\ keyRead \in Keys
    BY DEF ClearInv, Unsealing, PrintTypes
  <2>2. input' \in Inputs \cup {NoPrint}
    BY <2>1 DEF Inputs
  <2>3. HeldInv' /\ ClearInv'
    BY <2>1 DEF HeldInv, ClearInv, Sealing, Unsealing, worldVars, vars,
                mainVars
  <2>4. PrintTypes'
    BY <2>1, <2>2 DEF PrintTypes, worldVars
  <2>5. OnlyGenuineTemplates'
    <3>1. CASE success
      BY <2>1, <3>1, AuthenticIsWhole DEF GenuineInv, OnlyGenuineTemplates
    <3>2. CASE ~success
      BY <3>2 DEF OnlyGenuineTemplates
    <3> QED
      BY <3>1, <3>2
  <2>6. Authentic(stored)' <=> Authentic(stored)
    BY <2>1 DEF Authentic, worldVars
  <2>7. GenuineInv'
    BY <2>1, <2>5, <2>6 DEF GenuineInv, worldVars
  <2> QED
    BY <2>3, <2>4, <2>7
<1>3. CASE OpenDone
  <2> USE <1>3 DEF OpenDone
  <2>1. /\ main = "openDone" /\ main' = "idle"
        /\ refused' = "none" /\ success' = FALSE
        /\ UNCHANGED <<held, keyRead, sealed, worldVars, bytes, input>>
        /\ action = "none" /\ held = {}
    BY DEF ClearInv, Unsealing, HeldInv
  <2>2. action' = IF success THEN "verify" ELSE "none"
    BY <2>1 DEF Begin, RejectPrint, mainVars
  <2>3. HeldInv' /\ ClearInv'
    BY <2>1, <2>2 DEF HeldInv, ClearInv, Sealing, Unsealing
  <2>4. PrintTypes'
    BY <2>1 DEF PrintTypes, worldVars
  <2>5. GenuineInv'
    BY <2>1 DEF GenuineInv, OnlyGenuineTemplates
  <2> QED
    BY <2>3, <2>4, <2>5
<1> QED
  BY <1>1, <1>2, <1>3

(***************************************************************************)
(* The driver's own steps change the action only when the main thread is   *)
(* in neither handler, and the worker never does.                          *)
(***************************************************************************)
LEMMA WorkerKeepsAction == Worker => UNCHANGED action
BY DEF Worker, Opening, Operating, CreatePipeline, Publish, OpenBegin,
       OpenEnds, Unpublish, Take, Destroy, GetPipeline, ClearCancel,
       CheckCancelled, CaptureCancelled, CaptureEnds, ProgressShown, mainVars

LEMMA OthersKeep ==
    ASSUME PrintInv,
           ApplicationStep \/ CancelStep \/ ProgressStep \/ CompleteOther
           \/ WorkerStep
    PROVE  PrintInv'
<1> USE DEF PrintInv
<1>1. CASE CompleteOther
  BY <1>1 DEF CompleteOther, Complete, HeldInv, ClearInv, PrintTypes,
     GenuineInv, OnlyGenuineTemplates, Authentic, Sealing, Unsealing,
     sealVars, worldVars
<1>2. CASE WorkerStep
  <2>1. UNCHANGED <<action, sealVars, worldVars, input>>
    BY <1>2, WorkerKeepsAction DEF WorkerStep
  <2>2. bytes' = (bytes \/ (action = "enroll" /\ taskResult' = "ok"))
    BY <1>2 DEF WorkerStep
  <2>3. HeldInv' /\ ClearInv'
    BY <2>1, <2>2 DEF HeldInv, ClearInv, sealVars, worldVars
  <2>4. PrintTypes'
    BY <2>1, <2>2 DEF PrintTypes, sealVars, worldVars
  <2>5. GenuineInv'
    BY <2>1 DEF GenuineInv, OnlyGenuineTemplates, Authentic, sealVars,
                worldVars
  <2> QED
    BY <2>3, <2>4, <2>5
<1>3. CASE ApplicationStep \/ CancelStep \/ ProgressStep
  <2>1. /\ main = "idle" /\ UNCHANGED <<sealVars, worldVars, bytes, input>>
        /\ action # "none" => UNCHANGED action
    BY <1>3 DEF ApplicationStep, CancelStep, ProgressStep, Elsewhere, Begin,
       Cancel, Finalize, RunCancel, ShowProgress, printVars, mainVars
  <2>2. HeldInv' /\ ClearInv'
    BY <2>1 DEF HeldInv, ClearInv, Sealing, Unsealing, sealVars, worldVars
  <2>3. PrintTypes'
    BY <2>1 DEF PrintTypes, sealVars, worldVars
  <2>4. GenuineInv'
    BY <2>1 DEF GenuineInv, OnlyGenuineTemplates, Authentic, sealVars,
                worldVars
  <2> QED
    BY <2>2, <2>3, <2>4
<1> QED
  BY <1>1, <1>2, <1>3

LEMMA WorldKeeps ==
    ASSUME PrintInv,
           \/ \E parts \in Damages : Damage(parts)
           \/ \E f \in KeyFiles : WriteKeyFile(f)
    PROVE  PrintInv'
<1> USE DEF PrintInv
<1>1. CASE \E parts \in Damages : Damage(parts)
  <2>1. PICK parts \in Damages : Damage(parts)
    BY <1>1
  <2>2. stored' \in Prints
    BY <2>1 DEF Damage, PrintTypes, Prints
  <2>3. HeldInv' /\ ClearInv'
    BY <2>1, <2>2 DEF Damage, HeldInv, ClearInv, Sealing, Unsealing, sealVars,
                      vars, mainVars
  <2>4. PrintTypes'
    BY <2>1, <2>2 DEF Damage, PrintTypes, sealVars
  <2>5. GenuineInv'
    BY <2>1 DEF Damage, GenuineInv, OnlyGenuineTemplates, sealVars
  <2> QED
    BY <2>3, <2>4, <2>5
<1>2. CASE \E f \in KeyFiles : WriteKeyFile(f)
  BY <1>2 DEF WriteKeyFile, HeldInv, ClearInv, PrintTypes, GenuineInv,
     OnlyGenuineTemplates, Authentic, sealVars, vars, mainVars
<1> QED
  BY <1>1, <1>2

LEMMA PrintInvStep == PrintInv /\ [PrintNext]_allVars => PrintInv'
<1>1. PrintInv /\ UNCHANGED allVars => PrintInv'
  BY DEF PrintInv, HeldInv, ClearInv, PrintTypes, GenuineInv,
     OnlyGenuineTemplates, Authentic, allVars, printVars, sealVars, worldVars,
     vars, mainVars
<1>2. Finished /\ UNCHANGED printVars => UNCHANGED allVars
  BY DEF Finished, allVars
<1> QED
  BY <1>1, <1>2, SealKeeps, OpenStarts, OpenEndsWell, OthersKeep, WorldKeeps
     DEF PrintNext, Unseal

THEOREM PrintInvCorrect == PrintSpec => []PrintInv
BY PrintInvInit, PrintInvStep, PTL DEF PrintSpec

(***************************************************************************)
(* The variables of the two handlers keep their types.                     *)
(***************************************************************************)
THEOREM PrintTypeCorrect == PrintSpec => []PrintTypeOK
<1>1. PrintInv => PrintTypeOK
  BY DEF PrintInv, HeldInv, PrintTypes, PrintTypeOK
<1> QED
  BY <1>1, PrintInvCorrect, PTL

(***************************************************************************)
(* Keys, and templates in the clear, are wiped on every way out of the two *)
(* handlers, and no template is left between two actions.                  *)
(***************************************************************************)
THEOREM NoSecretIsLeft == PrintSpec => []SecretsAreWiped
<1>1. PrintInv => SecretsAreWiped
  BY DEF PrintInv, HeldInv, ClearInv, SecretsAreWiped
<1> QED
  BY <1>1, PrintInvCorrect, PTL

(***************************************************************************)
(* Only what an enrollment sealed is deserialised, and it always can be,   *)
(* whatever sets of parts get damaged and however often the PSK changes.   *)
(***************************************************************************)
THEOREM PrintsOpenExactly == PrintSpec => []GoodPrintsAndNoOthers
<1>1. PrintInv => GoodPrintsAndNoOthers
  <2> SUFFICES ASSUME PrintInv PROVE GoodPrintsAndNoOthers
    OBVIOUS
  <2> USE DEF PrintInv
  <2>1. OnlyGenuineTemplates
    BY DEF GenuineInv
  <2>2. GenuinePrintOpens
    BY DEF GenuineInv, GenuinePrintOpens, Authentic
  <2> QED
    BY <2>1, <2>2 DEF GoodPrintsAndNoOthers
<1> QED
  BY <1>1, PrintInvCorrect, PTL
=============================================================================
