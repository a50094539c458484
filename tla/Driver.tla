------------------------------- MODULE Driver -------------------------------
(***************************************************************************)
(* The libfprint driver: the main thread, which starts an action, cancels  *)
(* it, shows its progress and completes it, and the worker thread that     *)
(* carries it out.  They share the pointer self->pipeline, under           *)
(* self->mutex, and the cancel flag of the pipeline's device, an atomic.   *)
(*                                                                         *)
(* libfprint and GLib are modelled from how the driver uses them: one      *)
(* action at a time; a cancelled action calls the driver's cancel handler  *)
(* from an idle source that dies with the action; a task that returns      *)
(* after its cancellable was cancelled propagates the cancellation, not    *)
(* its result; a close counts as closed whatever its result; the device    *)
(* object is finalised only between actions, open or not.                  *)
(*                                                                         *)
(* An operation is a sequence of captures here; what they decide is the    *)
(* subject of Touch.tla.                                                   *)
(*                                                                         *)
(* Definitions named ...Mutant are wrong variants of the definition after  *)
(* them, kept to show that the properties notice the difference.           *)
(***************************************************************************)
EXTENDS Naturals

CONSTANTS MaxActions,   \* bound: actions started in a behaviour
          MaxCaptures   \* bound: captures in one operation

ASSUME DriverAssumption ==
    /\ MaxActions \in Nat
    /\ MaxCaptures \in Nat \ {0}

VARIABLES
    action,           \* the libfprint action in progress, or "none"
    isOpen,           \* libfprint's view of the device
    finalized,        \* the device object is gone
    actionCancelled,  \* the cancellable of the action
    cancelQueued,     \* the idle source that will call goodix_cancel
    taskResult,       \* what the worker returned to its task, or "none"
    outcome,          \* how the latest action was completed
    worker,           \* where the worker thread is
    mine,             \* the worker's own pipeline pointer (0: NULL)
    pipeline,         \* self->pipeline (0: NULL)
    live,             \* the pipelines created and not yet destroyed
    cancelFlag,       \* the pipelines whose device has cancel_requested set
    progress          \* progress event: "none", "queued", "done"

(***************************************************************************)
(* History variables.                                                      *)
(***************************************************************************)
VARIABLES
    actions,      \* actions started so far
    captures,     \* captures of the current operation
    lateCaptures, \* those begun after the action was cancelled
    orphaned      \* an open that had succeeded was completed as cancelled

mainVars    == <<action, isOpen, finalized, actionCancelled, cancelQueued>>
pipeVars    == <<pipeline, live, cancelFlag>>
captureVars == <<captures, lateCaptures>>
vars == <<mainVars, taskResult, outcome, worker, mine, pipeVars, progress,
          actions, captureVars, orphaned>>

Operations == {"enroll", "verify"}
Pipelines  == 1..MaxActions
Results    == {"ok", "error", "busy", "notOpen", "invalid", "cancelled"}
Outcomes   == [result : {"none"} \cup Results, asked : BOOLEAN]

(***************************************************************************)
(* The places where the worker is about to use its pipeline, or is in it.  *)
(***************************************************************************)
UsingPipeline == {"publish", "openBegin", "opening", "unpublish", "destroy",
                  "clear", "check", "capture", "progress"}

TypeOK ==
    /\ action \in {"none", "open", "close"} \cup Operations
    /\ isOpen \in BOOLEAN
    /\ finalized \in BOOLEAN
    /\ actionCancelled \in BOOLEAN
    /\ cancelQueued \in BOOLEAN
    /\ taskResult \in {"none"} \cup Results
    /\ outcome \in Outcomes
    /\ worker \in {"idle", "create", "take", "get"} \cup UsingPipeline
    /\ mine \in {0} \cup Pipelines
    /\ pipeline \in {0} \cup Pipelines
    /\ live \subseteq Pipelines
    /\ cancelFlag \subseteq Pipelines
    /\ progress \in {"none", "queued", "done"}
    /\ actions \in 0..MaxActions
    /\ captures \in 0..MaxCaptures
    /\ lateCaptures \in 0..MaxCaptures
    /\ orphaned \in BOOLEAN

Init ==
    /\ action = "none"
    /\ isOpen = FALSE
    /\ finalized = FALSE
    /\ actionCancelled = FALSE
    /\ cancelQueued = FALSE
    /\ taskResult = "none"
    /\ outcome = [result |-> "none", asked |-> FALSE]
    /\ worker = "idle"
    /\ mine = 0
    /\ pipeline = 0
    /\ live = {}
    /\ cancelFlag = {}
    /\ progress = "none"
    /\ actions = 0
    /\ captures = 0
    /\ lateCaptures = 0
    /\ orphaned = FALSE

-----------------------------------------------------------------------------
(* The main thread.                                                        *)

(***************************************************************************)
(* goodix_open, goodix_close, goodix_enroll, goodix_verify: libfprint      *)
(* starts an action and the driver runs its worker in a thread.            *)
(***************************************************************************)
Begin(a) ==
    /\ action = "none"
    /\ ~finalized
    /\ isOpen <=> (a # "open")
    /\ actions < MaxActions
    /\ actions' = actions + 1
    /\ action' = a
    /\ worker' = CASE a = "open"  -> "create"
                   [] a = "close" -> "take"
                   [] OTHER       -> "get"
    /\ taskResult' = "none"
    /\ captures' = 0
    /\ lateCaptures' = 0
    /\ UNCHANGED <<isOpen, finalized, actionCancelled, cancelQueued, outcome,
                   mine, pipeVars, progress, orphaned>>

(***************************************************************************)
(* goodix_verify completes on the spot when the stored print is not a      *)
(* payload it can decrypt: no worker is started.                           *)
(***************************************************************************)
RejectPrint ==
    /\ action = "none"
    /\ ~finalized
    /\ isOpen
    /\ actions < MaxActions
    /\ actions' = actions + 1
    /\ outcome' = [result |-> "invalid", asked |-> FALSE]
    /\ UNCHANGED <<mainVars, taskResult, worker, mine, pipeVars, progress,
                   captureVars, orphaned>>

(***************************************************************************)
(* The application cancels the action.                                     *)
(***************************************************************************)
Cancel ==
    /\ action # "none"
    /\ ~actionCancelled
    /\ actionCancelled' = TRUE
    /\ cancelQueued' = TRUE
    /\ UNCHANGED <<action, isOpen, finalized, taskResult, outcome, worker,
                   mine, pipeVars, progress, actions, captureVars, orphaned>>

(***************************************************************************)
(* goodix_cancel: request_cancel on the pipeline that is there now.        *)
(***************************************************************************)
ToCancel == {pipeline} \ {0}

RunCancel ==
    /\ cancelQueued
    /\ cancelQueued' = FALSE
    /\ cancelFlag' = cancelFlag \cup ToCancel
    /\ UNCHANGED <<action, isOpen, finalized, actionCancelled, taskResult,
                   outcome, worker, mine, pipeline, live, progress, actions,
                   captureVars, orphaned>>

(***************************************************************************)
(* emit_progress_main: the event is shown and its waiter signalled.        *)
(***************************************************************************)
NoSignalMutant ==
    /\ progress = "queued"
    /\ progress' = "none"
    /\ UNCHANGED <<mainVars, taskResult, outcome, worker, mine, pipeVars,
                   actions, captureVars, orphaned>>

ShowProgress ==
    /\ progress = "queued"
    /\ progress' = "done"
    /\ UNCHANGED <<mainVars, taskResult, outcome, worker, mine, pipeVars,
                   actions, captureVars, orphaned>>

(***************************************************************************)
(* open_done, close_done, enroll_done, verify_done.  g_task_propagate      *)
(* looks at the cancellable first; the encryption of an enrolled template  *)
(* may still fail.                                                         *)
(***************************************************************************)
Propagated ==
    IF actionCancelled THEN {"cancelled"}
    ELSE IF action = "enroll" /\ taskResult = "ok" THEN {"ok", "error"}
    ELSE {taskResult}

Complete ==
    /\ taskResult # "none"
    /\ \E r \in Propagated :
         /\ outcome' = [result |-> r, asked |-> actionCancelled]
         /\ isOpen' = CASE action = "open"  -> r = "ok"
                        [] action = "close" -> FALSE
                        [] OTHER            -> isOpen
         /\ orphaned' = (orphaned \/
                (action = "open" /\ taskResult = "ok" /\ r = "cancelled"))
    /\ action' = "none"
    /\ actionCancelled' = FALSE
    /\ cancelQueued' = FALSE
    /\ taskResult' = "none"
    /\ UNCHANGED <<finalized, worker, mine, pipeVars, progress, actions,
                   captureVars>>

(***************************************************************************)
(* goodix_finalize, when the last reference goes.                          *)
(***************************************************************************)
DestroyPipelines(ps) ==
    /\ live' = live \ ps
    /\ cancelFlag' = cancelFlag \ ps

ForgetPipelinesMutant(ps) == UNCHANGED <<live, cancelFlag>>

ReleasePipelines(ps) == DestroyPipelines(ps)

Finalize ==
    /\ action = "none"
    /\ ~finalized
    /\ finalized' = TRUE
    /\ pipeline' = 0
    /\ ReleasePipelines({pipeline})
    /\ UNCHANGED <<action, isOpen, actionCancelled, cancelQueued, taskResult,
                   outcome, worker, mine, progress, actions, captureVars,
                   orphaned>>

-----------------------------------------------------------------------------
(* The worker thread.                                                      *)

WorkerReturns(r) ==
    /\ worker' = "idle"
    /\ taskResult' = r
    /\ mine' = 0

(***************************************************************************)
(* open_worker: a new pipeline, numbered by the action that creates it,    *)
(* is published before it is opened, so that a cancel can reach it.        *)
(***************************************************************************)
CreatePipeline ==
    /\ worker = "create"
    /\ \/ /\ live' = live \cup {actions}
          /\ cancelFlag' = cancelFlag \ {actions}
          /\ mine' = actions
          /\ worker' = "publish"
          /\ UNCHANGED taskResult
       \/ /\ WorkerReturns("error")
          /\ UNCHANGED <<live, cancelFlag>>
    /\ UNCHANGED <<mainVars, outcome, pipeline, progress, actions, captureVars,
                   orphaned>>

Publish ==
    /\ worker = "publish"
    /\ IF pipeline # 0
       THEN /\ ReleasePipelines({mine})
            /\ WorkerReturns("busy")
            /\ UNCHANGED pipeline
       ELSE /\ pipeline' = mine
            /\ worker' = "openBegin"
            /\ UNCHANGED <<live, cancelFlag, mine, taskResult>>
    /\ UNCHANGED <<mainVars, outcome, progress, actions, captureVars, orphaned>>

(***************************************************************************)
(* gx5125_device_open starts by clearing the device's cancel flag, and     *)
(* does not look at it again.                                              *)
(***************************************************************************)
OpenBegin ==
    /\ worker = "openBegin"
    /\ cancelFlag' = cancelFlag \ {mine}
    /\ worker' = "opening"
    /\ UNCHANGED <<mainVars, taskResult, outcome, mine, pipeline, live,
                   progress, actions, captureVars, orphaned>>

OpenEnds ==
    /\ worker = "opening"
    /\ \/ WorkerReturns("ok")
       \/ /\ worker' = "unpublish"
          /\ UNCHANGED <<taskResult, mine>>
    /\ UNCHANGED <<mainVars, outcome, pipeVars, progress, actions, captureVars,
                   orphaned>>

(***************************************************************************)
(* A pipeline whose open failed is withdrawn under the mutex before it is  *)
(* destroyed.                                                              *)
(***************************************************************************)
Unpublish ==
    /\ worker = "unpublish"
    /\ pipeline' = IF pipeline = mine THEN 0 ELSE pipeline
    /\ worker' = "destroy"
    /\ UNCHANGED <<mainVars, taskResult, outcome, mine, live, cancelFlag,
                   progress, actions, captureVars, orphaned>>

(***************************************************************************)
(* close_worker takes the pipeline out under the mutex.                    *)
(***************************************************************************)
LeaveBehindMutant == pipeline' = pipeline

Withdraw == pipeline' = 0

Take ==
    /\ worker = "take"
    /\ mine' = pipeline
    /\ Withdraw
    /\ IF pipeline # 0
       THEN /\ worker' = "destroy"
            /\ UNCHANGED taskResult
       ELSE /\ worker' = "idle"
            /\ taskResult' = "ok"
    /\ UNCHANGED <<mainVars, outcome, live, cancelFlag, progress, actions,
                   captureVars, orphaned>>

(***************************************************************************)
(* gx5125_pipeline_close and gx5125_pipeline_destroy.                      *)
(***************************************************************************)
Destroy ==
    /\ worker = "destroy"
    /\ ReleasePipelines({mine})
    /\ WorkerReturns(IF action = "close" THEN "ok" ELSE "error")
    /\ UNCHANGED <<mainVars, outcome, pipeline, progress, actions, captureVars,
                   orphaned>>

(***************************************************************************)
(* enroll_worker and verify_worker: get_pipeline reads the pointer under   *)
(* the mutex; the worker keeps it for the whole operation.  A verify whose *)
(* template cannot be deserialised ends here.                              *)
(***************************************************************************)
GetPipeline ==
    /\ worker = "get"
    /\ \/ /\ pipeline = 0
          /\ WorkerReturns("notOpen")
       \/ /\ pipeline # 0
          /\ action = "verify"
          /\ WorkerReturns("invalid")
       \/ /\ pipeline # 0
          /\ mine' = pipeline
          /\ worker' = "clear"
          /\ UNCHANGED taskResult
    /\ UNCHANGED <<mainVars, outcome, pipeVars, progress, actions, captureVars,
                   orphaned>>

(***************************************************************************)
(* gx5125_pipeline_clear_cancel.  A cancel request that is already there   *)
(* is erased as well; the action's own cancellable remembers it.           *)
(***************************************************************************)
KeepCancelFlagMutant == cancelFlag' = cancelFlag

ClearCancelFlag == cancelFlag' = cancelFlag \ {mine}

ClearCancel ==
    /\ worker = "clear"
    /\ ClearCancelFlag
    /\ worker' = "check"
    /\ UNCHANGED <<mainVars, taskResult, outcome, mine, pipeline, live,
                   progress, actions, captureVars, orphaned>>

(***************************************************************************)
(* fpi_device_action_is_cancelled, asked before every capture.             *)
(***************************************************************************)
NeverCheckMutant == FALSE

MustStop == actionCancelled

CheckCancelled ==
    /\ worker = "check"
    /\ IF MustStop
       THEN WorkerReturns("cancelled")
       ELSE /\ worker' = "capture"
            /\ UNCHANGED <<taskResult, mine>>
    /\ UNCHANGED <<mainVars, outcome, pipeVars, progress, actions, captureVars,
                   orphaned>>

(***************************************************************************)
(* A capture ends.  It may see the cancel flag, or have its frame already. *)
(* Then the operation captures again, reports progress (enrollment only),  *)
(* or ends.                                                                *)
(***************************************************************************)
Count ==
    /\ captures' = captures + 1
    /\ lateCaptures' = IF actionCancelled THEN lateCaptures + 1 ELSE lateCaptures

CaptureCancelled ==
    /\ worker = "capture"
    /\ mine \in cancelFlag
    /\ WorkerReturns("cancelled")
    /\ UNCHANGED <<mainVars, outcome, pipeVars, progress, actions, captureVars,
                   orphaned>>

CaptureEnds ==
    /\ worker = "capture"
    /\ Count
    /\ \/ /\ captures' < MaxCaptures
          /\ worker' = "check"
          /\ UNCHANGED <<taskResult, mine, progress>>
       \/ /\ captures' < MaxCaptures
          /\ action = "enroll"
          /\ worker' = "progress"
          /\ progress' = "queued"
          /\ UNCHANGED <<taskResult, mine>>
       \/ \E r \in {"ok", "error"} :
             /\ WorkerReturns(r)
             /\ UNCHANGED progress
    /\ UNCHANGED <<mainVars, outcome, pipeVars, actions, orphaned>>

(***************************************************************************)
(* queue_progress returns once the main thread has shown the event.        *)
(***************************************************************************)
ProgressShown ==
    /\ worker = "progress"
    /\ progress = "done"
    /\ progress' = "none"
    /\ worker' = "check"
    /\ UNCHANGED <<mainVars, taskResult, outcome, mine, pipeVars, actions,
                   captureVars, orphaned>>

-----------------------------------------------------------------------------
Opening == CreatePipeline \/ Publish \/ OpenBegin \/ OpenEnds \/ Unpublish

Operating ==
    \/ GetPipeline
    \/ ClearCancel
    \/ CheckCancelled
    \/ CaptureCancelled
    \/ CaptureEnds
    \/ ProgressShown

Worker == Opening \/ Take \/ Destroy \/ Operating

(***************************************************************************)
(* The device object is gone: nothing is left to do.                       *)
(***************************************************************************)
Finished ==
    /\ finalized
    /\ UNCHANGED vars

Next ==
    \/ \E a \in {"open", "close"} \cup Operations : Begin(a)
    \/ RejectPrint
    \/ Cancel
    \/ RunCancel
    \/ ShowProgress
    \/ Complete
    \/ Finalize
    \/ Worker
    \/ Finished

(***************************************************************************)
(* The worker runs; opening and capturing have timeouts.  The main loop of *)
(* the application iterates: sources that stay ready are dispatched.       *)
(* Nothing makes the application begin, cancel or drop anything.           *)
(***************************************************************************)
Fairness ==
    /\ WF_vars(Worker)
    /\ WF_vars(RunCancel)
    /\ WF_vars(ShowProgress)
    /\ WF_vars(Complete)

Spec == Init /\ [][Next]_vars /\ Fairness
-----------------------------------------------------------------------------
(* What libfprint and the application rely on.                             *)

(***************************************************************************)
(* No thread uses a pipeline that has been destroyed: the pointer that     *)
(* goodix_cancel and goodix_finalize would follow is alive, and so is the  *)
(* pipeline the worker is in, although it holds the mutex only while it    *)
(* reads the pointer.                                                      *)
(***************************************************************************)
NoUseAfterDestroy ==
    /\ pipeline \in live \cup {0}
    /\ worker \in UsingPipeline => mine \in live

(***************************************************************************)
(* Between two actions the only pipeline is the published one: a failed,   *)
(* refused or cancelled open and every close leave none behind that holds  *)
(* the USB interfaces; with the device object the last one goes.           *)
(***************************************************************************)
NothingLeaks ==
    action = "none" =>
        /\ live = {pipeline} \ {0}
        /\ finalized => live = {}

(***************************************************************************)
(* A device that libfprint believes open has a pipeline: enroll and verify *)
(* never fail for want of one.                                             *)
(***************************************************************************)
OpenDeviceHasPipeline ==
    /\ (isOpen /\ action = "none" /\ ~finalized) => pipeline # 0
    /\ outcome.result # "notOpen"

(***************************************************************************)
(* An open is refused as busy only after an open that the worker had       *)
(* carried out was completed as cancelled: its pipeline stays published    *)
(* and, with no close to come, holds the sensor until the object goes.     *)
(***************************************************************************)
BusyOnlyAfterCancelledOpen ==
    outcome.result = "busy" => orphaned

(***************************************************************************)
(* The life of a pipeline: it ends neither before its last use nor after   *)
(* the last way to reach it, and none but that of an open completed as     *)
(* cancelled is in the way of a later open.                                *)
(***************************************************************************)
PipelinesAreSafe ==
    /\ NoUseAfterDestroy
    /\ NothingLeaks
    /\ BusyOnlyAfterCancelledOpen

(***************************************************************************)
(* No action is completed as cancelled unless it was cancelled itself: a   *)
(* cancel request meant for an earlier action does not reach a later one   *)
(* through the flag that the pipeline keeps between them.                  *)
(***************************************************************************)
NoSpuriousCancel ==
    outcome.result = "cancelled" => outcome.asked

(***************************************************************************)
(* A cancelled operation finishes at most the capture it is in, although   *)
(* goodix_cancel may run before the worker clears the flag it sets.        *)
(***************************************************************************)
CancelStopsCaptures == lateCaptures <= 1

(***************************************************************************)
(* The two together: a cancellation, whenever goodix_cancel runs, stops    *)
(* the operation it is for, soon, and no other.                            *)
(***************************************************************************)
CancelHitsItsTarget == NoSpuriousCancel /\ CancelStopsCaptures

(***************************************************************************)
(* Every action is completed: the worker, which sleeps until the main      *)
(* thread has shown its progress, and the main thread never wait for each  *)
(* other.                                                                  *)
(***************************************************************************)
ActionCompletes == (action # "none") ~> (action = "none")
=============================================================================
