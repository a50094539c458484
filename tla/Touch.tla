-------------------------------- MODULE Touch --------------------------------
(***************************************************************************)
(* The touches of an enrollment or a verification, as the worker thread of *)
(* the driver sees them: first an empty-sensor base, then attempts, each   *)
(* of which polls the sensor until a finger gives a scan and then waits    *)
(* for the finger to go.  There is no touch interrupt; all the worker      *)
(* knows about the finger comes from the frames it asks for.               *)
(*                                                                         *)
(* A request for a frame carries no number, and neither does a frame.  A   *)
(* request that the host gave up (timeout, cancellation) may be answered   *)
(* later; the frame then waits in the session's FIFO and answers the next  *)
(* request, in this operation or a later one, and so on behind it.         *)
(*                                                                         *)
(* Environment.  A finger comes and goes at any time.  A frame of it may   *)
(* be usable or too weak, or show nothing (a light contact), but of the    *)
(* frames that can be read no two in a row miss a finger that stays;       *)
(* without a finger a frame is never usable.  A sensor with a finger on it *)
(* fails the brightness test of a base frame.  Any frame may be spoilt, or *)
(* not come.  Memory may run out where the code checks for it.             *)
(*                                                                         *)
(* What the matcher and the enrollment engine decide about a scan is left  *)
(* open.  Definitions named ...Mutant are wrong variants of the definition *)
(* after them, kept to show that the properties notice the difference.     *)
(***************************************************************************)
EXTENDS Naturals, Sequences

CONSTANTS Target,          \* GOODIX5125_ENROLL_TARGET
          EnrollAttempts,  \* GOODIX5125_ENROLL_ATTEMPTS
          VerifyAttempts,  \* GOODIX5125_VERIFY_ATTEMPTS
          BaseAttempts,    \* GOODIX5125_AUTO_BASE_ATTEMPTS
          FingerPolls,     \* GOODIX5125_AUTO_FINGER_POLLS
          LiftPolls,       \* GOODIX5125_AUTO_LIFT_POLLS
          CaptureAttempts, \* config.capture_attempts
          MaxLate,         \* bound: frames that wait to be read
          MaxOps,          \* bound: operations in a behaviour
          MaxTouches       \* bound: touches in a behaviour

ASSUME TouchAssumption ==
    /\ {Target, EnrollAttempts, VerifyAttempts} \subseteq Nat \ {0}
    /\ {BaseAttempts, FingerPolls, LiftPolls, CaptureAttempts} \subseteq Nat \ {0}
    /\ {MaxLate, MaxOps, MaxTouches} \subseteq Nat

VARIABLES
    finger,     \* is the finger on the sensor?
    touch,      \* the number of the current or latest touch
    misread,    \* did the latest readable frame miss the finger?
    late,       \* frames of abandoned requests, oldest first
    pipe,       \* pipeline->state: "ready" or "error"
    base,       \* the base frame: "none" (not ready), "empty", "covered"
    op,         \* the current or latest operation
    pc,         \* where its worker is
    attempt,    \* attempt of the worker's loop
    poll,       \* attempt or poll of the inner loop
    request,    \* attempt of gx5125_device_capture_raw16
    absents,    \* consecutive_absent
    accepted,   \* samples accepted so far
    shown,      \* completed stages of the latest progress report
    cancelled,  \* the action's cancellable
    outcome     \* what the latest operation returned

(***************************************************************************)
(* History variables.                                                      *)
(***************************************************************************)
VARIABLES
    ops,       \* operations begun so far
    oldTouch,  \* touch of the first frame the operation can get
    baseTouch, \* touch number when the base frame was taken
    samples,   \* the touches that the accepted samples come from
    usable,    \* scans handed to the enrollment engine or the matcher
    scanTouch  \* the touch of the latest of them

sensorVars   == <<finger, touch>>
frameVars    == <<misread, late, request>>
pipelineVars == <<pipe, base>>
loopVars     == <<op, pc, attempt, poll, absents>>
resultVars   == <<accepted, shown, cancelled, outcome>>
historyVars  == <<ops, oldTouch, baseTouch, samples, usable, scanTouch>>
vars == <<sensorVars, frameVars, pipelineVars, loopVars, resultVars,
          historyVars>>

Operations == {"enroll", "verify"}
Outcomes   == {"ok", "match", "mismatch", "retry", "incomplete", "timeout",
               "error", "cancelled"}

AttemptsOf(o) == IF o = "enroll" THEN EnrollAttempts ELSE VerifyAttempts

LimitOf(p) == CASE p = "base"  -> BaseAttempts
                [] p = "touch" -> FingerPolls
                [] OTHER       -> LiftPolls

(***************************************************************************)
(* What a frame shows; "bad" has a wrong CRC or cannot be preprocessed.    *)
(***************************************************************************)
Looks == {"empty", "weak", "usable", "bad"}

Frames == [look : Looks, finger : BOOLEAN, touch : 0..MaxTouches]

TypeOK ==
    /\ finger \in BOOLEAN
    /\ touch \in 0..MaxTouches
    /\ misread \in BOOLEAN
    /\ late \in Seq(Frames)
    /\ request \in 1..CaptureAttempts
    /\ pipe \in {"ready", "error"}
    /\ base \in {"none", "empty", "covered"}
    /\ op \in Operations
    /\ pc \in {"idle", "base", "touch", "lift", "finish"}
    /\ attempt \in 1..AttemptsOf(op)
    /\ poll \in Nat
    /\ pc \in {"base", "touch", "lift"} => poll \in 1..LimitOf(pc)
    /\ absents \in 0..1
    /\ accepted \in 0..Target
    /\ shown \in Nat
    /\ cancelled \in BOOLEAN
    /\ outcome \in {"none"} \cup Outcomes
    /\ ops \in 0..MaxOps
    /\ {oldTouch, baseTouch, scanTouch} \subseteq 0..MaxTouches
    /\ samples \in Seq(0..MaxTouches)
    /\ usable \in Nat

Init ==
    /\ finger \in BOOLEAN
    /\ touch = 0
    /\ misread = FALSE
    /\ late = <<>>
    /\ request = 1
    /\ pipe = "ready"
    /\ base = "none"
    /\ op \in Operations
    /\ pc = "idle"
    /\ attempt = 1
    /\ poll = 1
    /\ absents = 0
    /\ accepted = 0
    /\ shown = 0
    /\ cancelled = FALSE
    /\ outcome = "none"
    /\ ops = 0
    /\ oldTouch = 0
    /\ baseTouch = 0
    /\ samples = <<>>
    /\ usable = 0
    /\ scanTouch = 0

-----------------------------------------------------------------------------
(* The user.                                                               *)

PlaceFinger ==
    /\ ~finger
    /\ touch < MaxTouches
    /\ finger' = TRUE
    /\ touch' = touch + 1
    /\ misread' = FALSE
    /\ UNCHANGED <<late, request, pipelineVars, loopVars, resultVars, historyVars>>

LiftFinger ==
    /\ finger
    /\ finger' = FALSE
    /\ UNCHANGED <<touch, frameVars, pipelineVars, loopVars, resultVars, historyVars>>

Cancel ==
    /\ pc # "idle"
    /\ ~cancelled
    /\ cancelled' = TRUE
    /\ UNCHANGED <<sensorVars, frameVars, pipelineVars, loopVars, accepted,
                   shown, outcome, historyVars>>

-----------------------------------------------------------------------------
(* The worker.                                                             *)

(***************************************************************************)
(* enroll_worker and verify_worker begin with a reset of the processing    *)
(* contexts, and ignore whether it worked.  A pipeline in its error state  *)
(* stays in it.  Frames that are still on their way stay there too.        *)
(***************************************************************************)
Begin(o) ==
    /\ pc = "idle"
    /\ ops < MaxOps
    /\ ops' = ops + 1
    /\ op' = o
    /\ pc' = "base"
    /\ \E reset \in BOOLEAN : pipe' = IF reset THEN pipe ELSE "error"
    /\ base' = "none"
    /\ attempt' = 1
    /\ poll' = 1
    /\ absents' = 0
    /\ accepted' = 0
    /\ shown' = 0
    /\ cancelled' = FALSE
    /\ outcome' = "none"
    /\ oldTouch' = IF late = <<>> THEN touch ELSE Head(late).touch
    /\ baseTouch' = 0
    /\ samples' = <<>>
    /\ usable' = 0
    /\ scanTouch' = 0
    /\ UNCHANGED <<sensorVars, frameVars>>

End(result) ==
    /\ pc' = "idle"
    /\ outcome' = result
    /\ UNCHANGED <<attempt, poll, absents>>

EnterLoop(p) ==
    /\ pc' = p
    /\ poll' = 1
    /\ absents' = 0
    /\ UNCHANGED outcome

Exhausted == poll >= LimitOf(pc)

PollAgain ==
    /\ ~Exhausted
    /\ poll' = poll + 1
    /\ UNCHANGED <<pc, outcome, attempt>>

(***************************************************************************)
(* A request, and the queue of the frames that can answer it.  The sensor  *)
(* may send no frame.                                                      *)
(***************************************************************************)
Visible ==
    {"weak", "bad"} \cup (IF finger THEN {"usable"} ELSE {})
                    \cup (IF finger /\ misread THEN {} ELSE {"empty"})

Ask(queue) ==
    \/ queue = late /\ UNCHANGED misread
    \/ \E look \in Visible :
         /\ queue = Append(late, [look |-> look, finger |-> finger, touch |-> touch])
         /\ misread' = IF look = "bad" THEN misread ELSE finger /\ look = "empty"

Queues ==
    {late} \cup {Append(late, [look |-> look, finger |-> finger, touch |-> touch])
                   : look \in Looks}

(***************************************************************************)
(* What is left of the queue when a request fails: it was given up with    *)
(* its frame on the way, or the frame it got was bad.                      *)
(***************************************************************************)
LeftBy(queue) ==
    \/ late' = queue
    \/ queue # <<>> /\ Head(queue).look = "bad" /\ late' = Tail(queue)

RequestFails ==
    \E queue \in Queues :
        /\ Ask(queue)
        /\ LeftBy(queue)
        /\ Len(late') <= MaxLate

Requesting ==
    /\ pc \in {"base", "touch", "lift"}
    /\ pipe = "ready"
    /\ ~cancelled

(***************************************************************************)
(* gx5125_device_capture_raw16 asks again, a few times.                    *)
(***************************************************************************)
RequestAgain ==
    /\ Requesting
    /\ request < CaptureAttempts
    /\ request' = request + 1
    /\ RequestFails
    /\ UNCHANGED <<sensorVars, pipelineVars, loopVars, resultVars, historyVars>>

(***************************************************************************)
(* The capture brings a frame: the oldest that waits.                      *)
(***************************************************************************)
Capture(frame) ==
    /\ Requesting
    /\ \E queue \in Queues :
         /\ Ask(queue)
         /\ queue # <<>>
         /\ frame = Head(queue)
         /\ late' = Tail(queue)
    /\ request' = 1
    /\ UNCHANGED <<sensorVars, pipe, op, cancelled, ops, oldTouch>>

(***************************************************************************)
(* The capture brings none: its last request failed, its frame could not   *)
(* be preprocessed, or a pipeline in its error state refused at once.      *)
(***************************************************************************)
CaptureFails ==
    /\ ~cancelled
    /\ \/ pipe = "error" /\ UNCHANGED frameVars
       \/ /\ pipe = "ready"
          /\ RequestFails
          /\ request = CaptureAttempts \/ Len(late') < Len(late)
          /\ request' = 1
    /\ UNCHANGED <<sensorVars, pipe, op, cancelled, ops, oldTouch>>

Answers(looks) == {f \in {Head(queue) : queue \in Queues \ {<<>>}} : f.look \in looks}

(***************************************************************************)
(* Before every capture the worker asks whether its action was cancelled,  *)
(* and a capture under way looks at the flag that the cancellation sets,   *)
(* with or without a request sent.                                         *)
(***************************************************************************)
StopsWhenCancelled ==
    /\ pc \in {"base", "touch", "lift"}
    /\ cancelled
    /\ End("cancelled")
    /\ \/ UNCHANGED <<misread, late>>
       \/ /\ pipe = "ready"
          /\ \E queue \in Queues : Ask(queue) /\ late' = queue
          /\ Len(late') <= MaxLate
    /\ request' = 1
    /\ UNCHANGED <<sensorVars, pipelineVars, op, accepted, shown, cancelled,
                   historyVars>>

(***************************************************************************)
(* capture_clear_base: a frame that the preprocessor takes as its base     *)
(* makes the pipeline ready, bright or not; one that it does not take      *)
(* makes it unready.  Only a bright base ends the loop.                    *)
(***************************************************************************)
NoThresholdMutant == base' # "none"

Bright == base' = "empty"

CaptureBase ==
    /\ pc = "base"
    /\ \E frame \in Answers({"empty", "weak", "usable"}) :
         /\ Capture(frame)
         /\ base' \in {"none", IF frame.finger THEN "covered" ELSE "empty"}
         /\ baseTouch' = frame.touch
    /\ \/ Bright /\ EnterLoop("touch") /\ UNCHANGED attempt
       \/ op = "enroll" /\ Bright /\ End("error")
       \/ PollAgain /\ UNCHANGED absents
       \/ Exhausted /\ End("timeout")
    /\ UNCHANGED <<accepted, shown, samples, usable, scanTouch>>

NoBase ==
    /\ pc = "base"
    /\ CaptureFails
    /\ \/ PollAgain /\ UNCHANGED absents
       \/ Exhausted /\ End("timeout")
    /\ UNCHANGED <<base, accepted, shown, baseTouch, samples, usable, scanTouch>>

Report(completed) == shown' = IF op = "enroll" THEN completed ELSE shown

(***************************************************************************)
(* The attempt gave no usable scan: no finger came, or its image is too    *)
(* weak.  An enrollment shows a retry message; both wait for the lift.     *)
(***************************************************************************)
Unusable ==
    /\ Report(accepted)
    /\ EnterLoop("lift")
    /\ UNCHANGED <<attempt, accepted, samples, usable, scanTouch>>

NoFinger ==
    /\ pc = "touch"
    /\ CaptureFails \/ \E frame \in Answers({"empty"}) : Capture(frame)
    /\ IF Exhausted
       THEN Unusable
       ELSE /\ PollAgain
            /\ UNCHANGED <<absents, accepted, shown, samples, usable, scanTouch>>
    /\ UNCHANGED <<base, baseTouch>>

WeakScan ==
    /\ pc = "touch"
    /\ \E frame \in Answers({"weak"}) : Capture(frame)
    /\ Unusable
    /\ UNCHANGED <<base, baseTouch>>

ReportRejected == Report(accepted)

(***************************************************************************)
(* gx5125_enrollment_submit takes the sample, rejects it, or fails.        *)
(***************************************************************************)
UsableScan(frame) ==
    /\ pc = "touch"
    /\ Capture(frame)
    /\ usable' = usable + 1
    /\ scanTouch' = frame.touch
    /\ UNCHANGED <<base, baseTouch>>

SubmitScan ==
    \E frame \in Answers({"usable"}) :
        /\ op = "enroll"
        /\ UsableScan(frame)
        /\ \/ /\ accepted' = accepted + 1
              /\ samples' = Append(samples, frame.touch)
              /\ Report(accepted + 1)
              /\ EnterLoop(IF accepted + 1 < Target THEN "lift" ELSE "finish")
              /\ UNCHANGED attempt
           \/ /\ ReportRejected
              /\ EnterLoop("lift")
              /\ UNCHANGED <<attempt, accepted, samples>>
           \/ /\ End("error")
              /\ UNCHANGED <<accepted, shown, samples>>

(***************************************************************************)
(* The first usable scan of a verification decides.                        *)
(***************************************************************************)
Verdict == \E result \in {"match", "mismatch", "error"} : End(result)

MatchScan ==
    \E frame \in Answers({"usable"}) :
        /\ op = "verify"
        /\ UsableScan(frame)
        /\ Verdict
        /\ UNCHANGED <<accepted, shown, samples>>

(***************************************************************************)
(* wait_for_finger_absent: two absent frames in a row end the attempt, and *)
(* a failed frame counts as a present one.                                 *)
(***************************************************************************)
OneAbsentMutant == absents + 1 >= 1

Lifted == absents + 1 >= 2

SameAttemptMutant == EnterLoop("touch") /\ UNCHANGED attempt

NextAttempt ==
    IF attempt < AttemptsOf(op)
    THEN /\ attempt' = attempt + 1
         /\ EnterLoop("touch")
    ELSE /\ EnterLoop("finish")
         /\ UNCHANGED attempt

FingerAbsent ==
    /\ pc = "lift"
    /\ \E frame \in Answers({"empty"}) : Capture(frame)
    /\ IF Lifted
       THEN NextAttempt
       ELSE \/ PollAgain /\ absents' = absents + 1
            \/ Exhausted /\ End("timeout")
    /\ UNCHANGED <<base, accepted, shown, baseTouch, samples, usable, scanTouch>>

FingerPresent ==
    /\ pc = "lift"
    /\ CaptureFails \/ \E frame \in Answers({"weak", "usable"}) : Capture(frame)
    /\ \/ PollAgain /\ absents' = 0
       \/ Exhausted /\ End("timeout")
    /\ UNCHANGED <<base, accepted, shown, baseTouch, samples, usable, scanTouch>>

(***************************************************************************)
(* After the loop: an enrollment needs all its samples, and may still fail *)
(* to serialise them; a verification found nothing to compare.             *)
(***************************************************************************)
Complete == accepted = Target

Finish ==
    /\ pc = "finish"
    /\ IF op = "verify" THEN End("retry")
       ELSE IF Complete THEN End("ok") \/ End("error")
       ELSE End("incomplete")
    /\ UNCHANGED <<sensorVars, frameVars, pipelineVars, op, accepted, shown,
                   cancelled, historyVars>>

-----------------------------------------------------------------------------
Worker ==
    \/ StopsWhenCancelled
    \/ RequestAgain
    \/ CaptureBase
    \/ NoBase
    \/ NoFinger
    \/ WeakScan
    \/ SubmitScan
    \/ MatchScan
    \/ FingerAbsent
    \/ FingerPresent
    \/ Finish

(***************************************************************************)
(* The bound on operations is used up.                                     *)
(***************************************************************************)
Finished ==
    /\ pc = "idle"
    /\ ops = MaxOps
    /\ UNCHANGED vars

Next ==
    \/ PlaceFinger
    \/ LiftFinger
    \/ Cancel
    \/ \E o \in Operations : Begin(o)
    \/ Worker
    \/ Finished

(***************************************************************************)
(* The worker runs, and a capture ends in its time.  Nothing makes the     *)
(* finger come, or go.                                                     *)
(***************************************************************************)
Fairness == WF_vars(Worker)

Spec == Init /\ [][Next]_vars /\ Fairness
-----------------------------------------------------------------------------
(* What the user relies on.                                                *)

(***************************************************************************)
(* Every sample of a template comes from a touch of its own: the wait for  *)
(* two absent frames in a row is enough to tell touches apart, although a  *)
(* single frame may miss the finger.                                       *)
(***************************************************************************)
SamplesAreSeparateTouches ==
    \A i, j \in DOMAIN samples : samples[i] = samples[j] => i = j

(***************************************************************************)
(* Late frames do not mix: a scan is processed against an empty base, and  *)
(* its touch began after that base was taken.  Without frames of abandoned *)
(* requests both belong to the operation; otherwise they are no older than *)
(* the oldest of those frames.                                             *)
(***************************************************************************)
ScansFollowBase ==
    usable > 0 =>
        /\ base = "empty"
        /\ scanTouch > baseTouch
        /\ baseTouch >= oldTouch

(***************************************************************************)
(* A rejected or unusable scan does not advance the enrollment: the        *)
(* progress shown moves only with the samples in the template.             *)
(***************************************************************************)
ProgressFollowsSamples ==
    [][ops' = ops => shown' - shown = Len(samples') - Len(samples)]_vars

(***************************************************************************)
(* Only a full template is handed out, and the user has seen every stage   *)
(* of it.                                                                  *)
(***************************************************************************)
TemplateIsFull ==
    outcome = "ok" =>
        /\ op = "enroll"
        /\ Len(samples) = Target
        /\ shown = Target

(***************************************************************************)
(* A verification compares one scan only: attempts are spent on scans that *)
(* could not be used, and never on a finger that did not match.            *)
(***************************************************************************)
OneScanDecides ==
    op = "verify" =>
        /\ usable <= 1
        /\ outcome \in {"match", "mismatch"} => usable = 1
        /\ outcome = "retry" => usable = 0 /\ attempt = VerifyAttempts

(***************************************************************************)
(* Every operation ends, with the finger on the sensor for ever, without   *)
(* any finger, and with a sensor that answers nothing.                     *)
(***************************************************************************)
OperationEnds == (pc # "idle") ~> (pc = "idle")
=============================================================================
