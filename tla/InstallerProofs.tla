-------------------------- MODULE InstallerProofs --------------------------
(***************************************************************************)
(* Theorems about the installer, for any number of scripts and any limits  *)
(* of the guard and the live test, and about the PAM module it installs.   *)
(***************************************************************************)
EXTENDS Installer, PamProxy, TLAPS

(***************************************************************************)
(* A guard that looks or sleeps has a look left to spend, and a script     *)
(* that is about to edit the PAM file has its backup.                      *)
(***************************************************************************)
TypeInv ==
    /\ TypeOK
    /\ pc # "idle" => run \in Runs
    /\ \A r \in Runs : guard[r].phase \in {"look", "asleep"} => guard[r].looks > 0
    /\ pc \in {"owner", "state", "meta", "pam"} => file.backup \in PamFile

BeforeGuard == {"idle", "save", "link", "dropin", "saveWrapper", "wrapper",
                "backup", "owner", "state", "meta", "pam", "arm", "guard",
                "unPam", "unRuntime", "unState"}

Restored == SameRules(file.sudo, file.backup)

(***************************************************************************)
(* Only a script with a live guard is ever without a sudo timestamp, and   *)
(* a guard that ends undisarmed has restored the file.                     *)
(***************************************************************************)
RollbackInv ==
    /\ pc \in BeforeGuard => ~shell.guarded
    /\ pc \in {"settle", "live"} => shell.guarded /\ ~guard[run].disarm
    /\ ~shell.credential => /\ shell.guarded /\ ~guard[run].disarm
                            /\ pc \in {"live"} \cup RollbackSteps
    /\ (shell.guarded /\ ~guard[run].disarm /\ GuardEnded) => Restored
    /\ pc = "waitGuard" /\ shell.credential => Restored
    /\ RollbackRestores

(***************************************************************************)
(* A part is either as it was found, or armed with its former state.       *)
(***************************************************************************)
FailureInv ==
    /\ pc # "idle" => result = "none"
    /\ pc \in {"idle", "save"} \cup UninstallSteps => shell.armed = {}
    /\ pc \in {"link", "dropin", "saveWrapper"} => "wrapper" \notin shell.armed
    /\ pc \in {"link", "dropin"} => {"link", "dropin"} \subseteq shell.armed
    /\ pc = "wrapper" => "wrapper" \in shell.armed
    /\ pc \in InstallSteps \cup RollbackSteps =>
         \A p \in Parts : IF p \in shell.armed THEN shell.before[p] = found[p]
                                               ELSE runtime[p] = found[p]
    /\ pc \in {"undoDropin", "undoLink"} /\ shell.credential =>
         runtime["wrapper"] = found["wrapper"]
    /\ pc = "undoLink" /\ shell.credential => runtime["dropin"] = found["dropin"]
    /\ FailureRestoresRuntime

HasLine == file.sudo.block = "beta"

(***************************************************************************)
(* A guard that was disarmed while it had a look left ends at that look,   *)
(* and there is no guard before it is started.                             *)
(***************************************************************************)
PassInv ==
    /\ \A r \in Runs : r > run => guard[r].phase = "off"
    /\ pc \in BeforeGuard \ {"idle"} => GuardEnded
    /\ pc # "idle" => result = "none"
    /\ pc \in {"arm", "guard"} => HasLine \/ late
    /\ pc \in {"settle", "live", "disarm"} => HasLine \/ late \/ GuardEnded
    /\ pc \in {"wait", "releasePam", "releaseRest"} =>
         late \/ /\ HasLine
                 /\ guard[run].disarm
                 /\ guard[run].phase # "restore"
                 /\ guard[run].phase = "asleep" => guard[run].looks > 1
    /\ pc \in {"releasePam", "releaseRest"} => GuardEnded
    /\ result = "passed" => run \in Runs /\ (late \/ (HasLine /\ GuardEnded))

-----------------------------------------------------------------------------
(* Types.                                                                  *)

LEMMA BoundTypes ==
    /\ Scripts \in Nat \ {0}
    /\ GuardLooks \in Nat \ {0}
    /\ Settle \in Nat
    /\ LiveLimit \in Nat
    /\ {Settle, LiveLimit} \subseteq 0..(Settle + LiveLimit)
BY InstallerAssumption

LEMMA FreshTypes == FreshShell \in Shells /\ Nothing \in [Parts -> 0..Scripts]
BY BoundTypes DEF FreshShell, Shells, Nothing

LEMMA PamTypes ==
    /\ Vendor \in PamFile
    /\ \A f \in PamFile : /\ [f EXCEPT !.owner = "user"] \in PamFile
                         /\ Stripped(f) \in PamFile
                         /\ Candidate(f) \in PamFile
                         /\ Candidate(f).block = "beta"
    /\ Stripped(Absent) = Absent
<1>1. Vendor \in PamFile
  BY DEF Vendor, PamFile
<1>2. ASSUME NEW f \in PamFile
      PROVE  /\ [f EXCEPT !.owner = "user"] \in PamFile
             /\ Stripped(f) \in PamFile
             /\ Candidate(f) \in PamFile
             /\ Candidate(f).block = "beta"
  BY DEF PamFile, Stripped, Candidate
<1>3. Stripped(Absent) = Absent
  <2> DEFINE Only == [text : {"absent"}, block : {"none"}, owner : {"root"}]
  <2>1. Absent \in Only
    BY DEF Absent
  <2>2. Stripped(Absent) \in Only
    BY <2>1 DEF Stripped
  <2>3. \A f, g \in Only : f = g
    OBVIOUS
  <2> QED
    BY <2>1, <2>2, <2>3
<1> QED
  BY <1>1, <1>2, <1>3

LEMMA TypeInit == Init => TypeInv
<1> SUFFICES ASSUME Init
             PROVE  TypeInv
  OBVIOUS
<1>1. file \in Files
  <2>1. [Vendor EXCEPT !.text = "own"] \in PamFile
    BY DEF Vendor, PamFile
  <2>2. [Vendor EXCEPT !.text = "own", !.block = "old"] \in PamFile
    BY DEF Vendor, PamFile
  <2>3. PICK sudo \in PamFile \cup {Absent}, meta \in {"missing", "existed"} :
          file = [sudo |-> sudo, backup |-> Absent,
                  saved |-> Absent, meta |-> "missing",
                  former |-> [Vendor EXCEPT !.text = "own"],
                  formerMeta |-> meta]
    BY <2>1, <2>2 DEF Init
  <2> QED
    BY <2>1, <2>3 DEF Files, Metas
<1>2. guard \in [Runs -> Guards] /\ \A r \in Runs : guard[r].phase = "off"
  BY BoundTypes DEF Init, Guards
<1>3. shell \in Shells /\ runtime \in [Parts -> 0..Scripts]
      /\ found \in [Parts -> 0..Scripts]
  BY FreshTypes DEF Init
<1>4. run \in 0..Scripts
  BY BoundTypes DEF Init
<1> QED
  BY <1>1, <1>2, <1>3, <1>4 DEF Init, TypeInv, TypeOK, Files, Guards, Shells

LEMMA TypeStep == TypeInv /\ [Next]_vars => TypeInv'
<1> SUFFICES ASSUME TypeInv, [Next]_vars
             PROVE  TypeInv'
  OBVIOUS
<1> USE BoundTypes DEF TypeInv, TypeOK, InstallSteps, RollbackSteps, UninstallSteps
<1>1. ASSUME NEW first \in {"save", "unPam"}, Start(first)
      PROVE  TypeInv'
  BY <1>1 DEF Start, Runs
<1>2. CASE InstallRuntime
  <2>1. ASSUME NEW from, NEW to, NEW parts \in SUBSET Parts,
               Save(from, to, parts),
               <<from, to>> \in {<<"save", "link">>, <<"saveWrapper", "wrapper">>}
        PROVE  TypeInv'
    <3>1. shell' \in Shells
      BY <2>1 DEF Save, SavedAndArmed, Shells
    <3> QED
      BY <2>1, <3>1 DEF Save, Step
  <2>2. ASSUME NEW part \in Parts, NEW to, InstallPart(part, to),
               <<part, to>> \in {<<"link", "dropin">>, <<"dropin", "saveWrapper">>,
                                 <<"wrapper", "backup">>}
        PROVE  TypeInv'
    <3>1. runtime' \in [Parts -> 0..Scripts]
      BY <2>2 DEF InstallPart
    <3> QED
      BY <2>2, <3>1 DEF InstallPart, Step
  <2> QED
    BY <1>2, <2>1, <2>2 DEF InstallRuntime, Parts
<1>3. CASE TakeBackup
  <2>1. Source \in PamFile
    BY PamTypes DEF Source, Files
  <2>2. file' \in Files /\ file'.backup \in PamFile
    BY <1>3, <2>1, PamTypes DEF TakeBackup, Files
  <2> QED
    BY <1>3, <2>2 DEF TakeBackup, Step
<1>4. CASE CheckOwner
  BY <1>4 DEF CheckOwner, Step
<1>5. CASE SaveState
  <2>1. file' \in Files /\ file'.backup = file.backup
    BY <1>5, PamTypes DEF SaveState, Files
  <2> QED
    BY <1>5, <2>1 DEF SaveState, Step
<1>6. CASE SaveMeta
  <2>1. file' \in Files /\ file'.backup = file.backup
    BY <1>6 DEF SaveMeta, Files, Metas
  <2> QED
    BY <1>6, <2>1 DEF SaveMeta, Step
<1>7. CASE InstallPam
  <2>1. file' \in Files
    BY <1>7, PamTypes DEF InstallPam, Step, Files
  <2> QED
    BY <1>7, <2>1 DEF InstallPam, Step
<1>8. CASE ArmPam
  <2>1. shell' \in Shells
    BY <1>8 DEF ArmPam, Shells
  <2> QED
    BY <1>8, <2>1 DEF ArmPam, Step
<1>9. CASE StartGuard
  <2>1. shell' \in Shells
    BY <1>9 DEF StartGuard, Shells
  <2> DEFINE fresh == [phase |-> "look", looks |-> GuardLooks,
                       disarm |-> FALSE, trigger |-> FALSE]
  <2>4. GuardLooks \in 0..GuardLooks
    BY BoundTypes
  <2>5. fresh \in Guards
    BY <2>4 DEF Guards
  <2>2. guard' \in [Runs -> Guards]
    <3> HIDE DEF fresh
    <3>1. guard' = [guard EXCEPT ![run] = fresh]
      BY <1>9 DEF StartGuard, fresh
    <3> QED
      BY <3>1, <2>5
  <2>3. \A r \in Runs : guard'[r].phase \in {"look", "asleep"} => guard'[r].looks > 0
    BY <1>9 DEF StartGuard
  <2> QED
    BY <1>9, <2>1, <2>2, <2>3 DEF StartGuard, Step
<1>10. CASE DropCredential
  <2>1. shell' \in Shells
    BY <1>10 DEF DropCredential, Shells
  <2> QED
    BY <1>10, <2>1 DEF DropCredential, Step
<1>11. CASE LiveTest
  <2>1. shell' \in Shells
    BY <1>11 DEF LiveTest, Shells
  <2> QED
    BY <1>11, <2>1 DEF LiveTest, Step
<1>12. CASE Disarm
  <2>1. guard' \in [Runs -> Guards]
    BY <1>12 DEF Disarm, Guards
  <2>2. \A r \in Runs : guard'[r].phase = guard[r].phase /\ guard'[r].looks = guard[r].looks
    BY <1>12 DEF Disarm, Guards
  <2>3. late' \in BOOLEAN
    BY <1>12 DEF Disarm, NoLookLeft
  <2> QED
    BY <1>12, <2>1, <2>2, <2>3 DEF Disarm, Step
<1>13. CASE WaitForGuard \/ ReleasePam
  <2>1. shell' \in Shells
    BY <1>13 DEF WaitForGuard, ReleasePam, Shells
  <2> QED
    BY <1>13, <2>1 DEF WaitForGuard, ReleasePam, Step
<1>14. ASSUME NEW outcome \in {"passed", "failed", "failedWithoutSudo",
                               "killed", "uninstalled"},
              End(outcome), file' \in Files,
              runtime' \in [Parts -> 0..Scripts]
       PROVE  TypeInv'
  BY <1>14, FreshTypes DEF End
<1>15. CASE Pass \/ Kill
  BY <1>15, <1>14 DEF Pass, Kill
<1>16. ASSUME NEW r \in Runs, Look(r)
       PROVE  TypeInv'
  <2>1. guard' \in [Runs -> Guards]
    BY <1>16 DEF Look, Guards
  <2>2. \A q \in Runs : guard'[q].looks = guard[q].looks
                       /\ (q # r => guard'[q] = guard[q])
    BY <1>16 DEF Look, Guards
  <2> QED
    BY <1>16, <2>1, <2>2 DEF Look
<1>17. ASSUME NEW r \in Runs, Restore(r)
       PROVE  TypeInv'
  <2>1. guard' \in [Runs -> Guards]
    BY <1>17 DEF Restore, Guards
  <2>2. \A q \in Runs : guard'[q] = guard[q] \/ guard'[q].phase = "off"
    BY <1>17 DEF Restore, Guards
  <2>3. file' \in Files /\ file'.backup = file.backup
    BY <1>17 DEF Restore, Files
  <2> QED
    BY <1>17, <2>1, <2>2, <2>3 DEF Restore
<1>18. CASE Tick
  <2>1. shell' \in Shells
    BY <1>18 DEF Tick, Shells
  <2>2. ASSUME NEW r \in Runs
        PROVE  /\ guard'[r] \in Guards
               /\ guard'[r].phase \in {"look", "asleep"} => guard'[r].looks > 0
    <3>1. CASE guard[r].phase = "asleep"
      <4>1. guard[r] \in Guards /\ guard[r].looks > 0
        BY <3>1
      <4>2. /\ Slept(guard[r]) \in Guards
            /\ Slept(guard[r]).phase = "look" => Slept(guard[r]).looks > 0
            /\ Slept(guard[r]).phase \in {"look", "restore"}
        <5> DEFINE g == guard[r]
        <5>1. g.looks - 1 \in 0..GuardLooks
          BY <4>1 DEF Guards
        <5>2. CASE g.looks = 1
          <6>1. Slept(g) = [g EXCEPT !.looks = g.looks - 1, !.phase = "restore"]
            BY <5>2 DEF Slept, Spent, WhenSpent
          <6> QED
            BY <4>1, <5>1, <6>1 DEF Guards
        <5>3. CASE g.looks # 1
          <6>1. Slept(g) = [g EXCEPT !.looks = g.looks - 1, !.phase = "look"]
            BY <5>3 DEF Slept, Spent, WhenSpent
          <6>2. g.looks - 1 > 0
            BY <4>1, <5>3 DEF Guards
          <6> QED
            BY <4>1, <5>1, <6>1, <6>2 DEF Guards
        <5> QED
          BY <5>2, <5>3
      <4> QED
        BY <1>18, <3>1, <4>2 DEF Tick
    <3>2. CASE guard[r].phase # "asleep"
      BY <1>18, <3>2 DEF Tick
    <3> QED
      BY <3>1, <3>2
  <2>3. guard' \in [Runs -> Guards]
    BY <1>18, <2>2 DEF Tick
  <2> QED
    BY <1>18, <2>1, <2>2, <2>3 DEF Tick
<1>19. CASE Abort
  BY <1>19 DEF Abort
<1>20. CASE Trigger
  <2>1. guard' \in [Runs -> Guards]
    BY <1>20 DEF Trigger, Guards
  <2>2. \A r \in Runs : guard'[r].phase = guard[r].phase /\ guard'[r].looks = guard[r].looks
    BY <1>20 DEF Trigger, Guards
  <2> QED
    BY <1>20, <2>1, <2>2 DEF Trigger, Step
<1>21. CASE CopyBack
  <2>1. file' \in Files
    BY <1>21 DEF CopyBack, Files
  <2> QED
    BY <1>21, <2>1 DEF CopyBack, Step
<1>22. CASE WaitInRollback
  BY <1>22 DEF WaitInRollback, Step
<1>23. CASE UndoRuntime
  <2>1. \A part \in Parts : Undo(part) => runtime' \in [Parts -> 0..Scripts]
    BY DEF Undo, Shells
  <2>2. runtime' \in [Parts -> 0..Scripts]
    BY <1>23, <2>1 DEF UndoRuntime, Parts
  <2> QED
    BY <1>23, <2>2, <1>14 DEF UndoRuntime, Step
<1>24. CASE RestorePam
  <2>1. file' \in Files
    BY <1>24 DEF RestorePam, Files, Metas
  <2> QED
    BY <1>24, <2>1 DEF RestorePam, Step
<1>25. CASE RemoveRuntime
  BY <1>25, FreshTypes DEF RemoveRuntime, Step
<1>26. CASE RemoveState
  <2>1. file' \in Files
    BY <1>26 DEF RemoveState, Files, Metas
  <2> QED
    BY <1>26, <2>1, <1>14 DEF RemoveState
<1>27. CASE UNCHANGED vars
  BY <1>27 DEF vars
<1> QED
  BY <1>1, <1>2, <1>3, <1>4, <1>5, <1>6, <1>7, <1>8, <1>9, <1>10, <1>11, <1>12,
     <1>13, <1>15, <1>16, <1>17, <1>18, <1>19, <1>20, <1>21, <1>22, <1>23,
     <1>24, <1>25, <1>26, <1>27
  DEF Next, Install, Rollback, Uninstall, Guard, Finished

-----------------------------------------------------------------------------
(* The rollback.                                                           *)

LEMMA RollbackInit == Init => RollbackInv
BY DEF Init, RollbackInv, RollbackRestores, BeforeGuard, RollbackSteps, FreshShell

LEMMA RollbackStep == TypeInv /\ RollbackInv /\ [Next]_vars => RollbackInv'
<1> SUFFICES ASSUME TypeInv, RollbackInv, [Next]_vars
             PROVE  RollbackInv'
  OBVIOUS
<1> USE DEF RollbackInv, BeforeGuard, RollbackSteps, RollbackRestores
<1>0. /\ guard \in [Runs -> Guards] /\ shell \in Shells /\ file \in Files
      /\ pc # "idle" => run \in Runs
  BY DEF TypeInv, TypeOK
<1>1. ASSUME NEW first \in {"save", "unPam"}, Start(first)
      PROVE  RollbackInv'
  BY <1>1 DEF Start
<1>2. CASE InstallRuntime
  <2>1. ASSUME NEW parts \in SUBSET Parts
        PROVE  LET s == SavedAndArmed(parts)
               IN  /\ s.guarded = shell.guarded
                   /\ s.credential = shell.credential
                   /\ s.pamArmed = shell.pamArmed
    BY <1>0 DEF SavedAndArmed, Shells
  <2>2. /\ shell'.guarded = shell.guarded
        /\ shell'.credential = shell.credential
    BY <1>2, <2>1 DEF InstallRuntime, Save, InstallPart, Parts
  <2>3. /\ pc \in BeforeGuard /\ pc' \in BeforeGuard \ {"idle"}
        /\ UNCHANGED <<file, guard, run>>
    BY <1>2 DEF InstallRuntime, Save, InstallPart, Step
  <2> QED
    BY <2>2, <2>3 DEF Restored, GuardEnded
<1>3. CASE TakeBackup \/ CheckOwner \/ SaveState \/ SaveMeta \/ InstallPam
  BY <1>3 DEF TakeBackup, CheckOwner, SaveState, SaveMeta, InstallPam, Step
<1>4. CASE ArmPam
  BY <1>0, <1>4 DEF ArmPam, Step, Shells
<1>5. CASE StartGuard
  <2>1. /\ guard'[run].disarm = FALSE /\ guard'[run].phase = "look"
        /\ shell'.guarded = TRUE /\ shell'.credential = shell.credential
        /\ run' = run /\ pc = "guard" /\ pc' = "settle"
    BY <1>0, <1>5 DEF StartGuard, Step, Shells
  <2> QED
    BY <2>1 DEF GuardEnded
<1>6. CASE DropCredential
  BY <1>0, <1>6 DEF DropCredential, Step, Shells, Restored, GuardEnded
<1>7. CASE LiveTest
  BY <1>0, <1>7 DEF LiveTest, Step, Shells, Restored, GuardEnded
<1>8. CASE Disarm
  BY <1>0, <1>8 DEF Disarm, Step, Restored, GuardEnded, Guards
<1>9. CASE WaitForGuard
  BY <1>0, <1>9 DEF WaitForGuard, Step, Shells, Restored, GuardEnded
<1>10. CASE ReleasePam
  BY <1>0, <1>10 DEF ReleasePam, Step, Shells, Restored, GuardEnded
<1>11. ASSUME NEW outcome, End(outcome)
       PROVE  RollbackInv'
  BY <1>11 DEF End, FreshShell
<1>12. CASE Pass \/ Kill \/ RemoveState
  BY <1>12, <1>11 DEF Pass, Kill, RemoveState
<1>13. ASSUME NEW r \in Runs, Look(r)
       PROVE  RollbackInv'
  <2>1. ASSUME NEW q \in Runs
        PROVE  /\ guard'[q].disarm = guard[q].disarm
               /\ guard'[q].phase = "off" => guard[q].phase = "off" \/ guard[q].disarm
    BY <1>0, <1>13 DEF Look, Disarmed, Guards
  <2>2. UNCHANGED <<pc, run, file, shell>>
    BY <1>13 DEF Look
  <2>3. shell.guarded => pc # "idle"
    OBVIOUS
  <2> QED
    BY <1>0, <2>1, <2>2, <2>3 DEF Restored, GuardEnded
<1>14. ASSUME NEW r \in Runs, Restore(r)
       PROVE  RollbackInv'
  <2>1. ASSUME NEW q \in Runs
        PROVE  guard'[q].disarm = guard[q].disarm
    BY <1>0, <1>14 DEF Restore, Guards
  <2>2. Restored'
    BY <1>0, <1>14 DEF Restore, Restored, SameRules, Files
  <2> QED
    BY <1>0, <1>14, <2>1, <2>2 DEF Restore, Restored
<1>15. CASE Tick
  <2>1. ASSUME NEW q \in Runs
        PROVE  /\ guard'[q].disarm = guard[q].disarm
               /\ guard'[q].phase = "off" => guard[q].phase = "off"
    BY <1>0, <1>15 DEF Tick, Slept, WhenSpent, Guards
  <2>2. /\ shell'.guarded = shell.guarded
        /\ shell'.credential = shell.credential
        /\ shell'.pamArmed = shell.pamArmed
    BY <1>0, <1>15 DEF Tick, Shells
  <2>3. UNCHANGED <<pc, run, file>>
    BY <1>15 DEF Tick
  <2> QED
    BY <1>0, <2>1, <2>2, <2>3 DEF Restored, GuardEnded
<1>16. CASE Abort
  BY <1>16 DEF Abort, InstallSteps, Restored, GuardEnded
<1>17. CASE Trigger
  <2>1. ASSUME NEW q \in Runs
        PROVE  /\ guard'[q].disarm = guard[q].disarm
               /\ guard'[q].phase = guard[q].phase
    BY <1>0, <1>17 DEF Trigger, Guards
  <2> QED
    BY <1>0, <1>17, <2>1 DEF Trigger, Step, Restored, GuardEnded
<1>18. CASE CopyBack
  <2>1. shell.credential => Restored'
    BY <1>0, <1>18 DEF CopyBack, Restored, SameRules, Files
  <2>2. ~shell.credential => file' = file
    BY <1>18 DEF CopyBack
  <2> QED
    BY <1>0, <1>18, <2>1, <2>2 DEF CopyBack, Step, Restored, GuardEnded
<1>19. CASE WaitInRollback
  BY <1>0, <1>19 DEF WaitInRollback, Waited, Step, Restored, GuardEnded
<1>20. CASE UndoRuntime
  BY <1>0, <1>20, <1>11 DEF UndoRuntime, Step, Restored, GuardEnded
<1>21. CASE RestorePam \/ RemoveRuntime
  BY <1>21 DEF RestorePam, RemoveRuntime, Step
<1>22. CASE UNCHANGED vars
  BY <1>22 DEF vars, Restored, GuardEnded
<1> QED
  BY <1>1, <1>2, <1>3, <1>4, <1>5, <1>6, <1>7, <1>8, <1>9, <1>10, <1>12, <1>13,
     <1>14, <1>15, <1>16, <1>17, <1>18, <1>19, <1>20, <1>21, <1>22
  DEF Next, Install, Rollback, Uninstall, Guard, Finished

-----------------------------------------------------------------------------
(* The runtime after a failure.                                            *)

LEMMA FailureInit == Init => FailureInv
BY DEF Init, FailureInv, FailureRestoresRuntime, InstallSteps, RollbackSteps, FreshShell

LEMMA FailureStep == TypeInv /\ FailureInv /\ [Next]_vars => FailureInv'
<1> SUFFICES ASSUME TypeInv, FailureInv, [Next]_vars
             PROVE  FailureInv'
  OBVIOUS
<1> USE DEF FailureInv, InstallSteps, RollbackSteps, UninstallSteps,
            FailureRestoresRuntime
<1>0. /\ shell \in Shells
      /\ runtime \in [Parts -> 0..Scripts] /\ found \in [Parts -> 0..Scripts]
  BY DEF TypeInv, TypeOK
<1>1. ASSUME NEW first \in {"save", "unPam"}, Start(first)
      PROVE  FailureInv'
  BY <1>0, <1>1 DEF Start
<1>2. ASSUME UNCHANGED <<runtime, found, result, pc>>,
             shell'.armed = shell.armed, shell'.before = shell.before,
             shell'.credential = shell.credential
      PROVE  FailureInv'
  BY <1>2
<1>3. ASSUME UNCHANGED <<runtime, found, result>>,
             shell'.armed = shell.armed, shell'.before = shell.before,
             pc \in InstallSteps \cup RollbackSteps,
             pc' \in (InstallSteps \cup RollbackSteps)
                     \ {"save", "link", "dropin", "saveWrapper", "wrapper",
                        "undoDropin", "undoLink"}
      PROVE  FailureInv'
  BY <1>3
<1>4. CASE InstallRuntime
  <2>1. ASSUME NEW from, NEW to, NEW parts \in SUBSET Parts,
               Save(from, to, parts),
               <<from, to, parts>> \in {<<"save", "link", {"link", "dropin"}>>,
                                       <<"saveWrapper", "wrapper", {"wrapper"}>>}
        PROVE  FailureInv'
    <3>1. /\ shell'.armed = shell.armed \cup parts
          /\ \A p \in Parts : shell'.before[p] = IF p \in parts THEN runtime[p]
                                                              ELSE shell.before[p]
      BY <1>0, <2>1 DEF Save, SavedAndArmed, Shells
    <3>2. pc = from /\ pc' = to /\ UNCHANGED <<result, found, runtime>>
      BY <2>1 DEF Save, Step
    <3>3. \A p \in parts : p \notin shell.armed
      BY <2>1, <3>2
    <3>4. CASE from = "save" /\ to = "link" /\ parts = {"link", "dropin"}
      BY <3>1, <3>2, <3>3, <3>4
    <3>5. CASE from = "saveWrapper" /\ to = "wrapper" /\ parts = {"wrapper"}
      BY <3>1, <3>2, <3>3, <3>5
    <3> QED
      BY <2>1, <3>4, <3>5
  <2>2. ASSUME NEW part \in Parts, NEW to, InstallPart(part, to),
               <<part, to>> \in {<<"link", "dropin">>, <<"dropin", "saveWrapper">>,
                                 <<"wrapper", "backup">>}
        PROVE  FailureInv'
    <3>1. part \in shell.armed
      BY <2>2 DEF InstallPart, Step
    <3>2. \A p \in Parts : p # part => runtime'[p] = runtime[p]
      BY <1>0, <2>2 DEF InstallPart
    <3>3. pc = part /\ pc' = to /\ UNCHANGED <<result, found, shell>>
      BY <2>2 DEF InstallPart, Step
    <3> QED
      BY <2>2, <3>1, <3>2, <3>3
  <2> QED
    BY <1>4, <2>1, <2>2 DEF InstallRuntime, Parts
<1>5. CASE TakeBackup \/ CheckOwner \/ SaveState \/ SaveMeta \/ InstallPam
  BY <1>5, <1>3 DEF TakeBackup, CheckOwner, SaveState, SaveMeta, InstallPam, Step
<1>6. CASE ArmPam \/ StartGuard \/ DropCredential \/ LiveTest \/ WaitForGuard
           \/ ReleasePam
  <2>1. shell'.armed = shell.armed /\ shell'.before = shell.before
    BY <1>0, <1>6 DEF ArmPam, StartGuard, DropCredential, LiveTest, WaitForGuard,
                      ReleasePam, Shells
  <2>2. /\ UNCHANGED <<runtime, found, result>>
        /\ pc \in InstallSteps
        /\ pc' \in {"guard", "settle", "live", "disarm", "releasePam", "releaseRest"}
    BY <1>6 DEF ArmPam, StartGuard, DropCredential, LiveTest, WaitForGuard,
                ReleasePam, Step
  <2> QED
    BY <2>1, <2>2, <1>3
<1>7. CASE Disarm \/ Abort \/ Trigger \/ CopyBack \/ WaitInRollback
  BY <1>7, <1>3 DEF Disarm, Abort, Trigger, CopyBack, WaitInRollback, Step
<1>8. ASSUME NEW outcome, outcome # "failed", End(outcome)
      PROVE  FailureInv'
  BY <1>8 DEF End, FreshShell
<1>9. CASE Pass \/ Kill \/ RemoveState
  BY <1>9, <1>8 DEF Pass, Kill, RemoveState
<1>10. ASSUME NEW r \in Runs, Look(r) \/ Restore(r)
       PROVE  FailureInv'
  BY <1>10, <1>2 DEF Look, Restore
<1>11. CASE Tick
  <2>1. /\ shell'.armed = shell.armed /\ shell'.before = shell.before
        /\ shell'.credential = shell.credential
    BY <1>0, <1>11 DEF Tick, Shells
  <2> QED
    BY <1>11, <2>1, <1>2 DEF Tick
<1>12. CASE UndoRuntime
  <2>1. ASSUME NEW part \in Parts, Undo(part), pc \in RollbackSteps
        PROVE  /\ \A p \in Parts : p # part => runtime'[p] = runtime[p]
               /\ shell.credential => runtime'[part] = found[part]
               /\ part \notin shell.armed => runtime'[part] = runtime[part]
               /\ runtime' \in [Parts -> 0..Scripts]
    BY <1>0, <2>1 DEF Undo, Shells
  <2>2. CASE Undo("wrapper") /\ Step("undoWrapper", "undoDropin") /\ UNCHANGED shell
    BY <2>1, <2>2 DEF Step, Parts
  <2>3. CASE Undo("dropin") /\ Step("undoDropin", "undoLink") /\ UNCHANGED shell
    BY <2>1, <2>3 DEF Step, Parts
  <2>4. CASE /\ Undo("link") /\ pc = "undoLink"
             /\ End(IF shell.credential THEN "failed" ELSE "failedWithoutSudo")
    <3>1. CASE shell.credential
      <4>1. \A p \in Parts : runtime'[p] = found[p]
        BY <2>1, <2>4, <3>1 DEF Parts
      <4>2. runtime' \in [Parts -> 0..Scripts]
        BY <2>1, <2>4 DEF Parts
      <4>3. runtime' = found
        BY <1>0, <4>1, <4>2
      <4> QED
        BY <2>4, <3>1, <4>3 DEF End, FreshShell
    <3>2. CASE ~shell.credential
      BY <2>4, <3>2, <1>8
    <3> QED
      BY <3>1, <3>2
  <2> QED
    BY <1>12, <2>2, <2>3, <2>4 DEF UndoRuntime
<1>13. CASE RestorePam \/ RemoveRuntime
  BY <1>13 DEF RestorePam, RemoveRuntime, Step
<1>14. CASE UNCHANGED vars
  BY <1>14 DEF vars
<1> QED
  BY <1>1, <1>4, <1>5, <1>6, <1>7, <1>9, <1>10, <1>11, <1>12, <1>13, <1>14
  DEF Next, Install, Rollback, Uninstall, Guard, Finished

-----------------------------------------------------------------------------
(* A passed installation.                                                  *)

LEMMA PassInit == Init => PassInv
BY BoundTypes DEF Init, PassInv

LEMMA PassStep == TypeInv /\ PassInv /\ [Next]_vars => PassInv'
<1> SUFFICES ASSUME TypeInv, PassInv, [Next]_vars
             PROVE  PassInv'
  OBVIOUS
<1> USE DEF PassInv, BeforeGuard
<1>0. /\ guard \in [Runs -> Guards] /\ file \in Files /\ run \in 0..Scripts
      /\ pc # "idle" => run \in Runs
  BY DEF TypeInv, TypeOK
<1>a. ASSUME pc' \notin {"arm", "guard", "settle", "live", "disarm", "wait",
                         "releasePam", "releaseRest"},
             result' # "passed", pc' = "idle" \/ result' = "none",
             UNCHANGED run,
             \A r \in Runs : guard'[r].phase = guard[r].phase,
             pc' \in BeforeGuard \ {"idle"} => pc \in BeforeGuard \ {"idle"}
      PROVE  PassInv'
  BY <1>0, <1>a DEF GuardEnded
<1>1. ASSUME NEW first \in {"save", "unPam"}, Start(first)
      PROVE  PassInv'
  <2>1. run + 1 \in Runs /\ run' = run + 1 /\ guard' = guard
    BY <1>0, <1>1, BoundTypes DEF Start, Runs
  <2>2. \A r \in Runs : r > run + 1 => guard[r].phase = "off"
    BY <1>0 DEF Runs
  <2>3. guard[run + 1].phase = "off"
    BY <1>0, <2>1
  <2> QED
    BY <1>1, <2>1, <2>2, <2>3 DEF Start, GuardEnded
<1>2. CASE InstallRuntime \/ TakeBackup \/ CheckOwner \/ SaveState \/ SaveMeta
  BY <1>2, <1>a DEF InstallRuntime, Save, InstallPart, TakeBackup, CheckOwner,
                    SaveState, SaveMeta, Step
<1>3. CASE InstallPam
  <2>1. HasLine'
    <3>1. file.backup \in PamFile
      BY <1>3 DEF InstallPam, Step, TypeInv
    <3> QED
      BY <1>0, <1>3, <3>1, PamTypes DEF InstallPam, HasLine, Files
  <2> QED
    BY <1>3, <2>1 DEF InstallPam, Step, GuardEnded
<1>4. CASE ArmPam \/ DropCredential \/ LiveTest \/ WaitForGuard \/ ReleasePam
  BY <1>4 DEF ArmPam, DropCredential, LiveTest, WaitForGuard, ReleasePam, Step,
              HasLine, GuardEnded
<1>5. CASE StartGuard
  <2>1. \A r \in Runs : r > run => guard'[r].phase = guard[r].phase
    BY <1>0, <1>5 DEF StartGuard, Step, Runs
  <2> QED
    BY <1>5, <2>1 DEF StartGuard, Step, HasLine
<1>6. CASE Disarm
  <2>1. \A r \in Runs : guard'[r].phase = guard[r].phase
                       /\ guard'[r].looks = guard[r].looks
    BY <1>0, <1>6 DEF Disarm, Guards
  <2>2. guard'[run].disarm
    BY <1>0, <1>6 DEF Disarm, Step, Guards
  <2>3. UNCHANGED <<run, result, file>> /\ pc = "disarm" /\ pc' = "wait"
    BY <1>6 DEF Disarm, Step
  <2>4. run \in Runs /\ guard[run] \in Guards
    BY <1>0, <2>3
  <2>5. \/ late'
        \/ /\ guard[run].phase \notin {"off", "restore"}
           /\ guard[run].phase = "asleep" => guard[run].looks # 1
           /\ ~late
    BY <1>6 DEF Disarm, NoLookLeft
  <2>6. guard[run].phase = "asleep" => guard[run].looks > 0
    BY <2>4 DEF TypeInv
  <2>7. guard[run].looks \in Nat
    BY <2>4, BoundTypes DEF Guards
  <2> QED
    BY <2>1, <2>2, <2>3, <2>4, <2>5, <2>6, <2>7 DEF HasLine, GuardEnded
<1>7. CASE Pass
  BY <1>0, <1>7 DEF Pass, End, HasLine, GuardEnded
<1>8. ASSUME NEW outcome, outcome # "passed", End(outcome)
      PROVE  PassInv'
  BY <1>8, <1>a DEF End
<1>9. CASE Kill \/ RemoveState
  BY <1>9, <1>8 DEF Kill, RemoveState
<1>10. ASSUME NEW r \in Runs, Look(r)
       PROVE  PassInv'
  <2>1. ASSUME NEW q \in Runs
        PROVE  /\ guard'[q].disarm = guard[q].disarm
               /\ guard'[q].looks = guard[q].looks
               /\ guard[q].phase = "off" => guard'[q].phase = "off"
               /\ guard[q].disarm /\ guard[q].phase # "restore" =>
                    \/ guard'[q].phase = "off"
                    \/ guard'[q].phase = guard[q].phase
    BY <1>0, <1>10 DEF Look, Disarmed, Guards
  <2>2. UNCHANGED <<pc, run, result, file, late>>
    BY <1>10 DEF Look
  <2>3. HasLine' = HasLine
    BY <2>2 DEF HasLine
  <2>4. run \in Runs => (GuardEnded => GuardEnded')
    BY <2>1, <2>2 DEF GuardEnded
  <2>5. pc # "idle" \/ result = "passed" => run \in Runs
    BY <1>0
  <2>6. pc \in {"wait", "releasePam", "releaseRest"} =>
         late \/ /\ guard'[run].disarm
                 /\ guard'[run].phase # "restore"
                 /\ guard'[run].phase = "asleep" => guard'[run].looks > 1
    BY <1>0, <2>1
  <2>7. \A q \in Runs : q > run => guard'[q].phase = "off"
    BY <2>1
  <2> QED
    BY <2>2, <2>3, <2>4, <2>5, <2>6, <2>7
<1>11. ASSUME NEW r \in Runs, Restore(r)
       PROVE  PassInv'
  <2>1. UNCHANGED <<pc, run, result>>
    BY <1>11 DEF Restore
  <2>2. guard'[r].phase = "off" /\ \A q \in Runs \ {r} : guard'[q] = guard[q]
    BY <1>0, <1>11 DEF Restore, Guards
  <2>3. /\ \A q \in Runs : q > run => guard'[q].phase = "off"
        /\ pc \in BeforeGuard \ {"idle"} => GuardEnded'
    BY <1>0, <2>1, <2>2 DEF GuardEnded
  <2>4. CASE r # run
    <3>1. late'
      BY <1>11, <2>4 DEF Restore
    <3>2. pc # "idle" => (GuardEnded => GuardEnded')
      BY <1>0, <2>1, <2>2, <2>4 DEF GuardEnded
    <3> QED
      BY <2>1, <2>3, <3>1, <3>2
  <2>5. CASE r = run
    <3>1. guard[run].phase = "restore"
      BY <1>11, <2>5 DEF Restore
    <3>2. pc \notin {"arm", "guard"} /\ (result = "passed" => late)
      BY <3>1 DEF GuardEnded
    <3>3. late => late'
      BY <1>11 DEF Restore
    <3>4. GuardEnded'
      BY <2>1, <2>2, <2>5 DEF GuardEnded
    <3> QED
      BY <2>1, <2>3, <3>1, <3>2, <3>3, <3>4
  <2> QED
    BY <2>4, <2>5
<1>12. CASE Tick
  <2>1. ASSUME NEW q \in Runs
        PROVE  /\ guard'[q].disarm = guard[q].disarm
               /\ guard[q].phase # "asleep" => guard'[q] = guard[q]
               /\ guard[q].phase = "asleep" /\ guard[q].looks > 1 =>
                    guard'[q].phase = "look"
    <3>1. guard[q] \in Guards
      BY <1>0
    <3>2. CASE guard[q].phase = "asleep"
      <4>1. guard'[q] = Slept(guard[q])
        BY <1>12, <3>2 DEF Tick
      <4>2. /\ Slept(guard[q]).disarm = guard[q].disarm
            /\ guard[q].looks > 1 => Slept(guard[q]).phase = "look"
        BY <3>1, BoundTypes DEF Slept, Spent, WhenSpent, Guards
      <4> QED
        BY <3>2, <4>1, <4>2
    <3>3. CASE guard[q].phase # "asleep"
      BY <1>12, <3>3 DEF Tick
    <3> QED
      BY <3>2, <3>3
  <2>2. UNCHANGED <<pc, run, result, file, late>>
    BY <1>12 DEF Tick
  <2>3. HasLine' = HasLine
    BY <2>2 DEF HasLine
  <2>4. \A q \in Runs : guard[q].phase = "off" => guard'[q].phase = "off"
    BY <2>1
  <2>5. run \in Runs => (GuardEnded => GuardEnded')
    BY <2>2, <2>4 DEF GuardEnded
  <2>6. result = "passed" => run \in Runs
    OBVIOUS
  <2>7. pc \in {"wait", "releasePam", "releaseRest"} =>
         late \/ /\ guard'[run].disarm
                 /\ guard'[run].phase # "restore"
                 /\ guard'[run].phase = "asleep" => guard'[run].looks > 1
    BY <1>0, <2>1
  <2> QED
    BY <1>0, <2>2, <2>3, <2>4, <2>5, <2>6, <2>7
<1>13. CASE Abort \/ CopyBack \/ WaitInRollback \/ RestorePam \/ RemoveRuntime
  BY <1>13, <1>a DEF Abort, CopyBack, WaitInRollback, RestorePam,
                     RemoveRuntime, Step, InstallSteps
<1>14. CASE Trigger
  <2>1. \A r \in Runs : guard'[r].phase = guard[r].phase
    BY <1>0, <1>14 DEF Trigger, Guards
  <2> QED
    BY <1>14, <2>1, <1>a DEF Trigger, Step
<1>15. CASE UndoRuntime
  BY <1>15, <1>a, <1>8 DEF UndoRuntime, Step
<1>16. CASE UNCHANGED vars
  BY <1>16 DEF vars, HasLine, GuardEnded
<1> QED
  BY <1>1, <1>2, <1>3, <1>4, <1>5, <1>6, <1>7, <1>9, <1>10, <1>11, <1>12, <1>13,
     <1>14, <1>15, <1>16
  DEF Next, Install, Rollback, Uninstall, Guard, Finished

-----------------------------------------------------------------------------
(* What the specification guarantees.                                      *)

(***************************************************************************)
(* Every variable keeps its type, for any number of scripts.               *)
(***************************************************************************)
THEOREM TypeCorrect == Spec => []TypeOK
<1>1. TypeInv => TypeOK
  BY DEF TypeInv
<1> QED
  BY <1>1, TypeInit, TypeStep, PTL DEF Spec

(***************************************************************************)
(* The rollback reaches the wrapper only with sudo's rules restored,       *)
(* whenever it started and whatever the guards of earlier runs do.         *)
(***************************************************************************)
THEOREM RollbackIsComplete == Spec => []RollbackRestores
<1>1. RollbackInv => RollbackRestores
  BY DEF RollbackInv
<1> QED
  BY <1>1, TypeInit, TypeStep, RollbackInit, RollbackStep, PTL DEF Spec

(***************************************************************************)
(* A failed installation leaves the runtime it found, at whichever command *)
(* it failed, when it could use sudo.                                      *)
(***************************************************************************)
THEOREM FailureIsUndone == Spec => []FailureRestoresRuntime
<1>1. FailureInv => FailureRestoresRuntime
  BY DEF FailureInv
<1> QED
  BY <1>1, TypeInit, TypeStep, FailureInit, FailureStep, PTL DEF Spec

(***************************************************************************)
(* A passed installation has its line, if the guard was disarmed with a    *)
(* look left and no guard of an earlier run wrote in between.              *)
(***************************************************************************)
THEOREM PassIsKept == Spec => []PassKeepsLine
<1>1. PassInv => PassKeepsLine
  BY DEF PassInv, PassKeepsLine, HasLine
<1> QED
  BY <1>1, TypeInit, TypeStep, PassInit, PassStep, PTL DEF Spec

-----------------------------------------------------------------------------
(***************************************************************************)
(* The PAM module, for any number of threads, any locales and any number   *)
(* of calls.                                                               *)
(*                                                                         *)
(* The lock is held by the thread that is between lock and unlock.         *)
(***************************************************************************)
LockInv == \A t \in Threads : where[t] \in InsideLock <=> mutex = t

(***************************************************************************)
(* What a call may leave in the process: the application's locale, or "C"  *)
(* when a copy of it was not made or not taken.                            *)
(***************************************************************************)
Left(l) == l = wanted \/ ((unsaved \/ refused) /\ l = "C")

(***************************************************************************)
(* It is in the process while nobody holds the lock, and in the holder's   *)
(* copy once it has one.  In between the process may be in "C".            *)
(***************************************************************************)
LocaleInv ==
    ~raced =>
        /\ mutex = "nobody" => Left(locale)
        /\ \A t \in Threads :
              /\ where[t] \in InsideLock => locale = "C" \/ Left(locale)
              /\ where[t] \in {"save", "unlock"} => Left(locale)
              /\ where[t] \in InsideLock \ {"save", "unlock"} =>
                    Left(saved[t]) \/ (unsaved /\ saved[t] = "NULL")

(***************************************************************************)
(* From setlocale(LC_ALL, "C") to the end of the entry point the process   *)
(* has this locale.                                                        *)
(***************************************************************************)
EnglishInv ==
    sets = 0 =>
        /\ shown \subseteq {"generic", "thumb"}
        /\ \A t \in Threads :
              where[t] \in {"libpam", "module", "replace", "entry"} => locale = "C"

PamInv == PamTypeOK /\ LockInv /\ LocaleInv /\ NoProxyOutlivesCall /\ EnglishInv

LEMMA PamBounds == MaxCalls \in Nat /\ MaxSets \in Nat
BY PamProxyAssumption

LEMMA PamNames == "C" \in Locales /\ "NULL" \notin Locales
BY PamProxyAssumption

LEMMA NoThreads == "nobody" \notin Threads /\ "app" \notin Threads
BY PamProxyAssumption

LEMMA PamInitially == PamInit => PamInv
<1> SUFFICES ASSUME PamInit PROVE PamInv
  OBVIOUS
<1>1. PamTypeOK
  <2>1. raced \in BOOLEAN /\ unsaved \in BOOLEAN /\ refused \in BOOLEAN
    BY Zenon DEF PamInit
  <2> QED
    BY <2>1, PamBounds DEF PamInit, PamTypeOK, Steps, Results
<1>2. LockInv /\ LocaleInv /\ NoProxyOutlivesCall /\ EnglishInv
  BY NoThreads DEF PamInit, LockInv, LocaleInv, Left, NoProxyOutlivesCall,
       EnglishInv, InsideLock
<1> QED
  BY <1>1, <1>2 DEF PamInv

LEMMA PamTypeStep == PamTypeOK /\ [PamNext]_pamVars => PamTypeOK'
<1> SUFFICES ASSUME PamTypeOK, [PamNext]_pamVars PROVE PamTypeOK'
  OBVIOUS
<1> USE DEF PamTypeOK, Steps, InsideLock, Results, Prompts, English, Libraries,
        Goto, localeVars, history
<1>1. ASSUME NEW t \in Threads, Call(t) PROVE PamTypeOK'
  BY <1>1, PamBounds DEF Call
<1>2. ASSUME NEW t \in Threads, Ask(t) PROVE PamTypeOK'
  BY <1>2 DEF Ask, AskedIn, ProxyPrompt
<1>3. ASSUME NEW t \in Threads, CheckModule(t) PROVE PamTypeOK'
  BY <1>3 DEF CheckModule
<1>4. ASSUME NEW t \in Threads, Lock(t) PROVE PamTypeOK'
  BY <1>4, NoThreads DEF Lock, TakeMutex
<1>5. ASSUME NEW t \in Threads, SaveLocale(t) PROVE PamTypeOK'
  <2>1. unsaved' \in BOOLEAN
    BY <1>5, Zenon DEF SaveLocale
  <2>2. saved' \in [Threads -> Locales \cup {"NULL"}]
    BY <1>5 DEF SaveLocale
  <2> QED
    BY <1>5, <2>1, <2>2 DEF SaveLocale
<1>6. ASSUME NEW t \in Threads, ToEnglish(t) PROVE PamTypeOK'
  BY <1>6, PamNames DEF ToEnglish
<1>7. ASSUME NEW t \in Threads, LoadPam(t) PROVE PamTypeOK'
  BY <1>7 DEF LoadPam
<1>8. ASSUME NEW t \in Threads, LoadModule(t) PROVE PamTypeOK'
  BY <1>8 DEF LoadModule
<1>9. ASSUME NEW t \in Threads, ReplaceConversation(t) PROVE PamTypeOK'
  BY <1>9 DEF ReplaceConversation
<1>10. ASSUME NEW t \in Threads, EntryReturns(t) PROVE PamTypeOK'
  BY <1>10 DEF EntryReturns
<1>11. ASSUME NEW t \in Threads, GiveBackConversation(t) PROVE PamTypeOK'
  BY <1>11 DEF GiveBackConversation, MustGiveBack
<1>12. ASSUME NEW t \in Threads, Unload(t) PROVE PamTypeOK'
  BY <1>12 DEF Unload
<1>13. ASSUME NEW t \in Threads, RestoreLocale(t) PROVE PamTypeOK'
  <2>1. refused' \in BOOLEAN
    BY <1>13, Zenon DEF RestoreLocale
  <2>2. locale' \in Locales
    BY <1>13, PamNames DEF RestoreLocale
  <2> QED
    BY <1>13, <2>1, <2>2 DEF RestoreLocale
<1>14. ASSUME NEW t \in Threads, Unlock(t) PROVE PamTypeOK'
  BY <1>14, NoThreads DEF Unlock, ReleaseMutex
<1>15. ASSUME NEW l \in Locales, SetLocale(l) PROVE PamTypeOK'
  <2>1. raced' \in BOOLEAN /\ unsaved' \in BOOLEAN /\ refused' \in BOOLEAN
    BY <1>15, Zenon DEF SetLocale
  <2>2. sets' \in 0..MaxSets
    BY <1>15, PamBounds DEF SetLocale
  <2> QED
    BY <1>15, <2>1, <2>2, Zenon DEF SetLocale
<1>16. CASE UNCHANGED pamVars
  BY <1>16 DEF pamVars
<1> QED
  BY <1>1, <1>2, <1>3, <1>4, <1>5, <1>6, <1>7, <1>8, <1>9, <1>10, <1>11, <1>12, <1>13,
     <1>14, <1>15, <1>16 DEF PamNext, Proceed, Setup, Cleanup, AllReturned

LEMMA PamStep == PamInv /\ [PamNext]_pamVars => PamInv'
<1> SUFFICES ASSUME PamInv, [PamNext]_pamVars
             PROVE  (LockInv /\ LocaleInv /\ NoProxyOutlivesCall /\ EnglishInv)'
  BY PamTypeStep DEF PamInv
<1> DEFINE Kept == (LockInv /\ LocaleInv /\ NoProxyOutlivesCall /\ EnglishInv)'
<1> USE DEF PamInv, PamTypeOK, LockInv, LocaleInv, Left, NoProxyOutlivesCall,
        EnglishInv, Steps, InsideLock, Goto, localeVars, history
<1>1. ASSUME NEW t \in Threads, Call(t) PROVE Kept
  BY <1>1, PamBounds DEF Call
<1>2. ASSUME NEW t \in Threads, Ask(t) PROVE Kept
  BY <1>2 DEF Ask, AskedIn, English, ProxyPrompt, IsPlacementPrompt
<1>3. ASSUME NEW t \in Threads, CheckModule(t) PROVE Kept
  BY <1>3 DEF CheckModule
<1>4. ASSUME NEW t \in Threads, Lock(t) PROVE Kept
  BY <1>4, NoThreads DEF Lock, TakeMutex
<1>5. ASSUME NEW t \in Threads, SaveLocale(t) PROVE Kept
  BY <1>5 DEF SaveLocale
<1>6. ASSUME NEW t \in Threads, ToEnglish(t) PROVE Kept
  <2>1. LockInv'
    BY <1>6 DEF ToEnglish
  <2>2. LocaleInv'
    BY <1>6, NoThreads DEF ToEnglish
  <2>3. NoProxyOutlivesCall'
    BY <1>6 DEF ToEnglish
  <2>4. EnglishInv'
    BY <1>6 DEF ToEnglish
  <2> QED
    BY <2>1, <2>2, <2>3, <2>4
<1>7. ASSUME NEW t \in Threads, LoadPam(t) PROVE Kept
  BY <1>7 DEF LoadPam
<1>8. ASSUME NEW t \in Threads, LoadModule(t) PROVE Kept
  BY <1>8 DEF LoadModule
<1>9. ASSUME NEW t \in Threads, ReplaceConversation(t) PROVE Kept
  BY <1>9 DEF ReplaceConversation
<1>10. ASSUME NEW t \in Threads, EntryReturns(t) PROVE Kept
  BY <1>10 DEF EntryReturns
<1>11. ASSUME NEW t \in Threads, GiveBackConversation(t) PROVE Kept
  BY <1>11 DEF GiveBackConversation, MustGiveBack
<1>12. ASSUME NEW t \in Threads, Unload(t) PROVE Kept
  BY <1>12 DEF Unload
<1>13. ASSUME NEW t \in Threads, RestoreLocale(t) PROVE Kept
  BY <1>13, PamNames, NoThreads DEF RestoreLocale
<1>14. ASSUME NEW t \in Threads, Unlock(t) PROVE Kept
  BY <1>14, NoThreads DEF Unlock, ReleaseMutex
<1>15. ASSUME NEW l \in Locales, SetLocale(l) PROVE Kept
  <2>1. LockInv'
    BY <1>15 DEF SetLocale
  <2>2. LocaleInv'
    <3>1. raced' <=> mutex # "nobody"
      BY <1>15, Zenon DEF SetLocale
    <3>2. mutex = "nobody" => \A t \in Threads : where[t] \notin InsideLock
      BY NoThreads
    <3> QED
      BY <1>15, <3>1, <3>2 DEF SetLocale
  <2>3. NoProxyOutlivesCall'
    BY <1>15 DEF SetLocale
  <2>4. EnglishInv'
    BY <1>15, PamBounds DEF SetLocale
  <2> QED
    BY <2>1, <2>2, <2>3, <2>4
<1>16. CASE UNCHANGED pamVars
  BY <1>16 DEF pamVars
<1> QED
  BY <1>1, <1>2, <1>3, <1>4, <1>5, <1>6, <1>7, <1>8, <1>9, <1>10, <1>11, <1>12, <1>13,
     <1>14, <1>15, <1>16 DEF PamNext, Proceed, Setup, Cleanup, AllReturned

LEMMA PamInvariant == PamSpec => []PamInv
BY PamInitially, PamStep, PTL DEF PamSpec

(***************************************************************************)
(* The variables of the wrapper keep their types.                          *)
(***************************************************************************)
THEOREM PamTypeCorrect == PamSpec => []PamTypeOK
<1>1. PamInv => PamTypeOK
  BY DEF PamInv
<1> QED
  BY <1>1, PamInvariant, PTL

(***************************************************************************)
(* However many threads authenticate at once and wherever their calls      *)
(* fail, while none of them is inside call_real the process has the locale *)
(* the application set last, unless it set it during a call.  A copy that  *)
(* could not be made, or that setlocale did not take, may leave it in "C", *)
(* and in no other.                                                        *)
(***************************************************************************)
THEOREM LocaleIsReturned == PamSpec => []LocaleReturned
<1>1. PamInv => LocaleReturned
  BY DEF PamInv, LocaleInv, Left, LocaleReturned
<1> QED
  BY <1>1, PamInvariant, PTL

(***************************************************************************)
(* No handle's conversation points into a call of call_real that is over,  *)
(* unless pam_set_item failed to take the original one back.               *)
(***************************************************************************)
THEOREM ProxyDiesWithCall == PamSpec => []NoProxyOutlivesCall
<1>1. PamInv => NoProxyOutlivesCall
  BY DEF PamInv
<1> QED
  BY <1>1, PamInvariant, PTL

(***************************************************************************)
(* Until the application sets a locale itself, every placement prompt that *)
(* reaches it is the generic one or a thumb's, whatever locale the process *)
(* began with and whatever other calls begin, end or fail to restore.      *)
(***************************************************************************)
THEOREM PromptsNameThumbsOnly == PamSpec => []OnlyThumbsAreNamed
<1>1. PamInv => OnlyThumbsAreNamed
  BY DEF PamInv, EnglishInv, OnlyThumbsAreNamed
<1> QED
  BY <1>1, PamInvariant, PTL

=============================================================================
