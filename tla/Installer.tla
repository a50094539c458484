------------------------------ MODULE Installer ------------------------------
(***************************************************************************)
(* install.sh from its first change of the system on, its rollback, the    *)
(* guard process that puts sudo's PAM file back when the live test does    *)
(* not end well, and uninstall.sh.  Scripts are started one after another; *)
(* a guard may outlive the run that started it.  A script can be stopped   *)
(* between any two commands: Abort is a command that fails, or a signal    *)
(* with its EXIT trap; Kill ends it without one.                           *)
(*                                                                         *)
(* A PAM file is its text (the vendor's or the administrator's), the       *)
(* managed block in it and its owner.  Time passes in ticks, one per look  *)
(* of the guard.  A sudo timestamp, once fresh, outlasts a run.  The build *)
(* before the first change and the PAM service of the preflight are left   *)
(* out: nothing here reads what they change.                               *)
(*                                                                         *)
(* Definitions named ...Mutant are wrong variants of the definition after  *)
(* them, kept to show that the properties notice the difference.           *)
(***************************************************************************)
EXTENDS Naturals

CONSTANTS Scripts,     \* bound: scripts started
          GuardLooks,  \* looks of the guard before it restores: 180
          Settle,      \* ticks of the sleep before the live test: 6
          LiveLimit    \* ticks of the timeout of the live test: 220

ASSUME InstallerAssumption ==
    /\ Scripts \in Nat \ {0}
    /\ GuardLooks \in Nat \ {0}
    /\ Settle \in Nat
    /\ LiveLimit \in Nat

Runs    == 1..Scripts
PamFile == [text : {"vendor", "own"}, block : {"none", "old", "beta"},
            owner : {"root", "user"}]
Absent  == [text |-> "absent", block |-> "none", owner |-> "root"]
Vendor  == [text |-> "vendor", block |-> "none", owner |-> "root"]
Metas   == {"missing", "existed", "new"}
Parts   == {"link", "dropin", "wrapper"}

VARIABLES
    pc,      \* the next command of the running script, or "idle"
    run,     \* scripts started
    result,  \* how the latest script ended
    file,    \* sudo: /etc/pam.d/sudo; backup: the copy in the work directory;
             \* saved, meta: what is kept for uninstall; former, formerMeta:
             \* what the previous generation of the installer kept
    runtime, \* the run that installed each part, 0 if the part is missing
    shell,   \* the variables of the running script
    guard,   \* the guard of each run, with its two flag files
    found,   \* the runtime at the start of the latest installation
    late     \* the guard was disarmed too late, or another one interfered

vars == <<pc, run, result, file, runtime, shell, guard, found, late>>

InstallSteps   == {"save", "link", "dropin", "saveWrapper", "wrapper", "backup",
                   "owner", "state", "meta", "pam", "arm", "guard", "settle",
                   "live", "disarm", "wait", "releasePam", "releaseRest"}
RollbackSteps  == {"trigger", "copy", "waitGuard", "undoWrapper", "undoDropin",
                   "undoLink"}
UninstallSteps == {"unPam", "unRuntime", "unState"}

Files  == [sudo : PamFile \cup {Absent}, backup : PamFile \cup {Absent},
           saved : PamFile \cup {Absent}, meta : Metas,
           former : PamFile, formerMeta : Metas]
Shells == [before : [Parts -> 0..Scripts], armed : SUBSET Parts,
           pamArmed : BOOLEAN, guarded : BOOLEAN, credential : BOOLEAN,
           timer : 0..(Settle + LiveLimit)]
Guards == [phase : {"off", "look", "asleep", "restore"}, looks : 0..GuardLooks,
           disarm : BOOLEAN, trigger : BOOLEAN]

TypeOK ==
    /\ pc \in InstallSteps \cup RollbackSteps \cup UninstallSteps \cup {"idle"}
    /\ run \in 0..Scripts
    /\ result \in {"none", "passed", "failed", "failedWithoutSudo",
                  "killed", "uninstalled"}
    /\ file \in Files
    /\ runtime \in [Parts -> 0..Scripts]
    /\ found \in [Parts -> 0..Scripts]
    /\ shell \in Shells
    /\ guard \in [Runs -> Guards]
    /\ late \in BOOLEAN

Nothing == [p \in Parts |-> 0]

FreshShell == [before |-> Nothing, armed |-> {}, pamArmed |-> FALSE,
               guarded |-> FALSE, credential |-> TRUE, timer |-> 0]

(***************************************************************************)
(* A system without the driver, with or without a sudo file of its own, or *)
(* one that still has the block of the previous generation, and may have   *)
(* what that generation kept for its own uninstall.                        *)
(***************************************************************************)
Init ==
    /\ pc = "idle" /\ run = 0 /\ result = "none"
    /\ \E sudo \in {Absent, [Vendor EXCEPT !.text = "own"],
                    [Vendor EXCEPT !.text = "own", !.block = "old"]},
          meta \in {"missing", "existed"} :
          /\ meta = "existed" => sudo.block = "old"
          /\ file = [sudo |-> sudo, backup |-> Absent,
                     saved |-> Absent, meta |-> "missing",
                     former |-> [Vendor EXCEPT !.text = "own"],
                     formerMeta |-> meta]
    /\ runtime = Nothing /\ found = Nothing
    /\ shell = FreshShell
    /\ guard = [r \in Runs |-> [phase |-> "off", looks |-> 0,
                                disarm |-> FALSE, trigger |-> FALSE]]
    /\ late = FALSE

Step(from, to) == pc = from /\ pc' = to /\ UNCHANGED <<run, result, found>>

Start(first) ==
    /\ pc = "idle" /\ run < Scripts
    /\ pc' = first /\ run' = run + 1 /\ result' = "none"
    /\ found' = runtime
    /\ UNCHANGED <<file, runtime, shell, guard, late>>

(***************************************************************************)
(* The variables of a shell go with it.                                    *)
(***************************************************************************)
End(outcome) ==
    /\ pc' = "idle"
    /\ result' = outcome
    /\ shell' = FreshShell
    /\ UNCHANGED <<run, found, guard, late>>

-----------------------------------------------------------------------------
(* install.sh                                                              *)

UnsavedMutant(parts) == [shell EXCEPT !.armed = @ \cup parts]

SavedAndArmed(parts) ==
    [shell EXCEPT !.armed  = @ \cup parts,
                  !.before = [p \in Parts |-> IF p \in parts THEN runtime[p] ELSE @[p]]]

Save(from, to, parts) ==
    /\ Step(from, to)
    /\ shell' = SavedAndArmed(parts)
    /\ UNCHANGED <<file, runtime, guard, late>>

InstallPart(part, to) ==
    /\ Step(part, to)
    /\ runtime' = [runtime EXCEPT ![part] = run]
    /\ UNCHANGED <<file, shell, guard, late>>

(***************************************************************************)
(* Once fprintd has found the device, and a finger has been verified with  *)
(* the new library, the PAM module follows.                                *)
(***************************************************************************)
InstallRuntime ==
    \/ Save("save", "link", {"link", "dropin"})
    \/ InstallPart("link", "dropin")
    \/ InstallPart("dropin", "saveWrapper")
    \/ Save("saveWrapper", "wrapper", {"wrapper"})
    \/ InstallPart("wrapper", "backup")

Source == IF file.sudo # Absent THEN file.sudo ELSE Vendor

(***************************************************************************)
(* The shell writes the copy, so it belongs to the user.                   *)
(***************************************************************************)
TakeBackup ==
    /\ Step("backup", "owner")
    /\ file' = [file EXCEPT !.backup = [Source EXCEPT !.owner = "user"]]
    /\ UNCHANGED <<runtime, shell, guard, late>>

CheckOwner ==
    /\ Step("owner", "state")
    /\ Source.owner = "root"
    /\ UNCHANGED <<file, runtime, shell, guard, late>>

Stripped(f) == [f EXCEPT !.owner = "root", !.block = "none"]

Candidate(f) == [f EXCEPT !.owner = "root", !.block = "beta"]

(***************************************************************************)
(* What uninstall will put back is kept once, file first: that of the      *)
(* previous generation, if it kept something, else the file without block. *)
(***************************************************************************)
SaveState ==
    /\ file' = IF file.saved # Absent THEN file
               ELSE [file EXCEPT !.saved = IF file.formerMeta # "missing"
                                           THEN file.former
                                           ELSE Stripped(file.backup)]
    /\ Step("state", IF file.saved # Absent THEN "pam" ELSE "meta")
    /\ UNCHANGED <<runtime, shell, guard, late>>

SaveMeta ==
    /\ Step("meta", "pam")
    /\ file' = [file EXCEPT !.meta = IF file.formerMeta # "missing" THEN file.formerMeta
                                     ELSE IF file.sudo # Absent THEN "existed"
                                     ELSE "new"]
    /\ UNCHANGED <<runtime, shell, guard, late>>

InstallPam ==
    /\ Step("pam", "arm")
    /\ file' = [file EXCEPT !.sudo = Candidate(file.backup)]
    /\ late' = FALSE
    /\ UNCHANGED <<runtime, shell, guard>>

ArmPam ==
    /\ Step("arm", "guard")
    /\ shell' = [shell EXCEPT !.pamArmed = TRUE]
    /\ UNCHANGED <<file, runtime, guard, late>>

StartGuard ==
    /\ Step("guard", "settle")
    /\ shell' = [shell EXCEPT !.guarded = TRUE, !.timer = Settle]
    /\ guard' = [guard EXCEPT ![run] = [phase |-> "look", looks |-> GuardLooks,
                                        disarm |-> FALSE, trigger |-> FALSE]]
    /\ UNCHANGED <<file, runtime, late>>

(***************************************************************************)
(* sudo -k, after the sleep: until the live test succeeds, sudo -n fails.  *)
(***************************************************************************)
DropCredential ==
    /\ Step("settle", "live")
    /\ shell.timer = 0
    /\ shell' = [shell EXCEPT !.timer = LiveLimit, !.credential = FALSE]
    /\ UNCHANGED <<file, runtime, guard, late>>

(***************************************************************************)
(* sudo -v succeeded: with a finger, or with the password after it.        *)
(***************************************************************************)
LiveTest ==
    /\ Step("live", "disarm")
    /\ shell' = [shell EXCEPT !.credential = TRUE]
    /\ UNCHANGED <<file, runtime, guard, late>>

NoLookLeft(g) ==
    \/ g.phase \in {"off", "restore"}
    \/ g.phase = "asleep" /\ g.looks = 1

Disarm ==
    /\ Step("disarm", "wait")
    /\ guard' = [guard EXCEPT ![run].disarm = TRUE]
    /\ late' = (late \/ NoLookLeft(guard[run]))
    /\ UNCHANGED <<file, runtime, shell>>

GuardEnded == guard[run].phase = "off"

WaitForGuard ==
    /\ Step("wait", "releasePam")
    /\ GuardEnded
    /\ shell' = [shell EXCEPT !.guarded = FALSE]
    /\ UNCHANGED <<file, runtime, guard, late>>

ReleasePam ==
    /\ Step("releasePam", "releaseRest")
    /\ shell' = [shell EXCEPT !.pamArmed = FALSE]
    /\ UNCHANGED <<file, runtime, guard, late>>

Pass ==
    /\ pc = "releaseRest"
    /\ End("passed")
    /\ UNCHANGED <<file, runtime>>

Install ==
    \/ Start("save") \/ InstallRuntime
    \/ TakeBackup \/ CheckOwner \/ SaveState \/ SaveMeta
    \/ InstallPam \/ ArmPam \/ StartGuard
    \/ DropCredential \/ LiveTest \/ Disarm \/ WaitForGuard
    \/ ReleasePam \/ Pass

-----------------------------------------------------------------------------
(* The guard.                                                              *)

WrongFileMutant(g) == g.trigger
Disarmed(g) == g.disarm

Look(r) ==
    /\ guard[r].phase = "look"
    /\ guard' = [guard EXCEPT ![r].phase = IF Disarmed(guard[r]) THEN "off"
                                           ELSE IF guard[r].trigger THEN "restore"
                                           ELSE "asleep"]
    /\ UNCHANGED <<pc, run, result, file, runtime, shell, found, late>>

Restore(r) ==
    /\ guard[r].phase = "restore"
    /\ file' = [file EXCEPT !.sudo = file.backup]
    /\ guard' = [guard EXCEPT ![r].phase = "off"]
    /\ late' = (late \/ r # run)
    /\ UNCHANGED <<pc, run, result, runtime, shell, found>>

Spent(looks) == looks = 1

LeaveMutant == "off"
WhenSpent == "restore"

Slept(g) == [g EXCEPT !.looks = @ - 1,
                      !.phase = IF Spent(g.looks) THEN WhenSpent ELSE "look"]

(***************************************************************************)
(* A sleep of the guard.  Commands that only look at or touch a file take  *)
(* no tick, nor does the guard's look; the live test ends in time.         *)
(***************************************************************************)
Tick ==
    /\ \E r \in Runs : guard[r].phase = "asleep"
    /\ \A r \in Runs : guard[r].phase \in {"off", "asleep"}
    /\ pc \notin {"disarm", "releasePam", "releaseRest", "trigger", "copy"}
    /\ IF pc \in {"settle", "live"}
       THEN shell.timer > 0 /\ shell' = [shell EXCEPT !.timer = @ - 1]
       ELSE UNCHANGED shell
    /\ guard' = [r \in Runs |->
                   IF guard[r].phase = "asleep" THEN Slept(guard[r]) ELSE guard[r]]
    /\ UNCHANGED <<pc, run, result, file, runtime, found, late>>

-----------------------------------------------------------------------------
(* The end of a script before its end.                                     *)

Abort ==
    /\ pc \in InstallSteps
    /\ pc' = IF shell.pamArmed THEN "trigger" ELSE "undoWrapper"
    /\ UNCHANGED <<run, result, file, runtime, shell, guard, found, late>>

Kill ==
    /\ pc # "idle"
    /\ End("killed")
    /\ UNCHANGED <<file, runtime>>

Trigger ==
    /\ Step("trigger", "copy")
    /\ guard' = IF shell.guarded THEN [guard EXCEPT ![run].trigger = TRUE] ELSE guard
    /\ UNCHANGED <<file, runtime, shell, late>>

CopyBack ==
    /\ Step("copy", "waitGuard")
    /\ file' = IF shell.credential THEN [file EXCEPT !.sudo = file.backup] ELSE file
    /\ UNCHANGED <<runtime, shell, guard, late>>

Waited == shell.guarded => GuardEnded

WaitInRollback ==
    /\ Step("waitGuard", "undoWrapper")
    /\ Waited
    /\ UNCHANGED <<file, runtime, shell, guard, late>>

Undo(part) ==
    runtime' = IF part \in shell.armed /\ shell.credential
               THEN [runtime EXCEPT ![part] = shell.before[part]]
               ELSE runtime

UndoRuntime ==
    \/ /\ Undo("wrapper") /\ Step("undoWrapper", "undoDropin")
       /\ UNCHANGED <<file, shell, guard, late>>
    \/ /\ Undo("dropin") /\ Step("undoDropin", "undoLink")
       /\ UNCHANGED <<file, shell, guard, late>>
    \/ /\ Undo("link") /\ pc = "undoLink"
       /\ End(IF shell.credential THEN "failed" ELSE "failedWithoutSudo")
       /\ UNCHANGED file

Rollback == Trigger \/ CopyBack \/ WaitInRollback \/ UndoRuntime

-----------------------------------------------------------------------------
(* uninstall.sh                                                            *)

RestorePam ==
    /\ Step("unPam", "unRuntime")
    /\ file.meta = "existed" => file.saved # Absent
    /\ file' = CASE file.meta = "missing" -> file
                 [] file.meta = "existed" -> [file EXCEPT !.sudo = file.saved]
                 [] file.meta = "new"     -> [file EXCEPT !.sudo = Absent]
    /\ UNCHANGED <<runtime, shell, guard, late>>

RemoveRuntime ==
    /\ Step("unRuntime", "unState")
    /\ runtime' = Nothing
    /\ UNCHANGED <<file, shell, guard, late>>

RemoveState ==
    /\ pc = "unState"
    /\ file' = [file EXCEPT !.saved = Absent, !.meta = "missing"]
    /\ End("uninstalled")
    /\ UNCHANGED runtime

Uninstall == Start("unPam") \/ RestorePam \/ RemoveRuntime \/ RemoveState

-----------------------------------------------------------------------------
Finished ==
    /\ pc = "idle" /\ run = Scripts
    /\ \A r \in Runs : guard[r].phase = "off"
    /\ UNCHANGED vars

Guard(r) == Look(r) \/ Restore(r)

Next ==
    \/ Install \/ Rollback \/ Uninstall
    \/ Abort \/ Kill
    \/ \E r \in Runs : Guard(r)
    \/ Tick
    \/ Finished

(***************************************************************************)
(* The guard runs and time passes; nobody has to start or finish a script. *)
(***************************************************************************)
Fairness ==
    /\ \A r \in Runs : WF_vars(Guard(r))
    /\ WF_vars(Tick)

Spec == Init /\ [][Next]_vars /\ Fairness
-----------------------------------------------------------------------------
(* What an administrator relies on.                                        *)

SameRules(f, g) == f.text = g.text /\ f.block = g.block

(***************************************************************************)
(* A rollback that found the PAM file armed goes on to the wrapper only    *)
(* when the rules of sudo are those of the backup again, although sudo -n  *)
(* may have no timestamp and the copy is then the guard's to make.         *)
(***************************************************************************)
RollbackRestores ==
    pc \in {"undoWrapper", "undoDropin", "undoLink"} /\ shell.pamArmed
        => SameRules(file.sudo, file.backup)

(***************************************************************************)
(* A failed installation, at whichever command, leaves the runtime that it *)
(* found, if its sudo timestamp was still good.                            *)
(***************************************************************************)
FailureRestoresRuntime == result = "failed" => runtime = found

(***************************************************************************)
(* Whatever ended the script that started it, a guard that nobody disarmed *)
(* brings the rules of sudo back.                                          *)
(***************************************************************************)
GuardRestores ==
    \A r \in Runs :
        (guard[r].phase # "off" /\ ~guard[r].disarm /\ pc = "idle")
            ~> (SameRules(file.sudo, file.backup) \/ pc # "idle")

(***************************************************************************)
(* If the guard had a look left when it was disarmed, and no guard of an   *)
(* earlier run interfered, a passed installation has its line.             *)
(***************************************************************************)
PassKeepsLine == result = "passed" => file.sudo.block = "beta" \/ late

-----------------------------------------------------------------------------
(* What the scripts say of themselves.                                     *)

(***************************************************************************)
(* install.sh:491 ends a passed installation with sudo_fingerprint:1.      *)
(***************************************************************************)
PassMeansLine == result = "passed" => file.sudo.block = "beta"

(***************************************************************************)
(* README.md:355 and uninstall.sh:62: uninstalling removes the managed PAM *)
(* integration; fresh-reset.sh:65-72 asserts it.                           *)
(***************************************************************************)
UninstallRemovesLine == result = "uninstalled" => file.sudo.block # "beta"

(***************************************************************************)
(* install.sh:399 takes it that /etc/pam.d/sudo is root's, whatever was    *)
(* installed or rolled back before.                                        *)
(***************************************************************************)
SudoFileIsRoots == file.sudo.owner = "root"
=============================================================================
