------------------------------ MODULE Updates -------------------------------
(***************************************************************************)
(* Self-update: the controller of the desktop client                       *)
(* (internal/gui/updates) checks for a release, downloads its archive and  *)
(* starts a helper that waits for the client to exit and replaces the      *)
(* installed files (pkg/updater); `ntwire update` installs by itself.      *)
(* Versions are numbers, 0 stands for none.  Signatures and hashes are     *)
(* good or the step fails.  Two renames replace the files, and a process   *)
(* can die between any two steps.                                          *)
(***************************************************************************)
EXTENDS Naturals

CONSTANTS
  MaxVersion,   \* bound on published versions
  Installers,   \* processes that install
  MaxRuns       \* bound on launches of the desktop client

VARIABLES
  product,      \* "ntwire" or "ntwire-gui", the files this is about
  latest,       \* the newest published release
  gui,          \* the running client: its state, version and process number
  ctl,          \* Controller: status and cache
  stateFile,    \* state.json
  archives,     \* versions whose archive is complete in the cache directory
  target,       \* the version of the installed files, 0 while they are gone
  previous,     \* .previous-<version> and what it holds
  lock,         \* the .update-lock directory exists
  inst,         \* the installers
  result        \* result.json

vars == <<product, latest, gui, ctl, stateFile, archives, target, previous,
          lock, inst, result>>

guiVars == <<gui, ctl, stateFile, archives>>

fileVars == <<target, previous, lock>>
-----------------------------------------------------------------------------
NoCache == [release |-> 0, archive |-> 0]

Idle == [busy |-> "none", release |-> 0, archive |-> 0, ready |-> FALSE, started |-> FALSE]

NoJob == [pc |-> "none", ver |-> 0, cur |-> 0, image |-> 0, parent |-> 0]

Newer(v, w) == v > w

Init ==
  /\ product \in {"ntwire", "ntwire-gui"}
  /\ latest = 1 /\ target = 1 /\ previous = [c \in {} |-> 0] /\ lock = FALSE
  /\ gui = [up |-> "no", cur |-> 0, run |-> 0] /\ ctl = Idle
  /\ stateFile = NoCache /\ archives = {}
  /\ inst = [i \in Installers |-> NoJob] /\ result = "none"

Publish ==
  /\ latest < MaxVersion
  /\ latest' = latest + 1
  /\ UNCHANGED <<product, inst, result>> /\ UNCHANGED guiVars /\ UNCHANGED fileVars
-----------------------------------------------------------------------------
(* Controller.                                                             *)

Saved(c) == [release |-> c.release, archive |-> c.archive]

(* saveLocked: an atomic rename; a failure is reported and nothing else.   *)
Save(c) == stateFile' \in {Saved(c), stateFile}

(* New: the cached release counts while it is newer than the program, its  *)
(* archive while it still verifies; the result of the last installation is *)
(* read and removed.                                                       *)
GuiStarts ==
  LET r == stateFile.release
      new == Newer(r, target)
  IN
  /\ product = "ntwire-gui" /\ gui.up = "no" /\ target /= 0 /\ gui.run < MaxRuns
  /\ gui' = [up |-> "yes", cur |-> target, run |-> gui.run + 1]
  /\ ctl' = IF new
              THEN [Idle EXCEPT !.release = r, !.archive = stateFile.archive,
                                !.ready = stateFile.archive = r /\ r \in archives]
              ELSE Idle
  /\ result' = "none"
  /\ UNCHANGED <<product, latest, stateFile, archives, inst>> /\ UNCHANGED fileVars

(* begin: one operation at a time, and none once a helper was started.     *)
Begin(work) ==
  /\ gui.up = "yes" /\ ctl.busy = "none" /\ ~ctl.started
  /\ ctl' = [ctl EXCEPT !.busy = work]
  /\ UNCHANGED <<product, latest, gui, stateFile, archives, inst, result>> /\ UNCHANGED fileVars

Check == Begin("checking")

(* The answer: a failure, no newer release, or one; another one than the   *)
(* cached makes the archive worthless.                                     *)
CheckEnds ==
  /\ gui.up /= "no" /\ ctl.busy = "checking"
  /\ \/ ctl' = [ctl EXCEPT !.busy = "none"] /\ UNCHANGED stateFile
     \/ /\ gui.up = "yes"
        /\ ctl' = IF Newer(latest, gui.cur)
                    THEN IF ctl.release = latest
                           THEN [ctl EXCEPT !.busy = "none"]
                           ELSE [ctl EXCEPT !.busy = "none", !.release = latest,
                                            !.archive = 0, !.ready = FALSE]
                    ELSE [ctl EXCEPT !.busy = "none", !.release = 0, !.archive = 0, !.ready = FALSE]
        /\ Save(ctl')
  /\ UNCHANGED <<product, latest, gui, archives, inst, result>> /\ UNCHANGED fileVars

(* By hand, or after a check that found a release when updates are         *)
(* automatic.                                                              *)
Download == ctl.release /= 0 /\ Begin("downloading")

(* A verified archive is renamed into place; the cache that names it must  *)
(* be saved for it to count.                                               *)
DownloadEnds ==
  /\ gui.up /= "no" /\ ctl.busy = "downloading"
  /\ \/ ctl' = [ctl EXCEPT !.busy = "none"] /\ UNCHANGED <<archives, stateFile>>
     \/ /\ gui.up = "yes"
        /\ archives' = archives \cup {ctl.release}
        /\ \E saved \in BOOLEAN :
             /\ ctl' = [ctl EXCEPT !.busy = "none", !.archive = ctl.release, !.ready = saved]
             /\ stateFile' = IF saved THEN Saved(ctl') ELSE stateFile
  /\ UNCHANGED <<product, latest, gui, inst, result>> /\ UNCHANGED fileVars

(* install and StartHelper: the helper runs a copy of the installed image, *)
(* or of the running one where os.Executable follows it (Linux), as long   *)
(* as the previous installation has it.                                    *)
Launch(i) ==
  /\ inst[i] = NoJob
  /\ \E image \in ({target} \ {0}) \cup ({gui.cur} \cap DOMAIN previous) :
       inst' = [inst EXCEPT ![i] = [pc |-> "check", ver |-> ctl.release, cur |-> gui.cur,
                                     image |-> image, parent |-> gui.run]]
  /\ result' = "empty"

Installable == ctl.ready /\ ctl.release /= 0 /\ ctl.busy = "none" /\ ~ctl.started

InstallOnExit(i) ==
  /\ gui.up = "yes" /\ Installable
  /\ Launch(i)
  /\ ctl' = [ctl EXCEPT !.started = TRUE]
  /\ UNCHANGED <<product, latest, gui, stateFile, archives>> /\ UNCHANGED fileVars

(* StartHelper fails, perhaps when the result file is already there.       *)
LaunchFails ==
  /\ gui.up = "yes" /\ Installable
  /\ result' = "empty"
  /\ UNCHANGED <<product, latest, gui, ctl, stateFile, archives, inst>> /\ UNCHANGED fileVars

(* Close cancels what runs and joins it.                                   *)
Quit ==
  /\ gui.up = "yes"
  /\ gui' = [gui EXCEPT !.up = "closing"]
  /\ UNCHANGED <<product, latest, ctl, stateFile, archives, inst, result>> /\ UNCHANGED fileVars

Gone == gui' = [gui EXCEPT !.up = "no"]

(* FinishOnExit when an update is ready; a failed start leaves it staged.  *)
ExitWithUpdate(i) ==
  /\ gui.up = "closing" /\ Installable
  /\ Launch(i) /\ Gone /\ ctl' = Idle
  /\ UNCHANGED <<product, latest, stateFile, archives>> /\ UNCHANGED fileVars

Exit ==
  /\ gui.up = "closing" /\ ctl.busy = "none"
  /\ Gone /\ ctl' = Idle
  /\ result' = result \/ (Installable /\ result' = "empty")
  /\ UNCHANGED <<product, latest, stateFile, archives, inst>> /\ UNCHANGED fileVars

GuiCrashes ==
  /\ gui.up /= "no"
  /\ Gone /\ ctl' = Idle
  /\ UNCHANGED <<product, latest, stateFile, archives, inst, result>> /\ UNCHANGED fileVars

(* performUpdate of the command line client: check, download into a        *)
(* directory of its own, install.                                          *)
CliUpdate(i) ==
  /\ product = "ntwire" /\ inst[i] = NoJob /\ target /= 0 /\ Newer(latest, target)
  /\ inst' = [inst EXCEPT ![i] = [NoJob EXCEPT !.pc = "lock", !.ver = latest, !.cur = target]]
  /\ archives' = archives \cup {latest}
  /\ UNCHANGED <<product, latest, gui, ctl, stateFile, result>> /\ UNCHANGED fileVars
-----------------------------------------------------------------------------
(* An installer.                                                           *)

Goto(i, l) == inst' = [inst EXCEPT ![i].pc = l]

outside == <<product, latest, gui, ctl, stateFile, archives>>

(* The end, with or without the lock: Install's deferred clean-up, then    *)
(* RunHelper writes the result if it was made for a desktop client.        *)
Report(i, r) == result' = IF inst[i].parent /= 0 /\ result /= "none" THEN r ELSE result

Refuse(i) ==
  /\ inst' = [inst EXCEPT ![i] = NoJob]
  /\ Report(i, "error")
  /\ UNCHANGED fileVars

(* RunHelper: another version than the job's makes no report.              *)
HelperChecks(i) ==
  /\ inst[i].pc = "check"
  /\ IF inst[i].image = inst[i].cur
       THEN Goto(i, "wait")
       ELSE inst' = [inst EXCEPT ![i] = NoJob]
  /\ UNCHANGED result /\ UNCHANGED fileVars /\ UNCHANGED outside

ParentGone(i) == gui.up = "no" \/ gui.run /= inst[i].parent

HelperWaits(i) ==
  /\ inst[i].pc = "wait"
  /\ \/ ParentGone(i) /\ Goto(i, "lock") /\ UNCHANGED result /\ UNCHANGED fileVars
     \/ ~ParentGone(i) /\ Refuse(i)                   \* five minutes
  /\ UNCHANGED outside

(* Install up to the lock directory.                                       *)
TakeLock(i) ==
  /\ inst[i].pc = "lock"
  /\ \/ /\ target /= 0 /\ ~lock /\ Newer(inst[i].ver, inst[i].cur)
        /\ lock' = TRUE /\ Goto(i, "stage")
        /\ UNCHANGED <<target, previous, result>>
     \/ (target = 0 \/ lock \/ ~Newer(inst[i].ver, inst[i].cur)) /\ Refuse(i)
  /\ UNCHANGED outside

Unlocked(i, r) ==
  /\ inst' = [inst EXCEPT ![i] = NoJob]
  /\ lock' = FALSE /\ Report(i, r)

MutStage(i) ==
  /\ inst[i].pc = "stage"
  /\ \/ /\ inst[i].ver \in archives
        /\ Goto(i, "away") /\ UNCHANGED <<lock, result>>
     \/ Unlocked(i, "error")
  /\ UNCHANGED <<target, previous>> /\ UNCHANGED outside

(* The archive is verified, copied, extracted; the name the installed      *)
(* files move to must be free.                                             *)
Stage(i) ==
  /\ inst[i].pc = "stage"
  /\ \/ /\ inst[i].ver \in archives /\ inst[i].cur \notin DOMAIN previous
        /\ Goto(i, "away") /\ UNCHANGED <<lock, result>>
     \/ Unlocked(i, "error")
  /\ UNCHANGED <<target, previous>> /\ UNCHANGED outside

(* replace: the first rename.                                              *)
MoveAway(i) ==
  /\ inst[i].pc = "away"
  /\ \/ /\ target /= 0
        /\ previous' = [c \in DOMAIN previous \cup {inst[i].cur} |->
                          IF c = inst[i].cur THEN target ELSE previous[c]]
        /\ target' = 0
        /\ Goto(i, "in") /\ UNCHANGED <<lock, result>>
     \/ Unlocked(i, "error") /\ UNCHANGED <<target, previous>>
  /\ UNCHANGED outside

(* The second one, or the way back.                                        *)
MoveIn(i) ==
  /\ inst[i].pc = "in"
  /\ \/ /\ target' = inst[i].ver
        /\ Unlocked(i, "installed") /\ UNCHANGED previous
     \/ /\ target' = previous[inst[i].cur]
        /\ previous' = [c \in DOMAIN previous \ {inst[i].cur} |-> previous[c]]
        /\ Unlocked(i, "error")
     \/ Unlocked(i, "error") /\ UNCHANGED <<target, previous>>
  /\ UNCHANGED outside

(* A process dies: its lock directory stays.                               *)
InstallerCrashes(i) ==
  /\ inst[i] /= NoJob
  /\ inst' = [inst EXCEPT ![i] = NoJob]
  /\ UNCHANGED result /\ UNCHANGED fileVars /\ UNCHANGED outside

(* What the messages ask a user to do, while no installer runs: remove a   *)
(* lock nobody holds, put back or remove a previous installation.          *)
UserRepairs ==
  /\ \A i \in Installers : inst[i] = NoJob
  /\ \/ lock /\ lock' = FALSE /\ UNCHANGED <<target, previous>>
     \/ \E c \in DOMAIN previous :
          /\ target' = IF target = 0 THEN previous[c] ELSE target
          /\ previous' = [d \in DOMAIN previous \ {c} |-> previous[d]]
          /\ UNCHANGED lock
  /\ UNCHANGED <<inst, result>> /\ UNCHANGED outside

Install(i) ==
  \/ HelperChecks(i) \/ HelperWaits(i) \/ TakeLock(i) \/ Stage(i)
  \/ MoveAway(i) \/ MoveIn(i)

Next ==
  \/ Publish \/ GuiStarts \/ Check \/ CheckEnds \/ Download \/ DownloadEnds
  \/ LaunchFails \/ Quit \/ Exit \/ GuiCrashes \/ UserRepairs
  \/ \E i \in Installers :
       \/ InstallOnExit(i) \/ ExitWithUpdate(i) \/ CliUpdate(i)
       \/ Install(i) \/ InstallerCrashes(i)

Spec == Init /\ [][Next]_vars
-----------------------------------------------------------------------------
(* The installed files are never lost: whenever they are not in place the  *)
(* previous installation holds a complete version, the one its name says,  *)
(* whichever step failed and whoever died.                                 *)
Recoverable ==
  /\ target = 0 => DOMAIN previous /= {}
  /\ \A c \in DOMAIN previous : previous[c] = c

(* Two installers never replace the files at once, and one that is at it   *)
(* has the lock.                                                           *)
OneReplaces ==
  LET at == {i \in Installers : inst[i].pc \in {"stage", "away", "in"}} IN
  (\A i, j \in at : i = j) /\ (at /= {} => lock)

(* An update that is offered for installation is newer than the program    *)
(* and its archive is complete.                                            *)
ReadyIsReady ==
  ctl.ready => Newer(ctl.release, gui.cur) /\ ctl.release \in archives

(* The installed version never goes back, not even when a job waits while  *)
(* another one installs: "refusing downgrade or equal version" (Install)   *)
(* compares with the version the job was made for, and only the name of    *)
(* the previous installation keeps an overtaken job from going on.         *)
NeverOlder ==
  \A i \in Installers : inst[i].pc = "in" =>
    \A c \in DOMAIN previous : Newer(inst[i].ver, previous[c])

(* What an update may never do to the installed files, together.           *)
UpdatesSafe == Recoverable /\ OneReplaces /\ ReadyIsReady /\ NeverOlder
=============================================================================
