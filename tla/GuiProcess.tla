----------------------------- MODULE GuiProcess -----------------------------
(***************************************************************************)
(* Launches of ntwire-gui (cmd/ntwire-gui/main.go): the file that says an  *)
(* instance runs (internal/gui/singleinstance), the probe of what it names *)
(* and the settings window of an instance (internal/gui/window.Spawner), a *)
(* child process that must be gone before the files it runs from are       *)
(* replaced.                                                               *)
(***************************************************************************)
CONSTANTS Launches, Nobody

VARIABLES
  proc,      \* where a launch has got to
  asked,     \* the instance a launch hands over to
  lockFile,  \* the launch gui-instance.json names, or Nobody
  wrote,     \* launches that wrote it and will remove it
  child,     \* launches whose settings window runs
  sealed     \* launches whose Spawner is closed

vars == <<proc, asked, lockFile, wrote, child, sealed>>

Init ==
  /\ proc = [p \in Launches |-> "off"]
  /\ asked = [p \in Launches |-> Nobody]
  /\ lockFile = Nobody /\ wrote = {} /\ child = {} /\ sealed = {}

Goto(p, from, to) == proc[p] = from /\ proc' = [proc EXCEPT ![p] = to]

(* A listener is there before Serve runs: a probe of it is answered late   *)
(* or times out.                                                           *)
Answers(q) == q /= Nobody /\ proc[q] \in {"written", "serving"}

MustAnswer(q) == q /= Nobody /\ proc[q] = "serving"

(* findExistingInstance: read the file and probe what it names.            *)
Probe(p) ==
  /\ \/ Answers(lockFile) /\ Goto(p, "off", "handing") /\ asked' = [asked EXCEPT ![p] = lockFile]
     \/ ~MustAnswer(lockFile) /\ Goto(p, "off", "starting") /\ UNCHANGED asked
  /\ UNCHANGED <<lockFile, wrote, child, sealed>>

(* POST /api/window to the instance found, which may be gone by now.       *)
HandOver(p) ==
  /\ Goto(p, "handing", "exited")
  /\ child' = IF MustAnswer(asked[p]) /\ asked[p] \notin sealed
                THEN child \cup {asked[p]} ELSE child
  /\ UNCHANGED <<asked, lockFile, wrote, sealed>>

(* singleinstance.Write; a failure is a warning.                           *)
WriteLock(p) ==
  /\ Goto(p, "starting", "written")
  /\ \/ lockFile' = p /\ wrote' = wrote \cup {p}
     \/ UNCHANGED <<lockFile, wrote>>
  /\ UNCHANGED <<asked, child, sealed>>

Serve(p) == Goto(p, "written", "serving") /\ UNCHANGED <<asked, lockFile, wrote, child, sealed>>

MutOpen(p) ==
  /\ proc[p] \in {"serving", "stopped", "unlocked", "closing", "closed"}
  /\ p \notin child
  /\ child' = child \cup {p}
  /\ UNCHANGED <<proc, asked, lockFile, wrote, sealed>>

(* Spawner.Open by the tray, the prompt hook or a request: one window at a *)
(* time, none after Close.  Callbacks and handlers run until the process   *)
(* is gone, so that only the Spawner itself stops a late one.              *)
Open(p) ==
  /\ proc[p] \in {"serving", "stopped", "unlocked", "closing", "closed"}
  /\ p \notin child /\ p \notin sealed
  /\ child' = child \cup {p}
  /\ UNCHANGED <<proc, asked, lockFile, wrote, sealed>>

WindowCloses(p) ==
  /\ p \in child
  /\ child' = child \ {p}
  /\ UNCHANGED <<proc, asked, lockFile, wrote, sealed>>

(* The deferred calls, last first: srv.Close, Remove, Spawner.Close.  None *)
(* of them waits for a handler or a callback under way.                    *)
Quit(p) == Goto(p, "serving", "stopped") /\ UNCHANGED <<asked, lockFile, wrote, child, sealed>>

RemoveLock(p) ==
  /\ Goto(p, "stopped", "unlocked")
  /\ lockFile' = IF p \in wrote THEN Nobody ELSE lockFile
  /\ UNCHANGED <<asked, wrote, child, sealed>>

(* Spawner.Close seals the Spawner under its lock, then kills the child it *)
(* found there and waits for it to be gone.                                *)
CloseWindow(p) ==
  /\ Goto(p, "unlocked", IF p \in child THEN "closing" ELSE "closed")
  /\ sealed' = sealed \cup {p}
  /\ UNCHANGED <<asked, lockFile, wrote, child>>

KillWindow(p) ==
  /\ Goto(p, "closing", "closed")
  /\ child' = child \ {p}
  /\ UNCHANGED <<asked, lockFile, wrote, sealed>>

(* Before it quits for an update, the API's callback closes it as well;    *)
(* the window's end there is a WindowCloses.                               *)
CloseForUpdate(p) ==
  /\ proc[p] = "serving"
  /\ sealed' = sealed \cup {p}
  /\ UNCHANGED <<proc, asked, lockFile, wrote, child>>

(* FinishOnExit and the end of main.                                       *)
Exit(p) ==
  /\ Goto(p, "closed", "exited")
  /\ UNCHANGED <<asked, lockFile, wrote, child, sealed>>

Crash(p) ==
  /\ proc[p] \notin {"off", "exited", "crashed"}
  /\ proc' = [proc EXCEPT ![p] = "crashed"]
  /\ UNCHANGED <<asked, lockFile, wrote, child, sealed>>

Next == \E p \in Launches :
  \/ Probe(p) \/ HandOver(p) \/ WriteLock(p) \/ Serve(p) \/ Open(p)
  \/ WindowCloses(p) \/ Quit(p) \/ RemoveLock(p) \/ CloseWindow(p) \/ KillWindow(p)
  \/ CloseForUpdate(p) \/ Exit(p) \/ Crash(p)

Spec == Init /\ [][Next]_vars
-----------------------------------------------------------------------------
(* A settings window does not outlive an instance that quit: whatever the  *)
(* tray, the prompt hook and other launches ask for while it leaves,       *)
(* nothing runs from the installed files when its exit lets the update     *)
(* helper go ahead.                                                        *)
WindowGoneAtExit == \A p \in Launches : proc[p] = "exited" => p \notin child
=============================================================================
