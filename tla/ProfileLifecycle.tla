-------------------------- MODULE ProfileLifecycle --------------------------
(***************************************************************************)
(* What the connection manager promises of a profile: the states a user    *)
(* sees follow one another as the comment on State                         *)
(* (internal/gui/manager/session.go) draws them, a profile has at most one *)
(* connection, opened while it connects, and no connection at all when it  *)
(* is shown idle or failed.  The promise ends when a Disconnect resets the *)
(* session of a later connection than the one it closed.                   *)
(***************************************************************************)
CONSTANT Profiles

VARIABLES
  phase,   \* what the user sees, prompts included in "connecting"
  live     \* profiles with a running connection

Phases == {"absent", "idle", "connecting", "connected", "failed", "removed",
           "overtaken"}

Init ==
  /\ phase \in [Profiles -> {"absent", "idle"}]
  /\ live = {}

Move(p, from, to) ==
  /\ phase[p] \in from
  /\ phase' = [phase EXCEPT ![p] = to]
  /\ UNCHANGED live

Add(p) == Move(p, {"absent"}, "idle")

Start(p) == Move(p, {"idle", "failed"}, "connecting")

Succeed(p) == p \in live /\ Move(p, {"connecting"}, "connected")

Fail(p) == p \notin live /\ Move(p, {"connecting"}, "failed")

Clear(p) == Move(p, {"failed"}, "idle")

Stop(p) == p \notin live /\ Move(p, {"connected"}, "idle")

Remove(p) == Move(p, {"idle", "connecting", "failed"}, "removed")

(* A removal may overtake the connection it was meant to stop.             *)
Open(p) ==
  /\ phase[p] \in {"connecting", "removed"} /\ p \notin live
  /\ live' = live \cup {p}
  /\ UNCHANGED phase

Close(p) ==
  /\ phase[p] \in {"connected", "removed"} /\ p \in live
  /\ live' = live \ {p}
  /\ UNCHANGED phase

Overtake(p) ==
  /\ phase[p] \in {"connecting", "connected"}
  /\ phase' = [phase EXCEPT ![p] = "overtaken"]
  /\ live' = live \ {p}

Next == \E p \in Profiles :
  \/ Add(p) \/ Start(p) \/ Succeed(p) \/ Fail(p) \/ Clear(p) \/ Stop(p)
  \/ Remove(p) \/ Open(p) \/ Close(p) \/ Overtake(p)

Spec == Init /\ [][Next]_<<phase, live>>
=============================================================================
