-------------------------------- MODULE MCGui --------------------------------
(***************************************************************************)
(* The desktop client for TLC.  Its parts share no state, so they are      *)
(* checked side by side: a behaviour is one of one part, chosen at the     *)
(* start, while the others stay in their initial state.                    *)
(***************************************************************************)
EXTENDS Gui, TLC

CONSTANTS p1, p2, c1, c2                                \* Profiles, Callers

VARIABLE part

Addr(h) == [host |-> h, port |-> 1]
MCAddresses == {Addr("lo"), Addr("lo2")}
MCRequested == (p1 :> {Addr("lo2")}) @@ (p2 :> {Addr("lo")})

storeVars == <<mem, disk, saves, saving, unsaved, used, forgot, cleared, ver, pubs, tray, feed,
               dirty, shown, missed>>
updVars == <<product, latest, gui, ctl, stateFile, archives, target, previous,
             lock, inst, result>>
launchVars == <<proc, asked, lockFile, wrote, child, sealed>>

GuiInit ==
  /\ part \in {"manager", "calls", "store", "feed", "updates", "launch"}
  /\ Init /\ Store!Init /\ Upd!Init /\ Launch!Init
  /\ part \notin {"store", "feed"} => mem.profiles = {}
  /\ trusted = IF part = "manager" THEN {p1} ELSE {}
  /\ part /= "manager" => Present = {}
  /\ part /= "updates" => product = "ntwire"

GuiNext ==
  \/ /\ part = "manager" /\ Next /\ calls'[c2].pc = "none"
     /\ UNCHANGED <<part, storeVars, updVars, launchVars>>
  \/ /\ part = "calls" /\ Next /\ sess'[p2] = sess[p2]
     /\ UNCHANGED <<part, storeVars, updVars, launchVars>>
  \/ /\ part = "store" /\ Store!StoreNext
     /\ UNCHANGED <<part, vars, updVars, launchVars>>
  \/ /\ part = "feed" /\ (Store!FeedNext \/ Store!EditNext \/ Store!Restart)
     /\ UNCHANGED <<part, vars, updVars, launchVars>>
  \/ /\ part = "updates" /\ Upd!Next
     /\ UNCHANGED <<part, vars, storeVars, launchVars>>
  \/ /\ part = "launch" /\ Launch!Next
     /\ UNCHANGED <<part, vars, storeVars, updVars>>

GuiSpec == GuiInit /\ [][GuiNext]_<<part, vars, storeVars, updVars, launchVars>> /\ Fairness
==============================================================================
