--------------------------------- MODULE Gui ---------------------------------
(***************************************************************************)
(* The desktop client: the connection manager, its settings and the tray,  *)
(* the update controller with the installers it starts, and the process    *)
(* with its settings window.  The parts share no state; what the client    *)
(* promises is what all of them keep.                                      *)
(***************************************************************************)
EXTENDS ProfileManager, Sequences

CONSTANTS
  Names, CliProfile, Publishers, MaxEdits, MaxVer, Buffer,   \* ProfileStore
  MaxVersion, Installers, MaxRuns,                           \* Updates
  Launches, Nobody                                           \* GuiProcess

VARIABLES
  mem, disk, saves, saving, unsaved, used, forgot, cleared, ver, pubs, tray, feed, dirty, shown,
  missed,
  product, latest, gui, ctl, stateFile, archives, target, previous, lock, inst, result,
  proc, asked, lockFile, wrote, child, sealed

\* A subscriber's channel has room for an update (16 in the code).
ASSUME BufferAssumption == Buffer \in Nat \ {0}

\* The command line client's profile is a profile.
ASSUME NamesAssumption == CliProfile \in Names

Store == INSTANCE ProfileStore
Upd == INSTANCE Updates
Launch == INSTANCE GuiProcess

(* No connection is left without an owner, gui.yaml and the tray follow    *)
(* the manager, an update never loses, mixes up or downgrades the          *)
(* installed files, and no settings window runs from them once the client  *)
(* has quit.                                                               *)
GuiSound ==
  /\ TypeOK /\ NoOrphan /\ Store!StoreSound
  /\ Upd!UpdatesSafe /\ Launch!WindowGoneAtExit
==============================================================================
