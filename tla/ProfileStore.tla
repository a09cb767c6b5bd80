---------------------------- MODULE ProfileStore ----------------------------
(***************************************************************************)
(* The settings of the desktop client: profiles and preferences in memory, *)
(* gui.yaml on disk (internal/gui/config), its one-time seeding from the   *)
(* command line client's file, restarts, and the feed of updates the       *)
(* manager publishes to the tray, which redraws itself from the manager's  *)
(* current state and not from what an update carries.                      *)
(***************************************************************************)
EXTENDS Naturals, Sequences

CONSTANTS
  Names,        \* profiles; one of them is the command line client's
  CliProfile,   \* that one
  Publishers,   \* goroutines that change a session's state and publish it
  MaxEdits,     \* bound on revisions of the settings
  MaxVer,       \* bound on changes of a session's state
  Buffer        \* capacity of a subscriber's channel, 16 in the code

VARIABLES
  mem,      \* the manager's profiles and settings
  disk,     \* gui.yaml, an empty sequence while there is none
  saves,    \* calls of persist that wait for persistMu
  saving,   \* the configuration persist is writing, if any
  unsaved,  \* the last save failed, and its caller was told so
  used,     \* the identifiers given out; they are random, none comes twice
  forgot,   \* history: the profiles a save without them has reached the disk
  cleared,  \* history: SetSettings was given settings without the import mark
  ver,      \* how often the state of each profile's session has changed
  pubs,     \* publishers between their change and the end of publish
  tray,     \* "off", "drawn" before it has subscribed, "on"
  feed,     \* the tray's channel
  dirty,    \* the tray's dirty flag
  shown,    \* the profiles the tray drew last, each with the state it had
  missed    \* history: profiles published while the tray was not subscribed yet

vars == <<mem, disk, saves, saving, unsaved, used, forgot, cleared, ver, pubs, tray, feed, dirty,
          shown, missed>>

storeVars == <<mem, disk, saves, saving, unsaved, used, forgot, cleared>>

feedVars == <<ver, pubs, tray, feed, dirty, shown, missed>>
-----------------------------------------------------------------------------
Empty == [profiles |-> {}, imported |-> FALSE, rev |-> 0]

(* config.Load: no file is an empty configuration.                         *)
Load == IF disk = <<>> THEN Empty ELSE disk[1]

(* ImportFromCLI: once, and only into a configuration with no profiles.    *)
ImportFromCLI(c, cli) ==
  IF c.profiles /= {} \/ c.imported
    THEN c
    ELSE [c EXCEPT !.imported = TRUE, !.profiles = cli]

(* New: a configuration that was seeded is saved before the manager runs.  *)
Start(cli) ==
  LET c == ImportFromCLI(Load, cli) IN
  /\ mem' = c
  /\ disk' = IF Load.imported \/ Load.profiles /= {} THEN disk ELSE <<c>>

(* The first start, with no gui.yaml.                                      *)
Init ==
  /\ \E cli \in {{}, {CliProfile}} : mem = ImportFromCLI(Empty, cli) /\ disk = <<mem>>
  /\ saves = 0 /\ saving = <<>> /\ unsaved = FALSE
  /\ used = {CliProfile} /\ forgot = {} /\ cleared = FALSE
  /\ ver = [n \in Names |-> 0] /\ pubs = [k \in Publishers |-> <<>>]
  /\ tray = "off" /\ feed = <<>> /\ dirty = FALSE /\ shown = <<>> /\ missed = {}

(* A process that crashes or quits loses what was not saved.               *)
Restart ==
  /\ \E cli \in {{}, {CliProfile}} : Start(cli)
  /\ saves' = 0 /\ saving' = <<>> /\ unsaved' = FALSE
  /\ ver' = [n \in Names |-> 0] /\ pubs' = [k \in Publishers |-> <<>>]
  /\ tray' = "off" /\ feed' = <<>> /\ dirty' = FALSE /\ shown' = <<>> /\ missed' = {}
  /\ UNCHANGED <<used, forgot, cleared>>

(* persist is called after the lock is released, see PersistReads; nothing *)
(* is published.                                                           *)
Change(c) ==
  /\ mem.rev < MaxEdits
  /\ mem' = [c EXCEPT !.rev = mem.rev + 1]
  /\ saves' = saves + 1
  /\ UNCHANGED <<disk, saving, unsaved, forgot>> /\ UNCHANGED feedVars

AddProfile(n) ==
  /\ n \notin used /\ used' = used \cup {n} /\ UNCHANGED cleared
  /\ Change([mem EXCEPT !.profiles = @ \cup {n}])

RemoveProfile(n) ==
  /\ n \in mem.profiles /\ UNCHANGED <<used, cleared>>
  /\ Change([mem EXCEPT !.profiles = @ \ {n}])

(* UpdateProfile, SetUpdatePreferences.                                    *)
Edit == Change(mem) /\ UNCHANGED <<used, cleared>>

(* The settings are replaced as a whole, the import mark with them.        *)
SetSettings(imported) ==
  /\ Change([mem EXCEPT !.imported = imported])
  /\ cleared' = (cleared \/ ~imported) /\ UNCHANGED used

\* A call that finds another one writing leaves it at that
MutPersistReads ==
  /\ saves > 0
  /\ saves' = saves - 1
  /\ saving' = IF saving = <<>> THEN <<mem>> ELSE saving
  /\ UNCHANGED <<mem, disk, unsaved, used, forgot, cleared>> /\ UNCHANGED feedVars

(* persist reads the configuration after persistMu is taken, so that the   *)
(* last one to write has read last.                                        *)
PersistReads ==
  /\ saves > 0 /\ saving = <<>>
  /\ saves' = saves - 1
  /\ saving' = <<mem>>
  /\ UNCHANGED <<mem, disk, unsaved, used, forgot, cleared>> /\ UNCHANGED feedVars

(* config.Save: the new file takes the old one's place by a rename, or the *)
(* old one stays and the caller gets an error.                             *)
PersistFails ==
  /\ saving /= <<>>
  /\ unsaved' = TRUE /\ saving' = <<>>
  /\ UNCHANGED <<mem, disk, saves, used, forgot, cleared>> /\ UNCHANGED feedVars

PersistSaves ==
  /\ saving /= <<>>
  /\ unsaved' = FALSE
  /\ disk' = saving
  /\ forgot' = forgot \cup (Load.profiles \ saving[1].profiles)
  /\ saving' = <<>>
  /\ UNCHANGED <<mem, saves, used, cleared>> /\ UNCHANGED feedVars
-----------------------------------------------------------------------------
\* The change is not published, as those of AddProfile and RemoveProfile
MutStateChanges(k, n) ==
  /\ pubs[k] = <<>> /\ n \in mem.profiles /\ ver[n] < MaxVer
  /\ ver' = [ver EXCEPT ![n] = @ + 1]
  /\ missed' = missed \ {n}
  /\ UNCHANGED <<pubs, tray, feed, dirty, shown>> /\ UNCHANGED storeVars

(* A session's state changes under the lock; publish reads a snapshot in a *)
(* section of its own and offers it to the channels in a third.            *)
StateChanges(k, n) ==
  /\ pubs[k] = <<>> /\ n \in mem.profiles /\ ver[n] < MaxVer
  /\ ver' = [ver EXCEPT ![n] = @ + 1]
  /\ pubs' = [pubs EXCEPT ![k] = <<"read", n>>]
  /\ missed' = missed \ {n}
  /\ UNCHANGED <<tray, feed, dirty, shown>> /\ UNCHANGED storeVars

(* A profile that was removed meanwhile is not published.                  *)
PublishReads(k) ==
  /\ Len(pubs[k]) = 2 /\ pubs[k][1] = "read"
  /\ pubs' = [pubs EXCEPT ![k] = IF pubs[k][2] \in mem.profiles THEN <<"send", pubs[k][2]>> ELSE <<>>]
  /\ UNCHANGED <<ver, tray, feed, dirty, shown, missed>> /\ UNCHANGED storeVars

(* A full channel drops the update.                                        *)
PublishSends(k) ==
  /\ Len(pubs[k]) = 2 /\ pubs[k][1] = "send"
  /\ feed' = IF tray = "on" /\ Len(feed) < Buffer THEN Append(feed, pubs[k][2]) ELSE feed
  /\ missed' = IF tray = "drawn" THEN missed \cup {pubs[k][2]} ELSE missed
  /\ pubs' = [pubs EXCEPT ![k] = <<>>]
  /\ UNCHANGED <<ver, tray, dirty, shown>> /\ UNCHANGED storeVars

(* Manager.Snapshots                                                       *)
Snapshots == [n \in mem.profiles |-> ver[n]]

(* onReady draws the menu and subscribes, in this order.                   *)
TrayDraws ==
  /\ tray = "off" /\ tray' = "drawn"
  /\ shown' = Snapshots
  /\ UNCHANGED <<ver, pubs, feed, dirty, missed>> /\ UNCHANGED storeVars

Subscribe ==
  /\ tray = "drawn" /\ tray' = "on"
  /\ UNCHANGED <<ver, pubs, feed, dirty, shown, missed>> /\ UNCHANGED storeVars

TrayReceives ==
  /\ feed /= <<>>
  /\ feed' = Tail(feed)
  /\ dirty' = TRUE
  /\ UNCHANGED <<ver, pubs, tray, shown, missed>> /\ UNCHANGED storeVars

TrayTicks ==
  /\ dirty
  /\ shown' = Snapshots
  /\ dirty' = FALSE /\ missed' = {}
  /\ UNCHANGED <<ver, pubs, tray, feed>> /\ UNCHANGED storeVars

EditNext ==
  \/ \E n \in Names : AddProfile(n) \/ RemoveProfile(n)
  \/ Edit \/ \E imported \in BOOLEAN : SetSettings(imported)

StoreNext == EditNext \/ PersistReads \/ PersistSaves \/ PersistFails \/ Restart

FeedNext ==
  \/ \E k \in Publishers : PublishReads(k) \/ PublishSends(k) \/ \E n \in Names : StateChanges(k, n)
  \/ TrayDraws \/ Subscribe \/ TrayReceives \/ TrayTicks

Next == StoreNext \/ FeedNext

Spec == Init /\ [][Next]_vars
-----------------------------------------------------------------------------
(* When no save is under way and the last one worked gui.yaml has what the *)
(* manager has, whatever order the calls of persist ran in.                *)
SavedIsCurrent ==
  (saves = 0 /\ saving = <<>> /\ ~unsaved) => disk = <<mem>>

(* "an explicit 'delete my only profile' is never silently undone"         *)
(* (ImportFromCLI): a profile whose removal was saved does not come back,  *)
(* across any number of restarts, unless SetSettings took the import mark  *)
(* away.                                                                   *)
RemovalIsFinal == ~cleared => forgot \cap mem.profiles = {}

\* The state of a profile's session the tray drew; a new one's is 0.
Drawn(n) == IF n \in DOMAIN shown THEN shown[n] ELSE 0

(* The tray never misses a change of a session for good, updates that are  *)
(* dropped included: while what it drew of a profile is not its state, an  *)
(* update is on its way, unless the change was published between the first *)
(* drawing and the subscription.                                           *)
TrayCatchesUp ==
  tray /= "off" => \A n \in mem.profiles : Drawn(n) /= ver[n] =>
    \/ dirty \/ feed /= <<>> \/ n \in missed
    \/ \E k \in Publishers : Len(pubs[k]) = 2 /\ pubs[k][2] = n

(* What gui.yaml and the tray owe the manager, together.                   *)
StoreSound == SavedIsCurrent /\ RemovalIsFinal /\ TrayCatchesUp
=============================================================================
