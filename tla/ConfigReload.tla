---------------------------- MODULE ConfigReload ----------------------------
(***************************************************************************)
(* How ntwire-server and ntwire-relay follow the files they are configured *)
(* by while they run (pkg/server/reload.go, cmd/ntwire-server,             *)
(* cmd/ntwire-relay), and which TLS certificate they come up with          *)
(* (tls.go).                                                               *)
(*                                                                         *)
(* Two goroutines reload: one woken by the file watcher, one by SIGHUP.    *)
(* Each reads the configuration file and applies it in a second step.      *)
(* The operator edits files in place, so that one may be read half         *)
(* written.  The server debounces a burst of events; the relay acts on     *)
(* each, which here is a wake-up that may come at any time.                *)
(***************************************************************************)
EXTENDS Integers

CONSTANTS MaxEdits, MaxSignals, MaxCerts   \* bounds

VARIABLES
  program,   \* "server" or "relay"
  up,        \* "down", "starting" (a new certificate), "ready" or "running"
  file,      \* the version of the configuration on disk
  whole,     \* the configuration file is valid
  keys,      \* the version of the authorized-key directory
  woken,     \* the watcher has an event it has not acted on
  missed,    \* ghost: a change came before the watch began, or was refused
  signals,   \* SIGHUPs so far
  hup,       \* a SIGHUP is waiting for its goroutine
  read,      \* goroutine -> the version it has read, or Nothing
  running,   \* the version in force
  session,   \* the version of the keys live sessions were checked against
  cert, key, \* generations of the stored certificate and key; 0 for none
  made,      \* the last generation made
  aged,      \* the stored certificate is about to expire
  served,    \* the generation loaded, 0 for none
  pinned     \* ghost: the generation loaded before the last restart, if stored

reloadVars == <<program, up, file, whole, keys, woken, missed, signals, hup, read, running, session,
                cert, key, made, aged, served, pinned>>
tlsVars == <<cert, key, made, aged, served, pinned>>
fileVars == <<file, whole, keys>>
-----------------------------------------------------------------------------
Goroutines == {"watch", "hup"}
Nothing == -1

Init ==
  /\ program \in {"server", "relay"} /\ up = "down"
  /\ file = 0 /\ whole = TRUE /\ keys = 0
  /\ woken = FALSE /\ missed = FALSE /\ signals = 0 /\ hup = FALSE
  /\ read = [g \in Goroutines |-> Nothing] /\ running = 0 /\ session = 0
  /\ cert = 0 /\ key = 0 /\ made = 0 /\ aged = FALSE /\ served = 0 /\ pinned = 0
-----------------------------------------------------------------------------
(* Starting: loadOrCreateSelfSigned, which stores a new certificate in two *)
(* files, one after the other.                                             *)
Serve(g) == served' = g /\ up' = "ready"

(* A stored pair that loads, matches and lasts is used.                    *)
UseStored ==
  /\ up = "down" /\ whole
  /\ cert /= 0 /\ cert = key /\ ~aged
  /\ Serve(cert) /\ running' = file /\ session' = keys
  /\ UNCHANGED <<program, woken, missed, signals, hup, read, cert, key, made, aged, pinned>>
  /\ UNCHANGED fileVars

MutWriteCert ==
  /\ up = "down" /\ whole /\ made < MaxCerts
  /\ made' = made + 1 /\ cert' = made' /\ aged' = FALSE
  /\ up' = "starting" /\ running' = file /\ session' = keys
  /\ UNCHANGED <<program, woken, missed, signals, hup, read, key, served, pinned>>
  /\ UNCHANGED fileVars

(* Otherwise a new one is made, and its certificate written first ...      *)
WriteCert ==
  /\ up = "down" /\ whole /\ made < MaxCerts
  /\ cert = 0 \/ cert /= key \/ aged
  /\ made' = made + 1 /\ cert' = made' /\ aged' = FALSE
  /\ up' = "starting" /\ running' = file /\ session' = keys
  /\ UNCHANGED <<program, woken, missed, signals, hup, read, key, served, pinned>>
  /\ UNCHANGED fileVars

(* ... then its key.                                                       *)
WriteKey ==
  /\ up = "starting"
  /\ key' = made
  /\ Serve(made)
  /\ UNCHANGED <<program, woken, missed, signals, hup, read, running, session, cert, made, aged, pinned>>
  /\ UNCHANGED fileVars

(* NewTLSManager: a directory that cannot be written costs persistence.    *)
ServeEphemeral ==
  /\ made < MaxCerts
  /\ \/ /\ up = "down" /\ whole
        /\ cert = 0 \/ cert /= key \/ aged
        /\ running' = file /\ session' = keys
     \/ up = "starting" /\ UNCHANGED <<running, session>>
  /\ made' = made + 1
  /\ Serve(made')
  /\ UNCHANGED <<program, woken, missed, signals, hup, read, cert, key, aged, pinned>>
  /\ UNCHANGED fileVars

(* The data plane is up: WatchConfig, and the program listens.             *)
Watch ==
  /\ up = "ready"
  /\ up' = "running"
  /\ UNCHANGED <<program, woken, missed, signals, hup, read, running, session>>
  /\ UNCHANGED fileVars /\ UNCHANGED tlsVars

(* The process ends, at any point.                                         *)
Crash ==
  /\ up /= "down"
  /\ up' = "down" /\ served' = 0
  /\ pinned' = IF up \in {"ready", "running"} /\ served = key THEN served ELSE 0
  /\ woken' = FALSE /\ missed' = FALSE /\ hup' = FALSE /\ read' = [g \in Goroutines |-> Nothing]
  /\ UNCHANGED <<program, signals, running, session, cert, key, made, aged>>
  /\ UNCHANGED fileVars

Age ==
  /\ cert /= 0 /\ ~aged /\ up /= "starting"
  /\ aged' = TRUE
  /\ UNCHANGED <<program, up, woken, missed, signals, hup, read, running, session, cert, key, made,
                 served, pinned>>
  /\ UNCHANGED fileVars
-----------------------------------------------------------------------------
Up == up = "running"

(* What changes before the watch begins wakes nobody.                      *)
Noticed ==
  /\ woken' = (woken \/ Up)
  /\ missed' = (missed \/ up \in {"starting", "ready"})

(* The operator: an edit in place leaves the file invalid for a while; key *)
(* files are the server's only.                                            *)
EditBegins ==
  /\ whole /\ file + keys < MaxEdits
  /\ whole' = FALSE /\ Noticed
  /\ UNCHANGED <<program, up, file, keys, signals, hup, read, running, session>>
  /\ UNCHANGED tlsVars

EditEnds ==
  /\ ~whole
  /\ whole' = TRUE /\ file' = file + 1 /\ Noticed
  /\ UNCHANGED <<program, up, keys, signals, hup, read, running, session>> /\ UNCHANGED tlsVars

EditKeys ==
  /\ program = "server" /\ file + keys < MaxEdits
  /\ keys' = keys + 1 /\ Noticed
  /\ UNCHANGED <<program, up, file, whole, signals, hup, read, running, session>>
  /\ UNCHANGED tlsVars

Signal ==
  /\ Up /\ signals < MaxSignals
  /\ signals' = signals + 1 /\ hup' = TRUE
  /\ UNCHANGED <<program, up, woken, missed, read, running, session>>
  /\ UNCHANGED fileVars /\ UNCHANGED tlsVars

(* The watcher's goroutine takes its wake-up and reads the file; one that  *)
(* does not load is logged and forgotten.                                  *)
WatchReads ==
  /\ Up /\ woken /\ read["watch"] = Nothing
  /\ woken' = FALSE /\ missed' = (missed /\ ~whole)
  /\ read' = [read EXCEPT !["watch"] = IF whole THEN file ELSE Nothing]
  /\ UNCHANGED <<program, up, signals, hup, running, session>>
  /\ UNCHANGED fileVars /\ UNCHANGED tlsVars

(* WatchConfig: a configuration whose key directory cannot be watched is   *)
(* not applied, and that event is forgotten too.                           *)
WatchRefuses ==
  /\ Up /\ program = "server" /\ woken /\ read["watch"] = Nothing /\ whole
  /\ woken' = FALSE /\ missed' = TRUE
  /\ UNCHANGED <<program, up, signals, hup, read, running, session>>
  /\ UNCHANGED fileVars /\ UNCHANGED tlsVars

SignalReads ==
  /\ Up /\ hup /\ read["hup"] = Nothing
  /\ hup' = FALSE
  /\ read' = [read EXCEPT !["hup"] = IF whole THEN file ELSE Nothing]
  /\ UNCHANGED <<program, up, woken, missed, signals, running, session>>
  /\ UNCHANGED fileVars /\ UNCHANGED tlsVars

MutReload(g) ==
  /\ Up /\ program = "server" /\ read[g] /= Nothing
  /\ running' = read[g] /\ session' = keys
  /\ read' = [read EXCEPT ![g] = Nothing] /\ woken' = FALSE
  /\ UNCHANGED <<program, up, missed, signals, hup>> /\ UNCHANGED fileVars /\ UNCHANGED tlsVars

(* Server.Reload: the configuration that was read, the key files anew.  A  *)
(* self-signed certificate stays.                                          *)
Reload(g) ==
  /\ Up /\ program = "server" /\ read[g] /= Nothing
  /\ running' = read[g] /\ session' = keys
  /\ read' = [read EXCEPT ![g] = Nothing]
  /\ UNCHANGED <<program, up, woken, missed, signals, hup>> /\ UNCHANGED fileVars /\ UNCHANGED tlsVars

(* The relay's reload: the registrations.                                  *)
ReloadRegistrations(g) ==
  /\ Up /\ program = "relay" /\ read[g] /= Nothing
  /\ running' = read[g]
  /\ read' = [read EXCEPT ![g] = Nothing]
  /\ UNCHANGED <<program, up, woken, missed, signals, hup, session>>
  /\ UNCHANGED fileVars /\ UNCHANGED tlsVars

Follow ==
  \/ WatchReads \/ WatchRefuses \/ SignalReads
  \/ \E g \in Goroutines : Reload(g) \/ ReloadRegistrations(g)

Next ==
  \/ UseStored \/ WriteCert \/ WriteKey \/ ServeEphemeral \/ Watch \/ Crash \/ Age
  \/ EditBegins \/ EditEnds \/ EditKeys \/ Signal \/ Follow

(* Goroutines run; the operator need not edit, nor complete an edit.       *)
Fairness ==
  /\ WF_reloadVars(WatchReads) /\ WF_reloadVars(SignalReads)
  /\ \A g \in Goroutines : WF_reloadVars(Reload(g)) /\ WF_reloadVars(ReloadRegistrations(g))

Spec == Init /\ [][Next]_reloadVars /\ Fairness
-----------------------------------------------------------------------------
(* A program that stays up and whose configuration file is valid at last   *)
(* follows its files, although it was woken while a file was half written  *)
(* and forgot that event: the configuration in force is the file's, unless *)
(* a SIGHUP came (its goroutine may apply an older version after the       *)
(* watcher's), and a key file that was removed no longer carries sessions. *)
(* A change between the reading at start and the beginning of the watch,   *)
(* or one whose key directory could not be watched, is missed until the    *)
(* next one.                                                               *)
ReloadConverges ==
  <>[](Up /\ whole) =>
    /\ [](signals = 0) => <>[](running = file \/ missed)
    /\ program = "server" => <>[](session = keys \/ missed)

(* Clients pin the certificate they first saw.  A restart, after a crash   *)
(* at any point, serves the one served before, if it was stored and has    *)
(* not come near its end.                                                  *)
PinKept ==
  [][up = "down" /\ up' /= "down" /\ pinned /= 0 /\ ~aged => served' = pinned]_reloadVars
=============================================================================
