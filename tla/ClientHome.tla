----------------------------- MODULE ClientHome -----------------------------
(***************************************************************************)
(* The ntwire commands of one user (cmd/ntwire/main.go) from the command   *)
(* line to the session, and the files under ~/.ntwire they share:          *)
(* known_servers, tokens.json with the credential store beside it          *)
(* (pkg/oidcclient), and status.json.  Several processes run at once, and  *)
(* each of these files is read as a whole, changed in memory and written   *)
(* back as a whole, with no lock between processes.                        *)
(*                                                                         *)
(* A certificate is its fingerprint; a refresh token is the issuer it was  *)
(* obtained from.  Each server advertises at most one issuer, under a name *)
(* that stays while the issuer behind it may change.                       *)
(***************************************************************************)
EXTENDS Naturals, FiniteSets

CONSTANTS
  Teams,        \* the processes of the user, as many as run at once
  Servers, Certs, Issuers,
  Signed,       \* certificates the user's CA file vouches for
  CommandLines, \* the options commands are started with: cmd, check, sso
  FirstCert, FirstIssuer,
  MaxRuns,      \* team -> commands started and sessions renewed by a new login
  MaxChanges,   \* certificates and issuers changed
  None, Unbound, Index

VARIABLES
  presents,     \* the certificate each server presents
  advertised,   \* the issuer each server advertises and verifies against, or None
  known,        \* known_servers
  tokenFile,    \* tokens.json: None, Index (the entry without its secret) or a token
  keyring,      \* the operating system's credential store
  status,       \* the process status.json names, or None
  proc,         \* what each process of the team is doing
  agreed,       \* history: the certificates the user said yes to
  released,     \* history: tokens and the issuers they were presented to
  forgotten,    \* history: servers logged out of and not logged in to since
  silent,       \* history: servers a later command entered with a forgotten token
  astray,       \* history: servers whose credential the store got or kept while the
                \* file failed to get or lost its entry
  runs, changes

homeVars == <<presents, advertised, known, tokenFile, keyring, status, proc, agreed, released,
              forgotten, silent, astray, runs, changes>>

files == <<known, tokenFile, keyring, status>>
servers == <<presents, advertised, changes>>
histories == <<agreed, released, forgotten, silent, astray>>

Token == Issuers \cup {Unbound}

Idle == [at |-> "idle"]
Ready(p, at) == proc[p].at = at
Goto(p, at) == proc' = [proc EXCEPT ![p].at = at]

(* An attempt ends: the command exits, a running connection tries again    *)
(* later.                                                                  *)
GiveUp(p) == proc' = [proc EXCEPT ![p] = IF @.up THEN [@ EXCEPT !.at = "up"] ELSE Idle]
-----------------------------------------------------------------------------
Init ==
  /\ presents = [s \in Servers |-> FirstCert] /\ advertised = [s \in Servers |-> FirstIssuer]
  /\ known = [s \in Servers |-> None]
  /\ tokenFile \in [Servers -> {None, Unbound}] /\ keyring = [s \in Servers |-> None]
  /\ status = None /\ \E team \in Teams : proc = [p \in team |-> Idle]
  /\ agreed = {} /\ released = {} /\ forgotten = {} /\ silent = {} /\ astray = {}
  /\ runs = 0 /\ changes = 0

(* connect and list: the options decide how the certificate is checked and *)
(* the way of logging in.                                                  *)
Begin(p, s, o) ==
  /\ Ready(p, "idle") /\ runs < MaxRuns[DOMAIN proc]
  /\ runs' = runs + 1
  /\ proc' = [proc EXCEPT ![p] =
       [at |-> "start", server |-> s, cmd |-> o.cmd, check |-> o.check, sso |-> o.sso, up |-> FALSE,
        again |-> FALSE, pin |-> None, cert |-> None, method |-> None, issuer |-> None,
        token |-> None, cache |-> <<>>]]
  /\ UNCHANGED <<files, servers, histories>>

(* VerifyConnection, or its replacement by a CA file or --insecure         *)
Verifies(p, c, pin) ==
  CASE proc[p].check = "insecure" -> TRUE
    [] proc[p].check = "ca" -> c \in Signed
    [] OTHER -> c = pin

(* An unknown certificate: the user is asked once per command, a           *)
(* connection that is up cannot ask.                                       *)
Rejected(p, c) ==
  IF proc[p].check = "pin" /\ ~proc[p].up /\ ~proc[p].again
  THEN proc' = [proc EXCEPT ![p].at = "ask", ![p].cert = c]
  ELSE GiveUp(p)

(* httpClient reads known_servers once for all its connections.            *)
HttpClient(p) ==
  /\ Ready(p, "start")
  /\ LET s == proc[p].server
     IN IF Verifies(p, presents[s], known[s])
        THEN proc' = [proc EXCEPT ![p].at = "method", ![p].pin = known[s]]
        ELSE Rejected(p, presents[s])
  /\ UNCHANGED <<files, servers, histories, runs>>

(* confirmCertificate: no terminal or another answer than yes              *)
Declines(p) ==
  /\ Ready(p, "ask") /\ GiveUp(p)
  /\ UNCHANGED <<files, servers, histories, runs>>

(* TrustServer reads the file ...                                          *)
Trusts(p) ==
  /\ Ready(p, "ask")
  /\ agreed' = agreed \cup {<<proc[p].server, proc[p].cert>>}
  /\ proc' = [proc EXCEPT ![p].at = "trust", ![p].cache = known]
  /\ UNCHANGED <<files, servers, released, forgotten, silent, astray, runs>>

(* ... and writes it back with the new pin; the command starts over.       *)
TrustServer(p) ==
  /\ Ready(p, "trust")
  /\ known' = [proc[p].cache EXCEPT ![proc[p].server] = proc[p].cert]
  /\ proc' = [proc EXCEPT ![p].at = "start", ![p].again = TRUE, ![p].cache = <<>>]
  /\ UNCHANGED <<tokenFile, keyring, status, servers, histories, runs>>
-----------------------------------------------------------------------------
(* authenticateAny: fetchInfo, decideMethod, and selectIssuer for single   *)
(* sign-on; a connection that logs in again keeps its method.  openCache:  *)
(* from here on the process works on its own copy of the file.             *)
AuthenticateAny(p) ==
  LET s == proc[p].server
      i == advertised[s]
      m == IF proc[p].method /= None THEN proc[p].method ELSE IF proc[p].sso THEN "oidc" ELSE "ssh"
  IN /\ Ready(p, "method")
     /\ CASE m = "ssh" -> proc' = [proc EXCEPT ![p].at = "submit", ![p].method = m]
          [] m = "oidc" /\ i = None -> GiveUp(p)
          [] OTHER -> proc' = [proc EXCEPT ![p].at = "get", ![p].method = m, ![p].issuer = i,
                                           ![p].cache = tokenFile]
     /\ UNCHANGED <<files, servers, histories, runs>>

(* Cached tokens go to whatever issuer the server names now                *)
MutUsable(e, i) == e \in Token

(* TokensForIssuer: only a token bound to the issuer that is advertised.   *)
Usable(e, i) == e \in Token /\ e = i

TokenFound(p, e, cache) ==
  /\ proc' = [proc EXCEPT ![p].token = IF Usable(e, proc[p].issuer) THEN e ELSE None,
                          ![p].cache = cache,
                          ![p].at = IF Usable(e, proc[p].issuer) THEN "refresh" ELSE "login"]
  /\ silent' = IF Usable(e, proc[p].issuer)
               THEN silent \cup ({proc[p].server} \cap forgotten) ELSE silent

(* Cache.Get: the credential store first.                                  *)
GetNative(p) ==
  /\ Ready(p, "get") /\ keyring[proc[p].server] \in Token
  /\ TokenFound(p, keyring[proc[p].server], proc[p].cache)
  /\ UNCHANGED <<files, servers, agreed, released, forgotten, astray, runs>>

(* The store cannot be used, or has nothing: the file's entry.             *)
GetLegacy(p) ==
  /\ Ready(p, "get")
  /\ TokenFound(p, proc[p].cache[proc[p].server], proc[p].cache)
  /\ UNCHANGED <<files, servers, agreed, released, forgotten, astray, runs>>

(* ... which moves to the store, once it can be read back there; the file  *)
(* keeps it when it cannot be written.                                     *)
GetMigrates(p, saved) ==
  LET s == proc[p].server
      e == proc[p].cache[s]
      rest == [proc[p].cache EXCEPT ![s] = Index]
  IN /\ Ready(p, "get") /\ keyring[s] = None /\ e \in Token
     /\ keyring' = [keyring EXCEPT ![s] = e]
     /\ tokenFile' = IF saved THEN rest ELSE tokenFile
     /\ TokenFound(p, e, rest)
     /\ UNCHANGED <<known, status, servers, agreed, released, forgotten, astray, runs>>

(* Refresh: on failure the interactive login follows.  What is done with   *)
(* the new token differs: one that was refreshed need not be kept.         *)
Refresh(p, ok) ==
  /\ Ready(p, "refresh")
  /\ released' = released \cup {<<proc[p].token, proc[p].issuer>>}
  /\ Goto(p, IF ok THEN "renewed" ELSE "login")
  /\ UNCHANGED <<files, servers, agreed, forgotten, silent, astray, runs>>

(* Login: the browser, or else the device flow; minutes may pass.          *)
Login(p) ==
  /\ Ready(p, "login")
  /\ proc' = [proc EXCEPT ![p].at = "put", ![p].token = proc[p].issuer]
  /\ forgotten' = forgotten \ {proc[p].server}
  /\ UNCHANGED <<files, servers, agreed, released, silent, astray, runs>>

LoginFails(p) ==
  /\ Ready(p, "login") /\ GiveUp(p)
  /\ UNCHANGED <<files, servers, histories, runs>>

Keeps(p) == Ready(p, "put") \/ Ready(p, "renewed")
Submits(p) == proc' = [proc EXCEPT ![p].at = "submit", ![p].cache = <<>>, ![p].token = None]

(* Cache.Put: to the store and an index entry to the file, or the secret   *)
(* to the file.  The whole copy is saved.                                  *)
Put(p, native) ==
  LET s == proc[p].server
  IN /\ Keeps(p)
     /\ keyring' = IF native THEN [keyring EXCEPT ![s] = proc[p].token] ELSE keyring
     /\ tokenFile' = [proc[p].cache EXCEPT ![s] = IF native THEN Index ELSE proc[p].token]
     /\ Submits(p)
     /\ UNCHANGED <<known, status, servers, histories, runs>>

(* The file cannot be written, or the process ends before it is, when the  *)
(* store may have the token already.  Only a login fails with that.        *)
PutFails(p, native) ==
  LET s == proc[p].server
  IN /\ Keeps(p)
     /\ keyring' = IF native THEN [keyring EXCEPT ![s] = proc[p].token] ELSE keyring
     /\ astray' = IF native THEN astray \cup {s} ELSE astray
     /\ IF Ready(p, "put") THEN GiveUp(p) ELSE Submits(p)
     /\ UNCHANGED <<known, tokenFile, status, servers, agreed, released, forgotten, silent, runs>>

(* oidcauth.Verify: the server accepts tokens of its own issuer.           *)
Verify(p) == proc[p].method = "ssh" \/ proc[p].issuer = advertised[proc[p].server]

(* authenticateSSH, authenticateOIDC: the request goes over a connection   *)
(* checked like the first.  list is done; connect is up and writes its     *)
(* status.                                                                 *)
Submit(p) ==
  LET c == presents[proc[p].server]
  IN /\ Ready(p, "submit")
     /\ IF ~Verifies(p, c, proc[p].pin) THEN Rejected(p, c) /\ UNCHANGED status
        ELSE IF ~Verify(p) THEN GiveUp(p) /\ UNCHANGED status
        ELSE IF proc[p].cmd = "list" THEN proc' = [proc EXCEPT ![p] = Idle] /\ UNCHANGED status
        ELSE /\ proc' = [proc EXCEPT ![p].at = "up", ![p].up = TRUE, ![p].cert = c,
                                     ![p].issuer = None]
             /\ status' = IF proc[p].up THEN status ELSE p
     /\ UNCHANGED <<known, tokenFile, keyring, servers, histories, runs>>

(* The server refuses the key or the identity.                             *)
Refused(p) ==
  /\ Ready(p, "submit") /\ GiveUp(p)
  /\ UNCHANGED <<files, servers, histories, runs>>

(* reconnect: authenticateAny with the method of the session               *)
Reconnect(p) ==
  /\ Ready(p, "up") /\ runs < MaxRuns[DOMAIN proc]
  /\ runs' = runs + 1
  /\ Goto(p, "method")
  /\ UNCHANGED <<files, servers, histories>>

(* Close removes the status file, whoever wrote it; a process that dies    *)
(* leaves it.                                                              *)
Quit(p) ==
  /\ ~Ready(p, "idle") /\ proc[p].up /\ proc' = [proc EXCEPT ![p] = Idle] /\ status' = None
  /\ UNCHANGED <<known, tokenFile, keyring, servers, histories, runs>>

Dies(p) ==
  /\ ~Ready(p, "idle") /\ proc' = [proc EXCEPT ![p] = Idle]
  /\ UNCHANGED <<files, servers, histories, runs>>

(* disconnect interrupts the process status.json names, which then quits.  *)
Disconnect(p) ==
  /\ status = p /\ Quit(p)
-----------------------------------------------------------------------------
(* Logout: the cache is opened ...                                         *)
Logout(p, s) ==
  /\ Ready(p, "idle") /\ runs < MaxRuns[DOMAIN proc]
  /\ runs' = runs + 1
  /\ proc' = [proc EXCEPT ![p] = [at |-> "logout", server |-> s, up |-> FALSE, cache |-> tokenFile]]
  /\ UNCHANGED <<files, servers, histories>>

(* ... the entry of the file goes and the store keeps its own              *)
MutDeleteServer(p) ==
  LET s == proc[p].server
  IN /\ Ready(p, "logout")
     /\ tokenFile' = [proc[p].cache EXCEPT ![s] = None]
     /\ forgotten' = forgotten \cup {s}
     /\ proc' = [proc EXCEPT ![p] = Idle]
     /\ UNCHANGED <<known, keyring, status, servers, agreed, released, silent, astray, runs>>

(* ... and DeleteServer removes what the file has an entry for.            *)
DeleteServer(p) ==
  LET s == proc[p].server
  IN /\ Ready(p, "logout")
     /\ keyring' = IF proc[p].cache[s] = None THEN keyring ELSE [keyring EXCEPT ![s] = None]
     /\ tokenFile' = [proc[p].cache EXCEPT ![s] = None]
     /\ forgotten' = forgotten \cup {s}
     /\ proc' = [proc EXCEPT ![p] = Idle]
     /\ UNCHANGED <<known, status, servers, agreed, released, silent, astray, runs>>

(* The store fails: the file's entry goes, if the file can be written, and *)
(* the user is told.                                                       *)
DeleteFails(p, saved) ==
  LET s == proc[p].server
  IN /\ Ready(p, "logout") /\ proc[p].cache[s] /= None
     /\ tokenFile' = IF saved THEN [proc[p].cache EXCEPT ![s] = None] ELSE tokenFile
     /\ astray' = IF saved THEN astray \cup {s} ELSE astray
     /\ proc' = [proc EXCEPT ![p] = Idle]
     /\ UNCHANGED <<known, keyring, status, servers, agreed, released, forgotten, silent, runs>>

(* The file cannot be written, or the process ends before it is; the user  *)
(* is told, or knows.                                                      *)
DeleteUnsaved(p) ==
  LET s == proc[p].server
  IN /\ Ready(p, "logout") /\ proc[p].cache[s] /= None
     /\ keyring' = [keyring EXCEPT ![s] = None]
     /\ proc' = [proc EXCEPT ![p] = Idle]
     /\ UNCHANGED <<known, tokenFile, status, servers, histories, runs>>

(* The server's administrator renews the certificate, changes the issuer   *)
(* or removes it.                                                          *)
Rotate(s, c) ==
  /\ changes < MaxChanges /\ changes' = changes + 1 /\ c /= presents[s]
  /\ presents' = [presents EXCEPT ![s] = c]
  /\ UNCHANGED <<advertised, files, proc, histories, runs>>

Readvertise(s, i) ==
  /\ changes < MaxChanges /\ changes' = changes + 1 /\ i /= advertised[s]
  /\ advertised' = [advertised EXCEPT ![s] = i]
  /\ UNCHANGED <<presents, files, proc, histories, runs>>

Next ==
  \/ \E p \in DOMAIN proc :
       \/ \E s \in Servers : Logout(p, s) \/ \E o \in CommandLines : Begin(p, s, o)
       \/ HttpClient(p) \/ Declines(p) \/ Trusts(p) \/ TrustServer(p)
       \/ AuthenticateAny(p) \/ GetNative(p) \/ GetLegacy(p)
       \/ \E ok \in BOOLEAN : \/ Refresh(p, ok) \/ Put(p, ok) \/ PutFails(p, ok)
                               \/ GetMigrates(p, ok) \/ DeleteFails(p, ok)
       \/ Login(p) \/ LoginFails(p) \/ Submit(p) \/ Refused(p)
       \/ Reconnect(p) \/ Quit(p) \/ Dies(p) \/ Disconnect(p)
       \/ DeleteServer(p) \/ DeleteUnsaved(p)
  \/ \E s \in Servers : \/ \E c \in Certs : Rotate(s, c)
                        \/ \E i \in Issuers \cup {None} : Readvertise(s, i)

Spec == Init /\ [][Next]_homeVars
-----------------------------------------------------------------------------
(* For a user who runs one command at a time                               *)
Alone == \A p, q \in DOMAIN proc : p = q

(* Whatever two processes write over each other in ~/.ntwire: a connection *)
(* that checks its server against the pin is up only under a certificate   *)
(* the user agreed to for this server, and no refresh token is ever        *)
(* presented to another issuer than its own, whatever the server           *)
(* advertises by now.  A user who runs one command at a time is not logged *)
(* in silently after a logout, unless the store and the file came apart.   *)
(* (A login in another process may save the copy of the file that it       *)
(* opened before.)                                                         *)
HomeSound ==
  /\ \A p \in DOMAIN proc : Ready(p, "up") /\ proc[p].check = "pin" =>
                              <<proc[p].server, proc[p].cert>> \in agreed
  /\ \A r \in released : r[1] = r[2]
  /\ Alone => silent \subseteq astray
=============================================================================
