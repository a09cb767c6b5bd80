-------------------------- MODULE MCServerRecovery --------------------------
(***************************************************************************)
(* What the server must get to in the end, for TLC: the relay pool gives a *)
(* lost relay up, the reaper gets its turn, and the watched files are      *)
(* followed.  A behaviour is one of one part, chosen at the start, while   *)
(* the others stay in their initial state, where nothing that is fair for  *)
(* them is possible.                                                       *)
(***************************************************************************)
EXTENDS Server

CONSTANTS
  k1, k2, p1,                              \* Keys, Principals
  MaxEdits, MaxSignals, MaxCerts           \* of ConfigReload

VARIABLES
  part,
  program, up, file, whole, keys, woken, missed, signals, hup, read, running,
  session, cert, key, made, aged, served, pinned

\* A relay with everything, and one of another domain without UDP.
PoolResponses == {[udp |-> TRUE, native |-> TRUE, domain |-> "a"],
                  [udp |-> FALSE, native |-> FALSE, domain |-> "b"]}

\* One principal with two keys, who may log in twice.
OneIdentity == [p \in {p1} |-> "ssh key"]
OneConfig == {[known |-> {p1}, grants |-> [p \in {p1} |-> {}], native |-> [k \in {k1, k2} |-> None]]}

Files == INSTANCE ConfigReload

filesVars == <<program, up, file, whole, keys, woken, missed, signals, hup, read, running,
               session, cert, key, made, aged, served, pinned>>

RecoveryInit ==
  /\ part \in {"pool", "sessions", "files"}
  /\ Init /\ Relay!Init /\ Files!Init
  /\ part /= "files" => program = "server"

RecoveryNext ==
  \/ part = "pool" /\ Relay!Next /\ UNCHANGED <<part, vars, filesVars>>
  \/ part = "sessions" /\ Next /\ UNCHANGED <<part, relayVars, filesVars>>
  \/ part = "files" /\ Files!Next /\ UNCHANGED <<part, vars, relayVars>>

RecoverySpec ==
  /\ RecoveryInit /\ [][RecoveryNext]_<<part, vars, relayVars, filesVars>>
  /\ Relay!Fairness /\ Fairness /\ Files!Fairness

(* The files on disk are followed, and a restart keeps the certificate     *)
(* that clients have pinned (reload.go, tls.go).                           *)
FilesFollowed == Files!ReloadConverges /\ Files!PinKept
=============================================================================
