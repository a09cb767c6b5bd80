------------------------ MODULE KubernetesDiscovery ------------------------
(***************************************************************************)
(* Routes to Kubernetes Services (pkg/relay/kubernetes.go) and the part of *)
(* the registry they are kept in (registry.go, UpsertKubernetes and        *)
(* RemoveKubernetes).                                                      *)
(*                                                                         *)
(* The cluster changes by itself.  Two informers report it: Services and,  *)
(* independently, the namespaces that match the selector.  An informer may *)
(* miss intermediate states of an object (a watch that is re-established), *)
(* never the last one.  Every event is handled under the discovery's       *)
(* mutex; the registry is locked for one Service at a time, so that its    *)
(* readers may see an event of a namespace half done.  Hostnames are taken *)
(* as normalised; the labels and the port that a Service must have are one *)
(* flag of it.                                                             *)
(***************************************************************************)
EXTENDS Naturals

CONSTANTS
  Services,   \* Service UIDs
  Hosts,
  Spaces,     \* namespaces
  NoHost,     \* no hostname
  MaxChanges  \* bound on changes of the cluster

VARIABLES
  cluster,    \* UID -> the Service, Absent or Deleted
  labelled,   \* namespaces that exist and match the selector
  services,   \* kubernetesDiscovery.services
  ns,         \* kubernetesDiscovery.ns, those that match
  todo,       \* the Services reconcileAllLocked has still to look at
  byID,       \* kubernetesDiscovery.byID
  routes,     \* Registry.kubernetes: hostname -> UID, or Unrouted
  conflicts,  \* Registry.conflicts: hostname -> the UIDs; {} for no entry
  changes

kubeVars == <<cluster, labelled, services, ns, todo, byID, routes, conflicts, changes>>
-----------------------------------------------------------------------------
Absent == [space |-> NoHost, host |-> NoHost, ready |-> FALSE]
Deleted == [Absent EXCEPT !.ready = TRUE]   \* a UID is not used again
Unrouted == NoHost

Objects == [space : Spaces, host : Hosts, ready : BOOLEAN]

Init ==
  /\ cluster = [s \in Services |-> Absent] /\ labelled = Spaces
  /\ services = [s \in Services |-> Absent] /\ ns = {} /\ todo = {}
  /\ byID = [s \in Services |-> NoHost]
  /\ routes = [h \in Hosts |-> Unrouted] /\ conflicts = [h \in Hosts |-> {}]
  /\ changes = 0

(* The cluster: Services and namespaces come, change and go.               *)
Change ==
  /\ changes < MaxChanges
  /\ changes' = changes + 1
  /\ \/ \E s \in Services, o \in Objects \cup {Deleted} :
          /\ cluster[s] \notin {o, Deleted} /\ (o = Deleted => cluster[s] /= Absent)
          /\ cluster' = [cluster EXCEPT ![s] = o] /\ UNCHANGED labelled
     \/ \E n \in Spaces :
          /\ labelled' = IF n \in labelled THEN labelled \ {n} ELSE labelled \cup {n}
          /\ UNCHANGED cluster
  /\ UNCHANGED <<services, ns, todo, byID, routes, conflicts>>
-----------------------------------------------------------------------------
(* The tables the handlers share, and what the registry does with them.    *)
Tables == [byID |-> byID, routes |-> routes, conflicts |-> conflicts]

MutUpsertKubernetes(t, h, s) ==
  [t EXCEPT !.routes[h] = s]

(* A hostname of two Services is taken from both of them.  The result is   *)
(* an error exactly if the hostname is in conflict afterwards.             *)
UpsertKubernetes(t, h, s) ==
  LET old == t.routes[h] IN
  IF old \notin {Unrouted, s}
    THEN [t EXCEPT !.routes[h] = Unrouted,
                   !.conflicts[h] = (IF @ = {} THEN {old} ELSE @) \cup {s}]
  ELSE IF t.conflicts[h] /= {}
    THEN [t EXCEPT !.conflicts[h] = @ \cup {s}]
    ELSE [t EXCEPT !.routes[h] = s]

(* The last claimant of a conflict gets the route.                         *)
RemoveKubernetes(t, h, s) ==
  LET left == t.conflicts[h] \ {s}
      kept == IF t.routes[h] = s THEN Unrouted ELSE t.routes[h]
  IN  IF \E x \in left : left = {x}
        THEN [t EXCEPT !.routes[h] = CHOOSE x \in left : TRUE, !.conflicts[h] = {}]
        ELSE [t EXCEPT !.routes[h] = kept, !.conflicts[h] = left]

(* endpointLocked                                                          *)
Eligible(o, spaces) == o.space \in spaces /\ o.ready

(* reconcileLocked: a Service that loses its hostname is withdrawn first;  *)
(* one whose registration fails gets no entry in byID.                     *)
Reconcile(t, s, o, spaces) ==
  LET old == t.byID[s]
      ok == Eligible(o, spaces)
      t1 == IF old /= NoHost /\ (~ok \/ old /= o.host)
              THEN [RemoveKubernetes(t, old, s) EXCEPT !.byID[s] = NoHost] ELSE t
      t2 == UpsertKubernetes(t1, o.host, s)
  IN  IF ~ok THEN t1
      ELSE IF t2.conflicts[o.host] /= {} THEN t2
      ELSE [t2 EXCEPT !.byID[s] = o.host]

Store(t) == byID' = t.byID /\ routes' = t.routes /\ conflicts' = t.conflicts
-----------------------------------------------------------------------------
(* putService: the informer reports a Service that is new or has changed.  *)
PutService(s) ==
  /\ todo = {} /\ cluster[s] \notin {Absent, Deleted, services[s]}
  /\ services' = [services EXCEPT ![s] = cluster[s]]
  /\ Store(Reconcile(Tables, s, cluster[s], ns))
  /\ UNCHANGED <<cluster, labelled, ns, todo, changes>>

(* deleteService: a Service without an entry in byID is looked for under   *)
(* the hostname of its last known annotation.                              *)
DeleteService(s) ==
  LET host == IF byID[s] /= NoHost THEN byID[s] ELSE services[s].host IN
  /\ todo = {} /\ cluster[s] = Deleted /\ services[s] /= Absent
  /\ services' = [services EXCEPT ![s] = Absent]
  /\ Store([RemoveKubernetes(Tables, host, s) EXCEPT !.byID[s] = NoHost])
  /\ UNCHANGED <<cluster, labelled, ns, todo, changes>>

(* putNamespace and deleteNamespace: every Service is looked at again, in  *)
(* whatever order the map is walked; nothing else is handled meanwhile.    *)
PutNamespace(n) ==
  /\ todo = {} /\ (n \in labelled) /= (n \in ns)
  /\ ns' = IF n \in labelled THEN ns \cup {n} ELSE ns \ {n}
  /\ todo' = {s \in Services : services[s] /= Absent}
  /\ UNCHANGED <<cluster, labelled, services, byID, routes, conflicts, changes>>

ReconcileAll(s) ==
  /\ s \in todo /\ todo' = todo \ {s}
  /\ Store(Reconcile(Tables, s, services[s], ns))
  /\ UNCHANGED <<cluster, labelled, services, ns, changes>>

Next ==
  \/ Change
  \/ \E s \in Services : PutService(s) \/ DeleteService(s) \/ ReconcileAll(s)
  \/ \E n \in Spaces : PutNamespace(n)

Spec == Init /\ [][Next]_kubeVars
-----------------------------------------------------------------------------
(* The eligible Services of a hostname, without those that are still to be *)
(* looked at after a change of their namespace.                            *)
Claimants(h) ==
  {s \in Services \ todo :
     services[s] /= Absent /\ Eligible(services[s], ns) /\ services[s].host = h}

(* "Multiple distinct Services claiming one hostname deliberately make     *)
(* that hostname unavailable": whatever Services and namespaces come and   *)
(* go in whatever order, a hostname with two eligible claimants routes to  *)
(* neither, and an eligible Service always has its hostname's route or     *)
(* shares in a conflict over it.  (It may share in one that is over, and   *)
(* a loser that is no longer eligible may inherit the route: byID does not *)
(* remember the losers of a conflict.)                                     *)
NoArbitraryChoice ==
  \A h \in Hosts :
    /\ \A s, r \in Claimants(h) : s /= r => routes[h] = Unrouted
    /\ \A s \in Claimants(h) : routes[h] = s \/ s \in conflicts[h]
    /\ \A s \in Services : conflicts[h] /= {s}
    /\ conflicts[h] /= {} => routes[h] = Unrouted
=============================================================================
