--------------------------- MODULE WorkerCluster ---------------------------
(***************************************************************************)
(* What the wake proxy acts on: the worker Deployment and its pods, as     *)
(* the API server, the Deployment controller, the kubelets and Helm change *)
(* them, and the core that runs in each pod, with its admission gate, its  *)
(* sessions and its idle-control endpoint.                                 *)
(*                                                                         *)
(* None of it is code of the proxy crate.  The endpoint is modelled from   *)
(* the fixture in crates/duckflight-idle-proxy/src/tests.rs and from what  *)
(* Backend and IdleStatus in main.rs expect, the objects from the chart's  *)
(* templates (charts/duckflight/templates/deployment.yaml), and the rest   *)
(* from how Kubernetes behaves where the proxy and the chart rely on it.   *)
(*                                                                         *)
(* resourceVersions, UIDs and permits are opaque tokens: r, u and k are    *)
(* new ones, supplied by the module that knows which tokens are in use.    *)
(***************************************************************************)
EXTENDS Integers, FiniteSets

CONSTANTS
    Proxies,      \* proxy incarnations (the owner UUIDs)
    Conns,        \* client connections
    Pods,         \* worker pods
    Uids,         \* Deployment UIDs
    Versions,     \* resourceVersion tokens
    Permits,      \* suspension permits issued by the core
    MaxFaults,    \* bound: how many faults and administrative events a run has
    FaultKinds,   \* which kinds of them it has
    None          \* no token, no pod, no connection, no owner

AllFaults == {"read", "timeout", "crash", "sigterm", "restart", "evict",
              "rollout", "status", "replace", "helm"}

ASSUME TokenAssumption == Versions \subseteq Nat /\ Permits \subseteq Nat
ASSUME NoneAssumption ==
    None \notin Proxies \cup Conns \cup Pods \cup Uids \cup Versions \cup Permits \cup {0, 1}
ASSUME FaultAssumption == MaxFaults \in Nat /\ FaultKinds \subseteq AllFaults

VARIABLES
    dep,          \* the worker Deployment: spec, metadata and rollout state
    pods,         \* the worker pods and the core running in each
    helm,         \* replica count a Helm upgrade looked up and will apply
    faults        \* how many faults have happened

Deployment == [uid : Uids, rv : Versions, owner : Proxies \cup {None},
               replicas : {0, 1}, rolling : BOOLEAN]

Worker == [st : {"absent", "starting", "ready", "deleting"}, boot : Nat,
           permit : Permits \cup {None}, queue : SUBSET Conns, tcp : SUBSET Conns,
           detached : BOOLEAN]

NoPod == [st |-> "absent", boot |-> 0, permit |-> None, queue |-> {}, tcp |-> {},
          detached |-> FALSE]

\* A container that starts: no sessions, and the gate of its core is open.
Booting(b) == [st |-> "starting", boot |-> b, permit |-> None, queue |-> {}, tcp |-> {},
               detached |-> FALSE]

ClusterTypeOK ==
    /\ dep \in Deployment
    /\ pods \in [Pods -> Worker]
    /\ helm \in {None, 0, 1}
    /\ faults \in 0..MaxFaults

\* The chart's cold install: no worker, no owner yet.
ClusterInit(u, r) ==
    /\ dep = [uid |-> u, rv |-> r, owner |-> None, replicas |-> 0, rolling |-> FALSE]
    /\ pods = [p \in Pods |-> NoPod]
    /\ helm = None
    /\ faults = 0

\* One fault of kind k happens in this step.
Fault(k) == /\ k \in FaultKinds
            /\ faults < MaxFaults
            /\ faults' = faults + 1

-----------------------------------------------------------------------------
(* The core in a pod: admission gate, sessions and the idle-control API.    *)

Listening(p) == pods[p].st \in {"ready", "deleting"}
Busy(p) == pods[p].tcp # {} \/ pods[p].detached
GateOpen(p) == pods[p].permit = None

\* POST /suspend closes the gate of a core without activity; k is its permit.
Suspended(p, k) ==
    IF Busy(p) \/ ~GateOpen(p) THEN pods ELSE [pods EXCEPT ![p].permit = k]

\* POST /resume/permit opens it again, for the holder of that permit only.
ResumeAccepted(p, k) == Listening(p) /\ pods[p].permit = k
Resumed(p) == [pods EXCEPT ![p].permit = None]

-----------------------------------------------------------------------------
(* The API server.                                                          *)

Keep == 2         \* a PATCH without spec.replicas

\* A PATCH is applied only to the version and the UID it names.
Applicable(q) == q.uid = dep.uid /\ q.rv = dep.rv

AppliedWholeSpec(q, r) == [dep EXCEPT !.rv = r, !.owner = q.owner, !.replicas = q.replicas]
Applied(q, r) ==
    [dep EXCEPT !.rv = r, !.owner = q.owner,
                !.replicas = IF q.replicas = Keep THEN @ ELSE q.replicas]

Listed == {p \in Pods : pods[p].st # "absent"}

-----------------------------------------------------------------------------
(* The worker's listeners and sessions (the core).                          *)

\* The listener admits a queued socket, unless the gate is closed.
Admit(p, x) ==
    /\ Listening(p) /\ x \in pods[p].queue
    /\ \/ /\ GateOpen(p)
          /\ pods' = [pods EXCEPT ![p].queue = @ \ {x}, ![p].tcp = @ \cup {x}]
       \/ /\ ~GateOpen(p)
          /\ pods' = [pods EXCEPT ![p].queue = @ \ {x}]
    /\ UNCHANGED <<dep, helm, faults>>

\* The worker sees a session's socket closed, or closes it.
SessionEnds(p, x) ==
    /\ x \in pods[p].tcp
    /\ pods' = [pods EXCEPT ![p].tcp = @ \ {x}]
    /\ UNCHANGED <<dep, helm, faults>>

\* A session leaves work behind that outlives its socket; later it ends.
Detach(p) ==
    /\ pods[p].tcp # {} /\ ~pods[p].detached
    /\ pods' = [pods EXCEPT ![p].detached = TRUE]
    /\ UNCHANGED <<dep, helm, faults>>

DetachedEnds(p) ==
    /\ pods[p].detached
    /\ pods' = [pods EXCEPT ![p].detached = FALSE]
    /\ UNCHANGED <<dep, helm, faults>>

-----------------------------------------------------------------------------
(* Kubernetes: the Deployment controller and the kubelets.                  *)

Running == {p \in Pods : pods[p].st \in {"starting", "ready"}}
Starting == {p \in Pods : pods[p].st = "starting"}

\* A pod is created: the worker, its replacement, or the surge of a rollout.
CreatePod(p) ==
    /\ dep.replicas = 1
    /\ Running = {} \/ (dep.rolling /\ Starting = {} /\ Cardinality(Running) = 1)
    /\ pods[p].st = "absent"
    /\ pods' = [pods EXCEPT ![p] = Booting(0)]
    /\ dep' = [dep EXCEPT !.rolling = FALSE]
    /\ UNCHANGED <<helm, faults>>

PodReady(p) ==
    /\ pods[p].st = "starting"
    /\ pods' = [pods EXCEPT ![p].st = "ready"]
    /\ UNCHANGED <<dep, helm, faults>>

\* The Deployment has more pods than it wants: the old ones are deleted.
DeletePod(p) ==
    /\ p \in Running
    /\ \/ dep.replicas = 0
       \/ pods[p].st = "ready" /\ \E o \in Pods \ {p} : pods[o].st = "ready"
    /\ pods' = [pods EXCEPT ![p].st = "deleting"]
    /\ UNCHANGED <<dep, helm, faults>>

PodGone(p) ==
    /\ pods[p].st = "deleting"
    /\ pods' = [pods EXCEPT ![p] = NoPod]
    /\ UNCHANGED <<dep, helm, faults>>

\* A pod is evicted or deleted by hand, or its node is lost.
Evict(p) ==
    /\ p \in Running
    /\ Fault("evict")
    /\ \/ pods' = [pods EXCEPT ![p].st = "deleting"]
       \/ pods' = [pods EXCEPT ![p] = NoPod]
    /\ UNCHANGED <<dep, helm>>

\* The container restarts in place: a new boot of the core, its gate open.
Restart(p) ==
    /\ p \in Running
    /\ Fault("restart")
    /\ pods' = [pods EXCEPT ![p] = Booting(pods[p].boot + 1)]
    /\ UNCHANGED <<dep, helm>>

\* The Deployment's status is written, which changes its resourceVersion.
StatusWritten(r) ==
    /\ Fault("status")
    /\ dep' = [dep EXCEPT !.rv = r]
    /\ UNCHANGED <<pods, helm>>

\* An explicit rollout of the workers.
Rollout(r) ==
    /\ Fault("rollout")
    /\ dep' = [dep EXCEPT !.rv = r, !.rolling = dep.replicas = 1]
    /\ UNCHANGED <<pods, helm>>

\* The release is deleted and installed again, while old pods terminate.
Reinstall(r, u) ==
    /\ Fault("replace")
    /\ dep' = [uid |-> u, rv |-> r, owner |-> None, replicas |-> 0, rolling |-> FALSE]
    /\ pods' = [p \in Pods |-> IF p \in Running
                               THEN [pods[p] EXCEPT !.st = "deleting"] ELSE pods[p]]
    /\ helm' = None

\* helm upgrade: the template looks the replica count up, and what it
\* rendered is applied some time later.
HelmLookup ==
    /\ helm = None
    /\ Fault("helm")
    /\ helm' = dep.replicas
    /\ UNCHANGED <<dep, pods>>

HelmApply(r) ==
    /\ helm # None
    /\ dep' = [dep EXCEPT !.rv = r, !.replicas = helm, !.rolling = helm = 1]
    /\ helm' = None
    /\ UNCHANGED <<pods, faults>>

-----------------------------------------------------------------------------
WorkerStep(p) ==
    \/ \E x \in Conns : Admit(p, x) \/ SessionEnds(p, x)
    \/ Detach(p) \/ DetachedEnds(p)

PodFault(p) == Evict(p) \/ Restart(p)
=============================================================================
