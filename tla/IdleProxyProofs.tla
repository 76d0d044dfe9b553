-------------------------- MODULE IdleProxyProofs --------------------------
(***************************************************************************)
(* Theorems about IdleProxy, for every number of proxies, connections and  *)
(* pods, every bound on faults and every kind of them.                     *)
(***************************************************************************)
EXTENDS IdleProxy, TLAPS

-----------------------------------------------------------------------------
(* The inductive form of TypeOK.  It adds that whoever talks to a worker    *)
(* knows which pod it talks to.                                             *)

\* An operation o suspended at the await a holds a pod in its locals.  (An idle
\* tick is never at pods0; it would go on to scale without a pod from there.)
NeedsPod(o, a) == \/ a \in {"status", "suspending", "resuming"}
                  \/ o = "recover"
                  \/ o = "idle" /\ a \in {"pods0", "scaling"}

HolderTypeOK ==
    /\ op \in [Proxies -> Ops]
    /\ pc \in [Proxies -> Awaits]
    /\ loc \in [Proxies -> Locals]
    /\ \A c \in Proxies : NeedsPod(op[c], pc[c]) => loc[c].pod \in Pods

ControllerTypeOK ==
    /\ phase \in [Proxies -> Phases]
    /\ uid \in [Proxies -> Uids \cup {None}]
    /\ needsFence \in [Proxies -> BOOLEAN]
    /\ connections \in [Proxies -> Int]
    /\ idleSince \in [Proxies -> Clock \cup {None}]

ConnTypeOK == conn \in [Conns -> Task]

\* A late request, like every request, is for a known pod unless it is a PATCH.
PodKnown(q) == q.kind # "patch" => q.pod \in Pods
LateTypeOK == net \subseteq {q \in Request : PodKnown(q)}

TypeInv == ClusterTypeOK /\ ControllerTypeOK /\ HolderTypeOK /\ ConnTypeOK /\ LateTypeOK

-----------------------------------------------------------------------------
(* Updates of one field of a record keep its type.                          *)

\* The fields of a pod record, one by one.
LEMMA WorkerFields ==
    ASSUME NEW v \in Worker
    PROVE  v.queue \in SUBSET Conns /\ v.tcp \in SUBSET Conns /\ v.boot \in Nat
           /\ v.permit \in Permits \cup {None}
BY DEF Worker

\* A pod that changes its state (ready, deleting) is still a pod record.
LEMMA WorkerSt ==
    ASSUME NEW v \in Worker, NEW s \in {"absent", "starting", "ready", "deleting"}
    PROVE  [v EXCEPT !.st = s] \in Worker
BY DEF Worker

\* A core that closes or opens its admission gate is still a pod record.
LEMMA WorkerPermit ==
    ASSUME NEW v \in Worker, NEW k \in Permits \cup {None}
    PROVE  [v EXCEPT !.permit = k] \in Worker
BY DEF Worker

\* A core whose detached work starts or ends is still a pod record.
LEMMA WorkerDetached ==
    ASSUME NEW v \in Worker, NEW b \in BOOLEAN
    PROVE  [v EXCEPT !.detached = b] \in Worker
BY DEF Worker

\* A core that queues, admits or drops sockets is still a pod record.
LEMMA WorkerSockets ==
    ASSUME NEW v \in Worker, NEW Q \in SUBSET Conns, NEW T \in SUBSET Conns
    PROVE  /\ [v EXCEPT !.queue = Q] \in Worker
           /\ [v EXCEPT !.tcp = T] \in Worker
           /\ [v EXCEPT !.queue = Q, !.tcp = T] \in Worker
BY DEF Worker

\* A pod slot that is empty, or whose container just started, is a pod record.
LEMMA NewWorker == NoPod \in Worker /\ \A b \in Nat : Booting(b) \in Worker
BY DEF Worker, NoPod, Booting

\* The fields of the Deployment that the proxy reads.
LEMMA DeploymentFields ==
    ASSUME NEW d \in Deployment
    PROVE  d.rv \in Versions /\ d.uid \in Uids /\ d.replicas \in {0, 1}
BY DEF Deployment

\* The locals of an operation that holds the lock, one by one.
LEMMA LocalsFields ==
    ASSUME NEW l \in Locals
    PROVE  /\ l.rv \in Versions \cup {None} /\ l.pod \in Pods \cup {None}
           /\ l.boot \in Nat /\ l.permit \in Permits \cup {None}
BY DEF Locals

\* Remembering a resourceVersion changes no other local.
LEMMA LocalsRv ==
    ASSUME NEW l \in Locals, NEW v \in Versions \cup {None}
    PROVE  [l EXCEPT !.rv = v] \in Locals /\ [l EXCEPT !.rv = v].pod = l.pod
BY DEF Locals

\* Remembering the backend keeps the locals well formed.
LEMMA LocalsPod ==
    ASSUME NEW l \in Locals, NEW p \in Pods
    PROVE  [l EXCEPT !.pod = p] \in Locals /\ [l EXCEPT !.pod = p].pod = p
BY DEF Locals

\* Remembering the boot id of a status changes no other local.
LEMMA LocalsBoot ==
    ASSUME NEW l \in Locals, NEW b \in Nat
    PROVE  [l EXCEPT !.boot = b] \in Locals /\ [l EXCEPT !.boot = b].pod = l.pod
BY DEF Locals

\* Remembering a permit, with or without a version, changes no other local.
LEMMA LocalsPermit ==
    ASSUME NEW l \in Locals, NEW k \in Permits \cup {None}, NEW v \in Versions \cup {None}
    PROVE  /\ [l EXCEPT !.permit = k] \in Locals
           /\ [l EXCEPT !.permit = k].pod = l.pod
           /\ [l EXCEPT !.permit = k, !.rv = v] \in Locals
           /\ [l EXCEPT !.permit = k, !.rv = v].pod = l.pod
BY DEF Locals

\* An operation starts with well-formed locals.
LEMMA NewLocals == NoLoc \in Locals /\ \A x \in Conns : [NoLoc EXCEPT !.conn = x] \in Locals
BY DEF Locals, NoLoc

-----------------------------------------------------------------------------
(* Requests.                                                                *)

\* The PATCH of fence() or scale() is a request.
LEMMA PatchType ==
    ASSUME TypeInv, NEW c \in Proxies
    PROVE  PatchOf(c) \in {q \in Request : PodKnown(q)}
<1>1. loc[c].rv \in Versions \cup {None} /\ uid[c] \in Uids \cup {None} /\ faults \in 0..MaxFaults
  BY LocalsFields DEF TypeInv, HolderTypeOK, ControllerTypeOK, ClusterTypeOK
<1> QED BY <1>1 DEF PatchOf, WriteOf, ScaleTo, Request, Keep, PodKnown

\* The POST of a suspend or resume is a request, and it names a pod.
LEMMA ControlType ==
    ASSUME TypeInv, NEW c \in Proxies, pc[c] \in {"suspending", "resuming"}
    PROVE  ControlOf(c) \in {q \in Request : PodKnown(q)}
<1>1. loc[c].pod \in Pods /\ loc[c].permit \in Permits \cup {None} /\ faults \in 0..MaxFaults
  BY LocalsFields DEF TypeInv, HolderTypeOK, ClusterTypeOK, NeedsPod
<1> QED BY <1>1 DEF ControlOf, Request, Keep, PodKnown

\* What a process leaves behind when it is killed is a request.
LEMMA InFlightType ==
    ASSUME TypeInv, NEW c \in Proxies
    PROVE  InFlight(c) \subseteq {q \in Request : PodKnown(q)}
BY PatchType, ControlType DEF InFlight

\* The API server turns a PATCH into a well-formed Deployment.
LEMMA AppliedType ==
    ASSUME dep \in Deployment, NEW q \in Request, NEW r \in Versions
    PROVE  Applied(q, r) \in Deployment
BY DEF Applied, Request, Deployment, Keep

\* POST /suspend leaves every pod well formed.
LEMMA SuspendedType ==
    ASSUME pods \in [Pods -> Worker], NEW p \in Pods, NEW k \in Permits
    PROVE  Suspended(p, k) \in [Pods -> Worker]
BY WorkerPermit DEF Suspended

\* POST /resume leaves every pod well formed.
LEMMA ResumedType ==
    ASSUME pods \in [Pods -> Worker], NEW p \in Pods
    PROVE  Resumed(p) \in [Pods -> Worker]
BY WorkerPermit DEF Resumed

-----------------------------------------------------------------------------
(* The moves of an operation that holds the lock.                           *)

\* Going on to the next await keeps the lock holder well formed.
LEMMA GotoType ==
    ASSUME HolderTypeOK, NEW c \in Proxies, NEW a \in Awaits,
           UNCHANGED <<op, loc>>, Goto(c, a),
           NeedsPod(op[c], a) => loc[c].pod \in Pods
    PROVE  HolderTypeOK'
BY DEF HolderTypeOK, Goto

\* So does going on to it with new locals.
LEMMA GotoWithType ==
    ASSUME HolderTypeOK, NEW c \in Proxies, NEW a \in Awaits, NEW l \in Locals,
           UNCHANGED op, Goto(c, a), loc' = [loc EXCEPT ![c] = l],
           NeedsPod(op[c], a) => l.pod \in Pods
    PROVE  HolderTypeOK'
BY DEF HolderTypeOK, Goto

\* So does dropping the controller lock.
LEMMA ReleaseType ==
    ASSUME HolderTypeOK, NEW c \in Proxies, Release(c)
    PROVE  HolderTypeOK'
BY NewLocals DEF HolderTypeOK, NeedsPod, Release, Ops, Awaits

\* So does taking it for an idle tick or a wake.
LEMMA HoldType ==
    ASSUME HolderTypeOK, NEW c \in Proxies, NEW o \in {"idle", "wake"}, NEW l \in Locals,
           Hold(c, o, l)
    PROVE  HolderTypeOK'
BY DEF HolderTypeOK, NeedsPod, Hold, FirstAwait, Ops, Awaits

\* An operation that returns an error leaves the proxy well formed.
LEMMA FailType ==
    ASSUME TypeInv, NEW c \in Proxies, Fail(c)
    PROVE  ControllerTypeOK' /\ HolderTypeOK' /\ ConnTypeOK'
<1>1. ControllerTypeOK'
  BY DEF Fail, TypeInv, ControllerTypeOK, Phases
<1>2. HolderTypeOK'
  BY ReleaseType DEF Fail, TypeInv
<1>3. ConnTypeOK'
  BY DEF Fail, TypeInv, ConnTypeOK, NoConn, Task
<1> QED BY <1>1, <1>2, <1>3

\* So does an idle tick that returns with its clock stopped.
LEMMA StopClockType ==
    ASSUME TypeInv, NEW c \in Proxies, StopClock(c), UNCHANGED <<phase, uid, connections>>,
           needsFence' \in [Proxies -> BOOLEAN]
    PROVE  ControllerTypeOK' /\ HolderTypeOK'
BY ReleaseType DEF StopClock, TypeInv, ControllerTypeOK

\* So does a wake that returns its backend.
LEMMA ReturnBackendType ==
    ASSUME TypeInv, NEW c \in Proxies, loc[c].pod \in Pods, ReturnBackend(c)
    PROVE  HolderTypeOK' /\ ConnTypeOK'
<1>1. HolderTypeOK'
  BY ReleaseType DEF ReturnBackend, TypeInv
<1>2. [px |-> c, st |-> "connect", pod |-> loc[c].pod] \in Task
  BY DEF Task
<1>3. ConnTypeOK'
  BY <1>2 DEF ReturnBackend, TypeInv, ConnTypeOK
<1> QED BY <1>1, <1>3

-----------------------------------------------------------------------------
(* The type invariant is inductive.                                         *)

\* A cold install is well formed.
LEMMA TypeInit == Init => TypeInv
<1> SUFFICES ASSUME Init PROVE TypeInv
  OBVIOUS
<1>1. ClusterTypeOK
  <2>1. PICK u \in Uids, r \in Versions : ClusterInit(u, r)
    BY DEF Init
  <2>2. dep \in Deployment
    BY <2>1 DEF ClusterInit, Deployment
  <2> QED BY <2>1, <2>2, NewWorker, FaultAssumption DEF ClusterInit, ClusterTypeOK
<1>2. ControllerTypeOK
  BY DEF Init, ControllerTypeOK, Phases
<1>3. HolderTypeOK
  BY NewLocals DEF Init, HolderTypeOK, NeedsPod, Ops, Awaits
<1>4. ConnTypeOK
  BY DEF Init, ConnTypeOK, NoConn, Task
<1>5. LateTypeOK
  BY DEF Init, LateTypeOK
<1> QED BY <1>1, <1>2, <1>3, <1>4, <1>5 DEF TypeInv

\* The parts of the invariant about proxies hold while proxies are unchanged.
LEMMA ProxiesUnchanged ==
    ASSUME TypeInv, UNCHANGED proxies
    PROVE  ControllerTypeOK' /\ HolderTypeOK' /\ ConnTypeOK' /\ LateTypeOK'
BY DEF TypeInv, proxies, ControllerTypeOK, HolderTypeOK, ConnTypeOK, LateTypeOK

\* A step of a worker or of the cluster around it on one pod.
LEMMA TypePod ==
    ASSUME ClusterTypeOK, NEW p \in Pods, WorkerStep(p) \/ PodStep(p) \/ PodFault(p)
    PROVE  ClusterTypeOK'
<1>0. pods[p] \in Worker
  BY DEF ClusterTypeOK
<1>1. ASSUME NEW x \in Conns, Admit(p, x) PROVE ClusterTypeOK'
  <2>1. /\ [pods[p] EXCEPT !.queue = @ \ {x}] \in Worker
        /\ [pods[p] EXCEPT !.queue = @ \ {x}, !.tcp = @ \cup {x}] \in Worker
    BY <1>0, WorkerFields, WorkerSockets
  <2> QED BY <1>1, <2>1 DEF Admit, ClusterTypeOK
<1>2. ASSUME NEW x \in Conns, SessionEnds(p, x) PROVE ClusterTypeOK'
  BY <1>0, <1>2, WorkerFields, WorkerSockets DEF SessionEnds, ClusterTypeOK
<1>3. CASE Detach(p)
  BY <1>0, <1>3, WorkerDetached DEF Detach, ClusterTypeOK
<1>4. CASE DetachedEnds(p)
  BY <1>0, <1>4, WorkerDetached DEF DetachedEnds, ClusterTypeOK
<1>5. CASE CreateWorker(p)
  <2>1. dep' \in Deployment
    BY <1>5 DEF CreateWorker, CreatePod, ClusterTypeOK, Deployment
  <2>2. pods' \in [Pods -> Worker]
    BY <1>5, NewWorker DEF CreateWorker, CreatePod, ClusterTypeOK
  <2> QED BY <1>5, <2>1, <2>2 DEF CreateWorker, CreatePod, ClusterTypeOK
<1>6. CASE PodReady(p)
  BY <1>0, <1>6, WorkerSt DEF PodReady, ClusterTypeOK
<1>7. CASE DeletePod(p)
  BY <1>0, <1>7, WorkerSt DEF DeletePod, ClusterTypeOK
<1>8. CASE PodGone(p)
  BY <1>8, NewWorker DEF PodGone, ClusterTypeOK
<1>9. CASE Evict(p)
  <2>1. [pods[p] EXCEPT !.st = "deleting"] \in Worker
    BY <1>0, WorkerSt
  <2>2. pods' \in [Pods -> Worker]
    BY <1>9, <2>1, NewWorker DEF Evict, ClusterTypeOK
  <2> QED BY <1>9, <2>2, FaultAssumption DEF Evict, Fault, ClusterTypeOK
<1>10. CASE Restart(p)
  <2>1. pods[p].boot + 1 \in Nat
    BY <1>0, WorkerFields
  <2>2. pods' \in [Pods -> Worker]
    BY <1>10, <2>1, NewWorker DEF Restart, ClusterTypeOK
  <2> QED BY <1>10, <2>2, FaultAssumption DEF Restart, Fault, ClusterTypeOK
<1> QED BY <1>1, <1>2, <1>3, <1>4, <1>5, <1>6, <1>7, <1>8, <1>9, <1>10
        DEF WorkerStep, PodStep, PodFault

\* An administrative change keeps the cluster well formed.
LEMMA TypeAdministration ==
    ASSUME ClusterTypeOK, Administration
    PROVE  ClusterTypeOK'
<1>1. ASSUME NEW r \in Versions, StatusWritten(r) PROVE ClusterTypeOK'
  <2>1. dep' \in Deployment
    BY <1>1 DEF StatusWritten, ClusterTypeOK, Deployment
  <2> QED BY <1>1, <2>1, FaultAssumption DEF StatusWritten, Fault, ClusterTypeOK
<1>2. ASSUME NEW r \in Versions, Rollout(r) PROVE ClusterTypeOK'
  <2>1. dep' \in Deployment
    BY <1>2 DEF Rollout, ClusterTypeOK, Deployment
  <2> QED BY <1>2, <2>1, FaultAssumption DEF Rollout, Fault, ClusterTypeOK
<1>3. ASSUME NEW r \in Versions, HelmApply(r) PROVE ClusterTypeOK'
  <2>1. dep' \in Deployment
    BY <1>3 DEF HelmApply, ClusterTypeOK, Deployment
  <2> QED BY <1>3, <2>1 DEF HelmApply, ClusterTypeOK
<1>4. ASSUME NEW r \in Versions, NEW u \in Uids, Reinstall(r, u) PROVE ClusterTypeOK'
  <2>1. dep' \in Deployment
    BY <1>4 DEF Reinstall, Deployment
  <2>2. pods' \in [Pods -> Worker]
    <3>1. \A p \in Pods : [pods[p] EXCEPT !.st = "deleting"] \in Worker
      BY WorkerSt DEF ClusterTypeOK
    <3> QED BY <1>4, <3>1 DEF Reinstall, ClusterTypeOK
  <2> QED BY <1>4, <2>1, <2>2, FaultAssumption DEF Reinstall, Fault, ClusterTypeOK
<1>5. CASE HelmLookup
  <2>1. dep.replicas \in {0, 1}
    BY DeploymentFields DEF ClusterTypeOK
  <2> QED BY <1>5, <2>1, FaultAssumption DEF HelmLookup, Fault, ClusterTypeOK
<1> QED BY <1>1, <1>2, <1>3, <1>4, <1>5 DEF Administration

\* Every step of Kubernetes, the workers and the administrator keeps the invariant.
LEMMA TypeCluster ==
    ASSUME TypeInv, ClusterStep
    PROVE  TypeInv'
<1>1. ClusterTypeOK'
  BY TypePod, TypeAdministration DEF ClusterStep, TypeInv
<1>2. UNCHANGED proxies
  BY DEF ClusterStep
<1> QED BY <1>1, <1>2, ProxiesUnchanged DEF TypeInv

\* A step of a proxy that leaves the cluster and the late requests alone.
LEMMA ClusterUnchanged ==
    ASSUME TypeInv, UNCHANGED <<cluster, faults>>
    PROVE  ClusterTypeOK'
BY DEF TypeInv, ClusterTypeOK, cluster

\* Late requests that nobody touches stay well formed.
LEMMA LateUnchanged ==
    ASSUME TypeInv, UNCHANGED net
    PROVE  LateTypeOK'
BY DEF TypeInv, LateTypeOK

\* Counting a fault stays within the bound.
LEMMA FaultType ==
    ASSUME TypeInv, NEW k, Fault(k)
    PROVE  faults' \in 0..MaxFaults
BY FaultAssumption DEF TypeInv, ClusterTypeOK, Fault

\* Process life cycle and idle clock.
LEMMA TypeProcess ==
    ASSUME TypeInv, NEW c \in Proxies,
           Start(c) \/ Exit(c) \/ Crash(c) \/ Sigterm(c) \/ IdleTick(c) \/ IdleElapses(c)
    PROVE  TypeInv'
<1>1. CASE Start(c)
  <2>1. ControllerTypeOK'
    BY <1>1, DeploymentFields DEF Start, TypeInv, ClusterTypeOK, ControllerTypeOK, Phases
  <2>2. HolderTypeOK'
    BY <1>1, NewLocals DEF Start, TypeInv, HolderTypeOK, NeedsPod, Ops, Awaits
  <2>3. ConnTypeOK'
    BY <1>1 DEF Start, TypeInv, ConnTypeOK
  <2> QED BY <1>1, <2>1, <2>2, <2>3, ClusterUnchanged, LateUnchanged DEF Start, TypeInv
<1>2. CASE Exit(c)
  <2>1. ControllerTypeOK'
    BY <1>2 DEF Exit, Forget, TypeInv, ControllerTypeOK, Phases
  <2>2. HolderTypeOK'
    BY <1>2, ReleaseType DEF Exit, Forget, TypeInv
  <2>3. ConnTypeOK'
    BY <1>2 DEF Exit, TypeInv, ConnTypeOK
  <2> QED BY <1>2, <2>1, <2>2, <2>3, ClusterUnchanged, LateUnchanged DEF Exit, TypeInv
<1>3. CASE Crash(c)
  <2>1. ControllerTypeOK'
    BY <1>3 DEF Crash, Forget, TypeInv, ControllerTypeOK, Phases
  <2>2. HolderTypeOK'
    BY <1>3, ReleaseType DEF Crash, Forget, TypeInv
  <2>3. ConnTypeOK'
    BY <1>3 DEF Crash, TypeInv, ConnTypeOK, NoConn, Task
  <2>4. LateTypeOK'
    BY <1>3, InFlightType DEF Crash, TypeInv, LateTypeOK
  <2>5. ClusterTypeOK'
    BY <1>3, FaultType DEF Crash, TypeInv, ClusterTypeOK, cluster
  <2> QED BY <2>1, <2>2, <2>3, <2>4, <2>5 DEF TypeInv
<1>4. CASE Sigterm(c)
  <2>1. ControllerTypeOK'
    BY <1>4 DEF Sigterm, controller, TypeInv, ControllerTypeOK, Phases
  <2>2. HolderTypeOK'
    <3>1. CASE Release(c)
      BY <3>1, ReleaseType DEF TypeInv
    <3>2. CASE UNCHANGED holder
      BY <3>2 DEF holder, TypeInv, HolderTypeOK
    <3> QED BY <1>4, <3>1, <3>2 DEF Sigterm
  <2>3. ConnTypeOK'
    BY <1>4 DEF Sigterm, TypeInv, ConnTypeOK
  <2>4. LateTypeOK'
    BY <1>4, InFlightType DEF Sigterm, TypeInv, LateTypeOK
  <2>5. ClusterTypeOK'
    BY <1>4, FaultType DEF Sigterm, TypeInv, ClusterTypeOK, cluster
  <2> QED BY <2>1, <2>2, <2>3, <2>4, <2>5 DEF TypeInv
<1>5. CASE IdleTick(c)
  <2>1. ControllerTypeOK'
    BY <1>5 DEF IdleTick, TypeInv, ControllerTypeOK
  <2>2. HolderTypeOK'
    <3>1. CASE Hold(c, "idle", NoLoc)
      BY <3>1, HoldType, NewLocals DEF TypeInv
    <3>2. CASE UNCHANGED holder
      BY <3>2 DEF holder, TypeInv, HolderTypeOK
    <3> QED BY <1>5, <3>1, <3>2 DEF IdleTick
  <2>3. ConnTypeOK'
    BY <1>5 DEF IdleTick, TypeInv, ConnTypeOK
  <2> QED BY <1>5, <2>1, <2>2, <2>3, ClusterUnchanged, LateUnchanged DEF IdleTick, TypeInv
<1>6. CASE IdleElapses(c)
  <2>1. ControllerTypeOK'
    <3>1. idleSince[c] \in Clock => [idleSince[c] EXCEPT !.elapsed = TRUE] \in Clock
      BY DEF Clock
    <3> QED BY <1>6, <3>1 DEF IdleElapses, TypeInv, ControllerTypeOK
  <2>2. HolderTypeOK'
    BY <1>6 DEF IdleElapses, holder, TypeInv, HolderTypeOK
  <2>3. ConnTypeOK'
    BY <1>6 DEF IdleElapses, TypeInv, ConnTypeOK
  <2> QED BY <1>6, <2>1, <2>2, <2>3, ClusterUnchanged, LateUnchanged DEF IdleElapses, TypeInv
<1> QED BY <1>1, <1>2, <1>3, <1>4, <1>5, <1>6

\* The reads: fence, current, the pod lists, the retry loop and its deadline.
LEMMA TypeReads ==
    ASSUME TypeInv, NEW c \in Proxies,
           \/ Fence(c) \/ Current(c) \/ ListSleeping(c) \/ ListAwake(c)
           \/ Retry(c) \/ ColdStartTimeout(c) \/ ReadFails(c)
    PROVE  TypeInv'
<1>0. /\ loc[c] \in Locals /\ op[c] \in Ops /\ dep.rv \in Versions
      /\ NeedsPod(op[c], pc[c]) => loc[c].pod \in Pods
  BY DeploymentFields DEF TypeInv, ClusterTypeOK, HolderTypeOK
<1>1. CASE Fence(c)
  <2>1. CASE Fail(c)
    BY <1>1, <2>1, FailType, ClusterUnchanged, LateUnchanged DEF Fence, TypeInv
  <2>2. CASE CurrentOk(c)
    <3>1. HolderTypeOK'
      BY <1>0, <1>1, <2>2, LocalsRv, GotoWithType DEF Fence, TypeInv, NeedsPod, Awaits
    <3>2. ControllerTypeOK' /\ ConnTypeOK'
      BY <1>1, <2>2 DEF Fence, TypeInv, ControllerTypeOK, ConnTypeOK
    <3> QED BY <1>1, <3>1, <3>2, ClusterUnchanged, LateUnchanged DEF Fence, TypeInv
  <2> QED BY <1>1, <2>1, <2>2 DEF Fence
<1>2. CASE Current(c)
  <2>1. CASE Fail(c)
    BY <1>2, <2>1, FailType, ClusterUnchanged, LateUnchanged DEF Current, TypeInv
  <2>2. CASE StopClock(c) /\ UNCHANGED <<phase, uid, needsFence, connections, conn>>
    <3>1. ControllerTypeOK' /\ HolderTypeOK' /\ ConnTypeOK'
      BY <2>2, StopClockType DEF TypeInv, ControllerTypeOK, ConnTypeOK
    <3> QED BY <1>2, <3>1, ClusterUnchanged, LateUnchanged DEF Current, TypeInv
  <2>3. CASE \E a \in {"resuming", "pods0", "pods1"}, v \in Versions \cup {None} :
               /\ Goto(c, a) /\ loc' = [loc EXCEPT ![c].rv = v]
               /\ a = "resuming" => op[c] = "recover"
               /\ a = "pods0" => op[c] # "idle"
               /\ UNCHANGED <<phase, uid, needsFence, connections, idleSince, op, conn>>
    <3>1. HolderTypeOK'
      <4>1. PICK a \in {"resuming", "pods0", "pods1"}, v \in Versions \cup {None} :
               /\ Goto(c, a) /\ loc' = [loc EXCEPT ![c].rv = v] /\ UNCHANGED op
               /\ a = "resuming" => op[c] = "recover"
               /\ a = "pods0" => op[c] # "idle"
        BY <2>3
      <4> DEFINE l == [loc[c] EXCEPT !.rv = v]
      <4>2. l \in Locals /\ l.pod = loc[c].pod
        BY <1>0, LocalsRv
      <4>3. loc' = [loc EXCEPT ![c] = l]
        BY <4>1
      <4> HIDE DEF l
      <4>4. a \in Awaits /\ (NeedsPod(op[c], a) => l.pod \in Pods)
        BY <1>0, <1>2, <4>1, <4>2 DEF Current, NeedsPod, Awaits
      <4> QED BY <4>1, <4>2, <4>3, <4>4, GotoWithType DEF TypeInv
    <3>2. ControllerTypeOK' /\ ConnTypeOK'
      BY <2>3 DEF TypeInv, ControllerTypeOK, ConnTypeOK
    <3> QED BY <1>2, <3>1, <3>2, ClusterUnchanged, LateUnchanged DEF Current, TypeInv
  <2> DEFINE where == IF op[c] = "recover" THEN "resuming"
                      ELSE IF dep.replicas = 0 THEN "pods0" ELSE "pods1"
             version == IF op[c] = "idle" \/ dep.replicas = 0 THEN dep.rv ELSE None
  <2>4. CASE /\ ~Fail(c) /\ ~StopClock(c)
             /\ ~(op[c] = "idle" /\ dep.replicas = 0)
    <3>1. /\ Goto(c, where) /\ loc' = [loc EXCEPT ![c].rv = version]
          /\ UNCHANGED <<phase, uid, needsFence, connections, idleSince, op, conn>>
      BY <1>2, <2>4 DEF Current
    <3>2. /\ where \in {"resuming", "pods0", "pods1"} /\ version \in Versions \cup {None}
          /\ where = "resuming" => op[c] = "recover"
          /\ where = "pods0" => op[c] # "idle"
      BY <1>0, <2>4
    <3> HIDE DEF where, version
    <3> QED BY <2>3, <3>1, <3>2
  <2> QED BY <1>2, <2>1, <2>2, <2>4 DEF Current
<1>3. CASE ListSleeping(c)
  <2>1. HolderTypeOK'
    <3>1. CASE Goto(c, "scaling") /\ UNCHANGED loc
      BY <1>3, <1>0, <3>1, GotoType DEF ListSleeping, TypeInv, NeedsPod, Awaits
    <3>2. CASE Goto(c, "retry") /\ loc' = [loc EXCEPT ![c].rv = None]
      BY <1>0, <1>3, <3>2, LocalsRv, GotoWithType DEF ListSleeping, TypeInv, NeedsPod, Awaits
    <3> QED BY <1>3, <3>1, <3>2 DEF ListSleeping
  <2>2. ControllerTypeOK' /\ ConnTypeOK'
    BY <1>3 DEF ListSleeping, TypeInv, ControllerTypeOK, ConnTypeOK
  <2> QED BY <1>3, <2>1, <2>2, ClusterUnchanged, LateUnchanged DEF ListSleeping, TypeInv
<1>4. CASE ListAwake(c)
  <2>1. CASE StopClock(c)
    <3>1. ControllerTypeOK' /\ HolderTypeOK'
      BY <1>4, <2>1, StopClockType DEF ListAwake, TypeInv, ControllerTypeOK
    <3>2. ConnTypeOK'
      BY <1>4 DEF ListAwake, TypeInv, ConnTypeOK
    <3> QED BY <1>4, <3>1, <3>2, ClusterUnchanged, LateUnchanged DEF ListAwake, TypeInv
  <2>2. CASE ~StopClock(c)
    <3>1. HolderTypeOK'
      <4>1. CASE \E p \in Pods : Goto(c, "status") /\ loc' = [loc EXCEPT ![c].pod = p]
        BY <1>0, <1>4, <2>2, <4>1, LocalsPod, GotoWithType DEF ListAwake, TypeInv, Awaits
      <4>2. CASE op[c] = "wake" /\ Goto(c, "retry") /\ UNCHANGED loc
        BY <1>4, <2>2, <4>2, GotoType DEF ListAwake, TypeInv, NeedsPod, Awaits
      <4> QED BY <1>4, <2>2, <4>1, <4>2 DEF ListAwake
    <3>2. ControllerTypeOK' /\ ConnTypeOK'
      BY <1>4, <2>2 DEF ListAwake, TypeInv, ControllerTypeOK, ConnTypeOK
    <3> QED BY <1>4, <3>1, <3>2, ClusterUnchanged, LateUnchanged DEF ListAwake, TypeInv
  <2> QED BY <2>1, <2>2
<1>5. CASE Retry(c)
  <2>1. HolderTypeOK'
    BY <1>0, <1>5, GotoType DEF Retry, FirstAwait, TypeInv, NeedsPod, Awaits
  <2>2. ControllerTypeOK' /\ ConnTypeOK'
    BY <1>5 DEF Retry, controller, TypeInv, ControllerTypeOK, ConnTypeOK
  <2> QED BY <1>5, <2>1, <2>2, ClusterUnchanged, LateUnchanged DEF Retry, TypeInv
<1>6. CASE ColdStartTimeout(c)
  BY <1>6, FailType, ClusterUnchanged, LateUnchanged DEF ColdStartTimeout, TypeInv
<1>7. CASE ReadFails(c)
  <2>1. ClusterTypeOK'
    BY <1>7, FaultType DEF ReadFails, cluster, TypeInv, ClusterTypeOK
  <2> QED BY <1>7, <2>1, FailType, LateUnchanged DEF ReadFails, TypeInv
<1> QED BY <1>1, <1>2, <1>3, <1>4, <1>5, <1>6, <1>7

\* A failed PATCH, with its recovery, leaves the proxy well formed.
LEMMA PatchFailedType ==
    ASSUME TypeInv, NEW c \in Proxies, PatchFailed(c)
    PROVE  ControllerTypeOK' /\ HolderTypeOK' /\ ConnTypeOK'
<1>1. CASE Fail(c)
  BY <1>1, FailType
<1>2. CASE op[c] = "idle" /\ pc[c] = "scaling"
  <2>1. loc[c] \in Locals /\ loc[c].pod \in Pods
    BY <1>2 DEF TypeInv, HolderTypeOK, NeedsPod
  <2>2. [loc[c] EXCEPT !.rv = None] \in Locals /\ [loc[c] EXCEPT !.rv = None].pod \in Pods
    BY <2>1, LocalsRv
  <2>3. HolderTypeOK'
    BY <1>2, <2>2 DEF PatchFailed, Goto, TypeInv, HolderTypeOK, NeedsPod, Ops, Awaits
  <2>4. ControllerTypeOK' /\ ConnTypeOK'
    BY <1>2 DEF PatchFailed, controller, TypeInv, ControllerTypeOK, ConnTypeOK
  <2> QED BY <2>3, <2>4
<1> QED BY <1>1, <1>2 DEF PatchFailed

\* What follows a fence that succeeded leaves the proxy well formed.
LEMMA FencedType ==
    ASSUME TypeInv, NEW c \in Proxies, pc[c] = "fencing", Fenced(c)
    PROVE  ControllerTypeOK' /\ HolderTypeOK' /\ ConnTypeOK'
<1>0. /\ loc[c] \in Locals
      /\ NeedsPod(op[c], pc[c]) => loc[c].pod \in Pods
  BY DEF TypeInv, HolderTypeOK
<1>1. ControllerTypeOK'
  BY DEF Fenced, StopClock, TypeInv, ControllerTypeOK, Phases
<1>2. HolderTypeOK'
  <2>1. CASE Release(c)
    BY <2>1, ReleaseType DEF TypeInv
  <2>2. CASE StopClock(c)
    BY <2>2, ReleaseType DEF StopClock, TypeInv
  <2>3. CASE Goto(c, "current") /\ loc' = [loc EXCEPT ![c].rv = None] /\ UNCHANGED op
    BY <1>0, <2>3, LocalsRv, GotoWithType DEF TypeInv, NeedsPod, Awaits
  <2> QED BY <2>1, <2>2, <2>3 DEF Fenced
<1>3. ConnTypeOK'
  BY DEF Fenced, TypeInv, ConnTypeOK
<1> QED BY <1>1, <1>2, <1>3

\* What follows a scale that succeeded leaves the proxy well formed.
LEMMA ScaledType ==
    ASSUME TypeInv, NEW c \in Proxies, pc[c] = "scaling", Scaled(c)
    PROVE  ControllerTypeOK' /\ HolderTypeOK' /\ ConnTypeOK'
<1>0. loc[c] \in Locals
  BY DEF TypeInv, HolderTypeOK
<1>1. ControllerTypeOK'
  BY DEF Scaled, StopClock, TypeInv, ControllerTypeOK
<1>2. HolderTypeOK'
  <2>1. CASE StopClock(c)
    BY <2>1, ReleaseType DEF StopClock, TypeInv
  <2>2. CASE op[c] = "wake" /\ Goto(c, "retry") /\ loc' = [loc EXCEPT ![c].rv = None] /\ UNCHANGED op
    BY <1>0, <2>2, LocalsRv, GotoWithType DEF TypeInv, NeedsPod, Awaits
  <2> QED BY <2>1, <2>2 DEF Scaled
<1>3. ConnTypeOK'
  BY DEF Scaled, TypeInv, ConnTypeOK
<1> QED BY <1>1, <1>2, <1>3

\* The answers to a PATCH.
LEMMA TypePatches ==
    ASSUME TypeInv, NEW c \in Proxies, PatchOk(c) \/ PatchRefused(c) \/ PatchTimesOut(c)
    PROVE  TypeInv'
<1>0. \A r \in Versions : Applied(PatchOf(c), r) \in Deployment
  BY PatchType, AppliedType DEF TypeInv, ClusterTypeOK
<1>1. CASE PatchOk(c)
  <2>1. ClusterTypeOK'
    BY <1>0, <1>1 DEF PatchOk, TypeInv, ClusterTypeOK
  <2>2. ControllerTypeOK' /\ HolderTypeOK' /\ ConnTypeOK'
    BY <1>1, FencedType, ScaledType DEF PatchOk, Patches
  <2> QED BY <1>1, <2>1, <2>2, LateUnchanged DEF PatchOk, TypeInv
<1>2. CASE PatchRefused(c)
  BY <1>2, PatchFailedType, ClusterUnchanged, LateUnchanged DEF PatchRefused, TypeInv
<1>3. CASE PatchTimesOut(c)
  <2>1. dep' \in Deployment
    BY <1>0, <1>3 DEF PatchTimesOut, TypeInv, ClusterTypeOK
  <2>2. ClusterTypeOK'
    BY <1>3, <2>1, FaultType DEF PatchTimesOut, TypeInv, ClusterTypeOK
  <2>3. LateTypeOK'
    BY <1>3, PatchType DEF PatchTimesOut, TypeInv, LateTypeOK
  <2>4. PatchFailed(c)
    BY <1>3 DEF PatchTimesOut
  <2> QED BY <2>2, <2>3, <2>4, PatchFailedType DEF TypeInv
<1> QED BY <1>1, <1>2, <1>3

\* What wake() does with a status leaves the proxy well formed.
LEMMA StatusOfWakeType ==
    ASSUME TypeInv, NEW c \in Proxies, loc[c].pod \in Pods, StatusOfWake(c, loc[c].pod)
    PROVE  HolderTypeOK' /\ ConnTypeOK'
<1>1. CASE ReturnBackend(c)
  BY <1>1, ReturnBackendType
<1>2. CASE ~ReturnBackend(c)
  <2>1. loc[c] \in Locals /\ pods[loc[c].pod].permit \in Permits \cup {None}
    BY WorkerFields DEF TypeInv, ClusterTypeOK, HolderTypeOK
  <2>2. HolderTypeOK'
    BY <1>2, <2>1, LocalsPermit, GotoWithType DEF StatusOfWake, TypeInv, Awaits
  <2> QED BY <1>2, <2>2 DEF StatusOfWake, TypeInv, ConnTypeOK
<1> QED BY <1>1, <1>2

\* What idle_tick() does with a status leaves the proxy well formed.
LEMMA StatusOfIdleType ==
    ASSUME TypeInv, NEW c \in Proxies, loc[c].pod \in Pods, StatusOfIdle(c, loc[c].pod)
    PROVE  HolderTypeOK' /\ ConnTypeOK' /\ idleSince' \in [Proxies -> Clock \cup {None}]
<1> DEFINE p == loc[c].pod
<1>0. /\ loc[c] \in Locals /\ pods[p].permit \in Permits \cup {None} /\ pods[p].boot \in Nat
      /\ idleSince \in [Proxies -> Clock \cup {None}]
  BY WorkerFields DEF TypeInv, ClusterTypeOK, HolderTypeOK, ControllerTypeOK
<1>1. CASE Release(c)
  <2>1. HolderTypeOK'
    BY <1>1, ReleaseType DEF TypeInv
  <2>2. [pod |-> p, boot |-> pods[p].boot, elapsed |-> FALSE] \in Clock
    BY <1>0 DEF Clock
  <2>3. idleSince' \in [Proxies -> Clock \cup {None}]
    BY <1>0, <2>2 DEF StatusOfIdle, StopClock
  <2> QED BY <2>1, <2>3 DEF StatusOfIdle, TypeInv, ConnTypeOK
<1>2. CASE ~Release(c)
  <2>1. HolderTypeOK'
    <3>1. CASE /\ Goto(c, "resuming") /\ UNCHANGED op
               /\ loc' = [loc EXCEPT ![c].permit = pods[p].permit, ![c].rv = None]
      <4>1. loc' = [loc EXCEPT ![c] = [loc[c] EXCEPT !.permit = pods[p].permit, !.rv = None]]
        BY <1>0, <3>1 DEF TypeInv, HolderTypeOK
      <4> QED BY <1>0, <3>1, <4>1, LocalsPermit, GotoWithType DEF TypeInv, Awaits
    <3>2. CASE /\ Goto(c, "suspending") /\ UNCHANGED op
               /\ loc' = [loc EXCEPT ![c].boot = pods[p].boot]
      BY <1>0, <3>2, LocalsBoot, GotoWithType DEF TypeInv, Awaits
    <3> QED BY <1>2, <3>1, <3>2 DEF StatusOfIdle, StopClock
  <2> QED BY <1>0, <1>2, <2>1 DEF StatusOfIdle, StopClock, TypeInv, ConnTypeOK
<1> QED BY <1>1, <1>2

\* The answers to the idle-control requests.
LEMMA TypeControl ==
    ASSUME TypeInv, NEW c \in Proxies,
           Status(c) \/ Suspend(c) \/ Resume(c) \/ ControlRefused(c) \/ ControlTimesOut(c)
    PROVE  TypeInv'
<1> DEFINE p == loc[c].pod
<1>0. /\ loc[c] \in Locals /\ pods \in [Pods -> Worker]
      /\ NeedsPod(op[c], pc[c]) => p \in Pods
      /\ \A k : NewPermit(k) => k \in Permits
  BY DEF TypeInv, ClusterTypeOK, HolderTypeOK, NewPermit, LeastOutside
<1>1. CASE Status(c)
  <2>1. p \in Pods
    BY <1>0, <1>1 DEF Status, NeedsPod
  <2>2. CASE Fail(c)
    BY <1>1, <2>2, FailType, ClusterUnchanged, LateUnchanged DEF Status, TypeInv
  <2>3. CASE StatusOfWake(c, p) /\ UNCHANGED <<phase, uid, needsFence, connections>>
    <3>1. HolderTypeOK' /\ ConnTypeOK'
      BY <2>1, <2>3, StatusOfWakeType
    <3>2. ControllerTypeOK'
      BY <2>3 DEF StatusOfWake, TypeInv, ControllerTypeOK
    <3> QED BY <1>1, <3>1, <3>2, ClusterUnchanged, LateUnchanged DEF Status, TypeInv
  <2>4. CASE StatusOfIdle(c, p) /\ UNCHANGED <<phase, uid, needsFence, connections>>
    <3>1. HolderTypeOK' /\ ConnTypeOK' /\ idleSince' \in [Proxies -> Clock \cup {None}]
      BY <2>1, <2>4, StatusOfIdleType
    <3>2. ControllerTypeOK'
      BY <2>4, <3>1 DEF TypeInv, ControllerTypeOK
    <3> QED BY <1>1, <3>1, <3>2, ClusterUnchanged, LateUnchanged DEF Status, TypeInv
  <2> QED BY <1>1, <2>2, <2>3, <2>4 DEF Status
<1>2. CASE Suspend(c)
  <2>1. p \in Pods
    BY <1>0, <1>2 DEF Suspend, NeedsPod
  <2>2. pods' \in [Pods -> Worker]
    BY <1>0, <1>2, <2>1, SuspendedType DEF Suspend
  <2>3. ClusterTypeOK'
    BY <1>2, <2>2 DEF Suspend, TypeInv, ClusterTypeOK
  <2>4. CASE Fail(c)
    BY <1>2, <2>3, <2>4, FailType, LateUnchanged DEF Suspend, TypeInv
  <2>5. CASE StopClock(c) /\ UNCHANGED <<phase, uid, needsFence, connections, conn>>
    <3>1. ControllerTypeOK' /\ HolderTypeOK' /\ ConnTypeOK'
      BY <2>5, StopClockType DEF TypeInv, ControllerTypeOK, ConnTypeOK
    <3> QED BY <1>2, <2>3, <3>1, LateUnchanged DEF Suspend, TypeInv
  <2>6. CASE /\ Goto(c, "scaling") /\ loc' = [loc EXCEPT ![c].permit = pods'[p].permit]
             /\ needsFence' = [needsFence EXCEPT ![c] = TRUE]
             /\ UNCHANGED <<phase, uid, connections, idleSince, op, conn>>
    <3>1. pods'[p].permit \in Permits \cup {None}
      BY <2>1, <2>2, WorkerFields
    <3>2. HolderTypeOK'
      BY <1>0, <2>1, <2>6, <3>1, LocalsPermit, GotoWithType DEF TypeInv, Awaits
    <3>3. ControllerTypeOK' /\ ConnTypeOK'
      BY <2>6 DEF TypeInv, ControllerTypeOK, ConnTypeOK
    <3> QED BY <1>2, <2>3, <3>2, <3>3, LateUnchanged DEF Suspend, TypeInv
  <2> QED BY <1>2, <2>4, <2>5, <2>6 DEF Suspend
<1>3. CASE Resume(c)
  <2>1. p \in Pods
    BY <1>0, <1>3 DEF Resume, NeedsPod
  <2>2. ClusterTypeOK'
    BY <1>0, <1>3, <2>1, ResumedType DEF Resume, TypeInv, ClusterTypeOK
  <2>3. ControllerTypeOK' /\ HolderTypeOK' /\ ConnTypeOK'
    <3>1. CASE StopClock(c) /\ UNCHANGED conn
      BY <1>3, <3>1, StopClockType DEF Resume, ResumeDone, TypeInv, ControllerTypeOK, ConnTypeOK
    <3>2. CASE ReturnBackend(c) /\ UNCHANGED idleSince
      BY <1>3, <2>1, <3>2, ReturnBackendType DEF Resume, ResumeDone, TypeInv, ControllerTypeOK
    <3> QED BY <1>3, <3>1, <3>2 DEF Resume, ResumeDone
  <2> QED BY <1>3, <2>2, <2>3, LateUnchanged DEF Resume, TypeInv
<1>4. CASE ControlRefused(c)
  BY <1>4, FailType, ClusterUnchanged, LateUnchanged DEF ControlRefused, TypeInv
<1>5. CASE ControlTimesOut(c)
  <2>1. p \in Pods
    BY <1>0, <1>5 DEF ControlTimesOut, NeedsPod
  <2>2. pods' \in [Pods -> Worker]
    BY <1>0, <1>5, <2>1, SuspendedType, ResumedType DEF ControlTimesOut
  <2>3. ClusterTypeOK'
    BY <1>5, <2>2, FaultType DEF ControlTimesOut, TypeInv, ClusterTypeOK
  <2>4. LateTypeOK'
    BY <1>5, ControlType DEF ControlTimesOut, TypeInv, LateTypeOK
  <2> QED BY <1>5, <2>3, <2>4, FailType DEF ControlTimesOut, TypeInv
<1> QED BY <1>1, <1>2, <1>3, <1>4, <1>5

\* Counting a connection in or out keeps the counter an integer.
LEMMA CountType ==
    ASSUME NEW f \in [Proxies -> Int], NEW c
    PROVE  /\ [f EXCEPT ![c] = @ + 1] \in [Proxies -> Int]
           /\ [f EXCEPT ![c] = @ - 1] \in [Proxies -> Int]
<1>1. CASE c \in Proxies
  BY <1>1
<1>2. CASE c \notin Proxies
  BY <1>2
<1> QED BY <1>1, <1>2

\* The connection tasks.
LEMMA TypeConn ==
    ASSUME TypeInv, NEW x \in Conns, (\E c \in Proxies : Accept(x, c)) \/ ConnStep(x)
    PROVE  TypeInv'
<1>0. conn[x] \in Task
  BY DEF TypeInv, ConnTypeOK
<1>1. NoConn \in Task /\ \A s \in {"lock", "wake", "copy", "closing"} : [conn[x] EXCEPT !.st = s] \in Task
  BY <1>0 DEF NoConn, Task
<1>2. ASSUME NEW c \in Proxies, Accept(x, c) PROVE TypeInv'
  <2>1. ConnTypeOK'
    BY <1>2 DEF Accept, TypeInv, ConnTypeOK, Task
  <2>2. ControllerTypeOK' /\ HolderTypeOK'
    BY <1>2 DEF Accept, controller, holder, TypeInv, ControllerTypeOK, HolderTypeOK
  <2> QED BY <1>2, <2>1, <2>2, ClusterUnchanged, LateUnchanged DEF Accept, TypeInv
<1>3. CASE FirstByte(x)
  <2>1. ConnTypeOK'
    BY <1>1, <1>3 DEF FirstByte, TypeInv, ConnTypeOK
  <2>2. ControllerTypeOK' /\ HolderTypeOK'
    BY <1>3 DEF FirstByte, controller, holder, TypeInv, ControllerTypeOK, HolderTypeOK
  <2> QED BY <1>3, <2>1, <2>2, ClusterUnchanged, LateUnchanged DEF FirstByte, TypeInv
<1>4. CASE Wake(x)
  <2> DEFINE c == conn[x].px
  <2>1. ConnTypeOK'
    BY <1>1, <1>4 DEF Wake, TypeInv, ConnTypeOK
  <2>2. ControllerTypeOK'
    <3>1. connections' \in [Proxies -> Int]
      BY <1>4, CountType DEF Wake, TypeInv, ControllerTypeOK
    <3> QED BY <1>4, <3>1 DEF Wake, TypeInv, ControllerTypeOK
  <2>3. HolderTypeOK'
    <3>1. CASE c \in Proxies
      BY <1>4, <3>1, HoldType, NewLocals DEF Wake, TypeInv
    <3>2. CASE c \notin Proxies
      BY <1>4, <3>2 DEF Wake, Hold, TypeInv, HolderTypeOK
    <3> QED BY <3>1, <3>2
  <2> QED BY <1>4, <2>1, <2>2, <2>3, ClusterUnchanged, LateUnchanged DEF Wake, TypeInv
<1>5. CASE Connect(x)
  <2> DEFINE p == conn[x].pod
  <2>1. ConnTypeOK'
    BY <1>1, <1>5 DEF Connect, TypeInv, ConnTypeOK
  <2>2. ControllerTypeOK' /\ HolderTypeOK'
    BY <1>5 DEF Connect, controller, holder, TypeInv, ControllerTypeOK, HolderTypeOK
  <2>3. p \in Pods => [pods[p] EXCEPT !.queue = @ \cup {x}] \in Worker
    BY WorkerFields, WorkerSockets DEF TypeInv, ClusterTypeOK
  <2>4. ClusterTypeOK'
    BY <1>5, <2>3 DEF Connect, TypeInv, ClusterTypeOK
  <2> QED BY <1>5, <2>1, <2>2, <2>4, LateUnchanged DEF Connect, TypeInv
<1>6. CASE CopyEnds(x)
  <2>1. ConnTypeOK'
    BY <1>1, <1>6 DEF CopyEnds, TypeInv, ConnTypeOK
  <2>2. ControllerTypeOK' /\ HolderTypeOK'
    BY <1>6 DEF CopyEnds, controller, holder, TypeInv, ControllerTypeOK, HolderTypeOK
  <2> QED BY <1>6, <2>1, <2>2, ClusterUnchanged, LateUnchanged DEF CopyEnds, TypeInv
<1>7. CASE Close(x)
  <2>1. ConnTypeOK'
    BY <1>1, <1>7 DEF Close, TypeInv, ConnTypeOK
  <2>2. HolderTypeOK'
    BY <1>7 DEF Close, holder, TypeInv, HolderTypeOK
  <2>3. connections' \in [Proxies -> Int]
    BY <1>7, CountType DEF Close, TypeInv, ControllerTypeOK
  <2>4. ControllerTypeOK'
    BY <1>7, <2>3 DEF Close, TypeInv, ControllerTypeOK
  <2> QED BY <1>7, <2>1, <2>2, <2>4, ClusterUnchanged, LateUnchanged DEF Close, TypeInv
<1> QED BY <1>2, <1>3, <1>4, <1>5, <1>6, <1>7 DEF ConnStep

\* A late request is processed.
LEMMA TypeStraggler ==
    ASSUME TypeInv, NEW q \in net, Straggler(q)
    PROVE  TypeInv'
<1>0. q \in Request /\ PodKnown(q) /\ \A r \in Versions : Applied(q, r) \in Deployment
  BY AppliedType DEF TypeInv, ClusterTypeOK, LateTypeOK
<1>1. dep' \in Deployment
  BY <1>0 DEF Straggler, TypeInv, ClusterTypeOK
<1>2. pods' \in [Pods -> Worker]
  BY <1>0, SuspendedType, ResumedType DEF Straggler, PodKnown, TypeInv, ClusterTypeOK
<1>3. ClusterTypeOK' /\ LateTypeOK'
  BY <1>1, <1>2 DEF Straggler, TypeInv, ClusterTypeOK, LateTypeOK
<1>4. ControllerTypeOK' /\ HolderTypeOK' /\ ConnTypeOK'
  BY DEF Straggler, controller, holder, TypeInv, ControllerTypeOK, HolderTypeOK, ConnTypeOK
<1> QED BY <1>3, <1>4 DEF TypeInv

\* Every step keeps the type invariant.
LEMMA TypeNext == TypeInv /\ [Next]_vars => TypeInv'
<1> SUFFICES ASSUME TypeInv, [Next]_vars PROVE TypeInv'
  OBVIOUS
<1>1. CASE UNCHANGED vars
  BY <1>1, ProxiesUnchanged DEF vars, proxies, TypeInv, ClusterTypeOK
<1>2. ASSUME NEW c \in Proxies, ProxyStep(c) \/ ProxyFault(c) PROVE TypeInv'
  BY <1>2, TypeProcess, TypeReads, TypePatches, TypeControl DEF ProxyStep, ProxyFault
<1>3. CASE Next
  BY <1>2, <1>3, TypeProcess, TypeConn, TypeStraggler, TypeCluster DEF Next
<1> QED BY <1>1, <1>3

\* The state of the proxies, of the cluster and of the late writes always has its type.
THEOREM TypeCorrect == Spec => []TypeOK
<1>1. TypeInv => TypeOK
  BY DEF TypeInv, TypeOK, ProxyTypeOK, ControllerTypeOK, HolderTypeOK, ConnTypeOK, LateTypeOK
<1> QED BY <1>1, TypeInit, TypeNext, PTL DEF Spec

-----------------------------------------------------------------------------
(* A worker is woken only when no old pod is left.  The argument is about    *)
(* versions: wake() reads the Deployment, then lists the pods, then sends a  *)
(* PATCH that names the version it read.  While that version is current      *)
(* nothing has scaled the Deployment up, so no pod can have been created.    *)

\* A PATCH to one replica that would be applied would be applied rightly.
WakesNothing(q) ==
    q.kind = "patch" /\ q.replicas = 1 /\ q.rv = dep.rv => dep.replicas = 0 /\ Listed = {}

HolderWakes(c) ==
    /\ pc[c] = "suspending" => op[c] # "wake"
    /\ pc[c] = "pods0" /\ loc[c].rv = dep.rv => dep.replicas = 0
    /\ pc[c] = "scaling" /\ op[c] = "wake" /\ loc[c].rv = dep.rv
         => dep.replicas = 0 /\ Listed = {}

WakeInv == /\ \A c \in Proxies : HolderWakes(c)
           /\ \A q \in net : WakesNothing(q)

\* In a cold install no PATCH is on its way.
LEMMA WakeInit == Init => WakeInv
BY DEF Init, WakeInv, HolderWakes

\* The PATCH a process leaves behind when it is killed wakes rightly.
LEMMA InFlightWakes ==
    ASSUME WakeInv, NEW c \in Proxies
    PROVE  WakesNothing(PatchOf(c)) /\ \A q \in InFlight(c) : WakesNothing(q)
BY DEF WakeInv, HolderWakes, WakesNothing, InFlight, PatchOf, ControlOf, WriteOf, ScaleTo,
       Patches, Keep

\* Nothing that names an older version is of any consequence any more.
LEMMA WakeFresh ==
    ASSUME TypeInv, WakeInv, NEW r \in Versions, NewVersion(r), dep'.rv = r,
           net' \subseteq net,
           \A c \in Proxies : /\ loc'[c].rv \in {loc[c].rv, None}
                              /\ pc'[c] = "suspending" => op'[c] # "wake"
    PROVE  WakeInv'
<1>1. r # None /\ (\A c \in Proxies : loc[c].rv # r) /\ \A q \in net : q.rv # r
  BY NoneAssumption DEF NewVersion, LeastOutside, VersionsInUse
<1> QED BY <1>1 DEF WakeInv, HolderWakes, WakesNothing

\* The same for a step that changes no proxy.
LEMMA WakeFreshCluster ==
    ASSUME TypeInv, WakeInv, NEW r \in Versions, NewVersion(r), dep'.rv = r, UNCHANGED proxies
    PROVE  WakeInv'
<1>1. \A c \in Proxies : pc[c] = "suspending" => op[c] # "wake"
  BY DEF WakeInv, HolderWakes
<1> QED BY <1>1, WakeFresh DEF proxies

\* Proxy c goes on, to an await where it neither wakes nor suspends a worker.
LEMMA WakeMoves ==
    ASSUME WakeInv, NEW c \in Proxies, UNCHANGED dep, Listed' = Listed,
           \A q \in net' : q \in net \/ WakesNothing(q),
           \A d \in Proxies \ {c} : op'[d] = op[d] /\ pc'[d] = pc[d] /\ loc'[d] = loc[d],
           pc'[c] \notin {"suspending", "pods0", "scaling"}
    PROVE  WakeInv'
BY DEF WakeInv, HolderWakes, WakesNothing

\* A step of the cluster that gives the Deployment no new version.
LEMMA WakeSameVersion ==
    ASSUME WakeInv, UNCHANGED <<op, pc, loc>>, net' \subseteq net,
           dep'.rv = dep.rv, dep'.replicas = dep.replicas,
           Listed' \subseteq Listed \/ dep.replicas = 1
    PROVE  WakeInv'
BY DEF WakeInv, HolderWakes, WakesNothing

\* A core that is suspended or resumed stays listed.
LEMMA ListedControl ==
    ASSUME TypeInv, NEW p \in Pods, NEW k,
           pods' \in {Suspended(p, k), Resumed(p)}
    PROVE  Listed' = Listed
<1>1. \A o \in Pods : pods'[o].st = pods[o].st
  BY DEF Suspended, Resumed, TypeInv, ClusterTypeOK, Worker
<1> QED BY <1>1 DEF Listed

\* Kubernetes creates no pod under the version a waking proxy has read.
LEMMA WakeCluster ==
    ASSUME TypeInv, WakeInv, ClusterStep
    PROVE  WakeInv'
<1>0. dep.rv \in Versions /\ UNCHANGED proxies
  BY DeploymentFields DEF TypeInv, ClusterTypeOK, ClusterStep
<1>1. ASSUME NEW r \in Versions, NewVersion(r), dep'.rv = r PROVE WakeInv'
  BY <1>0, <1>1, WakeFreshCluster
<1>2. CASE Administration
  <2>1. ASSUME NEW r \in Versions, NewVersion(r),
               \/ StatusWritten(r) \/ Rollout(r) \/ HelmApply(r)
               \/ \E u \in Uids \ UidsInUse : Reinstall(r, u)
        PROVE  dep'.rv = r
    <3>0. dep \in Deployment
      BY DEF TypeInv, ClusterTypeOK
    <3>1. CASE StatusWritten(r)
      BY <3>0, <3>1 DEF StatusWritten, Deployment
    <3>2. CASE Rollout(r)
      BY <3>0, <3>2 DEF Rollout, Deployment
    <3>3. CASE HelmApply(r)
      BY <3>0, <3>3 DEF HelmApply, Deployment
    <3>4. CASE \E u \in Uids \ UidsInUse : Reinstall(r, u)
      BY <3>4 DEF Reinstall
    <3> QED BY <2>1, <3>1, <3>2, <3>3, <3>4
  <2>2. CASE HelmLookup
    BY <1>0, <2>2, WakeSameVersion DEF HelmLookup, Listed, proxies
  <2> QED BY <1>1, <1>2, <2>1, <2>2 DEF Administration
<1>3. ASSUME NEW p \in Pods, CreateWorker(p) PROVE WakeInv'
  <2>1. dep'.rv = dep.rv /\ dep'.replicas = dep.replicas /\ dep.replicas = 1
    BY <1>3 DEF CreateWorker, CreatePod, TypeInv, ClusterTypeOK, Deployment
  <2> QED BY <1>0, <2>1, WakeSameVersion DEF proxies
<1>4. ASSUME NEW p \in Pods, WorkerStep(p) \/ PodReady(p) \/ DeletePod(p) \/ PodGone(p) \/ PodFault(p)
      PROVE  WakeInv'
  <2>1. UNCHANGED dep
    BY <1>4 DEF WorkerStep, Admit, SessionEnds, Detach, DetachedEnds, PodReady, DeletePod, PodGone,
                PodFault, Evict, Restart
  <2>2. /\ \A o \in Pods \ {p} : pods'[o] = pods[o]
        /\ pods'[p].st = "absent" \/ pods[p].st # "absent"
    <3>1. CASE WorkerStep(p)
      BY <3>1 DEF WorkerStep, Admit, SessionEnds, Detach, DetachedEnds, Listening, TypeInv,
                  ClusterTypeOK, Worker
    <3>2. CASE PodReady(p) \/ DeletePod(p) \/ PodGone(p)
      BY <3>2 DEF PodReady, DeletePod, PodGone, Running, NoPod, TypeInv, ClusterTypeOK, Worker
    <3>3. CASE PodFault(p)
      BY <3>3 DEF PodFault, Evict, Restart, Running, NoPod, TypeInv, ClusterTypeOK
    <3> QED BY <1>4, <3>1, <3>2, <3>3
  <2>3. Listed' \subseteq Listed
    BY <2>2 DEF Listed
  <2> QED BY <1>0, <2>1, <2>3, WakeSameVersion DEF proxies
<1> QED BY <1>2, <1>3, <1>4 DEF ClusterStep, PodStep

\* Starting, ending and killing processes keeps every PATCH to one right.
LEMMA WakeProcess ==
    ASSUME TypeInv, WakeInv, NEW c \in Proxies,
           Start(c) \/ Exit(c) \/ Crash(c) \/ Sigterm(c) \/ IdleTick(c) \/ IdleElapses(c)
    PROVE  WakeInv'
<1>0. /\ UNCHANGED <<dep, pods>> /\ Listed' = Listed
      /\ \A q \in net' : q \in net \/ WakesNothing(q)
  BY InFlightWakes DEF Start, Exit, Crash, Sigterm, IdleTick, IdleElapses, cluster, Listed
<1>1. CASE /\ pc'[c] \notin {"suspending", "pods0", "scaling"}
           /\ \A d \in Proxies \ {c} : op'[d] = op[d] /\ pc'[d] = pc[d] /\ loc'[d] = loc[d]
  BY <1>0, <1>1, WakeMoves
<1>2. CASE UNCHANGED holder
  BY <1>0, <1>2 DEF holder, WakeInv, HolderWakes, WakesNothing
<1> QED BY <1>1, <1>2 DEF Start, Exit, Crash, Sigterm, IdleTick, IdleElapses, Forget, Release,
           Hold, FirstAwait, TypeInv, HolderTypeOK

\* What an operation does when it gives up, returns or stops the clock.
LEMMA ReleaseWakes ==
    ASSUME TypeInv, WakeInv, NEW c \in Proxies, Release(c), UNCHANGED dep, Listed' = Listed,
           \A q \in net' : q \in net \/ WakesNothing(q)
    PROVE  WakeInv'
BY WakeMoves DEF Release, TypeInv, HolderTypeOK

\* Going on to an await that sends no PATCH to one needs no proof about pods.
LEMMA GotoWakes ==
    ASSUME TypeInv, WakeInv, NEW c \in Proxies, NEW a \in Awaits \ {"suspending", "pods0", "scaling"},
           Goto(c, a), UNCHANGED dep, Listed' = Listed, UNCHANGED <<op, net>>,
           \A d \in Proxies \ {c} : loc'[d] = loc[d]
    PROVE  WakeInv'
BY WakeMoves DEF Goto, TypeInv, HolderTypeOK

\* wake() lists no pod under the version it has read, and only then sends its PATCH.
LEMMA WakeReads ==
    ASSUME TypeInv, WakeInv, NEW c \in Proxies,
           \/ Fence(c) \/ Current(c) \/ ListSleeping(c) \/ ListAwake(c)
           \/ Retry(c) \/ ColdStartTimeout(c) \/ ReadFails(c)
    PROVE  WakeInv'
<1>0. UNCHANGED <<dep, pods, net>> /\ Listed' = Listed
  BY DEF Fence, Current, ListSleeping, ListAwake, Retry, ColdStartTimeout, ReadFails, cluster, Listed
<1>1. CASE Release(c)
  BY <1>0, <1>1, ReleaseWakes
<1>2. CASE Current(c) /\ ~Release(c)
  <2>1. /\ UNCHANGED op
        /\ \A d \in Proxies \ {c} : pc'[d] = pc[d] /\ loc'[d] = loc[d]
        /\ pc'[c] \in {"resuming", "pods0", "pods1"}
        /\ pc'[c] = "pods0" => dep.replicas = 0
    BY <1>2 DEF Current, Fail, StopClock, Goto, TypeInv, HolderTypeOK
  <2> QED BY <1>0, <2>1 DEF WakeInv, HolderWakes, WakesNothing
<1>3. CASE ListSleeping(c)
  <2>1. CASE Listed = {}
    <3>1. /\ UNCHANGED <<op, loc>> /\ pc[c] = "pods0" /\ pc'[c] = "scaling"
          /\ \A d \in Proxies \ {c} : pc'[d] = pc[d]
      BY <1>3, <2>1 DEF ListSleeping, Goto, TypeInv, HolderTypeOK
    <3> QED BY <1>0, <2>1, <3>1 DEF WakeInv, HolderWakes, WakesNothing
  <2>2. CASE Listed # {}
    <3>1. /\ Goto(c, "retry") /\ UNCHANGED op
          /\ \A d \in Proxies \ {c} : loc'[d] = loc[d]
      BY <1>3, <2>2 DEF ListSleeping, TypeInv, HolderTypeOK
    <3> QED BY <1>0, <3>1, GotoWakes DEF Awaits
  <2> QED BY <2>1, <2>2
<1>4. CASE (Fence(c) \/ ListAwake(c) \/ Retry(c)) /\ ~Release(c)
  <2>1. /\ UNCHANGED op
        /\ \A d \in Proxies \ {c} : loc'[d] = loc[d]
    BY <1>4 DEF Fence, ListAwake, Retry, Fail, StopClock, TypeInv, HolderTypeOK
  <2>2. \E a \in {"fencing", "status", "retry", "fence", "current"} : Goto(c, a)
    BY <1>4 DEF Fence, ListAwake, Retry, Fail, StopClock, FirstAwait
  <2> QED BY <1>0, <2>1, <2>2, GotoWakes DEF Awaits
<1> QED BY <1>1, <1>2, <1>3, <1>4 DEF ColdStartTimeout, ReadFails, Fail

\* A failed PATCH makes no other PATCH wrong.
LEMMA PatchFailedWakes ==
    ASSUME TypeInv, NEW c \in Proxies, PatchFailed(c)
    PROVE  /\ \A d \in Proxies \ {c} : op'[d] = op[d] /\ pc'[d] = pc[d] /\ loc'[d] = loc[d]
           /\ pc'[c] \in {"none", "fence"} /\ loc'[c].rv = None
BY DEF PatchFailed, Fail, Release, NoLoc, Goto, TypeInv, HolderTypeOK, Locals

\* Nor does the step that follows a PATCH that succeeded.
LEMMA PatchOkWakes ==
    ASSUME TypeInv, NEW c \in Proxies, pc[c] \in Patches,
           IF pc[c] = "fencing" THEN Fenced(c) ELSE Scaled(c)
    PROVE  /\ \A d \in Proxies \ {c} : op'[d] = op[d] /\ pc'[d] = pc[d] /\ loc'[d] = loc[d]
           /\ pc'[c] \in {"none", "current", "retry"} /\ loc'[c].rv = None
<1>1. CASE Release(c)
  BY <1>1 DEF Release, NoLoc, TypeInv, HolderTypeOK
<1>2. CASE \E a \in {"current", "retry"} : /\ Goto(c, a) /\ UNCHANGED op
                                            /\ loc' = [loc EXCEPT ![c].rv = None]
  BY <1>2 DEF Goto, TypeInv, HolderTypeOK, Locals
<1> QED BY <1>1, <1>2 DEF Fenced, Scaled, StopClock

\* An applied PATCH gives the Deployment a version nobody holds.
LEMMA AppliedVersion ==
    ASSUME TypeInv, NEW q \in Request, NEW r \in Versions
    PROVE  /\ Applied(q, r).rv = r
           /\ Applied(q, r).replicas = 1 /\ dep.replicas = 0 => q.replicas = 1
BY DEF Applied, Request, Keep, TypeInv, ClusterTypeOK, Deployment

\* Every answer to a PATCH keeps every PATCH to one right.
LEMMA WakePatches ==
    ASSUME TypeInv, WakeInv, NEW c \in Proxies, PatchOk(c) \/ PatchRefused(c) \/ PatchTimesOut(c)
    PROVE  WakeInv'
<1>0. /\ Listed' = Listed
      /\ \A d \in Proxies \ {c} : op'[d] = op[d] /\ pc'[d] = pc[d] /\ loc'[d] = loc[d]
      /\ pc'[c] \in {"none", "fence", "current", "retry"} /\ loc'[c].rv = None
  BY PatchFailedWakes, PatchOkWakes DEF PatchOk, PatchRefused, PatchTimesOut, cluster, Listed
<1>1. ASSUME NEW r \in Versions, NewVersion(r), dep' = Applied(PatchOf(c), r), UNCHANGED net
      PROVE  WakeInv'
  <2>1. dep'.rv = r
    BY <1>1, PatchType, AppliedVersion
  <2>2. \A d \in Proxies : pc[d] = "suspending" => op[d] # "wake"
    BY DEF WakeInv, HolderWakes
  <2> QED BY <1>0, <1>1, <2>1, <2>2, WakeFresh
<1>2. CASE UNCHANGED dep /\ net' \in {net, net \cup {PatchOf(c)}}
  BY <1>0, <1>2, InFlightWakes, WakeMoves
<1> QED BY <1>1, <1>2 DEF PatchOk, PatchRefused, PatchTimesOut, cluster

\* Status, suspend and resume create no pod and change no version.
LEMMA WakeControl ==
    ASSUME TypeInv, WakeInv, NEW c \in Proxies,
           Status(c) \/ Suspend(c) \/ Resume(c) \/ ControlRefused(c) \/ ControlTimesOut(c)
    PROVE  WakeInv'
<1>0. /\ UNCHANGED dep /\ Listed' = Listed
      /\ net' = net \/ (net' = net \cup {ControlOf(c)} /\ WakesNothing(ControlOf(c)))
  <2>1. UNCHANGED dep
    BY DEF Status, Suspend, Resume, ControlRefused, ControlTimesOut, cluster
  <2>2. pc[c] \in {"suspending", "resuming"} => loc[c].pod \in Pods
    BY DEF TypeInv, HolderTypeOK, NeedsPod
  <2>3. Listed' = Listed
    <3>1. CASE UNCHANGED pods
      BY <3>1 DEF Listed
    <3>2. CASE \E k : pods' \in {Suspended(loc[c].pod, k), Resumed(loc[c].pod)}
               /\ pc[c] \in {"suspending", "resuming"}
      BY <2>2, <3>2, ListedControl
    <3> QED BY <3>1, <3>2 DEF Status, Suspend, Resume, ControlRefused, ControlTimesOut, cluster
  <2>4. net' \in {net, net \cup {ControlOf(c)}}
    BY DEF Status, Suspend, Resume, ControlRefused, ControlTimesOut
  <2>5. WakesNothing(ControlOf(c))
    BY DEF WakesNothing, ControlOf
  <2> QED BY <2>1, <2>3, <2>4, <2>5
<1>1. CASE Release(c)
  BY <1>0, <1>1, ReleaseWakes
<1>2. CASE Status(c) /\ ~Release(c)
  <2>1. /\ UNCHANGED op
        /\ \A d \in Proxies \ {c} : pc'[d] = pc[d] /\ loc'[d] = loc[d]
        /\ pc'[c] \in {"resuming", "suspending"}
        /\ pc'[c] = "suspending" => op[c] # "wake"
    BY <1>2 DEF Status, StatusOfWake, StatusOfIdle, ReturnBackend, Fail, StopClock, Goto, TypeInv,
                HolderTypeOK
  <2> QED BY <1>0, <1>2, <2>1 DEF Status, WakeInv, HolderWakes, WakesNothing
<1>3. CASE Suspend(c) /\ ~Release(c)
  <2>1. /\ UNCHANGED <<op, net>> /\ op[c] # "wake"
        /\ \A d \in Proxies \ {c} : pc'[d] = pc[d] /\ loc'[d] = loc[d]
        /\ pc'[c] = "scaling"
    BY <1>3 DEF Suspend, Fail, StopClock, Goto, TypeInv, HolderTypeOK, WakeInv, HolderWakes
  <2> QED BY <1>0, <2>1 DEF WakeInv, HolderWakes, WakesNothing
<1> QED BY <1>1, <1>2, <1>3 DEF Resume, ResumeDone, ReturnBackend, StopClock, ControlRefused,
           ControlTimesOut, Fail

\* Nor do the connections.
LEMMA WakeConn ==
    ASSUME TypeInv, WakeInv, NEW x \in Conns, (\E c \in Proxies : Accept(x, c)) \/ ConnStep(x)
    PROVE  WakeInv'
<1>0. UNCHANGED <<dep, net>> /\ Listed' = Listed
  <2>1. UNCHANGED pods \/ \A p \in Pods : pods'[p].st = pods[p].st
    BY DEF Accept, ConnStep, FirstByte, Wake, Connect, CopyEnds, Close, cluster, TypeInv,
           ClusterTypeOK, Worker
  <2> QED BY <2>1 DEF Listed, Accept, ConnStep, FirstByte, Wake, Connect, CopyEnds, Close, cluster
<1>1. CASE UNCHANGED holder
  BY <1>0, <1>1 DEF holder, WakeInv, HolderWakes, WakesNothing
<1>2. CASE Wake(x)
  <2> DEFINE c == conn[x].px
  <2>1. /\ \A d \in Proxies \ {c} : op'[d] = op[d] /\ pc'[d] = pc[d] /\ loc'[d] = loc[d]
        /\ c \in Proxies => pc'[c] \in {"fence", "current"}
    BY <1>2 DEF Wake, Hold, FirstAwait, TypeInv, HolderTypeOK
  <2> QED BY <1>0, <2>1 DEF WakeInv, HolderWakes, WakesNothing
<1> QED BY <1>1, <1>2 DEF Accept, ConnStep, FirstByte, Connect, CopyEnds, Close

\* A late write that is applied leaves all other PATCHes outdated.
LEMMA WakeStraggler ==
    ASSUME TypeInv, WakeInv, NEW q \in net, Straggler(q)
    PROVE  WakeInv'
<1>0. UNCHANGED holder /\ net' \subseteq net /\ q \in Request /\ PodKnown(q)
  BY DEF Straggler, TypeInv, LateTypeOK
<1>1. ASSUME NEW r \in Versions, NewVersion(r), dep' = Applied(q, r)
      PROVE  WakeInv'
  <2>1. dep'.rv = r
    BY <1>0, <1>1, AppliedVersion
  <2>2. \A d \in Proxies : pc[d] = "suspending" => op[d] # "wake"
    BY DEF WakeInv, HolderWakes
  <2> QED BY <1>0, <1>1, <2>1, <2>2, WakeFresh DEF holder
<1>2. CASE UNCHANGED dep
  <2>1. Listed' = Listed
    <3>1. CASE UNCHANGED pods
      BY <3>1 DEF Listed
    <3>2. CASE q.pod \in Pods /\ \E k : pods' \in {Suspended(q.pod, k), Resumed(q.pod)}
      BY <3>2, ListedControl
    <3> QED BY <1>0, <1>2, <3>1, <3>2 DEF Straggler, PodKnown
  <2> QED BY <1>0, <1>2, <2>1, WakeSameVersion DEF holder
<1> QED BY <1>1, <1>2 DEF Straggler

\* Every step keeps the invariant about PATCHes to one.
LEMMA WakeNext == TypeInv /\ WakeInv /\ [Next]_vars => WakeInv'
<1> SUFFICES ASSUME TypeInv, WakeInv, [Next]_vars PROVE WakeInv'
  OBVIOUS
<1>1. CASE UNCHANGED vars
  BY <1>1 DEF vars, WakeInv, HolderWakes, WakesNothing, Listed
<1>2. ASSUME NEW c \in Proxies, ProxyStep(c) \/ ProxyFault(c) PROVE WakeInv'
  BY <1>2, WakeProcess, WakeReads, WakePatches, WakeControl DEF ProxyStep, ProxyFault
<1>3. CASE Next
  BY <1>2, <1>3, WakeProcess, WakeConn, WakeStraggler, WakeCluster DEF Next
<1> QED BY <1>1, <1>3

\* The steps that scale up are PATCHes that WakeInv knows, or Helm's.
LEMMA WakeStep ==
    ASSUME TypeInv, WakeInv, [Next]_vars,
           dep.replicas = 0, dep'.replicas = 1, helm' = helm
    PROVE  Listed = {}
<1>0. dep \in Deployment /\ dep' # dep
  BY DEF TypeInv, ClusterTypeOK
<1>1. ASSUME NEW q \in Request, WakesNothing(q), q.kind = "patch", Applicable(q),
             NEW r \in Versions, dep' = Applied(q, r)
      PROVE  Listed = {}
  BY <1>1, AppliedVersion DEF WakesNothing, Applicable
<1>2. ASSUME NEW c \in Proxies, PatchOk(c) \/ PatchTimesOut(c)
      PROVE  Listed = {}
  <2>1. /\ PatchOf(c) \in Request /\ WakesNothing(PatchOf(c)) /\ PatchOf(c).kind = "patch"
        /\ Applicable(PatchOf(c)) /\ \E r \in Versions : dep' = Applied(PatchOf(c), r)
    BY <1>0, <1>2, PatchType, InFlightWakes DEF PatchOk, PatchTimesOut, PatchOf, WriteOf
  <2> QED BY <1>1, <2>1
<1>3. ASSUME NEW q \in net, Straggler(q)
      PROVE  Listed = {}
  <2>1. q \in Request /\ WakesNothing(q)
    BY DEF TypeInv, LateTypeOK, WakeInv
  <2> QED BY <1>0, <1>1, <1>3, <2>1 DEF Straggler
<1>4. ASSUME NEW p \in Pods, CreateWorker(p)
      PROVE  FALSE
  BY <1>4 DEF CreateWorker, CreatePod
<1>5. ASSUME Administration
      PROVE  FALSE
  <2>1. ASSUME NEW r \in Versions, StatusWritten(r) PROVE FALSE
    BY <1>0, <2>1 DEF StatusWritten, Deployment
  <2>4. ASSUME NEW r \in Versions, Rollout(r) PROVE FALSE
    BY <1>0, <2>4 DEF Rollout, Deployment
  <2>2. ASSUME NEW r \in Versions, HelmApply(r) PROVE FALSE
    BY <2>2 DEF HelmApply
  <2>3. ASSUME NEW r \in Versions, NEW u \in Uids, Reinstall(r, u) PROVE FALSE
    BY <2>3 DEF Reinstall
  <2> QED BY <1>0, <1>5, <2>1, <2>2, <2>3, <2>4 DEF Administration, HelmLookup
<1>6. ASSUME ClusterStep
      PROVE  FALSE
  BY <1>0, <1>4, <1>5, <1>6 DEF ClusterStep, WorkerStep, Admit, SessionEnds, Detach, DetachedEnds,
     PodStep, PodReady, DeletePod, PodGone, PodFault, Evict, Restart
<1>7. ASSUME NEW x \in Conns, (\E c \in Proxies : Accept(x, c)) \/ ConnStep(x)
      PROVE  FALSE
  BY <1>0, <1>7 DEF Accept, ConnStep, FirstByte, Wake, Connect, CopyEnds, Close, cluster
<1>8. ASSUME NEW c \in Proxies,
             \/ Start(c) \/ Exit(c) \/ IdleTick(c) \/ IdleElapses(c)
             \/ ProxyStep(c) \/ ProxyFault(c)
      PROVE  PatchOk(c) \/ PatchTimesOut(c)
  BY <1>0, <1>8 DEF Start, Exit, IdleTick, IdleElapses, ProxyStep, ProxyFault, Fence, Current,
     ListSleeping, ListAwake, Retry, ColdStartTimeout, PatchRefused, Status, Suspend, Resume,
     ControlRefused, Crash, Sigterm, ReadFails, ControlTimesOut, cluster
<1> QED BY <1>0, <1>2, <1>3, <1>6, <1>7, <1>8 DEF Next, vars

\* wake() scales the worker up only when no old pod is left, on every interleaving
\* of proxies, late requests, crashes and administrative changes.
THEOREM WakesFromNothing == Spec => WakeOnlyFromNothing
<1>1. TypeInv /\ WakeInv /\ [Next]_vars
        => [(dep.replicas = 0 /\ dep'.replicas = 1 /\ helm' = helm) => Listed = {}]_vars
  BY WakeStep
<1> QED BY <1>1, TypeInit, TypeNext, WakeInit, WakeNext, PTL DEF Spec, WakeOnlyFromNothing
=============================================================================
