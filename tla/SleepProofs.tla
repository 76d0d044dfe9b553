---------------------------- MODULE SleepProofs ----------------------------
(***************************************************************************)
(* Theorems about sleeping in IdleProxy.  If proxies do not overlap, or no *)
(* request outlasts the idle interval, an automatic sleep ends no session  *)
(* and idle scaling implements SleepWake; a worker is reused only behind a *)
(* fence; and a forwarded connection finds its gate open, unless a suspend *)
(* request is processed after its sender has given up.  As in              *)
(* IdleProxyProofs, for every value of the other constants.                *)
(***************************************************************************)
EXTENDS ConnectionProofs

\* Proxies do not overlap, or what an old one asked for while it owned the
\* Deployment is answered before the idle interval of its successor has elapsed.
InTime == ~Overlap \/ ~SlowRequests

-----------------------------------------------------------------------------
(* The inductive invariant: who has its fence still before it.              *)

\* At most one process of the proxy is alive.
OneAlive == \A c, d \in Proxies : phase[c] # "off" /\ phase[d] # "off" => c = d

\* The awaits that come before the PATCH of a fence has been answered.
Fencing == {"none", "fence", "fencing"}

\* The idle clock of c runs and can still lead to a sleep.
ClockRuns(c) == /\ phase[c] \in {"init", "up"} /\ op[c] # "recover"
                /\ idleSince[c] # None

\* As long as it runs, c needs no fence until it asks for the sleep itself.
ClockFence(c) ==
    ClockRuns(c) => /\ op[c] \in {"none", "idle"}
                    /\ needsFence[c] => pc[c] = "scaling"

\* A late PATCH that would be applied is from before the fence its owner needs.
LateFence(q) ==
    q.kind = "patch" /\ Applicable(q) /\ phase[q.owner] # "off"
      => needsFence[q.owner] /\ pc[q.owner] \in Fencing

\* The idle task runs only while its process serves.
IdleServes(c) == op[c] \in {"idle", "recover"} => phase[c] = "up"

FenceInv == /\ \A c \in Proxies : FenceFlag(c) /\ ClockFence(c) /\ IdleServes(c)
            /\ \A q \in net : LateFence(q)

-----------------------------------------------------------------------------
(* Who still talks to a worker.                                             *)

\* The awaits whose answer may lead to a worker that is resumed or handed out.
Talking == {"pods1", "status", "resuming"}

\* Nobody asks for a resume, and no connection is being opened to a worker.
NobodyResumes == \A c \in Proxies : pc[c] # "resuming"
NobodyConnects == \A x \in Conns : conn[x].st # "connect"

\* No proxy but c waits for an answer about a worker, or for a TCP connect to one.
Settled(c) ==
    \A d \in Proxies \ {c} :
        /\ pc[d] \notin Talking
        /\ \A x \in Conns : conn[x].px = d => conn[x].st # "connect"

\* When the idle interval of the owner has elapsed, the others have settled.
ClockSettled(c) ==
    ClockRuns(c) /\ idleSince[c].elapsed /\ dep.owner = c => Settled(c)

\* An idle tick that holds the version the Deployment has owns the Deployment.
Owns(c) ==
    /\ op[c] = "idle" /\ pc[c] \in {"pods1", "status", "suspending", "scaling"}
    /\ loc[c].rv = dep.rv
    => dep.owner = c

OwnerInv == /\ Overlap \/ OneAlive
            /\ \A c \in Proxies : ClockSettled(c) /\ Owns(c)

-----------------------------------------------------------------------------
(* What an idle tick and its late sleep know of the workers.                *)

\* No late request opens the gate of o as it is closed now.
NoLateResume(o) == \A q \in net : q.kind = "resume" /\ q.pod = o => q.permit # pods[o].permit

\* Worker o has no session or detached work, and gets none until somebody
\* connects to it or resumes it.
Quiet(o) == /\ ~Busy(o)
            /\ pods[o].queue = {} \/ (~GateOpen(o) /\ NoLateResume(o))

\* An empty slot holds nothing of the pod it once stood for.
AbsentEmpty == \A o \in Pods : pods[o].st = "absent" => pods[o] = NoPod

\* No proxy and no connection has ever had worker o for its backend.
Untouched(o) ==
    /\ pods[o].queue = {} /\ ~Busy(o)
    /\ \A d \in Proxies : loc[d].pod # o
    /\ \A x \in Conns : conn[x].pod # o

\* As long as the pod p is there, any other pod is untouched.
Apart(p) == pods[p].st # "absent"
              => \A o \in Pods \ {p} : pods[o].st = "absent" \/ Untouched(o)

\* What an idle tick knows at the awaits on its way to a sleep, the last three as
\* long as nobody has changed the Deployment.
SleepsQuietly(c) ==
    op[c] = "idle" =>
        /\ pc[c] \in {"status", "suspending"} => Apart(loc[c].pod)
        /\ loc[c].rv = dep.rv =>
              /\ pc[c] \in {"suspending", "scaling"} => Settled(c)
              /\ pc[c] = "suspending" => GateOpen(loc[c].pod) \/ NoLateResume(loc[c].pod)
              /\ pc[c] = "scaling" => \A o \in Pods : Quiet(o)

\* While a late sleep can be applied nobody has begun to use a worker again.
LateSleepInv ==
    \A q \in net : LateSleep(q) =>
        /\ dep.owner = q.owner
        /\ Settled(q.owner) /\ NobodyResumes /\ NobodyConnects
        /\ Overlap \/ \A x \in Conns : conn[x].st # "copy"
        /\ \A o \in Pods : Quiet(o)

WorkerInv == AbsentEmpty /\ (\A c \in Proxies : SleepsQuietly(c)) /\ LateSleepInv

SleepInv == FenceInv /\ OwnerInv /\ WorkerInv

\* In a cold install nothing runs.
LEMMA SleepInit == Init => SleepInv
<1> SUFFICES ASSUME Init PROVE SleepInv
  OBVIOUS
<1>1. /\ net = {} /\ dep.owner = None /\ \A o \in Pods : pods[o] = NoPod
      /\ \A c \in Proxies : /\ phase[c] = "off" /\ op[c] = "none" /\ pc[c] = "none"
                            /\ idleSince[c] = None
  BY DEF Init, ClusterInit
<1>2. FenceInv
  BY <1>1 DEF FenceInv, FenceFlag, ClockFence, ClockRuns, IdleServes
<1>3. OwnerInv
  BY <1>1 DEF OwnerInv, OneAlive, ClockSettled, ClockRuns, Owns
<1>4. WorkerInv
  BY <1>1 DEF WorkerInv, AbsentEmpty, SleepsQuietly, LateSleepInv
<1> QED BY <1>2, <1>3, <1>4 DEF SleepInv

-----------------------------------------------------------------------------
(* What a step may do to the Deployment.                                    *)

\* A version nobody remembers is not that of a late write or of an operation.
LEMMA FreshVersion ==
    ASSUME NEW r \in Versions, NewVersion(r)
    PROVE  /\ r # dep.rv
           /\ \A q \in net : q.rv # r
           /\ \A c \in Proxies : loc[c].rv # r
BY DEF NewVersion, LeastOutside, VersionsInUse

\* A step gives the Deployment a new version or changes nothing a PATCH names.
LEMMA DeploymentStep ==
    ASSUME TypeInv, [Next]_vars
    PROVE  \/ /\ dep'.rv = dep.rv /\ dep'.uid = dep.uid
              /\ dep'.owner = dep.owner /\ dep'.replicas = dep.replicas
           \/ \E r \in Versions : NewVersion(r) /\ dep'.rv = r
<1>0. dep \in Deployment
  BY DEF TypeInv, ClusterTypeOK
<1>1. ASSUME NEW r \in Versions, NEW q \in Request, dep' = Applied(q, r) PROVE dep'.rv = r
  BY <1>1, AppliedVersion
<1>2. ASSUME NEW c \in Proxies, ProxyStep(c) \/ ProxyFault(c)
      PROVE  dep' = dep \/ \E r \in Versions : NewVersion(r) /\ dep'.rv = r
  <2>1. CASE PatchOk(c) \/ PatchTimesOut(c)
    <3>1. PatchOf(c) \in Request
      BY PatchType
    <3> QED BY <1>1, <2>1, <3>1 DEF PatchOk, PatchTimesOut
  <2>2. CASE ~(PatchOk(c) \/ PatchTimesOut(c))
    BY <1>2, <2>2 DEF ProxyStep, ProxyFault, Fence, Current, ListSleeping, ListAwake, Retry,
       ColdStartTimeout, PatchRefused, Status, Suspend, Resume, ControlRefused, Crash, Sigterm,
       ReadFails, ControlTimesOut, cluster
  <2> QED BY <2>1, <2>2
<1>3. ASSUME NEW c \in Proxies, Start(c) \/ Exit(c) \/ IdleTick(c) \/ IdleElapses(c)
      PROVE  dep' = dep
  BY <1>3 DEF Start, Exit, IdleTick, IdleElapses, cluster
<1>4. ASSUME NEW x \in Conns, (\E c \in Proxies : Accept(x, c)) \/ ConnStep(x)
      PROVE  dep' = dep
  BY <1>4 DEF Accept, ConnStep, FirstByte, Wake, Connect, CopyEnds, Close, cluster
<1>5. ASSUME NEW q \in net, Straggler(q)
      PROVE  dep' = dep \/ \E r \in Versions : NewVersion(r) /\ dep'.rv = r
  <2>1. q \in Request
    BY DEF TypeInv, LateTypeOK
  <2> QED BY <1>1, <1>5, <2>1 DEF Straggler
<1>6. ASSUME ClusterStep
      PROVE  \/ /\ dep'.rv = dep.rv /\ dep'.uid = dep.uid
                /\ dep'.owner = dep.owner /\ dep'.replicas = dep.replicas
             \/ \E r \in Versions : NewVersion(r) /\ dep'.rv = r
  <2>1. CASE Administration
    <3>1. ASSUME NEW r \in Versions, StatusWritten(r) \/ Rollout(r) \/ HelmApply(r)
          PROVE  dep'.rv = r
      BY <1>0, <3>1 DEF StatusWritten, Rollout, HelmApply, Deployment
    <3>2. ASSUME NEW r \in Versions, NEW u \in Uids, Reinstall(r, u) PROVE dep'.rv = r
      BY <3>2 DEF Reinstall
    <3> QED BY <2>1, <3>1, <3>2 DEF Administration, HelmLookup
  <2>2. ASSUME NEW p \in Pods, CreateWorker(p)
        PROVE  /\ dep'.rv = dep.rv /\ dep'.uid = dep.uid
               /\ dep'.owner = dep.owner /\ dep'.replicas = dep.replicas
    BY <1>0, <2>2 DEF CreateWorker, CreatePod, Deployment
  <2>3. ASSUME NEW p \in Pods, WorkerStep(p) \/ PodFault(p) \/ PodReady(p) \/ DeletePod(p) \/ PodGone(p)
        PROVE  dep' = dep
    BY <2>3 DEF WorkerStep, Admit, SessionEnds, Detach, DetachedEnds, PodReady, DeletePod, PodGone,
       PodFault, Evict, Restart
  <2> QED BY <1>6, <2>1, <2>2, <2>3 DEF ClusterStep, PodStep
<1> QED BY <1>2, <1>3, <1>4, <1>5, <1>6 DEF Next, vars

\* As long as its version is the same, so is all that a PATCH names.
LEMMA SameVersion ==
    ASSUME TypeInv, [Next]_vars, dep'.rv = dep.rv
    PROVE  dep'.uid = dep.uid /\ dep'.owner = dep.owner /\ dep'.replicas = dep.replicas
BY DeploymentStep, FreshVersion

\* A late PATCH that can be applied after a step could be applied before it.
LEMMA LatePatchIsOld ==
    ASSUME TypeInv, [Next]_vars, NEW q \in net, Applicable(q)'
    PROVE  Applicable(q) /\ dep'.rv = dep.rv
<1>1. q.rv = dep'.rv /\ q.uid = dep'.uid
  BY DEF Applicable
<1>2. dep'.rv = dep.rv
  BY <1>1, DeploymentStep, FreshVersion
<1> QED BY <1>1, <1>2, SameVersion DEF Applicable

\* The version an operation holds becomes that of the Deployment only if it was.
LEMMA HeldVersion ==
    ASSUME TypeInv, [Next]_vars, NEW c \in Proxies, loc[c].rv = dep'.rv
    PROVE  dep'.rv = dep.rv
BY DeploymentStep, FreshVersion

\* Who makes itself the owner, and by which write.
LEMMA OwnerStep ==
    ASSUME TypeInv, [Next]_vars, NEW c \in Proxies, dep.owner # c, dep'.owner = c
    PROVE  \/ PatchOk(c) \/ PatchTimesOut(c)
           \/ \E q \in net : /\ Straggler(q) /\ q.owner = c
                             /\ q.kind = "patch" /\ Applicable(q)
<1>0. dep \in Deployment /\ dep' # dep
  BY DEF TypeInv, ClusterTypeOK
<1>1. ASSUME NEW r \in Versions, NEW q \in Request, dep' = Applied(q, r) PROVE q.owner = c
  BY <1>0, <1>1 DEF Applied, Deployment
<1>2. ASSUME NEW d \in Proxies, PatchOk(d) \/ PatchTimesOut(d) PROVE d = c
  <2>1. PatchOf(d) \in Request
    BY PatchType
  <2>2. PatchOf(d).owner = c
    BY <1>0, <1>1, <1>2, <2>1 DEF PatchOk, PatchTimesOut
  <2> QED BY <2>2 DEF PatchOf, WriteOf
<1>3. ASSUME NEW q \in net, Straggler(q) PROVE q.owner = c /\ q.kind = "patch" /\ Applicable(q)
  <2>1. q \in Request
    BY DEF TypeInv, LateTypeOK
  <2> QED BY <1>0, <1>1, <1>3, <2>1 DEF Straggler
<1>4. ASSUME NEW d \in Proxies,
             \/ Start(d) \/ Exit(d) \/ IdleTick(d) \/ IdleElapses(d)
             \/ ProxyStep(d) \/ ProxyFault(d)
      PROVE  PatchOk(d) \/ PatchTimesOut(d)
  BY <1>0, <1>4 DEF Start, Exit, IdleTick, IdleElapses, ProxyStep, ProxyFault, Fence, Current,
     ListSleeping, ListAwake, Retry, ColdStartTimeout, PatchRefused, Status, Suspend, Resume,
     ControlRefused, Crash, Sigterm, ReadFails, ControlTimesOut, cluster
<1>5. ASSUME NEW x \in Conns, (\E d \in Proxies : Accept(x, d)) \/ ConnStep(x)
      PROVE  FALSE
  BY <1>0, <1>5 DEF Accept, ConnStep, FirstByte, Wake, Connect, CopyEnds, Close, cluster
<1>6. ASSUME ClusterStep PROVE FALSE
  <2>1. CASE Administration
    <3>1. ASSUME NEW r \in Versions, StatusWritten(r) \/ Rollout(r) \/ HelmApply(r) PROVE FALSE
      BY <1>0, <3>1 DEF StatusWritten, Rollout, HelmApply, Deployment
    <3>2. ASSUME NEW r \in Versions, NEW u \in Uids, Reinstall(r, u) PROVE FALSE
      BY <3>2, NoneAssumption DEF Reinstall
    <3> QED BY <1>0, <2>1, <3>1, <3>2 DEF Administration, HelmLookup
  <2>2. ASSUME NEW p \in Pods, CreateWorker(p) PROVE FALSE
    BY <1>0, <2>2 DEF CreateWorker, CreatePod, Deployment
  <2> QED BY <1>0, <1>6, <2>1, <2>2 DEF ClusterStep, PodStep, WorkerStep, Admit, SessionEnds,
     Detach, DetachedEnds, PodReady, DeletePod, PodGone, PodFault, Evict, Restart
<1> QED BY <1>0, <1>2, <1>3, <1>4, <1>5, <1>6 DEF Next, vars

\* Who makes the Deployment sleep, and by which write.
LEMMA SleepStep ==
    ASSUME TypeInv, ConnInv, [Next]_vars, dep.replicas = 1, dep'.replicas = 0,
           dep'.uid = dep.uid, helm' = helm
    PROVE  \/ \E c \in Proxies : /\ PatchOk(c) \/ PatchTimesOut(c)
                                 /\ op[c] = "idle" /\ pc[c] = "scaling"
                                 /\ loc[c].rv = dep.rv
           \/ \E q \in net : Straggler(q) /\ LateSleep(q)
<1>0. dep \in Deployment /\ dep' # dep
  BY DEF TypeInv, ClusterTypeOK
<1>1. ASSUME NEW r \in Versions, NEW q \in Request, dep' = Applied(q, r) PROVE q.replicas = 0
  BY <1>0, <1>1 DEF Applied, Request, Keep, Deployment
<1>2. ASSUME NEW c \in Proxies, PatchOk(c) \/ PatchTimesOut(c)
      PROVE  op[c] = "idle" /\ pc[c] = "scaling" /\ loc[c].rv = dep.rv
  <2>1. PatchOf(c) \in Request
    BY PatchType
  <2>2. PatchOf(c).replicas = 0 /\ pc[c] \in Patches /\ Applicable(PatchOf(c))
    BY <1>0, <1>1, <1>2, <2>1 DEF PatchOk, PatchTimesOut
  <2>3. pc[c] = "scaling" /\ op[c] # "wake" /\ loc[c].rv = dep.rv
    BY <2>2 DEF PatchOf, WriteOf, ScaleTo, Keep, Patches, Applicable
  <2> QED BY <2>3 DEF ConnInv, HolderInv, Stage
<1>3. ASSUME NEW q \in net, Straggler(q) PROVE LateSleep(q)
  <2>1. q \in Request
    BY DEF TypeInv, LateTypeOK
  <2> QED BY <1>0, <1>1, <1>3, <2>1 DEF Straggler, LateSleep
<1>4. ASSUME NEW c \in Proxies,
             \/ Start(c) \/ Exit(c) \/ IdleTick(c) \/ IdleElapses(c)
             \/ ProxyStep(c) \/ ProxyFault(c)
      PROVE  PatchOk(c) \/ PatchTimesOut(c)
  BY <1>0, <1>4 DEF Start, Exit, IdleTick, IdleElapses, ProxyStep, ProxyFault, Fence, Current,
     ListSleeping, ListAwake, Retry, ColdStartTimeout, PatchRefused, Status, Suspend, Resume,
     ControlRefused, Crash, Sigterm, ReadFails, ControlTimesOut, cluster
<1>5. ASSUME NEW x \in Conns, (\E c \in Proxies : Accept(x, c)) \/ ConnStep(x)
      PROVE  FALSE
  BY <1>0, <1>5 DEF Accept, ConnStep, FirstByte, Wake, Connect, CopyEnds, Close, cluster
<1>6. ASSUME ClusterStep PROVE FALSE
  <2>1. CASE Administration
    <3>1. ASSUME NEW r \in Versions, StatusWritten(r) \/ Rollout(r) \/ HelmApply(r) PROVE FALSE
      <4>1. ~HelmApply(r)
        BY DEF HelmApply
      <4>2. ~StatusWritten(r)
        BY <1>0 DEF StatusWritten, Deployment
      <4>3. ASSUME Rollout(r) PROVE FALSE
        BY <1>0, <4>3 DEF Rollout, Deployment
      <4> QED BY <3>1, <4>1, <4>2, <4>3
    <3>2. ASSUME NEW r \in Versions, NEW u \in Uids \ UidsInUse, Reinstall(r, u) PROVE FALSE
      BY <3>2 DEF Reinstall, UidsInUse
    <3> QED BY <1>0, <2>1, <3>1, <3>2 DEF Administration, HelmLookup
  <2>2. ASSUME NEW p \in Pods, CreateWorker(p) PROVE FALSE
    BY <1>0, <2>2 DEF CreateWorker, CreatePod, Deployment
  <2> QED BY <1>0, <1>6, <2>1, <2>2 DEF ClusterStep, PodStep, WorkerStep, Admit, SessionEnds,
     Detach, DetachedEnds, PodReady, DeletePod, PodGone, PodFault, Evict, Restart
<1> QED BY <1>0, <1>2, <1>3, <1>4, <1>5, <1>6 DEF Next, vars

-----------------------------------------------------------------------------
(* What a step may do to the workers when nobody connects to one and no     *)
(* proxy resumes one.                                                       *)

\* Worker o gets no socket, and no session if it is quiet; its gate is opened only
\* as its container starts or goes, or by a late resume that knows its permit, and
\* is closed only under a permit nobody remembers.
Calm(o) ==
    /\ pods'[o].queue \subseteq pods[o].queue
    /\ Quiet(o) => pods'[o].tcp = {} /\ ~pods'[o].detached
    /\ \/ pods'[o].permit = pods[o].permit
       \/ /\ pods'[o].permit = None
          /\ \/ pods'[o].queue = {}
             \/ \E q \in net : q.kind = "resume" /\ q.pod = o /\ q.permit = pods[o].permit
       \/ /\ GateOpen(o) /\ pods'[o].permit # None
          /\ \A q \in net : q.permit # pods'[o].permit

\* A worker that is left alone is calm.
LEMMA SameIsCalm ==
    ASSUME NEW o \in Pods, pods'[o] = pods[o]
    PROVE  Calm(o)
BY DEF Calm, Quiet, Busy

\* A pod slot that is emptied or boots has no sockets.
LEMMA EmptyIsCalm ==
    ASSUME NEW o \in Pods, pods'[o] = NoPod \/ \E b : pods'[o] = Booting(b)
    PROVE  Calm(o)
<1>1. /\ pods'[o].queue = {} /\ pods'[o].tcp = {} /\ ~pods'[o].detached
      /\ pods'[o].permit = None
  <2>1. CASE pods'[o] = NoPod
    BY <2>1 DEF NoPod
  <2>2. ASSUME NEW b, pods'[o] = Booting(b)
        PROVE  /\ pods'[o].queue = {} /\ pods'[o].tcp = {} /\ ~pods'[o].detached
               /\ pods'[o].permit = None
    BY <2>2 DEF Booting
  <2> QED BY <2>1, <2>2
<1> QED BY <1>1 DEF Calm

\* A worker that becomes ready or is deleted is calm.
LEMMA StIsCalm ==
    ASSUME TypeInv, NEW o \in Pods, NEW s, pods' = [pods EXCEPT ![o].st = s]
    PROVE  \A p \in Pods : Calm(p)
<1>1. /\ pods'[o].queue = pods[o].queue /\ pods'[o].tcp = pods[o].tcp
      /\ pods'[o].detached = pods[o].detached /\ pods'[o].permit = pods[o].permit
      /\ \A p \in Pods \ {o} : pods'[p] = pods[p]
  BY DEF TypeInv, ClusterTypeOK, Worker
<1>2. Calm(o)
  BY <1>1 DEF Calm, Quiet, Busy
<1> QED BY <1>1, <1>2, SameIsCalm

\* A core that is suspended, under a permit nobody remembers, is calm.
LEMMA SuspendIsCalm ==
    ASSUME TypeInv, NEW o \in Pods, NEW k \in Permits, NewPermit(k), pods' = Suspended(o, k)
    PROVE  \A p \in Pods : Calm(p)
<1>1. CASE UNCHANGED pods
  BY <1>1, SameIsCalm
<1>2. CASE GateOpen(o) /\ pods' = [pods EXCEPT ![o].permit = k]
  <2>1. /\ pods'[o].queue = pods[o].queue /\ pods'[o].tcp = pods[o].tcp
        /\ pods'[o].detached = pods[o].detached /\ pods'[o].permit = k
        /\ \A p \in Pods \ {o} : pods'[p] = pods[p]
    BY <1>2 DEF TypeInv, ClusterTypeOK, Worker
  <2>2. k # None /\ \A q \in net : q.permit # k
    BY NoneAssumption DEF NewPermit, LeastOutside, PermitsInUse
  <2>3. Calm(o)
    BY <1>2, <2>1, <2>2 DEF Calm, Quiet, Busy
  <2> QED BY <2>1, <2>3, SameIsCalm
<1> QED BY <1>1, <1>2 DEF Suspended

\* Kubernetes, the workers themselves and the administrator keep workers calm.
LEMMA ClusterIsCalm ==
    ASSUME TypeInv, ClusterStep, NEW o \in Pods
    PROVE  Calm(o)
<1>0. pods \in [Pods -> Worker]
  BY DEF TypeInv, ClusterTypeOK
<1>1. ASSUME NEW p \in Pods, NEW x \in Conns, Admit(p, x) PROVE Calm(o)
  <2>1. \A d \in Pods \ {p} : pods'[d] = pods[d]
    BY <1>0, <1>1 DEF Admit
  <2>2. /\ x \in pods[p].queue /\ pods'[p].queue = pods[p].queue \ {x}
        /\ pods'[p].permit = pods[p].permit /\ pods'[p].detached = pods[p].detached
        /\ ~GateOpen(p) => pods'[p].tcp = pods[p].tcp
    BY <1>0, <1>1 DEF Admit, Worker
  <2>3. Calm(p)
    BY <2>2 DEF Calm, Quiet, Busy
  <2> QED BY <2>1, <2>3, SameIsCalm
<1>2. ASSUME NEW p \in Pods,
             (\E x \in Conns : SessionEnds(p, x)) \/ Detach(p) \/ DetachedEnds(p)
      PROVE  Calm(o)
  <2>1. \A d \in Pods \ {p} : pods'[d] = pods[d]
    BY <1>0, <1>2 DEF SessionEnds, Detach, DetachedEnds
  <2>2. /\ pods'[p].queue = pods[p].queue /\ pods'[p].permit = pods[p].permit
        /\ pods'[p].tcp \subseteq pods[p].tcp
        /\ pods'[p].detached => pods[p].detached \/ pods[p].tcp # {}
    BY <1>0, <1>2 DEF SessionEnds, Detach, DetachedEnds, Worker
  <2>3. Calm(p)
    BY <2>2 DEF Calm, Quiet, Busy
  <2> QED BY <2>1, <2>3, SameIsCalm
<1>3. ASSUME NEW p \in Pods, PodStep(p) \/ PodFault(p) PROVE Calm(o)
  <2>1. CASE \E s : pods' = [pods EXCEPT ![p].st = s]
    BY <2>1, StIsCalm
  <2>2. CASE pods' = [pods EXCEPT ![p] = NoPod] \/ \E b : pods' = [pods EXCEPT ![p] = Booting(b)]
    <3>1. /\ pods'[p] = NoPod \/ \E b : pods'[p] = Booting(b)
          /\ \A d \in Pods \ {p} : pods'[d] = pods[d]
      BY <1>0, <2>2
    <3> QED BY <3>1, SameIsCalm, EmptyIsCalm
  <2> QED BY <1>3, <2>1, <2>2 DEF PodStep, CreateWorker, CreatePod, PodReady, DeletePod, PodGone,
     PodFault, Evict, Restart
<1>4. CASE Administration
  <2>1. CASE UNCHANGED pods
    BY <2>1, SameIsCalm
  <2>2. ASSUME NEW r \in Versions, NEW u \in Uids, Reinstall(r, u) PROVE Calm(o)
    <3>1. pods'[o] = IF o \in Running THEN [pods[o] EXCEPT !.st = "deleting"] ELSE pods[o]
      BY <2>2 DEF Reinstall
    <3>2. /\ pods'[o].queue = pods[o].queue /\ pods'[o].tcp = pods[o].tcp
          /\ pods'[o].detached = pods[o].detached /\ pods'[o].permit = pods[o].permit
      BY <1>0, <3>1 DEF Worker
    <3> QED BY <3>2 DEF Calm, Quiet, Busy
  <2> QED BY <1>4, <2>1, <2>2 DEF Administration, StatusWritten, Rollout, HelmApply, HelmLookup
<1> QED BY <1>1, <1>2, <1>3, <1>4 DEF ClusterStep, WorkerStep

\* So does a late write that is processed.
LEMMA StragglerIsCalm ==
    ASSUME TypeInv, NEW q \in net, Straggler(q), NEW o \in Pods
    PROVE  Calm(o)
<1>0. PodKnown(q) /\ pods \in [Pods -> Worker]
  BY DEF TypeInv, LateTypeOK, ClusterTypeOK
<1>1. CASE UNCHANGED pods
  BY <1>1, SameIsCalm
<1>2. CASE q.kind = "suspend" /\ \E k \in Permits : NewPermit(k) /\ pods' = Suspended(q.pod, k)
  BY <1>0, <1>2, SuspendIsCalm DEF PodKnown
<1>3. CASE q.kind = "resume" /\ pods[q.pod].permit = q.permit /\ pods' = Resumed(q.pod)
  <2> DEFINE p == q.pod
  <2>1. p \in Pods
    BY <1>0, <1>3 DEF PodKnown
  <2>2. /\ pods'[p].queue = pods[p].queue /\ pods'[p].tcp = pods[p].tcp
        /\ pods'[p].detached = pods[p].detached /\ pods'[p].permit = None
        /\ \A d \in Pods \ {p} : pods'[d] = pods[d]
    BY <1>0, <1>3, <2>1 DEF Resumed, Worker
  <2>3. Calm(p)
    BY <1>3, <2>2 DEF Calm, Quiet, Busy
  <2> QED BY <2>2, <2>3, SameIsCalm
<1> QED BY <1>1, <1>2, <1>3 DEF Straggler, ResumeAccepted

\* A proxy that resumes no worker keeps every worker calm, whatever it leaves behind.
LEMMA ProxyIsCalm ==
    ASSUME TypeInv, NEW c \in Proxies, pc[c] # "resuming",
           \/ Start(c) \/ Exit(c) \/ IdleTick(c) \/ IdleElapses(c)
           \/ ProxyStep(c) \/ ProxyFault(c)
    PROVE  /\ \A o \in Pods : Calm(o)
           /\ \A q \in net' : q.kind = "resume" => q \in net
<1>1. PatchOf(c).kind = "patch" /\ ControlOf(c).kind = "suspend"
  BY DEF PatchOf, WriteOf, ControlOf
<1>2. \A q \in InFlight(c) : q.kind # "resume"
  BY <1>1 DEF InFlight
<1>3. CASE UNCHANGED pods /\ net' \in {net, net \cup InFlight(c), net \cup {PatchOf(c)}, net \cup {ControlOf(c)}}
  BY <1>1, <1>2, <1>3, SameIsCalm
<1>4. CASE /\ pc[c] = "suspending" /\ UNCHANGED net
           /\ \E k \in Permits : NewPermit(k) /\ pods' = Suspended(loc[c].pod, k)
  <2>1. loc[c].pod \in Pods
    BY <1>4 DEF TypeInv, HolderTypeOK, NeedsPod
  <2> QED BY <1>4, <2>1, SuspendIsCalm
<1>5. CASE Suspend(c) \/ ControlTimesOut(c)
  BY <1>3, <1>4, <1>5 DEF Suspend, ControlTimesOut
<1>6. CASE ~(Suspend(c) \/ ControlTimesOut(c))
  <2>1. CASE Crash(c) \/ Sigterm(c) \/ PatchTimesOut(c)
    BY <1>3, <2>1 DEF Crash, Sigterm, PatchTimesOut, cluster
  <2>2. CASE ~(Crash(c) \/ Sigterm(c) \/ PatchTimesOut(c))
    <3>1. UNCHANGED <<pods, net>>
      BY <1>6, <2>2 DEF Start, Exit, IdleTick, IdleElapses, ProxyStep, ProxyFault, Fence, Current,
         ListSleeping, ListAwake, Retry, ColdStartTimeout, PatchOk, PatchRefused, Status, Resume,
         ControlRefused, ReadFails, cluster
    <3> QED BY <1>3, <3>1
  <2> QED BY <2>1, <2>2
<1> QED BY <1>5, <1>6

\* Every step keeps every worker calm, and leaves no late resume behind.
LEMMA StepIsCalm ==
    ASSUME TypeInv, [Next]_vars, NobodyResumes, NobodyConnects
    PROVE  /\ \A o \in Pods : Calm(o)
           /\ \A q \in net' : q.kind = "resume" => q \in net
<1>1. CASE UNCHANGED vars
  BY <1>1, SameIsCalm DEF vars
<1>2. ASSUME NEW c \in Proxies,
             \/ Start(c) \/ Exit(c) \/ IdleTick(c) \/ IdleElapses(c)
             \/ ProxyStep(c) \/ ProxyFault(c)
      PROVE  /\ \A o \in Pods : Calm(o)
             /\ \A q \in net' : q.kind = "resume" => q \in net
  BY <1>2, ProxyIsCalm DEF NobodyResumes
<1>3. ASSUME NEW x \in Conns, (\E c \in Proxies : Accept(x, c)) \/ ConnStep(x)
      PROVE  UNCHANGED <<pods, net>>
  BY <1>3 DEF NobodyConnects, Accept, ConnStep, FirstByte, Wake, Connect, CopyEnds, Close, cluster
<1>4. ASSUME NEW q \in net, Straggler(q)
      PROVE  (\A o \in Pods : Calm(o)) /\ net' \subseteq net
  BY <1>4, StragglerIsCalm DEF Straggler
<1>5. ASSUME ClusterStep PROVE (\A o \in Pods : Calm(o)) /\ UNCHANGED net
  BY <1>5, ClusterIsCalm DEF ClusterStep, proxies
<1> QED BY <1>1, <1>2, <1>3, <1>4, <1>5, SameIsCalm DEF Next

\* A calm step keeps a quiet worker quiet.
LEMMA QuietStays ==
    ASSUME TypeInv, [Next]_vars, NobodyResumes, NobodyConnects, NEW o \in Pods, Quiet(o)
    PROVE  Quiet(o)'
<1>1. Calm(o) /\ \A q \in net' : q.kind = "resume" => q \in net
  BY StepIsCalm
<1>2. ~Busy(o)'
  BY <1>1 DEF Calm, Busy
<1>3. CASE pods[o].queue = {}
  BY <1>1, <1>2, <1>3 DEF Calm, Quiet
<1>4. CASE ~GateOpen(o) /\ NoLateResume(o)
  BY <1>1, <1>2, <1>4 DEF Calm, Quiet, GateOpen, NoLateResume
<1> QED BY <1>3, <1>4 DEF Quiet

\* And it opens no gate that is closed under a permit only the core knows.
LEMMA ShutStays ==
    ASSUME TypeInv, [Next]_vars, NobodyResumes, NobodyConnects, NEW o \in Pods,
           GateOpen(o) \/ NoLateResume(o)
    PROVE  GateOpen(o)' \/ NoLateResume(o)'
<1>1. Calm(o) /\ \A q \in net' : q.kind = "resume" => q \in net
  BY StepIsCalm
<1> QED BY <1>1 DEF Calm, GateOpen, NoLateResume

\* A slot without a pod is empty.
LEMMA AbsentStays ==
    ASSUME TypeInv, AbsentEmpty, [Next]_vars
    PROVE  AbsentEmpty'
<1>0. pods \in [Pods -> Worker]
  BY DEF TypeInv, ClusterTypeOK
<1>1. ASSUME NEW p \in Pods, pods[p].st # "absent", NEW v \in Worker,
             pods' = [pods EXCEPT ![p] = v], v.st # "absent" \/ v = NoPod
      PROVE  AbsentEmpty'
  BY <1>0, <1>1 DEF AbsentEmpty
<1>2. CASE UNCHANGED pods
  BY <1>2 DEF AbsentEmpty
<1>3. ASSUME NEW p \in Pods, NEW k, Listening(p), pods' \in {Suspended(p, k), Resumed(p)}
      PROVE  AbsentEmpty'
  <2>1. \A o \in Pods : pods'[o] = pods[o] \/ pods'[o].st # "absent"
    BY <1>0, <1>3 DEF Suspended, Resumed, Listening, Worker
  <2> QED BY <2>1 DEF AbsentEmpty
<1>4. ASSUME NEW c \in Proxies,
             \/ Start(c) \/ Exit(c) \/ IdleTick(c) \/ IdleElapses(c)
             \/ ProxyStep(c) \/ ProxyFault(c)
      PROVE  AbsentEmpty'
  <2>1. CASE Suspend(c) \/ Resume(c) \/ ControlTimesOut(c)
    <3>1. pc[c] \in {"suspending", "resuming"} => loc[c].pod \in Pods
      BY DEF TypeInv, HolderTypeOK, NeedsPod
    <3> QED BY <1>2, <1>3, <2>1, <3>1 DEF Suspend, Resume, ControlTimesOut, ResumeAccepted
  <2>2. CASE ~(Suspend(c) \/ Resume(c) \/ ControlTimesOut(c))
    BY <1>2, <1>4, <2>2 DEF Start, Exit, IdleTick, IdleElapses, ProxyStep, ProxyFault, Fence, Current,
       ListSleeping, ListAwake, Retry, ColdStartTimeout, PatchOk, PatchRefused, Status,
       ControlRefused, ReadFails, Crash, Sigterm, PatchTimesOut, cluster
  <2> QED BY <2>1, <2>2
<1>5. ASSUME NEW x \in Conns, (\E c \in Proxies : Accept(x, c)) \/ ConnStep(x)
      PROVE  AbsentEmpty'
  <2>1. \A o \in Pods : pods'[o] = pods[o] \/ pods'[o].st # "absent"
    BY <1>0, <1>5 DEF Accept, ConnStep, FirstByte, Wake, Connect, CopyEnds, Close, cluster,
       Listening, Worker
  <2> QED BY <2>1 DEF AbsentEmpty
<1>6. ASSUME NEW q \in net, Straggler(q) PROVE AbsentEmpty'
  <2>1. PodKnown(q)
    BY DEF TypeInv, LateTypeOK
  <2> QED BY <1>2, <1>3, <1>6, <2>1 DEF Straggler, PodKnown, ResumeAccepted
<1>7. ASSUME ClusterStep PROVE AbsentEmpty'
  <2>1. ASSUME NEW p \in Pods, WorkerStep(p) PROVE AbsentEmpty'
    <3>1. pods'[p].st = pods[p].st /\ (pods[p].queue # {} \/ pods[p].tcp # {} \/ pods[p].detached)
      <4>1. ASSUME NEW x \in Conns, Admit(p, x)
            PROVE  pods'[p].st = pods[p].st /\ pods[p].queue # {}
        BY <1>0, <4>1 DEF Admit, Worker
      <4>2. ASSUME NEW x \in Conns, SessionEnds(p, x)
            PROVE  pods'[p].st = pods[p].st /\ pods[p].tcp # {}
        BY <1>0, <4>2 DEF SessionEnds, Worker
      <4>3. ASSUME Detach(p) \/ DetachedEnds(p)
            PROVE  pods'[p].st = pods[p].st /\ (pods[p].tcp # {} \/ pods[p].detached)
        BY <1>0, <4>3 DEF Detach, DetachedEnds, Worker
      <4> QED BY <2>1, <4>1, <4>2, <4>3 DEF WorkerStep
    <3>2. pods[p] # NoPod
      BY <3>1 DEF NoPod
    <3>3. \A o \in Pods \ {p} : pods'[o] = pods[o]
      BY <1>0, <2>1 DEF WorkerStep, Admit, SessionEnds, Detach, DetachedEnds
    <3> QED BY <3>1, <3>2, <3>3 DEF AbsentEmpty
  <2>2. ASSUME NEW p \in Pods, PodStep(p) \/ PodFault(p) PROVE AbsentEmpty'
    <3>1. \A o \in Pods : pods'[o] = pods[o] \/ pods'[o].st # "absent" \/ pods'[o] = NoPod
      BY <1>0, <2>2 DEF PodStep, CreateWorker, CreatePod, PodReady, DeletePod, PodGone, PodFault,
         Evict, Restart, Booting, Worker
    <3> QED BY <3>1 DEF AbsentEmpty
  <2>3. ASSUME Administration PROVE AbsentEmpty'
    <3>1. \A o \in Pods : pods'[o] = pods[o] \/ pods'[o].st # "absent"
      BY <1>0, <2>3 DEF Administration, StatusWritten, Rollout, HelmApply, HelmLookup, Reinstall, Worker
    <3> QED BY <3>1 DEF AbsentEmpty
  <2> QED BY <1>7, <2>1, <2>2, <2>3 DEF ClusterStep
<1> QED BY <1>2, <1>4, <1>5, <1>6, <1>7 DEF Next, vars

-----------------------------------------------------------------------------
(* The fences stay before those that need them.                             *)

\* A proxy starts only when no other one is alive, if they may not overlap.
LEMMA OneAliveStays ==
    ASSUME TypeInv, ConnInv, OneAlive, [Next]_vars,
           ~Overlap \/ \A c \in Proxies : phase[c] # "drain"
    PROVE  OneAlive'
<1>1. ASSUME NEW c \in Proxies, Start(c) PROVE OneAlive'
  <2>1. \A d \in Proxies \ {c} : phase'[d] = "off"
    BY <1>1 DEF Start, MayStart, TypeInv, ControllerTypeOK
  <2> QED BY <2>1 DEF OneAlive
<1> QED BY <1>1, LifeStep DEF OneAlive

\* Who leaves a PATCH behind, and where it stands then.
LEMMA NewLatePatch ==
    ASSUME TypeInv, ConnInv, [Next]_vars, NEW q \in net', q \notin net, q.kind = "patch"
    PROVE  \E c \in Proxies : /\ q = PatchOf(c) /\ pc[c] \in Patches
                              /\ Crash(c) \/ Sigterm(c) \/ PatchTimesOut(c)
                              /\ UNCHANGED dep
<1>1. ASSUME NEW c \in Proxies, Crash(c) \/ Sigterm(c)
      PROVE  q = PatchOf(c) /\ pc[c] \in Patches /\ UNCHANGED dep
  <2>1. q \in InFlight(c) /\ UNCHANGED dep
    BY <1>1 DEF Crash, Sigterm, cluster
  <2>2. q # ControlOf(c)
    BY DEF ControlOf
  <2> QED BY <2>1, <2>2 DEF InFlight
<1>2. ASSUME NEW c \in Proxies, PatchTimesOut(c)
      PROVE  q = PatchOf(c) /\ pc[c] \in Patches /\ UNCHANGED dep
  BY <1>2 DEF PatchTimesOut
<1>3. ASSUME NEW c \in Proxies, ControlTimesOut(c) PROVE FALSE
  <2>1. q = ControlOf(c)
    BY <1>3 DEF ControlTimesOut
  <2> QED BY <2>1 DEF ControlOf
<1>4. ASSUME NEW c \in Proxies,
             \/ Start(c) \/ Exit(c) \/ IdleTick(c) \/ IdleElapses(c)
             \/ ProxyStep(c) \/ ProxyFault(c)
      PROVE  Crash(c) \/ Sigterm(c) \/ PatchTimesOut(c)
  <2>1. CASE UNCHANGED net
    BY <2>1
  <2>2. CASE ControlTimesOut(c)
    BY <1>3, <2>2
  <2> QED BY <1>4, <2>1, <2>2 DEF Start, Exit, IdleTick, IdleElapses, ProxyStep, ProxyFault, Fence,
     Current, ListSleeping, ListAwake, Retry, ColdStartTimeout, PatchOk, PatchRefused, Status,
     Suspend, Resume, ControlRefused, ReadFails
<1>5. ASSUME NEW x \in Conns, (\E c \in Proxies : Accept(x, c)) \/ ConnStep(x) PROVE UNCHANGED net
  BY <1>5 DEF Accept, ConnStep, FirstByte, Wake, Connect, CopyEnds, Close
<1>6. ASSUME ClusterStep \/ \E r \in net : Straggler(r) PROVE net' \subseteq net
  BY <1>6 DEF ClusterStep, proxies, Straggler
<1> QED BY <1>1, <1>2, <1>4, <1>5, <1>6 DEF Next, vars

\* A proxy that has its fence before it goes on to it, unless it gets it.
LEMMA FencingStays ==
    ASSUME TypeInv, ConnInv, [Next]_vars, dep'.rv = dep.rv, NEW c \in Proxies, phase'[c] # "off",
           phase[c] # "off" => needsFence[c] /\ pc[c] \in Fencing
    PROVE  needsFence'[c] /\ pc'[c] \in Fencing
<1>0. /\ op \in [Proxies -> Ops] /\ pc \in [Proxies -> Awaits] /\ loc \in [Proxies -> Locals]
      /\ needsFence \in [Proxies -> BOOLEAN] /\ phase \in [Proxies -> Phases]
  BY DEF TypeInv, HolderTypeOK, ControllerTypeOK
<1>1. CASE \E d \in Proxies : Start(d)
  <2>1. ASSUME NEW d \in Proxies, Start(d)
        PROVE  needsFence'[c] /\ pc'[c] \in Fencing
    <3>1. CASE d = c
      BY <1>0, <2>1, <3>1 DEF Start, Fencing
    <3>2. CASE d # c
      <4>1. phase'[c] = phase[c]
        BY <1>0, <2>1, <3>2 DEF Start
      <4> QED BY <2>1, <3>2, <4>1, OthersLeftAlone DEF LeftAlone, Undisturbed
    <3> QED BY <3>1, <3>2
  <2> QED BY <1>1, <2>1
<1>2. CASE ~\E d \in Proxies : Start(d)
  <2>0. phase[c] # "off" /\ needsFence[c] /\ pc[c] \in Fencing
    BY <1>2, LifeStep
  <2>1. ASSUME Exit(c) \/ IdleTick(c) \/ IdleElapses(c) \/ ProxyStep(c) \/ ProxyFault(c)
        PROVE  needsFence'[c] /\ pc'[c] \in Fencing
    <3>1. Release(c) => pc'[c] = "none"
      BY ReleaseFacts
    <3>2. Fail(c) => needsFence'[c] /\ pc'[c] \in Fencing
      BY <2>0, <3>1 DEF Fail, Fencing
    <3>3. ~Exit(c) /\ ~Crash(c)
      BY <1>0 DEF Exit, Crash
    <3>4. CASE Sigterm(c)
      BY <2>0, <3>1, <3>4 DEF Sigterm, Fencing, holder, controller
    <3>5. CASE IdleTick(c)
      BY <1>0, <2>0, <3>5 DEF IdleTick, Hold, FirstAwait, Fencing, holder
    <3>6. CASE IdleElapses(c)
      BY <2>0, <3>6 DEF IdleElapses, holder
    <3>7. CASE Fence(c)
      BY <1>0, <3>2, <3>7 DEF Fence, Goto, Fencing
    <3>8. ~PatchOk(c)
      <4>1. PatchOf(c) \in Request
        BY PatchType
      <4> QED BY <4>1, AppliedVersion, FreshVersion DEF PatchOk
    <3>9. CASE PatchRefused(c) \/ PatchTimesOut(c)
      <4>1. pc[c] # "scaling"
        BY <2>0 DEF Fencing
      <4> QED BY <3>2, <3>9, <4>1 DEF PatchRefused, PatchTimesOut, PatchFailed
    <3>10. CASE ReadFails(c) \/ ControlRefused(c) \/ ColdStartTimeout(c) \/ ControlTimesOut(c)
      BY <3>2, <3>10 DEF ReadFails, ControlRefused, ColdStartTimeout, ControlTimesOut
    <3>11. ~(Current(c) \/ ListSleeping(c) \/ ListAwake(c) \/ Retry(c) \/ Status(c) \/ Suspend(c) \/ Resume(c))
      BY <2>0 DEF Fencing, Current, ListSleeping, ListAwake, Retry, Status, Suspend, Resume
    <3> QED BY <2>1, <3>3, <3>4, <3>5, <3>6, <3>7, <3>8, <3>9, <3>10, <3>11 DEF ProxyStep, ProxyFault
  <2>2. ASSUME NEW d \in Proxies \ {c},
               Exit(d) \/ IdleTick(d) \/ IdleElapses(d) \/ ProxyStep(d) \/ ProxyFault(d)
        PROVE  needsFence'[c] /\ pc'[c] \in Fencing
    BY <2>0, <2>2, OthersLeftAlone DEF LeftAlone, Undisturbed
  <2>3. ASSUME NEW x \in Conns, (\E d \in Proxies : Accept(x, d)) \/ ConnStep(x)
        PROVE  needsFence'[c] /\ pc'[c] \in Fencing
    <3>1. CASE Wake(x)
      BY <1>0, <2>0, <3>1 DEF Wake, Hold, FirstAwait, Fencing
    <3>2. CASE ~Wake(x)
      BY <2>0, <2>3, <3>2 DEF Accept, ConnStep, FirstByte, Connect, CopyEnds, Close, holder, controller
    <3> QED BY <3>1, <3>2
  <2>4. ASSUME ClusterStep \/ \E q \in net : Straggler(q)
        PROVE  needsFence'[c] /\ pc'[c] \in Fencing
    BY <2>0, <2>4 DEF ClusterStep, proxies, Straggler, holder, controller
  <2> QED BY <1>2, <2>0, <2>1, <2>2, <2>3, <2>4 DEF Next, vars
<1> QED BY <1>1, <1>2

\* A late PATCH is outdated before its owner has done with its fence.
LEMMA LateFenceStays ==
    ASSUME TypeInv, ConnInv, FenceInv, [Next]_vars, NEW q \in net'
    PROVE  LateFence(q)'
<1> SUFFICES ASSUME q.kind = "patch", Applicable(q)', phase'[q.owner] # "off"
             PROVE  needsFence'[q.owner] /\ pc'[q.owner] \in Fencing
  BY DEF LateFence
<1>0. q.owner \in Proxies
  <2>1. TypeInv'
    BY TypeNext
  <2> QED BY <2>1 DEF TypeInv, LateTypeOK, Request
<1>1. CASE q \in net
  <2>1. Applicable(q) /\ dep'.rv = dep.rv
    BY <1>1, LatePatchIsOld
  <2>2. phase[q.owner] # "off" => needsFence[q.owner] /\ pc[q.owner] \in Fencing
    BY <1>1, <2>1 DEF FenceInv, LateFence
  <2> QED BY <1>0, <2>1, <2>2, FencingStays
<1>2. CASE q \notin net
  <2>1. PICK c \in Proxies : /\ q = PatchOf(c) /\ pc[c] \in Patches
                             /\ Crash(c) \/ Sigterm(c) \/ PatchTimesOut(c)
    BY <1>2, NewLatePatch
  <2>2. q.owner = c /\ needsFence[c]
    BY <2>1 DEF PatchOf, WriteOf, FenceInv, FenceFlag, Patches
  <2>3. ~Crash(c)
    BY <2>2 DEF Crash, TypeInv, ControllerTypeOK
  <2>4. CASE Sigterm(c)
    <3>1. Release(c) /\ UNCHANGED needsFence
      BY <1>2, <2>4 DEF Sigterm, controller
    <3> QED BY <2>2, <3>1, ReleaseFacts DEF Fencing
  <2>5. CASE PatchTimesOut(c)
    <3>1. UNCHANGED needsFence /\ (Release(c) \/ Goto(c, "fence"))
      BY <2>5 DEF PatchTimesOut, PatchFailed, Fail, controller
    <3> QED BY <2>2, <3>1, ReleaseFacts DEF Goto, Fencing, TypeInv, HolderTypeOK
  <2> QED BY <2>1, <2>3, <2>4, <2>5
<1> QED BY <1>1, <1>2

\* A clock that runs and has elapsed is the one that ran before.
ClockKept(c) == ClockRuns(c) /\ (idleSince'[c] = idleSince[c] \/ IdleElapses(c))

\* How a clock of c comes to run when c moves.
LEMMA HolderClock ==
    ASSUME TypeInv, ConnInv, NEW c \in Proxies, FenceFlag(c), ClockFence(c),
           \/ Start(c) \/ Exit(c) \/ IdleTick(c) \/ IdleElapses(c)
           \/ ProxyStep(c) \/ ProxyFault(c),
           ClockRuns(c)'
    PROVE  ClockFence(c)' /\ (~idleSince'[c].elapsed \/ ClockKept(c))
<1>0. /\ op \in [Proxies -> Ops] /\ pc \in [Proxies -> Awaits] /\ needsFence \in [Proxies -> BOOLEAN]
      /\ phase \in [Proxies -> Phases] /\ idleSince \in [Proxies -> Clock \cup {None}]
      /\ Stage(op[c], pc[c]) /\ (op[c] = "new" => phase[c] = "init")
  BY DEF TypeInv, HolderTypeOK, ControllerTypeOK, ConnInv, HolderInv
<1>1. phase'[c] \in {"init", "up"} /\ op'[c] # "recover" /\ idleSince'[c] # None
  BY DEF ClockRuns
<1>2. ~Fail(c) /\ ~StopClock(c)
  BY <1>0, <1>1, FailFacts DEF StopClock
<1>3. \A a : Goto(c, a) => pc'[c] = a
  BY <1>0 DEF Goto
<1>4. ASSUME phase'[c] = phase[c], idleSince'[c] = idleSince[c], op[c] # "recover"
      PROVE  ClockRuns(c) /\ op[c] \in {"none", "idle"} /\ (needsFence[c] => pc[c] = "scaling")
  BY <1>1, <1>4 DEF ClockRuns, ClockFence
<1>5. CASE Start(c) \/ Exit(c) \/ Crash(c) \/ Sigterm(c)
  BY <1>0, <1>1, <1>5 DEF Start, Exit, Crash, Sigterm, Forget
<1>6. CASE IdleTick(c)
  <2>1. /\ op[c] = "none" /\ pc[c] = "none" /\ op'[c] = "idle"
        /\ UNCHANGED <<phase, idleSince, needsFence>>
    BY <1>0, <1>1, <1>6 DEF IdleTick, Hold, Free, Stage
  <2> QED BY <1>4, <2>1 DEF ClockKept, ClockFence
<1>7. CASE IdleElapses(c)
  <2>1. ClockRuns(c)
    BY <1>1, <1>7 DEF IdleElapses, holder, ClockRuns
  <2> QED BY <1>7, <2>1 DEF IdleElapses, holder, ClockFence, ClockKept
<1>8. CASE Fence(c)
  <2>1. pc[c] = "fence" /\ UNCHANGED <<phase, idleSince, op>>
    BY <1>2, <1>8 DEF Fence
  <2> QED BY <1>1, <1>4, <2>1 DEF FenceFlag
<1>9. CASE Current(c) \/ ListAwake(c)
  <2>1. /\ pc[c] \in {"current", "pods1"} /\ UNCHANGED <<phase, idleSince, op, needsFence>>
    BY <1>2, <1>9 DEF Current, ListAwake
  <2> QED BY <1>1, <1>4, <2>1 DEF FenceFlag, ClockKept, ClockFence
<1>10. CASE ListSleeping(c) \/ Retry(c)
  <2>1. op[c] = "wake" /\ UNCHANGED <<phase, idleSince>>
    BY <1>0, <1>10 DEF ListSleeping, Retry, Stage, controller
  <2> QED BY <1>4, <2>1
<1>11. CASE PatchOk(c)
  <2>1. CASE pc[c] = "fencing"
    <3>1. needsFence[c] /\ Fenced(c)
      BY <1>11, <2>1 DEF PatchOk, FenceFlag
    <3>2. op[c] \notin {"recover", "none"} /\ UNCHANGED idleSince
      BY <1>0, <1>1, <1>2, <2>1, <3>1 DEF Fenced, Stage
    <3>3. phase[c] \in {"init", "up"}
      BY <1>0, <1>1, <3>1 DEF Fenced
    <3> QED BY <1>1, <2>1, <3>1, <3>2, <3>3 DEF ClockRuns, ClockFence
  <2>2. CASE pc[c] = "scaling"
    <3>1. op[c] = "wake" /\ UNCHANGED <<phase, idleSince>>
      BY <1>2, <1>11, <2>2 DEF PatchOk, Scaled
    <3> QED BY <1>4, <3>1
  <2> QED BY <1>11, <2>1, <2>2 DEF PatchOk, Patches
<1>12. CASE PatchRefused(c) \/ PatchTimesOut(c)
  BY <1>0, <1>1, <1>2, <1>12 DEF PatchRefused, PatchTimesOut, PatchFailed
<1>13. CASE Status(c)
  <2>1. pc[c] = "status" /\ ~needsFence[c] /\ UNCHANGED <<phase, needsFence>> /\ op[c] \in {"idle", "wake"}
    BY <1>0, <1>2, <1>13 DEF Status, FenceFlag, Stage
  <2>2. CASE op[c] = "wake"
    <3>1. UNCHANGED idleSince
      BY <1>2, <1>13, <2>2 DEF Status, StatusOfWake
    <3> QED BY <1>4, <2>1, <2>2, <3>1
  <2>3. CASE op[c] = "idle"
    <3>1. StatusOfIdle(c, loc[c].pod)
      BY <1>2, <1>13, <2>3 DEF Status
    <3>2. ClockFence(c)'
      BY <1>2, <2>1, <2>3, <3>1, ReleaseFacts DEF StatusOfIdle, ClockFence
    <3>3. idleSince'[c] = idleSince[c] \/ ~idleSince'[c].elapsed
      BY <1>0, <1>2, <3>1 DEF StatusOfIdle
    <3> QED BY <1>4, <2>1, <2>3, <3>2, <3>3 DEF ClockKept
  <2> QED BY <2>1, <2>2, <2>3
<1>14. CASE Suspend(c)
  <2>1. UNCHANGED <<phase, idleSince, op>> /\ Goto(c, "scaling") /\ pc[c] = "suspending"
    BY <1>2, <1>14 DEF Suspend
  <2> QED BY <1>0, <1>1, <1>3, <1>4, <2>1 DEF ClockKept, ClockFence
<1>15. CASE Resume(c)
  <2>1. op[c] = "wake" /\ UNCHANGED <<phase, idleSince>>
    BY <1>2, <1>15 DEF Resume, ResumeDone
  <2> QED BY <1>4, <2>1
<1>16. CASE ReadFails(c) \/ ColdStartTimeout(c) \/ ControlRefused(c) \/ ControlTimesOut(c)
  BY <1>2, <1>16 DEF ReadFails, ColdStartTimeout, ControlRefused, ControlTimesOut
<1> QED BY <1>5, <1>6, <1>7, <1>8, <1>9, <1>10, <1>11, <1>12, <1>13, <1>14, <1>15, <1>16
   DEF ProxyStep, ProxyFault

\* How a clock comes to run, whoever moves.
LEMMA ClockStep ==
    ASSUME TypeInv, ConnInv, [Next]_vars, NEW c \in Proxies, FenceFlag(c), ClockFence(c),
           ClockRuns(c)'
    PROVE  ClockFence(c)' /\ (~idleSince'[c].elapsed \/ ClockKept(c))
<1>1. LeftAlone(c) => ClockFence(c)' /\ ClockKept(c)
  BY DEF LeftAlone, Undisturbed, ClockFence, ClockRuns, ClockKept
<1>2. ASSUME NEW d \in Proxies,
             \/ Start(d) \/ Exit(d) \/ IdleTick(d) \/ IdleElapses(d)
             \/ ProxyStep(d) \/ ProxyFault(d)
      PROVE  ClockFence(c)' /\ (~idleSince'[c].elapsed \/ ClockKept(c))
  <2>1. CASE d = c
    BY <1>2, <2>1, HolderClock
  <2>2. CASE d # c
    BY <1>1, <1>2, <2>2, OthersLeftAlone
  <2> QED BY <2>1, <2>2
<1>3. ASSUME NEW x \in Conns, (\E d \in Proxies : Accept(x, d)) \/ ConnStep(x)
      PROVE  LeftAlone(c)
  <2>0. /\ op \in [Proxies -> Ops] /\ pc \in [Proxies -> Awaits] /\ loc \in [Proxies -> Locals]
        /\ idleSince \in [Proxies -> Clock \cup {None}] /\ idleSince'[c] # None
    BY DEF TypeInv, HolderTypeOK, ControllerTypeOK, ClockRuns
  <2>1. CASE Wake(x)
    BY <2>0, <2>1 DEF Wake, Hold, LeftAlone, Undisturbed
  <2>2. CASE Close(x)
    BY <2>0, <2>2 DEF Close, LeftAlone, Undisturbed, holder
  <2>3. CASE ~Wake(x) /\ ~Close(x)
    BY <1>3, <2>3 DEF Accept, ConnStep, FirstByte, Connect, CopyEnds, LeftAlone, Undisturbed, holder,
       controller
  <2> QED BY <2>1, <2>2, <2>3
<1>4. ASSUME ClusterStep \/ (\E q \in net : Straggler(q)) \/ UNCHANGED vars PROVE LeftAlone(c)
  BY <1>4 DEF ClusterStep, proxies, Straggler, holder, controller, vars, LeftAlone, Undisturbed
<1> QED BY <1>1, <1>2, <1>3, <1>4 DEF Next

\* The idle task is aborted as its process begins to drain.
LEMMA IdleServesStays ==
    ASSUME TypeInv, ConnInv, [Next]_vars, NEW c \in Proxies, IdleServes(c)
    PROVE  IdleServes(c)'
<1>0. /\ op \in [Proxies -> Ops] /\ phase \in [Proxies -> Phases]
      /\ op[c] = "new" => phase[c] = "init"
  BY DEF TypeInv, HolderTypeOK, ControllerTypeOK, ConnInv, HolderInv
<1>1. op'[c] = op[c] /\ phase'[c] = phase[c] => IdleServes(c)'
  BY DEF IdleServes
<1>2. ASSUME \/ Start(c) \/ Exit(c) \/ IdleTick(c) \/ IdleElapses(c)
             \/ ProxyStep(c) \/ ProxyFault(c)
      PROVE  IdleServes(c)'
  <2>1. Release(c) \/ Fail(c) \/ StopClock(c) => IdleServes(c)'
    BY ReleaseFacts DEF Fail, StopClock, IdleServes
  <2>2. CASE Start(c) \/ Exit(c) \/ Crash(c) \/ Sigterm(c)
    BY <1>0, <2>1, <2>2 DEF Start, Exit, Crash, Forget, Sigterm, IdleServes, holder
  <2>3. CASE IdleTick(c) \/ IdleElapses(c)
    BY <1>0, <1>1, <2>3 DEF IdleTick, IdleElapses, Hold, IdleServes, holder
  <2>4. CASE PatchOk(c) \/ PatchRefused(c) \/ PatchTimesOut(c)
    <3>1. CASE PatchFailed(c)
      BY <1>0, <2>1, <3>1 DEF PatchFailed, IdleServes
    <3>2. CASE Fenced(c)
      BY <1>0, <2>1, <3>2 DEF Fenced, IdleServes
    <3>3. CASE Scaled(c)
      BY <1>1, <2>1, <3>3 DEF Scaled
    <3> QED BY <2>4, <3>1, <3>2, <3>3 DEF PatchOk, PatchRefused, PatchTimesOut
  <2>5. CASE Status(c)
    BY <1>1, <2>1, <2>5 DEF Status, StatusOfWake, StatusOfIdle, ReturnBackend
  <2>6. CASE Fence(c) \/ Current(c) \/ Suspend(c) \/ Resume(c)
    BY <1>1, <2>1, <2>6 DEF Fence, Current, Suspend, Resume, ResumeDone, ReturnBackend
  <2>7. CASE ListSleeping(c) \/ ListAwake(c) \/ Retry(c)
    BY <1>1, <2>1, <2>7 DEF ListSleeping, ListAwake, Retry
  <2>8. CASE ReadFails(c) \/ ColdStartTimeout(c) \/ ControlRefused(c) \/ ControlTimesOut(c)
    BY <2>1, <2>8 DEF ReadFails, ColdStartTimeout, ControlRefused, ControlTimesOut
  <2> QED BY <1>2, <2>2, <2>3, <2>4, <2>5, <2>6, <2>7, <2>8 DEF ProxyStep, ProxyFault
<1>3. ASSUME NEW d \in Proxies, d # c,
             \/ Start(d) \/ Exit(d) \/ IdleTick(d) \/ IdleElapses(d)
             \/ ProxyStep(d) \/ ProxyFault(d)
      PROVE  IdleServes(c)'
  BY <1>1, <1>3, OthersLeftAlone DEF LeftAlone, Undisturbed
<1>4. ASSUME NEW x \in Conns, (\E d \in Proxies : Accept(x, d)) \/ ConnStep(x) PROVE IdleServes(c)'
  <2>1. CASE Wake(x)
    BY <1>0, <1>1, <2>1 DEF Wake, Hold, IdleServes
  <2>2. CASE ~Wake(x)
    BY <1>1, <1>4, <2>2 DEF Accept, ConnStep, FirstByte, Connect, CopyEnds, Close, holder
  <2> QED BY <2>1, <2>2
<1>5. ASSUME ClusterStep \/ (\E q \in net : Straggler(q)) \/ UNCHANGED vars
      PROVE  UNCHANGED <<op, phase>>
  BY <1>5 DEF ClusterStep, proxies, Straggler, holder, vars
<1> QED BY <1>1, <1>2, <1>3, <1>4, <1>5 DEF Next

\* Every step keeps the fences before those that need them.
LEMMA FenceNext ==
    ASSUME TypeInv, ConnInv, FenceInv, [Next]_vars
    PROVE  FenceInv'
<1>1. ASSUME NEW c \in Proxies PROVE FenceFlag(c)' /\ ClockFence(c)' /\ IdleServes(c)'
  <2>1. FenceFlag(c) /\ ClockFence(c) /\ IdleServes(c)
    BY DEF FenceInv
  <2> QED BY <2>1, FlagNext, ClockStep, IdleServesStays DEF ClockFence
<1> QED BY <1>1, LateFenceStays DEF FenceInv

-----------------------------------------------------------------------------
(* Who begins to talk to a worker owns the Deployment.                      *)

\* A proxy comes to the awaits at which it talks to a worker only by reading a
\* Deployment that is awake and, as it needs no fence there, its own.
LEMMA TalkStep ==
    ASSUME TypeInv, ConnInv, [Next]_vars, NEW c \in Proxies, FenceFlag(c),
           pc'[c] \in Talking, pc[c] \notin Talking
    PROVE  dep.replicas = 1 /\ dep.owner = c /\ UNCHANGED dep
<1>0. /\ op \in [Proxies -> Ops] /\ pc \in [Proxies -> Awaits] /\ loc \in [Proxies -> Locals]
      /\ dep \in Deployment
  BY DEF TypeInv, HolderTypeOK, ClusterTypeOK
<1>1. ASSUME NEW d \in Proxies,
             \/ Start(d) \/ Exit(d) \/ IdleTick(d) \/ IdleElapses(d)
             \/ ProxyStep(d) \/ ProxyFault(d)
      PROVE  dep.replicas = 1 /\ dep.owner = c /\ UNCHANGED dep
  <2>0. d = c
    BY <1>1, OthersLeftAlone DEF LeftAlone, Undisturbed
  <2>1. ~Release(c) /\ ~Fail(c) /\ ~StopClock(c)
    BY ReleaseFacts DEF Fail, StopClock, Talking
  <2>2. \A a : Goto(c, a) => pc'[c] = a
    BY <1>0 DEF Goto
  <2>3. ~(\/ Start(c) \/ Exit(c) \/ Crash(c) \/ Sigterm(c) \/ IdleTick(c) \/ IdleElapses(c)
          \/ Fence(c) \/ Retry(c))
    BY <1>0, <2>1, <2>2 DEF Start, Exit, Crash, Sigterm, Forget, IdleTick, IdleElapses, Hold,
       FirstAwait, Fence, Retry, Talking, holder
  <2>4. CASE Current(c)
    <3>1. ~needsFence[c]
      BY <2>4 DEF Current, FenceFlag
    <3> QED BY <1>0, <2>1, <2>2, <2>4, <3>1 DEF Current, CurrentOk, Deployment, Talking, cluster
  <2>5. ~(ListSleeping(c) \/ ListAwake(c) \/ Status(c) \/ Suspend(c) \/ Resume(c))
    BY <2>1, <2>2 DEF ListSleeping, ListAwake, Status, Suspend, Resume, Talking
  <2>6. ~(PatchOk(c) \/ PatchRefused(c) \/ PatchTimesOut(c))
    <3>1. ~(PatchFailed(c) \/ Fenced(c) \/ Scaled(c))
      BY <2>1, <2>2 DEF PatchFailed, Fenced, Scaled, Talking
    <3> QED BY <3>1 DEF PatchOk, PatchRefused, PatchTimesOut
  <2>7. ~(ReadFails(c) \/ ColdStartTimeout(c) \/ ControlRefused(c) \/ ControlTimesOut(c))
    BY <2>1 DEF ReadFails, ColdStartTimeout, ControlRefused, ControlTimesOut
  <2> QED BY <1>1, <2>0, <2>3, <2>4, <2>5, <2>6, <2>7 DEF ProxyStep, ProxyFault
<1>2. ASSUME NEW x \in Conns, (\E d \in Proxies : Accept(x, d)) \/ ConnStep(x) PROVE FALSE
  <2>1. CASE Wake(x)
    BY <1>0, <2>1 DEF Wake, Hold, FirstAwait, Talking
  <2>2. CASE ~Wake(x)
    BY <1>2, <2>2 DEF Accept, ConnStep, FirstByte, Connect, CopyEnds, Close, holder
  <2> QED BY <2>1, <2>2
<1>3. ASSUME ClusterStep \/ \E q \in net : Straggler(q) PROVE UNCHANGED pc
  BY <1>3 DEF ClusterStep, proxies, Straggler, holder
<1> QED BY <1>1, <1>2, <1>3 DEF Next, vars

\* A connection begins to connect for a proxy that talked to its worker.
LEMMA ConnectStep ==
    ASSUME TypeInv, ConnInv, [Next]_vars, NEW x \in Conns, conn'[x].st = "connect"
    PROVE  \/ conn'[x] = conn[x]
           \/ \E c \in Proxies : pc[c] \in Talking /\ conn'[x].px = c
<1>1. ASSUME NEW c \in Proxies, Status(c) \/ Resume(c), ReturnBackend(c), x = loc[c].conn
      PROVE  pc[c] \in Talking /\ conn'[x].px = c
  BY <1>1 DEF Status, Resume, Talking, ReturnBackend, TypeInv, ConnTypeOK
<1> QED BY <1>1, ForwardStep

\* As long as c owns the Deployment, the others stay settled.
LEMMA SettledStays ==
    ASSUME TypeInv, ConnInv, [Next]_vars, NEW c \in Proxies, dep.owner = c, Settled(c),
           \A d \in Proxies : FenceFlag(d)
    PROVE  Settled(c)'
<1>1. ASSUME NEW d \in Proxies \ {c} PROVE pc'[d] \notin Talking
  BY <1>1, TalkStep DEF Settled
<1>2. ASSUME NEW d \in Proxies \ {c}, NEW x \in Conns, conn'[x].px = d PROVE conn'[x].st # "connect"
  BY <1>2, ConnectStep DEF Settled
<1> QED BY <1>1, <1>2 DEF Settled

\* The interval elapses for an owner only when the others have settled.
LEMMA ClockSettledStays ==
    ASSUME InTime, TypeInv, ConnInv, FenceInv, OwnerInv, [Next]_vars, NEW c \in Proxies
    PROVE  ClockSettled(c)'
<1> SUFFICES ASSUME ClockRuns(c)', idleSince'[c].elapsed, dep'.owner = c
             PROVE  Settled(c)'
  BY DEF ClockSettled
<1>0. ClockSettled(c) /\ \A d \in Proxies : FenceFlag(d) /\ ClockFence(d)
  BY DEF FenceInv, OwnerInv
<1>1. ClockKept(c) /\ ClockRuns(c)
  BY <1>0, ClockStep DEF ClockKept
<1>2. dep.owner = c
  <2>1. ASSUME PatchOk(c) \/ PatchTimesOut(c) PROVE FALSE
    <3>1. op[c] = "idle" /\ pc[c] = "scaling"
      BY <1>0, <1>1, <2>1 DEF PatchOk, PatchTimesOut, Patches, FenceFlag, ClockFence, ConnInv,
         HolderInv, Stage
    <3>2. StopClock(c) \/ op' = [op EXCEPT ![c] = "recover"]
      BY <2>1, <3>1 DEF PatchOk, PatchTimesOut, Scaled, PatchFailed
    <3> QED BY <3>2 DEF StopClock, ClockRuns, TypeInv, HolderTypeOK, ControllerTypeOK
  <2>2. ASSUME NEW q \in net, Straggler(q), q.owner = c, q.kind = "patch", Applicable(q) PROVE FALSE
    <3>1. phase[c] # "off"
      BY <1>1 DEF ClockRuns
    <3>2. needsFence[c] /\ pc[c] \in Fencing
      BY <2>2, <3>1 DEF FenceInv, LateFence
    <3> QED BY <1>0, <1>1, <3>2 DEF ClockFence, Fencing
  <2> QED BY <2>1, <2>2, OwnerStep
<1>3. CASE idleSince'[c] = idleSince[c]
  BY <1>0, <1>1, <1>2, <1>3, SettledStays DEF ClockSettled
<1>4. CASE IdleElapses(c)
  <2>1. UNCHANGED <<pc, conn>>
    BY <1>4 DEF IdleElapses, holder
  <2>2. CASE OneAlive
    <3>1. \A d \in Proxies \ {c} : phase[d] = "off" /\ pc[d] = "none"
      BY <1>1, <2>2 DEF ClockRuns, OneAlive, ConnInv, HolderInv, Stage
    <3>2. \A x \in Conns : \A d \in Proxies \ {c} : conn[x].px = d => conn[x].st = "none"
      BY <3>1 DEF ConnInv, TaskHome
    <3> QED BY <2>1, <3>1, <3>2 DEF Settled, Talking
  <2>3. CASE ~SlowRequests
    <3>1. \A d \in Proxies \ {c} : ~Outdated(d)
      BY <1>4, <2>3 DEF IdleElapses
    <3> QED BY <1>2, <2>1, <3>1 DEF Outdated, Settled, Talking
  <2> QED BY <2>2, <2>3 DEF InTime, OwnerInv
<1> QED BY <1>1, <1>3, <1>4 DEF ClockKept

-----------------------------------------------------------------------------
(* An idle tick on its way to a sleep.                                      *)

\* While an idle tick is beyond its fence no other proxy does anything, and no
\* connection is counted.
LEMMA IdleIsAlone ==
    ASSUME TypeInv, ConnInv, OneAlive, NEW c \in Proxies,
           op[c] = "idle", pc[c] \notin {"fence", "fencing"}
    PROVE  /\ phase[c] # "off"
           /\ \A d \in Proxies \ {c} : phase[d] = "off" /\ op[d] = "none" /\ pc[d] = "none"
           /\ \A x \in Conns : conn[x].st \notin {"wake", "connect", "copy", "closing"}
<1>1. HolderInv(c) /\ ClockInv(c) /\ CountInv(c)
  BY DEF ConnInv
<1>2. phase[c] # "off"
  BY <1>1 DEF HolderInv
<1>3. \A d \in Proxies \ {c} : phase[d] = "off" /\ op[d] = "none" /\ pc[d] = "none"
  BY <1>2 DEF OneAlive, ConnInv, HolderInv, Stage
<1>4. Counted(c) = {}
  BY <1>1, FS_EmptySet DEF ClockInv, CountInv
<1>5. ASSUME NEW x \in Conns PROVE conn[x].st \notin {"wake", "connect", "copy", "closing"}
  <2>1. conn[x].st # "none" => conn[x].px = c
    BY <1>3 DEF ConnInv, TaskHome
  <2> QED BY <1>4, <2>1 DEF Counted
<1> QED BY <1>2, <1>3, <1>5

\* The awaits of an idle tick past its read of the Deployment.
OnItsWay == {"pods1", "status", "suspending", "scaling"}

\* How the lock holder c may have come to an await on the way to a sleep.
LEMMA HolderProgress ==
    ASSUME TypeInv, ConnInv, NEW c \in Proxies,
           \/ Start(c) \/ Exit(c) \/ IdleTick(c) \/ IdleElapses(c)
           \/ ProxyStep(c) \/ ProxyFault(c),
           op'[c] = "idle", pc'[c] \in OnItsWay
    PROVE  Undisturbed(c) \/ Current(c) \/ ListAwake(c) \/ Status(c) \/ Suspend(c)
<1>0. /\ op \in [Proxies -> Ops] /\ pc \in [Proxies -> Awaits] /\ loc \in [Proxies -> Locals]
      /\ needsFence \in [Proxies -> BOOLEAN] /\ Stage(op[c], pc[c])
  BY DEF TypeInv, HolderTypeOK, ControllerTypeOK, ConnInv, HolderInv
<1>1. ~Release(c) /\ ~Fail(c) /\ ~StopClock(c)
  BY ReleaseFacts DEF Fail, StopClock
<1>2. \A a : Goto(c, a) => pc'[c] = a
  BY <1>0 DEF Goto
<1>3. CASE Start(c) \/ Exit(c) \/ Crash(c)
  BY <1>0, <1>1, <1>3 DEF Start, Exit, Crash, Forget
<1>4. CASE Sigterm(c)
  BY <1>1, <1>4 DEF Sigterm, Undisturbed, holder, controller
<1>5. CASE IdleTick(c)
  <2>1. CASE UNCHANGED holder
    BY <1>5, <2>1 DEF IdleTick, Undisturbed, holder
  <2>2. CASE Hold(c, "idle", NoLoc)
    BY <1>0, <2>2 DEF Hold, FirstAwait, OnItsWay
  <2> QED BY <1>5, <2>1, <2>2 DEF IdleTick
<1>6. CASE IdleElapses(c)
  BY <1>6 DEF IdleElapses, Undisturbed, holder
<1>7. CASE Fence(c) \/ Retry(c)
  BY <1>1, <1>2, <1>7 DEF Fence, Retry, FirstAwait, OnItsWay
<1>8. CASE ListSleeping(c)
  <2>1. op[c] = "wake" /\ op' = op
    BY <1>0, <1>8 DEF ListSleeping, Stage
  <2> QED BY <2>1
<1>9. CASE PatchOk(c) \/ PatchRefused(c) \/ PatchTimesOut(c)
  <2>1. CASE PatchFailed(c)
    BY <1>0, <1>1, <2>1 DEF PatchFailed
  <2>2. CASE Fenced(c) \/ Scaled(c)
    BY <1>1, <1>2, <2>2 DEF Fenced, Scaled, OnItsWay
  <2> QED BY <1>9, <2>1, <2>2 DEF PatchOk, PatchRefused, PatchTimesOut
<1>10. CASE Resume(c)
  BY <1>1, <1>10 DEF Resume, ResumeDone, ReturnBackend
<1>11. CASE ReadFails(c) \/ ColdStartTimeout(c) \/ ControlRefused(c) \/ ControlTimesOut(c)
  BY <1>1, <1>11 DEF ReadFails, ColdStartTimeout, ControlRefused, ControlTimesOut
<1> QED BY <1>3, <1>4, <1>5, <1>6, <1>7, <1>8, <1>9, <1>10, <1>11 DEF ProxyStep, ProxyFault

\* The same for every step.
LEMMA IdleProgress ==
    ASSUME TypeInv, ConnInv, [Next]_vars, NEW c \in Proxies,
           op'[c] = "idle", pc'[c] \in OnItsWay
    PROVE  Undisturbed(c) \/ Current(c) \/ ListAwake(c) \/ Status(c) \/ Suspend(c)
<1>1. CASE UNCHANGED <<holder, needsFence>>
  BY <1>1 DEF Undisturbed, holder
<1>2. ASSUME NEW d \in Proxies,
             \/ Start(d) \/ Exit(d) \/ IdleTick(d) \/ IdleElapses(d)
             \/ ProxyStep(d) \/ ProxyFault(d)
      PROVE  Undisturbed(c) \/ Current(c) \/ ListAwake(c) \/ Status(c) \/ Suspend(c)
  <2>1. CASE d = c
    BY <1>2, <2>1, HolderProgress
  <2>2. CASE d # c
    BY <1>2, <2>2, OthersLeftAlone DEF LeftAlone
  <2> QED BY <2>1, <2>2
<1>3. ASSUME NEW x \in Conns, (\E d \in Proxies : Accept(x, d)) \/ ConnStep(x)
      PROVE  Undisturbed(c)
  <2>1. CASE Wake(x)
    BY <2>1 DEF Wake, Hold, Undisturbed, TypeInv, HolderTypeOK
  <2>2. CASE ~Wake(x)
    BY <1>3, <2>2 DEF Accept, ConnStep, FirstByte, Connect, CopyEnds, Close, Undisturbed, holder,
       controller
  <2> QED BY <2>1, <2>2
<1>4. ASSUME ClusterStep \/ \E q \in net : Straggler(q) PROVE UNCHANGED <<holder, needsFence>>
  BY <1>4 DEF ClusterStep, proxies, Straggler, holder, controller
<1> QED BY <1>1, <1>2, <1>3, <1>4 DEF Next, vars, holder

\* An idle tick that holds the version of the Deployment goes on owning it.
LEMMA OwnsStays ==
    ASSUME TypeInv, ConnInv, [Next]_vars, NEW c \in Proxies, FenceFlag(c), Owns(c)
    PROVE  Owns(c)'
<1> SUFFICES ASSUME op'[c] = "idle", pc'[c] \in OnItsWay, loc'[c].rv = dep'.rv
             PROVE  dep'.owner = c
  BY DEF Owns, OnItsWay
<1>0. /\ op \in [Proxies -> Ops] /\ pc \in [Proxies -> Awaits] /\ loc \in [Proxies -> Locals]
      /\ Stage(op[c], pc[c])
  BY DEF TypeInv, HolderTypeOK, ConnInv, HolderInv
<1>1. ~Release(c) /\ ~Fail(c) /\ ~StopClock(c)
  BY ReleaseFacts DEF Fail, StopClock
<1>2. CASE Undisturbed(c)
  <2>1. dep'.rv = dep.rv
    BY <1>2, HeldVersion DEF Undisturbed
  <2> QED BY <1>2, <2>1, SameVersion DEF Undisturbed, Owns, OnItsWay
<1>3. CASE Current(c)
  <2>1. ~needsFence[c]
    BY <1>3 DEF Current, FenceFlag
  <2> QED BY <1>1, <1>3, <2>1 DEF Current, CurrentOk, cluster
<1>4. CASE ListAwake(c)
  <2>1. op' = op /\ loc'[c].rv = loc[c].rv
    BY <1>0, <1>1, <1>4 DEF ListAwake, Locals
  <2> QED BY <1>4, <2>1 DEF ListAwake, cluster, Owns
<1>5. CASE Status(c)
  <2>1. op[c] = "wake" => op' = op
    BY <1>1, <1>5 DEF Status, StatusOfWake, ReturnBackend
  <2>2. StatusOfIdle(c, loc[c].pod) /\ op[c] = "idle"
    BY <1>0, <1>1, <1>5, <2>1 DEF Status, Stage
  <2>3. ~Goto(c, "resuming")
    BY <1>0 DEF Goto, OnItsWay
  <2>4. loc' = [loc EXCEPT ![c].boot = pods[loc[c].pod].boot]
    BY <1>1, <2>2, <2>3, Zenon DEF StatusOfIdle
  <2>5. loc'[c].rv = loc[c].rv
    BY <1>0, <2>4 DEF Locals
  <2> QED BY <1>5, <2>2, <2>5 DEF Status, cluster, Owns
<1>6. CASE Suspend(c)
  <2>1. op' = op /\ loc'[c].rv = loc[c].rv
    BY <1>0, <1>1, <1>6 DEF Suspend, Locals
  <2> QED BY <1>6, <2>1 DEF Suspend, Owns
<1> QED BY <1>2, <1>3, <1>4, <1>5, <1>6, IdleProgress

\* An owner knows that the others have settled when its interval has elapsed.
LEMMA OwnerNext ==
    ASSUME InTime, TypeInv, ConnInv, FenceInv, OwnerInv, [Next]_vars
    PROVE  OwnerInv'
<1>1. Overlap \/ OneAlive'
  BY OneAliveStays DEF OwnerInv
<1>2. ASSUME NEW c \in Proxies PROVE Owns(c)'
  BY OwnsStays DEF FenceInv, OwnerInv
<1> QED BY <1>1, <1>2, ClockSettledStays DEF OwnerInv

-----------------------------------------------------------------------------
(* A pod that is not the backend stays untouched.                           *)

\* A pod comes to be by being created.
LEMMA PodIsCreated ==
    ASSUME TypeInv, [Next]_vars, NEW o \in Pods, pods[o].st = "absent", pods'[o].st # "absent"
    PROVE  CreateWorker(o) /\ UNCHANGED proxies
<1>0. pods \in [Pods -> Worker] /\ ~Listening(o)
  BY DEF TypeInv, ClusterTypeOK, Listening
<1>1. ASSUME NEW p \in Pods, NEW k, Listening(p), pods' \in {Suspended(p, k), Resumed(p)}
      PROVE  FALSE
  BY <1>0, <1>1 DEF Suspended, Resumed
<1>2. ASSUME NEW c \in Proxies,
             \/ Start(c) \/ Exit(c) \/ IdleTick(c) \/ IdleElapses(c)
             \/ ProxyStep(c) \/ ProxyFault(c)
      PROVE  FALSE
  <2>1. CASE Suspend(c) \/ Resume(c) \/ ControlTimesOut(c)
    <3>1. pc[c] \in {"suspending", "resuming"} => loc[c].pod \in Pods
      BY DEF TypeInv, HolderTypeOK, NeedsPod
    <3> QED BY <1>1, <2>1, <3>1 DEF Suspend, Resume, ControlTimesOut, ResumeAccepted
  <2>2. CASE ~(Suspend(c) \/ Resume(c) \/ ControlTimesOut(c))
    BY <1>2, <2>2 DEF Start, Exit, IdleTick, IdleElapses, ProxyStep, ProxyFault, Fence, Current,
       ListSleeping, ListAwake, Retry, ColdStartTimeout, PatchOk, PatchRefused, Status,
       ControlRefused, ReadFails, Crash, Sigterm, PatchTimesOut, cluster
  <2> QED BY <2>1, <2>2
<1>3. ASSUME NEW x \in Conns, (\E c \in Proxies : Accept(x, c)) \/ ConnStep(x) PROVE FALSE
  BY <1>0, <1>3 DEF Accept, ConnStep, FirstByte, Wake, Connect, CopyEnds, Close, cluster, Listening
<1>4. ASSUME NEW q \in net, Straggler(q) PROVE FALSE
  <2>1. PodKnown(q)
    BY DEF TypeInv, LateTypeOK
  <2> QED BY <1>1, <1>4, <2>1 DEF Straggler, PodKnown, ResumeAccepted
<1>5. ASSUME ClusterStep PROVE CreateWorker(o)
  <2>1. ~Administration
    BY <1>0 DEF Administration, StatusWritten, Rollout, HelmApply, HelmLookup, Reinstall, Running
  <2>2. ASSUME NEW p \in Pods, WorkerStep(p) PROVE FALSE
    <3>1. CASE \E x \in Conns : Admit(p, x)
      BY <1>0, <3>1 DEF Admit, Worker
    <3>2. CASE \E x \in Conns : SessionEnds(p, x)
      BY <1>0, <3>2 DEF SessionEnds, Worker
    <3>3. CASE Detach(p) \/ DetachedEnds(p)
      BY <1>0, <3>3 DEF Detach, DetachedEnds, Worker
    <3> QED BY <2>2, <3>1, <3>2, <3>3 DEF WorkerStep
  <2>3. ASSUME NEW p \in Pods, PodStep(p) \/ PodFault(p) PROVE CreateWorker(o)
    <3>1. p = o
      BY <1>0, <2>3 DEF PodStep, CreateWorker, CreatePod, PodReady, DeletePod, PodGone, PodFault,
         Evict, Restart
    <3> QED BY <2>3, <3>1 DEF PodStep, PodReady, DeletePod, PodGone, PodFault, Evict, Restart, Running
  <2> QED BY <1>5, <2>1, <2>2, <2>3 DEF ClusterStep
<1> QED BY <1>2, <1>3, <1>4, <1>5 DEF Next, vars, ClusterStep

\* A proxy turns to a pod only by listing it alone.
LEMMA PodIsListed ==
    ASSUME TypeInv, [Next]_vars, NEW o \in Pods, NEW c \in Proxies, loc'[c].pod = o
    PROVE  loc[c].pod = o \/ Listed = {o}
<1>0. loc \in [Proxies -> Locals] /\ NoLoc.pod # o
  BY NoneAssumption DEF TypeInv, HolderTypeOK, NoLoc
<1>1. \A d \in Proxies : Release(d) => loc[c].pod = o \/ d # c
  BY <1>0, ReleaseFacts
<1>2. ASSUME NEW d \in Proxies,
             \/ Start(d) \/ Exit(d) \/ IdleTick(d) \/ IdleElapses(d)
             \/ ProxyStep(d) \/ ProxyFault(d)
      PROVE  loc[c].pod = o \/ Listed = {o}
  <2>1. CASE d # c
    BY <1>2, <2>1, OthersLeftAlone DEF LeftAlone, Undisturbed
  <2>2. CASE d = c
    <3>1. ASSUME loc' = loc \/ Release(c) \/ Fail(c) \/ StopClock(c)
          PROVE  loc[c].pod = o
      BY <1>1, <3>1 DEF Fail, StopClock
    <3>2. ASSUME \/ \E v : loc' = [loc EXCEPT ![c].rv = v]
                 \/ \E v : loc' = [loc EXCEPT ![c].boot = v]
                 \/ \E v : loc' = [loc EXCEPT ![c].permit = v]
                 \/ \E v, w : loc' = [loc EXCEPT ![c].permit = v, ![c].rv = w]
          PROVE  loc[c].pod = o
      BY <1>0, <3>2 DEF Locals
    <3>3. CASE Start(c) \/ Exit(c) \/ Crash(c) \/ Sigterm(c) \/ IdleTick(c) \/ IdleElapses(c)
      BY <1>0, <2>2, <3>1, <3>3 DEF Start, Exit, Crash, Forget, Sigterm, IdleTick, IdleElapses, Hold, holder
    <3>4. CASE Fence(c) \/ Current(c) \/ Retry(c) \/ ListSleeping(c)
      BY <3>1, <3>2, <3>4 DEF Fence, Current, Retry, ListSleeping
    <3>5. CASE ListAwake(c)
      BY <1>0, <3>1, <3>5 DEF ListAwake, Backend, Locals
    <3>6. CASE PatchOk(c) \/ PatchRefused(c) \/ PatchTimesOut(c)
      BY <3>1, <3>2, <3>6 DEF PatchOk, PatchRefused, PatchTimesOut, PatchFailed, Fenced, Scaled
    <3>7. CASE Status(c)
      BY <3>1, <3>2, <3>7 DEF Status, StatusOfWake, StatusOfIdle, ReturnBackend
    <3>8. CASE Suspend(c) \/ Resume(c)
      BY <3>1, <3>2, <3>8 DEF Suspend, Resume, ResumeDone, ReturnBackend
    <3>9. CASE ReadFails(c) \/ ColdStartTimeout(c) \/ ControlRefused(c) \/ ControlTimesOut(c)
      BY <3>1, <3>9 DEF ReadFails, ColdStartTimeout, ControlRefused, ControlTimesOut
    <3> QED BY <1>2, <2>2, <3>3, <3>4, <3>5, <3>6, <3>7, <3>8, <3>9 DEF ProxyStep, ProxyFault
  <2> QED BY <2>1, <2>2
<1>3. ASSUME NEW x \in Conns, (\E d \in Proxies : Accept(x, d)) \/ ConnStep(x)
      PROVE  loc[c].pod = o
  <2>1. CASE Wake(x)
    <3>1. [NoLoc EXCEPT !.conn = x].pod = None
      BY DEF NoLoc
    <3> QED BY <1>0, <2>1, <3>1, NoneAssumption DEF Wake, Hold
  <2>2. CASE ~Wake(x)
    BY <1>3, <2>2 DEF Accept, ConnStep, FirstByte, Connect, CopyEnds, Close, holder
  <2> QED BY <2>1, <2>2
<1>4. ASSUME ClusterStep \/ \E q \in net : Straggler(q) PROVE UNCHANGED loc
  BY <1>4 DEF ClusterStep, proxies, Straggler, holder
<1> QED BY <1>2, <1>3, <1>4 DEF Next, vars

\* A connection turns to a pod only by being given it for its backend.
LEMMA PodIsGiven ==
    ASSUME TypeInv, [Next]_vars, NEW o \in Pods, NEW x \in Conns, conn'[x].pod = o
    PROVE  conn[x].pod = o \/ \E c \in Proxies : loc[c].pod = o
<1>0. conn \in [Conns -> Task] /\ NoConn.pod # o
  BY NoneAssumption DEF TypeInv, ConnTypeOK, NoConn
<1>1. ASSUME NEW c \in Proxies,
             \/ Start(c) \/ Exit(c) \/ IdleTick(c) \/ IdleElapses(c)
             \/ ProxyStep(c) \/ ProxyFault(c)
      PROVE  conn[x].pod = o \/ loc[c].pod = o
  <2>1. ASSUME UNCHANGED conn \/ Fail(c) \/ Crash(c) \/ ReturnBackend(c)
        PROVE  conn[x].pod = o \/ loc[c].pod = o
    BY <1>0, <2>1 DEF Fail, Crash, ReturnBackend
  <2>2. CASE PatchOk(c) \/ PatchRefused(c) \/ PatchTimesOut(c)
    BY <2>1, <2>2 DEF PatchOk, PatchRefused, PatchTimesOut, PatchFailed, Fenced, Scaled
  <2>3. CASE Fence(c) \/ Current(c) \/ Suspend(c) \/ Resume(c) \/ Status(c)
    BY <2>1, <2>3 DEF Fence, Current, Suspend, Resume, ResumeDone, Status, StatusOfWake, StatusOfIdle
  <2> QED BY <1>1, <2>1, <2>2, <2>3 DEF Start, Exit, IdleTick, IdleElapses, ProxyStep, ProxyFault,
     ListSleeping, ListAwake, Retry, ColdStartTimeout, ControlRefused, Sigterm, ReadFails, ControlTimesOut
<1>2. ASSUME NEW y \in Conns, (\E c \in Proxies : Accept(y, c)) \/ ConnStep(y)
      PROVE  conn[x].pod = o
  <2>1. CASE \E c \in Proxies : Accept(y, c)
    BY <1>0, <2>1, NoneAssumption DEF Accept
  <2>2. CASE ConnStep(y)
    BY <1>0, <2>2 DEF ConnStep, FirstByte, Wake, Connect, CopyEnds, Close, Task
  <2> QED BY <1>2, <2>1, <2>2
<1>3. ASSUME ClusterStep \/ \E q \in net : Straggler(q) PROVE UNCHANGED conn
  BY <1>3 DEF ClusterStep, proxies, Straggler
<1> QED BY <1>1, <1>2, <1>3 DEF Next, vars

\* A worker that no connection has for its backend gets no socket, and so no session.
LEMMA LeftOutStays ==
    ASSUME TypeInv, [Next]_vars, NEW o \in Pods, pods[o].queue = {}, ~Busy(o),
           \A x \in Conns : conn[x].pod # o
    PROVE  pods'[o].queue = {} /\ ~Busy(o)'
<1>0. pods \in [Pods -> Worker]
  BY DEF TypeInv, ClusterTypeOK
<1>1. ASSUME pods'[o] = pods[o] PROVE pods'[o].queue = {} /\ ~Busy(o)'
  BY <1>1 DEF Busy
<1>2. ASSUME NEW p \in Pods, NEW k, pods' \in {Suspended(p, k), Resumed(p)}
      PROVE  pods'[o].queue = {} /\ ~Busy(o)'
  BY <1>0, <1>2 DEF Suspended, Resumed, Busy, Worker
<1>3. ASSUME NEW c \in Proxies,
             \/ Start(c) \/ Exit(c) \/ IdleTick(c) \/ IdleElapses(c)
             \/ ProxyStep(c) \/ ProxyFault(c)
      PROVE  pods'[o].queue = {} /\ ~Busy(o)'
  <2>1. CASE Suspend(c) \/ Resume(c) \/ ControlTimesOut(c)
    <3>1. pc[c] \in {"suspending", "resuming"} => loc[c].pod \in Pods
      BY DEF TypeInv, HolderTypeOK, NeedsPod
    <3> QED BY <1>1, <1>2, <2>1, <3>1 DEF Suspend, Resume, ControlTimesOut
  <2>2. CASE ~(Suspend(c) \/ Resume(c) \/ ControlTimesOut(c))
    BY <1>1, <1>3, <2>2 DEF Start, Exit, IdleTick, IdleElapses, ProxyStep, ProxyFault, Fence, Current,
       ListSleeping, ListAwake, Retry, ColdStartTimeout, PatchOk, PatchRefused, Status,
       ControlRefused, ReadFails, Crash, Sigterm, PatchTimesOut, cluster
  <2> QED BY <2>1, <2>2
<1>4. ASSUME NEW x \in Conns, (\E c \in Proxies : Accept(x, c)) \/ ConnStep(x)
      PROVE  pods'[o] = pods[o]
  BY <1>0, <1>4 DEF Accept, ConnStep, FirstByte, Wake, Connect, CopyEnds, Close, cluster
<1>5. ASSUME NEW q \in net, Straggler(q) PROVE pods'[o].queue = {} /\ ~Busy(o)'
  <2>1. PodKnown(q)
    BY DEF TypeInv, LateTypeOK
  <2> QED BY <1>1, <1>2, <1>5, <2>1 DEF Straggler, PodKnown
<1>6. ASSUME ClusterStep PROVE pods'[o].queue = {} /\ ~Busy(o)'
  <2>1. ASSUME NEW p \in Pods, WorkerStep(p) PROVE pods'[o] = pods[o]
    BY <1>0, <2>1 DEF WorkerStep, Admit, SessionEnds, Detach, DetachedEnds, Busy
  <2>2. ASSUME NEW p \in Pods, PodStep(p) \/ PodFault(p)
        PROVE  pods'[o].queue = {} /\ ~Busy(o)'
    <3>1. \/ pods'[o] = pods[o]
          \/ pods'[o] \in {NoPod, Booting(0), Booting(pods[o].boot + 1)}
          \/ \E t \in {"ready", "deleting"} : pods'[o] = [pods[o] EXCEPT !.st = t]
      BY <1>0, <2>2 DEF PodStep, CreateWorker, CreatePod, PodReady, DeletePod, PodGone, PodFault,
         Evict, Restart
    <3> QED BY <1>0, <3>1 DEF NoPod, Booting, Busy, Worker
  <2>3. ASSUME Administration PROVE pods'[o].queue = {} /\ ~Busy(o)'
    <3>1. \/ pods'[o] = pods[o]
          \/ pods'[o] = [pods[o] EXCEPT !.st = "deleting"]
      BY <1>0, <2>3 DEF Administration, StatusWritten, Rollout, HelmApply, HelmLookup, Reinstall
    <3> QED BY <1>0, <3>1 DEF Busy, Worker
  <2> QED BY <1>1, <1>6, <2>1, <2>2, <2>3 DEF ClusterStep
<1> QED BY <1>1, <1>3, <1>4, <1>5, <1>6 DEF Next, vars

\* As long as the pod of an operation is there, the others stay untouched.
LEMMA ApartStays ==
    ASSUME TypeInv, [Next]_vars, NEW c \in Proxies, NEW p \in Pods, loc[c].pod = p, Apart(p)
    PROVE  Apart(p)'
<1> SUFFICES ASSUME pods'[p].st # "absent", NEW o \in Pods \ {p}, pods'[o].st # "absent"
             PROVE  Untouched(o)'
  BY DEF Apart
<1>1. pods[p].st # "absent"
  BY PodIsCreated DEF CreateWorker, Unreferenced
<1>2. CASE pods[o].st = "absent"
  <2>1. Unreferenced(o) /\ pods' = [pods EXCEPT ![o] = Booting(0)] /\ UNCHANGED <<loc, conn>>
    BY <1>2, PodIsCreated DEF CreateWorker, CreatePod, proxies
  <2>2. pods'[o] = Booting(0)
    BY <2>1 DEF TypeInv, ClusterTypeOK
  <2> QED BY <2>1, <2>2 DEF Unreferenced, Untouched, Booting, Busy
<1>3. CASE Untouched(o)
  <2>1. pods'[o].queue = {} /\ ~Busy(o)'
    BY <1>3, LeftOutStays DEF Untouched
  <2>2. Listed # {o}
    BY <1>1 DEF Listed
  <2>3. \A d \in Proxies : loc'[d].pod # o
    BY <1>3, <2>2, PodIsListed DEF Untouched
  <2>4. \A x \in Conns : conn'[x].pod # o
    BY <1>3, PodIsGiven DEF Untouched
  <2> QED BY <2>1, <2>3, <2>4 DEF Untouched
<1> QED BY <1>1, <1>2, <1>3 DEF Apart

-----------------------------------------------------------------------------
(* What an idle tick knows of the workers.                                  *)

\* While the others have settled and an idle tick is on its way to a sleep, nobody
\* resumes or connects to a worker.
LEMMA IdleIsCalm ==
    ASSUME TypeInv, ConnInv, NEW c \in Proxies, op[c] = "idle",
           pc[c] \in {"status", "suspending", "scaling"}, Settled(c)
    PROVE  NobodyResumes /\ NobodyConnects
<1>1. CountInv(c) /\ connections[c] = 0
  BY DEF ConnInv, ClockInv
<1>2. Counted(c) = {}
  BY <1>1, FS_EmptySet DEF CountInv
<1>3. ASSUME NEW x \in Conns, conn[x].st = "connect" PROVE FALSE
  <2>1. conn[x].px \in Proxies
    BY <1>3 DEF ConnInv, TaskHome
  <2> QED BY <1>2, <1>3, <2>1 DEF Counted, Settled
<1>4. NobodyResumes
  BY DEF NobodyResumes, Settled, Talking
<1> QED BY <1>3, <1>4 DEF NobodyConnects

\* The tick lists the one pod there is, finds it quiet for the whole interval, and
\* shuts it.
LEMMA SleepsQuietlyStays ==
    ASSUME TypeInv, ConnInv, SleepInv, [Next]_vars, NEW c \in Proxies
    PROVE  SleepsQuietly(c)'
<1> SUFFICES ASSUME op'[c] = "idle", pc'[c] \in {"status", "suspending", "scaling"}
             PROVE  SleepsQuietly(c)'
  BY DEF SleepsQuietly
<1>0. /\ AbsentEmpty /\ SleepsQuietly(c) /\ Owns(c) /\ ClockSettled(c) /\ IdleServes(c)
      /\ \A d \in Proxies : FenceFlag(d)
      /\ op \in [Proxies -> Ops] /\ pc \in [Proxies -> Awaits] /\ loc \in [Proxies -> Locals]
      /\ NeedsPod(op[c], pc[c]) => loc[c].pod \in Pods
      /\ Stage(op[c], pc[c])
  BY DEF SleepInv, FenceInv, OwnerInv, WorkerInv, TypeInv, HolderTypeOK, ConnInv, HolderInv
<1>a. ~Release(c) /\ ~Fail(c) /\ ~StopClock(c)
  BY ReleaseFacts DEF Fail, StopClock
<1>1. CASE Undisturbed(c)
  <2>1. PICK p \in Pods : p = loc[c].pod /\ loc'[c] = loc[c]
    BY <1>0, <1>1 DEF NeedsPod, Undisturbed
  <2>2. pc[c] \in {"status", "suspending"} => Apart(p)'
    BY <1>0, <1>1, <2>1, ApartStays DEF SleepsQuietly, Undisturbed
  <2>3. ASSUME loc'[c].rv = dep'.rv, pc[c] \in {"suspending", "scaling"}
        PROVE  /\ Settled(c)'
               /\ pc[c] = "suspending" => GateOpen(p)' \/ NoLateResume(p)'
               /\ pc[c] = "scaling" => \A o \in Pods : Quiet(o)'
    <3>1. loc[c].rv = dep.rv /\ op[c] = "idle"
      BY <1>1, <2>1, <2>3, HeldVersion DEF Undisturbed
    <3>2. dep.owner = c /\ Settled(c)
      BY <1>0, <2>3, <3>1 DEF Owns, SleepsQuietly
    <3>3. NobodyResumes /\ NobodyConnects
      BY <2>3, <3>1, <3>2, IdleIsCalm
    <3>4. Settled(c)'
      BY <1>0, <3>2, SettledStays
    <3>5. pc[c] = "suspending" => GateOpen(p)' \/ NoLateResume(p)'
      BY <1>0, <2>1, <3>1, <3>3, ShutStays DEF SleepsQuietly
    <3>6. pc[c] = "scaling" => \A o \in Pods : Quiet(o)'
      BY <1>0, <3>1, <3>3, QuietStays DEF SleepsQuietly
    <3> QED BY <3>4, <3>5, <3>6
  <2>4. pc'[c] = pc[c] /\ loc'[c].pod = p
    BY <1>1, <2>1 DEF Undisturbed
  <2> QED BY <2>2, <2>3, <2>4 DEF SleepsQuietly, Apart, Untouched, GateOpen, NoLateResume
<1>2. ~Current(c)
  BY <1>0, <1>a DEF Current, Goto
<1>3. CASE ListAwake(c)
  <2>1. PICK p \in Pods : Backend(p) /\ Goto(c, "status") /\ loc' = [loc EXCEPT ![c].pod = p]
    BY <1>0, <1>3, <1>a DEF ListAwake, Goto
  <2>2. pc'[c] = "status" /\ loc'[c].pod = p /\ UNCHANGED pods
    BY <1>0, <1>3, <2>1 DEF Goto, ListAwake, cluster, Locals
  <2>3. \A o \in Pods \ {p} : pods'[o].st = "absent"
    BY <2>1, <2>2 DEF Backend, Listed
  <2> QED BY <2>2, <2>3 DEF SleepsQuietly, Apart
<1>4. CASE Status(c)
  <2>1. op[c] # "wake" /\ pc[c] = "status" /\ UNCHANGED <<dep, pods>>
    <3>1. op[c] = "wake" => op' = op
      BY <1>4, <1>a DEF Status, StatusOfWake, ReturnBackend
    <3> QED BY <1>4, <3>1 DEF Status, cluster
  <2>2. op[c] = "idle"
    BY <1>0, <2>1 DEF Stage
  <2>3. PICK p \in Pods : p = loc[c].pod /\ StatusOfIdle(c, p)
    BY <1>0, <1>4, <1>a, <2>1 DEF Status, NeedsPod
  <2>4. ~Goto(c, "resuming")
    BY <1>0 DEF Goto
  <2>5. /\ GateOpen(p) /\ Expired(c, p)
        /\ Goto(c, "suspending")
        /\ loc' = [loc EXCEPT ![c].boot = pods[p].boot]
    BY <1>a, <2>3, <2>4, Zenon DEF StatusOfIdle
  <2>6. pc'[c] = "suspending" /\ loc'[c].pod = p /\ loc'[c].rv = loc[c].rv
    BY <1>0, <2>3, <2>5 DEF Goto, Locals
  <2>7. Apart(p)'
    BY <1>0, <2>1, <2>2, <2>3, ApartStays DEF SleepsQuietly
  <2>8. loc'[c].rv = dep'.rv => Settled(c)'
    <3>1. SUFFICES ASSUME loc[c].rv = dep.rv PROVE Settled(c)'
      BY <2>1, <2>6
    <3>2. dep.owner = c
      BY <1>0, <2>1, <2>2, <3>1 DEF Owns
    <3>3. Settled(c)
      BY <1>0, <2>2, <2>5, <3>2 DEF IdleServes, ClockSettled, ClockRuns, Expired, SameWorker
    <3> QED BY <1>0, <3>2, <3>3, SettledStays
  <2>9. GateOpen(p)'
    BY <2>1, <2>5 DEF GateOpen
  <2> QED BY <2>6, <2>7, <2>8, <2>9 DEF SleepsQuietly, Apart, Untouched, GateOpen
<1>5. CASE Suspend(c)
  <2>1. /\ pc[c] = "suspending" /\ Listening(loc[c].pod) /\ UNCHANGED dep
        /\ Goto(c, "scaling")
        /\ ~Busy(loc[c].pod) /\ pods'[loc[c].pod].permit # None
        /\ loc' = [loc EXCEPT ![c].permit = pods'[loc[c].pod].permit]
    BY <1>5, <1>a, Zenon DEF Suspend
  <2>2. PICK p \in Pods : p = loc[c].pod
    BY <1>0, <2>1 DEF NeedsPod
  <2>3. op[c] = "idle" /\ pc'[c] = "scaling" /\ loc'[c].rv = loc[c].rv
    BY <1>0, <2>1 DEF Goto, Stage, Locals
  <2>4. SUFFICES ASSUME loc[c].rv = dep.rv
                 PROVE  Settled(c)' /\ \A o \in Pods : Quiet(o)'
    BY <2>1, <2>3 DEF SleepsQuietly
  <2>5. dep.owner = c /\ Settled(c)
    BY <1>0, <2>1, <2>3, <2>4 DEF Owns, SleepsQuietly
  <2>6. NobodyResumes /\ NobodyConnects
    BY <2>1, <2>3, <2>5, IdleIsCalm
  <2>7. ASSUME NEW o \in Pods \ {p} PROVE Quiet(o)'
    <3>1. Apart(p) /\ pods[p].st # "absent"
      BY <1>0, <2>1, <2>2, <2>3 DEF SleepsQuietly, Listening
    <3>2. Quiet(o)
      BY <1>0, <3>1 DEF Apart, Untouched, AbsentEmpty, NoPod, Quiet, Busy
    <3> QED BY <2>6, <3>2, QuietStays
  <2>8. Quiet(p)'
    <3>1. GateOpen(p) \/ NoLateResume(p)
      BY <1>0, <2>1, <2>2, <2>3, <2>4 DEF SleepsQuietly
    <3>2. ~GateOpen(p)' /\ NoLateResume(p)'
      BY <2>1, <2>2, <2>6, <3>1, ShutStays DEF GateOpen
    <3>3. ~Busy(p)'
      <4>1. PICK k \in Permits : pods' = Suspended(p, k)
        BY <1>5, <2>2 DEF Suspend
      <4> QED BY <2>1, <2>2, <4>1 DEF Suspended, Busy, TypeInv, ClusterTypeOK, Worker
    <3> QED BY <3>2, <3>3 DEF Quiet
  <2> QED BY <1>0, <2>5, <2>7, <2>8, SettledStays
<1> QED BY <1>1, <1>2, <1>3, <1>4, <1>5, IdleProgress DEF OnItsWay

-----------------------------------------------------------------------------
(* A sleep that is still on its way.                                        *)

\* When nobody talks to a worker and only the owner may begin to, and does not,
\* nobody does after the step.
LEMMA SilenceStays ==
    ASSUME TypeInv, ConnInv, [Next]_vars, NEW c \in Proxies, dep.owner = c,
           \A d \in Proxies : FenceFlag(d) /\ pc[d] \notin Talking,
           NobodyConnects, pc'[c] \notin Talking
    PROVE  (\A d \in Proxies : pc'[d] \notin Talking) /\ NobodyConnects'
BY TalkStep, ConnectStep DEF NobodyConnects

\* What a late sleep knows of those who might be harmed.
LateSleepKnows(q) ==
    /\ dep.owner = q.owner
    /\ Settled(q.owner) /\ NobodyResumes /\ NobodyConnects
    /\ Overlap \/ \A x \in Conns : conn[x].st # "copy"
    /\ \A o \in Pods : Quiet(o)

\* A sleep is left behind by a tick that knows it.
LEMMA NewLateSleep ==
    ASSUME TypeInv, ConnInv, SleepInv, [Next]_vars, NEW q \in net', q \notin net, LateSleep(q)'
    PROVE  /\ q.owner \in Proxies /\ LateSleepKnows(q) /\ UNCHANGED dep
           /\ \A d \in Proxies : pc[d] \notin Talking
<1>1. PICK c \in Proxies : /\ q = PatchOf(c) /\ pc[c] \in Patches
                           /\ Crash(c) \/ Sigterm(c) \/ PatchTimesOut(c)
                           /\ UNCHANGED dep
  BY NewLatePatch DEF LateSleep
<1>2. op[c] = "idle" /\ pc[c] = "scaling" /\ q.owner = c /\ q.rv = loc[c].rv
  <2>1. pc[c] = "scaling" /\ op[c] # "wake" /\ q.owner = c /\ q.rv = loc[c].rv
    BY <1>1 DEF LateSleep, PatchOf, WriteOf, ScaleTo, Keep
  <2> QED BY <2>1 DEF ConnInv, HolderInv, Stage
<1>3. loc[c].rv = dep.rv
  BY <1>1, <1>2 DEF LateSleep, Applicable
<1>4. dep.owner = c /\ Settled(c) /\ \A o \in Pods : Quiet(o)
  BY <1>2, <1>3 DEF SleepInv, OwnerInv, Owns, WorkerInv, SleepsQuietly
<1>5. NobodyResumes /\ NobodyConnects
  BY <1>2, <1>4, IdleIsCalm
<1>6. Overlap \/ \A x \in Conns : conn[x].st # "copy"
  BY <1>2, IdleIsAlone DEF SleepInv, OwnerInv
<1>7. \A d \in Proxies : pc[d] \notin Talking
  BY <1>2, <1>4 DEF Settled, Talking
<1> QED BY <1>1, <1>2, <1>4, <1>5, <1>6, <1>7 DEF LateSleepKnows

\* An old one still does.
LEMMA OldLateSleep ==
    ASSUME TypeInv, ConnInv, SleepInv, [Next]_vars, NEW q \in net, LateSleep(q)
    PROVE  /\ q.owner \in Proxies /\ LateSleepKnows(q)
           /\ \A d \in Proxies : pc[d] \notin Talking
<1>1. LateSleepKnows(q) /\ LateFence(q) /\ q.owner \in Proxies
  BY DEF SleepInv, WorkerInv, LateSleepInv, LateSleepKnows, FenceInv, TypeInv, LateTypeOK, Request
<1>2. pc[q.owner] \in Fencing
  BY <1>1 DEF LateFence, LateSleep, Fencing, ConnInv, HolderInv, Stage
<1> QED BY <1>1, <1>2 DEF LateSleepKnows, Settled, Fencing, Talking

\* A late sleep finds nobody and nothing to harm until a fence, or anybody who has
\* taken the Deployment over, has made it outdated.
LEMMA LateSleepStays ==
    ASSUME TypeInv, ConnInv, SleepInv, [Next]_vars
    PROVE  LateSleepInv'
<1> SUFFICES ASSUME NEW q \in net', LateSleep(q)'
             PROVE  LateSleepKnows(q)'
  BY DEF LateSleepInv, LateSleepKnows
<1>1. /\ q.owner \in Proxies /\ LateSleepKnows(q) /\ dep'.owner = dep.owner
      /\ \A d \in Proxies : pc[d] \notin Talking
  <2>1. CASE q \in net
    <3>1. Applicable(q) /\ dep'.rv = dep.rv
      BY <2>1, LatePatchIsOld DEF LateSleep
    <3>2. LateSleep(q)
      BY <3>1 DEF LateSleep
    <3> QED BY <2>1, <3>1, <3>2, OldLateSleep, SameVersion
  <2>2. CASE q \notin net
    BY <2>2, NewLateSleep
  <2> QED BY <2>1, <2>2
<1>2. pc'[q.owner] \notin Talking
  <2>1. LateFence(q)'
    BY LateFenceStays DEF SleepInv
  <2>2. Stage(op'[q.owner], pc'[q.owner]) /\ (phase'[q.owner] = "off" => op'[q.owner] = "none")
    BY <1>1, ConnNext DEF ConnInv, HolderInv
  <2> QED BY <2>1, <2>2 DEF LateFence, LateSleep, Fencing, Talking, Stage
<1>3. \A d \in Proxies : FenceFlag(d)
  BY DEF SleepInv, FenceInv
<1>4. (\A d \in Proxies : pc'[d] \notin Talking) /\ NobodyConnects'
  BY <1>1, <1>2, <1>3, SilenceStays DEF LateSleepKnows
<1>5. Settled(q.owner)'
  BY <1>1, <1>3, SettledStays DEF LateSleepKnows
<1>6. Overlap \/ \A x \in Conns : conn'[x].st # "copy"
  BY <1>1, ForwardStep DEF LateSleepKnows, NobodyConnects, Connect, Status, Resume, Talking
<1>7. \A o \in Pods : Quiet(o)'
  BY <1>1, QuietStays DEF LateSleepKnows
<1> QED BY <1>1, <1>4, <1>5, <1>6, <1>7 DEF LateSleepKnows, NobodyResumes, Talking

\* The invariant of sleeping.
LEMMA SleepNext ==
    ASSUME InTime
    PROVE  TypeInv /\ ConnInv /\ SleepInv /\ [Next]_vars => SleepInv'
BY FenceNext, OwnerNext, AbsentStays, SleepsQuietlyStays, LateSleepStays DEF SleepInv, WorkerInv

-----------------------------------------------------------------------------
(* The theorems.                                                            *)

\* The three invariants hold together.
THEOREM SleepInvariant ==
    ASSUME InTime
    PROVE  Spec => [](TypeInv /\ ConnInv /\ SleepInv)
BY TypeInit, TypeNext, ConnInit, ConnNext, SleepInit, SleepNext, PTL DEF Spec

\* No late sleep of anybody can take effect while a proxy resumes a worker or connects
\* to one, also while an old proxy drains beside its successor: needs_fence puts a
\* fence before whatever may open a session.
THEOREM FencesBeforeContact ==
    ASSUME InTime
    PROVE  Spec => []FencedBeforeContact
<1>1. TypeInv /\ ConnInv /\ SleepInv => FencedBeforeContact
  BY DEF FencedBeforeContact, SleepInv, WorkerInv, LateSleepInv, NobodyResumes, NobodyConnects
<1> QED BY <1>1, SleepInvariant, PTL

\* If proxies do not overlap, none can either while a connection is copied.
THEOREM FencesBeforeReuse ==
    ASSUME ~Overlap
    PROVE  Spec => []FencedBeforeReuse
<1>1. TypeInv /\ ConnInv /\ SleepInv => FencedBeforeReuse
  BY DEF FencedBeforeReuse, FencedBeforeContact, SleepInv, WorkerInv, LateSleepInv, NobodyResumes,
     NobodyConnects
<1> QED BY <1>1, SleepInvariant, PTL DEF InTime

\* When a sleep takes effect every worker is quiet, the step changes none, and
\* nobody talks to one, before it or after it.
LEMMA SleepsWhenQuiet ==
    ASSUME TypeInv, ConnInv, SleepInv, [Next]_vars,
           dep.replicas = 1, dep'.replicas = 0, dep'.uid = dep.uid, helm' = helm
    PROVE  /\ \A o \in Pods : Quiet(o)
           /\ NobodyResumes /\ NobodyConnects
           /\ UNCHANGED pods
           /\ (\A c \in Proxies : pc'[c] \notin Talking) /\ NobodyConnects'
<1>0. dep \in Deployment /\ dep' # dep /\ pc \in [Proxies -> Awaits]
      /\ \A c \in Proxies : FenceFlag(c) /\ Owns(c) /\ SleepsQuietly(c)
  BY DEF TypeInv, ClusterTypeOK, HolderTypeOK, SleepInv, FenceInv, OwnerInv, WorkerInv
<1>1. ASSUME NEW c \in Proxies, PatchOk(c) \/ PatchTimesOut(c), op[c] = "idle", pc[c] = "scaling",
             loc[c].rv = dep.rv
      PROVE  /\ \A o \in Pods : Quiet(o)
             /\ NobodyResumes /\ NobodyConnects
             /\ UNCHANGED pods
             /\ (\A d \in Proxies : pc'[d] \notin Talking) /\ NobodyConnects'
  <2>1. dep.owner = c /\ Settled(c) /\ \A o \in Pods : Quiet(o)
    BY <1>0, <1>1 DEF Owns, SleepsQuietly
  <2>2. NobodyResumes /\ NobodyConnects
    BY <1>1, <2>1, IdleIsCalm
  <2>3. pc'[c] \in {"none", "fence"} /\ UNCHANGED pods
    <3>1. CASE PatchOk(c)
      <4>1. StopClock(c) /\ UNCHANGED pods
        BY <1>1, <3>1 DEF PatchOk, Scaled
      <4> QED BY <4>1, ReleaseFacts DEF StopClock
    <3>2. CASE PatchTimesOut(c)
      BY <1>0, <1>1, <3>2 DEF PatchTimesOut, PatchFailed, Goto
    <3> QED BY <1>1, <3>1, <3>2
  <2>4. \A d \in Proxies : pc[d] \notin Talking
    BY <1>1, <2>1 DEF Settled, Talking
  <2> QED BY <1>0, <2>1, <2>2, <2>3, <2>4, SilenceStays DEF Talking
<1>2. ASSUME NEW q \in net, Straggler(q), LateSleep(q)
      PROVE  /\ \A o \in Pods : Quiet(o)
             /\ NobodyResumes /\ NobodyConnects
             /\ UNCHANGED pods
             /\ (\A d \in Proxies : pc'[d] \notin Talking) /\ NobodyConnects'
  <2>1. UNCHANGED <<pods, conn, pc>>
    BY <1>0, <1>2 DEF Straggler, holder
  <2> QED BY <1>2, <2>1, OldLateSleep DEF LateSleepKnows, NobodyConnects
<1> QED BY <1>1, <1>2, SleepStep

\* An automatic sleep ends no session and no detached work, on any pod, whoever
\* decided it and however late it arrives, also while an old proxy drains: its
\* requests must only be shorter than the idle interval.
THEOREM SleepsSafely ==
    ASSUME InTime
    PROVE  Spec => SleepKillsNoSession
<1>1. TypeInv /\ ConnInv /\ SleepInv /\ [Next]_vars
        => [(dep.replicas = 1 /\ dep'.replicas = 0 /\ dep'.uid = dep.uid /\ helm' = helm)
              => \A p \in Pods : ~Busy(p)]_vars
  BY SleepsWhenQuiet DEF Quiet
<1> QED BY <1>1, SleepInvariant, PTL DEF Spec, SleepKillsNoSession

-----------------------------------------------------------------------------
(* Idle scaling implements SleepWake when nobody but the proxy changes the  *)
(* replica count.                                                           *)

\* Neither a Helm upgrade nor a reinstall is among the faults.
NobodyElseScales == FaultKinds \cap {"helm", "replace"} = {}

\* Nobody talks to the worker of a Deployment that sleeps.
AsleepInv ==
    /\ helm = None
    /\ dep.replicas = 0 => (\A o \in Pods : Quiet(o)) /\ NobodyConnects
    /\ \A c \in Proxies : pc[c] \in Talking => dep.replicas = 1

\* In a cold install every pod slot is empty.
LEMMA AsleepInit == Init => AsleepInv
BY DEF Init, ClusterInit, AsleepInv, Quiet, Busy, NoPod, NoConn, NobodyConnects, Talking

\* Helm and a reinstall are not there.
LEMMA HelmStays ==
    ASSUME NobodyElseScales, TypeInv, [Next]_vars, helm = None
    PROVE  helm' = None /\ (dep'.uid = dep.uid)
<1>0. dep \in Deployment
  BY DEF TypeInv, ClusterTypeOK
<1>1. ASSUME ClusterStep PROVE helm' = None /\ dep'.uid = dep.uid
  <2>1. ~HelmLookup /\ \A r \in Versions : ~HelmApply(r) /\ \A u \in Uids : ~Reinstall(r, u)
    BY DEF NobodyElseScales, HelmLookup, HelmApply, Reinstall, Fault
  <2>2. ASSUME NEW r \in Versions, StatusWritten(r) \/ Rollout(r) PROVE helm' = None /\ dep'.uid = dep.uid
    <3>1. CASE StatusWritten(r)
      BY <1>0, <3>1 DEF StatusWritten, Deployment
    <3>2. CASE Rollout(r)
      BY <1>0, <3>2 DEF Rollout, Deployment
    <3> QED BY <2>2, <3>1, <3>2
  <2>3. ASSUME NEW p \in Pods, CreateWorker(p) PROVE helm' = None /\ dep'.uid = dep.uid
    BY <1>0, <2>3 DEF CreateWorker, CreatePod, Deployment
  <2>4. ASSUME NEW p \in Pods, WorkerStep(p) \/ PodFault(p) \/ PodReady(p) \/ DeletePod(p) \/ PodGone(p)
        PROVE  helm' = None /\ dep' = dep
    BY <2>4 DEF WorkerStep, Admit, SessionEnds, Detach, DetachedEnds, PodReady, DeletePod, PodGone,
       PodFault, Evict, Restart
  <2> QED BY <1>1, <2>1, <2>2, <2>3, <2>4 DEF ClusterStep, Administration, PodStep
<1>2. ASSUME NEW r \in Versions, NEW q \in Request, dep' = Applied(q, r) PROVE dep'.uid = dep.uid
  BY <1>0, <1>2 DEF Applied, Deployment
<1>3. ASSUME NEW c \in Proxies,
             \/ Start(c) \/ Exit(c) \/ IdleTick(c) \/ IdleElapses(c)
             \/ ProxyStep(c) \/ ProxyFault(c)
      PROVE  helm' = None /\ dep'.uid = dep.uid
  <2>1. CASE PatchOk(c) \/ PatchTimesOut(c)
    BY <1>2, <2>1, PatchType DEF PatchOk, PatchTimesOut
  <2>2. CASE ~(PatchOk(c) \/ PatchTimesOut(c))
    BY <1>3, <2>2 DEF Start, Exit, IdleTick, IdleElapses, ProxyStep, ProxyFault, Fence, Current,
       ListSleeping, ListAwake, Retry, ColdStartTimeout, PatchRefused, Status, Suspend, Resume,
       ControlRefused, Crash, Sigterm, ReadFails, ControlTimesOut, cluster
  <2> QED BY <2>1, <2>2
<1>4. ASSUME NEW x \in Conns, (\E c \in Proxies : Accept(x, c)) \/ ConnStep(x)
      PROVE  helm' = None /\ dep' = dep
  BY <1>4 DEF Accept, ConnStep, FirstByte, Wake, Connect, CopyEnds, Close, cluster
<1>5. ASSUME NEW q \in net, Straggler(q) PROVE helm' = None /\ dep'.uid = dep.uid
  <2>1. q \in Request
    BY DEF TypeInv, LateTypeOK
  <2> QED BY <1>2, <1>5, <2>1 DEF Straggler
<1> QED BY <1>1, <1>3, <1>4, <1>5 DEF Next, vars

\* A Deployment that sleeps stays quiet until a wake takes effect.
LEMMA AsleepNext ==
    ASSUME NobodyElseScales
    PROVE  TypeInv /\ ConnInv /\ SleepInv /\ AsleepInv /\ [Next]_vars => AsleepInv'
<1> SUFFICES ASSUME TypeInv, ConnInv, SleepInv, AsleepInv, [Next]_vars
             PROVE  AsleepInv'
  OBVIOUS
<1>0. helm = None /\ helm' = None /\ dep'.uid = dep.uid
  BY HelmStays DEF AsleepInv
<1>1. dep.replicas \in {0, 1} /\ dep'.replicas \in {0, 1}
  <2>1. TypeInv'
    BY TypeNext
  <2> QED BY <2>1 DEF TypeInv, ClusterTypeOK, Deployment
<1>2. CASE dep.replicas = 1 /\ dep'.replicas = 0
  <2>1. /\ \A o \in Pods : Quiet(o)
        /\ NobodyResumes /\ NobodyConnects
        /\ (\A c \in Proxies : pc'[c] \notin Talking) /\ NobodyConnects'
    BY <1>0, <1>2, SleepsWhenQuiet
  <2> QED BY <1>0, <1>2, <2>1, QuietStays DEF AsleepInv
<1>3. CASE dep.replicas = 0 /\ dep'.replicas = 0
  <2>1. /\ \A o \in Pods : Quiet(o)
        /\ NobodyConnects
        /\ \A c \in Proxies : pc[c] \notin Talking
    BY <1>3 DEF AsleepInv
  <2>2. NobodyResumes
    BY <2>1 DEF NobodyResumes, Talking
  <2>3. \A c \in Proxies : pc'[c] \notin Talking
    BY <1>3, <2>1, TalkStep DEF SleepInv, FenceInv
  <2>4. NobodyConnects'
    BY <2>1, ConnectStep DEF NobodyConnects
  <2> QED BY <1>0, <2>1, <2>2, <2>3, <2>4, QuietStays DEF AsleepInv
<1>4. CASE dep'.replicas = 1
  BY <1>0, <1>4 DEF AsleepInv
<1> QED BY <1>1, <1>2, <1>3, <1>4

\* The sessions of the workers, as members of OpenSessions.
LEMMA SessionsAre ==
    ASSUME NEW s
    PROVE  s \in OpenSessions <=>
             \E p \in Pods : \/ \E x \in Conns : s = <<p, x>> /\ x \in pods[p].tcp
                             \/ s = <<p, None>> /\ pods[p].detached
BY DEF OpenSessions

\* A step that opens no session ends some, or none.
LEMMA SessionsEnd ==
    ASSUME dep'.replicas = dep.replicas,
           \A p \in Pods : /\ pods'[p].tcp \subseteq pods[p].tcp
                           /\ pods'[p].detached => pods[p].detached
    PROVE  \E S \in SUBSET OpenSessions : Promise!End(S)
<1>1. OpenSessions' \subseteq OpenSessions
  BY DEF OpenSessions
<1>2. Promise!End(OpenSessions \ OpenSessions')
  BY <1>1 DEF Promise!End
<1> QED BY <1>2

\* A step of the promise, or a stutter.
PromiseStep == Promise!Next \/ UNCHANGED <<dep.replicas = 1, OpenSessions>>

\* The listener of a worker admits sockets only while the Deployment is awake.
LEMMA AdmitIsOpen ==
    ASSUME TypeInv, AsleepInv, NEW p \in Pods, NEW x \in Conns, Admit(p, x)
    PROVE  PromiseStep
<1>0. pods \in [Pods -> Worker] /\ dep \in Deployment /\ UNCHANGED dep /\ x \in pods[p].queue
  BY DEF TypeInv, ClusterTypeOK, Admit
<1>1. CASE GateOpen(p) /\ x \notin pods[p].tcp
  <2>1. dep.replicas = 1
    BY <1>0, <1>1 DEF AsleepInv, Quiet, Deployment
  <2>2. /\ \A o \in Pods \ {p} : pods'[o] = pods[o]
        /\ pods'[p].tcp = pods[p].tcp \cup {x} /\ pods'[p].detached = pods[p].detached
    BY <1>0, <1>1 DEF Admit, Worker
  <2>3. OpenSessions' = OpenSessions \cup {<<p, x>>}
    BY <1>0, <2>2 DEF OpenSessions
  <2>4. <<p, x>> \notin OpenSessions
    <3>1. x # None
      BY NoneAssumption
    <3> QED BY <1>1, <3>1, SessionsAre
  <2>5. Promise!Open(<<p, x>>)
    BY <1>0, <2>1, <2>3, <2>4 DEF Promise!Open
  <2> QED BY <2>5 DEF PromiseStep, Promise!Next
<1>2. CASE ~GateOpen(p) \/ x \in pods[p].tcp
  <2>1. \A o \in Pods : pods'[o].tcp = pods[o].tcp /\ pods'[o].detached = pods[o].detached
    BY <1>0, <1>2 DEF Admit, Worker
  <2> QED BY <1>0, <2>1, SessionsEnd DEF PromiseStep, Promise!Next
<1> QED BY <1>1, <1>2

\* Detached work comes from a session, which exists only while it is awake.
LEMMA DetachIsOpen ==
    ASSUME TypeInv, AsleepInv, NEW p \in Pods, Detach(p)
    PROVE  PromiseStep
<1>0. pods \in [Pods -> Worker] /\ dep \in Deployment /\ UNCHANGED dep
  BY DEF TypeInv, ClusterTypeOK, Detach
<1>1. dep.replicas = 1
  BY <1>0 DEF Detach, AsleepInv, Quiet, Busy, Deployment
<1>2. /\ \A o \in Pods \ {p} : pods'[o] = pods[o]
      /\ pods'[p].tcp = pods[p].tcp /\ pods'[p].detached /\ ~pods[p].detached
  BY <1>0 DEF Detach, Worker
<1>3. OpenSessions' = OpenSessions \cup {<<p, None>>}
  BY <1>0, <1>2 DEF OpenSessions
<1>4. <<p, None>> \notin OpenSessions
  BY <1>2, NoneAssumption, SessionsAre
<1>5. Promise!Open(<<p, None>>)
  BY <1>0, <1>1, <1>3, <1>4 DEF Promise!Open
<1> QED BY <1>5 DEF PromiseStep, Promise!Next

\* Whatever else happens in the cluster ends sessions or leaves them alone.
LEMMA ClusterIsPromised ==
    ASSUME NobodyElseScales, TypeInv, AsleepInv, ClusterStep
    PROVE  PromiseStep
<1>0. pods \in [Pods -> Worker] /\ dep \in Deployment
  BY DEF TypeInv, ClusterTypeOK
<1>1. ASSUME dep'.replicas = dep.replicas,
             \A p \in Pods : /\ pods'[p].tcp \subseteq pods[p].tcp
                             /\ pods'[p].detached => pods[p].detached
      PROVE  PromiseStep
  BY <1>1, SessionsEnd DEF PromiseStep, Promise!Next
<1>2. ASSUME NEW p \in Pods, WorkerStep(p) PROVE PromiseStep
  <2>1. ASSUME (\E x \in Conns : SessionEnds(p, x)) \/ DetachedEnds(p) PROVE PromiseStep
    <3>1. /\ UNCHANGED dep
          /\ \A o \in Pods \ {p} : pods'[o] = pods[o]
          /\ pods'[p].tcp \subseteq pods[p].tcp /\ (pods'[p].detached => pods[p].detached)
      BY <1>0, <2>1 DEF SessionEnds, DetachedEnds, Worker
    <3> QED BY <1>1, <3>1
  <2> QED BY <1>2, <2>1, AdmitIsOpen, DetachIsOpen DEF WorkerStep
<1>3. ASSUME NEW p \in Pods, PodStep(p) \/ PodFault(p) PROVE PromiseStep
  <2>1. dep'.replicas = dep.replicas
    BY <1>0, <1>3 DEF PodStep, CreateWorker, CreatePod, PodReady, DeletePod, PodGone, PodFault,
       Evict, Restart, Deployment
  <2>2. /\ \A o \in Pods \ {p} : pods'[o] = pods[o]
        /\ \/ pods'[p] \in {NoPod, Booting(0), Booting(pods[p].boot + 1)}
           \/ \E t \in {"ready", "deleting"} : pods'[p] = [pods[p] EXCEPT !.st = t]
    BY <1>0, <1>3 DEF PodStep, CreateWorker, CreatePod, PodReady, DeletePod, PodGone, PodFault,
       Evict, Restart
  <2>3. /\ NoPod.tcp = {} /\ ~NoPod.detached
        /\ \A b : Booting(b).tcp = {} /\ ~Booting(b).detached
    BY DEF NoPod, Booting
  <2>4. \A t : /\ [pods[p] EXCEPT !.st = t].tcp = pods[p].tcp
               /\ [pods[p] EXCEPT !.st = t].detached = pods[p].detached
    BY <1>0 DEF Worker
  <2>5. pods'[p].tcp \subseteq pods[p].tcp /\ (pods'[p].detached => pods[p].detached)
    BY <2>2, <2>3, <2>4
  <2> QED BY <1>1, <2>1, <2>2, <2>5
<1>4. CASE Administration
  <2>1. ASSUME NEW r \in Versions, StatusWritten(r) \/ Rollout(r)
        PROVE  dep'.replicas = dep.replicas /\ UNCHANGED pods
    <3>1. CASE StatusWritten(r)
      BY <1>0, <3>1 DEF StatusWritten, Deployment
    <3>2. CASE Rollout(r)
      BY <1>0, <3>2 DEF Rollout, Deployment
    <3> QED BY <2>1, <3>1, <3>2
  <2>2. ~HelmLookup /\ \A r \in Versions : ~HelmApply(r) /\ \A u \in Uids : ~Reinstall(r, u)
    BY DEF NobodyElseScales, AsleepInv, HelmLookup, HelmApply, Reinstall, Fault
  <2> QED BY <1>1, <1>4, <2>1, <2>2 DEF Administration
<1> QED BY <1>2, <1>3, <1>4 DEF ClusterStep

\* What the proxies and their late writes do to the workers ends no session, and
\* a write that changes the replica count changes nothing else.
LEMMA ProxyLeavesSessions ==
    ASSUME TypeInv, [Next]_vars, ~ClusterStep
    PROVE  /\ dep'.replicas = dep.replicas \/ UNCHANGED pods
           /\ \A p \in Pods : pods'[p].tcp = pods[p].tcp /\ pods'[p].detached = pods[p].detached
<1>0. pods \in [Pods -> Worker]
  BY DEF TypeInv, ClusterTypeOK
<1> DEFINE Same == \A p \in Pods : pods'[p].tcp = pods[p].tcp /\ pods'[p].detached = pods[p].detached
<1>1. ASSUME NEW p, NEW k, pods' \in {pods, Suspended(p, k), Resumed(p)} PROVE Same
  BY <1>0, <1>1 DEF Suspended, Resumed, Worker
<1>2. ASSUME NEW c \in Proxies,
             \/ Start(c) \/ Exit(c) \/ IdleTick(c) \/ IdleElapses(c)
             \/ ProxyStep(c) \/ ProxyFault(c)
      PROVE  (UNCHANGED dep \/ UNCHANGED pods) /\ Same
  <2>1. CASE UNCHANGED pods
    BY <2>1
  <2>2. CASE Suspend(c) \/ Resume(c) \/ ControlTimesOut(c)
    BY <1>1, <2>2 DEF Suspend, Resume, ControlTimesOut
  <2> QED BY <1>2, <2>1, <2>2 DEF Start, Exit, IdleTick, IdleElapses, ProxyStep, ProxyFault, Fence,
     Current, ListSleeping, ListAwake, Retry, ColdStartTimeout, PatchOk, PatchRefused, Status,
     ControlRefused, Crash, Sigterm, ReadFails, PatchTimesOut, cluster
<1>3. ASSUME NEW x \in Conns, (\E c \in Proxies : Accept(x, c)) \/ ConnStep(x)
      PROVE  UNCHANGED dep /\ Same
  <2>1. CASE Connect(x)
    BY <1>0, <2>1 DEF Connect, Worker
  <2>2. CASE ~Connect(x)
    BY <1>3, <2>2 DEF Accept, ConnStep, FirstByte, Wake, CopyEnds, Close, cluster
  <2> QED BY <2>1, <2>2
<1>4. ASSUME NEW q \in net, Straggler(q) PROVE (UNCHANGED dep \/ UNCHANGED pods) /\ Same
  BY <1>1, <1>4 DEF Straggler
<1> QED BY <1>2, <1>3, <1>4 DEF Next, vars

\* Idle scaling implements SleepWake when only the proxy changes the replica
\* count: a worker is put to sleep only when no session and no detached work is
\* left on any pod, and none is admitted while it sleeps.
THEOREM ImplementsSleepWake ==
    ASSUME InTime, NobodyElseScales
    PROVE  Spec => KeepsPromise
<1>1. Init => Promise!Init
  <2> SUFFICES ASSUME Init PROVE Promise!Init
    OBVIOUS
  <2>1. OpenSessions = {}
    BY DEF Init, ClusterInit, OpenSessions, NoPod
  <2> QED BY <2>1 DEF Init, ClusterInit, Promise!Init
<1>2. TypeInv /\ ConnInv /\ SleepInv /\ AsleepInv /\ [Next]_vars => PromiseStep
  <2> SUFFICES ASSUME TypeInv, ConnInv, SleepInv, AsleepInv, [Next]_vars PROVE PromiseStep
    OBVIOUS
  <2>0. dep.replicas \in {0, 1} /\ dep'.replicas \in {0, 1}
    <3>1. TypeInv'
      BY TypeNext
    <3> QED BY <3>1 DEF TypeInv, ClusterTypeOK, Deployment
  <2>1. CASE ClusterStep
    BY <2>1, ClusterIsPromised
  <2>2. CASE ~ClusterStep /\ dep'.replicas = dep.replicas
    BY <2>2, ProxyLeavesSessions, SessionsEnd DEF PromiseStep, Promise!Next
  <2>3. CASE ~ClusterStep /\ dep'.replicas # dep.replicas
    <3>1. OpenSessions' = OpenSessions
      BY <2>3, ProxyLeavesSessions DEF OpenSessions
    <3>2. CASE dep'.replicas = 1
      BY <2>0, <2>3, <3>1, <3>2 DEF Promise!Wake, Promise!Next, PromiseStep
    <3>3. CASE dep'.replicas = 0
      <4>1. \A o \in Pods : ~Busy(o)
        <5>1. helm' = helm /\ dep'.uid = dep.uid
          BY HelmStays DEF AsleepInv
        <5> QED BY <2>0, <2>3, <3>3, <5>1, SleepsWhenQuiet DEF Quiet
      <4>2. OpenSessions = {}
        BY <4>1 DEF OpenSessions, Busy
      <4> QED BY <2>0, <2>3, <3>1, <3>3, <4>2 DEF Promise!Sleep, Promise!Next, PromiseStep
    <3> QED BY <2>0, <3>2, <3>3
  <2> QED BY <2>1, <2>2, <2>3
<1>3. PromiseStep => [Promise!Next]_<<dep.replicas = 1, OpenSessions>>
  BY DEF PromiseStep
<1> QED BY <1>1, <1>2, <1>3, TypeInit, TypeNext, ConnInit, ConnNext, SleepInit, SleepNext,
   AsleepInit, AsleepNext, PTL DEF Spec, KeepsPromise, Promise!Spec

-----------------------------------------------------------------------------
(* A forwarded connection finds its gate open, unless a suspend request is  *)
(* processed after its sender has given up.                                 *)

\* No proxy drains beside its successor: because they do not overlap, or because
\* nobody sends SIGTERM.
OneAtATime == ~Overlap \/ "sigterm" \notin FaultKinds

\* A core closes its gate for a request that nobody waits for any more.
LateSuspend == \E q \in net : q.kind = "suspend" /\ Straggler(q) /\ pods' # pods

\* A connection that was given a backend has an open one; and only a connection
\* that copies, or is about to end, has a socket in a queue, the one of its backend.
ForwardInv ==
    /\ Overlap => \A c \in Proxies : phase[c] # "drain"
    /\ OneAlive
    /\ \A x \in Conns : conn[x].st \in {"connect", "copy"}
                           => conn[x].pod \in Pods /\ GateOpen(conn[x].pod)
    /\ \A p \in Pods : \A x \in pods[p].queue :
          /\ conn[x].st \in {"none", "copy", "closing"}
          /\ conn[x].st = "copy" => conn[x].pod = p

\* In a cold install there is nothing to forward.
LEMMA ForwardInit == Init => ForwardInv
BY DEF Init, ClusterInit, ForwardInv, OneAlive, NoConn, NoPod

\* A process drains only after SIGTERM.
LEMMA NobodyDrains ==
    ASSUME "sigterm" \notin FaultKinds, TypeInv, [Next]_vars, \A c \in Proxies : phase[c] # "drain"
    PROVE  \A c \in Proxies : phase'[c] # "drain"
<1>0. phase \in [Proxies -> Phases]
  BY DEF TypeInv, ControllerTypeOK
<1>1. ASSUME NEW c \in Proxies,
             \/ Start(c) \/ Exit(c) \/ IdleTick(c) \/ IdleElapses(c)
             \/ ProxyStep(c) \/ ProxyFault(c)
      PROVE  \A d \in Proxies : phase'[d] # "drain"
  <2>1. CASE Start(c) \/ Exit(c) \/ Crash(c)
    BY <1>0, <2>1 DEF Start, Exit, Crash
  <2>2. CASE Fail(c)
    <3>1. phase' = [phase EXCEPT ![c] = IF op[c] = "new" THEN "off" ELSE @]
      BY <2>2 DEF Fail
    <3> QED BY <1>0, <3>1
  <2>3. CASE Fenced(c)
    <3>1. phase' = [phase EXCEPT ![c] = IF op[c] = "new" THEN "up" ELSE @]
      BY <2>3 DEF Fenced
    <3> QED BY <1>0, <3>1
  <2>4. ~Sigterm(c)
    BY DEF Sigterm, Fault
  <2> QED BY <1>1, <2>1, <2>2, <2>3, <2>4, PhaseStep
<1>2. ASSUME NEW x \in Conns, (\E c \in Proxies : Accept(x, c)) \/ ConnStep(x) PROVE UNCHANGED phase
  BY <1>2 DEF Accept, ConnStep, FirstByte, Wake, Connect, CopyEnds, Close
<1>3. ASSUME ClusterStep \/ \E q \in net : Straggler(q) PROVE UNCHANGED phase
  BY <1>3 DEF ClusterStep, proxies, Straggler
<1> QED BY <1>1, <1>2, <1>3 DEF Next, vars

\* A gate that was open is closed only by the suspend request of an idle tick, if no
\* late one closes it, and a socket comes into a queue only by a connect.
LEMMA GateStep ==
    ASSUME TypeInv, ConnInv, [Next]_vars, ~LateSuspend, NEW o \in Pods
    PROVE  /\ \/ GateOpen(o) => GateOpen(o)'
              \/ \E c \in Proxies : pc[c] = "suspending"
           /\ \A x \in Conns : x \in pods'[o].queue
                 => x \in pods[o].queue \/ (Connect(x) /\ Listening(o) /\ o = conn[x].pod)
<1>0. pods \in [Pods -> Worker]
  BY DEF TypeInv, ClusterTypeOK
<1> DEFINE Kept == /\ GateOpen(o) => GateOpen(o)'
                   /\ pods'[o].queue \subseteq pods[o].queue
<1>1. ASSUME pods'[o] = pods[o] PROVE Kept
  BY <1>1 DEF GateOpen
<1>2. ASSUME NEW c \in Proxies,
             \/ Start(c) \/ Exit(c) \/ IdleTick(c) \/ IdleElapses(c)
             \/ ProxyStep(c) \/ ProxyFault(c)
      PROVE  Kept \/ (pc[c] = "suspending" /\ pods'[o].queue = pods[o].queue)
  <2>1. CASE UNCHANGED pods
    BY <1>1, <2>1
  <2>2. ASSUME pc[c] = "suspending", NEW k \in Permits, pods' = Suspended(loc[c].pod, k)
        PROVE  pods'[o].queue = pods[o].queue
    BY <1>0, <2>2 DEF Suspended, Worker
  <2>3. ASSUME NEW p \in Pods, pods' = Resumed(p) PROVE Kept
    BY <1>0, <2>3 DEF Resumed, GateOpen, Worker
  <2>4. CASE Suspend(c)
    BY <2>2, <2>4 DEF Suspend
  <2>5. CASE Resume(c)
    BY <2>1, <2>3, <2>5 DEF Resume, TypeInv, HolderTypeOK, NeedsPod
  <2>6. CASE ControlTimesOut(c)
    BY <2>1, <2>2, <2>3, <2>6 DEF ControlTimesOut, TypeInv, HolderTypeOK, NeedsPod
  <2> QED BY <1>2, <2>1, <2>4, <2>5, <2>6 DEF Start, Exit, Crash, Sigterm, IdleTick, IdleElapses,
     ProxyStep, ProxyFault, Fence, Current, ListSleeping, ListAwake, Retry, ColdStartTimeout,
     PatchOk, PatchRefused, PatchTimesOut, Status, ControlRefused, ReadFails, cluster
<1>3. ASSUME NEW x \in Conns, (\E c \in Proxies : Accept(x, c)) \/ ConnStep(x)
      PROVE  /\ GateOpen(o) => GateOpen(o)'
             /\ \A y \in pods'[o].queue : y \in pods[o].queue
                                            \/ (y = x /\ Connect(x) /\ Listening(o) /\ o = conn[x].pod)
  <2>1. CASE Connect(x)
    BY <1>0, <2>1 DEF Connect, GateOpen, Worker, Listening
  <2>2. CASE ~Connect(x)
    BY <1>1, <1>3, <2>2 DEF Accept, ConnStep, FirstByte, Wake, CopyEnds, Close, cluster
  <2> QED BY <2>1, <2>2
<1>4. ASSUME ClusterStep PROVE Kept
  <2>1. ASSUME NEW p \in Pods, WorkerStep(p) PROVE Kept
    <3>1. CASE \E x \in Conns : Admit(p, x)
      BY <1>0, <3>1 DEF Admit, GateOpen, Worker
    <3>2. CASE \E x \in Conns : SessionEnds(p, x)
      BY <1>0, <3>2 DEF SessionEnds, GateOpen, Worker
    <3>3. CASE Detach(p) \/ DetachedEnds(p)
      BY <1>0, <3>3 DEF Detach, DetachedEnds, GateOpen, Worker
    <3> QED BY <2>1, <3>1, <3>2, <3>3 DEF WorkerStep
  <2>2. ASSUME NEW p \in Pods, PodStep(p) \/ PodFault(p) PROVE Kept
    <3>1. \/ pods'[o] = pods[o]
          \/ pods'[o] \in {NoPod, Booting(0), Booting(pods[o].boot + 1)}
          \/ \E t \in {"ready", "deleting"} : pods'[o] = [pods[o] EXCEPT !.st = t]
      BY <1>0, <2>2 DEF PodStep, CreateWorker, CreatePod, PodReady, DeletePod, PodGone, PodFault,
         Evict, Restart
    <3>2. /\ NoPod.queue = {} /\ NoPod.permit = None
          /\ \A b : Booting(b).queue = {} /\ Booting(b).permit = None
      BY DEF NoPod, Booting
    <3>3. \A t : /\ [pods[o] EXCEPT !.st = t].queue = pods[o].queue
                 /\ [pods[o] EXCEPT !.st = t].permit = pods[o].permit
      BY <1>0 DEF Worker
    <3> QED BY <3>1, <3>2, <3>3 DEF GateOpen
  <2>3. CASE Administration
    <3>1. ASSUME NEW r \in Versions, NEW u \in Uids, Reinstall(r, u) PROVE Kept
      BY <1>0, <3>1 DEF Reinstall, GateOpen, Worker
    <3> QED BY <1>1, <2>3, <3>1 DEF Administration, StatusWritten, Rollout, HelmApply, HelmLookup
  <2> QED BY <1>4, <2>1, <2>2, <2>3 DEF ClusterStep
<1>5. ASSUME NEW q \in net, Straggler(q) PROVE Kept
  <2>1. CASE UNCHANGED pods
    BY <1>1, <2>1
  <2>2. CASE q.kind = "resume" /\ pods' = Resumed(q.pod)
    BY <1>0, <2>2 DEF Resumed, GateOpen, Worker
  <2> QED BY <1>5, <2>1, <2>2 DEF Straggler, LateSuspend
<1> QED BY <1>1, <1>2, <1>3, <1>4, <1>5 DEF Next, vars

\* A task whose socket the worker may still have ends, if it moves at all.
LEMMA LateTaskEnds ==
    ASSUME TypeInv, ConnInv, [Next]_vars, NEW x \in Conns, NEW p \in Pods, x \in pods[p].queue,
           conn[x].st \in {"none", "copy", "closing"}
    PROVE  conn'[x] = conn[x] \/ conn'[x].st \in {"none", "closing"}
<1>0. conn \in [Conns -> Task]
  BY DEF TypeInv, ConnTypeOK
<1>1. ASSUME NEW c \in Proxies,
             \/ Start(c) \/ Exit(c) \/ IdleTick(c) \/ IdleElapses(c)
             \/ ProxyStep(c) \/ ProxyFault(c)
      PROVE  conn'[x] = conn[x] \/ conn'[x].st = "none"
  <2>1. CASE UNCHANGED conn
    BY <2>1
  <2>2. CASE Crash(c) \/ Fail(c)
    BY <2>2 DEF Crash, Fail, NoConn
  <2>3. CASE op[c] = "wake" /\ ReturnBackend(c)
    <3>1. x # loc[c].conn
      BY <2>3 DEF ConnInv, HolderInv
    <3> QED BY <1>0, <2>3, <3>1 DEF ReturnBackend
  <2>4. CASE PatchOk(c) \/ PatchRefused(c) \/ PatchTimesOut(c)
    BY <2>1, <2>2, <2>4 DEF PatchOk, PatchRefused, PatchTimesOut, PatchFailed, Fenced, Scaled
  <2>5. CASE Fence(c) \/ Current(c) \/ Suspend(c) \/ Resume(c) \/ Status(c)
    BY <2>1, <2>2, <2>3, <2>5 DEF Fence, Current, Suspend, Resume, ResumeDone, Status, StatusOfWake,
       StatusOfIdle
  <2> QED BY <1>1, <2>1, <2>2, <2>4, <2>5 DEF Start, Exit, IdleTick, IdleElapses, ProxyStep,
     ProxyFault, ListSleeping, ListAwake, Retry, ColdStartTimeout, ControlRefused, Sigterm, ReadFails,
     ControlTimesOut
<1>2. ASSUME NEW y \in Conns, (\E c \in Proxies : Accept(y, c)) \/ ConnStep(y)
      PROVE  conn'[x] = conn[x] \/ conn'[x].st \in {"none", "closing"}
  <2>1. CASE y # x
    BY <1>0, <1>2, <2>1 DEF Accept, ConnStep, FirstByte, Wake, Connect, CopyEnds, Close
  <2>2. CASE y = x
    <3>1. ~\E c \in Proxies : Accept(x, c)
      BY DEF Accept, FreshConn
    <3>2. CopyEnds(x) \/ Close(x)
      BY <1>2, <2>2, <3>1 DEF ConnStep, FirstByte, Wake, Connect
    <3> QED BY <1>0, <3>2 DEF CopyEnds, Close, NoConn, Task
  <2> QED BY <2>1, <2>2
<1>3. ASSUME ClusterStep \/ \E q \in net : Straggler(q) PROVE UNCHANGED conn
  BY <1>3 DEF ClusterStep, proxies, Straggler
<1> QED BY <1>1, <1>2, <1>3 DEF Next, vars

\* A connection is handed a worker whose gate is open, and no gate is shut while
\* a connection has its backend.
LEMMA BackendStaysOpen ==
    ASSUME TypeInv, ConnInv, ForwardInv, [Next]_vars, ~LateSuspend,
           NEW x \in Conns, conn'[x].st \in {"connect", "copy"}
    PROVE  conn'[x].pod \in Pods /\ pods'[conn'[x].pod].permit = None
<1>0. conn \in [Conns -> Task] /\ pods \in [Pods -> Worker] /\ pc \in [Proxies -> Awaits]
  BY DEF TypeInv, ConnTypeOK, ClusterTypeOK, HolderTypeOK
<1>1. CASE conn[x].st \in {"connect", "copy"} /\ conn'[x].pod = conn[x].pod
  <2>1. PICK o \in Pods : o = conn[x].pod /\ GateOpen(o)
    BY <1>1 DEF ForwardInv
  <2>2. ASSUME NEW c \in Proxies, pc[c] = "suspending" PROVE FALSE
    <3>1. op[c] = "idle"
      BY <2>2 DEF ConnInv, HolderInv, Stage
    <3> QED BY <1>1, <2>2, <3>1, IdleIsAlone DEF ForwardInv
  <2>3. pods'[o].permit = None
    BY <2>1, <2>2, GateStep DEF ForwardInv, GateOpen
  <2> QED BY <1>1, <2>1, <2>3
<1>2. ASSUME NEW c \in Proxies, Status(c) \/ Resume(c), op[c] = "wake", ReturnBackend(c),
             x = loc[c].conn
      PROVE  conn'[x].pod \in Pods /\ pods'[conn'[x].pod].permit = None
  <2>0. PICK p \in Pods : p = loc[c].pod
    BY <1>2 DEF TypeInv, HolderTypeOK, NeedsPod, Status, Resume
  <2>1. conn'[x] = [px |-> c, st |-> "connect", pod |-> p]
    BY <1>0, <1>2, <2>0 DEF ReturnBackend
  <2>2. pc'[c] = "none"
    BY <1>2, ReleaseFacts DEF ReturnBackend
  <2>3. CASE Status(c)
    <3>1. ~Fail(c)
      BY <1>2, <2>1 DEF Fail, NoConn
    <3>2. GateOpen(p) /\ UNCHANGED pods
      BY <1>0, <1>2, <2>0, <2>2, <2>3, <3>1 DEF Status, StatusOfWake, Goto, cluster
    <3> QED BY <2>1, <3>2 DEF GateOpen
  <2>4. CASE Resume(c)
    BY <1>0, <2>0, <2>1, <2>4 DEF Resume, Resumed, Worker
  <2> QED BY <1>2, <2>3, <2>4
<1>3. ASSUME Connect(x) PROVE conn[x].st = "connect" /\ conn'[x].pod = conn[x].pod
  BY <1>0, <1>3 DEF Connect, Task
<1> QED BY <1>1, <1>2, <1>3, ForwardStep

\* The socket of a task in a queue is the one it copies from.
LEMMA QueueStays ==
    ASSUME TypeInv, ConnInv, ForwardInv, [Next]_vars, ~LateSuspend,
           NEW p \in Pods, NEW x \in Conns, x \in pods'[p].queue
    PROVE  /\ conn'[x].st \in {"none", "copy", "closing"}
           /\ conn'[x].st = "copy" => conn'[x].pod = p
<1>1. CASE x \in pods[p].queue
  BY <1>1, LateTaskEnds DEF ForwardInv
<1>2. CASE Connect(x) /\ Listening(p) /\ p = conn[x].pod
  BY <1>2 DEF Connect, TypeInv, ConnTypeOK, Task
<1> QED BY <1>1, <1>2, GateStep DEF ForwardInv

\* Forwarding keeps its invariant as long as no late suspend is processed.
LEMMA ForwardNext ==
    ASSUME OneAtATime
    PROVE  TypeInv /\ ConnInv /\ ForwardInv /\ [Next]_vars /\ ~LateSuspend => ForwardInv'
<1> SUFFICES ASSUME TypeInv, ConnInv, ForwardInv, [Next]_vars, ~LateSuspend PROVE ForwardInv'
  OBVIOUS
<1>1. Overlap => \A c \in Proxies : phase'[c] # "drain"
  BY NobodyDrains DEF OneAtATime, ForwardInv
<1>2. OneAlive'
  BY OneAliveStays DEF ForwardInv
<1>3. \A p \in Pods : pods'[p].queue \subseteq Conns
  <2>1. TypeInv'
    BY TypeNext
  <2> QED BY <2>1 DEF TypeInv, ClusterTypeOK, Worker
<1>4. \A x \in Conns : conn'[x].st \in {"connect", "copy"}
                         => conn'[x].pod \in Pods /\ pods'[conn'[x].pod].permit = None
  BY BackendStaysOpen
<1>5. \A p \in Pods : \A x \in pods'[p].queue :
        /\ conn'[x].st \in {"none", "copy", "closing"}
        /\ conn'[x].st = "copy" => conn'[x].pod = p
  BY <1>3, QueueStays
<1> QED BY <1>1, <1>2, <1>4, <1>5 DEF ForwardInv, GateOpen

\* As long as no suspend request is processed after its sender has given up, a
\* connection that has been forwarded to a worker finds its gate open: through
\* crashes, SIGTERM, late scales and resumes, restarts and whatever else happens.
THEOREM FindsOpenGate ==
    ASSUME OneAtATime
    PROVE  Spec /\ [][~LateSuspend]_vars => []ForwardedFindsOpenGate
<1>1. TypeInv /\ ConnInv /\ ForwardInv => ForwardedFindsOpenGate
  BY DEF ForwardInv, ForwardedFindsOpenGate, TypeInv, ClusterTypeOK, Worker
<1>2. TypeInv /\ ConnInv /\ ForwardInv /\ [Next]_vars /\ [~LateSuspend]_vars => ForwardInv'
  <2>1. UNCHANGED vars => ~LateSuspend
    BY DEF vars, cluster, LateSuspend
  <2> QED BY <2>1, ForwardNext
<1> QED BY <1>1, <1>2, TypeInit, TypeNext, ConnInit, ConnNext, ForwardInit, PTL DEF Spec

\* No process dies or is told to stop, and every request is answered.
NothingLeftBehind == FaultKinds \cap {"timeout", "crash", "sigterm"} = {}

\* Then nobody leaves a write behind.
LEMMA NetStaysEmpty ==
    ASSUME NothingLeftBehind, [Next]_vars, net = {}
    PROVE  net' = {}
<1>1. ASSUME NEW c \in Proxies,
             \/ Start(c) \/ Exit(c) \/ IdleTick(c) \/ IdleElapses(c)
             \/ ProxyStep(c) \/ ProxyFault(c)
      PROVE  UNCHANGED net
  <2>1. ~Crash(c) /\ ~Sigterm(c) /\ ~PatchTimesOut(c) /\ ~ControlTimesOut(c)
    BY DEF NothingLeftBehind, Fault, Crash, Sigterm, PatchTimesOut, ControlTimesOut
  <2> QED BY <1>1, <2>1 DEF Start, Exit, IdleTick, IdleElapses, ProxyStep, ProxyFault, Fence,
     Current, ListSleeping, ListAwake, Retry, ColdStartTimeout, PatchOk, PatchRefused, Status,
     Suspend, Resume, ControlRefused, ReadFails
<1>2. ASSUME NEW x \in Conns, (\E c \in Proxies : Accept(x, c)) \/ ConnStep(x) PROVE UNCHANGED net
  BY <1>2 DEF Accept, ConnStep, FirstByte, Wake, Connect, CopyEnds, Close
<1>3. ASSUME ClusterStep PROVE UNCHANGED net
  BY <1>3 DEF ClusterStep, proxies
<1> QED BY <1>1, <1>2, <1>3 DEF Next, vars

\* So if no proxy is killed or stopped and no request times out, a forwarded
\* connection always finds its gate open: of the other faults none closes one.
THEOREM FindsOpenGateWhenAnswered ==
    ASSUME NothingLeftBehind
    PROVE  Spec => []ForwardedFindsOpenGate
<1>1. Init => net = {}
  BY DEF Init
<1>2. net = {} /\ [Next]_vars => (net = {})'
  BY NetStaysEmpty
<1>3. net = {} => [~LateSuspend]_vars
  BY DEF LateSuspend
<1>4. Spec => [](net = {})
  BY <1>1, <1>2, PTL DEF Spec
<1>5. Spec => [][~LateSuspend]_vars
  BY <1>3, <1>4, PTL
<1>6. Spec /\ [][~LateSuspend]_vars => []ForwardedFindsOpenGate
  BY FindsOpenGate DEF NothingLeftBehind, OneAtATime
<1> QED BY <1>5, <1>6, PTL
=============================================================================
