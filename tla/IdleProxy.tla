----------------------------- MODULE IdleProxy -----------------------------
(***************************************************************************)
(* The wake proxy of crates/duckflight-idle-proxy/src/main.rs together     *)
(* with what it talks to: the worker Deployment and its pods (Kubernetes)  *)
(* and the idle-control endpoint of the worker (the core).                 *)
(*                                                                         *)
(* A proxy is one process incarnation, named by the UUID it draws in       *)
(* Controller::new.  Everything it does to the cluster happens under one   *)
(* tokio mutex, so a proxy is modelled as the operation that holds the     *)
(* lock (op), the await at which that operation is suspended (pc) and its  *)
(* locals (loc).  An action is the completion of one await: the server     *)
(* evaluates the request and the code up to the next await runs.  A write  *)
(* may also be answered late, be applied with its answer lost, or outlive  *)
(* the process that sent it; the request then sits in net.                 *)
(*                                                                         *)
(* Simplifications: a GET is evaluated when it is answered; clocks are     *)
(* reduced to "the idle interval has elapsed" and "the cold start deadline *)
(* has passed"; resource versions, UIDs and permits are opaque tokens and  *)
(* a new one is any token nobody remembers.                                *)
(***************************************************************************)
EXTENDS WorkerCluster

CONSTANTS
    Overlap,      \* TRUE: a new proxy may start while an old one drains
    SlowRequests  \* TRUE: a request may outlast the idle interval

ASSUME OverlapAssumption == Overlap \in BOOLEAN /\ SlowRequests \in BOOLEAN

VARIABLES
    phase,        \* life cycle of each proxy process
    uid,          \* Controller.uid
    needsFence,   \* Controller.needs_fence
    connections,  \* Controller.connections
    idleSince,    \* Controller.idle_since
    op,           \* which operation holds the controller lock
    pc,           \* the await it is suspended at
    loc,          \* its local variables
    conn,         \* the client connections (the tasks of proxy_connection)
    net           \* writes nobody waits for any more

cluster == <<dep, pods, helm>>
proxies == <<phase, uid, needsFence, connections, idleSince, op, pc, loc, conn, net>>
controller == <<uid, needsFence, connections, idleSince>>
holder == <<op, pc, loc>>
vars == <<dep, pods, helm, phase, uid, needsFence, connections, idleSince,
          op, pc, loc, conn, net, faults>>

Phases == {"off", "init", "up", "drain"}
Ops == {"none", "new", "idle", "recover", "wake"}
Awaits == {"none", "fence", "fencing", "current", "pods0", "pods1", "status",
           "suspending", "scaling", "resuming", "retry"}
Reads == {"fence", "current", "pods0", "pods1", "status"}
Patches == {"fencing", "scaling"}

NoLoc == [rv |-> None, pod |-> None, boot |-> 0, permit |-> None, conn |-> None]
NoConn == [px |-> None, st |-> "none", pod |-> None]
Request == [tag : 0..MaxFaults, kind : {"patch", "suspend", "resume"},
            owner : Proxies, uid : Uids \cup {None}, rv : Versions \cup {None},
            replicas : {0, 1, Keep}, pod : Pods \cup {None},
            permit : Permits \cup {None}]

Clock == [pod : Pods, boot : Nat, elapsed : BOOLEAN]
Locals == [rv : Versions \cup {None}, pod : Pods \cup {None}, boot : Nat,
           permit : Permits \cup {None}, conn : Conns \cup {None}]
Task == [px : Proxies \cup {None},
         st : {"none", "first", "lock", "wake", "connect", "copy", "closing"},
         pod : Pods \cup {None}]

ProxyTypeOK ==
    /\ phase \in [Proxies -> Phases]
    /\ uid \in [Proxies -> Uids \cup {None}]
    /\ needsFence \in [Proxies -> BOOLEAN]
    /\ connections \in [Proxies -> Int]
    /\ idleSince \in [Proxies -> Clock \cup {None}]
    /\ op \in [Proxies -> Ops]
    /\ pc \in [Proxies -> Awaits]
    /\ loc \in [Proxies -> Locals]
    /\ conn \in [Conns -> Task]

\* The state of the cluster, of every proxy and of the late writes is well formed.
TypeOK == ClusterTypeOK /\ ProxyTypeOK /\ net \subseteq Request

-----------------------------------------------------------------------------
(* Tokens.  A new token is one that nothing refers to any more, and of      *)
(* those the least, so that the reachable states stay finite.               *)

VersionsInUse == {dep.rv} \cup {loc[c].rv : c \in Proxies} \cup {q.rv : q \in net}
PermitsInUse == {pods[p].permit : p \in Pods} \cup {loc[c].permit : c \in Proxies}
                \cup {q.permit : q \in net}
UidsInUse == {dep.uid} \cup {uid[c] : c \in Proxies} \cup {q.uid : q \in net}

LeastOutside(S, used, t) == /\ t \in S \ used
                            /\ \A u \in S \ used : t <= u
NewVersion(r) == LeastOutside(Versions, VersionsInUse, r)
NewPermit(k) == LeastOutside(Permits, PermitsInUse, k)

\* Nothing refers to pod p: its slot can stand for a new pod.
Unreferenced(p) ==
    /\ \A c \in Proxies : /\ loc[c].pod # p
                          /\ idleSince[c] # None => idleSince[c].pod # p
    /\ \A x \in Conns : conn[x].pod # p
    /\ \A q \in net : q.pod # p

-----------------------------------------------------------------------------
(* Requests to the API server.                                              *)

WriteOf(c, replicas) ==
    [tag |-> faults, kind |-> "patch", owner |-> c, uid |-> uid[c],
     rv |-> loc[c].rv, replicas |-> replicas, pod |-> None, permit |-> None]

ScaleTo(c) == IF op[c] = "wake" THEN 1 ELSE 0

\* The PATCH proxy c waits for: fence() leaves spec alone, scale() sets it.
PatchOf(c) == WriteOf(c, IF pc[c] = "scaling" THEN ScaleTo(c) ELSE Keep)

ControlOf(c) ==
    [tag |-> faults, kind |-> IF pc[c] = "resuming" THEN "resume" ELSE "suspend",
     owner |-> c, uid |-> None, rv |-> None, replicas |-> Keep,
     pod |-> loc[c].pod, permit |-> loc[c].permit]

\* The write proxy c has sent and not seen answered.
InFlight(c) ==
    IF pc[c] \in Patches THEN {PatchOf(c)}
    ELSE IF pc[c] \in {"suspending", "resuming"} THEN {ControlOf(c)} ELSE {}

-----------------------------------------------------------------------------
(* Holding the controller lock.                                             *)

Free(c) == phase[c] \in {"up", "drain"} /\ pc[c] = "none"

\* Controller::current: refuse a replaced Deployment, and another owner
\* unless a fence is due.
CurrentOkAnyOwner(c) == dep.uid = uid[c]
CurrentOk(c) == /\ dep.uid = uid[c]
                /\ needsFence[c] \/ dep.owner = c

FirstAwaitUnfenced(c) == "current"
FirstAwait(c) == IF needsFence[c] THEN "fence" ELSE "current"

Hold(c, o, l) == /\ op' = [op EXCEPT ![c] = o]
                 /\ pc' = [pc EXCEPT ![c] = FirstAwait(c)]
                 /\ loc' = [loc EXCEPT ![c] = l]

Release(c) == /\ op' = [op EXCEPT ![c] = "none"]
              /\ pc' = [pc EXCEPT ![c] = "none"]
              /\ loc' = [loc EXCEPT ![c] = NoLoc]

Goto(c, a) == pc' = [pc EXCEPT ![c] = a]

FailStillCounted(c) ==
    /\ Release(c)
    /\ phase' = [phase EXCEPT ![c] = IF op[c] = "new" THEN "off" ELSE @]
    /\ conn' = [x \in Conns |-> IF op[c] = "wake" /\ x = loc[c].conn
                                THEN NoConn ELSE conn[x]]
    /\ idleSince' = [idleSince EXCEPT ![c] = None]
    /\ UNCHANGED <<uid, needsFence, connections>>

\* `?`: the operation returns an error.  Controller::new ends the process,
\* a failed wake ends its connection, and the idle task resets its clock.
Fail(c) ==
    /\ Release(c)
    /\ phase' = [phase EXCEPT ![c] = IF op[c] = "new" THEN "off" ELSE @]
    /\ connections' = [connections EXCEPT ![c] = IF op[c] = "wake" THEN @ - 1 ELSE @]
    /\ conn' = [x \in Conns |-> IF op[c] = "wake" /\ x = loc[c].conn
                                THEN NoConn ELSE conn[x]]
    /\ idleSince' = [idleSince EXCEPT ![c] = None]
    /\ UNCHANGED <<uid, needsFence>>

\* idle_tick returns Ok with the idle clock stopped.
StopClock(c) == /\ Release(c)
                /\ idleSince' = [idleSince EXCEPT ![c] = None]

\* wake returns its backend to proxy_connection, which drops the lock.
ReturnBackend(c) ==
    /\ conn' = [conn EXCEPT ![loc[c].conn] = [px |-> c, st |-> "connect", pod |-> loc[c].pod]]
    /\ Release(c)

-----------------------------------------------------------------------------
(* Process life cycle: main and Controller::new.                            *)

MayStart(c) == /\ phase[c] = "off"
               /\ dep.owner # c /\ \A q \in net : q.owner # c
               /\ \A d \in Proxies : phase[d] = "off" \/ (Overlap /\ phase[d] = "drain")

\* A process starts: Controller::new reads the UID and begins its fence.
Start(c) ==
    /\ MayStart(c)
    /\ phase' = [phase EXCEPT ![c] = "init"]
    /\ uid' = [uid EXCEPT ![c] = dep.uid]
    /\ needsFence' = [needsFence EXCEPT ![c] = TRUE]
    /\ connections' = [connections EXCEPT ![c] = 0]
    /\ idleSince' = [idleSince EXCEPT ![c] = None]
    /\ op' = [op EXCEPT ![c] = "new"]
    /\ pc' = [pc EXCEPT ![c] = "fence"]
    /\ loc' = [loc EXCEPT ![c] = NoLoc]
    /\ UNCHANGED <<cluster, conn, net, faults>>

\* The controller state of a process is gone with the process.
Forget(c) == /\ uid' = [uid EXCEPT ![c] = None]
             /\ needsFence' = [needsFence EXCEPT ![c] = FALSE]
             /\ connections' = [connections EXCEPT ![c] = 0]
             /\ idleSince' = [idleSince EXCEPT ![c] = None]
             /\ Release(c)

\* SIGKILL, a lost node, a panic or an error that ends main.  A write it had sent may
\* still arrive.
Crash(c) ==
    /\ phase[c] # "off"
    /\ Fault("crash")
    /\ phase' = [phase EXCEPT ![c] = "off"]
    /\ Forget(c)
    /\ conn' = [x \in Conns |-> IF conn[x].px = c THEN NoConn ELSE conn[x]]
    /\ net' \in {net, net \cup InFlight(c)}
    /\ UNCHANGED cluster

\* SIGTERM: the acceptors and the idle task are aborted, at whatever await the
\* idle task is suspended; connection tasks go on until they end.
Sigterm(c) ==
    /\ phase[c] = "up"
    /\ Fault("sigterm")
    /\ phase' = [phase EXCEPT ![c] = "drain"]
    /\ IF op[c] \in {"idle", "recover"}
         THEN Release(c) /\ net' \in {net, net \cup InFlight(c)}
         ELSE UNCHANGED <<holder, net>>
    /\ UNCHANGED <<cluster, controller, conn>>

\* The last connection task has ended: main returns.
Exit(c) ==
    /\ phase[c] = "drain"
    /\ \A x \in Conns : conn[x].px # c
    /\ phase' = [phase EXCEPT ![c] = "off"]
    /\ Forget(c)
    /\ UNCHANGED <<cluster, conn, net, faults>>

-----------------------------------------------------------------------------
(* fence, and the reads of current() and ready_backend().                   *)

\* A GET fails or times out, or the answer is not what the code can use.
ReadFails(c) ==
    /\ pc[c] \in Reads
    /\ Fault("read")
    /\ Fail(c)
    /\ UNCHANGED <<cluster, net>>

\* fence(): current() is answered and the annotation PATCH is sent.
Fence(c) ==
    /\ pc[c] = "fence"
    /\ IF CurrentOk(c)
         THEN /\ needsFence' = [needsFence EXCEPT ![c] = TRUE]
              /\ loc' = [loc EXCEPT ![c].rv = dep.rv]
              /\ Goto(c, "fencing")
              /\ UNCHANGED <<phase, uid, connections, idleSince, op, conn>>
         ELSE Fail(c)
    /\ UNCHANGED <<cluster, net, faults>>

\* What the operation does once its fence() has returned Ok.
Fenced(c) ==
    /\ needsFence' = [needsFence EXCEPT ![c] = FALSE]
    /\ phase' = [phase EXCEPT ![c] = IF op[c] = "new" THEN "up" ELSE @]
    /\ IF op[c] = "new"
         THEN Release(c) /\ UNCHANGED idleSince
       ELSE IF op[c] = "idle" /\ connections[c] > 0
         THEN StopClock(c)
       ELSE /\ Goto(c, "current")
            /\ loc' = [loc EXCEPT ![c].rv = None]
            /\ UNCHANGED <<op, idleSince>>
    /\ UNCHANGED <<uid, connections, conn>>

\* current() is answered, outside fence().
Current(c) ==
    /\ pc[c] = "current"
    /\ IF ~CurrentOk(c) \/ (op[c] = "recover" /\ dep.replicas = 0)
         THEN Fail(c)
       ELSE IF op[c] = "idle" /\ dep.replicas = 0
         THEN StopClock(c) /\ UNCHANGED <<phase, uid, needsFence, connections, conn>>
       ELSE /\ Goto(c, IF op[c] = "recover" THEN "resuming"
                    ELSE IF dep.replicas = 0 THEN "pods0" ELSE "pods1")
            /\ loc' = [loc EXCEPT ![c].rv =
                         IF op[c] = "idle" \/ dep.replicas = 0 THEN dep.rv ELSE None]
            /\ UNCHANGED <<phase, uid, needsFence, connections, idleSince, op, conn>>
    /\ UNCHANGED <<cluster, net, faults>>

ListSleepingAnyPods(c) ==
    /\ pc[c] = "pods0"
    /\ needsFence' = [needsFence EXCEPT ![c] = TRUE]
    /\ Goto(c, "scaling")
    /\ UNCHANGED <<cluster, phase, uid, connections, idleSince, op, loc, conn, net, faults>>

\* wake lists the pods of a sleeping Deployment: it scales to one only when
\* no old pod is left, and otherwise sleeps and tries again.
ListSleeping(c) ==
    /\ pc[c] = "pods0"
    /\ IF Listed = {}
         THEN /\ needsFence' = [needsFence EXCEPT ![c] = TRUE]
              /\ Goto(c, "scaling")
              /\ UNCHANGED loc
         ELSE /\ Goto(c, "retry")
              /\ loc' = [loc EXCEPT ![c].rv = None]
              /\ UNCHANGED needsFence
    /\ UNCHANGED <<cluster, phase, uid, connections, idleSince, op, conn, net, faults>>

\* ready_backend(): exactly one pod is listed, and it is ready.
BackendAmongOthers(p) == pods[p].st = "ready"
Backend(p) == Listed = {p} /\ pods[p].st = "ready"

ListAwake(c) ==
    /\ pc[c] = "pods1"
    /\ \/ \E p \in Pods : /\ Backend(p)
                          /\ Goto(c, "status")
                          /\ loc' = [loc EXCEPT ![c].pod = p]
                          /\ UNCHANGED <<op, idleSince>>
       \/ /\ \A p \in Pods : ~Backend(p)
          /\ IF op[c] = "wake"
               THEN Goto(c, "retry") /\ UNCHANGED <<op, loc, idleSince>>
               ELSE StopClock(c)
    /\ UNCHANGED <<cluster, phase, uid, needsFence, connections, conn, net, faults>>

\* The wake loop comes round again.
Retry(c) ==
    /\ pc[c] = "retry"
    /\ Goto(c, FirstAwait(c))
    /\ UNCHANGED <<cluster, phase, controller, op, loc, conn, net, faults>>

ColdStartTimeoutNever(c) == FALSE

\* The deadline of the wake loop has passed.
ColdStartTimeout(c) ==
    /\ pc[c] = "retry"
    /\ Fail(c)
    /\ UNCHANGED <<cluster, net, faults>>

-----------------------------------------------------------------------------
(* PATCH: fence() and scale().                                              *)

\* scale() has returned Ok: wake goes round its loop, idle_tick is done.
Scaled(c) ==
    /\ needsFence' = [needsFence EXCEPT ![c] = FALSE]
    /\ IF op[c] = "wake"
         THEN /\ Goto(c, "retry")
              /\ loc' = [loc EXCEPT ![c].rv = None]
              /\ UNCHANGED <<op, idleSince>>
         ELSE StopClock(c)
    /\ UNCHANGED <<phase, uid, connections, conn>>

PatchFailedUnfenced(c) ==
    IF op[c] = "idle" /\ pc[c] = "scaling"
      THEN /\ op' = [op EXCEPT ![c] = "recover"]
           /\ Goto(c, "current")
           /\ loc' = [loc EXCEPT ![c].rv = None]
           /\ UNCHANGED <<phase, controller, conn>>
      ELSE Fail(c)

\* The PATCH returned an error, so needs_fence stays set.  A failed sleep goes
\* on to its recovery fence; every other operation gives up.
PatchFailed(c) ==
    IF op[c] = "idle" /\ pc[c] = "scaling"
      THEN /\ op' = [op EXCEPT ![c] = "recover"]
           /\ Goto(c, "fence")
           /\ loc' = [loc EXCEPT ![c].rv = None]
           /\ UNCHANGED <<phase, controller, conn>>
      ELSE Fail(c)

PatchOk(c) ==
    /\ pc[c] \in Patches
    /\ Applicable(PatchOf(c))
    /\ \E r \in Versions : NewVersion(r) /\ dep' = Applied(PatchOf(c), r)
    /\ IF pc[c] = "fencing" THEN Fenced(c) ELSE Scaled(c)
    /\ UNCHANGED <<pods, helm, net, faults>>

PatchRefused(c) ==
    /\ pc[c] \in Patches
    /\ ~Applicable(PatchOf(c))
    /\ PatchFailed(c)
    /\ UNCHANGED <<cluster, net, faults>>

\* The client times out: the PATCH was applied, is lost, or is still on its way.
PatchTimesOut(c) ==
    /\ pc[c] \in Patches
    /\ Fault("timeout")
    /\ \/ /\ Applicable(PatchOf(c))
          /\ \E r \in Versions : NewVersion(r) /\ dep' = Applied(PatchOf(c), r)
          /\ UNCHANGED net
       \/ UNCHANGED dep /\ net' \in {net, net \cup {PatchOf(c)}}
    /\ PatchFailed(c)
    /\ UNCHANGED <<pods, helm>>

-----------------------------------------------------------------------------
(* The idle task and the control requests of idle_tick and wake.            *)

\* The idle task wakes up every five seconds and takes the lock.
IdleTick(c) ==
    /\ phase[c] = "up" /\ Free(c)
    /\ IF ~needsFence[c] /\ connections[c] > 0
         THEN /\ idleSince' = [idleSince EXCEPT ![c] = None]
              /\ UNCHANGED holder
         ELSE Hold(c, "idle", NoLoc) /\ UNCHANGED idleSince
    /\ UNCHANGED <<cluster, phase, uid, needsFence, connections, conn, net, faults>>

\* Proxy d still waits for the pods, a status, a resume or a TCP connect it asked
\* for when it owned the Deployment, although another proxy owns it by now.
Outdated(d) == /\ dep.owner # d
               /\ \/ pc[d] \in {"pods1", "status", "resuming"}
                  \/ \E x \in Conns : conn[x].px = d /\ conn[x].st = "connect"

\* Time passes until the idle interval has elapsed.  Unless SlowRequests, the
\* interval is longer than the requests of a proxy that lost the Deployment
\* before the clock was started can take (10 s and 15 s timeouts).
IdleElapses(c) ==
    /\ idleSince[c] # None
    /\ ~idleSince[c].elapsed
    /\ SlowRequests \/ \A d \in Proxies \ {c} : ~Outdated(d)
    /\ idleSince' = [idleSince EXCEPT ![c] = [@ EXCEPT !.elapsed = TRUE]]
    /\ UNCHANGED <<cluster, phase, uid, needsFence, connections, holder, conn, net, faults>>

SameWorkerNever(c, p) == idleSince[c] # None /\ idleSince[c].pod # p
SameWorkerAnyBoot(c, p) == idleSince[c] # None /\ idleSince[c].pod = p

\* The idle clock runs for the very pod and core boot that status reports.
SameWorker(c, p) == /\ idleSince[c] # None
                    /\ idleSince[c].pod = p
                    /\ idleSince[c].boot = pods[p].boot

Expired(c, p) == SameWorker(c, p) /\ idleSince[c].elapsed

StatusOfIdleUnresumed(c, p) ==
    /\ \/ /\ ~GateOpen(p) \/ Busy(p)
          /\ StopClock(c)
       \/ /\ GateOpen(p) /\ ~Busy(p) /\ Expired(c, p)
          /\ Goto(c, "suspending")
          /\ loc' = [loc EXCEPT ![c].boot = pods[p].boot]
          /\ UNCHANGED <<op, idleSince>>
       \/ /\ GateOpen(p) /\ ~Busy(p) /\ ~Expired(c, p)
          /\ Release(c)
          /\ idleSince' = [idleSince EXCEPT ![c] =
                IF SameWorker(c, p) THEN @
                ELSE [pod |-> p, boot |-> pods[p].boot, elapsed |-> FALSE]]
    /\ UNCHANGED conn

\* GET /status answered in idle_tick: resume a suspended worker, stop the clock
\* of a busy one, and suspend one that has been idle for the whole interval.
StatusOfIdle(c, p) ==
    /\ \/ /\ ~GateOpen(p)
          /\ Goto(c, "resuming")
          /\ loc' = [loc EXCEPT ![c].permit = pods[p].permit, ![c].rv = None]
          /\ UNCHANGED <<op, idleSince>>
       \/ /\ GateOpen(p) /\ Busy(p)
          /\ StopClock(c)
       \/ /\ GateOpen(p) /\ ~Busy(p) /\ Expired(c, p)
          /\ Goto(c, "suspending")
          /\ loc' = [loc EXCEPT ![c].boot = pods[p].boot]
          /\ UNCHANGED <<op, idleSince>>
       \/ /\ GateOpen(p) /\ ~Busy(p) /\ ~Expired(c, p)
          /\ Release(c)
          /\ idleSince' = [idleSince EXCEPT ![c] =
                IF SameWorker(c, p) THEN @
                ELSE [pod |-> p, boot |-> pods[p].boot, elapsed |-> FALSE]]
    /\ UNCHANGED conn

StatusOfWakeUnresumed(c, p) ==
    /\ ReturnBackend(c)
    /\ UNCHANGED idleSince

\* GET /status answered in wake: resume a suspended worker, else return it.
StatusOfWake(c, p) ==
    /\ IF GateOpen(p)
         THEN ReturnBackend(c)
         ELSE /\ Goto(c, "resuming")
              /\ loc' = [loc EXCEPT ![c].permit = pods[p].permit]
              /\ UNCHANGED <<op, conn>>
    /\ UNCHANGED idleSince

Status(c) ==
    /\ pc[c] = "status"
    /\ IF ~Listening(loc[c].pod)
         THEN Fail(c)
         ELSE /\ IF op[c] = "wake" THEN StatusOfWake(c, loc[c].pod)
                                   ELSE StatusOfIdle(c, loc[c].pod)
              /\ UNCHANGED <<phase, uid, needsFence, connections>>
    /\ UNCHANGED <<cluster, net, faults>>

SuspendUnchecked(c) ==
    LET p == loc[c].pod IN
    /\ pc[c] = "suspending"
    /\ Listening(p)
    /\ \E k \in Permits : NewPermit(k) /\ pods' = Suspended(p, k)
    /\ needsFence' = [needsFence EXCEPT ![c] = TRUE]
    /\ Goto(c, "scaling")
    /\ loc' = [loc EXCEPT ![c].permit = pods'[p].permit]
    /\ UNCHANGED <<dep, helm, phase, uid, connections, idleSince, op, conn, net, faults>>

\* POST /suspend answered: without a permit the worker is left alone, with one
\* from the core that was idle all along scale(0) is sent.
Suspend(c) ==
    LET p == loc[c].pod IN
    /\ pc[c] = "suspending"
    /\ Listening(p)
    /\ \E k \in Permits : NewPermit(k) /\ pods' = Suspended(p, k)
    /\ \/ /\ pods'[p].permit = None
          /\ StopClock(c)
          /\ UNCHANGED <<phase, uid, needsFence, connections, conn>>
       \/ /\ pods'[p].permit # None
          /\ Busy(p) \/ pods[p].boot # loc[c].boot
          /\ Fail(c)
       \/ /\ pods'[p].permit # None
          /\ ~Busy(p) /\ pods[p].boot = loc[c].boot
          /\ needsFence' = [needsFence EXCEPT ![c] = TRUE]
          /\ Goto(c, "scaling")
          /\ loc' = [loc EXCEPT ![c].permit = pods'[p].permit]
          /\ UNCHANGED <<phase, uid, connections, idleSince, op, conn>>
    /\ UNCHANGED <<dep, helm, net, faults>>

\* What the operation does once the worker has been resumed.
ResumeDone(c) ==
    /\ IF op[c] = "wake" THEN ReturnBackend(c) /\ UNCHANGED idleSince
                         ELSE StopClock(c) /\ UNCHANGED conn
    /\ UNCHANGED <<phase, uid, needsFence, connections>>

Resume(c) ==
    /\ pc[c] = "resuming"
    /\ ResumeAccepted(loc[c].pod, loc[c].permit)
    /\ pods' = Resumed(loc[c].pod)
    /\ ResumeDone(c)
    /\ UNCHANGED <<dep, helm, net, faults>>

\* The worker refuses the connection, or the permit is not the one it issued.
ControlRefused(c) ==
    /\ \/ pc[c] = "suspending" /\ ~Listening(loc[c].pod)
       \/ pc[c] = "resuming" /\ ~ResumeAccepted(loc[c].pod, loc[c].permit)
    /\ Fail(c)
    /\ UNCHANGED <<cluster, net, faults>>

\* A control POST times out: it took effect, is lost, or is still on its way.
ControlTimesOut(c) ==
    /\ pc[c] \in {"suspending", "resuming"}
    /\ Fault("timeout")
    /\ \/ /\ pc[c] = "suspending" /\ Listening(loc[c].pod)
          /\ \E k \in Permits : NewPermit(k) /\ pods' = Suspended(loc[c].pod, k)
          /\ UNCHANGED net
       \/ /\ pc[c] = "resuming" /\ ResumeAccepted(loc[c].pod, loc[c].permit)
          /\ pods' = Resumed(loc[c].pod)
          /\ UNCHANGED net
       \/ UNCHANGED pods /\ net' \in {net, net \cup {ControlOf(c)}}
    /\ Fail(c)
    /\ UNCHANGED <<dep, helm>>

\* A write nobody waits for is processed at last, or never.
Straggler(q) ==
    /\ net' = net \ {q}
    /\ \/ /\ q.kind = "patch" /\ Applicable(q)
          /\ \E r \in Versions : NewVersion(r) /\ dep' = Applied(q, r)
          /\ UNCHANGED pods
       \/ /\ q.kind = "suspend" /\ Listening(q.pod)
          /\ \E k \in Permits : NewPermit(k) /\ pods' = Suspended(q.pod, k)
          /\ UNCHANGED dep
       \/ /\ q.kind = "resume" /\ ResumeAccepted(q.pod, q.permit)
          /\ pods' = Resumed(q.pod)
          /\ UNCHANGED dep
       \/ UNCHANGED <<dep, pods>>
    /\ UNCHANGED <<helm, phase, controller, holder, conn, faults>>

-----------------------------------------------------------------------------
(* proxy_connection.                                                        *)

\* Connection x is not in use, and no worker still has a socket of it.
FreshConn(x) == /\ conn[x] = NoConn
                /\ \A p \in Pods : x \notin pods[p].queue \cup pods[p].tcp

\* A client connects to proxy c and is accepted.
Accept(x, c) ==
    /\ phase[c] = "up"
    /\ FreshConn(x)
    /\ conn' = [conn EXCEPT ![x] = [px |-> c, st |-> "first", pod |-> None]]
    /\ UNCHANGED <<cluster, phase, controller, holder, net, faults>>

\* It sends its first byte; or it is a probe that closes, or says nothing for
\* ten seconds, and then never reaches the controller.
FirstByte(x) ==
    /\ conn[x].st = "first"
    /\ \/ conn' = [conn EXCEPT ![x].st = "lock"]
       \/ conn' = [conn EXCEPT ![x] = NoConn]
    /\ UNCHANGED <<cluster, phase, controller, holder, net, faults>>

WakeClockRunning(x) ==
    LET c == conn[x].px IN
    /\ conn[x].st = "lock"
    /\ Free(c)
    /\ conn' = [conn EXCEPT ![x].st = "wake"]
    /\ connections' = [connections EXCEPT ![c] = @ + 1]
    /\ Hold(c, "wake", [NoLoc EXCEPT !.conn = x])
    /\ UNCHANGED <<cluster, phase, uid, needsFence, idleSince, net, faults>>

\* It gets the controller lock, is counted, and starts wake().
Wake(x) ==
    LET c == conn[x].px IN
    /\ conn[x].st = "lock"
    /\ Free(c)
    /\ conn' = [conn EXCEPT ![x].st = "wake"]
    /\ connections' = [connections EXCEPT ![c] = @ + 1]
    /\ idleSince' = [idleSince EXCEPT ![c] = None]
    /\ Hold(c, "wake", [NoLoc EXCEPT !.conn = x])
    /\ UNCHANGED <<cluster, phase, uid, needsFence, net, faults>>

\* TcpStream::connect to the backend, without the lock: the socket waits in
\* the worker's accept queue, or the worker cannot be reached.
Connect(x) ==
    LET p == conn[x].pod IN
    /\ conn[x].st = "connect"
    /\ IF Listening(p)
         THEN /\ pods' = [pods EXCEPT ![p].queue = @ \cup {x}]
              /\ conn' = [conn EXCEPT ![x].st = "copy"]
         ELSE /\ conn' = [conn EXCEPT ![x].st = "closing"]
              /\ UNCHANGED pods
    /\ UNCHANGED <<dep, helm, phase, controller, holder, net, faults>>

\* copy_bidirectional ends: either side has closed, or the sockets broke.
CopyEnds(x) ==
    /\ conn[x].st = "copy"
    /\ conn' = [conn EXCEPT ![x].st = "closing"]
    /\ UNCHANGED <<cluster, phase, controller, holder, net, faults>>

\* The task takes the lock again, and is no longer counted.
Close(x) ==
    LET c == conn[x].px IN
    /\ conn[x].st = "closing"
    /\ Free(c)
    /\ conn' = [conn EXCEPT ![x] = NoConn]
    /\ connections' = [connections EXCEPT ![c] = @ - 1]
    /\ idleSince' = [idleSince EXCEPT ![c] = None]
    /\ UNCHANGED <<cluster, phase, uid, needsFence, holder, net, faults>>

-----------------------------------------------------------------------------
(* The initial state and the next-state relation.                           *)

Init ==
    /\ \E u \in Uids, r \in Versions : LeastOutside(Versions, {}, r) /\ ClusterInit(u, r)
    /\ phase = [c \in Proxies |-> "off"]
    /\ uid = [c \in Proxies |-> None]
    /\ needsFence = [c \in Proxies |-> FALSE]
    /\ connections = [c \in Proxies |-> 0]
    /\ idleSince = [c \in Proxies |-> None]
    /\ op = [c \in Proxies |-> "none"]
    /\ pc = [c \in Proxies |-> "none"]
    /\ loc = [c \in Proxies |-> NoLoc]
    /\ conn = [x \in Conns |-> NoConn]
    /\ net = {}

ProxyStep(c) ==
    \/ Fence(c) \/ Current(c) \/ ListSleeping(c) \/ ListAwake(c)
    \/ Retry(c) \/ ColdStartTimeout(c)
    \/ PatchOk(c) \/ PatchRefused(c)
    \/ Status(c) \/ Suspend(c) \/ Resume(c) \/ ControlRefused(c)

ProxyFault(c) ==
    \/ Crash(c) \/ Sigterm(c)
    \/ ReadFails(c) \/ PatchTimesOut(c) \/ ControlTimesOut(c)

ConnStep(x) ==
    \/ FirstByte(x) \/ Wake(x) \/ Connect(x) \/ CopyEnds(x) \/ Close(x)

\* Kubernetes, the workers and the administrator act on their own.
CreateWorker(p) == Unreferenced(p) /\ CreatePod(p)

PodStep(p) == CreateWorker(p) \/ PodReady(p) \/ DeletePod(p) \/ PodGone(p)

Administration ==
    \/ \E r \in Versions : /\ NewVersion(r)
                          /\ \/ StatusWritten(r) \/ Rollout(r) \/ HelmApply(r)
                             \/ \E u \in Uids \ UidsInUse : Reinstall(r, u)
    \/ HelmLookup

ClusterStep == /\ \/ \E p \in Pods : WorkerStep(p) \/ PodStep(p) \/ PodFault(p)
                  \/ Administration
               /\ UNCHANGED proxies

Next ==
    \/ \E c \in Proxies : \/ Start(c) \/ Exit(c) \/ IdleTick(c) \/ IdleElapses(c)
                          \/ ProxyStep(c) \/ ProxyFault(c)
    \/ \E x \in Conns : (\E c \in Proxies : Accept(x, c)) \/ ConnStep(x)
    \/ \E q \in net : Straggler(q)
    \/ ClusterStep

Spec == Init /\ [][Next]_vars

-----------------------------------------------------------------------------
(* Invariants.                                                              *)

\* The connections proxy c counts in Controller.connections.
Counted(c) == {x \in Conns : /\ conn[x].px = c
                             /\ conn[x].st \in {"wake", "connect", "copy", "closing"}}

\* Controller.connections is the number of counted tasks, at every await and on
\* every error path: it never underflows (usize) and never keeps a worker awake
\* for a connection that is gone.
ConnectionsCounted == \A c \in Proxies : connections[c] = Cardinality(Counted(c))

\* The idle clock never runs while the proxy counts a connection, so the idle
\* interval that authorises a sleep began after the last one was closed.
ClockStartsAfterConnections ==
    \A c \in Proxies : idleSince[c] # None => connections[c] = 0

\* A sleep that timed out or whose sender died, and that would still be applied.
LateSleep(q) == q.kind = "patch" /\ q.replicas = 0 /\ Applicable(q)

\* "A resourceVersion-changing fence must succeed before any suspended worker is
\* resumed or reused" (needs_fence): no late sleep of anybody can take effect while
\* a proxy, old or new, resumes a worker or connects to one.
FencedBeforeContact ==
    \A q \in net : LateSleep(q) => /\ \A c \in Proxies : pc[c] # "resuming"
                                  /\ \A x \in Conns : conn[x].st # "connect"

\* Nor while a connection is copied, unless proxies overlap: then a proxy that drains
\* may still hold a connection in the queue of the worker its successor suspended.
FencedBeforeReuse ==
    /\ FencedBeforeContact
    /\ \A q \in net : LateSleep(q) => \A x \in Conns : conn[x].st # "copy"

\* A connection that has been forwarded to a worker finds its gate open: wake()
\* hands out no suspended worker, and no worker is suspended under it.
ForwardedFindsOpenGate ==
    \A p \in Pods : \A x \in pods[p].queue :
        conn[x].st = "copy" /\ pods[p].st = "ready" => GateOpen(p)

-----------------------------------------------------------------------------
(* Action properties.                                                       *)

\* An automatic sleep (not one by Helm or a reinstall) ends no session and no
\* detached work, on any pod, whoever decided it and however late it arrives.
SleepKillsNoSession ==
    [][(dep.replicas = 1 /\ dep'.replicas = 0 /\ dep'.uid = dep.uid /\ helm' = helm)
          => \A p \in Pods : ~Busy(p)]_vars

\* The interval that authorises a sleep belongs to the worker that is put to sleep:
\* when idle_tick goes on from its suspend to the scale, its clock has run out for
\* the very pod and core boot that is suspended now, whatever restarted, or was
\* replaced, while the clock ran and between the status and the suspend.
IntervalIsOfThisWorker ==
    [][\A c \in Proxies : pc[c] = "suspending" /\ pc'[c] = "scaling"
          => /\ idleSince[c] # None /\ idleSince[c].elapsed
             /\ idleSince[c].pod = loc[c].pod
             /\ idleSince[c].boot = pods[loc[c].pod].boot]_vars

\* "Never reuse it or wake a replacement until all old pods have gone" (wake):
\* when a scale to one takes effect, even late, no pod is left.
WakeOnlyFromNothing ==
    [][(dep.replicas = 0 /\ dep'.replicas = 1 /\ helm' = helm) => Listed = {}]_vars

\* A proxy that is shutting down never takes the Deployment back from the proxy
\* that has replaced it.
TakeoverIsFinal ==
    [][\A c, d \in Proxies :
          dep.owner = c /\ phase[c] = "up" /\ dep'.owner = d /\ d # c
             => phase[d] # "drain"]_vars

\* Helm upgrades preserve the replica count the controller has chosen.
HelmPreservesCount == [][helm # None /\ helm' = None /\ dep'.uid = dep.uid
                            => dep'.replicas = dep.replicas]_vars

-----------------------------------------------------------------------------
(* Refinement: idle scaling as the chart promises it.                       *)

OpenSessions == {s \in Pods \X Conns : s[2] \in pods[s[1]].tcp}
                \cup {<<p, None>> : p \in {q \in Pods : pods[q].detached}}

Promise == INSTANCE SleepWake WITH
              Sessions <- Pods \X (Conns \cup {None}),
              awake <- dep.replicas = 1,
              open <- OpenSessions

\* Sleep and wake as the proxy performs them are steps of the promise.
KeepsPromise == Promise!Spec

-----------------------------------------------------------------------------
(* Liveness.                                                                *)

\* The worker has refused the socket of x, has closed it, or is gone.
UpstreamClosed(x) == \A p \in Pods : x \notin pods[p].queue \cup pods[p].tcp

\* Every await is answered (all requests have timeouts), tasks waiting for the
\* lock get it in turn (tokio's mutex is fair), clocks advance, Kubernetes acts,
\* and a client's first byte or its 10 s timeout comes in the end.  Nothing is
\* assumed of clients with an open connection, of detached work, or of a worker
\* that starts: it may never become ready.
Fairness ==
    /\ WF_vars(\E c \in Proxies : Start(c))
    /\ \A c \in Proxies :
          /\ WF_vars(ProxyStep(c)) /\ SF_vars(ColdStartTimeout(c))
          /\ SF_vars(IdleTick(c)) /\ SF_vars(IdleElapses(c)) /\ WF_vars(Exit(c))
    /\ \A x \in Conns :
          /\ WF_vars(FirstByte(x)) /\ SF_vars(Wake(x))
          /\ WF_vars(Connect(x)) /\ SF_vars(Close(x))
          /\ WF_vars(UpstreamClosed(x) /\ CopyEnds(x))
    /\ \A p \in Pods :
          /\ WF_vars(CreateWorker(p) /\ UNCHANGED proxies)
          /\ WF_vars((DeletePod(p) \/ PodGone(p)) /\ UNCHANGED proxies)
          /\ \A x \in Conns : /\ WF_vars(Admit(p, x) /\ UNCHANGED proxies)
                              /\ WF_vars(/\ conn[x] = NoConn
                                         /\ SessionEnds(p, x) /\ UNCHANGED proxies)
    /\ WF_vars(\E q \in net : Straggler(q))

FairSpec == Spec /\ Fairness

\* A connection that has sent its first byte is forwarded or refused in the end:
\* it never waits for the lock, the fence or the cold start for ever, even if the
\* worker never becomes ready.
WaitingIsAnswered ==
    \A x \in Conns : conn[x].st \in {"lock", "wake"}
                        ~> conn[x].st \in {"connect", "copy", "closing", "none"}

\* A suspended worker does not stay suspended: it is resumed, or it goes, unless
\* another pod is stuck starting (then ready_backend reports none).
SuspensionEnds ==
    \A p \in Pods : pods[p].st = "ready" /\ ~GateOpen(p)
                       ~> GateOpen(p) \/ pods[p].st # "ready" \/ Starting # {}

\* If clients and detached work are gone for good and no pod is stuck starting,
\* the worker goes to sleep and stays asleep.
NobodyThere == /\ \A x \in Conns : conn[x] = NoConn
               /\ \A p \in Pods : ~pods[p].detached
QuietWorkerSleeps == <>[](NobodyThere /\ Starting = {}) => <>[](dep.replicas = 0)
=============================================================================
