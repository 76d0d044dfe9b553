-------------------------- MODULE ConnectionProofs --------------------------
(***************************************************************************)
(* Theorems about the operations of IdleProxy and the connections they     *)
(* serve: connections are counted exactly, the idle clock never runs while *)
(* one is counted, a sleep is authorised by the interval of the worker it  *)
(* suspends, and whatever an operation asks for, it asks for behind its    *)
(* fence.  As in IdleProxyProofs, for every value of the constants.        *)
(***************************************************************************)
EXTENDS IdleProxyProofs, FiniteSetTheorems

-----------------------------------------------------------------------------
(* The inductive invariant.                                                 *)

\* The awaits at which an operation o may be suspended.
Stage(o, a) ==
    \/ o = "none" /\ a = "none"
    \/ o = "new" /\ a \in {"fence", "fencing"}
    \/ o = "recover" /\ a \in {"fence", "fencing", "current", "resuming"}
    \/ o = "idle" /\ a \in {"fence", "fencing", "current", "pods1", "status",
                            "suspending", "scaling", "resuming"}
    \/ o = "wake" /\ a \in {"fence", "fencing", "current", "pods0", "pods1", "status",
                            "scaling", "resuming", "retry"}

\* A process that starts or is off, and the connection a wake works for.
HolderInv(c) ==
    /\ Stage(op[c], pc[c])
    /\ op[c] = "new" => phase[c] = "init"
    /\ phase[c] = "off" => op[c] = "none"
    /\ op[c] = "wake" => /\ loc[c].conn \in Conns
                         /\ conn[loc[c].conn].px = c
                         /\ conn[loc[c].conn].st = "wake"

\* An idle tick gets beyond its fence only if no connection is counted; then
\* none is counted as long as it holds the lock, or as its clock runs.
ClockInv(c) ==
    /\ op[c] = "idle" /\ pc[c] \notin {"fence", "fencing"} => connections[c] = 0
    /\ idleSince[c] # None => connections[c] = 0

CountInv(c) == IsFiniteSet(Counted(c)) /\ connections[c] = Cardinality(Counted(c))

\* Every task belongs to a process that serves or drains.
TaskHome(x) ==
    conn[x].st # "none" => conn[x].px \in Proxies /\ phase[conn[x].px] \in {"up", "drain"}

ConnInv == /\ \A c \in Proxies : HolderInv(c) /\ ClockInv(c) /\ CountInv(c)
           /\ \A x \in Conns : TaskHome(x)

\* In a cold install no process runs and there is no connection.
LEMMA ConnInit == Init => ConnInv
<1> SUFFICES ASSUME Init PROVE ConnInv
  OBVIOUS
<1>1. ASSUME NEW c \in Proxies PROVE HolderInv(c) /\ ClockInv(c)
  BY DEF Init, HolderInv, Stage, ClockInv
<1>2. ASSUME NEW c \in Proxies PROVE CountInv(c)
  <2>1. Counted(c) = {}
    BY DEF Init, Counted, NoConn
  <2> QED BY <2>1, FS_EmptySet DEF Init, CountInv
<1>3. \A x \in Conns : TaskHome(x)
  BY DEF Init, TaskHome, NoConn
<1> QED BY <1>1, <1>2, <1>3 DEF ConnInv

-----------------------------------------------------------------------------
(* The moves of one proxy.                                                  *)

\* The step leaves every proxy but c as it is.
OnlyMoves(c) ==
    \A d \in Proxies \ {c} :
        /\ phase'[d] = phase[d] /\ op'[d] = op[d] /\ pc'[d] = pc[d] /\ loc'[d] = loc[d]
        /\ connections'[d] = connections[d] /\ idleSince'[d] = idleSince[d]

\* The same tasks are counted as before.
LEMMA CountSame ==
    ASSUME NEW c \in Proxies, CountInv(c), connections'[c] = connections[c],
           Counted(c)' = Counted(c)
    PROVE  CountInv(c)'
BY DEF CountInv

\* Proxy c moves and no task does.
LEMMA MoveKeeps ==
    ASSUME TypeInv, ConnInv, NEW c \in Proxies, OnlyMoves(c), UNCHANGED conn,
           connections'[c] = connections[c], HolderInv(c)', ClockInv(c)',
           phase'[c] = phase[c] \/ phase[c] = "init" \/ phase'[c] = "drain"
    PROVE  ConnInv'
<1>1. ASSUME NEW d \in Proxies PROVE HolderInv(d)' /\ ClockInv(d)'
  <2>1. CASE d = c
    BY <2>1
  <2>2. CASE d # c
    BY <2>2 DEF OnlyMoves, ConnInv, HolderInv, ClockInv
  <2> QED BY <2>1, <2>2
<1>2. ASSUME NEW d \in Proxies PROVE CountInv(d)'
  <2>1. connections'[d] = connections[d] /\ Counted(d)' = Counted(d)
    BY DEF OnlyMoves, Counted
  <2> QED BY <2>1, CountSame DEF ConnInv
<1>3. ASSUME NEW x \in Conns PROVE TaskHome(x)'
  BY DEF OnlyMoves, ConnInv, TaskHome
<1> QED BY <1>1, <1>2, <1>3 DEF ConnInv

\* No proxy moves, and the tasks stay where they are.
LEMMA StutterKeeps ==
    ASSUME ConnInv, UNCHANGED <<phase, op, pc, loc, connections, idleSince, conn>>
    PROVE  ConnInv'
<1>1. ASSUME NEW d \in Proxies PROVE HolderInv(d)' /\ ClockInv(d)' /\ CountInv(d)'
  BY DEF ConnInv, HolderInv, ClockInv, CountInv, Counted
<1>2. ASSUME NEW x \in Conns PROVE TaskHome(x)'
  BY DEF ConnInv, TaskHome
<1> QED BY <1>1, <1>2 DEF ConnInv

\* What a release does to every proxy.
LEMMA ReleaseFacts ==
    ASSUME TypeInv, NEW c \in Proxies, Release(c)
    PROVE  /\ op'[c] = "none" /\ pc'[c] = "none" /\ loc'[c] = NoLoc
           /\ \A d \in Proxies \ {c} : op'[d] = op[d] /\ pc'[d] = pc[d] /\ loc'[d] = loc[d]
BY DEF Release, TypeInv, HolderTypeOK

\* The lock is dropped; the clock is stopped or was not running against the rule.
LEMMA ReleaseKeeps ==
    ASSUME TypeInv, ConnInv, NEW c \in Proxies, Release(c), UNCHANGED <<conn, connections>>,
           \A d \in Proxies \ {c} : phase'[d] = phase[d] /\ idleSince'[d] = idleSince[d],
           phase'[c] = phase[c] \/ phase[c] = "init" \/ phase'[c] = "drain",
           idleSince'[c] # None => connections[c] = 0
    PROVE  ConnInv'
<1>1. OnlyMoves(c) /\ op'[c] = "none" /\ pc'[c] = "none"
  BY ReleaseFacts DEF OnlyMoves
<1>2. HolderInv(c)' /\ ClockInv(c)'
  BY <1>1 DEF HolderInv, Stage, ClockInv
<1> QED BY <1>1, <1>2, MoveKeeps

\* idle_tick returns with its clock stopped.
LEMMA StopClockKeeps ==
    ASSUME TypeInv, ConnInv, NEW c \in Proxies, StopClock(c),
           UNCHANGED <<phase, conn, connections>>
    PROVE  ConnInv'
<1>1. idleSince'[c] = None /\ \A d \in Proxies \ {c} : idleSince'[d] = idleSince[d]
  BY DEF StopClock, TypeInv, ControllerTypeOK
<1> QED BY <1>1, ReleaseKeeps DEF StopClock

\* The operation goes on to another of its awaits.
LEMMA GotoKeeps ==
    ASSUME TypeInv, ConnInv, NEW c \in Proxies, NEW a \in Awaits, Goto(c, a),
           UNCHANGED <<phase, op, idleSince, conn, connections>>,
           Stage(op[c], a), loc'[c].conn = loc[c].conn,
           \A d \in Proxies \ {c} : loc'[d] = loc[d],
           op[c] = "idle" /\ pc[c] \in {"fence", "fencing"}
             => connections[c] = 0 \/ a \in {"fence", "fencing"}
    PROVE  ConnInv'
<1>1. pc'[c] = a /\ \A d \in Proxies \ {c} : pc'[d] = pc[d]
  BY DEF Goto, TypeInv, HolderTypeOK
<1>2. HolderInv(c) /\ ClockInv(c)
  BY DEF ConnInv
<1>3. HolderInv(c)'
  BY <1>1, <1>2 DEF HolderInv
<1>4. ClockInv(c)'
  BY <1>1, <1>2 DEF ClockInv
<1>5. OnlyMoves(c)
  BY <1>1 DEF OnlyMoves
<1> QED BY <1>3, <1>4, <1>5, MoveKeeps

\* What an error does: the proxy gives up, and with a wake its connection.
LEMMA FailFacts ==
    ASSUME TypeInv, NEW c \in Proxies, Fail(c)
    PROVE  /\ OnlyMoves(c) /\ op'[c] = "none" /\ pc'[c] = "none" /\ idleSince'[c] = None
           /\ phase'[c] = IF op[c] = "new" THEN "off" ELSE phase[c]
           /\ connections'[c] = IF op[c] = "wake" THEN connections[c] - 1 ELSE connections[c]
           /\ \A x \in Conns : conn'[x] = IF op[c] = "wake" /\ x = loc[c].conn
                                          THEN NoConn ELSE conn[x]
<1>1. /\ Release(c)
      /\ phase' = [phase EXCEPT ![c] = IF op[c] = "new" THEN "off" ELSE @]
      /\ connections' = [connections EXCEPT ![c] = IF op[c] = "wake" THEN @ - 1 ELSE @]
      /\ idleSince' = [idleSince EXCEPT ![c] = None]
      /\ conn' = [x \in Conns |-> IF op[c] = "wake" /\ x = loc[c].conn THEN NoConn ELSE conn[x]]
  BY DEF Fail
<1>2. /\ phase \in [Proxies -> Phases] /\ connections \in [Proxies -> Int]
      /\ idleSince \in [Proxies -> Clock \cup {None}]
  BY DEF TypeInv, ControllerTypeOK
<1> QED BY <1>1, <1>2, ReleaseFacts DEF OnlyMoves

\* On every error path the count and the task go together.
LEMMA FailKeeps ==
    ASSUME TypeInv, ConnInv, NEW c \in Proxies, Fail(c)
    PROVE  ConnInv'
<1> DEFINE w == loc[c].conn
<1>0. HolderInv(c) /\ ClockInv(c) /\ CountInv(c)
  BY DEF ConnInv
<1>1. ASSUME NEW d \in Proxies PROVE CountInv(d)'
  <2>0. CountInv(d)
    BY DEF ConnInv
  <2>1. CASE op[c] = "wake" /\ d = c
    <3>1. w \in Counted(c)
      BY <1>0, <2>1 DEF HolderInv, Counted
    <3>2. Counted(c)' = Counted(c) \ {w}
      BY <2>1, FailFacts DEF Counted, NoConn
    <3>3. /\ IsFiniteSet(Counted(c) \ {w})
          /\ Cardinality(Counted(c) \ {w}) = Cardinality(Counted(c)) - 1
      BY <1>0, <3>1, FS_RemoveElement DEF CountInv
    <3> QED BY <1>0, <2>1, <3>2, <3>3, FailFacts DEF CountInv
  <2>2. CASE ~(op[c] = "wake" /\ d = c)
    <3>1. connections'[d] = connections[d]
      BY <2>2, FailFacts DEF OnlyMoves
    <3>2. \A x \in Conns : x \in Counted(d)' <=> x \in Counted(d)
      BY <1>0, <2>2, FailFacts DEF HolderInv, Counted, NoConn
    <3>3. Counted(d)' = Counted(d)
      BY <3>2 DEF Counted
    <3> QED BY <2>0, <3>1, <3>3, CountSame
  <2> QED BY <2>1, <2>2
<1>2. ASSUME NEW d \in Proxies PROVE HolderInv(d)' /\ ClockInv(d)'
  <2>1. CASE d = c
    BY <2>1, FailFacts DEF HolderInv, Stage, ClockInv
  <2>2. CASE d # c
    <3>1. HolderInv(d) /\ ClockInv(d)
      BY DEF ConnInv
    <3>2. op[d] = "wake" => ~(op[c] = "wake" /\ loc[d].conn = w)
      BY <1>0, <2>2, <3>1 DEF HolderInv
    <3> QED BY <2>2, <3>1, <3>2, FailFacts DEF OnlyMoves, HolderInv, ClockInv
  <2> QED BY <2>1, <2>2
<1>3. ASSUME NEW x \in Conns PROVE TaskHome(x)'
  <2>1. TaskHome(x)
    BY DEF ConnInv
  <2>2. CASE conn'[x] = conn[x]
    BY <1>0, <2>1, <2>2, FailFacts DEF OnlyMoves, TaskHome, HolderInv
  <2>3. CASE conn'[x] = NoConn
    BY <2>3 DEF TaskHome, NoConn
  <2> QED BY <2>2, <2>3, FailFacts
<1> QED BY <1>1, <1>2, <1>3 DEF ConnInv

\* wake hands its backend to its connection, which stays counted.
LEMMA ReturnBackendKeeps ==
    ASSUME TypeInv, ConnInv, NEW c \in Proxies, op[c] = "wake", ReturnBackend(c),
           UNCHANGED <<phase, connections, idleSince>>
    PROVE  ConnInv'
<1> DEFINE w == loc[c].conn
<1>0. /\ HolderInv(c) /\ ClockInv(c)
      /\ w \in Conns /\ conn[w].px = c /\ conn[w].st = "wake"
  BY DEF ConnInv, HolderInv
<1>1. /\ conn'[w].px = c /\ conn'[w].st = "connect"
      /\ \A x \in Conns \ {w} : conn'[x] = conn[x]
  BY <1>0 DEF ReturnBackend, TypeInv, ConnTypeOK
<1>2. /\ op'[c] = "none" /\ pc'[c] = "none"
      /\ \A d \in Proxies \ {c} : op'[d] = op[d] /\ pc'[d] = pc[d] /\ loc'[d] = loc[d]
  BY ReleaseFacts DEF ReturnBackend
<1>3. ASSUME NEW d \in Proxies PROVE CountInv(d)'
  <2>1. \A x \in Conns : x \in Counted(d)' <=> x \in Counted(d)
    BY <1>0, <1>1 DEF Counted
  <2>2. Counted(d)' = Counted(d)
    BY <2>1 DEF Counted
  <2> QED BY <2>2, CountSame DEF ConnInv
<1>4. ASSUME NEW d \in Proxies PROVE HolderInv(d)' /\ ClockInv(d)'
  <2>1. CASE d = c
    BY <1>0, <1>2, <2>1 DEF HolderInv, Stage, ClockInv
  <2>2. CASE d # c
    <3>1. HolderInv(d) /\ ClockInv(d)
      BY DEF ConnInv
    <3> QED BY <1>0, <1>1, <1>2, <2>2, <3>1 DEF HolderInv, ClockInv
  <2> QED BY <2>1, <2>2
<1>5. ASSUME NEW x \in Conns PROVE TaskHome(x)'
  <2>1. TaskHome(x) /\ TaskHome(w)
    BY <1>0 DEF ConnInv
  <2> QED BY <1>0, <1>1, <2>1 DEF TaskHome
<1> QED BY <1>3, <1>4, <1>5 DEF ConnInv

-----------------------------------------------------------------------------
(* Every action keeps the invariant.                                        *)

\* A step that changes the locals of the lock holder c only keeps the others'.
LEMMA LocalsFrame ==
    ASSUME TypeInv, NEW c \in Proxies, NEW l, loc' = [loc EXCEPT ![c] = l]
    PROVE  loc'[c] = l /\ \A d \in Proxies \ {c} : loc'[d] = loc[d]
BY DEF TypeInv, HolderTypeOK

\* Remembering something else does not change the connection a wake works for.
LEMMA LocalsConn ==
    ASSUME NEW l \in Locals, NEW v, NEW w
    PROVE  /\ [l EXCEPT !.rv = v].conn = l.conn /\ [l EXCEPT !.pod = v].conn = l.conn
           /\ [l EXCEPT !.boot = v].conn = l.conn /\ [l EXCEPT !.permit = v].conn = l.conn
           /\ [l EXCEPT !.permit = v, !.rv = w].conn = l.conn
BY DEF Locals

\* fence() and the reads of current() and ready_backend().
LEMMA ConnReads ==
    ASSUME TypeInv, ConnInv, NEW c \in Proxies,
           \/ Fence(c) \/ Current(c) \/ ListSleeping(c) \/ ListAwake(c)
           \/ Retry(c) \/ ColdStartTimeout(c) \/ ReadFails(c)
    PROVE  ConnInv'
<1>0. loc[c] \in Locals /\ Stage(op[c], pc[c])
  BY DEF TypeInv, HolderTypeOK, ConnInv, HolderInv
<1>1. CASE Fail(c)
  BY <1>1, FailKeeps
<1>2. CASE StopClock(c) /\ UNCHANGED <<phase, conn, connections>>
  BY <1>2, StopClockKeeps
<1>3. CASE Fence(c) /\ ~Fail(c)
  <2>1. /\ pc[c] = "fence" /\ Goto(c, "fencing") /\ loc' = [loc EXCEPT ![c].rv = dep.rv]
        /\ UNCHANGED <<phase, op, idleSince, conn, connections>>
    BY <1>3 DEF Fence
  <2>2. loc'[c].conn = loc[c].conn /\ \A d \in Proxies \ {c} : loc'[d] = loc[d]
    BY <1>0, <2>1, LocalsFrame, LocalsConn
  <2>3. Stage(op[c], "fencing")
    BY <1>0, <2>1 DEF Stage
  <2> QED BY <2>1, <2>2, <2>3, GotoKeeps DEF Awaits
<1>4. CASE Current(c) /\ ~Fail(c) /\ ~StopClock(c)
  <2> DEFINE a == IF op[c] = "recover" THEN "resuming"
                  ELSE IF dep.replicas = 0 THEN "pods0" ELSE "pods1"
  <2>1. /\ pc[c] = "current" /\ Goto(c, a)
        /\ op[c] = "idle" => dep.replicas # 0
        /\ loc' = [loc EXCEPT ![c].rv =
                     IF op[c] = "idle" \/ dep.replicas = 0 THEN dep.rv ELSE None]
        /\ UNCHANGED <<phase, op, idleSince, conn, connections>>
    BY <1>4 DEF Current
  <2>2. loc'[c].conn = loc[c].conn /\ \A d \in Proxies \ {c} : loc'[d] = loc[d]
    BY <1>0, <2>1, LocalsFrame, LocalsConn
  <2>3. a \in Awaits /\ Stage(op[c], a)
    BY <1>0, <2>1 DEF Stage, Awaits
  <2> QED BY <2>1, <2>2, <2>3, GotoKeeps
<1>5. CASE ListSleeping(c)
  <2>1. PICK a \in {"scaling", "retry"} : Goto(c, a)
    BY <1>5 DEF ListSleeping
  <2>2. /\ pc[c] = "pods0"
        /\ UNCHANGED loc \/ loc' = [loc EXCEPT ![c].rv = None]
        /\ UNCHANGED <<phase, op, idleSince, conn, connections>>
    BY <1>5 DEF ListSleeping
  <2>3. loc'[c].conn = loc[c].conn /\ \A d \in Proxies \ {c} : loc'[d] = loc[d]
    <3>1. CASE UNCHANGED loc
      BY <3>1
    <3>2. CASE loc' = [loc EXCEPT ![c].rv = None]
      BY <1>0, <3>2, LocalsFrame, LocalsConn
    <3> QED BY <2>2, <3>1, <3>2
  <2>4. a \in Awaits /\ Stage(op[c], a)
    BY <1>0, <2>2 DEF Stage, Awaits
  <2> QED BY <2>1, <2>2, <2>3, <2>4, GotoKeeps
<1>6. CASE ListAwake(c) /\ ~StopClock(c)
  <2>1. PICK a \in {"status", "retry"} : Goto(c, a) /\ (a = "retry" => op[c] = "wake")
    BY <1>6 DEF ListAwake
  <2>2. /\ pc[c] = "pods1"
        /\ UNCHANGED loc \/ \E p \in Pods : loc' = [loc EXCEPT ![c].pod = p]
        /\ UNCHANGED <<phase, op, idleSince, conn, connections>>
    BY <1>6 DEF ListAwake
  <2>3. loc'[c].conn = loc[c].conn /\ \A d \in Proxies \ {c} : loc'[d] = loc[d]
    <3>1. CASE UNCHANGED loc
      BY <3>1
    <3>2. CASE \E p \in Pods : loc' = [loc EXCEPT ![c].pod = p]
      BY <1>0, <3>2, LocalsFrame, LocalsConn
    <3> QED BY <2>2, <3>1, <3>2
  <2>4. a \in Awaits /\ Stage(op[c], a)
    BY <1>0, <2>1, <2>2 DEF Stage, Awaits
  <2> QED BY <2>1, <2>2, <2>3, <2>4, GotoKeeps
<1>7. CASE Retry(c)
  <2>1. /\ pc[c] = "retry" /\ Goto(c, FirstAwait(c)) /\ UNCHANGED loc
        /\ UNCHANGED <<phase, op, idleSince, conn, connections>>
    BY <1>7 DEF Retry, controller
  <2>2. FirstAwait(c) \in Awaits /\ Stage(op[c], FirstAwait(c))
    BY <1>0, <2>1 DEF Stage, Awaits, FirstAwait
  <2> QED BY <2>1, <2>2, GotoKeeps
<1>8. CASE ListAwake(c) /\ StopClock(c)
  BY <1>2, <1>8 DEF ListAwake
<1>9. CASE Current(c) /\ StopClock(c) /\ ~Fail(c)
  <2>1. pc'[c] = "none"
    BY <1>9, ReleaseFacts DEF StopClock
  <2>2. UNCHANGED <<phase, conn, connections>>
    BY <1>9, <2>1 DEF Current
  <2> QED BY <1>2, <1>9, <2>2
<1> QED BY <1>1, <1>3, <1>4, <1>5, <1>6, <1>7, <1>8, <1>9 DEF ColdStartTimeout, ReadFails

\* A PATCH that fails: a failed sleep goes on to its recovery.
LEMMA PatchFailedKeeps ==
    ASSUME TypeInv, ConnInv, NEW c \in Proxies, PatchFailed(c)
    PROVE  ConnInv'
<1>1. CASE Fail(c)
  BY <1>1, FailKeeps
<1>2. CASE ~Fail(c)
  <2>1. /\ op' = [op EXCEPT ![c] = "recover"] /\ Goto(c, "fence")
        /\ loc' = [loc EXCEPT ![c].rv = None] /\ op[c] = "idle"
        /\ UNCHANGED <<phase, connections, idleSince, conn>>
    BY <1>2 DEF PatchFailed, controller
  <2>2. /\ op'[c] = "recover" /\ pc'[c] = "fence"
        /\ \A d \in Proxies \ {c} : op'[d] = op[d] /\ pc'[d] = pc[d] /\ loc'[d] = loc[d]
    BY <2>1 DEF Goto, TypeInv, HolderTypeOK
  <2>3. HolderInv(c) /\ ClockInv(c)
    BY DEF ConnInv
  <2>4. HolderInv(c)' /\ ClockInv(c)'
    BY <2>1, <2>2, <2>3 DEF HolderInv, Stage, ClockInv
  <2> QED BY <2>1, <2>2, <2>4, MoveKeeps DEF OnlyMoves
<1> QED BY <1>1, <1>2

\* A PATCH that succeeds: an idle tick goes on only without connections.
LEMMA PatchDoneKeeps ==
    ASSUME TypeInv, ConnInv, NEW c \in Proxies, pc[c] \in Patches,
           IF pc[c] = "fencing" THEN Fenced(c) ELSE Scaled(c)
    PROVE  ConnInv'
<1>0. /\ loc[c] \in Locals /\ HolderInv(c) /\ ClockInv(c) /\ CountInv(c)
      /\ phase \in [Proxies -> Phases]
  BY DEF TypeInv, HolderTypeOK, ControllerTypeOK, ConnInv
<1>1. CASE pc[c] = "fencing"
  <2>0. /\ phase' = [phase EXCEPT ![c] = IF op[c] = "new" THEN "up" ELSE @]
        /\ UNCHANGED <<connections, conn>>
    BY <1>1 DEF Fenced
  <2>1. /\ phase'[c] = phase[c] \/ phase[c] = "init"
        /\ \A d \in Proxies \ {c} : phase'[d] = phase[d]
    BY <1>0, <2>0 DEF HolderInv
  <2>2. CASE op[c] = "new"
    <3>1. Release(c) /\ UNCHANGED idleSince
      BY <1>1, <2>2 DEF Fenced
    <3> QED BY <1>0, <2>0, <2>1, <3>1, ReleaseKeeps DEF ClockInv
  <2>3. CASE op[c] # "new"
    <3>0. UNCHANGED phase
      BY <1>0, <2>0, <2>3
    <3>1. CASE op[c] = "idle" /\ connections[c] > 0
      BY <1>1, <2>0, <3>0, <3>1, StopClockKeeps DEF Fenced
    <3>2. CASE ~(op[c] = "idle" /\ connections[c] > 0)
      <4>1. /\ Goto(c, "current") /\ loc' = [loc EXCEPT ![c].rv = None]
            /\ UNCHANGED <<op, idleSince>>
        BY <1>1, <2>3, <3>2 DEF Fenced
      <4>2. loc'[c].conn = loc[c].conn /\ \A d \in Proxies \ {c} : loc'[d] = loc[d]
        BY <1>0, <4>1, LocalsFrame, LocalsConn
      <4>3. op[c] = "idle" => connections[c] = 0
        BY <1>0, <3>2, FS_CardinalityType DEF CountInv
      <4>4. "current" \in Awaits /\ Stage(op[c], "current")
        BY <1>0, <1>1, <2>3 DEF HolderInv, Stage, Awaits
      <4> QED BY <2>0, <3>0, <4>1, <4>2, <4>3, <4>4, GotoKeeps
    <3> QED BY <3>1, <3>2
  <2> QED BY <2>2, <2>3
<1>2. CASE pc[c] = "scaling"
  <2>0. UNCHANGED <<phase, connections, conn>>
    BY <1>2 DEF Scaled
  <2>1. CASE op[c] = "wake"
    <3>1. /\ Goto(c, "retry") /\ loc' = [loc EXCEPT ![c].rv = None]
          /\ UNCHANGED <<op, idleSince>>
      BY <1>2, <2>1 DEF Scaled
    <3>2. loc'[c].conn = loc[c].conn /\ \A d \in Proxies \ {c} : loc'[d] = loc[d]
      BY <1>0, <3>1, LocalsFrame, LocalsConn
    <3> QED BY <2>0, <2>1, <3>1, <3>2, GotoKeeps DEF Stage, Awaits
  <2>2. CASE op[c] # "wake"
    BY <1>2, <2>0, <2>2, StopClockKeeps DEF Scaled
  <2> QED BY <2>1, <2>2
<1> QED BY <1>1, <1>2 DEF Patches

\* All answers to a PATCH.
LEMMA ConnPatches ==
    ASSUME TypeInv, ConnInv, NEW c \in Proxies, PatchOk(c) \/ PatchRefused(c) \/ PatchTimesOut(c)
    PROVE  ConnInv'
BY PatchFailedKeeps, PatchDoneKeeps DEF PatchOk, PatchRefused, PatchTimesOut

\* GET /status in idle_tick starts the clock only when nothing is counted.
LEMMA StatusOfIdleKeeps ==
    ASSUME TypeInv, ConnInv, NEW c \in Proxies, NEW p \in Pods,
           pc[c] = "status", op[c] # "wake",
           StatusOfIdle(c, p), UNCHANGED <<phase, connections>>
    PROVE  ConnInv'
<1>0. /\ loc[c] \in Locals /\ UNCHANGED conn /\ op[c] = "idle" /\ connections[c] = 0
      /\ idleSince \in [Proxies -> Clock \cup {None}]
  BY DEF TypeInv, HolderTypeOK, ControllerTypeOK, StatusOfIdle, ConnInv, HolderInv, ClockInv, Stage
<1>1. CASE StopClock(c)
  BY <1>0, <1>1, StopClockKeeps
<1>2. CASE Release(c) /\ \E k : idleSince' = [idleSince EXCEPT ![c] = k]
  BY <1>0, <1>2, ReleaseKeeps
<1>3. CASE \E a \in {"resuming", "suspending"} : Goto(c, a) /\ UNCHANGED <<op, idleSince>>
           /\ loc'[c].conn = loc[c].conn /\ \A d \in Proxies \ {c} : loc'[d] = loc[d]
  BY <1>0, <1>3, GotoKeeps DEF Stage, Awaits
<1>4. \/ StopClock(c)
      \/ Release(c) /\ \E k : idleSince' = [idleSince EXCEPT ![c] = k]
      \/ /\ Goto(c, "resuming") /\ UNCHANGED <<op, idleSince>>
         /\ loc' = [loc EXCEPT ![c].permit = pods[p].permit, ![c].rv = None]
      \/ /\ Goto(c, "suspending") /\ UNCHANGED <<op, idleSince>>
         /\ loc' = [loc EXCEPT ![c].boot = pods[p].boot]
  <2>1. CASE ~GateOpen(p)
    BY <2>1, Zenon DEF StatusOfIdle
  <2>2. CASE GateOpen(p) /\ Busy(p)
    BY <2>2, Zenon DEF StatusOfIdle
  <2>3. CASE GateOpen(p) /\ ~Busy(p) /\ Expired(c, p)
    BY <2>3, Zenon DEF StatusOfIdle
  <2>4. CASE GateOpen(p) /\ ~Busy(p) /\ ~Expired(c, p)
    <3>1. /\ Release(c)
          /\ idleSince' = [idleSince EXCEPT ![c] =
                IF SameWorker(c, p) THEN @
                ELSE [pod |-> p, boot |-> pods[p].boot, elapsed |-> FALSE]]
      BY <2>4, Zenon DEF StatusOfIdle
    <3> QED BY <3>1
  <2> QED BY <2>1, <2>2, <2>3, <2>4
<1>5. \A l, m : l = [loc EXCEPT ![c].permit = m, ![c].rv = None] \/ l = [loc EXCEPT ![c].boot = m]
        => l[c].conn = loc[c].conn /\ \A d \in Proxies \ {c} : l[d] = loc[d]
  BY <1>0 DEF TypeInv, HolderTypeOK, Locals
<1> QED BY <1>1, <1>2, <1>3, <1>4, <1>5

\* Status, suspend and resume.
LEMMA ConnControl ==
    ASSUME TypeInv, ConnInv, NEW c \in Proxies,
           Status(c) \/ Suspend(c) \/ Resume(c) \/ ControlRefused(c) \/ ControlTimesOut(c)
    PROVE  ConnInv'
<1>0. loc[c] \in Locals /\ HolderInv(c) /\ (pc[c] = "status" => loc[c].pod \in Pods)
  BY DEF TypeInv, HolderTypeOK, NeedsPod, ConnInv
<1>1. CASE Fail(c)
  BY <1>1, FailKeeps
<1>2. CASE Status(c) /\ ~Fail(c)
  <2>1. /\ pc[c] = "status" /\ UNCHANGED <<phase, connections>>
        /\ IF op[c] = "wake" THEN StatusOfWake(c, loc[c].pod) ELSE StatusOfIdle(c, loc[c].pod)
    BY <1>2 DEF Status
  <2>2. CASE op[c] = "wake" /\ ReturnBackend(c)
    BY <2>1, <2>2, ReturnBackendKeeps DEF StatusOfWake
  <2>3. CASE op[c] = "wake" /\ ~ReturnBackend(c)
    <3>1. /\ Goto(c, "resuming") /\ UNCHANGED <<op, conn, idleSince>>
          /\ loc' = [loc EXCEPT ![c].permit = pods[loc[c].pod].permit]
      BY <2>1, <2>3 DEF StatusOfWake
    <3>2. loc'[c].conn = loc[c].conn /\ \A d \in Proxies \ {c} : loc'[d] = loc[d]
      BY <1>0, <3>1, LocalsFrame, LocalsConn
    <3> QED BY <2>1, <2>3, <3>1, <3>2, GotoKeeps DEF Stage, Awaits
  <2>4. CASE op[c] # "wake"
    BY <1>0, <2>1, <2>4, StatusOfIdleKeeps
  <2> QED BY <2>2, <2>3, <2>4
<1>3. CASE Suspend(c) /\ ~Fail(c)
  <2>1. CASE StopClock(c) /\ UNCHANGED <<phase, connections, conn>>
    BY <2>1, StopClockKeeps
  <2>2. CASE /\ pc[c] = "suspending" /\ Goto(c, "scaling")
             /\ loc' = [loc EXCEPT ![c].permit = pods'[loc[c].pod].permit]
             /\ UNCHANGED <<phase, connections, idleSince, op, conn>>
    <3>1. loc'[c].conn = loc[c].conn /\ \A d \in Proxies \ {c} : loc'[d] = loc[d]
      BY <1>0, <2>2, LocalsFrame, LocalsConn
    <3>2. Stage(op[c], "scaling")
      BY <1>0, <2>2 DEF HolderInv, Stage
    <3> QED BY <2>2, <3>1, <3>2, GotoKeeps DEF Awaits
  <2> QED BY <1>3, <2>1, <2>2, Zenon DEF Suspend
<1>4. CASE Resume(c)
  <2>1. CASE op[c] = "wake"
    BY <1>4, <2>1, ReturnBackendKeeps DEF Resume, ResumeDone
  <2>2. CASE op[c] # "wake"
    BY <1>4, <2>2, StopClockKeeps DEF Resume, ResumeDone
  <2> QED BY <2>1, <2>2
<1> QED BY <1>1, <1>2, <1>3, <1>4 DEF ControlRefused, ControlTimesOut

\* A process without tasks counts none.
LEMMA NoTasks ==
    ASSUME NEW c \in Proxies, \A x \in Conns : conn[x].px = c => conn[x].st = "none"
    PROVE  Counted(c) = {}
BY DEF Counted

\* A process that is off forgets its count; it has no task that could be counted.
LEMMA ForgetFacts ==
    ASSUME TypeInv, NEW c \in Proxies, Forget(c), phase' = [phase EXCEPT ![c] = "off"]
    PROVE  /\ OnlyMoves(c) /\ phase'[c] = "off" /\ op'[c] = "none" /\ pc'[c] = "none"
           /\ connections'[c] = 0 /\ idleSince'[c] = None
<1>1. /\ phase \in [Proxies -> Phases] /\ connections \in [Proxies -> Int]
      /\ idleSince \in [Proxies -> Clock \cup {None}]
  BY DEF TypeInv, ControllerTypeOK
<1>2. Release(c)
  BY DEF Forget
<1> QED BY <1>1, <1>2, ReleaseFacts DEF Forget, OnlyMoves

\* A process ends, by itself or killed, and its tasks with it.
LEMMA EndKeeps ==
    ASSUME TypeInv, ConnInv, NEW c \in Proxies, Exit(c) \/ Crash(c)
    PROVE  ConnInv'
<1>1. /\ OnlyMoves(c) /\ phase'[c] = "off" /\ op'[c] = "none" /\ pc'[c] = "none"
      /\ connections'[c] = 0 /\ idleSince'[c] = None
  BY ForgetFacts DEF Exit, Crash
<1>2. \A x \in Conns : IF conn[x].px = c THEN conn'[x] = NoConn ELSE conn'[x] = conn[x]
  BY DEF Exit, Crash
<1>3. ASSUME NEW d \in Proxies PROVE HolderInv(d)' /\ ClockInv(d)' /\ CountInv(d)'
  <2>1. CASE d = c
    <3>1. Counted(c)' = {}
      BY <1>2, NoneAssumption DEF Counted, NoConn
    <3>2. CountInv(d)'
      BY <1>1, <2>1, <3>1, FS_EmptySet DEF CountInv
    <3> QED BY <1>1, <2>1, <3>2 DEF HolderInv, ClockInv, Stage
  <2>2. CASE d # c
    <3>1. HolderInv(d) /\ ClockInv(d) /\ CountInv(d)
      BY DEF ConnInv
    <3>2. \A x \in Conns : x \in Counted(d)' <=> x \in Counted(d)
      BY <1>2, <2>2, NoneAssumption DEF Counted, NoConn
    <3>3. Counted(d)' = Counted(d)
      BY <3>2 DEF Counted
    <3>4. CountInv(d)'
      BY <1>1, <2>2, <3>1, <3>3, CountSame DEF OnlyMoves
    <3> QED BY <1>1, <1>2, <2>2, <3>1, <3>4 DEF OnlyMoves, HolderInv, ClockInv
  <2> QED BY <2>1, <2>2
<1>4. ASSUME NEW x \in Conns PROVE TaskHome(x)'
  <2>1. TaskHome(x)
    BY DEF ConnInv
  <2> QED BY <1>1, <1>2, <2>1 DEF TaskHome, OnlyMoves, NoConn
<1> QED BY <1>3, <1>4 DEF ConnInv

\* A process starts, and has no task yet.
LEMMA StartKeeps ==
    ASSUME TypeInv, ConnInv, NEW c \in Proxies, Start(c)
    PROVE  ConnInv'
<1>1. /\ phase[c] = "off" /\ OnlyMoves(c) /\ UNCHANGED conn
      /\ phase'[c] = "init" /\ op'[c] = "new" /\ pc'[c] = "fence"
      /\ connections'[c] = 0 /\ idleSince'[c] = None
  BY DEF Start, MayStart, OnlyMoves, TypeInv, HolderTypeOK, ControllerTypeOK
<1>2. Counted(c) = {}
  BY <1>1 DEF ConnInv, TaskHome, Counted
<1>3. connections[c] = 0
  BY <1>2, FS_EmptySet DEF ConnInv, CountInv
<1>4. HolderInv(c)' /\ ClockInv(c)'
  BY <1>1 DEF HolderInv, ClockInv, Stage
<1>5. ASSUME NEW d \in Proxies PROVE CountInv(d)'
  <2>1. connections'[d] = connections[d] /\ Counted(d)' = Counted(d)
    BY <1>1, <1>3 DEF OnlyMoves, Counted
  <2> QED BY <2>1, CountSame DEF ConnInv
<1>6. ASSUME NEW d \in Proxies PROVE HolderInv(d)' /\ ClockInv(d)'
  <2>1. CASE d = c
    BY <1>4, <2>1
  <2>2. CASE d # c
    BY <1>1, <2>2 DEF OnlyMoves, ConnInv, HolderInv, ClockInv
  <2> QED BY <2>1, <2>2
<1>7. ASSUME NEW x \in Conns PROVE TaskHome(x)'
  <2>1. TaskHome(x)
    BY DEF ConnInv
  <2> QED BY <1>1, <2>1 DEF OnlyMoves, TaskHome
<1> QED BY <1>5, <1>6, <1>7 DEF ConnInv

\* SIGTERM, the idle task's next round, and the passing of time.
LEMMA ConnProcess ==
    ASSUME TypeInv, ConnInv, NEW c \in Proxies,
           Start(c) \/ Exit(c) \/ Crash(c) \/ Sigterm(c) \/ IdleTick(c) \/ IdleElapses(c)
    PROVE  ConnInv'
<1>0. /\ HolderInv(c) /\ ClockInv(c) /\ CountInv(c)
      /\ phase \in [Proxies -> Phases] /\ idleSince \in [Proxies -> Clock \cup {None}]
  BY DEF ConnInv, TypeInv, ControllerTypeOK
<1>1. CASE Sigterm(c)
  <2>1. /\ phase[c] = "up" /\ phase' = [phase EXCEPT ![c] = "drain"]
        /\ UNCHANGED <<connections, idleSince, conn>>
        /\ Release(c) \/ UNCHANGED <<op, pc, loc>>
    BY <1>1 DEF Sigterm, controller, holder
  <2>2. phase'[c] = "drain" /\ \A d \in Proxies \ {c} : phase'[d] = phase[d]
    BY <1>0, <2>1
  <2>3. CASE Release(c)
    BY <1>0, <2>1, <2>2, <2>3, ReleaseKeeps DEF ClockInv
  <2>4. CASE UNCHANGED <<op, pc, loc>>
    <3>1. HolderInv(c)' /\ ClockInv(c)'
      BY <1>0, <2>1, <2>2, <2>4 DEF HolderInv, ClockInv
    <3>2. OnlyMoves(c)
      BY <2>1, <2>2, <2>4 DEF OnlyMoves
    <3> QED BY <2>1, <2>2, <3>1, <3>2, MoveKeeps
  <2> QED BY <2>1, <2>3, <2>4
<1>2. CASE IdleTick(c)
  <2>0. UNCHANGED <<phase, connections, conn>> /\ pc[c] = "none"
    BY <1>2 DEF IdleTick, Free
  <2>1. CASE ~needsFence[c] /\ connections[c] > 0
    <3>1. idleSince' = [idleSince EXCEPT ![c] = None] /\ UNCHANGED <<op, pc, loc>>
      BY <1>2, <2>1 DEF IdleTick, holder
    <3>2. OnlyMoves(c) /\ idleSince'[c] = None
      BY <1>0, <2>0, <3>1 DEF OnlyMoves
    <3>3. HolderInv(c)' /\ ClockInv(c)'
      BY <1>0, <2>0, <3>1, <3>2 DEF HolderInv, ClockInv
    <3> QED BY <2>0, <3>2, <3>3, MoveKeeps
  <2>2. CASE ~(~needsFence[c] /\ connections[c] > 0)
    <3>1. Hold(c, "idle", NoLoc) /\ UNCHANGED idleSince
      BY <1>2, <2>2 DEF IdleTick
    <3>2. /\ op'[c] = "idle" /\ pc'[c] = FirstAwait(c)
          /\ \A d \in Proxies \ {c} : op'[d] = op[d] /\ pc'[d] = pc[d] /\ loc'[d] = loc[d]
      BY <3>1 DEF Hold, TypeInv, HolderTypeOK
    <3>3. pc'[c] = "current" => connections[c] = 0
      BY <1>0, <2>2, <3>2, FS_CardinalityType DEF CountInv, FirstAwait
    <3>4. HolderInv(c)' /\ ClockInv(c)'
      BY <1>0, <1>2, <2>0, <3>1, <3>2, <3>3 DEF HolderInv, ClockInv, Stage, FirstAwait, IdleTick
    <3> QED BY <2>0, <3>1, <3>2, <3>4, MoveKeeps DEF OnlyMoves
  <2> QED BY <2>1, <2>2
<1>3. CASE IdleElapses(c)
  <2>1. /\ idleSince[c] # None /\ \E k : idleSince' = [idleSince EXCEPT ![c] = k]
        /\ UNCHANGED <<phase, op, pc, loc, connections, conn>>
    BY <1>3 DEF IdleElapses, holder
  <2>2. OnlyMoves(c)
    BY <1>0, <2>1 DEF OnlyMoves
  <2>3. HolderInv(c)' /\ ClockInv(c)'
    BY <1>0, <2>1 DEF HolderInv, ClockInv
  <2> QED BY <2>1, <2>2, <2>3, MoveKeeps
<1> QED BY <1>1, <1>2, <1>3, StartKeeps, EndKeeps

\* A task takes a step that neither starts nor ends its being counted.
LEMMA TaskKeeps ==
    ASSUME TypeInv, ConnInv, NEW x \in Conns, NEW t,
           conn' = [conn EXCEPT ![x] = t], conn[x].st # "wake",
           UNCHANGED <<phase, op, pc, loc, connections, idleSince>>,
           t.st = "none" \/ (t.px \in Proxies /\ phase[t.px] \in {"up", "drain"}),
           conn[x].st \in {"connect", "copy", "closing"}
             => t.px = conn[x].px /\ t.st \in {"connect", "copy", "closing"},
           conn[x].st \in {"none", "first", "lock"} => t.st \in {"none", "first", "lock"}
    PROVE  ConnInv'
<1>1. conn'[x] = t /\ (\A y \in Conns \ {x} : conn'[y] = conn[y]) /\ conn[x] \in Task
  BY DEF TypeInv, ConnTypeOK
<1>2. ASSUME NEW d \in Proxies PROVE HolderInv(d)' /\ ClockInv(d)' /\ CountInv(d)'
  <2>1. HolderInv(d) /\ ClockInv(d) /\ CountInv(d)
    BY DEF ConnInv
  <2>2. \A y \in Conns : y \in Counted(d)' <=> y \in Counted(d)
    BY <1>1 DEF Counted, Task
  <2>3. Counted(d)' = Counted(d)
    BY <2>2 DEF Counted
  <2>4. CountInv(d)'
    BY <2>1, <2>3, CountSame
  <2> QED BY <1>1, <2>1, <2>4 DEF HolderInv, ClockInv
<1>3. ASSUME NEW y \in Conns PROVE TaskHome(y)'
  BY <1>1 DEF ConnInv, TaskHome
<1> QED BY <1>2, <1>3 DEF ConnInv

\* A task gets the lock: it is counted, and the clock is stopped.
LEMMA WakeKeeps ==
    ASSUME TypeInv, ConnInv, NEW x \in Conns, Wake(x)
    PROVE  ConnInv'
<1> SUFFICES ASSUME NEW c, c = conn[x].px PROVE ConnInv'
  OBVIOUS
<1>0. /\ conn[x].st = "lock" /\ Free(c) /\ UNCHANGED phase
      /\ conn' = [conn EXCEPT ![x].st = "wake"]
      /\ connections' = [connections EXCEPT ![c] = @ + 1]
      /\ idleSince' = [idleSince EXCEPT ![c] = None]
      /\ Hold(c, "wake", [NoLoc EXCEPT !.conn = x])
  BY DEF Wake
<1>1. c \in Proxies /\ phase[c] \in {"up", "drain"}
  BY <1>0 DEF ConnInv, TaskHome
<1>2. /\ conn'[x].st = "wake" /\ conn'[x].px = c
      /\ \A y \in Conns \ {x} : conn'[y] = conn[y]
  BY <1>0 DEF TypeInv, ConnTypeOK, Task
<1>3. /\ connections'[c] = connections[c] + 1 /\ idleSince'[c] = None
      /\ \A d \in Proxies \ {c} : connections'[d] = connections[d] /\ idleSince'[d] = idleSince[d]
  BY <1>0, <1>1 DEF TypeInv, ControllerTypeOK
<1>4. /\ op'[c] = "wake" /\ pc'[c] = FirstAwait(c) /\ loc'[c].conn = x
      /\ \A d \in Proxies \ {c} : op'[d] = op[d] /\ pc'[d] = pc[d] /\ loc'[d] = loc[d]
  BY <1>0, <1>1 DEF Hold, NoLoc, TypeInv, HolderTypeOK
<1>5. ASSUME NEW d \in Proxies PROVE HolderInv(d)' /\ ClockInv(d)' /\ CountInv(d)'
  <2>0. HolderInv(d) /\ ClockInv(d) /\ CountInv(d)
    BY DEF ConnInv
  <2>1. CASE d = c
    <3>1. x \notin Counted(c) /\ Counted(c)' = Counted(c) \cup {x}
      BY <1>0, <1>2 DEF Counted
    <3>2. CountInv(d)'
      BY <1>3, <2>0, <2>1, <3>1, FS_AddElement, SMTT(20) DEF CountInv
    <3>3. HolderInv(d)'
      BY <1>0, <1>1, <1>2, <1>4, <2>1 DEF HolderInv, Stage, FirstAwait
    <3>4. ClockInv(d)'
      BY <1>3, <1>4, <2>1 DEF ClockInv
    <3> QED BY <3>2, <3>3, <3>4
  <2>2. CASE d # c
    <3>1. \A y \in Conns : y \in Counted(d)' <=> y \in Counted(d)
      BY <1>0, <1>2, <2>2 DEF Counted
    <3>2. Counted(d)' = Counted(d)
      BY <3>1 DEF Counted
    <3>3. CountInv(d)'
      BY <1>3, <2>0, <2>2, <3>2, CountSame
    <3>4. HolderInv(d)'
      BY <1>0, <1>2, <1>4, <2>0, <2>2 DEF HolderInv
    <3>5. ClockInv(d)'
      BY <1>3, <1>4, <2>0, <2>2 DEF ClockInv
    <3> QED BY <3>3, <3>4, <3>5
  <2> QED BY <2>1, <2>2
<1>6. ASSUME NEW y \in Conns PROVE TaskHome(y)'
  <2>1. TaskHome(y)
    BY DEF ConnInv
  <2> QED BY <1>0, <1>1, <1>2, <2>1 DEF TaskHome
<1> QED BY <1>5, <1>6 DEF ConnInv

\* A task takes the lock for the last time, and is no longer counted.
LEMMA CloseKeeps ==
    ASSUME TypeInv, ConnInv, NEW x \in Conns, Close(x)
    PROVE  ConnInv'
<1> SUFFICES ASSUME NEW c, c = conn[x].px PROVE ConnInv'
  OBVIOUS
<1>0. /\ conn[x].st = "closing" /\ Free(c) /\ UNCHANGED <<phase, op, pc, loc>>
      /\ conn' = [conn EXCEPT ![x] = NoConn]
      /\ connections' = [connections EXCEPT ![c] = @ - 1]
      /\ idleSince' = [idleSince EXCEPT ![c] = None]
  BY DEF Close, holder
<1>1. c \in Proxies
  BY <1>0 DEF ConnInv, TaskHome
<1>2. conn'[x] = NoConn /\ \A y \in Conns \ {x} : conn'[y] = conn[y]
  BY <1>0 DEF TypeInv, ConnTypeOK
<1>3. /\ connections'[c] = connections[c] - 1 /\ idleSince'[c] = None
      /\ \A d \in Proxies \ {c} : connections'[d] = connections[d] /\ idleSince'[d] = idleSince[d]
  BY <1>0, <1>1 DEF TypeInv, ControllerTypeOK
<1>4. ASSUME NEW d \in Proxies PROVE HolderInv(d)' /\ ClockInv(d)' /\ CountInv(d)'
  <2>0. HolderInv(d) /\ ClockInv(d) /\ CountInv(d)
    BY DEF ConnInv
  <2>1. HolderInv(d)'
    BY <1>0, <1>2, <2>0 DEF HolderInv
  <2>2. CASE d = c
    <3>1. x \in Counted(c)
      BY <1>0 DEF Counted
    <3>2. Counted(c)' = Counted(c) \ {x}
      BY <1>2 DEF Counted, NoConn
    <3>3. CountInv(d)'
      BY <1>3, <2>0, <2>2, <3>1, <3>2, FS_RemoveElement DEF CountInv
    <3>4. ClockInv(d)'
      BY <1>0, <1>3, <2>0, <2>2 DEF ClockInv, HolderInv, Free, Stage
    <3> QED BY <2>1, <3>3, <3>4
  <2>3. CASE d # c
    <3>1. \A y \in Conns : y \in Counted(d)' <=> y \in Counted(d)
      BY <1>0, <1>1, <1>2, <2>3, NoneAssumption DEF Counted, NoConn
    <3>2. Counted(d)' = Counted(d)
      BY <3>1 DEF Counted
    <3>3. CountInv(d)'
      BY <1>3, <2>0, <2>3, <3>2, CountSame
    <3>4. ClockInv(d)'
      BY <1>0, <1>3, <2>0, <2>3 DEF ClockInv
    <3> QED BY <2>1, <3>3, <3>4
  <2> QED BY <2>2, <2>3
<1>5. ASSUME NEW y \in Conns PROVE TaskHome(y)'
  <2>1. TaskHome(y)
    BY DEF ConnInv
  <2> QED BY <1>0, <1>2, <2>1 DEF TaskHome, NoConn
<1> QED BY <1>4, <1>5 DEF ConnInv

\* Every step of a connection.
LEMMA ConnTasks ==
    ASSUME TypeInv, ConnInv, NEW x \in Conns, (\E c \in Proxies : Accept(x, c)) \/ ConnStep(x)
    PROVE  ConnInv'
<1>0. conn[x] \in Task /\ TaskHome(x)
  BY DEF TypeInv, ConnTypeOK, ConnInv
<1>1. ASSUME NEW c \in Proxies, Accept(x, c) PROVE ConnInv'
  <2> DEFINE t == [px |-> c, st |-> "first", pod |-> None]
  <2>1. /\ conn' = [conn EXCEPT ![x] = t] /\ conn[x].st = "none" /\ phase[c] = "up"
        /\ UNCHANGED <<phase, op, pc, loc, connections, idleSince>>
    BY <1>1 DEF Accept, FreshConn, NoConn, controller, holder
  <2>2. t.px = c /\ t.st = "first"
    OBVIOUS
  <2> HIDE DEF t
  <2> QED BY <2>1, <2>2, TaskKeeps
<1>2. CASE FirstByte(x)
  <2>1. /\ conn[x].st = "first"
        /\ UNCHANGED <<phase, op, pc, loc, connections, idleSince>>
        /\ \/ conn' = [conn EXCEPT ![x] = [conn[x] EXCEPT !.st = "lock"]]
           \/ conn' = [conn EXCEPT ![x] = NoConn]
    BY <1>2 DEF FirstByte, controller, holder
  <2>2. CASE conn' = [conn EXCEPT ![x] = [conn[x] EXCEPT !.st = "lock"]]
    <3>1. /\ [conn[x] EXCEPT !.st = "lock"].px = conn[x].px
          /\ [conn[x] EXCEPT !.st = "lock"].st = "lock"
      BY <1>0 DEF Task
    <3> QED BY <1>0, <2>1, <2>2, <3>1, TaskKeeps DEF TaskHome
  <2>3. CASE conn' = [conn EXCEPT ![x] = NoConn]
    <3>1. NoConn.st = "none"
      BY DEF NoConn
    <3> QED BY <2>1, <2>3, <3>1, TaskKeeps
  <2> QED BY <2>1, <2>2, <2>3
<1>3. CASE Connect(x) \/ CopyEnds(x)
  <2>1. PICK s \in {"copy", "closing"} : conn' = [conn EXCEPT ![x] = [conn[x] EXCEPT !.st = s]]
    BY <1>3 DEF Connect, CopyEnds
  <2>2. /\ conn[x].st \in {"connect", "copy"}
        /\ UNCHANGED <<phase, op, pc, loc, connections, idleSince>>
    BY <1>3 DEF Connect, CopyEnds, controller, holder
  <2>3. [conn[x] EXCEPT !.st = s].px = conn[x].px /\ [conn[x] EXCEPT !.st = s].st = s
    BY <1>0 DEF Task
  <2> QED BY <1>0, <2>1, <2>2, <2>3, TaskKeeps DEF TaskHome
<1> QED BY <1>1, <1>2, <1>3, WakeKeeps, CloseKeeps DEF ConnStep

\* Every step keeps the invariant of the connections.
LEMMA ConnNext == TypeInv /\ ConnInv /\ [Next]_vars => ConnInv'
<1> SUFFICES ASSUME TypeInv, ConnInv, [Next]_vars PROVE ConnInv'
  OBVIOUS
<1>1. CASE UNCHANGED vars
  BY <1>1, StutterKeeps DEF vars
<1>2. ASSUME NEW c \in Proxies, ProxyStep(c) \/ ProxyFault(c) PROVE ConnInv'
  BY <1>2, ConnProcess, ConnReads, ConnPatches, ConnControl DEF ProxyStep, ProxyFault
<1>3. ASSUME ClusterStep \/ \E q \in net : Straggler(q) PROVE ConnInv'
  <2>1. UNCHANGED <<phase, op, pc, loc, connections, idleSince, conn>>
    BY <1>3 DEF ClusterStep, Straggler, proxies, controller, holder
  <2> QED BY <2>1, StutterKeeps
<1>4. CASE Next
  BY <1>2, <1>3, <1>4, ConnProcess, ConnTasks DEF Next
<1> QED BY <1>1, <1>4

-----------------------------------------------------------------------------
(* What a step may do to one proxy and to one task.                         *)

\* The life cycle of proxy c does not move, or c gives up, ends or is fenced.
LEMMA PhaseStep ==
    ASSUME TypeInv, NEW c \in Proxies,
           Exit(c) \/ IdleTick(c) \/ IdleElapses(c) \/ ProxyStep(c) \/ ProxyFault(c)
    PROVE  \/ UNCHANGED phase
           \/ Fail(c) \/ Exit(c) \/ Crash(c) \/ Sigterm(c)
           \/ pc[c] = "fencing" /\ Fenced(c)
<1>1. CASE ReadFails(c) \/ Fence(c) \/ Current(c) \/ ColdStartTimeout(c) \/ ControlRefused(c)
           \/ ControlTimesOut(c) \/ Status(c) \/ Suspend(c)
  BY <1>1 DEF ReadFails, Fence, Current, ColdStartTimeout, ControlRefused, ControlTimesOut, Status,
     Suspend
<1>2. CASE PatchOk(c) \/ PatchRefused(c) \/ PatchTimesOut(c)
  BY <1>2 DEF PatchOk, PatchRefused, PatchTimesOut, PatchFailed, Scaled
<1>3. CASE IdleTick(c) \/ IdleElapses(c) \/ ListSleeping(c) \/ ListAwake(c) \/ Retry(c) \/ Resume(c)
  BY <1>3 DEF IdleTick, IdleElapses, ListSleeping, ListAwake, Retry, Resume, ResumeDone
<1> QED BY <1>1, <1>2, <1>3 DEF ProxyStep, ProxyFault

\* Only Start brings a process to life.
LEMMA LifeStep ==
    ASSUME TypeInv, ConnInv, [Next]_vars
    PROVE  \/ \E c \in Proxies : Start(c)
           \/ \A d \in Proxies : phase'[d] # "off" => phase[d] # "off"
<1>0. phase \in [Proxies -> Phases] /\ \A c \in Proxies : phase[c] = "off" => op[c] = "none" /\ pc[c] = "none"
  BY DEF TypeInv, ControllerTypeOK, ConnInv, HolderInv, Stage
<1>1. ASSUME NEW c \in Proxies,
             Exit(c) \/ IdleTick(c) \/ IdleElapses(c) \/ ProxyStep(c) \/ ProxyFault(c)
      PROVE  \A d \in Proxies : phase'[d] # "off" => phase[d] # "off"
  <2>1. CASE Fail(c)
    <3>1. phase' = [phase EXCEPT ![c] = IF op[c] = "new" THEN "off" ELSE @]
      BY <2>1 DEF Fail
    <3> QED BY <1>0, <3>1
  <2>2. CASE pc[c] = "fencing" /\ Fenced(c)
    <3>1. phase' = [phase EXCEPT ![c] = IF op[c] = "new" THEN "up" ELSE @]
      BY <2>2 DEF Fenced
    <3> QED BY <1>0, <2>2, <3>1
  <2>3. CASE Exit(c) \/ Crash(c) \/ Sigterm(c)
    BY <1>0, <2>3 DEF Exit, Crash, Sigterm
  <2> QED BY <1>1, <2>1, <2>2, <2>3, PhaseStep
<1>2. ASSUME NEW x \in Conns, (\E c \in Proxies : Accept(x, c)) \/ ConnStep(x) PROVE UNCHANGED phase
  BY <1>2 DEF Accept, ConnStep, FirstByte, Wake, Connect, CopyEnds, Close
<1>3. ASSUME ClusterStep \/ \E q \in net : Straggler(q) PROVE UNCHANGED phase
  BY <1>3 DEF ClusterStep, proxies, Straggler
<1> QED BY <1>1, <1>2, <1>3 DEF Next, vars

\* The step leaves the operation and the fence flag of c alone.
Undisturbed(c) == /\ op'[c] = op[c] /\ pc'[c] = pc[c] /\ loc'[c] = loc[c]
                  /\ needsFence'[c] = needsFence[c]

\* It leaves its life cycle and its idle clock alone, too.
LeftAlone(c) == Undisturbed(c) /\ phase'[c] = phase[c] /\ idleSince'[c] = idleSince[c]

\* A proxy's step leaves every other proxy alone.
LEMMA OthersLeftAlone ==
    ASSUME TypeInv, NEW c \in Proxies,
           \/ Start(c) \/ Exit(c) \/ IdleTick(c) \/ IdleElapses(c)
           \/ ProxyStep(c) \/ ProxyFault(c),
           NEW d \in Proxies \ {c}
    PROVE  LeftAlone(d)
<1>0. /\ op \in [Proxies -> Ops] /\ pc \in [Proxies -> Awaits] /\ loc \in [Proxies -> Locals]
      /\ needsFence \in [Proxies -> BOOLEAN] /\ phase \in [Proxies -> Phases]
      /\ idleSince \in [Proxies -> Clock \cup {None}]
  BY DEF TypeInv, HolderTypeOK, ControllerTypeOK
<1>1. Release(c) => op'[d] = op[d] /\ pc'[d] = pc[d] /\ loc'[d] = loc[d]
  BY ReleaseFacts
<1>2. \A a : Goto(c, a) => pc'[d] = pc[d]
  BY <1>0 DEF Goto
<1>3. Fail(c) => LeftAlone(d)
  BY FailFacts DEF Fail, OnlyMoves, LeftAlone, Undisturbed
<1>4. StopClock(c) => /\ op'[d] = op[d] /\ pc'[d] = pc[d] /\ loc'[d] = loc[d]
                      /\ idleSince'[d] = idleSince[d]
  BY <1>0, <1>1 DEF StopClock
<1>5. CASE Start(c) \/ Exit(c) \/ Crash(c) \/ Sigterm(c)
  BY <1>0, <1>1, <1>5 DEF Start, Exit, Crash, Sigterm, Forget, LeftAlone, Undisturbed, holder,
     controller
<1>6. CASE IdleTick(c) \/ IdleElapses(c)
  BY <1>0, <1>6 DEF IdleTick, IdleElapses, Hold, LeftAlone, Undisturbed, holder
<1>7. CASE Fence(c) \/ Retry(c)
  BY <1>0, <1>2, <1>3, <1>7 DEF Fence, Retry, LeftAlone, Undisturbed, controller
<1>8. CASE Current(c)
  BY <1>0, <1>2, <1>3, <1>4, <1>8 DEF Current, LeftAlone, Undisturbed
<1>9. CASE ListSleeping(c) \/ ListAwake(c)
  BY <1>0, <1>2, <1>4, <1>9 DEF ListSleeping, ListAwake, LeftAlone, Undisturbed
<1>10. CASE PatchOk(c) \/ PatchRefused(c) \/ PatchTimesOut(c)
  <2>1. CASE PatchFailed(c)
    BY <1>0, <1>2, <1>3, <2>1 DEF PatchFailed, LeftAlone, Undisturbed, controller
  <2>2. CASE Fenced(c)
    BY <1>0, <1>1, <1>2, <1>4, <2>2 DEF Fenced, LeftAlone, Undisturbed
  <2>3. CASE Scaled(c)
    BY <1>0, <1>2, <1>4, <2>3 DEF Scaled, LeftAlone, Undisturbed
  <2> QED BY <1>10, <2>1, <2>2, <2>3 DEF PatchOk, PatchRefused, PatchTimesOut
<1>11. CASE Status(c)
  <2>1. CASE Fail(c)
    BY <1>3, <2>1
  <2>2. CASE StatusOfWake(c, loc[c].pod) /\ UNCHANGED <<phase, needsFence>>
    BY <1>0, <1>1, <1>2, <2>2 DEF StatusOfWake, ReturnBackend, LeftAlone, Undisturbed
  <2>3. CASE StatusOfIdle(c, loc[c].pod) /\ UNCHANGED <<phase, needsFence>>
    BY <1>0, <1>1, <1>2, <1>4, <2>3 DEF StatusOfIdle, LeftAlone, Undisturbed
  <2> QED BY <1>11, <2>1, <2>2, <2>3 DEF Status
<1>12. CASE Suspend(c)
  BY <1>0, <1>2, <1>3, <1>4, <1>12 DEF Suspend, LeftAlone, Undisturbed
<1>13. CASE Resume(c)
  BY <1>1, <1>4, <1>13 DEF Resume, ResumeDone, ReturnBackend, LeftAlone, Undisturbed
<1>14. CASE ReadFails(c) \/ ColdStartTimeout(c) \/ ControlRefused(c) \/ ControlTimesOut(c)
  BY <1>3, <1>14 DEF ReadFails, ColdStartTimeout, ControlRefused, ControlTimesOut
<1> QED BY <1>5, <1>6, <1>7, <1>8, <1>9, <1>10, <1>11, <1>12, <1>13, <1>14 DEF ProxyStep, ProxyFault

\* A connection is given a backend by the wake that works for it, and only then
\* connects to it.
LEMMA ForwardStep ==
    ASSUME TypeInv, ConnInv, [Next]_vars, NEW x \in Conns, conn'[x].st \in {"connect", "copy"}
    PROVE  \/ conn'[x] = conn[x]
           \/ conn'[x].st = "copy" /\ Connect(x)
           \/ \E c \in Proxies : /\ Status(c) \/ Resume(c)
                                 /\ op[c] = "wake" /\ ReturnBackend(c) /\ x = loc[c].conn
<1>0. conn \in [Conns -> Task]
  BY DEF TypeInv, ConnTypeOK
<1>1. ASSUME NEW c \in Proxies, Fail(c) PROVE conn'[x] = conn[x]
  BY <1>1 DEF Fail, NoConn
<1>2. ASSUME NEW c \in Proxies, ReturnBackend(c), Status(c) \/ Resume(c), op[c] = "wake"
      PROVE  conn'[x] = conn[x] \/ x = loc[c].conn
  BY <1>0, <1>2 DEF ReturnBackend
<1>3. ASSUME NEW c \in Proxies, Status(c) \/ Resume(c)
      PROVE  conn'[x] = conn[x] \/ (op[c] = "wake" /\ ReturnBackend(c) /\ x = loc[c].conn)
  <2>1. CASE Fail(c)
    BY <1>1, <2>1
  <2>2. CASE op[c] = "wake" /\ ReturnBackend(c)
    BY <1>2, <1>3, <2>2
  <2>3. CASE UNCHANGED conn
    BY <2>3
  <2> QED BY <1>3, <2>1, <2>2, <2>3 DEF Status, StatusOfWake, StatusOfIdle, Resume, ResumeDone
<1>4. ASSUME NEW c \in Proxies,
             \/ Start(c) \/ Exit(c) \/ IdleTick(c) \/ IdleElapses(c)
             \/ ProxyStep(c) \/ ProxyFault(c)
      PROVE  conn'[x] = conn[x] \/ Status(c) \/ Resume(c)
  <2>1. CASE UNCHANGED conn
    BY <2>1
  <2>2. CASE Crash(c)
    BY <2>2 DEF Crash, NoConn
  <2>3. CASE Fail(c)
    BY <1>1, <2>3
  <2>4. CASE PatchOk(c) \/ PatchRefused(c) \/ PatchTimesOut(c)
    BY <2>1, <2>3, <2>4 DEF PatchOk, PatchRefused, PatchTimesOut, PatchFailed, Fenced, Scaled
  <2>5. CASE Fence(c) \/ Current(c) \/ Suspend(c)
    BY <2>1, <2>3, <2>5 DEF Fence, Current, Suspend
  <2> QED BY <1>4, <2>1, <2>2, <2>3, <2>4, <2>5 DEF Start, Exit, IdleTick, IdleElapses, ProxyStep,
     ProxyFault, ListSleeping, ListAwake, Retry, ColdStartTimeout, ControlRefused, Sigterm, ReadFails,
     ControlTimesOut
<1>5. ASSUME NEW y \in Conns, (\E c \in Proxies : Accept(y, c)) \/ ConnStep(y)
      PROVE  conn'[x] = conn[x] \/ (conn'[x].st = "copy" /\ Connect(x))
  <2>1. CASE y # x
    BY <1>0, <1>5, <2>1 DEF Accept, ConnStep, FirstByte, Wake, Connect, CopyEnds, Close
  <2>2. CASE y = x
    <3>1. ~Connect(x) => conn'[x].st \in {"none", "first", "lock", "wake", "closing"}
      BY <1>0, <1>5, <2>2 DEF Accept, ConnStep, FirstByte, Wake, CopyEnds, Close, NoConn, Task
    <3>2. Connect(x) => conn'[x].st \in {"copy", "closing"}
      BY <1>0 DEF Connect, Task
    <3> QED BY <3>1, <3>2
  <2> QED BY <2>1, <2>2
<1>6. ASSUME ClusterStep \/ \E q \in net : Straggler(q) PROVE UNCHANGED conn
  BY <1>6 DEF ClusterStep, proxies, Straggler
<1> QED BY <1>3, <1>4, <1>5, <1>6 DEF Next, vars

-----------------------------------------------------------------------------
(* The fence flag.                                                          *)

\* While an operation is under way, the flag is set exactly at the awaits of its
\* fence and of a scale: whatever else it asks for, it asks for behind a fence.
FenceFlag(c) ==
    pc[c] # "none" => (needsFence[c] <=> pc[c] \in {"fence", "fencing", "scaling"})

\* Every move of the operation keeps its flag right.
LEMMA HolderFlag ==
    ASSUME TypeInv, ConnInv, NEW c \in Proxies, FenceFlag(c),
           \/ Start(c) \/ Exit(c) \/ IdleTick(c) \/ IdleElapses(c)
           \/ ProxyStep(c) \/ ProxyFault(c)
    PROVE  FenceFlag(c)'
<1>0. /\ pc \in [Proxies -> Awaits] /\ needsFence \in [Proxies -> BOOLEAN]
      /\ Stage(op[c], pc[c])
  BY DEF TypeInv, HolderTypeOK, ControllerTypeOK, ConnInv, HolderInv
<1>1. Release(c) \/ Fail(c) \/ StopClock(c) => FenceFlag(c)'
  BY ReleaseFacts DEF Fail, StopClock, FenceFlag
<1>2. \A a : Goto(c, a) => pc'[c] = a
  BY <1>0 DEF Goto
<1>3. CASE Start(c) \/ Exit(c) \/ Crash(c) \/ Sigterm(c)
  BY <1>0, <1>1, <1>3 DEF Start, Exit, Crash, Forget, Sigterm, FenceFlag, holder, controller
<1>4. CASE IdleTick(c) \/ IdleElapses(c)
  BY <1>0, <1>4 DEF IdleTick, IdleElapses, Hold, FirstAwait, FenceFlag, holder
<1>5. CASE Fence(c)
  BY <1>0, <1>1, <1>2, <1>5 DEF Fence, FenceFlag
<1>6. CASE Current(c)
  BY <1>0, <1>1, <1>2, <1>6 DEF Current, FenceFlag
<1>7. CASE ListSleeping(c) \/ ListAwake(c)
  BY <1>0, <1>1, <1>2, <1>7 DEF ListSleeping, ListAwake, FenceFlag
<1>8. CASE Retry(c)
  BY <1>2, <1>8 DEF Retry, FirstAwait, FenceFlag, controller
<1>9. CASE PatchOk(c) \/ PatchRefused(c) \/ PatchTimesOut(c)
  <2>1. CASE PatchFailed(c)
    BY <1>1, <1>2, <2>1 DEF PatchFailed, FenceFlag, controller
  <2>2. CASE Fenced(c) \/ Scaled(c)
    BY <1>0, <1>1, <1>2, <2>2 DEF Fenced, Scaled, FenceFlag
  <2> QED BY <1>9, <2>1, <2>2 DEF PatchOk, PatchRefused, PatchTimesOut
<1>10. CASE Status(c)
  <2>1. CASE StatusOfWake(c, loc[c].pod) /\ UNCHANGED needsFence
    BY <1>1, <1>2, <1>10, <2>1 DEF Status, StatusOfWake, ReturnBackend, FenceFlag
  <2>2. CASE StatusOfIdle(c, loc[c].pod) /\ UNCHANGED needsFence
    BY <1>1, <1>2, <1>10, <2>2 DEF Status, StatusOfIdle, FenceFlag
  <2> QED BY <1>1, <1>10, <2>1, <2>2 DEF Status
<1>11. CASE Suspend(c)
  BY <1>0, <1>1, <1>2, <1>11 DEF Suspend, FenceFlag
<1>12. CASE Resume(c)
  BY <1>1, <1>12 DEF Resume, ResumeDone, ReturnBackend
<1>13. CASE ReadFails(c) \/ ColdStartTimeout(c) \/ ControlRefused(c) \/ ControlTimesOut(c)
  BY <1>1, <1>13 DEF ReadFails, ColdStartTimeout, ControlRefused, ControlTimesOut
<1> QED BY <1>3, <1>4, <1>5, <1>6, <1>7, <1>8, <1>9, <1>10, <1>11, <1>12, <1>13 DEF ProxyStep, ProxyFault

\* So does every step.
LEMMA FlagNext ==
    ASSUME TypeInv, ConnInv, [Next]_vars, NEW c \in Proxies, FenceFlag(c)
    PROVE  FenceFlag(c)'
<1>1. Undisturbed(c) => FenceFlag(c)'
  BY DEF Undisturbed, FenceFlag
<1>2. ASSUME NEW d \in Proxies,
             \/ Start(d) \/ Exit(d) \/ IdleTick(d) \/ IdleElapses(d)
             \/ ProxyStep(d) \/ ProxyFault(d)
      PROVE  FenceFlag(c)'
  <2>1. CASE d = c
    BY <1>2, <2>1, HolderFlag
  <2>2. CASE d # c
    BY <1>1, <1>2, <2>2, OthersLeftAlone DEF LeftAlone
  <2> QED BY <2>1, <2>2
<1>3. ASSUME NEW x \in Conns, (\E d \in Proxies : Accept(x, d)) \/ ConnStep(x) PROVE FenceFlag(c)'
  <2>1. CASE Wake(x)
    BY <2>1 DEF Wake, Hold, FirstAwait, FenceFlag, TypeInv, HolderTypeOK
  <2>2. CASE ~Wake(x)
    BY <1>1, <1>3, <2>2 DEF Accept, ConnStep, FirstByte, Connect, CopyEnds, Close, Undisturbed,
       holder, controller
  <2> QED BY <2>1, <2>2
<1>4. ASSUME ClusterStep \/ (\E q \in net : Straggler(q)) \/ UNCHANGED vars PROVE Undisturbed(c)
  BY <1>4 DEF ClusterStep, proxies, Straggler, holder, controller, vars, Undisturbed
<1> QED BY <1>1, <1>2, <1>3, <1>4 DEF Next

-----------------------------------------------------------------------------
(* The interval of a worker.                                                *)

\* While idle_tick waits for its suspend, its clock has run out, for the pod it talks
\* to and the boot that status reported.
IntervalFits(c) ==
    pc[c] = "suspending" => /\ idleSince[c] # None /\ idleSince[c].elapsed
                            /\ idleSince[c].pod = loc[c].pod
                            /\ idleSince[c].boot = loc[c].boot

\* Only a status that finds the interval over leads to the suspend, and nothing
\* touches the clock until it is answered.
LEMMA HolderInterval ==
    ASSUME TypeInv, ConnInv, NEW c \in Proxies, IntervalFits(c),
           \/ Start(c) \/ Exit(c) \/ IdleTick(c) \/ IdleElapses(c)
           \/ ProxyStep(c) \/ ProxyFault(c)
    PROVE  IntervalFits(c)'
<1>0. /\ pc \in [Proxies -> Awaits] /\ loc \in [Proxies -> Locals]
      /\ idleSince \in [Proxies -> Clock \cup {None}] /\ Stage(op[c], pc[c])
  BY DEF TypeInv, HolderTypeOK, ControllerTypeOK, ConnInv, HolderInv
<1>1. Release(c) \/ Fail(c) \/ StopClock(c) => IntervalFits(c)'
  BY ReleaseFacts DEF Fail, StopClock, IntervalFits
<1>2. \A a : Goto(c, a) /\ a # "suspending" => IntervalFits(c)'
  BY <1>0 DEF Goto, IntervalFits
<1>3. CASE Start(c) \/ Exit(c) \/ Crash(c) \/ Sigterm(c)
  BY <1>0, <1>1, <1>3 DEF Start, Exit, Crash, Forget, Sigterm, IntervalFits, holder, controller
<1>4. CASE IdleTick(c)
  BY <1>0, <1>4 DEF IdleTick, Hold, FirstAwait, Free, IntervalFits, holder
<1>5. CASE IdleElapses(c)
  BY <1>0, <1>5 DEF IdleElapses, IntervalFits, holder
<1>6. CASE Fence(c) \/ Current(c) \/ ListSleeping(c) \/ ListAwake(c)
  BY <1>1, <1>2, <1>6 DEF Fence, Current, ListSleeping, ListAwake
<1>7. CASE Retry(c)
  BY <1>2, <1>7 DEF Retry, FirstAwait
<1>8. CASE PatchOk(c) \/ PatchRefused(c) \/ PatchTimesOut(c)
  <2>1. PatchFailed(c) \/ Fenced(c) \/ Scaled(c)
    BY <1>8 DEF PatchOk, PatchRefused, PatchTimesOut
  <2> QED BY <1>1, <1>2, <2>1 DEF PatchFailed, Fenced, Scaled
<1>9. CASE Status(c)
  <2>1. CASE StatusOfWake(c, loc[c].pod)
    BY <1>1, <1>2, <2>1 DEF StatusOfWake, ReturnBackend
  <2>2. CASE StatusOfIdle(c, loc[c].pod)
    <3> DEFINE p == loc[c].pod
    <3>1. CASE Goto(c, "resuming") \/ Release(c) \/ StopClock(c)
      BY <1>1, <1>2, <3>1
    <3>2. CASE /\ Expired(c, p) /\ UNCHANGED idleSince
               /\ loc' = [loc EXCEPT ![c].boot = pods[p].boot]
      <4>1. loc'[c].pod = p /\ loc'[c].boot = pods[p].boot
        BY <1>0, <3>2 DEF Locals
      <4> QED BY <3>2, <4>1 DEF Expired, SameWorker, IntervalFits
    <3> QED BY <2>2, <3>1, <3>2, Zenon DEF StatusOfIdle
  <2> QED BY <1>1, <1>9, <2>1, <2>2 DEF Status
<1>10. CASE Suspend(c)
  BY <1>1, <1>2, <1>10 DEF Suspend
<1>11. CASE Resume(c)
  BY <1>1, <1>11 DEF Resume, ResumeDone, ReturnBackend
<1>12. CASE ReadFails(c) \/ ColdStartTimeout(c) \/ ControlRefused(c) \/ ControlTimesOut(c)
  BY <1>1, <1>12 DEF ReadFails, ColdStartTimeout, ControlRefused, ControlTimesOut
<1> QED BY <1>3, <1>4, <1>5, <1>6, <1>7, <1>8, <1>9, <1>10, <1>11, <1>12 DEF ProxyStep, ProxyFault

\* So it is after every step.
LEMMA IntervalNext ==
    ASSUME TypeInv, ConnInv, [Next]_vars, NEW c \in Proxies, IntervalFits(c)
    PROVE  IntervalFits(c)'
<1>0. /\ pc \in [Proxies -> Awaits] /\ loc \in [Proxies -> Locals]
      /\ idleSince \in [Proxies -> Clock \cup {None}]
  BY DEF TypeInv, HolderTypeOK, ControllerTypeOK
<1>1. pc'[c] = pc[c] /\ loc'[c] = loc[c] /\ idleSince'[c] = idleSince[c] => IntervalFits(c)'
  BY DEF IntervalFits
<1>2. ASSUME NEW d \in Proxies,
             \/ Start(d) \/ Exit(d) \/ IdleTick(d) \/ IdleElapses(d)
             \/ ProxyStep(d) \/ ProxyFault(d)
      PROVE  IntervalFits(c)'
  <2>1. CASE d = c
    BY <1>2, <2>1, HolderInterval
  <2>2. CASE d # c
    BY <1>1, <1>2, <2>2, OthersLeftAlone DEF LeftAlone, Undisturbed
  <2> QED BY <2>1, <2>2
<1>3. ASSUME NEW x \in Conns, (\E d \in Proxies : Accept(x, d)) \/ ConnStep(x)
      PROVE  IntervalFits(c)'
  <2>1. CASE Wake(x)
    <3>1. CASE conn[x].px = c
      BY <1>0, <2>1, <3>1 DEF Wake, Hold, FirstAwait, IntervalFits
    <3>2. CASE conn[x].px # c
      BY <1>0, <1>1, <2>1, <3>2 DEF Wake, Hold
    <3> QED BY <3>1, <3>2
  <2>2. CASE Close(x)
    BY <1>0, <2>2 DEF Close, Free, IntervalFits, holder
  <2>3. CASE ~Wake(x) /\ ~Close(x)
    BY <1>1, <1>3, <2>3 DEF Accept, ConnStep, FirstByte, Connect, CopyEnds, holder, controller
  <2> QED BY <2>1, <2>2, <2>3
<1>4. ASSUME ClusterStep \/ (\E q \in net : Straggler(q)) \/ UNCHANGED vars PROVE IntervalFits(c)'
  BY <1>1, <1>4 DEF ClusterStep, proxies, Straggler, holder, controller, vars
<1> QED BY <1>2, <1>3, <1>4 DEF Next

\* The step from the suspend to the scale is the answer of a core that has not
\* restarted since its status.
LEMMA SuspendedBoot ==
    ASSUME TypeInv, ConnInv, [Next]_vars, NEW c \in Proxies,
           pc[c] = "suspending", pc'[c] = "scaling"
    PROVE  pods[loc[c].pod].boot = loc[c].boot
<1>0. pc \in [Proxies -> Awaits] /\ Stage(op[c], pc[c])
  BY DEF TypeInv, HolderTypeOK, ConnInv, HolderInv
<1>1. Release(c) \/ Fail(c) \/ StopClock(c) => pc'[c] = "none"
  BY ReleaseFacts DEF Fail, StopClock
<1>2. pc'[c] # pc[c]
  OBVIOUS
<1>3. ASSUME NEW d \in Proxies,
             \/ Start(d) \/ Exit(d) \/ IdleTick(d) \/ IdleElapses(d)
             \/ ProxyStep(d) \/ ProxyFault(d)
      PROVE  pods[loc[c].pod].boot = loc[c].boot
  <2>1. d = c
    BY <1>2, <1>3, OthersLeftAlone DEF LeftAlone, Undisturbed
  <2>2. CASE Suspend(c)
    BY <1>1, <2>2, Zenon DEF Suspend
  <2>3. CASE Start(c) \/ Exit(c) \/ IdleTick(c) \/ IdleElapses(c) \/ Crash(c) \/ Sigterm(c)
    BY <1>0, <1>1, <1>2, <2>3 DEF Start, Exit, IdleTick, IdleElapses, Crash, Sigterm, Forget, Hold,
       FirstAwait, holder
  <2>4. CASE ControlRefused(c) \/ ControlTimesOut(c)
    BY <1>1, <2>4 DEF ControlRefused, ControlTimesOut
  <2> QED BY <1>3, <2>1, <2>2, <2>3, <2>4 DEF ProxyStep, ProxyFault, Fence, Current, ListSleeping,
     ListAwake, Retry, ColdStartTimeout, PatchOk, PatchRefused, PatchTimesOut, Patches, Status,
     Resume, ReadFails, Reads
<1>4. ASSUME NEW x \in Conns, (\E d \in Proxies : Accept(x, d)) \/ ConnStep(x) PROVE FALSE
  <2>1. CASE Wake(x)
    BY <1>0, <2>1 DEF Wake, Hold, FirstAwait, Free
  <2>2. CASE ~Wake(x)
    BY <1>2, <1>4, <2>2 DEF Accept, ConnStep, FirstByte, Connect, CopyEnds, Close, holder
  <2> QED BY <2>1, <2>2
<1>5. ASSUME ClusterStep \/ (\E q \in net : Straggler(q)) \/ UNCHANGED vars PROVE FALSE
  BY <1>2, <1>5 DEF ClusterStep, proxies, Straggler, holder, vars
<1> QED BY <1>3, <1>4, <1>5 DEF Next

-----------------------------------------------------------------------------
(* The theorems.                                                            *)

\* The types and the invariant of the connections hold together.
THEOREM ConnInvariant == Spec => [](TypeInv /\ ConnInv)
BY TypeInit, TypeNext, ConnInit, ConnNext, PTL DEF Spec

\* Controller.connections is the number of counted tasks, at every await and on
\* every error path.
THEOREM CountsConnections == Spec => []ConnectionsCounted
<1>1. ConnInv => ConnectionsCounted
  BY DEF ConnInv, CountInv, ConnectionsCounted
<1> QED BY <1>1, ConnInvariant, PTL

\* The idle clock never runs while a connection is counted.
THEOREM ClockAfterConnections == Spec => []ClockStartsAfterConnections
<1>1. ConnInv => ClockStartsAfterConnections
  BY DEF ConnInv, ClockInv, ClockStartsAfterConnections
<1> QED BY <1>1, ConnInvariant, PTL

\* needs_fence of every proxy is set as long as its operation has a fence to make,
\* and again once it asks for a scale; never while it reads, suspends or resumes.
THEOREM ActsBehindFence == Spec => [](\A c \in Proxies : FenceFlag(c))
<1>1. Init => \A c \in Proxies : FenceFlag(c)
  BY DEF Init, FenceFlag
<1>2. /\ TypeInv /\ ConnInv /\ [Next]_vars
      /\ \A c \in Proxies : FenceFlag(c)
      => (\A c \in Proxies : FenceFlag(c))'
  BY FlagNext
<1> QED BY <1>1, <1>2, ConnInvariant, PTL DEF Spec

\* The interval that authorises a sleep has run out for the pod and the boot that is
\* suspended, through restarts and replacements at any point.
THEOREM IntervalOfWorker == Spec => IntervalIsOfThisWorker
<1> DEFINE Own == \A c \in Proxies : pc[c] = "suspending" /\ pc'[c] = "scaling"
                     => /\ idleSince[c] # None /\ idleSince[c].elapsed
                        /\ idleSince[c].pod = loc[c].pod
                        /\ idleSince[c].boot = pods[loc[c].pod].boot
<1>1. Init => \A c \in Proxies : IntervalFits(c)
  BY DEF Init, IntervalFits
<1>2. /\ TypeInv /\ ConnInv /\ [Next]_vars
      /\ \A c \in Proxies : IntervalFits(c)
      => (\A c \in Proxies : IntervalFits(c))'
  BY IntervalNext
<1>3. /\ TypeInv /\ ConnInv /\ [Next]_vars
      /\ \A c \in Proxies : IntervalFits(c)
      => [Own]_vars
  BY SuspendedBoot DEF IntervalFits
<1> QED BY <1>1, <1>2, <1>3, ConnInvariant, PTL DEF Spec, IntervalIsOfThisWorker
=============================================================================
