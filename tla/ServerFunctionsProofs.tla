----------------------- MODULE ServerFunctionsProofs -----------------------
(***************************************************************************)
(* Theorems about ServerFunctions and CoreAbi, for any queries, addresses, *)
(* API tables and providers, and every width of usize.                     *)
(***************************************************************************)
EXTENDS ServerFunctions, SequenceTheorems, TLAPS

-----------------------------------------------------------------------------
(* What crosses the boundary of the ABI.                                    *)

\* A protocol that goes to a provider comes back under its own name, and that
\* name is one duckflight_stop takes for the same protocol.
LEMMA ProtocolsRoundTrip ==
    \A p \in Protocols : /\ ProtocolName(AbiProtocol[p]) = AsStr[p]
                         /\ Parse(AsStr[p]) = p
BY DEF Protocols, AbiProtocol, ProtocolName, AsStr, Parse, Spellings

\* A string of this side is one that the other side reads as the same string.
LEMMA StringsRoundTrip ==
    \A t \in Texts : FromUtf8(t) \in Bytes /\ BorrowedString(FromUtf8(t)) = t
BY TextAssumption DEF Bytes, FromUtf8, BorrowedString

\* A table that is accepted is a whole one of version 1.
LEMMA AcceptedIsWhole ==
    ASSUME NEW t \in Table, Examine(t).accepted
    PROVE  /\ t.abi_version = 1 /\ t.struct_size >= TableSize
           /\ t.entries = Entries
<1>1. /\ t.abi_version = 1 /\ ~(t.struct_size < TableSize)
      /\ t.entries = Entries /\ t # Null
  BY Zenon DEF Examine
<1>2. QED
  BY <1>1, SizeAssumption DEF Table, Sizes, TableSize

\* However short or long a table says it is, nothing behind its end is read, but
\* for the field that says how long it is.
THEOREM TablesAreReadWithinTheirSize ==
    ASSUME NEW t \in Table, t # Null
    PROVE  Examine(t).read = 4 \/ Examine(t).read <= t.struct_size
<1>1. t.struct_size \in Nat
  BY SizeAssumption DEF Table, Sizes
<1>2. Examine(t).read = IF t.struct_size < HeaderSize THEN 4
                        ELSE IF t.abi_version # 1 \/ t.struct_size < TableSize
                          THEN HeaderSize ELSE TableSize
  BY SMT DEF Examine
<1>3. QED
  BY <1>1, <1>2 DEF HeaderSize, TableSize

\* The page of chunk_bounds is the one that unbounded integers give, for every
\* width: what saturates lies behind the last row.
THEOREM PagesDoNotOverflow ==
    ASSUME NEW total \in 0..MaxUsize, NEW start \in 0..MaxUsize,
           NEW capacity \in 1..MaxUsize, start < total
    PROVE  ChunkBounds(total, start, capacity) =
               [from |-> start,
                to |-> IF start + capacity > total THEN total ELSE start + capacity]
BY SizeAssumption DEF ChunkBounds, SaturatingAdd

-----------------------------------------------------------------------------
(* The inductive form of TypeOK.  It adds that a query that is in a call is  *)
(* the query of that call.                                                  *)

Wheres == {"new", "pull", "serve", "stop", "list"} \cup Inside \cup Ended

CommandInv ==
    \A q \in Queries :
        /\ pc[q] # "new" => cmd[q] \in Command
        /\ pc[q] \in {"serve", "receive"} => cmd[q].op = "serve"
        /\ pc[q] = "stop" => cmd[q].op = "stop"
        /\ pc[q] \in {"list", "visit"} => cmd[q].op = "servers"

TypeInv == TypeOK /\ CommandInv

\* The two halves of TypeInv: where the queries are, and what there is.
ProcessInv ==
    /\ lock \in Queries \cup {None}
    /\ pc \in [Queries -> Wheres]
    /\ \A q \in Queries : lock = q <=> pc[q] \in Inside
    /\ cmd \in [Queries -> Command \cup {None}]
    /\ CommandInv

DataInv ==
    /\ provider \in Providers /\ table \in Tables \cup {None}
    /\ core \in {"none", "dynamic", "unavailable"}
    /\ servers \subseteq Server
    /\ done \in [Queries -> BOOLEAN]
    /\ offset \in [Queries -> 0..MaxUsize]
    /\ todo \in [Queries -> SUBSET Server]

\* They make up TypeInv.
LEMMA Halves == TypeInv <=> ProcessInv /\ DataInv
BY DEF TypeInv, TypeOK, ProcessInv, DataInv, Wheres

\* ... in the next state, too.
LEMMA HalvesNext == TypeInv' <=> ProcessInv' /\ DataInv'
BY DEF TypeInv, TypeOK, ProcessInv, DataInv, Wheres

\* A listener that is started is a protocol and an address.
LEMMA TargetIsServer ==
    ASSUME NEW c \in Command, c.op = "serve"
    PROVE  Target(c) \in Server
<1>1. c.protocol \in Protocols /\ c.address \in Texts
  BY UseAssumption, AddressAssumption DEF Command
<1>2. BoundAddress(c.address) \in Texts
  BY <1>1, AddressAssumption DEF BoundAddress
<1>3. AbiProtocol[c.protocol] \in Nat
  BY <1>1 DEF Protocols, AbiProtocol
<1>4. FromUtf8(BoundAddress(c.address)) \in Addresses
  BY <1>2 DEF Addresses
<1>5. QED
  BY <1>3, <1>4 DEF Target, Server

\* A query moves between steps that do not hold the Mutex.
LEMMA Moves ==
    ASSUME ProcessInv, NEW q \in Queries, NEW w \in Wheres \ Inside,
           pc[q] \notin Inside \cup {"new"}, Goto(q, w), UNCHANGED <<lock, cmd>>,
           w \notin {"new", "list"}, w \in {"serve", "stop"} => cmd[q].op = w
    PROVE  ProcessInv'
BY DEF ProcessInv, CommandInv, Goto, Wheres, Inside, Ended

\* A query enters a callback with the Mutex.
LEMMA Enters ==
    ASSUME ProcessInv, NEW q \in Queries, lock = None, pc[q] # "new", lock' = q,
           UNCHANGED cmd,
           \/ Goto(q, "receive") /\ cmd[q].op = "serve"
           \/ Goto(q, "visit") /\ cmd[q].op = "servers"
    PROVE  ProcessInv'
BY UseAssumption DEF ProcessInv, CommandInv, Goto, Wheres, Inside, Ended

\* A query leaves the provider, and the Mutex with it.
LEMMA Leaves ==
    ASSUME ProcessInv, NEW q \in Queries, NEW w \in {"pull", "failed"},
           pc[q] \in Inside, Goto(q, w), Release(q), UNCHANGED cmd
    PROVE  ProcessInv'
BY UseAssumption DEF ProcessInv, CommandInv, Goto, Release, Wheres, Inside, Ended

\* A query begins.
LEMMA Begins ==
    ASSUME ProcessInv, NEW q \in Queries, NEW c \in Command, Begin(q, c)
    PROVE  ProcessInv'
BY DEF ProcessInv, CommandInv, Begin, Goto, Set, shared, Wheres, Inside, Ended

\* The offset of a list stays a usize.
LEMMA OffsetIsUsize ==
    ASSUME DataInv, NEW q \in Queries
    PROVE  WrappingAdd(offset[q], VectorSize) \in 0..MaxUsize
BY SizeAssumption, VectorAssumption DEF DataInv, WrappingAdd

\* A call of func keeps the types.
LEMMA FuncKeepsTypes ==
    ASSUME TypeInv, NEW q \in Queries, Func(q)
    PROVE  TypeInv'
<1> USE Halves, HalvesNext
<1>1. CASE PullOnce(q)
  <2>1. ProcessInv'
    <3>1. CASE Goto(q, "failed")
      BY <1>1, <3>1, Moves DEF PullOnce, shared, Wheres, Inside, Ended
    <3>2. CASE Goto(q, cmd[q].op) /\ cmd[q].op \in {"serve", "stop"}
      BY <1>1, <3>2, Moves DEF PullOnce, shared, Wheres, Inside, Ended
    <3>3. CASE pc' = pc
      BY <1>1, <3>3 DEF PullOnce, shared, ProcessInv, CommandInv
    <3>4. QED
      BY <1>1, <3>1, <3>2, <3>3 DEF PullOnce
  <2>2. DataInv'
    BY <1>1 DEF PullOnce, Mark, Set, shared, library, DataInv
  <2>3. QED
    BY <2>1, <2>2
<1>2. CASE PullDone(q)
  <2>1. ProcessInv'
    BY <1>2, Moves DEF PullDone, shared, Wheres, Inside, Ended
  <2>2. DataInv'
    BY <1>2 DEF PullDone, shared, library, DataInv
  <2>3. QED
    BY <2>1, <2>2
<1>3. CASE PullPage(q)
  <2>1. ProcessInv'
    <3>1. CASE pc' = pc
      BY <1>3, <3>1 DEF PullPage, shared, ProcessInv, CommandInv
    <3>2. CASE Goto(q, "end") \/ Goto(q, "failed")
      BY <1>3, <3>2, Moves DEF PullPage, shared, Wheres, Inside, Ended
    <3>3. QED
      BY <1>3, <3>1, <3>2 DEF PullPage
  <2>2. DataInv'
    BY <1>3, OffsetIsUsize DEF PullPage, Set, shared, library, DataInv
  <2>3. QED
    BY <2>1, <2>2
<1>4. QED
  BY <1>1, <1>2, <1>3 DEF Func

\* The end of a serve call keeps the types.
LEMMA ServeReturnsKeepsTypes ==
    ASSUME TypeInv, NEW q \in Queries, pc[q] = "receive", NEW status, NEW size,
           ServeReturns(q, status, size)
    PROVE  TypeInv'
<1> USE Halves, HalvesNext
<1>1. ProcessInv'
  <2>1. Goto(q, "failed") \/ Goto(q, "pull")
    BY DEF ServeReturns, CallFails
  <2>2. QED
    BY <2>1, Leaves DEF ServeReturns, Inside
<1>2. DataInv'
  BY DEF ServeReturns, library, DataInv
<1>3. QED
  BY <1>1, <1>2

\* The visitor keeps the types.
LEMMA VisitKeepsTypes ==
    ASSUME TypeInv, NEW q \in Queries, Visit(q)
    PROVE  TypeInv'
<1> USE Halves, HalvesNext
<1>1. ProcessInv'
  <2>1. CASE UNCHANGED <<lock, pc>>
    BY <2>1 DEF Visit, ProcessInv, CommandInv
  <2>2. CASE Release(q) /\ Goto(q, "failed")
    BY <2>2, Leaves DEF Visit, Inside
  <2>3. QED
    BY <2>1, <2>2 DEF Visit, CallFails
<1>2. DataInv'
  <2>1. PICK server \in todo[q] : \/ todo' = Set(todo, q, todo[q] \ {server})
                                 \/ todo' = Set(todo, q, {})
    BY DEF Visit
  <2>2. QED
    BY <2>1 DEF Visit, Set, library, DataInv
<1>3. QED
  BY <1>1, <1>2

\* A call of the provider keeps the types.
LEMMA CallKeepsTypes ==
    ASSUME TypeInv, NEW q \in Queries, Call(q)
    PROVE  TypeInv'
<1> USE Halves, HalvesNext
<1>1. CASE Start(q)
  <2>1. cmd[q] \in Command /\ cmd[q].op = "serve"
    BY <1>1 DEF Start, ProcessInv, CommandInv
  <2>2. ProcessInv'
    BY <1>1, <2>1, Enters DEF Start
  <2>3. DataInv'
    BY <1>1, <2>1, TargetIsServer DEF Start, library, DataInv
  <2>4. QED
    BY <2>2, <2>3
<1>2. CASE Receive(q)
  BY <1>2, ServeReturnsKeepsTypes DEF Receive
<1>3. CASE ReceiveAny(q)
  BY <1>3, ServeReturnsKeepsTypes DEF ReceiveAny
<1>4. CASE Stop(q)
  <2>1. ProcessInv'
    BY <1>4, Moves DEF Stop, Wheres, Inside, Ended
  <2>2. DataInv'
    BY <1>4 DEF Stop, library, DataInv
  <2>3. QED
    BY <2>1, <2>2
<1>5. CASE CallRefused(q)
  <2>1. ProcessInv'
    BY <1>5, Moves DEF CallRefused, CallFails, shared, Wheres, Inside, Ended
  <2>2. DataInv'
    BY <1>5 DEF CallRefused, CallFails, shared, library, DataInv
  <2>3. QED
    BY <2>1, <2>2
<1>6. CASE List(q)
  <2>1. cmd[q].op = "servers"
    BY <1>6 DEF List, ProcessInv, CommandInv
  <2>2. ProcessInv'
    BY <1>6, <2>1, Enters DEF List
  <2>3. DataInv'
    BY <1>6 DEF List, Set, library, DataInv
  <2>4. QED
    BY <2>2, <2>3
<1>7. CASE ListUnavailable(q)
  <2>1. ProcessInv'
    BY <1>7, Moves DEF ListUnavailable, shared, Wheres, Inside, Ended
  <2>2. DataInv'
    BY <1>7 DEF ListUnavailable, shared, library, DataInv
  <2>3. QED
    BY <2>1, <2>2
<1>8. CASE Visit(q)
  BY <1>8, VisitKeepsTypes
<1>9. CASE Listed(q)
  <2>1. ProcessInv'
    BY <1>9, Leaves DEF Listed, Inside
  <2>2. DataInv'
    BY <1>9 DEF Listed, library, DataInv
  <2>3. QED
    BY <2>1, <2>2
<1>10. QED
  BY <1>1, <1>2, <1>3, <1>4, <1>5, <1>6, <1>7, <1>8, <1>9 DEF Call

\* Loading, beginning and abandoning a query keep the types.
LEMMA RestKeepsTypes ==
    ASSUME TypeInv,
           Load \/ \E q \in Queries : Abandon(q) \/ \E c \in Command : Begin(q, c)
    PROVE  TypeInv'
<1> USE Halves, HalvesNext
<1>1. CASE Load
  <2>1. ProcessInv'
    BY <1>1 DEF Load, ProcessInv, CommandInv
  <2>2. servers' \subseteq Server
    BY <1>1, UseAssumption DEF Load, Server, DataInv
  <2>3. DataInv'
    BY <1>1, <2>2 DEF Load, DataInv
  <2>4. QED
    BY <2>1, <2>3
<1>2. CASE \E q \in Queries : Abandon(q)
  <2>1. PICK q \in Queries : Abandon(q)
    BY <1>2
  <2>2. ProcessInv'
    BY <2>1, Moves DEF Abandon, shared, Wheres, Inside, Ended
  <2>3. DataInv'
    BY <2>1 DEF Abandon, shared, library, DataInv
  <2>4. QED
    BY <2>2, <2>3
<1>3. CASE \E q \in Queries : \E c \in Command : Begin(q, c)
  <2>1. PICK q \in Queries, c \in Command : Begin(q, c)
    BY <1>3
  <2>2. DataInv'
    BY <2>1 DEF Begin, shared, library, DataInv
  <2>3. QED
    BY <2>1, <2>2, Begins
<1>4. QED
  BY <1>1, <1>2, <1>3

\* At first every query is new and nothing is loaded.
LEMMA TypeInit == Init => TypeInv
BY UseAssumption, SizeAssumption DEF Init, TypeInv, TypeOK, CommandInv, Inside, Ended

\* Every step keeps the types.
LEMMA TypeStep == TypeInv /\ [Next]_vars => TypeInv'
<1> SUFFICES ASSUME TypeInv, [Next]_vars PROVE TypeInv'
  OBVIOUS
<1>1. CASE Next
  BY <1>1, RestKeepsTypes, FuncKeepsTypes, CallKeepsTypes DEF Next
<1>2. CASE UNCHANGED vars
  BY <1>2, Halves, HalvesNext DEF vars, shared, library, ProcessInv, CommandInv, DataInv
<1>3. QED
  BY <1>1, <1>2

\* Queries and the provider's table are well formed in every reachable state, and
\* the Mutex is held exactly while the receiver or the visitor runs: however a call
\* ends, it is free again.
THEOREM TypeCorrect == Spec => []TypeOK
<1>1. TypeInv => TypeOK
  BY DEF TypeInv
<1>2. QED
  BY <1>1, TypeInit, TypeStep, PTL DEF Spec

-----------------------------------------------------------------------------
(* The table of the provider.                                               *)

\* While a library is or may be loaded its table is the one it has returned, and
\* one that is used was accepted.
TableInv ==
    /\ core = "none" => table \in Tables
    /\ core = "dynamic" => table \in Tables /\ Examine(table).accepted

\* It is chosen once.
LEMMA TableStep == TableInv /\ [Next]_vars => TableInv'
<1> SUFFICES ASSUME TableInv, [Next]_vars PROVE TableInv'
  OBVIOUS
<1>1. CASE Load
  BY <1>1 DEF Load, TableInv
<1>2. ASSUME UNCHANGED library PROVE TableInv'
  BY <1>2 DEF library, TableInv
<1>3. ASSUME NEW q \in Queries, Func(q) \/ Call(q) \/ Abandon(q) \/ \E c \in Command : Begin(q, c)
      PROVE  UNCHANGED library
  BY <1>3, Zenon DEF Func, PullOnce, PullDone, PullPage, Abandon, Begin, Call, Start, Receive,
     ReceiveAny, ServeReturns, Stop, CallRefused, List, ListUnavailable, Visit, Listed
<1>4. CASE UNCHANGED vars
  BY <1>2, <1>4 DEF vars
<1>5. QED
  BY <1>1, <1>2, <1>3, <1>4 DEF Next

\* No function of a provider is called through a table that lacks one of the
\* entries of version 1, whatever table a library returns.
THEOREM CallsSound == Spec => []CallsAreSound
<1>1. Init => TableInv
  BY DEF Init, TableInv
<1>2. TableInv => CallsAreSound
  BY AcceptedIsWhole, UseAssumption DEF TableInv, CallsAreSound
<1>3. QED
  BY <1>1, <1>2, TableStep, PTL DEF Spec

-----------------------------------------------------------------------------
(* Diagnostics.                                                             *)

Sized == {0} \cup MessageSizes

\* What a query says of a provider's message of some size.
Whole(e) == e.detail =
    IF e.size > ErrorCapacity THEN [says |-> "requires", size |-> e.size]
    ELSE IF e.size = 0 THEN [says |-> "status", size |-> e.status]
    ELSE [says |-> "message", size |-> e.size]

\* It is whole or missing, for every size and capacity.
LEMMA DetailIsWhole ==
    ASSUME NEW size \in Nat, NEW status
    PROVE  Whole([detail |-> Detail(status, WriteOutput(NewBuffer, size)),
                  status |-> status, size |-> size])
<1>1. WriteOutput(NewBuffer, size).required = size
  BY DEF WriteOutput
<1>2. Message(WriteOutput(NewBuffer, size)) = IF size > ErrorCapacity THEN None ELSE size
  BY <1>1 DEF Message
<1>3. Detail(status, WriteOutput(NewBuffer, size)) =
        IF size > ErrorCapacity THEN [says |-> "requires", size |-> size]
        ELSE IF size = 0 THEN [says |-> "status", size |-> status]
        ELSE [says |-> "message", size |-> size]
  BY <1>1, <1>2, SizeAssumption DEF Detail
<1>4. QED
  BY <1>3 DEF Whole

DiagnosticInv ==
    DOMAIN error = Queries /\ \A q \in Queries : error[q] # None => Whole(error[q])

\* A call that fails reports its message whole.
LEMMA FailureIsWhole ==
    ASSUME DiagnosticInv, NEW q \in Queries, NEW status, NEW size \in Sized,
           CallFails(q, status, size)
    PROVE  DiagnosticInv'
<1>1. size \in Nat
  BY UseAssumption DEF Sized
<1>2. QED
  BY <1>1, DetailIsWhole, Zenon DEF CallFails, Set, DiagnosticInv

\* No step spoils the error of a query.
LEMMA DiagnosticStep == DiagnosticInv /\ [Next]_vars => DiagnosticInv'
<1> SUFFICES ASSUME DiagnosticInv, [Next]_vars PROVE DiagnosticInv'
  OBVIOUS
<1>1. ASSUME UNCHANGED error PROVE DiagnosticInv'
  BY <1>1 DEF DiagnosticInv
<1>2. ASSUME NEW q \in Queries, NEW status, NEW size \in Sized, ServeReturns(q, status, size)
      PROVE  DiagnosticInv'
  BY <1>1, <1>2, FailureIsWhole DEF ServeReturns
<1>3. ASSUME NEW q \in Queries, Call(q) PROVE DiagnosticInv'
  <2>1. CASE Receive(q)
    BY <1>2, <2>1 DEF Receive, Sized
  <2>2. CASE ReceiveAny(q)
    BY <1>2, <2>2 DEF ReceiveAny, Sized
  <2>3. CASE CallRefused(q)
    BY <2>3, FailureIsWhole DEF CallRefused, Sized
  <2>4. CASE Visit(q)
    <3>1. UNCHANGED error \/ \E status : CallFails(q, status, 0)
      BY <2>4, Zenon DEF Visit
    <3>2. QED
      BY <1>1, <3>1, FailureIsWhole DEF Sized
  <2>5. CASE Start(q) \/ Stop(q) \/ List(q) \/ ListUnavailable(q) \/ Listed(q)
    BY <1>1, <2>5 DEF Start, Stop, List, ListUnavailable, Listed
  <2>6. QED
    BY <1>3, <2>1, <2>2, <2>3, <2>4, <2>5 DEF Call
<1>4. ASSUME NEW q \in Queries, Func(q) \/ Abandon(q) \/ \E c \in Command : Begin(q, c)
      PROVE  DiagnosticInv'
  BY <1>1, <1>4 DEF Func, PullOnce, PullDone, PullPage, Abandon, Begin
<1>5. CASE Load
  BY <1>1, <1>5 DEF Load
<1>6. CASE UNCHANGED vars
  BY <1>1, <1>6 DEF vars
<1>7. QED
  BY <1>3, <1>4, <1>5, <1>6 DEF Next

\* A query that fails shows a provider's message whole, or its length, or the
\* status; whatever the provider writes and however small the buffer is.
THEOREM DiagnosticsWhole == Spec => []DiagnosticIsWhole
<1>1. Init => DiagnosticInv
  BY DEF Init, DiagnosticInv
<1>2. DiagnosticInv => DiagnosticIsWhole
  BY DEF DiagnosticInv, Whole, DiagnosticIsWhole
<1>3. QED
  BY <1>1, <1>2, DiagnosticStep, PTL DEF Spec

-----------------------------------------------------------------------------
(* Serve queries.                                                           *)

ServeInv == TypeInv /\ DOMAIN output = Queries

\* The callbacks' contexts are as many as the queries.
LEMMA ContextStep == DOMAIN output = Queries /\ [Next]_vars => DOMAIN output' = Queries
<1> SUFFICES ASSUME DOMAIN output = Queries, [Next]_vars PROVE DOMAIN output' = Queries
  OBVIOUS
<1>1. ASSUME NEW q \in Queries, NEW v, output' = Set(output, q, v)
      PROVE  DOMAIN output' = Queries
  BY <1>1 DEF Set
<1>2. ASSUME NEW q \in Queries, Call(q) PROVE DOMAIN output' = Queries
  BY <1>1, <1>2 DEF Call, Start, Receive, ReceiveAny, Stop, CallRefused, List, ListUnavailable,
     Visit, Listed
<1>3. ASSUME NEW q \in Queries, Func(q) \/ Abandon(q) \/ \E c \in Command : Begin(q, c)
      PROVE  DOMAIN output' = Queries
  BY <1>1, <1>3 DEF Func, PullOnce, PullDone, PullPage, Abandon, Begin
<1>4. QED
  BY <1>2, <1>3 DEF Next, Load, vars

\* With the mock core a listener that has been started becomes a row.
LEMMA ReceiveReports ==
    ASSUME ServeInv, NEW q \in Queries, Receive(q)
    PROVE  pc'[q] = "pull"
<1> DEFINE address == BoundAddress(cmd[q].address)
<1>1. cmd[q] \in Command /\ cmd[q].op = "serve" /\ pc \in [Queries -> Wheres]
  BY DEF ServeInv, TypeInv, TypeOK, CommandInv, Receive, Wheres
<1>2. cmd[q].address \in Requested
  BY <1>1 DEF Command
<1>3. address \in Texts /\ address \notin {Err} \cup Unprintable
  BY <1>2, TextAssumption, AddressAssumption DEF BoundAddress
<1>4. BorrowedString(Target(cmd[q]).address) = address
  BY <1>1, <1>3, StringsRoundTrip DEF Target
<1>5. ServeReturns(q, OK, 0) /\ output' = Set(output, q, address)
  BY <1>3, <1>4 DEF Receive
<1>6. output'[q] = address
  BY <1>5 DEF Set, ServeInv
<1>7. Goto(q, "pull")
  BY <1>3, <1>5, <1>6 DEF ServeReturns, OK
<1>8. QED
  BY <1>1, <1>7 DEF Goto

\* A serve query of the mock core never fails with its listener started, whatever
\* address it was given and whatever other queries do meanwhile.
THEOREM FailedServesStartNothing == Spec => FailedServeStartsNothing
<1> DEFINE Step == provider = "mock" => \A q \in Queries : pc[q] = "receive" => pc'[q] # "failed"
<1>1. Init => ServeInv
  BY TypeInit DEF Init, ServeInv
<1>2. ServeInv /\ [Next]_vars => ServeInv'
  BY TypeStep, ContextStep DEF ServeInv
<1>3. ServeInv /\ [Next]_vars => [Step]_vars
  <2> SUFFICES ASSUME ServeInv, Next, provider = "mock", NEW q \in Queries, pc[q] = "receive"
               PROVE  pc'[q] # "failed"
    BY DEF ServeInv
  <2>1. pc \in [Queries -> Wheres]
    BY DEF ServeInv, TypeInv, TypeOK, Wheres
  <2>2. CASE pc' = pc
    BY <2>2
  <2>3. ASSUME NEW r \in Queries, r # q, NEW w, Goto(r, w) PROVE pc'[q] = pc[q]
    BY <2>1, <2>3 DEF Goto
  <2>4. ASSUME NEW r \in Queries, Func(r) \/ Abandon(r) \/ \E c \in Command : Begin(r, c)
        PROVE  pc'[q] # "failed"
    <3>1. r # q
      BY <2>4 DEF Func, PullOnce, PullDone, PullPage, Abandon, Begin
    <3>2. pc' = pc \/ \E w : Goto(r, w)
      BY <2>4, Zenon DEF Func, PullOnce, PullDone, PullPage, Abandon, Begin
    <3>3. QED
      BY <2>2, <2>3, <3>1, <3>2
  <2>5. ASSUME NEW r \in Queries, Call(r) PROVE pc'[q] # "failed"
    <3>1. CASE Receive(r) /\ r = q
      BY <3>1, ReceiveReports
    <3>2. pc' = pc \/ \E w : Goto(r, w)
      BY <2>5, Zenon DEF Call, Start, Receive, ReceiveAny, ServeReturns, CallFails, Stop,
         CallRefused, List, ListUnavailable, Visit, Listed
    <3>3. r = q => Receive(r)
      BY <2>5 DEF Call, Start, ReceiveAny, Stop, CallRefused, List, ListUnavailable, Visit, Listed
    <3>4. QED
      BY <2>2, <2>3, <3>1, <3>2, <3>3
  <2>6. CASE Load
    BY <2>2, <2>6 DEF Load
  <2>7. QED
    BY <2>4, <2>5, <2>6 DEF Next
<1>4. QED
  BY <1>1, <1>2, <1>3, PTL DEF Spec, FailedServeStartsNothing

-----------------------------------------------------------------------------
(* Lists of servers.                                                        *)

Snapshot == [protocol : {"pgwire", "flight", "http", "quack"}, address : Texts]

\* The rows that have been emitted after `start` of them were asked for.
Emitted(seq, start) == SubSeq(seq, 1, IF start < Len(seq) THEN start ELSE Len(seq))

\* A list keeps what it has seen, and its rows are the snapshots before its offset.
ListInv(q) ==
    /\ pc[q] \in {"new", "list", "visit"} => rows[q] = <<>> /\ offset[q] = 0
    /\ pc[q] = "visit" => output[q] = Err \/ output[q] \in Seq(Snapshot)
    /\ Listing(q) =>
        /\ output[q] \in Seq(Snapshot)
        /\ Len(output[q]) + VectorSize <= MaxUsize =>
             IF pc[q] = "end" THEN rows[q] = output[q] ELSE rows[q] = Emitted(output[q], offset[q])

PagesInv ==
    /\ TypeInv
    /\ DOMAIN output = Queries /\ DOMAIN rows = Queries
    /\ \A q \in Queries : ListInv(q)

\* What a query has got so far is whole rows.
LEMMA EmittedProperties ==
    ASSUME NEW seq \in Seq(Snapshot), NEW start \in Nat
    PROVE  /\ Emitted(seq, 0) = <<>>
           /\ IsPrefix(Emitted(seq, start), seq)
           /\ start >= Len(seq) => Emitted(seq, start) = seq
<1>1. Len(seq) \in Nat
  BY LenProperties
<1>2. Emitted(seq, 0) = <<>>
  BY <1>1, SubSeqEmpty DEF Emitted
<1>3. start >= Len(seq) => Emitted(seq, start) = seq
  BY <1>1, SubSeqFull DEF Emitted
<1>4. IsPrefix(Emitted(seq, start), seq)
  <2> DEFINE n == IF start < Len(seq) THEN start ELSE Len(seq)
  <2>1. n \in Nat /\ n <= Len(seq)
    BY <1>1
  <2>2. Emitted(seq, start) \in Seq(Snapshot) /\ Len(Emitted(seq, start)) = n
    BY <2>1 DEF Emitted
  <2>3. SubSeq(Emitted(seq, start), 1, n) = Emitted(seq, start)
    BY <2>2, SubSeqFull
  <2>4. QED
    BY <2>1, <2>2, <2>3 DEF IsPrefix, Emitted
<1>5. QED
  BY <1>2, <1>3, <1>4

\* A page continues them.
LEMMA PageContinues ==
    ASSUME NEW seq \in Seq(Snapshot), NEW start \in Nat, start < Len(seq),
           Len(seq) + VectorSize <= MaxUsize
    PROVE  LET bounds == ChunkBounds(Len(seq), start, VectorSize)
           IN  /\ bounds # None
               /\ WrappingAdd(start, VectorSize) = start + VectorSize
               /\ Emitted(seq, start) \o SubSeq(seq, bounds.from + 1, bounds.to)
                    = Emitted(seq, start + VectorSize)
<1> DEFINE next == IF start + VectorSize > Len(seq) THEN Len(seq) ELSE start + VectorSize
<1>1. Len(seq) \in Nat /\ VectorSize \in Nat \ {0} /\ MaxUsize \in Nat
  BY LenProperties, SizeAssumption, VectorAssumption
<1>2. ChunkBounds(Len(seq), start, VectorSize) = [from |-> start, to |-> next]
  <2>1. /\ Len(seq) \in 0..MaxUsize /\ start \in 0..MaxUsize
        /\ VectorSize \in 1..MaxUsize
    BY <1>1
  <2>2. QED
    BY <2>1, PagesDoNotOverflow
<1>3. [from |-> start, to |-> next] # None
  BY <1>1, SizeAssumption
<1>4. WrappingAdd(start, VectorSize) = start + VectorSize
  <2>1. start + VectorSize \in 0..MaxUsize
    BY <1>1
  <2>2. \A n \in 0..MaxUsize : n % (MaxUsize + 1) = n
    BY <1>1
  <2>3. QED
    BY <2>1, <2>2 DEF WrappingAdd
<1>5. SubSeq(seq, 1, start) \o SubSeq(seq, start + 1, next) = SubSeq(seq, 1, next)
  <2>1. /\ 1 \in 1..(Len(seq) + 1) /\ start \in (1 - 1)..Len(seq)
        /\ next \in start..Len(seq)
    BY <1>1
  <2>2. QED
    BY <2>1, ConcatAdjacentSubSeq
<1>6. Emitted(seq, start) = SubSeq(seq, 1, start) /\ Emitted(seq, start + VectorSize) = SubSeq(seq, 1, next)
  BY <1>1 DEF Emitted
<1>7. /\ ChunkBounds(Len(seq), start, VectorSize).from = start
      /\ ChunkBounds(Len(seq), start, VectorSize).to = next
  BY <1>2
<1>8. QED
  BY <1>2, <1>3, <1>4, <1>5, <1>6, <1>7

\* A query whose own state is unchanged keeps the invariant.
LEMMA UntouchedKeepsList ==
    ASSUME NEW q \in Queries, ListInv(q), pc'[q] = pc[q], cmd'[q] = cmd[q],
           output'[q] = output[q], rows'[q] = rows[q], offset'[q] = offset[q]
    PROVE  ListInv(q)'
BY DEF ListInv, Listing

\* A step of one query touches no other.
LEMMA TouchesItsOwn ==
    ASSUME PagesInv, NEW q \in Queries,
           Func(q) \/ Call(q) \/ Abandon(q) \/ \E c \in Command : Begin(q, c)
    PROVE  /\ DOMAIN output' = Queries /\ DOMAIN rows' = Queries
           /\ \A r \in Queries \ {q} :
                /\ pc'[r] = pc[r] /\ cmd'[r] = cmd[r] /\ offset'[r] = offset[r]
                /\ output'[r] = output[r] /\ rows'[r] = rows[r]
<1> DEFINE Same(f, g) == DOMAIN g = DOMAIN f /\ \A r \in DOMAIN f \ {q} : g[r] = f[r]
<1>1. ASSUME NEW f, NEW g, g = f \/ \E v : g = Set(f, q, v)
      PROVE  Same(f, g)
  BY <1>1 DEF Set
<1>2. /\ pc' = pc \/ \E v : pc' = Set(pc, q, v)
      /\ cmd' = cmd \/ \E v : cmd' = Set(cmd, q, v)
      /\ offset' = offset \/ \E v : offset' = Set(offset, q, v)
      /\ output' = output \/ \E v : output' = Set(output, q, v)
      /\ rows' = rows \/ \E v : rows' = Set(rows, q, v)
  <2>1. CASE Func(q)
    BY <2>1, Zenon DEF Func, PullOnce, PullDone, PullPage, Goto, Set
  <2>2. CASE Call(q)
    BY <2>2, Zenon DEF Call, Start, Receive, ReceiveAny, ServeReturns, CallFails, Stop,
       CallRefused, List, ListUnavailable, Visit, Listed, Goto, Set
  <2>3. CASE Abandon(q) \/ \E c \in Command : Begin(q, c)
    BY <2>3, Zenon DEF Abandon, Begin, Goto, Set
  <2>4. QED
    BY <2>1, <2>2, <2>3
<1>3. Same(pc, pc') /\ Same(cmd, cmd') /\ Same(offset, offset') /\ Same(output, output') /\ Same(rows, rows')
  BY <1>1, <1>2
<1>4. /\ DOMAIN pc = Queries /\ DOMAIN cmd = Queries /\ DOMAIN offset = Queries
      /\ DOMAIN output = Queries /\ DOMAIN rows = Queries
  BY DEF PagesInv, TypeInv, TypeOK
<1>5. QED
  BY <1>3, <1>4

\* The next page follows the rows before it, and the end comes after the last.
LEMMA PageKeepsList ==
    ASSUME PagesInv, NEW q \in Queries, PullPage(q)
    PROVE  ListInv(q)'
<1> DEFINE seq == output[q]
           bounds == ChunkBounds(Len(seq), offset[q], VectorSize)
           page == SubSeq(seq, bounds.from + 1, bounds.to)
<1>1. /\ pc[q] = "pull" /\ cmd[q] \in Command /\ cmd[q].op = "servers"
      /\ pc \in [Queries -> Wheres] /\ offset \in [Queries -> 0..MaxUsize]
      /\ cmd' = cmd /\ output' = output
  BY DEF PullPage, PagesInv, TypeInv, TypeOK, CommandInv, Wheres
<1>2. ListInv(q) /\ DOMAIN rows = Queries
  BY DEF PagesInv
<1>3. offset'[q] = WrappingAdd(offset[q], VectorSize)
  BY <1>1 DEF PullPage, Set
<1>4. CASE pc'[q] = "failed"
  BY <1>4 DEF ListInv, Listing
<1>5. /\ seq \in Seq(Snapshot) /\ Len(seq) \in Nat /\ offset[q] \in Nat
      /\ Len(seq) + VectorSize <= MaxUsize => rows[q] = Emitted(seq, offset[q])
  <2>1. Listing(q)
    BY <1>1 DEF Listing
  <2>2. seq \in Seq(Snapshot)
        /\ (Len(seq) + VectorSize <= MaxUsize => rows[q] = Emitted(seq, offset[q]))
    BY <1>1, <1>2, <2>1 DEF ListInv
  <2>3. QED
    BY <1>1, <2>2, LenProperties, SizeAssumption
<1>6. CASE bounds = None
  <2>1. pc'[q] = "end" /\ rows' = rows
    BY <1>1, <1>6 DEF PullPage, Goto
  <2>2. ASSUME Len(seq) + VectorSize <= MaxUsize PROVE rows[q] = seq
    <3>1. offset[q] >= Len(seq)
      BY <1>5, <1>6, <2>2, PageContinues
    <3>2. QED
      BY <1>5, <2>2, <3>1, EmittedProperties
  <2>3. QED
    BY <1>1, <1>5, <2>1, <2>2 DEF ListInv, Listing
<1>7. CASE bounds # None /\ Printable(page)
  <2>1. pc' = pc /\ rows' = Set(rows, q, rows[q] \o page)
    BY <1>7 DEF PullPage
  <2>2. rows'[q] = rows[q] \o page
    BY <1>2, <2>1 DEF Set
  <2>3. ASSUME Len(seq) + VectorSize <= MaxUsize
        PROVE  rows'[q] = Emitted(seq, offset'[q])
    <3>1. offset[q] < Len(seq)
      BY <1>5, <1>7, <2>3 DEF ChunkBounds
    <3>2. QED
      BY <1>3, <1>5, <2>2, <2>3, <3>1, PageContinues
  <2>4. QED
    BY <1>1, <1>5, <2>1, <2>3 DEF ListInv, Listing
<1>8. CASE bounds # None /\ ~Printable(page)
  <2>1. pc'[q] = "failed"
    BY <1>1, <1>8 DEF PullPage, Goto
  <2>2. QED
    BY <1>4, <2>1
<1>9. QED
  BY <1>6, <1>7, <1>8

\* What a provider's server becomes in a list is an error or a row.
LEMMA VisitedIsRow ==
    ASSUME NEW server \in Server
    PROVE  LET name == ProtocolName(server.protocol)
               address == BorrowedString(server.address)
           IN  Err \in {name, address} \/ Row(name, address) \in Snapshot
<1>1. ProtocolName(server.protocol) \in {"pgwire", "flight", "http", "quack"} \cup {Err}
  <2>1. CASE server.protocol \in 1..4
    BY <2>1 DEF ProtocolName
  <2>2. CASE server.protocol \notin 1..4
    BY <2>2 DEF ProtocolName
  <2>3. QED
    BY <2>1, <2>2
<1>2. server.address \in Bytes
  BY StringsRoundTrip DEF Server, Addresses, Bytes
<1>3. BorrowedString(server.address) \in Texts \cup {Err}
  BY <1>2, TextAssumption DEF Bytes, BorrowedString
<1>4. QED
  BY <1>1, <1>3 DEF Row, Snapshot

\* A query that visits servers keeps what it has seen.
LEMMA VisitKeepsList ==
    ASSUME PagesInv, NEW q \in Queries, Visit(q)
    PROVE  ListInv(q)'
<1>1. /\ pc[q] = "visit" /\ pc \in [Queries -> Wheres] /\ todo[q] \subseteq Server
      /\ cmd' = cmd /\ rows' = rows /\ offset' = offset
  BY DEF Visit, PagesInv, TypeInv, TypeOK, Wheres
<1>2. output[q] = Err \/ output[q] \in Seq(Snapshot)
  BY <1>1 DEF PagesInv, ListInv
<1>3. rows[q] = <<>> /\ offset[q] = 0
  BY <1>1 DEF PagesInv, ListInv
<1>4. pc'[q] \in {"visit", "failed"}
  BY <1>1 DEF Visit, CallFails, Goto
<1>5. PICK server \in Server :
        output' = Set(output, q, Visited(q, ProtocolName(server.protocol),
                                            BorrowedString(server.address)))
  BY <1>1, Zenon DEF Visit
<1>6. output'[q] = Visited(q, ProtocolName(server.protocol), BorrowedString(server.address))
  BY <1>5 DEF Set, PagesInv
<1>7. output'[q] = Err \/ output'[q] \in Seq(Snapshot)
  BY <1>2, <1>6, VisitedIsRow, AppendProperties DEF Visited
<1>8. QED
  BY <1>1, <1>3, <1>4, <1>7 DEF ListInv, Listing

\* A call of func, whatever the function, keeps the lists.
LEMMA FuncKeepsList ==
    ASSUME PagesInv, NEW q \in Queries, Func(q) \/ Abandon(q) \/ \E c \in Command : Begin(q, c)
    PROVE  ListInv(q)'
<1>1. ListInv(q) /\ pc \in [Queries -> Wheres] /\ cmd \in [Queries -> Command \cup {None}]
  BY DEF PagesInv, TypeInv, TypeOK, Wheres
<1>2. CASE PullOnce(q)
  BY <1>1, <1>2 DEF PullOnce, Goto, ListInv, Listing
<1>3. CASE PullDone(q)
  BY <1>1, <1>3 DEF PullDone, Goto, ListInv, Listing
<1>4. CASE PullPage(q)
  BY <1>4, PageKeepsList
<1>5. CASE Abandon(q)
  BY <1>1, <1>5 DEF Abandon, Goto, ListInv, Listing
<1>6. ASSUME NEW c \in Command, Begin(q, c) PROVE ListInv(q)'
  <2>1. pc[q] = "new" /\ cmd'[q] = c /\ rows' = rows /\ offset' = offset
    BY <1>1, <1>6 DEF Begin, Set
  <2>2. pc'[q] = IF c.op = "servers" THEN "list" ELSE "pull"
    BY <1>1, <1>6 DEF Begin, Goto
  <2>3. QED
    BY <1>1, <2>1, <2>2 DEF ListInv, Listing
<1>7. QED
  BY <1>2, <1>3, <1>4, <1>5, <1>6 DEF Func

\* So does a call of the provider.
LEMMA CallKeepsList ==
    ASSUME PagesInv, NEW q \in Queries, Call(q)
    PROVE  ListInv(q)'
<1>1. /\ ListInv(q) /\ pc \in [Queries -> Wheres] /\ offset \in [Queries -> 0..MaxUsize]
      /\ pc[q] \in {"serve", "receive"} => cmd[q].op = "serve"
      /\ pc[q] = "stop" => cmd[q].op = "stop"
      /\ DOMAIN output = Queries
  BY DEF PagesInv, TypeInv, TypeOK, CommandInv, Wheres
<1>2. <<>> \in Seq(Snapshot) /\ Emitted(<<>>, 0) = <<>>
  BY EmptySeq, EmittedProperties
<1>3. CASE Start(q)
  BY <1>1, <1>3 DEF Start, Goto, ListInv, Listing
<1>4. CASE Receive(q) \/ ReceiveAny(q)
  <2>1. pc[q] = "receive" /\ (Goto(q, "pull") \/ Goto(q, "failed")) /\ cmd' = cmd
    BY <1>4, Zenon DEF Receive, ReceiveAny, ServeReturns, CallFails
  <2>2. QED
    BY <1>1, <2>1 DEF Goto, ListInv, Listing
<1>5. CASE Stop(q)
  BY <1>1, <1>5 DEF Stop, Goto, ListInv, Listing
<1>6. CASE CallRefused(q)
  BY <1>1, <1>6 DEF CallRefused, CallFails, Goto, ListInv, Listing
<1>7. CASE List(q)
  BY <1>1, <1>2, <1>7 DEF List, Goto, Set, ListInv, Listing
<1>8. CASE ListUnavailable(q)
  BY <1>1, <1>2, <1>8 DEF ListUnavailable, Goto, Set, ListInv, Listing
<1>9. CASE Visit(q)
  BY <1>9, VisitKeepsList
<1>10. CASE Listed(q)
  <2>1. pc'[q] = "failed" \/ output[q] \in Seq(Snapshot)
    BY <1>1, <1>10 DEF Listed, Goto, ListInv
  <2>2. output[q] \in Seq(Snapshot) => Emitted(output[q], 0) = <<>>
    BY EmittedProperties
  <2>3. QED
    BY <1>1, <1>10, <2>1, <2>2 DEF Listed, Goto, ListInv, Listing
<1>11. QED
  BY <1>3, <1>4, <1>5, <1>6, <1>7, <1>8, <1>9, <1>10 DEF Call

\* Every step keeps every list.
LEMMA PagesStep == PagesInv /\ [Next]_vars => PagesInv'
<1> SUFFICES ASSUME PagesInv, [Next]_vars PROVE PagesInv'
  OBVIOUS
<1>1. TypeInv'
  BY TypeStep DEF PagesInv
<1>2. ASSUME NEW q \in Queries,
             Func(q) \/ Call(q) \/ Abandon(q) \/ \E c \in Command : Begin(q, c)
      PROVE  PagesInv'
  <2>1. ListInv(q)'
    BY <1>2, FuncKeepsList, CallKeepsList
  <2>2. ASSUME NEW r \in Queries \ {q} PROVE ListInv(r)'
    BY <1>2, <2>2, TouchesItsOwn, UntouchedKeepsList DEF PagesInv
  <2>3. QED
    BY <1>1, <1>2, <2>1, <2>2, TouchesItsOwn DEF PagesInv
<1>3. CASE UNCHANGED <<pc, cmd, output, rows, offset>>
  BY <1>1, <1>3, UntouchedKeepsList DEF PagesInv
<1>4. QED
  BY <1>2, <1>3 DEF Next, Load, vars

\* duckflight_servers() emits its snapshots page after page, none twice and none
\* left out, for any number of servers, any vector size and any width of usize.
THEOREM PagesCorrect == Spec => []PagesInOrder
<1>1. Init => PagesInv
  <2> SUFFICES ASSUME Init PROVE PagesInv
    OBVIOUS
  <2>1. ASSUME NEW q \in Queries PROVE ListInv(q)
    BY DEF Init, ListInv, Listing
  <2>2. QED
    BY <2>1, TypeInit DEF Init, PagesInv
<1>2. PagesInv => PagesInOrder
  <2> SUFFICES ASSUME PagesInv, NEW q \in Queries, Listing(q),
                      Len(output[q]) + VectorSize <= MaxUsize
               PROVE  IsPrefix(rows[q], output[q]) /\ (pc[q] = "end" => rows[q] = output[q])
    BY DEF PagesInOrder
  <2>1. /\ output[q] \in Seq(Snapshot) /\ offset[q] \in Nat
        /\ IF pc[q] = "end" THEN rows[q] = output[q] ELSE rows[q] = Emitted(output[q], offset[q])
    BY SizeAssumption DEF PagesInv, ListInv, TypeInv, TypeOK
  <2>2. rows[q] = output[q] => IsPrefix(rows[q], output[q])
    BY <2>1, LenProperties DEF IsPrefix
  <2>3. QED
    BY <2>1, <2>2, EmittedProperties
<1>3. QED
  BY <1>1, <1>2, PagesStep, PTL DEF Spec
=============================================================================
