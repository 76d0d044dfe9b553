-------------------------- MODULE ServerFunctions --------------------------
(***************************************************************************)
(* The table functions of src/lib.rs, the calls of src/dynamic_core.rs     *)
(* they end in, and the provider behind them.  A query binds and           *)
(* initialises its function, and then DuckDB calls func until a call emits *)
(* no row, fails, or nobody wants more rows.  Several queries run at once; *)
(* the calls of one come one after the other (the functions do not ask for *)
(* more than one thread).                                                  *)
(*                                                                         *)
(* The provider is the mock core of test/mock_core, or another one that    *)
(* also synchronises its table, but may refuse a call, know protocols this *)
(* extension does not, report an address no row can show or no address at  *)
(* all, ignore what a callback answers, and fail after it has started.     *)
(***************************************************************************)
EXTENDS CoreAbi, SequencesExt

CONSTANTS
    Queries,
    Serves,         \* protocols whose serve function is used
    StopNames,      \* protocol names given to duckflight_stop
    Requested,      \* addresses given to serve and stop
    Ephemeral,      \* those of them that end with ":0"
    Known,          \* the address the mock core binds for one of these
    Unprintable,    \* addresses with a NUL, which only a provider can make up
    VectorSize,     \* rows of an output vector
    MessageSizes,   \* lengths of a provider's diagnostics
    Tables,         \* API tables a library may return
    Earlier,        \* what another provider may have in its table at first
    Providers       \* of "mock" and "other"

ASSUME AddressAssumption ==
    /\ Requested \cup {Known} \cup Unprintable \subseteq Texts
    /\ Ephemeral \subseteq Requested /\ Unprintable \cap (Requested \cup {Known}) = {}
ASSUME UseAssumption ==
    /\ Serves \subseteq Protocols /\ Tables \subseteq Table
    /\ Providers \subseteq {"mock", "other"} /\ MessageSizes \subseteq Nat
    /\ Earlier \subseteq SUBSET [protocol : Nat, address : Addresses]
    /\ None \notin Queries
ASSUME VectorAssumption ==
    VectorSize \in Nat \ {0} /\ VectorSize <= MaxUsize

VARIABLES
    provider, table,    \* what is loaded, chosen once
    core,       \* the CoreRuntime of the extension
    servers,    \* the provider's table; start retains the others and pushes, so that
                \* no listener is in it twice, and its order is left open
    lock,       \* the query whose call holds the Mutex
    pc,         \* pc[q]: where query q is
    cmd,        \* cmd[q]: its function and arguments
    done,       \* done[q]: EmitOnce
    output,     \* output[q]: the context of its callback, then its snapshots
    todo,       \* todo[q]: the servers its visitor has yet to see
    offset,     \* offset[q]: ServerListInit
    rows,       \* rows[q]: what DuckDB got from it
    error       \* error[q]: the error of a provider's call

library == <<provider, table, core>>
shared == <<servers, lock>>
vars == <<library, shared, pc, cmd, done, output, todo, offset, rows, error>>

-----------------------------------------------------------------------------
Server == [protocol : Nat, address : Addresses]

\* "protocol" is a parameter of define_serve!, a varchar of duckflight_stop.
Command == [op : {"serve"}, protocol : Serves, address : Requested]
           \cup [op : {"stop"}, protocol : StopNames, address : Requested]
           \cup [op : {"servers", "status"}]

\* bound_address of the mock core; an address that was bound is not ephemeral.
BoundAddress(address) == IF address \in Ephemeral THEN Known ELSE address

\* The listener a serve or stop command is about.
Target(c) == IF c.op = "serve"
             THEN [protocol |-> AbiProtocol[c.protocol],
                   address |-> FromUtf8(BoundAddress(c.address))]
             ELSE [protocol |-> AbiProtocol[Parse(c.protocol)], address |-> FromUtf8(c.address)]

Row(protocol, address) == [protocol |-> protocol, address |-> address]

Ended == {"end", "failed", "abandoned"}
Inside == {"receive", "visit"}

\* Queries, rows and the provider's table are well formed, and the Mutex is held
\* exactly by the call that is in a callback.
TypeOK ==
    /\ provider \in Providers /\ table \in Tables \cup {None}
    /\ core \in {"none", "dynamic", "unavailable"}
    /\ servers \subseteq Server
    /\ lock \in Queries \cup {None}
    /\ pc \in [Queries -> {"new", "pull", "serve", "stop", "list"} \cup Inside \cup Ended]
    /\ \A q \in Queries : lock = q <=> pc[q] \in Inside
    /\ cmd \in [Queries -> Command \cup {None}]
    /\ done \in [Queries -> BOOLEAN]
    /\ offset \in [Queries -> 0..MaxUsize]
    /\ todo \in [Queries -> SUBSET Server]

Init ==
    /\ provider \in Providers
    /\ table \in Tables
    /\ core = "none"
    /\ servers = {}
    /\ lock = None
    /\ pc = [q \in Queries |-> "new"]
    /\ cmd = [q \in Queries |-> None]
    /\ done = [q \in Queries |-> FALSE]
    /\ output = [q \in Queries |-> None]
    /\ todo = [q \in Queries |-> {}]
    /\ offset = [q \in Queries |-> 0]
    /\ rows = [q \in Queries |-> <<>>]
    /\ error = [q \in Queries |-> None]

-----------------------------------------------------------------------------
Goto(q, where) == pc' = [pc EXCEPT ![q] = where]
Set(f, q, value) == [f EXCEPT ![q] = value]

\* LOAD: a library whose table is refused, or whose create fails, is unloaded, and
\* an unavailable core takes its place.
Load ==
    /\ core = "none"
    /\ \/ /\ Examine(table).accepted
          /\ core' = "dynamic"
          /\ servers' \in IF provider = "mock" THEN {{}} ELSE Earlier
          /\ UNCHANGED table
       \/ /\ ~Examine(table).accepted \/ provider = "other"
          /\ core' = "unavailable" /\ table' = None
          /\ UNCHANGED servers
    /\ UNCHANGED <<provider, lock, pc, cmd, done, output, todo, offset, rows, error>>

\* bind and init; duckflight_servers takes its snapshots in init.
Begin(q, c) ==
    /\ pc[q] = "new" /\ core # "none"
    /\ cmd' = Set(cmd, q, c)
    /\ Goto(q, IF c.op = "servers" THEN "list" ELSE "pull")
    /\ UNCHANGED <<library, shared, done, output, todo, offset, rows, error>>

MarkLate(q) == done' = Set(done, q, done[q])

\* done.swap(true)
Mark(q) == done' = Set(done, q, TRUE)

\* func of a function that emits once: the first call goes to the core.
PullOnce(q) ==
    /\ pc[q] = "pull" /\ cmd[q].op # "servers" /\ ~done[q]
    /\ Mark(q)
    /\ \/ /\ cmd[q].op = "status"
          /\ rows' = Set(rows, q, <<core>>)
          /\ UNCHANGED pc
       \/ /\ cmd[q].op \in {"serve", "stop"}
          /\ IF core = "unavailable" \/ (cmd[q].op = "stop" /\ Parse(cmd[q].protocol) = Err)
               THEN Goto(q, "failed") ELSE Goto(q, cmd[q].op)
          /\ UNCHANGED rows
    /\ output' = Set(output, q, Err)
    /\ UNCHANGED <<library, shared, cmd, todo, offset, error>>

PullDoneRepeats(q) ==
    /\ pc[q] = "pull" /\ cmd[q].op # "servers" /\ done[q]
    /\ UNCHANGED vars

\* ... and a later one emits nothing, which ends the query.
PullDone(q) ==
    /\ pc[q] = "pull" /\ cmd[q].op # "servers" /\ done[q]
    /\ Goto(q, "end")
    /\ UNCHANGED <<library, shared, cmd, done, output, todo, offset, rows, error>>

\* set_string fails on a NUL.
Printable(page) == \A i \in DOMAIN page : page[i].address \notin Unprintable

\* func of duckflight_servers: the next page of its snapshots.
PullPage(q) ==
    /\ pc[q] = "pull" /\ cmd[q].op = "servers"
    /\ offset' = Set(offset, q, WrappingAdd(offset[q], VectorSize))
    /\ LET bounds == ChunkBounds(Len(output[q]), offset[q], VectorSize)
           page == SubSeq(output[q], bounds.from + 1, bounds.to)
       IN  IF bounds = None THEN Goto(q, "end") /\ UNCHANGED rows
           ELSE IF Printable(page) THEN rows' = Set(rows, q, rows[q] \o page) /\ UNCHANGED pc
           ELSE Goto(q, "failed") /\ UNCHANGED rows
    /\ UNCHANGED <<library, shared, cmd, done, output, todo, error>>

\* Nobody wants more rows: a LIMIT, an interrupt, a client that has gone.
Abandon(q) ==
    /\ pc[q] = "pull"
    /\ Goto(q, "abandoned")
    /\ UNCHANGED <<library, shared, cmd, done, output, todo, offset, rows, error>>

-----------------------------------------------------------------------------
(* Calls of the provider.                                                   *)

\* check_status: a call that did not return OK fails the query.
CallFails(q, status, size) ==
    /\ Goto(q, "failed")
    /\ error' = Set(error, q, [detail |-> Detail(status, WriteOutput(NewBuffer, size)),
                               status |-> status, size |-> size])

ReleaseForgotten(q) == lock' = q

\* The guard of the Mutex is dropped when the call returns.
Release(q) == lock' = None

\* start of the mock core: the listener replaces one with the same address, and
\* the receiver is called with the Mutex held.
Start(q) ==
    /\ pc[q] = "serve" /\ lock = None
    /\ lock' = q
    /\ servers' = servers \cup {Target(cmd[q])}
    /\ Goto(q, "receive")
    /\ UNCHANGED <<library, cmd, done, output, todo, offset, rows, error>>

\* DynamicCore::start and func, once the provider has returned: the status is
\* looked at first, then what the receiver has left, which is an error if it was
\* not called; then the row is written.
ServeReturns(q, status, size) ==
    /\ Release(q)
    /\ IF status # OK THEN CallFails(q, status, size) /\ UNCHANGED rows
       ELSE IF output'[q] \in {Err} \cup Unprintable THEN Goto(q, "failed") /\ UNCHANGED <<rows, error>>
       ELSE /\ rows' = Set(rows, q, <<Row(AsStr[cmd[q].protocol], output'[q])>>)
            /\ Goto(q, "pull")
            /\ UNCHANGED error
    /\ UNCHANGED <<library, servers, cmd, done, todo, offset>>

\* receive: its status is what the mock core's start returns.
Receive(q) ==
    /\ pc[q] = "receive" /\ provider = "mock"
    /\ LET value == BorrowedString(Target(cmd[q]).address)
       IN  /\ output' = Set(output, q, value)
           /\ ServeReturns(q, IF value = Err THEN INVALID_ARGUMENT ELSE OK, 0)

\* Another provider reports the address it has bound, or bytes that are no text a
\* row can show, or nothing, and returns any status.
ReceiveAny(q) ==
    /\ pc[q] = "receive" /\ provider = "other"
    /\ \/ UNCHANGED output
       \/ \E value \in {Target(cmd[q]).address}
                       \cup [data : {Null, NotUtf8} \cup Unprintable, len : {1}] :
             output' = Set(output, q, BorrowedString(value))
    /\ \E status \in {OK, INTERNAL}, size \in MessageSizes : ServeReturns(q, status, size)

\* stop of the mock core and the row it results in.
Stop(q) ==
    /\ pc[q] = "stop" /\ lock = None
    /\ servers' = servers \ {Target(cmd[q])}
    /\ rows' = Set(rows, q, <<IF servers' # servers THEN "stopped" ELSE "no">>)
    /\ Goto(q, "pull")
    /\ UNCHANGED <<library, lock, cmd, done, output, todo, offset, error>>

\* Another provider cannot bind or stop a listener, or list them.
CallRefused(q) ==
    /\ pc[q] \in {"serve", "stop", "list"} /\ lock = None
    /\ core = "dynamic" /\ provider = "other"
    /\ \E size \in MessageSizes : CallFails(q, INTERNAL, size)
    /\ UNCHANGED <<library, shared, cmd, done, output, todo, offset, rows>>

\* list: the visitor is called for each server with the Mutex held.
List(q) ==
    /\ pc[q] = "list" /\ core = "dynamic" /\ lock = None
    /\ lock' = q
    /\ todo' = Set(todo, q, servers)
    /\ output' = Set(output, q, <<>>)
    /\ Goto(q, "visit")
    /\ UNCHANGED <<library, servers, cmd, done, offset, rows, error>>

\* The unavailable core has no listeners.
ListUnavailable(q) ==
    /\ pc[q] = "list" /\ core = "unavailable"
    /\ output' = Set(output, q, <<>>)
    /\ Goto(q, "pull")
    /\ UNCHANGED <<library, shared, cmd, done, todo, offset, rows, error>>

\* visit: an item it cannot take makes the whole list an error, for good.
Visited(q, name, address) ==
    IF output[q] = Err \/ Err \in {name, address} THEN Err
    ELSE Append(output[q], Row(name, address))

\* The status of the visitor ends the mock core's list; another provider may go on.
Visit(q) ==
    /\ pc[q] = "visit"
    /\ \E server \in todo[q] :
       LET name == ProtocolName(server.protocol)
           address == BorrowedString(server.address)
       IN  /\ output' = Set(output, q, Visited(q, name, address))
           /\ \/ /\ output'[q] # Err \/ provider = "other"
                 /\ todo' = Set(todo, q, todo[q] \ {server})
                 /\ UNCHANGED <<lock, pc, error>>
              \/ /\ output'[q] = Err
                 /\ todo' = Set(todo, q, {})
                 /\ Release(q)
                 /\ CallFails(q, IF Err \in {name, address} THEN INVALID_ARGUMENT ELSE INTERNAL, 0)
    /\ UNCHANGED <<library, servers, cmd, done, offset, rows>>

\* list returns OK; an error of the visitor is found now.
Listed(q) ==
    /\ pc[q] = "visit" /\ todo[q] = {}
    /\ Release(q)
    /\ Goto(q, IF output[q] = Err THEN "failed" ELSE "pull")
    /\ UNCHANGED <<library, servers, cmd, done, output, todo, offset, rows, error>>

-----------------------------------------------------------------------------
Func(q) == PullOnce(q) \/ PullDone(q) \/ PullPage(q)

Call(q) == \/ Start(q) \/ Receive(q) \/ ReceiveAny(q) \/ Stop(q)
           \/ List(q) \/ ListUnavailable(q) \/ Visit(q) \/ Listed(q) \/ CallRefused(q)

Next == \/ Load
        \/ \E q \in Queries : \/ \E c \in Command : Begin(q, c)
                              \/ Func(q) \/ Call(q) \/ Abandon(q)

Spec == Init /\ [][Next]_vars

\* DuckDB pulls or abandons, a provider's call returns, and every query gets the
\* Mutex at last: only finitely many compete for it.
FairSpec == Spec /\ \A q \in Queries : WF_vars(Func(q) \/ Call(q))

-----------------------------------------------------------------------------
(* Properties.                                                              *)

\* A provider is called only through a table that holds every entry of version 1.
CallsAreSound ==
    core = "dynamic" => /\ table.abi_version = 1 /\ table.struct_size >= TableSize
                        /\ table.entries = Entries

\* Query q has its snapshots.
Listing(q) == pc[q] \in {"pull", "end", "abandoned"} /\ cmd[q].op = "servers"

\* The rows of duckflight_servers() are its snapshots, page after page, each once:
\* a prefix of them while it runs, and all of them when it has ended.  (More of them
\* than usize can count with a vector to spare do not fit into memory.)
PagesInOrder ==
    \A q \in Queries :
        Listing(q) /\ Len(output[q]) + VectorSize <= MaxUsize =>
            /\ IsPrefix(rows[q], output[q])
            /\ pc[q] = "end" => rows[q] = output[q]

\* The error of a call shows the provider's message whole, or says how long it is,
\* or gives the status if there is none; never a part of a message.
DiagnosticIsWhole ==
    \A q \in Queries : error[q] # None =>
        error[q].detail =
            IF error[q].size > ErrorCapacity THEN [says |-> "requires", size |-> error[q].size]
            ELSE IF error[q].size = 0 THEN [says |-> "status", size |-> error[q].status]
            ELSE [says |-> "message", size |-> error[q].size]

\* A serve query that fails has started nothing: with the mock core there is no way
\* out between its listener and its row.
FailedServeStartsNothing ==
    [][provider = "mock" => \A q \in Queries : pc[q] = "receive" => pc'[q] # "failed"]_vars

\* Every query that DuckDB goes on pulling is answered.
QueriesAreAnswered == \A q \in Queries : pc[q] # "new" ~> pc[q] \in Ended

\* The listener behind a row of duckflight_servers().
Listener(row) == [protocol |-> AbiProtocol[Parse(row.protocol)], address |-> FromUtf8(row.address)]

Phase(q) ==
    IF pc[q] = "new" \/ cmd[q].op = "status" THEN "idle"
    ELSE IF pc[q] \in Ended THEN "answered"
    ELSE IF pc[q] \in Inside \/ (pc[q] = "pull" /\ (cmd[q].op = "servers" \/ done[q]))
      THEN "effective"
    ELSE "called"

Asks(q) ==
    IF pc[q] = "new" \/ cmd[q].op = "status" THEN None
    ELSE [op |-> cmd[q].op,
          listener |-> IF \/ cmd[q].op = "servers"
                          \/ cmd[q].op = "stop" /\ Parse(cmd[q].protocol) = Err
                       THEN None ELSE Target(cmd[q])]

ListenersOf(list) == {Listener(list[i]) : i \in DOMAIN list}

Seen(q) == IF pc[q] = "receive" THEN Target(cmd[q])
           ELSE IF cmd[q].op = "serve" THEN Listener(rows[q][1])
           ELSE IF cmd[q].op = "stop" THEN rows[q] = <<"stopped">>
           ELSE IF pc[q] = "visit" THEN servers
           ELSE ListenersOf(IF pc[q] = "pull" THEN output[q] ELSE rows[q])

Result(q) == IF Phase(q) \in {"idle", "called"} THEN None
             ELSE IF pc[q] \in {"failed", "abandoned"} THEN Err ELSE Seen(q)

Registry == INSTANCE ListenerRegistry WITH
    Listeners <- Server, running <- servers, phase <- [q \in Queries |-> Phase(q)],
    asks <- [q \in Queries |-> Asks(q)], result <- [q \in Queries |-> Result(q)]

\* The functions keep the promise of ListenerRegistry: a serve, stop or list takes
\* effect once, at one moment between call and answer, however often func is called,
\* whatever other queries do, and what a query reports was true at that moment.
KeepsRegistry == Registry!Spec
=============================================================================
