---------------------------- MODULE CoreLifetime ----------------------------
(***************************************************************************)
(* The life of the dynamic core in the extension: src/dynamic_core.rs and  *)
(* the end of src/lib.rs.  Several databases of one process LOAD the       *)
(* extension.  Each load writes the bundled core into a memory file, opens *)
(* it as a library through /proc/self/fd (an external build opens the      *)
(* configured path), checks its API table, creates a handle and registers  *)
(* its functions, each of which holds the Arc of the state.  A load that   *)
(* fails registers an unavailable core instead.  When the last Arc is      *)
(* dropped the handle is destroyed, the library unloaded and the memory    *)
(* file closed.                                                            *)
(*                                                                         *)
(* The loader and DuckDB are external: a library that is open under a path *)
(* is opened again when that path is opened, whatever file it names now;   *)
(* DuckDB closes a database, and drops its functions one after the other,  *)
(* when no query of it is running.                                         *)
(***************************************************************************)
EXTENDS Naturals, Sequences

CONSTANTS
    Loads,      \* the databases that load the extension, once each
    Threads,    \* the threads that run queries
    Fds,        \* descriptor numbers
    Functions,  \* bound: how many functions are registered (seven in the code)
    Builds,     \* of "bundled" and "external"
    Configured, \* the path in DUCKFLIGHT_CORE_PATH
    None

ASSUME FunctionsAssumption == Functions \in Nat \ {0}
ASSUME BuildsAssumption == Builds \subseteq {"bundled", "external"}
ASSUME NoneAssumption == None \notin Loads \cup Fds /\ Configured \notin Fds

VARIABLES
    build,    \* how the extension was built
    pc,       \* pc[i]: where load i is
    bundle,   \* bundle[i]: the descriptor of its memory file
    library,  \* library[i]: the load whose bytes its library is
    holders,  \* holders[path]: the loads that have the library of that path open
    handle,   \* handle[i]: the core of load i
    core,     \* core[i]: the runtime its functions use
    arcs,     \* arcs[i]: the strong count of its Arc<ExtensionState>
    todo,     \* todo[i]: what is still to be dropped, in this order
    at        \* at[t]: the load whose function thread t runs

vars == <<build, pc, bundle, library, holders, handle, core, arcs, todo, at>>

Paths == Fds \cup {Configured}

Path(i) == IF build = "bundled" THEN bundle[i] ELSE Configured

Resources == {"library", "bundle"}

\* The loads, their resources and their counts are well formed: no Arc is dropped
\* twice.
TypeOK ==
    /\ build \in Builds
    /\ pc \in [Loads -> {"start", "open", "resolve", "validate", "create", "discard",
                         "register", "loaded", "closing", "destroy", "drop", "gone"}]
    /\ bundle \in [Loads -> Fds \cup {None}]
    /\ library \in [Loads -> Loads \cup {None}]
    /\ holders \in [Paths -> SUBSET Loads]
    /\ handle \in [Loads -> {"none", "live", "destroyed"}]
    /\ core \in [Loads -> {"none", "dynamic", "unavailable"}]
    /\ arcs \in [Loads -> 0..(Functions + 1)]
    /\ todo \in [Loads -> {<<>>} \cup {<<r>> : r \in Resources}
                                 \cup {<<r, s>> : r \in Resources, s \in Resources}]
    /\ at \in [Threads -> Loads \cup {None}]

Init ==
    /\ build \in Builds
    /\ pc = [i \in Loads |-> "start"]
    /\ bundle = [i \in Loads |-> None]
    /\ library = [i \in Loads |-> None]
    /\ holders = [path \in Paths |-> {}]
    /\ handle = [i \in Loads |-> "none"]
    /\ core = [i \in Loads |-> "none"]
    /\ arcs = [i \in Loads |-> 0]
    /\ todo = [i \in Loads |-> <<>>]
    /\ at = [t \in Threads |-> None]

-----------------------------------------------------------------------------
Goto(i, where) == pc' = [pc EXCEPT ![i] = where]

\* The state that is registered next, and the first Arc of it.
State(i, runtime) ==
    /\ core' = [core EXCEPT ![i] = runtime]
    /\ arcs' = [arcs EXCEPT ![i] = 1]
    /\ Goto(i, "register")

\* The fields of DynamicCore, dropped in the order of their declaration.
BundleFieldFirst == <<"bundle", "library">>
FieldOrder == <<"library", "bundle">>

\* The library and the bundle as locals of load_bundled and as parameters of
\* initialize, dropped in the reverse order of their declaration.
LocalOrder == <<"bundle", "library">>

\* prepare_bundle: a sealed memory file under any free descriptor.
Prepare(i) ==
    /\ pc[i] = "start"
    /\ IF build = "bundled"
       THEN \E fd \in Fds : /\ \A j \in Loads : bundle[j] # fd
                            /\ bundle' = [bundle EXCEPT ![i] = fd]
       ELSE UNCHANGED bundle
    /\ Goto(i, "open")
    /\ UNCHANGED <<build, library, holders, handle, core, arcs, todo, at>>

\* The memory file cannot be made, or DUCKFLIGHT_CORE_PATH is not set.
PrepareFails(i) ==
    /\ pc[i] = "start"
    /\ State(i, "unavailable")
    /\ UNCHANGED <<build, bundle, library, holders, handle, todo, at>>

\* Library::new: a path under which a library is open gives that library.
Open(i) ==
    /\ pc[i] = "open"
    /\ library' = [library EXCEPT ![i] =
           IF holders[Path(i)] = {} THEN i ELSE library[CHOOSE j \in holders[Path(i)] : TRUE]]
    /\ holders' = [holders EXCEPT ![Path(i)] = @ \cup {i}]
    /\ Goto(i, "resolve")
    /\ UNCHANGED <<build, bundle, handle, core, arcs, todo, at>>

OpenFails(i) ==
    /\ pc[i] = "open"
    /\ bundle' = [bundle EXCEPT ![i] = None]
    /\ State(i, "unavailable")
    /\ UNCHANGED <<build, library, holders, handle, todo, at>>

\* The entry point is found and called, and gives the API table.
Resolve(i) ==
    /\ pc[i] = "resolve"
    /\ Goto(i, "validate")
    /\ UNCHANGED <<build, bundle, library, holders, handle, core, arcs, todo, at>>

\* The header, the version and the entries of the table are right.
Validate(i) ==
    /\ pc[i] = "validate"
    /\ Goto(i, "create")
    /\ UNCHANGED <<build, bundle, library, holders, handle, core, arcs, todo, at>>

Create(i) ==
    /\ pc[i] = "create"
    /\ handle' = [handle EXCEPT ![i] = "live"]
    /\ State(i, "dynamic")
    /\ UNCHANGED <<build, bundle, library, holders, todo, at>>

\* Any of the three fails; create then has made no handle.
InitializeFails(i) ==
    /\ pc[i] \in {"resolve", "validate", "create"}
    /\ todo' = [todo EXCEPT ![i] = LocalOrder]
    /\ Goto(i, "discard")
    /\ UNCHANGED <<build, bundle, library, holders, handle, core, arcs, at>>

\* The next local or field is dropped.
Dispose(i) ==
    /\ todo[i] # <<>>
    /\ todo' = [todo EXCEPT ![i] = Tail(@)]
    /\ IF Head(todo[i]) = "library"
       THEN /\ library' = [library EXCEPT ![i] = None]
            /\ holders' = [path \in Paths |-> holders[path] \ {i}]
            /\ UNCHANGED bundle
       ELSE /\ bundle' = [bundle EXCEPT ![i] = None]
            /\ UNCHANGED <<library, holders>>
    /\ UNCHANGED <<build, pc, handle, core, arcs, at>>

\* The error is reported as an unavailable core.
Discarded(i) ==
    /\ pc[i] = "discard" /\ todo[i] = <<>>
    /\ State(i, "unavailable")
    /\ UNCHANGED <<build, bundle, library, holders, handle, todo, at>>

-----------------------------------------------------------------------------
(* Functions.                                                               *)

\* How many functions of load i can be called.
Registered(i) == IF pc[i] = "register" THEN arcs[i] - 1 ELSE arcs[i]

ReleaseEarly(i, where) ==
    /\ arcs' = [arcs EXCEPT ![i] = @ - 1]
    /\ Goto(i, IF arcs'[i] > 1 THEN where ELSE IF core[i] = "dynamic" THEN "destroy" ELSE "gone")

\* An Arc is dropped, and with the last one the core.
Release(i, where) ==
    /\ arcs' = [arcs EXCEPT ![i] = @ - 1]
    /\ Goto(i, IF arcs'[i] > 0 THEN where ELSE IF core[i] = "dynamic" THEN "destroy" ELSE "gone")

Register(i) ==
    /\ pc[i] = "register" /\ Registered(i) < Functions
    /\ arcs' = [arcs EXCEPT ![i] = @ + 1]
    /\ UNCHANGED <<build, pc, bundle, library, holders, handle, core, todo, at>>

RegisterFailsAgain(i) ==
    /\ pc[i] = "register" /\ Registered(i) < Functions
    /\ arcs' = [arcs EXCEPT ![i] = @ - 1]
    /\ UNCHANGED <<build, pc, bundle, library, holders, handle, core, todo, at>>

\* LOAD fails, and what was registered before stays.
RegisterFails(i) ==
    /\ pc[i] = "register" /\ Registered(i) < Functions
    /\ Release(i, "loaded")
    /\ UNCHANGED <<build, bundle, library, holders, handle, core, todo, at>>

\* LOAD succeeds; register_extension drops its own Arc.
Loaded(i) ==
    /\ pc[i] = "register" /\ Registered(i) = Functions
    /\ Release(i, "loaded")
    /\ UNCHANGED <<build, bundle, library, holders, handle, core, todo, at>>

\* A query runs a function; a registered one may be called before LOAD is done.
Call(t, i) ==
    /\ at[t] = None
    /\ pc[i] \in {"register", "loaded"} /\ Registered(i) > 0
    /\ at' = [at EXCEPT ![t] = i]
    /\ UNCHANGED <<build, pc, bundle, library, holders, handle, core, arcs, todo>>

Return(t) ==
    /\ at[t] # None
    /\ at' = [at EXCEPT ![t] = None]
    /\ UNCHANGED <<build, pc, bundle, library, holders, handle, core, arcs, todo>>

\* The database is closed once no query runs, and drops its functions.
Close(i) ==
    /\ pc[i] = "loaded" /\ \A t \in Threads : at[t] # i
    /\ Goto(i, "closing")
    /\ UNCHANGED <<build, bundle, library, holders, handle, core, arcs, todo, at>>

DropFunction(i) ==
    /\ pc[i] = "closing"
    /\ Release(i, "closing")
    /\ UNCHANGED <<build, bundle, library, holders, handle, core, todo, at>>

DestroyForgotten(i) ==
    /\ pc[i] = "destroy"
    /\ todo' = [todo EXCEPT ![i] = FieldOrder]
    /\ Goto(i, "drop")
    /\ UNCHANGED <<build, bundle, library, holders, handle, core, arcs, at>>

\* Drop::drop of DynamicCore; its fields are dropped after it.
Destroy(i) ==
    /\ pc[i] = "destroy"
    /\ handle' = [handle EXCEPT ![i] = "destroyed"]
    /\ todo' = [todo EXCEPT ![i] = FieldOrder]
    /\ Goto(i, "drop")
    /\ UNCHANGED <<build, bundle, library, holders, core, arcs, at>>

Dropped(i) ==
    /\ pc[i] = "drop" /\ todo[i] = <<>>
    /\ Goto(i, "gone")
    /\ UNCHANGED <<build, bundle, library, holders, handle, core, arcs, todo, at>>

-----------------------------------------------------------------------------
Load(i) == \/ Prepare(i) \/ PrepareFails(i) \/ Open(i) \/ OpenFails(i)
           \/ Resolve(i) \/ Validate(i) \/ Create(i) \/ InitializeFails(i)
           \/ Dispose(i) \/ Discarded(i)
           \/ Register(i) \/ RegisterFails(i) \/ Loaded(i)

Unload(i) == DropFunction(i) \/ Destroy(i) \/ Dropped(i)

Next == \/ \E i \in Loads : Load(i) \/ Close(i) \/ Unload(i)
        \/ \E t \in Threads : Return(t) \/ \E i \in Loads : Call(t, i)

Spec == Init /\ [][Next]_vars

-----------------------------------------------------------------------------
(* Properties.                                                              *)

IsOpen(i) == \E path \in Paths : i \in holders[path]

\* While the extension runs code of its provider or holds its API table (a query
\* in a function, the steps of initialize, destroy), its library is open; and a
\* query never meets a handle that was destroyed, even after a LOAD that failed
\* half-way through its registrations.
CallsAreBacked ==
    /\ \A t \in Threads : at[t] # None /\ core[at[t]] = "dynamic" =>
           handle[at[t]] = "live" /\ IsOpen(at[t])
    /\ \A i \in Loads : pc[i] \in {"resolve", "validate", "create", "destroy"} => IsOpen(i)

\* A bundled core runs the bytes of its own memory file.  Only a load that failed
\* after its library was opened can lend its library to another one.
LibraryIsOwn ==
    build = "bundled" => \A i \in Loads :
        library[i] \in {None, i} \/ core[library[i]] = "unavailable"
                                 \/ pc[library[i]] = "discard"

\* A core that is gone, and one whose load has failed at any step, leaves no open
\* library, no memory file and no live handle behind.
NothingLeft ==
    \A i \in Loads : pc[i] = "gone" \/ core[i] = "unavailable" =>
        ~IsOpen(i) /\ bundle[i] = None /\ handle[i] # "live"

\* "The backing file or descriptor remains alive until after the core handle is
\* destroyed and the library is unloaded." (docs/BUNDLED_CORE.md)
BundleOutlivesLibrary ==
    build = "bundled" => \A i \in Loads : IsOpen(i) => bundle[i] # None
=============================================================================
