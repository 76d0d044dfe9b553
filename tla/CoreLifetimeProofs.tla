------------------------- MODULE CoreLifetimeProofs -------------------------
(***************************************************************************)
(* Proofs about CoreLifetime for any number of databases, threads and      *)
(* descriptors.  LoadInv(i) says what load i owns in each of its states;   *)
(* no step of one load disturbs it for another, so that each action is     *)
(* looked at once, for the load that takes it.  ThreadInv ties the queries *)
(* to the counts, and SharingInv the libraries to the descriptors.         *)
(***************************************************************************)
EXTENDS CoreLifetime, TLAPS

Early == {"start", "open", "resolve", "validate", "create", "discard"}
Places == Early \cup {"register", "loaded", "closing", "destroy", "drop", "gone"}

\* What may still have to be dropped.
Orders == {LocalOrder, FieldOrder, <<"library">>, <<"bundle">>, <<>>}

Typed ==
    /\ build \in Builds
    /\ pc \in [Loads -> Places]
    /\ bundle \in [Loads -> Fds \cup {None}]
    /\ library \in [Loads -> Loads \cup {None}]
    /\ holders \in [Paths -> SUBSET Loads]
    /\ handle \in [Loads -> {"none", "live", "destroyed"}]
    /\ core \in [Loads -> {"none", "dynamic", "unavailable"}]
    /\ arcs \in [Loads -> 0..(Functions + 1)]
    /\ todo \in [Loads -> Orders]
    /\ at \in [Threads -> Loads \cup {None}]

Clean(i) == ~IsOpen(i) /\ bundle[i] = None /\ handle[i] # "live"

\* What load i owns while it is loading, discarding, in use, being dropped, gone.
LoadInv(i) ==
    /\ pc[i] \in Early => core[i] = "none" /\ arcs[i] = 0 /\ handle[i] = "none"
    /\ pc[i] \in {"start", "open"} => ~IsOpen(i)
    /\ pc[i] = "start" => bundle[i] = None
    /\ pc[i] = "open" /\ build = "bundled" => bundle[i] # None
    /\ pc[i] \in {"resolve", "validate", "create"} => IsOpen(i)
    /\ pc[i] \in {"register", "loaded", "closing"} => core[i] # "none" /\ arcs[i] >= 1
    /\ pc[i] \in {"loaded", "closing"} => arcs[i] <= Functions
    /\ pc[i] \in {"destroy", "drop"} => core[i] = "dynamic"
    /\ pc[i] \in {"register", "loaded", "closing", "destroy"} /\ core[i] = "dynamic" =>
           handle[i] = "live" /\ IsOpen(i)
    /\ pc[i] = "drop" => handle[i] = "destroyed"
    /\ pc[i] = "gone" \/ core[i] = "unavailable" => Clean(i)
    /\ pc[i] = "discard" => /\ todo[i] \in {LocalOrder, <<"library">>, <<>>}
                            /\ todo[i] # LocalOrder => bundle[i] = None
                            /\ todo[i] = <<>> => ~IsOpen(i)
    /\ pc[i] = "drop" => /\ todo[i] \in {FieldOrder, <<"bundle">>, <<>>}
                         /\ todo[i] # FieldOrder => ~IsOpen(i)
                         /\ todo[i] = <<>> => bundle[i] = None
    /\ pc[i] \notin {"discard", "drop"} => todo[i] = <<>>

\* A query is in a function that is registered.
ThreadInv == \A t \in Threads :
    at[t] # None => pc[at[t]] \in {"register", "loaded"} /\ Registered(at[t]) > 0

\* No two memory files have one descriptor, and a bundled library is open under its
\* own one, unless it is being discarded.
SharingInv ==
    /\ \A i, j \in Loads : bundle[i] = bundle[j] /\ bundle[i] # None => i = j
    /\ \A path \in Paths : \A i \in holders[path] :
          library[i] # None /\ (build = "bundled" => path = bundle[i] \/ pc[i] = "discard")

IInv == Typed /\ (\A i \in Loads : LoadInv(i)) /\ ThreadInv /\ SharingInv /\ LibraryIsOwn

LoadStep(i) == Load(i) \/ Close(i) \/ Unload(i)

\* A step leaves what LoadInv says of load j as it is.
Same(j) ==
    /\ pc'[j] = pc[j] /\ core'[j] = core[j] /\ arcs'[j] = arcs[j] /\ handle'[j] = handle[j]
    /\ bundle'[j] = bundle[j] /\ todo'[j] = todo[j]
    /\ IsOpen(j)' <=> IsOpen(j)

-----------------------------------------------------------------------------
\* Dropping the library of one load is a matter of that load alone.
LEMMA DisposeFacts ==
    ASSUME Typed, NEW i \in Loads, Dispose(i), LoadInv(i)
    PROVE  /\ pc[i] \in {"discard", "drop"} /\ pc' = pc
           /\ build' = build /\ core' = core /\ arcs' = arcs /\ handle' = handle /\ at' = at
           /\ todo' = [todo EXCEPT ![i] = todo'[i]] /\ \A j \in Loads \ {i} : todo'[j] = todo[j]
           /\ \/ /\ Head(todo[i]) = "library"
                 /\ bundle' = bundle /\ library' = [library EXCEPT ![i] = None]
                 /\ holders' = [path \in Paths |-> holders[path] \ {i}]
                 /\ \/ pc[i] = "discard" /\ todo[i] = <<"library">> /\ todo'[i] = <<>>
                    \/ pc[i] = "drop" /\ todo[i] = FieldOrder /\ todo'[i] = <<"bundle">>
              \/ /\ Head(todo[i]) = "bundle"
                 /\ bundle' = [bundle EXCEPT ![i] = None]
                 /\ library' = library /\ holders' = holders
                 /\ \/ pc[i] = "discard" /\ todo[i] = LocalOrder /\ todo'[i] = <<"library">>
                    \/ pc[i] = "drop" /\ todo[i] = <<"bundle">> /\ todo'[i] = <<>>
<1>1. pc[i] \in {"discard", "drop"} /\ todo[i] # <<>>
  BY DEF Dispose, LoadInv
<1>2. /\ pc' = pc /\ build' = build /\ core' = core /\ arcs' = arcs /\ handle' = handle
      /\ at' = at /\ todo' = [todo EXCEPT ![i] = Tail(todo[i])]
  BY DEF Dispose
<1>3. todo' = [todo EXCEPT ![i] = todo'[i]] /\ todo'[i] = Tail(todo[i]) /\ \A j \in Loads \ {i} : todo'[j] = todo[j]
  BY <1>2 DEF Typed
<1>4. CASE pc[i] = "discard" /\ todo[i] = LocalOrder
  <2>1. Head(todo[i]) = "bundle" /\ Tail(todo[i]) = <<"library">>
    BY <1>4 DEF LocalOrder
  <2>2. QED
    BY <1>2, <1>3, <1>4, <2>1 DEF Dispose
<1>5. CASE pc[i] = "discard" /\ todo[i] = <<"library">>
  <2>1. Head(todo[i]) = "library" /\ Tail(todo[i]) = <<>>
    BY <1>5
  <2>2. QED
    BY <1>2, <1>3, <1>5, <2>1 DEF Dispose
<1>6. CASE pc[i] = "drop" /\ todo[i] = FieldOrder
  <2>1. Head(todo[i]) = "library" /\ Tail(todo[i]) = <<"bundle">>
    BY <1>6 DEF FieldOrder
  <2>2. QED
    BY <1>2, <1>3, <1>6, <2>1 DEF Dispose
<1>7. CASE pc[i] = "drop" /\ todo[i] = <<"bundle">>
  <2>1. Head(todo[i]) = "bundle" /\ Tail(todo[i]) = <<>>
    BY <1>7
  <2>2. QED
    BY <1>2, <1>3, <1>7, <2>1 DEF Dispose
<1>8. QED
  BY <1>1, <1>4, <1>5, <1>6, <1>7 DEF LoadInv

\* What one drop does to the libraries and the descriptors.
LEMMA DisposeReleases ==
    ASSUME Typed, NEW i \in Loads, Dispose(i), LoadInv(i)
    PROVE  /\ pc' = pc /\ build' = build /\ core' = core /\ arcs' = arcs
           /\ handle' = handle /\ at' = at
           /\ \/ /\ bundle' = bundle /\ library' = [library EXCEPT ![i] = None]
                 /\ holders' = [path \in Paths |-> holders[path] \ {i}]
              \/ /\ bundle' = [bundle EXCEPT ![i] = None]
                 /\ library' = library /\ holders' = holders
BY DisposeFacts

\* The step of a load changes nothing that another load owns.
LEMMA OthersKeepTheirs ==
    ASSUME Typed, NEW i \in Loads, LoadInv(i), LoadStep(i), NEW j \in Loads \ {i}
    PROVE  Same(j)
<1>1. CASE Prepare(i) \/ PrepareFails(i) \/ OpenFails(i) \/ Resolve(i) \/ Validate(i) \/ Create(i)
  BY <1>1 DEF Prepare, PrepareFails, OpenFails, Resolve, Validate, Create, State, Goto,
              Typed, Same, IsOpen
<1>2. CASE Open(i)
  <2>1. /\ pc' = [pc EXCEPT ![i] = "resolve"]
        /\ core' = core /\ arcs' = arcs /\ handle' = handle /\ bundle' = bundle /\ todo' = todo
        /\ holders' = [holders EXCEPT ![Path(i)] = @ \cup {i}]
    BY <1>2 DEF Open, Goto
  <2>2. \A path \in Paths : j \in holders'[path] <=> j \in holders[path]
    BY <2>1 DEF Typed
  <2>3. QED
    BY <2>1, <2>2 DEF Typed, Same, IsOpen
<1>3. CASE Dispose(i)
  <2>1. todo'[j] = todo[j]
    BY <1>3, DisposeFacts
  <2>2. QED
    BY <1>3, <2>1, DisposeReleases DEF Typed, Same, IsOpen
<1>4. CASE InitializeFails(i) \/ Discarded(i) \/ Register(i) \/ RegisterFails(i) \/ Loaded(i)
  BY <1>4 DEF InitializeFails, Discarded, Register, RegisterFails, Loaded, Release, State, Goto,
              Typed, Same, IsOpen
<1>5. CASE Close(i) \/ DropFunction(i) \/ Destroy(i) \/ Dropped(i)
  BY <1>5 DEF Close, DropFunction, Destroy, Dropped, Release, Goto, Typed, Same, IsOpen
<1>6. QED
  BY <1>1, <1>2, <1>3, <1>4, <1>5, Zenon DEF LoadStep, Load, Unload

\* A load whose part of the state is unchanged owns what it did.
LEMMA SameKeepsLoadInv ==
    ASSUME NEW j \in Loads, LoadInv(j), Same(j), build' = build
    PROVE  LoadInv(j)'
BY DEF LoadInv, Same, Clean, LocalOrder, FieldOrder

\* How the steps of a load change the types of the state.
LEMMA TypedStep ==
    ASSUME Typed, NEW i \in Loads, LoadInv(i), LoadStep(i)
    PROVE  Typed' /\ build' = build /\ at' = at
<1> USE DEF Places, Early
<1>1. CASE Prepare(i) \/ PrepareFails(i) \/ OpenFails(i) \/ Resolve(i) \/ Validate(i) \/ Create(i)
  BY <1>1, FunctionsAssumption
     DEF Prepare, PrepareFails, OpenFails, Resolve, Validate, Create, State, Goto, Typed
<1>2. CASE Open(i)
  <2>1. Path(i) \in Paths
    BY <1>2 DEF Open, LoadInv, Path, Paths, Typed
  <2>2. library'[i] \in Loads \cup {None}
    <3>1. CASE holders[Path(i)] = {}
      BY <1>2, <3>1 DEF Open, Typed
    <3>2. CASE holders[Path(i)] # {}
      <4>1. PICK j \in Loads : library'[i] = library[j]
        BY <1>2, <2>1, <3>2 DEF Open, Typed
      <4>2. QED
        BY <4>1 DEF Typed
    <3>3. QED
      BY <3>1, <3>2
  <2>3. library' = [library EXCEPT ![i] = library'[i]]
    BY <1>2 DEF Open, Typed
  <2>4. library' \in [Loads -> Loads \cup {None}]
    BY <2>2, <2>3 DEF Typed
  <2>5. holders' \in [Paths -> SUBSET Loads]
    BY <1>2, <2>1 DEF Open, Typed
  <2>6. QED
    BY <1>2, <2>4, <2>5 DEF Open, Goto, Typed
<1>3. CASE Dispose(i)
  <2>1. todo' = [todo EXCEPT ![i] = todo'[i]] /\ todo'[i] \in Orders
    BY <1>3, DisposeFacts DEF Orders
  <2>2. QED
    BY <1>3, <2>1, DisposeReleases DEF Typed
<1>4. CASE InitializeFails(i) \/ Destroy(i)
  <2>1. LocalOrder \in Orders /\ FieldOrder \in Orders
    BY DEF Orders
  <2>2. QED
    BY <1>4, <2>1 DEF InitializeFails, Destroy, Goto, Typed
<1>8. CASE Discarded(i)
  <2>1. 1 \in 0..(Functions + 1)
    BY FunctionsAssumption
  <2>2. QED
    BY <1>8, <2>1 DEF Discarded, State, Goto, Typed
<1>9. CASE Close(i) \/ Dropped(i)
  BY <1>9 DEF Close, Dropped, Goto, Typed
<1>5. CASE Register(i)
  <2>1. arcs[i] + 1 \in 0..(Functions + 1)
    BY <1>5, FunctionsAssumption DEF Register, Registered, Typed
  <2>2. QED
    BY <1>5, <2>1 DEF Register, Typed
<1>6. CASE RegisterFails(i) \/ Loaded(i) \/ DropFunction(i)
  <2>1. arcs[i] - 1 \in 0..(Functions + 1)
    BY <1>6, FunctionsAssumption DEF RegisterFails, Loaded, DropFunction, LoadInv, Typed
  <2>2. QED
    BY <1>6, <2>1 DEF RegisterFails, Loaded, DropFunction, Release, Goto, Typed
<1>7. QED
  BY <1>1, <1>2, <1>3, <1>4, <1>5, <1>6, <1>8, <1>9, Zenon DEF LoadStep, Load, Unload

-----------------------------------------------------------------------------
\* A load that prepares, opens or initialises its library owns what it should.
LEMMA LoadingKeepsLoadInv ==
    ASSUME Typed, NEW i \in Loads, LoadInv(i),
           \/ Prepare(i) \/ PrepareFails(i) \/ Open(i) \/ OpenFails(i)
           \/ Resolve(i) \/ Validate(i) \/ Create(i) \/ InitializeFails(i)
    PROVE  LoadInv(i)'
<1> USE DEF Early
<1>1. CASE Prepare(i)
  BY <1>1, NoneAssumption DEF Prepare, Goto, Typed, LoadInv, Clean, IsOpen
<1>2. CASE PrepareFails(i)
  BY <1>2 DEF PrepareFails, State, Goto, Typed, LoadInv, Clean, IsOpen
<1>3. CASE Open(i)
  <2>1. Path(i) \in Paths
    BY <1>3 DEF Open, LoadInv, Path, Paths, Typed
  <2>2. IsOpen(i)'
    BY <1>3, <2>1 DEF Open, Typed, IsOpen
  <2>3. QED
    BY <1>3, <2>2 DEF Open, Goto, Typed, LoadInv, Clean
<1>4. CASE OpenFails(i)
  BY <1>4 DEF OpenFails, State, Goto, Typed, LoadInv, Clean, IsOpen
<1>5. CASE Resolve(i) \/ Validate(i) \/ Create(i)
  BY <1>5 DEF Resolve, Validate, Create, State, Goto, Typed, LoadInv, Clean, IsOpen
<1>6. CASE InitializeFails(i)
  BY <1>6 DEF InitializeFails, Goto, Typed, LoadInv, Clean, IsOpen, LocalOrder
<1>7. QED
  BY <1>1, <1>2, <1>3, <1>4, <1>5, <1>6

\* What is dropped is given back.
LEMMA DroppingKeepsLoadInv ==
    ASSUME Typed, NEW i \in Loads, LoadInv(i), Dispose(i) \/ Discarded(i) \/ Destroy(i) \/ Dropped(i)
    PROVE  LoadInv(i)'
<1> USE DEF Early
<1>1. CASE Dispose(i)
  <2>1. /\ pc[i] \in {"discard", "drop"} /\ pc' = pc /\ core' = core /\ arcs' = arcs
        /\ handle' = handle /\ build' = build
    BY <1>1, DisposeFacts
  <2>2. /\ <<"library">> # <<>> /\ <<"bundle">> # <<>> /\ FieldOrder # <<>> /\ LocalOrder # <<>>
        /\ <<"bundle">> # FieldOrder /\ <<"library">> # LocalOrder
    BY DEF FieldOrder, LocalOrder
  <2>3. CASE Head(todo[i]) = "library"
    <3>1. ~IsOpen(i)' /\ bundle' = bundle
      BY <1>1, <2>3, DisposeFacts DEF IsOpen
    <3>2. CASE pc[i] = "discard" /\ todo[i] = <<"library">> /\ todo'[i] = <<>>
      BY <2>1, <2>2, <3>1, <3>2 DEF LoadInv, Clean
    <3>3. CASE pc[i] = "drop" /\ todo[i] = FieldOrder /\ todo'[i] = <<"bundle">>
      BY <2>1, <2>2, <3>1, <3>3 DEF LoadInv, Clean
    <3>4. QED
      BY <1>1, <2>3, <3>2, <3>3, DisposeFacts
  <2>4. CASE Head(todo[i]) = "bundle"
    <3>1. bundle'[i] = None /\ (IsOpen(i)' <=> IsOpen(i))
      BY <1>1, <2>4, DisposeFacts DEF Typed, IsOpen
    <3>2. CASE pc[i] = "discard" /\ todo[i] = LocalOrder /\ todo'[i] = <<"library">>
      BY <2>1, <2>2, <3>1, <3>2 DEF LoadInv, Clean
    <3>3. CASE pc[i] = "drop" /\ todo[i] = <<"bundle">> /\ todo'[i] = <<>>
      BY <2>1, <2>2, <3>1, <3>3 DEF LoadInv, Clean
    <3>4. QED
      BY <1>1, <2>4, <3>2, <3>3, DisposeFacts
  <2>5. QED
    BY <1>1, <2>3, <2>4, DisposeFacts
<1>2. CASE Discarded(i)
  BY <1>2 DEF Discarded, State, Goto, Typed, LoadInv, Clean, IsOpen, LocalOrder
<1>3. CASE Destroy(i)
  BY <1>3 DEF Destroy, Goto, Typed, LoadInv, Clean, IsOpen, FieldOrder
<1>4. CASE Dropped(i)
  BY <1>4 DEF Dropped, Goto, Typed, LoadInv, Clean, IsOpen, FieldOrder
<1>5. QED
  BY <1>1, <1>2, <1>3, <1>4

\* The last Arc, and no other, leads to the end of the core.
LEMMA CountingKeepsLoadInv ==
    ASSUME Typed, NEW i \in Loads, LoadInv(i),
           Register(i) \/ RegisterFails(i) \/ Loaded(i) \/ Close(i) \/ DropFunction(i)
    PROVE  LoadInv(i)'
<1> USE DEF Early
<1>1. CASE Register(i)
  BY <1>1 DEF Register, Typed, LoadInv, Clean, IsOpen
<1>2. CASE Close(i)
  BY <1>2 DEF Close, Goto, Typed, LoadInv, Clean, IsOpen
<1>3. CASE RegisterFails(i) \/ Loaded(i) \/ DropFunction(i)
  <2>1. PICK where \in {"loaded", "closing"} : Release(i, where)
    BY <1>3 DEF RegisterFails, Loaded, DropFunction
  <2>2. /\ pc[i] \in {"register", "closing"} /\ arcs[i] - 1 <= Functions
        /\ core' = core /\ handle' = handle /\ bundle' = bundle /\ holders' = holders
        /\ todo' = todo /\ build' = build
    BY <1>3, FunctionsAssumption DEF RegisterFails, Loaded, DropFunction, Typed, LoadInv
  <2>3. /\ arcs'[i] = arcs[i] - 1
        /\ pc'[i] = IF arcs'[i] > 0 THEN where
                    ELSE IF core[i] = "dynamic" THEN "destroy" ELSE "gone"
    BY <2>1 DEF Release, Goto, Typed
  <2>4. IsOpen(i)' <=> IsOpen(i)
    BY <2>2 DEF IsOpen
  <2>5. arcs[i] \in Nat /\ core[i] \in {"dynamic", "unavailable"} /\ todo[i] = <<>>
    BY <2>2, FunctionsAssumption DEF Typed, LoadInv
  <2>6. QED
    BY <2>2, <2>3, <2>4, <2>5 DEF LoadInv, Clean
<1>4. QED
  BY <1>1, <1>2, <1>3

\* Each load owns what it should after the step of any of them.
LEMMA LoadInvStep ==
    ASSUME Typed, \A j \in Loads : LoadInv(j), NEW i \in Loads, LoadStep(i)
    PROVE  \A j \in Loads : LoadInv(j)'
<1> TAKE j \in Loads
<1>1. CASE j = i
  BY <1>1, LoadingKeepsLoadInv, DroppingKeepsLoadInv, CountingKeepsLoadInv, Zenon
     DEF LoadStep, Load, Unload
<1>2. CASE j # i
  BY <1>2, OthersKeepTheirs, SameKeepsLoadInv, TypedStep
<1>3. QED
  BY <1>1, <1>2

-----------------------------------------------------------------------------
\* A function that a query runs stays registered until the query returns.
LEMMA ThreadInvStep ==
    ASSUME Typed, \A j \in Loads : LoadInv(j), ThreadInv, NEW i \in Loads, LoadStep(i)
    PROVE  ThreadInv'
<1> SUFFICES ASSUME NEW t \in Threads, at[t] # None
             PROVE  pc'[at[t]] \in {"register", "loaded"} /\ Registered(at[t])' > 0
  BY TypedStep DEF ThreadInv
<1>0. at' = at
  BY TypedStep
<1>1. at[t] \in Loads /\ pc[at[t]] \in {"register", "loaded"} /\ Registered(at[t]) > 0
  BY DEF ThreadInv, Typed
<1>2. CASE at[t] # i
  <2>1. Same(at[t])
    BY <1>1, <1>2, OthersKeepTheirs
  <2>2. QED
    BY <1>0, <1>1, <2>1 DEF Same, Registered
<1>3. CASE at[t] = i
  <2>1. CASE Register(i)
    BY <1>1, <1>3, <2>1 DEF Register, Registered, Typed
  <2>2. CASE RegisterFails(i) \/ Loaded(i)
    <3>1. pc[i] = "register" /\ arcs[i] > 1 /\ Release(i, "loaded") /\ arcs[i] \in Nat
      BY <1>1, <1>3, <2>2, FunctionsAssumption DEF RegisterFails, Loaded, Registered, Typed
    <3>2. pc'[i] = "loaded" /\ arcs'[i] = arcs[i] - 1
      BY <3>1 DEF Release, Goto, Typed
    <3>3. QED
      BY <1>0, <1>3, <3>1, <3>2 DEF Registered
  <2>3. CASE Close(i)
    BY <1>3, <2>3 DEF Close
  <2>4. ~Dispose(i)
    BY <1>1, <1>3 DEF Dispose, LoadInv
  <2>5. ~(\/ Prepare(i) \/ PrepareFails(i) \/ Open(i) \/ OpenFails(i) \/ Resolve(i)
          \/ Validate(i) \/ Create(i) \/ InitializeFails(i) \/ Discarded(i)
          \/ DropFunction(i) \/ Destroy(i) \/ Dropped(i))
    BY <1>1, <1>3 DEF Prepare, PrepareFails, Open, OpenFails, Resolve, Validate, Create,
                      InitializeFails, Discarded, DropFunction, Destroy, Dropped
  <2>6. QED
    BY <2>1, <2>2, <2>3, <2>4, <2>5, Zenon DEF LoadStep, Load, Unload
<1>4. QED
  BY <1>2, <1>3

\* No step shares a descriptor, or opens a library under one that is not its own.
LEMMA SharingInvStep ==
    ASSUME Typed, \A j \in Loads : LoadInv(j), SharingInv, NEW i \in Loads, LoadStep(i)
    PROVE  SharingInv'
<1>1. CASE Prepare(i)
  <2>1. /\ library' = library /\ holders' = holders /\ build' = build
        /\ \A j \in Loads \ {i} : bundle'[j] = bundle[j] /\ pc'[j] = pc[j]
        /\ \A path \in Paths : i \notin holders[path]
    BY <1>1 DEF Prepare, Goto, Typed, LoadInv, IsOpen
  <2>2. \A j \in Loads \ {i} : bundle'[i] = None \/ bundle'[i] # bundle[j]
    BY <1>1 DEF Prepare, Typed, LoadInv
  <2>3. QED
    BY <2>1, <2>2 DEF SharingInv, Typed
<1>2. CASE Open(i)
  <2>1. Path(i) \in Paths
    BY <1>2 DEF Open, LoadInv, Path, Paths, Typed
  <2>2. /\ bundle' = bundle /\ build' = build /\ pc[i] = "open"
        /\ \A j \in Loads \ {i} : library'[j] = library[j] /\ pc'[j] = pc[j]
        /\ \A path \in Paths : holders'[path] \subseteq holders[path] \cup {i}
        /\ \A path \in Paths \ {Path(i)} : i \notin holders'[path]
    BY <1>2, <2>1 DEF Open, Goto, Typed, LoadInv, IsOpen
  <2>3. library'[i] # None
    <3>1. CASE holders[Path(i)] = {}
      BY <1>2, <3>1, NoneAssumption DEF Open, Typed
    <3>2. CASE holders[Path(i)] # {}
      BY <1>2, <2>1, <3>2 DEF Open, Typed, SharingInv
    <3>3. QED
      BY <3>1, <3>2
  <2>4. build = "bundled" => Path(i) = bundle[i]
    BY DEF Path
  <2>5. QED
    BY <2>2, <2>3, <2>4 DEF SharingInv, Typed
<1>3. CASE Dispose(i)
  <2>1. /\ pc' = pc /\ build' = build
        /\ \A j \in Loads \ {i} : library'[j] = library[j] /\ bundle'[j] = bundle[j]
        /\ \A path \in Paths : holders'[path] \subseteq holders[path]
        /\ bundle'[i] \in {None, bundle[i]}
    BY <1>3, DisposeFacts DEF Typed
  <2>2. ASSUME NEW path \in Paths, i \in holders'[path]
        PROVE  library'[i] # None /\ (build = "bundled" => path = bundle'[i] \/ pc[i] = "discard")
    <3>1. CASE Head(todo[i]) = "library"
      BY <1>3, <2>2, <3>1, DisposeFacts
    <3>2. CASE Head(todo[i]) = "bundle" /\ pc[i] = "discard"
      BY <1>3, <2>1, <2>2, <3>2, DisposeFacts DEF SharingInv
    <3>3. CASE Head(todo[i]) = "bundle" /\ pc[i] = "drop"
      <4>1. todo[i] = <<"bundle">> /\ holders' = holders
        BY <1>3, <3>3, DisposeFacts
      <4>2. <<"bundle">> # FieldOrder
        BY DEF FieldOrder
      <4>3. QED
        BY <2>2, <3>3, <4>1, <4>2 DEF LoadInv, IsOpen
    <3>4. QED
      BY <1>3, <3>1, <3>2, <3>3, DisposeFacts
  <2>3. QED
    BY <2>1, <2>2 DEF SharingInv, Typed
<1>4. CASE OpenFails(i)
  BY <1>4 DEF OpenFails, State, Goto, Typed, LoadInv, IsOpen, SharingInv
<1>5. CASE PrepareFails(i) \/ Resolve(i) \/ Validate(i) \/ Create(i) \/ InitializeFails(i)
  BY <1>5 DEF PrepareFails, Resolve, Validate, Create, InitializeFails, State, Goto,
              Typed, SharingInv
<1>6. CASE Discarded(i)
  BY <1>6 DEF Discarded, State, Goto, Typed, LoadInv, IsOpen, SharingInv
<1>7. CASE Register(i) \/ RegisterFails(i) \/ Loaded(i)
  BY <1>7 DEF Register, RegisterFails, Loaded, Release, Goto, Typed, SharingInv
<1>8. CASE Close(i) \/ DropFunction(i) \/ Destroy(i) \/ Dropped(i)
  BY <1>8 DEF Close, DropFunction, Destroy, Dropped, Release, Goto, Typed, SharingInv
<1>9. QED
  BY <1>1, <1>2, <1>3, <1>4, <1>5, <1>6, <1>7, <1>8, Zenon DEF LoadStep, Load, Unload

\* A load that is discarded or has failed is never anything else again.
LEMMA FailureIsFinal ==
    ASSUME Typed, NEW i \in Loads, LoadInv(i), LoadStep(i), NEW k \in Loads, LoadInv(k),
           core[k] = "unavailable" \/ pc[k] = "discard"
    PROVE  core'[k] = "unavailable" \/ pc'[k] = "discard"
<1>1. CASE k # i
  BY <1>1, OthersKeepTheirs DEF Same
<1>2. CASE k = i /\ Discarded(i)
  BY <1>2 DEF Discarded, State, Typed
<1>3. CASE k = i /\ Dispose(i)
  BY <1>3, DisposeFacts
<1>4. CASE k = i /\ core[i] = "unavailable" /\ pc[i] \notin Early /\ core' = core
  BY <1>4
<1>5. core[i] = "unavailable" => pc[i] \notin Early
  BY DEF LoadInv
<1>6. ~Discarded(i) /\ ~Dispose(i) => pc[i] # "discard"
  BY DEF LoadStep, Load, Unload, Prepare, PrepareFails, Open, OpenFails, Resolve, Validate,
         Create, InitializeFails, Register, RegisterFails, Loaded, Close, DropFunction,
         Destroy, Dropped
<1>7. ~Discarded(i) /\ pc[i] \notin Early => core' = core
  BY DEF LoadStep, Load, Unload, Prepare, PrepareFails, Open, OpenFails, Resolve, Validate,
         Create, InitializeFails, Dispose, Register, RegisterFails, Loaded, Close,
         DropFunction, Destroy, Dropped, Early
<1>8. QED
  BY <1>1, <1>2, <1>3, <1>4, <1>5, <1>6, <1>7

\* A library that is opened under a descriptor is that of the memory file, unless a
\* load that has failed still holds the descriptor's last library open.
LEMMA LibraryIsOwnStep ==
    ASSUME IInv, NEW i \in Loads, LoadStep(i)
    PROVE  LibraryIsOwn'
<1> USE DEF IInv
<1> SUFFICES ASSUME build = "bundled", NEW j \in Loads
             PROVE  \/ library'[j] \in {None, j} \/ core'[library'[j]] = "unavailable"
                    \/ pc'[library'[j]] = "discard"
  BY TypedStep DEF LibraryIsOwn
<1>1. library \in [Loads -> Loads \cup {None}] /\ \A k \in Loads : LoadInv(k)
  BY DEF Typed
<1>2. CASE library'[j] = library[j]
  <2>1. \/ library[j] \in {None, j} \/ core[library[j]] = "unavailable"
        \/ pc[library[j]] = "discard"
    BY DEF LibraryIsOwn
  <2>2. QED
    BY <1>1, <1>2, <2>1, FailureIsFinal
<1>3. CASE Open(i) /\ j = i /\ library'[i] # i
  <2>1. PICK k \in Loads : k \in holders[bundle[i]] /\ library'[i] = library[k] /\ bundle[i] \in Paths
    <3>1. Path(i) = bundle[i] /\ Path(i) \in Paths
      BY <1>3 DEF Path, Open, LoadInv, Paths, Typed
    <3>2. holders[Path(i)] # {} /\ holders[Path(i)] \subseteq Loads
      BY <1>3, <3>1 DEF Open, Typed
    <3>3. QED
      BY <1>3, <3>1, <3>2 DEF Open, Typed
  <2>2. k # i
    BY <1>3, <2>1 DEF Open, LoadInv, IsOpen
  <2>3. bundle[i] # None /\ bundle[k] # bundle[i]
    BY <1>3, <2>2 DEF Open, LoadInv, SharingInv
  <2>4. pc[k] = "discard" /\ library[k] # None
    BY <2>1, <2>3 DEF SharingInv
  <2>5. library[k] = k \/ core[library[k]] = "unavailable" \/ pc[library[k]] = "discard"
    BY <2>4 DEF LibraryIsOwn
  <2>6. QED
    BY <1>1, <1>3, <2>1, <2>4, <2>5, FailureIsFinal
<1>4. CASE Dispose(i)
  <2>1. library'[j] \in {None, library[j]}
    BY <1>4, DisposeFacts DEF Typed
  <2>2. QED
    BY <1>2, <2>1
<1>5. Open(i) => j = i \/ library'[j] = library[j]
  BY <1>1 DEF Open
<1>6. Open(i) \/ Dispose(i) \/ library' = library
  BY DEF LoadStep, Load, Unload, Prepare, PrepareFails, OpenFails, Resolve, Validate,
         Create, InitializeFails, Discarded, Register, RegisterFails, Loaded, Close,
         DropFunction, Destroy, Dropped
<1>7. QED
  BY <1>2, <1>3, <1>4, <1>5, <1>6

-----------------------------------------------------------------------------
\* Calls and returns change only where the threads are.
LEMMA QueriesKeepInv ==
    ASSUME IInv, NEW t \in Threads, Return(t) \/ \E i \in Loads : Call(t, i)
    PROVE  IInv'
<1>1. UNCHANGED <<build, pc, bundle, library, holders, handle, core, arcs, todo>>
  BY DEF Return, Call
<1>2. Typed'
  BY <1>1, NoneAssumption DEF IInv, Typed, Return, Call
<1>3. \A i \in Loads : LoadInv(i)'
  BY <1>1 DEF IInv, LoadInv, Clean, IsOpen, LocalOrder, FieldOrder
<1>4. ThreadInv'
  BY <1>1 DEF IInv, Typed, ThreadInv, Registered, Return, Call
<1>5. SharingInv' /\ LibraryIsOwn'
  BY <1>1 DEF IInv, SharingInv, LibraryIsOwn
<1>6. QED
  BY <1>2, <1>3, <1>4, <1>5 DEF IInv

\* Nothing is open at first.
LEMMA InitHolds == Init => IInv
<1> SUFFICES ASSUME Init PROVE IInv
  OBVIOUS
<1>1. Typed
  BY FunctionsAssumption DEF Init, Typed, Places, Early, Orders
<1>2. \A i \in Loads : LoadInv(i)
  BY DEF Init, LoadInv, Clean, IsOpen, Early
<1>3. ThreadInv /\ SharingInv /\ LibraryIsOwn
  BY DEF Init, ThreadInv, SharingInv, LibraryIsOwn
<1>4. QED
  BY <1>1, <1>2, <1>3 DEF IInv

\* Every step preserves the invariant.
LEMMA StepHolds == IInv /\ [Next]_vars => IInv'
<1> SUFFICES ASSUME IInv, [Next]_vars PROVE IInv'
  OBVIOUS
<1>1. ASSUME NEW i \in Loads, LoadStep(i) PROVE IInv'
  BY <1>1, TypedStep, LoadInvStep, ThreadInvStep, SharingInvStep, LibraryIsOwnStep DEF IInv
<1>2. ASSUME NEW t \in Threads, Return(t) \/ \E i \in Loads : Call(t, i) PROVE IInv'
  BY <1>2, QueriesKeepInv
<1>3. CASE UNCHANGED vars
  <2>1. Typed' /\ ThreadInv' /\ SharingInv' /\ LibraryIsOwn'
    BY <1>3 DEF vars, IInv, Typed, ThreadInv, Registered, SharingInv, LibraryIsOwn
  <2>2. \A i \in Loads : LoadInv(i)'
    BY <1>3 DEF vars, IInv, LoadInv, Clean, IsOpen, LocalOrder, FieldOrder
  <2>3. QED
    BY <2>1, <2>2 DEF IInv
<1>4. QED
  BY <1>1, <1>2, <1>3, Zenon DEF Next, LoadStep

\* The invariant holds in every reachable state.
THEOREM Invariant == Spec => []IInv
BY InitHolds, StepHolds, PTL DEF Spec

\* The loads, their resources and their counts are well formed, and no Arc is
\* dropped twice, however many databases load and close.
THEOREM TypeCorrect == Spec => []TypeOK
<1>1. IInv => TypeOK
  <2> SUFFICES ASSUME IInv PROVE TypeOK
    OBVIOUS
  <2>1. todo \in [Loads -> {<<>>} \cup {<<r>> : r \in Resources}
                                  \cup {<<r, s>> : r \in Resources, s \in Resources}]
    <3>1. /\ <<"library">> \in {<<r>> : r \in Resources}
          /\ <<"bundle">> \in {<<r>> : r \in Resources}
      BY DEF Resources
    <3>2. /\ LocalOrder \in {<<r, s>> : r \in Resources, s \in Resources}
          /\ FieldOrder \in {<<r, s>> : r \in Resources, s \in Resources}
      BY DEF Resources, LocalOrder, FieldOrder
    <3>3. QED
      BY <3>1, <3>2 DEF IInv, Typed, Orders
  <2>2. QED
    BY <2>1 DEF IInv, Typed, TypeOK, Places, Early
<1>2. QED
  BY <1>1, Invariant, PTL

\* Whatever loads, fails and closes around it, code of a provider runs only while its
\* library is open, and a query only on a handle that has not been destroyed.
THEOREM CallsBacked == Spec => []CallsAreBacked
<1>1. IInv => CallsAreBacked
  BY DEF IInv, Typed, LoadInv, ThreadInv, CallsAreBacked
<1>2. QED
  BY <1>1, Invariant, PTL

\* A bundled core runs the bytes of its own memory file, but for a load that failed.
THEOREM LibraryOwn == Spec => []LibraryIsOwn
<1>1. IInv => LibraryIsOwn
  BY DEF IInv
<1>2. QED
  BY <1>1, Invariant, PTL

\* A load that failed at any step, and a core whose last Arc was dropped, leave no
\* library, memory file or handle behind.
THEOREM NothingIsLeft == Spec => []NothingLeft
<1>1. IInv => NothingLeft
  BY DEF IInv, LoadInv, Clean, NothingLeft
<1>2. QED
  BY <1>1, Invariant, PTL
=============================================================================
