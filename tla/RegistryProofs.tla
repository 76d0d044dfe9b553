--------------------------- MODULE RegistryProofs ---------------------------
(***************************************************************************)
(* The table functions implement ListenerRegistry, for any queries,        *)
(* addresses, API tables and providers, and every width of usize.          *)
(***************************************************************************)
EXTENDS ServerFunctionsProofs

-----------------------------------------------------------------------------
(* What the refinement needs beyond PagesInv.                               *)

\* The rows of a list are its first snapshots, or name every listener of them (when
\* the offset has wrapped); a list longer than usize never ends.
RowsInv(q) ==
    Listing(q) =>
        /\ \/ rows[q] = Emitted(output[q], offset[q])
           \/ rows[q] \in Seq(Snapshot) /\ ListenersOf(rows[q]) = ListenersOf(output[q])
           \/ Len(output[q]) > MaxUsize
        /\ pc[q] = "end" => ListenersOf(rows[q]) = ListenersOf(output[q])

\* A query in a call has a core, has been marked, and its callback has been given
\* nothing else than what it had to see.
QueryInv(q) ==
    /\ pc[q] = "new" => ~done[q]
    /\ pc[q] \in {"serve", "stop", "receive", "visit"} => core = "dynamic"
    /\ pc[q] \in {"serve", "stop", "receive"} => done[q]
    /\ pc[q] = "stop" => Parse(cmd[q].protocol) # Err
    /\ pc[q] \in {"serve", "receive"} => output[q] = Err
    /\ pc[q] = "visit" => output[q] = Err \/ ListenersOf(output[q]) \cup todo[q] = servers
    /\ RowsInv(q)

RegistryInv ==
    /\ PagesInv
    /\ core = "none" => \A q \in Queries : pc[q] = "new"
    /\ core # "dynamic" => servers = {}
    /\ \A q \in Queries : QueryInv(q)

-----------------------------------------------------------------------------
(* Lists and the listeners they name.                                       *)

\* A server that has become a row is the listener behind the row.
LEMMA RowNamesServer ==
    ASSUME NEW server \in Server,
           ProtocolName(server.protocol) # Err, BorrowedString(server.address) # Err
    PROVE  Listener(Row(ProtocolName(server.protocol), BorrowedString(server.address))) = server
<1> DEFINE name == ProtocolName(server.protocol)
           address == BorrowedString(server.address)
<1>1. server.protocol \in 1..4
  BY DEF ProtocolName
<1>2. AbiProtocol[Parse(name)] = server.protocol
  <2>1. CASE server.protocol = 1
    BY <2>1 DEF ProtocolName, Parse, Spellings, AbiProtocol
  <2>2. CASE server.protocol = 2
    BY <2>2 DEF ProtocolName, Parse, Spellings, AbiProtocol
  <2>3. CASE server.protocol = 3
    BY <2>3 DEF ProtocolName, Parse, Spellings, AbiProtocol
  <2>4. CASE server.protocol = 4
    BY <2>4 DEF ProtocolName, Parse, Spellings, AbiProtocol
  <2>5. QED
    BY <1>1, <2>1, <2>2, <2>3, <2>4
<1>3. FromUtf8(address) = server.address
  <2>1. PICK text \in Texts : server.address = FromUtf8(text)
    <3>1. server.address \in Addresses
      BY DEF Server
    <3>2. server.address \notin [data : {Null, NotUtf8}, len : {1}]
      BY DEF BorrowedString
    <3>3. QED
      BY <3>1, <3>2 DEF Addresses
  <2>2. QED
    BY <2>1, StringsRoundTrip
<1>4. Listener(Row(name, address)) = [protocol |-> server.protocol, address |-> server.address]
  BY <1>2, <1>3 DEF Listener, Row
<1>5. QED
  BY <1>4 DEF Server

\* The listeners of a list and one more row.
LEMMA ListenersOfAppend ==
    ASSUME NEW list \in Seq(Snapshot), NEW row \in Snapshot
    PROVE  ListenersOf(Append(list, row)) = ListenersOf(list) \cup {Listener(row)}
<1> DEFINE longer == Append(list, row)
<1>1. /\ Len(list) \in Nat /\ DOMAIN list = 1..Len(list)
      /\ DOMAIN longer = 1..(Len(list) + 1)
      /\ \A i \in 1..Len(list) : longer[i] = list[i]
      /\ longer[Len(list) + 1] = row
  BY AppendProperties, LenProperties
<1> HIDE DEF longer
<1>2. QED
  BY <1>1 DEF ListenersOf

\* A list and rows it has already name the same listeners.
LEMMA ListenersOfMore ==
    ASSUME NEW list \in Seq(Snapshot), NEW more \in Seq(Snapshot),
           ListenersOf(more) \subseteq ListenersOf(list)
    PROVE  ListenersOf(list \o more) = ListenersOf(list)
<1> DEFINE both == list \o more
<1>1. /\ Len(list) \in Nat /\ DOMAIN list = 1..Len(list)
      /\ Len(more) \in Nat /\ DOMAIN more = 1..Len(more)
      /\ DOMAIN both = 1..(Len(list) + Len(more))
      /\ \A i \in 1..Len(list) : both[i] = list[i]
      /\ \A i \in (Len(list) + 1)..(Len(list) + Len(more)) : both[i] = more[i - Len(list)]
  BY LenProperties
<1> HIDE DEF both
<1>2. ASSUME NEW i \in DOMAIN both PROVE Listener(both[i]) \in ListenersOf(list)
  <2>1. CASE i \in 1..Len(list)
    BY <1>1, <2>1 DEF ListenersOf
  <2>2. CASE i \in (Len(list) + 1)..(Len(list) + Len(more))
    <3>1. i - Len(list) \in DOMAIN more /\ both[i] = more[i - Len(list)]
      BY <1>1, <2>2
    <3>2. QED
      BY <3>1 DEF ListenersOf
  <2>3. QED
    BY <1>1, <2>1, <2>2
<1>3. ASSUME NEW i \in DOMAIN list PROVE Listener(list[i]) \in ListenersOf(both)
  BY <1>1 DEF ListenersOf
<1>4. QED
  BY <1>2, <1>3 DEF ListenersOf, both

\* A page names listeners of its list.
LEMMA ListenersOfPage ==
    ASSUME NEW list \in Seq(Snapshot), NEW m \in Nat, NEW n \in Nat, m <= n, n <= Len(list)
    PROVE  /\ SubSeq(list, m + 1, n) \in Seq(Snapshot)
           /\ ListenersOf(SubSeq(list, m + 1, n)) \subseteq ListenersOf(list)
<1> DEFINE page == SubSeq(list, m + 1, n)
<1>1. /\ page \in Seq(Snapshot) /\ Len(list) \in Nat /\ DOMAIN list = 1..Len(list)
      /\ DOMAIN page = 1..(n - m)
      /\ \A i \in 1..(n - m) : page[i] = list[m + i]
  BY LenProperties
<1> HIDE DEF page
<1>2. ASSUME NEW i \in DOMAIN page PROVE Listener(page[i]) \in ListenersOf(list)
  <2>1. m + i \in DOMAIN list /\ page[i] = list[m + i]
    BY <1>1
  <2>2. QED
    BY <2>1 DEF ListenersOf
<1>3. ListenersOf(page) \subseteq ListenersOf(list)
  BY <1>2 DEF ListenersOf
<1>4. QED
  BY <1>1, <1>3 DEF page

-----------------------------------------------------------------------------
(* RegistryInv is inductive.                                                *)

\* A page keeps RowsInv, also where the offset saturates or wraps.
LEMMA PageKeepsRows ==
    ASSUME RegistryInv, NEW q \in Queries, PullPage(q)
    PROVE  RowsInv(q)'
<1> DEFINE seq == output[q]
           start == offset[q]
           bounds == ChunkBounds(Len(seq), start, VectorSize)
           page == SubSeq(seq, bounds.from + 1, bounds.to)
<1>1. /\ pc[q] = "pull" /\ cmd[q].op = "servers"
      /\ pc \in [Queries -> Wheres] /\ start \in 0..MaxUsize /\ offset'[q] = WrappingAdd(start, VectorSize)
      /\ cmd' = cmd /\ output' = output /\ DOMAIN rows = Queries
  BY DEF PullPage, Set, RegistryInv, PagesInv, TypeInv, TypeOK, Wheres
<1>2. SUFFICES ASSUME pc'[q] # "failed" PROVE RowsInv(q)'
  BY <1>1 DEF RowsInv, Listing
<1>3. /\ seq \in Seq(Snapshot) /\ Len(seq) \in Nat
      /\ \/ rows[q] = Emitted(seq, start)
         \/ rows[q] \in Seq(Snapshot) /\ ListenersOf(rows[q]) = ListenersOf(seq)
         \/ Len(seq) > MaxUsize
  <2>1. Listing(q)
    BY <1>1, <1>2 DEF Listing
  <2>2. ListInv(q) /\ RowsInv(q)
    BY DEF RegistryInv, PagesInv, QueryInv
  <2>3. QED
    BY <2>1, <2>2, LenProperties DEF ListInv, RowsInv
<1>4. MaxUsize \in Nat /\ VectorSize \in 1..MaxUsize
  BY SizeAssumption, VectorAssumption
<1>5. CASE start >= Len(seq)
  <2>1. pc'[q] = "end" /\ rows' = rows
    BY <1>1, <1>5 DEF PullPage, Goto, ChunkBounds
  <2>2. ListenersOf(rows[q]) = ListenersOf(seq)
    BY <1>1, <1>3, <1>4, <1>5, EmittedProperties
  <2>3. rows[q] = Emitted(seq, start) => rows[q] \in Seq(Snapshot)
    BY <1>1, <1>3, <1>5, EmittedProperties
  <2>4. QED
    BY <1>1, <1>3, <2>1, <2>2, <2>3 DEF RowsInv
<1>6. CASE start < Len(seq)
  <2> DEFINE next == IF SaturatingAdd(start, VectorSize) > Len(seq) THEN Len(seq)
                     ELSE SaturatingAdd(start, VectorSize)
  <2>1. bounds = [from |-> start, to |-> next] /\ bounds.from = start /\ bounds.to = next
    <3>1. ~(start >= Len(seq) \/ VectorSize = 0)
      BY <1>1, <1>3, <1>4, <1>6
    <3>2. bounds = [from |-> start, to |-> next]
      BY <3>1 DEF ChunkBounds
    <3>3. QED
      BY <3>2
  <2>2. next \in Nat /\ start <= next /\ next <= Len(seq)
    BY <1>1, <1>3, <1>4, <1>6 DEF SaturatingAdd
  <2>3. bounds # None
    BY <1>1, <2>1, <2>2, SizeAssumption
  <2>4. pc'[q] = "pull" /\ rows' = Set(rows, q, rows[q] \o page)
    BY <1>1, <1>2, <2>3 DEF PullPage, Goto
  <2>5. rows'[q] = rows[q] \o SubSeq(seq, start + 1, next)
    BY <1>1, <2>1, <2>4 DEF Set
  <2>6. CASE Len(seq) > MaxUsize
    BY <1>1, <2>4, <2>6 DEF RowsInv
  <2>7. CASE rows[q] \in Seq(Snapshot) /\ ListenersOf(rows[q]) = ListenersOf(seq)
    <3>1. /\ rows'[q] \in Seq(Snapshot)
          /\ ListenersOf(rows'[q]) = ListenersOf(seq)
      <4> DEFINE more == SubSeq(seq, start + 1, next)
      <4>1. more \in Seq(Snapshot) /\ ListenersOf(more) \subseteq ListenersOf(seq)
        BY <1>1, <1>3, <2>2, ListenersOfPage
      <4> HIDE DEF more
      <4>2. ListenersOf(rows[q] \o more) = ListenersOf(rows[q])
        BY <2>7, <4>1, ListenersOfMore
      <4>3. rows[q] \o more \in Seq(Snapshot)
        BY <2>7, <4>1, ConcatProperties
      <4>4. QED
        BY <2>5, <2>7, <4>2, <4>3 DEF more
    <3>2. QED
      BY <1>1, <2>4, <3>1 DEF RowsInv
  <2>8. CASE rows[q] = Emitted(seq, start) /\ Len(seq) <= MaxUsize
    <3>1. rows'[q] = SubSeq(seq, 1, next)
      <4>1. /\ 1 \in 1..(Len(seq) + 1) /\ start \in (1 - 1)..Len(seq)
            /\ next \in start..Len(seq)
        BY <1>1, <1>3, <1>6, <2>2
      <4>2. Emitted(seq, start) = SubSeq(seq, 1, start)
        BY <1>6 DEF Emitted
      <4>3. SubSeq(seq, 1, start) \o SubSeq(seq, start + 1, next) = SubSeq(seq, 1, next)
        BY <1>3, <4>1, ConcatAdjacentSubSeq
      <4>4. QED
        BY <2>5, <2>8, <4>2, <4>3
    <3>2. CASE start + VectorSize <= MaxUsize
      <4>1. offset'[q] = start + VectorSize
        <5>1. \A n \in 0..MaxUsize : n % (MaxUsize + 1) = n
          BY <1>4
        <5>2. start + VectorSize \in 0..MaxUsize
          BY <1>1, <1>4, <3>2
        <5>3. QED
          BY <1>1, <5>1, <5>2 DEF WrappingAdd
      <4>2. rows'[q] = Emitted(seq, start + VectorSize)
        BY <1>1, <1>3, <1>4, <3>1, <3>2 DEF Emitted, SaturatingAdd
      <4>3. QED
        BY <1>1, <2>4, <4>1, <4>2 DEF RowsInv
    <3>3. CASE start + VectorSize > MaxUsize
      <4>1. next = Len(seq)
        BY <1>1, <1>3, <1>4, <2>8, <3>3 DEF SaturatingAdd
      <4>2. rows'[q] = seq
        BY <1>3, <3>1, <4>1, SubSeqFull
      <4>3. QED
        BY <1>1, <1>3, <2>4, <4>2 DEF RowsInv
    <3>4. QED
      BY <1>1, <1>4, <3>2, <3>3
  <2>9. QED
    BY <1>3, <1>4, <2>6, <2>7, <2>8
<1>7. QED
  BY <1>1, <1>3, <1>5, <1>6

\* The facts about one query that its steps start from.
LEMMA QueryFacts ==
    ASSUME RegistryInv, NEW q \in Queries
    PROVE  /\ QueryInv(q) /\ ListInv(q)
           /\ pc \in [Queries -> Wheres] /\ done \in [Queries -> BOOLEAN]
           /\ DOMAIN cmd = Queries /\ DOMAIN output = Queries /\ DOMAIN rows = Queries
           /\ todo \in [Queries -> SUBSET Server]
           /\ core \in {"none", "dynamic", "unavailable"}
           /\ pc[q] # "new" => core # "none" /\ cmd[q] \in Command
           /\ pc[q] \in {"serve", "receive"} => cmd[q].op = "serve"
           /\ pc[q] = "stop" => cmd[q].op = "stop"
           /\ pc[q] \in {"list", "visit"} => cmd[q].op = "servers"
           /\ lock = q <=> pc[q] \in Inside
BY DEF RegistryInv, PagesInv, TypeInv, TypeOK, CommandInv, Wheres

\* A call of func keeps what is known of its query.
LEMMA FuncKeepsQuery ==
    ASSUME RegistryInv, NEW q \in Queries,
           Func(q) \/ Abandon(q) \/ \E c \in Command : Begin(q, c)
    PROVE  QueryInv(q)'
<1> USE QueryFacts
<1>1. CASE PullOnce(q)
  <2>1. cmd' = cmd /\ core' = core /\ pc[q] = "pull" /\ cmd[q].op # "servers"
        /\ output'[q] = Err /\ done'[q] = TRUE
    BY <1>1 DEF PullOnce, Mark, Set, library
  <2>2. pc'[q] \in {"serve", "stop"} => core # "unavailable"
    BY <1>1 DEF PullOnce, Goto
  <2>3. pc'[q] = "stop" => Parse(cmd[q].protocol) # Err
    BY <1>1 DEF PullOnce, Goto
  <2>4. pc'[q] \in {"pull", "failed", "serve", "stop"}
    BY <1>1 DEF PullOnce, Goto
  <2>5. QED
    BY <2>1, <2>2, <2>3, <2>4 DEF QueryInv, RowsInv, Listing
<1>2. CASE PullDone(q)
  BY <1>2 DEF PullDone, Goto, QueryInv, RowsInv, Listing
<1>3. CASE PullPage(q)
  <2>1. pc'[q] \in {"pull", "end", "failed"}
    BY <1>3 DEF PullPage, Goto
  <2>2. QED
    BY <1>3, <2>1, PageKeepsRows DEF QueryInv
<1>4. CASE Abandon(q)
  BY <1>4 DEF Abandon, Goto, QueryInv, RowsInv, Listing
<1>5. ASSUME NEW c \in Command, Begin(q, c) PROVE QueryInv(q)'
  <2>1. cmd'[q] = c /\ pc'[q] = IF c.op = "servers" THEN "list" ELSE "pull"
    BY <1>5 DEF Begin, Set, Goto
  <2>2. QED
    BY <2>1 DEF QueryInv, RowsInv, Listing
<1>6. QED
  BY <1>1, <1>2, <1>3, <1>4, <1>5 DEF Func

\* The visitor has seen the servers that are not left to it.
LEMMA VisitKeepsQuery ==
    ASSUME RegistryInv, NEW q \in Queries, Visit(q)
    PROVE  QueryInv(q)'
<1>1. /\ pc[q] = "visit" /\ pc \in [Queries -> Wheres] /\ todo \in [Queries -> SUBSET Server]
      /\ DOMAIN output = Queries /\ QueryInv(q)
      /\ output[q] = Err \/ output[q] \in Seq(Snapshot)
      /\ output[q] = Err \/ ListenersOf(output[q]) \cup todo[q] = servers
      /\ cmd' = cmd /\ core' = core /\ servers' = servers
  BY QueryFacts DEF Visit, library, QueryInv, ListInv
<1>2. PICK server \in todo[q] :
        /\ output' = Set(output, q, Visited(q, ProtocolName(server.protocol),
                                               BorrowedString(server.address)))
        /\ \/ todo' = Set(todo, q, todo[q] \ {server}) /\ pc' = pc
           \/ pc'[q] = "failed"
  <2>1. PICK server \in todo[q] :
          /\ output' = Set(output, q, Visited(q, ProtocolName(server.protocol),
                                                 BorrowedString(server.address)))
          /\ \/ todo' = Set(todo, q, todo[q] \ {server}) /\ pc' = pc
             \/ Goto(q, "failed")
    BY Zenon DEF Visit, CallFails
  <2>2. Goto(q, "failed") => pc'[q] = "failed"
    BY <1>1 DEF Goto
  <2>3. QED
    BY <2>1, <2>2
<1>3. CASE pc'[q] = "failed"
  BY <1>3 DEF QueryInv, RowsInv, Listing
<1>4. CASE todo' = Set(todo, q, todo[q] \ {server}) /\ pc' = pc
  <2> DEFINE name == ProtocolName(server.protocol)
             address == BorrowedString(server.address)
  <2>1. output'[q] = Visited(q, name, address) /\ todo'[q] = todo[q] \ {server}
    BY <1>1, <1>2, <1>4 DEF Set
  <2>2. CASE output[q] = Err \/ Err \in {name, address}
    <3>1. output'[q] = Err
      BY <2>1, <2>2 DEF Visited
    <3>2. QED
      BY <1>1, <1>4, <3>1 DEF QueryInv, RowsInv, Listing
  <2>3. CASE ~(output[q] = Err \/ Err \in {name, address})
    <3>1. output'[q] = Append(output[q], Row(name, address))
      BY <2>1, <2>3 DEF Visited
    <3>2. server \in Server /\ name # Err /\ address # Err
      BY <1>1, <2>3
    <3>3. Row(name, address) \in Snapshot /\ Listener(Row(name, address)) = server
      BY <3>2, VisitedIsRow, RowNamesServer
    <3>4. ListenersOf(output'[q]) = ListenersOf(output[q]) \cup {server}
      BY <1>1, <2>3, <3>1, <3>3, ListenersOfAppend
    <3>5. ListenersOf(output'[q]) \cup todo'[q] = servers
      BY <1>1, <2>1, <2>3, <3>4
    <3>6. QED
      BY <1>1, <1>4, <3>5 DEF QueryInv, RowsInv, Listing, ListenersOf, Listener
  <2>4. QED
    BY <2>2, <2>3
<1>5. QED
  BY <1>2, <1>3, <1>4

\* A call of the provider keeps what is known of its query.
LEMMA CallKeepsQuery ==
    ASSUME RegistryInv, NEW q \in Queries, Call(q)
    PROVE  QueryInv(q)'
<1> USE QueryFacts
<1>1. CASE Start(q)
  BY <1>1 DEF Start, library, Goto, QueryInv, RowsInv, Listing
<1>2. CASE Receive(q) \/ ReceiveAny(q)
  <2>1. pc[q] = "receive" /\ (Goto(q, "pull") \/ Goto(q, "failed")) /\ cmd' = cmd
    BY <1>2, Zenon DEF Receive, ReceiveAny, ServeReturns, CallFails
  <2>2. QED
    BY <2>1 DEF Goto, QueryInv, RowsInv, Listing
<1>3. CASE Stop(q)
  BY <1>3 DEF Stop, Goto, QueryInv, RowsInv, Listing
<1>4. CASE CallRefused(q)
  BY <1>4 DEF CallRefused, CallFails, Goto, QueryInv, RowsInv, Listing
<1>5. <<>> \in Seq(Snapshot) /\ Emitted(<<>>, 0) = <<>>
  BY EmptySeq, EmittedProperties
<1>6. CASE List(q)
  <2>1. /\ pc'[q] = "visit" /\ output'[q] = <<>> /\ todo'[q] = servers
        /\ servers' = servers /\ core' = "dynamic"
    BY <1>6 DEF List, Goto, Set, library
  <2>2. ListenersOf(<<>>)' = {}
    BY DEF ListenersOf
  <2>3. ListenersOf(output[q])' \cup todo'[q] = servers'
    BY <2>1, <2>2 DEF ListenersOf
  <2>4. QED
    BY <2>1, <2>3 DEF QueryInv, RowsInv, Listing
<1>7. CASE ListUnavailable(q)
  <2>1. /\ pc'[q] = "pull" /\ output'[q] = <<>> /\ rows'[q] = <<>> /\ offset'[q] = 0
    BY <1>7 DEF ListUnavailable, Goto, Set, ListInv
  <2>2. QED
    BY <1>5, <2>1 DEF QueryInv, RowsInv
<1>8. CASE Visit(q)
  BY <1>8, VisitKeepsQuery
<1>9. CASE Listed(q)
  <2>1. pc'[q] = "failed" \/ (pc'[q] = "pull" /\ output[q] \in Seq(Snapshot))
    BY <1>9 DEF Listed, Goto, ListInv
  <2>2. output[q] \in Seq(Snapshot) => Emitted(output[q], 0) = <<>>
    BY EmittedProperties
  <2>3. rows'[q] = <<>> /\ offset'[q] = 0 /\ output' = output
    BY <1>9 DEF Listed, ListInv
  <2>4. QED
    BY <2>1, <2>2, <2>3 DEF QueryInv, RowsInv, Listing
<1>10. QED
  BY <1>1, <1>2, <1>3, <1>4, <1>6, <1>7, <1>8, <1>9 DEF Call

\* While a query is in a callback, which has the Mutex, no other changes the table.
LEMMA OthersSeeTheirServers ==
    ASSUME RegistryInv, NEW q \in Queries, NEW r \in Queries \ {q}, pc[r] = "visit",
           Func(q) \/ Call(q) \/ Abandon(q) \/ \E c \in Command : Begin(q, c)
    PROVE  servers' = servers
<1>1. lock = r /\ lock # None
  BY QueryFacts, UseAssumption DEF Inside
<1>2. ~Start(q) /\ ~Stop(q)
  BY <1>1 DEF Start, Stop
<1>3. CASE Call(q)
  BY <1>2, <1>3, Zenon DEF Call, Receive, ReceiveAny, ServeReturns, CallRefused, shared, List,
     ListUnavailable, Visit, Listed
<1>4. CASE Func(q) \/ Abandon(q) \/ \E c \in Command : Begin(q, c)
  BY <1>4, Zenon DEF Func, PullOnce, PullDone, PullPage, Abandon, Begin, shared
<1>5. QED
  BY <1>3, <1>4

\* A step of one query touches neither the marks nor the visits of another, nor
\* the core; and there are listeners only with a core.
LEMMA TouchesNoOther ==
    ASSUME RegistryInv, NEW q \in Queries,
           Func(q) \/ Call(q) \/ Abandon(q) \/ \E c \in Command : Begin(q, c)
    PROVE  /\ core' = core
           /\ core # "dynamic" => servers' = servers
           /\ \A r \in Queries \ {q} : done'[r] = done[r] /\ todo'[r] = todo[r]
<1>1. core' = core
  BY Zenon DEF Func, PullOnce, PullDone, PullPage, Abandon, Begin, Call, Start, Receive, ReceiveAny,
     ServeReturns, Stop, CallRefused, List, ListUnavailable, Visit, Listed, library
<1>2. core # "dynamic" => servers' = servers
  <2>1. core # "dynamic" => ~Start(q) /\ ~Stop(q)
    BY QueryFacts DEF QueryInv, Start, Stop
  <2>2. Start(q) \/ Stop(q) \/ servers' = servers
    BY Zenon DEF Func, PullOnce, PullDone, PullPage, Abandon, Begin, Call, Receive, ReceiveAny,
       ServeReturns, CallRefused, List, ListUnavailable, Visit, Listed, shared
  <2>3. QED
    BY <2>1, <2>2
<1>3. /\ done' = done \/ \E v : done' = Set(done, q, v)
      /\ todo' = todo \/ \E v : todo' = Set(todo, q, v)
  <2>1. CASE Func(q)
    BY <2>1, Zenon DEF Func, PullOnce, PullDone, PullPage, Mark
  <2>2. CASE Call(q)
    BY <2>2, Zenon DEF Call, Start, Receive, ReceiveAny, ServeReturns, Stop, CallRefused, List,
       ListUnavailable, Visit, Listed
  <2>3. CASE Abandon(q) \/ \E c \in Command : Begin(q, c)
    BY <2>3, Zenon DEF Abandon, Begin
  <2>4. QED
    BY <2>1, <2>2, <2>3
<1>4. DOMAIN done = Queries /\ DOMAIN todo = Queries
  BY QueryFacts
<1>5. QED
  BY <1>1, <1>2, <1>3, <1>4 DEF Set

\* A query none of whose state changes keeps what is known of it.
LEMMA UntouchedKeepsQuery ==
    ASSUME NEW q \in Queries, QueryInv(q), pc'[q] = pc[q], cmd'[q] = cmd[q], output'[q] = output[q],
           rows'[q] = rows[q], offset'[q] = offset[q], done'[q] = done[q], todo'[q] = todo[q],
           pc[q] # "new" => core' = core, pc[q] = "visit" => servers' = servers
    PROVE  QueryInv(q)'
<1>1. RowsInv(q)'
  BY DEF QueryInv, RowsInv, Listing, ListenersOf, Listener
<1>2. pc[q] = "visit" => (ListenersOf(output[q]))' = ListenersOf(output[q])
  BY DEF ListenersOf, Listener
<1>3. QED
  BY <1>1, <1>2 DEF QueryInv

\* RegistryInv is inductive.
LEMMA RegistryInvStep == RegistryInv /\ [Next]_vars => RegistryInv'
<1> SUFFICES ASSUME RegistryInv, [Next]_vars PROVE RegistryInv'
  OBVIOUS
<1>1. PagesInv'
  BY PagesStep DEF RegistryInv
<1>2. ASSUME NEW q \in Queries,
             Func(q) \/ Call(q) \/ Abandon(q) \/ \E c \in Command : Begin(q, c)
      PROVE  RegistryInv'
  <2>1. QueryInv(q)'
    BY <1>2, FuncKeepsQuery, CallKeepsQuery
  <2>2. ASSUME NEW r \in Queries \ {q} PROVE QueryInv(r)'
    <3>1. QueryInv(r) /\ PagesInv
      BY DEF RegistryInv
    <3>2. QED
      BY <1>2, <2>2, <3>1, TouchesItsOwn, TouchesNoOther, OthersSeeTheirServers,
         UntouchedKeepsQuery
  <2>3. core # "none"
    <3>1. core = "none" => pc[q] = "new"
      BY DEF RegistryInv
    <3>2. pc[q] = "new" => core # "none"
      BY <1>2 DEF Func, PullOnce, PullDone, PullPage, Abandon, Begin, Call, Start, Receive,
         ReceiveAny, Stop, CallRefused, List, ListUnavailable, Visit, Listed
    <3>3. QED
      BY <3>1, <3>2
  <2>4. QED
    BY <1>1, <1>2, <2>1, <2>2, <2>3, TouchesNoOther DEF RegistryInv
<1>3. CASE Load
  <2>1. \A q \in Queries : QueryInv(q)'
    BY <1>3, UntouchedKeepsQuery DEF Load, RegistryInv
  <2>2. core' # "none" /\ (core' # "dynamic" => servers' = {})
    BY <1>3 DEF Load, RegistryInv
  <2>3. QED
    BY <1>1, <2>1, <2>2 DEF RegistryInv
<1>4. CASE UNCHANGED vars
  <2>1. \A q \in Queries : QueryInv(q)'
    BY <1>4, UntouchedKeepsQuery DEF vars, library, shared, RegistryInv
  <2>2. QED
    BY <1>1, <1>4, <2>1 DEF vars, library, shared, RegistryInv
<1>5. QED
  BY <1>2, <1>3, <1>4 DEF Next

\* It holds at first.
LEMMA RegistryInvInit == Init => RegistryInv
<1> SUFFICES ASSUME Init PROVE RegistryInv
  OBVIOUS
<1>1. PagesInv
  <2>1. ASSUME NEW q \in Queries PROVE ListInv(q)
    BY DEF Init, ListInv, Listing
  <2>2. QED
    BY <2>1, TypeInit DEF Init, PagesInv
<1>2. ASSUME NEW q \in Queries PROVE QueryInv(q)
  BY DEF Init, QueryInv, RowsInv, Listing
<1>3. QED
  BY <1>1, <1>2 DEF Init, RegistryInv

-----------------------------------------------------------------------------
(* Steps of queries and steps of the registry.                              *)

SameImage(q) == Phase(q)' = Phase(q) /\ Asks(q)' = Asks(q) /\ Result(q)' = Result(q)

\* A query whose state does not change asks for and has seen the same.
LEMMA UntouchedImage ==
    ASSUME NEW q \in Queries, pc'[q] = pc[q], cmd'[q] = cmd[q], output'[q] = output[q],
           rows'[q] = rows[q], done'[q] = done[q], pc[q] = "visit" => servers' = servers
    PROVE  SameImage(q)
<1>1. Phase(q)' = Phase(q)
  BY DEF Phase
<1>2. Asks(q)' = Asks(q)
  BY DEF Asks, Target
<1>3. Seen(q)' = Seen(q)
  BY DEF Seen, Target, Listener, ListenersOf
<1>4. Result(q)' = Result(q)
  BY <1>1, <1>3 DEF Result
<1>5. QED
  BY <1>1, <1>2, <1>4 DEF SameImage

\* Nothing changes in the registry.
LEMMA ImageStutters ==
    ASSUME servers' = servers, \A q \in Queries : SameImage(q)
    PROVE  UNCHANGED Registry!vars
BY DEF Registry!vars, SameImage

\* A query calls.
LEMMA ImageCalls ==
    ASSUME NEW q \in Queries, \A r \in Queries \ {q} : SameImage(r), servers' = servers,
           Phase(q) = "idle", Phase(q)' = "called", Asks(q)' \in Registry!Request,
           Result(q)' = Result(q)
    PROVE  Registry!Call(q)
BY DEF Registry!Call, SameImage

\* A query is refused.
LEMMA ImageRefuses ==
    ASSUME NEW q \in Queries, \A r \in Queries \ {q} : SameImage(r), servers' = servers,
           Phase(q) = "called", Phase(q)' = "answered", Asks(q)' = Asks(q), Result(q)' = Err
    PROVE  Registry!Refuse(q)
BY DEF Registry!Refuse, SameImage

\* A query is answered.
LEMMA ImageAnswers ==
    ASSUME NEW q \in Queries, \A r \in Queries \ {q} : SameImage(r), servers' = servers,
           Phase(q) = "effective", Phase(q)' = "answered", Asks(q)' = Asks(q),
           Result(q)' = Result(q) \/ Result(q)' = Err
    PROVE  Registry!Answer(q)
BY DEF Registry!Answer, SameImage

\* A query takes effect.
LEMMA ImageTakesEffect ==
    ASSUME NEW q \in Queries, \A r \in Queries \ {q} : SameImage(r),
           Phase(q) = "called", Phase(q)' = "effective", Asks(q)' = Asks(q),
           \/ /\ Asks(q).op = "serve" /\ servers' = servers \cup {Asks(q).listener}
              /\ Result(q)' = Asks(q).listener
           \/ /\ Asks(q).op = "stop" /\ servers' = servers \ {Asks(q).listener}
              /\ Result(q)' = (Asks(q).listener \in servers)
           \/ /\ Asks(q).op = "servers" /\ servers' = servers
              /\ Result(q)' = servers
    PROVE  Registry!Effect(q)
BY DEF Registry!Effect, Registry!Serve, Registry!Stop, Registry!List, SameImage

\* What another query asks for and has seen does not change.
LEMMA OthersKeepTheirImage ==
    ASSUME RegistryInv, NEW q \in Queries,
           Func(q) \/ Call(q) \/ Abandon(q) \/ \E c \in Command : Begin(q, c)
    PROVE  \A r \in Queries \ {q} : SameImage(r)
<1>1. PagesInv
  BY DEF RegistryInv
<1>2. QED
  BY <1>1, TouchesItsOwn, TouchesNoOther, OthersSeeTheirServers, UntouchedImage

\* A listener that is to be stopped is a protocol and an address, too.
LEMMA StopTargetIsServer ==
    ASSUME NEW c \in Command, c.op = "stop", Parse(c.protocol) # Err
    PROVE  Target(c) \in Server
<1>1. c.address \in Texts
  BY AddressAssumption DEF Command
<1>2. Parse(c.protocol) \in Protocols
  <2>1. c.protocol \in {"pgwire", "postgres", "postgresql", "flight", "http", "quack"}
    BY DEF Parse, Spellings
  <2>2. QED
    BY <2>1 DEF Parse, Spellings, Protocols
<1>3. AbiProtocol[Parse(c.protocol)] \in Nat
  BY <1>2 DEF Protocols, AbiProtocol
<1>4. FromUtf8(c.address) \in Addresses
  BY <1>1 DEF Addresses
<1>5. QED
  BY <1>3, <1>4 DEF Target, Server

\* bind and init are the call of a query, but for core_status, which has no part in
\* the registry.
LEMMA BeginIsCall ==
    ASSUME RegistryInv, NEW q \in Queries, NEW c \in Command, Begin(q, c)
    PROVE  Registry!Call(q) \/ UNCHANGED Registry!vars
<1>1. /\ pc[q] = "new" /\ ~done[q] /\ done' = done /\ servers' = servers /\ cmd'[q] = c
      /\ pc'[q] = IF c.op = "servers" THEN "list" ELSE "pull"
  BY QueryFacts DEF Begin, Set, Goto, shared, QueryInv
<1>2. \A r \in Queries \ {q} : SameImage(r)
  BY OthersKeepTheirImage
<1>3. c.op \in {"serve", "stop", "servers", "status"}
  BY DEF Command
<1>4. Phase(q) = "idle" /\ Asks(q) = None /\ Result(q) = None
  BY <1>1 DEF Phase, Asks, Result
<1>5. CASE c.op = "status"
  <2>1. Phase(q)' = "idle" /\ Asks(q)' = None
    BY <1>1, <1>5 DEF Phase, Asks
  <2>2. Result(q)' = None
    BY <2>1 DEF Result
  <2>3. QED
    BY <1>1, <1>2, <1>4, <2>1, <2>2, ImageStutters DEF SameImage
<1>6. CASE c.op # "status"
  <2>1. Phase(q)' = "called"
    BY <1>1, <1>3, <1>6 DEF Phase, Inside, Ended
  <2>2. Result(q)' = None
    BY <2>1 DEF Result
  <2>3. Asks(q)' \in Registry!Request
    <3> DEFINE listener == IF c.op = "servers" \/ (c.op = "stop" /\ Parse(c.protocol) = Err)
                           THEN None ELSE Target(c)
    <3>1. Asks(q)' = [op |-> c.op, listener |-> listener]
      BY <1>1, <1>6 DEF Asks, Target
    <3>2. listener \in Server \cup {None}
      BY <1>3, <1>6, TargetIsServer, StopTargetIsServer
    <3>3. QED
      BY <1>3, <1>6, <3>1, <3>2 DEF Registry!Request
  <2>4. QED
    BY <1>1, <1>2, <1>4, <2>1, <2>2, <2>3, ImageCalls
<1>7. QED
  BY <1>5, <1>6

\* What a query asks for is fixed.
LEMMA AsksIsFixed ==
    ASSUME NEW q \in Queries, pc[q] # "new", pc'[q] # "new", cmd'[q] = cmd[q]
    PROVE  Asks(q)' = Asks(q)
BY DEF Asks, Target

\* A query that fails or is abandoned gets an error, from a registry it has or has
\* not changed.
LEMMA FailureIsAnswer ==
    ASSUME NEW q \in Queries, \A r \in Queries \ {q} : SameImage(r), servers' = servers,
           pc[q] \notin Ended \cup {"new"}, pc'[q] \in {"failed", "abandoned"}, cmd'[q] = cmd[q]
    PROVE  \/ Registry!Refuse(q) \/ Registry!Answer(q)
           \/ UNCHANGED Registry!vars
<1>1. Asks(q)' = Asks(q)
  BY AsksIsFixed, Zenon DEF Ended
<1>2. CASE cmd[q].op = "status"
  <2>1. Phase(q) = "idle" /\ Phase(q)' = "idle"
    BY <1>2 DEF Phase
  <2>2. Result(q) = None /\ Result(q)' = None
    BY <2>1 DEF Result
  <2>3. QED
    BY <1>1, <2>1, <2>2, ImageStutters DEF SameImage
<1>3. CASE cmd[q].op # "status"
  <2>1. Phase(q) \in {"called", "effective"}
    BY <1>3 DEF Phase, Ended
  <2>2. Phase(q)' = "answered"
    BY <1>3 DEF Phase, Ended
  <2>3. Result(q)' = Err
    BY <2>2 DEF Result
  <2>4. QED
    BY <1>1, <2>1, <2>2, <2>3, ImageRefuses, ImageAnswers
<1>4. QED
  BY <1>2, <1>3

\* What a step of a query is in the registry.
ImageStep(q) == \/ Registry!Effect(q) \/ Registry!Answer(q) \/ Registry!Refuse(q)
                \/ UNCHANGED Registry!vars

\* A call of func leads to the core, emits rows of what was seen, or ends the query.
LEMMA FuncIsStep ==
    ASSUME RegistryInv, NEW q \in Queries, Func(q) \/ Abandon(q)
    PROVE  ImageStep(q)
<1> USE QueryFacts
<1>1. /\ pc[q] = "pull" /\ cmd' = cmd /\ servers' = servers
      /\ \A r \in Queries \ {q} : SameImage(r)
  <2>1. pc[q] = "pull" /\ cmd' = cmd /\ servers' = servers
    BY DEF Func, PullOnce, PullDone, PullPage, Abandon, shared
  <2>2. QED
    BY <2>1, OthersKeepTheirImage
<1>2. ASSUME pc'[q] \in {"failed", "abandoned"} PROVE ImageStep(q)
  BY <1>1, <1>2, FailureIsAnswer DEF ImageStep, Ended
<1>3. pc'[q] # "new" => Asks(q)' = Asks(q)
  BY <1>1, AsksIsFixed
<1>4. CASE PullOnce(q)
  <2>1. ~done[q] /\ cmd[q].op # "servers"
    BY <1>4 DEF PullOnce
  <2>2. CASE cmd[q].op = "status" /\ pc' = pc
    <3>1. Phase(q) = "idle" /\ Phase(q)' = "idle"
      BY <1>1, <2>2 DEF Phase
    <3>2. Result(q) = None /\ Result(q)' = None
      BY <3>1 DEF Result
    <3>3. QED
      BY <1>1, <1>3, <2>2, <3>1, <3>2, ImageStutters DEF SameImage, ImageStep
  <2>3. CASE cmd[q].op \in {"serve", "stop"} /\ pc'[q] = cmd[q].op
    <3>1. Phase(q) = "called" /\ Phase(q)' = "called"
      BY <1>1, <2>1, <2>3 DEF Phase, Inside, Ended
    <3>2. Result(q) = None /\ Result(q)' = None
      BY <3>1 DEF Result
    <3>3. QED
      BY <1>1, <1>3, <2>3, <3>1, <3>2, ImageStutters DEF SameImage, ImageStep
  <2>4. \/ cmd[q].op = "status" /\ pc' = pc
        \/ pc'[q] = "failed"
        \/ cmd[q].op \in {"serve", "stop"} /\ pc'[q] = cmd[q].op
    BY <1>4 DEF PullOnce, Goto
  <2>5. QED
    BY <1>2, <2>2, <2>3, <2>4
<1>5. CASE PullDone(q)
  <2>1. done[q] /\ cmd[q].op # "servers" /\ pc'[q] = "end" /\ rows' = rows
    BY <1>5 DEF PullDone, Goto
  <2>2. CASE cmd[q].op = "status"
    <3>1. Phase(q) = "idle" /\ Phase(q)' = "idle"
      BY <1>1, <2>2 DEF Phase
    <3>2. Result(q) = None /\ Result(q)' = None
      BY <3>1 DEF Result
    <3>3. QED
      BY <1>1, <1>3, <2>1, <3>1, <3>2, ImageStutters DEF SameImage, ImageStep
  <2>3. CASE cmd[q].op \in {"serve", "stop"}
    <3>1. Phase(q) = "effective" /\ Phase(q)' = "answered"
      BY <1>1, <2>1, <2>3 DEF Phase, Inside, Ended
    <3>2. Seen(q)' = Seen(q)
      BY <1>1, <2>1, <2>3 DEF Seen, Listener
    <3>3. Result(q)' = Result(q)
      BY <1>1, <2>1, <3>1, <3>2 DEF Result
    <3>4. QED
      BY <1>1, <1>3, <2>1, <3>1, <3>3, ImageAnswers DEF ImageStep
  <2>4. cmd[q].op \in {"serve", "stop", "servers", "status"}
    BY <1>1 DEF Command
  <2>5. QED
    BY <2>1, <2>2, <2>3, <2>4
<1>6. CASE PullPage(q)
  <2>1. /\ cmd[q].op = "servers" /\ output' = output /\ pc'[q] \in {"pull", "end", "failed"}
    BY <1>6 DEF PullPage, Goto
  <2>2. Phase(q) = "effective" /\ Result(q) = ListenersOf(output[q])
    BY <1>1, <2>1 DEF Phase, Result, Seen, Inside, Ended
  <2>3. CASE pc'[q] = "pull"
    <3>1. Phase(q)' = "effective" /\ Result(q)' = ListenersOf(output[q])
      BY <1>1, <2>1, <2>3 DEF Phase, Result, Seen, ListenersOf, Listener, Inside, Ended
    <3>2. QED
      BY <1>1, <1>3, <2>2, <2>3, <3>1, ImageStutters DEF SameImage, ImageStep
  <2>4. CASE pc'[q] = "end"
    <3>1. Phase(q)' = "answered" /\ Result(q)' = ListenersOf(rows[q])'
      BY <1>1, <2>1, <2>4 DEF Phase, Result, Seen, ListenersOf, Listener, Inside, Ended
    <3>2. ListenersOf(rows[q])' = ListenersOf(output[q])'
      BY <1>1, <1>6, <2>1, <2>4, PageKeepsRows DEF RowsInv, Listing
    <3>3. ListenersOf(output[q])' = ListenersOf(output[q])
      BY <2>1 DEF ListenersOf, Listener
    <3>4. QED
      BY <1>1, <1>3, <2>2, <2>4, <3>1, <3>2, <3>3, ImageAnswers DEF ImageStep
  <2>5. QED
    BY <1>2, <2>1, <2>3, <2>4
<1>7. CASE Abandon(q)
  BY <1>2, <1>7 DEF Abandon, Goto
<1>8. QED
  BY <1>4, <1>5, <1>6, <1>7 DEF Func

\* A serve call returns with the row of its listener, or fails.
LEMMA ServeReturnIsStep ==
    ASSUME RegistryInv, NEW q \in Queries, Receive(q) \/ ReceiveAny(q)
    PROVE  ImageStep(q)
<1> DEFINE address == BoundAddress(cmd[q].address)
<1>1. /\ pc[q] = "receive" /\ cmd' = cmd /\ servers' = servers /\ done' = done
      /\ done[q] /\ output[q] = Err /\ cmd[q] \in Command /\ cmd[q].op = "serve"
      /\ pc \in [Queries -> Wheres] /\ DOMAIN output = Queries /\ DOMAIN rows = Queries
  BY QueryFacts DEF Receive, ReceiveAny, ServeReturns, QueryInv
<1>2. \A r \in Queries \ {q} : SameImage(r)
  <2>1. Call(q)
    BY Zenon DEF Call
  <2>2. QED
    BY <2>1, OthersKeepTheirImage
<1>3. Goto(q, "failed") \/ (/\ Goto(q, "pull") /\ output'[q] \notin {Err} \cup Unprintable
                            /\ rows' = Set(rows, q, <<Row(AsStr[cmd[q].protocol], output'[q])>>))
  <2>1. \E status, size : ServeReturns(q, status, size)
    BY Zenon DEF Receive, ReceiveAny
  <2>2. PICK status, size : ServeReturns(q, status, size)
    BY <2>1
  <2>3. CASE status # OK
    <3>1. CallFails(q, status, size)
      BY <2>2, <2>3 DEF ServeReturns
    <3>2. QED
      BY <3>1 DEF CallFails
  <2>4. CASE status = OK
    BY <2>2, <2>4 DEF ServeReturns
  <2>5. QED
    BY <2>3, <2>4
<1>4. CASE Goto(q, "failed")
  <2>1. pc'[q] = "failed"
    BY <1>1, <1>4 DEF Goto
  <2>2. QED
    BY <1>1, <1>2, <2>1, FailureIsAnswer DEF ImageStep, Ended
<1>5. CASE /\ Goto(q, "pull") /\ output'[q] \notin {Err} \cup Unprintable
           /\ rows' = Set(rows, q, <<Row(AsStr[cmd[q].protocol], output'[q])>>)
  <2>1. cmd[q].protocol \in Protocols /\ cmd[q].address \in Requested
    BY <1>1, UseAssumption DEF Command
  <2>2. address \in Texts /\ Target(cmd[q]).address = FromUtf8(address)
    BY <1>1, <2>1, AddressAssumption DEF BoundAddress, Target
  <2>3. output'[q] = address
    <3>1. CASE Receive(q)
      <4>1. output'[q] = BorrowedString(Target(cmd[q]).address)
        BY <1>1, <3>1 DEF Receive, Set
      <4>2. QED
        BY <2>2, <4>1, StringsRoundTrip
    <3>2. CASE ReceiveAny(q)
      <4>1. \/ output' = output
            \/ \E value \in {Target(cmd[q]).address}
                             \cup [data : {Null, NotUtf8} \cup Unprintable, len : {1}] :
                  output' = Set(output, q, BorrowedString(value))
        BY <3>2, Zenon DEF ReceiveAny
      <4>2. PICK value \in {Target(cmd[q]).address}
                           \cup [data : {Null, NotUtf8} \cup Unprintable, len : {1}] :
              output' = Set(output, q, BorrowedString(value))
        BY <1>1, <1>5, <4>1
      <4>3. output'[q] = BorrowedString(value)
        BY <1>1, <4>2 DEF Set
      <4>4. value \in [data : {Null, NotUtf8} \cup Unprintable, len : {1}]
            => BorrowedString(value) \in {Err} \cup Unprintable
        BY DEF BorrowedString
      <4>5. value = Target(cmd[q]).address
        BY <1>5, <4>3, <4>4
      <4>6. QED
        BY <2>2, <4>3, <4>5, StringsRoundTrip
    <3>3. QED
      BY <3>1, <3>2
  <2>4. Listener(Row(AsStr[cmd[q].protocol], address)) = Target(cmd[q])
    <3>1. Parse(AsStr[cmd[q].protocol]) = cmd[q].protocol
      BY <2>1, ProtocolsRoundTrip
    <3>2. Target(cmd[q]) = [protocol |-> AbiProtocol[cmd[q].protocol], address |-> FromUtf8(address)]
      BY <1>1 DEF Target
    <3>3. QED
      BY <3>1, <3>2 DEF Listener, Row
  <2>5. pc'[q] = "pull" /\ rows'[q] = <<Row(AsStr[cmd[q].protocol], address)>>
    BY <1>1, <1>5, <2>3 DEF Goto, Set
  <2>6. Phase(q) = "effective" /\ Phase(q)' = "effective"
    BY <1>1, <2>5 DEF Phase, Inside, Ended
  <2>7. Result(q) = Target(cmd[q])
    BY <1>1, <2>6 DEF Result, Seen
  <2>8. Result(q)' = Target(cmd[q])
    <3>1. Seen(q)' = Listener(rows[q][1])'
      BY <1>1, <2>5 DEF Seen
    <3>2. Listener(rows[q][1])' = Listener(Row(AsStr[cmd[q].protocol], address))
      BY <2>5 DEF Listener
    <3>3. Result(q)' = Seen(q)'
      BY <2>5, <2>6 DEF Result
    <3>4. QED
      BY <2>4, <3>1, <3>2, <3>3
  <2>9. Asks(q)' = Asks(q)
    BY <1>1, <2>5, AsksIsFixed
  <2>10. QED
    BY <1>1, <1>2, <2>6, <2>7, <2>8, <2>9, ImageStutters DEF SameImage, ImageStep
<1>6. QED
  BY <1>3, <1>4, <1>5

\* start, stop and list take effect at one moment, under the Mutex.
LEMMA EffectIsStep ==
    ASSUME RegistryInv, NEW q \in Queries,
           Start(q) \/ Stop(q) \/ List(q) \/ ListUnavailable(q)
    PROVE  Registry!Effect(q)
<1> USE QueryFacts
<1>1. /\ pc[q] \in {"serve", "stop", "list"} /\ cmd' = cmd /\ done' = done
      /\ \A r \in Queries \ {q} : SameImage(r)
  <2>1. pc[q] \in {"serve", "stop", "list"} /\ cmd' = cmd /\ done' = done
    BY DEF Start, Stop, List, ListUnavailable
  <2>2. QED
    BY <2>1, OthersKeepTheirImage DEF Call
<1>2. pc'[q] # "new" => Asks(q)' = Asks(q)
  BY <1>1, AsksIsFixed
<1>3. cmd[q].op \in {"serve", "stop", "servers"}
  BY <1>1
<1>4. Phase(q) = "called"
  BY <1>1, <1>3 DEF Phase, Inside, Ended
<1>5. CASE Start(q)
  <2>1. /\ pc[q] = "serve" /\ cmd[q].op = "serve" /\ pc'[q] = "receive"
        /\ servers' = servers \cup {Target(cmd[q])}
    BY <1>5 DEF Start, Goto
  <2>2. Asks(q).op = "serve" /\ Asks(q).listener = Target(cmd[q])
    BY <2>1 DEF Asks
  <2>3. Phase(q)' = "effective" /\ Result(q)' = Target(cmd[q])
    BY <1>1, <2>1 DEF Phase, Result, Seen, Target, Inside, Ended
  <2>4. QED
    BY <1>1, <1>2, <1>4, <2>1, <2>2, <2>3, ImageTakesEffect
<1>6. CASE Stop(q)
  <2>1. /\ pc[q] = "stop" /\ cmd[q].op = "stop" /\ pc'[q] = "pull"
        /\ servers' = servers \ {Target(cmd[q])} /\ done[q]
        /\ Parse(cmd[q].protocol) # Err
        /\ rows'[q] = <<IF servers' # servers THEN "stopped" ELSE "no">>
    BY <1>6 DEF Stop, Goto, Set, QueryInv
  <2>2. Asks(q).op = "stop" /\ Asks(q).listener = Target(cmd[q])
    BY <2>1 DEF Asks
  <2>3. Phase(q)' = "effective" /\ Result(q)' = (rows'[q] = <<"stopped">>)
    BY <1>1, <2>1 DEF Phase, Result, Seen, Inside, Ended
  <2>4. (rows'[q] = <<"stopped">>) = (Target(cmd[q]) \in servers)
    <3>1. CASE Target(cmd[q]) \in servers
      <4>1. servers' # servers
        BY <2>1, <3>1
      <4>2. QED
        BY <2>1, <3>1, <4>1
    <3>2. CASE Target(cmd[q]) \notin servers
      <4>1. servers' = servers
        BY <2>1, <3>2
      <4>2. <<"no">> # <<"stopped">>
        OBVIOUS
      <4>3. QED
        BY <2>1, <3>2, <4>1, <4>2
    <3>3. QED
      BY <3>1, <3>2
  <2>5. QED
    BY <1>1, <1>2, <1>4, <2>1, <2>2, <2>3, <2>4, ImageTakesEffect
<1>7. CASE List(q)
  <2>1. cmd[q].op = "servers" /\ pc'[q] = "visit" /\ servers' = servers
    BY <1>7 DEF List, Goto
  <2>2. Asks(q).op = "servers"
    BY <1>1, <2>1 DEF Asks
  <2>3. Phase(q)' = "effective" /\ Result(q)' = servers
    BY <1>1, <2>1 DEF Phase, Result, Seen, Inside, Ended
  <2>4. QED
    BY <1>1, <1>2, <1>4, <2>1, <2>2, <2>3, ImageTakesEffect
<1>8. CASE ListUnavailable(q)
  <2>1. /\ cmd[q].op = "servers" /\ pc'[q] = "pull" /\ servers' = servers /\ output'[q] = <<>>
        /\ servers = {}
    BY <1>8 DEF ListUnavailable, Goto, Set, shared, RegistryInv
  <2>2. Asks(q).op = "servers"
    BY <1>1, <2>1 DEF Asks
  <2>3. Phase(q)' = "effective" /\ Result(q)' = ListenersOf(output[q])'
    BY <1>1, <2>1 DEF Phase, Result, Seen, ListenersOf, Listener, Inside, Ended
  <2>4. ListenersOf(output[q])' = {}
    BY <2>1 DEF ListenersOf
  <2>5. QED
    BY <1>1, <1>2, <1>4, <2>1, <2>2, <2>3, <2>4, ImageTakesEffect
<1>9. QED
  BY <1>5, <1>6, <1>7, <1>8

\* The visits, and the return of list, change nothing but may fail.
LEMMA VisitIsStep ==
    ASSUME RegistryInv, NEW q \in Queries, Visit(q) \/ Listed(q)
    PROVE  ImageStep(q)
<1>1. /\ pc[q] = "visit" /\ cmd[q].op = "servers" /\ cmd' = cmd /\ servers' = servers
      /\ pc \in [Queries -> Wheres] /\ QueryInv(q)
      /\ \A r \in Queries \ {q} : SameImage(r)
  <2>1. pc[q] = "visit" /\ cmd' = cmd /\ servers' = servers
    BY DEF Visit, Listed
  <2>2. QED
    BY <2>1, QueryFacts, OthersKeepTheirImage DEF Call
<1>2. CASE pc'[q] = "failed"
  BY <1>1, <1>2, FailureIsAnswer DEF ImageStep, Ended
<1>3. Phase(q) = "effective" /\ Result(q) = servers
  BY <1>1 DEF Phase, Result, Seen, Inside, Ended
<1>4. CASE Visit(q) /\ pc' = pc
  <2>1. Phase(q)' = "effective" /\ Result(q)' = servers /\ Asks(q)' = Asks(q)
    BY <1>1, <1>4, AsksIsFixed DEF Phase, Result, Seen, Inside, Ended
  <2>2. QED
    BY <1>1, <1>3, <2>1, ImageStutters DEF SameImage, ImageStep
<1>5. CASE Listed(q) /\ output[q] # Err
  <2>1. pc'[q] = "pull" /\ output' = output /\ ListenersOf(output[q]) = servers
    BY <1>1, <1>5 DEF Listed, Goto, QueryInv
  <2>2. Phase(q)' = "effective" /\ Result(q)' = ListenersOf(output[q]) /\ Asks(q)' = Asks(q)
    BY <1>1, <2>1, AsksIsFixed DEF Phase, Result, Seen, ListenersOf, Listener, Inside, Ended
  <2>3. QED
    BY <1>1, <1>3, <2>1, <2>2, ImageStutters DEF SameImage, ImageStep
<1>6. CASE Listed(q) /\ output[q] = Err
  BY <1>1, <1>2, <1>6 DEF Listed, Goto
<1>7. Visit(q) => pc' = pc \/ Goto(q, "failed")
  BY Zenon DEF Visit, CallFails
<1>8. QED
  BY <1>1, <1>2, <1>4, <1>5, <1>6, <1>7 DEF Goto

\* Every call of the provider is a step of the registry.
LEMMA CallIsStep ==
    ASSUME RegistryInv, NEW q \in Queries, Call(q)
    PROVE  ImageStep(q)
<1>1. CASE CallRefused(q)
  <2>1. /\ pc[q] \in {"serve", "stop", "list"} /\ pc'[q] = "failed" /\ cmd' = cmd
        /\ servers' = servers
    BY <1>1, QueryFacts DEF CallRefused, CallFails, Goto, shared
  <2>2. QED
    BY <2>1, OthersKeepTheirImage, FailureIsAnswer DEF ImageStep, Ended
<1>2. CASE Receive(q) \/ ReceiveAny(q)
  BY <1>2, ServeReturnIsStep
<1>3. CASE Start(q) \/ Stop(q) \/ List(q) \/ ListUnavailable(q)
  BY <1>3, EffectIsStep DEF ImageStep
<1>4. CASE Visit(q) \/ Listed(q)
  BY <1>4, VisitIsStep
<1>5. QED
  BY <1>1, <1>2, <1>3, <1>4 DEF Call

\* A library that is loaded may bring listeners with it, before any query.
LEMMA LoadIsPreset ==
    ASSUME RegistryInv, Load
    PROVE  Registry!Preset
<1>1. \A q \in Queries : pc[q] = "new"
  BY DEF Load, RegistryInv
<1>2. \A q \in Queries : SameImage(q) /\ Phase(q) = "idle"
  <2> TAKE q \in Queries
  <2>1. SameImage(q)
    BY <1>1, UntouchedImage DEF Load
  <2>2. QED
    BY <1>1, <2>1 DEF Phase
<1>3. servers' \subseteq Server
  <2>1. TypeInv'
    BY TypeStep DEF RegistryInv, PagesInv, Next
  <2>2. QED
    BY <2>1 DEF TypeInv, TypeOK
<1>4. QED
  BY <1>2, <1>3 DEF Registry!Preset, SameImage

\* The table functions implement ListenerRegistry: a serve, stop or list takes effect
\* at most once, at one moment between its call and its answer, however often func is
\* called, whatever other queries do and whatever the provider answers; and what
\* a query reports was true at that moment.
THEOREM ImplementsRegistry == Spec => KeepsRegistry
<1>1. Init => Registry!Init
  <2> SUFFICES ASSUME Init PROVE Registry!Init
    OBVIOUS
  <2>1. ASSUME NEW q \in Queries
        PROVE  Phase(q) = "idle" /\ Asks(q) = None /\ Result(q) = None
    <3>1. pc[q] = "new"
      BY DEF Init
    <3>2. Phase(q) = "idle" /\ Asks(q) = None
      BY <3>1 DEF Phase, Asks
    <3>3. QED
      BY <3>2 DEF Result
  <2>2. QED
    BY <2>1 DEF Init, Registry!Init
<1>2. RegistryInv /\ [Next]_vars => [Registry!Next]_(Registry!vars)
  <2> SUFFICES ASSUME RegistryInv, [Next]_vars PROVE Registry!Next \/ UNCHANGED Registry!vars
    OBVIOUS
  <2>1. ASSUME NEW q \in Queries, Func(q) \/ Call(q) \/ Abandon(q)
        PROVE  Registry!Next \/ UNCHANGED Registry!vars
    BY <2>1, FuncIsStep, CallIsStep DEF ImageStep, Registry!Next
  <2>2. ASSUME NEW q \in Queries, NEW c \in Command, Begin(q, c)
        PROVE  Registry!Next \/ UNCHANGED Registry!vars
    BY <2>2, BeginIsCall DEF Registry!Next
  <2>3. CASE Load
    BY <2>3, LoadIsPreset DEF Registry!Next
  <2>4. CASE UNCHANGED vars
    BY <2>4, UntouchedImage, ImageStutters DEF vars, library, shared
  <2>5. QED
    BY <2>1, <2>2, <2>3, <2>4 DEF Next
<1>3. QED
  BY <1>1, <1>2, RegistryInvInit, RegistryInvStep, PTL DEF Spec, KeepsRegistry, Registry!Spec
=============================================================================
