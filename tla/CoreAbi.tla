------------------------------ MODULE CoreAbi ------------------------------
(***************************************************************************)
(* What crosses the boundary between the extension and a core provider,    *)
(* and how src/dynamic_core.rs and src/lib.rs take it in: the API table,   *)
(* statuses, protocols, borrowed strings, the error buffer, and the page   *)
(* of rows a table function may emit.  All of it is without state.         *)
(***************************************************************************)
EXTENDS Naturals, Sequences

CONSTANTS
    Texts,          \* addresses
    Empty,          \* the empty one
    Null, NotUtf8,  \* what the data of a byte string may be besides a text
    Err, None,
    ErrorCapacity,  \* bytes of an error buffer (4096)
    MaxUsize,       \* the largest usize
    MaxU32          \* the largest u32

ASSUME TextAssumption ==
    Empty \in Texts /\ Texts \cap {Null, NotUtf8, Err, None} = {} /\ Null # NotUtf8
ASSUME SizeAssumption ==
    /\ ErrorCapacity \in Nat /\ MaxUsize \in Nat /\ MaxU32 \in Nat
    /\ None \notin Nat \cup [from : Nat, to : Nat]

-----------------------------------------------------------------------------
(* Statuses and protocols.                                                  *)

OK == 0
INVALID_ARGUMENT == 1
INTERNAL == 5
Statuses == 0..5

Protocols == {"PgWire", "FlightSql", "Http", "Quack"}

AsStr == [PgWire |-> "pgwire", FlightSql |-> "flight", Http |-> "http", Quack |-> "quack"]

Spellings == [pgwire |-> "PgWire", postgres |-> "PgWire", postgresql |-> "PgWire",
              flight |-> "FlightSql", http |-> "Http", quack |-> "Quack"]

\* Protocol::parse of a trimmed name in lower case.
Parse(raw) == IF raw \in DOMAIN Spellings THEN Spellings[raw] ELSE Err

AbiProtocol == [PgWire |-> 1, FlightSql |-> 2, Http |-> 3, Quack |-> 4]

\* protocol_name: a provider may know protocols this extension does not.
ProtocolName(n) == IF n \in 1..4 THEN <<"pgwire", "flight", "http", "quack">>[n] ELSE Err

-----------------------------------------------------------------------------
(* Byte strings; a length of 1 stands for any positive one.                 *)

Bytes == [data : Texts \cup {Null, NotUtf8}, len : {0, 1}]

FromUtf8(text) == [data |-> text, len |-> IF text = Empty THEN 0 ELSE 1]

\* The byte strings a provider may give for an address: text, or none.
Addresses == {FromUtf8(text) : text \in Texts} \cup [data : {Null, NotUtf8}, len : {1}]

BorrowedNonEmpty(value) == IF value.data \in {Null, NotUtf8, Empty} THEN Err ELSE value.data

\* borrowed_string: the data of an empty string is not looked at.
BorrowedString(value) ==
    IF value.len = 0 THEN Empty
    ELSE IF value.data \in {Null, NotUtf8} THEN Err ELSE value.data

-----------------------------------------------------------------------------
(* Diagnostics: how much the provider has written, and how much it says it  *)
(* would have.                                                              *)

NewBuffer == [required |-> 0, written |-> 0]

\* write_output of the mock core: the whole message or nothing.
WriteOutput(buffer, size) ==
    [required |-> size, written |-> IF size > ErrorCapacity THEN buffer.written ELSE size]

\* ErrorBuffer::message: how many bytes of the buffer it takes for the message.
MessageShort(buffer) == IF buffer.required >= ErrorCapacity THEN None ELSE buffer.required
Message(buffer) == IF buffer.required > ErrorCapacity THEN None ELSE buffer.required

\* The error check_status makes of a status that is not OK.
Detail(status, buffer) ==
    IF Message(buffer) = None THEN [says |-> "requires", size |-> buffer.required]
    ELSE IF Message(buffer) = 0 THEN [says |-> "status", size |-> status]
    ELSE [says |-> "message", size |-> Message(buffer)]

-----------------------------------------------------------------------------
(* The API table: two u32 and five pointers.                                *)

Entries == {"create", "destroy", "start", "stop", "list"}
Sizes == 0..MaxU32
Table == [struct_size : Sizes, abi_version : {1, 2}, entries : SUBSET Entries] \cup {Null}

HeaderSize == 8
TableSize == 48

\* validate_api_table_header and the tests of the entries: whether the table is
\* accepted, and how many of its bytes were read before that was known.
ExamineUnsized(table) ==
    IF table = Null THEN [accepted |-> FALSE, read |-> 0]
    ELSE IF table.struct_size < HeaderSize THEN [accepted |-> FALSE, read |-> 4]
    ELSE IF table.abi_version # 1 THEN [accepted |-> FALSE, read |-> HeaderSize]
    ELSE [accepted |-> table.entries = Entries, read |-> TableSize]

Examine(table) ==
    IF table = Null THEN [accepted |-> FALSE, read |-> 0]
    ELSE IF table.struct_size < HeaderSize THEN [accepted |-> FALSE, read |-> 4]
    ELSE IF table.abi_version # 1 THEN [accepted |-> FALSE, read |-> HeaderSize]
    ELSE IF table.struct_size < TableSize THEN [accepted |-> FALSE, read |-> HeaderSize]
    ELSE [accepted |-> table.entries = Entries, read |-> TableSize]

-----------------------------------------------------------------------------
(* Paging.                                                                  *)

SaturatingAdd(a, b) == IF a + b > MaxUsize THEN MaxUsize ELSE a + b
WrappingAddOne(a, b) == (a + 1) % (MaxUsize + 1)
WrappingAdd(a, b) == (a + b) % (MaxUsize + 1)

\* chunk_bounds: the rows of the page that begins after `start` rows, or None.
ChunkBounds(total, start, capacity) ==
    IF start >= total \/ capacity = 0 THEN None
    ELSE LET end == SaturatingAdd(start, capacity)
         IN  [from |-> start, to |-> IF end > total THEN total ELSE end]
=============================================================================
