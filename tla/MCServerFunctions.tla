------------------------- MODULE MCServerFunctions -------------------------
EXTENDS ServerFunctions

\* No table, tables that end in the header, after it, before the last entry or
\* behind it, of both versions, with and without every entry.
SomeTables == {t \in Table : t = Null \/ (t.struct_size \in {4, 8, 40, 48, 56} /\
                                          t.entries \in {Entries, Entries \ {"list"}})}

\* Nothing, three listeners, a protocol unknown here beside a known one, an address
\* that is no text, or one that no row can show.
Text(n, a) == [protocol |-> n, address |-> FromUtf8(a)]
SomeEarlier == {{}, {Text(n, Known) : n \in 1..3}, {Text(5, Known), Text(1, Known)},
                {[protocol |-> 1, address |-> [data |-> NotUtf8, len |-> 1]]}}
               \cup {{Text(1, a)} : a \in Unprintable}
=============================================================================
