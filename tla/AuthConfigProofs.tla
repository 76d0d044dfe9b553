-------------------------- MODULE AuthConfigProofs --------------------------
(***************************************************************************)
(* Proofs about AuthConfig for any number of processes, users and tokens,  *)
(* edits and power losses.  FileInv and TempInv say what is on the disk,   *)
(* HeldInv how what a process is going to write relates to the file it     *)
(* will replace, and StaleInv why a power loss undoes nothing that was     *)
(* reported: only the entry of a process that has not reported can differ  *)
(* between the file and what a power loss would leave of it.               *)
(***************************************************************************)
EXTENDS AuthConfig, TLAPS

\* What is or may be found in the file's place is a whole, synced document.
Whole(f) == f.synced /\ f.doc # Torn /\ Uniform(Contents(f).users)
FileInv == \A f \in {file, disk} \cup behind : Whole(f)

\* The temporary file of each process.
TempInv == \A p \in Procs :
    /\ pc[p] \in {"idle", "prompt", "reread", "create", "syncdir", "done"} => temp[p] = "none"
    /\ pc[p] \in {"name", "write"} => temp[p] = "empty"
    /\ pc[p] = "failed" => temp[p] \in {"none", "empty"}
    /\ pc[p] = "replace" => temp[p] = "synced"
    /\ pc[p] \in {"name", "write", "sync", "replace"} => Uniform(held[p].users)

\* A process that is in a command has one; a wait is for a user command.
CommandInv == \A p \in Procs :
    /\ pc[p] # "idle" => cmd[p] \in Command
    /\ pc[p] \in {"prompt", "reread"} => OnUsers(cmd[p])

\* Only one process is between its reading and the end of the replacement.
ExclusionInv == overlap # "all" =>
    \A p, q \in Procs : pc[p] \in Section /\ pc[q] \in Section => p = q

Held == {"create", "name", "write", "sync", "replace"}

\* A process is going to write the other sections as they are in the file, and if
\* nothing overlaps, every entry but its own.
HeldInv ==
    /\ overlap # "all" => \A p \in Procs : pc[p] \in Held =>
          /\ held[p].policy = Contents(file).policy
          /\ IF OnUsers(cmd[p]) THEN held[p].tokens = Contents(file).tokens
                                ELSE held[p].users = Contents(file).users
    /\ overlap = "none" => \A p \in Procs : pc[p] \in Held \cup {"prompt", "reread"} =>
          \A c \in Command : SameEntry(cmd[p], c) \/ Entry(c, held[p]) = Entry(c, Contents(file))

\* What a power loss would leave differs from the file in entries of processes that
\* have not reported success.
StaleInv == overlap = "none" =>
    \A f \in {disk} \cup behind : \A c \in Command :
        \/ Entry(c, Contents(f)) = Entry(c, Contents(file))
        \/ \E p \in Procs : pc[p] \notin {"idle", "done"} /\ SameEntry(cmd[p], c)

IInv == TypeOK /\ FileInv /\ TempInv /\ CommandInv /\ ExclusionInv /\ HeldInv /\ StaleInv

-----------------------------------------------------------------------------
(* Documents.                                                               *)

\* What a command is about.
LEMMA CommandFacts ==
    ASSUME NEW c \in Command
    PROVE  /\ c.op \in {"user add", "user remove", "token add", "token remove"}
           /\ OnUsers(c) <=> c.op \in {"user add", "user remove"}
           /\ OnUsers(c) => c.name \in Users
           /\ ~OnUsers(c) => c.name \in Tokens
           /\ c.op = "user add" => c.iterations \in Counts \cup {None}
BY DEF Command, UserAdd, UserRemove, TokenAdd, TokenRemove, OnUsers

\* A document has its sections, and its iterations are numbers.
LEMMA DocumentFacts ==
    ASSUME NEW doc \in Document
    PROVE  /\ doc.users \in [Users -> User \cup {None}]
           /\ doc.tokens \in [Tokens -> Procs \cup {Before, None}]
           /\ doc.policy \in Policies \cup {None}
           /\ doc = [users |-> doc.users, tokens |-> doc.tokens, policy |-> doc.policy]
           /\ IterationsOf(doc.users) \subseteq Nat
<1>1. /\ doc.users \in [Users -> User \cup {None}]
      /\ doc.tokens \in [Tokens -> Procs \cup {Before, None}]
      /\ doc.policy \in Policies \cup {None}
      /\ doc = [users |-> doc.users, tokens |-> doc.tokens, policy |-> doc.policy]
  BY DEF Document
<1>2. \A u \in Users : doc.users[u] # None => doc.users[u].iterations \in Nat
  BY <1>1 DEF User
<1>3. QED
  BY <1>1, <1>2 DEF IterationsOf

\* A user always gets a number of iterations.
LEMMA IterationsAreNumbers ==
    ASSUME NEW c \in UserAdd, NEW doc \in Document
    PROVE  Iterations(c, doc) \in Nat
<1>1. c.iterations \in Counts \cup {None}
  BY DEF UserAdd
<1>2. ASSUME IterationsOf(doc.users) # {}
      PROVE  (CHOOSE n \in IterationsOf(doc.users) : TRUE) \in Nat
  BY <1>2, DocumentFacts
<1>3. QED
  BY <1>1, <1>2, CountAssumption DEF Iterations

\* A command changes its entry, and no other one.
LEMMA ChangedFacts ==
    ASSUME NEW c \in Command, NEW p \in Procs, NEW doc \in Document
    PROVE  /\ Changed(c, p, doc) \in Document
           /\ Changed(c, p, doc).policy = doc.policy
           /\ IF OnUsers(c) THEN Changed(c, p, doc).tokens = doc.tokens
                            ELSE Changed(c, p, doc).users = doc.users
           /\ \A d \in Command : SameEntry(c, d) \/ Entry(d, Changed(c, p, doc)) = Entry(d, doc)
<1> DEFINE new == Changed(c, p, doc)
<1>1. ASSUME OnUsers(c), NEW user \in User \cup {None},
             new = [doc EXCEPT !.users[c.name] = user]
      PROVE  /\ new \in Document /\ new.policy = doc.policy /\ new.tokens = doc.tokens
             /\ \A d \in Command : SameEntry(c, d) \/ Entry(d, new) = Entry(d, doc)
  <2> HIDE DEF new
  <2>1. new = [users |-> [doc.users EXCEPT ![c.name] = user], tokens |-> doc.tokens,
               policy |-> doc.policy]
    BY <1>1, DocumentFacts
  <2>2. new.users = [doc.users EXCEPT ![c.name] = user] /\ new.tokens = doc.tokens
        /\ new.policy = doc.policy
    BY <2>1
  <2>3. new \in Document
    BY <2>1, DocumentFacts, <1>1 DEF Document
  <2>4. ASSUME NEW d \in Command, ~SameEntry(c, d) PROVE Entry(d, new) = Entry(d, doc)
    <3>1. CASE OnUsers(d)
      <4>1. Entry(d, new) = new.users[d.name] /\ Entry(d, doc) = doc.users[d.name]
        BY <3>1, Zenon DEF Entry
      <4>2. d.name # c.name
        BY <1>1, <2>4, <3>1, Zenon DEF SameEntry, OnUsers
      <4>3. d.name \in Users /\ DOMAIN doc.users = Users
        BY <3>1, CommandFacts, DocumentFacts
      <4>4. QED
        BY <2>2, <4>1, <4>2, <4>3
    <3>2. CASE ~OnUsers(d)
      <4>1. Entry(d, new) = new.tokens[d.name] /\ Entry(d, doc) = doc.tokens[d.name]
        BY <3>2, Zenon DEF Entry
      <4>2. QED
        BY <2>2, <4>1
    <3>3. QED
      BY <3>1, <3>2
  <2>5. QED
    BY <2>2, <2>3, <2>4
<1>2. ASSUME ~OnUsers(c), NEW token \in Procs \cup {None},
             new = [doc EXCEPT !.tokens[c.name] = token]
      PROVE  /\ new \in Document /\ new.policy = doc.policy /\ new.users = doc.users
             /\ \A d \in Command : SameEntry(c, d) \/ Entry(d, new) = Entry(d, doc)
  <2> HIDE DEF new
  <2>1. new = [users |-> doc.users, tokens |-> [doc.tokens EXCEPT ![c.name] = token],
               policy |-> doc.policy]
    BY <1>2, DocumentFacts
  <2>2. new.tokens = [doc.tokens EXCEPT ![c.name] = token] /\ new.users = doc.users
        /\ new.policy = doc.policy
    BY <2>1
  <2>3. new \in Document
    BY <2>1, DocumentFacts, <1>2 DEF Document
  <2>4. ASSUME NEW d \in Command, ~SameEntry(c, d) PROVE Entry(d, new) = Entry(d, doc)
    <3>1. CASE OnUsers(d)
      <4>1. Entry(d, new) = new.users[d.name] /\ Entry(d, doc) = doc.users[d.name]
        BY <3>1, Zenon DEF Entry
      <4>2. QED
        BY <2>2, <4>1
    <3>2. CASE ~OnUsers(d)
      <4>1. Entry(d, new) = new.tokens[d.name] /\ Entry(d, doc) = doc.tokens[d.name]
        BY <3>2, Zenon DEF Entry
      <4>2. d.name # c.name
        BY <1>2, <2>4, <3>2, Zenon DEF SameEntry
      <4>3. d.name \in Tokens /\ DOMAIN doc.tokens = Tokens
        BY <3>2, CommandFacts, DocumentFacts
      <4>4. QED
        BY <2>2, <4>1, <4>2, <4>3
    <3>3. QED
      BY <3>1, <3>2
  <2>5. QED
    BY <2>2, <2>3, <2>4
<1>3. CASE c.op = "user add"
  <2>1. [secret |-> p, iterations |-> Iterations(c, doc)] \in User /\ OnUsers(c)
    <3>1. c \in UserAdd
      BY <1>3 DEF Command, UserRemove, TokenAdd, TokenRemove
    <3>2. QED
      BY <1>3, <3>1, IterationsAreNumbers DEF User, OnUsers
  <2>2. new = [doc EXCEPT !.users[c.name] = [secret |-> p, iterations |-> Iterations(c, doc)]]
    BY <1>3 DEF Changed
  <2>3. QED
    BY <1>1, <2>1, <2>2
<1>4. CASE c.op = "user remove"
  <2>1. new = [doc EXCEPT !.users[c.name] = None] /\ OnUsers(c)
    BY <1>4 DEF Changed, OnUsers
  <2>2. QED
    BY <1>1, <2>1
<1>5. CASE c.op = "token add"
  <2>1. new = [doc EXCEPT !.tokens[c.name] = p] /\ ~OnUsers(c)
    BY <1>5 DEF Changed, OnUsers
  <2>2. QED
    BY <1>2, <2>1
<1>6. CASE c.op = "token remove"
  <2>1. new = [doc EXCEPT !.tokens[c.name] = None] /\ ~OnUsers(c)
    BY <1>6 DEF Changed, OnUsers
  <2>2. QED
    BY <1>2, <2>1
<1>7. QED
  BY <1>3, <1>4, <1>5, <1>6, CommandFacts

\* An empty configuration is a document, and uniform.
LEMMA NothingFacts == Nothing \in Document /\ Uniform(Nothing.users)
<1>1. Nothing.users = [u \in Users |-> None] /\ Nothing \in Document
  BY DEF Nothing, Document
<1>2. IterationsOf(Nothing.users) = {}
  BY <1>1 DEF IterationsOf
<1>3. QED
  BY <1>1, <1>2 DEF Uniform

\* A whole file holds a document.
LEMMA ContentsFacts ==
    /\ \A f \in File : f.doc # Torn => Contents(f) \in Document
    /\ \A doc \in Document : \A b \in BOOLEAN :
          /\ [doc |-> doc, synced |-> b] \in File
          /\ Contents([doc |-> doc, synced |-> b]) = doc /\ doc # Torn
BY NothingFacts, FileAssumption DEF File, Contents

\* When the sync of a file is over, it is the same document.
LEMMA SyncedFacts ==
    ASSUME NEW f \in File
    PROVE  LET g == [doc |-> f.doc, synced |-> TRUE]
           IN  g \in File /\ g.synced /\ g.doc = f.doc /\ Contents(g) = Contents(f)
<1>1. f.doc \in Document \cup {Absent, Torn}
  BY DEF File
<1>2. QED
  BY <1>1 DEF File, Contents

\* The operator's edit of a document.
LEMMA EditFacts ==
    ASSUME NEW doc \in Document, NEW policy \in Policies
    PROVE  /\ [doc EXCEPT !.policy = policy] \in Document
           /\ [doc EXCEPT !.policy = policy].users = doc.users
           /\ [doc EXCEPT !.policy = policy].tokens = doc.tokens
<1>1. [doc EXCEPT !.policy = policy]
      = [users |-> doc.users, tokens |-> doc.tokens, policy |-> policy]
  BY DocumentFacts
<1>2. QED
  BY <1>1, DocumentFacts DEF Document

\* What write_users puts together.
LEMMA RereadFacts ==
    ASSUME NEW doc \in Document, NEW old \in Document
    PROVE  /\ [doc EXCEPT !.users = old.users] \in Document
           /\ [doc EXCEPT !.users = old.users].users = old.users
           /\ [doc EXCEPT !.users = old.users].tokens = doc.tokens
           /\ [doc EXCEPT !.users = old.users].policy = doc.policy
<1>1. [doc EXCEPT !.users = old.users]
      = [users |-> old.users, tokens |-> doc.tokens, policy |-> doc.policy]
  BY DocumentFacts
<1>2. QED
  BY <1>1, DocumentFacts DEF Document

-----------------------------------------------------------------------------
(* Steps.                                                                   *)

Places == Active \cup {"idle", "done", "failed", "dead"}

\* The step of a process is about that process.
LEMMA OthersUntouched ==
    ASSUME TypeOK, NEW p \in Procs, Step(p) \/ Kill(p), NEW q \in Procs \ {p}
    PROVE  /\ pc'[q] = pc[q] /\ cmd'[q] = cmd[q] /\ held'[q] = held[q] /\ temp'[q] = temp[q]
           /\ overlap' = overlap
<1>1. CASE \E c \in Command : Read(p, c)
  BY <1>1 DEF Read, End, Goto, TypeOK
<1>2. CASE Reread(p) \/ Create(p) \/ Name(p) \/ Write(p) \/ Sync(p)
  BY <1>2 DEF Reread, Create, Name, Write, Sync, End, Goto, TypeOK
<1>3. CASE Replace(p) \/ SyncDirectory(p) \/ Fail(p) \/ Kill(p)
  BY <1>3 DEF Replace, SyncDirectory, Fail, Kill, End, Goto, TypeOK
<1>4. QED
  BY <1>1, <1>2, <1>3, Zenon DEF Step

\* A power loss leaves a document, as none was torn.
LEMMA SurvivorsFacts ==
    ASSUME TypeOK, FileInv
    PROVE  Survivors = {disk} \cup behind
BY DEF Survivors, FileInv, Whole

\* Processes keep the types.
LEMMA ProcessKeepsTypes ==
    ASSUME TypeOK, FileInv, CommandInv, NEW p \in Procs, Step(p) \/ Kill(p)
    PROVE  TypeOK'
<1> USE DEF Active, Writing
<1>0. file \in File /\ file.doc # Torn /\ Contents(file) \in Document /\ Nothing \in Document
  BY ContentsFacts, NothingFacts DEF TypeOK, FileInv, Whole
<1>1. ASSUME NEW c \in Command, Read(p, c) PROVE TypeOK'
  <2>1. Changed(c, p, Contents(file)) \in Document
    BY <1>0, ChangedFacts
  <2>2. held' \in [Procs -> Document]
    BY <1>0, <1>1, <2>1 DEF Read, End, TypeOK
  <2>3. pc' \in [Procs -> Places]
    BY <1>1 DEF Read, End, Goto, TypeOK, Places
  <2>4. cmd' \in [Procs -> Command \cup {None}]
    BY <1>1 DEF Read, TypeOK
  <2>5. UNCHANGED <<temp, store, edits, losses, overlap>>
    BY <1>1 DEF Read
  <2>6. QED
    BY <2>2, <2>3, <2>4, <2>5 DEF TypeOK, Places, store
<1>2. CASE Reread(p)
  <2>1. [Contents(file) EXCEPT !.users = held[p].users] \in Document
    BY <1>0, RereadFacts DEF TypeOK
  <2>2. held' \in [Procs -> Document]
    BY <1>0, <1>2, <2>1 DEF Reread, End, TypeOK
  <2>3. QED
    BY <1>2, <2>2 DEF Reread, End, Goto, TypeOK, store
<1>3. CASE Create(p) \/ Name(p) \/ Write(p) \/ Sync(p)
  BY <1>0, <1>3 DEF Create, Name, Write, Sync, End, Goto, TypeOK, store
<1>4. CASE Replace(p)
  <2>1. file' \in File
    BY <1>4, ContentsFacts DEF Replace, TypeOK
  <2>2. QED
    BY <1>4, <2>1 DEF Replace, Goto, TypeOK
<1>5. CASE SyncDirectory(p)
  BY <1>0, <1>5 DEF SyncDirectory, End, Goto, TypeOK
<1>6. CASE Fail(p) \/ Kill(p)
  BY <1>0, <1>6 DEF Fail, Kill, End, Goto, TypeOK, store
<1>7. QED
  BY <1>1, <1>2, <1>3, <1>4, <1>5, <1>6, Zenon DEF Step

\* What a process and the environment do to the files.
LEMMA FileStep ==
    ASSUME IInv, Next
    PROVE  FileInv'
<1>0. TypeOK /\ file \in File /\ Whole(file) /\ Contents(file) \in Document
  BY ContentsFacts DEF IInv, TypeOK, FileInv, Whole
<1>1. ASSUME UNCHANGED store PROVE FileInv'
  BY <1>1 DEF store, IInv, FileInv, Whole
<1>2. ASSUME NEW p \in Procs, Replace(p) PROVE FileInv'
  <2>1. file' = [doc |-> held[p], synced |-> TRUE] /\ held[p] \in Document /\ Uniform(held[p].users)
    BY <1>2, <1>0 DEF Replace, IInv, TempInv, TypeOK
  <2>2. Whole(file')
    BY <2>1, ContentsFacts DEF Whole
  <2>3. QED
    BY <1>2, <2>2 DEF Replace, IInv, FileInv
<1>3. ASSUME NEW p \in Procs, SyncDirectory(p) PROVE FileInv'
  BY <1>0, <1>3 DEF SyncDirectory, FileInv
<1>4. CASE PowerLoss
  <2>1. file' \in {disk} \cup behind
    BY <1>0, <1>4, SurvivorsFacts DEF PowerLoss, IInv
  <2>2. file' \in File /\ Whole(file')
    BY <2>1 DEF IInv, TypeOK, FileInv
  <2>3. Whole(disk')
    BY <1>4, <2>2, SyncedFacts DEF PowerLoss, Whole
  <2>4. QED
    BY <1>4, <2>2, <2>3 DEF PowerLoss, FileInv
<1>5. CASE Edit
  <2>1. PICK policy \in Policies :
            file' = [doc |-> [Contents(file) EXCEPT !.policy = policy], synced |-> TRUE]
    BY <1>5 DEF Edit
  <2>2. Whole(file')
    BY <1>0, <2>1, EditFacts, ContentsFacts DEF Whole
  <2>3. QED
    BY <1>5, <2>2 DEF Edit, FileInv
<1>6. ASSUME NEW p \in Procs, Step(p) \/ Kill(p) PROVE FileInv'
  <2>1. Replace(p) \/ SyncDirectory(p) \/ UNCHANGED store
    BY <1>6, Zenon DEF Step, Kill, Read, Reread, Create, Name, Write, Sync, Fail
  <2>2. QED
    BY <1>1, <1>2, <1>3, <2>1
<1>7. QED
  BY <1>4, <1>5, <1>6 DEF Next

\* Types are kept by all.
LEMMA TypeStep ==
    ASSUME IInv, Next
    PROVE  TypeOK'
<1>1. ASSUME NEW p \in Procs, Step(p) \/ Kill(p) PROVE TypeOK'
  BY <1>1, ProcessKeepsTypes DEF IInv
<1>2. CASE PowerLoss
  <2>1. file' \in File /\ disk' \in File
    BY <1>2, SurvivorsFacts, SyncedFacts DEF PowerLoss, IInv, TypeOK
  <2>2. losses' \in 0..MaxLosses
    BY <1>2, BoundAssumption DEF PowerLoss, IInv, TypeOK
  <2>3. QED
    BY <1>2, <2>1, <2>2, NothingFacts DEF PowerLoss, IInv, TypeOK
<1>3. CASE Edit
  <2>1. file' \in File /\ disk' = file'
    BY <1>3, EditFacts, ContentsFacts DEF Edit, IInv, TypeOK, FileInv, Whole
  <2>2. edits' \in 0..MaxEdits
    BY <1>3, BoundAssumption DEF Edit, IInv, TypeOK
  <2>3. QED
    BY <1>3, <2>1, <2>2 DEF Edit, IInv, TypeOK, mine
<1>4. QED
  BY <1>1, <1>2, <1>3 DEF Next

\* Temporary files are where they should be, and every active process has a command.
LEMMA ProcessStep ==
    ASSUME IInv, Next
    PROVE  TempInv' /\ CommandInv'
<1>1. ASSUME NEW p \in Procs, Step(p) \/ Kill(p) PROVE TempInv' /\ CommandInv'
  <2> DEFINE Temp(q) ==
        /\ pc[q] \in {"idle", "prompt", "reread", "create", "syncdir", "done"} => temp[q] = "none"
        /\ pc[q] \in {"name", "write"} => temp[q] = "empty"
        /\ pc[q] = "failed" => temp[q] \in {"none", "empty"}
        /\ pc[q] = "replace" => temp[q] = "synced"
        /\ pc[q] \in {"name", "write", "sync", "replace"} => Uniform(held[q].users)
        /\ pc[q] # "idle" => cmd[q] \in Command
        /\ pc[q] \in {"prompt", "reread"} => OnUsers(cmd[q])
  <2>0. TypeOK /\ \A q \in Procs : Temp(q)
    BY DEF IInv, TempInv, CommandInv
  <2>1. \A q \in Procs \ {p} : Temp(q)'
    BY <1>1, <2>0, OthersUntouched
  <2>2. Temp(p)'
    <3>1. ASSUME NEW c \in Command, Read(p, c) PROVE Temp(p)'
      BY <2>0, <3>1 DEF Read, End, Goto, OnUsers, TypeOK
    <3>2. CASE Reread(p)
      BY <2>0, <3>2 DEF Reread, End, Goto, TypeOK
    <3>3. CASE Create(p)
      BY <2>0, <3>3 DEF Create, End, Goto, Valid, TypeOK
    <3>4. CASE Name(p) \/ Write(p) \/ Sync(p)
      BY <2>0, <3>4 DEF Name, Write, Sync, Goto, TypeOK
    <3>5. CASE Replace(p) \/ SyncDirectory(p)
      BY <2>0, <3>5 DEF Replace, SyncDirectory, End, Goto, TypeOK
    <3>6. CASE Fail(p) \/ Kill(p)
      BY <2>0, <3>6 DEF Fail, Kill, End, Goto, Active, Writing, TypeOK
    <3>7. QED
      BY <1>1, <3>1, <3>2, <3>3, <3>4, <3>5, <3>6, Zenon DEF Step
  <2>3. \A q \in Procs : Temp(q)'
    BY <2>1, <2>2
  <2>4. QED
    BY <2>3 DEF TempInv, CommandInv
<1>2. CASE PowerLoss
  <2>1. \A p \in Procs : pc'[p] = "dead" \/ (pc'[p] = pc[p] /\ pc[p] \notin Active)
    BY <1>2 DEF PowerLoss
  <2>2. \A p \in Procs : pc'[p] = "dead" => pc[p] # "idle"
    BY <1>2 DEF PowerLoss, Active, Writing
  <2>3. QED
    BY <1>2, <2>1, <2>2 DEF PowerLoss, IInv, TempInv, CommandInv, Active, Writing
<1>3. CASE Edit
  BY <1>3 DEF Edit, mine, IInv, TempInv, CommandInv
<1>4. QED
  BY <1>1, <1>2, <1>3 DEF Next

\* A process gets into its section only when no other one is in it.
LEMMA EntersFree ==
    ASSUME TypeOK, NEW p \in Procs, Step(p) \/ Kill(p), overlap # "all", pc'[p] \in Section
    PROVE  pc[p] \in Section \/ \A q \in Procs \ {p} : pc[q] \notin Section
<1> USE DEF Section, Writing
<1>1. ASSUME NEW c \in Command, Read(p, c)
      PROVE  pc[p] \in Section \/ \A q \in Procs \ {p} : pc[q] \notin Section
  <2>1. CASE Free(p)
    BY <2>1 DEF Free
  <2>2. CASE overlap = "prompts" /\ c.op = "user add"
    BY <1>1, <2>2 DEF Read, End, Goto, TypeOK
  <2>3. QED
    BY <1>1, <2>1, <2>2 DEF Read
<1>2. CASE Reread(p)
  BY <1>2 DEF Reread, Free
<1>3. CASE Create(p) \/ Name(p) \/ Write(p) \/ Sync(p) \/ Replace(p) \/ SyncDirectory(p)
  BY <1>3 DEF Create, Name, Write, Sync, Replace, SyncDirectory
<1>4. CASE Fail(p) \/ Kill(p)
  BY <1>4 DEF Fail, Kill, End, Goto, TypeOK
<1>5. QED
  BY <1>1, <1>2, <1>3, <1>4, Zenon DEF Step

\* So there is one at a time.
LEMMA ExclusionStep ==
    ASSUME IInv, Next
    PROVE  ExclusionInv'
<1>1. ASSUME NEW p \in Procs, Step(p) \/ Kill(p) PROVE ExclusionInv'
  <2>1. overlap' = overlap
    BY <1>1, Zenon DEF Step, Kill, Read, Reread, Create, Name, Write, Sync, Replace, SyncDirectory, Fail
  <2>2. Section' = Section
    BY <2>1 DEF Section
  <2>3. QED
    BY <1>1, <2>1, <2>2, OthersUntouched, EntersFree DEF IInv, ExclusionInv
<1>2. CASE PowerLoss
  BY <1>2 DEF PowerLoss, ExclusionInv, Section, Active, Writing
<1>3. CASE Edit
  BY <1>3 DEF Edit, mine, IInv, ExclusionInv, Section
<1>4. QED
  BY <1>1, <1>2, <1>3 DEF Next

\* The file changes only under the process whose section it is.
LEMMA OthersFindTheirFile ==
    ASSUME IInv, NEW p \in Procs, Step(p) \/ Kill(p), overlap # "all",
           NEW q \in Procs \ {p}, pc[q] \in Section
    PROVE  file' = file
<1>1. CASE Replace(p)
  BY <1>1 DEF Replace, Section, Writing, IInv, ExclusionInv
<1>2. QED
  BY <1>1, Zenon DEF Step, Kill, Read, Reread, Create, Name, Write, Sync, SyncDirectory, Fail, store

\* What a process holds fits the file until it replaces it.
LEMMA HeldStep ==
    ASSUME IInv, Next
    PROVE  HeldInv'
<1> DEFINE Copies(p) ==
        /\ held[p].policy = Contents(file).policy
        /\ IF OnUsers(cmd[p]) THEN held[p].tokens = Contents(file).tokens
                              ELSE held[p].users = Contents(file).users
    Agrees(p) ==
        \A c \in Command : SameEntry(cmd[p], c) \/ Entry(c, held[p]) = Entry(c, Contents(file))
<1>0. TypeOK /\ Contents(file) \in Document
  BY ContentsFacts DEF IInv, TypeOK, FileInv, Whole
<1>1. ASSUME NEW p \in Procs, Step(p) \/ Kill(p) PROVE HeldInv'
  <2>1. overlap' = overlap
    BY <1>1, Zenon DEF Step, Kill, Read, Reread, Create, Name, Write, Sync, Replace, SyncDirectory, Fail
  <2>2. ASSUME overlap # "all", NEW q \in Procs, pc'[q] \in Held PROVE Copies(q)'
    <3>1. CASE q # p
      <4>1. pc[q] \in Held /\ held'[q] = held[q] /\ cmd'[q] = cmd[q]
        BY <1>0, <1>1, <2>2, <3>1, OthersUntouched
      <4>2. file' = file
        BY <1>1, <2>2, <3>1, <4>1, OthersFindTheirFile DEF Held, Section, Writing
      <4>3. QED
        BY <2>2, <4>1, <4>2 DEF IInv, HeldInv
    <3>2. CASE q = p /\ \E c \in Command : Read(p, c)
      <4>1. PICK c \in Command : Read(p, c)
        BY <3>2
      <4>2. /\ held'[p] = Changed(c, p, Contents(file)) /\ cmd'[p] = c /\ file' = file
            /\ ~OnUsers(c)
        BY <1>0, <2>2, <3>2, <4>1, ZenonT(30) DEF Read, End, Goto, Held, OnUsers, TypeOK, store
      <4>3. QED
        BY <1>0, <3>2, <4>2, ChangedFacts
    <3>3. CASE q = p /\ Reread(p)
      <4>1. /\ held'[p] = [Contents(file) EXCEPT !.users = held[p].users] /\ cmd' = cmd
            /\ file' = file /\ OnUsers(cmd[p]) /\ held[p] \in Document
        BY <1>0, <2>2, <3>3 DEF Reread, End, Goto, Held, TypeOK, store, IInv, CommandInv
      <4>2. QED
        BY <1>0, <3>3, <4>1, RereadFacts
    <3>4. CASE q = p /\ (Create(p) \/ Name(p) \/ Write(p) \/ Sync(p))
      <4>1. pc[p] \in Held /\ held'[p] = held[p] /\ cmd' = cmd /\ file' = file
        BY <1>0, <2>2, <3>4 DEF Create, Name, Write, Sync, End, Goto, Held, TypeOK, store
      <4>2. QED
        BY <2>2, <3>4, <4>1 DEF IInv, HeldInv
    <3>5. CASE q = p /\ (Replace(p) \/ SyncDirectory(p) \/ Fail(p) \/ Kill(p))
      BY <1>0, <2>2, <3>5 DEF Replace, SyncDirectory, Fail, Kill, End, Goto, Held, TypeOK
    <3>6. QED
      BY <1>1, <3>1, <3>2, <3>3, <3>4, <3>5, Zenon DEF Step
  <2>3. ASSUME overlap = "none", NEW q \in Procs, pc'[q] \in Held \cup {"prompt", "reread"}
        PROVE  Agrees(q)'
    <3>1. CASE q # p
      <4>1. pc[q] \in Held \cup {"prompt", "reread"} /\ held'[q] = held[q] /\ cmd'[q] = cmd[q]
        BY <1>0, <1>1, <2>3, <3>1, OthersUntouched
      <4>2. file' = file
        BY <1>1, <2>3, <3>1, <4>1, OthersFindTheirFile DEF Held, Section, Writing
      <4>3. QED
        BY <2>3, <4>1, <4>2 DEF IInv, HeldInv
    <3>2. CASE q = p /\ \E c \in Command : Read(p, c)
      <4>1. PICK c \in Command : Read(p, c)
        BY <3>2
      <4>2. held'[p] = Changed(c, p, Contents(file)) /\ cmd'[p] = c /\ file' = file
        BY <1>0, <2>3, <3>2, <4>1 DEF Read, End, Goto, Held, TypeOK, store
      <4>3. QED
        BY <1>0, <3>2, <4>2, ChangedFacts
    <3>3. CASE q = p /\ Reread(p)
      <4>1. /\ held'[p] = [Contents(file) EXCEPT !.users = held[p].users] /\ cmd' = cmd
            /\ file' = file /\ held[p] \in Document /\ pc[p] \in {"prompt", "reread"}
        BY <1>0, <2>3, <3>3 DEF Reread, End, Goto, Held, TypeOK, store
      <4>2. \A c \in Command : Entry(c, held'[p]) \in {Entry(c, held[p]), Entry(c, Contents(file))}
        BY <1>0, <4>1, RereadFacts DEF Entry
      <4>3. Agrees(p)
        BY <2>3, <4>1 DEF IInv, HeldInv
      <4>4. QED
        BY <3>3, <4>1, <4>2, <4>3
    <3>4. CASE q = p /\ (Create(p) \/ Name(p) \/ Write(p) \/ Sync(p))
      <4>1. pc[p] \in Held /\ held'[p] = held[p] /\ cmd' = cmd /\ file' = file
        BY <1>0, <2>3, <3>4 DEF Create, Name, Write, Sync, End, Goto, Held, TypeOK, store
      <4>2. QED
        BY <2>3, <3>4, <4>1 DEF IInv, HeldInv
    <3>5. CASE q = p /\ (Replace(p) \/ SyncDirectory(p) \/ Fail(p) \/ Kill(p))
      BY <1>0, <2>3, <3>5 DEF Replace, SyncDirectory, Fail, Kill, End, Goto, Held, TypeOK
    <3>6. QED
      BY <1>1, <3>1, <3>2, <3>3, <3>4, <3>5, Zenon DEF Step
  <2>4. QED
    BY <2>1, <2>2, <2>3 DEF HeldInv
<1>2. CASE PowerLoss
  <2>1. \A p \in Procs : pc'[p] \notin Held \cup {"prompt", "reread"}
    BY <1>2 DEF PowerLoss, Held, Active, Writing
  <2>2. QED
    BY <2>1 DEF HeldInv
<1>3. CASE Edit
  <2>1. overlap # "all" => \A p \in Procs : pc[p] \notin Held
    BY <1>3 DEF Edit, Held, Section, Writing
  <2>2. overlap = "none" => \A p \in Procs : pc[p] \notin {"prompt", "reread"}
    BY <1>3 DEF Edit, Section
  <2>3. QED
    BY <1>3, <2>1, <2>2 DEF Edit, mine, HeldInv
<1>4. QED
  BY <1>1, <1>2, <1>3 DEF Next

\* A replacement changes the entry of its process, and no other one.
LEMMA ReplaceFacts ==
    ASSUME IInv, overlap = "none", NEW p \in Procs, Replace(p), NEW c \in Command,
           ~SameEntry(cmd[p], c)
    PROVE  Entry(c, Contents(file')) = Entry(c, Contents(file))
<1>1. file' = [doc |-> held[p], synced |-> temp[p] = "synced"] /\ held[p] \in Document
      /\ pc[p] \in Held
  BY DEF Replace, Held, IInv, TypeOK
<1>2. Contents(file') = held[p]
  BY <1>1, ContentsFacts
<1>3. QED
  BY <1>1, <1>2 DEF IInv, HeldInv

\* What a power loss would undo belongs to a process that has not reported.
LEMMA StaleStep ==
    ASSUME IInv, Next
    PROVE  StaleInv'
<1> DEFINE Open(c) == \E p \in Procs : pc[p] \notin {"idle", "done"} /\ SameEntry(cmd[p], c)
<1> SUFFICES ASSUME overlap' = "none", NEW f \in ({disk} \cup behind)', NEW c \in Command
             PROVE  Entry(c, Contents(f)) = Entry(c, Contents(file')) \/ Open(c)'
  BY DEF StaleInv
<1>0. TypeOK
  BY DEF IInv
<1>1. ASSUME NEW p \in Procs, Step(p) \/ Kill(p)
      PROVE  Entry(c, Contents(f)) = Entry(c, Contents(file')) \/ Open(c)'
  <2>1. overlap = "none"
    BY <1>1, Zenon DEF Step, Kill, Read, Reread, Create, Name, Write, Sync, Replace, SyncDirectory, Fail
  <2>2. CASE SyncDirectory(p)
    BY <2>2 DEF SyncDirectory
  <2>3. CASE ~SyncDirectory(p)
    <3>1. Open(c) => Open(c)'
      <4>1. pc[p] \notin {"idle", "done"} => pc'[p] \notin {"idle", "done"} /\ cmd'[p] = cmd[p]
        <5>1. CASE \E d \in Command : Read(p, d)
          BY <5>1 DEF Read
        <5>2. CASE Reread(p) \/ Create(p) \/ Name(p) \/ Write(p) \/ Sync(p)
          BY <1>0, <5>2 DEF Reread, Create, Name, Write, Sync, End, Goto, TypeOK
        <5>3. CASE Replace(p) \/ Fail(p) \/ Kill(p)
          BY <1>0, <5>3 DEF Replace, Fail, Kill, End, Goto, TypeOK
        <5>4. QED
          BY <1>1, <2>3, <5>1, <5>2, <5>3, Zenon DEF Step
      <4>2. QED
        BY <1>0, <1>1, <4>1, OthersUntouched
    <3>2. CASE Replace(p)
      <4>1. disk' = disk /\ behind' = behind \cup {file'} /\ pc'[p] = "syncdir" /\ cmd' = cmd
        BY <1>0, <3>2 DEF Replace, Goto, TypeOK
      <4>2. CASE SameEntry(cmd[p], c)
        BY <4>1, <4>2
      <4>3. CASE ~SameEntry(cmd[p], c)
        <5>1. Entry(c, Contents(file')) = Entry(c, Contents(file))
          BY <2>1, <3>2, <4>3, ReplaceFacts
        <5>2. f = file' \/ Entry(c, Contents(f)) = Entry(c, Contents(file)) \/ Open(c)
          BY <2>1, <4>1 DEF IInv, StaleInv
        <5>3. QED
          BY <3>1, <5>1, <5>2
      <4>4. QED
        BY <4>2, <4>3
    <3>3. CASE ~Replace(p)
      <4>1. UNCHANGED store
        BY <1>1, <2>3, <3>3, Zenon DEF Step, Kill, Read, Reread, Create, Name, Write, Sync, Fail
      <4>2. QED
        BY <2>1, <3>1, <4>1 DEF store, IInv, StaleInv
    <3>4. QED
      BY <3>2, <3>3
  <2>4. QED
    BY <2>2, <2>3
<1>2. CASE PowerLoss
  <2>1. file' \in File
    BY <1>2, SurvivorsFacts DEF PowerLoss, IInv, TypeOK
  <2>2. f = [doc |-> file'.doc, synced |-> TRUE]
    BY <1>2 DEF PowerLoss
  <2>3. QED
    BY <2>1, <2>2, SyncedFacts
<1>3. CASE Edit
  BY <1>3 DEF Edit
<1>4. QED
  BY <1>1, <1>2, <1>3 DEF Next

-----------------------------------------------------------------------------
\* The file that is there at first is whole.
LEMMA InitHolds == Init => IInv
<1> SUFFICES ASSUME Init PROVE IInv
  OBVIOUS
<1>1. PICK us \in SUBSET Users, ts \in SUBSET Tokens :
          file \in {[doc |-> doc, synced |-> TRUE] : doc \in {Absent, Earlier(us, ts)}}
  BY DEF Init
<1>10. disk = file /\ behind = {}
  BY DEF Init
<1>2. file \in File /\ Whole(file)
  <2>1. CASE file = [doc |-> Absent, synced |-> TRUE]
    BY <2>1, NothingFacts, FileAssumption DEF File, Whole, Contents
  <2>2. CASE file = [doc |-> Earlier(us, ts), synced |-> TRUE]
    <3> DEFINE user == [secret |-> Before, iterations |-> DefaultIterations]
               doc == Earlier(us, ts)
    <3>1. user \in User /\ user.iterations = DefaultIterations
      BY CountAssumption DEF User
    <3>2. doc = [users |-> [u \in Users |-> IF u \in us THEN user ELSE None],
                 tokens |-> [t \in Tokens |-> IF t \in ts THEN Before ELSE None],
                 policy |-> None]
      BY DEF Earlier
    <3> HIDE DEF user, doc
    <3>3. doc \in Document /\ doc.users = [u \in Users |-> IF u \in us THEN user ELSE None]
      BY <3>1, <3>2 DEF Document
    <3>4. IterationsOf(doc.users) \subseteq {DefaultIterations}
      BY <3>1, <3>3 DEF IterationsOf
    <3>5. Uniform(doc.users)
      BY <3>4 DEF Uniform
    <3>6. file = [doc |-> doc, synced |-> TRUE]
      BY <2>2 DEF doc
    <3>7. file \in File /\ Contents(file) = doc /\ doc # Torn
      BY <3>3, <3>6, ContentsFacts
    <3>8. file.synced /\ file.doc = doc
      BY <3>6
    <3>9. QED
      BY <3>5, <3>7, <3>8 DEF Whole
  <2>3. QED
    BY <1>1, <2>1, <2>2
<1>3. TypeOK
  BY <1>2, NothingFacts, BoundAssumption DEF Init, TypeOK
<1>4. FileInv
  BY <1>2, <1>10 DEF FileInv
<1>5. TempInv /\ CommandInv
  BY DEF Init, TempInv, CommandInv
<1>6. ExclusionInv
  BY DEF Init, ExclusionInv, Section, Writing
<1>7. HeldInv
  BY DEF Init, HeldInv, Held
<1>8. StaleInv
  BY <1>10 DEF StaleInv
<1>9. QED
  BY <1>3, <1>4, <1>5, <1>6, <1>7, <1>8 DEF IInv

\* Every step preserves the invariant.
LEMMA StepHolds == IInv /\ [Next]_vars => IInv'
<1> SUFFICES ASSUME IInv, [Next]_vars PROVE IInv'
  OBVIOUS
<1>1. CASE Next
  BY <1>1, TypeStep, FileStep, ProcessStep, ExclusionStep, HeldStep, StaleStep DEF IInv
<1>2. CASE UNCHANGED vars
  <2>1. TypeOK' /\ FileInv' /\ TempInv' /\ CommandInv'
    BY <1>2 DEF vars, mine, store, IInv, TypeOK, FileInv, TempInv, CommandInv
  <2>2. ExclusionInv' /\ HeldInv' /\ StaleInv'
    BY <1>2 DEF vars, mine, store, IInv, ExclusionInv, HeldInv, StaleInv, Section
  <2>3. QED
    BY <2>1, <2>2 DEF IInv
<1>3. QED
  BY <1>1, <1>2

\* The invariant holds in every reachable state.
THEOREM Invariant == Spec => []IInv
BY InitHolds, StepHolds, PTL DEF Spec

\* Processes, file and disk are well formed.
THEOREM TypeCorrect == Spec => []TypeOK
<1>1. IInv => TypeOK
  BY DEF IInv
<1>2. QED
  BY <1>1, Invariant, PTL

\* Whatever overlaps, fails, is killed or loses power, the file is a whole document
\* whose users have one iteration count.
THEOREM WholeFile == Spec => []WholeDocument
<1>1. IInv => WholeDocument
  BY DEF IInv, FileInv, Whole, WholeDocument
<1>2. QED
  BY <1>1, Invariant, PTL

\* A command that ends by itself leaves no temporary file, or an empty one.
THEOREM NoLitterLeft == Spec => []NoLitter
<1>1. IInv => NoLitter
  BY DEF IInv, TempInv, NoLitter
<1>2. QED
  BY <1>1, Invariant, PTL

\* A command replaces only its own section, if no more than passwords overlap.
THEOREM KeepsSections == Spec => SectionsKept
<1>1. ASSUME IInv, overlap # "all", NEW p \in Procs, Replace(p)
      PROVE  /\ file'.doc.policy = Contents(file).policy
             /\ IF OnUsers(cmd[p]) THEN file'.doc.tokens = Contents(file).tokens
                                   ELSE file'.doc.users = Contents(file).users
  <2>1. file'.doc = held[p] /\ pc[p] \in Held
    BY <1>1 DEF Replace, Held
  <2>2. QED
    BY <1>1, <2>1 DEF IInv, HeldInv
<1>2. IInv /\ [Next]_vars =>
        [overlap # "all" => \A p \in Procs : Replace(p) =>
            /\ file'.doc.policy = Contents(file).policy
            /\ IF OnUsers(cmd[p]) THEN file'.doc.tokens = Contents(file).tokens
                                  ELSE file'.doc.users = Contents(file).users]_vars
  BY <1>1
<1>3. QED
  BY <1>2, Invariant, PTL DEF Spec, SectionsKept

\* When commands run one after the other, nothing that was reported is undone.
THEOREM AcknowledgedStays == Spec => AcknowledgedStands
<1>1. ASSUME IInv, Next, overlap = "none", NEW q \in Procs, TakenBack(q)
      PROVE  FALSE
  <2> DEFINE c == cmd[q]
  <2>1. /\ pc[q] = "done" /\ c \in Command
        /\ \A p \in Procs : pc[p] \notin {"idle", "done"} => ~SameEntry(cmd[p], c)
    BY <1>1 DEF TakenBack, IInv, CommandInv
  <2>2. Entry(c, Contents(file')) # Entry(c, Contents(file))
    BY <1>1, <2>1 DEF TakenBack, Shows, Entry, OnUsers
  <2> HIDE DEF c
  <2>3. ASSUME NEW p \in Procs, Step(p) \/ Kill(p) PROVE FALSE
    <3>1. CASE Replace(p)
      <4>1. ~SameEntry(cmd[p], c)
        BY <2>1, <3>1 DEF Replace
      <4>2. QED
        BY <1>1, <2>1, <2>2, <3>1, <4>1, ReplaceFacts
    <3>2. CASE ~Replace(p)
      <4>1. file' = file
        BY <2>3, <3>2, Zenon DEF Step, Kill, Read, Reread, Create, Name, Write, Sync, SyncDirectory,
                                 Fail, store
      <4>2. QED
        BY <2>2, <4>1
    <3>3. QED
      BY <3>1, <3>2
  <2>4. CASE PowerLoss
    <3>1. file' \in {disk} \cup behind
      BY <1>1, <2>4, SurvivorsFacts DEF PowerLoss, IInv
    <3>2. QED
      BY <1>1, <2>1, <2>2, <3>1 DEF IInv, StaleInv
  <2>5. CASE Edit
    <3>1. PICK policy \in Policies :
              file' = [doc |-> [Contents(file) EXCEPT !.policy = policy], synced |-> TRUE]
      BY <2>5 DEF Edit
    <3>2. Contents(file) \in Document
      BY <1>1, ContentsFacts DEF IInv, TypeOK, FileInv, Whole
    <3>3. Contents(file') = [Contents(file) EXCEPT !.policy = policy]
      BY <3>1, <3>2, EditFacts, ContentsFacts
    <3>4. QED
      BY <2>2, <3>2, <3>3, EditFacts DEF Entry
  <2>6. QED
    BY <1>1, <2>3, <2>4, <2>5 DEF Next
<1>2. IInv /\ [Next]_vars => [overlap = "none" => \A q \in Procs : ~TakenBack(q)]_vars
  BY <1>1
<1>3. QED
  BY <1>2, Invariant, PTL DEF Spec, AcknowledgedStands
=============================================================================
