---------------------------- MODULE AuthConfig ----------------------------
(***************************************************************************)
(* The commands of scripts/duckflight_auth.py that change the TOML file:   *)
(* user add, user remove, token add, token remove.  Each process runs one  *)
(* of them.  It reads and validates the whole file, changes its copy, and  *)
(* replaces the file through a temporary one.  user add asks for a         *)
(* password in between, and write_users then reads the file once more but  *)
(* keeps the users of the first reading.                                   *)
(*                                                                         *)
(* The other sections of the file (tls, oidc, flight, ...) are one policy  *)
(* value that only the operator edits; the commands copy it.  A verifier   *)
(* or a digest is the process that made it.  The file system is external:  *)
(* a rename is visible at once and durable after the directory's fsync,    *)
(* and a file whose contents were not synced may be torn by a power loss.  *)
(* Removing the temporary file is taken to succeed.                        *)
(*                                                                         *)
(* Writing a document and reading it again is the identity for the names   *)
(* and sections of the model.  It is not for a name or text that holds     *)
(* U+007F: _toml_string leaves it raw and tomllib refuses it.              *)
(***************************************************************************)
EXTENDS Naturals

CONSTANTS
    Procs,          \* invocations of the script
    Users, Tokens,  \* the names the commands use
    Policies,       \* the sections the commands do not edit
    BadPolicies,    \* those of them that do not validate
    Counts,         \* iteration counts on the command line and in the file
    MinimumIterations,
    DefaultIterations,
    Environment,    \* DUCKFLIGHT_SCRAM_ITERATIONS, or None
    None, Absent, Torn, Before,
    Overlaps,       \* what of two commands may overlap: of "none", "prompts", "all"
    MaxEdits,       \* bound: how often the operator edits the file
    MaxLosses       \* bound: power losses

ASSUME CountAssumption ==
    /\ Counts \subseteq Nat /\ MinimumIterations \in Nat /\ None \notin Nat
    /\ DefaultIterations \in Nat /\ DefaultIterations >= MinimumIterations
    /\ Environment = None \/ (Environment \in Nat /\ Environment >= MinimumIterations)
ASSUME ValueAssumption ==
    /\ BadPolicies \subseteq Policies
    /\ None \notin Procs \cup {Before}
ASSUME BoundAssumption ==
    Overlaps \subseteq {"none", "prompts", "all"} /\ MaxEdits \in Nat /\ MaxLosses \in Nat

VARIABLES
    pc,      \* pc[p]: where process p is
    cmd,     \* cmd[p]: its command
    held,    \* held[p]: the configuration it is going to write
    temp,    \* temp[p]: the contents of its temporary file
    file,    \* the file as every process sees it
    disk,    \* the file as a power loss would leave it at the earliest
    behind,  \* what was renamed into place since the directory was last synced
    edits, losses,
    overlap  \* what the users of the script let overlap, chosen once

mine == <<pc, cmd, held, temp>>
store == <<file, disk, behind>>
vars == <<mine, store, edits, losses, overlap>>

-----------------------------------------------------------------------------
(* Documents and commands.                                                  *)

\* A name has no entry, or the verifier made by a process and its iterations.
User == [secret : Procs \cup {Before}, iterations : Nat]

Document == [users : [Users -> User \cup {None}],
             tokens : [Tokens -> Procs \cup {Before, None}],
             policy : Policies \cup {None}]

Nothing == [users |-> [u \in Users |-> None], tokens |-> [t \in Tokens |-> None],
            policy |-> None]

ASSUME FileAssumption == Absent \notin Document /\ Torn \notin Document \cup {Absent}

File == [doc : Document \cup {Absent, Torn}, synced : BOOLEAN]

\* The iteration counts of the users of a document.
IterationsOf(users) == {users[u].iterations : u \in {v \in Users : users[v] # None}}

Uniform(users) == \A m, n \in IterationsOf(users) : m = n

\* The sections the commands only copy are right, or not: which of them validate
\* is a constant.
PolicyAccepted(policy) == policy \notin BadPolicies

\* validate_config; digests are random, so they are taken to be unique.
Valid(doc) == /\ Uniform(doc.users)
              /\ \A n \in IterationsOf(doc.users) : n >= MinimumIterations
              /\ PolicyAccepted(doc.policy)

\* read_config: a file that does not exist is an empty configuration.
Contents(f) == IF f.doc = Absent THEN Nothing ELSE f.doc
Readable(f) == f.doc # Torn /\ Valid(Contents(f))

UserAdd == [op : {"user add"}, name : Users, replace : BOOLEAN, iterations : Counts \cup {None}]
UserRemove == [op : {"user remove"}, name : Users]
TokenAdd == [op : {"token add"}, name : Tokens, replace : BOOLEAN]
TokenRemove == [op : {"token remove"}, name : Tokens]
Command == UserAdd \cup UserRemove \cup TokenAdd \cup TokenRemove

OnUsers(c) == c.op \in {"user add", "user remove"}

Entry(c, doc) == IF OnUsers(c) THEN doc.users[c.name] ELSE doc.tokens[c.name]

IterationsUndefaulted(c, doc) ==
    IF c.iterations # None THEN c.iterations
    ELSE IF Environment # None THEN Environment
    ELSE IF IterationsOf(doc.users) # {} THEN CHOOSE n \in IterationsOf(doc.users) : TRUE
    ELSE None

\* args.iterations or environment_iterations or existing_iterations or the default.
Iterations(c, doc) ==
    IF c.iterations # None THEN c.iterations
    ELSE IF Environment # None THEN Environment
    ELSE IF IterationsOf(doc.users) # {} THEN CHOOSE n \in IterationsOf(doc.users) : TRUE
    ELSE DefaultIterations

\* The checks of _add_user after the name was accepted, before the password.
IterationsAccepted(c, doc) ==
    /\ c.iterations # None => /\ c.iterations >= MinimumIterations
                              /\ Environment \in {None, c.iterations}
    /\ IterationsOf(doc.users) \subseteq {Iterations(c, doc)}

Accepted(c, doc) ==
    IF c.op \in {"user remove", "token remove"} THEN Entry(c, doc) # None
    ELSE /\ Entry(c, doc) = None \/ c.replace
         /\ c.op = "user add" => IterationsAccepted(c, doc)

\* The configuration after command c of process p.
Changed(c, p, doc) ==
    CASE c.op = "user add" ->
           [doc EXCEPT !.users[c.name] = [secret |-> p, iterations |-> Iterations(c, doc)]]
      [] c.op = "user remove"  -> [doc EXCEPT !.users[c.name] = None]
      [] c.op = "token add"    -> [doc EXCEPT !.tokens[c.name] = p]
      [] c.op = "token remove" -> [doc EXCEPT !.tokens[c.name] = None]

-----------------------------------------------------------------------------
Writing == {"create", "name", "write", "sync", "replace", "syncdir"}
Active == Writing \cup {"prompt", "reread"}

\* From the reading whose sections it keeps to the end of the replacement; under
\* "none" the wait for the password counts too.
Section == Writing \cup {"reread"} \cup IF overlap = "none" THEN {"prompt"} ELSE {}

Free(p) == overlap = "all" \/ \A q \in Procs \ {p} : pc[q] \notin Section

\* The state of every process, of the file and of the disk is well formed.
TypeOK ==
    /\ pc \in [Procs -> Active \cup {"idle", "done", "failed", "dead"}]
    /\ cmd \in [Procs -> Command \cup {None}]
    /\ held \in [Procs -> Document]
    /\ temp \in [Procs -> {"none", "empty", "written", "synced"}]
    /\ file \in File /\ disk \in File /\ behind \subseteq File
    /\ edits \in 0..MaxEdits /\ losses \in 0..MaxLosses /\ overlap \in Overlaps

\* There is no file yet, or a valid one that earlier commands have left.
Earlier(us, ts) ==
    [users |-> [u \in Users |->
         IF u \in us THEN [secret |-> Before, iterations |-> DefaultIterations] ELSE None],
     tokens |-> [t \in Tokens |-> IF t \in ts THEN Before ELSE None],
     policy |-> None]

Init ==
    /\ pc = [p \in Procs |-> "idle"]
    /\ cmd = [p \in Procs |-> None]
    /\ held = [p \in Procs |-> Nothing]
    /\ temp = [p \in Procs |-> "none"]
    /\ \E us \in SUBSET Users, ts \in SUBSET Tokens :
          file \in {[doc |-> doc, synced |-> TRUE] : doc \in {Absent, Earlier(us, ts)}}
    /\ disk = file
    /\ behind = {}
    /\ edits = 0 /\ losses = 0
    /\ overlap \in Overlaps

Goto(p, where) == pc' = [pc EXCEPT ![p] = where]

\* The process is gone, and what it had read with it.
End(p, how) == Goto(p, how) /\ held' = [held EXCEPT ![p] = Nothing]

\* The command reads the file, and what it refuses it refuses here: a file that
\* does not validate, a name that exists or does not, iterations that differ.
Read(p, c) ==
    /\ pc[p] = "idle"
    /\ Free(p) \/ (overlap = "prompts" /\ c.op = "user add")
    /\ cmd' = [cmd EXCEPT ![p] = c]
    /\ IF Readable(file) /\ Accepted(c, Contents(file))
       THEN /\ held' = [held EXCEPT ![p] = Changed(c, p, Contents(file))]
            /\ Goto(p, CASE c.op = "user add"    -> "prompt"
                         [] c.op = "user remove" -> "reread"
                         [] OTHER                -> "create")
       ELSE End(p, "failed")
    /\ UNCHANGED <<temp, store, edits, losses, overlap>>

RereadKeepsHeld(p) ==
    /\ pc[p] \in {"prompt", "reread"}
    /\ Free(p)
    /\ IF Readable(file) THEN Goto(p, "create") /\ UNCHANGED held ELSE End(p, "failed")
    /\ UNCHANGED <<cmd, temp, store, edits, losses, overlap>>

\* write_users, after the password was accepted: everything but the users comes
\* from the file as it is now.
Reread(p) ==
    /\ pc[p] \in {"prompt", "reread"}
    /\ Free(p)
    /\ IF Readable(file)
       THEN /\ held' = [held EXCEPT ![p] = [Contents(file) EXCEPT !.users = held[p].users]]
            /\ Goto(p, "create")
       ELSE End(p, "failed")
    /\ UNCHANGED <<cmd, temp, store, edits, losses, overlap>>

\* write_config validates what it was given and mkstemp makes a temporary file.
Create(p) ==
    /\ pc[p] = "create"
    /\ IF Valid(held[p])
       THEN temp' = [temp EXCEPT ![p] = "empty"] /\ Goto(p, "name") /\ UNCHANGED held
       ELSE End(p, "failed") /\ UNCHANGED temp
    /\ UNCHANGED <<cmd, store, edits, losses, overlap>>

\* temporary_path is assigned: from here on the clean-up knows the file.
Name(p) ==
    /\ pc[p] = "name"
    /\ Goto(p, "write")
    /\ UNCHANGED <<cmd, held, temp, store, edits, losses, overlap>>

Write(p) ==
    /\ pc[p] = "write"
    /\ temp' = [temp EXCEPT ![p] = "written"]
    /\ Goto(p, "sync")
    /\ UNCHANGED <<cmd, held, store, edits, losses, overlap>>

SyncSkipped(p) ==
    /\ pc[p] = "sync"
    /\ Goto(p, "replace")
    /\ UNCHANGED <<cmd, held, temp, store, edits, losses, overlap>>

\* os.fsync of the temporary file.
Sync(p) ==
    /\ pc[p] = "sync"
    /\ temp' = [temp EXCEPT ![p] = "synced"]
    /\ Goto(p, "replace")
    /\ UNCHANGED <<cmd, held, store, edits, losses, overlap>>

\* os.replace: the temporary file becomes the file.
Replace(p) ==
    /\ pc[p] = "replace"
    /\ file' = [doc |-> held[p], synced |-> temp[p] = "synced"]
    /\ behind' = behind \cup {file'}
    /\ temp' = [temp EXCEPT ![p] = "none"]
    /\ Goto(p, "syncdir")
    /\ UNCHANGED <<cmd, held, disk, edits, losses, overlap>>

SyncDirectorySkipped(p) ==
    /\ pc[p] = "syncdir"
    /\ End(p, "done")
    /\ UNCHANGED <<cmd, temp, store, edits, losses, overlap>>

\* os.fsync of the directory; then the command reports success.
SyncDirectory(p) ==
    /\ pc[p] = "syncdir"
    /\ disk' = file
    /\ behind' = {}
    /\ End(p, "done")
    /\ UNCHANGED <<cmd, temp, file, edits, losses, overlap>>

FailLitters(p) ==
    /\ pc[p] \in Active
    /\ End(p, "failed")
    /\ UNCHANGED <<cmd, temp, store, edits, losses, overlap>>

\* An OSError, a password refused or not confirmed, or an interrupt from the
\* keyboard: the temporary file, if temporary_path names one, is removed.  An
\* interrupt just before it is assigned leaves the empty file there.
Fail(p) ==
    /\ pc[p] \in Active
    /\ temp' = [temp EXCEPT ![p] = IF pc[p] = "name" THEN @ ELSE "none"]
    /\ End(p, "failed")
    /\ UNCHANGED <<cmd, store, edits, losses, overlap>>

-----------------------------------------------------------------------------
(* The environment.                                                         *)

\* The process is killed; what it has made stays.
Kill(p) ==
    /\ pc[p] \in Active
    /\ End(p, "dead")
    /\ UNCHANGED <<cmd, temp, store, edits, losses, overlap>>

\* What may be at the file's place after a power loss.
Survivors == {disk} \cup behind
                    \cup {[doc |-> Torn, synced |-> TRUE] : f \in {g \in behind : ~g.synced}}

\* Every process dies, and what was not synced may be lost.
PowerLoss ==
    /\ losses < MaxLosses
    /\ losses' = losses + 1
    /\ file' \in Survivors
    /\ disk' = [doc |-> file'.doc, synced |-> TRUE]
    /\ behind' = {}
    /\ pc' = [p \in Procs |-> IF pc[p] \in Active THEN "dead" ELSE pc[p]]
    /\ held' = [p \in Procs |-> Nothing]
    /\ UNCHANGED <<cmd, temp, edits, overlap>>

\* The operator edits the other sections by hand, rightly or not.
Edit ==
    /\ edits < MaxEdits
    /\ edits' = edits + 1
    /\ overlap = "all" \/ \A p \in Procs : pc[p] \notin Section
    /\ file.doc # Torn
    /\ \E policy \in Policies :
          file' = [doc |-> [Contents(file) EXCEPT !.policy = policy], synced |-> TRUE]
    /\ disk' = file'
    /\ behind' = {}
    /\ UNCHANGED <<mine, losses, overlap>>

-----------------------------------------------------------------------------
Step(p) == \/ \E c \in Command : Read(p, c)
           \/ Reread(p) \/ Create(p) \/ Name(p) \/ Write(p) \/ Sync(p) \/ Replace(p)
           \/ SyncDirectory(p) \/ Fail(p)

Next == (\E p \in Procs : Step(p) \/ Kill(p)) \/ PowerLoss \/ Edit

Spec == Init /\ [][Next]_vars

-----------------------------------------------------------------------------
(* Properties.                                                              *)

\* Whatever commands overlap, fail, are killed or lose power between the first
\* byte of the temporary file and the sync of the directory: the file is a whole
\* document, and all its users have one iteration count (README.md, "atomic
\* updates", "All users in one file must use the same iteration count").
WholeDocument == file.doc # Torn /\ Uniform(Contents(file).users)

\* A command that ends by itself, at whichever step it fails or is interrupted, leaves
\* no temporary file with verifiers behind, at most an empty one; only a command that
\* is killed does.
NoLitter == \A p \in Procs : pc[p] \in {"done", "failed"} => temp[p] \in {"none", "empty"}

\* A command replaces only its own section.  What other commands and the operator
\* did to the others while a password was being typed is kept: the reason why
\* write_users reads the file again.  It holds as long as no more than passwords
\* overlap.
SectionsKept ==
    [][overlap # "all" => \A p \in Procs : Replace(p) =>
          /\ file'.doc.policy = Contents(file).policy
          /\ IF OnUsers(cmd[p]) THEN file'.doc.tokens = Contents(file).tokens
                                ELSE file'.doc.users = Contents(file).users]_vars

\* The change that process q has made is in file f.
Shows(f, q) == CASE cmd[q].op = "user add"  -> Contents(f).users[cmd[q].name] # None /\
                                               Contents(f).users[cmd[q].name].secret = q
                 [] cmd[q].op = "token add" -> Contents(f).tokens[cmd[q].name] = q
                 [] OTHER                   -> Entry(cmd[q], Contents(f)) = None

SameEntry(c, d) == (OnUsers(c) <=> OnUsers(d)) /\ c.name = d.name

\* The change of q, which has reported success, is taken back by this step, and no
\* command on the same user or token is in progress or has failed, which may do so.
TakenBack(q) == /\ pc[q] = "done" /\ Shows(file, q) /\ ~Shows(file', q)
                /\ \A p \in Procs : pc[p] \notin {"idle", "done"} => ~SameEntry(cmd[p], cmd[q])

\* When commands run one after the other, what one has reported is never undone by
\* a command on another name, however it ends, nor by an edit or a power loss.  (If
\* passwords overlap other commands it is: _add_user writes back the users it has
\* read before the password.)
AcknowledgedStands == [][overlap = "none" => \A q \in Procs : ~TakenBack(q)]_vars
=============================================================================
