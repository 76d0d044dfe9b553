----------------------------- MODULE Launcher ------------------------------
(***************************************************************************)
(* The container entry point, docker/server.c: it forks the DuckDB CLI,    *)
(* writes the startup script into the CLI's standard input, and from then  *)
(* on waits for the CLI to end or for SIGTERM or SIGINT to end it.         *)
(*                                                                         *)
(* The script is a sequence of commands, each one or several unbuffered    *)
(* writes into a pipe of PipeCapacity commands.  A write blocks while the  *)
(* pipe is full, fails once the CLI is gone, and is interrupted by the     *)
(* signal handler while it blocks.  No single write exceeds PIPE_BUF, so   *)
(* each is in the pipe as a whole or not at all.  The CLI is external: it  *)
(* runs one command after the other, ends at the first that fails (-bail), *)
(* and an interrupt that finds no SQL running may end it or be lost.       *)
(***************************************************************************)
EXTENDS Naturals, Sequences

CONSTANTS
    Listeners,      \* the listeners that have an address, of "pg" and "flight"
    InitChunks,     \* pieces in which the startup SQL file is read; 0: no file
    PipeCapacity,   \* bound: how many commands the pipe holds
    MaxSignals      \* bound: how many SIGTERM and SIGINT the container gets

ASSUME ListenersAssumption == Listeners \subseteq {"pg", "flight"} /\ Listeners # {}
ASSUME SizeAssumption == InitChunks \in Nat /\ PipeCapacity \in Nat \ {0} /\ MaxSignals \in Nat

VARIABLES
    pc,        \* where the launcher is
    at,        \* the command of Script it checks or writes
    torn,      \* a part of that command was lost
    stopping,  \* the flag the signal handler sets
    broken,    \* ferror(commands)
    blocked,   \* SIGTERM and SIGINT are blocked
    pending,   \* signals that are pending
    signals,   \* how many signals were sent
    status,    \* what the launcher returned
    pipe,      \* commands written and not yet read
    eof,       \* the launcher has closed its end of the pipe
    cli,       \* the CLI process
    running,   \* the command it runs
    intr,      \* it has an interrupt it has not acted on
    code,      \* its exit status
    done,      \* the commands it has completed
    failed     \* one of them failed

launcher == <<pc, at, torn, stopping, broken, blocked, status>>
child == <<cli, running, intr, code, done, failed>>
vars == <<launcher, pending, signals, pipe, eof, child>>

Termination == {"TERM", "INT"}

Optional(cond, s) == IF cond THEN s ELSE <<>>

\* What main writes, in this order.  "init" is one buffer of the startup SQL.
Script == <<"load", "settings">>
          \o [i \in 1..InitChunks |-> "init"] \o Optional(InitChunks > 0, <<"separator">>)
          \o <<"boundary">>
          \o Optional("pg" \in Listeners, <<"pg">>)
          \o Optional("flight" \in Listeners, <<"flight">>)
          \o <<"ready">>

Commands == {Script[i] : i \in 1..Len(Script)} \cup {"torn", "quit"}

GuardedBoundary(cmd) == cmd \in {"init", "separator", "boundary"}

\* The commands that are written only `if (!stopping)`.
Guarded(cmd) == cmd \notin {"load", "settings"}

\* The commands that take several writes, without a test of stopping in between.
Composed(cmd) == cmd \in {"settings", "pg", "flight"}

Alive == cli \in {"boot", "idle", "busy"}

\* The protocols whose listeners are reachable.
Serving == IF Alive THEN done \cap {"pg", "flight"} ELSE {}

\* The state of the launcher, the pipe and the CLI is well formed, and the pipe
\* never holds more than fits: a full pipe blocks the writer.
TypeOK ==
    /\ pc \in {"launch", "check", "write", "abandon", "look", "sigwait", "quit", "reap", "end"}
    /\ at \in 1..(Len(Script) + 1)
    /\ {torn, stopping, broken, blocked, eof, intr, failed} \subseteq BOOLEAN
    /\ pending \subseteq Termination \cup {"CHLD"}
    /\ signals \in 0..MaxSignals
    /\ {status, code} \subseteq {"none", "ok", "error", "killed"}
    /\ pipe \in Seq(Commands) /\ Len(pipe) <= PipeCapacity
    /\ cli \in {"none", "boot", "idle", "busy", "zombie", "reaped"}
    /\ running \in Commands \cup {"none"}
    /\ done \subseteq Commands

Init ==
    /\ pc = "launch" /\ at = 1 /\ status = "none"
    /\ torn = FALSE /\ stopping = FALSE /\ broken = FALSE /\ blocked = TRUE
    /\ pending = {} /\ signals = 0
    /\ pipe = <<>> /\ eof = FALSE
    /\ cli = "none" /\ running = "none" /\ intr = FALSE /\ code = "none"
    /\ done = {} /\ failed = FALSE

-----------------------------------------------------------------------------
(* The CLI process.                                                         *)

\* kill(child, SIGINT)
Interrupted == intr' = (intr \/ Alive)

CliEnds(c) == /\ cli' = "zombie"
              /\ code' = c
              /\ running' = "none"
              /\ intr' = FALSE
              /\ pending' = pending \cup {"CHLD"}

\* execl: it succeeds or fails, or the interrupt finds no handler yet.
CliStarts ==
    /\ cli = "boot"
    /\ \/ cli' = "idle" /\ UNCHANGED <<running, intr, code, pending>>
       \/ CliEnds("error")
       \/ intr /\ CliEnds("killed")
    /\ UNCHANGED <<launcher, signals, pipe, eof, done, failed>>

\* It reads its next command, .quit or the end of its input; an interrupt that
\* came while nothing ran ends it here, or is lost.
CliReads ==
    /\ cli = "idle"
    /\ pipe # <<>> \/ eof
    /\ pipe' = IF pipe = <<>> THEN <<>> ELSE Tail(pipe)
    /\ \/ IF pipe = <<>> \/ Head(pipe) = "quit"
            THEN CliEnds("ok")
            ELSE /\ cli' = "busy"
                 /\ running' = Head(pipe)
                 /\ UNCHANGED <<intr, code, pending>>
       \/ /\ intr
          /\ \E c \in {"ok", "error"} : CliEnds(c)
    /\ UNCHANGED <<launcher, signals, eof, done, failed>>

\* A command succeeds.  An interrupt may come too late to cancel it.
CliSucceeds ==
    /\ cli = "busy" /\ running # "torn"
    /\ cli' = "idle"
    /\ running' = "none"
    /\ intr' \in {intr, FALSE}
    /\ done' = done \cup {running}
    /\ UNCHANGED <<launcher, pending, signals, pipe, eof, code, failed>>

CliFailsOn ==
    /\ cli = "busy"
    /\ failed' = TRUE
    /\ cli' = "idle"
    /\ running' = "none"
    /\ intr' = FALSE
    /\ UNCHANGED <<launcher, pending, signals, pipe, eof, code, done>>

\* It fails or is cancelled: -bail ends the CLI with an error.
CliFails ==
    /\ cli = "busy"
    /\ failed' = TRUE
    /\ CliEnds("error")
    /\ UNCHANGED <<launcher, signals, pipe, eof, done>>

\* The CLI is killed, for instance because it is out of memory.
CliKilled ==
    /\ Alive
    /\ CliEnds("killed")
    /\ UNCHANGED <<launcher, signals, pipe, eof, done, failed>>

-----------------------------------------------------------------------------
(* Signals.                                                                 *)

Signal(s) ==
    /\ signals < MaxSignals
    /\ signals' = signals + 1
    /\ pending' = pending \cup {s}
    /\ UNCHANGED <<launcher, pipe, eof, child>>

WriteBlocks == pc = "write" /\ Alive /\ Len(pipe) = PipeCapacity

NextCommandSkipped == /\ pc' = "check"
                      /\ at' = at + 2
                      /\ torn' = FALSE

\* The launcher goes on to the next command of the script.
NextCommand == /\ pc' = "check"
               /\ at' = at + 1
               /\ torn' = FALSE

\* interrupt_startup runs.  A write that blocks returns EINTR: what it would have
\* written is lost, which is the command or a part of it.
Handle(s) ==
    /\ s \in pending \cap Termination /\ ~blocked /\ pc # "end"
    /\ pending' = pending \ {s}
    /\ stopping' = TRUE
    /\ Interrupted
    /\ IF WriteBlocks
         THEN /\ broken' = TRUE
              /\ \/ NextCommand
                 \/ Composed(Script[at]) /\ torn' = TRUE /\ UNCHANGED <<pc, at>>
              /\ UNCHANGED <<status, cli>>
       ELSE IF pc = "abandon"
         THEN /\ pc' = "end" /\ status' = "error"
              /\ UNCHANGED <<at, torn, broken, cli>>
       ELSE UNCHANGED <<pc, at, torn, broken, status, cli>>
    /\ UNCHANGED <<blocked, signals, pipe, eof, running, code, done, failed>>

-----------------------------------------------------------------------------
(* main.                                                                    *)

\* The environment is refused before anything is started, or fork fails.
Refuse ==
    /\ pc = "launch"
    /\ pc' = "end" /\ status' = "error"
    /\ UNCHANGED <<at, torn, stopping, broken, blocked, pending, signals, pipe, eof, child>>

\* fork; then the handlers are installed and the signals unblocked.
Launch ==
    /\ pc = "launch"
    /\ cli' = "boot"
    /\ pc' = "check"
    /\ blocked' = FALSE
    /\ UNCHANGED <<at, torn, stopping, broken, status, pending, signals, pipe, eof,
                   running, intr, code, done, failed>>

\* fdopen fails: the launcher closes the pipe and waits, its signals still blocked.
InputFails ==
    /\ pc = "launch"
    /\ cli' = "boot"
    /\ pc' = "abandon"
    /\ eof' = TRUE
    /\ UNCHANGED <<at, torn, stopping, broken, blocked, status, pending, signals, pipe,
                   running, intr, code, done, failed>>

\* if (!stopping), before a command is written.
Check ==
    /\ pc = "check" /\ at <= Len(Script)
    /\ IF Guarded(Script[at]) /\ stopping
         THEN NextCommand
         ELSE pc' = "write" /\ UNCHANGED <<at, torn>>
    /\ UNCHANGED <<stopping, broken, blocked, status, pending, signals, pipe, eof, child>>

\* The startup SQL cannot be read: the launcher closes the pipe and waits.
InitReadFails ==
    /\ pc = "check" /\ at <= Len(Script) /\ Script[at] = "separator"
    /\ pc' = "abandon"
    /\ eof' = TRUE
    /\ UNCHANGED <<at, torn, stopping, broken, blocked, status, pending, signals, pipe, child>>

Write ==
    /\ pc = "write" /\ ~WriteBlocks
    /\ IF Alive
         THEN /\ pipe' = Append(pipe, IF torn THEN "torn" ELSE Script[at])
              /\ UNCHANGED broken
         ELSE broken' = TRUE /\ UNCHANGED pipe
    /\ NextCommand
    /\ UNCHANGED <<stopping, blocked, status, pending, signals, eof, child>>

BlockUnseen ==
    /\ pc = "check" /\ at > Len(Script)
    /\ blocked' = TRUE
    /\ pc' = IF broken THEN "quit" ELSE "look"
    /\ UNCHANGED <<at, torn, stopping, broken, status, pending, signals, pipe, eof, child>>

\* The signals are blocked again, and only then is stopping looked at.
Block ==
    /\ pc = "check" /\ at > Len(Script)
    /\ blocked' = TRUE
    /\ pc' = IF stopping \/ broken THEN "quit" ELSE "look"
    /\ UNCHANGED <<at, torn, stopping, broken, status, pending, signals, pipe, eof, child>>

\* waitpid returns the child: main returns its status.
Reaped == /\ cli = "zombie"
          /\ cli' = "reaped"
          /\ pc' = "end"
          /\ UNCHANGED <<running, intr, code, done, failed>>

\* waitpid(child, &status, WNOHANG)
Look ==
    /\ pc = "look"
    /\ \/ Reaped /\ status' = code
       \/ cli # "zombie" /\ pc' = "sigwait" /\ UNCHANGED <<status, child>>
    /\ UNCHANGED <<at, torn, stopping, broken, blocked, pending, signals, pipe, eof>>

SigwaitOnly ==
    /\ pc = "sigwait"
    /\ \E s \in pending :
          /\ pending' = pending \ {s}
          /\ IF s = "CHLD" THEN UNCHANGED <<pc, intr>> ELSE pc' = "quit" /\ Interrupted
    /\ UNCHANGED <<at, torn, stopping, broken, blocked, status, signals, pipe, eof,
                   cli, running, code, done, failed>>

\* sigwait: SIGCHLD is a reason to look again, the others interrupt the CLI.
Sigwait ==
    /\ pc = "sigwait"
    /\ \E s \in pending :
          /\ pending' = pending \ {s}
          /\ IF s = "CHLD" THEN pc' = "look" /\ UNCHANGED intr
                           ELSE pc' = "quit" /\ Interrupted
    /\ UNCHANGED <<at, torn, stopping, broken, blocked, status, signals, pipe, eof,
                   cli, running, code, done, failed>>

\* shutdown: .quit is written, which may block too, and the pipe is closed.
Quit ==
    /\ pc = "quit"
    /\ IF Alive THEN Len(pipe) < PipeCapacity /\ pipe' = Append(pipe, "quit")
                ELSE UNCHANGED pipe
    /\ eof' = TRUE
    /\ pc' = "reap"
    /\ UNCHANGED <<at, torn, stopping, broken, blocked, status, pending, signals, child>>

\* waitpid(child, &status, 0); after a failed read its status is not used.
Reap ==
    /\ pc \in {"reap", "abandon"}
    /\ Reaped
    /\ status' = IF pc = "reap" THEN code ELSE "error"
    /\ UNCHANGED <<at, torn, stopping, broken, blocked, pending, signals, pipe, eof>>

\* waitpid does not know the child any more, or sigwait fails: main returns 1.
WaitFails ==
    /\ pc = "sigwait" \/ (pc \in {"look", "reap"} /\ cli = "zombie")
    /\ pc' = "end" /\ status' = "error"
    /\ eof' = TRUE
    /\ UNCHANGED <<at, torn, stopping, broken, blocked, pending, signals, pipe, child>>

-----------------------------------------------------------------------------
CliStep == CliStarts \/ CliReads \/ CliSucceeds \/ CliFails

LauncherStep == \/ Launch \/ Check \/ Write \/ Block \/ Look \/ Sigwait \/ Quit \/ Reap
                \/ \E s \in Termination : Handle(s)

LauncherFails == Refuse \/ InputFails \/ InitReadFails \/ WaitFails

Next == \/ LauncherStep \/ LauncherFails
        \/ CliStep \/ CliKilled
        \/ \E s \in Termination : Signal(s)

Spec == Init /\ [][Next]_vars

\* The launcher is never stopped, and every SQL statement ends by itself or when
\* it is cancelled.
FairSpec == Spec /\ WF_vars(LauncherStep) /\ WF_vars(CliStep)

-----------------------------------------------------------------------------
(* Properties.                                                              *)

\* "Apply the shared SQL boundary before either network listener is reachable":
\* while a listener is up, external access is off and the configuration locked,
\* however signals, failing commands and torn writes cut the script short.
SealedBeforeServing == Serving # {} => {"load", "boundary"} \subseteq done

\* A startup command that fails, or is cancelled, ends in a failure status, and no
\* listener is up after it (README.md, "failed startup SQL exits the process with
\* a failure status").
FailureIsReported == failed => Serving = {} /\ (pc = "end" => status # "ok")

\* A SIGTERM or SIGINT ends the launcher, whenever it comes.
StopEnds == pending \cap Termination # {} ~> pc = "end"

\* So does the end of the CLI: the container never outlives its database.
CliEndEnds == cli = "zombie" ~> pc = "end"
=============================================================================
