--------------------------- MODULE LauncherProofs ---------------------------
(***************************************************************************)
(* Proofs about Launcher for startup files of any length and pipes of any  *)
(* size: no listener is up before the SQL boundary, and no failure is      *)
(* reported as a success.  The argument follows a command from the script  *)
(* into the pipe and from there to the CLI: whatever the launcher loses on *)
(* the way, nothing that opens a listener overtakes the boundary, which is *)
(* a single write: it is skipped, or fails, but is not torn.               *)
(***************************************************************************)
EXTENDS Launcher, TLAPS

\* The position of the boundary in the script.
Boundary == InitChunks + (IF InitChunks > 0 THEN 1 ELSE 0) + 3

Listens == {"pg", "flight"}

\* The commands that are ahead of position k of the pipe, or done.
Ahead(k) == done \cup {running} \cup {pipe[j] : j \in 1..(k - 1)}
Sent == Ahead(Len(pipe) + 1)

\* The launcher still writes the script, and would write its next guarded command.
Serious == pc = "write" \/ (pc = "check" /\ ~stopping)

\* What the launcher has written when it gets to a position of the script.
WriterInv ==
    Alive =>
      /\ pc \in {"check", "write"} /\ at = 1 => pipe = <<>>
      /\ pc \in {"check", "write"} /\ at > 1 => "load" \in Sent
      /\ Serious /\ at > Boundary => "boundary" \in Sent

\* No listener gets ahead of the boundary.
QueueInv ==
    Alive =>
      /\ \A k \in 1..Len(pipe) : pipe[k] \in Listens => {"load", "boundary"} \subseteq Ahead(k)
      /\ running \in Listens => {"load", "boundary"} \subseteq done
      /\ done \cap Listens # {} => {"load", "boundary"} \subseteq done

\* Where the launcher and the CLI are.
PlaceInv ==
    /\ pc = "launch" => cli = "none" /\ at = 1 /\ pipe = <<>> /\ done = {}
    /\ cli = "none" => pc \in {"launch", "end"} /\ ~failed
    /\ pc = "write" => at <= Len(Script)
    /\ torn => pc = "write" /\ Composed(Script[at])
    /\ IF cli = "busy" THEN running \in Commands ELSE running = "none"

\* What becomes of a command that failed.
FailureInv ==
    /\ failed => cli \in {"zombie", "reaped"} /\ code = "error"
    /\ pc = "end" => status \in {"error", "killed"} \/ (status = code /\ cli = "reaped")

IInv == TypeOK /\ PlaceInv /\ WriterInv /\ QueueInv /\ FailureInv

-----------------------------------------------------------------------------
(* The script.                                                              *)

\* What concatenation does to the entries of two sequences.
LEMMA Concatenation ==
    ASSUME NEW S, NEW s \in Seq(S), NEW t \in Seq(S)
    PROVE  /\ s \o t \in Seq(S) /\ Len(s \o t) = Len(s) + Len(t)
           /\ Len(s) \in Nat /\ Len(t) \in Nat
           /\ \A k \in 1..Len(s) : (s \o t)[k] = s[k]
           /\ \A k \in (Len(s) + 1)..(Len(s) + Len(t)) : (s \o t)[k] = t[k - Len(s)]
OBVIOUS

\* The script has the boundary in one place, behind the load and before every
\* listener.
LEMMA ScriptFacts ==
    /\ Script \in Seq(Commands) /\ Boundary \in Nat /\ 3 <= Boundary /\ Boundary <= Len(Script)
    /\ Script[1] = "load" /\ Script[2] = "settings" /\ Script[Boundary] = "boundary"
    /\ \A k \in 3..(Boundary - 1) : Script[k] \in {"init", "separator"}
    /\ \A k \in (Boundary + 1)..Len(Script) : Script[k] \in {"pg", "flight", "ready"}
<1> DEFINE first == <<"load", "settings">>
           init == [i \in 1..InitChunks |-> "init"]
           separator == Optional(InitChunks > 0, <<"separator">>)
           prefix == first \o init \o separator
           listeners == Optional("pg" \in Listeners, <<"pg">>)
                        \o Optional("flight" \in Listeners, <<"flight">>) \o <<"ready">>
           Words == {"load", "settings", "init", "separator", "boundary", "pg", "flight", "ready"}
<1>1. InitChunks \in Nat
  BY SizeAssumption
<1>2. /\ first \in Seq(Words) /\ Len(first) = 2 /\ first[1] = "load" /\ first[2] = "settings"
  OBVIOUS
<1>3. init \in Seq(Words) /\ Len(init) = InitChunks /\ \A k \in 1..InitChunks : init[k] = "init"
  BY <1>1
<1>4. /\ separator \in Seq(Words) /\ Len(separator) = (IF InitChunks > 0 THEN 1 ELSE 0)
      /\ \A k \in 1..Len(separator) : separator[k] = "separator"
  <2>1. /\ <<"separator">> \in Seq(Words) /\ Len(<<"separator">>) = 1
        /\ <<"separator">>[1] = "separator" /\ <<>> \in Seq(Words) /\ Len(<<>>) = 0
    OBVIOUS
  <2> HIDE DEF Words
  <2>2. CASE InitChunks > 0
    <3>1. separator = <<"separator">>
      BY <2>2 DEF Optional
    <3> HIDE DEF separator
    <3>2. Len(separator) = 1 /\ separator \in Seq(Words) /\ separator[1] = "separator"
      BY <2>1, <3>1
    <3>3. \A k \in 1..Len(separator) : separator[k] = "separator"
      BY <3>2
    <3>4. QED
      BY <2>2, <3>2, <3>3
  <2>3. CASE ~(InitChunks > 0)
    <3>1. separator = <<>>
      BY <2>3 DEF Optional
    <3> HIDE DEF separator
    <3>2. Len(separator) = 0 /\ separator \in Seq(Words)
      BY <2>1, <3>1
    <3>3. QED
      BY <2>3, <3>2
  <2>4. QED
    BY <2>2, <2>3
<1> HIDE DEF first, init, separator, Words
<1>5. /\ prefix \in Seq(Words) /\ Len(prefix) = Boundary - 1
      /\ prefix[1] = "load" /\ prefix[2] = "settings"
      /\ \A k \in 3..Len(prefix) : prefix[k] \in {"init", "separator"}
  <2> DEFINE front == first \o init
  <2>1. front \in Seq(Words) /\ Len(front) = 2 + InitChunks /\ front[1] = "load" /\ front[2] = "settings"
    <3>1. /\ first \o init \in Seq(Words) /\ Len(first \o init) = Len(first) + Len(init)
          /\ \A k \in 1..Len(first) : (first \o init)[k] = first[k]
      <4> USE <1>2, <1>3
      <4> HIDE DEF front
      <4> QED BY Concatenation, ZenonT(60)
    <3>2. /\ front \in Seq(Words) /\ Len(front) = Len(first) + Len(init)
          /\ \A k \in 1..Len(first) : front[k] = first[k]
      BY <3>1 DEF front
    <3> HIDE DEF front
    <3>3. 1 \in 1..Len(first) /\ 2 \in 1..Len(first)
      BY <1>2
    <3>4. front[1] = "load" /\ front[2] = "settings"
      BY <1>2, <3>2, <3>3, Zenon
    <3>5. QED
      BY <1>2, <1>3, <3>2, <3>4
  <2>2. \A k \in 3..Len(front) : front[k] = "init"
    <3>1. \A k \in 3..Len(front) : front[k] = init[k - 2]
      BY <1>1, <1>2, <1>3, <2>1, Concatenation
    <3>2. QED
      BY <1>1, <1>3, <2>1, <3>1
  <2> HIDE DEF front
  <2>3. prefix = front \o separator
    BY DEF front
  <2>4. prefix \in Seq(Words) /\ Len(prefix) = Len(front) + Len(separator)
    BY <1>4, <2>1, <2>3
  <2>5. \A k \in 1..Len(front) : prefix[k] = front[k]
    BY <1>4, <2>1, <2>3
  <2>6. \A k \in (Len(front) + 1)..Len(prefix) : prefix[k] = separator[k - Len(front)]
    BY <1>4, <2>1, <2>3, <2>4
  <2>7. \A k \in 3..Len(prefix) : prefix[k] \in {"init", "separator"}
    <3> TAKE k \in 3..Len(prefix)
    <3>1. CASE k <= Len(front)
      BY <2>1, <2>2, <2>5, <3>1
    <3>2. CASE k > Len(front)
      BY <1>1, <1>4, <2>1, <2>4, <2>6, <3>2
    <3>3. QED
      BY <1>1, <2>1, <3>1, <3>2
  <2>8. Len(prefix) = Boundary - 1 /\ prefix[1] = "load" /\ prefix[2] = "settings"
    BY <1>1, <1>4, <2>1, <2>4, <2>5, SMTT(20) DEF Boundary
  <2>9. QED
    BY <2>4, <2>7, <2>8
<1>6. /\ listeners \in Seq(Words) /\ Len(listeners) >= 1
      /\ \A k \in 1..Len(listeners) : listeners[k] \in {"pg", "flight", "ready"}
  <2>1. CASE "pg" \in Listeners /\ "flight" \in Listeners
    BY <2>1 DEF Optional, Words
  <2>2. CASE "pg" \in Listeners /\ "flight" \notin Listeners
    BY <2>2 DEF Optional, Words
  <2>3. CASE "pg" \notin Listeners /\ "flight" \in Listeners
    BY <2>3 DEF Optional, Words
  <2>4. CASE "pg" \notin Listeners /\ "flight" \notin Listeners
    BY <2>4 DEF Optional, Words
  <2>5. QED
    BY <2>1, <2>2, <2>3, <2>4
<1>7. Script = prefix \o <<"boundary">> \o listeners
  <2> DEFINE pg == Optional("pg" \in Listeners, <<"pg">>)
             flight == Optional("flight" \in Listeners, <<"flight">>)
             body == prefix \o <<"boundary">>
  <2>1. pg \in Seq(Words) /\ flight \in Seq(Words) /\ body \in Seq(Words)
    <3>1. <<"boundary">> \in Seq(Words)
      BY DEF Words
    <3>2. body \in Seq(Words)
      BY <1>5, <3>1, Concatenation
    <3>3. pg \in Seq(Words) /\ flight \in Seq(Words)
      <4>1. <<"pg">> \in Seq(Words) /\ <<"flight">> \in Seq(Words) /\ <<>> \in Seq(Words)
        BY DEF Words
      <4>2. QED
        BY <4>1 DEF Optional
    <3>4. QED
      BY <3>2, <3>3
  <2>2. Script = ((body \o pg) \o flight) \o <<"ready">>
    BY DEF Script, first, init, separator
  <2> HIDE DEF pg, flight, body, prefix
  <2>3. ((body \o pg) \o flight) \o <<"ready">> = body \o ((pg \o flight) \o <<"ready">>)
    BY <2>1
  <2>4. QED
    BY <2>2, <2>3 DEF pg, flight, body
<1> HIDE DEF prefix, listeners
<1>8. /\ Script \in Seq(Words) /\ Len(Script) = Boundary + Len(listeners)
      /\ Boundary \in Nat /\ Boundary >= 3 /\ Len(listeners) \in Nat
      /\ \A k \in 1..(Boundary - 1) : Script[k] = prefix[k]
      /\ Script[Boundary] = "boundary"
      /\ \A k \in (Boundary + 1)..Len(Script) : Script[k] = listeners[k - Boundary]
  <2>1. Boundary \in Nat /\ Boundary >= 3
    BY <1>1 DEF Boundary
  <2> DEFINE body == prefix \o <<"boundary">>
  <2>2. /\ body \in Seq(Words) /\ Len(body) = Boundary /\ body[Boundary] = "boundary"
        /\ \A k \in 1..(Boundary - 1) : body[k] = prefix[k]
    <3>1. <<"boundary">> \in Seq(Words) /\ Len(<<"boundary">>) = 1 /\ <<"boundary">>[1] = "boundary"
      BY DEF Words
    <3>2. QED
      BY <1>5, <2>1, <3>1, Concatenation
  <2> HIDE DEF body
  <2>3. Script = body \o listeners
    BY <1>7 DEF body
  <2>4. /\ Script \in Seq(Words) /\ Len(Script) = Len(body) + Len(listeners)
        /\ \A k \in 1..Len(body) : Script[k] = body[k]
        /\ \A k \in (Len(body) + 1)..(Len(body) + Len(listeners)) :
              Script[k] = listeners[k - Len(body)]
    BY <1>6, <2>2, <2>3, Concatenation, ZenonT(30)
  <2>5. QED
    BY <2>1, <2>2, <2>4
<1>9. \A k \in (Boundary + 1)..Len(Script) : Script[k] \in {"pg", "flight", "ready"}
  BY <1>6, <1>8
<1>10. Script \in Seq(Commands)
  BY <1>8 DEF Commands
<1>11. QED
  BY <1>5, <1>6, <1>8, <1>9, <1>10

\* Only listeners, the settings and the statement that says the container is ready
\* follow or precede the boundary unguarded, and the load is written in one piece.
LEMMA PositionFacts ==
    ASSUME NEW k \in 1..Len(Script)
    PROVE  /\ Script[k] \in Listens => k > Boundary
           /\ k = 1 \/ k = 2 <=> ~Guarded(Script[k])
           /\ Composed(Script[k]) => k = 2 \/ k > Boundary
           /\ Script[k] \in Commands
<1>1. k = 1 \/ k = 2 \/ k \in 3..(Boundary - 1) \/ k = Boundary \/ k \in (Boundary + 1)..Len(Script)
  BY ScriptFacts
<1>2. Script[k] \in Commands
  BY DEF Commands
<1>3. QED
  BY <1>1, <1>2, ScriptFacts DEF Listens, Guarded, Composed
-----------------------------------------------------------------------------
(* Types and places.                                                        *)

\* A command of the script is behind its position.
LEMMA NextCommandFacts ==
    ASSUME at \in 1..Len(Script), NextCommand
    PROVE  at' \in 1..(Len(Script) + 1) /\ at' = at + 1 /\ pc' = "check" /\ torn' = FALSE
<1>1. Len(Script) \in Nat
  BY ScriptFacts
<1>2. QED
  BY <1>1 DEF NextCommand

\* What the pipe holds fits.
LEMMA PipeFacts ==
    ASSUME TypeOK
    PROVE  /\ pipe \in Seq(Commands) /\ Len(pipe) \in Nat /\ Len(pipe) <= PipeCapacity
           /\ \A c \in Commands : /\ Append(pipe, c) \in Seq(Commands)
                                  /\ Len(Append(pipe, c)) = Len(pipe) + 1
           /\ pipe # <<>> => /\ Head(pipe) \in Commands /\ Tail(pipe) \in Seq(Commands)
                             /\ Len(Tail(pipe)) = Len(pipe) - 1
BY DEF TypeOK

\* The steps of the CLI keep the types and the places.
LEMMA CliKeepsTypes ==
    ASSUME TypeOK, PlaceInv,
           CliStarts \/ CliReads \/ CliSucceeds \/ CliFails \/ CliKilled
    PROVE  TypeOK' /\ PlaceInv'
<1>1. CASE CliStarts
  BY <1>1 DEF CliStarts, CliEnds, TypeOK, PlaceInv, launcher
<1>2. CASE CliReads
  <2>1. /\ pipe' = IF pipe = <<>> THEN <<>> ELSE Tail(pipe)
        /\ pipe' \in Seq(Commands) /\ Len(pipe') <= PipeCapacity
    <3>1. pipe' = IF pipe = <<>> THEN <<>> ELSE Tail(pipe)
      BY <1>2 DEF CliReads
    <3>2. CASE pipe = <<>>
      BY <3>1, <3>2, PipeFacts
    <3>3. CASE pipe # <<>>
      BY <3>1, <3>3, PipeFacts, SizeAssumption
    <3>4. QED
      BY <3>1, <3>2, <3>3
  <2>2. CASE cli' = "busy" /\ running' = Head(pipe) /\ pipe # <<>> /\ UNCHANGED <<intr, code, pending>>
    BY <1>2, <2>1, <2>2, PipeFacts DEF CliReads, TypeOK, PlaceInv, launcher
  <2>3. CASE \E c \in {"ok", "error"} : CliEnds(c)
    BY <1>2, <2>1, <2>3 DEF CliReads, CliEnds, TypeOK, PlaceInv, launcher
  <2>4. QED
    BY <1>2, <2>2, <2>3, Zenon DEF CliReads
<1>3. CASE CliSucceeds
  BY <1>3 DEF CliSucceeds, TypeOK, PlaceInv, launcher, Commands
<1>4. CASE CliFails
  BY <1>4 DEF CliFails, CliEnds, TypeOK, PlaceInv, launcher
<1>5. CASE CliKilled
  BY <1>5 DEF CliKilled, CliEnds, Alive, TypeOK, PlaceInv, launcher
<1>6. QED
  BY <1>1, <1>2, <1>3, <1>4, <1>5

\* So do the steps of the launcher and the signals.
LEMMA LauncherKeepsTypes ==
    ASSUME TypeOK, PlaceInv,
           LauncherStep \/ LauncherFails \/ \E s \in Termination : Signal(s)
    PROVE  TypeOK' /\ PlaceInv'
<1>0. Len(Script) \in Nat
  BY ScriptFacts
<1>1. CASE Launch
  <2>1. TypeOK'
    BY <1>1 DEF Launch, TypeOK
  <2>2. PlaceInv'
    BY <1>1 DEF Launch, TypeOK, PlaceInv
  <2>3. QED
    BY <2>1, <2>2
<1>13. CASE Refuse \/ InputFails \/ WaitFails
  <2>1. TypeOK'
    BY <1>13 DEF Refuse, InputFails, WaitFails, TypeOK, child
  <2>2. PlaceInv'
    BY <1>13 DEF Refuse, InputFails, WaitFails, TypeOK, PlaceInv, child
  <2>3. QED
    BY <2>1, <2>2
<1>2. CASE Check
  <2>1. at \in 1..Len(Script)
    BY <1>0, <1>2 DEF Check, TypeOK
  <2>2. CASE NextCommand
    BY <1>2, <2>1, <2>2, NextCommandFacts DEF Check, TypeOK, PlaceInv, child
  <2>3. CASE pc' = "write" /\ UNCHANGED <<at, torn>>
    BY <1>2, <2>1, <2>3 DEF Check, TypeOK, PlaceInv, child
  <2>4. QED
    BY <1>2, <2>2, <2>3 DEF Check
<1>3. CASE InitReadFails
  BY <1>3 DEF InitReadFails, TypeOK, PlaceInv, child
<1>4. CASE Write
  <2>1. at \in 1..Len(Script)
    BY <1>0, <1>4 DEF Write, PlaceInv, TypeOK
  <2>2. pipe' \in Seq(Commands) /\ Len(pipe') <= PipeCapacity
    <3>1. CASE Alive
      <4>1. PICK c \in Commands : pipe' = Append(pipe, c)
        BY <1>4, <2>1, <3>1, PositionFacts DEF Write, Commands
      <4>2. Len(pipe) < PipeCapacity
        BY <1>4, <3>1, PipeFacts, SizeAssumption DEF Write, WriteBlocks
      <4>3. QED
        BY <4>1, <4>2, PipeFacts, SizeAssumption
    <3>2. CASE ~Alive
      BY <1>4, <3>2, PipeFacts DEF Write
    <3>3. QED
      BY <3>1, <3>2
  <2>3. NextCommand
    BY <1>4 DEF Write
  <2>4. broken' \in BOOLEAN
    BY <1>4 DEF Write, TypeOK
  <2>5. QED
    BY <1>4, <2>1, <2>2, <2>3, <2>4, NextCommandFacts DEF Write, TypeOK, PlaceInv, child
<1>5. CASE Block
  BY <1>5 DEF Block, TypeOK, PlaceInv, child
<1>6. CASE Look
  BY <1>6 DEF Look, Reaped, TypeOK, PlaceInv, child
<1>7. CASE Sigwait
  BY <1>7 DEF Sigwait, Interrupted, Alive, TypeOK, PlaceInv
<1>8. CASE Quit
  <2>1. pipe' \in Seq(Commands) /\ Len(pipe') <= PipeCapacity
    BY <1>8, PipeFacts, SizeAssumption DEF Quit, Commands
  <2>2. QED
    BY <1>8, <2>1 DEF Quit, TypeOK, PlaceInv, child
<1>9. CASE Reap
  BY <1>9 DEF Reap, Reaped, TypeOK, PlaceInv
<1>10. ASSUME NEW s \in Termination, Signal(s) PROVE TypeOK' /\ PlaceInv'
  <2>1. signals' \in 0..MaxSignals
    BY <1>10, SizeAssumption DEF Signal, TypeOK
  <2>2. QED
    BY <1>10, <2>1 DEF Signal, Termination, TypeOK, PlaceInv, launcher, child
<1>11. ASSUME NEW s \in Termination, Handle(s) PROVE TypeOK' /\ PlaceInv'
  <2>1. /\ pending' = pending \ {s} /\ stopping' = TRUE /\ intr' \in BOOLEAN
        /\ UNCHANGED <<blocked, signals, pipe, eof, running, code, done, failed>>
    BY <1>11 DEF Handle, Interrupted, Alive, TypeOK
  <2>2. CASE WriteBlocks
    <3>1. /\ pc = "write" /\ at \in 1..Len(Script) /\ broken' = TRUE
          /\ UNCHANGED <<status, cli>>
          /\ NextCommand \/ (Composed(Script[at]) /\ torn' = TRUE /\ UNCHANGED <<pc, at>>)
      BY <1>0, <1>11, <2>2 DEF Handle, WriteBlocks, PlaceInv, TypeOK
    <3>2. CASE NextCommand
      BY <2>1, <3>1, <3>2, NextCommandFacts DEF TypeOK, PlaceInv
    <3>3. CASE Composed(Script[at]) /\ torn' = TRUE /\ UNCHANGED <<pc, at>>
      BY <2>1, <3>1, <3>3 DEF TypeOK, PlaceInv
    <3>4. QED
      BY <3>1, <3>2, <3>3
  <2>3. CASE ~WriteBlocks
    BY <1>11, <2>1, <2>3 DEF Handle, TypeOK, PlaceInv
  <2>4. QED
    BY <2>2, <2>3
<1>12. QED
  BY <1>1, <1>2, <1>3, <1>4, <1>5, <1>6, <1>7, <1>8, <1>9, <1>10, <1>11, <1>13, Zenon DEF LauncherStep, LauncherFails

-----------------------------------------------------------------------------
(* The stream.                                                              *)

\* What is written goes behind everything else.
LEMMA AppendedLast ==
    ASSUME TypeOK, NEW c \in Commands, pipe' = Append(pipe, c), UNCHANGED <<running, done>>
    PROVE  /\ Sent' = Sent \cup {c}
           /\ Len(pipe') = Len(pipe) + 1 /\ pipe'[Len(pipe) + 1] = c
           /\ \A k \in 1..Len(pipe) : pipe'[k] = pipe[k]
           /\ \A k \in 1..(Len(pipe) + 1) : Ahead(k)' = Ahead(k)
<1>1. /\ Len(pipe) \in Nat /\ Len(pipe') = Len(pipe) + 1 /\ pipe'[Len(pipe) + 1] = c
      /\ \A k \in 1..Len(pipe) : pipe'[k] = pipe[k]
  BY DEF TypeOK
<1>2. ASSUME NEW k \in 1..(Len(pipe) + 1) PROVE Ahead(k)' = Ahead(k)
  BY <1>1, <1>2 DEF Ahead
<1>3. Sent' = Sent \cup {c}
  BY <1>1 DEF Sent, Ahead
<1>4. QED
  BY <1>1, <1>2, <1>3

\* What is read was first, and the others move up.
LEMMA ReadFirst ==
    ASSUME TypeOK, pipe # <<>>, running = "none", pipe' = Tail(pipe), running' = Head(pipe),
           done' = done
    PROVE  /\ Sent \ {"none"} \subseteq Sent' /\ Len(pipe) \in Nat \ {0}
           /\ Len(pipe') = Len(pipe) - 1 /\ running' = pipe[1]
           /\ \A k \in 1..Len(pipe') : /\ pipe'[k] = pipe[k + 1]
                                       /\ Ahead(k + 1) \ {"none"} \subseteq Ahead(k)'
<1>1. /\ Len(pipe) \in Nat \ {0} /\ Len(pipe') = Len(pipe) - 1 /\ running' = pipe[1]
      /\ \A k \in 1..Len(pipe') : pipe'[k] = pipe[k + 1]
  BY DEF TypeOK
<1>2. ASSUME NEW k \in 1..Len(pipe), NEW c \in Ahead(k + 1) \ {"none"} PROVE c \in Ahead(k)'
  <2>1. CASE c \in done
    BY <2>1 DEF Ahead
  <2>2. CASE c = pipe[1]
    BY <1>1, <2>2 DEF Ahead
  <2>3. CASE c \in {pipe[j] : j \in 2..k}
    <3>1. PICK j \in 2..k : c = pipe[j]
      BY <2>3
    <3>2. j - 1 \in 1..(k - 1) /\ pipe'[j - 1] = c
      BY <1>1, <3>1
    <3>3. QED
      BY <3>2 DEF Ahead
  <2>4. c \in done \/ \E j \in 1..((k + 1) - 1) : c = pipe[j]
    BY DEF Ahead
  <2>5. 1..((k + 1) - 1) = {1} \cup (2..k)
    OBVIOUS
  <2>6. QED
    BY <2>1, <2>2, <2>3, <2>4, <2>5
<1>3. Sent \ {"none"} \subseteq Sent'
  BY <1>1, <1>2 DEF Sent
<1>4. QED
  BY <1>1, <1>2, <1>3

\* The CLI runs what it reads, in this order.
LEMMA CliKeepsStream ==
    ASSUME IInv, CliStarts \/ CliReads \/ CliSucceeds \/ CliFails \/ CliKilled
    PROVE  WriterInv' /\ QueueInv'
<1> SUFFICES ASSUME Alive' PROVE WriterInv' /\ QueueInv'
  BY DEF WriterInv, QueueInv
<1>0. UNCHANGED launcher /\ Alive /\ TypeOK
  BY DEF CliStarts, CliReads, CliSucceeds, CliFails, CliKilled, Alive, IInv
<1>1. CASE CliStarts
  <2>1. UNCHANGED <<launcher, pipe, running, done>>
    BY <1>1 DEF CliStarts, CliEnds, Alive
  <2>2. QED
    BY <1>0, <2>1 DEF IInv, WriterInv, QueueInv, Serious, Sent, Ahead, launcher
<1>2. CASE CliReads
  <2>1. /\ pipe # <<>> /\ running = "none" /\ pipe' = Tail(pipe) /\ running' = Head(pipe)
        /\ done' = done
    <3>1. ~\E c \in {"ok", "error"} : CliEnds(c)
      BY DEF CliEnds, Alive
    <3>2. QED
      BY <1>2, <3>1 DEF CliReads, IInv, PlaceInv
  <2>2. WriterInv'
    <3>1. pc \in {"check", "write"} => at # 1
      BY <1>0, <2>1 DEF IInv, WriterInv
    <3>2. QED
      BY <1>0, <2>1, <3>1, ReadFirst DEF IInv, WriterInv, Serious, launcher
  <2>3. \A k \in 1..Len(pipe') : pipe'[k] \in Listens => {"load", "boundary"} \subseteq Ahead(k)'
    <3>1. \A k \in 1..Len(pipe') : k + 1 \in 1..Len(pipe)
      BY <1>0, <2>1, ReadFirst
    <3>2. QED
      BY <1>0, <2>1, <3>1, ReadFirst DEF IInv, QueueInv
  <2>4. running' \in Listens => {"load", "boundary"} \subseteq done
    <3>1. running' = pipe[1] /\ 1 \in 1..Len(pipe)
      BY <1>0, <2>1, ReadFirst
    <3>2. Ahead(1) = done \cup {"none"}
      BY <2>1 DEF Ahead
    <3>3. QED
      BY <1>0, <3>1, <3>2 DEF IInv, QueueInv
  <2>5. QED
    BY <1>0, <2>1, <2>2, <2>3, <2>4 DEF IInv, QueueInv
<1>3. CASE CliSucceeds
  <2>1. done' = done \cup {running} /\ running' = "none" /\ pipe' = pipe
    BY <1>3 DEF CliSucceeds
  <2>2. \A k : Ahead(k) \subseteq Ahead(k)'
    BY <2>1 DEF Ahead
  <2>3. Sent \subseteq Sent'
    BY <2>1, <2>2 DEF Sent
  <2>4. QED
    BY <1>0, <2>1, <2>2, <2>3 DEF IInv, WriterInv, QueueInv, Serious, launcher, Listens
<1>4. CASE CliFails \/ CliKilled
  BY <1>4 DEF CliFails, CliKilled, CliEnds, Alive
<1>5. QED
  BY <1>1, <1>2, <1>3, <1>4

\* The launcher writes a listener only behind the boundary, and loses the boundary
\* only when it is stopping.
LEMMA LauncherKeepsStream ==
    ASSUME IInv, LauncherStep \/ LauncherFails \/ \E s \in Termination : Signal(s)
    PROVE  WriterInv' /\ QueueInv'
<1>0. TypeOK /\ PlaceInv /\ Len(Script) \in Nat /\ at \in Nat \ {0}
  BY ScriptFacts DEF IInv, TypeOK
<1>1. ASSUME UNCHANGED <<pipe, running, done>>, Alive' => Alive PROVE QueueInv'
  BY <1>1 DEF IInv, QueueInv, Ahead
<1>2. ASSUME UNCHANGED <<pipe, running, done>>, Alive' => Alive,
             pc' \in {"check", "write"} => pc' = pc /\ at' = at, stopping => stopping'
      PROVE  WriterInv'
  BY <1>2 DEF IInv, WriterInv, Serious, Sent, Ahead
<1>3. CASE Launch \/ InputFails
  <2>1. /\ pipe' = <<>> /\ done' = {} /\ running' = "none" /\ at' = 1
        /\ ~(at' > Boundary) /\ ~(at' > 1)
    BY <1>0, <1>3, ScriptFacts DEF Launch, InputFails, PlaceInv
  <2>2. WriterInv'
    BY <2>1 DEF WriterInv
  <2>3. QueueInv'
    <3>1. Len(pipe') = 0 /\ running' \notin Listens /\ done' \cap Listens = {}
      BY <2>1 DEF Listens
    <3>2. QED
      BY <3>1 DEF QueueInv
  <2>4. QED
    BY <2>2, <2>3
<1>4. CASE Refuse \/ InitReadFails \/ WaitFails \/ Block \/ Look \/ Reap \/ Sigwait
  <2>1. /\ UNCHANGED <<pipe, running, done>> /\ (Alive' => Alive)
        /\ pc' \notin {"check", "write"} /\ stopping' = stopping
    BY <1>4 DEF Refuse, InitReadFails, WaitFails, Block, Look, Reap, Sigwait, Reaped, Alive, child
  <2>2. QED
    BY <1>1, <1>2, <2>1
<1>5. CASE \E s \in Termination : Signal(s)
  <2>1. UNCHANGED <<launcher, pipe, child>>
    BY <1>5 DEF Signal
  <2>2. QED
    BY <1>1, <1>2, <2>1 DEF launcher, child, Alive
<1>6. CASE Check
  <2>1. /\ UNCHANGED <<pipe, running, done, stopping, cli>> /\ pc = "check"
        /\ at \in 1..Len(Script)
    BY <1>0, <1>6 DEF Check, child, TypeOK
  <2>2. Sent' = Sent
    BY <2>1 DEF Sent, Ahead
  <2>3. CASE Guarded(Script[at]) /\ stopping
    <3>1. pc' = "check" /\ at' = at + 1 /\ at # 1
      BY <1>6, <2>1, <2>3, PositionFacts DEF Check, NextCommand
    <3>2. QED
      BY <1>0, <1>1, <2>1, <2>2, <2>3, <3>1 DEF IInv, WriterInv, Serious, Alive
  <2>4. CASE ~(Guarded(Script[at]) /\ stopping)
    <3>1. pc' = "write" /\ at' = at
      BY <1>6, <2>4 DEF Check
    <3>2. at > Boundary => ~stopping
      BY <2>1, <2>4, PositionFacts, ScriptFacts
    <3>3. QED
      BY <1>0, <1>1, <2>1, <2>2, <3>1, <3>2 DEF IInv, WriterInv, Serious, Alive
  <2>5. QED
    BY <2>3, <2>4
<1>7. CASE Write
  <2> SUFFICES ASSUME Alive' PROVE WriterInv' /\ QueueInv'
    BY DEF WriterInv, QueueInv
  <2> DEFINE c == IF torn THEN "torn" ELSE Script[at]
  <2>1. /\ Alive /\ pc = "write" /\ at \in 1..Len(Script) /\ c \in Commands
        /\ pipe' = Append(pipe, c) /\ UNCHANGED <<running, done>> /\ at' = at + 1
        /\ pc' = "check"
    <3>1. Alive /\ pc = "write" /\ UNCHANGED <<running, done>> /\ NextCommand
      BY <1>7 DEF Write, child, Alive
    <3>2. at \in 1..Len(Script)
      BY <1>0, <3>1 DEF PlaceInv, TypeOK
    <3>3. c \in Commands
      BY <3>2, PositionFacts DEF Commands
    <3>4. pipe' = Append(pipe, c)
      BY <1>7, <3>1 DEF Write
    <3>5. QED
      BY <3>1, <3>2, <3>3, <3>4 DEF NextCommand
  <2>2. c = "torn" \/ c = Script[at]
    OBVIOUS
  <2>3. at = 1 \/ at = Boundary => c = Script[at]
    BY <1>0, <2>1, PositionFacts, ScriptFacts DEF PlaceInv
  <2> HIDE DEF c
  <2>4. /\ Sent' = Sent \cup {c} /\ Len(pipe') = Len(pipe) + 1 /\ pipe'[Len(pipe) + 1] = c
        /\ \A k \in 1..Len(pipe) : pipe'[k] = pipe[k]
        /\ \A k \in 1..(Len(pipe) + 1) : Ahead(k)' = Ahead(k)
    BY <1>0, <2>1, AppendedLast
  <2>5. WriterInv'
    <3>1. "load" \in Sent'
      BY <2>1, <2>3, <2>4, ScriptFacts DEF IInv, WriterInv
    <3>2. at' > Boundary => "boundary" \in Sent'
      BY <1>0, <2>1, <2>3, <2>4, ScriptFacts DEF IInv, WriterInv, Serious
    <3>3. QED
      BY <1>0, <2>1, <3>1, <3>2 DEF WriterInv
  <2>6. c \in Listens => {"load", "boundary"} \subseteq Sent
    <3>1. c \in Listens => at > Boundary
      BY <2>1, <2>2, PositionFacts DEF Listens
    <3>2. QED
      BY <1>0, <2>1, <3>1, ScriptFacts DEF IInv, WriterInv, Serious
  <2>7. Len(pipe) \in Nat
    BY <1>0, PipeFacts
  <2>8. \A k \in 1..Len(pipe') : pipe'[k] \in Listens => {"load", "boundary"} \subseteq Ahead(k)'
    <3> TAKE k \in 1..Len(pipe')
    <3>1. CASE k = Len(pipe) + 1
      BY <2>4, <2>6, <2>7, <3>1 DEF Sent
    <3>2. CASE k \in 1..Len(pipe)
      BY <2>1, <2>4, <3>2 DEF IInv, QueueInv
    <3>3. QED
      BY <2>4, <2>7, <3>1, <3>2
  <2>9. QED
    BY <2>1, <2>5, <2>8 DEF IInv, QueueInv
<1>8. CASE Quit
  <2> SUFFICES ASSUME Alive' PROVE WriterInv' /\ QueueInv'
    BY DEF WriterInv, QueueInv
  <2>1. /\ Alive /\ pipe' = Append(pipe, "quit") /\ UNCHANGED <<running, done>> /\ pc' = "reap"
    BY <1>8 DEF Quit, child, Alive
  <2>2. "quit" \in Commands /\ Len(pipe) \in Nat
    BY <1>0, PipeFacts DEF Commands
  <2>3. \A k \in 1..Len(pipe') : pipe'[k] \in Listens => {"load", "boundary"} \subseteq Ahead(k)'
    <3> TAKE k \in 1..Len(pipe')
    <3>1. k = Len(pipe) + 1 \/ k \in 1..Len(pipe)
      BY <1>0, <2>1, <2>2, AppendedLast
    <3>2. QED
      BY <1>0, <2>1, <2>2, <3>1, AppendedLast DEF IInv, QueueInv, Listens
  <2>4. QED
    BY <2>1, <2>3 DEF IInv, WriterInv, QueueInv, Serious
<1>9. ASSUME NEW s \in Termination, Handle(s) PROVE WriterInv' /\ QueueInv'
  <2>1. UNCHANGED <<pipe, running, done, cli>> /\ stopping' = TRUE
    BY <1>9 DEF Handle
  <2>2. Sent' = Sent /\ (Alive' <=> Alive)
    BY <2>1 DEF Sent, Ahead, Alive
  <2>3. CASE WriteBlocks /\ NextCommand
    <3>1. pipe # <<>>
      BY <2>3, SizeAssumption DEF WriteBlocks
    <3>2. pc = "write" /\ at # 1 /\ pc' = "check" /\ at' = at + 1
      BY <2>3, <3>1 DEF WriteBlocks, NextCommand, IInv, WriterInv
    <3>3. QED
      BY <1>0, <1>1, <2>1, <2>2, <3>2 DEF IInv, WriterInv, Serious
  <2>4. CASE ~(WriteBlocks /\ NextCommand)
    <3>1. pc' = "end" \/ (pc' = pc /\ at' = at)
      BY <1>9, <2>4 DEF Handle
    <3>2. QED
      BY <1>1, <1>2, <2>1, <2>2, <3>1
  <2>5. QED
    BY <2>3, <2>4
<1>10. QED
  BY <1>3, <1>4, <1>5, <1>6, <1>7, <1>8, <1>9, Zenon DEF LauncherStep, LauncherFails

-----------------------------------------------------------------------------
(* Failures.                                                                *)

\* The status of a failure reaches the end.
LEMMA FailureStep ==
    ASSUME IInv, Next
    PROVE  FailureInv'
<1>0. TypeOK /\ PlaceInv /\ FailureInv
  BY DEF IInv
<1>1. CASE CliStarts \/ CliReads \/ CliSucceeds \/ CliKilled
  <2>1. cli \in {"boot", "idle", "busy"} /\ UNCHANGED <<pc, status>> /\ failed' = failed
    BY <1>1 DEF CliStarts, CliReads, CliSucceeds, CliKilled, Alive, launcher
  <2>2. QED
    BY <1>0, <2>1 DEF FailureInv
<1>2. CASE CliFails
  BY <1>0, <1>2 DEF CliFails, CliEnds, FailureInv, launcher
<1>3. CASE Launch \/ Refuse \/ InputFails \/ WaitFails
  BY <1>0, <1>3 DEF Launch, Refuse, InputFails, WaitFails, PlaceInv, FailureInv, child
<1>4. CASE Check \/ Write \/ InitReadFails
  BY <1>0, <1>4 DEF Check, Write, InitReadFails, NextCommand, FailureInv, child
<1>5. CASE Block \/ Quit
  BY <1>0, <1>5 DEF Block, Quit, FailureInv, child
<1>6. CASE Look \/ Reap
  BY <1>0, <1>6 DEF Look, Reap, Reaped, FailureInv, child
<1>7. CASE Sigwait \/ \E s \in Termination : Signal(s)
  BY <1>0, <1>7 DEF Sigwait, Signal, FailureInv, launcher, child
<1>8. ASSUME NEW s \in Termination, Handle(s) PROVE FailureInv'
  BY <1>0, <1>8 DEF Handle, NextCommand, WriteBlocks, FailureInv
<1>9. QED
  BY <1>1, <1>2, <1>3, <1>4, <1>5, <1>6, <1>7, <1>8, Zenon DEF Next, LauncherStep, LauncherFails, CliStep

\* Nothing runs at first.
LEMMA InitHolds == Init => IInv
<1> SUFFICES ASSUME Init PROVE IInv
  OBVIOUS
<1>1. TypeOK
  <2>1. 1 \in 1..(Len(Script) + 1) /\ 0 \in 0..MaxSignals /\ 0 <= PipeCapacity
    BY ScriptFacts, SizeAssumption
  <2>2. <<>> \in Seq(Commands) /\ Len(<<>>) = 0
    OBVIOUS
  <2>3. QED
    BY <2>1, <2>2 DEF Init, TypeOK
<1>2. PlaceInv /\ FailureInv /\ WriterInv /\ QueueInv
  BY DEF Init, PlaceInv, FailureInv, WriterInv, QueueInv, Alive
<1>3. QED
  BY <1>1, <1>2 DEF IInv

\* Every step preserves the invariant.
LEMMA StepHolds == IInv /\ [Next]_vars => IInv'
<1> SUFFICES ASSUME IInv, [Next]_vars PROVE IInv'
  OBVIOUS
<1>1. CASE LauncherStep \/ LauncherFails \/ \E s \in Termination : Signal(s)
  <2>1. Next
    BY <1>1, Zenon DEF Next
  <2>2. QED
    BY <1>1, <2>1, LauncherKeepsTypes, LauncherKeepsStream, FailureStep DEF IInv
<1>2. CASE CliStarts \/ CliReads \/ CliSucceeds \/ CliFails \/ CliKilled
  <2>1. Next
    BY <1>2, Zenon DEF Next, CliStep
  <2>2. QED
    BY <1>2, <2>1, CliKeepsTypes, CliKeepsStream, FailureStep DEF IInv
<1>3. CASE UNCHANGED vars
  BY <1>3 DEF vars, launcher, child, IInv, TypeOK, PlaceInv, WriterInv, QueueInv, FailureInv,
              Serious, Sent, Ahead, Alive
<1>4. QED
  BY <1>1, <1>2, <1>3, Zenon DEF Next, CliStep

\* The invariant holds in every reachable state.
THEOREM Invariant == Spec => []IInv
BY InitHolds, StepHolds, PTL DEF Spec

\* The state is well formed, and a pipe never holds more than fits.
THEOREM TypeCorrect == Spec => []TypeOK
<1>1. IInv => TypeOK
  BY DEF IInv
<1>2. QED
  BY <1>1, Invariant, PTL

\* Wherever a signal, a full pipe, a failing or a killed CLI cuts the script short:
\* while a listener is up, the boundary has been applied.
THEOREM Sealed == Spec => []SealedBeforeServing
<1>1. IInv => SealedBeforeServing
  <2> SUFFICES ASSUME IInv, Serving # {} PROVE {"load", "boundary"} \subseteq done
    BY DEF SealedBeforeServing
  <2>1. Alive /\ done \cap Listens # {}
    BY DEF Serving, Listens
  <2>2. QED
    BY <2>1 DEF IInv, QueueInv
<1>2. QED
  BY <1>1, Invariant, PTL

\* A startup command that failed is never followed by a listener or a success.
THEOREM FailureReported == Spec => []FailureIsReported
<1>1. IInv => FailureIsReported
  BY DEF IInv, FailureInv, FailureIsReported, Serving, Alive
<1>2. QED
  BY <1>1, Invariant, PTL
=============================================================================
