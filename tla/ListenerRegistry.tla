-------------------------- MODULE ListenerRegistry --------------------------
(***************************************************************************)
(* What the SQL functions of the extension promise (README.md, "SQL API"): *)
(* one set of listeners, and queries that start, stop or list them.  Each  *)
(* query takes effect at most once, at one moment between its call and its *)
(* answer, and its answer is what was true at that moment, or an error.    *)
(* Only a query that failed may have had no effect.                        *)
(***************************************************************************)
CONSTANTS
    Queries, Listeners,
    Err, None

VARIABLES
    running,    \* the listeners that run
    phase,      \* phase[q]: "idle", "called", "effective" or "answered"
    asks,       \* asks[q]: what query q is about
    result      \* result[q]: what it saw, and in the end its answer

vars == <<running, phase, asks, result>>

Request == [op : {"serve", "stop", "servers"}, listener : Listeners \cup {None}]

Init ==
    /\ running \subseteq Listeners
    /\ phase = [q \in Queries |-> "idle"]
    /\ asks = [q \in Queries |-> None]
    /\ result = [q \in Queries |-> None]

Call(q) ==
    /\ phase[q] = "idle"
    /\ phase' = [phase EXCEPT ![q] = "called"]
    /\ asks'[q] \in Request /\ asks' = [asks EXCEPT ![q] = asks'[q]]
    /\ UNCHANGED <<running, result>>

Serve(q) == /\ asks[q].op = "serve"
            /\ running' = running \cup {asks[q].listener}
            /\ result' = [result EXCEPT ![q] = asks[q].listener]

Stop(q) == /\ asks[q].op = "stop"
           /\ running' = running \ {asks[q].listener}
           /\ result' = [result EXCEPT ![q] = asks[q].listener \in running]

List(q) == /\ asks[q].op = "servers"
           /\ result' = [result EXCEPT ![q] = running]
           /\ UNCHANGED running

Effect(q) ==
    /\ phase[q] = "called"
    /\ phase' = [phase EXCEPT ![q] = "effective"]
    /\ Serve(q) \/ Stop(q) \/ List(q)
    /\ UNCHANGED asks

Answer(q) ==
    /\ phase[q] = "effective"
    /\ phase' = [phase EXCEPT ![q] = "answered"]
    /\ result' \in {result, [result EXCEPT ![q] = Err]}
    /\ UNCHANGED <<running, asks>>

Refuse(q) ==
    /\ phase[q] = "called"
    /\ phase' = [phase EXCEPT ![q] = "answered"]
    /\ result' = [result EXCEPT ![q] = Err]
    /\ UNCHANGED <<running, asks>>

\* Before the first query the core may start listeners by itself.
Preset ==
    /\ \A q \in Queries : phase[q] = "idle"
    /\ running' \subseteq Listeners
    /\ UNCHANGED <<phase, asks, result>>

Next == Preset \/ \E q \in Queries : Call(q) \/ Effect(q) \/ Answer(q) \/ Refuse(q)

Spec == Init /\ [][Next]_vars
=============================================================================
