----------------------------- MODULE SleepWake -----------------------------
(***************************************************************************)
(* What idle scaling promises, without saying how: a worker is awake or    *)
(* asleep, sessions exist only while it is awake, and it is put to sleep   *)
(* only when there is none (charts/duckflight/README.md, "Optional idle    *)
(* sleep and wake-up").                                                    *)
(***************************************************************************)
CONSTANT Sessions

VARIABLES awake, open

Init == awake = FALSE /\ open = {}

Wake == /\ ~awake
        /\ awake' = TRUE
        /\ UNCHANGED open

Sleep == /\ awake /\ open = {}
         /\ awake' = FALSE
         /\ UNCHANGED open

\* A session is admitted, or leaves detached work behind as it ends.
Open(s) == /\ awake /\ s \notin open
           /\ open' = open \cup {s}
           /\ UNCHANGED awake

\* Sessions end, one by one or all at once with their worker.
End(S) == /\ open' = open \ S
          /\ UNCHANGED awake

Next == \/ Wake \/ Sleep
        \/ \E s \in Sessions : Open(s)
        \/ \E S \in SUBSET open : End(S)

Spec == Init /\ [][Next]_<<awake, open>>
=============================================================================
