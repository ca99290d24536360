------------------------------ MODULE TaskPool ------------------------------
(***************************************************************************)
(* What a scheduler promises to the owner of a coroutine, whatever threads *)
(* it has and however it queues: each submission gives the coroutine one   *)
(* run, a run ends before the next one begins, a submission made while the *)
(* coroutine is still running is kept for after it, and a coroutine that   *)
(* has ended never runs again.                                             *)
(***************************************************************************)
CONSTANT Member      \* the coroutines

VARIABLES
    owed,            \* submitted, and the run has not begun
    running,         \* executing on some stack
    ended            \* the function has returned

poolState == <<owed, running, ended>>

Init == owed = {} /\ running = {} /\ ended = {}

\* One or several coroutines are submitted.  Nobody submits twice for one run.
Submit(S) ==
    /\ S # {} /\ S \cap owed = {}
    /\ owed' = owed \cup S
    /\ UNCHANGED <<running, ended>>

\* The one run a submission is for.
Begin(c) ==
    /\ c \in owed /\ c \notin running /\ c \notin ended
    /\ owed' = owed \ {c}
    /\ running' = running \cup {c}
    /\ UNCHANGED ended

\* The submission of a coroutine that has ended is dropped.
Drop(c) ==
    /\ c \in owed /\ c \in ended
    /\ owed' = owed \ {c}
    /\ UNCHANGED <<running, ended>>

\* The run is over and the next one is owed.
Yield(c) ==
    /\ c \in running /\ c \notin owed
    /\ owed' = owed \cup {c}
    /\ running' = running \ {c}
    /\ UNCHANGED ended

\* The run is over; a submission that was made meanwhile stays.
Suspend(c) ==
    /\ c \in running
    /\ running' = running \ {c}
    /\ UNCHANGED <<owed, ended>>

\* The last run is over.
End(c) ==
    /\ c \in running /\ c \notin owed
    /\ running' = running \ {c}
    /\ ended' = ended \cup {c}
    /\ UNCHANGED owed

Next ==
    \/ \E S \in SUBSET Member : Submit(S)
    \/ \E c \in Member : Begin(c) \/ Drop(c) \/ Yield(c) \/ Suspend(c) \/ End(c)

PoolSpec == Init /\ [][Next]_poolState

=============================================================================
