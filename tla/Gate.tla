-------------------------------- MODULE Gate --------------------------------
(***************************************************************************)
(* What the process gate promises: threads are parked at a gate, whoever   *)
(* parks one closes it, and none leaves while it is closed.                *)
(***************************************************************************)
CONSTANT Thr

VARIABLES
    closed,   \* the gate is closed
    parked    \* threads at the gate

Init == closed = FALSE /\ parked = {}

Park(t) ==
    /\ t \notin parked
    /\ closed' = TRUE /\ parked' = parked \cup {t}

\* The gate is closed first, and the thread sent to it later.
Close == closed' = TRUE /\ parked' = parked

Send(t) ==
    /\ t \notin parked
    /\ parked' = parked \cup {t} /\ closed' = closed

Open == closed' = FALSE /\ parked' = parked

Leave(t) ==
    /\ ~closed /\ t \in parked
    /\ parked' = parked \ {t} /\ closed' = closed

Next == \/ Close \/ Open
        \/ \E t \in Thr : Park(t) \/ Send(t) \/ Leave(t)

Spec == Init /\ [][Next]_<<closed, parked>>
=============================================================================
