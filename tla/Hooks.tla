------------------------------- MODULE Hooks --------------------------------
(***************************************************************************)
(* What hardware hooks promise a script: before a thread executes an       *)
(* instruction that one of its sessions is on, the session's callback has  *)
(* run for it, once; a one-shot session is over with its first callback.   *)
(***************************************************************************)
CONSTANTS Thread, Session, Place

VARIABLES
    at,       \* the instruction each thread executes next
    live,     \* sessions that were attached and are not over
    of,       \* what each session is on: its thread, the places, whether it is one-shot
    served    \* per thread: sessions whose callback has run for that instruction

Concerns(i, t) == of[i].tid = t /\ at[t] \in of[i].places

Init ==
    /\ at \in [Thread -> Place]
    /\ live = {}
    /\ served = [t \in Thread |-> {}]

Attach(i) ==
    /\ i \notin live /\ \A t \in Thread : i \notin served[t]
    /\ live' = live \cup {i}
    /\ \A j \in live : of'[j] = of[j]
    /\ UNCHANGED <<at, served>>

Notify(t, i) ==
    /\ i \in live /\ Concerns(i, t) /\ i \notin served[t]
    /\ served' = [served EXCEPT ![t] = @ \cup {i}]
    /\ live' = IF of[i].once THEN live \ {i} ELSE live
    /\ UNCHANGED <<at, of>>

Execute(t) ==
    /\ \A i \in live : Concerns(i, t) => i \in served[t]
    /\ \E a \in Place : at' = [at EXCEPT ![t] = a]
    /\ served' = [served EXCEPT ![t] = {}]
    /\ UNCHANGED <<live, of>>

Next ==
    \/ \E i \in Session : Attach(i)
    \/ \E t \in Thread : Execute(t) \/ \E i \in Session : Notify(t, i)

Spec == Init /\ [][Next]_<<at, live, of, served>>
=============================================================================
