---------------------------- MODULE MCAgentDebug ----------------------------
(***************************************************************************)
(* The debugger with two application threads and two methods.  One run     *)
(* ranges over three loads: both threads use one method, whatever it       *)
(* carries; both step through one breakpoint; one thread uses both methods *)
(* and so meets a breakpoint while it is in another.                       *)
(***************************************************************************)
EXTENDS AgentDebug, TLC

CONSTANTS a1, a2, m1, m2, srv

\* One thread meets every kind of instrumentation, the other breakpoints without
\* a condition.  Scripts call only methods whose lambda lets a thread that executes
\* JS pass through.
TwoThreads == (a1 :> Kind @@ a2 :> {"bp", "bpNative"}
               @@ srv :> {"hook", "hookPair", "bpCond", "bpNativeCond"})

\* Scripts and callbacks call any method, hooked or traced.
Unrestricted == [t \in Thread |-> Kind]
Callbacks    == [m \in Method |-> {"hook", "hookPair", "trace"}]

TwoMethods == (m1 :> {"bp", "bpNative", "bpNativeCond", "hook", "hookPair", "trace"}
               @@ m2 :> {"bpCond", "bpNative", "trace"})

VARIABLE load    \* who calls what in this behaviour

\* Two threads and scripts share m1, of which one only pauses and the other steps into
\* native callees only; two threads step, at any depth, through a breakpoint on m1 that
\* stays; or one thread meets a breakpoint on m1 and whatever m2 carries, one inside the
\* other, while scripts do not sleep.
Keeps ==
    \/ load = "threads" /\ want'.m # m2 /\ call'[a2].kind # "bp" /\ level'[a1] = 0
    \/ /\ load = "stepping"
       /\ want'.m # m2 /\ want'.kind \in {"none", "bp"} /\ back'[srv] = back[srv]
       /\ inst[m1] = "none" \/ want' = NoCall
       /\ pc'[srv] \notin {"relock", "detach"} /\ (pc'[srv] = "idle" => pc[srv] = "idle")
    \/ /\ load = "nested"
       /\ pc'[a2] = "idle" /\ back'[srv] = back[srv] /\ pc'[srv] # "relock"
       /\ want'.m = m1 => want'.kind \in {"none", "bp"}

LoadInit == Init /\ load \in {"threads", "stepping", "nested"}
LoadNext == Next /\ Keeps /\ UNCHANGED load
LoadSpec == LoadInit /\ [][LoadNext]_<<vars, load>> /\ Fairness
=============================================================================
