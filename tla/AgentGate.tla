----------------------------- MODULE AgentGate ------------------------------
(***************************************************************************)
(* The gate at which threads of the target are parked (agent_main.cpp):    *)
(* one futex word, artpi_gate_state.paused, beside the context to which    *)
(* the trampoline returns.                                                 *)
(*                                                                         *)
(* The main thread is sent into the trampoline by the injector, which      *)
(* holds it stopped; any thread may park itself at a breakpoint on dlopen. *)
(* All of them wait for the same word, and one resume opens it for all.    *)
(* Of the context only the program counter is written by both, so it is    *)
(* modelled by who wrote it.                                               *)
(***************************************************************************)
EXTENDS Integers, FiniteSets

CONSTANTS
    Thr,        \* threads of the application
    Main,       \* its main thread
    Resumer,    \* threads of the agent that call ArtPIResumeProcess
    InitPc,     \* where the injector stopped the main thread
    NoPc

ASSUME GateAssumption ==
    Main \in Thr /\ InitPc \notin Thr /\ NoPc \notin Thr \cup {InitPc}

VARIABLES
    paused,    \* artpi_gate_state.paused
    gatePc,    \* artpi_gate_state.pc: NoPc, InitPc, or the thread that stored it
    th,        \* where each thread stands
    ctx,       \* the context the main thread goes on with
    res,       \* "wake" between the exchange and FUTEX_WAKE of a resume
    crossed    \* a thread stored its pc over the one the trampoline is to use

gateVars == <<paused, gatePc, th, ctx, res, crossed>>

Th == {"run", "held", "store", "check", "wait", "asleep", "leave"}
AtGate(t) == th[t] \in {"check", "wait", "asleep"}

GateInit ==
    /\ paused = 0 /\ gatePc = NoPc
    /\ th = [t \in Thr |-> "run"]
    /\ ctx = "own"
    /\ res = [r \in Resumer |-> "idle"]
    /\ crossed = FALSE

----------------------------------------------------------------------------
(* ArtPIGateWait *)

GoTo(t, w) == th' = [th EXCEPT ![t] = w]

Check(t) ==
    /\ th[t] = "check"
    /\ GoTo(t, IF paused = 0 THEN "leave" ELSE "wait")
    /\ UNCHANGED <<paused, gatePc, ctx, res, crossed>>

\* FUTEX_WAIT sleeps only if the word is still 1.
\* Mutant: the word is not compared.
FutexWaitBlind(t) ==
    /\ th[t] = "wait"
    /\ GoTo(t, "asleep")
    /\ UNCHANGED <<paused, gatePc, ctx, res, crossed>>
FutexWait(t) ==
    /\ th[t] = "wait"
    /\ GoTo(t, IF paused = 1 THEN "asleep" ELSE "check")
    /\ UNCHANGED <<paused, gatePc, ctx, res, crossed>>

\* A signal ends the system call.
FutexInterrupted(t) ==
    /\ th[t] = "asleep"
    /\ GoTo(t, "check")
    /\ UNCHANGED <<paused, gatePc, ctx, res, crossed>>

\* The trampoline loads the saved context; another thread just returns.
Leave(t) ==
    /\ th[t] = "leave"
    /\ GoTo(t, "run")
    /\ ctx' = IF t = Main /\ ctx = "tramp"
              THEN IF gatePc = InitPc THEN "own" ELSE "lost"
              ELSE ctx
    /\ UNCHANGED <<paused, gatePc, res, crossed>>

(* ArtPIPauseCurrentThread *)

PausePc(t) ==
    /\ th[t] = "run"
    /\ GoTo(t, "store")
    /\ gatePc' = t
    /\ crossed' = (crossed \/ ctx = "tramp")
    /\ UNCHANGED <<paused, ctx, res>>

PauseStore(t) ==
    /\ th[t] = "store"
    /\ paused' = 1
    /\ GoTo(t, "check")
    /\ UNCHANGED <<gatePc, ctx, res, crossed>>

(* ArtPIResumeProcess *)

Exchange(r) ==
    /\ res[r] = "idle" /\ paused = 1
    /\ paused' = 0
    /\ res' = [res EXCEPT ![r] = "wake"]
    /\ UNCHANGED <<gatePc, th, ctx, crossed>>

Woken(w) == [t \in Thr |-> IF th[t] = "asleep" THEN w ELSE th[t]]
\* Mutant: the wait is not a loop, so a thread that is woken leaves.
WakeLeaves(r) ==
    /\ res[r] = "wake"
    /\ th' = Woken("leave")
    /\ res' = [res EXCEPT ![r] = "idle"]
    /\ UNCHANGED <<paused, gatePc, ctx, crossed>>
Wake(r) ==
    /\ res[r] = "wake"
    /\ th' = Woken("check")
    /\ res' = [res EXCEPT ![r] = "idle"]
    /\ UNCHANGED <<paused, gatePc, ctx, crossed>>

(* The injector's side, with the main thread held stopped *)

Hold ==
    /\ th[Main] = "run"
    /\ GoTo(Main, "held")
    /\ UNCHANGED <<paused, gatePc, ctx, res, crossed>>

\* The gate state is poked, and the registers are set to the trampoline.
Poke ==
    /\ th[Main] = "held" /\ ctx = "own"
    /\ paused' = 1 /\ gatePc' = InitPc /\ ctx' = "tramp"
    /\ UNCHANGED <<th, res, crossed>>

\* The registers are refused, and the main thread is not sent to the gate.
PokeOnly ==
    /\ th[Main] = "held" /\ ctx = "own"
    /\ paused' = 1 /\ gatePc' = InitPc
    /\ UNCHANGED <<th, ctx, res, crossed>>

Release ==
    /\ th[Main] = "held"
    /\ GoTo(Main, IF ctx = "tramp" THEN "check" ELSE "run")
    /\ UNCHANGED <<paused, gatePc, ctx, res, crossed>>

GateWait(t) == Check(t) \/ FutexWait(t) \/ Leave(t)

GateNext ==
    \/ \E t \in Thr : GateWait(t) \/ FutexInterrupted(t) \/ PausePc(t) \/ PauseStore(t)
    \/ \E r \in Resumer : Exchange(r) \/ Wake(r)
    \/ Hold \/ Poke \/ PokeOnly \/ Release

GateSpec == GateInit /\ [][GateNext]_gateVars

----------------------------------------------------------------------------
GateTypeOK ==
    /\ paused \in {0, 1}
    /\ gatePc \in Thr \cup {InitPc, NoPc}
    /\ th \in [Thr -> Th]
    /\ ctx \in {"own", "call", "tramp", "lost"}
    /\ res \in [Resumer -> {"idle", "wake"}]
    /\ crossed \in BOOLEAN

\* No wake-up is lost: while the word is 0, a thread asleep in FUTEX_WAIT has the
\* FUTEX_WAKE of some ArtPIResumeProcess still to come.
WakeDue ==
    paused = 0 /\ (\E t \in Thr : th[t] = "asleep") => \E r \in Resumer : res[r] = "wake"

\* The futex protocol implements the gate.
G == INSTANCE Gate WITH closed <- (paused = 1), parked <- {t \in Thr : AtGate(t)}
GateImplemented == G!Spec
=============================================================================
