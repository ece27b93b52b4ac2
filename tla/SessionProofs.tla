--------------------------- MODULE SessionProofs ----------------------------
(***************************************************************************)
(* Proofs about the gate and the session around it, for any number of      *)
(* application threads, any options and any bounds.                        *)
(***************************************************************************)
EXTENDS Session, TLAPS

\* What the injector's remote calls do to the variables of the gate: they borrow
\* the registers of the main thread and give them back.
Borrow ==
    /\ UNCHANGED <<paused, gatePc, th, res, crossed>>
    /\ ctx' \in {ctx, "own", "call"}

\* Every step of the session is a step of the gate, or leaves it alone but for
\* the borrowed registers.
LEMMA SessionSteps ==
    ASSUME [SessionNext]_sessionVars
    PROVE  GateNext \/ Borrow
<1>1. "rearm" \in Resumer /\ "js" \in Resumer
  BY SessionAssumption
<1>2. CASE UNCHANGED sessionVars
  BY <1>2 DEF sessionVars, gateVars, Borrow
<1>3. CASE Injector
  <2>1. ASSUME NEW ok \in BOOLEAN, RemoteCallReturns(ok) \/ NoPtraceEnds(ok)
        PROVE  Borrow
    BY <2>1 DEF RemoteCallReturns, NoPtraceEnds, Restore, Borrow, gateVars
  <2>2. CASE Attach \/ ContRefused
    BY <2>2 DEF Attach, ContRefused, GateNext
  <2>3. CASE AttachRefused \/ RemoteCall \/ RemoteCallSpoilt \/ RemoteCallCut \/ RemoteCallTimesOut
    BY <2>3 DEF AttachRefused, RemoteCall, RemoteCallSpoilt, RemoteCallCut, RemoteCallTimesOut,
                Restore, Borrow, gateVars
  <2>4. CASE SetGate
    BY <2>4 DEF SetGate, GateNext, Borrow, gateVars
  <2>5. CASE Detach
    BY <2>5 DEF Detach, GateNext
  <2> QED
    BY <1>3, <2>1, <2>2, <2>3, <2>4, <2>5 DEF Injector
<1>4. CASE ArtPiAgentCtor \/ AgentThread
  BY <1>4 DEF ArtPiAgentCtor, AgentThread, AgentBoot, AgentServe, InitJs, Borrow, gateVars
<1>5. CASE Rearm
  <2>1. CASE RearmArm
    BY <2>1 DEF RearmArm, Borrow, gateVars
  <2>2. CASE RearmCheck
    BY <2>2, <1>1 DEF RearmCheck, GateNext, Borrow, gateVars
  <2>3. CASE RearmWake
    BY <2>3, <1>1 DEF RearmWake, GateNext
  <2> QED
    BY <1>5, <2>1, <2>2, <2>3 DEF Rearm
<1>6. CASE Worker
  <2>1. CASE Serve
    BY <2>1 DEF Serve, Borrow, gateVars
  <2>2. CASE JsResume
    BY <2>2, <1>1 DEF JsResume, GateNext, Borrow, gateVars
  <2>3. CASE JsWake
    BY <2>3, <1>1 DEF JsWake, GateNext
  <2> QED
    BY <1>6, <2>1, <2>2, <2>3 DEF Worker
<1>7. CASE Client
  <2>1. ASSUME NEW next, ClientStep(next)
        PROVE  Borrow
    BY <2>1 DEF ClientStep, Borrow, gateVars
  <2> QED
    BY <1>7, <2>1 DEF Client, Discover, Watch, Eval, ResumeIfAutoGated, Exit, Close, Killed,
                      Reattach, Command, EvalScript, Send, Skip
<1>8. ASSUME NEW t \in Thr, AppThread(t) \/ Callback(t) \/ Interrupted(t) \/ StopLib(t)
      PROVE  GateNext \/ Borrow
  BY <1>8 DEF AppThread, ScriptEnd, Callback, Interrupted, StopLib, GateNext, Borrow, gateVars
<1> QED
  BY <1>2, <1>3, <1>4, <1>5, <1>6, <1>7, <1>8 DEF SessionNext

----------------------------------------------------------------------------
(* The gate *)

\* The steps of a session keep the types of the gate.
LEMMA GateTypes == GateTypeOK /\ (GateNext \/ Borrow) => GateTypeOK'
<1> SUFFICES ASSUME GateTypeOK, GateNext \/ Borrow PROVE GateTypeOK'
  OBVIOUS
<1> USE GateAssumption
<1>1. CASE Borrow
  BY <1>1 DEF Borrow, GateTypeOK
<1>2. ASSUME NEW t \in Thr,
             GateWait(t) \/ FutexInterrupted(t) \/ PausePc(t) \/ PauseStore(t)
      PROVE  GateTypeOK'
  BY <1>2 DEF GateTypeOK, Th, GateWait, Check, FutexWait, Leave, FutexInterrupted, PausePc,
              PauseStore, GoTo
<1>3. ASSUME NEW r \in Resumer, Exchange(r) \/ Wake(r)
      PROVE  GateTypeOK'
  BY <1>3 DEF GateTypeOK, Th, Exchange, Wake, Woken
<1>4. CASE Hold \/ Poke \/ PokeOnly \/ Release
  BY <1>4 DEF GateTypeOK, Th, Hold, Poke, PokeOnly, Release, GoTo
<1> QED
  BY <1>1, <1>2, <1>3, <1>4 DEF GateNext

\* A thread falls asleep only while the word is 1, and whoever sets it to 0 has
\* a FUTEX_WAKE to make, after which nobody is asleep.
LEMMA WakeDueStep == GateTypeOK /\ WakeDue /\ (GateNext \/ Borrow) => WakeDue'
<1> SUFFICES ASSUME GateTypeOK, WakeDue, GateNext \/ Borrow PROVE WakeDue'
  OBVIOUS
<1> USE GateAssumption
<1>1. CASE Borrow
  BY <1>1 DEF Borrow, WakeDue
<1>2. ASSUME NEW t \in Thr,
             GateWait(t) \/ FutexInterrupted(t) \/ PausePc(t) \/ PauseStore(t)
      PROVE  WakeDue'
  BY <1>2 DEF GateTypeOK, Th, WakeDue, GateWait, Check, FutexWait, Leave, FutexInterrupted,
              PausePc, PauseStore, GoTo
<1>3. ASSUME NEW r \in Resumer, Exchange(r)
      PROVE  WakeDue'
  BY <1>3 DEF GateTypeOK, WakeDue, Exchange
<1>4. ASSUME NEW r \in Resumer, Wake(r)
      PROVE  WakeDue'
  BY <1>4 DEF GateTypeOK, WakeDue, Wake, Woken
<1>5. CASE Hold \/ Poke \/ PokeOnly \/ Release
  BY <1>5 DEF GateTypeOK, WakeDue, Hold, Poke, PokeOnly, Release, GoTo
<1> QED
  BY <1>1, <1>2, <1>3, <1>4, <1>5 DEF GateNext

\* Every step of the futex protocol is a step of the abstract gate or changes
\* nothing there.
LEMMA GateRefines ==
    ASSUME GateTypeOK, GateNext \/ Borrow
    PROVE  [G!Next]_<<paused = 1, {t \in Thr : AtGate(t)}>>
<1> DEFINE Parked == {t \in Thr : AtGate(t)}
           Quiet == (paused' = 1) = (paused = 1) /\ Parked' = Parked
<1> USE GateAssumption
<1>1. CASE Borrow
  <2>1. Quiet
    BY <1>1 DEF Borrow, AtGate
  <2> QED
    BY <2>1
<1>2. ASSUME NEW t \in Thr, Check(t)
      PROVE  G!Next \/ Quiet
  <2>1. CASE paused = 0
    <3>1. Parked' = Parked \ {t} /\ t \in Parked
      BY <1>2, <2>1 DEF Check, GoTo, AtGate, GateTypeOK
    <3>2. G!Leave(t)
      BY <1>2, <2>1, <3>1 DEF Check, G!Leave
    <3> QED
      BY <3>2 DEF G!Next
  <2>2. CASE paused # 0
    BY <1>2, <2>2 DEF Check, GoTo, AtGate, GateTypeOK
  <2> QED
    BY <2>1, <2>2
<1>3. ASSUME NEW t \in Thr, FutexWait(t) \/ FutexInterrupted(t) \/ Leave(t) \/ PausePc(t)
      PROVE  Quiet
  BY <1>3 DEF FutexWait, FutexInterrupted, Leave, PausePc, GoTo, AtGate, GateTypeOK
<1>4. ASSUME NEW t \in Thr, PauseStore(t)
      PROVE  G!Next
  <2>1. Parked' = Parked \cup {t} /\ t \notin Parked
    BY <1>4 DEF PauseStore, GoTo, AtGate, GateTypeOK
  <2>2. G!Park(t)
    BY <1>4, <2>1 DEF PauseStore, G!Park
  <2> QED
    BY <2>2 DEF G!Next
<1>5. ASSUME NEW r \in Resumer, Exchange(r)
      PROVE  G!Next
  <2>1. Parked' = Parked
    BY <1>5 DEF Exchange, AtGate
  <2> QED
    BY <1>5, <2>1 DEF Exchange, G!Next, G!Open
<1>6. ASSUME NEW r \in Resumer, Wake(r)
      PROVE  Quiet
  BY <1>6 DEF Wake, Woken, AtGate, GateTypeOK
<1>7. CASE Hold
  <2>1. Quiet
    BY <1>7 DEF Hold, GoTo, AtGate, GateTypeOK
  <2> QED
    BY <2>1
<1>8. CASE Poke \/ PokeOnly
  <2>1. Parked' = Parked
    BY <1>8 DEF Poke, PokeOnly, AtGate
  <2>2. G!Close
    BY <1>8, <2>1 DEF Poke, PokeOnly, G!Close
  <2> QED
    BY <2>2 DEF G!Next
<1>9. CASE Release
  <2>1. CASE ctx = "tramp"
    <3>1. Parked' = Parked \cup {Main} /\ Main \notin Parked
      BY <1>9, <2>1 DEF Release, GoTo, AtGate, GateTypeOK
    <3>2. G!Send(Main)
      BY <1>9, <3>1 DEF Release, G!Send
    <3> QED
      BY <3>2 DEF G!Next
  <2>2. CASE ctx # "tramp"
    <3>1. Quiet
      BY <1>9, <2>2 DEF Release, GoTo, AtGate, GateTypeOK
    <3> QED
      BY <3>1
  <2> QED
    BY <2>1, <2>2
<1> QED
  <2> HIDE DEF Parked
  <2> QED
    BY <1>1, <1>2, <1>3, <1>4, <1>5, <1>6, <1>7, <1>8, <1>9 DEF GateNext, GateWait, Parked

\* The gate's types hold in every session.
LEMMA SessionGateTypes == SessionSpec => []GateTypeOK
<1>1. SessionInit => GateTypeOK
  BY GateAssumption DEF SessionInit, GateInit, GateTypeOK, Th
<1>2. GateTypeOK /\ [SessionNext]_sessionVars => GateTypeOK'
  BY SessionSteps, GateTypes
<1> QED
  BY <1>1, <1>2, PTL DEF SessionSpec

\* No wake-up of a parked thread is lost, in any session.
THEOREM NoLostWake == SessionSpec => []WakeDue
<1>1. SessionInit => WakeDue
  BY DEF SessionInit, GateInit, WakeDue
<1>2. GateTypeOK /\ WakeDue /\ [SessionNext]_sessionVars => WakeDue'
  BY SessionSteps, WakeDueStep
<1> QED
  BY <1>1, <1>2, SessionGateTypes, PTL DEF SessionSpec

\* The futex word, with the injector, the re-arming thread, scripts and parked
\* threads around it, implements the abstract gate.
THEOREM GateRefinement == SessionSpec => GateImplemented
<1>1. SessionInit => G!Init
  BY DEF SessionInit, GateInit, G!Init, AtGate
<1>2. GateTypeOK /\ [SessionNext]_sessionVars
          => [G!Next]_<<paused = 1, {t \in Thr : AtGate(t)}>>
  BY SessionSteps, GateRefines
<1> QED
  BY <1>1, <1>2, SessionGateTypes, PTL DEF SessionSpec, GateImplemented, G!Spec

----------------------------------------------------------------------------
(* The main thread's registers *)

\* The injector holds the main thread from Attach to Detach, the registers are
\* borrowed exactly while a remote call runs, and what the trampoline is to load
\* is what the injector stored unless a thread has stored over it.
Registers ==
    /\ inj \in Calls \cup {"gate", "detach"} => th[Main] = "held"
    /\ inCall => inj \in Calls
    /\ ctx = "call" => inCall
    /\ ~crossed => ctx # "lost" /\ (ctx = "tramp" => gatePc = InitPc)

\* A step of a thread of the target: the gate's own steps without the injector's.
TargetStep ==
    \/ \E t \in Thr : GateWait(t) \/ FutexInterrupted(t) \/ PausePc(t) \/ PauseStore(t)
    \/ \E r \in Resumer : Exchange(r) \/ Wake(r)
    \/ UNCHANGED gateVars

\* The target's threads do not touch what the injector relies on.
LEMMA TargetRegisters ==
    ASSUME GateTypeOK, Registers, TargetStep, UNCHANGED <<inj, inCall>>
    PROVE  Registers'
<1> USE GateAssumption
<1>1. th[Main] = "held" => th'[Main] = "held"
  <2>1. ASSUME NEW t \in Thr,
               GateWait(t) \/ FutexInterrupted(t) \/ PausePc(t) \/ PauseStore(t)
        PROVE  th[Main] = "held" => th'[Main] = "held"
    BY <2>1 DEF GateWait, Check, FutexWait, Leave, FutexInterrupted, PausePc, PauseStore,
                GoTo, GateTypeOK
  <2>2. ASSUME NEW r \in Resumer, Exchange(r) \/ Wake(r)
        PROVE  th[Main] = "held" => th'[Main] = "held"
    BY <2>2 DEF Exchange, Wake, Woken, GateTypeOK
  <2> QED
    BY <2>1, <2>2 DEF TargetStep, gateVars
<1> DEFINE Kept == /\ ctx' = "call" => ctx = "call"
                   /\ ~crossed' => ctx' # "lost" /\ (ctx' = "tramp" => gatePc' = InitPc)
<1>2. Kept
  <2>1. ASSUME NEW t \in Thr, Check(t) \/ FutexWait(t) \/ FutexInterrupted(t) \/ PauseStore(t)
        PROVE  Kept
    BY <2>1 DEF Check, FutexWait, FutexInterrupted, PauseStore, Registers
  <2>2. ASSUME NEW t \in Thr, Leave(t)
        PROVE  Kept
    BY <2>2 DEF Leave, Registers
  <2>3. ASSUME NEW t \in Thr, PausePc(t)
        PROVE  Kept
    BY <2>3 DEF PausePc, Registers, GateTypeOK
  <2>4. ASSUME NEW r \in Resumer, Exchange(r) \/ Wake(r)
        PROVE  Kept
    BY <2>4 DEF Exchange, Wake, Registers
  <2>5. CASE UNCHANGED gateVars
    BY <2>5 DEF gateVars, Registers
  <2> QED
    BY <2>1, <2>2, <2>3, <2>4, <2>5 DEF TargetStep, GateWait
<1> QED
  BY <1>1, <1>2 DEF Registers

\* However a remote call ends, it is one of Calls that ends by restoring.
LEMMA EndsInRestore ==
    ASSUME inCall => inj \in Calls,
           \/ RemoteCallSpoilt \/ RemoteCallCut \/ RemoteCallTimesOut
           \/ \E ok \in BOOLEAN : RemoteCallReturns(ok)
    PROVE  \E ok \in BOOLEAN : /\ Restore(ok) /\ inj \in Calls /\ UNCHANGED agentVars
                              /\ stopPending' \in {stopPending, TRUE, FALSE}
<1>1. CASE RemoteCallSpoilt
  <2>1. (inj \in Dlopen) \in BOOLEAN
    OBVIOUS
  <2> QED
    BY <1>1, <2>1 DEF RemoteCallSpoilt
<1> QED
  BY <1>1 DEF RemoteCallCut, RemoteCallTimesOut, RemoteCallReturns

\* Each step of the injector borrows, returns or hands over the registers whole.
LEMMA InjectorRegisters ==
    ASSUME GateTypeOK, Registers, Injector
    PROVE  Registers'
<1> USE GateAssumption
<1>1. CASE Attach
  BY <1>1 DEF Attach, Hold, GoTo, Registers, GateTypeOK, Calls, Dlopen
<1>2. ASSUME NEW ok \in BOOLEAN, AttachRefused \/ ContRefused \/ NoPtraceEnds(ok)
      PROVE  Registers'
  <2>1. inj' \notin Calls \cup {"gate", "detach"} /\ ~inCall /\ inCall' = inCall
    BY <1>2 DEF AttachRefused, ContRefused, NoPtraceEnds, Registers, Calls, Dlopen
  <2>2. UNCHANGED <<ctx, crossed, gatePc>>
    BY <1>2 DEF AttachRefused, ContRefused, NoPtraceEnds, Release, gateVars
  <2> QED
    BY <2>1, <2>2 DEF Registers
<1>3. CASE RemoteCall
  BY <1>3 DEF RemoteCall, Registers
<1>4. ASSUME NEW ok \in BOOLEAN, Restore(ok), inj \in Calls
      PROVE  Registers'
  BY <1>4 DEF Restore, Registers
<1>5. CASE RemoteCallSpoilt \/ RemoteCallCut \/ RemoteCallTimesOut
           \/ \E ok \in BOOLEAN : RemoteCallReturns(ok)
  BY <1>4, <1>5, EndsInRestore DEF Registers
<1>6. CASE SetGate
  <2>1. th[Main] = "held" /\ ~inCall
    BY <1>6 DEF SetGate, Registers, Calls, Dlopen
  <2>2. CASE Poke \/ PokeOnly
    BY <1>6, <2>1, <2>2 DEF SetGate, Poke, PokeOnly, Registers
  <2>3. CASE UNCHANGED gateVars
    BY <1>6, <2>1, <2>3 DEF SetGate, gateVars, Registers
  <2> QED
    BY <1>6, <2>2, <2>3 DEF SetGate
<1>7. CASE Detach
  BY <1>7 DEF Detach, Release, GoTo, Registers, GateTypeOK, Calls, Dlopen
<1> QED
  BY <1>1, <1>2, <1>3, <1>5, <1>6, <1>7 DEF Injector

\* The rest of the session only takes steps of the target's threads.
LEMMA SessionTarget ==
    ASSUME [SessionNext]_sessionVars
    PROVE  Injector \/ (TargetStep /\ UNCHANGED <<inj, inCall>>)
<1>1. "rearm" \in Resumer /\ "js" \in Resumer
  BY SessionAssumption
<1>2. CASE UNCHANGED sessionVars
  BY <1>2 DEF sessionVars, injVars, TargetStep
<1>3. CASE ArtPiAgentCtor \/ AgentThread \/ Serve
  BY <1>3 DEF ArtPiAgentCtor, AgentThread, AgentBoot, AgentServe, InitJs, Serve, TargetStep,
              injVars
<1>4. CASE Rearm
  BY <1>1, <1>4 DEF Rearm, RearmArm, RearmCheck, RearmWake, TargetStep, injVars
<1>5. CASE JsResume \/ JsWake
  BY <1>1, <1>5 DEF JsResume, JsWake, TargetStep, injVars
<1>6. CASE Client
  <2>1. ASSUME NEW next, ClientStep(next)
        PROVE  TargetStep /\ UNCHANGED <<inj, inCall>>
    BY <2>1 DEF ClientStep, TargetStep, injVars
  <2> QED
    BY <1>6, <2>1 DEF Client, Discover, Watch, Eval, ResumeIfAutoGated, Exit, Close, Killed,
                      Reattach, Command, EvalScript, Send, Skip
<1>7. ASSUME NEW t \in Thr, AppThread(t) \/ Callback(t) \/ Interrupted(t) \/ StopLib(t)
      PROVE  TargetStep /\ UNCHANGED <<inj, inCall>>
  BY <1>7 DEF AppThread, ScriptEnd, Callback, Interrupted, StopLib, TargetStep, injVars
<1> QED
  BY <1>2, <1>3, <1>4, <1>5, <1>6, <1>7 DEF SessionNext, Worker

\* The application never runs with the registers of a remote call, however many
\* of them time out, and leaves the gate to where it was stopped.
THEOREM RegistersOwn == SessionSpec => []OwnRegisters
<1>1. SessionInit => Registers
  BY DEF SessionInit, GateInit, Registers, Calls, Dlopen
<1>2. GateTypeOK /\ Registers /\ [SessionNext]_sessionVars => Registers'
  BY SessionTarget, TargetRegisters, InjectorRegisters
<1>3. GateTypeOK /\ Registers => OwnRegisters
  BY DEF GateTypeOK, Registers, OwnRegisters
<1> QED
  BY <1>1, <1>2, <1>3, SessionGateTypes, PTL DEF SessionSpec

----------------------------------------------------------------------------
(* The types of a session *)

\* SessionTypeOK without the gate, one part for each program.
InjectorTypes ==
    /\ inj \in Calls \cup {"attach", "noptrace", "gate", "detach", "done"}
    /\ inCall \in BOOLEAN /\ loaded \in BOOLEAN /\ stopPending \in BOOLEAN /\ halted \in BOOLEAN

AgentTypes ==
    /\ agent \in {"none", "dead", "boot", "boot2", "serve", "ready", "nojs"} /\ server \in BOOLEAN
    /\ monitor \in BOOLEAN /\ armed \subseteq Thr /\ fellBack \in BOOLEAN

RearmTypes ==
    /\ rearm \in [i : 0..MaxRearm, at : {"off", "none", "arm", "check", "wake", "end"}, auto : BOOLEAN]
    /\ rearm.at \in {"check", "wake"} => rearm.i < MaxRearm

Requests == {"watch", "cmd", "resume", "exit"}
ClientTypes ==
    /\ cl \in {"none", "discover", "watch", "eval", "resume", "repl", "close", "gone"}
    /\ resuming \in BOOLEAN /\ lost \in BOOLEAN /\ cmds \in 0..MaxCmds
JsTypes == inJs \subseteq Thr /\ hooked \in BOOLEAN
QueueTypes == queue \in Seq(Requests) /\ Len(queue) <= MaxQueue

\* Whatever a remote call returns, the injector goes on to a step it has.
LEMMA AfterCall ==
    ASSUME NEW step \in Calls, NEW ok \in BOOLEAN
    PROVE  After(step, ok) \subseteq Calls \cup {"gate", "detach"}
BY DEF After, Calls, Dlopen

\* The injector keeps its types; a call is only given up while one is made.
LEMMA InjectorTyped ==
    ASSUME InjectorTypes, Registers, [SessionNext]_sessionVars
    PROVE  InjectorTypes'
<1>1. CASE Injector
  <2>1. CASE Attach \/ AttachRefused \/ ContRefused \/ RemoteCall \/ SetGate \/ Detach
    BY <2>1 DEF Attach, AttachRefused, ContRefused, RemoteCall, SetGate, Detach, InjectorTypes,
                Calls, Dlopen
  <2>2. ASSUME NEW ok \in BOOLEAN, NoPtraceEnds(ok)
        PROVE  InjectorTypes'
    BY <2>2 DEF NoPtraceEnds, InjectorTypes
  <2>3. ASSUME NEW ok \in BOOLEAN, Restore(ok), inj \in Calls, stopPending' \in BOOLEAN
        PROVE  InjectorTypes'
    <3>1. inj' \in Calls \cup {"gate", "detach"}
      BY <2>3, AfterCall DEF Restore
    <3> QED
      BY <2>3, <3>1 DEF Restore, InjectorTypes
  <2>4. CASE RemoteCallSpoilt \/ RemoteCallCut \/ RemoteCallTimesOut
             \/ \E ok \in BOOLEAN : RemoteCallReturns(ok)
    BY <2>3, <2>4, EndsInRestore DEF Registers, InjectorTypes
  <2> QED
    BY <1>1, <2>1, <2>2, <2>4 DEF Injector
<1>2. CASE UNCHANGED injVars
  BY <1>2 DEF injVars, InjectorTypes
<1>3. CASE Client
  <2>1. ASSUME NEW next, ClientStep(next)
        PROVE  UNCHANGED injVars
    BY <2>1 DEF ClientStep
  <2> QED
    BY <1>2, <1>3, <2>1 DEF Client, Discover, Watch, Eval, ResumeIfAutoGated, Exit, Close,
                            Killed, Reattach, Command, EvalScript, Send, Skip
<1>4. CASE ~Injector /\ ~Client
  <2>1. UNCHANGED injVars
    BY <1>4 DEF SessionNext, sessionVars, ArtPiAgentCtor, AgentThread, AgentBoot, AgentServe,
                InitJs, Rearm, RearmArm, RearmCheck, RearmWake, Worker, Serve, JsResume, JsWake,
                AppThread, Callback, Interrupted, StopLib
  <2> QED
    BY <1>2, <2>1
<1> QED
  BY <1>1, <1>3, <1>4


\* A client leaves the target alone.
LEMMA ClientApart ==
    ASSUME Client
    PROVE  UNCHANGED <<gateVars, opt, injVars, agentVars, jsVars, resuming, hits>>
BY DEF Client, Discover, Watch, Eval, ResumeIfAutoGated, Exit, Close, Killed, Reattach, Command,
       EvalScript, Send, Skip, ClientStep

\* The steps of the session, of which the client's are one.
LEMMA SessionActions ==
    ASSUME [SessionNext]_sessionVars
    PROVE  \/ Injector \/ ArtPiAgentCtor \/ AgentThread \/ Rearm \/ Worker \/ Client
           \/ UNCHANGED <<opt, injVars, agentVars, clientVars>>
BY DEF SessionNext, sessionVars, AppThread, Callback, Interrupted, StopLib

\* The agent arms threads of the application only.
LEMMA AgentTyped ==
    ASSUME SessionTypeOK, [SessionNext]_sessionVars
    PROVE  AgentTypes'
<1> SUFFICES ASSUME ~UNCHANGED agentVars PROVE AgentTypes'
  BY DEF SessionTypeOK, AgentTypes, agentVars
<1>0. AgentTypes
  BY DEF SessionTypeOK, AgentTypes
<1>1. monitor' \in BOOLEAN => Armed \subseteq Thr
  BY <1>0 DEF Armed, AgentTypes
<1>2. CASE Injector \/ ArtPiAgentCtor
  BY <1>0, <1>2 DEF Injector, Attach, AttachRefused, ContRefused, RemoteCall,
                    RemoteCallSpoilt, RemoteCallCut, RemoteCallTimesOut, SetGate,
                    Detach, NoPtraceEnds, RemoteCallReturns, Restore, ArtPiAgentCtor, agentVars,
                    AgentTypes
<1>3. CASE AgentThread
  <2>1. CASE AgentBoot
    <3>1. monitor' \in BOOLEAN
      BY <2>1, SessionAssumption DEF AgentBoot, SessionTypeOK, SessionKind
    <3> QED
      BY <1>0, <1>1, <2>1, <3>1 DEF AgentBoot, AgentTypes
  <2>2. CASE AgentServe \/ InitJs
    BY <1>0, <2>2 DEF AgentServe, InitJs, AgentTypes
  <2> QED
    BY <1>3, <2>1, <2>2 DEF AgentThread
<1>4. CASE RearmArm \/ RearmWake
  BY <1>0, <1>1, <1>4 DEF RearmArm, RearmWake, AgentTypes
<1>5. CASE RearmCheck
  BY <1>0, <1>5 DEF RearmCheck, AgentTypes
<1>6. CASE Serve
  <2>1. CASE \E req : TakeResume(req) \/ TakeScript(req) \/ TakeOther(req)
    BY <1>0, <1>1, <1>6, <2>1 DEF Serve, TakeResume, TakeScript, TakeOther, AgentTypes
  <2>2. CASE \E req : TakeWatch(req)
    <3>1. monitor' \in BOOLEAN
      BY <1>0, <2>2 DEF TakeWatch, AgentTypes
    <3> QED
      BY <1>0, <1>1, <1>6, <2>2, <3>1 DEF Serve, TakeWatch, AgentTypes
  <2> QED
    BY <1>6, <2>1, <2>2 DEF Serve
<1>7. CASE JsResume \/ JsWake \/ Client
  BY <1>7, ClientApart DEF JsResume, JsWake
<1> QED
  BY <1>2, <1>3, <1>4, <1>5, <1>6, <1>7, SessionActions DEF Rearm, Worker

\* A round that reaches its check is one of the MaxRearm rounds, so the next
\* number is still in range.
LEMMA RearmTyped ==
    ASSUME SessionTypeOK, RearmTypes, [SessionNext]_sessionVars
    PROVE  RearmTypes'
<1>1. CASE UNCHANGED rearm
  BY <1>1 DEF RearmTypes
<1>2. /\ MaxRearm \in Nat
      /\ rearm.i \in 0..MaxRearm
      /\ rearm.auto \in BOOLEAN
      /\ rearm = [i |-> rearm.i, at |-> rearm.at, auto |-> rearm.auto]
  BY SessionAssumption DEF RearmTypes
<1>3. ASSUME NEW auto \in BOOLEAN, rearm.at \in {"check", "wake"}, rearm' = NextRound(auto)
      PROVE  RearmTypes'
  BY <1>2, <1>3 DEF NextRound, RearmTypes
<1>4. CASE AgentBoot
  <2>1. (opt.cfg /\ opt.mode = "auto") \in BOOLEAN
    OBVIOUS
  <2>2. rearm' = [i |-> rearm.i, at |-> rearm.at, auto |-> (opt.cfg /\ opt.mode = "auto")]
    BY <1>2, <1>4 DEF AgentBoot
  <2> QED
    BY <2>1, <2>2 DEF RearmTypes
<1>5. CASE AgentServe
  BY <1>2, <1>5 DEF AgentServe, RearmTypes
<1>6. CASE RearmArm
  BY <1>2, <1>6 DEF RearmArm, RearmTypes
<1>7. CASE RearmCheck
  <2>1. CASE rearm' = [rearm EXCEPT !.at = "wake", !.auto = FALSE]
    BY <1>2, <1>7, <2>1 DEF RearmCheck, RearmTypes
  <2> QED
    BY <1>2, <1>3, <1>7, <2>1 DEF RearmCheck
<1>8. CASE RearmWake
  BY <1>3, <1>8 DEF RearmWake
<1>9. CASE Injector
  BY <1>1, <1>9 DEF Injector, Attach, AttachRefused, ContRefused, RemoteCall,
                    RemoteCallSpoilt, RemoteCallCut, RemoteCallTimesOut, SetGate,
                    Detach, NoPtraceEnds, RemoteCallReturns, Restore, agentVars
<1>10. CASE ArtPiAgentCtor \/ InitJs \/ Worker \/ Client \/ UNCHANGED agentVars
  BY <1>1, <1>10, ClientApart DEF ArtPiAgentCtor, InitJs, Worker, Serve, JsResume, JsWake,
                                  agentVars
<1> QED
  BY <1>4, <1>5, <1>6, <1>7, <1>8, <1>9, <1>10, SessionActions DEF AgentThread, Rearm

\* The client goes from each of its steps to another, and counts what is typed.
LEMMA ClientTyped ==
    ASSUME SessionTypeOK, [SessionNext]_sessionVars
    PROVE  ClientTypes'
<1>0. ClientTypes /\ MaxCmds \in Nat
  BY SessionAssumption DEF SessionTypeOK, ClientTypes
<1>1. CASE UNCHANGED clientVars
  BY <1>0, <1>1 DEF clientVars, ClientTypes
<1>2. CASE Injector
  BY <1>0, <1>1, <1>2 DEF Injector, Attach, AttachRefused, ContRefused, RemoteCall, RemoteCallSpoilt,
                    RemoteCallCut, RemoteCallTimesOut,
                    SetGate, Detach, NoPtraceEnds, RemoteCallReturns, Restore, ClientTypes
<1>3. CASE ArtPiAgentCtor \/ AgentThread \/ Rearm
  BY <1>1, <1>3 DEF ArtPiAgentCtor, AgentThread, AgentBoot, AgentServe, InitJs, Rearm, RearmArm,
                    RearmCheck, RearmWake
<1>4. CASE Worker
  BY <1>0, <1>1, <1>4 DEF Worker, Serve, TakeResume, TakeWatch, TakeScript, TakeOther,
                          JsResume, JsWake, ClientTypes
<1>5. CASE Client
  <2>1. CASE Discover \/ Watch \/ Eval \/ ResumeIfAutoGated \/ Exit \/ Killed \/ Reattach
    BY <1>0, <2>1 DEF Discover, Watch, Eval, ResumeIfAutoGated, Exit, Killed, Reattach,
                      EvalScript, Send, Skip, ClientStep, ClientTypes
  <2>2. CASE Close
    BY <1>0, <2>2 DEF Close, ClientStep, ClientTypes
  <2>3. ASSUME NEW req, Command(req)
        PROVE  ClientTypes'
    BY <1>0, <2>3 DEF Command, Send, ClientStep, ClientTypes
  <2> QED
    BY <1>5, <2>1, <2>2, <2>3 DEF Client
<1> QED
  BY <1>1, <1>2, <1>3, <1>4, <1>5, SessionActions

\* Requests are appended below the bound and taken from the front.
LEMMA QueueTyped ==
    ASSUME SessionTypeOK, [SessionNext]_sessionVars
    PROVE  QueueTypes'
<1>0. QueueTypes /\ MaxQueue \in Nat
  BY SessionAssumption DEF SessionTypeOK, QueueTypes, Requests
<1>1. CASE UNCHANGED queue
  BY <1>0, <1>1 DEF QueueTypes
<1>2. CASE Injector \/ ArtPiAgentCtor \/ AgentThread \/ Rearm \/ JsResume \/ JsWake
           \/ UNCHANGED clientVars
  BY <1>1, <1>2 DEF Injector, Attach, AttachRefused, ContRefused, RemoteCall, RemoteCallSpoilt,
                    RemoteCallCut, RemoteCallTimesOut,
                    SetGate, Detach, NoPtraceEnds, RemoteCallReturns, Restore, ArtPiAgentCtor,
                    AgentThread, AgentBoot, AgentServe, InitJs, Rearm, RearmArm, RearmCheck,
                    RearmWake, JsResume, JsWake, clientVars
<1>3. CASE Serve
  <2>1. queue \in Seq(Requests) /\ queue # << >> /\ queue' = Tail(queue)
    BY <1>0, <1>3 DEF Serve, QueueTypes
  <2>2. queue' \in Seq(Requests) /\ Len(queue') = Len(queue) - 1
    BY <2>1
  <2> QED
    BY <1>0, <2>2 DEF QueueTypes
<1>4. ASSUME NEW req \in Requests, NEW next, Send(req, next)
      PROVE  QueueTypes'
  <2>1. queue \in Seq(Requests) /\ Len(queue) < MaxQueue /\ queue' = Append(queue, req)
    BY <1>0, <1>4 DEF Send, QueueTypes
  <2>2. queue' \in Seq(Requests) /\ Len(queue') = Len(queue) + 1
    BY <2>1
  <2>3. Len(queue) \in Nat
    BY <2>1
  <2> QED
    BY <1>0, <2>1, <2>2, <2>3 DEF QueueTypes
<1>5. CASE Close
  <2>1. << >> \in Seq(Requests) /\ Len(<< >>) = 0
    OBVIOUS
  <2>2. CASE queue' = << >>
    BY <1>0, <2>1, <2>2 DEF QueueTypes
  <2> QED
    BY <1>1, <1>5, <2>2 DEF Close
<1>6. CASE Client
  <2>1. {"watch", "cmd", "resume", "exit"} = Requests
    BY DEF Requests
  <2>2. ASSUME NEW req \in Requests, NEW next, EvalScript(req, next)
        PROVE  QueueTypes'
    BY <1>1, <1>4, <2>2 DEF EvalScript, Skip
  <2>3. CASE Discover \/ Killed \/ Reattach
    BY <1>1, <2>3 DEF Discover, Killed, Reattach
  <2>4. CASE Watch
    BY <2>1, <2>2, <2>4 DEF Watch
  <2>5. CASE Eval
    BY <1>1, <2>1, <2>2, <2>5 DEF Eval, Skip
  <2>6. CASE ResumeIfAutoGated
    BY <1>1, <2>1, <2>2, <2>6 DEF ResumeIfAutoGated, Skip
  <2>7. CASE Exit \/ \E req \in {"cmd", "resume"} : Command(req)
    BY <1>4, <2>1, <2>7 DEF Exit, Command
  <2> QED
    BY <1>5, <1>6, <2>3, <2>4, <2>5, <2>6, <2>7 DEF Client
<1> QED
  BY <1>2, <1>3, <1>6, SessionActions DEF Worker


\* The holder of g_jsMutex is the worker or a thread in a callback.
LEMMA JsTyped ==
    ASSUME SessionTypeOK, [SessionNext]_sessionVars
    PROVE  JsTypes'
<1>0. JsTypes /\ Js \in Thr
  BY SessionAssumption DEF SessionTypeOK, JsTypes
<1>1. CASE UNCHANGED jsVars
  BY <1>0, <1>1 DEF jsVars, JsTypes
<1>2. CASE Serve
  BY <1>0, <1>1, <1>2 DEF Serve, TakeResume, TakeWatch, TakeScript, TakeOther, JsTypes
<1>3. ASSUME NEW t \in Thr, AppThread(t) \/ Callback(t) \/ Interrupted(t) \/ StopLib(t)
      PROVE  JsTypes'
  BY <1>0, <1>1, <1>3 DEF AppThread, ScriptEnd, Callback, Interrupted, StopLib, JsTypes
<1>4. CASE Injector
  BY <1>1, <1>4 DEF Injector, Attach, AttachRefused, ContRefused, RemoteCall, RemoteCallSpoilt,
                    RemoteCallCut, RemoteCallTimesOut, SetGate, Detach, NoPtraceEnds,
                    RemoteCallReturns, Restore
<1>5. CASE ArtPiAgentCtor \/ AgentThread \/ Rearm \/ JsResume \/ JsWake \/ Client
  BY <1>1, <1>5, ClientApart DEF ArtPiAgentCtor, AgentThread, AgentBoot, AgentServe, InitJs,
           Rearm, RearmArm, RearmCheck, RearmWake, JsResume, JsWake
<1>6. CASE UNCHANGED sessionVars
  BY <1>1, <1>6 DEF sessionVars
<1> QED
  BY <1>2, <1>3, <1>4, <1>5, <1>6 DEF SessionNext, Worker

\* The threads that stop at dlopen are counted, and options stay.
LEMMA OptionsTyped ==
    ASSUME SessionTypeOK, [SessionNext]_sessionVars
    PROVE  opt' \in Options /\ hits' \in 0..MaxHits
<1>0. opt \in Options /\ hits \in 0..MaxHits /\ MaxHits \in Nat
  BY SessionAssumption DEF SessionTypeOK
<1>1. CASE UNCHANGED <<opt, hits>>
  BY <1>0, <1>1
<1>2. ASSUME NEW t \in Thr, StopLib(t)
      PROVE  opt' \in Options /\ hits' \in 0..MaxHits
  BY <1>0, <1>2 DEF StopLib
<1>3. CASE Injector
  BY <1>1, <1>3 DEF Injector, Attach, AttachRefused, ContRefused, RemoteCall,
                    RemoteCallSpoilt, RemoteCallCut, RemoteCallTimesOut, SetGate,
                    Detach, NoPtraceEnds, RemoteCallReturns, Restore
<1>4. CASE ArtPiAgentCtor \/ AgentThread \/ Rearm \/ Worker \/ Client
  BY <1>1, <1>4, ClientApart DEF ArtPiAgentCtor, AgentThread, AgentBoot, AgentServe, InitJs,
           Rearm, RearmArm, RearmCheck, RearmWake, Worker, Serve, JsResume, JsWake
<1>5. CASE UNCHANGED sessionVars
  BY <1>1, <1>5 DEF sessionVars
<1>6. ASSUME NEW t \in Thr, AppThread(t) \/ Callback(t) \/ Interrupted(t)
      PROVE  UNCHANGED <<opt, hits>>
  BY <1>6 DEF AppThread, Callback, Interrupted
<1> QED
  BY <1>1, <1>2, <1>3, <1>4, <1>5, <1>6 DEF SessionNext

\* The invariant: the types, with the bound on rounds that reach their check, and
\* that only a step of Calls can be inside a call.
SessionInv == SessionTypeOK /\ RearmTypes /\ Registers

\* SessionInv holds in every reachable state.
LEMMA SessionInvariant == SessionSpec => []SessionInv
<1>1. SessionInit => SessionInv
  <2> SUFFICES ASSUME SessionInit PROVE SessionInv
    OBVIOUS
  <2>1. GateTypeOK
    BY GateAssumption DEF SessionInit, GateInit, GateTypeOK, Th
  <2>2. Registers
    BY DEF SessionInit, GateInit, Registers, Calls, Dlopen
  <2>3. << >> \in Seq({"watch", "cmd", "resume", "exit"}) /\ Len(<< >>) = 0
    OBVIOUS
  <2>4. RearmTypes
    BY SessionAssumption DEF SessionInit, RearmTypes
  <2>5. InjectorTypes /\ AgentTypes
    BY DEF SessionInit, InjectorTypes, AgentTypes
  <2>9. JsTypes
    BY DEF SessionInit, JsTypes
  <2>6. ClientTypes /\ hits \in 0..MaxHits
    <3>1. hits \in 0..MaxHits /\ cmds \in 0..MaxCmds
      <4>1. hits = 0 /\ cmds = 0
        BY DEF SessionInit
      <4>2. MaxHits \in Nat /\ MaxCmds \in Nat
        BY SessionAssumption
      <4> QED
        BY <4>1, <4>2
    <3> QED
      BY <3>1 DEF SessionInit, ClientTypes
  <2>7. QueueTypes
    BY <2>3, SessionAssumption DEF SessionInit, QueueTypes, Requests
  <2>8. opt \in Options
    BY DEF SessionInit
  <2> QED
    BY <2>1, <2>2, <2>4, <2>5, <2>6, <2>7, <2>8, <2>9
    DEF SessionInv, SessionTypeOK, InjectorTypes, AgentTypes, RearmTypes, JsTypes, ClientTypes,
        QueueTypes, Requests
<1>2. SessionInv /\ [SessionNext]_sessionVars => SessionInv'
  <2> SUFFICES ASSUME SessionInv, [SessionNext]_sessionVars PROVE SessionInv'
    OBVIOUS
  <2>1. SessionTypeOK /\ RearmTypes /\ Registers /\ GateTypeOK /\ InjectorTypes
    BY DEF SessionInv, SessionTypeOK, InjectorTypes
  <2>2. GateTypeOK' /\ Registers'
    BY <2>1, SessionSteps, GateTypes, SessionTarget, TargetRegisters, InjectorRegisters
  <2>3. /\ InjectorTypes' /\ AgentTypes' /\ RearmTypes'
        /\ JsTypes' /\ ClientTypes' /\ QueueTypes'
    BY <2>1, InjectorTyped, AgentTyped, RearmTyped, JsTyped, ClientTyped, QueueTyped
  <2>4. opt' \in Options /\ hits' \in 0..MaxHits
    BY <2>1, OptionsTyped
  <2> QED
    BY <2>2, <2>3, <2>4 DEF SessionInv, SessionTypeOK, InjectorTypes, AgentTypes, RearmTypes,
                            JsTypes, ClientTypes, QueueTypes, Requests
<1> QED
  BY <1>1, <1>2, PTL DEF SessionSpec

\* Every reachable state of the injector, the gate, the agent and the client is
\* well typed: the injector has a next step whatever its calls return, and the
\* rounds of the re-arming thread stay within their number.
THEOREM SessionTypes == SessionSpec => []SessionTypeOK
BY SessionInvariant, PTL DEF SessionInv

----------------------------------------------------------------------------
(* Hooks before the application runs *)

\* The main thread has its breakpoints, or there is a reason why it does not.
Ready == Main \in armed \/ ~monitor \/ ~opt.hw \/ fellBack

\* Clients come after the injector, and the re-arming thread after the boot.
Phases ==
    /\ inj = "attach" => agent = "none"
    /\ inj # "done" => cl = "none" /\ queue = << >> /\ ~resuming
    /\ rearm.at # "off" => agent \notin {"none", "boot", "boot2"}
    /\ resuming => agent = "ready"

\* The main thread is held for the injector only, and set to the trampoline last.
MainPlace ==
    /\ th[Main] = "held" => inj \in Calls \cup {"gate", "detach"}
    /\ inj \in Calls \cup {"attach", "gate"} => ctx # "tramp"
    /\ ctx = "tramp" => th[Main] \notin {"run", "store"}

\* Whoever opens the gate has armed the main thread, or cannot.  The boot of the
\* agent may still add the breakpoints while the injector holds the thread, but
\* then nobody can have opened the gate yet.
ArmedFirst ==
    /\ resuming => Ready
    /\ ctx = "tramp" /\ (paused = 0 \/ th[Main] = "leave") => Ready
    /\ ctx = "tramp" /\ th[Main] = "held" /\ agent \in {"none", "boot"} => paused = 1

\* The invariant behind EarlyHooks.
EarlyInv == Phases /\ MainPlace /\ ArmedFirst

\* No client sends before the injector is done, and no round of re-arming comes
\* before the boot.
LEMMA PhasesKept ==
    ASSUME SessionInv, Phases, [SessionNext]_sessionVars
    PROVE  Phases'
<1>0. /\ inj \in Calls \cup {"attach", "noptrace", "gate", "detach", "done"}
      /\ inCall => inj \in Calls
      /\ "attach" \notin Calls /\ "gate" \notin Calls /\ "done" \notin Calls
  BY DEF SessionInv, SessionTypeOK, Registers, Calls, Dlopen
<1>1. CASE Injector
  <2>1. CASE Attach \/ AttachRefused \/ ContRefused \/ RemoteCall \/ SetGate \/ Detach
    BY <1>0, <2>1 DEF Attach, AttachRefused, ContRefused, RemoteCall, SetGate, Detach, Phases,
                      agentVars, clientVars
  <2>2. ASSUME NEW ok \in BOOLEAN, NoPtraceEnds(ok)
        PROVE  Phases'
    BY <2>2 DEF NoPtraceEnds, Phases, agentVars
  <2>3. ASSUME NEW ok \in BOOLEAN, Restore(ok), inj \in Calls, UNCHANGED agentVars
        PROVE  Phases'
    <3>1. inj' \in Calls \cup {"gate", "detach"} /\ "attach" \notin Calls
      BY <2>3, AfterCall DEF Restore, Calls, Dlopen
    <3> QED
      BY <1>0, <2>3, <3>1 DEF Restore, Phases, agentVars, clientVars
  <2>4. CASE RemoteCallSpoilt \/ RemoteCallCut \/ RemoteCallTimesOut
             \/ \E ok \in BOOLEAN : RemoteCallReturns(ok)
    BY <1>0, <2>3, <2>4, EndsInRestore
  <2> QED
    BY <1>1, <2>1, <2>2, <2>4 DEF Injector
<1>2. CASE ArtPiAgentCtor
  BY <1>0, <1>2 DEF ArtPiAgentCtor, Phases, injVars, clientVars
<1>3. CASE AgentThread
  <2>1. CASE AgentBoot
    <3>1. rearm'.at = rearm.at
      BY <2>1 DEF AgentBoot, SessionInv, RearmTypes
    <3>2. inj' = inj /\ agent = "boot" /\ agent' = "boot2" /\ UNCHANGED <<cl, queue, resuming>>
      BY <2>1 DEF AgentBoot, injVars, clientVars
    <3> QED
      BY <3>1, <3>2 DEF Phases
  <2>2. CASE AgentServe
    BY <2>2 DEF AgentServe, Phases, injVars, clientVars
  <2>3. CASE InitJs
    BY <2>3 DEF InitJs, Phases, injVars, clientVars
  <2> QED
    BY <1>3, <2>1, <2>2, <2>3 DEF AgentThread
<1>4. CASE Rearm
  <2>1. rearm.at # "off"
    BY <1>4 DEF Rearm, RearmArm, RearmCheck, RearmWake
  <2>2. UNCHANGED <<inj, agent, cl, queue, resuming>>
    BY <1>4 DEF Rearm, RearmArm, RearmCheck, RearmWake, injVars, clientVars
  <2> QED
    BY <2>1, <2>2 DEF Phases
<1>5. CASE Worker
  <2>1. CASE Serve
    <3>1. inj = "done" /\ inj' = inj
      BY <2>1 DEF Serve, Phases, injVars
    <3>2. UNCHANGED <<agent, rearm, cl>>
      BY <2>1 DEF Serve
    <3>3. resuming' => resuming \/ agent = "ready"
      BY <2>1 DEF Serve, TakeResume, Resumes, TakeWatch, TakeScript, TakeOther
    <3> QED
      BY <3>1, <3>2, <3>3 DEF Phases
  <2>2. CASE JsResume
    BY <2>2 DEF JsResume, Phases, injVars, agentVars
  <2>3. CASE JsWake
    BY <2>3 DEF JsWake, Phases, injVars, agentVars, clientVars
  <2> QED
    BY <1>5, <2>1, <2>2, <2>3 DEF Worker
<1>6. CASE Client
  <2>1. cl # "none" \/ inj = "done"
    BY <1>6 DEF Client, Discover, Watch, Eval, ResumeIfAutoGated, Exit, Close, Killed, Reattach,
                Command
  <2> QED
    BY <1>6, <2>1, ClientApart DEF Phases, injVars, agentVars
<1>7. CASE UNCHANGED <<opt, injVars, agentVars, clientVars>>
  BY <1>7 DEF Phases, injVars, agentVars, clientVars
<1> QED
  BY <1>1, <1>2, <1>3, <1>4, <1>5, <1>6, <1>7, SessionActions

\* The target's own threads neither hold the main thread nor send it to the
\* trampoline.
LEMMA MainPlaceKept ==
    ASSUME SessionInv, MainPlace, [SessionNext]_sessionVars
    PROVE  MainPlace'
<1> USE GateAssumption
<1>0. /\ th \in [Thr -> Th]
      /\ inj \in Calls \cup {"attach", "noptrace", "gate", "detach", "done"}
      /\ inCall => inj \in Calls
      /\ inj \in Calls \cup {"gate", "detach"} => th[Main] = "held"
      /\ "attach" \notin Calls /\ "gate" \notin Calls /\ "done" \notin Calls
      /\ "detach" \notin Calls
  BY DEF SessionInv, SessionTypeOK, GateTypeOK, Registers, Calls, Dlopen
<1>1. CASE Injector
  <2>1. CASE Attach
    BY <1>0, <2>1 DEF Attach, Hold, GoTo, MainPlace, Calls, Dlopen
  <2>2. CASE RemoteCall
    BY <1>0, <2>2 DEF RemoteCall, MainPlace
  <2>3. CASE SetGate
    BY <1>0, <2>3 DEF SetGate, Poke, PokeOnly, MainPlace, gateVars
  <2>4. CASE Detach
    BY <1>0, <2>4 DEF Detach, Release, GoTo, MainPlace
  <2>5. ASSUME NEW ok \in BOOLEAN, AttachRefused \/ NoPtraceEnds(ok)
        PROVE  MainPlace'
    BY <1>0, <2>5 DEF AttachRefused, NoPtraceEnds, MainPlace, gateVars, Calls, Dlopen
  <2>8. CASE ContRefused
    BY <1>0, <2>8 DEF ContRefused, Release, GoTo, MainPlace, Calls, Dlopen
  <2>6. ASSUME NEW ok \in BOOLEAN, Restore(ok), inj \in Calls
        PROVE  MainPlace'
    <3>1. inj' \in Calls \cup {"gate", "detach"}
      BY <2>6, AfterCall DEF Restore
    <3> QED
      BY <1>0, <2>6, <3>1 DEF Restore, MainPlace
  <2>7. CASE RemoteCallSpoilt \/ RemoteCallCut \/ RemoteCallTimesOut
             \/ \E ok \in BOOLEAN : RemoteCallReturns(ok)
    BY <1>0, <2>6, <2>7, EndsInRestore
  <2> QED
    BY <1>1, <2>1, <2>2, <2>3, <2>4, <2>5, <2>7, <2>8 DEF Injector
<1>2. CASE TargetStep /\ UNCHANGED <<inj, inCall>>
  <2>1. ASSUME NEW t \in Thr, Check(t) \/ FutexWait(t) \/ FutexInterrupted(t)
        PROVE  MainPlace'
    BY <1>0, <1>2, <2>1 DEF Check, FutexWait, FutexInterrupted, GoTo, MainPlace
  <2>2. ASSUME NEW t \in Thr, Leave(t)
        PROVE  MainPlace'
    BY <1>0, <1>2, <2>2 DEF Leave, GoTo, MainPlace
  <2>3. ASSUME NEW t \in Thr, PausePc(t) \/ PauseStore(t)
        PROVE  MainPlace'
    BY <1>0, <1>2, <2>3 DEF PausePc, PauseStore, GoTo, MainPlace
  <2>4. ASSUME NEW r \in Resumer, Exchange(r) \/ Wake(r)
        PROVE  MainPlace'
    BY <1>0, <1>2, <2>4 DEF Exchange, Wake, Woken, MainPlace
  <2>5. CASE UNCHANGED gateVars
    BY <1>2, <2>5 DEF gateVars, MainPlace
  <2> QED
    BY <1>2, <2>1, <2>2, <2>3, <2>4, <2>5 DEF TargetStep, GateWait
<1> QED
  BY <1>1, <1>2, SessionTarget


\* A script, the client's resume and the re-arming thread arm the main thread
\* before they open the gate; scripts that add the breakpoints later arm it too.
LEMMA ArmedFirstKept ==
    ASSUME SessionInv, Phases, MainPlace, ArmedFirst, [SessionNext]_sessionVars
    PROVE  ArmedFirst'
<1> USE GateAssumption
<1>0. /\ th \in [Thr -> Th]
      /\ inj \in Calls \cup {"attach", "noptrace", "gate", "detach", "done"}
      /\ inCall => inj \in Calls
      /\ monitor \in BOOLEAN
      /\ inj = "done" => th[Main] # "held"
      /\ "done" \notin Calls /\ "gate" \notin Calls /\ "detach" \notin Calls
  BY DEF SessionInv, SessionTypeOK, GateTypeOK, Registers, Calls, Dlopen, MainPlace
<1>1. CASE Injector
  <2>1. CASE Attach \/ RemoteCall
    BY <1>0, <2>1 DEF Attach, RemoteCall, Hold, GoTo, MainPlace, ArmedFirst, Ready, agentVars,
                      clientVars
  <2>2. CASE SetGate
    <3>1. th[Main] = "held" /\ ctx # "tramp" /\ UNCHANGED <<opt, agentVars, clientVars>>
      BY <2>2 DEF SetGate, SessionInv, Registers, MainPlace
    <3>2. CASE Poke \/ PokeOnly
      BY <3>1, <3>2 DEF Poke, PokeOnly, ArmedFirst, Ready, agentVars, clientVars
    <3>3. CASE UNCHANGED gateVars
      BY <3>1, <3>3 DEF gateVars, ArmedFirst, Ready, agentVars, clientVars
    <3> QED
      BY <2>2, <3>2, <3>3 DEF SetGate
  <2>3. CASE Detach
    BY <1>0, <2>3 DEF Detach, Release, GoTo, ArmedFirst, Ready, agentVars
  <2>4. ASSUME NEW ok \in BOOLEAN, AttachRefused \/ NoPtraceEnds(ok)
        PROVE  ArmedFirst'
    BY <2>4 DEF AttachRefused, NoPtraceEnds, ArmedFirst, Ready, gateVars, agentVars, clientVars
  <2>6. CASE ContRefused
    BY <2>6 DEF ContRefused, Release, MainPlace, ArmedFirst, Ready, agentVars, clientVars, Calls
  <2>5. ASSUME NEW ok \in BOOLEAN, Restore(ok), UNCHANGED agentVars
        PROVE  ArmedFirst'
    BY <2>5 DEF Restore, ArmedFirst, Ready, agentVars, clientVars
  <2> QED
    BY <1>0, <1>1, <2>1, <2>2, <2>3, <2>4, <2>5, <2>6, EndsInRestore DEF Injector
<1>2. CASE ArtPiAgentCtor
  BY <1>2 DEF ArtPiAgentCtor, ArmedFirst, Ready, gateVars, clientVars
<1>3. ASSUME UNCHANGED <<gateVars, opt>>, armed' = Armed, UNCHANGED fellBack,
             th[Main] # "held"
      PROVE  Ready'
  BY <1>3, SessionAssumption DEF Armed, Ready, gateVars
<1>4. CASE AgentThread
  <2>1. CASE AgentBoot
    <3>1. CASE th[Main] # "held"
      BY <1>3, <2>1, <3>1 DEF AgentBoot, ArmedFirst, gateVars, clientVars
    <3>2. CASE th[Main] = "held"
      BY <2>1, <3>2 DEF AgentBoot, Phases, ArmedFirst, gateVars, clientVars
    <3> QED
      BY <3>1, <3>2
  <2>2. CASE AgentServe \/ InitJs
    BY <2>2 DEF AgentServe, InitJs, ArmedFirst, Ready, gateVars, clientVars
  <2> QED
    BY <1>4, <2>1, <2>2 DEF AgentThread
<1>5. CASE RearmArm
  <2>1. Ready => Ready'
    BY <1>5 DEF RearmArm, Ready, Armed
  <2> QED
    BY <1>5, <2>1 DEF RearmArm, ArmedFirst, gateVars, clientVars
<1>6. CASE RearmCheck
  <2>1. Ready => Ready'
    BY <1>6 DEF RearmCheck, Ready
  <2>2. CASE UNCHANGED gateVars
    BY <1>6, <2>1, <2>2 DEF RearmCheck, ArmedFirst, gateVars, clientVars
  <2>3. CASE Due /\ Exchange("rearm")
    <3>1. Ready'
      BY <1>6, <2>3 DEF RearmCheck, Ready
    <3>2. agent' \notin {"none", "boot"}
      BY <1>6 DEF RearmCheck, Phases
    <3> QED
      BY <3>1, <3>2 DEF ArmedFirst
  <2> QED
    BY <1>6, <2>2, <2>3 DEF RearmCheck
<1>7. CASE RearmWake
  BY <1>0, <1>7 DEF RearmWake, Wake, Woken, ArmedFirst, Ready, clientVars
<1>8. CASE Worker
  <2>1. CASE Serve
    <3>1. th[Main] # "held"
      BY <1>0, <2>1 DEF Serve, Phases
    <3>2. CASE \E req : TakeResume(req) \/ TakeWatch(req)
      <4>1. Ready'
        BY <1>3, <2>1, <3>1, <3>2 DEF Serve, TakeResume, TakeWatch
      <4> QED
        BY <2>1, <3>1, <4>1 DEF Serve, ArmedFirst, gateVars
    <3>3. CASE \E req : TakeScript(req) \/ TakeOther(req)
      BY <2>1, <3>3 DEF Serve, TakeScript, TakeOther, ArmedFirst, Ready, gateVars
    <3> QED
      BY <2>1, <3>2, <3>3 DEF Serve
  <2>2. CASE JsResume
    <3>1. Ready' /\ agent' = "ready"
      BY <2>2 DEF JsResume, ArmedFirst, Phases, Ready, agentVars
    <3> QED
      BY <3>1 DEF ArmedFirst
  <2>3. CASE JsWake
    BY <1>0, <2>3 DEF JsWake, Wake, Woken, ArmedFirst, Ready, agentVars, clientVars
  <2> QED
    BY <1>8, <2>1, <2>2, <2>3 DEF Worker
<1>9. CASE Client
  BY <1>9, ClientApart DEF ArmedFirst, Ready, gateVars, agentVars
<1>10. ASSUME NEW t \in Thr, AppThread(t) \/ Callback(t) \/ Interrupted(t) \/ StopLib(t)
       PROVE  ArmedFirst'
  <2>1. UNCHANGED <<opt, agentVars, resuming>>
    BY <1>10 DEF AppThread, Callback, Interrupted, StopLib, clientVars
  <2>2. CASE Check(t) \/ FutexWait(t) \/ FutexInterrupted(t)
    BY <1>0, <2>1, <2>2 DEF Check, FutexWait, FutexInterrupted, GoTo, ArmedFirst, Ready, agentVars
  <2>3. CASE Leave(t)
    BY <1>0, <2>1, <2>3 DEF Leave, GoTo, ArmedFirst, Ready, agentVars
  <2>4. CASE PausePc(t) \/ PauseStore(t)
    BY <1>0, <2>1, <2>4 DEF PausePc, PauseStore, GoTo, ArmedFirst, Ready, agentVars
  <2>5. CASE UNCHANGED gateVars
    BY <2>1, <2>5 DEF ArmedFirst, Ready, gateVars, agentVars
  <2> QED
    BY <1>10, <2>2, <2>3, <2>4, <2>5
    DEF AppThread, ScriptEnd, Callback, Interrupted, StopLib, GateWait
<1>11. CASE UNCHANGED sessionVars
  BY <1>11 DEF sessionVars, ArmedFirst, Ready, gateVars, agentVars, clientVars
<1> QED
  BY <1>1, <1>2, <1>4, <1>5, <1>6, <1>7, <1>8, <1>9, <1>10, <1>11 DEF SessionNext, Rearm

\* Only the main thread itself, leaving the gate, gives up the trampoline.
LEMMA LeavesTrampoline ==
    ASSUME SessionInv, MainPlace, [SessionNext]_sessionVars, ctx = "tramp", ctx' # "tramp"
    PROVE  th[Main] = "leave"
<1>1. CASE Injector
  <2>1. inj \notin Calls /\ (inCall => inj \in Calls)
    BY DEF SessionInv, Registers, MainPlace
  <2> QED
    BY <1>1, <2>1 DEF Injector, Attach, Hold, AttachRefused, ContRefused, RemoteCall,
                      RemoteCallSpoilt, RemoteCallCut, RemoteCallTimesOut, SetGate, Poke,
                      PokeOnly, Detach, Release, NoPtraceEnds, RemoteCallReturns, gateVars
<1>2. CASE TargetStep
  <2>1. ASSUME NEW t \in Thr, Leave(t)
        PROVE  th[Main] = "leave"
    BY <2>1 DEF Leave
  <2> QED
    BY <1>2, <2>1 DEF TargetStep, GateWait, Check, FutexWait, FutexInterrupted, PausePc,
                      PauseStore, Exchange, Wake, gateVars
<1> QED
  BY <1>1, <1>2, SessionTarget

\* In a session gated for its hooks the main thread does not run the application
\* before it has its breakpoints, however the boot, the re-arming thread, scripts,
\* clients and other threads at the gate interleave, unless there are none, the
\* kernel refuses them or the re-arming thread fell back.
THEOREM HooksEarly == SessionSpec => EarlyHooks
<1>1. SessionInit => EarlyInv
  BY GateAssumption
  DEF SessionInit, GateInit, EarlyInv, Phases, MainPlace, ArmedFirst, Calls, Dlopen
<1>2. SessionInv /\ EarlyInv /\ [SessionNext]_sessionVars => EarlyInv'
  BY PhasesKept, MainPlaceKept, ArmedFirstKept DEF EarlyInv
<1>3. SessionInv /\ EarlyInv /\ [SessionNext]_sessionVars
        => [opt.mode = "auto" /\ ctx = "tramp" /\ ctx' # "tramp"
             => Main \in armed \/ ~monitor \/ ~opt.hw \/ fellBack]_sessionVars
  BY LeavesTrampoline DEF EarlyInv, ArmedFirst, Ready
<1> QED
  BY <1>1, <1>2, <1>3, SessionInvariant, PTL DEF SessionSpec, EarlyHooks

=============================================================================
