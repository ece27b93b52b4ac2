-------------------------- MODULE AgentDebugProofs --------------------------
(***************************************************************************)
(* Proofs about the debugger, for any number of application threads and    *)
(* methods, any depth of frames and any instrumentation.                   *)
(***************************************************************************)
EXTENDS AgentDebug, TLAPS

\* The lambda of an instrumented method starts at a known place, never in the
\* wait of OnBreakpointHit.
LEMMA EntryType ==
    ASSUME NEW k \in Kind, NEW d
    PROVE  Entry(k, d) \in PC \ {"wait"}
BY DEF Entry, Kind, Breakpoint, Stepped, PC

\* Taking g_jsMutex leads to JavaScript.
LEMMA LockingType ==
    ASSUME NEW p \in DOMAIN Locking
    PROVE  Locking[p] \in PC \ {"wait"}
<1>1. p \in {"lockEnter", "lockLeave", "lockCond", "evalLock", "relock"}
  BY DEF Locking
<1> QED
  BY <1>1 DEF Locking, PC

\* Where a thread is in a lambda, and where it may be when it calls a method.
Within == {"lockEnter", "cbEnter", "orig", "skip", "lockLeave", "cbLeave", "lockCond", "cond",
           "view", "hit", "wait", "woken", "exec"}
Resting == {"idle", "orig", "skip", "exec", "eval", "cbEnter", "cbLeave", "cond"}

\* A thread in a lambda has a frame to return to, and so has each frame that is
\* itself in a lambda.
Nesting(t) ==
    /\ pc[t] \in Within => Len(back[t]) > 0
    /\ \A i \in 1 .. Len(back[t]) : /\ back[t][i].pc \in Resting
                                    /\ back[t][i].pc \in Within => i > 1
Types == TypeOK /\ \A t \in Thread : Nesting(t)

\* Facts about the constants that every step uses.
LEMMA Constants ==
    0 \in 0 .. MaxLevel /\ NoCall \in CallType /\ NewHist \in HistType
BY LevelAssumption DEF NoCall, CallType, NewHist, HistType, Cmd

\* Init establishes the types.
LEMMA InitType == Init => Types
<1> SUFFICES ASSUME Init PROVE Types
  OBVIOUS
<1>1. back \in [Thread -> Seq(FrameType)]
  BY DEF Init
<1>3. TypeOK
  BY <1>1, Constants DEF Init, TypeOK, PC, Cmd
<1>2. \A t \in Thread : Nesting(t)
  BY DEF Init, Nesting, Within
<1> QED
  BY <1>2, <1>3 DEF Types

\* A step that leaves a thread's frames alone, or moves it about a lambda.
LEMMA NestingKept ==
    ASSUME NEW u \in Thread, Nesting(u), back'[u] = back[u],
           pc'[u] \in Within => pc[u] \in Within
    PROVE  Nesting(u)'
BY DEF Nesting

\* The frames that a thread comes back to are frames.
LEMMA FrameTypes ==
    ASSUME TypeOK, NEW t \in Thread
    PROVE  Frame(t) \in FrameType /\ Append(back[t], Frame(t)) \in Seq(FrameType)
<1>1. Frame(t) \in FrameType
  BY DEF TypeOK, Frame, FrameType
<1> QED
  BY <1>1 DEF TypeOK

\* Forgetting what was told leaves the rest of each frame.
LEMMA ForgetTypes ==
    ASSUME NEW f \in Seq(FrameType)
    PROVE  /\ Forget(f) \in Seq(FrameType) /\ Len(Forget(f)) = Len(f)
           /\ \A i \in 1 .. Len(f) : /\ Forget(f)[i].pc = f[i].pc /\ Forget(f)[i].hist = NewHist
<1>0. \A i \in 1 .. Len(f) : f[i] \in FrameType
  OBVIOUS
<1>1. ASSUME NEW g \in FrameType
      PROVE  /\ [g EXCEPT !.hist = NewHist] \in FrameType
             /\ [g EXCEPT !.hist = NewHist].pc = g.pc /\ [g EXCEPT !.hist = NewHist].hist = NewHist
  BY Constants DEF FrameType
<1>2. Forget(f) \in Seq(FrameType) /\ Len(Forget(f)) = Len(f)
  BY <1>0, <1>1 DEF Forget
<1>3. \A i \in 1 .. Len(f) : Forget(f)[i] = [f[i] EXCEPT !.hist = NewHist]
  BY DEF Forget
<1> QED
  BY <1>0, <1>1, <1>2, <1>3

\* Calls keep the types.
LEMMA CallTypes ==
    ASSUME Types, NEW t \in Thread, NEW m \in Method,
           Call(t, m) \/ ScriptCall(t, m)
    PROVE  Types'
<1>0. TypeOK /\ Nesting(t) /\ Enter(t, m) /\ pc[t] \in Resting /\ inst[m] \in Kind
  BY MeetsAssumption DEF Types, Call, ScriptCall, Resting
<1> DEFINE f == Append(back[t], Frame(t))
<1>1. f \in Seq(FrameType) /\ Len(f) = Len(back[t]) + 1 /\ Frame(t) \in FrameType
  BY <1>0, FrameTypes DEF TypeOK
<1>2. back' \in [Thread -> Seq(FrameType)] /\ (back'[t] = f \/ back'[t] = Forget(f))
      /\ \A u \in Thread \ {t} : back'[u] = back[u]
  BY <1>0, <1>1, ForgetTypes DEF Enter, Begin, TypeOK
<1>3. pc' \in [Thread -> PC]
  BY <1>0, EntryType DEF Enter, TypeOK
<1>4. call' \in [Thread -> CallType]
  BY <1>0 DEF Enter, TypeOK, CallType
<1>5. hist' \in [Thread -> HistType] /\ level' \in [Thread -> 0 .. MaxLevel]
  BY <1>0, Constants DEF Enter, TypeOK
<1>6. runMode' \in [Thread -> Cmd] /\ target' \in [Thread -> 0 .. MaxLevel]
  BY <1>0, Constants DEF Enter, Begin, TypeOK, Cmd
<1>7. TypeOK'
  BY <1>0, <1>2, <1>3, <1>4, <1>5, <1>6 DEF Enter, TypeOK, debugVars
<1>8. Len(back'[t]) = Len(f) /\ \A i \in 1 .. Len(f) : back'[t][i].pc = f[i].pc
  BY <1>1, <1>2, ForgetTypes
<1>9. \A i \in 1 .. Len(f) : f[i].pc \in Resting /\ (f[i].pc \in Within => i > 1)
  <2> SUFFICES ASSUME NEW i \in 1 .. Len(f) PROVE f[i].pc \in Resting /\ (f[i].pc \in Within => i > 1)
    OBVIOUS
  <2>0. back[t] \in Seq(FrameType)
    BY <1>0 DEF TypeOK
  <2>1. CASE i \in 1 .. Len(back[t])
    BY <1>0, <2>0, <2>1 DEF Nesting
  <2>2. CASE i = Len(back[t]) + 1
    <3>1. f[i].pc = pc[t]
      BY <2>0, <2>2 DEF Frame
    <3> QED BY <1>0, <2>0, <2>2, <3>1 DEF Nesting
  <2> QED BY <1>1, <2>0, <2>1, <2>2
<1>10. Nesting(t)'
  <2>1. Len(back[t]) \in Nat
    BY <1>0 DEF TypeOK
  <2> QED BY <1>1, <1>8, <1>9, <2>1 DEF Nesting
<1>11. ASSUME NEW u \in Thread, u # t PROVE Nesting(u)'
  BY <1>0, <1>2, <1>11, NestingKept DEF Enter, Types, TypeOK
<1> QED
  BY <1>7, <1>10, <1>11 DEF Types

\* The return of a lambda keeps the types it touches.
LEMMA ReturnTypes ==
    ASSUME Types, NEW t \in Thread, pc[t] \in Within, Return(t)
    PROVE  /\ pc' \in [Thread -> PC] /\ pc'[t] \in Resting
           /\ call' \in [Thread -> CallType]
           /\ level' \in [Thread -> 0 .. MaxLevel] /\ native' \in [Thread -> BOOLEAN]
           /\ back' \in [Thread -> Seq(FrameType)]
           /\ hist' \in [Thread -> HistType]
           /\ \A u \in Thread : Nesting(u)'
<1> DEFINE n == Len(back[t])
           f == back[t][n]
<1>0. /\ TypeOK /\ Nesting(t) /\ back[t] \in Seq(FrameType) /\ n \in Nat /\ n > 0
      /\ n \in 1 .. n
  BY DEF Types, TypeOK, Nesting
<1>1. f \in FrameType /\ f.pc \in Resting /\ (f.pc \in Within => n > 1)
  BY <1>0 DEF Nesting
<1>2. f.pc \in PC /\ f.call \in CallType /\ f.level \in 0 .. MaxLevel /\ f.native \in BOOLEAN
      /\ f.hist \in HistType
  BY <1>1 DEF FrameType
<1>3. SubSeq(back[t], 1, n - 1) \in Seq(FrameType) /\ Len(SubSeq(back[t], 1, n - 1)) = n - 1
      /\ \A i \in 1 .. n - 1 : SubSeq(back[t], 1, n - 1)[i] = back[t][i]
  BY <1>0
<1>4. back' \in [Thread -> Seq(FrameType)] /\ back'[t] = SubSeq(back[t], 1, n - 1)
  BY <1>0, <1>3 DEF Return, TypeOK
<1>5. pc'[t] = f.pc
  BY <1>0 DEF Return, TypeOK
<1>6. Nesting(t)'
  BY <1>0, <1>1, <1>3, <1>4, <1>5 DEF Nesting
<1>7. \A u \in Thread \ {t} : Nesting(u)'
  BY NestingKept DEF Return, Types, TypeOK
<1>8. /\ pc' \in [Thread -> PC] /\ call' \in [Thread -> CallType]
      /\ level' \in [Thread -> 0 .. MaxLevel] /\ native' \in [Thread -> BOOLEAN]
      /\ hist' \in [Thread -> HistType]
  BY <1>0, <1>2 DEF Return, TypeOK
<1> QED
  BY <1>1, <1>4, <1>5, <1>6, <1>7, <1>8

\* A step that leaves every thread's frames alone.
LEMMA NestingKeptAll ==
    ASSUME Types, back' = back, \A u \in Thread : pc'[u] \in Within => pc[u] \in Within
    PROVE  \A u \in Thread : Nesting(u)'
BY NestingKept DEF Types

\* The next instruction keeps the types.
LEMMA ArriveTypes ==
    ASSUME Types, NEW t \in Thread, NEW mode \in Cmd,
           NEW lev \in 0 .. MaxLevel, NEW nat \in BOOLEAN,
           Arrive(t, mode, lev, nat)
    PROVE  Types'
<1>1. TypeOK'
  BY DEF Arrive, Types, TypeOK, debugVars, PC, Cmd
<1>2. back' = back /\ \A u \in Thread : pc'[u] \in Within => pc[u] \in Within
  BY DEF Arrive, Types, TypeOK, Within
<1> QED
  BY <1>1, <1>2, NestingKeptAll DEF Types

\* What a thread does by itself keeps the types.
LEMMA ThreadTypes ==
    ASSUME Types, NEW t \in Thread, ThreadStep(t) \/ Lock(t)
    PROVE  Types'
<1>0. TypeOK /\ pc \in [Thread -> PC]
  BY DEF Types, TypeOK
<1>1. ASSUME Return(t), pc[t] \in Within, UNCHANGED <<inst, jsDepth, debugVars, target, want>>,
             jsOwner' \in {jsOwner, NoThread},
             runMode' = runMode \/ runMode' = [runMode EXCEPT ![t] = "NONE"]
      PROVE  Types'
  <2>1. TypeOK'
    BY <1>0, <1>1, ReturnTypes DEF TypeOK, debugVars, Cmd
  <2> QED
    BY <1>1, <2>1, ReturnTypes DEF Types
<1>2. ASSUME TypeOK', back' = back, pc[t] \in Within, \E p : pc' = [pc EXCEPT ![t] = p] PROVE Types'
  BY <1>0, <1>2, NestingKeptAll DEF Types
<1>3. CASE Original(t)
  <2>1. CASE ~(pc[t] = "orig" /\ call[t].kind \in {"hookPair", "trace"})
    BY <1>1, <1>3, <2>1 DEF Original, Within
  <2>2. CASE pc[t] = "orig" /\ call[t].kind \in {"hookPair", "trace"}
    <3>1. UNCHANGED <<frameVars, back>> /\ \E p \in PC : pc' = [pc EXCEPT ![t] = p]
      BY <1>3, <2>2 DEF Original, PC
    <3> QED BY <1>0, <1>2, <1>3, <2>2, <3>1 DEF Original, TypeOK, debugVars, frameVars, Within
  <2> QED BY <2>1, <2>2
<1>4. CASE NoOnEnter(t)
  BY <1>0, <1>2, <1>4 DEF NoOnEnter, Goto, Quiet, TypeOK, debugVars, frameVars, localVars, PC, Within
<1>5. CASE CallbackDone(t)
  <2>1. CASE Return(t)
    BY <1>1, <1>5, <2>1 DEF CallbackDone, Within
  <2>2. CASE UNCHANGED <<frameVars, back>> /\ pc' = [pc EXCEPT ![t] = "orig"]
    BY <1>0, <1>2, <1>5, <2>2 DEF CallbackDone, TypeOK, debugVars, frameVars, PC, Within
  <2> QED BY <1>5, <2>1, <2>2 DEF CallbackDone
<1>6. CASE EvalCond(t)
  <2>0. pc[t] = "cond" /\ \E p \in PC : pc' = [pc EXCEPT ![t] = p]
    BY <1>6 DEF EvalCond, PC
  <2>1. CASE UNCHANGED <<runMode, target, back>>
    BY <1>0, <1>2, <1>6, <2>0, <2>1 DEF EvalCond, TypeOK, debugVars, frameVars, Within
  <2>2. CASE Begin(t, back[t])
    <3>1. Forget(back[t]) \in Seq(FrameType) /\ Len(Forget(back[t])) = Len(back[t])
          /\ \A i \in 1 .. Len(back[t]) : Forget(back[t])[i].pc = back[t][i].pc
      BY <1>0, ForgetTypes DEF TypeOK
    <3>2. back' = [back EXCEPT ![t] = Forget(back[t])] /\ back' \in [Thread -> Seq(FrameType)]
      BY <1>0, <2>2, <3>1 DEF Begin, TypeOK
    <3>3. runMode' \in [Thread -> Cmd] /\ target' \in [Thread -> 0 .. MaxLevel]
      BY <1>0, <2>2, Constants DEF Begin, TypeOK, Cmd
    <3>4. TypeOK'
      BY <1>0, <1>6, <2>0, <3>2, <3>3 DEF EvalCond, TypeOK, debugVars, frameVars
    <3>5. Nesting(t)'
      <4>1. Nesting(t) /\ pc[t] \in Within /\ back'[t] = Forget(back[t])
        BY <1>0, <2>0, <3>2 DEF Types, Within, TypeOK
      <4> QED BY <3>1, <4>1 DEF Nesting
    <3>6. ASSUME NEW u \in Thread, u # t PROVE Nesting(u)'
      BY <1>0, <2>0, <3>2, <3>6, NestingKept DEF Types, TypeOK
    <3> QED BY <3>4, <3>5, <3>6 DEF Types
  <2> QED BY <1>6, <2>1, <2>2 DEF EvalCond
<1>7. CASE View(t)
  <2>1. hist' \in [Thread -> HistType]
    <3>1. [told |-> "NONE", at |-> level[t], clean |-> TRUE] \in HistType
      BY <1>0 DEF HistType, TypeOK, Cmd
    <3> QED BY <1>0, <1>7, <3>1, Constants DEF View, Disturb, TypeOK
  <2> QED BY <1>0, <1>2, <1>7, <2>1, Constants DEF View, Goto, TypeOK, PC, Within
<1>8. CASE Hit(t)
  <2>1. hist' \in [Thread -> HistType]
    BY <1>0, <1>8, Constants DEF Hit, Disturb, TypeOK
  <2>2. pausedIn' \in Method \cup {NoMethod}
    <3>1. call[t].m \in Method \cup {NoMethod}
      BY <1>0 DEF TypeOK, CallType
    <3> QED BY <1>8, <3>1 DEF Hit, Shown
  <2> QED BY <1>0, <1>2, <1>8, <2>1, <2>2 DEF Hit, Goto, TypeOK, PC, Cmd, Within
<1>9. CASE Wake(t)
  <2>1. hist' \in [Thread -> HistType]
    <3>1. hist[t] \in HistType
      BY <1>0 DEF TypeOK
    <3>2. (IF hist[t].clean THEN pending ELSE "NONE") \in Cmd
      BY <1>0 DEF TypeOK, Cmd
    <3> QED
      BY <1>0, <1>9, <3>1, <3>2 DEF Wake, TypeOK, HistType
  <2> QED
    BY <1>0, <1>2, <1>9, <2>1 DEF Wake, Goto, TypeOK, PC, Within
<1>10. CASE TakeCommand(t)
  BY <1>0, <1>2, <1>10 DEF TakeCommand, Goto, TypeOK, debugVars, frameVars, PC, Within
<1>11. CASE StepIn(t)
  <2>1. "NONE" \in Cmd /\ level[t] \in 0 .. MaxLevel
    BY <1>0 DEF Cmd, TypeOK
  <2>2. level[t] < MaxLevel => level[t] + 1 \in 0 .. MaxLevel
    BY <2>1, LevelAssumption
  <2> QED
    BY <1>11, <2>1, <2>2, ArriveTypes DEF StepIn
<1>12. CASE Exec(t)
  BY <1>0, <1>12, ArriveTypes DEF Exec, TypeOK
<1>13. CASE Leave(t)
  <2>1. runMode[t] \in Cmd /\ level[t] \in 0 .. MaxLevel
    BY <1>0 DEF TypeOK
  <2>2. level[t] > 0 => level[t] - 1 \in 0 .. MaxLevel
    BY <2>1, LevelAssumption
  <2> QED
    BY <1>13, <2>1, <2>2, ArriveTypes DEF Leave
<1>14. CASE Finish(t)
  BY <1>1, <1>14 DEF Finish, Within
<1>15. CASE Lock(t)
  <2>1. pc[t] \in {"lockEnter", "lockLeave", "lockCond", "evalLock", "relock"}
        /\ pc' = [pc EXCEPT ![t] = Locking[pc[t]]]
    BY <1>15 DEF Lock, Locking
  <2>2. Locking[pc[t]] \in Within => pc[t] \in Within
    BY <2>1 DEF Locking, Within
  <2>3. TypeOK' /\ back' = back
    BY <1>0, <1>15, LockingType DEF Lock, TypeOK, debugVars, frameVars, localVars
  <2> QED
    BY <1>0, <2>1, <2>2, <2>3, NestingKeptAll DEF Types
<1> QED
  BY <1>3, <1>4, <1>5, <1>6, <1>7, <1>8, <1>9, <1>10, <1>11, <1>12, <1>13, <1>14, <1>15 DEF ThreadStep

\* The server's operations.
ServerStep ==
    \/ Request
    \/ \E c \in Cmd : Resume(c)
    \/ JsReturn
    \/ \E m \in Method : \E k \in Arms[m] \cup {"none"} : Release(m, k)
    \/ ClearDone \/ Install
    \/ \E all \in BOOLEAN : DetachResume(all)
    \/ DetachRemove \/ JsSleep \/ EvalEnd

\* They leave the threads' locals alone, and the server's own place outside lambdas.
LEMMA ServerLocals ==
    ASSUME TypeOK, ServerStep
    PROVE  /\ UNCHANGED <<call, level, native, hist, back, runMode, target, regsDepth, paused>>
           /\ pc' \in [Thread -> PC]
           /\ \A u \in Thread : pc'[u] = pc[u] \/ pc'[u] \in PC \ ((Within \cup Resting) \ {"eval", "idle"})
<1>0. Server \in Thread /\ pc \in [Thread -> PC]
  BY DEF Thread, TypeOK
<1>1. CASE Request \/ JsSleep \/ EvalEnd
  BY <1>0, <1>1 DEF Request, JsSleep, EvalEnd, Goto, Quiet, debugVars, localVars, frameVars, PC, Within,
                    Resting
<1>2. CASE (\E c \in Cmd : Resume(c)) \/ JsReturn
  BY <1>0, <1>2 DEF Resume, JsReturn, localVars, frameVars
<1>3. CASE \E m \in Method : \E k \in Arms[m] \cup {"none"} : Release(m, k)
  BY <1>0, <1>3 DEF Release, localVars, frameVars, PC, Within, Resting
<1>4. CASE ClearDone \/ Install \/ DetachRemove
  BY <1>0, <1>4 DEF ClearDone, Install, DetachRemove, Goto, debugVars, localVars, frameVars, PC, Within,
                    Resting
<1>5. CASE \E all \in BOOLEAN : DetachResume(all)
  BY <1>0, <1>5 DEF DetachResume, Goto, localVars, frameVars, PC, Within, Resting
<1> QED
  BY <1>1, <1>2, <1>3, <1>4, <1>5 DEF ServerStep

\* They keep the types.
LEMMA ServerTypes ==
    ASSUME Types, ServerStep
    PROVE  Types'
<1>0. TypeOK /\ Server \in Thread
  BY DEF Types, Thread
<1>1. inst' \in [Method -> Kind \cup {"none"}] /\ want' \in CallType
  <2>1. CASE Request \/ JsSleep \/ EvalEnd \/ (\E c \in Cmd : Resume(c)) \/ JsReturn
    BY <1>0, <2>1 DEF Request, JsSleep, EvalEnd, Resume, JsReturn, Quiet, TypeOK
  <2>2. CASE \E m \in Method : \E k \in Arms[m] \cup {"none"} : Release(m, k)
    <3>1. PICK m \in Method : \E k \in Arms[m] \cup {"none"} : Release(m, k)
      BY <2>2
    <3>2. PICK k \in Arms[m] \cup {"none"} : Release(m, k)
      BY <3>1
    <3>3. k \in Kind \cup {"none"}
      BY MeetsAssumption
    <3> QED BY <1>0, <3>2, <3>3 DEF Release, TypeOK, CallType
  <2>3. CASE ClearDone \/ Install \/ DetachRemove
    <3>1. want.kind \in Kind \cup {"none"}
      BY <1>0 DEF TypeOK, CallType
    <3> QED BY <1>0, <2>3, <3>1, Constants DEF ClearDone, Install, DetachRemove, TypeOK
  <2>4. CASE \E all \in BOOLEAN : DetachResume(all)
    BY <1>0, <2>4 DEF DetachResume, TypeOK, CallType, Kind, Breakpoint, Stepped
  <2> QED BY <2>1, <2>2, <2>3, <2>4 DEF ServerStep
<1>2. pending' \in Cmd /\ pausedIn' = pausedIn
  BY <1>0 DEF ServerStep, Request, Resume, JsReturn, Release, ClearDone, Install, DetachResume,
              DetachRemove, JsSleep, EvalEnd, Quiet, debugVars, TypeOK, Cmd
<1>3. jsOwner' \in Thread \cup {NoThread} /\ jsDepth' \in [Thread -> {0, 1}]
  BY <1>0 DEF ServerStep, Request, Resume, JsReturn, Release, ClearDone, Install, DetachResume,
              DetachRemove, JsSleep, EvalEnd, Quiet, TypeOK
<1>4. TypeOK'
  BY <1>0, <1>1, <1>2, <1>3, ServerLocals DEF TypeOK
<1>5. back' = back /\ \A u \in Thread : pc'[u] \in Within => pc[u] \in Within
  BY <1>0, ServerLocals DEF Within
<1> QED
  BY <1>4, <1>5, NestingKeptAll DEF Types

\* No step changes the types.
LEMMA StepTypes == Types /\ [Next]_vars => Types'
<1> SUFFICES ASSUME Types, [Next]_vars PROVE Types'
  OBVIOUS
<1>1. CASE \E t \in Thread : ThreadStep(t) \/ Lock(t)
  BY <1>1, ThreadTypes
<1>2. CASE \E t \in Thread, m \in Method : Call(t, m) \/ ScriptCall(t, m)
  BY <1>2, CallTypes
<1>3. CASE ServerStep
  BY <1>3, ServerTypes
<1>4. CASE UNCHANGED vars
  BY <1>4 DEF vars, debugVars, localVars, frameVars, Types, TypeOK, Nesting
<1> QED
  BY <1>1, <1>2, <1>3, <1>4 DEF Next, ServerStep

\* Every global of the debugger and every local of its threads keeps its type: in
\* particular a lambda always has a frame to return to.
THEOREM DebugTypes == Spec => []TypeOK
<1>1. Types => TypeOK
  BY DEF Types
<1> QED
  BY <1>1, InitType, StepTypes, PTL DEF Spec

\* The thread that reports a breakpoint sets both shared variables; the one that
\* wakes leaves the command in place; commands are taken only while a thread
\* is paused.  Hence a sleeping thread is never out of reach.
LEMMA StepReaches ==
    Types /\ NoStrandedThread /\ [Next]_vars => NoStrandedThread'
<1> SUFFICES ASSUME Types, NoStrandedThread, [Next]_vars
             PROVE  NoStrandedThread'
  OBVIOUS
<1> DEFINE Fresh == \A u \in Thread : pc'[u] = "wait" => pc[u] = "wait"
<1>0. Server \in Thread /\ TypeOK /\ pc \in [Thread -> PC]
  BY DEF Thread, Types, TypeOK
<1>1. ASSUME NEW t \in Thread, ThreadStep(t) \/ Lock(t)
      PROVE  NoStrandedThread'
  <2>1. CASE Hit(t)
    BY <2>1 DEF Hit, NoStrandedThread
  <2>2. CASE Wake(t)
    BY <2>2 DEF Wake, NoStrandedThread
  <2>3. CASE Original(t) \/ CallbackDone(t) \/ Finish(t)
    <3>1. Fresh
      <4>1. CASE Return(t)
        <5>1. pc'[t] \in Resting
          BY <2>3, <4>1, ReturnTypes DEF Original, CallbackDone, Finish, Within
        <5> QED BY <1>0, <4>1, <5>1 DEF Return, Resting
      <4>2. CASE \E p \in {"lockLeave", "lockEnter", "orig"} : pc' = [pc EXCEPT ![t] = p]
        BY <1>0, <4>2
      <4> QED BY <2>3, <4>1, <4>2 DEF Original, CallbackDone, Finish
    <3> QED
      BY <2>3, <3>1 DEF Original, CallbackDone, Finish, debugVars, NoStrandedThread
  <2>4. CASE NoOnEnter(t) \/ EvalCond(t) \/ View(t) \/ TakeCommand(t)
    BY <1>0, <2>4 DEF NoOnEnter, EvalCond, View, TakeCommand, Goto, Quiet, debugVars, NoStrandedThread
  <2>5. CASE StepIn(t) \/ Exec(t) \/ Leave(t)
    BY <1>0, <2>5 DEF StepIn, Exec, Leave, Arrive, debugVars, NoStrandedThread
  <2>6. CASE Lock(t)
    BY <1>0, <2>6, LockingType DEF Lock, debugVars, NoStrandedThread
  <2> QED
    BY <1>1, <2>1, <2>2, <2>3, <2>4, <2>5, <2>6 DEF ThreadStep
<1>2. ASSUME NEW t \in Thread, NEW m \in Method, Call(t, m) \/ ScriptCall(t, m)
      PROVE  NoStrandedThread'
  <2>1. inst[m] \in Kind
    BY <1>2, MeetsAssumption DEF Call, ScriptCall
  <2> QED
    BY <1>0, <1>2, <2>1, EntryType DEF Call, ScriptCall, Enter, debugVars, NoStrandedThread
<1>3. CASE ServerStep
  <2>1. paused' = paused /\ Fresh
    BY <1>0, <1>3, ServerLocals DEF Within
  <2>2. pending = "NONE" \/ pending' # "NONE"
    BY <1>3 DEF ServerStep, Request, Resume, JsReturn, Release, ClearDone, Install, DetachResume,
                DetachRemove, JsSleep, EvalEnd, Quiet, debugVars
  <2> QED
    BY <2>1, <2>2 DEF NoStrandedThread
<1>4. CASE UNCHANGED vars
  BY <1>4 DEF vars, debugVars, NoStrandedThread
<1> QED
  BY <1>1, <1>2, <1>3, <1>4 DEF Next, ServerStep

\* However many threads hit breakpoints and in whatever order they sleep and
\* wake, one that sleeps in OnBreakpointHit can be resumed.
THEOREM PausedThreadsReachable == Spec => []NoStrandedThread
<1>1. Init => NoStrandedThread
  BY DEF Init, NoStrandedThread
<1> QED
  BY <1>1, InitType, StepTypes, StepReaches, PTL DEF Spec

-----------------------------------------------------------------------------
(* Commands.                                                               *)

\* What a command means while the thread runs: it is still the one in t_runMode, and
\* the frame is one the command lets the thread be in.
Heeds(mode, goal, h, lev, nat) ==
    /\ mode = h.told /\ h.told # "NONE"
    /\ h.told \in {"STEP_IN", "STEP_OVER"} => lev <= h.at
    /\ h.told = "FINISH" => ~nat /\ goal = h.at /\ h.at <= lev

\* What the command a thread was told means for the place it is at, as long as nothing
\* has come in between.  A pause in a native callee is still the last snapshot, so that
\* `r` there is never FINISH; the command is still the one the thread woke up with.
Following(t) ==
    hist[t].clean =>
       /\ pc[t] \notin {"lockCond", "cond"}
       /\ pc[t] \in {"hit", "wait"} =>
             hist[t].told = "NONE" /\ level[t] = hist[t].at /\ (native[t] => regsDepth = 0)
       /\ pc[t] = "wait" /\ native[t] => pending # "FINISH"
       /\ pc[t] = "woken" =>
             /\ ~paused /\ pending = hist[t].told /\ hist[t].told # "NONE"
             /\ level[t] = hist[t].at /\ (hist[t].told = "FINISH" => ~native[t])
       /\ pc[t] = "exec" => Heeds(runMode[t], target[t], hist[t], level[t], native[t])
       /\ pc[t] = "view" => Obeys(t)

\* The thread is in the lambda of a stepped breakpoint and past its beginning.
Stepping(t) ==
    \/ pc[t] \in {"view", "woken", "exec"}
    \/ pc[t] \in {"hit", "wait"} /\ call[t].kind \in Stepped

\* The same for the frames the thread comes back to.  Only the innermost stepped
\* breakpoint remembers its command.
Waiting(t) ==
    /\ \A i \in 1 .. Len(back[t]) :
          back[t][i].hist.clean =>
             /\ back[t][i].pc # "cond"
             /\ back[t][i].pc = "exec" => Heeds(runMode[t], target[t], back[t][i].hist,
                                                back[t][i].level, back[t][i].native)
    /\ Stepping(t) => \A i \in 1 .. Len(back[t]) : ~back[t][i].hist.clean
    /\ \A i, j \in 1 .. Len(back[t]) :
          i < j /\ back[t][j].pc = "exec" => ~back[t][i].hist.clean

StepsInv == \A t \in Thread : Following(t) /\ Waiting(t)

\* A step of something else: the thread is where it was, a command comes only while
\* some thread is paused, and a new snapshot voids a pause in a native callee.
LEMMA FollowingKept ==
    ASSUME NEW u \in Thread, Following(u), pc'[u] = pc[u], level'[u] = level[u],
           native'[u] = native[u], runMode'[u] = runMode[u], target'[u] = target[u],
           hist'[u] = hist[u],
           regsDepth' = regsDepth \/ ~(native[u] /\ pc[u] \in {"hit", "wait"}),
           pc[u] = "woken" => (paused' => paused) /\ (pending' = pending \/ paused),
           pending' = pending \/ pending' # "FINISH" \/ regsDepth # 0
    PROVE  Following(u)'
BY DEF Following, Obeys, Heeds

\* Once the debugger has forgotten, nothing is claimed.
LEMMA FollowingVoid ==
    ASSUME NEW u \in Thread, hist'[u] = NewHist
    PROVE  Following(u)'
BY DEF Following, NewHist

\* A step that leaves the frames alone, and t_runMode and t_targetDepth unless the
\* thread is stepping.
LEMMA WaitingKept ==
    ASSUME NEW u \in Thread, Waiting(u), back'[u] = back[u], Stepping(u)' => Stepping(u),
           Stepping(u) \/ (runMode'[u] = runMode[u] /\ target'[u] = target[u])
    PROVE  Waiting(u)'
<1>1. CASE Stepping(u)
  BY <1>1 DEF Waiting
<1>2. CASE ~Stepping(u)
  BY <1>2 DEF Waiting
<1> QED BY <1>1, <1>2

\* The beginning of a stepped breakpoint's lambda forgets the commands of the others.
LEMMA WaitingForgets ==
    ASSUME NEW u \in Thread, NEW f \in Seq(FrameType), back'[u] = Forget(f)
    PROVE  Waiting(u)'
<1>1. Len(back'[u]) = Len(f) /\ \A i \in 1 .. Len(f) : ~back'[u][i].hist.clean
  BY ForgetTypes DEF NewHist
<1> QED BY <1>1 DEF Waiting

\* A call: the caller's frame joins those that wait.
LEMMA CallFollows ==
    ASSUME Types, NEW t \in Thread, NEW m \in Method, Call(t, m) \/ ScriptCall(t, m),
           Following(t), Waiting(t)
    PROVE  Following(t)' /\ Waiting(t)'
<1> DEFINE f == Append(back[t], Frame(t))
           n == Len(back[t])
<1>0. /\ TypeOK /\ Enter(t, m) /\ inst[m] \in Kind /\ pc[t] \in Resting
      /\ back[t] \in Seq(FrameType) /\ n \in Nat /\ pc \in [Thread -> PC]
  BY MeetsAssumption DEF Types, TypeOK, Call, ScriptCall, Resting
<1>1. f \in Seq(FrameType)
  BY <1>0, FrameTypes
<1>2. hist'[t] = NewHist
  BY <1>0 DEF Enter, TypeOK
<1>3. CASE inst[m] = "bp"
  <2>1. back'[t] = Forget(f)
    BY <1>0, <1>3 DEF Enter, Begin, TypeOK
  <2> QED BY <1>1, <1>2, <2>1, FollowingVoid, WaitingForgets
<1>4. CASE inst[m] # "bp"
  <2>1. back'[t] = f /\ UNCHANGED <<runMode, target>>
    BY <1>0, <1>4 DEF Enter, TypeOK
  <2>2. ~Stepping(t)'
    <3>1. pc'[t] = Entry(inst[m], jsDepth[t]) /\ call'[t] = [m |-> m, kind |-> inst[m]]
      BY <1>0 DEF Enter, TypeOK
    <3>2. pc'[t] \in {"skip", "lockEnter", "lockCond", "hit"} /\ (pc'[t] = "hit" => inst[m] = "bpNative")
      BY <1>0, <1>4, <3>1 DEF Entry, Kind, Breakpoint, Stepped
    <3> QED BY <3>1, <3>2 DEF Stepping, Stepped
  <2>3. /\ Len(f) = n + 1 /\ \A i \in 1 .. n : f[i] = back[t][i]
        /\ f[n + 1].pc = pc[t] /\ f[n + 1].hist = hist[t] /\ f[n + 1].level = level[t]
        /\ f[n + 1].native = native[t]
    BY <1>0 DEF Frame
  <2>4. pc[t] = "exec" => \A i \in 1 .. n : ~back[t][i].hist.clean
    BY DEF Waiting, Stepping
  <2>5. \A i \in 1 .. n + 1 : f[i].hist.clean =>
             /\ f[i].pc # "cond"
             /\ f[i].pc = "exec" => Heeds(runMode[t], target[t], f[i].hist, f[i].level, f[i].native)
    <3> SUFFICES ASSUME NEW i \in 1 .. n + 1, f[i].hist.clean
                 PROVE  /\ f[i].pc # "cond"
                        /\ f[i].pc = "exec" => Heeds(runMode[t], target[t], f[i].hist, f[i].level,
                                                     f[i].native)
      OBVIOUS
    <3>1. CASE i \in 1 .. n
      BY <2>3, <3>1 DEF Waiting
    <3>2. CASE i = n + 1
      BY <2>3, <3>2 DEF Following
    <3> QED BY <1>0, <3>1, <3>2
  <2>6. \A i, j \in 1 .. n + 1 : i < j /\ f[j].pc = "exec" => ~f[i].hist.clean
    <3> SUFFICES ASSUME NEW i \in 1 .. n + 1, NEW j \in 1 .. n + 1, i < j, f[j].pc = "exec"
                 PROVE  ~f[i].hist.clean
      OBVIOUS
    <3>1. i \in 1 .. n
      BY <1>0
    <3>2. CASE j \in 1 .. n
      BY <2>3, <3>1, <3>2 DEF Waiting
    <3>3. CASE j = n + 1
      BY <2>3, <2>4, <3>1, <3>3
    <3> QED BY <1>0, <3>2, <3>3
  <2>7. Waiting(t)'
    BY <2>1, <2>2, <2>3, <2>5, <2>6 DEF Waiting
  <2> QED BY <1>2, <2>7, FollowingVoid
<1> QED BY <1>3, <1>4

\* A return: the frame that waited is the current one again, with its command.
LEMMA ReturnFollows ==
    ASSUME Types, NEW t \in Thread, Waiting(t), Return(t), pc[t] \in Within,
           target' = target, runMode' = runMode \/ Stepping(t)
    PROVE  Following(t)' /\ Waiting(t)'
<1> DEFINE n == Len(back[t])
           f == back[t][n]
           b == SubSeq(back[t], 1, n - 1)
<1>0. TypeOK /\ back[t] \in Seq(FrameType) /\ n \in Nat /\ n > 0 /\ f.pc \in Resting /\ f \in FrameType
  BY DEF Types, TypeOK, Nesting
<1>1. /\ pc'[t] = f.pc /\ level'[t] = f.level /\ native'[t] = f.native /\ hist'[t] = f.hist
      /\ call'[t] = f.call /\ back'[t] = b
  BY <1>0 DEF Return, TypeOK
<1>2. f.hist.clean => /\ f.pc # "cond" /\ runMode' = runMode
                      /\ f.pc = "exec" => Heeds(runMode[t], target[t], f.hist, f.level, f.native)
  BY <1>0 DEF Waiting
<1>3. Following(t)'
  BY <1>0, <1>1, <1>2 DEF Following, Resting
<1>4. Len(b) = n - 1 /\ \A i \in 1 .. n - 1 : b[i] = back[t][i]
  BY <1>0
<1>5. \A i \in 1 .. n - 1 : i \in 1 .. n /\ i < n
  BY <1>0
<1>6. Stepping(t)' => \A i \in 1 .. n - 1 : ~b[i].hist.clean
  <2>1. Stepping(t)' => f.pc = "exec"
    BY <1>0, <1>1 DEF Stepping, Resting
  <2> QED BY <1>0, <1>4, <1>5, <2>1 DEF Waiting
<1>7. \A i \in 1 .. n - 1 : b[i].hist.clean =>
             /\ b[i].pc # "cond"
             /\ b[i].pc = "exec" => Heeds(runMode'[t], target'[t], b[i].hist, b[i].level, b[i].native)
  BY <1>4, <1>5 DEF Waiting
<1>8. \A i, j \in 1 .. n - 1 : i < j /\ b[j].pc = "exec" => ~b[i].hist.clean
  BY <1>4, <1>5 DEF Waiting
<1>9. Waiting(t)'
  BY <1>1, <1>4, <1>6, <1>7, <1>8 DEF Waiting
<1> QED BY <1>3, <1>9

\* The next instruction, in the same frame or below, or one frame above after STEP_IN.
LEMMA ArriveFollows ==
    ASSUME TypeOK, NEW t \in Thread, Following(t),
           NEW mode, NEW lev \in Nat, NEW nat \in BOOLEAN, Arrive(t, mode, lev, nat),
           \/ mode = runMode[t] /\ lev <= level[t] /\ (nat => native[t])
           \/ mode = "NONE" /\ runMode[t] = "STEP_IN" /\ lev <= level[t] + 1
    PROVE  Following(t)'
<1>0. /\ hist[t] \in HistType /\ level[t] \in Nat /\ target[t] \in Nat /\ hist[t].at \in Nat
      /\ native[t] \in BOOLEAN /\ hist[t].told \in Cmd
  BY LevelAssumption DEF TypeOK, HistType
<1>1. /\ pc[t] = "exec" /\ pc'[t] = (IF RunsOn(t, mode, lev, nat) THEN "exec" ELSE "view")
      /\ level'[t] = lev /\ native'[t] = nat /\ hist'[t] = hist[t] /\ target'[t] = target[t]
      /\ RunsOn(t, mode, lev, nat) => runMode'[t] = mode
  BY DEF Arrive, TypeOK, RunsOn
<1> SUFFICES ASSUME hist[t].clean PROVE Following(t)'
  BY <1>1 DEF Following
<1>2. /\ runMode[t] = hist[t].told /\ hist[t].told # "NONE"
      /\ hist[t].told \in {"STEP_IN", "STEP_OVER"} => level[t] <= hist[t].at
      /\ hist[t].told = "FINISH" =>
            ~native[t] /\ target[t] = hist[t].at /\ hist[t].at <= level[t]
  BY <1>1 DEF Following, Heeds
<1>3. CASE RunsOn(t, mode, lev, nat)
  <2>1. mode = hist[t].told /\ (nat => native[t]) /\ mode \in {"CONTINUE", "FINISH"}
    BY <1>2, <1>3 DEF RunsOn
  <2>2. mode = "FINISH" => ~nat /\ hist[t].at <= lev
    BY <1>0, <1>2, <1>3, <2>1 DEF RunsOn
  <2>3. Heeds(mode, target[t], hist[t], lev, nat)
    BY <1>2, <2>1, <2>2 DEF Heeds
  <2> QED BY <1>1, <1>3, <2>3 DEF Following
<1>4. CASE ~RunsOn(t, mode, lev, nat)
  <2>1. hist[t].told # "CONTINUE"
    BY <1>2, <1>4 DEF RunsOn
  <2>2. hist[t].told = "FINISH" => lev < hist[t].at
    BY <1>0, <1>2, <1>4 DEF RunsOn
  <2>3. hist[t].told = "STEP_OVER" => lev <= hist[t].at
    BY <1>0, <1>2
  <2>4. hist[t].told = "STEP_IN" => lev <= hist[t].at + 1
    BY <1>0, <1>2
  <2>5. hist[t].told \in {"FINISH", "STEP_OVER", "STEP_IN"}
    BY <1>0, <1>2, <2>1 DEF Cmd
  <2>6. Obeys(t)'
    BY <1>1, <2>2, <2>3, <2>4, <2>5 DEF Obeys
  <2> QED BY <1>1, <1>4, <2>6 DEF Following
<1> QED BY <1>3, <1>4

\* Nothing the thread itself does contradicts the command it was told.
LEMMA FollowingOwn ==
    ASSUME Types, NEW t \in Thread, Following(t), Waiting(t), ThreadStep(t) \/ Lock(t)
    PROVE  Following(t)' /\ Waiting(t)'
<1>0. /\ TypeOK /\ hist[t] \in HistType /\ level[t] \in Nat /\ native[t] \in BOOLEAN
      /\ pending \in Cmd /\ pc \in [Thread -> PC] /\ pc[t] \in PC
  BY LevelAssumption DEF Types, TypeOK
<1>1. CASE Original(t)
  <2>1. CASE ~(pc[t] = "orig" /\ call[t].kind \in {"hookPair", "trace"})
    BY <1>1, <2>1, ReturnFollows DEF Original, Within
  <2>2. CASE pc[t] = "orig" /\ call[t].kind \in {"hookPair", "trace"}
    <3>1. /\ pc'[t] \in {"lockLeave", "lockEnter"}
          /\ UNCHANGED <<call, hist, back, runMode, target>>
      BY <1>0, <1>1, <2>2 DEF Original, frameVars
    <3>2. Following(t)' /\ ~Stepping(t)'
      BY <3>1 DEF Following, Stepping
    <3> QED BY <3>1, <3>2, WaitingKept
  <2> QED BY <2>1, <2>2
<1>2. CASE CallbackDone(t)
  <2>1. CASE Return(t)
    BY <1>2, <2>1, ReturnFollows DEF CallbackDone, Within
  <2>2. CASE pc' = [pc EXCEPT ![t] = "orig"] /\ UNCHANGED <<frameVars, back>>
    <3>1. pc'[t] = "orig" /\ UNCHANGED <<call, hist, back, runMode, target>>
      BY <1>0, <1>2, <2>2 DEF CallbackDone, frameVars
    <3>2. Following(t)' /\ ~Stepping(t)'
      BY <3>1 DEF Following, Stepping
    <3> QED BY <3>1, <3>2, WaitingKept
  <2> QED BY <1>2, <2>1, <2>2 DEF CallbackDone
<1>3. CASE Finish(t)
  BY <1>3, ReturnFollows DEF Finish, Within, Stepping
<1>4. CASE NoOnEnter(t)
  <2>1. pc'[t] = "orig" /\ UNCHANGED <<call, hist, back, runMode, target>>
    BY <1>0, <1>4 DEF NoOnEnter, Goto, Quiet, localVars, frameVars
  <2>2. Following(t)' /\ ~Stepping(t)'
    BY <2>1 DEF Following, Stepping
  <2> QED BY <2>1, <2>2, WaitingKept
<1>5. CASE EvalCond(t)
  <2>1. ~hist[t].clean /\ hist'[t] = hist[t] /\ call' = call
    BY <1>5 DEF EvalCond, Following, frameVars
  <2>2. Following(t)'
    BY <2>1 DEF Following
  <2>3. CASE UNCHANGED <<runMode, target, back>> /\ pc'[t] = "skip"
    <3>1. ~Stepping(t)'
      BY <2>3 DEF Stepping
    <3> QED BY <2>2, <2>3, <3>1, WaitingKept
  <2>4. CASE UNCHANGED <<runMode, target, back>> /\ pc'[t] = "hit" /\ call[t].kind = "bpNativeCond"
    <3>1. ~Stepping(t)'
      BY <2>1, <2>4 DEF Stepping, Stepped
    <3> QED BY <2>2, <2>4, <3>1, WaitingKept
  <2>5. CASE Begin(t, back[t])
    <3>1. back'[t] = Forget(back[t]) /\ back[t] \in Seq(FrameType)
      BY <1>0, <2>5 DEF Begin, TypeOK
    <3> QED BY <2>2, <3>1, WaitingForgets
  <2> QED BY <1>0, <1>5, <2>3, <2>4, <2>5 DEF EvalCond
<1>6. CASE View(t)
  <2>1. /\ pc[t] = "view" /\ pc'[t] = "hit" /\ level'[t] = level[t] /\ native'[t] = native[t]
        /\ regsDepth' = (IF native[t] THEN 0 ELSE level[t]) /\ UNCHANGED <<call, back, runMode, target>>
    BY <1>0, <1>6 DEF View, Goto
  <2>2. hist'[t] = [told |-> "NONE", at |-> level[t], clean |-> TRUE]
    BY <1>6 DEF View, Disturb
  <2>3. Following(t)'
    BY <2>1, <2>2 DEF Following
  <2>4. Stepping(t)
    BY <2>1 DEF Stepping
  <2> QED BY <2>1, <2>3, <2>4, WaitingKept
<1>7. CASE Hit(t)
  <2>1. /\ pc[t] = "hit" /\ pc'[t] = "wait" /\ level'[t] = level[t] /\ native'[t] = native[t]
        /\ regsDepth' = regsDepth /\ pending' = "NONE" /\ UNCHANGED <<call, back, runMode, target>>
    BY <1>0, <1>7 DEF Hit, Goto
  <2>2. hist'[t] = hist[t]
    BY <1>0, <1>7, <2>1 DEF Hit, Disturb, TypeOK
  <2>3. Following(t)' /\ (Stepping(t)' => Stepping(t))
    BY <2>1, <2>2 DEF Following, Stepping
  <2> QED BY <2>1, <2>3, WaitingKept
<1>8. CASE Wake(t)
  <2>1. /\ pc[t] = "wait" /\ pc'[t] = (IF call[t].kind \in Stepped THEN "woken" ELSE "skip")
        /\ level'[t] = level[t] /\ native'[t] = native[t]
        /\ pending' = pending /\ pending # "NONE" /\ ~paused' /\ UNCHANGED <<call, back, runMode, target>>
    BY <1>0, <1>8 DEF Wake, Goto
  <2>2. /\ hist'[t].clean = hist[t].clean /\ hist'[t].at = hist[t].at
        /\ hist[t].clean => hist'[t].told = pending
    BY <1>0, <1>8 DEF Wake, TypeOK, HistType
  <2>3. Following(t)' /\ (Stepping(t)' => Stepping(t))
    BY <2>1, <2>2 DEF Following, Stepping
  <2> QED BY <2>1, <2>3, WaitingKept
<1>9. CASE TakeCommand(t)
  <2>1. /\ pc[t] = "woken" /\ pc'[t] = "exec" /\ runMode'[t] = pending /\ level'[t] = level[t]
        /\ native'[t] = native[t] /\ hist'[t] = hist[t] /\ back' = back
        /\ target'[t] = IF pending = "FINISH" /\ ~native[t] THEN level[t] ELSE target[t]
    BY <1>0, <1>9 DEF TakeCommand, Goto, TypeOK, frameVars
  <2>2. Following(t)' /\ Stepping(t)
    BY <1>0, <2>1 DEF Following, Stepping, Heeds
  <2> QED BY <2>1, <2>2, WaitingKept
<1>10. CASE StepIn(t) \/ Exec(t) \/ Leave(t)
  <2>1. Stepping(t) /\ back' = back
    BY <1>10 DEF StepIn, Exec, Leave, Arrive, Stepping
  <2>2. TRUE \in BOOLEAN /\ FALSE \in BOOLEAN /\ level[t] + 1 \in Nat /\ level[t] <= level[t]
        /\ level[t] <= level[t] + 1 /\ level[t] + 1 <= level[t] + 1
        /\ level[t] > 0 => level[t] - 1 \in Nat /\ level[t] - 1 <= level[t]
    BY <1>0
  <2>3. Following(t)'
    <3>0. PICK yes \in BOOLEAN, no \in BOOLEAN : yes = TRUE /\ no = FALSE
      OBVIOUS
    <3>1. CASE StepIn(t)
      <4>1. /\ runMode[t] = "STEP_IN"
            /\ Arrive(t, "NONE", level[t], yes) \/ Arrive(t, "NONE", level[t] + 1, no)
        BY <3>0, <3>1 DEF StepIn
      <4> QED BY <1>0, <2>2, <4>1, ArriveFollows
    <3>2. CASE Exec(t)
      BY <1>0, <2>2, <3>2, ArriveFollows DEF Exec
    <3>3. CASE Leave(t)
      <4>1. \/ Arrive(t, runMode[t], level[t], no)
            \/ level[t] > 0 /\ Arrive(t, runMode[t], level[t] - 1, no)
        BY <3>0, <3>3 DEF Leave
      <4> QED BY <1>0, <2>2, <3>0, <4>1, ArriveFollows
    <3> QED BY <1>10, <3>1, <3>2, <3>3
  <2> QED BY <2>1, <2>3, WaitingKept
<1>11. CASE Lock(t)
  <2>1. /\ pc[t] \in {"lockEnter", "lockLeave", "lockCond", "evalLock", "relock"}
        /\ UNCHANGED <<call, hist, back, runMode, target>> /\ pc'[t] = Locking[pc[t]]
    BY <1>0, <1>11 DEF Lock, Locking, localVars, frameVars
  <2>2. pc'[t] \in {"cbEnter", "cbLeave", "eval", "cond"} /\ (pc'[t] = "cond" => pc[t] = "lockCond")
    BY <2>1 DEF Locking
  <2>3. Following(t)' /\ ~Stepping(t)'
    BY <2>1, <2>2 DEF Following, Stepping
  <2> QED BY <2>1, <2>3, WaitingKept
<1> QED BY <1>1, <1>2, <1>3, <1>4, <1>5, <1>6, <1>7, <1>8, <1>9, <1>10, <1>11 DEF ThreadStep

\* What a step of thread t leaves of another thread u.
LEMMA FollowingOther ==
    ASSUME TypeOK, NEW t \in Thread, NEW u \in Thread, u # t, Following(u), Waiting(u),
           \/ ThreadStep(t) \/ Lock(t)
           \/ \E m \in Method : Call(t, m) \/ ScriptCall(t, m)
    PROVE  Following(u)' /\ Waiting(u)'
<1>0. /\ pc'[u] = pc[u] /\ level'[u] = level[u] /\ native'[u] = native[u] /\ runMode'[u] = runMode[u]
      /\ target'[u] = target[u] /\ back'[u] = back[u] /\ call'[u] = call[u]
  <2>1. CASE Original(t) \/ CallbackDone(t) \/ Finish(t)
    BY <2>1 DEF Original, CallbackDone, Finish, Return, TypeOK, frameVars
  <2>2. CASE NoOnEnter(t) \/ Lock(t)
    BY <2>2 DEF NoOnEnter, Lock, Goto, Quiet, TypeOK, frameVars, localVars
  <2>3. CASE EvalCond(t)
    BY <2>3 DEF EvalCond, Begin, TypeOK, frameVars
  <2>4. CASE View(t) \/ Hit(t) \/ Wake(t) \/ TakeCommand(t)
    BY <2>4 DEF View, Hit, Wake, TakeCommand, Goto, TypeOK, frameVars
  <2>5. CASE StepIn(t) \/ Exec(t) \/ Leave(t)
    BY <2>5 DEF StepIn, Exec, Leave, Arrive, TypeOK
  <2>6. CASE \E m \in Method : Call(t, m) \/ ScriptCall(t, m)
    BY <2>6 DEF Call, ScriptCall, Enter, Begin, TypeOK
  <2> QED BY <2>1, <2>2, <2>3, <2>4, <2>5, <2>6 DEF ThreadStep
<1>1. Waiting(u)'
  <2>1. Stepping(u)' => Stepping(u)
    BY <1>0 DEF Stepping
  <2> QED BY <1>0, <2>1, WaitingKept
<1>2. CASE View(t)
  <2>1. CASE native[u] /\ pc[u] \in {"hit", "wait"}
    <3>1. hist'[u] = NewHist
      BY <1>2, <2>1 DEF View, Disturb
    <3> QED BY <1>1, <3>1, FollowingVoid
  <2>2. CASE ~(native[u] /\ pc[u] \in {"hit", "wait"})
    <3>1. hist'[u] = hist[u] /\ UNCHANGED <<paused, pending>>
      BY <1>2, <2>2 DEF View, Disturb
    <3> QED BY <1>0, <1>1, <2>2, <3>1, FollowingKept
  <2> QED BY <2>1, <2>2
<1>3. CASE Hit(t)
  <2>1. CASE pc[u] = "woken"
    <3>1. hist'[u] = NewHist
      BY <1>3, <2>1 DEF Hit, Disturb
    <3> QED BY <1>1, <3>1, FollowingVoid
  <2>2. CASE pc[u] # "woken"
    <3>1. hist'[u] = hist[u] /\ regsDepth' = regsDepth /\ pending' = "NONE"
      BY <1>3, <2>2 DEF Hit, Disturb
    <3> QED BY <1>0, <1>1, <2>2, <3>1, FollowingKept
  <2> QED BY <2>1, <2>2
<1>4. CASE ~View(t) /\ ~Hit(t)
  <2>1. UNCHANGED <<pending, regsDepth>> /\ (paused' => paused) /\ hist'[u] = hist[u]
    <3>1. CASE Original(t) \/ CallbackDone(t) \/ Finish(t)
      BY <3>1 DEF Original, CallbackDone, Finish, Return, TypeOK, frameVars, debugVars
    <3>2. CASE NoOnEnter(t) \/ Lock(t) \/ EvalCond(t) \/ TakeCommand(t)
      BY <3>2 DEF NoOnEnter, Lock, EvalCond, TakeCommand, Quiet, frameVars, localVars, debugVars
    <3>3. CASE Wake(t)
      BY <3>3 DEF Wake, TypeOK
    <3>4. CASE StepIn(t) \/ Exec(t) \/ Leave(t)
      <4>1. PICK mode, lev, nat : Arrive(t, mode, lev, nat)
        BY <3>4 DEF StepIn, Exec, Leave
      <4> QED BY <4>1 DEF Arrive, debugVars
    <3>5. CASE \E m \in Method : Call(t, m) \/ ScriptCall(t, m)
      BY <3>5 DEF Call, ScriptCall, Enter, TypeOK, debugVars
    <3> QED BY <1>4, <3>1, <3>2, <3>3, <3>4, <3>5 DEF ThreadStep
  <2> QED BY <1>0, <1>1, <2>1, FollowingKept
<1> QED BY <1>2, <1>3, <1>4

\* The operator's commands are given while a thread is paused, not while one is on its way.
LEMMA FollowingServer ==
    ASSUME TypeOK, NEW u \in Thread, Following(u), Waiting(u), ServerStep
    PROVE  Following(u)' /\ Waiting(u)'
<1>0. /\ UNCHANGED <<call, level, native, hist, back, runMode, target, regsDepth, paused>>
      /\ pc'[u] = pc[u] \/ pc'[u] \in PC \ ((Within \cup Resting) \ {"eval", "idle"})
  BY ServerLocals
<1>1. pending' = pending \/ (paused /\ (pending' # "FINISH" \/ regsDepth # 0))
  BY DEF ServerStep, Request, Resume, JsReturn, Release, ClearDone, Install, DetachResume,
         DetachRemove, JsSleep, EvalEnd, Quiet, debugVars
<1>2. CASE pc'[u] = pc[u]
  <2>1. Following(u)'
    BY <1>0, <1>1, <1>2, FollowingKept
  <2>2. Stepping(u)' => Stepping(u)
    BY <1>0, <1>2 DEF Stepping
  <2> QED BY <1>0, <2>1, <2>2, WaitingKept
<1>3. CASE pc'[u] \in PC \ ((Within \cup Resting) \ {"eval", "idle"})
  <2>1. pc'[u] \notin {"lockCond", "cond", "hit", "wait", "woken", "exec", "view"}
    BY <1>3 DEF Within
  <2>2. Following(u)' /\ ~Stepping(u)'
    BY <1>0, <2>1 DEF Following, Stepping
  <2> QED BY <1>0, <2>2, WaitingKept
<1> QED BY <1>0, <1>2, <1>3

\* Every step keeps each frame with the command it follows.
LEMMA StepFollows == Types /\ StepsInv /\ [Next]_vars => StepsInv'
<1> SUFFICES ASSUME Types, StepsInv, [Next]_vars, NEW u \in Thread PROVE Following(u)' /\ Waiting(u)'
  BY DEF StepsInv
<1>0. TypeOK /\ Following(u) /\ Waiting(u)
  BY DEF StepsInv, Types
<1>1. ASSUME NEW t \in Thread, ThreadStep(t) \/ Lock(t) PROVE Following(u)' /\ Waiting(u)'
  <2>1. CASE u = t
    BY <1>0, <1>1, <2>1, FollowingOwn
  <2>2. CASE u # t
    BY <1>0, <1>1, <2>2, FollowingOther
  <2> QED BY <2>1, <2>2
<1>2. ASSUME NEW t \in Thread, NEW m \in Method, Call(t, m) \/ ScriptCall(t, m)
      PROVE  Following(u)' /\ Waiting(u)'
  <2>1. CASE u = t
    BY <1>0, <1>2, <2>1, CallFollows
  <2>2. CASE u # t
    BY <1>0, <1>2, <2>2, FollowingOther
  <2> QED BY <2>1, <2>2
<1>3. CASE ServerStep
  BY <1>0, <1>3, FollowingServer
<1>4. CASE UNCHANGED vars
  BY <1>0, <1>4 DEF vars, debugVars, localVars, frameVars, Following, Waiting, Stepping, Obeys
<1> QED BY <1>1, <1>2, <1>3, <1>4 DEF Next, ServerStep

\* For any number of threads, methods and frames: a thread stops where its command says and
\* nowhere else, whatever other threads do and whatever it meets on the way, unless the
\* debugger has forgotten the command for one of the three reasons.
THEOREM CommandsObeyed == Spec => StepsExactly
<1>1. Init => StepsInv
  BY DEF Init, StepsInv, Following, Waiting, NewHist
<1>2. StepsInv => \A t \in Thread : View(t) /\ hist[t].clean => Obeys(t)
  BY DEF StepsInv, Following, View, Goto
<1> QED BY <1>1, <1>2, InitType, StepTypes, StepFollows, PTL DEF Spec, StepsExactly

=============================================================================
