----------------------------- MODULE AgentDebug -----------------------------
(***************************************************************************)
(* The debugger of the agent (src/agent/agent_debug.cpp) and the lock of   *)
(* its JavaScript engine, g_jsMutex.  Application threads call methods     *)
(* that carry a breakpoint, a hook or a trace; the callbacks run on the    *)
(* calling thread.  The server thread evaluates the operator's scripts:    *)
(* they arm and drop instrumentation, and resume paused threads.           *)
(*                                                                         *)
(* One step is one critical section of g_debugMutex or g_bpMutex, or what  *)
(* a thread does between two of them.  All threads that are paused share   *)
(* one flag (paused), one command (pending) and one register snapshot.     *)
(***************************************************************************)
EXTENDS Naturals, FiniteSets, Sequences

CONSTANTS
    App,        \* application threads
    Server,     \* the thread that evaluates scripts
    NoThread,
    Method,     \* methods and native addresses that may be instrumented
    NoMethod,
    MaxLevel,   \* bound on the interpreter frames a debugged call may stack up
    Meets,      \* instrumentation of the methods that each thread, or a script on
                \* the server thread, calls
    CbMeets,    \* the same, for the methods called by a callback or a condition
    Arms        \* instrumentation the operator's scripts install, by method

Thread == App \cup {Server}

\* What a method carries.  "bp": an unconditional breakpoint on a Java method,
\* stepped by the interpreter.  "bpNative": a breakpoint on a native method or
\* address, which only pauses.  "bpCond", "bpNativeCond": the same with a
\* condition.  "hook": one callback.  "hookPair": onEnter and onLeave.  "trace":
\* a traced method with callbacks.
Stepped == {"bp", "bpCond"}
Breakpoint == Stepped \cup {"bpNative", "bpNativeCond"}
Kind == Breakpoint \cup {"hook", "hookPair", "trace"}

\* DebugStepCommand
Cmd == {"NONE", "STEP_IN", "STEP_OVER", "CONTINUE", "FINISH"}

ASSUME ThreadAssumption == Server \notin App /\ NoThread \notin Thread
ASSUME MethodAssumption == NoMethod \notin Method
ASSUME LevelAssumption == MaxLevel \in Nat
ASSUME MeetsAssumption == /\ Meets \in [Thread -> SUBSET Kind]
                          /\ CbMeets \subseteq Kind
                          /\ Arms \in [Method -> SUBSET Kind]

VARIABLES
    inst,      \* instrumentation of each method
    jsOwner,   \* holder of g_jsMutex
    jsDepth,   \* t_jsReentrancyDepth of each thread
    paused,    \* g_isThreadPaused
    pending,   \* g_pendingCommand
    pausedIn,  \* g_pausedArtMethod
    regsDepth, \* g_pausedRegs.depth
    pc,        \* where each thread is
    call,      \* the instrumented call a thread is in: method and kind
    back,      \* the frames that the lambdas each thread is in return to
    runMode,   \* t_runMode, one for all the lambdas a thread is in
    target,    \* t_targetDepth + 1, likewise
    level,     \* depth of the interpreter's current frame
    native,    \* a native callee is being stepped by QBDI
    want,      \* what the server arms once the old instrumentation is released
    hist       \* history: see Obeys

debugVars == <<paused, pending, pausedIn, regsDepth>>
frameVars == <<call, level, native, hist>>
localVars == <<frameVars, back, runMode, target>>
vars == <<inst, jsOwner, jsDepth, debugVars, pc, localVars, want>>

NoCall == [m |-> NoMethod, kind |-> "none"]
NewHist == [told |-> "NONE", at |-> 0, clean |-> FALSE]

Init ==
    /\ inst = [m \in Method |-> "none"]
    /\ jsOwner = NoThread
    /\ jsDepth = [t \in Thread |-> 0]
    /\ paused = FALSE /\ pending = "NONE" /\ pausedIn = NoMethod
    /\ regsDepth = 0
    /\ pc = [t \in Thread |-> "idle"]
    /\ call = [t \in Thread |-> NoCall]
    /\ back = [t \in Thread |-> <<>>]
    /\ runMode = [t \in Thread |-> "NONE"]
    /\ target = [t \in Thread |-> 0]
    /\ level = [t \in Thread |-> 0]
    /\ native = [t \in Thread |-> FALSE]
    /\ want = NoCall
    /\ hist = [t \in Thread |-> NewHist]

Goto(t, from, to) ==
    /\ pc[t] = from
    /\ pc' = [pc EXCEPT ![t] = to]

-----------------------------------------------------------------------------
(* Calls of instrumented methods.                                          *)

\* First step of each kind's lambda on a thread whose t_jsReentrancyDepth is d.
\* The hook lambdas and EvalCond let a thread that executes JS pass through;
\* the trace lambda (CallJsCb1) and an unconditional breakpoint do not ask.
Entry(k, d) ==
    CASE k \in {"hook", "hookPair"} -> IF d > 0 THEN "skip" ELSE "lockEnter"
      [] k \in {"bpCond", "bpNativeCond"} -> IF d > 0 THEN "skip" ELSE "lockCond"
      [] k = "trace"                -> "lockEnter"
      [] k = "bp"                   -> "view"
      [] k = "bpNative"             -> "hit"

\* The lambda of a stepped breakpoint begins: t_runMode and t_targetDepth are
\* reset, those of the breakpoints this thread is stepping already with them.
Forget(f) == [i \in 1 .. Len(f) |-> [f[i] EXCEPT !.hist = NewHist]]
Begin(t, f) ==
    /\ runMode' = [runMode EXCEPT ![t] = "NONE"]
    /\ target' = [target EXCEPT ![t] = 0]
    /\ back' = [back EXCEPT ![t] = Forget(f)]

\* Where a thread is, to come back to.
Frame(t) == [pc |-> pc[t], call |-> call[t], level |-> level[t], native |-> native[t],
             hist |-> hist[t]]

\* The lambdas that are active on a thread (tl_active_hooks).
Active(t) == {call[t].m} \cup {back[t][i].call.m : i \in 1 .. Len(back[t])}

\* A method is called and its trampoline runs the lambda installed at that moment,
\* unless that lambda is active on the thread already.
Enter(t, m) ==
    /\ m \notin Active(t)
    /\ pc' = [pc EXCEPT ![t] = Entry(inst[m], jsDepth[t])]
    /\ call' = [call EXCEPT ![t] = [m |-> m, kind |-> inst[m]]]
    /\ level' = [level EXCEPT ![t] = 0]
    /\ native' = [native EXCEPT ![t] = FALSE]
    /\ hist' = [hist EXCEPT ![t] = NewHist]
    /\ LET f == Append(back[t], Frame(t))
       IN IF inst[m] = "bp" THEN Begin(t, f)
          ELSE back' = [back EXCEPT ![t] = f] /\ UNCHANGED <<runMode, target>>
    /\ UNCHANGED <<inst, jsOwner, jsDepth, debugVars, want>>

\* The application calls a method: from code that carries nothing, from the body of
\* a method that does, or from a method that is being stepped, by an invoke that is
\* JniDirect or from the native callee.
Call(t, m) ==
    /\ t \in App
    /\ pc[t] \in {"idle", "orig", "skip"} \/ (pc[t] = "exec" /\ (native[t] \/ runMode[t] # "STEP_IN"))
    /\ inst[m] \in Meets[t]
    /\ Enter(t, m)

\* A script, a callback or a condition calls a method (__native_jcall).
ScriptCall(t, m) ==
    /\ \/ pc[t] = "eval" /\ inst[m] \in Meets[t]
       \/ pc[t] \in {"cbEnter", "cbLeave", "cond"} /\ inst[m] \in CbMeets
    /\ Enter(t, m)

\* The lambda returns to its caller.
Return(t) ==
    LET f == back[t][Len(back[t])]
    IN /\ pc' = [pc EXCEPT ![t] = f.pc]
       /\ call' = [call EXCEPT ![t] = f.call]
       /\ level' = [level EXCEPT ![t] = f.level]
       /\ native' = [native EXCEPT ![t] = f.native]
       /\ hist' = [hist EXCEPT ![t] = f.hist]
       /\ back' = [back EXCEPT ![t] = SubSeq(@, 1, Len(@) - 1)]

\* invokeOriginal outside of the lock, then, for a pair of callbacks and for
\* a trace, onLeave; a trace may also call onInsn, under the lock, while the
\* interpreter runs the method.  A skipped callback skips onLeave as well.
Original(t) ==
    /\ pc[t] \in {"orig", "skip"}
    /\ \/ /\ pc[t] = "orig" /\ call[t].kind \in {"hookPair", "trace"}
          /\ \/ pc' = [pc EXCEPT ![t] = "lockLeave"]
             \/ call[t].kind = "trace" /\ pc' = [pc EXCEPT ![t] = "lockEnter"]
          /\ UNCHANGED <<frameVars, back>>
       \/ /\ ~(pc[t] = "orig" /\ call[t].kind \in {"hookPair", "trace"})
          /\ Return(t)
    /\ UNCHANGED <<inst, jsOwner, jsDepth, debugVars, runMode, target, want>>

-----------------------------------------------------------------------------
(* Callbacks in JavaScript.                                                *)

Quiet == UNCHANGED <<inst, jsDepth, debugVars, localVars, want>>

\* onEnter is optional in a pair.
NoOnEnter(t) ==
    /\ Goto(t, "lockEnter", "orig")
    /\ call[t].kind = "hookPair"
    /\ UNCHANGED jsOwner
    /\ Quiet

\* Where each wait for g_jsMutex leads.
Locking == [lockEnter |-> "cbEnter", lockLeave |-> "cbLeave",
            lockCond |-> "cond", evalLock |-> "eval", relock |-> "eval"]

\* std::lock_guard(g_jsMutex): blocks while the lock is held, by the thread
\* itself too.  EvalJs then counts the thread as one that executes JS.
Lock(t) ==
    /\ pc[t] \in DOMAIN Locking
    /\ jsOwner = NoThread
    /\ jsOwner' = t
    /\ pc' = [pc EXCEPT ![t] = Locking[pc[t]]]
    /\ jsDepth' = [jsDepth EXCEPT ![t] = IF pc[t] = "evalLock" THEN 1 ELSE @]
    /\ UNCHANGED <<inst, debugVars, localVars, want>>

\* The callback returns and the lock is released.  A single callback may
\* override the result, which skips the original.
CallbackDone(t) ==
    /\ pc[t] \in {"cbEnter", "cbLeave"}
    /\ jsOwner' = NoThread
    /\ \/ /\ pc[t] = "cbEnter"
          /\ pc' = [pc EXCEPT ![t] = "orig"]
          /\ UNCHANGED <<frameVars, back>>
       \/ /\ pc[t] = "cbLeave" \/ call[t].kind = "hook"
          /\ Return(t)
    /\ UNCHANGED <<inst, jsDepth, debugVars, runMode, target, want>>

\* The condition is evaluated and the lock released; an exception is false.
EvalCond(t) ==
    /\ pc[t] = "cond"
    /\ jsOwner' = NoThread
    /\ \/ /\ pc' = [pc EXCEPT ![t] = "skip"]
          /\ UNCHANGED <<runMode, target, back>>
       \/ /\ call[t].kind = "bpNativeCond"
          /\ pc' = [pc EXCEPT ![t] = "hit"]
          /\ UNCHANGED <<runMode, target, back>>
       \/ /\ call[t].kind = "bpCond"
          /\ pc' = [pc EXCEPT ![t] = "view"]
          /\ Begin(t, back[t])
    /\ UNCHANGED <<inst, jsDepth, debugVars, frameVars, want>>

-----------------------------------------------------------------------------
(* The breakpoint lambda: smali and native stepping.                       *)

\* What the threads in us were told is void.
Disturb(us) == [u \in Thread |-> IF u \in us THEN NewHist ELSE hist[u]]

\* onInsn and the QBDI instruction callback at the next instruction: in frame
\* lev, or in a stepped native callee (nat), with command mode.
RunsOn(t, mode, lev, nat) ==
    \/ mode = "CONTINUE"
    \/ mode = "FINISH" /\ (nat \/ lev + 1 > target[t])

Arrive(t, mode, lev, nat) ==
    /\ pc[t] = "exec"
    /\ pc' = [pc EXCEPT ![t] = IF RunsOn(t, mode, lev, nat) THEN "exec" ELSE "view"]
    /\ runMode' = [runMode EXCEPT ![t] =
                     IF mode = "FINISH" /\ ~RunsOn(t, mode, lev, nat) THEN "NONE" ELSE mode]
    /\ level' = [level EXCEPT ![t] = lev]
    /\ native' = [native EXCEPT ![t] = nat]
    /\ UNCHANGED <<inst, jsOwner, jsDepth, debugVars, call, back, target, want, hist>>

\* FormatSmaliStepView and FormatNativeStepView: the snapshot is stored in
\* its own critical section, before OnBreakpointHit takes the lock again.
View(t) ==
    /\ Goto(t, "view", "hit")
    /\ regsDepth' = IF native[t] THEN 0 ELSE level[t]
    /\ hist' = [Disturb({u \in Thread : native[u] /\ pc[u] \in {"hit", "wait"}}) EXCEPT
                  ![t] = [told |-> "NONE", at |-> level[t], clean |-> TRUE]]
    /\ UNCHANGED <<inst, jsOwner, jsDepth, paused, pending, pausedIn, call, level, native,
                   back, runMode, target, want>>

\* The method OnBreakpointHit is told: that of the frame, which is the
\* breakpoint's own only in the top frame.
Shown(t) == IF level[t] = 0 /\ ~native[t] THEN call[t].m ELSE NoMethod

\* OnBreakpointHit up to the wait.
Hit(t) ==
    /\ Goto(t, "hit", "wait")
    /\ paused' = TRUE
    /\ pending' = "NONE"
    /\ pausedIn' = IF call[t].kind \in Stepped THEN Shown(t) ELSE call[t].m
    /\ hist' = Disturb({u \in Thread : pc[u] = "woken"})
    /\ UNCHANGED <<inst, jsOwner, jsDepth, regsDepth, call, level, native, back, runMode, target,
                   want>>

\* Mutant: the thread that wakes consumes the command.
WakeConsumes(t) ==
    /\ pending # "NONE"
    /\ Goto(t, "wait", IF call[t].kind \in Stepped THEN "woken" ELSE "skip")
    /\ paused' = FALSE
    /\ pausedIn' = NoMethod
    /\ pending' = "NONE"
    /\ hist' = [hist EXCEPT ![t].told = IF hist[t].clean THEN pending ELSE "NONE"]
    /\ UNCHANGED <<inst, jsOwner, jsDepth, regsDepth, call, level, native, back, runMode, target,
                   want>>

\* The wait ends once a command is pending, whoever it was meant for; the
\* command stays.
Wake(t) ==
    /\ pending # "NONE"
    /\ Goto(t, "wait", IF call[t].kind \in Stepped THEN "woken" ELSE "skip")
    /\ paused' = FALSE
    /\ pausedIn' = NoMethod
    /\ hist' = [hist EXCEPT ![t].told = IF hist[t].clean THEN pending ELSE "NONE"]
    /\ UNCHANGED <<inst, jsOwner, jsDepth, pending, regsDepth, call, level, native, back, runMode,
                   target, want>>

\* t_runMode = g_pendingCommand, read without the lock.
TakeCommand(t) ==
    /\ Goto(t, "woken", "exec")
    /\ runMode' = [runMode EXCEPT ![t] = pending]
    /\ target' = [target EXCEPT ![t] =
                    IF pending = "FINISH" /\ ~native[t] THEN level[t] ELSE @]
    /\ UNCHANGED <<inst, jsOwner, jsDepth, debugVars, frameVars, back, want>>

\* Mutant: any command but CONTINUE enters the callee.
StepInAlways(t) ==
    /\ ~native[t]
    /\ runMode[t] # "CONTINUE"
    /\ \/ Arrive(t, "NONE", level[t], TRUE)
       \/ level[t] < MaxLevel /\ Arrive(t, "NONE", level[t] + 1, FALSE)

\* onInvoke with STEP_IN: a native callee is stepped by QBDI, a Java callee
\* gets a frame of its own.
StepIn(t) ==
    /\ ~native[t]
    /\ runMode[t] = "STEP_IN"
    /\ \/ Arrive(t, "NONE", level[t], TRUE)
       \/ level[t] < MaxLevel /\ Arrive(t, "NONE", level[t] + 1, FALSE)

\* Any other instruction; an invoke without STEP_IN is JniDirect and shows
\* none of the callee's instructions.
Exec(t) == Arrive(t, runMode[t], level[t], native[t])

\* The current frame returns, or the stepped native function does.
Leave(t) ==
    \/ native[t] /\ Arrive(t, runMode[t], level[t], FALSE)
    \/ ~native[t] /\ level[t] > 0 /\ Arrive(t, runMode[t], level[t] - 1, FALSE)

\* The top frame returns: invokeInterpretedWith ends.
Finish(t) ==
    /\ pc[t] = "exec" /\ ~native[t] /\ level[t] = 0
    /\ Return(t)
    /\ runMode' = [runMode EXCEPT ![t] = "NONE"]
    /\ UNCHANGED <<inst, jsOwner, jsDepth, debugVars, target, want>>

-----------------------------------------------------------------------------
(* Scripts on the server thread.                                           *)

\* A request arrives and EvalJs asks for the lock.
Request ==
    /\ Goto(Server, "idle", "evalLock")
    /\ UNCHANGED jsOwner
    /\ Quiet

\* c, s and n.
Resume(c) ==
    /\ pc[Server] = "eval" /\ paused
    /\ c \in {"CONTINUE", "STEP_IN", "STEP_OVER"}
    /\ pending' = c
    /\ UNCHANGED <<inst, jsOwner, jsDepth, paused, pausedIn, regsDepth, pc, localVars,
                   want>>

\* r: by the depth of the last snapshot.
JsReturn ==
    /\ pc[Server] = "eval" /\ paused
    /\ pending' = IF regsDepth = 0 THEN "CONTINUE" ELSE "FINISH"
    /\ UNCHANGED <<inst, jsOwner, jsDepth, paused, pausedIn, regsDepth, pc, localVars,
                   want>>

\* hook, trace and brkj first release what the method carries.  A thread paused in
\* the method's own breakpoint is told to continue before that is torn down.
Release(m, k) ==
    /\ pc[Server] = "eval"
    /\ want' = [m |-> m, kind |-> k]
    /\ IF inst[m] \in Breakpoint /\ paused /\ pausedIn = m
       THEN /\ pending' = "CONTINUE"
            /\ pc' = [pc EXCEPT ![Server] = "clearWait"]
            /\ UNCHANGED inst
       ELSE /\ inst' = [inst EXCEPT ![m] = "none"]
            /\ pc' = [pc EXCEPT ![Server] = "install"]
            /\ UNCHANGED pending
    /\ UNCHANGED <<jsOwner, jsDepth, paused, pausedIn, regsDepth, localVars>>

\* Mutant: the wait is repeated as long as some thread is paused.
ClearDoneLoop ==
    /\ pc[Server] = "clearWait"
    /\ IF paused
       THEN UNCHANGED vars
       ELSE /\ Goto(Server, "clearWait", "install")
            /\ inst' = [inst EXCEPT ![want.m] = "none"]
            /\ UNCHANGED <<jsOwner, jsDepth, debugVars, localVars, want>>

\* The wait for the paused thread ends when it has left or after 200 ms.
ClearDone ==
    /\ Goto(Server, "clearWait", "install")
    /\ inst' = [inst EXCEPT ![want.m] = "none"]
    /\ UNCHANGED <<jsOwner, jsDepth, debugVars, localVars, want>>

\* After the drain of the calls in flight, at most 50 ms, the new lambda is
\* installed.  "none": it could not be, and what was released stays released.
Install ==
    /\ Goto(Server, "install", "eval")
    /\ inst' = [inst EXCEPT ![want.m] = want.kind]
    /\ want' = NoCall
    /\ UNCHANGED <<jsOwner, jsDepth, debugVars, localVars>>

\* D() and bpunhookall: DebugDetachAll first resumes, then removes.
DetachResume(all) ==
    /\ Goto(Server, "eval", "detach")
    /\ pending' = IF paused THEN "CONTINUE" ELSE pending
    /\ want' = [m |-> NoMethod, kind |-> IF all THEN "hook" ELSE "bp"]
    /\ UNCHANGED <<inst, jsOwner, jsDepth, paused, pausedIn, regsDepth, localVars>>

DetachRemove ==
    /\ Goto(Server, "detach", "eval")
    /\ inst' = [m \in Method |-> IF want.kind = "hook" \/ inst[m] \in Breakpoint
                                 THEN "none" ELSE inst[m]]
    /\ want' = NoCall
    /\ UNCHANGED <<jsOwner, jsDepth, debugVars, localVars>>

\* sleep() gives the lock up and takes it again.
JsSleep ==
    /\ Goto(Server, "eval", "relock")
    /\ jsOwner' = NoThread
    /\ Quiet

\* The script ends.
EvalEnd ==
    /\ Goto(Server, "eval", "idle")
    /\ jsOwner' = NoThread
    /\ jsDepth' = [jsDepth EXCEPT ![Server] = 0]
    /\ UNCHANGED <<inst, debugVars, localVars, want>>

-----------------------------------------------------------------------------
\* What a thread does by itself once it is in a lambda.
ThreadStep(t) ==
    \/ Original(t) \/ NoOnEnter(t) \/ CallbackDone(t) \/ EvalCond(t)
    \/ View(t) \/ Hit(t) \/ Wake(t) \/ TakeCommand(t)
    \/ StepIn(t) \/ Exec(t) \/ Leave(t) \/ Finish(t)

Next ==
    \/ \E t \in Thread : ThreadStep(t) \/ Lock(t)
    \/ \E t \in Thread, m \in Method : Call(t, m) \/ ScriptCall(t, m)
    \/ Request
    \/ \E c \in Cmd : Resume(c)
    \/ JsReturn
    \/ \E m \in Method : \E k \in Arms[m] \cup {"none"} : Release(m, k)
    \/ ClearDone \/ Install
    \/ \E all \in BOOLEAN : DetachResume(all)
    \/ DetachRemove \/ JsSleep \/ EvalEnd

Spec == Init /\ [][Next]_vars

\* Threads that are not blocked run; the server thread gets g_jsMutex if it is
\* released again and again.
Fairness ==
    /\ \A t \in App : WF_vars(ThreadStep(t))
    /\ WF_vars(ThreadStep(Server) \/ ClearDone \/ Install \/ DetachRemove)
    /\ SF_vars(Lock(Server))

FairSpec == Spec /\ Fairness

-----------------------------------------------------------------------------
(* Properties.                                                             *)

PC == {"idle", "lockEnter", "cbEnter", "orig", "skip", "lockLeave",
       "cbLeave", "lockCond", "cond", "view", "hit",
       "wait", "woken", "exec", "evalLock", "eval", "relock", "clearWait", "install", "detach"}
HistType == [told : Cmd, at : 0 .. MaxLevel, clean : BOOLEAN]
CallType == [m : Method \cup {NoMethod}, kind : Kind \cup {"none"}]

FrameType == [pc : PC, call : CallType, level : 0 .. MaxLevel, native : BOOLEAN,
              hist : HistType]

\* Types of the debugger's globals and of each thread's locals.
TypeOK ==
    /\ inst \in [Method -> Kind \cup {"none"}]
    /\ jsOwner \in Thread \cup {NoThread}
    /\ jsDepth \in [Thread -> {0, 1}]
    /\ paused \in BOOLEAN /\ pending \in Cmd /\ pausedIn \in Method \cup {NoMethod}
    /\ regsDepth \in 0 .. MaxLevel
    /\ pc \in [Thread -> PC]
    /\ call \in [Thread -> CallType]
    /\ back \in [Thread -> Seq(FrameType)]
    /\ runMode \in [Thread -> Cmd]
    /\ target \in [Thread -> 0 .. MaxLevel]
    /\ level \in [Thread -> 0 .. MaxLevel]
    /\ native \in [Thread -> BOOLEAN]
    /\ want \in CallType
    /\ hist \in [Thread -> HistType]

\* No thread sleeps in OnBreakpointHit out of the operator's reach: as long as
\* one does, either a command is pending that it will see when it runs, or
\* g_isThreadPaused is set, so that the next command is accepted.
NoStrandedThread ==
    (\E t \in Thread : pc[t] = "wait") => paused \/ pending # "NONE"

\* "Guarded callbacks skip the JS invocation and just pass through": the thread that
\* holds g_jsMutex neither waits for it nor sleeps at a breakpoint, from where only a
\* script could wake it, whatever the script or the callback it executes calls.
JsNeverBlocks ==
    \A t \in Thread :
        jsOwner = t => pc[t] \notin DOMAIN Locking \cup {"wait"}

\* Stepping is exact: from the pause that took the command to the next one of the
\* same call, `n` never enters a callee, `r` leaves the frame, `s` enters at most
\* one frame and `c` never pauses again, whatever other threads do and whatever
\* hooks and native breakpoints the stepped code meets itself.  Three things make the
\* debugger forget a command: another thread's pause just before the command is
\* read again, a second stepped breakpoint that the stepped code meets, and, for a
\* pause in a native callee, another thread's snapshot, by which `r` then goes.
Obeys(t) ==
    CASE hist[t].told = "CONTINUE"  -> FALSE
      [] hist[t].told = "FINISH"    -> level[t] < hist[t].at
      [] hist[t].told = "STEP_OVER" -> level[t] <= hist[t].at
      [] hist[t].told = "STEP_IN"   -> level[t] <= hist[t].at + 1
      [] OTHER                      -> TRUE
StepsExactly == [][\A t \in Thread : View(t) /\ hist[t].clean => Obeys(t)]_vars

\* Every request is evaluated, and every operation of a script returns to it:
\* neither the callbacks of other threads, nor threads that pause, nor the
\* clearing of a breakpoint keep the server thread for ever.
ScriptRuns ==
    (pc[Server] \notin {"idle", "eval"}) ~> (pc[Server] = "eval")
=============================================================================
