------------------------------ MODULE PineHook ------------------------------
(***************************************************************************)
(* Hooking one Java method through Pine (engine/pine, engine/trampoline)   *)
(* as PI::Method::hook and HookHandle::unhook use it: the entry point of   *)
(* the ArtMethod, the first bytes of its code, the trampolines made for    *)
(* it, its entry in g_method_hooks, and the threads that call it.          *)
(*                                                                         *)
(* The scripts that hook and unhook are serialised by g_jsMutex, and each  *)
(* first releases what the method carries; so one handle is live at a      *)
(* time and the hooking side is one sequence of steps (api).  One step is  *)
(* one access to the entry point, to the patched bytes or to the registry; *)
(* only InstallInline reads the first and writes the second in one.        *)
(***************************************************************************)
EXTENDS Integers, FiniteSets

CONSTANTS
    Thread,     \* threads that call the method
    MaxHooks,   \* bound on the trampolines made for the method
    MaxDepth,   \* bound on the calls a thread has on its stack
    CrowdHooks, \* bound on the hooks during which several threads may be in calls
    Recursive,  \* threads on which the method's body calls the method again
    Inlinable,  \* the sets of addresses that CannotSafeInlineHook may let pass
    Fails       \* whether making memory writable, or allocating it, may fail

ASSUME HooksAssumption == MaxHooks \in Nat \ {0}
ASSUME DepthAssumption == MaxDepth \in Nat \ {0, 1}
ASSUME CrowdAssumption == CrowdHooks \in Nat
ASSUME RecursiveAssumption == Recursive \subseteq Thread
ASSUME InlinableAssumption == Inlinable \subseteq SUBSET (0 .. MaxHooks)
ASSUME FailsAssumption == Fails \in BOOLEAN

\* Code that can be jumped to: 0 is the method's own compiled code or the
\* runtime's interpreter bridge, n > 0 the n-th native bridge trampoline.  "raw"
\* is the backup trampoline that runs it past the bytes an inline hook patches.
\* A backup of bytes that cannot be relocated is garbage (-1): a thread that
\* jumps there takes no further step.
Addr == [at : -1 .. MaxHooks, raw : BOOLEAN]
Code == [at |-> 0, raw |-> FALSE]
Bridge(n) == [at |-> n, raw |-> FALSE]

\* The calls of one thread.  "jump" is about to execute addr; the dispatcher is
\* active from "enter" to "leave"; "done" is a call whose trampoline has no hook.
Dispatching == {"enter", "swap", "set", "call", "jni", "restore", "leave"}
Pc == {"none", "jump", "body", "done"} \cup Dispatching
Frame == [pc : Pc,
          own : BOOLEAN,       \* a call of its own, or the original of the frame below
          addr : Addr,
          origin : Addr,       \* CallFrame::origin_entry
          bare : BOOLEAN,      \* hooked without class and jmethodID
          cur : Addr,          \* cur_entry of invokeOriginalInternal
          ret : {"enter", "leave"},
          custom : BOOLEAN,    \* has_custom_result
          invoked : BOOLEAN,   \* original_invoked
          nested : BOOLEAN,    \* the body has made its recursive call
          ran : 0 .. 2]        \* how often the original's body has run
NewFrame(own, a) ==
    [pc |-> "jump", own |-> own, addr |-> a, origin |-> Code, bare |-> FALSE,
     cur |-> Code, ret |-> "leave", custom |-> FALSE, invoked |-> FALSE,
     nested |-> FALSE, ran |-> 0]
NoFrame == [NewFrame(TRUE, Code) EXCEPT !.pc = "none"]

\* No hook or unhook is under way; a handle that is not hooked.
Idle == [pc |-> "idle", again |-> FALSE, bare |-> FALSE, retry |-> FALSE, code |-> Code]
NoHandle == [hooked |-> FALSE, inline |-> FALSE, entry |-> Code]

VARIABLES
    entry,      \* entry_point_from_compiled_code_ of the ArtMethod
    patch,      \* the trampoline that the first bytes at an address jump to, or 0
    inlinable,  \* the one of these sets that holds for the method
    n,          \* native bridge trampolines made so far
    origin,     \* the origin entry written into each of them
    hooks,      \* the method's entry in g_method_hooks
    handle,     \* HookHandle::Impl of the last hook
    api,        \* where the hooking side is
    stack,      \* frames of each thread, the first one outermost
    depth,      \* how many of them are in use
    calm        \* auxiliary: no hooking step, second call or failure has met a
                \* swapped entry point so far

method == <<entry, patch, inlinable, n, origin, hooks, handle, api>>
vars == <<method, stack, depth, calm>>

TypeOK ==
    /\ entry \in Addr
    /\ patch \in [0 .. MaxHooks -> 0 .. MaxHooks]
    /\ inlinable \subseteq 0 .. MaxHooks
    /\ n \in 0 .. MaxHooks
    /\ origin \in [1 .. MaxHooks -> Addr]
    /\ hooks \in {"none", "jni", "bare"}
    /\ handle \in [hooked : BOOLEAN, inline : BOOLEAN, entry : Addr]
    /\ api \in [pc : {"idle", "restore", "unregister", "save", "register",
                      "install", "backup", "replace", "publish"},
                again : BOOLEAN, bare : BOOLEAN, retry : BOOLEAN, code : Addr]
    /\ stack \in [Thread -> [1 .. MaxDepth -> Frame]]
    /\ depth \in [Thread -> 0 .. MaxDepth]
    /\ \A t \in Thread, i \in 1 .. MaxDepth :
          (stack[t][i].pc = "none") <=> (i > depth[t])
    /\ calm \in BOOLEAN

Init ==
    /\ entry = Code
    /\ patch = [a \in 0 .. MaxHooks |-> 0]
    /\ inlinable \in Inlinable
    /\ n = 0
    /\ origin = [b \in 1 .. MaxHooks |-> Code]
    /\ hooks = "none"
    /\ handle = NoHandle
    /\ api = Idle
    /\ stack = [t \in Thread |-> [i \in 1 .. MaxDepth |-> NoFrame]]
    /\ depth = [t \in Thread |-> 0]
    /\ calm = TRUE

----------------------------------------------------------------------------
\* Threads that call the method

\* The innermost frame of t, and t's stack with that frame replaced.
Top(t) == stack[t][depth[t]]
SetTop(t, f) == stack' = [stack EXCEPT ![t][depth[t]] = f]
At(t, p) == depth[t] > 0 /\ Top(t).pc = p

\* t's stack with its innermost frame replaced by f and g pushed on top.
Push(t, f, g) ==
    /\ stack' = [stack EXCEPT ![t] =
                    [i \in 1 .. MaxDepth |->
                        CASE i = depth[t]     -> f
                          [] i = depth[t] + 1 -> g
                          [] OTHER            -> stack[t][i]]]
    /\ depth' = [depth EXCEPT ![t] = depth[t] + 1]

\* t's stack without its innermost frame, and the one below replaced by f.
Pop(t, f) ==
    /\ stack' = [stack EXCEPT ![t] =
                    [i \in 1 .. MaxDepth |->
                        CASE i = depth[t]     -> NoFrame
                          [] i = depth[t] - 1 -> f
                          [] OTHER            -> stack[t][i]]]
    /\ depth' = [depth EXCEPT ![t] = depth[t] - 1]

\* tl_active_hooks holds the method on thread t.
Active(t) == \E i \in 1 .. MaxDepth : stack[t][i].pc \in Dispatching

\* t has replaced the entry point, or is about to with a value it has read.
Swapping(t) == \E i \in 1 .. MaxDepth :
                  /\ stack[t][i].pc \in {"set", "call", "jni", "restore"}
                  /\ ~stack[t][i].bare

Alone(t) == \A u \in Thread \ {t} : depth[u] = 0

\* A call of the method, from outside or once from the method's own body: ART
\* goes where the entry point leads.
Call(t) ==
    /\ depth[t] + 1 < MaxDepth
    /\ Alone(t) \/ n + (IF api.again THEN 1 ELSE 0) <= CrowdHooks
    /\ \/ depth[t] = 0
       \/ t \in Recursive /\ At(t, "body") /\ ~Top(t).nested
    /\ Push(t, [Top(t) EXCEPT !.nested = TRUE], NewFrame(TRUE, entry))
    /\ UNCHANGED <<method, calm>>

\* A direct jump written over the first bytes leads to a trampoline.
FollowPatch(t) ==
    /\ At(t, "jump")
    /\ LET a == Top(t).addr IN
          /\ ~a.raw /\ a.at >= 0 /\ patch[a.at] # 0
          /\ SetTop(t, [Top(t) EXCEPT !.addr = Bridge(patch[a.at])])
    /\ UNCHANGED <<method, depth, calm>>

\* What executes at address a now: not a patched address and not garbage.
Executes(a) == a.at >= 0 /\ (a.raw \/ patch[a.at] = 0)

RunBody(t) ==
    /\ At(t, "jump") /\ Executes(Top(t).addr) /\ Top(t).addr.at = 0
    /\ SetTop(t, [Top(t) EXCEPT !.pc = "body", !.addr = Code])
    /\ UNCHANGED <<method, depth, calm>>

\* Mutants: the dispatcher does not look for a recursion; it calls the method
\* again instead of the origin.
DispatchRecursive(t) ==
    /\ At(t, "jump") /\ Executes(Top(t).addr) /\ Top(t).addr.at > 0
    /\ LET o == origin[Top(t).addr.at] IN
          \/ /\ hooks = "none"
             /\ SetTop(t, [Top(t) EXCEPT !.pc = "done", !.addr = Code])
          \/ /\ hooks # "none"
             /\ SetTop(t, [Top(t) EXCEPT !.pc = "enter", !.addr = Code, !.origin = o,
                                         !.bare = (hooks = "bare")])
    /\ UNCHANGED <<method, depth, calm>>
DispatchEntry(t) ==
    /\ At(t, "jump") /\ Executes(Top(t).addr) /\ Top(t).addr.at > 0
    /\ LET o == origin[Top(t).addr.at] IN
          \/ /\ Active(t)
             /\ SetTop(t, [Top(t) EXCEPT !.addr = entry])
          \/ /\ ~Active(t) /\ hooks = "none"
             /\ SetTop(t, [Top(t) EXCEPT !.pc = "done", !.addr = Code])
          \/ /\ ~Active(t) /\ hooks # "none"
             /\ SetTop(t, [Top(t) EXCEPT !.pc = "enter", !.addr = Code, !.origin = o,
                                         !.bare = (hooks = "bare")])
    /\ UNCHANGED <<method, depth, calm>>

\* MethodHookDispatcher: on a thread that is inside the method's hook already,
\* the origin is called directly; a method without a registration returns.
Dispatch(t) ==
    /\ At(t, "jump") /\ Executes(Top(t).addr) /\ Top(t).addr.at > 0
    /\ LET o == origin[Top(t).addr.at] IN
          \/ /\ Active(t)
             /\ SetTop(t, [Top(t) EXCEPT !.addr = o])
          \/ /\ ~Active(t) /\ hooks = "none"
             /\ SetTop(t, [Top(t) EXCEPT !.pc = "done", !.addr = Code])
          \/ /\ ~Active(t) /\ hooks # "none"
             /\ SetTop(t, [Top(t) EXCEPT !.pc = "enter", !.addr = Code, !.origin = o,
                                         !.bare = (hooks = "bare")])
    /\ UNCHANGED <<method, depth, calm>>

\* The hook's callback calls the original, sets a result, or returns.
CbOriginal(t) ==
    /\ At(t, "enter") /\ ~Top(t).invoked
    /\ SetTop(t, [Top(t) EXCEPT !.pc = "swap", !.ret = "enter"])
    /\ UNCHANGED <<method, depth, calm>>

CbResult(t) ==
    /\ At(t, "enter") /\ ~Top(t).custom
    /\ SetTop(t, [Top(t) EXCEPT !.custom = TRUE])
    /\ UNCHANGED <<method, depth, calm>>

\* After the callback the dispatcher calls the original itself, unless the
\* callback did or has replaced its result.
CbReturn(t) ==
    /\ At(t, "enter")
    /\ LET done == Top(t).custom \/ Top(t).invoked IN
          SetTop(t, [Top(t) EXCEPT !.pc = IF done THEN "leave" ELSE "swap",
                                   !.ret = "leave"])
    /\ UNCHANGED <<method, depth, calm>>

\* invokeOriginalInternal without class and jmethodID calls the origin itself.
CallOrigin(t) ==
    /\ At(t, "swap") /\ Top(t).bare
    /\ Push(t, [Top(t) EXCEPT !.pc = "jni"], NewFrame(FALSE, Top(t).origin))
    /\ UNCHANGED <<method, calm>>

\* With them it reads the entry point, replaces it by the origin, calls the
\* method through JNI and writes back what it has read.
ReadEntry(t) ==
    /\ At(t, "swap") /\ ~Top(t).bare
    /\ SetTop(t, [Top(t) EXCEPT !.pc = "set", !.cur = entry])
    /\ calm' = (calm /\ api.pc = "idle" /\ \A u \in Thread : ~Swapping(u))
    /\ UNCHANGED <<method, depth>>

SwapEntry(t) ==
    /\ At(t, "set")
    /\ entry' = Top(t).origin
    /\ SetTop(t, [Top(t) EXCEPT !.pc = "call"])
    /\ UNCHANGED <<patch, inlinable, n, origin, hooks, handle, api, depth, calm>>

CallJni(t) ==
    /\ At(t, "call")
    /\ Push(t, [Top(t) EXCEPT !.pc = "jni"], NewFrame(FALSE, entry))
    /\ UNCHANGED <<method, calm>>

\* The frame once the original has been called for it.
Served(t) == [Top(t) EXCEPT !.pc = Top(t).ret, !.origin = Code, !.cur = Code,
                            !.bare = FALSE, !.ret = "leave"]

\* Mutants: original_invoked is not set; the entry point is left swapped.
RestoreForgetful(t) ==
    /\ At(t, "restore")
    /\ entry' = IF Top(t).bare THEN entry ELSE Top(t).cur
    /\ SetTop(t, Served(t))
    /\ UNCHANGED <<patch, inlinable, n, origin, hooks, handle, api, depth, calm>>
RestoreNothing(t) ==
    /\ At(t, "restore")
    /\ SetTop(t, [Served(t) EXCEPT !.invoked = TRUE])
    /\ UNCHANGED <<method, depth, calm>>

RestoreEntry(t) ==
    /\ At(t, "restore")
    /\ entry' = IF Top(t).bare THEN entry ELSE Top(t).cur
    /\ SetTop(t, [Served(t) EXCEPT !.invoked = TRUE])
    /\ UNCHANGED <<patch, inlinable, n, origin, hooks, handle, api, depth, calm>>

\* The frame below the innermost one once that one has returned: a body goes
\* on, a dispatcher has had its original executed.
Below(t, ran) ==
    LET f == stack[t][depth[t] - 1] IN
    IF Top(t).own THEN f ELSE [f EXCEPT !.pc = "restore", !.ran = f.ran + ran]

\* The original's body ends.
EndBody(t) ==
    /\ At(t, "body")
    /\ Pop(t, Below(t, 1))
    /\ UNCHANGED <<method, calm>>

\* The dispatcher returns to the caller of the method.
Return(t) ==
    /\ At(t, "leave") \/ At(t, "done")
    /\ Pop(t, Below(t, 0))
    /\ UNCHANGED <<method, calm>>

CallStep(t) ==
    \/ FollowPatch(t) \/ RunBody(t) \/ Dispatch(t)
    \/ CbOriginal(t) \/ CbResult(t) \/ CbReturn(t)
    \/ CallOrigin(t) \/ ReadEntry(t) \/ SwapEntry(t) \/ CallJni(t) \/ RestoreEntry(t)
    \/ EndBody(t) \/ Return(t)

----------------------------------------------------------------------------
\* Hooking and unhooking

Undisturbed == calm' = (calm /\ \A t \in Thread : ~Swapping(t))

\* CannotSafeInlineHook lets an address pass: it looks at what the entry point
\* refers to now.  The jump of an inline hook and the head of a backup trampoline
\* are relative to the program counter and never pass; what precedes a bridge
\* trampoline in memory, read as its size, is arbitrary.
InlineSafe(a) == ~a.raw /\ a.at \in inlinable /\ patch[a.at] = 0

\* A script hooks the method; what it carries is released first.
HookBegin ==
    /\ api.pc = "idle" /\ n < MaxHooks
    /\ n < CrowdHooks \/ \E t \in Thread : Alone(t)
    /\ \E bare \in BOOLEAN :
          api' = [api EXCEPT !.pc = IF handle.hooked THEN "restore" ELSE "save",
                             !.again = TRUE, !.bare = bare]
    /\ UNCHANGED <<entry, patch, inlinable, n, origin, hooks, handle, stack, depth, calm>>

UnhookBegin ==
    /\ api.pc = "idle" /\ handle.hooked
    /\ api' = [api EXCEPT !.pc = "restore"]
    /\ UNCHANGED <<entry, patch, inlinable, n, origin, hooks, handle, stack, depth, calm>>

\* HookHandle::unhook puts back the bytes or the entry point it has saved.
UnhookRestore ==
    /\ api.pc = "restore"
    /\ IF handle.inline
       THEN /\ patch' = [patch EXCEPT ![handle.entry.at] = 0]
            /\ UNCHANGED entry
       ELSE /\ entry' = handle.entry
            /\ UNCHANGED patch
    /\ api' = [api EXCEPT !.pc = "unregister"]
    /\ Undisturbed
    /\ UNCHANGED <<inlinable, n, origin, hooks, handle, stack, depth>>

\* The registration goes.  When the method is to be hooked again,
\* AgentReleaseMethodInstrumentation then waits for callbacks in flight, but no
\* longer than 50 ms.
Unregister ==
    /\ api.pc = "unregister"
    /\ hooks' = "none"
    /\ handle' = NoHandle
    /\ api' = IF api.again THEN [api EXCEPT !.pc = "save"] ELSE Idle
    /\ UNCHANGED <<entry, patch, inlinable, n, origin, stack, depth, calm>>

\* Method::hook saves the entry point and decides how unhook will restore.
Save ==
    /\ api.pc = "save"
    /\ handle' = [hooked |-> FALSE, inline |-> InlineSafe(entry), entry |-> entry]
    /\ \E retry \in {api.bare, TRUE} :
          api' = [api EXCEPT !.pc = "register", !.retry = retry]
    /\ Undisturbed
    /\ UNCHANGED <<entry, patch, inlinable, n, origin, hooks, stack, depth>>

\* The registration is written before the trampoline is installed.
Register ==
    /\ api.pc = "register"
    /\ hooks' = IF api.bare THEN "bare" ELSE "jni"
    /\ api' = [api EXCEPT !.pc = "install"]
    /\ UNCHANGED <<entry, patch, inlinable, n, origin, handle, stack, depth, calm>>

\* PineNative_Hook, registerArtMethodHookDirect: an inline hook where it is safe.
Install ==
    /\ api.pc = "install"
    /\ api' = [api EXCEPT !.pc = IF InlineSafe(entry) THEN "backup" ELSE "replace",
                          !.code = entry]
    /\ Undisturbed
    /\ UNCHANGED <<entry, patch, inlinable, n, origin, hooks, handle, stack, depth>>

\* Backup() reads the entry point again and copies the bytes found there; the
\* jump goes where the first read has led.
InstallInline ==
    /\ api.pc = "backup"
    /\ n' = n + 1
    /\ origin' = [origin EXCEPT ![n + 1] =
                     [at |-> IF Executes(entry) /\ ~entry.raw THEN entry.at ELSE -1,
                      raw |-> TRUE]]
    /\ patch' = [patch EXCEPT ![api.code.at] = n + 1]
    /\ handle' = [handle EXCEPT !.hooked = TRUE]
    /\ api' = Idle
    /\ Undisturbed
    /\ UNCHANGED <<entry, inlinable, hooks, stack, depth>>

\* The code cannot be made writable: a replacement trampoline is tried.
InlineFails ==
    /\ Fails /\ api.pc = "backup"
    /\ api' = [api EXCEPT !.pc = "replace"]
    /\ calm' = FALSE
    /\ UNCHANGED <<entry, patch, inlinable, n, origin, hooks, handle, stack, depth>>

\* Mutant: the entry point is read after the trampoline has been stored in it.
MakeBridgeLate ==
    /\ api.pc = "replace"
    /\ n' = n + 1
    /\ origin' = [origin EXCEPT ![n + 1] = Bridge(n + 1)]
    /\ api' = [api EXCEPT !.pc = "publish"]
    /\ Undisturbed
    /\ UNCHANGED <<entry, patch, inlinable, hooks, handle, stack, depth>>

\* InstallNativeReplacementTrampoline makes a trampoline to the entry point it
\* reads, and then stores it as the entry point.
MakeBridge ==
    /\ api.pc = "replace"
    /\ n' = n + 1
    /\ origin' = [origin EXCEPT ![n + 1] = entry]
    /\ api' = [api EXCEPT !.pc = "publish"]
    /\ Undisturbed
    /\ UNCHANGED <<entry, patch, inlinable, hooks, handle, stack, depth>>

Publish ==
    /\ api.pc = "publish"
    /\ entry' = Bridge(n)
    /\ handle' = [handle EXCEPT !.hooked = TRUE]
    /\ api' = Idle
    /\ Undisturbed
    /\ UNCHANGED <<patch, inlinable, n, origin, hooks, stack, depth>>

\* No executable memory: Method::hook tries registerArtMethodHookDirect, then
\* gives up.  The registration stays.
BridgeFails ==
    /\ Fails /\ api.pc = "replace"
    /\ IF api.retry
       THEN api' = Idle /\ handle' = NoHandle
       ELSE api' = [api EXCEPT !.pc = "register", !.retry = TRUE] /\ UNCHANGED handle
    /\ UNCHANGED <<entry, patch, inlinable, n, origin, hooks, stack, depth, calm>>

ApiStep ==
    \/ HookBegin \/ UnhookBegin \/ UnhookRestore \/ Unregister
    \/ Save \/ Register \/ Install \/ InstallInline \/ InlineFails
    \/ MakeBridge \/ Publish \/ BridgeFails

Next ==
    \/ ApiStep
    \/ \E t \in Thread : Call(t) \/ CallStep(t)

Spec == Init /\ [][Next]_vars

\* A thread inside a call is scheduled again and again; callbacks return.
FairSpec == Spec /\ \A t \in Thread : WF_vars(CallStep(t))

----------------------------------------------------------------------------
\* Properties

\* A thread never enters the method's hook while it is inside it: not through a
\* recursive call, not through the call of the original, and not when another
\* thread has put the trampoline back in between (MethodHookDispatcher).
CallbackNotNested ==
    \A t \in Thread : \A i, j \in 1 .. MaxDepth :
        stack[t][i].pc \in Dispatching /\ stack[t][j].pc \in Dispatching => i = j

\* Whatever a callback does, the original of a hooked call runs at most once, and
\* a call that returns from its hook has run it or has a result set by the
\* callback (invokeOriginalInternal, MethodHookDispatcher).
CallAnswered ==
    \A t \in Thread, i \in 1 .. MaxDepth :
        LET f == stack[t][i] IN
        /\ f.ran <= 1
        /\ f.invoked => f.ran = 1
        /\ f.pc = "leave" => f.ran = 1 \/ f.custom

\* A trampoline leads to something older than itself, whatever the order in which
\* threads swap the entry point and scripts hook and unhook: following origins
\* ends at the method's own code (InstallNative*Trampoline).
OriginsOlder ==
    /\ entry.at <= n
    /\ \A b \in 1 .. n : origin[b].at < b

\* A call of the method now runs the hook's trampoline.
Intercepted ==
    /\ entry.at >= 0
    /\ entry.at > 0 \/ (~entry.raw /\ patch[0] # 0)

\* No script is hooking or unhooking and no thread has the entry point swapped.
Quiet == api.pc = "idle" /\ \A t \in Thread : ~Swapping(t)

\* As long as calls of the original have not overlapped with each other or with
\* hooking, the method is intercepted when its handle says isHooked(), and a call
\* that is intercepted finds its hook (Method::hook, HookHandle::unhook,
\* invokeOriginalInternal).
HookExact ==
    calm /\ Quiet => /\ handle.hooked => Intercepted
                     /\ Intercepted => hooks # "none"

\* A hooked method stays intercepted when its original has been called
\* (invokeOriginalInternal: "Restore bridge entry point").
HookKept == Quiet /\ handle.hooked => Intercepted

\* Every call of a method that is hooked by replacement returns
\* (MethodHookDispatcher, invokeOriginalInternal).
CallsReturn ==
    \A t \in Thread : (depth[t] > 0 /\ inlinable = {}) ~> depth[t] = 0
=============================================================================
