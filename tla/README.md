# ArtPI: TLA+ models, checks and proofs

ArtPI is a dynamic instrumentation toolkit for Android. A small program on the
device (`cli/injector`) injects a shared library, the *agent*, into an
application. The agent opens a socket, evaluates JavaScript sent by a REPL
client, and gives scripts access to hooks on Java methods, hardware breakpoints,
a debugger, tracers and memory tools. Everything the agent does happens inside a
running process whose threads go on executing, and most of its code is entered
from those threads: through trampolines, signal handlers and callbacks.

This directory models the parts of the agent and of the injector whose
correctness depends on the order in which those threads act, and the bytecode
interpreter the agent runs hooked methods in. Every module is written from the source; the
file `PROJECT.json` names the lines each definition stands for.

Contents: [inventory](#inventory), [modules](#modules-and-the-code),
[runs](#what-the-runs-show), [bounds](#bounds), [fairness](#fairness),
[proofs](#what-is-proved), [only model-checked](#what-is-only-model-checked),
[disagreements found](#where-code-and-text-disagree), [not
modelled](#what-is-not-modelled), [plan](#plan).

## Inventory

Paths are relative to the repository's root.

### Components with state that threads share

| component | source | state | operations | who calls it |
|---|---|---|---|---|
| Hardware breakpoints | `engine/native/hooker/pi_hw_hook.*` | comparator slots in use, list of sessions, one step-over record per session, debug registers of every thread | `init`, `attach`, `detach`, `detachAll`, `rearmMissingThreads`, `refreshCapacity`, `HandleException` | scripts, the boot code, and every thread that traps |
| Command server | `src/agent/agent_net.*` | list of clients, receive buffers, listening endpoint | server loop, `SendFrame`, `BroadcastEvent`, `StartServer`, `StopServer` | one server thread; any thread that broadcasts an event |
| Debugger | `src/agent/agent_debug.*` | one pause flag, one pending command, one register snapshot, breakpoint sessions | hit, wait, step, continue, return, clear, detach all | application threads at breakpoints, scripts |
| JavaScript lock | `src/agent/agent_js.cpp`, `agent_java_hook.cpp`, `agent_trace.cpp` | `g_jsMutex`, per-thread depth `t_jsReentrancyDepth` | `EvalJs`, `sleep`, hook, trace and condition callbacks | server thread, application threads |
| Java method hooks | `engine/pine/pine_native.*`, `engine/trampoline`, `src/core/pi_method.cpp`, `pi_hook_handle.*` | the method's entry point, patched code bytes, bridge trampolines, the registry `g_method_hooks`, hook handles, per-thread set of active hooks | `Method::hook`, `HookHandle::unhook`, `MethodHookDispatcher`, `invokeOriginalInternal` | scripts; every thread that calls the method |
| Process gate and boot | `src/agent/agent_main.cpp` | the futex word and the saved context `artpi_gate_state`, boot configuration, the re-arming thread's round | `ArtPIGateWait`, `ArtPIPauseCurrentThread`, `ArtPIResumeProcess`, boot, re-arming | main thread, threads that meet `--stop-lib`, scripts, a background thread |
| Java references | `src/agent/agent_java_ref.cpp` | the stack `g_jrefs`, the ring of observed objects | `AddJRef`, `GetJRef`, `PopJRefsTo`, observing | scripts and callbacks |
| Native hooks | `engine/native/hooker/pi_gum_hooker.cpp`, `src/agent/agent_native.cpp` | backends, gum listeners, list of hooks | `attach`, `detach`, `replace` | scripts; threads that call the function |
| JNI tracer | `src/agent/agent_jni.cpp` | replaced JNI function table, its backup, per-thread frames | install, remove, enter, leave | scripts; threads that use JNI |
| Registered classes | `src/agent/agent_java_registerclass.cpp` | bindings and thunks | register, dispose, dispatch | scripts; Java threads |
| Memory patches | `src/agent/agent_memory.cpp` | list of patches with original bytes | `patch`, `modify`, `restore`, `restoreAll` | scripts |
| Injector | `cli/injector/ptrace_inject.cpp`, `main.cpp` | the traced thread's saved registers, a stop not yet waited for | attach, remote call, gate, detach | one process |
| Interpreting hooks | `engine/nmmvm`, `src/sandbox` | frames, registers that own local references, pending exception, records of calls, ManagedStack words | run, step in, mock, abort, hand off, unwind | threads that call a hooked method |
| REPL client | `cli/injector/repl_client.cpp`, `cli/artpi_repl.py` | sequence numbers, receive buffer | send, receive, exit | two threads |

### Components that compute

MessagePack (`engine/mpack`), the DEX writer, generator and loader (`src/dex`),
the linker and ELF readers, the Unity bridge, resolution of Java
names and overloads, text output. The table in `PROJECT.json` lists them all with
the reason each is, or is not yet, modelled.

### How they interact

* Scripts run on the server thread under `g_jsMutex` (`EvalJs`). `sleep()` gives
  the lock up in the middle of a script.
* Hook, trace and condition callbacks run on the thread that called the method,
  and take `g_jsMutex` to run JavaScript. A per-thread depth is meant to keep a
  thread that executes a script from waiting for itself.
* A breakpoint puts the calling thread to sleep until a script sends a command.
  Scripts come through the server, so the server thread must not sleep there.
* Installing a hook, a trace or a breakpoint on a method first releases what the
  method carries (`AgentReleaseMethodInstrumentation`), and waits up to 50 ms for
  callbacks in flight.
* Callbacks report through `BroadcastEvent`, which shares the client list and the
  sockets with the server thread.
* Hardware breakpoints are armed by the boot code before the server exists, by
  scripts, and again by a background thread for threads that were missed.
* The injector holds the main thread, makes calls in it with borrowed registers,
  and may leave it at the gate. The re-arming thread, a script or the exit of a
  client opens the gate.
* Callbacks put references into the table scripts use, and cut it back when they
  return. Native methods of generated classes and interpreted methods enter
  JavaScript or the interpreter from the application's threads.

### What makes it hard

The entry point of a hooked method is swapped without a lock while other threads
call it. Sessions, flags and snapshots exist once although several threads use
them. Descriptors are validated under a lock and used after it. A comparator slot
is given up and taken again in the middle of an exception. Callbacks and scripts
wait for each other through one lock and one pause flag. A resume races the
parking of threads. A table of references is a stack although its users do not
nest. A local reference is deleted on the word of a flag in a register. The hazards in
`PROJECT.json` give the line for each, and the properties that would notice.

### What correct means, per component

* *Hardware breakpoints*: no slot has two owners or none; the API does not disturb
  other sessions; every exception the manager caused is claimed; no session fires
  twice for one instruction; a recurring session keeps firing.
* *Server*: no socket leaks; a client receives whole frames, its own responses, in
  order; every request read is answered or its connection closed.
* *Debugger and lock*: a paused thread can always be resumed; the holder of
  `g_jsMutex` does not block; stepping stops where the command says; every
  operation of a script returns.
* *Method hooks*: a hook does not nest on a thread; the original runs at most once
  and the call is answered; the state a handle reports is the state of the
  method; every call runs the method or its hook, and returns.
* *Gate and injector*: nobody passes a closed gate and no wake-up is lost; the main
  thread runs with its own registers and, in a gated session, with its breakpoints;
  it is let go.
* *References*: a handle a script keeps names its object; every global reference is
  held once.
* *JNI tracer*: a trampoline finds the real function; stopping leaves none; a line
  joins a call with its own result.
* *Patches*: restoring gives back the bytes; an object refers to its own patch.
* *Interpreter*: a reference is deleted once and by its owner; every way out of a run
  pops its frame and restores the ManagedStack.
* *Generated classes*: a call reaches the implementation of the class it was made on.

## Modules and the code

| module | what it is |
|---|---|
| `Hooks` | what hardware hooks promise a script: the abstract specification |
| `HwHook` | `HwHookManager` and the threads that trap; implements `Hooks` for sessions bound to a thread |
| `AgentNet` | server thread, broadcasting threads, clients, descriptor table |
| `AgentDebug` | debugger, instrumentation of methods, `g_jsMutex` |
| `PineHook` | one Java method, its hooks and its callers |
| `Gate` | what the process gate promises: the abstract specification |
| `AgentGate` | the futex word, the trampoline's context and who touches them; implements `Gate` |
| `Session` | `AgentGate` composed with injector, boot, re-arming, worker and client |
| `Interp` | interpreter, session callbacks and executor on one thread |
| `JRefs` | the table of references, callbacks that nest and overlap, scripts |
| `JniTracer` | the JNI table, its trampolines and calls through it |
| `MemPatch` | memory patches and the script objects for them |
| `RegClass` | generated classes, thunks, bindings and native calls |
| `MC...` | instances of these for TLC: programs, sessions, symmetry. `MCTools` joins the last five, which share no state |
| `...Proofs` | inductive invariants and theorems, checked by TLAPS |

### HwHook

State: `cap`, `used`, `nextId`, `listed`, `active`, `cfg`, `slot`, `armed` and
`step` are the manager's members and the fields of its sessions; `hwBp` and `hwWp`
are the debug registers of each thread; `mode`, `pc`, `mem` and `hit` say what a
thread is doing. Every public operation holds `mutex_` throughout and is one
action (`AttachNew`, `AttachReuse`, `AttachUnarmed`, `Detach`, `DetachAll`,
`RearmMissingThreads`, `RefreshCapacity`, `Initialize`). `HandleException` gives
the lock up around the callback and is therefore two: `StepOverHit`, `Dispatch`,
`DispatchOnce` or `NotOurs` before it, `ReturnDone`, `ReturnStepOver` or
`ReturnExhausted` after it. The CPU is modelled from what the manager relies on: a
program is a function from addresses to instructions (sequential, jump,
conditional), and a thread executes an instruction or traps on it. The loop over
`armed_threads` that erases while iterating (line 605) is undefined behaviour; it
may visit any part of what is left.

`Hooks` knows neither registers nor exceptions: sessions are on places, a session's
callback may run for the instruction a thread is at, and the thread executes it when the
callbacks of all live sessions on it have run, each once. Its sessions are the listed and
active ones; `Attach` is `AttachNew`, `Notify` is `Dispatch` or `DispatchOnce`, `Execute`
is the CPU's step, and arming, trapping, stepping over and re-arming are invisible.

### AgentNet

State: the table of descriptors with their owners, `g_clients` as a bag (a number
can be listed twice), what clients have sent and received, the place and the
locals of the server thread, and those of each broadcasting thread. A critical
section of `g_clientMutex` is one action, and so is every system call outside
one. A frame is a header and a payload, sent separately, as `SendFrame` does. The
lowest free descriptor number is handed out next, so that a number can come back
to another connection or to the application.

### AgentDebug

State: the debugger's globals (`paused`, `pending`, `pausedIn`, `regsDepth`), the
owner of `g_jsMutex` and each thread's depth, the instrumentation of each method,
the place of each thread, the frames of the lambdas it is in (`call`, `level`, `native`,
and `back` for the outer ones) and its run mode and target depth, which are
`thread_local` and so shared by all those lambdas. `Call` and `ScriptCall` take a
thread into whatever the method carries, also from inside another lambda (`Enter`
pushes a frame, `Return` pops it); a stepped breakpoint that begins resets the run
mode of the outer ones with its own (`Begin`). `Entry` and `NoOnEnter` are the
lambdas' decisions to run JavaScript or pass through; `EvalCond` decides for a
conditional breakpoint, Java or native; `Hit`, `Wake` and `TakeCommand` are the
critical sections of a pause; `StepIn`, `Exec` and `Leave` move the interpreter.
Scripts resume (`Resume`, `JsReturn`), release what a method carries, wait for a thread
paused there and install (`Release`, `ClearDone`, `Install`), detach (`DetachResume`,
`DetachRemove`) and sleep (`JsSleep`). `hist` is auxiliary: the command each frame
follows, as long as the debugger has it.

### PineHook

State: `entry` (the ArtMethod's entry point), `patch` (bytes overwritten by an
inline hook), `origin` (the origin written into each of the `n` bridges), `hooks`
(the method's registration), `handle`, `api` (the steps of the one hook or unhook
under way) and a stack of frames per thread. Hooking is `Save`, `Register`,
`Install`, then `InstallInline`, or `MakeBridge` and `Publish`, with the failures
`InlineFails` and `BridgeFails`; unhooking is `UnhookRestore` and `Unregister`. A
call follows patches and bridges (`FollowPatch`, `Dispatch`), runs the body, or
enters the hook, whose callback may call the original (`ReadEntry`, `SwapEntry`,
`CallJni`, `RestoreEntry`, or `CallOrigin` for hooks without a jmethodID), set a
result, or return. `calm` is auxiliary: it is cleared when a hooking step or a
second call of the original meets an entry point that is swapped, or an inline
installation falls back to a replacement. `resetResult` is used by tests only and
left out.

### Gate, AgentGate, Session

`AgentGate` has the word (`paused`), the pc field of the saved context (`gatePc`, by
who wrote it), the place of each thread in `ArtPIGateWait` (`th`), the context the
main thread will go on with (`ctx`) and the two halves of a resume (`res`). `Check`,
`FutexWait`, `PausePc`, `PauseStore`, `Exchange` and `Wake` are the single accesses;
`Hold`, `Poke`, `PokeOnly` (the word is written, the registers are refused) and
`Release` are the injector's. `crossed` is auxiliary: a second
thread stored its pc while the main thread was in the trampoline. `Gate` has a flag
and a set of parked threads; `GateImplemented` is the refinement with
`closed <- (paused = 1)` and `parked` the threads between entering and leaving the
wait.

`Session` adds the injector (`inj`, `inCall`, `loaded`, `stopPending`), which walks
through the remote calls of `InjectLibrary` (`After` gives the order, with its
fallbacks), each of which returns, times out or is cut short by a signal; a time-out may
leave a SIGSTOP that spoils the next call or stops the target (`halted`). Of `dlopen` only
x0 is looked at, so that a spoilt or cut one counts as a load (`RemoteCallSpoilt`,
`RemoteCallCut`). When ptrace is refused, at once or at the first call (`AttachRefused`,
`ContRefused`), the library is loaded without it; `InjectLibraryNoPtrace` is reduced to its
two ends, some thread loads the library (`ArtPiAgentCtor`) and the injector has the handle
or not (`NoPtraceEnds`), and a load that comes after its 10 s is left out. The agent boots
(`AgentBoot`, `AgentServe`, `InitJs`), where neither its own thread nor the re-arming one
need be created; the re-arming thread does rounds (`RearmArm`, `RearmCheck`,
`RearmWake`); the worker serves requests when it has `g_jsMutex` (`Serve`, `JsResume`,
`JsWake`); a user's script and, once one has run, callbacks of hooks hold that lock on
their own threads (`inJs`, `TakeScript`, `Callback`, `ScriptEnd`) and may meet
`--stop-lib` there (`StopLib`). The client goes through `HandleConnectedSession` and
`RunInteractiveSession` and may be killed.
What a session is started with is a record (`opt`): how it is gated, which client,
whether the configuration is readable, `--stop-lib`, whether breakpoints are granted.
Hardware breakpoints appear only as the set of threads that have them; `HwHook` is
their detail.

### Interp

One thread: `stack` (frames with registers, result, instruction count, abort and
hand-off flags), `level` (the local frame each JNI local reference lives in), `exc`,
`pend` (`pendingCalls`), `ms` (the ManagedStack words) and `last` (what a hook's run
left). The bytecode is arbitrary: at each step any instruction may follow, so an
action stands for all programs. Instructions that differ only in the value they
compute are one action; there is one for each effect on registers, references and
exceptions. A run has the callbacks of its session (`cbs`): none, those of the debugger
(before a call) or those of a trace (before and after). `InvokeMock`, `InvokeStepIn`,
`StepInRefused`, `NativeStepIn` and `InvokeJni` are what a callback before a call may
decide; `RunNative` is a native callee run under the instruction engine, whose x0 becomes
the result as it is. It may be any reference, one that a register has already or a
global one (`Foreign`); a frame that took such a result is `raw`. `StepReturns` and
`RootReturns` are the end of `runMethodInternal`; hooks nest where an interpreted call is
out in JNI (`HookRun`, `Dispatch`). Native code under the engine does not call back into
hooked methods.

### JRefs, JniTracer, MemPatch, RegClass

`JRefs`: the table (`jrefs`), the ring of observed objects with its index by address,
the global references behind them, objects that the collector moves, and per thread
the callbacks in progress with the base each took. A script's use of a handle is two
actions, looking it up and using it. `handle` follows one handle a script keeps. The two
critical sections of `JavaObjectToJsValue` are one action: the first only looks an entry
up and the second looks again before it adds one. `NewGlobalRef` of a live object does
not fail, since ART aborts when its table is full.

`JniTracer`: the table and its backup slot by slot, the operation under way, one
native thread's calls, nested, and the frames that pair their halves. `clean` is
auxiliary: no session began over frames of an earlier one.

`MemPatch`: bytes that are original or written by a patch, the C++ heap of
`MemoryPatch` objects, `g_activePatches` and the script objects. Writing may fail, and a
restore that fails drops its patch all the same. `stacked`, `foreign` and `failed` say
which bytes were patched over a patch, written by others, or left by such a restore.

`RegClass`: thunks, bindings, the natives ART has for each class, registrations, and
per thread the native calls in progress. `LoadClass`, `AcquireThunk`,
`RegisterNatives` and `RegisterDone` or `RegisterFailed` are a registration;
`Dispose`, `UnregisterNatives`, `EraseBindings` a disposal; `CallNative`,
`NativeDispatch`, `NativeLock`, `NativeReturn` a call.

`Session` composes five components through the gate. The others meet through
`g_jsMutex`, which `AgentDebug` has for hooks, traces and breakpoints and `JRefs` and
`RegClass` each have for their own callers.

## What the runs show

Passing runs; each property has a mutant of the code in `PROJECT.json` that
violates it.

* `hw_shared`: two threads, recurring and one-shot breakpoints on every thread, one
  asking for a fixed slot; a thread is held by the injector, released, and exits;
  the CPU has fewer comparators than `init()` assumes. `BpSlotsExclusive`: no
  breakpoint slot is shared by sessions or step-overs. `ApiKeepsOthers`: attach,
  detach and re-arming leave other sessions' registers alone. `SlotsAccounted`: whoever
  lets go of a slot, by detaching, a one-shot hit or the end of a step-over, gives it
  back, unless a second thread's step-over overwrites the record of the first.
* `hw_bound`: breakpoints and watchpoints bound to one thread each, so that the one
  step-over record of a session is enough, and never detached. `Rearming`: on each armed
  thread the register, or the breakpoint
  that will re-arm it, is set. `ClaimedTraps`: the manager recognises each of its
  own exceptions. `NoBreakLoop`: one dispatch per session and instruction.
  `HooksImplemented`: the refinement of `Hooks`; an instruction with a hook is executed
  only after its callback, also behind a jump and with a watchpoint among breakpoints.
  `RecurringHits`: a recurring session is hit again and again.
* `net_clients`: two loads. A crowd of two clients that connect, ask and leave on two
  descriptors while a thread broadcasts and the server may stop; and a client that
  pipelines good, malformed and oversized requests while events are broadcast and the
  application opens a descriptor. `NoSocketLeak`: an open socket is listed, being listed or
  about to be closed. `DirectOutput`: what the server writes reaches the client it serves,
  or no client. `ResponsesInOrder`. `RequestsAnswered`: a request that was read is answered
  or its connection closed.
* `dbg_pause`: three loads. Two threads and scripts share a method that carries any kind
  of instrumentation; two threads step through one breakpoint, in and out of callees; one
  thread meets a breakpoint and, inside it, whatever a second method carries. Scripts arm,
  replace, step, sleep and detach. `NoStrandedThread`: a sleeping thread can be resumed.
  `StepsExactly`: `s`, `n`, `r` and `c` stop where they should, also after hooks and native
  breakpoints met in the stepped code, unless the debugger has lost the command, which
  happens in three ways: another thread pauses before the command is read for the second
  time, the stepped code meets another stepped breakpoint, or, for a pause in a native
  callee, `r` goes by another thread's snapshot. `ScriptRuns`: every operation of a script
  returns, as long as scripts call no traced methods and no unconditional breakpoints,
  and callbacks no instrumented method (see `js_self_wait`).
* `pine_hook`: two threads, one recursive, and scripts that hook, rehook and
  unhook with failures. `CallbackNotNested`, `CallAnswered`, `OriginsOlder`,
  `HookExact` (the handle and the registration say the truth while calls of the
  original have not overlapped) and `CallsReturn`.
* `session`: seven kinds of session from injection to exit, with remote calls that time
  out or are cut, threads that cannot be created, and scripts and callbacks that hold
  `g_jsMutex`. `OwnRegisters`: the main
  thread never runs with a remote call's registers. `WakeDue`: no thread sleeps at an
  open gate without a wake to come. `GateImplemented`: the refinement. `EarlyHooks`: the
  main thread leaves the gate with its breakpoints unless the time for it has passed.
  `AutoResumed`: it is let go while an automatic resume is pending, unless the re-arming
  thread could not be created or another thread closes the gate again. `ResumeHeeded`: a
  resume the worker can run, that of a client's exit included, opens the gate, however
  often callbacks take the lock before it, unless the holder of the lock is itself parked
  at the gate.
* `tools`: the five modules of `MCTools`. `QuietHandles`: a handle made while no callback
  was in progress names its object for good, and so does the reference a call on it
  uses. `RefsAccounted`: every global reference is held by one entry. `RealKept`: the
  backup of the JNI table is whole and real whenever a trampoline is installed, and
  stopping leaves none. `PairedWhenClean`: a line joins a call with its own result.
  `OwnPatch`: an object made since the last `restoreAll` has its own, allocated patch.
  `Reversible`: restoring every patch gives back the bytes nobody else wrote and no failed
  restore left. `OwnedRefs`: no local reference is deleted twice or while another register
  has it, except in a frame that took a raw result of native code. `ExitsUndone`: every way
  out of an interpreted run pops its local frame, restores the ManagedStack and leaves
  other calls' records alone. `OwnImpl`: a native call runs the implementation of the class
  it was made on, or none. `NativesBound`: at every stage of registering and disposing, the
  native methods that ART would call lead to their implementations, and a call that is
  between its thunk and the lookup loses its binding only if its own registration ends
  meanwhile, by `dispose` or because registering failed. Such a call does return null.

The type invariants of `HwHook`, `AgentNet`, `AgentDebug` and `PineHook` are proved and no
longer part of a run; those of the session and the tools are proved and checked.

Runs that end in a violation, each of a sentence of the repository:

* `hw_two_threads`: two threads step over one session; the second overwrites its
  only step-over record and the first one's trap is nobody's (`ClaimedTraps`).
* `net_interleave`: an event lands between the length and the payload of a
  response (`FramesIntact`).
* `js_self_wait`: a script calls a method it traces, or a callback a method that is hooked;
  the thread waits for `g_jsMutex`, which it holds (`JsNeverBlocks`).
* `pine_swap`: two calls of the original overlap; the second puts back the value
  the first had swapped in and the hook is gone (`HookKept`).
* `gate_frozen`: with a configuration that could not be written or read and no client,
  a spawned application stays at the gate (`NeverFrozen`).

`CHECK_DEADLOCK FALSE` is used where the system may stop: `hw_shared` (threads
exit), the server's runs (clients leave and the server stops), `js_self_wait` (the
violation leads to one), `pine_hook` (a
thread that jumps into the backup of bytes that cannot be relocated takes no
further step), the session's runs (a session ends) and `tools` (bounded numbers of
patches and calls are used up).

## Bounds

Every bound is a constant of its module.

* *Threads*: two callers or trapping threads. The faults looked for are between
  two threads that share one record, one flag or one entry point; a third one adds
  repetitions. The theorems hold for any number.
* *Slots and sessions* (`MaxHwSlots`, `MaxId`): enough slots that allocation fails in
  some states and succeeds in others; three sessions let one be detached, one be
  stepping and one be hit.
* *Connections, descriptors, requests, events* (`Conn`, `Fd`, `MaxReq`, `MaxEvent`,
  `MaxAppFile`): the lowest free descriptor is handed out, so that a closed number goes to
  the next connection, or to the application, at once, which is the case that matters. Two
  pipelined requests are needed for an order. The two loads keep two clients that leave
  apart from one that pipelines; together they are out of reach.
* *Debugger* (`MaxLevel`, the loads of `MCAgentDebug`): one call deep distinguishes stepping
  into, over and out of a callee; two methods nest one breakpoint in another.
* *Hooks and nested calls* (`MaxHooks`, `MaxDepth`): two hooks give a bridge whose
  origin is a bridge; four frames hold a hooked call, its original, a recursive call
  in it and the original of that. `CrowdHooks` says during how many hooks both
  threads may be in calls. The invariants were also checked without that bound with
  `MaxDepth` 3 (14.7 million states); the run keeps it so that the liveness property
  can be checked in the same minute.
* *Session* (`MaxRearm`, `FallBackAt`, `MaxHits`, `MaxCmds`, `MaxQueue`): two rounds of
  re-arming, the second past the fallback, let the resume come from either cause and
  from neither; one thread parked at `--stop-lib` is enough to close the gate again behind
  a resume, and the three threads (main, the server's, one of the application's) let that
  be the holder of `g_jsMutex` or another;
  one command and one queued request let a resume wait behind another request. The
  kinds of session are those whose gate or client differ.
* *Interpreter* (`NRef`, `MaxInsns`, `MaxDepth`, `MaxStack`, `MaxStale`, `Sessions`): two
  registers and three references give sharing, overwriting and returning; two frames hold
  a hook with a step-in, or with a hook nested in a JNI call, of a debugged and of a traced
  run in any combination; two instructions per frame let a result be used. `MaxStale`
  bounds the records that hand-offs and the debugger's sessions leave behind. The theorems
  are for any depth.
* *References* (`MaxTable`, `MaxNest`, `RingCap`): two entries let a pop remove one and keep
  one; two nested callbacks on the application's thread beside the script's thread
  overlap; a ring of one evicts at each second object.
* *JNI tracer, patches* (`MaxCalls`, `MaxCallDepth`, `MaxSessions`, `NBytes`, `MaxPatches`): two
  sessions with a call that spans them; two bytes with patches on one or both.
* *Classes* (`MaxThunks`, `MaxRegs`, `MaxNative`): two registrations of two methods need one
  thunk more than there are, so both success and exhaustion occur; two nested calls
  reach a dispatch inside a dispatch. The same name is used twice, spliced or not.

## Fairness

* `HwHook`, `PineHook`: weak fairness of each thread's own step. The kernel schedules
  runnable threads, exceptions are delivered, callbacks return. Nothing is assumed
  of scripts: they need not attach, hook or unhook.
* `AgentNet`: weak fairness of the server thread's step. `poll` has a timeout and
  sockets are non-blocking; clients and broadcasting threads may stop at any time.
* `AgentDebug`: weak fairness of each application thread and of the server thread,
  and strong fairness of the server's acquisition of `g_jsMutex`. The latter is the
  one assumption beyond scheduling: a `std::mutex` that is released again and again
  is eventually obtained by a waiting thread. Without it callbacks could keep a
  script out for ever. The operator need not resume anything.
* `Session`: weak fairness of the injector, of the agent's boot, re-arming and worker
  threads and of each application thread's way through the gate and through a script or
  callback. The worker's fairness is strong, because callbacks may take `g_jsMutex` again
  and again: the assumption about that lock of `AgentDebug`, and `ResumeHeeded` is
  violated without it. Remote calls have time-outs, so the injector always goes on. Clients,
  signals and the application's
  own calls need not happen, and a client may stop anywhere.
* The modules of `MCTools` have no liveness property and no fairness.

## What is proved

TLAPS checks the theorems for every value of the constants that satisfies the
assumptions named in the modules.

| theorem | states | inductive invariant |
|---|---|---|
| `HwHookProofs!TypeCorrect` | `TypeOK` | itself |
| `HwHookProofs!SlotsNeverShared` | `BpSlotsExclusive` | `TypeOK` and `SlotInv` |
| `HwHookProofs!OthersKept` | `BreakpointsKept`, the breakpoints' part of `ApiKeepsOthers` | `TypeOK` and `SlotInv` |
| `HwHookProofs!OnlyBreakpoints` | `ApiKeepsOthers`, if scripts set no watchpoints | the same |
| `HwHookProofs!SlotsReturned` | `SlotsAccounted` | `TypeOK`, `SlotInv` and `OnceInv` |
| `HwHookProofs!TrapsClaimed` | `ClaimedTraps`, if `Bound` | `ManagerInv`: `TypeOK`, `SlotInv`, `BoundInv` |
| `HwHookProofs!NoLoop` | `NoBreakLoop`, if `Bound` and `Straight` | `ManagerInv` and `ServedInv` |
| `HwHookProofs!Rearmed` | `Rearming`, if `Bound` and `Enough` | `ManagerInv`, `CapInv` and `ReadyInv` |
| `HwHookProofs!HooksRefined` | `HooksImplemented`, if `Bound`, `Straight`, `Enough` and `Decoded` | `SafeInv` (all of these) and `HookInv` |
| `AgentNetProofs!SocketsTracked` | `NoSocketLeak` | `LeakInv` |
| `AgentNetProofs!NetTypesKept` | `TypeOK` | `NetInv` |
| `AgentNetProofs!OutputOwn` | `DirectOutput` | `NetInv` |
| `AgentNetProofs!OrderKept` | `ResponsesInOrder` | `NetInv`, `OneFd`, `Orders` |
| `AgentNetProofs!FramesWhole` | `FramesIntact`, if `OneWriter` | `NetInv` and `FrameInv` |
| `AgentDebugProofs!DebugTypes` | `TypeOK` | `Types`: `TypeOK` and `Nesting` |
| `AgentDebugProofs!PausedThreadsReachable` | `NoStrandedThread` | itself with `Types` |
| `AgentDebugProofs!CommandsObeyed` | `StepsExactly` | `Types` and `StepsInv` |
| `PineHookProofs!HookTypes` | `TypeOK` | `HookInv` |
| `PineHookProofs!HooksNotNested` | `CallbackNotNested` | `HookInv` |
| `PineHookProofs!OriginalRunsOnce` | `CallAnswered` | `HookInv` |
| `PineHookProofs!TrampolinesDescend` | `OriginsOlder` | `HookInv` |
| `PineHookProofs!HooksExact` | `HookExact` | `HookInv` and `CalmInv` |
| `SessionProofs!NoLostWake` | `WakeDue` | `WakeDue` with the gate's types |
| `SessionProofs!GateRefinement` | `GateImplemented` | the gate's types |
| `SessionProofs!RegistersOwn` | `OwnRegisters` | `Registers` |
| `SessionProofs!SessionTypes` | `SessionTypeOK` | `SessionInv` |
| `SessionProofs!HooksEarly` | `EarlyHooks` | `SessionInv` and `EarlyInv` |
| `InterpProofs!InterpInvariant`, `InterpTypes` | `InterpInv`, `InterpTypeOK` | `InterpInv` |
| `InterpProofs!RefsOwned` | `OwnedRefs` | `InterpInv` |
| `InterpProofs!RunsUndone` | `ExitsUndone` | `InterpInv` |
| `JRefsProofs!JRefsTypes` | `JRefsTypeOK` | `JRefsInv` |
| `JRefsProofs!HandlesKept` | `QuietHandles` | `JRefsInv` |
| `JRefsProofs!ReferencesAccounted` | `RefsAccounted` | `JRefsInv` |
| `JRefsProofs!ToolsTypes` | `ToolsTypeOK` | those of the tools |
| `ToolsProofs!RealFunctionsKept` | `RealKept` | `RealInv` |
| `ToolsProofs!LinesPaired` | `PairedWhenClean` | `PairInv` |
| `ToolsProofs!PatchTypes` | the types of `MemPatch` | `PatchInv` |
| `ToolsProofs!ObjectsOwnPatch` | `OwnPatch` | `PatchInv` |
| `ToolsProofs!PatchesReversible` | `Reversible` | `PatchInv` |
| `ToolsProofs!RegistrationTypes` | the types of `RegClass` | itself |
| `ToolsProofs!OwnImplementation` | `OwnImpl` | `ImplInv` |
| `ToolsProofs!MethodsBound` | `NativesBound` | `RegInv` (`ImplInv`, `BoundInv`) and `FlightInv` |

*SlotInv.* `BpSlotsExclusive` is not inductive by itself: that a new session gets a
free slot needs that ids not handed out yet are not listed, and that a thread
inside a callback refers to a session that exists. `SlotInv` adds these. The proof
has one step per action; the interesting one is `ReturnStepOver`, which takes the
highest free slot for the step-over while other sessions hold theirs. The same
invariant proves `BreakpointsKept`: registers are written by the API in the slots of the
sessions it is asked about, and no other breakpoint session has those. Of watchpoints
this is false: a session that found no slot for its step-over has given its comparator
back and stays in `sessions_`, so that detaching it disarms whoever has it then.
`OnlyBreakpoints` therefore assumes that scripts set none, as the run does. For
`SlotsReturned`, `OnceInv` (a one-shot session has no step-over to leave behind) is all
that has to be added: each action that drops a session or a step-over frees the slots it
had, and `BpSlotsExclusive` makes them nobody else's.

*BoundInv* (sessions bound to a thread). Every live session covers its thread alone and
steps over on no other; live sessions have different targets; a register that is set is
that of a live session of its thread, armed, or of its pending step-over (`BpOwned`,
`WpOwned`); an exception was caused by such a register (`Caused`); and every used slot is
one of these (`SlotsHeld`). `ClaimedTraps` follows. `ServedInv` adds that
a session already dispatched for this execution of its instruction is in its callback, or
has its register off until another instruction; `ReadyInv` that an active session is
armed on its thread, about to be, or stepping over, where a pigeonhole over the slots
(`SpareSlot`) shows that a step-over always finds a register. Watchpoints are
covered as well as breakpoints. `HookInv`, for the refinement of `Hooks`, says that a
session which steps over waits at its thread's pc, or has been dispatched for the
instruction there and waits at the only one that can come next (`Waiting`), and that a
callback runs at an instruction its session is on (`AtHook`). A thread that executes an
instruction finds no register set for it; by `ReadyInv` a live session on that instruction
is then stepping over, and by `Waiting` it has been dispatched (`AllServed`). The hypotheses, all of which the constants of `hw_bound`
satisfy, are each needed:

- `Bound`: all sessions are bound to a thread, because a session has one step-over record
  for all its threads (the finding of `hw_two_threads`); nothing is ever detached (`Detachable
  = {}` rules out `detach` and `detachAll` alike), because a detach leaves a pending
  exception, or a step-over's register, with no session to claim it; no breakpoint is on
  an instruction that accesses a watched cell, and no two watchpoints overlap, because then
  the first session found claims the other's exception.
- `Straight`: no callback sets the pc and no instruction jumps to itself, because either
  brings the thread back to its breakpoint without another instruction in between.
- `Enough`: two registers for every breakpoint session, since a session that finds none for
  its step-over is left disarmed, and no thread that exits with its registers.
- `Decoded`: the instruction that `HandleException` takes to come next after a hooked one is
  the only one that can. It follows jumps for breakpoints, but takes a conditional branch to
  fall through and a watched access to be no branch; a step-over that waits elsewhere lets
  the hooked instruction run again without its callback.

*LeakInv.* A socket is open in the descriptor table from `accept4` to `close`. The
invariant ties the place of the server thread to the descriptor it holds (`newFd`
is not 0 exactly between accepting and listing), and says what a broadcasting
thread may still close. The bag arithmetic is in two lemmas (`LessBag`,
`RemovedType`).

*NetInv* adds the types of what the server reads and `OwnerInv`: requests are pending only
between one `poll` and the next, and no connection is accepted in between. A descriptor
that a request names may thus have been closed by a broadcasting thread, and the
application may have its number, but no other client can: `DirectOutput` needs no
hypothesis. That the output reaches a file of the application is possible; the code has no
protection against it.

*Orders* follows a request number from the client's socket (`InboxOrder`) through the
frame loop to the pending requests (`PendingOrder`), the one being answered (`CurOrder`)
and the client's stream (`StreamOrder`): at each place the numbers ascend, and those
behind are above those ahead. `OneFd` (a connection has one descriptor) keeps two
descriptors from supplying requests of one client. What the frame loop takes from a
buffer is described by the lemmas `RankOf`, `RankOrder`, `ParsedPrefix` and `GoodItems`.

*FrameInv* says of each stream that a header in it is followed by its payload, and that it
ends in a header only if its client has left or the server is about to send the payload to
that client, whose descriptor nobody can close meanwhile. `OneWriter` (no thread broadcasts,
no buffer is full) is needed: `net_interleave` shows the first, and the result of sending an
event is ignored, so that the response follows an event that was cut.

*NoStrandedThread* holds inductively because a hit sets the flag and clears the
command in one critical section, a command sets the pending word while it clears
the flag, and a waking thread consumes neither.

*Nesting* says that a thread in a lambda has a frame to return to, and that the frames it
comes back to rest where a method can be called. *StepsInv* says which command each frame
follows: for the running one (`Following`), that the mode and the depth it aims at are
those of the command it was told, that the pending command is still that one until it is
read again, and that the frame has not gone where the command forbids; for the frames
below (`Waiting`), the same of the thread's one `t_runMode` and `t_targetDepth`, which is
possible only because at most the innermost stepped breakpoint still has a command.

*HookInv* has three parts. The method's part bounds the age of every address that
may become the entry point (`Older`): the current entry, the handle's copy and all
origins are at most `n`. The stacks' part bounds the copies in frames the same way,
says how often the original has run by the place a frame is at (`Counted`), and
that the call of an original sits on the dispatcher that makes it. The third is
`CallbackNotNested` itself: the dispatcher enters a hook only where no frame of the
thread is in one, and a frame that is not a call of its own always has one below
it. Steps change stacks in three ways, and the lemmas `SetTopKeeps`, `PushKeeps` and
`PopKeeps` treat each once.

*CalmInv* is what holds until the calls of originals first overlap. At most one thread has
the entry point swapped (`Swaps`); what it will write back is where the entry point leads
otherwise (`Base`): the bridge while a replacement is armed, the method's code else. The
first bytes are patched exactly while an inline hook is armed.

*Session.* The lemma `SessionSteps` says what a step of the whole session does to the
gate: it is a step of `AgentGate`, or leaves the gate alone, or changes only `ctx` while
the injector holds the main thread (`Borrow`). The gate's theorems then need one case per
gate action. `WakeDue` is preserved because `FutexWait` compares the word, and because the
exchange that makes it 0 also makes a wake due. For the refinement, `Exchange` is
`Open`, `Poke` and `PokeOnly` are `Close`, `PauseStore` is `Park`, the main thread's
`Release` is `Send`,
`Check` with the word at 0 is `Leave`, and everything else stutters. `Registers` adds
what `OwnRegisters` lacks: `ctx` is that of a call exactly during a call, calls are made
only while the main thread is held, and while the main thread is to use the saved
context and nobody crossed it, the context's pc is the injector's. Remote calls end in
five ways, all of them in `Restore` (`EndsInRestore`). `SessionInv` adds to the
types that a round of the re-arming thread that reaches its check is one of the `MaxRearm`.
`EarlyInv` orders the programs: clients come after the injector and re-arming after the
boot (`Phases`), the trampoline is set last (`MainPlace`), and whoever can have opened the
gate has armed the main thread or had a reason not to (`ArmedFirst`). The delicate case is
the boot that adds its breakpoints while the injector still holds the main thread, which
it therefore cannot arm: nobody can have opened the gate yet, because the re-arming thread
starts after the boot and scripts after the injector has let go.

*Interpreter.* `OwnedRefs` needs to know the whole stack of runs. `FramesInv` says of each
frame that its references are its own and at its level, or, of one that took a raw result
of native code, that whatever it may delete is at its level (`InReach`), so that it does
no harm to the frames below; `ShapeInv`, that the first frame is
a hook's and that every frame but the last waits for the next one, in a JNI call or a
step-in that expects the callee's type; `LevelInv` and `LastInv`, that no reference is
above the innermost local frame and a result not yet taken is in it. For `ExitsUndone`,
`MsInv` gives the ManagedStack as a function of the stack, and `PendInv` maps the waiting
frames that have a post callback, in order, into the records of pending calls, whatever
records of hand-offs and of sessions without one lie between.

*References.* `RefInv` makes the references of the table and those of the ring two
one-to-one families that never meet; that a free reference exists when one is made is a
pigeonhole over the bounds. `HandleInv` says that the base of every callback in progress
is at or above a handle made quietly, so that no pop removes it.

*Tools.* `RealInv`: at each step of installing or removing the trampolines the backup of a
slot is the real function, or the table still has it. `PairInv`: calls are numbered in
order, and while no session began over earlier frames the tracer's frames are the calls
entered through trampolines, innermost last. `PatchInv`: the active patches are the cells
in use, and a byte that no other code wrote, no two patches share and no failed restore
left (`UndoInv`) was original when each patch that covers it was made. `ImplInv`: thunks
are handed out once, so a call's slot determines its registration. `BoundInv`: a slot
leads to its own method or nowhere, and not nowhere from binding until the natives are
unregistered. `FlightInv`: the binding a call's thunk had is still there, or its
registration is over; registrations that are over stay so (`OverForGood`) and thunks are
not used again.

`ToolsTypes` is about the composition that the run checks; the lemma `ToolsCompose` says
that its behaviours are behaviours of each tool, which share no variable.

The assumptions are those of the modules: constants have their types, `MaxHooks` is
positive, `MaxDepth` at least 2, an interpreted method has a reference to pass (`NRef` is
positive), the server thread is not one of the broadcasting threads, special values are
not members of the sets they are added to. Where a theorem has a hypothesis of its own, the
table says so and the text above says why the code needs it.

## What is only model-checked

Liveness (`RecurringHits`, `RequestsAnswered`, `ScriptRuns`, `CallsReturn`, `AutoResumed`,
`ResumeHeeded`) is outside what the prover handles. Every invariant and action property
that a passing run checks is stated by a theorem. Outside their hypotheses (`Bound`,
`Straight`, `Enough`, `Decoded`, `OneWriter`, no watchpoints) the theorems that have one say
nothing; the runs that expect a
violation show what happens there where the code or its documents promise more.

## Where code and text disagree

With a run (see the findings in `PROJECT.json`): the step-over record of
`pi_hw_hook.cpp:683`, frames without a lock (`agent_net.cpp:75`), the script that waits
for its own lock (`agent_trace.cpp:291`), the entry point that is restored wrongly
(`pine_native.cpp:946`), and the gate that stays closed (`main.cpp:685`).

Seen while modelling, without a run. Hooks, breakpoints and the server:

* `next_pc` decodes RET, B, BL, BR and BLR only (`pi_hw_hook.cpp:659-680`): a breakpoint
  on a conditional branch that is taken is not re-armed, although `README_EN.md:522`
  says the manager "handles step-over and re-arming upon each hit".
* A thread at the bridge when `unhook` runs returns without running the method
  (`pine_native.cpp:1363`; `pi_hook_handle.h:16`: "Supports unhooking at any time").
* `agent_net.cpp:375` closes a failed descriptor by number although the server may
  have closed it and accepted a new connection with the same number; the new
  connection is then closed and stays listed, against "Active client connection count"
  (`agent_net.h:26`). Two connections that get the same number one after the other are
  enough for it.
* `agent_net.h:17` names ports 27183 to 27190, the server binds 20700 to 20800.
* `pi_hw_hook.h:156` says the lock is held while the user callback runs; it is not.
* The step-over record that a second thread overwrites (`hw_two_threads`) also takes the
  slot of the first step-over with it, for good. A detach while the session's exception is
  pending, or its step-over under way, leaves an exception that no session claims.
* A breakpoint on the instruction that accesses a watched cell is dispatched for the
  watchpoint's exception as well, and repeats (`pi_hw_hook.cpp:549`).
* Two watchpoints and a breakpoint can leave no slot for a step-over; the session
  stays listed and inactive (`pi_hw_hook.cpp:707`).
* A frame that is cut by a full socket buffer keeps its connection
  (`agent_net.cpp:343`).
* An unconditional breakpoint met by a script's own call puts the server thread to
  sleep, although the comment at `agent_debug.cpp:935` expects such calls to pass.
* A stepped method that calls another method with a breakpoint through JNI enters the
  lambda again on the same thread, which resets `t_runMode` and `t_targetDepth`
  (`agent_debug.cpp:1055-1056`, `1086`): the outer method forgets its command, be it `c`,
  and pauses at its next instruction.
* Which frame `r` leaves is decided by the last snapshot, which may be another thread's.
* `RunNativeStepped` answers with x0 of the native callee as a `jobject`
  (`agent_debug.cpp:913`, `1078-1081`), which the interpreter then owns: it may be a global
  reference or one that a register has already, and is deleted once too often.
* `r` in a native callee that is being stepped acts as `c`; `setreg` may write through
  a snapshot whose frame is gone; `D()` may leave a thread paused that hits a
  breakpoint between its two steps.
* `unhook` during a call of the original is undone when that call restores the
  bridge (`pi_hook_handle.cpp:60`); `is_inline` is wrong when an inline installation
  falls back to a replacement (`pi_method.cpp:73`).
* `unregisterMethodHook` deletes the class's global reference while a dispatcher that
  copied the entry may still use it (`pine_native.cpp:1664`); the condition's event
  object is built in QuickJS before the lock is taken (`agent_debug.cpp:1044`).
* `init()` assumes a capacity the CPU may not have (`pi_hw_hook.cpp:170`).
* `GumHooker::replace` keeps no listener, so `unhook` of a replacement returns false
  (`pi_gum_hooker.cpp:379-387`).

Interpreter:

* `trStepIn` answers 1 also when the callee threw or was aborted
  (`pi_interp_tracer.cpp:488`): the callee is called again through JNI, with the
  exception pending, and an abort in a callee does not abort the run.
* The budget "total instructions across the session" (`pi_interp_tracer.cpp:262`) is
  counted per frame; a hand-off skips the post callback and leaves its record, and every
  call of a session without a post callback leaves one (`pi_interp_tracer.cpp:501-504`), so
  that a later trace may report the record of another call at the same depth; a
  resolver that fails without an exception ends the run with an unassigned result and
  status OK; with any other status the dispatcher runs the original after part of the
  method has run already; monitors entered before an abort stay entered.
* `ResolverBridge` holds a mutex that is not recursive while it calls into ART, which
  may load a class through a hooked loader; negative byte and short arguments lose
  their sign (`pi_interp_executor.cpp:539-569`).

References, JNI, patches, classes:

* A handle a script keeps ("persistent", `README.md:33`) is removed or comes to name
  another object when it was made while a callback was in progress that then returns;
  `AddJRef` finds an entry by a heap address that may be stale. `QuietHandles` is the
  part that holds.
* Stopping and starting the JNI tracer over a long call pairs a result with another
  call's description (`agent_jni.cpp:524`). `PairedWhenClean` is the part that holds.
* `restoreAll` restores stacked patches oldest first, so the bytes of the first stay;
  script objects then refer to freed or reused `MemoryPatch` memory. It ignores a restore
  that fails and drops the patch (`agent_memory.cpp:416`), so that its bytes stay as well.
* A call that has entered a thunk when its class is disposed finds no binding and returns
  null (`agent_java_registerclass.cpp:199-206`).
* `registerClass` twice with one name returns the first class again: disposing either
  unregisters the natives of both, and a second one with other methods fails after it
  has replaced some natives. A native method called from the implementation of
  another waits for the lock its thread holds (`agent_java_registerclass.cpp:214`).
  A failed registration keeps its thunks.

Gate and injector:

* Another thread that parks at `--stop-lib` overwrites the pc the trampoline is to use
  (`agent_main.cpp:150`), or closes the gate again behind the automatic resume; a
  thread in a script or a callback parks there with `g_jsMutex` held, so that the worker
  never runs the resume that would let it go.
* Of a remote `dlopen` only x0 is looked at (`ptrace_inject.cpp:281-289`, `507`, `549`,
  `572`): one that a signal cut short counts as a load, and the main thread may be gated
  for an agent that never starts.
* The re-arming thread may fall back, and give up, before the injector has closed the gate:
  its rounds take 2 s and a remote `dlopen` may take 8 s. `AutoResumed` is about a resume
  that is still pending. If that thread cannot be created (`agent_main.cpp:341`), nobody
  resumes by itself either.
* When the gate's word is written and the registers are refused (`ptrace_inject.cpp:595-600`)
  the process counts as paused although its main thread runs.
* A remote call that returns just as it times out leaves a SIGSTOP behind: the next
  call is spoilt, or the application is stopped after the injector has gone
  (`ptrace_inject.cpp:273-277`).
* A script sent before `InitJs` is answered with an error text and `ok` true, so a
  resume sent early is silently not run.

## What is not modelled

Register values and memory contents, arguments and results, text output, the
JavaScript engine's own state, managed-stack and garbage-collector guards of the
dispatcher, access flags, and entry points that ART changes by itself (JIT, class
initialisation). `registerClassHook`, `PineNative_HookReplace` and Pine's Java bridge
are not used by the agent's hooks. A thread that enters a bridge has a JNIEnv, so the
dispatcher's return without one (`pine_native.cpp:1368-1371`) is left out. In the interpreter: the values arithmetic computes,
array and field contents, monitors. `Java.loadDex`, which keeps a table of handles and
nothing else, and the fields of the boot configuration.

Half of the repository's lines are libraries it carries along (QuickJS with its
Unicode tables and big numbers, and those under `external/`: the headers of frida-gum and
QBDI, dexter, KittyMemory, xDL, xz-embedded and others); they are used as they are and modelled only by what the agent relies on. Of
the project's own code the largest parts left out are the Unity bridge, Java
resolution and search, disassembly and decompilation, and the REPL's terminal: they
read state and print it, and have no step that another thread could disturb.
Components that are not modelled are listed in `PROJECT.json` with the reason.

## Plan

Done: inventory; `HwHook`, `AgentNet`, `AgentDebug`, `PineHook` with runs and theorems;
the gate and hardware hooks with their abstract specifications, refinements and theorems;
the session from
injection to exit; the interpreter; references, JNI tracer, patches and generated
classes; theorems about all of them.

Next, in this order:

1. Native hooks (`pi_gum_hooker.cpp`): listeners and handles with threads inside while
   scripts remove them.
2. The DEX writer's index order and LEB128 as functions, against reference definitions.

Abstract specifications worth stating: a debugger as a set of independent pauses,
which `AgentDebug` implements for one paused thread; a hooked method as a call that
runs a callback around its body, which `PineHook` implements while `calm` holds.
