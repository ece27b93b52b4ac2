---------------------------------- MODULE Interp ----------------------------------
(***************************************************************************)
(* Interpreted runs of hooked methods: the Dalvik interpreter of           *)
(* engine/nmmvm (vmInterpret2), the session that observes it               *)
(* (src/sandbox/pi_interp_tracer.cpp) and the executor that sets frames up *)
(* and takes them down (src/sandbox/pi_interp_executor.cpp).               *)
(*                                                                         *)
(* One thread is modelled: its stack of interpreted frames, the JNI local  *)
(* references that are live in each pushed local frame, the pending        *)
(* exception, the records of calls whose "post" callback is due and the    *)
(* thread's ManagedStack words.  The bytecode is any bytecode the verifier *)
(* admits: at each step any instruction may be the next one.  A register   *)
(* holds a local reference, none (a primitive or null) or, after a native  *)
(* callee was run under the instruction engine, anything else; and         *)
(* instructions that differ only in the value they compute are one action. *)
(* Monitors are not tracked, and native code that is run under the engine  *)
(* does not call back into hooked methods.                                 *)
(***************************************************************************)
EXTENDS Naturals, Sequences, FiniteSets

CONSTANTS Reg,           \* registers of a frame, parameters first
          Param,         \* the registers that receive the arguments
          NRef,          \* number of local references the model may have alive
          MaxInsns,      \* Options::max_instructions
          MaxDepth,      \* Options::max_depth
          SafeHandoff,   \* Options::safe_handoff
          Sessions,      \* the callbacks that hooks give their runs
          MaxStack,      \* bound: frames on the stack, nested hooks included
          MaxStale       \* bound: records of abandoned calls

LocalRef == 1..NRef
None == 0                \* no reference: a primitive or null
Junk == NRef + 1         \* retval before anything was assigned to it
Foreign == NRef + 2      \* a global reference, or whatever x0 held after native code
Value == (0..NRef) \cup {Foreign}

\* What a session has of onInvoke and onInvokePost: none of them (plain interpretation),
\* the first (the debugger), both (invokeTrace).
Callbacks == {"none", "pre", "both"}

ASSUME InterpAssumption ==
    /\ Param \subseteq Reg
    /\ NRef \in Nat \ {0}
    /\ {MaxInsns, MaxDepth, MaxStack, MaxStale} \subseteq Nat
    /\ SafeHandoff \in BOOLEAN
    /\ Sessions \subseteq Callbacks

VARIABLES
    stack,    \* interpreted frames, the running one last
    level,    \* level[r]: the local frame reference r lives in, Free when dead
    exc,      \* is a Java exception pending on env
    pend,     \* pendingCalls(): the depth each recorded call was made at
    ms,       \* ManagedStack words: "real", or "zero" inside a boundary
    last      \* what the last hook's run left for the dispatcher

interpVars == <<stack, level, exc, pend, ms, last>>

Free == 0
n == Len(stack)
top == stack[n]

\* The local frame pushed for the k-th interpreted frame is number k + 1; the
\* hook callback itself runs in local frame 1.
Local(k) == k + 1

\* A register file fresh from the code item.
NoRegs == [r \in Reg |-> [v |-> None, own |-> FALSE]]

NoResult == [status |-> "none", res |-> None, exc |-> FALSE]

Live(k) == {r \in LocalRef : level[r] = k}
Unused == Live(Free)

InterpInit ==
    /\ stack = <<>>
    /\ level = [r \in LocalRef |-> Free]
    /\ exc = FALSE
    /\ pend = <<>>
    /\ ms = "real"
    /\ last = NoResult

-----------------------------------------------------------------------------
(* JNI local references and the register macros.                           *)

\* A new local reference gets the lowest free entry of the reference table.
Fresh == CHOOSE r \in Unused : \A x \in Unused : r <= x

\* DELETE_LOCAL_REF: what deleting the register's old content leaves alive.
Deleted(lv, f, d) ==
    IF f.regs[d].own /\ f.regs[d].v \in LocalRef THEN [lv EXCEPT ![f.regs[d].v] = Free] ELSE lv

\* SET_REGISTER and SET_REGISTER_AS_OBJECT.
Set(f, d, v)       == [f EXCEPT !.regs[d] = [v |-> v, own |-> FALSE]]
SetObject(f, d, v) == [f EXCEPT !.regs[d] = [v |-> v, own |-> TRUE]]

\* The new value of the running frame.
SetTop(f) == stack' = [stack EXCEPT ![n] = f]

\* The running frame with one more instruction counted (FINISH and trOnInsn).
Counted == [top EXCEPT !.used = @ + 1, !.got = "none"]

\* The callback lets the next instruction run: the budget is not exhausted.
CanStep == n > 0 /\ top.mode = "run" /\ top.used < MaxInsns

-----------------------------------------------------------------------------
(* Exceptions: GOTO_exceptionThrown.                                        *)

\* The pending exception is taken from env; a handler that starts with
\* move-exception gets it back, another handler does not, and without a
\* handler it is thrown again and the frame is left with whatever retval holds.
Thrown(f) ==
    \/ /\ SetTop([f EXCEPT !.mode = "handler"])
       /\ exc' = TRUE
    \/ /\ SetTop([f EXCEPT !.mode = "run"])
       /\ exc' = FALSE
    \/ /\ SetTop([f EXCEPT !.mode = "done"])
       /\ exc' = TRUE

\* The resolver returned NULL and nothing is pending: the frame is left too.
NothingThrown(f) ==
    /\ SetTop([f EXCEPT !.mode = "done"])
    /\ exc' = FALSE

-----------------------------------------------------------------------------
(* Instructions.                                                            *)

\* trOnInsn stops the frame: the budget is used up or the callback says no.
AbortInsn ==
    /\ n > 0
    /\ top.mode \in {"run", "handler"}
    /\ SetTop([Counted EXCEPT !.aborted = TRUE, !.ret = None, !.mode = "done"])
    /\ UNCHANGED <<level, exc, pend, ms, last>>

\* trOnInsn stops the run before an allocation or a call of a system method.
Handoff ==
    /\ SafeHandoff
    /\ CanStep
    /\ SetTop([Counted EXCEPT !.aborted = TRUE, !.handoff = TRUE, !.ret = None, !.mode = "done"])
    /\ UNCHANGED <<level, exc, pend, ms, last>>

\* A primitive is written to register d.
SetPrim(d) ==
    /\ CanStep
    /\ SetTop(Set(Counted, d, None))
    /\ level' = Deleted(level, top, d)
    /\ UNCHANGED <<exc, pend, ms, last>>

\* Mutant: the destination shares the source's reference.
MoveObjectShared(d, s) ==
    /\ CanStep
    /\ SetTop(SetObject(Counted, d, top.regs[s].v))
    /\ level' = IF d = s THEN level ELSE Deleted(level, top, d)
    /\ UNCHANGED <<exc, pend, ms, last>>

\* move-object makes a reference of its own for the destination.
MoveObject(d, s) ==
    /\ CanStep
    /\ \/ /\ top.regs[s].v = None
          /\ SetTop(SetObject(Counted, d, None))
          /\ level' = Deleted(level, top, d)
       \/ /\ top.regs[s].v # None
          /\ Unused # {}
          /\ SetTop(SetObject(Counted, d, Fresh))
          /\ level' = Deleted([level EXCEPT ![Fresh] = Local(n)], top, d)
    /\ UNCHANGED <<exc, pend, ms, last>>

\* Register d gets an object from JNI, a new local reference, or null.
GetObject(d) ==
    /\ CanStep
    /\ \/ /\ SetTop(SetObject(Counted, d, None))
          /\ level' = Deleted(level, top, d)
       \/ /\ Unused # {}
          /\ SetTop(SetObject(Counted, d, Fresh))
          /\ level' = Deleted([level EXCEPT ![Fresh] = Local(n)], top, d)
    /\ UNCHANGED <<exc, pend, ms, last>>

\* No register changes.
NoEffect ==
    /\ CanStep
    /\ SetTop(Counted)
    /\ UNCHANGED <<level, exc, pend, ms, last>>

\* An instruction raises before it writes its destination, or throw raises.
Raise ==
    /\ CanStep
    /\ Thrown(Counted)
    /\ UNCHANGED <<level, pend, ms, last>>

\* A read outside an array writes the destination before the exception is
\* looked at: null for an object, an uninitialised value for a narrow primitive.
AgetOutside(d) ==
    /\ CanStep
    /\ \/ Thrown(SetObject(Counted, d, None))
       \/ Thrown(Set(Counted, d, None))
    /\ level' = Deleted(level, top, d)
    /\ UNCHANGED <<pend, ms, last>>

\* A class, field, method or string cannot be resolved: with an exception, or
\* without one.
ResolveFails ==
    /\ CanStep
    /\ Thrown(Counted) \/ NothingThrown(Counted)
    /\ UNCHANGED <<level, pend, ms, last>>

\* move-result and move-result-object follow a call; retval keeps its value.
MoveResult(d) ==
    /\ CanStep
    /\ \/ /\ top.got = "prim"
          /\ SetTop(Set(Counted, d, top.ret))
       \/ /\ top.got = "obj"
          /\ SetTop(SetObject(Counted, d, top.ret))
    /\ level' = Deleted(level, top, d)
    /\ UNCHANGED <<exc, pend, ms, last>>

\* move-exception is the first instruction of the handler.
MoveException(d) ==
    /\ n > 0
    /\ top.mode = "handler"
    /\ top.used < MaxInsns
    /\ Unused # {}
    /\ SetTop([SetObject(Counted, d, Fresh) EXCEPT !.mode = "run"])
    /\ level' = Deleted([level EXCEPT ![Fresh] = Local(n)], top, d)
    /\ exc' = FALSE
    /\ UNCHANGED <<pend, ms, last>>

\* return-void, return, return-wide and return-object leave the frame.
OpReturn ==
    /\ CanStep
    /\ \/ /\ top.type = "prim"
          /\ SetTop([Counted EXCEPT !.ret = None, !.mode = "done"])
       \/ /\ top.type = "obj"
          /\ \E s \in Reg : SetTop([Counted EXCEPT !.ret = top.regs[s].v, !.mode = "done"])
    /\ UNCHANGED <<level, exc, pend, ms, last>>

\* filled-new-array leaves the array in retval, as a call does.
FilledNewArray ==
    /\ CanStep
    /\ Unused # {}
    /\ SetTop([Counted EXCEPT !.ret = Fresh, !.got = "obj"])
    /\ level' = [level EXCEPT ![Fresh] = Local(n)]
    /\ UNCHANGED <<exc, pend, ms, last>>

-----------------------------------------------------------------------------
(* The instruction set, by what an instruction does to the frame.           *)

\* move and its wide forms; const and its wide forms
Move(d)          == SetPrim(d)
Const(d)         == SetPrim(d)
\* unary, conversion and three-register arithmetic; two-register and literal forms
Arith(d)         == SetPrim(d)
ArithInPlace(d)  == SetPrim(d)
\* cmp of float, double and long
Compare(d)       == SetPrim(d)
\* instance-of and array-length
Inspect(d)       == SetPrim(d)
\* aget, iget and sget of primitives
ReadPrim(d)      == SetPrim(d)
\* const-string and const-class; new-instance and new-array; iget and sget of objects
ConstObject(d)   == GetObject(d)
NewObject(d)     == GetObject(d)
ReadObject(d)    == GetObject(d)
\* goto and switch; if
Branch           == NoEffect
Test             == NoEffect
\* aput; iput; sput; fill-array-data; monitors; check-cast
WriteArray       == NoEffect
WriteField       == NoEffect
WriteStatic      == NoEffect
FillArray        == NoEffect
Monitor          == NoEffect
CheckCast        == NoEffect

WritesPrim(d) ==
    \/ Move(d) \/ Const(d) \/ Arith(d) \/ ArithInPlace(d) \/ Compare(d) \/ Inspect(d) \/ ReadPrim(d)
WritesObject(d) == ConstObject(d) \/ NewObject(d) \/ ReadObject(d)
WritesNothing ==
    \/ Branch \/ Test \/ WriteArray \/ WriteField \/ WriteStatic \/ FillArray
    \/ Monitor \/ CheckCast

-----------------------------------------------------------------------------
(* Calls: TRACED_INVOKE, trOnInvokePre, trStepIn and trOnInvokePost.        *)

\* retval is zeroed and the pre callback records the call, then decides; a
\* session without onInvoke records nothing.
Calling(t) == [Counted EXCEPT !.ret = None, !.got = t]
Recorded == IF top.cbs = "none" THEN pend ELSE Append(pend, n)

\* The post callback takes the last record back, in a session that has one; an
\* exception is then thrown, or the frame goes on with its result.
Post(stk, f, e, pd) ==
    /\ pend' = IF f.cbs = "both" THEN SubSeq(pd, 1, Len(pd) - 1) ELSE pd
    /\ \/ /\ ~e
          /\ stack' = Append(stk, [f EXCEPT !.mode = "run"])
          /\ exc' = FALSE
       \/ /\ e
          /\ \E m \in {"handler", "run", "done"} :
                /\ stack' = Append(stk, [f EXCEPT !.mode = m])
                /\ exc' = (m # "run")

\* A native callee has run under the instruction engine and x0 is taken as it is:
\* nothing, a new local reference, or, for an object, what native code may return and
\* JNI would have turned into one: an argument, a global reference, or no reference.
RunNative(t, e) ==
    \/ /\ Post(SubSeq(stack, 1, n - 1), Calling(t), e, Recorded)
       /\ level' = level
    \/ /\ t = "obj" /\ ~e /\ Unused # {}
       /\ Post(SubSeq(stack, 1, n - 1), [Calling(t) EXCEPT !.ret = Fresh], e, Recorded)
       /\ level' = [level EXCEPT ![Fresh] = Local(n)]
    \/ /\ t = "obj" /\ ~e
       /\ \E v \in {top.regs[s].v : s \in Reg} \cup {Foreign} :
             Post(SubSeq(stack, 1, n - 1), [Calling(t) EXCEPT !.ret = v, !.raw = TRUE], e, Recorded)
       /\ level' = level

\* The debugger's callback steps through the native callee and mocks the call with
\* what it returned.
InvokeMock ==
    /\ CanStep
    /\ top.cbs = "pre"
    /\ \E t \in {"prim", "obj"}, e \in BOOLEAN : RunNative(t, e)
    /\ UNCHANGED <<ms, last>>

\* The callee is called through JNI.
InvokeJni ==
    /\ CanStep
    /\ \E t \in {"prim", "obj"} : SetTop([Calling(t) EXCEPT !.mode = "jni"])
    /\ pend' = Recorded
    /\ ms' = "real"
    /\ UNCHANGED <<level, exc, last>>

\* packRegisters: every object argument becomes a reference of the callee's
\* local frame; the caller's registers keep theirs.  A packing gives each object
\* parameter one of the unused entries, lowest first.
Objects(args) == {p \in Param : args[p] # None}
Packings(args) ==
    {ref \in [Objects(args) -> Unused] :
       /\ \A p, q \in Objects(args) : ref[p] = ref[q] => p = q
       /\ \A x \in Unused, p \in Objects(args) :
             x < ref[p] => \E q \in Objects(args) : ref[q] = x}

packRegisters(args, ref) ==
    [r \in Reg |->
       IF r \in Objects(args) THEN [v |-> ref[r], own |-> TRUE]
       ELSE [v |-> None, own |-> FALSE]]

\* The references of a packing are alive in local frame k.
Packed(ref, k) ==
    [x \in LocalRef |-> IF \E p \in DOMAIN ref : ref[p] = x THEN k ELSE level[x]]

NewFrame(regs, type, root, cbs) ==
    [regs |-> regs, ret |-> Junk, mode |-> "run", used |-> 0, got |-> "none",
     type |-> type, root |-> root, cbs |-> cbs, raw |-> FALSE, saved |-> ms,
     aborted |-> FALSE, handoff |-> FALSE]

\* runMethodInternal: PushLocalFrame, packRegisters, and the interpreter starts
\* on the new frame; stk is the stack below it.
RunMethod(stk, args, type, root, cbs) ==
    \E ref \in Packings(args) :
       /\ stack' = Append(stk, NewFrame(packRegisters(args, ref), type, root, cbs))
       /\ level' = Packed(ref, Local(Len(stk) + 1))

\* The arguments of a call are register contents of the caller.
Arguments == {[p \in Param |-> top.regs[c[p]].v] : c \in [Param -> Reg]}

\* The session's depth: frames stepped into since the hook that began the run.
Depth == Cardinality({k \in 1..n : \A j \in k..n : ~stack[j].root})

\* trStepIn runs the callee in a frame of its own ...
InvokeStepIn ==
    /\ CanStep
    /\ n < MaxStack
    /\ Depth < MaxDepth
    /\ \E t \in {"prim", "obj"}, args \in Arguments :
          RunMethod([stack EXCEPT ![n] = [Calling(t) EXCEPT !.mode = "step"]], args, t, FALSE,
                    top.cbs)
    /\ pend' = Recorded
    /\ UNCHANGED <<exc, ms, last>>

\* ... or, when it is native and native step-in is enabled, under the engine ...
NativeStepIn ==
    /\ CanStep
    /\ top.cbs = "both"
    /\ Depth < MaxDepth
    /\ \E t \in {"prim", "obj"}, e \in BOOLEAN : RunNative(t, e)
    /\ UNCHANGED <<ms, last>>

\* ... unless runMethodInternal refuses it (no code, an unresolvable dex, an
\* opcode the interpreter lacks, arguments that do not fit, no room for a local
\* frame) or the engine does not finish: whatever was pushed is popped, and the call
\* is made through JNI.
StepInRefused ==
    /\ CanStep
    /\ \E t \in {"prim", "obj"}, e \in BOOLEAN :
          /\ SetTop([Calling(t) EXCEPT !.mode = "jni"])
          /\ exc' = e
    /\ pend' = Recorded
    /\ ms' = "real"
    /\ UNCHANGED <<level, last>>

\* The JNI call returns: a reference in the caller's local frame, a primitive, or
\* an exception, one that was pending before the call included.
JniReturn ==
    /\ n > 0
    /\ top.mode = "jni"
    /\ last = NoResult
    /\ \E e \in BOOLEAN :
          /\ exc => e
          /\ \/ /\ Post(SubSeq(stack, 1, n - 1), [top EXCEPT !.ret = None], e, pend)
                /\ level' = level
             \/ /\ top.got = "obj" /\ ~e /\ Unused # {}
                /\ Post(SubSeq(stack, 1, n - 1), [top EXCEPT !.ret = Fresh], e, pend)
                /\ level' = [level EXCEPT ![Fresh] = Local(n)]
    /\ ms' = "zero"
    /\ UNCHANGED last

-----------------------------------------------------------------------------
(* The end of a frame: runMethodInternal after vmInterpret2.                *)

\* What the caller gets.  An object result must be a local reference of the dying
\* frame (GetObjectRefType) or a global one, which gets a local reference first; a
\* retval that was never assigned may happen to be one, and anything else is dropped.
Results ==
    IF exc \/ top.type = "prim" THEN {None}
    ELSE IF top.ret = Junk THEN {None} \cup Live(Local(n))
    ELSE IF top.ret = Foreign THEN {None} \cup {r \in Unused : r = Fresh}
    ELSE {IF top.ret \in Live(Local(n)) THEN top.ret ELSE None}

\* Mutant: a run that was aborted leaves its local frame pushed.
PoppedFrameUnlessAborted(res) ==
    IF top.aborted THEN level
    ELSE [r \in LocalRef |-> IF r = res THEN Local(n - 1)
                             ELSE IF level[r] = Local(n) THEN Free ELSE level[r]]

\* PopLocalFrame(res): everything of the dying local frame goes, except the result,
\* which the caller receives in its own local frame.
PoppedFrame(res) ==
    [r \in LocalRef |-> IF r = res THEN Local(n - 1)
                        ELSE IF level[r] = Local(n) THEN Free ELSE level[r]]

\* A frame that was stepped into hands its outcome to the caller's trStepIn.
StepReturns ==
    /\ n > 0
    /\ top.mode = "done"
    /\ ~top.root
    /\ \E res \in Results :
          LET below  == SubSeq(stack, 1, n - 2)
              caller == stack[n - 1]
          IN  /\ level' = PoppedFrame(res)
              /\ \/ /\ top.handoff     \* the caller's frame is given up as well
                    /\ stack' = Append(below, [caller EXCEPT !.aborted = TRUE, !.handoff = TRUE,
                                                             !.ret = None, !.mode = "done"])
                    /\ UNCHANGED <<exc, pend, ms>>
                 \/ /\ ~top.handoff /\ (top.aborted \/ exc)   \* the call is made through JNI
                    /\ stack' = Append(below, [caller EXCEPT !.mode = "jni"])
                    /\ ms' = "real"
                    /\ UNCHANGED <<exc, pend>>
                 \/ /\ ~top.aborted /\ ~exc
                    /\ Post(below, [caller EXCEPT !.ret = res], FALSE, pend)
                    /\ ms' = ms
    /\ UNCHANGED last

\* The frame of the hooked method itself: the boundary is left, and the hook's
\* CallFrame gets the result.
RootReturns ==
    /\ n > 0
    /\ top.mode = "done"
    /\ top.root
    /\ \E res \in Results :
          /\ level' = PoppedFrame(res)
          /\ last' = [status |-> IF top.handoff THEN "handoff"
                                 ELSE IF top.aborted THEN "aborted" ELSE "ok",
                      res |-> res, exc |-> exc]
    /\ stack' = SubSeq(stack, 1, n - 1)
    /\ ms' = top.saved
    /\ UNCHANGED <<exc, pend>>

-----------------------------------------------------------------------------
(* Hooks that interpret: invokeTraceInternal and invokeInterpreterInternal. *)

\* A hooked method is called, by the application or by a method an interpreted
\* frame has called through JNI.
CanHook ==
    /\ last = NoResult
    /\ ~exc
    /\ n < MaxStack
    /\ n = 0 \/ (n > 0 /\ top.mode = "jni")

\* The callback interprets the method inside a ManagedStack boundary.
HookRun ==
    /\ CanHook
    /\ Len(pend) <= MaxStale
    /\ \E t \in {"prim", "obj"}, obj \in SUBSET Param, cbs \in Sessions :
          \* the hook's arguments: CallFrame::getArg made references for the objects
          LET args == [p \in Param |-> IF p \in obj THEN 1 ELSE None]
          IN  RunMethod(stack, args, t, TRUE, cbs)
    /\ ms' = "zero"
    /\ UNCHANGED <<exc, pend, last>>

\* The executor refuses the method; the hook returns without a result.
HookRefused ==
    /\ CanHook
    /\ last' = [status |-> "refused", res |-> None, exc |-> FALSE]
    /\ UNCHANGED <<stack, level, exc, pend, ms>>

\* The dispatcher takes what the hook left, runs the original method unless the
\* interpreter has replaced it, and returns to the caller; back in managed code the
\* callback's own references are gone and a pending exception is delivered.
Dispatch ==
    /\ last # NoResult
    /\ last' = NoResult
    /\ level' = IF n = 0 THEN [r \in LocalRef |-> IF level[r] = Local(0) THEN Free ELSE level[r]]
                ELSE level
    /\ exc' = (n > 0 /\ exc)
    /\ UNCHANGED <<stack, pend, ms>>

-----------------------------------------------------------------------------
\* The instructions of the running frame and the callbacks around them.
Interpreting ==
    \/ AbortInsn
    \/ Handoff
    \/ WritesNothing
    \/ Raise
    \/ ResolveFails
    \/ FilledNewArray
    \/ OpReturn
    \/ \E d \in Reg :
          \/ WritesPrim(d) \/ WritesObject(d)
          \/ AgetOutside(d) \/ MoveResult(d) \/ MoveException(d)
    \/ \E d, s \in Reg : MoveObject(d, s)
    \/ InvokeMock
    \/ InvokeJni
    \/ InvokeStepIn
    \/ NativeStepIn
    \/ StepInRefused
    \/ StepReturns
    \/ RootReturns
    \/ Dispatch

InterpNext == Interpreting \/ JniReturn \/ HookRun \/ HookRefused

InterpSpec == InterpInit /\ [][InterpNext]_interpVars

-----------------------------------------------------------------------------
(* Properties.                                                              *)

Modes == {"run", "handler", "jni", "step", "done"}

Frame == [regs : [Reg -> [v : Value, own : BOOLEAN]], ret : Value \cup {Junk}, mode : Modes,
          used : Nat, got : {"none", "prim", "obj"}, type : {"prim", "obj"}, root : BOOLEAN,
          cbs : Callbacks, raw : BOOLEAN, saved : {"real", "zero"}, aborted : BOOLEAN, handoff : BOOLEAN]

InterpTypeOK ==
    /\ stack \in Seq(Frame)
    /\ level \in [LocalRef -> Nat]
    /\ exc \in BOOLEAN
    /\ pend \in Seq(Nat)
    /\ ms \in {"real", "zero"}
    /\ last \in [status : {"none", "ok", "aborted", "handoff", "refused"},
                 res : Value, exc : BOOLEAN]

\* The registers that hold a local reference, of frames that took no result of native
\* code as it was.
Holders == {h \in (1..n) \X Reg : ~stack[h[1]].raw /\ stack[h[1]].regs[h[2]].v \in LocalRef}
Held(h) == stack[h[1]].regs[h[2]].v

\* Every reference in a register belongs to that register alone and is alive in the
\* local frame of its interpreted frame: DELETE_LOCAL_REF never deletes a reference
\* twice, a reference of the caller, or one another register still uses.  The object
\* a call has returned is alive in the frame that called, and no register holds it
\* yet, when the next instruction may be move-result-object.  A frame that has taken
\* x0 of native code for a local reference may delete its own references twice, and
\* is left out; its callers and the frames it calls are not.
OwnedRefs ==
    /\ \A h \in Holders : stack[h[1]].regs[h[2]].own /\ level[Held(h)] = Local(h[1])
    /\ \A g, h \in Holders : Held(g) = Held(h) => g = h
    /\ \A k \in 1..n :
          ~stack[k].raw /\ stack[k].mode = "run" /\ stack[k].got = "obj" /\ stack[k].ret \in LocalRef
             => level[stack[k].ret] = Local(k) /\ \A h \in Holders : Held(h) # stack[k].ret

\* Every exit of runMethodInternal undoes what the run set up, however hooks, step-ins,
\* refusals and hand-offs nest: no reference outlives its local frame but the result of
\* the hook's run, which is alive in the callback's; managed code runs with the
\* ManagedStack it was called with, the interpreter with an empty one; and no post
\* callback has taken the record of a call that is still to be reported, although a
\* hand-off and the debugger, which has no post callback, leave records behind.
ExitsUndone ==
    /\ \A r \in LocalRef : level[r] # Free => level[r] <= Local(n)
    /\ last.res \in LocalRef => level[last.res] = Local(n)
    /\ ms = IF n > 0 /\ top.mode # "jni" /\ last = NoResult THEN "zero" ELSE "real"
    /\ \A k \in 1..n :
          stack[k].cbs = "both" /\ stack[k].mode \in {"jni", "step"}
             => \E i \in DOMAIN pend : pend[i] = k
================================================================================
