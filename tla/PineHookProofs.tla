--------------------------- MODULE PineHookProofs ---------------------------
(***************************************************************************)
(* Proofs about hooking one method, for any number of calling threads,     *)
(* hooks and nested calls, any order of hooking and unhooking, and with or *)
(* without failures.                                                       *)
(***************************************************************************)
EXTENDS PineHook, TLAPS

\* The steps of a hook that end in a new trampoline have room for one.
ApiInv ==
    /\ api.pc = "idle" => ~api.again
    /\ api.pc \in {"save", "register", "install", "backup", "replace"} => api.again
    /\ api.again /\ api.pc # "publish" => n < MaxHooks

\* Addresses that may become the entry point are older than the next trampoline.
Older ==
    /\ entry.at <= n
    /\ handle.entry.at <= n
    /\ \A b \in 1 .. MaxHooks : origin[b].at <= n /\ origin[b].at < b

\* How often the original has run, by the place a frame is at.
Counted(f) ==
    CASE f.pc \in {"swap", "set", "call", "jni"} -> ~f.invoked /\ f.ran = 0
      [] f.pc = "restore" -> ~f.invoked /\ f.ran = 1
      [] OTHER -> f.ran = IF f.invoked THEN 1 ELSE 0

\* What holds of every frame by itself when m trampolines have been made.
Good(f, m) ==
    /\ f.origin.at <= m /\ f.cur.at <= m
    /\ f.pc \in Dispatching \cup {"done"} => f.own
    /\ Counted(f)
    /\ f.pc = "leave" => f.custom \/ f.invoked

\* What holds of a thread's frames together: the call of an original sits on the
\* dispatcher that makes it, and there is always room for it.
StackInv ==
    \A t \in Thread, i \in 1 .. MaxDepth :
        LET f == stack[t][i] IN
        /\ Good(f, n)
        /\ i > depth[t] => f = NoFrame
        /\ ~f.own => i > 1 /\ stack[t][i - 1].pc = "jni"
        /\ f.own /\ i <= depth[t] => i < MaxDepth

\* The part of the invariant that is about the method and the hooking side.
MethodInv ==
    /\ entry \in Addr
    /\ patch \in [0 .. MaxHooks -> 0 .. MaxHooks]
    /\ inlinable \subseteq 0 .. MaxHooks
    /\ n \in 0 .. MaxHooks
    /\ origin \in [1 .. MaxHooks -> Addr]
    /\ hooks \in {"none", "jni", "bare"}
    /\ handle \in [hooked : BOOLEAN, inline : BOOLEAN, entry : Addr]
    /\ api \in [pc : {"idle", "restore", "unregister", "save", "register",
                      "install", "backup", "replace", "publish"},
                again : BOOLEAN, bare : BOOLEAN, retry : BOOLEAN, code : Addr]
    /\ ApiInv
    /\ Older

\* The part of the invariant that is about stacks.
Stacks ==
    /\ stack \in [Thread -> [1 .. MaxDepth -> Frame]]
    /\ depth \in [Thread -> 0 .. MaxDepth]
    /\ \A t \in Thread, i \in 1 .. MaxDepth :
          (stack[t][i].pc = "none") <=> (i > depth[t])
    /\ StackInv
    /\ CallbackNotNested

\* The inductive invariant.
HookInv == MethodInv /\ Stacks /\ calm \in BOOLEAN
----------------------------------------------------------------------------
\* Types of the records the steps build.

\* Code and bridges are addresses.
LEMMA AddrTypes ==
    /\ Code \in Addr
    /\ \A b \in 0 .. MaxHooks : Bridge(b) \in Addr
BY HooksAssumption DEF Code, Bridge, Addr

\* A new call has a frame.
LEMMA FrameTypes ==
    /\ NoFrame \in Frame
    /\ \A own \in BOOLEAN, a \in Addr : NewFrame(own, a) \in Frame
<1>1. 0 \in 0 .. 2
  OBVIOUS
<1>2. ASSUME NEW own \in BOOLEAN, NEW a \in Addr PROVE NewFrame(own, a) \in Frame
  BY <1>1, AddrTypes DEF NewFrame, Frame, Pc
<1>3. NewFrame(TRUE, Code) \in Frame
  BY <1>2, AddrTypes
<1> QED
  BY <1>2, <1>3 DEF NoFrame, Frame, Pc

\* A new frame, and the absence of one, satisfy what holds of every frame.
LEMMA FreshFrames ==
    ASSUME HookInv
    PROVE  /\ Good(NoFrame, n)
           /\ \A own \in BOOLEAN, a \in Addr : Good(NewFrame(own, a), n)
<1>1. n >= 0 /\ n \in Int
  BY DEF HookInv, MethodInv
<1>2. \A own \in BOOLEAN, a \in Addr : Good(NewFrame(own, a), n)
  BY <1>1 DEF Good, Counted, NewFrame, Code, Dispatching
<1>3. Good(NoFrame, n)
  BY <1>1 DEF Good, Counted, NewFrame, NoFrame, Code, Dispatching
<1> QED
  BY <1>2, <1>3

----------------------------------------------------------------------------
\* The three ways in which a step changes a thread's stack.

\* f may take the place of t's frame number i.
Replaces(f, t, i) ==
    /\ f \in Frame /\ Good(f, n) /\ f.own = stack[t][i].own /\ f.pc # "none"
    /\ f.pc \in Dispatching => stack[t][i].pc \in Dispatching \/ ~Active(t)

\* The top frame of one thread is replaced.
LEMMA SetTopKeeps ==
    ASSUME Stacks, n \in Int, n' = n, NEW t \in Thread, depth[t] > 0, NEW f,
           Replaces(f, t, depth[t]), SetTop(t, f), depth' = depth
    PROVE  Stacks'
<1> DEFINE d == depth[t]
<1>1. d \in 1 .. MaxDepth
  BY DepthAssumption DEF Stacks
<1>2. /\ stack' \in [Thread -> [1 .. MaxDepth -> Frame]]
      /\ \A u \in Thread, i \in 1 .. MaxDepth :
            stack'[u][i] = IF u = t /\ i = d THEN f ELSE stack[u][i]
  BY <1>1 DEF SetTop, Stacks, Replaces
<1>3. \A u \in Thread, i \in 1 .. MaxDepth : stack'[u][i].own = stack[u][i].own
  BY <1>1, <1>2 DEF Replaces
<1>4. \A u \in Thread, i \in 1 .. MaxDepth : Good(stack'[u][i], n)
  BY <1>1, <1>2 DEF Replaces, Stacks, StackInv
<1>5. \A u \in Thread, i \in 1 .. MaxDepth :
          (stack'[u][i].pc = "none") <=> (i > depth[u])
  BY <1>1, <1>2 DEF Replaces, Stacks
<1>6. ASSUME NEW u \in Thread, NEW i \in 1 .. MaxDepth
      PROVE  /\ i > depth[u] => stack'[u][i] = NoFrame
             /\ ~stack'[u][i].own => i > 1 /\ stack'[u][i - 1].pc = "jni"
             /\ stack'[u][i].own /\ i <= depth[u] => i < MaxDepth
  <2>1. i > depth[u] => stack'[u][i] = NoFrame
    BY <1>1, <1>2 DEF Stacks, StackInv
  <2>2. ASSUME ~stack'[u][i].own PROVE i > 1 /\ stack'[u][i - 1].pc = "jni"
    <3>1. i > 1 /\ stack[u][i - 1].pc = "jni" /\ ~stack[u][i].own
      BY <1>3, <2>2 DEF Stacks, StackInv
    <3>2. i <= depth[u]
      <4>1. NoFrame.own
        BY DEF NoFrame, NewFrame
      <4> QED
        BY <3>1, <4>1 DEF Stacks, StackInv
    <3>3. ~(u = t /\ i - 1 = d)
      BY <3>2
    <3>4. i - 1 \in 1 .. MaxDepth
      BY <3>1, DepthAssumption
    <3> QED
      BY <1>2, <3>1, <3>3, <3>4
  <2>3. stack'[u][i].own /\ i <= depth[u] => i < MaxDepth
    BY <1>3 DEF Stacks, StackInv
  <2> QED
    BY <2>1, <2>2, <2>3
<1>7. StackInv'
  BY <1>4, <1>6 DEF StackInv
<1>8. CallbackNotNested'
  BY <1>1, <1>2 DEF Replaces, Stacks, CallbackNotNested, Active
<1> QED
  BY <1>2, <1>5, <1>7, <1>8 DEF Stacks

\* A call is pushed; the frame below it may change.
LEMMA PushKeeps ==
    ASSUME Stacks, n \in Int, n' = n, NEW t \in Thread, depth[t] < MaxDepth,
           NEW f, depth[t] > 0 => Replaces(f, t, depth[t]),
           NEW g \in Frame, Good(g, n), g.pc = "jump",
           g.own => depth[t] + 1 < MaxDepth,
           ~g.own => depth[t] > 0 /\ f.pc = "jni",
           Push(t, f, g)
    PROVE  Stacks'
<1> DEFINE d == depth[t]
<1>1. d \in 0 .. MaxDepth /\ d + 1 \in 1 .. MaxDepth
  BY DepthAssumption DEF Stacks
<1>2. \A u \in Thread, i \in 1 .. MaxDepth :
          stack'[u][i] = IF u = t /\ i = d THEN f
                         ELSE IF u = t /\ i = d + 1 THEN g ELSE stack[u][i]
  BY <1>1 DEF Push, Stacks
<1>3. stack' \in [Thread -> [1 .. MaxDepth -> Frame]]
  <2>1. \A i \in 1 .. MaxDepth : i = d => f \in Frame
    BY <1>1 DEF Replaces
  <2>2. [i \in 1 .. MaxDepth |->
            CASE i = depth[t]     -> f
              [] i = depth[t] + 1 -> g
              [] OTHER            -> stack[t][i]] \in [1 .. MaxDepth -> Frame]
    BY <1>1, <2>1 DEF Stacks
  <2> QED
    BY <2>2 DEF Push, Stacks
<1>4. /\ depth' \in [Thread -> 0 .. MaxDepth]
      /\ \A u \in Thread : depth'[u] = IF u = t THEN d + 1 ELSE depth[u]
  BY <1>1 DEF Push, Stacks
<1>5. \A u \in Thread, i \in 1 .. MaxDepth : Good(stack'[u][i], n)
  BY <1>1, <1>2 DEF Replaces, Stacks, StackInv
<1>6. \A u \in Thread, i \in 1 .. MaxDepth :
          (stack'[u][i].pc = "none") <=> (i > depth'[u])
  BY <1>1, <1>2, <1>4 DEF Replaces, Stacks
<1>7. ASSUME NEW u \in Thread, NEW i \in 1 .. MaxDepth
      PROVE  /\ i > depth'[u] => stack'[u][i] = NoFrame
             /\ ~stack'[u][i].own => i > 1 /\ stack'[u][i - 1].pc = "jni"
             /\ stack'[u][i].own /\ i <= depth'[u] => i < MaxDepth
  <2>1. i > depth'[u] => stack'[u][i] = NoFrame
    BY <1>1, <1>2, <1>4 DEF Stacks, StackInv
  <2>2. ASSUME ~stack'[u][i].own PROVE i > 1 /\ stack'[u][i - 1].pc = "jni"
    <3>1. CASE u = t /\ i = d + 1
      BY <1>1, <1>2, <2>2, <3>1
    <3>2. CASE ~(u = t /\ i = d + 1)
      <4>1. ~stack[u][i].own
        BY <1>1, <1>2, <2>2, <3>2 DEF Replaces
      <4>2. i > 1 /\ stack[u][i - 1].pc = "jni" /\ i - 1 \in 1 .. MaxDepth
        BY <4>1, DepthAssumption DEF Stacks, StackInv
      <4>3. i <= depth[u]
        <5>1. NoFrame.own
          BY DEF NoFrame, NewFrame
        <5> QED
          BY <4>1, <5>1 DEF Stacks, StackInv
      <4>4. ~(u = t /\ i - 1 = d) /\ ~(u = t /\ i - 1 = d + 1)
        BY <4>3, <1>1
      <4> QED
        BY <1>2, <4>2, <4>4
    <3> QED
      BY <3>1, <3>2
  <2>3. stack'[u][i].own /\ i <= depth'[u] => i < MaxDepth
    BY <1>1, <1>2, <1>4 DEF Replaces, Stacks, StackInv
  <2> QED
    BY <2>1, <2>2, <2>3
<1>8. StackInv'
  BY <1>5, <1>7 DEF StackInv
<1>9. CallbackNotNested'
  <2>1. g.pc \notin Dispatching
    BY DEF Dispatching
  <2> QED
    BY <1>1, <1>2, <2>1 DEF Replaces, Stacks, CallbackNotNested, Active
<1> QED
  BY <1>3, <1>4, <1>6, <1>8, <1>9 DEF Stacks

\* A call returns; the frame below it may change.
LEMMA PopKeeps ==
    ASSUME Stacks, n \in Nat, n' = n, NEW t \in Thread, depth[t] > 0,
           NEW f, depth[t] > 1 => Replaces(f, t, depth[t] - 1),
           Good(NoFrame, n), Pop(t, f)
    PROVE  Stacks'
<1> DEFINE d == depth[t]
<1>1. d \in 1 .. MaxDepth /\ d - 1 \in 0 .. MaxDepth
  BY DepthAssumption DEF Stacks
<1>2. \A u \in Thread, i \in 1 .. MaxDepth :
          stack'[u][i] = IF u = t /\ i = d THEN NoFrame
                         ELSE IF u = t /\ i = d - 1 THEN f ELSE stack[u][i]
  BY <1>1 DEF Pop, Stacks
<1>3. stack' \in [Thread -> [1 .. MaxDepth -> Frame]]
  <2>1. \A i \in 1 .. MaxDepth : i = d - 1 => f \in Frame
    BY <1>1 DEF Replaces
  <2>2. [i \in 1 .. MaxDepth |->
            CASE i = depth[t]     -> NoFrame
              [] i = depth[t] - 1 -> f
              [] OTHER            -> stack[t][i]] \in [1 .. MaxDepth -> Frame]
    BY <1>1, <2>1, FrameTypes DEF Stacks
  <2> QED
    BY <2>2 DEF Pop, Stacks
<1>4. /\ depth' \in [Thread -> 0 .. MaxDepth]
      /\ \A u \in Thread : depth'[u] = IF u = t THEN d - 1 ELSE depth[u]
  BY <1>1 DEF Pop, Stacks
<1>5. \A u \in Thread, i \in 1 .. MaxDepth : Good(stack'[u][i], n)
  BY <1>1, <1>2 DEF Replaces, Stacks, StackInv
<1>6. NoFrame.pc = "none" /\ NoFrame.own
  BY DEF NoFrame, NewFrame
<1>7. \A u \in Thread, i \in 1 .. MaxDepth :
          (stack'[u][i].pc = "none") <=> (i > depth'[u])
  BY <1>1, <1>2, <1>4, <1>6 DEF Replaces, Stacks
<1>8. ASSUME NEW u \in Thread, NEW i \in 1 .. MaxDepth
      PROVE  /\ i > depth'[u] => stack'[u][i] = NoFrame
             /\ ~stack'[u][i].own => i > 1 /\ stack'[u][i - 1].pc = "jni"
             /\ stack'[u][i].own /\ i <= depth'[u] => i < MaxDepth
  <2>1. i > depth'[u] => stack'[u][i] = NoFrame
    BY <1>1, <1>2, <1>4 DEF Stacks, StackInv
  <2>2. ASSUME ~stack'[u][i].own PROVE i > 1 /\ stack'[u][i - 1].pc = "jni"
    <3>1. ~stack[u][i].own /\ ~(u = t /\ i = d)
      BY <1>1, <1>2, <1>6, <2>2 DEF Replaces
    <3>2. i > 1 /\ stack[u][i - 1].pc = "jni" /\ i - 1 \in 1 .. MaxDepth
      BY <3>1, DepthAssumption DEF Stacks, StackInv
    <3>3. i <= depth[u]
      BY <1>6, <3>1 DEF Stacks, StackInv
    <3>4. ~(u = t /\ i - 1 = d) /\ ~(u = t /\ i - 1 = d - 1)
      BY <3>1, <3>3, <1>1
    <3> QED
      BY <1>2, <3>2, <3>4
  <2>3. stack'[u][i].own /\ i <= depth'[u] => i < MaxDepth
    BY <1>1, <1>2, <1>4 DEF Replaces, Stacks, StackInv
  <2> QED
    BY <2>1, <2>2, <2>3
<1>9. StackInv'
  BY <1>5, <1>8 DEF StackInv
<1>10. CallbackNotNested'
  <2>1. NoFrame.pc \notin Dispatching
    BY <1>6 DEF Dispatching
  <2> QED
    BY <1>1, <1>2, <2>1 DEF Replaces, Stacks, CallbackNotNested, Active
<1> QED
  BY <1>3, <1>4, <1>7, <1>9, <1>10 DEF Stacks

----------------------------------------------------------------------------
\* Steps of the calling threads

\* The innermost frame of a thread that is in a call.
LEMMA TopFacts ==
    ASSUME HookInv, NEW t \in Thread, depth[t] > 0
    PROVE  /\ depth[t] \in 1 .. MaxDepth
           /\ Top(t) \in Frame /\ Good(Top(t), n)
           /\ Top(t).own => depth[t] < MaxDepth
           /\ ~Top(t).own => depth[t] > 1 /\ stack[t][depth[t] - 1].pc = "jni"
           /\ n \in Nat
<1>1. depth[t] \in 1 .. MaxDepth
  BY DEF HookInv, Stacks
<1>2. n \in Nat
  BY HooksAssumption DEF HookInv, MethodInv
<1>3. Top(t) \in Frame
  BY <1>1 DEF HookInv, Stacks, Top
<1>4. /\ Good(Top(t), n)
      /\ ~Top(t).own => depth[t] > 1 /\ stack[t][depth[t] - 1].pc = "jni"
      /\ Top(t).own => depth[t] < MaxDepth
  <2>1. StackInv
    BY DEF HookInv, Stacks
  <2>2. depth[t] <= depth[t]
    BY <1>1
  <2> QED
    BY <1>1, <2>1, <2>2 DEF StackInv, Top
<1> QED
  BY <1>1, <1>2, <1>3, <1>4

\* A step that replaces the innermost frame and leaves the method alone.
LEMMA FrameStep ==
    ASSUME HookInv, NEW t \in Thread, depth[t] > 0, NEW f,
           Replaces(f, t, depth[t]), SetTop(t, f), UNCHANGED <<method, depth>>,
           calm' \in BOOLEAN
    PROVE  HookInv'
<1>1. Stacks'
  BY TopFacts, SetTopKeeps DEF HookInv, method
<1>2. MethodInv'
  BY DEF HookInv, MethodInv, ApiInv, Older, method
<1> QED
  BY <1>1, <1>2 DEF HookInv

\* The jumps: patched bytes, the body, the dispatcher.
LEMMA JumpKeeps ==
    ASSUME HookInv, NEW t \in Thread, FollowPatch(t) \/ RunBody(t) \/ Dispatch(t)
    PROVE  HookInv'
<1> DEFINE f == Top(t)
<1>1. depth[t] > 0 /\ f.pc = "jump" /\ UNCHANGED <<method, depth, calm>>
  BY DEF FollowPatch, RunBody, Dispatch, At
<1>2. /\ f \in Frame /\ Good(f, n) /\ n \in Nat
      /\ depth[t] \in 1 .. MaxDepth
      /\ ~f.own => depth[t] > 1 /\ stack[t][depth[t] - 1].pc = "jni"
  BY <1>1, TopFacts
<1>3. f = stack[t][depth[t]]
  BY DEF Top
<1>4. CASE FollowPatch(t)
  <2> DEFINE g == [f EXCEPT !.addr = Bridge(patch[f.addr.at])]
  <2>1. Bridge(patch[f.addr.at]) \in Addr
    <3>1. f.addr.at \in 0 .. MaxHooks
      BY <1>2, <1>4 DEF FollowPatch, Frame, Addr
    <3> QED
      BY <3>1, AddrTypes DEF HookInv, MethodInv
  <2>2. g \in Frame
    BY <1>2, <2>1 DEF Frame
  <2>3. Replaces(g, t, depth[t])
    BY <1>1, <1>2, <1>3, <2>2 DEF Replaces, Good, Counted, Dispatching, Frame
  <2> QED
    BY <1>1, <1>4, <2>3, FrameStep DEF FollowPatch, HookInv
<1>5. CASE RunBody(t)
  <2> DEFINE g == [f EXCEPT !.pc = "body", !.addr = Code]
  <2>1. g \in Frame
    BY <1>2, AddrTypes DEF Frame, Pc
  <2>2. Replaces(g, t, depth[t])
    BY <1>1, <1>2, <1>3, <2>1 DEF Replaces, Good, Counted, Dispatching, Frame
  <2> QED
    BY <1>1, <1>5, <2>2, FrameStep DEF RunBody, HookInv
<1>6. CASE Dispatch(t)
  <2> DEFINE o == origin[f.addr.at]
  <2>1. o \in Addr /\ o.at <= n
    <3>1. f.addr.at \in 1 .. MaxHooks
      BY <1>2, <1>6 DEF Dispatch, Frame, Addr
    <3> QED
      BY <3>1 DEF HookInv, MethodInv, Older
  <2>2. ~Active(t) => f.own
    <3>1. ~f.own => depth[t] - 1 \in 1 .. MaxDepth
      BY <1>2, DepthAssumption
    <3> QED
      BY <1>2, <3>1 DEF Active, Dispatching
  <2>3. CASE Active(t) /\ SetTop(t, [f EXCEPT !.addr = o])
    <3>1. [f EXCEPT !.addr = o] \in Frame
      BY <1>2, <2>1 DEF Frame
    <3>2. Replaces([f EXCEPT !.addr = o], t, depth[t])
      BY <1>1, <1>2, <1>3, <3>1 DEF Replaces, Good, Counted, Dispatching, Frame
    <3> QED
      BY <1>1, <2>3, <3>2, FrameStep DEF HookInv
  <2>4. CASE ~Active(t) /\ SetTop(t, [f EXCEPT !.pc = "done", !.addr = Code])
    <3> DEFINE g == [f EXCEPT !.pc = "done", !.addr = Code]
    <3>1. g \in Frame
      BY <1>2, AddrTypes DEF Frame, Pc
    <3>2. Replaces(g, t, depth[t])
      BY <1>1, <1>2, <1>3, <2>2, <2>4, <3>1 DEF Replaces, Good, Counted, Dispatching, Frame
    <3> QED
      BY <1>1, <2>4, <3>2, FrameStep DEF HookInv
  <2>5. CASE ~Active(t) /\ SetTop(t, [f EXCEPT !.pc = "enter", !.addr = Code, !.origin = o,
                                              !.bare = (hooks = "bare")])
    <3> DEFINE g == [f EXCEPT !.pc = "enter", !.addr = Code, !.origin = o,
                              !.bare = (hooks = "bare")]
    <3>1. g \in Frame
      BY <1>2, <2>1, AddrTypes DEF Frame, Pc, Dispatching
    <3>2. Replaces(g, t, depth[t])
      BY <1>1, <1>2, <1>3, <2>1, <2>2, <2>5, <3>1 DEF Replaces, Good, Counted, Dispatching, Frame
    <3> QED
      BY <1>1, <2>5, <3>2, FrameStep DEF HookInv
  <2> QED
    BY <1>6, <2>3, <2>4, <2>5 DEF Dispatch
<1> QED
  BY <1>4, <1>5, <1>6

\* The callback and the reading of the entry point.
LEMMA CallbackKeeps ==
    ASSUME HookInv, NEW t \in Thread,
           CbOriginal(t) \/ CbResult(t) \/ CbReturn(t) \/ ReadEntry(t)
    PROVE  HookInv'
<1> DEFINE f == Top(t)
<1>1. /\ depth[t] > 0 /\ UNCHANGED <<method, depth>> /\ calm' \in BOOLEAN
      /\ f.pc = "enter" \/ f.pc = "swap"
  BY DEF CbOriginal, CbResult, CbReturn, ReadEntry, At, HookInv
<1>2. /\ f \in Frame /\ Good(f, n) /\ n \in Nat
      /\ depth[t] \in 1 .. MaxDepth
  BY <1>1, TopFacts
<1>3. f = stack[t][depth[t]] /\ f.pc \in Dispatching
  BY <1>1 DEF Top, Dispatching
<1>4. CASE CbOriginal(t)
  <2> DEFINE g == [f EXCEPT !.pc = "swap", !.ret = "enter"]
  <2>1. g \in Frame
    BY <1>2 DEF Frame, Pc, Dispatching
  <2>2. f.pc = "enter" /\ ~f.invoked
    BY <1>4 DEF CbOriginal, At
  <2>3. Replaces(g, t, depth[t])
    BY <1>2, <1>3, <2>1, <2>2 DEF Replaces, Good, Counted, Dispatching, Frame
  <2> QED
    BY <1>1, <1>4, <2>3, FrameStep DEF CbOriginal
<1>5. CASE CbResult(t)
  <2> DEFINE g == [f EXCEPT !.custom = TRUE]
  <2>1. g \in Frame
    BY <1>2 DEF Frame
  <2>2. f.pc = "enter"
    BY <1>5 DEF CbResult, At
  <2>3. Replaces(g, t, depth[t])
    BY <1>2, <1>3, <2>1, <2>2 DEF Replaces, Good, Counted, Dispatching, Frame
  <2> QED
    BY <1>1, <1>5, <2>3, FrameStep DEF CbResult
<1>6. CASE CbReturn(t)
  <2> DEFINE done == f.custom \/ f.invoked
             g == [f EXCEPT !.pc = IF done THEN "leave" ELSE "swap", !.ret = "leave"]
  <2>1. g \in Frame
    BY <1>2 DEF Frame, Pc, Dispatching
  <2>2. f.pc = "enter"
    BY <1>6 DEF CbReturn, At
  <2>3. Replaces(g, t, depth[t])
    BY <1>2, <1>3, <2>1, <2>2 DEF Replaces, Good, Counted, Dispatching, Frame
  <2> QED
    BY <1>1, <1>6, <2>3, FrameStep DEF CbReturn
<1>7. CASE ReadEntry(t)
  <2> DEFINE g == [f EXCEPT !.pc = "set", !.cur = entry]
  <2>1. entry \in Addr /\ entry.at <= n
    BY DEF HookInv, MethodInv, Older
  <2>2. g \in Frame
    BY <1>2, <2>1 DEF Frame, Pc, Dispatching
  <2>3. f.pc = "swap"
    BY <1>7 DEF ReadEntry, At
  <2>4. Replaces(g, t, depth[t])
    BY <1>2, <1>3, <2>1, <2>2, <2>3 DEF Replaces, Good, Counted, Dispatching, Frame
  <2> QED
    BY <1>1, <1>7, <2>4, FrameStep DEF ReadEntry
<1> QED
  BY <1>4, <1>5, <1>6, <1>7

\* The two steps that write the entry point.
LEMMA WriteKeeps ==
    ASSUME HookInv, NEW t \in Thread, SwapEntry(t) \/ RestoreEntry(t)
    PROVE  HookInv'
<1> DEFINE f == Top(t)
<1>1. /\ depth[t] > 0 /\ depth' = depth /\ calm' \in BOOLEAN /\ n' = n
      /\ UNCHANGED <<patch, inlinable, n, origin, hooks, handle, api>>
      /\ f.pc = "set" \/ f.pc = "restore"
  BY DEF SwapEntry, RestoreEntry, At, HookInv
<1>2. /\ f \in Frame /\ Good(f, n) /\ n \in Nat /\ n \in Int
      /\ depth[t] \in 1 .. MaxDepth
  BY <1>1, TopFacts
<1>3. f = stack[t][depth[t]] /\ f.pc \in Dispatching
  BY <1>1 DEF Top, Dispatching
<1>4. entry' \in Addr /\ entry'.at <= n
  <2>1. entry \in Addr /\ entry.at <= n
    BY DEF HookInv, MethodInv, Older
  <2>2. f.cur \in Addr /\ f.cur.at <= n /\ f.origin \in Addr /\ f.origin.at <= n
    BY <1>2 DEF Good, Frame
  <2> QED
    BY <2>1, <2>2 DEF SwapEntry, RestoreEntry
<1>5. MethodInv'
  BY <1>1, <1>4 DEF HookInv, MethodInv, ApiInv, Older
<1>6. CASE SwapEntry(t)
  <2> DEFINE g == [f EXCEPT !.pc = "call"]
  <2>1. g \in Frame
    BY <1>2 DEF Frame, Pc, Dispatching
  <2>2. f.pc = "set"
    BY <1>6 DEF SwapEntry, At
  <2>3. Replaces(g, t, depth[t])
    BY <1>2, <1>3, <2>1, <2>2 DEF Replaces, Good, Counted, Dispatching, Frame
  <2>4. Stacks'
    BY <1>1, <1>2, <1>6, <2>3, SetTopKeeps DEF SwapEntry, HookInv
  <2> QED
    BY <1>1, <1>5, <2>4 DEF HookInv
<1>7. CASE RestoreEntry(t)
  <2> DEFINE g == [Served(t) EXCEPT !.invoked = TRUE]
  <2>1. g \in Frame
    BY <1>2, AddrTypes DEF Frame, Pc, Dispatching, Served
  <2>2. f.pc = "restore"
    BY <1>7 DEF RestoreEntry, At
  <2>3. f.ret \in {"enter", "leave"}
    BY <1>2 DEF Frame
  <2>4. g.pc \in {"enter", "leave"} /\ g.invoked /\ g.ran = f.ran /\ g.own = f.own
        /\ g.origin = Code /\ g.cur = Code
    BY <1>2, <2>3 DEF Served, Frame
  <2>5. f.own /\ f.ran = 1
    BY <1>2, <1>3, <2>2 DEF Good, Counted
  <2>6. SetTop(t, g)
    BY <1>7 DEF RestoreEntry
  <2> HIDE DEF g
  <2>7. Good(g, n)
    BY <1>2, <2>4, <2>5 DEF Good, Counted, Code
  <2>8. Replaces(g, t, depth[t])
    BY <1>3, <2>1, <2>4, <2>7 DEF Replaces
  <2>9. Stacks'
    BY <1>1, <1>2, <2>8, <2>6, SetTopKeeps DEF HookInv
  <2> QED
    BY <1>1, <1>5, <2>9 DEF HookInv
<1> QED
  BY <1>6, <1>7

\* Calls: of the method, and of the original by a dispatcher.
LEMMA PushStep ==
    ASSUME HookInv, NEW t \in Thread, Call(t) \/ CallOrigin(t) \/ CallJni(t)
    PROVE  HookInv'
<1> DEFINE f == Top(t)
<1>1. UNCHANGED <<method, calm>> /\ n' = n
  BY DEF Call, CallOrigin, CallJni, method
<1>2. MethodInv' /\ calm' \in BOOLEAN
  BY <1>1 DEF HookInv, MethodInv, ApiInv, Older, method
<1>3. n \in Int /\ entry \in Addr
  BY HooksAssumption DEF HookInv, MethodInv
<1>4. /\ NewFrame(TRUE, entry) \in Frame /\ Good(NewFrame(TRUE, entry), n)
      /\ NewFrame(FALSE, entry) \in Frame /\ Good(NewFrame(FALSE, entry), n)
  BY <1>3, FrameTypes, FreshFrames
<1>5. \A own, a : NewFrame(own, a).pc = "jump" /\ NewFrame(own, a).own = own
  BY DEF NewFrame
<1>6. f = stack[t][depth[t]]
  BY DEF Top
<1>7. CASE Call(t)
  <2> DEFINE g == [f EXCEPT !.nested = TRUE]
  <2>1. depth[t] \in Nat /\ depth[t] + 1 < MaxDepth /\ depth[t] < MaxDepth
    BY <1>7, DepthAssumption DEF Call, HookInv, Stacks
  <2>2. depth[t] > 0 => Replaces(g, t, depth[t])
    <3> SUFFICES ASSUME depth[t] > 0 PROVE Replaces(g, t, depth[t])
      OBVIOUS
    <3>1. f.pc = "body"
      BY <1>7, <2>1 DEF Call, At
    <3>2. f \in Frame /\ Good(f, n)
      BY TopFacts
    <3>3. g \in Frame
      BY <3>2 DEF Frame
    <3> QED
      BY <1>6, <3>1, <3>2, <3>3 DEF Replaces, Good, Counted, Dispatching, Frame
  <2>3. Push(t, g, NewFrame(TRUE, entry))
    BY <1>7 DEF Call
  <2> HIDE DEF g
  <2>4. Stacks'
    BY <1>1, <1>3, <1>4, <1>5, <2>1, <2>2, <2>3, PushKeeps DEF HookInv
  <2> QED
    BY <1>2, <2>4 DEF HookInv
<1>8. ASSUME NEW a \in Addr, depth[t] > 0, f.pc \in {"swap", "call"},
             Push(t, [f EXCEPT !.pc = "jni"], NewFrame(FALSE, a))
      PROVE  HookInv'
  <2> DEFINE g == [f EXCEPT !.pc = "jni"]
  <2>1. f \in Frame /\ Good(f, n) /\ (f.own => depth[t] < MaxDepth)
    BY <1>8, TopFacts
  <2>2. f.own /\ f.pc \in Dispatching
    BY <1>8, <2>1 DEF Good, Dispatching
  <2>3. g \in Frame
    BY <2>1 DEF Frame, Pc, Dispatching
  <2>4. Replaces(g, t, depth[t])
    BY <1>6, <1>8, <2>1, <2>2, <2>3 DEF Replaces, Good, Counted, Dispatching, Frame
  <2>5. g.pc = "jni"
    BY <2>1 DEF Frame
  <2>6. NewFrame(FALSE, a) \in Frame /\ Good(NewFrame(FALSE, a), n)
    BY FrameTypes, FreshFrames
  <2>7. Push(t, g, NewFrame(FALSE, a))
    BY <1>8
  <2> HIDE DEF g
  <2>8. Stacks'
    BY <1>1, <1>3, <1>5, <1>8, <2>1, <2>2, <2>4, <2>5, <2>6, <2>7, PushKeeps DEF HookInv
  <2> QED
    BY <1>2, <2>8 DEF HookInv
<1>9. CASE CallOrigin(t)
  <2>1. depth[t] > 0 /\ f.pc = "swap"
    BY <1>9 DEF CallOrigin, At
  <2>2. f.origin \in Addr
    BY <2>1, TopFacts DEF Frame
  <2> QED
    BY <1>8, <1>9, <2>1, <2>2 DEF CallOrigin
<1>10. CASE CallJni(t)
  <2>1. depth[t] > 0 /\ f.pc = "call"
    BY <1>10 DEF CallJni, At
  <2> QED
    BY <1>3, <1>8, <1>10, <2>1 DEF CallJni
<1> QED
  BY <1>7, <1>9, <1>10

\* Returns: of the original's body, and of a dispatcher.
LEMMA PopStep ==
    ASSUME HookInv, NEW t \in Thread, EndBody(t) \/ Return(t)
    PROVE  HookInv'
<1> DEFINE f == Top(t)
           p == stack[t][depth[t] - 1]
<1>1. UNCHANGED <<method, calm>> /\ n' = n /\ depth[t] > 0
  BY DEF EndBody, Return, At, method
<1>2. MethodInv' /\ calm' \in BOOLEAN
  BY <1>1 DEF HookInv, MethodInv, ApiInv, Older, method
<1>3. /\ f \in Frame /\ Good(f, n) /\ n \in Nat /\ depth[t] \in 1 .. MaxDepth
      /\ ~f.own => depth[t] > 1 /\ p.pc = "jni"
  BY <1>1, TopFacts
<1>4. PICK k \in {0, 1} : /\ Pop(t, Below(t, k))
                          /\ k = 0 => f.own
  <2>1. CASE EndBody(t)
    BY <2>1 DEF EndBody
  <2>2. CASE Return(t)
    <3>1. f.pc \in Dispatching \cup {"done"}
      BY <2>2 DEF Return, At, Dispatching
    <3> QED
      BY <1>3, <2>2, <3>1 DEF Return, Good
  <2> QED
    BY <2>1, <2>2
<1>5. depth[t] > 1 => Replaces(Below(t, k), t, depth[t] - 1)
  <2> SUFFICES ASSUME depth[t] > 1 PROVE Replaces(Below(t, k), t, depth[t] - 1)
    OBVIOUS
  <2>1. depth[t] - 1 \in 1 .. MaxDepth /\ ~(depth[t] - 1 > depth[t])
    BY <1>3, DepthAssumption
  <2>2. p \in Frame /\ Good(p, n) /\ p.pc # "none"
    <3>1. /\ stack \in [Thread -> [1 .. MaxDepth -> Frame]]
          /\ \A u \in Thread, i \in 1 .. MaxDepth :
                (stack[u][i].pc = "none") <=> (i > depth[u])
      BY DEF HookInv, Stacks
    <3>2. p \in Frame /\ p.pc # "none"
      BY <2>1, <3>1
    <3>3. StackInv
      BY DEF HookInv, Stacks
    <3>4. Good(p, n)
      BY <2>1, <3>3 DEF StackInv
    <3> QED
      BY <3>2, <3>4
  <2>3. CASE f.own
    BY <2>2, <2>3 DEF Replaces, Below
  <2>4. CASE ~f.own
    <3> DEFINE g == [p EXCEPT !.pc = "restore", !.ran = p.ran + k]
    <3>1. k = 1 /\ p.pc = "jni"
      BY <1>3, <1>4, <2>4
    <3>2. p.ran = 0 /\ ~p.invoked /\ p.own /\ p.pc \in Dispatching
      BY <2>2, <3>1 DEF Good, Counted, Dispatching
    <3>3. g = [p EXCEPT !.pc = "restore", !.ran = 1]
      BY <3>1, <3>2
    <3>4. g \in Frame
      <4>1. 1 \in 0 .. 2
        OBVIOUS
      <4> QED
        BY <2>2, <3>3, <4>1 DEF Frame, Pc, Dispatching
    <3>5. /\ g.pc = "restore" /\ g.ran = 1 /\ g.own = p.own /\ ~g.invoked
          /\ g.origin = p.origin /\ g.cur = p.cur
      BY <2>2, <3>2, <3>3 DEF Frame
    <3>6. Below(t, k) = g
      BY <2>4 DEF Below
    <3> HIDE DEF g
    <3>7. Good(g, n)
      BY <2>2, <3>2, <3>5 DEF Good, Counted, Dispatching
    <3>8. Replaces(g, t, depth[t] - 1)
      BY <3>2, <3>4, <3>5, <3>7 DEF Replaces
    <3> QED
      BY <3>6, <3>8
  <2> QED
    BY <2>3, <2>4
<1>6. Good(NoFrame, n)
  BY FreshFrames
<1>7. Stacks'
  BY <1>1, <1>3, <1>4, <1>5, <1>6, PopKeeps DEF HookInv
<1> QED
  BY <1>2, <1>7 DEF HookInv

----------------------------------------------------------------------------
\* Steps of the hooking side

\* They leave the stacks alone, and no trampoline is ever forgotten.
LEMMA ApiStacks ==
    ASSUME HookInv, n' \in Int, n' >= n, UNCHANGED <<stack, depth>>
    PROVE  Stacks'
<1>1. n \in Int
  BY HooksAssumption DEF HookInv, MethodInv
<1>2. \A t \in Thread, i \in 1 .. MaxDepth :
          Good(stack[t][i], n) => Good(stack[t][i], n')
  <2> SUFFICES ASSUME NEW t \in Thread, NEW i \in 1 .. MaxDepth, Good(stack[t][i], n)
               PROVE  Good(stack[t][i], n')
    OBVIOUS
  <2>1. stack[t][i].origin.at \in Int /\ stack[t][i].cur.at \in Int
    <3>1. stack[t][i] \in Frame
      BY DEF HookInv, Stacks
    <3> QED
      BY <3>1, HooksAssumption DEF Frame, Addr
  <2> QED
    BY <1>1, <2>1 DEF Good
<1>3. StackInv'
  BY <1>2 DEF HookInv, Stacks, StackInv
<1>4. CallbackNotNested'
  BY DEF HookInv, Stacks, CallbackNotNested
<1> QED
  BY <1>3, <1>4 DEF HookInv, Stacks

\* Records of the hooking side that the steps below build.
LEMMA ApiTypes ==
    /\ Idle \in [pc : {"idle", "restore", "unregister", "save", "register",
                       "install", "backup", "replace", "publish"},
                 again : BOOLEAN, bare : BOOLEAN, retry : BOOLEAN, code : Addr]
    /\ Idle.pc = "idle" /\ ~Idle.again
    /\ NoHandle \in [hooked : BOOLEAN, inline : BOOLEAN, entry : Addr]
    /\ NoHandle.entry.at = 0
BY AddrTypes DEF Idle, NoHandle, Code

\* Beginning to hook or to unhook, and the steps that only move the hooking side.
LEMMA ApiMoves ==
    ASSUME HookInv, HookBegin \/ UnhookBegin \/ Register \/ Install \/ InlineFails
    PROVE  MethodInv' /\ n' = n
<1> USE DEF HookInv
<1>1. MethodInv /\ n' = n /\ UNCHANGED <<entry, patch, inlinable, n, origin, handle>>
  BY DEF HookBegin, UnhookBegin, Register, Install, InlineFails
<1>2. hooks' \in {"none", "jni", "bare"}
  BY <1>1 DEF HookBegin, UnhookBegin, Register, Install, InlineFails, MethodInv
<1>3. Older'
  BY <1>1 DEF MethodInv, Older
<1>4. /\ api' \in [pc : {"idle", "restore", "unregister", "save", "register",
                         "install", "backup", "replace", "publish"},
                   again : BOOLEAN, bare : BOOLEAN, retry : BOOLEAN, code : Addr]
      /\ ApiInv'
  <2>1. CASE HookBegin
    <3>1. PICK bare \in BOOLEAN :
             api' = [api EXCEPT !.pc = IF handle.hooked THEN "restore" ELSE "save",
                                !.again = TRUE, !.bare = bare]
      BY <2>1 DEF HookBegin
    <3>2. n < MaxHooks
      BY <2>1 DEF HookBegin
    <3> QED
      BY <1>1, <3>1, <3>2 DEF MethodInv, ApiInv
  <2>2. CASE UnhookBegin
    BY <1>1, <2>2 DEF UnhookBegin, MethodInv, ApiInv
  <2>3. CASE Register
    BY <1>1, <2>3 DEF Register, MethodInv, ApiInv
  <2>4. CASE Install
    BY <1>1, <2>4 DEF Install, MethodInv, ApiInv
  <2>5. CASE InlineFails
    BY <1>1, <2>5 DEF InlineFails, MethodInv, ApiInv
  <2> QED
    BY <2>1, <2>2, <2>3, <2>4, <2>5
<1> QED
  BY <1>1, <1>2, <1>3, <1>4 DEF MethodInv

\* The steps of an unhook, and those that save or give up a handle.
LEMMA HandleMoves ==
    ASSUME HookInv, UnhookRestore \/ Unregister \/ Save \/ BridgeFails
    PROVE  MethodInv' /\ n' = n
<1> USE DEF HookInv
<1>1. MethodInv /\ UNCHANGED <<inlinable, n, origin>> /\ n' = n
  BY DEF UnhookRestore, Unregister, Save, BridgeFails
<1>2. n \in Nat
  BY <1>1, HooksAssumption DEF MethodInv
<1>3. CASE UnhookRestore
  <2>1. /\ handle' = handle /\ hooks' = hooks
        /\ entry' = entry \/ entry' = handle.entry
        /\ api' = [api EXCEPT !.pc = "unregister"] /\ api.pc = "restore"
    BY <1>3 DEF UnhookRestore
  <2>2. patch' \in [0 .. MaxHooks -> 0 .. MaxHooks]
    <3>1. 0 \in 0 .. MaxHooks
      BY HooksAssumption
    <3> QED
      BY <1>1, <1>3, <3>1 DEF UnhookRestore, MethodInv
  <2>3. entry' \in Addr /\ Older'
    BY <1>1, <2>1 DEF MethodInv, Older
  <2>4. ApiInv'
    BY <1>1, <2>1 DEF MethodInv, ApiInv
  <2> QED
    BY <1>1, <2>1, <2>2, <2>3, <2>4 DEF MethodInv
<1>4. CASE Unregister
  <2>1. /\ UNCHANGED <<entry, patch>> /\ hooks' = "none" /\ handle' = NoHandle
        /\ api' = IF api.again THEN [api EXCEPT !.pc = "save"] ELSE Idle
        /\ api.pc = "unregister"
    BY <1>4 DEF Unregister
  <2>2. Older'
    BY <1>1, <1>2, <2>1, ApiTypes DEF MethodInv, Older
  <2>3. /\ api' \in [pc : {"idle", "restore", "unregister", "save", "register",
                           "install", "backup", "replace", "publish"},
                     again : BOOLEAN, bare : BOOLEAN, retry : BOOLEAN, code : Addr]
        /\ ApiInv'
    <3>1. CASE api.again
      BY <1>1, <2>1, <3>1 DEF MethodInv, ApiInv
    <3>2. CASE ~api.again
      BY <1>1, <2>1, <3>2, ApiTypes DEF ApiInv
    <3> QED
      BY <3>1, <3>2
  <2> QED
    BY <1>1, <2>1, <2>2, <2>3, ApiTypes DEF MethodInv
<1>5. CASE Save
  <2>1. PICK retry \in {api.bare, TRUE} :
           api' = [api EXCEPT !.pc = "register", !.retry = retry]
    BY <1>5 DEF Save
  <2>2. /\ UNCHANGED <<entry, patch, hooks>> /\ api.pc = "save"
        /\ handle' = [hooked |-> FALSE, inline |-> InlineSafe(entry), entry |-> entry]
    BY <1>5 DEF Save
  <2>3. retry \in BOOLEAN
    BY <1>1, <2>1 DEF MethodInv
  <2>4. /\ api' \in [pc : {"idle", "restore", "unregister", "save", "register",
                           "install", "backup", "replace", "publish"},
                     again : BOOLEAN, bare : BOOLEAN, retry : BOOLEAN, code : Addr]
        /\ ApiInv'
    BY <1>1, <2>1, <2>2, <2>3 DEF MethodInv, ApiInv
  <2>5. InlineSafe(entry) \in BOOLEAN
    BY DEF InlineSafe
  <2>6. handle' \in [hooked : BOOLEAN, inline : BOOLEAN, entry : Addr] /\ Older'
    BY <1>1, <2>2, <2>5 DEF MethodInv, Older
  <2> QED
    BY <1>1, <2>2, <2>4, <2>6 DEF MethodInv
<1>6. CASE BridgeFails
  <2>1. UNCHANGED <<entry, patch, hooks>> /\ api.pc = "replace"
    BY <1>6 DEF BridgeFails
  <2>2. CASE api' = Idle /\ handle' = NoHandle
    <3>1. Older'
      BY <1>1, <1>2, <2>1, <2>2, ApiTypes DEF MethodInv, Older
    <3>2. ApiInv'
      BY <1>1, <2>2, ApiTypes DEF ApiInv
    <3> QED
      BY <1>1, <2>1, <2>2, <3>1, <3>2, ApiTypes DEF MethodInv
  <2>3. CASE api' = [api EXCEPT !.pc = "register", !.retry = TRUE] /\ UNCHANGED handle
    <3>1. Older'
      BY <1>1, <2>1, <2>3 DEF MethodInv, Older
    <3>2. ApiInv'
      BY <1>1, <2>1, <2>3 DEF MethodInv, ApiInv
    <3> QED
      BY <1>1, <2>1, <2>3, <3>1, <3>2 DEF MethodInv
  <2> QED
    BY <1>6, <2>2, <2>3 DEF BridgeFails
<1> QED
  BY <1>3, <1>4, <1>5, <1>6

\* The steps that make a trampoline or store it as the entry point.
LEMMA TrampolineMoves ==
    ASSUME HookInv, InstallInline \/ MakeBridge \/ Publish
    PROVE  MethodInv' /\ n' \in Int /\ n' >= n
<1> USE DEF HookInv
<1>1. /\ MethodInv /\ inlinable' = inlinable /\ hooks' = hooks
      /\ n \in Nat /\ MaxHooks \in Nat
  BY HooksAssumption DEF InstallInline, MakeBridge, Publish, MethodInv
<1>2. /\ entry \in Addr /\ entry.at \in Int /\ handle.entry.at \in Int
      /\ \A b \in 1 .. MaxHooks : origin[b].at \in Int
  BY <1>1 DEF MethodInv, Addr
<1>3. ASSUME NEW o \in Addr, o.at <= n, n < MaxHooks, n' = n + 1,
             origin' = [origin EXCEPT ![n + 1] = o],
             entry' = entry, handle'.entry = handle.entry
      PROVE  /\ n' \in 0 .. MaxHooks /\ n' \in Int /\ n' >= n
             /\ origin' \in [1 .. MaxHooks -> Addr] /\ Older'
  <2>1. n + 1 \in 1 .. MaxHooks /\ o.at \in Int
    BY <1>1, <1>3 DEF Addr
  <2>2. /\ origin' \in [1 .. MaxHooks -> Addr]
        /\ \A b \in 1 .. MaxHooks : origin'[b] = IF b = n + 1 THEN o ELSE origin[b]
    BY <1>1, <1>3, <2>1 DEF MethodInv
  <2>3. Older
    BY <1>1 DEF MethodInv
  <2>4. /\ entry'.at <= n' /\ handle'.entry.at <= n'
    BY <1>1, <1>2, <1>3, <2>3 DEF Older
  <2>5. \A b \in 1 .. MaxHooks : origin'[b].at <= n' /\ origin'[b].at < b
    BY <1>1, <1>2, <1>3, <2>1, <2>2, <2>3 DEF Older
  <2> QED
    BY <1>1, <1>3, <2>1, <2>2, <2>4, <2>5 DEF Older
<1>4. CASE InstallInline
  <2> DEFINE o == [at |-> IF Executes(entry) /\ ~entry.raw THEN entry.at ELSE -1,
                   raw |-> TRUE]
  <2>1. o \in Addr /\ o.at <= n
    <3>1. entry.at \in -1 .. MaxHooks /\ -1 \in -1 .. MaxHooks /\ -1 <= n
      BY <1>1, <1>2 DEF Addr
    <3>2. entry.at <= n
      BY <1>1 DEF MethodInv, Older
    <3> QED
      BY <3>1, <3>2 DEF Addr
  <2>2. n < MaxHooks /\ n' = n + 1 /\ entry' = entry /\ api' = Idle
    BY <1>1, <1>4 DEF InstallInline, MethodInv, ApiInv
  <2>3. /\ handle' \in [hooked : BOOLEAN, inline : BOOLEAN, entry : Addr]
        /\ handle'.entry = handle.entry
    BY <1>1, <1>4 DEF InstallInline, MethodInv
  <2>4. origin' = [origin EXCEPT ![n + 1] = o]
    BY <1>4 DEF InstallInline
  <2>5. patch' \in [0 .. MaxHooks -> 0 .. MaxHooks]
    <3>1. n + 1 \in 0 .. MaxHooks
      BY <1>1, <2>2
    <3> QED
      BY <1>1, <1>4, <3>1 DEF InstallInline, MethodInv
  <2> HIDE DEF o
  <2>6. /\ n' \in 0 .. MaxHooks /\ n' \in Int /\ n' >= n
        /\ origin' \in [1 .. MaxHooks -> Addr] /\ Older'
    BY <1>3, <2>1, <2>2, <2>3, <2>4
  <2>7. ApiInv'
    BY <2>2, ApiTypes DEF ApiInv
  <2> QED
    BY <1>1, <2>2, <2>3, <2>5, <2>6, <2>7, ApiTypes DEF MethodInv
<1>5. CASE MakeBridge
  <2>1. /\ n < MaxHooks /\ n' = n + 1 /\ UNCHANGED <<entry, patch, handle>>
        /\ origin' = [origin EXCEPT ![n + 1] = entry] /\ entry.at <= n
    BY <1>1, <1>5 DEF MakeBridge, MethodInv, ApiInv, Older
  <2>2. /\ n' \in 0 .. MaxHooks /\ n' \in Int /\ n' >= n
        /\ origin' \in [1 .. MaxHooks -> Addr] /\ Older'
    BY <1>2, <1>3, <2>1
  <2>3. /\ api' \in [pc : {"idle", "restore", "unregister", "save", "register",
                           "install", "backup", "replace", "publish"},
                     again : BOOLEAN, bare : BOOLEAN, retry : BOOLEAN, code : Addr]
        /\ ApiInv'
    BY <1>1, <1>5 DEF MakeBridge, MethodInv, ApiInv
  <2> QED
    BY <1>1, <2>1, <2>2, <2>3 DEF MethodInv
<1>6. CASE Publish
  <2>1. /\ n' = n /\ UNCHANGED <<patch, origin>> /\ api' = Idle /\ entry' = Bridge(n)
        /\ handle' = [handle EXCEPT !.hooked = TRUE]
    BY <1>6 DEF Publish
  <2>2. entry' \in Addr /\ entry'.at = n
    BY <1>1, <2>1, AddrTypes DEF Bridge, MethodInv
  <2>3. /\ handle' \in [hooked : BOOLEAN, inline : BOOLEAN, entry : Addr]
        /\ handle'.entry = handle.entry
    BY <1>1, <2>1 DEF MethodInv
  <2>4. Older'
    BY <1>1, <2>1, <2>2, <2>3 DEF MethodInv, Older
  <2>5. ApiInv'
    BY <2>1, ApiTypes DEF ApiInv
  <2> QED
    BY <1>1, <2>1, <2>2, <2>3, <2>4, <2>5, ApiTypes DEF MethodInv
<1> QED
  BY <1>4, <1>5, <1>6

\* Hooking and unhooking keep the invariant.
LEMMA ApiKeeps ==
    ASSUME HookInv, ApiStep
    PROVE  HookInv'
<1>1. UNCHANGED <<stack, depth>>
  BY DEF ApiStep, HookBegin, UnhookBegin, UnhookRestore, Unregister, Save, Register,
         Install, InstallInline, InlineFails, MakeBridge, Publish, BridgeFails
<1>2. calm' \in BOOLEAN
  BY DEF HookInv, ApiStep, HookBegin, UnhookBegin, UnhookRestore, Unregister, Save,
         Register, Install, InstallInline, InlineFails, MakeBridge, Publish,
         BridgeFails, Undisturbed
<1>3. n \in Int
  BY HooksAssumption DEF HookInv, MethodInv
<1>4. MethodInv' /\ n' \in Int /\ n' >= n
  <2>1. CASE HookBegin \/ UnhookBegin \/ Register \/ Install \/ InlineFails
    BY <1>3, <2>1, ApiMoves
  <2>2. CASE UnhookRestore \/ Unregister \/ Save \/ BridgeFails
    BY <1>3, <2>2, HandleMoves
  <2>3. CASE InstallInline \/ MakeBridge \/ Publish
    BY <2>3, TrampolineMoves
  <2> QED
    BY <2>1, <2>2, <2>3 DEF ApiStep
<1> QED
  BY <1>1, <1>2, <1>4, ApiStacks DEF HookInv

----------------------------------------------------------------------------
\* The invariant

\* Init establishes the invariant.
LEMMA InitInv == Init => HookInv
<1> SUFFICES ASSUME Init PROVE HookInv
  OBVIOUS
<1>1. 0 \in 0 .. MaxHooks /\ 0 \in 0 .. MaxDepth
  BY HooksAssumption, DepthAssumption
<1>2. /\ patch \in [0 .. MaxHooks -> 0 .. MaxHooks]
      /\ origin \in [1 .. MaxHooks -> Addr]
      /\ inlinable \subseteq 0 .. MaxHooks
  BY <1>1, AddrTypes, InlinableAssumption DEF Init
<1>3. Older
  BY ApiTypes, HooksAssumption DEF Init, Older, Code
<1>4. ApiInv
  BY ApiTypes DEF Init, ApiInv
<1>5. MethodInv
  BY <1>1, <1>2, <1>3, <1>4, AddrTypes, ApiTypes DEF Init, MethodInv
<1>6. /\ stack \in [Thread -> [1 .. MaxDepth -> Frame]]
      /\ depth \in [Thread -> 0 .. MaxDepth]
      /\ \A t \in Thread : depth[t] = 0
      /\ \A t \in Thread, i \in 1 .. MaxDepth : stack[t][i] = NoFrame
  BY <1>1, FrameTypes DEF Init
<1>7. NoFrame.pc = "none" /\ NoFrame.own /\ NoFrame.pc \notin Dispatching
  BY DEF NoFrame, NewFrame, Dispatching
<1>8. Good(NoFrame, n)
  BY DEF Init, Good, Counted, NoFrame, NewFrame, Code, Dispatching
<1>9. StackInv
  BY <1>6, <1>7, <1>8 DEF StackInv
<1>10. CallbackNotNested
  BY <1>6, <1>7 DEF CallbackNotNested
<1>11. \A t \in Thread, i \in 1 .. MaxDepth :
          (stack[t][i].pc = "none") <=> (i > depth[t])
  BY <1>6, <1>7
<1> QED
  BY <1>5, <1>6, <1>9, <1>10, <1>11 DEF Init, HookInv, Stacks

\* Every step of hooks and calls keeps the invariant.
LEMMA NextInv == HookInv /\ [Next]_vars => HookInv'
<1> SUFFICES ASSUME HookInv, [Next]_vars PROVE HookInv'
  OBVIOUS
<1>1. CASE ApiStep
  BY <1>1, ApiKeeps
<1>2. ASSUME NEW t \in Thread, Call(t) \/ CallStep(t) PROVE HookInv'
  <2>1. CASE FollowPatch(t) \/ RunBody(t) \/ Dispatch(t)
    BY <2>1, JumpKeeps
  <2>2. CASE CbOriginal(t) \/ CbResult(t) \/ CbReturn(t) \/ ReadEntry(t)
    BY <2>2, CallbackKeeps
  <2>3. CASE SwapEntry(t) \/ RestoreEntry(t)
    BY <2>3, WriteKeeps
  <2>4. CASE Call(t) \/ CallOrigin(t) \/ CallJni(t)
    BY <2>4, PushStep
  <2>5. CASE EndBody(t) \/ Return(t)
    BY <2>5, PopStep
  <2> QED
    BY <1>2, <2>1, <2>2, <2>3, <2>4, <2>5 DEF CallStep
<1>3. CASE UNCHANGED vars
  <2>1. n \in Int /\ n' = n
    BY <1>3, HooksAssumption DEF HookInv, MethodInv, vars, method
  <2>2. Stacks'
    BY <1>3, <2>1, ApiStacks DEF vars
  <2>3. MethodInv'
    BY <1>3 DEF HookInv, MethodInv, ApiInv, Older, vars, method
  <2> QED
    BY <1>3, <2>2, <2>3 DEF HookInv, vars
<1> QED
  BY <1>1, <1>2, <1>3 DEF Next

\* The invariant holds of every execution.
THEOREM Invariant == Spec => []HookInv
BY InitInv, NextInv, PTL DEF Spec

\* Every variable keeps its type; a thread's frames fill its stack without gaps,
\* and a call of the original always finds room on it.
THEOREM HookTypes == Spec => []TypeOK
<1>1. HookInv => TypeOK
  BY DEF HookInv, MethodInv, Stacks, TypeOK
<1> QED
  BY <1>1, Invariant, PTL

\* A thread never enters the hook while it is inside it, whatever the other
\* threads and the hooking side do to the entry point (MethodHookDispatcher).
THEOREM HooksNotNested == Spec => []CallbackNotNested
<1>1. HookInv => CallbackNotNested
  BY DEF HookInv, Stacks
<1> QED
  BY <1>1, Invariant, PTL

\* The original of a hooked call runs at most once, and a hooked call returns
\* with the original run or a result set (invokeOriginalInternal).
THEOREM OriginalRunsOnce == Spec => []CallAnswered
<1>1. HookInv => CallAnswered
  <2> SUFFICES ASSUME HookInv, NEW t \in Thread, NEW i \in 1 .. MaxDepth
               PROVE  LET f == stack[t][i] IN
                      /\ f.ran <= 1
                      /\ f.invoked => f.ran = 1
                      /\ f.pc = "leave" => f.ran = 1 \/ f.custom
    BY DEF CallAnswered
  <2>1. Good(stack[t][i], n)
    <3>1. StackInv
      BY DEF HookInv, Stacks
    <3> QED
      BY <3>1 DEF StackInv
  <2> QED
    BY <2>1 DEF Good, Counted
<1> QED
  BY <1>1, Invariant, PTL

\* A trampoline leads to something older than itself, so that no call chases
\* origins in a circle (InstallNativeReplacementTrampoline).
THEOREM TrampolinesDescend == Spec => []OriginsOlder
<1>1. HookInv => OriginsOlder
  <2> SUFFICES ASSUME HookInv PROVE OriginsOlder
    OBVIOUS
  <2>1. Older /\ n \in 0 .. MaxHooks
    BY DEF HookInv, MethodInv
  <2>2. 1 .. n \subseteq 1 .. MaxHooks
    BY <2>1, HooksAssumption
  <2> QED
    BY <2>1, <2>2 DEF Older, OriginsOlder
<1> QED
  BY <1>1, Invariant, PTL

----------------------------------------------------------------------------
(* Exactness.  calm records that so far no call of an original has met       *)
(* another one or a hooking step.  The invariant says where the entry point  *)
(* leads then, and which value a thread that has it swapped will write back. *)

\* A frame whose thread has replaced the entry point, or is about to with a value
\* it has read.
Swaps(f) == f.pc \in {"set", "call", "jni", "restore"} /\ ~f.bare

\* A hook is installed and not yet taken back.
Armed == handle.hooked /\ api.pc # "unregister"

\* Where the entry point leads when no thread has it swapped.
Base == IF Armed /\ ~handle.inline THEN Bridge(n) ELSE Code

\* Before the first disturbance: unhook has the method's own code to put back, the
\* first bytes are patched while an inline hook is installed, and a hook in the
\* making will be undone the way Save has decided.
MethodCalm ==
    /\ handle.entry = Code
    /\ (patch[0] # 0) <=> (Armed /\ handle.inline)
    /\ handle.hooked => n > 0 /\ hooks # "none" /\ api.pc \in {"idle", "restore", "unregister"}
    /\ api.pc \in {"restore", "unregister"} => handle.hooked
    /\ api.pc \in {"install", "backup", "replace", "publish"} => hooks # "none"
    /\ api.pc \in {"register", "install", "backup", "replace", "publish"} =>
          handle.inline = (0 \in inlinable)
    /\ api.pc = "backup" => handle.inline /\ api.code = Code
    /\ api.pc \in {"replace", "publish"} => ~handle.inline
    /\ api.pc = "publish" => n > 0

\* At most one thread has the entry point swapped, and it will write back the
\* value that belongs there; meanwhile nothing has been hooked or unhooked.
StacksCalm ==
    /\ \A t \in Thread, i \in 1 .. MaxDepth :
          /\ Swaps(stack[t][i]) => /\ stack[t][i].cur = Base
                                   /\ api.pc \in {"idle", "restore", "save"}
          /\ stack[t][i].pc \in {"set", "call"} => ~stack[t][i].bare
    /\ \A t, u \in Thread : Swapping(t) /\ Swapping(u) => t = u
    /\ (\A t \in Thread : ~Swapping(t)) => entry = Base

CalmInv == calm => MethodCalm /\ StacksCalm

\* A frame that keeps its place in the swap of the entry point.
Same(g, f) ==
    /\ Swaps(g) <=> Swaps(f)
    /\ Swaps(g) => g.cur = f.cur
    /\ g.pc \in {"set", "call"} => ~g.bare

\* Steps that leave every frame at its place in the swap.
LEMMA SwapsKept ==
    ASSUME StacksCalm, UNCHANGED <<api, handle, n>>,
           \A u \in Thread, i \in 1 .. MaxDepth : Same(stack'[u][i], stack[u][i]),
           entry' = entry \/ \E t \in Thread : Swapping(t)
    PROVE  StacksCalm'
<1>1. Base' = Base
  BY DEF Base, Armed
<1>2. \A u \in Thread : Swapping(u)' <=> Swapping(u)
  BY DEF Swapping, Same, Swaps
<1> QED BY <1>1, <1>2 DEF StacksCalm, Same

\* What a frame says does not change without the frame.
LEMMA SameFrame ==
    ASSUME StacksCalm, NEW u \in Thread, NEW i \in 1 .. MaxDepth
    PROVE  Same(stack[u][i], stack[u][i])
BY DEF StacksCalm, Same

\* A method that is left alone stays as it is.
LEMMA MethodKept ==
    ASSUME MethodCalm, UNCHANGED <<patch, inlinable, n, hooks, handle, api>>
    PROVE  MethodCalm'
BY DEF MethodCalm, Armed

\* The innermost frame is replaced by one at the same place in the swap.
LEMMA TopSame ==
    ASSUME HookInv, StacksCalm, NEW t \in Thread, depth[t] > 0, NEW f, SetTop(t, f), Same(f, Top(t)),
           UNCHANGED <<api, handle, n>>, entry' = entry \/ Swapping(t)
    PROVE  StacksCalm'
<1>1. \A u \in Thread, i \in 1 .. MaxDepth :
          stack'[u][i] = IF u = t /\ i = depth[t] THEN f ELSE stack[u][i]
  <2>1. depth[t] \in 1 .. MaxDepth /\ stack \in [Thread -> [1 .. MaxDepth -> Frame]]
    BY TopFacts DEF HookInv, Stacks
  <2> QED BY <2>1 DEF SetTop
<1>2. \A u \in Thread, i \in 1 .. MaxDepth : Same(stack'[u][i], stack[u][i])
  BY <1>1, SameFrame DEF Top
<1> QED BY <1>2, SwapsKept

\* A frame is pushed that is not in a swap.
LEMMA PushSame ==
    ASSUME HookInv, StacksCalm, NEW t \in Thread, NEW f, NEW g, Push(t, f, g), UNCHANGED method,
           depth[t] > 0 => Same(f, Top(t)), g.pc = "jump", depth[t] < MaxDepth
    PROVE  StacksCalm'
<1>1. /\ depth[t] \in 0 .. MaxDepth /\ stack \in [Thread -> [1 .. MaxDepth -> Frame]]
      /\ depth[t] + 1 \in 1 .. MaxDepth
  BY DepthAssumption DEF HookInv, Stacks
<1>2. \A u \in Thread, i \in 1 .. MaxDepth :
          stack'[u][i] = IF u = t /\ i = depth[t] THEN f
                         ELSE IF u = t /\ i = depth[t] + 1 THEN g ELSE stack[u][i]
  BY <1>1 DEF Push
<1>3. stack[t][depth[t] + 1].pc = "none"
  BY <1>1 DEF HookInv, Stacks
<1>4. Same(g, stack[t][depth[t] + 1])
  BY <1>3 DEF Same, Swaps
<1>5. \A u \in Thread, i \in 1 .. MaxDepth : Same(stack'[u][i], stack[u][i])
  BY <1>1, <1>2, <1>4, SameFrame DEF Top
<1> QED BY <1>5, SwapsKept DEF method

\* A frame is popped that is not in a swap.
LEMMA PopSame ==
    ASSUME HookInv, StacksCalm, NEW t \in Thread, depth[t] > 0, NEW f, Pop(t, f), UNCHANGED method,
           depth[t] > 1 => Same(f, stack[t][depth[t] - 1]), ~Swaps(Top(t))
    PROVE  StacksCalm'
<1>1. /\ depth[t] \in 1 .. MaxDepth /\ stack \in [Thread -> [1 .. MaxDepth -> Frame]]
  BY TopFacts DEF HookInv, Stacks
<1>2. \A u \in Thread, i \in 1 .. MaxDepth :
          stack'[u][i] = IF u = t /\ i = depth[t] THEN NoFrame
                         ELSE IF u = t /\ i = depth[t] - 1 THEN f ELSE stack[u][i]
  BY <1>1 DEF Pop
<1>3. NoFrame.pc = "none"
  BY DEF NoFrame, NewFrame
<1>4. Same(NoFrame, stack[t][depth[t]])
  BY <1>3 DEF Same, Swaps, Top
<1>5. \A u \in Thread, i \in 1 .. MaxDepth : Same(stack'[u][i], stack[u][i])
  BY <1>1, <1>2, <1>4, SameFrame
<1> QED BY <1>5, SwapsKept DEF method

\* Of a thread's frames only one is in a swap.
LEMMA OneSwap ==
    ASSUME HookInv, NEW t \in Thread, NEW i \in 1 .. MaxDepth, NEW j \in 1 .. MaxDepth,
           Swaps(stack[t][i]), Swaps(stack[t][j])
    PROVE  i = j
BY DEF HookInv, Stacks, CallbackNotNested, Swaps, Dispatching


\* Steps of a calling thread.
LEMMA CallCalm ==
    ASSUME HookInv, MethodCalm, StacksCalm, calm', NEW t \in Thread, Call(t) \/ CallStep(t)
    PROVE  MethodCalm' /\ StacksCalm'
<1>0. ASSUME depth[t] > 0
      PROVE  /\ depth[t] \in 1 .. MaxDepth /\ Top(t) \in Frame /\ Top(t) = stack[t][depth[t]]
             /\ Swaps(Top(t)) => Swapping(t)
             /\ Swaps(Top(t)) => Top(t).cur = Base
             /\ Top(t).pc \in {"set", "call"} => ~Top(t).bare
  <2>1. depth[t] \in 1 .. MaxDepth /\ Top(t) \in Frame /\ Top(t) = stack[t][depth[t]]
    BY <1>0, TopFacts DEF Top
  <2>2. Swaps(Top(t)) => Swapping(t)
    BY <2>1 DEF Swaps, Swapping
  <2> QED BY <2>1, <2>2 DEF StacksCalm
<1>1. MethodCalm'
  <2>1. UNCHANGED <<patch, inlinable, n, hooks, handle, api>>
    BY DEF Call, CallStep, FollowPatch, RunBody, Dispatch, CbOriginal, CbResult, CbReturn, CallOrigin,
           ReadEntry, SwapEntry, CallJni, RestoreEntry, EndBody, Return, method
  <2> QED BY <2>1, MethodKept
<1>2. ASSUME NEW f, depth[t] > 0, SetTop(t, f), UNCHANGED method, Top(t).pc \in {"jump", "enter"},
             f.pc \in {"jump", "body", "done", "enter", "leave", "swap"}
      PROVE  StacksCalm'
  <2>1. Same(f, Top(t))
    BY <1>2 DEF Same, Swaps
  <2> QED BY <1>2, <2>1, TopSame DEF method
<1>3. CASE FollowPatch(t)
  <2> DEFINE f == [Top(t) EXCEPT !.addr = Bridge(patch[Top(t).addr.at])]
  <2>1. SetTop(t, f) /\ depth[t] > 0 /\ Top(t).pc = "jump" /\ UNCHANGED method
    BY <1>3 DEF FollowPatch, At
  <2>2. f.pc \in {"jump"}
    BY <1>0, <2>1 DEF Frame
  <2> HIDE DEF f
  <2> QED BY <1>1, <1>2, <2>1, <2>2
<1>4. CASE RunBody(t)
  <2> DEFINE f == [Top(t) EXCEPT !.pc = "body", !.addr = Code]
  <2>1. SetTop(t, f) /\ depth[t] > 0 /\ Top(t).pc = "jump" /\ UNCHANGED method
    BY <1>4 DEF RunBody, At
  <2>2. f.pc \in {"body"}
    BY <1>0, <2>1 DEF Frame
  <2> HIDE DEF f
  <2> QED BY <1>1, <1>2, <2>1, <2>2
<1>12. CASE Dispatch(t)
  <2> DEFINE o == origin[Top(t).addr.at]
             f1 == [Top(t) EXCEPT !.addr = o]
             f2 == [Top(t) EXCEPT !.pc = "done", !.addr = Code]
             f3 == [Top(t) EXCEPT !.pc = "enter", !.addr = Code, !.origin = o, !.bare = (hooks = "bare")]
  <2>1. depth[t] > 0 /\ Top(t).pc = "jump" /\ UNCHANGED method
    BY <1>12 DEF Dispatch, At
  <2>2. SetTop(t, f1) \/ SetTop(t, f2) \/ SetTop(t, f3)
    BY <1>12 DEF Dispatch
  <2>3. f1.pc = "jump" /\ f2.pc = "done" /\ f3.pc = "enter"
    BY <1>0, <2>1 DEF Frame
  <2> HIDE DEF f1, f2, f3
  <2> QED BY <1>1, <1>2, <2>1, <2>2, <2>3
<1>13. CASE CbOriginal(t)
  <2> DEFINE f == [Top(t) EXCEPT !.pc = "swap", !.ret = "enter"]
  <2>1. SetTop(t, f) /\ depth[t] > 0 /\ Top(t).pc = "enter" /\ UNCHANGED method
    BY <1>13 DEF CbOriginal, At
  <2>2. f.pc \in {"swap"}
    BY <1>0, <2>1 DEF Frame
  <2> HIDE DEF f
  <2> QED BY <1>1, <1>2, <2>1, <2>2
<1>14. CASE CbResult(t)
  <2> DEFINE f == [Top(t) EXCEPT !.custom = TRUE]
  <2>1. SetTop(t, f) /\ depth[t] > 0 /\ Top(t).pc = "enter" /\ UNCHANGED method
    BY <1>14 DEF CbResult, At
  <2>2. f.pc \in {"enter"}
    BY <1>0, <2>1 DEF Frame
  <2> HIDE DEF f
  <2> QED BY <1>1, <1>2, <2>1, <2>2
<1>15. CASE CbReturn(t)
  <2> DEFINE f == [Top(t) EXCEPT !.pc = IF Top(t).custom \/ Top(t).invoked THEN "leave" ELSE "swap",
                                !.ret = "leave"]
  <2>1. SetTop(t, f) /\ depth[t] > 0 /\ Top(t).pc = "enter" /\ UNCHANGED method
    BY <1>15 DEF CbReturn, At
  <2>2. f.pc \in {"leave", "swap"}
    BY <1>0, <2>1 DEF Frame
  <2> HIDE DEF f
  <2> QED BY <1>1, <1>2, <2>1, <2>2
<1>5. CASE ReadEntry(t)
  <2> DEFINE f == [Top(t) EXCEPT !.pc = "set", !.cur = entry]
  <2>1. /\ depth[t] > 0 /\ ~Top(t).bare /\ SetTop(t, f) /\ UNCHANGED method
        /\ api.pc = "idle" /\ \A u \in Thread : ~Swapping(u)
    BY <1>5 DEF ReadEntry, At
  <2>2. f.pc = "set" /\ f.cur = entry /\ ~f.bare
    BY <1>0, <2>1 DEF Frame
  <2> HIDE DEF f
  <2>3. entry = Base /\ Base' = Base
    BY <2>1 DEF StacksCalm, Base, Armed, method
  <2>4. \A u \in Thread, i \in 1 .. MaxDepth :
            stack'[u][i] = IF u = t /\ i = depth[t] THEN f ELSE stack[u][i]
    <3>1. stack \in [Thread -> [1 .. MaxDepth -> Frame]]
      BY DEF HookInv, Stacks
    <3> QED BY <1>0, <2>1, <3>1 DEF SetTop
  <2>5. \A u \in Thread, i \in 1 .. MaxDepth : ~Swaps(stack[u][i])
    BY <2>1 DEF Swapping, Swaps
  <2>6. \A u \in Thread : u # t => ~Swapping(u)'
    BY <2>4, <2>5 DEF Swapping, Swaps
  <2>7. Swapping(t)'
    BY <1>0, <2>1, <2>2, <2>4 DEF Swapping
  <2>8. api'.pc = "idle"
    BY <2>1 DEF method
  <2>9. \A u \in Thread, i \in 1 .. MaxDepth : stack'[u][i].pc \in {"set", "call"} => ~stack'[u][i].bare
    BY <2>2, <2>4 DEF StacksCalm
  <2>10. \A u \in Thread, i \in 1 .. MaxDepth : Swaps(stack'[u][i]) => stack'[u][i].cur = Base
    BY <2>2, <2>3, <2>4, <2>5
  <2> QED BY <1>1, <2>3, <2>6, <2>7, <2>8, <2>9, <2>10 DEF StacksCalm
<1>6. CASE SwapEntry(t)
  <2> DEFINE f == [Top(t) EXCEPT !.pc = "call"]
  <2>1. depth[t] > 0 /\ Top(t).pc = "set" /\ SetTop(t, f) /\ UNCHANGED <<api, handle, n>>
    BY <1>6 DEF SwapEntry, At
  <2>2. f.pc = "call" /\ f.cur = Top(t).cur /\ f.bare = Top(t).bare
    BY <1>0, <2>1 DEF Frame
  <2> HIDE DEF f
  <2>3. Same(f, Top(t)) /\ Swapping(t)
    BY <1>0, <2>1, <2>2 DEF Same, Swaps
  <2> QED BY <1>1, <2>1, <2>3, TopSame
<1>7. CASE RestoreEntry(t)
  <2> DEFINE f == [Served(t) EXCEPT !.invoked = TRUE]
  <2>1. /\ depth[t] > 0 /\ Top(t).pc = "restore" /\ SetTop(t, f) /\ UNCHANGED <<api, handle, n>>
        /\ entry' = IF Top(t).bare THEN entry ELSE Top(t).cur
    BY <1>7 DEF RestoreEntry, At
  <2>2. f.pc \in {"enter", "leave"}
    BY <1>0, <2>1 DEF Frame, Served
  <2> HIDE DEF f
  <2>3. CASE Top(t).bare
    <3>1. Same(f, Top(t)) /\ entry' = entry
      BY <2>1, <2>2, <2>3 DEF Same, Swaps
    <3> QED BY <1>1, <2>1, <3>1, TopSame
  <2>4. CASE ~Top(t).bare
    <3>1. Swaps(Top(t)) /\ Swapping(t) /\ entry' = Base /\ Base' = Base
      BY <1>0, <2>1, <2>4 DEF Swaps, Base, Armed
    <3>2. \A u \in Thread, i \in 1 .. MaxDepth :
              stack'[u][i] = IF u = t /\ i = depth[t] THEN f ELSE stack[u][i]
      <4>1. stack \in [Thread -> [1 .. MaxDepth -> Frame]]
        BY DEF HookInv, Stacks
      <4> QED BY <1>0, <2>1, <4>1 DEF SetTop
    <3>3. \A u \in Thread, i \in 1 .. MaxDepth : Swaps(stack[u][i]) => u = t /\ i = depth[t]
      <4> SUFFICES ASSUME NEW u \in Thread, NEW i \in 1 .. MaxDepth, Swaps(stack[u][i])
                   PROVE  u = t /\ i = depth[t]
        OBVIOUS
      <4>1. Swapping(u)
        BY DEF Swaps, Swapping
      <4>2. u = t
        BY <3>1, <4>1 DEF StacksCalm
      <4> QED BY <1>0, <2>1, <3>1, <4>2, OneSwap
    <3>4. \A u \in Thread, i \in 1 .. MaxDepth : ~Swaps(stack'[u][i])
      BY <2>2, <3>2, <3>3 DEF Swaps
    <3>5. \A u \in Thread : ~Swapping(u)'
      BY <3>4 DEF Swaps, Swapping
    <3>6. \A u \in Thread, i \in 1 .. MaxDepth : stack'[u][i].pc \in {"set", "call"} => ~stack'[u][i].bare
      BY <2>2, <3>2 DEF StacksCalm
    <3> QED BY <1>1, <3>1, <3>4, <3>5, <3>6 DEF StacksCalm
  <2> QED BY <2>3, <2>4
<1>8. CASE Call(t)
  <2> DEFINE f == [Top(t) EXCEPT !.nested = TRUE]
             g == NewFrame(TRUE, entry)
  <2>1. Push(t, f, g) /\ UNCHANGED method /\ depth[t] < MaxDepth /\ g.pc = "jump"
    BY <1>8, DepthAssumption DEF Call, HookInv, Stacks, NewFrame
  <2>2. ASSUME depth[t] > 0 PROVE Same(f, Top(t))
    <3>1. Top(t).pc = "body"
      BY <1>8, <2>2 DEF Call, At, HookInv, Stacks
    <3>2. f.pc = "body"
      BY <1>0, <2>2, <3>1 DEF Frame
    <3> QED BY <3>1, <3>2 DEF Same, Swaps
  <2> HIDE DEF f, g
  <2> QED BY <1>1, <2>1, <2>2, PushSame
<1>9. ASSUME NEW a, depth[t] > 0, UNCHANGED method,
             (Top(t).pc = "swap" /\ Top(t).bare) \/ Top(t).pc = "call",
             Push(t, [Top(t) EXCEPT !.pc = "jni"], NewFrame(FALSE, a))
      PROVE  StacksCalm'
  <2> DEFINE f == [Top(t) EXCEPT !.pc = "jni"]
             g == NewFrame(FALSE, a)
  <2>1. f.pc = "jni" /\ f.cur = Top(t).cur /\ f.bare = Top(t).bare
    BY <1>0, <1>9 DEF Frame
  <2>2. Same(f, Top(t))
    BY <1>0, <1>9, <2>1 DEF Same, Swaps
  <2>3. depth[t] < MaxDepth
    BY <1>9, TopFacts DEF Good, Dispatching
  <2>4. g.pc = "jump"
    BY DEF NewFrame
  <2>5. Push(t, f, g)
    BY <1>9
  <2> HIDE DEF f, g
  <2> QED BY <1>9, <2>2, <2>3, <2>4, <2>5, PushSame
<1>10. CASE CallOrigin(t) \/ CallJni(t)
  BY <1>1, <1>9, <1>10 DEF CallOrigin, CallJni, At
<1>11. CASE EndBody(t) \/ Return(t)
  <2>1. /\ depth[t] > 0 /\ UNCHANGED method /\ Top(t).pc \in {"body", "leave", "done"}
        /\ \E k : Pop(t, Below(t, k))
    BY <1>11 DEF EndBody, Return, At
  <2>2. PICK k : Pop(t, Below(t, k))
    BY <2>1
  <2>3. ASSUME depth[t] > 1 PROVE Same(Below(t, k), stack[t][depth[t] - 1])
    <3> DEFINE p == stack[t][depth[t] - 1]
    <3>1. depth[t] - 1 \in 1 .. MaxDepth /\ p \in Frame
      <4>1. stack \in [Thread -> [1 .. MaxDepth -> Frame]]
        BY DEF HookInv, Stacks
      <4>2. depth[t] - 1 \in 1 .. MaxDepth
        BY <1>0, <2>1, <2>3, DepthAssumption
      <4> QED BY <4>1, <4>2
    <3>2. CASE Top(t).own
      BY <3>1, <3>2, SameFrame DEF Below
    <3>3. CASE ~Top(t).own
      <4>1. p.pc = "jni"
        BY <2>1, <3>3, TopFacts
      <4>2. Below(t, k).pc = "restore" /\ Below(t, k).cur = p.cur /\ Below(t, k).bare = p.bare
        BY <3>1, <3>3 DEF Below, Frame
      <4> QED BY <4>1, <4>2 DEF Same, Swaps
    <3> QED BY <3>2, <3>3
  <2>4. ~Swaps(Top(t))
    BY <2>1 DEF Swaps
  <2> QED BY <1>1, <2>1, <2>2, <2>3, <2>4, PopSame
<1> QED BY <1>1, <1>3, <1>4, <1>5, <1>6, <1>7, <1>8, <1>10, <1>11, <1>12, <1>13, <1>14, <1>15 DEF CallStep


\* No thread has the entry point swapped when a hooking step is not disturbed.
LEMMA SettledCalm ==
    ASSUME StacksCalm, \A t \in Thread : ~Swapping(t), UNCHANGED stack, entry' = Base'
    PROVE  StacksCalm'
<1>1. \A t \in Thread, i \in 1 .. MaxDepth : ~Swaps(stack[t][i])
  BY DEF Swapping, Swaps
<1>2. \A t \in Thread : ~Swapping(t)'
  BY DEF Swapping
<1> QED BY <1>1, <1>2 DEF StacksCalm

\* Steps of the hooking side.
LEMMA ApiCalm ==
    ASSUME HookInv, calm, MethodCalm, StacksCalm, calm', ApiStep
    PROVE  MethodCalm' /\ StacksCalm'
<1>0. /\ n \in Nat /\ patch \in [0 .. MaxHooks -> 0 .. MaxHooks] /\ 0 \in 0 .. MaxHooks
      /\ handle \in [hooked : BOOLEAN, inline : BOOLEAN, entry : Addr]
      /\ api \in [pc : {"idle", "restore", "unregister", "save", "register",
                        "install", "backup", "replace", "publish"},
                  again : BOOLEAN, bare : BOOLEAN, retry : BOOLEAN, code : Addr]
      /\ Code.at = 0 /\ ~Code.raw
  BY HooksAssumption DEF HookInv, MethodInv, Code
<1>1. ASSUME api.pc \notin {"idle", "restore", "save"} PROVE \A t \in Thread : ~Swapping(t)
  BY <1>1 DEF StacksCalm, Swapping, Swaps
<1>2. ASSUME \A t \in Thread : ~Swapping(t) PROVE entry = Base
  BY <1>2 DEF StacksCalm
<1>3. CASE HookBegin \/ UnhookBegin
  <2>1. /\ api.pc = "idle" /\ UNCHANGED <<entry, patch, inlinable, n, hooks, handle, stack>>
        /\ api'.pc = IF handle.hooked THEN "restore" ELSE "save"
    <3>1. CASE HookBegin
      BY <1>0, <3>1 DEF HookBegin
    <3>2. CASE UnhookBegin
      BY <1>0, <3>2 DEF UnhookBegin
    <3> QED BY <1>3, <3>1, <3>2
  <2>2. MethodCalm'
    BY <2>1 DEF MethodCalm, Armed
  <2>3. Base' = Base
    BY <2>1 DEF Base, Armed
  <2>4. \A t \in Thread : Swapping(t)' <=> Swapping(t)
    BY <2>1 DEF Swapping
  <2> QED BY <2>1, <2>2, <2>3, <2>4 DEF StacksCalm
<1>4. CASE UnhookRestore
  <2>1. /\ api.pc = "restore" /\ UNCHANGED <<inlinable, n, hooks, handle, stack>>
        /\ \A t \in Thread : ~Swapping(t)
        /\ api'.pc = "unregister"
    BY <1>0, <1>4 DEF UnhookRestore, Undisturbed
  <2>2. handle.hooked /\ handle.entry = Code /\ Armed /\ entry = Base
    BY <1>2, <2>1 DEF MethodCalm, Armed
  <2>3. patch'[0] = 0 /\ entry' = Code
    <3>1. CASE handle.inline
      BY <1>0, <1>4, <2>2, <3>1 DEF UnhookRestore, Base
    <3>2. CASE ~handle.inline
      BY <1>0, <1>4, <2>2, <3>2 DEF UnhookRestore, MethodCalm
    <3> QED BY <3>1, <3>2
  <2>4. Base' = Code /\ ~Armed'
    BY <2>1 DEF Base, Armed
  <2>5. MethodCalm'
    BY <2>1, <2>2, <2>3, <2>4 DEF MethodCalm
  <2> QED BY <2>1, <2>3, <2>4, <2>5, SettledCalm
<1>5. CASE Unregister
  <2>1. /\ api.pc = "unregister" /\ handle' = NoHandle
        /\ UNCHANGED <<entry, patch, inlinable, n, stack>>
    BY <1>5 DEF Unregister
  <2>2. api'.pc \in {"idle", "save"}
    BY <1>0, <1>5 DEF Unregister, Idle
  <2>3. \A t \in Thread : ~Swapping(t)
    BY <1>1, <2>1
  <2>4. entry = Code /\ patch[0] = 0
    BY <1>2, <2>1, <2>3 DEF Base, Armed, MethodCalm
  <2>5. ~handle'.hooked /\ ~handle'.inline /\ handle'.entry = Code
    BY <2>1 DEF NoHandle
  <2>6. Base' = Code /\ ~Armed'
    BY <2>5 DEF Base, Armed
  <2>7. MethodCalm'
    BY <2>1, <2>2, <2>4, <2>5, <2>6 DEF MethodCalm
  <2> QED BY <2>1, <2>3, <2>4, <2>6, <2>7, SettledCalm
<1>6. CASE Save
  <2>1. /\ api.pc = "save" /\ UNCHANGED <<entry, patch, inlinable, n, hooks, stack>>
        /\ \A t \in Thread : ~Swapping(t)
        /\ handle' = [hooked |-> FALSE, inline |-> InlineSafe(entry), entry |-> entry]
    BY <1>6 DEF Save, Undisturbed
  <2>2. api'.pc = "register"
    BY <1>0, <1>6 DEF Save
  <2>3. ~Armed /\ entry = Code /\ patch[0] = 0
    BY <1>2, <2>1 DEF Armed, Base, MethodCalm
  <2>4. InlineSafe(entry) <=> 0 \in inlinable
    BY <1>0, <2>3 DEF InlineSafe
  <2>5. ~handle'.hooked /\ (handle'.inline <=> 0 \in inlinable) /\ handle'.entry = Code
        /\ handle'.inline \in BOOLEAN
    BY <2>1, <2>3, <2>4 DEF InlineSafe
  <2>6. Base' = Code /\ ~Armed'
    BY <2>5 DEF Base, Armed
  <2>7. MethodCalm'
    BY <2>1, <2>2, <2>3, <2>5, <2>6 DEF MethodCalm
  <2> QED BY <2>1, <2>3, <2>6, <2>7, SettledCalm
<1>7. CASE Register
  <2>1. /\ api.pc = "register" /\ UNCHANGED <<entry, patch, inlinable, n, handle, stack>>
        /\ hooks' # "none" /\ api'.pc = "install"
    BY <1>0, <1>7 DEF Register
  <2>2. \A t \in Thread : ~Swapping(t)
    BY <1>1, <2>1
  <2>3. ~handle.hooked /\ entry = Code
    BY <1>2, <2>1, <2>2 DEF MethodCalm, Base, Armed
  <2>4. Base' = Code /\ ~Armed' /\ ~Armed
    BY <2>1, <2>3 DEF Base, Armed
  <2>5. MethodCalm'
    BY <2>1, <2>3, <2>4 DEF MethodCalm
  <2> QED BY <2>1, <2>2, <2>3, <2>4, <2>5, SettledCalm
<1>8. CASE Install
  <2>1. /\ api.pc = "install" /\ UNCHANGED <<entry, patch, inlinable, n, hooks, handle, stack>>
        /\ api'.pc = (IF InlineSafe(entry) THEN "backup" ELSE "replace") /\ api'.code = entry
    BY <1>0, <1>8 DEF Install
  <2>2. \A t \in Thread : ~Swapping(t)
    BY <1>1, <2>1
  <2>3. ~handle.hooked /\ entry = Code /\ patch[0] = 0
    BY <1>2, <2>1, <2>2 DEF MethodCalm, Base, Armed
  <2>4. Base' = Code /\ ~Armed' /\ ~Armed
    BY <2>1, <2>3 DEF Base, Armed
  <2>5. InlineSafe(entry) <=> 0 \in inlinable
    BY <1>0, <2>3 DEF InlineSafe
  <2>6. MethodCalm'
    BY <2>1, <2>3, <2>4, <2>5 DEF MethodCalm
  <2> QED BY <2>1, <2>2, <2>3, <2>4, <2>6, SettledCalm
<1>9. CASE InstallInline
  <2>1. /\ api.pc = "backup" /\ UNCHANGED <<entry, inlinable, hooks, stack>> /\ n' = n + 1
        /\ patch' = [patch EXCEPT ![api.code.at] = n + 1]
        /\ handle' = [handle EXCEPT !.hooked = TRUE] /\ api' = Idle
    BY <1>9 DEF InstallInline
  <2>2. \A t \in Thread : ~Swapping(t)
    BY <1>1, <2>1
  <2>3. handle.inline /\ api.code = Code /\ ~handle.hooked /\ hooks # "none" /\ handle.entry = Code
    BY <2>1 DEF MethodCalm
  <2>4. entry = Code
    BY <1>2, <2>2, <2>3 DEF Base
  <2>5. handle'.hooked /\ handle'.inline /\ handle'.entry = Code /\ api'.pc = "idle"
    BY <1>0, <2>1, <2>3 DEF Idle
  <2>6. patch'[0] # 0 /\ n' > 0
    BY <1>0, <2>1, <2>3
  <2>7. Base' = Code /\ Armed'
    BY <2>5 DEF Base, Armed
  <2>8. MethodCalm'
    BY <2>1, <2>3, <2>5, <2>6, <2>7 DEF MethodCalm
  <2> QED BY <2>1, <2>2, <2>4, <2>7, <2>8, SettledCalm
<1>10. CASE InlineFails
  BY <1>10 DEF InlineFails
<1>11. CASE MakeBridge
  <2>1. /\ api.pc = "replace" /\ UNCHANGED <<entry, patch, inlinable, hooks, handle, stack>> /\ n' = n + 1
        /\ api'.pc = "publish"
    BY <1>0, <1>11 DEF MakeBridge
  <2>2. \A t \in Thread : ~Swapping(t)
    BY <1>1, <2>1
  <2>3. ~handle.hooked /\ entry = Code
    BY <1>2, <2>1, <2>2 DEF MethodCalm, Base, Armed
  <2>4. Base' = Code /\ ~Armed' /\ ~Armed /\ n' > 0
    BY <1>0, <2>1, <2>3 DEF Base, Armed
  <2>5. MethodCalm'
    BY <2>1, <2>3, <2>4 DEF MethodCalm
  <2> QED BY <2>1, <2>2, <2>3, <2>4, <2>5, SettledCalm
<1>12. CASE Publish
  <2>1. /\ api.pc = "publish" /\ UNCHANGED <<patch, inlinable, n, hooks, stack>> /\ entry' = Bridge(n)
        /\ handle' = [handle EXCEPT !.hooked = TRUE] /\ api' = Idle
    BY <1>12 DEF Publish
  <2>2. \A t \in Thread : ~Swapping(t)
    BY <1>1, <2>1
  <2>3. /\ ~handle.inline /\ ~handle.hooked /\ hooks # "none" /\ handle.entry = Code /\ n > 0
        /\ patch[0] = 0
    BY <2>1 DEF MethodCalm
  <2>4. handle'.hooked /\ ~handle'.inline /\ handle'.entry = Code /\ api'.pc = "idle"
    BY <1>0, <2>1, <2>3 DEF Idle
  <2>5. Base' = Bridge(n) /\ Armed'
    BY <2>1, <2>4 DEF Base, Armed, Bridge
  <2>6. MethodCalm'
    BY <2>1, <2>3, <2>4, <2>5 DEF MethodCalm
  <2> QED BY <2>1, <2>2, <2>5, <2>6, SettledCalm
<1>13. CASE BridgeFails
  <2>1. /\ api.pc = "replace" /\ UNCHANGED <<entry, patch, inlinable, n, hooks, stack>>
        /\ \/ api' = Idle /\ handle' = NoHandle
           \/ api' = [api EXCEPT !.pc = "register", !.retry = TRUE] /\ handle' = handle
    BY <1>13 DEF BridgeFails
  <2>2. \A t \in Thread : ~Swapping(t)
    BY <1>1, <2>1
  <2>3. ~handle.hooked /\ entry = Code /\ patch[0] = 0
    BY <1>2, <2>1, <2>2 DEF MethodCalm, Base, Armed
  <2>4. /\ ~handle'.hooked /\ handle'.entry = Code
        /\ \/ api'.pc = "idle"
           \/ api'.pc = "register" /\ handle'.inline = handle.inline
    <3>1. CASE api' = Idle /\ handle' = NoHandle
      BY <3>1 DEF Idle, NoHandle
    <3>2. CASE api' = [api EXCEPT !.pc = "register", !.retry = TRUE] /\ handle' = handle
      <4>1. api'.pc = "register"
        BY <1>0, <3>2
      <4> QED BY <2>3, <3>2, <4>1 DEF MethodCalm
    <3> QED BY <2>1, <3>1, <3>2
  <2>5. Base' = Code /\ ~Armed'
    BY <2>4 DEF Base, Armed
  <2>6. MethodCalm'
    BY <2>1, <2>3, <2>4, <2>5 DEF MethodCalm
  <2> QED BY <2>1, <2>2, <2>3, <2>5, <2>6, SettledCalm
<1> QED BY <1>3, <1>4, <1>5, <1>6, <1>7, <1>8, <1>9, <1>10, <1>11, <1>12, <1>13 DEF ApiStep

\* Every step keeps what holds until calls of the original overlap.
LEMMA NextCalm == HookInv /\ CalmInv /\ [Next]_vars => CalmInv'
<1> SUFFICES ASSUME HookInv, CalmInv, [Next]_vars, calm' PROVE MethodCalm' /\ StacksCalm'
  BY DEF CalmInv
<1>1. calm
  BY DEF HookInv, Next, ApiStep, HookBegin, UnhookBegin, UnhookRestore, Unregister, Save, Register,
         Install, InstallInline, InlineFails, MakeBridge, Publish, BridgeFails, Undisturbed,
         Call, CallStep, FollowPatch, RunBody, Dispatch, CbOriginal, CbResult, CbReturn, CallOrigin,
         ReadEntry, SwapEntry, CallJni, RestoreEntry, EndBody, Return, vars
<1>2. MethodCalm /\ StacksCalm
  BY <1>1 DEF CalmInv
<1>3. CASE ApiStep
  BY <1>1, <1>2, <1>3, ApiCalm
<1>4. ASSUME NEW t \in Thread, Call(t) \/ CallStep(t) PROVE MethodCalm' /\ StacksCalm'
  BY <1>2, <1>4, CallCalm
<1>5. CASE UNCHANGED vars
  <2>1. MethodCalm'
    BY <1>2, <1>5, MethodKept DEF vars, method
  <2>2. \A u \in Thread, i \in 1 .. MaxDepth : Same(stack'[u][i], stack[u][i])
    BY <1>2, <1>5, SameFrame DEF vars
  <2> QED BY <1>2, <1>5, <2>1, <2>2, SwapsKept DEF vars, method
<1> QED BY <1>3, <1>4, <1>5 DEF Next

\* For any number of threads, hooks and nested calls, inline or by replacement: as long as
\* calls of the original have not overlapped with each other or with hooking, a method whose
\* handle says it is hooked is intercepted, and a call that is intercepted finds its hook.
THEOREM HooksExact == Spec => []HookExact
<1>1. Init => CalmInv
  <2> SUFFICES ASSUME Init PROVE MethodCalm /\ StacksCalm
    BY DEF CalmInv
  <2>1. patch[0] = 0 /\ handle = NoHandle /\ api.pc = "idle" /\ ~Armed /\ Base = Code
    BY HooksAssumption DEF Init, Armed, Base, NoHandle, Idle
  <2>2. MethodCalm
    BY <2>1 DEF MethodCalm, NoHandle
  <2>3. \A t \in Thread, i \in 1 .. MaxDepth : stack[t][i].pc = "none"
    BY DEF Init, NoFrame, NewFrame
  <2>4. StacksCalm
    BY <2>1, <2>3 DEF StacksCalm, Swaps, Swapping, Init
  <2> QED BY <2>2, <2>4
<1>2. HookInv /\ CalmInv => HookExact
  <2> SUFFICES ASSUME HookInv, CalmInv, calm, Quiet
               PROVE  (handle.hooked => Intercepted) /\ (Intercepted => hooks # "none")
    BY DEF HookExact
  <2>1. MethodCalm /\ entry = Base /\ api.pc = "idle" /\ n \in Nat
    BY HooksAssumption DEF CalmInv, StacksCalm, Quiet, HookInv, MethodInv
  <2>2. CASE handle.hooked /\ handle.inline
    BY <2>1, <2>2 DEF MethodCalm, Base, Armed, Intercepted, Code
  <2>3. CASE handle.hooked /\ ~handle.inline
    BY <2>1, <2>3 DEF MethodCalm, Base, Armed, Intercepted, Bridge
  <2>4. CASE ~handle.hooked
    BY <2>1, <2>4 DEF MethodCalm, Base, Armed, Intercepted, Code
  <2> QED BY <2>2, <2>3, <2>4
<1> QED BY <1>1, <1>2, InitInv, NextInv, NextCalm, PTL DEF Spec

=============================================================================
