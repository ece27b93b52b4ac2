---------------------------- MODULE InterpProofs ----------------------------
(***************************************************************************)
(* Interpreted runs own the references they use and undo what they set up, *)
(* for any bytecode, registers, nesting of hooks and number of references. *)
(***************************************************************************)
EXTENDS Interp, SequenceTheorems, WellFoundedInduction, TLAPS

Registers == [Reg -> [v : Value, own : BOOLEAN]]
Levels == [LocalRef -> Nat]
Last == [status : {"none", "ok", "aborted", "handoff", "refused"}, res : Value, exc : BOOLEAN]

\* The registers of the k-th frame: every reference is owned by its register, is alive in
\* the frame's local frame and is in no other register of the frame.
RegsOK(regs, k, lv) ==
    /\ \A r \in Reg : regs[r].v \in LocalRef => regs[r].own /\ lv[regs[r].v] = Local(k)
    /\ \A r, s \in Reg : regs[r].v \in LocalRef /\ regs[r].v = regs[s].v => r = s

\* An object in retval that move-result-object may take is in no register yet.
RetOK(f, k, lv) ==
    f.mode = "run" /\ f.got = "obj" /\ f.ret \in LocalRef =>
       lv[f.ret] = Local(k) /\ \A r \in Reg : f.regs[r].v # f.ret

\* What a call returns is of the type of the call; the frame of a hook was entered with
\* the real ManagedStack.
FieldsOK(f) ==
    /\ f.got = "prim" => f.ret = None
    /\ f.got = "obj" => f.ret \in Value
    /\ f.root => f.saved = "real"

\* A reference that frame k has, dead or not, is not one of a frame below.
NotBelow(x, k, lv) == x \in LocalRef => lv[x] = Free \/ lv[x] >= Local(k)

InReach(f, k, lv) ==
    /\ \A r \in Reg : NotBelow(f.regs[r].v, k, lv)
    /\ f.got = "obj" => NotBelow(f.ret, k, lv)

\* A frame that has taken x0 of native code as it was owns nothing for sure, but all it
\* can delete are references of its own local frame.
FrameOK(f, k, lv) ==
    /\ ~f.raw => RegsOK(f.regs, k, lv) /\ RetOK(f, k, lv)
    /\ InReach(f, k, lv) /\ FieldsOK(f)

FramesInv == \A k \in 1..n : FrameOK(stack[k], k, level)

\* The first frame is a hook's; every frame but the last waits for the next one, a hook's
\* in a JNI call, another in a step-in for a result of the callee's type.
ShapeInv ==
    /\ n > 0 => stack[1].root /\ top.mode # "step"
    /\ \A k \in 1..(n - 1) :
          /\ stack[k].mode = IF stack[k + 1].root THEN "jni" ELSE "step"
          /\ ~stack[k + 1].root => stack[k + 1].type = stack[k].got

LevelInv == \A r \in LocalRef : level[r] <= Local(n)

\* What a hook has left is taken before anything else happens.
LastInv ==
    /\ last # NoResult => n = 0 \/ top.mode = "jni"
    /\ last.res \in LocalRef => level[last.res] = Local(n)

MsInv == ms = IF n > 0 /\ top.mode # "jni" /\ last = NoResult THEN "zero" ELSE "real"

\* Frame k waits for a call whose post callback is to be made.
Waiting(k) == stack[k].cbs = "both" /\ stack[k].mode \in {"jni", "step"}

\* The frames that wait have records in the order of the frames, whatever records of
\* abandoned calls and of sessions without a post callback lie between.
PendInv ==
    \E ix \in [Nat -> Nat] :
       /\ \A k \in 1..n : Waiting(k) => ix[k] \in 1..Len(pend) /\ pend[ix[k]] = k
       /\ \A j, k \in 1..n : Waiting(j) /\ Waiting(k) /\ j < k => ix[j] < ix[k]

InterpInv ==
    InterpTypeOK /\ FramesInv /\ ShapeInv /\ LevelInv /\ LastInv /\ MsInv /\ PendInv

-----------------------------------------------------------------------------
(* References, frames and stacks.                                          *)

\* No reference is none, junk or free.
LEMMA Refs ==
    /\ NRef \in Nat /\ NRef >= 1 /\ LocalRef \subseteq Nat /\ LocalRef \subseteq Value
    /\ None \in Value /\ None \notin LocalRef /\ Value = LocalRef \cup {None, Foreign}
    /\ Junk \notin Value /\ Foreign \notin LocalRef /\ 1 \in LocalRef /\ Free \in Nat
  BY InterpAssumption DEF LocalRef, Value, None, Junk, Foreign, Free

\* A local frame is not that of another interpreted frame, and no free reference is in it.
LEMMA Locals ==
    ASSUME NEW k \in Nat
    PROVE  /\ Local(k) \in Nat /\ Local(k) # Free /\ Local(k) = k + 1
           /\ \A j \in Nat : (Local(j) = Local(k) => j = k) /\ (j <= k => Local(j) <= Local(k))
  BY DEF Local, Free

\* The lowest free entry of the reference table is free.
LEMMA FreshFree ==
    ASSUME Unused # {}
    PROVE  Fresh \in LocalRef /\ level[Fresh] = Free
<1> DEFINE R == OpToRel(<, Nat)
<1>1. \A x, y \in Nat : x < y => <<x, y>> \in R
  BY DEF OpToRel
<1>2. IsWellFoundedOn(R, Nat)
  BY NatLessThanWellFounded
<1>3. Unused \subseteq Nat /\ \A x \in Unused : x \in LocalRef /\ level[x] = Free
  BY Refs DEF Unused, Live
<1> HIDE DEF R
<1>4. PICK x \in Unused : \A y \in Unused : ~(<<y, x>> \in R)
  BY <1>2, <1>3, WFMin
<1>5. \A y \in Unused : x <= y
  <2> SUFFICES ASSUME NEW y \in Unused PROVE x <= y
    OBVIOUS
  <2>1. x \in Nat /\ y \in Nat /\ ~(y < x)
    BY <1>1, <1>3, <1>4
  <2> QED BY <2>1
<1>6. Fresh \in Unused
  BY <1>5 DEF Fresh
<1> QED BY <1>3, <1>6

\* The types by name.
LEMMA StackTypes ==
    ASSUME InterpTypeOK
    PROVE  /\ stack \in Seq(Frame) /\ n \in Nat /\ n = Len(stack)
           /\ \A k \in 1..n : stack[k] \in Frame
           /\ n > 0 => top \in Frame /\ n \in 1..n /\ top = stack[n]
           /\ level \in Levels /\ exc \in BOOLEAN /\ pend \in Seq(Nat) /\ Len(pend) \in Nat
           /\ ms \in {"real", "zero"} /\ last \in Last
<1>1. stack \in Seq(Frame) /\ pend \in Seq(Nat)
  BY DEF InterpTypeOK
<1>2. n \in Nat /\ n = Len(stack) /\ Len(pend) \in Nat /\ \A k \in 1..n : stack[k] \in Frame
  BY <1>1 DEF n
<1>3. n > 0 => top \in Frame /\ n \in 1..n /\ top = stack[n]
  BY <1>2 DEF top
<1>4. level \in Levels /\ exc \in BOOLEAN /\ ms \in {"real", "zero"} /\ last \in Last
  BY DEF InterpTypeOK, Levels, Last
<1> QED BY <1>1, <1>2, <1>3, <1>4

\* The fields of a frame.
LEMMA FrameFields ==
    ASSUME NEW f \in Frame
    PROVE  /\ f.regs \in Registers /\ f.ret \in Value \cup {Junk} /\ f.mode \in Modes /\ f.used \in Nat
           /\ f.got \in {"none", "prim", "obj"} /\ f.type \in {"prim", "obj"} /\ f.root \in BOOLEAN
           /\ f.saved \in {"real", "zero"} /\ f.aborted \in BOOLEAN /\ f.handoff \in BOOLEAN
           /\ f.cbs \in Callbacks /\ f.raw \in BOOLEAN
  BY DEF Frame, Registers

\* The new stack has f in the place of the running frame.
TopIs(f) ==
    /\ stack' \in Seq(Frame) /\ n' = n
    /\ \A k \in 1..n : stack'[k] = IF k = n THEN f ELSE stack[k]

\* SetTop does that,
LEMMA TopSet ==
    ASSUME InterpTypeOK, n > 0, NEW f \in Frame, SetTop(f)
    PROVE  TopIs(f)
<1>1. stack \in Seq(Frame) /\ Len(stack) \in Nat /\ Len(stack) \in 1..Len(stack)
  BY StackTypes
<1>2. stack' = [stack EXCEPT ![Len(stack)] = f]
  BY DEF SetTop, n
<1>3. stack' \in Seq(Frame) /\ Len(stack') = Len(stack)
  BY <1>1, <1>2
<1>4. \A k \in 1..Len(stack) : stack'[k] = IF k = Len(stack) THEN f ELSE stack[k]
  BY <1>1, <1>2
<1> QED BY <1>3, <1>4 DEF TopIs, n

\* The stack without the frames above number m.
LEMMA Cut ==
    ASSUME InterpTypeOK, NEW m \in Nat, m <= n, NEW q, q = SubSeq(stack, 1, m)
    PROVE  q \in Seq(Frame) /\ Len(q) = m /\ \A k \in 1..m : q[k] = stack[k] /\ k \in 1..n
<1>1. stack \in Seq(Frame) /\ n = Len(stack) /\ n \in Nat /\ \A k \in 1..n : stack[k] \in Frame
  BY StackTypes
<1>2. \A k \in 1..m : k \in 1..n /\ stack[k] \in Frame
  BY <1>1
<1>3. q \in Seq(Frame)
  BY <1>2
<1>4. Len(q) = m
  OBVIOUS
<1>5. \A k \in 1..m : q[k] = stack[k]
  OBVIOUS
<1> QED BY <1>2, <1>3, <1>4, <1>5

\* The frames above number m give way to f.
LEMMA CutAppend ==
    ASSUME InterpTypeOK, NEW m \in Nat, m <= n, NEW f \in Frame,
           stack' = Append(SubSeq(stack, 1, m), f)
    PROVE  /\ stack' \in Seq(Frame) /\ n' = m + 1 /\ stack'[m + 1] = f
           /\ \A k \in 1..m : stack'[k] = stack[k] /\ k \in 1..n
<1> DEFINE q == SubSeq(stack, 1, m)
<1>1. q \in Seq(Frame) /\ Len(q) = m /\ \A k \in 1..m : q[k] = stack[k] /\ k \in 1..n
  BY Cut
<1>2. stack' = Append(q, f)
  OBVIOUS
<1> HIDE DEF q
<1>3. /\ stack' \in Seq(Frame) /\ Len(stack') = m + 1 /\ stack'[m + 1] = f
      /\ \A k \in 1..m : stack'[k] = q[k]
  BY <1>1, <1>2
<1> QED BY <1>1, <1>3 DEF n

\* The same for the running frame, written the way calls return,
LEMMA TopReplaced ==
    ASSUME InterpTypeOK, n > 0, NEW f \in Frame, stack' = Append(SubSeq(stack, 1, n - 1), f)
    PROVE  TopIs(f)
<1> DEFINE m == n - 1
<1>1. n \in Nat
  BY StackTypes
<1>2. m \in Nat /\ m <= n /\ n = m + 1
  BY <1>1
<1>3. /\ stack' \in Seq(Frame) /\ n' = m + 1 /\ stack'[m + 1] = f
      /\ \A k \in 1..m : stack'[k] = stack[k]
  BY <1>2, CutAppend
<1> HIDE DEF m
<1>4. \A k \in 1..n : k = n \/ k \in 1..m
  BY <1>2
<1>5. ~(n \in 1..m)
  BY <1>2
<1> QED BY <1>2, <1>3, <1>4, <1>5 DEF TopIs

\* The references of frame k stay where they are.
Stay(k, lv, lw) ==
    /\ \A x \in LocalRef : lv[x] = Local(k) => lw[x] = Local(k)
    /\ \A x \in LocalRef : NotBelow(x, k, lv) => NotBelow(x, k, lw)

\* A frame is as good with other levels when they do.
LEMMA FrameMoved ==
    ASSUME NEW f \in Frame, NEW k \in Nat, NEW lv, NEW lw, FrameOK(f, k, lv), Stay(k, lv, lw)
    PROVE  FrameOK(f, k, lw)
<1>1. ~f.raw => RegsOK(f.regs, k, lw)
  BY DEF FrameOK, RegsOK, Stay
<1>2. ~f.raw => RetOK(f, k, lw)
  BY DEF FrameOK, RetOK, Stay
<1>3. InReach(f, k, lw)
  BY DEF FrameOK, InReach, Stay, NotBelow
<1> QED BY <1>1, <1>2, <1>3 DEF FrameOK

-----------------------------------------------------------------------------
(* Records of calls.                                                       *)

\* The records without the last one, and with one more.
LEMMA OneLess ==
    ASSUME NEW s \in Seq(Nat), Len(s) >= 1
    PROVE  /\ SubSeq(s, 1, Len(s) - 1) \in Seq(Nat)
           /\ \A i \in 1..Len(s) : i < Len(s) => /\ i \in 1..Len(SubSeq(s, 1, Len(s) - 1))
                                               /\ SubSeq(s, 1, Len(s) - 1)[i] = s[i]
<1>1. Len(s) \in Nat
  OBVIOUS
<1>2. SubSeq(s, 1, Len(s) - 1) \in Seq(Nat)
  <2>1. \A i \in 1..Len(s) : s[i] \in Nat
    OBVIOUS
  <2> QED BY <1>1, <2>1
<1>3. Len(SubSeq(s, 1, Len(s) - 1)) = Len(s) - 1
  <2> DEFINE l == Len(s) - 1
  <2>1. l \in Nat
    BY <1>1
  <2> HIDE DEF l
  <2>2. Len(SubSeq(s, 1, l)) = l
    BY <2>1
  <2> QED BY <2>2 DEF l
<1>4. \A i \in 1..(Len(s) - 1) : SubSeq(s, 1, Len(s) - 1)[i] = s[i]
  BY <1>1
<1>5. \A i \in 1..Len(s) : i < Len(s) => i \in 1..(Len(s) - 1)
  BY <1>1
<1> QED BY <1>2, <1>3, <1>4, <1>5

\* A record is appended to those of the pending calls.
LEMMA OneMore ==
    ASSUME NEW s \in Seq(Nat), NEW x \in Nat
    PROVE  /\ Append(s, x) \in Seq(Nat) /\ Len(Append(s, x)) \in Nat /\ Append(s, x)[Len(Append(s, x))] = x
           /\ Len(Append(s, x)) \in 1..Len(Append(s, x))
           /\ \A i \in 1..Len(s) : /\ i \in 1..Len(Append(s, x)) /\ i < Len(Append(s, x))
                                  /\ Append(s, x)[i] = s[i]
<1>1. Len(s) \in Nat /\ Len(Append(s, x)) = Len(s) + 1
  OBVIOUS
<1>2. Append(s, x) \in Seq(Nat)
  OBVIOUS
<1>3. Append(s, x)[Len(s) + 1] = x
  BY <1>1
<1>4. \A i \in 1..Len(s) : Append(s, x)[i] = s[i]
  BY <1>1
<1> QED BY <1>1, <1>2, <1>3, <1>4

\* The records of waiting frames stay when no record is taken,
LEMMA PendKept ==
    ASSUME PendInv, pend' = pend, \A k \in 1..n' : Waiting(k)' => k \in 1..n /\ Waiting(k)
    PROVE  PendInv'
<1>1. PICK ix \in [Nat -> Nat] :
        /\ \A k \in 1..n : Waiting(k) => ix[k] \in 1..Len(pend) /\ pend[ix[k]] = k
        /\ \A j, k \in 1..n : Waiting(j) /\ Waiting(k) /\ j < k => ix[j] < ix[k]
  BY DEF PendInv
<1>2. \A k \in 1..n' : Waiting(k)' => ix[k] \in 1..Len(pend') /\ pend'[ix[k]] = k
  BY <1>1
<1>3. \A j, k \in 1..n' : Waiting(j)' /\ Waiting(k)' /\ j < k => ix[j] < ix[k]
  BY <1>1
<1> QED BY <1>2, <1>3 DEF PendInv

\* when the last record is taken for frame j, the last one that waits: the records of the
\* frames below it are before its own,
LEMMA PendPopped ==
    ASSUME PendInv, InterpTypeOK, pend' = SubSeq(pend, 1, Len(pend) - 1), NEW j \in 1..n, Waiting(j),
           \A k \in 1..n' : Waiting(k)' => k \in 1..n /\ Waiting(k) /\ k < j
    PROVE  PendInv'
<1>1. PICK ix \in [Nat -> Nat] :
        /\ \A k \in 1..n : Waiting(k) => ix[k] \in 1..Len(pend) /\ pend[ix[k]] = k
        /\ \A i, k \in 1..n : Waiting(i) /\ Waiting(k) /\ i < k => ix[i] < ix[k]
  BY DEF PendInv
<1>2. pend \in Seq(Nat) /\ Len(pend) \in Nat
  BY DEF InterpTypeOK
<1>3. ix[j] \in 1..Len(pend) /\ Len(pend) >= 1
  BY <1>1, <1>2
<1>4. \A i \in 1..Len(pend) : i < Len(pend) => i \in 1..Len(pend') /\ pend'[i] = pend[i]
  BY <1>2, <1>3, OneLess
<1>7. \A k \in 1..n' : Waiting(k)' => ix[k] \in 1..Len(pend') /\ pend'[ix[k]] = k
  <2> SUFFICES ASSUME NEW k \in 1..n', Waiting(k)'
               PROVE  ix[k] \in 1..Len(pend') /\ pend'[ix[k]] = k
    OBVIOUS
  <2>1. k \in 1..n /\ Waiting(k) /\ k < j
    OBVIOUS
  <2>2. ix[k] \in 1..Len(pend) /\ pend[ix[k]] = k /\ ix[k] < ix[j]
    BY <1>1, <2>1
  <2>3. ix[k] < Len(pend)
    BY <1>2, <1>3, <2>2
  <2> QED BY <1>4, <2>2, <2>3
<1>8. \A i, k \in 1..n' : Waiting(i)' /\ Waiting(k)' /\ i < k => ix[i] < ix[k]
  BY <1>1
<1> QED BY <1>7, <1>8 DEF PendInv

\* when one is added for the running frame,
LEMMA RecordAdded ==
    ASSUME PendInv, InterpTypeOK, n > 0, pend' = Append(pend, n),
           \A k \in 1..n' : Waiting(k)' => k = n \/ (k \in 1..(n - 1) /\ Waiting(k))
    PROVE  PendInv'
<1>1. PICK ix \in [Nat -> Nat] :
        /\ \A k \in 1..n : Waiting(k) => ix[k] \in 1..Len(pend) /\ pend[ix[k]] = k
        /\ \A i, k \in 1..n : Waiting(i) /\ Waiting(k) /\ i < k => ix[i] < ix[k]
  BY DEF PendInv
<1>2. pend \in Seq(Nat) /\ Len(pend) \in Nat /\ n \in Nat
  BY StackTypes
<1> DEFINE l == Len(pend')
           iy == [ix EXCEPT ![n] = l]
<1>3. pend' = Append(pend, n)
  OBVIOUS
<1>4. /\ pend' \in Seq(Nat) /\ l \in Nat /\ pend'[l] = n /\ l \in 1..l
      /\ \A i \in 1..Len(pend) : i \in 1..l /\ i < l /\ pend'[i] = pend[i]
  <2> DEFINE p == pend
             q == Append(pend, n)
  <2>1. /\ q \in Seq(Nat) /\ Len(q) \in Nat /\ q[Len(q)] = n /\ Len(q) \in 1..Len(q)
        /\ \A i \in 1..Len(p) : i \in 1..Len(q) /\ i < Len(q) /\ q[i] = p[i]
    BY <1>2, OneMore
  <2>2. pend' = q
    BY <1>3
  <2> HIDE DEF q
  <2> QED BY <2>1, <2>2
<1>5. iy \in [Nat -> Nat] /\ iy[n] = l /\ \A k \in Nat : k # n => iy[k] = ix[k]
  BY <1>2, <1>4
<1> HIDE DEF iy
<1>6. \A k \in 1..n' : Waiting(k)' => \/ k = n /\ iy[k] = l
                                      \/ k \in 1..n /\ Waiting(k) /\ k < n /\ iy[k] = ix[k] /\ k # n
  <2> SUFFICES ASSUME NEW k \in 1..n', Waiting(k)', k # n
               PROVE  k \in 1..n /\ Waiting(k) /\ k < n /\ iy[k] = ix[k]
    BY <1>5
  <2>1. k \in 1..(n - 1) /\ Waiting(k)
    OBVIOUS
  <2>2. k \in 1..n /\ k < n /\ k \in Nat
    BY <1>2, <2>1
  <2> QED BY <1>5, <2>1, <2>2
<1>7. \A k \in 1..n' : Waiting(k)' => iy[k] \in 1..Len(pend') /\ pend'[iy[k]] = k
  <2> SUFFICES ASSUME NEW k \in 1..n', Waiting(k)'
               PROVE  iy[k] \in 1..l /\ pend'[iy[k]] = k
    OBVIOUS
  <2>1. CASE k = n /\ iy[k] = l
    BY <1>4, <2>1
  <2>2. CASE k \in 1..n /\ Waiting(k) /\ iy[k] = ix[k]
    BY <1>1, <1>4, <2>2
  <2> QED BY <1>6, <2>1, <2>2
<1>8. \A i, k \in 1..n' : Waiting(i)' /\ Waiting(k)' /\ i < k => iy[i] < iy[k]
  <2> SUFFICES ASSUME NEW i \in 1..n', NEW k \in 1..n', Waiting(i)', Waiting(k)', i < k
               PROVE  iy[i] < iy[k]
    OBVIOUS
  <2>1. CASE k = n
    <3>1. i # n
      BY <1>2, <2>1
    <3>2. i \in 1..n /\ Waiting(i) /\ iy[i] = ix[i] /\ iy[k] = l
      BY <1>6, <2>1, <3>1
    <3>3. ix[i] \in 1..Len(pend)
      BY <1>1, <3>2
    <3> QED BY <1>4, <3>2, <3>3
  <2>2. CASE k # n
    <3>1. k \in 1..n /\ Waiting(k) /\ k < n /\ iy[k] = ix[k]
      BY <1>6, <2>2
    <3>2. i # n
      BY <1>2, <3>1
    <3>3. i \in 1..n /\ Waiting(i) /\ iy[i] = ix[i]
      BY <1>6, <3>2
    <3> QED BY <1>1, <3>1, <3>3
  <2> QED BY <2>1, <2>2
<1> QED BY <1>5, <1>7, <1>8 DEF PendInv

\* and when the running frame makes a call.
LEMMA PendRecorded ==
    ASSUME PendInv, InterpTypeOK, n > 0, pend' = Recorded,
           \A k \in 1..n' : Waiting(k)' =>
              (k = n /\ top.cbs # "none") \/ (k \in 1..(n - 1) /\ Waiting(k))
    PROVE  PendInv'
<1>0. n \in Nat /\ \A k \in 1..(n - 1) : k \in 1..n
  BY StackTypes
<1>a. CASE top.cbs = "none"
  <2>1. pend' = pend
    BY <1>a DEF Recorded
  <2> QED BY <1>0, <1>a, <2>1, PendKept
<1>b. CASE top.cbs # "none"
  <2>1. pend' = Append(pend, n)
    BY <1>b DEF Recorded
  <2> QED BY <2>1, RecordAdded
<1> QED BY <1>a, <1>b

\* The records keep their type.
LEMMA RecordedType ==
    ASSUME InterpTypeOK
    PROVE  Recorded \in Seq(Nat)
  BY StackTypes DEF Recorded
-----------------------------------------------------------------------------
(* Steps of the running frame.                                             *)

\* Only references of the running frame's local frame are made and deleted.
OwnLevels ==
    /\ level' \in Levels
    /\ \A x \in LocalRef : \/ level'[x] = level[x]
                           \/ level[x] \in {Free, Local(n)} /\ level'[x] \in {Free, Local(n)}

\* f is the running frame as far as a step of it may not change it.
SameFrame(f) ==
    f \in Frame /\ f.root = top.root /\ f.type = top.type /\ f.saved = top.saved /\ f.cbs = top.cbs

\* An instruction makes f of the running frame and leaves it running, in a handler or done.
RunStep(f) ==
    /\ n > 0 /\ top.mode \in {"run", "handler"}
    /\ SameFrame(f) /\ TopIs(f) /\ f.mode \in {"run", "handler", "done"}
    /\ exc' \in BOOLEAN /\ pend' \in {pend, Recorded} /\ UNCHANGED <<ms, last>>

\* The frame it makes is a good one.
GoodStep(f) == RunStep(f) /\ OwnLevels /\ FrameOK(f, n, level')

\* Such a step keeps the invariant.
LEMMA TopStep ==
    ASSUME InterpInv, NEW f, GoodStep(f)
    PROVE  InterpInv'
<1> USE DEF GoodStep, RunStep, SameFrame
<1>0. /\ InterpTypeOK /\ FramesInv /\ ShapeInv /\ LevelInv /\ LastInv /\ MsInv /\ PendInv
      /\ n \in Nat /\ n \in 1..n /\ top = stack[n] /\ top \in Frame /\ level \in Levels
      /\ \A k \in 1..n : stack[k] \in Frame
  BY StackTypes DEF InterpInv
<1>1. n' = n /\ \A k \in 1..n : stack'[k] = IF k = n THEN f ELSE stack[k]
  BY DEF TopIs
<1>2. top' = f
  BY <1>0, <1>1 DEF top
<1>3. InterpTypeOK'
  <2>1. pend' \in Seq(Nat)
    BY <1>0, RecordedType DEF InterpTypeOK
  <2> QED BY <1>0, <2>1 DEF InterpTypeOK, TopIs, OwnLevels, Levels
<1>4. FramesInv'
  <2> SUFFICES ASSUME NEW k \in 1..n PROVE FrameOK(stack'[k], k, level')
    BY <1>1 DEF FramesInv, FrameOK, RegsOK, RetOK, InReach, NotBelow, FieldsOK
  <2>1. CASE k = n
    BY <1>1, <2>1
  <2>2. CASE k # n
    <3>1. stack'[k] = stack[k] /\ stack[k] \in Frame /\ FrameOK(stack[k], k, level) /\ k \in Nat
      BY <1>0, <1>1, <2>2 DEF FramesInv
    <3>2. Local(k) # Free /\ Local(k) # Local(n) /\ Local(n) >= Local(k)
      BY <1>0, <2>2, <3>1, Locals
    <3>3. Stay(k, level, level')
      BY <3>2 DEF OwnLevels, Stay, NotBelow
    <3> QED BY <3>1, <3>3, FrameMoved
  <2> QED BY <2>1, <2>2
<1>5. ShapeInv'
  <2>1. \A k \in 1..(n - 1) : k \in 1..n /\ k + 1 \in 1..n /\ k # n
    BY <1>0
  <2>2. \A k \in 1..n : stack'[k].root = stack[k].root /\ stack'[k].type = stack[k].type
    BY <1>0, <1>1
  <2>3. 1 \in 1..n
    BY <1>0
  <2>4. \A k \in 1..(n - 1) : stack'[k] = stack[k]
    BY <1>1, <2>1
  <2>5. n' > 0 => stack'[1].root /\ top'.mode # "step"
    BY <1>0, <1>2, <2>2, <2>3 DEF ShapeInv
  <2>6. \A k \in 1..(n - 1) :
          /\ stack'[k].mode = IF stack'[k + 1].root THEN "jni" ELSE "step"
          /\ ~stack'[k + 1].root => stack'[k + 1].type = stack'[k].got
    BY <1>0, <2>1, <2>2, <2>4 DEF ShapeInv
  <2> QED BY <1>1, <2>5, <2>6 DEF ShapeInv
<1>6. LevelInv'
  <2>1. Local(n) \in Nat /\ Free <= Local(n)
    BY <1>0, Locals DEF Free
  <2> QED BY <1>0, <1>1, <2>1 DEF LevelInv, OwnLevels, Local
<1>7. last = NoResult /\ last.res \notin LocalRef
  <2>1. last = NoResult
    BY <1>0 DEF LastInv
  <2> QED BY <2>1, Refs DEF NoResult
<1>8. LastInv'
  BY <1>7 DEF LastInv
<1>9. MsInv'
  BY <1>0, <1>1, <1>2, <1>7 DEF MsInv
<1>10. PendInv'
  <2>1. \A k \in 1..n' : Waiting(k)' => k \in 1..n /\ Waiting(k) /\ k \in 1..(n - 1)
    <3> SUFFICES ASSUME NEW k \in 1..n, Waiting(k)' PROVE Waiting(k) /\ k \in 1..(n - 1)
      BY <1>1
    <3>1. k # n
      BY <1>1 DEF Waiting
    <3> QED BY <1>0, <1>1, <3>1 DEF Waiting
  <2> QED BY <1>0, <2>1, PendKept, PendRecorded
<1> QED BY <1>3, <1>4, <1>5, <1>6, <1>8, <1>9, <1>10 DEF InterpInv

\* A frame with one more instruction counted.
LEMMA CountedFrame ==
    ASSUME InterpTypeOK, n > 0
    PROVE  /\ Counted \in Frame /\ Counted.regs = top.regs /\ Counted.ret = top.ret
           /\ Counted.got = "none" /\ Counted.mode = top.mode
           /\ Counted.root = top.root /\ Counted.type = top.type /\ Counted.saved = top.saved
           /\ Counted.cbs = top.cbs /\ Counted.raw = top.raw
<1>1. top \in Frame
  BY StackTypes
<1> DEFINE t == top
<1>2. Counted = [t EXCEPT !.used = t.used + 1, !.got = "none"]
  BY DEF Counted
<1>3. t \in Frame
  BY <1>1
<1> HIDE DEF t
<1>4. Counted.regs = t.regs /\ Counted.ret = t.ret /\ Counted.got = "none"
  BY <1>2, <1>3 DEF Frame
<1>5. Counted.mode = t.mode /\ Counted.type = t.type /\ Counted.saved = t.saved
  BY <1>2, <1>3 DEF Frame
<1>6. Counted.root = t.root /\ Counted.cbs = t.cbs
  BY <1>2, <1>3 DEF Frame
<1>9. Counted.raw = t.raw
  BY <1>2, <1>3 DEF Frame
<1>7. t.used + 1 \in Nat
  BY <1>3, FrameFields
<1>8. Counted \in Frame
  BY <1>2, <1>3, <1>7 DEF Frame
<1> QED BY <1>4, <1>5, <1>6, <1>8, <1>9 DEF t

\* No register and no reference changes.
LEMMA PlainStep ==
    ASSUME InterpInv, NEW f, RunStep(f), f.regs = top.regs, f.got = "none", f.raw = top.raw,
           level' = level
    PROVE  InterpInv'
<1>1. InterpTypeOK /\ FrameOK(top, n, level) /\ level \in Levels /\ n \in Nat
  BY StackTypes DEF InterpInv, FramesInv, RunStep
<1>2. OwnLevels
  BY <1>1 DEF OwnLevels
<1>3. FrameOK(f, n, level')
  BY <1>1 DEF FrameOK, RegsOK, RetOK, InReach, FieldsOK, RunStep, SameFrame
<1>4. GoodStep(f)
  BY <1>2, <1>3 DEF GoodStep
<1> QED BY <1>4, TopStep

\* What frame n has is free or of its own local frame.
LEMMA Reachable ==
    ASSUME InterpInv, n > 0, NEW x \in LocalRef
    PROVE  NotBelow(x, n, level) <=> level[x] \in {Free, Local(n)}
<1>1. n \in Nat /\ Local(n) \in Nat /\ level[x] \in Nat /\ level[x] <= Local(n)
  BY StackTypes, Locals DEF InterpInv, LevelInv, Levels
<1> QED BY <1>1 DEF NotBelow

\* It stays so when only those change.
LEMMA ReachKept ==
    ASSUME InterpInv, n > 0, OwnLevels, NEW x, NotBelow(x, n, level)
    PROVE  NotBelow(x, n, level')
<1>1. n \in Nat /\ Local(n) \in Nat
  BY StackTypes, Locals DEF InterpInv
<1>2. CASE x \in LocalRef
  BY <1>1, <1>2, Reachable DEF OwnLevels, NotBelow
<1> QED BY <1>2 DEF NotBelow

\* Register d gets v; lv are the levels with v alive if it is a new reference.
Written(f, d, v, own, lv) ==
    /\ f.got = "none" /\ f.regs = [top.regs EXCEPT ![d] = [v |-> v, own |-> own]]
    /\ f.raw = top.raw
    /\ lv \in Levels /\ level' = Deleted(lv, top, d)
    /\ \A x \in LocalRef : x # v => lv[x] = level[x]
    /\ v \in LocalRef => level[v] \in {Free, Local(n)} /\ lv[v] \in {Free, Local(n)}
    /\ ~top.raw /\ v \in LocalRef => own /\ lv[v] = Local(n) /\ \A r \in Reg : top.regs[r].v # v

\* A register is written.
LEMMA WriteStep ==
    ASSUME InterpInv, NEW f, RunStep(f), NEW d \in Reg, NEW v \in Value, NEW own \in BOOLEAN,
           NEW lv, Written(f, d, v, own, lv)
    PROVE  InterpInv'
<1> USE DEF Written
<1>1. /\ InterpTypeOK /\ FrameOK(top, n, level) /\ level \in Levels /\ n \in Nat /\ top \in Frame
      /\ n > 0
  BY StackTypes DEF InterpInv, FramesInv, RunStep
<1>2. top.regs \in Registers /\ (~top.raw => RegsOK(top.regs, n, level))
  BY <1>1, FrameFields DEF FrameOK
<1> DEFINE o == top.regs[d].v
<1>3. /\ o \in LocalRef => level[o] \in {Free, Local(n)}
      /\ ~top.raw /\ o \in LocalRef => top.regs[d].own /\ level[o] = Local(n) /\ o # v
  BY <1>1, <1>2, Reachable DEF RegsOK, FrameOK, InReach
<1>4. /\ level' \in Levels
      /\ \A x \in LocalRef : x # o => level'[x] = lv[x]
      /\ o \in LocalRef => level'[o] \in {Free, lv[o]}
  <2>1. CASE o \in LocalRef /\ top.regs[d].own
    <3>1. level' = [lv EXCEPT ![o] = Free]
      BY <2>1 DEF Deleted
    <3> QED BY <2>1, <3>1, Refs DEF Levels
  <2>2. CASE ~(o \in LocalRef /\ top.regs[d].own)
    BY <2>2 DEF Deleted
  <2> QED BY <2>1, <2>2
<1>5. \A r \in Reg : /\ r # d => f.regs[r] = top.regs[r]
                     /\ f.regs[d].v = v /\ f.regs[d].own = own
  BY <1>2 DEF Registers
<1> HIDE DEF o
<1>6. OwnLevels
  BY <1>3, <1>4 DEF OwnLevels
<1>7. Local(n) # Free
  BY <1>1, Locals
<1>8. ASSUME ~top.raw
      PROVE  \A r \in Reg : r # d /\ top.regs[r].v \in LocalRef =>
                /\ top.regs[r].own /\ top.regs[r].v # v /\ level'[top.regs[r].v] = Local(n)
  <2> SUFFICES ASSUME NEW r \in Reg, r # d, top.regs[r].v \in LocalRef
               PROVE  top.regs[r].own /\ top.regs[r].v # v /\ level'[top.regs[r].v] = Local(n)
    OBVIOUS
  <2>1. top.regs[r].own /\ level[top.regs[r].v] = Local(n)
    BY <1>2, <1>8 DEF RegsOK
  <2>2. top.regs[r].v # o
    BY <1>2, <1>8 DEF RegsOK, o
  <2>3. top.regs[r].v # v
    BY <1>8
  <2> QED BY <1>4, <2>1, <2>2, <2>3
<1>9. ASSUME ~top.raw
      PROVE  RegsOK(f.regs, n, level')
  <2>1. v \in LocalRef => own /\ level'[v] = Local(n)
    BY <1>3, <1>4, <1>9
  <2>2. \A r \in Reg : f.regs[r].v \in LocalRef => f.regs[r].own /\ level'[f.regs[r].v] = Local(n)
    BY <1>5, <1>8, <1>9, <2>1
  <2>3. \A r, s \in Reg : f.regs[r].v \in LocalRef /\ f.regs[r].v = f.regs[s].v => r = s
    BY <1>2, <1>5, <1>8, <1>9 DEF RegsOK
  <2> QED BY <2>2, <2>3 DEF RegsOK
<1>10. InReach(f, n, level')
  <2>1. \A r \in Reg : NotBelow(f.regs[r].v, n, level)
    <3>1. NotBelow(v, n, level)
      BY <1>1, Reachable DEF NotBelow
    <3> QED BY <1>1, <1>5, <3>1 DEF FrameOK, InReach
  <2> QED BY <1>1, <1>6, <2>1, ReachKept DEF InReach
<1>11. FrameOK(f, n, level')
  BY <1>1, <1>9, <1>10 DEF FrameOK, RetOK, FieldsOK, RunStep, SameFrame
<1>12. GoodStep(f)
  BY <1>6, <1>11 DEF GoodStep
<1> QED BY <1>12, TopStep

\* A register gets a primitive or null.
LEMMA NoneWritten ==
    ASSUME InterpInv, NEW f, RunStep(f), f.got = "none", f.raw = top.raw, NEW d \in Reg,
           NEW own \in BOOLEAN,
           f.regs = [top.regs EXCEPT ![d] = [v |-> None, own |-> own]],
           level' = Deleted(level, top, d)
    PROVE  InterpInv'
<1>1. None \in Value /\ None \notin LocalRef /\ level \in Levels
  BY Refs, StackTypes DEF InterpInv
<1>2. Written(f, d, None, own, level)
  BY <1>1 DEF Written
<1> QED BY <1>1, <1>2, WriteStep

\* A register gets a new local reference.
LEMMA FreshWritten ==
    ASSUME InterpInv, NEW f, RunStep(f), f.got = "none", f.raw = top.raw, NEW d \in Reg, Unused # {},
           f.regs = [top.regs EXCEPT ![d] = [v |-> Fresh, own |-> TRUE]],
           level' = Deleted([level EXCEPT ![Fresh] = Local(n)], top, d)
    PROVE  InterpInv'
<1> DEFINE lv == [level EXCEPT ![Fresh] = Local(n)]
<1>1. InterpTypeOK /\ FrameOK(top, n, level) /\ level \in Levels /\ n \in Nat /\ Local(n) \in Nat
  BY StackTypes, Locals DEF InterpInv, FramesInv, RunStep
<1>2. Fresh \in LocalRef /\ level[Fresh] = Free /\ Fresh \in Value /\ Local(n) # Free
  BY <1>1, FreshFree, Refs, Locals
<1>3. lv \in Levels /\ lv[Fresh] = Local(n) /\ \A x \in LocalRef : x # Fresh => lv[x] = level[x]
  BY <1>1, <1>2 DEF Levels
<1>4. ~top.raw => \A r \in Reg : top.regs[r].v # Fresh
  BY <1>1, <1>2 DEF FrameOK, RegsOK
<1>5. level' = Deleted(lv, top, d)
  OBVIOUS
<1> HIDE DEF lv
<1>6. Written(f, d, Fresh, TRUE, lv)
  BY <1>2, <1>3, <1>4, <1>5 DEF Written
<1>7. TRUE \in BOOLEAN
  OBVIOUS
<1> QED BY <1>2, <1>6, <1>7, WriteStep

\* What an instruction does to the fields of the frame.
LEMMA Updated ==
    ASSUME InterpTypeOK, n > 0, NEW m \in {"run", "handler", "done"}, NEW d \in Reg, NEW v \in Value
    PROVE  /\ SameFrame([Counted EXCEPT !.mode = m])
           /\ [Counted EXCEPT !.mode = m].regs = top.regs
           /\ [Counted EXCEPT !.mode = m].mode = m /\ [Counted EXCEPT !.mode = m].got = "none"
           /\ [Counted EXCEPT !.mode = m].raw = top.raw
           /\ [SetObject(Counted, d, v) EXCEPT !.mode = m].raw = top.raw
           /\ [Set(Counted, d, v) EXCEPT !.mode = m].raw = top.raw
           /\ SameFrame([SetObject(Counted, d, v) EXCEPT !.mode = m])
           /\ [SetObject(Counted, d, v) EXCEPT !.mode = m].mode = m
           /\ [SetObject(Counted, d, v) EXCEPT !.mode = m].got = "none"
           /\ [SetObject(Counted, d, v) EXCEPT !.mode = m].regs =
                 [top.regs EXCEPT ![d] = [v |-> v, own |-> TRUE]]
           /\ SameFrame([Set(Counted, d, v) EXCEPT !.mode = m])
           /\ [Set(Counted, d, v) EXCEPT !.mode = m].mode = m
           /\ [Set(Counted, d, v) EXCEPT !.mode = m].got = "none"
           /\ [Set(Counted, d, v) EXCEPT !.mode = m].regs =
                 [top.regs EXCEPT ![d] = [v |-> v, own |-> FALSE]]
<1> DEFINE c == Counted
           ro == [top.regs EXCEPT ![d] = [v |-> v, own |-> TRUE]]
           rp == [top.regs EXCEPT ![d] = [v |-> v, own |-> FALSE]]
<1>1. /\ c \in Frame /\ c.regs = top.regs /\ c.got = "none" /\ c.root = top.root
      /\ c.type = top.type /\ c.saved = top.saved /\ top.regs \in Registers
      /\ c.cbs = top.cbs /\ c.raw = top.raw
  BY CountedFrame, FrameFields, StackTypes
<1>2. ro \in Registers /\ rp \in Registers
  BY <1>1 DEF Registers
<1>3. m \in Modes
  BY DEF Modes
<1>4. SetObject(c, d, v) = [c EXCEPT !.regs = ro] /\ Set(c, d, v) = [c EXCEPT !.regs = rp]
  BY <1>1 DEF SetObject, Set
<1> HIDE DEF c, ro, rp
<1>5. /\ [c EXCEPT !.mode = m] \in Frame /\ [c EXCEPT !.mode = m].regs = c.regs
      /\ [c EXCEPT !.mode = m].mode = m /\ [c EXCEPT !.mode = m].got = c.got
      /\ [c EXCEPT !.mode = m].root = c.root /\ [c EXCEPT !.mode = m].type = c.type
      /\ [c EXCEPT !.mode = m].saved = c.saved /\ [c EXCEPT !.mode = m].cbs = c.cbs
  BY <1>1, <1>3 DEF Frame
<1>11. [c EXCEPT !.mode = m].raw = c.raw
  BY <1>1, <1>3 DEF Frame
<1>6. ASSUME NEW g \in Registers
      PROVE  LET f == [[c EXCEPT !.regs = g] EXCEPT !.mode = m]
             IN  /\ f \in Frame /\ f.regs = g /\ f.mode = m /\ f.got = c.got
                 /\ f.root = c.root /\ f.type = c.type /\ f.saved = c.saved
                 /\ f.cbs = c.cbs /\ f.raw = c.raw
  BY <1>1, <1>3, <1>6 DEF Frame, Registers
<1> DEFINE fo == [[c EXCEPT !.regs = ro] EXCEPT !.mode = m]
           fp == [[c EXCEPT !.regs = rp] EXCEPT !.mode = m]
<1>7. /\ fo \in Frame /\ fo.regs = ro /\ fo.mode = m /\ fo.got = c.got
      /\ fo.root = c.root /\ fo.type = c.type /\ fo.saved = c.saved
      /\ fo.cbs = c.cbs /\ fo.raw = c.raw
  BY <1>2, <1>6
<1>8. /\ fp \in Frame /\ fp.regs = rp /\ fp.mode = m /\ fp.got = c.got
      /\ fp.root = c.root /\ fp.type = c.type /\ fp.saved = c.saved
      /\ fp.cbs = c.cbs /\ fp.raw = c.raw
  BY <1>2, <1>6
<1>9. [SetObject(c, d, v) EXCEPT !.mode = m] = fo /\ [Set(c, d, v) EXCEPT !.mode = m] = fp
  BY <1>4
<1> HIDE DEF fo, fp
<1>10. SameFrame([c EXCEPT !.mode = m]) /\ SameFrame(fo) /\ SameFrame(fp)
  BY <1>1, <1>5, <1>7, <1>8 DEF SameFrame
<1> QED BY <1>1, <1>5, <1>7, <1>8, <1>9, <1>10, <1>11 DEF c, ro, rp

\* The running frame may take a step.
AtInsn == n > 0 /\ top.mode \in {"run", "handler"}

\* What a step that is not a call leaves alone.
NoCall == exc' \in BOOLEAN /\ UNCHANGED <<pend, ms, last>>

\* f is the running frame after an instruction that writes no register,
Plain(f) ==
    /\ SameFrame(f) /\ f.mode \in {"run", "handler", "done"}
    /\ f.got = "none" /\ f.regs = top.regs /\ f.raw = top.raw

\* and after one that writes v to register d.
Wrote(f, d, v, own) ==
    /\ SameFrame(f) /\ f.mode \in {"run", "handler", "done"} /\ f.raw = top.raw
    /\ f.got = "none" /\ f.regs = [top.regs EXCEPT ![d] = [v |-> v, own |-> own]]

\* SetTop of such a frame is a step of it.
LEMMA Stepped ==
    ASSUME InterpInv, AtInsn, NoCall, NEW f, SetTop(f), SameFrame(f),
           f.mode \in {"run", "handler", "done"}
    PROVE  RunStep(f)
<1>1. TopIs(f)
  BY TopSet DEF InterpInv, AtInsn, SameFrame
<1> QED BY <1>1 DEF RunStep, AtInsn, NoCall

\* A step without a register keeps the invariant,
LEMMA PlainSet ==
    ASSUME InterpInv, AtInsn, NoCall, NEW f, SetTop(f), Plain(f), level' = level
    PROVE  InterpInv'
<1>1. /\ SameFrame(f) /\ f.mode \in {"run", "handler", "done"} /\ f.regs = top.regs /\ f.got = "none"
      /\ f.raw = top.raw
  BY DEF Plain
<1>2. RunStep(f)
  BY <1>1, Stepped
<1> QED BY <1>1, <1>2, PlainStep

\* one that writes null or a primitive,
LEMMA NoneSet ==
    ASSUME InterpInv, AtInsn, NoCall, NEW f, SetTop(f), NEW d \in Reg, NEW own \in BOOLEAN,
           Wrote(f, d, None, own), level' = Deleted(level, top, d)
    PROVE  InterpInv'
<1>1. SameFrame(f) /\ f.mode \in {"run", "handler", "done"} /\ f.got = "none" /\ f.raw = top.raw
  BY DEF Wrote
<1>2. f.regs = [top.regs EXCEPT ![d] = [v |-> None, own |-> own]]
  BY DEF Wrote
<1>3. RunStep(f)
  BY <1>1, Stepped
<1> QED BY <1>1, <1>2, <1>3, NoneWritten

\* and one that writes a new reference.
LEMMA FreshSet ==
    ASSUME InterpInv, AtInsn, NoCall, NEW f, SetTop(f), NEW d \in Reg, Unused # {},
           Wrote(f, d, Fresh, TRUE), level' = Deleted([level EXCEPT ![Fresh] = Local(n)], top, d)
    PROVE  InterpInv'
<1>1. SameFrame(f) /\ f.mode \in {"run", "handler", "done"} /\ f.got = "none" /\ f.raw = top.raw
  BY DEF Wrote
<1>2. f.regs = [top.regs EXCEPT ![d] = [v |-> Fresh, own |-> TRUE]]
  BY DEF Wrote
<1>3. RunStep(f)
  BY <1>1, Stepped
<1> QED BY <1>1, <1>2, <1>3, FreshWritten

\* The frames the instructions make.
LEMMA PlainFrames ==
    ASSUME InterpTypeOK, n > 0, NEW v \in Value
    PROVE  /\ \A m \in {"run", "handler", "done"} : Plain([Counted EXCEPT !.mode = m])
           /\ top.mode = "run" => Plain(Counted)
           /\ Plain([Counted EXCEPT !.aborted = TRUE, !.ret = v, !.mode = "done"])
           /\ Plain([Counted EXCEPT !.aborted = TRUE, !.handoff = TRUE, !.ret = v, !.mode = "done"])
           /\ Plain([Counted EXCEPT !.ret = v, !.mode = "done"])
<1> DEFINE c == Counted
<1>1. /\ c \in Frame /\ c.regs = top.regs /\ c.got = "none" /\ c.root = top.root
      /\ c.type = top.type /\ c.saved = top.saved /\ c.mode = top.mode
      /\ c.cbs = top.cbs /\ c.raw = top.raw
  BY CountedFrame
<1>2. "done" \in Modes
  BY DEF Modes
<1> HIDE DEF c
<1>3. ASSUME NEW f \in Frame, f.regs = c.regs, f.got = c.got, f.root = c.root, f.type = c.type,
             f.saved = c.saved, f.mode \in {"run", "handler", "done"}, f.cbs = c.cbs, f.raw = c.raw
      PROVE  Plain(f)
  BY <1>1, <1>3 DEF Plain, SameFrame
<1>4. ASSUME NEW m \in {"run", "handler", "done"}
      PROVE  Plain([c EXCEPT !.mode = m])
  <2> DEFINE f == [c EXCEPT !.mode = m]
  <2>1. m \in Modes
    BY DEF Modes
  <2>2. /\ f \in Frame /\ f.regs = c.regs /\ f.got = c.got /\ f.type = c.type
        /\ f.saved = c.saved /\ f.mode = m
    BY <1>1, <2>1 DEF Frame
  <2>3. f.root = c.root /\ f.cbs = c.cbs
    BY <1>1, <2>1 DEF Frame
  <2>5. f.raw = c.raw
    BY <1>1, <2>1 DEF Frame
  <2> HIDE DEF f
  <2>4. Plain(f)
    BY <1>3, <2>2, <2>3, <2>5
  <2> QED BY <2>4 DEF f
<1>5. top.mode = "run" => Plain(c)
  BY <1>1 DEF Plain, SameFrame
<1>6. Plain([c EXCEPT !.aborted = TRUE, !.ret = v, !.mode = "done"])
  <2> DEFINE f == [c EXCEPT !.aborted = TRUE, !.ret = v, !.mode = "done"]
  <2>1. f.regs = c.regs /\ f.got = c.got /\ f.type = c.type /\ f.saved = c.saved /\ f.mode = "done"
    BY <1>1, <1>2 DEF Frame
  <2>2. f.root = c.root /\ f.cbs = c.cbs
    BY <1>1, <1>2 DEF Frame
  <2>5. f.raw = c.raw
    BY <1>1, <1>2 DEF Frame
  <2>3. f \in Frame
    BY <1>1, <1>2 DEF Frame
  <2> HIDE DEF f
  <2>4. Plain(f)
    BY <1>3, <2>1, <2>2, <2>3, <2>5
  <2> QED BY <2>4 DEF f
<1>7. Plain([c EXCEPT !.aborted = TRUE, !.handoff = TRUE, !.ret = v, !.mode = "done"])
  <2> DEFINE f == [c EXCEPT !.aborted = TRUE, !.handoff = TRUE, !.ret = v, !.mode = "done"]
  <2>1. f.regs = c.regs /\ f.got = c.got /\ f.type = c.type /\ f.saved = c.saved /\ f.mode = "done"
    BY <1>1, <1>2 DEF Frame
  <2>2. f.root = c.root /\ f.cbs = c.cbs
    BY <1>1, <1>2 DEF Frame
  <2>5. f.raw = c.raw
    BY <1>1, <1>2 DEF Frame
  <2>3. f \in Frame
    BY <1>1, <1>2 DEF Frame
  <2> HIDE DEF f
  <2>4. Plain(f)
    BY <1>3, <2>1, <2>2, <2>3, <2>5
  <2> QED BY <2>4 DEF f
<1>8. Plain([c EXCEPT !.ret = v, !.mode = "done"])
  <2> DEFINE f == [c EXCEPT !.ret = v, !.mode = "done"]
  <2>1. f.regs = c.regs /\ f.got = c.got /\ f.type = c.type /\ f.saved = c.saved /\ f.mode = "done"
    BY <1>1, <1>2 DEF Frame
  <2>2. f.root = c.root /\ f.cbs = c.cbs
    BY <1>1, <1>2 DEF Frame
  <2>5. f.raw = c.raw
    BY <1>1, <1>2 DEF Frame
  <2>3. f \in Frame
    BY <1>1, <1>2 DEF Frame
  <2> HIDE DEF f
  <2>4. Plain(f)
    BY <1>3, <2>1, <2>2, <2>3, <2>5
  <2> QED BY <2>4 DEF f
<1> QED BY <1>4, <1>5, <1>6, <1>7, <1>8 DEF c

\* The same for the ones that write a register.
LEMMA WroteFrames ==
    ASSUME InterpTypeOK, n > 0, NEW d \in Reg, NEW v \in Value
    PROVE  /\ \A m \in {"run", "handler", "done"} :
                 /\ Wrote([SetObject(Counted, d, v) EXCEPT !.mode = m], d, v, TRUE)
                 /\ Wrote([Set(Counted, d, v) EXCEPT !.mode = m], d, v, FALSE)
           /\ top.mode = "run" => /\ Wrote(SetObject(Counted, d, v), d, v, TRUE)
                                  /\ Wrote(Set(Counted, d, v), d, v, FALSE)
<1>1. ASSUME NEW m \in {"run", "handler", "done"}
      PROVE  /\ Wrote([SetObject(Counted, d, v) EXCEPT !.mode = m], d, v, TRUE)
             /\ Wrote([Set(Counted, d, v) EXCEPT !.mode = m], d, v, FALSE)
  BY <1>1, Updated DEF Wrote
<1>2. ASSUME top.mode = "run"
      PROVE  /\ Wrote(SetObject(Counted, d, v), d, v, TRUE)
             /\ Wrote(Set(Counted, d, v), d, v, FALSE)
  <2> DEFINE c == Counted
             ro == [c.regs EXCEPT ![d] = [v |-> v, own |-> TRUE]]
             rp == [c.regs EXCEPT ![d] = [v |-> v, own |-> FALSE]]
  <2>1. /\ c \in Frame /\ c.regs = top.regs /\ c.got = "none" /\ c.root = top.root
        /\ c.type = top.type /\ c.saved = top.saved /\ c.mode = "run" /\ c.regs \in Registers
        /\ c.cbs = top.cbs /\ c.raw = top.raw
    BY <1>2, CountedFrame, FrameFields
  <2>2. ro \in Registers /\ rp \in Registers
    BY <2>1 DEF Registers
  <2>3. SetObject(c, d, v) = [c EXCEPT !.regs = ro] /\ Set(c, d, v) = [c EXCEPT !.regs = rp]
    BY <2>1 DEF SetObject, Set
  <2> HIDE DEF c
  <2>4. ASSUME NEW g \in Registers
        PROVE  LET f == [c EXCEPT !.regs = g]
               IN  /\ f \in Frame /\ f.regs = g /\ f.mode = c.mode /\ f.got = c.got
                   /\ f.root = c.root /\ f.type = c.type /\ f.saved = c.saved
                   /\ f.cbs = c.cbs /\ f.raw = c.raw
    BY <2>1, <2>4 DEF Frame, Registers
  <2> DEFINE fo == [c EXCEPT !.regs = ro]
             fp == [c EXCEPT !.regs = rp]
  <2> HIDE DEF ro, rp
  <2>5. /\ fo \in Frame /\ fo.regs = ro /\ fo.mode = c.mode /\ fo.got = c.got
        /\ fo.root = c.root /\ fo.type = c.type /\ fo.saved = c.saved
        /\ fo.cbs = c.cbs /\ fo.raw = c.raw
    BY <2>2, <2>4
  <2>6. /\ fp \in Frame /\ fp.regs = rp /\ fp.mode = c.mode /\ fp.got = c.got
        /\ fp.root = c.root /\ fp.type = c.type /\ fp.saved = c.saved
        /\ fp.cbs = c.cbs /\ fp.raw = c.raw
    BY <2>2, <2>4
  <2>7. SetObject(c, d, v) = fo /\ Set(c, d, v) = fp
    BY <2>3
  <2> HIDE DEF fo, fp
  <2>8. Wrote(fo, d, v, TRUE)
    BY <2>1, <2>5 DEF Wrote, SameFrame, ro
  <2>9. Wrote(fp, d, v, FALSE)
    BY <2>1, <2>6 DEF Wrote, SameFrame, rp
  <2> QED BY <2>7, <2>8, <2>9 DEF c
<1> QED BY <1>1, <1>2

-----------------------------------------------------------------------------
(* Instructions.                                                           *)

\* What the guards of the instructions give.
LEMMA CanStepAt ==
    ASSUME InterpInv, CanStep
    PROVE  AtInsn /\ InterpTypeOK /\ n > 0 /\ top.mode = "run" /\ top \in Frame /\ top.regs \in Registers
<1>1. InterpTypeOK /\ n > 0 /\ top.mode = "run"
  BY DEF InterpInv, CanStep
<1>2. top \in Frame
  BY <1>1, StackTypes
<1> QED BY <1>1, <1>2, FrameFields DEF AtInsn

\* A frame is stopped, or left by a return.
LEMMA EndedInv ==
    ASSUME InterpInv, AbortInsn \/ Handoff \/ OpReturn
    PROVE  InterpInv'
<1>1. AtInsn /\ InterpTypeOK /\ n > 0 /\ top \in Frame /\ top.regs \in Registers
  <2>1. CASE AbortInsn
    BY <2>1, StackTypes, FrameFields DEF AbortInsn, AtInsn, InterpInv
  <2>2. CASE Handoff
    BY <2>2, CanStepAt DEF Handoff
  <2>3. CASE OpReturn
    BY <2>3, CanStepAt DEF OpReturn
  <2> QED BY <2>1, <2>2, <2>3
<1>2. NoCall /\ level' = level
  BY <1>1 DEF NoCall, InterpTypeOK, AbortInsn, Handoff, OpReturn
<1>3. None \in Value
  BY Refs
<1>4. CASE AbortInsn
  <2> DEFINE f == [Counted EXCEPT !.aborted = TRUE, !.ret = None, !.mode = "done"]
  <2>1. SetTop(f)
    BY <1>4 DEF AbortInsn
  <2>2. Plain(f)
    BY <1>1, <1>3, PlainFrames
  <2> HIDE DEF f
  <2> QED BY <1>1, <1>2, <2>1, <2>2, PlainSet
<1>5. CASE Handoff
  <2> DEFINE f == [Counted EXCEPT !.aborted = TRUE, !.handoff = TRUE, !.ret = None, !.mode = "done"]
  <2>1. SetTop(f)
    BY <1>5 DEF Handoff
  <2>2. Plain(f)
    BY <1>1, <1>3, PlainFrames
  <2> HIDE DEF f
  <2> QED BY <1>1, <1>2, <2>1, <2>2, PlainSet
<1>6. CASE OpReturn
  <2>1. PICK v \in Value : SetTop([Counted EXCEPT !.ret = v, !.mode = "done"])
    <3>1. \A s \in Reg : top.regs[s].v \in Value
      BY <1>1 DEF Registers
    <3> QED BY <1>3, <1>6, <3>1 DEF OpReturn
  <2> DEFINE f == [Counted EXCEPT !.ret = v, !.mode = "done"]
  <2>2. SetTop(f)
    BY <2>1
  <2>3. Plain(f)
    BY <1>1, PlainFrames
  <2> HIDE DEF f
  <2> QED BY <1>1, <1>2, <2>2, <2>3, PlainSet
<1> QED BY <1>4, <1>5, <1>6

\* An instruction without an effect on the frame.
LEMMA NoEffectInv ==
    ASSUME InterpInv, NoEffect
    PROVE  InterpInv'
<1>1. AtInsn /\ InterpTypeOK /\ n > 0 /\ top.mode = "run"
  BY CanStepAt DEF NoEffect
<1>2. NoCall /\ level' = level /\ SetTop(Counted)
  BY <1>1 DEF NoCall, InterpTypeOK, NoEffect
<1>3. Plain(Counted)
  BY <1>1, PlainFrames, Refs
<1> QED BY <1>1, <1>2, <1>3, PlainSet

\* An exception is thrown: what becomes of the frame.
LEMMA ThrownFrame ==
    ASSUME NEW f, Thrown(f) \/ NothingThrown(f)
    PROVE  \E m \in {"run", "handler", "done"} : SetTop([f EXCEPT !.mode = m]) /\ exc' \in BOOLEAN
  BY DEF Thrown, NothingThrown

\* An instruction raises, with or without an exception.
LEMMA RaiseInv ==
    ASSUME InterpInv, Raise \/ ResolveFails
    PROVE  InterpInv'
<1>1. AtInsn /\ InterpTypeOK /\ n > 0
  BY CanStepAt DEF Raise, ResolveFails
<1>2. (Thrown(Counted) \/ NothingThrown(Counted)) /\ UNCHANGED <<level, pend, ms, last>>
  BY DEF Raise, ResolveFails
<1>3. PICK m \in {"run", "handler", "done"} : SetTop([Counted EXCEPT !.mode = m]) /\ exc' \in BOOLEAN
  BY <1>2, ThrownFrame
<1> DEFINE f == [Counted EXCEPT !.mode = m]
<1>4. Plain(f)
  BY <1>1, PlainFrames, Refs
<1>5. SetTop(f) /\ NoCall /\ level' = level
  BY <1>2, <1>3 DEF NoCall
<1> HIDE DEF f
<1> QED BY <1>1, <1>4, <1>5, PlainSet

\* A register gets a primitive.
LEMMA SetPrimInv ==
    ASSUME InterpInv, NEW d \in Reg, SetPrim(d)
    PROVE  InterpInv'
<1>1. AtInsn /\ InterpTypeOK /\ n > 0 /\ top.mode = "run"
  BY CanStepAt DEF SetPrim
<1> DEFINE f == Set(Counted, d, None)
<1>2. NoCall /\ SetTop(f) /\ level' = Deleted(level, top, d)
  BY <1>1 DEF NoCall, InterpTypeOK, SetPrim
<1>3. Wrote(f, d, None, FALSE) /\ FALSE \in BOOLEAN
  BY <1>1, WroteFrames, Refs
<1> HIDE DEF f
<1> QED BY <1>1, <1>2, <1>3, NoneSet

\* A register gets null or a new reference.
LEMMA ObjectSetInv ==
    ASSUME InterpInv, NEW d \in Reg, CanStep, UNCHANGED <<exc, pend, ms, last>>,
           \/ SetTop(SetObject(Counted, d, None)) /\ level' = Deleted(level, top, d)
           \/ /\ Unused # {} /\ SetTop(SetObject(Counted, d, Fresh))
              /\ level' = Deleted([level EXCEPT ![Fresh] = Local(n)], top, d)
    PROVE  InterpInv'
<1>1. AtInsn /\ InterpTypeOK /\ n > 0 /\ top.mode = "run"
  BY CanStepAt
<1>2. NoCall
  BY <1>1 DEF NoCall, InterpTypeOK
<1>3. CASE SetTop(SetObject(Counted, d, None)) /\ level' = Deleted(level, top, d)
  <2> DEFINE f == SetObject(Counted, d, None)
  <2>1. SetTop(f) /\ Wrote(f, d, None, TRUE) /\ TRUE \in BOOLEAN
    BY <1>1, <1>3, WroteFrames, Refs
  <2> HIDE DEF f
  <2> QED BY <1>1, <1>2, <1>3, <2>1, NoneSet
<1>4. CASE /\ Unused # {} /\ SetTop(SetObject(Counted, d, Fresh))
           /\ level' = Deleted([level EXCEPT ![Fresh] = Local(n)], top, d)
  <2> DEFINE f == SetObject(Counted, d, Fresh)
  <2>1. Fresh \in Value
    BY <1>4, FreshFree, Refs
  <2>2. SetTop(f) /\ Wrote(f, d, Fresh, TRUE)
    BY <1>1, <1>4, <2>1, WroteFrames
  <2> HIDE DEF f
  <2> QED BY <1>1, <1>2, <1>4, <2>2, FreshSet
<1> QED BY <1>3, <1>4

\* move-object, and the instructions that get an object from JNI.
LEMMA ObjectInv ==
    ASSUME InterpInv, NEW d \in Reg, GetObject(d) \/ \E s \in Reg : MoveObject(d, s)
    PROVE  InterpInv'
<1>1. CanStep /\ UNCHANGED <<exc, pend, ms, last>>
  BY DEF GetObject, MoveObject
<1>2. \/ SetTop(SetObject(Counted, d, None)) /\ level' = Deleted(level, top, d)
      \/ /\ Unused # {} /\ SetTop(SetObject(Counted, d, Fresh))
         /\ level' = Deleted([level EXCEPT ![Fresh] = Local(n)], top, d)
  BY DEF GetObject, MoveObject
<1> QED BY <1>1, <1>2, ObjectSetInv

\* A read outside an array.
LEMMA AgetInv ==
    ASSUME InterpInv, NEW d \in Reg, AgetOutside(d)
    PROVE  InterpInv'
<1>1. AtInsn /\ InterpTypeOK /\ n > 0
  BY CanStepAt DEF AgetOutside
<1>2. level' = Deleted(level, top, d) /\ UNCHANGED <<pend, ms, last>>
  BY DEF AgetOutside
<1>3. CASE Thrown(SetObject(Counted, d, None))
  <2>1. PICK m \in {"run", "handler", "done"} :
           SetTop([SetObject(Counted, d, None) EXCEPT !.mode = m]) /\ exc' \in BOOLEAN
    BY <1>3, ThrownFrame
  <2> DEFINE f == [SetObject(Counted, d, None) EXCEPT !.mode = m]
  <2>2. SetTop(f) /\ NoCall /\ Wrote(f, d, None, TRUE) /\ TRUE \in BOOLEAN
    BY <1>1, <1>2, <2>1, WroteFrames, Refs DEF NoCall
  <2> HIDE DEF f
  <2> QED BY <1>1, <1>2, <2>2, NoneSet
<1>4. CASE Thrown(Set(Counted, d, None))
  <2>1. PICK m \in {"run", "handler", "done"} :
           SetTop([Set(Counted, d, None) EXCEPT !.mode = m]) /\ exc' \in BOOLEAN
    BY <1>4, ThrownFrame
  <2> DEFINE f == [Set(Counted, d, None) EXCEPT !.mode = m]
  <2>2. SetTop(f) /\ NoCall /\ Wrote(f, d, None, FALSE) /\ FALSE \in BOOLEAN
    BY <1>1, <1>2, <2>1, WroteFrames, Refs DEF NoCall
  <2> HIDE DEF f
  <2> QED BY <1>1, <1>2, <2>2, NoneSet
<1> QED BY <1>3, <1>4 DEF AgetOutside

\* The first instruction of a handler.
LEMMA MoveExceptionInv ==
    ASSUME InterpInv, NEW d \in Reg, MoveException(d)
    PROVE  InterpInv'
<1>1. AtInsn /\ InterpTypeOK /\ n > 0 /\ Unused # {}
  BY DEF MoveException, InterpInv, AtInsn
<1> DEFINE f == [SetObject(Counted, d, Fresh) EXCEPT !.mode = "run"]
<1>2. /\ SetTop(f) /\ level' = Deleted([level EXCEPT ![Fresh] = Local(n)], top, d)
      /\ exc' \in BOOLEAN /\ UNCHANGED <<pend, ms, last>>
  BY DEF MoveException
<1>3. Fresh \in Value
  BY <1>1, FreshFree, Refs
<1>4. Wrote(f, d, Fresh, TRUE) /\ NoCall
  BY <1>1, <1>2, <1>3, WroteFrames DEF NoCall
<1> HIDE DEF f
<1> QED BY <1>1, <1>2, <1>4, FreshSet

\* The result of a call goes to a register; its reference becomes the register's.
LEMMA MoveResultInv ==
    ASSUME InterpInv, NEW d \in Reg, MoveResult(d)
    PROVE  InterpInv'
<1>1. /\ AtInsn /\ InterpTypeOK /\ n > 0 /\ top.mode = "run" /\ FrameOK(top, n, level)
      /\ level \in Levels
  BY CanStepAt, StackTypes DEF MoveResult, InterpInv, FramesInv
<1>2. NoCall /\ level' = Deleted(level, top, d)
  BY <1>1 DEF NoCall, InterpTypeOK, MoveResult
<1>3. CASE top.got = "prim" /\ SetTop(Set(Counted, d, top.ret))
  <2>1. top.ret = None
    BY <1>1, <1>3 DEF FrameOK, FieldsOK
  <2> DEFINE f == Set(Counted, d, None)
  <2>2. SetTop(f)
    BY <1>3, <2>1
  <2>3. Wrote(f, d, None, FALSE) /\ FALSE \in BOOLEAN
    BY <1>1, WroteFrames, Refs
  <2> HIDE DEF f
  <2> QED BY <1>1, <1>2, <2>2, <2>3, NoneSet
<1>4. CASE top.got = "obj" /\ SetTop(SetObject(Counted, d, top.ret))
  <2> DEFINE v == top.ret
             f == SetObject(Counted, d, v)
  <2>1. v \in Value /\ SetTop(f)
    BY <1>1, <1>4 DEF FrameOK, FieldsOK
  <2>2. Wrote(f, d, v, TRUE) /\ TRUE \in BOOLEAN
    BY <1>1, <2>1, WroteFrames
  <2>3. /\ ~top.raw /\ v \in LocalRef => level[v] = Local(n) /\ \A r \in Reg : top.regs[r].v # v
        /\ v \in LocalRef => level[v] \in {Free, Local(n)}
    BY <1>1, <1>4, Reachable DEF FrameOK, RetOK, InReach
  <2> HIDE DEF f, v
  <2>4. Written(f, d, v, TRUE, level)
    BY <1>1, <1>2, <2>2, <2>3 DEF Wrote, Written
  <2>5. RunStep(f)
    BY <1>1, <1>2, <2>1, <2>2, Stepped DEF Wrote
  <2> QED BY <2>1, <2>2, <2>4, <2>5, WriteStep
<1> QED BY <1>3, <1>4 DEF MoveResult

\* The new array is in retval and in no register.
LEMMA FilledInv ==
    ASSUME InterpInv, FilledNewArray
    PROVE  InterpInv'
<1>1. /\ AtInsn /\ InterpTypeOK /\ n > 0 /\ top.mode = "run" /\ FrameOK(top, n, level)
      /\ level \in Levels /\ n \in Nat /\ Unused # {}
  BY CanStepAt, StackTypes DEF FilledNewArray, InterpInv, FramesInv
<1> DEFINE c == Counted
           f == [c EXCEPT !.ret = Fresh, !.got = "obj"]
<1>2. /\ c \in Frame /\ c.regs = top.regs /\ c.root = top.root
      /\ c.type = top.type /\ c.saved = top.saved /\ c.mode = "run"
      /\ c.cbs = top.cbs /\ c.raw = top.raw
  BY <1>1, CountedFrame
<1>3. Fresh \in LocalRef /\ level[Fresh] = Free /\ Fresh \in Value /\ Local(n) # Free /\ Local(n) \in Nat
  BY <1>1, FreshFree, Refs, Locals
<1>4. SetTop(f) /\ NoCall /\ level' = [level EXCEPT ![Fresh] = Local(n)]
  BY <1>1 DEF FilledNewArray, NoCall, InterpTypeOK
<1> HIDE DEF c
<1>5. f.regs = c.regs /\ f.type = c.type /\ f.saved = c.saved /\ f.mode = "run"
  BY <1>2, <1>3 DEF Frame
<1>6. f.got = "obj" /\ f.ret = Fresh
  BY <1>2, <1>3 DEF Frame
<1>7. f.root = c.root /\ f.cbs = c.cbs
  BY <1>2, <1>3 DEF Frame
<1>18. f.raw = c.raw
  BY <1>2, <1>3 DEF Frame
<1>8. f \in Frame
  BY <1>2, <1>3 DEF Frame
<1> HIDE DEF f
<1>9. SameFrame(f)
  BY <1>2, <1>5, <1>7, <1>8 DEF SameFrame
<1>10. level' \in Levels /\ \A x \in LocalRef : level'[x] = IF x = Fresh THEN Local(n) ELSE level[x]
  BY <1>1, <1>3, <1>4 DEF Levels
<1>11. OwnLevels
  BY <1>3, <1>10 DEF OwnLevels
<1>12. ~f.raw => RegsOK(f.regs, n, level')
  BY <1>1, <1>2, <1>3, <1>5, <1>10, <1>18 DEF FrameOK, RegsOK
<1>13. ~f.raw => \A r \in Reg : f.regs[r].v # Fresh
  BY <1>1, <1>2, <1>3, <1>5, <1>18 DEF FrameOK, RegsOK
<1>14. ~f.raw => RetOK(f, n, level')
  BY <1>3, <1>6, <1>10, <1>13 DEF RetOK
<1>15. FieldsOK(f)
  BY <1>1, <1>3, <1>6, <1>9 DEF FieldsOK, FrameOK, SameFrame
<1>16. RunStep(f)
  BY <1>1, <1>4, <1>5, <1>9, Stepped
<1>19. InReach(f, n, level')
  <2>1. NotBelow(f.ret, n, level)
    BY <1>3, <1>6 DEF NotBelow
  <2>2. \A r \in Reg : NotBelow(f.regs[r].v, n, level)
    BY <1>1, <1>2, <1>5 DEF FrameOK, InReach
  <2> QED BY <1>1, <1>11, <2>1, <2>2, ReachKept DEF InReach
<1>17. GoodStep(f)
  BY <1>11, <1>12, <1>14, <1>15, <1>16, <1>19 DEF GoodStep, FrameOK
<1> QED BY <1>17, TopStep

-----------------------------------------------------------------------------
(* Frames are pushed and popped.                                           *)

\* The frames above number m are gone and number m, which was of the same method, is f.
CutTo(m, f) ==
    /\ stack' \in Seq(Frame) /\ n' = m
    /\ \A k \in 1..m : stack'[k] = IF k = m THEN f ELSE stack[k]
    /\ f \in Frame /\ f.root = stack[m].root /\ f.type = stack[m].type /\ f.mode # "step"

\* No reference of a local frame below m is lost, and none is in one above it.
LevelsCut(m) ==
    /\ level' \in Levels
    /\ \A x \in LocalRef : level'[x] <= Local(m)
    /\ \A k \in 1..(m - 1) : Stay(k, level, level')

\* What is left is in shape.
LEMMA CutStep ==
    ASSUME InterpInv, NEW m \in 1..n, NEW f, CutTo(m, f), LevelsCut(m), FrameOK(f, m, level')
    PROVE  top' = f /\ FramesInv' /\ ShapeInv' /\ LevelInv'
<1>0. /\ InterpTypeOK /\ FramesInv /\ ShapeInv /\ n \in Nat /\ m \in Nat /\ m <= n /\ m >= 1 /\ m \in 1..m
      /\ \A k \in 1..n : stack[k] \in Frame
  BY StackTypes DEF InterpInv
<1>1. /\ n' = m /\ \A k \in 1..m : stack'[k] = IF k = m THEN f ELSE stack[k]
      /\ \A k \in 1..m : k \in 1..n /\ (k # m => k \in 1..(m - 1))
  BY <1>0 DEF CutTo
<1>2. top' = f
  BY <1>0, <1>1 DEF top
<1>3. FramesInv'
  <2> SUFFICES ASSUME NEW k \in 1..m PROVE FrameOK(stack'[k], k, level')
    BY <1>1 DEF FramesInv, FrameOK, RegsOK, RetOK, InReach, NotBelow, FieldsOK
  <2>1. CASE k = m
    BY <1>1, <2>1
  <2>2. CASE k # m
    <3>1. /\ stack'[k] = stack[k] /\ stack[k] \in Frame /\ FrameOK(stack[k], k, level) /\ k \in Nat
          /\ k \in 1..(m - 1)
      BY <1>0, <1>1, <2>2 DEF FramesInv
    <3>2. Stay(k, level, level')
      BY <3>1 DEF LevelsCut
    <3> QED BY <3>1, <3>2, FrameMoved
  <2> QED BY <2>1, <2>2
<1>4. ShapeInv'
  <2>1. \A k \in 1..(m - 1) : k \in 1..m /\ k + 1 \in 1..m /\ k # m /\ k \in 1..(n - 1)
    BY <1>0
  <2>2. \A k \in 1..m : stack'[k].root = stack[k].root /\ stack'[k].type = stack[k].type
    BY <1>1 DEF CutTo
  <2>3. 1 \in 1..m /\ n > 0
    BY <1>0
  <2>4. \A k \in 1..(m - 1) : stack'[k] = stack[k]
    BY <1>1, <2>1
  <2>5. n' > 0 => stack'[1].root /\ top'.mode # "step"
    BY <1>0, <1>2, <2>2, <2>3 DEF ShapeInv, CutTo
  <2>6. \A k \in 1..(m - 1) :
          /\ stack'[k].mode = IF stack'[k + 1].root THEN "jni" ELSE "step"
          /\ ~stack'[k + 1].root => stack'[k + 1].type = stack'[k].got
    BY <1>0, <2>1, <2>2, <2>4 DEF ShapeInv
  <2> QED BY <1>1, <2>5, <2>6 DEF ShapeInv
<1>5. LevelInv'
  BY <1>1 DEF LevelInv, LevelsCut, Local
<1> QED BY <1>2, <1>3, <1>4, <1>5

\* A frame g is pushed on q, the stack with its last frame in another mode.
PushOn(q, g) ==
    /\ q \in Seq(Frame) /\ Len(q) = n /\ g \in Frame /\ stack' = Append(q, g)
    /\ \A k \in 1..(n - 1) : q[k] = stack[k]
    /\ \A k \in 1..n : q[k].root = stack[k].root /\ q[k].type = stack[k].type
    /\ g.mode # "step" /\ (n = 0 => g.root)
    /\ n > 0 => /\ q[n].mode = IF g.root THEN "jni" ELSE "step"
                /\ ~g.root => g.type = q[n].got

\* The new stack is in shape.
LEMMA PushStep ==
    ASSUME InterpInv, NEW q, NEW g, PushOn(q, g), level' \in Levels,
           \A x \in LocalRef : level'[x] <= Local(n + 1),
           \A k \in 1..n : FrameOK(q[k], k, level'), FrameOK(g, n + 1, level')
    PROVE  /\ stack' \in Seq(Frame) /\ n' = n + 1 /\ top' = g /\ \A k \in 1..n : stack'[k] = q[k]
           /\ FramesInv' /\ ShapeInv' /\ LevelInv'
<1>0. InterpTypeOK /\ ShapeInv /\ n \in Nat /\ n + 1 \in Nat
  BY StackTypes DEF InterpInv
<1>1. q \in Seq(Frame) /\ Len(q) = n /\ g \in Frame /\ stack' = Append(q, g)
  BY DEF PushOn
<1>2. /\ stack' \in Seq(Frame) /\ Len(stack') = n + 1 /\ stack'[n + 1] = g
      /\ \A k \in 1..n : stack'[k] = q[k]
  BY <1>0, <1>1
<1>3. n' = n + 1 /\ top' = g
  BY <1>2 DEF top, n
<1>4. FramesInv'
  <2> SUFFICES ASSUME NEW k \in 1..(n + 1) PROVE FrameOK(stack'[k], k, level')
    BY <1>3 DEF FramesInv, FrameOK, RegsOK, RetOK, InReach, NotBelow, FieldsOK
  <2>1. CASE k = n + 1
    BY <1>2, <2>1
  <2>2. CASE k \in 1..n
    BY <1>2, <2>2
  <2> QED BY <1>0, <2>1, <2>2
<1>5. ShapeInv'
  <2>1. stack'[1].root
    <3>1. CASE n = 0
      BY <1>2, <3>1 DEF PushOn
    <3>2. CASE n > 0
      <4>1. 1 \in 1..n
        BY <1>0, <3>2
      <4> QED BY <1>0, <1>2, <3>2, <4>1 DEF PushOn, ShapeInv
    <3> QED BY <1>0, <3>1, <3>2
  <2>2. ASSUME NEW k \in 1..n
        PROVE  /\ stack'[k].mode = IF stack'[k + 1].root THEN "jni" ELSE "step"
               /\ ~stack'[k + 1].root => stack'[k + 1].type = stack'[k].got
    <3>1. CASE k = n
      BY <1>0, <1>2, <2>2, <3>1 DEF PushOn
    <3>2. CASE k # n
      <4>1. k \in 1..(n - 1) /\ k + 1 \in 1..n
        BY <1>0, <2>2, <3>2
      <4>2. stack'[k] = stack[k] /\ stack'[k + 1].root = stack[k + 1].root /\ stack'[k + 1].type = stack[k + 1].type
        BY <1>2, <2>2, <4>1 DEF PushOn
      <4> QED BY <1>0, <4>1, <4>2 DEF ShapeInv
    <3> QED BY <3>1, <3>2
  <2>3. n' - 1 = n /\ n' > 0
    BY <1>0, <1>3
  <2>4. top'.mode # "step"
    BY <1>3 DEF PushOn
  <2> QED BY <2>1, <2>2, <2>3, <2>4 DEF ShapeInv
<1>6. LevelInv'
  BY <1>3 DEF LevelInv, Local
<1> QED BY <1>2, <1>3, <1>4, <1>5, <1>6

-----------------------------------------------------------------------------
(* Calls.                                                                  *)

\* f is the running frame as it calls a method of type t, in mode m.
CallMade(f, t, m) ==
    /\ SameFrame(f) /\ f.regs = top.regs /\ f.mode = m /\ f.ret = None /\ f.got = t
    /\ f.raw = top.raw

\* The running frame when it makes a call.
LEMMA CallFrames ==
    ASSUME InterpTypeOK, n > 0, NEW t \in {"prim", "obj"}, NEW m \in Modes
    PROVE  CallMade([Calling(t) EXCEPT !.mode = m], t, m)
<1> DEFINE c == Counted
           f == [Calling(t) EXCEPT !.mode = m]
<1>1. /\ c \in Frame /\ c.regs = top.regs /\ c.root = top.root
      /\ c.type = top.type /\ c.saved = top.saved /\ c.cbs = top.cbs /\ c.raw = top.raw
  BY CountedFrame
<1>2. None \in Value /\ f = [[c EXCEPT !.ret = None, !.got = t] EXCEPT !.mode = m]
  BY Refs DEF Calling
<1> HIDE DEF c, f
<1>3. f.regs = c.regs /\ f.type = c.type /\ f.saved = c.saved /\ f.mode = m
  BY <1>1, <1>2 DEF Frame
<1>4. f.ret = None /\ f.got = t
  BY <1>1, <1>2 DEF Frame
<1>5. f.root = c.root /\ f.cbs = c.cbs
  BY <1>1, <1>2 DEF Frame
<1>8. f.raw = c.raw
  BY <1>1, <1>2 DEF Frame
<1>6. f \in Frame
  BY <1>1, <1>2 DEF Frame
<1>7. CallMade(f, t, m)
  BY <1>1, <1>3, <1>4, <1>5, <1>6, <1>8 DEF CallMade, SameFrame
<1> QED BY <1>7 DEF f

\* Such a frame is as good as the running one was.
LEMMA CalledOK ==
    ASSUME InterpInv, n > 0, NEW f, NEW t, NEW m, CallMade(f, t, m)
    PROVE  FrameOK(f, n, level)
<1>1. FrameOK(top, n, level) /\ None \in Value /\ None \notin LocalRef
  BY StackTypes, Refs DEF InterpInv, FramesInv
<1>2. ~f.raw => RegsOK(f.regs, n, level)
  BY <1>1 DEF FrameOK, CallMade
<1>3. RetOK(f, n, level)
  BY <1>1 DEF RetOK, CallMade
<1>4. FieldsOK(f)
  BY <1>1 DEF FrameOK, FieldsOK, CallMade, SameFrame
<1>5. InReach(f, n, level)
  BY <1>1 DEF FrameOK, InReach, NotBelow, CallMade
<1> QED BY <1>2, <1>3, <1>4, <1>5 DEF FrameOK

\* While a frame runs, no hook's result waits and the ManagedStack is empty.
LEMMA Quiet ==
    ASSUME InterpInv, n > 0, top.mode # "jni"
    PROVE  last = NoResult /\ last.res \notin LocalRef /\ ms = "zero"
<1>1. last = NoResult /\ n # 0
  <2>1. n \in Nat
    BY StackTypes DEF InterpInv
  <2> QED BY <2>1 DEF InterpInv, LastInv
<1>2. ms = "zero"
  BY <1>1 DEF InterpInv, MsInv
<1> QED BY <1>1, <1>2, Refs DEF NoResult

\* The frame after a call that was made at once: v is in retval, raw if it is a value of
\* native code that JNI has not turned into a reference.
CalledAtOnce(g, t, v, raw, m) ==
    g = [[Calling(t) EXCEPT !.ret = v, !.raw = raw] EXCEPT !.mode = m]

\* The running frame when a call has its result at once.
LEMMA AtOnceFrame ==
    ASSUME InterpTypeOK, n > 0, NEW t \in {"prim", "obj"}, NEW v \in Value, NEW raw \in BOOLEAN,
           NEW m \in {"run", "handler", "done"}, NEW g, CalledAtOnce(g, t, v, raw, m)
    PROVE  /\ SameFrame(g) /\ g.regs = top.regs /\ g.mode = m /\ g.ret = v /\ g.got = t
           /\ g.raw = raw
<1> DEFINE c == Counted
<1>1. /\ c \in Frame /\ c.regs = top.regs /\ c.root = top.root
      /\ c.type = top.type /\ c.saved = top.saved /\ c.cbs = top.cbs
  BY CountedFrame
<1>2. g = [[[c EXCEPT !.ret = None, !.got = t] EXCEPT !.ret = v, !.raw = raw] EXCEPT !.mode = m]
  BY DEF CalledAtOnce, Calling
<1>3. m \in Modes /\ None \in Value
  BY Refs DEF Modes
<1> HIDE DEF c
<1>4. g.regs = c.regs /\ g.type = c.type /\ g.saved = c.saved /\ g.mode = m
  BY <1>1, <1>2, <1>3 DEF Frame
<1>5. g.ret = v /\ g.got = t /\ g.cbs = c.cbs
  BY <1>1, <1>2, <1>3 DEF Frame
<1>6. g.root = c.root
  BY <1>1, <1>2, <1>3 DEF Frame
<1>7. g.raw = raw
  BY <1>1, <1>2, <1>3 DEF Frame
<1>8. g \in Frame
  BY <1>1, <1>2, <1>3 DEF Frame
<1> QED BY <1>1, <1>4, <1>5, <1>6, <1>7, <1>8 DEF SameFrame

\* What such a call does, whichever way it ends.
LEMMA AtOnce ==
    ASSUME InterpInv, CanStep, NEW t, NEW e \in BOOLEAN, NEW f, f.cbs = top.cbs,
           Post(SubSeq(stack, 1, n - 1), f, e, Recorded)
    PROVE  /\ \E m \in {"run", "handler", "done"} :
                 stack' = Append(SubSeq(stack, 1, n - 1), [f EXCEPT !.mode = m])
           /\ exc' \in BOOLEAN /\ pend' \in {pend, Recorded}
<1>1. /\ pend \in Seq(Nat) /\ n \in Nat /\ Len(pend) \in Nat
  BY CanStepAt, StackTypes
<1>2. pend' \in {pend, Recorded}
  <2>1. CASE top.cbs = "both"
    <3>1. Recorded = Append(pend, n)
      BY <2>1 DEF Recorded
    <3>2. Len(Recorded) - 1 = Len(pend)
      BY <1>1, <3>1
    <3>3. pend' = SubSeq(Append(pend, n), 1, Len(pend))
      BY <2>1, <3>1, <3>2 DEF Post
    <3> QED BY <1>1, <3>1, <3>3
  <2>2. CASE top.cbs # "both"
    BY <2>2 DEF Post
  <2> QED BY <2>1, <2>2
<1> QED BY <1>2 DEF Post

\* A native callee is run under the engine: its record is made, and taken at once if
\* there is a post callback.
LEMMA NativeInv ==
    ASSUME InterpInv, InvokeMock \/ NativeStepIn
    PROVE  InterpInv'
<1>1. /\ AtInsn /\ InterpTypeOK /\ n > 0 /\ level \in Levels /\ n \in Nat /\ top \in Frame
      /\ CanStep /\ top.regs \in Registers /\ FrameOK(top, n, level) /\ top.raw \in BOOLEAN
      /\ None \in Value /\ None \notin LocalRef /\ Foreign \in Value /\ Foreign \notin LocalRef
  BY CanStepAt, StackTypes, FrameFields, Refs DEF InvokeMock, NativeStepIn, InterpInv, FramesInv
<1>2. UNCHANGED <<ms, last>>
  BY DEF InvokeMock, NativeStepIn
<1>3. PICK t \in {"prim", "obj"}, e \in BOOLEAN : RunNative(t, e)
  BY DEF InvokeMock, NativeStepIn
<1>4. ASSUME NEW v \in Value, NEW raw \in BOOLEAN, ~raw => ~top.raw, top.raw => raw,
             NEW f, f = [Calling(t) EXCEPT !.ret = v, !.raw = raw],
             Post(SubSeq(stack, 1, n - 1), f, e, Recorded), OwnLevels,
             t = "prim" => v = None, NotBelow(v, n, level'),
             ~raw /\ v \in LocalRef => level'[v] = Local(n) /\ \A r \in Reg : top.regs[r].v # v,
             \A x \in LocalRef : level[x] = Local(n) => level'[x] = Local(n)
      PROVE  InterpInv'
  <2>0. f.cbs = top.cbs
    <3> DEFINE c == Counted
    <3>1. c \in Frame /\ c.cbs = top.cbs
      BY <1>1, CountedFrame
    <3>2. f = [[c EXCEPT !.ret = None, !.got = t] EXCEPT !.ret = v, !.raw = raw]
      BY <1>4 DEF Calling
    <3> HIDE DEF c
    <3> QED BY <3>1, <3>2 DEF Frame
  <2>1. /\ \E m \in {"run", "handler", "done"} :
              stack' = Append(SubSeq(stack, 1, n - 1), [f EXCEPT !.mode = m])
        /\ exc' \in BOOLEAN /\ pend' \in {pend, Recorded}
    BY <1>1, <1>4, <2>0, AtOnce
  <2>2. PICK m \in {"run", "handler", "done"} :
          stack' = Append(SubSeq(stack, 1, n - 1), [f EXCEPT !.mode = m])
    BY <2>1
  <2> DEFINE g == [f EXCEPT !.mode = m]
  <2>3. CalledAtOnce(g, t, v, raw, m)
    BY <1>4 DEF CalledAtOnce
  <2>4. stack' = Append(SubSeq(stack, 1, n - 1), g)
    BY <2>2
  <2> HIDE DEF g
  <2>5. /\ SameFrame(g) /\ g.regs = top.regs /\ g.mode = m /\ g.ret = v /\ g.got = t
        /\ g.raw = raw
    <3>1. t \in {"prim", "obj"} /\ v \in Value /\ raw \in BOOLEAN /\ m \in {"run", "handler", "done"}
      BY <1>3, <1>4, <2>2
    <3>2. InterpTypeOK /\ n > 0
      BY <1>1
    <3> QED BY <2>3, <3>1, <3>2, AtOnceFrame
  <2>6. TopIs(g)
    BY <1>1, <2>4, <2>5, TopReplaced DEF SameFrame
  <2>7. RunStep(g)
    BY <1>1, <1>2, <2>1, <2>5, <2>6 DEF RunStep, AtInsn
  <2>8. ~g.raw => RegsOK(g.regs, n, level')
    BY <1>1, <1>4, <2>5 DEF FrameOK, RegsOK
  <2>9. ~g.raw => RetOK(g, n, level')
    BY <1>4, <2>5 DEF RetOK
  <2>10. InReach(g, n, level')
    <3>1. \A r \in Reg : NotBelow(g.regs[r].v, n, level')
      BY <1>1, <1>4, <2>5, ReachKept DEF FrameOK, InReach
    <3> QED BY <1>4, <2>5, <3>1 DEF InReach
  <2>11. FieldsOK(g)
    BY <1>1, <1>4, <2>5 DEF FrameOK, FieldsOK, SameFrame
  <2>12. GoodStep(g)
    BY <1>4, <2>7, <2>8, <2>9, <2>10, <2>11 DEF GoodStep, FrameOK
  <2> QED BY <2>12, TopStep
<1>5. level' = level => OwnLevels
  BY <1>1 DEF OwnLevels
<1>6. ASSUME NEW v \in Value
      PROVE  /\ [Calling(t) EXCEPT !.ret = v] = [Calling(t) EXCEPT !.ret = v, !.raw = top.raw]
             /\ v = None => Calling(t) = [Calling(t) EXCEPT !.ret = v, !.raw = top.raw]
  <2> DEFINE c == Counted
             f == Calling(t)
  <2>1. c \in Frame /\ c.raw = top.raw
    BY <1>1, CountedFrame
  <2>2. f = [c EXCEPT !.ret = None, !.got = t]
    BY DEF Calling
  <2> HIDE DEF c, f
  <2>3. f \in Frame
    BY <1>1, <2>1, <2>2 DEF Frame
  <2>5. f.raw = top.raw
    BY <1>1, <2>1, <2>2 DEF Frame
  <2>6. f.ret = None
    BY <1>1, <2>1, <2>2 DEF Frame
  <2>4. f = [f EXCEPT !.raw = top.raw] /\ (v = None => f = [f EXCEPT !.ret = v])
    BY <2>3, <2>5, <2>6 DEF Frame
  <2> QED BY <2>3, <2>4, <2>5, <2>6 DEF f, Frame
<1>7. CASE /\ Post(SubSeq(stack, 1, n - 1), Calling(t), e, Recorded)
           /\ level' = level
  <2>1. NotBelow(None, n, level')
    BY <1>1 DEF NotBelow
  <2>2. Post(SubSeq(stack, 1, n - 1), [Calling(t) EXCEPT !.ret = None, !.raw = top.raw], e, Recorded)
    BY <1>1, <1>6, <1>7
  <2> QED BY <1>1, <1>4, <1>5, <1>7, <2>1, <2>2
<1>8. CASE /\ t = "obj" /\ Unused # {}
           /\ Post(SubSeq(stack, 1, n - 1), [Calling(t) EXCEPT !.ret = Fresh], e, Recorded)
           /\ level' = [level EXCEPT ![Fresh] = Local(n)]
  <2>1. Fresh \in LocalRef /\ level[Fresh] = Free /\ Fresh \in Value /\ Local(n) # Free /\ Local(n) \in Nat
    BY <1>1, <1>8, FreshFree, Refs, Locals
  <2>2. level' \in Levels /\ \A x \in LocalRef : level'[x] = IF x = Fresh THEN Local(n) ELSE level[x]
    BY <1>1, <1>8, <2>1 DEF Levels
  <2>3. OwnLevels
    BY <2>1, <2>2 DEF OwnLevels
  <2>4. Post(SubSeq(stack, 1, n - 1), [Calling(t) EXCEPT !.ret = Fresh, !.raw = top.raw], e, Recorded)
    BY <1>6, <1>8, <2>1
  <2>5. NotBelow(Fresh, n, level')
    BY <2>1, <2>2 DEF NotBelow
  <2>6. ~top.raw => \A r \in Reg : top.regs[r].v # Fresh
    BY <1>1, <2>1 DEF FrameOK, RegsOK
  <2> QED BY <1>1, <1>4, <1>8, <2>1, <2>2, <2>3, <2>4, <2>5, <2>6
<1>9. CASE /\ t = "obj"
           /\ \E v \in {top.regs[s].v : s \in Reg} \cup {Foreign} :
                 Post(SubSeq(stack, 1, n - 1), [Calling(t) EXCEPT !.ret = v, !.raw = TRUE], e, Recorded)
           /\ level' = level
  <2>1. PICK v \in {top.regs[s].v : s \in Reg} \cup {Foreign} :
          Post(SubSeq(stack, 1, n - 1), [Calling(t) EXCEPT !.ret = v, !.raw = TRUE], e, Recorded)
    BY <1>9
  <2>2. v \in Value
    BY <1>1 DEF Registers
  <2>3. NotBelow(v, n, level')
    BY <1>1, <1>9 DEF FrameOK, InReach, NotBelow
  <2>4. PICK yes \in BOOLEAN : yes = TRUE
    OBVIOUS
  <2>5. Post(SubSeq(stack, 1, n - 1), [Calling(t) EXCEPT !.ret = v, !.raw = yes], e, Recorded)
    BY <2>1, <2>4
  <2> QED BY <1>1, <1>4, <1>5, <1>9, <2>2, <2>3, <2>4, <2>5
<1> QED BY <1>3, <1>7, <1>8, <1>9 DEF RunNative

\* A call through JNI: the boundary is left and the record is made.
LEMMA InvokeJniInv ==
    ASSUME InterpInv, InvokeJni \/ StepInRefused
    PROVE  InterpInv'
<1>1. /\ InterpTypeOK /\ n > 0 /\ level \in Levels /\ pend \in Seq(Nat) /\ n \in Nat
      /\ n \in 1..n /\ exc \in BOOLEAN /\ last \in Last /\ top.mode = "run" /\ top = stack[n]
  BY CanStepAt, StackTypes DEF InvokeJni, StepInRefused
<1>2. PICK t \in {"prim", "obj"} : SetTop([Calling(t) EXCEPT !.mode = "jni"])
  BY DEF InvokeJni, StepInRefused
<1>3. exc' \in BOOLEAN /\ pend' = Recorded /\ ms' = "real" /\ UNCHANGED <<level, last>>
  BY <1>1 DEF InvokeJni, StepInRefused
<1> DEFINE f == [Calling(t) EXCEPT !.mode = "jni"]
<1>4. CallMade(f, t, "jni") /\ SetTop(f)
  BY <1>1, <1>2, CallFrames DEF Modes
<1> HIDE DEF f
<1>5. TopIs(f) /\ f \in Frame
  BY <1>1, <1>4, TopSet DEF CallMade, SameFrame
<1>6. CutTo(n, f)
  BY <1>1, <1>4, <1>5 DEF CutTo, TopIs, CallMade, SameFrame
<1>7. LevelsCut(n)
  BY <1>1, <1>3 DEF LevelsCut, InterpInv, LevelInv, Stay
<1>8. FrameOK(f, n, level')
  BY <1>1, <1>3, <1>4, CalledOK
<1>9. top' = f /\ FramesInv' /\ ShapeInv' /\ LevelInv' /\ n' = n /\ stack' \in Seq(Frame)
  BY <1>1, <1>6, <1>7, <1>8, CutStep DEF CutTo
<1>10. last = NoResult /\ last.res \notin LocalRef
  BY <1>1, Quiet
<1>11. pend' \in Seq(Nat)
  BY <1>1, <1>3, RecordedType
<1>12. InterpTypeOK'
  BY <1>1, <1>3, <1>9, <1>11 DEF InterpTypeOK, Levels, Last
<1>13. LastInv'
  BY <1>3, <1>10 DEF LastInv
<1>14. MsInv'
  BY <1>3, <1>4, <1>9 DEF MsInv, CallMade
<1>15. PendInv'
  <2>1. \A k \in 1..n' : Waiting(k)' =>
           (k = n /\ top.cbs # "none") \/ (k \in 1..(n - 1) /\ Waiting(k))
    <3>0. Waiting(n)' => top.cbs # "none"
      BY <1>1, <1>4, <1>5 DEF Waiting, TopIs, CallMade, SameFrame
    <3> SUFFICES ASSUME NEW k \in 1..n', Waiting(k)'
                 PROVE  (k = n /\ top.cbs # "none") \/ (k \in 1..(n - 1) /\ Waiting(k))
      OBVIOUS
    <3>1. k \in 1..n
      BY <1>9
    <3>2. CASE k = n
      <4>1. Waiting(n)'
        BY <1>9, <3>2 DEF Waiting
      <4> QED BY <3>0, <3>2, <4>1
    <3>3. CASE k # n
      <4>1. stack'[k] = stack[k]
        BY <1>5, <3>1, <3>3 DEF TopIs
      <4> QED BY <1>1, <3>1, <3>3, <4>1 DEF Waiting
    <3> QED BY <3>2, <3>3
  <2> QED BY <1>1, <1>3, <2>1, PendRecorded DEF InterpInv
<1> QED BY <1>9, <1>12, <1>13, <1>14, <1>15 DEF InterpInv

\* f is frame c with v in retval, in mode m.
Returned(f, c, v, m) ==
    /\ f \in Frame /\ f.root = c.root /\ f.type = c.type /\ f.saved = c.saved
    /\ f.regs = c.regs /\ f.got = c.got /\ f.ret = v /\ f.mode = m
    /\ f.cbs = c.cbs /\ f.raw = c.raw

\* A frame that waits gets the result of its call.
LEMMA ReturnFrames ==
    ASSUME NEW c \in Frame, NEW v \in Value, NEW m \in Modes
    PROVE  Returned([[c EXCEPT !.ret = v] EXCEPT !.mode = m], c, v, m)
<1> DEFINE f == [[c EXCEPT !.ret = v] EXCEPT !.mode = m]
<1>1. f.regs = c.regs /\ f.type = c.type /\ f.saved = c.saved /\ f.got = c.got
  BY DEF Frame
<1>2. f.ret = v /\ f.mode = m
  BY DEF Frame
<1>3. f.root = c.root /\ f.cbs = c.cbs
  BY DEF Frame
<1>6. f.raw = c.raw
  BY DEF Frame
<1>4. f \in Frame
  BY DEF Frame
<1> HIDE DEF f
<1>5. Returned(f, c, v, m)
  BY <1>1, <1>2, <1>3, <1>4, <1>6 DEF Returned
<1> QED BY <1>5 DEF f

\* The post callback: where the frame goes on.
LEMMA PostFrame ==
    ASSUME NEW stk, NEW f, NEW e \in BOOLEAN, Post(stk, f, e, pend)
    PROVE  /\ \E m \in {"run", "handler", "done"} : stack' = Append(stk, [f EXCEPT !.mode = m])
           /\ exc' \in BOOLEAN
           /\ pend' = IF f.cbs = "both" THEN SubSeq(pend, 1, Len(pend) - 1) ELSE pend
  BY DEF Post

\* The values a call may leave in retval of frame m: nothing for a primitive, a reference
\* of the frame's local frame that no register has.
ReturnValue(m, v) ==
    /\ v \in Value /\ (stack[m].got = "prim" => v = None)
    /\ v \in LocalRef => level'[v] = Local(m)
    /\ ~stack[m].raw /\ v \in LocalRef => \A r \in Reg : stack[m].regs[r].v # v

\* Frame m is as good with the result when its own references stay.
LEMMA ReturnedOK ==
    ASSUME InterpInv, NEW m \in 1..n, NEW f, NEW v, NEW md, Returned(f, stack[m], v, md),
           ReturnValue(m, v), Stay(m, level, level')
    PROVE  FrameOK(f, m, level')
<1>1. FrameOK(stack[m], m, level) /\ m \in Nat
  BY StackTypes DEF InterpInv, FramesInv
<1>2. ~f.raw => RegsOK(f.regs, m, level')
  <2>1. ~f.raw => RegsOK(f.regs, m, level)
    BY <1>1 DEF FrameOK, Returned
  <2>2. RegsOK(f.regs, m, level) => RegsOK(f.regs, m, level')
    BY DEF RegsOK, Stay
  <2> QED BY <2>1, <2>2
<1>3. ~f.raw => RetOK(f, m, level')
  BY DEF RetOK, Returned, ReturnValue
<1>4. FieldsOK(f)
  BY <1>1 DEF FrameOK, FieldsOK, Returned, ReturnValue
<1>5. InReach(f, m, level')
  <2>1. NotBelow(v, m, level')
    BY <1>1, Locals DEF NotBelow, ReturnValue
  <2>2. \A r \in Reg : NotBelow(stack[m].regs[r].v, m, level')
    BY <1>1 DEF FrameOK, InReach, Stay, NotBelow
  <2> QED BY <2>1, <2>2 DEF InReach, Returned
<1> QED BY <1>2, <1>3, <1>4, <1>5 DEF FrameOK

\* Frame m gets the result of its call and goes on.
LEMMA ReturnStep ==
    ASSUME InterpInv, NEW m \in 1..n, stack[m].mode \in {"jni", "step"}, NEW v, ReturnValue(m, v),
           Post(SubSeq(stack, 1, m - 1), [stack[m] EXCEPT !.ret = v], FALSE, pend)
             \/ Post(SubSeq(stack, 1, m - 1), [stack[m] EXCEPT !.ret = v], TRUE, pend),
           LevelsCut(m), Stay(m, level, level'),
           ms' = "zero", last = NoResult, last' = last
    PROVE  InterpInv'
<1>1. /\ InterpTypeOK /\ PendInv /\ n \in Nat /\ m \in Nat /\ m >= 1 /\ m <= n /\ stack[m] \in Frame
      /\ pend \in Seq(Nat) /\ last \in Last
  BY StackTypes DEF InterpInv
<1>2. PICK md \in {"run", "handler", "done"} :
        stack' = Append(SubSeq(stack, 1, m - 1), [[stack[m] EXCEPT !.ret = v] EXCEPT !.mode = md])
  BY PostFrame
<1>3. /\ exc' \in BOOLEAN
      /\ pend' = IF stack[m].cbs = "both" THEN SubSeq(pend, 1, Len(pend) - 1) ELSE pend
  <2> DEFINE h == [stack[m] EXCEPT !.ret = v]
  <2>1. h.cbs = stack[m].cbs
    BY <1>1 DEF Frame
  <2> HIDE DEF h
  <2>2. Post(SubSeq(stack, 1, m - 1), h, FALSE, pend) \/ Post(SubSeq(stack, 1, m - 1), h, TRUE, pend)
    BY DEF h
  <2> QED BY <2>1, <2>2, PostFrame
<1> DEFINE f == [[stack[m] EXCEPT !.ret = v] EXCEPT !.mode = md]
           l == m - 1
<1>4. Returned(f, stack[m], v, md)
  BY <1>1, ReturnFrames DEF ReturnValue, Modes
<1>5. stack' = Append(SubSeq(stack, 1, l), f)
  BY <1>2
<1> HIDE DEF f
<1>6. l \in Nat /\ l <= n /\ l + 1 = m
  BY <1>1
<1> HIDE DEF l
<1>7. /\ stack' \in Seq(Frame) /\ n' = l + 1 /\ stack'[l + 1] = f
      /\ \A k \in 1..l : stack'[k] = stack[k]
  BY <1>1, <1>4, <1>5, <1>6, CutAppend DEF Returned
<1>8. \A k \in 1..m : k # m => k \in 1..l /\ k \in 1..n /\ k < m
  BY <1>1, <1>6
<1>9. CutTo(m, f)
  BY <1>4, <1>6, <1>7, <1>8 DEF CutTo, Returned
<1>10. FrameOK(f, m, level')
  BY <1>4, ReturnedOK
<1>11. top' = f /\ FramesInv' /\ ShapeInv' /\ LevelInv'
  BY <1>9, <1>10, CutStep
<1>12. pend' \in Seq(Nat)
  <2>1. CASE stack[m].cbs = "both"
    <3>1. PICK i \in 1..Len(pend) : TRUE
      BY <2>1 DEF InterpInv, PendInv, Waiting
    <3>2. Len(pend) >= 1
      BY <1>1, <3>1
    <3> QED BY <1>1, <1>3, <2>1, <3>2, OneLess
  <2>2. CASE stack[m].cbs # "both"
    BY <1>1, <1>3, <2>2
  <2> QED BY <2>1, <2>2
<1>13. InterpTypeOK'
  BY <1>1, <1>3, <1>7, <1>12 DEF InterpTypeOK, LevelsCut, Levels, Last
<1>14. LastInv'
  BY Refs DEF LastInv, NoResult
<1>15. MsInv'
  BY <1>1, <1>4, <1>6, <1>7, <1>11 DEF MsInv, Returned
<1>16. PendInv'
  <2>1. ASSUME NEW k \in 1..n', Waiting(k)'
        PROVE  k \in 1..n /\ Waiting(k) /\ k < m
    <3>1. k # m
      BY <1>4, <1>6, <1>7, <2>1 DEF Waiting, Returned
    <3>2. k \in 1..l /\ k \in 1..n /\ k < m
      BY <1>6, <1>7, <1>8, <2>1, <3>1
    <3> QED BY <1>7, <2>1, <3>2 DEF Waiting
  <2>2. CASE stack[m].cbs = "both"
    <3>1. Waiting(m)
      BY <2>2 DEF Waiting
    <3> QED BY <1>1, <1>3, <2>1, <2>2, <3>1, PendPopped
  <2>3. CASE stack[m].cbs # "both"
    BY <1>1, <1>3, <2>1, <2>3, PendKept
  <2> QED BY <2>2, <2>3
<1> QED BY <1>11, <1>13, <1>14, <1>15, <1>16 DEF InterpInv

\* A JNI call returns.
LEMMA JniReturnInv ==
    ASSUME InterpInv, JniReturn
    PROVE  InterpInv'
<1>1. /\ InterpTypeOK /\ LevelInv /\ n > 0 /\ n \in 1..n /\ top = stack[n] /\ level \in Levels /\ n \in Nat
      /\ FrameOK(top, n, level) /\ None \in Value /\ None \notin LocalRef
  BY StackTypes, Refs DEF InterpInv, FramesInv, JniReturn
<1>2. stack[n].mode \in {"jni", "step"} /\ last = NoResult /\ last' = last /\ ms' = "zero"
  BY <1>1 DEF JniReturn
<1>3. PICK e \in BOOLEAN :
        \/ /\ Post(SubSeq(stack, 1, n - 1), [top EXCEPT !.ret = None], e, pend)
           /\ level' = level
        \/ /\ top.got = "obj" /\ Unused # {}
           /\ Post(SubSeq(stack, 1, n - 1), [top EXCEPT !.ret = Fresh], e, pend)
           /\ level' = [level EXCEPT ![Fresh] = Local(n)]
  BY DEF JniReturn
<1>4. CASE /\ Post(SubSeq(stack, 1, n - 1), [top EXCEPT !.ret = None], e, pend)
           /\ level' = level
  <2>1. ReturnValue(n, None)
    BY <1>1 DEF ReturnValue
  <2>2. LevelsCut(n) /\ Stay(n, level, level')
    BY <1>1, <1>4 DEF LevelsCut, LevelInv, Stay
  <2>3. \/ Post(SubSeq(stack, 1, n - 1), [stack[n] EXCEPT !.ret = None], FALSE, pend)
        \/ Post(SubSeq(stack, 1, n - 1), [stack[n] EXCEPT !.ret = None], TRUE, pend)
    BY <1>1, <1>4
  <2> QED BY <1>1, <1>2, <2>1, <2>2, <2>3, ReturnStep
<1>5. CASE /\ top.got = "obj" /\ Unused # {}
           /\ Post(SubSeq(stack, 1, n - 1), [top EXCEPT !.ret = Fresh], e, pend)
           /\ level' = [level EXCEPT ![Fresh] = Local(n)]
  <2>1. Fresh \in LocalRef /\ level[Fresh] = Free /\ Fresh \in Value /\ Local(n) # Free /\ Local(n) \in Nat
    BY <1>1, <1>5, FreshFree, Refs, Locals
  <2>2. level' \in Levels /\ \A x \in LocalRef : level'[x] = IF x = Fresh THEN Local(n) ELSE level[x]
    BY <1>1, <1>5, <2>1 DEF Levels
  <2>3. ReturnValue(n, Fresh)
    BY <1>1, <1>5, <2>1, <2>2 DEF ReturnValue, FrameOK, RegsOK
  <2>4. \A x \in LocalRef : level'[x] <= Local(n)
    BY <1>1, <2>1, <2>2 DEF LevelInv
  <2>5. \A k \in 1..n : Local(k) # Free /\ Local(n) >= Local(k)
    BY <1>1, Locals
  <2>8. \A k \in 1..n : Stay(k, level, level')
    BY <2>1, <2>2, <2>5 DEF Stay, NotBelow
  <2>6. LevelsCut(n) /\ Stay(n, level, level')
    <3>1. \A k \in 1..(n - 1) : k \in 1..n
      BY <1>1
    <3> QED BY <1>1, <2>2, <2>4, <2>8, <3>1 DEF LevelsCut
  <2>7. \/ Post(SubSeq(stack, 1, n - 1), [stack[n] EXCEPT !.ret = Fresh], FALSE, pend)
        \/ Post(SubSeq(stack, 1, n - 1), [stack[n] EXCEPT !.ret = Fresh], TRUE, pend)
    BY <1>1, <1>5
  <2> QED BY <1>1, <1>2, <2>3, <2>6, <2>7, ReturnStep
<1> QED BY <1>3, <1>4, <1>5

\* A frame returns.  Its result, if it is a reference, is one of the frame's local frame or
\* a new one, ...
LEMMA ResultsOK ==
    ASSUME InterpTypeOK, n > 0, NEW res \in Results
    PROVE  /\ res \in Value /\ (res \in LocalRef => level[res] \in {Free, Local(n)})
           /\ top.type = "prim" => res = None
<1>1. top \in Frame
  BY StackTypes
<1>2. /\ Live(Local(n)) \subseteq LocalRef /\ \A r \in Live(Local(n)) : level[r] = Local(n)
      /\ Unused \subseteq LocalRef /\ \A r \in Unused : level[r] = Free
  BY DEF Live, Unused
<1>3. res = None \/ res \in Live(Local(n)) \/ res \in Unused
  BY DEF Results
<1>4. top.type = "prim" => res = None
  BY DEF Results
<1> QED BY <1>2, <1>3, <1>4, Refs

\* ... and the local frame is popped.
LEMMA PoppedLevels ==
    ASSUME InterpInv, n > 0, NEW res, level' = PoppedFrame(res),
           res \in LocalRef => level[res] \in {Free, Local(n)}
    PROVE  /\ level' \in Levels
           /\ \A x \in LocalRef : level'[x] <= Local(n - 1)
           /\ \A k \in 1..(n - 1) : Stay(k, level, level')
           /\ res \in LocalRef => level'[res] = Local(n - 1)
<1>1. InterpTypeOK /\ LevelInv /\ n \in Nat /\ level \in Levels
  BY StackTypes DEF InterpInv
<1>2. Local(n) = n + 1 /\ Local(n - 1) = n /\ Free = 0 /\ \A k \in 1..(n - 1) : Local(k) = k + 1
  BY <1>1 DEF Local, Free
<1>3. \A x \in LocalRef : level'[x] = IF x = res THEN Local(n - 1)
                                      ELSE IF level[x] = Local(n) THEN Free ELSE level[x]
  BY DEF PoppedFrame
<1>4. \A x \in LocalRef : level[x] \in Nat /\ level[x] <= n + 1
  BY <1>1, <1>2 DEF LevelInv, Levels
<1>5. \A x \in LocalRef : level'[x] \in Nat /\ level'[x] <= n
  BY <1>1, <1>2, <1>3, <1>4
<1>6. level' \in Levels
  <2>1. level' = [x \in LocalRef |-> level'[x]]
    BY DEF PoppedFrame
  <2> QED BY <1>5, <2>1 DEF Levels
<1>7. ASSUME NEW k \in 1..(n - 1)
      PROVE  Stay(k, level, level')
  <2>1. k \in Nat /\ k >= 1 /\ k + 1 <= n /\ Local(k) = k + 1
    BY <1>1, <1>2, <1>7
  <2>2. \A x \in LocalRef : level[x] = Local(k) => level'[x] = Local(k)
    BY <1>1, <1>2, <1>3, <2>1
  <2>3. \A x \in LocalRef : NotBelow(x, k, level) => NotBelow(x, k, level')
    BY <1>1, <1>2, <1>3, <2>1 DEF NotBelow
  <2> QED BY <2>2, <2>3 DEF Stay
<1> QED BY <1>2, <1>3, <1>5, <1>6, <1>7

\* A frame that was stepped into has a caller that waits for it.
LEMMA CallerWaits ==
    ASSUME InterpInv, n > 0, ~top.root
    PROVE  /\ n - 1 \in 1..n /\ n - 1 \in Nat /\ n - 1 # n /\ n \in Nat
           /\ stack[n - 1].mode = "step" /\ top.type = stack[n - 1].got
<1>1. InterpTypeOK /\ ShapeInv /\ n \in Nat /\ top = stack[n]
  BY StackTypes DEF InterpInv
<1>2. n # 1
  BY <1>1 DEF ShapeInv
<1> DEFINE m == n - 1
<1>3. m \in 1..n /\ m \in Nat /\ m # n /\ m \in 1..(n - 1) /\ m + 1 = n
  BY <1>1, <1>2
<1>4. stack[m].mode = "step" /\ stack[n].type = stack[m].got
  BY <1>1, <1>3 DEF ShapeInv
<1> QED BY <1>1, <1>3, <1>4

\* f is the caller, given up or about to make its call through JNI after all.
CallerIs(f) ==
    /\ f \in Frame /\ f.mode \in {"done", "jni"} /\ f.ret \in {None, stack[n - 1].ret}
    /\ f.root = stack[n - 1].root /\ f.type = stack[n - 1].type /\ f.saved = stack[n - 1].saved
    /\ f.regs = stack[n - 1].regs /\ f.got = stack[n - 1].got
    /\ f.cbs = stack[n - 1].cbs /\ f.raw = stack[n - 1].raw
    /\ stack' = Append(SubSeq(stack, 1, n - 2), f)
    /\ ms' = IF f.mode = "jni" THEN "real" ELSE "zero"
    /\ UNCHANGED <<exc, pend, last>>

\* The caller of a frame goes on as such.
LEMMA CallerStep ==
    ASSUME InterpInv, n > 0, ~top.root, last = NoResult, NEW f, CallerIs(f), LevelsCut(n - 1),
           Stay(n - 1, level, level')
    PROVE  InterpInv'
<1> DEFINE m == n - 1
           l == n - 2
<1>1. /\ m \in 1..n /\ m \in Nat /\ m # n /\ n \in Nat /\ stack[m].mode = "step"
      /\ InterpTypeOK /\ PendInv /\ FrameOK(stack[m], m, level) /\ exc \in BOOLEAN /\ pend \in Seq(Nat)
      /\ last \in Last
  BY CallerWaits, StackTypes DEF InterpInv, FramesInv
<1>2. l \in Nat /\ l <= n /\ l + 1 = m /\ m \in 1..m
  BY <1>1
<1>3. /\ f.root = stack[m].root /\ f.type = stack[m].type /\ f.saved = stack[m].saved
      /\ f.regs = stack[m].regs /\ f.got = stack[m].got /\ f.ret \in {None, stack[m].ret}
      /\ stack' = Append(SubSeq(stack, 1, l), f) /\ LevelsCut(m)
      /\ Stay(m, level, level') /\ f.cbs = stack[m].cbs /\ f.raw = stack[m].raw
      /\ f \in Frame /\ f.mode \in {"done", "jni"} /\ UNCHANGED <<exc, pend, last>>
      /\ ms' = IF f.mode = "jni" THEN "real" ELSE "zero"
  BY DEF CallerIs
<1> HIDE DEF m, l
<1>4. /\ stack' \in Seq(Frame) /\ n' = l + 1 /\ stack'[l + 1] = f
      /\ \A k \in 1..l : stack'[k] = stack[k]
  BY <1>1, <1>2, <1>3, CutAppend
<1>5. \A k \in 1..m : k # m => k \in 1..l /\ k \in 1..n
  BY <1>1, <1>2
<1>6. CutTo(m, f)
  BY <1>2, <1>3, <1>4, <1>5 DEF CutTo
<1>7. FrameOK(f, m, level')
  <2>1. ~f.raw => RegsOK(f.regs, m, level')
    <3>1. Stay(m, level, level')
      BY <1>3
    <3>2. ~f.raw => RegsOK(f.regs, m, level)
      BY <1>1, <1>3 DEF FrameOK
    <3>3. RegsOK(f.regs, m, level) => RegsOK(f.regs, m, level')
      BY <3>1 DEF RegsOK, Stay
    <3> QED BY <3>2, <3>3
  <2>2. RetOK(f, m, level')
    BY <1>3 DEF RetOK
  <2>3. FieldsOK(f)
    BY <1>1, <1>3, Refs DEF FrameOK, FieldsOK
  <2>4. InReach(f, m, level')
    <3>1. \A r \in Reg : NotBelow(f.regs[r].v, m, level')
      BY <1>1, <1>3 DEF FrameOK, InReach, Stay, NotBelow
    <3>2. f.got = "obj" => NotBelow(f.ret, m, level')
      BY <1>1, <1>3, Refs DEF FrameOK, InReach, Stay, NotBelow
    <3> QED BY <3>1, <3>2 DEF InReach
  <2> QED BY <2>1, <2>2, <2>3, <2>4 DEF FrameOK
<1>8. top' = f /\ FramesInv' /\ ShapeInv' /\ LevelInv'
  BY <1>1, <1>3, <1>6, <1>7, CutStep
<1>9. InterpTypeOK'
  BY <1>1, <1>3, <1>4 DEF InterpTypeOK, LevelsCut, Levels, Last
<1>10. LastInv'
  BY <1>3, Refs DEF LastInv, NoResult
<1>11. MsInv'
  BY <1>1, <1>2, <1>3, <1>4, <1>8 DEF MsInv
<1>12. PendInv'
  <2>1. ASSUME NEW k \in 1..n', Waiting(k)'
        PROVE  k \in 1..n /\ Waiting(k)
    <3>1. CASE k = m
      BY <1>1, <1>2, <1>3, <1>4, <2>1, <3>1 DEF Waiting
    <3>2. CASE k # m
      <4>1. k \in 1..l /\ k \in 1..n
        BY <1>2, <1>4, <1>5, <2>1, <3>2
      <4> QED BY <1>4, <2>1, <4>1 DEF Waiting
    <3> QED BY <3>1, <3>2
  <2> QED BY <1>1, <1>3, <2>1, PendKept
<1> QED BY <1>8, <1>9, <1>10, <1>11, <1>12 DEF InterpInv

\* A frame that was stepped into returns.
LEMMA StepReturnsInv ==
    ASSUME InterpInv, StepReturns
    PROVE  InterpInv'
<1> DEFINE m == n - 1
           c == stack[m]
<1>1. InterpTypeOK /\ n > 0 /\ ~top.root /\ top.mode = "done" /\ last' = last
  BY DEF InterpInv, StepReturns
<1>2. /\ m \in 1..n /\ m \in Nat /\ m # n /\ n \in Nat /\ c.mode = "step" /\ top.type = c.got
      /\ c \in Frame /\ FrameOK(c, m, level)
  BY <1>1, CallerWaits, StackTypes DEF InterpInv, FramesInv
<1>3. last = NoResult /\ ms = "zero"
  BY <1>1, Quiet
<1>4. PICK res \in Results :
        /\ level' = PoppedFrame(res)
        /\ \/ /\ stack' = Append(SubSeq(stack, 1, n - 2), [c EXCEPT !.aborted = TRUE, !.handoff = TRUE,
                                                             !.ret = None, !.mode = "done"])
              /\ UNCHANGED <<exc, pend, ms>>
           \/ /\ stack' = Append(SubSeq(stack, 1, n - 2), [c EXCEPT !.mode = "jni"])
              /\ ms' = "real"
              /\ UNCHANGED <<exc, pend>>
           \/ /\ Post(SubSeq(stack, 1, n - 2), [c EXCEPT !.ret = res], FALSE, pend)
              /\ ms' = ms
  BY DEF StepReturns
<1>5. /\ res \in Value /\ (res \in LocalRef => level[res] \in {Free, Local(n)})
      /\ top.type = "prim" => res = None
  BY <1>1, <1>4, ResultsOK
<1>6. /\ level' \in Levels
      /\ \A x \in LocalRef : level'[x] <= Local(m)
      /\ \A k \in 1..m : Stay(k, level, level')
      /\ res \in LocalRef => level'[res] = Local(m)
  BY <1>1, <1>4, <1>5, PoppedLevels
<1>7. LevelsCut(m) /\ Stay(m, level, level')
  <2>1. \A k \in 1..(m - 1) : k \in 1..m
    BY <1>2
  <2>2. m \in 1..m
    BY <1>2
  <2> QED BY <1>6, <2>1, <2>2 DEF LevelsCut
<1>8. None \in Value /\ "done" \in Modes /\ "jni" \in Modes
  BY Refs DEF Modes
<1>9. CASE /\ stack' = Append(SubSeq(stack, 1, n - 2), [c EXCEPT !.aborted = TRUE, !.handoff = TRUE,
                                                          !.ret = None, !.mode = "done"])
           /\ UNCHANGED <<exc, pend, ms>>
  <2> DEFINE f == [c EXCEPT !.aborted = TRUE, !.handoff = TRUE, !.ret = None, !.mode = "done"]
  <2>0. stack' = Append(SubSeq(stack, 1, n - 2), f)
    BY <1>9
  <2> HIDE DEF c
  <2>1. f.regs = c.regs /\ f.type = c.type /\ f.saved = c.saved /\ f.mode = "done"
    BY <1>2, <1>8 DEF Frame
  <2>2. f.ret = None /\ f.got = c.got
    BY <1>2, <1>8 DEF Frame
  <2>3. f.root = c.root /\ f.cbs = c.cbs
    BY <1>2, <1>8 DEF Frame
  <2>9. f.raw = c.raw
    BY <1>2, <1>8 DEF Frame
  <2>4. f \in Frame
    BY <1>2, <1>8 DEF Frame
  <2> HIDE DEF f
  <2>5. /\ f.root = stack[n - 1].root /\ f.type = stack[n - 1].type
        /\ f.saved = stack[n - 1].saved /\ f.regs = stack[n - 1].regs /\ f.got = stack[n - 1].got
        /\ f.ret \in {None, stack[n - 1].ret} /\ f.mode \in {"done", "jni"}
        /\ f.cbs = stack[n - 1].cbs /\ f.raw = stack[n - 1].raw
    BY <2>1, <2>2, <2>3, <2>9 DEF c
  <2>6. ms' = IF f.mode = "jni" THEN "real" ELSE "zero"
    BY <1>3, <1>9, <2>1
  <2>7. LevelsCut(n - 1) /\ Stay(n - 1, level, level')
    BY <1>7
  <2>8. CallerIs(f)
    BY <1>1, <1>9, <2>0, <2>4, <2>5, <2>6 DEF CallerIs
  <2> QED BY <1>1, <1>3, <2>7, <2>8, CallerStep
<1>10. CASE /\ stack' = Append(SubSeq(stack, 1, n - 2), [c EXCEPT !.mode = "jni"])
            /\ ms' = "real"
            /\ UNCHANGED <<exc, pend>>
  <2> DEFINE f == [c EXCEPT !.mode = "jni"]
  <2>0. stack' = Append(SubSeq(stack, 1, n - 2), f)
    BY <1>10
  <2> HIDE DEF c
  <2>1. f.regs = c.regs /\ f.type = c.type /\ f.saved = c.saved /\ f.mode = "jni"
    BY <1>2, <1>8 DEF Frame
  <2>2. f.ret = c.ret /\ f.got = c.got
    BY <1>2, <1>8 DEF Frame
  <2>3. f.root = c.root /\ f.cbs = c.cbs
    BY <1>2, <1>8 DEF Frame
  <2>9. f.raw = c.raw
    BY <1>2, <1>8 DEF Frame
  <2>4. f \in Frame
    BY <1>2, <1>8 DEF Frame
  <2> HIDE DEF f
  <2>5. /\ f.root = stack[n - 1].root /\ f.type = stack[n - 1].type
        /\ f.saved = stack[n - 1].saved /\ f.regs = stack[n - 1].regs /\ f.got = stack[n - 1].got
        /\ f.ret \in {None, stack[n - 1].ret} /\ f.mode \in {"done", "jni"}
        /\ f.cbs = stack[n - 1].cbs /\ f.raw = stack[n - 1].raw
    BY <2>1, <2>2, <2>3, <2>9 DEF c
  <2>6. ms' = IF f.mode = "jni" THEN "real" ELSE "zero"
    BY <1>10, <2>1
  <2>7. LevelsCut(n - 1) /\ Stay(n - 1, level, level')
    BY <1>7
  <2>8. CallerIs(f)
    BY <1>1, <1>10, <2>0, <2>4, <2>5, <2>6 DEF CallerIs
  <2> QED BY <1>1, <1>3, <2>7, <2>8, CallerStep
<1>11. CASE /\ Post(SubSeq(stack, 1, n - 2), [c EXCEPT !.ret = res], FALSE, pend)
            /\ ms' = ms
  <2>1. n - 2 = m - 1
    BY <1>2
  <2>2. Post(SubSeq(stack, 1, m - 1), [stack[m] EXCEPT !.ret = res], FALSE, pend)
    BY <1>11, <2>1
  <2>3. m \in Nat /\ Local(m) # Free /\ Local(m) # Local(n)
    BY <1>2 DEF Local, Free
  <2>5. ASSUME res \in LocalRef, ~c.raw
        PROVE  \A r \in Reg : c.regs[r].v # res
    BY <1>2, <1>5, <2>3, <2>5 DEF FrameOK, RegsOK
  <2>6. ReturnValue(m, res)
    BY <1>2, <1>5, <1>6, <2>5 DEF ReturnValue
  <2>7. stack[m].mode \in {"jni", "step"}
    BY <1>2
  <2> HIDE DEF m
  <2> QED BY <1>1, <1>2, <1>3, <1>7, <1>11, <2>2, <2>6, <2>7, ReturnStep
<1> QED BY <1>4, <1>9, <1>10, <1>11

-----------------------------------------------------------------------------
(* Hooks.                                                                  *)

\* The frame of a hook returns: the ManagedStack is the one the hook was entered with.
LEMMA RootReturnsInv ==
    ASSUME InterpInv, RootReturns
    PROVE  InterpInv'
<1> DEFINE m == n - 1
<1>1. /\ InterpTypeOK /\ FramesInv /\ ShapeInv /\ PendInv /\ n > 0 /\ top.root /\ top.mode = "done"
      /\ n \in Nat /\ n \in 1..n /\ top = stack[n] /\ top \in Frame /\ exc \in BOOLEAN /\ pend \in Seq(Nat)
      /\ \A k \in 1..n : stack[k] \in Frame
  BY StackTypes DEF InterpInv, RootReturns
<1>2. /\ m \in Nat /\ m <= n /\ m # n /\ m + 1 = n
      /\ \A k \in 1..m : k \in 1..n /\ Local(k) # Local(n)
      /\ \A k \in 1..(m - 1) : k \in 1..(n - 1) /\ k \in 1..m /\ k + 1 \in 1..m
  BY <1>1 DEF Local
<1>3. stack' = SubSeq(stack, 1, m) /\ ms' = top.saved /\ UNCHANGED <<exc, pend>>
  BY DEF RootReturns
<1>4. PICK res \in Results :
        /\ level' = PoppedFrame(res)
        /\ last' = [status |-> IF top.handoff THEN "handoff" ELSE IF top.aborted THEN "aborted" ELSE "ok",
                    res |-> res, exc |-> exc]
  BY DEF RootReturns
<1>6. res \in Value /\ (res \in LocalRef => level[res] \in {Free, Local(n)})
  BY <1>1, <1>4, ResultsOK
<1>5. /\ level' \in Levels
      /\ \A x \in LocalRef : level'[x] <= Local(m)
      /\ \A k \in 1..m : Stay(k, level, level')
      /\ res \in LocalRef => level'[res] = Local(m)
  BY <1>1, <1>4, <1>6, PoppedLevels
<1> HIDE DEF m
<1>7. stack' \in Seq(Frame) /\ Len(stack') = m /\ \A k \in 1..m : stack'[k] = stack[k]
  BY <1>1, <1>2, <1>3, Cut
<1>8. n' = m
  BY <1>7 DEF n
<1>9. last' \in Last /\ last'.res = res /\ last'.status # "none" /\ last' # NoResult
  <2>1. last'.status \in {"ok", "aborted", "handoff"} /\ last'.res = res /\ last'.exc = exc
    BY <1>4
  <2>2. last' \in Last
    BY <1>1, <1>4, <1>6 DEF Last
  <2> QED BY <2>1, <2>2 DEF NoResult
<1>10. InterpTypeOK'
  <2>1. top.saved \in {"real", "zero"}
    BY <1>1, FrameFields
  <2> QED BY <1>1, <1>3, <1>5, <1>7, <1>9, <2>1 DEF InterpTypeOK, Levels, Last
<1>11. FramesInv'
  <2> SUFFICES ASSUME NEW k \in 1..m PROVE FrameOK(stack'[k], k, level')
    BY <1>8 DEF FramesInv, FrameOK, RegsOK, RetOK, InReach, NotBelow, FieldsOK
  <2>1. /\ k \in 1..n /\ Local(k) # Local(n) /\ stack'[k] = stack[k] /\ k \in Nat
        /\ stack[k] \in Frame /\ FrameOK(stack[k], k, level)
    BY <1>1, <1>2, <1>7 DEF FramesInv
  <2>2. Stay(k, level, level')
    BY <1>5
  <2> QED BY <2>1, <2>2, FrameMoved
<1>12. n' > 0 => top'.mode = "jni" /\ stack'[1].root
  <2> SUFFICES ASSUME m > 0 PROVE stack'[m].mode = "jni" /\ stack'[1].root
    BY <1>8 DEF top
  <2>1. m \in 1..m /\ m \in 1..(n - 1) /\ 1 \in 1..m
    BY <1>2
  <2>2. stack[m].mode = "jni"
    BY <1>1, <1>2, <2>1 DEF ShapeInv
  <2> QED BY <1>1, <1>7, <2>1, <2>2 DEF ShapeInv
<1>13. ShapeInv'
  <2>1. \A k \in 1..(m - 1) :
          /\ stack'[k].mode = IF stack'[k + 1].root THEN "jni" ELSE "step"
          /\ ~stack'[k + 1].root => stack'[k + 1].type = stack'[k].got
    BY <1>1, <1>2, <1>7 DEF ShapeInv
  <2> QED BY <1>8, <1>12, <2>1 DEF ShapeInv
<1>14. LevelInv'
  BY <1>5, <1>8 DEF LevelInv, Local
<1>15. LastInv'
  <2>1. n' = 0 \/ top'.mode = "jni"
    BY <1>2, <1>8, <1>12
  <2>2. res \in LocalRef => level'[res] = Local(n')
    BY <1>5, <1>6, <1>8
  <2> QED BY <1>9, <2>1, <2>2 DEF LastInv, Local
<1>16. MsInv'
  <2>1. top.saved = "real"
    BY <1>1 DEF FramesInv, FrameOK, FieldsOK
  <2> QED BY <1>3, <1>9, <2>1 DEF MsInv
<1>17. PendInv'
  <2>1. ASSUME NEW k \in 1..n', Waiting(k)' PROVE k \in 1..n /\ Waiting(k)
    BY <1>2, <1>7, <1>8, <2>1 DEF Waiting
  <2> QED BY <1>1, <1>3, <2>1, PendKept
<1> QED BY <1>10, <1>11, <1>13, <1>14, <1>15, <1>16, <1>17 DEF InterpInv

\* A hook is refused.
LEMMA HookRefusedInv ==
    ASSUME InterpInv, HookRefused
    PROVE  InterpInv'
<1>1. n = 0 \/ top.mode = "jni"
  BY DEF HookRefused, CanHook
<1>2. UNCHANGED <<stack, level, exc, pend, ms>> /\ n' = n /\ top' = top
  BY DEF HookRefused, n, top
<1>3. last' = [status |-> "refused", res |-> None, exc |-> FALSE]
  BY DEF HookRefused
<1>4. last' \in Last /\ last'.res \notin LocalRef
  BY <1>3, Refs DEF Last
<1>5. InterpTypeOK'
  BY <1>2, <1>4 DEF InterpInv, InterpTypeOK, Last
<1>6. FramesInv' /\ ShapeInv' /\ LevelInv'
  BY <1>2 DEF InterpInv, FramesInv, FrameOK, RegsOK, RetOK, InReach, NotBelow, FieldsOK, ShapeInv, LevelInv, Local
<1>7. LastInv'
  BY <1>1, <1>2, <1>4 DEF LastInv
<1>8. MsInv'
  <2>1. n \in Nat
    BY StackTypes DEF InterpInv
  <2> QED BY <1>1, <1>2, <2>1 DEF InterpInv, MsInv
<1>9. PendInv'
  <2>1. \A k \in 1..n' : Waiting(k)' => k \in 1..n /\ Waiting(k)
    BY <1>2 DEF Waiting
  <2> QED BY <1>2, <2>1, PendKept DEF InterpInv
<1> QED BY <1>5, <1>6, <1>7, <1>8, <1>9 DEF InterpInv

\* The dispatcher takes the result of a hook.
LEMMA DispatchInv ==
    ASSUME InterpInv, Dispatch
    PROVE  InterpInv'
<1>1. (n = 0 \/ top.mode = "jni") /\ n \in Nat /\ level \in Levels /\ exc \in BOOLEAN
  BY StackTypes DEF Dispatch, InterpInv, LastInv
<1>2. UNCHANGED <<stack, pend, ms>> /\ n' = n /\ top' = top /\ last' = NoResult
  BY DEF Dispatch, n, top
<1>3. exc' \in BOOLEAN
  BY <1>1 DEF Dispatch
<1>4. level' \in Levels /\ (\A x \in LocalRef : level'[x] \in {Free, level[x]}) /\ (n > 0 => level' = level)
  <2>1. CASE n = 0
    <3>1. level' = [r \in LocalRef |-> IF level[r] = Local(0) THEN Free ELSE level[r]]
      BY <2>1 DEF Dispatch
    <3> QED BY <1>1, <2>1, <3>1, Refs DEF Levels
  <2>2. CASE n # 0
    BY <1>1, <2>2 DEF Dispatch
  <2> QED BY <2>1, <2>2
<1>5. NoResult \in Last /\ NoResult.res \notin LocalRef
  BY Refs DEF Last, NoResult
<1>6. InterpTypeOK'
  BY <1>2, <1>3, <1>4, <1>5 DEF InterpInv, InterpTypeOK, Last, Levels
<1>7. FramesInv'
  <2>1. CASE n = 0
    BY <1>2, <2>1 DEF FramesInv
  <2>2. CASE n > 0
    BY <1>2, <1>4, <2>2 DEF InterpInv, FramesInv, FrameOK, RegsOK, RetOK, InReach, NotBelow, FieldsOK
  <2> QED BY <1>1, <2>1, <2>2
<1>8. ShapeInv'
  BY <1>2 DEF InterpInv, ShapeInv
<1>9. LevelInv'
  <2>1. Local(n) \in Nat /\ Free = 0
    BY <1>1, Locals DEF Free
  <2> QED BY <1>1, <1>2, <1>4, <2>1 DEF InterpInv, LevelInv, Local
<1>10. LastInv'
  BY <1>2, <1>5 DEF LastInv
<1>11. MsInv'
  BY <1>1, <1>2 DEF InterpInv, MsInv
<1>12. PendInv'
  <2>1. \A k \in 1..n' : Waiting(k)' => k \in 1..n /\ Waiting(k)
    BY <1>2 DEF Waiting
  <2> QED BY <1>2, <2>1, PendKept DEF InterpInv
<1> QED BY <1>6, <1>7, <1>8, <1>9, <1>10, <1>11, <1>12 DEF InterpInv

-----------------------------------------------------------------------------
(* A method is run in a frame of its own.                                  *)

\* packRegisters gives every object argument a reference of the new local frame k that no
\* other register has, and takes no reference that is in use.
LEMMA PackedOK ==
    ASSUME level \in Levels, NEW args \in [Param -> Value], NEW ref \in Packings(args), NEW k \in Nat,
           NEW lv, lv = Packed(ref, Local(k)), NEW regs, regs = packRegisters(args, ref),
           \A x \in LocalRef : level[x] <= Local(k)
    PROVE  /\ regs \in Registers /\ RegsOK(regs, k, lv) /\ lv \in Levels
           /\ \A x \in LocalRef : (level[x] # Free => lv[x] = level[x]) /\ lv[x] <= Local(k)
           /\ \A x \in LocalRef : lv[x] \in {level[x], Local(k)}
<1>1. /\ ref \in [Objects(args) -> Unused]
      /\ \A p, q \in Objects(args) : ref[p] = ref[q] => p = q
  BY DEF Packings
<1>2. Objects(args) \subseteq Param /\ Param \subseteq Reg
  BY InterpAssumption DEF Objects
<1>3. Unused \subseteq LocalRef /\ \A x \in Unused : level[x] = Free
  BY DEF Unused, Live
<1>4. \A x \in LocalRef : lv[x] = IF \E p \in DOMAIN ref : ref[p] = x THEN Local(k) ELSE level[x]
  BY DEF Packed
<1>5. Local(k) \in Nat /\ None \in Value /\ None \notin LocalRef /\ LocalRef \subseteq Value
  BY Locals, Refs
<1>6. \A r \in Reg : regs[r] = IF r \in Objects(args) THEN [v |-> ref[r], own |-> TRUE]
                               ELSE [v |-> None, own |-> FALSE]
  BY DEF packRegisters
<1>7. ASSUME NEW r \in Reg, r \in Objects(args)
      PROVE  regs[r].v = ref[r] /\ regs[r].own /\ ref[r] \in Unused /\ regs[r] \in [v : Value, own : BOOLEAN]
  <2>1. regs[r] = [v |-> ref[r], own |-> TRUE]
    BY <1>6, <1>7
  <2>2. ref[r] \in Unused /\ ref[r] \in Value
    BY <1>1, <1>3, <1>5, <1>7
  <2> QED BY <2>1, <2>2
<1>8. ASSUME NEW r \in Reg, r \notin Objects(args)
      PROVE  regs[r].v \notin LocalRef /\ regs[r] \in [v : Value, own : BOOLEAN]
  <2>1. regs[r] = [v |-> None, own |-> FALSE]
    BY <1>6, <1>8
  <2> QED BY <1>5, <2>1
<1>9. regs \in Registers
  <2>1. \A r \in Reg : regs[r] \in [v : Value, own : BOOLEAN]
    BY <1>7, <1>8
  <2>2. regs = [r \in Reg |-> regs[r]]
    BY DEF packRegisters
  <2> QED BY <2>1, <2>2 DEF Registers
<1>10. RegsOK(regs, k, lv)
  <2>1. \A r \in Reg : regs[r].v \in LocalRef => r \in Objects(args)
    BY <1>8
  <2>2. \A r \in Reg : regs[r].v \in LocalRef => regs[r].own /\ lv[regs[r].v] = Local(k)
    <3> SUFFICES ASSUME NEW r \in Reg, regs[r].v \in LocalRef
                 PROVE  regs[r].own /\ lv[regs[r].v] = Local(k)
      OBVIOUS
    <3>1. r \in Objects(args) /\ regs[r].v = ref[r] /\ regs[r].own /\ r \in DOMAIN ref
      BY <1>1, <1>7, <2>1
    <3> QED BY <1>4, <3>1
  <2>3. \A r, s \in Reg : regs[r].v \in LocalRef /\ regs[r].v = regs[s].v => r = s
    BY <1>1, <1>7, <2>1
  <2> QED BY <2>2, <2>3 DEF RegsOK
<1>11. \A x \in LocalRef : (level[x] # Free => lv[x] = level[x]) /\ lv[x] <= Local(k) /\ lv[x] \in Nat
  <2> SUFFICES ASSUME NEW x \in LocalRef
               PROVE  (level[x] # Free => lv[x] = level[x]) /\ lv[x] <= Local(k) /\ lv[x] \in Nat
    OBVIOUS
  <2>1. level[x] \in Nat /\ level[x] <= Local(k)
    BY DEF Levels
  <2>2. CASE \E p \in DOMAIN ref : ref[p] = x
    <3>1. level[x] = Free /\ lv[x] = Local(k)
      BY <1>1, <1>3, <1>4, <2>2
    <3> QED BY <1>5, <3>1
  <2>3. CASE ~\E p \in DOMAIN ref : ref[p] = x
    <3>1. lv[x] = level[x]
      BY <1>4, <2>3
    <3> QED BY <2>1, <3>1
  <2> QED BY <2>2, <2>3
<1>12. lv \in Levels
  <2>1. lv = [x \in LocalRef |-> lv[x]]
    BY DEF Packed
  <2> QED BY <1>11, <2>1 DEF Levels
<1> QED BY <1>4, <1>9, <1>10, <1>11, <1>12

\* The fields of a new frame.
LEMMA NewFrameFields ==
    ASSUME NEW regs \in Registers, NEW t \in {"prim", "obj"}, NEW root \in BOOLEAN, ms \in {"real", "zero"},
           NEW cbs \in Callbacks, NEW g, g = NewFrame(regs, t, root, cbs)
    PROVE  /\ g \in Frame /\ g.regs = regs /\ g.mode = "run" /\ g.got = "none" /\ g.type = t
           /\ g.root = root /\ g.saved = ms /\ ~g.raw
<1>1. "run" \in Modes /\ 0 \in Nat /\ FALSE \in BOOLEAN
  BY DEF Modes
<1>2. g.regs = regs /\ g.mode = "run" /\ g.got = "none" /\ g.type = t /\ g.saved = ms
  BY DEF NewFrame
<1>3. g.root = root /\ ~g.raw
  BY DEF NewFrame
<1>4. g \in Frame
  BY <1>1 DEF NewFrame, Frame, Registers
<1> QED BY <1>2, <1>3, <1>4

\* q is the stack on which a method of type t is run; its last frame waits.
Callers(q, t, root) ==
    /\ q \in Seq(Frame) /\ Len(q) = n
    /\ \A k \in 1..(n - 1) : q[k] = stack[k]
    /\ \A k \in 1..n : q[k].root = stack[k].root /\ q[k].type = stack[k].type /\ FrameOK(q[k], k, level)
    /\ n = 0 => root
    /\ n > 0 => q[n].mode = (IF root THEN "jni" ELSE "step") /\ (~root => t = q[n].got)

\* The method runs in a frame of its own on top of them.
LEMMA RunMethodOK ==
    ASSUME InterpInv, NEW q, NEW t \in {"prim", "obj"}, NEW root \in BOOLEAN, Callers(q, t, root),
           NEW args \in [Param -> Value], NEW cbs \in Callbacks, RunMethod(q, args, t, root, cbs),
           root => ms = "real"
    PROVE  /\ stack' \in Seq(Frame) /\ n' = n + 1 /\ top'.mode = "run" /\ \A k \in 1..n : stack'[k] = q[k]
           /\ level' \in Levels /\ FramesInv' /\ ShapeInv' /\ LevelInv'
           /\ \A x \in LocalRef : level[x] # Free => level'[x] = level[x]
<1>1. /\ InterpTypeOK /\ LevelInv /\ n \in Nat /\ level \in Levels /\ ms \in {"real", "zero"}
      /\ n + 1 \in Nat
  BY StackTypes DEF InterpInv
<1>2. PICK ref \in Packings(args) :
        /\ stack' = Append(q, NewFrame(packRegisters(args, ref), t, root, cbs))
        /\ level' = Packed(ref, Local(Len(q) + 1))
  BY DEF RunMethod
<1> DEFINE k0 == n + 1
           regs == packRegisters(args, ref)
           g == NewFrame(regs, t, root, cbs)
<1>3. level' = Packed(ref, Local(k0)) /\ stack' = Append(q, g)
  BY <1>2 DEF Callers
<1>4. \A x \in LocalRef : level[x] <= Local(k0)
  BY <1>1 DEF LevelInv, Levels, Local
<1>5. /\ regs \in Registers /\ RegsOK(regs, k0, level') /\ level' \in Levels
      /\ \A x \in LocalRef : (level[x] # Free => level'[x] = level[x]) /\ level'[x] <= Local(k0)
      /\ \A x \in LocalRef : level'[x] \in {level[x], Local(k0)}
  BY <1>1, <1>3, <1>4, PackedOK
<1> HIDE DEF regs
<1>6. /\ g \in Frame /\ g.regs = regs /\ g.mode = "run" /\ g.got = "none" /\ g.type = t
      /\ g.root = root /\ g.saved = ms /\ ~g.raw
  BY <1>1, <1>5, NewFrameFields
<1> HIDE DEF g
<1>7. FrameOK(g, k0, level')
  <2>1. k0 \in Nat /\ Local(k0) \in Nat
    BY <1>1, Locals
  <2>2. InReach(g, k0, level')
    BY <1>5, <1>6, <2>1 DEF RegsOK, InReach, NotBelow
  <2> QED BY <1>5, <1>6, <2>2 DEF FrameOK, RetOK, FieldsOK
<1>8. ASSUME NEW k \in 1..n PROVE FrameOK(q[k], k, level')
  <2>1. q[k] \in Frame /\ FrameOK(q[k], k, level) /\ k \in Nat
    BY <1>1, <1>8 DEF Callers
  <2>2. Local(k) # Free /\ Local(k0) >= Local(k)
    BY <1>1, <1>8, <2>1, Locals
  <2>3. Stay(k, level, level')
    BY <1>5, <2>2 DEF Stay, NotBelow
  <2> QED BY <2>1, <2>3, FrameMoved
<1>9. PushOn(q, g)
  BY <1>3, <1>6 DEF PushOn, Callers
<1>10. /\ stack' \in Seq(Frame) /\ n' = n + 1 /\ top' = g /\ \A k \in 1..n : stack'[k] = q[k]
       /\ FramesInv' /\ ShapeInv' /\ LevelInv'
  BY <1>5, <1>7, <1>8, <1>9, PushStep
<1> QED BY <1>5, <1>6, <1>10

\* A call is stepped into.
LEMMA StepInInv ==
    ASSUME InterpInv, InvokeStepIn
    PROVE  InterpInv'
<1>1. /\ InterpTypeOK /\ n > 0 /\ level \in Levels /\ pend \in Seq(Nat) /\ n \in Nat
      /\ n \in 1..n /\ exc \in BOOLEAN /\ last \in Last /\ top.mode = "run" /\ top = stack[n]
      /\ stack \in Seq(Frame) /\ n = Len(stack) /\ ms \in {"real", "zero"} /\ top.regs \in Registers
  BY CanStepAt, StackTypes DEF InvokeStepIn
<1>2. PICK t \in {"prim", "obj"}, args \in Arguments :
        RunMethod([stack EXCEPT ![n] = [Calling(t) EXCEPT !.mode = "step"]], args, t, FALSE, top.cbs)
  BY DEF InvokeStepIn
<1>3. UNCHANGED <<exc, ms, last>> /\ pend' = Recorded
  BY DEF InvokeStepIn
<1> DEFINE f == [Calling(t) EXCEPT !.mode = "step"]
           q == [stack EXCEPT ![n] = f]
<1>4. CallMade(f, t, "step")
  BY <1>1, CallFrames DEF Modes
<1>5. RunMethod(q, args, t, FALSE, top.cbs) /\ top.cbs \in Callbacks
  BY <1>1, <1>2, StackTypes, FrameFields
<1> HIDE DEF f
<1>6. q \in Seq(Frame) /\ Len(q) = n /\ \A k \in 1..n : q[k] = IF k = n THEN f ELSE stack[k]
  <2>1. f \in Frame
    BY <1>4 DEF CallMade, SameFrame
  <2> QED BY <1>1, <2>1
<1> HIDE DEF q
<1>7. args \in [Param -> Value]
  <2>1. PICK c \in [Param -> Reg] : args = [p \in Param |-> top.regs[c[p]].v]
    BY DEF Arguments
  <2>2. \A p \in Param : top.regs[c[p]].v \in Value
    BY <1>1 DEF Registers
  <2> QED BY <2>1, <2>2
<1>8. \A k \in 1..(n - 1) : k \in 1..n /\ k # n
  BY <1>1
<1>9. ASSUME NEW k \in 1..n
      PROVE  q[k].root = stack[k].root /\ q[k].type = stack[k].type /\ FrameOK(q[k], k, level)
  <2>1. CASE k = n
    BY <1>1, <1>4, <1>6, <2>1, CalledOK DEF CallMade, SameFrame
  <2>2. CASE k # n
    BY <1>6, <1>9, <2>2 DEF InterpInv, FramesInv
  <2> QED BY <2>1, <2>2
<1>10. Callers(q, t, FALSE)
  <2>1. q[n].mode = "step" /\ q[n].got = t
    BY <1>1, <1>4, <1>6 DEF CallMade
  <2>2. \A k \in 1..(n - 1) : q[k] = stack[k]
    BY <1>6, <1>8
  <2>3. n # 0
    BY <1>1
  <2> QED BY <1>6, <1>9, <2>1, <2>2, <2>3 DEF Callers
<1>11. FALSE \in BOOLEAN
  OBVIOUS
<1>12. /\ stack' \in Seq(Frame) /\ n' = n + 1 /\ top'.mode = "run" /\ \A k \in 1..n : stack'[k] = q[k]
       /\ level' \in Levels /\ FramesInv' /\ ShapeInv' /\ LevelInv'
  BY <1>5, <1>7, <1>10, <1>11, RunMethodOK
<1>13. last = NoResult /\ last.res \notin LocalRef /\ ms = "zero"
  BY <1>1, Quiet
<1>14. pend' \in Seq(Nat)
  BY <1>1, <1>3, RecordedType
<1>15. InterpTypeOK'
  BY <1>1, <1>3, <1>12, <1>14 DEF InterpTypeOK, Levels, Last
<1>16. LastInv'
  BY <1>3, <1>13 DEF LastInv
<1>17. MsInv'
  BY <1>1, <1>3, <1>12, <1>13 DEF MsInv
<1>18. PendInv'
  <2>1. ASSUME NEW k \in 1..n', Waiting(k)'
        PROVE  (k = n /\ top.cbs # "none") \/ (k \in 1..(n - 1) /\ Waiting(k))
    <3>1. k # n'
      BY <1>12, <2>1 DEF Waiting, top
    <3>2. k \in 1..n
      BY <1>1, <1>12, <2>1, <3>1
    <3>3. CASE k # n
      <4>1. stack'[k] = stack[k] /\ k \in 1..(n - 1)
        BY <1>1, <1>6, <1>12, <3>2, <3>3
      <4> QED BY <2>1, <4>1 DEF Waiting
    <3>4. CASE k = n
      <4>1. stack'[n].cbs = top.cbs
        BY <1>1, <1>4, <1>6, <1>12 DEF CallMade, SameFrame
      <4> QED BY <2>1, <3>4, <4>1 DEF Waiting
    <3> QED BY <3>3, <3>4
  <2> QED BY <1>1, <1>3, <2>1, PendRecorded DEF InterpInv
<1> QED BY <1>12, <1>15, <1>16, <1>17, <1>18 DEF InterpInv

\* A hook's method is run.
LEMMA HookRunInv ==
    ASSUME InterpInv, HookRun
    PROVE  InterpInv'
<1>1. /\ InterpTypeOK /\ level \in Levels /\ pend \in Seq(Nat) /\ n \in Nat /\ FramesInv
      /\ exc \in BOOLEAN /\ last \in Last /\ stack \in Seq(Frame) /\ n = Len(stack) /\ ms \in {"real", "zero"}
  BY StackTypes DEF InterpInv
<1>2. (n = 0 \/ (n > 0 /\ top.mode = "jni")) /\ last = NoResult
  BY DEF HookRun, CanHook
<1>3. UNCHANGED <<exc, pend, last>> /\ ms' = "zero"
  BY DEF HookRun
<1>4. PICK t \in {"prim", "obj"}, obj \in SUBSET Param, cbs \in Sessions :
        RunMethod(stack, [p \in Param |-> IF p \in obj THEN 1 ELSE None], t, TRUE, cbs)
  BY DEF HookRun
<1> DEFINE args == [p \in Param |-> IF p \in obj THEN 1 ELSE None]
<1>5. args \in [Param -> Value]
  BY Refs
<1>6. RunMethod(stack, args, t, TRUE, cbs) /\ cbs \in Callbacks
  BY <1>4, InterpAssumption
<1> HIDE DEF args
<1>7. Callers(stack, t, TRUE)
  BY <1>1, <1>2 DEF Callers, FramesInv, top
<1>8. ms = "real" /\ TRUE \in BOOLEAN
  BY <1>1, <1>2 DEF InterpInv, MsInv
<1>9. /\ stack' \in Seq(Frame) /\ n' = n + 1 /\ top'.mode = "run" /\ \A k \in 1..n : stack'[k] = stack[k]
      /\ level' \in Levels /\ FramesInv' /\ ShapeInv' /\ LevelInv'
  BY <1>5, <1>6, <1>7, <1>8, RunMethodOK
<1>10. InterpTypeOK'
  BY <1>1, <1>3, <1>9 DEF InterpTypeOK, Levels, Last
<1>11. LastInv'
  BY <1>2, <1>3, Refs DEF LastInv, NoResult
<1>12. MsInv'
  BY <1>1, <1>2, <1>3, <1>9 DEF MsInv
<1>13. PendInv'
  <2>1. ASSUME NEW k \in 1..n', Waiting(k)'
        PROVE  k \in 1..n /\ Waiting(k)
    <3>1. k # n'
      BY <1>9, <2>1 DEF Waiting, top
    <3>2. k \in 1..n
      BY <1>1, <1>9, <2>1, <3>1
    <3> QED BY <1>9, <2>1, <3>2 DEF Waiting
  <2> QED BY <1>3, <2>1, PendKept DEF InterpInv
<1> QED BY <1>9, <1>10, <1>11, <1>12, <1>13 DEF InterpInv

-----------------------------------------------------------------------------
(* The theorems.                                                           *)

\* InterpInit establishes the invariant.
LEMMA InitInterp == InterpInit => InterpInv
<1> SUFFICES ASSUME InterpInit PROVE InterpInv
  OBVIOUS
<1>1. /\ stack = <<>> /\ level = [r \in LocalRef |-> Free] /\ exc = FALSE /\ pend = <<>>
      /\ ms = "real" /\ last = NoResult
  BY DEF InterpInit
<1>2. n = 0
  BY <1>1 DEF n
<1>3. NoResult \in Last /\ NoResult.res \notin LocalRef
  BY Refs DEF Last, NoResult
<1>4. InterpTypeOK
  <2>1. stack \in Seq(Frame) /\ pend \in Seq(Nat)
    BY <1>1
  <2>2. level \in [LocalRef -> Nat]
    BY <1>1, Refs
  <2> QED BY <1>1, <1>3, <2>1, <2>2 DEF InterpTypeOK, Last
<1>5. FramesInv /\ ShapeInv
  BY <1>2 DEF FramesInv, ShapeInv
<1>6. LevelInv
  BY <1>1, <1>2 DEF LevelInv, Local, Free
<1>7. LastInv /\ MsInv
  BY <1>1, <1>2, <1>3 DEF LastInv, MsInv
<1>8. PendInv
  <2>1. [k \in Nat |-> k] \in [Nat -> Nat]
    OBVIOUS
  <2>2. \A k \in 1..n : FALSE
    BY <1>2
  <2> QED BY <2>1, <2>2 DEF PendInv
<1> QED BY <1>4, <1>5, <1>6, <1>7, <1>8 DEF InterpInv

\* Every instruction, callback and exit keeps the invariant.
LEMMA NextInterp == InterpInv /\ [InterpNext]_interpVars => InterpInv'
<1> SUFFICES ASSUME InterpInv, [InterpNext]_interpVars PROVE InterpInv'
  OBVIOUS
<1>1. CASE AbortInsn \/ Handoff \/ OpReturn
  BY <1>1, EndedInv
<1>2. CASE WritesNothing
  BY <1>2, NoEffectInv DEF WritesNothing, Branch, Test, WriteArray, WriteField, WriteStatic,
                           FillArray, Monitor, CheckCast
<1>3. CASE Raise \/ ResolveFails
  BY <1>3, RaiseInv
<1>4. CASE FilledNewArray
  BY <1>4, FilledInv
<1>5. ASSUME NEW d \in Reg, WritesPrim(d) PROVE InterpInv'
  BY <1>5, SetPrimInv DEF WritesPrim, Move, Const, Arith, ArithInPlace, Compare, Inspect, ReadPrim
<1>6. ASSUME NEW d \in Reg, WritesObject(d) PROVE InterpInv'
  BY <1>6, ObjectInv DEF WritesObject, ConstObject, NewObject, ReadObject
<1>7. ASSUME NEW d \in Reg, AgetOutside(d) \/ MoveResult(d) \/ MoveException(d) PROVE InterpInv'
  BY <1>7, AgetInv, MoveResultInv, MoveExceptionInv
<1>8. ASSUME NEW d \in Reg, NEW s \in Reg, MoveObject(d, s) PROVE InterpInv'
  BY <1>8, ObjectInv
<1>9. CASE InvokeMock \/ NativeStepIn
  BY <1>9, NativeInv
<1>10. CASE InvokeJni \/ StepInRefused
  BY <1>10, InvokeJniInv
<1>11. CASE InvokeStepIn
  BY <1>11, StepInInv
<1>12. CASE JniReturn
  BY <1>12, JniReturnInv
<1>13. CASE StepReturns
  BY <1>13, StepReturnsInv
<1>14. CASE RootReturns
  BY <1>14, RootReturnsInv
<1>15. CASE HookRun
  BY <1>15, HookRunInv
<1>16. CASE HookRefused
  BY <1>16, HookRefusedInv
<1>17. CASE Dispatch
  BY <1>17, DispatchInv
<1>18. CASE UNCHANGED interpVars
  <2>1. UNCHANGED <<stack, level, exc, pend, ms, last>> /\ n' = n /\ top' = top
    BY <1>18 DEF interpVars, n, top
  <2>2. InterpTypeOK'
    BY <2>1 DEF InterpInv, InterpTypeOK
  <2>3. FramesInv' /\ ShapeInv' /\ LevelInv'
    BY <2>1 DEF InterpInv, FramesInv, FrameOK, RegsOK, RetOK, InReach, NotBelow, FieldsOK, ShapeInv, LevelInv, Local
  <2>4. LastInv' /\ MsInv'
    BY <2>1 DEF InterpInv, LastInv, MsInv, Local
  <2>5. PendInv'
    <3>1. \A k \in 1..n' : Waiting(k)' => k \in 1..n /\ Waiting(k)
      BY <2>1 DEF Waiting
    <3> QED BY <2>1, <3>1, PendKept DEF InterpInv
  <2> QED BY <2>2, <2>3, <2>4, <2>5 DEF InterpInv
<1> QED BY <1>1, <1>2, <1>3, <1>4, <1>5, <1>6, <1>7, <1>8, <1>9, <1>10, <1>11, <1>12, <1>13, <1>14,
           <1>15, <1>16, <1>17, <1>18 DEF InterpNext, Interpreting

\* The inductive invariant of interpreted runs.
THEOREM InterpInvariant == InterpSpec => []InterpInv
  BY InitInterp, NextInterp, PTL DEF InterpSpec

\* Whatever bytecode a frame runs and however hooks nest, the variables keep their types.
THEOREM InterpTypes == InterpSpec => []InterpTypeOK
<1>1. InterpInv => InterpTypeOK
  BY DEF InterpInv
<1> QED BY <1>1, InterpInvariant, PTL

\* For every register file, number of references, budget and nesting: DELETE_LOCAL_REF never
\* deletes a reference twice, one of a caller or one that another register uses, and the
\* object a call has returned is alive and in no register when move-result-object may take it,
\* in every frame but those that took x0 of native code for a local reference.
THEOREM RefsOwned == InterpSpec => []OwnedRefs
<1>1. InterpInv => OwnedRefs
  <2> SUFFICES ASSUME InterpInv PROVE OwnedRefs
    OBVIOUS
  <2>1. /\ n \in Nat /\ \A k \in 1..n : k \in Nat /\ FrameOK(stack[k], k, level)
    BY StackTypes DEF InterpInv, FramesInv
  <2>2. ASSUME NEW h \in Holders
        PROVE  /\ h[1] \in 1..n /\ h[2] \in Reg /\ h = <<h[1], h[2]>> /\ Held(h) \in LocalRef
               /\ Held(h) = stack[h[1]].regs[h[2]].v
               /\ stack[h[1]].regs[h[2]].own /\ level[Held(h)] = Local(h[1]) /\ ~stack[h[1]].raw
    <3>1. /\ h[1] \in 1..n /\ h[2] \in Reg /\ h = <<h[1], h[2]>> /\ stack[h[1]].regs[h[2]].v \in LocalRef
          /\ ~stack[h[1]].raw
      BY <2>2 DEF Holders
    <3>2. RegsOK(stack[h[1]].regs, h[1], level)
      BY <2>1, <3>1 DEF FrameOK
    <3> QED BY <3>1, <3>2 DEF RegsOK, Held
  <2>3. \A j, k \in 1..n : Local(j) = Local(k) => j = k
    BY <2>1 DEF Local
  <2>4. ASSUME NEW g \in Holders, NEW h \in Holders, Held(g) = Held(h)
        PROVE  g = h
    <3>1. g[1] = h[1]
      BY <2>2, <2>3, <2>4
    <3>2. RegsOK(stack[h[1]].regs, h[1], level)
      BY <2>1, <2>2, <2>4 DEF FrameOK
    <3>3. g[2] = h[2]
      BY <2>2, <2>4, <3>1, <3>2 DEF RegsOK
    <3> QED BY <2>2, <2>4, <3>1, <3>3
  <2>5. ASSUME NEW k \in 1..n, ~stack[k].raw, stack[k].mode = "run", stack[k].got = "obj",
               stack[k].ret \in LocalRef
        PROVE  level[stack[k].ret] = Local(k) /\ \A h \in Holders : Held(h) # stack[k].ret
    <3>1. level[stack[k].ret] = Local(k) /\ \A r \in Reg : stack[k].regs[r].v # stack[k].ret
      BY <2>1, <2>5 DEF FrameOK, RetOK
    <3>2. ASSUME NEW h \in Holders, Held(h) = stack[k].ret PROVE FALSE
      <4>1. h[1] = k
        BY <2>2, <2>3, <2>5, <3>1, <3>2
      <4> QED BY <2>2, <3>1, <3>2, <4>1
    <3> QED BY <3>1, <3>2
  <2> QED BY <2>2, <2>4, <2>5 DEF OwnedRefs
<1> QED BY <1>1, InterpInvariant, PTL

\* Every exit of a run undoes what the run set up: no reference outlives its local frame but
\* the hook's result, managed code runs with the real ManagedStack and the interpreter with
\* an empty one, and the call whose post callback a frame waits for still has its record,
\* whatever hand-offs and sessions without that callback have left records behind; frames
\* that took x0 of native code for a local reference included.
THEOREM RunsUndone == InterpSpec => []ExitsUndone
<1>1. InterpInv => ExitsUndone
  <2> SUFFICES ASSUME InterpInv PROVE ExitsUndone
    OBVIOUS
  <2>1. \A r \in LocalRef : level[r] # Free => level[r] <= Local(n)
    BY DEF InterpInv, LevelInv
  <2>2. last.res \in LocalRef => level[last.res] = Local(n)
    BY DEF InterpInv, LastInv
  <2>3. ms = IF n > 0 /\ top.mode # "jni" /\ last = NoResult THEN "zero" ELSE "real"
    BY DEF InterpInv, MsInv
  <2>4. \A k \in 1..n : stack[k].cbs = "both" /\ stack[k].mode \in {"jni", "step"}
                            => \E i \in DOMAIN pend : pend[i] = k
    <3>1. DOMAIN pend = 1..Len(pend)
      BY DEF InterpInv, InterpTypeOK
    <3> QED BY <3>1 DEF InterpInv, PendInv, Waiting
  <2> QED BY <2>1, <2>2, <2>3, <2>4 DEF ExitsUndone
<1> QED BY <1>1, InterpInvariant, PTL

=============================================================================
