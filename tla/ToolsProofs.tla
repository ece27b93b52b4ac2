---------------------------- MODULE ToolsProofs -----------------------------
(***************************************************************************)
(* The tools that scripts use inside the target.  The JNI tracer keeps the *)
(* real functions and pairs calls with their results; every patch object   *)
(* can be restored to what it replaced; native methods of generated        *)
(* classes lead to their own implementations.  All of it for any number of *)
(* functions, calls, sessions, patches, classes, thunks and threads.       *)
(***************************************************************************)
EXTENDS JniTracer, MemPatch, RegClass, SequenceTheorems, WellFoundedInduction, TLAPS

\* A non-empty sequence without its last element.
LEMMA Popped1 ==
    ASSUME NEW S, NEW s \in Seq(S), s # << >>
    PROVE  /\ Len(s) \in Nat \ {0} /\ s[Len(s)] \in S
           /\ SubSeq(s, 1, Len(s) - 1) \in Seq(S)
           /\ Len(SubSeq(s, 1, Len(s) - 1)) = Len(s) - 1
           /\ \A i \in 1..(Len(s) - 1) : SubSeq(s, 1, Len(s) - 1)[i] = s[i]
<1>1. Len(s) \in Nat /\ Len(s) >= 1
  OBVIOUS
<1>2. \A i \in 1..Len(s) : s[i] \in S
  OBVIOUS
<1>3. SubSeq(s, 1, Len(s) - 1) \in Seq(S)
  BY <1>1, <1>2
<1>4. Len(SubSeq(s, 1, Len(s) - 1)) = Len(s) - 1
  BY <1>1
<1>5. \A i \in 1..(Len(s) - 1) : SubSeq(s, 1, Len(s) - 1)[i] = s[i]
  BY <1>1
<1> QED BY <1>1, <1>2, <1>3, <1>4, <1>5

CallId == 1..MaxCalls
CallRec == [id : CallId, via : {"real", "tramp"}, pc : {"load", "run"}]

\* Which operation is under way, and what of the table it has done.
OpInv ==
    /\ op.what = "idle" => op = Idle
    /\ op.what = "install" => ~tracing /\ sessions < MaxSessions
    /\ op.what = "uninstall" => tracing /\ \A s \in Slot \ op.left : table[s] = "real"

\* The backup is made at once, from a table without trampolines, and is there as soon
\* as tracing is on or an operation has begun.
BackupInv ==
    /\ (\A s \in Slot : backup[s] = "none") \/ (\A s \in Slot : backup[s] = "real")
    /\ tracing \/ op # Idle => \A s \in Slot : backup[s] = "real"

RealInv == JniTypeOK /\ OpInv /\ BackupInv /\ RealKept

\* A trampoline's call that is under way.
Entered(i) == inside[i].via = "tramp" /\ inside[i].pc = "run"

\* Calls are numbered in order, the innermost last.
CallOrder ==
    /\ \A i \in 1..Len(inside) : inside[i].id <= nCalls
    /\ \A i, j \in 1..Len(inside) : i < j => inside[i].id < inside[j].id

\* The frames are those of the innermost of the trampolines' calls, in order.
FramesMatch ==
    /\ \A k, l \in 1..Len(frames) : k < l => frames[k] < frames[l]
    /\ \A k \in 1..Len(frames) : \E i \in 1..Len(inside) : Entered(i) /\ frames[k] = inside[i].id
    /\ \A k \in 1..Len(frames) : \A j \in 1..Len(inside) :
          Entered(j) /\ inside[j].id > frames[k] => \E l \in 1..Len(frames) : frames[l] = inside[j].id

\* What makes PairedWhenClean inductive.
PairInv ==
    /\ CallOrder
    /\ clean /\ tracing => FramesMatch
    /\ PairedWhenClean

\* JniInit establishes the tracer's invariants.
LEMMA InitJni == JniInit => RealInv /\ PairInv
<1> SUFFICES ASSUME JniInit PROVE RealInv /\ PairInv
  OBVIOUS
<1>1. JniTypeOK
  <2>1. op \in [what : {"idle", "install", "uninstall"}, left : SUBSET Slot]
    BY DEF JniInit, Idle
  <2>2. /\ table \in [Slot -> {"real", "tramp"}]
        /\ backup \in [Slot -> {"none", "real", "tramp"}]
    BY DEF JniInit
  <2>3. inside \in Seq(CallRec) /\ frames \in Seq(CallId) /\ Len(inside) = 0
    BY DEF JniInit
  <2>4. nCalls \in 0..MaxCalls /\ sessions \in 0..MaxSessions /\ 0 <= MaxCallDepth
    BY JniAssumption DEF JniInit
  <2>5. tracing \in BOOLEAN /\ clean \in BOOLEAN /\ lines \subseteq [desc : CallId, ret : CallId]
    BY DEF JniInit
  <2> QED BY <2>1, <2>2, <2>3, <2>4, <2>5 DEF JniTypeOK, CallRec, CallId, depth
<1>2. OpInv /\ BackupInv /\ RealKept
  BY DEF JniInit, OpInv, BackupInv, RealKept, Idle
<1>3. PairInv
  BY DEF JniInit, PairInv, CallOrder, PairedWhenClean
<1> QED BY <1>1, <1>2, <1>3 DEF RealInv

\* Calls, in progress and returning, leave the table alone.
CallStep ==
    (\E s \in Slot : Load(s)) \/ Direct \/ OnEnter \/ DirectDone \/ OnLeave

\* A step of the stack of calls keeps it well typed.
LEMMA CallTypes ==
    ASSUME JniTypeOK, CallStep
    PROVE  /\ nCalls' \in 0..MaxCalls
           /\ inside' \in Seq(CallRec) /\ Len(inside') <= MaxCallDepth
           /\ frames' \in Seq(CallId)
           /\ lines' \subseteq [desc : CallId, ret : CallId]
           /\ UNCHANGED <<table, backup, tracing, op, sessions, clean>>
<1>0. inside \in Seq(CallRec) /\ frames \in Seq(CallId) /\ nCalls \in 0..MaxCalls
      /\ Len(inside) <= MaxCallDepth
  BY DEF JniTypeOK, CallRec, CallId, depth
<1>4. lines \subseteq [desc : CallId, ret : CallId]
  BY DEF JniTypeOK, CallId
<1>1. ASSUME NEW s \in Slot, Load(s)
      PROVE  nCalls' \in 0..MaxCalls /\ inside' \in Seq(CallRec) /\ Len(inside') <= MaxCallDepth
  <2>1. nCalls + 1 \in CallId /\ nCalls + 1 \in 0..MaxCalls /\ table[s] \in {"real", "tramp"}
    BY <1>1, <1>0, JniAssumption DEF Load, JniTypeOK, CallId
  <2>2. [id |-> nCalls + 1, via |-> table[s], pc |-> "load"] \in CallRec
    BY <2>1 DEF CallRec
  <2>3. Len(inside) < MaxCallDepth /\ nCalls' = nCalls + 1
        /\ inside' = Append(inside, [id |-> nCalls + 1, via |-> table[s], pc |-> "load"])
    BY <1>1 DEF Load, depth
  <2> QED BY <1>0, <2>1, <2>2, <2>3, JniAssumption, AppendProperties
<1>2. CASE Direct \/ OnEnter
  <2>1. Len(inside) \in 1..Len(inside) /\ inside[Len(inside)] \in CallRec
        /\ inside' = [inside EXCEPT ![Len(inside)] = [@ EXCEPT !.pc = "run"]]
    BY <1>2, <1>0 DEF Direct, OnEnter, In, Run, depth
  <2>2. [inside[Len(inside)] EXCEPT !.pc = "run"] \in CallRec /\ inside[Len(inside)].id \in CallId
    BY <2>1 DEF CallRec
  <2>3. inside' \in Seq(CallRec) /\ Len(inside') = Len(inside)
    BY <2>1, <2>2, <1>0
  <2>4. frames' \in {frames, Append(frames, inside[Len(inside)].id)}
    BY <1>2 DEF Direct, OnEnter, Run, depth
  <2>5. frames' \in Seq(CallId)
    BY <1>0, <2>2, <2>4, AppendProperties
  <2> QED BY <1>0, <1>2, <1>4, <2>3, <2>5 DEF Direct, OnEnter, Run
<1>3. CASE DirectDone \/ OnLeave
  <2>1. inside # << >> /\ inside' = SubSeq(inside, 1, Len(inside) - 1)
    BY <1>3, <1>0 DEF DirectDone, OnLeave, Running, Done, depth
  <2>a. inside[Len(inside)] \in CallRec /\ inside[Len(inside)].id \in CallId
    <3>1. inside[Len(inside)] \in CallRec
      BY <1>0, <2>1, Popped1
    <3> QED BY <3>1 DEF CallRec
  <2>2. inside' \in Seq(CallRec) /\ Len(inside') <= MaxCallDepth
    BY <1>0, <2>1, JniAssumption, Popped1
  <2>3. \/ frames' = frames /\ lines' = lines
        \/ /\ frames # << >> /\ frames' = SubSeq(frames, 1, Len(frames) - 1)
           /\ lines' = lines \cup {[desc |-> frames[Len(frames)], ret |-> inside[Len(inside)].id]}
    BY <1>3 DEF DirectDone, OnLeave, Done, depth
  <2>4. frames' \in Seq(CallId) /\ lines' \subseteq [desc : CallId, ret : CallId]
    <3>1. CASE frames' = frames /\ lines' = lines
      BY <3>1, <1>0, <1>4
    <3>2. CASE /\ frames # << >> /\ frames' = SubSeq(frames, 1, Len(frames) - 1)
               /\ lines' = lines \cup {[desc |-> frames[Len(frames)], ret |-> inside[Len(inside)].id]}
      <4>1. frames[Len(frames)] \in CallId /\ frames' \in Seq(CallId)
        BY <1>0, <3>2, Popped1
      <4> QED BY <3>2, <4>1, <1>4, <2>a
    <3> QED BY <2>3, <3>1, <3>2
  <2> QED BY <1>0, <1>3, <2>2, <2>4 DEF DirectDone, OnLeave, Done
<1> QED BY <1>0, <1>4, <1>1, <1>2, <1>3 DEF CallStep, Load

\* No step of a script or of a call loses a real function.
LEMMA NextReal == RealInv /\ [JniNext]_jniVars => RealInv'
<1> SUFFICES ASSUME RealInv, [JniNext]_jniVars PROVE RealInv'
  OBVIOUS
<1> USE DEF RealInv
<1> DEFINE OpType == [what : {"idle", "install", "uninstall"}, left : SUBSET Slot]
<1>t. ASSUME table' \in [Slot -> {"real", "tramp"}],
             backup' \in [Slot -> {"none", "real", "tramp"}],
             tracing' \in BOOLEAN, clean' \in BOOLEAN, op' \in OpType,
             sessions' \in 0..MaxSessions,
             UNCHANGED <<nCalls, inside, frames, lines>>
      PROVE  JniTypeOK'
  BY <1>t DEF JniTypeOK, depth
<1>0. /\ table \in [Slot -> {"real", "tramp"}]
      /\ backup \in [Slot -> {"none", "real", "tramp"}]
      /\ tracing \in BOOLEAN /\ clean \in BOOLEAN /\ op \in OpType
      /\ sessions \in 0..MaxSessions
  BY DEF JniTypeOK
<1>b. ASSUME EnsureBackupTable, op = Idle
      PROVE  /\ backup' \in [Slot -> {"none", "real", "tramp"}]
             /\ \A s \in Slot : backup'[s] = "real"
  <2>1. CASE \E s \in Slot : backup[s] # "none"
    BY <1>0, <1>b, <2>1 DEF EnsureBackupTable, BackupInv
  <2>2. CASE ~ \E s \in Slot : backup[s] # "none"
    <3>1. backup' = table
      BY <1>b, <2>2 DEF EnsureBackupTable
    <3>2. \A s \in Slot : table[s] = "real"
      BY <1>0, <2>2 DEF RealKept
    <3> QED BY <1>0, <3>1, <3>2
  <2> QED BY <2>1, <2>2
<1>1. CASE InstallBegin
  <2>1. op = Idle /\ ~tracing /\ sessions < MaxSessions
        /\ op' \in {Idle, [what |-> "install", left |-> Slot]}
        /\ UNCHANGED <<table, tracing, nCalls, inside, frames, lines, sessions, clean>>
        /\ backup' \in [Slot -> {"none", "real", "tramp"}] /\ \A s \in Slot : backup'[s] = "real"
    BY <1>1, <1>b DEF InstallBegin
  <2>2. op' \in OpType
    BY <2>1 DEF Idle
  <2>3. JniTypeOK'
    BY <1>0, <1>t, <2>1, <2>2
  <2>4. OpInv' /\ BackupInv'
    BY <2>1 DEF OpInv, BackupInv, Idle
  <2>5. RealKept'
    BY <2>1 DEF RealKept
  <2> QED BY <2>3, <2>4, <2>5
<1>2. CASE HwTrace
  <2>1. op = Idle /\ UNCHANGED <<table, tracing, op, nCalls, inside, frames, lines, sessions, clean>>
        /\ backup' \in [Slot -> {"none", "real", "tramp"}] /\ \A s \in Slot : backup'[s] = "real"
    BY <1>2, <1>b DEF HwTrace
  <2>3. JniTypeOK'
    BY <1>0, <1>t, <2>1
  <2>4. OpInv' /\ BackupInv' /\ RealKept'
    BY <2>1 DEF OpInv, BackupInv, RealKept, Idle
  <2> QED BY <2>3, <2>4
<1>3. ASSUME NEW s \in Slot, InstallSlot(s) \/ UninstallSlot(s)
      PROVE  RealInv'
  <2>1. op' = [op EXCEPT !.left = @ \ {s}]
        /\ UNCHANGED <<backup, tracing, nCalls, inside, frames, lines, sessions, clean>>
    BY <1>3 DEF InstallSlot, UninstallSlot
  <2>2. op' \in OpType /\ op'.what = op.what /\ op'.left = op.left \ {s}
    BY <1>0, <2>1
  <2>3. op.what \in {"install", "uninstall"} /\ op # Idle /\ op' # Idle
    BY <1>3, <2>2 DEF InstallSlot, UninstallSlot, Idle
  <2>4. \A u \in Slot : backup[u] = "real"
    BY <2>3 DEF BackupInv
  <2>5. /\ table' \in [Slot -> {"real", "tramp"}]
        /\ \A u \in Slot \ {s} : table'[u] = table[u]
        /\ op.what = "uninstall" => table'[s] = "real"
    BY <1>0, <1>3, <2>4 DEF InstallSlot, UninstallSlot
  <2>6. JniTypeOK'
    BY <1>0, <1>t, <2>1, <2>2, <2>5
  <2>7. OpInv'
    BY <2>1, <2>2, <2>3, <2>5 DEF OpInv
  <2> QED BY <2>1, <2>3, <2>4, <2>6, <2>7 DEF BackupInv, RealKept
<1>4. CASE InstallEnd \/ UninstallBegin
  <2>1. op' \in OpType
    BY <1>4 DEF InstallEnd, UninstallBegin, Idle
  <2>2. /\ sessions' \in 0..MaxSessions /\ clean' \in BOOLEAN /\ tracing' = TRUE
        /\ UNCHANGED <<table, backup, nCalls, inside, frames, lines>>
    <3>1. CASE InstallEnd
      BY <1>0, <3>1, JniAssumption DEF InstallEnd, OpInv
    <3>2. CASE UninstallBegin
      BY <1>0, <3>2 DEF UninstallBegin
    <3> QED BY <1>4, <3>1, <3>2
  <2>3. JniTypeOK'
    BY <1>0, <1>t, <2>1, <2>2
  <2>4. \A s \in Slot : backup[s] = "real"
    BY <1>4 DEF InstallEnd, UninstallBegin, BackupInv, Idle
  <2>5. OpInv'
    <3>1. CASE InstallEnd
      BY <3>1, <2>2 DEF InstallEnd, OpInv, Idle
    <3>2. CASE UninstallBegin
      BY <3>2, <2>2 DEF UninstallBegin, OpInv
    <3> QED BY <1>4, <3>1, <3>2
  <2> QED BY <2>2, <2>3, <2>4, <2>5 DEF BackupInv, RealKept
<1>5. CASE UninstallEnd
  <2>1. op' = Idle /\ ~tracing' /\ UNCHANGED <<table, backup, nCalls, inside, frames, lines, sessions, clean>>
        /\ op' \in OpType /\ tracing' \in BOOLEAN
    BY <1>5 DEF UninstallEnd, Idle
  <2>2. JniTypeOK'
    BY <1>0, <1>t, <2>1
  <2>3. \A s \in Slot : table[s] = "real"
    BY <1>5 DEF UninstallEnd, OpInv
  <2>4. OpInv' /\ BackupInv'
    BY <2>1 DEF OpInv, BackupInv, Idle
  <2> QED BY <2>1, <2>2, <2>3, <2>4 DEF RealKept
<1>6. CASE CallStep
  <2>1. JniTypeOK'
    BY <1>0, <1>6, CallTypes DEF JniTypeOK, CallId, CallRec, depth
  <2>2. OpInv' /\ BackupInv' /\ RealKept'
    BY <1>6, CallTypes DEF OpInv, BackupInv, RealKept
  <2> QED BY <2>1, <2>2
<1>7. CASE UNCHANGED jniVars
  BY <1>7 DEF jniVars, JniTypeOK, OpInv, BackupInv, RealKept, depth
<1> QED BY <1>1, <1>2, <1>3, <1>4, <1>5, <1>6, <1>7 DEF JniNext, CallStep

\* Whatever a call or a script does, frames stay those of the calls they were made for
\* as long as no session began over frames of an earlier one.
LEMMA NextPair == JniTypeOK /\ PairInv /\ [JniNext]_jniVars => PairInv'
<1> SUFFICES ASSUME JniTypeOK, PairInv, [JniNext]_jniVars PROVE PairInv'
  OBVIOUS
<1> USE DEF PairInv
<1>0. inside \in Seq(CallRec) /\ frames \in Seq(CallId)
  BY DEF JniTypeOK, CallRec, CallId
<1>l. Len(inside) \in Nat /\ Len(frames) \in Nat /\ nCalls \in Nat
  BY <1>0, JniAssumption DEF JniTypeOK
<1>r. \A i \in 1..Len(inside) : inside[i] \in CallRec
  BY <1>0
<1>i. \A i \in 1..Len(inside) : inside[i].id \in Int
  BY <1>r DEF CallRec, CallId
<1>f. \A k \in 1..Len(frames) : frames[k] \in Int
  <2>1. \A k \in 1..Len(frames) : frames[k] \in CallId
    BY <1>0
  <2> QED BY <2>1 DEF CallId
<1>1. ASSUME UNCHANGED <<nCalls, inside, frames, lines>>, clean' => clean, clean' /\ tracing' => tracing
      PROVE  PairInv'
  BY <1>1 DEF CallOrder, FramesMatch, Entered, PairedWhenClean
<1>2. CASE InstallBegin \/ HwTrace \/ UninstallBegin \/ UninstallEnd
           \/ \E s \in Slot : InstallSlot(s) \/ UninstallSlot(s)
  BY <1>1, <1>2 DEF InstallBegin, HwTrace, UninstallBegin, UninstallEnd, InstallSlot, UninstallSlot
<1>3. CASE InstallEnd
  <2>1. clean' => frames' = << >>
    BY <1>3 DEF InstallEnd
  <2>2. clean' => FramesMatch'
    BY <2>1 DEF FramesMatch
  <2> QED BY <1>3, <2>2 DEF InstallEnd, CallOrder, PairedWhenClean
<1>4. ASSUME NEW s \in Slot, Load(s)
      PROVE  PairInv'
  <2> DEFINE c == [id |-> nCalls + 1, via |-> table[s], pc |-> "load"]
  <2>1. /\ inside' = Append(inside, c) /\ nCalls' = nCalls + 1
        /\ UNCHANGED <<tracing, frames, lines, clean>>
    BY <1>4 DEF Load
  <2>2. /\ Len(inside') = Len(inside) + 1
        /\ \A i \in 1..Len(inside) : inside'[i] = inside[i]
        /\ inside'[Len(inside) + 1] = c /\ c.id = nCalls + 1 /\ c.pc = "load"
    BY <1>0, <2>1
  <2> HIDE DEF c
  <2>3. CallOrder'
    BY <1>l, <1>i, <2>1, <2>2 DEF CallOrder
  <2>4. \A j \in 1..Len(inside') : Entered(j)' => j \in 1..Len(inside) /\ Entered(j)
    BY <1>l, <2>2 DEF Entered
  <2>5. \A j \in 1..Len(inside) : Entered(j) => Entered(j)'
    BY <1>l, <2>2 DEF Entered
  <2>6. FramesMatch => FramesMatch'
    BY <1>l, <2>1, <2>2, <2>4, <2>5 DEF FramesMatch
  <2> QED BY <2>1, <2>3, <2>6 DEF PairedWhenClean
<1>5. CASE Direct \/ OnEnter
  <2> DEFINE d == Len(inside)
  <2>1. /\ d \in Nat /\ d >= 1 /\ d \in 1..d /\ inside[d].pc = "load"
        /\ inside' = [inside EXCEPT ![d] = [@ EXCEPT !.pc = "run"]]
        /\ UNCHANGED <<nCalls, tracing, lines, clean>>
    BY <1>0, <1>5 DEF Direct, OnEnter, In, Run, depth
  <2>2. /\ Len(inside') = d
        /\ \A i \in 1..d : i # d => inside'[i] = inside[i]
        /\ inside'[d].id = inside[d].id /\ inside'[d].via = inside[d].via /\ inside'[d].pc = "run"
    BY <1>0, <2>1 DEF CallRec
  <2> HIDE DEF d
  <2>3. CallOrder'
    BY <1>l, <1>i, <2>1, <2>2 DEF CallOrder, d
  <2>4. FramesMatch /\ tracing => FramesMatch'
    <3> SUFFICES ASSUME FramesMatch, tracing PROVE FramesMatch'
      OBVIOUS
    <3>1. \A i \in 1..d : Entered(i) => i # d /\ Entered(i)' /\ inside'[i].id = inside[i].id
      BY <2>1, <2>2 DEF Entered
    <3>2. CASE Direct
      <4>1. frames' = frames /\ inside[d].via = "real"
        BY <3>2 DEF Direct, In, Run, depth, d
      <4>2. \A i \in 1..d : Entered(i)' => Entered(i)
        BY <2>1, <2>2, <4>1 DEF Entered
      <4>3. \A i \in 1..d : inside'[i].id = inside[i].id
        BY <2>2
      <4> QED BY <2>2, <3>1, <4>1, <4>2, <4>3 DEF FramesMatch, d
    <3>3. CASE OnEnter
      <4>1. frames' = Append(frames, inside[d].id)
        BY <3>3 DEF OnEnter, Run, depth, d
      <4>2. /\ Len(frames') = Len(frames) + 1 /\ frames'[Len(frames) + 1] = inside[d].id
            /\ \A k \in 1..Len(frames) : frames'[k] = frames[k]
        BY <1>0, <4>1
      <4>3. inside[d].via = "tramp"
        BY <3>3 DEF OnEnter, In, depth, d
      <4>4. \A k \in 1..Len(frames) : frames[k] < inside[d].id
        BY <1>l, <1>i, <1>f, <2>1, <3>1 DEF FramesMatch, CallOrder, d
      <4>5. \A k, l \in 1..Len(frames') : k < l => frames'[k] < frames'[l]
        <5> SUFFICES ASSUME NEW k \in 1..Len(frames'), NEW l \in 1..Len(frames'), k < l
                     PROVE  frames'[k] < frames'[l]
          OBVIOUS
        <5>1. k \in 1..Len(frames) /\ (l \in 1..Len(frames) \/ l = Len(frames) + 1)
          BY <1>l, <4>2
        <5> QED BY <5>1, <4>2, <4>4 DEF FramesMatch
      <4>6. \A k \in 1..Len(frames') : \E i \in 1..Len(inside') : Entered(i)' /\ frames'[k] = inside'[i].id
        <5> SUFFICES ASSUME NEW k \in 1..Len(frames')
                     PROVE  \E i \in 1..Len(inside') : Entered(i)' /\ frames'[k] = inside'[i].id
          OBVIOUS
        <5>1. CASE k = Len(frames) + 1
          <6>1. PICK i \in 1..Len(inside') : i = d
            BY <2>1, <2>2
          <6>2. Entered(i)' /\ frames'[k] = inside'[i].id
            BY <5>1, <6>1, <2>2, <4>2, <4>3 DEF Entered
          <6> QED BY <6>2
        <5>2. CASE k \in 1..Len(frames)
          <6>1. PICK i \in 1..d : Entered(i) /\ frames[k] = inside[i].id
            BY <5>2 DEF FramesMatch, d
          <6> QED BY <6>1, <5>2, <2>2, <3>1, <4>2
        <5> QED BY <5>1, <5>2, <4>2, <1>l
      <4>7. \A i \in 1..d : i # d /\ Entered(i)' => Entered(i)
        BY <2>2 DEF Entered
      <4>8. ASSUME NEW k \in 1..Len(frames'), NEW j \in 1..Len(inside'), Entered(j)', inside'[j].id > frames'[k]
            PROVE  \E l \in 1..Len(frames') : frames'[l] = inside'[j].id
        <5>1. CASE j = d
          BY <5>1, <1>l, <2>2, <4>2
        <5>2. CASE j # d /\ k \in 1..Len(frames)
          <6>1. \E l \in 1..Len(frames) : frames[l] = inside[j].id
            BY <5>2, <4>8, <4>7, <4>2, <2>2 DEF FramesMatch, d
          <6> QED BY <6>1, <5>2, <4>2, <1>l, <2>2, <4>8
        <5>3. CASE j # d /\ k = Len(frames) + 1
          BY <5>3, <4>8, <4>2, <1>l, <1>i, <2>1, <2>2 DEF CallOrder, d
        <5> QED BY <5>1, <5>2, <5>3, <4>2, <1>l
      <4> QED BY <4>5, <4>6, <4>8 DEF FramesMatch
    <3> QED BY <1>5, <3>2, <3>3
  <2> QED BY <2>1, <2>3, <2>4 DEF PairedWhenClean
<1>6. CASE DirectDone \/ OnLeave
  <2> DEFINE d == Len(inside)
  <2>1. /\ d \in Nat /\ d >= 1 /\ d \in 1..d /\ inside[d].pc = "run" /\ inside # << >>
        /\ inside' = SubSeq(inside, 1, d - 1)
        /\ UNCHANGED <<nCalls, tracing, clean>>
    BY <1>0, <1>6 DEF DirectDone, OnLeave, Running, Done, depth
  <2>2. Len(inside') = d - 1 /\ \A i \in 1..(d - 1) : inside'[i] = inside[i]
    BY <1>0, <2>1, Popped1
  <2> HIDE DEF d
  <2>3. CallOrder'
    BY <1>0, <2>1, <2>2 DEF CallOrder, d
  <2>a. \A i \in 1..(d - 1) : Entered(i)' <=> Entered(i)
    BY <2>2 DEF Entered
  <2>4. CASE frames' = frames /\ lines' = lines /\ (inside[d].via = "real" \/ ~tracing \/ frames = << >>)
    <3>1. clean /\ tracing => FramesMatch'
      <4> SUFFICES ASSUME clean, tracing PROVE FramesMatch'
        OBVIOUS
      <4>1. CASE frames = << >>
        BY <2>4, <4>1 DEF FramesMatch
      <4>2. CASE inside[d].via = "real"
        <5>1. \A i \in 1..d : Entered(i) => i \in 1..(d - 1)
          BY <2>1, <4>2 DEF Entered
        <5>2. \A k \in 1..Len(frames) : \E i \in 1..Len(inside') : Entered(i)' /\ frames[k] = inside'[i].id
          BY <5>1, <2>2, <2>a DEF FramesMatch, d
        <5>3. \A j \in 1..Len(inside') : j \in 1..Len(inside) /\ inside'[j] = inside[j] /\ (Entered(j)' => Entered(j))
          BY <2>1, <2>2, <2>a DEF d
        <5>4. \A k \in 1..Len(frames) : \A j \in 1..Len(inside') :
                 Entered(j)' /\ inside'[j].id > frames[k] => \E l \in 1..Len(frames) : frames[l] = inside'[j].id
          BY <5>3 DEF FramesMatch
        <5> QED BY <2>4, <5>2, <5>4 DEF FramesMatch
      <4> QED BY <2>4, <4>1, <4>2
    <3> QED BY <2>1, <2>3, <2>4, <3>1 DEF PairedWhenClean
  <2>5. CASE /\ inside[d].via = "tramp" /\ tracing /\ frames # << >>
             /\ frames' = SubSeq(frames, 1, Len(frames) - 1)
             /\ lines' = lines \cup {[desc |-> frames[Len(frames)], ret |-> inside[d].id]}
    <3> DEFINE f == Len(frames)
    <3>1. /\ f \in Nat /\ f >= 1 /\ f \in 1..f /\ Len(frames') = f - 1 /\ \A k \in 1..(f - 1) : frames'[k] = frames[k]
      BY <1>0, <2>5, Popped1
    <3> HIDE DEF f
    <3>2. SUFFICES ASSUME clean PROVE FramesMatch' /\ PairedWhenClean'
      BY <2>1, <2>3, <2>5 DEF PairedWhenClean
    <3>3. FramesMatch /\ Entered(d)
      BY <2>1, <2>5, <3>2 DEF Entered
    <3>4. frames[f] = inside[d].id
      <4>1. PICK i \in 1..d : Entered(i) /\ frames[f] = inside[i].id
        BY <3>1, <3>3 DEF FramesMatch, d, f
      <4>2. ASSUME i # d PROVE FALSE
        <5>1. inside[d].id > frames[f]
          BY <1>l, <1>i, <2>1, <4>1, <4>2 DEF CallOrder, d
        <5>2. PICK l \in 1..f : frames[l] = inside[d].id
          BY <2>1, <3>1, <3>3, <5>1 DEF FramesMatch, d, f
        <5>3. l # f => frames[l] < frames[f]
          BY <3>1, <3>3, <5>2 DEF FramesMatch, f
        <5>4. frames[f] \in Int /\ frames[l] \in Int
          BY <1>f, <3>1, <5>2 DEF f
        <5> QED BY <5>1, <5>2, <5>3, <5>4
      <4> QED BY <4>1, <4>2
    <3>5. PairedWhenClean'
      BY <2>1, <2>5, <3>2, <3>4 DEF PairedWhenClean, f
    <3>6. \A k, l \in 1..(f - 1) : k < l => frames'[k] < frames'[l]
      <4>1. \A k \in 1..(f - 1) : k \in 1..Len(frames)
        BY <3>1 DEF f
      <4> QED BY <3>1, <3>3, <4>1 DEF FramesMatch
    <3>7. ASSUME NEW k \in 1..(f - 1)
          PROVE  \E i \in 1..(d - 1) : Entered(i)' /\ frames'[k] = inside'[i].id
      <4>1. PICK i \in 1..d : Entered(i) /\ frames[k] = inside[i].id
        <5>1. k \in 1..Len(frames)
          BY <3>1 DEF f
        <5> QED BY <3>3, <5>1 DEF FramesMatch, d
      <4>2. frames[k] < frames[f]
        <5>1. k \in 1..Len(frames) /\ f \in 1..Len(frames) /\ k < f
          BY <3>1 DEF f
        <5> QED BY <3>3, <5>1 DEF FramesMatch
      <4>a. frames[k] \in Int /\ frames[f] \in Int
        BY <1>f, <3>1 DEF f
      <4>3. i # d
        BY <4>a, <4>1, <4>2, <3>4
      <4> QED BY <2>1, <2>2, <2>a, <3>1, <4>1, <4>3
    <3>8. ASSUME NEW k \in 1..(f - 1), NEW j \in 1..(d - 1), Entered(j)', inside'[j].id > frames'[k]
          PROVE  \E l \in 1..(f - 1) : frames'[l] = inside'[j].id
      <4>1. PICK l \in 1..f : frames[l] = inside[j].id
        <5>1. Entered(j) /\ inside[j].id > frames[k] /\ j \in 1..d /\ k \in 1..f
          BY <2>1, <2>2, <2>a, <3>1, <3>8
        <5> QED BY <3>3, <5>1 DEF FramesMatch, d, f
      <4>2. l # f
        <5>1. inside[j].id < inside[d].id /\ inside[j].id \in Int /\ inside[d].id \in Int
          BY <2>1, <1>i DEF CallOrder, d
        <5> QED BY <3>4, <4>1, <5>1
      <4>3. l \in 1..(f - 1)
        BY <3>1, <4>2
      <4> QED BY <2>2, <3>1, <4>1, <4>3
    <3> QED BY <2>2, <3>1, <3>5, <3>6, <3>7, <3>8 DEF FramesMatch
  <2> QED BY <1>6, <2>4, <2>5 DEF DirectDone, OnLeave, Done, depth, d
<1>7. CASE UNCHANGED jniVars
  BY <1>1, <1>7 DEF jniVars
<1> QED BY <1>2, <1>3, <1>4, <1>5, <1>6, <1>7 DEF JniNext

\* Whatever order tracing, hwtrace and stopping come in, the real functions are kept, a
\* trampoline never leads to a trampoline, and none is left when tracing is off.
THEOREM RealFunctionsKept == JniSpec => []RealKept
<1>1. RealInv => RealKept
  BY DEF RealInv
<1> QED BY <1>1, InitJni, NextReal, PTL DEF JniSpec

\* A printed line joins a call's own description with its own result, for any nesting
\* of calls and any moment at which tracing is switched on or off.
THEOREM LinesPaired == JniSpec => []PairedWhenClean
<1>1. RealInv /\ PairInv /\ [JniNext]_jniVars => (RealInv /\ PairInv)'
  BY NextReal, NextPair DEF RealInv
<1>2. PairInv => PairedWhenClean
  BY DEF PairInv
<1> QED BY <1>1, <1>2, InitJni, PTL DEF JniSpec

-----------------------------------------------------------------------------
(* Memory patches *)

\* A non-empty set of numbers up to N has a largest.
LEMMA MaxOf ==
    ASSUME NEW N \in Nat, NEW S \in SUBSET (1..N), S # {}
    PROVE  Max(S) \in S /\ \A y \in S : Max(S) >= y
<1> DEFINE R == OpToRel(<, Nat)
           T == {t \in Nat : \E x \in S : t = N - x}
<1>1. T \subseteq Nat /\ T # {}
  <2>1. PICK x \in S : TRUE
    OBVIOUS
  <2>2. N - x \in T
    BY <2>1
  <2> QED BY <2>2
<1>2. \A x, y \in Nat : x < y => <<x, y>> \in R
  BY DEF OpToRel
<1>3. IsWellFoundedOn(R, Nat)
  BY NatLessThanWellFounded
<1> HIDE DEF R, T
<1>4. PICK t \in T : \A u \in T : ~(<<u, t>> \in R)
  BY <1>1, <1>3, WFMin
<1>5. \A u \in T : t <= u
  <2> SUFFICES ASSUME NEW u \in T PROVE t <= u
    OBVIOUS
  <2>1. t \in Nat /\ u \in Nat
    BY <1>1
  <2>2. ~(u < t)
    BY <2>1, <1>2, <1>4
  <2> QED BY <2>1, <2>2
<1>6. PICK x \in S : t = N - x
  BY DEF T
<1>7. ASSUME NEW y \in S PROVE x >= y
  <2>1. N - y \in T
    BY DEF T
  <2> QED BY <2>1, <1>5, <1>6
<1> QED BY <1>7 DEF Max

PatchObj ==
    {NoPatch} \cup UNION {[id : 1..MaxPatches, at : {A}, orig : [A -> 0..Other]] : A \in SUBSET Byte}

\* Patches are made in the cells in order and freed all at once: g_activePatches lists
\* the cells in use, the oldest patch in the first.
CellsInv ==
    /\ heap \in [Cell -> PatchObj]
    /\ active \in Seq(Cell) /\ Len(active) <= nPatches
    /\ \A i \in 1..Len(active) : active[i] = i
    /\ \A c \in Cell : heap[c] # NoPatch <=> c <= Len(active)

BytesInv ==
    /\ mem \in [Byte -> 0..Other]
    /\ nPatches \in 0..MaxPatches
    /\ objs \subseteq [cell : Cell, id : 1..MaxPatches, fresh : BOOLEAN]
    /\ foreign \subseteq Byte /\ stacked \subseteq Byte /\ failed \subseteq Byte

\* A byte that only patches have written, none over another's and none dropped without
\* being written back, was original when each of the patches that cover it was made, and
\* is original if none does.
UndoInv ==
    \A b \in Byte \ (foreign \cup stacked \cup failed) :
       /\ \A c \in 1..Len(active) : b \in heap[c].at => heap[c].orig[b] = 0
       /\ mem[b] # 0 => \E c \in 1..Len(active) : b \in heap[c].at

PatchInv == CellsInv /\ BytesInv /\ UndoInv /\ OwnPatch

\* What is in a cell in use.
LEMMA PatchFields ==
    ASSUME NEW p \in PatchObj, p # NoPatch
    PROVE  p.id \in 1..MaxPatches /\ p.at \subseteq Byte /\ p.orig \in [p.at -> 0..Other]
BY DEF PatchObj

\* PatchInit establishes the invariant of the patches.
LEMMA InitPatch == PatchInit => PatchInv
<1> SUFFICES ASSUME PatchInit PROVE PatchInv
  OBVIOUS
<1>1. CellsInv
  BY PatchAssumption DEF PatchInit, CellsInv, PatchObj, Cell
<1>2. BytesInv
  BY PatchAssumption DEF PatchInit, BytesInv, Other
<1>3. UndoInv /\ OwnPatch
  BY DEF PatchInit, UndoInv, OwnPatch
<1> QED BY <1>1, <1>2, <1>3 DEF PatchInv

\* The allocator gives the next patch the cell after those in use.
LEMMA FreeCellNext ==
    ASSUME CellsInv, BytesInv, nPatches < MaxPatches
    PROVE  FreeCell = Len(active) + 1 /\ FreeCell \in Cell
<1>1. Len(active) \in Nat /\ Len(active) + 1 \in Cell
  BY PatchAssumption DEF CellsInv, BytesInv, Cell
<1>2. \A c \in Cell : c \in Int /\ (heap[c] = NoPatch <=> c > Len(active))
  BY <1>1 DEF CellsInv, Cell
<1>3. \E c \in Cell : heap[c] = NoPatch /\ \A d \in Cell : heap[d] = NoPatch => c <= d
  BY <1>1, <1>2
<1>4. /\ FreeCell \in Cell /\ heap[FreeCell] = NoPatch
      /\ \A d \in Cell : heap[d] = NoPatch => FreeCell <= d
  BY <1>3 DEF FreeCell
<1>5. FreeCell > Len(active) /\ FreeCell <= Len(active) + 1 /\ FreeCell \in Int
  BY <1>1, <1>2, <1>4
<1> QED BY <1>1, <1>4, <1>5

\* The loop of restoreAll leaves bytes, and the original ones where only patches wrote and
\* all that cover it were written back.
LEMMA RestoredBytes ==
    ASSUME PatchInv, NEW lost \in SUBSET (1..Len(active)), NEW b \in Byte
    PROVE  /\ RestoredAll(lost)[b] \in 0..Other
           /\ b \notin foreign \cup stacked \cup failed \cup UNION {heap[active[i]].at : i \in lost}
                 => RestoredAll(lost)[b] = 0
<1> DEFINE cov == Covering(b, lost)
           out == UNION {heap[active[i]].at : i \in lost}
<1>0. /\ Len(active) \in Nat /\ cov \in SUBSET (1..Len(active))
      /\ \A i \in 1..Len(active) : active[i] = i
      /\ \A i \in cov : b \in heap[i].at
  BY DEF PatchInv, CellsInv, Covering
<1>1. CASE cov = {}
  <2>1. RestoredAll(lost)[b] = mem[b]
    BY <1>1 DEF RestoredAll
  <2>2. ASSUME b \notin foreign \cup stacked \cup failed \cup out PROVE mem[b] = 0
    <3>1. ASSUME NEW c \in 1..Len(active), b \in heap[c].at PROVE FALSE
      <4>1. c \in lost
        BY <1>0, <1>1, <3>1 DEF Covering
      <4>2. b \in out
        BY <1>0, <3>1, <4>1
      <4> QED BY <2>2, <4>2
    <3> QED BY <2>2, <3>1 DEF PatchInv, UndoInv
  <2> QED BY <2>1, <2>2 DEF PatchInv, BytesInv
<1>2. CASE cov # {}
  <2> DEFINE m == Max(cov)
  <2>2. m \in cov
    BY <1>0, <1>2, MaxOf
  <2>3. RestoredAll(lost)[b] = heap[active[m]].orig[b]
    BY <1>2 DEF RestoredAll
  <2> HIDE DEF m, cov, out
  <2>4. m \in 1..Len(active) /\ active[m] = m /\ m \in Cell /\ b \in heap[m].at
    BY <1>0, <2>2, PatchAssumption DEF PatchInv, CellsInv, BytesInv, Cell
  <2>5. heap[m] \in PatchObj /\ heap[m] # NoPatch
    BY <2>4 DEF PatchInv, CellsInv, Cell
  <2>6. heap[m].orig[b] \in 0..Other
    BY <2>4, <2>5, PatchFields
  <2>7. b \notin foreign \cup stacked \cup failed => heap[m].orig[b] = 0
    BY <2>4 DEF PatchInv, UndoInv
  <2> QED BY <2>3, <2>4, <2>6, <2>7
<1> QED BY <1>1, <1>2

\* Every patch, restore and write keeps track of what restoreAll will put back.
LEMMA NextPatch == PatchInv /\ [PatchNext]_patchVars => PatchInv'
<1> SUFFICES ASSUME PatchInv, [PatchNext]_patchVars PROVE PatchInv'
  OBVIOUS
<1> USE DEF PatchInv
<1>0. /\ Len(active) \in Nat /\ \A c \in 1..Len(active) : c \in Cell /\ heap[c] # NoPatch
      /\ \A c \in Cell : heap[c] # NoPatch => c \in 1..Len(active)
  BY PatchAssumption DEF CellsInv, BytesInv, Cell
<1>1. ASSUME NEW lo \in Byte, NEW hi \in Byte, Patch(lo, hi)
      PROVE  PatchInv'
  <2> DEFINE c == FreeCell
             p == Create(Span(lo, hi))
  <2>1. /\ mem' \in {mem, ModifyIn(mem, p)}
        /\ heap' = [heap EXCEPT ![c] = p]
        /\ active' = Append(active, c)
        /\ objs' = objs \cup {[cell |-> c, id |-> p.id, fresh |-> TRUE]}
        /\ nPatches' = nPatches + 1 /\ nPatches < MaxPatches
        /\ stacked' = stacked \cup {b \in p.at : mem[b] # 0}
        /\ foreign' = foreign /\ failed' = failed
    BY <1>1 DEF Patch
  <2>2. p.id = nPatches + 1 /\ p.at = Span(lo, hi) /\ p.orig = [b \in p.at |-> mem[b]] /\ p.at \subseteq Byte
    BY DEF Create, Span
  <2>3. p \in PatchObj /\ p # NoPatch
    <3>1. nPatches + 1 \in 1..MaxPatches /\ nPatches + 1 # 0
      BY <2>1, PatchAssumption DEF BytesInv
    <3>2. Span(lo, hi) \in SUBSET Byte /\ [b \in Span(lo, hi) |-> mem[b]] \in [Span(lo, hi) -> 0..Other]
      BY DEF BytesInv, Span
    <3>3. p \in [id : 1..MaxPatches, at : {Span(lo, hi)}, orig : [Span(lo, hi) -> 0..Other]]
      BY <3>1, <3>2 DEF Create
    <3>4. p # NoPatch
      BY <2>2, <3>1 DEF NoPatch
    <3> QED BY <3>2, <3>3, <3>4 DEF PatchObj
  <2>4. c = Len(active) + 1 /\ c \in Cell /\ nPatches + 1 \in 1..MaxPatches
    BY <2>1, FreeCellNext, PatchAssumption DEF BytesInv
  <2> HIDE DEF c, p
  <2>5. /\ heap' \in [Cell -> PatchObj] /\ heap'[c] = p
        /\ \A d \in Cell : d # c => heap'[d] = heap[d]
    BY <2>1, <2>3, <2>4 DEF CellsInv
  <2>6. /\ active' \in Seq(Cell) /\ Len(active') = Len(active) + 1
        /\ \A i \in 1..Len(active') : active'[i] = i
    BY <1>0, <2>1, <2>4 DEF CellsInv
  <2>7. CellsInv'
    <3>1. Len(active') <= nPatches'
      BY <2>1, <2>6 DEF CellsInv, BytesInv
    <3>2. \A d \in Cell : heap'[d] # NoPatch <=> d <= Len(active')
      BY <1>0, <2>3, <2>4, <2>5, <2>6 DEF CellsInv, Cell
    <3> QED BY <2>5, <2>6, <3>1, <3>2 DEF CellsInv
  <2>8. BytesInv'
    <3>1. nPatches' \in 0..MaxPatches /\ 0..MaxPatches \subseteq 0..Other /\ p.id \in 0..Other
      BY <2>1, <2>2, <2>4, PatchAssumption DEF Other
    <3>2. mem' \in [Byte -> 0..Other]
      BY <2>1, <3>1 DEF BytesInv, ModifyIn
    <3>3. [cell |-> c, id |-> p.id, fresh |-> TRUE] \in [cell : Cell, id : 1..MaxPatches, fresh : BOOLEAN]
      BY <2>2, <2>4
    <3> QED BY <2>1, <2>2, <3>1, <3>2, <3>3 DEF BytesInv
  <2>9. OwnPatch'
    <3> SUFFICES ASSUME NEW o \in objs', o.fresh PROVE heap'[o.cell].id = o.id
      BY DEF OwnPatch
    <3>1. CASE o \in objs
      <4>1. heap[o.cell].id = o.id /\ o.cell \in Cell /\ o.id \in 1..MaxPatches
        BY <3>1 DEF OwnPatch, BytesInv
      <4>2. o.cell # c
        BY <1>0, <2>4, <4>1 DEF CellsInv, NoPatch
      <4> QED BY <2>5, <4>1, <4>2
    <3>2. CASE o = [cell |-> c, id |-> p.id, fresh |-> TRUE]
      BY <2>5, <3>2
    <3> QED BY <2>1, <3>1, <3>2
  <2>10. UndoInv'
    <3> SUFFICES ASSUME NEW b \in Byte, b \notin foreign', b \notin stacked', b \notin failed'
                 PROVE  /\ \A d \in 1..Len(active') : b \in heap'[d].at => heap'[d].orig[b] = 0
                        /\ mem'[b] # 0 => \E d \in 1..Len(active') : b \in heap'[d].at
      BY DEF UndoInv
    <3>1. b \notin foreign /\ b \notin stacked /\ b \notin failed /\ (b \in p.at => mem[b] = 0)
      BY <2>1
    <3>2. /\ \A d \in 1..Len(active) : b \in heap[d].at => heap[d].orig[b] = 0
          /\ mem[b] # 0 => \E d \in 1..Len(active) : b \in heap[d].at
      BY <3>1 DEF UndoInv
    <3>3. \A d \in 1..Len(active) : d # c /\ d \in Cell /\ d \in 1..Len(active') /\ heap'[d] = heap[d]
      BY <1>0, <2>4, <2>5, <2>6
    <3>4. \A d \in 1..Len(active') : d = c \/ d \in 1..Len(active)
      BY <1>0, <2>4, <2>6
    <3>5. b \in p.at => p.orig[b] = 0
      BY <2>2, <3>1
    <3>6. b \notin p.at => mem'[b] = mem[b]
      BY <2>1 DEF ModifyIn
    <3>7. c \in 1..Len(active')
      BY <1>0, <2>4, <2>6
    <3>8. \A d \in 1..Len(active') : b \in heap'[d].at => heap'[d].orig[b] = 0
      BY <2>5, <3>2, <3>3, <3>4, <3>5
    <3>9. mem'[b] # 0 => \E d \in 1..Len(active') : b \in heap'[d].at
      <4>1. CASE b \in p.at
        BY <4>1, <2>5, <3>7
      <4>2. CASE b \notin p.at
        BY <4>2, <3>2, <3>3, <3>6
      <4> QED BY <4>1, <4>2
    <3> QED BY <3>8, <3>9
  <2> QED BY <2>7, <2>8, <2>9, <2>10
<1>2. ASSUME NEW o \in objs, PatchModify(o) \/ PatchRestore(o)
      PROVE  PatchInv'
  <2> DEFINE p == heap[o.cell]
  <2>1. /\ p # NoPatch /\ mem' \in {mem, ModifyIn(mem, p), RestoreIn(mem, p)}
        /\ UNCHANGED <<heap, active, objs, nPatches, foreign, stacked, failed>>
    BY <1>2 DEF PatchModify, PatchRestore
  <2>2. o.cell \in Cell /\ p \in PatchObj
    BY DEF BytesInv, CellsInv
  <2>3. p.id \in 1..MaxPatches /\ p.at \subseteq Byte /\ p.orig \in [p.at -> 0..Other]
    BY <2>1, <2>2, PatchFields
  <2>4. o.cell \in 1..Len(active)
    BY <1>0, <2>1, <2>2
  <2>5. mem' \in [Byte -> 0..Other]
    <3>1. p.id \in 0..Other
      BY <2>3, PatchAssumption DEF Other
    <3> QED BY <2>1, <2>3, <3>1 DEF BytesInv, ModifyIn, RestoreIn
  <2>6. \A b \in Byte : b \notin p.at => mem'[b] = mem[b]
    BY <2>1 DEF ModifyIn, RestoreIn
  <2>7. UndoInv'
    <3> SUFFICES ASSUME NEW b \in Byte, b \notin foreign, b \notin stacked, b \notin failed
                 PROVE  /\ \A d \in 1..Len(active) : b \in heap[d].at => heap[d].orig[b] = 0
                        /\ mem'[b] # 0 => \E d \in 1..Len(active) : b \in heap[d].at
      BY <2>1 DEF UndoInv
    <3>1. CASE b \in p.at
      BY <2>4, <3>1 DEF UndoInv
    <3>2. CASE b \notin p.at
      BY <2>6, <3>2 DEF UndoInv
    <3> QED BY <3>1, <3>2
  <2> QED BY <2>1, <2>5, <2>7 DEF CellsInv, BytesInv, OwnPatch
<1>3. CASE JsMemoryRestoreAll
  <2>0. PICK lost \in SUBSET (1..Len(active)) :
          /\ mem' = RestoredAll(lost)
          /\ failed' = failed \cup UNION {heap[active[i]].at : i \in lost}
    BY <1>3 DEF JsMemoryRestoreAll
  <2>1. /\ heap' = [d \in Cell |-> NoPatch] /\ active' = << >>
        /\ objs' = {[o EXCEPT !.fresh = FALSE] : o \in objs}
        /\ stacked' = {b \in stacked : mem'[b] # 0}
        /\ UNCHANGED <<nPatches, foreign>>
    BY <1>3 DEF JsMemoryRestoreAll
  <2>2. \A b \in Byte : /\ mem'[b] \in 0..Other
                        /\ b \notin foreign \cup stacked \cup failed' => mem'[b] = 0
    BY <2>0, RestoredBytes
  <2>3. mem' \in [Byte -> 0..Other]
    BY <2>0, <2>2 DEF RestoredAll
  <2>8. failed' \subseteq Byte
    <3>1. \A i \in lost : heap[active[i]].at \subseteq Byte
      <4> SUFFICES ASSUME NEW i \in lost PROVE heap[active[i]].at \subseteq Byte
        OBVIOUS
      <4>1. i \in 1..Len(active) /\ active[i] = i /\ i \in Cell
        BY <1>0 DEF CellsInv
      <4>2. heap[i] \in PatchObj /\ heap[i] # NoPatch
        BY <1>0, <4>1 DEF CellsInv
      <4> QED BY <4>1, <4>2, PatchFields
    <3> QED BY <2>0, <3>1 DEF BytesInv
  <2>4. CellsInv'
    BY <1>0, <2>1 DEF CellsInv, BytesInv, Cell, PatchObj
  <2>5. \A o \in objs' : o \in [cell : Cell, id : 1..MaxPatches, fresh : BOOLEAN] /\ ~o.fresh
    BY <2>1 DEF BytesInv
  <2>6. BytesInv'
    BY <2>1, <2>3, <2>5, <2>8 DEF BytesInv
  <2>7. UndoInv'
    BY <2>1, <2>2 DEF UndoInv
  <2> QED BY <2>4, <2>5, <2>6, <2>7 DEF OwnPatch
<1>4. ASSUME NEW b \in Byte, Write(b)
      PROVE  PatchInv'
  <2>1. /\ mem' = [mem EXCEPT ![b] = Other] /\ foreign' = foreign \cup {b}
        /\ UNCHANGED <<heap, active, objs, nPatches, stacked, failed>>
    BY <1>4 DEF Write
  <2>2. Other \in 0..Other
    BY PatchAssumption DEF Other
  <2>3. BytesInv'
    BY <2>1, <2>2 DEF BytesInv
  <2>4. \A d \in Byte : d # b => mem'[d] = mem[d]
    BY <2>1 DEF BytesInv
  <2>5. UndoInv'
    BY <2>1, <2>4 DEF UndoInv
  <2> QED BY <2>1, <2>3, <2>5 DEF CellsInv, OwnPatch
<1>5. CASE UNCHANGED patchVars
  BY <1>5 DEF patchVars, CellsInv, BytesInv, UndoInv, OwnPatch
<1> QED BY <1>1, <1>2, <1>3, <1>4, <1>5 DEF PatchNext

\* Every reachable state of the patches is well typed and every patch that is listed is
\* allocated, for any number of patches and bytes.
THEOREM PatchTypes == PatchSpec => []PatchTypeOK
<1>1. PatchInv => PatchTypeOK
  <2> SUFFICES ASSUME PatchInv PROVE PatchTypeOK
    OBVIOUS
  <2>1. \A c \in Cell : heap[c].id \in 0..MaxPatches /\ heap[c].at \subseteq Byte
    <3> SUFFICES ASSUME NEW c \in Cell PROVE heap[c].id \in 0..MaxPatches /\ heap[c].at \subseteq Byte
      OBVIOUS
    <3>1. CASE heap[c] = NoPatch
      BY <3>1, PatchAssumption DEF NoPatch
    <3>2. CASE heap[c] # NoPatch
      BY <3>2, PatchFields DEF PatchInv, CellsInv
    <3> QED BY <3>1, <3>2
  <2>2. \A i \in 1..Len(active) : heap[active[i]] # NoPatch
    BY PatchAssumption DEF PatchInv, CellsInv, BytesInv, Cell
  <2> QED BY <2>1, <2>2 DEF PatchInv, BytesInv, PatchTypeOK
<1> QED BY <1>1, InitPatch, NextPatch, PTL DEF PatchSpec

\* An object that restoreAll has not retired acts on the patch it was made for.
THEOREM ObjectsOwnPatch == PatchSpec => []OwnPatch
<1>1. PatchInv => OwnPatch
  BY DEF PatchInv
<1> QED BY <1>1, InitPatch, NextPatch, PTL DEF PatchSpec

\* restoreAll puts back every byte that only patches have written, none over another's and
\* all of them restored when they were dropped, whatever the script did with the patches in between.
THEOREM PatchesReversible == PatchSpec => Reversible
<1> DEFINE Undo == active # << >> /\ active' = << >> =>
                      \A b \in Byte \ (foreign \cup stacked \cup failed') : mem'[b] = 0
<1>1. PatchInv /\ [PatchNext]_patchVars => [Undo]_patchVars
  <2> SUFFICES ASSUME PatchInv, PatchNext, active # << >>, active' = << >>
               PROVE  \A b \in Byte \ (foreign \cup stacked \cup failed') : mem'[b] = 0
    BY DEF patchVars
  <2>1. CASE JsMemoryRestoreAll
    BY <2>1, RestoredBytes DEF JsMemoryRestoreAll
  <2>2. ASSUME NEW lo \in Byte, NEW hi \in Byte, Patch(lo, hi)
        PROVE  FALSE
    BY <2>2, FreeCellNext DEF Patch, PatchInv, CellsInv
  <2> QED BY <2>1, <2>2 DEF PatchNext, PatchModify, PatchRestore, Write
<1> QED BY <1>1, InitPatch, NextPatch, PTL DEF PatchSpec, Reversible

-----------------------------------------------------------------------------
(* Generated classes.                                                      *)

Thunk == 0..NoThunk
Registration == [name : ClassName, cls : RegId, inApp : BOOLEAN, meths : SUBSET Meth,
                 slots : [Meth -> Thunk], live : BOOLEAN]
NativeCall == [at : {"thunk", "lock", "js"}, slot : ThunkSlot, via : Impl \cup {NoImpl},
               impl : Impl \cup {NoImpl}, locked : BOOLEAN]
RunningOp == [what : {"none", "bind", "failed", "done", "dispose", "unbind"},
            id : 0..MaxRegs, todo : SUBSET Meth]

\* The types, with the calls of a thread as a sequence and no more registrations than
\* the bound.
RegTypes ==
    /\ thunkUsed \in 0..MaxThunks
    /\ bindings \in [ThunkSlot -> Impl \cup {NoImpl}]
    /\ natives \in [RegId -> [Meth -> Thunk]]
    /\ regs \in Seq(Registration) /\ Len(regs) <= MaxRegs
    /\ generated \in [ClassName -> 0..MaxRegs]
    /\ nativeCalls \in [RegThr -> Seq(NativeCall)]
    /\ jsOwner \in RegThr \cup {Nobody}
    /\ running \in RunningOp

\* The registration that registerClass or $dispose is at work on is not live; a class is
\* the one its registration defined or an earlier one did.
RunInv ==
    /\ running.what # "none" => running.id \in 1..Len(regs) /\ ~regs[running.id].live
    /\ \A i \in 1..Len(regs) : regs[i].cls <= i

\* A slot that a registration or a method has was handed out.
SlotsUsed ==
    /\ \A i \in 1..Len(regs) : \A m \in Meth : regs[i].slots[m] # NoThunk => regs[i].slots[m] < thunkUsed
    /\ \A c \in RegId : \A m \in Meth : natives[c][m] # NoThunk => natives[c][m] < thunkUsed

\* So was the slot of a call; one that has not copied its binding yet finds the binding
\* its thunk had, or none.
CallOK(f) ==
    /\ f.slot < thunkUsed
    /\ f.at = "thunk" => bindings[f.slot] \in {NoImpl, f.via}
    /\ f.impl \in {NoImpl, f.via}

CallsOwn == \A t \in RegThr : \A i \in 1..Len(nativeCalls[t]) : CallOK(nativeCalls[t][i])

ImplInv == RegTypes /\ RunInv /\ SlotsUsed /\ CallsOwn

\* Registration i has its handle, or is at one of the stages in ws.
AtWork(i, ws) == regs[i].live \/ (running.id = i /\ running.what \in ws)

\* A slot leads to its registration's method or nowhere, and never nowhere while the
\* registration is being bound or until its methods are unregistered.
SlotsBound ==
    \A i \in 1..Len(regs) : \A m \in Meth : regs[i].slots[m] # NoThunk =>
       /\ bindings[regs[i].slots[m]] \in {NoImpl, [reg |-> i, meth |-> m]}
       /\ AtWork(i, {"bind", "done", "dispose"}) => bindings[regs[i].slots[m]] # NoImpl

\* The methods that have no slot yet are the ones still to do.
SlotsGiven ==
    \A i \in 1..Len(regs) :
       /\ AtWork(i, {"done"}) => \A m \in regs[i].meths : regs[i].slots[m] # NoThunk
       /\ running.what = "bind" /\ running.id = i =>
             \A m \in regs[i].meths \ running.todo : regs[i].slots[m] # NoThunk

\* The methods of a class with one registration are registered by it and only while
\* it is live or about to be.
NativesOwn ==
    /\ \A c \in RegId : c > Len(regs) => natives[c] = NoNatives
    /\ \A c \in 1..Len(regs) : Registrations(c) = {c} => \A m \in Meth :
          /\ natives[c][m] # NoThunk => /\ AtWork(c, {"done", "dispose"})
                                       /\ natives[c][m] = regs[c].slots[m]
          /\ AtWork(c, {"done"}) /\ m \in regs[c].meths => natives[c][m] = regs[c].slots[m]

OnlyOfName(i) == \A j \in 1..Len(regs) : regs[j].name = regs[i].name => j = i

\* A name that was given once stands for the class of its registration.
NameKept ==
    \A i \in 1..Len(regs) : AtWork(i, {"bind", "done"}) /\ OnlyOfName(i)
       => generated[regs[i].name] = regs[i].cls

BoundInv == SlotsBound /\ SlotsGiven /\ NativesOwn /\ NameKept

RegInv == ImplInv /\ BoundInv

-----------------------------------------------------------------------------
(* What the updates do.                                                    *)

\* No slot, no implementation and no registration is one of the others.
LEMMA Distinct ==
    /\ MaxThunks \in Nat /\ MaxRegs \in Nat
    /\ NoThunk \notin ThunkSlot /\ ThunkSlot \subseteq Thunk /\ Thunk \ {NoThunk} = ThunkSlot
    /\ NoImpl \notin Impl
    /\ NoNatives \in [Meth -> Thunk]
<1>1. MaxThunks \in Nat /\ MaxRegs \in Nat
  BY RegClassAssumption
<1>2. NoThunk \notin ThunkSlot /\ ThunkSlot \subseteq Thunk /\ Thunk \ {NoThunk} = ThunkSlot
  BY <1>1 DEF NoThunk, ThunkSlot, Thunk
<1>3. NoImpl \notin Impl
  BY <1>1 DEF NoImpl, Impl, RegId
<1>4. NoNatives \in [Meth -> Thunk]
  BY <1>1 DEF NoNatives, NoThunk, Thunk
<1> QED BY <1>1, <1>2, <1>3, <1>4

\* The innermost call of a thread is replaced.
LEMMA CallSet ==
    ASSUME RegTypes, NEW t \in RegThr, nativeCalls[t] # << >>, NEW f \in NativeCall, SetCall(t, f)
    PROVE  /\ nativeCalls' \in [RegThr -> Seq(NativeCall)]
           /\ \A u \in RegThr : \A i \in 1..Len(nativeCalls'[u]) :
                 /\ i \in 1..Len(nativeCalls[u])
                 /\ nativeCalls'[u][i] = f \/ nativeCalls'[u][i] = nativeCalls[u][i]
<1> DEFINE q == [nativeCalls[t] EXCEPT ![Len(nativeCalls[t])] = f]
<1>1. nativeCalls[t] \in Seq(NativeCall) /\ nativeCalls \in [RegThr -> Seq(NativeCall)]
  BY DEF RegTypes
<1>2. nativeCalls' = [nativeCalls EXCEPT ![t] = q]
  BY DEF SetCall
<1>3. q \in Seq(NativeCall) /\ Len(q) = Len(nativeCalls[t])
  BY <1>1
<1>4. \A i \in 1..Len(q) : q[i] = f \/ q[i] = nativeCalls[t][i]
  BY <1>1
<1>5. \A u \in RegThr : nativeCalls'[u] = IF u = t THEN q ELSE nativeCalls[u]
  BY <1>1, <1>2
<1>6. nativeCalls' \in [RegThr -> Seq(NativeCall)]
  BY <1>1, <1>2, <1>3
<1> QED BY <1>3, <1>4, <1>5, <1>6

\* The innermost call of a thread ends.
LEMMA CallEnd ==
    ASSUME RegTypes, NEW t \in RegThr, nativeCalls[t] # << >>, EndCall(t)
    PROVE  /\ nativeCalls' \in [RegThr -> Seq(NativeCall)]
           /\ \A u \in RegThr : \A i \in 1..Len(nativeCalls'[u]) :
                 i \in 1..Len(nativeCalls[u]) /\ nativeCalls'[u][i] = nativeCalls[u][i]
<1> DEFINE q == SubSeq(nativeCalls[t], 1, Len(nativeCalls[t]) - 1)
<1>1. nativeCalls[t] \in Seq(NativeCall) /\ nativeCalls \in [RegThr -> Seq(NativeCall)]
  BY DEF RegTypes
<1>2. nativeCalls' = [nativeCalls EXCEPT ![t] = q]
  BY DEF EndCall
<1>3. Len(nativeCalls[t]) \in Nat /\ Len(nativeCalls[t]) >= 1
  BY <1>1
<1>4. q \in Seq(NativeCall) /\ Len(q) = Len(nativeCalls[t]) - 1
  BY <1>1, Popped1
<1>5. \A i \in 1..Len(q) : i \in 1..Len(nativeCalls[t]) /\ q[i] = nativeCalls[t][i]
  BY <1>1, <1>3, <1>4, Popped1
<1>6. \A u \in RegThr : nativeCalls'[u] = IF u = t THEN q ELSE nativeCalls[u]
  BY <1>1, <1>2
<1>7. nativeCalls' \in [RegThr -> Seq(NativeCall)]
  BY <1>1, <1>2, <1>4
<1> QED BY <1>5, <1>6, <1>7

\* A thread enters a call.
LEMMA CallBegun ==
    ASSUME RegTypes, NEW t \in RegThr, NEW f \in NativeCall,
           nativeCalls' = [nativeCalls EXCEPT ![t] = Append(@, f)]
    PROVE  /\ nativeCalls' \in [RegThr -> Seq(NativeCall)]
           /\ \A u \in RegThr : \A i \in 1..Len(nativeCalls'[u]) :
                 \/ nativeCalls'[u][i] = f
                 \/ i \in 1..Len(nativeCalls[u]) /\ nativeCalls'[u][i] = nativeCalls[u][i]
<1> DEFINE q == Append(nativeCalls[t], f)
<1>1. nativeCalls[t] \in Seq(NativeCall) /\ nativeCalls \in [RegThr -> Seq(NativeCall)]
  BY DEF RegTypes
<1>2. nativeCalls' = [nativeCalls EXCEPT ![t] = q]
  OBVIOUS
<1>3. q \in Seq(NativeCall) /\ Len(q) = Len(nativeCalls[t]) + 1
  BY <1>1
<1>4. \A i \in 1..Len(q) : q[i] = f \/ (i \in 1..Len(nativeCalls[t]) /\ q[i] = nativeCalls[t][i])
  BY <1>1
<1>5. \A u \in RegThr : nativeCalls'[u] = IF u = t THEN q ELSE nativeCalls[u]
  BY <1>1, <1>2
<1>6. nativeCalls' \in [RegThr -> Seq(NativeCall)]
  BY <1>1, <1>2, <1>3
<1> QED BY <1>4, <1>5, <1>6

\* One registration changes.
LEMMA RegSet ==
    ASSUME RegTypes, NEW id \in 1..Len(regs), NEW r \in Registration,
           regs' = [regs EXCEPT ![id] = r]
    PROVE  /\ regs' \in Seq(Registration) /\ Len(regs') = Len(regs) /\ Len(regs) \in Nat
           /\ \A i \in 1..Len(regs) : regs'[i] = IF i = id THEN r ELSE regs[i]
<1>1. regs \in Seq(Registration)
  BY DEF RegTypes
<1> QED BY <1>1

\* One registration is added.
LEMMA RegAdded ==
    ASSUME RegTypes, NEW r \in Registration, regs' = Append(regs, r)
    PROVE  /\ regs' \in Seq(Registration) /\ Len(regs') = Len(regs) + 1 /\ Len(regs) \in Nat
           /\ \A i \in 1..Len(regs) : regs'[i] = regs[i]
           /\ regs'[Len(regs) + 1] = r
<1>1. regs \in Seq(Registration)
  BY DEF RegTypes
<1> QED BY <1>1

\* What is known of a registration.
LEMMA RegFields ==
    ASSUME RegTypes, NEW i \in 1..Len(regs)
    PROVE  /\ regs[i] \in Registration
           /\ regs[i].name \in ClassName /\ regs[i].cls \in RegId /\ regs[i].meths \subseteq Meth
           /\ regs[i].slots \in [Meth -> Thunk] /\ regs[i].live \in BOOLEAN
           /\ Len(regs) \in Nat
<1>1. regs[i] \in Registration /\ Len(regs) \in Nat
  BY DEF RegTypes
<1> QED BY <1>1 DEF Registration

-----------------------------------------------------------------------------
(* Calls run their own implementations.                                    *)

\* Initially nothing is registered and nothing is called.
LEMMA InitReg == RegInit => RegInv
<1> SUFFICES ASSUME RegInit PROVE RegInv
  OBVIOUS
<1>1. Len(regs) = 0 /\ \A t \in RegThr : Len(nativeCalls[t]) = 0
  BY DEF RegInit
<1>2. thunkUsed \in 0..MaxThunks /\ jsOwner \in RegThr \cup {Nobody}
  BY Distinct DEF RegInit
<1>3. bindings \in [ThunkSlot -> Impl \cup {NoImpl}] /\ natives \in [RegId -> [Meth -> Thunk]]
  BY Distinct DEF RegInit
<1>4. regs \in Seq(Registration) /\ Len(regs) <= MaxRegs
  BY <1>1, Distinct DEF RegInit
<1>5. generated \in [ClassName -> 0..MaxRegs] /\ running \in RunningOp
  BY Distinct DEF RegInit, RunningOp, NotRunning
<1>6. nativeCalls \in [RegThr -> Seq(NativeCall)]
  BY DEF RegInit
<1>7. RegTypes
  BY <1>2, <1>3, <1>4, <1>5, <1>6 DEF RegTypes
<1>8. RunInv
  BY <1>1 DEF RunInv, RegInit, NotRunning
<1>9. SlotsUsed
  BY <1>1 DEF SlotsUsed, RegInit, NoNatives
<1>10. CallsOwn
  BY <1>1 DEF CallsOwn
<1>11. SlotsBound /\ SlotsGiven /\ NameKept
  BY <1>1 DEF SlotsBound, SlotsGiven, NameKept
<1>12. NativesOwn
  BY <1>1 DEF NativesOwn, RegInit
<1> QED BY <1>7, <1>8, <1>9, <1>10, <1>11, <1>12 DEF RegInv, ImplInv, BoundInv

\* The operation at work and its registration.
LEMMA RunFields ==
    ASSUME RegTypes
    PROVE  running \in RunningOp /\ running.id \in 0..MaxRegs /\ running.todo \subseteq Meth
  BY DEF RegTypes, RunningOp

\* Removing the bindings of some slots.
LEMMA UnboundSlots ==
    ASSUME RegTypes, NEW sl
    PROVE  /\ Unbound(sl) \in [ThunkSlot -> Impl \cup {NoImpl}]
           /\ \A s \in ThunkSlot : Unbound(sl)[s] \in {NoImpl, bindings[s]}
  BY DEF RegTypes, Unbound

\* As long as slots are only unbound or handed out for the first time, every call keeps
\* what it may run.
LEMMA CallsKept ==
    ASSUME RegTypes, CallsOwn, UNCHANGED nativeCalls, thunkUsed' \in Nat, thunkUsed' >= thunkUsed,
           \A s \in ThunkSlot : s < thunkUsed => bindings'[s] \in {NoImpl, bindings[s]}
    PROVE  CallsOwn'
<1> SUFFICES ASSUME NEW t \in RegThr, NEW i \in 1..Len(nativeCalls[t]), NEW f, f = nativeCalls[t][i]
             PROVE  CallOK(f)'
  BY DEF CallsOwn
<1>1. nativeCalls[t] \in Seq(NativeCall)
  BY DEF RegTypes
<1>2. f \in NativeCall
  BY <1>1
<1>3. f.slot \in ThunkSlot /\ f.slot \in Nat
  BY <1>2, Distinct DEF NativeCall, ThunkSlot
<1>4. CallOK(f)
  BY DEF CallsOwn
<1>5. thunkUsed \in Nat
  BY Distinct DEF RegTypes
<1>6. f.slot < thunkUsed'
  BY <1>3, <1>4, <1>5 DEF CallOK
<1>7. f.at = "thunk" => bindings'[f.slot] \in {NoImpl, f.via}
  BY <1>3, <1>4 DEF CallOK
<1> QED BY <1>4, <1>6, <1>7 DEF CallOK

\* A step of registerClass or $dispose preserves what calls rely on.
LEMMA ScriptImpl ==
    ASSUME ImplInv,
           \/ ScriptBegins \/ ScriptEnds \/ \E t \in RegThr : LoadClass(t)
           \/ \E m \in Meth : AcquireThunk(m)
           \/ RegisterFails \/ RegisterNatives \/ RegisterFailed \/ RegisterDone
           \/ \E t \in RegThr : \E id \in 1..Len(regs) : Dispose(t, id)
           \/ UnregisterNatives \/ EraseBindings
    PROVE  ImplInv'
<1> USE DEF ImplInv
<1>0. /\ thunkUsed \in Nat /\ thunkUsed <= MaxThunks /\ MaxThunks \in Nat /\ MaxRegs \in Nat
      /\ Len(regs) \in Nat
  BY Distinct DEF RegTypes
<1>1. ASSUME ScriptBegins \/ ScriptEnds PROVE ImplInv'
  <2>1. UNCHANGED <<thunkUsed, bindings, natives, regs, generated, nativeCalls, running>>
    BY <1>1 DEF ScriptBegins, ScriptEnds
  <2>2. jsOwner' \in RegThr \cup {Nobody}
    BY <1>1 DEF ScriptBegins, ScriptEnds, RegThr
  <2>3. RegTypes'
    BY <2>1, <2>2 DEF RegTypes
  <2>4. RunInv' /\ SlotsUsed'
    BY <2>1 DEF RunInv, SlotsUsed
  <2>5. CallsOwn'
    BY <1>0, <2>1, CallsKept
  <2> QED BY <2>3, <2>4, <2>5
<1>2. ASSUME NEW t \in RegThr, LoadClass(t) PROVE ImplInv'
  <2>1. PICK k \in ClassName, ms \in SUBSET Meth \ {{}}, inject \in BOOLEAN :
          /\ regs' = Append(regs, [name |-> k, cls |-> Resolved(k), inApp |-> inject \/ InApp(k) # {},
                                   meths |-> ms, slots |-> NoNatives, live |-> FALSE])
          /\ generated' = [generated EXCEPT ![k] = Resolved(k)]
          /\ running' = [what |-> "bind", id |-> Len(regs) + 1, todo |-> ms]
    BY <1>2 DEF LoadClass, RegisterGeneratedClass
  <2>2. Len(regs) < MaxRegs /\ UNCHANGED <<thunkUsed, bindings, natives, nativeCalls, jsOwner>>
    BY <1>2 DEF LoadClass
  <2>3. Resolved(k) \in 1..(Len(regs) + 1)
    <3>1. CASE InApp(k) = {}
      BY <3>1, <1>0 DEF Resolved
    <3>2. CASE InApp(k) # {}
      <4>1. PICK i \in 1..Len(regs) : i = CHOOSE j \in InApp(k) : TRUE
        BY <3>2 DEF InApp
      <4>2. regs[i].cls \in RegId /\ regs[i].cls <= i
        BY <4>1, RegFields DEF RunInv
      <4>3. Resolved(k) = regs[i].cls
        BY <3>2, <4>1 DEF Resolved
      <4> QED BY <4>1, <4>2, <4>3, <1>0 DEF RegId
    <3> QED BY <3>1, <3>2
  <2> DEFINE r == [name |-> k, cls |-> Resolved(k), inApp |-> inject \/ InApp(k) # {},
                   meths |-> ms, slots |-> NoNatives, live |-> FALSE]
  <2>4. Resolved(k) \in RegId /\ Resolved(k) \in 0..MaxRegs
    BY <1>0, <2>2, <2>3 DEF RegId
  <2>5. r \in Registration
    BY <2>4, Distinct DEF Registration
  <2>6. r.cls = Resolved(k) /\ r.slots = NoNatives /\ r.live = FALSE
    OBVIOUS
  <2> HIDE DEF r
  <2>7. /\ regs' \in Seq(Registration) /\ Len(regs') = Len(regs) + 1
        /\ \A i \in 1..Len(regs) : regs'[i] = regs[i]
        /\ regs'[Len(regs) + 1] = r
    BY <2>1, <2>5, RegAdded DEF r
  <2>8. running' \in RunningOp /\ running'.id = Len(regs) + 1
    BY <1>0, <2>1, <2>2 DEF RunningOp
  <2>9. generated' \in [ClassName -> 0..MaxRegs]
    BY <2>1, <2>4 DEF RegTypes
  <2>10. RegTypes'
    BY <1>0, <2>2, <2>7, <2>8, <2>9 DEF RegTypes
  <2>11. RunInv'
    BY <1>0, <2>3, <2>6, <2>7, <2>8 DEF RunInv
  <2>12. \A m \in Meth : r.slots[m] = NoThunk
    BY <2>6 DEF NoNatives
  <2>13. SlotsUsed'
    BY <1>0, <2>2, <2>7, <2>12 DEF SlotsUsed
  <2>14. CallsOwn'
    BY <1>0, <2>2, CallsKept
  <2> QED BY <2>10, <2>11, <2>13, <2>14
<1>3. ASSUME NEW m \in Meth, AcquireThunk(m) PROVE ImplInv'
  <2>1. /\ running.what = "bind" /\ m \in running.todo /\ thunkUsed < MaxThunks
        /\ thunkUsed' = thunkUsed + 1
        /\ bindings' = [bindings EXCEPT ![thunkUsed] = [reg |-> running.id, meth |-> m]]
        /\ running' = [running EXCEPT !.todo = @ \ {m}]
        /\ UNCHANGED <<natives, generated, nativeCalls, jsOwner>>
    BY <1>3 DEF AcquireThunk, NextThunk
  <2>2. running.id \in 1..Len(regs) /\ ~This.live
    BY <2>1 DEF RunInv, This
  <2> DEFINE r == [This EXCEPT !.slots = [@ EXCEPT ![m] = thunkUsed]]
  <2>3. This \in Registration /\ This.slots \in [Meth -> Thunk]
    BY <2>2, RegFields DEF This
  <2>4. thunkUsed \in Thunk /\ thunkUsed \in ThunkSlot
    BY <1>0, <2>1 DEF Thunk, NoThunk, ThunkSlot
  <2>5. [This.slots EXCEPT ![m] = thunkUsed] \in [Meth -> Thunk]
    BY <2>3, <2>4
  <2>6. r \in Registration
    BY <2>3, <2>5 DEF Registration
  <2>7. regs' = [regs EXCEPT ![running.id] = r]
    BY <1>3 DEF AcquireThunk, NextThunk, This
  <2>8. r.slots = [This.slots EXCEPT ![m] = thunkUsed] /\ r.live = This.live /\ r.cls = This.cls
    BY <2>3 DEF Registration
  <2> HIDE DEF r
  <2>9. /\ regs' \in Seq(Registration) /\ Len(regs') = Len(regs)
        /\ \A i \in 1..Len(regs) : regs'[i] = IF i = running.id THEN r ELSE regs[i]
    BY <2>2, <2>6, <2>7, RegSet
  <2>10. running.id \in RegId
    BY <1>0, <2>2 DEF RegId, RegTypes
  <2>11. bindings' \in [ThunkSlot -> Impl \cup {NoImpl}]
    <3>1. [reg |-> running.id, meth |-> m] \in Impl
      BY <2>10 DEF Impl
    <3> QED BY <2>1, <3>1 DEF RegTypes
  <2>12. running' \in RunningOp /\ running'.id = running.id /\ running'.what = "bind"
    BY <2>1, RunFields DEF RunningOp
  <2>13. RegTypes'
    BY <1>0, <2>1, <2>9, <2>11, <2>12 DEF RegTypes
  <2>14. RunInv'
    BY <2>2, <2>8, <2>9, <2>12 DEF RunInv, This
  <2>15. \A i \in 1..Len(regs') : \A n \in Meth : regs'[i].slots[n] # NoThunk => regs'[i].slots[n] < thunkUsed'
    <3> SUFFICES ASSUME NEW i \in 1..Len(regs), NEW n \in Meth, regs'[i].slots[n] # NoThunk
                 PROVE  regs'[i].slots[n] < thunkUsed + 1
      BY <2>1, <2>9
    <3>1. CASE i = running.id /\ n = m
      BY <3>1, <1>0, <2>3, <2>8, <2>9
    <3>2. CASE ~(i = running.id /\ n = m)
      <4>1. regs'[i].slots[n] = regs[i].slots[n]
        BY <3>2, <2>3, <2>8, <2>9 DEF This
      <4>2. regs[i].slots[n] \in Thunk /\ regs[i].slots[n] < thunkUsed
        BY <4>1, RegFields DEF SlotsUsed
      <4> QED BY <4>1, <4>2, <1>0 DEF Thunk, NoThunk
    <3> QED BY <3>1, <3>2
  <2>16. \A c \in RegId : \A n \in Meth : natives'[c][n] # NoThunk => natives'[c][n] < thunkUsed'
    <3> SUFFICES ASSUME NEW c \in RegId, NEW n \in Meth, natives[c][n] # NoThunk
                 PROVE  natives[c][n] < thunkUsed + 1
      BY <2>1
    <3>1. natives[c][n] \in Thunk /\ natives[c][n] < thunkUsed
      BY DEF SlotsUsed, RegTypes
    <3> QED BY <3>1, <1>0 DEF Thunk, NoThunk
  <2>17. SlotsUsed'
    BY <2>15, <2>16 DEF SlotsUsed
  <2>18. \A s \in ThunkSlot : s < thunkUsed => bindings'[s] = bindings[s]
    BY <1>0, <2>1 DEF RegTypes, ThunkSlot
  <2>19. CallsOwn'
    BY <1>0, <2>1, <2>18, CallsKept
  <2> QED BY <2>13, <2>14, <2>17, <2>19
<1>4. ASSUME RegisterFails PROVE ImplInv'
  <2>1. /\ UNCHANGED <<thunkUsed, bindings, natives, regs, generated, nativeCalls, jsOwner>>
        /\ running' = [running EXCEPT !.what = "failed"] /\ running.what = "bind"
    BY <1>4 DEF RegisterFails
  <2>2. running' \in RunningOp /\ running'.id = running.id
    BY <2>1, RunFields DEF RunningOp
  <2>3. RegTypes'
    BY <2>1, <2>2 DEF RegTypes
  <2>4. RunInv' /\ SlotsUsed'
    BY <2>1, <2>2 DEF RunInv, SlotsUsed
  <2>5. CallsOwn'
    BY <1>0, <2>1, CallsKept
  <2> QED BY <2>3, <2>4, <2>5
<1>5. ASSUME RegisterNatives \/ UnregisterNatives PROVE ImplInv'
  <2>1. PICK sl \in [Meth -> Thunk], w \in {"done", "failed", "unbind"} :
          /\ natives' = [natives EXCEPT ![This.cls] = sl]
          /\ running' = [running EXCEPT !.what = w]
          /\ \A m \in Meth : sl[m] = NoThunk \/ sl[m] < thunkUsed
    <3>0. running.what # "none"
      BY <1>5 DEF RegisterNatives, UnregisterNatives
    <3>1. running.id \in 1..Len(regs)
      BY <3>0 DEF RunInv
    <3>2. This.cls \in RegId /\ This.slots \in [Meth -> Thunk]
      BY <3>1, RegFields DEF This
    <3>3. CASE RegisterNatives
      <4>1. PICK set : /\ natives' = [natives EXCEPT ![This.cls] =
                                [m \in Meth |-> IF m \in set THEN This.slots[m] ELSE natives[This.cls][m]]]
                       /\ running' = [running EXCEPT !.what = IF set = This.meths THEN "done" ELSE "failed"]
        BY <3>2, <3>3 DEF RegisterNatives, RegTypes
      <4> DEFINE sl == [m \in Meth |-> IF m \in set THEN This.slots[m] ELSE natives[This.cls][m]]
                 w == IF set = This.meths THEN "done" ELSE "failed"
      <4>2. natives[This.cls] \in [Meth -> Thunk]
        BY <3>2 DEF RegTypes
      <4>3. sl \in [Meth -> Thunk] /\ w \in {"done", "failed", "unbind"}
        BY <3>2, <4>2
      <4>4. \A m \in Meth : sl[m] = NoThunk \/ sl[m] < thunkUsed
        BY <3>1, <3>2 DEF SlotsUsed, This
      <4> QED BY <4>1, <4>3, <4>4
    <3>4. CASE UnregisterNatives
      <4>1. \A m \in Meth : NoNatives[m] = NoThunk
        BY DEF NoNatives
      <4> QED BY <3>4, <4>1, Distinct DEF UnregisterNatives
    <3> QED BY <1>5, <3>3, <3>4
  <2>2. /\ UNCHANGED <<thunkUsed, bindings, regs, generated, nativeCalls, jsOwner>>
        /\ running.what # "none"
    BY <1>5 DEF RegisterNatives, UnregisterNatives
  <2>3. This.cls \in RegId
    BY <2>2, RegFields DEF This, RunInv
  <2>4. natives' \in [RegId -> [Meth -> Thunk]]
    BY <2>1, <2>3 DEF RegTypes
  <2>5. running' \in RunningOp /\ running'.id = running.id
    BY <2>1, RunFields DEF RunningOp
  <2>6. RegTypes'
    BY <2>2, <2>4, <2>5 DEF RegTypes
  <2>7. RunInv'
    BY <2>2, <2>5 DEF RunInv
  <2>8. \A c \in RegId : natives'[c] = IF c = This.cls THEN sl ELSE natives[c]
    BY <2>1, <2>3 DEF RegTypes
  <2>9. SlotsUsed'
    BY <2>1, <2>2, <2>8 DEF SlotsUsed
  <2>10. CallsOwn'
    BY <1>0, <2>2, CallsKept
  <2> QED BY <2>6, <2>7, <2>9, <2>10
<1>6. ASSUME RegisterFailed \/ EraseBindings PROVE ImplInv'
  <2>1. /\ bindings' = Unbound(This.slots) /\ running' = NotRunning
        /\ generated' = [generated EXCEPT ![This.name] = 0]
        /\ UNCHANGED <<thunkUsed, natives, regs, nativeCalls, jsOwner>>
    BY <1>6 DEF RegisterFailed, EraseBindings, UnregisterGeneratedClass
  <2>2. running' \in RunningOp /\ running'.what = "none"
    BY <1>0, <2>1 DEF RunningOp, NotRunning
  <2>3. generated' \in [ClassName -> 0..MaxRegs]
    <3>1. 0 \in 0..MaxRegs /\ generated \in [ClassName -> 0..MaxRegs]
      BY <1>0 DEF RegTypes
    <3>2. generated' = [generated EXCEPT ![This.name] = 0]
      BY <2>1
    <3> HIDE DEF ImplInv
    <3> QED BY <3>1, <3>2
  <2>4. RegTypes'
    BY <2>1, <2>2, <2>3, UnboundSlots DEF RegTypes
  <2>5. RunInv' /\ SlotsUsed'
    BY <2>1, <2>2 DEF RunInv, SlotsUsed
  <2>6. CallsOwn'
    BY <1>0, <2>1, UnboundSlots, CallsKept
  <2> QED BY <2>4, <2>5, <2>6
<1>7. ASSUME NEW id \in 1..Len(regs), NEW b \in BOOLEAN, regs' = [regs EXCEPT ![id].live = b],
             running' \in RunningOp, running'.what # "none" => running'.id = id /\ b = FALSE,
             UNCHANGED <<thunkUsed, bindings, natives, generated, nativeCalls, jsOwner>>
      PROVE  ImplInv'
  <2> DEFINE r == [regs[id] EXCEPT !.live = b]
  <2>1. regs[id] \in Registration
    BY <1>7, RegFields
  <2>2. r \in Registration /\ r.slots = regs[id].slots /\ r.cls = regs[id].cls /\ r.live = b
    BY <1>7, <2>1 DEF Registration
  <2>3. regs' = [regs EXCEPT ![id] = r]
    BY <1>7
  <2> HIDE DEF r
  <2>4. /\ regs' \in Seq(Registration) /\ Len(regs') = Len(regs)
        /\ \A i \in 1..Len(regs) : regs'[i] = IF i = id THEN r ELSE regs[i]
    BY <1>7, <2>2, <2>3, RegSet
  <2>5. RegTypes'
    BY <1>7, <2>4 DEF RegTypes
  <2>6. RunInv'
    BY <1>7, <2>2, <2>4 DEF RunInv
  <2>7. SlotsUsed'
    BY <1>7, <2>2, <2>4 DEF SlotsUsed
  <2>8. CallsOwn'
    BY <1>0, <1>7, CallsKept
  <2> QED BY <2>5, <2>6, <2>7, <2>8
<1>8. ASSUME RegisterDone PROVE ImplInv'
  <2>1. running.id \in 1..Len(regs)
    BY <1>8 DEF RegisterDone, RunInv
  <2>2. running' = NotRunning /\ NotRunning \in RunningOp /\ NotRunning.what = "none"
    BY <1>0, <1>8 DEF RegisterDone, NotRunning, RunningOp
  <2> QED BY <1>7, <1>8, <2>1, <2>2 DEF RegisterDone
<1>9. ASSUME NEW t \in RegThr, NEW id \in 1..Len(regs), Dispose(t, id) PROVE ImplInv'
  <2>1. running' = [what |-> "dispose", id |-> id, todo |-> {}]
    BY <1>9 DEF Dispose
  <2>2. id \in 0..MaxRegs
    BY <1>0 DEF RegTypes
  <2>3. running' \in RunningOp /\ running'.id = id
    BY <2>1, <2>2 DEF RunningOp
  <2> QED BY <1>7, <1>9, <2>3 DEF Dispose
<1> QED BY <1>1, <1>2, <1>3, <1>4, <1>5, <1>6, <1>8, <1>9

\* A step that leaves all but the calls and the lock alone.
LEMMA NativeCallStep ==
    ASSUME ImplInv, UNCHANGED <<thunkUsed, bindings, natives, regs, generated, running>>,
           jsOwner' \in RegThr \cup {Nobody},
           nativeCalls' \in [RegThr -> Seq(NativeCall)],
           \A u \in RegThr : \A i \in 1..Len(nativeCalls'[u]) : CallOK(nativeCalls'[u][i])
    PROVE  ImplInv'
<1>1. RegTypes'
  BY DEF ImplInv, RegTypes
<1>2. RunInv' /\ SlotsUsed'
  BY DEF ImplInv, RunInv, SlotsUsed
<1>3. CallsOwn'
  BY DEF CallsOwn, CallOK
<1> QED BY <1>1, <1>2, <1>3 DEF ImplInv

\* A step of a native call preserves it as well.
LEMMA CallImpl ==
    ASSUME ImplInv,
           \/ \E t \in RegThr, c \in RegId, m \in Meth : CallNative(t, c, m)
           \/ \E t \in RegThr : NativeDispatch(t) \/ NativeLock(t) \/ NativeReturn(t)
    PROVE  ImplInv'
<1>0. RegTypes /\ SlotsUsed /\ CallsOwn
  BY DEF ImplInv
<1>1. \A u \in RegThr : \A i \in 1..Len(nativeCalls[u]) :
         nativeCalls[u][i] \in NativeCall /\ CallOK(nativeCalls[u][i])
  BY <1>0 DEF CallsOwn, RegTypes
<1>2. \A t \in RegThr : nativeCalls[t] # << >> => Innermost(t) \in NativeCall /\ CallOK(Innermost(t))
  <2> SUFFICES ASSUME NEW t \in RegThr, nativeCalls[t] # << >>
               PROVE  Innermost(t) \in NativeCall /\ CallOK(Innermost(t))
    OBVIOUS
  <2>1. nativeCalls[t] \in Seq(NativeCall)
    BY <1>0 DEF RegTypes
  <2>2. Len(nativeCalls[t]) \in 1..Len(nativeCalls[t])
    BY <2>1
  <2> QED BY <1>1, <2>2 DEF Innermost
<1>3. jsOwner \in RegThr \cup {Nobody}
  BY <1>0 DEF RegTypes
<1>4. ASSUME NEW t \in RegThr, NEW c \in RegId, NEW m \in Meth, CallNative(t, c, m) PROVE ImplInv'
  <2> DEFINE s == natives[c][m]
             f == [at |-> "thunk", slot |-> s, via |-> bindings[s], impl |-> NoImpl, locked |-> FALSE]
  <2>1. /\ s # NoThunk /\ nativeCalls' = [nativeCalls EXCEPT ![t] = Append(@, f)]
        /\ UNCHANGED <<thunkUsed, bindings, natives, regs, generated, jsOwner, running>>
    BY <1>4 DEF CallNative
  <2>2. s \in Thunk /\ s < thunkUsed
    BY <1>0, <2>1 DEF RegTypes, SlotsUsed
  <2>3. s \in ThunkSlot
    BY <2>1, <2>2, Distinct
  <2>4. bindings[s] \in Impl \cup {NoImpl}
    BY <1>0, <2>3 DEF RegTypes
  <2>5. f \in NativeCall
    BY <2>3, <2>4 DEF NativeCall
  <2>6. CallOK(f)
    BY <2>2 DEF CallOK
  <2> HIDE DEF s, f
  <2>7. /\ nativeCalls' \in [RegThr -> Seq(NativeCall)]
        /\ \A u \in RegThr : \A i \in 1..Len(nativeCalls'[u]) : CallOK(nativeCalls'[u][i])
    <3>1. nativeCalls' = [nativeCalls EXCEPT ![t] = Append(@, f)]
      BY <2>1
    <3>2. /\ nativeCalls' \in [RegThr -> Seq(NativeCall)]
          /\ \A u \in RegThr : \A i \in 1..Len(nativeCalls'[u]) :
                \/ nativeCalls'[u][i] = f
                \/ i \in 1..Len(nativeCalls[u]) /\ nativeCalls'[u][i] = nativeCalls[u][i]
      BY <1>0, <2>5, <3>1, CallBegun
    <3> QED BY <1>1, <2>6, <3>2
  <2> QED BY <1>3, <2>1, <2>7, NativeCallStep
<1>5. ASSUME NEW t \in RegThr, nativeCalls[t] # << >>, EndCall(t), jsOwner' \in RegThr \cup {Nobody},
             UNCHANGED <<thunkUsed, bindings, natives, regs, generated, running>>
      PROVE  ImplInv'
  <2>1. /\ nativeCalls' \in [RegThr -> Seq(NativeCall)]
        /\ \A u \in RegThr : \A i \in 1..Len(nativeCalls'[u]) : CallOK(nativeCalls'[u][i])
    BY <1>0, <1>1, <1>5, CallEnd
  <2> QED BY <1>5, <2>1, NativeCallStep
<1>6. ASSUME NEW t \in RegThr, nativeCalls[t] # << >>, jsOwner' \in RegThr \cup {Nobody},
             NEW f \in NativeCall, CallOK(f), SetCall(t, f),
             UNCHANGED <<thunkUsed, bindings, natives, regs, generated, running>>
      PROVE  ImplInv'
  <2>1. /\ nativeCalls' \in [RegThr -> Seq(NativeCall)]
        /\ \A u \in RegThr : \A i \in 1..Len(nativeCalls'[u]) : CallOK(nativeCalls'[u][i])
    BY <1>0, <1>1, <1>6, CallSet
  <2> QED BY <1>6, <2>1, NativeCallStep
<1>7. ASSUME NEW t \in RegThr, NativeDispatch(t) PROVE ImplInv'
  <2> DEFINE g == Innermost(t)
             b == bindings[g.slot]
             f == [g EXCEPT !.at = "lock", !.impl = b]
  <2>1. /\ nativeCalls[t] # << >> /\ g.at = "thunk"
        /\ UNCHANGED <<thunkUsed, bindings, natives, regs, generated, jsOwner, running>>
    BY <1>7 DEF NativeDispatch
  <2>2. g \in NativeCall /\ CallOK(g)
    BY <1>2, <2>1
  <2>3. CASE b = NoImpl
    BY <1>3, <1>5, <1>7, <2>1, <2>3 DEF NativeDispatch
  <2>4. CASE b # NoImpl
    <3>1. SetCall(t, f)
      BY <1>7, <2>4 DEF NativeDispatch
    <3>2. g.slot \in ThunkSlot /\ b = g.via
      BY <2>1, <2>2, <2>4 DEF CallOK, NativeCall
    <3>3. b \in Impl \cup {NoImpl}
      BY <1>0, <3>2 DEF RegTypes
    <3>4. f \in NativeCall /\ f.at = "lock" /\ f.impl = b /\ f.slot = g.slot /\ f.via = g.via
      BY <2>2, <3>3 DEF NativeCall
    <3>5. CallOK(f)
      BY <2>2, <3>2, <3>4 DEF CallOK
    <3> HIDE DEF f
    <3> QED BY <1>3, <1>6, <2>1, <3>1, <3>4, <3>5
  <2> QED BY <2>3, <2>4
<1>8. ASSUME NEW t \in RegThr, NativeLock(t) PROVE ImplInv'
  <2> DEFINE g == Innermost(t)
  <2>1. /\ nativeCalls[t] # << >>
        /\ UNCHANGED <<thunkUsed, bindings, natives, regs, generated, running>>
    BY <1>8 DEF NativeLock
  <2>2. g \in NativeCall /\ CallOK(g)
    BY <1>2, <2>1
  <2>3. PICK l \in BOOLEAN : SetCall(t, [g EXCEPT !.at = "js", !.locked = l])
    <3>1. [g EXCEPT !.at = "js"] = [g EXCEPT !.at = "js", !.locked = g.locked] /\ g.locked \in BOOLEAN
      BY <2>2 DEF NativeCall
    <3> QED BY <1>8, <3>1 DEF NativeLock
  <2> DEFINE f == [g EXCEPT !.at = "js", !.locked = l]
  <2>4. f \in NativeCall /\ f.at = "js" /\ f.impl = g.impl /\ f.slot = g.slot /\ f.via = g.via
    BY <2>2 DEF NativeCall
  <2>5. CallOK(f)
    BY <2>2, <2>4 DEF CallOK
  <2>6. jsOwner' \in RegThr \cup {Nobody}
    BY <1>3, <1>8 DEF NativeLock
  <2>7. SetCall(t, f)
    BY <2>3
  <2> HIDE DEF f
  <2> QED BY <1>6, <2>1, <2>4, <2>5, <2>6, <2>7
<1>9. ASSUME NEW t \in RegThr, NativeReturn(t) PROVE ImplInv'
  BY <1>3, <1>5, <1>9 DEF NativeReturn
<1> QED BY <1>4, <1>7, <1>8, <1>9

\* Every step preserves the types and what calls rely on.
LEMMA NextImpl == ImplInv /\ [RegNext]_regVars => ImplInv'
<1> SUFFICES ASSUME ImplInv, [RegNext]_regVars PROVE ImplInv'
  OBVIOUS
<1>1. CASE UNCHANGED regVars
  <2>1. RegTypes' /\ RunInv'
    BY <1>1 DEF ImplInv, RegTypes, RunInv, regVars
  <2>2. SlotsUsed' /\ CallsOwn'
    BY <1>1 DEF ImplInv, SlotsUsed, CallsOwn, CallOK, regVars
  <2> QED BY <2>1, <2>2 DEF ImplInv
<1> QED BY <1>1, ScriptImpl, CallImpl DEF RegNext

\* The tables of thunks and bindings, the registrations and the calls are of their types:
\* slots within kMaxThunks, registrations within the table.
THEOREM RegistrationTypes == RegSpec => []RegTypeOK
<1>1. RegInit => ImplInv
  BY InitReg DEF RegInv
<1>2. ImplInv => RegTypeOK
  <2> SUFFICES ASSUME RegTypes PROVE RegTypeOK
    BY DEF ImplInv
  <2>1. \A t \in RegThr : \A i \in 1..Len(nativeCalls[t]) : nativeCalls[t][i] \in NativeCall
    BY DEF RegTypes
  <2> QED BY <2>1 DEF RegTypes, RegTypeOK, NativeCall, Registration, RunningOp, Thunk
<1> QED BY <1>1, <1>2, NextImpl, PTL DEF RegSpec

\* A native method of a generated class never runs another registration's or another
\* method's implementation (ArtpiNativeDispatch copies what AcquireThunk's slot led to
\* when the thunk was entered, or nothing): slots are handed out once.
THEOREM OwnImplementation == RegSpec => []OwnImpl
<1>1. RegInit => ImplInv
  BY InitReg DEF RegInv
<1>2. ImplInv => OwnImpl
  BY DEF ImplInv, CallsOwn, CallOK, OwnImpl
<1> QED BY <1>1, <1>2, NextImpl, PTL DEF RegSpec

-----------------------------------------------------------------------------
(* Every native method that ART would call is bound.                       *)

\* Setting a registration's handle leaves the rest of it alone.
LEMMA LiveSet ==
    ASSUME RegTypes, NEW id \in 1..Len(regs), NEW b \in BOOLEAN, regs' = [regs EXCEPT ![id].live = b]
    PROVE  /\ Len(regs') = Len(regs)
           /\ \A i \in 1..Len(regs) :
                 /\ regs'[i].name = regs[i].name /\ regs'[i].cls = regs[i].cls
                 /\ regs'[i].meths = regs[i].meths /\ regs'[i].slots = regs[i].slots
                 /\ regs'[i].live = IF i = id THEN b ELSE regs[i].live
<1> DEFINE r == [regs[id] EXCEPT !.live = b]
<1>1. regs[id] \in Registration
  BY RegFields
<1>2. /\ r \in Registration /\ r.name = regs[id].name /\ r.cls = regs[id].cls
      /\ r.meths = regs[id].meths /\ r.slots = regs[id].slots /\ r.live = b
  BY <1>1 DEF Registration
<1>3. regs' = [regs EXCEPT ![id] = r]
  OBVIOUS
<1> HIDE DEF r
<1>4. Len(regs') = Len(regs) /\ \A i \in 1..Len(regs) : regs'[i] = IF i = id THEN r ELSE regs[i]
  BY <1>2, <1>3, RegSet
<1> QED BY <1>2, <1>4

\* Giving a method its slot leaves the rest of the registration alone.
LEMMA SlotSet ==
    ASSUME RegTypes, NEW id \in 1..Len(regs), NEW m \in Meth, NEW s \in Thunk,
           regs' = [regs EXCEPT ![id].slots[m] = s]
    PROVE  /\ Len(regs') = Len(regs)
           /\ \A i \in 1..Len(regs) :
                 /\ regs'[i].name = regs[i].name /\ regs'[i].cls = regs[i].cls
                 /\ regs'[i].meths = regs[i].meths /\ regs'[i].live = regs[i].live
                 /\ \A n \in Meth : regs'[i].slots[n] = IF i = id /\ n = m THEN s ELSE regs[i].slots[n]
<1> DEFINE r == [regs[id] EXCEPT !.slots = [@ EXCEPT ![m] = s]]
<1>1. regs[id] \in Registration /\ regs[id].slots \in [Meth -> Thunk]
  BY RegFields
<1>2. [regs[id].slots EXCEPT ![m] = s] \in [Meth -> Thunk]
  BY <1>1
<1>3. /\ r \in Registration /\ r.name = regs[id].name /\ r.cls = regs[id].cls
      /\ r.meths = regs[id].meths /\ r.live = regs[id].live
      /\ r.slots = [regs[id].slots EXCEPT ![m] = s]
  BY <1>1, <1>2 DEF Registration
<1>4. regs' = [regs EXCEPT ![id] = r]
  OBVIOUS
<1> HIDE DEF r
<1>5. Len(regs') = Len(regs) /\ \A i \in 1..Len(regs) : regs'[i] = IF i = id THEN r ELSE regs[i]
  BY <1>3, <1>4, RegSet
<1>6. \A n \in Meth : r.slots[n] = IF n = m THEN s ELSE regs[id].slots[n]
  BY <1>1, <1>3
<1> QED BY <1>3, <1>5, <1>6

\* Names and classes are given for good.
SameClasses ==
    /\ Len(regs') = Len(regs)
    /\ \A i \in 1..Len(regs) : regs'[i].name = regs[i].name /\ regs'[i].cls = regs[i].cls

\* Then a class has the registrations it had, and a name too.
LEMMA ClassesKept ==
    ASSUME SameClasses
    PROVE  /\ \A c : Registrations(c)' = Registrations(c)
           /\ \A i \in 1..Len(regs) : OnlyOfName(i)' <=> OnlyOfName(i)
  BY DEF SameClasses, Registrations, OnlyOfName

\* The slots of a binding that is in use: what NativesBound says of the methods.
LEMMA SlotOf ==
    ASSUME RegTypes, NEW i \in 1..Len(regs), NEW m \in Meth, regs[i].slots[m] # NoThunk
    PROVE  regs[i].slots[m] \in ThunkSlot
<1>1. regs[i].slots[m] \in Thunk
  BY RegFields
<1> QED BY <1>1, Distinct

\* Loading a class.
LEMMA LoadBound ==
    ASSUME RegInv, NEW t \in RegThr, LoadClass(t)
    PROVE  BoundInv'
<1> DEFINE n == Len(regs) + 1
<1>0. RegTypes /\ RunInv /\ BoundInv /\ Len(regs) \in Nat /\ MaxRegs \in Nat
  BY Distinct DEF RegInv, ImplInv, RegTypes
<1>1. PICK k \in ClassName, ms \in SUBSET Meth \ {{}}, inject \in BOOLEAN :
        /\ regs' = Append(regs, [name |-> k, cls |-> Resolved(k), inApp |-> inject \/ InApp(k) # {},
                                 meths |-> ms, slots |-> NoNatives, live |-> FALSE])
        /\ generated' = [generated EXCEPT ![k] = Resolved(k)]
        /\ running' = [what |-> "bind", id |-> n, todo |-> ms]
  BY DEF LoadClass, RegisterGeneratedClass
<1>2. UNCHANGED <<thunkUsed, bindings, natives>> /\ running = NotRunning
  BY DEF LoadClass, InJs
<1> DEFINE r == [name |-> k, cls |-> Resolved(k), inApp |-> inject \/ InApp(k) # {},
                 meths |-> ms, slots |-> NoNatives, live |-> FALSE]
<1>3. /\ Len(regs') = n /\ \A i \in 1..Len(regs) : regs'[i] = regs[i]
      /\ regs'[n] = r
  BY <1>0, <1>1 DEF RegTypes
<1>4. /\ r.name = k /\ r.cls = Resolved(k) /\ r.meths = ms /\ r.slots = NoNatives /\ r.live = FALSE
      /\ \A m \in Meth : r.slots[m] = NoThunk
  BY DEF NoNatives
<1> HIDE DEF r
<1>5. running'.what = "bind" /\ running'.id = n /\ running'.todo = ms /\ running.what = "none"
  BY <1>1, <1>2 DEF NotRunning
<1>6. 1..Len(regs') = 1..Len(regs) \cup {n} /\ n \notin 1..Len(regs) /\ n \in Nat
  BY <1>0, <1>3
<1> HIDE DEF n
<1>7. \A i \in 1..Len(regs) : \A ws : AtWork(i, ws)' => regs[i].live
  BY <1>3, <1>5, <1>6 DEF AtWork
<1>8. \A i \in 1..Len(regs) : \A ws : regs[i].live => AtWork(i, ws) /\ AtWork(i, ws)'
  BY <1>3, <1>6 DEF AtWork
<1>9. SlotsBound'
  <2> SUFFICES ASSUME NEW i \in 1..Len(regs'), NEW m \in Meth, regs'[i].slots[m] # NoThunk
               PROVE  /\ bindings[regs'[i].slots[m]] \in {NoImpl, [reg |-> i, meth |-> m]}
                      /\ AtWork(i, {"bind", "done", "dispose"})' => bindings[regs'[i].slots[m]] # NoImpl
    BY <1>2 DEF SlotsBound
  <2>1. i \in 1..Len(regs)
    BY <1>3, <1>4, <1>6
  <2> QED BY <1>0, <1>3, <1>7, <1>8, <2>1 DEF BoundInv, SlotsBound
<1>10. SlotsGiven'
  <2> SUFFICES ASSUME NEW i \in 1..Len(regs')
               PROVE  /\ AtWork(i, {"done"})' => \A m \in regs'[i].meths : regs'[i].slots[m] # NoThunk
                      /\ i = n => \A m \in regs'[i].meths \ ms : regs'[i].slots[m] # NoThunk
    BY <1>5 DEF SlotsGiven
  <2>1. CASE i \in 1..Len(regs)
    BY <1>0, <1>3, <1>6, <1>7, <1>8, <2>1 DEF BoundInv, SlotsGiven
  <2>2. CASE i = n
    BY <1>3, <1>4, <1>5, <2>2 DEF AtWork
  <2> QED BY <1>6, <2>1, <2>2
<1>11. NativesOwn'
  <2>1. \A c \in RegId : c > Len(regs') => natives'[c] = NoNatives
    BY <1>0, <1>2, <1>3 DEF BoundInv, NativesOwn, n, RegId
  <2>2. ASSUME NEW c \in 1..Len(regs'), Registrations(c)' = {c}, NEW m \in Meth
        PROVE  /\ natives'[c][m] # NoThunk => /\ AtWork(c, {"done", "dispose"})'
                                             /\ natives'[c][m] = regs'[c].slots[m]
               /\ AtWork(c, {"done"})' /\ m \in regs'[c].meths => natives'[c][m] = regs'[c].slots[m]
    <3>1. CASE c \in 1..Len(regs)
      <4>1. \A i \in Registrations(c) : i \in Registrations(c)'
        BY <1>3, <1>6 DEF Registrations
      <4>2. c \in Registrations(c)
        BY <1>3, <2>2, <3>1 DEF Registrations
      <4>3. Registrations(c) = {c}
        BY <2>2, <4>1, <4>2
      <4>4. AtWork(c, {"done", "dispose"}) => regs[c].live
        BY <1>5 DEF AtWork
      <4> QED BY <1>0, <1>2, <1>3, <1>7, <1>8, <3>1, <4>3, <4>4 DEF BoundInv, NativesOwn
    <3>2. CASE c = n
      <4>1. c \in RegId /\ c > Len(regs)
        BY <1>0, <3>2 DEF n, RegId, LoadClass
      <4>2. natives'[c][m] = NoThunk
        BY <1>0, <1>2, <4>1 DEF BoundInv, NativesOwn, NoNatives
      <4>3. ~AtWork(c, {"done"})'
        BY <1>3, <1>4, <1>5, <3>2 DEF AtWork
      <4> QED BY <4>2, <4>3
    <3> QED BY <1>6, <3>1, <3>2
  <2> QED BY <2>1, <2>2 DEF NativesOwn
<1>12. NameKept'
  <2> SUFFICES ASSUME NEW i \in 1..Len(regs'), AtWork(i, {"bind", "done"})', OnlyOfName(i)'
               PROVE  generated'[regs'[i].name] = regs'[i].cls
    BY DEF NameKept
  <2>1. CASE i \in 1..Len(regs)
    <3>1. regs[i].live /\ AtWork(i, {"bind", "done"})
      BY <1>7, <1>8, <2>1
    <3>2. OnlyOfName(i)
      BY <1>3, <1>6, <2>1 DEF OnlyOfName
    <3>3. regs[i].name # k
      BY <1>3, <1>4, <1>6, <2>1 DEF OnlyOfName
    <3>4. regs[i].name \in ClassName
      BY <1>0, <2>1, RegFields
    <3>5. generated[regs[i].name] = regs[i].cls
      BY <1>0, <2>1, <3>1, <3>2 DEF BoundInv, NameKept
    <3> QED BY <1>0, <1>1, <1>3, <2>1, <3>3, <3>4, <3>5 DEF RegTypes
  <2>2. CASE i = n
    BY <1>0, <1>1, <1>3, <1>4, <2>2 DEF RegTypes
  <2> QED BY <1>6, <2>1, <2>2
<1> QED BY <1>9, <1>10, <1>11, <1>12 DEF BoundInv

\* Giving a method its thunk and its binding.
LEMMA AcquireBound ==
    ASSUME RegInv, NEW m \in Meth, AcquireThunk(m)
    PROVE  BoundInv'
<1> DEFINE id == running.id
<1>0. RegTypes /\ RunInv /\ SlotsUsed /\ BoundInv /\ MaxThunks \in Nat /\ thunkUsed \in Nat
  BY Distinct DEF RegInv, ImplInv, RegTypes
<1>1. /\ running.what = "bind" /\ m \in running.todo /\ thunkUsed < MaxThunks
      /\ bindings' = [bindings EXCEPT ![thunkUsed] = [reg |-> id, meth |-> m]]
      /\ running' = [running EXCEPT !.todo = @ \ {m}]
      /\ regs' = [regs EXCEPT ![id].slots[m] = thunkUsed]
      /\ UNCHANGED <<natives, generated>>
  BY DEF AcquireThunk, NextThunk
<1>2. id \in 1..Len(regs) /\ ~regs[id].live
  BY <1>0, <1>1 DEF RunInv
<1>3. running'.what = "bind" /\ running'.id = id /\ running'.todo = running.todo \ {m}
  BY <1>0, <1>1, RunFields DEF RunningOp
<1>4. thunkUsed \in ThunkSlot /\ thunkUsed \in Thunk /\ thunkUsed # NoThunk
  BY <1>0, <1>1 DEF ThunkSlot, Thunk, NoThunk
<1>5. /\ Len(regs') = Len(regs)
      /\ \A i \in 1..Len(regs) :
            /\ regs'[i].name = regs[i].name /\ regs'[i].cls = regs[i].cls
            /\ regs'[i].meths = regs[i].meths /\ regs'[i].live = regs[i].live
            /\ \A n \in Meth : regs'[i].slots[n] = IF i = id /\ n = m THEN thunkUsed ELSE regs[i].slots[n]
  BY <1>0, <1>1, <1>2, <1>4, SlotSet
<1>6. /\ \A c : Registrations(c)' = Registrations(c)
      /\ \A i \in 1..Len(regs) : OnlyOfName(i)' <=> OnlyOfName(i)
  BY <1>5, ClassesKept DEF SameClasses
<1>7. \A i \in 1..Len(regs) : \A ws : AtWork(i, ws)' <=> AtWork(i, ws)
  BY <1>1, <1>3, <1>5 DEF AtWork
<1>8. /\ bindings'[thunkUsed] = [reg |-> id, meth |-> m] /\ [reg |-> id, meth |-> m] # NoImpl
      /\ \A s \in ThunkSlot : s < thunkUsed => bindings'[s] = bindings[s]
  <2>1. bindings'[thunkUsed] = [reg |-> id, meth |-> m]
    BY <1>0, <1>1, <1>4 DEF RegTypes
  <2>2. \A s \in ThunkSlot : s < thunkUsed => bindings'[s] = bindings[s]
    BY <1>0, <1>1 DEF RegTypes, ThunkSlot
  <2>3. [reg |-> id, meth |-> m] # NoImpl
    BY <1>2 DEF NoImpl
  <2> QED BY <2>1, <2>2, <2>3
<1> HIDE DEF id
<1>9. SlotsBound'
  <2> SUFFICES ASSUME NEW i \in 1..Len(regs), NEW n \in Meth, regs'[i].slots[n] # NoThunk
               PROVE  /\ bindings'[regs'[i].slots[n]] \in {NoImpl, [reg |-> i, meth |-> n]}
                      /\ AtWork(i, {"bind", "done", "dispose"})' => bindings'[regs'[i].slots[n]] # NoImpl
    BY <1>5 DEF SlotsBound
  <2>1. CASE i = id /\ n = m
    BY <1>5, <1>8, <2>1
  <2>2. CASE ~(i = id /\ n = m)
    <3>1. regs'[i].slots[n] = regs[i].slots[n]
      BY <1>5, <2>2
    <3>2. regs[i].slots[n] \in ThunkSlot
      BY <1>0, <3>1, SlotOf
    <3>3. regs[i].slots[n] < thunkUsed
      BY <1>0, <3>1 DEF SlotsUsed
    <3>4. bindings'[regs'[i].slots[n]] = bindings[regs[i].slots[n]]
      BY <1>8, <3>1, <3>2, <3>3
    <3> QED BY <1>0, <1>7, <3>1, <3>4 DEF BoundInv, SlotsBound
  <2> QED BY <2>1, <2>2
<1>10. SlotsGiven'
  <2> SUFFICES ASSUME NEW i \in 1..Len(regs)
               PROVE  /\ AtWork(i, {"done"})' => \A n \in regs'[i].meths : regs'[i].slots[n] # NoThunk
                      /\ i = id => \A n \in regs'[i].meths \ running'.todo : regs'[i].slots[n] # NoThunk
    BY <1>3, <1>5 DEF SlotsGiven
  <2>1. regs[i].meths \subseteq Meth
    BY <1>0, RegFields
  <2>2. AtWork(i, {"done"})' => i # id /\ AtWork(i, {"done"})
    BY <1>1, <1>2, <1>7 DEF AtWork, id
  <2>3. AtWork(i, {"done"})' => \A n \in regs'[i].meths : regs'[i].slots[n] # NoThunk
    BY <1>0, <1>5, <2>1, <2>2 DEF BoundInv, SlotsGiven
  <2>4. i = id => \A n \in regs'[i].meths \ running'.todo : regs'[i].slots[n] # NoThunk
    BY <1>0, <1>1, <1>3, <1>4, <1>5, <2>1 DEF BoundInv, SlotsGiven, id
  <2> QED BY <2>3, <2>4
<1>11. NativesOwn'
  <2>1. \A c \in RegId : c > Len(regs') => natives'[c] = NoNatives
    BY <1>0, <1>1, <1>5 DEF BoundInv, NativesOwn
  <2>2. ASSUME NEW c \in 1..Len(regs), Registrations(c)' = {c}, NEW n \in Meth
        PROVE  /\ natives'[c][n] # NoThunk => /\ AtWork(c, {"done", "dispose"})'
                                             /\ natives'[c][n] = regs'[c].slots[n]
               /\ AtWork(c, {"done"})' /\ n \in regs'[c].meths => natives'[c][n] = regs'[c].slots[n]
    <3>1. Registrations(c) = {c}
      BY <1>6, <2>2
    <3>2. AtWork(c, {"done", "dispose"}) \/ AtWork(c, {"done"}) => c # id
      BY <1>1, <1>2 DEF AtWork, id
    <3> QED BY <1>0, <1>1, <1>5, <1>7, <3>1, <3>2 DEF BoundInv, NativesOwn
  <2> QED BY <1>5, <2>1, <2>2 DEF NativesOwn
<1>12. NameKept'
  BY <1>0, <1>1, <1>5, <1>6, <1>7 DEF BoundInv, NameKept
<1> QED BY <1>9, <1>10, <1>11, <1>12 DEF BoundInv

\* The steps that change neither a registration's slots nor its class: what is left to
\* show when it is known who is at which stage before and after.
LEMMA StageBound ==
    ASSUME RegInv, UNCHANGED <<bindings, natives, generated>>, SameClasses,
           \A i \in 1..Len(regs) : regs'[i].meths = regs[i].meths /\ regs'[i].slots = regs[i].slots,
           running'.what = "bind" => running' = running,
           \A i \in 1..Len(regs) :
              /\ AtWork(i, {"bind", "done", "dispose"})' => AtWork(i, {"bind", "done", "dispose"})
              /\ AtWork(i, {"bind", "done"})' => AtWork(i, {"bind", "done"})
              /\ AtWork(i, {"done"})' => AtWork(i, {"done"})
              /\ AtWork(i, {"done", "dispose"}) => AtWork(i, {"done", "dispose"})'
    PROVE  BoundInv'
<1>0. BoundInv /\ Len(regs') = Len(regs)
  BY DEF RegInv, SameClasses
<1>1. /\ \A c : Registrations(c)' = Registrations(c)
      /\ \A i \in 1..Len(regs) : OnlyOfName(i)' <=> OnlyOfName(i)
  BY ClassesKept
<1>2. SlotsBound'
  BY <1>0 DEF BoundInv, SlotsBound
<1>3. SlotsGiven'
  BY <1>0 DEF BoundInv, SlotsGiven
<1>4. NativesOwn'
  BY <1>0, <1>1 DEF BoundInv, NativesOwn
<1>5. NameKept'
  BY <1>0, <1>1 DEF BoundInv, NameKept, SameClasses
<1> QED BY <1>2, <1>3, <1>4, <1>5 DEF BoundInv

\* Setting and removing the methods that ART calls.
LEMMA NativesSetBound ==
    ASSUME RegInv, RegisterNatives \/ UnregisterNatives
    PROVE  BoundInv'
<1> DEFINE id == running.id
           cl == regs[id].cls
<1>0. RegTypes /\ RunInv /\ BoundInv /\ Len(regs) \in Nat
  BY DEF RegInv, ImplInv, RegTypes
<1>1. UNCHANGED <<bindings, regs, generated>> /\ running.what \in {"bind", "dispose"}
  BY DEF RegisterNatives, UnregisterNatives
<1>2. id \in 1..Len(regs) /\ ~regs[id].live
  BY <1>0, <1>1 DEF RunInv
<1>3. cl \in RegId /\ cl <= id /\ regs[id].slots \in [Meth -> Thunk] /\ regs[id].meths \subseteq Meth
  BY <1>0, <1>2, RegFields DEF RunInv
<1>4. natives[cl] \in [Meth -> Thunk]
  BY <1>0, <1>3 DEF RegTypes
<1>5. PICK sl, w : /\ natives' = [natives EXCEPT ![cl] = sl] /\ running' = [running EXCEPT !.what = w]
                   /\ \/ /\ running.what = "bind" /\ running.todo = {} /\ w \in {"done", "failed"}
                         /\ cl = id => /\ w = "done"
                                       /\ sl = [m \in Meth |-> IF m \in regs[id].meths THEN regs[id].slots[m]
                                                               ELSE natives[cl][m]]
                      \/ running.what = "dispose" /\ w = "unbind" /\ sl = NoNatives
  <2>1. CASE UnregisterNatives
    BY <2>1 DEF UnregisterNatives, This
  <2>2. CASE RegisterNatives
    <3>1. PICK set \in SUBSET (regs[id].meths \cap regs[cl].meths) :
             /\ regs[id].meths \cap regs[cl].meths = regs[id].meths => set = regs[id].meths \cap regs[cl].meths
             /\ natives' = [natives EXCEPT ![cl] =
                    [m \in Meth |-> IF m \in set THEN regs[id].slots[m] ELSE natives[cl][m]]]
             /\ running' = [running EXCEPT !.what = IF set = regs[id].meths THEN "done" ELSE "failed"]
      BY <1>0, <1>3, <2>2 DEF RegisterNatives, This, RegTypes
    <3>2. cl = id => set = regs[id].meths
      BY <3>1
    <3>3. running.what = "bind" /\ running.todo = {}
      BY <2>2 DEF RegisterNatives
    <3> QED BY <3>1, <3>2, <3>3
  <2> QED BY <2>1, <2>2
<1>6. running'.what = w /\ running'.id = id
  BY <1>0, <1>5, RunFields DEF RunningOp
<1>7. \A c \in RegId : natives'[c] = IF c = cl THEN sl ELSE natives[c]
  BY <1>0, <1>3, <1>5 DEF RegTypes
<1>8. /\ \A c : Registrations(c)' = Registrations(c)
      /\ \A i \in 1..Len(regs) : OnlyOfName(i)' <=> OnlyOfName(i)
  BY <1>1, ClassesKept DEF SameClasses
<1>9. \A i \in 1..Len(regs) : \A ws : i # id => (AtWork(i, ws)' <=> AtWork(i, ws))
  BY <1>1, <1>6 DEF AtWork, id
<1>10. \A c \in 1..Len(regs) : Registrations(c) = {c} => (c = cl <=> c = id)
  <2> SUFFICES ASSUME NEW c \in 1..Len(regs), Registrations(c) = {c} PROVE c = cl <=> c = id
    OBVIOUS
  <2>1. regs[c].cls = c
    BY DEF Registrations
  <2>2. c = cl => id \in Registrations(c)
    BY <1>2 DEF Registrations
  <2> QED BY <2>1, <2>2
<1> HIDE DEF id, cl
<1>11. SlotsBound'
  <2> SUFFICES ASSUME NEW i \in 1..Len(regs), NEW m \in Meth, regs[i].slots[m] # NoThunk,
                      AtWork(i, {"bind", "done", "dispose"})'
               PROVE  AtWork(i, {"bind", "done", "dispose"})
    BY <1>0, <1>1 DEF BoundInv, SlotsBound
  <2> QED BY <1>1, <1>2, <1>5, <1>6 DEF AtWork, id
<1>12. SlotsGiven'
  <2> SUFFICES ASSUME NEW i \in 1..Len(regs), AtWork(i, {"done"})'
               PROVE  \A m \in regs[i].meths : regs[i].slots[m] # NoThunk
    BY <1>1, <1>5, <1>6 DEF SlotsGiven
  <2>1. CASE i # id
    BY <1>0, <1>9, <2>1 DEF BoundInv, SlotsGiven
  <2>2. CASE i = id
    <3>1. w = "done"
      BY <1>1, <1>2, <1>6, <2>2 DEF AtWork, id
    <3>2. running.what = "bind" /\ running.todo = {} /\ running.id = i
      BY <1>5, <2>2, <3>1 DEF id
    <3> QED BY <1>0, <3>2 DEF BoundInv, SlotsGiven
  <2> QED BY <2>1, <2>2
<1>13. NativesOwn'
  <2>1. \A c \in RegId : c > Len(regs) => c # cl
    BY <1>0, <1>2, <1>3 DEF RegId
  <2>2. \A c \in RegId : c > Len(regs) => natives'[c] = NoNatives
    BY <1>0, <1>7, <2>1 DEF BoundInv, NativesOwn
  <2>3. ASSUME NEW c \in 1..Len(regs), Registrations(c) = {c}, NEW m \in Meth
        PROVE  /\ natives'[c][m] # NoThunk => /\ AtWork(c, {"done", "dispose"})'
                                             /\ natives'[c][m] = regs[c].slots[m]
               /\ AtWork(c, {"done"})' /\ m \in regs[c].meths => natives'[c][m] = regs[c].slots[m]
    <3>0. c \in RegId
      BY <1>0, <2>3, Distinct DEF RegTypes, RegId
    <3>1. CASE c # id
      <4>1. natives'[c] = natives[c]
        BY <1>7, <1>10, <2>3, <3>0, <3>1
      <4> QED BY <1>0, <1>9, <2>3, <3>1, <4>1 DEF BoundInv, NativesOwn
    <3>2. CASE c = id
      <4>1. natives'[c] = sl /\ cl = id
        BY <1>7, <1>10, <2>3, <3>0, <3>2
      <4>2. CASE w = "unbind"
        <5>1. natives'[c][m] = NoThunk
          BY <1>5, <4>1, <4>2 DEF NoNatives
        <5>2. ~AtWork(c, {"done"})'
          BY <1>1, <1>2, <1>6, <3>2, <4>2 DEF AtWork, id
        <5> QED BY <5>1, <5>2
      <4>3. CASE w # "unbind"
        <5>1. /\ running.what = "bind" /\ w = "done"
              /\ sl = [n \in Meth |-> IF n \in regs[id].meths THEN regs[id].slots[n] ELSE natives[cl][n]]
          BY <1>5, <4>1, <4>3
        <5>2. ~AtWork(c, {"done", "dispose"}) /\ AtWork(c, {"done", "dispose"})'
          BY <1>1, <1>2, <1>6, <3>2, <5>1 DEF AtWork, id
        <5>3. natives[c][m] = NoThunk
          BY <1>0, <2>3, <5>2 DEF BoundInv, NativesOwn
        <5>4. natives'[c][m] = IF m \in regs[c].meths THEN regs[c].slots[m] ELSE NoThunk
          BY <3>2, <4>1, <5>1, <5>3
        <5> QED BY <5>2, <5>4
      <4> QED BY <4>2, <4>3
    <3> QED BY <3>1, <3>2
  <2> QED BY <1>1, <1>8, <2>2, <2>3 DEF NativesOwn
<1>14. NameKept'
  <2> SUFFICES ASSUME NEW i \in 1..Len(regs), AtWork(i, {"bind", "done"})', OnlyOfName(i)
               PROVE  generated[regs[i].name] = regs[i].cls
    BY <1>1, <1>8 DEF NameKept
  <2>1. AtWork(i, {"bind", "done"})
    BY <1>1, <1>2, <1>5, <1>6 DEF AtWork, id
  <2> QED BY <1>0, <2>1 DEF BoundInv, NameKept
<1> QED BY <1>11, <1>12, <1>13, <1>14 DEF BoundInv

\* Removing the bindings and the name.
LEMMA UnboundBound ==
    ASSUME RegInv, RegisterFailed \/ EraseBindings
    PROVE  BoundInv'
<1> DEFINE id == running.id
<1>0. RegTypes /\ RunInv /\ BoundInv
  BY DEF RegInv, ImplInv
<1>1. /\ bindings' = Unbound(regs[id].slots) /\ running' = NotRunning
      /\ generated' = [generated EXCEPT ![regs[id].name] = 0]
      /\ UNCHANGED <<natives, regs>> /\ running.what \in {"failed", "unbind"}
  BY DEF RegisterFailed, EraseBindings, UnregisterGeneratedClass, This
<1>2. id \in 1..Len(regs) /\ ~regs[id].live
  BY <1>0, <1>1 DEF RunInv
<1>3. running'.what = "none"
  BY <1>1 DEF NotRunning
<1>4. \A i \in 1..Len(regs) : \A ws \in SUBSET {"bind", "done", "dispose"} :
         /\ AtWork(i, ws)' <=> regs[i].live
         /\ AtWork(i, ws) <=> regs[i].live
  BY <1>1, <1>3 DEF AtWork
<1>5. /\ \A c : Registrations(c)' = Registrations(c)
      /\ \A i \in 1..Len(regs) : OnlyOfName(i)' <=> OnlyOfName(i)
  BY <1>1, ClassesKept DEF SameClasses
<1>6. SlotsBound'
  <2> SUFFICES ASSUME NEW i \in 1..Len(regs), NEW m \in Meth, regs[i].slots[m] # NoThunk
               PROVE  /\ bindings'[regs[i].slots[m]] \in {NoImpl, [reg |-> i, meth |-> m]}
                      /\ regs[i].live => bindings'[regs[i].slots[m]] # NoImpl
    BY <1>1, <1>4 DEF SlotsBound
  <2> DEFINE s == regs[i].slots[m]
  <2>1. s \in ThunkSlot
    BY <1>0, SlotOf
  <2>2. bindings[s] \in {NoImpl, [reg |-> i, meth |-> m]} /\ (regs[i].live => bindings[s] # NoImpl)
    BY <1>0, <1>4 DEF BoundInv, SlotsBound
  <2>3. bindings'[s] \in {NoImpl, bindings[s]}
    BY <1>0, <1>1, <2>1, UnboundSlots
  <2>4. ASSUME regs[i].live PROVE bindings'[s] = bindings[s]
    <3>1. ASSUME NEW n \in Meth, regs[id].slots[n] = s PROVE FALSE
      <4>1. bindings[s] \in {NoImpl, [reg |-> id, meth |-> n]}
        BY <1>0, <1>2, <3>1 DEF BoundInv, SlotsBound
      <4>2. [reg |-> id, meth |-> n] = [reg |-> i, meth |-> m]
        BY <2>2, <2>4, <4>1
      <4>3. id = i
        BY <4>2
      <4> QED BY <1>2, <2>4, <4>3
    <3> QED BY <1>1, <2>1, <3>1 DEF Unbound
  <2> QED BY <2>2, <2>3, <2>4
<1>7. SlotsGiven'
  BY <1>0, <1>1, <1>3, <1>4 DEF BoundInv, SlotsGiven
<1>8. NativesOwn'
  BY <1>0, <1>1, <1>4, <1>5 DEF BoundInv, NativesOwn
<1>9. NameKept'
  <2> SUFFICES ASSUME NEW i \in 1..Len(regs), regs[i].live, OnlyOfName(i)
               PROVE  generated'[regs[i].name] = regs[i].cls
    BY <1>1, <1>4, <1>5 DEF NameKept
  <2>1. regs[id].name # regs[i].name
    BY <1>2 DEF OnlyOfName
  <2>2. regs[i].name \in ClassName
    BY <1>0, RegFields
  <2>3. generated[regs[i].name] = regs[i].cls
    BY <1>0, <1>4 DEF BoundInv, NameKept
  <2> QED BY <1>0, <1>1, <2>1, <2>2, <2>3 DEF RegTypes
<1> QED BY <1>6, <1>7, <1>8, <1>9 DEF BoundInv

\* Every step preserves what binds methods to implementations.
LEMMA NextBound == RegInv /\ [RegNext]_regVars => BoundInv'
<1> SUFFICES ASSUME RegInv, [RegNext]_regVars PROVE BoundInv'
  OBVIOUS
<1>0. RegTypes /\ RunInv
  BY DEF RegInv, ImplInv
<1>1. ASSUME UNCHANGED <<thunkUsed, bindings, natives, regs, generated, running>> PROVE BoundInv'
  <2>1. SameClasses
    BY <1>1 DEF SameClasses
  <2>2. \A i, ws : AtWork(i, ws)' <=> AtWork(i, ws)
    BY <1>1 DEF AtWork
  <2> QED BY <1>1, <2>1, <2>2, StageBound
<1>2. CASE UNCHANGED regVars
  BY <1>1, <1>2 DEF regVars
<1>3. CASE ScriptBegins \/ ScriptEnds
  BY <1>1, <1>3 DEF ScriptBegins, ScriptEnds
<1>4. CASE RegisterFails
  <2>1. /\ UNCHANGED <<bindings, natives, regs, generated>>
        /\ running' = [running EXCEPT !.what = "failed"] /\ running.what = "bind"
    BY <1>4 DEF RegisterFails
  <2>2. running'.what = "failed" /\ running'.id = running.id
    BY <1>0, <2>1, RunFields DEF RunningOp
  <2>3. SameClasses
    BY <2>1 DEF SameClasses
  <2> QED BY <2>1, <2>2, <2>3, StageBound DEF AtWork
<1>5. CASE RegisterDone
  <2>1. /\ UNCHANGED <<bindings, natives, generated>> /\ running' = NotRunning
        /\ running.what = "done" /\ running.id \in 1..Len(regs)
        /\ regs' = [regs EXCEPT ![running.id].live = TRUE]
    BY <1>0, <1>5 DEF RegisterDone, RunInv
  <2>2. running'.what = "none"
    BY <2>1 DEF NotRunning
  <2>3. /\ Len(regs') = Len(regs)
        /\ \A i \in 1..Len(regs) :
              /\ regs'[i].name = regs[i].name /\ regs'[i].cls = regs[i].cls
              /\ regs'[i].meths = regs[i].meths /\ regs'[i].slots = regs[i].slots
              /\ regs'[i].live = IF i = running.id THEN TRUE ELSE regs[i].live
    BY <1>0, <2>1, LiveSet
  <2>4. SameClasses
    BY <2>3 DEF SameClasses
  <2>5. \A i \in 1..Len(regs) :
              /\ AtWork(i, {"bind", "done", "dispose"})' => AtWork(i, {"bind", "done", "dispose"})
              /\ AtWork(i, {"bind", "done"})' => AtWork(i, {"bind", "done"})
              /\ AtWork(i, {"done"})' => AtWork(i, {"done"})
              /\ AtWork(i, {"done", "dispose"}) => AtWork(i, {"done", "dispose"})'
    BY <2>1, <2>2, <2>3 DEF AtWork
  <2> QED BY <2>1, <2>2, <2>3, <2>4, <2>5, StageBound
<1>6. ASSUME NEW t \in RegThr, NEW id \in 1..Len(regs), Dispose(t, id) PROVE BoundInv'
  <2>1. /\ UNCHANGED <<bindings, natives, generated>> /\ running = NotRunning /\ regs[id].live
        /\ running' = [what |-> "dispose", id |-> id, todo |-> {}]
        /\ regs' = [regs EXCEPT ![id].live = FALSE]
    BY <1>6 DEF Dispose, InJs
  <2>2. running'.what = "dispose" /\ running'.id = id /\ running.what = "none"
    BY <2>1 DEF NotRunning
  <2>3. /\ Len(regs') = Len(regs)
        /\ \A i \in 1..Len(regs) :
              /\ regs'[i].name = regs[i].name /\ regs'[i].cls = regs[i].cls
              /\ regs'[i].meths = regs[i].meths /\ regs'[i].slots = regs[i].slots
              /\ regs'[i].live = IF i = id THEN FALSE ELSE regs[i].live
    BY <1>0, <2>1, LiveSet
  <2>4. SameClasses
    BY <2>3 DEF SameClasses
  <2>5. \A i \in 1..Len(regs) :
              /\ AtWork(i, {"bind", "done", "dispose"})' => AtWork(i, {"bind", "done", "dispose"})
              /\ AtWork(i, {"bind", "done"})' => AtWork(i, {"bind", "done"})
              /\ AtWork(i, {"done"})' => AtWork(i, {"done"})
              /\ AtWork(i, {"done", "dispose"}) => AtWork(i, {"done", "dispose"})'
    BY <2>1, <2>2, <2>3 DEF AtWork
  <2> QED BY <2>1, <2>2, <2>3, <2>4, <2>5, StageBound
<1>7. ASSUME NEW t \in RegThr, NEW c \in RegId, NEW m \in Meth, CallNative(t, c, m) PROVE BoundInv'
  BY <1>1, <1>7 DEF CallNative
<1>8. ASSUME NEW t \in RegThr, NativeDispatch(t) \/ NativeLock(t) \/ NativeReturn(t) PROVE BoundInv'
  BY <1>1, <1>8 DEF NativeDispatch, NativeLock, NativeReturn
<1> QED BY <1>2, <1>3, <1>4, <1>5, <1>6, <1>7, <1>8, LoadBound, AcquireBound, NativesSetBound,
           UnboundBound DEF RegNext

-----------------------------------------------------------------------------
(* Calls on their way from the thunk to the dispatcher.                     *)

\* A binding is of some registration.
BindingsGiven == \A s \in ThunkSlot : bindings[s] # NoImpl => bindings[s].reg \in 1..Len(regs)

\* A call that has entered by a thunk finds the binding its thunk had, or its
\* registration is over.
CallBound(f) ==
    f.at = "thunk" /\ f.via # NoImpl =>
       f.via.reg \in 1..Len(regs) /\ (bindings[f.slot] = f.via \/ Over(f.via.reg))

CallsBound == \A t \in RegThr : \A i \in 1..Len(nativeCalls[t]) : CallBound(nativeCalls[t][i])

FlightInv == BindingsGiven /\ CallsBound

\* What a step may do to the registrations for the calls' sake: none is taken away or
\* comes back.
Onwards ==
    /\ Len(regs') \in Nat /\ Len(regs') >= Len(regs)
    /\ \A i \in 1..Len(regs) : Over(i) => Over(i)'

\* Steps of registerClass and $dispose do not bring a registration back.
LEMMA OverForGood ==
    ASSUME RegInv,
           \/ ScriptBegins \/ ScriptEnds \/ \E t \in RegThr : LoadClass(t)
           \/ \E m \in Meth : AcquireThunk(m)
           \/ RegisterFails \/ RegisterNatives \/ RegisterFailed \/ RegisterDone
           \/ \E t \in RegThr : \E id \in 1..Len(regs) : Dispose(t, id)
           \/ UnregisterNatives \/ EraseBindings
    PROVE  Onwards
<1>0. RegTypes /\ RunInv /\ Len(regs) \in Nat /\ thunkUsed \in Nat
  BY Distinct DEF RegInv, ImplInv, RegTypes
<1>1. ASSUME UNCHANGED regs, running'.id = running.id PROVE Onwards
  BY <1>0, <1>1 DEF Onwards, Over
<1>2. CASE ScriptBegins \/ ScriptEnds
  BY <1>1, <1>2 DEF ScriptBegins, ScriptEnds
<1>3. CASE RegisterFails
  <2>1. running'.id = running.id /\ UNCHANGED regs
    BY <1>0, <1>3, RunFields DEF RegisterFails, RunningOp
  <2> QED BY <1>1, <2>1
<1>4. CASE RegisterNatives
  <2>1. PICK w : running' = [running EXCEPT !.what = w]
    BY <1>4 DEF RegisterNatives
  <2>2. running'.id = running.id /\ UNCHANGED regs
    BY <1>0, <1>4, <2>1, RunFields DEF RegisterNatives, RunningOp
  <2> QED BY <1>1, <2>2
<1>5. CASE UnregisterNatives
  <2>1. running'.id = running.id /\ UNCHANGED regs
    BY <1>0, <1>5, RunFields DEF UnregisterNatives, RunningOp
  <2> QED BY <1>1, <2>1
<1>6. CASE RegisterFailed \/ EraseBindings
  <2>1. running'.id = 0 /\ UNCHANGED regs
    BY <1>6 DEF RegisterFailed, EraseBindings, NotRunning
  <2> QED BY <1>0, <2>1 DEF Onwards, Over
<1>7. ASSUME NEW m \in Meth, AcquireThunk(m) PROVE Onwards
  <2>1. /\ running'.id = running.id /\ running.id \in 1..Len(regs)
        /\ regs' = [regs EXCEPT ![running.id].slots[m] = thunkUsed]
    BY <1>0, <1>7, RunFields DEF AcquireThunk, NextThunk, RunningOp, RunInv
  <2>2. thunkUsed \in Thunk
    BY <1>0, <1>7, Distinct DEF AcquireThunk, Thunk, NoThunk
  <2>3. Len(regs') = Len(regs) /\ \A i \in 1..Len(regs) : regs'[i].live = regs[i].live
    BY <1>0, <2>1, <2>2, SlotSet
  <2> QED BY <1>0, <2>1, <2>3 DEF Onwards, Over
<1>8. CASE RegisterDone
  <2>1. /\ running' = NotRunning /\ running.id \in 1..Len(regs)
        /\ regs' = [regs EXCEPT ![running.id].live = TRUE]
    BY <1>0, <1>8 DEF RegisterDone, RunInv
  <2>2. /\ Len(regs') = Len(regs) /\ running'.id = 0
        /\ \A i \in 1..Len(regs) : regs'[i].live = IF i = running.id THEN TRUE ELSE regs[i].live
    BY <1>0, <2>1, LiveSet DEF NotRunning
  <2> QED BY <1>0, <2>1, <2>2 DEF Onwards, Over
<1>9. ASSUME NEW t \in RegThr, NEW id \in 1..Len(regs), Dispose(t, id) PROVE Onwards
  <2>1. /\ running'.id = id /\ regs[id].live
        /\ regs' = [regs EXCEPT ![id].live = FALSE]
    BY <1>9 DEF Dispose
  <2>2. /\ Len(regs') = Len(regs)
        /\ \A i \in 1..Len(regs) : regs'[i].live = IF i = id THEN FALSE ELSE regs[i].live
    BY <1>0, <2>1, LiveSet
  <2> QED BY <1>0, <2>1, <2>2 DEF Onwards, Over
<1>10. ASSUME NEW t \in RegThr, LoadClass(t) PROVE Onwards
  <2>1. PICK r : regs' = Append(regs, r)
    BY <1>10 DEF LoadClass
  <2>2. running'.id = Len(regs) + 1
    BY <1>10 DEF LoadClass
  <2>3. Len(regs') = Len(regs) + 1 /\ \A i \in 1..Len(regs) : regs'[i] = regs[i]
    BY <1>0, <2>1 DEF RegTypes
  <2> QED BY <1>0, <2>2, <2>3 DEF Onwards, Over
<1> QED BY <1>2, <1>3, <1>4, <1>5, <1>6, <1>7, <1>8, <1>9, <1>10

\* What such a step does to the bindings: it hands out a slot, or removes those of a
\* registration, which is then over.
LEMMA BindingsStep ==
    ASSUME RegInv, Onwards,
           \/ ScriptBegins \/ ScriptEnds \/ \E t \in RegThr : LoadClass(t)
           \/ \E m \in Meth : AcquireThunk(m)
           \/ RegisterFails \/ RegisterNatives \/ RegisterFailed \/ RegisterDone
           \/ \E t \in RegThr : \E id \in 1..Len(regs) : Dispose(t, id)
           \/ UnregisterNatives \/ EraseBindings
    PROVE  \A s \in ThunkSlot :
              \/ bindings'[s] = bindings[s]
              \/ /\ s = thunkUsed /\ bindings'[s].reg \in 1..Len(regs')
              \/ /\ bindings'[s] = NoImpl
                 /\ \E b \in Impl : bindings[s] = b /\ b.reg \in 1..Len(regs) /\ Over(b.reg)'
<1>0. RegTypes /\ RunInv /\ BoundInv /\ Len(regs) \in Nat /\ thunkUsed \in Nat
  BY Distinct DEF RegInv, ImplInv, RegTypes
<1>1. CASE UNCHANGED bindings
  BY <1>1
<1>2. ASSUME NEW m \in Meth, AcquireThunk(m)
      PROVE  \A s \in ThunkSlot : \/ bindings'[s] = bindings[s]
                                  \/ s = thunkUsed /\ bindings'[s].reg \in 1..Len(regs')
  <2>1. /\ running.id \in 1..Len(regs)
        /\ bindings' = [bindings EXCEPT ![thunkUsed] = [reg |-> running.id, meth |-> m]]
    BY <1>0, <1>2 DEF AcquireThunk, NextThunk, RunInv
  <2>2. running.id \in 1..Len(regs')
    BY <1>0, <2>1 DEF Onwards
  <2> QED BY <1>0, <2>1, <2>2 DEF RegTypes
<1>3. ASSUME RegisterFailed \/ EraseBindings, NEW s \in ThunkSlot, bindings'[s] # bindings[s]
      PROVE  /\ bindings'[s] = NoImpl
             /\ \E b \in Impl : bindings[s] = b /\ b.reg \in 1..Len(regs) /\ Over(b.reg)'
  <2>0. PICK id : id = running.id
    OBVIOUS
  <2>1. /\ bindings' = Unbound(regs[id].slots) /\ running' = NotRunning /\ UNCHANGED regs
        /\ id \in 1..Len(regs) /\ ~regs[id].live
    BY <1>0, <1>3, <2>0 DEF RegisterFailed, EraseBindings, This, RunInv
  <2>2. PICK m \in Meth : regs[id].slots[m] = s
    BY <1>3, <2>1 DEF Unbound
  <2>3. bindings'[s] = NoImpl /\ s # NoThunk /\ bindings[s] # NoImpl
    BY <1>3, <2>1, <2>2, Distinct DEF Unbound
  <2>4. bindings[s] = [reg |-> id, meth |-> m]
    BY <1>0, <2>1, <2>2, <2>3 DEF BoundInv, SlotsBound
  <2>5. bindings[s] \in Impl
    BY <1>0, <1>3, <2>3 DEF RegTypes
  <2>6. bindings[s].reg = id
    BY <2>4
  <2>7. Over(id)'
    BY <2>1 DEF Over, NotRunning
  <2> QED
    <3>1. PICK b \in Impl : b = bindings[s]
      BY <2>5
    <3> QED BY <2>1, <2>3, <2>6, <2>7, <3>1
<1>4. CASE ~(RegisterFailed \/ EraseBindings \/ \E m \in Meth : AcquireThunk(m))
  <2>1. UNCHANGED bindings
    BY <1>4 DEF ScriptBegins, ScriptEnds, LoadClass, RegisterFails, RegisterNatives, RegisterDone,
                Dispose, UnregisterNatives
  <2> QED BY <1>1, <2>1
<1> QED BY <1>2, <1>3, <1>4

\* A step of registerClass or $dispose takes a binding from a call in flight only by
\* ending its registration.
LEMMA ScriptFlight ==
    ASSUME RegInv, FlightInv, UNCHANGED nativeCalls, Onwards,
           \A s \in ThunkSlot :
              \/ bindings'[s] = bindings[s]
              \/ /\ s = thunkUsed /\ bindings'[s].reg \in 1..Len(regs')
              \/ /\ bindings'[s] = NoImpl
                 /\ \E b \in Impl : bindings[s] = b /\ b.reg \in 1..Len(regs) /\ Over(b.reg)'
    PROVE  FlightInv'
<1>0. RegTypes /\ CallsOwn /\ Len(regs) \in Nat /\ thunkUsed \in Nat
  BY Distinct DEF RegInv, ImplInv, RegTypes
<1>1. \A i \in 1..Len(regs) : i \in 1..Len(regs')
  BY <1>0 DEF Onwards
<1>2. BindingsGiven'
  BY <1>1 DEF FlightInv, BindingsGiven
<1>3. CallsBound'
  <2> SUFFICES ASSUME NEW t \in RegThr, NEW i \in 1..Len(nativeCalls[t]),
                      NEW f, f = nativeCalls[t][i], f.at = "thunk", f.via # NoImpl
               PROVE  f.via.reg \in 1..Len(regs') /\ (bindings'[f.slot] = f.via \/ Over(f.via.reg)')
    BY DEF CallsBound, CallBound
  <2>1. f \in NativeCall /\ CallOK(f) /\ CallBound(f)
    BY <1>0 DEF RegTypes, CallsOwn, FlightInv, CallsBound
  <2>2. f.slot \in ThunkSlot /\ f.slot # thunkUsed
    BY <1>0, <2>1, Distinct DEF NativeCall, CallOK, ThunkSlot
  <2>3. f.via.reg \in 1..Len(regs) /\ (bindings[f.slot] = f.via \/ Over(f.via.reg))
    BY <2>1 DEF CallBound
  <2>4. Over(f.via.reg) => Over(f.via.reg)'
    BY <2>3 DEF Onwards
  <2>5. bindings[f.slot] = f.via => bindings'[f.slot] = f.via \/ Over(f.via.reg)'
    BY <2>2
  <2> QED BY <1>1, <2>3, <2>4, <2>5
<1> QED BY <1>2, <1>3 DEF FlightInv

\* A step of a call leaves the others as they are, and a new one begins with the binding
\* of its thunk.
LEMMA CallFlight ==
    ASSUME RegInv, FlightInv,
           \/ \E t \in RegThr, c \in RegId, m \in Meth : CallNative(t, c, m)
           \/ \E t \in RegThr : NativeDispatch(t) \/ NativeLock(t) \/ NativeReturn(t)
    PROVE  FlightInv'
<1>0. RegTypes /\ SlotsUsed /\ BindingsGiven /\ CallsBound
  BY DEF RegInv, ImplInv, FlightInv
<1>1. UNCHANGED <<bindings, regs, running>>
  BY DEF CallNative, NativeDispatch, NativeLock, NativeReturn
<1>2. \A f : CallBound(f)' <=> CallBound(f)
  BY <1>1 DEF CallBound, Over
<1>3. BindingsGiven'
  BY <1>0, <1>1 DEF BindingsGiven
<1>4. ASSUME \A u \in RegThr : \A i \in 1..Len(nativeCalls'[u]) :
                \/ CallBound(nativeCalls'[u][i])
                \/ i \in 1..Len(nativeCalls[u]) /\ nativeCalls'[u][i] = nativeCalls[u][i]
      PROVE  FlightInv'
  BY <1>0, <1>2, <1>3, <1>4 DEF FlightInv, CallsBound
<1>5. ASSUME NEW t \in RegThr, NEW c \in RegId, NEW m \in Meth, CallNative(t, c, m) PROVE FlightInv'
  <2> DEFINE s == natives[c][m]
             f == [at |-> "thunk", slot |-> s, via |-> bindings[s], impl |-> NoImpl, locked |-> FALSE]
  <2>1. s # NoThunk /\ nativeCalls' = [nativeCalls EXCEPT ![t] = Append(@, f)]
    BY <1>5 DEF CallNative
  <2>2. s \in ThunkSlot
    BY <1>0, <2>1, Distinct DEF RegTypes
  <2>3. bindings[s] \in Impl \cup {NoImpl}
    BY <1>0, <2>2 DEF RegTypes
  <2>4. f \in NativeCall
    BY <2>2, <2>3 DEF NativeCall
  <2>5. CallBound(f)
    BY <1>0, <2>2 DEF CallBound, BindingsGiven
  <2> HIDE DEF s, f
  <2> QED BY <1>0, <1>4, <2>1, <2>4, <2>5, CallBegun
<1>6. ASSUME NEW t \in RegThr, nativeCalls[t] # << >>, EndCall(t) PROVE FlightInv'
  BY <1>0, <1>4, <1>6, CallEnd
<1>7. ASSUME NEW t \in RegThr, nativeCalls[t] # << >>, NEW f \in NativeCall, f.at # "thunk", SetCall(t, f)
      PROVE  FlightInv'
  <2>1. CallBound(f)
    BY <1>7 DEF CallBound
  <2> QED BY <1>0, <1>4, <1>7, <2>1, CallSet
<1>8. \A t \in RegThr : nativeCalls[t] # << >> => Innermost(t) \in NativeCall
  <2> SUFFICES ASSUME NEW t \in RegThr, nativeCalls[t] # << >> PROVE Innermost(t) \in NativeCall
    OBVIOUS
  <2>1. nativeCalls[t] \in Seq(NativeCall)
    BY <1>0 DEF RegTypes
  <2> QED BY <2>1 DEF Innermost
<1>9. ASSUME NEW t \in RegThr, NativeDispatch(t) PROVE FlightInv'
  <2> DEFINE g == Innermost(t)
             b == bindings[g.slot]
             f == [g EXCEPT !.at = "lock", !.impl = b]
  <2>1. nativeCalls[t] # << >> /\ (EndCall(t) \/ SetCall(t, f))
    BY <1>9 DEF NativeDispatch
  <2>2. g \in NativeCall
    BY <1>8, <2>1
  <2>3. b \in Impl \cup {NoImpl}
    BY <1>0, <2>2 DEF RegTypes, NativeCall
  <2>4. f \in NativeCall /\ f.at = "lock"
    BY <2>2, <2>3 DEF NativeCall
  <2> HIDE DEF f
  <2> QED BY <1>6, <1>7, <2>1, <2>4
<1>10. ASSUME NEW t \in RegThr, NativeLock(t) PROVE FlightInv'
  <2> DEFINE g == Innermost(t)
  <2>1. nativeCalls[t] # << >>
    BY <1>10 DEF NativeLock
  <2>2. g \in NativeCall
    BY <1>8, <2>1
  <2>3. PICK l \in BOOLEAN : SetCall(t, [g EXCEPT !.at = "js", !.locked = l])
    <3>1. [g EXCEPT !.at = "js"] = [g EXCEPT !.at = "js", !.locked = g.locked] /\ g.locked \in BOOLEAN
      BY <2>2 DEF NativeCall
    <3> QED BY <1>10, <3>1 DEF NativeLock
  <2> DEFINE f == [g EXCEPT !.at = "js", !.locked = l]
  <2>4. f \in NativeCall /\ f.at = "js"
    BY <2>2 DEF NativeCall
  <2>5. SetCall(t, f)
    BY <2>3
  <2> HIDE DEF f
  <2> QED BY <1>7, <2>1, <2>4, <2>5
<1>11. ASSUME NEW t \in RegThr, NativeReturn(t) PROVE FlightInv'
  BY <1>6, <1>11 DEF NativeReturn
<1> QED BY <1>5, <1>9, <1>10, <1>11

\* Every step leaves calls their bindings, or their registration is over.
LEMMA NextFlight == RegInv /\ FlightInv /\ [RegNext]_regVars => FlightInv'
<1> SUFFICES ASSUME RegInv, FlightInv, [RegNext]_regVars PROVE FlightInv'
  OBVIOUS
<1>1. CASE UNCHANGED regVars
  BY <1>1 DEF regVars, FlightInv, BindingsGiven, CallsBound, CallBound, Over
<1>2. CASE \/ ScriptBegins \/ ScriptEnds \/ \E t \in RegThr : LoadClass(t)
           \/ \E m \in Meth : AcquireThunk(m)
           \/ RegisterFails \/ RegisterNatives \/ RegisterFailed \/ RegisterDone
           \/ \E t \in RegThr : \E id \in 1..Len(regs) : Dispose(t, id)
           \/ UnregisterNatives \/ EraseBindings
  <2>1. Onwards
    BY <1>2, OverForGood
  <2>2. UNCHANGED nativeCalls
    BY <1>2 DEF ScriptBegins, ScriptEnds, LoadClass, AcquireThunk, RegisterFails, RegisterNatives,
                RegisterFailed, RegisterDone, Dispose, UnregisterNatives, EraseBindings
  <2>3. \A s \in ThunkSlot :
           \/ bindings'[s] = bindings[s]
           \/ /\ s = thunkUsed /\ bindings'[s].reg \in 1..Len(regs')
           \/ /\ bindings'[s] = NoImpl
              /\ \E b \in Impl : bindings[s] = b /\ b.reg \in 1..Len(regs) /\ Over(b.reg)'
    BY <1>2, <2>1, BindingsStep
  <2> QED BY <2>1, <2>2, <2>3, ScriptFlight
<1> QED BY <1>1, <1>2, CallFlight DEF RegNext

\* What a native method of a class with one registration leads to is that method's
\* implementation, through every stage of registerClass and $dispose, and the name of a
\* live class given once is found: the natives are set after the bindings and removed
\* before them.  A call that is between its thunk and the dispatcher loses its binding
\* only when its own registration ends, whatever other classes are registered and
\* disposed of.
THEOREM MethodsBound == RegSpec => []NativesBound
<1>1. RegInv /\ FlightInv => NativesBound
  <2> SUFFICES ASSUME RegInv, FlightInv PROVE NativesBound
    OBVIOUS
  <2>0. RegTypes /\ BoundInv
    BY DEF RegInv, ImplInv
  <2>1. ASSUME NEW c \in 1..Len(regs), NEW m \in Meth, Registrations(c) = {c},
               natives[c][m] # NoThunk \/ (regs[c].live /\ m \in regs[c].meths)
        PROVE  natives[c][m] \in ThunkSlot /\ bindings[natives[c][m]] = [reg |-> c, meth |-> m]
    <3>1. AtWork(c, {"done", "dispose"}) /\ natives[c][m] = regs[c].slots[m]
      BY <2>0, <2>1 DEF BoundInv, NativesOwn, AtWork
    <3>2. regs[c].slots[m] # NoThunk
      BY <2>0, <2>1, <3>1 DEF BoundInv, SlotsGiven, AtWork
    <3>3. AtWork(c, {"bind", "done", "dispose"})
      BY <3>1 DEF AtWork
    <3>4. bindings[regs[c].slots[m]] = [reg |-> c, meth |-> m]
      BY <2>0, <3>2, <3>3 DEF BoundInv, SlotsBound
    <3> QED BY <2>0, <3>1, <3>2, <3>4, SlotOf
  <2>2. ASSUME NEW i \in 1..Len(regs), regs[i].live,
               \A j \in 1..Len(regs) : regs[j].name = regs[i].name => j = i
        PROVE  generated[regs[i].name] = regs[i].cls
    BY <2>0, <2>2 DEF BoundInv, NameKept, AtWork, OnlyOfName
  <2>3. \A t \in RegThr : \A i \in 1..Len(nativeCalls[t]) : CallBound(nativeCalls[t][i])
    BY DEF FlightInv, CallsBound
  <2> QED BY <2>1, <2>2, <2>3 DEF NativesBound, CallBound
<1>2. RegInv /\ [RegNext]_regVars => RegInv'
  BY NextImpl, NextBound DEF RegInv
<1>3. RegInit => FlightInv
  BY DEF RegInit, FlightInv, BindingsGiven, CallsBound
<1> QED BY <1>1, <1>2, <1>3, InitReg, NextFlight, PTL DEF RegSpec

=============================================================================
