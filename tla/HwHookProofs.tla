---------------------------- MODULE HwHookProofs ----------------------------
(***************************************************************************)
(* HwHookManager's slot discipline, for every number of threads, slots,    *)
(* sessions and instructions, and whatever the callbacks, the tool and the *)
(* thread lifecycle do.                                                    *)
(***************************************************************************)
EXTENDS HwHook, FiniteSetTheorems, WellFoundedInduction, TLAPS

-----------------------------------------------------------------------------
(* The first and the last session of a non-empty set.                      *)

\* A non-empty set of naturals has a lowest member: "the first session in
\* sessions_ that ..." is one of them.
LEMMA LowestIn ==
    ASSUME NEW S, S \subseteq Nat, S # {}
    PROVE  Lowest(S) \in S /\ \A u \in S : Lowest(S) <= u
<1>1. PICK x \in S : \A y \in S : ~(<<y, x>> \in OpToRel(<, Nat))
  BY NatLessThanWellFounded, WFMin
<1>2. \A y \in S : x <= y
  <2> TAKE y \in S
  <2>1. ~(<<y, x>> \in {ss \in Nat \X Nat : ss[1] < ss[2]})
    BY <1>1, Zenon DEF OpToRel
  <2> QED BY <2>1
<1> QED BY <1>2 DEF Lowest

\* A non-empty bounded set of naturals has a highest member.
LEMMA HighestIn ==
    ASSUME NEW N \in Nat, NEW S, S \subseteq 1..N, S # {}
    PROVE  Highest(S) \in S
<1> DEFINE D == {N - i : i \in S}
<1>0. \A i \in S : i \in Int /\ i <= N /\ N - i \in Nat /\ N - i \in D
  OBVIOUS
<1>1. D \subseteq Nat /\ D # {}
  BY <1>0
<1>2. Lowest(D) \in D /\ \A u \in D : Lowest(D) <= u
  BY <1>1, LowestIn
<1>3. PICK i \in S : Lowest(D) = N - i
  BY <1>2
<1>4. \A j \in S : j <= i
  <2> TAKE j \in S
  <2>1. N - i <= N - j
    BY <1>0, <1>2, <1>3
  <2> QED BY <1>0, <2>1
<1> QED BY <1>4 DEF Highest

-----------------------------------------------------------------------------
(* Type correctness.                                                       *)

\* Writing breakpoint registers through Gum yields breakpoint registers.
LEMMA GumSetBpType ==
    ASSUME NEW hw \in [Thread -> [Slot -> Nat]], NEW T, NEW s, NEW a \in Nat
    PROVE  GumSetBp(hw, T, s, a) \in [Thread -> [Slot -> Nat]]
BY DEF GumSetBp

\* Writing watchpoint registers through Gum yields watchpoint registers.
LEMMA GumSetWpType ==
    ASSUME NEW hw \in [Thread -> [Slot -> SUBSET Nat]], NEW T, NEW s, NEW C \in SUBSET Nat
    PROVE  GumSetWp(hw, T, s, C) \in [Thread -> [Slot -> SUBSET Nat]]
BY DEF GumSetWp

\* A watchpoint configuration covers a set of memory addresses.
LEMMA WatchedType ==
    ASSUME NEW c \in ConfigType
    PROVE  Watched(c) \in SUBSET Nat
BY DEF Watched, ConfigType

\* The addresses HandleException computes are naturals.
LEMMA NextPcType ==
    ASSUME NEW a \in Code
    PROVE  NextPc(a) \in Nat /\ Successors(a) \subseteq Code
<1> USE CodeAssumption DEF Code
<1>1. Insn[a].kind \in {"seq", "jump", "cond"} /\ Insn[a].target \in Code
  OBVIOUS
<1>2. NextPc(a) \in Nat
  BY <1>1 DEF NextPc
<1> QED BY <1>1, <1>2 DEF Successors

\* disarmOnThread() leaves well-typed registers behind.
LEMMA DisarmType ==
    ASSUME TypeOK, NEW i, NEW T, DisarmOnThread(i, T)
    PROVE  hwBp' \in [Thread -> [Slot -> Nat]] /\ hwWp' \in [Thread -> [Slot -> SUBSET Nat]]
<1>1. 0 \in Nat /\ {} \in SUBSET Nat
  OBVIOUS
<1>2. hwBp' \in [Thread -> [Slot -> Nat]]
  BY <1>1, GumSetBpType DEF TypeOK, DisarmOnThread
<1>3. hwWp' \in [Thread -> [Slot -> SUBSET Nat]]
  BY <1>1, GumSetWpType DEF TypeOK, DisarmOnThread
<1> QED BY <1>2, <1>3

\* The manager, the registers and the threads start well typed.
LEMMA InitType == Init => TypeOK
<1> SUFFICES ASSUME Init PROVE TypeOK
  OBVIOUS
<1> USE CodeAssumption, SlotAssumption, ConfigAssumption, BoundAssumption
<1>1. NullConfig \in ConfigType
  <2>1. (CHOOSE f \in Callback : TRUE) \in Callback
    OBVIOUS
  <2> QED BY <2>1 DEF NullConfig, ConfigType, Types, Slot, NoSlot, NoThread
<1>2. cap \in CapType
  BY DEF Init
<1>3. used \in [Types -> SUBSET Slot] /\ nextId \in 1..(MaxId + 1)
  BY DEF Init
<1>4. /\ cfg \in [Id -> ConfigType] /\ armed \in [Id -> SUBSET Thread]
      /\ step \in [Id -> [slot : Slot \cup {NoSlot}, pc : Nat, tid : Thread \cup {NoThread}]]
      /\ slot \in [Id -> Slot]
  BY <1>1 DEF Init, NoStep, Slot
<1>5. /\ hwBp \in [Thread -> [Slot -> Nat]] /\ hwWp \in [Thread -> [Slot -> SUBSET Nat]]
      /\ mode \in [Thread -> Modes] /\ pc \in [Thread -> Code] /\ mem \in [Thread -> Nat]
      /\ hit \in [Thread -> Id \cup {0}] /\ served \in [Thread -> SUBSET Id]
  BY DEF Init, Modes, Code, NoCell
<1> QED BY <1>2, <1>3, <1>4, <1>5 DEF Init, TypeOK

\* Every operation, every exception and every thread event keeps the types.
LEMMA NextType == TypeOK /\ [Next]_vars => TypeOK'
<1> SUFFICES ASSUME TypeOK, [Next]_vars PROVE TypeOK'
  OBVIOUS
<1> USE CodeAssumption, SlotAssumption, ConfigAssumption, BoundAssumption
<1>1. CASE Initialize
  BY <1>1 DEF TypeOK, Initialize, InitManager, hwVars, thrVars
<1>2. ASSUME NEW c \in Config, AttachReuse(c) PROVE TypeOK'
  <2>1. cfg' \in [Id -> ConfigType]
    <3>1. \A d \in ConfigType : [d EXCEPT !.cb = c.cb] \in ConfigType
      BY DEF ConfigType
    <3> QED BY <1>2, <3>1 DEF TypeOK, AttachReuse
  <2> QED BY <1>2, <2>1 DEF TypeOK, AttachReuse, InitManager, hwVars, thrVars
<1>3. ASSUME NEW c \in Config, AttachNew(c) PROVE TypeOK'
  <2>0. c \in ConfigType /\ c.addr \in Nat /\ nextId \in Id /\ nextId + 1 \in 1..(MaxId + 1)
    BY <1>3 DEF AttachNew, ConfigType, TypeOK, Id
  <2>1. PICK s \in Slot : /\ used' = Mark(c.type, s)
                          /\ slot' = [slot EXCEPT ![nextId] = s]
                          /\ ArmOnThread(c, Coverage(c), s)
    BY <1>3 DEF AttachNew, AllocateSlot, FreeSlots
  <2>2. used' \in [Types -> SUBSET Slot] /\ slot' \in [Id -> Slot]
    BY <2>1 DEF TypeOK, Mark
  <2>3. hwBp' \in [Thread -> [Slot -> Nat]] /\ hwWp' \in [Thread -> [Slot -> SUBSET Nat]]
    BY <2>0, <2>1, GumSetBpType, GumSetWpType, WatchedType DEF TypeOK, ArmOnThread
  <2>4. armed' \in [Id -> SUBSET Thread] /\ cfg' \in [Id -> ConfigType]
    BY <1>3, <2>0 DEF AttachNew, Coverage, Armable, TypeOK
  <2> QED BY <1>3, <2>0, <2>2, <2>3, <2>4 DEF TypeOK, AttachNew, thrVars
<1>4. ASSUME NEW c \in Config, AttachUnarmed(c) PROVE TypeOK'
  BY <1>4 DEF TypeOK, AttachUnarmed, hwVars, thrVars
<1>5. ASSUME NEW i \in Id, Detach(i) PROVE TypeOK'
  <2>1. hwBp' \in [Thread -> [Slot -> Nat]] /\ hwWp' \in [Thread -> [Slot -> SUBSET Nat]]
    BY <1>5 DEF TypeOK, Detach, Disarm
  <2>2. used' \in [Types -> SUBSET Slot]
    BY <1>5 DEF TypeOK, Detach
  <2> QED BY <1>5, <2>1, <2>2 DEF TypeOK, Detach, thrVars
<1>6. CASE DetachAll
  <2>1. hwBp' \in [Thread -> [Slot -> Nat]] /\ hwWp' \in [Thread -> [Slot -> SUBSET Nat]]
    BY <1>6 DEF TypeOK, DetachAll, Disarm
  <2> QED BY <1>6, <2>1 DEF TypeOK, DetachAll, thrVars
<1>7. CASE RearmMissingThreads
  <2>1. armed' \in [Id -> SUBSET Thread]
    BY <1>7 DEF TypeOK, RearmMissingThreads, Missing, Coverage, Armable
  <2>2. \A S \in SUBSET Id : S # {} => Highest(S) \in Id
    BY HighestIn DEF Id
  <2>3. \A S \in SUBSET Id : S # {} =>
            cfg[Highest(S)].addr \in Nat /\ Watched(cfg[Highest(S)]) \in SUBSET Nat
    BY <2>2, WatchedType DEF TypeOK, ConfigType
  <2>4. hwBp' \in [Thread -> [Slot -> Nat]]
    BY <1>7, <2>3 DEF TypeOK, RearmMissingThreads
  <2>5. hwWp' \in [Thread -> [Slot -> SUBSET Nat]]
    BY <1>7, <2>3 DEF TypeOK, RearmMissingThreads
  <2> QED BY <1>7, <2>1, <2>4, <2>5 DEF TypeOK, RearmMissingThreads, thrVars
<1>8. CASE RefreshCapacity
  <2>1. cap' \in CapType
    BY <1>8 DEF TypeOK, RefreshCapacity, CapType
  <2> QED BY <1>8, <2>1 DEF TypeOK, RefreshCapacity, hwVars, thrVars
<1>9. ASSUME NEW t \in Thread, Execute(t) PROVE TypeOK'
  <2>1. pc' \in [Thread -> Code]
    BY <1>9, NextPcType DEF TypeOK, Execute
  <2> QED BY <1>9, <2>1 DEF TypeOK, Execute, mgrVars, hwVars
<1>10. ASSUME NEW t \in Thread, Trap(t) PROVE TypeOK'
  <2>1. mem' \in [Thread -> Nat] /\ mode' \in [Thread -> Modes]
    BY <1>10 DEF TypeOK, Trap, NoCell, Modes
  <2> QED BY <1>10, <2>1 DEF TypeOK, Trap, mgrVars, hwVars
<1>11. ASSUME NEW t \in Thread, StepOverHit(t) PROVE TypeOK'
  <2> DEFINE i == Lowest(Stepping(t))
             hw == GumSetBp(hwBp, {t}, step[i].slot, 0)
  <2>1. i \in Id
    <3>1a. Stepping(t) \subseteq Id
      BY DEF Stepping, TypeOK
    <3>1b. Id \subseteq Nat
      BY DEF Id
    <3>1. Stepping(t) \subseteq Nat /\ Stepping(t) # {}
      BY <1>11, <3>1a, <3>1b DEF StepOverHit
    <3>2. i \in Stepping(t)
      BY <3>1, LowestIn
    <3> QED BY <3>1a, <3>2
  <2>2. cfg[i].addr \in Nat /\ Watched(cfg[i]) \in SUBSET Nat
    BY <2>1, WatchedType DEF TypeOK, ConfigType
  <2>3. hw \in [Thread -> [Slot -> Nat]]
    BY GumSetBpType DEF TypeOK
  <2>4. hwBp' \in [Thread -> [Slot -> Nat]] /\ hwWp' \in [Thread -> [Slot -> SUBSET Nat]]
    BY <1>11, <2>2, <2>3, GumSetBpType, GumSetWpType DEF TypeOK, StepOverHit
  <2>5. used' \in [Types -> SUBSET Slot]
    BY <1>11 DEF TypeOK, StepOverHit, FreeSlot
  <2>6. /\ step' \in [Id -> [slot : Slot \cup {NoSlot}, pc : Nat, tid : Thread \cup {NoThread}]]
        /\ mode' \in [Thread -> Modes]
    BY <1>11 DEF TypeOK, StepOverHit, NoStep, Modes
  <2> QED BY <1>11, <2>4, <2>5, <2>6 DEF TypeOK, StepOverHit
<1>12. ASSUME NEW t \in Thread, NEW i \in listed, Dispatching(t, i)
       PROVE  /\ mode' \in [Thread -> Modes] /\ hit' \in [Thread -> Id \cup {0}]
              /\ served' \in [Thread -> SUBSET Id]
  BY <1>12 DEF TypeOK, Dispatching, Modes
<1>13. ASSUME NEW t \in Thread, Dispatch(t) PROVE TypeOK'
  BY <1>12, <1>13 DEF TypeOK, Dispatch, Dispatching, hwVars
<1>14. ASSUME NEW t \in Thread, DispatchOnce(t) PROVE TypeOK'
  <2>1. PICK i \in listed :
            /\ Dispatching(t, i)
            /\ \E D : /\ DisarmOnThread(i, {t} \cup D)
                      /\ armed' = [armed EXCEPT ![i] = @ \ ({t} \cup D)]
            /\ active' = active \ {i}
            /\ listed' = listed \ {i}
            /\ used' = FreeSlot(cfg[i].type, slot[i])
            /\ killed' \in BOOLEAN
    BY <1>14 DEF DispatchOnce
  <2>2. hwBp' \in [Thread -> [Slot -> Nat]] /\ hwWp' \in [Thread -> [Slot -> SUBSET Nat]]
    BY <2>1, DisarmType
  <2>3. used' \in [Types -> SUBSET Slot] /\ armed' \in [Id -> SUBSET Thread]
    BY <2>1 DEF TypeOK, FreeSlot
  <2> QED BY <1>12, <2>1, <2>2, <2>3 DEF TypeOK, Dispatching
<1>15. ASSUME NEW t \in Thread, NotOurs(t) PROVE TypeOK'
  BY <1>15 DEF TypeOK, NotOurs, mgrVars, hwVars, thrVars
<1>16. ASSUME NEW t \in Thread, NEW i \in Id, Returning(t, i)
       PROVE  /\ pc' \in [Thread -> Code] /\ mode' \in [Thread -> Modes]
              /\ hit' \in [Thread -> Id \cup {0}] /\ mem' \in [Thread -> Nat]
  BY <1>16 DEF TypeOK, Returning, Modes, NoCell
<1>17. ASSUME NEW t \in Thread, ReturnDone(t) PROVE TypeOK'
  BY <1>16, <1>17 DEF TypeOK, ReturnDone, Returning, hwVars
<1>18. ASSUME NEW t \in Thread, ReturnStepOver(t) PROVE TypeOK'
  <2>1. PICK i \in active, s \in Slot :
            /\ Returning(t, i)
            /\ \E next \in {NextPc(pc[t]), pc[t] + 1}, hw \in {GumSetBp(hwBp, {t}, slot[i], 0), hwBp} :
                  /\ step' = [step EXCEPT ![i] = [slot |-> s, pc |-> next, tid |-> t]]
                  /\ hwBp' = GumSetBp(hw, {t}, s, next)
            /\ used' = Mark("bp", s)
            /\ hwWp' = IF cfg[i].type = "wp" THEN GumSetWp(hwWp, {t}, slot[i], {}) ELSE hwWp
            /\ active' = active
    BY <1>18 DEF ReturnStepOver, StepSlot, FreeSlots
  <2>2. i \in Id /\ NextPc(pc[t]) \in Nat /\ pc[t] + 1 \in Nat
    <3>1. pc[t] \in Code /\ Code \subseteq Nat
      BY DEF TypeOK, Code
    <3>2. i \in Id
      BY DEF TypeOK
    <3>3. NextPc(pc[t]) \in Nat
      BY <3>1, NextPcType
    <3>4a. pc[t] \in Nat
      BY <3>1
    <3>4. pc[t] + 1 \in Nat
      BY <3>4a
    <3> QED BY <3>2, <3>3, <3>4
  <2>3. step' \in [Id -> [slot : Slot \cup {NoSlot}, pc : Nat, tid : Thread \cup {NoThread}]]
    BY <2>1, <2>2 DEF TypeOK
  <2>4. hwBp' \in [Thread -> [Slot -> Nat]] /\ hwWp' \in [Thread -> [Slot -> SUBSET Nat]]
    <3>1. PICK next \in {NextPc(pc[t]), pc[t] + 1},
               hw \in {GumSetBp(hwBp, {t}, slot[i], 0), hwBp} : hwBp' = GumSetBp(hw, {t}, s, next)
      BY <2>1
    <3>2a. GumSetBp(hwBp, {t}, slot[i], 0) \in [Thread -> [Slot -> Nat]]
      BY GumSetBpType DEF TypeOK
    <3>2. hw \in [Thread -> [Slot -> Nat]] /\ next \in Nat
      BY <2>2, <3>1, <3>2a DEF TypeOK
    <3>3. hwBp' \in [Thread -> [Slot -> Nat]]
      BY <3>1, <3>2, GumSetBpType
    <3>4. {} \in SUBSET Nat
      OBVIOUS
    <3>5. hwWp' \in [Thread -> [Slot -> SUBSET Nat]]
      BY <2>1, <3>4, GumSetWpType DEF TypeOK
    <3> QED BY <3>3, <3>5
  <2>5. used' \in [Types -> SUBSET Slot]
    BY <2>1 DEF TypeOK, Mark
  <2> QED BY <1>16, <2>1, <2>2, <2>3, <2>4, <2>5 DEF TypeOK, Returning
<1>19. ASSUME NEW t \in Thread, ReturnExhausted(t) PROVE TypeOK'
  <2>1. PICK i \in active :
            /\ Returning(t, i)
            /\ DisarmOnThread(i, {t})
            /\ active' \in {active, active \ {i}}
            /\ used' \in {used, FreeSlot("wp", slot[i])}
            /\ UNCHANGED step
    BY <1>19 DEF ReturnExhausted
  <2>2. hwBp' \in [Thread -> [Slot -> Nat]] /\ hwWp' \in [Thread -> [Slot -> SUBSET Nat]]
    BY <2>1, DisarmType
  <2>3. FreeSlot("wp", slot[i]) \in [Types -> SUBSET Slot]
    BY DEF TypeOK, FreeSlot, Types
  <2>4. used' \in [Types -> SUBSET Slot] /\ active' \subseteq Id /\ i \in Id
    BY <2>1, <2>3 DEF TypeOK
  <2> QED BY <1>16, <2>1, <2>2, <2>4 DEF TypeOK, Returning
<1>20. ASSUME NEW t \in Thread, InjectorDetach(t) \/ ThreadStart(t) \/ ThreadExit(t)
       PROVE  TypeOK'
  <2>1. CASE InjectorDetach(t)
    BY <2>1 DEF TypeOK, InjectorDetach, Modes, mgrVars, hwVars
  <2>2. CASE ThreadStart(t)
    <3>1. 1 \in Code
      BY DEF Code
    <3> QED BY <2>2, <3>1 DEF TypeOK, ThreadStart, Modes, mgrVars, hwVars
  <2>3. CASE ThreadExit(t)
    <3>1. hwBp' \in [Thread -> [Slot -> Nat]] /\ hwWp' \in [Thread -> [Slot -> SUBSET Nat]]
      BY <2>3 DEF TypeOK, ThreadExit
    <3>2. mode' \in [Thread -> Modes] /\ served' \in [Thread -> SUBSET Id]
      BY <2>3 DEF TypeOK, ThreadExit, Modes
    <3> QED BY <2>3, <3>1, <3>2 DEF TypeOK, ThreadExit, mgrVars
  <2> QED BY <1>20, <2>1, <2>2, <2>3
<1>21. CASE UNCHANGED vars
  BY <1>21 DEF TypeOK, vars, mgrVars, hwVars, thrVars
<1> QED
  BY <1>1, <1>2, <1>3, <1>4, <1>5, <1>6, <1>7, <1>8, <1>9, <1>10, <1>11, <1>13, <1>14,
     <1>15, <1>17, <1>18, <1>19, <1>20, <1>21
  DEF Next, Api, Attach, ThreadStep, HandleException, Lifecycle

\* Every state the manager, its sessions and the threads can be in is well typed.
THEOREM TypeCorrect == Spec => []TypeOK
<1> QED BY InitType, NextType, PTL DEF Spec

-----------------------------------------------------------------------------
(* The slot discipline.                                                    *)

\* What makes BpSlotsExclusive inductive: only sessions in sessions_ are active,
\* next_id_ is fresh, and a step-over record is set and cleared as a whole.
SlotInv ==
    /\ active \subseteq listed
    /\ \A i \in listed : i < nextId
    /\ \A i \in Id : i >= nextId => step[i] = NoStep
    /\ \A i \in Id : (step[i].tid = NoThread) <=> (step[i].slot = NoSlot)
    /\ BpSlotsExclusive

\* Nothing that HandleException and the API decide slots by has changed.
LEMMA SlotInvFrame ==
    ASSUME SlotInv, UNCHANGED <<used, nextId, listed, active, cfg, slot, step>>
    PROVE  SlotInv'
BY DEF SlotInv, BpSlotsExclusive, ListedBp, Pending

\* A callback that is replaced does not change a session's type.
LEMMA ReuseKeepsType ==
    ASSUME TypeOK, NEW c \in Config, AttachReuse(c)
    PROVE  \A i \in Id : cfg'[i].type = cfg[i].type
<1>1. \A d \in ConfigType : [d EXCEPT !.cb = c.cb].type = d.type
  BY DEF ConfigType
<1>2. \A i \in Id : cfg'[i] \in {cfg[i], [cfg[i] EXCEPT !.cb = c.cb]}
  BY DEF AttachReuse, TypeOK
<1> QED BY <1>1, <1>2 DEF TypeOK

\* What session i gives back belongs to no other session and no other step-over.
LEMMA SlotsApart ==
    ASSUME TypeOK, SlotInv, NEW i \in listed
    PROVE  /\ \A j \in ListedBp \ {i} : slot[j] \notin SlotsOf({i}, "bp")
           /\ \A j \in Pending \ {i} : step[j].slot \notin SlotsOf({i}, "bp")
<1>1. SlotsOf({i}, "bp") = {step[i].slot} \cup IF cfg[i].type = "bp" THEN {slot[i]} ELSE {}
  BY DEF SlotsOf
<1>2. cfg[i].type = "bp" => i \in ListedBp
  BY DEF ListedBp
<1>3. i \in Pending \/ step[i].slot = NoSlot
  BY DEF Pending, SlotInv, TypeOK
<1>4. \A j \in ListedBp : slot[j] # NoSlot
  BY SlotAssumption DEF ListedBp, TypeOK, Slot, NoSlot
<1>5. \A j \in Pending : step[j].slot # NoSlot
  BY DEF Pending, SlotInv, TypeOK
<1> QED BY <1>1, <1>2, <1>3, <1>4, <1>5 DEF SlotInv, BpSlotsExclusive

\* Before the first attach() no session holds a slot.
LEMMA InitSlots == Init => SlotInv
BY DEF Init, SlotInv, BpSlotsExclusive, ListedBp, Pending, NoStep, NoThread

\* Every operation, every half of HandleException and every thread event keeps
\* the slot discipline.
LEMMA NextSlots == TypeOK /\ SlotInv /\ [Next]_vars => SlotInv'
<1> SUFFICES ASSUME TypeOK, SlotInv, [Next]_vars PROVE SlotInv'
  OBVIOUS
<1> USE BoundAssumption
<1>1. CASE Initialize \/ RefreshCapacity \/ RearmMissingThreads
  BY <1>1, SlotInvFrame DEF Initialize, RefreshCapacity, RearmMissingThreads
<1>2. ASSUME NEW c \in Config, AttachReuse(c) PROVE SlotInv'
  <2>1. UNCHANGED <<used, nextId, listed, active, slot, step>>
    BY <1>2 DEF AttachReuse
  <2>2. ListedBp' = ListedBp /\ Pending' = Pending
    BY <1>2, <2>1, ReuseKeepsType DEF ListedBp, Pending, TypeOK
  <2> QED BY <2>1, <2>2 DEF SlotInv, BpSlotsExclusive
<1>3. ASSUME NEW c \in Config, AttachNew(c) PROVE SlotInv'
  <2>1. nextId \in Id /\ nextId \notin listed /\ step[nextId] = NoStep
    BY <1>3 DEF AttachNew, TypeOK, SlotInv, Id
  <2>2. PICK s \in FreeSlots(c.type) : /\ used' = Mark(c.type, s)
                                       /\ slot' = [slot EXCEPT ![nextId] = s]
    BY <1>3 DEF AttachNew, AllocateSlot
  <2>3. /\ nextId' = nextId + 1 /\ listed' = listed \cup {nextId}
        /\ active' = active \cup {nextId} /\ cfg' = [cfg EXCEPT ![nextId] = c] /\ step' = step
    BY <1>3 DEF AttachNew
  <2>4. /\ \A i \in listed : cfg'[i] = cfg[i] /\ slot'[i] = slot[i]
        /\ cfg'[nextId] = c /\ slot'[nextId] = s
    BY <2>1, <2>2, <2>3 DEF TypeOK
  <2>5. Pending' = Pending
    BY <2>1, <2>3 DEF Pending, NoStep
  <2>6. ListedBp' = ListedBp \cup IF c.type = "bp" THEN {nextId} ELSE {}
    BY <2>1, <2>3, <2>4 DEF ListedBp
  <2>7. used["bp"] \subseteq used'["bp"]
    BY <2>2 DEF Mark, TypeOK, Types
  <2>8. c.type = "bp" => s \in used'["bp"] /\ s \notin used["bp"]
    BY <2>2 DEF Mark, TypeOK, Types, FreeSlots
  <2>9. BpSlotsExclusive'
    BY <2>1, <2>3, <2>4, <2>5, <2>6, <2>7, <2>8 DEF SlotInv, BpSlotsExclusive, ListedBp, Pending
  <2> QED BY <2>1, <2>3, <2>9 DEF SlotInv, TypeOK, Id
<1>4. ASSUME NEW c \in Config, AttachUnarmed(c) PROVE SlotInv'
  BY <1>4 DEF AttachUnarmed, SlotInv, BpSlotsExclusive, ListedBp, Pending, TypeOK, Id
<1>5. ASSUME NEW i \in Id, Detach(i) PROVE SlotInv'
  <2>1. /\ listed' = listed \ {i} /\ active' = active \ {i}
        /\ UNCHANGED <<nextId, cfg, slot, step>>
        /\ used'["bp"] = used["bp"] \ SlotsOf({i}, "bp")
    BY <1>5 DEF Detach, Types
  <2>2. ListedBp' = ListedBp \ {i} /\ Pending' = Pending \ {i}
    BY <2>1 DEF ListedBp, Pending
  <2>3. \A j \in ListedBp' : slot[j] \notin SlotsOf({i}, "bp")
    BY <1>5, <2>2, SlotsApart DEF Detach
  <2>4. \A j \in Pending' : step[j].slot \notin SlotsOf({i}, "bp")
    BY <1>5, <2>2, SlotsApart DEF Detach
  <2>5. BpSlotsExclusive'
    BY <2>1, <2>2, <2>3, <2>4 DEF SlotInv, BpSlotsExclusive
  <2> QED BY <2>1, <2>5 DEF SlotInv
<1>6. CASE DetachAll
  <2>1. listed' = {} /\ active' = {} /\ UNCHANGED <<nextId, step>>
    BY <1>6 DEF DetachAll, SlotInv
  <2> QED BY <2>1 DEF SlotInv, BpSlotsExclusive, ListedBp, Pending
<1>7. ASSUME NEW t \in Thread, Execute(t) \/ Trap(t) \/ NotOurs(t) PROVE SlotInv'
  BY <1>7, SlotInvFrame DEF Execute, Trap, NotOurs, mgrVars
<1>8. ASSUME NEW t \in Thread, StepOverHit(t) PROVE SlotInv'
  <2> DEFINE i == Lowest(Stepping(t))
  <2>1. i \in Stepping(t)
    <3>0. Id \subseteq Nat
      BY DEF Id
    <3>1. Stepping(t) \subseteq Nat
      BY <3>0 DEF Stepping, TypeOK
    <3>2. Stepping(t) # {}
      BY <1>8 DEF StepOverHit
    <3> QED BY <3>1, <3>2, LowestIn
  <2>2. i \in Pending /\ i \in Id /\ i < nextId
    BY <2>1, ThreadAssumption DEF Stepping, Pending, SlotInv, TypeOK
  <2>3. /\ UNCHANGED <<nextId, listed, active, cfg, slot>>
        /\ step' = [step EXCEPT ![i] = NoStep]
        /\ used' = FreeSlot("bp", step[i].slot)
    BY <1>8 DEF StepOverHit
  <2>4. used'["bp"] = used["bp"] \ {step[i].slot}
    BY <2>3 DEF FreeSlot, TypeOK, Types
  <2>5. ListedBp' = ListedBp /\ Pending' = Pending \ {i}
    BY <2>2, <2>3 DEF ListedBp, Pending, NoStep, TypeOK
  <2>6. \A j \in Id : j # i => step'[j] = step[j]
    BY <2>3 DEF TypeOK
  <2>7. step'[i] = NoStep
    BY <2>2, <2>3 DEF TypeOK
  <2>8. \A j \in Pending' : j # i /\ j \in Pending /\ step'[j] = step[j]
    BY <2>5, <2>6 DEF Pending, TypeOK
  <2>9. BpSlotsExclusive'
    BY <2>2, <2>3, <2>4, <2>5, <2>8 DEF SlotInv, BpSlotsExclusive
  <2> QED BY <2>3, <2>6, <2>7, <2>9 DEF SlotInv, NoStep
<1>9. ASSUME NEW t \in Thread, Dispatch(t) PROVE SlotInv'
  BY <1>9, SlotInvFrame DEF Dispatch, Dispatching
<1>10. ASSUME NEW t \in Thread, DispatchOnce(t) PROVE SlotInv'
  <2>1. PICK i \in listed : /\ active' = active \ {i} /\ listed' = listed \ {i}
                            /\ used' = FreeSlot(cfg[i].type, slot[i])
                            /\ UNCHANGED <<nextId, cfg, slot, step>>
    BY <1>10 DEF DispatchOnce, Dispatching
  <2>2. ListedBp' = ListedBp \ {i} /\ Pending' = Pending \ {i}
    BY <2>1 DEF ListedBp, Pending
  <2>3. \/ cfg[i].type = "bp" /\ i \in ListedBp /\ used'["bp"] = used["bp"] \ {slot[i]}
        \/ cfg[i].type = "wp" /\ used'["bp"] = used["bp"]
    BY <2>1 DEF FreeSlot, TypeOK, Types, ConfigType, ListedBp
  <2>4. BpSlotsExclusive'
    BY <2>1, <2>2, <2>3 DEF SlotInv, BpSlotsExclusive
  <2> QED BY <2>1, <2>4 DEF SlotInv
<1>11. ASSUME NEW t \in Thread, ReturnDone(t) PROVE SlotInv'
  BY <1>11, SlotInvFrame DEF ReturnDone, Returning
<1>12. ASSUME NEW t \in Thread, ReturnStepOver(t) PROVE SlotInv'
  <2>1. PICK i \in active, s \in FreeSlots("bp") :
            /\ UNCHANGED <<nextId, listed, active, cfg, slot>>
            /\ \E next \in {NextPc(pc[t]), pc[t] + 1} :
                  step' = [step EXCEPT ![i] = [slot |-> s, pc |-> next, tid |-> t]]
            /\ used' = Mark("bp", s)
    BY <1>12 DEF ReturnStepOver, Returning, StepSlot
  <2>2. i \in listed /\ i \in Id /\ i < nextId
    BY DEF SlotInv, TypeOK
  <2>3. step'[i].slot = s /\ step'[i].tid = t /\ t # NoThread /\ s # NoSlot
    BY <2>1, <2>2, ThreadAssumption DEF TypeOK, FreeSlots, Slot, NoSlot
  <2>4. \A j \in Id : j # i => step'[j] = step[j]
    BY <2>1 DEF TypeOK
  <2>5. used'["bp"] = used["bp"] \cup {s} /\ s \notin used["bp"]
    BY <2>1 DEF Mark, FreeSlots, TypeOK, Types
  <2>6. ListedBp' = ListedBp
    BY <2>1 DEF ListedBp
  <2>7. \A j \in Pending' : j = i \/ (j \in Pending /\ j # i /\ step'[j] = step[j])
    BY <2>1, <2>4 DEF Pending, TypeOK
  <2>8. BpSlotsExclusive'
    BY <2>1, <2>3, <2>5, <2>6, <2>7 DEF SlotInv, BpSlotsExclusive
  <2> QED BY <2>1, <2>2, <2>3, <2>4, <2>8 DEF SlotInv, TypeOK, Id
<1>13. ASSUME NEW t \in Thread, ReturnExhausted(t) PROVE SlotInv'
  <2>1. PICK i \in active :
            /\ UNCHANGED <<nextId, listed, cfg, slot, step>>
            /\ active' = IF cfg[i].type = "wp" THEN active \ {i} ELSE active
            /\ used' = IF cfg[i].type = "wp" THEN FreeSlot("wp", slot[i]) ELSE used
    BY <1>13 DEF ReturnExhausted, Returning
  <2>2. used'["bp"] = used["bp"]
    BY <2>1 DEF FreeSlot, TypeOK, Types
  <2>3. ListedBp' = ListedBp /\ Pending' = Pending
    BY <2>1 DEF ListedBp, Pending
  <2>4. \A j \in ListedBp : j \in active => j \in active'
    BY <2>1 DEF ListedBp
  <2>5. BpSlotsExclusive'
    BY <2>1, <2>2, <2>3, <2>4 DEF SlotInv, BpSlotsExclusive
  <2> QED BY <2>1, <2>5 DEF SlotInv
<1>14. ASSUME NEW t \in Thread, InjectorDetach(t) \/ ThreadStart(t) \/ ThreadExit(t)
       PROVE  SlotInv'
  BY <1>14, SlotInvFrame DEF InjectorDetach, ThreadStart, ThreadExit, mgrVars
<1>15. CASE UNCHANGED vars
  BY <1>15, SlotInvFrame DEF vars, mgrVars
<1> QED
  BY <1>1, <1>2, <1>3, <1>4, <1>5, <1>6, <1>7, <1>8, <1>9, <1>10, <1>11, <1>12, <1>13,
     <1>14, <1>15
  DEF Next, Api, Attach, ThreadStep, HandleException, Lifecycle

\* For every number of threads, comparators and sessions, whatever the callbacks
\* redirect, the tool detaches and the threads do: no breakpoint comparator is
\* given to two sessions, two step-overs, or a session and a step-over.
THEOREM SlotsNeverShared == Spec => []BpSlotsExclusive
<1>1. TypeOK /\ SlotInv /\ [Next]_vars => (TypeOK /\ SlotInv)'
  BY NextType, NextSlots
<1>2. Init => TypeOK /\ SlotInv
  BY InitType, InitSlots
<1>3. SlotInv => BpSlotsExclusive
  BY DEF SlotInv
<1> QED BY <1>1, <1>2, <1>3, PTL DEF Spec

-----------------------------------------------------------------------------
(* Comparators come back.                                                   *)

\* A one-shot session never steps over: it is gone before its callback returns.
OnceInv == \A i \in listed : cfg[i].once => step[i].slot = NoSlot

\* SlotsOf(listed, ty), said of each slot.
Held(ty, s) ==
    \E i \in listed : (cfg[i].type = ty /\ slot[i] = s) \/ (ty = "bp" /\ step[i].slot = s)

\* The action of SlotsAccounted, said of each slot.
Accounted ==
    \A ty \in Types : \A s \in used'[ty] :
        \/ Held(ty, s)'
        \/ s \in used[ty] /\ (~Held(ty, s) \/ (ty = "bp" /\ Overwritten(s)))

\* What the sessions in sessions_ would give back is what they hold.
LEMMA HeldIff ==
    \A ty, s : s \in SlotsOf(listed, ty) <=> Held(ty, s)
BY DEF SlotsOf, Held

\* Sessions, their slots and the table have not changed.
LEMMA HeldFrame ==
    ASSUME UNCHANGED <<used, listed, cfg, slot, step>>
    PROVE  Accounted /\ (OnceInv => OnceInv')
BY DEF Accounted, Held, OnceInv

\* Every step accounts for the slots it touches.
LEMMA NextAccounted ==
    ASSUME TypeOK, SlotInv, OnceInv, [Next]_vars
    PROVE  Accounted /\ OnceInv'
<1> USE BoundAssumption
<1>1. CASE Initialize \/ RefreshCapacity \/ RearmMissingThreads
  BY <1>1, HeldFrame DEF Initialize, RefreshCapacity, RearmMissingThreads
<1>2. ASSUME NEW c \in Config, AttachReuse(c) PROVE Accounted /\ OnceInv'
  <2>1. UNCHANGED <<used, listed, slot, step>>
    BY <1>2 DEF AttachReuse
  <2>2. \A d \in ConfigType : [d EXCEPT !.cb = c.cb].once = d.once
    BY DEF ConfigType
  <2>3. \A i \in Id : cfg'[i] \in {cfg[i], [cfg[i] EXCEPT !.cb = c.cb]}
    BY <1>2 DEF AttachReuse, TypeOK
  <2>4. \A i \in listed : cfg'[i].once = cfg[i].once /\ cfg'[i].type = cfg[i].type
    BY <1>2, <2>2, <2>3, ReuseKeepsType DEF TypeOK
  <2> QED BY <2>1, <2>4 DEF Accounted, Held, OnceInv
<1>3. ASSUME NEW c \in Config, AttachNew(c) PROVE Accounted /\ OnceInv'
  <2>1. nextId \in Id /\ nextId \notin listed /\ step[nextId] = NoStep
    BY <1>3 DEF AttachNew, TypeOK, SlotInv, Id
  <2>2. PICK s \in FreeSlots(c.type) : /\ used' = Mark(c.type, s)
                                       /\ slot' = [slot EXCEPT ![nextId] = s]
    BY <1>3 DEF AttachNew, AllocateSlot
  <2>3. listed' = listed \cup {nextId} /\ cfg' = [cfg EXCEPT ![nextId] = c] /\ step' = step
    BY <1>3 DEF AttachNew
  <2>4. /\ \A i \in listed : cfg'[i] = cfg[i] /\ slot'[i] = slot[i]
        /\ cfg'[nextId] = c /\ slot'[nextId] = s
    BY <2>1, <2>2, <2>3 DEF TypeOK
  <2>5. \A ty \in Types : \A u \in used'[ty] : u \in used[ty] \/ (ty = c.type /\ u = s)
    BY <2>2 DEF Mark, TypeOK
  <2>6. Accounted
    BY <2>3, <2>4, <2>5 DEF Accounted, Held
  <2>7. OnceInv'
    BY <2>1, <2>3, <2>4 DEF OnceInv, NoStep
  <2> QED BY <2>6, <2>7
<1>4. ASSUME NEW c \in Config, AttachUnarmed(c) PROVE Accounted /\ OnceInv'
  BY <1>4, HeldFrame DEF AttachUnarmed
<1>5. ASSUME NEW i \in Id, Detach(i) PROVE Accounted /\ OnceInv'
  <2>1. /\ listed' = listed \ {i} /\ UNCHANGED <<cfg, slot, step>>
        /\ \A ty \in Types : used'[ty] = used[ty] \ SlotsOf({i}, ty)
    BY <1>5 DEF Detach
  <2>2. \A ty \in Types : \A s \in used'[ty] :
            ~((cfg[i].type = ty /\ slot[i] = s) \/ (ty = "bp" /\ step[i].slot = s))
    BY <2>1 DEF SlotsOf
  <2> QED BY <2>1, <2>2 DEF Accounted, Held, OnceInv
<1>6. CASE DetachAll
  BY <1>6 DEF DetachAll, Accounted, OnceInv
<1>7. ASSUME NEW t \in Thread, Execute(t) \/ Trap(t) \/ NotOurs(t) PROVE Accounted /\ OnceInv'
  BY <1>7, HeldFrame DEF Execute, Trap, NotOurs, mgrVars
<1>8. ASSUME NEW t \in Thread, StepOverHit(t) PROVE Accounted /\ OnceInv'
  <2> DEFINE i == Lowest(Stepping(t))
  <2>1. /\ UNCHANGED <<listed, cfg, slot>>
        /\ step' = [step EXCEPT ![i] = NoStep]
        /\ used' = FreeSlot("bp", step[i].slot)
    BY <1>8 DEF StepOverHit
  <2>2. \A ty \in Types : \A s \in used'[ty] : s \in used[ty] /\ (ty = "bp" => s # step[i].slot)
    BY <2>1 DEF FreeSlot, TypeOK
  <2>3. \A j \in listed : step'[j] = IF j = i THEN NoStep ELSE step[j]
    BY <2>1 DEF TypeOK
  <2>4. Accounted
    BY <2>1, <2>2, <2>3 DEF Accounted, Held
  <2>5. OnceInv'
    BY <2>1, <2>3 DEF OnceInv, NoStep
  <2> QED BY <2>4, <2>5
<1>9. ASSUME NEW t \in Thread, Dispatch(t) PROVE Accounted /\ OnceInv'
  BY <1>9, HeldFrame DEF Dispatch, Dispatching
<1>10. ASSUME NEW t \in Thread, DispatchOnce(t) PROVE Accounted /\ OnceInv'
  <2>1. PICK i \in listed : /\ cfg[i].once /\ listed' = listed \ {i}
                            /\ used' = FreeSlot(cfg[i].type, slot[i])
                            /\ UNCHANGED <<cfg, slot, step>>
    BY <1>10 DEF DispatchOnce, Dispatching
  <2>2. \A ty \in Types : \A s \in used'[ty] : s \in used[ty] /\ (cfg[i].type = ty => s # slot[i])
    BY <2>1 DEF FreeSlot, TypeOK
  <2>3. step[i].slot = NoSlot /\ \A ty \in Types : \A s \in used'[ty] : s # NoSlot
    BY <2>1, <2>2, SlotAssumption DEF OnceInv, TypeOK, Slot, NoSlot
  <2> QED BY <2>1, <2>2, <2>3 DEF Accounted, Held, OnceInv
<1>11. ASSUME NEW t \in Thread, ReturnDone(t) PROVE Accounted /\ OnceInv'
  BY <1>11, HeldFrame DEF ReturnDone, Returning
<1>12. ASSUME NEW t \in Thread, ReturnStepOver(t) PROVE Accounted /\ OnceInv'
  <2>1. PICK i \in active, s \in FreeSlots("bp") :
            /\ ~cfg[i].once /\ UNCHANGED <<listed, cfg, slot>>
            /\ \E next \in {NextPc(pc[t]), pc[t] + 1} :
                  step' = [step EXCEPT ![i] = [slot |-> s, pc |-> next, tid |-> t]]
            /\ used' = Mark("bp", s)
    BY <1>12 DEF ReturnStepOver, Returning, StepSlot
  <2>2. i \in listed /\ i \in Id
    BY DEF SlotInv, TypeOK
  <2>3. step'[i].slot = s /\ step'[i].tid = t /\ t # NoThread
    BY <2>1, <2>2, ThreadAssumption DEF TypeOK
  <2>4. \A j \in listed : j # i => step'[j] = step[j]
    BY <2>1 DEF TypeOK
  <2>5. \A ty \in Types : \A u \in used'[ty] : u \in used[ty] \/ (ty = "bp" /\ u = s)
    BY <2>1 DEF Mark, TypeOK
  <2>6. \A u \in used["bp"] : u # s /\ u # NoSlot
    BY <2>1, SlotAssumption DEF FreeSlots, TypeOK, Types, Slot, NoSlot
  <2>7. \A u \in used["bp"] : step[i].slot = u => Overwritten(u)
    <3> SUFFICES ASSUME NEW u \in used["bp"], step[i].slot = u PROVE Overwritten(u)
      OBVIOUS
    <3>1. step[i].tid # NoThread
      BY <2>2, <2>6 DEF SlotInv
    <3> QED BY <2>2, <2>3, <2>6, <3>1 DEF Overwritten
  <2>8. ASSUME NEW ty \in Types, NEW u \in used'[ty]
        PROVE  \/ Held(ty, u)'
               \/ u \in used[ty] /\ (~Held(ty, u) \/ (ty = "bp" /\ Overwritten(u)))
    <3>1. CASE ty = "bp" /\ u = s
      BY <2>1, <2>2, <2>3, <3>1 DEF Held
    <3>2. CASE u \in used[ty] /\ ~Held(ty, u)
      BY <3>2
    <3>3. CASE u \in used[ty] /\ Held(ty, u)
      <4>1. PICK j \in listed : (cfg[j].type = ty /\ slot[j] = u) \/ (ty = "bp" /\ step[j].slot = u)
        BY <3>3 DEF Held
      <4>2. CASE cfg[j].type = ty /\ slot[j] = u
        BY <2>1, <4>2 DEF Held
      <4>3. CASE ty = "bp" /\ step[j].slot = u /\ j # i
        BY <2>1, <2>4, <4>3 DEF Held
      <4>4. CASE ty = "bp" /\ step[j].slot = u /\ j = i
        BY <2>7, <3>3, <4>4
      <4> QED BY <4>1, <4>2, <4>3, <4>4
    <3> QED BY <2>5, <3>1, <3>2, <3>3
  <2>9. OnceInv'
    BY <2>1, <2>4 DEF OnceInv
  <2> QED BY <2>8, <2>9 DEF Accounted
<1>13. ASSUME NEW t \in Thread, ReturnExhausted(t) PROVE Accounted /\ OnceInv'
  <2>1. PICK i \in active :
            /\ UNCHANGED <<listed, cfg, slot, step>>
            /\ used' = IF cfg[i].type = "wp" THEN FreeSlot("wp", slot[i]) ELSE used
    BY <1>13 DEF ReturnExhausted, Returning
  <2>2. \A ty \in Types : used'[ty] \subseteq used[ty]
    BY <2>1 DEF FreeSlot, TypeOK, Types
  <2> QED BY <2>1, <2>2 DEF Accounted, Held, OnceInv
<1>14. ASSUME NEW t \in Thread, InjectorDetach(t) \/ ThreadStart(t) \/ ThreadExit(t)
       PROVE  Accounted /\ OnceInv'
  BY <1>14, HeldFrame DEF InjectorDetach, ThreadStart, ThreadExit, mgrVars
<1>15. CASE UNCHANGED vars
  BY <1>15, HeldFrame DEF vars, mgrVars
<1> QED
  BY <1>1, <1>2, <1>3, <1>4, <1>5, <1>6, <1>7, <1>8, <1>9, <1>10, <1>11, <1>12, <1>13,
     <1>14, <1>15
  DEF Next, Api, Attach, ThreadStep, HandleException, Lifecycle

\* For every number of threads, comparators and sessions, with detach(), detachAll() and
\* one-shot sessions, whatever the callbacks redirect: whoever lets go of a comparator
\* gives it back, but for the overwritten step-over record.
THEOREM SlotsReturned == Spec => SlotsAccounted
<1> DEFINE Inv == TypeOK /\ SlotInv /\ OnceInv
<1>1. Init => Inv
  BY InitType, InitSlots DEF Init, OnceInv
<1>2. Inv /\ [Next]_vars => Inv'
  BY NextType, NextSlots, NextAccounted
<1>3. Accounted =>
        \A ty \in Types : \A s \in used'[ty] :
            \/ s \in SlotsOf(listed, ty)'
            \/ s \in used[ty] /\ (s \notin SlotsOf(listed, ty) \/ (ty = "bp" /\ Overwritten(s)))
  <2>1. \A ty, s : s \in SlotsOf(listed, ty)' <=> Held(ty, s)'
    BY DEF SlotsOf, Held
  <2> QED BY <2>1, HeldIff DEF Accounted
<1>4. Inv /\ [Next]_vars =>
        [\A ty \in Types : \A s \in used'[ty] :
            \/ s \in SlotsOf(listed, ty)'
            \/ s \in used[ty] /\ (s \notin SlotsOf(listed, ty) \/ (ty = "bp" /\ Overwritten(s)))]_vars
  BY <1>3, NextAccounted
<1> QED BY <1>1, <1>2, <1>4, PTL DEF Spec, SlotsAccounted

-----------------------------------------------------------------------------
(* The API and the registers of sessions it was not asked about.            *)

\* ApiKeepsOthers for the breakpoint sessions, which hold their comparators
\* alone.  A watchpoint session that found no slot for its step-over has given
\* its comparator back but stays in sessions_, so that detaching it disarms
\* whoever has the comparator then.
BreakpointsKept ==
    UNCHANGED thrVars =>
        \A i \in listed \cap active \cap listed', t \in Thread :
            cfg[i].type = "bp" /\ Covered(i, t) => Covered(i, t)'

\* A session whose target, slot and register a step leaves alone stays covered.
LEMMA CoveredKept ==
    ASSUME NEW i, NEW t, cfg[i].type = "bp", Covered(i, t),
           cfg'[i].type = "bp", cfg'[i].addr = cfg[i].addr, slot'[i] = slot[i],
           hwBp'[t][slot[i]] = hwBp[t][slot[i]]
    PROVE  Covered(i, t)'
BY DEF Covered

\* Registers are written by the API in the slots of the sessions it is asked
\* about, and no other breakpoint session has those.
LEMMA ApiKeeps == TypeOK /\ SlotInv /\ [Next]_vars => BreakpointsKept
<1> SUFFICES ASSUME TypeOK, SlotInv, [Next]_vars, UNCHANGED thrVars,
                    NEW i \in listed \cap active \cap listed', NEW t \in Thread,
                    cfg[i].type = "bp", Covered(i, t)
             PROVE  Covered(i, t)'
  BY DEF BreakpointsKept
<1> USE BoundAssumption
<1>0. /\ i \in Id /\ i \in ListedBp /\ i < nextId /\ slot[i] \in Slot /\ slot[i] \in used["bp"]
      /\ hwBp \in [Thread -> [Slot -> Nat]] /\ mode \in [Thread -> Modes] /\ mode' = mode
      /\ hwBp[t][slot[i]] = cfg[i].addr
  BY DEF TypeOK, SlotInv, ListedBp, BpSlotsExclusive, Covered, thrVars
<1>1. ASSUME UNCHANGED <<cfg, slot, hwBp>> PROVE Covered(i, t)'
  BY <1>1, CoveredKept
<1>2. CASE Initialize \/ RefreshCapacity
  BY <1>1, <1>2 DEF Initialize, RefreshCapacity, hwVars
<1>3. ASSUME NEW c \in Config, AttachReuse(c) PROVE Covered(i, t)'
  <2>1. /\ \A d \in ConfigType : [d EXCEPT !.cb = c.cb].addr = d.addr
        /\ cfg'[i] \in {cfg[i], [cfg[i] EXCEPT !.cb = c.cb]} /\ cfg[i] \in ConfigType
    BY <1>0, <1>3 DEF ConfigType, AttachReuse, TypeOK
  <2>2. cfg'[i].type = "bp" /\ cfg'[i].addr = cfg[i].addr
    BY <1>0, <1>3, <2>1, ReuseKeepsType
  <2>3. UNCHANGED <<slot, hwBp>>
    BY <1>3 DEF AttachReuse, hwVars
  <2> QED BY <2>2, <2>3, CoveredKept
<1>4. ASSUME NEW c \in Config, AttachNew(c) PROVE Covered(i, t)'
  <2>1. PICK s \in FreeSlots(c.type) :
            slot' = [slot EXCEPT ![nextId] = s] /\ ArmOnThread(c, Coverage(c), s)
    BY <1>4 DEF AttachNew, AllocateSlot
  <2>2. cfg'[i] = cfg[i] /\ slot'[i] = slot[i]
    BY <1>0, <1>4, <2>1 DEF AttachNew, TypeOK, Id
  <2>3. c.type = "bp" => s # slot[i]
    BY <1>0, <2>1 DEF FreeSlots
  <2>4. hwBp'[t][slot[i]] = hwBp[t][slot[i]]
    <3>1. CASE c.type = "bp"
      BY <1>0, <2>1, <2>3, <3>1 DEF ArmOnThread, GumSetBp
    <3>2. CASE c.type # "bp"
      BY <2>1, <3>2 DEF ArmOnThread
    <3> QED BY <3>1, <3>2
  <2> QED BY <2>2, <2>4, CoveredKept
<1>5. ASSUME NEW c \in Config, AttachUnarmed(c) PROVE Covered(i, t)'
  BY <1>1, <1>5 DEF AttachUnarmed, hwVars
<1>6. ASSUME NEW d \in Id, Detach(d) PROVE Covered(i, t)'
  <2>1. i # d /\ d \in listed /\ UNCHANGED <<cfg, slot>>
    BY <1>6 DEF Detach
  <2>2. slot[i] \notin SlotsOf({d}, "bp")
    BY <1>0, <2>1, SlotsApart
  <2>3. ~(cfg[d].type = "bp" /\ slot[i] = slot[d]) /\ step[d].slot # slot[i]
    BY <2>2 DEF SlotsOf
  <2>4. hwBp'[t][slot[i]] = hwBp[t][slot[i]]
    BY <1>0, <1>6, <2>3 DEF Detach, Disarm
  <2> QED BY <2>1, <2>4, CoveredKept
<1>7. CASE DetachAll
  BY <1>7 DEF DetachAll
<1>8. CASE RearmMissingThreads
  <2> DEFINE arming == {j \in listed : /\ cfg[j].type = "bp" /\ slot[j] = slot[i]
                                       /\ t \in Missing(j) /\ slot[i] < HwSlots["bp"]}
  <2>1. /\ hwBp'[t][slot[i]] = IF arming = {} THEN hwBp[t][slot[i]] ELSE cfg[Highest(arming)].addr
        /\ UNCHANGED <<cfg, slot>>
    BY <1>0, <1>8 DEF RearmMissingThreads
  <2>2. arming \subseteq {i}
    BY <1>0 DEF SlotInv, BpSlotsExclusive, ListedBp
  <2>3. arming # {} => Highest(arming) = i
    BY <1>0, <2>2, HighestIn DEF Id
  <2>4. hwBp'[t][slot[i]] = hwBp[t][slot[i]]
    BY <1>0, <2>1, <2>3
  <2> QED BY <2>1, <2>4, CoveredKept
<1>9. ASSUME NEW u \in Thread, Execute(u) \/ Trap(u) \/ NotOurs(u) PROVE Covered(i, t)'
  BY <1>1, <1>9 DEF Execute, Trap, NotOurs, mgrVars, hwVars
<1>10. ASSUME NEW u \in Thread, \/ StepOverHit(u) \/ Dispatch(u) \/ DispatchOnce(u)
                                \/ ReturnDone(u) \/ ReturnStepOver(u) \/ ReturnExhausted(u)
                                \/ InjectorDetach(u) \/ ThreadStart(u) \/ ThreadExit(u)
       PROVE  FALSE
  <2>1. mode'[u] # mode[u]
    BY <1>0, <1>10 DEF StepOverHit, Dispatch, DispatchOnce, Dispatching, ReturnDone, ReturnStepOver,
                       ReturnExhausted, Returning, InjectorDetach, ThreadStart, ThreadExit
  <2> QED BY <1>0, <2>1
<1>11. CASE UNCHANGED vars
  BY <1>1, <1>11 DEF vars, mgrVars, hwVars
<1> QED
  BY <1>2, <1>3, <1>4, <1>5, <1>6, <1>7, <1>8, <1>9, <1>10, <1>11
  DEF Next, Api, Attach, ThreadStep, HandleException, Lifecycle

\* For every number of threads, comparators and sessions: attach(), detach() and
\* rearmMissingThreads() never touch the register of another breakpoint session.
THEOREM OthersKept == Spec => [][BreakpointsKept]_vars
<1>1. TypeOK /\ SlotInv /\ [Next]_vars => (TypeOK /\ SlotInv)'
  BY NextType, NextSlots
<1> QED BY <1>1, ApiKeeps, InitType, InitSlots, PTL DEF Spec

\* Hence a tool that sets breakpoints only keeps the registers of all its sessions.
THEOREM OnlyBreakpoints ==
    ASSUME \A c \in Config : c.type = "bp"
    PROVE  Spec => ApiKeepsOthers
<1> DEFINE AllBp == \A i \in Id : cfg[i].type = "bp"
           Keeps == UNCHANGED thrVars =>
                       \A i \in listed \cap active \cap listed', t \in Thread :
                           Covered(i, t) => Covered(i, t)'
<1>1. Init => AllBp
  BY DEF Init, NullConfig
<1>2. TypeOK /\ AllBp /\ [Next]_vars => AllBp'
  <2> SUFFICES ASSUME TypeOK, AllBp, [Next]_vars PROVE AllBp'
    OBVIOUS
  <2>1. ASSUME NEW c \in Config, AttachReuse(c) PROVE AllBp'
    BY <2>1, ReuseKeepsType
  <2>2. ASSUME NEW c \in Config, AttachNew(c) PROVE AllBp'
    BY <2>2 DEF AttachNew, TypeOK
  <2>3. ASSUME cfg' = cfg PROVE AllBp'
    BY <2>3
  <2>4. CASE \/ Initialize \/ DetachAll \/ RearmMissingThreads \/ RefreshCapacity
             \/ (\E c \in Config : AttachUnarmed(c)) \/ (\E i \in Id : Detach(i))
    BY <2>3, <2>4 DEF Initialize, AttachUnarmed, Detach, DetachAll, RearmMissingThreads, RefreshCapacity
  <2>5. ASSUME NEW t \in Thread, ThreadStep(t) PROVE AllBp'
    BY <2>3, <2>5 DEF ThreadStep, HandleException, Execute, Trap, StepOverHit, Dispatch, DispatchOnce,
                      Dispatching, NotOurs, ReturnDone, ReturnStepOver, ReturnExhausted, Returning, mgrVars
  <2>6. ASSUME NEW t \in Thread, Lifecycle(t) PROVE AllBp'
    BY <2>3, <2>6 DEF Lifecycle, InjectorDetach, ThreadStart, ThreadExit, mgrVars
  <2>7. CASE UNCHANGED vars
    BY <2>3, <2>7 DEF vars, mgrVars
  <2> HIDE DEF AllBp
  <2> QED BY <2>1, <2>2, <2>4, <2>5, <2>6, <2>7 DEF Next, Api, Attach
<1>3. TypeOK /\ AllBp /\ BreakpointsKept => Keeps
  BY DEF BreakpointsKept, TypeOK
<1>4. TypeOK /\ SlotInv /\ [Next]_vars => (TypeOK /\ SlotInv)'
  BY NextType, NextSlots
<1>5. ApiKeepsOthers <=> [][Keeps]_vars
  BY DEF ApiKeepsOthers
<1> HIDE DEF AllBp, Keeps
<1> QED BY <1>1, <1>2, <1>3, <1>4, <1>5, ApiKeeps, InitType, InitSlots, PTL DEF Spec


-----------------------------------------------------------------------------
(* Sessions bound to a thread.  A session on every thread is handled by       *)
(* whichever thread traps first and has one step-over record for all of them, *)
(* and a session that is detached leaves a trap nobody claims; for sessions   *)
(* bound to one thread each, and never detached, HandleException keeps its    *)
(* promises.                                                                  *)

\* No breakpoint is on an instruction that accesses a watched cell, and no two
\* watchpoints overlap: otherwise the first session in sessions_ claims the
\* exceptions of both.
Separate ==
    \A c, d \in Config : d.type = "wp" =>
        /\ c.type = "bp" /\ c.addr \in Code => Insn[c.addr].cell \notin Watched(d)
        /\ c.type = "wp" /\ c.addr # d.addr => Watched(c) \cap Watched(d) = {}

Bound ==
    /\ \A c \in Config : c.tid \in Thread
    /\ Separate
    /\ Detachable = {}

\* What attach() keeps of a config when it replaces the callback.
Like(c, d) == c.type = d.type /\ c.addr = d.addr /\ c.size = d.size /\ c.tid = d.tid

\* A session covers its thread, and steps over on no other.
BoundTo(i) ==
    /\ \E c \in Config : Like(cfg[i], c)
    /\ armed[i] = {cfg[i].tid}
    /\ step[i].tid \in {NoThread, cfg[i].tid}

\* Live sessions have different targets, and live watchpoints hold their slots alone.
TargetsApart ==
    \A i, j \in active : cfg[i].type = cfg[j].type /\ i # j => cfg[i].addr # cfg[j].addr
WpSlotsExclusive ==
    /\ \A i \in active : cfg[i].type = "wp" => slot[i] \in used["wp"]
    /\ \A i, j \in active :
          cfg[i].type = "wp" /\ cfg[j].type = "wp" /\ i # j => slot[i] # slot[j]

\* Breakpoint register s of thread t is session i's, or its step-over's.
ArmedBp(i, t, s) ==
    /\ cfg[i].type = "bp" /\ slot[i] = s /\ cfg[i].tid = t
    /\ hwBp[t][s] = cfg[i].addr /\ step[i].tid = NoThread
SteppingBp(i, t, s) == step[i].slot = s /\ step[i].tid = t /\ hwBp[t][s] = step[i].pc

\* Watchpoint register s of thread t is session i's.
ArmedWp(i, t, s) ==
    /\ cfg[i].type = "wp" /\ slot[i] = s /\ cfg[i].tid = t
    /\ hwWp[t][s] = Watched(cfg[i]) /\ step[i].tid = NoThread

\* A register that is on is one the CPU has, and some live session's of that thread.
BpOwned ==
    \A t \in Thread, s \in Slot : hwBp[t][s] # 0 =>
        s < HwSlots["bp"] /\ \E i \in active : ArmedBp(i, t, s) \/ SteppingBp(i, t, s)
WpOwned ==
    \A t \in Thread, s \in Slot : hwWp[t][s] # {} =>
        s < HwSlots["wp"] /\ \E i \in active : ArmedWp(i, t, s)

\* The register that stopped a thread is on until the thread is handled.
Caused(t) ==
    \/ mem[t] = NoCell /\ \E s \in Slot : hwBp[t][s] = pc[t]
    \/ mem[t] = Insn[pc[t]].cell /\ \E s \in Slot : mem[t] \in hwWp[t][s]

\* The session whose callback a thread runs is its own, and does not step over.
Running(t) ==
    /\ hit[t] < nextId
    /\ mode[t] = "callback" /\ hit[t] \in active =>
          cfg[hit[t]].tid = t /\ step[hit[t]].tid = NoThread

\* Every marked slot is some listed session's, or its step-over's.
SlotsHeld ==
    \A ty \in Types : \A s \in used[ty] : \E i \in listed :
        (cfg[i].type = ty /\ s = slot[i]) \/ (ty = "bp" /\ s = step[i].slot)

BoundInv ==
    /\ \A i \in listed : BoundTo(i)
    /\ TargetsApart /\ WpSlotsExclusive
    /\ BpOwned /\ WpOwned
    /\ \A t \in Thread : (mode[t] = "trap" => Caused(t)) /\ Running(t)
    /\ SlotsHeld

\* Session i's register is off on thread t.
Off(i, t) == IF cfg[i].type = "bp" THEN hwBp[t][slot[i]] = 0 ELSE hwWp[t][slot[i]] = {}

ManagerInv == TypeOK /\ SlotInv /\ BoundInv

\* What the invariants say of a live session.
LEMMA Live ==
    ASSUME Bound, ManagerInv, NEW i \in active
    PROVE  /\ i \in listed /\ i \in Id /\ i \in Nat /\ i < nextId
           /\ cfg[i] \in ConfigType /\ BoundTo(i) /\ cfg[i].tid \in Thread
           /\ slot[i] \in Slot /\ cfg[i].type \in Types
           /\ cfg[i].type = "bp" => slot[i] \in used["bp"]
           /\ step[i].tid # NoThread => step[i].slot \in used["bp"]
           /\ cfg[i].type = "bp" /\ step[i].tid # NoThread => step[i].slot # slot[i]
           /\ step[i].tid = NoThread => step[i].slot = NoSlot
<1>1. i \in listed /\ i \in Id /\ i \in Nat /\ i < nextId
  BY DEF ManagerInv, SlotInv, TypeOK, Id
<1>2. /\ cfg[i] \in ConfigType /\ slot[i] \in Slot
      /\ step[i].tid = NoThread => step[i].slot = NoSlot
  BY <1>1 DEF ManagerInv, TypeOK, SlotInv
<1>3. BoundTo(i)
  BY <1>1 DEF ManagerInv, BoundInv
<1>4. cfg[i].tid \in Thread
  BY <1>3 DEF Bound, BoundTo, Like
<1>5. cfg[i].type \in Types
  BY <1>2 DEF ConfigType
<1>6. cfg[i].type = "bp" => i \in ListedBp
  BY <1>1 DEF ListedBp
<1>7. step[i].tid # NoThread => i \in Pending
  BY <1>1 DEF Pending
<1>8. /\ cfg[i].type = "bp" => slot[i] \in used["bp"]
      /\ step[i].tid # NoThread => step[i].slot \in used["bp"]
      /\ cfg[i].type = "bp" /\ step[i].tid # NoThread => step[i].slot # slot[i]
  BY <1>6, <1>7 DEF ManagerInv, SlotInv, BpSlotsExclusive
<1> QED BY <1>1, <1>2, <1>3, <1>4, <1>5, <1>8

\* A slot whose register is on is not free.
LEMMA OnUsed ==
    ASSUME Bound, ManagerInv, NEW t \in Thread, NEW s \in Slot
    PROVE  /\ hwBp[t][s] # 0 => s \in used["bp"]
           /\ hwWp[t][s] # {} => s \in used["wp"]
<1>1. ASSUME hwBp[t][s] # 0 PROVE s \in used["bp"]
  <2>1. PICK i \in active : ArmedBp(i, t, s) \/ SteppingBp(i, t, s)
    BY <1>1 DEF ManagerInv, BoundInv, BpOwned
  <2> QED BY <2>1, Live, ThreadAssumption DEF ArmedBp, SteppingBp
<1>2. ASSUME hwWp[t][s] # {} PROVE s \in used["wp"]
  <2>1. PICK i \in active : ArmedWp(i, t, s)
    BY <1>2 DEF ManagerInv, BoundInv, WpOwned
  <2> QED BY <2>1 DEF ManagerInv, BoundInv, WpSlotsExclusive, ArmedWp
<1> QED BY <1>1, <1>2

\* Two live sessions do not claim the same watched access, whatever their types.
LEMMA WatchedApart ==
    ASSUME Bound, ManagerInv, NEW i \in active, NEW j \in active, cfg[j].type = "wp", NEW a \in Code,
           Insn[a].cell \in Watched(cfg[j]),
           cfg[i].type = "bp" => a = cfg[i].addr,
           cfg[i].type = "wp" => Insn[a].cell \in Watched(cfg[i])
    PROVE  i = j
<1>1. PICK c \in Config : Like(cfg[i], c)
  BY Live DEF BoundTo
<1>2. PICK d \in Config : Like(cfg[j], d)
  BY Live DEF BoundTo
<1>3. Watched(cfg[i]) = Watched(c) /\ Watched(cfg[j]) = Watched(d)
  BY <1>1, <1>2 DEF Watched, Like
<1>4. cfg[i].type \in Types
  BY Live
<1>5. cfg[i].type # "bp"
  BY <1>1, <1>2, <1>3 DEF Bound, Separate, Like
<1>6. cfg[i].type = "wp"
  BY <1>4, <1>5 DEF Types
<1>7. cfg[i].addr = cfg[j].addr
  BY <1>1, <1>2, <1>3, <1>6 DEF Bound, Separate, Like
<1> QED BY <1>6, <1>7 DEF ManagerInv, BoundInv, TargetsApart

\* The session that claims a thread's exception is the one whose register raised it: it
\* is the thread's own, its register is on and it is not stepping over.
LEMMA Claims ==
    ASSUME Bound, ManagerInv, NEW t \in Thread, mode[t] = "trap", Stepping(t) = {}
    PROVE  /\ Claimed(t) # {}
           /\ \A i \in Claimed(t) : /\ i \in active /\ cfg[i].tid = t /\ step[i].tid = NoThread
                                    /\ ~Off(i, t)
<1>0. pc[t] \in Code /\ pc[t] # 0 /\ mem[t] \in Nat
  BY DEF ManagerInv, TypeOK, Code
<1>c. \A i \in Claimed(t) : i \in active /\ Matches(i, t)
  BY DEF Claimed
<1>a. \A i \in active : Matches(i, t) => i \in Claimed(t)
  BY Live DEF Claimed
<1>1. CASE mem[t] = NoCell /\ \E s \in Slot : hwBp[t][s] = pc[t]
  <2>1. PICK s \in Slot : hwBp[t][s] = pc[t]
    BY <1>1
  <2>2. PICK j \in active : ArmedBp(j, t, s) \/ SteppingBp(j, t, s)
    BY <1>0, <2>1 DEF ManagerInv, BoundInv, BpOwned
  <2>3. ~SteppingBp(j, t, s)
    BY <2>1, Live DEF SteppingBp, Stepping
  <2>4. ArmedBp(j, t, s)
    BY <2>2, <2>3
  <2>5. j \in Claimed(t) /\ cfg[j].tid = t /\ step[j].tid = NoThread /\ ~Off(j, t)
    BY <1>0, <1>a, <2>1, <2>4 DEF ArmedBp, Matches, Off
  <2>6. \A i \in Claimed(t) : i = j
    <3> TAKE i \in Claimed(t)
    <3>1. cfg[i].type \in Types /\ cfg[i] \in ConfigType
      BY <1>c, Live
    <3>2. cfg[i].type = "bp"
      <4>1. 0 \notin Watched(cfg[i])
        BY <3>1 DEF Watched, ConfigType
      <4> QED BY <1>1, <1>c, <3>1, <4>1 DEF Matches, Types, NoCell
    <3> QED BY <1>c, <2>1, <2>4, <3>2 DEF Matches, ArmedBp, ManagerInv, BoundInv, TargetsApart
  <2> QED BY <1>c, <2>5, <2>6
<1>2. CASE mem[t] = Insn[pc[t]].cell /\ \E s \in Slot : mem[t] \in hwWp[t][s]
  <2>1. PICK s \in Slot : mem[t] \in hwWp[t][s]
    BY <1>2
  <2>2. PICK j \in active : ArmedWp(j, t, s)
    BY <2>1 DEF ManagerInv, BoundInv, WpOwned
  <2>3. mem[t] \in Watched(cfg[j]) /\ cfg[j].type = "wp"
    BY <2>1, <2>2 DEF ArmedWp
  <2>5. j \in Claimed(t) /\ cfg[j].tid = t /\ step[j].tid = NoThread /\ ~Off(j, t)
    BY <1>a, <2>1, <2>2, <2>3 DEF ArmedWp, Matches, Off
  <2>6. \A i \in Claimed(t) : i = j
    <3> TAKE i \in Claimed(t)
    <3>1. cfg[i].type \in Types
      BY <1>c, Live
    <3>2. /\ cfg[i].type = "bp" => pc[t] = cfg[i].addr
          /\ cfg[i].type = "wp" => Insn[pc[t]].cell \in Watched(cfg[i])
      BY <1>2, <1>c DEF Matches
    <3> QED BY <1>0, <1>2, <1>c, <2>3, <3>2, WatchedApart
  <2> QED BY <1>c, <2>5, <2>6
<1> QED BY <1>1, <1>2 DEF ManagerInv, BoundInv, Caused

\* The registers after a write.
LEMMA BpWritten ==
    ASSUME NEW hw \in [Thread -> [Slot -> Nat]], NEW T, NEW s, NEW a, NEW u \in Thread, NEW r \in Slot
    PROVE  GumSetBp(hw, T, s, a)[u][r] =
             IF u \in T /\ s < HwSlots["bp"] /\ r = s THEN a ELSE hw[u][r]
BY DEF GumSetBp
\* The same for watchpoints.
LEMMA WpWritten ==
    ASSUME NEW hw \in [Thread -> [Slot -> SUBSET Nat]], NEW T, NEW s, NEW a, NEW u \in Thread, NEW r \in Slot
    PROVE  GumSetWp(hw, T, s, a)[u][r] =
             IF u \in T /\ s < HwSlots["wp"] /\ r = s THEN a ELSE hw[u][r]
BY DEF GumSetWp

\* Steps that leave the sessions and the registers alone.
LEMMA BoundFrame ==
    ASSUME BoundInv, UNCHANGED <<used, nextId, listed, active, cfg, slot, armed, step, hwBp, hwWp>>,
           \A t \in Thread : (mode'[t] = "trap" => Caused(t)') /\ Running(t)'
    PROVE  BoundInv'
<1>1. \A i \in listed : BoundTo(i)'
  BY DEF BoundInv, BoundTo
<1>2. TargetsApart' /\ WpSlotsExclusive' /\ SlotsHeld'
  BY DEF BoundInv, TargetsApart, WpSlotsExclusive, SlotsHeld
<1>3. BpOwned'
  BY DEF BoundInv, BpOwned, ArmedBp, SteppingBp
<1>4. WpOwned'
  BY DEF BoundInv, WpOwned, ArmedWp
<1> QED BY <1>1, <1>2, <1>3, <1>4 DEF BoundInv

\* A thread whose registers, place and session a step leaves alone.
LEMMA ThreadKept ==
    ASSUME ManagerInv, NEW u \in Thread, mode'[u] = mode[u], pc'[u] = pc[u], mem'[u] = mem[u],
           hit'[u] = hit[u], nextId' \in Int, nextId <= nextId',
           \A s \in Slot : hwBp'[u][s] = hwBp[u][s] /\ hwWp'[u][s] = hwWp[u][s],
           mode[u] = "callback" /\ hit[u] \in active' =>
              hit[u] \in active /\ cfg'[hit[u]].tid = cfg[hit[u]].tid
                                /\ (step'[hit[u]] = step[hit[u]] \/ step'[hit[u]] = NoStep)
    PROVE  (mode'[u] = "trap" => Caused(u)') /\ Running(u)'
<1>0. hit[u] \in Int /\ nextId \in Int /\ (mode[u] = "trap" => Caused(u)) /\ Running(u)
  BY DEF ManagerInv, TypeOK, Id, BoundInv
<1>1. mode'[u] = "trap" => Caused(u)'
  BY <1>0 DEF Caused
<1>2. Running(u)'
  BY <1>0 DEF Running, NoStep
<1> QED BY <1>1, <1>2

\* Steps of the API that make no session.
LEMMA ApiBound ==
    ASSUME Bound, ManagerInv, Initialize \/ RefreshCapacity \/ \E c \in Config : AttachUnarmed(c)
    PROVE  BoundInv'
<1>1. /\ UNCHANGED <<used, listed, active, cfg, slot, armed, step, hwBp, hwWp>>
      /\ UNCHANGED <<mode, pc, mem, hit>>
      /\ nextId' \in {nextId, nextId + 1} /\ nextId \in Int
  BY DEF Initialize, RefreshCapacity, AttachUnarmed, hwVars, thrVars, ManagerInv, TypeOK
<1>2. \A u \in Thread : (mode'[u] = "trap" => Caused(u)') /\ Running(u)'
  BY <1>1, ThreadKept
<1>3. \A i \in listed : BoundTo(i)'
  BY <1>1 DEF ManagerInv, BoundInv, BoundTo
<1>4. TargetsApart' /\ WpSlotsExclusive' /\ SlotsHeld'
  BY <1>1 DEF ManagerInv, BoundInv, TargetsApart, WpSlotsExclusive, SlotsHeld
<1>5. BpOwned' /\ WpOwned'
  BY <1>1 DEF ManagerInv, BoundInv, BpOwned, ArmedBp, SteppingBp, WpOwned, ArmedWp
<1> QED BY <1>1, <1>2, <1>3, <1>4, <1>5 DEF BoundInv

\* Nothing can be detached, and every session covers its thread already.
LEMMA ApiIdle ==
    ASSUME Bound, ManagerInv
    PROVE  /\ ~RearmMissingThreads /\ ~DetachAll
           /\ \A i \in Id : ~Detach(i)
<1>1. \A i \in listed : Missing(i) = {}
  <2> TAKE i \in listed
  <2>1. BoundTo(i) /\ i \in Id
    BY DEF ManagerInv, BoundInv, TypeOK
  <2>2. cfg[i].tid \in Thread /\ armed[i] = {cfg[i].tid}
    BY <2>1 DEF Bound, BoundTo, Like
  <2> QED BY <2>2, ThreadAssumption DEF Missing, Coverage
<1> QED BY <1>1 DEF RearmMissingThreads, DetachAll, Detach, Bound

\* Replacing a callback changes nothing that the invariant is about.
LEMMA ReuseBound ==
    ASSUME Bound, ManagerInv, NEW c \in Config, AttachReuse(c)
    PROVE  BoundInv'
<1>0. TypeOK
  BY DEF ManagerInv
<1>1. \A d \in ConfigType : Like([d EXCEPT !.cb = c.cb], d)
  BY DEF ConfigType, Like
<1>2. \A i \in Id : cfg'[i] \in {cfg[i], [cfg[i] EXCEPT !.cb = c.cb]} /\ cfg[i] \in ConfigType
  BY <1>0 DEF AttachReuse, TypeOK
<1>3. \A i \in Id : Like(cfg'[i], cfg[i])
  BY <1>1, <1>2 DEF Like
<1>4. /\ UNCHANGED <<used, nextId, listed, active, slot, armed, step, hwBp, hwWp>>
      /\ UNCHANGED <<mode, pc, mem, hit>>
  BY DEF AttachReuse, hwVars, thrVars
<1>5. listed \subseteq Id /\ active \subseteq Id /\ active \subseteq listed /\ nextId \in Int
  BY DEF ManagerInv, TypeOK, SlotInv
<1>6. \A u \in Thread : (mode'[u] = "trap" => Caused(u)') /\ Running(u)'
  BY <1>3, <1>4, <1>5, ThreadKept DEF Like
<1>7. \A i \in listed : BoundTo(i)'
  <2> TAKE i \in listed
  <2>1. BoundTo(i) /\ Like(cfg'[i], cfg[i])
    BY <1>3, <1>5 DEF ManagerInv, BoundInv
  <2> QED BY <1>4, <2>1 DEF BoundTo, Like
<1>8. TargetsApart' /\ WpSlotsExclusive' /\ SlotsHeld'
  <2>1. TargetsApart'
    BY <1>3, <1>4, <1>5 DEF ManagerInv, BoundInv, TargetsApart, Like
  <2>2. WpSlotsExclusive'
    BY <1>3, <1>4, <1>5 DEF ManagerInv, BoundInv, WpSlotsExclusive, Like
  <2>3. SlotsHeld'
    BY <1>3, <1>4, <1>5 DEF ManagerInv, BoundInv, SlotsHeld, Like
  <2> QED BY <2>1, <2>2, <2>3
<1>9. BpOwned'
  BY <1>3, <1>4, <1>5 DEF ManagerInv, BoundInv, BpOwned, ArmedBp, SteppingBp, Like
<1>10. WpOwned'
  <2>1. \A i \in Id : Watched(cfg'[i]) = Watched(cfg[i])
    BY <1>3 DEF Watched, Like
  <2> QED BY <1>3, <1>4, <1>5, <2>1 DEF ManagerInv, BoundInv, WpOwned, ArmedWp, Like
<1> QED BY <1>4, <1>6, <1>7, <1>8, <1>9, <1>10 DEF BoundInv

\* A new session takes a slot whose register is off.
LEMMA NewBound ==
    ASSUME Bound, ManagerInv, NEW c \in Config, AttachNew(c)
    PROVE  BoundInv'
<1>0. TypeOK /\ SlotInv /\ BoundInv
  BY DEF ManagerInv
<1>n. PICK n \in Id : n = nextId
  BY <1>0 DEF AttachNew, TypeOK, Id
<1>1. n \in Id /\ n \notin listed /\ n \notin active /\ step[n] = NoStep /\ n \in Int
  BY <1>0, <1>n DEF TypeOK, SlotInv, Id
<1>2. PICK s \in FreeSlots(c.type) : /\ used' = Mark(c.type, s)
                                     /\ slot' = [slot EXCEPT ![n] = s]
                                     /\ ArmOnThread(c, Coverage(c), s)
  BY <1>n DEF AttachNew, AllocateSlot
<1>3. /\ nextId' = n + 1 /\ listed' = listed \cup {n} /\ active' = active \cup {n}
      /\ cfg' = [cfg EXCEPT ![n] = c] /\ armed' = [armed EXCEPT ![n] = Coverage(c)] /\ step' = step
      /\ UNCHANGED <<mode, pc, mem, hit>>
  BY <1>n DEF AttachNew, thrVars
<1>4. c \in ConfigType /\ c.type \in Types /\ c.tid \in Thread /\ Coverage(c) = {c.tid}
  BY ConfigAssumption, ThreadAssumption DEF AttachNew, Coverage, Bound, ConfigType
<1>5. s \in Slot /\ s \notin used[c.type]
  BY <1>2 DEF FreeSlots
<1>6. /\ cfg'[n] = c /\ slot'[n] = s /\ armed'[n] = {c.tid} /\ step'[n].tid = NoThread
      /\ \A i \in Id : i # n => cfg'[i] = cfg[i] /\ slot'[i] = slot[i] /\ armed'[i] = armed[i]
  BY <1>0, <1>1, <1>2, <1>3, <1>4 DEF TypeOK, NoStep
<1>7. \A ty \in Types : used'[ty] = IF ty = c.type THEN used[ty] \cup {s} ELSE used[ty]
  BY <1>0, <1>2, <1>4 DEF TypeOK, Mark
<1>8. \A u \in Thread, r \in Slot :
        /\ hwBp'[u][r] = IF c.type = "bp" /\ u = c.tid /\ s < HwSlots["bp"] /\ r = s THEN c.addr
                         ELSE hwBp[u][r]
        /\ hwWp'[u][r] = IF c.type = "wp" /\ u = c.tid /\ s < HwSlots["wp"] /\ r = s THEN Watched(c)
                         ELSE hwWp[u][r]
  <2>1. ASSUME NEW u \in Thread, NEW r \in Slot
        PROVE  hwBp'[u][r] = IF c.type = "bp" /\ u = c.tid /\ s < HwSlots["bp"] /\ r = s THEN c.addr
                             ELSE hwBp[u][r]
    <3>1. hwBp \in [Thread -> [Slot -> Nat]]
      BY <1>0 DEF TypeOK
    <3>2. hwBp' = IF c.type = "bp" THEN GumSetBp(hwBp, {c.tid}, s, c.addr) ELSE hwBp
      BY <1>2, <1>4 DEF ArmOnThread
    <3>3. GumSetBp(hwBp, {c.tid}, s, c.addr)[u][r] =
             IF u \in {c.tid} /\ s < HwSlots["bp"] /\ r = s THEN c.addr ELSE hwBp[u][r]
      BY <3>1, BpWritten
    <3> QED BY <3>2, <3>3
  <2>2. ASSUME NEW u \in Thread, NEW r \in Slot
        PROVE  hwWp'[u][r] = IF c.type = "wp" /\ u = c.tid /\ s < HwSlots["wp"] /\ r = s THEN Watched(c)
                             ELSE hwWp[u][r]
    <3>1. hwWp \in [Thread -> [Slot -> SUBSET Nat]]
      BY <1>0 DEF TypeOK
    <3>2. hwWp' = IF c.type = "wp" THEN GumSetWp(hwWp, {c.tid}, s, Watched(c)) ELSE hwWp
      BY <1>2, <1>4 DEF ArmOnThread
    <3>3. GumSetWp(hwWp, {c.tid}, s, Watched(c))[u][r] =
             IF u \in {c.tid} /\ s < HwSlots["wp"] /\ r = s THEN Watched(c) ELSE hwWp[u][r]
      BY <3>1, WpWritten
    <3> QED BY <3>2, <3>3
  <2> QED BY <2>1, <2>2
<1>9. listed \subseteq Id /\ active \subseteq Id /\ active \subseteq listed
  BY <1>0 DEF TypeOK, SlotInv
<1>10. \A i \in listed' : BoundTo(i)'
  <2>1. BoundTo(n)'
    BY <1>6 DEF BoundTo, Like
  <2>2. \A i \in listed : BoundTo(i)'
    BY <1>0, <1>1, <1>3, <1>6, <1>9 DEF BoundInv, BoundTo, Like
  <2> QED BY <1>3, <2>1, <2>2
<1>11. TargetsApart'
  <2>1. \A i \in active : cfg[i].type = c.type => cfg[i].addr # c.addr
    BY <1>9 DEF AttachNew, SameTarget
  <2> QED BY <1>0, <1>1, <1>3, <1>6, <1>9, <2>1 DEF BoundInv, TargetsApart
<1>12. WpSlotsExclusive'
  <2>1. \A i \in active : cfg'[i] = cfg[i] /\ slot'[i] = slot[i]
    BY <1>1, <1>6, <1>9
  <2>2. "wp" \in Types
    BY DEF Types
  <2>3. used["wp"] \subseteq used'["wp"] /\ (c.type = "wp" => s \in used'["wp"] /\ s \notin used["wp"])
    BY <1>5, <1>7, <2>2
  <2>4. WpSlotsExclusive
    BY <1>0 DEF BoundInv
  <2>5. \A i \in active' : cfg'[i].type = "wp" => slot'[i] \in used'["wp"]
    BY <1>3, <1>6, <2>1, <2>3, <2>4 DEF WpSlotsExclusive
  <2>6. \A i \in active : cfg'[i].type = "wp" /\ cfg'[n].type = "wp" => slot'[i] # slot'[n]
    BY <1>6, <2>1, <2>3, <2>4 DEF WpSlotsExclusive
  <2>7. \A i, j \in active : cfg'[i].type = "wp" /\ cfg'[j].type = "wp" /\ i # j => slot'[i] # slot'[j]
    BY <2>1, <2>4 DEF WpSlotsExclusive
  <2> QED BY <1>3, <2>5, <2>6, <2>7 DEF WpSlotsExclusive
<1>13. BpOwned'
  <2> SUFFICES ASSUME NEW u \in Thread, NEW r \in Slot, hwBp'[u][r] # 0
               PROVE  r < HwSlots["bp"] /\ \E i \in active' : ArmedBp(i, u, r)' \/ SteppingBp(i, u, r)'
    BY DEF BpOwned
  <2>1. CASE c.type = "bp" /\ u = c.tid /\ s < HwSlots["bp"] /\ r = s
    <3>1. ArmedBp(n, u, r)'
      BY <1>3, <1>6, <1>8, <2>1 DEF ArmedBp
    <3> QED BY <1>3, <2>1, <3>1
  <2>2. CASE ~(c.type = "bp" /\ u = c.tid /\ s < HwSlots["bp"] /\ r = s)
    <3>1. hwBp'[u][r] = hwBp[u][r]
      BY <1>8, <2>2
    <3>2. r < HwSlots["bp"]
      BY <1>0, <3>1 DEF BoundInv, BpOwned
    <3>3. PICK i \in active : ArmedBp(i, u, r) \/ SteppingBp(i, u, r)
      BY <1>0, <3>1 DEF BoundInv, BpOwned
    <3>4. i \in Id /\ i # n
      BY <1>1, <1>9
    <3>5. ArmedBp(i, u, r)' \/ SteppingBp(i, u, r)'
      BY <1>3, <1>6, <3>1, <3>3, <3>4 DEF ArmedBp, SteppingBp
    <3> QED BY <1>3, <3>2, <3>5
  <2> QED BY <2>1, <2>2
<1>14. WpOwned'
  <2> SUFFICES ASSUME NEW u \in Thread, NEW r \in Slot, hwWp'[u][r] # {}
               PROVE  r < HwSlots["wp"] /\ \E i \in active' : ArmedWp(i, u, r)'
    BY DEF WpOwned
  <2>1. CASE c.type = "wp" /\ u = c.tid /\ s < HwSlots["wp"] /\ r = s
    <3>1. ArmedWp(n, u, r)'
      BY <1>3, <1>6, <1>8, <2>1 DEF ArmedWp
    <3> QED BY <1>3, <2>1, <3>1
  <2>2. CASE ~(c.type = "wp" /\ u = c.tid /\ s < HwSlots["wp"] /\ r = s)
    <3>1. hwWp'[u][r] = hwWp[u][r]
      BY <1>8, <2>2
    <3>2. r < HwSlots["wp"]
      BY <1>0, <3>1 DEF BoundInv, WpOwned
    <3>3. PICK i \in active : ArmedWp(i, u, r)
      BY <1>0, <3>1 DEF BoundInv, WpOwned
    <3>4. i \in Id /\ i # n
      BY <1>1, <1>9
    <3>5. ArmedWp(i, u, r)'
      BY <1>3, <1>6, <3>1, <3>3, <3>4 DEF ArmedWp
    <3> QED BY <1>3, <3>2, <3>5
  <2> QED BY <2>1, <2>2
<1>15. ASSUME NEW u \in Thread PROVE (mode'[u] = "trap" => Caused(u)') /\ Running(u)'
  <2>0. hit[u] \in Int /\ pc[u] \in Code /\ 0 \notin Code
    BY <1>0 DEF TypeOK, Id, Code
  <2>1. \A r \in Slot : /\ hwBp[u][r] # 0 => hwBp'[u][r] = hwBp[u][r]
                        /\ hwWp[u][r] # {} => hwWp'[u][r] = hwWp[u][r]
    BY <1>5, <1>8, OnUsed
  <2>2. mode'[u] = "trap" => Caused(u)'
    <3> SUFFICES ASSUME mode'[u] = "trap" PROVE Caused(u)'
      OBVIOUS
    <3>1. Caused(u)
      BY <1>0, <1>3 DEF BoundInv
    <3> QED BY <1>3, <2>0, <2>1, <3>1 DEF Caused
  <2>3. Running(u)
    BY <1>0 DEF BoundInv
  <2>4. hit[u] \in active' => hit[u] \in active /\ cfg'[hit[u]] = cfg[hit[u]]
    BY <1>n, <1>3, <1>6, <1>9, <2>0, <2>3 DEF Running
  <2>5. Running(u)'
    BY <1>n, <1>1, <1>3, <2>0, <2>3, <2>4 DEF Running
  <2> QED BY <2>2, <2>5
<1>16. SlotsHeld'
  <2> SUFFICES ASSUME NEW ty \in Types, NEW r \in used'[ty]
               PROVE  \E i \in listed' : \/ cfg'[i].type = ty /\ r = slot'[i]
                                         \/ ty = "bp" /\ r = step'[i].slot
    BY DEF SlotsHeld
  <2>1. CASE ty = c.type /\ r = s
    BY <1>3, <1>6, <2>1
  <2>2. CASE r \in used[ty]
    <3>1. PICK i \in listed : (cfg[i].type = ty /\ r = slot[i]) \/ (ty = "bp" /\ r = step[i].slot)
      BY <1>0, <2>2 DEF BoundInv, SlotsHeld
    <3>2. cfg'[i] = cfg[i] /\ slot'[i] = slot[i] /\ step'[i] = step[i] /\ i \in listed'
      BY <1>1, <1>3, <1>6, <1>9
    <3> QED BY <3>1, <3>2
  <2> QED BY <1>7, <2>1, <2>2
<1> QED BY <1>10, <1>11, <1>12, <1>13, <1>14, <1>15, <1>16 DEF BoundInv

\* Steps of threads that change neither sessions nor registers.
LEMMA QuietBound ==
    ASSUME Bound, ManagerInv, NEW t \in Thread,
           Execute(t) \/ Trap(t) \/ NotOurs(t) \/ Dispatch(t) \/ ReturnDone(t)
             \/ InjectorDetach(t) \/ ThreadStart(t)
    PROVE  BoundInv'
<1>0. TypeOK /\ SlotInv /\ BoundInv
  BY DEF ManagerInv
<1>1. UNCHANGED <<used, nextId, listed, active, cfg, slot, armed, step, hwBp, hwWp>>
  BY DEF Execute, Trap, NotOurs, Dispatch, Dispatching, ReturnDone, Returning, InjectorDetach,
         ThreadStart, mgrVars, hwVars
<1>2. nextId \in Int /\ nextId >= 1 /\ hit[t] \in Int
  BY <1>0 DEF TypeOK, Id
<1>3. ASSUME NEW u \in Thread, u # t PROVE (mode'[u] = "trap" => Caused(u)') /\ Running(u)'
  <2>1. mode'[u] = mode[u] /\ pc'[u] = pc[u] /\ mem'[u] = mem[u] /\ hit'[u] = hit[u]
    BY <1>0, <1>3 DEF Execute, Trap, NotOurs, Dispatch, Dispatching, ReturnDone, Returning,
                      InjectorDetach, ThreadStart, thrVars, TypeOK
  <2> QED BY <1>1, <1>2, <2>1, ThreadKept
<1>4. CASE Execute(t) \/ ReturnDone(t) \/ InjectorDetach(t) \/ ThreadStart(t)
  <2>1. mode'[t] = "run" /\ hit'[t] \in {hit[t], 0}
    BY <1>0, <1>4 DEF Execute, ReturnDone, Returning, InjectorDetach, ThreadStart, TypeOK
  <2>2. (mode'[t] = "trap" => Caused(t)') /\ Running(t)'
    BY <1>0, <1>1, <1>2, <2>1 DEF BoundInv, Running
  <2> QED BY <1>0, <1>1, <1>3, <2>2, BoundFrame
<1>5. CASE Trap(t)
  <2>1. /\ mode'[t] = "trap" /\ hit' = hit /\ pc' = pc
        /\ mem'[t] = IF BpFires(t) THEN NoCell ELSE Insn[pc[t]].cell
        /\ BpFires(t) \/ WpFires(t)
    BY <1>0, <1>5 DEF Trap, TypeOK
  <2>2. Caused(t)'
    BY <1>1, <2>1 DEF Caused, BpFires, WpFires
  <2>3. Running(t)'
    BY <1>0, <1>1, <2>1 DEF BoundInv, Running
  <2> QED BY <1>0, <1>1, <1>3, <2>2, <2>3, BoundFrame
<1>6. CASE NotOurs(t)
  <2>1. UNCHANGED <<mode, pc, mem, hit>>
    BY <1>6 DEF NotOurs, thrVars
  <2>2. (mode'[t] = "trap" => Caused(t)') /\ Running(t)'
    BY <1>1, <1>2, <2>1, ThreadKept
  <2> QED BY <1>0, <1>1, <1>3, <2>2, BoundFrame
<1>7. CASE Dispatch(t)
  <2>1. PICK i \in listed : Dispatching(t, i)
    BY <1>7 DEF Dispatch
  <2>2. /\ mode[t] = "trap" /\ Stepping(t) = {} /\ Claimed(t) # {} /\ i = Lowest(Claimed(t))
        /\ mode'[t] = "callback" /\ hit'[t] = i
    BY <1>0, <2>1 DEF Dispatching, TypeOK
  <2>3. Claimed(t) \subseteq Nat
    <3>1. listed \subseteq Id /\ Id \subseteq Nat
      BY <1>0 DEF TypeOK, Id
    <3> QED BY <3>1 DEF Claimed
  <2>4. i \in Claimed(t)
    BY <2>2, <2>3, LowestIn
  <2>5. cfg[i].tid = t /\ step[i].tid = NoThread /\ i < nextId
    BY <1>0, <2>2, <2>4, Claims DEF SlotInv
  <2>6. (mode'[t] = "trap" => Caused(t)') /\ Running(t)'
    BY <1>1, <2>2, <2>5 DEF Running
  <2> QED BY <1>0, <1>1, <1>3, <2>6, BoundFrame
<1> QED BY <1>4, <1>5, <1>6, <1>7

\* A thread that exits takes its registers with it.
LEMMA ExitBound ==
    ASSUME Bound, ManagerInv, NEW t \in Thread, ThreadExit(t)
    PROVE  BoundInv'
<1>0. TypeOK /\ SlotInv /\ BoundInv
  BY DEF ManagerInv
<1>1. UNCHANGED <<used, nextId, listed, active, cfg, slot, armed, step, pc, mem, hit>>
  BY DEF ThreadExit, mgrVars
<1>2. /\ mode'[t] = "absent" /\ \A s \in Slot : hwBp'[t][s] = 0 /\ hwWp'[t][s] = {}
      /\ \A u \in Thread : u # t => mode'[u] = mode[u] /\ hwBp'[u] = hwBp[u] /\ hwWp'[u] = hwWp[u]
  BY <1>0 DEF ThreadExit, TypeOK
<1>3. nextId \in Int
  BY <1>0 DEF TypeOK
<1>4. \A u \in Thread : (mode'[u] = "trap" => Caused(u)') /\ Running(u)'
  <2>1. ASSUME NEW u \in Thread, u # t PROVE (mode'[u] = "trap" => Caused(u)') /\ Running(u)'
    BY <1>1, <1>2, <1>3, <2>1, ThreadKept
  <2>2. (mode'[t] = "trap" => Caused(t)') /\ Running(t)'
    BY <1>0, <1>1, <1>2 DEF BoundInv, Running
  <2> QED BY <2>1, <2>2
<1>5. \A i \in listed : BoundTo(i)'
  BY <1>0, <1>1 DEF BoundInv, BoundTo
<1>6. TargetsApart' /\ WpSlotsExclusive' /\ SlotsHeld'
  BY <1>0, <1>1 DEF BoundInv, TargetsApart, WpSlotsExclusive, SlotsHeld
<1>7. BpOwned'
  BY <1>0, <1>1, <1>2 DEF BoundInv, BpOwned, ArmedBp, SteppingBp
<1>8. WpOwned'
  BY <1>0, <1>1, <1>2 DEF BoundInv, WpOwned, ArmedWp
<1> QED BY <1>1, <1>4, <1>5, <1>6, <1>7, <1>8 DEF BoundInv

\* The step-over is finished: the register that ended it goes off, the session's goes on.
LEMMA StepOverBound ==
    ASSUME Bound, ManagerInv, NEW t \in Thread, StepOverHit(t)
    PROVE  BoundInv'
<1>0. TypeOK /\ SlotInv /\ BoundInv
  BY DEF ManagerInv
<1>1. PICK i \in Stepping(t) : i = Lowest(Stepping(t))
  <2>1. Stepping(t) \subseteq Nat /\ Stepping(t) # {}
    <3>1. listed \subseteq Id /\ Id \subseteq Nat
      BY <1>0 DEF TypeOK, Id
    <3> QED BY <3>1 DEF StepOverHit, Stepping
  <2> QED BY <2>1, LowestIn
<1>2. i \in active /\ step[i].tid = t /\ step[i].tid # NoThread
  BY <1>1, ThreadAssumption DEF Stepping
<1>3. /\ i \in listed /\ i \in Id /\ cfg[i].tid = t /\ slot[i] \in Slot /\ step[i].slot \in used["bp"]
      /\ cfg[i].type = "bp" => step[i].slot # slot[i]
      /\ cfg[i].type \in Types /\ cfg[i] \in ConfigType
  BY <1>2, Live DEF BoundTo
<1>4. /\ UNCHANGED <<nextId, listed, active, cfg, slot, armed, pc, mem, hit>>
      /\ used' = FreeSlot("bp", step[i].slot) /\ step' = [step EXCEPT ![i] = NoStep]
      /\ mode' = [mode EXCEPT ![t] = "run"]
  BY <1>1 DEF StepOverHit
<1>5. step[i].slot \in Slot
  BY <1>0, <1>3 DEF TypeOK, Types
<1>6. /\ step'[i].tid = NoThread /\ \A j \in Id : j # i => step'[j] = step[j]
      /\ used'["bp"] = used["bp"] \ {step[i].slot} /\ used'["wp"] = used["wp"]
      /\ mode'[t] = "run" /\ \A u \in Thread : u # t => mode'[u] = mode[u]
  BY <1>0, <1>3, <1>4 DEF TypeOK, NoStep, FreeSlot, Types
<1>7. \A u \in Thread, r \in Slot :
        hwBp'[u][r] = IF cfg[i].type = "bp" /\ u = t /\ slot[i] < HwSlots["bp"] /\ r = slot[i] THEN cfg[i].addr
                      ELSE IF u = t /\ step[i].slot < HwSlots["bp"] /\ r = step[i].slot THEN 0
                      ELSE hwBp[u][r]
  <2> TAKE u \in Thread, r \in Slot
  <2> DEFINE hw == GumSetBp(hwBp, {t}, step[i].slot, 0)
  <2>1. hwBp \in [Thread -> [Slot -> Nat]] /\ hw \in [Thread -> [Slot -> Nat]]
    BY <1>0, GumSetBpType DEF TypeOK
  <2>2. hwBp' = IF cfg[i].type = "bp" THEN GumSetBp(hw, {t}, slot[i], cfg[i].addr) ELSE hw
    BY <1>1 DEF StepOverHit
  <2>3. hw[u][r] = IF u \in {t} /\ step[i].slot < HwSlots["bp"] /\ r = step[i].slot THEN 0 ELSE hwBp[u][r]
    BY <2>1, BpWritten
  <2> HIDE DEF hw
  <2>4. GumSetBp(hw, {t}, slot[i], cfg[i].addr)[u][r] =
          IF u \in {t} /\ slot[i] < HwSlots["bp"] /\ r = slot[i] THEN cfg[i].addr ELSE hw[u][r]
    BY <2>1, BpWritten
  <2> QED BY <2>2, <2>3, <2>4
<1>8. \A u \in Thread, r \in Slot :
        hwWp'[u][r] = IF cfg[i].type = "wp" /\ u = t /\ slot[i] < HwSlots["wp"] /\ r = slot[i]
                      THEN Watched(cfg[i]) ELSE hwWp[u][r]
  <2> TAKE u \in Thread, r \in Slot
  <2>1. hwWp \in [Thread -> [Slot -> SUBSET Nat]]
    BY <1>0 DEF TypeOK
  <2>2. hwWp' = IF cfg[i].type = "wp" THEN GumSetWp(hwWp, {t}, slot[i], Watched(cfg[i])) ELSE hwWp
    BY <1>1 DEF StepOverHit
  <2>3. GumSetWp(hwWp, {t}, slot[i], Watched(cfg[i]))[u][r] =
          IF u \in {t} /\ slot[i] < HwSlots["wp"] /\ r = slot[i] THEN Watched(cfg[i]) ELSE hwWp[u][r]
    BY <2>1, WpWritten
  <2> QED BY <2>2, <2>3
<1>9. active \subseteq Id /\ listed \subseteq Id /\ nextId \in Int
  BY <1>0 DEF TypeOK
<1>10. \A j \in listed' : BoundTo(j)'
  <2> SUFFICES ASSUME NEW j \in listed PROVE BoundTo(j)'
    BY <1>4
  <2>1. BoundTo(j) /\ step'[j].tid \in {step[j].tid, NoThread}
    BY <1>0, <1>6, <1>9 DEF BoundInv
  <2> QED BY <1>4, <2>1 DEF BoundTo, Like
<1>11. TargetsApart' /\ WpSlotsExclusive'
  BY <1>0, <1>4, <1>6 DEF BoundInv, TargetsApart, WpSlotsExclusive
<1>12. BpOwned'
  <2> SUFFICES ASSUME NEW u \in Thread, NEW r \in Slot, hwBp'[u][r] # 0
               PROVE  r < HwSlots["bp"] /\ \E j \in active : ArmedBp(j, u, r)' \/ SteppingBp(j, u, r)'
    BY <1>4 DEF BpOwned
  <2>1. CASE cfg[i].type = "bp" /\ u = t /\ slot[i] < HwSlots["bp"] /\ r = slot[i]
    <3>1. ArmedBp(i, u, r)'
      BY <1>3, <1>4, <1>6, <1>7, <2>1 DEF ArmedBp
    <3> QED BY <1>2, <2>1, <3>1
  <2>2. CASE ~(cfg[i].type = "bp" /\ u = t /\ slot[i] < HwSlots["bp"] /\ r = slot[i])
    <3>1. /\ hwBp'[u][r] = hwBp[u][r]
          /\ ~(u = t /\ step[i].slot < HwSlots["bp"] /\ r = step[i].slot)
      BY <1>7, <2>2
    <3>2. r < HwSlots["bp"]
      BY <1>0, <3>1 DEF BoundInv, BpOwned
    <3>3. PICK j \in active : ArmedBp(j, u, r) \/ SteppingBp(j, u, r)
      BY <1>0, <3>1 DEF BoundInv, BpOwned
    <3>4. j # i
      BY <1>2, <3>1, <3>2, <3>3 DEF ArmedBp, SteppingBp
    <3>5. step'[j] = step[j]
      BY <1>6, <1>9, <3>4
    <3>6. ArmedBp(j, u, r)' \/ SteppingBp(j, u, r)'
      BY <1>4, <3>1, <3>3, <3>5 DEF ArmedBp, SteppingBp
    <3> QED BY <3>2, <3>6
  <2> QED BY <2>1, <2>2
<1>13. WpOwned'
  <2> SUFFICES ASSUME NEW u \in Thread, NEW r \in Slot, hwWp'[u][r] # {}
               PROVE  r < HwSlots["wp"] /\ \E j \in active : ArmedWp(j, u, r)'
    BY <1>4 DEF WpOwned
  <2>1. CASE cfg[i].type = "wp" /\ u = t /\ slot[i] < HwSlots["wp"] /\ r = slot[i]
    <3>1. ArmedWp(i, u, r)'
      BY <1>3, <1>4, <1>6, <1>8, <2>1 DEF ArmedWp
    <3> QED BY <1>2, <2>1, <3>1
  <2>2. CASE ~(cfg[i].type = "wp" /\ u = t /\ slot[i] < HwSlots["wp"] /\ r = slot[i])
    <3>1. hwWp'[u][r] = hwWp[u][r]
      BY <1>8, <2>2
    <3>2. r < HwSlots["wp"]
      BY <1>0, <3>1 DEF BoundInv, WpOwned
    <3>3. PICK j \in active : ArmedWp(j, u, r)
      BY <1>0, <3>1 DEF BoundInv, WpOwned
    <3>4. j # i
      BY <1>2, <3>3 DEF ArmedWp
    <3>5. ArmedWp(j, u, r)'
      BY <1>4, <1>6, <1>9, <3>1, <3>3, <3>4 DEF ArmedWp
    <3> QED BY <3>2, <3>5
  <2> QED BY <2>1, <2>2
<1>14. \A u \in Thread : (mode'[u] = "trap" => Caused(u)') /\ Running(u)'
  <2>1. ASSUME NEW u \in Thread, u # t PROVE (mode'[u] = "trap" => Caused(u)') /\ Running(u)'
    <3>1. \A r \in Slot : hwBp'[u][r] = hwBp[u][r] /\ hwWp'[u][r] = hwWp[u][r]
      BY <1>7, <1>8, <2>1
    <3>2. \A j \in active : step'[j] = step[j] \/ step'[j] = NoStep
      BY <1>0, <1>4 DEF TypeOK
    <3> QED BY <1>4, <1>6, <1>9, <2>1, <3>1, <3>2, ThreadKept
  <2>2. (mode'[t] = "trap" => Caused(t)') /\ Running(t)'
    BY <1>0, <1>4, <1>6 DEF BoundInv, Running
  <2> QED BY <2>1, <2>2
<1>15. SlotsHeld'
  <2> SUFFICES ASSUME NEW ty \in Types, NEW r \in used'[ty]
               PROVE  \E j \in listed : \/ cfg[j].type = ty /\ r = slot[j]
                                        \/ ty = "bp" /\ r = step'[j].slot
    BY <1>4 DEF SlotsHeld
  <2>1. r \in used[ty] /\ (ty = "bp" => r # step[i].slot)
    BY <1>6 DEF Types
  <2>2. PICK j \in listed : (cfg[j].type = ty /\ r = slot[j]) \/ (ty = "bp" /\ r = step[j].slot)
    BY <1>0, <2>1 DEF BoundInv, SlotsHeld
  <2> QED BY <1>6, <1>9, <2>1, <2>2
<1> QED BY <1>10, <1>11, <1>12, <1>13, <1>14, <1>15 DEF BoundInv

\* The registers after session i has been disarmed on its thread.
LEMMA DisarmedOn ==
    ASSUME TypeOK, BoundInv, NEW i, NEW t \in Thread, DisarmOnThread(i, {t}),
           cfg[i].type \in Types, slot[i] \in Slot
    PROVE  \A u \in Thread, r \in Slot :
             /\ hwBp'[u][r] = IF cfg[i].type = "bp" /\ u = t /\ r = slot[i] THEN 0 ELSE hwBp[u][r]
             /\ hwWp'[u][r] = IF cfg[i].type = "wp" /\ u = t /\ r = slot[i] THEN {} ELSE hwWp[u][r]
<1> TAKE u \in Thread, r \in Slot
<1>1. hwBp \in [Thread -> [Slot -> Nat]] /\ hwWp \in [Thread -> [Slot -> SUBSET Nat]]
  BY DEF TypeOK
<1>2. /\ GumSetBp(hwBp, {t}, slot[i], 0)[u][r] =
           IF u \in {t} /\ slot[i] < HwSlots["bp"] /\ r = slot[i] THEN 0 ELSE hwBp[u][r]
      /\ GumSetWp(hwWp, {t}, slot[i], {})[u][r] =
           IF u \in {t} /\ slot[i] < HwSlots["wp"] /\ r = slot[i] THEN {} ELSE hwWp[u][r]
  BY <1>1, BpWritten, WpWritten
<1>3. /\ hwBp[u][r] # 0 => r < HwSlots["bp"]
      /\ hwWp[u][r] # {} => r < HwSlots["wp"]
  BY DEF BoundInv, BpOwned, WpOwned
<1> QED BY <1>2, <1>3 DEF DisarmOnThread

\* When a session that is not stepping over is disarmed on its thread, every register that is
\* still on is another session's.
LEMMA OthersOwn ==
    ASSUME Bound, ManagerInv, NEW i \in active, step[i].tid = NoThread,
           \A u \in Thread, r \in Slot :
             /\ hwBp'[u][r] # 0 => /\ hwBp'[u][r] = hwBp[u][r]
                                   /\ ~(cfg[i].type = "bp" /\ u = cfg[i].tid /\ r = slot[i])
             /\ hwWp'[u][r] # {} => /\ hwWp'[u][r] = hwWp[u][r]
                                    /\ ~(cfg[i].type = "wp" /\ u = cfg[i].tid /\ r = slot[i]),
           \A j \in active : j # i => j \in active' /\ cfg'[j] = cfg[j] /\ slot'[j] = slot[j] /\ step'[j] = step[j]
    PROVE  BpOwned' /\ WpOwned'
<1>0. BpOwned /\ WpOwned
  BY DEF ManagerInv, BoundInv
<1>1. ASSUME NEW u \in Thread, NEW r \in Slot, hwBp'[u][r] # 0
      PROVE  r < HwSlots["bp"] /\ \E j \in active' : ArmedBp(j, u, r)' \/ SteppingBp(j, u, r)'
  <2>1. /\ hwBp'[u][r] = hwBp[u][r] /\ hwBp[u][r] # 0
        /\ ~(cfg[i].type = "bp" /\ u = cfg[i].tid /\ r = slot[i])
    BY <1>1
  <2>2. PICK j \in active : ArmedBp(j, u, r) \/ SteppingBp(j, u, r)
    BY <1>0, <2>1 DEF BpOwned
  <2>3. j # i
    BY <2>1, <2>2, ThreadAssumption DEF ArmedBp, SteppingBp
  <2>4. ArmedBp(j, u, r)' \/ SteppingBp(j, u, r)'
    BY <2>1, <2>2, <2>3 DEF ArmedBp, SteppingBp
  <2> QED BY <1>0, <2>1, <2>3, <2>4 DEF BpOwned
<1>2. ASSUME NEW u \in Thread, NEW r \in Slot, hwWp'[u][r] # {}
      PROVE  r < HwSlots["wp"] /\ \E j \in active' : ArmedWp(j, u, r)'
  <2>1. /\ hwWp'[u][r] = hwWp[u][r] /\ hwWp[u][r] # {}
        /\ ~(cfg[i].type = "wp" /\ u = cfg[i].tid /\ r = slot[i])
    BY <1>2
  <2>2. PICK j \in active : ArmedWp(j, u, r)
    BY <1>0, <2>1 DEF WpOwned
  <2>3. j # i
    BY <2>1, <2>2 DEF ArmedWp
  <2>4. ArmedWp(j, u, r)'
    BY <2>1, <2>2, <2>3 DEF ArmedWp
  <2> QED BY <1>0, <2>1, <2>3, <2>4 DEF WpOwned
<1> QED BY <1>1, <1>2 DEF BpOwned, WpOwned

\* A one-shot session is removed with its register and its slot.
LEMMA OnceBound ==
    ASSUME Bound, ManagerInv, NEW t \in Thread, DispatchOnce(t)
    PROVE  BoundInv'
<1>0. TypeOK /\ SlotInv /\ BoundInv
  BY DEF ManagerInv
<1>1. PICK i \in listed :
        /\ Dispatching(t, i)
        /\ \E D \in SUBSET Peers(i, t) :
              DisarmOnThread(i, {t} \cup D) /\ armed' = [armed EXCEPT ![i] = @ \ ({t} \cup D)]
        /\ active' = active \ {i} /\ listed' = listed \ {i}
        /\ used' = FreeSlot(cfg[i].type, slot[i])
  BY DEF DispatchOnce
<1>2. /\ mode[t] = "trap" /\ Stepping(t) = {} /\ Claimed(t) # {} /\ i = Lowest(Claimed(t))
      /\ mode' = [mode EXCEPT ![t] = "callback"] /\ hit' = [hit EXCEPT ![t] = i]
      /\ UNCHANGED <<nextId, cfg, slot, step, pc, mem>>
  BY <1>1 DEF Dispatching
<1>3. i \in Claimed(t)
  <2>1. listed \subseteq Id /\ Id \subseteq Nat
    BY <1>0 DEF TypeOK, Id
  <2>2. Claimed(t) \subseteq Nat
    BY <2>1 DEF Claimed
  <2> QED BY <1>2, <2>2, LowestIn
<1>4. i \in active /\ cfg[i].tid = t /\ step[i].tid = NoThread
  BY <1>2, <1>3, Claims
<1>5. /\ i \in Id /\ i < nextId /\ slot[i] \in Slot /\ cfg[i].type \in Types
      /\ step[i].slot = NoSlot /\ NoSlot \notin Slot
  BY <1>4, Live, SlotAssumption DEF Slot, NoSlot
<1>6. Peers(i, t) = {}
  BY <1>4, ThreadAssumption DEF Peers
<1>7. DisarmOnThread(i, {t})
  <2>1. PICK D \in SUBSET Peers(i, t) : DisarmOnThread(i, {t} \cup D)
    BY <1>1
  <2>2. {t} \cup D = {t}
    BY <1>6
  <2> QED BY <2>1, <2>2
<1>8. \A u \in Thread, r \in Slot :
             /\ hwBp'[u][r] = IF cfg[i].type = "bp" /\ u = t /\ r = slot[i] THEN 0 ELSE hwBp[u][r]
             /\ hwWp'[u][r] = IF cfg[i].type = "wp" /\ u = t /\ r = slot[i] THEN {} ELSE hwWp[u][r]
  BY <1>0, <1>5, <1>7, DisarmedOn
<1>9. /\ active \subseteq Id /\ listed \subseteq Id /\ active \subseteq listed /\ nextId \in Int
      /\ \A j \in Id : j # i => armed'[j] = armed[j]
      /\ \A ty \in Types : used'[ty] = IF ty = cfg[i].type THEN used[ty] \ {slot[i]} ELSE used[ty]
      /\ mode'[t] = "callback" /\ hit'[t] = i
      /\ \A u \in Thread : u # t => mode'[u] = mode[u] /\ hit'[u] = hit[u]
  <2>1. active \subseteq Id /\ listed \subseteq Id /\ active \subseteq listed /\ nextId \in Int
    BY <1>0 DEF TypeOK, SlotInv
  <2>2. PICK D \in SUBSET Peers(i, t) : armed' = [armed EXCEPT ![i] = @ \ ({t} \cup D)]
    BY <1>1
  <2>3. \A j \in Id : j # i => armed'[j] = armed[j]
    BY <1>0, <2>2 DEF TypeOK
  <2>4. \A ty \in Types : used'[ty] = IF ty = cfg[i].type THEN used[ty] \ {slot[i]} ELSE used[ty]
    BY <1>0, <1>1, <1>5 DEF TypeOK, FreeSlot
  <2>5. /\ mode'[t] = "callback" /\ hit'[t] = i
        /\ \A u \in Thread : u # t => mode'[u] = mode[u] /\ hit'[u] = hit[u]
    BY <1>0, <1>2 DEF TypeOK
  <2> QED BY <2>1, <2>3, <2>4, <2>5
<1>10. \A j \in listed' : BoundTo(j)'
  BY <1>0, <1>1, <1>2, <1>9 DEF BoundInv, BoundTo
<1>11. TargetsApart' /\ WpSlotsExclusive'
  <2>1. TargetsApart'
    BY <1>0, <1>1, <1>2 DEF BoundInv, TargetsApart
  <2>2. WpSlotsExclusive
    BY <1>0 DEF BoundInv
  <2>3. \A j \in active' : cfg[j].type = "wp" => slot[j] \in used'["wp"]
    BY <1>1, <1>4, <1>9, <2>2 DEF WpSlotsExclusive, Types
  <2> QED BY <1>1, <1>2, <2>1, <2>2, <2>3 DEF WpSlotsExclusive
<1>12. BpOwned' /\ WpOwned'
  <2>1. \A u \in Thread, r \in Slot :
             /\ hwBp'[u][r] # 0 => /\ hwBp'[u][r] = hwBp[u][r]
                                   /\ ~(cfg[i].type = "bp" /\ u = cfg[i].tid /\ r = slot[i])
             /\ hwWp'[u][r] # {} => /\ hwWp'[u][r] = hwWp[u][r]
                                    /\ ~(cfg[i].type = "wp" /\ u = cfg[i].tid /\ r = slot[i])
    BY <1>4, <1>8
  <2>2. \A j \in active : j # i => j \in active' /\ cfg'[j] = cfg[j] /\ slot'[j] = slot[j] /\ step'[j] = step[j]
    BY <1>1, <1>2
  <2> QED BY <1>4, <2>1, <2>2, OthersOwn
<1>13. \A u \in Thread : (mode'[u] = "trap" => Caused(u)') /\ Running(u)'
  <2>1. ASSUME NEW u \in Thread, u # t PROVE (mode'[u] = "trap" => Caused(u)') /\ Running(u)'
    <3>1. \A r \in Slot : hwBp'[u][r] = hwBp[u][r] /\ hwWp'[u][r] = hwWp[u][r]
      BY <1>8, <2>1
    <3> QED BY <1>1, <1>2, <1>9, <2>1, <3>1, ThreadKept
  <2>2. (mode'[t] = "trap" => Caused(t)') /\ Running(t)'
    BY <1>1, <1>2, <1>5, <1>9 DEF Running
  <2> QED BY <2>1, <2>2
<1>14. SlotsHeld'
  <2> SUFFICES ASSUME NEW ty \in Types, NEW r \in used'[ty]
               PROVE  \E j \in listed' : \/ cfg[j].type = ty /\ r = slot[j]
                                         \/ ty = "bp" /\ r = step[j].slot
    BY <1>2 DEF SlotsHeld
  <2>1. r \in used[ty] /\ (ty = cfg[i].type => r # slot[i]) /\ r \in Slot
    BY <1>0, <1>9 DEF TypeOK
  <2>2. PICK j \in listed : (cfg[j].type = ty /\ r = slot[j]) \/ (ty = "bp" /\ r = step[j].slot)
    BY <1>0, <2>1 DEF BoundInv, SlotsHeld
  <2>3. j # i
    BY <1>5, <2>1, <2>2
  <2> QED BY <1>1, <2>2, <2>3
<1> QED BY <1>10, <1>11, <1>12, <1>13, <1>14 DEF BoundInv

\* What a thread that returns from a live session's callback leaves alone.
LEMMA Returned ==
    ASSUME Bound, ManagerInv, NEW t \in Thread, NEW i \in active, Returning(t, i)
    PROVE  /\ cfg[i].tid = t /\ step[i].tid = NoThread /\ step[i].slot = NoSlot /\ NoSlot \notin Slot
           /\ i \in Id /\ slot[i] \in Slot /\ cfg[i].type \in Types /\ i = hit[t]
           /\ UNCHANGED <<nextId, listed, cfg, slot, armed>>
           /\ mode'[t] = "run" /\ hit'[t] = 0
           /\ \A u \in Thread : u # t => /\ mode'[u] = mode[u] /\ hit'[u] = hit[u]
                                         /\ pc'[u] = pc[u] /\ mem'[u] = mem[u]
<1>1. mode[t] = "callback" /\ i = hit[t]
  BY DEF Returning
<1>2. cfg[i].tid = t /\ step[i].tid = NoThread
  BY <1>1 DEF ManagerInv, BoundInv, Running
<1>3. /\ step[i].slot = NoSlot /\ NoSlot \notin Slot
      /\ i \in Id /\ slot[i] \in Slot /\ cfg[i].type \in Types
  BY <1>2, Live, SlotAssumption DEF Slot, NoSlot
<1>4. TypeOK
  BY DEF ManagerInv
<1> QED BY <1>1, <1>2, <1>3, <1>4 DEF Returning, TypeOK

\* Other threads run other sessions' callbacks.
LEMMA OthersRun ==
    ASSUME Bound, ManagerInv, NEW t \in Thread, NEW i \in active, Returning(t, i), active' \subseteq active,
           \A j \in Id : j # i => step'[j] = step[j],
           \A u \in Thread, r \in Slot : u # t => hwBp'[u][r] = hwBp[u][r] /\ hwWp'[u][r] = hwWp[u][r]
    PROVE  \A u \in Thread : (mode'[u] = "trap" => Caused(u)') /\ Running(u)'
<1>0. TypeOK /\ BoundInv /\ nextId \in Int /\ nextId >= 1 /\ active \subseteq Id
  BY DEF ManagerInv, TypeOK
<1>1. ASSUME NEW u \in Thread, u # t PROVE (mode'[u] = "trap" => Caused(u)') /\ Running(u)'
  <2>1. mode[u] = "callback" /\ hit[u] \in active => hit[u] # i
    BY <1>0, <1>1, Returned DEF BoundInv, Running
  <2>2. mode[u] = "callback" /\ hit[u] \in active' =>
          hit[u] \in active /\ cfg'[hit[u]].tid = cfg[hit[u]].tid /\ step'[hit[u]] = step[hit[u]]
    BY <1>0, <2>1, Returned
  <2>3. /\ mode'[u] = mode[u] /\ hit'[u] = hit[u] /\ pc'[u] = pc[u] /\ mem'[u] = mem[u]
        /\ nextId' = nextId
    BY <1>1, Returned
  <2> QED BY <1>0, <1>1, <2>2, <2>3, ThreadKept
<1>2. (mode'[t] = "trap" => Caused(t)') /\ Running(t)'
  BY <1>0, Returned DEF Running
<1> QED BY <1>1, <1>2

\* The step-over takes a slot whose register is off.
LEMMA ReturnBound ==
    ASSUME Bound, ManagerInv, NEW t \in Thread, ReturnStepOver(t)
    PROVE  BoundInv'
<1>0. TypeOK /\ SlotInv /\ BoundInv
  BY DEF ManagerInv
<1>1. PICK i \in active : /\ Returning(t, i) /\ active' = active
        /\ \E s \in StepSlot(i) :
            LET next == IF cfg[i].type = "bp" THEN NextPc(pc[t]) ELSE pc[t] + 1
                hw   == IF cfg[i].type = "bp" THEN GumSetBp(hwBp, {t}, slot[i], 0) ELSE hwBp
            IN /\ used' = Mark("bp", s)
               /\ step' = [step EXCEPT ![i] = [slot |-> s, pc |-> next, tid |-> t]]
               /\ hwBp' = GumSetBp(hw, {t}, s, next)
        /\ hwWp' = IF cfg[i].type = "wp" THEN GumSetWp(hwWp, {t}, slot[i], {}) ELSE hwWp
  BY DEF ReturnStepOver
<1> DEFINE next == IF cfg[i].type = "bp" THEN NextPc(pc[t]) ELSE pc[t] + 1
           hw   == IF cfg[i].type = "bp" THEN GumSetBp(hwBp, {t}, slot[i], 0) ELSE hwBp
<1>2. PICK s \in StepSlot(i) : /\ used' = Mark("bp", s)
                               /\ step' = [step EXCEPT ![i] = [slot |-> s, pc |-> next, tid |-> t]]
                               /\ hwBp' = GumSetBp(hw, {t}, s, next)
  BY <1>1
<1>3. s \in Slot /\ s \notin used["bp"]
  BY DEF StepSlot, FreeSlots
<1>4. /\ cfg[i].tid = t /\ step[i].tid = NoThread /\ step[i].slot = NoSlot /\ NoSlot \notin Slot
      /\ i \in Id /\ slot[i] \in Slot /\ cfg[i].type \in Types
      /\ UNCHANGED <<nextId, listed, cfg, slot, armed>>
  BY <1>1, Returned
<1>5. cfg[i].type = "bp" => s # slot[i]
  BY <1>3, Live
<1>6. /\ step'[i].slot = s /\ step'[i].tid = t /\ step'[i].pc = next
      /\ \A j \in Id : j # i => step'[j] = step[j]
      /\ used'["bp"] = used["bp"] \cup {s} /\ used'["wp"] = used["wp"]
      /\ active \subseteq Id /\ listed \subseteq Id
  BY <1>0, <1>2, <1>4 DEF TypeOK, Mark, Types
<1>7. \A u \in Thread, r \in Slot :
        hwBp'[u][r] = IF u = t /\ s < HwSlots["bp"] /\ r = s THEN next
                      ELSE IF cfg[i].type = "bp" /\ u = t /\ r = slot[i] THEN 0 ELSE hwBp[u][r]
  <2> TAKE u \in Thread, r \in Slot
  <2>1. hwBp \in [Thread -> [Slot -> Nat]] /\ hw \in [Thread -> [Slot -> Nat]]
    BY <1>0, GumSetBpType DEF TypeOK
  <2>2. GumSetBp(hwBp, {t}, slot[i], 0)[u][r] =
          IF u \in {t} /\ slot[i] < HwSlots["bp"] /\ r = slot[i] THEN 0 ELSE hwBp[u][r]
    BY <2>1, BpWritten
  <2>3. hwBp[u][r] # 0 => r < HwSlots["bp"]
    BY <1>0 DEF BoundInv, BpOwned
  <2>4. hw[u][r] = IF cfg[i].type = "bp" /\ u = t /\ r = slot[i] THEN 0 ELSE hwBp[u][r]
    BY <2>2, <2>3
  <2> HIDE DEF hw, next
  <2>5. GumSetBp(hw, {t}, s, next)[u][r] =
          IF u \in {t} /\ s < HwSlots["bp"] /\ r = s THEN next ELSE hw[u][r]
    BY <2>1, BpWritten
  <2> QED BY <1>2, <2>4, <2>5
<1> HIDE DEF hw, next
<1>8. \A u \in Thread, r \in Slot :
        hwWp'[u][r] = IF cfg[i].type = "wp" /\ u = t /\ r = slot[i] THEN {} ELSE hwWp[u][r]
  <2> TAKE u \in Thread, r \in Slot
  <2>1. hwWp \in [Thread -> [Slot -> SUBSET Nat]]
    BY <1>0 DEF TypeOK
  <2>2. GumSetWp(hwWp, {t}, slot[i], {})[u][r] =
          IF u \in {t} /\ slot[i] < HwSlots["wp"] /\ r = slot[i] THEN {} ELSE hwWp[u][r]
    BY <2>1, WpWritten
  <2>3. hwWp[u][r] # {} => r < HwSlots["wp"]
    BY <1>0 DEF BoundInv, WpOwned
  <2> QED BY <1>1, <2>2, <2>3
<1>9. \A u \in Thread : (mode'[u] = "trap" => Caused(u)') /\ Running(u)'
  <2>1. \A u \in Thread, r \in Slot : u # t => hwBp'[u][r] = hwBp[u][r] /\ hwWp'[u][r] = hwWp[u][r]
    BY <1>7, <1>8
  <2> QED BY <1>1, <1>6, <2>1, OthersRun
<1>10. \A j \in listed' : BoundTo(j)'
  <2> SUFFICES ASSUME NEW j \in listed PROVE BoundTo(j)'
    BY <1>4
  <2>1. BoundTo(j) /\ j \in Id
    BY <1>0, <1>6 DEF BoundInv
  <2> QED BY <1>4, <1>6, <2>1 DEF BoundTo
<1>11. TargetsApart' /\ WpSlotsExclusive'
  BY <1>0, <1>1, <1>4, <1>6 DEF BoundInv, TargetsApart, WpSlotsExclusive
<1>12. BpOwned'
  <2> SUFFICES ASSUME NEW u \in Thread, NEW r \in Slot, hwBp'[u][r] # 0
               PROVE  r < HwSlots["bp"] /\ \E j \in active : ArmedBp(j, u, r)' \/ SteppingBp(j, u, r)'
    BY <1>1 DEF BpOwned
  <2>1. CASE u = t /\ s < HwSlots["bp"] /\ r = s
    <3>1. SteppingBp(i, u, r)'
      BY <1>6, <1>7, <2>1 DEF SteppingBp
    <3> QED BY <2>1, <3>1
  <2>2. CASE ~(u = t /\ s < HwSlots["bp"] /\ r = s)
    <3>1. hwBp'[u][r] = hwBp[u][r] /\ ~(cfg[i].type = "bp" /\ u = t /\ r = slot[i])
      BY <1>7, <2>2
    <3>2. PICK j \in active : ArmedBp(j, u, r) \/ SteppingBp(j, u, r)
      BY <1>0, <3>1 DEF BoundInv, BpOwned
    <3>3. j # i
      BY <1>4, <3>1, <3>2, ThreadAssumption DEF ArmedBp, SteppingBp
    <3>4. step'[j] = step[j]
      BY <1>6, <3>3
    <3>5. ArmedBp(j, u, r)' \/ SteppingBp(j, u, r)'
      BY <1>4, <3>1, <3>2, <3>4 DEF ArmedBp, SteppingBp
    <3> QED BY <1>0, <3>1, <3>5 DEF BoundInv, BpOwned
  <2> QED BY <2>1, <2>2
<1>13. WpOwned'
  <2> SUFFICES ASSUME NEW u \in Thread, NEW r \in Slot, hwWp'[u][r] # {}
               PROVE  r < HwSlots["wp"] /\ \E j \in active : ArmedWp(j, u, r)'
    BY <1>1 DEF WpOwned
  <2>1. hwWp'[u][r] = hwWp[u][r] /\ ~(cfg[i].type = "wp" /\ u = t /\ r = slot[i])
    BY <1>8
  <2>2. PICK j \in active : ArmedWp(j, u, r)
    BY <1>0, <2>1 DEF BoundInv, WpOwned
  <2>3. j # i
    BY <1>4, <2>1, <2>2 DEF ArmedWp
  <2>4. ArmedWp(j, u, r)'
    BY <1>4, <1>6, <2>1, <2>2, <2>3 DEF ArmedWp
  <2> QED BY <1>0, <2>1, <2>4 DEF BoundInv, WpOwned
<1>14. SlotsHeld'
  <2> SUFFICES ASSUME NEW ty \in Types, NEW r \in used'[ty]
               PROVE  \E j \in listed : \/ cfg[j].type = ty /\ r = slot[j]
                                        \/ ty = "bp" /\ r = step'[j].slot
    BY <1>4 DEF SlotsHeld
  <2>1. CASE ty = "bp" /\ r = s
    BY <1>6, <2>1, Live
  <2>2. CASE ~(ty = "bp" /\ r = s)
    <3>1. r \in used[ty] /\ r \in Slot
      BY <1>0, <1>6, <2>2 DEF Types, TypeOK
    <3>2. PICK j \in listed : (cfg[j].type = ty /\ r = slot[j]) \/ (ty = "bp" /\ r = step[j].slot)
      BY <1>0, <3>1 DEF BoundInv, SlotsHeld
    <3> QED BY <1>4, <1>6, <3>1, <3>2
  <2> QED BY <2>1, <2>2
<1> QED BY <1>9, <1>10, <1>11, <1>12, <1>13, <1>14 DEF BoundInv

\* No spare slot: the session's register is off, and a watchpoint gives its slot back.
LEMMA ExhaustedBound ==
    ASSUME Bound, ManagerInv, NEW t \in Thread, ReturnExhausted(t)
    PROVE  BoundInv'
<1>0. TypeOK /\ SlotInv /\ BoundInv
  BY DEF ManagerInv
<1>1. PICK i \in active :
        /\ Returning(t, i) /\ DisarmOnThread(i, {t}) /\ step' = step
        /\ active' = IF cfg[i].type = "wp" THEN active \ {i} ELSE active
        /\ used' = IF cfg[i].type = "wp" THEN FreeSlot("wp", slot[i]) ELSE used
  BY DEF ReturnExhausted
<1>2. /\ cfg[i].tid = t /\ step[i].tid = NoThread
      /\ i \in Id /\ slot[i] \in Slot /\ cfg[i].type \in Types
      /\ UNCHANGED <<nextId, listed, cfg, slot, armed>>
  BY <1>1, Returned
<1>3. \A u \in Thread, r \in Slot :
             /\ hwBp'[u][r] = IF cfg[i].type = "bp" /\ u = t /\ r = slot[i] THEN 0 ELSE hwBp[u][r]
             /\ hwWp'[u][r] = IF cfg[i].type = "wp" /\ u = t /\ r = slot[i] THEN {} ELSE hwWp[u][r]
  BY <1>0, <1>1, <1>2, DisarmedOn
<1>4. active' \subseteq active /\ \A j \in active : j # i => j \in active'
  BY <1>1
<1>5. \A u \in Thread : (mode'[u] = "trap" => Caused(u)') /\ Running(u)'
  BY <1>1, <1>3, <1>4, OthersRun
<1>6. \A j \in listed' : BoundTo(j)'
  BY <1>0, <1>1, <1>2 DEF BoundInv, BoundTo
<1>7. used'["bp"] = used["bp"] /\ used'["wp"] = IF cfg[i].type = "wp" THEN used["wp"] \ {slot[i]} ELSE used["wp"]
  BY <1>0, <1>1 DEF TypeOK, FreeSlot, Types
<1>8. TargetsApart'
  BY <1>0, <1>2, <1>4 DEF BoundInv, TargetsApart
<1>9. WpSlotsExclusive'
  <2>1. WpSlotsExclusive
    BY <1>0 DEF BoundInv
  <2>2. \A j \in active' : cfg[j].type = "wp" => slot[j] \in used'["wp"]
    BY <1>1, <1>7, <2>1 DEF WpSlotsExclusive
  <2> QED BY <1>2, <1>4, <2>1, <2>2 DEF WpSlotsExclusive
<1>10. BpOwned' /\ WpOwned'
  <2>1. \A u \in Thread, r \in Slot :
             /\ hwBp'[u][r] # 0 => /\ hwBp'[u][r] = hwBp[u][r]
                                   /\ ~(cfg[i].type = "bp" /\ u = cfg[i].tid /\ r = slot[i])
             /\ hwWp'[u][r] # {} => /\ hwWp'[u][r] = hwWp[u][r]
                                    /\ ~(cfg[i].type = "wp" /\ u = cfg[i].tid /\ r = slot[i])
    BY <1>2, <1>3
  <2>2. \A j \in active : j # i => j \in active' /\ cfg'[j] = cfg[j] /\ slot'[j] = slot[j] /\ step'[j] = step[j]
    BY <1>1, <1>2, <1>4
  <2> QED BY <1>2, <2>1, <2>2, OthersOwn
<1>11. SlotsHeld'
  <2>1. \A ty \in Types : used'[ty] \subseteq used[ty]
    BY <1>7 DEF Types
  <2> QED BY <1>0, <1>1, <1>2, <2>1 DEF BoundInv, SlotsHeld
<1> QED BY <1>5, <1>6, <1>8, <1>9, <1>10, <1>11 DEF BoundInv

\* Before the first attach() the invariant holds.
LEMMA InitBound == Init => BoundInv
<1> SUFFICES ASSUME Init PROVE BoundInv
  OBVIOUS
<1>1. /\ TargetsApart /\ WpSlotsExclusive /\ SlotsHeld /\ BpOwned /\ WpOwned
  BY DEF Init, TargetsApart, WpSlotsExclusive, SlotsHeld, BpOwned, WpOwned
<1>2. \A t \in Thread : mode[t] # "trap" /\ Running(t)
  BY DEF Init, Running
<1> QED BY <1>1, <1>2 DEF BoundInv, Init

\* Every operation, every half of HandleException and every thread event keeps it.
LEMMA NextBound == ASSUME Bound PROVE ManagerInv /\ [Next]_vars => ManagerInv'
<1> SUFFICES ASSUME ManagerInv, [Next]_vars PROVE BoundInv'
  BY NextType, NextSlots DEF ManagerInv
<1>1. CASE UNCHANGED vars
  <2>1. /\ UNCHANGED <<used, nextId, listed, active, cfg, slot, armed, step, hwBp, hwWp>>
        /\ UNCHANGED <<mode, pc, mem, hit>> /\ nextId \in Int /\ BoundInv
    BY <1>1 DEF vars, mgrVars, hwVars, thrVars, ManagerInv, TypeOK
  <2>2. \A u \in Thread : (mode'[u] = "trap" => Caused(u)') /\ Running(u)'
    BY <2>1, ThreadKept
  <2> QED BY <2>1, <2>2, BoundFrame
<1>2. CASE Api
  BY <1>2, ApiBound, ApiIdle, ReuseBound, NewBound DEF Api, Attach
<1>3. ASSUME NEW t \in Thread, ThreadStep(t) \/ Lifecycle(t) PROVE BoundInv'
  BY <1>3, QuietBound, ExitBound, StepOverBound, OnceBound, ReturnBound, ExhaustedBound
  DEF ThreadStep, HandleException, Lifecycle
<1> QED BY <1>1, <1>2, <1>3 DEF Next

\* With every session bound to a thread and nothing detached, whatever the callbacks
\* redirect and whoever exits: HandleException claims every exception that a register of the
\* manager has raised, so that none ends the process.
THEOREM TrapsClaimed ==
    ASSUME Bound
    PROVE  Spec => []ClaimedTraps
<1>1. ManagerInv => ClaimedTraps
  BY Claims DEF ClaimedTraps
<1>2. Init => ManagerInv
  BY InitType, InitSlots, InitBound DEF ManagerInv
<1> QED BY <1>1, <1>2, NextBound, PTL DEF Spec

-----------------------------------------------------------------------------
(* No break loop.                                                          *)

\* Callbacks leave pc alone, and no instruction jumps to itself: the step-over of such
\* an instruction would be at the instruction itself.
Straight == Redirect = {} /\ \A a \in Code : NextPc(a) # a

\* A session that was dispatched since its thread last moved is in its callback, or
\* its register is off and the instruction that will re-arm it is another one.
Passed(i, t) ==
    \/ mode[t] = "callback" /\ hit[t] = i
    \/ Off(i, t) /\ step[i].pc # pc[t]
Served(t) ==
    /\ mode[t] = "absent" => served[t] = {}
    /\ mode[t] = "callback" /\ hit[t] \in active => ~cfg[hit[t]].once
    /\ \A i \in served[t] : i < nextId /\ (i \in active => cfg[i].tid = t /\ Passed(i, t))

\* A step-over that is over has no pc.
StepsReset == \A i \in Id : step[i].tid = NoThread => step[i].pc = 0

ServedInv == StepsReset /\ \A t \in Thread : Served(t)

\* A thread that a step leaves where it is, and whose sessions it leaves alone.
LEMMA ServedKept ==
    ASSUME ManagerInv, NEW u \in Thread, Served(u), served'[u] = served[u], mode'[u] = mode[u],
           hit'[u] = hit[u], pc'[u] = pc[u], nextId' \in Int, nextId <= nextId',
           \A i \in active' : i < nextId =>
              /\ i \in active /\ cfg'[i].tid = cfg[i].tid /\ cfg'[i].once = cfg[i].once
              /\ cfg[i].tid = u => step'[i].pc = step[i].pc /\ (Off(i, u) => Off(i, u)')
    PROVE  Served(u)'
<1>0. /\ nextId \in Int /\ hit[u] \in Int /\ hit[u] < nextId
      /\ served[u] \subseteq Int
  BY DEF ManagerInv, TypeOK, Id, BoundInv, Running
<1>1. (mode[u] = "absent" => served[u] = {})' /\ (mode[u] = "callback" /\ hit[u] \in active => ~cfg[hit[u]].once)'
  BY <1>0 DEF Served
<1>2. ASSUME NEW i \in served'[u] PROVE i < nextId' /\ (i \in active' => cfg'[i].tid = u /\ Passed(i, u)')
  <2>1. i \in served[u] /\ i < nextId /\ i \in Int
    BY <1>0, <1>2 DEF Served
  <2>2. ASSUME i \in active' PROVE cfg'[i].tid = u /\ Passed(i, u)'
    <3>1. i \in active /\ cfg[i].tid = u /\ Passed(i, u)
      BY <2>1, <2>2 DEF Served
    <3>2. cfg'[i].tid = u /\ step'[i].pc = step[i].pc /\ (Off(i, u) => Off(i, u)')
      BY <2>1, <2>2, <3>1
    <3> QED BY <3>1, <3>2 DEF Passed
  <2> QED BY <1>0, <2>1, <2>2
<1> QED BY <1>1, <1>2 DEF Served

\* The API touches neither a register nor a step-over of a session that exists.
LEMMA ApiServed ==
    ASSUME Bound, ManagerInv, ServedInv, Api
    PROVE  ServedInv'
<1>0. TypeOK /\ SlotInv /\ BoundInv /\ StepsReset /\ \A u \in Thread : Served(u)
  BY DEF ManagerInv, ServedInv
<1>1. ASSUME step' = step, UNCHANGED <<served, mode, hit, pc>>, nextId' \in {nextId, nextId + 1},
             \A i \in active' : i < nextId =>
               /\ i \in active /\ cfg'[i].tid = cfg[i].tid /\ cfg'[i].once = cfg[i].once
               /\ \A u \in Thread : Off(i, u) => Off(i, u)'
      PROVE  ServedInv'
  <2>1. nextId \in Int /\ nextId' \in Int /\ nextId <= nextId'
    BY <1>0, <1>1 DEF TypeOK
  <2>2. \A u \in Thread : Served(u)'
    BY <1>0, <1>1, <2>1, ServedKept
  <2> QED BY <1>0, <1>1, <2>2 DEF ServedInv, StepsReset
<1>2. CASE Initialize \/ RefreshCapacity \/ \E c \in Config : AttachUnarmed(c)
  <2>1. /\ UNCHANGED <<step, active, cfg, slot, hwBp, hwWp, served, mode, hit, pc>>
        /\ nextId' \in {nextId, nextId + 1}
    BY <1>2 DEF Initialize, RefreshCapacity, AttachUnarmed, hwVars, thrVars
  <2> QED BY <1>1, <2>1 DEF Off
<1>3. ASSUME NEW c \in Config, AttachReuse(c) PROVE ServedInv'
  <2>1. \A d \in ConfigType : LET e == [d EXCEPT !.cb = c.cb]
                              IN e.type = d.type /\ e.tid = d.tid /\ e.once = d.once
    BY DEF ConfigType
  <2>2. \A i \in Id : cfg'[i] \in {cfg[i], [cfg[i] EXCEPT !.cb = c.cb]} /\ cfg[i] \in ConfigType
    BY <1>0, <1>3 DEF AttachReuse, TypeOK
  <2>3. \A i \in Id : cfg'[i].type = cfg[i].type /\ cfg'[i].tid = cfg[i].tid /\ cfg'[i].once = cfg[i].once
    BY <2>1, <2>2
  <2>4. UNCHANGED <<step, active, slot, hwBp, hwWp, served, mode, hit, pc, nextId>> /\ active \subseteq Id
    BY <1>0, <1>3 DEF AttachReuse, hwVars, thrVars, TypeOK
  <2> QED BY <1>1, <2>3, <2>4 DEF Off
<1>4. ASSUME NEW c \in Config, AttachNew(c) PROVE ServedInv'
  <2>1. nextId \in Id /\ nextId \in Int /\ active \subseteq Id /\ \A i \in Id : i \in Int
    BY <1>0, <1>4 DEF AttachNew, TypeOK, Id
  <2>2. PICK s \in FreeSlots(c.type) : /\ slot' = [slot EXCEPT ![nextId] = s]
                                       /\ ArmOnThread(c, Coverage(c), s)
    BY <1>4 DEF AttachNew, AllocateSlot
  <2>3. /\ step' = step /\ UNCHANGED <<served, mode, hit, pc>> /\ nextId' = nextId + 1
        /\ active' = active \cup {nextId} /\ cfg' = [cfg EXCEPT ![nextId] = c]
    BY <1>4 DEF AttachNew, thrVars
  <2>4. ASSUME NEW i \in active', i < nextId
        PROVE  /\ i \in active /\ cfg'[i] = cfg[i]
               /\ \A u \in Thread : Off(i, u) => Off(i, u)'
    <3>1. i \in active /\ i \in Id /\ i # nextId
      BY <2>1, <2>3, <2>4
    <3>2. cfg'[i] = cfg[i] /\ slot'[i] = slot[i] /\ slot[i] \in Slot
      BY <1>0, <2>2, <2>3, <3>1 DEF TypeOK
    <3>3. /\ cfg[i].type = "bp" => slot[i] \in used["bp"]
          /\ cfg[i].type = "wp" => slot[i] \in used["wp"]
          /\ cfg[i].type \in Types
      BY <1>0, <3>1, Live DEF BoundInv, WpSlotsExclusive
    <3>4. c.type = cfg[i].type => slot[i] # s
      BY <3>3 DEF FreeSlots, Types
    <3>5. ASSUME NEW u \in Thread, cfg[i].type = "bp" PROVE hwBp'[u][slot[i]] = hwBp[u][slot[i]]
      <4>1. hwBp \in [Thread -> [Slot -> Nat]]
        BY <1>0 DEF TypeOK
      <4>2. hwBp' = hwBp \/ (c.type = "bp" /\ hwBp' = GumSetBp(hwBp, Coverage(c), s, c.addr))
        BY <2>2 DEF ArmOnThread
      <4>3. c.type = "bp" => GumSetBp(hwBp, Coverage(c), s, c.addr)[u][slot[i]] = hwBp[u][slot[i]]
        BY <3>2, <3>4, <3>5, <4>1, BpWritten
      <4> QED BY <4>2, <4>3
    <3>6. ASSUME NEW u \in Thread, cfg[i].type = "wp" PROVE hwWp'[u][slot[i]] = hwWp[u][slot[i]]
      <4>1. hwWp \in [Thread -> [Slot -> SUBSET Nat]]
        BY <1>0 DEF TypeOK
      <4>2. hwWp' = hwWp \/ (c.type = "wp" /\ hwWp' = GumSetWp(hwWp, Coverage(c), s, Watched(c)))
        BY <2>2 DEF ArmOnThread
      <4>3. c.type = "wp" => GumSetWp(hwWp, Coverage(c), s, Watched(c))[u][slot[i]] = hwWp[u][slot[i]]
        BY <3>2, <3>4, <3>6, <4>1, WpWritten
      <4> QED BY <4>2, <4>3
    <3> QED BY <3>1, <3>2, <3>3, <3>5, <3>6 DEF Off, Types
  <2> QED BY <1>1, <2>3, <2>4
<1> QED BY <1>2, <1>3, <1>4, ApiIdle DEF Api, Attach

\* A thread's step leaves the others where they are.
LEMMA OthersServed ==
    ASSUME ManagerInv, ServedInv, NEW t \in Thread, NEW u \in Thread, u # t,
           served'[u] = served[u], mode'[u] = mode[u], hit'[u] = hit[u], pc'[u] = pc[u],
           nextId' = nextId, active' \subseteq active, cfg' = cfg, slot' = slot,
           \A i \in active : cfg[i].tid # t => step'[i] = step[i],
           \A r \in Slot : hwBp'[u][r] = hwBp[u][r] /\ hwWp'[u][r] = hwWp[u][r]
    PROVE  Served(u)'
<1>1. nextId \in Int /\ active \subseteq Id /\ slot \in [Id -> Slot] /\ Served(u)
  BY DEF ManagerInv, TypeOK, ServedInv
<1>2. \A i \in active : Off(i, u) => Off(i, u)'
  BY <1>1 DEF Off
<1> QED BY <1>1, <1>2, ServedKept

\* What thread t's own step must leave of its sessions.
LEMMA OwnServed ==
    ASSUME ManagerInv, ServedInv, NEW t \in Thread, mode[t] # "callback", mode'[t] \in {"run", "trap"},
           served'[t] = served[t], pc'[t] = pc[t], nextId' = nextId, active' \subseteq active, cfg' = cfg,
           \A i \in active' \cap served[t] :
              Off(i, t) /\ step[i].pc # pc[t] => Off(i, t)' /\ step'[i].pc = step[i].pc
    PROVE  Served(t)'
<1>1. Served(t)
  BY DEF ServedInv
<1>2. ASSUME NEW i \in served[t], i \in active' PROVE cfg'[i].tid = t /\ Passed(i, t)'
  <2>1. cfg[i].tid = t /\ Passed(i, t)
    BY <1>1, <1>2 DEF Served
  <2>2. Off(i, t) /\ step[i].pc # pc[t]
    BY <2>1 DEF Passed
  <2> QED BY <1>2, <2>1, <2>2 DEF Passed
<1> QED BY <1>1, <1>2 DEF Served

\* Steps that dispatch nothing and re-arm nothing.
LEMMA QuietServed ==
    ASSUME Bound, Straight, ManagerInv, ServedInv, NEW t \in Thread,
           Execute(t) \/ Trap(t) \/ NotOurs(t) \/ InjectorDetach(t) \/ ThreadStart(t) \/ ThreadExit(t)
    PROVE  ServedInv'
<1>0. TypeOK /\ Served(t) /\ StepsReset
  BY DEF ManagerInv, ServedInv
<1>1. UNCHANGED <<nextId, active, cfg, slot, step>>
  BY DEF Execute, Trap, NotOurs, InjectorDetach, ThreadStart, ThreadExit, mgrVars
<1>2. ASSUME NEW u \in Thread, u # t PROVE Served(u)'
  <2>1. /\ served'[u] = served[u] /\ mode'[u] = mode[u] /\ hit'[u] = hit[u] /\ pc'[u] = pc[u]
        /\ hwBp'[u] = hwBp[u] /\ hwWp'[u] = hwWp[u]
    BY <1>0, <1>2 DEF Execute, Trap, NotOurs, InjectorDetach, ThreadStart, ThreadExit, thrVars, hwVars, TypeOK
  <2> QED BY <1>1, <1>2, <2>1, OthersServed
<1>3. CASE Execute(t) \/ ThreadStart(t) \/ ThreadExit(t)
  <2>1. served'[t] = {} /\ mode'[t] # "callback"
    BY <1>0, <1>3 DEF Execute, ThreadStart, ThreadExit, TypeOK, Served
  <2> QED BY <1>0, <1>1, <1>2, <2>1 DEF Served, ServedInv, StepsReset
<1>4. CASE Trap(t) \/ NotOurs(t) \/ InjectorDetach(t)
  <2>1. /\ mode[t] # "callback" /\ mode'[t] \in {"run", "trap"} /\ served'[t] = served[t] /\ pc'[t] = pc[t]
        /\ UNCHANGED <<hwBp, hwWp>>
    BY <1>0, <1>4 DEF Trap, NotOurs, InjectorDetach, thrVars, hwVars, TypeOK
  <2>2. Served(t)'
    BY <1>1, <2>1, OwnServed DEF Off
  <2> QED BY <1>0, <1>1, <1>2, <2>2 DEF ServedInv, StepsReset
<1> QED BY <1>3, <1>4

\* The session dispatched is not one that was dispatched since the thread last moved.
LEMMA FreshHit ==
    ASSUME Bound, ManagerInv, ServedInv, NEW t \in Thread, NEW i, Dispatching(t, i)
    PROVE  /\ i \in active /\ i \notin served[t] /\ cfg[i].tid = t /\ i < nextId
           /\ mode[t] = "trap" /\ step[i].tid = NoThread /\ i \in Id
<1>1. mode[t] = "trap" /\ Stepping(t) = {} /\ Claimed(t) # {} /\ i = Lowest(Claimed(t))
  BY DEF Dispatching
<1>2. i \in Claimed(t)
  <2>1. listed \subseteq Id /\ Id \subseteq Nat
    BY DEF ManagerInv, TypeOK, Id
  <2>2. Claimed(t) \subseteq Nat
    BY <2>1 DEF Claimed
  <2> QED BY <1>1, <2>2, LowestIn
<1>3. i \in active /\ cfg[i].tid = t /\ step[i].tid = NoThread /\ ~Off(i, t)
  BY <1>1, <1>2, Claims
<1>4. i \notin served[t]
  BY <1>1, <1>3 DEF ServedInv, Served, Passed
<1> QED BY <1>1, <1>3, <1>4, Live

\* A dispatched session joins those its thread has been served by, and is in its callback.
LEMMA DispatchServed ==
    ASSUME Bound, Straight, ManagerInv, ServedInv, NEW t \in Thread, Dispatch(t) \/ DispatchOnce(t)
    PROVE  ServedInv'
<1>0. TypeOK /\ BoundInv /\ Served(t) /\ StepsReset
  BY DEF ManagerInv, ServedInv
<1>1. PICK i \in listed :
        /\ Dispatching(t, i)
        /\ \/ ~cfg[i].once /\ UNCHANGED <<active, hwBp, hwWp>>
           \/ /\ active' = active \ {i}
              /\ \E D \in SUBSET Peers(i, t) : DisarmOnThread(i, {t} \cup D)
  BY DEF Dispatch, DispatchOnce, hwVars
<1>2. /\ UNCHANGED <<nextId, cfg, slot, step, pc>>
      /\ mode'[t] = "callback" /\ hit'[t] = i /\ served'[t] = served[t] \cup {i}
      /\ \A u \in Thread : u # t => mode'[u] = mode[u] /\ hit'[u] = hit[u] /\ served'[u] = served[u]
  BY <1>0, <1>1 DEF Dispatching, TypeOK
<1>3. /\ i \in active /\ i \notin served[t] /\ cfg[i].tid = t /\ i < nextId /\ mode[t] = "trap"
      /\ slot[i] \in Slot /\ cfg[i].type \in Types
  BY <1>1, FreshHit, Live
<1>4. \A u \in Thread, r \in Slot :
        /\ hwBp'[u][r] = hwBp[u][r] \/ (u = t /\ hwBp'[u][r] = 0)
        /\ hwWp'[u][r] = hwWp[u][r] \/ (u = t /\ hwWp'[u][r] = {})
  <2>1. CASE UNCHANGED <<hwBp, hwWp>>
    BY <2>1
  <2>2. ASSUME NEW D \in SUBSET Peers(i, t), DisarmOnThread(i, {t} \cup D)
        PROVE  \A u \in Thread, r \in Slot :
                  /\ hwBp'[u][r] = hwBp[u][r] \/ (u = t /\ hwBp'[u][r] = 0)
                  /\ hwWp'[u][r] = hwWp[u][r] \/ (u = t /\ hwWp'[u][r] = {})
    <3>1. {t} \cup D = {t}
      BY <1>3, ThreadAssumption DEF Peers
    <3>2. DisarmOnThread(i, {t})
      BY <2>2, <3>1
    <3> QED BY <1>0, <1>3, <3>2, DisarmedOn
  <2> QED BY <1>1, <2>1, <2>2
<1>5. active' \subseteq active /\ active \subseteq Id /\ slot \in [Id -> Slot]
  BY <1>0, <1>1 DEF TypeOK
<1>6. ASSUME NEW u \in Thread, u # t PROVE Served(u)'
  BY <1>2, <1>4, <1>5, <1>6, OthersServed
<1>7. Served(t)'
  <2>1. i \in active' => ~cfg[i].once
    BY <1>1
  <2>2. ASSUME NEW j \in served[t], j \in active' PROVE cfg[j].tid = t /\ Passed(j, t)'
    <3>1. j \in active /\ cfg[j].tid = t /\ Off(j, t) /\ step[j].pc # pc[t] /\ slot[j] \in Slot
      BY <1>0, <1>3, <1>5, <2>2 DEF Served, Passed
    <3>2. Off(j, t)'
      BY <1>2, <1>4, <3>1 DEF Off
    <3> QED BY <1>2, <3>1, <3>2 DEF Passed
  <2>3. Passed(i, t)'
    BY <1>2 DEF Passed
  <2>4. \A j \in served'[t] : j < nextId' /\ (j \in active' => cfg'[j].tid = t /\ Passed(j, t)')
    BY <1>0, <1>2, <1>3, <2>2, <2>3 DEF Served
  <2> QED BY <1>2, <2>1, <2>4 DEF Served
<1> QED BY <1>0, <1>2, <1>6, <1>7 DEF ServedInv, StepsReset

\* The session re-armed is not one the thread has been served by, for its step-over is at
\* the thread's pc.
LEMMA StepOverServed ==
    ASSUME Bound, Straight, ManagerInv, ServedInv, NEW t \in Thread, StepOverHit(t)
    PROVE  ServedInv'
<1>0. TypeOK /\ SlotInv /\ BoundInv /\ Served(t) /\ StepsReset
  BY DEF ManagerInv, ServedInv
<1>1. PICK i \in Stepping(t) : i = Lowest(Stepping(t))
  <2>1. listed \subseteq Id /\ Id \subseteq Nat
    BY <1>0 DEF TypeOK, Id
  <2>2. Stepping(t) \subseteq Nat /\ Stepping(t) # {}
    BY <2>1 DEF StepOverHit, Stepping
  <2> QED BY <2>2, LowestIn
<1>2. i \in active /\ step[i].tid = t /\ step[i].pc = pc[t] /\ mode[t] = "trap" /\ i \in listed
  BY <1>1 DEF Stepping, StepOverHit
<1>3. i \in Id /\ cfg[i].tid = t /\ slot[i] \in Slot
  BY <1>2, Live, ThreadAssumption DEF BoundTo
<1>4. i \notin served[t]
  BY <1>0, <1>2 DEF Served, Passed
<1>5. /\ UNCHANGED <<nextId, active, cfg, slot, pc, hit, served>>
      /\ step' = [step EXCEPT ![i] = NoStep] /\ mode' = [mode EXCEPT ![t] = "run"]
  BY <1>1 DEF StepOverHit
<1>6. /\ step'[i] = NoStep /\ \A j \in Id : j # i => step'[j] = step[j]
      /\ mode'[t] = "run" /\ \A u \in Thread : u # t => mode'[u] = mode[u]
      /\ active \subseteq Id /\ slot \in [Id -> Slot]
  BY <1>0, <1>3, <1>5 DEF TypeOK
<1>7. \A u \in Thread, r \in Slot :
        /\ hwBp'[u][r] # hwBp[u][r] => u = t /\ (hwBp'[u][r] = 0 \/ (cfg[i].type = "bp" /\ r = slot[i]))
        /\ hwWp'[u][r] # hwWp[u][r] => u = t /\ cfg[i].type = "wp" /\ r = slot[i]
  <2> TAKE u \in Thread, r \in Slot
  <2> DEFINE hw == GumSetBp(hwBp, {t}, step[i].slot, 0)
  <2>0. hwWp \in [Thread -> [Slot -> SUBSET Nat]]
    BY <1>0 DEF TypeOK
  <2>1. hwBp \in [Thread -> [Slot -> Nat]] /\ hw \in [Thread -> [Slot -> Nat]]
    BY <1>0, GumSetBpType DEF TypeOK
  <2>2. /\ hwBp' = IF cfg[i].type = "bp" THEN GumSetBp(hw, {t}, slot[i], cfg[i].addr) ELSE hw
        /\ hwWp' = IF cfg[i].type = "wp" THEN GumSetWp(hwWp, {t}, slot[i], Watched(cfg[i])) ELSE hwWp
    BY <1>1 DEF StepOverHit
  <2>3. hw[u][r] = IF u \in {t} /\ step[i].slot < HwSlots["bp"] /\ r = step[i].slot THEN 0 ELSE hwBp[u][r]
    BY <2>1, BpWritten
  <2> HIDE DEF hw
  <2>4. GumSetBp(hw, {t}, slot[i], cfg[i].addr)[u][r] =
          IF u \in {t} /\ slot[i] < HwSlots["bp"] /\ r = slot[i] THEN cfg[i].addr ELSE hw[u][r]
    BY <2>1, BpWritten
  <2>5. GumSetWp(hwWp, {t}, slot[i], Watched(cfg[i]))[u][r] =
          IF u \in {t} /\ slot[i] < HwSlots["wp"] /\ r = slot[i] THEN Watched(cfg[i]) ELSE hwWp[u][r]
    BY <2>0, WpWritten
  <2> QED BY <2>2, <2>3, <2>4, <2>5
<1>8. ASSUME NEW u \in Thread, u # t PROVE Served(u)'
  <2>1. \A j \in active : cfg[j].tid # t => step'[j] = step[j]
    BY <1>3, <1>6
  <2>2. \A r \in Slot : hwBp'[u][r] = hwBp[u][r] /\ hwWp'[u][r] = hwWp[u][r]
    BY <1>7, <1>8
  <2> QED BY <1>5, <1>6, <1>8, <2>1, <2>2, OthersServed
<1>9. Served(t)'
  <2>1. ASSUME NEW j \in active \cap served[t], Off(j, t) PROVE Off(j, t)' /\ step'[j].pc = step[j].pc
    <3>1. j # i /\ j \in Id /\ j \in active /\ slot[j] \in Slot
      BY <1>4, <1>6, <2>1
    <3>2. cfg[j].type = cfg[i].type => slot[j] # slot[i]
      <4>1. j \in listed /\ cfg[j].type \in Types
        BY <3>1, Live
      <4>2. cfg[i].type = "bp" /\ cfg[j].type = "bp" => slot[j] # slot[i]
        BY <1>0, <1>2, <3>1, <4>1 DEF SlotInv, BpSlotsExclusive, ListedBp
      <4>3. cfg[i].type = "wp" /\ cfg[j].type = "wp" => slot[j] # slot[i]
        BY <1>0, <1>2, <3>1 DEF BoundInv, WpSlotsExclusive
      <4> QED BY <4>1, <4>2, <4>3 DEF Types
    <3>3. cfg[j].type = "bp" => hwBp'[t][slot[j]] = 0
      BY <1>7, <2>1, <3>1, <3>2 DEF Off
    <3>4. cfg[j].type = "wp" => hwWp'[t][slot[j]] = {}
      BY <1>7, <2>1, <3>1, <3>2 DEF Off
    <3>5. cfg[j].type \in Types
      BY <3>1, Live
    <3> QED BY <1>5, <1>6, <3>1, <3>3, <3>4, <3>5 DEF Off, Types
  <2> QED BY <1>2, <1>5, <1>6, <2>1, OwnServed
<1>10. StepsReset'
  BY <1>0, <1>6 DEF StepsReset, NoStep
<1> QED BY <1>8, <1>9, <1>10 DEF ServedInv

\* A thread that returns leaves its session off and its other sessions as they were.
LEMMA ReturnServed ==
    ASSUME Bound, Straight, ManagerInv, ServedInv, NEW t \in Thread,
           ReturnDone(t) \/ ReturnStepOver(t) \/ ReturnExhausted(t)
    PROVE  ServedInv'
<1>0. TypeOK /\ SlotInv /\ BoundInv /\ Served(t) /\ StepsReset
  BY DEF ManagerInv, ServedInv
<1>1. PICK i \in Id : Returning(t, i) /\ (ReturnDone(t) => cfg[i].once \/ i \notin active)
  BY <1>0 DEF ReturnDone, ReturnStepOver, ReturnExhausted, Returning, TypeOK
<1>2. /\ mode[t] = "callback" /\ i = hit[t]
      /\ UNCHANGED <<nextId, listed, cfg, slot, served>> /\ pc' = pc
      /\ mode'[t] = "run" /\ \A u \in Thread : u # t => mode'[u] = mode[u] /\ hit'[u] = hit[u]
      /\ pc[t] \in Code /\ 0 \notin Code
  <2>1. pc' = [pc EXCEPT ![t] = pc[t]]
    BY <1>1 DEF Returning, Straight
  <2>2. pc' = pc
    BY <1>0, <2>1 DEF TypeOK
  <2> QED BY <1>0, <1>1, <2>2 DEF Returning, TypeOK, Code
<1>3. active \subseteq Id /\ slot \in [Id -> Slot]
  BY <1>0 DEF TypeOK
<1>4. ASSUME active' \subseteq active,
             \A j \in active : cfg[j].tid # t => step'[j] = step[j],
             \A u \in Thread, r \in Slot : u # t => hwBp'[u][r] = hwBp[u][r] /\ hwWp'[u][r] = hwWp[u][r],
             \A j \in active' : j # i => step'[j] = step[j] /\ (Off(j, t) => Off(j, t)'),
             i \in active' => Off(i, t)' /\ step'[i].pc # pc[t],
             StepsReset'
      PROVE  ServedInv'
  <2>1. ASSUME NEW u \in Thread, u # t PROVE Served(u)'
    <3>1. \A r \in Slot : hwBp'[u][r] = hwBp[u][r] /\ hwWp'[u][r] = hwWp[u][r]
      BY <1>4, <2>1
    <3> QED BY <1>2, <1>4, <2>1, <3>1, OthersServed
  <2>2. ASSUME NEW j \in served'[t] PROVE j < nextId' /\ (j \in active' => cfg'[j].tid = t /\ Passed(j, t)')
    <3>1. j < nextId /\ (j \in active => cfg[j].tid = t /\ Passed(j, t))
      BY <1>0, <1>2, <2>2 DEF Served
    <3>2. ASSUME j \in active' PROVE Passed(j, t)'
      <4>1. CASE j = i
        BY <1>2, <1>4, <3>2, <4>1 DEF Passed
      <4>2. CASE j # i
        <5>1. Off(j, t) /\ step[j].pc # pc[t]
          BY <1>2, <1>4, <3>1, <3>2, <4>2 DEF Passed
        <5>2. Off(j, t)' /\ step'[j] = step[j]
          BY <1>4, <3>2, <4>2, <5>1
        <5> QED BY <1>2, <5>1, <5>2 DEF Passed
      <4> QED BY <4>1, <4>2
    <3> QED BY <1>2, <1>4, <3>1, <3>2
  <2>3. Served(t)'
    BY <1>2, <2>2 DEF Served
  <2> QED BY <1>4, <2>1, <2>3 DEF ServedInv
<1>5. CASE ReturnDone(t)
  <2>1. UNCHANGED <<active, step, hwBp, hwWp>>
    BY <1>5 DEF ReturnDone, hwVars
  <2>2. i \notin active
    BY <1>0, <1>1, <1>2, <1>5 DEF Served
  <2> QED BY <1>0, <1>2, <1>4, <2>1, <2>2 DEF Off, StepsReset
<1>6. CASE ReturnStepOver(t)
  <2>1. /\ i \in active /\ active' = active
        /\ \E s \in StepSlot(i) :
            LET next == IF cfg[i].type = "bp" THEN NextPc(pc[t]) ELSE pc[t] + 1
                hw   == IF cfg[i].type = "bp" THEN GumSetBp(hwBp, {t}, slot[i], 0) ELSE hwBp
            IN /\ step' = [step EXCEPT ![i] = [slot |-> s, pc |-> next, tid |-> t]]
               /\ hwBp' = GumSetBp(hw, {t}, s, next)
        /\ hwWp' = IF cfg[i].type = "wp" THEN GumSetWp(hwWp, {t}, slot[i], {}) ELSE hwWp
    BY <1>2, <1>6 DEF ReturnStepOver, Returning
  <2> DEFINE next == IF cfg[i].type = "bp" THEN NextPc(pc[t]) ELSE pc[t] + 1
             hw   == IF cfg[i].type = "bp" THEN GumSetBp(hwBp, {t}, slot[i], 0) ELSE hwBp
  <2>2. PICK s \in StepSlot(i) : /\ step' = [step EXCEPT ![i] = [slot |-> s, pc |-> next, tid |-> t]]
                                 /\ hwBp' = GumSetBp(hw, {t}, s, next)
    BY <2>1
  <2>3. next # pc[t]
    BY <1>2 DEF Straight, Code
  <2>4. s \in Slot /\ s \notin used["bp"]
    BY DEF StepSlot, FreeSlots
  <2>5. cfg[i].tid = t /\ slot[i] \in Slot /\ cfg[i].type \in Types /\ (cfg[i].type = "bp" => slot[i] # s)
    BY <1>1, <2>1, <2>4, Returned, Live
  <2>6. \A u \in Thread, r \in Slot :
          /\ hwBp'[u][r] # hwBp[u][r] => u = t /\ (hwBp'[u][r] = 0 \/ r = s)
          /\ hwWp'[u][r] # hwWp[u][r] => u = t /\ hwWp'[u][r] = {}
          /\ u = t /\ r = slot[i] /\ cfg[i].type = "bp" => hwBp'[u][r] = 0
          /\ u = t /\ r = slot[i] /\ cfg[i].type = "wp" => hwWp'[u][r] = {}
    <3> TAKE u \in Thread, r \in Slot
    <3>1. /\ hwBp \in [Thread -> [Slot -> Nat]] /\ hw \in [Thread -> [Slot -> Nat]]
          /\ hwWp \in [Thread -> [Slot -> SUBSET Nat]]
      BY <1>0, GumSetBpType DEF TypeOK
    <3>2. GumSetBp(hwBp, {t}, slot[i], 0)[u][r] =
            IF u \in {t} /\ slot[i] < HwSlots["bp"] /\ r = slot[i] THEN 0 ELSE hwBp[u][r]
      BY <3>1, BpWritten
    <3>3. /\ hwBp[u][r] # 0 => r < HwSlots["bp"]
          /\ hwWp[u][r] # {} => r < HwSlots["wp"]
      BY <1>0 DEF BoundInv, BpOwned, WpOwned
    <3>4. hw[u][r] = IF cfg[i].type = "bp" /\ u = t /\ r = slot[i] THEN 0 ELSE hwBp[u][r]
      BY <3>2, <3>3
    <3> HIDE DEF hw, next
    <3>5. GumSetBp(hw, {t}, s, next)[u][r] =
            IF u \in {t} /\ s < HwSlots["bp"] /\ r = s THEN next ELSE hw[u][r]
      BY <3>1, BpWritten
    <3>6. GumSetWp(hwWp, {t}, slot[i], {})[u][r] =
            IF u \in {t} /\ slot[i] < HwSlots["wp"] /\ r = slot[i] THEN {} ELSE hwWp[u][r]
      BY <3>1, WpWritten
    <3>7. hwBp'[u][r] = IF u = t /\ s < HwSlots["bp"] /\ r = s THEN next ELSE hw[u][r]
      BY <2>2, <3>5
    <3>8. hwWp'[u][r] = IF cfg[i].type = "wp" /\ u = t /\ r = slot[i] THEN {} ELSE hwWp[u][r]
      BY <2>1, <3>3, <3>6
    <3> QED BY <2>5, <3>4, <3>7, <3>8
  <2> HIDE DEF hw, next
  <2>7. /\ step'[i].pc = next /\ step'[i].tid = t /\ \A j \in Id : j # i => step'[j] = step[j]
    BY <1>0, <2>2 DEF TypeOK
  <2>8. ASSUME NEW j \in active', j # i PROVE step'[j] = step[j] /\ (Off(j, t) => Off(j, t)')
    <3>1. j \in active /\ j \in Id /\ slot[j] \in Slot /\ (cfg[j].type = "bp" => slot[j] # s)
      BY <1>3, <2>1, <2>4, <2>8, Live
    <3> QED BY <1>2, <2>6, <2>7, <2>8, <3>1 DEF Off
  <2>9. Off(i, t)' /\ step'[i].pc # pc[t]
    BY <1>2, <2>3, <2>5, <2>6, <2>7 DEF Off, Types
  <2>10. StepsReset'
    BY <1>0, <2>7, ThreadAssumption DEF StepsReset
  <2>11. \A j \in active : cfg[j].tid # t => step'[j] = step[j]
    BY <1>3, <2>5, <2>7
  <2>12. \A u \in Thread, r \in Slot : u # t => hwBp'[u][r] = hwBp[u][r] /\ hwWp'[u][r] = hwWp[u][r]
    BY <2>6
  <2> QED BY <1>4, <2>1, <2>8, <2>9, <2>10, <2>11, <2>12
<1>7. CASE ReturnExhausted(t)
  <2>1. /\ i \in active /\ DisarmOnThread(i, {t}) /\ step' = step
        /\ active' = IF cfg[i].type = "wp" THEN active \ {i} ELSE active
    BY <1>2, <1>7 DEF ReturnExhausted, Returning
  <2>2. cfg[i].tid = t /\ slot[i] \in Slot /\ cfg[i].type \in Types /\ step[i].tid = NoThread
    BY <1>1, <2>1, Returned
  <2>3. \A u \in Thread, r \in Slot :
             /\ hwBp'[u][r] = IF cfg[i].type = "bp" /\ u = t /\ r = slot[i] THEN 0 ELSE hwBp[u][r]
             /\ hwWp'[u][r] = IF cfg[i].type = "wp" /\ u = t /\ r = slot[i] THEN {} ELSE hwWp[u][r]
    BY <1>0, <2>1, <2>2, DisarmedOn
  <2>4. ASSUME NEW j \in active' PROVE Off(j, t) => Off(j, t)'
    <3>1. slot[j] \in Slot
      BY <1>3, <2>1, <2>4
    <3> QED BY <1>2, <2>3, <3>1 DEF Off
  <2>5. i \in active' => Off(i, t)' /\ step'[i].pc # pc[t]
    BY <1>0, <1>2, <2>1, <2>2, <2>3 DEF Off, Types, StepsReset
  <2>6. \A u \in Thread, r \in Slot : u # t => hwBp'[u][r] = hwBp[u][r] /\ hwWp'[u][r] = hwWp[u][r]
    BY <2>3
  <2> QED BY <1>0, <1>4, <2>1, <2>4, <2>5, <2>6 DEF StepsReset
<1> QED BY <1>5, <1>6, <1>7

\* For any number of threads, comparators and sessions: between two instructions a thread
\* retires, a session is dispatched on it at most once.
THEOREM NoLoop ==
    ASSUME Bound, Straight
    PROVE  Spec => NoBreakLoop
<1> DEFINE Inv == ManagerInv /\ ServedInv
           Once == \A t \in Thread : mode[t] = "trap" /\ mode'[t] = "callback" => hit'[t] \notin served[t]
<1>1. Init => Inv
  <2>1. Init => ServedInv
    BY DEF Init, ServedInv, Served, StepsReset, NoStep
  <2> QED BY <2>1, InitType, InitSlots, InitBound DEF ManagerInv
<1>2. Inv /\ [Next]_vars => Inv'
  <2> SUFFICES ASSUME ManagerInv, ServedInv, [Next]_vars PROVE ServedInv'
    BY NextBound
  <2>1. CASE Api
    BY <2>1, ApiServed
  <2>2. ASSUME NEW t \in Thread, ThreadStep(t) \/ Lifecycle(t) PROVE ServedInv'
    BY <2>2, QuietServed, DispatchServed, StepOverServed, ReturnServed
    DEF ThreadStep, HandleException, Lifecycle
  <2>3. CASE UNCHANGED vars
    BY <2>3 DEF vars, mgrVars, hwVars, thrVars, ServedInv, Served, StepsReset, Passed, Off
  <2> QED BY <2>1, <2>2, <2>3 DEF Next
<1>3. Inv /\ [Next]_vars => [Once]_vars
  <2> SUFFICES ASSUME ManagerInv, ServedInv, Next, NEW t \in Thread, mode[t] = "trap", mode'[t] = "callback"
               PROVE  hit'[t] \notin served[t]
    OBVIOUS
  <2>0. mode \in [Thread -> Modes] /\ hit \in [Thread -> Id \cup {0}]
    BY DEF ManagerInv, TypeOK
  <2>1. ASSUME Api PROVE FALSE
    <3>1. mode' = mode
      BY <2>1 DEF Api, Attach, Initialize, AttachReuse, AttachNew, AttachUnarmed, Detach, DetachAll,
                  RearmMissingThreads, RefreshCapacity, thrVars
    <3> QED BY <3>1
  <2>2. PICK u \in Thread : ThreadStep(u) \/ Lifecycle(u)
    BY <2>1 DEF Next
  <2>3. CASE Dispatch(u) \/ DispatchOnce(u)
    <3>1. PICK i : Dispatching(u, i)
      BY <2>3 DEF Dispatch, DispatchOnce
    <3>2. mode' = [mode EXCEPT ![u] = "callback"] /\ hit' = [hit EXCEPT ![u] = i]
      BY <3>1 DEF Dispatching
    <3>3. u = t /\ hit'[t] = i
      BY <2>0, <3>2
    <3> QED BY <3>1, <3>3, FreshHit
  <2>4. CASE ~(Dispatch(u) \/ DispatchOnce(u))
    <3>1. mode' = mode \/ \E m \in {"run", "trap", "absent"} : mode' = [mode EXCEPT ![u] = m]
      BY <2>2, <2>4 DEF ThreadStep, HandleException, Lifecycle, Execute, Trap, StepOverHit, NotOurs,
           ReturnDone, ReturnStepOver, ReturnExhausted, Returning, InjectorDetach, ThreadStart, ThreadExit, thrVars
    <3> QED BY <2>0, <3>1
  <2> QED BY <2>3, <2>4
<1> HIDE DEF Inv
<1>4. Spec => [][Once]_vars
  BY <1>1, <1>2, <1>3, PTL DEF Spec
<1> QED BY <1>4 DEF NoBreakLoop

-----------------------------------------------------------------------------
(* Re-arming.                                                              *)

\* There are comparators for every session and every step-over, the capacities that init()
\* assumes are real, and no thread's registers are lost by an exit.
Enough ==
    /\ 2 * MaxId <= DefaultCap["bp"] /\ DefaultCap["bp"] <= HwSlots["bp"]
    /\ DefaultCap["wp"] <= HwSlots["wp"]
    /\ MayExit = {}

\* The capacities are real once init() has run, and so are the slots handed out.
CapInv ==
    /\ initialized => /\ \A ty \in Types : cap[ty] <= HwSlots[ty]
                      /\ 2 * MaxId <= cap["bp"]
    /\ ~initialized => active = {}
    /\ \A ty \in Types : \A s \in used[ty] : s < HwSlots[ty]

\* Slots are handed out below the capacities, which stay real.
LEMMA CapKept ==
    ASSUME Bound, Enough, ManagerInv, CapInv, [Next]_vars
    PROVE  CapInv'
<1>0. /\ TypeOK /\ cap \in [Types -> Int] /\ HwSlots \in [Types -> Int] /\ DefaultCap \in [Types -> Int]
      /\ MaxId \in Int /\ Types = {"bp", "wp"}
  BY SlotAssumption, BoundAssumption DEF ManagerInv, TypeOK, CapType, Types
<1>1. ASSUME UNCHANGED <<initialized, cap>>, active' \subseteq active,
             \A ty \in Types : used'[ty] \subseteq used[ty]
      PROVE  CapInv'
  BY <1>1 DEF CapInv
<1>2. ASSUME InitManager, UNCHANGED <<used, active>> PROVE CapInv'
  BY <1>0, <1>2 DEF InitManager, CapInv, Enough
<1>3. CASE RefreshCapacity
  <2>1. UNCHANGED <<initialized, used, active>> /\ initialized
    BY <1>3 DEF RefreshCapacity
  <2>2. \A ty \in Types : cap'[ty] \in {HwSlots[ty], cap[ty]}
    BY <1>3 DEF RefreshCapacity
  <2>3. 2 * MaxId <= HwSlots["bp"]
    BY <1>0 DEF Enough
  <2>4. /\ \A ty \in Types : cap'[ty] <= HwSlots[ty]
        /\ 2 * MaxId <= cap'["bp"]
    BY <1>0, <2>1, <2>2, <2>3 DEF CapInv
  <2> QED BY <2>1, <2>4 DEF CapInv
<1>4. ASSUME NEW c \in Config, AttachNew(c) PROVE CapInv'
  <2>1. PICK s \in FreeSlots(c.type) : used' = Mark(c.type, s)
    BY <1>4 DEF AttachNew, AllocateSlot
  <2>2. UNCHANGED <<initialized, cap>> /\ initialized
    BY <1>4 DEF AttachNew
  <2>3. c.type \in Types
    BY ConfigAssumption DEF ConfigType
  <2>4. s \in Int /\ s < HwSlots[c.type]
    BY <1>0, <2>2, <2>3 DEF FreeSlots, CapInv, Slot
  <2>5. \A ty \in Types : used'[ty] \subseteq used[ty] \/ (ty = c.type /\ used'[ty] = used[ty] \cup {s})
    BY <1>0, <2>1, <2>3 DEF Mark, TypeOK
  <2>6. \A ty \in Types : \A r \in used'[ty] : r < HwSlots[ty]
    BY <2>4, <2>5 DEF CapInv
  <2> QED BY <2>2, <2>6 DEF CapInv
<1>5. ASSUME NEW t \in Thread, ReturnStepOver(t) PROVE CapInv'
  <2>1. PICK i \in active, s \in FreeSlots("bp") : used' = Mark("bp", s)
    BY <1>5 DEF ReturnStepOver, StepSlot
  <2>2. UNCHANGED <<initialized, cap, active>> /\ initialized
    BY <1>5, <2>1 DEF ReturnStepOver, Returning, CapInv
  <2>3. s \in Int /\ s < HwSlots["bp"]
    BY <1>0, <2>2 DEF FreeSlots, CapInv, Slot
  <2>4. used'["bp"] = used["bp"] \cup {s} /\ used'["wp"] = used["wp"]
    BY <1>0, <2>1 DEF Mark, TypeOK
  <2>5. \A ty \in Types : \A r \in used'[ty] : r < HwSlots[ty]
    BY <1>0, <2>3, <2>4 DEF CapInv
  <2> QED BY <2>2, <2>5 DEF CapInv
<1>6. ASSUME NEW t \in Thread, ThreadStep(t) \/ Lifecycle(t), ~ReturnStepOver(t) PROVE CapInv'
  <2>1. UNCHANGED <<initialized, cap>> /\ active' \subseteq active
    BY <1>6 DEF ThreadStep, HandleException, Lifecycle, Execute, Trap, StepOverHit, Dispatch, DispatchOnce,
         Dispatching, NotOurs, ReturnDone, ReturnExhausted, Returning, InjectorDetach, ThreadStart,
         ThreadExit, mgrVars
  <2>2. used' = used \/ \E ty \in Types, s \in {slot[i] : i \in Id} \cup {step[i].slot : i \in Id} : used' = FreeSlot(ty, s)
    <3>1. ASSUME DispatchOnce(t)
          PROVE  \E ty \in Types, s \in {slot[i] : i \in Id} : used' = FreeSlot(ty, s)
      <4>1. PICK i \in listed : used' = FreeSlot(cfg[i].type, slot[i])
        BY <3>1 DEF DispatchOnce
      <4>2. i \in Id /\ cfg[i].type \in Types
        BY <1>0 DEF TypeOK, ConfigType
      <4> QED BY <4>1, <4>2
    <3>2. ASSUME StepOverHit(t)
          PROVE  \E s \in {step[i].slot : i \in Id} : used' = FreeSlot("bp", s)
      <4>1. PICK i : i = Lowest(Stepping(t)) /\ used' = FreeSlot("bp", step[i].slot)
        BY <3>2 DEF StepOverHit
      <4>2. listed \subseteq Id /\ Id \subseteq Nat
        BY <1>0 DEF TypeOK, Id
      <4>3. Stepping(t) \subseteq Nat /\ Stepping(t) # {} /\ Stepping(t) \subseteq Id
        BY <3>2, <4>2 DEF StepOverHit, Stepping
      <4>4. i \in Id
        BY <4>1, <4>3, LowestIn
      <4> QED BY <4>1, <4>4
    <3>3. ASSUME ReturnExhausted(t)
          PROVE  used' = used \/ \E s \in {slot[i] : i \in Id} : used' = FreeSlot("wp", s)
      BY <1>0, <3>3 DEF ReturnExhausted, TypeOK
    <3>4. ASSUME ~DispatchOnce(t), ~StepOverHit(t), ~ReturnExhausted(t) PROVE used' = used
      BY <1>6, <3>4 DEF ThreadStep, HandleException, Lifecycle, Execute, Trap, Dispatch,
         NotOurs, ReturnDone, InjectorDetach, ThreadStart, ThreadExit, mgrVars
    <3> QED BY <1>0, <3>1, <3>2, <3>3, <3>4
  <2>3. \A ty \in Types : used'[ty] \subseteq used[ty]
    BY <1>0, <2>2 DEF FreeSlot, TypeOK
  <2> QED BY <1>1, <2>1, <2>3
<1>7. CASE Initialize
  BY <1>2, <1>7 DEF Initialize
<1>8. ASSUME NEW c \in Config, AttachReuse(c) PROVE CapInv'
  BY <1>2, <1>8 DEF AttachReuse
<1>9. ASSUME NEW c \in Config, AttachUnarmed(c) PROVE CapInv'
  BY <1>1, <1>9 DEF AttachUnarmed
<1>10. CASE UNCHANGED vars
  BY <1>1, <1>10 DEF vars, mgrVars
<1> QED BY <1>3, <1>4, <1>5, <1>6, <1>7, <1>8, <1>9, <1>10, ApiIdle DEF Next, Api, Attach

\* With two comparators for every session, a step-over always finds one.
LEMMA SpareSlot ==
    ASSUME Bound, Enough, ManagerInv, CapInv, NEW i \in active, step[i].tid = NoThread
    PROVE  StepSlot(i) # {}
<1>0. /\ TypeOK /\ cap["bp"] \in Nat /\ cap["bp"] <= MaxHwSlots /\ MaxHwSlots \in Nat
      /\ MaxId \in Nat /\ Id = 1..MaxId /\ i \in Id
  <2>1. TypeOK /\ MaxHwSlots \in Nat /\ MaxId \in Nat /\ Id = 1..MaxId
    BY SlotAssumption, BoundAssumption DEF ManagerInv, Id
  <2>2. cap["bp"] \in 0..MaxHwSlots
    BY <2>1 DEF TypeOK, CapType, Types
  <2>3. i \in Id
    BY Live
  <2> QED BY <2>1, <2>2, <2>3
<1>1. 2 * MaxId <= cap["bp"]
  BY <1>0 DEF CapInv
<1> DEFINE N == cap["bp"]
           A == {slot[j] : j \in Id}
           B == {step[j].slot : j \in Id \ {i}}
           spare == FreeSlots("bp") \ {slot[i]}
<1>2. IsFiniteSet(Id) /\ Cardinality(Id) = MaxId
  BY <1>0, FS_Interval
<1>3. IsFiniteSet(A) /\ Cardinality(A) <= MaxId
  <2> DEFINE f == [j \in Id |-> slot[j]]
  <2>1. f \in Surjection(Id, A)
    BY DEF Surjection
  <2> QED BY <1>2, <2>1, FS_Surjection
<1>4. IsFiniteSet(Id \ {i}) /\ Cardinality(Id \ {i}) = MaxId - 1
  BY <1>0, <1>2, FS_RemoveElement
<1>5. IsFiniteSet(B) /\ Cardinality(B) <= MaxId - 1
  <2> DEFINE f == [j \in Id \ {i} |-> step[j].slot]
  <2>1. f \in Surjection(Id \ {i}, B)
    BY DEF Surjection
  <2> QED BY <1>4, <2>1, FS_Surjection
<1>6. IsFiniteSet(A \cup B) /\ Cardinality(A \cup B) <= 2 * MaxId - 1
  <2>1. /\ IsFiniteSet(A \cup B) /\ IsFiniteSet(A \cap B)
        /\ Cardinality(A \cup B) = Cardinality(A) + Cardinality(B) - Cardinality(A \cap B)
    BY <1>3, <1>5, FS_Union, FS_Intersection
  <2>2. Cardinality(A) \in Nat /\ Cardinality(B) \in Nat /\ Cardinality(A \cap B) \in Nat
    BY <1>3, <1>5, <2>1, FS_CardinalityType
  <2> QED BY <1>0, <1>3, <1>5, <2>1, <2>2
<1>7. used["bp"] \subseteq A \cup B
  <2> SUFFICES ASSUME NEW s \in used["bp"] PROVE s \in A \cup B
    OBVIOUS
  <2>1. PICK j \in listed : s = slot[j] \/ s = step[j].slot
    BY DEF ManagerInv, BoundInv, SlotsHeld, Types
  <2>2. j \in Id /\ s \in Slot /\ NoSlot \notin Slot
    BY <1>0, SlotAssumption DEF TypeOK, Types, Slot, NoSlot
  <2>3. j = i => s = slot[j]
    BY <2>1, <2>2, Live
  <2> QED BY <2>1, <2>2, <2>3
<1>8. slot[i] \in A
  BY <1>0
<1> HIDE DEF A, B
<1>9. spare # {}
  <2> SUFFICES ASSUME spare = {} PROVE FALSE
    OBVIOUS
  <2>1. 0..(N - 1) \subseteq A \cup B
    <3> SUFFICES ASSUME NEW s \in 0..(N - 1) PROVE s \in A \cup B
      OBVIOUS
    <3>1. s \in Slot /\ s < N
      BY <1>0 DEF Slot
    <3>2. s \in used["bp"] \/ s = slot[i]
      BY <3>1 DEF FreeSlots
    <3> QED BY <1>7, <1>8, <3>2
  <2>2. IsFiniteSet(0..(N - 1)) /\ Cardinality(0..(N - 1)) = N
    <3>1. N \in Nat /\ N >= 1 /\ N - 1 \in Int /\ 0 \in Int
      BY <1>0, <1>1
    <3> HIDE DEF N
    <3>2. IsFiniteSet(0..(N - 1)) /\ Cardinality(0..(N - 1)) = IF 0 > N - 1 THEN 0 ELSE N - 1 - 0 + 1
      BY <3>1, FS_Interval
    <3> QED BY <3>1, <3>2
  <2>3. Cardinality(0..(N - 1)) <= Cardinality(A \cup B)
    BY <1>6, <2>1, FS_Subset
  <2>4. Cardinality(A \cup B) \in Nat
    BY <1>6, FS_CardinalityType
  <2> QED BY <1>0, <1>1, <1>6, <2>2, <2>3, <2>4
<1>10. PICK S : S = FreeSlots("bp") \ (IF cfg[i].type = "bp" THEN {slot[i]} ELSE {})
  OBVIOUS
<1>11. S \subseteq Nat /\ S # {}
  BY <1>0, <1>9, <1>10 DEF FreeSlots, Slot
<1>12. Lowest(S) \in S
  BY <1>11, LowestIn
<1> QED BY <1>10, <1>12 DEF StepSlot

\* The session is armed on its thread, or the breakpoint that will re-arm it is.
Ready(i) ==
    \/ Covered(i, cfg[i].tid)
    \/ step[i].tid = cfg[i].tid /\ hwBp[cfg[i].tid][step[i].slot] = step[i].pc
ReadyInv == \A i \in active : Ready(i)

\* A session whose registers a step leaves alone.
LEMMA ReadyKept ==
    ASSUME NEW i, Ready(i), cfg[i].tid \in Thread, Like(cfg'[i], cfg[i]), slot'[i] = slot[i], step'[i] = step[i],
           cfg[i].type = "bp" => hwBp'[cfg[i].tid][slot[i]] = hwBp[cfg[i].tid][slot[i]],
           cfg[i].type # "bp" => hwWp'[cfg[i].tid][slot[i]] = hwWp[cfg[i].tid][slot[i]],
           step[i].tid # NoThread => hwBp'[cfg[i].tid][step[i].slot] = hwBp[cfg[i].tid][step[i].slot]
    PROVE  Ready(i)'
<1>1. Watched(cfg'[i]) = Watched(cfg[i])
  BY DEF Watched, Like
<1>2. Covered(i, cfg[i].tid) => Covered(i, cfg[i].tid)'
  BY <1>1 DEF Covered, Like
<1> QED BY <1>2, ThreadAssumption DEF Ready, Like, Covered

\* Live sessions and their step-overs have different slots.
LEMMA SlotsDiffer ==
    ASSUME Bound, ManagerInv, NEW i \in active, NEW j \in active, i # j
    PROVE  /\ cfg[i].type = cfg[j].type => slot[i] # slot[j]
           /\ cfg[i].type = "bp" /\ step[j].tid # NoThread => slot[i] # step[j].slot
           /\ step[i].tid # NoThread /\ step[j].tid # NoThread => step[i].slot # step[j].slot
<1>1. i \in listed /\ j \in listed /\ cfg[i].type \in Types
  BY Live
<1>2. /\ cfg[i].type = "bp" /\ cfg[j].type = "bp" => slot[i] # slot[j]
      /\ cfg[i].type = "bp" /\ step[j].tid # NoThread => slot[i] # step[j].slot
      /\ step[i].tid # NoThread /\ step[j].tid # NoThread => step[i].slot # step[j].slot
  BY <1>1 DEF ManagerInv, SlotInv, BpSlotsExclusive, ListedBp, Pending
<1>3. cfg[i].type = "wp" /\ cfg[j].type = "wp" => slot[i] # slot[j]
  BY DEF ManagerInv, BoundInv, WpSlotsExclusive
<1> QED BY <1>1, <1>2, <1>3 DEF Types

\* The slots of a live session are within the table.
LEMMA LiveSlots ==
    ASSUME Bound, ManagerInv, CapInv, NEW i \in active
    PROVE  /\ slot[i] \in Slot /\ slot[i] < HwSlots[cfg[i].type] /\ slot[i] \in used[cfg[i].type]
           /\ step[i].tid # NoThread => step[i].slot \in Slot /\ step[i].slot \in used["bp"]
<1>1. /\ slot[i] \in Slot /\ cfg[i].type \in Types
      /\ cfg[i].type = "bp" => slot[i] \in used["bp"]
      /\ step[i].tid # NoThread => step[i].slot \in used["bp"]
  BY Live
<1>2. cfg[i].type = "wp" => slot[i] \in used["wp"]
  BY DEF ManagerInv, BoundInv, WpSlotsExclusive
<1>3. slot[i] \in used[cfg[i].type]
  BY <1>1, <1>2 DEF Types
<1>4. used["bp"] \subseteq Slot
  BY DEF ManagerInv, TypeOK, Types
<1> QED BY <1>1, <1>3, <1>4 DEF CapInv

\* The API takes no register from a session that exists, and arms the new one.
LEMMA ApiReady ==
    ASSUME Bound, Enough, ManagerInv, CapInv, ReadyInv, Api
    PROVE  ReadyInv'
<1>0. TypeOK /\ active \subseteq Id
  BY DEF ManagerInv, TypeOK
<1>1. ASSUME UNCHANGED <<active, slot, step, hwBp, hwWp>>, \A i \in active : Like(cfg'[i], cfg[i])
      PROVE  ReadyInv'
  <2> SUFFICES ASSUME NEW i \in active PROVE Ready(i)'
    BY <1>1 DEF ReadyInv
  <2>1. Ready(i) /\ cfg[i].tid \in Thread
    BY Live DEF ReadyInv
  <2> QED BY <1>1, <2>1, ReadyKept
<1>2. CASE Initialize \/ RefreshCapacity \/ \E c \in Config : AttachUnarmed(c)
  <2>1. UNCHANGED <<active, slot, step, hwBp, hwWp, cfg>>
    BY <1>2 DEF Initialize, RefreshCapacity, AttachUnarmed, hwVars
  <2> QED BY <1>1, <2>1 DEF Like
<1>3. ASSUME NEW c \in Config, AttachReuse(c) PROVE ReadyInv'
  <2>1. \A d \in ConfigType : Like([d EXCEPT !.cb = c.cb], d)
    BY DEF ConfigType, Like
  <2>2. \A i \in Id : cfg'[i] \in {cfg[i], [cfg[i] EXCEPT !.cb = c.cb]} /\ cfg[i] \in ConfigType
    BY <1>0, <1>3 DEF AttachReuse, TypeOK
  <2>3. \A i \in Id : Like(cfg'[i], cfg[i])
    BY <2>1, <2>2 DEF Like
  <2>4. UNCHANGED <<active, slot, step, hwBp, hwWp>>
    BY <1>3 DEF AttachReuse, hwVars
  <2> QED BY <1>0, <1>1, <2>3, <2>4
<1>4. ASSUME NEW c \in Config, AttachNew(c) PROVE ReadyInv'
  <2>n. PICK n \in Id : n = nextId
    BY <1>0, <1>4 DEF AttachNew, TypeOK, Id
  <2>1. n \notin active
    BY <1>0, <2>n DEF ManagerInv, SlotInv, TypeOK, Id
  <2>2. PICK s \in FreeSlots(c.type) : /\ slot' = [slot EXCEPT ![n] = s]
                                       /\ ArmOnThread(c, Coverage(c), s)
    BY <1>4, <2>n DEF AttachNew, AllocateSlot
  <2>3. /\ active' = active \cup {n} /\ cfg' = [cfg EXCEPT ![n] = c] /\ step' = step /\ initialized
    BY <1>4, <2>n DEF AttachNew
  <2>4. c \in ConfigType /\ c.type \in Types /\ c.tid \in Thread /\ Coverage(c) = {c.tid}
    BY <1>4, ConfigAssumption, ThreadAssumption DEF AttachNew, Coverage, Bound, ConfigType
  <2>5. s \in Slot /\ s \notin used[c.type] /\ s < HwSlots[c.type]
    <3>1. cap \in [Types -> Int] /\ HwSlots \in [Types -> Int] /\ s \in Int /\ s < cap[c.type]
      BY <1>0, SlotAssumption DEF TypeOK, CapType, FreeSlots, Slot
    <3> QED BY <2>3, <2>4, <3>1 DEF FreeSlots, CapInv
  <2>6. /\ hwBp \in [Thread -> [Slot -> Nat]] /\ hwWp \in [Thread -> [Slot -> SUBSET Nat]]
        /\ hwBp' = IF c.type = "bp" THEN GumSetBp(hwBp, {c.tid}, s, c.addr) ELSE hwBp
        /\ hwWp' = IF c.type = "wp" THEN GumSetWp(hwWp, {c.tid}, s, Watched(c)) ELSE hwWp
    BY <1>0, <2>2, <2>4 DEF ArmOnThread, TypeOK
  <2>7. /\ c.type = "bp" => hwBp'[c.tid][s] = c.addr
        /\ c.type = "wp" => hwWp'[c.tid][s] = Watched(c)
        /\ \A u \in Thread, r \in Slot : /\ hwBp'[u][r] = hwBp[u][r] \/ (c.type = "bp" /\ r = s)
                                         /\ hwWp'[u][r] = hwWp[u][r] \/ (c.type = "wp" /\ r = s)
    <3>1. ASSUME c.type = "bp"
          PROVE  hwBp'[c.tid][s] = c.addr /\ \A u \in Thread, r \in Slot : hwBp'[u][r] = hwBp[u][r] \/ r = s
      <4>1. \A u \in Thread, r \in Slot :
              hwBp'[u][r] = IF u \in {c.tid} /\ s < HwSlots["bp"] /\ r = s THEN c.addr ELSE hwBp[u][r]
        BY <2>6, <3>1, BpWritten
      <4> QED BY <2>4, <2>5, <3>1, <4>1
    <3>2. ASSUME c.type = "wp"
          PROVE  hwWp'[c.tid][s] = Watched(c) /\ \A u \in Thread, r \in Slot : hwWp'[u][r] = hwWp[u][r] \/ r = s
      <4>1. \A u \in Thread, r \in Slot :
              hwWp'[u][r] = IF u \in {c.tid} /\ s < HwSlots["wp"] /\ r = s THEN Watched(c) ELSE hwWp[u][r]
        BY <2>6, <3>2, WpWritten
      <4> QED BY <2>4, <2>5, <3>2, <4>1
    <3> QED BY <2>6, <3>1, <3>2
  <2>8. Ready(n)'
    BY <1>0, <2>2, <2>3, <2>4, <2>7 DEF Ready, Covered, TypeOK, Types
  <2>9. ASSUME NEW i \in active PROVE Ready(i)'
    <3>1. i \in Id /\ i # n /\ Ready(i) /\ cfg[i].tid \in Thread /\ cfg[i].type \in Types
      BY <1>0, <2>1, Live DEF ReadyInv
    <3>2. cfg'[i] = cfg[i] /\ slot'[i] = slot[i] /\ step'[i] = step[i]
      BY <1>0, <2>2, <2>3, <3>1 DEF TypeOK
    <3>3. /\ slot[i] \in Slot /\ slot[i] \in used[cfg[i].type]
          /\ step[i].tid # NoThread => step[i].slot \in Slot /\ step[i].slot \in used["bp"]
      BY LiveSlots
    <3>4. cfg[i].type = "bp" => hwBp'[cfg[i].tid][slot[i]] = hwBp[cfg[i].tid][slot[i]]
      BY <2>5, <2>7, <3>1, <3>3
    <3>5. cfg[i].type # "bp" => hwWp'[cfg[i].tid][slot[i]] = hwWp[cfg[i].tid][slot[i]]
      BY <2>5, <2>7, <3>1, <3>3 DEF Types
    <3>6. step[i].tid # NoThread => hwBp'[cfg[i].tid][step[i].slot] = hwBp[cfg[i].tid][step[i].slot]
      BY <2>5, <2>7, <3>1, <3>3
    <3> QED BY <3>1, <3>2, <3>4, <3>5, <3>6, ReadyKept DEF Like
  <2> QED BY <2>3, <2>8, <2>9 DEF ReadyInv
<1> QED BY <1>2, <1>3, <1>4, ApiIdle DEF Api, Attach

\* A step that writes only the registers of session i leaves the others ready.
LEMMA OthersReady ==
    ASSUME Bound, ManagerInv, CapInv, ReadyInv, NEW i \in active, active' \subseteq active,
           cfg' = cfg, slot' = slot, \A j \in active : j # i => step'[j] = step[j],
           \A u \in Thread, r \in Slot :
              /\ hwBp'[u][r] # hwBp[u][r] => \/ cfg[i].type = "bp" /\ r = slot[i]
                                             \/ step[i].tid # NoThread /\ r = step[i].slot
                                             \/ r \notin used["bp"]
              /\ hwWp'[u][r] # hwWp[u][r] => cfg[i].type = "wp" /\ r = slot[i],
           i \in active' => Ready(i)'
    PROVE  ReadyInv'
<1> SUFFICES ASSUME NEW j \in active, j # i PROVE Ready(j)'
  BY DEF ReadyInv
<1>1. /\ cfg[j].type = cfg[i].type => slot[j] # slot[i]
      /\ cfg[j].type = "bp" /\ step[i].tid # NoThread => slot[j] # step[i].slot
      /\ cfg[i].type = "bp" /\ step[j].tid # NoThread => slot[i] # step[j].slot
      /\ step[i].tid # NoThread /\ step[j].tid # NoThread => step[i].slot # step[j].slot
  BY SlotsDiffer
<1>2. /\ slot[j] \in Slot /\ slot[j] \in used[cfg[j].type]
      /\ step[j].tid # NoThread => step[j].slot \in Slot /\ step[j].slot \in used["bp"]
  BY LiveSlots
<1>3. Ready(j) /\ cfg[j].tid \in Thread /\ cfg[j].type \in Types
  BY Live DEF ReadyInv
<1>4. cfg[j].type = "bp" => hwBp'[cfg[j].tid][slot[j]] = hwBp[cfg[j].tid][slot[j]]
  BY <1>1, <1>2, <1>3
<1>5. cfg[j].type # "bp" => hwWp'[cfg[j].tid][slot[j]] = hwWp[cfg[j].tid][slot[j]]
  BY <1>1, <1>2, <1>3 DEF Types
<1>6. step[j].tid # NoThread => hwBp'[cfg[j].tid][step[j].slot] = hwBp[cfg[j].tid][step[j].slot]
  BY <1>1, <1>2, <1>3
<1> QED BY <1>3, <1>4, <1>5, <1>6, ReadyKept DEF Like

\* HandleException disarms a session only as it puts its step-over in place.
LEMMA ThreadReady ==
    ASSUME Bound, Enough, ManagerInv, CapInv, ReadyInv, NEW t \in Thread, ThreadStep(t) \/ Lifecycle(t)
    PROVE  ReadyInv'
<1>0. TypeOK /\ BoundInv /\ active \subseteq Id
  BY DEF ManagerInv, TypeOK
<1>1. CASE Execute(t) \/ Trap(t) \/ NotOurs(t) \/ Dispatch(t) \/ ReturnDone(t) \/ InjectorDetach(t) \/ ThreadStart(t)
  <2>1. UNCHANGED <<active, cfg, slot, step, hwBp, hwWp>>
    BY <1>1 DEF Execute, Trap, NotOurs, Dispatch, Dispatching, ReturnDone, Returning, InjectorDetach,
         ThreadStart, mgrVars, hwVars
  <2> QED BY <2>1 DEF ReadyInv, Ready, Covered
<1>2. ~ThreadExit(t)
  BY DEF ThreadExit, Enough
<1>3. CASE StepOverHit(t)
  <2>1. PICK i \in Stepping(t) : i = Lowest(Stepping(t))
    <3>1. listed \subseteq Id /\ Id \subseteq Nat
      BY <1>0 DEF TypeOK, Id
    <3>2. Stepping(t) \subseteq Nat /\ Stepping(t) # {}
      BY <1>3, <3>1 DEF StepOverHit, Stepping
    <3> QED BY <3>2, LowestIn
  <2>2. i \in active /\ step[i].tid = t /\ t # NoThread
    BY <2>1, ThreadAssumption DEF Stepping
  <2>3. i \in Id /\ cfg[i].tid = t /\ cfg[i].type \in Types /\ (cfg[i].type = "bp" => step[i].slot # slot[i])
    BY <2>2, Live DEF BoundTo
  <2>4. slot[i] \in Slot /\ slot[i] < HwSlots[cfg[i].type] /\ step[i].slot \in Slot
    BY <2>2, LiveSlots
  <2>5. UNCHANGED <<active, cfg, slot>> /\ step' = [step EXCEPT ![i] = NoStep]
    BY <1>3, <2>1 DEF StepOverHit
  <2>6. \A j \in active : j # i => step'[j] = step[j]
    BY <1>0, <2>5 DEF TypeOK
  <2>7. \A u \in Thread, r \in Slot :
          /\ hwBp'[u][r] # hwBp[u][r] => (cfg[i].type = "bp" /\ r = slot[i]) \/ r = step[i].slot
          /\ cfg[i].type = "bp" /\ u = t /\ r = slot[i] => hwBp'[u][r] = cfg[i].addr
    <3> TAKE u \in Thread, r \in Slot
    <3> DEFINE hw == GumSetBp(hwBp, {t}, step[i].slot, 0)
    <3>1. hwBp \in [Thread -> [Slot -> Nat]] /\ hw \in [Thread -> [Slot -> Nat]]
      BY <1>0, GumSetBpType DEF TypeOK
    <3>2. hwBp' = IF cfg[i].type = "bp" THEN GumSetBp(hw, {t}, slot[i], cfg[i].addr) ELSE hw
      BY <1>3, <2>1 DEF StepOverHit
    <3>3. hw[u][r] = IF u \in {t} /\ step[i].slot < HwSlots["bp"] /\ r = step[i].slot THEN 0 ELSE hwBp[u][r]
      BY <3>1, BpWritten
    <3> HIDE DEF hw
    <3>4. GumSetBp(hw, {t}, slot[i], cfg[i].addr)[u][r] =
            IF u \in {t} /\ slot[i] < HwSlots["bp"] /\ r = slot[i] THEN cfg[i].addr ELSE hw[u][r]
      BY <3>1, BpWritten
    <3> QED BY <2>4, <3>2, <3>3, <3>4
  <2>8. \A u \in Thread, r \in Slot :
          /\ hwWp'[u][r] # hwWp[u][r] => cfg[i].type = "wp" /\ r = slot[i]
          /\ cfg[i].type = "wp" /\ u = t /\ r = slot[i] => hwWp'[u][r] = Watched(cfg[i])
    <3> TAKE u \in Thread, r \in Slot
    <3>1. hwWp \in [Thread -> [Slot -> SUBSET Nat]]
      BY <1>0 DEF TypeOK
    <3>2. hwWp' = IF cfg[i].type = "wp" THEN GumSetWp(hwWp, {t}, slot[i], Watched(cfg[i])) ELSE hwWp
      BY <1>3, <2>1 DEF StepOverHit
    <3>3. GumSetWp(hwWp, {t}, slot[i], Watched(cfg[i]))[u][r] =
            IF u \in {t} /\ slot[i] < HwSlots["wp"] /\ r = slot[i] THEN Watched(cfg[i]) ELSE hwWp[u][r]
      BY <3>1, WpWritten
    <3> QED BY <2>4, <3>2, <3>3
  <2>9. Ready(i)'
    BY <2>3, <2>4, <2>5, <2>7, <2>8 DEF Ready, Covered, Types
  <2> QED BY <2>2, <2>5, <2>6, <2>7, <2>8, <2>9, OthersReady
<1>4. CASE DispatchOnce(t)
  <2>1. PICK i \in listed :
          /\ Dispatching(t, i) /\ active' = active \ {i}
          /\ \E D \in SUBSET Peers(i, t) : DisarmOnThread(i, {t} \cup D)
    BY <1>4 DEF DispatchOnce
  <2>2. /\ mode[t] = "trap" /\ Stepping(t) = {} /\ Claimed(t) # {} /\ i = Lowest(Claimed(t))
        /\ UNCHANGED <<cfg, slot, step>>
    BY <2>1 DEF Dispatching
  <2>3. i \in Claimed(t)
    <3>1. listed \subseteq Id /\ Id \subseteq Nat
      BY <1>0 DEF TypeOK, Id
    <3>2. Claimed(t) \subseteq Nat
      BY <3>1 DEF Claimed
    <3> QED BY <2>2, <3>2, LowestIn
  <2>4. i \in active /\ cfg[i].tid = t
    BY <2>2, <2>3, Claims
  <2>5. slot[i] \in Slot /\ cfg[i].type \in Types
    BY <2>4, Live
  <2>6. DisarmOnThread(i, {t})
    <3>1. PICK D \in SUBSET Peers(i, t) : DisarmOnThread(i, {t} \cup D)
      BY <2>1
    <3>2. {t} \cup D = {t}
      BY <2>4, ThreadAssumption DEF Peers
    <3> QED BY <3>1, <3>2
  <2>7. \A u \in Thread, r \in Slot :
          /\ hwBp'[u][r] # hwBp[u][r] => cfg[i].type = "bp" /\ r = slot[i]
          /\ hwWp'[u][r] # hwWp[u][r] => cfg[i].type = "wp" /\ r = slot[i]
    BY <1>0, <2>5, <2>6, DisarmedOn
  <2> QED BY <2>1, <2>2, <2>4, <2>7, OthersReady
<1>5. CASE ReturnExhausted(t)
  <2>1. PICK i \in active :
          /\ Returning(t, i) /\ DisarmOnThread(i, {t}) /\ step' = step /\ StepSlot(i) = {}
          /\ active' = IF cfg[i].type = "wp" THEN active \ {i} ELSE active
    BY <1>5 DEF ReturnExhausted
  <2>2. slot[i] \in Slot /\ cfg[i].type \in Types /\ step[i].tid = NoThread /\ UNCHANGED <<cfg, slot>>
    BY <2>1, Returned
  <2>3. cfg[i].type = "wp"
    BY <2>1, <2>2, SpareSlot DEF Types
  <2>4. \A u \in Thread, r \in Slot :
          /\ hwBp'[u][r] # hwBp[u][r] => cfg[i].type = "bp" /\ r = slot[i]
          /\ hwWp'[u][r] # hwWp[u][r] => cfg[i].type = "wp" /\ r = slot[i]
    BY <1>0, <2>1, <2>2, DisarmedOn
  <2> QED BY <2>1, <2>2, <2>3, <2>4, OthersReady
<1>6. CASE ReturnStepOver(t)
  <2>1. PICK i \in active : /\ Returning(t, i) /\ active' = active
          /\ \E s \in StepSlot(i) :
              LET next == IF cfg[i].type = "bp" THEN NextPc(pc[t]) ELSE pc[t] + 1
                  hw   == IF cfg[i].type = "bp" THEN GumSetBp(hwBp, {t}, slot[i], 0) ELSE hwBp
              IN /\ step' = [step EXCEPT ![i] = [slot |-> s, pc |-> next, tid |-> t]]
                 /\ hwBp' = GumSetBp(hw, {t}, s, next)
          /\ hwWp' = IF cfg[i].type = "wp" THEN GumSetWp(hwWp, {t}, slot[i], {}) ELSE hwWp
    BY <1>6 DEF ReturnStepOver
  <2> DEFINE next == IF cfg[i].type = "bp" THEN NextPc(pc[t]) ELSE pc[t] + 1
             hw   == IF cfg[i].type = "bp" THEN GumSetBp(hwBp, {t}, slot[i], 0) ELSE hwBp
  <2>2. PICK s \in StepSlot(i) : /\ step' = [step EXCEPT ![i] = [slot |-> s, pc |-> next, tid |-> t]]
                                 /\ hwBp' = GumSetBp(hw, {t}, s, next)
    BY <2>1
  <2>3. s \in Slot /\ s \notin used["bp"] /\ s < HwSlots["bp"]
    <3>1. s \in FreeSlots("bp") /\ initialized
      BY DEF StepSlot, CapInv
    <3>2. cap["bp"] \in Int /\ HwSlots["bp"] \in Int /\ cap["bp"] <= HwSlots["bp"]
      BY <1>0, <3>1, SlotAssumption DEF TypeOK, CapType, Types, CapInv
    <3> QED BY <3>1, <3>2 DEF FreeSlots, Slot
  <2>4. cfg[i].tid = t /\ slot[i] \in Slot /\ cfg[i].type \in Types /\ i \in Id /\ UNCHANGED <<cfg, slot>>
    BY <2>1, Returned
  <2>5. \A u \in Thread, r \in Slot :
          /\ hwBp'[u][r] # hwBp[u][r] => (cfg[i].type = "bp" /\ r = slot[i]) \/ r = s
          /\ u = t /\ r = s => hwBp'[u][r] = next
    <3> TAKE u \in Thread, r \in Slot
    <3>1. hwBp \in [Thread -> [Slot -> Nat]] /\ hw \in [Thread -> [Slot -> Nat]]
      BY <1>0, GumSetBpType DEF TypeOK
    <3>2. GumSetBp(hwBp, {t}, slot[i], 0)[u][r] =
            IF u \in {t} /\ slot[i] < HwSlots["bp"] /\ r = slot[i] THEN 0 ELSE hwBp[u][r]
      BY <3>1, BpWritten
    <3>3. hw[u][r] # hwBp[u][r] => cfg[i].type = "bp" /\ r = slot[i]
      BY <3>2
    <3> HIDE DEF hw, next
    <3>4. GumSetBp(hw, {t}, s, next)[u][r] =
            IF u \in {t} /\ s < HwSlots["bp"] /\ r = s THEN next ELSE hw[u][r]
      BY <3>1, BpWritten
    <3> QED BY <2>2, <2>3, <3>3, <3>4
  <2>6. \A u \in Thread, r \in Slot : hwWp'[u][r] # hwWp[u][r] => cfg[i].type = "wp" /\ r = slot[i]
    <3> TAKE u \in Thread, r \in Slot
    <3>1. hwWp \in [Thread -> [Slot -> SUBSET Nat]]
      BY <1>0 DEF TypeOK
    <3>2. GumSetWp(hwWp, {t}, slot[i], {})[u][r] =
            IF u \in {t} /\ slot[i] < HwSlots["wp"] /\ r = slot[i] THEN {} ELSE hwWp[u][r]
      BY <3>1, WpWritten
    <3> QED BY <2>1, <3>2
  <2> HIDE DEF hw, next
  <2>7. step'[i] = [slot |-> s, pc |-> next, tid |-> t] /\ \A j \in active : j # i => step'[j] = step[j]
    BY <1>0, <2>2, <2>4 DEF TypeOK
  <2>8. Ready(i)'
    BY <2>3, <2>4, <2>5, <2>7 DEF Ready
  <2>9. \A u \in Thread, r \in Slot :
          /\ hwBp'[u][r] # hwBp[u][r] => \/ cfg[i].type = "bp" /\ r = slot[i]
                                         \/ step[i].tid # NoThread /\ r = step[i].slot
                                         \/ r \notin used["bp"]
          /\ hwWp'[u][r] # hwWp[u][r] => cfg[i].type = "wp" /\ r = slot[i]
    BY <2>3, <2>5, <2>6
  <2>10. active' \subseteq active /\ cfg' = cfg /\ slot' = slot /\ \A j \in active : j # i => step'[j] = step[j]
    BY <2>1, <2>4, <2>7
  <2> QED BY <2>8, <2>9, <2>10, OthersReady
<1> QED BY <1>1, <1>2, <1>3, <1>4, <1>5, <1>6 DEF ThreadStep, HandleException, Lifecycle

\* With twice as many comparators as sessions, for any number of threads: a live session
\* is armed on its thread, or the breakpoint that will re-arm it is.
THEOREM Rearmed ==
    ASSUME Bound, Enough
    PROVE  Spec => []Rearming
<1> DEFINE Inv == ManagerInv /\ CapInv /\ ReadyInv
<1>1. Init => Inv
  <2>1. Init => CapInv /\ ReadyInv
    BY DEF Init, CapInv, ReadyInv
  <2> QED BY <2>1, InitType, InitSlots, InitBound DEF ManagerInv
<1>2. Inv /\ [Next]_vars => Inv'
  <2> SUFFICES ASSUME ManagerInv, CapInv, ReadyInv, [Next]_vars PROVE ReadyInv'
    BY NextBound, CapKept
  <2>1. CASE UNCHANGED vars
    BY <2>1 DEF vars, mgrVars, hwVars, ReadyInv, Ready, Covered
  <2> QED BY <2>1, ApiReady, ThreadReady DEF Next
<1>3. Inv => Rearming
  <2> SUFFICES ASSUME ManagerInv, ReadyInv, NEW i \in active, NEW t \in armed[i]
               PROVE  Covered(i, t) \/ (step[i].tid = t /\ hwBp[t][step[i].slot] = step[i].pc)
    BY DEF Rearming
  <2>1. t = cfg[i].tid
    BY Live DEF BoundTo
  <2> QED BY <2>1 DEF ReadyInv, Ready
<1> QED BY <1>1, <1>2, <1>3, PTL DEF Spec

-----------------------------------------------------------------------------
(* Hooks.                                                                  *)

\* HandleException decodes what comes next after a hooked instruction right: no hook is on
\* a conditional branch, which it takes to fall through, and no watched cell is accessed by
\* a branch, for a watchpoint's step-over is at pc + 4.
Decoded ==
    \A c \in Config : \A a \in Places(c) :
        Successors(a) = {IF c.type = "bp" THEN NextPc(a) ELSE a + 1}

\* A session that steps over waits at the thread's pc, or its callback has run for the
\* instruction there and its breakpoint is on the only instruction that comes next.
Waiting(i) ==
    step[i].tid # NoThread =>
        LET t == cfg[i].tid
        IN pc[t] = step[i].pc \/ (i \in served[t] /\ Successors(pc[t]) = {step[i].pc})

\* A thread runs the callback of a session that is on the instruction it stopped at.
AtHook(t) ==
    /\ mode[t] = "absent" => pc[t] = 1
    /\ mode[t] = "callback" /\ hit[t] \in active => hit[t] \in served[t] /\ pc[t] \in Places(cfg[hit[t]])

HookInv == (\A i \in active : Waiting(i)) /\ (\A t \in Thread : AtHook(t))

SafeInv == ManagerInv /\ ServedInv /\ CapInv /\ ReadyInv
Safely == Bound /\ Straight /\ Enough /\ Decoded

\* All that the earlier theorems rest on, at once.
LEMMA SafeKept == ASSUME Safely PROVE SafeInv /\ [Next]_vars => SafeInv'
<1> SUFFICES ASSUME SafeInv, [Next]_vars PROVE SafeInv'
  OBVIOUS
<1>0. Bound /\ Straight /\ Enough /\ ManagerInv /\ ServedInv /\ CapInv /\ ReadyInv
  BY DEF Safely, SafeInv
<1>1. ManagerInv' /\ CapInv'
  BY <1>0, NextBound, CapKept
<1>2. CASE UNCHANGED vars
  <2>1. ServedInv'
    BY <1>0, <1>2 DEF vars, mgrVars, hwVars, thrVars, ServedInv, Served, StepsReset, Passed, Off
  <2>2. ReadyInv'
    BY <1>0, <1>2 DEF vars, mgrVars, hwVars, ReadyInv, Ready, Covered
  <2> QED BY <1>1, <2>1, <2>2 DEF SafeInv
<1>3. CASE Api
  BY <1>0, <1>1, <1>3, ApiServed, ApiReady DEF SafeInv
<1>4. ASSUME NEW t \in Thread, ThreadStep(t) \/ Lifecycle(t) PROVE SafeInv'
  <2>1. ServedInv'
    BY <1>0, <1>4, QuietServed, DispatchServed, StepOverServed, ReturnServed
    DEF ThreadStep, HandleException, Lifecycle
  <2>2. ReadyInv'
    BY <1>0, <1>4, ThreadReady
  <2> QED BY <1>1, <2>1, <2>2 DEF SafeInv
<1> QED BY <1>2, <1>3, <1>4 DEF Next

\* The breakpoint of a step-over is on until it is hit.
LEMMA StepOn ==
    ASSUME Safely, SafeInv, NEW i \in active, step[i].tid # NoThread
    PROVE  /\ step[i].slot \in Slot /\ hwBp[cfg[i].tid][step[i].slot] = step[i].pc
           /\ step[i].tid = cfg[i].tid
<1>0. Bound /\ ManagerInv /\ CapInv /\ ReadyInv
  BY DEF Safely, SafeInv
<1>1. PICK t \in Thread : t = cfg[i].tid
  BY <1>0, Live
<1>2. /\ slot[i] \in Slot /\ cfg[i].type \in Types /\ step[i].tid = t /\ cfg[i] \in ConfigType
      /\ cfg[i].type = "bp" => step[i].slot # slot[i]
  BY <1>0, <1>1, Live DEF BoundTo
<1>3. step[i].slot \in Slot
  BY <1>0, LiveSlots
<1>4. ~Covered(i, t)
  <2>1. CASE cfg[i].type = "bp"
    <3> SUFFICES ASSUME hwBp[t][slot[i]] = cfg[i].addr PROVE FALSE
      BY <2>1 DEF Covered
    <3>1. cfg[i].addr # 0
      BY <1>2 DEF ConfigType
    <3>2. PICK j \in active : ArmedBp(j, t, slot[i]) \/ SteppingBp(j, t, slot[i])
      BY <1>0, <1>2, <3>1 DEF ManagerInv, BoundInv, BpOwned
    <3>3. j # i
      BY <1>2, <2>1, <3>2 DEF ArmedBp, SteppingBp
    <3>4. /\ cfg[i].type = cfg[j].type => slot[i] # slot[j]
          /\ step[j].tid # NoThread => slot[i] # step[j].slot
      BY <1>0, <2>1, <3>3, SlotsDiffer
    <3> QED BY <2>1, <3>2, <3>4, ThreadAssumption DEF ArmedBp, SteppingBp
  <2>2. CASE cfg[i].type = "wp"
    <3> SUFFICES ASSUME hwWp[t][slot[i]] = Watched(cfg[i]) PROVE FALSE
      BY <2>2 DEF Covered
    <3>1. Watched(cfg[i]) # {}
      BY <1>2 DEF ConfigType, Watched
    <3>2. PICK j \in active : ArmedWp(j, t, slot[i])
      BY <1>0, <1>2, <3>1 DEF ManagerInv, BoundInv, WpOwned
    <3>3. j # i
      BY <3>2 DEF ArmedWp
    <3> QED BY <1>0, <2>2, <3>2, <3>3, SlotsDiffer DEF ArmedWp
  <2> QED BY <1>2, <2>1, <2>2 DEF Types
<1> QED BY <1>0, <1>1, <1>2, <1>3, <1>4 DEF ReadyInv, Ready

\* A thread executes an instruction only when the callbacks of the live sessions on it have run.
LEMMA AllServed ==
    ASSUME Safely, SafeInv, HookInv, NEW t \in Thread, ~BpFires(t), ~WpFires(t),
           NEW i \in active, cfg[i].tid = t
    PROVE  /\ step[i].tid # NoThread => i \in served[t] /\ Successors(pc[t]) = {step[i].pc}
           /\ pc[t] \in Places(cfg[i]) => i \in served[t]
<1>0. Bound /\ ManagerInv /\ ReadyInv /\ Waiting(i)
  BY DEF Safely, SafeInv, HookInv
<1>1. ASSUME step[i].tid # NoThread PROVE i \in served[t] /\ Successors(pc[t]) = {step[i].pc}
  <2>1. pc[t] # step[i].pc
    BY <1>1, StepOn DEF BpFires
  <2> QED BY <1>0, <1>1, <2>1 DEF Waiting
<1>2. ASSUME pc[t] \in Places(cfg[i]), step[i].tid = NoThread PROVE FALSE
  <2>1. Covered(i, t)
    BY <1>0, <1>2, ThreadAssumption DEF ReadyInv, Ready
  <2>2. slot[i] \in Slot
    BY <1>0, Live
  <2> QED BY <1>2, <2>1, <2>2 DEF Covered, Places, BpFires, WpFires
<1> QED BY <1>1, <1>2

\* The session that is dispatched is on the instruction the thread stopped at.
LEMMA OnPlace ==
    ASSUME Safely, SafeInv, NEW t \in Thread, NEW i, Dispatching(t, i)
    PROVE  /\ pc[t] \in Places(cfg[i]) /\ i \in active /\ i \notin served[t] /\ cfg[i].tid = t
           /\ i \in listed /\ i \in Id
<1>0. Bound /\ ManagerInv /\ ServedInv /\ TypeOK
  BY DEF Safely, SafeInv, ManagerInv
<1>1. i \in active /\ i \notin served[t] /\ cfg[i].tid = t /\ mode[t] = "trap"
  BY <1>0, FreshHit
<1>2. i \in listed /\ i \in Id /\ cfg[i].type \in Types /\ cfg[i] \in ConfigType /\ pc[t] \in Code
  BY <1>0, <1>1, Live DEF TypeOK
<1>3. Matches(i, t)
  <2>1. Claimed(t) # {} /\ i = Lowest(Claimed(t))
    BY DEF Dispatching
  <2>2. listed \subseteq Id /\ Id \subseteq Nat
    BY <1>0 DEF TypeOK, Id
  <2>3. Claimed(t) \subseteq Nat
    BY <2>2 DEF Claimed
  <2>4. i \in Claimed(t)
    BY <2>1, <2>3, LowestIn
  <2> QED BY <2>4 DEF Claimed
<1>4. CASE cfg[i].type = "bp"
  BY <1>1, <1>2, <1>3, <1>4 DEF Matches, Places
<1>5. CASE cfg[i].type = "wp"
  <2>1. mem[t] \in Watched(cfg[i])
    BY <1>3, <1>5 DEF Matches
  <2>2. mem[t] # NoCell
    BY <1>2, <2>1 DEF Watched, ConfigType, NoCell
  <2>3. mem[t] = Insn[pc[t]].cell
    BY <1>0, <1>1, <2>2 DEF ManagerInv, BoundInv, Caused
  <2> QED BY <1>1, <1>2, <1>5, <2>1, <2>3 DEF Places
<1> QED BY <1>1, <1>2, <1>4, <1>5 DEF Types


\* A session whose step-over and whose thread's place a step leaves alone.
LEMMA WaitingKept ==
    ASSUME NEW i, Waiting(i), step'[i] = step[i], cfg'[i].tid = cfg[i].tid,
           pc'[cfg[i].tid] = pc[cfg[i].tid], served[cfg[i].tid] \subseteq served'[cfg[i].tid]
    PROVE  Waiting(i)'
BY DEF Waiting, Successors

\* A thread whose place and callback a step leaves alone.
LEMMA AtHookKept ==
    ASSUME NEW t \in Thread, AtHook(t), mode'[t] = mode[t], hit'[t] = hit[t], pc'[t] = pc[t],
           served[t] \subseteq served'[t],
           mode[t] = "callback" /\ hit[t] \in active' => hit[t] \in active /\ Like(cfg'[hit[t]], cfg[hit[t]])
    PROVE  AtHook(t)'
<1>1. mode[t] = "callback" /\ hit[t] \in active' => Places(cfg'[hit[t]]) = Places(cfg[hit[t]])
  BY DEF Places, Watched, Like
<1> QED BY <1>1 DEF AtHook

\* The API moves no thread and starts no step-over.
LEMMA ApiHooks ==
    ASSUME Safely, SafeInv, HookInv, Api
    PROVE  HookInv'
<1>0. /\ Bound /\ ManagerInv /\ TypeOK /\ SlotInv /\ nextId \in Int /\ active \subseteq Id /\ Id \subseteq Int
      /\ listed \subseteq Id
  BY DEF Safely, SafeInv, ManagerInv, TypeOK, Id
<1>1. ASSUME UNCHANGED <<pc, mode, hit, served, step>>,
             \A i \in active' : i \in active \/ (i = nextId /\ i \in Id),
             \A i \in active : Like(cfg'[i], cfg[i])
      PROVE  HookInv'
  <2>1. ASSUME NEW i \in active' PROVE Waiting(i)'
    <3>1. CASE i \in active
      BY <1>1, <3>1, WaitingKept DEF HookInv, Like
    <3>2. CASE i = nextId /\ i \in Id
      BY <1>0, <1>1, <3>2 DEF Waiting, SlotInv, NoStep
    <3> QED BY <1>1, <2>1, <3>1, <3>2
  <2>2. ASSUME NEW t \in Thread PROVE AtHook(t)'
    <3>1. hit[t] < nextId
      BY <1>0 DEF ManagerInv, BoundInv, Running
    <3>2. hit[t] \in active' => hit[t] \in active
      BY <1>0, <1>1, <3>1
    <3> QED BY <1>1, <3>2, AtHookKept DEF HookInv
  <2> QED BY <2>1, <2>2 DEF HookInv
<1>2. ASSUME NEW c \in Config, AttachNew(c) PROVE HookInv'
  <2>1. /\ UNCHANGED <<pc, mode, hit, served, step>> /\ nextId <= MaxId
        /\ active' = active \cup {nextId} /\ cfg' = [cfg EXCEPT ![nextId] = c]
    BY <1>2 DEF AttachNew, thrVars
  <2>2. \A i \in active : cfg'[i] = cfg[i]
    BY <1>0, <2>1 DEF TypeOK, SlotInv
  <2>3. nextId \in Id
    BY <1>0, <2>1, BoundAssumption DEF TypeOK, Id
  <2> QED BY <1>1, <2>1, <2>2, <2>3 DEF Like
<1>3. ASSUME NEW c \in Config, AttachReuse(c) PROVE HookInv'
  <2>1. UNCHANGED <<pc, mode, hit, served, step, active>>
    BY <1>3 DEF AttachReuse, thrVars
  <2>2. \A i \in Id : Like(cfg'[i], cfg[i])
    BY <1>0, <1>3 DEF AttachReuse, Like, TypeOK, ConfigType
  <2> QED BY <1>0, <1>1, <2>1, <2>2
<1>4. ASSUME NEW c \in Config, AttachUnarmed(c) PROVE HookInv'
  BY <1>1, <1>4 DEF AttachUnarmed, thrVars, Like
<1>5. CASE Initialize \/ RefreshCapacity
  BY <1>1, <1>5 DEF Initialize, RefreshCapacity, thrVars, Like
<1> QED BY <1>0, <1>2, <1>3, <1>4, <1>5, ApiIdle DEF Api, Attach

\* A thread's step in its own terms: the other threads and their sessions are left alone.
LEMMA OthersHooks ==
    ASSUME Safely, SafeInv, HookInv, NEW t \in Thread, active' \subseteq active, cfg' = cfg,
           \A i \in active : cfg[i].tid # t => step'[i] = step[i],
           \A u \in Thread : u # t => /\ pc'[u] = pc[u] /\ mode'[u] = mode[u] /\ hit'[u] = hit[u]
                                      /\ served'[u] = served[u],
           \A i \in active' : cfg[i].tid = t => Waiting(i)',
           AtHook(t)'
    PROVE  HookInv'
<1>1. ASSUME NEW i \in active', cfg[i].tid # t PROVE Waiting(i)'
  <2>1. cfg[i].tid \in Thread /\ Waiting(i)
    BY <1>1, Live DEF HookInv, Safely, SafeInv
  <2> QED BY <1>1, <2>1, WaitingKept
<1>2. ASSUME NEW u \in Thread, u # t PROVE AtHook(u)'
  BY <1>2, AtHookKept DEF HookInv, Like
<1> QED BY <1>1, <1>2 DEF HookInv

\* Retiring an instruction takes the thread to where its step-overs wait.
LEMMA ExecuteHooks ==
    ASSUME Safely, SafeInv, HookInv, NEW t \in Thread, Execute(t)
    PROVE  HookInv'
<1>0. TypeOK
  BY DEF SafeInv, ManagerInv
<1>1. /\ UNCHANGED <<active, cfg, step, mode, hit>> /\ mode[t] = "run" /\ ~BpFires(t) /\ ~WpFires(t)
      /\ pc'[t] \in Successors(pc[t])
      /\ \A u \in Thread : u # t => pc'[u] = pc[u] /\ served'[u] = served[u]
  BY <1>0 DEF Execute, mgrVars, TypeOK
<1>2. ASSUME NEW i \in active, cfg[i].tid = t PROVE Waiting(i)'
  <2>1. step[i].tid # NoThread => Successors(pc[t]) = {step[i].pc}
    BY <1>1, <1>2, AllServed
  <2> QED BY <1>1, <1>2, <2>1 DEF Waiting
<1>3. AtHook(t)'
  BY <1>1 DEF AtHook
<1> QED BY <1>1, <1>2, <1>3, OthersHooks

\* Steps that move no thread and start no step-over.
LEMMA QuietHooks ==
    ASSUME Safely, SafeInv, HookInv, NEW t \in Thread,
           \/ Trap(t) \/ NotOurs(t) \/ InjectorDetach(t) \/ ThreadStart(t) \/ ThreadExit(t)
           \/ StepOverHit(t) \/ ReturnDone(t)
    PROVE  HookInv' /\ UNCHANGED <<pc, listed, active, cfg, served>>
<1>0. /\ Bound /\ Straight /\ Enough /\ TypeOK /\ AtHook(t) /\ StepsReset
      /\ pc \in [Thread -> Code] /\ step \in [Id -> [slot : Slot \cup {NoSlot}, pc : Nat, tid : Thread \cup {NoThread}]]
      /\ active \subseteq Id /\ listed \subseteq Id /\ Id \subseteq Nat
  BY DEF Safely, SafeInv, HookInv, ManagerInv, TypeOK, ServedInv, Id
<1>1. UNCHANGED <<listed, active, cfg, served>>
  BY <1>0 DEF Trap, NotOurs, InjectorDetach, ThreadStart, ThreadExit, StepOverHit, ReturnDone, Returning,
       mgrVars, thrVars, Enough
<1>2. pc' = pc
  <2>1. CASE ThreadStart(t)
    BY <1>0, <2>1 DEF ThreadStart, AtHook
  <2>2. CASE ReturnDone(t)
    BY <1>0, <2>2 DEF ReturnDone, Returning, Straight
  <2>3. CASE ~ThreadStart(t) /\ ~ReturnDone(t)
    BY <1>0, <2>3 DEF Trap, NotOurs, InjectorDetach, ThreadExit, StepOverHit, thrVars, Enough
  <2> QED BY <2>1, <2>2, <2>3
<1>3. \A i \in active : step'[i] = step[i] \/ (step'[i] = NoStep /\ step[i].tid = t)
  <2>1. ASSUME StepOverHit(t) PROVE \A i \in active : step'[i] = step[i] \/ (step'[i] = NoStep /\ step[i].tid = t)
    <3>1. PICK k : k = Lowest(Stepping(t)) /\ step' = [step EXCEPT ![k] = NoStep]
      BY <2>1 DEF StepOverHit
    <3>2. Stepping(t) \subseteq Nat /\ Stepping(t) # {}
      BY <1>0, <2>1 DEF Stepping, StepOverHit
    <3>3. k \in Stepping(t)
      BY <3>1, <3>2, LowestIn
    <3> QED BY <1>0, <3>1, <3>3 DEF Stepping
  <2>2. ASSUME ~StepOverHit(t) PROVE step' = step
    BY <1>0, <2>2 DEF Trap, NotOurs, InjectorDetach, ThreadStart, ThreadExit, ReturnDone, mgrVars
  <2> QED BY <2>1, <2>2
<1>4. /\ \A u \in Thread : u # t => mode'[u] = mode[u] /\ hit'[u] = hit[u]
      /\ mode'[t] # "callback" \/ (mode'[t] = mode[t] /\ hit'[t] = hit[t])
      /\ mode'[t] = "absent" => mode[t] = "absent"
  BY <1>0 DEF Trap, NotOurs, InjectorDetach, ThreadStart, ThreadExit, StepOverHit, ReturnDone, Returning,
       thrVars, TypeOK, Enough
<1>5. AtHook(t)'
  BY <1>0, <1>1, <1>2, <1>4 DEF AtHook
<1>6. \A i \in active : Waiting(i)'
  <2> TAKE i \in active
  <2>1. Waiting(i)
    BY DEF HookInv
  <2>2. CASE step'[i] = step[i]
    BY <1>1, <1>2, <2>1, <2>2, WaitingKept
  <2>3. CASE step'[i] = NoStep
    BY <2>3 DEF Waiting, NoStep
  <2> QED BY <1>3, <2>2, <2>3
<1>7. \A u \in Thread : u # t => AtHook(u)'
  BY <1>1, <1>2, <1>4, AtHookKept DEF HookInv, Like
<1> QED BY <1>1, <1>2, <1>5, <1>6, <1>7 DEF HookInv

\* The session a thread dispatches is on the instruction it stopped at.
LEMMA DispatchHooks ==
    ASSUME Safely, SafeInv, HookInv, NEW t \in Thread, Dispatch(t) \/ DispatchOnce(t)
    PROVE  HookInv'
<1>0. TypeOK
  BY DEF SafeInv, ManagerInv
<1>1. PICK i : Dispatching(t, i) /\ active' \subseteq active
  BY DEF Dispatch, DispatchOnce
<1>2. pc[t] \in Places(cfg[i])
  BY <1>1, OnPlace
<1>3. /\ UNCHANGED <<cfg, step, pc>>
      /\ mode'[t] = "callback" /\ hit'[t] = i /\ served'[t] = served[t] \cup {i}
      /\ \A u \in Thread : u # t => mode'[u] = mode[u] /\ hit'[u] = hit[u] /\ served'[u] = served[u]
  BY <1>0, <1>1 DEF Dispatching, TypeOK
<1>4. AtHook(t)'
  BY <1>2, <1>3 DEF AtHook
<1>5. ASSUME NEW j \in active, cfg[j].tid = t PROVE Waiting(j)'
  BY <1>3, <1>5, WaitingKept DEF HookInv
<1> QED BY <1>1, <1>3, <1>4, <1>5, OthersHooks

\* The step-over is put on the instruction that comes next, and there always is a slot for it.
LEMMA ReturnHooks ==
    ASSUME Safely, SafeInv, HookInv, NEW t \in Thread, ReturnStepOver(t) \/ ReturnExhausted(t)
    PROVE  HookInv' /\ UNCHANGED <<pc, listed, active, cfg, served>>
<1>0. /\ Bound /\ Straight /\ Enough /\ Decoded /\ ManagerInv /\ CapInv /\ TypeOK
      /\ pc \in [Thread -> Code] /\ step \in [Id -> [slot : Slot \cup {NoSlot}, pc : Nat, tid : Thread \cup {NoThread}]]
  BY DEF Safely, SafeInv, ManagerInv, TypeOK
<1>1. ~ReturnExhausted(t)
  BY <1>0, Returned, SpareSlot DEF ReturnExhausted
<1>2. PICK i \in active : /\ Returning(t, i) /\ active' = active
        /\ \E s : step' = [step EXCEPT ![i] = [slot |-> s, tid |-> t,
                     pc |-> IF cfg[i].type = "bp" THEN NextPc(pc[t]) ELSE pc[t] + 1]]
  BY <1>1 DEF ReturnStepOver
<1>3. /\ cfg[i].tid = t /\ i \in Id /\ i = hit[t] /\ UNCHANGED <<listed, cfg, served>>
      /\ mode[t] = "callback" /\ mode'[t] = "run"
      /\ \A u \in Thread : u # t => mode'[u] = mode[u] /\ hit'[u] = hit[u]
  <2>1. UNCHANGED served /\ mode[t] = "callback"
    BY <1>2 DEF Returning
  <2>2. /\ cfg[i].tid = t /\ i \in Id /\ i = hit[t] /\ UNCHANGED <<listed, cfg>> /\ mode'[t] = "run"
        /\ \A u \in Thread : u # t => mode'[u] = mode[u] /\ hit'[u] = hit[u]
    BY <1>0, <1>2, Returned
  <2> QED BY <2>1, <2>2
<1>4. pc' = pc
  BY <1>0, <1>2 DEF Returning, Straight
<1>5. i \in served[t] /\ pc[t] \in Places(cfg[i])
  BY <1>3 DEF HookInv, AtHook
<1>6. Successors(pc[t]) = {IF cfg[i].type = "bp" THEN NextPc(pc[t]) ELSE pc[t] + 1}
  <2>1. PICK c \in Config : Like(cfg[i], c)
    BY <1>0, Live DEF BoundTo
  <2>2. Places(cfg[i]) = Places(c) /\ cfg[i].type = c.type
    BY <2>1 DEF Places, Like, Watched
  <2> QED BY <1>0, <1>5, <2>2 DEF Decoded
<1>7. /\ step'[i].pc = IF cfg[i].type = "bp" THEN NextPc(pc[t]) ELSE pc[t] + 1
      /\ \A j \in active : j # i => step'[j] = step[j]
  BY <1>0, <1>2, <1>3 DEF TypeOK
<1>8. Waiting(i)'
  <2>1. Successors(pc'[t]) = {step'[i].pc}
    BY <1>4, <1>6, <1>7
  <2> QED BY <1>3, <1>4, <1>5, <2>1 DEF Waiting, Successors
<1>9. ASSUME NEW j \in active, j # i PROVE Waiting(j)'
  BY <1>3, <1>4, <1>7, <1>9, WaitingKept DEF HookInv
<1>10. AtHook(t)'
  BY <1>3 DEF AtHook
<1>11. HookInv'
  BY <1>2, <1>3, <1>4, <1>7, <1>8, <1>9, <1>10, OthersHooks
<1> QED BY <1>2, <1>3, <1>4, <1>11


\* What the abstract specification sees of the sessions.
Sees == [i \in Id |-> [tid |-> cfg[i].tid, places |-> Places(cfg[i]), once |-> cfg[i].once]]

\* A step that leaves alone what the script sees.
LEMMA SeesKept ==
    ASSUME UNCHANGED <<pc, served, listed, active>>,
           \A i \in Id : Like(cfg'[i], cfg[i]) /\ cfg'[i].once = cfg[i].once
    PROVE  UNCHANGED <<pc, listed \cap active, Sees, served>>
<1>1. \A i \in Id : Places(cfg'[i]) = Places(cfg[i]) /\ cfg'[i].tid = cfg[i].tid
  BY DEF Places, Watched, Like
<1>2. Sees' = Sees
  BY <1>1 DEF Sees
<1> QED BY <1>2

\* To the script each step of the API sets a hook or does nothing.
LEMMA ApiSeen ==
    ASSUME Safely, SafeInv, HookInv, Api
    PROVE  [H!Next]_<<pc, listed \cap active, Sees, served>>
<1>0. /\ Bound /\ ManagerInv /\ TypeOK /\ SlotInv /\ active \subseteq listed /\ listed \subseteq Id
      /\ nextId \in Int /\ Id \subseteq Int
  BY DEF Safely, SafeInv, ManagerInv, SlotInv, TypeOK, Id
<1>1. ASSUME NEW c \in Config, AttachReuse(c) PROVE UNCHANGED <<pc, listed \cap active, Sees, served>>
  <2>1. UNCHANGED <<pc, served, listed, active>>
    BY <1>1 DEF AttachReuse, thrVars
  <2>2. \A i \in Id : Like(cfg'[i], cfg[i]) /\ cfg'[i].once = cfg[i].once
    BY <1>0, <1>1 DEF AttachReuse, Like, TypeOK, ConfigType
  <2> QED BY <2>1, <2>2, SeesKept
<1>2. ASSUME NEW c \in Config, AttachNew(c) PROVE H!Next
  <2>1. PICK n : n = nextId
    OBVIOUS
  <2>2. /\ UNCHANGED <<pc, served>> /\ nextId <= MaxId
        /\ active' = active \cup {n} /\ listed' = listed \cup {n} /\ cfg' = [cfg EXCEPT ![n] = c]
    BY <1>2, <2>1 DEF AttachNew, thrVars
  <2>3. n \in Id
    BY <1>0, <2>1, <2>2, BoundAssumption DEF TypeOK, Id
  <2>4. n \notin listed /\ n \notin active
    BY <1>0, <2>1 DEF SlotInv
  <2>5. \A t \in Thread : n \notin served[t]
    BY <1>0, <2>1 DEF SafeInv, ServedInv, Served
  <2>6. \A j \in listed \cap active : j \in Id /\ cfg'[j] = cfg[j]
    BY <1>0, <2>2, <2>4 DEF TypeOK
  <2>7. listed' \cap active' = (listed \cap active) \cup {n}
    BY <2>2
  <2>8. H!Attach(n)
    BY <2>2, <2>4, <2>5, <2>6, <2>7 DEF H!Attach, Places
  <2> QED BY <2>3, <2>8 DEF H!Next
<1>3. ASSUME UNCHANGED <<pc, served, listed, active, cfg>> PROVE UNCHANGED <<pc, listed \cap active, Sees, served>>
  BY <1>3 DEF Sees, Places
<1>4. CASE Initialize \/ RefreshCapacity \/ \E c \in Config : AttachUnarmed(c)
  BY <1>3, <1>4 DEF Initialize, RefreshCapacity, AttachUnarmed, thrVars
<1> QED BY <1>0, <1>1, <1>2, <1>4, ApiIdle DEF Api, Attach

\* To the script each step of a thread runs a callback, moves the thread on or does nothing.
LEMMA ThreadSeen ==
    ASSUME Safely, SafeInv, HookInv, NEW t \in Thread, ThreadStep(t) \/ Lifecycle(t)
    PROVE  [H!Next]_<<pc, listed \cap active, Sees, served>>
<1>0. /\ Bound /\ ManagerInv /\ TypeOK /\ active \subseteq listed /\ listed \subseteq Id
      /\ served \in [Thread -> SUBSET Id] /\ pc \in [Thread -> Code]
  BY DEF Safely, SafeInv, ManagerInv, SlotInv, TypeOK
<1>1. ASSUME UNCHANGED <<pc, listed, active, cfg, served>> PROVE UNCHANGED <<pc, listed \cap active, Sees, served>>
  BY <1>1 DEF Sees, Places
<1>2. CASE Execute(t)
  <2>1. /\ UNCHANGED <<listed, active, cfg>> /\ ~BpFires(t) /\ ~WpFires(t)
        /\ served' = [served EXCEPT ![t] = {}]
        /\ \E a \in Successors(pc[t]) : pc' = [pc EXCEPT ![t] = a]
    BY <1>2 DEF Execute, mgrVars
  <2>2. \A i \in listed \cap active : cfg[i].tid = t /\ pc[t] \in Places(cfg[i]) => i \in served[t]
    BY <2>1, AllServed
  <2>3. \E a \in Code : pc' = [pc EXCEPT ![t] = a]
    <3>1. pc' \in [Thread -> Code]
      BY <1>0, <1>2, NextType DEF ThreadStep, Next, TypeOK
    <3> QED BY <1>0, <2>1, <3>1
  <2>4. Sees' = Sees
    BY <2>1 DEF Sees, Places
  <2>5. \A i \in listed \cap active : H!Concerns(i, t) => i \in served[t]
    BY <1>0, <2>2 DEF H!Concerns
  <2>6. H!Execute(t)
    BY <2>1, <2>3, <2>4, <2>5 DEF H!Execute, Sees
  <2> QED BY <2>6 DEF H!Next
<1>3. CASE Dispatch(t) \/ DispatchOnce(t)
  <2>1. PICK i : /\ Dispatching(t, i)
                 /\ \/ ~cfg[i].once /\ UNCHANGED <<listed, active>>
                    \/ cfg[i].once /\ active' = active \ {i} /\ listed' = listed \ {i}
    BY <1>3 DEF Dispatch, DispatchOnce
  <2>2. /\ pc[t] \in Places(cfg[i]) /\ i \in active /\ i \notin served[t] /\ cfg[i].tid = t
        /\ i \in listed /\ i \in Id
    BY <2>1, OnPlace
  <2>3. UNCHANGED <<pc, cfg>> /\ served' = [served EXCEPT ![t] = @ \cup {i}]
    BY <2>1 DEF Dispatching
  <2>4. listed' \cap active' = IF cfg[i].once THEN (listed \cap active) \ {i} ELSE listed \cap active
    BY <2>1
  <2>5. Sees' = Sees
    BY <2>3 DEF Sees, Places
  <2>6. H!Concerns(i, t)
    BY <2>2 DEF H!Concerns
  <2>7. H!Notify(t, i)
    BY <2>2, <2>3, <2>4, <2>5, <2>6 DEF H!Notify, Sees
  <2> QED BY <2>2, <2>7 DEF H!Next
<1>4. CASE \/ Trap(t) \/ NotOurs(t) \/ InjectorDetach(t) \/ ThreadStart(t) \/ ThreadExit(t)
           \/ StepOverHit(t) \/ ReturnDone(t) \/ ReturnStepOver(t) \/ ReturnExhausted(t)
  BY <1>1, <1>4, QuietHooks, ReturnHooks
<1> QED BY <1>2, <1>3, <1>4 DEF ThreadStep, HandleException, Lifecycle

\* For any number of threads, comparators and sessions bound to a thread, HandleException,
\* its step-overs and its re-arming implement hooks: a thread executes a hooked instruction
\* only after exactly one callback of each session on it, and a one-shot session has one.
THEOREM HooksRefined ==
    ASSUME Bound, Straight, Enough, Decoded
    PROVE  Spec => HooksImplemented
<1>0. Safely
  BY DEF Safely
<1> DEFINE Inv == SafeInv /\ HookInv
           seen == <<pc, listed \cap active,
                     [i \in Id |-> [tid |-> cfg[i].tid, places |-> Places(cfg[i]), once |-> cfg[i].once]], served>>
<1>1. Init => Inv
  <2>1. Init => CapInv /\ ReadyInv
    BY DEF Init, CapInv, ReadyInv
  <2>2. Init => ServedInv
    BY DEF Init, ServedInv, Served, StepsReset, NoStep
  <2>3. Init => HookInv
    BY DEF Init, HookInv, AtHook
  <2> QED BY <2>1, <2>2, <2>3, InitType, InitSlots, InitBound DEF ManagerInv, SafeInv
<1>2. Inv /\ [Next]_vars => Inv'
  <2> SUFFICES ASSUME SafeInv, HookInv, [Next]_vars PROVE HookInv'
    BY <1>0, SafeKept
  <2>1. CASE UNCHANGED vars
    BY <2>1 DEF vars, mgrVars, thrVars, HookInv, Waiting, AtHook, Successors, Places
  <2>2. ASSUME NEW t \in Thread, ThreadStep(t) \/ Lifecycle(t) PROVE HookInv'
    BY <1>0, <2>2, ExecuteHooks, QuietHooks, DispatchHooks, ReturnHooks
    DEF ThreadStep, HandleException, Lifecycle
  <2> QED BY <1>0, <2>1, <2>2, ApiHooks DEF Next
<1>3. Inv /\ [Next]_vars => [H!Next]_seen
  <2> SUFFICES ASSUME SafeInv, HookInv, [Next]_vars PROVE [H!Next]_seen
    OBVIOUS
  <2>1. CASE UNCHANGED vars
    BY <2>1 DEF vars, mgrVars, thrVars, Places
  <2>2. CASE Next
    BY <1>0, <2>2, ApiSeen, ThreadSeen DEF Next, Sees
  <2> QED BY <2>1, <2>2
<1>4. Init => H!Init
  BY CodeAssumption DEF Init, H!Init, Code
<1> HIDE DEF Inv
<1> QED BY <1>1, <1>2, <1>3, <1>4, PTL DEF Spec, HooksImplemented, H!Spec

=============================================================================
