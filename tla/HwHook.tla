------------------------------- MODULE HwHook -------------------------------
(***************************************************************************)
(* HwHookManager (engine/native/hooker/pi_hw_hook.{h,cpp}): hardware       *)
(* breakpoints and watchpoints shared by every thread of the process.      *)
(*                                                                         *)
(* The manager owns a table of used comparator slots and a list of         *)
(* sessions.  A session programs one slot on every thread it covers.  When *)
(* a thread traps, HandleException runs on that thread: it either finishes *)
(* a pending step-over, or dispatches the user callback WITHOUT the        *)
(* manager lock and then arranges a step-over on a spare breakpoint slot.  *)
(* Every public operation holds mutex_ from its first to its last line, so *)
(* each is one action; HandleException is two, one on each side of the     *)
(* unlocked callback.                                                      *)
(*                                                                         *)
(* Abstractions: addresses are small naturals (0 is the null address the   *)
(* code rejects), pc + 4 is a + 1, tags, logging and register values other *)
(* than pc are left out, an instruction accesses at most one memory cell.  *)
(***************************************************************************)
EXTENDS Naturals, Integers, FiniteSets

CONSTANTS
    Thread,        \* kernel thread ids of the process (pid_t > 0)
    CodeLen,       \* code addresses are 1..CodeLen
    Insn,          \* [1..CodeLen -> [kind, target, cell]], the program
    Callback,      \* the user callbacks (config.on_hit)
    Config,        \* the HwHookConfig values attach() may be called with
    Redirect,      \* code addresses a callback may set ctx.pc to (skip, setPc)
    MaxHwSlots,    \* kMaxHwSlots
    BootCap,       \* by type: the capacities before init(), the member initialisers
    DefaultCap,    \* by type: the capacities init() assumes without asking the kernel
    HwSlots,       \* by type: the comparators the CPU really has
    MaxId,         \* bound: session ids handed out in a behaviour
    Detachable,    \* ids the tool may detach; with {} neither detach() nor detachAll() happens
    Hidden,        \* threads the injector holds under ptrace at the start
    Late,          \* threads that do not exist at the start
    MayExit        \* threads that may exit

Code == 1..CodeLen
Slot == 0..(MaxHwSlots - 1)
Id == 1..MaxId
NoSlot == -1
NoThread == 0    \* also config.thread_id = 0: every thread
NoCell == 0
Types == {"bp", "wp"}
ConfigType == [type : Types, addr : Nat \ {0}, size : Nat \ {0},
               tid : Thread \cup {NoThread}, once : BOOLEAN,
               slot : Slot \cup {NoSlot}, cb : Callback]
CapType == [Types -> 0..MaxHwSlots]

ASSUME ThreadAssumption == NoThread \notin Thread /\ IsFiniteSet(Thread)
ASSUME CodeAssumption ==
    /\ CodeLen \in Nat \ {0}
    /\ Insn \in [Code -> [kind : {"seq", "jump", "cond"}, target : Code, cell : Nat]]
    /\ Insn[CodeLen].kind = "jump"
    /\ Redirect \subseteq Code
ASSUME SlotAssumption ==
    /\ MaxHwSlots \in Nat \ {0}
    /\ {BootCap, DefaultCap, HwSlots} \subseteq CapType
ASSUME ConfigAssumption == Callback # {} /\ Config \subseteq ConfigType
ASSUME BoundAssumption ==
    MaxId \in Nat /\ Detachable \subseteq Id /\ Hidden \subseteq Thread /\ Late \subseteq Thread /\ MayExit \subseteq Thread

VARIABLES
    initialized, \* initialized_
    cap,         \* by type: bp_capacity_, wp_capacity_
    used,        \* by type: the slots whose bp_slots_/wp_slots_ entry is true
    nextId,      \* next_id_
    listed,      \* ids of the sessions in sessions_ (kept in id order)
    active,      \* ids whose session has active = true
    cfg,         \* session->config
    slot,        \* session->assigned_slot
    armed,       \* session->armed_threads
    step,        \* session->{step_over_slot, step_over_pc, stepping_thread}
    hwBp,        \* per thread, per slot: the address in the breakpoint register, 0 if off
    hwWp,        \* per thread, per slot: the cells the watchpoint register covers
    mode,        \* what each thread is doing
    pc,          \* its program counter
    mem,         \* the memory address its pending exception reports
    hit,         \* the session whose callback it is running
    served,      \* history: sessions dispatched since it last retired an instruction
    killed       \* an exception nobody claimed has ended the process

mgrVars == <<initialized, cap, used, nextId, listed, active, cfg, slot, armed, step>>
hwVars  == <<hwBp, hwWp>>
thrVars == <<mode, pc, mem, hit, served>>
vars    == <<mgrVars, hwVars, thrVars, killed>>

NoStep == [slot |-> NoSlot, pc |-> 0, tid |-> NoThread]

Modes == {"absent", "traced", "run", "trap", "callback"}

TypeOK ==
    /\ initialized \in BOOLEAN
    /\ cap \in CapType
    /\ used \in [Types -> SUBSET Slot]
    /\ nextId \in 1..(MaxId + 1)
    /\ listed \subseteq Id
    /\ active \subseteq Id
    /\ cfg \in [Id -> ConfigType]
    /\ slot \in [Id -> Slot]
    /\ armed \in [Id -> SUBSET Thread]
    /\ step \in [Id -> [slot : Slot \cup {NoSlot}, pc : Nat, tid : Thread \cup {NoThread}]]
    /\ hwBp \in [Thread -> [Slot -> Nat]]
    /\ hwWp \in [Thread -> [Slot -> SUBSET Nat]]
    /\ mode \in [Thread -> Modes]
    /\ pc \in [Thread -> Code]
    /\ mem \in [Thread -> Nat]
    /\ hit \in [Thread -> Id \cup {0}]
    /\ served \in [Thread -> SUBSET Id]
    /\ killed \in BOOLEAN

NullConfig == [type |-> "bp", addr |-> 1, size |-> 1, tid |-> NoThread,
               once |-> FALSE, slot |-> NoSlot, cb |-> CHOOSE f \in Callback : TRUE]

Init ==
    /\ initialized = FALSE
    /\ cap = BootCap
    /\ used = [ty \in Types |-> {}]
    /\ nextId = 1
    /\ listed = {}
    /\ active = {}
    /\ cfg = [i \in Id |-> NullConfig]
    /\ slot = [i \in Id |-> 0]
    /\ armed = [i \in Id |-> {}]
    /\ step = [i \in Id |-> NoStep]
    /\ hwBp = [t \in Thread |-> [s \in Slot |-> 0]]
    /\ hwWp = [t \in Thread |-> [s \in Slot |-> {}]]
    /\ mode = [t \in Thread |-> IF t \in Late THEN "absent"
                               ELSE IF t \in Hidden THEN "traced" ELSE "run"]
    /\ pc = [t \in Thread |-> 1]
    /\ mem = [t \in Thread |-> NoCell]
    /\ hit = [t \in Thread |-> 0]
    /\ served = [t \in Thread |-> {}]
    /\ killed = FALSE

-----------------------------------------------------------------------------
(* The slot table.                                                         *)

Lowest(S)  == CHOOSE s \in S : \A u \in S : s <= u
Highest(S) == CHOOSE s \in S : \A u \in S : u <= s

FreeSlots(ty) == {s \in Slot : s < cap[ty] /\ s \notin used[ty]}

\* The slots allocateSlot() may return for the request: none when exhausted.
AllocateSlot(ty, req) ==
    IF req # NoSlot THEN FreeSlots(ty) \cap {req}
    ELSE {s \in FreeSlots(ty) : s = Lowest(FreeSlots(ty))}

\* Mutants: the table entry is not set, or not cleared.
MarkForgotten(ty, s)     == used
FreeSlotForgotten(ty, s) == used

Mark(ty, s)     == [used EXCEPT ![ty] = @ \cup {s}]
FreeSlot(ty, s) == [used EXCEPT ![ty] = @ \ {s}]

-----------------------------------------------------------------------------
(* The debug registers, through Gum.  A write to a slot the CPU does not   *)
(* have reports success and is dropped.                                    *)

GumSetBp(hw, T, s, a) ==
    [t \in Thread |-> IF t \in T /\ s < HwSlots["bp"] THEN [hw[t] EXCEPT ![s] = a] ELSE hw[t]]

GumSetWp(hw, T, s, cells) ==
    [t \in Thread |-> IF t \in T /\ s < HwSlots["wp"] THEN [hw[t] EXCEPT ![s] = cells] ELSE hw[t]]

Watched(c) == c.addr..(c.addr + c.size - 1)

\* Threads Gum can stop to write their registers.
Armable == {t \in Thread : mode[t] \notin {"absent", "traced"}}

\* The threads armOnThread() succeeds on, of the ones config.thread_id names.
Coverage(c) == IF c.tid = NoThread THEN Armable ELSE Armable \cap {c.tid}

ArmOnThread(c, T, s) ==
    /\ hwBp' = IF c.type = "bp" THEN GumSetBp(hwBp, T, s, c.addr) ELSE hwBp
    /\ hwWp' = IF c.type = "wp" THEN GumSetWp(hwWp, T, s, Watched(c)) ELSE hwWp

DisarmOnThread(i, T) ==
    /\ hwBp' = IF cfg[i].type = "bp" THEN GumSetBp(hwBp, T, slot[i], 0) ELSE hwBp
    /\ hwWp' = IF cfg[i].type = "wp" THEN GumSetWp(hwWp, T, slot[i], {}) ELSE hwWp

-----------------------------------------------------------------------------
(* The public operations.                                                  *)

\* init(), the first line of attach().
InitManager ==
    /\ initialized' = TRUE
    /\ cap' = IF initialized THEN cap ELSE DefaultCap

SameTarget(c) ==
    {i \in listed \cap active : cfg[i].addr = c.addr /\ cfg[i].type = c.type}

\* attach() on an address that has a session: the callback is replaced, nothing
\* else of the new config is used, and the caller gets the old session's id.
AttachReuse(c) ==
    /\ SameTarget(c) # {}
    /\ InitManager
    /\ cfg' = [cfg EXCEPT ![Lowest(SameTarget(c))].cb = c.cb]
    /\ UNCHANGED <<used, nextId, listed, active, slot, armed, step, hwVars, thrVars, killed>>

\* attach() that creates a session.  init() has run when the slot is chosen.
AttachNew(c) ==
    /\ SameTarget(c) = {}
    /\ initialized
    /\ nextId <= MaxId
    /\ Coverage(c) # {}
    /\ \E s \in AllocateSlot(c.type, c.slot) :
        /\ used' = Mark(c.type, s)
        /\ slot' = [slot EXCEPT ![nextId] = s]
        /\ ArmOnThread(c, Coverage(c), s)
    /\ nextId' = nextId + 1
    /\ listed' = listed \cup {nextId}
    /\ active' = active \cup {nextId}
    /\ cfg' = [cfg EXCEPT ![nextId] = c]
    /\ armed' = [armed EXCEPT ![nextId] = Coverage(c)]
    /\ UNCHANGED <<initialized, cap, step, thrVars, killed>>

\* attach() that allocates a slot and an id but can arm no thread.
AttachUnarmed(c) ==
    /\ SameTarget(c) = {}
    /\ initialized
    /\ nextId <= MaxId
    /\ Coverage(c) = {}
    /\ AllocateSlot(c.type, c.slot) # {}
    /\ nextId' = nextId + 1
    /\ UNCHANGED <<initialized, cap, used, listed, active, cfg, slot, armed, step,
                   hwVars, thrVars, killed>>

\* init() on its own, or through an attach() that then fails.
Initialize ==
    /\ ~initialized
    /\ InitManager
    /\ UNCHANGED <<used, nextId, listed, active, cfg, slot, armed, step, hwVars, thrVars, killed>>

\* What detach() and detachAll() do to the registers of the sessions in S.
Disarm(S) ==
    /\ hwBp' = [t \in Thread |-> [s \in Slot |->
          IF \E i \in S : \/ cfg[i].type = "bp" /\ t \in armed[i] /\ s = slot[i]
                          \/ step[i].slot = s /\ step[i].tid = t
          THEN 0 ELSE hwBp[t][s]]]
    /\ hwWp' = [t \in Thread |-> [s \in Slot |->
          IF \E i \in S : cfg[i].type = "wp" /\ t \in armed[i] /\ s = slot[i]
          THEN {} ELSE hwWp[t][s]]]

\* The slots of type ty that the sessions in S give back.
SlotsOf(S, ty) ==
    {slot[i] : i \in {j \in S : cfg[j].type = ty}}
      \cup IF ty = "bp" THEN {step[i].slot : i \in S} ELSE {}

\* Mutant: detach() disarms every session in the list.
DetachDisarmsAll(i) ==
    /\ i \in listed \cap Detachable
    /\ Disarm(listed)
    /\ used' = [ty \in Types |-> used[ty] \ SlotsOf({i}, ty)]
    /\ active' = active \ {i}
    /\ listed' = listed \ {i}
    /\ UNCHANGED <<initialized, cap, nextId, cfg, slot, armed, step, thrVars, killed>>

Detach(i) ==
    /\ i \in listed \cap Detachable
    /\ Disarm({i})
    /\ used' = [ty \in Types |-> used[ty] \ SlotsOf({i}, ty)]
    /\ active' = active \ {i}
    /\ listed' = listed \ {i}
    /\ UNCHANGED <<initialized, cap, nextId, cfg, slot, armed, step, thrVars, killed>>

DetachAll ==
    /\ listed # {} /\ listed \subseteq Detachable
    /\ Disarm(listed)
    /\ used' = [ty \in Types |-> {}]
    /\ active' = active \ listed
    /\ listed' = {}
    /\ UNCHANGED <<initialized, cap, nextId, cfg, slot, armed, step, thrVars, killed>>

\* Threads rearmMissingThreads() arms for session i.
Missing(i) == IF i \in listed \cap active THEN Coverage(cfg[i]) \ armed[i] ELSE {}

RearmMissingThreads ==
    /\ initialized
    /\ \E i \in listed : Missing(i) # {}
    /\ armed' = [i \in Id |-> armed[i] \cup Missing(i)]
    /\ hwBp' = [t \in Thread |-> [s \in Slot |->
          LET arming == {i \in listed : /\ cfg[i].type = "bp" /\ slot[i] = s
                                        /\ t \in Missing(i) /\ s < HwSlots["bp"]}
          IN IF arming = {} THEN hwBp[t][s] ELSE cfg[Highest(arming)].addr]]
    /\ hwWp' = [t \in Thread |-> [s \in Slot |->
          LET arming == {i \in listed : /\ cfg[i].type = "wp" /\ slot[i] = s
                                        /\ t \in Missing(i) /\ s < HwSlots["wp"]}
          IN IF arming = {} THEN hwWp[t][s] ELSE Watched(cfg[Highest(arming)])]]
    /\ UNCHANGED <<initialized, cap, used, nextId, listed, active, cfg, slot, step, thrVars, killed>>

\* refreshCapacity(): each of the two kernel queries may fail and change nothing.
\* The clamp to kMaxHwSlots never bites, HwSlots being within it.
RefreshCapacity ==
    /\ initialized
    /\ \E answered \in SUBSET Types :
        cap' = [ty \in Types |-> IF ty \in answered /\ HwSlots[ty] > 0 THEN HwSlots[ty] ELSE cap[ty]]
    /\ UNCHANGED <<initialized, used, nextId, listed, active, cfg, slot, armed, step,
                   hwVars, thrVars, killed>>

-----------------------------------------------------------------------------
(* The program and the CPU.                                                *)

\* Where the CPU may go from address a.
Successors(a) ==
    CASE Insn[a].kind = "seq"  -> {a + 1}
      [] Insn[a].kind = "jump" -> {Insn[a].target}
      [] Insn[a].kind = "cond" -> {a + 1, Insn[a].target}

\* Mutants: the +4 is forgotten, or branches are not decoded.
NextPcSame(a)  == a
NextPcNoDecode(a) == a + 1

\* next_pc, as HandleException decodes it: RET, B, BL, BR and BLR are followed,
\* every other instruction is taken to fall through.
NextPc(a) == IF Insn[a].kind = "jump" THEN Insn[a].target ELSE a + 1

BpFires(t) == \E s \in Slot : hwBp[t][s] = pc[t]
WpFires(t) == \E s \in Slot : Insn[pc[t]].cell \in hwWp[t][s]

\* The thread retires one instruction.
Execute(t) ==
    /\ mode[t] = "run" /\ ~BpFires(t) /\ ~WpFires(t)
    /\ \E a \in Successors(pc[t]) : pc' = [pc EXCEPT ![t] = a]
    /\ served' = [served EXCEPT ![t] = {}]
    /\ UNCHANGED <<mgrVars, hwVars, mode, mem, hit, killed>>

\* A debug register matches before the instruction executes; a breakpoint has
\* priority and reports no memory address.
Trap(t) ==
    /\ mode[t] = "run" /\ (BpFires(t) \/ WpFires(t))
    /\ mode' = [mode EXCEPT ![t] = "trap"]
    /\ mem' = [mem EXCEPT ![t] = IF BpFires(t) THEN NoCell ELSE Insn[pc[t]].cell]
    /\ UNCHANGED <<mgrVars, hwVars, pc, hit, served, killed>>

-----------------------------------------------------------------------------
(* HandleException, on the trapped thread.                                 *)

\* Sessions whose step-over this exception completes.
Stepping(t) == {i \in listed \cap active : step[i].tid = t /\ step[i].pc = pc[t]}

\* Mutant: the first watched byte is left out of the range test.
MatchesExclusive(i, t) ==
    IF cfg[i].type = "bp" THEN pc[t] = cfg[i].addr
    ELSE mem[t] \in Watched(cfg[i]) \ {cfg[i].addr}

Matches(i, t) ==
    IF cfg[i].type = "bp" THEN pc[t] = cfg[i].addr ELSE mem[t] \in Watched(cfg[i])

Claimed(t) == {i \in listed \cap active : Matches(i, t)}

\* Mutant: the original slot is not programmed again.
StepOverHitNoRearm(t) ==
    /\ mode[t] = "trap"
    /\ Stepping(t) # {}
    /\ LET i == Lowest(Stepping(t))
       IN /\ used' = FreeSlot("bp", step[i].slot)
          /\ hwBp' = GumSetBp(hwBp, {t}, step[i].slot, 0)
          /\ step' = [step EXCEPT ![i] = NoStep]
    /\ mode' = [mode EXCEPT ![t] = "run"]
    /\ UNCHANGED <<initialized, cap, nextId, listed, active, cfg, slot, armed,
                   hwWp, pc, mem, hit, served, killed>>

\* 1. The step-over breakpoint: give its slot back and re-arm the original one.
StepOverHit(t) ==
    /\ mode[t] = "trap"
    /\ Stepping(t) # {}
    /\ LET i == Lowest(Stepping(t))
           hw == GumSetBp(hwBp, {t}, step[i].slot, 0)
       IN /\ used' = FreeSlot("bp", step[i].slot)
          /\ hwBp' = IF cfg[i].type = "bp" THEN GumSetBp(hw, {t}, slot[i], cfg[i].addr) ELSE hw
          /\ hwWp' = IF cfg[i].type = "wp" THEN GumSetWp(hwWp, {t}, slot[i], Watched(cfg[i])) ELSE hwWp
          /\ step' = [step EXCEPT ![i] = NoStep]
    /\ mode' = [mode EXCEPT ![t] = "run"]
    /\ UNCHANGED <<initialized, cap, nextId, listed, active, cfg, slot, armed,
                   pc, mem, hit, served, killed>>

\* 2. The first session in sessions_ that claims the exception is dispatched.
Dispatching(t, i) ==
    /\ mode[t] = "trap"
    /\ Stepping(t) = {}
    /\ Claimed(t) # {} /\ i = Lowest(Claimed(t))
    /\ mode' = [mode EXCEPT ![t] = "callback"]
    /\ hit' = [hit EXCEPT ![t] = i]
    /\ served' = [served EXCEPT ![t] = @ \cup {i}]
    /\ UNCHANGED <<initialized, cap, nextId, cfg, slot, step, pc, mem>>

Dispatch(t) ==
    \E i \in listed :
        /\ Dispatching(t, i)
        /\ ~cfg[i].once
        /\ UNCHANGED <<used, listed, active, armed, hwVars, killed>>

\* Other threads the one-shot path has to disarm.
Peers(i, t) == IF cfg[i].tid = NoThread THEN armed[i] \ {t} ELSE {}

\* A one-shot session is disarmed, freed and unlisted before its callback.  The
\* loop over armed_threads erases the element it stands on, which invalidates
\* its iterator: after the first thread any subset may be visited, or the walk
\* may leave the tree and fault.
DispatchOnce(t) ==
    \E i \in listed :
        /\ Dispatching(t, i)
        /\ cfg[i].once
        /\ \E D \in SUBSET Peers(i, t) :
            /\ D = {} => Peers(i, t) = {}
            /\ DisarmOnThread(i, {t} \cup D)
            /\ armed' = [armed EXCEPT ![i] = @ \ ({t} \cup D)]
        /\ active' = active \ {i}
        /\ listed' = listed \ {i}
        /\ used' = FreeSlot(cfg[i].type, slot[i])
        /\ killed' \in IF Peers(i, t) = {} THEN {FALSE} ELSE BOOLEAN

\* No session claims it: the handler returns 0 and SIGTRAP ends the process.
NotOurs(t) ==
    /\ mode[t] = "trap"
    /\ Stepping(t) = {} /\ Claimed(t) = {}
    /\ killed' = TRUE
    /\ UNCHANGED <<mgrVars, hwVars, thrVars>>

\* The callback is over and the lock is held again; ctx.pc is written back.
Returning(t, i) ==
    /\ mode[t] = "callback" /\ i = hit[t]
    /\ \E a \in {pc[t]} \cup Redirect : pc' = [pc EXCEPT ![t] = a]
    /\ mode' = [mode EXCEPT ![t] = "run"]
    /\ hit' = [hit EXCEPT ![t] = 0]
    /\ mem' = [mem EXCEPT ![t] = NoCell]
    /\ UNCHANGED <<initialized, cap, nextId, listed, cfg, slot, armed, served, killed>>

\* One-shot, or detached while the callback ran: nothing is left to do.
ReturnDone(t) ==
    \E i \in Id :
        /\ Returning(t, i)
        /\ cfg[i].once \/ i \notin active
        /\ UNCHANGED <<active, used, step, hwVars>>

\* The spare breakpoint slot a step-over takes, if there is one.
StepSlot(i) ==
    LET spare == FreeSlots("bp") \ (IF cfg[i].type = "bp" THEN {slot[i]} ELSE {})
    IN {s \in spare : s = Lowest(spare)}

\* Disarm on this thread and put a breakpoint on the instruction decoded to
\* come next after the one that trapped.
ReturnStepOver(t) ==
    \E i \in active :
        /\ Returning(t, i)
        /\ ~cfg[i].once
        /\ \E s \in StepSlot(i) :
            LET next == IF cfg[i].type = "bp" THEN NextPc(pc[t]) ELSE pc[t] + 1
                hw   == IF cfg[i].type = "bp" THEN GumSetBp(hwBp, {t}, slot[i], 0) ELSE hwBp
            IN /\ used' = Mark("bp", s)
               /\ step' = [step EXCEPT ![i] = [slot |-> s, pc |-> next, tid |-> t]]
               /\ hwBp' = GumSetBp(hw, {t}, s, next)
        /\ hwWp' = IF cfg[i].type = "wp" THEN GumSetWp(hwWp, {t}, slot[i], {}) ELSE hwWp
        /\ UNCHANGED active

\* No spare slot: a breakpoint session stays active but disarmed on this
\* thread, a watchpoint session goes inactive and gives its slot back.
ReturnExhausted(t) ==
    \E i \in active :
        /\ Returning(t, i)
        /\ ~cfg[i].once
        /\ StepSlot(i) = {}
        /\ DisarmOnThread(i, {t})
        /\ active' = IF cfg[i].type = "wp" THEN active \ {i} ELSE active
        /\ used' = IF cfg[i].type = "wp" THEN FreeSlot("wp", slot[i]) ELSE used
        /\ UNCHANGED step

-----------------------------------------------------------------------------
(* Threads come and go; the kernel gives a new thread clean registers.     *)

\* The injector lets go of a thread it held under ptrace (PTRACE_DETACH).
InjectorDetach(t) ==
    /\ mode[t] = "traced"
    /\ mode' = [mode EXCEPT ![t] = "run"]
    /\ UNCHANGED <<mgrVars, hwVars, pc, mem, hit, served, killed>>

ThreadStart(t) ==
    /\ mode[t] = "absent"
    /\ mode' = [mode EXCEPT ![t] = "run"]
    /\ pc' = [pc EXCEPT ![t] = 1]
    /\ UNCHANGED <<mgrVars, hwVars, mem, hit, served, killed>>

ThreadExit(t) ==
    /\ mode[t] = "run" /\ t \in MayExit
    /\ mode' = [mode EXCEPT ![t] = "absent"]
    /\ hwBp' = [hwBp EXCEPT ![t] = [s \in Slot |-> 0]]
    /\ hwWp' = [hwWp EXCEPT ![t] = [s \in Slot |-> {}]]
    /\ served' = [served EXCEPT ![t] = {}]
    /\ UNCHANGED <<mgrVars, pc, mem, hit, killed>>

-----------------------------------------------------------------------------
HandleException(t) ==
    \/ StepOverHit(t) \/ Dispatch(t) \/ DispatchOnce(t) \/ NotOurs(t)
    \/ ReturnDone(t) \/ ReturnStepOver(t) \/ ReturnExhausted(t)

ThreadStep(t) == ~killed /\ (Execute(t) \/ Trap(t) \/ HandleException(t))

Lifecycle(t) == ~killed /\ (InjectorDetach(t) \/ ThreadStart(t) \/ ThreadExit(t))

Attach(c) == AttachReuse(c) \/ AttachNew(c) \/ AttachUnarmed(c)

Api ==
    /\ ~killed
    /\ \/ Initialize
       \/ \E c \in Config : Attach(c)
       \/ \E i \in Id : Detach(i)
       \/ DetachAll
       \/ RearmMissingThreads
       \/ RefreshCapacity

Next == Api \/ \E t \in Thread : ThreadStep(t) \/ Lifecycle(t)

\* Every running thread, and every handler on it, keeps being scheduled.
Fairness == \A t \in Thread : WF_vars(ThreadStep(t))

Spec == Init /\ [][Next]_vars
FairSpec == Spec /\ Fairness
-----------------------------------------------------------------------------
(* What the manager promises.                                              *)

\* Session i's register is programmed on thread t.
Covered(i, t) ==
    IF cfg[i].type = "bp" THEN hwBp[t][slot[i]] = cfg[i].addr
    ELSE hwWp[t][slot[i]] = Watched(cfg[i])

ListedBp == {i \in listed : cfg[i].type = "bp"}
Pending  == {i \in listed : step[i].tid # NoThread}

\* No breakpoint comparator serves two masters: the slots of the breakpoint
\* sessions in sessions_ and the slots of the pending step-overs are marked in
\* bp_slots_ and are pairwise different, so that finishing, detaching or
\* re-arming one never touches another (allocateSlot, the step-over scan, detach).
BpSlotsExclusive ==
    /\ \A i \in ListedBp : i \in active /\ slot[i] \in used["bp"]
    /\ \A i \in Pending : step[i].slot \in used["bp"]
    /\ \A i, j \in ListedBp : i # j => slot[i] # slot[j]
    /\ \A i, j \in Pending : i # j => step[i].slot # step[j].slot
    /\ \A i \in Pending, j \in ListedBp : step[i].slot # slot[j]

\* attach(), detach() and rearmMissingThreads() leave alone the registers of the
\* sessions they were not asked about.
ApiKeepsOthers ==
    [][UNCHANGED thrVars =>
        \A i \in listed \cap active \cap listed', t \in Thread :
            Covered(i, t) => Covered(i, t)']_vars

\* The step put another record over a pending step-over that held breakpoint slot s.
Overwritten(s) ==
    \E i \in Id : /\ step[i].tid # NoThread /\ step[i].slot = s
                  /\ step'[i].tid # NoThread /\ step'[i].slot # s

\* Whoever lets go of a comparator gives it back: no step of attach(), detach(),
\* detachAll(), a one-shot hit or a step-over leaves a slot marked in bp_slots_ or
\* wp_slots_ that a session in sessions_ or its pending step-over held before it and
\* nobody holds after it.  The one exception is a second thread's step-over of the same
\* session, which overwrites the record of the first.
SlotsAccounted ==
    [][\A ty \in Types : \A s \in used'[ty] :
          \/ s \in SlotsOf(listed, ty)'
          \/ s \in used[ty] /\ (s \notin SlotsOf(listed, ty) \/ (ty = "bp" /\ Overwritten(s)))]_vars

\* "Step-over and re-arming upon each hit": on every thread in armed_threads the
\* session's register is programmed, or the breakpoint that will re-arm it is.
Rearming ==
    \A i \in listed \cap active : \A t \in armed[i] :
        \/ Covered(i, t)
        \/ step[i].tid = t /\ hwBp[t][step[i].slot] = step[i].pc

\* HandleException returns 0, "not our exception", only for exceptions that no
\* register of the manager raised.  Every exception of this model is one of its own.
ClaimedTraps ==
    \A t \in Thread : mode[t] = "trap" => Stepping(t) # {} \/ Claimed(t) # {}

\* No infinite break loop: a session is dispatched at most once for each
\* instruction a thread retires.
NoBreakLoop ==
    [][\A t \in Thread : mode[t] = "trap" /\ mode'[t] = "callback"
                            => hit'[t] \notin served[t]]_vars

\* A recurring session bound to a thread is hit again and again while it lives.
RecurringHits ==
    \A i \in Id, t \in Thread :
        <>[](i \in listed \cap active /\ cfg[i].tid = t /\ ~cfg[i].once)
            => []<>(mode[t] = "callback" /\ hit[t] = i)

\* The instructions that a session of config c is about.
Places(c) == IF c.type = "bp" THEN Code \cap {c.addr}
             ELSE {a \in Code : Insn[a].cell \in Watched(c)}

\* The registers, exceptions and step-overs implement hooks: each execution of a
\* hooked instruction is preceded by exactly one callback of its session (Dispatch,
\* the step-over and re-arming in HandleException), for sessions bound to a thread.
H == INSTANCE Hooks WITH
        Session <- Id, Place <- Code, at <- pc, live <- listed \cap active,
        of <- [i \in Id |-> [tid |-> cfg[i].tid, places |-> Places(cfg[i]), once |-> cfg[i].once]]
HooksImplemented == H!Spec
=============================================================================
