------------------------------ MODULE MCHwHook ------------------------------
(***************************************************************************)
(* Instances of HwHook for TLC: the programs the threads execute and the   *)
(* sessions a script asks for.                                             *)
(***************************************************************************)
EXTENDS HwHook

Seq(c)  == [kind |-> "seq", target |-> 1, cell |-> c]
Jump(a) == [kind |-> "jump", target |-> a, cell |-> NoCell]

\* A loop of three instructions, one of which may access cell 1.
Loop        == <<Seq(NoCell), Seq(NoCell), Jump(1)>>
LoopAccess4 == <<Seq(NoCell), Seq(1), Seq(NoCell), Jump(1)>>

Bp(a, t, once, s) == [type |-> "bp", addr |-> a, size |-> 1, tid |-> t,
                      once |-> once, slot |-> s, cb |-> CHOOSE f \in Callback : TRUE]
Wp(c, t, once, s) == [type |-> "wp", addr |-> c, size |-> 1, tid |-> t,
                      once |-> once, slot |-> s, cb |-> CHOOSE f \in Callback : TRUE]

AnyThread == CHOOSE t \in Thread : TRUE
Other     == CHOOSE t \in Thread : t # AnyThread

Slots(b, w) == [bp |-> b, wp |-> w]
Cap21 == Slots(2, 1)
Cap11 == Slots(1, 1)
Cap31 == Slots(3, 1)
Cap61 == Slots(6, 1)

\* Sessions on every thread, recurring and one-shot, one asking for slot 1.
SharedConfigs ==
    {Bp(1, NoThread, FALSE, NoSlot), Bp(2, NoThread, TRUE, NoSlot), Bp(2, NoThread, FALSE, 1)}

\* Sessions bound to a thread, on different instructions.
BoundConfigs ==
    {Bp(1, AnyThread, FALSE, NoSlot), Wp(1, AnyThread, FALSE, NoSlot),
     Bp(4, AnyThread, FALSE, NoSlot), Bp(1, Other, TRUE, NoSlot)}

\* One recurring breakpoint on every thread.
OneShared == {Bp(1, NoThread, FALSE, NoSlot)}
=============================================================================
