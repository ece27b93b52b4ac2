------------------------------ MODULE MemPatch ------------------------------
(***************************************************************************)
(* Reversible memory patches (Memory.patch and Memory.restoreAll of        *)
(* agent_memory.cpp, MemoryPatch of KittyMemory).                          *)
(*                                                                         *)
(* A patch saves the bytes it covers when it is made and writes its own;   *)
(* g_activePatches owns it, and the script's object holds its address.     *)
(* restoreAll writes back the saved bytes of every patch in the order the  *)
(* patches were made and frees them; the memory of a freed patch goes to   *)
(* the next one.  All of it runs under g_jsMutex.  An original byte is 0,  *)
(* a byte written by patch p is p, and a byte written by writemem, writeu32*)
(* or the application is Other.                                            *)
(***************************************************************************)
EXTENDS Integers, Sequences, FiniteSetsExt

CONSTANTS
    NBytes,      \* bytes of code that are patched
    MaxPatches   \* bound on the patches made

ASSUME PatchAssumption == NBytes \in Nat /\ MaxPatches \in Nat

Byte == 1..NBytes
Cell == 1..MaxPatches
Other == MaxPatches + 1
NoPatch == [id |-> 0, at |-> {}, orig |-> << >>]
Span(lo, hi) == {b \in Byte : lo <= b /\ b <= hi}

VARIABLES
    mem,      \* the bytes
    heap,     \* MemoryPatch objects by the cell of memory they are in
    active,   \* g_activePatches: cells, oldest first
    objs,     \* the script's objects: __patch_ptr, the patch, and whether
              \* restoreAll has run since it was made
    nPatches, \* patches made
    foreign,  \* bytes written other than by patches
    stacked,  \* bytes a patch was made over while another's bytes were there
    failed    \* bytes of patches that restoreAll dropped without writing them back

patchVars == <<mem, heap, active, objs, nPatches, foreign, stacked, failed>>

PatchInit ==
    /\ mem = [b \in Byte |-> 0]
    /\ heap = [c \in Cell |-> NoPatch]
    /\ active = << >> /\ objs = {} /\ nPatches = 0
    /\ foreign = {} /\ stacked = {} /\ failed = {}

\* MemoryPatch::Modify and Restore on memory m.
ModifyIn(m, p)  == [b \in Byte |-> IF b \in p.at THEN p.id ELSE m[b]]
RestoreIn(m, p) == [b \in Byte |-> IF b \in p.at THEN p.orig[b] ELSE m[b]]

FreeCell == CHOOSE c \in Cell : /\ heap[c] = NoPatch
                                /\ \A d \in Cell : heap[d] = NoPatch => c <= d

\* MemoryPatch::createWithHex saves the current bytes.
Create(at) == [id |-> nPatches + 1, at |-> at, orig |-> [b \in at |-> mem[b]]]

\* JsMemoryPatch and MakePatchObject; the write may fail, which is not looked at.
\* Mutant: the bytes are saved after they have been written.
PatchLate(lo, hi) ==
    LET c == FreeCell
        w == ModifyIn(mem, Create(Span(lo, hi)))
        p == [Create(Span(lo, hi)) EXCEPT !.orig = [b \in Span(lo, hi) |-> w[b]]]
    IN  /\ nPatches < MaxPatches /\ lo <= hi
        /\ mem' = w
        /\ heap' = [heap EXCEPT ![c] = p]
        /\ active' = Append(active, c)
        /\ objs' = objs \cup {[cell |-> c, id |-> p.id, fresh |-> TRUE]}
        /\ nPatches' = nPatches + 1
        /\ UNCHANGED <<foreign, stacked, failed>>
\* Mutant: the patch is not entered in g_activePatches, so it is freed on return.
PatchUnowned(lo, hi) ==
    LET c == FreeCell
        p == Create(Span(lo, hi))
    IN  /\ nPatches < MaxPatches /\ lo <= hi
        /\ mem' = ModifyIn(mem, p)
        /\ objs' = objs \cup {[cell |-> c, id |-> p.id, fresh |-> TRUE]}
        /\ nPatches' = nPatches + 1
        /\ UNCHANGED <<heap, active, foreign, stacked, failed>>
Patch(lo, hi) ==
    LET c == FreeCell
        p == Create(Span(lo, hi))
    IN  /\ nPatches < MaxPatches /\ lo <= hi
        /\ mem' \in {mem, ModifyIn(mem, p)}
        /\ heap' = [heap EXCEPT ![c] = p]
        /\ active' = Append(active, c)
        /\ objs' = objs \cup {[cell |-> c, id |-> p.id, fresh |-> TRUE]}
        /\ nPatches' = nPatches + 1
        /\ stacked' = stacked \cup {b \in p.at : mem[b] # 0}
        /\ UNCHANGED <<foreign, failed>>

\* modify() and restore() of a script's object: whatever patch is in the cell;
\* a freed one has lost its bytes and is not valid.  The write may fail.
PatchModify(o) ==
    /\ heap[o.cell] # NoPatch
    /\ mem' \in {mem, ModifyIn(mem, heap[o.cell])}
    /\ UNCHANGED <<heap, active, objs, nPatches, foreign, stacked, failed>>

PatchRestore(o) ==
    /\ heap[o.cell] # NoPatch
    /\ mem' \in {mem, RestoreIn(mem, heap[o.cell])}
    /\ UNCHANGED <<heap, active, objs, nPatches, foreign, stacked, failed>>

\* The loop of restoreAll: patch after patch is written back, oldest first, so a byte
\* ends up as the newest patch that covers it found it.  Restore may fail for some of
\* them, lost, which is not looked at.
Covering(b, lost) == {i \in 1..Len(active) : i \notin lost /\ b \in heap[active[i]].at}
RestoredAll(lost) ==
    [b \in Byte |-> IF Covering(b, lost) = {} THEN mem[b]
                    ELSE heap[active[Max(Covering(b, lost))]].orig[b]]

JsMemoryRestoreAll ==
    /\ active # << >>
    /\ \E lost \in SUBSET (1..Len(active)) :
          /\ mem' = RestoredAll(lost)
          /\ failed' = failed \cup UNION {heap[active[i]].at : i \in lost}
    /\ heap' = [c \in Cell |-> NoPatch]
    /\ active' = << >>
    /\ objs' = {[o EXCEPT !.fresh = FALSE] : o \in objs}
    /\ stacked' = {b \in stacked : mem'[b] # 0}
    /\ UNCHANGED <<nPatches, foreign>>

\* JsWriteByteArray and JsWriteU32, or a store of the application.
Write(b) ==
    /\ b \notin foreign
    /\ mem' = [mem EXCEPT ![b] = Other]
    /\ foreign' = foreign \cup {b}
    /\ UNCHANGED <<heap, active, objs, nPatches, stacked, failed>>

PatchNext ==
    \/ \E lo, hi \in Byte : Patch(lo, hi)
    \/ \E o \in objs : PatchModify(o) \/ PatchRestore(o)
    \/ JsMemoryRestoreAll
    \/ \E b \in Byte : Write(b)

PatchSpec == PatchInit /\ [][PatchNext]_patchVars

----------------------------------------------------------------------------
PatchTypeOK ==
    /\ mem \in [Byte -> 0..Other]
    /\ \A c \in Cell : heap[c].id \in 0..MaxPatches /\ heap[c].at \subseteq Byte
    /\ \A i \in 1..Len(active) : heap[active[i]] # NoPatch
    /\ objs \subseteq [cell : Cell, id : 1..MaxPatches, fresh : BOOLEAN]
    /\ nPatches \in 0..MaxPatches
    /\ foreign \subseteq Byte /\ stacked \subseteq Byte /\ failed \subseteq Byte

\* Memory.restoreAll puts back every byte that only patches have written, on which none
\* was laid over another's bytes, and whose patches it could write back this time and
\* earlier, whichever of the patches the script has restored, modified again or put over
\* a restored one in between.
Reversible ==
    [][active # << >> /\ active' = << >> =>
        \A b \in Byte \ (foreign \cup stacked \cup failed') : mem'[b] = 0]_patchVars

\* modify() and restore() of an object that restoreAll has not retired act on the
\* patch the object was made for: g_activePatches keeps the raw pointer valid.
OwnPatch ==
    \A o \in objs : o.fresh => heap[o.cell].id = o.id
=============================================================================
