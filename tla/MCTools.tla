------------------------------ MODULE MCTools -------------------------------
(***************************************************************************)
(* What works on behalf of scripts inside the target: Java references, the *)
(* JNI tracer, memory patches, the bytecode interpreter and generated      *)
(* classes.  They share no state here, so a behaviour is one of the first, *)
(* of the second, and so on.                                               *)
(***************************************************************************)
EXTENDS JRefs, JniTracer, MemPatch, Interp, RegClass, TLC

VARIABLE part

\* Threads, objects and addresses are interchangeable; no liveness is checked.
Symmetry == Permutations(JavaThr) \cup Permutations(Obj) \cup Permutations(HeapAddr)

ToolsInit ==
    /\ part \in {"jrefs", "jni", "patch", "interp", "regclass"}
    /\ JRefsInit /\ JniInit /\ PatchInit /\ InterpInit /\ RegInit

ToolsNext ==
    \/ part = "jrefs"  /\ JRefsNext  /\ UNCHANGED <<part, regVars, jniVars, patchVars, interpVars>>
    \/ part = "jni"    /\ JniNext    /\ UNCHANGED <<part, regVars, jrefsVars, patchVars, interpVars>>
    \/ part = "patch"  /\ PatchNext  /\ UNCHANGED <<part, regVars, jrefsVars, jniVars, interpVars>>
    \/ part = "interp" /\ InterpNext /\ UNCHANGED <<part, regVars, jrefsVars, jniVars, patchVars>>
    \/ part = "regclass" /\ RegNext /\ UNCHANGED <<part, jrefsVars, jniVars, patchVars, interpVars>>

\* Everything each part keeps is of its type: handles are within the table, the
\* backup of the JNI table is whole or absent, patches on the list are allocated,
\* a frame's registers and results hold references or nothing, and thunks and bindings
\* are within kMaxThunks.
ToolsTypeOK ==
    CASE part = "jrefs"    -> JRefsTypeOK
      [] part = "jni"      -> JniTypeOK
      [] part = "patch"    -> PatchTypeOK
      [] part = "interp"   -> InterpTypeOK
      [] part = "regclass" -> RegTypeOK

ToolsSpec ==
    ToolsInit /\ [][ToolsNext]_<<part, jrefsVars, jniVars, patchVars, interpVars, regVars>>
=============================================================================
