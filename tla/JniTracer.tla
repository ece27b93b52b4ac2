----------------------------- MODULE JniTracer ------------------------------
(***************************************************************************)
(* Tracing of JNI calls by overwriting the function table that all threads *)
(* share (agent_jni.cpp): the backup of the table, the trampolines put in  *)
(* it, and the frames that pair the two halves of a trampoline.            *)
(*                                                                         *)
(* A call loads a function pointer from the table and jumps to it later.   *)
(* A trampoline runs ArtpiJniOnEnter, the function of the backup table and *)
(* ArtpiJniOnLeave; while the function runs, Java code may make further    *)
(* JNI calls on the same thread.  Scripts start and stop tracing; they are *)
(* serialised, and the table is written one slot at a time while the       *)
(* application goes on calling.  Everything a frame holds besides the call *)
(* it was made for (description, start time, pending name) is left out.    *)
(* The tracer's own JNI calls are made under t_insideJniTracer, where both *)
(* halves do nothing.  Frames are thread_local, so one thread stands for   *)
(* each.                                                                   *)
(***************************************************************************)
EXTENDS Integers, Sequences, FiniteSets

CONSTANTS
    Slot,          \* kinds of JNI functions
    MaxCalls,      \* bound on the JNI calls made
    MaxCallDepth,  \* bound on the calls in progress
    MaxSessions    \* bound on the times tracing is started

ASSUME JniAssumption ==
    MaxCalls \in Nat /\ MaxCallDepth \in Nat /\ MaxSessions \in Nat

VARIABLES
    table,      \* the JNI function table: "real" or "tramp" per slot
    backup,     \* g_real_jni_table: "none" before the first backup
    tracing,    \* g_vtableTracing
    op,         \* the script's operation on the table, and the slots it has left
    nCalls,     \* JNI calls made so far; calls are numbered in order
    inside,     \* the calls in progress, outermost first
    frames,     \* t_callStack: the calls whose enter half pushed a frame
    lines,      \* lines printed: call described, call whose result is shown
    sessions,   \* times tracing was started
    clean       \* no session was started over frames of an earlier one

jniVars == <<table, backup, tracing, op, nCalls, inside, frames, lines, sessions, clean>>

Idle == [what |-> "idle", left |-> {}]

JniInit ==
    /\ table = [s \in Slot |-> "real"]
    /\ backup = [s \in Slot |-> "none"]
    /\ tracing = FALSE /\ op = Idle
    /\ nCalls = 0 /\ inside = << >> /\ frames = << >> /\ lines = {}
    /\ sessions = 0 /\ clean = TRUE

----------------------------------------------------------------------------
(* The table *)

\* EnsureBackupTable: the table is copied once in the life of the process.
\* Mutant: the backup is taken again by every operation that needs it.
EnsureBackupEach == backup' = table
EnsureBackupTable ==
    backup' = IF \E s \in Slot : backup[s] # "none" THEN backup ELSE table

\* InstallVtableHook up to the first write.  Without trampolines, or if the table
\* cannot be made writable, only the backup has been made.
InstallBegin ==
    /\ op = Idle /\ ~tracing /\ sessions < MaxSessions
    /\ EnsureBackupTable
    /\ op' \in {Idle, [what |-> "install", left |-> Slot]}
    /\ UNCHANGED <<table, tracing, nCalls, inside, frames, lines, sessions, clean>>

InstallSlot(s) ==
    /\ op.what = "install" /\ s \in op.left
    /\ table' = [table EXCEPT ![s] = "tramp"]
    /\ op' = [op EXCEPT !.left = @ \ {s}]
    /\ UNCHANGED <<backup, tracing, nCalls, inside, frames, lines, sessions, clean>>

InstallEnd ==
    /\ op.what = "install" /\ op.left = {}
    /\ tracing' = TRUE /\ op' = Idle
    /\ sessions' = sessions + 1
    /\ clean' = (clean /\ frames = << >>)
    /\ UNCHANGED <<table, backup, nCalls, inside, frames, lines>>

\* UninstallVtableHook, called by JNI.stop, by the session's stop and by
\* detachAll.
UninstallBegin ==
    /\ op = Idle /\ tracing
    /\ op' = [what |-> "uninstall", left |-> Slot]
    /\ UNCHANGED <<table, backup, tracing, nCalls, inside, frames, lines, sessions, clean>>

UninstallSlot(s) ==
    /\ op.what = "uninstall" /\ s \in op.left
    /\ table' = [table EXCEPT ![s] = backup[s]]
    /\ op' = [op EXCEPT !.left = @ \ {s}]
    /\ UNCHANGED <<backup, tracing, nCalls, inside, frames, lines, sessions, clean>>

UninstallEnd ==
    /\ op.what = "uninstall" /\ op.left = {}
    /\ tracing' = FALSE /\ op' = Idle
    /\ UNCHANGED <<table, backup, nCalls, inside, frames, lines, sessions, clean>>

\* JNI.hwtrace needs the real functions' addresses, tracing or not.
HwTrace ==
    /\ op = Idle
    /\ EnsureBackupTable
    /\ UNCHANGED <<table, tracing, op, nCalls, inside, frames, lines, sessions, clean>>

----------------------------------------------------------------------------
(* Calls *)

depth == Len(inside)
In(via) == depth > 0 /\ inside[depth].pc = "load" /\ inside[depth].via = via
Running == depth > 0 /\ inside[depth].pc = "run"

\* A native function, or a native method that Java code reached, loads a
\* pointer from the table.
Load(s) ==
    /\ depth = 0 \/ Running
    /\ depth < MaxCallDepth /\ nCalls < MaxCalls
    /\ nCalls' = nCalls + 1
    /\ inside' = Append(inside, [id |-> nCalls + 1, via |-> table[s], pc |-> "load"])
    /\ UNCHANGED <<table, backup, tracing, op, frames, lines, sessions, clean>>

Run(fs) ==
    /\ inside' = [inside EXCEPT ![depth].pc = "run"]
    /\ frames' = fs
    /\ UNCHANGED <<table, backup, tracing, op, nCalls, lines, sessions, clean>>

Direct == In("real") /\ Run(frames)

\* The trampoline's first half: ArtpiJniOnEnter, then the function of the backup.
\* Mutant: no frame is pushed for a call that the filters reject.
OnEnterMatched ==
    /\ In("tramp")
    /\ \E matched \in BOOLEAN :
           Run(IF tracing /\ matched THEN Append(frames, inside[depth].id) ELSE frames)
OnEnter ==
    In("tramp") /\ Run(IF tracing THEN Append(frames, inside[depth].id) ELSE frames)

Done(fs, ls) ==
    /\ inside' = SubSeq(inside, 1, depth - 1)
    /\ frames' = fs /\ lines' = ls
    /\ UNCHANGED <<table, backup, tracing, op, nCalls, sessions, clean>>

DirectDone == Running /\ inside[depth].via = "real" /\ Done(frames, lines)

\* The second half: ArtpiJniOnLeave takes the innermost frame, and names the id
\* that was returned and prints the line from it.
OnLeave ==
    /\ Running /\ inside[depth].via = "tramp"
    /\ IF tracing /\ frames # << >>
       THEN Done(SubSeq(frames, 1, Len(frames) - 1),
                 lines \cup {[desc |-> frames[Len(frames)], ret |-> inside[depth].id]})
       ELSE Done(frames, lines)

JniNext ==
    \/ InstallBegin \/ InstallEnd \/ UninstallBegin \/ UninstallEnd \/ HwTrace
    \/ \E s \in Slot : InstallSlot(s) \/ UninstallSlot(s) \/ Load(s)
    \/ Direct \/ OnEnter \/ DirectDone \/ OnLeave

JniSpec == JniInit /\ [][JniNext]_jniVars

----------------------------------------------------------------------------
JniTypeOK ==
    /\ table \in [Slot -> {"real", "tramp"}]
    /\ backup \in [Slot -> {"none", "real", "tramp"}]
    /\ tracing \in BOOLEAN
    /\ op \in [what : {"idle", "install", "uninstall"}, left : SUBSET Slot]
    /\ nCalls \in 0..MaxCalls
    /\ inside \in Seq([id : 1..MaxCalls, via : {"real", "tramp"}, pc : {"load", "run"}])
    /\ depth <= MaxCallDepth
    /\ frames \in Seq(1..MaxCalls)
    /\ lines \subseteq [desc : 1..MaxCalls, ret : 1..MaxCalls]
    /\ sessions \in 0..MaxSessions /\ clean \in BOOLEAN

\* A trampoline never ends up calling a trampoline: whatever order tracing,
\* hwtrace and stopping come in, the backup that ArtpiJniGetRealFunc returns
\* from is complete, holds real functions, and is there before any trampoline.
\* "Original JNINativeInterface table restored (100% clean)" (agent_jni.cpp:1154):
\* when tracing is off and nothing is being installed, no trampoline is left.
RealKept ==
    /\ \A s \in Slot : backup[s] # "tramp"
    /\ (\E s \in Slot : table[s] = "tramp") => \A s \in Slot : backup[s] = "real"
    /\ ~tracing /\ op = Idle => \A s \in Slot : table[s] = "real"

\* A printed line, and the name given to a method id, joins a call's own
\* description with its own result, provided no session began over the frames of
\* an earlier one; whatever the nesting, and whichever calls were under way when
\* tracing was switched on or off.
PairedWhenClean ==
    clean => \A l \in lines : l.desc = l.ret
=============================================================================
