------------------------------ MODULE RegClass ------------------------------
(***************************************************************************)
(* Classes that scripts generate (src/agent/agent_java_registerclass.cpp   *)
(* and the loading half of src/dex/pi_dex_loader.cpp): Java.registerClass  *)
(* and $dispose, the thunks and the bindings through which a native method *)
(* of such a class reaches its JavaScript implementation, and calls of     *)
(* those methods by the application and by scripts.                        *)
(*                                                                         *)
(* What a class contains besides its native methods, the dex image, the    *)
(* conversion of arguments and results, the references to loaders, sleep() *)
(* in a script (which only gives the lock away) and Java.loadDex are left  *)
(* out.                                                                    *)
(***************************************************************************)
EXTENDS Naturals, Sequences

CONSTANTS ClassName,     \* names scripts give to classes
          Meth,          \* native methods a class may declare
          AppThr,        \* application threads
          Evaluator,     \* the thread that evaluates scripts
          Nobody,        \* no thread
          MaxThunks,     \* kMaxThunks
          MaxRegs,       \* bound: calls of registerClass that load a class
          MaxNative      \* bound: native calls nested on a thread

ASSUME RegClassAssumption ==
    /\ {MaxThunks, MaxRegs, MaxNative} \subseteq Nat
    /\ Evaluator \notin AppThr /\ Nobody \notin AppThr \cup {Evaluator}

VARIABLES
    thunkUsed,    \* g_thunkUsed
    bindings,     \* g_bindings: the implementation a slot leads to
    natives,      \* natives[c][m]: the slot of the thunk registered for c's method m
    regs,         \* registrations so far; the live ones are g_registered
    generated,    \* g_classes: the registration whose class a name stands for
    nativeCalls,  \* calls of native methods in progress on each thread
    jsOwner,      \* who holds g_jsMutex
    running       \* registerClass or $dispose in progress

regVars == <<thunkUsed, bindings, natives, regs, generated, nativeCalls, jsOwner, running>>

ThunkSlot == 0..(MaxThunks - 1)
NoThunk == MaxThunks
RegId == 1..MaxRegs
Impl == [reg : RegId, meth : Meth]
NoImpl == [reg |-> 0, meth |-> "none"]
RegThr == AppThr \cup {Evaluator}
NotRunning == [what |-> "none", id |-> 0, todo |-> {}]

\* A class object is named by the registration that defined it.
NoNatives == [m \in Meth |-> NoThunk]

RegInit ==
    /\ thunkUsed = 0
    /\ bindings = [s \in ThunkSlot |-> NoImpl]
    /\ natives = [c \in RegId |-> NoNatives]
    /\ regs = << >>
    /\ generated = [k \in ClassName |-> 0]
    /\ nativeCalls = [t \in RegThr |-> << >>]
    /\ jsOwner = Nobody
    /\ running = NotRunning

-----------------------------------------------------------------------------
(* Who runs JavaScript.                                                    *)

Innermost(t) == nativeCalls[t][Len(nativeCalls[t])]

\* Thread t is in JavaScript code: in the script it evaluates, or in the
\* implementation of a native method that was called on it.
InJs(t) ==
    /\ running = NotRunning
    /\ IF nativeCalls[t] = << >> THEN t = Evaluator /\ jsOwner = t
                                 ELSE Innermost(t).at = "js"

\* EvalJs takes g_jsMutex for the whole script.
ScriptBegins ==
    /\ jsOwner = Nobody /\ nativeCalls[Evaluator] = << >>
    /\ jsOwner' = Evaluator
    /\ UNCHANGED <<thunkUsed, bindings, natives, regs, generated, nativeCalls, running>>

ScriptEnds ==
    /\ InJs(Evaluator) /\ nativeCalls[Evaluator] = << >>
    /\ jsOwner' = Nobody
    /\ UNCHANGED <<thunkUsed, bindings, natives, regs, generated, nativeCalls, running>>

-----------------------------------------------------------------------------
(* Java.registerClass.                                                     *)

This == regs[running.id]

\* LoadDex splices the image into the application's class loader if that works.  A
\* name that loader resolves already, because an earlier class of that name was spliced
\* into it, yields that class, whichever loader is asked.
InApp(k) == {i \in 1..Len(regs) : regs[i].name = k /\ regs[i].inApp}
Resolved(k) == IF InApp(k) = {} THEN Len(regs) + 1 ELSE regs[CHOOSE i \in InApp(k) : TRUE].cls

RegisterGeneratedClass(k, cls) == generated' = [generated EXCEPT ![k] = cls]
UnregisterGeneratedClass(k) == generated' = [generated EXCEPT ![k] = 0]

\* The image is built and loaded, and the class is resolved.
LoadClass(t) ==
    /\ InJs(t)
    /\ Len(regs) < MaxRegs
    /\ \E k \in ClassName, ms \in SUBSET Meth \ {{}}, inject \in BOOLEAN :
          /\ regs' = Append(regs, [name |-> k, cls |-> Resolved(k), inApp |-> inject \/ InApp(k) # {},
                                   meths |-> ms, slots |-> NoNatives, live |-> FALSE])
          /\ RegisterGeneratedClass(k, Resolved(k))
          /\ running' = [what |-> "bind", id |-> Len(regs) + 1, todo |-> ms]
    /\ UNCHANGED <<thunkUsed, bindings, natives, nativeCalls, jsOwner>>

\* Mutant: a slot whose binding is gone is handed out again.
NextThunkFree == CHOOSE s \in ThunkSlot : bindings[s] = NoImpl /\ \A u \in ThunkSlot :
                     u < s => bindings[u] # NoImpl
\* Slots are handed out in order and never again.
NextThunk == thunkUsed

\* One method: AcquireThunk, then its binding.
AcquireThunk(m) ==
    /\ running.what = "bind" /\ m \in running.todo
    /\ thunkUsed < MaxThunks
    /\ thunkUsed' = thunkUsed + 1
    /\ bindings' = [bindings EXCEPT ![NextThunk] = [reg |-> running.id, meth |-> m]]
    /\ regs' = [regs EXCEPT ![running.id].slots[m] = NextThunk]
    /\ running' = [running EXCEPT !.todo = @ \ {m}]
    /\ UNCHANGED <<natives, generated, nativeCalls, jsOwner>>

\* An abstract method is left unimplemented, or the slots are used up.
RegisterFails ==
    /\ running.what = "bind"
    /\ running.todo = This.meths \/ (running.todo # {} /\ thunkUsed = MaxThunks)
    /\ running' = [running EXCEPT !.what = "failed"]
    /\ UNCHANGED <<thunkUsed, bindings, natives, regs, generated, nativeCalls, jsOwner>>

\* ART sets one method after the other and stops at the first it does not find: a
\* class that an earlier registration defined has the methods of that one.
RegisterNatives ==
    /\ running.what = "bind" /\ running.todo = {}
    /\ LET known == This.meths \cap regs[This.cls].meths
       IN  \E set \in SUBSET known :
              /\ known = This.meths => set = known
              /\ natives' = [natives EXCEPT ![This.cls] =
                                [m \in Meth |-> IF m \in set THEN This.slots[m] ELSE @[m]]]
              /\ running' = [running EXCEPT !.what = IF set = This.meths THEN "done" ELSE "failed"]
    /\ UNCHANGED <<thunkUsed, bindings, regs, generated, nativeCalls, jsOwner>>

Unbound(slots) ==
    [s \in ThunkSlot |-> IF \E m \in Meth : slots[m] = s THEN NoImpl ELSE bindings[s]]

\* The bindings go, the slots stay used, and so does whatever ART had set.
RegisterFailed ==
    /\ running.what = "failed"
    /\ bindings' = Unbound(This.slots)
    /\ UnregisterGeneratedClass(This.name)
    /\ running' = NotRunning
    /\ UNCHANGED <<thunkUsed, natives, regs, nativeCalls, jsOwner>>

\* The handle is published.
RegisterDone ==
    /\ running.what = "done"
    /\ regs' = [regs EXCEPT ![running.id].live = TRUE]
    /\ running' = NotRunning
    /\ UNCHANGED <<thunkUsed, bindings, natives, generated, nativeCalls, jsOwner>>

-----------------------------------------------------------------------------
(* $dispose: the handle, then the natives, then the bindings and the name.  *)

\* Mutant: the natives are not unregistered.
DisposeNativesKept(t, id) ==
    /\ InJs(t) /\ regs[id].live
    /\ regs' = [regs EXCEPT ![id].live = FALSE]
    /\ running' = [what |-> "unbind", id |-> id, todo |-> {}]
    /\ UNCHANGED <<thunkUsed, bindings, natives, generated, nativeCalls, jsOwner>>

Dispose(t, id) ==
    /\ InJs(t) /\ regs[id].live
    /\ regs' = [regs EXCEPT ![id].live = FALSE]
    /\ running' = [what |-> "dispose", id |-> id, todo |-> {}]
    /\ UNCHANGED <<thunkUsed, bindings, natives, generated, nativeCalls, jsOwner>>

\* Every native method of the class, whichever registration set it.
UnregisterNatives ==
    /\ running.what = "dispose"
    /\ natives' = [natives EXCEPT ![This.cls] = NoNatives]
    /\ running' = [running EXCEPT !.what = "unbind"]
    /\ UNCHANGED <<thunkUsed, bindings, regs, generated, nativeCalls, jsOwner>>

EraseBindings ==
    /\ running.what = "unbind"
    /\ bindings' = Unbound(This.slots)
    /\ UnregisterGeneratedClass(This.name)
    /\ running' = NotRunning
    /\ UNCHANGED <<thunkUsed, natives, regs, nativeCalls, jsOwner>>

-----------------------------------------------------------------------------
(* Calls of the native methods.                                            *)

SetCall(t, f) == nativeCalls' = [nativeCalls EXCEPT ![t][Len(nativeCalls[t])] = f]
EndCall(t) == nativeCalls' = [nativeCalls EXCEPT ![t] = SubSeq(@, 1, Len(@) - 1)]

\* Java code on t, which the application or JavaScript called, calls the native method:
\* the thunk puts its slot in x16 and goes to the dispatcher.
CallNative(t, c, m) ==
    /\ IF nativeCalls[t] = << >> /\ t # Evaluator THEN TRUE ELSE InJs(t)
    /\ Len(nativeCalls[t]) < MaxNative
    /\ natives[c][m] # NoThunk
    /\ nativeCalls' = [nativeCalls EXCEPT ![t] =
           Append(@, [at |-> "thunk", slot |-> natives[c][m], via |-> bindings[natives[c][m]],
                      impl |-> NoImpl, locked |-> FALSE])]
    /\ UNCHANGED <<thunkUsed, bindings, natives, regs, generated, jsOwner, running>>

\* The dispatcher copies the binding under g_bindingsMutex; without one the method
\* returns null or zero.
NativeDispatch(t) ==
    /\ nativeCalls[t] # << >> /\ Innermost(t).at = "thunk"
    /\ LET b == bindings[Innermost(t).slot]
       IN  IF b = NoImpl THEN EndCall(t)
                         ELSE SetCall(t, [Innermost(t) EXCEPT !.at = "lock", !.impl = b])
    /\ UNCHANGED <<thunkUsed, bindings, natives, regs, generated, jsOwner, running>>

\* t_jsReentrancyDepth is above zero only inside EvalJs: a call made by the
\* implementation of another native method waits for the lock its own thread holds.
NativeLock(t) ==
    /\ nativeCalls[t] # << >> /\ Innermost(t).at = "lock"
    /\ \/ /\ t = Evaluator
          /\ SetCall(t, [Innermost(t) EXCEPT !.at = "js"])
          /\ UNCHANGED jsOwner
       \/ /\ t # Evaluator /\ jsOwner = Nobody
          /\ SetCall(t, [Innermost(t) EXCEPT !.at = "js", !.locked = TRUE])
          /\ jsOwner' = t
    /\ UNCHANGED <<thunkUsed, bindings, natives, regs, generated, running>>

\* The implementation returns or throws, and the result is converted.
NativeReturn(t) ==
    /\ nativeCalls[t] # << >> /\ InJs(t)
    /\ jsOwner' = IF Innermost(t).locked THEN Nobody ELSE jsOwner
    /\ EndCall(t)
    /\ UNCHANGED <<thunkUsed, bindings, natives, regs, generated, running>>

-----------------------------------------------------------------------------
RegNext ==
    \/ ScriptBegins \/ ScriptEnds
    \/ \E t \in RegThr : LoadClass(t)
    \/ \E m \in Meth : AcquireThunk(m)
    \/ RegisterFails \/ RegisterNatives \/ RegisterFailed \/ RegisterDone
    \/ \E t \in RegThr : \E id \in 1..Len(regs) : Dispose(t, id)
    \/ UnregisterNatives \/ EraseBindings
    \/ \E t \in RegThr, c \in RegId, m \in Meth : CallNative(t, c, m)
    \/ \E t \in RegThr : NativeDispatch(t) \/ NativeLock(t) \/ NativeReturn(t)

RegSpec == RegInit /\ [][RegNext]_regVars

-----------------------------------------------------------------------------
RegTypeOK ==
    /\ thunkUsed \in 0..MaxThunks
    /\ bindings \in [ThunkSlot -> Impl \cup {NoImpl}]
    /\ natives \in [RegId -> [Meth -> 0..NoThunk]]
    /\ regs \in Seq([name : ClassName, cls : RegId, inApp : BOOLEAN, meths : SUBSET Meth,
                     slots : [Meth -> 0..NoThunk], live : BOOLEAN])
    /\ generated \in [ClassName -> 0..MaxRegs]
    /\ \A t \in RegThr : \A i \in 1..Len(nativeCalls[t]) :
          nativeCalls[t][i] \in [at : {"thunk", "lock", "js"}, slot : ThunkSlot,
              via : Impl \cup {NoImpl}, impl : Impl \cup {NoImpl}, locked : BOOLEAN]
    /\ jsOwner \in RegThr \cup {Nobody}
    /\ running \in [what : {"none", "bind", "failed", "done", "dispose", "unbind"},
                    id : 0..MaxRegs, todo : SUBSET Meth]

\* A native call that entered by the thunk of one registration runs that
\* registration's implementation of that method or none at all, although the class may
\* be disposed and others registered between the thunk, the copy of the binding in
\* ArtpiNativeDispatch and the lock it then waits for.
OwnImpl ==
    \A t \in RegThr : \A i \in 1..Len(nativeCalls[t]) :
       nativeCalls[t][i].impl \in {NoImpl, nativeCalls[t][i].via}

Registrations(c) == {i \in 1..Len(regs) : regs[i].cls = c}

\* Registration i is over: its handle was disposed of, or registering it failed.
Over(i) == ~regs[i].live /\ running.id # i

\* A call of a native method finds no implementation, and returns null, only if its own
\* registration ended while the call was between the thunk and ArtpiNativeDispatch's
\* look at g_bindings: as long as a class belongs to one registration, each native method
\* that ART would call leads to that method's implementation, at every stage of
\* registering and disposing, and all of them do while the handle is live; and a call
\* that has entered by a thunk finds the binding its thunk had unless that registration
\* is over, whatever is registered and disposed of meanwhile.  A live class whose name
\* was given once is the one FindGeneratedClass returns.
NativesBound ==
    /\ \A c \in 1..Len(regs) : \A m \in Meth :
          Registrations(c) = {c} /\ (natives[c][m] # NoThunk \/ (regs[c].live /\ m \in regs[c].meths))
             => natives[c][m] \in ThunkSlot /\ bindings[natives[c][m]] = [reg |-> c, meth |-> m]
    /\ \A t \in RegThr : \A i \in 1..Len(nativeCalls[t]) :
          nativeCalls[t][i].at = "thunk" /\ nativeCalls[t][i].via # NoImpl =>
             \/ bindings[nativeCalls[t][i].slot] = nativeCalls[t][i].via
             \/ Over(nativeCalls[t][i].via.reg)
    /\ \A i \in 1..Len(regs) :
          regs[i].live /\ (\A j \in 1..Len(regs) : regs[j].name = regs[i].name => j = i)
             => generated[regs[i].name] = regs[i].cls
=============================================================================
