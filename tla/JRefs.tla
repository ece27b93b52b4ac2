------------------------------- MODULE JRefs --------------------------------
(***************************************************************************)
(* The table of Java references that scripts hold by number (g_jrefs of    *)
(* agent_java_ref.cpp), the ring of observed objects beside it, and the    *)
(* hook callbacks that cut the table back to the size it had when they     *)
(* began (agent_java_hook.cpp).                                            *)
(*                                                                         *)
(* A script runs under g_jsMutex: an evaluation on the thread Repl, or a   *)
(* callback of a hooked method on a thread of the application.  Cutting    *)
(* the table back is not done under g_jsMutex, and observing an object for *)
(* a log line is not either.  Objects have a heap address that the         *)
(* collector may change; the table and the ring remember the address at    *)
(* which an object was first seen.  A Java call made by a callback's own   *)
(* script reaches methods that are not hooked (the lock it would otherwise *)
(* take twice is the subject of AgentDebug).                               *)
(***************************************************************************)
EXTENDS Integers, Sequences, FiniteSets

CONSTANTS
    JavaThr,    \* application threads, on which hooked methods are called
    Repl,       \* the thread that evaluates commands
    NoThr,
    Obj,        \* Java objects
    NoObj,
    HeapAddr,   \* heap addresses, at least one more than objects
    MaxTable,   \* bound on the length of g_jrefs
    MaxNest,    \* bound on the callbacks a thread is in
    RingCap     \* capacity of the ring of observed objects (512 in the code)

Thr == JavaThr \cup {Repl}

\* JNI global references.  Those made for the table and those made for the ring
\* are never the same, so each takes the lowest free one of its own range.
TableRef == 1..MaxTable
RingRef == MaxTable+1 .. MaxTable+RingCap+1
Ref == 1 .. MaxTable+RingCap+1
NoRef == 0

ASSUME JRefsAssumption ==
    /\ Repl \notin JavaThr /\ NoThr \notin JavaThr \cup {Repl}
    /\ NoObj \notin Obj
    /\ MaxTable \in Nat /\ MaxNest \in Nat /\ RingCap \in Nat \ {0}

VARIABLES
    addr,       \* heap address of each object
    ref,        \* what each global reference refers to, NoObj when it is free
    jrefs,      \* g_jrefs: reference and originalAddr, every entry isGlobal
    ring,       \* g_observedQueue
    seen,       \* g_observedObjects: address to reference, NoRef for none
    js,         \* holder of g_jsMutex
    asleep,     \* scripts inside sleep(), which gives the lock away
    calls,      \* the callbacks each thread is in: jrefBase and where it stands
    use,        \* handle and reference of the JNI call a script is making
    handle      \* one handle that a script was given and keeps: its number, its
                \* object, and whether it was given while no callback was in progress

jrefsVars == <<addr, ref, jrefs, ring, seen, js, asleep, calls, use, handle>>

Pc == {"enter", "enterJs", "orig", "leaveJs", "done"}
NoUse  == [h |-> 0, ref |-> NoRef]
NoHandle == [h |-> 0, obj |-> NoObj, quiet |-> FALSE]

JRefsInit ==
    /\ addr \in [Obj -> HeapAddr]
    /\ \A o, p \in Obj : addr[o] = addr[p] => o = p
    /\ ref = [r \in Ref |-> NoObj]
    /\ jrefs = << >> /\ ring = << >>
    /\ seen = [a \in HeapAddr |-> NoRef]
    /\ js = NoThr /\ asleep = {}
    /\ calls = [t \in Thr |-> << >>]
    /\ use = NoUse
    /\ handle = NoHandle

\* NewGlobalRef.
Lowest(S) == CHOOSE i \in S : \A j \in S : i <= j
NewRef(range) == Lowest({r \in range : ref[r] = NoObj})

Top(t) == calls[t][Len(calls[t])]
Stands(t) == IF calls[t] = << >> THEN "out" ELSE Top(t).pc
SetPc(t, pc) == [calls EXCEPT ![t][Len(calls[t])].pc = pc]
InFlight == \E t \in Thr : calls[t] # << >>

\* A script that is running: it holds the lock and is between two API calls.
Script(t) == js = t /\ use = NoUse

----------------------------------------------------------------------------
(* The ring of observed objects *)

\* DoRegisterObservedObject on references rf: an address already seen keeps
\* the object it was seen with; a full ring gives up its oldest reference.
Evict(q) == IF Len(q) >= RingCap THEN Tail(q) ELSE q
\* Mutant: the reference of the entry given up is not deleted.
EvictedKept(q) == {}
Evicted(q) == IF Len(q) >= RingCap THEN {q[1]} ELSE {}
Observed(o, a) ==
    IF seen[a] # NoRef
    THEN [ref |-> ref, ring |-> ring, seen |-> seen]
    ELSE LET old == Evicted(ring)
             gone == {e.ref : e \in old}
             new == NewRef(RingRef)
         IN  [ref  |-> [r \in Ref |-> IF r = new THEN o
                                      ELSE IF r \in gone THEN NoObj ELSE ref[r]],
              ring |-> Append(Evict(ring), [addr |-> a, ref |-> new]),
              seen |-> [x \in HeapAddr |-> IF x = a THEN new
                                           ELSE IF \E e \in old : e.addr = x
                                                THEN NoRef ELSE seen[x]]]

\* A trace line or a hook's log line names an object.
Observe(o) ==
    LET s == Observed(o, addr[o])
    IN  /\ seen[addr[o]] = NoRef
        /\ ref' = s.ref /\ ring' = s.ring /\ seen' = s.seen
        /\ UNCHANGED <<addr, jrefs, js, asleep, calls, use, handle>>

\* External: the collector moves an object to an address no object has.
Relocate(o, a) ==
    /\ \A p \in Obj : addr[p] # a
    /\ addr' = [addr EXCEPT ![o] = a]
    /\ UNCHANGED <<ref, jrefs, ring, seen, js, asleep, calls, use, handle>>

----------------------------------------------------------------------------
(* The table *)

Entry(a) == {i \in 1..Len(jrefs) : jrefs[i].addr = a}

\* AddJRef with references rf: the first entry made for the address, whatever
\* object it holds, else a new global reference at the end.
Added(rf, o, a) ==
    IF Entry(a) # {}
    THEN [ref |-> rf, jrefs |-> jrefs, h |-> Lowest(Entry(a))]
    ELSE LET r == NewRef(TableRef)
         IN  [ref |-> [rf EXCEPT ![r] = o],
              jrefs |-> Append(jrefs, [ref |-> r, addr |-> a]),
              h |-> Len(jrefs) + 1]

Room(a) == Len(jrefs) < MaxTable \/ Entry(a) # {}

\* The script gets a handle to the object its entry holds.  Any one handle
\* may be the one that is followed.
Give(s) ==
    \/ handle' = handle
    \/ /\ handle = NoHandle
       /\ handle' = [h |-> s.h, obj |-> s.ref[s.jrefs[s.h].ref], quiet |-> ~InFlight]

\* JavaObjectToJsValue, and the heap search and view lookups that do the same:
\* the object is observed and entered under the address it has.  The two are
\* critical sections of g_observedMutex and g_jrefMutex; what others do in between,
\* a move of the object included, commutes with the second, which touches only the
\* table and its references.  NewGlobalRef of a live object does not fail: ART
\* aborts when its table of global references is full.
Wrap(t, o) ==
    LET a == addr[o]
        v == Observed(o, a)
        s == Added(v.ref, o, a)
    IN  /\ Script(t) /\ Room(a)
        /\ ref' = s.ref /\ ring' = v.ring /\ seen' = v.seen
        /\ jrefs' = s.jrefs
        /\ Give(s)
        /\ UNCHANGED <<addr, js, asleep, calls, use>>

\* artobject(a): the object observed at the address, else the one that is there.
\* Addresses of no object, which end up in NewLocalRef as they are, are left out.
At(a) == {o \in Obj : addr[o] = a}
ArtObject(t, a) ==
    /\ Script(t) /\ Room(a)
    /\ seen[a] # NoRef \/ At(a) # {}
    /\ LET o == IF seen[a] # NoRef THEN ref[seen[a]] ELSE CHOOSE p \in At(a) : TRUE
           s == Added(ref, o, a)
       IN  /\ ref' = s.ref /\ jrefs' = s.jrefs
           /\ Give(s)
    /\ UNCHANGED <<addr, ring, seen, js, asleep, calls, use>>

\* A method call, field access or array access: GetJRef(h), and later the JNI
\* call on the reference it returned.  A number past the table gives undefined.
GetJRef(h) == IF h \in 1..Len(jrefs) THEN jrefs[h].ref ELSE NoRef
UseBegin(t, h) ==
    /\ Script(t) /\ GetJRef(h) # NoRef
    /\ use' = [h |-> h, ref |-> GetJRef(h)]
    /\ UNCHANGED <<addr, ref, jrefs, ring, seen, js, asleep, calls, handle>>

UseEnd(t) ==
    /\ js = t /\ use # NoUse
    /\ t = Repl => calls[t] = << >>
    /\ use' = NoUse
    /\ UNCHANGED <<addr, ref, jrefs, ring, seen, js, asleep, calls, handle>>

\* PopJRefsTo(base): every entry above base goes, whoever made it.
Popped(base) == IF Len(jrefs) > base THEN SubSeq(jrefs, 1, base) ELSE jrefs
Dropped(base) == {jrefs[i].ref : i \in {j \in 1..Len(jrefs) : j > base}}
\* Mutant: the loop runs while the table has at least base entries.
PopJRefsBelow(base) ==
    /\ jrefs' = Popped(IF base = 0 THEN 0 ELSE base - 1)
    /\ ref' = [r \in Ref |-> IF r \in Dropped(IF base = 0 THEN 0 ELSE base - 1)
                             THEN NoObj ELSE ref[r]]
PopJRefsTo(base) ==
    /\ jrefs' = Popped(base)
    /\ ref' = [r \in Ref |-> IF r \in Dropped(base) THEN NoObj ELSE ref[r]]

----------------------------------------------------------------------------
(* Evaluations and callbacks *)

EvalBegin ==
    /\ js = NoThr /\ Repl \notin asleep
    /\ js' = Repl
    /\ UNCHANGED <<addr, ref, jrefs, ring, seen, asleep, calls, use, handle>>

EvalEnd ==
    /\ Script(Repl)
    /\ js' = NoThr
    /\ UNCHANGED <<addr, ref, jrefs, ring, seen, asleep, calls, use, handle>>

\* sleep() in a script: the lock is given away and taken again.
Sleep(t) ==
    /\ Script(t)
    /\ js' = NoThr /\ asleep' = asleep \cup {t}
    /\ UNCHANGED <<addr, ref, jrefs, ring, seen, calls, use, handle>>

Wake(t) ==
    /\ t \in asleep /\ js = NoThr
    /\ js' = t /\ asleep' = asleep \ {t}
    /\ UNCHANGED <<addr, ref, jrefs, ring, seen, calls, use, handle>>

\* A hooked method is called: by the application, by the original of a hooked
\* method, or by a Java call of an evaluation, which then skips the script.
\* Mutant: jrefBase is the handle the next entry would get.
PushPast(t, pc) ==
    /\ Len(calls[t]) < MaxNest
    /\ calls' = [calls EXCEPT ![t] = Append(@, [base |-> Len(jrefs) + 1, pc |-> pc])]
    /\ UNCHANGED <<addr, ref, jrefs, ring, seen, js, asleep, use, handle>>
Push(t, pc) ==
    /\ Len(calls[t]) < MaxNest
    /\ calls' = [calls EXCEPT ![t] = Append(@, [base |-> Len(jrefs), pc |-> pc])]
    /\ UNCHANGED <<addr, ref, jrefs, ring, seen, js, asleep, use, handle>>

Called(t) ==
    /\ t \in JavaThr
    /\ Stands(t) \in {"out", "orig"}
    /\ Push(t, "enter")

Reentered ==
    /\ js = Repl /\ use # NoUse
    /\ Stands(Repl) \in {"out", "orig"}
    /\ Push(Repl, "orig")

\* The callback's script: before the original, and after it for onLeave.
LockJs(t) ==
    /\ t \in JavaThr /\ js = NoThr
    /\ Stands(t) \in {"enter", "orig"}
    /\ js' = t
    /\ calls' = SetPc(t, IF Stands(t) = "enter" THEN "enterJs" ELSE "leaveJs")
    /\ UNCHANGED <<addr, ref, jrefs, ring, seen, asleep, use, handle>>

\* A script that set the result is not followed by the original.
UnlockJs(t, next) ==
    /\ t \in JavaThr /\ Script(t)
    /\ Stands(t) = "leaveJs" => next = "done"
    /\ js' = NoThr
    /\ calls' = SetPc(t, next)
    /\ UNCHANGED <<addr, ref, jrefs, ring, seen, asleep, use, handle>>

\* There is no onEnter.
SkipEnter(t) ==
    /\ Stands(t) = "enter"
    /\ calls' = SetPc(t, "orig")
    /\ UNCHANGED <<addr, ref, jrefs, ring, seen, js, asleep, use, handle>>

\* The end of the callback, after the original or after the last script.
Return(t) ==
    /\ Stands(t) \in {"orig", "done"}
    /\ PopJRefsTo(Top(t).base)
    /\ calls' = [calls EXCEPT ![t] = SubSeq(@, 1, Len(@) - 1)]
    /\ UNCHANGED <<addr, ring, seen, js, asleep, use, handle>>

JRefsNext ==
    \/ \E o \in Obj : Observe(o)
    \/ \E o \in Obj, a \in HeapAddr : Relocate(o, a)
    \/ \E t \in Thr, o \in Obj : Wrap(t, o)
    \/ \E t \in Thr, a \in HeapAddr : ArtObject(t, a)
    \/ \E t \in Thr, h \in 1..MaxTable : UseBegin(t, h)
    \/ \E t \in Thr : UseEnd(t)
    \/ EvalBegin \/ EvalEnd
    \/ \E t \in Thr : Sleep(t) \/ Wake(t)
    \/ \E t \in Thr : Called(t)
    \/ Reentered
    \/ \E t \in Thr : LockJs(t)
    \/ \E t \in Thr, next \in {"orig", "done"} : UnlockJs(t, next)
    \/ \E t \in Thr : SkipEnter(t)
    \/ \E t \in Thr : Return(t)

JRefsSpec == JRefsInit /\ [][JRefsNext]_jrefsVars

----------------------------------------------------------------------------
JRefsTypeOK ==
    /\ addr \in [Obj -> HeapAddr]
    /\ ref \in [Ref -> Obj \cup {NoObj}]
    /\ jrefs \in Seq([ref : Ref, addr : HeapAddr]) /\ Len(jrefs) <= MaxTable
    /\ ring \in Seq([ref : Ref, addr : HeapAddr])
    /\ seen \in [HeapAddr -> Ref \cup {NoRef}]
    /\ js \in Thr \cup {NoThr} /\ asleep \subseteq Thr
    /\ calls \in [Thr -> Seq([base : 0..MaxTable, pc : Pc])]
    /\ use \in [h : 0..MaxTable, ref : Ref \cup {NoRef}]
    /\ handle \in [h : 0..MaxTable, obj : Obj \cup {NoObj}, quiet : BOOLEAN]

\* A handle made while no callback was in progress names its object for good,
\* whatever callbacks begin, nest, overlap and end on whatever threads later
\* (AddJRef, PopJRefsTo and the jrefBase each callback takes); and a JNI call on
\* it is made on a reference that still refers to the object, although callbacks
\* cut the table back while the call is prepared.
QuietHandles ==
    handle.quiet =>
        /\ handle.h <= Len(jrefs)
        /\ ref[jrefs[handle.h].ref] = handle.obj
        /\ use.h = handle.h => ref[use.ref] = handle.obj

\* Every global reference is held by exactly one entry of the table or of the
\* ring, so none leaks and none is deleted twice; and the ring, its index by
\* address and its capacity agree.
RefsAccounted ==
    LET held == [i \in 1..(Len(jrefs) + Len(ring)) |->
                    IF i <= Len(jrefs) THEN jrefs[i].ref
                                       ELSE ring[i - Len(jrefs)].ref]
    IN  /\ {held[i] : i \in DOMAIN held} = {r \in Ref : ref[r] # NoObj}
        /\ \A i, j \in DOMAIN held : held[i] = held[j] => i = j
        /\ Len(ring) <= RingCap
        /\ \A a \in HeapAddr : \A r \in Ref :
               seen[a] = r <=> \E i \in 1..Len(ring) : ring[i] = [addr |-> a, ref |-> r]
=============================================================================
