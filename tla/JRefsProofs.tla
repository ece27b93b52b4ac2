---------------------------- MODULE JRefsProofs -----------------------------
(***************************************************************************)
(* Handles keep their objects and global references are accounted for, for *)
(* any number of threads, objects, addresses, entries and callbacks; and   *)
(* the composition of the tools, of which each has its theorems here, in   *)
(* InterpProofs or in ToolsProofs.                                         *)
(***************************************************************************)
EXTENDS MCTools, ToolsProofs, InterpProofs, FiniteSetTheorems, SequenceTheorems,
        WellFoundedInduction, TLAPS

Entries == [ref : Ref, addr : HeapAddr]
RefObjects == [Ref -> Obj \cup {NoObj}]
Call == [base : 0..MaxTable, pc : Pc]

\* The table tb holds the references of its range, each once.
TableOK(rf, tb) ==
    /\ \A i \in 1..Len(tb) : tb[i].ref \in TableRef /\ rf[tb[i].ref] # NoObj
    /\ \A i, j \in 1..Len(tb) : tb[i].ref = tb[j].ref => i = j
    /\ \A r \in TableRef : rf[r] # NoObj => \E i \in 1..Len(tb) : tb[i].ref = r

\* The ring rg holds those of its own range, each once.
RingOK(rf, rg) ==
    /\ Len(rg) <= RingCap
    /\ \A i \in 1..Len(rg) : rg[i].ref \in RingRef /\ rf[rg[i].ref] # NoObj
    /\ \A i, j \in 1..Len(rg) : rg[i].ref = rg[j].ref => i = j
    /\ \A r \in RingRef : rf[r] # NoObj => \E i \in 1..Len(rg) : rg[i].ref = r

\* The index sn leads to the ring's entries.
SeenOK(rg, sn) ==
    /\ \A i \in 1..Len(rg) : sn[rg[i].addr] = rg[i].ref
    /\ \A a \in HeapAddr : sn[a] # NoRef => \E i \in 1..Len(rg) : rg[i].addr = a

\* A handle that was given while no callback was in progress: no callback will cut the
\* table back below it.
HandleInv ==
    handle.quiet =>
        /\ handle.h \in 1..Len(jrefs)
        /\ ref[jrefs[handle.h].ref] = handle.obj
        /\ use.h = handle.h => use.ref = jrefs[handle.h].ref
        /\ \A t \in Thr : \A i \in 1..Len(calls[t]) : calls[t][i].base >= handle.h

RefInv == JRefsTypeOK /\ TableOK(ref, jrefs) /\ RingOK(ref, ring) /\ SeenOK(ring, seen)
JRefsInv == RefInv /\ HandleInv

-----------------------------------------------------------------------------
(* References.                                                             *)

\* The two ranges share no reference and are all there are.
LEMMA Ranges ==
    /\ MaxTable \in Nat /\ RingCap \in Nat /\ RingCap >= 1
    /\ TableRef \subseteq Ref /\ RingRef \subseteq Ref /\ TableRef \cap RingRef = {}
    /\ Ref = TableRef \cup RingRef
    /\ NoRef \notin Ref /\ Ref \subseteq Nat
<1>1. MaxTable \in Nat /\ RingCap \in Nat /\ RingCap >= 1
  BY JRefsAssumption
<1> QED BY <1>1 DEF TableRef, RingRef, Ref, NoRef

\* A list shorter than a range of references does not use the range up.
LEMMA Unheld ==
    ASSUME NEW a \in Nat, NEW b \in Nat, NEW s \in Seq(Entries), Len(s) < b - a + 1
    PROVE  \E r \in a..b : \A i \in 1..Len(s) : s[i].ref # r
<1> DEFINE k == Len(s)
<1>0. k \in Nat /\ k < b - a + 1
  OBVIOUS
<1> HIDE DEF k
<1> SUFFICES ASSUME \A r \in a..b : \E i \in 1..k : s[i].ref = r PROVE FALSE
  BY DEF k
<1> DEFINE g == [r \in a..b |-> CHOOSE i \in 1..k : s[i].ref = r]
<1>1. \A r \in a..b : g[r] \in 1..k /\ s[g[r]].ref = r
  OBVIOUS
<1>2. g \in [a..b -> 1..k]
  BY <1>1
<1>3. IsFiniteSet(1..k) /\ Cardinality(1..k) = k
  <2>1. 1 \in Int /\ k \in Int /\ (1 > k => k = 0) /\ k - 1 + 1 = k
    BY <1>0
  <2>2. IsFiniteSet(1..k) /\ Cardinality(1..k) = IF 1 > k THEN 0 ELSE k - 1 + 1
    BY <2>1, FS_Interval
  <2> QED BY <2>1, <2>2
<1>4. IsFiniteSet(a..b) /\ Cardinality(a..b) = b - a + 1
  <2>1. a \in Int /\ b \in Int /\ ~(a > b)
    BY <1>0
  <2> QED BY <2>1, FS_Interval
<1> DEFINE S == a..b
           T == 1..k
<1>5. /\ IsFiniteSet(S) /\ IsFiniteSet(T) /\ Cardinality(T) < Cardinality(S) /\ g \in [S -> T]
  BY <1>0, <1>2, <1>3, <1>4
<1>6. \A x, y \in S : g[x] = g[y] => x = y
  BY <1>1
<1> HIDE DEF g, S, T
<1>7. PICK x, y \in S : x # y /\ g[x] = g[y]
  BY <1>5, FS_PigeonHole
<1> QED BY <1>6, <1>7

\* The lowest of a set of numbers that has one.
LEMMA LowestOf ==
    ASSUME NEW S, S \subseteq Nat, S # {}
    PROVE  Lowest(S) \in S
<1> DEFINE R == OpToRel(<, Nat)
<1>1. \A x, y \in Nat : x < y => <<x, y>> \in R
  BY DEF OpToRel
<1>2. IsWellFoundedOn(R, Nat)
  BY NatLessThanWellFounded
<1> HIDE DEF R
<1>3. PICK x \in S : \A y \in S : ~(<<y, x>> \in R)
  BY <1>2, WFMin
<1>4. \A y \in S : x <= y
  <2> SUFFICES ASSUME NEW y \in S PROVE x <= y
    OBVIOUS
  <2>1. x \in Nat /\ y \in Nat /\ ~(y < x)
    BY <1>1, <1>3
  <2> QED BY <2>1
<1> QED BY <1>4 DEF Lowest

\* An entry of the table or of the ring.
LEMMA EntryFields ==
    ASSUME NEW s \in Seq(Entries), NEW i \in 1..Len(s)
    PROVE  s[i] \in Entries /\ s[i].ref \in Ref /\ s[i].addr \in HeapAddr /\ Len(s) \in Nat
<1>1. s[i] \in Entries /\ Len(s) \in Nat
  OBVIOUS
<1> QED BY <1>1 DEF Entries

\* The types, with the sets by name.
LEMMA RefTypes ==
    ASSUME JRefsTypeOK
    PROVE  /\ addr \in [Obj -> HeapAddr] /\ ref \in RefObjects
           /\ jrefs \in Seq(Entries) /\ Len(jrefs) <= MaxTable /\ Len(jrefs) \in Nat
           /\ ring \in Seq(Entries) /\ Len(ring) \in Nat
           /\ seen \in [HeapAddr -> Ref \cup {NoRef}]
           /\ js \in Thr \cup {NoThr} /\ asleep \subseteq Thr
           /\ calls \in [Thr -> Seq(Call)]
<1>1. jrefs \in Seq(Entries) /\ ring \in Seq(Entries)
  BY DEF JRefsTypeOK, Entries
<1>2. Len(jrefs) \in Nat /\ Len(ring) \in Nat
  BY <1>1
<1>3. Len(jrefs) <= MaxTable
  BY DEF JRefsTypeOK
<1>4. calls \in [Thr -> Seq(Call)]
  BY DEF JRefsTypeOK, Call
<1>5. /\ addr \in [Obj -> HeapAddr] /\ ref \in RefObjects /\ seen \in [HeapAddr -> Ref \cup {NoRef}]
      /\ js \in Thr \cup {NoThr} /\ asleep \subseteq Thr
  BY DEF JRefsTypeOK, RefObjects
<1> QED BY <1>1, <1>2, <1>3, <1>4, <1>5

\* A table with room has a reference of its range left.
LEMMA FreeTable ==
    ASSUME RefInv, Len(jrefs) < MaxTable
    PROVE  NewRef(TableRef) \in TableRef /\ ref[NewRef(TableRef)] = NoObj
<1> DEFINE a == 1
           b == MaxTable
<1>1. jrefs \in Seq(Entries) /\ a \in Nat /\ b \in Nat /\ Len(jrefs) < b - a + 1
  BY RefTypes, Ranges DEF RefInv
<1> HIDE DEF a, b
<1>2. PICK r \in a..b : \A i \in 1..Len(jrefs) : jrefs[i].ref # r
  BY <1>1, Unheld
<1>3. r \in TableRef /\ ref[r] = NoObj
  BY <1>2 DEF RefInv, TableOK, TableRef, a, b
<1>4. Lowest({x \in TableRef : ref[x] = NoObj}) \in {x \in TableRef : ref[x] = NoObj}
  BY <1>3, Ranges, LowestOf
<1> QED BY <1>4 DEF NewRef

\* The ring always has one.
LEMMA FreeRing ==
    ASSUME RefInv
    PROVE  NewRef(RingRef) \in RingRef /\ ref[NewRef(RingRef)] = NoObj
<1> DEFINE a == MaxTable + 1
           b == MaxTable + RingCap + 1
<1>1. ring \in Seq(Entries) /\ a \in Nat /\ b \in Nat /\ Len(ring) < b - a + 1
  BY RefTypes, Ranges DEF RefInv, RingOK
<1> HIDE DEF a, b
<1>2. PICK r \in a..b : \A i \in 1..Len(ring) : ring[i].ref # r
  BY <1>1, Unheld
<1>3. r \in RingRef /\ ref[r] = NoObj
  BY <1>2 DEF RefInv, RingOK, RingRef, a, b
<1>4. Lowest({x \in RingRef : ref[x] = NoObj}) \in {x \in RingRef : ref[x] = NoObj}
  BY <1>3, Ranges, LowestOf
<1> QED BY <1>4 DEF NewRef

\* Observing an object keeps ring, index and references in agreement and the table's
\* references as they are.
LEMMA ObservedOK ==
    ASSUME RefInv, NEW o \in Obj, NEW a \in HeapAddr, NEW v, v = Observed(o, a)
    PROVE  /\ v.ref \in RefObjects /\ v.ring \in Seq(Entries) /\ v.seen \in [HeapAddr -> Ref \cup {NoRef}]
           /\ RingOK(v.ref, v.ring) /\ SeenOK(v.ring, v.seen)
           /\ \A r \in TableRef : v.ref[r] = ref[r]
<1>0. /\ ref \in RefObjects /\ ring \in Seq(Entries) /\ seen \in [HeapAddr -> Ref \cup {NoRef}]
      /\ Len(ring) \in Nat /\ RingOK(ref, ring) /\ SeenOK(ring, seen)
  BY RefTypes DEF RefInv
<1>1. CASE seen[a] # NoRef
  BY <1>0, <1>1 DEF Observed
<1>2. CASE seen[a] = NoRef
  <2> DEFINE new == NewRef(RingRef)
             old == Evicted(ring)
             gone == {e.ref : e \in old}
             e == [addr |-> a, ref |-> new]
             q == Evict(ring)
             rf == [r \in Ref |-> IF r = new THEN o ELSE IF r \in gone THEN NoObj ELSE ref[r]]
             sn == [x \in HeapAddr |-> IF x = a THEN new
                                       ELSE IF \E f \in old : f.addr = x THEN NoRef ELSE seen[x]]
             rg == Append(q, e)
  <2>1. v = [ref |-> rf, ring |-> rg, seen |-> sn]
    BY <1>2 DEF Observed
  <2>2. v.ref = rf /\ v.ring = rg /\ v.seen = sn
    BY <2>1
  <2>3. new \in RingRef /\ ref[new] = NoObj /\ new \in Ref
    BY FreeRing, Ranges
  <2>4. e \in Entries /\ e.addr = a /\ e.ref = new
    BY <2>3 DEF Entries
  <2>5. rf \in RefObjects /\ \A r \in Ref : rf[r] = IF r = new THEN o ELSE IF r \in gone THEN NoObj ELSE ref[r]
    BY <1>0 DEF RefObjects
  <2>6. /\ sn \in [HeapAddr -> Ref \cup {NoRef}]
        /\ \A x \in HeapAddr : sn[x] = IF x = a THEN new
                                       ELSE IF \E f \in old : f.addr = x THEN NoRef ELSE seen[x]
    BY <1>0, <2>3
  \* the ring without what it gives up: c is the number of entries given up
  <2>7. PICK c \in {0, 1} :
          /\ q \in Seq(Entries) /\ Len(q) = Len(ring) - c /\ Len(q) + 1 <= RingCap /\ Len(q) \in Nat
          /\ \A i \in 1..Len(q) : i + c \in 1..Len(ring) /\ q[i] = ring[i + c]
          /\ old = {ring[j] : j \in 1..c} /\ c <= Len(ring)
    <3>1. CASE Len(ring) >= RingCap
      <4>1. q = Tail(ring) /\ old = {ring[1]}
        BY <3>1 DEF Evict, Evicted
      <4>2. Len(ring) >= 1 /\ ring # << >>
        BY <1>0, <3>1, Ranges
      <4>3. /\ q \in Seq(Entries) /\ Len(q) = Len(ring) - 1
            /\ \A i \in 1..Len(q) : i + 1 \in 1..Len(ring) /\ q[i] = ring[i + 1]
        BY <1>0, <4>1, <4>2
      <4>4. Len(q) + 1 <= RingCap /\ Len(q) \in Nat
        BY <1>0, <4>2, <4>3, Ranges DEF RingOK
      <4>5. old = {ring[j] : j \in 1..1}
        BY <4>1
      <4> QED BY <4>2, <4>3, <4>4, <4>5
    <3>2. CASE ~(Len(ring) >= RingCap)
      <4>1. q = ring /\ old = {}
        BY <3>2 DEF Evict, Evicted
      <4>2. Len(q) + 1 <= RingCap
        BY <1>0, <3>2, <4>1, Ranges
      <4>3. old = {ring[j] : j \in 1..0}
        BY <4>1
      <4> QED BY <1>0, <4>1, <4>2, <4>3
    <3> QED BY <3>1, <3>2
  <2>8. /\ rg \in Seq(Entries) /\ Len(rg) = Len(q) + 1 /\ rg[Len(q) + 1] = e
        /\ \A i \in 1..Len(q) : rg[i] = q[i]
    BY <2>4, <2>7
  <2> DEFINE m == Len(q)
  <2>9. /\ m \in Nat /\ Len(rg) = m + 1 /\ rg[m + 1] = e /\ m + 1 <= RingCap /\ m = Len(ring) - c
        /\ \A i \in 1..m : i + c \in 1..Len(ring) /\ rg[i] = ring[i + c]
        /\ 1..(m + 1) = 1..m \cup {m + 1}
    BY <2>7, <2>8
  <2>10. \A j \in 1..c : j \in 1..Len(ring)
    BY <1>0, <2>7
  <2>11. gone = {ring[j].ref : j \in 1..c}
    BY <2>7
  <2>12. \A i \in 1..Len(ring) : /\ ring[i].ref \in RingRef /\ ring[i].ref \in Ref /\ ref[ring[i].ref] # NoObj
                                /\ ring[i].addr \in HeapAddr /\ seen[ring[i].addr] = ring[i].ref
                                /\ ring[i].ref # new /\ ring[i].ref # NoRef /\ ring[i].addr # a
    BY <1>0, <1>2, <2>3, EntryFields, Ranges DEF RingOK, SeenOK
  <2> HIDE DEF new, old, gone, e, q, rf, sn, rg, m
  \* an entry that stays is not the one that goes
  <2>13. \A i \in 1..m : /\ rg[i].ref \in RingRef /\ rg[i].ref \in Ref /\ rg[i].ref # new
                         /\ rg[i].ref \notin gone /\ ref[rg[i].ref] # NoObj
    <3> SUFFICES ASSUME NEW i \in 1..m
                 PROVE  /\ rg[i].ref \in RingRef /\ rg[i].ref \in Ref /\ rg[i].ref # new
                        /\ rg[i].ref \notin gone /\ ref[rg[i].ref] # NoObj
      OBVIOUS
    <3>1. i + c \in 1..Len(ring) /\ rg[i] = ring[i + c]
      BY <2>9
    <3>2. ASSUME NEW j \in 1..c, ring[i + c].ref = ring[j].ref PROVE FALSE
      <4>1. i + c = j
        BY <1>0, <2>10, <3>1, <3>2 DEF RingOK
      <4> QED BY <2>7, <2>9, <4>1
    <3> QED BY <2>11, <2>12, <3>1, <3>2
  <2>14. RingOK(rf, rg)
    <3>1. Len(rg) <= RingCap
      BY <2>9
    <3>2. \A i \in 1..(m + 1) : rg[i].ref \in RingRef /\ rf[rg[i].ref] # NoObj
      <4>1. \A i \in 1..m : rf[rg[i].ref] = ref[rg[i].ref]
        BY <2>5, <2>13
      <4>2. rf[new] = o /\ o # NoObj
        BY <2>3, <2>5, JRefsAssumption
      <4> QED BY <2>3, <2>4, <2>9, <2>13, <4>1, <4>2
    <3>3. \A i, j \in 1..(m + 1) : rg[i].ref = rg[j].ref => i = j
      <4>1. ASSUME NEW i \in 1..m, NEW j \in 1..m, rg[i].ref = rg[j].ref PROVE i = j
        <5>1. i + c = j + c
          BY <1>0, <2>9, <4>1 DEF RingOK
        <5> QED BY <2>7, <2>9, <5>1
      <4>2. \A i \in 1..m : rg[i].ref # rg[m + 1].ref
        BY <2>4, <2>9, <2>13
      <4>3. \A i \in 1..(m + 1) : i \in 1..m \/ i = m + 1
        BY <2>9
      <4> QED BY <4>1, <4>2, <4>3
    <3>4. ASSUME NEW r \in RingRef, rf[r] # NoObj PROVE \E i \in 1..(m + 1) : rg[i].ref = r
      <4>1. CASE r = new
        BY <2>4, <2>9, <4>1
      <4>2. CASE r # new
        <5>1. r \notin gone /\ ref[r] # NoObj
          BY <2>5, <3>4, <4>2, Ranges
        <5>2. PICK k \in 1..Len(ring) : ring[k].ref = r
          BY <1>0, <5>1 DEF RingOK
        <5>3. k \notin 1..c
          BY <2>11, <5>1, <5>2
        <5>4. k - c \in 1..m
          BY <1>0, <2>7, <2>9, <5>3
        <5>5. rg[k - c] = ring[(k - c) + c] /\ (k - c) + c = k
          BY <2>7, <2>9, <5>4
        <5> QED BY <2>9, <5>2, <5>4, <5>5
      <4> QED BY <4>1, <4>2
    <3> QED BY <2>9, <3>1, <3>2, <3>3, <3>4 DEF RingOK
  <2>15. SeenOK(rg, sn)
    <3>0. \A f \in old : \E j \in 1..c : f = ring[j]
      BY <2>7 DEF old
    <3>1. ASSUME NEW i \in 1..m PROVE sn[rg[i].addr] = rg[i].ref
      <4>1. i + c \in 1..Len(ring) /\ rg[i] = ring[i + c]
        BY <2>9
      <4>2. rg[i].addr \in HeapAddr /\ rg[i].addr # a /\ seen[rg[i].addr] = rg[i].ref
        BY <2>12, <4>1
      <4>3. ASSUME NEW f \in old, f.addr = rg[i].addr PROVE FALSE
        <5>1. PICK j \in 1..c : f = ring[j]
          BY <3>0, <4>3
        <5>2. ring[j].ref = rg[i].ref
          BY <2>10, <2>12, <4>2, <4>3, <5>1
        <5>3. ring[j].ref \in gone
          BY <2>11
        <5> QED BY <2>13, <5>2, <5>3
      <4> QED BY <2>6, <4>2, <4>3
    <3>2. sn[a] = new
      BY <2>6
    <3>3. \A i \in 1..(m + 1) : sn[rg[i].addr] = rg[i].ref
      BY <2>4, <2>9, <3>1, <3>2
    <3>4. ASSUME NEW x \in HeapAddr, sn[x] # NoRef PROVE \E i \in 1..(m + 1) : rg[i].addr = x
      <4>1. CASE x = a
        BY <2>4, <2>9, <4>1
      <4>2. CASE x # a
        <5>1. seen[x] # NoRef /\ \A f \in old : f.addr # x
          BY <2>6, <3>4, <4>2
        <5>2. PICK k \in 1..Len(ring) : ring[k].addr = x
          BY <1>0, <5>1 DEF SeenOK
        <5>3. \A j \in 1..c : ring[j] \in old
          BY <2>7 DEF old
        <5>4. k \notin 1..c
          BY <5>1, <5>2, <5>3
        <5>5. k - c \in 1..m
          BY <1>0, <2>7, <2>9, <5>4
        <5>6. rg[k - c] = ring[(k - c) + c] /\ (k - c) + c = k
          BY <2>7, <2>9, <5>5
        <5> QED BY <2>9, <5>2, <5>5, <5>6
      <4> QED BY <4>1, <4>2
    <3> QED BY <2>9, <3>3, <3>4 DEF SeenOK
  <2>16. \A r \in TableRef : rf[r] = ref[r]
    <3> SUFFICES ASSUME NEW r \in TableRef PROVE r \in Ref /\ r # new /\ r \notin gone
      BY <2>5
    <3>1. r \in Ref /\ r \notin RingRef
      BY Ranges
    <3> QED BY <2>3, <2>10, <2>11, <2>12, <3>1
  <2> QED BY <2>2, <2>5, <2>6, <2>8, <2>14, <2>15, <2>16
<1> QED BY <1>1, <1>2

\* Entering an object keeps the table and its references in agreement, the ring's
\* references as they are, and every entry there was.
LEMMA AddedOK ==
    ASSUME RefInv, NEW rf \in RefObjects, \A r \in TableRef : rf[r] = ref[r],
           NEW o \in Obj, NEW a \in HeapAddr, Room(a), NEW s, s = Added(rf, o, a)
    PROVE  /\ s.ref \in RefObjects /\ s.jrefs \in Seq(Entries) /\ Len(s.jrefs) <= MaxTable
           /\ TableOK(s.ref, s.jrefs) /\ s.h \in 1..Len(s.jrefs)
           /\ \A r \in RingRef : s.ref[r] = rf[r]
           /\ \A i \in 1..Len(jrefs) : /\ i \in 1..Len(s.jrefs) /\ s.jrefs[i] = jrefs[i]
                                       /\ s.ref[jrefs[i].ref] = ref[jrefs[i].ref]
<1>0. /\ ref \in RefObjects /\ jrefs \in Seq(Entries) /\ Len(jrefs) <= MaxTable /\ Len(jrefs) \in Nat
      /\ TableOK(ref, jrefs)
  BY RefTypes DEF RefInv
<1>1. CASE Entry(a) # {}
  <2>1. s = [ref |-> rf, jrefs |-> jrefs, h |-> Lowest(Entry(a))]
    BY <1>1 DEF Added
  <2>2. s.ref = rf /\ s.jrefs = jrefs /\ s.h = Lowest(Entry(a))
    BY <2>1
  <2>3. Entry(a) \subseteq Nat /\ Entry(a) \subseteq 1..Len(jrefs)
    BY DEF Entry
  <2>4. s.h \in 1..Len(jrefs)
    BY <1>1, <2>2, <2>3, LowestOf
  <2>5. TableOK(rf, jrefs)
    BY <1>0 DEF TableOK
  <2>6. \A i \in 1..Len(jrefs) : rf[jrefs[i].ref] = ref[jrefs[i].ref]
    BY <1>0 DEF TableOK
  <2> QED BY <1>0, <2>2, <2>4, <2>5, <2>6
<1>2. CASE Entry(a) = {}
  <2> DEFINE r == NewRef(TableRef)
             e == [ref |-> r, addr |-> a]
             tb == Append(jrefs, e)
             nf == [rf EXCEPT ![r] = o]
             k == Len(jrefs)
  <2>1. k < MaxTable
    BY <1>2 DEF Room
  <2>2. s.ref = nf /\ s.jrefs = tb /\ s.h = k + 1
    BY <1>2 DEF Added
  <2>3. r \in TableRef /\ ref[r] = NoObj /\ r \in Ref
    BY <2>1, FreeTable, Ranges
  <2>4. e \in Entries /\ e.ref = r
    BY <2>3 DEF Entries
  <2>5. /\ tb \in Seq(Entries) /\ Len(tb) = k + 1 /\ tb[k + 1] = e
        /\ \A i \in 1..k : tb[i] = jrefs[i]
    BY <1>0, <2>4
  <2>6. nf \in RefObjects /\ \A x \in Ref : nf[x] = IF x = r THEN o ELSE rf[x]
    BY <2>3 DEF RefObjects
  <2>7. k \in Nat /\ k + 1 <= MaxTable /\ 1..(k + 1) = 1..k \cup {k + 1}
    BY <1>0, <2>1, Ranges
  <2>8. \A i \in 1..k : /\ jrefs[i].ref \in TableRef /\ jrefs[i].ref \in Ref
                        /\ ref[jrefs[i].ref] # NoObj /\ jrefs[i].ref # r
    BY <1>0, <2>3, Ranges DEF TableOK
  <2>9. \A i \in 1..k : nf[jrefs[i].ref] = ref[jrefs[i].ref]
    BY <2>6, <2>8
  <2>10. o # NoObj
    BY JRefsAssumption
  <2> HIDE DEF r, e, tb, nf, k
  <2>11. TableOK(nf, tb)
    <3>1. \A i \in 1..(k + 1) : tb[i].ref \in TableRef /\ nf[tb[i].ref] # NoObj
      BY <2>3, <2>4, <2>5, <2>6, <2>7, <2>8, <2>9, <2>10
    <3>2. \A i, j \in 1..(k + 1) : tb[i].ref = tb[j].ref => i = j
      <4>1. \A i, j \in 1..k : jrefs[i].ref = jrefs[j].ref => i = j
        BY <1>0 DEF TableOK, k
      <4> QED BY <2>4, <2>5, <2>7, <2>8, <4>1
    <3>3. ASSUME NEW x \in TableRef, nf[x] # NoObj PROVE \E i \in 1..(k + 1) : tb[i].ref = x
      <4>1. CASE x = r
        BY <2>4, <2>5, <2>7, <4>1
      <4>2. CASE x # r
        <5>1. ref[x] # NoObj
          BY <2>6, <3>3, <4>2, Ranges
        <5>2. PICK i \in 1..k : jrefs[i].ref = x
          BY <1>0, <5>1 DEF TableOK, k
        <5> QED BY <2>5, <2>7, <5>2
      <4> QED BY <4>1, <4>2
    <3> QED BY <2>5, <3>1, <3>2, <3>3 DEF TableOK
  <2>12. \A x \in RingRef : nf[x] = rf[x]
    BY <2>3, <2>6, Ranges
  <2>13. k + 1 \in 1..(k + 1)
    BY <2>7
  <2>14. \A i \in 1..k : /\ i \in 1..Len(tb) /\ tb[i] = jrefs[i] /\ nf[jrefs[i].ref] = ref[jrefs[i].ref]
    BY <2>5, <2>7, <2>9
  <2> QED BY <2>2, <2>5, <2>6, <2>7, <2>11, <2>12, <2>13, <2>14 DEF k
<1> QED BY <1>1, <1>2

\* Cutting the table back frees exactly the references of the entries that go.
LEMMA PoppedOK ==
    ASSUME RefInv, NEW base \in Nat, PopJRefsTo(base)
    PROVE  /\ ref' \in RefObjects /\ jrefs' \in Seq(Entries) /\ Len(jrefs') <= Len(jrefs) /\ Len(jrefs') \in Nat
           /\ TableOK(ref', jrefs')
           /\ \A r \in RingRef : ref'[r] = ref[r]
           /\ \A i \in 1..Len(jrefs) : i <= base =>
                 i \in 1..Len(jrefs') /\ jrefs'[i] = jrefs[i] /\ ref'[jrefs[i].ref] = ref[jrefs[i].ref]
<1>0. /\ ref \in RefObjects /\ jrefs \in Seq(Entries) /\ Len(jrefs) <= MaxTable /\ Len(jrefs) \in Nat
      /\ TableOK(ref, jrefs)
  BY RefTypes DEF RefInv
<1>1. PICK k \in Nat : /\ k = (IF Len(jrefs) > base THEN base ELSE Len(jrefs)) /\ k <= Len(jrefs)
                       /\ jrefs' \in Seq(Entries) /\ Len(jrefs') = k
                       /\ \A i \in 1..k : jrefs'[i] = jrefs[i]
  <2>1. CASE Len(jrefs) > base
    <3>1. jrefs' = SubSeq(jrefs, 1, base)
      BY <2>1 DEF PopJRefsTo, Popped
    <3>2. \A i \in 1..Len(jrefs) : jrefs[i] \in Entries
      BY <1>0
    <3>3. jrefs' \in Seq(Entries) /\ Len(jrefs') = base /\ \A i \in 1..base : jrefs'[i] = jrefs[i]
      BY <1>0, <2>1, <3>1, <3>2
    <3> QED BY <1>0, <2>1, <3>3
  <2>2. CASE ~(Len(jrefs) > base)
    BY <1>0, <2>2 DEF PopJRefsTo, Popped
  <2> QED BY <2>1, <2>2
<1>2. /\ ref' \in RefObjects
      /\ \A r \in Ref : ref'[r] = IF r \in Dropped(base) THEN NoObj ELSE ref[r]
  BY <1>0 DEF PopJRefsTo, RefObjects
<1>3. \A r : r \in Dropped(base) <=> \E i \in 1..Len(jrefs) : i > k /\ jrefs[i].ref = r
  BY <1>0, <1>1 DEF Dropped
<1>4. \A i \in 1..Len(jrefs) : /\ jrefs[i].ref \in TableRef /\ jrefs[i].ref \in Ref
                               /\ ref[jrefs[i].ref] # NoObj
  BY <1>0, Ranges DEF TableOK
<1>5. \A i \in 1..k : i \in 1..Len(jrefs) /\ ref'[jrefs[i].ref] = ref[jrefs[i].ref]
  <2> SUFFICES ASSUME NEW i \in 1..k PROVE i \in 1..Len(jrefs) /\ ref'[jrefs[i].ref] = ref[jrefs[i].ref]
    OBVIOUS
  <2>1. i \in 1..Len(jrefs)
    BY <1>0, <1>1
  <2>2. ASSUME NEW j \in 1..Len(jrefs), j > k, jrefs[j].ref = jrefs[i].ref PROVE FALSE
    <3>1. i = j
      BY <1>0, <2>1, <2>2 DEF TableOK
    <3> QED BY <1>1, <2>2, <3>1
  <2> QED BY <1>2, <1>3, <1>4, <2>1, <2>2
<1>6. TableOK(ref', jrefs')
  <2>1. \A i \in 1..k : jrefs'[i].ref \in TableRef /\ ref'[jrefs'[i].ref] # NoObj
    BY <1>1, <1>4, <1>5
  <2>2. \A i, j \in 1..k : jrefs'[i].ref = jrefs'[j].ref => i = j
    BY <1>0, <1>1, <1>5 DEF TableOK
  <2>3. ASSUME NEW r \in TableRef, ref'[r] # NoObj PROVE \E i \in 1..k : jrefs'[i].ref = r
    <3>1. ref[r] # NoObj /\ r \notin Dropped(base)
      BY <1>2, <2>3, Ranges
    <3>2. PICK i \in 1..Len(jrefs) : jrefs[i].ref = r
      BY <1>0, <3>1 DEF TableOK
    <3>3. ~(i > k)
      BY <1>3, <3>1, <3>2
    <3>4. i \in 1..k
      BY <1>0, <1>1, <3>3
    <3> QED BY <1>1, <3>2, <3>4
  <2> QED BY <1>1, <2>1, <2>2, <2>3 DEF TableOK
<1>7. ASSUME NEW r \in RingRef PROVE ref'[r] = ref[r]
  <2>1. r \in Ref /\ r \notin TableRef
    BY Ranges
  <2>2. r \notin Dropped(base)
    BY <1>3, <1>4, <2>1
  <2> QED BY <1>2, <2>1, <2>2
<1>8. \A i \in 1..Len(jrefs) : i <= base => i \in 1..k
  BY <1>0, <1>1
<1> QED BY <1>1, <1>2, <1>5, <1>6, <1>7, <1>8

-----------------------------------------------------------------------------
(* Callbacks.                                                              *)

\* A callback moves on: its jrefBase stays.
LEMMA PcSet ==
    ASSUME JRefsTypeOK, NEW t \in Thr, NEW pc \in Pc, calls' = SetPc(t, pc)
    PROVE  /\ calls' \in [Thr -> Seq(Call)]
           /\ \A u \in Thr : \A i \in 1..Len(calls'[u]) :
                 i \in 1..Len(calls[u]) /\ calls'[u][i].base = calls[u][i].base
<1> DEFINE s == calls[t]
           q == [s EXCEPT ![Len(s)].pc = pc]
<1>1. calls \in [Thr -> Seq(Call)] /\ s \in Seq(Call)
  BY RefTypes
<1>2. calls' = [calls EXCEPT ![t] = q]
  BY DEF SetPc
<1>3. \A i \in 1..Len(s) : s[i] \in Call
  BY <1>1
<1>4. \A i \in 1..Len(s) : [s[i] EXCEPT !.pc = pc] \in Call /\ [s[i] EXCEPT !.pc = pc].base = s[i].base
  BY <1>3 DEF Call
<1>5. q = [i \in 1..Len(s) |-> IF i = Len(s) THEN [s[i] EXCEPT !.pc = pc] ELSE s[i]]
  BY <1>1
<1>6. Len(s) \in Nat
  BY <1>1
<1>7. \A i \in 1..Len(s) : q[i] \in Call /\ q[i].base = s[i].base
  BY <1>3, <1>4, <1>5
<1>8. q \in Seq(Call) /\ Len(q) = Len(s)
  <2>1. CASE Len(s) = 0
    <3>1. q = s
      BY <1>1, <1>5, <2>1
    <3> QED BY <1>1, <3>1
  <2>2. CASE Len(s) # 0
    <3> DEFINE e == [s[Len(s)] EXCEPT !.pc = pc]
    <3>1. Len(s) \in 1..Len(s)
      BY <1>6, <2>2
    <3>2. e \in Call
      BY <1>4, <3>1
    <3>3. q = [s EXCEPT ![Len(s)] = e]
      OBVIOUS
    <3> HIDE DEF e, q, s
    <3> QED BY <1>1, <3>1, <3>2, <3>3
  <2> QED BY <2>1, <2>2
<1> HIDE DEF q
<1>9. \A u \in Thr : calls'[u] = IF u = t THEN q ELSE calls[u]
  BY <1>1, <1>2
<1>10. calls' \in [Thr -> Seq(Call)]
  BY <1>1, <1>2, <1>8
<1> QED BY <1>7, <1>8, <1>9, <1>10

\* A callback begins with the table as long as it is.
LEMMA CallPushed ==
    ASSUME JRefsTypeOK, NEW t \in Thr, NEW pc \in Pc,
           calls' = [calls EXCEPT ![t] = Append(@, [base |-> Len(jrefs), pc |-> pc])]
    PROVE  /\ calls' \in [Thr -> Seq(Call)]
           /\ \A u \in Thr : \A i \in 1..Len(calls'[u]) :
                 \/ i \in 1..Len(calls[u]) /\ calls'[u][i].base = calls[u][i].base
                 \/ calls'[u][i].base = Len(jrefs)
<1> DEFINE c == [base |-> Len(jrefs), pc |-> pc]
           s == calls[t]
           q == Append(s, c)
<1>1. calls \in [Thr -> Seq(Call)] /\ s \in Seq(Call)
  BY RefTypes
<1>2. calls' = [calls EXCEPT ![t] = q]
  OBVIOUS
<1>3. Len(jrefs) \in 0..MaxTable
  BY RefTypes, Ranges
<1>4. c \in Call /\ c.base = Len(jrefs)
  BY <1>3 DEF Call
<1> HIDE DEF c
<1>5. q \in Seq(Call) /\ Len(q) = Len(s) + 1 /\ Len(s) \in Nat
  BY <1>1, <1>4
<1>6. \A i \in 1..Len(q) : (i \in 1..Len(s) /\ q[i] = s[i]) \/ q[i] = c
  BY <1>1, <1>4
<1> HIDE DEF q
<1>7. \A u \in Thr : calls'[u] = IF u = t THEN q ELSE calls[u]
  BY <1>1, <1>2
<1>8. calls' \in [Thr -> Seq(Call)]
  BY <1>1, <1>2, <1>5
<1> QED BY <1>4, <1>6, <1>7, <1>8

\* A callback ends.
LEMMA CallPopped ==
    ASSUME JRefsTypeOK, NEW t \in Thr, calls[t] # << >>,
           calls' = [calls EXCEPT ![t] = SubSeq(@, 1, Len(@) - 1)]
    PROVE  /\ calls' \in [Thr -> Seq(Call)]
           /\ Len(calls[t]) \in 1..Len(calls[t]) /\ Top(t) \in Call
           /\ \A u \in Thr : \A i \in 1..Len(calls'[u]) :
                 i \in 1..Len(calls[u]) /\ calls'[u][i].base = calls[u][i].base
<1> DEFINE s == calls[t]
           q == SubSeq(s, 1, Len(s) - 1)
<1>1. calls \in [Thr -> Seq(Call)] /\ s \in Seq(Call)
  BY RefTypes
<1>2. calls' = [calls EXCEPT ![t] = q]
  OBVIOUS
<1>3. Len(s) \in Nat /\ Len(s) >= 1
  BY <1>1
<1>4. \A i \in 1..Len(s) : s[i] \in Call
  BY <1>1
<1>5. q \in Seq(Call)
  BY <1>3, <1>4
<1>6. Len(q) = Len(s) - 1
  BY <1>3
<1>7. \A i \in 1..(Len(s) - 1) : q[i] = s[i]
  BY <1>3
<1> HIDE DEF q
<1>8. \A i \in 1..Len(q) : i \in 1..Len(s) /\ q[i] = s[i]
  BY <1>3, <1>6, <1>7
<1>9. \A u \in Thr : calls'[u] = IF u = t THEN q ELSE calls[u]
  BY <1>1, <1>2
<1>10. calls' \in [Thr -> Seq(Call)]
  BY <1>1, <1>2, <1>5
<1>11. Len(s) \in 1..Len(s) /\ Top(t) \in Call
  BY <1>3, <1>4 DEF Top
<1> QED BY <1>8, <1>9, <1>10, <1>11

\* A handle that was given stays good when its entry and the entry's reference do, and
\* callbacks that begin take the whole table as their base.
LEMMA HandleKept ==
    ASSUME JRefsInv, UNCHANGED handle,
           handle.quiet =>
              /\ handle.h \in 1..Len(jrefs') /\ jrefs'[handle.h] = jrefs[handle.h]
              /\ ref'[jrefs[handle.h].ref] = ref[jrefs[handle.h].ref]
              /\ use'.h = handle.h => use' = use \/ use'.ref = jrefs[handle.h].ref,
           \A u \in Thr : \A i \in 1..Len(calls'[u]) :
              \/ i \in 1..Len(calls[u]) /\ calls'[u][i].base = calls[u][i].base
              \/ calls'[u][i].base = Len(jrefs)
    PROVE  HandleInv'
<1> SUFFICES ASSUME handle.quiet
             PROVE  /\ handle.h \in 1..Len(jrefs')
                    /\ ref'[jrefs'[handle.h].ref] = handle.obj
                    /\ use'.h = handle.h => use'.ref = jrefs'[handle.h].ref
                    /\ \A t \in Thr : \A i \in 1..Len(calls'[t]) : calls'[t][i].base >= handle.h
  BY DEF HandleInv
<1>1. HandleInv /\ Len(jrefs) \in Nat
  BY RefTypes DEF JRefsInv, RefInv
<1>2. handle.h \in 1..Len(jrefs)
  BY <1>1 DEF HandleInv
<1>3. \A t \in Thr : \A i \in 1..Len(calls'[t]) : calls'[t][i].base >= handle.h
  <2> SUFFICES ASSUME NEW t \in Thr, NEW i \in 1..Len(calls'[t]) PROVE calls'[t][i].base >= handle.h
    OBVIOUS
  <2>1. CASE i \in 1..Len(calls[t]) /\ calls'[t][i].base = calls[t][i].base
    BY <1>1, <2>1 DEF HandleInv
  <2>2. CASE calls'[t][i].base = Len(jrefs)
    BY <1>1, <1>2, <2>2
  <2> QED BY <2>1, <2>2
<1> QED BY <1>1, <1>3 DEF HandleInv

\* An object is entered and its handle given to the script.
LEMMA GivenOK ==
    ASSUME JRefsInv, NEW rf \in RefObjects, \A r \in TableRef : rf[r] = ref[r],
           NEW o \in Obj, NEW a \in HeapAddr, Room(a), NEW s, s = Added(rf, o, a),
           ref' = s.ref, jrefs' = s.jrefs, Give(s), use = NoUse, UNCHANGED <<calls, use>>
    PROVE  /\ handle' \in [h : 0..MaxTable, obj : Obj \cup {NoObj}, quiet : BOOLEAN]
           /\ HandleInv'
<1>0. RefInv /\ HandleInv /\ JRefsTypeOK /\ calls \in [Thr -> Seq(Call)] /\ MaxTable \in Nat
  BY RefTypes, Ranges DEF JRefsInv, RefInv
<1>1. /\ s.ref \in RefObjects /\ s.jrefs \in Seq(Entries) /\ Len(s.jrefs) <= MaxTable
      /\ s.h \in 1..Len(s.jrefs)
      /\ \A i \in 1..Len(jrefs) : /\ i \in 1..Len(s.jrefs) /\ s.jrefs[i] = jrefs[i]
                                  /\ s.ref[jrefs[i].ref] = ref[jrefs[i].ref]
  BY <1>0, AddedOK
<1>2. CASE handle' = handle
  <2>1. handle \in [h : 0..MaxTable, obj : Obj \cup {NoObj}, quiet : BOOLEAN]
    BY <1>0 DEF JRefsTypeOK
  <2>2. handle.quiet => handle.h \in 1..Len(jrefs)
    BY <1>0 DEF HandleInv
  <2>3. \A u \in Thr : \A i \in 1..Len(calls'[u]) :
              i \in 1..Len(calls[u]) /\ calls'[u][i].base = calls[u][i].base
    OBVIOUS
  <2> QED BY <1>1, <1>2, <2>1, <2>2, <2>3, HandleKept
<1>3. CASE handle' = [h |-> s.h, obj |-> s.ref[s.jrefs[s.h].ref], quiet |-> ~InFlight]
  <2>1. handle'.h = s.h /\ handle'.obj = s.ref[s.jrefs[s.h].ref] /\ handle'.quiet = ~InFlight
    BY <1>3
  <2>2. s.jrefs[s.h].ref \in Ref /\ Len(s.jrefs) \in Nat
    BY <1>1, EntryFields
  <2>3. s.ref[s.jrefs[s.h].ref] \in Obj \cup {NoObj}
    BY <1>1, <2>2 DEF RefObjects
  <2>4. s.h \in 0..MaxTable /\ s.h # 0
    BY <1>0, <1>1, <2>2
  <2>5. (~InFlight) \in BOOLEAN
    BY DEF InFlight
  <2>6. handle' \in [h : 0..MaxTable, obj : Obj \cup {NoObj}, quiet : BOOLEAN]
    BY <1>3, <2>3, <2>4, <2>5
  <2>7. handle'.quiet => \A t \in Thr : Len(calls[t]) = 0
    <3>1. handle'.quiet => ~InFlight
      BY <2>1, Zenon
    <3>2. ~InFlight => \A t \in Thr : calls[t] = << >>
      BY DEF InFlight
    <3> QED BY <3>1, <3>2
  <2>8. use'.h # handle'.h
    BY <2>1, <2>4 DEF NoUse
  <2>9. handle'.quiet => \A t \in Thr : \A i \in 1..Len(calls'[t]) : calls'[t][i].base >= handle'.h
    BY <2>7
  <2> QED BY <1>1, <2>1, <2>6, <2>8, <2>9 DEF HandleInv
<1> QED BY <1>2, <1>3 DEF Give

-----------------------------------------------------------------------------
(* Steps.                                                                  *)

\* Initially there are no references.
LEMMA InitJRefs == JRefsInit => JRefsInv
<1> SUFFICES ASSUME JRefsInit PROVE JRefsInv
  OBVIOUS
<1>1. Len(jrefs) = 0 /\ Len(ring) = 0
  BY DEF JRefsInit
<1>2. jrefs \in Seq([ref : Ref, addr : HeapAddr]) /\ ring \in Seq([ref : Ref, addr : HeapAddr])
  BY DEF JRefsInit
<1>3. /\ addr \in [Obj -> HeapAddr] /\ ref \in [Ref -> Obj \cup {NoObj}] /\ Len(jrefs) <= MaxTable
      /\ seen \in [HeapAddr -> Ref \cup {NoRef}] /\ js \in Thr \cup {NoThr} /\ asleep \subseteq Thr
  BY <1>1, Ranges DEF JRefsInit
<1>4. calls \in [Thr -> Seq([base : 0..MaxTable, pc : Pc])]
  BY DEF JRefsInit
<1>5. use \in [h : 0..MaxTable, ref : Ref \cup {NoRef}]
  BY Ranges DEF JRefsInit, NoUse
<1>6. handle \in [h : 0..MaxTable, obj : Obj \cup {NoObj}, quiet : BOOLEAN] /\ ~handle.quiet
  BY Ranges DEF JRefsInit, NoHandle
<1>7. JRefsTypeOK
  BY <1>2, <1>3, <1>4, <1>5, <1>6 DEF JRefsTypeOK
<1>8. \A r \in Ref : ref[r] = NoObj
  BY DEF JRefsInit
<1>9. TableOK(ref, jrefs)
  BY <1>1, <1>8, Ranges DEF TableOK
<1>10. RingOK(ref, ring)
  BY <1>1, <1>8, Ranges DEF RingOK
<1>11. SeenOK(ring, seen)
  BY <1>1 DEF SeenOK, JRefsInit
<1>12. HandleInv
  BY <1>6 DEF HandleInv
<1> QED BY <1>7, <1>9, <1>10, <1>11, <1>12 DEF JRefsInv, RefInv

\* A step that leaves references, table and ring alone.
LEMMA Unreferenced ==
    ASSUME JRefsInv, UNCHANGED <<ref, jrefs, ring, seen, handle>>,
           addr' \in [Obj -> HeapAddr], js' \in Thr \cup {NoThr}, asleep' \subseteq Thr,
           calls' \in [Thr -> Seq(Call)], use' \in [h : 0..MaxTable, ref : Ref \cup {NoRef}],
           handle.quiet => (use'.h = handle.h => use' = use \/ use'.ref = jrefs[handle.h].ref),
           \A u \in Thr : \A i \in 1..Len(calls'[u]) :
              \/ i \in 1..Len(calls[u]) /\ calls'[u][i].base = calls[u][i].base
              \/ calls'[u][i].base = Len(jrefs)
    PROVE  JRefsInv'
<1>1. JRefsTypeOK'
  BY DEF JRefsInv, RefInv, JRefsTypeOK, Call
<1>2. TableOK(ref, jrefs)' /\ RingOK(ref, ring)' /\ SeenOK(ring, seen)'
  BY DEF JRefsInv, RefInv, TableOK, RingOK, SeenOK
<1>3. HandleInv'
  <2>1. handle.quiet => handle.h \in 1..Len(jrefs')
    BY DEF JRefsInv, HandleInv
  <2> QED BY <2>1, HandleKept
<1> QED BY <1>1, <1>2, <1>3 DEF JRefsInv, RefInv

\* Every step preserves the invariant.
LEMMA NextJRefs == JRefsInv /\ [JRefsNext]_jrefsVars => JRefsInv'
<1> SUFFICES ASSUME JRefsInv, [JRefsNext]_jrefsVars PROVE JRefsInv'
  OBVIOUS
<1>0. /\ RefInv /\ HandleInv /\ JRefsTypeOK /\ TableOK(ref, jrefs)
      /\ RingOK(ref, ring) /\ SeenOK(ring, seen)
  BY DEF JRefsInv, RefInv
<1>1. /\ addr \in [Obj -> HeapAddr] /\ ref \in RefObjects
      /\ jrefs \in Seq(Entries) /\ Len(jrefs) <= MaxTable /\ Len(jrefs) \in Nat
      /\ ring \in Seq(Entries) /\ Len(ring) \in Nat
      /\ seen \in [HeapAddr -> Ref \cup {NoRef}]
      /\ js \in Thr \cup {NoThr} /\ asleep \subseteq Thr
      /\ calls \in [Thr -> Seq(Call)]
  BY <1>0, RefTypes
<1>2. use \in [h : 0..MaxTable, ref : Ref \cup {NoRef}]
  BY <1>0 DEF JRefsTypeOK
<1>3. \A u \in Thr : \A i \in 1..Len(calls[u]) : i \in 1..Len(calls[u])
  OBVIOUS
<1>4. CASE UNCHANGED jrefsVars
  BY <1>1, <1>2, <1>4, Unreferenced DEF jrefsVars
<1>5. ASSUME NEW o \in Obj, Observe(o) PROVE JRefsInv'
  <2> DEFINE v == Observed(o, addr[o])
  <2>1. /\ ref' = v.ref /\ ring' = v.ring /\ seen' = v.seen
        /\ UNCHANGED <<addr, jrefs, js, asleep, calls, use, handle>>
    BY <1>5 DEF Observe
  <2>2. addr[o] \in HeapAddr
    BY <1>1
  <2>3. /\ v.ref \in RefObjects /\ v.ring \in Seq(Entries) /\ v.seen \in [HeapAddr -> Ref \cup {NoRef}]
        /\ RingOK(v.ref, v.ring) /\ SeenOK(v.ring, v.seen)
        /\ \A r \in TableRef : v.ref[r] = ref[r]
    BY <1>0, <2>2, ObservedOK
  <2> HIDE DEF v
  <2>4. JRefsTypeOK'
    BY <1>0, <2>1, <2>3 DEF JRefsTypeOK, RefObjects, Entries
  <2>5. TableOK(ref, jrefs)'
    BY <1>0, <2>1, <2>3 DEF TableOK
  <2>6. RingOK(ref, ring)' /\ SeenOK(ring, seen)'
    BY <2>1, <2>3 DEF RingOK, SeenOK
  <2>7. \A i \in 1..Len(jrefs) : ref'[jrefs[i].ref] = ref[jrefs[i].ref]
    BY <1>0, <2>1, <2>3 DEF TableOK
  <2>8. handle.quiet => handle.h \in 1..Len(jrefs)
    BY <1>0 DEF HandleInv
  <2>9. HandleInv'
    BY <2>1, <2>7, <2>8, HandleKept
  <2> QED BY <2>4, <2>5, <2>6, <2>9 DEF JRefsInv, RefInv
<1>6. ASSUME NEW o \in Obj, NEW a \in HeapAddr, Relocate(o, a) PROVE JRefsInv'
  <2>1. addr' = [addr EXCEPT ![o] = a] /\ UNCHANGED <<ref, jrefs, ring, seen, js, asleep, calls, use, handle>>
    BY <1>6 DEF Relocate
  <2>2. addr' \in [Obj -> HeapAddr]
    BY <1>1, <2>1
  <2> QED BY <1>1, <1>2, <2>1, <2>2, Unreferenced
<1>7. ASSUME NEW rf \in RefObjects, NEW rg \in Seq(Entries), NEW sn \in [HeapAddr -> Ref \cup {NoRef}],
             RingOK(rf, rg), SeenOK(rg, sn), \A r \in TableRef : rf[r] = ref[r],
             NEW o \in Obj, NEW a \in HeapAddr, Room(a), NEW s, s = Added(rf, o, a),
             ref' = s.ref, jrefs' = s.jrefs, ring' = rg, seen' = sn, Give(s),
             use = NoUse, UNCHANGED <<addr, js, asleep, calls, use>>
      PROVE  JRefsInv'
  <2>1. /\ s.ref \in RefObjects /\ s.jrefs \in Seq(Entries) /\ Len(s.jrefs) <= MaxTable
        /\ TableOK(s.ref, s.jrefs) /\ \A r \in RingRef : s.ref[r] = rf[r]
    BY <1>0, <1>7, AddedOK
  <2>2. handle' \in [h : 0..MaxTable, obj : Obj \cup {NoObj}, quiet : BOOLEAN] /\ HandleInv'
    BY <1>7, GivenOK
  <2>3. JRefsTypeOK'
    BY <1>0, <1>7, <2>1, <2>2 DEF JRefsTypeOK, RefObjects, Entries
  <2>4. TableOK(ref, jrefs)' /\ SeenOK(ring, seen)'
    BY <1>7, <2>1 DEF TableOK, SeenOK
  <2>5. RingOK(ref, ring)'
    BY <1>7, <2>1 DEF RingOK
  <2> QED BY <2>2, <2>3, <2>4, <2>5 DEF JRefsInv, RefInv
<1>8. ASSUME NEW t \in Thr, NEW o \in Obj, Wrap(t, o) PROVE JRefsInv'
  <2> DEFINE a == addr[o]
             v == Observed(o, a)
             s == Added(v.ref, o, a)
  <2>1. /\ use = NoUse /\ Room(a) /\ ref' = s.ref /\ ring' = v.ring /\ seen' = v.seen /\ jrefs' = s.jrefs
        /\ Give(s) /\ UNCHANGED <<addr, js, asleep, calls, use>>
    BY <1>8 DEF Wrap, Script
  <2>2. a \in HeapAddr
    BY <1>1
  <2>3. /\ v.ref \in RefObjects /\ v.ring \in Seq(Entries) /\ v.seen \in [HeapAddr -> Ref \cup {NoRef}]
        /\ RingOK(v.ref, v.ring) /\ SeenOK(v.ring, v.seen)
        /\ \A r \in TableRef : v.ref[r] = ref[r]
    BY <1>0, <2>2, ObservedOK
  <2>4. s = Added(v.ref, o, a)
    OBVIOUS
  <2> HIDE DEF a, v, s
  <2> QED BY <1>7, <2>1, <2>2, <2>3, <2>4
<1>9. ASSUME NEW t \in Thr, NEW a \in HeapAddr, ArtObject(t, a) PROVE JRefsInv'
  <2> DEFINE o == IF seen[a] # NoRef THEN ref[seen[a]] ELSE CHOOSE p \in At(a) : TRUE
             s == Added(ref, o, a)
  <2>1. /\ use = NoUse /\ Room(a) /\ ref' = s.ref /\ jrefs' = s.jrefs /\ Give(s)
        /\ seen[a] # NoRef \/ At(a) # {}
        /\ UNCHANGED <<addr, ring, seen, js, asleep, calls, use>>
    BY <1>9 DEF ArtObject, Script
  <2>2. o \in Obj
    <3>1. CASE seen[a] # NoRef
      <4>1. PICK i \in 1..Len(ring) : ring[i].addr = a
        BY <1>0, <3>1 DEF SeenOK
      <4>2. seen[a] = ring[i].ref /\ ref[ring[i].ref] # NoObj
        BY <1>0, <4>1 DEF SeenOK, RingOK
      <4>3. ring[i].ref \in Ref
        BY <1>1, EntryFields
      <4> QED BY <1>1, <3>1, <4>2, <4>3 DEF RefObjects
    <3>2. CASE seen[a] = NoRef
      BY <2>1, <3>2 DEF At
    <3> QED BY <3>1, <3>2
  <2>3. s = Added(ref, o, a)
    OBVIOUS
  <2>4. ring' = ring /\ seen' = seen /\ \A r \in TableRef : ref[r] = ref[r]
    BY <2>1
  <2> HIDE DEF o, s
  <2> QED BY <1>0, <1>1, <1>7, <2>1, <2>2, <2>3, <2>4
<1>10. ASSUME NEW t \in Thr, NEW h \in 1..MaxTable, UseBegin(t, h) PROVE JRefsInv'
  <2>1. /\ use' = [h |-> h, ref |-> GetJRef(h)] /\ GetJRef(h) # NoRef
        /\ UNCHANGED <<addr, ref, jrefs, ring, seen, js, asleep, calls, handle>>
    BY <1>10 DEF UseBegin
  <2>2. h \in 1..Len(jrefs) /\ GetJRef(h) = jrefs[h].ref
    BY <2>1 DEF GetJRef
  <2>3. jrefs[h].ref \in Ref
    BY <1>1, <2>2, EntryFields
  <2>4. use' \in [h : 0..MaxTable, ref : Ref \cup {NoRef}] /\ use'.h = h /\ use'.ref = jrefs[h].ref
    BY <2>1, <2>2, <2>3, Ranges
  <2> QED BY <1>1, <2>1, <2>4, Unreferenced
<1>11. ASSUME NEW t \in Thr, UseEnd(t) PROVE JRefsInv'
  <2>1. use' = NoUse /\ UNCHANGED <<addr, ref, jrefs, ring, seen, js, asleep, calls, handle>>
    BY <1>11 DEF UseEnd
  <2>2. use' \in [h : 0..MaxTable, ref : Ref \cup {NoRef}] /\ use'.h = 0
    BY <2>1, Ranges DEF NoUse
  <2>3. handle.quiet => handle.h # 0
    BY <1>0 DEF HandleInv
  <2> QED BY <1>1, <2>1, <2>2, <2>3, Unreferenced
<1>12. CASE EvalBegin \/ EvalEnd \/ \E t \in Thr : Sleep(t) \/ Wake(t)
  <2>1. /\ UNCHANGED <<addr, ref, jrefs, ring, seen, calls, use, handle>>
        /\ js' \in Thr \cup {NoThr} /\ asleep' \subseteq Thr
    BY <1>1, <1>12 DEF EvalBegin, EvalEnd, Sleep, Wake, Thr
  <2> QED BY <1>1, <1>2, <2>1, Unreferenced
<1>13. ASSUME NEW t \in Thr, NEW pc \in Pc, Push(t, pc) PROVE JRefsInv'
  <2>1. /\ calls' = [calls EXCEPT ![t] = Append(@, [base |-> Len(jrefs), pc |-> pc])]
        /\ UNCHANGED <<addr, ref, jrefs, ring, seen, js, asleep, use, handle>>
    BY <1>13 DEF Push
  <2>2. /\ calls' \in [Thr -> Seq(Call)]
        /\ \A u \in Thr : \A i \in 1..Len(calls'[u]) :
              \/ i \in 1..Len(calls[u]) /\ calls'[u][i].base = calls[u][i].base
              \/ calls'[u][i].base = Len(jrefs)
    BY <1>0, <2>1, CallPushed
  <2> QED BY <1>1, <1>2, <2>1, <2>2, Unreferenced
<1>14. ASSUME NEW t \in Thr, NEW pc \in Pc, calls' = SetPc(t, pc), js' \in Thr \cup {NoThr},
              UNCHANGED <<addr, ref, jrefs, ring, seen, asleep, use, handle>>
       PROVE  JRefsInv'
  <2>1. /\ calls' \in [Thr -> Seq(Call)]
        /\ \A u \in Thr : \A i \in 1..Len(calls'[u]) :
              i \in 1..Len(calls[u]) /\ calls'[u][i].base = calls[u][i].base
    BY <1>0, <1>14, PcSet
  <2> QED BY <1>1, <1>2, <1>14, <2>1, Unreferenced
<1>15. CASE (\E t \in Thr : Called(t)) \/ Reentered
  <2>1. Repl \in Thr /\ {"enter", "orig"} \subseteq Pc
    BY DEF Thr, Pc
  <2> QED BY <1>13, <1>15, <2>1 DEF Called, Reentered
<1>16. ASSUME NEW t \in Thr, LockJs(t) PROVE JRefsInv'
  <2>1. (IF Stands(t) = "enter" THEN "enterJs" ELSE "leaveJs") \in Pc
    BY DEF Pc
  <2> QED BY <1>14, <1>16, <2>1 DEF LockJs
<1>17. ASSUME NEW t \in Thr, NEW next \in {"orig", "done"}, UnlockJs(t, next) PROVE JRefsInv'
  <2>1. next \in Pc
    BY DEF Pc
  <2> QED BY <1>14, <1>17, <2>1 DEF UnlockJs
<1>18. ASSUME NEW t \in Thr, SkipEnter(t) PROVE JRefsInv'
  <2>1. "orig" \in Pc
    BY DEF Pc
  <2> QED BY <1>1, <1>14, <1>18, <2>1 DEF SkipEnter
<1>19. ASSUME NEW t \in Thr, Return(t) PROVE JRefsInv'
  <2> DEFINE b == Top(t).base
  <2>1. /\ calls[t] # << >> /\ PopJRefsTo(b)
        /\ calls' = [calls EXCEPT ![t] = SubSeq(@, 1, Len(@) - 1)]
        /\ UNCHANGED <<addr, ring, seen, js, asleep, use, handle>>
    BY <1>19 DEF Return, Stands
  <2>2. /\ calls' \in [Thr -> Seq(Call)]
        /\ Len(calls[t]) \in 1..Len(calls[t]) /\ Top(t) \in Call
        /\ \A u \in Thr : \A i \in 1..Len(calls'[u]) :
              i \in 1..Len(calls[u]) /\ calls'[u][i].base = calls[u][i].base
    BY <1>0, <2>1, CallPopped
  <2>3. b \in Nat
    BY <2>2, Ranges DEF Call
  <2>4. handle.quiet => handle.h \in 1..Len(jrefs) /\ handle.h <= b
    BY <1>0, <2>2, <2>3 DEF HandleInv, Top
  <2> HIDE DEF b
  <2>5. /\ ref' \in RefObjects /\ jrefs' \in Seq(Entries) /\ Len(jrefs') <= Len(jrefs) /\ Len(jrefs') \in Nat
        /\ TableOK(ref', jrefs')
        /\ \A r \in RingRef : ref'[r] = ref[r]
        /\ \A i \in 1..Len(jrefs) : i <= b =>
              i \in 1..Len(jrefs') /\ jrefs'[i] = jrefs[i] /\ ref'[jrefs[i].ref] = ref[jrefs[i].ref]
    BY <1>0, <2>1, <2>3, PoppedOK
  <2>6. Len(jrefs') <= MaxTable
    BY <1>1, <2>5, Ranges
  <2>7. JRefsTypeOK'
    BY <1>0, <2>1, <2>2, <2>5, <2>6 DEF JRefsTypeOK, RefObjects, Entries, Call
  <2>8. RingOK(ref, ring)' /\ SeenOK(ring, seen)'
    BY <1>0, <2>1, <2>5 DEF RingOK, SeenOK
  <2>9. HandleInv'
    BY <2>1, <2>2, <2>4, <2>5, HandleKept
  <2>10. TableOK(ref, jrefs)'
    BY <2>5 DEF TableOK
  <2> QED BY <2>7, <2>8, <2>9, <2>10 DEF JRefsInv, RefInv
<1> QED BY <1>4, <1>5, <1>6, <1>8, <1>9, <1>10, <1>11, <1>12, <1>15, <1>16, <1>17, <1>18, <1>19
        DEF JRefsNext

\* Entries, the ring, its index and the callbacks' bases are of their types.
THEOREM JRefsTypes == JRefsSpec => []JRefsTypeOK
<1>1. JRefsInv => JRefsTypeOK
  BY DEF JRefsInv, RefInv
<1> QED BY <1>1, InitJRefs, NextJRefs, PTL DEF JRefsSpec

\* A handle that a script was given outside callbacks names its object for good, and a
\* JNI call that was prepared with it is made on that object: no callback's PopJRefsTo,
\* on whatever thread it began and ended, cuts the table below it.
THEOREM HandlesKept == JRefsSpec => []QuietHandles
<1>1. JRefsInv => QuietHandles
  <2> SUFFICES ASSUME JRefsInv, handle.quiet
               PROVE  /\ handle.h <= Len(jrefs)
                      /\ ref[jrefs[handle.h].ref] = handle.obj
                      /\ use.h = handle.h => ref[use.ref] = handle.obj
    BY DEF QuietHandles
  <2>1. HandleInv /\ Len(jrefs) \in Nat
    BY RefTypes DEF JRefsInv, RefInv
  <2> QED BY <2>1 DEF HandleInv
<1> QED BY <1>1, InitJRefs, NextJRefs, PTL DEF JRefsSpec

\* No global reference leaks and none is deleted twice: each belongs to one entry of the
\* table (AddJRef, PopJRefsTo) or of the ring of observed objects
\* (DoRegisterObservedObject), and the ring's index by address leads to its entries.
THEOREM ReferencesAccounted == JRefsSpec => []RefsAccounted
<1>1. JRefsInv => RefsAccounted
  <2> SUFFICES ASSUME JRefsInv PROVE RefsAccounted
    OBVIOUS
  <2>0. TableOK(ref, jrefs) /\ RingOK(ref, ring) /\ SeenOK(ring, seen)
    BY DEF JRefsInv, RefInv
  <2>1. /\ jrefs \in Seq(Entries) /\ ring \in Seq(Entries) /\ Len(jrefs) \in Nat /\ Len(ring) \in Nat
    BY RefTypes DEF JRefsInv, RefInv
  <2> DEFINE k == Len(jrefs)
             l == Len(ring)
             held == [i \in 1..(k + l) |-> IF i <= k THEN jrefs[i].ref ELSE ring[i - k].ref]
  <2>2. k \in Nat /\ l \in Nat
    BY <2>1
  <2>3. \A i \in 1..k : jrefs[i].ref \in TableRef /\ ref[jrefs[i].ref] # NoObj
    BY <2>0 DEF TableOK
  <2>4. \A i \in 1..l : ring[i].ref \in RingRef /\ ref[ring[i].ref] # NoObj
    BY <2>0 DEF RingOK
  <2>5. \A i, j \in 1..k : jrefs[i].ref = jrefs[j].ref => i = j
    BY <2>0 DEF TableOK
  <2>6. \A i, j \in 1..l : ring[i].ref = ring[j].ref => i = j
    BY <2>0 DEF RingOK
  <2>7. \A r \in TableRef : ref[r] # NoObj => \E i \in 1..k : jrefs[i].ref = r
    BY <2>0 DEF TableOK
  <2>8. \A r \in RingRef : ref[r] # NoObj => \E i \in 1..l : ring[i].ref = r
    BY <2>0 DEF RingOK
  <2>9. /\ \A a \in HeapAddr : \A r \in Ref :
               seen[a] = r <=> \E i \in 1..l : ring[i] = [addr |-> a, ref |-> r]
        /\ l <= RingCap
    <3>1. l <= RingCap
      BY <2>0 DEF RingOK
    <3>2. ASSUME NEW a \in HeapAddr, NEW r \in Ref, seen[a] = r
          PROVE  \E i \in 1..l : ring[i] = [addr |-> a, ref |-> r]
      <4>1. r # NoRef
        BY Ranges
      <4>2. PICK i \in 1..l : ring[i].addr = a
        BY <2>0, <3>2, <4>1 DEF SeenOK
      <4>3. ring[i].ref = r
        BY <2>0, <3>2, <4>2 DEF SeenOK
      <4>4. ring[i] \in Entries
        BY <2>1
      <4> QED BY <4>2, <4>3, <4>4 DEF Entries
    <3>3. ASSUME NEW a \in HeapAddr, NEW r \in Ref, NEW i \in 1..l, ring[i] = [addr |-> a, ref |-> r]
          PROVE  seen[a] = r
      <4>1. ring[i].addr = a /\ ring[i].ref = r
        BY <3>3
      <4> QED BY <2>0, <4>1 DEF SeenOK
    <3> QED BY <3>1, <3>2, <3>3
  <2> HIDE DEF k, l
  <2>10. \A i \in 1..(k + l) : IF i <= k THEN i \in 1..k /\ held[i] = jrefs[i].ref
                               ELSE i - k \in 1..l /\ held[i] = ring[i - k].ref
    BY <2>2
  <2>11. (\A i \in 1..k : i \in 1..(k + l) /\ i <= k)
         /\ (\A i \in 1..l : i + k \in 1..(k + l) /\ ~(i + k <= k) /\ (i + k) - k = i)
    BY <2>2
  <2>12. DOMAIN held = 1..(k + l)
    OBVIOUS
  <2> HIDE DEF held
  <2>13. \A i \in DOMAIN held : held[i] \in Ref /\ ref[held[i]] # NoObj
    BY <2>3, <2>4, <2>10, <2>12, Ranges
  <2>14. ASSUME NEW r \in Ref, ref[r] # NoObj PROVE \E i \in DOMAIN held : held[i] = r
    <3>1. CASE r \in TableRef
      <4>1. PICK i \in 1..k : jrefs[i].ref = r
        BY <2>7, <2>14, <3>1
      <4> QED BY <2>10, <2>11, <2>12, <4>1
    <3>2. CASE r \in RingRef
      <4>1. PICK i \in 1..l : ring[i].ref = r
        BY <2>8, <2>14, <3>2
      <4>2. i + k \in 1..(k + l) /\ held[i + k] = ring[i].ref
        BY <2>10, <2>11
      <4> QED BY <2>12, <4>1, <4>2
    <3> QED BY <3>1, <3>2, Ranges
  <2>15. {held[i] : i \in DOMAIN held} = {r \in Ref : ref[r] # NoObj}
    BY <2>13, <2>14
  <2>16. ASSUME NEW i \in DOMAIN held, NEW j \in DOMAIN held, held[i] = held[j] PROVE i = j
    <3>0. i \in 1..(k + l) /\ j \in 1..(k + l)
      BY <2>12
    <3>1. CASE i <= k /\ j <= k
      BY <2>5, <2>10, <2>16, <3>0, <3>1
    <3>2. CASE ~(i <= k) /\ ~(j <= k)
      <4>1. i - k \in 1..l /\ j - k \in 1..l /\ ring[i - k].ref = ring[j - k].ref
        BY <2>10, <2>16, <3>0, <3>2
      <4>2. i - k = j - k
        BY <2>6, <4>1
      <4> QED BY <2>2, <3>0, <4>2
    <3>3. ASSUME NEW x \in 1..(k + l), NEW y \in 1..(k + l), x <= k, ~(y <= k), held[x] = held[y]
          PROVE  FALSE
      <4>1. held[x] \in TableRef /\ held[y] \in RingRef
        BY <2>3, <2>4, <2>10, <3>3
      <4> QED BY <3>3, <4>1, Ranges
    <3> QED BY <2>16, <3>0, <3>1, <3>2, <3>3
  <2> QED BY <2>9, <2>15, <2>16 DEF RefsAccounted, held, k, l
<1> QED BY <1>1, InitJRefs, NextJRefs, PTL DEF JRefsSpec

-----------------------------------------------------------------------------
(* The tools together.                                                     *)

toolsVars == <<part, jrefsVars, jniVars, patchVars, interpVars, regVars>>
Parts == {"jrefs", "jni", "patch", "interp", "regclass"}

\* A step of one tool is a step of that tool and leaves every other one alone.
LEMMA OneAtATime ==
    [ToolsNext]_toolsVars =>
        /\ [JRefsNext]_jrefsVars /\ [JniNext]_jniVars /\ [PatchNext]_patchVars
        /\ [InterpNext]_interpVars /\ [RegNext]_regVars
        /\ part' = part
<1> SUFFICES ASSUME [ToolsNext]_toolsVars
             PROVE  /\ [JRefsNext]_jrefsVars /\ [JniNext]_jniVars /\ [PatchNext]_patchVars
                    /\ [InterpNext]_interpVars /\ [RegNext]_regVars
                    /\ part' = part
  OBVIOUS
<1>1. CASE UNCHANGED toolsVars
  BY <1>1 DEF toolsVars
<1>2. CASE ToolsNext
  BY <1>2 DEF ToolsNext
<1> QED BY <1>1, <1>2

\* A behaviour of the tools is one of each of them, so that what is proved of the reference
\* table, the JNI tracer, the patches, the interpreter and the generated classes holds of it.
LEMMA ToolsCompose == ToolsSpec => JRefsSpec /\ JniSpec /\ PatchSpec /\ InterpSpec /\ RegSpec
<1>1. ToolsInit => JRefsInit /\ JniInit /\ PatchInit /\ InterpInit /\ RegInit
  BY DEF ToolsInit
<1> QED BY <1>1, OneAtATime, PTL
        DEF ToolsSpec, toolsVars, JRefsSpec, JniSpec, PatchSpec, InterpSpec, RegSpec

\* Everything each tool keeps is of its type, whichever of them a behaviour is of.
THEOREM ToolsTypes == ToolsSpec => []ToolsTypeOK
<1>1. ToolsInit => part \in Parts
  BY DEF ToolsInit, Parts
<1>2. part \in Parts /\ [ToolsNext]_toolsVars => (part \in Parts)'
  BY OneAtATime
<1>3. ToolsSpec => [](part \in Parts)
  BY <1>1, <1>2, PTL DEF ToolsSpec, toolsVars
<1>4. JniSpec => []JniTypeOK
  <2>1. RealInv => JniTypeOK
    BY DEF RealInv
  <2> QED BY <2>1, InitJni, NextReal, PTL DEF JniSpec
<1>5. /\ part \in Parts /\ JRefsTypeOK /\ JniTypeOK /\ PatchTypeOK /\ InterpTypeOK /\ RegTypeOK
      => ToolsTypeOK
  BY DEF ToolsTypeOK, Parts
<1> QED BY <1>3, <1>4, <1>5, ToolsCompose, JRefsTypes, PatchTypes, InterpTypes, RegistrationTypes, PTL

=============================================================================
