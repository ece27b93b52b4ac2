--------------------------- MODULE AgentNetProofs ---------------------------
(***************************************************************************)
(* The command server leaks no socket, answers each client's requests in   *)
(* order and never writes to another client, for any number of clients,    *)
(* broadcasting threads, descriptors and requests.                         *)
(***************************************************************************)
EXTENDS AgentNet, FiniteSetTheorems, WellFoundedInduction, TLAPS

\* The types of what decides who holds a descriptor.
LeakTypes ==
    /\ fdt \in [Fd -> {Free, App} \cup Socks]
    /\ clients \in [Fd -> Nat]
    /\ toClose \in [Fd -> Nat]
    /\ newFd \in Fd \cup {0}

\* The server's locals are a record and hold a poll set.
SrvInv ==
    /\ DOMAIN srv = {"pfds", "ready", "accepting", "pending", "cur", "emitted"}
    /\ srv.pfds \in [Fd -> Nat]

\* A broadcasting thread sends to a descriptor it took from g_clients.
CasterType == [pc : CasterPc, left : 0..MaxEvent, targets : [Fd -> Nat],
               failed : [Fd -> Nat], fd : Fd \cup {0}]
CastInv ==
    /\ cast \in [Caster -> CasterType]
    /\ \A k \in Caster : cast[k].pc \in {"header", "payload"} => cast[k].fd \in Fd

\* What makes NoSocketLeak inductive: fdsToClose is empty when the read section
\* fills it, and no descriptor waits for g_clients when the next is accepted.
LeakInv ==
    /\ LeakTypes /\ SrvInv /\ CastInv
    /\ at # "close" => toClose = NoFds
    /\ IF at = "list" THEN newFd \in Fd ELSE newFd = 0
    /\ NoSocketLeak

\* The lowest free number is a descriptor number that is free.
LEMMA NextFdFree == \A f \in NextFd : f \in Fd /\ fdt[f] = Free
BY DEF NextFd

\* Taking entries out of g_clients leaves g_clients a bag of descriptors, and a
\* descriptor that no entry was taken of keeps its entries.
LEMMA LessBag ==
    ASSUME NEW B \in [Fd -> Nat], NEW C \in [Fd -> Nat]
    PROVE  /\ Less(B, C) \in [Fd -> Nat]
           /\ \A f \in Fd : B[f] > 0 => Less(B, C)[f] > 0 \/ C[f] > 0
BY DEF Less

\* The read section removes a number of entries.
LEMMA RemovedType ==
    ASSUME LeakTypes, SrvInv, NEW f \in Fd, NEW bad
    PROVE  Removed(f, bad) \in Nat
<1> DEFINE every == IF srv.pfds[f] < clients[f] THEN srv.pfds[f] ELSE clients[f]
<1>1. every \in Nat
  BY DEF LeakTypes, SrvInv
<1> HIDE DEF every
<1>2. Removed(f, bad) \in {every, 1, 0}
  BY DEF Removed, every
<1> QED BY <1>1, <1>2

\* A free descriptor is no socket, and neither is one of the application's.
LEMMA NotSocks == Free \notin Socks /\ App \notin Socks
<1>1. \A c \in Conn : Sock(c).owner = "agent"
  BY DEF Sock
<1>2. Free.owner = "free" /\ App.owner = "app"
  BY DEF Free, App
<1> QED BY <1>1, <1>2 DEF Socks

\* A step of one broadcasting thread leaves the others alone.
LEMMA CastStep ==
    ASSUME CastInv, NEW k \in Caster, NEW r \in CasterType,
           r.pc \in {"header", "payload"} => r.fd \in Fd,
           cast' = [cast EXCEPT ![k] = r]
    PROVE  CastInv'
BY DEF CastInv

\* At the start no descriptor is open and nothing is listed.
LEMMA InitLeak == Init => LeakInv
<1> SUFFICES ASSUME Init PROVE LeakInv
  OBVIOUS
<1>1. NoFds \in [Fd -> Nat]
  BY DEF NoFds
<1>2. CastInv
  BY <1>1, NetBoundAssumption DEF CastInv, CasterType, CasterPc, Init, Idle
<1>3. LeakTypes /\ SrvInv
  BY <1>1 DEF LeakTypes, SrvInv, Init
<1>4. NoSocketLeak
  BY NotSocks DEF NoSocketLeak, Init
<1> QED BY <1>2, <1>3, <1>4 DEF LeakInv, Init

\* Every step of the server, of a broadcasting thread, of a client and of the
\* application keeps track of every open socket.
LEMMA NextLeak == LeakInv /\ [Next]_vars => LeakInv'
<1> SUFFICES ASSUME LeakInv, [Next]_vars PROVE LeakInv'
  OBVIOUS
<1> USE DEF LeakInv
<1> DEFINE Quiet == UNCHANGED <<fdt, clients, toClose, newFd>>
<1>0. /\ UNCHANGED cast => CastInv'
      /\ UNCHANGED srv => SrvInv'
  BY DEF CastInv, SrvInv
\* Steps that move no descriptor.
<1>q. ASSUME Quiet, CastInv', SrvInv', at' # at => {at, at'} \cap {"close", "list"} = {}
      PROVE  LeakInv'
  BY <1>q DEF LeakTypes, NoSocketLeak, Listed, NoFds
\* Some entries are taken out of g_clients and at least their descriptors closed.
<1>c. ASSUME NEW C \in [Fd -> Nat], NEW F \in SUBSET Fd, CloseAll(F), clients' = Less(clients, C),
             \A f \in Fd : C[f] > 0 => f \in F,
             UNCHANGED <<toClose, newFd>>, CastInv', SrvInv',
             at' # at => {at, at'} \cap {"close", "list"} = {}
      PROVE  LeakInv'
  <2>1. clients' \in [Fd -> Nat] /\ \A f \in Fd : clients[f] > 0 => clients'[f] > 0 \/ C[f] > 0
    BY <1>c, LessBag DEF LeakTypes
  <2>2. fdt' \in [Fd -> {Free, App} \cup Socks]
    BY <1>c DEF CloseAll, LeakTypes
  <2>3. NoSocketLeak'
    BY <1>c, <2>1, NotSocks DEF CloseAll, NoSocketLeak, Listed, LeakTypes
  <2>4. LeakTypes'
    BY <1>c, <2>1, <2>2 DEF LeakTypes
  <2> QED BY <1>c, <2>3, <2>4 DEF NoFds
<1>1. CASE Bind \/ LoopEnd \/ PollFails \/ AcceptDone \/ DispatchDone
  BY <1>1, <1>q, <1>0 DEF Bind, LoopEnd, PollFails, AcceptDone, DispatchDone, Goto
<1>2. CASE Snapshot
  <2>1. SrvInv'
    BY <1>2 DEF Snapshot, SrvInv, LeakTypes
  <2> QED BY <1>2, <2>1, <1>q, <1>0 DEF Snapshot, Goto
<1>3. CASE Poll \/ Dispatch \/ EmitDirect
  <2>1. SrvInv'
    BY <1>3 DEF Poll, Dispatch, EmitDirect, Serve, SrvInv
  <2> QED BY <1>3, <2>1, <1>q, <1>0 DEF Poll, Dispatch, EmitDirect, Serve, Goto
<1>4. CASE \E c \in Conn : Accept(c)
  <2>1. PICK c \in Conn : Accept(c)
    BY <1>4
  <2>2. PICK f \in NextFd : fdt' = [fdt EXCEPT ![f] = Sock(c)] /\ newFd' = f
    BY <2>1 DEF Accept
  <2>3. f \in Fd /\ fdt[f] = Free
    BY NextFdFree
  <2>4. LeakTypes'
    BY <2>1, <2>2, <2>3 DEF Accept, LeakTypes, Socks
  <2>5. newFd = 0 /\ at = "accept" /\ at' = "list"
    BY <2>1 DEF Accept, Goto
  <2>6. \A g \in Fd \ {f} : fdt'[g] = fdt[g] /\ g # 0
    BY <2>2, FdAssumption DEF LeakTypes
  <2>7. NoSocketLeak'
    BY <2>1, <2>2, <2>5, <2>6 DEF NoSocketLeak, Accept, Listed
  <2> QED BY <1>0, <2>1, <2>2, <2>3, <2>4, <2>5, <2>7 DEF Accept, NoFds
<1>5. CASE List
  <2>1. clients' \in [Fd -> Nat] /\ \A f \in Fd : clients'[f] >= clients[f]
    BY <1>5 DEF List, LeakTypes
  <2>2. newFd \in Fd /\ clients'[newFd] > 0
    BY <1>5 DEF List, LeakTypes
  <2>3. LeakTypes'
    BY <1>5, <2>1 DEF List, LeakTypes
  <2>4. NoSocketLeak'
    BY <1>5, <2>1, <2>2 DEF List, NoSocketLeak, Listed, LeakTypes
  <2> QED BY <1>0, <1>5, <2>3, <2>4 DEF List, NoFds, Goto
<1>6. CASE Read
  <2>1. PICK bad \in RecvFails :
            /\ toClose' = [f \in Fd |-> Removed(f, bad)]
            /\ clients' = Less(clients, [f \in Fd |-> Removed(f, bad)])
    BY <1>6 DEF Read
  <2>2. [f \in Fd |-> Removed(f, bad)] \in [Fd -> Nat]
    BY RemovedType
  <2>3. /\ clients' \in [Fd -> Nat]
        /\ \A f \in Fd : clients[f] > 0 => clients'[f] > 0 \/ toClose'[f] > 0
    BY <2>1, <2>2, LessBag DEF LeakTypes
  <2>4. SrvInv'
    BY <1>6 DEF Read, Consume, SrvInv, NoFds
  <2>5. LeakTypes'
    BY <1>6, <2>1, <2>2, <2>3 DEF Read, LeakTypes
  <2>6. NoSocketLeak'
    BY <1>6, <2>3 DEF Read, NoSocketLeak, Listed, NoFds, LeakTypes
  <2> QED BY <1>0, <1>6, <2>4, <2>5, <2>6 DEF Read, Goto
<1>7. CASE \E f \in Fd : CloseFd(f)
  <2>1. PICK f \in Fd : CloseFd(f)
    BY <1>7
  <2>2. toClose' \in [Fd -> Nat] /\ \A g \in Fd \ {f} : toClose'[g] = toClose[g]
    BY <2>1 DEF CloseFd, LeakTypes
  <2>3. LeakTypes'
    BY <2>1, <2>2 DEF CloseFd, CloseAll, LeakTypes
  <2>4. NoSocketLeak'
    BY <2>1, <2>2, NotSocks DEF CloseFd, CloseAll, NoSocketLeak, Listed, LeakTypes
  <2> QED BY <1>0, <2>1, <2>3, <2>4 DEF CloseFd
<1>8. CASE CloseDone
  BY <1>8, <1>0 DEF CloseDone, Goto, LeakTypes, NoSocketLeak, Listed, NoFds
<1>9. CASE SendEventHeader \/ SendEventPayload \/ SendRespHeader
  BY <1>9, <1>q, <1>0 DEF SendEventHeader, SendEventPayload, SendRespHeader, Goto
<1>10. CASE Respond \/ SendRespPayload
  <2>1. SrvInv'
    BY <1>10 DEF Respond, RespondIf, SendRespPayload, NextItem, SrvInv
  <2>2. at' \in {"resp.header", "dispatch", "resp.failed"} /\ at \in {"handler", "resp.payload"}
    BY <1>10 DEF Respond, RespondIf, SendRespPayload, NextItem, Goto
  <2> QED BY <1>10, <2>1, <2>2, <1>q, <1>0 DEF Respond, RespondIf, SendRespPayload
<1>11. CASE RespFailed
  <2> DEFINE C == [f \in Fd |-> IF f = srv.cur.fd THEN 1 ELSE 0]
  <2>1. C \in [Fd -> Nat] /\ \A f \in Fd : C[f] > 0 => f \in {srv.cur.fd} \cap Fd
    OBVIOUS
  <2>3. SrvInv'
    BY <1>11 DEF RespFailed, NextItem, SrvInv
  <2>4. CloseAll({srv.cur.fd} \cap Fd)
    BY <1>11 DEF RespFailed, CloseAll
  <2>5. clients' = Less(clients, C) /\ at = "resp.failed" /\ at' = "dispatch"
        /\ UNCHANGED <<toClose, newFd, cast>>
    BY <1>11 DEF RespFailed, NextItem, Goto
  <2> HIDE DEF C
  <2> QED BY <2>1, <2>3, <2>4, <2>5, <1>0, <1>c
<1>12. CASE Cleanup
  <2>1. clients' = NoFds /\ NoFds \in [Fd -> Nat]
    BY <1>12 DEF Cleanup, NoFds
  <2>2. LeakTypes'
    BY <1>12, <2>1 DEF Cleanup, CloseAll, LeakTypes
  <2>3. NoSocketLeak'
    BY <1>12, NotSocks DEF Cleanup, CloseAll, NoSocketLeak, Listed, LeakTypes
  <2> QED BY <1>0, <1>12, <2>2, <2>3 DEF Cleanup, NoFds, Goto
<1>13. ASSUME NEW k \in Caster, CasterStep(k), ~CastReap(k)
       PROVE  LeakInv'
  <2>1. CastInv'
    <3>0. cast[k] \in CasterType
      BY DEF CastInv
    <3>1. CASE CastBegin(k)
      <4> DEFINE r == [cast[k] EXCEPT !.pc = "pick", !.left = @ - 1, !.targets = clients]
      <4>1. cast[k].left - 1 \in 0..MaxEvent
        BY <3>0, <3>1, NetBoundAssumption DEF CastBegin, CasterType
      <4>3. r \in CasterType /\ r.pc = "pick"
        BY <3>0, <4>1 DEF CasterType, CasterPc, LeakTypes
      <4>2. cast' = [cast EXCEPT ![k] = r]
        BY <3>1, Zenon DEF CastBegin
      <4> HIDE DEF r
      <4> QED BY <4>2, <4>3, CastStep
    <3>2. CASE CastPick(k)
      <4>1. PICK f \in Fd : /\ cast[k].targets[f] > 0
                            /\ cast' = [cast EXCEPT ![k] = [cast[k] EXCEPT !.pc = "header", !.fd = f, !.targets[f] = @ - 1]]
        BY <3>2 DEF CastPick
      <4>2. [cast[k].targets EXCEPT ![f] = @ - 1] \in [Fd -> Nat]
        BY <3>0, <4>1 DEF CasterType
      <4> DEFINE r == [cast[k] EXCEPT !.pc = "header", !.fd = f, !.targets[f] = @ - 1]
      <4>3. r \in CasterType /\ r.fd \in Fd
        BY <3>0, <4>2 DEF CasterType, CasterPc
      <4>4. cast' = [cast EXCEPT ![k] = r]
        BY <4>1, Zenon
      <4> HIDE DEF r
      <4> QED BY <4>3, <4>4, CastStep
    <3>3. CASE CastHeader(k) \/ CastPayload(k)
      <4>1. cast[k].fd \in Fd
        BY <3>3 DEF CastHeader, CastPayload, CastSend, CastInv
      <4>2. [cast[k].failed EXCEPT ![cast[k].fd] = @ + 1] \in [Fd -> Nat]
        BY <3>0, <4>1 DEF CasterType
      <4> DEFINE r(next) == [cast[k] EXCEPT !.pc = next]
                 q == [cast[k] EXCEPT !.pc = "pick", !.failed[cast[k].fd] = @ + 1]
      <4>3. \A next \in {"pick", "payload"} : r(next) \in CasterType /\ r(next).fd \in Fd
        BY <3>0, <4>1 DEF CasterType, CasterPc
      <4>4. q \in CasterType /\ q.fd \in Fd
        BY <3>0, <4>1, <4>2 DEF CasterType, CasterPc
      <4>5. \/ \E next \in {"pick", "payload"} : cast' = [cast EXCEPT ![k] = r(next)]
            \/ cast' = [cast EXCEPT ![k] = q]
        BY <3>3, Zenon DEF CastHeader, CastPayload, CastSend
      <4> HIDE DEF r, q
      <4> QED BY <4>3, <4>4, <4>5, CastStep
    <3> QED BY <1>13, <3>1, <3>2, <3>3 DEF CasterStep
  <2>2. Quiet /\ UNCHANGED <<at, srv>>
    BY <1>13 DEF CasterStep, CastBegin, CastPick, CastHeader, CastPayload, CastSend, serverVars, workVars
  <2> QED BY <2>1, <2>2, <1>0, <1>q
<1>14. ASSUME NEW k \in Caster, CastReap(k)
       PROVE  LeakInv'
  <2> DEFINE F == {f \in Fd : cast[k].failed[f] > 0}
  <2>2. CastInv'
    <3> DEFINE r == [cast[k] EXCEPT !.pc = "idle", !.failed = NoFds, !.fd = 0]
    <3>0. cast[k] \in CasterType /\ NoFds \in [Fd -> Nat]
      BY DEF CastInv, NoFds
    <3>1. r \in CasterType /\ r.pc = "idle"
      BY <3>0 DEF CasterType, CasterPc
    <3>2. cast' = [cast EXCEPT ![k] = r]
      BY <1>14 DEF CastReap
    <3> QED BY <3>1, <3>2, CastStep
  <2>3. cast[k].failed \in [Fd -> Nat]
    BY DEF CastInv, CasterType
  <2>4. clients' = Less(clients, cast[k].failed) /\ CloseAll(F) /\ UNCHANGED <<at, srv, toClose, newFd>>
    BY <1>14 DEF CastReap, serverVars, workVars
  <2>5. F \in SUBSET Fd /\ \A f \in Fd : cast[k].failed[f] > 0 => f \in F
    OBVIOUS
  <2> HIDE DEF F
  <2> QED BY <2>2, <2>3, <2>4, <2>5, <1>0, <1>c
<1>15. CASE StopServer \/ \E c \in Conn : ClientStep(c)
  BY <1>15, <1>q, <1>0
  DEF StopServer, ClientStep, Connect, Leave, SendRequest, serverVars, workVars
<1>16. CASE AppOpen
  <2>1. PICK f \in NextFd : fdt' = [fdt EXCEPT ![f] = App]
    BY <1>16 DEF AppOpen
  <2>2. UNCHANGED <<clients, toClose, newFd, cast, srv, at>>
    BY <1>16 DEF AppOpen, serverVars, workVars
  <2>3. LeakTypes'
    BY <2>1, <2>2, NextFdFree DEF LeakTypes
  <2>4. NoSocketLeak'
    BY <2>1, <2>2, NotSocks DEF NoSocketLeak, Listed, LeakTypes
  <2> QED BY <1>0, <2>2, <2>3, <2>4 DEF NoFds
<1>17. CASE UNCHANGED vars
  BY <1>17, <1>q, <1>0 DEF vars, serverVars, workVars
<1> QED
  BY <1>1, <1>2, <1>3, <1>4, <1>5, <1>6, <1>7, <1>8, <1>9, <1>10, <1>11, <1>12, <1>13, <1>14,
     <1>15, <1>16, <1>17
  DEF Next, ServerStep

\* Whatever the server, the broadcasting threads, the clients and the application
\* do, no open socket of the agent is ever out of sight.
THEOREM SocketsTracked == Spec => []NoSocketLeak
<1>1. LeakInv => NoSocketLeak
  BY DEF LeakInv
<1> QED BY <1>1, InitLeak, NextLeak, PTL DEF Spec

-----------------------------------------------------------------------------
(* What the frame loop makes of a queue of requests.                       *)

\* A non-empty set of naturals has a lowest member.
LEMMA LowestOf ==
    ASSUME NEW S, S \subseteq Nat, S # {}
    PROVE  \E x \in S : \A y \in S : x <= y
<1>1. PICK x \in S : \A y \in S : ~(<<y, x>> \in OpToRel(<, Nat))
  BY NatLessThanWellFounded, WFMin
<1>2. \A y \in S : x <= y
  <2> TAKE y \in S
  <2>1. ~(<<y, x>> \in {ss \in Nat \X Nat : ss[1] < ss[2]})
    BY <1>1, Zenon DEF OpToRel
  <2> QED BY <2>1
<1> QED BY <1>2

\* A non-empty bounded one has a highest.
LEMMA HighestOf ==
    ASSUME NEW N \in Nat, NEW S, S \subseteq 1..N, S # {}
    PROVE  \E x \in S : \A y \in S : y <= x
<1> DEFINE D == {N - i : i \in S}
<1>0. \A i \in S : i \in Int /\ i <= N /\ N - i \in Nat /\ N - i \in D
  OBVIOUS
<1>1. D \subseteq Nat /\ D # {}
  BY <1>0
<1>2. PICK d \in D : \A u \in D : d <= u
  BY <1>1, LowestOf
<1>3. PICK i \in S : d = N - i
  BY <1>2
<1>4. \A j \in S : j <= i
  <2> TAKE j \in S
  <2>1. N - i <= N - j
    BY <1>0, <1>2, <1>3
  <2> QED BY <1>0, <2>1
<1> QED BY <1>4

\* The members of S up to i, whose number is the rank of i in S.
Upto(S, i) == {j \in S : j <= i}

\* Ranks are numbers and grow with the members.
LEMMA RankOrder ==
    ASSUME NEW N \in Nat, NEW S, S \subseteq 1..N
    PROVE  /\ IsFiniteSet(S) /\ Cardinality(S) \in Nat
           /\ \A i \in S : Cardinality(Upto(S, i)) \in Nat
           /\ \A i, j \in S : Cardinality(Upto(S, i)) < Cardinality(Upto(S, j)) => i < j
<1>0. (\A i \in S : i \in Int) /\ S \in SUBSET (1..N)
  OBVIOUS
<1>1. IsFiniteSet(S)
  <2>1. IsFiniteSet(1..N)
    BY FS_Interval
  <2> QED BY <1>0, <2>1, FS_Subset
<1>2. \A i \in S : IsFiniteSet(Upto(S, i)) /\ Cardinality(Upto(S, i)) \in Nat
  <2> TAKE i \in S
  <2>1. Upto(S, i) \in SUBSET S
    BY DEF Upto
  <2> QED BY <1>1, <2>1, FS_Subset, FS_CardinalityType
<1>3. ASSUME NEW i \in S, NEW j \in S, ~(i < j)
      PROVE  Cardinality(Upto(S, j)) <= Cardinality(Upto(S, i))
  <2>0. i \in Int /\ j \in Int /\ j <= i
    BY <1>0, <1>3
  <2>1. \A x \in S : x <= j => x <= i
    BY <1>0, <2>0
  <2>2. Upto(S, j) \in SUBSET Upto(S, i)
    BY <2>1 DEF Upto
  <2> QED BY <1>2, <2>2, FS_Subset
<1> QED BY <1>1, <1>2, <1>3, FS_CardinalityType

\* Every rank up to the number of members is the rank of one.
LEMMA RankOf ==
    ASSUME NEW N \in Nat, NEW S, S \subseteq 1..N, NEW k \in 1..Cardinality(S)
    PROVE  \E i \in S : Cardinality(Upto(S, i)) = k
<1> DEFINE U == {i \in S : k <= Cardinality(Upto(S, i))}
<1>0. /\ IsFiniteSet(S) /\ Cardinality(S) \in Nat
      /\ \A i \in S : Cardinality(Upto(S, i)) \in Nat
  BY RankOrder
<1>i. \A i \in S : i \in Int /\ i \in Nat
  OBVIOUS
<1>1. S # {}
  BY <1>0, FS_EmptySet
<1>2. U # {}
  <2>1. PICK x \in S : \A y \in S : y <= x
    BY <1>1, HighestOf
  <2>2. Upto(S, x) = S
    BY <2>1 DEF Upto
  <2> QED BY <2>2
<1>3. U \subseteq Nat
  BY <1>i
<1>4. PICK m \in U : \A y \in U : m <= y
  BY <1>2, <1>3, LowestOf
<1> DEFINE B == {j \in S : j < m}
<1>5. Upto(S, m) = B \cup {m} /\ m \notin B /\ B \in SUBSET S
  <2>1. m \in S /\ m \in Int
    BY <1>i, <1>4
  <2>2. \A j \in S : j <= m <=> j < m \/ j = m
    BY <1>i, <2>1
  <2>3. ~(m < m)
    BY <2>1
  <2> QED BY <2>1, <2>2, <2>3 DEF Upto
<1>6. IsFiniteSet(B) /\ Cardinality(B) \in Nat
  BY <1>0, <1>5, FS_Subset, FS_CardinalityType
<1>7. Cardinality(Upto(S, m)) = Cardinality(B) + 1
  BY <1>5, <1>6, FS_AddElement
<1>8. Cardinality(B) < k
  <2>1. CASE B = {}
    BY <2>1, FS_EmptySet
  <2>2. CASE B # {}
    <3>1. B \subseteq 1..N
      OBVIOUS
    <3>2. PICK b \in B : \A y \in B : y <= b
      BY <2>2, <3>1, HighestOf
    <3>3. Upto(S, b) = B
      <4>1. b \in Int /\ m \in Int /\ b < m
        BY <1>i, <1>4, <3>2
      <4>2. \A j \in S : j <= b => j < m
        BY <1>i, <4>1
      <4> QED BY <3>2, <4>2 DEF Upto
    <3>4. b \notin U
      BY <1>4, <3>1, <3>2
    <3> QED BY <1>0, <3>2, <3>3, <3>4
  <2> QED BY <2>1, <2>2
<1> QED BY <1>4, <1>6, <1>7, <1>8

Queued == [kind : Kind, n : 1..MaxReq]
Item == [conn : Conn, n : 1..MaxReq]

\* The numbers of a queue, or of a list of pending requests, grow.
Growing(q) == \A i, j \in DOMAIN q : i < j => q[i].n < q[j].n

\* The frame loop parses a prefix of the queue.
LEMMA ParsedPrefix ==
    ASSUME NEW q \in Seq(Queued)
    PROVE  /\ Parsed(q) \in Seq(Queued)
           /\ DOMAIN Parsed(q) \subseteq DOMAIN q
           /\ \A i \in DOMAIN Parsed(q) : Parsed(q)[i] = q[i]
<1> DEFINE huge == {i \in DOMAIN q : q[i].kind = "huge"}
           first == CHOOSE i \in huge : \A j \in huge : i <= j
<1>1. CASE huge = {}
  <2>1. Parsed(q) = q
    BY <1>1 DEF Parsed
  <2> QED BY <2>1
<1>2. CASE huge # {}
  <2>1. huge \subseteq Nat
    OBVIOUS
  <2>2. first \in huge
    BY <1>2, <2>1, LowestOf
  <2>3. Parsed(q) = SubSeq(q, 1, first - 1)
    BY <1>2 DEF Parsed
  <2>4. first \in 1..Len(q)
    BY <2>2
  <2> HIDE DEF first, huge
  <2>5. /\ SubSeq(q, 1, first - 1) \in Seq(Queued)
        /\ Len(SubSeq(q, 1, first - 1)) = first - 1
        /\ \A i \in 1..(first - 1) : SubSeq(q, 1, first - 1)[i] = q[i]
    BY <2>4
  <2> QED BY <2>3, <2>4, <2>5
<1> QED BY <1>1, <1>2

\* The requests that go to the handler are some of the queue's, in its order.
LEMMA GoodItems ==
    ASSUME NEW c \in Conn, NEW q \in Seq(Queued)
    PROVE  /\ Good(c, q) \in Seq(Item)
           /\ \A k \in DOMAIN Good(c, q) : /\ Good(c, q)[k].conn = c
                                           /\ \E i \in DOMAIN q : Good(c, q)[k].n = q[i].n
           /\ Growing(q) => Growing(Good(c, q))
<1> DEFINE good == {i \in DOMAIN q : q[i].kind = "good"}
           nth(k) == CHOOSE i \in good : Cardinality({j \in good : j <= i}) = k
           C == Cardinality(good)
<1>0. good \subseteq 1..Len(q) /\ Len(q) \in Nat /\ DOMAIN q = 1..Len(q)
  OBVIOUS
<1>1. Good(c, q) = [k \in 1..C |-> [conn |-> c, n |-> q[nth(k)].n]]
  BY DEF Good
<1>2. \A i, k : Cardinality({j \in good : j <= i}) = k <=> Cardinality(Upto(good, i)) = k
  BY DEF Upto
<1>3. C \in Nat /\ \A i, j \in good : Cardinality(Upto(good, i)) < Cardinality(Upto(good, j)) => i < j
  BY <1>0, RankOrder
<1>4. ASSUME NEW k \in 1..C
      PROVE  nth(k) \in good /\ Cardinality(Upto(good, nth(k))) = k
  <2>1. \E i \in good : Cardinality(Upto(good, i)) = k
    BY <1>0, RankOf
  <2>2. \E i \in good : Cardinality({j \in good : j <= i}) = k
    BY <2>1 DEF Upto
  <2> HIDE DEF good
  <2> QED BY <1>2, <2>2
<1> HIDE DEF nth, C, good
<1>5. \A k \in 1..C : nth(k) \in 1..Len(q) /\ q[nth(k)] \in Queued
  <2>1. \A i \in 1..Len(q) : q[i] \in Queued
    OBVIOUS
  <2> QED BY <1>0, <1>4, <2>1
<1>6. Good(c, q) \in Seq(Item)
  <2>1. \A k \in 1..C : [conn |-> c, n |-> q[nth(k)].n] \in Item
    BY <1>5 DEF Queued, Item
  <2> QED BY <1>1, <1>3, <2>1
<1>7. DOMAIN Good(c, q) = 1..C
      /\ \A k \in 1..C : Good(c, q)[k].conn = c /\ Good(c, q)[k].n = q[nth(k)].n
  BY <1>1
<1>8. ASSUME NEW k \in 1..C, NEW l \in 1..C, k < l PROVE nth(k) < nth(l)
  BY <1>3, <1>4, <1>8
<1>9. Growing(q) => Growing(Good(c, q))
  BY <1>0, <1>5, <1>7, <1>8 DEF Growing
<1> QED BY <1>0, <1>5, <1>6, <1>7, <1>9


-----------------------------------------------------------------------------
(* Who a request belongs to, and the order of the responses.               *)

\* Where the server thread serves the request in cur, and where its response is still to
\* begin.
Serving == {"handler", "event.header", "event.payload", "resp.header", "resp.payload", "resp.failed"}
Unanswered == {"handler", "event.header", "event.payload", "resp.header"}

\* The descriptor f is closed, the application's by now, or still the connection c.
StillOf(f, c) == fdt[f] \in {Free, App, Sock(c)}

\* Requests are pending only until the next poll, and no connection is accepted before:
\* the descriptor of a pending or current request is never another client's.
OwnerInv ==
    /\ at \in Serving => srv.cur \in Request /\ StillOf(srv.cur.fd, srv.cur.conn)
    /\ at \notin Serving \cup {"close", "dispatch"} => \A f \in Fd : srv.pending[f] = << >>
    /\ \A f \in Fd : \A i \in DOMAIN srv.pending[f] : StillOf(f, srv.pending[f][i].conn)


SrvType == [pfds : [Fd -> Nat], ready : [Fd -> {"none", "in", "err"}], accepting : BOOLEAN,
            pending : [Fd -> Seq(Item)], cur : Request \cup {NoItem}, emitted : BOOLEAN]

\* What LeakInv does not say of the types.
RestTypes ==
    /\ running \in BOOLEAN
    /\ endpoint \in {"none", "tcp", "unix"}
    /\ peer \in [Conn -> {"idle", "connecting", "open", "left"}]
    /\ sent \in [Conn -> 0..MaxReq]
    /\ inbox \in [Conn -> Seq(Queued)]
    /\ stream \in [Conn -> Seq(Part)]
    /\ at \in ServerPc
    /\ srv \in SrvType
    /\ appFiles \in 0..MaxAppFile

\* The parts of NetInv give every type.
LEMMA AllTypes == LeakInv /\ RestTypes => TypeOK
BY DEF LeakInv, LeakTypes, CastInv, CasterType, RestTypes, SrvType, TypeOK, Queued, Item

NetInv == LeakInv /\ RestTypes /\ OwnerInv

\* A part, or the prefix of it that a full buffer took, reaches who holds descriptor f.
Reaches(f, part) ==
    \E c \in Conn, p \in {part, [part EXCEPT !.half = "cut"]} :
        fdt[f] = Sock(c) /\ stream' = [stream EXCEPT ![c] = Append(@, p)]

\* Sending adds a part to one stream or changes none.
LEMMA Delivered ==
    ASSUME NEW f, NEW part, SendOk(f, part) \/ SendFail(f, part)
    PROVE  UNCHANGED stream \/ Reaches(f, part)
<1>1. CASE SendOk(f, part)
  BY <1>1 DEF SendOk, Received, Reaches
<1>2. CASE SendFail(f, part)
  BY <1>2 DEF SendFail, Received, Reaches
<1> QED BY <1>1, <1>2

\* The stream stays one of parts.
LEMMA DeliveredType ==
    ASSUME RestTypes, NEW f, NEW part \in Part, SendOk(f, part) \/ SendFail(f, part)
    PROVE  stream' \in [Conn -> Seq(Part)]
<1>1. CASE UNCHANGED stream
  BY <1>1 DEF RestTypes
<1>2. CASE Reaches(f, part)
  <2>1. PICK c \in Conn, p \in {part, [part EXCEPT !.half = "cut"]} :
            stream' = [stream EXCEPT ![c] = Append(@, p)]
    BY <1>2 DEF Reaches
  <2>2. p \in Part
    BY DEF Part
  <2> QED BY <2>1, <2>2 DEF RestTypes
<1> QED BY <1>1, <1>2, Delivered

\* The parts that the server and the broadcasting threads send.
LEMMA ServerPartType ==
    ASSUME NetInv, NEW half \in {"header", "payload"}, NEW e \in BOOLEAN, at \in Serving
    PROVE  /\ ServerPart(half, e) \in Part
           /\ ServerPart(half, e).thread = "server" /\ ServerPart(half, e).half = half
           /\ ServerPart(half, e).n = IF e THEN 0 ELSE srv.cur.n
           /\ srv.cur \in Request /\ srv.cur.fd \in Fd /\ srv.cur.conn \in Conn
           /\ srv.cur.n \in 1..MaxReq
<1>1. srv.cur \in Request /\ srv.cur.fd \in Fd /\ srv.cur.conn \in Conn /\ srv.cur.n \in 1..MaxReq
  BY DEF NetInv, OwnerInv, Request
<1>2. (IF e THEN 0 ELSE srv.cur.n) \in 0..(MaxReq + MaxEvent)
  BY <1>1, NetBoundAssumption
<1> QED BY <1>1, <1>2 DEF ServerPart, Part

\* What a broadcasting thread sends is a part of a frame, marked with the thread.
LEMMA CastPartType ==
    ASSUME LeakInv, NEW k \in Caster, NEW half \in {"header", "payload"}
    PROVE  CastPart(k, half) \in Part /\ CastPart(k, half).thread = k
<1>1. cast[k].left \in 0..(MaxReq + MaxEvent)
  BY NetBoundAssumption DEF LeakInv, CastInv, CasterType
<1> QED BY <1>1 DEF CastPart, Part

\* The request that is served and those that wait are not touched, no socket is opened.
LEMMA OwnerKept ==
    ASSUME RestTypes, OwnerInv, \A f \in Fd : fdt'[f] \in {fdt[f], Free, App},
           srv'.cur = srv.cur, srv'.pending = srv.pending,
           at' \in Serving => at \in Serving,
           at' \notin Serving \cup {"close", "dispatch"}
               => at \notin Serving \cup {"close", "dispatch"} \/ \A f \in Fd : srv.pending[f] = << >>
    PROVE  OwnerInv'
<1>1. \A f \in Fd : \A c : StillOf(f, c) => StillOf(f, c)'
  BY DEF StillOf
<1>2. at' \in Serving => srv.cur \in Request /\ srv.cur.fd \in Fd
  BY DEF OwnerInv, Request
<1> QED BY <1>1, <1>2 DEF OwnerInv

\* On to the next request.
LEMMA OwnerNext ==
    ASSUME RestTypes, OwnerInv, at \in Serving, \A f \in Fd : fdt'[f] \in {fdt[f], Free, App}, NextItem
    PROVE  OwnerInv' /\ srv' \in SrvType /\ at' = "dispatch" /\ srv'.cur = NoItem
           /\ srv'.pending = srv.pending
<1>1. srv \in SrvType
  BY DEF RestTypes
<1>2. at' = "dispatch" /\ srv'.cur = NoItem /\ srv'.pending = srv.pending
  BY <1>1 DEF NextItem, Goto, SrvType
<1>3. srv' \in SrvType
  BY <1>1 DEF NextItem, SrvType
<1>4. \A f \in Fd : \A c : StillOf(f, c) => StillOf(f, c)'
  BY DEF StillOf
<1> QED BY <1>2, <1>3, <1>4 DEF OwnerInv, Serving


\* Steps of the server that move it on and touch neither its requests nor a stream.
LEMMA MovesNet ==
    ASSUME NetInv,
           \/ Bind \/ LoopEnd \/ PollFails \/ AcceptDone \/ List \/ CloseDone \/ DispatchDone \/ Cleanup
           \/ \E f \in Fd : CloseFd(f)
    PROVE  RestTypes' /\ OwnerInv'
<1> USE DEF NetInv
<1>1. UNCHANGED <<running, peer, sent, inbox, stream, srv, appFiles>>
  BY DEF Bind, LoopEnd, PollFails, AcceptDone, List, CloseDone, DispatchDone, Cleanup, CloseFd, clientVars
<1>2. endpoint' \in {"none", "tcp", "unix"} /\ at' \in ServerPc
  BY DEF RestTypes, ServerPc, Goto, Bind, LoopEnd, PollFails, AcceptDone, List, CloseDone, DispatchDone,
         Cleanup, CloseFd
<1>3. RestTypes'
  BY <1>1, <1>2 DEF RestTypes
<1>4. \A f \in Fd : fdt'[f] \in {fdt[f], Free, App}
  <2>1. CASE Bind \/ LoopEnd \/ PollFails \/ AcceptDone \/ List \/ CloseDone \/ DispatchDone
    BY <2>1 DEF Bind, LoopEnd, PollFails, AcceptDone, List, CloseDone, DispatchDone
  <2>2. CASE Cleanup \/ \E f \in Fd : CloseFd(f)
    BY <2>2 DEF Cleanup, CloseFd, CloseAll
  <2> QED BY <2>1, <2>2
<1>5. at' \notin Serving
  BY DEF Serving, Goto, Bind, LoopEnd, PollFails, AcceptDone, List, CloseDone, DispatchDone, Cleanup, CloseFd
<1>6. at' \notin Serving \cup {"close", "dispatch"}
         => at \notin Serving \cup {"close", "dispatch"} \/ \A f \in Fd : srv.pending[f] = << >>
  <2>1. CASE DispatchDone
    BY <2>1 DEF DispatchDone
  <2>2. CASE Bind \/ LoopEnd \/ PollFails \/ AcceptDone \/ List \/ CloseDone \/ Cleanup
             \/ \E f \in Fd : CloseFd(f)
    BY <2>2 DEF Serving, Goto, Bind, LoopEnd, PollFails, AcceptDone, List, CloseDone, Cleanup, CloseFd
  <2> QED BY <2>1, <2>2
<1>7. OwnerInv'
  BY <1>1, <1>4, <1>5, <1>6, OwnerKept
<1> QED BY <1>3, <1>7

\* Steps that set a field of the server's locals.
LEMMA LocalsNet ==
    ASSUME NetInv, Snapshot \/ Poll \/ EmitDirect
    PROVE  RestTypes' /\ OwnerInv'
<1> USE DEF NetInv
<1>1. UNCHANGED <<running, endpoint, peer, sent, inbox, stream, fdt, appFiles>>
  BY DEF Snapshot, Poll, EmitDirect, clientVars
<1>0. srv \in SrvType /\ clients \in [Fd -> Nat]
  BY DEF RestTypes, LeakInv, LeakTypes
<1>2. srv' \in SrvType /\ srv'.cur = srv.cur /\ srv'.pending = srv.pending
  <2>1. CASE Snapshot
    BY <1>0, <2>1 DEF Snapshot, SrvType
  <2>2. CASE Poll
    <3> DEFINE acc == \E c \in Conn : peer[c] = "connecting"
    <3>1. PICK ready \in [Fd -> {"none", "in", "err"}] :
              srv' = [srv EXCEPT !.ready = ready, !.accepting = acc]
      BY <2>2 DEF Poll
    <3>2. acc \in BOOLEAN
      OBVIOUS
    <3> HIDE DEF acc
    <3> QED BY <1>0, <3>1, <3>2 DEF SrvType
  <2>3. CASE EmitDirect
    BY <1>0, <2>3 DEF EmitDirect, SrvType
  <2> QED BY <2>1, <2>2, <2>3
<1>3. /\ at' \in ServerPc
      /\ at' \in Serving => at \in Serving
      /\ at' \notin Serving \cup {"close", "dispatch"} => at \notin Serving \cup {"close", "dispatch"}
  BY DEF Snapshot, Poll, EmitDirect, Goto, ServerPc, Serving
<1>4. RestTypes'
  BY <1>1, <1>2, <1>3 DEF RestTypes
<1>5. OwnerInv'
  BY <1>1, <1>2, <1>3, OwnerKept
<1> QED BY <1>4, <1>5

\* A connection is accepted while no request waits.
LEMMA AcceptNet ==
    ASSUME NetInv, NEW c \in Conn, Accept(c)
    PROVE  RestTypes' /\ OwnerInv'
<1> USE DEF NetInv
<1>1. /\ UNCHANGED <<running, endpoint, sent, inbox, stream, srv, appFiles>>
      /\ peer' = [peer EXCEPT ![c] = "open"] /\ at = "accept" /\ at' = "list"
  BY DEF Accept, Goto
<1>2. RestTypes'
  BY <1>1 DEF RestTypes, ServerPc
<1>3. \A f \in Fd : srv.pending[f] = << >>
  BY <1>1 DEF OwnerInv, Serving
<1>4. OwnerInv'
  BY <1>1, <1>3 DEF OwnerInv, Serving
<1> QED BY <1>2, <1>4

\* What a read leaves in the list of pending requests.
LEMMA ReadPending ==
    ASSUME RestTypes, LeakInv, Read, NEW f \in Fd
    PROVE  /\ srv'.pending[f] \in Seq(Item)
           /\ \A i \in DOMAIN srv'.pending[f] :
                 \E c \in Conn : /\ fdt[f] = Sock(c) /\ inbox'[c] = << >>
                                 /\ srv'.pending[f][i].conn = c
                                 /\ \E j \in DOMAIN inbox[c] : srv'.pending[f][i].n = inbox[c][j].n
           /\ (\A c \in Conn : Growing(inbox[c])) => Growing(srv'.pending[f])
<1>1. srv'.pending[f] = IF f \in Readable THEN Good(fdt[f].conn, Parsed(inbox[fdt[f].conn])) ELSE << >>
  BY DEF Read, Consume, RestTypes, SrvType
<1>2. CASE f \notin Readable
  BY <1>1, <1>2 DEF Growing
<1>3. CASE f \in Readable
  <2>1. PICK c \in Conn : fdt[f] = Sock(c)
    BY <1>3 DEF Readable, Socks
  <2>2. fdt[f].conn = c
    BY <2>1 DEF Sock
  <2>3. inbox'[c] = << >>
    BY <1>3, <2>1 DEF Read, Consume
  <2>4. inbox[c] \in Seq(Queued)
    BY DEF RestTypes
  <2>5. /\ Parsed(inbox[c]) \in Seq(Queued) /\ DOMAIN Parsed(inbox[c]) \subseteq DOMAIN inbox[c]
        /\ \A i \in DOMAIN Parsed(inbox[c]) : Parsed(inbox[c])[i] = inbox[c][i]
    BY <2>4, ParsedPrefix
  <2>6. Growing(inbox[c]) => Growing(Parsed(inbox[c]))
    BY <2>5 DEF Growing
  <2> DEFINE G == Good(c, Parsed(inbox[c]))
  <2>7. /\ G \in Seq(Item)
        /\ Growing(Parsed(inbox[c])) => Growing(G)
        /\ \A k \in DOMAIN G : G[k].conn = c /\ \E i \in DOMAIN Parsed(inbox[c]) : G[k].n = Parsed(inbox[c])[i].n
    BY <2>5, GoodItems
  <2>8. srv'.pending[f] = G
    BY <1>1, <1>3, <2>2
  <2> HIDE DEF G
  <2>9. \A k \in DOMAIN G : \E i \in DOMAIN inbox[c] : G[k].n = inbox[c][i].n
    BY <2>5, <2>7
  <2>10. \A k \in DOMAIN G : G[k].conn = c
    BY <2>7
  <2>11. \A k \in DOMAIN G :
            \E d \in Conn : /\ fdt[f] = Sock(d) /\ inbox'[d] = << >> /\ G[k].conn = d
                            /\ \E j \in DOMAIN inbox[d] : G[k].n = inbox[d][j].n
    BY <2>1, <2>3, <2>9, <2>10
  <2>12. (\A d \in Conn : Growing(inbox[d])) => Growing(G)
    BY <2>6, <2>7
  <2>13. G \in Seq(Item)
    BY <2>7
  <2> QED BY <2>8, <2>11, <2>12, <2>13
<1> QED BY <1>2, <1>3

\* A read parses what the connections of polled descriptors have sent.
LEMMA ReadNet ==
    ASSUME NetInv, Read
    PROVE  RestTypes' /\ OwnerInv'
<1> USE DEF NetInv
<1>1. /\ UNCHANGED <<running, endpoint, peer, sent, stream, fdt, appFiles>>
      /\ at = "read" /\ at' = "close"
  BY DEF Read, Goto
<1>2. inbox' \in [Conn -> Seq(Queued)]
  BY DEF Read, Consume, RestTypes
<1>3. srv' \in SrvType
  <2>0. srv \in SrvType
    BY DEF RestTypes
  <2>1. PICK p : srv' = [srv EXCEPT !.pfds = NoFds, !.ready = [f \in Fd |-> "none"],
                                    !.accepting = FALSE, !.pending = p]
                 /\ p = [f \in Fd |-> IF f \in Readable
                                      THEN Good(fdt[f].conn, Parsed(inbox[fdt[f].conn])) ELSE << >>]
    BY DEF Read, Consume
  <2>2. srv'.pending = p
    BY <2>0, <2>1 DEF SrvType
  <2>3. p \in [Fd -> Seq(Item)]
    BY <2>1, <2>2, ReadPending
  <2>4. NoFds \in [Fd -> Nat]
    BY DEF NoFds
  <2> QED BY <2>0, <2>1, <2>3, <2>4 DEF SrvType
<1>4. RestTypes'
  BY <1>1, <1>2, <1>3 DEF RestTypes, ServerPc
<1>5. \A f \in Fd : \A i \in DOMAIN srv'.pending[f] : StillOf(f, srv.pending[f][i].conn)'
  <2> TAKE f \in Fd
  <2> TAKE i \in DOMAIN srv'.pending[f]
  <2>1. PICK c \in Conn : fdt[f] = Sock(c) /\ srv'.pending[f][i].conn = c
    BY ReadPending
  <2> QED BY <1>1, <2>1 DEF StillOf
<1> QED BY <1>1, <1>4, <1>5 DEF OwnerInv, Serving

\* The next request is taken off the list of its descriptor.
LEMMA DispatchNet ==
    ASSUME NetInv, Dispatch
    PROVE  /\ RestTypes' /\ OwnerInv'
           /\ at = "dispatch" /\ at' = "handler"
           /\ \E f \in Fd : /\ srv.pending[f] # << >>
                            /\ srv'.cur = [fd |-> f, conn |-> Head(srv.pending[f]).conn, n |-> Head(srv.pending[f]).n]
                            /\ srv'.pending = [srv.pending EXCEPT ![f] = Tail(@)]
<1> USE DEF NetInv
<1>0. srv \in SrvType /\ srv.pending \in [Fd -> Seq(Item)]
  BY DEF RestTypes, SrvType
<1>1. /\ UNCHANGED <<running, endpoint, peer, sent, inbox, stream, fdt, appFiles>>
      /\ at = "dispatch" /\ at' = "handler"
  BY DEF Dispatch, Serve, Goto, clientVars
<1>2. PICK f \in Fd : /\ srv.pending[f] # << >>
                      /\ Serve(f, Head(srv.pending[f]), [srv.pending EXCEPT ![f] = Tail(@)])
  BY DEF Dispatch
<1> DEFINE item == Head(srv.pending[f])
           cur == [fd |-> f, conn |-> item.conn, n |-> item.n]
           rest == [srv.pending EXCEPT ![f] = Tail(@)]
<1>3. srv.pending[f] \in Seq(Item) /\ item \in Item /\ item = srv.pending[f][1] /\ 1 \in DOMAIN srv.pending[f]
  BY <1>0, <1>2
<1>4. cur \in Request
  BY <1>3 DEF Item, Request
<1>5. Tail(srv.pending[f]) \in Seq(Item) /\ rest \in [Fd -> Seq(Item)]
  BY <1>0, <1>2, <1>3
<1>6. srv' = [srv EXCEPT !.cur = cur, !.pending = rest]
  BY <1>2 DEF Serve
<1>7. \A i \in DOMAIN Tail(srv.pending[f]) :
          i + 1 \in DOMAIN srv.pending[f] /\ Tail(srv.pending[f])[i] = srv.pending[f][i + 1]
  BY <1>2, <1>3
<1>8. rest[f] = Tail(srv.pending[f]) /\ \A g \in Fd \ {f} : rest[g] = srv.pending[g]
  BY <1>0
<1>9. cur.fd = f /\ cur.conn = item.conn
  OBVIOUS
<1>10. StillOf(f, item.conn)
  BY <1>3 DEF OwnerInv
<1> HIDE DEF cur, rest, item
<1>11. srv' \in SrvType /\ srv'.cur = cur /\ srv'.pending = rest
  BY <1>0, <1>4, <1>5, <1>6 DEF SrvType
<1>12. RestTypes'
  BY <1>1, <1>11 DEF RestTypes, ServerPc
<1>13. ASSUME NEW g \in Fd, NEW i \in DOMAIN rest[g] PROVE StillOf(g, rest[g][i].conn)
  <2>1. CASE g = f
    BY <1>7, <1>8, <2>1 DEF OwnerInv
  <2>2. CASE g # f
    BY <1>8, <2>2 DEF OwnerInv
  <2> QED BY <2>1, <2>2
<1>14. OwnerInv'
  BY <1>1, <1>4, <1>9, <1>10, <1>11, <1>13 DEF OwnerInv, Serving, StillOf
<1> QED BY <1>1, <1>2, <1>11, <1>12, <1>14 DEF cur, rest, item


\* The server sends a part of an event, or of the response to the request it serves.
LEMMA SendsNet ==
    ASSUME NetInv, SendEventHeader \/ SendEventPayload \/ SendRespHeader \/ SendRespPayload
    PROVE  RestTypes' /\ OwnerInv'
<1> USE DEF NetInv
<1>0. srv \in SrvType /\ at \in Serving
  BY DEF RestTypes, SendEventHeader, SendEventPayload, SendRespHeader, SendRespPayload, Serving
<1>1. UNCHANGED <<running, endpoint, peer, sent, inbox, fdt, appFiles>>
  BY DEF SendEventHeader, SendEventPayload, SendRespHeader, SendRespPayload, clientVars
<1>2. \E half \in {"header", "payload"}, e \in BOOLEAN :
          SendOk(srv.cur.fd, ServerPart(half, e)) \/ SendFail(srv.cur.fd, ServerPart(half, e))
  BY DEF SendEventHeader, SendEventPayload, SendRespHeader, SendRespPayload
<1>3. stream' \in [Conn -> Seq(Part)]
  BY <1>0, <1>2, ServerPartType, DeliveredType
<1>4. CASE UNCHANGED srv
  <2>1. at' \in {"handler", "event.payload", "resp.payload", "resp.failed", "dispatch"}
    BY DEF SendEventHeader, SendEventPayload, SendRespHeader, SendRespPayload, Goto, NextItem
  <2>2. OwnerInv'
    BY <1>0, <1>1, <1>4, <2>1, OwnerKept DEF Serving
  <2> QED BY <1>1, <1>3, <1>4, <2>1, <2>2 DEF RestTypes, ServerPc
<1>5. CASE NextItem
  <2>1. OwnerInv' /\ srv' \in SrvType /\ at' = "dispatch"
    BY <1>0, <1>1, <1>5, OwnerNext
  <2> QED BY <1>1, <1>3, <2>1 DEF RestTypes, ServerPc
<1> QED BY <1>4, <1>5 DEF SendEventHeader, SendEventPayload, SendRespHeader, SendRespPayload

\* The handler has returned, or the response could not be sent.
LEMMA RespondNet ==
    ASSUME NetInv, Respond \/ RespFailed
    PROVE  RestTypes' /\ OwnerInv'
<1> USE DEF NetInv
<1>0. srv \in SrvType /\ at \in Serving
  BY DEF RestTypes, Respond, RespondIf, RespFailed, Serving
<1>1. UNCHANGED <<running, endpoint, peer, sent, inbox, stream, appFiles>>
  BY DEF Respond, RespondIf, RespFailed, clientVars
<1>2. \A f \in Fd : fdt'[f] \in {fdt[f], Free, App}
  <2>1. CASE Respond
    BY <2>1 DEF Respond, RespondIf
  <2>2. CASE RespFailed
    BY <2>2 DEF RespFailed, CloseAll
  <2> QED BY <2>1, <2>2
<1>3. CASE NextItem
  <2>1. OwnerInv' /\ srv' \in SrvType /\ at' = "dispatch"
    BY <1>0, <1>2, <1>3, OwnerNext
  <2> QED BY <1>1, <2>1 DEF RestTypes, ServerPc
<1>4. CASE at' = "resp.header" /\ UNCHANGED srv
  <2>1. OwnerInv'
    BY <1>0, <1>2, <1>4, OwnerKept DEF Serving
  <2> QED BY <1>1, <1>4, <2>1 DEF RestTypes, ServerPc
<1> QED BY <1>3, <1>4 DEF Respond, RespondIf, RespFailed, Goto

\* Steps that are not the server's.
LEMMA OthersNet ==
    ASSUME NetInv,
           \/ StopServer \/ AppOpen \/ UNCHANGED vars
           \/ \E k \in Caster : CasterStep(k)
           \/ \E c \in Conn : ClientStep(c)
    PROVE  RestTypes' /\ OwnerInv'
<1> USE DEF NetInv
<1>1. UNCHANGED <<endpoint, at, srv>>
  BY DEF StopServer, AppOpen, CasterStep, CastBegin, CastPick, CastHeader, CastPayload, CastSend, CastReap,
         ClientStep, Connect, SendRequest, Leave, vars, serverVars, workVars
<1>2. \A f \in Fd : fdt'[f] \in {fdt[f], Free, App}
  <2>1. CASE AppOpen
    BY <2>1 DEF AppOpen, NextFd, LeakInv, LeakTypes
  <2>2. ASSUME NEW k \in Caster, CastReap(k) PROVE \A f \in Fd : fdt'[f] \in {fdt[f], Free, App}
    BY <2>2 DEF CastReap, CloseAll
  <2>3. CASE UNCHANGED fdt
    BY <2>3
  <2> QED
    BY <2>1, <2>2, <2>3 DEF StopServer, CasterStep, CastBegin, CastPick, CastHeader, CastPayload, CastSend,
       ClientStep, Connect, SendRequest, Leave, vars, serverVars, workVars
<1>3. OwnerInv'
  BY <1>1, <1>2, OwnerKept
<1>4. stream' \in [Conn -> Seq(Part)]
  <2>1. CASE UNCHANGED stream
    BY <2>1 DEF RestTypes
  <2>2. ASSUME NEW k \in Caster, CastHeader(k) \/ CastPayload(k) PROVE stream' \in [Conn -> Seq(Part)]
    <3>1. PICK half \in {"header", "payload"} :
              SendOk(cast[k].fd, CastPart(k, half)) \/ SendFail(cast[k].fd, CastPart(k, half))
      BY <2>2 DEF CastHeader, CastPayload, CastSend
    <3> QED BY <3>1, CastPartType, DeliveredType
  <2> QED
    BY <2>1, <2>2 DEF StopServer, AppOpen, CasterStep, CastBegin, CastPick, CastReap,
       ClientStep, Connect, SendRequest, Leave, vars, serverVars, workVars
<1>5. running' \in BOOLEAN
  BY DEF RestTypes, StopServer, AppOpen, CasterStep, CastBegin, CastPick, CastHeader, CastPayload, CastSend,
         CastReap, ClientStep, Connect, SendRequest, Leave, vars, serverVars, workVars
<1>6. appFiles' \in 0..MaxAppFile
  <2>1. CASE AppOpen
    BY <2>1, NetBoundAssumption DEF AppOpen, RestTypes
  <2>2. CASE UNCHANGED appFiles
    BY <2>2 DEF RestTypes
  <2> QED
    BY <2>1, <2>2
    DEF StopServer, CasterStep, CastBegin, CastPick, CastHeader, CastPayload, CastSend,
        CastReap, ClientStep, Connect, SendRequest, Leave, vars, serverVars, workVars
<1>7. /\ peer' \in [Conn -> {"idle", "connecting", "open", "left"}]
      /\ sent' \in [Conn -> 0..MaxReq]
      /\ inbox' \in [Conn -> Seq(Queued)]
  <2>1. CASE UNCHANGED clientVars
    BY <2>1 DEF clientVars, RestTypes
  <2>2. ASSUME NEW c \in Conn, Connect(c) \/ Leave(c) PROVE <1>7!:
    BY <2>2 DEF Connect, Leave, RestTypes
  <2>3. ASSUME NEW c \in Conn, NEW kind \in Kind, SendRequest(c, kind) PROVE <1>7!:
    <3>1. sent[c] + 1 \in 1..MaxReq
      BY <2>3, NetBoundAssumption DEF SendRequest, RestTypes
    <3>2. [kind |-> kind, n |-> sent[c] + 1] \in Queued
      BY <3>1 DEF Queued
    <3> QED BY <2>3, <3>1, <3>2 DEF SendRequest, RestTypes
  <2> QED
    BY <2>1, <2>2, <2>3 DEF StopServer, AppOpen, CasterStep, CastBegin, CastPick, CastHeader, CastPayload,
       CastSend, CastReap, ClientStep, vars, serverVars, workVars
<1> QED BY <1>1, <1>3, <1>4, <1>5, <1>6, <1>7 DEF RestTypes

\* Init establishes NetInv.
LEMMA InitNet == Init => NetInv
<1> SUFFICES ASSUME Init PROVE NetInv
  OBVIOUS
<1>1. srv \in SrvType
  BY DEF Init, SrvType, NoFds
<1>2. RestTypes
  BY <1>1, NetBoundAssumption DEF Init, RestTypes, ServerPc
<1>3. OwnerInv
  BY DEF Init, OwnerInv, Serving
<1> QED BY <1>2, <1>3, InitLeak DEF NetInv

\* Every step of server, clients, application and broadcasting threads keeps NetInv.
LEMMA NextNet == NetInv /\ [Next]_vars => NetInv'
<1> SUFFICES ASSUME NetInv, [Next]_vars PROVE RestTypes' /\ OwnerInv'
  BY NextLeak DEF NetInv
<1> QED
  BY MovesNet, LocalsNet, AcceptNet, ReadNet, DispatchNet, SendsNet, RespondNet, OthersNet
  DEF Next, ServerStep

\* For any number of clients, descriptors, broadcasting threads and requests, the server's
\* state is well typed.
THEOREM NetTypesKept == Spec => []TypeOK
<1>1. NetInv => TypeOK
  BY AllTypes DEF NetInv
<1> QED BY <1>1, InitNet, NextNet, PTL DEF Spec

\* For any number of clients, threads and descriptors of the application: what the server
\* thread writes for a request never reaches another client, whoever has closed the
\* descriptor since and whoever got its number.
THEOREM OutputOwn == Spec => []DirectOutput
<1>1. NetInv => DirectOutput
  BY DEF NetInv, OwnerInv, StillOf, Serving, DirectOutput
<1> QED BY <1>1, InitNet, NextNet, PTL DEF Spec


-----------------------------------------------------------------------------
(* The order of the responses.                                             *)

\* A connection has one descriptor at most, and none before it is accepted.
OneFd ==
    /\ \A f \in Fd, c \in Conn : fdt[f] = Sock(c) => peer[c] \in {"open", "left"}
    /\ \A f, g \in Fd, c \in Conn : fdt[f] = Sock(c) /\ fdt[g] = Sock(c) => f = g

\* The requests in a socket come after number m.
After(m, c) == \A j \in DOMAIN inbox[c] : m < inbox[c][j].n

\* The pending requests of connection c come after number m.
BeforePending(m, c) ==
    \A f \in Fd : \A j \in DOMAIN srv.pending[f] :
        srv.pending[f][j].conn = c => m < srv.pending[f][j].n

InboxOrder ==
    \A c \in Conn :
        /\ \A i \in DOMAIN inbox[c] : inbox[c][i].n <= sent[c]
        /\ \A i, j \in DOMAIN inbox[c] : i < j => inbox[c][i].n < inbox[c][j].n

PendingOrder ==
    /\ \A f \in Fd : \A i \in DOMAIN srv.pending[f] :
          LET p == srv.pending[f][i]
          IN p.n <= sent[p.conn] /\ After(p.n, p.conn)
    /\ \A f \in Fd : \A i, j \in DOMAIN srv.pending[f] :
          i < j => srv.pending[f][i].n < srv.pending[f][j].n
    /\ \A f, g \in Fd : \A i \in DOMAIN srv.pending[f], j \in DOMAIN srv.pending[g] :
          srv.pending[f][i].conn = srv.pending[g][j].conn => f = g

CurOrder ==
    at \in Serving =>
        LET p == srv.cur
        IN p.n <= sent[p.conn] /\ After(p.n, p.conn) /\ BeforePending(p.n, p.conn)

\* A part that begins a response.
Response(p) == p.thread = "server" /\ p.half = "header" /\ p.n > 0

\* The responses that have begun are to requests before those that still wait.
StreamOrder ==
    \A c \in Conn : \A i \in DOMAIN stream[c] :
        LET p == stream[c][i]
        IN Response(p) =>
              /\ p.n <= sent[c] /\ After(p.n, c) /\ BeforePending(p.n, c)
              /\ at \in Unanswered /\ srv.cur.conn = c => p.n < srv.cur.n


\* ResponsesInOrder in these terms.
LEMMA InOrder ==
    ResponsesInOrder <=>
        \A c \in Conn : \A i, j \in DOMAIN stream[c] :
            i < j /\ Response(stream[c][i]) /\ Response(stream[c][j]) => stream[c][i].n < stream[c][j].n
BY DEF ResponsesInOrder, Response

\* Every response in a stream was in it before, at its place.
NoNewResponse ==
    \A c \in Conn : \A i \in DOMAIN stream'[c] :
        Response(stream'[c][i]) => i \in DOMAIN stream[c] /\ stream'[c][i] = stream[c][i]

\* One part is added to a stream.
LEMMA Appended1 ==
    ASSUME RestTypes, NEW c \in Conn, NEW p \in Part, stream' = [stream EXCEPT ![c] = Append(@, p)]
    PROVE  /\ Len(stream[c]) \in Nat /\ DOMAIN stream[c] = 1..Len(stream[c])
           /\ DOMAIN stream'[c] = 1..(Len(stream[c]) + 1)
           /\ \A i \in 1..Len(stream[c]) : stream'[c][i] = stream[c][i]
           /\ stream'[c][Len(stream[c]) + 1] = p
           /\ \A d \in Conn \ {c} : stream'[d] = stream[d]
<1>1. stream \in [Conn -> Seq(Part)] /\ stream[c] \in Seq(Part)
  BY DEF RestTypes
<1>2. stream'[c] = Append(stream[c], p) /\ \A d \in Conn \ {c} : stream'[d] = stream[d]
  BY <1>1
<1> QED BY <1>1, <1>2

\* Sending any other part adds no response.
LEMMA OtherParts ==
    ASSUME RestTypes, NEW f, NEW part \in Part, ~Response(part), SendOk(f, part) \/ SendFail(f, part)
    PROVE  NoNewResponse
<1>1. CASE UNCHANGED stream
  BY <1>1 DEF NoNewResponse
<1>2. CASE Reaches(f, part)
  <2>1. PICK c \in Conn, p \in {part, [part EXCEPT !.half = "cut"]} :
            stream' = [stream EXCEPT ![c] = Append(@, p)]
    BY <1>2 DEF Reaches
  <2>2. p \in Part /\ ~Response(p)
    BY DEF Part, Response
  <2>3. /\ Len(stream[c]) \in Nat /\ DOMAIN stream[c] = 1..Len(stream[c])
        /\ DOMAIN stream'[c] = 1..(Len(stream[c]) + 1)
        /\ \A i \in 1..Len(stream[c]) : stream'[c][i] = stream[c][i]
        /\ stream'[c][Len(stream[c]) + 1] = p
        /\ \A d \in Conn \ {c} : stream'[d] = stream[d]
    BY <2>1, <2>2, Appended1
  <2> QED BY <2>2, <2>3 DEF NoNewResponse
<1> QED BY <1>1, <1>2, Delivered

\* The connections' descriptors: only accept4() opens a socket, for a connection that has
\* none.
LEMMA NextOneFd == NetInv /\ OneFd /\ [Next]_vars => OneFd'
<1> SUFFICES ASSUME NetInv, OneFd, [Next]_vars PROVE OneFd'
  OBVIOUS
<1>0. \A c, d : Sock(c) = Sock(d) => c = d
  <2>1. \A c : Sock(c).conn = c
    BY DEF Sock
  <2> QED BY <2>1
<1>s. \A c : Sock(c) # Free /\ Sock(c) # App
  <2>1. \A c : Sock(c).owner = "agent"
    BY DEF Sock
  <2>2. App.owner = "app" /\ Free.owner = "free"
    BY DEF App, Free
  <2> QED BY <2>1, <2>2
<1>k. ASSUME \A f \in Fd : fdt'[f] \in {fdt[f], Free, App},
             \A c \in Conn : peer[c] \in {"open", "left"} => peer'[c] \in {"open", "left"}
      PROVE  OneFd'
  <2>1. \A f \in Fd, c \in Conn : fdt'[f] = Sock(c) => fdt[f] = Sock(c)
    BY <1>k, <1>s
  <2> QED BY <1>k, <2>1 DEF OneFd
<1>u. CASE UNCHANGED <<fdt, peer>>
  BY <1>u DEF OneFd
<1>1. ASSUME NEW c \in Conn, Accept(c) PROVE OneFd'
  <2>1. PICK f \in NextFd : fdt' = [fdt EXCEPT ![f] = Sock(c)]
    BY <1>1 DEF Accept
  <2>2. f \in Fd /\ fdt \in [Fd -> {Free, App} \cup Socks] /\ peer \in [Conn -> {"idle", "connecting", "open", "left"}]
    BY DEF NextFd, NetInv, LeakInv, LeakTypes, RestTypes
  <2>3. peer' = [peer EXCEPT ![c] = "open"] /\ peer[c] = "connecting"
    BY <1>1 DEF Accept
  <2>4. \A g \in Fd : fdt[g] # Sock(c)
    BY <2>3 DEF OneFd
  <2>5. fdt'[f] = Sock(c) /\ \A g \in Fd \ {f} : fdt'[g] = fdt[g]
    BY <2>1, <2>2
  <2>6. peer'[c] = "open" /\ \A d \in Conn \ {c} : peer'[d] = peer[d]
    BY <2>2, <2>3
  <2>7. \A g \in Fd, d \in Conn : fdt'[g] = Sock(d) => (g = f /\ d = c) \/ (g # f /\ d # c /\ fdt[g] = Sock(d))
    BY <1>0, <2>4, <2>5
  <2> QED BY <2>6, <2>7 DEF OneFd
<1>2. CASE RespFailed \/ Cleanup \/ \E f \in Fd : CloseFd(f)
  BY <1>k, <1>2 DEF RespFailed, Cleanup, CloseFd, CloseAll, clientVars
<1>3. ASSUME NEW k \in Caster, CastReap(k) PROVE OneFd'
  BY <1>k, <1>3 DEF CastReap, CloseAll, clientVars
<1>4. CASE AppOpen
  <2>1. \A f \in Fd : fdt'[f] \in {fdt[f], Free, App}
    BY <1>4 DEF AppOpen, NextFd, NetInv, LeakInv, LeakTypes
  <2> QED BY <1>k, <1>4, <2>1 DEF AppOpen, clientVars
<1>5. ASSUME NEW c \in Conn, Connect(c) \/ Leave(c) PROVE OneFd'
  <2>1. \A d \in Conn : peer[d] \in {"open", "left"} => peer'[d] \in {"open", "left"}
    BY <1>5 DEF Connect, Leave, NetInv, RestTypes
  <2> QED BY <1>k, <1>5, <2>1 DEF Connect, Leave
<1>6. CASE \/ Bind \/ Snapshot \/ LoopEnd \/ Poll \/ PollFails \/ AcceptDone \/ List \/ Read \/ CloseDone
           \/ Dispatch \/ DispatchDone \/ EmitDirect \/ SendEventHeader \/ SendEventPayload
           \/ Respond \/ SendRespHeader \/ SendRespPayload
  BY <1>u, <1>6
  DEF Bind, Snapshot, LoopEnd, Poll, PollFails, AcceptDone, List, Read, CloseDone, Dispatch, DispatchDone,
      EmitDirect, SendEventHeader, SendEventPayload, Respond, RespondIf, SendRespHeader, SendRespPayload,
      clientVars
<1>7. CASE StopServer \/ UNCHANGED vars \/ \E c \in Conn, kind \in Kind : SendRequest(c, kind)
  BY <1>u, <1>7 DEF StopServer, SendRequest, vars, clientVars
<1>8. ASSUME NEW k \in Caster, CastBegin(k) \/ CastPick(k) \/ CastHeader(k) \/ CastPayload(k) PROVE OneFd'
  BY <1>u, <1>8 DEF CastBegin, CastPick, CastHeader, CastPayload, CastSend, clientVars
<1> QED
  BY <1>1, <1>2, <1>3, <1>4, <1>5, <1>6, <1>7, <1>8 DEF Next, ServerStep, CasterStep, ClientStep

\* The orders of requests and responses together.
Orders == InboxOrder /\ PendingOrder /\ CurOrder /\ StreamOrder /\ ResponsesInOrder

\* A step that begins no response and moves no request.
LEMMA OrdersKept ==
    ASSUME Orders, NoNewResponse, UNCHANGED <<inbox, sent>>, srv'.pending = srv.pending,
           at' \in Serving => at \in Serving /\ srv'.cur = srv.cur,
           at' \in Unanswered => at \in Unanswered
    PROVE  Orders'
<1>1. InboxOrder' /\ PendingOrder'
  BY DEF Orders, InboxOrder, PendingOrder, After
<1>2. \A m : \A c \in Conn : /\ After(m, c) => After(m, c)'
                             /\ BeforePending(m, c) => BeforePending(m, c)'
  BY DEF After, BeforePending
<1>3. CurOrder'
  BY DEF Orders, CurOrder, After, BeforePending
<1>4. Unanswered \subseteq Serving
  BY DEF Unanswered, Serving
<1>5. StreamOrder'
  BY <1>2, <1>4 DEF Orders, StreamOrder, NoNewResponse
<1>6. ResponsesInOrder'
  BY InOrder DEF Orders, ResponsesInOrder, Response, NoNewResponse
<1> QED BY <1>1, <1>3, <1>5, <1>6 DEF Orders


\* A client sends its next request.
LEMMA RequestOrders ==
    ASSUME NetInv, Orders, NEW c \in Conn, NEW kind \in Kind, SendRequest(c, kind)
    PROVE  Orders'
<1> DEFINE r == [kind |-> kind, n |-> sent[c] + 1]
<1>0. /\ inbox \in [Conn -> Seq(Queued)] /\ sent \in [Conn -> 0..MaxReq] /\ MaxReq \in Nat
      /\ srv \in SrvType /\ stream \in [Conn -> Seq(Part)]
  BY NetBoundAssumption DEF NetInv, RestTypes
<1>1. /\ sent' = [sent EXCEPT ![c] = @ + 1] /\ inbox' = [inbox EXCEPT ![c] = Append(@, r)]
      /\ UNCHANGED <<srv, at, stream>>
  BY DEF SendRequest, serverVars, workVars
<1>2. r.n = sent[c] + 1
  OBVIOUS
<1> HIDE DEF r
<1>3. /\ Len(inbox[c]) \in Nat /\ DOMAIN inbox[c] = 1..Len(inbox[c])
      /\ DOMAIN inbox'[c] = 1..(Len(inbox[c]) + 1)
      /\ \A i \in 1..Len(inbox[c]) : inbox'[c][i] = inbox[c][i]
      /\ inbox'[c][Len(inbox[c]) + 1] = r
      /\ \A d \in Conn \ {c} : inbox'[d] = inbox[d]
  <2>1. inbox[c] \in Seq(Queued) /\ inbox'[c] = Append(inbox[c], r)
        /\ \A d \in Conn \ {c} : inbox'[d] = inbox[d]
    BY <1>0, <1>1
  <2> QED BY <2>1
<1>4. sent'[c] = sent[c] + 1 /\ \A d \in Conn : sent[d] \in Int /\ sent'[d] \in Int /\ sent[d] <= sent'[d]
  BY <1>0, <1>1
<1>5. \A d \in Conn : \A i \in DOMAIN inbox[d] : inbox[d][i].n \in Int
  <2>1. \A d \in Conn : \A i \in DOMAIN inbox[d] : inbox[d][i] \in Queued
    BY <1>0
  <2> QED BY <2>1 DEF Queued
<1>a. \A d \in Conn : \A i \in DOMAIN inbox'[d] :
          \/ i \in DOMAIN inbox[d] /\ inbox'[d][i] = inbox[d][i]
          \/ d = c /\ i = Len(inbox[c]) + 1 /\ inbox'[d][i] = r
  BY <1>3
<1>6. InboxOrder'
  <2>0. \A d \in Conn : /\ \A i \in DOMAIN inbox[d] : inbox[d][i].n <= sent[d]
                        /\ \A i, j \in DOMAIN inbox[d] : i < j => inbox[d][i].n < inbox[d][j].n
    BY DEF Orders, InboxOrder
  <2>1. ASSUME NEW d \in Conn, NEW i \in DOMAIN inbox'[d] PROVE inbox'[d][i].n <= sent'[d]
    BY <1>2, <1>a, <1>4, <1>5, <2>0
  <2>2. ASSUME NEW d \in Conn, NEW i \in DOMAIN inbox'[d], NEW j \in DOMAIN inbox'[d], i < j
        PROVE  inbox'[d][i].n < inbox'[d][j].n
    <3>1. CASE j \in DOMAIN inbox[d] /\ inbox'[d][j] = inbox[d][j]
      <4>1. i \in DOMAIN inbox[d] /\ inbox'[d][i] = inbox[d][i]
        <5>1. CASE d = c
          BY <1>3, <2>2, <3>1, <5>1
        <5>2. CASE d # c
          BY <1>a, <5>2
        <5> QED BY <5>1, <5>2
      <4> QED BY <2>0, <2>2, <3>1, <4>1
    <3>2. CASE d = c /\ j = Len(inbox[c]) + 1 /\ inbox'[d][j] = r
      <4>1. i \in DOMAIN inbox[c] /\ inbox'[c][i] = inbox[c][i]
        BY <1>3, <2>2, <3>2
      <4> QED BY <1>2, <1>4, <1>5, <2>0, <3>2, <4>1
    <3> QED BY <1>a, <3>1, <3>2
  <2> QED BY <2>1, <2>2 DEF InboxOrder
<1>7. \A m \in Int : \A d \in Conn : m <= sent[d] /\ After(m, d) => m <= sent'[d] /\ After(m, d)'
  <2> SUFFICES ASSUME NEW m \in Int, NEW d \in Conn, m <= sent[d], After(m, d)
               PROVE  m <= sent'[d] /\ \A j \in DOMAIN inbox'[d] : m < inbox'[d][j].n
    BY DEF After
  <2>1. m <= sent'[d]
    BY <1>4
  <2>2. m < sent[c] + 1 \/ d # c
    BY <1>4
  <2> QED BY <1>2, <1>a, <2>1, <2>2 DEF After
<1>8. \A m : \A d \in Conn : BeforePending(m, d) => BeforePending(m, d)'
  BY <1>1 DEF BeforePending
<1>9. PendingOrder'
  <2>1. \A f \in Fd : \A i \in DOMAIN srv.pending[f] :
            srv.pending[f][i].n \in Int /\ srv.pending[f][i].conn \in Conn
    <3>1. \A f \in Fd : \A i \in DOMAIN srv.pending[f] : srv.pending[f][i] \in Item
      BY <1>0 DEF SrvType
    <3> QED BY <3>1 DEF Item
  <2> QED BY <1>1, <1>7, <2>1 DEF Orders, PendingOrder
<1>10. CurOrder'
  <2>1. at \in Serving => srv.cur.n \in Int /\ srv.cur.conn \in Conn
    BY DEF NetInv, OwnerInv, Request
  <2> QED BY <1>1, <1>7, <1>8, <2>1 DEF Orders, CurOrder
<1>11. StreamOrder'
  <2>1. \A d \in Conn : \A i \in DOMAIN stream[d] : stream[d][i].n \in Int
    <3>1. \A d \in Conn : \A i \in DOMAIN stream[d] : stream[d][i] \in Part
      BY <1>0
    <3> QED BY <3>1 DEF Part
  <2> QED BY <1>1, <1>7, <1>8, <2>1 DEF Orders, StreamOrder
<1>12. ResponsesInOrder'
  BY <1>1 DEF Orders, ResponsesInOrder
<1> QED BY <1>6, <1>9, <1>10, <1>11, <1>12 DEF Orders

\* A read moves requests from the sockets to the list, in order.
LEMMA ReadOrders ==
    ASSUME NetInv, OneFd, Orders, Read
    PROVE  Orders'
<1>0. \A f \in Fd :
          /\ \A i \in DOMAIN srv'.pending[f] :
                 \E c \in Conn : /\ fdt[f] = Sock(c) /\ inbox'[c] = << >>
                                 /\ srv'.pending[f][i].conn = c
                                 /\ \E j \in DOMAIN inbox[c] : srv'.pending[f][i].n = inbox[c][j].n
          /\ (\A c \in Conn : Growing(inbox[c])) => Growing(srv'.pending[f])
  BY ReadPending DEF NetInv
<1>1. UNCHANGED <<sent, stream>> /\ at' = "close"
  BY DEF Read, Goto
<1>2. \A c \in Conn : inbox'[c] \in {<< >>, inbox[c]}
  BY DEF Read, Consume
<1>3. \A c \in Conn : Growing(inbox[c])
  BY DEF Orders, InboxOrder, Growing
<1>4. InboxOrder'
  BY <1>1, <1>2 DEF Orders, InboxOrder
<1>5. \A m : \A c \in Conn : After(m, c) => After(m, c)' /\ BeforePending(m, c)'
  <2> SUFFICES ASSUME NEW m, NEW c \in Conn, After(m, c) PROVE After(m, c)' /\ BeforePending(m, c)'
    OBVIOUS
  <2>1. After(m, c)'
    BY <1>2 DEF After
  <2>2. BeforePending(m, c)'
    BY <1>0 DEF After, BeforePending
  <2> QED BY <2>1, <2>2
<1>6. PendingOrder'
  <2>1. ASSUME NEW f \in Fd, NEW i \in DOMAIN srv'.pending[f]
        PROVE  LET p == srv'.pending[f][i] IN p.n <= sent'[p.conn] /\ \A j \in DOMAIN inbox'[p.conn] : FALSE
    <3>1. PICK c \in Conn : /\ inbox'[c] = << >> /\ srv'.pending[f][i].conn = c
                            /\ \E j \in DOMAIN inbox[c] : srv'.pending[f][i].n = inbox[c][j].n
      BY <1>0
    <3> QED BY <1>1, <3>1 DEF Orders, InboxOrder
  <2>2. \A f \in Fd : Growing(srv'.pending[f])
    BY <1>0, <1>3
  <2>3. \A f, g \in Fd : \A i \in DOMAIN srv'.pending[f], j \in DOMAIN srv'.pending[g] :
            srv'.pending[f][i].conn = srv'.pending[g][j].conn => f = g
    BY <1>0 DEF OneFd
  <2> QED BY <2>1, <2>2, <2>3 DEF PendingOrder, After, Growing
<1>7. CurOrder'
  BY <1>1 DEF CurOrder, Serving
<1>8. StreamOrder'
  BY <1>1, <1>5 DEF Orders, StreamOrder, Unanswered
<1>9. ResponsesInOrder'
  BY <1>1 DEF Orders, ResponsesInOrder
<1> QED BY <1>4, <1>6, <1>7, <1>8, <1>9 DEF Orders

\* The first of a descriptor's requests is served before the others.
LEMMA DispatchOrders ==
    ASSUME NetInv, Orders, Dispatch
    PROVE  Orders'
<1>1. /\ UNCHANGED <<inbox, sent, stream>>
      /\ at' = "handler"
  BY DEF Dispatch, Serve, Goto, clientVars
<1>2. PICK f \in Fd : /\ srv.pending[f] # << >>
                      /\ srv'.cur = [fd |-> f, conn |-> Head(srv.pending[f]).conn, n |-> Head(srv.pending[f]).n]
                      /\ srv'.pending = [srv.pending EXCEPT ![f] = Tail(@)]
  BY DispatchNet
<1> DEFINE P == srv.pending
<1>3. P \in [Fd -> Seq(Item)]
  BY DEF NetInv, RestTypes, SrvType
<1>4. /\ 1 \in DOMAIN P[f] /\ srv'.cur.n = P[f][1].n /\ srv'.cur.conn = P[f][1].conn
      /\ \A i \in DOMAIN srv'.pending[f] :
             i \in Nat /\ i + 1 \in DOMAIN P[f] /\ i + 1 > 1 /\ srv'.pending[f][i] = P[f][i + 1]
      /\ \A g \in Fd \ {f} : srv'.pending[g] = P[g]
  <2>1. P[f] \in Seq(Item) /\ srv'.pending[f] = Tail(P[f]) /\ \A g \in Fd \ {f} : srv'.pending[g] = P[g]
    BY <1>2, <1>3
  <2>2. Len(P[f]) \in Nat /\ Len(P[f]) >= 1 /\ DOMAIN P[f] = 1..Len(P[f]) /\ Head(P[f]) = P[f][1]
    BY <1>2, <2>1
  <2>3. DOMAIN Tail(P[f]) = 1..(Len(P[f]) - 1)
        /\ \A i \in 1..(Len(P[f]) - 1) : Tail(P[f])[i] = P[f][i + 1]
    BY <1>2, <2>1
  <2>4. srv'.cur.n = P[f][1].n /\ srv'.cur.conn = P[f][1].conn
    BY <1>2, <2>2
  <2> HIDE DEF P
  <2>5. \A i \in 1..(Len(P[f]) - 1) : i \in Nat /\ i + 1 \in 1..Len(P[f]) /\ i + 1 > 1
    BY <2>2
  <2>6. 1 \in 1..Len(P[f])
    BY <2>2
  <2> QED BY <2>1, <2>2, <2>3, <2>4, <2>5, <2>6
<1> DEFINE From(g, i) == IF g = f THEN i + 1 ELSE i
<1>5. \A g \in Fd : \A i \in DOMAIN srv'.pending[g] :
          From(g, i) \in DOMAIN P[g] /\ srv'.pending[g][i] = P[g][From(g, i)]
  BY <1>4
<1>6. \A g \in Fd : \A i, j \in DOMAIN srv'.pending[g] : i < j => From(g, i) < From(g, j)
  BY <1>4
<1> HIDE DEF From, P
<1>7. InboxOrder'
  BY <1>1 DEF Orders, InboxOrder
<1>8. \A m : \A c \in Conn : /\ After(m, c) => After(m, c)'
                             /\ BeforePending(m, c) => BeforePending(m, c)'
  BY <1>1, <1>5 DEF After, BeforePending, P
<1>9. PendingOrder'
  <2>1. PendingOrder
    BY DEF Orders
  <2>2. /\ \A g \in Fd : \A i \in DOMAIN P[g] :
             P[g][i].n <= sent[P[g][i].conn] /\ \A j \in DOMAIN inbox[P[g][i].conn] : P[g][i].n < inbox[P[g][i].conn][j].n
        /\ \A g \in Fd : \A i, j \in DOMAIN P[g] : i < j => P[g][i].n < P[g][j].n
        /\ \A g, h \in Fd : \A i \in DOMAIN P[g], j \in DOMAIN P[h] : P[g][i].conn = P[h][j].conn => g = h
    BY <2>1 DEF PendingOrder, After, P
  <2>3. ASSUME NEW g \in Fd, NEW i \in DOMAIN srv'.pending[g]
        PROVE  LET p == srv'.pending[g][i]
               IN p.n <= sent'[p.conn] /\ \A j \in DOMAIN inbox'[p.conn] : p.n < inbox'[p.conn][j].n
    BY <1>1, <1>5, <2>2
  <2>4. ASSUME NEW g \in Fd, NEW i \in DOMAIN srv'.pending[g], NEW j \in DOMAIN srv'.pending[g], i < j
        PROVE  srv'.pending[g][i].n < srv'.pending[g][j].n
    BY <1>5, <1>6, <2>2, <2>4
  <2>5. ASSUME NEW g \in Fd, NEW h \in Fd, NEW i \in DOMAIN srv'.pending[g], NEW j \in DOMAIN srv'.pending[h],
               srv'.pending[g][i].conn = srv'.pending[h][j].conn
        PROVE  g = h
    BY <1>5, <2>2, <2>5
  <2> QED BY <2>3, <2>4, <2>5 DEF PendingOrder, After
<1>11. CurOrder'
  <2>1. P[f][1].n <= sent[P[f][1].conn] /\ After(P[f][1].n, P[f][1].conn)
    BY <1>4 DEF Orders, PendingOrder, P
  <2>2. ASSUME NEW g \in Fd, NEW j \in DOMAIN srv'.pending[g], srv'.pending[g][j].conn = P[f][1].conn
        PROVE  P[f][1].n < srv'.pending[g][j].n
    <3>1. g = f
      BY <1>4, <1>5, <2>2 DEF Orders, PendingOrder, P
    <3> QED BY <1>4, <3>1 DEF Orders, PendingOrder, P
  <2> QED BY <1>1, <1>4, <2>1, <2>2 DEF CurOrder, After, BeforePending
<1>12. StreamOrder'
  <2>1. \A c \in Conn : \A i \in DOMAIN stream[c] : Response(stream[c][i]) /\ P[f][1].conn = c => stream[c][i].n < P[f][1].n
    BY <1>4 DEF Orders, StreamOrder, BeforePending, P
  <2> QED BY <1>1, <1>4, <1>8, <2>1 DEF Orders, StreamOrder
<1>13. ResponsesInOrder'
  BY <1>1 DEF Orders, ResponsesInOrder
<1> QED BY <1>7, <1>9, <1>11, <1>12, <1>13 DEF Orders

\* The header of a response goes out after those of earlier requests.
LEMMA HeaderOrders ==
    ASSUME NetInv, Orders, SendRespHeader
    PROVE  Orders'
<1>0. at = "resp.header" /\ at \in Serving /\ at \in Unanswered /\ at' \in {"resp.payload", "resp.failed"}
      /\ UNCHANGED <<srv, inbox, sent>>
  BY DEF SendRespHeader, Serving, Unanswered, Goto, clientVars
<1> DEFINE part == ServerPart("header", FALSE)
<1>1. part \in Part /\ part.n = srv.cur.n /\ srv.cur.fd \in Fd /\ srv.cur.conn \in Conn
      /\ srv.cur.n \in 1..MaxReq
  BY <1>0, ServerPartType
<1>2. SendOk(srv.cur.fd, part) \/ SendFail(srv.cur.fd, part)
  BY DEF SendRespHeader
<1> HIDE DEF part
<1>3. at' \in Serving /\ at' \notin Unanswered
  BY <1>0 DEF Serving, Unanswered
<1>n. RestTypes /\ stream \in [Conn -> Seq(Part)]
  BY DEF NetInv, RestTypes
<1>4. CASE NoNewResponse
  BY <1>0, <1>3, <1>4, OrdersKept
<1>5. CASE Reaches(srv.cur.fd, part) /\ ~NoNewResponse
  <2>1. PICK c \in Conn, p \in {part, [part EXCEPT !.half = "cut"]} :
            fdt[srv.cur.fd] = Sock(c) /\ stream' = [stream EXCEPT ![c] = Append(@, p)]
    BY <1>5 DEF Reaches
  <2>2. c = srv.cur.conn
    <3>1. StillOf(srv.cur.fd, srv.cur.conn)
      BY <1>0 DEF NetInv, OwnerInv
    <3>2. \A d : Sock(d).owner = "agent" /\ Sock(d).conn = d
      BY DEF Sock
    <3>3. App.owner = "app" /\ Free.owner = "free"
      BY DEF App, Free
    <3> QED BY <2>1, <3>1, <3>2, <3>3 DEF StillOf
  <2>3. p \in Part /\ p.n = srv.cur.n
    BY <1>1 DEF Part
  <2>4. /\ Len(stream[c]) \in Nat /\ DOMAIN stream[c] = 1..Len(stream[c])
        /\ DOMAIN stream'[c] = 1..(Len(stream[c]) + 1)
        /\ \A i \in 1..Len(stream[c]) : stream'[c][i] = stream[c][i]
        /\ stream'[c][Len(stream[c]) + 1] = p
        /\ \A d \in Conn \ {c} : stream'[d] = stream[d]
    BY <1>n, <2>1, <2>3, Appended1
  <2>5. InboxOrder' /\ PendingOrder' /\ CurOrder'
    BY <1>0, <1>3 DEF Orders, InboxOrder, PendingOrder, CurOrder, After, BeforePending
  <2>6. \A m : \A d \in Conn : /\ After(m, d) => After(m, d)'
                               /\ BeforePending(m, d) => BeforePending(m, d)'
    BY <1>0 DEF After, BeforePending
  <2>7. p.n <= sent'[c] /\ After(p.n, c)' /\ BeforePending(p.n, c)'
    BY <1>0, <2>2, <2>3, <2>6 DEF Orders, CurOrder
  <2>8. \A d \in Conn : \A i \in DOMAIN stream'[d] :
            (i \in DOMAIN stream[d] /\ stream'[d][i] = stream[d][i]) \/ (d = c /\ stream'[d][i] = p)
    BY <2>4
  <2>9. StreamOrder'
    <3>1. \A d \in Conn : \A i \in DOMAIN stream[d] : Response(stream[d][i]) =>
              /\ stream[d][i].n <= sent[d]
              /\ After(stream[d][i].n, d) /\ BeforePending(stream[d][i].n, d)
      BY DEF Orders, StreamOrder
    <3> SUFFICES ASSUME NEW d \in Conn, NEW i \in DOMAIN stream'[d], Response(stream'[d][i])
                 PROVE  LET q == stream'[d][i]
                        IN q.n <= sent'[d] /\ (\A j \in DOMAIN inbox'[d] : q.n < inbox'[d][j].n)
                           /\ \A f \in Fd : \A j \in DOMAIN srv'.pending[f] :
                                 srv'.pending[f][j].conn = d => q.n < srv'.pending[f][j].n
      BY <1>3 DEF StreamOrder, After, BeforePending
    <3>2. CASE i \in DOMAIN stream[d] /\ stream'[d][i] = stream[d][i]
      BY <1>0, <3>1, <3>2 DEF After, BeforePending
    <3>3. CASE d = c /\ stream'[d][i] = p
      BY <2>7, <3>3 DEF After, BeforePending
    <3> QED BY <2>8, <3>2, <3>3
  <2>10. ResponsesInOrder'
    <3>1. \A i \in 1..Len(stream[c]) : Response(stream[c][i]) => stream[c][i].n < p.n
      BY <1>0, <2>2, <2>3, <2>4 DEF Orders, StreamOrder
    <3>2. ASSUME NEW d \in Conn, NEW i \in DOMAIN stream'[d], NEW j \in DOMAIN stream'[d],
                 i < j, Response(stream'[d][i]), Response(stream'[d][j])
          PROVE  stream'[d][i].n < stream'[d][j].n
      <4>1. \A k, l \in DOMAIN stream[d] :
               k < l /\ Response(stream[d][k]) /\ Response(stream[d][l]) => stream[d][k].n < stream[d][l].n
        BY InOrder DEF Orders
      <4>2. CASE d # c
        BY <2>4, <3>2, <4>1, <4>2
      <4>3. CASE d = c /\ j = Len(stream[c]) + 1
        BY <2>4, <3>1, <3>2, <4>3
      <4>4. CASE d = c /\ j # Len(stream[c]) + 1
        <5>1. i \in 1..Len(stream[c]) /\ j \in 1..Len(stream[c])
          BY <2>4, <3>2, <4>4
        <5>2. stream'[c][i] = stream[c][i] /\ stream'[c][j] = stream[c][j]
          BY <2>4, <5>1
        <5> QED BY <2>4, <3>2, <4>1, <4>4, <5>1, <5>2
      <4> QED BY <4>2, <4>3, <4>4
    <3> QED BY <3>2 DEF ResponsesInOrder, Response
  <2> QED BY <2>5, <2>9, <2>10 DEF Orders
<1>6. CASE UNCHANGED stream
  BY <1>4, <1>6 DEF NoNewResponse
<1> QED BY <1>2, <1>4, <1>5, <1>6, Delivered


\* Every step keeps the requests and the responses of each connection in order.
LEMMA NextOrders == NetInv /\ OneFd /\ Orders /\ [Next]_vars => Orders'
<1> SUFFICES ASSUME NetInv, OneFd, Orders, [Next]_vars PROVE Orders'
  OBVIOUS
<1>0. RestTypes /\ srv \in SrvType
  BY DEF NetInv, RestTypes
<1>u. UNCHANGED stream => NoNewResponse
  BY DEF NoNewResponse
<1>1. CASE \/ Bind \/ LoopEnd \/ PollFails \/ AcceptDone \/ List \/ CloseDone \/ DispatchDone \/ Cleanup
           \/ \E f \in Fd : CloseFd(f)
           \/ \E c \in Conn : Accept(c)
  <2>1. UNCHANGED <<stream, inbox, sent, srv>> /\ at' \notin Serving
    BY <1>1 DEF Bind, LoopEnd, PollFails, AcceptDone, List, CloseDone, DispatchDone, Cleanup, CloseFd, Accept,
                clientVars, Goto, Serving
  <2> QED BY <1>u, <2>1, OrdersKept DEF Serving, Unanswered
<1>2. CASE Snapshot \/ Poll \/ EmitDirect
  <2>1. UNCHANGED <<stream, inbox, sent>>
    BY <1>2 DEF Snapshot, Poll, EmitDirect, clientVars
  <2>2. srv'.pending = srv.pending /\ srv'.cur = srv.cur
    BY <1>0, <1>2 DEF Snapshot, Poll, EmitDirect, SrvType
  <2>3. (at' \in Serving => at \in Serving) /\ (at' \in Unanswered => at \in Unanswered)
    BY <1>2 DEF Snapshot, Poll, EmitDirect, Goto, Serving, Unanswered
  <2> QED BY <1>u, <2>1, <2>2, <2>3, OrdersKept
<1>3. CASE Read
  BY <1>3, ReadOrders
<1>4. CASE Dispatch
  BY <1>4, DispatchOrders
<1>5. CASE SendRespHeader
  BY <1>5, HeaderOrders
<1>6. CASE SendEventHeader \/ SendEventPayload \/ SendRespPayload
  <2>1. PICK half \in {"header", "payload"}, e \in BOOLEAN :
            /\ SendOk(srv.cur.fd, ServerPart(half, e)) \/ SendFail(srv.cur.fd, ServerPart(half, e))
            /\ half = "payload" \/ e
    BY <1>6 DEF SendEventHeader, SendEventPayload, SendRespPayload
  <2>2. at \in Serving
    BY <1>6 DEF SendEventHeader, SendEventPayload, SendRespPayload, Serving
  <2>3. ServerPart(half, e) \in Part /\ ~Response(ServerPart(half, e))
    BY <2>1, <2>2, ServerPartType DEF Response
  <2>4. NoNewResponse
    BY <1>0, <2>1, <2>3, OtherParts
  <2>5. UNCHANGED <<inbox, sent>>
    BY <1>6 DEF SendEventHeader, SendEventPayload, SendRespPayload, clientVars
  <2>6. CASE UNCHANGED srv
    <3>1. at' \in Unanswered => at \in Unanswered
      BY <1>6 DEF SendEventHeader, SendEventPayload, SendRespPayload, Goto, NextItem, Unanswered
    <3> QED BY <2>2, <2>4, <2>5, <2>6, <3>1, OrdersKept
  <2>7. CASE NextItem
    <3>1. at' = "dispatch" /\ srv'.pending = srv.pending
      BY <1>0, <2>7 DEF NextItem, Goto, SrvType
    <3> QED BY <2>4, <2>5, <3>1, OrdersKept DEF Serving, Unanswered
  <2> QED BY <1>6, <2>6, <2>7 DEF SendEventHeader, SendEventPayload, SendRespPayload
<1>7. CASE Respond \/ RespFailed
  <2>1. UNCHANGED <<stream, inbox, sent>>
    BY <1>7 DEF Respond, RespondIf, RespFailed, clientVars
  <2>2. CASE NextItem
    <3>1. at' = "dispatch" /\ srv'.pending = srv.pending
      BY <1>0, <2>2 DEF NextItem, Goto, SrvType
    <3> QED BY <1>u, <2>1, <3>1, OrdersKept DEF Serving, Unanswered
  <2>3. CASE at = "handler" /\ at' = "resp.header" /\ UNCHANGED srv
    BY <1>u, <2>1, <2>3, OrdersKept DEF Serving, Unanswered
  <2> QED BY <1>7, <2>2, <2>3 DEF Respond, RespondIf, RespFailed, Goto
<1>8. ASSUME NEW k \in Caster, CasterStep(k) PROVE Orders'
  <2>1. UNCHANGED <<inbox, sent, srv, at>>
    BY <1>8 DEF CasterStep, CastBegin, CastPick, CastHeader, CastPayload, CastSend, CastReap, clientVars,
                serverVars, workVars
  <2>2. NoNewResponse
    <3>1. CASE CastHeader(k) \/ CastPayload(k)
      <4>1. PICK half \in {"header", "payload"} :
                SendOk(cast[k].fd, CastPart(k, half)) \/ SendFail(cast[k].fd, CastPart(k, half))
        BY <3>1 DEF CastHeader, CastPayload, CastSend
      <4>2. CastPart(k, half) \in Part /\ CastPart(k, half).thread = k
        BY CastPartType DEF NetInv
      <4>3. ~Response(CastPart(k, half))
        BY <4>2, CasterAssumption DEF Response
      <4> QED BY <1>0, <4>1, <4>2, <4>3, OtherParts
    <3>2. CASE CastBegin(k) \/ CastPick(k) \/ CastReap(k)
      BY <1>u, <3>2 DEF CastBegin, CastPick, CastReap
    <3> QED BY <1>8, <3>1, <3>2 DEF CasterStep
  <2> QED BY <2>1, <2>2, OrdersKept
<1>9. ASSUME NEW c \in Conn, NEW kind \in Kind, SendRequest(c, kind) PROVE Orders'
  BY <1>9, RequestOrders
<1>10. CASE StopServer \/ AppOpen \/ UNCHANGED vars \/ \E c \in Conn : Connect(c) \/ Leave(c)
  <2>1. UNCHANGED <<stream, inbox, sent, srv, at>>
    BY <1>10 DEF StopServer, AppOpen, Connect, Leave, vars, clientVars, serverVars, workVars
  <2> QED BY <1>u, <2>1, OrdersKept
<1> QED
  BY <1>1, <1>2, <1>3, <1>4, <1>5, <1>6, <1>7, <1>8, <1>9, <1>10 DEF Next, ServerStep, ClientStep

\* For any number of clients, descriptors, broadcasting threads and requests, with events,
\* full buffers, failures and reused descriptors: the responses a client receives are in the
\* order of its requests, and none comes twice.
THEOREM OrderKept == Spec => []ResponsesInOrder
<1>1. Init => OneFd /\ Orders
  <2> SUFFICES ASSUME Init PROVE OneFd /\ Orders
    OBVIOUS
  <2>1. \A c : Sock(c) # Free
    <3>1. \A c : Sock(c).owner = "agent"
      BY DEF Sock
    <3>2. Free.owner = "free"
      BY DEF Free
    <3> QED BY <3>1, <3>2
  <2>2. OneFd
    BY <2>1 DEF Init, OneFd
  <2>3. /\ \A c \in Conn : DOMAIN inbox[c] = {} /\ DOMAIN stream[c] = {}
        /\ \A f \in Fd : DOMAIN srv.pending[f] = {}
        /\ at \notin Serving
    BY DEF Init, Serving
  <2> QED BY <2>2, <2>3 DEF Orders, InboxOrder, PendingOrder, CurOrder, StreamOrder, ResponsesInOrder
<1>2. NetInv /\ OneFd /\ Orders /\ [Next]_vars => (NetInv /\ OneFd /\ Orders)'
  BY NextNet, NextOneFd, NextOrders
<1>3. Orders => ResponsesInOrder
  BY DEF Orders
<1> QED BY <1>1, <1>2, <1>3, InitNet, PTL DEF Spec


-----------------------------------------------------------------------------
(* Frames.                                                                 *)

\* Nobody but the server thread writes, and no socket buffer is ever full.
OneWriter == Caster = {} /\ MayFill = {}

\* A header is followed by its payload.
Framed(q) ==
    \A i \in 1..Len(q) :
        /\ q[i].half # "cut"
        /\ q[i].half = "header" /\ i < Len(q) =>
               q[i + 1].half = "payload" /\ q[i + 1].thread = q[i].thread /\ q[i + 1].n = q[i].n

Halfway(q) == Len(q) > 0 /\ q[Len(q)].half = "header"
Payload == {"event.payload", "resp.payload"}

\* A stream ends in a header only if its client has left, or while the server is about to
\* send it the payload.
Cut(c) ==
    Halfway(stream[c]) =>
        /\ c \in Observed
        /\ \/ peer[c] = "left"
           \/ /\ at \in Payload /\ fdt[srv.cur.fd] = Sock(c)
              /\ stream[c][Len(stream[c])] = ServerPart("header", at = "event.payload")

FrameInv == \A c \in Conn : Framed(stream[c]) /\ Cut(c)

\* One more part keeps a stream framed if it is the payload that is due, or none is due.
LEMMA FrameAdded ==
    ASSUME NEW q \in Seq(Part), NEW p \in Part, Framed(q), p.half # "cut",
           Halfway(q) => p.half = "payload" /\ p.thread = q[Len(q)].thread /\ p.n = q[Len(q)].n
    PROVE  Framed(Append(q, p)) /\ (Halfway(Append(q, p)) <=> p.half = "header")
           /\ Append(q, p)[Len(Append(q, p))] = p
<1> DEFINE r == Append(q, p)
<1>1. /\ Len(q) \in Nat /\ Len(r) = Len(q) + 1 /\ r[Len(q) + 1] = p
      /\ \A i \in 1..Len(q) : r[i] = q[i]
  OBVIOUS
<1> HIDE DEF r
<1>2. ASSUME NEW i \in 1..Len(r)
      PROVE  /\ r[i].half # "cut"
             /\ r[i].half = "header" /\ i < Len(r) =>
                  r[i + 1].half = "payload" /\ r[i + 1].thread = r[i].thread /\ r[i + 1].n = r[i].n
  <2>1. CASE i = Len(q) + 1
    BY <1>1, <2>1
  <2>2. CASE i = Len(q)
    BY <1>1, <1>2, <2>2 DEF Framed, Halfway
  <2>3. CASE i \in 1..Len(q) /\ i + 1 \in 1..Len(q)
    BY <1>1, <1>2, <2>3 DEF Framed
  <2> QED BY <1>1, <1>2, <2>1, <2>2, <2>3
<1>3. Framed(r) /\ (Halfway(r) <=> p.half = "header") /\ r[Len(r)] = p
  BY <1>1, <1>2 DEF Framed, Halfway
<1> QED BY <1>3 DEF r

\* Steps that send nothing leave the frame that is being sent alone.
LEMMA QuietFrames ==
    ASSUME NetInv, FrameInv, stream' = stream,
           \A c \in Conn : peer[c] = "left" => peer'[c] = "left",
           at \in Payload => /\ at' = at /\ srv'.cur = srv.cur
                             /\ fdt[srv.cur.fd] \in Socks => fdt'[srv.cur.fd] = fdt[srv.cur.fd]
    PROVE  FrameInv'
<1> SUFFICES ASSUME NEW c \in Conn PROVE Cut(c)'
  BY DEF FrameInv
<1>1. Cut(c)
  BY DEF FrameInv
<1>2. Sock(c) \in Socks
  BY DEF Socks
<1> QED BY <1>1, <1>2 DEF Cut, ServerPart

\* The server sends a header: no stream waits for a payload, and this one then does.
LEMMA HeaderFrames ==
    ASSUME OneWriter, NetInv, FrameInv, SendEventHeader \/ SendRespHeader
    PROVE  FrameInv'
<1>0. /\ at \in Serving /\ at \notin Payload /\ UNCHANGED <<peer, srv, fdt>> /\ stream \in [Conn -> Seq(Part)]
  BY DEF SendEventHeader, SendRespHeader, Serving, Payload, clientVars, NetInv, RestTypes
<1>1. PICK e \in BOOLEAN :
        /\ e = (at = "event.header")
        /\ \/ SendOk(srv.cur.fd, ServerPart("header", e)) /\ at' = (IF e THEN "event.payload" ELSE "resp.payload")
           \/ SendFail(srv.cur.fd, ServerPart("header", e))
  BY DEF SendEventHeader, SendRespHeader, Goto
<1> DEFINE p == ServerPart("header", e)
<1>2. p \in Part /\ p.half = "header"
  BY <1>0, ServerPartType
<1> HIDE DEF p
<1>3. CASE stream' = stream
  BY <1>0, <1>3, QuietFrames
<1>4. CASE stream' # stream
  <2>1. PICK c \in Conn : /\ fdt[srv.cur.fd] = Sock(c) /\ peer[c] # "left" /\ c \in Observed
                          /\ stream' = [stream EXCEPT ![c] = Append(@, p)]
                          /\ at' = IF e THEN "event.payload" ELSE "resp.payload"
    BY <1>1, <1>4 DEF SendOk, SendFail, Received, OneWriter, p
  <2>2. ~Halfway(stream[c]) /\ Framed(stream[c])
    BY <1>0, <2>1 DEF FrameInv, Cut
  <2>3. stream[c] \in Seq(Part) /\ stream'[c] = Append(stream[c], p) /\ \A d \in Conn : d # c => stream'[d] = stream[d]
    BY <1>0, <2>1
  <2>4. Framed(stream'[c]) /\ stream'[c][Len(stream'[c])] = p
    BY <1>2, <2>2, <2>3, FrameAdded
  <2>5. p = ServerPart("header", e)' /\ (at' = "event.payload") = e /\ at' \in Payload
    BY <1>0, <2>1 DEF p, ServerPart, Payload
  <2>6. Cut(c)'
    BY <1>0, <2>1, <2>4, <2>5 DEF Cut
  <2>7. ASSUME NEW d \in Conn, d # c PROVE Framed(stream'[d]) /\ Cut(d)'
    BY <1>0, <2>3, <2>7 DEF FrameInv, Cut
  <2> QED BY <2>4, <2>6, <2>7 DEF FrameInv
<1> QED BY <1>3, <1>4

\* The server sends the payload of the header that it sent last.
LEMMA PayloadFrames ==
    ASSUME OneWriter, NetInv, FrameInv, SendEventPayload \/ SendRespPayload
    PROVE  FrameInv'
<1>0. /\ at \in Serving /\ at \in Payload /\ UNCHANGED <<peer, fdt>> /\ stream \in [Conn -> Seq(Part)]
  BY DEF SendEventPayload, SendRespPayload, Serving, Payload, clientVars, NetInv, RestTypes
<1>1. PICK e \in BOOLEAN :
        /\ e = (at = "event.payload")
        /\ SendOk(srv.cur.fd, ServerPart("payload", e)) \/ SendFail(srv.cur.fd, ServerPart("payload", e))
  BY DEF SendEventPayload, SendRespPayload
<1> DEFINE p == ServerPart("payload", e)
<1>2. p \in Part /\ p.half = "payload"
  BY <1>0, ServerPartType
<1>3. \A c, d : Sock(c) = Sock(d) => c = d
  BY DEF Sock
<1>4. \A c : Sock(c) # Free /\ Sock(c) # App
  <2>1. \A c : Sock(c).owner = "agent"
    BY DEF Sock
  <2>2. Free.owner = "free" /\ App.owner = "app"
    BY DEF Free, App
  <2> QED BY <2>1, <2>2
<1>5. ServerPart("header", e).thread = p.thread /\ ServerPart("header", e).n = p.n
  BY DEF ServerPart
<1> HIDE DEF p
<1>6. CASE stream' = stream
  <2>2. ASSUME NEW c \in Conn, fdt[srv.cur.fd] = Sock(c), peer[c] # "left" PROVE ~Halfway(stream[c])
    <3>1. c \notin Observed
      <4> SUFFICES ASSUME c \in Observed PROVE FALSE
        OBVIOUS
      <4>1. stream' = [stream EXCEPT ![c] = Append(@, p)]
        BY <1>1, <1>3, <1>4, <2>2 DEF SendOk, SendFail, Received, OneWriter, p
      <4>2. stream'[c] = Append(stream[c], p) /\ stream[c] \in Seq(Part)
        BY <1>0, <4>1
      <4>3. Len(stream'[c]) = Len(stream[c]) + 1 /\ Len(stream[c]) \in Nat
        BY <1>2, <4>2
      <4> QED BY <1>6, <4>3
    <3> QED BY <3>1 DEF FrameInv, Cut
  <2> QED BY <1>0, <1>6, <2>2 DEF FrameInv, Cut
<1>7. CASE stream' # stream
  <2>1. PICK c \in Conn : /\ fdt[srv.cur.fd] = Sock(c) /\ peer[c] # "left"
                          /\ stream' = [stream EXCEPT ![c] = Append(@, p)]
    BY <1>1, <1>7 DEF SendOk, SendFail, Received, OneWriter, p
  <2>2. Framed(stream[c]) /\ (Halfway(stream[c]) => stream[c][Len(stream[c])] = ServerPart("header", e))
    BY <1>1, <2>1 DEF FrameInv, Cut
  <2>3. stream[c] \in Seq(Part) /\ stream'[c] = Append(stream[c], p) /\ \A d \in Conn : d # c => stream'[d] = stream[d]
    BY <1>0, <2>1
  <2>4. Framed(stream'[c]) /\ ~Halfway(stream'[c])
    BY <1>2, <1>5, <2>2, <2>3, FrameAdded
  <2>5. ASSUME NEW d \in Conn, d # c PROVE Framed(stream'[d]) /\ Cut(d)'
    BY <1>0, <1>3, <2>1, <2>3, <2>5 DEF FrameInv, Cut
  <2> QED BY <2>4, <2>5 DEF FrameInv, Cut
<1> QED BY <1>6, <1>7

\* With the server thread as the only writer and no full buffers, whatever clients,
\* descriptors and the application do: in every stream a header is followed by its own
\* payload.  (A thread that broadcasts breaks it, and so does an event cut short.)
THEOREM FramesWhole ==
    ASSUME OneWriter
    PROVE  Spec => []FramesIntact
<1>1. Init => FrameInv
  BY DEF Init, FrameInv, Framed, Cut, Halfway
<1>2. NetInv /\ FrameInv => FramesIntact
  <2> SUFFICES ASSUME NetInv, FrameInv, NEW c \in Conn PROVE Framed(stream[c]) /\ DOMAIN stream[c] = 1..Len(stream[c])
    BY DEF FramesIntact, Framed
  <2>1. stream[c] \in Seq(Part)
    BY DEF NetInv, RestTypes
  <2> QED BY <2>1 DEF FrameInv
<1>3. NetInv /\ FrameInv /\ [Next]_vars => FrameInv'
  <2> SUFFICES ASSUME NetInv, FrameInv, [Next]_vars PROVE FrameInv'
    OBVIOUS
  <2>0. peer \in [Conn -> {"idle", "connecting", "open", "left"}] /\ fdt \in [Fd -> {Free, App} \cup Socks]
    BY DEF NetInv, RestTypes, LeakInv, LeakTypes
  <2>1. CASE SendEventHeader \/ SendRespHeader \/ SendEventPayload \/ SendRespPayload
    BY <2>1, HeaderFrames, PayloadFrames
  <2>2. ASSUME at \notin Payload, stream' = stream, \A c \in Conn : peer[c] = "left" => peer'[c] = "left"
        PROVE  FrameInv'
    BY <2>2, QuietFrames
  <2>3. CASE ServerStep /\ ~(SendEventHeader \/ SendRespHeader \/ SendEventPayload \/ SendRespPayload)
    <3>1. at \notin Payload /\ stream' = stream
      BY <2>3 DEF ServerStep, Bind, Snapshot, LoopEnd, Poll, PollFails, AcceptDone, List, Read, CloseDone,
           Dispatch, DispatchDone, EmitDirect, Respond, RespondIf, RespFailed, Cleanup, Accept, CloseFd, Payload
    <3>2. \A c \in Conn : peer[c] = "left" => peer'[c] = "left"
      BY <2>0, <2>3 DEF ServerStep, Bind, Snapshot, LoopEnd, Poll, PollFails, AcceptDone, List, Read, CloseDone,
           Dispatch, DispatchDone, EmitDirect, Respond, RespondIf, RespFailed, Cleanup, Accept, CloseFd, clientVars
    <3> QED BY <2>2, <3>1, <3>2
  <2>4. CASE StopServer \/ UNCHANGED vars
    BY <2>4, QuietFrames DEF StopServer, workVars, serverVars, clientVars, vars
  <2>5. CASE AppOpen
    <3>1. PICK f \in NextFd : fdt' = [fdt EXCEPT ![f] = App]
      BY <2>5 DEF AppOpen
    <3>2. f \in Fd /\ fdt[f] \notin Socks
      BY NextFdFree, NotSocks
    <3>3. \A g \in Fd : fdt[g] \in Socks => fdt'[g] = fdt[g]
      BY <2>0, <3>1, <3>2
    <3>4. at \in Payload => srv.cur.fd \in Fd
      BY DEF NetInv, OwnerInv, Payload, Serving, Request
    <3> QED BY <2>5, <3>3, <3>4, QuietFrames DEF AppOpen, serverVars, workVars, clientVars
  <2>6. ASSUME NEW c \in Conn, ClientStep(c) PROVE FrameInv'
    <3>1. UNCHANGED <<stream, at, srv, fdt>>
      BY <2>6 DEF ClientStep, Connect, Leave, SendRequest, serverVars, workVars
    <3>2. \A d \in Conn : peer[d] = "left" => peer'[d] = "left"
      BY <2>0, <2>6 DEF ClientStep, Connect, Leave, SendRequest
    <3> QED BY <3>1, <3>2, QuietFrames
  <2> QED BY <2>1, <2>3, <2>4, <2>5, <2>6 DEF Next, OneWriter
<1> QED BY <1>1, <1>2, <1>3, InitNet, NextNet, PTL DEF Spec

=============================================================================
