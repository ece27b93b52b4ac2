------------------------------ MODULE AgentNet ------------------------------
(***************************************************************************)
(* The agent's command server (src/agent/agent_net.cpp).                   *)
(*                                                                         *)
(* One server thread polls, accepts, reads and answers requests.  Any      *)
(* other thread of the process may broadcast an event.  They share         *)
(* g_clients under g_clientMutex, but send to and close descriptors        *)
(* outside it, and a descriptor number that was closed may be handed out   *)
(* again: to the server's next accept(), or to the application.            *)
(*                                                                         *)
(* A critical section of g_clientMutex is one action, and so is each       *)
(* system call outside one.  Abstractions: a request or a frame is a       *)
(* record that says whose it is, a frame is its header and its payload,    *)
(* bytes of one request arrive together, g_clients is a bag of descriptors *)
(* (a descriptor can be listed twice), one event at most is emitted while  *)
(* a request is evaluated, calls interrupted by a signal are left out.     *)
(***************************************************************************)
EXTENDS Naturals, Sequences, FiniteSets

CONSTANTS
    Conn,        \* the connections clients may make
    Fd,          \* descriptor numbers
    Caster,      \* threads that broadcast events outside a request (hooks, tracers)
    Kind,        \* kinds of request clients send: "good", "malformed", "huge"
    MaxReq,      \* bound: requests a client sends
    MaxEvent,    \* bound: broadcasts of one thread
    MaxAppFile,  \* bound: descriptors the application opens
    MayFill,     \* connections whose socket buffer may be full
    MayStop,     \* whether StopServer() may be called
    Observed     \* connections whose incoming bytes are recorded

ASSUME FdAssumption == Fd \subseteq Nat \ {0} /\ IsFiniteSet(Fd)
ASSUME CasterAssumption == "server" \notin Caster
ASSUME KindAssumption == Kind \subseteq {"good", "malformed", "huge"}
ASSUME NetBoundAssumption ==
    /\ {MaxReq, MaxEvent, MaxAppFile} \subseteq Nat
    /\ MayFill \subseteq Conn /\ Observed \subseteq Conn
    /\ MayStop \in BOOLEAN

Free == [owner |-> "free"]
App  == [owner |-> "app"]
Sock(c) == [owner |-> "agent", conn |-> c]
Socks == {Sock(c) : c \in Conn}

VARIABLES
    running,   \* g_running
    endpoint,  \* "none", "tcp" or "unix": g_listenPort and g_unixName
    fdt,       \* the descriptor table of the process
    clients,   \* how often g_clients lists each descriptor
    peer,      \* what each client has done: "idle", "connecting", "open", "left"
    sent,      \* number of requests the client has sent
    inbox,     \* requests in its socket or its rbuf, not yet parsed
    stream,    \* the frame parts that have reached it
    at,        \* where the server thread is
    newFd,     \* nfd: accepted, not yet in g_clients
    toClose,   \* how often fdsToClose lists each descriptor
    srv,       \* its other locals
    cast,      \* the broadcasting threads
    appFiles   \* number of descriptors the application has opened

workVars   == <<at, newFd, toClose, srv>>
serverVars == <<running, endpoint, workVars>>
clientVars == <<peer, sent, inbox>>
vars == <<serverVars, clientVars, appFiles, fdt, clients, stream, cast>>

NoItem == [fd |-> 0, conn |-> "none", n |-> 0]
NoFds == [f \in Fd |-> 0]
Idle == [pc |-> "idle", left |-> MaxEvent, targets |-> NoFds, failed |-> NoFds, fd |-> 0]

ServerPc ==
    {"bind", "snapshot", "poll", "accept", "list", "read", "close", "dispatch", "handler",
     "event.header", "event.payload", "resp.header", "resp.payload", "resp.failed",
     "exit", "stopped", "failed"}

CasterPc == {"idle", "pick", "header", "payload"}

Request == [fd : Fd, conn : Conn, n : 1..MaxReq]

Part == [thread : Caster \cup {"server"}, half : {"header", "payload", "cut"},
         n : 0..(MaxReq + MaxEvent)]

TypeOK ==
    /\ running \in BOOLEAN
    /\ endpoint \in {"none", "tcp", "unix"}
    /\ fdt \in [Fd -> {Free, App} \cup Socks]
    /\ clients \in [Fd -> Nat]
    /\ peer \in [Conn -> {"idle", "connecting", "open", "left"}]
    /\ sent \in [Conn -> 0..MaxReq]
    /\ inbox \in [Conn -> Seq([kind : Kind, n : 1..MaxReq])]
    /\ stream \in [Conn -> Seq(Part)]
    /\ at \in ServerPc
    /\ newFd \in Fd \cup {0}
    /\ toClose \in [Fd -> Nat]
    /\ srv \in [pfds : [Fd -> Nat], ready : [Fd -> {"none", "in", "err"}], accepting : BOOLEAN,
                pending : [Fd -> Seq([conn : Conn, n : 1..MaxReq])],
                cur : Request \cup {NoItem}, emitted : BOOLEAN]
    /\ cast \in [Caster -> [pc : CasterPc, left : 0..MaxEvent, targets : [Fd -> Nat],
                            failed : [Fd -> Nat], fd : Fd \cup {0}]]
    /\ appFiles \in 0..MaxAppFile

\* StartServer() has returned true and the thread is about to bind.
Init ==
    /\ running = TRUE
    /\ endpoint = "none"
    /\ fdt = [f \in Fd |-> Free]
    /\ clients = NoFds
    /\ peer = [c \in Conn |-> "idle"]
    /\ sent = [c \in Conn |-> 0]
    /\ inbox = [c \in Conn |-> <<>>]
    /\ stream = [c \in Conn |-> <<>>]
    /\ at = "bind"
    /\ newFd = 0
    /\ toClose = NoFds
    /\ srv = [pfds |-> NoFds, ready |-> [f \in Fd |-> "none"], accepting |-> FALSE,
              pending |-> [f \in Fd |-> <<>>], cur |-> NoItem, emitted |-> FALSE]
    /\ cast = [k \in Caster |-> Idle]
    /\ appFiles = 0

-----------------------------------------------------------------------------
(* Descriptors and sockets.                                                *)

\* The kernel hands out the lowest free number.
NextFd == {f \in Fd : fdt[f] = Free /\ \A g \in Fd : fdt[g] = Free => f <= g}

Accepted(c) == \E f \in Fd : fdt[f] = Sock(c)

\* close() on every descriptor of F, whoever holds it now.
CloseAll(F) == fdt' = [f \in Fd |-> IF f \in F THEN Free ELSE fdt[f]]

Received(c, part) ==
    IF c \in Observed THEN [stream EXCEPT ![c] = Append(@, part)] ELSE stream

\* SendAll(): the part reaches the client, or the client has gone and it is
\* lost, or the descriptor is by now a socket of the application.
SendOk(f, part) ==
    \/ \E c \in Conn :
        /\ fdt[f] = Sock(c)
        /\ stream' = IF peer[c] = "left" THEN stream ELSE Received(c, part)
    \/ fdt[f] = App /\ UNCHANGED stream

\* SendAll() returns false: the peer reset, the descriptor is closed or is not a
\* socket, or the buffer is full (EAGAIN) after a prefix of the part, maybe empty.
SendFail(f, part) ==
    \/ fdt[f] \in {Free, App} /\ UNCHANGED stream
    \/ \E c \in Conn :
        /\ fdt[f] = Sock(c)
        /\ \/ peer[c] = "left" /\ UNCHANGED stream
           \/ /\ peer[c] # "left" /\ c \in MayFill
              /\ stream' \in {stream, Received(c, [part EXCEPT !.half = "cut"])}

-----------------------------------------------------------------------------
(* Clients and the application.                                            *)

Connect(c) ==
    /\ peer[c] = "idle" /\ endpoint # "none"
    /\ peer' = [peer EXCEPT ![c] = "connecting"]
    /\ UNCHANGED <<serverVars, sent, inbox, appFiles, fdt, clients, stream, cast>>

SendRequest(c, kind) ==
    /\ peer[c] \in {"connecting", "open"} /\ sent[c] < MaxReq
    /\ sent' = [sent EXCEPT ![c] = @ + 1]
    /\ inbox' = [inbox EXCEPT ![c] = Append(@, [kind |-> kind, n |-> sent[c] + 1])]
    /\ UNCHANGED <<serverVars, peer, appFiles, fdt, clients, stream, cast>>

Leave(c) ==
    /\ peer[c] = "open"
    /\ peer' = [peer EXCEPT ![c] = "left"]
    /\ UNCHANGED <<serverVars, sent, inbox, appFiles, fdt, clients, stream, cast>>

\* The application opens a file or a socket of its own.
AppOpen ==
    /\ appFiles < MaxAppFile
    /\ \E f \in NextFd : fdt' = [fdt EXCEPT ![f] = App]
    /\ appFiles' = appFiles + 1
    /\ UNCHANGED <<serverVars, clientVars, clients, stream, cast>>

-----------------------------------------------------------------------------
(* The server thread: ServerWorker().                                      *)

\* The server moves on and changes nothing but what the action says.
Goto(pc) == at' = pc

\* On to the next pending request.
NextItem == Goto("dispatch") /\ srv' = [srv EXCEPT !.cur = NoItem, !.emitted = FALSE]

Listed == {f \in Fd : clients[f] > 0}

\* The bag of descriptors B without (up to) the ones of C.
Less(B, C) == [f \in Fd |-> IF B[f] > C[f] THEN B[f] - C[f] ELSE 0]

\* TCP, else an abstract AF_UNIX socket, else the thread returns.
Bind ==
    /\ at = "bind"
    /\ \/ endpoint' \in {"tcp", "unix"} /\ Goto("snapshot")
       \/ endpoint' = "none" /\ Goto("failed")
    /\ UNCHANGED <<running, newFd, toClose, srv, clientVars, appFiles, fdt, clients, stream, cast>>

\* The loop head: g_running, then g_clients is copied to the poll set.
Snapshot ==
    /\ at = "snapshot" /\ running
    /\ Goto("poll")
    /\ srv' = [srv EXCEPT !.pfds = clients]
    /\ UNCHANGED <<running, endpoint, newFd, toClose, clientVars, appFiles, fdt, clients, stream, cast>>

LoopEnd ==
    /\ at = "snapshot" /\ ~running
    /\ Goto("exit")
    /\ UNCHANGED <<running, endpoint, newFd, toClose, srv, clientVars, appFiles, fdt, clients, stream, cast>>

\* What poll() may report for descriptor f: data or end of file, an error.
Events(f) ==
    CASE fdt[f] = Free -> {"err"}
      [] fdt[f] = App  -> {"none", "in"}
      [] fdt[f] \in Socks ->
           LET c == fdt[f].conn
           IN IF peer[c] = "left" THEN {"in", "err"}
              ELSE IF inbox[c] # <<>> THEN {"in"} ELSE {"none"}

Poll ==
    /\ at = "poll"
    /\ \E ready \in [Fd -> {"none", "in", "err"}] :
        /\ \A f \in Fd : IF srv.pfds[f] > 0 THEN ready[f] \in Events(f) ELSE ready[f] = "none"
        /\ srv' = [srv EXCEPT !.ready = ready,
                              !.accepting = \E c \in Conn : peer[c] = "connecting"]
    /\ Goto("accept")
    /\ UNCHANGED <<running, endpoint, newFd, toClose, clientVars, appFiles, fdt, clients, stream, cast>>

\* poll() fails: the loop is left although g_running is set.
PollFails ==
    /\ at = "poll"
    /\ Goto("exit")
    /\ UNCHANGED <<running, endpoint, newFd, toClose, srv, clientVars, appFiles, fdt, clients, stream, cast>>

\* accept4() until it fails: nothing is waiting, or no descriptor is left.
Accept(c) ==
    /\ at = "accept" /\ srv.accepting
    /\ peer[c] = "connecting"
    /\ \E f \in NextFd :
        /\ fdt' = [fdt EXCEPT ![f] = Sock(c)]
        /\ newFd' = f
    /\ peer' = [peer EXCEPT ![c] = "open"]
    /\ Goto("list")
    /\ UNCHANGED <<running, endpoint, toClose, srv, sent, inbox, appFiles, clients, stream, cast>>

AcceptDone ==
    /\ at = "accept"
    /\ srv.accepting => NextFd = {} \/ \A c \in Conn : peer[c] # "connecting"
    /\ Goto("read")
    /\ UNCHANGED <<running, endpoint, newFd, toClose, srv, clientVars, appFiles, fdt, clients, stream, cast>>

\* Mutant: the accepted descriptor is not listed.
ListForgotten ==
    /\ at = "list"
    /\ newFd' = 0
    /\ Goto("accept")
    /\ UNCHANGED <<running, endpoint, toClose, srv, clientVars, appFiles, fdt, clients, stream, cast>>

\* Under the lock, the accepted descriptor is added to g_clients.
List ==
    /\ at = "list"
    /\ clients' = [clients EXCEPT ![newFd] = @ + 1]
    /\ newFd' = 0
    /\ Goto("accept")
    /\ UNCHANGED <<running, endpoint, toClose, srv, clientVars, appFiles, fdt, stream, cast>>

\* The prefix of a request queue that is parsed: an oversized frame ends it.
Parsed(q) ==
    LET huge == {i \in DOMAIN q : q[i].kind = "huge"}
    IN IF huge = {} THEN q
       ELSE SubSeq(q, 1, (CHOOSE i \in huge : \A j \in huge : i <= j) - 1)

\* The requests of q that go to the handler: a malformed one is dropped.
Good(c, q) ==
    LET good == {i \in DOMAIN q : q[i].kind = "good"}
        nth(k) == CHOOSE i \in good : Cardinality({j \in good : j <= i}) = k
    IN [k \in 1..Cardinality(good) |-> [conn |-> c, n |-> q[nth(k)].n]]

\* The polled entries that are still in g_clients.
Polled == {f \in Listed : srv.pfds[f] > 0}

\* Those recv() reads from; POLLIN may be stale by now.
Readable == {f \in Polled : srv.ready[f] = "in" /\ fdt[f] \in Socks}

\* How many entries of f the read section removes: one for an oversized frame,
\* every polled one for an error or for the end of the stream.  recv() fails on
\* the descriptors in bad.
Removed(f, bad) ==
    LET every == IF srv.pfds[f] < clients[f] THEN srv.pfds[f] ELSE clients[f]
    IN CASE f \in Polled /\ srv.ready[f] = "err" -> every
         [] f \in Polled /\ srv.ready[f] = "in" /\ f \in bad -> every
         [] f \in Readable /\ peer[fdt[f].conn] = "left" -> every
         [] f \in Readable /\ peer[fdt[f].conn] # "left"
              /\ Parsed(inbox[fdt[f].conn]) # inbox[fdt[f].conn] -> 1
         [] OTHER -> 0

\* recv() fails on a closed descriptor, and on the application's unless it is a
\* socket with nothing to say.
RecvFails ==
    LET app == {f \in Fd : fdt[f] = App}
    IN {{f \in Fd : fdt[f] = Free} \cup A : A \in SUBSET app}

\* What recv() and the frame loop leave behind.
Consume ==
    /\ inbox' = [c \in Conn |-> IF \E f \in Readable : fdt[f] = Sock(c) THEN <<>> ELSE inbox[c]]
    /\ srv' = [srv EXCEPT
          !.pfds = NoFds, !.ready = [f \in Fd |-> "none"], !.accepting = FALSE,
          !.pending = [f \in Fd |-> IF f \in Readable THEN Good(fdt[f].conn, Parsed(inbox[fdt[f].conn]))
                                    ELSE <<>>]]

\* Under the lock: every polled descriptor that is still a client is read,
\* its complete frames are parsed, and the ones that ended are unlisted.
Read ==
    /\ at = "read"
    /\ Consume
    /\ \E bad \in RecvFails :
        /\ toClose' = [f \in Fd |-> Removed(f, bad)]
        /\ clients' = Less(clients, [f \in Fd |-> Removed(f, bad)])
    /\ Goto("close")
    /\ UNCHANGED <<running, endpoint, newFd, peer, sent, appFiles, fdt, stream, cast>>

\* "Close sockets outside mutex", one after the other.
CloseFd(f) ==
    /\ at = "close" /\ toClose[f] > 0
    /\ CloseAll({f})
    /\ toClose' = [toClose EXCEPT ![f] = @ - 1]
    /\ UNCHANGED <<running, endpoint, at, newFd, srv, clientVars, appFiles, clients, stream, cast>>

CloseDone ==
    /\ at = "close" /\ toClose = NoFds
    /\ Goto("dispatch")
    /\ UNCHANGED <<running, endpoint, newFd, toClose, srv, clientVars, appFiles, fdt, clients, stream, cast>>

\* SetCurrentClientFd(item.fd), with the item taken off the list.
Serve(fd, item, rest) ==
    /\ srv' = [srv EXCEPT !.cur = [fd |-> fd, conn |-> item.conn, n |-> item.n], !.pending = rest]
    /\ Goto("handler")

\* Mutants: the item's descriptor is mixed up, or the list is served backwards.
DispatchMixed ==
    /\ at = "dispatch"
    /\ \E f \in Fd, g \in Listed : /\ srv.pending[f] # <<>>
                   /\ Serve(g, Head(srv.pending[f]), [srv.pending EXCEPT ![f] = Tail(@)])
    /\ UNCHANGED <<running, endpoint, newFd, toClose, clientVars, appFiles, fdt, clients, stream, cast>>
DispatchLast ==
    /\ at = "dispatch"
    /\ \E f \in Fd : /\ srv.pending[f] # <<>>
                     /\ Serve(f, srv.pending[f][Len(srv.pending[f])],
                              [srv.pending EXCEPT ![f] = SubSeq(@, 1, Len(@) - 1)])
    /\ UNCHANGED <<running, endpoint, newFd, toClose, clientVars, appFiles, fdt, clients, stream, cast>>

\* The next request goes to the handler, outside the lock.
Dispatch ==
    /\ at = "dispatch"
    /\ \E f \in Fd : /\ srv.pending[f] # <<>>
                     /\ Serve(f, Head(srv.pending[f]), [srv.pending EXCEPT ![f] = Tail(@)])
    /\ UNCHANGED <<running, endpoint, newFd, toClose, clientVars, appFiles, fdt, clients, stream, cast>>

DispatchDone ==
    /\ at = "dispatch"
    /\ \A f \in Fd : srv.pending[f] = <<>>
    /\ Goto("snapshot")
    /\ UNCHANGED <<running, endpoint, newFd, toClose, srv, clientVars, appFiles, fdt, clients, stream, cast>>

\* BroadcastEvent() on the server thread: if the descriptor is still a client's.
EmitDirect ==
    /\ at = "handler" /\ ~srv.emitted
    /\ srv' = [srv EXCEPT !.emitted = TRUE]
    /\ Goto(IF srv.cur.fd \in Listed THEN "event.header" ELSE "handler")
    /\ UNCHANGED <<running, endpoint, newFd, toClose, clientVars, appFiles, fdt, clients, stream, cast>>

ServerPart(half, isEvent) ==
    [thread |-> "server", half |-> half, n |-> IF isEvent THEN 0 ELSE srv.cur.n]

\* SendFrame() of the event; its result is ignored.
SendEventHeader ==
    /\ at = "event.header"
    /\ \/ SendOk(srv.cur.fd, ServerPart("header", TRUE)) /\ Goto("event.payload")
       \/ SendFail(srv.cur.fd, ServerPart("header", TRUE)) /\ Goto("handler")
    /\ UNCHANGED <<running, endpoint, newFd, toClose, srv, clientVars, appFiles, fdt, clients, cast>>

SendEventPayload ==
    /\ at = "event.payload"
    /\ SendOk(srv.cur.fd, ServerPart("payload", TRUE)) \/ SendFail(srv.cur.fd, ServerPart("payload", TRUE))
    /\ Goto("handler")
    /\ UNCHANGED <<running, endpoint, newFd, toClose, srv, clientVars, appFiles, fdt, clients, cast>>

\* The response goes out next if ok, else it is dropped.
RespondIf(ok) ==
    /\ at = "handler"
    /\ IF ok THEN Goto("resp.header") /\ UNCHANGED srv ELSE NextItem
    /\ UNCHANGED <<running, endpoint, newFd, toClose, clientVars, appFiles, fdt, clients, stream, cast>>

\* Mutant: the validity check is inverted.
RespondInverted == RespondIf(srv.cur.fd \notin Listed)

\* The handler returned; the response goes out if the descriptor is a client's.
Respond == RespondIf(srv.cur.fd \in Listed)

SendRespHeader ==
    /\ at = "resp.header"
    /\ \/ SendOk(srv.cur.fd, ServerPart("header", FALSE)) /\ Goto("resp.payload")
       \/ SendFail(srv.cur.fd, ServerPart("header", FALSE)) /\ Goto("resp.failed")
    /\ UNCHANGED <<running, endpoint, newFd, toClose, srv, clientVars, appFiles, fdt, clients, cast>>

SendRespPayload ==
    /\ at = "resp.payload"
    /\ \/ SendOk(srv.cur.fd, ServerPart("payload", FALSE)) /\ NextItem
       \/ SendFail(srv.cur.fd, ServerPart("payload", FALSE)) /\ Goto("resp.failed") /\ UNCHANGED srv
    /\ UNCHANGED <<running, endpoint, newFd, toClose, clientVars, appFiles, fdt, clients, cast>>

\* The response could not be sent: one entry goes, the descriptor is closed, listed or not.
RespFailed ==
    /\ at = "resp.failed"
    /\ clients' = Less(clients, [f \in Fd |-> IF f = srv.cur.fd THEN 1 ELSE 0])
    /\ CloseAll({srv.cur.fd})
    /\ NextItem
    /\ UNCHANGED <<running, endpoint, newFd, toClose, clientVars, appFiles, stream, cast>>

StopServer ==
    /\ MayStop /\ running
    /\ running' = FALSE
    /\ UNCHANGED <<endpoint, workVars, clientVars, appFiles, fdt, clients, stream, cast>>

\* The loop has ended: all clients are closed under the lock.
Cleanup ==
    /\ at = "exit"
    /\ CloseAll(Listed)
    /\ clients' = NoFds
    /\ endpoint' = IF endpoint = "tcp" THEN "none" ELSE endpoint
    /\ Goto("stopped")
    /\ UNCHANGED <<running, newFd, toClose, srv, clientVars, appFiles, stream, cast>>

-----------------------------------------------------------------------------
(* BroadcastEvent() on a thread that is not serving a request.             *)

CastBegin(k) ==
    /\ cast[k].pc = "idle" /\ cast[k].left > 0
    /\ cast' = [cast EXCEPT ![k] = [cast[k] EXCEPT !.pc = "pick", !.left = @ - 1, !.targets = clients]]
    /\ UNCHANGED <<serverVars, clientVars, appFiles, fdt, clients, stream>>

CastPart(k, half) == [thread |-> k, half |-> half, n |-> cast[k].left]

CastPick(k) ==
    /\ cast[k].pc = "pick"
    /\ \E f \in Fd :
        /\ cast[k].targets[f] > 0
        /\ cast' = [cast EXCEPT ![k] = [cast[k] EXCEPT !.pc = "header", !.fd = f, !.targets[f] = @ - 1]]
    /\ UNCHANGED <<serverVars, clientVars, appFiles, fdt, clients, stream>>

\* SendFrame() to one target; a failure is remembered.
CastSend(k, half, next) ==
    /\ cast[k].pc = half
    /\ \/ /\ SendOk(cast[k].fd, CastPart(k, half))
          /\ cast' = [cast EXCEPT ![k].pc = next]
       \/ /\ SendFail(cast[k].fd, CastPart(k, half))
          /\ cast' = [cast EXCEPT ![k] = [cast[k] EXCEPT !.pc = "pick", !.failed[cast[k].fd] = @ + 1]]
    /\ UNCHANGED <<serverVars, clientVars, appFiles, fdt, clients>>

CastHeader(k)  == CastSend(k, "header", "payload")
CastPayload(k) == CastSend(k, "payload", "pick")

\* Mutant: the failed descriptors are unlisted and never closed.
CastReapLeak(k) ==
    /\ cast[k].pc = "pick" /\ cast[k].targets = NoFds
    /\ clients' = Less(clients, cast[k].failed)
    /\ cast' = [cast EXCEPT ![k] = [cast[k] EXCEPT !.pc = "idle", !.failed = NoFds, !.fd = 0]]
    /\ UNCHANGED <<serverVars, clientVars, appFiles, fdt, stream>>

\* Under the lock: an entry of each failed descriptor goes, and the descriptor
\* is closed, listed or not.
CastReap(k) ==
    /\ cast[k].pc = "pick" /\ cast[k].targets = NoFds
    /\ clients' = Less(clients, cast[k].failed)
    /\ CloseAll({f \in Fd : cast[k].failed[f] > 0})
    /\ cast' = [cast EXCEPT ![k] = [cast[k] EXCEPT !.pc = "idle", !.failed = NoFds, !.fd = 0]]
    /\ UNCHANGED <<serverVars, clientVars, appFiles, stream>>

-----------------------------------------------------------------------------
ServerStep ==
    \/ Bind \/ Snapshot \/ LoopEnd \/ Poll \/ PollFails \/ AcceptDone \/ List \/ Read \/ CloseDone
    \/ Dispatch \/ DispatchDone
    \/ EmitDirect \/ SendEventHeader \/ SendEventPayload
    \/ Respond \/ SendRespHeader \/ SendRespPayload \/ RespFailed \/ Cleanup
    \/ \E c \in Conn : Accept(c)
    \/ \E f \in Fd : CloseFd(f)

CasterStep(k) == CastBegin(k) \/ CastPick(k) \/ CastHeader(k) \/ CastPayload(k) \/ CastReap(k)

ClientStep(c) == Connect(c) \/ Leave(c) \/ \E kind \in Kind : SendRequest(c, kind)

Next ==
    \/ ServerStep \/ StopServer \/ AppOpen
    \/ \E k \in Caster : CasterStep(k)
    \/ \E c \in Conn : ClientStep(c)

\* The server thread keeps being scheduled.
Spec == Init /\ [][Next]_vars
FairSpec == Spec /\ WF_vars(ServerStep)

-----------------------------------------------------------------------------
(* What the server promises.                                               *)

\* No socket is leaked, whatever the threads do: every connection that is open is
\* in g_clients, or the server is about to list it or to close it.
NoSocketLeak ==
    \A f \in Fd : fdt[f] \in Socks => f \in Listed \/ f = newFd \/ toClose[f] > 0

\* "Direct output exclusively to the invoking REPL client to prevent cross-talk":
\* what the server thread writes after it dropped g_clientMutex reaches the client whose
\* request it serves or no client, although the descriptor may have been closed by
\* another thread and its number handed out again (to the application, for one).
DirectOutput ==
    at \in {"event.header", "event.payload", "resp.header", "resp.payload"} =>
        fdt[srv.cur.fd] \in {Free, App, Sock(srv.cur.conn)}

\* "[4-byte big-endian length][payload]": a header is followed by its own payload
\* in every stream, up to the last part.
FramesIntact ==
    \A c \in Conn : \A i \in DOMAIN stream[c] :
        /\ stream[c][i].half # "cut" \/ i = Len(stream[c])
        /\ stream[c][i].half = "header" /\ i < Len(stream[c]) =>
               /\ stream[c][i + 1].half \in {"payload", "cut"}
               /\ stream[c][i + 1].thread = stream[c][i].thread
               /\ stream[c][i + 1].n = stream[c][i].n

\* Responses go out in the order of the requests, and none goes out twice.
ResponsesInOrder ==
    \A c \in Conn : \A i, j \in DOMAIN stream[c] :
        LET a == stream[c][i]
            b == stream[c][j]
        IN i < j /\ a.thread = "server" /\ b.thread = "server" /\ a.half = "header"
             /\ b.half = "header" /\ a.n > 0 /\ b.n > 0 => a.n < b.n

Answered(c, n) ==
    \E i \in DOMAIN stream[c] : stream[c][i] = [thread |-> "server", half |-> "payload", n |-> n]

Asked(c, n) ==
    \/ \E i \in DOMAIN inbox[c] : inbox[c][i] = [kind |-> "good", n |-> n]
    \/ \E f \in Fd : \E i \in DOMAIN srv.pending[f] : srv.pending[f][i] = [conn |-> c, n |-> n]

\* A request that was read is answered, unless its client left, sent an oversized
\* frame, or the agent closed the connection or stopped.
RequestsAnswered ==
    \A c \in Observed, n \in 1..MaxReq :
        Asked(c, n) /\ Accepted(c) ~> Answered(c, n) \/ peer[c] = "left" \/ ~Accepted(c)
=============================================================================
