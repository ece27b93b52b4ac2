------------------------------ MODULE Session -------------------------------
(***************************************************************************)
(* A session from injection to exit: the injector that holds the main      *)
(* thread and runs calls in it (ptrace_inject.cpp), the agent's boot and   *)
(* re-arming threads (agent_main.cpp), the client that connects afterwards *)
(* (main.cpp, repl_client.cpp), and the gate of AgentGate between them.    *)
(*                                                                         *)
(* A remote call is a call made on the main thread with borrowed           *)
(* registers: it returns, is cut short by a signal, or does not return in  *)
(* time and is given up.  Of the breakpoints only those on dlopen matter   *)
(* here, which park a thread that loads the library named by --stop-lib,   *)
(* be it in a script with g_jsMutex held.  A client goes on when its       *)
(* request is answered or has waited long enough, so it may go on at any   *)
(* time; the worker takes the requests in order.                           *)
(***************************************************************************)
EXTENDS AgentGate, Sequences

CONSTANTS
    Js,          \* the thread of the server, which evaluates the requests
    Options,     \* the kinds of session that are started
    MaxRearm,    \* rounds of the re-arming thread (20 in the code)
    FallBackAt,  \* the round from which it resumes regardless (15)
    MaxHits,     \* bound on the times a thread is parked at dlopen
    MaxCmds,     \* bound on the commands typed
    MaxQueue     \* bound on the requests not yet taken by the worker

SessionKind ==
    [mode : {"attach", "pause", "auto"},   \* no gate, --pause or -W, ShouldAutoGateSpawn
     ui   : {"server", "eval", "repl"},
     cfg  : BOOLEAN,                       \* artpi_boot.cfg is written and read
     stop : BOOLEAN,                       \* --stop-lib
     hw   : BOOLEAN]                       \* the kernel grants breakpoints

ASSUME SessionAssumption ==
    /\ Options \subseteq SessionKind
    /\ Resumer = {"rearm", "js"}
    /\ Js \in Thr \ {Main}
    /\ MaxRearm \in Nat /\ FallBackAt \in Nat /\ FallBackAt < MaxRearm
    /\ MaxHits \in Nat /\ MaxCmds \in Nat /\ MaxQueue \in Nat

VARIABLES
    opt,          \* options and circumstances of the session
    inj,          \* the injector's next step
    inCall,       \* the target is in a remote call
    loaded,       \* a remote dlopen returned a handle
    stopPending,  \* a SIGSTOP was sent that no wait has consumed
    halted,       \* the target was stopped by it after the injector let go
    agent,        \* the agent thread
    server,       \* StartServer found a socket
    rearm,        \* the re-arming thread: round, step, autoResume
    monitor,      \* the breakpoints on dlopen exist
    armed,        \* threads that have them
    fellBack,     \* the re-arming thread resumed without the main thread armed
    cl,           \* the client's next step
    queue,        \* requests sent and not yet taken
    resuming,     \* the worker is in Process.resume, past re-arming
    inJs,         \* the thread in a user's script, which holds g_jsMutex, if any
    hooked,       \* a user's script has run, and may have left callbacks
    lost,         \* requests were lost when a client closed its socket
    hits, cmds    \* counters for the bounds

injVars    == <<inj, inCall, loaded, stopPending, halted>>
agentVars  == <<agent, server, rearm, monitor, armed, fellBack>>
jsVars     == <<inJs, hooked>>
clientVars == <<cl, queue, resuming, lost, cmds>>
sessionVars == <<gateVars, opt, injVars, agentVars, jsVars, clientVars, hits>>

SessionInit ==
    /\ GateInit
    /\ opt \in Options
    /\ inj = "attach" /\ inCall = FALSE /\ loaded = FALSE
    /\ stopPending = FALSE /\ halted = FALSE
    /\ agent = "none" /\ server = FALSE
    /\ rearm = [i |-> 0, at |-> "off", auto |-> FALSE]
    /\ monitor = FALSE /\ armed = {} /\ fellBack = FALSE
    /\ inJs = {} /\ hooked = FALSE
    /\ cl = "none" /\ queue = << >> /\ resuming = FALSE /\ lost = FALSE
    /\ hits = 0 /\ cmds = 0

----------------------------------------------------------------------------
(* The injector *)

Dlopen == {"dl1", "dl2", "dl3"}
Calls == Dlopen \cup {"mmap", "ns", "open", "close", "dlerror"}

\* InjectLibrary: the step after a remote call that succeeded or not.  dlopen is
\* first tried from a module of the application if one is mapped.
After(step, ok) ==
    CASE step = "mmap"    -> IF ok THEN {"dl1", "ns"} ELSE {"detach"}
      [] step = "dl1"     -> IF ok THEN {"gate"} ELSE {"ns"}
      [] step = "ns"      -> IF ok THEN {"dl2"} ELSE {"open"}
      [] step = "dl2"     -> IF ok THEN {"gate"} ELSE {"open"}
      [] step = "open"    -> IF ok THEN {"dl3"} ELSE {"dlerror"}
      [] step = "dl3"     -> {"close"}
      [] step = "close"   -> IF loaded THEN {"gate"} ELSE {"dlerror"}
      [] step = "dlerror" -> {"detach"}

\* It goes no further if the thread does not stop in time or a symbol is missing.
Attach ==
    /\ inj = "attach"
    /\ Hold
    /\ inj' \in {"mmap", "detach"}
    /\ UNCHANGED <<opt, inCall, loaded, stopPending, halted, agentVars, jsVars, clientVars, hits>>

\* Another tracer, --no-ptrace, or a refusal: the library is loaded without ptrace.
AttachRefused ==
    /\ inj = "attach"
    /\ inj' = "noptrace"
    /\ UNCHANGED <<gateVars, opt, inCall, loaded, stopPending, halted, agentVars, jsVars,
                   clientVars, hits>>

\* So it is if the first call cannot be started; the error of a later one is
\* overwritten, and the call counts as one that failed.
ContRefused ==
    /\ inj = "mmap" /\ ~inCall
    /\ Release
    /\ inj' = "noptrace"
    /\ UNCHANGED <<opt, inCall, loaded, stopPending, halted, agentVars, jsVars, clientVars, hits>>

\* InjectLibraryNoPtrace has some thread load the library, and waits for the handle.
NoPtraceEnds(ok) ==
    /\ inj = "noptrace"
    /\ ok => agent # "none"
    /\ inj' = "done" /\ loaded' = ok
    /\ cl' = IF ok THEN "discover" ELSE "gone"
    /\ UNCHANGED <<gateVars, opt, inCall, stopPending, halted, agentVars, jsVars, queue,
                   resuming, lost, cmds, hits>>

RemoteCall ==
    /\ inj \in Calls /\ ~inCall /\ ~stopPending
    /\ inCall' = TRUE /\ ctx' = "call"
    /\ UNCHANGED <<paused, gatePc, th, res, crossed, opt, inj, loaded, stopPending, halted,
                   agentVars, jsVars, clientVars, hits>>

\* The saved registers are put back, and the next step is taken.
Restore(ok) ==
    /\ ctx' = "own"
    /\ inCall' = FALSE
    /\ inj' \in After(inj, ok)
    /\ loaded' = (loaded \/ (inj \in Dlopen /\ ok))
    /\ UNCHANGED <<paused, gatePc, th, res, crossed, opt, halted, jsVars, clientVars, hits>>

\* The SIGSTOP of an earlier call that timed out ends this one at once.  Of dlopen
\* only x0 is looked at, which is its argument then.
RemoteCallSpoilt ==
    /\ inj \in Calls /\ ~inCall /\ stopPending
    /\ stopPending' = FALSE
    /\ Restore(inj \in Dlopen)
    /\ UNCHANGED agentVars

\* dlopen runs ArtPiAgentCtor, whose thread goes on by itself if it can be created.
ArtPiAgentCtor ==
    /\ (inCall /\ inj \in Dlopen) \/ inj = "noptrace"
    /\ agent = "none"
    /\ agent' \in {"boot", "dead"}
    /\ UNCHANGED <<gateVars, opt, injVars, server, rearm, monitor, armed, fellBack, jsVars,
                   clientVars, hits>>

RemoteCallReturns(ok) ==
    /\ inCall
    /\ (inj \in Dlopen /\ ok) => agent # "none"
    /\ Restore(ok)
    /\ UNCHANGED <<stopPending, agentVars>>

\* Another signal stops the thread inside dlopen.  RemoteCall fails, but has stored
\* x0, and that is all that is looked at: if it is not 0 the library counts as
\* loaded, although its constructor has not run.
RemoteCallCut ==
    /\ inCall /\ inj \in Dlopen /\ agent = "none"
    /\ Restore(TRUE)
    /\ UNCHANGED <<stopPending, agentVars>>

\* The stop that is waited for after SIGSTOP may be the call's own return.
\* Mutant: the registers are left as they are.
TimesOutUnrestored ==
    /\ inCall
    /\ stopPending' \in BOOLEAN
    /\ inCall' = FALSE /\ inj' \in After(inj, FALSE)
    /\ UNCHANGED <<gateVars, opt, loaded, halted, agentVars, jsVars, clientVars, hits>>
RemoteCallTimesOut ==
    /\ inCall
    /\ stopPending' \in BOOLEAN
    /\ Restore(FALSE)
    /\ UNCHANGED agentVars

\* The gate is set up if it is asked for and the library and its symbols are found;
\* the registers may be refused after the word is set.
SetGate ==
    /\ inj = "gate"
    /\ inj' = "detach"
    /\ \/ opt.mode # "attach" /\ (Poke \/ PokeOnly)
       \/ UNCHANGED gateVars
    /\ UNCHANGED <<opt, inCall, loaded, stopPending, halted, agentVars, jsVars, clientVars, hits>>

Detach ==
    /\ inj = "detach"
    /\ Release
    /\ halted' = stopPending
    /\ inj' = "done"
    /\ cl' = IF loaded THEN "discover" ELSE "gone"
    /\ UNCHANGED <<opt, inCall, loaded, stopPending, agentVars, jsVars, queue, resuming,
                   lost, cmds, hits>>

----------------------------------------------------------------------------
(* The agent *)

\* Threads that exist get the breakpoints, except one that the injector holds.
Armed ==
    IF monitor' /\ opt.hw
    THEN armed \cup {t \in Thr : th[t] # "held" /\ (t = Js => server)}
    ELSE armed

\* AgentThreadEntry: boot configuration, server and re-arming thread (which may not
\* be created), scripts.
AgentBoot ==
    /\ agent = "boot" /\ ~halted
    /\ agent' = "boot2"
    /\ monitor' \in {FALSE, opt.cfg}
    /\ armed' = Armed
    /\ rearm' = [rearm EXCEPT !.auto = opt.cfg /\ opt.mode = "auto"]
    /\ UNCHANGED <<gateVars, opt, injVars, server, fellBack, jsVars, clientVars, hits>>

AgentServe ==
    /\ agent = "boot2" /\ ~halted
    /\ agent' = "serve"
    /\ server' \in BOOLEAN
    /\ \E at \in {"arm", "none"} : rearm' = [rearm EXCEPT !.at = at]
    /\ UNCHANGED <<gateVars, opt, injVars, monitor, armed, fellBack, jsVars, clientVars, hits>>

InitJs ==
    /\ agent = "serve" /\ ~halted
    /\ agent' \in {"ready", "nojs"}
    /\ UNCHANGED <<gateVars, opt, injVars, server, rearm, monitor, armed, fellBack,
                   jsVars, clientVars, hits>>

\* A round of the re-arming thread.
\* Mutant: one round too many.
RearmArmLong ==
    /\ rearm.at = "arm" /\ ~halted
    /\ rearm' = [rearm EXCEPT !.at = IF rearm.i <= MaxRearm THEN "check" ELSE "end"]
    /\ UNCHANGED monitor
    /\ armed' = IF rearm.i <= MaxRearm THEN Armed ELSE armed
    /\ UNCHANGED <<gateVars, opt, injVars, agent, server, fellBack, jsVars, clientVars, hits>>
RearmArm ==
    /\ rearm.at = "arm" /\ ~halted
    /\ rearm' = [rearm EXCEPT !.at = IF rearm.i < MaxRearm THEN "check" ELSE "end"]
    /\ UNCHANGED monitor
    /\ armed' = IF rearm.i < MaxRearm THEN Armed ELSE armed
    /\ UNCHANGED <<gateVars, opt, injVars, agent, server, fellBack, jsVars, clientVars, hits>>

NextRound(auto) == [i |-> rearm.i + 1, at |-> "arm", auto |-> auto]
\* Mutant: autoResume is given up when the main thread cannot be armed.
DueArmed == rearm.auto /\ Main \in armed
Due == rearm.auto /\ (Main \in armed \/ rearm.i >= FallBackAt)

RearmCheck ==
    /\ rearm.at = "check" /\ ~halted
    /\ \/ ~Due /\ rearm' = NextRound(rearm.auto) /\ UNCHANGED <<gateVars, fellBack>>
       \/ /\ Due
          /\ fellBack' = (fellBack \/ Main \notin armed)
          /\ \/ Exchange("rearm") /\ rearm' = [rearm EXCEPT !.at = "wake", !.auto = FALSE]
             \/ paused = 0 /\ rearm' = NextRound(FALSE) /\ UNCHANGED gateVars
    /\ UNCHANGED <<opt, injVars, agent, server, monitor, armed, jsVars, clientVars, hits>>

RearmWake ==
    /\ rearm.at = "wake" /\ ~halted
    /\ Wake("rearm")
    /\ rearm' = NextRound(FALSE)
    /\ UNCHANGED <<opt, injVars, agent, server, monitor, armed, fellBack, jsVars, clientVars, hits>>

\* The worker takes a request when it has g_jsMutex; before InitJs it answers without
\* running it.  JsProcessResume re-arms before it opens the gate.
JsFree == inJs = {} /\ ~resuming /\ res["js"] = "idle"
\* Mutant: the exit's script only asks whether the process is paused.
ResumesAsked(req) == agent = "ready" /\ req = "resume"
Resumes(req) == agent = "ready" /\ (req = "resume" \/ (req = "exit" /\ paused = 1))
\* Mutant: the main thread is not armed first.
TakeResumeUnarmed(req) ==
    Resumes(req) /\ resuming' = TRUE /\ UNCHANGED <<monitor, armed, jsVars>>
TakeResume(req) ==
    /\ Resumes(req)
    /\ resuming' = TRUE
    /\ UNCHANGED <<monitor, jsVars>> /\ armed' = Armed

TakeWatch(req) ==
    /\ agent = "ready" /\ req = "watch"
    /\ monitor' \in {monitor, TRUE} /\ armed' = Armed
    /\ UNCHANGED <<resuming, jsVars>>

\* A script of the user may call the application, and hook it.
TakeScript(req) ==
    /\ agent = "ready" /\ req = "cmd"
    /\ inJs' = {Js} /\ hooked' = TRUE
    /\ UNCHANGED <<monitor, armed, resuming>>

TakeOther(req) ==
    /\ ~Resumes(req) /\ ~(agent = "ready" /\ req \in {"watch", "cmd"})
    /\ UNCHANGED <<monitor, armed, resuming, jsVars>>

Serve ==
    /\ server /\ JsFree /\ queue # << >> /\ ~halted
    /\ LET req == Head(queue)
       IN  TakeResume(req) \/ TakeWatch(req) \/ TakeScript(req) \/ TakeOther(req)
    /\ queue' = Tail(queue)
    /\ UNCHANGED <<gateVars, opt, injVars, agent, server, rearm, fellBack, cl, lost, cmds, hits>>

JsResume ==
    /\ resuming /\ ~halted
    /\ resuming' = FALSE
    /\ \/ Exchange("js")
       \/ paused = 0 /\ UNCHANGED gateVars
    /\ UNCHANGED <<opt, injVars, agentVars, jsVars, cl, queue, lost, cmds, hits>>

JsWake ==
    /\ ~halted
    /\ Wake("js")
    /\ UNCHANGED <<opt, injVars, agentVars, jsVars, clientVars, hits>>

----------------------------------------------------------------------------
(* Threads of the application, and the worker in a script *)

\* A thread at the gate goes on, and a thread in a script finishes it.
ScriptEnd(t) ==
    /\ t \in inJs /\ th[t] = "run"
    /\ inJs' = {}
    /\ UNCHANGED <<gateVars, hooked>>

AppThread(t) ==
    /\ ~halted
    /\ \/ (GateWait(t) \/ PauseStore(t)) /\ UNCHANGED jsVars
       \/ ScriptEnd(t)
    /\ UNCHANGED <<opt, injVars, agentVars, clientVars, hits>>

\* A hooked function is called, and its callback takes g_jsMutex.
Callback(t) ==
    /\ ~halted /\ hooked /\ t # Js /\ th[t] = "run" /\ JsFree
    /\ inJs' = {t}
    /\ UNCHANGED <<gateVars, opt, injVars, agentVars, hooked, clientVars, hits>>

Interrupted(t) ==
    /\ ~halted
    /\ FutexInterrupted(t)
    /\ UNCHANGED <<opt, injVars, agentVars, jsVars, clientVars, hits>>

\* An armed thread, in a script or not, loads the library of --stop-lib.
StopLib(t) ==
    /\ ~halted /\ opt.stop /\ t \in armed /\ hits < MaxHits
    /\ t = Js => t \in inJs
    /\ PausePc(t)
    /\ hits' = hits + 1
    /\ UNCHANGED <<opt, injVars, agentVars, jsVars, clientVars>>

----------------------------------------------------------------------------
(* The client *)

ClientStep(next) ==
    /\ cl' = next
    /\ UNCHANGED <<gateVars, opt, injVars, agentVars, jsVars, resuming, hits>>

Send(req, next) ==
    /\ Len(queue) < MaxQueue
    /\ queue' = Append(queue, req)
    /\ UNCHANGED lost
    /\ ClientStep(next)

Discover ==
    /\ cl = "discover"
    /\ ClientStep(IF server /\ opt.ui # "server" THEN "watch" ELSE "gone")
    /\ UNCHANGED <<queue, lost, cmds>>

Skip(next) == ClientStep(next) /\ UNCHANGED <<queue, lost>>

\* Each EvalScript has a connection of its own, which may fail.
EvalScript(req, next) == Send(req, next) \/ Skip(next)

\* HandleConnectedSession.
Watch ==
    /\ cl = "watch"
    /\ EvalScript("watch", "eval")
    /\ UNCHANGED cmds

Eval ==
    /\ cl = "eval"
    /\ LET next == IF opt.mode = "pause" THEN "repl" ELSE "resume"
       IN  IF opt.ui = "eval" THEN EvalScript("cmd", next) ELSE Skip(next)
    /\ UNCHANGED cmds

ResumeIfAutoGated ==
    /\ cl = "resume"
    /\ LET next == IF opt.ui = "eval" THEN "gone" ELSE "repl"
       IN  IF opt.mode = "auto" THEN EvalScript("resume", next) ELSE Skip(next)
    /\ UNCHANGED cmds

\* RunInteractiveSession.
Command(req) ==
    /\ cl = "repl" /\ cmds < MaxCmds
    /\ Send(req, "repl")
    /\ cmds' = cmds + 1

Exit ==
    /\ cl = "repl"
    /\ Send("exit", "close")
    /\ UNCHANGED cmds

\* The socket is closed; what the worker has not read may be lost.
Close ==
    /\ cl = "close"
    /\ queue' \in {queue, << >>}
    /\ lost' = (lost \/ queue' # queue)
    /\ ClientStep("gone")
    /\ UNCHANGED cmds

\* The client is killed in the middle.
Killed ==
    /\ cl \in {"watch", "eval", "resume", "repl"}
    /\ ClientStep("gone")
    /\ UNCHANGED <<queue, lost, cmds>>

\* Another client finds the agent, and attaches without injecting.
Reattach ==
    /\ inj = "done" /\ cl = "gone" /\ server /\ cmds < MaxCmds
    /\ ClientStep("repl")
    /\ UNCHANGED <<queue, lost, cmds>>

----------------------------------------------------------------------------
Injector ==
    \/ Attach \/ AttachRefused \/ ContRefused
    \/ RemoteCall \/ RemoteCallSpoilt \/ RemoteCallCut \/ RemoteCallTimesOut
    \/ SetGate \/ Detach
    \/ \E ok \in BOOLEAN : RemoteCallReturns(ok) \/ NoPtraceEnds(ok)

AgentThread == AgentBoot \/ AgentServe \/ InitJs
Rearm == RearmArm \/ RearmCheck \/ RearmWake
Worker == Serve \/ JsResume \/ JsWake
Client ==
    \/ Discover \/ Watch \/ Eval \/ ResumeIfAutoGated \/ Exit \/ Close \/ Killed \/ Reattach
    \/ \E req \in {"cmd", "resume"} : Command(req)

SessionNext ==
    \/ Injector \/ ArtPiAgentCtor \/ AgentThread \/ Rearm \/ Worker \/ Client
    \/ \E t \in Thr : AppThread(t) \/ Callback(t) \/ Interrupted(t) \/ StopLib(t)

\* Threads of the target and the injector go on; a person and the application's
\* own calls need not.  The worker gets g_jsMutex if it is free again and again.
SessionFairness ==
    /\ WF_sessionVars(Injector) /\ WF_sessionVars(AgentThread)
    /\ WF_sessionVars(Rearm) /\ SF_sessionVars(Worker)
    /\ \A t \in Thr : WF_sessionVars(AppThread(t))

SessionSpec == SessionInit /\ [][SessionNext]_sessionVars /\ SessionFairness

----------------------------------------------------------------------------
SessionTypeOK ==
    /\ GateTypeOK
    /\ opt \in Options
    /\ inj \in Calls \cup {"attach", "noptrace", "gate", "detach", "done"}
    /\ inCall \in BOOLEAN /\ loaded \in BOOLEAN /\ stopPending \in BOOLEAN /\ halted \in BOOLEAN
    /\ agent \in {"none", "dead", "boot", "boot2", "serve", "ready", "nojs"} /\ server \in BOOLEAN
    /\ rearm \in [i : 0..MaxRearm, at : {"off", "none", "arm", "check", "wake", "end"}, auto : BOOLEAN]
    /\ monitor \in BOOLEAN /\ armed \subseteq Thr /\ fellBack \in BOOLEAN
    /\ cl \in {"none", "discover", "watch", "eval", "resume", "repl", "close", "gone"}
    /\ queue \in Seq({"watch", "cmd", "resume", "exit"}) /\ Len(queue) <= MaxQueue
    /\ inJs \subseteq Thr /\ hooked \in BOOLEAN
    /\ resuming \in BOOLEAN /\ lost \in BOOLEAN
    /\ hits \in 0..MaxHits /\ cmds \in 0..MaxCmds

\* The main thread runs the application only with its own context: not with the
\* registers of a remote call, however that ended and whichever calls followed,
\* and from the gate to where it was stopped.
OwnRegisters == th[Main] # "held" /\ ~crossed => ctx \in {"own", "tramp"}

\* "Threads skipped during early boot ... must be fixed before the app executes"
\* (agent_native.cpp:1354): in a session gated for that, the main thread leaves the
\* gate with its breakpoints, unless they do not exist, the kernel refuses them,
\* or the time allowed for it has passed.
EarlyHooks ==
    [][opt.mode = "auto" /\ ctx = "tramp" /\ ctx' # "tramp"
        => Main \in armed \/ ~monitor \/ ~opt.hw \/ fellBack]_sessionVars

\* A main thread at the gate while autoResume is pending leaves it, whatever the
\* client does and whether or not it could be armed, unless the re-arming thread
\* could not be created or another thread closes the gate behind the resume.
Reclosed == \E t \in Thr \ {Main} : AtGate(t)
AutoResumed ==
    (ctx = "tramp" /\ rearm.auto)
        ~> (ctx # "tramp" \/ rearm.at = "none" \/ Reclosed \/ halted)

\* A resume that reaches a ready agent, the one of the exit included, opens the gate,
\* however often callbacks take g_jsMutex in between, unless the thread that holds
\* it is itself parked at the gate.
ResumeHeeded ==
    (agent = "ready" /\ \E i \in 1..Len(queue) : queue[i] \in {"resume", "exit"})
        ~> (paused = 0 \/ lost \/ halted \/ \E t \in inJs : AtGate(t))

\* agent_main.cpp:314: "so a broken cfg can never leave the app frozen".
NeverFrozen ==
    (opt.mode = "auto" /\ ctx = "tramp" /\ rearm.at \notin {"off", "none"})
        ~> (ctx # "tramp" \/ Reclosed \/ halted)
=============================================================================
