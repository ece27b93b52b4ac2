----------------------------- MODULE MCAgentNet -----------------------------
(***************************************************************************)
(* AgentNet for TLC.  One run ranges over two loads: a crowd of clients    *)
(* that connect, ask once and leave while the server may be stopped, and   *)
(* one client that pipelines requests of every kind while the application  *)
(* opens descriptors of its own.  Only the second client's stream is       *)
(* recorded.                                                               *)
(***************************************************************************)
EXTENDS AgentNet

CONSTANT Pipeliner    \* the client that pipelines

VARIABLE load         \* what this behaviour's clients do

\* A crowd asks good questions, one each, and the pipeliner stays away; or the
\* pipeliner is alone and the server is not told to stop.
Keeps ==
    \/ /\ load = "crowd"
       /\ peer'[Pipeliner] = "idle"
       /\ appFiles' = 0
       /\ \A c \in Conn : sent'[c] <= 1 /\ \A i \in DOMAIN inbox'[c] : inbox'[c][i].kind = "good"
    \/ /\ load = "pipeline"
       /\ running'
       /\ \A c \in Conn \ {Pipeliner} : peer'[c] = "idle"

LoadInit == Init /\ load \in {"crowd", "pipeline"}
LoadNext == Next /\ Keeps /\ UNCHANGED load
LoadSpec == LoadInit /\ [][LoadNext]_<<vars, load>> /\ WF_vars(ServerStep)
=============================================================================
