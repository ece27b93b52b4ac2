----------------------------- MODULE MCPineHook -----------------------------
(* One method, hooked and called by one or two threads.                    *)
EXTENDS PineHook
=============================================================================
