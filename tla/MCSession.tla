----------------------------- MODULE MCSession ------------------------------
EXTENDS Session

\* Gated spawns of every client, with --stop-lib, with a broken configuration and
\* with breakpoints refused, and one session of each other kind.  A client that
\* attaches later gives the server sessions a REPL too.
Spawn(ui, stop, cfg, hw) ==
    [mode |-> "auto", ui |-> ui, cfg |-> cfg, stop |-> stop, hw |-> hw]
MCOptions ==
    {Spawn("eval", FALSE, TRUE, TRUE), Spawn("repl", FALSE, TRUE, TRUE),
     Spawn("server", TRUE, TRUE, TRUE), Spawn("server", FALSE, FALSE, TRUE),
     Spawn("server", FALSE, TRUE, FALSE),
     [mode |-> "pause", ui |-> "repl", cfg |-> TRUE, stop |-> FALSE, hw |-> TRUE],
     [mode |-> "attach", ui |-> "repl", cfg |-> TRUE, stop |-> TRUE, hw |-> TRUE]}

\* A spawn with a broken configuration that no client attends.
BrokenCfg == {Spawn("server", FALSE, FALSE, TRUE)}
=============================================================================
