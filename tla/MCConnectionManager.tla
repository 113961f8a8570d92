------------------------ MODULE MCConnectionManager ------------------------
(* Instances of ConnectionManager: who calls what in each deployment.      *)
EXTENDS ConnectionManager, TLC

CONSTANTS r1, r2  \* threads

ToolOps == Ops \ {"health", "force"}

\* stdio: one thread runs the tools, and there is no watchdog.
StdioOps == [t \in {r1} |-> ToolOps]

\* Streamable HTTP: beside the thread that runs the tools (the transaction tools,
\* which take the way of a list, left out), another one queries, probes and tears
\* down.
HttpOps == [t \in {r1, r2} |-> IF t = r1 THEN {"command", "read", "list", "connect", "disconnect"}
                               ELSE {"command", "health", "force"}]

SessionSymmetry == Permutations(Sessions)
=============================================================================
