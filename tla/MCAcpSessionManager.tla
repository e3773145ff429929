--------------------------- MODULE MCAcpSessionManager ---------------------------
EXTENDS AcpSessionManager, TLC

\* What matters of an adapter that is gone, of a session that was forgotten and of a
\* mode nobody uses is that they are.
Creating(a) == \E s \in Session : creations[s] # None /\ creations[s].child = a
Holds(a) == IF a \in open \/ Creating(a) THEN holds[a] ELSE None
ModeOf(a) == IF Creating(a) \/ \E s \in Session : runtimes[s] # None /\ runtimes[s].child = a
                                                  /\ ~runtimes[s].dead
               THEN mode[a] ELSE "default"
Relevant ==
  <<mapVars, rows, proc, open, disposal, forgot, chosen, restarts,
    {a \in killed \cup lost : proc[a] = "up"},
    [s \in Session |-> IF s \in forgot THEN {} ELSE told[s]],
    [a \in Adapter |-> <<Holds(a), ModeOf(a)>>]>>

Interchangeable == Permutations(Session) \cup Permutations(Workspace) \cup Permutations(Adapter)
================================================================================
