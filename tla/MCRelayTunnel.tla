----------------------------- MODULE MCRelayTunnel -----------------------------
EXTENDS RelayTunnel, TLC

\* A socket that is closed and whose onOpen has ended does nothing more; landed is asked
\* only of one that registers.
Gone(w) == ready[w] = "closed" /\ at[w] \in {"registered", "over"}
Relevant ==
  <<[w \in Socket |-> IF Gone(w) THEN "gone" ELSE <<on[w], at[w], ready[w]>>],
    {w \in landed : at[w] = "registering"}, managerVars, directoryVars, processVars>>

Interchangeable ==
  Permutations(Machine) \cup Permutations(Socket) \cup Permutations(Request)
================================================================================
