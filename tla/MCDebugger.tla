----------------------------- MODULE MCDebugger -----------------------------
(* Instances of Debugger for TLC: who drives the machine.                  *)
EXTENDS Debugger, TLC

CONSTANTS d1, d2, m1, k1, k2, source, instruction

Everybody == Clients
EditAndRun == {"setBreakpoints", "agentBreakpoint", "nextOver"}
RunAndTell == Requests \ {"setBreakpoints", "agentBreakpoint", "nextOver"}
OneDriver == {d1}
Interchangeable == Permutations({k1, k2}) \cup Permutations({d1, d2})
  \cup Permutations({source, instruction})
=============================================================================
