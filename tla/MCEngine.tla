------------------------------ MODULE MCEngine ------------------------------
(* Instances of Engine for TLC: who uses which operations.                 *)
EXTENDS Engine, TLC

CONSTANTS a, b, c

\* One client drives, one does anything, one reads, edits and loads.
Mixed == (a :> Drivers) @@ (b :> Calls) @@ (c :> {"edit", "load", "type_load"})

\* A debugger that runs, a second client that edits and pauses, a third that
\* only reads.
OneRunner == (a :> {"run"}) @@ (b :> {"edit", "pause"}) @@ (c :> {"edit"})

\* The same, where the third also puts a tape in and has it typed in.
RunnerAndTape == [OneRunner EXCEPT ![c] = {"edit", "type_load"}]

\* Two clients that both press Run, and one of them Pause.
TwoRunners == (a :> {"run"}) @@ (b :> {"run", "pause"})
=============================================================================
