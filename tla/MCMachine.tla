----------------------------- MODULE MCMachine ------------------------------
(* The parts of the machine, for TLC: the tape deck, watchpoints, the Z80's  *)
(* control unit, calls and profile, the memory's paging, the ULA's hold on   *)
(* the clock, the server's advert, and what works on data alone (MCData).    *)
(* They share none of the state that is modelled, so each behaviour moves    *)
(* one of them, part, and the rest stay.                                     *)
EXTENDS TapePlays, Registry, Paging, Z80Control, Watchpoints, MCData

CONSTANTS
  StackSpace, Sites, MAX_DEPTH, MAX_NODES, MaxCalls,             \* Calls
  WORST_PERIODS, Marker, MaxInstructions, MaxPeriods,            \* Periods
  Groups, Border                                                 \* Contention

VARIABLES
  part,
  sp, cells, calls, known, call_stack, call_stack_sp, profile,
  periods, told,
  bus

-----------------------------------------------------------------------------
(* Tapes: a header and its turbo part, and one that stops between a pulse  *)
(* block and a header.  A length of 0 stands for a pulse too short to be   *)
(* seen between two reads of the port.                                     *)

Plain ==
  [pulses |-> <<>>, pilot |-> 0, pilot_t |-> 1, sync1 |-> 1, sync2 |-> 1,
   data |-> <<>>, pause |-> 0, stop |-> FALSE, standard |-> FALSE]

Header     == [Plain EXCEPT !.pilot = 1, !.sync2 = 0, !.data = <<<<1>>>>, !.pause = 2, !.standard = TRUE]
Turbo      == [Plain EXCEPT !.data = <<<<1, 0>>, <<0>>>>]
StopHere   == [Plain EXCEPT !.stop = TRUE]
PulseBlock == [Plain EXCEPT !.pulses = <<1, 0>>]

Tapes == {<<Header, Turbo>>, <<PulseBlock, StopHere, Header>>}

(* Watchpoints: every kind of interest, at both ends of the space, alone   *)
(* and overlapping.                                                        *)

Untested == [kind |-> "none"]
Zero == [kind |-> "equals", value |-> 0]
Kinds == {[read |-> TRUE,  write |-> FALSE, change |-> FALSE, test |-> Untested,  enabled |-> TRUE],
          [read |-> FALSE, write |-> TRUE,  change |-> TRUE,  test |-> Untested,  enabled |-> TRUE],
          [read |-> TRUE,  write |-> TRUE,  change |-> FALSE, test |-> Untested,  enabled |-> TRUE],
          [read |-> FALSE, write |-> TRUE,  change |-> FALSE, test |-> Zero, enabled |-> TRUE],
          [read |-> TRUE,  write |-> TRUE,  change |-> TRUE,  test |-> Untested,  enabled |-> FALSE]}
Spread == {[addr |-> 0, length |-> 1], [addr |-> 2, length |-> 2]}
Interest(r, k, b) ==
  [addr |-> r.addr, length |-> r.length, bank |-> b, read |-> k.read, write |-> k.write,
   change |-> k.change, test |-> k.test, enabled |-> k.enabled]
Some == {Interest(r, k, AnyBank) : r \in Spread, k \in Kinds}
   \cup {Interest(r, k, 5) : r \in {[addr |-> 0, length |-> 2]}, k \in Kinds}

(* What a program writes to port 0x7FFD, and what it does to SP.           *)

Port(b, r, s, l) == [bank |-> b, rom1 |-> r, shadow |-> s, lock |-> l]
Written7FFD == {Port(5, TRUE, FALSE, FALSE), Port(7, FALSE, TRUE, FALSE),
                Port(7, TRUE, FALSE, TRUE), Port(0, FALSE, TRUE, TRUE)}
Shifted == {-2, 1, 2, 3}

-----------------------------------------------------------------------------
CallsOf == INSTANCE Calls WITH Space <- StackSpace, Shifts <- Shifted
Profile == INSTANCE Periods
Ula == INSTANCE Contention

callsVars == <<sp, cells, calls, known, call_stack, call_stack_sp, profile>>
periodsVars == <<periods, told>>
cpuVars == <<watchVars, cpu, callsVars, periodsVars, bus>>
allVars == <<part, vars, cpuVars, registryVars, pagingVars, dataVars>>

Parts == {"tape", "watch", "z80", "calls", "periods", "bus", "advert", "paging",
          "images", "recordings", "snapshots", "symbols", "sound", "alu"}

\* Of what does not move, what no property looks at is left out.
AbsentCalls ==
  /\ sp = "absent" /\ cells = "absent" /\ calls = "absent" /\ known = "absent"
  /\ call_stack = "absent" /\ call_stack_sp = "absent" /\ profile = "absent"
MachineInit ==
  /\ part \in Parts
  /\ Init /\ PagingInit /\ Z80Init /\ WatchInit
  /\ RegistryInit /\ (part # "advert" => g_program = none)
  /\ IF part = "calls" THEN CallsOf!CallsInit ELSE AbsentCalls
  /\ IF part = "periods" THEN Profile!PeriodsInit ELSE periods = "absent" /\ told = "absent"
  /\ IF part = "bus" THEN Ula!ContentionInit ELSE bus = "absent"
  /\ DataInit(part)

CpuNext ==
  \/ part = "watch" /\ WatchNext /\ UNCHANGED <<cpu, callsVars, periodsVars, bus>>
  \/ part = "z80" /\ Z80Next /\ UNCHANGED <<watchVars, callsVars, periodsVars, bus>>
  \/ part = "calls" /\ CallsOf!CallsNext /\ UNCHANGED <<watchVars, cpu, periodsVars, bus>>
  \/ part = "periods" /\ Profile!PeriodsNext /\ UNCHANGED <<watchVars, cpu, callsVars, bus>>
  \/ part = "bus" /\ Ula!ContentionNext /\ UNCHANGED <<watchVars, cpu, callsVars, periodsVars>>

MachineNext ==
  /\ UNCHANGED part
  /\ \/ part = "tape" /\ Next /\ UNCHANGED <<cpuVars, registryVars, pagingVars, dataVars>>
     \/ part = "advert" /\ RegistryNext /\ UNCHANGED <<vars, cpuVars, pagingVars, dataVars>>
     \/ part = "paging" /\ PagingNext /\ UNCHANGED <<vars, cpuVars, registryVars, dataVars>>
     \/ CpuNext /\ UNCHANGED <<vars, registryVars, pagingVars, dataVars>>
     \/ DataNext(part) /\ UNCHANGED <<vars, cpuVars, registryVars, pagingVars>>

MachineSpec ==
  /\ MachineInit /\ [][MachineNext]_allVars
  /\ WF_vars(part = "tape" /\ Walk)

-----------------------------------------------------------------------------
(* The properties of each part, of the behaviours in which it moves: where *)
(* it stays as it started they need not be evaluated.                      *)

\* What is told of a program as it runs: both views of its calls, the profile's
\* paths and the debugger's stack, are its open calls, up to one a fast load
\* returned from whose slot nothing has reached since (Calls), and the worst
\* periods kept are the busiest there were (Periods).
ProfileTells ==
  /\ part = "calls" => CallsOf!PathsFollow /\ CallsOf!CallStackIsCalls
  /\ part = "periods" => Profile!WorstAreBusiest

\* The CPU stays on the ULA's beat, and its cycles take what the published
\* tables of contention say (Contention).
TakesPublishedTime == part = "bus" => Ula!OnTheBeat /\ Ula!TakesPublishedTime

\* A snapshot, or a checkpoint of the history, brings back the machine it was
\* made of: its memory and paging (Paging), its registers and the bytes of a
\* page whatever they are (Snapshots).
SnapshotsComeBack == KeptComesBack /\ (part = "snapshots" => Snaps!SnapshotIsMachine)

\* What is inserted is the tape its file describes: a .tzx or .tap its blocks
\* (TapeImages), a recording its pulses at their times (Recordings).
InsertedIsTape ==
  /\ part = "images" => Inserting!ImageIsTape
  /\ part = "recordings" => Audio!RecordingKeepsTime

\* What is heard is what was played, to the half-clock (Beeper).
SoundIsExact == part = "sound" => Music!SoundIsExact

\* What a program computes is what arithmetic says (Alu).
AluIsArithmetic == part = "alu" => Arith!AluIsArithmetic

\* What the servers show of a program, and what they make of what they are
\* shown, are of the same place (Symbols).
LookupsAgree == part = "symbols" => Names!LookupsAgree
=============================================================================
