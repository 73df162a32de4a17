----------------------------- MODULE Z80Control -----------------------------
(***************************************************************************)
(* The Z80's control unit, one half T-state a step (cpp-core/src/z80.cpp). *)
(*                                                                         *)
(* clock() is a table of half-clocks: machine cycles of fixed shape, each  *)
(* half raising and dropping control lines, with the last one choosing the *)
(* cycle that follows.  Data is left out: an opcode is the class of what   *)
(* it makes the control unit do, PC is counted from the first byte of the  *)
(* instruction, and an address is known by what put it on the bus.         *)
(***************************************************************************)
EXTENDS Naturals, Sequences

CONSTANT MaxPrefixes  \* bound: prefixes before one opcode

VARIABLE cpu  \* what clock() keeps between two half-clocks

z80Vars == <<cpu>>

-----------------------------------------------------------------------------
(* The shapes.  A half-clock drops some lines, puts an address out, raises *)
(* others; it may repeat while WAIT is down; the last one of a cycle       *)
(* does what its name says.                                                *)

Half == [drop |-> {}, addr |-> "same", raise |-> {}, wait |-> FALSE, do |-> "next"]
Drop(lines) == [Half EXCEPT !.drop = lines]
Raise(lines) == [Half EXCEPT !.raise = lines]
PutOut(a) == [Half EXCEPT !.addr = a]
Waits == [Half EXCEPT !.wait = TRUE]
Then(half, what) == [half EXCEPT !.do = what]

\* T3H to T4L of a fetch: the refresh.
Refresh(end) == <<Raise({"MREQ"}), Half, Then(Drop({"MREQ"}), end)>>
RefreshOut == [Half EXCEPT !.drop = {"M1", "MREQ", "RD", "IORQ"}, !.addr = "ir", !.raise = {"RFSH"}]

\* The four M1 cycles, whose T1H is begin_fetch's.
FetchShape(end) ==
  <<Raise({"MREQ", "RD"}), Half, Waits, Then(RefreshOut, "latch")>> \o Refresh(end)
PlainFetch == FetchShape("plain")
EdFetch == FetchShape("ed")
CbFetch == FetchShape("cb")
DdFdFetch == FetchShape("ddfd")

\* A read of three T-states, and a write.
ReadLow(end) == <<Raise({"MREQ", "RD"}), Half, Waits, Half, Then(Drop({"MREQ", "RD"}), end)>>
ReadShape(a, end) == <<PutOut(a)>> \o ReadLow(end)
WriteShape(a, end) ==
  <<PutOut(a), Raise({"MREQ"}), Half, [Raise({"WR"}) EXCEPT !.wait = TRUE], Half, Then(Drop({"MREQ", "WR"}), end)>>

\* The displacement of (IX+d), and the byte of LD (IX+d),n with it: the five
\* internal T-states, or the second read and two.
Internal(t) == [i \in 1..(2 * t) |-> Half]
Displacement == ReadShape("pc", "index") \o Internal(4) \o <<Half, Then(Half, "run")>>
DisplacementN == ReadShape("pc", "index") \o ReadShape("pc", "next") \o Internal(1) \o <<Half, Then(Half, "store")>>
IndexedStore == WriteShape("ea", "next") \o <<Then(Half, "fetch")>>

\* DD CB d op: begin_fetch_cb put d's address out.
DdCb ==
  ReadLow("index") \o ReadShape("pc", "suffix") \o Internal(2) \o ReadShape("ea", "act")
DdCbWrite == Internal(1) \o WriteShape("ea", "next") \o <<Then(Half, "fetch")>>
DdCbBit == Internal(1) \o <<Then(Half, "fetch")>>

\* The acknowledge: two wait states, IORQ from the first.
AcknowledgeShape(end) ==
  <<Then(Half, "accept"), Half, Half, Half, Raise({"IORQ"}), Half, Waits, RefreshOut>> \o Refresh(end)
Acknowledge == AcknowledgeShape("acknowledged") \o <<Half, Then(Half, "push")>>

\* The NMI's dummy fetch, and the pushes both make.
Nmi == <<Raise({"MREQ", "RD"}), Half, Waits, RefreshOut>> \o Refresh("refreshed") \o <<Half, Then(Half, "push")>>
PushPc == WriteShape("sp", "push_high") \o WriteShape("sp", "vector")
VectorRead(end) == <<PutOut("wz"), Raise({"MREQ", "RD"}), Half, Waits, Then(Drop({"MREQ", "RD"}), end), Half>>
Vector == VectorRead("next") \o VectorRead("jump") \o <<Then(Half, "fetch")>>
Arrive == <<Then(Half, "fetch")>>

\* The generated cycles an opcode of each class goes on with (dispatch.inc).
Generated ==
  [op |-> <<Then(Half, "fetch")>>,
   imm |-> ReadShape("pc", "next") \o <<Then(Half, "fetch")>>,
   mem |-> ReadShape("ea", "next") \o <<Then(Half, "fetch")>>,
   retn |-> ReadShape("sp", "next") \o ReadShape("sp", "next") \o <<Then(Half, "retn")>>,
   storen |-> ReadShape("pc", "next") \o WriteShape("ea", "next") \o <<Then(Half, "fetch")>>,
   cbhl |-> ReadShape("ea", "next") \o Internal(1) \o WriteShape("ea", "next") \o <<Then(Half, "fetch")>>,
   bithl |-> ReadShape("ea", "next") \o Internal(1) \o <<Then(Half, "fetch")>>,
   ei |-> <<Then(Half, "ei")>>, di |-> <<Then(Half, "di")>>,
   im |-> <<Then(Half, "im")>>,
   halt |-> <<Then(Half, "halt")>>,
   prefix |-> <<Then(Half, "prefix")>>]

Shapes ==
  [PlainFetch |-> PlainFetch, EdFetch |-> EdFetch, CbFetch |-> CbFetch, DdFdFetch |-> DdFdFetch,
   Displacement |-> Displacement, DisplacementN |-> DisplacementN, IndexedStore |-> IndexedStore,
   DdCb |-> DdCb, DdCbWrite |-> DdCbWrite, DdCbBit |-> DdCbBit,
   Acknowledge |-> Acknowledge, Nmi |-> Nmi, PushPc |-> PushPc, Vector |-> Vector, Arrive |-> Arrive]

At(step) == (IF step.cycle \in DOMAIN Shapes THEN Shapes[step.cycle] ELSE Generated[step.cycle])[step.half]

-----------------------------------------------------------------------------
(* What the control unit keeps.                                            *)

Strobes == {"MREQ", "RD", "WR", "IORQ"}

\* step_; the lines and what the address on the bus is; opcode_ and the bytes
\* before it; the flip-flops; PC and what was pushed of it, from where the
\* program stands.  The last three are history: the bytes of the program used,
\* half-clocks and refreshes since the fetch began, and what ended last.
Nothing == [what |-> <<>>, halves |-> 0, refreshed |-> 0]
PowerOn ==
  [step |-> [cycle |-> "op", half |-> 1], pins |-> {}, addr |-> "pc",
   opcode |-> "op", prefix_active |-> FALSE, hlx |-> FALSE,
   halted |-> FALSE, iff1 |-> FALSE, iff2 |-> FALSE, im |-> 0,
   nmi_level |-> FALSE, nmi_pending |-> FALSE, nmi_ack |-> FALSE,
   im0_pc_hold |-> FALSE, rfsh_release |-> FALSE, pc |-> 0, pushed |-> 0,
   bytes |-> 0, spent |-> Nothing, over |-> Nothing]

Z80Init == cpu = PowerOn

To(c, cycle) == [c EXCEPT !.step = [cycle |-> cycle, half |-> 1]]
Onward(c) == [c EXCEPT !.step.half = @ + 1]
Seen(c, what) == [c EXCEPT !.opcode = what, !.spent.what = Append(@, what)]

PcPostIncAlways(c) == [c EXCEPT !.pc = @ + 1, !.bytes = @ + (IF c.im0_pc_hold THEN 0 ELSE 1)]
\* A byte of the program is used, and PC goes past it unless it is held.
PcPostInc(c) ==
  IF c.im0_pc_hold \/ c.halted THEN c ELSE [c EXCEPT !.pc = @ + 1, !.bytes = @ + 1]

\* The half-clock's own lines and address, and T1H of a fetch.
Drives(c, half) ==
  [(IF half.addr = "pc" THEN PcPostInc(c) ELSE c) EXCEPT
     !.pins = (@ \ half.drop) \cup half.raise,
     !.addr = IF half.addr = "same" THEN @ ELSE half.addr,
     !.spent.refreshed = @ + (IF half.addr = "ir" THEN 1 ELSE 0)]
M1Out(c) == [c EXCEPT !.pins = @ \cup {"M1"}, !.addr = "pc"]

-----------------------------------------------------------------------------
(* The beginnings of fetches.                                              *)

\* The instruction is over: the history starts again at the byte PC is at.
Over(c) ==
  [c EXCEPT !.over = [c.spent EXCEPT !.halves = @ - 1], !.pc = @ - c.bytes, !.bytes = 0,
            !.spent = [what |-> <<>>, halves |-> 1, refreshed |-> 0]]

BeginFetchIntFirst(c, int) ==
  LET d == [M1Out(Over(c)) EXCEPT !.hlx = FALSE, !.prefix_active = FALSE, !.im0_pc_hold = FALSE]
  IN IF int /\ d.iff1 THEN To([d EXCEPT !.spent.what = <<"int">>], "Acknowledge")
     ELSE IF d.nmi_pending
     THEN To([d EXCEPT !.nmi_pending = FALSE, !.halted = FALSE, !.nmi_ack = TRUE,
                       !.iff2 = d.iff1, !.iff1 = FALSE, !.spent.what = <<"nmi">>], "Nmi")
     ELSE To(PcPostInc(d), "PlainFetch")

\* begin_fetch: an NMI first, an INT that is let in, or the next opcode.
BeginFetch(c, int) ==
  LET d == [M1Out(Over(c)) EXCEPT !.hlx = FALSE, !.prefix_active = FALSE, !.im0_pc_hold = FALSE]
  IN IF d.nmi_pending
     THEN To([d EXCEPT !.nmi_pending = FALSE, !.halted = FALSE, !.nmi_ack = TRUE,
                       !.iff2 = d.iff1, !.iff1 = FALSE, !.spent.what = <<"nmi">>], "Nmi")
     ELSE IF int /\ d.iff1 THEN To([d EXCEPT !.spent.what = <<"int">>], "Acknowledge")
     ELSE To(PcPostInc(d), "PlainFetch")

BeginFetchEd(c) ==
  To([PcPostInc(M1Out(c)) EXCEPT !.prefix_active = TRUE, !.hlx = FALSE], "EdFetch")

\* After DD or FD what comes is a displacement, whose address goes out now.
BeginFetchCb(c) ==
  LET d == [PcPostInc(c) EXCEPT !.prefix_active = TRUE]
  IN IF c.hlx THEN To([d EXCEPT !.addr = "pc"], "DdCb") ELSE To(M1Out(d), "CbFetch")

BeginFetchDd(c) ==
  To([PcPostInc(M1Out(c)) EXCEPT !.prefix_active = TRUE, !.hlx = TRUE], "DdFdFetch")

OpHalt(c, int) == BeginFetch([c EXCEPT !.halted = TRUE], int)

-----------------------------------------------------------------------------
(* The opcodes, by the table they are looked up in: "mem" and "storen" are *)
(* of the DDFD_INDIRECT_TABLE, (HL) or after a prefix (IX+d).              *)

PrefixBytes == {"ED", "CB", "DD"}
Opcodes == {"op", "imm", "mem", "storen", "ei", "di", "halt"} \cup PrefixBytes
EdOpcodes == {"op", "imm", "retn", "im0", "im1", "im2"}
CbOpcodes == {"op", "cbhl", "bithl"}
DdCbOpcodes == {"rot", "bit"}

\* What the byte on the bus can be.
Fetched(c) ==
  LET table == CASE c.step.cycle = "EdFetch" -> EdOpcodes
                 [] c.step.cycle = "CbFetch" -> CbOpcodes
                 [] c.step.cycle = "DdCb" -> DdCbOpcodes
                 [] OTHER -> Opcodes
  IN IF Len(c.spent.what) < MaxPrefixes THEN table ELSE table \ PrefixBytes

\* A halted CPU ignores the byte it reads, and halts again.
Latch(c, byte) == Seen(c, IF c.halted THEN "halt" ELSE byte)

\* The steps an opcode goes on at.
Run(c) ==
  To(c, CASE c.opcode \in PrefixBytes -> "prefix"
          [] c.opcode \in {"im0", "im1", "im2"} -> "im"
          [] OTHER -> c.opcode)

Retire(c) == [c EXCEPT !.rfsh_release = TRUE, !.prefix_active = FALSE]

EndDdFdAlike(c) == IF c.opcode \in {"mem", "storen"} THEN To(Retire(c), "Displacement") ELSE Run(Retire(c))
EndDdFd(c) ==
  IF c.opcode = "mem" THEN To(Retire(c), "Displacement")
  ELSE IF c.opcode = "storen" THEN To(Retire(c), "DisplacementN")
  ELSE Run(Retire(c))


\* In IM 0 the byte is the instruction, and PC is held through it.
EndAcknowledge(c, byte) ==
  LET d == [c EXCEPT !.rfsh_release = TRUE]
  IN IF c.im = 0
     THEN Run([Seen(d, byte) EXCEPT !.prefix_active = FALSE, !.im0_pc_hold = TRUE])
     ELSE Onward([d EXCEPT !.spent.what = <<"int", IF c.im = 1 THEN "im1" ELSE "im2">>])

\* The pushes end: at a fixed address, or through the vector.
EndPushes(c) ==
  IF c.im = 2 /\ ~c.nmi_ack THEN To(c, "Vector")
  ELSE To([c EXCEPT !.pc = 0], "Arrive")

-----------------------------------------------------------------------------
(* clock(): one half-clock.                                                *)

\* What the last half of a cycle, or the one that matters, does.
After(c, do, byte, int) ==
  CASE do = "next" -> Onward(c)
    [] do = "refreshed" -> Onward([c EXCEPT !.rfsh_release = TRUE])
    [] do = "latch" -> Onward(Latch(c, byte))
    [] do = "plain" -> Run(Retire(c))
    [] do = "ed" -> Run(Retire(c))
    [] do = "cb" -> Run(Retire(c))
    [] do = "ddfd" -> EndDdFd(c)
    [] do = "index" -> Onward(c)
    [] do = "run" -> Run(c)
    [] do = "store" -> To(c, "IndexedStore")
    [] do = "suffix" -> Onward(Seen(c, byte))
    [] do = "act" -> To(c, IF c.opcode = "bit" THEN "DdCbBit" ELSE "DdCbWrite")
    [] do = "accept" -> Onward([c EXCEPT !.iff1 = FALSE, !.iff2 = FALSE, !.halted = FALSE])
    [] do = "acknowledged" -> EndAcknowledge(c, byte)
    [] do = "push" -> To(c, "PushPc")
    [] do = "push_high" -> Onward([c EXCEPT !.pushed = c.pc])
    [] do = "vector" -> EndPushes(c)
    [] do = "jump" -> Onward([c EXCEPT !.pc = 0])
    [] do = "fetch" -> BeginFetch([c EXCEPT !.nmi_ack = @ /\ c.step.cycle # "Arrive"], int)
    [] do = "ei" -> [BeginFetch([c EXCEPT !.iff1 = FALSE, !.iff2 = FALSE], int) EXCEPT !.iff1 = TRUE, !.iff2 = TRUE]
    [] do = "di" -> BeginFetch([c EXCEPT !.iff1 = FALSE, !.iff2 = FALSE], int)
    [] do = "retn" -> LET d == BeginFetch(c, int) IN [d EXCEPT !.iff1 = d.iff2]
    [] do = "im" -> BeginFetch([c EXCEPT !.im = CASE c.opcode = "im0" -> 0 [] c.opcode = "im1" -> 1 [] OTHER -> 2], int)
    [] do = "halt" -> OpHalt(c, int)
    [] do = "prefix" -> CASE c.opcode = "ED" -> BeginFetchEd(c)
                          [] c.opcode = "CB" -> BeginFetchCb(c)
                          [] OTHER -> BeginFetchDd(c)

\* The NMI's edge is latched whenever it comes, and RFSH goes half a T-state
\* after the refresh's MREQ.
Sampled(c, nmi) ==
  [c EXCEPT !.nmi_pending = @ \/ (nmi /\ ~c.nmi_level), !.nmi_level = nmi,
            !.pins = IF c.rfsh_release THEN @ \ {"RFSH"} ELSE @, !.rfsh_release = FALSE]

Clock(nmi, int, wait) ==
  LET c == Sampled(cpu, nmi)
      half == At(c.step)
      run == Drives([c EXCEPT !.spent.halves = @ + 1, !.over = Nothing], half)
  IN IF half.wait /\ wait THEN cpu' = c
     ELSE \E byte \in IF half.do \in {"latch", "suffix", "acknowledged"} THEN Fetched(c) ELSE {"op"} :
            cpu' = After(run, half.do, byte, int)

\* is_instruction_boundary
IsInstructionBoundary == cpu.step = [cycle |-> "PlainFetch", half |-> 1] /\ ~cpu.prefix_active

\* set_registers, between two instructions: the fetch begins again at the new PC.
SetRegisters ==
  /\ IsInstructionBoundary
  /\ cpu' = BeginFetch([PowerOn EXCEPT !.iff1 = cpu.iff1, !.iff2 = cpu.iff2, !.im = cpu.im, !.nmi_level = FALSE], FALSE)

Z80Next == (\E nmi, int, wait \in BOOLEAN : Clock(nmi, int, wait)) \/ SetRegisters

Z80Spec == Z80Init /\ [][Z80Next]_z80Vars

-----------------------------------------------------------------------------
(* Properties.                                                             *)

DdCbed(w) == Len(w) > 2 /\ w[Len(w)] \in DdCbOpcodes

\* T-states and refreshes as published: four for each opcode fetched and what
\* its own cycles add; 13 and 19 for an interrupt in IM 1 and 2, two more than
\* the instruction in IM 0; 11 for an NMI.
Beyond(w) ==
  LET last == w[Len(w)]
      indexed == Len(w) > 1 /\ w[Len(w) - 1] = "DD"
  IN CASE last = "imm" -> 3
       [] last = "mem" -> IF indexed THEN 11 ELSE 3
       [] last = "storen" -> IF indexed THEN 11 ELSE 6
       [] last = "retn" -> 6 [] last = "cbhl" -> 7 [] last = "bithl" -> 4
       [] last = "rot" -> 15 [] last = "bit" -> 12
       [] OTHER -> 0
Opcode(w) == IF DdCbed(w) THEN Len(w) - 1 ELSE Len(w)

Published(w) ==
  CASE w[1] = "nmi" -> [t |-> 11, r |-> 1]
    [] w = <<"int", "im1">> -> [t |-> 13, r |-> 1]
    [] w = <<"int", "im2">> -> [t |-> 19, r |-> 1]
    [] w[1] = "int" /\ w[2] \notin {"im1", "im2"} -> [t |-> 2 + 4 * Opcode(Tail(w)) + Beyond(Tail(w)), r |-> Opcode(Tail(w))]
    [] OTHER -> [t |-> 4 * Opcode(w) + Beyond(w), r |-> Opcode(w)]

TakesItsTime ==
  cpu.over.what # <<>> =>
    /\ cpu.over.halves = 2 * Published(cpu.over.what).t
    /\ cpu.over.refreshed = Published(cpu.over.what).r

\* An interrupt goes back to where the program was: what it pushes is the byte
\* the next instruction begins with, the one after the HALT if it waits in
\* one, whatever prefixes, displacements or device's bytes came before.  And
\* what registers() reports between two instructions, PC less one, or PC while
\* halted, is that byte too.
GoesBackThere ==
  /\ cpu.pushed = 0
  /\ IsInstructionBoundary => cpu.pc = IF cpu.halted THEN 0 ELSE 1

\* One cycle at a time on the bus: a strobe is never up with another device's,
\* a read never with a write, the refresh never with an opcode fetch; nothing
\* is left up into the next fetch; and neither an instruction nor an acknowledge begins over a waiting NMI.
BusFree ==
  /\ ~({"MREQ", "IORQ"} \subseteq cpu.pins) /\ ~({"RD", "WR"} \subseteq cpu.pins)
  /\ ~({"M1", "RFSH"} \subseteq cpu.pins)
  /\ ("RD" \in cpu.pins \/ "WR" \in cpu.pins) => "MREQ" \in cpu.pins
  /\ cpu.step.cycle \in {"PlainFetch", "Acknowledge", "Nmi"} /\ cpu.step.half = 1 => cpu.pins = {"M1"}
  /\ cpu.step.cycle \in {"PlainFetch", "Acknowledge"} /\ cpu.step.half = 1 => ~cpu.nmi_pending

\* And memory is not asked one thing and told another: the address moves only
\* with every strobe up from before let go.
BusKept ==
  [][BusFree' /\ (cpu'.addr # cpu.addr => cpu'.pins \cap cpu.pins \cap Strobes = {})]_z80Vars
=============================================================================
