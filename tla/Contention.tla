----------------------------- MODULE Contention -----------------------------
(***************************************************************************)
(* The ULA stopping the CPU's clock: Spectrum::clock one half-clock a step *)
(* (cpp-core/src/spectrum.cpp, ula.cpp, ula.h).                            *)
(*                                                                         *)
(* The CPU is machine cycles in any order, by their pins.  An address is   *)
(* contended or not; a line is a few groups of paper and some border.      *)
(***************************************************************************)
EXTENDS Naturals, Sequences, FiniteSets, FiniteSetsExt

CONSTANTS Groups, Border   \* a line: groups of 8 T-states, T-states of border

VARIABLE bus  \* the ULA's half-clock, the CPU's cycle, and what holds it

contentionVars == <<bus>>

-----------------------------------------------------------------------------
(* The table.                                                              *)

CONTENTION_PATTERN == <<6, 5, 4, 3, 2, 1, 0, 0>>
Line == 8 * Groups + Border
Table(t) == IF t % Line < 8 * Groups THEN CONTENTION_PATTERN[((t % Line) % 8) + 1] ELSE 0
TState(hc) == hc \div 2

-----------------------------------------------------------------------------
(* The cycles: the pins after each half-clock, the first T1's high half.   *)

Times(n, pins) == [i \in 1..n |-> pins]
Pins ==
  [fetch |-> Times(1, {"M1"}) \o Times(3, {"M1", "MREQ", "RD"}) \o Times(1, {"RFSH"})
             \o Times(2, {"RFSH", "MREQ"}) \o Times(1, {"RFSH"}),
   read |-> Times(1, {}) \o Times(4, {"MREQ", "RD"}) \o Times(1, {}),
   write |-> Times(1, {}) \o Times(2, {"MREQ"}) \o Times(2, {"MREQ", "WR"}) \o Times(1, {}),
   internal |-> Times(2, {}),
   in |-> Times(2, {}) \o Times(5, {"IORQ", "RD"}) \o Times(1, {}),
   out |-> Times(2, {}) \o Times(5, {"IORQ", "WR"}) \o Times(1, {}),
   acknowledge |-> Times(5, {"M1"}) \o Times(3, {"M1", "IORQ"}) \o Times(1, {"RFSH"})
             \o Times(2, {"RFSH", "MREQ"}) \o Times(1, {"RFSH"})]

\* A cycle with its address contended or not; its port the ULA's or not; and
\* IR contended or not, which a fetch leaves on the bus.
Cycles ==
       [kind : {"fetch", "acknowledge"}, contended : BOOLEAN, ula : {FALSE}, ir : BOOLEAN]
  \cup [kind : {"read", "write"}, contended : BOOLEAN, ula : {FALSE}, ir : {FALSE}]
  \cup [kind : {"in", "out"}, contended : BOOLEAN, ula : BOOLEAN, ir : {FALSE}]

Now(b) == Pins[b.cycle.kind][b.half]
Ended(b) == b.half = Len(Pins[b.cycle.kind])
\* contended(), of what is on the bus: IR from the refresh on.
OnBusContended(b) == IF "RFSH" \in Now(b) THEN b.cycle.ir ELSE b.cycle.contended

\* What may follow: any cycle, or a T-state without one, by the address left.
Internal(b) ==
  [kind |-> "internal", ula |-> FALSE, ir |-> FALSE,
   contended |-> IF b.cycle.kind \in {"fetch", "acknowledge"} THEN b.cycle.ir ELSE b.cycle.contended]
Next_(b) == IF Ended(b) THEN Cycles \cup {Internal(b)} ELSE {b.cycle}

-----------------------------------------------------------------------------
(* Spectrum::clock.                                                        *)

CheckEveryTState(b) ==
  IF {"IORQ"} \subseteq Now(b) /\ "M1" \notin Now(b) /\ b.cycle.ula
  THEN [held |-> Table(TState(b.hc)), checked |-> TRUE]
  ELSE [held |-> IF OnBusContended(b) /\ "MREQ" \notin Now(b) THEN Table(TState(b.hc)) ELSE 0, checked |-> FALSE]

\* contention_check: the ULA's port once a cycle, and every T-state that has a
\* contended address out and neither MREQ nor the refresh.
ContentionCheck(b) ==
  IF "IORQ" \in Now(b) /\ "M1" \notin Now(b) /\ b.cycle.ula
  THEN [held |-> IF b.ula_port_checked THEN 0 ELSE Table(TState(b.hc)), checked |-> TRUE]
  ELSE [held |-> IF Now(b) \cap {"MREQ", "RFSH"} = {} /\ OnBusContended(b) THEN Table(TState(b.hc)) ELSE 0,
        checked |-> FALSE]

\* Asked on the odd half-clocks, where the table holds anything at all.
Checked(b) ==
  IF ~b.on \/ b.hold > 0 \/ b.hc % 2 = 0 THEN b
  ELSE IF Table(TState(b.hc)) = 0 THEN [b EXCEPT !.ula_port_checked = "IORQ" \in Now(b)]
  ELSE [b EXCEPT !.hold = 2 * ContentionCheck(b).held, !.ula_port_checked = ContentionCheck(b).checked]

Answers(b) == IF {"IORQ", "RD"} \subseteq Now(b) THEN [b EXCEPT !.answered = {TState(b.hc)}] ELSE b
Advance(b) == [b EXCEPT !.hc = (@ + 1) % (2 * Line), !.spent = @ + 1]

\* A held half-clock: a read is answered again on the last.
Held(b) ==
  LET less == [b EXCEPT !.hold = @ - 1]
  IN Advance(IF less.hold = 0 THEN Answers(less) ELSE less)

\* snow_check, as the refresh begins.
SnowCheck(b) ==
  IF b.on /\ "RFSH" \in Now(b) /\ "RFSH" \notin Pins[b.cycle.kind][b.half - 1] /\ b.cycle.ir
  THEN CASE Table(TState(b.hc)) = 5 -> "snow" [] Table(TState(b.hc)) = 3 -> "double" [] OTHER -> "none"
  ELSE b.snow

\* The port takes a write from the second half-clock with WR down.
Takes(before, b) ==
  IF b.cycle.kind = "out" /\ b.cycle.ula /\ b.took = {} /\ "WR" \in Now(before) /\ "WR" \in Now(b)
  THEN [b EXCEPT !.took = {TState(b.hc)}] ELSE b

\* A half-clock of the CPU's, in the cycle it goes on with.
Runs(b, cycle) ==
  LET begun == IF Ended(b)
               THEN [b EXCEPT !.cycle = cycle, !.half = 1, !.from = TState(b.hc), !.spent = 0, !.whole = TRUE,
                              !.took = {}, !.answered = {}, !.snow = "none"]
               ELSE [b EXCEPT !.half = @ + 1]
  IN Advance(Answers(Takes(b, [begun EXCEPT !.snow = SnowCheck(begun)])))

Clock ==
  LET b == Checked(bus)
  IN IF b.hold > 0 THEN bus' = Held(b) ELSE \E cycle \in Next_(b) : bus' = Runs(b, cycle)


\* prime_cpu: T1H of a fetch, which is given a half-clock of the ULA's only at
\* the start of a T-state.  The cycle it breaks off is not one to time.
Primed(b, cycle) ==
  LET fetch == [b EXCEPT !.cycle = cycle, !.half = 1, !.hold = 0, !.ula_port_checked = FALSE,
                         !.from = TState(b.hc), !.spent = 1, !.whole = TRUE, !.took = {}, !.answered = {}, !.snow = "none"]
  IN IF b.hc % 2 = 0 THEN [Advance(fetch) EXCEPT !.spent = 1] ELSE fetch

Fetches == {c \in Cycles : c.kind = "fetch"}
PrimeCpu == \E fetch \in Fetches : bus' = Primed(bus, fetch)

\* set_contention: build_contention ends a hold. The engine's jobs come after
\* whole T-states, or after an instruction's last half-clock, never between.
SetContention ==
  /\ bus.hc % 2 = 1
  /\ bus' = [bus EXCEPT !.on = ~@, !.hold = 0, !.ula_port_checked = FALSE, !.whole = FALSE]
 

Unpowered ==
  [hc |-> 0, on |-> TRUE, cycle |-> [kind |-> "internal", contended |-> FALSE, ula |-> FALSE, ir |-> FALSE],
   half |-> 2, hold |-> 0, ula_port_checked |-> FALSE, answered |-> {}, took |-> {}, snow |-> "none",
   from |-> 0, spent |-> 0, whole |-> FALSE]

ContentionInit == (\E fetch \in Fetches : bus = Primed(Unpowered, fetch))
ContentionNext == Clock \/ PrimeCpu \/ SetContention

ContentionSpec == ContentionInit /\ [][ContentionNext]_bus

-----------------------------------------------------------------------------
(* Properties.                                                             *)

\* The CPU's high halves are the ULA's even half-clocks, whatever was held,
\* primed again, or switched in the middle of a hold.
OnTheBeat == bus.hold = 0 => (bus.half % 2 = bus.hc % 2)

\* The published tables: a cycle is stretches of T-states, each held once.
Published(c) ==
  LET C(n) == [held |-> TRUE, t |-> n]
      N(n) == [held |-> FALSE, t |-> n]
      If(n) == [held |-> c.contended, t |-> n]
  IN CASE c.kind = "fetch" -> <<If(4)>>
       [] c.kind \in {"read", "write"} -> <<If(3)>>
       [] c.kind = "internal" -> <<If(1)>>
       [] c.kind = "acknowledge" -> <<If(1), If(1), If(1), If(3)>>
       [] c.ula -> <<If(1), C(3)>>
       [] OTHER -> <<If(1), If(1), If(1), If(1)>>
After(c, from) ==
  LET at[i \in 0..Len(Published(c))] ==
        IF i = 0 THEN from
        ELSE at[i - 1] + Published(c)[i].t + (IF Published(c)[i].held THEN Table(at[i - 1]) ELSE 0)
  IN at[Len(Published(c))]

\* Every cycle takes what the published tables say, wherever in a line it
\* starts; an IN gets what is on the bus in the T-state it takes the byte in;
\* and the ULA takes a write only when it no longer holds for the screen.
TakesPublishedTime ==
  Ended(bus) /\ bus.whole /\ bus.on =>
    /\ bus.spent = 2 * (After(bus.cycle, bus.from) - bus.from)
    /\ bus.cycle.kind = "in" => bus.answered = { (After(bus.cycle, bus.from) - 1) % Line}
    /\ \A t \in bus.took : Table(t) = 0

\* What docs/contention.md says of snow: that code in contended memory is held
\* clear of it.
SnowSparesContendedCode == bus.whole /\ bus.snow # "none" => ~bus.cycle.contended
=============================================================================
