------------------------------- MODULE Beeper -------------------------------
(***************************************************************************)
(* Sound as it is made (cpp-core/src: beeper.cpp, ay.cpp).  Nothing here   *)
(* is clocked: whatever changes a level first has the levels so far summed *)
(* up to now, a sample or a step of the AY at a time, whichever ends first.*)
(*                                                                         *)
(* A sample is the sum of its half-clocks' levels and their number: the DC *)
(* blocker and the scale that it goes through are left out.  A register    *)
(* has only the bits the chip has.                                         *)
(***************************************************************************)
EXTENDS Integers, Sequences, FiniteSetsExt

CONSTANTS
  SPEAKER_LEVEL, MIC_LEVEL, EAR_LEVEL,
  VOLUME,            \* the volume curve, 0..Top
  Top,               \* the envelope's highest step
  StepHc,            \* AY_HC_PER_STEP
  NoiseBits,         \* the width of the shift register ...
  NoiseTap,          \* ... and the bit that is fed back with bit 0
  MaxPending,        \* BEEPER_MAX_PENDING
  Beginnings,        \* a rate, a clock, the AY's registers, and what may happen how often
  Pokes,             \* what is written to each of the AY's registers: volume, mixer, shape
  Rates, Clocks,     \* what the rate is set to, and the models' clocks
  Gaps               \* the half-clocks between two events

VARIABLES
  beeper,    \* the Beeper
  ay,        \* the Ay, and whether it is attached
  now,       \* global_hc
  score,     \* what was to be heard (history)
  left       \* bound: the events left, and of what kinds

beeperVars == <<beeper, ay, now, score, left>>

-----------------------------------------------------------------------------
(* The AY.                                                                 *)

Atleast1(p) == IF p = 0 THEN 1 ELSE p

\* The shift register's next value, of the bits that are shifted out and fed back.
Shifted(rng) ==
  (rng \div 2) + (IF rng % 2 # (rng \div 2 ^ NoiseTap) % 2 THEN 2 ^ (NoiseBits - 1) ELSE 0)

EnvVolume(a) == IF a.attack THEN Top - a.step ELSE a.step

\* A volume past Top is the envelope's: bit 4.
update_level(a) ==
  LET open(c) == (a.tone_out[c] \/ a.regs.tone_off[c]) /\ (a.rng_out \/ a.regs.noise_off[c])
      index(c) == IF a.regs.volume[c] > Top THEN a.env_volume ELSE a.regs.volume[c]
  IN [a EXCEPT !.level = MapThenSumSet(LAMBDA c : VOLUME[index(c)], {c \in DOMAIN a.tone_out : open(c)})]

restart_envelope(a) ==
  LET s == a.regs.shape
      e == [a EXCEPT !.attack = s.attack, !.hold = ~s.continue \/ s.hold,
                     !.alternate = IF s.continue THEN s.alternate ELSE s.attack,
                     !.step = Top, !.holding = FALSE, !.env_count = 0]
  IN [e EXCEPT !.env_volume = EnvVolume(e)]

StepTone(a) ==
  LET due == {c \in DOMAIN a.tone_out : a.tone_count[c] + 1 >= Atleast1(a.regs.period[c])}
  IN [a EXCEPT !.tone_count = [c \in DOMAIN @ |-> IF c \in due THEN 0 ELSE @[c] + 1],
               !.tone_out = [c \in DOMAIN @ |-> @[c] # (c \in due)]]
StepNoise(a) ==
  IF ~a.half THEN a
  ELSE IF a.noise_count + 1 < Atleast1(a.regs.noise_period) THEN [a EXCEPT !.noise_count = @ + 1]
  ELSE [a EXCEPT !.noise_count = 0, !.rng = Shifted(@), !.rng_out = Shifted(a.rng) % 2 = 1]

\* The ramp is over: it holds, where it is or at its other end, or begins again.
EndRamp(a) ==
  IF a.hold THEN [a EXCEPT !.attack = @ # a.alternate, !.holding = TRUE, !.step = 0]
  ELSE [a EXCEPT !.attack = @ # a.alternate, !.step = Top]
StepEnvelope(a) ==
  LET counted == [a EXCEPT !.env_count = @ + 1]
      due == counted.env_count >= Atleast1(a.regs.env_period)
      e == IF ~due THEN counted
           ELSE IF a.step = 0 THEN EndRamp([counted EXCEPT !.env_count = 0])
           ELSE [counted EXCEPT !.env_count = 0, !.step = @ - 1]
  IN IF ~a.half \/ a.holding THEN a ELSE [e EXCEPT !.env_volume = EnvVolume(e)]

\* noise_half_ and env_half_ are one: they turn together and are reset together.
step(a) == update_level(StepEnvelope(StepNoise(StepTone([a EXCEPT !.half = ~@]))))

Advance(a, hc) ==
  IF a.phase + hc >= StepHc THEN step([a EXCEPT !.phase = @ + hc - StepHc]) ELSE [a EXCEPT !.phase = @ + hc]

NoShape == [continue |-> FALSE, attack |-> FALSE, alternate |-> FALSE, hold |-> FALSE]
ResetAy(a) ==
  LET C == DOMAIN a.tone_out
  IN [attached |-> a.attached, phase |-> 0, half |-> FALSE, level |-> 0,
      regs |-> [period |-> [c \in C |-> 0], noise_period |-> 0, tone_off |-> [c \in C |-> FALSE],
                noise_off |-> [c \in C |-> FALSE], volume |-> [c \in C |-> 0], env_period |-> 0, shape |-> NoShape],
      tone_count |-> [c \in C |-> 0], tone_out |-> [c \in C |-> FALSE],
      noise_count |-> 0, rng |-> 1, rng_out |-> FALSE,
      env_count |-> 0, step |-> 0, attack |-> FALSE, hold |-> FALSE, alternate |-> FALSE,
      holding |-> FALSE, env_volume |-> 0]

-----------------------------------------------------------------------------
(* The integrator.                                                         *)

emit(b) ==
  LET kept == IF Len(b.pending) >= MaxPending
              THEN SubSeq(b.pending, (Len(b.pending) \div 2) + 1, Len(b.pending)) ELSE b.pending
  IN [b EXCEPT !.pending = Append(kept, [sum |-> b.sum, count |-> b.count]), !.sum = 0, !.count = 0]

\* A chunk ends with a sample, with a step of the AY, or now.
RECURSIVE Integrate(_, _)
Integrate(m, remaining) ==
  LET b == m.beeper
      need == (b.clock - b.acc + b.rate - 1) \div b.rate
      chunk == Min({need, remaining} \cup (IF m.ay.attached THEN {StepHc - m.ay.phase} ELSE {}))
      mixed == b.level + b.ear + (IF m.ay.attached THEN m.ay.level ELSE 0)
      summed == [b EXCEPT !.sum = @ + mixed * chunk, !.count = @ + chunk, !.acc = @ + b.rate * chunk]
      over == summed.acc >= b.clock
  IN IF remaining = 0 THEN m
     ELSE Integrate([beeper |-> IF over THEN emit([summed EXCEPT !.acc = @ - b.clock]) ELSE summed,
                     ay |-> IF m.ay.attached THEN Advance(m.ay, chunk) ELSE m.ay],
                    remaining - chunk)

advance_to(m, hc) ==
  IF ~m.beeper.enabled \/ hc <= m.beeper.last
  THEN [m EXCEPT !.beeper.last = Max({@, hc})]
  ELSE Integrate([m EXCEPT !.beeper.last = hc], hc - m.beeper.last)

Zeroed(b) == [b EXCEPT !.sum = 0, !.count = 0, !.acc = 0]

set_clock(b, clock) == IF clock = b.clock THEN b ELSE [Zeroed(b) EXCEPT !.clock = clock]
ResetBeeper(b) == [Zeroed(b) EXCEPT !.ear = 0, !.last = 0, !.pending = <<>>]

set_enabled(b, on, hc) ==
  IF on = b.enabled THEN b
  ELSE [(IF on THEN Zeroed(b) ELSE b) EXCEPT !.last = hc, !.enabled = on]

-----------------------------------------------------------------------------
(* What happens, some half-clocks after what happened last.  score is what *)
(* was to be heard (history): the levels and registers of every half-clock *)
(* since the sample clock began, the steps' time it began at, the time of  *)
(* the last shape written, and the samples taken.                          *)

Machine == [beeper |-> beeper, ay |-> ay]
Until(d) == advance_to(Machine, now + d)
Become(m) == beeper' = m.beeper /\ ay' = m.ay

AyTime(s) == s.from + Len(s.since)
Playing == [mix |-> beeper.level + beeper.ear, regs |-> ay.regs, struck |-> score.struck]
Heard(d) == IF beeper.enabled THEN [score EXCEPT !.since = @ \o [i \in 1..d |-> Playing]] ELSE score
Summed(s, hc) == Len(s.since) - (hc - beeper.last)
Begun(s, n) == [s EXCEPT !.since = SubSeq(@, n + 1, Len(@)), !.from = @ + n, !.taken = 0, !.out = <<>>]
Lost(s, hc) == IF beeper.enabled THEN [Begun(s, Summed(s, hc)) EXCEPT !.since = <<>>] ELSE s

Made(b, s, hc) == ((Len(s.since) - (hc - b.last)) * b.rate) \div b.clock
Indexed(b, made, taken) ==
  LET p == Len(b.pending)
      k == Min({p, made - taken})
  IN [i \in 1..k |-> [index |-> made - k + i, sample |-> b.pending[p - k + i]]]

Passes(d) == now' = now + d

\* OUTs to port 0xFE, and what the tape says when the port is read.
write_port_fe(speaker, mic, d) ==
  /\ Become([Until(d) EXCEPT !.beeper.level = (IF speaker THEN SPEAKER_LEVEL ELSE 0) + (IF mic THEN MIC_LEVEL ELSE 0)])
  /\ Passes(d) /\ score' = Heard(d)
set_ear(high, d) ==
  /\ Become([Until(d) EXCEPT !.beeper.ear = IF high THEN EAR_LEVEL ELSE 0])
  /\ Passes(d) /\ score' = Heard(d)

\* OUTs to port 0xBFFD: write, and the advance before it.
Written(a, reg, v) ==
  LET w == [a EXCEPT !.regs = [@ EXCEPT ![reg] = v]]
  IN update_level(IF reg = "shape" THEN restart_envelope(w) ELSE w)
WriteAyLate(reg, v, d) ==
  /\ ay.attached
  /\ Become([Machine EXCEPT !.ay = Written(@, reg, v)])
  /\ Passes(d)
  /\ score' = [Heard(d) EXCEPT !.struck = IF reg = "shape" THEN AyTime(Heard(d)) ELSE @]
WriteAy(reg, v, d) ==
  /\ ay.attached
  /\ Become([Until(d) EXCEPT !.ay = Written(@, reg, v)])
  /\ Passes(d)
  /\ score' = [Heard(d) EXCEPT !.struck = IF reg = "shape" THEN AyTime(Heard(d)) ELSE @]

\* publish_audio, while there is someone to hear it or there is not.
Publish(wanted, d) ==
  LET b == set_enabled(beeper, wanted, now + d)
      m == advance_to([beeper |-> b, ay |-> ay], now + d)
      made == Made(m.beeper, Heard(d), now + d)
  IN /\ Passes(d)
     /\ IF ~wanted
        THEN /\ beeper' = [b EXCEPT !.pending = <<>>] /\ UNCHANGED ay
             /\ score' = Lost(Heard(d), now + d)
        ELSE /\ Become([m EXCEPT !.beeper.pending = <<>>])
             /\ score' = IF beeper.enabled
                         THEN [Heard(d) EXCEPT !.out = Indexed(m.beeper, made, score.taken), !.taken = made]
                         ELSE score

\* Zero, and the rate there is, are refused.
set_sample_rate(rate, d) ==
  /\ Passes(d) /\ UNCHANGED ay
  /\ IF rate \in {0, beeper.rate} THEN UNCHANGED beeper /\ score' = Heard(d)
     ELSE /\ beeper' = [Zeroed(beeper) EXCEPT !.rate = rate]
          /\ score' = IF beeper.enabled THEN Begun(Heard(d), Summed(Heard(d), now + d)) ELSE score

\* Spectrum::reset: the machine's time starts again, and the speaker stays.
\* Spectrum::set_model ends in one, on a machine with an AY or without.
Reset(attached, clock, d) ==
  /\ now' = 0
  /\ beeper' = ResetBeeper(set_clock(beeper, clock))
  /\ ay' = [ResetAy(ay) EXCEPT !.attached = attached]
  /\ score' = [since |-> <<>>, from |-> 0, struck |-> -1, taken |-> 0, out |-> <<>>]

\* restart_at, after the history restores a machine.
restart_at(d) ==
  /\ Passes(d) /\ UNCHANGED ay
  /\ beeper' = [Zeroed(beeper) EXCEPT !.pending = <<>>, !.last = now + d]
  /\ score' = Lost(Heard(d), now + d)

\* The AY stands still while nobody listens: its registers have been written then.
BeeperInit ==
  /\ now = 0
  /\ \E x \in Beginnings :
       LET a == ResetAy([attached |-> x.attached, tone_out |-> x.regs.period]) IN
       /\ beeper = [enabled |-> TRUE, rate |-> x.rate, clock |-> x.clock, level |-> 0, ear |-> 0, last |-> 0,
                    sum |-> 0, count |-> 0, acc |-> 0, pending |-> <<>>]
       /\ ay = update_level(restart_envelope([a EXCEPT !.regs = x.regs]))
       /\ score = [since |-> <<>>, from |-> 0, struck |-> 0, taken |-> 0, out |-> <<>>]
       /\ left = [does |-> x.does, n |-> x.n]

BeeperNext ==
  /\ left.n > 0 /\ left' = [left EXCEPT !.n = @ - 1]
  /\ \E d \in Gaps :
       \/ "port" \in left.does /\ \E speaker, mic \in BOOLEAN : write_port_fe(speaker, mic, d)
       \/ "ear" \in left.does /\ \E high \in BOOLEAN : set_ear(high, d)
       \/ "ay" \in left.does /\ \E reg \in DOMAIN Pokes : \E v \in Pokes[reg] : WriteAy(reg, v, d)
       \/ "publish" \in left.does /\ \E wanted \in BOOLEAN : Publish(wanted, d)
       \/ "rate" \in left.does /\ \E rate \in Rates : set_sample_rate(rate, d)
       \/ "reset" \in left.does /\ \E attached \in BOOLEAN, clock \in Clocks : Reset(attached, clock, d)
       \/ "restart" \in left.does /\ restart_at(d)

BeeperSpec == BeeperInit /\ [][BeeperNext]_beeperVars

-----------------------------------------------------------------------------
(* What a listener should hear: the chip as its data sheet draws it, by    *)
(* the steps it has made, and the average of what is on over every sample. *)

Steps(t) == t \div StepHc
HalfSteps(t) == (Steps(t) + 1) \div 2
Square(n, period) == (n \div Atleast1(period)) % 2 = 1

\* A register shifted right with two bits fed back: each bit is the exclusive or
\* of two that went before.
Noise[i \in Nat] ==
  IF i < NoiseBits THEN i = 0 ELSE Noise[i - NoiseBits] # Noise[i - NoiseBits + NoiseTap]

\* The envelope n counts after its shape was written: a ramp, and what follows it.
\* The chip that was reset and given no shape repeats a fall it is at the end of.
Ramp(up, q) == IF up THEN q ELSE Top - q
Drawn(shape, n) ==
  LET ramps == n \div (Top + 1)
      q == n % (Top + 1)
  IN IF ramps = 0 THEN Ramp(shape.attack, q)
     ELSE IF ~shape.continue THEN 0
     ELSE IF shape.hold THEN (IF shape.attack # shape.alternate THEN Top ELSE 0)
     ELSE Ramp(shape.attack # (shape.alternate /\ ramps % 2 = 1), q)
EnvelopeAt(h, t) ==
  LET period == Atleast1(h.regs.env_period)
  IN IF h.struck = -1 THEN Drawn([NoShape EXCEPT !.continue = TRUE], (HalfSteps(t) \div period) + Top)
     ELSE Drawn(h.regs.shape, (HalfSteps(t) - HalfSteps(h.struck)) \div period)

Level(h, t) ==
  LET tone(c) == h.regs.tone_off[c] \/ Square(Steps(t), h.regs.period[c])
      clocks == HalfSteps(t) \div Atleast1(h.regs.noise_period)
      noise(c) == h.regs.noise_off[c] \/ (clocks > 0 /\ Noise[clocks])
      loud(c) == VOLUME[IF h.regs.volume[c] > Top THEN EnvelopeAt(h, t) ELSE h.regs.volume[c]]
  IN h.mix + (IF ay.attached THEN MapThenSumSet(loud, {c \in DOMAIN h.regs.period : tone(c) /\ noise(c)}) ELSE 0)

\* Sample k covers the half-clocks from where sample k - 1 ended.
EndOf(k) == (k * beeper.clock + beeper.rate - 1) \div beeper.rate
Average(k) ==
  LET span == (EndOf(k - 1) + 1)..EndOf(k)
  IN [sum |-> MapThenSumSet(LAMBDA i : Level(score.since[i], score.from + i - 1), span), count |-> Cardinality(span)]

\* Every sample, held or taken, is the average of what was on in its own
\* half-clocks, whenever the levels were changed, the samples taken and the chip
\* stepped; and none is missed unless more than half of what is held is newer.
SoundIsExact ==
  LET made == Made(beeper, score, now)
      held == Indexed(beeper, made, score.taken)
      all == held \o score.out
  IN beeper.enabled =>
       /\ Len(beeper.pending) <= MaxPending
       /\ \A i \in DOMAIN all : all[i].sample = Average(all[i].index)
       /\ Len(held) < made - score.taken => Len(held) > MaxPending \div 2
=============================================================================
