------------------------------ MODULE TapePlays -------------------------------
(***************************************************************************)
(* The deck plays the list of pulses a tape stands for: the mapping from   *)
(* the cursor of Tape to the place in that list of TapeSignal, and the     *)
(* position the deck reports.                                              *)
(***************************************************************************)
EXTENDS Tape, SequencesExt

-----------------------------------------------------------------------------
(* The pulses of a block, from the format.                                 *)

EdgeOf(length) == [edge |-> TRUE, length |-> length]

Leader(b) ==
  IF b.pilot = 0 THEN <<>>
  ELSE [k \in 1..b.pilot |-> EdgeOf(b.pilot_t)] \o <<EdgeOf(b.sync1), EdgeOf(b.sync2)>>

\* Two equal pulses a bit.
DataOf(b) ==
  LET bits == FlattenSeq(b.data)
  IN [k \in 1..(2 * Len(bits)) |-> EdgeOf(bits[(k + 1) \div 2])]

Silence(b) ==
  IF b.pause = 0 THEN <<>>
  ELSE IF b.pause <= Edge THEN <<EdgeOf(Edge)>>
  ELSE <<EdgeOf(Edge), [edge |-> FALSE, length |-> b.pause - Edge]>>

SignalOf(b) ==
  IF b.pulses # <<>> THEN [k \in DOMAIN b.pulses |-> EdgeOf(b.pulses[k])] \o Silence(b)
  ELSE Leader(b) \o DataOf(b) \o Silence(b)

AsList ==
  [k \in DOMAIN blocks |->
     [signal |-> SignalOf(blocks[k]), lead |-> Len(Leader(blocks[k])), stop |-> blocks[k].stop,
      pause |-> blocks[k].pause, standard |-> blocks[k].standard /\ blocks[k].data # <<>>]]

\* How many of its block's pulses a cursor has begun.
Gone(d) ==
  LET b == blocks[d.block]
      before == IF b.pulses # <<>> THEN Len(b.pulses) ELSE Len(Leader(b)) + Len(DataOf(b))
  IN CASE d.phase = "idle"   -> 0
       [] d.phase = "pulses" -> Len(b.pulses) - d.pulses_left
       [] d.phase = "pilot"  -> b.pilot - d.pulses_left
       [] d.phase = "sync1"  -> b.pilot
       [] d.phase = "sync2"  -> b.pilot + 1
       [] d.phase = "data"   -> Len(Leader(b))
                                + 2 * Len(FlattenSeq(SubSeq(b.data, 1, d.byte - 1)))
                                + 2 * (d.bit - 1) + (IF d.second_half THEN 1 ELSE 0)
       [] d.phase = "pause"  -> before + (IF d.second_half THEN 1 ELSE 0)
       [] d.phase = "end"    -> Len(SignalOf(b))

\* In advance() the pulse that was in flight has been counted already, and a
\* stopped tape's is abandoned.
Place(d, inAdvance) ==
  [motor |-> d.playing, ended |-> d.at_end, block |-> d.block, gone |-> Gone(d),
   level |-> d.level,
   until |-> IF ~d.playing THEN 0 ELSE IF inAdvance THEN d.pulse_start ELSE d.pulse_start + d.pulse]

List == INSTANCE TapeSignal WITH
  tape <- AsList,
  cursor <- Place(deck, at = "advance"),
  history <- {[cursor |-> Place(s.deck, FALSE), now |-> s.now] : s \in saved}

\* Whatever order blocks, bytes and bits are walked in, and however late and
\* in however many calls, the EAR line carries the pulses of the list at their
\* own times; and the fast-load trap takes a block nobody has heard part of.
PlaysSignal == List!Spec

-----------------------------------------------------------------------------
(* The position readout.                                                   *)

\* block_duration_hc
Duration(b) ==
  FoldSeq(LAMBDA length, sum : length + sum, 0, b.pulses)
  + (IF b.pilot > 0 THEN b.pilot * b.pilot_t + b.sync1 + b.sync2 ELSE 0)
  + 2 * FoldSeq(LAMBDA length, sum : length + sum, 0, FlattenSeq(b.data))
  + b.pause

Smaller(x, y) == IF x < y THEN x ELSE y

\* status().position_ms
Position(d, hc) ==
  FoldSeq(LAMBDA b, sum : Duration(b) + sum, 0, SubSeq(blocks, 1, d.block - 1))
  + IF d.playing /\ hc > d.block_start /\ d.block <= Len(blocks)
    THEN Smaller(hc - d.block_start, Duration(blocks[d.block]))
    ELSE 0

\* Unless somebody touches the deck or the clock, the position it reports only
\* moves forward, fast-loaded blocks and stopping ones included.
PositionForward ==
  [][Tick \/ Pull \/ Walk \/ FastLoad => Position(deck', now') >= Position(deck, now)]_vars

\* The tape gets on: so its position says, and a read of the port comes to an
\* end, however many empty pulses and blocks it walks over.
TapeGetsOn == PositionForward /\ PullReturns
=============================================================================
