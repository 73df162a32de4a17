--------------------------------- MODULE Tape ---------------------------------
(***************************************************************************)
(* The cassette deck (cpp-core/src/tape.cpp): playback of a parsed tape.   *)
(*                                                                         *)
(* Nothing clocks the tape.  The level on the EAR line is resolved when    *)
(* the CPU reads the port, a run yields or a checkpoint is taken, by       *)
(* walking the cursor past every pulse that has elapsed since.  The walk   *)
(* is the loop in ear_at around the loop in advance(); each turn of either *)
(* is a step here, between which nothing else of the machine moves.        *)
(*                                                                         *)
(* Time is counted in the shortest pause, TAPE_EDGE_PAUSE_MS.  A data byte *)
(* is the sequence of its bits that are played, which is where             *)
(* last_byte_bits went, and a bit is the length of each of its two pulses. *)
(***************************************************************************)
EXTENDS Naturals, Sequences, FiniteSets

CONSTANTS
  Images,   \* what the parser can make of a tape image
  MaxHc,    \* bound: how far the clock runs
  MaxSaved, \* bound: checkpoints in the history
  MaxOps    \* bound: operations on the deck

Edge == 1  \* TAPE_EDGE_PAUSE_MS

\* TapeBlock, as far as playback can tell two blocks apart.
Blocks ==
  [pulses : Seq(Nat), pilot : Nat, pilot_t : Nat, sync1 : Nat, sync2 : Nat,
   data : Seq(Seq(Nat)), pause : Nat, stop : BOOLEAN, standard : BOOLEAN]

ASSUME TapeAssumption == Images \subseteq Seq(Blocks) \ {<<>>} /\ {MaxHc, MaxSaved, MaxOps} \subseteq Nat

VARIABLES
  blocks,  \* blocks_
  deck,    \* the playback cursor, as Tape::State saves it
  now,     \* global_hc()
  saved,   \* the history's checkpoints: [deck, now]
  ops,     \* operations so far, the tape's own motion apart
  at       \* "free", or within ear_at: "ear" at its loop, "advance" in advance()

vars == <<blocks, deck, now, saved, ops, at>>

\* An operation comes between two reads of the port, never within one.
Operation == at = "free" /\ ops < MaxOps /\ ops' = ops + 1

Phases == {"idle", "pilot", "sync1", "sync2", "data", "pulses", "pause", "end"}

\* The cursor a seek leaves: at the start of a block, with the motor off.
Stopped(block, tape) ==
  [playing |-> FALSE, at_end |-> tape # <<>> /\ block > Len(tape), block |-> block,
   phase |-> "idle", byte |-> 1, bit |-> 1, second_half |-> FALSE, pulses_left |-> 0,
   level |-> FALSE, pulse_start |-> 0, pulse |-> 0, block_start |-> 0]

Init ==
  /\ blocks = <<>>
  /\ deck = Stopped(1, <<>>)
  /\ now = 0
  /\ saved = {}
  /\ ops = 0
  /\ at = "free"

-----------------------------------------------------------------------------
(* What is on the tape.                                                    *)

HasSignal(b) == b.pulses # <<>> \/ b.pilot > 0 \/ b.data # <<>>

\* insert gives a block whose last edge nothing would end the shortest pause.
LeadOut(tape) ==
  [k \in DOMAIN tape |->
     IF tape[k].pause = 0 /\ HasSignal(tape[k]) /\ (k = Len(tape) \/ tape[k + 1].stop)
     THEN [tape[k] EXCEPT !.pause = Edge]
     ELSE tape[k]]

\* A new tape, or none: the cursor goes to its start and the history, whose
\* checkpoints say where on the tape they are, ends.
Load(tape) ==
  /\ Operation
  /\ blocks' = tape
  /\ deck' = Stopped(1, tape)
  /\ saved' = {}
  /\ UNCHANGED <<now, at>>

Insert == \E image \in Images : Load(LeadOut(image))

EjectKeepingHistory ==
  /\ Operation
  /\ blocks' = <<>>
  /\ deck' = Stopped(1, <<>>)
  /\ UNCHANGED <<now, saved, at>>

Eject == Load(<<>>)

-----------------------------------------------------------------------------
(* The transport.                                                          *)

\* seek, clamped to just past the last block; rewind is a seek to the first.
Seek ==
  /\ Operation
  /\ \E index \in 1..(Len(blocks) + 1) : deck' = Stopped(index, blocks)
  /\ UNCHANGED <<blocks, now, saved, at>>

\* play: the pulse in flight is abandoned, so one is picked at once.
Play ==
  /\ Operation
  /\ deck.block <= Len(blocks)
  /\ deck' = [deck EXCEPT !.playing = TRUE, !.at_end = FALSE, !.pulse_start = now,
                          !.pulse = 0, !.level = TRUE,
                          !.block_start = IF deck.phase = "idle" THEN now ELSE @]
  /\ UNCHANGED <<blocks, now, saved, at>>

Stop ==
  /\ Operation
  /\ deck' = [deck EXCEPT !.playing = FALSE]
  /\ UNCHANGED <<blocks, now, saved, at>>


\* A reset restarts the clock, stops the motor and begins the history again.
Reset ==
  /\ Operation
  /\ now' = 0
  /\ deck' = [deck EXCEPT !.playing = FALSE]
  /\ saved' = {}
  /\ UNCHANGED <<blocks, at>>

Tick ==
  /\ at = "free"
  /\ now < MaxHc
  /\ now' = now + 1
  /\ UNCHANGED <<blocks, deck, saved, ops, at>>

-----------------------------------------------------------------------------
(* The walk.                                                               *)

Elapsed == now >= deck.pulse_start + deck.pulse

\* ear_at, or advance_to: a clock behind the cursor stops the motor.
Pull ==
  /\ at = "free"
  /\ deck.playing
  /\ IF now < deck.pulse_start
     THEN deck' = [deck EXCEPT !.playing = FALSE] /\ at' = at
     ELSE at' = "ear" /\ deck' = deck
  /\ UNCHANGED <<blocks, now, saved, ops>>

EndPulseLate ==
  /\ at = "ear"
  /\ IF Elapsed
     THEN deck' = [deck EXCEPT !.pulse_start = now] /\ at' = "advance"
     ELSE at' = "free" /\ deck' = deck
  /\ UNCHANGED <<blocks, now, saved, ops>>

\* ear_at's loop: a pulse that has elapsed ended when it was due, however late
\* anybody looks.
EndPulse ==
  /\ at = "ear"
  /\ IF Elapsed
     THEN deck' = [deck EXCEPT !.pulse_start = @ + deck.pulse] /\ at' = "advance"
     ELSE at' = "free" /\ deck' = deck
  /\ UNCHANGED <<blocks, now, saved, ops>>

Current == blocks[deck.block]

In(phase) == at = "advance" /\ deck.phase = phase

\* advance() goes round again with the cursor at d, or returns with it.
Continue(d) == deck' = d /\ at' = "advance" /\ UNCHANGED <<blocks, now, saved, ops>>
Returned(d) == deck' = d /\ at' = "ear" /\ UNCHANGED <<blocks, now, saved, ops>>

\* advance() says there is nothing more to play, and ear_at stops the motor.
RanOut(d) ==
  /\ deck' = [d EXCEPT !.playing = FALSE, !.at_end = d.block > Len(blocks)]
  /\ at' = "free"
  /\ UNCHANGED <<blocks, now, saved, ops>>

\* The level toggles and holds for so long.
Toggled(d, length) == [d EXCEPT !.level = ~@, !.pulse = length]

\* Which phase a block starts in, and with how many pulses.
Opening(b) ==
  CASE b.pulses # <<>>                                -> [phase |-> "pulses", left |-> Len(b.pulses)]
    [] b.pulses = <<>> /\ b.pilot > 0                 -> [phase |-> "pilot", left |-> b.pilot]
    [] b.pulses = <<>> /\ b.pilot = 0 /\ b.data # <<>> -> [phase |-> "data", left |-> 0]
    [] OTHER                                          -> [phase |-> "pause", left |-> 0]

Started ==
  [deck EXCEPT !.phase = Opening(Current).phase, !.pulses_left = Opening(Current).left,
               !.byte = 1, !.bit = 1, !.second_half = FALSE]

StartBlockStamped ==
  /\ In("idle")
  /\ IF deck.block > Len(blocks)
     THEN RanOut(deck)
     ELSE Continue([Started EXCEPT !.block_start = deck.pulse_start])

StartBlock ==
  /\ In("idle")
  /\ IF deck.block > Len(blocks) THEN RanOut(deck) ELSE Continue(Started)

PlayPulses ==
  /\ In("pulses")
  /\ IF deck.pulses_left > 0
     THEN Returned([Toggled(deck, Current.pulses[Len(Current.pulses) - deck.pulses_left + 1])
                      EXCEPT !.pulses_left = @ - 1])
     ELSE Continue([deck EXCEPT !.phase = "pause"])


PlayPilot ==
  /\ In("pilot")
  /\ IF deck.pulses_left > 0
     THEN Returned([Toggled(deck, Current.pilot_t) EXCEPT !.pulses_left = @ - 1])
     ELSE Continue([deck EXCEPT !.phase = "sync1"])

PlaySync1 ==
  /\ In("sync1")
  /\ Returned([Toggled(deck, Current.sync1) EXCEPT !.phase = "sync2"])

PlaySync2 ==
  /\ In("sync2")
  /\ Returned([Toggled(deck, Current.sync2)
                 EXCEPT !.phase = IF Current.data = <<>> THEN "pause" ELSE "data"])

\* Each bit is two pulses of its length, each byte the bits it plays.
PlayData ==
  /\ In("data")
  /\ IF deck.byte > Len(Current.data)
     THEN Continue([deck EXCEPT !.phase = "pause"])
     ELSE IF deck.bit <= Len(Current.data[deck.byte])
     THEN Returned([Toggled(deck, Current.data[deck.byte][deck.bit])
                      EXCEPT !.second_half = ~@, !.bit = IF deck.second_half THEN @ + 1 ELSE @])
     ELSE Continue([deck EXCEPT !.byte = @ + 1, !.bit = 1, !.second_half = FALSE])


\* A pause is one more edge, which ends the last bit, and then silence.
PlayPause ==
  /\ In("pause")
  /\ IF Current.pause = 0
     THEN Continue([deck EXCEPT !.phase = "end"])
     ELSE IF ~deck.second_half
     THEN Returned([Toggled(deck, Edge) EXCEPT !.second_half = TRUE])
     ELSE IF Current.pause > Edge
     THEN Returned([deck EXCEPT !.phase = "end", !.level = FALSE, !.pulse = Current.pause - Edge])
     ELSE Continue([deck EXCEPT !.phase = "end"])

\* The next block begins where the last pulse ended, unless this one stops the
\* tape.
EndBlock ==
  /\ In("end")
  /\ LET next == [deck EXCEPT !.block = @ + 1, !.phase = "idle", !.block_start = deck.pulse_start]
     IN IF Current.stop THEN RanOut(next) ELSE Continue(next)

Walk ==
  \/ EndPulse
  \/ StartBlock \/ PlayPulses \/ PlayPilot \/ PlaySync1 \/ PlaySync2
  \/ PlayData \/ PlayPause \/ EndBlock

-----------------------------------------------------------------------------
(* The rest of the machine.                                                *)

\* A caller that walks the tape first finds it so.
Walked == at = "free" /\ (deck.playing => now >= deck.pulse_start /\ ~Elapsed)

\* peek_standard_block: a whole one, none of whose data has been heard.
StandardBlock ==
  /\ deck.playing /\ deck.block <= Len(blocks)
  /\ deck.phase \in {"idle", "pilot", "sync1", "sync2"}
  /\ Current.standard /\ Current.data # <<>>

\* The fast-load trap, at the ROM's loader: the block is consumed and the tape
\* is silent for its pause.
FastLoad ==
  /\ Walked
  /\ StandardBlock
  /\ deck' = [deck EXCEPT !.block = @ + 1, !.phase = "idle", !.level = FALSE,
                          !.pulse_start = now, !.pulse = Current.pause, !.block_start = now]
  /\ UNCHANGED <<blocks, now, saved, ops, at>>

\* save_state, for a checkpoint, walks the tape first (older checkpoints may be
\* trimmed for it); restore_state goes back.
SaveState ==
  /\ Operation
  /\ Walked
  /\ \E kept \in SUBSET saved :
       Cardinality(kept) < MaxSaved /\ saved' = kept \cup {[deck |-> deck, now |-> now]}
  /\ UNCHANGED <<blocks, deck, now, at>>

RestoreState ==
  /\ Operation
  /\ \E s \in saved : deck' = s.deck /\ now' = s.now
  /\ UNCHANGED <<blocks, saved, at>>

Next ==
  \/ Insert \/ Eject
  \/ Seek \/ Play \/ Stop \/ Reset
  \/ Tick \/ Pull \/ Walk
  \/ FastLoad
  \/ SaveState \/ RestoreState

Spec == Init /\ [][Next]_vars

\* A call that has begun runs on: the walk is a loop in one thread.
FairSpec == Spec /\ WF_vars(Walk)

-----------------------------------------------------------------------------
(* Properties.                                                             *)

Decks ==
  [playing : BOOLEAN, at_end : BOOLEAN, block : Nat, phase : Phases, byte : Nat, bit : Nat,
   second_half : BOOLEAN, pulses_left : Nat, level : BOOLEAN, pulse_start : Nat, pulse : Nat,
   block_start : Nat]

\* The state's shape.
TypeOK ==
  /\ blocks \in Seq(Blocks)
  /\ deck \in Decks
  /\ now \in Nat
  /\ saved \in SUBSET [deck : Decks, now : Nat]
  /\ ops \in Nat
  /\ at \in {"free", "ear", "advance"}

\* A cursor that points into a tape: at one of its blocks unless it is between
\* blocks, and then within that block's pulses or bytes.
PointsInto(d, tape) ==
  /\ d.block \in 1..(Len(tape) + 1)
  /\ d.phase # "idle" => d.block \in 1..Len(tape)
  /\ d.phase = "pulses" => d.pulses_left <= Len(tape[d.block].pulses)
  /\ d.phase \in {"pilot", "sync1", "sync2", "data"} =>
       d.byte \in 1..(Len(tape[d.block].data) + 1) /\ d.bit >= 1

\* What advance() indexes is there, for the tape in the deck now and for every
\* checkpoint the history may go back to.
IndicesInRange ==
  PointsInto(deck, blocks) /\ \A s \in saved : PointsInto(s.deck, blocks)

\* The test in ear_at for a clock behind the cursor is a backstop: resets,
\* restores and fast loads leave no playing tape ahead of the clock.
NeverAhead ==
  /\ deck.playing => deck.pulse_start <= now
  /\ \A s \in saved : s.deck.playing => s.deck.pulse_start <= s.now

\* Both: a cursor fits its tape and its instant.
CursorFits == IndicesInRange /\ NeverAhead

\* ear_at returns.
PullReturns == at # "free" ~> at = "free"
=============================================================================
